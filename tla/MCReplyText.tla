----------------------------- MODULE MCReplyText -----------------------------
(* Values for model checking ReplyText and ReasoningStyle.  <think> is     *)
(* "<t" and </think> is "</t"; "t" is also the letter of words, and "."    *)
(* ends sentences.  A behaviour follows either the text of one reply or    *)
(* what is remembered of many: four of one deployment, one of another.     *)
(* The remembered style is free when the text of a reply is followed.      *)
EXTENDS ReplyText, ReasoningStyle

VARIABLE many     \* the behaviour follows many replies

textVars == <<replyVars, styleVars, many>>

TextInit ==
  /\ ReplyInit /\ StyleInit
  /\ many \in BOOLEAN
  /\ many => style = "unknown"

TextNext ==
  \/ ~many /\ ReplyNext /\ UNCHANGED <<styleVars, many>>
  \/ many /\ StyleNext /\ UNCHANGED <<replyVars, many>>

TextSpec == TextInit /\ [][TextNext]_textVars

MCChars == {"<", "/", "t", ".", " "}
MCOpenTag == <<"<", "t">>
MCCloseTag == <<"<", "/", "t">>
MCStyles == {"unknown", "none"}
MCDeploymentOf == [r \in Replies |-> IF r = "r5" THEN "d2" ELSE "d1"]
=============================================================================
