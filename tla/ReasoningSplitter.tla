------------------------- MODULE ReasoningSplitter -------------------------
(***************************************************************************)
(* ReasoningSplitter of packages/gateway/mc_gateway/gateway.py: separates  *)
(* the thinking of a language model from its answer while the reply is     *)
(* still streaming in, in pieces cut at arbitrary places.                  *)
(*                                                                         *)
(* Text is a sequence of characters.  The tags <think> and </think> are    *)
(* shortened to OpenTag and CloseTag, which keep what matters about them:  *)
(* they begin alike, differ in their second character, and may be split    *)
(* anywhere.  The module is a state machine driven by the pieces of one    *)
(* reply; `input' remembers the reply so that what came out can be         *)
(* compared with what the whole reply should give.                         *)
(*                                                                         *)
(* A definition X_Y that precedes X is X with a plausible bug.             *)
(***************************************************************************)
EXTENDS Integers, Sequences, FiniteSets, FiniteSetsExt

CONSTANTS
  Chars,       \* the characters replies are made of
  Space,       \* the white space among them
  OpenTag, CloseTag,
  Styles,      \* what may be remembered of the deployment's earlier replies
  MaxInput,    \* bound on the length of a reply
  MaxPiece     \* bound on the length of one piece

ASSUME TagAssumption ==
  /\ OpenTag \in Seq(Chars \ {Space}) /\ Len(OpenTag) > 1
  /\ CloseTag \in Seq(Chars \ {Space}) /\ Len(CloseTag) > 1
  /\ Styles \subseteq {"unknown", "none", "tags", "closing"}
  /\ MaxInput \in Nat /\ MaxPiece \in Nat

VARIABLES
  style,      \* the remembered style; "unknown" for None
  state,      \* "start", "thinking", "undecided" or "answer"
  buffer,     \* text not yet given out
  held,       \* text given out as thinking that may be an answer after all
  sawClose, sawOpen,
  strip,      \* strip_answer: the answer has not begun yet
  input,      \* the content received so far
  thought,    \* what was given out as reasoning
  answer,     \* what was given out as text
  learned,    \* learned_style() once the reply has ended, else "unknown"
  fieldUsed   \* history: the runtime has streamed a separate reasoning field

vars == <<style, state, buffer, held, sawClose, sawOpen, strip, input,
          thought, answer, learned, fieldUsed>>

-----------------------------------------------------------------------------
(* Text.                                                                   *)

StartsWith(s, tag) == Len(tag) <= Len(s) /\ SubSeq(s, 1, Len(tag)) = tag
Drop(s, n) == SubSeq(s, n + 1, Len(s))

\* str.find: where tag first occurs in s, or 0.
Find(s, tag) ==
  LET places == {i \in 1..(Len(s) - Len(tag) + 1) :
                   SubSeq(s, i, i + Len(tag) - 1) = tag}
  IN IF places = {} THEN 0 ELSE Min(places)

\* str.lstrip.
LStrip(s) ==
  Drop(s, Max({n \in 0..Len(s) : \A i \in 1..n : s[i] = Space}))

\* _partial_tag: the length of the longest proper beginning of tag that s
\* ends with.
PartialTag_Never(s, tag) == 0
PartialTag(s, tag) ==
  Max({0} \cup {n \in 1..(Len(tag) - 1) :
                  n <= Len(s) /\ Drop(s, Len(s) - n) = SubSeq(tag, 1, n)})

-----------------------------------------------------------------------------
(* The loop of feed(), on a record of the fields and outputs it changes.   *)

Fields == [state |-> state, buffer |-> buffer, held |-> held,
           close |-> sawClose, open |-> sawOpen, strip |-> strip,
           thought |-> thought, answer |-> answer]

\* _answer: white space before the first character of an answer is dropped.
Answer(f, text) ==
  LET shown == IF f.strip THEN LStrip(text) ELSE text
  IN [f EXCEPT !.answer = @ \o shown, !.strip = @ /\ shown = <<>>]

Think(f, text) == [f EXCEPT !.thought = @ \o text]

\* Everything but a possible beginning of the closing tag is given out.
Ready(f) == SubSeq(f.buffer, 1, Len(f.buffer) - PartialTag(f.buffer, CloseTag))
Keep(f) == Drop(f.buffer, Len(Ready(f)))

\* The text before and after the first closing tag.
Before(f) == SubSeq(f.buffer, 1, Find(f.buffer, CloseTag) - 1)
After(f) == Drop(f.buffer, Find(f.buffer, CloseTag) + Len(CloseTag) - 1)

\* One turn of the loop.  A turn that breaks out of it keeps a buffer that
\* another turn, as one with an empty buffer, would change nothing about.
Turn(f) ==
  LET stripped == LStrip(f.buffer)
      closes == Find(f.buffer, CloseTag) > 0
  IN CASE f.state = "start" ->
            IF StartsWith(stripped, OpenTag)
            THEN [f EXCEPT !.open = TRUE, !.state = "thinking",
                           !.buffer = Drop(stripped, Len(OpenTag))]
            ELSE IF StartsWith(OpenTag, stripped)
            THEN f
            ELSE [f EXCEPT !.state = IF style = "none" THEN "answer" ELSE "undecided"]
       [] f.state \in {"thinking", "undecided"} ->
            IF closes
            THEN [Think(f, Before(f)) EXCEPT
                    !.close = TRUE, !.held = <<>>, !.buffer = After(f),
                    !.state = "answer", !.strip = TRUE]
            ELSE [Think(f, Ready(f)) EXCEPT
                    !.buffer = Keep(f),
                    !.held = IF f.state = "undecided" THEN @ \o Ready(f) ELSE @]
       [] f.state = "answer" ->
            IF closes
            THEN [Answer(f, Before(f)) EXCEPT !.close = TRUE, !.buffer = After(f)]
            ELSE [Answer(f, Ready(f)) EXCEPT !.buffer = Keep(f)]

\* Every turn that goes on shortens the buffer, except the one that decides how
\* a reply begins.
Loop(f) ==
  LET turns[n \in 0..Len(f.buffer) + 1] == IF n = 0 THEN f ELSE Turn(turns[n - 1])
  IN turns[Len(f.buffer) + 1]

Become(f) ==
  /\ state' = f.state /\ buffer' = f.buffer /\ held' = f.held
  /\ sawClose' = f.close /\ sawOpen' = f.open /\ strip' = f.strip
  /\ thought' = f.thought /\ answer' = f.answer

-----------------------------------------------------------------------------
Init ==
  /\ style \in Styles
  /\ state = "start" /\ buffer = <<>> /\ held = <<>>
  /\ sawClose = FALSE /\ sawOpen = FALSE /\ strip = FALSE
  /\ input = <<>> /\ thought = <<>> /\ answer = <<>> /\ learned = "unknown"
  /\ fieldUsed = FALSE

\* The pieces a reply may come in.
Pieces == UNION {[1..n -> Chars] : n \in 1..MaxPiece}

\* feed().
Feed(piece) ==
  /\ state # "finished" /\ Len(input) + Len(piece) <= MaxInput
  /\ input' = input \o piece
  /\ Become(Loop([Fields EXCEPT !.buffer = @ \o piece]))
  /\ UNCHANGED <<style, learned, fieldUsed>>

\* use_reasoning_field(): the runtime separates thinking by itself.  The
\* delta of the field goes to the client directly and is not shown here.
UseReasoningField ==
  /\ state \in {"start", "undecided"}
  /\ state' = "answer" /\ strip' = TRUE /\ fieldUsed' = TRUE
  /\ UNCHANGED <<style, buffer, held, sawClose, sawOpen, input, thought,
                 answer, learned>>

\* learned_style().
LearnedStyle ==
  IF sawClose /\ ~sawOpen THEN "closing"
  ELSE IF sawOpen THEN "tags" ELSE "none"

\* finish(), and learned_style() after it.
Finish_DropsHeld ==
  /\ state # "finished"
  /\ Become([Answer(Fields, IF state = "thinking" THEN <<>> ELSE buffer)
               EXCEPT !.state = "finished"])
  /\ learned' = LearnedStyle
  /\ UNCHANGED <<style, input, fieldUsed>>
Finish ==
  /\ state # "finished"
  /\ LET text == CASE state = "undecided" -> held \o buffer
                   [] state = "thinking" -> <<>>
                   [] OTHER -> buffer
     IN Become([Answer(Fields, text) EXCEPT !.state = "finished"])
  /\ learned' = LearnedStyle
  /\ UNCHANGED <<style, input, fieldUsed>>

-----------------------------------------------------------------------------
(* What a whole reply should give, however it is cut into pieces.          *)

\* The first closing tag of what is to do, and the text before it, are done.
DropTag(f) ==
  LET i == Find(f.todo, CloseTag)
  IN IF i = 0 THEN f
     ELSE [done |-> f.done \o SubSeq(f.todo, 1, i - 1),
           todo |-> Drop(f.todo, i + Len(CloseTag) - 1)]

\* Closing tags are dropped from an answer.
Untagged(s) ==
  LET dropping[n \in 0..Len(s)] ==
        IF n = 0 THEN [done |-> <<>>, todo |-> s] ELSE DropTag(dropping[n - 1])
  IN dropping[Len(s)].done \o dropping[Len(s)].todo

\* Thinking and answer of text that begins inside the thinking; `kept' is the
\* answer when the thinking is never closed.
SplitAtClose(s, kept) ==
  LET i == Find(s, CloseTag)
  IN IF i = 0
     THEN [thought |-> SubSeq(s, 1, Len(s) - PartialTag(s, CloseTag)),
           answer |-> kept, style |-> "none"]
     ELSE [thought |-> SubSeq(s, 1, i - 1),
           answer |-> LStrip(Untagged(Drop(s, i + Len(CloseTag) - 1))),
           style |-> "closing"]

\* The reply s of a deployment whose remembered style is st.
Expected(s, st) ==
  LET begun == LStrip(s)
  IN IF StartsWith(begun, OpenTag)
     THEN [SplitAtClose(Drop(begun, Len(OpenTag)), <<>>)
             EXCEPT !.style = "tags"]
     ELSE IF StartsWith(OpenTag, begun)
     THEN [thought |-> <<>>, answer |-> s, style |-> "none"]
     ELSE IF st = "none"
     THEN [thought |-> <<>>, answer |-> Untagged(s),
           style |-> IF Find(s, CloseTag) > 0 THEN "closing" ELSE "none"]
     ELSE SplitAtClose(s, s)

Given == [thought |-> thought, answer |-> answer, style |-> learned]

-----------------------------------------------------------------------------
(* What the splitter promises; ReplyText checks it with what comes after.  *)

\* Where the stream was cut does not matter: thinking, answer and learned
\* style are those of the whole reply, even if a tag arrives one character
\* at a time or is never finished.
PiecesDoNotMatter ==
  state = "finished" /\ ~fieldUsed => Given = Expected(input, style)

\* The buffer is empty between pieces, or may still become a tag.  In the state
\* "undecided" what has left the buffer is shown as thinking, and is answered
\* only when the reply ends.
OnlyPartialTagsHeld ==
  /\ state \in {"thinking", "undecided", "answer"} /\ ~fieldUsed =>
       PartialTag(buffer, CloseTag) = Len(buffer)
  /\ state = "start" =>
       StartsWith(OpenTag, LStrip(buffer)) /\ LStrip(buffer) # OpenTag

\* What the client is shown as thinking and never as answer: all that was
\* given out as thinking, unless finish() released it.
Hidden == IF sawOpen \/ sawClose \/ fieldUsed THEN thought ELSE <<>>

\* The characters of words: white space may be stripped, and a tag disappears.
WordChars == Chars \ ({Space} \cup {OpenTag[i] : i \in DOMAIN OpenTag}
                               \cup {CloseTag[i] : i \in DOMAIN CloseTag})

Occurrences(s, ch) == Cardinality({i \in DOMAIN s : s[i] = ch})

\* Every word is either hidden or answered, and answered once.  Without a tag
\* and without a reasoning field nothing stays hidden: the held text is
\* released.  After use_reasoning_field() the text held until then stays
\* hidden, which HeldTextIsReleased is about.
NoWordLost ==
  state = "finished" =>
    \A ch \in WordChars :
      Occurrences(answer, ch) + Occurrences(Hidden, ch) = Occurrences(input, ch)

\* The docstring: "text is held back as possible thinking and released as answer
\* if no closing tag arrives".  What is still held when such a reply ends is
\* part of its answer.  The code keeps this unless the runtime switches to its
\* reasoning field: use_reasoning_field() leaves the held text behind.
HeldTextIsReleased ==
  state = "finished" /\ ~sawClose =>
    \A ch \in WordChars : Occurrences(held, ch) <= Occurrences(answer, ch)

=============================================================================
