--------------------------- MODULE ReasoningStyle ---------------------------
(***************************************************************************)
(* What the gateway remembers about the thinking tags of each deployment:  *)
(* remember_reasoning_style of packages/gateway/mc_gateway/gateway.py, and *)
(* its use by stream_voice_chat, where any number of replies of one        *)
(* deployment may be streaming at once.                                    *)
(*                                                                         *)
(* A reply reads the style when it begins.  Under "none" its text is       *)
(* spoken as it comes; under any other it is held back until it is known   *)
(* not to be thinking.  A reply that ends tells the style it turned out to *)
(* have; a reply that fails or is left by its client tells nothing.        *)
(*                                                                         *)
(* A definition X_Y that precedes X is X with a plausible bug.             *)
(***************************************************************************)
EXTENDS Integers, Sequences

CONSTANTS
  Deployments,
  Replies,      \* the voice replies of one run of the gateway
  DeploymentOf, \* the deployment that makes each reply
  RunsBeforeNone  \* _TAGLESS_RUNS_BEFORE_NONE

ASSUME StyleAssumption ==
  /\ DeploymentOf \in [Replies -> Deployments]
  /\ RunsBeforeNone \in Nat \ {0}

VARIABLES
  styles,   \* _reasoning_styles, "unknown" where it has no entry
  runs,     \* _tagless_runs, 0 where it has no entry
  readAs,   \* the style each reply read when it began, "waiting" before
  over,     \* the replies that have ended
  told      \* the styles the ended replies of each deployment told, in order

styleVars == <<styles, runs, readAs, over, told>>

Learned == {"none", "tags", "closing"}   \* what learned_style() may return

-----------------------------------------------------------------------------
StyleInit ==
  /\ styles = [d \in Deployments |-> "unknown"]
  /\ runs = [d \in Deployments |-> 0]
  /\ readAs = [r \in Replies |-> "waiting"]
  /\ over = {}
  /\ told = [d \in Deployments |-> <<>>]

\* ReasoningSplitter(_reasoning_styles.get(style_key)).
Begin(r) ==
  /\ readAs[r] = "waiting"
  /\ readAs' = [readAs EXCEPT ![r] = styles[DeploymentOf[r]]]
  /\ UNCHANGED <<styles, runs, over, told>>

\* remember_reasoning_style for a reply with tags.
RememberTags_KeepsRuns(d, st) ==
  /\ st # "none"
  /\ styles' = [styles EXCEPT ![d] = st]
  /\ UNCHANGED runs
RememberTags(d, st) ==
  /\ st # "none"
  /\ runs' = [runs EXCEPT ![d] = 0]
  /\ styles' = [styles EXCEPT ![d] = st]

\* remember_reasoning_style for a reply without tags: the style is forgotten
\* only when enough of them have come in a row.
RememberNone(d, st) ==
  /\ st = "none"
  /\ runs' = [runs EXCEPT ![d] = @ + 1]
  /\ styles' = IF runs[d] + 1 >= RunsBeforeNone
               THEN [styles EXCEPT ![d] = "none"] ELSE styles

\* read_llm reaches the end of its stream.
End(r, st) ==
  LET d == DeploymentOf[r]
  IN /\ readAs[r] # "waiting" /\ r \notin over
     /\ RememberTags(d, st) \/ RememberNone(d, st)
     /\ over' = over \cup {r}
     /\ told' = [told EXCEPT ![d] = Append(@, st)]
     /\ UNCHANGED readAs

\* The reply fails or is cancelled.
Fail(r) ==
  /\ readAs[r] # "waiting" /\ r \notin over
  /\ over' = over \cup {r}
  /\ UNCHANGED <<styles, runs, readAs, told>>

AllOver == over = Replies /\ UNCHANGED styleVars

StyleNext ==
  \/ \E r \in Replies : Begin(r) \/ Fail(r) \/ \E st \in Learned : End(r, st)
  \/ AllOver

StyleSpec == StyleInit /\ [][StyleNext]_styleVars

-----------------------------------------------------------------------------
(* Properties.                                                             *)

\* Every variable has its type.
StyleTypeOK ==
  /\ styles \in [Deployments -> Learned \cup {"unknown"}]
  /\ runs \in [Deployments -> Nat]
  /\ readAs \in [Replies -> Learned \cup {"unknown", "waiting"}]
  /\ over \subseteq Replies
  /\ told \in [Deployments -> Seq(Learned)]

\* The last n replies of deployment d had no tags.
TaglessRun(d, n) ==
  /\ n <= Len(told[d])
  /\ \A i \in DOMAIN told[d] : i > Len(told[d]) - n => told[d][i] = "none"

\* "Streams answers directly only after several replies arrive without
\* thinking tags": while text is spoken unheld, the latest replies of the
\* deployment that told anything had no tags, in whatever order concurrent
\* replies began and ended.
DirectOnlyAfterTaglessRun ==
  \A d \in Deployments : styles[d] = "none" => TaglessRun(d, RunsBeforeNone)

=============================================================================
