------------------------------ MODULE ReplyText ------------------------------
(***************************************************************************)
(* read_llm of stream_voice_chat, packages/gateway/mc_gateway/gateway.py:  *)
(* the pieces of a reply go through ReasoningSplitter, the answer that     *)
(* comes out goes through SentenceCutter, and the sentences are spoken.    *)
(* The text that one call of the splitter gives out is cut at once.        *)
(***************************************************************************)
EXTENDS ReasoningSplitter

CONSTANTS Letters, Breaks, Flush   \* see SentenceCutter

ASSUME LettersAssumption == Space \notin Letters /\ Flush \in Nat

VARIABLES
  toSay,      \* read_llm's buffer: the answer not cut into sentences yet
  said,       \* the sentences put on the queue
  ended       \* the last of them has been

replyVars == <<vars, toSay, said, ended>>

Cutter == INSTANCE SentenceCutter
            WITH input <- answer, buffer <- toSay, Spaces <- {Space}

ReplyInit == Init /\ Cutter!Init

\* emit(): what the splitter has just added to the answer.
Added == Drop(answer', Len(answer))

\* A delta with content.
Receive(piece) == Feed(piece) /\ Cutter!Emit(Added)

\* A delta with reasoning.
ReceiveReasoning == UseReasoningField /\ UNCHANGED <<toSay, said, ended>>

\* The stream's end: splitter.finish(), and then the tail.
ReceiveEnd == Finish /\ Cutter!Emit(Added)
SpeakTail == state = "finished" /\ Cutter!EndReply /\ UNCHANGED vars

ReplyOver == ended /\ UNCHANGED replyVars

ReplyNext ==
  \/ \E piece \in Pieces : Receive(piece)
  \/ ReceiveReasoning \/ ReceiveEnd \/ SpeakTail \/ ReplyOver

ReplySpec == ReplyInit /\ [][ReplyNext]_replyVars

-----------------------------------------------------------------------------
(* Properties.                                                             *)

\* Where the stream was cut does not matter to what is heard: at every moment
\* the sentences are those of the answer so far, and at the end thinking,
\* answer, learned style and sentences are those of the whole reply, even if
\* a tag arrives one character at a time or is never finished (feed, finish,
\* take_sentences).
SpeechIgnoresPieces ==
  /\ PiecesDoNotMatter
  /\ Cutter!PiecesDoNotMatter
  /\ ended /\ ~fieldUsed => said = Cutter!Sentences(Expected(input, style).answer)

\* No word disappears between the runtime and the listener, and none is
\* spoken twice: each is spoken exactly once unless the client was shown it
\* as thinking and never as answer, which happens before a closing tag, after
\* an opening one and, contrary to the splitter's docstring, to text that was
\* held when the runtime switched to its reasoning field (feed,
\* use_reasoning_field, finish, read_llm's buffer).
EveryWordReachesTheListener == NoWordLost /\ Cutter!EveryLetterSpokenOnce

\* Neither buffer keeps text longer than it must: the splitter's is empty or
\* may become a tag, the cutter's is empty or
\* may become a sentence (_partial_tag,
\* take_sentences).  Text held as possible thinking is in neither: until
\* the reply is known to have no thinking, it is kept from speech by design.
NothingWaitsInVain == OnlyPartialTagsHeld /\ Cutter!NoSentenceWaits

=============================================================================
