--------------------------- MODULE SentenceCutter ---------------------------
(***************************************************************************)
(* take_sentences of packages/gateway/mc_gateway/gateway.py and the buffer *)
(* read_llm keeps around it: the answer is cut into sentences to be spoken *)
(* while it streams in, in pieces cut at arbitrary places.                 *)
(*                                                                         *)
(* A character is a letter (or digit), a space, a break (. ! ? or a line   *)
(* end) or none of them.  ReplyText joins the cutter to the splitter that  *)
(* the answer comes from.                                                  *)
(*                                                                         *)
(* A definition X_Y that precedes X is X with a plausible bug.             *)
(***************************************************************************)
EXTENDS Integers, SequencesExt

CONSTANTS
  Letters, Spaces, Breaks,   \* the kinds of characters
  Flush       \* _SENTENCE_FLUSH: from here on a space ends a sentence too

VARIABLES
  input,   \* the answer received so far
  buffer,  \* what is not cut yet
  said,    \* the sentences put on the queue
  ended    \* the reply has ended

vars == <<input, buffer, said, ended>>

-----------------------------------------------------------------------------
HasLetter(s) == \E i \in DOMAIN s : s[i] \in Letters

\* str.strip: white space is dropped at both ends; a line end at the end of a
\* sentence goes too, which no property below can tell from a full stop.
Strip(s) ==
  LET solid == {i \in DOMAIN s : s[i] \notin Spaces}
  IN IF solid = {} THEN <<>> ELSE SubSeq(s, Min(solid), Max(solid))

\* A piece without letters or digits is not a sentence.
Spoken(s) == IF HasLetter(s) THEN <<Strip(s)>> ELSE <<>>

\* A piece this long ends at the next space.
TooLong_OneMore(start, index) == index - start > Flush
TooLong(start, index) == index - start >= Flush

\* One turn of the loop over the buffer, for its character i; `start' counts from
\* 0 as in the code, where the character has the index i - 1.
Scan(s, f, i) ==
  IF s[i] \in Breaks
  THEN [start |-> i, found |-> f.found \o Spoken(SubSeq(s, f.start + 1, i))]
  ELSE IF TooLong(f.start, i - 1) /\ s[i] \in Spaces
  THEN [start |-> i, found |-> f.found \o Spoken(SubSeq(s, f.start + 1, i - 1))]
  ELSE f

\* scanned[i]: the first i characters have been looked at.
TakeSentences(s) ==
  LET scanned[i \in 0..Len(s)] ==
        IF i = 0 THEN [start |-> 0, found |-> <<>>] ELSE Scan(s, scanned[i - 1], i)
      f == scanned[Len(s)]
  IN [ready |-> f.found, rest |-> SubSeq(s, f.start + 1, Len(s))]

-----------------------------------------------------------------------------
Init == input = <<>> /\ buffer = <<>> /\ said = <<>> /\ ended = FALSE

\* emit() of one text delta.
Emit(piece) ==
  /\ ~ended
  /\ input' = input \o piece
  /\ LET cut == TakeSentences(buffer \o piece)
     IN said' = said \o cut.ready /\ buffer' = cut.rest
  /\ UNCHANGED ended

\* The end of the reply: what is left is a last sentence if it has letters.
EndReply ==
  /\ ~ended
  /\ ended' = TRUE
  /\ said' = said \o Spoken(buffer)
  /\ UNCHANGED <<input, buffer>>

-----------------------------------------------------------------------------
(* What the cutter promises.                                               *)

\* The sentences of a whole answer.
Sentences(s) == LET whole == TakeSentences(s) IN whole.ready \o Spoken(whole.rest)

\* Where the stream was cut does not matter: the sentences are those of the
\* whole answer, so speech does not depend on the network's packets.
PiecesDoNotMatter ==
  LET whole == TakeSentences(input)
  IN IF ended THEN said = Sentences(input)
     ELSE said = whole.ready /\ buffer = whole.rest

\* Every letter is spoken exactly once: those of the reply are those of the
\* sentences, in order, and of the buffer that is still to be cut.
EveryLetterSpokenOnce ==
  LET Count(s) == Cardinality({i \in DOMAIN s : s[i] \in Letters})
  IN Count(FlattenSeq(said)) + (IF ended THEN 0 ELSE Count(buffer)) = Count(input)

\* No sentence makes the listener wait: it holds no break before its end and
\* no space after its first Flush characters, and what waits in the buffer
\* holds neither.
NoSentenceWaits ==
  /\ \A k \in DOMAIN said : \A i \in DOMAIN said[k] :
       /\ said[k][i] \in Breaks => i = Len(said[k])
       /\ said[k][i] \in Spaces => i <= Flush
  /\ \A i \in DOMAIN buffer :
       buffer[i] \notin Breaks /\ (buffer[i] \in Spaces => i <= Flush)

=============================================================================
