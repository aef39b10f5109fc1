------------------------------ MODULE SpeechPlan ------------------------------
(***************************************************************************)
(* How the speech server divides a text into the chunks it synthesises:    *)
(* plan_sentence and the plan of render in apps/tts/pocket_engine.py.      *)
(*                                                                         *)
(* A text is a sequence of sentences, a sentence a sequence of phoneme     *)
(* words.  A word is what the plan looks at: its tokens, whether it ends   *)
(* with the ezafe mark, which ties it to the next word, and whether it     *)
(* ends its clause.  The tokens of several words are taken for the sum of  *)
(* theirs.  A chunk is given by its first and last word.  The code repeats *)
(* the cutting up to four times, with the same result each time.           *)
(***************************************************************************)
EXTENDS Integers, SequencesExt

CONSTANTS
  MaxTokens,    \* DEFAULT_MAX_TOKENS: what a chunk should not exceed
  MinTokens     \* DEFAULT_MIN_TOKENS: what it should have

Words == [tokens : Nat, ezafe : BOOLEAN, ends : BOOLEAN]

Tokens(s, first, last) ==
  FoldLeft(LAMBDA n, w : n + w.tokens, 0, SubSeq(s, first, last))

Chunk(first, last, kind) == [first |-> first, last |-> last, kind |-> kind]

\* The cutting of s has come to word i; the chunk that grows begins at `cur',
\* 0 while it is empty.
Bound_Never(s, cur, i) == FALSE
Bound(s, cur, i) == cur # 0 /\ s[i - 1].ezafe

Cut(s, f, i) ==
  LET begun == IF f.cur = 0 THEN i ELSE f.cur
      over == Tokens(s, begun, i) > MaxTokens
      clause == /\ s[i].ends /\ i < Len(s)
                /\ Tokens(s, begun, i) >= MinTokens
                /\ Tokens(s, i + 1, Len(s)) >= MinTokens
  IN IF f.cur # 0 /\ ~Bound(s, f.cur, i) /\ over
     THEN [cur |-> i, out |-> Append(f.out, Chunk(f.cur, i - 1, "budget"))]
     ELSE IF clause
     THEN [cur |-> 0, out |-> Append(f.out, Chunk(begun, i, "clause"))]
     ELSE [cur |-> begun, out |-> f.out]

\* cutting[i]: words 1 to i are cut.
Chunks(s) ==
  LET cutting[i \in 0..Len(s)] ==
        IF i = 0 THEN [cur |-> 0, out |-> <<>>] ELSE Cut(s, cutting[i - 1], i)
      f == cutting[Len(s)]
  IN IF f.cur = 0 THEN f.out ELSE Append(f.out, Chunk(f.cur, Len(s), "clause"))

Short(s, first, last) == Tokens(s, first, last) < MinTokens
Spares(s, first, last) == first < last /\ Tokens(s, first, last - 1) >= MinTokens

\* Chunk k takes words from the one before, one at a time, while it is short
\* and the other has enough.
Borrow(s, out, k) ==
  LET before == out[k - 1]
      n == Min({m \in 0..before.last - before.first :
                  \/ ~Short(s, out[k].first - m, out[k].last)
                  \/ ~Spares(s, before.first, before.last - m)})
  IN [out EXCEPT ![k - 1].last = @ - n, ![k].first = @ - n]

\* plan_sentence; the tails are looked at from behind.  settled[j]: the last j
\* chunks have borrowed.
PlanSentence(s) ==
  LET out == Chunks(s)
      settled[j \in 0..Len(out) - 1] ==
        IF j = 0 THEN out ELSE Borrow(s, settled[j - 1], Len(out) + 1 - j)
  IN IF s = <<>> THEN <<>> ELSE settled[Len(out) - 1]

\* render: sentences without chunks are skipped, the last chunk of the others
\* ends its sentence.
Pieces(s, n) ==
  LET out == PlanSentence(s)
  IN [k \in DOMAIN out |->
        [sentence |-> n,
         chunk |-> IF k = Len(out) THEN [out[k] EXCEPT !.kind = "sentence"]
                   ELSE out[k]]]

PlanText(text) == FlattenSeq([n \in DOMAIN text |-> Pieces(text[n], n)])

-----------------------------------------------------------------------------
(* What a plan of sentence s should be.                                    *)

\* Every word is spoken once, and in its place.
WordsKept(s, out) ==
  IF s = <<>> THEN out = <<>>
  ELSE /\ out # <<>> /\ out[1].first = 1 /\ out[Len(out)].last = Len(s)
       /\ \A k \in DOMAIN out : out[k].first <= out[k].last
       /\ \A k \in 2..Len(out) : out[k].first = out[k - 1].last + 1

\* The chunk has a word that was taken from the chunk before it.
Borrowed(s, c) == Tokens(s, c.first + 1, c.last) < MinTokens

\* A chunk grows beyond the budget only over words tied to those before, or by
\* the words a short one has borrowed.
WithinBudget(s, out) ==
  \A c \in ToSet(out) : \A j \in c.first + 1..c.last :
    Tokens(s, c.first, j) > MaxTokens => s[j - 1].ezafe \/ Borrowed(s, c)

\* A word is cut off the word it is tied to only at the end of a clause, or
\* when a short chunk has borrowed the other.
TiesKept(s, out) ==
  \A k \in 1..Len(out) - 1 :
    s[out[k].last].ezafe => s[out[k].last].ends \/ Borrowed(s, out[k + 1])

\* A chunk other than the first is short only when the one before has nothing
\* to spare, or had nothing before it borrowed itself.
ShortOnlyIfNoneSpares(s, out) ==
  \A k \in 2..Len(out) :
    Short(s, out[k].first, out[k].last) =>
      \/ ~Spares(s, out[k - 1].first, out[k - 1].last)
      \/ Borrowed(s, out[k - 1])

GoodPlan(s, out) ==
  /\ WordsKept(s, out) /\ WithinBudget(s, out)
  /\ TiesKept(s, out) /\ ShortOnlyIfNoneSpares(s, out)

=============================================================================
