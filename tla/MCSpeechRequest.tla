-------------------------- MODULE MCSpeechRequest --------------------------
(* Instance of SpeechRequest: a sentence of up to two words for the        *)
(* gateway's request, while the other client wants a sentence of two       *)
(* chunks, two sentences or nothing; or nothing for the gateway's request  *)
(* and any sentence of MaxWords words for the other client.                *)
EXTENDS SpeechRequest

CONSTANT MaxWords

Word(n, e, d) == [tokens |-> n, ezafe |-> e, ends |-> d]

\* The sentences of n words.  An ezafe does not end a clause.
SentencesOf(n) ==
  {s \in [1..n -> {Word(k, e, d) : k \in {1, 3}, e \in BOOLEAN, d \in BOOLEAN}] :
     /\ \A i \in 1..n : ~(s[i].ezafe /\ s[i].ends)
     /\ n = 0 \/ s[n].ends}

Long == <<Word(3, FALSE, FALSE), Word(3, FALSE, TRUE)>>
ShortOne == <<Word(1, FALSE, TRUE)>>

TextsOf ==
  LET of(ours, theirs) ==
        {[c \in Clients |-> IF c = Us THEN x ELSE y] : x \in ours, y \in theirs}
  IN of({<<s>> : s \in UNION {SentencesOf(n) : n \in 0..2}},
        {<<Long>>, <<ShortOne, Long>>, <<>>})
     \cup of({<<>>}, {<<s>> : s \in SentencesOf(MaxWords)})

=============================================================================
