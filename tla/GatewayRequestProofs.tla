------------------------ MODULE GatewayRequestProofs ------------------------
(***************************************************************************)
(* That the usage table tells what the clients of the gateway got, and     *)
(* that an error answer has its own status, for streams of any length; and *)
(* that this stays so when the speech server is behind the gateway, whose  *)
(* plan of a text loses no word, so that a complete answer is whole.       *)
(***************************************************************************)
EXTENDS SpeechRequest, SequenceTheorems, FiniteSetTheorems, WellFoundedInduction,
        TLAPS

Running == {"received", "opening", "calling", "leading", "offered", "empty",
            "marked", "counting", "refusing"}

\* Nothing is recorded before the request is over, except of speech that ended
\* before its first byte, which is counted before it is answered.
NotYetCounted ==
  at \in Running => usage = IF at = "empty" THEN <<200>> ELSE <<>>

\* The client is one item behind while one is on its way, and never else.
Behind ==
  at \in Running \cup {"answered"} =>
    made = shown + (IF at \in {"leading", "offered"} THEN 1 ELSE 0)

\* Before the end only 200 can have been sent: by a chat stream from the start,
\* by speech once an item has been made, by the others never.
StatusSoFar ==
  at \in Running =>
    /\ status \in {0, 200}
    /\ endpoint = "chat_stream" /\ at # "received" => status = 200
    /\ endpoint = "speech" /\ shown = 0 /\ at # "offered" => status = 0
    /\ at = "offered" => status = 200
    /\ endpoint = "speech" /\ at \in {"calling", "counting"} /\ shown > 0 =>
         status = 200
    /\ ~Streaming(endpoint) => status = 0
    /\ at \in {"received", "opening"} => made = 0
    /\ at = "received" => status = 0
    /\ at \in {"leading", "empty"} => endpoint = "speech"
    /\ at = "empty" => status = 0
    /\ at = "marked" => endpoint = "chat_stream"
    /\ at = "refusing" => failure \in Errors \ {401}

IInv == TypeOK /\ NotYetCounted /\ Behind /\ StatusSoFar
          /\ RecordTellsAnswer /\ StatusIsHonest


-----------------------------------------------------------------------------
LEMMA InitHolds == Init => IInv
  BY BoundAssumption DEF Init, IInv, TypeOK, NotYetCounted, Behind, StatusSoFar,
     RecordTellsAnswer, StatusIsHonest, Endpoints, Streaming, Running, Ended,
     Errors

\* A record is appended to an empty table only.
LEMMA FirstRecord ==
  ASSUME NEW s \in {200} \cup Errors
  PROVE  Append(<<>>, s) = <<s>> /\ <<s>> \in Seq({200} \cup Errors)
  OBVIOUS

LEMMA StepHolds == IInv /\ [Next]_vars => IInv'
<1> USE DEF IInv, TypeOK, NotYetCounted, Behind, StatusSoFar,
            RecordTellsAnswer, StatusIsHonest, Endpoints, Streaming, Running,
            Ended, Errors
<1> SUFFICES ASSUME IInv, [Next]_vars PROVE IInv'
  OBVIOUS
<1> USE BoundAssumption
<1>1. CASE Authenticate
  <2>1. CASE Raise(401)
    BY <1>1, <2>1 DEF Authenticate, Raise, Line
  <2>2. CASE Crash
    BY <1>1, <2>2 DEF Authenticate, Crash, Line
  <2>3. CASE at' = "opening"
    BY <1>1, <2>3 DEF Authenticate, StatusFirst, Raise, Crash
  <2> QED
    BY <1>1, <2>1, <2>2, <2>3 DEF Authenticate
<1>2. CASE Open
  <2>1. CASE Crash
    BY <1>2, <2>1 DEF Open, Crash, Line
  <2>2. ASSUME NEW s \in Refusals(endpoint),
               IF Guarded(endpoint) THEN Fail(s) ELSE Raise(s)
        PROVE  IInv'
    <3>1. s \in Errors \ {401}
      BY DEF Refusals
    <3>2. CASE Guarded(endpoint)
      BY <1>2, <2>2, <3>1, <3>2 DEF Open, Fail, Guarded
    <3>3. CASE ~Guarded(endpoint)
      BY <1>2, <2>2, <3>1, <3>3 DEF Open, Raise, Line, Guarded
    <3> QED
      BY <3>2, <3>3
  <2>3. CASE at' = "calling" /\ UNCHANGED <<status, failure, usage>>
    BY <1>2, <2>3 DEF Open
  <2> QED
    BY <1>2, <2>1, <2>2, <2>3 DEF Open
<1>3. CASE RuntimeFails
  <2>1. CASE Crash
    BY <1>3, <2>1 DEF RuntimeFails, Crash, Line
  <2>2. ASSUME NEW s \in AdapterErrors(endpoint), Fail(s)
        PROVE  IInv'
    <3>1. s \in Errors \ {401}
      BY DEF AdapterErrors
    <3> QED
      BY <1>3, <2>2, <3>1 DEF RuntimeFails, Fail
  <2> QED
    BY <1>3, <2>1, <2>2 DEF RuntimeFails
<1>4. CASE RuntimeEnds
  BY <1>4 DEF RuntimeEnds
<1>5. CASE Item
  BY <1>5 DEF Item
<1>6. CASE StartResponse
  BY <1>6 DEF StartResponse
<1>7. CASE Send
  BY <1>7 DEF Send
<1>8. CASE SendDone
  BY <1>8 DEF SendDone
<1>9. CASE RecordSuccess
  <2>1. CASE Crash
    BY <1>9, <2>1 DEF RecordSuccess, Crash, Line
  <2>2. CASE ~Crash
    <3>1. usage = <<>> /\ 200 \in {200} \cup Errors
      BY <1>9 DEF RecordSuccess
    <3>2. usage' = Append(<<>>, 200)
      BY <1>9, <2>2, <3>1 DEF RecordSuccess
    <3>3. usage' = <<200>> /\ usage' \in Seq({200} \cup Errors)
      BY <3>1, <3>2, FirstRecord
    <3> QED
      BY <1>9, <2>2, <3>3 DEF RecordSuccess, Line
  <2> QED
    BY <2>1, <2>2
<1>10. CASE RecordFailure
  <2>1. CASE Crash
    BY <1>10, <2>1 DEF RecordFailure, Crash, Line
  <2>2. CASE ~Crash
    <3>1. usage = <<>> /\ failure \in {200} \cup Errors
      BY <1>10 DEF RecordFailure
    <3>2. usage' = Append(<<>>, failure)
      BY <1>10, <2>2, <3>1 DEF RecordFailure
    <3>3. usage' = <<failure>> /\ usage' \in Seq({200} \cup Errors)
      BY <3>1, <3>2, FirstRecord
    <3> QED
      BY <1>10, <2>2, <3>3 DEF RecordFailure, Line
  <2> QED
    BY <2>1, <2>2
<1>11. CASE Leave
  BY <1>11 DEF Leave
<1>12. CASE Over \/ UNCHANGED vars
  BY <1>12, SMTT(60) DEF Over, vars
<1> QED
  BY <1>1, <1>2, <1>3, <1>4, <1>5, <1>6, <1>7, <1>8, <1>9, <1>10, <1>11, <1>12 DEF Next

LEMMA Invariance == Spec => []IInv
  BY InitHolds, StepHolds, PTL DEF Spec

\* TypeOK holds in every reachable state, for streams of any length.
THEOREM TypeCorrect == Spec => []TypeOK
  BY Invariance, PTL DEF IInv

\* Every answer is counted as the client saw it; what is not counted was
\* refused for its key, crashed, left, or a refused chat stream (_record and
\* the try statements around it).
THEOREM RecordTellsAnswerHolds == Spec => []RecordTellsAnswer
  BY Invariance, PTL DEF IInv

\* No failure is hidden behind a 200 as long as nothing has been sent, except
\* by chat streams (_lead of v1.py).
THEOREM StatusIsHonestHolds == Spec => []StatusIsHonest
  BY Invariance, PTL DEF IInv

-----------------------------------------------------------------------------
(* The composition with the speech server.                                 *)

\* To the gateway the speech server is a runtime like any other.
LEMMA ComposedStep == [SpeechNext]_allVars => [Next]_vars
<1> SUFFICES ASSUME [SpeechNext]_allVars PROVE [Next]_vars
  OBVIOUS
<1>1. CASE Ask \/ Serve
  BY <1>1 DEF Ask, Serve
<1>2. CASE FromRuntime
  BY <1>2 DEF FromRuntime, Next
<1>3. CASE Otherwise
  BY <1>3 DEF Otherwise, Next
<1>4. CASE SpeechOver \/ UNCHANGED allVars
  BY <1>4 DEF SpeechOver, allVars, vars
<1> QED
  BY <1>1, <1>2, <1>3, <1>4 DEF SpeechNext

\* A speech request with its server behind it (stream_speech) is a gateway
\* request, so that all the theorems above hold of it.
THEOREM ComposedIsGatewayRequest == SpeechSpec => Spec
<1>1. SpeechInit => Init
  BY DEF SpeechInit
<1> QED
  BY <1>1, ComposedStep, PTL DEF SpeechSpec, Spec

\* The thread that holds the lock is the one inside render, and while the
\* gateway counts a complete answer the server has given it.
ServerInv ==
  /\ job \in [Clients -> {"none", "waiting", "rendering"} \cup Answers]
  /\ \A c \in Clients : job[c] = "rendering" <=> lock = c
  /\ endpoint = "speech" /\ at \in {"counting", "empty", "answered"} => Answered

\* An answer of the server is final.
LEMMA ServerStep == ServerInv /\ IInv /\ [SpeechNext]_allVars => ServerInv'
<1> SUFFICES ASSUME ServerInv, IInv, [SpeechNext]_allVars PROVE ServerInv'
  OBVIOUS
<1> USE ServerAssumption DEF ServerInv, Answered, Answers
<1>1. ASSUME NEW c \in Clients, Post(c), UNCHANGED vars PROVE ServerInv'
  BY <1>1 DEF Post, Reaches, vars
<1>2. ASSUME NEW c \in Clients, Work(c), UNCHANGED vars PROVE ServerInv'
  <2>1. CASE Enter(c)
    BY <1>2, <2>1 DEF Enter, TakeLock, Reaches, vars
  <2>2. CASE Speak(c) \/ RunAway(c)
    BY <1>2, <2>2 DEF Speak, RunAway, vars
  <2>3. CASE Exit(c)
    BY <1>2, <2>3 DEF Exit, Ends, Reaches, vars
  <2> QED
    BY <1>2, <2>1, <2>2, <2>3 DEF Work
<1>3. CASE FromRuntime
  <2>1. UNCHANGED <<job, lock, endpoint>>
    BY <1>3 DEF FromRuntime, serverVars, Item, RuntimeEnds, RuntimeFails
  <2>2. CASE (Calling => Answered) /\ (Item \/ RuntimeEnds)
    <3>1. at = "calling"
      BY <2>2 DEF Item, RuntimeEnds
    <3>2. endpoint = "speech" => Answered
      BY <2>2, <3>1 DEF Calling
    <3> QED
      BY <2>1, <3>2
  <2>3. CASE RuntimeFails
    <3>1. at' \in {"refusing", "crashed"}
      BY <2>3 DEF RuntimeFails, Fail, Crash
    <3> QED
      BY <2>1, <3>1
  <2> QED
    BY <1>3, <2>2, <2>3 DEF FromRuntime
<1>4. CASE Otherwise
  <2>1. UNCHANGED <<job, lock, endpoint>>
    BY <1>4 DEF Otherwise, serverVars, Authenticate, Open, StartResponse, Send,
      SendDone, RecordSuccess, RecordFailure, Leave
  <2>2. endpoint = "speech" /\ at' \in {"counting", "empty", "answered"} =>
          at \in {"counting", "empty", "answered"}
    BY <1>4 DEF Otherwise, Authenticate, Open, StartResponse, Send, SendDone,
      RecordSuccess, RecordFailure, Leave, Fail, Raise, Crash, IInv, StatusSoFar, Running
  <2> QED
    BY <2>1, <2>2
<1>5. CASE SpeechOver \/ UNCHANGED allVars
  BY <1>5 DEF SpeechOver, allVars, vars, serverVars
<1> QED
  BY <1>1, <1>2, <1>3, <1>4, <1>5 DEF SpeechNext, Ask, Serve

\* One client at a time is in the engine, and a complete answer of the gateway
\* is the server's, for any number of clients, texts and runaways.
THEOREM AnswerIsTheServersHolds ==
  SpeechSpec => [](AnswerIsTheServers
                   /\ \A c \in Clients : job[c] = "rendering" <=> lock = c)
<1>1. SpeechInit => ServerInv
  BY ServerAssumption DEF SpeechInit, Init, ServerInit, ServerInv
<1>2. ServerInv => AnswerIsTheServers /\ \A c \in Clients : job[c] = "rendering" <=> lock = c
  BY DEF ServerInv, AnswerIsTheServers
<1>3. SpeechSpec => []IInv
  BY Invariance, ComposedIsGatewayRequest, PTL
<1> QED
  BY <1>1, <1>2, <1>3, ServerStep, PTL DEF SpeechSpec

-----------------------------------------------------------------------------
(* Numbers and functions defined by recursion on them.                     *)

\* A set of numbers that is not empty has a least one.
LEMMA LeastNumber ==
  ASSUME NEW S \in SUBSET Nat, S # {}
  PROVE  \E x \in S : \A y \in S : x <= y
<1> DEFINE Below == {0..n : n \in S}
<1>1. Below \subseteq FiniteSubsetsOf(Nat) /\ Below # {}
  <2>1. ASSUME NEW n \in S PROVE 0..n \in SUBSET Nat /\ IsFiniteSet(0..n)
    BY FS_Interval
  <2> QED BY <2>1 DEF FiniteSubsetsOf
<1>2. PICK I \in Below : \A J \in Below : ~(<<J, I>> \in StrictSubsetOrdering(Nat))
  BY <1>1, WFMin, FS_StrictSubsetOrderingWellFounded
<1>3. PICK x \in S : I = 0..x
  OBVIOUS
<1>4. ASSUME NEW y \in S, y < x PROVE FALSE
  <2>1. 0..y \in Below /\ 0..y \subseteq 0..x /\ x \in 0..x /\ x \notin 0..y
    BY <1>4
  <2>2. <<0..y, I>> \in StrictSubsetOrdering(Nat)
    BY <1>3, <2>1 DEF StrictSubsetOrdering
  <2> QED BY <1>2, <2>1, <2>2
<1> QED BY <1>4

\* Induction up to n, over a set.
LEMMA UpTheNumbers ==
  ASSUME NEW n \in Nat, NEW S, 0 \in S, \A i \in 1..n : i - 1 \in S => i \in S
  PROVE  0..n \subseteq S
<1> DEFINE Out == {i \in 0..n : i \notin S}
<1> SUFFICES ASSUME Out # {} PROVE FALSE
  OBVIOUS
<1>1. PICK m \in Out : \A k \in Out : m <= k
  <2>1. Out \in SUBSET Nat
    OBVIOUS
  <2> HIDE DEF Out
  <2> QED BY <2>1, LeastNumber
<1>2. m \in 1..n /\ m - 1 \in 0..n /\ ~(m <= m - 1)
  BY <1>1
<1>3. m - 1 \in S
  BY <1>1, <1>2
<1> QED BY <1>1, <1>2, <1>3

\* f is made step by step.
Stepwise(f, n, base, step) ==
  f[0] = base /\ \A i \in 1..n : f[i] = step[i][f[i - 1]]

\* A value of T for each number up to n, each made from the one before.
LEMMA StepByStep ==
  ASSUME NEW n \in Nat, NEW T, NEW base \in T, NEW step \in [1..n -> [T -> T]]
  PROVE  \E f \in [0..n -> T] : Stepwise(f, n, base, step)
<1> DEFINE Made(f, m) == Stepwise(f, m, base, step)
           With == {m \in 0..n : \E f \in [0..m -> T] : Made(f, m)}
<1>1. 0 \in With
  <2>1. [i \in 0..0 |-> base] \in [0..0 -> T] /\ Made([i \in 0..0 |-> base], 0)
    BY DEF Stepwise
  <2>2. 0 \in 0..n
    OBVIOUS
  <2> HIDE DEF Made
  <2> QED BY <2>1, <2>2
<1>2. ASSUME NEW m \in 1..n, m - 1 \in With PROVE m \in With
  <2>1. PICK f \in [0..m - 1 -> T] : Made(f, m - 1)
    BY <1>2
  <2>2. m \in Nat /\ m - 1 \in 0..m - 1 /\ m > 0
    OBVIOUS
  <2> DEFINE new == step[m][f[m - 1]]
             g == [i \in 0..m |-> IF i < m THEN f[i] ELSE new]
  <2>3. new \in T
    <3>1. f[m - 1] \in T
      BY <2>1, <2>2
    <3> QED BY <3>1
  <2> HIDE DEF new
  <2>4. g \in [0..m -> T]
    <3>1. ASSUME NEW i \in 0..m PROVE g[i] \in T
      <4>1. CASE i < m
        <5>1. i \in 0..m - 1
          BY <4>1, <2>2
        <5> QED BY <4>1, <5>1, <2>1
      <4>2. CASE ~(i < m)
        BY <4>2, <2>3
      <4> QED BY <4>1, <4>2
    <3> QED BY <3>1
  <2>5. g[0] = base
    BY <2>1, <2>2 DEF Stepwise
  <2>6. ASSUME NEW i \in 1..m PROVE g[i] = step[i][g[i - 1]]
    <3>1. i - 1 \in 0..m /\ i - 1 < m /\ i \in 0..m
      BY <2>2
    <3>2. g[i - 1] = f[i - 1]
      BY <3>1
    <3>3. CASE i = m
      BY <3>1, <3>2, <3>3 DEF new
    <3>4. CASE i # m
      <4>1. i < m /\ i \in 1..m - 1
        BY <3>4, <2>2
      <4> QED BY <3>1, <3>2, <4>1, <2>1 DEF Stepwise
    <3> QED BY <3>3, <3>4
  <2>7. Made(g, m)
    BY <2>5, <2>6 DEF Stepwise
  <2> QED
    <3> HIDE DEF Made, g
    <3> QED BY <2>4, <2>7
<1>3. n \in With
  <2>1. 0..n \subseteq With
    <3> HIDE DEF With
    <3> QED BY <1>1, <1>2, UpTheNumbers
  <2> QED BY <2>1
<1> QED BY <1>3

-----------------------------------------------------------------------------
(* The cutting of a sentence.                                              *)

Kinds == {"budget", "clause", "sentence"}
AChunk == [first : Nat, last : Nat, kind : Kinds]
Cutting == [cur : Nat, out : Seq(AChunk)]

\* The chunks have words 1 to e, each once and in order.
Tiling(out, e) ==
  IF out = <<>> THEN e = 0
  ELSE /\ out[1].first = 1 /\ out[Len(out)].last = e
       /\ \A k \in DOMAIN out : out[k].first <= out[k].last
       /\ \A k \in 2..Len(out) : out[k].first = out[k - 1].last + 1

\* Words a to b go beyond the budget over tied words only.
Fits(s, a, b) == \A j \in a + 1..b : Tokens(s, a, j) > MaxTokens => s[j - 1].ezafe

\* If word i is tied to the next, it ends its clause.
EndsWell(s, i) == s[i].ezafe => s[i].ends

\* Words 1 to i have been cut: the closed chunks and the one that grows have
\* them all, and none is too long or torn off.
WellCut(s, f, i) ==
  /\ f.cur \in 0..i
  /\ Tiling(f.out, IF f.cur = 0 THEN i ELSE f.cur - 1)
  /\ \A k \in DOMAIN f.out :
       Fits(s, f.out[k].first, f.out[k].last) /\ EndsWell(s, f.out[k].last)
  /\ f.cur # 0 => Fits(s, f.cur, i)

\* A chunk that begins where the others end makes one more.
LEMMA OneMore ==
  ASSUME NEW out \in Seq(AChunk), NEW e \in Nat, Tiling(out, e),
         NEW c \in AChunk, c.first = e + 1, c.first <= c.last
  PROVE  /\ Append(out, c) \in Seq(AChunk)
         /\ Tiling(Append(out, c), c.last)
         /\ \A k \in DOMAIN Append(out, c) :
              \/ k \in DOMAIN out /\ Append(out, c)[k] = out[k]
              \/ k = Len(out) + 1 /\ Append(out, c)[k] = c
<1> DEFINE more == Append(out, c)
           m == Len(out)
<1>1. /\ m \in Nat /\ DOMAIN out = 1..m
      /\ more \in Seq(AChunk) /\ Len(more) = m + 1 /\ DOMAIN more = 1..m + 1
      /\ more[m + 1] = c /\ \A k \in 1..m : more[k] = out[k]
  OBVIOUS
<1>2. ASSUME NEW k \in 1..m + 1 PROVE k \in 1..m \/ k = m + 1
  BY <1>1
<1>3. more # <<>>
  BY <1>1
<1> HIDE DEF more, m
<1>4. CASE out = <<>>
  <2>1. m = 0 /\ e = 0
    BY <1>4 DEF Tiling, m
  <2>2. /\ more[1].first = 1 /\ more[Len(more)].last = c.last
        /\ \A k \in DOMAIN more : more[k].first <= more[k].last
        /\ \A k \in 2..Len(more) : more[k].first = more[k - 1].last + 1
    BY <1>1, <2>1
  <2> QED BY <1>1, <1>2, <1>3, <2>2 DEF Tiling, more
<1>5. CASE out # <<>>
  <2>1. m > 0
    BY <1>1, <1>5 DEF m
  <2>2. /\ out[1].first = 1 /\ out[m].last = e
        /\ \A k \in 1..m : out[k].first <= out[k].last
        /\ \A k \in 2..m : out[k].first = out[k - 1].last + 1
    BY <1>1, <1>5 DEF Tiling, m
  <2>3. 1 \in 1..m /\ m \in 1..m
    BY <1>1, <2>1
  <2>4. more[1].first = 1 /\ more[Len(more)].last = c.last
    BY <1>1, <2>2, <2>3
  <2>5. \A k \in DOMAIN more : more[k].first <= more[k].last
    BY <1>1, <1>2, <2>2
  <2>6. ASSUME NEW k \in 2..Len(more) PROVE more[k].first = more[k - 1].last + 1
    <3>1. k \in 2..m + 1 /\ m \in Nat
      BY <1>1
    <3>2. CASE k \in 2..m
      <4>1. k \in 1..m /\ k - 1 \in 1..m
        BY <3>1, <3>2
      <4> QED BY <1>1, <2>2, <3>2, <4>1
    <3>3. CASE k = m + 1
      <4>1. k - 1 = m
        BY <3>1, <3>3
      <4> QED BY <1>1, <2>2, <2>3, <3>3, <4>1
    <3> QED BY <3>1, <3>2, <3>3
  <2>7. Tiling(more, c.last)
    BY <1>3, <2>4, <2>5, <2>6 DEF Tiling
  <2> QED BY <1>1, <1>2, <2>7 DEF more, m
<1> QED BY <1>4, <1>5

\* Each word is cut well.
LEMMA CutIsWell ==
  ASSUME NEW s \in Seq(Words), NEW i \in 1..Len(s), NEW f \in Cutting,
         WellCut(s, f, i - 1)
  PROVE  WellCut(s, Cut(s, f, i), i)
<1> DEFINE begun == IF f.cur = 0 THEN i ELSE f.cur
           e == IF f.cur = 0 THEN i - 1 ELSE f.cur - 1
           over == Tokens(s, begun, i) > MaxTokens
           clause == /\ s[i].ends /\ i < Len(s)
                     /\ Tokens(s, begun, i) >= MinTokens
                     /\ Tokens(s, i + 1, Len(s)) >= MinTokens
           g == Cut(s, f, i)
<1>1. /\ i \in Nat /\ i - 1 \in Nat /\ f.cur \in 0..i - 1 /\ f.cur \in Nat /\ f.out \in Seq(AChunk)
      /\ Tiling(f.out, e)
      /\ \A k \in DOMAIN f.out :
           Fits(s, f.out[k].first, f.out[k].last) /\ EndsWell(s, f.out[k].last)
      /\ f.cur # 0 => Fits(s, f.cur, i - 1)
  BY DEF Cutting, WellCut
<1>2. begun \in Nat /\ e \in Nat /\ begun = e + 1 /\ begun <= i /\ begun \in 1..i
  BY <1>1, SMTT(60)
<1> HIDE DEF e
<1>3. CASE f.cur # 0 /\ ~Bound(s, f.cur, i) /\ over
  <2> DEFINE c == Chunk(f.cur, i - 1, "budget")
  <2>1. g = [cur |-> i, out |-> Append(f.out, c)]
    BY <1>3 DEF Cut
  <2>2. c \in AChunk /\ c.first = e + 1 /\ c.first = f.cur /\ c.last = i - 1 /\ c.first <= c.last
    BY <1>1, <1>2, <1>3 DEF Chunk, AChunk, Kinds
  <2>3. ~s[i - 1].ezafe
    BY <1>3 DEF Bound
  <2> HIDE DEF c, begun, over, clause, g
  <2>4. /\ Tiling(Append(f.out, c), i - 1)
        /\ \A k \in DOMAIN Append(f.out, c) :
             \/ k \in DOMAIN f.out /\ Append(f.out, c)[k] = f.out[k]
             \/ k = Len(f.out) + 1 /\ Append(f.out, c)[k] = c
    BY <1>1, <1>2, <2>2, OneMore
  <2>5. Fits(s, c.first, c.last) /\ EndsWell(s, c.last)
    BY <1>1, <1>3, <2>2, <2>3 DEF EndsWell
  <2>6. Fits(s, i, i)
    BY <1>1 DEF Fits
  <2>7. g.cur = i /\ g.out = Append(f.out, c) /\ i \in 0..i /\ i # 0
    BY <1>1, <2>1
  <2> QED BY <1>1, <2>4, <2>5, <2>6, <2>7 DEF WellCut, g
<1>4. CASE ~(f.cur # 0 /\ ~Bound(s, f.cur, i) /\ over)
  <2>1. Fits(s, begun, i)
    <3>1. CASE f.cur = 0
      BY <1>1, <3>1 DEF Fits
    <3>2. ASSUME f.cur # 0, NEW j \in f.cur + 1..i, Tokens(s, f.cur, j) > MaxTokens
          PROVE  s[j - 1].ezafe
      <4>1. CASE j = i
        BY <1>4, <3>2, <4>1 DEF Bound
      <4>2. CASE j # i
        <5>1. j \in f.cur + 1..i - 1
          BY <1>1, <4>2
        <5> QED BY <1>1, <3>2, <5>1 DEF Fits
      <4> QED BY <4>1, <4>2
    <3> QED BY <3>1, <3>2 DEF Fits
  <2>2. CASE clause
    <3> DEFINE c == Chunk(begun, i, "clause")
    <3>1. g = [cur |-> 0, out |-> Append(f.out, c)]
      BY <1>4, <2>2 DEF Cut
    <3>2. c \in AChunk /\ c.first = e + 1 /\ c.first = begun /\ c.last = i /\ c.first <= c.last
      BY <1>1, <1>2 DEF Chunk, AChunk, Kinds
    <3>3. EndsWell(s, i)
      BY <2>2 DEF EndsWell
    <3> HIDE DEF c, begun, over, clause, g
    <3>4. /\ Tiling(Append(f.out, c), i)
          /\ \A k \in DOMAIN Append(f.out, c) :
               \/ k \in DOMAIN f.out /\ Append(f.out, c)[k] = f.out[k]
               \/ k = Len(f.out) + 1 /\ Append(f.out, c)[k] = c
      BY <1>1, <1>2, <3>2, OneMore
    <3>5. g.cur = 0 /\ g.out = Append(f.out, c) /\ 0 \in 0..i
      BY <1>1, <3>1
    <3> QED BY <1>1, <2>1, <3>2, <3>3, <3>4, <3>5 DEF WellCut, g
  <2>3. CASE ~clause
    <3>1. g = [cur |-> begun, out |-> f.out]
      BY <1>4, <2>3 DEF Cut
    <3>2. g.cur = begun /\ g.out = f.out /\ begun \in 0..i /\ begun # 0 /\ begun - 1 = e
      BY <1>1, <1>2, <3>1
    <3> HIDE DEF begun, over, clause, g
    <3> QED BY <1>1, <2>1, <3>2 DEF WellCut, g
  <2> QED BY <2>2, <2>3
<1> QED BY <1>3, <1>4

LEMMA CutInType ==
  ASSUME NEW s \in Seq(Words), NEW i \in 1..Len(s), NEW f \in Cutting
  PROVE  Cut(s, f, i) \in Cutting
<1>1. i \in Nat /\ i - 1 \in Nat /\ f.cur \in Nat /\ f.out \in Seq(AChunk)
  BY DEF Cutting
<1>2. /\ Append(f.out, Chunk(f.cur, i - 1, "budget")) \in Seq(AChunk)
      /\ Append(f.out, Chunk(i, i, "clause")) \in Seq(AChunk)
      /\ Append(f.out, Chunk(f.cur, i, "clause")) \in Seq(AChunk)
  BY <1>1 DEF Chunk, AChunk, Kinds
<1> QED BY <1>1, <1>2 DEF Cut, Cutting

\* The recursion of Chunks.
LEMMA ChunksByCutting ==
  ASSUME NEW s \in Seq(Words)
  PROVE  \E f \in [0..Len(s) -> Cutting] :
           /\ f[0] = [cur |-> 0, out |-> <<>>]
           /\ \A i \in 1..Len(s) : f[i] = Cut(s, f[i - 1], i)
           /\ Chunks(s) = IF f[Len(s)].cur = 0 THEN f[Len(s)].out
                          ELSE Append(f[Len(s)].out,
                                      Chunk(f[Len(s)].cur, Len(s), "clause"))
<1> DEFINE n == Len(s)
           base == [cur |-> 0, out |-> <<>>]
           step == [i \in 1..n |-> [g \in Cutting |-> Cut(s, g, i)]]
           Rec(f) == f = [i \in 0..n |-> IF i = 0 THEN base ELSE Cut(s, f[i - 1], i)]
           cutting == CHOOSE f : Rec(f)
<1>0. n \in Nat
  OBVIOUS
<1>1. base \in Cutting
  BY DEF Cutting
<1>2. step \in [1..n -> [Cutting -> Cutting]]
  BY CutInType
<1>3. PICK f \in [0..n -> Cutting] : Stepwise(f, n, base, step)
  <2> HIDE DEF base, step, n
  <2> QED BY <1>0, <1>1, <1>2, StepByStep, Zenon
<1>4. Rec(f)
  <2>1. ASSUME NEW i \in 0..n, i # 0 PROVE f[i] = Cut(s, f[i - 1], i)
    <3>1. i \in 1..n /\ i - 1 \in 0..n
      BY <1>0, <2>1
    <3>2. f[i - 1] \in Cutting
      BY <1>3, <3>1
    <3> QED BY <1>3, <3>1, <3>2 DEF Stepwise
  <2>2. f = [i \in 0..n |-> f[i]]
    BY <1>3
  <2> HIDE DEF n, base, step
  <2>3. \A i \in 0..n : f[i] = IF i = 0 THEN base ELSE Cut(s, f[i - 1], i)
    BY <1>3, <2>1 DEF Stepwise
  <2> QED BY <2>2, <2>3
<1>5. Rec(cutting)
  <2> HIDE DEF Rec
  <2> QED BY <1>4
<1>6. \A i \in 0..n : cutting[i] = IF i = 0 THEN base ELSE Cut(s, cutting[i - 1], i)
  <2> HIDE DEF cutting, base
  <2> QED BY <1>5
<1>7. cutting = f
  <2> DEFINE S == {i \in 0..n : cutting[i] = f[i]}
  <2>1. 0 \in S
    BY <1>0, <1>3, <1>6 DEF Stepwise
  <2>2. ASSUME NEW i \in 1..n, i - 1 \in S PROVE i \in S
    <3>1. i \in 0..n /\ i # 0
      BY <1>0
    <3>2. cutting[i] = Cut(s, cutting[i - 1], i) /\ f[i] = Cut(s, f[i - 1], i)
      <4> HIDE DEF cutting, base, n
      <4> QED BY <1>4, <1>6, <3>1
    <3> HIDE DEF cutting
    <3> QED BY <2>2, <3>1, <3>2
  <2>3. 0..n \subseteq S
    <3> HIDE DEF S, n
    <3> QED BY <1>0, <2>1, <2>2, UpTheNumbers
  <2>4. cutting = [i \in 0..n |-> cutting[i]]
    <3> HIDE DEF cutting, base
    <3> QED BY <1>5
  <2> HIDE DEF cutting
  <2> QED BY <1>3, <2>3, <2>4
<1>8. Chunks(s) = IF cutting[n].cur = 0 THEN cutting[n].out
                  ELSE Append(cutting[n].out, Chunk(cutting[n].cur, n, "clause"))
  BY DEF Chunks
<1>9. \A i \in 1..n : f[i] = Cut(s, f[i - 1], i)
  <2>1. \A i \in 1..n : i \in 0..n /\ i # 0
    BY <1>0
  <2> HIDE DEF base, n
  <2> QED BY <1>4, <2>1
<1> HIDE DEF cutting
<1> QED BY <1>3, <1>7, <1>8, <1>9 DEF Stepwise

\* The chunks of a sentence, before any has borrowed.
LEMMA ChunksAreWell ==
  ASSUME NEW s \in Seq(Words), s # <<>>
  PROVE  /\ Chunks(s) \in Seq(AChunk) /\ Chunks(s) # <<>>
         /\ Tiling(Chunks(s), Len(s))
         /\ \A k \in DOMAIN Chunks(s) : Fits(s, Chunks(s)[k].first, Chunks(s)[k].last)
         /\ \A k \in 1..Len(Chunks(s)) - 1 : EndsWell(s, Chunks(s)[k].last)
<1> DEFINE n == Len(s)
<1>0. n \in Nat /\ n > 0
  OBVIOUS
<1>1. PICK f \in [0..n -> Cutting] :
        /\ f[0] = [cur |-> 0, out |-> <<>>]
        /\ \A i \in 1..n : f[i] = Cut(s, f[i - 1], i)
        /\ Chunks(s) = IF f[n].cur = 0 THEN f[n].out
                       ELSE Append(f[n].out, Chunk(f[n].cur, n, "clause"))
  BY ChunksByCutting
<1> DEFINE S == {i \in 0..n : WellCut(s, f[i], i)}
<1>2. 0 \in S
  BY <1>0, <1>1 DEF WellCut, Tiling
<1>3. ASSUME NEW i \in 1..n, i - 1 \in S PROVE i \in S
  <2>1. i \in 0..n /\ i - 1 \in 0..n
    BY <1>0
  <2>2. f[i - 1] \in Cutting /\ f[i] = Cut(s, f[i - 1], i)
    BY <1>1, <2>1
  <2> QED BY <1>3, <2>1, <2>2, CutIsWell
<1>4. WellCut(s, f[n], n) /\ f[n] \in Cutting
  <2>1. 0..n \subseteq S
    <3> HIDE DEF S, n
    <3> QED BY <1>0, <1>2, <1>3, UpTheNumbers
  <2>2. n \in 0..n
    BY <1>0
  <2> QED BY <1>1, <2>1, <2>2
<1> DEFINE g == f[n]
<1>5. /\ g.out \in Seq(AChunk) /\ g.cur \in Nat /\ g.cur \in 0..n
      /\ Tiling(g.out, IF g.cur = 0 THEN n ELSE g.cur - 1)
      /\ \A k \in DOMAIN g.out :
           Fits(s, g.out[k].first, g.out[k].last) /\ EndsWell(s, g.out[k].last)
      /\ g.cur # 0 => Fits(s, g.cur, n)
  <2> HIDE DEF n
  <2> QED BY <1>4 DEF WellCut, Cutting
<1>6. Chunks(s) = IF g.cur = 0 THEN g.out ELSE Append(g.out, Chunk(g.cur, n, "clause"))
  BY <1>1
<1> HIDE DEF g, n
<1>7. CASE g.cur = 0
  <2>1. g.out # <<>>
    BY <1>0, <1>5, <1>7 DEF Tiling
  <2>2. DOMAIN g.out = 1..Len(g.out) /\ Len(g.out) \in Nat
    BY <1>5
  <2>3. \A k \in 1..Len(g.out) - 1 : k \in 1..Len(g.out)
    BY <2>2
  <2> QED BY <1>5, <1>6, <1>7, <2>1, <2>2, <2>3 DEF n
<1>8. CASE g.cur # 0
  <2> DEFINE c == Chunk(g.cur, n, "clause")
  <2>1. c \in AChunk /\ c.first = g.cur /\ c.last = n /\ c.first <= c.last
    BY <1>0, <1>5 DEF Chunk, AChunk, Kinds
  <2>2. g.cur - 1 \in Nat /\ g.cur = (g.cur - 1) + 1
    <3>1. g.cur \in Nat /\ g.cur # 0
      BY <1>5, <1>8
    <3> QED BY <3>1
  <2>3. Chunks(s) = Append(g.out, c)
    BY <1>6, <1>8
  <2> HIDE DEF c
  <2>4. /\ Chunks(s) \in Seq(AChunk) /\ Tiling(Chunks(s), n)
        /\ \A k \in DOMAIN Chunks(s) :
             \/ k \in DOMAIN g.out /\ Chunks(s)[k] = g.out[k]
             \/ k = Len(g.out) + 1 /\ Chunks(s)[k] = c
    <3>1. Tiling(g.out, g.cur - 1)
      BY <1>5, <1>8
    <3>2. c.first = (g.cur - 1) + 1 /\ g.cur - 1 \in Nat
      BY <2>1, <2>2
    <3>3. g.out \in Seq(AChunk)
      BY <1>5
    <3> HIDE DEF g
    <3> QED BY <2>1, <2>3, <3>1, <3>2, <3>3, OneMore, ZenonT(60)
  <2>5. /\ Len(g.out) \in Nat /\ Len(Chunks(s)) = Len(g.out) + 1
        /\ DOMAIN Chunks(s) = 1..Len(g.out) + 1
    BY <1>5, <2>1, <2>3
  <2>6. Chunks(s) # <<>>
    BY <2>4, <2>5
  <2>7. \A k \in 1..Len(Chunks(s)) - 1 : k \in DOMAIN Chunks(s) /\ k # Len(g.out) + 1
    BY <2>5
  <2> QED BY <1>5, <1>8, <2>1, <2>4, <2>6, <2>7 DEF n
<1> QED BY <1>7, <1>8

-----------------------------------------------------------------------------
(* The borrowing of its short chunks.                                      *)

\* The chunks beyond the first r have borrowed what they could, and only they
\* are longer for it, or end what they have torn off.
Settled(s, out, r) ==
  /\ \A k \in DOMAIN out :
       Fits(s, out[k].first, out[k].last) \/ (k > r /\ Borrowed(s, out[k]))
  /\ \A k \in 1..Len(out) - 1 :
       EndsWell(s, out[k].last) \/ (k + 1 > r /\ Borrowed(s, out[k + 1]))
  /\ \A k \in r + 1..Len(out) :
       Short(s, out[k].first, out[k].last) =>
         \/ ~Spares(s, out[k - 1].first, out[k - 1].last)
         \/ k - 1 > r /\ Borrowed(s, out[k - 1])

\* The number of words that Borrow takes.
Taken(s, b, c) ==
  Min({m \in 0..b.last - b.first :
         \/ ~Short(s, c.first - m, c.last)
         \/ ~Spares(s, b.first, b.last - m)})

\* A chunk takes words until it is long enough or the other has none to spare,
\* and the last it takes it takes for being short.
LEMMA TakenIsLeast ==
  ASSUME NEW s, NEW b \in AChunk, NEW c \in AChunk, b.first <= b.last
  PROVE  /\ Taken(s, b, c) \in 0..b.last - b.first
         /\ ~Short(s, c.first - Taken(s, b, c), c.last)
              \/ ~Spares(s, b.first, b.last - Taken(s, b, c))
         /\ Taken(s, b, c) > 0 =>
              Tokens(s, (c.first - Taken(s, b, c)) + 1, c.last) < MinTokens
<1> DEFINE M == {m \in 0..b.last - b.first :
                   \/ ~Short(s, c.first - m, c.last)
                   \/ ~Spares(s, b.first, b.last - m)}
           n == Taken(s, b, c)
<1>1. b.first \in Nat /\ b.last \in Nat /\ c.first \in Nat
  BY DEF AChunk
<1>2. b.last - b.first \in M
  <2>1. b.last - b.first \in 0..b.last - b.first /\ b.last - (b.last - b.first) = b.first
    BY <1>1
  <2>2. ~Spares(s, b.first, b.first)
    BY <1>1 DEF Spares
  <2> QED BY <2>1, <2>2
<1>3. M \in SUBSET Nat /\ M # {}
  BY <1>1, <1>2
<1>4. PICK x \in M : \A y \in M : x <= y
  <2> HIDE DEF M
  <2> QED BY <1>3, LeastNumber
<1>5. n \in M /\ \A y \in M : n <= y
  <2>1. n = CHOOSE z \in M : \A y \in M : z <= y
    BY DEF Taken, Min
  <2> HIDE DEF M, n
  <2> QED BY <1>4, <2>1
<1>6. n \in 0..b.last - b.first /\ (~Short(s, c.first - n, c.last)
                                     \/ ~Spares(s, b.first, b.last - n))
  <2> HIDE DEF n
  <2> QED BY <1>5
<1>7. ASSUME n > 0 PROVE Tokens(s, (c.first - n) + 1, c.last) < MinTokens
  <2>1. n \in Nat /\ n - 1 \in 0..b.last - b.first /\ ~(n <= n - 1)
        /\ c.first - (n - 1) = (c.first - n) + 1
    <3> HIDE DEF n
    <3> QED BY <1>1, <1>6, <1>7
  <2>2. n - 1 \notin M
    <3> HIDE DEF n, M
    <3> QED BY <1>5, <2>1
  <2>3. Short(s, c.first - (n - 1), c.last)
    <3> HIDE DEF n
    <3> QED BY <2>1, <2>2
  <2>4. Short(s, (c.first - n) + 1, c.last)
    <3> HIDE DEF n
    <3> QED BY <2>1, <2>3
  <2> QED BY <2>4 DEF Short
<1> HIDE DEF n
<1> QED BY <1>6, <1>7 DEF n

\* In new, n words of chunk k - 1 of out have gone to chunk k.
Lends(out, k, n, new) ==
  /\ n \in 0..out[k - 1].last - out[k - 1].first
  /\ new \in Seq(AChunk) /\ Len(new) = Len(out)
  /\ new[k - 1].first = out[k - 1].first /\ new[k - 1].last = out[k - 1].last - n
  /\ new[k].first = out[k].first - n /\ new[k].last = out[k].last
  /\ \A q \in DOMAIN out : q # k /\ q # k - 1 => new[q] = out[q]
  /\ n = 0 => new[k - 1] = out[k - 1] /\ new[k] = out[k]

\* What Borrow changes.
LEMMA BorrowChanges ==
  ASSUME NEW s, NEW out \in Seq(AChunk), NEW e \in Nat, Tiling(out, e),
         NEW k \in 2..Len(out)
  PROVE  Lends(out, k, Taken(s, out[k - 1], out[k]), Borrow(s, out, k))
<1> DEFINE b == out[k - 1]
           c == out[k]
           n == Taken(s, b, c)
           new == Borrow(s, out, k)
           lender == [b EXCEPT !.last = @ - n]
           borrower == [c EXCEPT !.first = @ - n]
<1>1. /\ Len(out) \in Nat /\ DOMAIN out = 1..Len(out)
      /\ k \in 1..Len(out) /\ k - 1 \in 1..Len(out) /\ k - 1 # k /\ k \in Nat
  OBVIOUS
<1>2. b \in AChunk /\ c \in AChunk
  BY <1>1
<1>3. b.first <= b.last /\ c.first = b.last + 1
  BY <1>1 DEF Tiling
<1>4. n \in 0..b.last - b.first
  <2> HIDE DEF b, c
  <2> QED BY <1>2, <1>3, TakenIsLeast
<1>5. /\ b.first \in Nat /\ b.last \in Nat /\ c.first \in Nat /\ c.last \in Nat
      /\ b.kind \in Kinds /\ c.kind \in Kinds
      /\ b = [first |-> b.first, last |-> b.last, kind |-> b.kind]
      /\ c = [first |-> c.first, last |-> c.last, kind |-> c.kind]
  <2> HIDE DEF b, c
  <2> QED BY <1>2 DEF AChunk
<1>6. b.last - n \in Nat /\ c.first - n \in Nat
      /\ (n = 0 => b.last - n = b.last /\ c.first - n = c.first)
  <2>1. \A x, y, z, w \in Nat : w \in 0..y - x /\ x <= y /\ z = y + 1 =>
          y - w \in Nat /\ z - w \in Nat /\ (w = 0 => y - w = y /\ z - w = z)
    OBVIOUS
  <2>2. n \in Nat
    <3> HIDE DEF n
    <3> QED BY <1>4, <1>5
  <2> HIDE DEF b, c, n
  <2> QED BY <1>3, <1>4, <1>5, <2>1, <2>2
<1>7. new = [out EXCEPT ![k - 1].last = @ - n, ![k].first = @ - n]
  BY DEF Borrow, Taken
<1>8. lender = [first |-> b.first, last |-> b.last - n, kind |-> b.kind]
      /\ borrower = [first |-> c.first - n, last |-> c.last, kind |-> c.kind]
  <2> HIDE DEF b, c, n
  <2> QED BY <1>5
<1>9. lender \in AChunk /\ borrower \in AChunk
  <2> HIDE DEF b, c, n
  <2> QED BY <1>5, <1>6, <1>8 DEF AChunk
<1>10. new = [q \in 1..Len(out) |-> IF q = k THEN borrower
                                    ELSE IF q = k - 1 THEN lender ELSE out[q]]
  <2> HIDE DEF n
  <2> QED BY <1>1, <1>7
<1>11. new \in [1..Len(out) -> AChunk]
  <2>1. \A q \in 1..Len(out) : out[q] \in AChunk
    BY <1>1
  <2> HIDE DEF lender, borrower, new
  <2> QED BY <1>9, <1>10, <2>1
<1>12. new \in Seq(AChunk) /\ Len(new) = Len(out)
  <2> HIDE DEF new
  <2> QED BY <1>1, <1>11
<1>13. /\ new[k] = borrower /\ new[k - 1] = lender
       /\ \A q \in 1..Len(out) : q # k /\ q # k - 1 => new[q] = out[q]
  <2> HIDE DEF lender, borrower, new
  <2> QED BY <1>1, <1>10
<1>14. n = 0 => lender = b /\ borrower = c
  <2> HIDE DEF b, c, n
  <2> QED BY <1>5, <1>6, <1>8
<1>15. /\ lender.first = b.first /\ lender.last = b.last - n
       /\ borrower.first = c.first - n /\ borrower.last = c.last
  <2> HIDE DEF b, c, n
  <2> QED BY <1>8
<1> HIDE DEF lender, borrower, n, new
<1>16. Lends(out, k, n, new)
  BY <1>1, <1>4, <1>12, <1>13, <1>14, <1>15 DEF Lends
<1> QED BY <1>16 DEF n, new

\* Borrowing leaves every word in its place.
LEMMA BorrowTiles ==
  ASSUME NEW s, NEW out \in Seq(AChunk), NEW e \in Nat, Tiling(out, e),
         NEW k \in 2..Len(out)
  PROVE  Tiling(Borrow(s, out, k), e)
<1> DEFINE b == out[k - 1]
           c == out[k]
           n == Taken(s, b, c)
           new == Borrow(s, out, k)
           m == Len(out)
<1>1. /\ n \in 0..b.last - b.first /\ new \in Seq(AChunk) /\ Len(new) = m
      /\ new[k - 1].first = b.first /\ new[k - 1].last = b.last - n
      /\ new[k].first = c.first - n /\ new[k].last = c.last
      /\ \A q \in DOMAIN out : q # k /\ q # k - 1 => new[q] = out[q]
  <2>1. Lends(out, k, n, new)
    BY BorrowChanges
  <2> HIDE DEF n, new
  <2> QED BY <2>1 DEF Lends
<1>2. /\ m \in Nat /\ m > 1 /\ k \in 2..m /\ k - 1 \in 1..m /\ DOMAIN out = 1..m /\ out # <<>>
      /\ \A q \in 1..m : out[q].first \in Nat /\ out[q].last \in Nat
  <2>1. m \in Nat /\ DOMAIN out = 1..m /\ \A q \in 1..m : out[q] \in AChunk
    OBVIOUS
  <2>2. m > 1 /\ k \in 2..m /\ k - 1 \in 1..m
    <3> HIDE DEF m
    <3> QED BY <2>1 DEF m
  <2>3. out # <<>>
    BY <2>2
  <2> HIDE DEF m
  <2> QED BY <2>1, <2>2, <2>3 DEF AChunk
<1>3. /\ out[1].first = 1 /\ out[m].last = e
      /\ \A q \in 1..m : out[q].first <= out[q].last
      /\ \A q \in 2..m : out[q].first = out[q - 1].last + 1
  BY <1>2 DEF Tiling
<1> HIDE DEF n, new, m
<1>4. DOMAIN new = 1..m /\ new # <<>>
  BY <1>1, <1>2
<1>5. /\ b.first \in Nat /\ b.last \in Nat /\ c.first \in Nat /\ c.last \in Nat
      /\ b.first <= b.last /\ c.first <= c.last /\ c.first = b.last + 1 /\ k \in 1..m
  BY <1>2, <1>3
<1>6. /\ n \in Nat /\ b.first <= b.last - n /\ c.first - n <= c.last
      /\ c.first - n = (b.last - n) + 1
  <2>1. n \in 0..b.last - b.first
    BY <1>1
  <2>2. \A x, y, z, w, v \in Nat :
          v \in 0..y - x /\ x <= y /\ z <= w /\ z = y + 1 =>
            v \in Nat /\ x <= y - v /\ z - v <= w /\ z - v = (y - v) + 1
    OBVIOUS
  <2>3. n \in Nat
    BY <2>1, <1>5
  <2> HIDE DEF b, c
  <2> QED BY <2>1, <2>2, <2>3, <1>5, SMTT(60)
<1>7. new[1].first = 1
  <2>1. 1 \in 1..m /\ (1 = k - 1 \/ (1 # k /\ 1 # k - 1))
    BY <1>2
  <2> QED BY <1>1, <1>2, <1>3, <2>1
<1>8. new[Len(new)].last = e
  <2>1. m \in 1..m /\ (m = k \/ (m # k /\ m # k - 1))
    BY <1>2
  <2> QED BY <1>1, <1>2, <1>3, <2>1
<1>9. ASSUME NEW q \in DOMAIN new PROVE new[q].first <= new[q].last
  BY <1>1, <1>2, <1>3, <1>4, <1>6
<1>10. ASSUME NEW q \in 2..Len(new) PROVE new[q].first = new[q - 1].last + 1
  <2>1. q \in 2..m /\ q \in 1..m /\ q - 1 \in 1..m
    BY <1>1, <1>2
  <2>2. CASE q = k
    BY <1>1, <1>6, <2>2
  <2>3. CASE q = k - 1
    <3>1. q - 1 # k /\ q - 1 # k - 1
      BY <1>2, <2>1, <2>3
    <3>2. new[q - 1] = out[q - 1] /\ new[q].first = out[q].first
      BY <1>1, <1>2, <2>1, <2>3, <3>1
    <3> QED BY <1>3, <2>1, <3>2
  <2>4. CASE q = k + 1
    <3>1. q - 1 = k /\ q # k /\ q # k - 1
      BY <1>2, <2>1, <2>4
    <3>2. new[q] = out[q] /\ new[q - 1].last = out[q - 1].last
      BY <1>1, <1>2, <2>1, <3>1
    <3> QED BY <1>3, <2>1, <3>2
  <2>5. CASE q # k /\ q # k - 1 /\ q # k + 1
    <3>1. q - 1 # k /\ (q - 1 = k - 1 => FALSE)
      BY <1>2, <2>1, <2>5
    <3>2. new[q] = out[q] /\ new[q - 1] = out[q - 1]
      BY <1>1, <1>2, <2>1, <2>5, <3>1
    <3> QED BY <1>3, <2>1, <3>2
  <2> QED BY <2>2, <2>3, <2>4, <2>5
<1>11. Tiling(new, e)
  BY <1>4, <1>7, <1>8, <1>9, <1>10 DEF Tiling
<1> QED BY <1>11 DEF new

\* Borrowing settles one chunk more.
LEMMA BorrowSettles ==
  ASSUME NEW s, NEW out \in Seq(AChunk), NEW e \in Nat, Tiling(out, e),
         NEW k \in 2..Len(out), Settled(s, out, k)
  PROVE  Settled(s, Borrow(s, out, k), k - 1)
<1> DEFINE b == out[k - 1]
           c == out[k]
           n == Taken(s, b, c)
           new == Borrow(s, out, k)
           m == Len(out)
<1>1. /\ n \in 0..b.last - b.first /\ new \in Seq(AChunk) /\ Len(new) = m
      /\ new[k - 1].first = b.first /\ new[k - 1].last = b.last - n
      /\ new[k].first = c.first - n /\ new[k].last = c.last
      /\ \A q \in DOMAIN out : q # k /\ q # k - 1 => new[q] = out[q]
      /\ n = 0 => new[k - 1] = b /\ new[k] = c
  <2>1. Lends(out, k, n, new)
    BY BorrowChanges
  <2> HIDE DEF n, new
  <2> QED BY <2>1 DEF Lends
<1>2. /\ m \in Nat /\ k \in 2..m /\ k \in 1..m /\ k - 1 \in 1..m /\ DOMAIN out = 1..m
      /\ k \in Nat /\ k > k - 1 /\ ~(k > k) /\ ~(k - 1 > k) /\ k - 1 # k
  OBVIOUS
<1>3. b \in AChunk /\ c \in AChunk /\ b.first <= b.last
  BY <1>2 DEF Tiling
<1>4. /\ ~Short(s, c.first - n, c.last) \/ ~Spares(s, b.first, b.last - n)
      /\ n > 0 => Tokens(s, (c.first - n) + 1, c.last) < MinTokens
  <2> HIDE DEF b, c
  <2> QED BY <1>3, TakenIsLeast
<1>5. n \in Nat /\ b.first \in Nat /\ b.last \in Nat
  <2>1. b.first \in Nat /\ b.last \in Nat
    BY <1>3 DEF AChunk
  <2> HIDE DEF b, c, n
  <2> QED BY <1>1, <2>1
<1>6. /\ \A q \in 1..m :
           Fits(s, out[q].first, out[q].last) \/ (q > k /\ Borrowed(s, out[q]))
      /\ \A q \in 1..m - 1 :
           EndsWell(s, out[q].last) \/ (q + 1 > k /\ Borrowed(s, out[q + 1]))
      /\ \A q \in k + 1..m :
           Short(s, out[q].first, out[q].last) =>
             \/ ~Spares(s, out[q - 1].first, out[q - 1].last)
             \/ q - 1 > k /\ Borrowed(s, out[q - 1])
  BY <1>2 DEF Settled
<1> HIDE DEF n, new, m
<1>7. n > 0 => Borrowed(s, new[k])
  BY <1>1, <1>4 DEF Borrowed
<1>8. n = 0 \/ n > 0
  BY <1>5
<1>9. DOMAIN new = 1..m
  BY <1>1, <1>2
<1>10. ASSUME NEW q \in DOMAIN new
       PROVE  Fits(s, new[q].first, new[q].last)
                \/ (q > k - 1 /\ Borrowed(s, new[q]))
  <2>1. q \in 1..m /\ (q > k => q > k - 1)
    BY <1>2, <1>9
  <2>2. CASE q = k
    <3>1. CASE n = 0
      BY <1>1, <1>2, <1>6, <2>2, <3>1
    <3>2. CASE n > 0
      BY <1>2, <1>7, <2>2, <3>2
    <3> QED BY <1>8, <3>1, <3>2
  <2>3. CASE q = k - 1
    <3>1. Fits(s, b.first, b.last)
      BY <1>2, <1>6
    <3>2. \A j \in b.first + 1..b.last - n : j \in b.first + 1..b.last
      <4> HIDE DEF b
      <4> QED BY <1>5
    <3>3. Fits(s, b.first, b.last - n)
      <4> HIDE DEF b
      <4> QED BY <3>1, <3>2 DEF Fits
    <3> QED BY <1>1, <2>3, <3>3
  <2>4. CASE q # k /\ q # k - 1
    <3>1. new[q] = out[q]
      BY <1>1, <1>2, <2>1, <2>4
    <3> QED BY <1>6, <2>1, <3>1
  <2> QED BY <2>2, <2>3, <2>4
<1>11. ASSUME NEW q \in 1..Len(new) - 1
       PROVE  EndsWell(s, new[q].last)
                \/ (q + 1 > k - 1 /\ Borrowed(s, new[q + 1]))
  <2>1. /\ q \in 1..m - 1 /\ q \in 1..m /\ q + 1 \in 1..m
        /\ (q + 1 > k => q + 1 > k - 1)
    BY <1>1, <1>2
  <2>2. CASE q = k - 1
    <3>1. q + 1 = k /\ q + 1 > k - 1 /\ ~(q + 1 > k)
      BY <1>2, <2>2
    <3>2. CASE n = 0
      BY <1>1, <1>6, <2>1, <2>2, <3>1, <3>2
    <3>3. CASE n > 0
      BY <1>7, <3>1, <3>3
    <3> QED BY <1>8, <3>2, <3>3
  <2>3. CASE q # k - 1
    <3>1. new[q].last = out[q].last
      BY <1>1, <1>2, <2>1, <2>3
    <3>2. CASE q + 1 > k
      <4>1. q + 1 # k /\ q + 1 # k - 1
        BY <1>2, <2>1, <3>2
      <4>2. new[q + 1] = out[q + 1]
        BY <1>1, <1>2, <2>1, <4>1
      <4> QED BY <1>6, <2>1, <3>1, <4>2
    <3>3. CASE ~(q + 1 > k)
      BY <1>6, <2>1, <3>1, <3>3
    <3> QED BY <3>2, <3>3
  <2> QED BY <2>2, <2>3
<1>12. ASSUME NEW q \in (k - 1) + 1..Len(new), Short(s, new[q].first, new[q].last)
       PROVE  \/ ~Spares(s, new[q - 1].first, new[q - 1].last)
              \/ q - 1 > k - 1 /\ Borrowed(s, new[q - 1])
  <2>1. q \in k..m /\ q \in 1..m /\ q - 1 \in 1..m /\ (q - 1 > k => q - 1 > k - 1)
    BY <1>1, <1>2
  <2>2. CASE q = k
    BY <1>1, <1>4, <1>12, <2>2
  <2>3. CASE q = k + 1
    <3>1. /\ q \in k + 1..m /\ q # k /\ q # k - 1 /\ q - 1 = k
          /\ q - 1 > k - 1 /\ ~(q - 1 > k)
      BY <1>2, <2>1, <2>3
    <3>2. new[q] = out[q]
      BY <1>1, <1>2, <2>1, <3>1
    <3>3. ~Spares(s, c.first, c.last)
      BY <1>6, <1>12, <3>1, <3>2
    <3>4. CASE n = 0
      BY <1>1, <3>1, <3>3, <3>4
    <3>5. CASE n > 0
      BY <1>7, <3>1, <3>5
    <3> QED BY <1>8, <3>4, <3>5
  <2>4. CASE q # k /\ q # k + 1
    <3>1. q \in k + 1..m /\ q # k - 1 /\ q - 1 # k /\ q - 1 # k - 1
      BY <1>2, <2>1, <2>4
    <3>2. new[q] = out[q] /\ new[q - 1] = out[q - 1]
      BY <1>1, <1>2, <2>1, <2>4, <3>1
    <3> QED BY <1>6, <1>12, <2>1, <3>1, <3>2
  <2> QED BY <2>2, <2>3, <2>4
<1>13. Settled(s, new, k - 1)
  BY <1>10, <1>11, <1>12 DEF Settled
<1> QED BY <1>13 DEF new

\* The recursion of PlanSentence.
LEMMA PlanBySettling ==
  ASSUME NEW s \in Seq(Words), s # <<>>
  PROVE  LET out == Chunks(s)
             m == Len(out)
         IN \E f \in [0..m - 1 -> {o \in Seq(AChunk) : Len(o) = m /\ Tiling(o, Len(s))}] :
              /\ f[0] = out
              /\ \A j \in 1..m - 1 : f[j] = Borrow(s, f[j - 1], m + 1 - j)
              /\ PlanSentence(s) = f[m - 1]
<1> DEFINE out == Chunks(s)
           m == Len(out)
           n == m - 1
           T == {o \in Seq(AChunk) : Len(o) = m /\ Tiling(o, Len(s))}
           step == [j \in 1..n |-> [o \in T |-> Borrow(s, o, m + 1 - j)]]
           Rec(f) == f = [j \in 0..m - 1 |->
                            IF j = 0 THEN out ELSE Borrow(s, f[j - 1], m + 1 - j)]
           settled == CHOOSE f : Rec(f)
<1>0. Len(s) \in Nat /\ m \in Nat /\ m > 0 /\ n \in Nat /\ out \in T
  <2>1. out \in Seq(AChunk) /\ out # <<>> /\ Tiling(out, Len(s))
    BY ChunksAreWell
  <2> HIDE DEF out
  <2> QED BY <2>1
<1>1. step \in [1..n -> [T -> T]]
  <2>1. ASSUME NEW j \in 1..n, NEW o \in T PROVE Borrow(s, o, m + 1 - j) \in T
    <3>1. m + 1 - j \in 2..Len(o) /\ o \in Seq(AChunk) /\ Tiling(o, Len(s))
      <4> HIDE DEF out
      <4> QED BY <1>0
    <3>2. Borrow(s, o, m + 1 - j) \in Seq(AChunk) /\ Len(Borrow(s, o, m + 1 - j)) = m
      <4> HIDE DEF m
      <4>1. Len(o) = m
        OBVIOUS
      <4> QED BY <1>0, <3>1, <4>1, BorrowChanges DEF Lends
    <3>3. Tiling(Borrow(s, o, m + 1 - j), Len(s))
      <4> HIDE DEF m
      <4> QED BY <1>0, <3>1, BorrowTiles
    <3> QED BY <3>2, <3>3
  <2> HIDE DEF T, n, m
  <2> QED BY <2>1
<1>2. PICK f \in [0..n -> T] : Stepwise(f, n, out, step)
  <2> HIDE DEF out, m, n, T, step
  <2> QED BY <1>0, <1>1, StepByStep, Zenon
<1>3. \A j \in 1..n : j \in 0..n /\ j # 0 /\ j - 1 \in 0..n
  <2> HIDE DEF n
  <2> QED BY <1>0
<1>4. /\ f[0] = out
      /\ \A j \in 1..n : f[j] = Borrow(s, f[j - 1], m + 1 - j)
  <2> HIDE DEF out, m, n, T
  <2> QED BY <1>2, <1>3 DEF Stepwise
<1>5. Rec(f)
  <2>1. f = [j \in 0..n |-> f[j]]
    BY <1>2
  <2>2. \A j \in 0..n : j = 0 \/ j \in 1..n
    <3> HIDE DEF n
    <3> QED BY <1>0
  <2>3. \A j \in 0..n : f[j] = IF j = 0 THEN out ELSE Borrow(s, f[j - 1], m + 1 - j)
    <3> HIDE DEF out, m, n
    <3> QED BY <1>4, <2>2, <1>3
  <2> HIDE DEF out, m
  <2> QED BY <2>1, <2>3
<1>6. Rec(settled)
  <2> HIDE DEF Rec
  <2> QED BY <1>5
<1>7. settled = [j \in 0..n |-> settled[j]]
      /\ \A j \in 0..n : settled[j] = IF j = 0 THEN out
                                      ELSE Borrow(s, settled[j - 1], m + 1 - j)
  <2> HIDE DEF settled, out, m
  <2> QED BY <1>6
<1>8. settled = f
  <2> DEFINE S == {j \in 0..n : settled[j] = f[j]}
  <2>1. 0 \in S
    <3>1. 0 \in 0..n
      <4> HIDE DEF n
      <4> QED BY <1>0
    <3> HIDE DEF settled, out, m, n
    <3> QED BY <3>1, <1>4, <1>7
  <2>2. ASSUME NEW j \in 1..n, j - 1 \in S PROVE j \in S
    <3> HIDE DEF settled, out, m, n
    <3>1. settled[j] = Borrow(s, settled[j - 1], m + 1 - j)
      BY <1>3, <1>7
    <3>2. f[j] = Borrow(s, f[j - 1], m + 1 - j)
      BY <1>4
    <3> QED BY <1>3, <2>2, <3>1, <3>2
  <2>3. 0..n \subseteq S
    <3> HIDE DEF S, n
    <3> QED BY <1>0, <2>1, <2>2, UpTheNumbers
  <2>4. f = [j \in 0..n |-> f[j]]
    BY <1>2
  <2> HIDE DEF settled, out, m, n
  <2> QED BY <1>7, <2>3, <2>4
<1>9. PlanSentence(s) = settled[n]
  BY DEF PlanSentence
<1> HIDE DEF settled
<1> QED BY <1>2, <1>4, <1>8, <1>9

\* A settled plan is a good one.
LEMMA SettledIsGood ==
  ASSUME NEW s \in Seq(Words), s # <<>>, NEW out \in Seq(AChunk),
         Tiling(out, Len(s)), Settled(s, out, 1)
  PROVE  GoodPlan(s, out)
<1>1. Len(s) \in Nat /\ Len(s) > 0 /\ Len(out) \in Nat /\ DOMAIN out = 1..Len(out)
  OBVIOUS
<1>2. out # <<>> /\ WordsKept(s, out)
  BY <1>1 DEF Tiling, WordsKept
<1>3. WithinBudget(s, out)
  <2>1. ASSUME NEW c \in ToSet(out), NEW j \in c.first + 1..c.last,
               Tokens(s, c.first, j) > MaxTokens
        PROVE  s[j - 1].ezafe \/ Borrowed(s, c)
    <3>1. PICK k \in DOMAIN out : c = out[k]
      BY DEF ToSet
    <3>2. Fits(s, c.first, c.last) \/ Borrowed(s, c)
      BY <3>1 DEF Settled
    <3> QED BY <2>1, <3>2 DEF Fits
  <2> QED BY <2>1 DEF WithinBudget
<1>4. TiesKept(s, out)
  BY DEF TiesKept, Settled, EndsWell
<1>5. ShortOnlyIfNoneSpares(s, out)
  <2>1. 1 + 1 = 2
    OBVIOUS
  <2> QED BY <2>1 DEF ShortOnlyIfNoneSpares, Settled
<1> QED BY <1>2, <1>3, <1>4, <1>5 DEF GoodPlan

\* What plan_sentence makes of a sentence, whatever its words.
LEMMA PlanIsGood ==
  ASSUME NEW s \in Seq(Words)
  PROVE  PlanSentence(s) \in Seq(AChunk) /\ GoodPlan(s, PlanSentence(s))
<1>1. CASE s = <<>>
  <2>1. PlanSentence(s) = <<>>
    BY <1>1 DEF PlanSentence
  <2>2. GoodPlan(s, <<>>)
    BY <1>1 DEF GoodPlan, WordsKept, WithinBudget, TiesKept, ShortOnlyIfNoneSpares, ToSet
  <2> QED BY <2>1, <2>2
<1>2. CASE s # <<>>
  <2> DEFINE out == Chunks(s)
             m == Len(out)
             n == m - 1
             T == {o \in Seq(AChunk) : Len(o) = m /\ Tiling(o, Len(s))}
  <2>1. PICK f \in [0..n -> T] :
          /\ f[0] = out
          /\ \A j \in 1..n : f[j] = Borrow(s, f[j - 1], m + 1 - j)
          /\ PlanSentence(s) = f[n]
    BY <1>2, PlanBySettling
  <2>2. /\ out \in Seq(AChunk) /\ out # <<>>
        /\ \A k \in DOMAIN out : Fits(s, out[k].first, out[k].last)
        /\ \A k \in 1..m - 1 : EndsWell(s, out[k].last)
    BY <1>2, ChunksAreWell
  <2>3. m \in Nat /\ n \in Nat /\ m > 0 /\ n = m - 1 /\ Len(s) \in Nat
    <3> HIDE DEF out
    <3> QED BY <2>2
  <2>4. Settled(s, out, m)
    <3>1. \A k \in m + 1..m : FALSE
      <4> HIDE DEF m
      <4> QED BY <2>3
    <3> HIDE DEF out
    <3> QED BY <2>2, <3>1 DEF Settled
  <2> DEFINE S == {j \in 0..n : Settled(s, f[j], m - j)}
  <2>5. 0 \in S
    <3>1. 0 \in 0..n /\ m - 0 = m
      <4> HIDE DEF m, n
      <4> QED BY <2>3
    <3> HIDE DEF out, m, n
    <3> QED BY <3>1, <2>1, <2>4
  <2>6. ASSUME NEW j \in 1..n, j - 1 \in S PROVE j \in S
    <3> DEFINE k == m + 1 - j
               o == f[j - 1]
    <3>1. /\ j \in 0..n /\ j - 1 \in 0..n /\ k \in 2..m /\ m - (j - 1) = k
          /\ k - 1 = m - j
      <4> HIDE DEF m, n
      <4> QED BY <2>3
    <3>2. o \in Seq(AChunk) /\ Len(o) = m /\ Tiling(o, Len(s))
      <4> HIDE DEF m, n
      <4> QED BY <2>1, <3>1
    <3>3. Settled(s, o, k)
      <4> HIDE DEF m, n, k
      <4> QED BY <2>6, <3>1
    <3>4. f[j] = Borrow(s, o, k)
      <4> HIDE DEF m, n, out, T
      <4> QED BY <2>1
    <3> HIDE DEF k, o, m, n
    <3>5. Settled(s, Borrow(s, o, k), k - 1)
      BY <2>3, <3>1, <3>2, <3>3, BorrowSettles
    <3> QED BY <3>1, <3>4, <3>5
  <2>7. Settled(s, f[n], 1)
    <3>1. 0..n \subseteq S
      <4> HIDE DEF S, n
      <4> QED BY <2>3, <2>5, <2>6, UpTheNumbers
    <3>2. n \in 0..n /\ m - n = 1
      <4> HIDE DEF m, n
      <4> QED BY <2>3
    <3> HIDE DEF m, n
    <3> QED BY <3>1, <3>2
  <2>8. f[n] \in Seq(AChunk) /\ Tiling(f[n], Len(s))
    <3>1. n \in 0..n
      <4> HIDE DEF m, n
      <4> QED BY <2>3
    <3> HIDE DEF m, n
    <3> QED BY <2>1, <3>1
  <2>9. PlanSentence(s) = f[n]
    BY <2>1
  <2> HIDE DEF n
  <2> QED BY <1>2, <2>7, <2>8, <2>9, SettledIsGood
<1> QED BY <1>1, <1>2

-----------------------------------------------------------------------------
(* The plan of a text, and what the server says of it.                     *)

APiece == [sentence : Nat, chunk : AChunk]

\* The kind of a chunk does not matter.
LEMMA SamePlaces ==
  ASSUME NEW s, NEW out \in Seq(AChunk), GoodPlan(s, out),
         NEW new \in Seq(AChunk), Len(new) = Len(out),
         \A k \in DOMAIN out : new[k].first = out[k].first /\ new[k].last = out[k].last
  PROVE  GoodPlan(s, new)
<1> DEFINE m == Len(out)
<1>1. /\ m \in Nat /\ DOMAIN out = 1..m /\ DOMAIN new = 1..m /\ Len(new) = m
      /\ (out = <<>> <=> m = 0) /\ (new = <<>> <=> m = 0)
  OBVIOUS
<1>2. \A k \in 1..m : new[k].first = out[k].first /\ new[k].last = out[k].last
  BY <1>1
<1>3. \A k \in 2..m : k \in 1..m /\ k - 1 \in 1..m
  BY <1>1
<1>4. \A k \in 1..m - 1 : k \in 1..m /\ k + 1 \in 1..m
  BY <1>1
<1>5. m # 0 => 1 \in 1..m /\ m \in 1..m
  BY <1>1
<1> HIDE DEF m
<1>6. WordsKept(s, new)
  <2>1. CASE s = <<>>
    <3>1. m = 0
      BY <1>1, <2>1 DEF GoodPlan, WordsKept
    <3> QED BY <1>1, <2>1, <3>1 DEF WordsKept
  <2>2. CASE s # <<>>
    <3>1. /\ m # 0 /\ out[1].first = 1 /\ out[m].last = Len(s)
          /\ \A k \in 1..m : out[k].first <= out[k].last
          /\ \A k \in 2..m : out[k].first = out[k - 1].last + 1
      BY <1>1, <2>2 DEF GoodPlan, WordsKept, m
    <3>2. /\ new[1].first = 1 /\ new[m].last = Len(s)
          /\ \A k \in 1..m : new[k].first <= new[k].last
          /\ \A k \in 2..m : new[k].first = new[k - 1].last + 1
      BY <1>2, <1>3, <1>5, <3>1
    <3> QED BY <1>1, <2>2, <3>1, <3>2 DEF WordsKept
  <2> QED BY <2>1, <2>2
<1>7. WithinBudget(s, new)
  <2>1. ASSUME NEW c \in ToSet(new), NEW j \in c.first + 1..c.last,
               Tokens(s, c.first, j) > MaxTokens
        PROVE  s[j - 1].ezafe \/ Borrowed(s, c)
    <3>1. PICK k \in 1..m : c = new[k]
      BY <1>1 DEF ToSet
    <3>2. out[k] \in ToSet(out) /\ c.first = out[k].first /\ c.last = out[k].last
      BY <1>1, <1>2, <3>1 DEF ToSet
    <3>3. s[j - 1].ezafe \/ Borrowed(s, out[k])
      BY <2>1, <3>2 DEF GoodPlan, WithinBudget
    <3> QED BY <3>2, <3>3 DEF Borrowed
  <2> QED BY <2>1 DEF WithinBudget
<1>8. TiesKept(s, new)
  BY <1>1, <1>2, <1>4 DEF GoodPlan, TiesKept, Borrowed, m
<1>9. ShortOnlyIfNoneSpares(s, new)
  BY <1>1, <1>2, <1>3 DEF GoodPlan, ShortOnlyIfNoneSpares, Borrowed, m
<1> QED BY <1>6, <1>7, <1>8, <1>9 DEF GoodPlan

\* The pieces of one sentence are its plan.
LEMMA PiecesAreGood ==
  ASSUME NEW s \in Seq(Words), NEW n \in Nat
  PROVE  /\ Pieces(s, n) \in Seq(APiece)
         /\ \A k \in DOMAIN Pieces(s, n) : Pieces(s, n)[k].sentence = n
         /\ GoodPlan(s, [k \in 1..Len(Pieces(s, n)) |-> Pieces(s, n)[k].chunk])
<1> DEFINE out == PlanSentence(s)
           m == Len(out)
           last(k) == [out[k] EXCEPT !.kind = "sentence"]
           p == Pieces(s, n)
           new == [k \in 1..Len(p) |-> p[k].chunk]
<1>1. out \in Seq(AChunk) /\ GoodPlan(s, out)
  BY PlanIsGood
<1>2. p = [k \in DOMAIN out |->
             [sentence |-> n, chunk |-> IF k = m THEN last(k) ELSE out[k]]]
  BY DEF Pieces
<1> HIDE DEF out, p
<1>3. m \in Nat /\ DOMAIN out = 1..m /\ \A k \in 1..m : out[k] \in AChunk
  BY <1>1
<1>4. ASSUME NEW k \in 1..m
      PROVE  last(k) \in AChunk /\ last(k).first = out[k].first /\ last(k).last = out[k].last
  <2> DEFINE c == out[k]
  <2>1. c \in AChunk
    BY <1>3
  <2> HIDE DEF c
  <2>2. /\ [c EXCEPT !.kind = "sentence"] \in AChunk
        /\ [c EXCEPT !.kind = "sentence"].first = c.first
        /\ [c EXCEPT !.kind = "sentence"].last = c.last
    BY <2>1 DEF AChunk, Kinds
  <2> QED BY <2>2 DEF c
<1> HIDE DEF last, m
<1>5. ASSUME NEW k \in 1..m
      PROVE  /\ p[k] \in APiece /\ p[k].sentence = n
             /\ p[k].chunk \in AChunk
             /\ p[k].chunk.first = out[k].first /\ p[k].chunk.last = out[k].last
  <2> DEFINE c == IF k = m THEN last(k) ELSE out[k]
  <2>1. p[k] = [sentence |-> n, chunk |-> c]
    BY <1>2, <1>3
  <2>2. c \in AChunk /\ c.first = out[k].first /\ c.last = out[k].last
    BY <1>3, <1>4
  <2> HIDE DEF c
  <2> QED BY <2>1, <2>2 DEF APiece
<1>6. p \in [1..m -> APiece]
  <2>1. p = [k \in 1..m |-> p[k]]
    BY <1>2, <1>3
  <2> QED BY <1>5, <2>1
<1>7. p \in Seq(APiece) /\ Len(p) = m /\ DOMAIN p = 1..m
  BY <1>3, <1>6
<1>8. new \in Seq(AChunk) /\ Len(new) = m /\ \A k \in 1..m : new[k] = p[k].chunk
  <2>1. new \in [1..m -> AChunk] /\ \A k \in 1..m : new[k] = p[k].chunk
    BY <1>5, <1>7
  <2> HIDE DEF new
  <2> QED BY <1>3, <2>1
<1>9. GoodPlan(s, new)
  <2>1. /\ Len(new) = Len(out)
        /\ \A k \in DOMAIN out : new[k].first = out[k].first /\ new[k].last = out[k].last
    BY <1>3, <1>5, <1>8 DEF m
  <2> HIDE DEF new
  <2> QED BY <1>1, <1>8, <2>1, SamePlaces
<1> QED BY <1>5, <1>7, <1>9 DEF p

\* The pieces p of sentence n lie together in an audio, after a others.
Lies(audio, n, a, p) ==
  /\ a + Len(p) <= Len(audio)
  /\ \A k \in DOMAIN audio : audio[k].sentence = n <=> k \in a + 1..a + Len(p)
  /\ \A j \in 1..Len(p) : audio[a + j] = p[j]

\* So the audio gives them back.
LEMMA FoundAgain ==
  ASSUME NEW audio \in Seq(APiece), NEW n \in Nat, NEW a \in Nat,
         NEW p \in Seq(APiece), Lies(audio, n, a, p)
  PROVE  OfSentence(audio, n) = [j \in 1..Len(p) |-> p[j].chunk]
<1> DEFINE places == {k \in DOMAIN audio : audio[k].sentence = n}
           l == Len(p)
<1>1. l \in Nat /\ a + l <= Len(audio) /\ DOMAIN audio = 1..Len(audio) /\ Len(audio) \in Nat
  BY DEF Lies
<1>2. places = a + 1..a + l
  <2>1. \A k \in a + 1..a + l : k \in 1..Len(audio)
    <3> HIDE DEF l
    <3> QED BY <1>1
  <2> QED BY <1>1, <2>1 DEF Lies
<1>3. Cardinality(places) = l
  <2> HIDE DEF places, l
  <2>1. a + 1 \in Int /\ a + l \in Int /\ (a + 1 <= a + l + 1)
    BY <1>1
  <2>2. Cardinality(a + 1..a + l) = IF a + 1 > a + l THEN 0 ELSE (a + l) - (a + 1) + 1
    BY <2>1, FS_Interval
  <2>3. Cardinality(a + 1..a + l) = l
    BY <1>1, <2>2
  <2> QED BY <1>2, <2>3
<1>4. ASSUME NEW j \in 1..l PROVE audio[Min(places) + j - 1].chunk = p[j].chunk
  <2> HIDE DEF places, l
  <2>1. l > 0 /\ a + 1 \in a + 1..a + l /\ \A k \in a + 1..a + l : a + 1 <= k
    BY <1>1
  <2>2. \A z \in a + 1..a + l : (\A k \in a + 1..a + l : z <= k) => z = a + 1
    BY <1>1, <2>1
  <2>3. Min(places) = CHOOSE z \in a + 1..a + l : \A k \in a + 1..a + l : z <= k
    BY <1>2 DEF Min
  <2>4. Min(places) = a + 1
    BY <2>1, <2>2, <2>3
  <2>5. (a + 1) + j - 1 = a + j
    BY <1>1
  <2>6. audio[a + j] = p[j]
    BY DEF Lies, l
  <2> QED BY <2>4, <2>5, <2>6
<1>5. OfSentence(audio, n) = [j \in 1..l |-> audio[Min(places) + j - 1].chunk]
  <2>1. OfSentence(audio, n)
          = [j \in 1..Cardinality(places) |-> audio[Min(places) + j - 1].chunk]
    BY DEF OfSentence
  <2> HIDE DEF places, l
  <2> QED BY <1>3, <2>1
<1> HIDE DEF places
<1> QED BY <1>4, <1>5

\* The audio is that of the first i sentences, in their order.
InSentences(t, audio, i) ==
  /\ \A k \in 2..Len(audio) : audio[k - 1].sentence <= audio[k].sentence
  /\ \A k \in DOMAIN audio : audio[k].sentence <= i
  /\ \A n \in 1..i : \E a \in Nat : Lies(audio, n, a, Pieces(t[n], n))

LEMMA NextSentence ==
  ASSUME NEW t \in Seq(Seq(Words)), NEW i \in 1..Len(t), NEW audio \in Seq(APiece),
         InSentences(t, audio, i - 1)
  PROVE  /\ audio \o Pieces(t[i], i) \in Seq(APiece)
         /\ InSentences(t, audio \o Pieces(t[i], i), i)
<1> DEFINE p == Pieces(t[i], i)
           new == audio \o p
           m == Len(audio)
           l == Len(p)
<1>1. i \in Nat /\ i - 1 \in Nat /\ t[i] \in Seq(Words)
  OBVIOUS
<1>2. p \in Seq(APiece) /\ \A k \in DOMAIN p : p[k].sentence = i
  BY <1>1, PiecesAreGood
<1> HIDE DEF p
<1>3. /\ m \in Nat /\ l \in Nat /\ DOMAIN audio = 1..m /\ DOMAIN p = 1..l
      /\ new \in Seq(APiece) /\ Len(new) = m + l /\ DOMAIN new = 1..m + l
  BY <1>2
<1>4. \A k \in 1..m : new[k] = audio[k]
  BY <1>2
<1>5. \A j \in 1..l : new[m + j] = p[j]
  BY <1>2
<1> HIDE DEF new, m, l
<1>6. \A k \in 1..m + l : k \notin 1..m => k - m \in 1..l /\ k = m + (k - m)
  BY <1>3
<1>7. \A k \in 1..m : audio[k] \in APiece /\ audio[k].sentence \in Nat /\ audio[k].sentence <= i - 1
  <2>1. \A k \in 1..m : audio[k] \in APiece
    BY <1>3 DEF m
  <2>2. \A k \in 1..m : audio[k].sentence <= i - 1
    BY <1>3 DEF InSentences
  <2> QED BY <2>1, <2>2 DEF APiece
<1>8. \A k \in 1..m + l : k \notin 1..m => new[k].sentence = i
  <2>1. ASSUME NEW k \in 1..m + l, k \notin 1..m PROVE new[k].sentence = i
    <3>1. PICK j \in 1..l : k = m + j
      BY <1>6, <2>1
    <3> QED BY <1>2, <1>3, <1>5, <3>1
  <2> QED BY <2>1
<1>9. \A x \in Nat : x <= i - 1 => x <= i /\ x # i
  BY <1>1
<1>10. ASSUME NEW k \in 2..Len(new) PROVE new[k - 1].sentence <= new[k].sentence
  <2>1. k \in 1..m + l /\ k - 1 \in 1..m + l /\ (k \in 1..m => k \in 2..m /\ k - 1 \in 1..m)
    BY <1>3
  <2>2. CASE k \in 1..m
    BY <1>3, <1>4, <2>1, <2>2 DEF InSentences, m
  <2>3. CASE k \notin 1..m
    <3>1. new[k].sentence = i
      BY <1>8, <2>1, <2>3
    <3>2. new[k - 1].sentence <= i
      <4>1. CASE k - 1 \in 1..m
        BY <1>4, <1>7, <1>9, <4>1
      <4>2. CASE k - 1 \notin 1..m
        BY <1>1, <1>8, <2>1, <4>2
      <4> QED BY <4>1, <4>2
    <3> QED BY <3>1, <3>2
  <2> QED BY <2>2, <2>3
<1>11. ASSUME NEW k \in DOMAIN new PROVE new[k].sentence <= i
  <2>1. CASE k \in 1..m
    BY <1>4, <1>7, <1>9, <2>1
  <2>2. CASE k \notin 1..m
    BY <1>1, <1>3, <1>8, <2>2, SMTT(60)
  <2> QED BY <2>1, <2>2
<1>12. ASSUME NEW n \in 1..i PROVE \E a \in Nat : Lies(new, n, a, Pieces(t[n], n))
  <2>1. CASE n = i
    <3>1. \A k \in 1..m : new[k].sentence # i
      BY <1>4, <1>7, <1>9
    <3>2. \A k \in 1..m + l : k \in m + 1..m + l <=> k \notin 1..m
      BY <1>3
    <3>3. \A k \in DOMAIN new : new[k].sentence = i <=> k \in m + 1..m + l
      BY <1>3, <1>8, <3>1, <3>2
    <3>4. m + l <= Len(new)
      BY <1>3
    <3>5. Lies(new, i, m, p)
      BY <1>5, <3>3, <3>4 DEF Lies, l
    <3> QED BY <1>3, <2>1, <3>5 DEF p
  <2>2. CASE n # i
    <3> DEFINE q == Pieces(t[n], n)
    <3>1. n \in 1..i - 1 /\ n \in Nat /\ n \in 1..Len(t)
      BY <1>1, <2>2
    <3>2. PICK a \in Nat : Lies(audio, n, a, q)
      BY <3>1 DEF InSentences
    <3>3. q \in Seq(APiece) /\ Len(q) \in Nat
      <4>1. t[n] \in Seq(Words)
        BY <3>1
      <4>2. q \in Seq(APiece)
        BY <3>1, <4>1, PiecesAreGood
      <4> HIDE DEF q
      <4> QED BY <4>2
    <3> HIDE DEF q
    <3> DEFINE e == a + Len(q)
    <3>4. /\ e <= m
          /\ \A k \in 1..m : audio[k].sentence = n <=> k \in a + 1..e
          /\ \A j \in 1..Len(q) : audio[a + j] = q[j]
      BY <1>3, <3>2 DEF Lies, m
    <3>5. e \in Nat /\ \A j \in 1..Len(q) : a + j \in 1..m
      <4>1. m \in Nat /\ Len(q) \in Nat /\ a \in Nat /\ a + Len(q) <= m
        BY <1>3, <3>3, <3>4
      <4> QED BY <4>1
    <3>6. e <= Len(new)
      BY <1>3, <3>4, <3>5
    <3>7. ASSUME NEW k \in DOMAIN new PROVE new[k].sentence = n <=> k \in a + 1..e
      <4>1. CASE k \in 1..m
        BY <1>4, <3>4, <4>1
      <4>2. CASE k \notin 1..m
        <5>1. k \notin a + 1..e
          <6> HIDE DEF e
          <6>1. e <= m /\ e \in Nat
            BY <3>4, <3>5
          <6>2. \A x \in a + 1..e : x \in 1..m
            BY <1>3, <6>1
          <6> QED BY <4>2, <6>2
        <5> QED BY <1>3, <1>8, <2>2, <4>2, <5>1
      <4> QED BY <4>1, <4>2
    <3>8. \A j \in 1..Len(q) : new[a + j] = q[j]
      BY <1>4, <3>4, <3>5
    <3>9. Lies(new, n, a, q)
      BY <3>6, <3>7, <3>8 DEF Lies
    <3> QED BY <3>9 DEF q
  <2> QED BY <2>1, <2>2
<1>13. InSentences(t, new, i)
  BY <1>10, <1>11, <1>12 DEF InSentences
<1> QED BY <1>3, <1>13 DEF new, p

\* The whole audio of a text, whatever its sentences.
LEMMA TextIsWhole ==
  ASSUME NEW t \in Seq(Seq(Words))
  PROVE  PlanText(t) \in Seq(APiece) /\ InSentences(t, PlanText(t), Len(t))
<1> DEFINE N == Len(t)
           ps == [n \in DOMAIN t |-> Pieces(t[n], n)]
           step == [i \in 1..N |-> [x \in Seq(APiece) |-> x \o ps[i]]]
           Rec(f) == f = [i \in 1..Len(ps) |-> IF i = 1 THEN ps[i] ELSE f[i - 1] \o ps[i]]
           flatten == CHOOSE f : Rec(f)
<1>1. N \in Nat /\ DOMAIN t = 1..N /\ \A i \in 1..N : t[i] \in Seq(Words) /\ i \in Nat
  OBVIOUS
<1>2. \A i \in 1..N : ps[i] = Pieces(t[i], i) /\ ps[i] \in Seq(APiece)
  BY <1>1, PiecesAreGood
<1>3. ps \in Seq(Seq(APiece)) /\ Len(ps) = N
  <2>1. ps \in [1..N -> Seq(APiece)]
    <3>1. ps = [i \in 1..N |-> ps[i]]
      BY <1>1
    <3> HIDE DEF ps, N
    <3> QED BY <1>2, <3>1
  <2> HIDE DEF ps, N
  <2> QED BY <1>1, <2>1
<1> HIDE DEF N, ps
<1>4. step \in [1..N -> [Seq(APiece) -> Seq(APiece)]]
  <2>1. \A i \in 1..N : \A x \in Seq(APiece) : x \o ps[i] \in Seq(APiece)
    BY <1>2
  <2> QED BY <2>1
<1>5. <<>> \in Seq(APiece)
  OBVIOUS
<1>6. PICK f \in [0..N -> Seq(APiece)] : Stepwise(f, N, <<>>, step)
  <2> HIDE DEF step
  <2> QED BY <1>1, <1>4, <1>5, StepByStep, Zenon
<1>7. \A i \in 1..N : i \in 0..N /\ i - 1 \in 0..N /\ (i # 1 => i - 1 \in 1..N)
  BY <1>1
<1>8. f[0] = <<>> /\ \A i \in 1..N : f[i] = f[i - 1] \o ps[i]
  BY <1>6, <1>7 DEF Stepwise
<1> DEFINE S == {i \in 0..N : InSentences(t, f[i], i)}
<1>9. InSentences(t, f[N], N) /\ f[N] \in Seq(APiece)
  <2>1. 0 \in S
    BY <1>1, <1>8 DEF InSentences
  <2>2. ASSUME NEW i \in 1..N, i - 1 \in S PROVE i \in S
    <3>1. f[i - 1] \in Seq(APiece) /\ InSentences(t, f[i - 1], i - 1)
      BY <1>6, <1>7, <2>2
    <3>2. InSentences(t, f[i - 1] \o Pieces(t[i], i), i)
      BY <3>1, NextSentence DEF N
    <3> QED BY <1>2, <1>7, <1>8, <3>2
  <2>3. 0..N \subseteq S
    <3> HIDE DEF S
    <3> QED BY <1>1, <2>1, <2>2, UpTheNumbers
  <2>4. N \in 0..N
    BY <1>1
  <2> QED BY <1>6, <2>3, <2>4
<1>10. PlanText(t) = f[N]
  <2>1. PlanText(t) = FlattenSeq(ps)
    BY DEF PlanText, ps
  <2>2. CASE N = 0
    <3>1. ps = <<>>
      BY <1>3, <2>2
    <3> QED BY <1>3, <1>8, <2>1, <2>2, <3>1 DEF FlattenSeq
  <2>3. CASE N # 0
    <3>1. FlattenSeq(ps) = flatten[N]
      BY <1>3, <2>3 DEF FlattenSeq
    <3> DEFINE g == [i \in 1..N |-> f[i]]
    <3>2. ASSUME NEW i \in 1..N
          PROVE  g[i] = IF i = 1 THEN ps[i] ELSE g[i - 1] \o ps[i]
      <4>1. g[i] = f[i - 1] \o ps[i]
        BY <1>8
      <4>2. CASE i = 1
        <5>1. f[i - 1] = <<>> /\ ps[i] \in Seq(APiece)
          BY <1>2, <1>8, <4>2
        <5>2. <<>> \o ps[i] = ps[i]
          BY <5>1
        <5> QED BY <4>1, <4>2, <5>1, <5>2
      <4>3. CASE i # 1
        <5>1. g[i - 1] = f[i - 1]
          BY <1>7, <4>3
        <5> HIDE DEF g
        <5> QED BY <4>1, <4>3, <5>1
      <4> QED BY <4>2, <4>3
    <3>3. Rec(g)
      <4>1. g = [i \in 1..N |-> g[i]]
        OBVIOUS
      <4> HIDE DEF g
      <4> QED BY <1>3, <3>2, <4>1
    <3>4. Rec(flatten)
      <4> HIDE DEF Rec
      <4> QED BY <3>3
    <3>5. \A i \in 1..N : flatten[i] = IF i = 1 THEN ps[i] ELSE flatten[i - 1] \o ps[i]
      <4> HIDE DEF flatten
      <4> QED BY <1>3, <3>4
    <3> HIDE DEF flatten
    <3> DEFINE E == {i \in 0..N : i = 0 \/ flatten[i] = f[i]}
    <3>6. 0 \in E
      BY <1>1
    <3>7. ASSUME NEW i \in 1..N, i - 1 \in E PROVE i \in E
      <4>1. g[i] = f[i] /\ flatten[i] = IF i = 1 THEN ps[i] ELSE flatten[i - 1] \o ps[i]
        BY <3>5
      <4>2. g[i] = IF i = 1 THEN ps[i] ELSE g[i - 1] \o ps[i]
        BY <3>2
      <4>3. CASE i = 1
        BY <1>7, <4>1, <4>2, <4>3
      <4>4. CASE i # 1
        <5>1. i - 1 \in 1..N /\ i - 1 # 0
          BY <1>7, <4>4
        <5>2. flatten[i - 1] = f[i - 1] /\ g[i - 1] = f[i - 1]
          BY <3>7, <5>1
        <5> HIDE DEF g
        <5> QED BY <1>7, <4>1, <4>2, <4>4, <5>2
      <4> QED BY <4>3, <4>4
    <3>8. 0..N \subseteq E
      <4> HIDE DEF E
      <4> QED BY <1>1, <3>6, <3>7, UpTheNumbers
    <3>9. N \in 0..N
      BY <1>1
    <3> QED BY <2>1, <2>3, <3>1, <3>8, <3>9
  <2> QED BY <2>2, <2>3
<1> QED BY <1>9, <1>10 DEF N

\* The whole audio of a text is in order and has every sentence's plan.
LEMMA AudioIsWhole ==
  ASSUME NEW t \in Seq(Seq(Words))
  PROVE  LET audio == PlanText(t)
         IN /\ \A k \in 2..Len(audio) : audio[k - 1].sentence <= audio[k].sentence
            /\ \A n \in DOMAIN t : GoodPlan(t[n], OfSentence(audio, n))
<1> DEFINE audio == PlanText(t)
<1>1. audio \in Seq(APiece) /\ InSentences(t, audio, Len(t))
  BY TextIsWhole
<1> HIDE DEF audio
<1>2. ASSUME NEW n \in DOMAIN t PROVE GoodPlan(t[n], OfSentence(audio, n))
  <2>1. n \in 1..Len(t) /\ n \in Nat /\ t[n] \in Seq(Words)
    OBVIOUS
  <2> DEFINE p == Pieces(t[n], n)
  <2>2. p \in Seq(APiece) /\ GoodPlan(t[n], [j \in 1..Len(p) |-> p[j].chunk])
    BY <2>1, PiecesAreGood
  <2>3. PICK a \in Nat : Lies(audio, n, a, p)
    BY <1>1, <2>1 DEF InSentences
  <2> HIDE DEF p
  <2>4. OfSentence(audio, n) = [j \in 1..Len(p) |-> p[j].chunk]
    BY <1>1, <2>1, <2>2, <2>3, FoundAgain
  <2> QED BY <2>2, <2>4
<1> QED BY <1>1, <1>2 DEF InSentences, audio

\* What a client has heard is a beginning of its plan, the plan that of its
\* text, and an answer the whole of it.
Rendered(c) ==
  /\ text[c] \in Seq(Seq(Words))
  /\ job[c] \in {"none", "waiting"} => spoken[c] = <<>>
  /\ job[c] = "rendering" =>
       /\ plan[c] = PlanText(text[c])
       /\ spoken[c] \in Seq(APiece) /\ Len(spoken[c]) <= Len(plan[c])
       /\ \A k \in DOMAIN spoken[c] : spoken[c][k] = plan[c][k]
  /\ job[c] = "answered" => spoken[c] = PlanText(text[c])

RenderInv ==
  /\ plan \in [Clients -> Seq(APiece)]
  /\ spoken \in [Clients -> Seq(APiece)]
  /\ \A c \in Clients : Rendered(c)

LEMMA RenderInit == SpeechInit => RenderInv
<1> SUFFICES ASSUME SpeechInit PROVE RenderInv
  OBVIOUS
<1>1. /\ job = [c \in Clients |-> "none"] /\ text \in Texts
      /\ plan = [c \in Clients |-> <<>>] /\ spoken = [c \in Clients |-> <<>>]
  BY DEF SpeechInit, ServerInit
<1>2. <<>> \in Seq(APiece)
  OBVIOUS
<1>3. text \in [Clients -> Seq(Seq(Words))]
  BY <1>1, TextsAssumption
<1> QED BY <1>1, <1>2, <1>3 DEF RenderInv, Rendered

\* A step that is not for client c leaves what it has.
LEMMA OthersStay ==
  ASSUME NEW c \in Clients, Rendered(c),
         text' = text, job'[c] = job[c], plan'[c] = plan[c], spoken'[c] = spoken[c]
  PROVE  Rendered(c)'
BY DEF Rendered

LEMMA RenderStep == RenderInv /\ ServerInv /\ [SpeechNext]_allVars => RenderInv'
<1> SUFFICES ASSUME RenderInv, ServerInv, [SpeechNext]_allVars PROVE RenderInv'
  OBVIOUS
<1>0. /\ plan \in [Clients -> Seq(APiece)] /\ spoken \in [Clients -> Seq(APiece)]
      /\ \A c \in Clients : Rendered(c)
      /\ job \in [Clients -> {"none", "waiting", "rendering"} \cup Answers]
  BY DEF RenderInv, ServerInv
<1>1. ASSUME NEW c \in Clients, Post(c) PROVE RenderInv'
  <2>1. UNCHANGED <<text, plan, spoken>> /\ job[c] = "none" /\ job'[c] \in {"refused", "waiting"}
        /\ \A d \in Clients : d # c => job'[d] = job[d]
    BY <1>0, <1>1 DEF Post, Reaches
  <2>2. Rendered(c)'
    BY <1>0, <2>1 DEF Rendered
  <2>3. ASSUME NEW d \in Clients, d # c PROVE Rendered(d)'
    BY <1>0, <2>1, <2>3, OthersStay
  <2> QED BY <1>0, <2>1, <2>2, <2>3 DEF RenderInv
<1>2. ASSUME NEW c \in Clients, Enter(c) PROVE RenderInv'
  <2>1. /\ UNCHANGED <<text, spoken>> /\ job[c] = "waiting" /\ job'[c] = "rendering"
        /\ plan' = [plan EXCEPT ![c] = PlanText(text[c])]
        /\ \A d \in Clients : d # c => job'[d] = job[d]
    BY <1>0, <1>2 DEF Enter, TakeLock, Reaches
  <2>2. text[c] \in Seq(Seq(Words)) /\ spoken[c] = <<>>
    BY <1>0, <2>1 DEF Rendered
  <2>3. PlanText(text[c]) \in Seq(APiece)
    BY <2>2, TextIsWhole
  <2>4. /\ plan' \in [Clients -> Seq(APiece)] /\ plan'[c] = PlanText(text[c])
        /\ \A d \in Clients : d # c => plan'[d] = plan[d]
    BY <1>0, <2>1, <2>3
  <2>5. /\ Len(spoken[c]) <= Len(PlanText(text[c]))
        /\ spoken[c] \in Seq(APiece) /\ DOMAIN spoken[c] = {}
    BY <2>2, <2>3
  <2>6. Rendered(c)'
    BY <2>1, <2>2, <2>4, <2>5 DEF Rendered
  <2>7. ASSUME NEW d \in Clients, d # c PROVE Rendered(d)'
    BY <1>0, <2>1, <2>4, <2>7, OthersStay
  <2> QED BY <1>0, <2>1, <2>4, <2>6, <2>7 DEF RenderInv
<1>3. ASSUME NEW c \in Clients, Speak(c) PROVE RenderInv'
  <2> DEFINE s == spoken[c]
             p == plan[c]
             new == Append(s, p[Len(s) + 1])
  <2>1. /\ UNCHANGED <<job, text, plan>> /\ job[c] = "rendering" /\ Len(s) < Len(p)
        /\ spoken' = [spoken EXCEPT ![c] = new]
    BY <1>3 DEF Speak
  <2>2. /\ text[c] \in Seq(Seq(Words)) /\ p = PlanText(text[c]) /\ p \in Seq(APiece)
        /\ s \in Seq(APiece) /\ \A k \in DOMAIN s : s[k] = p[k]
    BY <1>0, <2>1 DEF Rendered
  <2> HIDE DEF s, p
  <2>3. p[Len(s) + 1] \in APiece
    BY <2>1, <2>2
  <2>4. /\ new \in Seq(APiece) /\ Len(new) = Len(s) + 1 /\ Len(new) <= Len(p)
        /\ DOMAIN new = 1..Len(s) + 1 /\ DOMAIN s = 1..Len(s) /\ Len(s) \in Nat
        /\ new[Len(s) + 1] = p[Len(s) + 1] /\ \A k \in 1..Len(s) : new[k] = s[k]
    BY <2>1, <2>2, <2>3
  <2> HIDE DEF new
  <2>5. \A k \in DOMAIN new : new[k] = p[k]
    <3>1. \A k \in 1..Len(s) + 1 : k \in 1..Len(s) \/ k = Len(s) + 1
      BY <2>4
    <3> QED BY <2>2, <2>4, <3>1
  <2>6. /\ spoken' \in [Clients -> Seq(APiece)] /\ spoken'[c] = new
        /\ \A d \in Clients : d # c => spoken'[d] = spoken[d]
    BY <1>0, <2>1, <2>4
  <2>7. Rendered(c)'
    BY <2>1, <2>2, <2>4, <2>5, <2>6 DEF Rendered, p
  <2>8. ASSUME NEW d \in Clients, d # c PROVE Rendered(d)'
    BY <1>0, <2>1, <2>6, <2>8, OthersStay
  <2> QED BY <1>0, <2>1, <2>6, <2>7, <2>8 DEF RenderInv
<1>4. ASSUME NEW c \in Clients, RunAway(c) PROVE RenderInv'
  BY <1>0, <1>4, OthersStay DEF RunAway, RenderInv
<1>5. ASSUME NEW c \in Clients, Exit(c) PROVE RenderInv'
  <2>1. /\ UNCHANGED <<text, plan, spoken>> /\ job[c] = "rendering"
        /\ job'[c] \in Answers
        /\ job'[c] = "answered" => Len(spoken[c]) = Len(plan[c])
        /\ \A d \in Clients : d # c => job'[d] = job[d]
    BY <1>0, <1>5 DEF Exit, Ends, Reaches, Answers
  <2>2. /\ text[c] \in Seq(Seq(Words)) /\ plan[c] = PlanText(text[c])
        /\ plan[c] \in Seq(APiece) /\ spoken[c] \in Seq(APiece)
        /\ \A k \in DOMAIN spoken[c] : spoken[c][k] = plan[c][k]
    BY <1>0, <2>1 DEF Rendered
  <2>3. job'[c] = "answered" => spoken[c] = plan[c]
    BY <2>1, <2>2
  <2>4. Rendered(c)'
    BY <2>1, <2>2, <2>3 DEF Rendered, Answers
  <2>5. ASSUME NEW d \in Clients, d # c PROVE Rendered(d)'
    BY <1>0, <2>1, <2>5, OthersStay
  <2> QED BY <1>0, <2>1, <2>4, <2>5 DEF RenderInv
<1>6. CASE UNCHANGED serverVars
  BY <1>0, <1>6, OthersStay DEF serverVars, RenderInv
<1>7. CASE \E c \in Clients : Work(c)
  BY <1>2, <1>3, <1>4, <1>5, <1>7 DEF Work
<1> QED
  BY <1>1, <1>6, <1>7, ServerAssumption DEF SpeechNext, Ask, Serve, FromRuntime,
     Otherwise, SpeechOver, allVars

\* Every complete answer is the whole text, each word once and in its place, in
\* chunks that keep the budget, the ties and the least length as far as they
\* can: for any clients, any texts, any budgets and any runaways (plan_sentence,
\* render, generate_one, stream_speech, stream_speech_audio).
THEOREM SpeechIsWholeHolds == SpeechSpec => []SpeechIsWhole
<1>1. SpeechInit => ServerInv
  BY ServerAssumption DEF SpeechInit, Init, ServerInit, ServerInv
<1>2. SpeechSpec => []IInv
  BY Invariance, ComposedIsGatewayRequest, PTL
<1>3. SpeechSpec => []ServerInv
  BY <1>1, <1>2, ServerStep, PTL DEF SpeechSpec
<1>4. SpeechSpec => []RenderInv
  BY <1>3, RenderInit, RenderStep, PTL DEF SpeechSpec
<1>5. ServerInv /\ RenderInv => SpeechIsWhole
  <2> SUFFICES ASSUME ServerInv, RenderInv PROVE SpeechIsWhole
    OBVIOUS
  <2>1. AnswerIsTheServers
    BY DEF ServerInv, AnswerIsTheServers
  <2>2. ASSUME NEW c \in Clients, job[c] = "answered"
        PROVE  /\ \A k \in 2..Len(spoken[c]) :
                    spoken[c][k - 1].sentence <= spoken[c][k].sentence
               /\ \A n \in DOMAIN text[c] : GoodPlan(text[c][n], OfSentence(spoken[c], n))
    <3>1. text[c] \in Seq(Seq(Words)) /\ spoken[c] = PlanText(text[c])
      BY <2>2 DEF RenderInv, Rendered
    <3> QED BY <3>1, AudioIsWhole
  <2> QED BY <2>1, <2>2 DEF SpeechIsWhole
<1> QED BY <1>3, <1>4, <1>5, PTL

=============================================================================
