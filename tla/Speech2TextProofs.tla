-------------------------- MODULE Speech2TextProofs --------------------------
(***************************************************************************)
(* Theorems about Speech2Text, for every timeout, every duration of a call *)
(* and every lateness of the event loop.                                   *)
(***************************************************************************)
EXTENDS Speech2Text, TLAPS

Waits == {"question", "response"}

(* Where each wait may lie in time.                                        *)
Pace ==
  /\ now <= LastQuestion + 2 * MaxCall
  /\ at = "upload" => due = MaxCall /\ now <= due
  /\ at \in Waits => /\ due - MaxCall <= now /\ now <= due
                     /\ due <= LastQuestion + MaxCall
  /\ at = "sleep" => due <= Timeout /\ now <= due + Late
  /\ at = "delete" => now <= due /\ due <= LastQuestion + 2 * MaxCall

(* A job that completed unseen completed after the question reached the    *)
(* service; the adapter gives up with less than the longest sleep left.    *)
Unseen ==
  /\ at = "response" /\ seen = "running" /\ job = "completed"
       => doneAt >= due - MaxCall
  /\ at \in {"delete", "gave up"} =>
       /\ now > Timeout - MaxInterval
       /\ job = "completed" => doneAt > Timeout - MaxInterval - MaxCall

IInv == TypeOK /\ Pace /\ Unseen

\* An interval that grows stays within its bounds.
LEMMA LongerType ==
  ASSUME NEW i \in Intervals
  PROVE  Longer(i) \in Intervals
BY DEF Longer, Intervals, FirstInterval, MaxInterval

\* An interval is a number of at most 32 sixteenths of a second.
LEMMA IntervalBounds ==
  /\ FirstInterval \in Intervals
  /\ \A i \in Intervals : i \in Nat /\ i <= MaxInterval
BY DEF Intervals, FirstInterval, MaxInterval

\* Sleeps and calls end at a time.
LEMMA SumType == TypeOK => now + interval \in Nat /\ now + MaxCall \in Nat
<1> SUFFICES ASSUME TypeOK PROVE now + interval \in Nat /\ now + MaxCall \in Nat
  OBVIOUS
<1>1. now \in Nat /\ interval \in Nat BY IntervalBounds DEF TypeOK
<1> QED BY <1>1, TimesAssumption

\* Time that has passed is a number, and counts on.
LEMMA TickType ==
  ASSUME now \in Nat, Tick
  PROVE  now' \in Nat /\ now' = now + 1
BY DEF Tick

\* A decision to give up is late, and so was a job completed unseen.
LEMMA GivesUpLate ==
  ASSUME NEW n \in Nat, NEW d \in Nat, NEW b \in Nat, NEW i \in Nat,
         i <= MaxInterval, n + i > Timeout, b >= n
  PROVE  /\ n > Timeout - MaxInterval
         /\ d >= b - MaxCall => d > Timeout - MaxInterval - MaxCall
BY TimesAssumption DEF MaxInterval

\* What completes now completes no earlier than what is past.
LEMMA LaterStill ==
  ASSUME NEW n \in Nat, n > Timeout - MaxInterval
  PROVE  /\ n > Timeout - MaxInterval - MaxCall
         /\ n + 1 > Timeout - MaxInterval
BY TimesAssumption DEF MaxInterval

\* The adapter gives these answers.
LEMMA AnswersType ==
  /\ Refusals \subseteq Answers /\ Broken \subseteq Answers
  /\ 0 \in Answers /\ 200 \in Answers /\ 503 \in Answers /\ 504 \in Answers
BY DEF Answers

\* The adapter starts in the invariant.
LEMMA InitIInv == Init => IInv
BY TimesAssumption, AnswersType, IntervalBounds
   DEF Init, IInv, TypeOK, Pace, Unseen, Calls, Ended, States, Waits, LastQuestion,
       MaxInterval

\* Every step keeps the variables in their types.
LEMMA NextTypeOK == TypeOK /\ [Next]_vars => TypeOK'
<1> SUFFICES ASSUME TypeOK, [Next]_vars PROVE TypeOK'
  OBVIOUS
<1> USE TimesAssumption, AnswersType DEF TypeOK, Calls, Ended, States
<1>1. CASE Upload BY <1>1 DEF Upload
<1>2. CASE UploadFails BY <1>2, ZenonT(60) DEF UploadFails, End
<1>3. CASE Question BY <1>3 DEF Question
<1>4. CASE PollFails BY <1>4, ZenonT(60) DEF PollFails, End
<1>5. CASE Response
  <2>1. now + interval \in Nat /\ now + MaxCall \in Nat
    BY SumType
  <2>2. due' \in Nat BY <1>5, <2>1 DEF Response
  <2>3. at' \in Calls \cup Ended \cup {"sleep"} /\ answer' \in Answers
    <3>1. CASE End("ended", 200) BY <3>1, Zenon DEF End
    <3>2. CASE End("ended", 503) BY <3>2, Zenon DEF End
    <3>3. CASE at' \in {"delete", "sleep"} /\ UNCHANGED answer BY <3>3, Zenon
    <3> QED BY <1>5, <3>1, <3>2, <3>3 DEF Response
  <2> QED BY <1>5, <2>2, <2>3, ZenonT(60) DEF Response
<1>6. CASE Wake BY <1>6, LongerType DEF Wake
<1>7. CASE Delete
  <2>1. at' \in Ended /\ answer' \in Answers
    <3>1. CASE End("gave up", 503) BY <3>1, Zenon DEF End
    <3>2. CASE End("gave up", 504) BY <3>2, Zenon DEF End
    <3> QED BY <1>7, <3>1, <3>2 DEF Delete
  <2> QED BY <1>7, <2>1 DEF Delete
<1>8. CASE Leave BY <1>8 DEF Leave
<1>9. CASE JobCompletes \/ JobFails BY <1>9 DEF JobCompletes, JobFails
<1>10. CASE Tick
  <2>1. now' \in Nat BY <1>10, TickType
  <2> QED BY <1>10, <2>1 DEF Tick
<1>11. CASE UNCHANGED vars BY <1>11 DEF vars
<1> QED
  BY <1>1, <1>2, <1>3, <1>4, <1>5, <1>6, <1>7, <1>8, <1>9, <1>10, <1>11
     DEF Next, Over

\* Every step keeps the waits where they may lie.
LEMMA NextPace == TypeOK /\ Pace /\ [Next]_vars => Pace'
<1> SUFFICES ASSUME TypeOK, Pace, [Next]_vars PROVE Pace'
  OBVIOUS
<1> USE TimesAssumption DEF Pace, Waits, LastQuestion
<1>0. now \in Nat /\ due \in Nat /\ interval \in Nat
  BY IntervalBounds DEF TypeOK
<1>1. CASE Upload BY <1>0, <1>1 DEF Upload
<1>2. CASE UploadFails BY <1>2 DEF UploadFails, End
<1>3. CASE Question BY <1>3 DEF Question
<1>4. CASE PollFails BY <1>4 DEF PollFails, End
<1>5. CASE Response
  <2>1. CASE at' = "ended" BY <1>5, <2>1 DEF Response, End
  <2>2. CASE at' = "delete" BY <1>0, <1>5, <2>2 DEF Response, End
  <2>3. CASE at' = "sleep"
    BY <1>0, <1>5, <2>3 DEF Response, End, Expired
  <2> QED BY <1>5, <2>1, <2>2, <2>3 DEF Response, End
<1>6. CASE Wake BY <1>0, <1>6 DEF Wake
<1>7. CASE Delete BY <1>7 DEF Delete, End
<1>8. CASE Leave BY <1>8 DEF Leave
<1>9. CASE JobCompletes \/ JobFails BY <1>9 DEF JobCompletes, JobFails
<1>10. CASE Tick
  <2>1. at \in Calls \cup {"sleep"}
    BY <1>10 DEF Tick, TypeOK
  <2>2. CASE at = "sleep" BY <1>0, <1>10, <2>2 DEF Tick
  <2>3. CASE at # "sleep" BY <1>0, <1>10, <2>1, <2>3 DEF Tick, Calls
  <2> QED BY <2>2, <2>3
<1>11. CASE UNCHANGED vars BY <1>11 DEF vars
<1> QED
  BY <1>1, <1>2, <1>3, <1>4, <1>5, <1>6, <1>7, <1>8, <1>9, <1>10, <1>11
     DEF Next, Over

\* Every step keeps what is known of a job that has not been seen completed.
LEMMA NextUnseen == TypeOK /\ Pace /\ Unseen /\ [Next]_vars => Unseen'
<1> SUFFICES ASSUME TypeOK, Pace, Unseen, [Next]_vars PROVE Unseen'
  OBVIOUS
<1> USE TimesAssumption DEF Unseen
<1>0. /\ now \in Nat /\ due \in Nat /\ doneAt \in Nat
      /\ interval \in Nat /\ interval <= MaxInterval /\ MaxInterval \in Nat
  BY IntervalBounds DEF TypeOK, MaxInterval
<1>1. CASE Upload BY <1>1 DEF Upload
<1>2. CASE UploadFails BY <1>2 DEF UploadFails, End
<1>3. CASE Question BY <1>3 DEF Question
<1>4. CASE PollFails BY <1>4 DEF PollFails, End
<1>5. CASE Response
  <2>1. CASE at' # "delete" BY <1>5, <2>1 DEF Response, End
  <2>2. CASE at' = "delete"
    <3>1. now + interval > Timeout /\ seen = "running"
      BY <1>5, <2>2 DEF Response, End, Expired
    <3>2. now <= due
      BY <1>5 DEF Response, Pace, Waits
    <3>3. /\ now > Timeout - MaxInterval
          /\ doneAt >= due - MaxCall => doneAt > Timeout - MaxInterval - MaxCall
      BY <1>0, <3>1, <3>2, GivesUpLate
    <3>4. job = "completed" => doneAt >= due - MaxCall
      BY <1>5, <3>1 DEF Response
    <3> QED BY <1>5, <2>2, <3>3, <3>4 DEF Response
  <2> QED BY <2>1, <2>2
<1>6. CASE Wake BY <1>6 DEF Wake
<1>7. CASE Delete BY <1>7 DEF Delete, End
<1>8. CASE Leave BY <1>8 DEF Leave
<1>9. CASE JobCompletes \/ JobFails
  <2>1. at = "response" => now >= due - MaxCall
    BY DEF Pace, Waits
  <2>2. at \in {"delete", "gave up"} => now > Timeout - MaxInterval - MaxCall
    BY <1>0, LaterStill
  <2> QED BY <1>9, <2>1, <2>2 DEF JobCompletes, JobFails
<1>10. CASE Tick
  <2>1. at \in {"delete", "gave up"} => now' > Timeout - MaxInterval
    BY <1>0, <1>10, LaterStill, TickType
  <2> QED BY <1>10, <2>1 DEF Tick
<1>11. CASE UNCHANGED vars BY <1>11 DEF vars
<1> QED
  BY <1>1, <1>2, <1>3, <1>4, <1>5, <1>6, <1>7, <1>8, <1>9, <1>10, <1>11
     DEF Next, Over

\* The invariant holds in every reachable state.
THEOREM IInvHolds == Spec => []IInv
<1>1. IInv /\ [Next]_vars => IInv'
  BY NextTypeOK, NextPace, NextUnseen DEF IInv
<1> QED BY <1>1, InitIInv, PTL DEF Spec

\* Every variable has its type, and no sleep exceeds max_poll_interval.
THEOREM TypeCorrect == Spec => []TypeOK
<1>1. IInv => TypeOK BY DEF IInv
<1> QED BY <1>1, IInvHolds, PTL

\* The transcription ends within its deadline and two calls, or three calls.
THEOREM EndsInTimeHolds == Spec => []EndsInTime
<1>1. IInv => EndsInTime BY DEF IInv, Pace, EndsInTime
<1> QED BY <1>1, IInvHolds, PTL

\* A job that completed with a sleep and a call to spare is not given up.
THEOREM PromptJobIsReturnedHolds == Spec => []PromptJobIsReturned
<1>1. IInv => PromptJobIsReturned
  BY DEF IInv, Unseen, PromptJobIsReturned
<1> QED BY <1>1, IInvHolds, PTL

=============================================================================
