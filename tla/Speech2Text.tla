----------------------------- MODULE Speech2Text -----------------------------
(***************************************************************************)
(* One transcription by the adapter of the Speech2Text service:            *)
(* Speech2TextRuntime.transcribe of                                        *)
(* packages/runtimes/mc_runtimes/speech2text.py.  It uploads the audio,    *)
(* which makes a job, asks for the state of the job at growing intervals,  *)
(* and gives up when the next question would come after its deadline.      *)
(*                                                                         *)
(* Time is counted in sixteenths of a second, which makes every interval   *)
(* of the code a whole number.  It advances while the adapter waits, for a *)
(* call or in its sleep; all the rest takes no time.                       *)
(*                                                                         *)
(* A definition X_Y that precedes X is X with a plausible bug: the runs    *)
(* are known to find it.  The specification uses none of them.             *)
(***************************************************************************)
EXTENDS Integers

CONSTANTS
  Timeout,   \* self.timeout, from which the deadline is computed
  MaxCall,   \* the longest an HTTP call takes, a timeout of httpx included
  Late       \* how late the event loop may wake a sleeping task

ASSUME TimesAssumption == Timeout \in Nat /\ MaxCall \in Nat /\ Late \in Nat

VARIABLES
  at,        \* the call the adapter waits for, its sleep, or its end
  now,       \* time.monotonic()
  due,       \* when the call has ended at the latest, or the sleep is over
  interval,  \* the next sleep
  seen,      \* the state of the job that the last answered question gives
  answer,    \* the HTTP status the caller gets in the end; 0 until then
  job,       \* the state of the job at the service
  doneAt     \* when the job completed, if it has

vars == <<at, now, due, interval, seen, answer, job, doneAt>>

-----------------------------------------------------------------------------
Calls == {"upload", "question", "response", "delete"}
Ended == {"ended", "gave up", "left"}
States == {"none", "running", "completed", "failed"}

FirstInterval == 8    \* poll_interval = 0.5
MaxInterval == 32     \* max_poll_interval = 2.0
Intervals == FirstInterval..MaxInterval

Init ==
  /\ at = "upload" /\ now = 0 /\ due = MaxCall
  /\ interval = FirstInterval
  /\ seen = "running" /\ answer = 0
  /\ job = "none" /\ doneAt = 0

\* What the caller is told when the service refuses a request.
Rejected(status) == IF status \in {413, 415, 422} THEN 400
                    ELSE IF status = 429 THEN 429 ELSE 503

Refusals == {Rejected(s) : s \in {401, 413, 429, 500}}

\* Timeouts of httpx become 504, its other errors 503; an exception of another
\* kind, such as an answer that is no JSON, is passed on: 500 stands for it.
Broken == {500, 503, 504}

Answers == {0, 200, 503, 504} \cup Refusals \cup Broken

End(place, status) == at' = place /\ answer' = status

-----------------------------------------------------------------------------
(* The adapter.                                                            *)

Upload ==
  /\ at = "upload"
  /\ at' = "question" /\ job' = "running" /\ due' = now + MaxCall
  /\ UNCHANGED <<now, interval, seen, answer, doneAt>>

\* The service refuses, gives no job_id, or cannot be understood.  What it did
\* with an upload whose answer is lost is not known.
UploadFails ==
  /\ at = "upload"
  /\ \/ \E s \in Refusals : End("ended", s) /\ UNCHANGED job
     \/ \E s \in Broken : End("ended", s) /\ job' \in {"none", "running"}
  /\ UNCHANGED <<now, due, interval, seen, doneAt>>

\* The question reaches the service; its response is still on the way.
Question ==
  /\ at = "question"
  /\ at' = "response" /\ seen' = job
  /\ UNCHANGED <<now, due, interval, answer, job, doneAt>>

PollFails ==
  /\ at \in {"question", "response"}
  /\ \E s \in Refusals \cup Broken : End("ended", s)
  /\ UNCHANGED <<now, due, interval, seen, job, doneAt>>

\* The next question would come after the deadline.
Expired_Overdue == now > Timeout
Expired_TwoAhead == now + 2 * interval > Timeout
Expired == now + interval > Timeout

Response ==
  /\ at = "response"
  /\ \/ seen = "completed" /\ End("ended", 200) /\ UNCHANGED due
     \/ seen = "failed" /\ End("ended", 503) /\ UNCHANGED due
     \/ /\ seen = "running" /\ Expired
        /\ at' = "delete" /\ due' = now + MaxCall /\ UNCHANGED answer
     \/ /\ seen = "running" /\ ~Expired
        /\ at' = "sleep" /\ due' = now + interval /\ UNCHANGED answer
  /\ UNCHANGED <<now, interval, seen, job, doneAt>>

Longer(i) == IF (i * 3) \div 2 < MaxInterval THEN (i * 3) \div 2 ELSE MaxInterval

Wake ==
  /\ at = "sleep" /\ now >= due
  /\ at' = "question" /\ due' = now + MaxCall
  /\ interval' = Longer(interval)
  /\ UNCHANGED <<now, seen, answer, job, doneAt>>

\* The answer to the deletion is not looked at: the service may refuse it, and
\* has done with a job that has ended.  A call that fails decides the answer.
Delete ==
  /\ at = "delete"
  /\ End("gave up", 504) \/ End("gave up", 503)
  /\ \/ UNCHANGED job
     \/ job = "running" /\ job' = "failed"
  /\ UNCHANGED <<now, due, interval, seen, doneAt>>

\* The task is cancelled, because the client has left: nobody ends the job.
Leave ==
  /\ at \notin Ended
  /\ at' = "left"
  /\ UNCHANGED <<now, due, interval, seen, answer, job, doneAt>>

-----------------------------------------------------------------------------
(* The service, and time.                                                  *)

JobCompletes ==
  /\ job = "running"
  /\ job' = "completed" /\ doneAt' = now
  /\ UNCHANGED <<at, now, due, interval, seen, answer>>

\* "failed" or "cancelled".
JobFails ==
  /\ job = "running"
  /\ job' = "failed"
  /\ UNCHANGED <<at, now, due, interval, seen, answer, doneAt>>

Tick ==
  /\ at \notin Ended
  /\ now < (IF at = "sleep" THEN due + Late ELSE due)
  /\ now' = now + 1
  /\ UNCHANGED <<at, due, interval, seen, answer, job, doneAt>>

Over == at \in Ended /\ UNCHANGED vars

Next == \/ Upload \/ UploadFails \/ Question \/ PollFails \/ Response \/ Wake
        \/ Delete \/ Leave \/ JobCompletes \/ JobFails \/ Tick \/ Over

Spec == Init /\ [][Next]_vars

-----------------------------------------------------------------------------
(* Properties.                                                             *)

\* Every variable has its type; no sleep exceeds max_poll_interval.
TypeOK ==
  /\ at \in Calls \cup Ended \cup {"sleep"}
  /\ now \in Nat /\ due \in Nat /\ doneAt \in Nat
  /\ interval \in Intervals
  /\ seen \in States /\ job \in States
  /\ answer \in Answers

\* Questions after the first begin by the deadline, and what begins last is a
\* question and a deletion: however the calls are slow and the job is not
\* done, the transcription ends in that time.
LastQuestion == IF Timeout + Late > MaxCall THEN Timeout + Late ELSE MaxCall
EndsInTime == now <= LastQuestion + 2 * MaxCall

\* The adapter gives up late: a job that completed while there was time for
\* one more sleep and one more call is not answered with a timeout, however
\* the intervals fall.
PromptJobIsReturned ==
  at = "gave up" /\ job = "completed"
    => doneAt > Timeout - MaxInterval - MaxCall

=============================================================================
