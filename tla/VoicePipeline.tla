--------------------------- MODULE VoicePipeline ---------------------------
(***************************************************************************)
(* The spoken conversation of the gateway: stream_voice_chat of            *)
(* packages/gateway/mc_gateway/gateway.py.                                 *)
(*                                                                         *)
(* Four asyncio tasks share two unbounded queues.  The consumer (the       *)
(* generator the web server drives) opens the request, transcribes the     *)
(* audio, starts produce() and hands the events it takes from `events' to  *)
(* the client.  produce() holds a TaskGroup of read_llm(), which turns the *)
(* language model's stream into text events and cuts it into sentences,    *)
(* and speak(), which turns each sentence into one audio event.  None ends *)
(* the sentences, "done" ends the events.                                  *)
(*                                                                         *)
(* A step is the code a task runs between two points where it may be       *)
(* suspended.  put() on an unbounded queue never suspends, so one item of  *)
(* the language model is one step.  A reply is abstracted to the deltas it *)
(* is sent in, numbered from 1, and to the sentences cut from it, numbered *)
(* from 1; a sentence remembers the delta that completed it (`after').     *)
(*                                                                         *)
(* A definition X_Y that precedes X is X with a plausible bug: the runs    *)
(* are known to find it.  The specification uses none of them.             *)
(***************************************************************************)
EXTENDS Integers, Sequences

CONSTANTS
  MaxItems,        \* bound on the items of one language model stream
  MaxBurst,        \* bound on the sentences one delta completes
  Refusals,        \* statuses of a request refused before the transcript
  PlatformErrors   \* statuses of the PlatformErrors a runtime adapter raises

ASSUME BoundsAssumption == MaxItems \in Nat /\ MaxBurst \in Nat

\* HTTP error statuses; 0 is kept for exceptions that are not PlatformErrors.
ASSUME StatusAssumption == Refusals \cup PlatformErrors \subseteq 400..599

VARIABLES
  con,        \* where the consumer stands
  prod,       \* the task of produce(): "none" until it is created
  cancelled,  \* producer.cancel() was called
  aborting,   \* the TaskGroup has cancelled its children
  llm,        \* the task of read_llm()
  tts,        \* the task of speak()
  items,      \* items read from the language model
  texts,      \* deltas put on events
  cut,        \* sentences put on the queue of sentences
  buffered,   \* the sentence buffer holds a letter or a digit
  saying,     \* the sentence speak() is synthesising
  spoken,     \* the number of sentences it has taken from their queue
  events,     \* asyncio.Queue of events
  sentences,  \* asyncio.Queue of sentences, ended by None
  errors,     \* what the children of the TaskGroup raised, in order
  failure,    \* the error the consumer holds, NoError while it has none
  sent,       \* what the generator has yielded
  usage       \* statuses of the usage records committed

conVars == <<con, failure, sent, usage>>
replyVars == <<items, texts, cut, buffered>>
voiceVars == <<saying, spoken>>
vars == <<con, prod, cancelled, aborting, llm, tts, items, texts, cut,
          buffered, saying, spoken, events, sentences, errors, failure, sent, usage>>

-----------------------------------------------------------------------------
NoError == -1
OtherError == 0                    \* an exception that is no PlatformError
RuntimeErrors == PlatformErrors \cup {OtherError}
Statuses == {400, 503} \cup Refusals \cup PlatformErrors
Recorded == {200} \cup Statuses

Sentence == [no : Nat, after : Nat]
None == [no |-> 0, after |-> 0]    \* the sentinel; also "nothing being said"

Event(type, no, after) == [type |-> type, no |-> no, after |-> after]
Transcript == Event("transcript", 0, 0)
Reasoning == Event("reasoning", 0, 0)
Text(n) == Event("text", n, 0)
Audio(s) == Event("audio", s.no, s.after)
Error(status) == Event("error", status, 0)
Done == Event("done", 0, 0)
DoneMark == Event("[DONE]", 0, 0)

Open == {"opening", "transcribing", "greeted", "streaming", "finishing",
         "failing"}
Ended == {"returned", "raised", "crashed", "closed"}
Stopped == {"done", "failed", "cancelled"}

Init ==
  /\ con = "opening" /\ prod = "none" /\ cancelled = FALSE /\ aborting = FALSE
  /\ llm = "none" /\ tts = "none"
  /\ items = 0 /\ texts = 0 /\ cut = 0 /\ buffered = FALSE /\ saying = None
  /\ spoken = 0 /\ events = <<>> /\ sentences = <<>> /\ errors = <<>>
  /\ failure = NoError /\ sent = <<>> /\ usage = <<>>

-----------------------------------------------------------------------------
(* The consumer, up to the transcript.                                     *)

\* A PlatformError inside the try leads to the except branch.
Fail(status) == con' = "failing" /\ failure' = status

\* Empty audio, the three models and the limits: refused, or an exception of
\* the database or of Redis, or accepted.
OpenRequest ==
  /\ con = "opening"
  /\ \/ con' = "transcribing" /\ UNCHANGED failure
     \/ \E status \in Refusals : Fail(status)
     \/ con' = "crashed" /\ UNCHANGED failure
  /\ UNCHANGED <<prod, cancelled, aborting, llm, tts, replyVars, voiceVars,
                 events, sentences, errors, sent, usage>>

\* The speech-to-text runtime answers, fails, is of an unknown type (503), or
\* hears nothing (400).
Transcribe ==
  /\ con = "transcribing"
  /\ \/ con' = "greeted" /\ sent' = Append(sent, Transcript)
        /\ UNCHANGED failure
     \/ \E status \in PlatformErrors \cup {400, 503} :
          Fail(status) /\ UNCHANGED sent
     \/ con' = "crashed" /\ UNCHANGED <<failure, sent>>
  /\ UNCHANGED <<prod, cancelled, aborting, llm, tts, replyVars, voiceVars,
                 events, sentences, errors, usage>>

\* The generator is resumed after the transcript and creates the producer,
\* unless a runtime is of a type build_runtime does not know (503) or its
\* secret cannot be read.
CreateProducer ==
  /\ con = "greeted"
  /\ \/ con' = "streaming" /\ prod' = "created" /\ UNCHANGED failure
     \/ Fail(503) /\ UNCHANGED prod
     \/ con' = "crashed" /\ UNCHANGED <<prod, failure>>
  /\ UNCHANGED <<cancelled, aborting, llm, tts, replyVars, voiceVars, events,
                 sentences, errors, sent, usage>>

-----------------------------------------------------------------------------
(* produce() and its TaskGroup.                                            *)

EnterGroup ==
  /\ prod = "created" /\ ~cancelled
  /\ prod' = "group" /\ llm' = "reading" /\ tts' = "waiting"
  /\ UNCHANGED <<con, cancelled, aborting, replyVars, voiceVars, events,
                 sentences, errors, failure, sent, usage>>

\* A task cancelled before its first step never runs.
NeverStarted ==
  /\ prod = "created" /\ cancelled
  /\ prod' = "cancelled"
  /\ UNCHANGED <<con, cancelled, aborting, llm, tts, replyVars, voiceVars,
                 events, sentences, errors, failure, sent, usage>>

\* The group cancels its children when one has failed or produce() is itself
\* cancelled.  It hears of either in a later step of the event loop, so a
\* child may run on until then, but never after.
AbortGroup ==
  /\ prod = "group" /\ ~aborting
  /\ errors # <<>> \/ cancelled
  /\ aborting' = TRUE
  /\ UNCHANGED <<con, prod, cancelled, llm, tts, replyVars, voiceVars, events,
                 sentences, errors, failure, sent, usage>>

\* _unwrap: the first PlatformError in the group, or its first exception.  The
\* group has two children, so at most two exceptions.
Unwrap_First(errs) == errs[1]
Unwrap(errs) ==
  IF errs[1] = OtherError /\ Len(errs) = 2 THEN errs[2] ELSE errs[1]

\* A TaskGroup is left when both its children have ended, never before.
BothStopped_OneIsEnough == llm \in Stopped
BothStopped == llm \in Stopped /\ tts \in Stopped

\* produce() reports what the group raised and ends; a plain cancellation is
\* no Exception and reports nothing at all.
LeaveGroup ==
  /\ prod = "group" /\ BothStopped
  /\ \/ /\ errors # <<>>
        /\ prod' = "done"
        /\ events' = events \o <<Error(Unwrap(errors)), Done>>
     \/ /\ errors = <<>> /\ cancelled
        /\ prod' = "cancelled" /\ UNCHANGED events
     \/ /\ errors = <<>> /\ ~cancelled
        /\ prod' = "done" /\ events' = Append(events, Done)
  /\ UNCHANGED <<con, cancelled, aborting, llm, tts, replyVars, voiceVars,
                 sentences, errors, failure, sent, usage>>

-----------------------------------------------------------------------------
(* read_llm().                                                             *)

\* What one text delta does to the sentence buffer: `ready' sentences are cut
\* and `rest' says whether letters remain; letters never vanish uncut.
Deltas == {d \in [ready : 0..MaxBurst, rest : BOOLEAN] :
             d.ready > 0 \/ d.rest \/ ~buffered}

\* The n sentences from number c + 1 on, completed by delta t.
Cut(c, n, t) == [i \in 1..n |-> [no |-> c + i, after |-> t]]

\* emit() of one text part: the text first, then the sentences it completed.
EmitText_OrSentences(d) ==
  /\ events' = IF d.ready = 0 THEN Append(events, Text(texts + 1)) ELSE events
  /\ texts' = texts + 1
  /\ cut' = cut + d.ready
  /\ buffered' = d.rest
  /\ sentences' = sentences \o Cut(cut, d.ready, texts + 1)
EmitText(d) ==
  /\ events' = Append(events, Text(texts + 1))
  /\ texts' = texts + 1
  /\ cut' = cut + d.ready
  /\ buffered' = d.rest
  /\ sentences' = sentences \o Cut(cut, d.ready, texts + 1)

\* One item of the stream: thinking, text, or neither (a role, a tool call).
\* An item of several parts is taken for as many items, which lets the other
\* tasks run between its parts although the code does not.
ReadItem ==
  /\ llm = "reading" /\ ~aborting /\ items < MaxItems
  /\ items' = items + 1
  /\ \/ /\ events' = Append(events, Reasoning)
        /\ UNCHANGED <<texts, cut, buffered, sentences>>
     \/ \E d \in Deltas : EmitText(d)
     \/ UNCHANGED <<events, texts, cut, buffered, sentences>>
  /\ UNCHANGED <<con, prod, cancelled, aborting, llm, tts, voiceVars, errors,
                 failure, sent, usage>>

\* What is left in the buffer at the end of the reply becomes a last sentence.
TailOf_Forgotten(c, t, b) == <<>>
TailOf(c, t, b) == IF b THEN Cut(c, 1, t) ELSE <<>>

\* What ends the queue of sentences.
EndMark_Forgotten == <<>>
EndMark == <<None>>

\* finish() releases text that was held back as one last delta, or nothing;
\* the tail of the buffer is cut, and None ends the queue.
ReleaseHeld(d) ==
  /\ events' = Append(events, Text(texts + 1))
  /\ texts' = texts + 1
  /\ cut' = cut + d.ready + (IF d.rest THEN 1 ELSE 0)
  /\ sentences' = sentences \o Cut(cut, d.ready, texts + 1)
                    \o TailOf(cut + d.ready, texts + 1, d.rest) \o EndMark

ReleaseNothing ==
  /\ cut' = cut + (IF buffered THEN 1 ELSE 0)
  /\ sentences' = sentences \o TailOf(cut, texts, buffered) \o EndMark
  /\ UNCHANGED <<events, texts>>

\* The language model's stream ends.
FinishReading ==
  /\ llm = "reading" /\ ~aborting
  /\ llm' = "done"
  /\ (\E d \in Deltas : ReleaseHeld(d)) \/ ReleaseNothing
  /\ buffered' = FALSE
  /\ UNCHANGED <<con, prod, cancelled, aborting, tts, items, voiceVars, errors,
                 failure, sent, usage>>

\* The chat runtime fails in the middle of its stream.
ReadFails ==
  /\ llm = "reading" /\ ~aborting
  /\ \E e \in RuntimeErrors : errors' = Append(errors, e)
  /\ llm' = "failed"
  /\ UNCHANGED <<con, prod, cancelled, aborting, tts, replyVars, voiceVars,
                 events, sentences, failure, sent, usage>>

ReadCancelled ==
  /\ llm = "reading" /\ aborting
  /\ llm' = "cancelled"
  /\ UNCHANGED <<con, prod, cancelled, aborting, tts, replyVars, voiceVars,
                 events, sentences, errors, failure, sent, usage>>

-----------------------------------------------------------------------------
(* speak().                                                                *)

TakeSentence ==
  /\ tts = "waiting" /\ ~aborting /\ sentences # <<>>
  /\ sentences' = Tail(sentences)
  /\ saying' = Head(sentences)
  /\ IF Head(sentences) = None
     THEN tts' = "done" /\ UNCHANGED spoken
     ELSE tts' = "speaking" /\ spoken' = spoken + 1
  /\ UNCHANGED <<con, prod, cancelled, aborting, llm, replyVars, events,
                 errors, failure, sent, usage>>

\* The speech runtime ends its stream; audio of no bytes makes no event.
EndSentence ==
  /\ tts = "speaking" /\ ~aborting
  /\ tts' = "waiting" /\ saying' = None
  /\ \/ events' = Append(events, Audio(saying))
     \/ UNCHANGED events
  /\ UNCHANGED <<con, prod, cancelled, aborting, llm, replyVars, spoken, sentences,
                 errors, failure, sent, usage>>

SpeakFails ==
  /\ tts = "speaking" /\ ~aborting
  /\ \E e \in RuntimeErrors : errors' = Append(errors, e)
  /\ tts' = "failed" /\ saying' = None
  /\ UNCHANGED <<con, prod, cancelled, aborting, llm, replyVars, spoken, events,
                 sentences, failure, sent, usage>>

SpeakCancelled ==
  /\ tts \in {"waiting", "speaking"} /\ aborting
  /\ tts' = "cancelled" /\ saying' = None
  /\ UNCHANGED <<con, prod, cancelled, aborting, llm, replyVars, spoken, events,
                 sentences, errors, failure, sent, usage>>

-----------------------------------------------------------------------------
(* The consumer's loop and its end.                                        *)

\* The status of a failure: an exception that is no PlatformError becomes 503.
StatusOf(error) == IF error = OtherError THEN 503 ELSE error

Consume ==
  /\ con = "streaming" /\ events # <<>>
  /\ events' = Tail(events)
  /\ LET event == Head(events) IN
       \/ /\ event.type = "error"
          /\ failure' = event.no /\ UNCHANGED <<con, sent>>
       \/ /\ event.type = "done" /\ failure = NoError
          /\ sent' = Append(sent, DoneMark) /\ con' = "finishing"
          /\ UNCHANGED failure
       \/ /\ event.type = "done" /\ failure # NoError
          /\ con' = "failing" /\ failure' = StatusOf(failure)
          /\ UNCHANGED sent
       \/ /\ event.type \notin {"error", "done"}
          /\ sent' = IF failure = NoError THEN Append(sent, event) ELSE sent
          /\ UNCHANGED <<con, failure>>
  /\ UNCHANGED <<prod, cancelled, aborting, llm, tts, replyVars, voiceVars,
                 sentences, errors, usage>>

\* _record commits one usage record; the database may refuse it.
RecordSuccess ==
  /\ con = "finishing"
  /\ \/ con' = "returned" /\ usage' = Append(usage, 200)
     \/ con' = "crashed" /\ UNCHANGED usage
  /\ UNCHANGED <<prod, cancelled, aborting, llm, tts, replyVars, voiceVars,
                 events, sentences, errors, failure, sent>>

RecordFailure ==
  /\ con = "failing"
  /\ \/ con' = "raised" /\ usage' = Append(usage, failure)
     \/ con' = "crashed" /\ UNCHANGED usage
  /\ UNCHANGED <<prod, cancelled, aborting, llm, tts, replyVars, voiceVars,
                 events, sentences, errors, failure, sent>>

\* The client leaves: GeneratorExit at a yield or CancelledError at an await.
\* Neither is a PlatformError, so nothing is recorded; the finally clause
\* cancels a producer that is not done and waits for it.
Disconnect ==
  /\ con \in Open
  /\ IF prod \in {"created", "group"}
     THEN con' = "closing" /\ cancelled' = TRUE
     ELSE con' = "closed" /\ UNCHANGED cancelled
  /\ UNCHANGED <<prod, aborting, llm, tts, replyVars, voiceVars, events,
                 sentences, errors, failure, sent, usage>>

\* The wait ends when the producer does, or earlier when the server cancels
\* the generator again and suppress() swallows that second cancellation.
Close ==
  /\ con = "closing"
  /\ con' = "closed"
  /\ UNCHANGED <<prod, cancelled, aborting, llm, tts, replyVars, voiceVars,
                 events, sentences, errors, failure, sent, usage>>

-----------------------------------------------------------------------------
Consumer == OpenRequest \/ Transcribe \/ CreateProducer \/ Consume
              \/ RecordSuccess \/ RecordFailure \/ Close
Produce == EnterGroup \/ NeverStarted \/ AbortGroup \/ LeaveGroup
ReadLlm == ReadItem \/ FinishReading \/ ReadFails \/ ReadCancelled
Speak == TakeSentence \/ EndSentence \/ SpeakFails \/ SpeakCancelled

\* The request is over: no task of it is left.
Finished == con \in Ended /\ prod \in {"none", "done", "cancelled"}
Over == Finished /\ UNCHANGED vars

Next == Consumer \/ Disconnect \/ Produce \/ ReadLlm \/ Speak \/ Over

\* The event loop runs every ready task, and the timeouts of httpx end every
\* wait for a runtime.  A client either reads on or is found gone: Disconnect
\* has no fairness, but it ends the consumer's obligations.  MaxItems stands
\* for a language model that stops by itself.
Fairness == /\ WF_vars(Consumer) /\ WF_vars(Produce)
            /\ WF_vars(ReadLlm) /\ WF_vars(Speak)

Spec == Init /\ [][Next]_vars
FairSpec == Spec /\ Fairness

-----------------------------------------------------------------------------
(* Properties.                                                             *)

EventTypes == {"transcript", "reasoning", "text", "audio", "error", "done",
               "[DONE]"}
Events == {e \in [type : EventTypes, no : Nat, after : Nat] :
             e.type = "error" => e.no \in RuntimeErrors}

\* Every variable has its type.
TypeOK ==
  /\ con \in Open \cup Ended \cup {"closing"}
  /\ prod \in {"none", "created", "group", "done", "cancelled"}
  /\ cancelled \in BOOLEAN /\ aborting \in BOOLEAN /\ buffered \in BOOLEAN
  /\ llm \in Stopped \cup {"none", "reading"}
  /\ tts \in Stopped \cup {"none", "waiting", "speaking"}
  /\ items \in Nat /\ texts \in Nat /\ cut \in Nat
  /\ saying \in Sentence /\ spoken \in Nat
  /\ events \in Seq(Events) /\ sent \in Seq(Events)
  /\ sentences \in Seq(Sentence)
  /\ errors \in Seq(RuntimeErrors)
  /\ failure \in {NoError, OtherError} \cup Statuses
  /\ con = "failing" => failure \in Statuses
  /\ usage \in Seq(Recorded)

\* The client never hears a sentence it has not been shown: when an audio
\* event is sent, the delta that completed its sentence was sent before it,
\* although two tasks put them on the queue independently.
AudioFollowsText ==
  \A i \in DOMAIN sent : sent[i].type = "audio" =>
    \E j \in 1..(i - 1) : sent[j] = Text(sent[i].after)

TextsIn(s) == {i \in DOMAIN s : s[i].type = "text"}

\* A stream that ends in [DONE] has lost nothing: each delta was sent, once
\* and in order, no sentence is left unspoken, no letter is left in the
\* buffer, no event is left in the queue, and no runtime failed unnoticed.
DoneIsComplete ==
  DoneMark \in {sent[i] : i \in DOMAIN sent} =>
    /\ {sent[i].no : i \in TextsIn(sent)} = 1..texts
    /\ \A i, j \in TextsIn(sent) : i < j => sent[i].no < sent[j].no
    /\ llm = "done" /\ tts = "done" /\ spoken = cut /\ ~buffered
    /\ sentences = <<>> /\ events = <<>> /\ errors = <<>>

\* One request leaves at most one usage record, and the record tells what
\* became of it: 200 only for a complete stream; a failure is charged to the
\* PlatformError of a runtime whenever one of the tasks raised one.
UsageTellsOutcome ==
  /\ Len(usage) = IF con \in {"returned", "raised"} THEN 1 ELSE 0
  /\ con = "returned" => usage = <<200>> /\ errors = <<>>
  /\ con = "raised" =>
       /\ usage[1] >= 400
       /\ (\E i \in DOMAIN errors : errors[i] # OtherError)
            => \E i \in DOMAIN errors : usage[1] = errors[i]

\* When the generator is left without the client having gone away, no task
\* of the request is left behind holding a runtime connection.
NoOrphans ==
  con \in {"returned", "raised", "crashed"} =>
    /\ prod \in {"none", "done"}
    /\ llm \in Stopped \cup {"none"} /\ tts \in Stopped \cup {"none"}

\* An error closes the queue: once the consumer holds one, nothing but "done"
\* can follow, so no event is dropped by the loop that waits for the end.
NothingAfterError ==
  con = "streaming" /\ failure # NoError =>
    /\ \A i \in DOMAIN events : events[i].type = "done"
    /\ prod = "done"

\* Every request ends and every task of it with it, whatever the client and
\* the runtimes do: the sentinel reaches speak(), "done" reaches the consumer
\* and a cancellation reaches both children.
EverythingStops ==
  <>[](con \in Ended /\ llm \in Stopped \cup {"none"}
         /\ tts \in Stopped \cup {"none"} /\ Finished)

-----------------------------------------------------------------------------
(* The pipeline implements the stream its client is promised.              *)

\* The events of the reply, without those that frame and steer the stream.
ReplyEvents == {"reasoning", "text", "audio"}

\* ReplyIn(s)[i] is the reply in the first i events of s.
ReplyIn(s) ==
  LET reply[i \in 0..Len(s)] ==
        IF i = 0 THEN <<>>
        ELSE IF s[i].type \in ReplyEvents THEN Append(reply[i - 1], s[i])
        ELSE reply[i - 1]
  IN  reply

Reply(s) == ReplyIn(s)[Len(s)]

Phase ==
  IF DoneMark \in {sent[i] : i \in DOMAIN sent} THEN "complete"
  ELSE IF failure # NoError \/ con = "crashed" THEN "broken"
  ELSE IF con \in {"closing", "closed"} THEN "left"
  ELSE "live"

Stream == INSTANCE VoiceStream WITH
            made <- Reply(sent) \o Reply(events),
            heard <- Len(Reply(sent)),
            phase <- Phase

\* Refinement: every behaviour of the four tasks is one of the promised
\* stream, and it ends.
ImplementsStream == Stream!LiveSpec

=============================================================================
