------------------------ MODULE VoicePipelineProofs ------------------------
(***************************************************************************)
(* Proofs about VoicePipeline, for every bound and every set of statuses:  *)
(* its invariants, and that it implements VoiceStream.                     *)
(***************************************************************************)
EXTENDS VoicePipeline, SequenceTheorems, FiniteSetTheorems,
        WellFoundedInduction, TLAPS

\* Appending keeps a sequence over its set.
LEMMA AppendType ==
  ASSUME NEW S, NEW s \in Seq(S), NEW e \in S
  PROVE  Append(s, e) \in Seq(S)
OBVIOUS

\* Concatenation keeps two sequences over their set.
LEMMA ConcatType ==
  ASSUME NEW S, NEW s \in Seq(S), NEW t \in Seq(S)
  PROVE  s \o t \in Seq(S)
OBVIOUS

\* The sentences one delta completes are a sequence of sentences.
LEMMA CutType ==
  ASSUME NEW c \in Nat, NEW n \in Nat, NEW t \in Nat
  PROVE  /\ Cut(c, n, t) \in Seq(Sentence)
         /\ Len(Cut(c, n, t)) = n
         /\ \A i \in 1..n : Cut(c, n, t)[i] = [no |-> c + i, after |-> t]
  BY DEF Cut, Sentence

\* What one sentence at most is left at the end of a reply.
LEMMA TailOfType ==
  ASSUME NEW c \in Nat, NEW t \in Nat, NEW b \in BOOLEAN
  PROVE  TailOf(c, t, b) \in Seq(Sentence)
  BY CutType DEF TailOf

\* The errors of the tasks are statuses or 0.
LEMMA ErrorsAreNumbers ==
  /\ \A e \in RuntimeErrors : e \in Nat
  /\ \A e \in RuntimeErrors : e \in {OtherError} \cup Statuses
  BY StatusAssumption DEF RuntimeErrors, OtherError, Statuses

\* The error a group reports is one of those its children raised.
LEMMA UnwrapType ==
  ASSUME NEW errs \in Seq(RuntimeErrors), errs # <<>>
  PROVE  Unwrap(errs) \in RuntimeErrors
<1>1. Len(errs) \in Nat /\ Len(errs) >= 1
  OBVIOUS
<1>2. errs[1] \in RuntimeErrors /\ (Len(errs) = 2 => errs[2] \in RuntimeErrors)
  BY <1>1, ElementOfSeq
<1> QED BY <1>2 DEF Unwrap

\* The events the tasks make are events, and None is like a sentence.
LEMMA EventTypesOK ==
  /\ Transcript \in Events /\ Reasoning \in Events
  /\ Done \in Events /\ DoneMark \in Events
  /\ \A n \in Nat : Text(n) \in Events
  /\ \A e \in RuntimeErrors : Error(e) \in Events
  /\ \A s \in Sentence : Audio(s) \in Events
  /\ None \in Sentence
  BY ErrorsAreNumbers
  DEF Transcript, Reasoning, Done, DoneMark, Text, Error, Audio, Event,
      Events, EventTypes, Sentence, None

-----------------------------------------------------------------------------
\* Every variable has its type initially.
LEMMA InitType == Init => TypeOK
<1> SUFFICES ASSUME Init PROVE TypeOK
  OBVIOUS
<1>1. con \in Open \cup Ended \cup {"closing"}
  BY DEF Init, Open
<1>2. saying \in Sentence
  BY EventTypesOK DEF Init
<1>3. /\ events \in Seq(Events) /\ sent \in Seq(Events)
      /\ sentences \in Seq(Sentence) /\ errors \in Seq(RuntimeErrors)
      /\ usage \in Seq(Recorded)
  BY DEF Init
<1> QED BY <1>1, <1>2, <1>3 DEF Init, TypeOK, Stopped

\* Every step leaves every variable its type.
LEMMA StepType == TypeOK /\ [Next]_vars => TypeOK'
<1> SUFFICES ASSUME TypeOK, [Next]_vars PROVE TypeOK'
  OBVIOUS
<1> USE DEF replyVars, voiceVars
<1>1. CASE OpenRequest
  BY <1>1 DEF OpenRequest, TypeOK, Fail, Open, Ended, Statuses
<1>2. CASE Transcribe
  <2>1. sent' \in Seq(Events)
    BY <1>2, EventTypesOK, AppendType, ZenonT(60) DEF Transcribe, TypeOK
  <2> QED BY <1>2, <2>1 DEF Transcribe, TypeOK, Fail, Open, Ended, Statuses
<1>3. CASE CreateProducer
  BY <1>3 DEF CreateProducer, TypeOK, Fail, Open, Ended, Statuses
<1>4. CASE Consume
  <2>1. Head(events) \in Events /\ Tail(events) \in Seq(Events)
    BY <1>4 DEF Consume, TypeOK
  <2>2. /\ Head(events).type = "error"
             => Head(events).no \in {OtherError} \cup Statuses
        /\ \A e \in {OtherError} \cup Statuses : StatusOf(e) \in Statuses
    BY <2>1, ErrorsAreNumbers DEF Events, StatusOf, Statuses
  <2>3. sent' \in Seq(Events) /\ events' \in Seq(Events)
    <3>1. \/ sent' = sent \/ sent' = Append(sent, DoneMark)
          \/ sent' = Append(sent, Head(events))
      BY <1>4 DEF Consume
    <3>2. sent \in Seq(Events) /\ DoneMark \in Events
      BY EventTypesOK DEF TypeOK
    <3>3. sent' \in Seq(Events)
      BY <2>1, <3>1, <3>2, AppendType
    <3> QED BY <1>4, <2>1, <3>3 DEF Consume
  <2>4. /\ con' \in Open \cup Ended \cup {"closing"}
        /\ failure' \in {NoError, OtherError} \cup Statuses
        /\ con' = "failing" => failure' \in Statuses
    BY <1>4, <2>2 DEF Consume, TypeOK, Open
  <2> QED BY <1>4, <2>3, <2>4 DEF Consume, TypeOK
<1>5. CASE RecordSuccess
  <2>1. usage \in Seq(Recorded) /\ 200 \in Recorded
    BY DEF TypeOK, Recorded
  <2>2. usage' = Append(usage, 200) \/ usage' = usage
    BY <1>5 DEF RecordSuccess
  <2>3. usage' \in Seq(Recorded)
    BY <2>1, <2>2, AppendType
  <2> QED BY <1>5, <2>3 DEF RecordSuccess, TypeOK, Open, Ended
<1>6. CASE RecordFailure
  <2>1. usage \in Seq(Recorded) /\ failure \in Recorded
    BY <1>6 DEF RecordFailure, TypeOK, Recorded
  <2>2. usage' = Append(usage, failure) \/ usage' = usage
    BY <1>6 DEF RecordFailure
  <2>3. usage' \in Seq(Recorded)
    BY <2>1, <2>2, AppendType
  <2> QED BY <1>6, <2>3 DEF RecordFailure, TypeOK, Open, Ended
<1>7. CASE Close
  BY <1>7 DEF Close, TypeOK, Open, Ended
<1>8. CASE Disconnect
  BY <1>8, ZenonT(60) DEF Disconnect, TypeOK, Open, Ended
<1>9. CASE EnterGroup
  BY <1>9 DEF EnterGroup, TypeOK
<1>10. CASE NeverStarted
  BY <1>10 DEF NeverStarted, TypeOK
<1>11. CASE AbortGroup
  BY <1>11 DEF AbortGroup, TypeOK
<1>12. CASE LeaveGroup
  <2>1. /\ errors # <<>> => <<Error(Unwrap(errors)), Done>> \in Seq(Events)
        /\ <<Done>> \in Seq(Events)
    BY UnwrapType, EventTypesOK DEF TypeOK
  <2>2. \/ errors # <<>> /\ events' = events \o <<Error(Unwrap(errors)), Done>>
        \/ events' = events
        \/ events' = Append(events, Done)
    BY <1>12 DEF LeaveGroup
  <2>3. CASE errors # <<>> /\ events' = events \o <<Error(Unwrap(errors)), Done>>
    <3> DEFINE tail == <<Error(Unwrap(errors)), Done>>
    <3>1. events \in Seq(Events) /\ tail \in Seq(Events)
      BY <2>1, <2>3 DEF TypeOK
    <3> HIDE DEF tail
    <3>2. events \o tail \in Seq(Events)
      BY <3>1, ConcatType
    <3> QED BY <2>3, <3>2, <1>12 DEF tail, LeaveGroup, TypeOK
  <2>4. CASE events' = events \/ events' = Append(events, Done)
    <3>1. events' \in Seq(Events)
      BY <2>4, EventTypesOK, AppendType, ZenonT(60) DEF TypeOK
    <3> QED BY <1>12, <3>1 DEF LeaveGroup, TypeOK
  <2> QED BY <2>2, <2>3, <2>4
<1>13. CASE ReadItem
  <2>1. CASE /\ events' = Append(events, Reasoning) \/ events' = events
             /\ UNCHANGED <<texts, cut, buffered, sentences>>
    <3>1. events' \in Seq(Events)
      BY <2>1, EventTypesOK, AppendType, ZenonT(60) DEF TypeOK
    <3> QED BY <1>13, <2>1, <3>1 DEF ReadItem, TypeOK
  <2>2. ASSUME NEW d \in Deltas, EmitText(d) PROVE TypeOK'
    <3>1. d.ready \in Nat /\ d.rest \in BOOLEAN /\ texts + 1 \in Nat
      BY BoundsAssumption DEF Deltas, TypeOK
    <3>2. texts' \in Nat /\ cut' \in Nat /\ buffered' \in BOOLEAN
      BY <2>2, <3>1 DEF EmitText, TypeOK
    <3>3. events' \in Seq(Events)
      BY <2>2, <3>1, EventTypesOK, AppendType DEF EmitText, TypeOK
    <3>4. sentences' \in Seq(Sentence)
      BY <2>2, <3>1, CutType, ConcatType DEF EmitText, TypeOK
    <3> QED BY <1>13, <3>2, <3>3, <3>4 DEF ReadItem, TypeOK
  <2> QED BY <1>13, <2>1, <2>2 DEF ReadItem
<1>14. CASE FinishReading
  <2>1. <<None>> \in Seq(Sentence)
    BY EventTypesOK
  <2>2. ASSUME NEW d \in Deltas, ReleaseHeld(d) PROVE TypeOK'
    <3>1. /\ d.ready \in Nat /\ d.rest \in BOOLEAN
          /\ texts + 1 \in Nat /\ cut + d.ready \in Nat
      BY BoundsAssumption DEF Deltas, TypeOK
    <3>2. /\ Cut(cut, d.ready, texts + 1) \in Seq(Sentence)
          /\ TailOf(cut + d.ready, texts + 1, d.rest) \in Seq(Sentence)
      BY <3>1, CutType, TailOfType DEF TypeOK
    <3>3. events' \in Seq(Events)
      BY <2>2, <3>1, EventTypesOK, AppendType DEF ReleaseHeld, TypeOK
    <3>4. sentences' \in Seq(Sentence)
      BY <2>1, <2>2, <3>2, ConcatType DEF ReleaseHeld, EndMark, TypeOK
    <3>5. cut' \in Nat /\ texts' \in Nat
      <4>1. /\ texts' = texts + 1
            /\ cut' = (cut + d.ready) + (IF d.rest THEN 1 ELSE 0)
        BY <2>2 DEF ReleaseHeld
      <4> HIDE DEF TypeOK
      <4>2. (IF d.rest THEN 1 ELSE 0) \in Nat
        OBVIOUS
      <4> QED BY <3>1, <4>1, <4>2
    <3> QED BY <1>14, <3>3, <3>4, <3>5 DEF FinishReading, TypeOK, Stopped
  <2>3. CASE ReleaseNothing
    <3>1. sentences' \in Seq(Sentence)
      BY <2>1, <2>3, TailOfType, ConcatType DEF ReleaseNothing, EndMark, TypeOK
    <3>2. cut' \in Nat /\ texts' \in Nat /\ events' \in Seq(Events)
      BY <2>3 DEF ReleaseNothing, TypeOK
    <3> QED BY <1>14, <3>1, <3>2 DEF FinishReading, TypeOK, Stopped
  <2> QED BY <1>14, <2>2, <2>3 DEF FinishReading
<1>15. CASE ReadFails
  <2>1. errors' \in Seq(RuntimeErrors)
    BY <1>15, AppendType DEF ReadFails, TypeOK
  <2> QED BY <1>15, <2>1 DEF ReadFails, TypeOK, Stopped
<1>16. CASE ReadCancelled
  BY <1>16 DEF ReadCancelled, TypeOK, Stopped
<1>17. CASE TakeSentence
  <2>1. Head(sentences) \in Sentence /\ Tail(sentences) \in Seq(Sentence)
    BY <1>17 DEF TakeSentence, TypeOK
  <2> QED BY <1>17, <2>1 DEF TakeSentence, TypeOK, Stopped
<1>18. CASE EndSentence
  <2>1. events' \in Seq(Events)
    BY <1>18, EventTypesOK, AppendType, ZenonT(60) DEF EndSentence, TypeOK
  <2> QED BY <1>18, <2>1, EventTypesOK DEF EndSentence, TypeOK
<1>19. CASE SpeakFails
  <2>1. errors' \in Seq(RuntimeErrors)
    BY <1>19, AppendType DEF SpeakFails, TypeOK
  <2> QED BY <1>19, <2>1, EventTypesOK DEF SpeakFails, TypeOK, Stopped
<1>20. CASE SpeakCancelled
  BY <1>20, EventTypesOK DEF SpeakCancelled, TypeOK, Stopped
<1>21. CASE UNCHANGED vars
  BY <1>21 DEF vars, TypeOK
<1> QED
  BY <1>1, <1>2, <1>3, <1>4, <1>5, <1>6, <1>7, <1>8, <1>9, <1>10, <1>11,
     <1>12, <1>13, <1>14, <1>15, <1>16, <1>17, <1>18, <1>19, <1>20, <1>21
  DEF Next, Consumer, Produce, ReadLlm, Speak, Over

\* Every variable has its type in every reachable state.
THEOREM TypeCorrect == Spec => []TypeOK
BY InitType, StepType, PTL DEF Spec

-----------------------------------------------------------------------------
(* The control states of the four tasks, and what the events say of them.  *)

Ending == {"done", "error"}

\* The children exist exactly while and after the group does.
TaskStates ==
  /\ prod \in {"none", "created"} =>
       /\ llm = "none" /\ tts = "none" /\ texts = 0 /\ ~buffered
       /\ events = <<>> /\ sentences = <<>> /\ errors = <<>>
  /\ prod = "group" => llm # "none" /\ tts # "none"
  /\ prod = "done" => llm \in Stopped /\ tts \in Stopped
  /\ prod = "cancelled" =>
       llm \in Stopped \cup {"none"} /\ tts \in Stopped \cup {"none"}

\* The consumer leaves its loop only when the producer has ended.
ConsumerStates ==
  /\ con \in {"opening", "transcribing", "greeted"} =>
       prod = "none" /\ failure = NoError
  /\ con = "streaming" => prod # "none"
  /\ con \in {"finishing", "failing", "returned", "raised", "crashed"} =>
       prod \in {"none", "done"}

\* "error" and "done" are the last words of the producer.
LastWords ==
  /\ \A i \in DOMAIN events : events[i].type \in Ending => prod = "done"
  /\ \A i \in DOMAIN events : \A j \in DOMAIN events :
       i < j /\ events[i].type \in Ending => events[j].type = "done"

Control ==
  TypeOK /\ TaskStates /\ ConsumerStates /\ LastWords /\ NothingAfterError

\* A word that is no last word keeps the queue in order, before the end.
LEMMA PlainEvent ==
  ASSUME TypeOK, LastWords, prod # "done", UNCHANGED prod,
         NEW e \in Events, e.type \notin Ending, events' = Append(events, e)
  PROVE  LastWords'
  BY DEF TypeOK, LastWords

\* The control states hold initially.
LEMMA ControlInit == Init => Control
<1> SUFFICES ASSUME Init PROVE Control
  OBVIOUS
<1>1. TaskStates
  BY DEF Init, TaskStates
<1>2. ConsumerStates /\ LastWords /\ NothingAfterError
  BY DEF Init, ConsumerStates, LastWords, NothingAfterError
<1> QED BY <1>1, <1>2, InitType DEF Control

\* Every step keeps the tasks, the consumer and the last words in step.
LEMMA ControlStep == Control /\ [Next]_vars => Control'
<1> SUFFICES ASSUME Control, [Next]_vars PROVE Control'
  OBVIOUS
<1>0. TypeOK /\ TypeOK' /\ TaskStates /\ ConsumerStates /\ LastWords
        /\ NothingAfterError
  BY StepType DEF Control
<1> SUFFICES (TaskStates /\ ConsumerStates /\ LastWords /\ NothingAfterError)'
  BY <1>0 DEF Control
<1> USE <1>0 DEF replyVars, voiceVars, Stopped
<1>1. CASE OpenRequest
  BY <1>1 DEF OpenRequest, Fail, TaskStates, ConsumerStates, LastWords,
              NothingAfterError
<1>2. CASE Transcribe
  BY <1>2 DEF Transcribe, Fail, TaskStates, ConsumerStates, LastWords,
              NothingAfterError
<1>3. CASE CreateProducer
  BY <1>3 DEF CreateProducer, Fail, TaskStates, ConsumerStates, LastWords,
              NothingAfterError
<1>4. CASE Consume
  <2>1. /\ events \in Seq(Events) /\ events # <<>> /\ events' = Tail(events)
        /\ con = "streaming"
    BY <1>4 DEF Consume, TypeOK
  <2>2. /\ Len(events) \in Nat /\ Len(events) >= 1
        /\ Head(events) = events[1] /\ DOMAIN events = 1..Len(events)
        /\ DOMAIN events' = 1..(Len(events) - 1)
        /\ \A i \in DOMAIN events' : events'[i] = events[i + 1]
    BY <2>1
  <2>3. TaskStates'
    BY <1>4, <2>1 DEF Consume, TaskStates
  <2>4. LastWords'
    BY <1>4, <2>2 DEF Consume, LastWords
  <2>5. Head(events).type \in Ending => prod = "done"
    BY <2>2 DEF LastWords
  <2>6. ConsumerStates'
    BY <1>4, <2>1, <2>5 DEF Consume, ConsumerStates, Ending
  <2>7. NothingAfterError'
    <3>1. CASE failure # NoError
      BY <1>4, <2>1, <2>2, <3>1 DEF Consume, NothingAfterError
    <3>2. CASE failure = NoError /\ Head(events).type = "error"
      BY <1>4, <2>2, <2>5, <3>2 DEF Consume, NothingAfterError, LastWords, Ending
    <3>3. CASE failure = NoError /\ Head(events).type # "error"
      BY <1>4, <3>3 DEF Consume, NothingAfterError
    <3> QED BY <3>1, <3>2, <3>3
  <2> QED BY <2>3, <2>4, <2>6, <2>7
<1>5. CASE RecordSuccess \/ RecordFailure
  BY <1>5 DEF RecordSuccess, RecordFailure, TaskStates, ConsumerStates,
              LastWords, NothingAfterError
<1>6. CASE Close \/ Disconnect
  BY <1>6 DEF Close, Disconnect, Open, TaskStates, ConsumerStates, LastWords,
              NothingAfterError
<1>7. CASE EnterGroup \/ NeverStarted \/ AbortGroup
  BY <1>7 DEF EnterGroup, NeverStarted, AbortGroup, TaskStates,
              ConsumerStates, LastWords, NothingAfterError
<1>8. CASE LeaveGroup
  <2>1. TaskStates' /\ ConsumerStates' /\ NothingAfterError'
    BY <1>8 DEF LeaveGroup, BothStopped, TaskStates, ConsumerStates,
                NothingAfterError
  <2>2. /\ events \in Seq(Events) /\ prod = "group"
        /\ \A i \in DOMAIN events : events[i].type \notin Ending
    BY <1>8 DEF LeaveGroup, TypeOK, LastWords
  <2>3. CASE errors # <<>> /\ prod' = "done"
               /\ events' = events \o <<Error(Unwrap(errors)), Done>>
    <3>1. /\ Error(Unwrap(errors)).type = "error" /\ Done.type = "done"
      BY DEF Error, Done, Event
    <3>2. /\ DOMAIN events' = 1..(Len(events) + 2) /\ Len(events) \in Nat
          /\ \A i \in 1..Len(events) : events'[i] = events[i]
          /\ events'[Len(events) + 2] = Done
      BY <2>2, <2>3
    <3> QED BY <2>1, <2>2, <2>3, <3>1, <3>2 DEF LastWords, Ending
  <2>4. CASE prod' = "done" /\ events' = Append(events, Done)
    <3>1. /\ DOMAIN events' = 1..(Len(events) + 1) /\ Len(events) \in Nat
          /\ \A i \in 1..Len(events) : events'[i] = events[i]
      BY <2>2, <2>4
    <3> QED BY <2>1, <2>2, <2>4, <3>1 DEF LastWords
  <2>5. CASE UNCHANGED events
    BY <2>1, <2>2, <2>5 DEF LastWords
  <2> QED BY <1>8, <2>3, <2>4, <2>5 DEF LeaveGroup
<1>9. CASE ReadLlm \/ Speak
  <2>1. prod = "group" /\ UNCHANGED <<con, prod, failure>>
    BY <1>9 DEF ReadLlm, ReadItem, FinishReading, ReadFails, ReadCancelled,
                Speak, TakeSentence, EndSentence, SpeakFails, SpeakCancelled,
                TaskStates, TypeOK
  <2>2. llm' # "none" /\ tts' # "none"
    BY <1>9, <2>1 DEF ReadLlm, ReadItem, FinishReading, ReadFails,
                ReadCancelled, Speak, TakeSentence, EndSentence, SpeakFails,
                SpeakCancelled, TaskStates
  <2>3. TaskStates' /\ ConsumerStates' /\ NothingAfterError'
    BY <2>1, <2>2 DEF TaskStates, ConsumerStates, NothingAfterError
  <2>4. \/ UNCHANGED events
        \/ \E e \in Events : e.type \notin Ending /\ events' = Append(events, e)
    <3>1. /\ Reasoning \in Events /\ Reasoning.type = "reasoning"
          /\ Text(texts + 1) \in Events /\ Text(texts + 1).type = "text"
          /\ Audio(saying) \in Events /\ Audio(saying).type = "audio"
      BY EventTypesOK, SMTT(60) DEF Reasoning, Text, Audio, Event, TypeOK
    <3>2. \/ UNCHANGED events \/ events' = Append(events, Reasoning)
          \/ events' = Append(events, Text(texts + 1))
          \/ events' = Append(events, Audio(saying))
      BY <1>9 DEF ReadLlm, ReadItem, EmitText, FinishReading, ReleaseHeld,
                  ReleaseNothing, ReadFails, ReadCancelled, Speak,
                  TakeSentence, EndSentence, SpeakFails, SpeakCancelled
    <3> QED BY <3>1, <3>2 DEF Ending
  <2>5. LastWords'
    BY <2>1, <2>4, PlainEvent DEF LastWords
  <2> QED BY <2>3, <2>5
<1>10. CASE UNCHANGED vars
  BY <1>10 DEF vars, TaskStates, ConsumerStates, LastWords, NothingAfterError
<1> QED
  BY <1>1, <1>2, <1>3, <1>4, <1>5, <1>6, <1>7, <1>8, <1>9, <1>10
  DEF Next, Consumer, Produce, Over

\* When the consumer has left by itself, no task of the request is running:
\* the loop is only left after "done", the producer's very last word.
THEOREM NoOrphansHolds == Spec => []NoOrphans
<1>1. Control => NoOrphans
  BY DEF Control, TaskStates, ConsumerStates, NoOrphans, Stopped
<1> QED BY ControlInit, ControlStep, <1>1, PTL DEF Spec

\* The consumer never has to drop an event because of an earlier error.
THEOREM NothingAfterErrorHolds == Spec => []NothingAfterError
<1>1. Control => NothingAfterError
  BY DEF Control
<1> QED BY ControlInit, ControlStep, <1>1, PTL DEF Spec

-----------------------------------------------------------------------------
(* The order of texts and audio in the queue and in what was sent.         *)

\* A delta that has been put on the queue is there or was sent.
Made(n) == \/ \E j \in DOMAIN events : events[j] = Text(n)
           \/ \E j \in DOMAIN sent : sent[j] = Text(n)

\* Every sentence of s was completed by one of the first n deltas.
CutFrom(s, n) == \A i \in DOMAIN s : s[i] # None => s[i].after \in 1..n

\* Sentences are cut from deltas already made.
SentencesMade ==
  /\ CutFrom(sentences, texts)
  /\ tts = "speaking" => saying.after \in 1..texts
  /\ buffered => texts > 0

\* While the consumer passes events on, every delta is under way, and no audio
\* event is further on its way than the delta of its sentence.
OnTheWay ==
  con = "streaming" /\ failure = NoError =>
    /\ \A n \in 1..texts : Made(n)
    /\ \A i \in DOMAIN events : events[i].type = "audio" =>
         \/ \E j \in 1..(i - 1) : events[j] = Text(events[i].after)
         \/ \E j \in DOMAIN sent : sent[j] = Text(events[i].after)

NoAudioYet ==
  con \in {"opening", "transcribing", "greeted"} =>
    \A i \in DOMAIN sent : sent[i].type # "audio"

Order == SentencesMade /\ OnTheWay /\ NoAudioYet /\ AudioFollowsText

\* Initially nothing is on its way.
LEMMA OrderInit == Init => Order
BY DEF Init, Order, SentencesMade, CutFrom, OnTheWay, NoAudioYet, AudioFollowsText

\* Appending an event leaves every delta on its way, and an audio event of a
\* delta already made keeps the order.
LEMMA OneMoreEvent ==
  ASSUME TypeOK, OnTheWay, UNCHANGED <<con, failure, sent>>,
         NEW e \in Events, events' = Append(events, e),
         \/ texts' = texts
         \/ texts' = texts + 1 /\ e = Text(texts + 1),
         e.type = "audio" => e.after \in 1..texts
  PROVE  OnTheWay'
<1> SUFFICES ASSUME con = "streaming", failure = NoError
             PROVE  /\ \A n \in 1..texts' : Made(n)'
                    /\ \A i \in DOMAIN events' : events'[i].type = "audio" =>
                         \/ \E j \in 1..(i - 1) :
                              events'[j] = Text(events'[i].after)
                         \/ \E j \in DOMAIN sent :
                              sent[j] = Text(events'[i].after)
  BY DEF OnTheWay, Made, Text, Event
<1>1. /\ Len(events) \in Nat /\ DOMAIN events = 1..Len(events)
      /\ DOMAIN events' = 1..(Len(events) + 1)
      /\ \A i \in 1..Len(events) : events'[i] = events[i]
      /\ events'[Len(events) + 1] = e
  BY DEF TypeOK
<1>2. \A n \in 1..texts : Made(n)
  BY DEF OnTheWay
<1>3. ASSUME NEW n \in 1..texts' PROVE Made(n)'
  <2>1. CASE n \in 1..texts
    BY <1>1, <1>2, <2>1 DEF Made, Text, Event
  <2>2. CASE n \notin 1..texts
    <3>1. n = texts + 1 /\ e = Text(n)
      BY <2>2 DEF TypeOK
    <3> QED BY <1>1, <3>1 DEF Made, Text, Event
  <2> QED BY <2>1, <2>2
<1>4. ASSUME NEW i \in DOMAIN events', events'[i].type = "audio"
      PROVE  \/ \E j \in 1..(i - 1) : events'[j] = Text(events'[i].after)
             \/ \E j \in DOMAIN sent : sent[j] = Text(events'[i].after)
  <2>1. CASE i \in 1..Len(events)
    <3>1. events[i].type = "audio" /\ events'[i] = events[i]
      BY <1>1, <1>4, <2>1
    <3>2. \/ \E j \in 1..(i - 1) : events[j] = Text(events[i].after)
          \/ \E j \in DOMAIN sent : sent[j] = Text(events[i].after)
      BY <1>1, <2>1, <3>1 DEF OnTheWay
    <3> QED BY <1>1, <2>1, <3>1, <3>2
  <2>2. CASE i = Len(events) + 1
    <3>1. events'[i] = e /\ Made(e.after)
      BY <1>1, <1>2, <1>4, <2>2
    <3> QED BY <1>1, <2>2, <3>1 DEF Made
  <2> QED BY <1>1, <2>1, <2>2
<1> QED BY <1>3, <1>4

\* The consumer moves the first event from the queue to what was sent.
LEMMA EventPassedOn ==
  ASSUME TypeOK, OnTheWay, AudioFollowsText, Consume,
         failure = NoError, sent' = Append(sent, Head(events))
  PROVE  OnTheWay' /\ AudioFollowsText'
<1>1. /\ Len(events) \in Nat /\ Len(events) >= 1
      /\ DOMAIN events = 1..Len(events) /\ Head(events) = events[1]
      /\ DOMAIN events' = 1..(Len(events) - 1)
      /\ \A i \in DOMAIN events' : events'[i] = events[i + 1]
  BY DEF Consume, TypeOK
<1>2. /\ Len(sent) \in Nat /\ DOMAIN sent = 1..Len(sent)
      /\ DOMAIN sent' = 1..(Len(sent) + 1)
      /\ \A i \in 1..Len(sent) : sent'[i] = sent[i]
      /\ sent'[Len(sent) + 1] = events[1]
  BY <1>1 DEF TypeOK
<1>3. con = "streaming" /\ UNCHANGED texts
  BY DEF Consume, replyVars
<1>4. /\ \A n \in 1..texts : Made(n)
      /\ \A i \in DOMAIN events : events[i].type = "audio" =>
           \/ \E j \in 1..(i - 1) : events[j] = Text(events[i].after)
           \/ \E j \in DOMAIN sent : sent[j] = Text(events[i].after)
  BY <1>3 DEF OnTheWay
<1>5. \A n \in 1..texts' : Made(n)'
  <2> SUFFICES ASSUME NEW n \in 1..texts PROVE Made(n)'
    BY <1>3
  <2>1. CASE \E j \in DOMAIN sent : sent[j] = Text(n)
    BY <1>2, <2>1 DEF Made, Text, Event
  <2>2. CASE \E j \in DOMAIN events : events[j] = Text(n)
    <3>1. PICK j \in DOMAIN events : events[j] = Text(n)
      BY <2>2
    <3>2. CASE j = 1
      BY <1>2, <3>1, <3>2 DEF Made, Text, Event
    <3>3. CASE j > 1
      <4>1. j - 1 \in DOMAIN events' /\ events'[j - 1] = Text(n)
        BY <1>1, <3>1, <3>3
      <4> QED BY <4>1 DEF Made, Text, Event
    <3> QED BY <1>1, <3>2, <3>3
  <2> QED BY <1>4, <2>1, <2>2 DEF Made
<1>6. ASSUME NEW i \in DOMAIN events', events'[i].type = "audio"
      PROVE  \/ \E j \in 1..(i - 1) : events'[j] = Text(events'[i].after)
             \/ \E j \in DOMAIN sent' : sent'[j] = Text(events'[i].after)
  <2>1. events'[i] = events[i + 1] /\ i + 1 \in DOMAIN events
    BY <1>1
  <2>2. \/ \E j \in 1..i : events[j] = Text(events'[i].after)
        \/ \E j \in DOMAIN sent : sent[j] = Text(events'[i].after)
    BY <1>1, <1>4, <1>6, <2>1
  <2>3. CASE \E j \in DOMAIN sent : sent[j] = Text(events'[i].after)
    BY <1>2, <2>3
  <2>4. CASE \E j \in 1..i : events[j] = Text(events'[i].after)
    <3>1. PICK j \in 1..i : events[j] = Text(events'[i].after)
      BY <2>4
    <3>2. CASE j = 1
      BY <1>2, <3>1, <3>2
    <3>3. CASE j > 1
      <4>1. j - 1 \in 1..(i - 1) /\ events'[j - 1] = Text(events'[i].after)
        BY <1>1, <3>1, <3>3
      <4> QED BY <4>1
    <3> QED BY <1>1, <3>2, <3>3
  <2> QED BY <2>2, <2>3, <2>4
<1>7. AudioFollowsText'
  <2> SUFFICES ASSUME NEW i \in DOMAIN sent', sent'[i].type = "audio"
               PROVE  \E j \in 1..(i - 1) : sent'[j] = Text(sent'[i].after)
    BY DEF AudioFollowsText, Text, Event
  <2>1. CASE i \in 1..Len(sent)
    <3>1. \E j \in 1..(i - 1) : sent[j] = Text(sent[i].after)
      BY <1>2, <2>1 DEF AudioFollowsText
    <3> QED BY <1>2, <2>1, <3>1
  <2>2. CASE i = Len(sent) + 1
    <3>1. events[1].type = "audio" /\ sent'[i] = events[1]
      BY <1>2, <2>2
    <3>2. \E j \in DOMAIN sent : sent[j] = Text(events[1].after)
      BY <1>1, <1>4, <3>1
    <3> QED BY <1>2, <2>2, <3>1, <3>2
  <2> QED BY <1>2, <2>1, <2>2
<1> QED BY <1>5, <1>6, <1>7 DEF OnTheWay, Text, Event

\* Events that are no audio, put on the queue when every delta has been made,
\* keep the order: the last words of the producer.
LEMMA EventsAtTheEnd ==
  ASSUME TypeOK, OnTheWay, UNCHANGED <<con, failure, sent, texts>>,
         NEW t \in Seq(Events), \A i \in DOMAIN t : t[i].type # "audio",
         events' = events \o t
  PROVE  OnTheWay'
<1> SUFFICES ASSUME con = "streaming", failure = NoError
             PROVE  /\ \A n \in 1..texts : Made(n)'
                    /\ \A i \in DOMAIN events' : events'[i].type = "audio" =>
                         \/ \E j \in 1..(i - 1) :
                              events'[j] = Text(events'[i].after)
                         \/ \E j \in DOMAIN sent :
                              sent[j] = Text(events'[i].after)
  BY DEF OnTheWay, Made, Text, Event
<1>1. /\ Len(events) \in Nat /\ DOMAIN events = 1..Len(events)
      /\ Len(t) \in Nat /\ DOMAIN t = 1..Len(t)
      /\ DOMAIN events' = 1..(Len(events) + Len(t))
      /\ \A i \in 1..Len(events) : events'[i] = events[i]
      /\ \A i \in (Len(events) + 1)..(Len(events) + Len(t)) :
           events'[i] = t[i - Len(events)]
  BY DEF TypeOK
<1>2. /\ \A n \in 1..texts : Made(n)
      /\ \A i \in DOMAIN events : events[i].type = "audio" =>
           \/ \E j \in 1..(i - 1) : events[j] = Text(events[i].after)
           \/ \E j \in DOMAIN sent : sent[j] = Text(events[i].after)
  BY DEF OnTheWay
<1>3. \A n \in 1..texts : Made(n)'
  BY <1>1, <1>2 DEF Made, Text, Event
<1>4. ASSUME NEW i \in DOMAIN events', events'[i].type = "audio"
      PROVE  \/ \E j \in 1..(i - 1) : events'[j] = Text(events'[i].after)
             \/ \E j \in DOMAIN sent : sent[j] = Text(events'[i].after)
  <2>1. i \in 1..Len(events)
    <3>1. CASE i \in (Len(events) + 1)..(Len(events) + Len(t))
      <4>1. i - Len(events) \in DOMAIN t /\ events'[i] = t[i - Len(events)]
        BY <1>1, <3>1
      <4> QED BY <1>4, <4>1
    <3> QED BY <1>1, <3>1
  <2>2. events'[i] = events[i] /\ i \in DOMAIN events
    BY <1>1, <2>1
  <2>3. \/ \E j \in 1..(i - 1) : events[j] = Text(events[i].after)
        \/ \E j \in DOMAIN sent : sent[j] = Text(events[i].after)
    BY <1>2, <1>4, <2>2
  <2> QED BY <1>1, <2>1, <2>2, <2>3
<1> QED BY <1>3, <1>4

\* Sending an event that is no audio disturbs no audio event.
LEMMA SilentEvent ==
  ASSUME TypeOK, AudioFollowsText, NEW e \in Events, e.type # "audio",
         sent' = Append(sent, e)
  PROVE  AudioFollowsText'
<1>1. /\ Len(sent) \in Nat /\ DOMAIN sent = 1..Len(sent)
      /\ DOMAIN sent' = 1..(Len(sent) + 1)
      /\ \A i \in 1..Len(sent) : sent'[i] = sent[i]
      /\ sent'[Len(sent) + 1] = e
  BY DEF TypeOK
<1> SUFFICES ASSUME NEW i \in DOMAIN sent', sent'[i].type = "audio"
             PROVE  \E j \in 1..(i - 1) : sent'[j] = Text(sent'[i].after)
  BY DEF AudioFollowsText, Text, Event
<1>2. i \in 1..Len(sent)
  BY <1>1
<1>3. \E j \in 1..(i - 1) : sent[j] = Text(sent[i].after)
  BY <1>1, <1>2 DEF AudioFollowsText
<1> QED BY <1>1, <1>2, <1>3

\* Two runs of sentences cut from the first n deltas are one such run.
LEMMA CutFromConcat ==
  ASSUME NEW s \in Seq(Sentence), NEW t \in Seq(Sentence), NEW n \in Nat,
         CutFrom(s, n), CutFrom(t, n)
  PROVE  CutFrom(s \o t, n)
<1> SUFFICES ASSUME NEW i \in DOMAIN (s \o t), (s \o t)[i] # None
             PROVE  (s \o t)[i].after \in 1..n
  BY DEF CutFrom
<1>1. /\ Len(s) \in Nat /\ DOMAIN s = 1..Len(s)
      /\ Len(t) \in Nat /\ DOMAIN t = 1..Len(t)
      /\ i \in 1..(Len(s) + Len(t))
  OBVIOUS
<1>2. CASE i \in 1..Len(s)
  <2>1. (s \o t)[i] = s[i] /\ i \in DOMAIN s
    BY <1>1, <1>2
  <2> QED BY <2>1 DEF CutFrom
<1>3. CASE i \in (Len(s) + 1)..(Len(s) + Len(t))
  <2>1. (s \o t)[i] = t[i - Len(s)] /\ i - Len(s) \in DOMAIN t
    BY <1>1, <1>3
  <2> QED BY <2>1 DEF CutFrom
<1> QED BY <1>1, <1>2, <1>3

\* What the text of delta t completes, or leaves as a tail, is cut from it.
LEMMA CutFromDelta ==
  ASSUME NEW c \in Nat, NEW n \in Nat, NEW t \in Nat, NEW b \in BOOLEAN
  PROVE  /\ t > 0 => CutFrom(Cut(c, n, t), t)
         /\ (b => t > 0) => CutFrom(TailOf(c, t, b), t)
         /\ CutFrom(EndMark, t)
  BY DEF CutFrom, Cut, TailOf, EndMark

\* Every step keeps the order of texts and audio.
LEMMA OrderStep == Control /\ Order /\ [Next]_vars => Order'
<1> SUFFICES ASSUME Control, Order, [Next]_vars PROVE Order'
  OBVIOUS
<1>0. /\ TypeOK /\ TaskStates /\ ConsumerStates /\ LastWords
      /\ SentencesMade /\ OnTheWay /\ NoAudioYet /\ AudioFollowsText
  BY DEF Control, Order
<1> SUFFICES (SentencesMade /\ OnTheWay /\ NoAudioYet /\ AudioFollowsText)'
  BY DEF Order
<1> USE <1>0 DEF replyVars, voiceVars
<1>1. CASE OpenRequest \/ RecordSuccess \/ RecordFailure \/ Close
             \/ Disconnect \/ UNCHANGED vars
  <2>1. /\ UNCHANGED <<texts, sentences, tts, saying, buffered, events, sent>>
        /\ con' = "streaming" => con = "streaming" /\ UNCHANGED failure
        /\ con' \in {"opening", "transcribing", "greeted"} =>
             con \in {"opening", "transcribing", "greeted"}
    BY <1>1 DEF OpenRequest, Fail, RecordSuccess, RecordFailure, Close,
                Disconnect, vars
  <2> QED BY <2>1 DEF SentencesMade, OnTheWay, Made, NoAudioYet,
                      AudioFollowsText
<1>2. CASE Transcribe
  <2>1. Transcript \in Events /\ Transcript.type = "transcript"
    BY EventTypesOK DEF Transcript, Event
  <2>2. /\ SentencesMade' /\ OnTheWay'
    BY <1>2 DEF Transcribe, Fail, SentencesMade, OnTheWay
  <2>3. sent' = Append(sent, Transcript) \/ sent' = sent
    BY <1>2 DEF Transcribe
  <2>4. AudioFollowsText'
    BY <2>1, <2>3, SilentEvent DEF AudioFollowsText
  <2>5. \A i \in DOMAIN sent' : sent'[i].type # "audio"
    <3>1. sent \in Seq(Events) /\ \A i \in DOMAIN sent : sent[i].type # "audio"
      BY <1>2 DEF Transcribe, NoAudioYet, TypeOK
    <3>2. CASE sent' = Append(sent, Transcript)
      <4>1. /\ Len(sent) \in Nat /\ DOMAIN sent = 1..Len(sent)
            /\ DOMAIN sent' = 1..(Len(sent) + 1)
            /\ \A i \in 1..Len(sent) : sent'[i] = sent[i]
            /\ sent'[Len(sent) + 1] = Transcript
        BY <3>1, <3>2
      <4> QED BY <2>1, <3>1, <4>1
    <3> QED BY <2>3, <3>1, <3>2
  <2> QED BY <2>2, <2>4, <2>5 DEF NoAudioYet
<1>3. CASE CreateProducer
  <2>1. texts = 0 /\ events = <<>>
    BY <1>3 DEF CreateProducer, ConsumerStates, TaskStates
  <2> QED BY <1>3, <2>1 DEF CreateProducer, Fail, SentencesMade, OnTheWay,
                            NoAudioYet, AudioFollowsText, TypeOK
<1>4. CASE Consume
  <2>1. SentencesMade' /\ NoAudioYet'
    BY <1>4 DEF Consume, SentencesMade, NoAudioYet
  <2>2. Head(events) \in Events
    BY <1>4 DEF Consume, TypeOK
  <2>3. CASE failure = NoError /\ sent' = Append(sent, Head(events))
    BY <1>4, <2>1, <2>3, EventPassedOn
  <2>4. CASE failure' # NoError /\ UNCHANGED sent
    BY <2>1, <2>4 DEF OnTheWay, AudioFollowsText
  <2>5. CASE con' = "finishing" /\ sent' = Append(sent, DoneMark)
    <3>1. DoneMark \in Events /\ DoneMark.type # "audio"
      BY EventTypesOK DEF DoneMark, Event
    <3> QED BY <2>1, <2>5, <3>1, SilentEvent DEF OnTheWay
  <2>6. /\ Head(events).type = "error" => Head(events).no # NoError
        /\ failure # NoError => StatusOf(failure) # NoError
    BY <2>2, ErrorsAreNumbers DEF Events, StatusOf, NoError
  <2>7. CASE Head(events).type = "done" /\ failure # NoError
    BY <1>4, <2>4, <2>6, <2>7 DEF Consume
  <2>8. CASE Head(events).type = "done" /\ failure = NoError
    BY <1>4, <2>5, <2>8 DEF Consume
  <2>9. CASE Head(events).type = "error"
    BY <1>4, <2>4, <2>6, <2>9 DEF Consume
  <2>10. CASE Head(events).type \notin {"error", "done"}
    BY <1>4, <2>3, <2>4, <2>10 DEF Consume
  <2> QED BY <2>7, <2>8, <2>9, <2>10
<1>5. CASE EnterGroup \/ NeverStarted \/ AbortGroup
  BY <1>5 DEF EnterGroup, NeverStarted, AbortGroup, SentencesMade, OnTheWay,
              Made, NoAudioYet, AudioFollowsText
<1>6. CASE LeaveGroup
  <2>1. SentencesMade' /\ NoAudioYet' /\ AudioFollowsText'
    BY <1>6 DEF LeaveGroup, SentencesMade, NoAudioYet, AudioFollowsText
  <2>2. UNCHANGED <<con, failure, sent, texts>>
    BY <1>6 DEF LeaveGroup
  <2>3. CASE errors # <<>> /\ events' = events \o <<Error(Unwrap(errors)), Done>>
    <3> DEFINE tail == <<Error(Unwrap(errors)), Done>>
    <3>1. /\ Error(Unwrap(errors)) \in Events /\ Done \in Events
          /\ Error(Unwrap(errors)).type = "error" /\ Done.type = "done"
      BY <2>3, UnwrapType, EventTypesOK DEF TypeOK, Error, Done, Event
    <3>2. tail \in Seq(Events) /\ \A i \in DOMAIN tail : tail[i].type # "audio"
      BY <3>1
    <3> HIDE DEF tail
    <3>3. events' = events \o tail
      BY <2>3 DEF tail
    <3>4. OnTheWay'
      BY <2>2, <3>2, <3>3, EventsAtTheEnd
    <3> QED BY <2>1, <3>4
  <2>4. CASE events' = Append(events, Done)
    <3>1. Done \in Events /\ Done.type # "audio"
      BY EventTypesOK DEF Done, Event
    <3> QED BY <2>1, <2>2, <2>4, <3>1, OneMoreEvent
  <2>5. CASE UNCHANGED events
    BY <2>1, <2>2, <2>5 DEF OnTheWay, Made
  <2> QED BY <1>6, <2>3, <2>4, <2>5 DEF LeaveGroup
<1>7. CASE ReadItem
  <2>1. NoAudioYet' /\ AudioFollowsText' /\ UNCHANGED <<con, failure, sent>>
    BY <1>7 DEF ReadItem, NoAudioYet, AudioFollowsText
  <2>2. CASE UNCHANGED <<texts, cut, buffered, sentences>>
    <3>1. SentencesMade'
      BY <1>7, <2>2 DEF ReadItem, SentencesMade
    <3>2. Reasoning \in Events /\ Reasoning.type # "audio"
      BY EventTypesOK DEF Reasoning, Event
    <3>3. CASE events' = Append(events, Reasoning)
      BY <2>1, <2>2, <3>1, <3>2, <3>3, OneMoreEvent
    <3>4. CASE UNCHANGED events
      BY <2>1, <2>2, <3>1, <3>4 DEF OnTheWay, Made
    <3>5. CASE \E d \in Deltas : EmitText(d)
      BY <2>2, <3>5 DEF EmitText, TypeOK
    <3> QED BY <1>7, <3>3, <3>4, <3>5 DEF ReadItem
  <2>3. ASSUME NEW d \in Deltas, EmitText(d)
        PROVE  SentencesMade' /\ OnTheWay'
    <3>1. d.ready \in Nat /\ d.rest \in BOOLEAN /\ texts + 1 \in Nat
      BY BoundsAssumption DEF Deltas, TypeOK
    <3>2. Text(texts + 1) \in Events /\ Text(texts + 1).type # "audio"
      BY <3>1, EventTypesOK DEF Text, Event
    <3>3. OnTheWay'
      BY <2>1, <2>3, <3>2, OneMoreEvent DEF EmitText
    <3>4. SentencesMade'
      <4> DEFINE ready == Cut(cut, d.ready, texts + 1)
      <4>1. ready \in Seq(Sentence) /\ CutFrom(ready, texts + 1)
        <5>1. cut \in Nat /\ texts + 1 > 0
          BY DEF TypeOK
        <5>2. ready \in Seq(Sentence)
          BY <3>1, <5>1, CutType
        <5> HIDE DEF TypeOK
        <5>3. CutFrom(ready, texts + 1)
          BY <3>1, <5>1, CutFromDelta
        <5> QED BY <5>2, <5>3
      <4>2. sentences \in Seq(Sentence) /\ CutFrom(sentences, texts + 1)
        BY DEF SentencesMade, CutFrom, TypeOK
      <4> HIDE DEF ready
      <4>3. CutFrom(sentences \o ready, texts + 1)
        BY <3>1, <4>1, <4>2, CutFromConcat
      <4>4. sentences' = sentences \o ready /\ texts' = texts + 1
        BY <2>3 DEF EmitText, ready
      <4>5. CutFrom(sentences', texts')
        BY <4>3, <4>4
      <4> QED BY <1>7, <3>1, <4>4, <4>5 DEF ReadItem, SentencesMade, TypeOK
    <3> QED BY <3>3, <3>4
  <2> QED BY <1>7, <2>1, <2>2, <2>3 DEF ReadItem
<1>8. CASE FinishReading
  <2>1. /\ NoAudioYet' /\ AudioFollowsText' /\ ~buffered'
        /\ UNCHANGED <<con, failure, sent, tts, saying>>
    BY <1>8 DEF FinishReading, NoAudioYet, AudioFollowsText
  <2>2. sentences \in Seq(Sentence) /\ EndMark \in Seq(Sentence)
    BY EventTypesOK DEF EndMark, TypeOK
  <2>3. ASSUME NEW d \in Deltas, ReleaseHeld(d)
        PROVE  SentencesMade' /\ OnTheWay'
    <3>1. /\ d.ready \in Nat /\ d.rest \in BOOLEAN
          /\ texts + 1 \in Nat /\ cut + d.ready \in Nat
      BY BoundsAssumption DEF Deltas, TypeOK
    <3>2. Text(texts + 1) \in Events /\ Text(texts + 1).type # "audio"
      BY <3>1, EventTypesOK DEF Text, Event
    <3>3. OnTheWay'
      BY <2>1, <2>3, <3>2, OneMoreEvent DEF ReleaseHeld
    <3> DEFINE ready == Cut(cut, d.ready, texts + 1)
               tail == TailOf(cut + d.ready, texts + 1, d.rest)
    <3>4. /\ ready \in Seq(Sentence) /\ CutFrom(ready, texts + 1)
          /\ tail \in Seq(Sentence) /\ CutFrom(tail, texts + 1)
          /\ CutFrom(EndMark, texts + 1)
      <4>1. cut \in Nat /\ texts + 1 > 0
        BY DEF TypeOK
      <4>2. ready \in Seq(Sentence) /\ CutFrom(ready, texts + 1)
        BY <3>1, <4>1, CutType, CutFromDelta
      <4>3. tail \in Seq(Sentence) /\ CutFrom(tail, texts + 1)
        BY <3>1, <4>1, TailOfType, CutFromDelta
      <4>4. CutFrom(EndMark, texts + 1)
        BY <3>1, CutFromDelta
      <4> QED BY <4>2, <4>3, <4>4
    <3>5. CutFrom(sentences, texts + 1)
      BY DEF SentencesMade, CutFrom, TypeOK
    <3> HIDE DEF ready, tail
    <3>6. /\ sentences \o ready \in Seq(Sentence)
          /\ CutFrom(sentences \o ready, texts + 1)
      BY <2>2, <3>1, <3>4, <3>5, CutFromConcat, ConcatType
    <3>7. /\ (sentences \o ready) \o tail \in Seq(Sentence)
          /\ CutFrom((sentences \o ready) \o tail, texts + 1)
      BY <3>1, <3>4, <3>6, CutFromConcat, ConcatType
    <3>8. CutFrom(((sentences \o ready) \o tail) \o EndMark, texts + 1)
      BY <2>2, <3>1, <3>4, <3>7, CutFromConcat
    <3>9. /\ texts' = texts + 1
          /\ sentences' = ((sentences \o ready) \o tail) \o EndMark
      BY <2>3 DEF ReleaseHeld, ready, tail
    <3>10. CutFrom(sentences', texts')
      BY <3>8, <3>9
    <3> QED BY <2>1, <3>3, <3>9, <3>10 DEF SentencesMade, TypeOK
  <2>4. CASE ReleaseNothing
    <3> DEFINE tail == TailOf(cut, texts, buffered)
    <3>1. /\ tail \in Seq(Sentence) /\ CutFrom(tail, texts)
          /\ CutFrom(EndMark, texts) /\ CutFrom(sentences, texts)
          /\ texts \in Nat
      BY TailOfType, CutFromDelta DEF SentencesMade, TypeOK
    <3> HIDE DEF tail
    <3>2. sentences \o tail \in Seq(Sentence) /\ CutFrom(sentences \o tail, texts)
      BY <2>2, <3>1, CutFromConcat, ConcatType
    <3>3. CutFrom((sentences \o tail) \o EndMark, texts)
      BY <2>2, <3>1, <3>2, CutFromConcat
    <3>4. /\ UNCHANGED <<events, texts>>
          /\ sentences' = (sentences \o tail) \o EndMark
      BY <2>4 DEF ReleaseNothing, tail
    <3>5. CutFrom(sentences', texts')
      BY <3>3, <3>4
    <3> QED BY <2>1, <3>4, <3>5 DEF SentencesMade, OnTheWay, Made
  <2> QED BY <1>8, <2>1, <2>3, <2>4 DEF FinishReading
<1>9. CASE TakeSentence
  <2>1. /\ sentences \in Seq(Sentence) /\ sentences # <<>>
        /\ sentences' = Tail(sentences) /\ saying' = Head(sentences)
        /\ tts' = "speaking" => Head(sentences) # None
        /\ UNCHANGED <<con, failure, sent, events, texts, buffered>>
    BY <1>9 DEF TakeSentence, TypeOK
  <2>2. /\ Len(sentences) \in Nat /\ Len(sentences) >= 1
        /\ DOMAIN sentences = 1..Len(sentences)
        /\ Head(sentences) = sentences[1]
        /\ DOMAIN sentences' = 1..(Len(sentences) - 1)
        /\ \A i \in DOMAIN sentences' : sentences'[i] = sentences[i + 1]
    BY <2>1
  <2>3. CutFrom(sentences, texts)
    BY DEF SentencesMade
  <2>4. CutFrom(sentences', texts')
    BY <2>1, <2>2, <2>3 DEF CutFrom
  <2>5. tts' = "speaking" => saying'.after \in 1..texts'
    BY <2>1, <2>2, <2>3 DEF CutFrom
  <2> QED BY <2>1, <2>4, <2>5 DEF SentencesMade, OnTheWay, Made, NoAudioYet,
                                  AudioFollowsText
<1>10. CASE EndSentence
  <2>1. /\ UNCHANGED <<con, failure, sent, texts, buffered, sentences>>
        /\ saying \in Sentence /\ saying.after \in 1..texts
    BY <1>10 DEF EndSentence, SentencesMade, TypeOK
  <2>2. SentencesMade' /\ NoAudioYet' /\ AudioFollowsText'
    BY <1>10 DEF EndSentence, SentencesMade, NoAudioYet, AudioFollowsText
  <2>3. Audio(saying) \in Events /\ Audio(saying).after = saying.after
    BY <2>1, EventTypesOK DEF Audio, Event
  <2>4. CASE events' = Append(events, Audio(saying))
    BY <2>1, <2>2, <2>3, <2>4, OneMoreEvent
  <2>5. CASE UNCHANGED events
    BY <2>1, <2>2, <2>5 DEF OnTheWay, Made
  <2> QED BY <1>10, <2>4, <2>5 DEF EndSentence
<1>11. CASE ReadFails \/ ReadCancelled \/ SpeakFails \/ SpeakCancelled
  <2>1. /\ UNCHANGED <<con, failure, sent, events, texts, buffered, sentences>>
        /\ tts' = "speaking" => tts = "speaking" /\ UNCHANGED saying
    BY <1>11 DEF ReadFails, ReadCancelled, SpeakFails, SpeakCancelled
  <2> QED BY <2>1 DEF SentencesMade, OnTheWay, Made, NoAudioYet,
                      AudioFollowsText
<1> QED
  BY <1>1, <1>2, <1>3, <1>4, <1>5, <1>6, <1>7, <1>8, <1>9, <1>10, <1>11
  DEF Next, Consumer, Produce, ReadLlm, Speak, Over

\* The client never hears a sentence before it has been shown its text.
THEOREM AudioFollowsTextHolds == Spec => []AudioFollowsText
<1>1. Init => Control /\ Order
  BY ControlInit, OrderInit
<1>2. Control /\ Order /\ [Next]_vars => (Control /\ Order)'
  BY ControlStep, OrderStep
<1>3. Control /\ Order => AudioFollowsText
  BY DEF Order
<1> QED BY <1>1, <1>2, <1>3, PTL DEF Spec

-----------------------------------------------------------------------------
(* What becomes of an error, and of a reply without one.                   *)

\* The number of children of the group that have failed.
Failed == (IF llm = "failed" THEN 1 ELSE 0) + (IF tts = "failed" THEN 1 ELSE 0)

\* The error that the producer reports is the one the consumer is failing with,
\* and without one the children have ended by themselves.
Charged(f) == errors # <<>> /\ f = StatusOf(Unwrap(errors))

Errors ==
  /\ Len(errors) = Failed
  /\ \A i \in DOMAIN events :
       events[i].type = "error" => errors # <<>> /\ events[i].no = Unwrap(errors)
  /\ con = "streaming" /\ failure # NoError =>
       errors # <<>> /\ failure = Unwrap(errors)
  /\ con = "streaming" /\ failure = NoError /\ prod = "done" /\ errors # <<>> =>
       \E i \in DOMAIN events : events[i].type = "error"

\* What is recorded when the request is over.
Records ==
  /\ con \notin {"returned", "raised"} => usage = <<>>
  /\ con \in {"failing", "raised"} /\ prod = "done" => Charged(failure)
  /\ con \in {"finishing", "returned"} => errors = <<>>
  /\ con = "returned" => usage = <<200>>
  /\ con = "raised" => usage = <<failure>> /\ failure \in Statuses

\* "done" is the very last event, and "[DONE]" is never one.
DoneIsLast ==
  \A i \in DOMAIN events : /\ events[i].type = "done" => i = Len(events)
                           /\ events[i].type # "[DONE]"

\* An error follows the events that were there when the group was left.
LEMMA ErrorsStep ==
  ASSUME Control, Errors, DoneIsLast, [Next]_vars
  PROVE  Errors' /\ DoneIsLast'
<1>0. TypeOK /\ TypeOK' /\ TaskStates /\ ConsumerStates /\ LastWords
        /\ NothingAfterError
  BY StepType DEF Control
<1> USE <1>0 DEF replyVars, voiceVars
<1>1. CASE OpenRequest \/ Transcribe \/ CreateProducer \/ RecordSuccess
             \/ RecordFailure \/ Close \/ Disconnect \/ UNCHANGED vars
  <2>1. /\ UNCHANGED <<llm, tts, events, errors>>
        /\ con' = "streaming" =>
             /\ failure' = failure
             /\ \/ con = "streaming" /\ prod' = prod
                \/ failure = NoError /\ prod' = "created"
    BY <1>1 DEF OpenRequest, Transcribe, CreateProducer, Fail, RecordSuccess,
                RecordFailure, Close, Disconnect, vars, ConsumerStates
  <2> QED BY <2>1 DEF Errors, Failed, DoneIsLast
<1>2. CASE Consume
  <2>1. /\ Len(events) \in Nat /\ Len(events) >= 1
        /\ Head(events) = events[1] /\ DOMAIN events = 1..Len(events)
        /\ Len(events') = Len(events) - 1
        /\ DOMAIN events' = 1..(Len(events) - 1)
        /\ \A i \in DOMAIN events' : events'[i] = events[i + 1]
    BY <1>2 DEF Consume, TypeOK
  <2>2. UNCHANGED <<prod, llm, tts, errors>>
    BY <1>2 DEF Consume
  <2>3. DoneIsLast'
    BY <2>1 DEF DoneIsLast
  <2>4. Len(errors') = Failed'
    BY <2>2 DEF Errors, Failed
  <2>5. \A i \in DOMAIN events' : events'[i].type = "error" =>
          errors' # <<>> /\ events'[i].no = Unwrap(errors')
    BY <2>1, <2>2 DEF Errors
  <2>6. con' = "streaming" /\ failure' # NoError =>
          errors' # <<>> /\ failure' = Unwrap(errors')
    BY <1>2, <2>1, <2>2 DEF Errors, Consume
  <2>7. con' = "streaming" /\ failure' = NoError /\ prod' = "done" /\ errors' # <<>> =>
          \E i \in DOMAIN events' : events'[i].type = "error"
    <3> SUFFICES ASSUME con' = "streaming", failure' = NoError, prod' = "done",
                        errors' # <<>>
                 PROVE  \E i \in DOMAIN events' : events'[i].type = "error"
      OBVIOUS
    <3>1. Head(events) \in Events /\ \A e \in Events : e.type = "error" => e.no # NoError
      BY <1>2, ErrorsAreNumbers, SMTT(60) DEF Consume, TypeOK, Events, NoError
    <3>2. /\ con = "streaming" /\ failure = NoError
          /\ events[1].type # "error"
      BY <1>2, <2>1, <3>1 DEF Consume
    <3>3. PICK i \in DOMAIN events : events[i].type = "error"
      BY <2>2, <3>2 DEF Errors
    <3>4. i - 1 \in DOMAIN events' /\ events'[i - 1] = events[i]
      BY <2>1, <3>2, <3>3
    <3> QED BY <3>3, <3>4
  <2> QED BY <2>3, <2>4, <2>5, <2>6, <2>7 DEF Errors
<1>3. CASE EnterGroup \/ NeverStarted \/ AbortGroup
  <2>1. CASE EnterGroup
    BY <2>1 DEF EnterGroup, TaskStates, Errors, Failed, DoneIsLast, LastWords
  <2>2. CASE NeverStarted \/ AbortGroup
    BY <2>2 DEF NeverStarted, AbortGroup, Errors, Failed, DoneIsLast
  <2> QED BY <1>3, <2>1, <2>2
<1>4. CASE LeaveGroup
  <2>1. /\ UNCHANGED <<con, failure, llm, tts, errors>> /\ prod = "group"
        /\ \A i \in DOMAIN events : events[i].type \notin Ending
        /\ events \in Seq(Events) /\ errors \in Seq(RuntimeErrors)
        /\ Len(errors) = Failed
    BY <1>4 DEF LeaveGroup, LastWords, TypeOK, Errors
  <2>2. con = "streaming" => failure = NoError
    BY <2>1 DEF NothingAfterError
  <2>3. CASE errors # <<>> /\ events' = events \o <<Error(Unwrap(errors)), Done>>
    <3>1. /\ Error(Unwrap(errors)).type = "error" /\ Done.type = "done"
          /\ Error(Unwrap(errors)).no = Unwrap(errors)
      BY DEF Error, Done, Event
    <3>2. /\ Len(events) \in Nat /\ DOMAIN events = 1..Len(events)
          /\ Len(events') = Len(events) + 2
          /\ DOMAIN events' = 1..(Len(events) + 2)
          /\ \A i \in 1..Len(events) : events'[i] = events[i]
          /\ events'[Len(events) + 1] = Error(Unwrap(errors))
          /\ events'[Len(events) + 2] = Done
      BY <2>1, <2>3
    <3>3. DoneIsLast'
      BY <2>1, <3>1, <3>2 DEF DoneIsLast, Ending
    <3>4. Len(errors') = Failed'
      BY <2>1 DEF Failed
    <3>5. \A i \in DOMAIN events' : events'[i].type = "error" =>
            errors' # <<>> /\ events'[i].no = Unwrap(errors')
      BY <2>1, <2>3, <3>1, <3>2 DEF Ending
    <3>6. \E i \in DOMAIN events' : events'[i].type = "error"
      BY <3>1, <3>2
    <3> QED BY <2>1, <2>2, <3>3, <3>4, <3>5, <3>6 DEF Errors
  <2>4. CASE errors = <<>> /\ events' = Append(events, Done)
    <3>1. Done.type = "done"
      BY DEF Done, Event
    <3>2. /\ Len(events) \in Nat /\ DOMAIN events = 1..Len(events)
          /\ Len(events') = Len(events) + 1
          /\ DOMAIN events' = 1..(Len(events) + 1)
          /\ \A i \in 1..Len(events) : events'[i] = events[i]
          /\ events'[Len(events) + 1] = Done
      BY <2>1, <2>4
    <3>3. DoneIsLast'
      BY <2>1, <3>1, <3>2 DEF DoneIsLast, Ending
    <3> QED BY <2>1, <2>2, <2>4, <3>1, <3>2, <3>3 DEF Errors, Failed, Ending
  <2>5. CASE prod' = "cancelled" /\ UNCHANGED events
    BY <2>1, <2>2, <2>5 DEF Errors, Failed, DoneIsLast
  <2> QED BY <1>4, <2>3, <2>4, <2>5 DEF LeaveGroup
<1>5. CASE ReadLlm \/ Speak
  <2>1. /\ prod = "group" /\ UNCHANGED <<con, prod, failure>>
        /\ llm # "none" /\ tts # "none"
    BY <1>5 DEF ReadLlm, ReadItem, FinishReading, ReadFails, ReadCancelled,
                Speak, TakeSentence, EndSentence, SpeakFails, SpeakCancelled,
                TaskStates, TypeOK, Stopped
  <2>2. con = "streaming" => failure = NoError
    BY <2>1 DEF NothingAfterError
  <2>3. \A i \in DOMAIN events : events[i].type \notin Ending \cup {"[DONE]"}
    BY <2>1 DEF LastWords, DoneIsLast
  <2>4. \/ UNCHANGED events
        \/ \E e \in Events : /\ e.type \notin Ending \cup {"[DONE]"}
                             /\ events' = Append(events, e)
    <3>0. saying \in Sentence /\ texts + 1 \in Nat
      BY DEF TypeOK
    <3>1. /\ Reasoning \in Events /\ Reasoning.type = "reasoning"
          /\ Text(texts + 1) \in Events /\ Text(texts + 1).type = "text"
          /\ Audio(saying) \in Events /\ Audio(saying).type = "audio"
      BY <3>0, EventTypesOK DEF Reasoning, Text, Audio, Event
    <3>2. \/ UNCHANGED events \/ events' = Append(events, Reasoning)
          \/ events' = Append(events, Text(texts + 1))
          \/ events' = Append(events, Audio(saying))
      BY <1>5 DEF ReadLlm, ReadItem, EmitText, FinishReading, ReleaseHeld,
                  ReleaseNothing, ReadFails, ReadCancelled, Speak,
                  TakeSentence, EndSentence, SpeakFails, SpeakCancelled
    <3> QED BY <3>1, <3>2 DEF Ending
  <2>5. \A i \in DOMAIN events' : events'[i].type \notin Ending \cup {"[DONE]"}
    <3>1. ASSUME NEW e \in Events, e.type \notin Ending \cup {"[DONE]"},
                 events' = Append(events, e)
          PROVE  \A i \in DOMAIN events' : events'[i].type \notin Ending \cup {"[DONE]"}
      <4>1. /\ events \in Seq(Events) /\ Len(events) \in Nat
            /\ DOMAIN events = 1..Len(events)
            /\ DOMAIN events' = 1..(Len(events) + 1)
            /\ \A i \in 1..Len(events) : events'[i] = events[i]
            /\ events'[Len(events) + 1] = e
        BY <3>1, SMTT(60) DEF TypeOK
      <4> QED BY <2>3, <3>1, <4>1
    <3> QED BY <2>3, <2>4, <3>1
  <2>6. Len(errors') = Failed'
    <3>1. CASE ReadItem \/ FinishReading \/ ReadCancelled
      BY <3>1 DEF ReadItem, FinishReading, ReadCancelled, Errors, Failed
    <3>2. CASE ReadFails
      <4>1. Len(errors') = Len(errors) + 1
        BY <3>2 DEF ReadFails, TypeOK
      <4> QED BY <3>2, <4>1 DEF ReadFails, Errors, Failed
    <3>3. CASE TakeSentence \/ EndSentence \/ SpeakCancelled
      BY <3>3 DEF TakeSentence, EndSentence, SpeakCancelled, Errors, Failed
    <3>4. CASE SpeakFails
      <4>1. Len(errors') = Len(errors) + 1
        BY <3>4 DEF SpeakFails, TypeOK
      <4> QED BY <3>4, <4>1 DEF SpeakFails, Errors, Failed
    <3> QED BY <1>5, <3>1, <3>2, <3>3, <3>4 DEF ReadLlm, Speak
  <2> QED BY <2>1, <2>2, <2>5, <2>6 DEF Errors, DoneIsLast, Ending
<1> QED
  BY <1>1, <1>2, <1>3, <1>4, <1>5 DEF Next, Consumer, Produce, Over

\* The record of a request is that of its outcome.
LEMMA RecordsStep ==
  ASSUME Control, Errors, DoneIsLast, Records, [Next]_vars
  PROVE  Records'
<1>0. TypeOK /\ TaskStates /\ ConsumerStates /\ LastWords
  BY DEF Control
<1> USE <1>0 DEF replyVars, voiceVars
<1>1. CASE OpenRequest \/ Transcribe \/ CreateProducer
  <2>1. con \in {"opening", "transcribing", "greeted"} /\ prod = "none" /\ usage = <<>>
    BY <1>1 DEF OpenRequest, Transcribe, CreateProducer, ConsumerStates, Records
  <2>2. /\ usage' = <<>> /\ prod' # "done"
        /\ con' \notin {"returned", "raised", "finishing"}
    BY <1>1, <2>1 DEF OpenRequest, Transcribe, CreateProducer, Fail
  <2> QED BY <2>2 DEF Records
<1>2. CASE Consume
  <2>1. /\ Len(events) \in Nat /\ Len(events) >= 1
        /\ Head(events) = events[1] /\ DOMAIN events = 1..Len(events)
    BY <1>2 DEF Consume, TypeOK
  <2>2. /\ con = "streaming" /\ usage = <<>>
        /\ UNCHANGED <<prod, errors, usage>>
    BY <1>2 DEF Consume, Records
  <2>3. con' \in {"streaming", "finishing", "failing"}
    BY <1>2 DEF Consume
  <2>4. con' = "failing" => Charged(failure)'
    BY <1>2, <2>2 DEF Consume, Errors, Charged
  <2>5. con' = "finishing" => errors' = <<>>
    <3> SUFFICES ASSUME con' = "finishing", errors # <<>> PROVE FALSE
      BY <2>2
    <3>1. events[1].type = "done" /\ failure = NoError /\ prod = "done"
      BY <1>2, <2>1 DEF Consume, LastWords, Ending
    <3>2. PICK i \in DOMAIN events : events[i].type = "error"
      BY <2>2, <3>1 DEF Errors
    <3> QED BY <2>1, <3>1, <3>2 DEF DoneIsLast
  <2> QED BY <2>2, <2>3, <2>4, <2>5 DEF Records
<1>3. CASE RecordSuccess
  BY <1>3 DEF RecordSuccess, Records
<1>4. CASE RecordFailure
  BY <1>4 DEF RecordFailure, Records, Charged, TypeOK
<1>5. CASE Close \/ Disconnect
  BY <1>5 DEF Close, Disconnect, Open, Records
<1>6. CASE Produce \/ ReadLlm \/ Speak
  <2>1. /\ UNCHANGED <<con, usage, failure>>
        /\ prod \in {"created", "group"}
    BY <1>6 DEF Produce, EnterGroup, NeverStarted, AbortGroup, LeaveGroup,
         ReadLlm, ReadItem, FinishReading, ReadFails, ReadCancelled,
         Speak, TakeSentence, EndSentence, SpeakFails, SpeakCancelled,
         TaskStates, TypeOK, Stopped
  <2>2. con \notin {"failing", "raised", "finishing", "returned"}
    BY <2>1 DEF ConsumerStates
  <2> QED BY <2>1, <2>2 DEF Records
<1>7. CASE UNCHANGED vars
  BY <1>7 DEF vars, Records, Charged
<1> QED
  BY <1>1, <1>2, <1>3, <1>4, <1>5, <1>6, <1>7 DEF Next, Consumer, Over

Outcome == Control /\ Errors /\ DoneIsLast /\ Records

\* The first platform error is the one that is charged.
LEMMA OutcomeIsTold == Outcome => UsageTellsOutcome
<1> SUFFICES ASSUME Outcome PROVE UsageTellsOutcome
  OBVIOUS
<1> USE DEF Outcome, Control
<1>1. Len(usage) = IF con \in {"returned", "raised"} THEN 1 ELSE 0
  BY DEF Records
<1>2. con = "returned" => usage = <<200>> /\ errors = <<>>
  BY DEF Records
<1>3. ASSUME con = "raised"
      PROVE  /\ usage[1] >= 400
             /\ (\E i \in DOMAIN errors : errors[i] # OtherError)
                  => \E i \in DOMAIN errors : usage[1] = errors[i]
  <2>1. usage[1] = failure /\ failure \in Statuses
    BY <1>3 DEF Records
  <2>2. failure >= 400
    BY <2>1, StatusAssumption DEF Statuses
  <2>3. ASSUME NEW i \in DOMAIN errors, errors[i] # OtherError
        PROVE  \E j \in DOMAIN errors : failure = errors[j]
    <3>1. /\ errors \in Seq(RuntimeErrors) /\ DOMAIN errors = 1..Len(errors)
          /\ Len(errors) \in 1..2
      BY <2>3 DEF TypeOK, Errors, Failed
    <3>2. prod = "done"
      BY <1>3, <2>3 DEF ConsumerStates, TaskStates
    <3>3. failure = StatusOf(Unwrap(errors))
      BY <1>3, <3>2 DEF Records, Charged
    <3>4. \E j \in DOMAIN errors : Unwrap(errors) = errors[j] /\ errors[j] # OtherError
      BY <2>3, <3>1 DEF Unwrap
    <3> QED BY <3>3, <3>4 DEF StatusOf
  <2> QED BY <2>1, <2>2, <2>3
<1> QED BY <1>1, <1>2, <1>3 DEF UsageTellsOutcome

\* What is told holds initially.
LEMMA OutcomeInit == Init => Outcome
<1> SUFFICES ASSUME Init PROVE Outcome
  OBVIOUS
<1> QED BY ControlInit DEF Init, Outcome, Errors, Failed, DoneIsLast, Records

LEMMA OutcomeStep == Outcome /\ [Next]_vars => Outcome'
BY ControlStep, ErrorsStep, RecordsStep DEF Outcome

\* A request leaves at most one usage record, which tells what became of it.
THEOREM UsageTellsOutcomeHolds == Spec => []UsageTellsOutcome
BY OutcomeInit, OutcomeStep, OutcomeIsTold, PTL DEF Spec

-----------------------------------------------------------------------------
(* A reply that is not broken off is emptied to the last sentence.         *)

\* A child is cancelled only by its group, and the group cancels only after an
\* error or when it is cancelled itself.
Cancellations ==
  /\ llm = "cancelled" \/ tts = "cancelled" => aborting
  /\ aborting => errors # <<>> \/ cancelled
  /\ prod = "done" /\ errors = <<>> => llm = "done" /\ tts = "done"

\* The queue holds the sentences cut and not yet taken, and None once the
\* reader has ended and until the speaker has taken it.
Queue ==
  /\ spoken <= cut
  /\ \A i \in DOMAIN sentences : sentences[i] = None <=> i > cut - spoken
  /\ Len(sentences) = cut - spoken + (IF llm = "done" /\ tts # "done" THEN 1 ELSE 0)
  /\ llm = "done" => ~buffered
  /\ tts = "done" => llm = "done" /\ spoken = cut

Drained == Cancellations /\ Queue

\* Every element of s is a sentence to be spoken.
NoNones(s) == s \in Seq(Sentence) /\ \A i \in 1..Len(s) : s[i] # None

\* Two such sequences make one.
LEMMA NoNonesConcat ==
  ASSUME NEW s, NEW t, NoNones(s), NoNones(t)
  PROVE  NoNones(s \o t) /\ Len(s \o t) = Len(s) + Len(t)
<1>1. s \in Seq(Sentence) /\ t \in Seq(Sentence)
  BY DEF NoNones
<1>2. /\ s \o t \in Seq(Sentence) /\ Len(s \o t) = Len(s) + Len(t)
      /\ Len(s) \in Nat /\ Len(t) \in Nat
  BY <1>1
<1>3. \A i \in 1..Len(s \o t) :
        (s \o t)[i] = IF i <= Len(s) THEN s[i] ELSE t[i - Len(s)]
  BY <1>1
<1>4. ASSUME NEW i \in 1..Len(s \o t) PROVE (s \o t)[i] # None
  <2>1. CASE i <= Len(s)
    BY <1>2, <1>3, <2>1 DEF NoNones
  <2>2. CASE ~(i <= Len(s))
    <3>1. i - Len(s) \in 1..Len(t)
      BY <1>2, <2>2
    <3> QED BY <1>3, <2>2, <3>1 DEF NoNones
  <2> QED BY <2>1, <2>2
<1> QED BY <1>2, <1>4 DEF NoNones

\* The sentences of a delta are no Nones ...
LEMMA CutIsSentences ==
  ASSUME NEW c \in Nat, NEW n \in Nat, NEW t \in Nat
  PROVE  NoNones(Cut(c, n, t)) /\ Len(Cut(c, n, t)) = n
<1>1. /\ Cut(c, n, t) \in Seq(Sentence) /\ Len(Cut(c, n, t)) = n
      /\ \A i \in 1..n : Cut(c, n, t)[i] = [no |-> c + i, after |-> t]
  BY CutType
<1>2. \A i \in 1..n : [no |-> c + i, after |-> t].no # None.no
  BY DEF None
<1> QED BY <1>1, <1>2 DEF NoNones

\* ... nor is the tail of the buffer.
LEMMA TailIsSentences ==
  ASSUME NEW c \in Nat, NEW t \in Nat, NEW b \in BOOLEAN
  PROVE  NoNones(TailOf(c, t, b)) /\ Len(TailOf(c, t, b)) = (IF b THEN 1 ELSE 0)
<1>1. NoNones(<< >>) /\ Len(<< >>) = 0
  BY DEF NoNones
<1>2. 1 \in Nat
  OBVIOUS
<1>3. NoNones(Cut(c, 1, t)) /\ Len(Cut(c, 1, t)) = 1
  BY <1>2, CutIsSentences
<1>4. TailOf(c, t, b) = IF b THEN Cut(c, 1, t) ELSE << >>
  BY DEF TailOf
<1>5. CASE b
  BY <1>3, <1>4, <1>5
<1>6. CASE ~b
  BY <1>1, <1>4, <1>6
<1> QED BY <1>5, <1>6

\* Sentences put on the queue keep it as it should be.
LEMMA QueueGrows ==
  ASSUME TypeOK, Queue, llm = "reading", UNCHANGED <<tts, spoken>>,
         NEW more, NoNones(more), cut' \in Nat,
         Len(more) = Len(sentences) + (cut' - cut), cut' >= cut,
         \/ llm' = "reading" /\ sentences' = more
         \/ llm' = "done" /\ ~buffered' /\ sentences' = more \o EndMark
  PROVE  Queue'
<1>1. /\ Len(sentences) = cut - spoken /\ cut \in Nat /\ spoken \in Nat
      /\ spoken <= cut /\ tts # "done"
  BY DEF TypeOK, Queue
<1>2. /\ more \in Seq(Sentence) /\ DOMAIN more = 1..Len(more) /\ Len(more) \in Nat
      /\ \A i \in 1..Len(more) : more[i] # None
  BY DEF NoNones
<1>5. Len(more) = cut' - spoken' /\ spoken' <= cut' /\ tts' # "done"
  BY <1>1
<1>3. CASE llm' = "reading" /\ sentences' = more
  BY <1>2, <1>3, <1>5 DEF Queue
<1>4. CASE llm' = "done" /\ ~buffered' /\ sentences' = more \o EndMark
  <2>1. /\ Len(sentences') = Len(more) + 1
        /\ DOMAIN sentences' = 1..(Len(more) + 1)
        /\ \A i \in 1..Len(more) : sentences'[i] = more[i]
        /\ sentences'[Len(more) + 1] = None
    BY <1>2, <1>4 DEF EndMark
  <2>2. \A i \in DOMAIN sentences' : sentences'[i] = None <=> i > cut' - spoken'
    BY <1>2, <1>5, <2>1
  <2> QED BY <1>2, <1>4, <1>5, <2>1, <2>2 DEF Queue
<1> QED BY <1>3, <1>4

\* Before None the queue holds sentences only.
LEMMA QueueIsSentences ==
  ASSUME TypeOK, Queue, llm = "reading"
  PROVE  NoNones(sentences)
<1>1. /\ sentences \in Seq(Sentence) /\ Len(sentences) = cut - spoken
      /\ cut - spoken \in Int
  BY DEF TypeOK, Queue
<1> QED BY <1>1 DEF Queue, NoNones

\* Every step keeps account of what is left to be spoken.
LEMMA DrainedStep ==
  ASSUME Control, Errors, Drained, [Next]_vars
  PROVE  Drained'
<1>0. /\ TypeOK /\ TaskStates /\ ConsumerStates /\ Cancellations /\ Queue
      /\ TypeOK'
  BY StepType DEF Control, Drained
<1> USE <1>0 DEF replyVars, voiceVars
<1>1. CASE OpenRequest \/ Transcribe \/ CreateProducer \/ Consume \/ RecordSuccess
             \/ RecordFailure \/ Close \/ Disconnect \/ UNCHANGED vars
  <2>1. /\ UNCHANGED <<llm, tts, errors, aborting, buffered, spoken, cut, sentences>>
        /\ prod' = "done" => prod = "done"
        /\ cancelled => cancelled'
    BY <1>1 DEF OpenRequest, Transcribe, CreateProducer, Fail, Consume, RecordSuccess,
                RecordFailure, Close, Disconnect, vars
  <2> QED BY <2>1 DEF Drained, Cancellations, Queue
<1>2. CASE EnterGroup
  BY <1>2 DEF EnterGroup, TaskStates, Drained, Cancellations, Queue
<1>3. CASE NeverStarted \/ AbortGroup
  BY <1>3 DEF NeverStarted, AbortGroup, Drained, Cancellations, Queue
<1>4. CASE LeaveGroup
  <2>1. Queue'
    BY <1>4 DEF LeaveGroup, Queue
  <2>2. errors = <<>> => llm # "failed" /\ tts # "failed"
    BY DEF Errors, Failed
  <2>3. prod' = "done" /\ errors' = <<>> => llm' = "done" /\ tts' = "done"
    BY <1>4, <2>2 DEF LeaveGroup, BothStopped, Stopped, Cancellations
  <2> QED BY <1>4, <2>1, <2>3 DEF LeaveGroup, Drained, Cancellations
<1>5. CASE ReadItem
  <2>1. Cancellations'
    BY <1>5 DEF ReadItem, Cancellations, TaskStates, Stopped
  <2>2. CASE UNCHANGED <<texts, cut, buffered, sentences>>
    BY <1>5, <2>1, <2>2 DEF ReadItem, Drained, Queue
  <2>3. ASSUME NEW d \in Deltas, EmitText(d) PROVE Queue'
    <3>1. d.ready \in Nat /\ cut \in Nat /\ texts \in Nat
      BY BoundsAssumption DEF Deltas, TypeOK
    <3> DEFINE ready == Cut(cut, d.ready, texts + 1)
    <3>7. texts + 1 \in Nat
      BY <3>1
    <3>2. NoNones(ready) /\ Len(ready) = d.ready
      BY <3>1, <3>7, CutIsSentences
    <3>3. /\ llm = "reading" /\ llm' = "reading" /\ UNCHANGED <<tts, spoken>>
          /\ cut' = cut + d.ready /\ sentences' = sentences \o ready
      BY <1>5, <2>3 DEF ReadItem, EmitText
    <3>4. NoNones(sentences)
      BY <3>3, QueueIsSentences
    <3> HIDE DEF ready
    <3>5. NoNones(sentences \o ready) /\ Len(sentences \o ready) = Len(sentences) + d.ready
      BY <3>2, <3>4, NoNonesConcat
    <3>6. d.ready = cut' - cut /\ cut' \in Nat /\ cut' >= cut
      BY <3>1, <3>3
    <3> QED BY <3>3, <3>5, <3>6, QueueGrows
  <2> QED BY <1>5, <2>1, <2>2, <2>3 DEF ReadItem, Drained
<1>6. CASE FinishReading
  <2>1. Cancellations'
    BY <1>6 DEF FinishReading, Cancellations, TaskStates, Stopped
  <2>2. /\ llm = "reading" /\ llm' = "done" /\ ~buffered' /\ UNCHANGED <<tts, spoken>>
    BY <1>6 DEF FinishReading
  <2>3. ASSUME NEW d \in Deltas, ReleaseHeld(d) PROVE Queue'
    <3>1. /\ d.ready \in Nat /\ d.rest \in BOOLEAN
          /\ cut \in Nat /\ texts \in Nat
      BY BoundsAssumption DEF Deltas, TypeOK
    <3> DEFINE ready == Cut(cut, d.ready, texts + 1)
               tail == TailOf(cut + d.ready, texts + 1, d.rest)
               n == IF d.rest THEN 1 ELSE 0
    <3>9. texts + 1 \in Nat /\ cut + d.ready \in Nat
      BY <3>1
    <3>2. NoNones(ready) /\ Len(ready) = d.ready
      BY <3>1, <3>9, CutIsSentences
    <3>3. NoNones(tail) /\ Len(tail) = n
      BY <3>1, <3>9, TailIsSentences
    <3>4. /\ cut' = cut + d.ready + n /\ n \in Nat
          /\ sentences' = ((sentences \o ready) \o tail) \o EndMark
      BY <2>3, <3>1 DEF ReleaseHeld
    <3> HIDE DEF ready, tail, n
    <3>5. NoNones(sentences \o ready) /\ Len(sentences \o ready) = Len(sentences) + d.ready
      BY <2>2, <3>2, QueueIsSentences, NoNonesConcat
    <3>6. /\ NoNones((sentences \o ready) \o tail)
          /\ Len((sentences \o ready) \o tail) = Len(sentences) + d.ready + n
      BY <3>3, <3>5, NoNonesConcat
    <3>7. /\ Len(sentences) + d.ready + n = Len(sentences) + (cut' - cut)
          /\ cut' \in Nat /\ cut' >= cut
      <4>1. Len(sentences) \in Nat
        BY DEF TypeOK
      <4> QED BY <3>1, <3>4, <4>1, SMTT(60)
    <3> QED BY <2>2, <3>4, <3>6, <3>7, QueueGrows
  <2>4. CASE ReleaseNothing
    <3> DEFINE tail == TailOf(cut, texts, buffered)
               n == IF buffered THEN 1 ELSE 0
    <3>1. cut \in Nat /\ texts \in Nat /\ buffered \in BOOLEAN
      BY DEF TypeOK
    <3>2. NoNones(tail) /\ Len(tail) = n /\ n \in Nat
      BY <3>1, TailIsSentences
    <3>3. cut' = cut + n /\ sentences' = (sentences \o tail) \o EndMark
      BY <2>4, <3>1 DEF ReleaseNothing
    <3> HIDE DEF tail, n
    <3>4. NoNones(sentences \o tail) /\ Len(sentences \o tail) = Len(sentences) + n
      BY <2>2, <3>2, QueueIsSentences, NoNonesConcat
    <3>5. n = cut' - cut /\ cut' \in Nat /\ cut' >= cut
      BY <3>1, <3>2, <3>3
    <3>6. Len(sentences \o tail) = Len(sentences) + (cut' - cut)
      BY <3>4, <3>5
    <3> DEFINE more == sentences \o tail
    <3>7. NoNones(more) /\ Len(more) = Len(sentences) + (cut' - cut)
      BY <3>4, <3>6
    <3>8. sentences' = more \o EndMark
      BY <3>3
    <3> HIDE DEF more
    <3>9. Queue'
      BY <2>2, <3>5, <3>7, <3>8, QueueGrows
    <3> QED BY <2>1, <3>9 DEF Drained
  <2> QED BY <1>6, <2>1, <2>3, <2>4 DEF FinishReading, Drained
<1>7. CASE ReadFails \/ ReadCancelled \/ SpeakFails \/ SpeakCancelled
  <2>1. /\ prod = "group" /\ prod' = "group"
        /\ UNCHANGED <<cancelled, aborting, buffered, spoken, cut, sentences>>
        /\ errors # <<>> => errors' # <<>>
        /\ llm' = "cancelled" => llm = "cancelled" \/ aborting
        /\ tts' = "cancelled" => tts = "cancelled" \/ aborting
        /\ llm' = "done" <=> llm = "done"
        /\ tts' = "done" <=> tts = "done"
    BY <1>7, SMTT(60) DEF ReadFails, ReadCancelled, SpeakFails, SpeakCancelled, TaskStates,
                TypeOK, Stopped
  <2> QED BY <2>1 DEF Drained, Cancellations, Queue
<1>8. CASE TakeSentence
  <2>1. /\ prod = "group" /\ prod' = "group" /\ tts = "waiting"
        /\ UNCHANGED <<cancelled, aborting, errors, llm, buffered, cut>>
        /\ sentences \in Seq(Sentence) /\ sentences # <<>>
        /\ sentences' = Tail(sentences)
    BY <1>8 DEF TakeSentence, TaskStates, TypeOK, Stopped
  <2>2. Cancellations'
    BY <1>8, <2>1 DEF TakeSentence, Cancellations
  <2>3. /\ Len(sentences) \in Nat /\ Len(sentences) >= 1
        /\ DOMAIN sentences = 1..Len(sentences)
        /\ Head(sentences) = sentences[1]
        /\ Len(sentences') = Len(sentences) - 1
        /\ DOMAIN sentences' = 1..(Len(sentences) - 1)
        /\ \A i \in DOMAIN sentences' : sentences'[i] = sentences[i + 1]
    BY <2>1
  <2>4. /\ cut \in Nat /\ spoken \in Nat /\ spoken <= cut
        /\ Len(sentences) = cut - spoken + (IF llm = "done" THEN 1 ELSE 0)
        /\ \A i \in DOMAIN sentences : sentences[i] = None <=> i > cut - spoken
        /\ llm = "done" => ~buffered
    BY <2>1 DEF Queue, TypeOK
  <2>5. CASE Head(sentences) = None
    <3>1. /\ tts' = "done" /\ spoken' = spoken
      BY <1>8, <2>5 DEF TakeSentence
    <3>2. cut = spoken /\ llm = "done" /\ Len(sentences) = 1
      BY <2>3, <2>4, <2>5
    <3> QED BY <2>1, <2>2, <2>3, <2>4, <3>1, <3>2 DEF Drained, Queue
  <2>6. CASE Head(sentences) # None
    <3>1. /\ tts' = "speaking" /\ spoken' = spoken + 1
      BY <1>8, <2>6 DEF TakeSentence
    <3>2. cut - spoken >= 1
      BY <2>3, <2>4, <2>6
    <3>3. \A i \in DOMAIN sentences' : sentences'[i] = None <=> i > cut' - spoken'
      BY <2>1, <2>3, <2>4, <3>1
    <3> QED BY <2>1, <2>2, <2>3, <2>4, <3>1, <3>2, <3>3 DEF Drained, Queue
  <2> QED BY <2>5, <2>6
<1>9. CASE EndSentence
  BY <1>9 DEF EndSentence, Drained, Cancellations, Queue, TaskStates, Stopped
<1> QED
  BY <1>1, <1>2, <1>3, <1>4, <1>5, <1>6, <1>7, <1>8, <1>9
  DEF Next, Consumer, Produce, ReadLlm, Speak, Over

-----------------------------------------------------------------------------
(* The texts that were sent, and those on their way, count the deltas.     *)

InOrder(s) == \A i, j \in TextsIn(s) : i < j => s[i].no < s[j].no
UpTo(s, n) == \A i \in TextsIn(s) : s[i].no \in 1..n

Counted ==
  /\ UpTo(sent, texts) /\ InOrder(sent)
  /\ UpTo(events, texts) /\ InOrder(events)
  /\ \A i \in TextsIn(sent) : \A j \in TextsIn(events) : sent[i].no < events[j].no

\* Appending an event that is no text, or the next delta, keeps the order.
LEMMA CountOneMore ==
  ASSUME NEW s \in Seq(Events), NEW n \in Nat, UpTo(s, n), InOrder(s),
         NEW m \in Nat, m >= n, NEW e \in Events,
         e.type = "text" => e.no \in n + 1..m
  PROVE  UpTo(Append(s, e), m) /\ InOrder(Append(s, e))
<1> DEFINE t == Append(s, e)
<1>1. /\ Len(s) \in Nat /\ DOMAIN s = 1..Len(s) /\ DOMAIN t = 1..(Len(s) + 1)
      /\ \A i \in 1..Len(s) : t[i] = s[i]
      /\ t[Len(s) + 1] = e
  OBVIOUS
<1> HIDE DEF t
<1>2. ASSUME NEW i \in TextsIn(t)
      PROVE  \/ i \in TextsIn(s) /\ t[i].no = s[i].no /\ t[i].no \in 1..n
             \/ i = Len(s) + 1 /\ t[i].no \in n + 1..m
  <2>1. i \in 1..(Len(s) + 1) /\ t[i].type = "text"
    BY <1>1 DEF TextsIn
  <2>2. CASE i \in 1..Len(s)
    <3>1. t[i] = s[i] /\ i \in TextsIn(s)
      BY <1>1, <2>1, <2>2 DEF TextsIn
    <3> QED BY <3>1 DEF UpTo
  <2>3. CASE i = Len(s) + 1
    BY <1>1, <2>1, <2>3
  <2> QED BY <1>1, <2>1, <2>2, <2>3
<1>3. UpTo(t, m)
  BY <1>2 DEF UpTo
<1>4. InOrder(t)
  <2> SUFFICES ASSUME NEW i \in TextsIn(t), NEW j \in TextsIn(t), i < j
               PROVE  t[i].no < t[j].no
    BY DEF InOrder
  <2>1. i \in 1..(Len(s) + 1) /\ j \in 1..(Len(s) + 1)
    BY <1>1 DEF TextsIn
  <2>2. i # Len(s) + 1
    BY <1>1, <2>1
  <2>3. i \in TextsIn(s) /\ t[i].no = s[i].no /\ t[i].no \in 1..n
    BY <1>2, <2>2
  <2>4. CASE j \in TextsIn(s) /\ t[j].no = s[j].no
    BY <2>3, <2>4 DEF InOrder
  <2>5. CASE t[j].no \in n + 1..m
    BY <2>3, <2>5
  <2> QED BY <1>2, <2>4, <2>5
<1> QED BY <1>3, <1>4 DEF t

\* The same for events on their way, after those that were sent.
LEMMA CountOnTheWay ==
  ASSUME TypeOK, Counted, UNCHANGED sent, texts' \in Nat, texts' >= texts,
         NEW e \in Events, e.type = "text" => e.no \in texts + 1..texts',
         events' = Append(events, e)
  PROVE  Counted'
<1>1. /\ texts \in Nat /\ events \in Seq(Events)
      /\ UpTo(events, texts) /\ InOrder(events) /\ UpTo(sent, texts) /\ InOrder(sent)
  BY DEF TypeOK, Counted
<1>2. UpTo(events', texts') /\ InOrder(events')
  BY <1>1, CountOneMore
<1>3. UpTo(sent', texts') /\ InOrder(sent')
  BY <1>1 DEF UpTo, InOrder, TextsIn
<1>4. ASSUME NEW i \in TextsIn(sent'), NEW j \in TextsIn(events')
      PROVE  sent'[i].no < events'[j].no
  <2>1. /\ Len(events) \in Nat /\ DOMAIN events = 1..Len(events)
        /\ DOMAIN events' = 1..(Len(events) + 1)
        /\ \A k \in 1..Len(events) : events'[k] = events[k]
        /\ events'[Len(events) + 1] = e
    BY <1>1
  <2>2. i \in TextsIn(sent) /\ sent'[i].no = sent[i].no /\ sent[i].no \in 1..texts
    BY <1>1 DEF TextsIn, UpTo
  <2>3. j \in 1..(Len(events) + 1) /\ events'[j].type = "text"
    BY <2>1 DEF TextsIn
  <2>4. CASE j \in 1..Len(events)
    <3>1. j \in TextsIn(events) /\ events'[j] = events[j]
      BY <2>1, <2>3, <2>4 DEF TextsIn
    <3> QED BY <2>2, <3>1 DEF Counted
  <2>5. CASE j = Len(events) + 1
    BY <1>1, <2>1, <2>2, <2>3, <2>5
  <2> QED BY <2>1, <2>3, <2>4, <2>5
<1> QED BY <1>2, <1>3, <1>4 DEF Counted

\* The event at the head of the queue is sent, or dropped.
LEMMA CountPassedOn ==
  ASSUME TypeOK, Counted, events # <<>>, events' = Tail(events), UNCHANGED texts,
         \/ UNCHANGED sent
         \/ sent' = Append(sent, Head(events))
         \/ sent' = Append(sent, DoneMark)
  PROVE  Counted'
<1>1. /\ events \in Seq(Events) /\ sent \in Seq(Events) /\ texts \in Nat
      /\ Head(events) \in Events /\ DoneMark \in Events /\ DoneMark.type # "text"
  BY EventTypesOK DEF TypeOK, DoneMark, Event
<1>2. /\ Len(events) \in Nat /\ Len(events) >= 1
      /\ Head(events) = events[1] /\ DOMAIN events = 1..Len(events)
      /\ DOMAIN events' = 1..(Len(events) - 1)
      /\ \A i \in DOMAIN events' : events'[i] = events[i + 1]
  BY <1>1
<1>3. /\ UpTo(sent, texts) /\ InOrder(sent) /\ UpTo(events, texts) /\ InOrder(events)
      /\ \A i \in TextsIn(sent) : \A j \in TextsIn(events) : sent[i].no < events[j].no
  BY DEF Counted
<1>4. \A i \in TextsIn(events') :
        i + 1 \in TextsIn(events) /\ events'[i] = events[i + 1] /\ i \in Nat
  BY <1>2 DEF TextsIn
<1>5. UpTo(events', texts')
  BY <1>3, <1>4 DEF UpTo
<1>6. InOrder(events')
  <2> SUFFICES ASSUME NEW i \in TextsIn(events'), NEW j \in TextsIn(events'), i < j
               PROVE  events'[i].no < events'[j].no
    BY DEF InOrder
  <2>1. /\ i + 1 \in TextsIn(events) /\ events'[i] = events[i + 1]
        /\ j + 1 \in TextsIn(events) /\ events'[j] = events[j + 1]
        /\ i \in Nat /\ j \in Nat
    BY <1>4
  <2>2. i + 1 < j + 1
    BY <2>1
  <2> QED BY <1>3, <2>1, <2>2 DEF InOrder
<1>7. CASE UNCHANGED sent
  BY <1>3, <1>4, <1>5, <1>6, <1>7 DEF Counted
<1>8. ASSUME NEW e \in Events, sent' = Append(sent, e),
             e.type = "text" => e = events[1]
      PROVE  Counted'
  <2>1. /\ Len(sent) \in Nat /\ DOMAIN sent = 1..Len(sent)
        /\ DOMAIN sent' = 1..(Len(sent) + 1)
        /\ \A i \in 1..Len(sent) : sent'[i] = sent[i]
        /\ sent'[Len(sent) + 1] = e
    BY <1>1, <1>8
  <2>2. ASSUME NEW i \in TextsIn(sent')
        PROVE  \/ i \in TextsIn(sent) /\ sent'[i].no = sent[i].no /\ i <= Len(sent)
               \/ /\ i = Len(sent) + 1 /\ sent'[i].no = events[1].no
                  /\ 1 \in TextsIn(events)
    <3>1. i \in 1..(Len(sent) + 1) /\ sent'[i].type = "text"
      BY <2>1 DEF TextsIn
    <3>2. CASE i \in 1..Len(sent)
      <4>1. sent'[i] = sent[i] /\ i \in DOMAIN sent
        BY <2>1, <3>2
      <4> QED BY <3>1, <3>2, <4>1 DEF TextsIn
    <3>3. CASE i = Len(sent) + 1
      <4>1. e = events[1] /\ e.type = "text" /\ sent'[i] = e
        BY <1>8, <2>1, <3>1, <3>3
      <4> QED BY <1>2, <3>3, <4>1, SMTT(60) DEF TextsIn
    <3> QED BY <2>1, <3>1, <3>2, <3>3
  <2>3. UpTo(sent', texts')
    BY <1>3, <2>2 DEF UpTo
  <2>4. \A i \in TextsIn(sent') : \A j \in TextsIn(events') : sent'[i].no < events'[j].no
    <3> SUFFICES ASSUME NEW i \in TextsIn(sent'), NEW j \in TextsIn(events')
                 PROVE  sent'[i].no < events'[j].no
      OBVIOUS
    <3>1. j + 1 \in TextsIn(events) /\ events'[j] = events[j + 1] /\ 1 < j + 1
      BY <1>2, <1>4 DEF TextsIn
    <3> QED BY <1>3, <2>2, <3>1 DEF InOrder
  <2>5. InOrder(sent')
    <3> SUFFICES ASSUME NEW i \in TextsIn(sent'), NEW j \in TextsIn(sent'), i < j
                 PROVE  sent'[i].no < sent'[j].no
      BY DEF InOrder
    <3>1. i \in 1..(Len(sent) + 1) /\ j \in 1..(Len(sent) + 1)
      BY <2>1 DEF TextsIn
    <3>2. i \in TextsIn(sent) /\ sent'[i].no = sent[i].no
      BY <2>1, <2>2, <3>1
    <3> QED BY <1>3, <2>2, <3>2 DEF InOrder
  <2> QED BY <1>5, <1>6, <2>3, <2>4, <2>5 DEF Counted
<1>9. CASE sent' = Append(sent, Head(events))
  BY <1>1, <1>2, <1>8, <1>9
<1>10. CASE sent' = Append(sent, DoneMark)
  BY <1>1, <1>8, <1>10
<1> QED BY <1>7, <1>9, <1>10

\* Where the texts in the queue stay as they are, so does their order.
LEMMA CountUnchanged ==
  ASSUME Counted, UNCHANGED <<sent, texts>>, TextsIn(events') = TextsIn(events),
         \A i \in TextsIn(events) : events'[i] = events[i]
  PROVE  Counted'
<1>1. UpTo(sent', texts') /\ InOrder(sent')
  BY DEF Counted, UpTo, InOrder, TextsIn
<1>2. UpTo(events', texts') /\ InOrder(events')
  BY DEF Counted, UpTo, InOrder
<1>3. \A i \in TextsIn(sent') : \A j \in TextsIn(events') : sent'[i].no < events'[j].no
  BY DEF Counted, TextsIn
<1> QED BY <1>1, <1>2, <1>3 DEF Counted

\* Every step keeps the deltas counted.
LEMMA CountedStep ==
  ASSUME Control, Counted, [Next]_vars
  PROVE  Counted'
<1>0. TypeOK /\ TypeOK' /\ TaskStates /\ ConsumerStates /\ texts \in Nat
  BY StepType DEF Control, TypeOK
<1> USE <1>0 DEF replyVars, voiceVars
<1>1. CASE OpenRequest \/ CreateProducer \/ RecordSuccess \/ RecordFailure \/ Close
             \/ Disconnect \/ EnterGroup \/ NeverStarted \/ AbortGroup \/ ReadFails
             \/ ReadCancelled \/ TakeSentence \/ SpeakFails \/ SpeakCancelled
             \/ UNCHANGED vars
  <2>1. UNCHANGED <<sent, texts, events>>
    BY <1>1 DEF OpenRequest, CreateProducer, RecordSuccess, RecordFailure, Close,
       Disconnect, EnterGroup, NeverStarted, AbortGroup, ReadFails, ReadCancelled,
       TakeSentence, SpeakFails, SpeakCancelled, vars
  <2> QED BY <2>1, CountUnchanged DEF TextsIn
<1>2. CASE Transcribe
  <2>1. /\ UNCHANGED <<texts, events>> /\ events = <<>>
        /\ UNCHANGED sent \/ sent' = Append(sent, Transcript)
    BY <1>2 DEF Transcribe, ConsumerStates, TaskStates
  <2>2. CASE UNCHANGED sent
    BY <2>1, <2>2, CountUnchanged DEF TextsIn
  <2>3. CASE sent' = Append(sent, Transcript)
    <3>1. sent \in Seq(Events) /\ UpTo(sent, texts) /\ InOrder(sent)
      BY DEF TypeOK, Counted
    <3>2. Transcript \in Events /\ Transcript.type # "text"
      BY EventTypesOK DEF Transcript, Event
    <3>3. UpTo(sent', texts') /\ InOrder(sent')
      BY <2>1, <2>3, <3>1, <3>2, CountOneMore
    <3>4. TextsIn(events') = {}
      BY <2>1 DEF TextsIn
    <3> QED BY <3>3, <3>4 DEF Counted, UpTo, InOrder
  <2> QED BY <2>1, <2>2, <2>3
<1>3. CASE Consume
  <2>1. /\ events # <<>> /\ events' = Tail(events) /\ UNCHANGED texts
        /\ \/ UNCHANGED sent
           \/ sent' = Append(sent, Head(events))
           \/ sent' = Append(sent, DoneMark)
    BY <1>3 DEF Consume
  <2> QED BY <2>1, CountPassedOn
<1>4. CASE LeaveGroup
  <2>1. UNCHANGED <<sent, texts>> /\ events \in Seq(Events)
    BY <1>4 DEF LeaveGroup, TypeOK
  <2>2. CASE events' = events \o <<Error(Unwrap(errors)), Done>>
    <3>1. Error(Unwrap(errors)).type # "text" /\ Done.type # "text"
      BY DEF Error, Done, Event
    <3>2. /\ Len(events) \in Nat /\ DOMAIN events = 1..Len(events)
          /\ DOMAIN events' = 1..(Len(events) + 2)
          /\ \A i \in 1..Len(events) : events'[i] = events[i]
          /\ events'[Len(events) + 1] = Error(Unwrap(errors))
          /\ events'[Len(events) + 2] = Done
      BY <2>1, <2>2
    <3>3. TextsIn(events') = TextsIn(events)
      BY <3>1, <3>2 DEF TextsIn
    <3> QED BY <2>1, <3>2, <3>3, CountUnchanged DEF TextsIn
  <2>3. CASE events' = Append(events, Done)
    <3>1. Done.type # "text"
      BY DEF Done, Event
    <3>2. /\ Len(events) \in Nat /\ DOMAIN events = 1..Len(events)
          /\ DOMAIN events' = 1..(Len(events) + 1)
          /\ \A i \in 1..Len(events) : events'[i] = events[i]
          /\ events'[Len(events) + 1] = Done
      BY <2>1, <2>3
    <3>3. TextsIn(events') = TextsIn(events)
      BY <3>1, <3>2 DEF TextsIn
    <3> QED BY <2>1, <3>2, <3>3, CountUnchanged DEF TextsIn
  <2>4. CASE UNCHANGED events
    BY <2>1, <2>4, CountUnchanged DEF TextsIn
  <2> QED BY <1>4, <2>2, <2>3, <2>4 DEF LeaveGroup
<1>5. ASSUME texts' = texts + 1, events' = Append(events, Text(texts + 1)), UNCHANGED sent
      PROVE  Counted'
  <2>1. Text(texts + 1) \in Events /\ Text(texts + 1).no = texts + 1 /\ texts' >= texts
    BY <1>5, EventTypesOK DEF Text, Event
  <2>2. texts' \in Nat
    BY <1>5
  <2> QED BY <1>5, <2>1, <2>2, CountOnTheWay
<1>6. ASSUME UNCHANGED texts, NEW e \in Events, e.type # "text",
             events' = Append(events, e), UNCHANGED sent
      PROVE  Counted'
  BY <1>6, CountOnTheWay
<1>7. CASE ReadItem
  <2>1. UNCHANGED sent
    BY <1>7 DEF ReadItem
  <2>2. CASE \E d \in Deltas : EmitText(d)
    BY <1>5, <2>1, <2>2 DEF EmitText
  <2>3. CASE UNCHANGED texts /\ events' = Append(events, Reasoning)
    <3>1. Reasoning \in Events /\ Reasoning.type # "text"
      BY EventTypesOK DEF Reasoning, Event
    <3> QED BY <1>6, <2>1, <2>3, <3>1
  <2>4. CASE UNCHANGED <<texts, events>>
    BY <2>1, <2>4, CountUnchanged DEF TextsIn
  <2> QED BY <1>7, <2>2, <2>3, <2>4 DEF ReadItem
<1>8. CASE FinishReading
  <2>1. UNCHANGED sent
    BY <1>8 DEF FinishReading
  <2>2. CASE \E d \in Deltas : ReleaseHeld(d)
    BY <1>5, <2>1, <2>2 DEF ReleaseHeld
  <2>3. CASE ReleaseNothing
    BY <2>1, <2>3, CountUnchanged DEF ReleaseNothing, TextsIn
  <2> QED BY <1>8, <2>2, <2>3 DEF FinishReading
<1>9. CASE EndSentence
  <2>1. UNCHANGED <<sent, texts>> /\ saying \in Sentence
    BY <1>9 DEF EndSentence, TypeOK
  <2>2. Audio(saying) \in Events /\ Audio(saying).type # "text"
    BY <2>1, EventTypesOK DEF Audio, Event
  <2>3. CASE events' = Append(events, Audio(saying))
    BY <1>6, <2>1, <2>2, <2>3
  <2>4. CASE UNCHANGED events
    BY <2>1, <2>4, CountUnchanged DEF TextsIn
  <2> QED BY <1>9, <2>3, <2>4 DEF EndSentence
<1> QED
  BY <1>1, <1>2, <1>3, <1>4, <1>7, <1>8, <1>9
  DEF Next, Consumer, Produce, ReadLlm, Speak, Over

-----------------------------------------------------------------------------
(* The mark of a complete stream.                                          *)

Marked == DoneMark \in {sent[i] : i \in DOMAIN sent}

\* Once it has been sent, nothing is under way any more.
Completed ==
  Marked =>
    /\ prod = "done" /\ con \in {"finishing", "returned", "crashed", "closed"}
    /\ events = <<>> /\ errors = <<>>
    /\ \A n \in 1..texts : \E i \in DOMAIN sent : sent[i] = Text(n)

Complete == Outcome /\ Order /\ Drained /\ Counted /\ Completed

\* The mark stays what it is ...
LEMMA MarkStays ==
  ASSUME Control, Completed, Marked, [Next]_vars
  PROVE  Completed'
<1>1. /\ prod = "done" /\ con \in {"finishing", "returned", "crashed", "closed"}
      /\ llm \in Stopped /\ tts \in Stopped
      /\ events = <<>> /\ errors = <<>>
      /\ \A n \in 1..texts : \E i \in DOMAIN sent : sent[i] = Text(n)
  BY DEF Completed, Control, TaskStates
<1>2. /\ ~OpenRequest /\ ~Transcribe /\ ~CreateProducer /\ ~Consume
      /\ ~RecordFailure /\ ~Close
  BY <1>1 DEF OpenRequest, Transcribe, CreateProducer, Consume, RecordFailure, Close
<1>3. /\ ~Produce /\ ~ReadLlm /\ ~Speak
  BY <1>1 DEF Produce, EnterGroup, NeverStarted, AbortGroup, LeaveGroup,
     ReadLlm, ReadItem, FinishReading, ReadFails, ReadCancelled, Speak, TakeSentence,
     EndSentence, SpeakFails, SpeakCancelled, Stopped
<1>4. /\ UNCHANGED <<prod, events, errors, texts, sent>>
      /\ con' \in {"finishing", "returned", "crashed", "closed"}
  BY <1>1, <1>2, <1>3 DEF Next, Consumer, RecordSuccess, Disconnect, Over, vars, replyVars
<1> QED BY <1>1, <1>4 DEF Completed

\* ... and is sent only when everything before it has been.
LEMMA MarkIsLast ==
  ASSUME Control, DoneIsLast, Order, Records', ~Marked, [Next]_vars
  PROVE  Completed'
<1> SUFFICES ASSUME Marked' PROVE Completed'
  BY DEF Completed
<1>0. /\ TypeOK /\ LastWords /\ sent \in Seq(Events) /\ events \in Seq(Events)
  BY DEF Control, TypeOK
<1>1. sent' # sent
  BY DEF Marked
<1>2. ASSUME NEW e, sent' = Append(sent, e) PROVE e = DoneMark
  <2>1. /\ Len(sent) \in Nat /\ DOMAIN sent = 1..Len(sent)
        /\ DOMAIN sent' = 1..(Len(sent) + 1)
        /\ \A i \in 1..Len(sent) : sent'[i] = sent[i]
        /\ sent'[Len(sent) + 1] = e
    BY <1>0, <1>2
  <2>2. PICK i \in DOMAIN sent' : sent'[i] = DoneMark
    BY DEF Marked
  <2>3. i \notin 1..Len(sent)
    BY <2>1, <2>2 DEF Marked
  <2> QED BY <2>1, <2>2, <2>3
<1>3. Transcribe \/ Consume
  BY <1>1 DEF Next, Consumer, OpenRequest, CreateProducer, RecordSuccess, RecordFailure,
     Close, Disconnect, Produce, EnterGroup, NeverStarted, AbortGroup, LeaveGroup,
     ReadLlm, ReadItem, FinishReading, ReadFails, ReadCancelled, Speak, TakeSentence,
     EndSentence, SpeakFails, SpeakCancelled, Over, vars
<1>4. ~Transcribe
  BY <1>1, <1>2 DEF Transcribe, Transcript, DoneMark, Event
<1>5. /\ Len(events) \in Nat /\ Len(events) >= 1 /\ Head(events) = events[1]
      /\ DOMAIN events = 1..Len(events) /\ events' = Tail(events)
      /\ con = "streaming"
  BY <1>0, <1>3, <1>4 DEF Consume
<1>6. events[1] # DoneMark
  BY <1>5 DEF DoneIsLast, DoneMark, Event
<1>7. /\ events[1].type = "done" /\ failure = NoError /\ con' = "finishing"
      /\ sent' = Append(sent, DoneMark) /\ UNCHANGED <<prod, errors, texts>>
  BY <1>1, <1>2, <1>3, <1>4, <1>5, <1>6 DEF Consume, replyVars
<1>8. prod' = "done" /\ errors' = <<>>
  <2>1. prod = "done"
    BY <1>0, <1>5, <1>7 DEF LastWords, Ending
  <2>2. con' = "finishing" => errors' = <<>>
    BY DEF Records
  <2> QED BY <1>7, <2>1, <2>2
<1>9. Len(events) = 1
  BY <1>5, <1>7 DEF DoneIsLast
<1>10. events' = <<>>
  BY <1>0, <1>5, <1>9
<1>11. ASSUME NEW n \in 1..texts' PROVE \E i \in DOMAIN sent' : sent'[i] = Text(n)
  <2>1. Made(n)
    BY <1>5, <1>7 DEF Order, OnTheWay
  <2>2. ~\E j \in DOMAIN events : events[j] = Text(n)
    BY <1>5, <1>7, <1>9 DEF Text, Event
  <2>3. PICK i \in DOMAIN sent : sent[i] = Text(n)
    BY <2>1, <2>2 DEF Made
  <2> QED BY <1>0, <1>7, <2>3
<1> QED BY <1>7, <1>8, <1>10, <1>11 DEF Completed

\* With the mark, the reply is complete.
LEMMA MarkIsTrue == Complete => DoneIsComplete
<1> SUFFICES ASSUME Complete, Marked PROVE
      /\ {sent[i].no : i \in TextsIn(sent)} = 1..texts
      /\ \A i, j \in TextsIn(sent) : i < j => sent[i].no < sent[j].no
      /\ llm = "done" /\ tts = "done" /\ spoken = cut /\ ~buffered
      /\ sentences = <<>> /\ events = <<>> /\ errors = <<>>
  BY DEF DoneIsComplete, Marked
<1>1. /\ prod = "done" /\ events = <<>> /\ errors = <<>>
      /\ \A n \in 1..texts : \E i \in DOMAIN sent : sent[i] = Text(n)
  BY DEF Complete, Completed
<1>2. llm = "done" /\ tts = "done"
  BY <1>1 DEF Complete, Drained, Cancellations
<1>3. spoken = cut /\ ~buffered /\ Len(sentences) = 0
  <2>1. cut \in Nat /\ spoken \in Nat
    BY DEF Complete, Outcome, Control, TypeOK
  <2> QED BY <1>2, <2>1 DEF Complete, Drained, Queue
<1>4. sentences = <<>>
  BY <1>3 DEF Complete, Outcome, Control, TypeOK
<1>5. \A n \in 1..texts : \E i \in TextsIn(sent) : sent[i].no = n
  <2> SUFFICES ASSUME NEW n \in 1..texts PROVE \E i \in TextsIn(sent) : sent[i].no = n
    OBVIOUS
  <2>1. PICK i \in DOMAIN sent : sent[i] = Text(n)
    BY <1>1
  <2>2. sent[i].type = "text" /\ sent[i].no = n
    BY <2>1 DEF Text, Event
  <2> QED BY <2>2 DEF TextsIn
<1>6. \A i \in TextsIn(sent) : sent[i].no \in 1..texts
  BY DEF Complete, Counted, UpTo
<1>7. \A i, j \in TextsIn(sent) : i < j => sent[i].no < sent[j].no
  BY DEF Complete, Counted, InOrder
<1> QED BY <1>1, <1>2, <1>3, <1>4, <1>5, <1>6, <1>7

\* All of it holds initially.
LEMMA CompleteInit == Init => Complete
<1> SUFFICES ASSUME Init PROVE Complete
  OBVIOUS
<1>1. Drained
  BY DEF Init, Drained, Cancellations, Queue
<1>2. Counted
  BY DEF Init, Counted, UpTo, InOrder, TextsIn
<1>3. Completed
  BY DEF Init, Completed, Marked
<1> QED BY <1>1, <1>2, <1>3, OutcomeInit, OrderInit DEF Complete

\* Every step keeps it.
LEMMA CompleteStep == Complete /\ [Next]_vars => Complete'
<1> SUFFICES ASSUME Complete, [Next]_vars PROVE Complete'
  OBVIOUS
<1>1. /\ Outcome /\ Control /\ Errors /\ DoneIsLast /\ Records
      /\ Order /\ Drained /\ Counted /\ Completed
  BY DEF Complete, Outcome
<1>2. Outcome' /\ Order' /\ Drained' /\ Counted'
  BY <1>1, OutcomeStep, OrderStep, DrainedStep, CountedStep
<1>3. Completed'
  BY <1>1, <1>2, MarkStays, MarkIsLast DEF Outcome
<1> QED BY <1>2, <1>3 DEF Complete

\* A stream that ends in [DONE] has lost nothing.
THEOREM DoneIsCompleteHolds == Spec => []DoneIsComplete
BY CompleteInit, CompleteStep, MarkIsTrue, PTL DEF Spec

-----------------------------------------------------------------------------
(* The reply in a sequence of events.                                      *)

\* A set of numbers that is not empty has a least one.
LEMMA LeastNumber ==
  ASSUME NEW S \in SUBSET Nat, S # {}
  PROVE  \E x \in S : \A y \in S : x <= y
<1> DEFINE Below == {0..n : n \in S}
<1>1. Below \subseteq FiniteSubsetsOf(Nat) /\ Below # {}
  <2>1. ASSUME NEW n \in S PROVE 0..n \in SUBSET Nat /\ IsFiniteSet(0..n)
    BY FS_Interval
  <2> QED BY <2>1 DEF FiniteSubsetsOf
<1>2. PICK I \in Below : \A J \in Below : ~(<<J, I>> \in StrictSubsetOrdering(Nat))
  BY <1>1, WFMin, FS_StrictSubsetOrderingWellFounded
<1>3. PICK x \in S : I = 0..x
  OBVIOUS
<1>4. ASSUME NEW y \in S, y < x PROVE FALSE
  <2>1. 0..y \in Below /\ 0..y \subseteq 0..x /\ x \in 0..x /\ x \notin 0..y
    BY <1>4
  <2>2. <<0..y, I>> \in StrictSubsetOrdering(Nat)
    BY <1>3, <2>1 DEF StrictSubsetOrdering
  <2> QED BY <1>2, <2>1, <2>2
<1> QED BY <1>4

\* Induction up to n, over a set.
LEMMA UpTheNumbers ==
  ASSUME NEW n \in Nat, NEW S, 0 \in S, \A i \in 1..n : i - 1 \in S => i \in S
  PROVE  0..n \subseteq S
<1> DEFINE Out == {i \in 0..n : i \notin S}
<1> SUFFICES ASSUME Out # {} PROVE FALSE
  OBVIOUS
<1>1. PICK m \in Out : \A k \in Out : m <= k
  <2>1. Out \in SUBSET Nat
    OBVIOUS
  <2> HIDE DEF Out
  <2> QED BY <2>1, LeastNumber
<1>2. m \in 1..n /\ m - 1 \in 0..n /\ ~(m <= m - 1)
  BY <1>1
<1>3. m - 1 \in S
  BY <1>1, <1>2
<1> QED BY <1>1, <1>2, <1>3

\* f is the reply in the first n events of s, for each n.
Replies(f, s, n) ==
  f = [i \in 0..n |-> IF i = 0 THEN <<>>
                      ELSE IF s[i].type \in ReplyEvents THEN Append(f[i - 1], s[i])
                      ELSE f[i - 1]]

\* Each sequence of events has its replies.
LEMMA RepliesExist ==
  ASSUME NEW s \in Seq(Events), NEW n \in 0..Len(s)
  PROVE  \E f : Replies(f, s, n)
<1>0. Len(s) \in Nat
  OBVIOUS
<1> DEFINE With == {m \in 0..Len(s) : \E f : Replies(f, s, m)}
<1>1. 0 \in With
  <2>1. Replies([i \in 0..0 |-> <<>>], s, 0)
    BY DEF Replies
  <2> QED BY <1>0, <2>1
<1>2. ASSUME NEW m \in 1..Len(s), m - 1 \in With PROVE m \in With
  <2>1. m \in Nat /\ m > 0
    BY <1>0
  <2>2. PICK f : Replies(f, s, m - 1)
    BY <1>2
  <2> DEFINE g == [i \in 0..m |->
                    IF i < m THEN f[i]
                    ELSE IF s[m].type \in ReplyEvents THEN Append(f[m - 1], s[m])
                    ELSE f[m - 1]]
             h == [i \in 0..m |->
                    IF i = 0 THEN <<>>
                    ELSE IF s[i].type \in ReplyEvents THEN Append(g[i - 1], s[i])
                    ELSE g[i - 1]]
  <2>3. ASSUME NEW i \in 0..m PROVE g[i] = h[i]
    <3>1. CASE i = m
      <4>1. g[m - 1] = f[m - 1] /\ m # 0 /\ m - 1 \in 0..m
        BY <2>1
      <4>2. /\ g[m] = IF s[m].type \in ReplyEvents THEN Append(f[m - 1], s[m])
                       ELSE f[m - 1]
            /\ h[m] = IF s[m].type \in ReplyEvents THEN Append(g[m - 1], s[m])
                       ELSE g[m - 1]
        BY <2>1
      <4> QED BY <3>1, <4>1, <4>2
    <3>2. CASE i = 0
      <4>1. f[0] = <<>>
        BY <2>1, <2>2 DEF Replies
      <4> QED BY <2>1, <3>2, <4>1
    <3>3. CASE i # 0 /\ i < m
      <4>1. i \in 0..(m - 1) /\ i - 1 \in 0..m /\ i - 1 < m
        BY <2>1, <3>3
      <4>2. f[i] = IF s[i].type \in ReplyEvents THEN Append(f[i - 1], s[i])
                   ELSE f[i - 1]
        BY <2>2, <3>3, <4>1 DEF Replies
      <4>3. g[i - 1] = f[i - 1] /\ g[i] = f[i]
        BY <3>3, <4>1
      <4>4. h[i] = IF s[i].type \in ReplyEvents THEN Append(g[i - 1], s[i])
                   ELSE g[i - 1]
        BY <3>3
      <4> QED BY <4>2, <4>3, <4>4
    <3> QED BY <2>1, <3>1, <3>2, <3>3
  <2>4. g = h
    <3>1. g = [i \in 0..m |-> g[i]] /\ h = [i \in 0..m |-> h[i]]
      OBVIOUS
    <3> HIDE DEF g, h
    <3> QED BY <2>3, <3>1
  <2>5. Replies(g, s, m)
    BY <2>4 DEF Replies
  <2> QED BY <2>5
<1>3. 0..Len(s) \subseteq With
  <2> HIDE DEF With
  <2> QED BY <1>0, <1>1, <1>2, UpTheNumbers
<1> QED BY <1>3

\* The reply grows with each event that belongs to it, and with no other.
LEMMA ReplyInSteps ==
  ASSUME NEW s \in Seq(Events)
  PROVE  /\ ReplyIn(s)[0] = <<>>
         /\ \A i \in 1..Len(s) :
              ReplyIn(s)[i] = IF s[i].type \in ReplyEvents
                              THEN Append(ReplyIn(s)[i - 1], s[i])
                              ELSE ReplyIn(s)[i - 1]
<1>1. Len(s) \in Nat
  OBVIOUS
<1>2. ReplyIn(s) = CHOOSE f : Replies(f, s, Len(s))
  BY DEF ReplyIn, Replies
<1>3. Replies(ReplyIn(s), s, Len(s))
  BY <1>1, <1>2, RepliesExist
<1> DEFINE r == ReplyIn(s)
<1> HIDE DEF r
<1> DEFINE Step(i) == IF i = 0 THEN <<>>
                     ELSE IF s[i].type \in ReplyEvents THEN Append(r[i - 1], s[i])
                     ELSE r[i - 1]
<1>4. \A i \in 0..Len(s) : r[i] = Step(i)
  BY <1>3 DEF Replies, r
<1>5. r[0] = <<>>
  BY <1>1, <1>4
<1>6. ASSUME NEW i \in 1..Len(s)
      PROVE  r[i] = IF s[i].type \in ReplyEvents THEN Append(r[i - 1], s[i])
                    ELSE r[i - 1]
  <2>1. i \in 0..Len(s) /\ i # 0
    BY <1>1
  <2>2. r[i] = Step(i)
    BY <1>4, <2>1
  <2> QED BY <2>1, <2>2
<1> QED BY <1>5, <1>6 DEF r

\* The reply in a sequence of events is a sequence of events.
LEMMA ReplyInType ==
  ASSUME NEW s \in Seq(Events)
  PROVE  \A i \in 0..Len(s) : ReplyIn(s)[i] \in Seq(Events)
<1>0. Len(s) \in Nat /\ <<>> \in Seq(Events)
  OBVIOUS
<1> DEFINE S == {i \in 0..Len(s) : ReplyIn(s)[i] \in Seq(Events)}
<1>1. 0 \in S
  <2>1. ReplyIn(s)[0] = <<>>
    BY ReplyInSteps
  <2>2. ReplyIn(s)[0] \in Seq(Events) /\ 0 \in 0..Len(s)
    BY <1>0, <2>1
  <2> QED BY <2>2
<1>2. ASSUME NEW i \in 1..Len(s), i - 1 \in S PROVE i \in S
  <2>1. s[i] \in Events /\ i \in 0..Len(s) /\ ReplyIn(s)[i - 1] \in Seq(Events)
    BY <1>2
  <2>2. Append(ReplyIn(s)[i - 1], s[i]) \in Seq(Events)
    BY <2>1, AppendType
  <2>3. ReplyIn(s)[i] \in Seq(Events)
    BY <2>1, <2>2, ReplyInSteps
  <2> QED BY <2>1, <2>3
<1> HIDE DEF S
<1>3. 0..Len(s) \subseteq S
  BY <1>0, <1>1, <1>2, UpTheNumbers
<1> QED BY <1>3 DEF S

LEMMA ReplyType == ASSUME NEW s \in Seq(Events) PROVE Reply(s) \in Seq(Events)
<1>1. Len(s) \in 0..Len(s)
  OBVIOUS
<1> QED BY <1>1, ReplyInType DEF Reply

\* No events make no reply.
LEMMA ReplyEmpty == Reply(<<>>) = <<>>
<1>1. <<>> \in Seq(Events) /\ Len(<<>>) = 0
  OBVIOUS
<1> QED BY <1>1, ReplyInSteps DEF Reply

\* Events that do not belong to it make none either.
LEMMA ReplyOfNone ==
  ASSUME NEW s \in Seq(Events), \A i \in DOMAIN s : s[i].type \notin ReplyEvents
  PROVE  Reply(s) = <<>>
<1>0. Len(s) \in Nat /\ DOMAIN s = 1..Len(s)
  OBVIOUS
<1> DEFINE S == {i \in 0..Len(s) : ReplyIn(s)[i] = <<>>}
<1>1. 0 \in S
  BY <1>0, ReplyInSteps
<1>2. ASSUME NEW i \in 1..Len(s), i - 1 \in S PROVE i \in S
  <2>1. ReplyIn(s)[i] = ReplyIn(s)[i - 1]
    BY <1>0, ReplyInSteps
  <2> QED BY <1>0, <1>2, <2>1
<1> HIDE DEF S
<1>3. 0..Len(s) \subseteq S
  BY <1>0, <1>1, <1>2, UpTheNumbers
<1>4. Len(s) \in 0..Len(s)
  BY <1>0
<1> QED BY <1>3, <1>4 DEF S, Reply

\* The part of one event in the reply.
Part(e) == IF e.type \in ReplyEvents THEN <<e>> ELSE <<>>

\* One more event ...
LEMMA ReplyAppend ==
  ASSUME NEW s \in Seq(Events), NEW e \in Events
  PROVE  Reply(Append(s, e)) = IF e.type \in ReplyEvents THEN Append(Reply(s), e)
                               ELSE Reply(s)
<1> DEFINE t == Append(s, e)
           S == {i \in 0..Len(s) : ReplyIn(t)[i] = ReplyIn(s)[i]}
<1>0. /\ t \in Seq(Events) /\ Len(s) \in Nat /\ Len(t) = Len(s) + 1
      /\ \A i \in 1..Len(s) : t[i] = s[i]
      /\ t[Len(s) + 1] = e
  OBVIOUS
<1> HIDE DEF t
<1>1. 0 \in S
  BY <1>0, ReplyInSteps
<1>2. ASSUME NEW i \in 1..Len(s), i - 1 \in S PROVE i \in S
  <2>1. i \in 1..Len(t) /\ i \in 0..Len(s) /\ t[i] = s[i]
    BY <1>0
  <2>2. /\ ReplyIn(t)[i] = IF t[i].type \in ReplyEvents
                           THEN Append(ReplyIn(t)[i - 1], t[i]) ELSE ReplyIn(t)[i - 1]
        /\ ReplyIn(s)[i] = IF s[i].type \in ReplyEvents
                           THEN Append(ReplyIn(s)[i - 1], s[i]) ELSE ReplyIn(s)[i - 1]
    BY <1>0, <2>1, ReplyInSteps
  <2>3. ReplyIn(t)[i - 1] = ReplyIn(s)[i - 1]
    BY <1>2
  <2> QED BY <2>1, <2>2, <2>3
<1>3. ReplyIn(t)[Len(s)] = Reply(s)
  <2>1. 0..Len(s) \subseteq S
    <3> HIDE DEF S
    <3> QED BY <1>0, <1>1, <1>2, UpTheNumbers
  <2>2. Len(s) \in 0..Len(s)
    BY <1>0
  <2> QED BY <2>1, <2>2 DEF Reply
<1>4. Len(t) \in 1..Len(t) /\ Len(t) - 1 = Len(s) /\ t[Len(t)] = e
  BY <1>0
<1>5. Reply(t) = IF e.type \in ReplyEvents THEN Append(ReplyIn(t)[Len(s)], e)
                 ELSE ReplyIn(t)[Len(s)]
  BY <1>0, <1>4, ReplyInSteps DEF Reply
<1> QED BY <1>3, <1>5 DEF t

\* Three sequences may be put together in either order ...
LEMMA Joined ==
  /\ \A p, q, r \in Seq(Events) : (p \o q) \o r = p \o (q \o r)
  /\ \A p, q, r \in Seq(Sentence) : (p \o q) \o r = p \o (q \o r)
<1>1. ASSUME NEW p \in Seq(Events), NEW q \in Seq(Events), NEW r \in Seq(Events)
      PROVE  (p \o q) \o r = p \o (q \o r)
  BY ConcatAssociative, SMTT(60)
<1>2. ASSUME NEW p \in Seq(Sentence), NEW q \in Seq(Sentence), NEW r \in Seq(Sentence)
      PROVE  (p \o q) \o r = p \o (q \o r)
  BY ConcatAssociative, SMTT(60)
<1> QED BY <1>1, <1>2

\* ... and appending to the second of two sequences appends to both.
LEMMA AppendAfter ==
  \A p, q \in Seq(Events) : \A e \in Events :
    Append(p \o q, e) = p \o Append(q, e)
<1> SUFFICES ASSUME NEW p \in Seq(Events), NEW q \in Seq(Events), NEW e \in Events
             PROVE  Append(p \o q, e) = p \o Append(q, e)
  OBVIOUS
<1>1. <<e>> \in Seq(Events) /\ p \o q \in Seq(Events)
  BY ConcatType
<1>2. Append(p \o q, e) = (p \o q) \o <<e>> /\ Append(q, e) = q \o <<e>>
  BY <1>1, AppendIsConcat
<1> QED BY <1>1, <1>2, Joined

\* ... and one event less.
LEMMA ReplyTail ==
  ASSUME NEW s \in Seq(Events), s # <<>>
  PROVE  Reply(s) = Part(Head(s)) \o Reply(Tail(s))
<1> DEFINE t == Tail(s)
           p == Part(Head(s))
           S == {i \in 0..Len(t) : ReplyIn(s)[i + 1] = p \o ReplyIn(t)[i]}
<1>0. /\ t \in Seq(Events) /\ Len(t) \in Nat /\ Len(s) = Len(t) + 1
      /\ \A i \in 1..Len(t) : t[i] = s[i + 1] /\ t[i] \in Events
      /\ s[1] = Head(s) /\ s[1] \in Events
  OBVIOUS
<1>p. p \in Seq(Events)
  BY <1>0 DEF Part
<1> HIDE DEF t, p
<1>1. 0 \in S
  <2>1. ReplyIn(s)[1] = IF s[1].type \in ReplyEvents THEN Append(<<>>, s[1]) ELSE <<>>
    <3>1. 1 \in 1..Len(s) /\ 1 - 1 = 0
      BY <1>0
    <3>2. /\ ReplyIn(s)[0] = <<>>
          /\ ReplyIn(s)[1] = IF s[1].type \in ReplyEvents
                             THEN Append(ReplyIn(s)[1 - 1], s[1])
                             ELSE ReplyIn(s)[1 - 1]
      BY <3>1, ReplyInSteps, Zenon
    <3> QED BY <3>1, <3>2, Zenon
  <2>2. ReplyIn(s)[1] = p
    BY <1>0, <2>1 DEF p, Part
  <2>3. p \o <<>> = p
    BY <1>p
  <2>4. ReplyIn(t)[0] = <<>>
    BY <1>0, ReplyInSteps
  <2>5. ReplyIn(s)[0 + 1] = p \o ReplyIn(t)[0] /\ 0 \in 0..Len(t)
    <3>1. 0 + 1 = 1 /\ 0 \in 0..Len(t)
      BY <1>0
    <3>2. ReplyIn(s)[0 + 1] = p
      BY <2>2, <3>1
    <3> QED BY <2>3, <2>4, <3>1, <3>2, Zenon
  <2> QED BY <2>5
<1>2. ASSUME NEW i \in 1..Len(t), i - 1 \in S PROVE i \in S
  <2>1. /\ i \in 0..Len(t) /\ i + 1 \in 1..Len(s) /\ (i + 1) - 1 = i
        /\ i - 1 \in 0..Len(t) /\ (i - 1) + 1 = i
    BY <1>0
  <2> DEFINE j == i + 1
  <2>2. /\ ReplyIn(t)[i] = IF t[i].type \in ReplyEvents
                           THEN Append(ReplyIn(t)[i - 1], t[i]) ELSE ReplyIn(t)[i - 1]
        /\ ReplyIn(s)[i + 1] = IF s[i + 1].type \in ReplyEvents
                           THEN Append(ReplyIn(s)[i], s[i + 1]) ELSE ReplyIn(s)[i]
    <3>1. ReplyIn(t)[i] = IF t[i].type \in ReplyEvents
                          THEN Append(ReplyIn(t)[i - 1], t[i]) ELSE ReplyIn(t)[i - 1]
      BY <1>0, ReplyInSteps
    <3>2. j \in 1..Len(s) /\ j - 1 = i
      BY <2>1
    <3> HIDE DEF j
    <3>3. ReplyIn(s)[j] = IF s[j].type \in ReplyEvents
                          THEN Append(ReplyIn(s)[j - 1], s[j]) ELSE ReplyIn(s)[j - 1]
      BY <3>2, ReplyInSteps
    <3> QED BY <3>1, <3>2, <3>3 DEF j
  <2>3. ReplyIn(s)[i] = p \o ReplyIn(t)[i - 1]
    BY <1>2, <2>1
  <2>4. ReplyIn(t)[i - 1] \in Seq(Events) /\ t[i] \in Events /\ t[i] = s[i + 1]
    BY <1>0, <2>1, ReplyInType
  <2>5. Append(p \o ReplyIn(t)[i - 1], t[i]) = p \o Append(ReplyIn(t)[i - 1], t[i])
    BY <1>p, <2>4, AppendAfter, Zenon
  <2> QED BY <2>1, <2>2, <2>3, <2>4, <2>5
<1>3. 0..Len(t) \subseteq S
  <2> HIDE DEF S
  <2> QED BY <1>0, <1>1, <1>2, UpTheNumbers
<1>4. Len(t) \in 0..Len(t)
  BY <1>0
<1> QED BY <1>0, <1>3, <1>4 DEF Reply, t, p

-----------------------------------------------------------------------------
(* What the stream promises of the reply made so far.                      *)

MadeSoFar == Reply(sent) \o Reply(events)

\* Putting an event on the queue makes some more of the reply, or leaves it.
LEMMA MadeByPut ==
  ASSUME NEW s \in Seq(Events), NEW q \in Seq(Events), NEW e \in Events
  PROVE  Reply(s) \o Reply(Append(q, e)) =
           IF e.type \in ReplyEvents THEN Append(Reply(s) \o Reply(q), e)
           ELSE Reply(s) \o Reply(q)
<1>1. Reply(s) \in Seq(Events) /\ Reply(q) \in Seq(Events)
  BY ReplyType
<1>2. Append(Reply(s) \o Reply(q), e) = Reply(s) \o Append(Reply(q), e)
  BY <1>1, AppendAfter, Zenon
<1> QED BY <1>2, ReplyAppend

\* Passing an event on makes nothing, and lets the client hear it.
LEMMA HeardByPassing ==
  ASSUME NEW s \in Seq(Events), NEW q \in Seq(Events), q # <<>>
  PROVE  /\ Reply(Append(s, Head(q))) \o Reply(Tail(q)) = Reply(s) \o Reply(q)
         /\ Len(Reply(Append(s, Head(q)))) =
              Len(Reply(s)) + (IF Head(q).type \in ReplyEvents THEN 1 ELSE 0)
<1>0. Head(q) \in Events /\ Tail(q) \in Seq(Events)
  BY HeadTailProperties
<1> DEFINE e == Head(q)
           r == Reply(s)
           t == Reply(Tail(q))
<1>1. /\ r \in Seq(Events) /\ t \in Seq(Events) /\ e \in Events
      /\ Len(r) \in Nat
  BY <1>0, ReplyType, LenProperties
<1>2. /\ Reply(q) = Part(e) \o t
      /\ Reply(Append(s, e)) = IF e.type \in ReplyEvents THEN Append(r, e) ELSE r
  BY <1>0, ReplyTail, ReplyAppend
<1> HIDE DEF e, r, t
<1>3. Reply(Append(s, e)) = r \o Part(e)
  BY <1>1, <1>2, AppendIsConcat, ConcatEmptySeq DEF Part
<1>4. Part(e) \in Seq(Events)
  BY <1>1 DEF Part
<1>5. Len(Append(r, e)) = Len(r) + 1 /\ Len(r) = Len(r) + 0
  BY <1>1
<1>6. Reply(Append(s, e)) \o t = r \o Reply(q)
  <2>1. (r \o Part(e)) \o t = r \o (Part(e) \o t)
    BY <1>1, <1>4, Joined, Zenon
  <2> QED BY <1>2, <1>3, <2>1, Zenon
<1> QED BY <1>2, <1>5, <1>6 DEF e, r, t

Shown(m, n) == {m[i].no : i \in TextsIn(m)} = 1..n
SpokenTo(m, n) == \A i \in DOMAIN m : m[i].type = "audio" => m[i].no <= n

\* A reply in order with n texts whose last audio is that of sentence k.
Ordered(m, n, k) == Stream!InOrder(m) /\ Shown(m, n) /\ SpokenTo(m, k)

\* It stays so with a thought, with the next text, and with the audio of a
\* later sentence that is cut from the texts.
LEMMA OrderedGrows ==
  ASSUME NEW m \in Seq(Events), NEW n \in Nat, NEW k \in Nat, Ordered(m, n, k),
         NEW e \in Events, NEW n2 \in Nat, NEW k2 \in Nat, k <= k2,
         \/ e.type = "reasoning" /\ n2 = n
         \/ e.type = "text" /\ e.no = n + 1 /\ n2 = n + 1
         \/ /\ e.type = "audio" /\ k < e.no /\ e.no <= k2
            /\ e.after \in 1..n /\ n2 = n
  PROVE  Ordered(Append(m, e), n2, k2)
<1> DEFINE w == Append(m, e)
           l == Len(m) + 1
<1>0. /\ Len(m) \in Nat /\ l \in Nat /\ DOMAIN m = 1..Len(m) /\ DOMAIN w = 1..l
      /\ \A i \in 1..Len(m) : w[i] = m[i] /\ m[i] \in Events
      /\ w[l] = e
  OBVIOUS
<1>1. Len(m) = l - 1 /\ l \notin 1..Len(m) /\ \A i \in 1..l : i = l \/ i \in 1..Len(m)
  BY <1>0
<1> HIDE DEF w, l
<1>2. /\ Stream!TextsBefore(w, l) = TextsIn(m)
      /\ \A i \in 1..Len(m) : Stream!TextsBefore(w, i) = Stream!TextsBefore(m, i)
                             /\ Stream!TextsBefore(m, i) \subseteq 1..Len(m)
  BY <1>0, <1>1 DEF Stream!TextsBefore, TextsIn
<1>3. {m[i].no : i \in TextsIn(m)} = 1..n /\ TextsIn(m) \subseteq 1..Len(m)
  BY <1>0 DEF Ordered, Shown, TextsIn
<1>4. {w[i].no : i \in Stream!TextsBefore(w, l)} = 1..n
  BY <1>0, <1>2, <1>3
<1>5. Stream!InOrder(w)
  <2>1. ASSUME NEW i \in 1..Len(m), w[i].type = "text"
        PROVE  /\ w[i].no > 0
               /\ {w[j].no : j \in Stream!TextsBefore(w, i)} = 1..(w[i].no - 1)
    <3>1. m[i].no > 0 /\ {m[j].no : j \in Stream!TextsBefore(m, i)} = 1..(m[i].no - 1)
      BY <1>0, <2>1 DEF Ordered, Stream!InOrder
    <3>2. {w[j].no : j \in Stream!TextsBefore(w, i)}
            = {m[j].no : j \in Stream!TextsBefore(m, i)}
      BY <1>0, <1>2
    <3> QED BY <1>0, <3>1, <3>2
  <2>2. ASSUME NEW i \in 1..Len(m), w[i].type = "audio"
        PROVE  /\ \E j \in Stream!TextsBefore(w, i) : w[j].no = w[i].after
               /\ \A j \in 1..(i - 1) : w[j].type = "audio" => w[j].no < w[i].no
    <3>1. /\ \E j \in Stream!TextsBefore(m, i) : m[j].no = m[i].after
          /\ \A j \in 1..(i - 1) : m[j].type = "audio" => m[j].no < m[i].no
      BY <1>0, <2>2 DEF Ordered, Stream!InOrder
    <3>2. \A j \in 1..(i - 1) : j \in 1..Len(m)
      BY <1>0
    <3> QED BY <1>0, <1>2, <3>1, <3>2
  <2>3. w[l].type = "text" =>
          w[l].no > 0 /\ {w[j].no : j \in Stream!TextsBefore(w, l)} = 1..(w[l].no - 1)
    <3> SUFFICES ASSUME e.type = "text"
                 PROVE  e.no > 0 /\ {w[j].no : j \in Stream!TextsBefore(w, l)}
                                      = 1..(e.no - 1)
      BY <1>0
    <3>1. e.no = n + 1
      OBVIOUS
    <3>2. e.no > 0 /\ e.no - 1 = n
      BY <3>1
    <3> QED BY <1>4, <3>2
  <2>4. w[l].type = "audio" =>
          /\ \E j \in Stream!TextsBefore(w, l) : w[j].no = w[l].after
          /\ \A j \in 1..(l - 1) : w[j].type = "audio" => w[j].no < w[l].no
    <3> SUFFICES ASSUME e.type = "audio"
                 PROVE  /\ \E j \in Stream!TextsBefore(w, l) : w[j].no = e.after
                        /\ \A j \in 1..Len(m) : m[j].type = "audio" => m[j].no < e.no
      BY <1>0, <1>1
    <3>1. e.after \in 1..n /\ k < e.no
      OBVIOUS
    <3>2. \E j \in Stream!TextsBefore(w, l) : w[j].no = e.after
      BY <1>4, <3>1
    <3>3. ASSUME NEW j \in 1..Len(m), m[j].type = "audio" PROVE m[j].no < e.no
      <4>1. m[j].no <= k
        BY <1>0, <3>3 DEF Ordered, SpokenTo
      <4>2. m[j].no \in Nat /\ e.no \in Nat
        BY <1>0 DEF Events
      <4> QED BY <3>1, <4>1, <4>2
    <3> QED BY <3>2, <3>3
  <2>5. \A i \in DOMAIN w : i = l \/ i \in 1..Len(m)
    BY <1>0, <1>1
  <2> QED BY <2>1, <2>2, <2>3, <2>4, <2>5 DEF Stream!InOrder
<1>6. Shown(w, n2)
  <2>1. CASE e.type # "text"
    <3>1. TextsIn(w) = TextsIn(m) /\ n2 = n
      BY <1>0, <1>1, <2>1 DEF TextsIn
    <3> QED BY <1>0, <1>3, <3>1 DEF Shown
  <2>2. CASE e.type = "text"
    <3>1. TextsIn(w) = TextsIn(m) \cup {l} /\ e.no = n + 1 /\ n2 = n + 1
      BY <1>0, <1>1, <2>2 DEF TextsIn
    <3>2. {w[i].no : i \in TextsIn(w)} = {m[i].no : i \in TextsIn(m)} \cup {n + 1}
      BY <1>0, <1>3, <3>1
    <3>3. 1..n \cup {n + 1} = 1..(n + 1)
      OBVIOUS
    <3> QED BY <1>3, <3>1, <3>2, <3>3 DEF Shown
  <2> QED BY <2>1, <2>2
<1>7. SpokenTo(w, k2)
  <2> SUFFICES ASSUME NEW i \in DOMAIN w, w[i].type = "audio" PROVE w[i].no <= k2
    BY DEF SpokenTo
  <2>1. CASE i = l
    BY <1>0, <2>1
  <2>2. CASE i \in 1..Len(m)
    <3>1. w[i].no = m[i].no /\ m[i].no <= k /\ m[i].no \in Nat
      BY <1>0, <2>2 DEF Ordered, SpokenTo, Events
    <3> QED BY <3>1
  <2> QED BY <1>0, <1>1, <2>1, <2>2
<1> QED BY <1>5, <1>6, <1>7 DEF Ordered, w

-----------------------------------------------------------------------------
(* The sentences are numbered, and the errors end the stream.              *)

NumberedFrom(s, k) == \A i \in DOMAIN s : s[i] # None => s[i].no = k + i

\* The sentences that wait follow those taken, and the last of these is spoken.
Numbered ==
  /\ NumberedFrom(sentences, spoken)
  /\ tts = "speaking" => saying.no = spoken /\ spoken > 0

\* Two runs of sentences, the second following the first, are one.
LEMMA NumberedConcat ==
  ASSUME NEW s \in Seq(Sentence), NEW t \in Seq(Sentence), NEW k \in Nat,
         NumberedFrom(s, k), NumberedFrom(t, k + Len(s))
  PROVE  NumberedFrom(s \o t, k)
<1>1. /\ Len(s) \in Nat /\ Len(t) \in Nat
      /\ DOMAIN s = 1..Len(s) /\ DOMAIN t = 1..Len(t)
      /\ DOMAIN (s \o t) = 1..(Len(s) + Len(t))
      /\ \A i \in 1..Len(s) : (s \o t)[i] = s[i]
      /\ \A i \in (Len(s) + 1)..(Len(s) + Len(t)) : (s \o t)[i] = t[i - Len(s)]
  OBVIOUS
<1> SUFFICES ASSUME NEW i \in DOMAIN (s \o t), (s \o t)[i] # None
             PROVE  (s \o t)[i].no = k + i
  BY DEF NumberedFrom
<1>2. CASE i \in 1..Len(s)
  BY <1>1, <1>2 DEF NumberedFrom
<1>3. CASE i \in (Len(s) + 1)..(Len(s) + Len(t))
  <2>1. /\ i - Len(s) \in DOMAIN t /\ (s \o t)[i] = t[i - Len(s)]
        /\ (k + Len(s)) + (i - Len(s)) = k + i
    BY <1>1, <1>3
  <2> QED BY <2>1 DEF NumberedFrom
<1> QED BY <1>1, <1>2, <1>3

\* What a delta adds to the queue is such a run, and so is the end of it.
LEMMA NumberedParts ==
  ASSUME NEW c \in Nat, NEW n \in Nat, NEW t \in Nat, NEW b \in BOOLEAN
  PROVE  /\ NumberedFrom(Cut(c, n, t), c) /\ NumberedFrom(TailOf(c, t, b), c)
         /\ NumberedFrom(EndMark, c)
<1>1. ASSUME NEW m \in Nat PROVE NumberedFrom(Cut(c, m, t), c)
  <2>1. /\ Cut(c, m, t) \in Seq(Sentence) /\ Len(Cut(c, m, t)) = m
        /\ \A i \in 1..m : Cut(c, m, t)[i] = [no |-> c + i, after |-> t]
    BY CutType
  <2>2. DOMAIN Cut(c, m, t) = 1..m
    BY <2>1, LenProperties
  <2>3. \A i \in 1..m : Cut(c, m, t)[i].no = c + i
    BY <2>1
  <2> QED BY <2>2, <2>3 DEF NumberedFrom
<1>2. NumberedFrom(<<>>, c)
  BY DEF NumberedFrom
<1>3. NumberedFrom(EndMark, c)
  BY DEF NumberedFrom, EndMark
<1>4. 1 \in Nat
  OBVIOUS
<1> QED BY <1>1, <1>2, <1>3, <1>4 DEF TailOf

LEMMA EndMarkType == EndMark \in Seq(Sentence)
BY EventTypesOK DEF EndMark

\* Every step keeps the sentences numbered.
LEMMA NumberedStep ==
  ASSUME Control, Drained, Numbered, [Next]_vars
  PROVE  Numbered'
<1>0. /\ TypeOK /\ Queue /\ texts \in Nat /\ cut \in Nat /\ spoken \in Nat
      /\ sentences \in Seq(Sentence) /\ buffered \in BOOLEAN
      /\ Len(sentences) \in Nat
  BY LenProperties DEF Control, Drained, TypeOK
<1> USE DEF replyVars, voiceVars
<1>1. CASE UNCHANGED <<sentences, spoken>> /\ tts' # "speaking"
  BY <1>1 DEF Numbered
<1>2. CASE UNCHANGED <<sentences, spoken, saying, tts>>
  BY <1>2 DEF Numbered
<1>3. ASSUME llm = "reading", UNCHANGED <<spoken, saying, tts>>,
             NEW more \in Seq(Sentence), NumberedFrom(more, cut),
             sentences' = sentences \o more
      PROVE  Numbered'
  <2>1. spoken + Len(sentences) = cut
    <3>1. Len(sentences) = cut - spoken
      BY <1>0, <1>3 DEF Queue
    <3> QED BY <1>0, <3>1
  <2>2. NumberedFrom(sentences', spoken)
    BY <1>0, <1>3, <2>1, NumberedConcat DEF Numbered
  <2> QED BY <1>3, <2>2 DEF Numbered
<1>4. ASSUME NEW d \in Deltas, NEW n \in Nat, n = d.ready
      PROVE  /\ Cut(cut, n, texts + 1) \in Seq(Sentence)
             /\ Cut(cut, n, texts + 1) \o TailOf(cut + n, texts + 1, d.rest) \o EndMark
                  \in Seq(Sentence)
             /\ NumberedFrom(Cut(cut, n, texts + 1), cut)
             /\ NumberedFrom(Cut(cut, n, texts + 1)
                  \o TailOf(cut + n, texts + 1, d.rest) \o EndMark, cut)
  <2>1. d.rest \in BOOLEAN /\ texts + 1 \in Nat /\ cut + n \in Nat
    BY <1>0 DEF Deltas
  <2> DEFINE a == Cut(cut, n, texts + 1)
             b == TailOf(cut + n, texts + 1, d.rest)
  <2>2. /\ a \in Seq(Sentence) /\ Len(a) = n /\ b \in Seq(Sentence)
        /\ EndMark \in Seq(Sentence)
    <3>1. a \in Seq(Sentence) /\ Len(a) = n
      BY <1>0, <2>1, CutType
    <3>2. b \in Seq(Sentence)
      BY <2>1, TailOfType
    <3> QED BY <3>1, <3>2, EndMarkType
  <2>3. /\ NumberedFrom(a, cut) /\ NumberedFrom(b, cut + n)
        /\ \A k \in Nat : NumberedFrom(EndMark, k)
    BY <1>0, <2>1, NumberedParts
  <2> HIDE DEF a, b
  <2>4. a \o b \in Seq(Sentence) /\ NumberedFrom(a \o b, cut)
    BY <1>0, <2>2, <2>3, NumberedConcat, ConcatType
  <2>5. cut + Len(a \o b) \in Nat
    BY <1>0, <2>4
  <2>6. NumberedFrom((a \o b) \o EndMark, cut)
    BY <1>0, <2>2, <2>3, <2>4, <2>5, NumberedConcat
  <2>7. (a \o b) \o EndMark \in Seq(Sentence)
    BY <2>2, <2>4, ConcatType
  <2> QED BY <2>2, <2>3, <2>6, <2>7 DEF a, b
<1>5. ASSUME NEW d \in Deltas PROVE d.ready \in Nat
  BY BoundsAssumption DEF Deltas
<1>6. CASE ReadItem
  <2>1. ASSUME NEW d \in Deltas, EmitText(d) PROVE Numbered'
    <3>1. sentences' = sentences \o Cut(cut, d.ready, texts + 1)
      BY <2>1 DEF EmitText
    <3> QED BY <1>3, <1>4, <1>5, <1>6, <3>1 DEF ReadItem
  <2> QED BY <1>2, <1>6, <2>1 DEF ReadItem
<1>7. CASE FinishReading
  <2>1. ASSUME NEW d \in Deltas, ReleaseHeld(d) PROVE Numbered'
    <3> DEFINE a == Cut(cut, d.ready, texts + 1)
               b == TailOf(cut + d.ready, texts + 1, d.rest)
    <3>0. /\ d.rest \in BOOLEAN /\ texts + 1 \in Nat /\ cut + d.ready \in Nat
          /\ d.ready \in Nat
      BY <1>0, <1>5 DEF Deltas
    <3>1. /\ a \o b \o EndMark \in Seq(Sentence)
          /\ NumberedFrom(a \o b \o EndMark, cut)
      BY <1>4, <3>0
    <3>4. /\ a \in Seq(Sentence) /\ b \in Seq(Sentence) /\ EndMark \in Seq(Sentence)
      <4>1. a \in Seq(Sentence)
        BY <1>0, <3>0, CutType
      <4>2. b \in Seq(Sentence)
        BY <3>0, TailOfType
      <4> QED BY <4>1, <4>2, EndMarkType
    <3>2. sentences' = sentences \o a \o b \o EndMark
      BY <2>1 DEF ReleaseHeld
    <3> HIDE DEF a, b
    <3>3. sentences \o a \o b \o EndMark = sentences \o (a \o b \o EndMark)
      <4>1. (sentences \o a) \o b = sentences \o (a \o b) /\ a \o b \in Seq(Sentence)
        BY <1>0, <3>4, Joined, ConcatType
      <4>2. (sentences \o (a \o b)) \o EndMark = sentences \o ((a \o b) \o EndMark)
        BY <1>0, <3>4, <4>1, Joined, ZenonT(60)
      <4> QED BY <4>1, <4>2
    <3> QED BY <1>3, <1>7, <3>1, <3>2, <3>3 DEF FinishReading
  <2>2. CASE ReleaseNothing
    <3> DEFINE b == TailOf(cut, texts, buffered)
    <3>1. /\ b \in Seq(Sentence) /\ EndMark \in Seq(Sentence)
          /\ NumberedFrom(b, cut) /\ \A k \in Nat : NumberedFrom(EndMark, k)
      <4>1. b \in Seq(Sentence)
        BY <1>0, TailOfType
      <4>2. /\ \A k \in Nat : NumberedFrom(EndMark, k) /\ NumberedFrom(b, cut)
        <5>1. 0 \in Nat
          OBVIOUS
        <5> QED BY <1>0, <5>1, NumberedParts
      <4> QED BY <4>1, <4>2, EndMarkType
    <3>2. sentences' = sentences \o b \o EndMark
      BY <2>2 DEF ReleaseNothing
    <3> HIDE DEF b
    <3>3. cut + Len(b) \in Nat /\ b \o EndMark \in Seq(Sentence)
      BY <1>0, <3>1, ConcatType, LenProperties
    <3>4. NumberedFrom(b \o EndMark, cut)
      BY <1>0, <3>1, <3>3, NumberedConcat
    <3>5. sentences \o b \o EndMark = sentences \o (b \o EndMark)
      BY <1>0, <3>1, Joined, Zenon
    <3> QED BY <1>3, <1>7, <3>2, <3>3, <3>4, <3>5 DEF FinishReading
  <2> QED BY <1>7, <2>1, <2>2 DEF FinishReading
<1>8. CASE TakeSentence
  <2>1. /\ sentences # <<>> /\ Head(sentences) = sentences[1]
        /\ Len(sentences) >= 1 /\ DOMAIN sentences = 1..Len(sentences)
        /\ DOMAIN sentences' = 1..(Len(sentences) - 1)
        /\ \A i \in DOMAIN sentences' : sentences'[i] = sentences[i + 1]
    BY <1>0, <1>8 DEF TakeSentence
  <2>2. CASE sentences[1] = None
    <3>1. tts' # "speaking" /\ spoken' = spoken
      BY <1>8, <2>1, <2>2 DEF TakeSentence
    <3>2. 1 > cut - spoken
      BY <2>1, <2>2, <1>0 DEF Queue
    <3>3. ASSUME NEW i \in DOMAIN sentences' PROVE sentences'[i] = None
      <4>1. i + 1 \in DOMAIN sentences /\ i + 1 > cut - spoken
        BY <1>0, <2>1, <3>2
      <4> QED BY <1>0, <2>1, <4>1 DEF Queue
    <3> QED BY <3>1, <3>3 DEF Numbered, NumberedFrom
  <2>3. CASE sentences[1] # None
    <3>1. tts' = "speaking" /\ spoken' = spoken + 1 /\ saying' = sentences[1]
      BY <1>8, <2>1, <2>3 DEF TakeSentence
    <3>2. sentences[1].no = spoken + 1
      BY <2>1, <2>3 DEF Numbered, NumberedFrom
    <3>3. ASSUME NEW i \in DOMAIN sentences', sentences'[i] # None
          PROVE  sentences'[i].no = spoken' + i
      <4>1. /\ i + 1 \in DOMAIN sentences /\ sentences[i + 1] # None
            /\ i \in Nat
        BY <1>0, <2>1, <3>3
      <4>2. sentences[i + 1].no = spoken + (i + 1)
        BY <4>1 DEF Numbered, NumberedFrom
      <4>3. spoken + (i + 1) = (spoken + 1) + i
        BY <1>0, <4>1
      <4> QED BY <2>1, <3>1, <4>2, <4>3
    <3>4. saying'.no = spoken' /\ spoken' > 0
      BY <1>0, <3>1, <3>2
    <3> QED BY <3>3, <3>4 DEF Numbered, NumberedFrom
  <2> QED BY <2>2, <2>3
<1>9. CASE EnterGroup \/ EndSentence \/ SpeakFails \/ SpeakCancelled
  BY <1>1, <1>9 DEF EnterGroup, EndSentence, SpeakFails, SpeakCancelled
<1>10. CASE Consumer \/ Disconnect \/ NeverStarted \/ AbortGroup \/ LeaveGroup
  BY <1>2, <1>10 DEF Consumer, OpenRequest, Transcribe, CreateProducer, Consume,
     RecordSuccess, RecordFailure, Close, Disconnect, NeverStarted, AbortGroup,
     LeaveGroup
<1>11. CASE ReadFails \/ ReadCancelled
  BY <1>2, <1>11 DEF ReadFails, ReadCancelled
<1>12. CASE UNCHANGED vars
  BY <1>2, <1>12 DEF vars
<1> QED BY <1>6, <1>7, <1>8, <1>9, <1>10, <1>11, <1>12
  DEF Next, Produce, ReadLlm, Speak, Over

-----------------------------------------------------------------------------
(* What a step makes of the reply.                                         *)

\* The last sentence that was spoken to its end, or given up.
LastSpoken == IF tts = "speaking" THEN spoken - 1 ELSE spoken

Promise == Ordered(MadeSoFar, texts, LastSpoken)

\* An error, and a crash of the consumer, come when nothing more is made, and
\* the last record is that of a stream with its mark.
Endings ==
  /\ failure # NoError => prod \in {"none", "done"}
  /\ con \in {"finishing", "returned"} => Marked

Kept == MadeSoFar' = MadeSoFar /\ texts' = texts /\ LastSpoken <= LastSpoken'

Extended(e) ==
  /\ MadeSoFar' = Append(MadeSoFar, e)
  /\ UNCHANGED <<con, failure, sent>>
  /\ LastSpoken <= LastSpoken'
  /\ \/ e.type = "reasoning" /\ texts' = texts
     \/ e.type = "text" /\ e.no = texts + 1 /\ texts' = texts + 1
     \/ /\ e.type = "audio" /\ LastSpoken < e.no /\ e.no <= LastSpoken'
        /\ e.after \in 1..texts /\ texts' = texts

\* The types of the events.
LEMMA TypesOfEvents ==
  /\ Transcript.type = "transcript" /\ Reasoning.type = "reasoning"
  /\ Done.type = "done" /\ DoneMark.type = "[DONE]"
  /\ \A n : Text(n).type = "text" /\ Text(n).no = n
  /\ \A n : Error(n).type = "error"
  /\ \A s : Audio(s).type = "audio" /\ Audio(s).no = s.no /\ Audio(s).after = s.after
BY DEF Transcript, Reasoning, Done, DoneMark, Text, Error, Audio, Event

\* Consuming an event leaves the reply as it is; the client hears it when it
\* belongs to the reply.
LEMMA ConsumeKeeps ==
  ASSUME Control, Consume
  PROVE  /\ MadeSoFar' = MadeSoFar
         /\ \/ Len(Reply(sent')) = Len(Reply(sent))
            \/ /\ failure = NoError /\ sent' = Append(sent, Head(events))
               /\ Head(events).type \in ReplyEvents /\ UNCHANGED <<con, failure>>
               /\ Len(Reply(sent')) = Len(Reply(sent)) + 1
<1>0. /\ sent \in Seq(Events) /\ events \in Seq(Events) /\ events # <<>>
      /\ events' = Tail(events) /\ con = "streaming"
      /\ Head(events) \in Events /\ Tail(events) \in Seq(Events)
  BY HeadTailProperties DEF Control, TypeOK, Consume
<1>1. Head(events) = events[1] /\ 1 \in DOMAIN events
  BY <1>0
<1>2. CASE /\ Head(events).type \notin {"error", "done"}
           /\ sent' = Append(sent, Head(events)) /\ failure = NoError
           /\ UNCHANGED <<con, failure>>
  <2>1. /\ Reply(sent') \o Reply(events') = Reply(sent) \o Reply(events)
        /\ Len(Reply(sent')) =
             Len(Reply(sent)) + (IF Head(events).type \in ReplyEvents THEN 1 ELSE 0)
    BY <1>0, <1>2, HeardByPassing
  <2>2. Len(Reply(sent)) \in Nat
    BY <1>0, ReplyType, LenProperties
  <2>3. Len(Reply(sent)) + 0 = Len(Reply(sent))
    BY <2>2
  <2> QED BY <1>2, <2>1, <2>3 DEF MadeSoFar
<1>3. CASE /\ Head(events).type \in {"error", "done"}
           /\ sent' = sent \/ sent' = Append(sent, DoneMark)
  <2>1. Reply(sent') = Reply(sent)
    BY <1>0, <1>3, ReplyAppend, EventTypesOK, TypesOfEvents DEF ReplyEvents
  <2>2. Reply(events) = <<>> \o Reply(Tail(events))
    BY <1>0, <1>3, ReplyTail DEF Part, ReplyEvents
  <2>3. Reply(Tail(events)) \in Seq(Events)
    BY <1>0, ReplyType
  <2>4. Reply(events') = Reply(events)
    BY <1>0, <2>2, <2>3, ConcatEmptySeq
  <2> QED BY <2>1, <2>4 DEF MadeSoFar
<1>4. CASE Head(events).type \notin {"error", "done"} /\ failure # NoError
  BY <1>0, <1>1, <1>4 DEF Control, NothingAfterError
<1> QED
  <2>1. \/ Head(events).type = "error" /\ sent' = sent
        \/ Head(events).type = "done"
             /\ (sent' = sent \/ sent' = Append(sent, DoneMark))
        \/ /\ Head(events).type \notin {"error", "done"}
           /\ sent' = IF failure = NoError THEN Append(sent, Head(events)) ELSE sent
           /\ UNCHANGED <<con, failure>>
    BY DEF Consume
  <2> QED BY <1>2, <1>3, <1>4, <2>1

\* Every step keeps the reply or adds one event to it.
LEMMA WhatAStepMakes ==
  ASSUME Complete, Numbered, [Next]_vars
  PROVE  Kept \/ (prod = "group" /\ \E e \in Events : Extended(e))
<1>0. /\ Control /\ TypeOK /\ TaskStates /\ SentencesMade
      /\ sent \in Seq(Events) /\ events \in Seq(Events)
      /\ texts \in Nat /\ spoken \in Nat /\ saying \in Sentence
  BY DEF Complete, Outcome, Order, Control, TypeOK
<1> USE DEF replyVars, voiceVars
<1>1. LastSpoken <= LastSpoken
  BY <1>0 DEF LastSpoken
<1>2. CASE UNCHANGED <<sent, events, texts>> /\ LastSpoken <= LastSpoken'
  BY <1>2 DEF Kept, MadeSoFar
<1>3. ASSUME NEW e \in Events, UNCHANGED sent, events' = Append(events, e)
      PROVE  MadeSoFar' = IF e.type \in ReplyEvents THEN Append(MadeSoFar, e)
                          ELSE MadeSoFar
  <2>1. Reply(sent) \o Reply(events') =
          IF e.type \in ReplyEvents THEN Append(Reply(sent) \o Reply(events), e)
          ELSE Reply(sent) \o Reply(events)
    BY <1>0, <1>3, MadeByPut
  <2> QED BY <1>3, <2>1 DEF MadeSoFar
<1>4. ASSUME NEW e \in Events, UNCHANGED <<sent, texts, tts, spoken>>,
             e.type \notin ReplyEvents, events' = Append(events, e)
      PROVE  Kept
  BY <1>1, <1>3, <1>4 DEF Kept, LastSpoken
<1>5. CASE OpenRequest \/ CreateProducer \/ RecordSuccess \/ RecordFailure \/ Close
             \/ Disconnect \/ NeverStarted \/ AbortGroup \/ ReadFails
             \/ ReadCancelled \/ UNCHANGED vars
  <2>1. UNCHANGED <<sent, events, texts, tts, spoken>>
    BY <1>5 DEF OpenRequest, CreateProducer, RecordSuccess, RecordFailure, Close,
       Disconnect, NeverStarted, AbortGroup, ReadFails, ReadCancelled, vars
  <2> QED BY <1>1, <1>2, <2>1 DEF LastSpoken
<1>6. CASE Transcribe
  <2>1. sent' = sent \/ sent' = Append(sent, Transcript)
    BY <1>6 DEF Transcribe
  <2>2. Reply(sent') = Reply(sent)
    BY <1>0, <2>1, ReplyAppend, EventTypesOK, TypesOfEvents DEF ReplyEvents
  <2> QED BY <1>1, <1>6, <2>2 DEF Transcribe, Kept, MadeSoFar, LastSpoken
<1>7. CASE Consume
  <2>1. MadeSoFar' = MadeSoFar
    BY <1>0, <1>7, ConsumeKeeps
  <2> QED BY <1>1, <1>7, <2>1 DEF Consume, Kept, LastSpoken
<1>8. CASE EnterGroup \/ TakeSentence \/ SpeakFails \/ SpeakCancelled
  <2>1. LastSpoken <= LastSpoken'
    BY <1>0, <1>8 DEF EnterGroup, TakeSentence, SpeakFails, SpeakCancelled,
       LastSpoken, TaskStates
  <2> QED BY <1>2, <1>8, <2>1
    DEF EnterGroup, TakeSentence, SpeakFails, SpeakCancelled
<1>9. CASE LeaveGroup
  <2>1. CASE errors # <<>> /\ events' = events \o <<Error(Unwrap(errors)), Done>>
    <3>1. /\ Error(Unwrap(errors)) \in Events /\ Done \in Events
          /\ Error(Unwrap(errors)).type \notin ReplyEvents
          /\ Done.type \notin ReplyEvents
      BY <1>0, <2>1, UnwrapType, EventTypesOK, TypesOfEvents DEF TypeOK, ReplyEvents
    <3> DEFINE one == Error(Unwrap(errors))
    <3>2. events' = Append(Append(events, one), Done)
      BY <1>0, <2>1, <3>1
    <3>3. Append(events, one) \in Seq(Events)
      BY <1>0, <3>1, AppendType
    <3>4. Reply(events') = Reply(events)
      BY <1>0, <3>1, <3>2, <3>3, ReplyAppend
    <3> QED BY <1>1, <1>9, <3>4 DEF LeaveGroup, Kept, MadeSoFar, LastSpoken
  <2>2. CASE events' = Append(events, Done)
    <3>1. Done \in Events /\ Done.type \notin ReplyEvents
      BY EventTypesOK, TypesOfEvents DEF ReplyEvents
    <3> QED BY <1>4, <1>9, <2>2, <3>1 DEF LeaveGroup
  <2>3. CASE UNCHANGED events
    BY <1>1, <1>2, <1>9, <2>3 DEF LeaveGroup, LastSpoken
  <2> QED BY <1>9, <2>1, <2>2, <2>3 DEF LeaveGroup
<1>10. ASSUME ReadLlm \/ Speak PROVE prod = "group"
  BY <1>0, <1>10 DEF ReadLlm, ReadItem, FinishReading, ReadFails, ReadCancelled, Speak,
     TakeSentence, EndSentence, SpeakFails, SpeakCancelled, TaskStates, TypeOK, Stopped
<1>11. CASE ReadItem \/ FinishReading
  <2>0. /\ UNCHANGED <<con, failure, sent, tts, spoken>> /\ prod = "group"
        /\ LastSpoken' = LastSpoken /\ LastSpoken <= LastSpoken'
    BY <1>1, <1>10, <1>11 DEF ReadItem, FinishReading, ReadLlm, LastSpoken
  <2>1. CASE events' = Append(events, Text(texts + 1)) /\ texts' = texts + 1
    <3>1. /\ Text(texts + 1) \in Events /\ Text(texts + 1).type = "text"
          /\ Text(texts + 1).no = texts + 1
      BY <1>0, EventTypesOK, TypesOfEvents
    <3>2. MadeSoFar' = Append(MadeSoFar, Text(texts + 1))
      BY <1>3, <2>0, <2>1, <3>1 DEF ReplyEvents
    <3> QED BY <2>0, <2>1, <3>1, <3>2 DEF Extended
  <2>2. CASE events' = Append(events, Reasoning) /\ texts' = texts
    <3>1. Reasoning \in Events /\ Reasoning.type = "reasoning"
      BY EventTypesOK, TypesOfEvents
    <3>2. MadeSoFar' = Append(MadeSoFar, Reasoning)
      BY <1>3, <2>0, <2>2, <3>1 DEF ReplyEvents
    <3> QED BY <2>0, <2>2, <3>1, <3>2 DEF Extended
  <2>3. CASE UNCHANGED <<events, texts>>
    BY <1>2, <2>0, <2>3
  <2> QED BY <1>11, <2>1, <2>2, <2>3
    DEF ReadItem, FinishReading, EmitText, ReleaseHeld, ReleaseNothing
<1>12. CASE EndSentence
  <2>0. /\ UNCHANGED <<con, failure, sent, texts>> /\ prod = "group"
        /\ tts = "speaking"
    BY <1>10, <1>12 DEF EndSentence, Speak
  <2>1. LastSpoken = spoken - 1 /\ LastSpoken' = spoken /\ LastSpoken <= LastSpoken'
    BY <1>0, <1>12 DEF EndSentence, LastSpoken
  <2>2. CASE events' = Append(events, Audio(saying))
    <3>1. /\ Audio(saying) \in Events /\ Audio(saying).type = "audio"
          /\ Audio(saying).no = saying.no /\ Audio(saying).after = saying.after
      BY <1>0, EventTypesOK, TypesOfEvents
    <3>2. MadeSoFar' = Append(MadeSoFar, Audio(saying))
      BY <1>3, <2>0, <2>2, <3>1 DEF ReplyEvents
    <3>3. saying.no = spoken /\ saying.after \in 1..texts
      BY <1>0, <2>0 DEF Numbered, SentencesMade
    <3>4. LastSpoken < spoken /\ spoken <= LastSpoken'
      BY <1>0, <2>1
    <3> QED BY <2>0, <2>1, <3>1, <3>2, <3>3, <3>4 DEF Extended
  <2>3. CASE UNCHANGED events
    BY <1>2, <2>0, <2>1, <2>3
  <2> QED BY <1>12, <2>2, <2>3 DEF EndSentence
<1> QED BY <1>5, <1>6, <1>7, <1>8, <1>9, <1>11, <1>12
  DEF Next, Consumer, Produce, ReadLlm, Speak, Over

\* The reply stays what the stream promises.
LEMMA PromiseStep ==
  ASSUME Complete, Numbered, Promise, [Next]_vars
  PROVE  Promise'
<1>0. /\ TypeOK /\ TypeOK' /\ MadeSoFar \in Seq(Events)
      /\ texts \in Nat /\ texts' \in Nat
  <2>1. TypeOK /\ TypeOK'
    BY StepType DEF Complete, Outcome, Control
  <2> QED BY <2>1, ReplyType, ConcatType DEF TypeOK, MadeSoFar
<1>1. LastSpoken \in Nat
  BY <1>0 DEF Numbered, LastSpoken, TypeOK
<1>2. LastSpoken' \in Nat
  <2>1. Numbered'
    BY NumberedStep DEF Complete, Outcome
  <2>2. spoken' \in Nat /\ (tts' = "speaking" => spoken' > 0)
    BY <1>0, <2>1 DEF Numbered, TypeOK
  <2>3. CASE tts' = "speaking"
    <3>1. LastSpoken' = spoken' - 1
      BY <2>3 DEF LastSpoken
    <3>2. \A n \in Nat : n > 0 => n - 1 \in Nat
      OBVIOUS
    <3>3. spoken' \in Nat /\ spoken' > 0
      BY <2>2, <2>3
    <3>4. spoken' - 1 \in Nat
      BY <3>2, <3>3
    <3> QED BY <3>1, <3>4
  <2>4. CASE tts' # "speaking"
    <3>1. LastSpoken' = spoken'
      BY <2>4 DEF LastSpoken
    <3> QED BY <2>2, <3>1
  <2> QED BY <2>3, <2>4
<1>3. CASE Kept
  <2>1. MadeSoFar' = MadeSoFar /\ texts' = texts /\ LastSpoken <= LastSpoken'
    BY <1>3 DEF Kept
  <2>2. \A i \in DOMAIN MadeSoFar : MadeSoFar[i].no \in Nat
    <3>1. \A i \in DOMAIN MadeSoFar : MadeSoFar[i] \in Events
      BY <1>0
    <3> QED BY <3>1 DEF Events
  <2>3. SpokenTo(MadeSoFar, LastSpoken')
    <3> SUFFICES ASSUME NEW i \in DOMAIN MadeSoFar, MadeSoFar[i].type = "audio"
                 PROVE  MadeSoFar[i].no <= LastSpoken'
      BY DEF SpokenTo
    <3>1. MadeSoFar[i].no <= LastSpoken /\ MadeSoFar[i].no \in Nat
      BY <2>2 DEF Promise, Ordered, SpokenTo
    <3> QED BY <1>1, <1>2, <2>1, <3>1
  <2> QED BY <2>1, <2>3 DEF Promise, Ordered
<1>4. ASSUME NEW e \in Events, Extended(e) PROVE Promise'
  <2>1. Ordered(MadeSoFar, texts, LastSpoken)
    BY DEF Promise
  <2>2. /\ MadeSoFar' = Append(MadeSoFar, e) /\ LastSpoken <= LastSpoken'
        /\ \/ e.type = "reasoning" /\ texts' = texts
           \/ e.type = "text" /\ e.no = texts + 1 /\ texts' = texts + 1
           \/ /\ e.type = "audio" /\ LastSpoken < e.no /\ e.no <= LastSpoken'
              /\ e.after \in 1..texts /\ texts' = texts
    BY <1>4 DEF Extended
  <2> DEFINE m == MadeSoFar
             k == LastSpoken
             m2 == MadeSoFar'
             k2 == LastSpoken'
  <2> HIDE DEF m, k, m2, k2
  <2>3. /\ m \in Seq(Events) /\ k \in Nat /\ k2 \in Nat /\ m2 = Append(m, e)
        /\ Ordered(m, texts, k) /\ k <= k2
        /\ \/ e.type = "reasoning" /\ texts' = texts
           \/ e.type = "text" /\ e.no = texts + 1 /\ texts' = texts + 1
           \/ /\ e.type = "audio" /\ k < e.no /\ e.no <= k2
              /\ e.after \in 1..texts /\ texts' = texts
    BY <1>0, <1>1, <1>2, <2>1, <2>2 DEF m, k, m2, k2
  <2>4. Ordered(m2, texts', k2)
    BY <1>0, <2>3, OrderedGrows
  <2> QED BY <2>4 DEF m2, k2, Promise
<1> QED BY <1>3, <1>4, WhatAStepMakes

\* A status is not the absence of an error.
LEMMA StatusIsError == \A status \in Statuses : status # NoError
BY StatusAssumption DEF Statuses, NoError

\* An error still comes when nothing more is made.
LEMMA EndingsStep ==
  ASSUME Control, Endings, [Next]_vars
  PROVE  Endings'
<1>0. /\ TypeOK /\ ConsumerStates /\ LastWords /\ TaskStates
      /\ sent \in Seq(Events)
  BY DEF Control, TypeOK
<1> USE DEF replyVars, voiceVars
<1>1. CASE OpenRequest \/ Transcribe
  <2>1. prod = "none" /\ UNCHANGED prod /\ con' \notin {"finishing", "returned"}
    BY <1>0, <1>1 DEF OpenRequest, Transcribe, Fail, ConsumerStates
  <2> QED BY <2>1 DEF Endings
<1>2. CASE CreateProducer
  <2>1. /\ prod = "none" /\ failure = NoError
        /\ con' \notin {"finishing", "returned"}
        /\ UNCHANGED failure \/ UNCHANGED prod
    BY <1>0, <1>2 DEF CreateProducer, Fail, ConsumerStates
  <2> QED BY <2>1 DEF Endings
<1>3. CASE Consume
  <2>1. /\ UNCHANGED prod /\ events # <<>> /\ con = "streaming"
        /\ Head(events) = events[1] /\ 1 \in DOMAIN events
    BY <1>0, <1>3 DEF Consume, TypeOK
  <2>2. failure' # NoError => prod' \in {"none", "done"}
    <3>1. CASE Head(events).type \in Ending
      BY <1>0, <2>1, <3>1 DEF LastWords
    <3>2. CASE Head(events).type \notin Ending
      BY <1>3, <2>1, <3>2 DEF Consume, Ending, Endings
    <3> QED BY <3>1, <3>2
  <2>3. con' \in {"finishing", "returned"} => Marked'
    <3> SUFFICES ASSUME con' \in {"finishing", "returned"} PROVE Marked'
      OBVIOUS
    <3>1. sent' = Append(sent, DoneMark)
      BY <1>3, <2>1 DEF Consume
    <3>2. Len(sent) + 1 \in DOMAIN sent' /\ sent'[Len(sent) + 1] = DoneMark
      BY <1>0, <3>1
    <3> QED BY <3>2 DEF Marked
  <2> QED BY <2>2, <2>3 DEF Endings
<1>4. CASE RecordSuccess \/ RecordFailure \/ Close \/ Disconnect \/ UNCHANGED vars
  <2>1. /\ UNCHANGED <<prod, failure, sent>>
        /\ con' \in {"finishing", "returned"} => con \in {"finishing", "returned"}
    BY <1>4 DEF RecordSuccess, RecordFailure, Close, Disconnect, vars
  <2> QED BY <2>1 DEF Endings, Marked
<1>5. CASE Produce
  <2>1. /\ UNCHANGED <<con, failure, sent>> /\ prod \in {"created", "group"}
    BY <1>5 DEF Produce, EnterGroup, NeverStarted, AbortGroup, LeaveGroup
  <2>2. failure' = NoError
    BY <2>1 DEF Endings
  <2>3. Marked' <=> Marked
    BY <2>1 DEF Marked
  <2> QED BY <2>1, <2>2, <2>3 DEF Endings
<1>6. CASE ReadLlm \/ Speak
  <2>1. UNCHANGED <<con, failure, sent, prod>>
    BY <1>6 DEF ReadLlm, ReadItem, FinishReading, ReadFails, ReadCancelled, Speak,
       TakeSentence, EndSentence, SpeakFails, SpeakCancelled
  <2> QED BY <2>1 DEF Endings, Marked
<1> QED BY <1>1, <1>2, <1>3, <1>4, <1>5, <1>6 DEF Next, Consumer, Over

-----------------------------------------------------------------------------
(* Every step of the tasks is one of the stream, or none.                  *)

Refining == Complete /\ Numbered /\ Promise /\ Endings

LEMMA RefiningInit == Init => Refining /\ Stream!Init
<1> SUFFICES ASSUME Init PROVE Refining /\ Stream!Init
  OBVIOUS
<1>1. Complete
  BY CompleteInit
<1>2. Numbered
  BY DEF Init, Numbered, NumberedFrom
<1>3. Endings
  BY DEF Init, Endings
<1>4. MadeSoFar = <<>> /\ Reply(sent) = <<>>
  BY ReplyEmpty DEF Init, MadeSoFar
<1>5. Promise
  <2>1. texts = 0 /\ TextsIn(<<>>) = {}
    BY DEF Init, TextsIn
  <2>2. Shown(<<>>, 0)
    BY <2>1 DEF Shown
  <2> QED BY <1>4, <2>1, <2>2
    DEF Promise, Ordered, SpokenTo, Stream!InOrder
<1>6. Phase = "live"
  BY DEF Init, Phase
<1> QED BY <1>1, <1>2, <1>3, <1>4, <1>5, <1>6 DEF Refining, Stream!Init, MadeSoFar

LEMMA RefiningStep == Refining /\ [Next]_vars => Refining'
<1> SUFFICES ASSUME Refining, [Next]_vars PROVE Refining'
  OBVIOUS
<1>1. Complete /\ Control /\ Drained /\ Numbered /\ Promise /\ Endings
  BY DEF Refining, Complete, Outcome
<1> QED BY <1>1, CompleteStep, NumberedStep, PromiseStep, EndingsStep DEF Refining

\* An event that is put on the queue is made.
LEMMA PutIsMake ==
  ASSUME Refining, Promise', prod = "group", NEW e \in Events, Extended(e)
  PROVE  Stream!Make
<1>0. /\ MadeSoFar \in Seq(Events) /\ MadeSoFar' = Append(MadeSoFar, e)
      /\ UNCHANGED <<con, failure, sent>>
  BY ReplyType, ConcatType
  DEF Refining, Complete, Outcome, Control, TypeOK, MadeSoFar, Extended
<1>1. Phase \in {"live", "left"}
  BY DEF Refining, Complete, Completed, Marked, Endings, Outcome, Control, ConsumerStates,
         Phase
<1>2. UNCHANGED <<Phase, Reply(sent)>>
  BY <1>0 DEF Phase
<1>3. Stream!InOrder(MadeSoFar')
  BY DEF Promise, Ordered
<1> DEFINE m == MadeSoFar
           m2 == MadeSoFar'
<1> HIDE DEF m, m2
<1>4. m \in Seq(Events) /\ m2 = Append(m, e)
  BY <1>0 DEF m, m2
<1>5. Len(m2) > Len(m) /\ SubSeq(m2, 1, Len(m)) = m
  BY <1>4
<1>6. Len(MadeSoFar') > Len(MadeSoFar) /\ SubSeq(MadeSoFar', 1, Len(MadeSoFar)) = MadeSoFar
  BY <1>5 DEF m, m2
<1> QED BY <1>1, <1>2, <1>3, <1>6 DEF Stream!Make, MadeSoFar

\* The consumer's steps up to the producer break the stream or leave it live.
LEMMA FrontIsBreak ==
  ASSUME Refining, Completed', OpenRequest \/ Transcribe \/ CreateProducer
  PROVE  [Stream!Next]_(Stream!vars)
<1>0. /\ Control /\ TaskStates /\ ConsumerStates /\ sent \in Seq(Events)
      /\ con \in {"opening", "transcribing", "greeted"}
  BY DEF Refining, Complete, Outcome, Control, TypeOK, OpenRequest, Transcribe,
         CreateProducer
<1>1. events = <<>> /\ events' = <<>> /\ failure = NoError
  BY <1>0 DEF TaskStates, ConsumerStates, OpenRequest, Transcribe, CreateProducer
<1>2. ~Marked
  BY <1>0 DEF Refining, Complete, Completed
<1>3. sent' = sent \/ sent' = Append(sent, Transcript)
  BY DEF OpenRequest, Transcribe, CreateProducer
<1>4. Reply(sent') = Reply(sent) /\ Reply(sent) \in Seq(Events)
  BY <1>0, <1>3, ReplyAppend, ReplyType, EventTypesOK, TypesOfEvents DEF ReplyEvents
<1>5. ~Marked'
  <2>1. CASE sent' = sent
    BY <1>2, <2>1 DEF Marked
  <2>2. CASE sent' = Append(sent, Transcript)
    <3>1. Transcript # DoneMark
      BY TypesOfEvents
    <3>2. /\ Len(sent) \in Nat /\ DOMAIN sent = 1..Len(sent)
          /\ DOMAIN sent' = 1..(Len(sent) + 1)
          /\ \A i \in 1..Len(sent) : sent'[i] = sent[i]
          /\ sent'[Len(sent) + 1] = Transcript
      BY <1>0, <2>2
    <3>3. \A i \in DOMAIN sent' : sent'[i] # DoneMark
      BY <1>2, <3>1, <3>2 DEF Marked
    <3> QED BY <3>3 DEF Marked
  <2> QED BY <1>3, <2>1, <2>2
<1>6. Phase = "live"
  BY <1>0, <1>1, <1>2 DEF Phase, Marked
<1>7. Phase' \in {"live", "broken"}
  <2>1. con' \notin {"closing", "closed"}
    BY DEF OpenRequest, Transcribe, CreateProducer, Fail
  <2> QED BY <1>5, <2>1 DEF Phase, Marked
<1>8. UNCHANGED <<MadeSoFar, Reply(sent)>> /\ MadeSoFar = Reply(sent)
  BY <1>1, <1>4, ReplyEmpty, ConcatEmptySeq DEF MadeSoFar
<1>9. CASE Phase' = "live"
  BY <1>6, <1>8, <1>9 DEF Stream!vars, MadeSoFar
<1>10. CASE Phase' = "broken"
  <2>1. Stream!Break
    BY <1>6, <1>8, <1>10 DEF Stream!Break, MadeSoFar
  <2> QED BY <2>1 DEF Stream!Next
<1> QED BY <1>7, <1>9, <1>10

\* What the consumer's loop does with an event: the client hears it, or the
\* stream is complete or broken.
LEMMA ConsumeIsHear ==
  ASSUME Refining, Completed', Control', Consume
  PROVE  [Stream!Next]_(Stream!vars)
<1>0. /\ Control /\ TypeOK /\ LastWords /\ DoneIsLast
      /\ sent \in Seq(Events) /\ events \in Seq(Events)
      /\ events # <<>> /\ events' = Tail(events) /\ con = "streaming"
      /\ Head(events) \in Events /\ Tail(events) \in Seq(Events)
      /\ Head(events) = events[1] /\ 1 \in DOMAIN events
      /\ DOMAIN events = 1..Len(events) /\ Len(events) \in Nat
      /\ DOMAIN events' = 1..(Len(events) - 1)
      /\ \A i \in DOMAIN events' : events'[i] = events[i + 1]
  BY HeadTailProperties
  DEF Refining, Complete, Outcome, Control, TypeOK, Consume
<1>1. /\ MadeSoFar' = MadeSoFar
      /\ \/ Len(Reply(sent')) = Len(Reply(sent))
         \/ /\ failure = NoError /\ sent' = Append(sent, Head(events))
            /\ Head(events).type \in ReplyEvents /\ UNCHANGED <<con, failure>>
            /\ Len(Reply(sent')) = Len(Reply(sent)) + 1
  BY <1>0, ConsumeKeeps
<1>2. ~Marked
  BY <1>0 DEF Refining, Complete, Completed
<1>3. Phase = IF failure = NoError THEN "live" ELSE "broken"
  BY <1>0, <1>2 DEF Phase, Marked
<1>4. /\ Reply(sent) \in Seq(Events) /\ Reply(events) \in Seq(Events)
      /\ Len(Reply(sent)) \in Nat
      /\ Len(MadeSoFar) = Len(Reply(sent)) + Len(Reply(events))
      /\ Len(Reply(events)) \in Nat
  BY <1>0, ReplyType, LenProperties, ConcatProperties DEF MadeSoFar
<1>5. Reply(events) = Part(Head(events)) \o Reply(Tail(events))
  BY <1>0, ReplyTail
<1>6. ASSUME NEW e \in Events, sent' = Append(sent, e)
      PROVE  Marked' <=> e = DoneMark
  <2>1. /\ Len(sent) \in Nat /\ DOMAIN sent = 1..Len(sent)
        /\ DOMAIN sent' = 1..(Len(sent) + 1)
        /\ \A i \in 1..Len(sent) : sent'[i] = sent[i]
        /\ sent'[Len(sent) + 1] = e
    BY <1>0, <1>6
  <2>2. \A i \in 1..Len(sent) : sent[i] # DoneMark
    BY <1>2, <2>1 DEF Marked
  <2>3. Marked' <=> \E i \in DOMAIN sent' : sent'[i] = DoneMark
    BY DEF Marked
  <2>4. Len(sent) + 1 \in DOMAIN sent'
        /\ \A i \in DOMAIN sent' : i \in 1..Len(sent) \/ i = Len(sent) + 1
    BY <2>1
  <2> QED BY <2>1, <2>2, <2>3, <2>4
<1>7. CASE Head(events).type \notin {"error", "done"}
  <2>1. failure = NoError /\ sent' = Append(sent, Head(events))
        /\ UNCHANGED <<con, failure>>
    <3>1. failure = NoError
      BY <1>0, <1>7 DEF Control, NothingAfterError
    <3> QED BY <1>7, <3>1 DEF Consume
  <2>2. Head(events) # DoneMark
    BY <1>0, TypesOfEvents DEF DoneIsLast
  <2>3. ~Marked'
    BY <1>0, <1>6, <2>1, <2>2
  <2>4. Phase = "live" /\ Phase' = "live"
    BY <1>0, <1>3, <2>1, <2>3 DEF Phase, Marked
  <2>5. CASE Len(Reply(sent')) = Len(Reply(sent))
    BY <1>1, <2>4, <2>5 DEF Stream!vars, MadeSoFar
  <2>6. CASE Head(events).type \in ReplyEvents
               /\ Len(Reply(sent')) = Len(Reply(sent)) + 1
    <3>1. Len(Reply(events)) >= 1
      <4>1. Reply(Tail(events)) \in Seq(Events)
        BY <1>0, ReplyType
      <4>2. <<Head(events)>> \in Seq(Events) /\ Len(<<Head(events)>>) = 1
        BY <1>0
      <4>3. Len(Reply(events)) = 1 + Len(Reply(Tail(events)))
        BY <1>5, <2>6, <4>1, <4>2, ConcatProperties DEF Part
      <4>4. Len(Reply(Tail(events))) \in Nat
        BY <4>1
      <4> QED BY <4>3, <4>4
    <3>2. Len(Reply(sent)) < Len(MadeSoFar)
      BY <1>4, <3>1
    <3>3. Stream!Hear
      BY <1>1, <2>4, <2>6, <3>2 DEF Stream!Hear, MadeSoFar
    <3> QED BY <3>3 DEF Stream!Next
  <2> QED BY <1>1, <2>5, <2>6
<1>8. CASE Head(events).type \in {"error", "done"}
  <2>1. \A i \in DOMAIN events' : events'[i].type = "done"
    <3> SUFFICES ASSUME NEW i \in DOMAIN events' PROVE events[i + 1].type = "done"
      BY <1>0
    <3>1. i + 1 \in DOMAIN events /\ 1 < i + 1
      BY <1>0
    <3> QED BY <1>0, <1>8, <3>1 DEF LastWords, Ending
  <2>2. Reply(events) = <<>>
    <3>1. Reply(Tail(events)) = <<>>
      BY <1>0, <2>1, ReplyOfNone DEF ReplyEvents
    <3>2. Part(Head(events)) = <<>>
      BY <1>8 DEF Part, ReplyEvents
    <3>3. <<>> \o <<>> = <<>>
      OBVIOUS
    <3> QED BY <1>5, <3>1, <3>2, <3>3
  <2>3. Len(Reply(sent)) = Len(MadeSoFar)
    <3>1. Len(Reply(events)) = 0
      BY <2>2
    <3> QED BY <1>4, <3>1
  <2>4. Len(Reply(sent')) = Len(Reply(sent))
    BY <1>1, <1>8 DEF ReplyEvents
  <2>5. CASE Head(events).type = "error"
    <3>1. failure' = Head(events).no /\ UNCHANGED <<con, sent>>
      BY <1>8, <2>5 DEF Consume
    <3>2. failure' # NoError
      <4>1. Head(events).no \in RuntimeErrors
        BY <1>0, <2>5 DEF Events
      <4> QED BY <3>1, <4>1, StatusAssumption DEF RuntimeErrors, OtherError, NoError
    <3>3. ~Marked'
      BY <1>2, <3>1 DEF Marked
    <3>4. Phase' = "broken"
      BY <3>2, <3>3 DEF Phase, Marked
    <3>5. CASE Phase = "live"
      <4>1. Stream!Break
        BY <1>1, <2>3, <2>4, <3>4, <3>5 DEF Stream!Break, MadeSoFar
      <4> QED BY <4>1 DEF Stream!Next
    <3>6. CASE Phase = "broken"
      BY <1>1, <2>4, <3>4, <3>6 DEF Stream!vars, MadeSoFar
    <3> QED BY <1>3, <3>5, <3>6
  <2>6. CASE Head(events).type = "done" /\ failure = NoError
    <3>1. sent' = Append(sent, DoneMark)
      BY <2>6 DEF Consume
    <3>2. Marked'
      BY <1>6, <3>1, EventTypesOK
    <3>3. Phase = "live" /\ Phase' = "complete"
      BY <1>3, <2>6, <3>2 DEF Phase, Marked
    <3>4. Stream!Complete
      BY <1>1, <2>3, <2>4, <3>3 DEF Stream!Complete, MadeSoFar
    <3> QED BY <3>4 DEF Stream!Next
  <2>7. CASE Head(events).type = "done" /\ failure # NoError
    <3>1. con' = "failing" /\ sent' = sent
      BY <2>7 DEF Consume
    <3>2. failure' # NoError /\ ~Marked'
      BY <1>2, <3>1, StatusIsError DEF Control, TypeOK, Marked
    <3>3. Phase = "broken" /\ Phase' = "broken"
      BY <1>3, <2>7, <3>2 DEF Phase, Marked
    <3> QED BY <1>1, <2>4, <3>3 DEF Stream!vars, MadeSoFar
  <2> QED BY <1>8, <2>5, <2>6, <2>7
<1> QED BY <1>7, <1>8

\* Every step is a step of the stream, or leaves it as it is.
LEMMA StreamStep ==
  ASSUME Refining, Refining', [Next]_vars
  PROVE  [Stream!Next]_(Stream!vars)
<1>0. /\ Complete /\ Control /\ TypeOK /\ Numbered /\ Endings
      /\ Control' /\ Completed' /\ Promise'
  BY DEF Refining, Complete, Outcome, Control
<1> USE DEF replyVars, voiceVars
<1>1. CASE OpenRequest \/ Transcribe \/ CreateProducer
  BY <1>0, <1>1, FrontIsBreak
<1>2. CASE Consume
  BY <1>0, <1>2, ConsumeIsHear
<1>3. ASSUME UNCHANGED <<sent, events, Phase>>
      PROVE  [Stream!Next]_(Stream!vars)
  BY <1>3 DEF Stream!vars
<1>4. CASE RecordSuccess
  <2>1. Marked /\ Marked' /\ UNCHANGED <<sent, events>>
    BY <1>0, <1>4 DEF RecordSuccess, Endings, Marked
  <2>2. UNCHANGED Phase
    BY <2>1 DEF Phase, Marked
  <2> QED BY <1>3, <2>1, <2>2
<1>5. CASE RecordFailure
  <2>1. /\ failure # NoError /\ UNCHANGED <<failure, sent, events>>
    BY <1>0, <1>5, StatusIsError DEF RecordFailure, TypeOK
  <2>2. UNCHANGED Phase
    BY <2>1 DEF Phase
  <2> QED BY <1>3, <2>1, <2>2
<1>6. CASE Close
  <2>1. UNCHANGED <<sent, events, Phase>>
    BY <1>6 DEF Close, Phase
  <2> QED BY <1>3, <2>1
<1>7. CASE Disconnect
  <2>1. /\ UNCHANGED <<sent, events, failure>> /\ con \in Open
        /\ con' \in {"closing", "closed"}
    BY <1>7 DEF Disconnect
  <2>2. con \notin {"crashed", "closing", "closed"} /\ con' # "crashed"
    BY <2>1 DEF Open
  <2>3. Phase' = IF Phase = "live" THEN "left" ELSE Phase
    BY <2>1, <2>2 DEF Phase
  <2>4. CASE Phase = "live"
    <3>1. Stream!Leave
      BY <2>1, <2>3, <2>4 DEF Stream!Leave
    <3> QED BY <3>1 DEF Stream!Next
  <2>5. CASE Phase # "live"
    BY <1>3, <2>1, <2>3, <2>5
  <2> QED BY <2>4, <2>5
<1>8. CASE Produce \/ ReadLlm \/ Speak \/ UNCHANGED vars
  <2>1. UNCHANGED <<con, failure, sent>>
    BY <1>8 DEF Produce, EnterGroup, NeverStarted, AbortGroup, LeaveGroup, ReadLlm,
       ReadItem, FinishReading, ReadFails, ReadCancelled, Speak, TakeSentence,
       EndSentence, SpeakFails, SpeakCancelled, vars
  <2>2. UNCHANGED <<Phase, Reply(sent)>>
    BY <2>1 DEF Phase
  <2>3. CASE Kept
    BY <2>2, <2>3 DEF Kept, Stream!vars, MadeSoFar
  <2>4. ASSUME prod = "group", NEW e \in Events, Extended(e)
        PROVE  Stream!Next
    BY <1>0, <2>4, PutIsMake DEF Stream!Next
  <2> QED BY <1>0, <2>3, <2>4, WhatAStepMakes
<1> QED BY <1>1, <1>2, <1>4, <1>5, <1>6, <1>7, <1>8 DEF Next, Consumer, Over

\* The four tasks and their two queues implement the stream the client is
\* promised: one growing reply in order, heard from its beginning, marked
\* complete only when all of it was heard, and extended by nobody afterwards.
THEOREM StreamImplemented == Spec => Stream!Spec
<1>1. Refining /\ [Next]_vars => Refining' /\ [Stream!Next]_(Stream!vars)
  BY RefiningStep, StreamStep
<1> QED BY <1>1, RefiningInit, PTL DEF Spec, Stream!Spec

\* What is left of the refinement is that a request ends; when it does, so
\* does its stream.
THEOREM ImplementsStreamWhenItStops == Spec /\ EverythingStops => ImplementsStream
<1>1. Refining /\ con \in Ended => Phase # "live"
  <2> SUFFICES ASSUME Refining, con \in Ended PROVE Phase # "live"
    OBVIOUS
  <2>1. con = "returned" => Marked
    BY DEF Refining, Endings
  <2>2. con = "raised" => failure # NoError
    BY StatusIsError DEF Refining, Complete, Outcome, Records
  <2> QED BY <2>1, <2>2 DEF Phase, Marked, Ended
<1>2. Refining /\ [Next]_vars => Refining'
  BY RefiningStep
<1>3. Spec => []Refining
  BY <1>2, RefiningInit, PTL DEF Spec
<1>4. EverythingStops => <>(con \in Ended)
  BY PTL DEF EverythingStops
<1> QED
  BY <1>1, <1>3, <1>4, StreamImplemented, PTL
  DEF ImplementsStream, Stream!LiveSpec, Stream!StreamEnds

=============================================================================
