-------------------------- MODULE ConversationProofs --------------------------
(***************************************************************************)
(* Theorems about the voice conversation of the playground: Conversation,  *)
(* for any number of clicks, loops, turns and clips, and TurnDetector, for *)
(* every choice of its times.                                              *)
(***************************************************************************)
EXTENDS Conversation, TurnDetector, FiniteSetTheorems, WellFoundedInduction, TLAPS

Ears == [meter: Loops \cup {0}, recorder: Loops \cup {0},
         ticking: SUBSET Loops, recording: SUBSET (Loops \X Mics),
         stopping: SUBSET (Loops \X BOOLEAN), heard: SUBSET Loops]
Calls == [stage: {"none", "asking", "reading", "waiting"},
          aborted: BOOLEAN, waitsFor: Generations]
Clips == [head: {"none", "decoding", "source", "silent", "element"},
          queue: 0..MaxClips]
Phases == {"idle", "listening", "hearing", "thinking", "playing"}

\* The least of a set of natural numbers is one of them.
LEMMA MinIn == ASSUME NEW S \in SUBSET Nat, S # {} PROVE Min(S) \in S
<1> DEFINE Below == {0..n : n \in S}
<1>1. Below \subseteq FiniteSubsetsOf(Nat) /\ Below # {}
  <2>1. ASSUME NEW n \in S PROVE 0..n \in SUBSET Nat /\ IsFiniteSet(0..n)
    BY FS_Interval
  <2> QED
    BY <2>1 DEF FiniteSubsetsOf
<1>2. PICK I \in Below : \A J \in Below : ~(<<J, I>> \in StrictSubsetOrdering(Nat))
  BY <1>1, WFMin, FS_StrictSubsetOrderingWellFounded
<1>3. PICK x \in S : I = 0..x
  OBVIOUS
<1>4. ASSUME NEW y \in S, y < x PROVE FALSE
  <2>1. 0..y \in Below /\ 0..y \subseteq 0..x /\ x \in 0..x /\ x \notin 0..y
    BY <1>4
  <2>2. <<0..y, I>> \in StrictSubsetOrdering(Nat)
    BY <1>3, <2>1 DEF StrictSubsetOrdering
  <2> QED
    BY <1>2, <2>1, <2>2
<1>5. \A y \in S : x <= y
  BY <1>4
<1> QED
  BY <1>5 DEF Min

\* listen() leaves the stop events alone and opens at most one loop, and only
\* in a conversation.
LEMMA ListenEar ==
  ASSUME NEW e \in Ears, NEW on \in BOOLEAN, NEW m \in Mics \cup {0}, NEW S,
         Listen(e, on, m, S), phase \in Phases
  PROVE  /\ ear' \in Ears /\ phase' \in Phases /\ ear'.stopping = e.stopping
         /\ \/ ear' = e
            \/ /\ on
               /\ \E l \in Loops :
                    /\ ear'.meter = l /\ ear'.recorder = l
                    /\ ear'.ticking = e.ticking \cup {l}
                    /\ ear'.recording = e.recording \cup {<<l, m>>}
<1>1. CASE Analyser(on) /\ m # 0 /\ m \in S
  <2>1. Free(e) # {} /\ ear' = Opened(e, Min(Free(e)), m) /\ phase' = "listening"
    BY <1>1 DEF Listen
  <2>2. Free(e) \in SUBSET Loops /\ Loops \in SUBSET Nat
    BY BoundsAssumption DEF Free, Loops
  <2>3. Min(Free(e)) \in Loops
    BY <2>1, <2>2, MinIn
  <2> DEFINE l == Min(Free(e))
  <2> HIDE DEF l
  <2>4. l \in Loops /\ ear' = Opened(e, l, m) /\ m \in Mics
    BY <1>1, <2>1, <2>3 DEF l
  <2> DEFINE c == e.ticking \cup {l}
             d == e.recording \cup {<<l, m>>}
  <2>5. c \in SUBSET Loops /\ d \in SUBSET (Loops \X Mics)
    BY <2>4 DEF Ears
  <2>6. ear' = [e EXCEPT !.meter = l, !.recorder = l, !.ticking = c, !.recording = d]
    BY <2>4 DEF Opened
  <2> HIDE DEF c, d
  <2>7. /\ ear' \in Ears /\ ear'.stopping = e.stopping
        /\ ear'.meter = l /\ ear'.recorder = l
        /\ ear'.ticking = c /\ ear'.recording = d
    BY <2>4, <2>5, <2>6 DEF Ears
  <2> QED
    BY <1>1, <2>1, <2>4, <2>7 DEF Analyser, Phases, c, d
<1>2. CASE ~(Analyser(on) /\ m # 0 /\ m \in S)
  BY <1>2 DEF Listen, Phases
<1> QED
  BY <1>1, <1>2

\* stopMeter().
LEMMA UnmeteredEar ==
  ASSUME NEW e \in Ears
  PROVE  LET u == Unmetered(e)
         IN /\ u \in Ears
            /\ u.recorder = e.recorder /\ u.recording = e.recording
            /\ u.stopping = e.stopping /\ u.ticking = e.ticking \ {e.meter}
<1> DEFINE c == e.ticking \ {e.meter}
           d == e.heard \ {e.meter}
<1>1. c \in SUBSET Loops /\ d \in SUBSET Loops
  BY DEF Ears
<1>2. Unmetered(e) = [e EXCEPT !.meter = 0, !.ticking = c, !.heard = d]
  BY DEF Unmetered
<1> HIDE DEF c, d
<1>3. /\ Unmetered(e) \in Ears
      /\ Unmetered(e).recorder = e.recorder /\ Unmetered(e).recording = e.recording
      /\ Unmetered(e).stopping = e.stopping /\ Unmetered(e).ticking = c
  BY <1>1, <1>2 DEF Ears
<1> QED
  BY <1>3 DEF c

\* finish() clears what is current; the stop event of the recorder is added.
LEMMA FinishedEar ==
  ASSUME NEW e \in Ears, NEW send \in BOOLEAN
  PROVE  LET f == Finished(e, send)
         IN /\ f \in Ears
            /\ f.ticking = e.ticking \ {e.meter}
            /\ f.recording = {r \in e.recording : r[1] # e.recorder}
            /\ \A s \in f.stopping : s \in e.stopping \/ s = <<e.recorder, send>>
<1> DEFINE u == Unmetered(e)
           c == {r \in u.recording : r[1] # u.recorder}
           d == u.stopping \cup (IF u.recorder \in Recorded(u)
                                 THEN {<<u.recorder, send>>} ELSE {})
<1>1. /\ u \in Ears /\ u.recorder = e.recorder /\ u.recording = e.recording
      /\ u.stopping = e.stopping /\ u.ticking = e.ticking \ {e.meter}
  BY UnmeteredEar
<1>2. Finished(e, send) = [u EXCEPT !.recorder = 0, !.recording = c, !.stopping = d]
  BY DEF Finished, Recorderless
<1> HIDE DEF u
<1>3. u.recorder \in Recorded(u) => u.recorder \in Loops
  BY <1>1 DEF Ears, Recorded
<1>4. c \in SUBSET (Loops \X Mics) /\ d \in SUBSET (Loops \X BOOLEAN)
  BY <1>1, <1>3 DEF Ears
<1>5. \A s \in d : s \in e.stopping \/ s = <<e.recorder, send>>
  BY <1>1
<1>6. c = {r \in e.recording : r[1] # e.recorder}
  BY <1>1
<1> HIDE DEF c, d
<1>7. /\ Finished(e, send) \in Ears
      /\ Finished(e, send).ticking = u.ticking
      /\ Finished(e, send).recording = c /\ Finished(e, send).stopping = d
  BY <1>1, <1>2, <1>4 DEF Ears
<1> QED
  BY <1>1, <1>5, <1>6, <1>7

\* endConversation clears what is current or records the microphone.
LEMMA ClosedEar ==
  ASSUME NEW e \in Ears
  PROVE  LET f == Closed(e)
         IN /\ f \in Ears
            /\ f.ticking = e.ticking \ {e.meter} /\ f.stopping = e.stopping
            /\ f.recording = {r \in e.recording : r[1] # e.recorder /\ r[2] # mic}
<1> DEFINE u == Unmetered(e)
           c == {r \in u.recording : r[1] # e.recorder /\ r[2] # mic}
<1>1. /\ u \in Ears /\ u.recording = e.recording
      /\ u.stopping = e.stopping /\ u.ticking = e.ticking \ {e.meter}
  BY UnmeteredEar
<1>2. Closed(e) = [u EXCEPT !.recorder = 0, !.recording = c]
  BY DEF Closed
<1> HIDE DEF u
<1>3. /\ c \in SUBSET (Loops \X Mics)
      /\ c = {r \in e.recording : r[1] # e.recorder /\ r[2] # mic}
  BY <1>1 DEF Ears
<1> HIDE DEF c
<1>4. /\ Closed(e) \in Ears
      /\ Closed(e).ticking = u.ticking /\ Closed(e).stopping = u.stopping
      /\ Closed(e).recording = c
  BY <1>1, <1>2, <1>3 DEF Ears
<1> QED
  BY <1>1, <1>3, <1>4

-----------------------------------------------------------------------------
(* Types, and the microphones.                                             *)

\* There is a microphone while the conversation lasts and, if it got its
\* analyser, no longer; each stream was asked for by a click of its own.
Microphone ==
  /\ talking => mic # 0
  /\ Without({"no analyser"}) /\ mic # 0 => talking
  /\ Cardinality(live) + prompts <= starts
  /\ Without({"left at the prompt"}) /\ ~mounted => ~talking /\ prompts = 0

Oddities == {"second start", "left at the prompt", "early start",
             "no analyser", "broken reply", "stale element", "unplugged"}

\* The type invariant in the words of the definitions above.
Typed ==
  /\ audio \in BOOLEAN /\ mounted \in BOOLEAN
  /\ talking \in BOOLEAN /\ pending \in BOOLEAN
  /\ prompts \in 0..MaxStarts /\ starts \in 0..MaxStarts
  /\ phase \in Phases /\ mic \in Mics \cup {0} /\ live \in SUBSET Mics
  /\ ear \in Ears /\ turn \in [Turns -> Calls]
  /\ inflight \in Turns \cup {0} /\ generation \in Generations
  /\ chain \in [Generations -> Clips] /\ odd \subseteq Oddities

\* A new stream gets a number that is free.
LEMMA FreeMic ==
  ASSUME Typed, Microphone, prompts > 0
  PROVE  Min(Mics \ live) \in Mics \ live
<1>0. MaxStarts \in Nat
  BY BoundsAssumption
<1>1. /\ MaxStarts \in Nat /\ Mics \in SUBSET Nat /\ live \in SUBSET Mics
      /\ prompts \in Nat /\ starts \in Nat /\ starts <= MaxStarts
  BY <1>0 DEF Typed, Mics
<1>2. IsFiniteSet(Mics) /\ Cardinality(Mics) = MaxStarts
  BY <1>1, FS_Interval DEF Mics
<1>3. Mics \ live # {}
  <2>1. Cardinality(live) + prompts <= starts
    BY DEF Microphone
  <2>2. live # Mics
    BY <1>1, <1>2, <2>1
  <2> QED
    BY <1>1, <2>2
<1> QED
  BY <1>1, <1>3, MinIn

\* The bounds are numbers.
LEMMA Bounds ==
  /\ MaxOdd \in Nat /\ MaxStarts \in Nat /\ MaxEnds \in Nat
  /\ MaxLoops \in Nat /\ MaxTurns \in Nat /\ MaxClips \in Nat
  /\ MaxStarts > 0 /\ MaxEnds > 0 /\ MaxLoops > 0 /\ MaxTurns > 0 /\ MaxClips > 0
BY BoundsAssumption

\* 0 stands for none.
LEMMA NoneIsZero == 0 \notin Mics /\ 0 \notin Turns
BY Bounds DEF Mics, Turns

\* What happened once is remembered.
LEMMA Noted ==
  ASSUME Typed, NEW events \in SUBSET Oddities, Note(events)
  PROVE  odd' \subseteq Oddities /\ odd \subseteq odd' /\ events \subseteq odd'
BY DEF Typed, Note

\* A turn that is over leaves everything typed.
LEMMA DoneTyped ==
  ASSUME Typed, NEW t \in Turns, Done(t)
  PROVE  /\ turn' \in [Turns -> Calls] /\ inflight' \in Turns \cup {0}
         /\ pending' = FALSE /\ ear' \in Ears /\ phase' \in Phases
<1>1. NoTurn \in Calls
  BY Bounds DEF NoTurn, Calls, Generations
<1>2. turn' \in [Turns -> Calls] /\ inflight' \in Turns \cup {0} /\ pending' = FALSE
  BY <1>1 DEF Done, Typed
<1>3. ear' \in Ears /\ phase' \in Phases
  BY ListenEar DEF Done, Typed
<1> QED
  BY <1>2, <1>3

\* Listening keeps the types.
LEMMA ListeningTyped ==
  ASSUME Typed
  PROVE  /\ \A l \in Loops : Hear(l) \/ StartOver(l) \/ TurnSpoken(l) => Typed'
         /\ Stopping \/ Unplug => Typed'
<1> USE DEF Typed
<1>1. ASSUME NEW l \in Loops, Hear(l) PROVE Typed'
  <2>1. ear' \in Ears /\ phase' \in Phases
    BY <1>1 DEF Hear, Ears, Phases
  <2> QED
    BY <1>1, <2>1 DEF Hear, Page, Voice, Sound
<1>2. ASSUME NEW l \in Loops, StartOver(l) PROVE Typed'
  <2>1. Finished(ear, FALSE) \in Ears
    BY FinishedEar
  <2>2. ear' \in Ears /\ phase' \in Phases
    BY <1>2, <2>1, ListenEar DEF StartOver
  <2> QED
    BY <1>2, <2>2 DEF StartOver, Page, Voice, Sound
<1>3. ASSUME NEW l \in Loops, TurnSpoken(l) PROVE Typed'
  <2>1. Finished(ear, TRUE) \in Ears
    BY FinishedEar
  <2> QED
    BY <1>3, <2>1 DEF TurnSpoken, Page, Voice, Sound
<1>4. ASSUME NEW s \in Loops \X BOOLEAN, Stopped(s) PROVE Typed'
  <2>1. ear' \in Ears
    BY <1>4 DEF Stopped, Ears
  <2>2. CASE s[2] /\ talking
    <3>1. PICK t \in Turns : /\ turn' = [turn EXCEPT ![t].stage = "asking"]
                             /\ inflight' = t /\ pending' = TRUE /\ phase' = "thinking"
      BY <1>4, <2>2 DEF Stopped
    <3>2. turn' \in [Turns -> Calls]
      BY <3>1 DEF Calls
    <3> QED
      BY <1>4, <2>1, <3>1, <3>2 DEF Stopped, Page, Sound, Phases
  <2>3. CASE ~(s[2] /\ talking)
    BY <1>4, <2>1, <2>3 DEF Stopped, Page, Voice, Sound
  <2> QED
    BY <2>2, <2>3
<1>5. CASE Unplug
  <2>1. ear' \in Ears
    BY <1>5 DEF Unplug, Ears
  <2>2. odd' \subseteq Oddities
    BY <1>5, Noted DEF Unplug, Oddities
  <2> QED
    BY <1>5, <2>1, <2>2 DEF Unplug, Page, Voice, Sound
<1> QED
  BY <1>1, <1>2, <1>3, <1>4, <1>5 DEF Stopping

\* The turns keep the types.
LEMMA TurnTyped ==
  ASSUME Typed, NEW t \in Turns, Turning(t) \/ Audio(t)
  PROVE  Typed'
<1> USE DEF Typed
<1>1. CASE Refused(t) \/ Aborted(t) \/ PlayedOut(t)
  <2>1. Done(t) /\ UNCHANGED <<Page, talking, mic, live, Sound, odd>>
    BY <1>1 DEF Refused, Aborted, PlayedOut
  <2> QED
    BY <2>1, DoneTyped DEF Page, Sound
<1>2. CASE StreamBreaks(t)
  <2>1. Done(t) /\ UNCHANGED <<Page, talking, mic, live, Sound>>
    BY <1>2 DEF StreamBreaks
  <2>2. odd' \subseteq Oddities
    BY <1>2, Noted DEF StreamBreaks, Oddities
  <2> QED
    BY <2>1, <2>2, DoneTyped DEF Page, Sound
<1>3. CASE Answered(t)
  <2>1. turn' \in [Turns -> Calls]
    BY <1>3 DEF Answered, Calls
  <2> QED
    BY <1>3, <2>1 DEF Answered, Page, Sound
<1>4. CASE StreamEnds(t)
  <2>1. turn' \in [Turns -> Calls]
    BY <1>4 DEF StreamEnds, Calls
  <2> QED
    BY <1>4, <2>1 DEF StreamEnds, Page, Sound
<1>5. CASE Audio(t)
  <2>1. chain' \in [Generations -> Clips]
    BY <1>5, Bounds DEF Audio, Clips
  <2>2. phase' \in Phases
    BY <1>5 DEF Audio, Phases
  <2> QED
    BY <1>5, <2>1, <2>2 DEF Audio, Page, Voice
<1> QED
  BY <1>1, <1>2, <1>3, <1>4, <1>5 DEF Turning

\* The clips keep the types.
LEMMA ClipTyped ==
  ASSUME Typed, NEW g \in Generations, Playing(g)
  PROVE  Typed' /\ odd \subseteq odd'
<1> USE DEF Typed
<1>1. chain' \in [Generations -> Clips]
  <2>1. CASE NextClip(g)
    <3> DEFINE h == IF g = generation THEN "decoding" ELSE "none"
               q == chain[g].queue - 1
    <3>1. h \in {"none", "decoding"} /\ q \in 0..MaxClips
      BY <2>1, Bounds DEF NextClip, Clips
    <3>2. chain' = [chain EXCEPT ![g].queue = q, ![g].head = h]
      BY <2>1 DEF NextClip
    <3> HIDE DEF h, q
    <3> QED
      BY <3>1, <3>2 DEF Clips
  <2>2. CASE Decoded(g) \/ Undecodable(g) \/ ClipEnds(g)
    BY <2>2, ZenonT(60) DEF Decoded, Undecodable, ClipEnds, Clips
  <2> QED
    BY <2>1, <2>2 DEF Playing
<1>2. odd' \subseteq Oddities /\ odd \subseteq odd'
  <2>1. CASE Undecodable(g)
    BY <2>1, Noted DEF Undecodable, Oddities
  <2> QED
    BY <2>1 DEF Playing, NextClip, Decoded, ClipEnds
<1>3. UNCHANGED <<audio, mounted, prompts, starts, talking, phase, mic, live, ear, turn,
                  inflight, pending, generation>>
  BY DEF Playing, NextClip, Decoded, Undecodable, ClipEnds, Quiet, Page, Voice
<1> QED
  BY <1>1, <1>2, <1>3

\* The clicks keep the types.
LEMMA PageTyped ==
  ASSUME Typed, Microphone,
         Start \/ Grant \/ GrantWithoutAnalyser \/ Deny \/ End \/ LeavePage
  PROVE  Typed' /\ odd \subseteq odd'
<1> USE DEF Typed
<1>1. CASE Start
  <2>1. odd' \subseteq Oddities /\ odd \subseteq odd'
    BY <1>1, Noted DEF Start, Oddities
  <2>2. starts' \in 0..MaxStarts /\ prompts' \in 0..MaxStarts
    <3>1. IsFiniteSet(Mics)
      BY Bounds, FS_Interval DEF Mics
    <3>2. Cardinality(live) \in Nat
      BY <3>1, FS_Subset, FS_CardinalityType
    <3>3. /\ Cardinality(live) + prompts <= starts
          /\ starts < MaxStarts /\ prompts' = prompts + 1 /\ starts' = starts + 1
      BY <1>1 DEF Start, Microphone
    <3> QED
      BY <3>2, <3>3, Bounds
  <2> QED
    BY <1>1, <2>1, <2>2 DEF Start, Voice, Sound
<1>2. CASE Grant \/ GrantWithoutAnalyser
  <2>0. Streaming
    BY <1>2 DEF Grant, GrantWithoutAnalyser
  <2>1. odd' \subseteq Oddities /\ odd \subseteq odd'
    BY <1>2, Noted DEF Grant, GrantWithoutAnalyser, Oddities
  <2>2. prompts' \in 0..MaxStarts
    <3>1. prompts > 0 /\ prompts' = prompts - 1
      BY <2>0 DEF Streaming
    <3> QED
      BY <3>1, Bounds
  <2>3. mic' \in Mics
    BY <2>0, FreeMic DEF Streaming
  <2>4. ear' \in Ears /\ phase' \in Phases /\ talking' \in BOOLEAN
    BY <1>2, <2>3, ListenEar DEF Grant, GrantWithoutAnalyser
  <2> QED
    BY <2>0, <2>1, <2>2, <2>3, <2>4 DEF Streaming, Voice, Sound
<1>3. CASE Deny
  BY <1>3, Bounds DEF Deny, Voice, Sound
<1>4. CASE End \/ LeavePage
  <2>1. EndConversation /\ mounted' \in BOOLEAN
    BY <1>4 DEF End, LeavePage
  <2>2. odd' \subseteq Oddities /\ odd \subseteq odd'
    <3>1. Left \in SUBSET Oddities
      BY DEF Left, Oddities
    <3> QED
      BY <1>4, <3>1, Noted DEF End, LeavePage
  <2>3. ear' \in Ears
    BY <2>1, ClosedEar DEF EndConversation
  <2>4. turn' \in [Turns -> Calls]
    BY <2>1 DEF EndConversation, Aborting, Calls
  <2>5. generation' \in Generations
    BY <2>1, Bounds DEF EndConversation, Generations
  <2>6. chain' \in [Generations -> Clips]
    BY <2>1 DEF EndConversation, Clips
  <2> QED
    BY <2>1, <2>2, <2>3, <2>4, <2>5, <2>6 DEF EndConversation, Phases
<1> QED
  BY <1>1, <1>2, <1>3, <1>4

\* Every step keeps the types and remembers what happened.
LEMMA TypedStep ==
  ASSUME Typed, Microphone, [Next]_vars
  PROVE  Typed' /\ odd \subseteq odd'
<1>1. CASE UNCHANGED vars \/ Over
  BY <1>1 DEF vars, Over, Typed
<1>2. ASSUME NEW l \in Loops, Hear(l) \/ StartOver(l) \/ TurnSpoken(l)
      PROVE  Typed' /\ odd \subseteq odd'
  BY <1>2, ListeningTyped DEF Hear, StartOver, TurnSpoken
<1>3. CASE Stopping
  BY <1>3, ListeningTyped DEF Stopping, Stopped
<1>4. CASE Unplug
  BY <1>4, ListeningTyped DEF Unplug, Note
<1>5. ASSUME NEW t \in Turns, Turning(t) \/ Audio(t)
      PROVE  Typed' /\ odd \subseteq odd'
  <2>1. odd \subseteq odd'
    BY <1>5 DEF Turning, Refused, Answered, StreamEnds, Aborted, StreamBreaks,
                PlayedOut, Audio, Note
  <2> QED
    BY <1>5, <2>1, TurnTyped
<1>6. ASSUME NEW g \in Generations, Playing(g)
      PROVE  Typed' /\ odd \subseteq odd'
  BY <1>6, ClipTyped
<1>7. CASE Start \/ Grant \/ GrantWithoutAnalyser \/ Deny \/ End \/ LeavePage
  BY <1>7, PageTyped
<1> QED
  BY <1>1, <1>2, <1>3, <1>4, <1>5, <1>6, <1>7 DEF Next

\* A click asks for one stream at a time, and the end of the conversation stops
\* the stream it had.
LEMMA MicrophoneStep ==
  ASSUME Typed, Typed', Microphone, [Next]_vars
  PROVE  Microphone'
<1> DEFINE n == Cardinality(live)
           k == Cardinality(live')
<1>0. /\ live \in SUBSET Mics /\ live' \in SUBSET Mics
      /\ prompts \in Nat /\ starts \in Nat /\ prompts' \in Nat /\ starts' \in Nat
      /\ talking \in BOOLEAN /\ 0 \notin Mics
  BY Bounds DEF Typed, Mics
<1>1. IsFiniteSet(Mics)
  BY Bounds, FS_Interval DEF Mics
<1>2. IsFiniteSet(live) /\ n \in Nat /\ k \in Nat
  BY <1>0, <1>1, FS_Subset, FS_CardinalityType
<1>3. n + prompts <= starts
  BY DEF Microphone
<1>n. /\ n \in Nat /\ k \in Nat /\ prompts \in Nat /\ starts \in Nat
      /\ prompts' \in Nat /\ starts' \in Nat
  BY <1>0, <1>2
<1>4. live' = live \ {mic} => k <= n
  BY <1>2, FS_Subset
<1>5. CASE UNCHANGED <<talking, mic, mounted, live, prompts, starts>> /\ odd \subseteq odd'
  BY <1>5 DEF Microphone, Without
<1>6. CASE Unplug
  <2>1. /\ live' = live \ {mic} /\ odd \subseteq odd'
        /\ UNCHANGED <<mounted, prompts, starts, talking, mic>>
    BY <1>6 DEF Unplug, Note, Page
  <2>2. k + prompts' <= starts'
    <3>1. k <= n /\ prompts' = prompts /\ starts' = starts
      BY <1>4, <2>1
    <3> HIDE DEF n, k
    <3> QED
      BY <1>n, <1>3, <3>1
  <2> QED
    BY <2>1, <2>2 DEF Microphone, Without
<1>7. CASE Start
  <2>1. /\ mounted /\ odd \subseteq odd' /\ UNCHANGED <<mounted, live, talking, mic>>
        /\ prompts' = prompts + 1 /\ starts' = starts + 1
    BY <1>7 DEF Start, Note
  <2>2. k + prompts' <= starts'
    <3>1. k = n
      BY <2>1
    <3> HIDE DEF n, k
    <3> QED
      BY <1>n, <1>3, <2>1, <3>1
  <2> QED
    BY <2>1, <2>2 DEF Microphone, Without
<1>8. CASE Grant \/ GrantWithoutAnalyser
  <2>0. Streaming
    BY <1>8 DEF Grant, GrantWithoutAnalyser
  <2>1. mic' \in Mics \ live /\ live' = live \cup {mic'}
    BY <2>0, FreeMic DEF Streaming
  <2>2. /\ prompts > 0 /\ prompts' = prompts - 1 /\ UNCHANGED <<mounted, starts>>
    BY <2>0 DEF Streaming
  <2>3. k + prompts' <= starts'
    <3>1. k = n + 1
      BY <1>2, <2>1, FS_AddElement
    <3> HIDE DEF n, k
    <3> QED
      BY <1>n, <1>3, <2>2, <3>1
  <2>4. prompts # 0
    <3>1. prompts > 0
      BY <2>2
    <3> QED
      BY <1>n, <3>1
  <2>5. /\ talking' => talking \/ talking' = TRUE
        /\ talking' = TRUE \/ "no analyser" \in odd'
        /\ odd \subseteq odd'
    BY <1>8 DEF Grant, GrantWithoutAnalyser, Note
  <2>6. mic' # 0 /\ (Without({"no analyser"})' /\ mic' # 0 => talking')
    BY <1>0, <2>1, <2>5 DEF Without
  <2>7. Without({"left at the prompt"})' /\ ~mounted' => ~talking' /\ prompts' = 0
    BY <2>2, <2>4, <2>5 DEF Microphone, Without
  <2> QED
    BY <2>3, <2>6, <2>7 DEF Microphone
<1>9. CASE Deny
  <2>1. /\ prompts > 0 /\ prompts' = prompts - 1 /\ odd' = odd
        /\ UNCHANGED <<mounted, starts, live, talking, mic>>
    BY <1>9 DEF Deny
  <2>2. k + prompts' <= starts'
    <3>1. k = n
      BY <2>1
    <3> HIDE DEF n, k
    <3> QED
      BY <1>n, <1>3, <2>1, <3>1
  <2>3. prompts # 0
    BY <1>0, <2>1
  <2> QED
    BY <2>1, <2>2, <2>3 DEF Microphone, Without
<1>10. CASE End \/ LeavePage
  <2>1. EndConversation /\ odd' = odd \cup Left
    BY <1>10 DEF End, LeavePage, Note
  <2>2. /\ talking' = FALSE /\ mic' = 0 /\ live' = live \ {mic}
        /\ UNCHANGED <<starts, prompts>>
    BY <2>1 DEF EndConversation
  <2>3. k + prompts' <= starts'
    <3>1. k <= n /\ prompts' = prompts /\ starts' = starts
      BY <1>4, <2>2
    <3> HIDE DEF n, k
    <3> QED
      BY <1>n, <1>3, <3>1
  <2>4. Without({"left at the prompt"})' => prompts' = 0
    <3>1. prompts > 0 => "left at the prompt" \in odd'
      BY <2>1 DEF Left
    <3>2. prompts' = 0 \/ prompts > 0
      BY <1>0, <2>2
    <3> QED
      BY <3>1, <3>2 DEF Without
  <2> QED
    BY <2>2, <2>3, <2>4 DEF Microphone
<1> QED
  <2>1. ASSUME NEW l \in Loops, Hear(l) \/ StartOver(l) \/ TurnSpoken(l)
        PROVE  Microphone'
    BY <1>5, <2>1 DEF Hear, StartOver, TurnSpoken, Page
  <2>2. ASSUME NEW t \in Turns, Turning(t) \/ Audio(t)
        PROVE  Microphone'
    BY <1>5, <2>2 DEF Turning, Refused, Answered, StreamEnds, Aborted,
                      StreamBreaks, PlayedOut, Audio, Note, Page
  <2>3. ASSUME NEW g \in Generations, Playing(g)
        PROVE  Microphone'
    BY <1>5, <2>3 DEF Playing, NextClip, Decoded, Undecodable, ClipEnds, Note,
                      Quiet, Page
  <2>4. CASE Stopping \/ UNCHANGED vars \/ Over
    BY <1>5, <2>4 DEF Stopping, Stopped, Over, vars, Page
  <2> QED
    BY <1>6, <1>7, <1>8, <1>9, <1>10, <2>1, <2>2, <2>3, <2>4 DEF Next

-----------------------------------------------------------------------------
(* One loop or one turn.                                                   *)

\* The recorders whose stop event will send a turn.
Sending == {s \in ear.stopping : s[2]}

\* The conversation is asked for when none is under way.
Asked == prompts <= 1 /\ (prompts = 1 => ~talking /\ inflight = 0)

\* What runs is what meter, recorder and micStream name, between two turns; a
\* stream that got no analyser may be left behind by the next.
Listening ==
  /\ Without({"no analyser"}) => live \subseteq {mic}
  /\ ear.ticking \subseteq {ear.meter}
  /\ ear.recording \subseteq {<<ear.recorder, mic>>}
  /\ ear.ticking # {} \/ ear.recording # {} =>
       talking /\ inflight = 0 /\ Sending = {}

\* One turn is about to be sent, and not while another is under way.
Sent == /\ Sending # {} => inflight = 0
        /\ \A s, u \in Sending : s = u

\* The turn under way is the one that End would abort, and has not yet.
Called ==
  /\ Underway = {inflight} \ {0} /\ (pending <=> inflight # 0)
  /\ \A t \in Underway :
       /\ turn[t].aborted <=> ~talking
       /\ turn[t].stage = "waiting" /\ talking => turn[t].waitsFor = generation

Control == Without(Restarts) => Asked /\ Listening /\ Sent /\ Called

\* listen() after everything has been finished.
LEMMA CleanListen ==
  ASSUME NEW e \in Ears, NEW on \in BOOLEAN, NEW m \in Mics \cup {0}, NEW S,
         Listen(e, on, m, S), phase \in Phases, e.ticking = {}, e.recording = {}
  PROVE  /\ ear'.ticking \subseteq {ear'.meter} /\ ear'.stopping = e.stopping
         /\ ear'.recording \subseteq {<<ear'.recorder, m>>}
         /\ ear'.ticking # {} \/ ear'.recording # {} => on
BY ListenEar

\* The end of a turn, after which the page listens.
LEMMA DoneControl ==
  ASSUME Typed, Microphone, Asked, Listening, Sent, Called,
         NEW t \in Turns, turn[t].stage # "none", Done(t),
         UNCHANGED <<Page, talking, mic, live, Sound>>, odd \subseteq odd'
  PROVE  Asked' /\ Listening' /\ Sent' /\ Called'
<1>1. t \in Underway /\ t = inflight /\ inflight # 0
  BY DEF Called, Underway, NoTurn
<1>2. ear.ticking = {} /\ ear.recording = {} /\ Sending = {}
  BY <1>1 DEF Listening, Sent
<1>3. inflight' = 0 /\ pending' = FALSE /\ turn' = [turn EXCEPT ![t] = NoTurn]
  BY <1>1 DEF Done
<1>4. Underway' = {}
  <2>1. \A u \in Turns : u # t => turn[u] = NoTurn
    BY <1>1 DEF Called, Underway
  <2> QED
    BY <1>3, <2>1 DEF Underway, Typed
<1>5. Called'
  BY <1>3, <1>4 DEF Called
<1>6. /\ ear'.ticking \subseteq {ear'.meter} /\ ear'.stopping = ear.stopping
      /\ ear'.recording \subseteq {<<ear'.recorder, mic>>}
      /\ ear'.ticking # {} \/ ear'.recording # {} => talking
  BY <1>2, CleanListen DEF Done, Typed
<1>7. Sending' = {}
  BY <1>2, <1>6 DEF Sending
<1>8. UNCHANGED <<talking, mic, live, prompts>>
  BY DEF Page
<1>9. Sent'
  BY <1>7 DEF Sent
<1>10. Asked'
  BY <1>3, <1>8 DEF Asked
<1>11. Listening'
  <2>1. Without({"no analyser"})' => live' \subseteq {mic'}
    BY <1>8 DEF Listening, Without
  <2>2. /\ ear'.ticking \subseteq {ear'.meter}
        /\ ear'.recording \subseteq {<<ear'.recorder, mic'>>}
    BY <1>6, <1>8
  <2>3. ear'.ticking # {} \/ ear'.recording # {} => talking'
    BY <1>6, <1>8
  <2> QED
    BY <1>3, <1>7, <2>1, <2>2, <2>3 DEF Listening
<1> QED
  BY <1>5, <1>9, <1>10, <1>11

\* A loop that has ended leaves nothing running and at most its own turn to send.
LEMMA FinishControl ==
  ASSUME Typed, Listening, NEW send \in BOOLEAN
  PROVE  LET f == Finished(ear, send)
         IN /\ f \in Ears /\ f.ticking = {} /\ f.recording = {}
            /\ \A s \in f.stopping : s[2] => s \in Sending \/ s = <<ear.recorder, send>>
<1> DEFINE f == Finished(ear, send)
<1>1. /\ f \in Ears
      /\ f.ticking = ear.ticking \ {ear.meter}
      /\ f.recording = {r \in ear.recording : r[1] # ear.recorder}
      /\ \A s \in f.stopping : s \in ear.stopping \/ s = <<ear.recorder, send>>
  BY FinishedEar DEF Typed
<1> HIDE DEF f
<1>2. f.ticking = {} /\ f.recording = {}
  <2>1. ear.ticking \subseteq {ear.meter} /\ ear.recording \subseteq {<<ear.recorder, mic>>}
    BY DEF Listening
  <2> QED
    BY <1>1, <2>1
<1>3. \A s \in f.stopping : s[2] => s \in Sending \/ s = <<ear.recorder, send>>
  BY <1>1 DEF Sending
<1> QED
  BY <1>1, <1>2, <1>3 DEF f

\* Listening keeps the control.
LEMMA ListeningControl ==
  ASSUME Typed, Microphone, Asked, Listening, Sent, Called
  PROVE  /\ \A l \in Loops : Hear(l) \/ StartOver(l) \/ TurnSpoken(l) =>
              Asked' /\ Listening' /\ Sent' /\ Called'
         /\ Unplug => Asked' /\ Listening' /\ Sent' /\ Called'
<1>1. ASSUME NEW l \in Loops, Hear(l)
      PROVE  Asked' /\ Listening' /\ Sent' /\ Called'
  <2>1. /\ ear'.meter = ear.meter /\ ear'.recorder = ear.recorder
        /\ ear'.ticking = ear.ticking /\ ear'.recording = ear.recording
        /\ ear'.stopping = ear.stopping
    BY <1>1 DEF Hear, Typed, Ears
  <2>2. UNCHANGED <<prompts, talking, mic, live, turn, inflight, pending, generation, odd>>
    BY <1>1 DEF Hear, Page, Voice, Sound
  <2>3. Sending' = Sending /\ Underway' = Underway
    BY <2>1, <2>2 DEF Sending, Underway
  <2> QED
    BY <2>1, <2>2, <2>3 DEF Asked, Listening, Sent, Called, Without
<1>2. ASSUME NEW l \in Loops, StartOver(l)
      PROVE  Asked' /\ Listening' /\ Sent' /\ Called'
  <2>1. talking /\ inflight = 0 /\ Sending = {}
    BY <1>2 DEF StartOver, Listening
  <2> DEFINE f == Finished(ear, FALSE)
  <2>2. /\ f \in Ears /\ f.ticking = {} /\ f.recording = {}
        /\ \A s \in f.stopping : s[2] => s \in Sending \/ s = <<ear.recorder, FALSE>>
    BY FinishControl
  <2>3. Listen(f, talking, mic, live)
    BY <1>2 DEF StartOver
  <2> HIDE DEF f
  <2>4. /\ ear'.ticking \subseteq {ear'.meter} /\ ear'.stopping = f.stopping
        /\ ear'.recording \subseteq {<<ear'.recorder, mic>>}
    BY <2>2, <2>3, CleanListen DEF Typed
  <2>5. Sending' = {}
    <3>1. \A s \in f.stopping : s[2] => s = <<ear.recorder, FALSE>>
      BY <2>1, <2>2
    <3>2. <<ear.recorder, FALSE>>[2] = FALSE
      OBVIOUS
    <3>3. \A s \in f.stopping : ~s[2]
      BY <3>1, <3>2
    <3> QED
      BY <2>4, <3>3 DEF Sending
  <2>6. UNCHANGED <<prompts, talking, mic, live, turn, inflight, pending, generation, odd>>
    BY <1>2 DEF StartOver, Page, Voice, Sound
  <2>7. Underway' = Underway
    BY <2>6 DEF Underway
  <2> QED
    BY <2>1, <2>4, <2>5, <2>6, <2>7 DEF Asked, Listening, Sent, Called, Without
<1>3. ASSUME NEW l \in Loops, TurnSpoken(l)
      PROVE  Asked' /\ Listening' /\ Sent' /\ Called'
  <2>1. talking /\ inflight = 0 /\ Sending = {}
    BY <1>3 DEF TurnSpoken, Listening
  <2>2. ear' = Finished(ear, TRUE)
    BY <1>3 DEF TurnSpoken
  <2>3. /\ ear'.ticking = {} /\ ear'.recording = {}
        /\ \A s \in ear'.stopping : s[2] => s \in Sending \/ s = <<ear.recorder, TRUE>>
    BY <2>2, FinishControl
  <2>4. \A s \in Sending' : s = <<ear.recorder, TRUE>>
    BY <2>1, <2>3 DEF Sending
  <2>5. UNCHANGED <<prompts, talking, mic, live, turn, inflight, pending, generation, odd>>
    BY <1>3 DEF TurnSpoken, Page, Voice, Sound
  <2>6. Underway' = Underway
    BY <2>5 DEF Underway
  <2> QED
    BY <2>1, <2>3, <2>4, <2>5, <2>6 DEF Asked, Listening, Sent, Called, Without
<1>4. ASSUME Unplug
      PROVE  Asked' /\ Listening' /\ Sent' /\ Called'
  <2>1. /\ ear'.meter = ear.meter /\ ear'.recorder = ear.recorder
        /\ ear'.ticking = ear.ticking /\ ear'.recording \subseteq ear.recording
        /\ ear'.stopping = ear.stopping /\ live' \subseteq live
        /\ odd \subseteq odd'
    BY <1>4 DEF Unplug, Typed, Ears, Note
  <2>2. UNCHANGED <<prompts, talking, mic, turn, inflight, pending, generation>>
    BY <1>4 DEF Unplug, Page, Voice, Sound
  <2>3. Sending' = Sending /\ Underway' = Underway
    BY <2>1, <2>2 DEF Sending, Underway
  <2> QED
    BY <2>1, <2>2, <2>3 DEF Asked, Listening, Sent, Called, Without
<1> QED
  BY <1>1, <1>2, <1>3, <1>4

\* A recorder that has stopped sends its turn, if the conversation still lasts.
LEMMA StoppedControl ==
  ASSUME Typed, Microphone, Asked, Listening, Sent, Called,
         NEW s \in Loops \X BOOLEAN, Stopped(s)
  PROVE  Asked' /\ Listening' /\ Sent' /\ Called'
<1>1. s \in ear.stopping /\ ear' = [ear EXCEPT !.stopping = @ \ {s}]
  BY DEF Stopped
<1>2. /\ ear'.meter = ear.meter /\ ear'.recorder = ear.recorder
      /\ ear'.ticking = ear.ticking /\ ear'.recording = ear.recording
      /\ ear'.stopping = ear.stopping \ {s}
  BY <1>1 DEF Typed, Ears
<1>3. Sending' = Sending \ {s}
  BY <1>2 DEF Sending
<1>4. UNCHANGED <<prompts, talking, mic, live, generation, odd>>
  BY DEF Stopped, Page, Sound
<1>5. CASE s[2] /\ talking
  <2>1. s \in Sending
    BY <1>1, <1>5 DEF Sending
  <2>2. inflight = 0 /\ Sending' = {} /\ ear.ticking = {} /\ ear.recording = {}
    BY <1>3, <2>1 DEF Sent, Listening
  <2>3. PICK t \in Turns : /\ turn[t] = NoTurn /\ inflight' = t /\ pending' = TRUE
                           /\ turn' = [turn EXCEPT ![t].stage = "asking"]
    BY <1>5 DEF Stopped
  <2>4. \A u \in Turns : turn[u] = NoTurn
    BY <2>2 DEF Called, Underway
  <2>5. /\ \A u \in Turns : u # t => turn'[u] = NoTurn
        /\ turn'[t].stage = "asking" /\ turn'[t].aborted = FALSE
    BY <2>3, <2>4 DEF Typed, Calls, NoTurn
  <2>6. Underway' = {t} /\ t # 0
    BY <2>5, Bounds DEF Underway, NoTurn, Turns
  <2>7. Called'
    BY <1>4, <1>5, <2>3, <2>5, <2>6 DEF Called
  <2>8. Asked'
    BY <1>4, <1>5, Bounds DEF Asked, Typed
  <2> QED
    BY <1>2, <1>4, <2>2, <2>7, <2>8 DEF Listening, Sent, Without
<1>6. CASE ~(s[2] /\ talking)
  <2>1. UNCHANGED <<turn, inflight, pending>>
    BY <1>6 DEF Stopped, Voice
  <2>2. Underway' = Underway
    BY <2>1 DEF Underway
  <2> QED
    BY <1>2, <1>3, <1>4, <2>1, <2>2 DEF Asked, Listening, Sent, Called, Without
<1> QED
  BY <1>5, <1>6

\* The steps of a turn keep the control.
LEMMA TurnControl ==
  ASSUME Typed, Microphone, Asked, Listening, Sent, Called,
         NEW t \in Turns, Turning(t) \/ Audio(t)
  PROVE  Asked' /\ Listening' /\ Sent' /\ Called'
<1>1. CASE Refused(t) \/ Aborted(t) \/ PlayedOut(t) \/ StreamBreaks(t)
  <2>1. /\ Done(t) /\ turn[t].stage # "none" /\ odd \subseteq odd'
        /\ UNCHANGED <<Page, talking, mic, live, Sound>>
    BY <1>1 DEF Refused, Aborted, PlayedOut, StreamBreaks, Note
  <2> QED
    BY <2>1, DoneControl
<1>2. CASE Answered(t) \/ StreamEnds(t)
  <2>1. UNCHANGED <<prompts, talking, mic, live, ear, inflight, pending, generation, odd>>
    BY <1>2 DEF Answered, StreamEnds, Page, Sound
  <2>2. /\ turn[t].stage # "none" /\ turn'[t].stage \in {"reading", "waiting"}
        /\ turn'[t].aborted = turn[t].aborted
        /\ turn'[t].stage = "waiting" => turn'[t].waitsFor = generation
        /\ \A u \in Turns : u # t => turn'[u] = turn[u]
    BY <1>2 DEF Answered, StreamEnds, Typed, Calls
  <2>3. Underway' = Underway
    BY <2>2 DEF Underway, NoTurn
  <2>4. Called'
    BY <2>1, <2>2, <2>3 DEF Called, Underway, NoTurn
  <2>5. Sending' = Sending
    BY <2>1 DEF Sending
  <2> QED
    BY <2>1, <2>4, <2>5 DEF Asked, Listening, Sent, Without
<1>3. CASE Audio(t)
  <2>1. UNCHANGED <<prompts, talking, mic, live, ear, turn, inflight, pending, generation, odd>>
    BY <1>3 DEF Audio, Page, Voice
  <2>2. Sending' = Sending /\ Underway' = Underway
    BY <2>1 DEF Sending, Underway
  <2> QED
    BY <2>1, <2>2 DEF Asked, Listening, Sent, Called, Without
<1> QED
  BY <1>1, <1>2, <1>3 DEF Turning

\* A conversation that begins, unless another has been asked for or a turn of
\* the last is about to be sent; and its end.
LEMMA PageControl ==
  ASSUME Typed, Typed', Microphone, Asked, Listening, Sent, Called,
         Without(Restarts)',
         Start \/ Grant \/ GrantWithoutAnalyser \/ Deny \/ End \/ LeavePage
  PROVE  Asked' /\ Listening' /\ Sent' /\ Called'
<1>0. 0 \notin Mics /\ 0 \notin Turns
  BY NoneIsZero
<1>n. prompts \in Nat /\ prompts <= 1
  BY Bounds DEF Typed, Asked
<1>1. CASE Start
  <2>1. /\ ~pending /\ ~talking /\ prompts' = prompts + 1
        /\ UNCHANGED <<talking, mic, live, ear, turn, inflight, pending, generation>>
        /\ odd \subseteq odd'
    BY <1>1 DEF Start, Voice, Sound, Note
  <2>2. prompts' = 1
    <3>1. prompts' = prompts + 1
      BY <2>1
    <3>2. ~(prompts > 0)
      BY <1>1 DEF Start, Note, Without, Restarts
    <3> QED
      BY <1>n, <3>1, <3>2
  <2>3. inflight' = 0 /\ ~talking'
    BY <2>1 DEF Called
  <2>4. Sending' = Sending /\ Underway' = Underway
    BY <2>1 DEF Sending, Underway
  <2>5. Asked'
    BY <2>2, <2>3 DEF Asked
  <2> QED
    BY <2>1, <2>4, <2>5 DEF Listening, Sent, Called, Without
<1>2. CASE Grant
  <2>1. /\ prompts > 0 /\ prompts' = prompts - 1 /\ talking' = TRUE
        /\ mic' = Min(Mics \ live) /\ live' = live \cup {mic'}
        /\ Listen(ear, TRUE, mic', live') /\ odd \subseteq odd'
        /\ (\E s \in ear.stopping : s[2]) => "early start" \in odd'
        /\ UNCHANGED <<turn, inflight, pending, generation>>
    BY <1>2 DEF Grant, Streaming, Note, Voice, Sound
  <2>2. prompts = 1 /\ prompts' = 0 /\ Sending = {}
    <3>1. prompts > 0 /\ prompts' = prompts - 1
      BY <2>1
    <3>2. prompts = 1
      BY <1>n, <3>1
    <3>3. prompts' = 0
      BY <3>1, <3>2
    <3>4. Sending = {}
      BY <2>1 DEF Sending, Without, Restarts
    <3> QED
      BY <3>2, <3>3, <3>4
  <2>3. ~talking /\ inflight = 0 /\ ear.ticking = {} /\ ear.recording = {}
    BY <2>2 DEF Asked, Listening
  <2>4. mic' \in Mics /\ (Without({"no analyser"})' => live = {})
    <3>1. Without({"no analyser"})' => mic = 0 /\ live \subseteq {mic}
      BY <2>1, <2>3 DEF Microphone, Listening, Without
    <3> QED
      BY <1>0, <2>1, <3>1, FreeMic DEF Typed
  <2>5. /\ ear'.ticking \subseteq {ear'.meter} /\ ear'.stopping = ear.stopping
        /\ ear'.recording \subseteq {<<ear'.recorder, mic'>>}
    BY <2>1, <2>3, <2>4, CleanListen DEF Typed
  <2>6. Sending' = {}
    BY <2>2, <2>5 DEF Sending
  <2>7. Called'
    <3>1. Underway' = {} /\ ~pending
      BY <2>1, <2>3 DEF Called, Underway
    <3> QED
      BY <2>1, <2>3, <3>1 DEF Called
  <2>8. Asked'
    BY <2>2 DEF Asked
  <2>9. Listening'
    BY <2>1, <2>3, <2>4, <2>5, <2>6 DEF Listening
  <2> QED
    BY <2>6, <2>7, <2>8, <2>9 DEF Sent
<1>5. CASE GrantWithoutAnalyser
  <2>1. /\ prompts > 0 /\ prompts' = prompts - 1 /\ "no analyser" \in odd'
        /\ UNCHANGED <<talking, ear, turn, inflight, pending, generation>>
    BY <1>5 DEF GrantWithoutAnalyser, Streaming, Note, Voice, Sound
  <2>2. prompts = 1 /\ prompts' = 0
    <3>1. prompts > 0 /\ prompts' = prompts - 1
      BY <2>1
    <3>2. prompts = 1
      BY <1>n, <3>1
    <3> QED
      BY <3>1, <3>2
  <2>3. ear.ticking = {} /\ ear.recording = {}
    BY <2>2 DEF Asked, Listening
  <2>4. Sending' = Sending /\ Underway' = Underway
    BY <2>1 DEF Sending, Underway
  <2>5. Listening'
    BY <2>1, <2>3, <2>4 DEF Listening, Without
  <2>6. Asked'
    BY <2>2 DEF Asked
  <2>7. Sent' /\ Called'
    BY <2>1, <2>4 DEF Sent, Called
  <2> QED
    BY <2>5, <2>6, <2>7
<1>3. CASE Deny
  <2>1. /\ prompts > 0 /\ prompts' = prompts - 1
        /\ UNCHANGED <<talking, mic, live, ear, turn, inflight, pending, generation, odd>>
    BY <1>3 DEF Deny, Voice, Sound
  <2>2. Sending' = Sending /\ Underway' = Underway
    BY <2>1 DEF Sending, Underway
  <2>3. Asked'
    <3>1. prompts > 0 /\ prompts' = prompts - 1
      BY <2>1
    <3>2. prompts' = 0
      BY <1>n, <3>1
    <3> QED
      BY <3>2 DEF Asked
  <2> QED
    BY <2>1, <2>2, <2>3 DEF Listening, Sent, Called, Without
<1>4. CASE End \/ LeavePage
  <2>1. EndConversation /\ odd \subseteq odd'
    BY <1>4 DEF End, LeavePage, Note
  <2>2. /\ talking' = FALSE /\ ear' = Closed(ear) /\ turn' = Aborting
        /\ live' = live \ {mic} /\ UNCHANGED <<prompts, inflight, pending>>
    BY <2>1 DEF EndConversation
  <2>3. /\ ear'.ticking = ear.ticking \ {ear.meter} /\ ear'.stopping = ear.stopping
        /\ ear'.recording =
             {r \in ear.recording : r[1] # ear.recorder /\ r[2] # mic}
    BY <2>2, ClosedEar DEF Typed
  <2>4. /\ ear'.ticking = {} /\ ear'.recording = {}
        /\ Without({"no analyser"})' => live' = {}
    <3>1. /\ ear.ticking \subseteq {ear.meter}
          /\ ear.recording \subseteq {<<ear.recorder, mic>>}
      BY DEF Listening
    <3>2. Without({"no analyser"})' => live \subseteq {mic}
      BY <2>1 DEF Listening, Without
    <3>3. ear'.ticking = {} /\ ear'.recording = {}
      BY <2>3, <3>1
    <3>4. live \subseteq {mic} => live' = {}
      BY <2>2
    <3> QED
      BY <3>2, <3>3, <3>4
  <2>5. Sending' = Sending
    BY <2>3 DEF Sending
  <2>6. Asked' /\ Listening' /\ Sent'
    BY <2>2, <2>4, <2>5 DEF Asked, Listening, Sent
  <2>7. \A t \in Turns : /\ t # inflight => turn'[t] = turn[t]
                         /\ t = inflight => turn'[t].aborted = TRUE
    BY <2>2 DEF Aborting, Typed, Calls
  <2>8. Underway' = Underway
    <3>1. inflight # 0 => inflight \in Underway
      BY DEF Called
    <3>2. \A t \in Turns : t = inflight => t \in Underway /\ turn'[t] # NoTurn
      BY <1>0, <2>7, <3>1 DEF NoTurn
    <3> QED
      BY <2>7, <3>2 DEF Underway
  <2>9. \A t \in Underway : t = inflight /\ t \in Turns
    BY DEF Called, Underway
  <2>10. Called'
    <3>1. /\ Underway' = {inflight'} \ {0} /\ (pending' <=> inflight' # 0)
          /\ ~talking'
      BY <2>2, <2>8 DEF Called
    <3>2. \A t \in Underway' : turn'[t].aborted = TRUE
      BY <2>7, <2>8, <2>9
    <3> QED
      BY <3>1, <3>2 DEF Called
  <2> QED
    BY <2>6, <2>10
<1> QED
  BY <1>1, <1>2, <1>3, <1>4, <1>5

\* Every step keeps one loop or one turn.
LEMMA ControlStep ==
  ASSUME Typed, Typed', Microphone, Control, [Next]_vars
  PROVE  Control'
<1> SUFFICES ASSUME Without(Restarts)'
             PROVE  Asked' /\ Listening' /\ Sent' /\ Called'
  BY DEF Control
<1>1. Asked /\ Listening /\ Sent /\ Called
  <2>1. odd \subseteq odd'
    BY TypedStep
  <2> QED
    BY <2>1 DEF Control, Without
<1>2. CASE /\ UNCHANGED <<prompts, talking, mic, live, ear, turn, inflight, pending, generation>>
           /\ odd \subseteq odd'
  <2>1. Sending' = Sending /\ Underway' = Underway
    BY <1>2 DEF Sending, Underway
  <2> QED
    BY <1>1, <1>2, <2>1 DEF Asked, Listening, Sent, Called, Without
<1>3. CASE UNCHANGED vars \/ Over
  BY <1>2, <1>3 DEF vars, Over
<1>4. ASSUME NEW g \in Generations, Playing(g)
      PROVE  Asked' /\ Listening' /\ Sent' /\ Called'
  BY <1>2, <1>4 DEF Playing, NextClip, Decoded, Undecodable, ClipEnds, Note, Quiet,
                    Page, Voice
<1> QED
  BY <1>1, <1>3, <1>4, ListeningControl, StoppedControl, TurnControl, PageControl
     DEF Next, Stopping

-----------------------------------------------------------------------------
(* The clips.                                                              *)

\* No clip is queued for a conversation to come; while one of the present
\* conversation is not yet over, its turn is under way.
Chains ==
  /\ \A g \in Generations : g > generation => chain[g] = NoClips
  /\ Without(Restarts \cup {"broken reply"}) /\ chain[generation] # NoClips =>
       talking /\ \E t \in Underway : turn[t].stage \in {"reading", "waiting"}

\* A turn is not over before the clips of its reply are.
LEMMA TurnChains ==
  ASSUME Typed, Control, Chains, NEW t \in Turns, Turning(t)
  PROVE  Chains'
<1>1. /\ UNCHANGED <<talking, generation, chain>> /\ odd \subseteq odd'
      /\ \A u \in Turns : u # t => turn'[u] = turn[u]
  BY DEF Turning, Refused, Answered, StreamEnds, Aborted, StreamBreaks, PlayedOut,
         Done, Note, Sound, Typed
<1> SUFFICES ASSUME Without(Restarts \cup {"broken reply"})', chain[generation] # NoClips
             PROVE  \E u \in Underway' : turn'[u].stage \in {"reading", "waiting"}
  BY <1>1 DEF Chains, Without
<1>2. PICK u \in Underway : talking /\ turn[u].stage \in {"reading", "waiting"}
  BY <1>1 DEF Chains, Without
<1>3. Called
  BY <1>1 DEF Control, Without
<1>4. turn[t].stage # "none" => t \in Underway
  <2>1. NoTurn.stage = "none"
    BY DEF NoTurn
  <2> QED
    BY <2>1 DEF Underway
<1>5. CASE Refused(t)
  BY <1>1, <1>2, <1>5 DEF Refused, Underway
<1>6. CASE Answered(t)
  BY <1>1, <1>2, <1>6 DEF Answered, Underway
<1>7. CASE StreamEnds(t)
  <2>1. turn'[t].stage = "waiting" /\ turn'[t] # NoTurn
    BY <1>7 DEF StreamEnds, Typed, Calls, NoTurn
  <2> QED
    BY <2>1 DEF Underway
<1>8. CASE Aborted(t)
  BY <1>2, <1>3, <1>4, <1>8 DEF Aborted, Called
<1>9. CASE StreamBreaks(t)
  BY <1>9 DEF StreamBreaks, Note, Without
<1>10. CASE PlayedOut(t)
  BY <1>2, <1>3, <1>4, <1>10 DEF PlayedOut, Called
<1> QED
  BY <1>5, <1>6, <1>7, <1>8, <1>9, <1>10 DEF Turning

\* A clip of the present conversation comes from a turn, and leads to no other.
LEMMA ClipChains ==
  ASSUME Typed, Chains, NEW g \in Generations, Playing(g)
  PROVE  Chains'
<1>1. /\ UNCHANGED <<talking, turn, generation>> /\ odd \subseteq odd'
      /\ \A h \in Generations : h # g => chain'[h] = chain[h]
  BY DEF Playing, NextClip, Decoded, Undecodable, ClipEnds, Quiet, Voice, Note, Typed
<1>2. chain[g] # NoClips
  <2>1. chain[g].head # "none" \/ chain[g].queue > 0
    BY DEF Playing, NextClip, Decoded, Undecodable, ClipEnds
  <2>2. NoClips.head = "none" /\ ~(NoClips.queue > 0)
    BY DEF NoClips
  <2> QED
    BY <2>1, <2>2
<1>3. ~(g > generation)
  BY <1>2 DEF Chains
<1>4. \A h \in Generations : h > generation' => chain'[h] = NoClips
  BY <1>1, <1>3 DEF Chains
<1>5. generation \in Generations /\ Underway' = Underway
  BY <1>1 DEF Typed, Underway
<1>6. chain'[generation] # NoClips => chain[generation] # NoClips
  BY <1>1, <1>2, <1>5
<1> QED
  BY <1>1, <1>4, <1>5, <1>6 DEF Chains, Without

\* Every step keeps the clips with their turn.
LEMMA ChainsStep ==
  ASSUME Typed, Typed', Control, Chains, [Next]_vars
  PROVE  Chains'
<1>1. CASE /\ UNCHANGED <<generation, chain>> /\ odd \subseteq odd'
           /\ talking => talking'
           /\ \A t \in Turns : turn[t] # NoTurn => turn'[t] = turn[t]
  <2>1. \A t \in Underway : t \in Underway' /\ turn'[t] = turn[t]
    BY <1>1 DEF Underway
  <2> QED
    BY <1>1, <2>1 DEF Chains, Without
<1>2. CASE UNCHANGED vars \/ Over
  BY <1>1, <1>2 DEF vars, Over
<1>3. ASSUME NEW l \in Loops, Hear(l) \/ StartOver(l) \/ TurnSpoken(l)
      PROVE  Chains'
  BY <1>1, <1>3 DEF Hear, StartOver, TurnSpoken, Voice, Sound
<1>4. ASSUME NEW s \in Loops \X BOOLEAN, Stopped(s)
      PROVE  Chains'
  <2>1. \A t \in Turns : turn[t] # NoTurn => turn'[t] = turn[t]
    BY <1>4 DEF Stopped, Voice, Typed
  <2> QED
    BY <1>1, <1>4, <2>1 DEF Stopped, Sound
<1>5. CASE Unplug \/ Start \/ Grant \/ GrantWithoutAnalyser \/ Deny
  BY <1>1, <1>5 DEF Unplug, Start, Grant, GrantWithoutAnalyser, Streaming, Deny,
                    Voice, Sound, Note
<1>6. ASSUME NEW t \in Turns, Audio(t)
      PROVE  Chains'
  <2>1. /\ UNCHANGED <<talking, turn, generation, odd>> /\ generation \in Generations
        /\ \A g \in Generations : g # generation => chain'[g] = chain[g]
    BY <1>6 DEF Audio, Voice, Typed
  <2>2. \A g \in Generations : g > generation' => chain'[g] = NoClips
    <3>1. \A g \in Generations : g > generation => g # generation
      BY Bounds DEF Generations
    <3> QED
      BY <2>1, <3>1 DEF Chains
  <2>3. turn[t].stage = "reading" /\ ~turn[t].aborted /\ t \in Underway
    BY <1>6 DEF Audio, Underway, NoTurn
  <2>4. Without(Restarts) => talking
    BY <2>3 DEF Control, Called
  <2>5. Underway' = Underway
    BY <2>1 DEF Underway
  <2> QED
    BY <2>1, <2>2, <2>3, <2>4, <2>5 DEF Chains, Without
<1>7. CASE End \/ LeavePage
  <2>1. /\ generation < MaxEnds /\ generation' = generation + 1
        /\ \A g \in Generations : g # generation => chain'[g] = chain[g]
    BY <1>7 DEF End, LeavePage, EndConversation, Typed
  <2>2. /\ generation \in Nat /\ generation' \in Generations
        /\ \A g \in Generations : g \in Nat
    BY Bounds DEF Typed, Generations
  <2>3. \A g \in Generations : g >= generation' => g > generation /\ g # generation
    <3>1. \A n, h \in Nat : h >= n + 1 => h > n /\ h # n
      OBVIOUS
    <3> QED
      BY <2>1, <2>2, <3>1
  <2>4. \A g \in Generations : g >= generation' => chain'[g] = NoClips
    BY <2>1, <2>3 DEF Chains
  <2>5. generation' >= generation' /\ \A g \in Generations : g > generation' => g >= generation'
    BY <2>1, <2>2
  <2> QED
    BY <2>2, <2>4, <2>5 DEF Chains
<1> QED
  BY <1>2, <1>3, <1>4, <1>5, <1>6, <1>7, TurnChains, ClipChains DEF Next, Stopping

\* A clip that is heard belongs to the present conversation, unless the <audio>
\* element plays it.
LEMMA VoiceStep ==
  ASSUME Typed, OneVoice, [Next]_vars, odd \subseteq odd'
  PROVE  OneVoice'
<1> SUFFICES ASSUME Without({"stale element"})', NEW h \in Generations,
                    chain'[h].head \in {"source", "element"}
             PROVE  h = generation'
  BY DEF OneVoice, Audible
<1>1. \A g \in Generations : chain[g].head \in {"source", "element"} => g = generation
  BY DEF OneVoice, Audible, Without
<1>2. CASE UNCHANGED <<generation, chain>>
  BY <1>1, <1>2
<1>3. CASE \/ UNCHANGED vars \/ Over \/ Stopping \/ Unplug \/ Start \/ Grant
           \/ GrantWithoutAnalyser \/ Deny
           \/ \E l \in Loops : Hear(l) \/ StartOver(l) \/ TurnSpoken(l)
           \/ \E t \in Turns : Turning(t)
  BY <1>2, <1>3 DEF vars, Over, Stopping, Stopped, Unplug, Start, Grant, GrantWithoutAnalyser,
     Streaming, Deny, Hear, StartOver, TurnSpoken, Turning, Refused, Answered, StreamEnds, Aborted,
     StreamBreaks, PlayedOut, Sound
<1>4. ASSUME NEW t \in Turns, Audio(t)
      PROVE  h = generation'
  <2>1. generation' = generation /\ chain'[h].head = chain[h].head
    BY <1>4 DEF Audio, Typed, Clips
  <2> QED
    BY <1>1, <2>1
<1>5. ASSUME NEW g \in Generations, Playing(g)
      PROVE  h = generation'
  <2>1. generation' = generation
    BY <1>5 DEF Playing, NextClip, Decoded, Undecodable, ClipEnds, Quiet
  <2>2. h # g => chain'[h] = chain[h]
    BY <1>5 DEF Playing, NextClip, Decoded, Undecodable, ClipEnds, Typed
  <2>3. CASE h = g
    <3>1. CASE NextClip(g) \/ ClipEnds(g)
      BY <2>3, <3>1 DEF NextClip, ClipEnds, Typed, Clips
    <3>2. CASE Decoded(g)
      BY <2>1, <2>3, <3>2 DEF Decoded, Current, Typed, Clips
    <3>3. CASE Undecodable(g)
      BY <2>1, <2>3, <3>3 DEF Undecodable, Note, Without
    <3> QED
      BY <1>5, <3>1, <3>2, <3>3 DEF Playing
  <2> QED
    BY <1>1, <2>1, <2>2, <2>3
<1>6. CASE End \/ LeavePage
  <2>1. /\ odd' = odd \cup Left
        /\ chain' = [chain EXCEPT ![generation].head = IF @ = "source" THEN "silent" ELSE @]
    BY <1>6 DEF End, LeavePage, EndConversation, Note
  <2>2. h # generation => chain'[h].head \notin {"source", "element"}
    BY <1>1, <2>1 DEF Typed
  <2>3. chain[generation].head # "element"
    BY <2>1 DEF Left, Without
  <2>4. chain'[generation].head \notin {"source", "element"}
    BY <2>1, <2>3 DEF Typed, Clips
  <2> QED
    BY <2>2, <2>4
<1> QED
  BY <1>3, <1>4, <1>5, <1>6 DEF Next

-----------------------------------------------------------------------------
(* The theorems.                                                           *)

\* The inductive invariant.
ConversationInv == Typed /\ Microphone /\ Control /\ Chains /\ OneVoice

LEMMA ConversationInvInit == Init => ConversationInv
<1> SUFFICES ASSUME Init PROVE ConversationInv
  OBVIOUS
<1>1. Typed
  <2>1. NoTurn \in Calls /\ NoClips \in Clips /\ 0 \in Generations
    BY Bounds DEF Calls, Clips, NoTurn, NoClips, Generations
  <2>2. ear \in Ears /\ phase \in Phases
    BY DEF Init, Ears, Phases
  <2>3. prompts \in 0..MaxStarts /\ starts \in 0..MaxStarts
    BY Bounds DEF Init
  <2>4. turn \in [Turns -> Calls] /\ chain \in [Generations -> Clips]
    BY <2>1 DEF Init
  <2> QED
    BY <2>1, <2>2, <2>3, <2>4 DEF Init, Typed
<1>2. Microphone
  BY Bounds, FS_EmptySet DEF Init, Microphone
<1>3. Sending = {} /\ Underway = {}
  BY DEF Init, Sending, Underway
<1>4. Control
  BY <1>3 DEF Init, Control, Asked, Listening, Sent, Called
<1>5. Chains /\ OneVoice
  BY Bounds DEF Init, Chains, OneVoice, Audible, NoClips, Generations
<1> QED
  BY <1>1, <1>2, <1>4, <1>5 DEF ConversationInv

LEMMA ConversationInvStep == ConversationInv /\ [Next]_vars => ConversationInv'
BY TypedStep, MicrophoneStep, ControlStep, ChainsStep, VoiceStep DEF ConversationInv

LEMMA ConversationInvAlways == Spec => []ConversationInv
<1> QED
  BY ConversationInvInit, ConversationInvStep, PTL DEF Spec

\* Every variable of the conversation keeps its type.
THEOREM ConversationTypeOK == Spec => []TypeOK
<1>1. ConversationInv => TypeOK
  BY DEF ConversationInv, Typed, TypeOK, Ears, Calls, Clips, Phases, Oddities
<1> QED
  BY <1>1, ConversationInvAlways, PTL

\* One loop with one recorder listens, or one turn is under way, never both: a
\* reply that comes late does not listen beside a new conversation.
THEOREM OneLoopOrOneTurn == Spec => []OneEar
<1>1. ASSUME ConversationInv PROVE OneEar
  <2> SUFFICES ASSUME Without(Restarts)
               PROVE  /\ Cardinality(ear.ticking) <= 1 /\ Cardinality(ear.recording) <= 1
                      /\ Cardinality(Underway) <= 1
                      /\ Underway # {} => ear.ticking = {} /\ ear.recording = {}
    BY DEF OneEar
  <2>1. Listening /\ Called
    BY <1>1 DEF ConversationInv, Control
  <2>2. ASSUME NEW S, NEW x, S \subseteq {x} PROVE Cardinality(S) <= 1
    <3>1. CASE S = {}
      BY <3>1, FS_EmptySet
    <3>2. CASE S = {x}
      BY <3>2, FS_Singleton
    <3> QED
      BY <2>2, <3>1, <3>2
  <2>3. /\ ear.ticking \subseteq {ear.meter} /\ ear.recording \subseteq {<<ear.recorder, mic>>}
        /\ Underway \subseteq {inflight}
    BY <2>1 DEF Listening, Called
  <2>4. Underway # {} => ear.ticking = {} /\ ear.recording = {}
    BY <2>1 DEF Listening, Called
  <2> QED
    BY <2>2, <2>3, <2>4
<1> QED
  BY <1>1, ConversationInvAlways, PTL

\* When the conversation is over or the page left, no interval or recorder is
\* left running, and no track of a stream that got its analyser.
THEOREM MicrophoneOff == Spec => []MicOff
<1>1. ASSUME ConversationInv PROVE MicOff
  <2> SUFFICES ASSUME Without(Restarts \cup {"left at the prompt"}), ~talking \/ ~mounted
               PROVE  /\ ear.ticking = {} /\ ear.recording = {}
                      /\ Without({"no analyser"}) => live = {}
    BY DEF MicOff
  <2>1. Listening /\ ~talking /\ (Without({"no analyser"}) => mic = 0)
    BY <1>1 DEF ConversationInv, Control, Microphone, Without
  <2>2. live \subseteq Mics /\ 0 \notin Mics
    BY <1>1, NoneIsZero DEF ConversationInv, Typed
  <2> QED
    BY <2>1, <2>2 DEF Listening
<1> QED
  BY <1>1, ConversationInvAlways, PTL

\* The page does not record its own voice.
THEOREM NoEcho == Spec => []HalfDuplex
<1>1. ASSUME ConversationInv PROVE HalfDuplex
  <2> SUFFICES ASSUME Without(Restarts \cup {"broken reply", "stale element"}),
                      ear.recording # {}
               PROVE  Audible = {}
    BY DEF HalfDuplex
  <2>1. Underway = {} /\ Audible \subseteq {generation}
    BY <1>1 DEF ConversationInv, Control, Listening, Called, OneVoice, Without
  <2>2. chain[generation] = NoClips
    BY <1>1, <2>1 DEF ConversationInv, Chains, Without
  <2>3. NoClips.head = "none"
    BY DEF NoClips
  <2> QED
    BY <2>1, <2>2, <2>3 DEF Audible
<1> QED
  BY <1>1, ConversationInvAlways, PTL

\* One clip is heard at a time, and none of a conversation that is over.
THEOREM OneVoiceAtATime == Spec => []OneVoice
BY ConversationInvAlways, PTL DEF ConversationInv

-----------------------------------------------------------------------------
(* TurnDetector, which decides what a frame of listen() does.              *)

(* quiet counts back to the last loud frame of the turn.                   *)
Pause ==
  /\ ~heard => spoken = 0 /\ lastLoud = 0
  /\ heard => lastLoud <= spoken /\ quiet = spoken - lastLoud

(* Each part of the recording has its own bound.                           *)
Lengths ==
  /\ frames = calibrated + waited + spoken
  /\ calibrated <= Calibrate /\ waited <= IdleRestart /\ spoken <= MaxTurn
  /\ at = "listening" => spoken < MaxTurn /\ (~heard => waited < IdleRestart)

DetectorInv == /\ DetectorTypeOK /\ Pause /\ Lengths
               /\ ShortSpeechIsDropped /\ NotCutShort

\* The recording begins in the invariant.
LEMMA DetectorInvInit ==
  ASSUME DetectorInit
  PROVE  DetectorInv
<1>1. DetectorTypeOK BY DEF DetectorInit, DetectorTypeOK
<1>2. Pause BY DEF DetectorInit, Pause
<1>3. Lengths BY FramesAssumption DEF DetectorInit, Lengths
<1>4. ShortSpeechIsDropped /\ NotCutShort
  BY DEF DetectorInit, ShortSpeechIsDropped, NotCutShort
<1> QED BY <1>1, <1>2, <1>3, <1>4 DEF DetectorInv

\* A frame counts the loud or the quiet ones, and starts the other count anew.
LEMMA CountType ==
  ASSUME loud \in Nat, quiet \in Nat, NEW isLoud \in BOOLEAN, Count(isLoud)
  PROVE  /\ loud' \in Nat /\ quiet' \in Nat
         /\ isLoud => quiet' = 0
         /\ ~isLoud => loud' = 0 /\ quiet' = quiet + 1
BY DEF Count

\* A pause that counts back from a frame leaves the frame it began at.
LEMMA BackToLastLoud ==
  \A s, l \in Nat : s - (s - l) = l
OBVIOUS

\* A frame that measures the noise keeps the invariant.
LEMMA CalibrationDetectorInv ==
  ASSUME DetectorInv, Calibration
  PROVE  DetectorInv'
BY FramesAssumption
   DEF DetectorInv, DetectorTypeOK, Pause, Lengths, Calibration,
       ShortSpeechIsDropped, NotCutShort

\* A frame before the turn keeps the invariant.
LEMMA WaitingDetectorInv ==
  ASSUME DetectorInv, NEW isLoud \in BOOLEAN, Waiting(isLoud)
  PROVE  DetectorInv'
<1>1. /\ loud' \in Nat /\ quiet' \in Nat
      /\ ~isLoud => loud' = 0
      /\ isLoud => quiet' = 0
  BY CountType DEF DetectorInv, DetectorTypeOK, Waiting, Frame
<1>2. heard' => quiet' = 0
  BY <1>1, FramesAssumption DEF Waiting
<1>3. at = "listening" /\ ~heard /\ spoken' = 0 /\ lastLoud' = 0
  BY DEF DetectorInv, Pause, Waiting, Frame
<1>4. DetectorTypeOK'
  BY <1>1 DEF DetectorInv, DetectorTypeOK, Waiting, Frame
<1>5. Pause'
  BY <1>2, <1>3, <1>1 DEF Pause
<1>6. Lengths'
  BY <1>3, FramesAssumption
     DEF DetectorInv, DetectorTypeOK, Pause, Lengths, Waiting, Frame
<1>7. ShortSpeechIsDropped' /\ NotCutShort'
  BY <1>3 DEF Waiting, ShortSpeechIsDropped, NotCutShort
<1> QED BY <1>4, <1>5, <1>6, <1>7 DEF DetectorInv

\* A frame of the turn keeps the invariant.
LEMMA SpeakingDetectorInv ==
  ASSUME DetectorInv, NEW isLoud \in BOOLEAN, Speaking(isLoud)
  PROVE  DetectorInv'
<1>1. /\ loud' \in Nat /\ quiet' \in Nat
      /\ ~isLoud => quiet' = quiet + 1
      /\ isLoud => quiet' = 0
  BY CountType DEF DetectorInv, DetectorTypeOK, Speaking, Frame
<1>2. /\ at = "listening" /\ heard /\ heard' /\ spoken' = spoken + 1
      /\ spoken \in Nat /\ lastLoud \in Nat /\ quiet \in Nat
      /\ lastLoud <= spoken /\ quiet = spoken - lastLoud
  BY DEF DetectorInv, DetectorTypeOK, Pause, Speaking, Frame
<1>3. /\ spoken' \in Nat /\ lastLoud' \in Nat /\ lastLoud' <= spoken'
      /\ quiet' = spoken' - lastLoud'
  BY <1>1, <1>2 DEF Speaking
<1>4. DetectorTypeOK'
  BY <1>1, <1>2, <1>3 DEF DetectorInv, DetectorTypeOK, Speaking, Frame
<1>5. Pause'
  BY <1>2, <1>3 DEF Pause
<1>6. Lengths'
  BY <1>2, FramesAssumption
     DEF DetectorInv, DetectorTypeOK, Lengths, Speaking, Frame, TooLong
<1>7. spoken' - quiet' = lastLoud'
  <2>1. spoken' - (spoken' - lastLoud') = lastLoud'
    BY <1>3, BackToLastLoud
  <2> QED BY <1>3, <2>1
<1>8. ShortSpeechIsDropped'
  BY <1>2, <1>7, FramesAssumption
     DEF Speaking, ShortSpeechIsDropped, Enough, TooLong
<1>9. NotCutShort'
  BY <1>2, <1>3 DEF Speaking, NotCutShort, Silent, TooLong
<1> QED BY <1>4, <1>5, <1>6, <1>8, <1>9 DEF DetectorInv

\* The invariant holds in every reachable state.
THEOREM DetectorInvAlways == DetectorSpec => []DetectorInv
<1>1. DetectorInv /\ [DetectorNext]_detectorVars => DetectorInv'
  <2> SUFFICES ASSUME DetectorInv, [DetectorNext]_detectorVars PROVE DetectorInv'
    OBVIOUS
  <2>1. CASE Calibration BY <2>1, CalibrationDetectorInv
  <2>2. ASSUME NEW isLoud \in BOOLEAN, Waiting(isLoud) PROVE DetectorInv'
    BY <2>2, WaitingDetectorInv
  <2>3. ASSUME NEW isLoud \in BOOLEAN, Speaking(isLoud) PROVE DetectorInv'
    BY <2>3, SpeakingDetectorInv
  <2>4. CASE UNCHANGED detectorVars
    BY <2>4 DEF detectorVars, DetectorInv, DetectorTypeOK, Pause, Lengths,
                ShortSpeechIsDropped, NotCutShort
  <2> QED BY <2>1, <2>2, <2>3, <2>4 DEF DetectorNext, DetectorOver
<1>2. DetectorInit => DetectorInv
  BY DetectorInvInit
<1> QED BY <1>1, <1>2, PTL DEF DetectorSpec

\* Every variable has its type.
THEOREM DetectorTypes == DetectorSpec => []DetectorTypeOK
<1>1. DetectorInv => DetectorTypeOK BY DEF DetectorInv
<1> QED BY <1>1, DetectorInvAlways, PTL

\* What is sent is long enough or too long; what is dropped is too short.
THEOREM ShortSpeechIsDroppedHolds == DetectorSpec => []ShortSpeechIsDropped
<1>1. DetectorInv => ShortSpeechIsDropped BY DEF DetectorInv
<1> QED BY <1>1, DetectorInvAlways, PTL

\* A short pause does not end a turn.
THEOREM NotCutShortHolds == DetectorSpec => []NotCutShort
<1>1. DetectorInv => NotCutShort BY DEF DetectorInv
<1> QED BY <1>1, DetectorInvAlways, PTL

\* A recording has at most its three longest parts.
THEOREM EndsInTimeHolds == DetectorSpec => []EndsInTime
<1>1. DetectorInv => EndsInTime
  BY FramesAssumption DEF DetectorInv, DetectorTypeOK, Lengths, EndsInTime
<1> QED BY <1>1, DetectorInvAlways, PTL
=============================================================================
