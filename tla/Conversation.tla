----------------------------- MODULE Conversation -----------------------------
(***************************************************************************)
(* The voice conversation of the dashboard's playground:                   *)
(* apps/web/app/playground/page.tsx.  The page listens to the microphone   *)
(* until a turn has been spoken, sends it to the voice endpoint, plays the *)
(* clips of the reply and listens again.                                   *)
(*                                                                         *)
(* A step is one callback of the browser, from its beginning to its next   *)
(* await: a click, a frame of the interval of listen(), the stop event of  *)
(* a recorder, the progress of a request or of a clip.  Every call of      *)
(* listen() makes a loop: an interval and a recorder of its own.  What it  *)
(* measures is abstracted to what it decides (see TurnDetector).  Clips    *)
(* are numbered by the generation of the playback that they were queued    *)
(* in, of which each has its own chain of promises.                        *)
(*                                                                         *)
(* A definition X_Y that precedes X is X with a plausible bug: the runs    *)
(* are known to find it.  The specification uses none of them.             *)
(***************************************************************************)
EXTENDS Integers, FiniteSets, FiniteSetsExt

CONSTANTS
  MaxStarts,   \* bound: clicks on Start
  MaxEnds,     \* bound: ends of a conversation, the end of the page included
  MaxOdd,      \* bound: kinds of events the page does not guard against
  MaxLoops,    \* bound: loops that exist at the same time
  MaxTurns,    \* bound: turns that are under way at the same time
  MaxClips     \* bound: clips that wait in one chain

ASSUME BoundsAssumption == MaxOdd \in Nat /\
  {MaxStarts, MaxEnds, MaxLoops, MaxTurns, MaxClips} \subseteq Nat \ {0}

VARIABLES
  audio,       \* the browser has an AudioContext: what ensureAudio() finds
  mounted,     \* the page is shown
  prompts,     \* calls of startConversation that wait for getUserMedia
  starts,      \* clicks on Start, for the bound
  talking,     \* talking.current
  phase,       \* the state `phase'
  mic,         \* micStream.current, numbered; 0 is null
  live,        \* the streams whose tracks have not been stopped
  ear,         \* meter, recorder and what hangs on them
  turn,        \* turn[t]: the calls of sendVoice
  inflight,    \* inflight.current: the turn End would abort; 0 is null
  pending,     \* the state `pending'
  generation,  \* playbackGeneration.current
  chain,       \* chain[g]: the clips of generation g
  odd          \* history: events the page does not guard against

vars == <<audio, mounted, prompts, starts, talking, phase, mic, live, ear,
          turn, inflight, pending, generation, chain, odd>>

-----------------------------------------------------------------------------
Loops == 1..MaxLoops
Turns == 1..MaxTurns
Mics == 1..MaxStarts
Generations == 0..MaxEnds

NoTurn == [stage |-> "none", aborted |-> FALSE, waitsFor |-> 0]
NoClips == [head |-> "none", queue |-> 0]

Init ==
  /\ audio \in BOOLEAN /\ mounted = TRUE /\ prompts = 0 /\ starts = 0 /\ talking = FALSE
  /\ phase = "idle" /\ mic = 0 /\ live = {}
  /\ ear = [meter |-> 0, recorder |-> 0, ticking |-> {}, recording |-> {},
            stopping |-> {}, heard |-> {}]
  /\ turn = [t \in Turns |-> NoTurn] /\ inflight = 0 /\ pending = FALSE
  /\ generation = 0 /\ chain = [g \in Generations |-> NoClips]
  /\ odd = {}

Note(events) == /\ odd' = odd \cup events
                /\ Cardinality(odd') <= MaxOdd

Voice == <<turn, inflight, pending>>
Sound == <<generation, chain>>
Page == <<audio, mounted, prompts, starts>>

-----------------------------------------------------------------------------
(* Listening.                                                              *)

Recorded(e) == {r[1] : r \in e.recording}
Free(e) == Loops \ (e.ticking \cup Recorded(e) \cup {s[1] : s \in e.stopping})

\* begin() and setInterval of listen(), for a new loop that records m.
Opened(e, l, m) ==
  [e EXCEPT !.meter = l, !.recorder = l, !.ticking = @ \cup {l},
            !.recording = @ \cup {<<l, m>>}]

\* analyser.current: set with talking, and cleared with it, unless the browser
\* has no AudioContext.
Analyser(on) == on /\ audio

\* listen(), called when the loops are e, talking is `on' and the microphone is
\* m; it throws in begin() when the tracks of m have ended.
Listen(e, on, m, streams) ==
  IF Analyser(on) /\ m # 0
  THEN /\ phase' = "listening"
       /\ IF m \in streams
          THEN Free(e) # {} /\ ear' = Opened(e, Min(Free(e)), m)
          ELSE ear' = e
  ELSE ear' = e /\ UNCHANGED phase

\* stopMeter().
Unmetered(e) == [e EXCEPT !.meter = 0, !.ticking = @ \ {e.meter},
                          !.heard = @ \ {e.meter}]

\* finish(): it ends the interval and the recorder that are current, whichever
\* loop calls it.  The stop event of the recorder comes later.
Recorderless(e, send) ==
  [e EXCEPT !.recorder = 0,
            !.recording = {r \in @ : r[1] # e.recorder},
            !.stopping = @ \cup (IF e.recorder \in Recorded(e)
                                 THEN {<<e.recorder, send>>} ELSE {})]
Finished_KeepMeter(e, send) == Recorderless(e, send)
Finished(e, send) == Recorderless(Unmetered(e), send)

Hear(l) ==
  /\ l \in ear.ticking \ ear.heard
  /\ ear' = [ear EXCEPT !.heard = @ \cup {l}]
  /\ phase' = "hearing"
  /\ UNCHANGED <<Page, talking, mic, live, Voice, Sound, odd>>

\* Nobody speaks, or too shortly: the recording is dropped.
StartOver(l) ==
  /\ l \in ear.ticking
  /\ Listen(Finished(ear, FALSE), talking, mic, live)
  /\ UNCHANGED <<Page, talking, mic, live, Voice, Sound, odd>>

TurnSpoken(l) ==
  /\ l \in ear.ticking \cap ear.heard
  /\ ear' = Finished(ear, TRUE)
  /\ UNCHANGED <<Page, talking, phase, mic, live, Voice, Sound, odd>>

\* onstop, and sendVoice up to its first await.
Stopped(s) ==
  /\ s \in ear.stopping
  /\ ear' = [ear EXCEPT !.stopping = @ \ {s}]
  /\ IF s[2] /\ talking
     THEN \E t \in Turns :
            /\ turn[t] = NoTurn /\ \A u \in Turns : turn[u] = NoTurn => t <= u
            /\ turn' = [turn EXCEPT ![t].stage = "asking"]
            /\ inflight' = t /\ pending' = TRUE /\ phase' = "thinking"
     ELSE UNCHANGED <<Voice, phase>>
  /\ UNCHANGED <<Page, talking, mic, live, Sound, odd>>

\* The device is gone: its recorders stop, and nobody handles that.
Unplug ==
  /\ mic \in live
  /\ live' = live \ {mic}
  /\ ear' = [ear EXCEPT !.recording = {r \in @ : r[2] # mic}]
  /\ Note({"unplugged"})
  /\ UNCHANGED <<Page, talking, phase, mic, Voice, Sound>>

-----------------------------------------------------------------------------
(* A turn: sendVoice.                                                      *)

\* The end of sendVoice, and the listen() behind it.
Done_StayPending(t) ==
  /\ turn' = [turn EXCEPT ![t] = NoTurn]
  /\ inflight' = IF inflight = t THEN 0 ELSE inflight
  /\ Listen(ear, talking, mic, live)
  /\ UNCHANGED pending
Done_NoListen(t) ==
  /\ turn' = [turn EXCEPT ![t] = NoTurn]
  /\ inflight' = IF inflight = t THEN 0 ELSE inflight
  /\ pending' = FALSE
  /\ UNCHANGED <<ear, phase>>
Done(t) ==
  /\ turn' = [turn EXCEPT ![t] = NoTurn]
  /\ inflight' = IF inflight = t THEN 0 ELSE inflight
  /\ pending' = FALSE
  /\ Listen(ear, talking, mic, live)

\* The recording is converted and sent; a refusal ends the turn.
Refused(t) ==
  /\ turn[t].stage = "asking"
  /\ Done(t)
  /\ UNCHANGED <<Page, talking, mic, live, Sound, odd>>

Answered(t) ==
  /\ turn[t].stage = "asking" /\ ~turn[t].aborted
  /\ turn' = [turn EXCEPT ![t].stage = "reading"]
  /\ UNCHANGED <<Page, talking, phase, mic, live, ear, inflight, pending, Sound, odd>>

Audio(t) ==
  /\ turn[t].stage = "reading" /\ ~turn[t].aborted
  /\ chain[generation].queue < MaxClips
  /\ phase' = IF talking THEN "playing" ELSE phase
  /\ chain' = [chain EXCEPT ![generation].queue = @ + 1]
  /\ UNCHANGED <<Page, talking, mic, live, ear, Voice, generation, odd>>

\* await playback.current: the chain as it is now.
StreamEnds_NoWait(t) ==
  /\ turn[t].stage = "reading" /\ ~turn[t].aborted
  /\ Done(t)
  /\ UNCHANGED <<Page, talking, mic, live, Sound, odd>>
StreamEnds(t) ==
  /\ turn[t].stage = "reading" /\ ~turn[t].aborted
  /\ turn' = [turn EXCEPT ![t].stage = "waiting", ![t].waitsFor = generation]
  /\ UNCHANGED <<Page, talking, phase, mic, live, ear, inflight, pending, Sound, odd>>

\* An abort while the request or its stream is awaited.
Aborted(t) ==
  /\ turn[t].stage \in {"asking", "reading"} /\ turn[t].aborted
  /\ Done(t)
  /\ UNCHANGED <<Page, talking, mic, live, Sound, odd>>

\* The stream fails, or holds what cannot be decoded: sendVoice does not wait
\* for the clips that are queued.
StreamBreaks(t) ==
  /\ turn[t].stage = "reading" /\ ~turn[t].aborted
  /\ Done(t)
  /\ Note(IF chain[generation] # NoClips THEN {"broken reply"} ELSE {})
  /\ UNCHANGED <<Page, talking, mic, live, Sound>>

PlayedOut(t) ==
  /\ turn[t].stage = "waiting"
  /\ chain[turn[t].waitsFor] = NoClips
  /\ Done(t)
  /\ UNCHANGED <<Page, talking, mic, live, Sound, odd>>

-----------------------------------------------------------------------------
(* Playback: enqueueClip.                                                  *)

Quiet == UNCHANGED <<Page, talking, phase, mic, live, ear, Voice, generation>>

NextClip(g) ==
  /\ chain[g].head = "none" /\ chain[g].queue > 0
  /\ chain' = [chain EXCEPT ![g].queue = @ - 1,
                            ![g].head = IF g = generation THEN "decoding" ELSE "none"]
  /\ Quiet /\ UNCHANGED odd

\* The clip is looked at again when it has been decoded.
Current_Unchecked(g) == TRUE
Current(g) == g = generation

Decoded(g) ==
  /\ chain[g].head = "decoding"
  /\ chain' = [chain EXCEPT ![g].head = IF Current(g) THEN "source" ELSE "none"]
  /\ Quiet /\ UNCHANGED odd

\* The <audio> element plays what cannot be decoded, without another look.
Undecodable(g) ==
  /\ chain[g].head = "decoding"
  /\ chain' = [chain EXCEPT ![g].head = "element"]
  /\ Note(IF g # generation THEN {"stale element"} ELSE {})
  /\ Quiet

\* "silent" is a source that has been stopped and will say that it has ended.
ClipEnds(g) ==
  /\ chain[g].head \in {"source", "silent", "element"}
  /\ chain' = [chain EXCEPT ![g].head = "none"]
  /\ Quiet /\ UNCHANGED odd

-----------------------------------------------------------------------------
(* The beginning and the end of a conversation.                            *)

\* The button is shown when phase is "idle", and enabled unless pending.
Start ==
  /\ mounted /\ phase = "idle" /\ ~pending /\ ~talking /\ starts < MaxStarts
  /\ prompts' = prompts + 1 /\ starts' = starts + 1
  /\ Note(IF prompts > 0 THEN {"second start"} ELSE {})
  /\ UNCHANGED <<audio, mounted, talking, phase, mic, live, ear, Voice, Sound>>

\* getUserMedia has resolved.  Nothing is looked at again after the wait for it.
Streaming ==
  /\ prompts > 0 /\ prompts' = prompts - 1
  /\ mic' = Min(Mics \ live) /\ live' = live \cup {mic'}
  /\ UNCHANGED <<audio, mounted, starts, Voice, Sound>>

Grant ==
  /\ Streaming
  /\ talking' = TRUE
  /\ Listen(ear, TRUE, mic', live')
  /\ Note(IF \E s \in ear.stopping : s[2] THEN {"early start"} ELSE {})

\* The analyser cannot be made or connected: the handler that is meant for a
\* refusal leaves the stream as it is.
GrantWithoutAnalyser ==
  /\ Streaming /\ audio
  /\ Note({"no analyser"})
  /\ UNCHANGED <<talking, phase, ear>>

\* getUserMedia has been refused.
Deny ==
  /\ prompts > 0 /\ prompts' = prompts - 1
  /\ UNCHANGED <<audio, mounted, starts, talking, phase, mic, live, ear, Voice,
                 Sound, odd>>

\* endConversation.  The tracks that stop take their recorders along.
Aborting == [t \in Turns |-> IF t = inflight THEN [turn[t] EXCEPT !.aborted = TRUE]
                             ELSE turn[t]]
Closed_KeepMeter(e) ==
  [e EXCEPT !.recorder = 0,
     !.recording = {r \in @ : r[1] # e.recorder /\ r[2] # mic}]
Closed(e) ==
  [Unmetered(e) EXCEPT !.recorder = 0,
     !.recording = {r \in @ : r[1] # e.recorder /\ r[2] # mic}]
EndConversation ==
  /\ generation < MaxEnds
  /\ talking' = FALSE
  /\ ear' = Closed(ear)
  /\ turn' = Aborting
  /\ generation' = generation + 1
  /\ chain' = [chain EXCEPT ![generation].head = IF @ = "source" THEN "silent" ELSE @]
  /\ live' = live \ {mic} /\ mic' = 0
  /\ phase' = "idle"
  /\ UNCHANGED <<audio, starts, prompts, inflight, pending>>

Left == (IF chain[generation].head = "element" THEN {"stale element"} ELSE {})
        \cup (IF prompts > 0 THEN {"left at the prompt"} ELSE {})

End ==
  /\ mounted /\ phase # "idle"
  /\ EndConversation
  /\ Note(Left)
  /\ UNCHANGED mounted

LeavePage ==
  /\ mounted /\ mounted' = FALSE
  /\ EndConversation
  /\ Note(Left)

-----------------------------------------------------------------------------
Turning(t) == Refused(t) \/ Answered(t) \/ StreamEnds(t) \/ Aborted(t)
              \/ StreamBreaks(t) \/ PlayedOut(t)
Playing(g) == NextClip(g) \/ Decoded(g) \/ Undecodable(g) \/ ClipEnds(g)
Stopping == \E s \in Loops \X BOOLEAN : Stopped(s)

\* A page that has been left, or as many conversations as the bound allows.
Over == (~mounted \/ starts = MaxStarts \/ generation = MaxEnds) /\ UNCHANGED vars

Next == \/ \E l \in Loops : Hear(l) \/ StartOver(l) \/ TurnSpoken(l)
        \/ \E t \in Turns : Turning(t) \/ Audio(t)
        \/ \E g \in Generations : Playing(g)
        \/ Stopping \/ Unplug \/ Start \/ Grant \/ GrantWithoutAnalyser \/ Deny
        \/ End \/ LeavePage \/ Over

Spec == Init /\ [][Next]_vars

\* Recorders stop, the server answers and ends its streams (see VoicePipeline),
\* and clips come to an end.  Nobody is obliged to speak or to click.
FairSpec ==
  /\ Spec
  /\ WF_vars(Stopping)
  /\ \A t \in Turns : WF_vars(Turning(t))
  /\ \A g \in Generations : WF_vars(Playing(g))

-----------------------------------------------------------------------------
(* Properties.  Each names the events (odd) that the code does not guard   *)
(* against and that make it fail.                                          *)

\* Every variable has its type.
TypeOK ==
  /\ {audio, mounted, talking, pending} \subseteq BOOLEAN
  /\ prompts \in 0..MaxStarts /\ starts \in 0..MaxStarts
  /\ phase \in {"idle", "listening", "hearing", "thinking", "playing"}
  /\ mic \in Mics \cup {0} /\ live \subseteq Mics
  /\ ear \in [meter: Loops \cup {0}, recorder: Loops \cup {0},
              ticking: SUBSET Loops, recording: SUBSET (Loops \X Mics),
              stopping: SUBSET (Loops \X BOOLEAN), heard: SUBSET Loops]
  /\ turn \in [Turns -> [stage: {"none", "asking", "reading", "waiting"},
                         aborted: BOOLEAN, waitsFor: Generations]]
  /\ inflight \in Turns \cup {0}
  /\ generation \in Generations
  /\ chain \in [Generations ->
       [head: {"none", "decoding", "source", "silent", "element"}, queue: 0..MaxClips]]
  /\ odd \subseteq {"second start", "left at the prompt", "early start",
                    "no analyser", "broken reply", "stale element", "unplugged"}

Without(events) == odd \cap events = {}
Restarts == {"second start", "early start"}
Audible == {g \in Generations : chain[g].head \in {"source", "element"}}
Underway == {t \in Turns : turn[t] # NoTurn}

\* There is one loop with one recorder, or one turn, never both: a reply that
\* comes late, or is aborted, does not start to listen beside a loop that a new
\* conversation has begun.
OneEar ==
  Without(Restarts) =>
    /\ Cardinality(ear.ticking) <= 1 /\ Cardinality(ear.recording) <= 1
    /\ Cardinality(Underway) <= 1
    /\ Underway # {} => ear.ticking = {} /\ ear.recording = {}

\* When the conversation is over or the page left, no interval or recorder is
\* left running; no track either, if every stream got its analyser.
MicOff ==
  Without(Restarts \cup {"left at the prompt"}) /\ (~talking \/ ~mounted) =>
    /\ ear.ticking = {} /\ ear.recording = {}
    /\ Without({"no analyser"}) => live = {}

\* The page does not record its own voice.
HalfDuplex ==
  Without(Restarts \cup {"broken reply", "stale element"})
    /\ ear.recording # {} => Audible = {}

\* One clip is heard at a time, and none of a conversation that is over.
OneVoice == Without({"stale element"}) => Audible \subseteq {generation}

\* In a conversation the page listens again, unless the microphone is gone or
\* the browser cannot analyse it.
ListensAgain ==
  talking ~> \/ ~talking \/ ear.ticking # {} \/ ~audio
             \/ ~Without(Restarts \cup {"unplugged"})

\* A turn ends, also when it is aborted: Start is enabled again.
TurnsEnd == pending ~> ~pending \/ ~Without(Restarts)

=============================================================================
