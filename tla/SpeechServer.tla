----------------------------- MODULE SpeechServer -----------------------------
(***************************************************************************)
(* The speech server, apps/tts/server.py with the render and generate_one  *)
(* of pocket_engine.py: requests wait in threads for the one engine, which *)
(* a lock guards, and are answered when all their chunks are synthesised.  *)
(* A client that leaves changes nothing here: the handler is no stream and *)
(* its thread cannot be stopped.  Each client makes one request; the       *)
(* server listens once the engine is loaded.                               *)
(***************************************************************************)
EXTENDS SpeechPlan

CONSTANTS
  Clients,
  Texts,        \* the texts that the clients may ask for together
  NoClient,
  Retries       \* RETRIES

ASSUME TextsAssumption == \A t \in Texts : t \in [Clients -> Seq(Seq(Words))]

VARIABLES
  job,       \* how far a client's request is
  text,      \* its text
  lock,      \* _render_lock: whose thread is inside render
  plan,      \* the chunks render has planned for a client
  spoken,    \* the chunks synthesised for a client
  attempts   \* runaways of the chunk that is being synthesised

serverVars == <<job, text, lock, plan, spoken, attempts>>

Answers == {"answered", "refused", "failed"}

ServerInit ==
  /\ job = [c \in Clients |-> "none"]
  /\ text \in Texts
  /\ lock = NoClient
  /\ plan = [c \in Clients |-> <<>>]
  /\ spoken = [c \in Clients |-> <<>>]
  /\ attempts = 0

Reaches(c, j) == job' = [job EXCEPT ![c] = j]

\* speech: a text that is empty or too long, a format that is not known, or
\* a thread that waits for the lock.
Post(c) ==
  /\ job[c] = "none"
  /\ Reaches(c, "refused") \/ Reaches(c, "waiting")
  /\ UNCHANGED <<text, lock, plan, spoken, attempts>>

\* _speak takes the lock; render plans the whole text and looks up the voice.
TakeLock(c) == job[c] = "waiting" /\ lock = NoClient /\ lock' = c
Enter(c) ==
  /\ TakeLock(c)
  /\ Reaches(c, "rendering") /\ attempts' = 0
  /\ plan' = [plan EXCEPT ![c] = PlanText(text[c])]
  /\ UNCHANGED <<text, spoken>>

\* Chunks are synthesised one after the other: generate_one keeps the first
\* audio that is short enough ...
Speak(c) ==
  /\ job[c] = "rendering" /\ Len(spoken[c]) < Len(plan[c])
  /\ spoken' = [spoken EXCEPT ![c] = Append(@, plan[c][Len(@) + 1])]
  /\ attempts' = 0
  /\ UNCHANGED <<job, text, lock, plan>>

\* ... tries again after a runaway, and at last keeps the shortest: Speak.
RunAway(c) ==
  /\ job[c] = "rendering" /\ Len(spoken[c]) < Len(plan[c])
  /\ attempts < Retries
  /\ attempts' = attempts + 1
  /\ UNCHANGED <<job, text, lock, plan, spoken>>

\* The thread leaves the with block: with the audio, or with an exception.  A
\* ValueError, such as that of a text that leaves nothing to be said, is
\* answered with 400.
Ends(c) ==
  \/ Len(spoken[c]) = Len(plan[c]) /\ plan[c] # <<>> /\ Reaches(c, "answered")
  \/ Reaches(c, "refused")
  \/ Reaches(c, "failed")
Exit_KeepsLock(c) ==
  /\ job[c] = "rendering" /\ Ends(c)
  /\ lock' = IF job'[c] = "answered" THEN NoClient ELSE lock
  /\ UNCHANGED <<text, plan, spoken, attempts>>
Exit(c) ==
  /\ job[c] = "rendering" /\ Ends(c)
  /\ lock' = NoClient
  /\ UNCHANGED <<text, plan, spoken, attempts>>

Work(c) == Enter(c) \/ Speak(c) \/ RunAway(c) \/ Exit(c)

=============================================================================
