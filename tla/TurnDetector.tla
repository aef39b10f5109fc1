----------------------------- MODULE TurnDetector -----------------------------
(***************************************************************************)
(* When a turn begins and ends: the interval of listen() in the playground *)
(* of the dashboard, apps/web/app/playground/page.tsx.  Every frame of     *)
(* FRAME_MS the loudness of the microphone is compared with a threshold.   *)
(*                                                                         *)
(* Times are counted in frames.  Whether a frame is loud is free: the      *)
(* threshold follows the noise, and nothing here depends on how.           *)
(*                                                                         *)
(* The names that Conversation has too begin with Detector.                *)
(*                                                                         *)
(* A definition X_Y that precedes X is X with a plausible bug: the runs    *)
(* are known to find it.  The specification uses none of them.             *)
(***************************************************************************)
EXTENDS Integers

CONSTANTS
  Calibrate,     \* CALIBRATE_MS: frames that measure the noise
  SpeechStart,   \* SPEECH_START_MS: loud frames in a row that begin a turn
  SilenceEnd,    \* SILENCE_END_MS: quiet frames in a row that end it
  MinSpeech,     \* MIN_SPEECH_MS: a shorter turn is dropped
  MaxTurn,       \* MAX_TURN_MS: a longer one is ended
  IdleRestart    \* IDLE_RESTART_MS: so long a silence is not kept

ASSUME FramesAssumption ==
  /\ Calibrate \in Nat /\ SpeechStart \in Nat \ {0} /\ SilenceEnd \in Nat
  /\ MinSpeech \in Nat /\ MaxTurn \in Nat \ {0} /\ IdleRestart \in Nat \ {0}

VARIABLES
  at,          \* "listening", or how the recording ended: "sent", "dropped"
  calibrated, loud, quiet, spoken, waited, heard,
  frames,      \* history: all frames of the recording
  lastLoud     \* history: the last loud frame, counted from when heard was set

detectorVars == <<at, calibrated, loud, quiet, spoken, waited, heard, frames, lastLoud>>

DetectorInit ==
  /\ at = "listening"
  /\ calibrated = 0 /\ loud = 0 /\ quiet = 0 /\ spoken = 0 /\ waited = 0
  /\ heard = FALSE
  /\ frames = 0 /\ lastLoud = 0

-----------------------------------------------------------------------------
Calibration ==
  /\ at = "listening" /\ calibrated < Calibrate
  /\ calibrated' = calibrated + 1 /\ frames' = frames + 1
  /\ UNCHANGED <<at, loud, quiet, spoken, waited, heard, lastLoud>>

\* level > threshold
Count_KeepQuiet(isLoud) ==
  IF isLoud THEN loud' = loud + 1 /\ UNCHANGED quiet
            ELSE quiet' = quiet + 1 /\ loud' = 0
Count(isLoud) ==
  IF isLoud THEN loud' = loud + 1 /\ quiet' = 0
            ELSE quiet' = quiet + 1 /\ loud' = 0

Frame(isLoud) ==
  /\ at = "listening" /\ calibrated >= Calibrate
  /\ Count(isLoud)
  /\ frames' = frames + 1
  /\ UNCHANGED calibrated

\* Before the turn: it begins, the wait goes on, or the recording starts over.
Waiting(isLoud) ==
  /\ ~heard /\ Frame(isLoud)
  /\ waited' = waited + 1
  /\ heard' = (loud' >= SpeechStart)
  /\ at' = IF ~heard' /\ waited' >= IdleRestart THEN "dropped" ELSE at
  /\ UNCHANGED <<spoken, lastLoud>>

\* In the turn.
TooLong_Off == FALSE
TooLong == spoken' >= MaxTurn
Silent == quiet' >= SilenceEnd
Enough_WithPause == spoken' >= MinSpeech
Enough == spoken' - quiet' >= MinSpeech

Speaking(isLoud) ==
  /\ heard /\ Frame(isLoud)
  /\ spoken' = spoken + 1
  /\ lastLoud' = IF isLoud THEN spoken' ELSE lastLoud
  /\ at' = IF (Silent /\ Enough) \/ TooLong THEN "sent"
           ELSE IF Silent THEN "dropped" ELSE at
  /\ UNCHANGED <<waited, heard>>

DetectorOver == at # "listening" /\ UNCHANGED detectorVars

DetectorNext == \/ Calibration
                \/ \E isLoud \in BOOLEAN : Waiting(isLoud) \/ Speaking(isLoud)
                \/ DetectorOver

DetectorSpec == DetectorInit /\ [][DetectorNext]_detectorVars

-----------------------------------------------------------------------------
(* Properties.                                                             *)

\* Every variable has its type.
DetectorTypeOK ==
  /\ at \in {"listening", "sent", "dropped"} /\ heard \in BOOLEAN
  /\ calibrated \in Nat /\ loud \in Nat /\ quiet \in Nat
  /\ spoken \in Nat /\ waited \in Nat /\ frames \in Nat /\ lastLoud \in Nat

\* What is sent holds MinSpeech from its beginning to its last loud frame, or
\* was too long, and of what has been heard only what is shorter is dropped.
ShortSpeechIsDropped ==
  /\ at = "sent" => lastLoud >= MinSpeech \/ spoken >= MaxTurn
  /\ at = "dropped" /\ heard => lastLoud < MinSpeech

\* A speaker who pauses for less than SilenceEnd is not interrupted.
NotCutShort ==
  at # "listening" /\ heard =>
    spoken - lastLoud >= SilenceEnd \/ spoken >= MaxTurn

\* However the levels change, a recording ends.
EndsInTime == frames <= Calibrate + IdleRestart + MaxTurn

=============================================================================
