SPECIFICATION DetectorSpec
CONSTANTS
  Calibrate = 2
  SpeechStart = 2
  SilenceEnd = 4
  MinSpeech = 3
  MaxTurn = 12
  IdleRestart = 6
INVARIANTS ShortSpeechIsDropped NotCutShort EndsInTime
