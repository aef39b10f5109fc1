SPECIFICATION FairSpec
CONSTANTS
  MaxStarts = 2
  MaxEnds = 2
  MaxOdd = 1
  MaxLoops = 2
  MaxTurns = 2
  MaxClips = 1
INVARIANTS
  OneEar
  MicOff
  HalfDuplex
  OneVoice
PROPERTIES
  ListensAgain
  TurnsEnd
