SPECIFICATION FairSpec
CONSTANTS
  MaxItems = 2
  MaxBurst = 2
  Refusals <- MCRefusals
  PlatformErrors <- MCPlatformErrors
INVARIANTS
  AudioFollowsText
  DoneIsComplete
  UsageTellsOutcome
  NoOrphans
  NothingAfterError
PROPERTIES
  EverythingStops
  ImplementsStream
