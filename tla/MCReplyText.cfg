SPECIFICATION TextSpec
CONSTANTS
  Chars <- MCChars
  Space = " "
  OpenTag <- MCOpenTag
  CloseTag <- MCCloseTag
  Styles <- MCStyles
  MaxInput = 7
  MaxPiece = 2
  Letters = {"t"}
  Breaks = {"."}
  Flush = 2
  Deployments = {"d1", "d2"}
  Replies = {"r1", "r2", "r3", "r4", "r5"}
  DeploymentOf <- MCDeploymentOf
  RunsBeforeNone = 3
INVARIANTS
  SpeechIgnoresPieces
  EveryWordReachesTheListener
  NothingWaitsInVain
  DirectOnlyAfterTaglessRun
