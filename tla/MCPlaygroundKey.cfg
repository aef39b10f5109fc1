SPECIFICATION FairSpec
CONSTANTS
  c = c
  v = v
  w = w
  a = a
  llm = llm
  stt = stt
  Requests <- MCRequests
  Kind <- MCKind
  Wanted <- MCWanted
  Models <- MCModels
INVARIANTS
  NoKeyLeft
  ModelsAllowed
PROPERTY
  EveryRequestEnds
