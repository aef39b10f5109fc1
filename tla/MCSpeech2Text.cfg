SPECIFICATION Spec
CONSTANTS
  Timeout = 104
  MaxCall = 3
  Late = 1
INVARIANTS EndsInTime PromptJobIsReturned
