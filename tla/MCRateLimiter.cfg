SPECIFICATION Spec
CONSTANTS
  r1 = r1
  r2 = r2
  r3 = r3
  k1 = k1
  k2 = k2
  p1 = p1
  Requests <- MCRequests
  Keys <- MCKeys
  Projects <- MCProjects
  ProjectOf <- MCProjectOf
  KeyLimit <- MCKeyLimit
  ProjectLimit <- MCProjectLimit
  TokenCounts <- MCTokenCounts
  Horizon = 2
  DayOf <- MCDayOf
  MonthOf <- MCMonthOf
  MaxLag = 1
SYMMETRY Symmetry
INVARIANTS
  KeyWithinLimit
  NoEarlyRefusal
  ProjectWithinLargestLimit
  KeyCannotDrainProject
  TokensWithinLimit
