SPECIFICATION FairSpec
CONSTANTS
  r1 = r1
  r2 = r2
  r3 = r3
  d1 = d1
  d2 = d2
  Runtimes <- MCRuntimes
  Orders <- MCOrders
  Deployments <- MCDeployments
  RuntimeOf <- MCRuntimeOf
  Misconfigured <- MCMisconfigured
  MaxFlips = 1
PROPERTIES
  UpIsUsed
  DownIsAvoided
