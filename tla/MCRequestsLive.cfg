SPECIFICATION FairSpec
CONSTANTS
  None = None
  r1 = r1
  r2 = r2
  r3 = r3
  Req = {r1, r2, r3}
  Bodies <- WaitBodies
  StartRows <- Fresh
  PoolSize = 2
PROPERTIES
  EveryRequestAnswered
