SPECIFICATION Spec
CONSTANTS
  None = None
  r1 = r1
  r2 = r2
  r3 = r3
  Req = {r1, r2}
  Bodies <- GoalBodies
  StartRows <- LiveOnly
  PoolSize = 2
PROPERTY
  GoalRaisesScore
