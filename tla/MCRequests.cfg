SPECIFICATION Spec
CONSTANTS
  None = None
  r1 = r1
  r2 = r2
  r3 = r3
  Req = {r1, r2, r3}
  Bodies <- RaceBodies
  StartRows <- Kicked
  PoolSize = 2
SYMMETRY Symmetry
INVARIANTS
  TypeOK
  ScoringOrdered
  SequenceWithinCount
  NeverOvercounts
  NoOrphanEvents
  WalkoverHasForfeiter
PROPERTIES
  ImplementsStore
