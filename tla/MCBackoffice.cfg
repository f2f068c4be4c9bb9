SPECIFICATION Spec
CONSTANTS
  None = None
  c1 = c1
  c2 = c2
  s1 = s1
  g0 = g0
  g1 = g1
  g2 = g2
  t1 = t1
  t2 = t2
  t3 = t3
  m0 = m0
  p1 = p1
  p2 = p2
  p3 = p3
  l1 = l1
  x1 = x1
  e1 = e1
  e2 = e2
  a1 = a1
  v1 = v1
  r1 = r1
  r2 = r2
  r3 = r3
  r4 = r4
  Req <- Requests
  Rows0 <- Rows
  Mixes <- AllMixes
  DayLength = 24
SYMMETRY Alike
CHECK_DEADLOCK FALSE
INVARIANTS
  TypeOK
  KeysUnique
  NoOrphans
  CirclesNeedLeavers
  WaitsAreLocks
PROPERTIES
  SheetReplaced
  DuplicateSeen
  UpdatesKeepTheRest
  FirstReviewWhole
  RefusedByRivalOnly
  InItsCompetition
  TablesFailOnlyUnsettled
  ImplementsStore
