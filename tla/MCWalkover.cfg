SPECIFICATION Spec
CONSTANTS
  None = None
  ta = ta
  tb = tb
  tc = tc
  f1 = f1
  f2 = f2
  f3 = f3
  f4 = f4
  league = league
  cup = cup
  Teams <- ThreeTeams
  TeamName <- Names
  Fixtures <- FourFixtures
  Stages <- TwoStages
  StageOf <- StageOfFixture
  Stage = league
  HomeTeam <- Hosts
  AwayTeam <- Guests
  Results <- Rows
  Kickoff <- Times
  Limit = 1
CHECK_DEADLOCK FALSE
INVARIANT
  WalkoverIsStandard
