SPECIFICATION Spec
CONSTANTS
  None = None
  alice = alice
  root = root
  old = old
  r1 = r1
  r2 = r2
  r3 = r3
  Req <- Requests
  Accounts0 <- TwoAccounts
  Tokens0 <- OldToken
  Resets0 <- OldReset
  Mixes <- AllMixes
  NameOf <- Names
  Limit <- Limits
  Window = 2
  RefreshTTL = 1
  ResetTTL = 1
  MaxTime = 2
  MaxRestarts = 1
SYMMETRY Alike
CHECK_DEADLOCK FALSE
INVARIANTS
  TypeOK
  UniqueKeys
  ResetOnce
  WithinRate
PROPERTIES
  SuccessJustified
  WritesAsAsked
