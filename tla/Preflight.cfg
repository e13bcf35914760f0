SPECIFICATION PreflightSpec
CONSTANTS
  e1 = e1
  b1 = b1
  f1 = f1
  p1 = p1
  m1 = m1
  m2 = m2
  r1 = r1
  old = old
  new = new
  eye = eye
  Null = Null
  Source <- OneOffer
  Seeded <- NoOffers
  Oversized <- AllBodies
  Config <- Builds
  Policy <- RetryPolicy
  Run <- OneRun
  RetryAfter <- AnyAnswer
  LeaseWindow = 2
  MaxRetryAfter = 2
  Horizon = 1
  MaxDay = 0
  MaxEpoch = 2
  Runner <- MCRunner
  Inspector <- MCInspector
  Built <- MCBuilt
  Matrix <- MCMatrix
INVARIANTS
  LeaseOwnership
  OneAcceptancePerEpoch
  OpenTasksHaveRetriesLeft
  DeadTasksAreEscalated
  HeadsNameTheirTask
PROPERTIES
  TerminalUntilNewEpoch
  OutcomesAreFinal
  ChecksAreExact
