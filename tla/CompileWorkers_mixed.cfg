SPECIFICATION WorkersSpec
CONSTANTS
  e1 = e1
  e2 = e2
  b1 = b1
  b2 = b2
  f1 = f1
  p1 = p1
  u1 = u1
  u2 = u2
  w1 = w1
  c1 = c1
  pass = pass
  Null = Null
  Source <- Assorted
  Seeded <- NoDrink
  Oversized <- BigBody
  Config <- BothBuilds
  Policy <- OneRetry
  Run <- RunIds
  RetryAfter <- Backoffs
  LeaseWindow = 1
  MaxRetryAfter = 2
  Horizon = 1
  MaxDay = 0
  MaxEpoch = 2
  Server <- Servers
  Cli <- Runs
  Pass = pass
  Own <- Mixed
  Offers <- OneOffer
  Posted <- Posts
  BatchSize = 1
  Concurrency = 1
  MaxWait = 1
  LeaseSeconds = 1
  Prompt = FALSE
  MaxHalts = 0
  MaxErrors = 1
INVARIANTS
  StatsAddUp
PROPERTIES
  StoreIsKept
  RunsReleaseTheirLeases
