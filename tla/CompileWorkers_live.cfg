SPECIFICATION FairWorkersSpec
CONSTANTS
  e1 = e1
  e2 = e2
  b1 = b1
  b2 = b2
  f1 = f1
  p1 = p1
  u1 = u1
  u2 = u2
  w1 = w1
  c1 = c1
  pass = pass
  Null = Null
  Source <- OneDrink
  Seeded <- NoDrink
  Oversized <- NoBody
  Config <- OneBuild
  Policy <- TwoRetries
  Run <- RunIds
  RetryAfter <- Answers
  LeaseWindow = 2
  MaxRetryAfter = 2
  Horizon = 1
  MaxDay = 0
  MaxEpoch = 2
  Server <- Servers
  Cli <- Runs
  Pass = pass
  Own <- Alike
  Offers <- EveryOffer
  Posted <- OneDrink
  BatchSize = 2
  Concurrency = 1
  MaxWait = 1
  LeaseSeconds = 2
  Prompt = TRUE
  MaxHalts = 1
  MaxErrors = 0
INVARIANTS
  WorkersTypeOK
  OneCompiler
PROPERTIES
  EveryTaskIsDecided
  RunsEnd
