SPECIFICATION Spec
CONSTANTS
  e1 = e1
  e2 = e2
  b1 = b1
  b2 = b2
  f1 = f1
  f2 = f2
  p1 = p1
  p2 = p2
  m1 = m1
  m2 = m2
  r1 = r1
  r2 = r2
  Null = Null
  Source <- Revisions
  Seeded <- Imported
  Oversized <- NoBodies
  Config <- TwoBuilds
  Policy <- TightPolicy
  Run <- OneRun
  RetryAfter <- NoAnswer
  LeaseWindow = 1
  MaxRetryAfter = 2
  Horizon = 1
  MaxDay = 0
  MaxEpoch = 2
PROPERTIES
  PageRevisionsNeverRegress
