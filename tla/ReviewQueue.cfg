SPECIFICATION ReviewSpec
CONSTANTS
  e1 = e1
  b1 = b1
  f1 = f1
  f2 = f2
  p1 = p1
  m1 = m1
  r1 = r1
  sample = sample
  notice = notice
  Null = Null
  Source <- Revisions
  Seeded <- Nothing
  Oversized <- Nothing
  Config <- OneBuild
  Policy <- OnePolicy
  Run <- OneRun
  RetryAfter <- NoAnswer
  LeaseWindow = 1
  MaxRetryAfter = 2
  Horizon = 1
  MaxDay = 0
  MaxEpoch = 2
  Proposal <- Proposed
  Sample <- Samples
  Notice <- Notices
INVARIANTS
  ConflictsAreConverted
PROPERTIES
  DecisionsAreFinal
  ApprovalsAreWork
  RevivalsAreFenced
