SPECIFICATION FeedbackSpec
CONSTANTS
  d1 = d1
  d2 = d2
  q1 = q1
  k1 = k1
  k2 = k2
  p1 = p1
  e1 = e1
  Null = Null
  Domain = {d1, d2}
  Client = {c1, c2}
  Analyst = {a1}
  LogShape <- MCLogShape
  Batch <- MCBatch
  Command <- MCCommand
  AcceptedPage <- MCAcceptedPage
  Titled <- MCTitled
  MinEvents = 2
  MaxItems = 1
  MaxEvents = 2
  Window = 1
  MaxPerWindow = 1
  Waste = 1
  MaxLogs = 2
  MaxTime = 1
  MaxCrashes = 1
SYMMETRY ClientSymmetry
INVARIANTS
  BatchesAreWhole
  CountersAgree
  ReportsAreBacked
PROPERTIES
  AnswersAgree
CHECK_DEADLOCK FALSE
