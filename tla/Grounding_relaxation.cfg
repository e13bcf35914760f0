SPECIFICATION GroundingSpec
CONSTANTS
  e1 = e1
  e2 = e2
  w1 = w1
  w2 = w2
  w3 = w3
  price = price
  size = size
  ice = ice
  few = few
  lots = lots
  hot = hot
  None = None
  Nil = Nil
  Malformed = Malformed
  Everything = Everything
  Entity = {e1, e2}
  Source <- MCSource
  MaxRevision = 2
  Answer <- MCAnswer
  Policy <- MCPolicy
  MaxMatches = 16
  MaxTerms = 64
  Domain <- MCDomain
  Row <- MCRow
  Stored <- MCStored
INVARIANTS
  UnboundIsUnrestricted
