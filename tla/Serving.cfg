SPECIFICATION ServingSpec
CONSTANTS
  p1 = p1
  p2 = p2
  s1 = s1
  w1 = w1
  w2 = w2
  w3 = w3
  v1 = v1
  v2 = v2
  price = price
  None = None
  Nil = Nil
  Everything = Everything
  MaxMatches = 16
  MaxTerms = 64
  Page = {p1, p2}
  Content <- MCContent
  Pack <- MCPack
  Builder = {k1, k2}
  Engine = {server}
  Server = server
  PageRank <- MCRank
  MaxEdges = 4
  MaxBuilds = 2
  MaxPublications = 2
  Client = {c1}
  Query <- MCQuery
  Sku = {s1}
  FactRow <- MCFactRow
  NoFacts <- Unknown
  Load <- MCLoad
SYMMETRY BuilderSymmetry
INVARIANTS
  MirrorIsTheNewestBuild
  CacheIsCurrent
  CachedChunksAreCurrent
PROPERTIES
  BuildsKeepThePromise
  GraphsAreCurrent
CHECK_DEADLOCK FALSE
