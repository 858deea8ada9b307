\* Two reservations of two requests, one refresh walk over two receivers, or
\* scans of a source that breaks its contract and reorgs once, under every
\* crash, rebuild and failed reset of the wallet's files.
CONSTANTS
  Reservers = {w1, w2}
  Requests = {r1, r2}
  Amounts = {1, 2}
  HoldIds = {h1, h2}
  MaxBalance = 3
  Receivers = {t1, t2}
  Outpoints = {o1}
  MaxHeight = 2
  Pools = {p1, p2}
  EmptyPools = {p2}
  ChunkBlocks = 2
  PageRoots = 1
  MaxRoots = 2
  Seeds = {s1, s2}
  Workloads = {{"dispense"}, {"refresh"}, {"scan"}}
  None = None
SYMMETRY Interchangeable
SPECIFICATION Spec
INVARIANTS
  TypeOK
  HoldsBacked
  OneHoldPerRequest
  RowsAttested
  RootsBehindFrontier
  FilesBelongTogether
PROPERTIES
  VerdictFits
