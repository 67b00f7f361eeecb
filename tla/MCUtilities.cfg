SPECIFICATION MCSpec
SYMMETRY MCSymmetry
CONSTANTS
  Callers = {c1, c2, c3}
  Resources = {r1, r2}
  MaxLocks = 4
  Nodes = {n1, n2, n3, n4}
  Objs = {1, 2, 3, 4, 5}
  MaxDepth = 4
  Takers = {k1, k2}
  Capacity = 2
  MaxTake = 2
  MaxDebt = 4
  MaxTime = 5
  Peers = {p1, p2, p3}
  MaxKnights = 2
  None = None
  n5 = n5
  n6 = n6
  n7 = n7
  n8 = n8
  n9 = n9
  h1 = h1
  h2 = h2
  h3 = h3
  h4 = h4
  h5 = h5
INVARIANTS
  MutualExclusion
  NoLeak
  RootsCorrect
  CacheFresh
  NeverBroken
  RateLimit
  NoOvertaking
  OnePlace
  NoMissedQueen
  PlacesFilled
  OrderCoversTable
  NothingStuck
PROPERTIES
  NoSilentEviction
CHECK_DEADLOCK FALSE
