SPECIFICATION StoresSpec
CONSTANTS
  s1 = s1
  s2 = s2
  p1 = p1
  p2 = p2
  o1 = o1
  o3 = o3
  g1 = g1
  g2 = g2
  Subject = {s1, s2, o3}
  Predicate = {p1, p2}
  Object = {o1, s2, o3}
  Graph = {g1, g2}
  Default = Default
  Any = Any
  Inputs <- MCInputs
  MaxBatch = 2
  x1 = x1
  x2 = x2
  n1 = n1
  n2 = n2
  Callers = {c1, c2}
  MaxCalls = 4
  TxnKeys = 8
  Key = {s1, s2, p1, p2}
  Value = {o1, o3}
  smallMapMax = 3
  NoMap = NoMap
INVARIANTS
  StoresWellFormed StoreReadsExact BadgerIndexesAgree SPARQLOkIsWhole
PROPERTIES
  StoreCallsExact KeepsPromise ImplementsMap SQLiteCallsAtomic
CHECK_DEADLOCK FALSE
