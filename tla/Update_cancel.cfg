SPECIFICATION RequestSpec
CONSTANTS
  ProbeStart = 1
  ProbeLimit = 3
  Internal <- MCInternal
  Cases <- MCCases
  Datasets <- MCDatasets
  Writes <- MCWrites
  Stores <- MCStores
  t1 = t1
  t2 = t2
  g1 = g1
  g2 = g2
  Default = default
  Triple = {t1, t2}
  Graph = {g1, g2}
  Ops <- MCOps
  MaxOps = 2
  MaxFaults = 0
  Goroutine = {c1, c2, c3}
  Text = {q1, q2, q3, q4}
  Malformed = {q4}
  Capacities = {0, 1, 2}
  DefaultCapacity = 3
  MaxCached = 5
  Off = Off
INVARIANT CancelledAllOrNothing
