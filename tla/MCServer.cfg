CONSTANTS
  c1 = c1
  c2 = c2
  probe = probe
  row = row
  Clients = {c1, c2, probe}
  Workers = {w1, w2}
  Backends = {b1, b2}
  Rows = {row}
  RowOf <- MCRowOf
  Probes = {probe}
  None = None
SPECIFICATION FairSpec
INVARIANT
  TypeOK
PROPERTIES
  RefusedBecauseOfLeftOvers
  EveryRequestEnds
  HealthWaitsForItsWorkerOnly
