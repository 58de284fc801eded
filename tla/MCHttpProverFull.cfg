\* A job is accepted and then refused by the queue.
CONSTANTS
  j1 = j1
  j2 = j2
  j3 = j3
  Jobs = {j1, j2, j3}
  Requests = {j1, j2, j3}
  k1 = k1
  k2 = k2
  k3 = k3
  Keys = {k1, k2, k3}
  NoKey = NoKey
  NoRow = NoRow
  MaxConcurrency = 1
  MaxQueue = 1
SPECIFICATION HttpSafety
INVARIANTS RefusalsAreAnswered503
