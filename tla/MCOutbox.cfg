\* Two results, first deliveries and a dispatcher that overlap, and a restart.
CONSTANTS
  j1 = j1
  j2 = j2
  Jobs = {j1, j2}
  NoRow = NoRow
  Answers = {200, 404, 429}
  BACKOFF <- Backoff12
  STEADY = 3
  GIVE_UP_AFTER = 3
  CALL_TIMEOUT = 1
  BATCH = 2
  LastInsert = 1
  MaxTime = 8
  MaxRestarts = 1
SPECIFICATION OutboxSpec
INVARIANTS ClosedForCause NoLateRetry
CHECK_DEADLOCK FALSE
PROPERTY EveryRowCloses
