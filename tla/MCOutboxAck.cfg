\* An acknowledged delivery is undone by one that overlaps it.
CONSTANTS
  j1 = j1
  j2 = j2
  Jobs = {j1}
  NoRow = NoRow
  Answers = {200, 503}
  BACKOFF <- Backoff1
  STEADY = 2
  GIVE_UP_AFTER = 2
  CALL_TIMEOUT = 1
  BATCH = 1
  LastInsert = 0
  MaxTime = 5
  MaxRestarts = 1
SPECIFICATION OutboxSpec
PROPERTIES AcknowledgedIsFinal
CHECK_DEADLOCK FALSE
