SPECIFICATION Spec
CONSTANTS
  Ids = {a}
  Ticks = {1, 2}
  Retries = {c1}
  NoId = noid
  MaxRetries = 1
  MaxDeletes = 0
  MaxCrashes = 0
INVARIANTS RetryPossible
