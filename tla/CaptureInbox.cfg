SPECIFICATION Spec
CONSTANTS
  Ids = {a, b}
  Ticks = {1, 2}
  Retries = {c1}
  NoId = noid
  MaxRetries = 1
  MaxDeletes = 1
  MaxCrashes = 1
INVARIANTS TypeOK NothingLost IngestedOncePerRequest
PROPERTIES QueuedTakenUp
