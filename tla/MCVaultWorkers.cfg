SPECIFICATION WorkersSpec
CONSTANTS
  Items = {"old", "new"}
  OldItems = {"old"}
  Timer = "tick"
  Requests = {"refresh"}
  Editor = "edit"
  MaxSeen = 1
  MaxRestarts = 1
  MaxEdits = 1

INVARIANTS WorkersTypeOK ItemsOnce
PROPERTIES ItemsArrive TopicsRebuilt NewestVectorStays
CHECK_DEADLOCK FALSE
