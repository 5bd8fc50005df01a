SPECIFICATION Spec
CONSTANTS
  anna = anna
  ben = ben
  Names = {anna, ben}
  Slots <- MCSlots
  Calls = {c1, c2}
  NoName = noname
  NoCall = nocall
  LeakyReader = FALSE
  FaultKinds = {"authentik", "http", "db", "lost"}
  MaxFaults = 1
  Staff <- OneReader
  Ops = {"invite", "restore", "remove", "release"}
  Overlap = FALSE
  MaxCalls = 3
  MaxCrashes = 1
CHECK_DEADLOCK FALSE
INVARIANTS TypeOK
PROPERTIES ImplementsSlotPool CallsAnswer
