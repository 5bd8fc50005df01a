SPECIFICATION Spec
CONSTANTS
  anna = anna
  ben = ben
  Names = {anna, ben}
  Slots <- MCSlots
  Calls = {c1, c2}
  NoName = noname
  NoCall = nocall
  LeakyReader = FALSE
  FaultKinds = {"authentik"}
  MaxFaults = 1
  Staff <- OneReader
  Ops = {"role"}
  Overlap = FALSE
  MaxCalls = 1
  MaxCrashes = 0
CHECK_DEADLOCK FALSE
INVARIANTS ReadersStayOutOfBrowser
