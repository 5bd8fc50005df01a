SPECIFICATION Spec
CONSTANTS
  anna = anna
  ben = ben
  Names = {anna, ben}
  Slots <- MCSlots
  Calls = {c1, c2}
  NoName = noname
  NoCall = nocall
  LeakyReader = FALSE
  FaultKinds = {"authentik"}
  MaxFaults = 1
  Staff <- OneReader
  Ops = {"invite", "resend", "role", "disable", "enable", "remove", "rotate", "reprovision", "activate", "login"}
  Overlap = FALSE
  MaxCalls = 3
  MaxCrashes = 0
CHECK_DEADLOCK FALSE
SYMMETRY CallSymmetry
INVARIANTS KeysMatchUsers WebAccessCurrent
