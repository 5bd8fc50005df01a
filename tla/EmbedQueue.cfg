SPECIFICATION Spec
CONSTANTS
  Vaults = {va, vb}
  NoVault = none
  Requests = {r1, r2, r3}
  NoRequest = noreq
  MaxTexts = 2
  MaxPendingPerVault = 2
  MaxQueue = 3
  BulkEvery = 2
INVARIANTS TypeOK QueuesConsistent BulkIsServed
PROPERTIES RequestsAnswered
