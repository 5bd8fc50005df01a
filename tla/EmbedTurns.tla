----------------------------- MODULE EmbedTurns -----------------------------
(***************************************************************************)
(* EmbedQueue with a history variable that counts what nextJob passed      *)
(* over; it reads the queue and never changes it.                          *)
(***************************************************************************)
EXTENDS EmbedQueue

VARIABLE passed   \* vault -> bulk texts of others while a bulk request of its own waited

TInit == Init /\ passed = [v \in Vaults |-> 0]

\* Counts stop above every bound a property states.
Capped(n) == IF n > Cardinality(Vaults) THEN n - 1 ELSE n

BulkPasses(w) == Contains(rotation, w) /\ HasLive(w, FALSE)

\* A pick that takes request r of vault v.
Counted(v, r) ==
  passed' = [w \in Vaults |->
    IF ~BulkPasses(w) \/ (w = v /\ ~job[r].priority) THEN 0
    ELSE IF job[r].priority \/ job[r].cancelled THEN passed[w]
    ELSE Capped(passed[w] + 1)]

TNext ==
  \/ Pick /\ Turn # 0 /\ Counted(rotation[Turn], Candidate(rotation[Turn]))
  \/ Pick /\ Turn = 0 /\ UNCHANGED passed
  \/ Other /\ UNCHANGED passed

TSpec == TInit /\ [][TNext]_<<vars, passed>>

-----------------------------------------------------------------------------
\* The header of service.ts: "within each class vaults take turns (round-robin), so one vault cannot
\* starve the others".  A vault's bulk request is passed over at most once by each other vault.
BulkTakesTurns == \A v \in Vaults : passed[v] <= Cardinality(Vaults) - 1
=============================================================================
