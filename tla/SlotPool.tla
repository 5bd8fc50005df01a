------------------------------ MODULE SlotPool ------------------------------
(***************************************************************************)
(* What the portal promises about the vault slots, without any of its      *)
(* machinery: a slot is free, held by one employee, or retired with the    *)
(* data of one former employee.  Only the lowest free slot is handed out,  *)
(* and a retired slot comes back only to its former owner or after an      *)
(* explicit release.                                                       *)
(***************************************************************************)
EXTENDS Naturals

CONSTANTS Names, Slots

VARIABLE pool       \* slot -> [kind: free | held | retired, who]

Free       == [kind |-> "free", who |-> {}]
Held(n)    == [kind |-> "held", who |-> {n}]
Retired(n) == [kind |-> "retired", who |-> {n}]

SlotState == {Free} \cup {Held(n) : n \in Names} \cup {Retired(n) : n \in Names}

Init == pool \in [Slots -> {Free} \cup {Held(n) : n \in Names}]

HoldsNothing(n) == \A s \in Slots : pool[s] # Held(n)

\* An invitation gets the first slot that is neither held nor retired.
Assign(n, s) ==
  /\ pool[s] = Free
  /\ \A t \in Slots : pool[t] = Free => s <= t
  /\ HoldsNothing(n)
  /\ pool' = [pool EXCEPT ![s] = Held(n)]

\* An invitation with restoreSlot gives a former employee the old slot back.
Restore(n, s) ==
  /\ pool[s] = Retired(n)
  /\ HoldsNothing(n)
  /\ pool' = [pool EXCEPT ![s] = Held(n)]

\* A failed invitation: the slot goes back to what it was.
GiveBack(n, s) ==
  /\ pool[s] = Held(n)
  /\ pool' \in {[pool EXCEPT ![s] = Free], [pool EXCEPT ![s] = Retired(n)]}

Retire(n, s) ==
  /\ pool[s] = Held(n)
  /\ pool' = [pool EXCEPT ![s] = Retired(n)]

Release(s) ==
  /\ \E n \in Names : pool[s] = Retired(n)
  /\ pool' = [pool EXCEPT ![s] = Free]

Next ==
  \E s \in Slots :
    \/ Release(s)
    \/ \E n \in Names : Assign(n, s) \/ Restore(n, s) \/ GiveBack(n, s) \/ Retire(n, s)

Spec == Init /\ [][Next]_pool
=============================================================================
