------------------------------ MODULE MCPortal ------------------------------
(* Two employees, two slots, two operations in flight together. *)
EXTENDS PortalLifecycle, TLC

CONSTANTS anna, ben

MCSlots == {1, 2}
\* The places for calls are interchangeable.
CallSymmetry == Permutations(Calls)

NoStaff == [n \in Names |-> NoAccess]
OneReader == [n \in Names |-> IF n = anna THEN [slot |-> 1, role |-> "reader"] ELSE NoAccess]
OneWriter == [n \in Names |-> IF n = anna THEN [slot |-> 1, role |-> "writer"] ELSE NoAccess]
=============================================================================
