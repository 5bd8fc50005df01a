------------------------------ MODULE MCMcpGate ------------------------------
(***************************************************************************)
(* A small instance of the gate.                                           *)
(***************************************************************************)
EXTENDS McpGate, TLC

\* Connections, session ids and keys are compared only for equality.
Interchangeable ==
    Permutations(Requests) \cup Permutations(Sids) \cup Permutations(Keys)
=============================================================================
