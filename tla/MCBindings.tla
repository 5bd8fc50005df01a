----------------------------- MODULE MCBindings -----------------------------
(***************************************************************************)
(* Small instances of the binding table.                                   *)
(***************************************************************************)
EXTENDS Bindings, TLC

\* Sessions and keys are interchangeable: nothing in the table compares them
\* other than for equality.
Interchangeable == Permutations(Sids) \cup Permutations(Keys)
=============================================================================
