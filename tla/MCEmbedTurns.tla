---------------------------- MODULE MCEmbedTurns ----------------------------
(* Vaults and requests are interchangeable. *)
EXTENDS EmbedTurns, TLC

Interchangeable == Permutations(Vaults) \cup Permutations(Requests)
=============================================================================
