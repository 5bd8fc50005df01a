--------------------------- MODULE SessionOwners ---------------------------
(***************************************************************************)
(* What the binding table of the mcp-gate promises, independent of how it  *)
(* is kept: every MCP session id has at most one owner, an owner never     *)
(* changes without the binding being given up in between, the table is     *)
(* bounded as a whole and per API key.                                     *)
(* (deploy/stack/mcp-gate/src/bindings.ts, comments at lines 1-15)         *)
(***************************************************************************)
EXTENDS Naturals, FiniteSets

CONSTANTS
    Sids,        \* MCP session ids handed out by MetaMCP
    Keys,        \* hashes of the API keys
    Endpoints,   \* endpoint names in /metamcp/<name>/mcp
    Max,         \* global cap of the table
    MaxPerKey,   \* cap of one key
    Nobody       \* a session id without owner

VARIABLE owner   \* Sids -> [key, endpoint] or Nobody

Owner == [key : Keys, endpoint : Endpoints]

Owned(o) == {s \in Sids : o[s] # Nobody}

OwnedBy(o, k) == {s \in Owned(o) : o[s].key = k}

Fits(o) ==
    /\ Cardinality(Owned(o)) <= Max
    /\ \A k \in Keys : Cardinality(OwnedBy(o, k)) <= MaxPerKey

Init == owner = [s \in Sids |-> Nobody]

\* A session is given to the key and endpoint that initialized it.
Grant(s, k, e) ==
    /\ owner[s] = Nobody
    /\ owner' = [owner EXCEPT ![s] = [key |-> k, endpoint |-> e]]
    /\ Fits(owner')

\* One binding leaves the table.
Release(s) ==
    /\ owner[s] # Nobody
    /\ owner' = [owner EXCEPT ![s] = Nobody]

Next ==
    \/ \E s \in Sids, k \in Keys, e \in Endpoints : Grant(s, k, e)
    \/ \E s \in Sids : Release(s)

Spec == Init /\ [][Next]_owner
=============================================================================
