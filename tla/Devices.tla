------------------------------- MODULE Devices -------------------------------
(***************************************************************************)
(* The paired devices of the vault server (lib/devices.ts): a cache that   *)
(* is loaded from devices.json when it is empty, pair codes, and three     *)
(* operations that change the list and write the whole file.               *)
(*                                                                         *)
(* Two operations that find the cache empty both read the file, and each   *)
(* has a list of its own; two writes of the file leave either list, or a   *)
(* mixture; a restart within a write leaves it half written.  What the two *)
(* races can undo is remembered in "coldRace" and "writeRace".             *)
(***************************************************************************)
EXTENDS Naturals, FiniteSets

CONSTANTS
  Old,         \* a device that is paired from the start
  Redeemers,   \* requests that redeem a pair code; each stands for the device it pairs
  Codes,
  Revokers, Verifiers,
  MaxBoots     \* bound: restarts of the server

VARIABLES
  codes,       \* pair codes that are valid
  lists,       \* the lists in memory: operation -> what the list it loaded has come to be
  cache,       \* the operation whose list is the cache, or none
  disk,        \* devices.json
  writing,     \* writes of the file in flight: operation -> what the file may be when it has ended
  ops,         \* the operations
  made,        \* history: code -> the devices paired with it
  answered,    \* history: device -> "ok" or "revoked", as the last answer said
  coldRace, writeRace, boots

devicesVars == <<codes, lists, cache, disk, writing, ops, made, answered, coldRace, writeRace, boots>>

Known == {Old} \cup Redeemers
Requests == Redeemers \cup Revokers \cup Verifiers
None == "none"
AtStart == [d \in Known |-> IF d = Old THEN "ok" ELSE "absent"]
Torn == [d \in Known |-> "torn"]    \* a file that does not parse
Asleep == [pc |-> "idle", list |-> None, device |-> None, since |-> "absent"]

DevicesInit ==
  /\ codes = Codes /\ made = [c \in Codes |-> {}]
  /\ lists = [o \in Requests |-> AtStart] /\ cache = None
  /\ disk = AtStart /\ writing = [o \in Requests |-> {}]
  /\ ops = [o \in Requests |-> Asleep]
  /\ answered = AtStart
  /\ coldRace = FALSE /\ writeRace = FALSE /\ boots = 0

AtStage(o, pc) == ops[o].pc = pc
Go(o, pc, list) ==
  ops' = [ops EXCEPT ![o] = [pc |-> pc, list |-> list, device |-> ops[o].device, since |-> ops[o].since]]

-----------------------------------------------------------------------------
(* Pair codes *)

Spent(c) == codes \ {c}

\* redeemPairCode up to the hash: the code is gone before the first await.  A code that ends after
\* its minute is one that nobody redeems.
Redeem(o, c) ==
  /\ o \in Redeemers /\ AtStage(o, "idle") /\ c \in codes /\ answered[o] = "absent"
  /\ codes' = Spent(c) /\ made' = [made EXCEPT ![c] = @ \cup {o}]
  /\ ops' = [ops EXCEPT ![o] = [pc |-> "load", list |-> None, device |-> o, since |-> "absent"]]
  /\ UNCHANGED <<lists, cache, disk, writing, answered, coldRace, writeRace, boots>>

\* Revocations and verifications are about devices that were answered before; "since" is what was
\* answered of the device when the operation began.
Ask(o, d) ==
  /\ o \in Revokers \cup Verifiers /\ AtStage(o, "idle") /\ answered[d] # "absent"
  /\ ops' = [ops EXCEPT ![o] = [pc |-> "load", list |-> None, device |-> d, since |-> answered[d]]]
  /\ UNCHANGED <<codes, lists, cache, disk, writing, made, answered, coldRace, writeRace, boots>>

-----------------------------------------------------------------------------
(* The list *)

\* The cache, or a read of the file.
Load(o) ==
  /\ AtStage(o, "load")
  /\ IF cache # None
     THEN Go(o, "change", cache) /\ UNCHANGED coldRace
     ELSE /\ Go(o, "read", None)
          /\ coldRace' = (coldRace \/ \E q \in Requests : AtStage(q, "read"))
  /\ UNCHANGED <<codes, lists, cache, disk, writing, made, answered, writeRace, boots>>

CacheAfterRead(o) == o

\* The read of a file that is being written may see it empty or cut off, and throws as on a torn one.
ReadFile(o) ==
  /\ AtStage(o, "read")
  /\ \/ /\ disk # Torn
        /\ lists' = [lists EXCEPT ![o] = disk] /\ cache' = CacheAfterRead(o)
        /\ Go(o, "change", o)
     \/ /\ disk = Torn \/ \E q \in Requests : writing[q] # {}
        /\ ops' = [ops EXCEPT ![o] = Asleep] /\ UNCHANGED <<lists, cache>>
  /\ UNCHANGED <<codes, disk, writing, made, answered, coldRace, writeRace, boots>>

\* What writes that overlap may leave: one of the lists, or one with the end of another behind it.
Mixed(list) == {list, Torn} \cup UNION {writing[q] : q \in Requests}

\* save: the list becomes the cache and is written as it is now.
Save(o, list) ==
  LET race == \E q \in Requests : writing[q] # {}
  IN /\ lists' = [lists EXCEPT ![ops[o].list] = list] /\ cache' = ops[o].list
     /\ writing' = [q \in Requests |-> IF q # o /\ writing[q] = {} THEN {} ELSE IF race THEN Mixed(list) ELSE {list}]
     /\ writeRace' = (writeRace \/ race)
     /\ Go(o, "save", ops[o].list)

\* redeem pushes its device, revoke marks one it finds; a verification passes over revoked
\* devices and awaits argon2 before it saves the list, which others may have changed by then.
Change(o) ==
  LET list  == lists[ops[o].list]
      state == list[ops[o].device]
  IN /\ AtStage(o, "change")
     /\ \/ o \in Redeemers /\ Save(o, [list EXCEPT ![o] = "ok"])
        \/ o \in Revokers /\ state # "absent" /\ Save(o, [list EXCEPT ![ops[o].device] = "revoked"])
        \/ /\ IF o \in Verifiers THEN state # "ok" ELSE o \in Revokers /\ state = "absent"
           /\ ops' = [ops EXCEPT ![o] = Asleep] /\ UNCHANGED <<lists, cache, writing, writeRace>>
        \/ /\ o \in Verifiers /\ state = "ok"
           /\ Go(o, "match", ops[o].list) /\ UNCHANGED <<lists, cache, writing, writeRace>>
     /\ UNCHANGED <<codes, disk, made, answered, coldRace, boots>>

\* Bug: the verification writes the list it has found in the file.
Verified_AsLoaded(o) == disk

Verified(o) == lists[ops[o].list]

Matched(o) ==
  /\ AtStage(o, "match") /\ Save(o, Verified(o))
  /\ UNCHANGED <<codes, disk, made, answered, coldRace, boots>>

Written(o) ==
  /\ AtStage(o, "save")
  /\ disk' \in writing[o] /\ writing' = [writing EXCEPT ![o] = {}]
  /\ answered' = CASE o \in Redeemers /\ answered[o] = "absent" -> [answered EXCEPT ![o] = "ok"]
                   [] o \in Revokers -> [answered EXCEPT ![ops[o].device] = "revoked"]
                   [] OTHER          -> answered
  /\ ops' = [ops EXCEPT ![o] = Asleep]
  /\ UNCHANGED <<codes, lists, cache, made, coldRace, writeRace, boots>>

\* Codes and lists are gone, the file stays; a write that was in flight had not begun, is complete,
\* or has left a part of the list.
Boot ==
  /\ boots < MaxBoots /\ boots' = boots + 1
  /\ \/ disk' = disk
     \/ \E o \in Requests : writing[o] # {} /\ disk' \in writing[o] \cup {Torn}
  /\ codes' = {} /\ cache' = None /\ lists' = [o \in Requests |-> AtStart]
  /\ writing' = [o \in Requests |-> {}] /\ ops' = [o \in Requests |-> Asleep]
  /\ UNCHANGED <<made, answered, coldRace, writeRace>>

DevicesNext ==
  \/ Boot
  \/ \E c \in Codes, o \in Redeemers : Redeem(o, c)
  \/ \E o \in Requests : Load(o) \/ ReadFile(o) \/ Change(o) \/ Matched(o) \/ Written(o)
                           \/ \E d \in Known : Ask(o, d)

-----------------------------------------------------------------------------
DevicesTypeOK ==
  LET list == [Known -> {"ok", "revoked", "absent"}]
  IN /\ codes \subseteq Codes /\ lists \in [Requests -> list] /\ disk \in list \cup {Torn}
     /\ writing \in [Requests -> SUBSET (list \cup {Torn})] /\ cache \in Requests \cup {None}
     /\ answered \in list /\ made \in [Codes -> SUBSET Redeemers]
     /\ boots \in 0..MaxBoots

\* Devices whose pairing was answered are in the list, and those whose revocation was are revoked.
Keeps(list) == \A d \in Known : answered[d] = list[d] \/ answered[d] = "absent" \/ list[d] = "revoked"

\* The verification has found its device and will answer with it when its write has ended.
Accepts(o) == o \in Verifiers /\ (AtStage(o, "match") \/ AtStage(o, "save"))

\* What was answered is kept: in the list of the server a device whose pairing was answered is known,
\* one whose revocation was answered is revoked, and a verification that begins after that answer does
\* not accept it (one that awaits argon2 while the revocation is answered still does, devices.ts:61-66).
\* It fails when the cold cache was loaded twice at once, or after a restart when two writes of the file
\* overlapped.  The file keeps what was answered too, or a restart fell within a write and it does not
\* parse: the server then has no list at all, and never an empty one.  A code pairs one
\* device.
AnswersAreKept ==
  /\ ~coldRace /\ ~(writeRace /\ boots > 0) =>
       /\ cache # None => Keeps(lists[cache])
       /\ \A o \in Requests : Accepts(o) => ops[o].since # "revoked"
  /\ ~coldRace /\ ~writeRace => Keeps(disk) \/ (disk = Torn /\ boots > 0 /\ cache = None)
  /\ \A c \in Codes : Cardinality(made[c]) <= 1
=============================================================================
