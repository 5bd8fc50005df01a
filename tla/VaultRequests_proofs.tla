------------------------- MODULE VaultRequests_proofs -------------------------
(***************************************************************************)
(* Four theorems about requests of the vault server, for any number of     *)
(* them and of devices, paths, pages and notes.                            *)
(*                                                                         *)
(* Devices: what was answered of a device is kept, as far as               *)
(* AnswersAreKept says.  As long as the file was never read twice at once  *)
(* (~coldRace) there is one list: whoever has a list has the one that is   *)
(* the cache (OneList).  It never forgets a device and never takes back a  *)
(* revocation, so that what an operation has done to it is still there     *)
(* when its write ends and it answers (Done); that rests on a device not   *)
(* being revoked before its pairing was answered (Asked).  The file is the *)
(* list, or is about to be, as long as no two writes overlap               *)
(* (FileFollows), or a restart has left it half written and nobody has a   *)
(* list: with two writes it may be an older list, which a restart would    *)
(* load.  A verification that began after a revocation was answered finds  *)
(* the device revoked (NoneFooled).                                           *)
(*                                                                         *)
(* Trash: no interleaving of deletions, restores, writes and halts loses a *)
(* content.  ContentsKept is about one step, but whether a step loses      *)
(* something depends on what led there: the rename of a deletion must find *)
(* the place in its entry empty (Fresh), and a restore that removes its    *)
(* entry must have tried all that is in it (Tried), which it read from a   *)
(* manifest that names all of it (ManifestFull) and that no deletion adds  *)
(* to any more.                                                            *)
(*                                                                         *)
(* Wiki operations: a contribute plan that can still be applied has the    *)
(* pages it will create to itself.  The property is inductive once the     *)
(* types are known, and that only a contribute is ever held: reservations  *)
(* and plans carry the same deadline, so that they end at the same moment, *)
(* and a new plan takes only what nobody holds.                            *)
(*                                                                         *)
(* The note pane: what it shows is, when all has ended, what it saved, and *)
(* no note has a text of another.  Of a note that has met none of the      *)
(* races, a title or a body is kept (its file has it, or will by the save  *)
(* that is written last), or something is still to save it: a timer, or    *)
(* the end of a save that was sent before (TitleSafe, BodySafe).  That a   *)
(* save which ends with the title of now did save it rests on the order of *)
(* the saves (InOrder), and that on a title being new (TitlesDated).       *)
(***************************************************************************)
EXTENDS Devices, Trash, OpsPlans, NoteEditor, FiniteSetTheorems, TLAPS

-----------------------------------------------------------------------------
(* Devices *)


\* A request is of one kind; a device that a request pairs is new.
Distinct ==
  /\ Redeemers \cap Revokers = {} /\ Redeemers \cap Verifiers = {} /\ Revokers \cap Verifiers = {}
  /\ Old \notin Redeemers /\ None \notin Requests /\ MaxBoots \in Nat

States == [Known -> {"ok", "revoked", "absent"}]
Asks == [pc : {"idle", "load", "read", "change", "match", "save"}, list : Requests \cup {None},
         device : Known \cup {None}, since : {"ok", "revoked", "absent"}]

DeviceTypes ==
  /\ DevicesTypeOK /\ ops \in [Requests -> Asks]
  /\ coldRace \in BOOLEAN /\ writeRace \in BOOLEAN

\* What an operation holds by its stage, and what has been answered of the device it is about.
Asked ==
  \A o \in Requests :
    /\ ~AtStage(o, "idle") => ops[o].device \in Known
    /\ o \in Redeemers /\ ~AtStage(o, "idle") => ops[o].device = o /\ answered[o] = "absent"
    /\ o \in Revokers \cup Verifiers /\ ~AtStage(o, "idle") => answered[ops[o].device] # "absent"
    /\ ~AtStage(o, "idle") /\ ops[o].since = "revoked" => answered[ops[o].device] = "revoked"
    /\ AtStage(o, "match") => o \in Verifiers
    /\ ops[o].pc \in {"change", "match", "save"} => ops[o].list \in Requests /\ cache # None
    /\ writing[o] # {} <=> AtStage(o, "save")

Cached == lists[cache]

OneList ==
  ~coldRace =>
    \A o \in Requests :
      /\ AtStage(o, "read") => cache = None /\ \A q \in Requests : AtStage(q, "read") => q = o
      /\ ops[o].pc \in {"change", "match", "save"} => ops[o].list = cache

\* What an operation that saves has made of its device.
Done ==
  ~coldRace =>
    \A o \in Requests :
      AtStage(o, "save") =>
        /\ o \in Redeemers => Cached[o] # "absent"
        /\ o \in Revokers => Cached[ops[o].device] = "revoked"

FileFollows ==
  ~coldRace /\ ~writeRace =>
    /\ \A o, q \in Requests : writing[o] # {} /\ writing[q] # {} => o = q
    /\ \A o \in Requests : writing[o] # {} => writing[o] = {Cached}
    /\ cache # None /\ (\A o \in Requests : writing[o] = {}) => disk = Cached
    /\ Keeps(disk) \/ (disk = Torn /\ boots > 0 /\ cache = None)

CacheKeeps ==
  /\ ~coldRace /\ cache # None /\ ~(writeRace /\ boots > 0) => Keeps(Cached)
  /\ cache = None /\ boots = 0 => ~writeRace

\* No verification accepts a device that was revoked when it began.
NoneFooled ==
  ~coldRace /\ ~(writeRace /\ boots > 0) => \A o \in Requests : Accepts(o) => ops[o].since # "revoked"

OneDevice ==
  \A c \in Codes :
    /\ c \in codes => made[c] = {}
    /\ made[c] = {} \/ \E o \in Redeemers : made[c] = {o}

\* The inductive invariant.
DevicesInv == DeviceTypes /\ Asked /\ OneList /\ Done /\ FileFollows /\ CacheKeeps /\ NoneFooled /\ OneDevice

-----------------------------------------------------------------------------
LEMMA TornIsNoList == Torn \notin States
<1>1. \A list \in States : list[Old] \in {"ok", "revoked", "absent"}
  BY DEF States, Known
<1>2. Torn[Old] = "torn"
  BY DEF Torn, Known
<1> QED BY <1>1, <1>2

LEMMA InitDevices ==
  ASSUME Distinct, DevicesInit
  PROVE  DevicesInv
<1>1. AtStart \in States
  BY DEF AtStart, States
<1>2. ops \in [Requests -> Asks]
  BY DEF DevicesInit, Asks, Asleep
<1>3. /\ lists \in [Requests -> States] /\ writing \in [Requests -> SUBSET States]
      /\ made \in [Codes -> SUBSET Redeemers]
  BY <1>1 DEF DevicesInit
<1>4. DeviceTypes
  <2>1. disk \in States \cup {Torn} /\ answered \in States /\ codes \subseteq Codes /\ cache \in Requests \cup {None}
    BY <1>1 DEF DevicesInit
  <2>2. boots \in 0..MaxBoots
    BY DEF DevicesInit, Distinct
  <2>3. coldRace \in BOOLEAN /\ writeRace \in BOOLEAN
    BY Zenon DEF DevicesInit
  <2>4. writing \in [Requests -> SUBSET (States \cup {Torn})]
    BY <1>3
  <2> QED BY <1>2, <1>3, <2>1, <2>2, <2>3, <2>4 DEF DeviceTypes, DevicesTypeOK, States
<1>5. Asked
  BY DEF DevicesInit, Asked, Asleep, AtStage
<1>6. OneList /\ Done
  BY DEF DevicesInit, OneList, Done, Asleep, AtStage
<1>7. FileFollows
  BY DEF DevicesInit, FileFollows, Keeps
<1>8. CacheKeeps /\ NoneFooled /\ OneDevice
  BY DEF DevicesInit, CacheKeeps, NoneFooled, Accepts, AtStage, Asleep, OneDevice
<1> QED BY <1>4, <1>5, <1>6, <1>7, <1>8 DEF DevicesInv

\* Where an operation is after a step of its own.
LEMMA Goes ==
  ASSUME DeviceTypes, NEW o \in Requests, NEW pc, NEW list, Go(o, pc, list)
  PROVE  /\ \A q \in Requests : q # o => ops'[q] = ops[q]
         /\ ops'[o].pc = pc /\ ops'[o].list = list /\ ops'[o].device = ops[o].device
         /\ ops'[o].since = ops[o].since
  BY DEF Go, DeviceTypes

LEMMA GoesTyped ==
  ASSUME DeviceTypes, NEW o \in Requests, NEW pc \in {"idle", "load", "read", "change", "match", "save"},
         NEW list \in Requests \cup {None}, Go(o, pc, list)
  PROVE  ops' \in [Requests -> Asks]
  BY DEF Go, DeviceTypes, Asks

-----------------------------------------------------------------------------
LEMMA RedeemInv ==
  ASSUME Distinct, DevicesInv, NEW o \in Redeemers, NEW c \in Codes, Redeem(o, c)
  PROVE  DevicesInv'
<1>1. o \in Requests /\ o \in Known
  BY DEF Requests, Known
<1>2. /\ \A q \in Requests : q # o => ops'[q] = ops[q]
      /\ ops'[o].pc = "load" /\ ops'[o].list = None /\ ops'[o].device = o /\ ops' \in [Requests -> Asks]
      /\ ops'[o].since = "absent"
  BY <1>1 DEF Redeem, DevicesInv, DeviceTypes, Asks
<1>3. DeviceTypes'
  BY <1>2 DEF DevicesInv, DeviceTypes, DevicesTypeOK, Redeem, Spent
<1>4. Asked'
  BY <1>1, <1>2 DEF DevicesInv, Asked, Redeem, AtStage, Distinct
<1>5. OneList' /\ Done'
  BY <1>2 DEF DevicesInv, OneList, Done, Redeem, AtStage, Cached
<1>6. FileFollows' /\ CacheKeeps' /\ NoneFooled'
  BY <1>2 DEF DevicesInv, FileFollows, CacheKeeps, NoneFooled, Accepts, AtStage, Redeem, Cached, Keeps
<1>7. OneDevice'
  BY DEF DevicesInv, DeviceTypes, DevicesTypeOK, OneDevice, Redeem, Spent
<1> QED BY <1>3, <1>4, <1>5, <1>6, <1>7 DEF DevicesInv

LEMMA AskInv ==
  ASSUME Distinct, DevicesInv, NEW o \in Requests, NEW d \in Known, Ask(o, d)
  PROVE  DevicesInv'
<1>2. /\ \A q \in Requests : q # o => ops'[q] = ops[q]
      /\ ops'[o].pc = "load" /\ ops'[o].list = None /\ ops'[o].device = d /\ ops' \in [Requests -> Asks]
      /\ ops'[o].since = answered[d]
  BY DEF Ask, DevicesInv, DeviceTypes, DevicesTypeOK, Asks
<1>3. DeviceTypes'
  BY <1>2 DEF DevicesInv, DeviceTypes, DevicesTypeOK, Ask
<1>4. Asked'
  BY <1>2 DEF DevicesInv, Asked, Ask, AtStage, Distinct
<1>5. OneList' /\ Done'
  BY <1>2 DEF DevicesInv, OneList, Done, Ask, AtStage, Cached
<1>6. FileFollows' /\ CacheKeeps' /\ NoneFooled' /\ OneDevice'
  BY <1>2 DEF DevicesInv, FileFollows, CacheKeeps, NoneFooled, Accepts, AtStage, OneDevice, Ask, Cached, Keeps
<1> QED BY <1>3, <1>4, <1>5, <1>6 DEF DevicesInv

LEMMA LoadInv ==
  ASSUME Distinct, DevicesInv, NEW o \in Requests, Load(o)
  PROVE  DevicesInv'
<1>1. CASE cache # None
  <2>1. Go(o, "change", cache) /\ UNCHANGED coldRace
    BY <1>1 DEF Load
  <2>2. cache \in Requests
    BY <1>1 DEF DevicesInv, DeviceTypes, DevicesTypeOK
  <2>3. /\ \A q \in Requests : q # o => ops'[q] = ops[q]
        /\ ops'[o].pc = "change" /\ ops'[o].list = cache /\ ops'[o].device = ops[o].device
        /\ ops'[o].since = ops[o].since /\ ops' \in [Requests -> Asks]
    BY <2>1, <2>2, Goes, GoesTyped DEF DevicesInv
  <2>4. DeviceTypes'
    BY <2>1, <2>3 DEF DevicesInv, DeviceTypes, DevicesTypeOK, Load
  <2>5. Asked'
    BY <1>1, <2>2, <2>3 DEF DevicesInv, Asked, Load, AtStage
  <2>6. OneList' /\ Done'
    BY <1>1, <2>1, <2>3 DEF DevicesInv, OneList, Done, Load, AtStage, Cached
  <2>7. FileFollows' /\ CacheKeeps' /\ NoneFooled' /\ OneDevice'
    BY <2>1, <2>3 DEF DevicesInv, FileFollows, CacheKeeps, NoneFooled, Accepts, AtStage, OneDevice, Load, Cached, Keeps
  <2> QED BY <2>4, <2>5, <2>6, <2>7 DEF DevicesInv
<1>2. CASE cache = None
  <2>1. Go(o, "read", None) /\ coldRace' = (coldRace \/ \E q \in Requests : AtStage(q, "read"))
    BY <1>2 DEF Load
  <2>2. /\ \A q \in Requests : q # o => ops'[q] = ops[q]
        /\ ops'[o].pc = "read" /\ ops'[o].list = None /\ ops'[o].device = ops[o].device
        /\ ops'[o].since = ops[o].since /\ ops' \in [Requests -> Asks]
    BY <2>1, Goes, GoesTyped DEF DevicesInv
  <2>3. DeviceTypes'
    BY <2>1, <2>2 DEF DevicesInv, DeviceTypes, DevicesTypeOK, Load
  <2>4. Asked'
    BY <1>2, <2>2 DEF DevicesInv, Asked, Load, AtStage
  <2>5. ~coldRace' => ~coldRace /\ \A q \in Requests : ~AtStage(q, "read")
    BY <2>1
  <2>6. OneList' /\ Done'
    BY <1>2, <2>2, <2>5 DEF DevicesInv, OneList, Done, Load, AtStage, Cached
  <2>7. FileFollows' /\ CacheKeeps' /\ OneDevice'
    BY <2>5 DEF DevicesInv, FileFollows, CacheKeeps, OneDevice, Load, Cached, Keeps
  <2>8. NoneFooled'
    BY <2>2, <2>5 DEF DevicesInv, NoneFooled, Accepts, AtStage, Load
  <2> QED BY <2>3, <2>4, <2>6, <2>7, <2>8 DEF DevicesInv
<1> QED BY <1>1, <1>2

\* An operation that gives up.
LEMMA AsleepInv ==
  ASSUME Distinct, DevicesInv, NEW o \in Requests, ~AtStage(o, "save"),
         UNCHANGED <<codes, lists, cache, disk, writing, made, answered, coldRace, writeRace, boots>>,
         ops' = [ops EXCEPT ![o] = Asleep]
  PROVE  DevicesInv'
<1>1. /\ \A q \in Requests : q # o => ops'[q] = ops[q]
      /\ ops'[o].pc = "idle" /\ ops' \in [Requests -> Asks]
  BY DEF DevicesInv, DeviceTypes, Asks, Asleep
<1>2. DeviceTypes'
  BY <1>1 DEF DevicesInv, DeviceTypes, DevicesTypeOK
<1>3. Asked'
  BY <1>1 DEF DevicesInv, Asked, AtStage
<1>4. OneList' /\ Done'
  BY <1>1 DEF DevicesInv, OneList, Done, AtStage, Cached
<1>5. FileFollows' /\ CacheKeeps' /\ NoneFooled' /\ OneDevice'
  BY <1>1 DEF DevicesInv, FileFollows, CacheKeeps, NoneFooled, Accepts, AtStage, OneDevice, Cached, Keeps
<1> QED BY <1>2, <1>3, <1>4, <1>5 DEF DevicesInv

\* The file becomes the cache: nobody has another list, unless the cache was loaded twice at once.
LEMMA ReadListInv ==
  ASSUME Distinct, DevicesInv, NEW o \in Requests, ReadFile(o), disk # Torn, Go(o, "change", o),
         lists' = [lists EXCEPT ![o] = disk], cache' = CacheAfterRead(o)
  PROVE  DevicesInv'
<1>1. /\ \A q \in Requests : q # o => ops'[q] = ops[q]
      /\ ops'[o].pc = "change" /\ ops'[o].list = o /\ ops'[o].device = ops[o].device
      /\ ops'[o].since = ops[o].since /\ ops' \in [Requests -> Asks]
  BY Goes, GoesTyped DEF DevicesInv, ReadFile
<1>2. lists' \in [Requests -> States] /\ cache' = o /\ Cached' = disk
  BY DEF DevicesInv, DeviceTypes, DevicesTypeOK, States, ReadFile, CacheAfterRead, Cached
<1>3. DeviceTypes'
  BY <1>1, <1>2 DEF DevicesInv, DeviceTypes, DevicesTypeOK, States, ReadFile
<1>4. o # None
  BY DEF Distinct
<1>5. Asked'
  BY <1>1, <1>2, <1>4 DEF DevicesInv, Asked, ReadFile, AtStage
<1>6. ~coldRace => /\ cache = None
                   /\ \A q \in Requests : /\ ops[q].pc \in {"idle", "load", "read"}
                                          /\ AtStage(q, "read") => q = o
  BY DEF DevicesInv, DeviceTypes, Asks, Asked, OneList, ReadFile, AtStage
<1>7. OneList' /\ Done'
  BY <1>1, <1>2, <1>6 DEF OneList, Done, ReadFile, AtStage
<1>8. ~coldRace => \A q \in Requests : writing[q] = {}
  BY <1>6 DEF DevicesInv, Asked, AtStage
<1>9. FileFollows'
  BY <1>2, <1>8 DEF DevicesInv, FileFollows, ReadFile, Keeps
<1>10. ~coldRace /\ ~(writeRace /\ boots > 0) => Keeps(disk)
  BY <1>6 DEF DevicesInv, DeviceTypes, DevicesTypeOK, CacheKeeps, FileFollows
<1>11. CacheKeeps'
  BY <1>2, <1>4, <1>10 DEF CacheKeeps, ReadFile, Keeps
<1>12. OneDevice' /\ NoneFooled'
  BY <1>1 DEF DevicesInv, OneDevice, NoneFooled, Accepts, AtStage, ReadFile
<1> QED BY <1>3, <1>5, <1>7, <1>9, <1>11, <1>12 DEF DevicesInv

LEMMA ReadFileInv ==
  ASSUME Distinct, DevicesInv, NEW o \in Requests, ReadFile(o)
  PROVE  DevicesInv'
<1>1. ~AtStage(o, "save")
  BY DEF ReadFile, AtStage
<1> QED BY <1>1, ReadListInv, AsleepInv DEF ReadFile

-----------------------------------------------------------------------------
\* What an operation may save: the list it has, changed at its own device only.
Result(o, list) ==
  LET before == lists[ops[o].list]
  IN /\ list \in States
     /\ \A d \in Known : d # ops[o].device => list[d] = before[d]
     /\ o \in Redeemers => list[o] = "ok"
     /\ o \in Revokers => list[ops[o].device] = "revoked"
     /\ o \in Verifiers => list = before

LEMMA SaveInv ==
  ASSUME Distinct, DevicesInv, NEW o \in Requests, ops[o].pc = "match" \/ (ops[o].pc = "change" /\ o \notin Verifiers),
         NEW list, Result(o, list), Save(o, list),
         UNCHANGED <<codes, disk, made, answered, coldRace, boots>>
  PROVE  DevicesInv'
<1>1. ops[o].list \in Requests /\ cache # None /\ ops[o].device \in Known
  BY DEF DevicesInv, Asked, AtStage
<1>2. /\ \A q \in Requests : q # o => ops'[q] = ops[q]
      /\ ops'[o].pc = "save" /\ ops'[o].list = ops[o].list /\ ops'[o].device = ops[o].device
      /\ ops'[o].since = ops[o].since /\ ops' \in [Requests -> Asks]
  BY <1>1, Goes, GoesTyped DEF DevicesInv, Save
<1>3. /\ lists' \in [Requests -> States] /\ cache' = ops[o].list /\ Cached' = list
  BY <1>1 DEF DevicesInv, DeviceTypes, DevicesTypeOK, States, Save, Result, Cached
<1>w. /\ writing' \in [Requests -> SUBSET (States \cup {Torn})]
      /\ \A q \in Requests : writing'[q] # {} <=> q = o \/ writing[q] # {}
      /\ (\A q \in Requests : writing[q] = {}) => writing'[o] = {list} /\ \A q \in Requests : q # o => writing'[q] = {}
  <2>1. Mixed(list) \subseteq States \cup {Torn} /\ list \in Mixed(list) /\ list \in States
    BY DEF DevicesInv, DeviceTypes, DevicesTypeOK, States, Result, Mixed
  <2> HIDE DEF Mixed
  <2>2. PICK race : race = \E q \in Requests : writing[q] # {}
    OBVIOUS
  <2>3. writing' = [q \in Requests |-> IF q # o /\ writing[q] = {} THEN {} ELSE IF race THEN Mixed(list) ELSE {list}]
    BY <2>2 DEF Save
  <2> QED BY <2>1, <2>2, <2>3
<1>4. writeRace' = (writeRace \/ \E q \in Requests : writing[q] # {})
  BY DEF Save
<1>5. cache' # None
  BY <1>1, <1>3 DEF Distinct
<1>6. DeviceTypes'
  BY <1>1, <1>2, <1>3, <1>w, <1>4 DEF DevicesInv, DeviceTypes, DevicesTypeOK, States
<1>7. Asked'
  BY <1>1, <1>2, <1>3, <1>w, <1>5 DEF DevicesInv, Asked, AtStage
<1>8. ~coldRace => ops[o].list = cache /\ lists[ops[o].list] = Cached /\ \A q \in Requests : ~AtStage(q, "read")
  BY <1>1 DEF DevicesInv, OneList, Cached
<1>9. OneList'
  BY <1>2, <1>3, <1>8 DEF DevicesInv, OneList, AtStage
<1>10. o \in Redeemers => ops[o].device = o /\ answered[o] = "absent"
  BY DEF DevicesInv, Asked, AtStage
<1>11. o \in Redeemers \/ o \in Revokers \/ o \in Verifiers
  BY DEF Requests
<1>12. Done'
  <2> SUFFICES ASSUME ~coldRace, NEW q \in Requests, AtStage(q, "save")'
               PROVE  /\ q \in Redeemers => list[q] # "absent"
                      /\ q \in Revokers => list[ops'[q].device] = "revoked"
    BY <1>3 DEF Done
  <2>1. CASE q = o
    BY <2>1, <1>2 DEF Result
  <2>2. CASE q # o
    <3>1. AtStage(q, "save") /\ ops'[q] = ops[q]
      BY <2>2, <1>2 DEF AtStage
    <3>2. q \in Redeemers => Cached[q] # "absent" /\ q \in Known /\ ops[q].device = q
      BY <3>1 DEF DevicesInv, Done, Known, Asked, AtStage
    <3>3. q \in Revokers => /\ Cached[ops[q].device] = "revoked" /\ ops[q].device \in Known
                            /\ answered[ops[q].device] # "absent"
      BY <3>1 DEF DevicesInv, Done, Asked, AtStage
    <3>4. \A d \in Known : d # ops[o].device => list[d] = Cached[d]
      BY <1>8 DEF Result
    <3>5. CASE o \in Redeemers
      BY <2>2, <3>1, <3>2, <3>3, <3>4, <3>5, <1>10
    <3>6. CASE o \in Revokers
      BY <3>1, <3>2, <3>3, <3>4, <3>6 DEF Result
    <3>7. CASE o \in Verifiers
      BY <3>1, <3>2, <3>3, <3>7, <1>8 DEF Result
    <3> QED BY <3>5, <3>6, <3>7, <1>11
  <2> QED BY <2>1, <2>2
<1>13. ~coldRace /\ Keeps(Cached) => Keeps(list)
  BY <1>8, <1>10, <1>11 DEF Keeps, Result
<1>14. FileFollows'
  BY <1>1, <1>3, <1>w, <1>4 DEF DevicesInv, FileFollows, Keeps
<1>15. CacheKeeps'
  BY <1>1, <1>3, <1>4, <1>5, <1>13 DEF DevicesInv, CacheKeeps, Keeps
<1>16. OneDevice'
  BY DEF DevicesInv, OneDevice
<1>17. NoneFooled'
  <2> SUFFICES ASSUME ~coldRace, ~(writeRace /\ boots > 0), o \in Verifiers PROVE ops[o].since # "revoked"
    BY <1>2, <1>4 DEF DevicesInv, NoneFooled, Accepts, AtStage
  <2>1. CASE ops[o].pc = "match"
    BY <2>1 DEF DevicesInv, NoneFooled, Accepts, AtStage
  <2> QED BY <2>1
<1> QED BY <1>6, <1>7, <1>9, <1>12, <1>14, <1>15, <1>16, <1>17 DEF DevicesInv

\* A verification finds its device in the list and awaits argon2.
LEMMA LookOnInv ==
  ASSUME Distinct, DevicesInv, NEW o \in Verifiers, AtStage(o, "change"),
         UNCHANGED <<codes, lists, cache, disk, writing, made, answered, coldRace, writeRace, boots>>,
         lists[ops[o].list][ops[o].device] = "ok", Go(o, "match", ops[o].list)
  PROVE  DevicesInv'
<1>1. o \in Requests /\ ops[o].list \in Requests /\ cache # None /\ ops[o].device \in Known
  BY DEF DevicesInv, Asked, AtStage, Requests
<1>2. /\ \A q \in Requests : q # o => ops'[q] = ops[q]
      /\ ops' \in [Requests -> Asks]
      /\ ops'[o].pc = "match" /\ ops'[o].since = ops[o].since
      /\ ops'[o].list = ops[o].list /\ ops'[o].device = ops[o].device
  BY <1>1, Goes, GoesTyped DEF DevicesInv
<1>3. DeviceTypes'
  BY <1>2 DEF DevicesInv, DeviceTypes, DevicesTypeOK
<1>4. Asked'
  BY <1>1, <1>2 DEF DevicesInv, Asked, AtStage
<1>5. OneList' /\ Done'
  BY <1>2 DEF DevicesInv, OneList, Done, AtStage, Cached
<1>6. FileFollows' /\ CacheKeeps' /\ OneDevice'
  BY DEF DevicesInv, FileFollows, CacheKeeps, OneDevice, Cached, Keeps
<1>7. NoneFooled'
  <2>1. ~coldRace /\ ~(writeRace /\ boots > 0) => ops[o].since # "revoked"
    <3> SUFFICES ASSUME ~coldRace, ~(writeRace /\ boots > 0), ops[o].since = "revoked" PROVE FALSE
      OBVIOUS
    <3>1. answered[ops[o].device] = "revoked"
      BY <1>1 DEF DevicesInv, Asked, AtStage
    <3>2. Keeps(Cached) /\ ops[o].list = cache
      BY <1>1 DEF DevicesInv, CacheKeeps, OneList, AtStage
    <3> QED BY <1>1, <3>1, <3>2 DEF Keeps, Cached
  <2> QED BY <1>2, <2>1 DEF DevicesInv, NoneFooled, Accepts, AtStage
<1> QED BY <1>3, <1>4, <1>5, <1>6, <1>7 DEF DevicesInv

LEMMA ChangeInv ==
  ASSUME Distinct, DevicesInv, NEW o \in Requests, Change(o)
  PROVE  DevicesInv'
<1> DEFINE list  == lists[ops[o].list]
           state == list[ops[o].device]
<1>1. ops[o].list \in Requests /\ list \in States /\ ops[o].device \in Known
  BY DEF Change, DevicesInv, Asked, AtStage, DeviceTypes, DevicesTypeOK, States
<1>2. UNCHANGED <<codes, disk, made, answered, coldRace, boots>> /\ AtStage(o, "change")
  BY DEF Change
<1>3. CASE o \in Redeemers /\ Save(o, [list EXCEPT ![o] = "ok"])
  <2>1. ops[o].device = o /\ o \in Known /\ o \notin Revokers /\ o \notin Verifiers
    BY <1>2, <1>3 DEF DevicesInv, Asked, AtStage, Distinct, Known
  <2>2. Result(o, [list EXCEPT ![o] = "ok"])
    BY <1>1, <2>1 DEF Result, States
  <2>3. ops[o].pc = "change"
    BY <1>2 DEF AtStage
  <2> QED BY <1>2, <1>3, <2>1, <2>2, <2>3, SaveInv
<1>4. CASE o \in Revokers /\ state # "absent" /\ Save(o, [list EXCEPT ![ops[o].device] = "revoked"])
  <2>1. o \notin Redeemers /\ o \notin Verifiers
    BY <1>4 DEF Distinct
  <2>2. Result(o, [list EXCEPT ![ops[o].device] = "revoked"])
    BY <1>1, <2>1 DEF Result, States
  <2>3. ops[o].pc = "change"
    BY <1>2 DEF AtStage
  <2> QED BY <1>2, <1>4, <2>1, <2>2, <2>3, SaveInv
<1>5. CASE ops' = [ops EXCEPT ![o] = Asleep] /\ UNCHANGED <<lists, cache, writing, writeRace>>
  BY <1>2, <1>5, AsleepInv DEF AtStage
<1>6. CASE /\ o \in Verifiers /\ state = "ok" /\ Go(o, "match", ops[o].list)
           /\ UNCHANGED <<lists, cache, writing, writeRace>>
  BY <1>2, <1>6, LookOnInv
<1> QED BY <1>3, <1>4, <1>5, <1>6 DEF Change

LEMMA MatchedInv ==
  ASSUME Distinct, DevicesInv, NEW o \in Requests, Matched(o)
  PROVE  DevicesInv'
<1>1. o \in Verifiers /\ o \notin Redeemers /\ o \notin Revokers
  BY DEF Matched, DevicesInv, Asked, Distinct
<1>2. ops[o].list \in Requests /\ lists[ops[o].list] \in States
  BY DEF Matched, DevicesInv, Asked, AtStage, DeviceTypes, DevicesTypeOK, States
<1>3. Result(o, Verified(o))
  BY <1>1, <1>2 DEF Result, Verified
<1> QED BY <1>3, SaveInv DEF Matched, AtStage

\* The write ends, and the operation answers: what it says is in the list and in the file.
LEMMA WrittenInv ==
  ASSUME Distinct, DevicesInv, NEW o \in Requests, Written(o)
  PROVE  DevicesInv'
<1>1. /\ AtStage(o, "save") /\ disk' \in writing[o] /\ disk' \in States \cup {Torn}
      /\ writing' = [writing EXCEPT ![o] = {}]
      /\ UNCHANGED <<codes, lists, cache, made, coldRace, writeRace, boots>>
  BY DEF Written, DevicesInv, DeviceTypes, DevicesTypeOK, States
<1>2. /\ \A q \in Requests : q # o => ops'[q] = ops[q]
      /\ ops'[o].pc = "idle" /\ ops' \in [Requests -> Asks]
  BY DEF Written, DevicesInv, DeviceTypes, Asks, Asleep
<1>3. /\ writing' \in [Requests -> SUBSET (States \cup {Torn})] /\ writing'[o] = {}
      /\ \A q \in Requests : q # o => writing'[q] = writing[q]
  BY <1>1 DEF DevicesInv, DeviceTypes, DevicesTypeOK, States
<1>4. ops[o].device \in Known /\ cache # None
  BY <1>1 DEF DevicesInv, Asked, AtStage
<1>5. answered \in States /\ (o \in Redeemers => o \in Known /\ ops[o].device = o)
  BY <1>1 DEF DevicesInv, DeviceTypes, DevicesTypeOK, States, Known, Asked, AtStage
<1>6. /\ answered' \in States
      /\ \A d \in Known : d # ops[o].device => answered'[d] = answered[d]
      /\ o \in Redeemers => answered'[o] = "ok"
      /\ o \in Revokers => answered'[ops[o].device] = "revoked"
      /\ o \in Verifiers => answered' = answered
  <2>1. o \in Redeemers => answered[o] = "absent"
    BY <1>1 DEF DevicesInv, Asked, AtStage
  <2>2. CASE o \in Redeemers
    <3>1. answered' = [answered EXCEPT ![o] = "ok"]
      BY <2>1, <2>2 DEF Written, Distinct
    <3> QED BY <1>5, <2>2, <3>1 DEF States, Distinct
  <2>3. CASE o \in Revokers
    <3>1. answered' = [answered EXCEPT ![ops[o].device] = "revoked"]
      BY <2>3 DEF Written, Distinct
    <3> QED BY <1>4, <1>5, <2>3, <3>1 DEF States, Distinct
  <2>4. CASE o \in Verifiers
    <3>1. answered' = answered
      BY <2>4 DEF Written, Distinct
    <3> QED BY <1>5, <2>4, <3>1 DEF Distinct
  <2> QED BY <2>2, <2>3, <2>4 DEF Requests
<1>7. DeviceTypes'
  BY <1>1, <1>2, <1>3, <1>6 DEF DevicesInv, DeviceTypes, DevicesTypeOK, States
<1>8. \A d \in Known : answered[d] # "absent" => answered'[d] # "absent"
  BY <1>5, <1>6 DEF Requests
<1>9. Asked'
  <2>1. \A q \in Requests : q \in Redeemers /\ q # o /\ ~AtStage(q, "idle") => answered'[q] = "absent"
    <3> SUFFICES ASSUME NEW q \in Redeemers, q # o, ~AtStage(q, "idle")
                 PROVE  answered'[q] = "absent"
      BY DEF Requests
    <3>1. q \in Requests /\ q \in Known /\ answered[q] = "absent"
      BY DEF DevicesInv, Asked, Known, Requests
    <3>2. CASE ops[o].device = q
      <4>1. o \notin Redeemers /\ o \notin Revokers
        BY <1>1, <1>5, <3>1, <3>2 DEF DevicesInv, Asked, AtStage
      <4> QED BY <3>1, <4>1, <1>6 DEF Requests
    <3> QED BY <3>1, <3>2, <1>6
  <2>2. \A d \in Known : answered[d] = "revoked" => answered'[d] = "revoked"
    <3>1. o \in Redeemers => answered[o] = "absent"
      BY <1>1 DEF DevicesInv, Asked, AtStage
    <3> QED BY <3>1, <1>5, <1>6 DEF Requests
  <2> QED BY <1>1, <1>2, <1>3, <1>8, <2>1, <2>2 DEF DevicesInv, Asked, AtStage
<1>10. OneList' /\ Done'
  BY <1>1, <1>2 DEF DevicesInv, OneList, Done, AtStage, Cached
<1>11. ~coldRace /\ Keeps(Cached) => Keeps(Cached)'
  <2> SUFFICES ASSUME ~coldRace, Keeps(Cached), NEW d \in Known
               PROVE  answered'[d] = Cached[d] \/ answered'[d] = "absent" \/ Cached[d] = "revoked"
    BY <1>1 DEF Keeps, Cached
  <2>1. CASE d # ops[o].device
    BY <2>1, <1>6 DEF Keeps
  <2>2. CASE d = ops[o].device /\ o \in Redeemers
    <3>1. Cached[o] # "absent" /\ Cached[o] \in {"ok", "revoked", "absent"}
      BY <1>1, <1>4, <1>5, <2>2 DEF DevicesInv, Done, DeviceTypes, DevicesTypeOK, Cached
    <3> QED BY <2>2, <3>1, <1>5, <1>6
  <2>3. CASE d = ops[o].device /\ o \in Revokers
    BY <2>3, <1>1 DEF DevicesInv, Done
  <2>4. CASE o \in Verifiers
    BY <2>4, <1>6 DEF Keeps
  <2> QED BY <2>1, <2>2, <2>3, <2>4 DEF Requests
<1>12. FileFollows'
  <2> SUFFICES ASSUME ~coldRace, ~writeRace
               PROVE  /\ \A q \in Requests : writing'[q] = {}
                      /\ disk' = Cached' /\ Keeps(disk)'
    BY <1>1 DEF FileFollows
  <2>1. writing[o] # {} /\ writing[o] = {Cached} /\ \A q \in Requests : writing[q] # {} => q = o
    BY <1>1 DEF DevicesInv, FileFollows
  <2>2. disk' = Cached' /\ Cached' = Cached
    BY <1>1, <2>1 DEF Cached
  <2>3. Keeps(Cached)'
    BY <1>4, <1>11 DEF DevicesInv, CacheKeeps
  <2> QED BY <1>3, <2>1, <2>2, <2>3 DEF Keeps
<1>13. CacheKeeps'
  BY <1>1, <1>4, <1>11 DEF DevicesInv, CacheKeeps
<1>14. OneDevice' /\ NoneFooled'
  BY <1>1, <1>2 DEF DevicesInv, OneDevice, NoneFooled, Accepts, AtStage
<1> QED BY <1>7, <1>9, <1>10, <1>12, <1>13, <1>14 DEF DevicesInv

\* A restart finds the file as it was, as the list was when its write began, or torn, unless writes overlapped.
LEMMA BootInv ==
  ASSUME Distinct, DevicesInv, Boot
  PROVE  DevicesInv'
<1>1. ops' \in [Requests -> Asks] /\ \A q \in Requests : ops'[q].pc = "idle"
  BY DEF Boot, Asks, Asleep
<1>2. boots' \in 0..MaxBoots /\ boots' > 0 /\ cache' = None
  BY DEF Boot, DevicesInv, DeviceTypes, DevicesTypeOK, Distinct
<1>a. /\ writing' \in [Requests -> SUBSET (States \cup {Torn})] /\ \A q \in Requests : writing'[q] = {}
      /\ lists' \in [Requests -> States]
  BY DEF Boot, AtStart, States
<1>b. disk' = disk \/ disk' = Torn \/ \E o \in Requests : disk' \in writing[o]
  BY DEF Boot
<1>c. disk' \in States \cup {Torn}
  BY <1>b DEF DevicesInv, DeviceTypes, DevicesTypeOK, States
<1>3. DeviceTypes'
  BY <1>1, <1>2, <1>a, <1>c DEF DevicesInv, DeviceTypes, DevicesTypeOK, Boot, States
<1>4. Asked' /\ OneList' /\ Done' /\ NoneFooled'
  BY <1>1, <1>a DEF Asked, OneList, Done, NoneFooled, Accepts, AtStage, Boot
<1>d. ~coldRace /\ ~writeRace => Keeps(disk)' \/ disk' = Torn
  <2> SUFFICES ASSUME ~coldRace, ~writeRace, disk' # Torn PROVE Keeps(disk')
    BY DEF Boot, Keeps
  <2>1. CASE disk' = disk
    BY <2>1 DEF DevicesInv, FileFollows
  <2>2. CASE \E o \in Requests : disk' \in writing[o]
    <3>1. PICK o \in Requests : disk' \in writing[o]
      BY <2>2
    <3>2. disk' = Cached /\ cache # None
      BY <3>1 DEF DevicesInv, FileFollows, Asked, AtStage
    <3>3. Keeps(Cached)
      BY <3>2 DEF DevicesInv, CacheKeeps
    <3> QED BY <3>2, <3>3
  <2> QED BY <1>b, <2>1, <2>2
<1>5. FileFollows'
  BY <1>2, <1>a, <1>d DEF DevicesInv, FileFollows, Boot
<1>6. CacheKeeps'
  BY <1>2 DEF CacheKeeps
<1>7. OneDevice'
  BY DEF DevicesInv, OneDevice, Boot
<1> QED BY <1>3, <1>4, <1>5, <1>6, <1>7 DEF DevicesInv

LEMMA NextDevices ==
  ASSUME Distinct, DevicesInv, [DevicesNext]_devicesVars
  PROVE  DevicesInv'
<1>1. CASE Boot
  BY <1>1, BootInv
<1>2. ASSUME NEW c \in Codes, NEW o \in Redeemers, Redeem(o, c) PROVE DevicesInv'
  BY <1>2, RedeemInv
<1>3. ASSUME NEW o \in Requests, NEW d \in Known, Ask(o, d) PROVE DevicesInv'
  BY <1>3, AskInv
<1>4. ASSUME NEW o \in Requests,
             Load(o) \/ ReadFile(o) \/ Change(o) \/ Matched(o) \/ Written(o)
      PROVE  DevicesInv'
  BY <1>4, LoadInv, ReadFileInv, ChangeInv, MatchedInv, WrittenInv
<1>5. CASE UNCHANGED devicesVars
  <2>1. DeviceTypes' /\ Asked' /\ OneList' /\ Done'
    BY <1>5 DEF devicesVars, DevicesInv, DeviceTypes, DevicesTypeOK, Asked, OneList, Done, Cached, AtStage
  <2>2. FileFollows' /\ CacheKeeps' /\ OneDevice'
    BY <1>5 DEF devicesVars, DevicesInv, FileFollows, CacheKeeps, OneDevice, Cached, Keeps
  <2>3. NoneFooled'
    BY <1>5 DEF devicesVars, DevicesInv, NoneFooled, Accepts, AtStage
  <2> QED BY <2>1, <2>2, <2>3 DEF DevicesInv
<1> QED BY <1>1, <1>2, <1>3, <1>4, <1>5 DEF DevicesNext

-----------------------------------------------------------------------------
LEMMA InvKeepsAnswers ==
  ASSUME DevicesInv
  PROVE  AnswersAreKept
<1>1. ~coldRace /\ ~(writeRace /\ boots > 0) => (cache # None => Keeps(lists[cache]))
  BY DEF DevicesInv, CacheKeeps, Cached
<1>a. ~coldRace /\ ~(writeRace /\ boots > 0) => \A o \in Requests : Accepts(o) => ops[o].since # "revoked"
  BY DEF DevicesInv, NoneFooled
<1>2. ~coldRace /\ ~writeRace => Keeps(disk) \/ (disk = Torn /\ boots > 0 /\ cache = None)
  BY DEF DevicesInv, FileFollows
<1>3. \A c \in Codes : Cardinality(made[c]) <= 1
  <2> SUFFICES ASSUME NEW c \in Codes PROVE Cardinality(made[c]) <= 1
    OBVIOUS
  <2>1. made[c] = {} \/ \E o \in Redeemers : made[c] = {o}
    BY DEF DevicesInv, OneDevice
  <2>2. Cardinality(made[c]) = 0 \/ Cardinality(made[c]) = 1
    BY <2>1, FS_EmptySet, FS_Singleton
  <2> QED BY <2>2
<1> QED BY <1>1, <1>a, <1>2, <1>3 DEF AnswersAreKept

\* A device whose pairing was answered stays known, and one whose revocation was answered stays
\* revoked and is accepted by no verification that begins later, whatever operations, writes of the
\* file and restarts overlap, restarts within a write included, but for the two races AnswersAreKept
\* names; a file that a restart has left half written is never taken for an empty list, and a pair
\* code pairs one device however many redeem it at once (lib/devices.ts).
THEOREM AnswersAlwaysKept ==
  Distinct => (DevicesInit /\ [][DevicesNext]_devicesVars => []AnswersAreKept)
<1> SUFFICES ASSUME Distinct PROVE DevicesInit /\ [][DevicesNext]_devicesVars => []AnswersAreKept
  OBVIOUS
<1>1. DevicesInit => DevicesInv
  BY InitDevices
<1>2. DevicesInv /\ [DevicesNext]_devicesVars => DevicesInv'
  BY NextDevices
<1>3. DevicesInv => AnswersAreKept
  BY InvKeepsAnswers
<1> QED BY <1>1, <1>2, <1>3, PTL

-----------------------------------------------------------------------------
(* Trash *)

USE NoPathIsNone

Deleting == [pc : {"idle", "paths", "done", "failed"}, todo : SUBSET Paths,
             path : Paths \cup {NoPath}, moved : SUBSET Paths]
Restoring == [pc : {"idle", "paths"}, entry : Moves \cup {NoEntry}, todo : SUBSET Paths,
              path : Paths \cup {NoPath}, skipped : SUBSET Paths]
Content == [Paths -> Nat]

Types ==
  /\ file \in Content /\ contents \in Nat /\ entry \in [Moves -> Content]
  /\ manifest \in [Moves -> (SUBSET Paths) \cup {NoManifest}]
  /\ moving \in [Moves -> Deleting] /\ restoring \in [Restores -> Restoring]

\* What a deletion has still to move is not in its entry; all that is there was moved by it.
Fresh ==
  \A m \in Moves :
    /\ moving[m].pc = "idle" => moving[m].moved = {}
    /\ moving[m].path # NoPath => moving[m].pc = "paths"
    /\ \A p \in moving[m].moved : p \notin moving[m].todo /\ p # moving[m].path
    /\ moving[m].path \notin moving[m].todo
    /\ \A p \in Paths : entry[m][p] # 0 => p \in moving[m].moved

\* A manifest names what was moved, and nothing is moved after it.
ManifestFull ==
  \A m \in Moves : Listed(m) => moving[m].pc = "done" /\ manifest[m] = moving[m].moved

\* What is in the entry of a restore was skipped or is still to be tried.
Tried ==
  \A r \in Restores :
    /\ restoring[r].path # NoPath => restoring[r].pc = "paths"
    /\ restoring[r].pc = "paths" =>
         LET m == restoring[r].entry
         IN /\ m \in Moves /\ moving[m].pc = "done"
            /\ \A p \in Paths : entry[m][p] # 0 =>
                 p \in restoring[r].todo \cup restoring[r].skipped \cup {restoring[r].path}

\* The inductive invariant.
TrashInv == Types /\ Fresh /\ ManifestFull /\ Tried

-----------------------------------------------------------------------------
LEMMA InitInv == TrashInit => TrashInv
<1> SUFFICES ASSUME TrashInit PROVE TrashInv
  OBVIOUS
<1>1. Types
  BY DEF TrashInit, Types, Content, Deleting, Restoring, NotRestoring, Empty
<1>2. Fresh
  BY DEF TrashInit, Fresh, Empty
<1>3. ManifestFull
  BY DEF TrashInit, ManifestFull, Listed
<1>4. Tried
  BY DEF TrashInit, Tried, NotRestoring
<1> QED BY <1>1, <1>2, <1>3, <1>4 DEF TrashInv

-----------------------------------------------------------------------------
(* Deletions *)

\* A deletion of m takes a step that leaves the trash and the restores alone: its record keeps what
\* Fresh says, and a deletion that was done stays as it is.
LEMMA DeletionStep ==
  ASSUME TrashInv, NEW m \in Moves, NEW d \in Deleting, moving[m].pc # "done",
         moving' = [moving EXCEPT ![m] = d],
         UNCHANGED <<file, contents, entry, restoring>>,
         \/ manifest' = manifest
         \/ d.pc = "done" /\ manifest' = [manifest EXCEPT ![m] = d.moved],
         moving[m].moved \subseteq d.moved, d.pc # "idle",
         d.path # NoPath => d.pc = "paths", d.path \notin d.todo,
         \A p \in d.moved : p \notin d.todo /\ p # d.path
  PROVE  TrashInv'
<1>1. moving' \in [Moves -> Deleting] /\ moving'[m] = d /\ \A q \in Moves : q # m => moving'[q] = moving[q]
  BY DEF TrashInv, Types
<1>2. Types'
  BY <1>1 DEF TrashInv, Types, Deleting
<1>3. Fresh'
  BY <1>1 DEF TrashInv, Fresh
<1>4. ManifestFull'
  BY <1>1 DEF TrashInv, ManifestFull, Listed, Types
<1>5. Tried'
  BY <1>1 DEF TrashInv, Tried
<1> QED BY <1>2, <1>3, <1>4, <1>5 DEF TrashInv

LEMMA DeleteInv == ASSUME TrashInv, NEW m \in Moves, MoveToTrash(m) PROVE TrashInv'
<1> DEFINE d == [moving[m] EXCEPT !.pc = "paths", !.todo = Paths]
<1>1. moving[m] \in Deleting /\ moving[m].pc = "idle" /\ moving[m].moved = {} /\ moving[m].path = NoPath
  BY DEF TrashInv, Types, MoveToTrash, Fresh
<1>2. d \in Deleting /\ d.pc = "paths" /\ d.moved = {} /\ d.path = NoPath /\ d.todo = Paths
  BY <1>1 DEF Deleting
<1>3. moving' = [moving EXCEPT ![m] = d]
  BY DEF MoveToTrash
<1>4. UNCHANGED <<file, contents, entry, restoring>> /\ manifest' = manifest
  BY DEF MoveToTrash
<1> HIDE DEF d
<1> QED BY <1>1, <1>2, <1>3, <1>4, DeletionStep

LEMMA LookInv == ASSUME TrashInv, NEW m \in Moves, NEW p \in Paths, LookAt(m, p) PROVE TrashInv'
<1> DEFINE d == [moving[m] EXCEPT !.todo = @ \ {p}, !.path = IF file[p] = 0 THEN NoPath ELSE p]
<1>1. moving[m] \in Deleting /\ moving[m].pc = "paths" /\ p \in moving[m].todo
      /\ \A q \in moving[m].moved : q \notin moving[m].todo /\ q # NoPath
  BY DEF TrashInv, Types, LookAt, Fresh
<1>2. /\ d \in Deleting /\ d.pc = "paths" /\ d.moved = moving[m].moved /\ d.todo = moving[m].todo \ {p}
      /\ d.path \in {p, NoPath}
  BY <1>1 DEF Deleting
<1>3. moving' = [moving EXCEPT ![m] = d]
  BY DEF LookAt
<1>4. UNCHANGED <<file, contents, entry, restoring>> /\ manifest' = manifest
  BY DEF LookAt
<1>5. moving[m].todo \subseteq Paths
  BY <1>1 DEF Deleting
<1> HIDE DEF d
<1> QED BY <1>1, <1>2, <1>3, <1>4, <1>5, DeletionStep

LEMMA ManifestInv == ASSUME TrashInv, NEW m \in Moves, WriteManifest(m) PROVE TrashInv'
<1>1. moving[m] \in Deleting /\ moving[m].pc = "paths" /\ moving[m].path = NoPath /\ moving[m].todo = {}
      /\ moving[m].moved \subseteq Paths
  BY DEF TrashInv, Types, WriteManifest, Deleting
<1>2. ASSUME NEW pc \in {"done", "failed"}
      PROVE  LET d == [moving[m] EXCEPT !.pc = pc]
             IN d \in Deleting /\ d.pc = pc /\ d.moved = moving[m].moved /\ d.path = NoPath /\ d.todo = {}
  BY <1>1 DEF Deleting
<1>3. UNCHANGED <<file, contents, entry, restoring>>
  BY DEF WriteManifest
<1>4. CASE /\ manifest' = [manifest EXCEPT ![m] = moving[m].moved]
           /\ moving' = [moving EXCEPT ![m] = [moving[m] EXCEPT !.pc = "done"]]
  <2> DEFINE d == [moving[m] EXCEPT !.pc = "done"]
  <2>1. d \in Deleting /\ d.pc = "done" /\ d.moved = moving[m].moved /\ d.path = NoPath /\ d.todo = {}
    BY <1>2
  <2>2. moving' = [moving EXCEPT ![m] = d]
    BY <1>4
  <2> HIDE DEF d
  <2> QED BY <1>1, <1>3, <1>4, <2>1, <2>2, DeletionStep
<1>5. CASE manifest' = manifest /\ moving' = [moving EXCEPT ![m] = [moving[m] EXCEPT !.pc = "failed"]]
  <2> DEFINE d == [moving[m] EXCEPT !.pc = "failed"]
  <2>1. d \in Deleting /\ d.pc = "failed" /\ d.moved = moving[m].moved /\ d.path = NoPath /\ d.todo = {}
    BY <1>2
  <2>2. moving' = [moving EXCEPT ![m] = d]
    BY <1>5
  <2> HIDE DEF d
  <2> QED BY <1>1, <1>3, <1>5, <2>1, <2>2, DeletionStep
<1> QED BY <1>4, <1>5 DEF WriteManifest

\* The rename fills a place that was empty.
LEMMA MoveInv ==
  ASSUME TrashInv, NEW m \in Moves, MoveFile(m)
  PROVE  TrashInv' /\ entry[m][moving[m].path] = 0
<1> DEFINE p == moving[m].path
<1>1. p \in Paths /\ moving[m] \in Deleting /\ moving[m].pc = "paths" /\ entry[m][p] = 0 /\ p \notin moving[m].todo
      /\ \A q \in moving[m].moved : q \notin moving[m].todo
  BY DEF TrashInv, Types, MoveFile, Fresh, Deleting
<1>2. CASE file[p] = 0 \/ m \notin dirs
  <2> DEFINE d == [moving[m] EXCEPT !.pc = "failed", !.path = NoPath]
  <2>1. d \in Deleting /\ d.pc = "failed" /\ d.path = NoPath /\ d.todo = moving[m].todo /\ d.moved = moving[m].moved
    BY <1>1 DEF Deleting
  <2>2. moving' = [moving EXCEPT ![m] = d] /\ UNCHANGED <<file, contents, entry, restoring>> /\ manifest' = manifest
    BY <1>2 DEF MoveFile
  <2>3. moving[m].todo \subseteq Paths /\ moving[m].moved \subseteq Paths
    BY <1>1 DEF Deleting
  <2> HIDE DEF d
  <2> QED BY <1>1, <2>1, <2>2, <2>3, DeletionStep
<1>3. CASE ~(file[p] = 0 \/ m \notin dirs)
  <2> DEFINE d == [moving[m] EXCEPT !.path = NoPath, !.moved = @ \cup {p}]
  <2>1. /\ d \in Deleting /\ d.pc = "paths" /\ d.path = NoPath /\ d.todo = moving[m].todo
        /\ d.moved = moving[m].moved \cup {p} /\ d.todo \subseteq Paths /\ d.moved \subseteq Paths
    BY <1>1 DEF Deleting
  <2>2. /\ moving' = [moving EXCEPT ![m] = d] /\ file' = [file EXCEPT ![p] = 0]
        /\ entry' = [entry EXCEPT ![m][p] = file[p]]
        /\ UNCHANGED <<contents, restoring, manifest>>
    BY <1>3 DEF MoveFile
  <2> HIDE DEF d
  <2>3. moving' \in [Moves -> Deleting] /\ moving'[m] = d /\ \A q \in Moves : q # m => moving'[q] = moving[q]
    BY <2>1, <2>2 DEF TrashInv, Types
  <2>4. entry' \in [Moves -> Content] /\ file' \in Content
        /\ \A q \in Moves, s \in Paths : entry'[q][s] = IF q = m /\ s = p THEN file[p] ELSE entry[q][s]
    BY <1>1, <2>2 DEF TrashInv, Types, Content
  <2>5. Types'
    BY <2>2, <2>3, <2>4 DEF TrashInv, Types
  <2>6. Fresh'
    BY <1>1, <2>1, <2>3, <2>4 DEF TrashInv, Fresh
  <2>7. ManifestFull'
    BY <1>1, <2>2, <2>3 DEF TrashInv, ManifestFull, Listed
  <2>8. Tried'
    BY <1>1, <2>2, <2>3, <2>4 DEF TrashInv, Tried
  <2> QED BY <1>1, <2>5, <2>6, <2>7, <2>8 DEF TrashInv
<1> QED BY <1>2, <1>3

-----------------------------------------------------------------------------
(* Restores *)

\* A restore takes a step that leaves files, trash and deletions alone: its record keeps what Tried
\* says.
LEMMA RestoreStep ==
  ASSUME TrashInv, NEW r \in Restores, NEW t \in Restoring,
         restoring' = [restoring EXCEPT ![r] = t],
         UNCHANGED <<file, contents, entry, manifest, moving>>,
         t.path # NoPath => t.pc = "paths",
         t.pc = "paths" =>
           /\ t.entry \in Moves /\ moving[t.entry].pc = "done"
           /\ \A p \in Paths : entry[t.entry][p] # 0 => p \in t.todo \cup t.skipped \cup {t.path}
  PROVE  TrashInv'
<1>1. /\ restoring' \in [Restores -> Restoring] /\ restoring'[r] = t
      /\ \A q \in Restores : q # r => restoring'[q] = restoring[q]
  BY DEF TrashInv, Types
<1>2. Types'
  BY <1>1 DEF TrashInv, Types
<1>3. Fresh' /\ ManifestFull'
  BY DEF TrashInv, Fresh, ManifestFull, Listed
<1>4. Tried'
  BY <1>1 DEF TrashInv, Tried
<1> QED BY <1>2, <1>3, <1>4 DEF TrashInv

\* A restore that has ended.
LEMMA Idle == NotRestoring \in Restoring /\ NotRestoring.pc = "idle" /\ NotRestoring.path = NoPath
BY DEF NotRestoring, Restoring

LEMMA RestoreInv ==
  ASSUME TrashInv, NEW r \in Restores, NEW m \in Moves, Restore(r, m) PROVE TrashInv'
<1> DEFINE t == [NotRestoring EXCEPT !.pc = "paths", !.entry = m, !.todo = manifest[m]]
<1>1. /\ manifest[m] \in SUBSET Paths /\ moving[m].pc = "done"
      /\ \A p \in Paths : entry[m][p] # 0 => p \in manifest[m]
  BY DEF TrashInv, Types, Restore, ManifestFull, Listed, Fresh
<1>2. /\ t \in Restoring /\ t.pc = "paths" /\ t.entry = m /\ t.todo = manifest[m]
  BY <1>1 DEF Restoring, NotRestoring
<1>3. restoring' = [restoring EXCEPT ![r] = t] /\ UNCHANGED <<file, contents, entry, manifest, moving>>
  BY DEF Restore
<1> HIDE DEF t
<1> QED BY <1>1, <1>2, <1>3, RestoreStep

LEMMA RoomInv ==
  ASSUME TrashInv, NEW r \in Restores, NEW p \in Paths, LookForRoom(r, p) PROVE TrashInv'
<1> DEFINE t == [restoring[r] EXCEPT !.todo = @ \ {p}, !.path = IF Occupied(p) THEN NoPath ELSE p,
                                     !.skipped = IF Occupied(p) THEN @ \cup {p} ELSE @]
           m == restoring[r].entry
<1>1. /\ restoring[r] \in Restoring /\ restoring[r].pc = "paths" /\ restoring[r].path = NoPath
      /\ m \in Moves /\ moving[m].pc = "done"
      /\ \A q \in Paths : entry[m][q] # 0 => q \in restoring[r].todo \cup restoring[r].skipped
  BY DEF TrashInv, Types, LookForRoom, Tried
<1>2. /\ t \in Restoring /\ t.pc = "paths" /\ t.entry = m /\ t.todo = restoring[r].todo \ {p}
      /\ \/ t.path = NoPath /\ t.skipped = restoring[r].skipped \cup {p}
         \/ t.path = p /\ t.skipped = restoring[r].skipped
  BY <1>1 DEF Restoring
<1>3. restoring' = [restoring EXCEPT ![r] = t] /\ UNCHANGED <<file, contents, entry, manifest, moving>>
  BY DEF LookForRoom
<1> HIDE DEF t
<1> QED BY <1>1, <1>2, <1>3, RestoreStep

LEMMA PutBackInv ==
  ASSUME TrashInv, NEW r \in Restores, PutBack(r) PROVE TrashInv'
<1> DEFINE m == restoring[r].entry
           p == restoring[r].path
<1>1. restoring[r] \in Restoring /\ m \in Moves /\ p \in Paths /\ moving[m].pc = "done" /\ restoring[r].pc = "paths"
  BY DEF TrashInv, Types, PutBack, Tried, Restoring
<1>2. CASE entry[m][p] = 0
  <2>1. restoring' = [restoring EXCEPT ![r] = NotRestoring] /\ UNCHANGED <<file, contents, entry, manifest, moving>>
    BY <1>2 DEF PutBack
  <2> QED BY <2>1, Idle, RestoreStep
<1>3. CASE entry[m][p] # 0
  <2> DEFINE t == [restoring[r] EXCEPT !.path = NoPath]
  <2>1. /\ t \in Restoring /\ t.pc = "paths" /\ t.entry = m /\ t.path = NoPath
        /\ t.todo = restoring[r].todo /\ t.skipped = restoring[r].skipped
    BY <1>1 DEF Restoring
  <2>2. /\ restoring' = [restoring EXCEPT ![r] = t] /\ file' = [file EXCEPT ![p] = entry[m][p]]
        /\ entry' = [entry EXCEPT ![m][p] = 0] /\ UNCHANGED <<contents, manifest, moving>>
    BY <1>3 DEF PutBack
  <2> HIDE DEF t
  <2>3. /\ restoring' \in [Restores -> Restoring] /\ restoring'[r] = t
        /\ \A q \in Restores : q # r => restoring'[q] = restoring[q]
    BY <2>1, <2>2 DEF TrashInv, Types
  <2>4. entry' \in [Moves -> Content] /\ file' \in Content
        /\ \A q \in Moves, s \in Paths : entry'[q][s] = IF q = m /\ s = p THEN 0 ELSE entry[q][s]
    BY <1>1, <2>2 DEF TrashInv, Types, Content
  <2>5. Types'
    BY <2>2, <2>3, <2>4 DEF TrashInv, Types
  <2>6. Fresh' /\ ManifestFull'
    BY <2>2, <2>4 DEF TrashInv, Fresh, ManifestFull, Listed
  <2>7. Tried'
    BY <1>1, <2>1, <2>2, <2>3, <2>4 DEF TrashInv, Tried
  <2> QED BY <2>5, <2>6, <2>7 DEF TrashInv
<1> QED BY <1>2, <1>3

-----------------------------------------------------------------------------
(* Entries that go, files that come, and halts *)

\* Entries are emptied and restores end; nothing else changes.
LEMMA LessInv ==
  ASSUME TrashInv, UNCHANGED <<contents, moving>>, file' \in Content, entry' \in [Moves -> Content],
         manifest' \in [Moves -> (SUBSET Paths) \cup {NoManifest}],
         \A m \in Moves : /\ manifest'[m] \in {manifest[m], NoManifest}
                          /\ \A p \in Paths : entry'[m][p] \in {entry[m][p], 0},
         restoring' \in [Restores -> Restoring],
         \A r \in Restores : restoring'[r] \in {restoring[r], NotRestoring}
  PROVE  TrashInv'
<1>1. Types'
  BY DEF TrashInv, Types
<1>2. Fresh'
  BY DEF TrashInv, Fresh
<1>3. ManifestFull'
  BY DEF TrashInv, ManifestFull, Listed
<1>4. Tried'
  <2> SUFFICES ASSUME NEW r \in Restores
               PROVE  /\ restoring'[r].path # NoPath => restoring'[r].pc = "paths"
                      /\ restoring'[r].pc = "paths" =>
                           LET m == restoring'[r].entry
                           IN /\ m \in Moves /\ moving'[m].pc = "done"
                              /\ \A p \in Paths : entry'[m][p] # 0 =>
                                   p \in restoring'[r].todo \cup restoring'[r].skipped \cup {restoring'[r].path}
    BY DEF Tried
  <2>1. CASE restoring'[r] = NotRestoring
    BY <2>1, Idle
  <2>2. CASE restoring'[r] = restoring[r]
    BY <2>2 DEF TrashInv, Tried
  <2> QED BY <2>1, <2>2
<1> QED BY <1>1, <1>2, <1>3, <1>4 DEF TrashInv

LEMMA GoneInv ==
  ASSUME TrashInv, NEW m \in Moves, Gone(m), UNCHANGED <<file, contents, moving>>,
         restoring' \in [Restores -> Restoring],
         \A r \in Restores : restoring'[r] \in {restoring[r], NotRestoring}
  PROVE  TrashInv'
<1>1. /\ entry' \in [Moves -> Content] /\ manifest' \in [Moves -> (SUBSET Paths) \cup {NoManifest}]
      /\ \A q \in Moves : entry'[q] = (IF q = m THEN Empty ELSE entry[q])
                          /\ manifest'[q] = (IF q = m THEN NoManifest ELSE manifest[q])
  <2>1. Empty \in Content
    BY DEF Empty, Content
  <2> QED BY <2>1 DEF TrashInv, Types, Gone
<1>2. \A q \in Moves, p \in Paths : entry'[q][p] \in {entry[q][p], 0}
  BY <1>1 DEF Empty
<1>3. file' \in Content
  BY DEF TrashInv, Types
<1> QED BY <1>1, <1>2, <1>3, LessInv

LEMMA RemoveEntryInv == ASSUME TrashInv, NEW r \in Restores, RemoveEntry(r) PROVE TrashInv'
<1>1. restoring[r].entry \in Moves
  BY DEF TrashInv, Tried, RemoveEntry
<1>2. restoring' = [restoring EXCEPT ![r] = NotRestoring] /\ restoring \in [Restores -> Restoring]
  BY DEF RemoveEntry, TrashInv, Types
<1> QED BY <1>1, <1>2, Idle, GoneInv DEF RemoveEntry

LEMMA PurgeInv == ASSUME TrashInv, EmptyTrash \/ \E m \in Moves : PermanentlyDelete(m) PROVE TrashInv'
<1>0. restoring' = restoring /\ restoring \in [Restores -> Restoring]
  BY DEF EmptyTrash, PermanentlyDelete, TrashInv, Types
<1>1. CASE EmptyTrash
  <2>1. Empty \in Content /\ \A p \in Paths : Empty[p] = 0
    BY DEF Empty, Content
  <2>2. /\ entry' \in [Moves -> Content] /\ manifest' \in [Moves -> (SUBSET Paths) \cup {NoManifest}]
        /\ \A m \in Moves : entry'[m] = Empty /\ manifest'[m] = NoManifest
        /\ file' = file /\ file \in Content /\ contents' = contents /\ moving' = moving
    BY <1>1, <2>1 DEF EmptyTrash, TrashInv, Types
  <2> QED BY <1>0, <2>1, <2>2, LessInv
<1>2. ASSUME NEW m \in Moves, PermanentlyDelete(m) PROVE TrashInv'
  BY <1>0, <1>2, GoneInv DEF PermanentlyDelete
<1> QED BY <1>1, <1>2

LEMMA WriteInv == ASSUME TrashInv, NEW p \in Paths, WriteFile(p) PROVE TrashInv'
<1>1. Types'
  BY DEF TrashInv, Types, WriteFile, Content
<1>2. Fresh' /\ ManifestFull' /\ Tried'
  BY DEF TrashInv, Fresh, ManifestFull, Listed, Tried, WriteFile
<1> QED BY <1>1, <1>2 DEF TrashInv

LEMMA HaltInv == ASSUME TrashInv, Halt PROVE TrashInv'
<1> DEFINE stopped(m) == [moving[m] EXCEPT !.pc = "failed", !.path = NoPath]
<1>1. \A m \in Moves : /\ moving[m] \in Deleting /\ stopped(m) \in Deleting /\ stopped(m).pc = "failed"
                       /\ stopped(m).path = NoPath /\ stopped(m).todo = moving[m].todo
                       /\ stopped(m).moved = moving[m].moved
                       /\ moving[m].todo \subseteq Paths /\ moving[m].moved \subseteq Paths
  BY DEF TrashInv, Types, Deleting
<1>2. \A m \in Moves : moving'[m] = IF moving[m].pc = "paths" THEN stopped(m) ELSE moving[m]
  BY DEF Halt
<1>3. moving' \in [Moves -> Deleting]
  <2>1. moving' = [m \in Moves |-> IF moving[m].pc = "paths" THEN stopped(m) ELSE moving[m]]
    BY DEF Halt
  <2> HIDE DEF stopped
  <2> QED BY <1>1, <2>1
<1>4. /\ restoring' \in [Restores -> Restoring] /\ \A r \in Restores : restoring'[r] = NotRestoring
      /\ UNCHANGED <<file, contents, entry, dirs, manifest>>
  BY Idle DEF Halt
<1> HIDE DEF stopped
<1>5. Types'
  BY <1>3, <1>4 DEF TrashInv, Types
<1>6. Fresh'
  BY <1>1, <1>2, <1>4 DEF TrashInv, Fresh
<1>7. ManifestFull'
  BY <1>2, <1>4 DEF TrashInv, ManifestFull, Listed
<1>8. Tried'
  BY <1>4, Idle DEF Tried
<1> QED BY <1>5, <1>6, <1>7, <1>8 DEF TrashInv

LEMMA NextInv == ASSUME TrashInv, [TrashNext]_trashVars PROVE TrashInv'
<1>1. CASE UNCHANGED trashVars
  BY <1>1 DEF trashVars, TrashInv, Types, Fresh, ManifestFull, Listed, Tried
<1>2. CASE TrashNext
  BY <1>2, PurgeInv, HaltInv, WriteInv, DeleteInv, MoveInv, ManifestInv, LookInv, PutBackInv,
     RemoveEntryInv, RestoreInv, RoomInv
  DEF TrashNext
<1> QED BY <1>1, <1>2

-----------------------------------------------------------------------------
\* What ContentsKept allows to happen to a content c of a path p.
Excused(p, c) ==
  \/ WriteFile(p)
  \/ EmptyTrash \/ \E m \in Moves : PermanentlyDelete(m)
  \/ \E r \in Restores : RemoveEntry(r) /\ p \in restoring[r].skipped
  \/ \E r \in Restores : PutBack(r) /\ restoring[r].path = p /\ file[p] = c

LEMMA SameKept ==
  ASSUME UNCHANGED <<file, entry>>, NEW p, NEW c PROVE Kept(p, c) => Kept(p, c)'
BY DEF Kept

LEMMA StepKeeps ==
  ASSUME TrashInv, [TrashNext]_trashVars,
         NEW p \in Paths, NEW c \in 1..MaxContent, Kept(p, c)
  PROVE  Kept(p, c)' \/ Excused(p, c)
<1>0. c # 0
  OBVIOUS
<1>1. CASE UNCHANGED trashVars
  BY <1>1, SameKept DEF trashVars
<1>2. CASE EmptyTrash \/ \E m \in Moves : PermanentlyDelete(m)
  BY <1>2 DEF Excused
<1>3. CASE Halt
  BY <1>3, SameKept DEF Halt
<1>4. ASSUME NEW q \in Paths, WriteFile(q) PROVE Kept(p, c)' \/ Excused(p, c)
  <2>1. CASE q = p
    BY <1>4, <2>1 DEF Excused
  <2>2. CASE q # p
    BY <1>4, <2>2 DEF WriteFile, Kept, TrashInv, Types, Content
  <2> QED BY <2>1, <2>2
<1>5. ASSUME NEW m \in Moves, MoveToTrash(m) \/ WriteManifest(m) \/ \E q \in Paths : LookAt(m, q)
      PROVE  Kept(p, c)' \/ Excused(p, c)
  <2>1. UNCHANGED <<file, entry>>
    BY <1>5 DEF MoveToTrash, WriteManifest, LookAt
  <2> QED BY <2>1, SameKept
<1>6. ASSUME NEW m \in Moves, MoveFile(m) PROVE Kept(p, c)' \/ Excused(p, c)
  <2> DEFINE q == moving[m].path
  <2>1. entry[m][q] = 0 /\ q \in Paths
    BY <1>6, MoveInv DEF MoveFile, TrashInv, Types, Deleting
  <2>2. CASE UNCHANGED <<file, entry>>
    BY <2>2, SameKept
  <2>3. CASE file' = [file EXCEPT ![q] = 0] /\ entry' = [entry EXCEPT ![m][q] = file[q]]
    <3>1. /\ \A s \in Paths : s # q => file'[s] = file[s]
          /\ \A n \in Moves, s \in Paths : entry'[n][s] = IF n = m /\ s = q THEN file[q] ELSE entry[n][s]
      BY <2>1, <2>3 DEF TrashInv, Types, Content
    <3> QED BY <1>0, <2>1, <3>1 DEF Kept
  <2> QED BY <1>6, <2>2, <2>3 DEF MoveFile
<1>7. ASSUME NEW r \in Restores, PutBack(r) PROVE Kept(p, c)' \/ Excused(p, c)
  <2> DEFINE m == restoring[r].entry
             q == restoring[r].path
  <2>1. m \in Moves /\ q \in Paths
    BY <1>7 DEF PutBack, TrashInv, Types, Tried, Restoring
  <2>2. CASE UNCHANGED <<file, entry>>
    BY <2>2, SameKept
  <2>3. CASE q = p /\ file[p] = c
    BY <1>7, <2>3 DEF Excused
  <2>4. CASE /\ file' = [file EXCEPT ![q] = entry[m][q]] /\ entry' = [entry EXCEPT ![m][q] = 0]
             /\ ~(q = p /\ file[p] = c)
    <3>1. /\ \A s \in Paths : file'[s] = IF s = q THEN entry[m][q] ELSE file[s]
          /\ \A n \in Moves, s \in Paths : entry'[n][s] = IF n = m /\ s = q THEN 0 ELSE entry[n][s]
      BY <2>1, <2>4 DEF TrashInv, Types, Content
    <3> QED BY <2>1, <2>4, <3>1 DEF Kept
  <2> QED BY <1>7, <2>2, <2>3, <2>4 DEF PutBack
<1>8. ASSUME NEW r \in Restores, RemoveEntry(r) PROVE Kept(p, c)' \/ Excused(p, c)
  <2> DEFINE m == restoring[r].entry
  <2>1. m \in Moves /\ \A s \in Paths : entry[m][s] # 0 => s \in restoring[r].skipped
    BY <1>8 DEF RemoveEntry, AllTried, TrashInv, Tried
  <2>2. file' = file /\ \A n \in Moves : n # m => entry'[n] = entry[n]
    BY <1>8, <2>1 DEF RemoveEntry, Gone, TrashInv, Types
  <2>3. CASE p \in restoring[r].skipped
    BY <1>8, <2>3 DEF Excused
  <2>4. CASE p \notin restoring[r].skipped
    BY <1>0, <2>1, <2>2, <2>4 DEF Kept
  <2> QED BY <2>3, <2>4
<1>9. ASSUME NEW r \in Restores, (\E m \in Moves : Restore(r, m)) \/ \E q \in Paths : LookForRoom(r, q)
      PROVE  Kept(p, c)' \/ Excused(p, c)
  <2>1. UNCHANGED <<file, entry>>
    BY <1>9 DEF Restore, LookForRoom
  <2> QED BY <2>1, SameKept
<1> QED BY <1>1, <1>2, <1>3, <1>4, <1>5, <1>6, <1>7, <1>8, <1>9 DEF TrashNext

\* Whatever deletions, restores, writes, purges and halts overlap, a content disappears only in one
\* of the ways ContentsKept names.
THEOREM ContentsAlwaysKept == TrashInit /\ [][TrashNext]_trashVars => ContentsKept
<1>1. TrashInv /\ [TrashNext]_trashVars => TrashInv'
  BY NextInv
<1>2. TrashInv /\ [TrashNext]_trashVars =>
        [\A p \in Paths, c \in 1..MaxContent : Kept(p, c) /\ ~Kept(p, c)' => Excused(p, c)]_trashVars
  BY StepKeeps
<1>3. TrashInit /\ [][TrashNext]_trashVars =>
        [][\A p \in Paths, c \in 1..MaxContent : Kept(p, c) /\ ~Kept(p, c)' => Excused(p, c)]_trashVars
  BY <1>1, <1>2, InitInv, PTL
<1> QED BY <1>3 DEF ContentsKept, Excused

-----------------------------------------------------------------------------
(* Wiki operations *)

USE OpsAssumption

Jobs == [pc : {"new", "listing", "listed", "pending", "apply", "write", "over"}, slugs : SUBSET Slugs,
         disk : SUBSET Slugs, left : Past..Ttl, file : Files \cup {NoFile}]

\* The inductive invariant.
HoldInv ==
  /\ jobs \in [Operations -> Jobs] /\ held \in [Slugs -> Unheld..Ttl]
  /\ \A o \in Operations : jobs[o].pc \in {"listing", "listed", "pending"} => o \in Plans
  /\ PlansHoldTheirPages

-----------------------------------------------------------------------------
LEMMA WaitingHasTime ==
  ASSUME HoldInv, NEW o \in Waiting
  PROVE  o \in Plans /\ o \in Operations /\ jobs[o].pc = "pending" /\ jobs[o].left \in 0..Ttl
BY DEF HoldInv, Waiting, MayApply, At, Jobs, Past, Operations

\* A job that starts over in a given place, and a function of jobs with one of them replaced.
LEMMA NewJob ==
  ASSUME NEW pc \in {"new", "listing", "listed", "pending", "apply", "write", "over"},
         NEW slugs \in SUBSET Slugs, NEW left \in Past..Ttl
  PROVE  /\ [New EXCEPT !.pc = pc, !.slugs = slugs, !.left = left] \in Jobs
         /\ [New EXCEPT !.pc = pc, !.slugs = slugs] \in Jobs
<1>1. 0 \in Past..Ttl
  BY DEF Past
<1>2. New \in Jobs
  BY <1>1 DEF New, Jobs
<1>3. \A job \in Jobs : [job EXCEPT !.pc = pc, !.slugs = slugs] \in Jobs
  BY DEF Jobs
<1>4. \A job \in Jobs : [job EXCEPT !.pc = pc, !.slugs = slugs, !.left = left] \in Jobs
  BY DEF Jobs
<1> QED BY <1>2, <1>3, <1>4

LEMMA ReplaceJob ==
  ASSUME NEW f \in [Operations -> Jobs], NEW o \in Operations, NEW j \in Jobs
  PROVE  /\ [f EXCEPT ![o] = j] \in [Operations -> Jobs]
         /\ [f EXCEPT ![o] = j][o] = j
         /\ \A q \in Operations : q # o => [f EXCEPT ![o] = j][q] = f[q]
OBVIOUS

\* Nothing that waits or is held changes: only a job that does not wait.
LEMMA OtherJob ==
  ASSUME HoldInv, jobs' \in [Operations -> Jobs], held' = held,
         \A q \in Operations : \/ jobs'[q] = jobs[q]
                               \/ /\ ~MayApply(q) /\ jobs'[q].pc # "pending"
                                  /\ jobs'[q].pc \in {"listing", "listed"} => q \in Plans
  PROVE  HoldInv'
<1>1. Waiting' = Waiting
  BY DEF Waiting, MayApply, At, Operations
<1>2. \A q \in Waiting : jobs'[q] = jobs[q]
  BY DEF Waiting, Operations
<1> QED BY <1>1, <1>2 DEF HoldInv, PlansHoldTheirPages

\* Pruning takes away what does not count any more.
LEMMA PrunedHeld ==
  ASSUME HoldInv
  PROVE  /\ Pruned \in [Slugs -> Unheld..Ttl]
         /\ \A s \in Slugs : held[s] >= 0 \/ Pruned[s] >= 0 => Pruned[s] = held[s]
         /\ WithoutExpired \in [Operations -> Jobs]
         /\ \A q \in Operations : WithoutExpired[q] = jobs[q] \/ (~MayApply(q) /\ WithoutExpired[q].pc = "over")
<1>1. held \in [Slugs -> Unheld..Ttl] /\ jobs \in [Operations -> Jobs]
  BY DEF HoldInv
<1>2. Pruned \in [Slugs -> Unheld..Ttl]
  BY <1>1 DEF Pruned, Past, Unheld
<1>3. \A s \in Slugs : held[s] >= 0 \/ Pruned[s] >= 0 => Pruned[s] = held[s]
  BY <1>1 DEF Pruned, Past, Unheld
<1>4. [New EXCEPT !.pc = "over"] \in Jobs
  BY DEF New, Jobs, Past
<1>5. WithoutExpired \in [Operations -> Jobs]
  BY <1>1, <1>4 DEF WithoutExpired
<1>6. \A q \in Operations : WithoutExpired[q] = jobs[q] \/ (~MayApply(q) /\ WithoutExpired[q].pc = "over")
  BY DEF WithoutExpired, Expired, MayApply, New
<1> QED BY <1>2, <1>3, <1>5, <1>6

-----------------------------------------------------------------------------
LEMMA CompleteHolds ==
  ASSUME HoldInv, NEW o \in Operations, NEW slugs \in SUBSET Slugs, Complete(o, slugs)
  PROVE  HoldInv'
<1>1. jobs' \in [Operations -> Jobs] /\ held' \in [Slugs -> Unheld..Ttl]
  <2>2. WithoutExpired[o] \in Jobs
    BY PrunedHeld
  <2> DEFINE job == [WithoutExpired[o] EXCEPT !.pc = "listing", !.slugs = slugs]
  <2>3. job \in Jobs
    BY <2>2 DEF Jobs
  <2>4. jobs' = [WithoutExpired EXCEPT ![o] = job]
    BY PrunedHeld DEF Complete
  <2> QED BY <2>3, <2>4, PrunedHeld, ReplaceJob DEF Complete
<1>2. ~MayApply(o) /\ jobs'[o].pc # "pending" /\ \A q \in Operations : q # o => jobs'[q] = WithoutExpired[q]
  BY PrunedHeld DEF Complete, MayApply, At, Jobs
<1>3. Waiting' = Waiting /\ \A q \in Waiting : jobs'[q] = jobs[q]
  BY <1>2, PrunedHeld DEF Waiting, MayApply, At, Operations
<1>4. \A s \in Slugs : held[s] >= 0 \/ held'[s] >= 0 => held'[s] = held[s]
  BY PrunedHeld DEF Complete
<1>5. \A q \in Operations : jobs'[q].pc \in {"listing", "listed", "pending"} => q \in Plans
  BY <1>2, PrunedHeld DEF Complete, HoldInv
<1> QED BY <1>1, <1>3, <1>4, <1>5, WaitingHasTime DEF HoldInv, PlansHoldTheirPages, Jobs

LEMMA HoldHolds ==
  ASSUME HoldInv, NEW o \in Plans, Hold(o)
  PROVE  HoldInv'
<1>0. o \in Operations
  BY DEF Operations
<1>1. Free(o) \subseteq Slugs /\ \A s \in Free(o) : held[s] = Unheld
  BY <1>0 DEF Free, HoldInv, Jobs
<1>2. jobs' \in [Operations -> Jobs] /\ held' \in [Slugs -> Unheld..Ttl]
  <2> DEFINE job == [New EXCEPT !.pc = "pending", !.slugs = Free(o), !.left = Ttl]
  <2>1. job \in Jobs
    <3>1. Ttl \in Past..Ttl /\ Free(o) \in SUBSET Slugs
      BY <1>1 DEF Past
    <3> QED BY <3>1, NewJob
  <2>2. jobs' = [jobs EXCEPT ![o] = job]
    BY DEF Hold
  <2>3. jobs' \in [Operations -> Jobs]
    BY <1>0, <2>1, <2>2, ReplaceJob DEF HoldInv
  <2> QED BY <1>1, <2>3 DEF HoldInv, Hold, Unheld
<1>3. /\ jobs'[o].pc = "pending" /\ jobs'[o].slugs = Free(o) /\ jobs'[o].left = Ttl
      /\ \A q \in Operations : q # o => jobs'[q] = jobs[q]
      /\ \A s \in Slugs : held'[s] = IF s \in Free(o) THEN Ttl ELSE held[s]
  BY <1>0 DEF HoldInv, Hold, New
<1>4. o \notin Waiting /\ Waiting' = Waiting \cup {o}
  BY <1>0, <1>3 DEF Waiting, MayApply, At, Hold, Past, Operations
<1>5. \A q \in Waiting : jobs[q].slugs \cap Free(o) = {}
  BY <1>1, WaitingHasTime DEF HoldInv, PlansHoldTheirPages, Unheld
<1>6. \A q \in Waiting : q \in Operations /\ q # o /\ jobs'[q] = jobs[q] /\ jobs[q].slugs \subseteq Slugs
  BY <1>3, <1>4 DEF Waiting, Operations, HoldInv, Jobs
<1>7. \A q \in Waiting' : \A s \in jobs'[q].slugs : held'[s] = jobs'[q].left
  BY <1>1, <1>3, <1>4, <1>5, <1>6 DEF HoldInv, PlansHoldTheirPages
<1>8. \A p, q \in Waiting' : p # q => jobs'[p].slugs \cap jobs'[q].slugs = {}
  BY <1>3, <1>4, <1>5, <1>6 DEF HoldInv, PlansHoldTheirPages
<1>9. \A s \in Slugs : held'[s] >= 0 => \E q \in Waiting' : s \in jobs'[q].slugs
  BY <1>3, <1>4, <1>6 DEF HoldInv, PlansHoldTheirPages
<1>10. \A q \in Operations : jobs'[q].pc \in {"listing", "listed", "pending"} => q \in Plans
  BY <1>3 DEF HoldInv
<1> QED BY <1>2, <1>7, <1>8, <1>9, <1>10 DEF HoldInv, PlansHoldTheirPages

LEMMA ApplyHolds ==
  ASSUME HoldInv, NEW o \in Plans, NEW selected \in SUBSET Slugs, Apply(o, selected)
  PROVE  HoldInv'
<1>0. o \in Operations /\ o \in Waiting
  BY DEF Operations, Apply, Waiting
<1>1. jobs' \in [Operations -> Jobs] /\ held' \in [Slugs -> Unheld..Ttl]
  <2> DEFINE job == [New EXCEPT !.pc = "apply", !.slugs = selected]
  <2>1. job \in Jobs
    <3>1. 0 \in Past..Ttl
      BY DEF Past
    <3> QED BY <3>1, NewJob
  <2>2. jobs' = [WithoutExpired EXCEPT ![o] = job]
    BY DEF Apply
  <2>3. jobs' \in [Operations -> Jobs]
    BY <1>0, <2>1, <2>2, PrunedHeld, ReplaceJob
  <2> QED BY <2>3, PrunedHeld DEF Apply, Unheld
<1>2. jobs'[o].pc = "apply" /\ \A q \in Operations : q # o => jobs'[q] = WithoutExpired[q]
  BY <1>0, PrunedHeld DEF Apply, New
<1>3. Waiting' = Waiting \ {o} /\ \A q \in Waiting' : jobs'[q] = jobs[q]
  BY <1>2, PrunedHeld DEF Waiting, MayApply, At, Operations
<1>4. \A s \in Slugs : held'[s] = IF s \in jobs[o].slugs THEN Unheld ELSE Pruned[s]
  BY DEF Apply
<1>5. \A q \in Waiting' : \A s \in jobs'[q].slugs : held'[s] = jobs'[q].left
  <2> SUFFICES ASSUME NEW q \in Waiting', NEW s \in jobs'[q].slugs PROVE held'[s] = jobs'[q].left
    OBVIOUS
  <2>1. q \in Waiting /\ q # o /\ s \in jobs[q].slugs /\ jobs'[q].left = jobs[q].left
    BY <1>3
  <2>2. s \in Slugs /\ s \notin jobs[o].slugs /\ held[s] = jobs[q].left /\ held[s] >= 0
    BY <1>0, <2>1, WaitingHasTime DEF HoldInv, PlansHoldTheirPages, Jobs
  <2> QED BY <1>4, <2>1, <2>2, PrunedHeld
<1>6. \A p, q \in Waiting' : p # q => jobs'[p].slugs \cap jobs'[q].slugs = {}
  BY <1>3 DEF HoldInv, PlansHoldTheirPages
<1>7. \A s \in Slugs : held'[s] >= 0 => \E q \in Waiting' : s \in jobs'[q].slugs
  <2> SUFFICES ASSUME NEW s \in Slugs, held'[s] >= 0 PROVE \E q \in Waiting' : s \in jobs'[q].slugs
    OBVIOUS
  <2>1. s \notin jobs[o].slugs /\ held[s] >= 0
    BY <1>4, PrunedHeld DEF Unheld
  <2> QED BY <2>1, <1>3 DEF HoldInv, PlansHoldTheirPages
<1>8. \A q \in Operations : jobs'[q].pc \in {"listing", "listed", "pending"} => q \in Plans
  BY <1>2, PrunedHeld DEF HoldInv
<1> QED BY <1>1, <1>5, <1>6, <1>7, <1>8 DEF HoldInv, PlansHoldTheirPages

\* Plans and reservations grow older together.
LEMMA TickHolds ==
  ASSUME HoldInv, OpsTick
  PROVE  HoldInv'
<1> DEFINE less(t) == IF t < 0 THEN t ELSE t - 1
<1>1. /\ jobs' = [q \in Operations |-> IF At(q, "pending") THEN [jobs[q] EXCEPT !.left = less(@)] ELSE jobs[q]]
      /\ held' = [s \in Slugs |-> less(held[s])]
  BY DEF OpsTick
<1>2. jobs' \in [Operations -> Jobs] /\ held' \in [Slugs -> Unheld..Ttl]
  BY <1>1 DEF HoldInv, Jobs, Past, Unheld
<1>3. \A q \in Waiting' : /\ q \in Waiting /\ q \in Operations /\ jobs[q].left > 0
                          /\ jobs'[q].slugs = jobs[q].slugs /\ jobs'[q].left = jobs[q].left - 1
  BY <1>1 DEF HoldInv, Waiting, MayApply, At, Jobs, Past, Operations
<1>4. \A q \in Waiting : jobs[q].left > 0 => q \in Waiting' /\ jobs'[q].slugs = jobs[q].slugs
  BY <1>1 DEF HoldInv, Waiting, MayApply, At, Jobs, Past, Operations
<1>5. \A s \in Slugs : held'[s] = less(held[s]) /\ held[s] \in Int
  BY <1>1 DEF HoldInv, Unheld
<1>6. \A q \in Waiting' : \A s \in jobs'[q].slugs : held'[s] = jobs'[q].left
  BY <1>3, <1>5 DEF HoldInv, PlansHoldTheirPages, Jobs
<1>7. \A p, q \in Waiting' : p # q => jobs'[p].slugs \cap jobs'[q].slugs = {}
  BY <1>3 DEF HoldInv, PlansHoldTheirPages
<1>8. \A s \in Slugs : held'[s] >= 0 => \E q \in Waiting' : s \in jobs'[q].slugs
  <2> SUFFICES ASSUME NEW s \in Slugs, held'[s] >= 0 PROVE \E q \in Waiting' : s \in jobs'[q].slugs
    OBVIOUS
  <2>1. held[s] > 0
    BY <1>5
  <2>2. PICK q \in Waiting : s \in jobs[q].slugs /\ held[s] = jobs[q].left
    BY <2>1, <1>5 DEF HoldInv, PlansHoldTheirPages
  <2> QED BY <2>1, <2>2, <1>4
<1>9. \A q \in Operations : jobs'[q].pc \in {"listing", "listed", "pending"} => q \in Plans
  BY <1>1 DEF HoldInv, At, Jobs
<1> QED BY <1>2, <1>6, <1>7, <1>8, <1>9 DEF HoldInv, PlansHoldTheirPages

-----------------------------------------------------------------------------
LEMMA InitHolds == OpsInit => HoldInv
<1> SUFFICES ASSUME OpsInit PROVE HoldInv
  OBVIOUS
<1>1. jobs \in [Operations -> Jobs] /\ held \in [Slugs -> Unheld..Ttl]
  BY DEF OpsInit, New, Jobs, Past, Unheld
<1>2. Waiting = {} /\ \A s \in Slugs : held[s] < 0
  BY DEF OpsInit, New, Waiting, MayApply, At, Operations, Unheld
<1>3. \A o \in Operations : jobs[o].pc \notin {"listing", "listed", "pending"}
  BY DEF OpsInit, New
<1> QED BY <1>1, <1>2, <1>3 DEF HoldInv, PlansHoldTheirPages, Unheld

LEMMA StepHolds == HoldInv /\ [OpsNext]_opsVars => HoldInv'
<1> SUFFICES ASSUME HoldInv, [OpsNext]_opsVars PROVE HoldInv'
  OBVIOUS
<1>1. CASE OpsTick
  BY <1>1, TickHolds
<1>2. ASSUME NEW o \in Operations, Hold(o) PROVE HoldInv'
  <2>1. o \in Plans
    BY <1>2 DEF Hold, At, HoldInv
  <2> QED BY <1>2, <2>1, HoldHolds
<1>3. ASSUME NEW o \in Operations, NEW slugs \in SUBSET Slugs, Complete(o, slugs) PROVE HoldInv'
  BY <1>3, CompleteHolds
<1>4. ASSUME NEW o \in Operations, NEW slugs \in SUBSET Slugs, Apply(o, slugs) PROVE HoldInv'
  <2>1. o \in Plans
    BY <1>4 DEF Apply, MayApply, At, HoldInv
  <2> QED BY <1>4, <2>1, ApplyHolds
<1>2a. ASSUME NEW o \in Operations, ReadNames(o) PROVE HoldInv'
  <2>1. jobs[o] \in Jobs /\ jobs[o].pc = "listing" /\ o \in Plans /\ held' = held /\ OnDisk \subseteq Slugs
    BY <1>2a DEF ReadNames, At, HoldInv, OnDisk
  <2>2. jobs' = [jobs EXCEPT ![o] = [jobs[o] EXCEPT !.pc = "listed", !.disk = OnDisk]]
    BY <1>2a DEF ReadNames
  <2>3. [jobs[o] EXCEPT !.pc = "listed", !.disk = OnDisk] \in Jobs
    BY <2>1 DEF Jobs
  <2> QED BY <2>1, <2>2, <2>3, OtherJob DEF HoldInv, MayApply, At, Jobs
<1>5. ASSUME NEW o \in Operations, NEW slugs \in SUBSET Slugs, Research(o, slugs) PROVE HoldInv'
  BY ZenonT(30), <1>5, OtherJob DEF Research, HoldInv, Jobs, MayApply, At
<1>6. ASSUME NEW o \in Operations, NEW s \in Slugs, CreatePage(o, s) PROVE HoldInv'
  <2>1. jobs[o] \in Jobs /\ jobs[o].pc = "apply" /\ 1 \in 1..MaxFile
    BY <1>6 DEF CreatePage, At, HoldInv
  <2>2. jobs' = [jobs EXCEPT ![o] = [jobs[o] EXCEPT !.slugs = @ \ {s}, !.file = <<s, 1>>]] /\ held' = held
    BY <1>6 DEF CreatePage
  <2>3. [jobs[o] EXCEPT !.slugs = @ \ {s}, !.file = <<s, 1>>] \in Jobs
    BY <2>1 DEF Jobs, Files
  <2> QED BY <2>1, <2>2, <2>3, OtherJob DEF HoldInv, MayApply, At, Jobs
<1>7. ASSUME NEW o \in Operations, FindName(o) PROVE HoldInv'
  <2>1. jobs[o] \in Jobs /\ jobs[o].pc = "apply" /\ jobs[o].file \in Files /\ held' = held
    BY <1>7 DEF FindName, At, HoldInv, Jobs
  <2>2. CASE /\ jobs[o].file[2] < MaxFile
             /\ jobs' = [jobs EXCEPT ![o] = [jobs[o] EXCEPT !.file = NextName(jobs[o].file)]]
    <3>1. NextName(jobs[o].file) \in Files
      BY <2>1, <2>2 DEF NextName, Files
    <3>2. [jobs[o] EXCEPT !.file = NextName(jobs[o].file)] \in Jobs
      BY <2>1, <3>1 DEF Jobs
    <3> QED BY <2>1, <2>2, <3>2, OtherJob DEF HoldInv, MayApply, At, Jobs
  <2>3. CASE jobs' = [jobs EXCEPT ![o] = [jobs[o] EXCEPT !.pc = "write"]]
    <3>1. [jobs[o] EXCEPT !.pc = "write"] \in Jobs
      BY <2>1 DEF Jobs
    <3> QED BY <2>1, <2>3, <3>1, OtherJob DEF HoldInv, MayApply, At, Jobs
  <2> QED BY <1>7, <2>2, <2>3 DEF FindName
<1>8. ASSUME NEW o \in Operations, WritePage(o) PROVE HoldInv'
  <2>1. jobs[o] \in Jobs /\ jobs[o].pc = "write" /\ held' = held
        /\ jobs' = [jobs EXCEPT ![o] = [jobs[o] EXCEPT !.pc = "apply", !.file = NoFile]]
    BY <1>8 DEF WritePage, At, HoldInv
  <2>2. [jobs[o] EXCEPT !.pc = "apply", !.file = NoFile] \in Jobs
    BY <2>1 DEF Jobs
  <2> QED BY <2>1, <2>2, OtherJob DEF HoldInv, MayApply, At, Jobs
<1>9. CASE UNCHANGED opsVars \/ \E f \in Files : RemovePage(f)
  <2>1. jobs' = jobs /\ held' = held
    BY <1>9 DEF RemovePage, opsVars
  <2> QED BY <2>1, OtherJob DEF HoldInv
<1> QED BY <1>1, <1>2, <1>2a, <1>3, <1>4, <1>5, <1>6, <1>7, <1>8, <1>9 DEF OpsNext

\* No page is in two plans that can still be applied, and a plan keeps the reservations of its
\* pages exactly as long as it can be applied.
THEOREM PlansAlwaysHoldTheirPages ==
  OpsInit /\ [][OpsNext]_opsVars => []PlansHoldTheirPages
<1>1. HoldInv => PlansHoldTheirPages
  BY DEF HoldInv
<1> QED BY <1>1, InitHolds, StepHolds, PTL

-----------------------------------------------------------------------------
(* The note pane *)

USE NotesAssumption

Texts == [of : Notes \cup {"none"}, n : 0..MaxActs]
Pairs == [title : Texts, body : Texts]
Panes == [note : Notes, open : BOOLEAN, loading : BOOLEAN, source : BOOLEAN, title : Texts, body : Texts,
          bodyInitial : Texts, titleDirty : BOOLEAN, saving : BOOLEAN, titleTimer : BOOLEAN,
          bodyTimer : BOOLEAN, editorSaving : BOOLEAN]
Puts == [by : {"pane", "editor", "source", "orphan"}, note : Notes, text : Pairs, written : BOOLEAN]
Loads == [id : Nat, note : Notes, text : Pairs \cup {NotRead}]
Lates == [note : Notes, body : Texts, saving : BOOLEAN]

NoteTypes ==
  /\ files \in [Notes -> Pairs] /\ pane \in Panes /\ puts \subseteq Puts /\ loads \subseteq Loads
  /\ late \in Lates \cup {NotSet} /\ mixed \subseteq Notes /\ excused \subseteq Notes
  /\ acts \in 0..MaxActs

\* No text of another note, where none may come in.
Own(text, n) == text.title.of = n /\ text.body.of = n

OwnTexts ==
  /\ \A n \in Notes \ mixed : Own(files[n], n)
  /\ \A p \in puts : p.note \notin mixed => Own(p.text, p.note)
  /\ \A l \in loads : l.text # NotRead /\ l.note \notin mixed => Own(l.text, l.note)
  /\ late # NotSet /\ late.note \notin mixed => late.body.of = late.note
  /\ ~pane.loading /\ pane.note \notin mixed => Own(Text, pane.note) /\ pane.bodyInitial.of = pane.note

\* What is typed next is new.
Dated(title) == title.of \in Notes => title.n <= acts

TitlesDated ==
  /\ Dated(pane.title) /\ \A n \in Notes : Dated(files[n].title)
  /\ \A p \in puts : Dated(p.text.title)
  /\ \A l \in loads : Dated(l.text.title)

InFlight ==
  /\ pane.open /\ pane.saving => \E p \in puts : p.by \in {"pane", "source"}
  /\ ~pane.open => ~pane.loading

\* What the rest is about: a note that is shown and has met no race.
Clean == pane.note \notin mixed \cup excused /\ ~pane.loading

\* The saves of this note, those that are not yet written, and the timer of the source view.
Mine == {p \in puts : p.note = pane.note}
Coming == {p \in Mine : ~p.written}
LateMine == late # NotSet /\ late.note = pane.note

\* What is shown is what will be in the file; a save of the pane is not counted on, for one that is
\* refused is tried again only while the title is dirty.
TitleKept ==
  /\ \A p \in Coming : p.text.title = pane.title
  /\ files[pane.note].title = pane.title \/ \E p \in Coming : p.by # "pane"
BodyKept ==
  /\ \A p \in Coming : p.text.body = pane.body
  /\ files[pane.note].body = pane.body \/ \E p \in Coming : p.by # "pane"

\* It is kept, or something will still save it.
TitleSafe == (pane.titleDirty /\ (pane.titleTimer \/ pane.saving)) \/ LateMine \/ TitleKept
BodySafe == pane.bodyTimer \/ LateMine \/ BodyKept
LateBody == LateMine => late.body = pane.body \/ pane.bodyTimer

\* Saves are written in the order of their titles.
InOrder ==
  /\ \A p \in Coming : p.text.title # pane.title => \A q \in Mine : q.text.title # pane.title
  /\ \A p \in Mine : p.written /\ p.text.title = pane.title => files[pane.note].title = pane.title
  /\ pane.titleDirty => \A p \in puts \ Mine : p.by = "pane" => p.text.title # pane.title

ClosedClean == ~pane.open => ~pane.titleDirty

Safe == TitleSafe /\ BodySafe /\ LateBody /\ InOrder /\ ClosedClean

NoteInv == NoteTypes /\ OwnTexts /\ TitlesDated /\ InFlight /\ (Clean => Safe)

-----------------------------------------------------------------------------
\* What a step leaves of the pane.
SameView == pane'.note = pane.note /\ pane'.open = pane.open /\ pane'.loading = pane.loading
SameText == pane'.title = pane.title /\ pane'.body = pane.body
SameSave == /\ pane'.titleDirty = pane.titleDirty /\ pane'.titleTimer = pane.titleTimer
            /\ pane'.saving = pane.saving

LEMMA EditTitleDoes ==
  ASSUME NoteTypes, EditTitle
  PROVE  /\ pane' \in Panes /\ SameView /\ pane'.title = [of |-> pane.note, n |-> acts + 1]
         /\ pane'.titleDirty /\ pane'.titleTimer /\ pane'.saving = pane.saving /\ pane'.body = pane.body
         /\ pane'.bodyInitial = pane.bodyInitial /\ pane'.bodyTimer = pane.bodyTimer
<1> DEFINE t == [of |-> pane.note, n |-> acts + 1]
<1>1. pane \in Panes /\ acts \in 0..MaxActs /\ acts < MaxActs
  BY DEF NoteTypes, EditTitle, Type, Act
<1>2. pane.note \in Notes /\ acts + 1 \in 0..MaxActs
  <2>1. pane.note \in Notes
    BY <1>1 DEF Panes
  <2>2. acts + 1 \in 0..MaxActs
    BY <1>1
  <2> QED BY <2>1, <2>2
<1>3. t \in Texts
  BY <1>2 DEF Texts
<1>4. pane' = [pane EXCEPT !.title = t, !.titleDirty = TRUE, !.titleTimer = TRUE]
  BY DEF EditTitle
<1> HIDE DEF t
<1>5. pane' \in Panes
  BY <1>1, <1>3, <1>4 DEF Panes
<1>6. /\ SameView /\ pane'.title = t
      /\ pane'.titleDirty /\ pane'.titleTimer /\ pane'.saving = pane.saving /\ pane'.body = pane.body
      /\ pane'.bodyInitial = pane.bodyInitial /\ pane'.bodyTimer = pane.bodyTimer
  BY <1>1, <1>4 DEF Panes, SameView
<1> QED BY <1>5, <1>6 DEF t

LEMMA TitleTimerDoes ==
  ASSUME NoteTypes, TitleTimer
  PROVE  /\ pane' \in Panes /\ SameView /\ SameText /\ pane'.titleDirty = pane.titleDirty
         /\ pane'.bodyInitial = pane.bodyInitial /\ pane'.bodyTimer = pane.bodyTimer
         /\ pane'.saving
         /\ ~pane.saving => pane'.titleTimer = pane.titleDirty
         /\ ~pane.loading
<1>1. pane \in Panes
  BY DEF NoteTypes
<1>2. CASE pane.saving
  <2>1. pane' = [pane EXCEPT !.titleTimer = FALSE]
    BY <1>2 DEF TitleTimer
  <2> QED BY <1>1, <1>2, <2>1 DEF Panes, SameView, SameText, TitleTimer, Shown
<1>3. CASE ~pane.saving
  <2>1. pane' = [pane EXCEPT !.saving = TRUE, !.titleTimer = pane.titleDirty /\ ~pane.loading]
    BY <1>3 DEF TitleTimer, Saving
  <2>2. ~pane.loading
    BY DEF TitleTimer, Shown
  <2>3. pane' \in Panes
    BY <1>1, <2>1 DEF Panes
  <2>4. /\ SameView /\ SameText /\ pane'.titleDirty = pane.titleDirty
         /\ pane'.bodyInitial = pane.bodyInitial /\ pane'.bodyTimer = pane.bodyTimer
         /\ pane'.saving
         /\ pane'.titleTimer = (pane.titleDirty /\ ~pane.loading)
    BY <1>1, <2>1 DEF Panes, SameView, SameText
  <2> QED BY <1>1, <1>3, <2>2, <2>3, <2>4 DEF Panes
<1> QED BY <1>2, <1>3

LEMMA EditBodyDoes ==
  ASSUME NoteTypes, EditBody
  PROVE  /\ pane' \in Panes /\ SameView /\ SameSave /\ pane'.title = pane.title
         /\ pane'.body = [of |-> pane.note, n |-> acts + 1] /\ pane'.bodyInitial = pane.bodyInitial
         /\ \/ /\ pane'.bodyTimer = pane.bodyTimer /\ late' \in Lates
               /\ late' = [note |-> pane.note, body |-> pane'.body, saving |-> pane.saving]
            \/ pane'.bodyTimer /\ late' = late
<1> DEFINE t == [of |-> pane.note, n |-> acts + 1]
<1>1. pane \in Panes /\ acts \in 0..MaxActs /\ acts < MaxActs
  BY DEF NoteTypes, EditBody, Type, Act
<1>2. pane.note \in Notes /\ acts + 1 \in 0..MaxActs
  <2>1. pane.note \in Notes
    BY <1>1 DEF Panes
  <2>2. acts + 1 \in 0..MaxActs
    BY <1>1
  <2> QED BY <2>1, <2>2
<1>9. pane.saving \in BOOLEAN
  BY <1>1 DEF Panes
<1>3. t \in Texts
  BY <1>2 DEF Texts
<1>4. \/ /\ pane' = [pane EXCEPT !.body = t]
         /\ late' = [note |-> pane.note, body |-> t, saving |-> pane.saving]
      \/ pane' = [pane EXCEPT !.body = t, !.bodyTimer = TRUE] /\ late' = late
  <2>1. CASE pane.source
    BY <2>1 DEF EditBody
  <2>2. CASE ~pane.source
    BY <2>2 DEF EditBody
  <2> QED BY <2>1, <2>2
<1> HIDE DEF t
<1>5. [note |-> pane.note, body |-> t, saving |-> pane.saving] \in Lates
  BY <1>2, <1>3, <1>9 DEF Lates
<1>6. pane' \in Panes
  BY <1>1, <1>3, <1>4 DEF Panes
<1>7. /\ SameView /\ SameSave /\ pane'.title = pane.title
      /\ pane'.body = t /\ pane'.bodyInitial = pane.bodyInitial
  BY <1>1, <1>4 DEF Panes, SameView, SameSave
<1>8. \/ pane'.bodyTimer = pane.bodyTimer /\ late' = [note |-> pane.note, body |-> t, saving |-> pane.saving]
      \/ pane'.bodyTimer /\ late' = late
  BY <1>1, <1>4 DEF Panes
<1> QED BY <1>5, <1>6, <1>7, <1>8 DEF t

LEMMA BodyTimerDoes ==
  ASSUME NoteTypes, BodyTimer
  PROVE  /\ pane' \in Panes /\ SameView /\ SameText /\ SameSave
         /\ pane'.bodyInitial = pane.bodyInitial /\ ~pane'.bodyTimer
<1>1. pane \in Panes /\ pane' = [pane EXCEPT !.bodyTimer = FALSE, !.editorSaving = TRUE]
  BY DEF NoteTypes, BodyTimer
<1> QED BY <1>1 DEF Panes, SameView, SameText, SameSave

LEMMA SavingDoes ==
  ASSUME pane \in Panes
  PROVE  /\ Saving \in Panes /\ Saving.note = pane.note /\ Saving.open = pane.open
         /\ Saving.loading = pane.loading /\ Saving.title = pane.title /\ Saving.body = pane.body
         /\ Saving.bodyInitial = pane.bodyInitial /\ Saving.titleDirty = pane.titleDirty
         /\ Saving.bodyTimer = pane.bodyTimer /\ Saving.saving
         /\ Saving.titleTimer = (pane.titleDirty /\ ~pane.loading)
<1> DEFINE on == pane.titleDirty /\ ~pane.loading
<1>1. on \in BOOLEAN
  BY Zenon
<1>2. Saving = [pane EXCEPT !.saving = TRUE, !.titleTimer = on]
  BY DEF Saving
<1> HIDE DEF on
<1> QED BY <1>1, <1>2 DEF Panes, on

LEMMA CommandDoes ==
  ASSUME NoteTypes, Command
  PROVE  /\ pane' \in Panes /\ SameView /\ SameText /\ pane'.titleDirty = pane.titleDirty
         /\ pane'.bodyInitial = pane.bodyInitial /\ pane'.bodyTimer = pane.bodyTimer /\ pane'.saving
         /\ pane.saving => pane'.titleTimer = pane.titleTimer
         /\ ~pane.saving => pane'.titleTimer = (pane.titleDirty /\ ~pane.loading)
<1> DEFINE q == IF pane.saving THEN pane ELSE Saving
<1>1. pane \in Panes
  BY DEF NoteTypes
<1>2. PICK saves \in BOOLEAN : pane' = [q EXCEPT !.editorSaving = saves]
  <2> DEFINE saves == q.editorSaving \/ (Shown /\ ~pane.source /\ ~pane.editorSaving)
  <2>1. saves \in BOOLEAN
    BY Zenon
  <2>2. pane' = [q EXCEPT !.editorSaving = saves]
    BY DEF Command
  <2> HIDE DEF saves
  <2> QED BY <2>1, <2>2
<1>3. /\ q \in Panes /\ q.note = pane.note /\ q.open = pane.open /\ q.loading = pane.loading
      /\ q.title = pane.title /\ q.body = pane.body /\ q.titleDirty = pane.titleDirty
      /\ q.bodyInitial = pane.bodyInitial /\ q.bodyTimer = pane.bodyTimer /\ q.saving
      /\ pane.saving => q.titleTimer = pane.titleTimer
      /\ ~pane.saving => q.titleTimer = (pane.titleDirty /\ ~pane.loading)
  BY <1>1, SavingDoes
<1> HIDE DEF q
<1> QED BY <1>2, <1>3 DEF Panes, SameView, SameText

LEMMA LateTimerDoes ==
  ASSUME NoteTypes, LateTimer
  PROVE  /\ pane' \in Panes /\ SameView /\ SameText /\ pane'.titleDirty = pane.titleDirty
         /\ pane'.bodyInitial = pane.bodyInitial /\ pane'.bodyTimer = pane.bodyTimer
         /\ \/ SameSave
            \/ pane'.saving /\ ~pane.saving /\ pane'.titleTimer = (pane.titleDirty /\ ~pane.loading)
<1>1. pane \in Panes
  BY DEF NoteTypes
<1>2. pane' = pane \/ (pane' = Saving /\ ~pane.saving)
  BY DEF LateTimer
<1>3. CASE pane' = pane
  BY <1>1, <1>3 DEF SameView, SameText, SameSave
<1>4. CASE pane' = Saving /\ ~pane.saving
  BY <1>1, <1>4, SavingDoes DEF SameView, SameText
<1> QED BY <1>2, <1>3, <1>4

\* The end of a save of the pane.
LEMMA AnsweredDoes ==
  ASSUME NoteTypes, NEW ok \in BOOLEAN, NEW body \in Texts, pane' = Answered(ok, body)
  PROVE  /\ pane' \in Panes /\ SameView /\ SameText /\ ~pane'.saving
         /\ pane'.bodyInitial = body /\ pane'.bodyTimer = pane.bodyTimer
         /\ pane'.titleDirty = (pane.titleDirty /\ ~ok)
         /\ pane.saving => pane'.titleTimer = ((pane.titleDirty /\ ~ok) /\ ~pane.loading)
         /\ ~pane.saving /\ body = pane.bodyInitial => pane'.titleTimer = pane.titleTimer
<1> DEFINE dirty == pane.titleDirty /\ ~ok
           timer == IF pane.saving \/ body # pane.bodyInitial THEN dirty /\ ~pane.loading ELSE pane.titleTimer
<1>1. pane \in Panes
  BY DEF NoteTypes
<1>2. dirty \in BOOLEAN
  BY Zenon
<1>3. timer \in BOOLEAN
  <2>1. pane.titleTimer \in BOOLEAN
    BY <1>1 DEF Panes
  <2>2. (dirty /\ ~pane.loading) \in BOOLEAN
    BY Zenon
  <2> QED BY <2>1, <2>2, Zenon
<1>4. pane' = [pane EXCEPT !.saving = FALSE, !.titleDirty = dirty, !.bodyInitial = body, !.titleTimer = timer]
  BY DEF Answered
<1>5. /\ pane.saving => timer = (dirty /\ ~pane.loading)
      /\ ~pane.saving /\ body = pane.bodyInitial => timer = pane.titleTimer
  OBVIOUS
<1> HIDE DEF dirty, timer
<1>6. /\ pane' \in Panes /\ SameView /\ SameText /\ ~pane'.saving
      /\ pane'.bodyInitial = body /\ pane'.bodyTimer = pane.bodyTimer
      /\ pane'.titleDirty = dirty /\ pane'.titleTimer = timer
  BY <1>1, <1>2, <1>3, <1>4 DEF Panes, SameView, SameText
<1> QED BY <1>5, <1>6 DEF dirty

LEMMA EditorAnswered ==
  ASSUME NoteTypes, pane' = [pane EXCEPT !.editorSaving = FALSE]
  PROVE  /\ pane' \in Panes /\ SameView /\ SameText /\ SameSave
         /\ pane'.bodyInitial = pane.bodyInitial /\ pane'.bodyTimer = pane.bodyTimer
BY DEF NoteTypes, Panes, SameView, SameText, SameSave

LEMMA OpenDoes ==
  ASSUME NoteTypes, NEW n \in Notes, OpenNote(n)
  PROVE  /\ pane' \in Panes /\ pane'.note = n /\ pane'.loading /\ pane'.open
         /\ pane'.title = pane.title /\ pane'.saving = pane.saving
<1>1. /\ pane \in Panes /\ pane.open
      /\ pane' = [pane EXCEPT !.note = n, !.loading = TRUE, !.titleTimer = FALSE, !.bodyTimer = FALSE,
                              !.editorSaving = FALSE]
  BY DEF NoteTypes, OpenNote
<1> QED BY <1>1 DEF Panes

LEMMA LoadedDoes ==
  ASSUME NoteTypes, NEW l \in loads, Loaded(l)
  PROVE  /\ pane' \in Panes /\ pane'.note = pane.note /\ pane'.open = pane.open
         /\ pane'.saving = pane.saving /\ l.text \in Pairs /\ l.note \in Notes
         /\ ~pane.open => pane' = pane
         /\ pane.open => /\ ~pane'.loading /\ pane'.title = l.text.title /\ ~pane'.titleDirty
                         /\ pane'.bodyInitial = l.text.body
                         /\ pane.loading \/ pane'.body # pane.body => pane'.body = l.text.body
<1>1. pane \in Panes /\ l \in Loads /\ l.text # NotRead
  BY DEF NoteTypes, Loaded
<1>2. l.text \in Pairs /\ l.note \in Notes /\ l.text.title \in Texts /\ l.text.body \in Texts
  BY <1>1 DEF Loads, Pairs
<1>3. CASE ~pane.open
  BY <1>1, <1>2, <1>3 DEF Loaded
<1>4. CASE pane.open
  <2> DEFINE body == IF Shown /\ ~pane.source THEN pane.body ELSE l.text.body
  <2>1. body \in Texts /\ (pane.loading \/ body # pane.body => body = l.text.body)
    BY <1>1, <1>2 DEF Panes, Shown
  <2>2. pane' = [pane EXCEPT !.loading = FALSE, !.title = l.text.title, !.titleDirty = FALSE,
                             !.titleTimer = FALSE, !.bodyInitial = l.text.body, !.body = body]
    BY <1>4 DEF Loaded
  <2> HIDE DEF body
  <2>3. /\ pane' \in Panes /\ pane'.note = pane.note /\ pane'.open = pane.open
        /\ pane'.saving = pane.saving /\ ~pane'.loading /\ pane'.title = l.text.title /\ ~pane'.titleDirty
        /\ pane'.bodyInitial = l.text.body /\ pane'.body = body
    BY <1>1, <1>2, <2>1, <2>2 DEF Panes
  <2> QED BY <1>2, <1>4, <2>1, <2>3
<1> QED BY <1>3, <1>4

LEMMA NotLoadedDoes ==
  ASSUME NoteTypes, NEW l \in loads, NotLoaded(l)
  PROVE  /\ pane' \in Panes /\ pane'.note = pane.note /\ pane'.open = pane.open
         /\ pane'.saving = pane.saving /\ ~pane'.loading /\ pane'.title \in {pane.title, NoText}
<1>1. pane \in Panes /\ NoText \in Texts
  <2>1. NoText \in Texts
    BY DEF NoText, Texts
  <2> QED BY <2>1 DEF NoteTypes
<1>2. CASE pane' = [pane EXCEPT !.loading = FALSE, !.titleTimer = IF pane.loading THEN pane.titleDirty ELSE @,
                                !.body = IF pane.loading /\ ~pane.source THEN pane.bodyInitial ELSE @]
  <2> DEFINE timer == IF pane.loading THEN pane.titleDirty ELSE pane.titleTimer
             body == IF pane.loading /\ ~pane.source THEN pane.bodyInitial ELSE pane.body
  <2>1. timer \in BOOLEAN /\ body \in Texts
    BY <1>1 DEF Panes
  <2>2. pane' = [pane EXCEPT !.loading = FALSE, !.titleTimer = timer, !.body = body]
    BY <1>2
  <2> HIDE DEF timer, body
  <2> QED BY <1>1, <2>1, <2>2 DEF Panes
<1>3. CASE pane' = [pane EXCEPT !.loading = FALSE, !.title = NoText, !.titleDirty = FALSE, !.titleTimer = FALSE,
                                !.bodyInitial = NoText, !.body = IF Shown /\ ~pane.source THEN @ ELSE NoText]
  <2> DEFINE body == IF Shown /\ ~pane.source THEN pane.body ELSE NoText
  <2>1. body \in Texts
    BY <1>1 DEF Panes
  <2>2. pane' = [pane EXCEPT !.loading = FALSE, !.title = NoText, !.titleDirty = FALSE, !.titleTimer = FALSE,
                             !.bodyInitial = NoText, !.body = body]
    BY <1>3
  <2> HIDE DEF body
  <2> QED BY <1>1, <2>1, <2>2 DEF Panes
<1> QED BY <1>2, <1>3 DEF NotLoaded

LEMMA SwitchDoes ==
  ASSUME NoteTypes, Switch
  PROVE  /\ pane' \in Panes /\ SameView /\ SameText
         /\ pane'.titleDirty = pane.titleDirty /\ pane'.saving = pane.saving
         /\ pane.titleDirty /\ pane.titleTimer => pane'.titleTimer
         /\ \/ pane'.bodyInitial = pane.body /\ pane'.bodyTimer = pane.bodyTimer
            \/ pane'.bodyInitial = pane.bodyInitial /\ ~pane'.bodyTimer
         /\ ~pane.loading
<1>1. pane \in Panes /\ ~pane.loading
  BY DEF NoteTypes, Switch, Shown
<1>2. CASE pane.source
  <2> DEFINE timer == IF pane.body # pane.bodyInitial THEN pane.titleDirty ELSE pane.titleTimer
  <2>1. timer \in BOOLEAN /\ (pane.titleDirty /\ pane.titleTimer => timer)
    BY <1>1 DEF Panes
  <2>2. pane' = [pane EXCEPT !.source = FALSE, !.bodyInitial = pane.body, !.titleTimer = timer]
    BY <1>2 DEF Switch
  <2> HIDE DEF timer
  <2> QED BY <1>1, <2>1, <2>2 DEF Panes, SameView, SameText
<1>3. CASE ~pane.source
  <2>1. pane' = [pane EXCEPT !.source = TRUE, !.bodyTimer = FALSE, !.editorSaving = FALSE]
    BY <1>3 DEF Switch
  <2> QED BY <1>1, <2>1 DEF Panes, SameView, SameText
<1> QED BY <1>2, <1>3

LEMMA LeaveDoes ==
  ASSUME NoteTypes, Leave
  PROVE  /\ pane' \in Panes /\ SameText /\ pane'.note = pane.note /\ ~pane'.open
         /\ ~pane.loading /\ ~pane'.loading /\ pane'.titleDirty = pane.titleDirty
         /\ pane'.bodyInitial = pane.bodyInitial /\ ~pane'.bodyTimer
<1>1. /\ pane \in Panes /\ ~pane.loading
      /\ pane' = [pane EXCEPT !.open = FALSE, !.titleTimer = FALSE, !.bodyTimer = FALSE, !.editorSaving = FALSE]
  BY DEF NoteTypes, Leave, Shown
<1> QED BY <1>1 DEF Panes, SameText

-----------------------------------------------------------------------------
\* A step by which texts come only from where they belong.
TextsStay ==
  /\ mixed \subseteq mixed' /\ acts <= acts'
  /\ \A n \in Notes : files'[n] = files[n] \/ \E p \in puts : p.note = n /\ files'[n] = p.text
  /\ \A l \in loads' : l \in loads \/ l.text = NotRead \/ (l.note \in Notes /\ l.text = files[l.note])
  /\ \A p \in puts' : \/ \E q \in puts : q.note = p.note /\ q.text = p.text
                      \/ p.text \in Pairs /\ Dated(p.text.title) /\ (p.note \notin mixed' => Own(p.text, p.note))
  /\ late' = late \/ late' = NotSet \/ late'.body.of = late'.note
  /\ Dated(pane.title)'
  /\ ~pane'.loading /\ pane'.note \notin mixed' =>
       pane'.title.of = pane'.note /\ pane'.body.of = pane'.note /\ pane'.bodyInitial.of = pane'.note

LEMMA DatedStays ==
  ASSUME NEW t \in Texts, Dated(t), acts <= acts', acts \in Nat, acts' \in Nat
  PROVE  Dated(t)'
BY DEF Dated, Texts

LEMMA TextsTyped ==
  ASSUME NoteTypes
  PROVE  /\ \A t \in Texts : t.n \in Nat
         /\ \A n \in Notes : files[n] \in Pairs
         /\ \A p \in puts : p.text \in Pairs /\ p.note \in Notes /\ p.by \in {"pane", "editor", "source", "orphan"}
         /\ \A l \in loads : l.text \in Pairs \cup {NotRead} /\ l.note \in Notes
         /\ pane.title \in Texts /\ pane.body \in Texts /\ pane.bodyInitial \in Texts /\ pane.note \in Notes
         /\ acts \in Nat
         /\ \A x \in Pairs : x.title \in Texts /\ x.body \in Texts
         /\ NotRead.title.n = 0 /\ NotRead.title.of = "unread"
<1>1. \A t \in Texts : t.n \in Nat
  BY DEF Texts
<1>2. \A n \in Notes : files[n] \in Pairs
  BY DEF NoteTypes
<1>3. \A p \in puts : p.text \in Pairs /\ p.note \in Notes /\ p.by \in {"pane", "editor", "source", "orphan"}
  BY DEF NoteTypes, Puts
<1>4. \A l \in loads : l.text \in Pairs \cup {NotRead} /\ l.note \in Notes
  BY DEF NoteTypes, Loads
<1>5. pane.title \in Texts /\ pane.body \in Texts /\ pane.bodyInitial \in Texts /\ pane.note \in Notes
  BY DEF NoteTypes, Panes
<1>6. acts \in Nat
  BY DEF NoteTypes
<1>7. \A x \in Pairs : x.title \in Texts /\ x.body \in Texts
  BY DEF Pairs
<1>8. NotRead.title.n = 0 /\ NotRead.title.of = "unread"
  BY DEF NotRead
<1> QED BY <1>1, <1>2, <1>3, <1>4, <1>5, <1>6, <1>7, <1>8

LEMMA OwnKept ==
  ASSUME NoteTypes, OwnTexts, TextsStay
  PROVE  OwnTexts'
<1>1. ASSUME NEW n \in Notes \ mixed' PROVE Own(files'[n], n)
  BY DEF OwnTexts, TextsStay
<1>2. ASSUME NEW p \in puts', p.note \notin mixed' PROVE Own(p.text, p.note)
  BY <1>2 DEF OwnTexts, TextsStay
<1>3. ASSUME NEW l \in loads', l.text # NotRead, l.note \notin mixed' PROVE Own(l.text, l.note)
  BY <1>3 DEF OwnTexts, TextsStay
<1>4. late' # NotSet /\ late'.note \notin mixed' => late'.body.of = late'.note
  BY DEF OwnTexts, TextsStay
<1>5. ~pane'.loading /\ pane'.note \notin mixed' =>
        Own([title |-> pane'.title, body |-> pane'.body], pane'.note) /\ pane'.bodyInitial.of = pane'.note
  BY DEF TextsStay, Own
<1> QED BY <1>1, <1>2, <1>3, <1>4, <1>5 DEF OwnTexts, Own, Text

LEMMA DatedKept ==
  ASSUME NoteTypes, acts' \in Nat, TitlesDated, TextsStay
  PROVE  TitlesDated'
<1>0. acts <= acts' /\ acts \in Nat /\ acts' \in Nat
  BY TextsTyped DEF TextsStay
<1>1. ASSUME NEW n \in Notes PROVE Dated(files[n].title)'
  <2>1. PICK x \in Pairs : x = files'[n] /\ Dated(x.title)
    BY TextsTyped DEF TextsStay, TitlesDated
  <2> QED BY <1>0, <2>1, TextsTyped, DatedStays
<1>2. ASSUME NEW p \in puts', p.text.title \in Texts PROVE Dated(p.text.title)'
  <2>1. Dated(p.text.title)
    BY DEF TextsStay, TitlesDated
  <2> QED BY <1>0, <1>2, <2>1, TextsTyped, DatedStays
<1>3. ASSUME NEW l \in loads' PROVE Dated(l.text.title)'
  <2>1. CASE l.text = NotRead
    BY <2>1, TextsTyped DEF Dated
  <2>2. CASE l.text # NotRead
    <3>1. l.text \in Pairs /\ Dated(l.text.title)
      BY <2>2, TextsTyped DEF TextsStay, TitlesDated
    <3> QED BY <1>0, <3>1, TextsTyped, DatedStays
  <2> QED BY <2>1, <2>2
<1>4. Dated(pane.title)'
  BY DEF TextsStay
<1>5. \A p \in puts' : p.text.title \in Texts
  BY TextsTyped DEF TextsStay
<1> QED BY <1>1, <1>2, <1>3, <1>4, <1>5 DEF TitlesDated

LEMMA Documents ==
  ASSUME NEW title \in Texts, NEW body \in Texts
  PROVE  /\ Document(title, body) \in Pairs /\ Document(title, body).body = body
         /\ Document(title, body).title = IF title = NoText THEN Untitled ELSE title
<1>1. 0 \in 0..MaxActs /\ 1 \in 0..MaxActs
  OBVIOUS
<1>2. Untitled \in Texts
  BY <1>1 DEF Untitled, Texts
<1> QED BY <1>2 DEF Document, Pairs

-----------------------------------------------------------------------------
\* Saves that are sent with what is shown.
Sends(new) ==
  /\ puts' = puts \cup new
  /\ \A p \in new : ~p.written /\ (p.note # pane.note => p.by # "pane")
  /\ \A p \in new : p.note = pane.note => p.text.title = pane.title /\ \A q \in Coming : q.text = p.text

SameNote == pane'.note = pane.note /\ SameText /\ files' = files

LEMMA SendSafe ==
  ASSUME NEW new, Sends(new), SameNote, InOrder, pane'.titleDirty => pane.titleDirty
  PROVE  /\ InOrder' /\ (TitleKept => TitleKept')
         /\ BodyKept /\ (\A p \in new : p.note = pane.note => p.text.body = pane.body) => BodyKept'
<1>1. \A p \in Mine' : p \in Mine \/ (p \in new /\ p.note = pane.note)
  BY DEF Mine, Sends, SameNote
<1>2. \A p \in Coming' : p \in Coming \/ (p \in new /\ p.note = pane.note)
  BY <1>1 DEF Mine, Coming, Sends, SameNote
<1>3. Coming \subseteq Coming' /\ Mine \subseteq Mine' /\ Coming \subseteq Mine
  BY DEF Mine, Coming, Sends, SameNote
<1>4. TitleKept => TitleKept'
  BY <1>2, <1>3 DEF TitleKept, Sends, SameNote, SameText
<1>5. BodyKept /\ (\A p \in new : p.note = pane.note => p.text.body = pane.body) => BodyKept'
  BY <1>2, <1>3 DEF BodyKept, Sends, SameNote, SameText
<1>6. InOrder'
  <2>1. ASSUME NEW p \in Coming', p.text.title # pane.title, NEW q \in Mine' PROVE q.text.title # pane.title
    <3>1. p \in Coming
      BY <1>2, <2>1 DEF Sends
    <3>2. CASE q \in Mine
      BY <2>1, <3>1, <3>2 DEF InOrder
    <3>3. CASE q \in new /\ q.note = pane.note
      BY <2>1, <3>1, <3>3 DEF Sends
    <3> QED BY <1>1, <3>2, <3>3
  <2>2. ASSUME NEW p \in Mine', p.written, p.text.title = pane.title PROVE files[pane.note].title = pane.title
    BY <1>1, <2>2 DEF InOrder, Sends
  <2>3. ASSUME pane.titleDirty, NEW p \in puts' \ Mine', p.by = "pane" PROVE p.text.title # pane.title
    BY <2>3 DEF InOrder, Sends, SameNote, Mine
  <2> QED BY <2>1, <2>2, <2>3 DEF InOrder, SameNote, SameText
<1> QED BY <1>4, <1>5, <1>6

\* A save by the editor or the source view keeps what it sends.
LEMMA SendKept ==
  ASSUME NEW p, Sends({p}), SameNote, p.note = pane.note, p.by # "pane"
  PROVE  TitleKept' /\ (p.text.body = pane.body => BodyKept')
<1>1. p \in Coming' /\ p.text.title = pane.title /\ \A q \in Coming' : q.text = p.text
  BY DEF Mine, Coming, Sends, SameNote
<1> QED BY <1>1 DEF TitleKept, BodyKept, SameNote, SameText

\* A save is gone that was written, or belongs to another note, or was not counted on.
LEMMA LessSafe ==
  ASSUME NEW p \in puts, puts' = puts \ {p}, SameNote, InOrder, pane'.titleDirty => pane.titleDirty
  PROVE  /\ InOrder'
         /\ p.written \/ p.note # pane.note \/ p.by = "pane" =>
              (TitleKept => TitleKept') /\ (BodyKept => BodyKept')
<1>1. Mine' = Mine \ {p} /\ Coming' = Coming \ {p}
  BY DEF Mine, Coming, SameNote
<1>2. p \in Coming => ~p.written /\ p.note = pane.note
  BY DEF Coming, Mine
<1>3. InOrder'
  BY <1>1 DEF InOrder, SameNote, SameText
<1> QED BY <1>1, <1>2, <1>3 DEF TitleKept, BodyKept, SameNote, SameText

LEMMA WriteSafe ==
  ASSUME NoteTypes, NEW p \in puts, Write(p), InOrder
  PROVE  InOrder' /\ (TitleKept => TitleKept') /\ (BodyKept => BodyKept')
<1> DEFINE w == [p EXCEPT !.written = TRUE]
<1>1. p \in Puts /\ ~p.written /\ pane' = pane /\ files' = [files EXCEPT ![p.note] = p.text]
  BY DEF NoteTypes, Write
<1>2. w.written /\ w.note = p.note /\ w.text = p.text /\ w.by = p.by
  BY <1>1 DEF Puts
<1>3. puts' = (puts \ {p}) \cup {w}
  BY DEF Write
<1>4. files \in [Notes -> Pairs] /\ p.note \in Notes /\ pane.note \in Notes
  BY <1>1, TextsTyped DEF NoteTypes
<1> HIDE DEF w
<1>5. CASE p.note # pane.note
  <2>1. Mine' = Mine /\ Coming' = Coming /\ files'[pane.note] = files[pane.note]
    BY <1>1, <1>2, <1>3, <1>4, <1>5 DEF Mine, Coming
  <2>2. InOrder'
    BY <1>1, <1>2, <1>3, <1>5, <2>1 DEF InOrder, Mine
  <2> QED BY <1>1, <2>1, <2>2 DEF TitleKept, BodyKept
<1>6. CASE p.note = pane.note
  <2>1. p \in Coming /\ p \in Mine
    BY <1>1, <1>6 DEF Coming, Mine
  <2>2. Mine' = (Mine \ {p}) \cup {w} /\ Coming' = Coming \ {p}
    BY <1>1, <1>2, <1>3, <1>6 DEF Mine, Coming
  <2>3. files'[pane.note] = p.text /\ puts' \ Mine' = puts \ Mine
    BY <1>1, <1>2, <1>3, <1>4, <1>6 DEF Mine
  <2>4. (TitleKept => TitleKept') /\ (BodyKept => BodyKept')
    BY <1>1, <2>1, <2>2, <2>3 DEF TitleKept, BodyKept
  <2>5. InOrder'
    BY <1>1, <1>2, <2>1, <2>2, <2>3 DEF InOrder
  <2> QED BY <2>4, <2>5
<1> QED BY <1>5, <1>6

\* The editor goes: its saves end without it.
LEMMA UnmountDoes ==
  ASSUME NoteTypes, puts' = Unmounted
  PROVE  /\ \A p \in puts' : p \in Puts /\
              \E q \in puts : /\ q.note = p.note /\ q.text = p.text /\ q.written = p.written
                              /\ q.by = p.by \/ (q.by = "editor" /\ p.by = "orphan")
         /\ \A q \in puts :
              \E p \in puts' : /\ q.note = p.note /\ q.text = p.text /\ q.written = p.written
                               /\ q.by = p.by \/ (q.by = "editor" /\ p.by = "orphan")
<1>1. ASSUME NEW q \in puts
      PROVE  LET p == IF q.by = "editor" THEN [q EXCEPT !.by = "orphan"] ELSE q
             IN /\ p \in Puts /\ q.note = p.note /\ q.text = p.text /\ q.written = p.written
                /\ q.by = p.by \/ (q.by = "editor" /\ p.by = "orphan")
  BY <1>1 DEF NoteTypes, Puts
<1> QED BY <1>1 DEF Unmounted

LEMMA UnmountSafe ==
  ASSUME NoteTypes, puts' = Unmounted, SameNote, InOrder, pane'.titleDirty => pane.titleDirty
  PROVE  InOrder' /\ (TitleKept => TitleKept') /\ (BodyKept => BodyKept')
<1>1. /\ \A p \in Mine' : \E q \in Mine : q.text = p.text /\ q.written = p.written
      /\ \A p \in Coming' : \E q \in Coming : q.text = p.text
      /\ \A q \in Coming : q.by # "pane" => \E p \in Coming' : p.by # "pane"
      /\ \A p \in puts' \ Mine' : p.by = "pane" => \E q \in puts \ Mine : q.by = "pane" /\ q.text = p.text
  BY UnmountDoes DEF Mine, Coming, SameNote
<1>2. (TitleKept => TitleKept') /\ (BodyKept => BodyKept')
  BY <1>1 DEF TitleKept, BodyKept, SameNote, SameText
<1>3. InOrder'
  BY <1>1 DEF InOrder, SameNote, SameText
<1> QED BY <1>2, <1>3

-----------------------------------------------------------------------------
(* Typing *)

LEMMA ActTyped == ASSUME NoteTypes, Act PROVE acts' \in 0..MaxActs /\ acts' = acts + 1 /\ acts <= acts' /\ acts' \in Nat
BY DEF NoteTypes, Act

LEMMA EditTitleInv == ASSUME NoteInv, EditTitle PROVE NoteInv'
<1>0. NoteTypes /\ OwnTexts /\ TitlesDated /\ InFlight /\ (Clean => Safe)
  BY DEF NoteInv
<1> DEFINE t == [of |-> pane.note, n |-> acts + 1]
<1>1. /\ pane' \in Panes /\ SameView /\ pane'.title = t
      /\ pane'.titleDirty /\ pane'.titleTimer /\ pane'.saving = pane.saving /\ pane'.body = pane.body
      /\ pane'.bodyInitial = pane.bodyInitial /\ pane'.bodyTimer = pane.bodyTimer
  BY <1>0, EditTitleDoes
<1>2. Act /\ UNCHANGED <<files, loads, puts, late, mixed, excused>> /\ pane.open /\ ~pane.loading
  BY DEF EditTitle, Type, Shown
<1>3. t.of = pane.note /\ t.n = acts + 1 /\ pane.note \in Notes /\ acts \in Nat
  BY <1>0, TextsTyped
<1> HIDE DEF t
<1>4. NoteTypes'
  BY <1>0, <1>1, <1>2, ActTyped DEF NoteTypes
<1>5. TextsStay
  <2>1. Dated(pane.title)'
    BY <1>0, <1>1, <1>2, <1>3, ActTyped DEF Dated
  <2>2. pane.note \notin mixed => pane.body.of = pane.note /\ pane.bodyInitial.of = pane.note
    BY <1>0, <1>2 DEF OwnTexts, Own, Text
  <2> QED BY <1>0, <1>1, <1>2, <1>3, <2>1, <2>2, ActTyped DEF TextsStay, SameView
<1>6. OwnTexts' /\ TitlesDated'
  BY <1>0, <1>2, <1>5, ActTyped, OwnKept, DatedKept
<1>7. InFlight'
  BY <1>0, <1>1, <1>2 DEF InFlight, SameView
<1>8. ASSUME Clean' PROVE Safe'
  <2>1. Safe
    BY <1>0, <1>1, <1>2, <1>8 DEF Clean, SameView
  <2>2. \A p \in puts : p.text.title # t
    BY <1>0, <1>3 DEF TitlesDated, Dated
  <2>3. TitleSafe' /\ ClosedClean'
    BY <1>1, <1>2 DEF TitleSafe, ClosedClean, SameView
  <2>4. BodySafe' /\ LateBody'
    BY <1>1, <1>2, <2>1 DEF Safe, BodySafe, LateBody, LateMine, BodyKept, Coming, Mine, SameView
  <2>5. InOrder'
    BY <1>1, <1>2, <2>2 DEF InOrder, Coming, Mine, SameView
  <2> QED BY <2>3, <2>4, <2>5 DEF Safe
<1> QED BY <1>4, <1>6, <1>7, <1>8 DEF NoteInv

LEMMA EditBodyInv == ASSUME NoteInv, EditBody PROVE NoteInv'
<1>0. NoteTypes /\ OwnTexts /\ TitlesDated /\ InFlight /\ (Clean => Safe)
  BY DEF NoteInv
<1> DEFINE t == [of |-> pane.note, n |-> acts + 1]
<1>1. /\ pane' \in Panes /\ SameView /\ SameSave /\ pane'.title = pane.title
      /\ pane'.body = t /\ pane'.bodyInitial = pane.bodyInitial
      /\ \/ /\ pane'.bodyTimer = pane.bodyTimer /\ late' \in Lates
            /\ late' = [note |-> pane.note, body |-> pane'.body, saving |-> pane.saving]
         \/ pane'.bodyTimer /\ late' = late
  BY <1>0, EditBodyDoes
<1>2. Act /\ UNCHANGED <<files, loads, puts, mixed, excused>> /\ pane.open /\ ~pane.loading
  BY DEF EditBody, Type, Shown
<1>3. t.of = pane.note /\ pane.note \in Notes /\ acts \in Nat
  BY <1>0, TextsTyped
<1> HIDE DEF t
<1>9. \/ /\ pane'.bodyTimer = pane.bodyTimer /\ late' \in Lates
         /\ late'.note = pane.note /\ late'.body = pane'.body /\ late' # NotSet
      \/ pane'.bodyTimer /\ late' = late
  BY <1>1, <1>3 DEF NotSet
<1>4. NoteTypes'
  BY <1>0, <1>1, <1>2, ActTyped DEF NoteTypes
<1>5. TextsStay
  <2>1. Dated(pane.title)'
    <3>1. Dated(pane.title) /\ pane.title \in Texts
      BY <1>0, TextsTyped DEF TitlesDated
    <3> QED BY <1>0, <1>1, <1>2, <1>3, <3>1, ActTyped, DatedStays DEF Dated, Texts
  <2>2. pane.note \notin mixed => pane.title.of = pane.note /\ pane.bodyInitial.of = pane.note
    BY <1>0, <1>2 DEF OwnTexts, Own, Text
  <2>3. late' = late \/ late'.body.of = late'.note
    BY <1>1, <1>3, <1>9
  <2> QED BY <1>0, <1>1, <1>2, <1>3, <2>1, <2>2, <2>3, ActTyped DEF TextsStay, SameView
<1>6. OwnTexts' /\ TitlesDated'
  BY <1>0, <1>2, <1>5, ActTyped, OwnKept, DatedKept
<1>7. InFlight'
  BY <1>0, <1>1, <1>2 DEF InFlight, SameView, SameSave
<1>8. ASSUME Clean' PROVE Safe'
  <2>1. Safe
    BY <1>0, <1>1, <1>2, <1>8 DEF Clean, SameView
  <2>2. LateMine => LateMine'
    BY <1>1, <1>9 DEF LateMine, SameView
  <2>3. TitleKept => TitleKept'
    BY <1>1, <1>2 DEF TitleKept, Coming, Mine, SameView
  <2>4. TitleSafe'
    BY <1>1, <1>2, <2>1, <2>2, <2>3 DEF Safe, TitleSafe, SameSave
  <2>5. BodySafe' /\ LateBody'
    BY <1>1, <1>9 DEF BodySafe, LateBody, LateMine, SameView
  <2>6. InOrder'
    BY <1>1, <1>2, <2>1 DEF Safe, InOrder, Coming, Mine, SameView, SameSave
  <2>7. ClosedClean'
    BY <1>1, <1>2 DEF ClosedClean, SameView
  <2> QED BY <2>4, <2>5, <2>6, <2>7 DEF Safe
<1> QED BY <1>4, <1>6, <1>7, <1>8 DEF NoteInv

-----------------------------------------------------------------------------
(* Saving *)

\* A save carries a text of the note that is shown, or of the one before while another is loading.
LEMMA PaneTextOwn ==
  ASSUME NoteInv, NEW body \in {pane.body, pane.bodyInitial}
  PROVE  LET text == Document(pane.title, body)
         IN /\ text \in Pairs /\ Dated(text.title) /\ text.body = body
            /\ ~pane.loading /\ pane.note \notin mixed =>
                 Own(text, pane.note) /\ text.title = pane.title
<1>0. NoteTypes /\ OwnTexts /\ TitlesDated
  BY DEF NoteInv
<1> DEFINE text == Document(pane.title, body)
<1>1. pane.title \in Texts /\ body \in Texts
  BY <1>0, TextsTyped
<1>2. text \in Pairs /\ text.body = body /\ text.title = IF pane.title = NoText THEN Untitled ELSE pane.title
  BY <1>1, Documents
<1> HIDE DEF text
<1>3. Dated(text.title)
  BY <1>0, <1>2 DEF TitlesDated, Dated, Untitled
<1>4. ASSUME ~pane.loading, pane.note \notin mixed PROVE Own(text, pane.note) /\ text.title = pane.title
  <2>1. pane.title.of = pane.note /\ body.of = pane.note /\ pane.note \in Notes
    BY <1>0, <1>4, TextsTyped DEF OwnTexts, Own, Text
  <2>2. pane.title # NoText
    BY <2>1 DEF NoText
  <2> QED BY <1>2, <2>1, <2>2 DEF Own
<1> QED BY <1>2, <1>3, <1>4 DEF text

\* A step that sends what is shown and changes no text.
LEMMA SendTexts ==
  ASSUME NoteInv, NEW new \in SUBSET Puts, puts' = puts \cup new, pane' \in Panes,
         SameView, SameText, pane'.bodyInitial = pane.bodyInitial, UNCHANGED <<files, loads>>,
         late' \in {late, NotSet}, mixed \subseteq mixed', mixed' \subseteq Notes,
         excused \subseteq excused', excused' \subseteq Notes,
         acts' \in 0..MaxActs, acts <= acts',
         \A p \in new : Dated(p.text.title) /\ (p.note \notin mixed' => Own(p.text, p.note))
  PROVE  NoteTypes' /\ OwnTexts' /\ TitlesDated'
<1>0. NoteTypes /\ OwnTexts /\ TitlesDated
  BY DEF NoteInv
<1>1. NoteTypes'
  BY <1>0 DEF NoteTypes
<1>2. TextsStay
  <2>1. Dated(pane.title)'
    <3>1. Dated(pane.title) /\ pane.title \in Texts
      BY <1>0, TextsTyped DEF TitlesDated
    <3> QED BY <1>0, <3>1, TextsTyped DEF Dated, Texts, SameText
  <2>2. \A p \in new : p.text \in Pairs
    BY DEF Puts
  <2>3. ~pane.loading /\ pane.note \notin mixed =>
          pane.title.of = pane.note /\ pane.body.of = pane.note /\ pane.bodyInitial.of = pane.note
    BY <1>0 DEF OwnTexts, Own, Text
  <2> QED BY <2>1, <2>2, <2>3 DEF TextsStay, SameView, SameText
<1>3. OwnTexts' /\ TitlesDated'
  <2>1. acts' \in Nat
    OBVIOUS
  <2> QED BY <1>0, <1>2, <2>1, OwnKept, DatedKept
<1> QED BY <1>1, <1>3

LEMMA NoCrossing ==
  ASSUME NEW n, NEW text
  PROVE  /\ Crossing(n, text) \subseteq {n}
         /\ pane.note \notin Crossing(pane.note, text) => \A q \in Coming : q.text = text
BY DEF Crossing, Coming, Mine

LEMMA PaneTextDoes ==
  ASSUME NoteInv
  PROVE  /\ PaneText \in Pairs /\ Dated(PaneText.title)
         /\ ~pane.loading /\ pane.note \notin mixed => Own(PaneText, pane.note) /\ PaneText.title = pane.title
         /\ pane.note \notin StaleText => PaneText.body = pane.body
<1>1. PICK body \in {pane.body, pane.bodyInitial} : PaneText = Document(pane.title, body)
  BY DEF PaneText
<1>2. pane.note \notin StaleText => PaneText.body = pane.body
  BY DEF StaleText, Text
<1> QED BY <1>1, <1>2, PaneTextOwn

LEMMA EditorTextDoes ==
  ASSUME NoteInv
  PROVE  /\ EditorText \in Pairs /\ Dated(EditorText.title) /\ EditorText.body = pane.body
         /\ ~pane.loading /\ pane.note \notin mixed => Own(EditorText, pane.note) /\ EditorText.title = pane.title
BY PaneTextOwn DEF EditorText

LEMMA PutDoes ==
  ASSUME NEW by \in {"pane", "editor", "source"}, NEW note \in Notes, NEW text \in Pairs
  PROVE  LET p == Put(by, note, text)
         IN p \in Puts /\ p.by = by /\ p.note = note /\ p.text = text /\ ~p.written
BY DEF Put, Puts

LEMMA TitleTimerInv == ASSUME NoteInv, TitleTimer PROVE NoteInv'
<1>0. NoteTypes /\ OwnTexts /\ TitlesDated /\ InFlight /\ (Clean => Safe)
  BY DEF NoteInv
<1>1. /\ pane' \in Panes /\ SameView /\ SameText /\ pane'.titleDirty = pane.titleDirty
      /\ pane'.bodyInitial = pane.bodyInitial /\ pane'.bodyTimer = pane.bodyTimer
      /\ pane'.saving /\ (~pane.saving => pane'.titleTimer = pane.titleDirty)
      /\ ~pane.loading
  BY <1>0, TitleTimerDoes
<1>2. UNCHANGED <<files, loads, late, mixed, acts>> /\ pane.note \in Notes
  BY <1>0, TextsTyped DEF TitleTimer
<1>3. PICK new \in SUBSET Puts :
        /\ puts' = puts \cup new /\ excused \subseteq excused' /\ excused' \subseteq Notes
        /\ pane.saving \/ \E p \in new : p.by = "pane"
        /\ \A p \in new :
             /\ ~p.written /\ p.note = pane.note
             /\ Dated(p.text.title) /\ (p.note \notin mixed => Own(p.text, p.note) /\ p.text.title = pane.title)
             /\ p.note \notin excused' => p.text.body = pane.body /\ \A q \in Coming : q.text = p.text
  <2>1. CASE pane.saving
    <3>1. puts' = puts \cup {} /\ excused' = excused
      BY <2>1 DEF TitleTimer
    <3> QED BY <1>0, <2>1, <3>1 DEF NoteTypes
  <2>2. CASE ~pane.saving
    <3> DEFINE p == Put("pane", pane.note, PaneText)
    <3>1. puts' = puts \cup {p} /\ excused' = excused \cup StaleText \cup Crossing(pane.note, PaneText)
      BY <2>2 DEF TitleTimer
    <3>2. p \in Puts /\ p.by = "pane" /\ p.note = pane.note /\ p.text = PaneText /\ ~p.written
      BY <1>2, PaneTextDoes, PutDoes
    <3>3. StaleText \subseteq {pane.note} /\ excused \subseteq Notes
      BY <1>0 DEF StaleText, NoteTypes
    <3> HIDE DEF p
    <3>4. {p} \in SUBSET Puts /\ excused \subseteq excused' /\ excused' \subseteq Notes
      BY <1>2, <3>1, <3>2, <3>3, NoCrossing
    <3>5. /\ ~p.written /\ p.note = pane.note /\ Dated(p.text.title)
          /\ p.note \notin mixed => Own(p.text, p.note) /\ p.text.title = pane.title
      BY <1>1, <3>2, PaneTextDoes
    <3>6. p.note \notin excused' => p.text.body = pane.body /\ \A q \in Coming : q.text = p.text
      BY <3>1, <3>2, PaneTextDoes, NoCrossing
    <3>7. \A s \in {p} :
             /\ ~s.written /\ s.note = pane.note
             /\ Dated(s.text.title) /\ (s.note \notin mixed => Own(s.text, s.note) /\ s.text.title = pane.title)
             /\ s.note \notin excused' => s.text.body = pane.body /\ \A q \in Coming : q.text = s.text
      BY <3>5, <3>6
    <3>8. \E s \in {p} : s.by = "pane"
      BY <3>2
    <3> QED BY <3>1, <3>4, <3>7, <3>8
  <2> QED BY <2>1, <2>2
<1>4. NoteTypes' /\ OwnTexts' /\ TitlesDated'
  <2>1. mixed' \subseteq Notes /\ acts' \in 0..MaxActs /\ acts <= acts'
    BY <1>0, <1>2 DEF NoteTypes
  <2> QED BY <1>1, <1>2, <1>3, <2>1, SendTexts
<1>5. InFlight'
  BY <1>0, <1>1, <1>3 DEF InFlight, SameView
<1>6. ASSUME Clean' PROVE Safe'
  <2>1. Clean /\ Safe /\ pane.note \notin excused'
    BY <1>0, <1>1, <1>2, <1>3, <1>6 DEF Clean, SameView
  <2>2. Sends(new) /\ SameNote /\ \A p \in new : p.text.body = pane.body
    BY <1>1, <1>2, <1>3, <2>1 DEF Sends, SameNote, SameView, Clean
  <2>3. InOrder' /\ (TitleKept => TitleKept') /\ (BodyKept => BodyKept')
    BY <1>1, <2>1, <2>2, SendSafe DEF Safe
  <2>4. (LateMine <=> LateMine') /\ (LateBody => LateBody')
    BY <1>1, <1>2 DEF LateMine, LateBody, SameView, SameText
  <2>5. TitleSafe' /\ BodySafe' /\ ClosedClean'
    BY <1>1, <2>1, <2>3, <2>4 DEF Safe, TitleSafe, BodySafe, ClosedClean, SameView
  <2> QED BY <2>1, <2>3, <2>4, <2>5 DEF Safe
<1> QED BY <1>4, <1>5, <1>6 DEF NoteInv

LEMMA BodyTimerInv == ASSUME NoteInv, BodyTimer PROVE NoteInv'
<1>0. NoteTypes /\ OwnTexts /\ TitlesDated /\ InFlight /\ (Clean => Safe)
  BY DEF NoteInv
<1>1. /\ pane' \in Panes /\ SameView /\ SameText /\ SameSave
      /\ pane'.bodyInitial = pane.bodyInitial /\ ~pane'.bodyTimer
  BY <1>0, BodyTimerDoes
<1>2. UNCHANGED <<files, loads, late, mixed, acts>> /\ pane.note \in Notes /\ late = NotSet /\ ~pane.loading
  BY <1>0, TextsTyped DEF BodyTimer, Shown
<1> DEFINE p == Put("editor", pane.note, EditorText)
<1>3. p \in Puts /\ p.by = "editor" /\ p.note = pane.note /\ p.text = EditorText /\ ~p.written
  BY <1>2, EditorTextDoes, PutDoes
<1>4. \/ puts' = puts \cup {} /\ excused' = excused \cup {pane.note}
      \/ puts' = puts \cup {p} /\ excused' = excused \cup Crossing(pane.note, EditorText)
  <2>1. CASE pane.editorSaving
    BY <2>1 DEF BodyTimer
  <2>2. CASE ~pane.editorSaving
    BY <2>2 DEF BodyTimer
  <2> QED BY <2>1, <2>2
<1> HIDE DEF p
<1>5. excused \subseteq excused' /\ excused' \subseteq Notes
  BY <1>0, <1>2, <1>4, NoCrossing DEF NoteTypes
<1>6. NoteTypes' /\ OwnTexts' /\ TitlesDated'
  <2>1. mixed' \subseteq Notes /\ acts' \in 0..MaxActs /\ acts <= acts'
    BY <1>0, <1>2 DEF NoteTypes
  <2>2. PICK new \in SUBSET Puts : puts' = puts \cup new /\ new \subseteq {p}
    BY <1>3, <1>4
  <2>3. \A q \in new : Dated(q.text.title) /\ (q.note \notin mixed' => Own(q.text, q.note))
    BY <1>2, <1>3, <2>2, EditorTextDoes
  <2> QED BY <1>1, <1>2, <1>5, <2>1, <2>2, <2>3, SendTexts
<1>7. InFlight'
  BY <1>0, <1>1, <1>4 DEF InFlight, SameView, SameSave
<1>8. ASSUME Clean' PROVE Safe'
  <2>1. Clean /\ Safe /\ pane.note \notin excused'
    BY <1>0, <1>1, <1>2, <1>5, <1>8 DEF Clean, SameView
  <2>2. /\ puts' = puts \cup {p} /\ \A q \in Coming : q.text = EditorText
        /\ EditorText.title = pane.title /\ EditorText.body = pane.body
    BY <1>2, <1>4, <2>1, NoCrossing, EditorTextDoes DEF Clean
  <2>3. Sends({p}) /\ SameNote
    BY <1>1, <1>2, <1>3, <2>2 DEF Sends, SameNote, SameView
  <2>4. InOrder' /\ TitleKept' /\ BodyKept'
    <3>1. InOrder'
      BY <1>1, <2>1, <2>3, SendSafe DEF Safe, SameSave
    <3> QED BY <1>3, <2>2, <2>3, <3>1, SendKept
  <2>5. LateBody' /\ ClosedClean'
    BY <1>1, <1>2, <2>1 DEF Safe, LateBody, LateMine, ClosedClean, SameView, SameSave
  <2> QED BY <2>4, <2>5 DEF Safe, TitleSafe, BodySafe
<1> QED BY <1>6, <1>7, <1>8 DEF NoteInv

LEMMA CommandInv == ASSUME NoteInv, Command PROVE NoteInv'
<1>0. NoteTypes /\ OwnTexts /\ TitlesDated /\ InFlight /\ (Clean => Safe)
  BY DEF NoteInv
<1>1. /\ pane' \in Panes /\ SameView /\ SameText /\ pane'.titleDirty = pane.titleDirty
      /\ pane'.bodyInitial = pane.bodyInitial /\ pane'.bodyTimer = pane.bodyTimer /\ pane'.saving
      /\ pane.saving => pane'.titleTimer = pane.titleTimer
      /\ ~pane.saving => pane'.titleTimer = (pane.titleDirty /\ ~pane.loading)
  BY <1>0, CommandDoes
<1>2. UNCHANGED <<files, loads, late>> /\ pane.note \in Notes /\ Act
  BY <1>0, TextsTyped DEF Command
<1> DEFINE P == Put("pane", pane.note, PaneText)
           E == Put("editor", pane.note, EditorText)
           editor == Shown /\ ~pane.source /\ ~pane.editorSaving
           new == {p \in {P} : ~pane.saving} \cup {p \in {E} : editor}
<1>3. /\ P \in Puts /\ P.by = "pane" /\ P.note = pane.note /\ P.text = PaneText /\ ~P.written
      /\ E \in Puts /\ E.by = "editor" /\ E.note = pane.note /\ E.text = EditorText /\ ~E.written
  BY <1>2, PaneTextDoes, EditorTextDoes, PutDoes
<1>4. /\ puts' = puts \cup new /\ mixed' = mixed \cup OtherText
      /\ excused' = excused \cup Crossing(pane.note, PaneText) \cup StaleText
  BY DEF Command
<1>5. editor => ~pane.loading /\ EditorText = PaneText
  BY DEF Shown, EditorText, PaneText
<1> HIDE DEF P, E, editor
<1>6. /\ new \in SUBSET Puts
      /\ pane.saving \/ \E p \in new : p.by = "pane"
      /\ \A p \in new : /\ ~p.written /\ p.note = pane.note /\ Dated(p.text.title) /\ p.text = PaneText
                        /\ p.note \notin mixed' => Own(p.text, p.note)
  <2>1. pane.loading => pane.note \in mixed'
    BY <1>4 DEF OtherText
  <2>2. mixed \subseteq mixed'
    BY <1>4
  <2> QED BY <1>3, <1>5, <2>1, <2>2, PaneTextDoes
<1> HIDE DEF new
<1>7. /\ mixed \subseteq mixed' /\ mixed' \subseteq Notes /\ excused \subseteq excused' /\ excused' \subseteq Notes
  BY <1>0, <1>2, <1>4, NoCrossing DEF NoteTypes, OtherText, StaleText
<1>8. NoteTypes' /\ OwnTexts' /\ TitlesDated'
  BY <1>0, <1>1, <1>2, <1>4, <1>6, <1>7, ActTyped, SendTexts
<1>9. InFlight'
  BY <1>0, <1>1, <1>4, <1>6 DEF InFlight, SameView
<1>10. ASSUME Clean' PROVE Safe'
  <2>1. Clean /\ Safe /\ pane.note \notin excused'
    BY <1>0, <1>1, <1>7, <1>10 DEF Clean, SameView
  <2>2. PaneText.title = pane.title /\ PaneText.body = pane.body /\ \A q \in Coming : q.text = PaneText
    BY <1>4, <2>1, PaneTextDoes, NoCrossing DEF Clean
  <2>3. Sends(new) /\ SameNote /\ \A p \in new : p.text.body = pane.body
    BY <1>1, <1>2, <1>4, <1>6, <2>2 DEF Sends, SameNote, SameView
  <2>4. InOrder' /\ (TitleKept => TitleKept') /\ (BodyKept => BodyKept')
    BY <1>1, <2>1, <2>3, SendSafe DEF Safe
  <2>5. (LateMine <=> LateMine') /\ (LateBody => LateBody')
    BY <1>1, <1>2 DEF LateMine, LateBody, SameView, SameText
  <2>6. TitleSafe' /\ BodySafe' /\ ClosedClean'
    BY <1>1, <2>1, <2>4, <2>5 DEF Safe, TitleSafe, BodySafe, ClosedClean, SameView
  <2> QED BY <2>1, <2>4, <2>5, <2>6 DEF Safe
<1> QED BY <1>8, <1>9, <1>10 DEF NoteInv

\* The timer of the source view sends its own body with the title of the pane.
LEMMA LateTextDoes ==
  ASSUME NoteInv, late # NotSet
  PROVE  LET text == Document(pane.title, late.body)
         IN /\ late.note \in Notes /\ text \in Pairs /\ Dated(text.title) /\ text.body = late.body
            /\ ~pane.loading /\ late.note = pane.note /\ pane.note \notin mixed =>
                 Own(text, pane.note) /\ text.title = pane.title
<1>0. NoteTypes /\ OwnTexts /\ TitlesDated
  BY DEF NoteInv
<1> DEFINE text == Document(pane.title, late.body)
<1>1. pane.title \in Texts /\ late.note \in Notes /\ late.body \in Texts
  <2>1. late \in Lates
    BY <1>0 DEF NoteTypes
  <2> QED BY <1>0, <2>1, TextsTyped DEF Lates
<1>2. text \in Pairs /\ text.body = late.body /\ text.title = IF pane.title = NoText THEN Untitled ELSE pane.title
  BY <1>1, Documents
<1> HIDE DEF text
<1>3. Dated(text.title)
  BY <1>0, <1>2 DEF TitlesDated, Dated, Untitled
<1>4. ASSUME ~pane.loading, late.note = pane.note, pane.note \notin mixed
      PROVE  Own(text, pane.note) /\ text.title = pane.title
  <2>1. pane.title.of = pane.note /\ late.body.of = pane.note
    BY <1>0, <1>4 DEF OwnTexts, Own, Text
  <2>2. pane.title # NoText
    BY <1>1, <1>4, <2>1 DEF NoText
  <2> QED BY <1>2, <2>1, <2>2 DEF Own
<1> QED BY <1>1, <1>2, <1>3, <1>4 DEF text

LEMMA LateTimerInv == ASSUME NoteInv, LateTimer PROVE NoteInv'
<1>0. NoteTypes /\ OwnTexts /\ TitlesDated /\ InFlight /\ (Clean => Safe)
  BY DEF NoteInv
<1>1. /\ pane' \in Panes /\ SameView /\ SameText /\ pane'.titleDirty = pane.titleDirty
      /\ pane'.bodyInitial = pane.bodyInitial /\ pane'.bodyTimer = pane.bodyTimer
      /\ SameSave \/ pane'.saving
  BY <1>0, LateTimerDoes
<1>2. UNCHANGED <<files, loads, acts>> /\ late # NotSet /\ late' = NotSet /\ pane.note \in Notes
  BY <1>0, TextsTyped DEF LateTimer
<1>10. acts' \in 0..MaxActs /\ acts <= acts' /\ mixed \subseteq Notes /\ excused \subseteq Notes
  BY <1>0, <1>2 DEF NoteTypes
<1>3. CASE late.saving
  <2>1. pane' = pane /\ mixed' = mixed /\ puts' = puts \cup {} /\ excused' = excused \cup {late.note}
    BY <1>3 DEF LateTimer
  <2>2. late.note \in Notes
    BY <1>2, LateTextDoes
  <2>3. NoteTypes' /\ OwnTexts' /\ TitlesDated'
    BY <1>1, <1>2, <1>10, <2>1, <2>2, SendTexts
  <2>4. InFlight'
    BY <1>0, <2>1 DEF InFlight
  <2>5. ASSUME Clean' PROVE Safe'
    <3>1. Safe /\ ~LateMine /\ ~LateMine'
      BY <1>0, <1>2, <2>1, <2>5 DEF Clean, LateMine
    <3> QED BY <1>2, <2>1, <3>1
            DEF Safe, TitleSafe, BodySafe, LateBody, InOrder, ClosedClean, TitleKept, BodyKept, Coming, Mine
  <2> QED BY <2>3, <2>4, <2>5 DEF NoteInv
<1>4. CASE ~late.saving
  <2> DEFINE text == Document(pane.title, late.body)
             p == Put("source", late.note, text)
  <2>1. /\ late.note \in Notes /\ text \in Pairs /\ Dated(text.title) /\ text.body = late.body
        /\ ~pane.loading /\ late.note = pane.note /\ pane.note \notin mixed =>
             Own(text, pane.note) /\ text.title = pane.title
    BY <1>2, LateTextDoes
  <2>2. /\ puts' = puts \cup {p} /\ excused' = excused \cup Crossing(late.note, text)
        /\ mixed' = mixed \cup {n \in {late.note} : pane.note # n \/ pane.loading}
    BY <1>4 DEF LateTimer
  <2>3. p \in Puts /\ p.by = "source" /\ p.note = late.note /\ p.text = text /\ ~p.written
    BY <2>1, PutDoes
  <2> HIDE DEF text, p
  <2>4. /\ mixed \subseteq mixed' /\ mixed' \subseteq Notes /\ excused \subseteq excused' /\ excused' \subseteq Notes
        /\ late.note \notin mixed' => ~pane.loading /\ late.note = pane.note /\ pane.note \notin mixed
    BY <1>10, <2>1, <2>2, NoCrossing
  <2>5. NoteTypes' /\ OwnTexts' /\ TitlesDated'
    <3>1. \A q \in {p} : Dated(q.text.title) /\ (q.note \notin mixed' => Own(q.text, q.note))
      BY <2>1, <2>3, <2>4
    <3>2. {p} \in SUBSET Puts
      BY <2>3
    <3> QED BY <1>1, <1>2, <1>10, <2>2, <2>4, <3>1, <3>2, SendTexts
  <2>6. InFlight'
    BY <1>0, <1>1, <2>2, <2>3 DEF InFlight, SameView
  <2>7. ASSUME Clean' PROVE Safe'
    <3>1. Clean /\ Safe /\ pane.note \notin excused' /\ pane.note \notin mixed /\ ~pane.loading
      BY <1>0, <1>1, <2>4, <2>7 DEF Clean, SameView
    <3>2. late.note = pane.note => text.title = pane.title /\ \A q \in Coming : q.text = text
      BY <2>1, <2>2, <3>1, NoCrossing
    <3>3. Sends({p}) /\ SameNote
      BY <1>1, <1>2, <2>2, <2>3, <3>2 DEF Sends, SameNote, SameView
    <3>4. InOrder' /\ (TitleKept => TitleKept')
      BY <1>1, <3>1, <3>3, SendSafe DEF Safe
    <3>5. TitleSafe' /\ BodySafe'
      <4>1. CASE late.note = pane.note
        <5>1. TitleKept' /\ (late.body = pane.body => BodyKept')
          BY <2>1, <2>3, <3>3, <4>1, SendKept
        <5>2. late.body = pane.body \/ pane.bodyTimer
          BY <1>2, <3>1, <4>1 DEF Safe, LateBody, LateMine
        <5> QED BY <1>1, <5>1, <5>2 DEF TitleSafe, BodySafe
      <4>2. CASE late.note # pane.note
        <5>1. ~LateMine
          BY <4>2 DEF LateMine
        <5>2. BodyKept => BodyKept'
          BY <1>1, <2>3, <3>1, <3>3, <4>2, SendSafe DEF Safe
        <5> QED BY <1>1, <3>1, <3>4, <5>1, <5>2 DEF Safe, TitleSafe, BodySafe, SameSave
      <4> QED BY <4>1, <4>2
    <3>6. LateBody' /\ ClosedClean'
      BY <1>1, <1>2, <3>1 DEF LateBody, LateMine, Safe, ClosedClean, SameView
    <3> QED BY <3>4, <3>5, <3>6 DEF Safe
  <2> QED BY <2>5, <2>6, <2>7 DEF NoteInv
<1> QED BY <1>3, <1>4

LEMMA PutInv == ASSUME NoteInv, NEW p \in puts, Write(p) PROVE NoteInv'
<1>0. NoteTypes /\ OwnTexts /\ TitlesDated /\ InFlight /\ (Clean => Safe)
  BY DEF NoteInv
<1> DEFINE w == [p EXCEPT !.written = TRUE]
<1>1. /\ p \in Puts /\ puts' = (puts \ {p}) \cup {w} /\ files' = [files EXCEPT ![p.note] = p.text]
      /\ UNCHANGED <<pane, loads, late, mixed, excused, acts>>
  BY <1>0 DEF NoteTypes, Write
<1>2. w \in Puts /\ w.note = p.note /\ w.text = p.text /\ w.by = p.by
  BY <1>1 DEF Puts
<1>3. files \in [Notes -> Pairs] /\ p.note \in Notes /\ p.text \in Pairs /\ acts' \in Nat /\ acts \in Nat
  BY <1>0, <1>1, TextsTyped DEF NoteTypes
<1> HIDE DEF w
<1>4. NoteTypes'
  <2>1. files' \in [Notes -> Pairs]
    BY <1>1, <1>3
  <2>2. puts' \subseteq Puts
    BY <1>0, <1>1, <1>2 DEF NoteTypes
  <2> QED BY <1>0, <1>1, <2>1, <2>2 DEF NoteTypes
<1>5. TextsStay
  <2>1. \A n \in Notes : files'[n] = files[n] \/ \E q \in puts : q.note = n /\ files'[n] = q.text
    BY <1>1, <1>3
  <2>2. \A x \in puts' : \E q \in puts : q.note = x.note /\ q.text = x.text
    BY <1>1, <1>2
  <2>3. Dated(pane.title)'
    BY <1>0, <1>1 DEF TitlesDated, Dated
  <2>4. ~pane.loading /\ pane.note \notin mixed =>
          pane.title.of = pane.note /\ pane.body.of = pane.note /\ pane.bodyInitial.of = pane.note
    BY <1>0 DEF OwnTexts, Own, Text
  <2> QED BY <1>1, <1>3, <2>1, <2>2, <2>3, <2>4 DEF TextsStay
<1>6. OwnTexts' /\ TitlesDated'
  BY <1>0, <1>3, <1>5, OwnKept, DatedKept
<1>7. InFlight'
  BY <1>0, <1>1, <1>2 DEF InFlight
<1>8. ASSUME Clean' PROVE Safe'
  <2>1. Safe
    BY <1>0, <1>1, <1>8 DEF Clean
  <2>2. InOrder' /\ (TitleKept => TitleKept') /\ (BodyKept => BodyKept')
    BY <1>0, <2>1, WriteSafe DEF Safe
  <2> QED BY <1>1, <2>1, <2>2 DEF Safe, TitleSafe, BodySafe, LateBody, LateMine, ClosedClean
<1> QED BY <1>4, <1>6, <1>7, <1>8 DEF NoteInv

\* The answer to a save changes no text.
LEMMA AnswerTexts ==
  ASSUME NoteInv, NEW p \in puts, puts' = puts \ {p}, pane' \in Panes, SameView, SameText,
         UNCHANGED <<files, loads, late>>, mixed \subseteq mixed', mixed' \subseteq Notes,
         excused' \subseteq Notes, acts' \in 0..MaxActs, acts <= acts',
         ~pane.loading /\ pane.note \notin mixed' => pane'.bodyInitial.of = pane.note
  PROVE  NoteTypes' /\ OwnTexts' /\ TitlesDated'
<1>0. NoteTypes /\ OwnTexts /\ TitlesDated
  BY DEF NoteInv
<1>1. NoteTypes'
  BY <1>0 DEF NoteTypes
<1>2. TextsStay
  <2>1. Dated(pane.title)'
    <3>1. Dated(pane.title) /\ pane.title \in Texts
      BY <1>0, TextsTyped DEF TitlesDated
    <3> QED BY <1>0, <3>1, TextsTyped DEF Dated, Texts, SameText
  <2>2. ~pane.loading /\ pane.note \notin mixed =>
          pane.title.of = pane.note /\ pane.body.of = pane.note
    BY <1>0 DEF OwnTexts, Own, Text
  <2> QED BY <2>1, <2>2 DEF TextsStay, SameView, SameText
<1>3. OwnTexts' /\ TitlesDated'
  <2>1. acts' \in Nat
    OBVIOUS
  <2> QED BY <1>0, <1>2, <2>1, OwnKept, DatedKept
<1> QED BY <1>1, <1>3

\* The pane after an answer that is not for it.
LEMMA NotForPane ==
  ASSUME NoteTypes, pane' = pane \/ pane' = [pane EXCEPT !.editorSaving = FALSE]
  PROVE  /\ pane' \in Panes /\ SameView /\ SameText /\ SameSave
         /\ pane'.bodyInitial = pane.bodyInitial /\ pane'.bodyTimer = pane.bodyTimer
<1>1. CASE pane' = pane
  BY <1>1 DEF NoteTypes, SameView, SameText, SameSave
<1> QED BY <1>1, EditorAnswered

LEMMA SavedInv == ASSUME NoteInv, NEW p \in puts, Saved(p) PROVE NoteInv'
<1>0. NoteTypes /\ OwnTexts /\ TitlesDated /\ InFlight /\ (Clean => Safe)
  BY DEF NoteInv
<1>1. /\ p.written /\ puts' = puts \ {p} /\ UNCHANGED <<files, loads, late, acts>>
      /\ excused \subseteq excused' /\ mixed \subseteq mixed'
      /\ p.by \in {"pane", "source"} /\ pane.titleDirty /\ p.text.title # pane.title => pane.note \in excused'
      /\ p.by = "source" /\ p.note # pane.note => pane.note \in mixed'
  BY DEF Saved
<1>2. mixed' \subseteq Notes /\ excused' \subseteq Notes /\ acts' \in 0..MaxActs /\ acts <= acts'
  <2>1. mixed' \subseteq mixed \cup {pane.note} /\ excused' \subseteq excused \cup {pane.note}
    BY DEF Saved
  <2> QED BY <1>0, <1>1, <2>1, TextsTyped DEF NoteTypes
<1>3. p.text \in Pairs /\ p.text.body \in Texts /\ pane.bodyInitial \in Texts /\ p.by \in {"pane", "editor", "source", "orphan"}
  BY <1>0, TextsTyped
<1>4. LateMine' = LateMine \/ ~SameView
  BY <1>1 DEF LateMine, SameView
<1>5. CASE p.by \in {"orphan", "editor"} \/ ~pane.open
  <2>1. pane' = pane \/ pane' = [pane EXCEPT !.editorSaving = FALSE]
    <3>1. CASE p.by = "orphan" \/ ~pane.open
      BY <3>1 DEF Saved
    <3>2. CASE p.by = "editor" /\ pane.open
      BY <3>2 DEF Saved
    <3> QED BY <1>5, <3>1, <3>2
  <2>2. /\ pane' \in Panes /\ SameView /\ SameText /\ SameSave
        /\ pane'.bodyInitial = pane.bodyInitial /\ pane'.bodyTimer = pane.bodyTimer
    BY <1>0, <2>1, NotForPane
  <2>3. NoteTypes' /\ OwnTexts' /\ TitlesDated'
    <3>1. ~pane.loading /\ pane.note \notin mixed' => pane'.bodyInitial.of = pane.note
      BY <1>0, <1>1, <2>2 DEF OwnTexts
    <3> QED BY <1>1, <1>2, <2>2, <3>1, AnswerTexts
  <2>4. InFlight'
    BY <1>0, <1>1, <1>5, <2>2 DEF InFlight, SameView, SameSave
  <2>5. ASSUME Clean' PROVE Safe'
    <3>1. Safe
      BY <1>0, <1>1, <2>2, <2>5 DEF Clean, SameView
    <3>2. SameNote /\ (pane'.titleDirty => pane.titleDirty)
      BY <1>1, <2>2 DEF SameNote, SameView, SameSave
    <3>3. InOrder' /\ (TitleKept => TitleKept') /\ (BodyKept => BodyKept')
      BY <1>1, <3>1, <3>2, LessSafe DEF Safe
    <3> QED BY <1>1, <2>2, <3>1, <3>3
            DEF Safe, TitleSafe, BodySafe, LateBody, LateMine, ClosedClean, SameView, SameText, SameSave
  <2> QED BY <2>3, <2>4, <2>5 DEF NoteInv
<1>6. CASE p.by \in {"pane", "source"} /\ pane.open
  <2>1. PICK body \in Texts : /\ pane' = Answered(TRUE, body)
                              /\ body = pane.bodyInitial \/ (p.by = "source" /\ body = p.text.body)
    <3>1. CASE p.by = "pane"
      <4>1. pane' = Answered(TRUE, pane.bodyInitial)
        BY <1>6, <3>1 DEF Saved
      <4> QED BY <1>3, <4>1
    <3>2. CASE p.by = "source"
      <4>1. pane' = Answered(TRUE, p.text.body)
        BY <1>6, <3>2 DEF Saved
      <4> QED BY <1>3, <3>2, <4>1
    <3> QED BY <1>6, <3>1, <3>2
  <2>2. /\ pane' \in Panes /\ SameView /\ SameText /\ ~pane'.saving /\ ~pane'.titleDirty
        /\ pane'.bodyInitial = body /\ pane'.bodyTimer = pane.bodyTimer
    <3>1. PICK ok \in BOOLEAN : ok /\ pane' = Answered(ok, body)
      BY <2>1
    <3>2. /\ pane' \in Panes /\ SameView /\ SameText /\ ~pane'.saving
          /\ pane'.bodyInitial = body /\ pane'.bodyTimer = pane.bodyTimer
          /\ pane'.titleDirty = (pane.titleDirty /\ ~ok)
      BY <1>0, <3>1, AnsweredDoes
    <3> QED BY <3>1, <3>2
  <2>3. NoteTypes' /\ OwnTexts' /\ TitlesDated'
    <3>1. ASSUME ~pane.loading, pane.note \notin mixed' PROVE pane'.bodyInitial.of = pane.note
      <4>1. pane.note \notin mixed /\ pane.bodyInitial.of = pane.note
        BY <1>0, <1>1, <3>1 DEF OwnTexts
      <4>2. p.by = "source" => p.note = pane.note /\ p.text.body.of = pane.note
        BY <1>0, <1>1, <3>1, <4>1 DEF OwnTexts, Own
      <4> QED BY <2>1, <2>2, <4>1, <4>2
    <3> QED BY <1>1, <1>2, <2>2, <3>1, AnswerTexts
  <2>4. InFlight'
    BY <1>0, <2>2 DEF InFlight, SameView
  <2>5. ASSUME Clean' PROVE Safe'
    <3>1. Clean /\ Safe /\ pane.note \notin excused' /\ pane.note \notin mixed'
      BY <1>0, <1>1, <2>2, <2>5 DEF Clean, SameView
    <3>2. SameNote /\ (pane'.titleDirty => pane.titleDirty)
      BY <1>1, <2>2 DEF SameNote, SameView
    <3>3. InOrder' /\ (TitleKept => TitleKept') /\ (BodyKept => BodyKept')
      BY <1>1, <3>1, <3>2, LessSafe DEF Safe
    <3>4. pane.titleDirty => TitleKept
      <4> SUFFICES ASSUME pane.titleDirty PROVE TitleKept
        OBVIOUS
      <4>1. p.text.title = pane.title
        BY <1>1, <1>6, <3>1
      <4>2. p \in Mine
        BY <1>1, <1>6, <3>1, <4>1 DEF Safe, InOrder, Mine
      <4>3. files[pane.note].title = pane.title
        BY <1>1, <3>1, <4>1, <4>2 DEF Safe, InOrder
      <4>4. \A q \in Coming : q.text.title = pane.title
        BY <3>1, <4>1, <4>2 DEF Safe, InOrder
      <4> QED BY <4>3, <4>4 DEF TitleKept
    <3>5. TitleSafe'
      BY <1>4, <2>2, <3>1, <3>3, <3>4 DEF Safe, TitleSafe
    <3>6. BodySafe' /\ LateBody' /\ ClosedClean'
      BY <1>1, <2>2, <3>1, <3>3 DEF Safe, BodySafe, LateBody, LateMine, ClosedClean, SameView, SameText
    <3> QED BY <3>3, <3>5, <3>6 DEF Safe
  <2> QED BY <2>3, <2>4, <2>5 DEF NoteInv
<1> QED BY <1>3, <1>5, <1>6

LEMMA RefusedInv == ASSUME NoteInv, NEW p \in puts, Refused(p) PROVE NoteInv'
<1>0. NoteTypes /\ OwnTexts /\ TitlesDated /\ InFlight /\ (Clean => Safe)
  BY DEF NoteInv
<1>1. /\ Act /\ puts' = puts \ {p} /\ UNCHANGED <<files, loads, late, mixed>>
      /\ excused' = excused \cup {n \in {p.note} : p.by # "pane" \/ ~pane.open}
  BY DEF Refused
<1>2. mixed' \subseteq Notes /\ excused' \subseteq Notes /\ acts' \in 0..MaxActs /\ acts <= acts'
  BY <1>0, <1>1, ActTyped, TextsTyped DEF NoteTypes
<1>3. pane.bodyInitial \in Texts /\ p.by \in {"pane", "editor", "source", "orphan"}
  BY <1>0, TextsTyped
<1>4. /\ pane' \in Panes /\ SameView /\ SameText /\ pane'.titleDirty = pane.titleDirty
      /\ pane'.bodyInitial = pane.bodyInitial /\ pane'.bodyTimer = pane.bodyTimer
      /\ SameSave \/ (~pane'.saving /\ (pane.saving => pane'.titleTimer = (pane.titleDirty /\ ~pane.loading))
                      /\ (~pane.saving => pane'.titleTimer = pane.titleTimer))
      /\ SameSave => p.by \notin {"pane", "source"} \/ ~pane.open \/ ~pane'.saving
  <2>1. CASE p.by \in {"orphan", "editor"} \/ ~pane.open
    <3>1. pane' = pane \/ pane' = [pane EXCEPT !.editorSaving = FALSE]
      <4>1. CASE p.by = "orphan" \/ ~pane.open
        BY <4>1 DEF Refused
      <4>2. CASE p.by = "editor" /\ pane.open
        BY <4>2 DEF Refused
      <4> QED BY <2>1, <4>1, <4>2
    <3>2. /\ pane' \in Panes /\ SameView /\ SameText /\ SameSave
          /\ pane'.bodyInitial = pane.bodyInitial /\ pane'.bodyTimer = pane.bodyTimer
      BY <1>0, <3>1, NotForPane
    <3> QED BY <2>1, <3>2 DEF SameSave
  <2>2. CASE p.by \in {"pane", "source"} /\ pane.open
    <3>1. pane' = Answered(FALSE, pane.bodyInitial)
      BY <2>2 DEF Refused
    <3>2. PICK ok \in BOOLEAN : ~ok /\ pane' = Answered(ok, pane.bodyInitial)
      BY <3>1
    <3>3. /\ pane' \in Panes /\ SameView /\ SameText /\ ~pane'.saving
          /\ pane'.bodyInitial = pane.bodyInitial /\ pane'.bodyTimer = pane.bodyTimer
          /\ pane'.titleDirty = (pane.titleDirty /\ ~ok)
          /\ pane.saving => pane'.titleTimer = ((pane.titleDirty /\ ~ok) /\ ~pane.loading)
          /\ ~pane.saving => pane'.titleTimer = pane.titleTimer
      BY <1>0, <1>3, <3>2, AnsweredDoes
    <3>4. pane \in Panes
      BY <1>0 DEF NoteTypes
    <3>5. pane.titleDirty \in BOOLEAN
      BY <3>4 DEF Panes
    <3>6. /\ pane'.titleDirty = pane.titleDirty
          /\ pane.saving => pane'.titleTimer = (pane.titleDirty /\ ~pane.loading)
      BY <3>2, <3>3, <3>5
    <3> QED BY <3>3, <3>6
  <2> QED BY <1>3, <2>1, <2>2
<1>5. NoteTypes' /\ OwnTexts' /\ TitlesDated'
  <2>1. ~pane.loading /\ pane.note \notin mixed' => pane'.bodyInitial.of = pane.note
    BY <1>0, <1>1, <1>4 DEF OwnTexts
  <2> QED BY <1>1, <1>2, <1>4, <2>1, AnswerTexts
<1>6. InFlight'
  BY <1>0, <1>1, <1>4 DEF InFlight, SameView, SameSave
<1>7. ASSUME Clean' PROVE Safe'
  <2>1. Clean /\ Safe /\ pane.note \notin excused' /\ ~pane.loading
    BY <1>0, <1>1, <1>4, <1>7 DEF Clean, SameView
  <2>2. p.note # pane.note \/ p.by = "pane"
    BY <1>1, <2>1
  <2>3. SameNote
    BY <1>1, <1>4 DEF SameNote, SameView
  <2>4. InOrder' /\ (TitleKept => TitleKept') /\ (BodyKept => BodyKept')
    BY <1>1, <1>4, <2>1, <2>2, <2>3, LessSafe DEF Safe
  <2>5. TitleSafe'
    BY <1>1, <1>4, <2>1, <2>4 DEF Safe, TitleSafe, LateMine, SameView, SameSave
  <2>6. BodySafe' /\ LateBody' /\ ClosedClean'
    BY <1>1, <1>4, <2>1, <2>4 DEF Safe, BodySafe, LateBody, LateMine, ClosedClean, SameView, SameText
  <2> QED BY <2>4, <2>5, <2>6 DEF Safe
<1> QED BY <1>5, <1>6, <1>7 DEF NoteInv

\* What the saves are after the editor has gone.
LEMMA UnmountTexts ==
  ASSUME NoteTypes, puts' = Unmounted
  PROVE  /\ puts' \subseteq Puts
         /\ \A p \in puts' : \E q \in puts : q.note = p.note /\ q.text = p.text
         /\ (\E p \in puts : p.by \in {"pane", "source"}) => \E p \in puts' : p.by \in {"pane", "source"}
BY UnmountDoes

LEMMA OpenInv == ASSUME NoteInv, NEW n \in Notes, OpenNote(n) PROVE NoteInv'
<1>0. NoteTypes /\ OwnTexts /\ TitlesDated /\ InFlight
  BY DEF NoteInv
<1> DEFINE l == [id |-> acts', note |-> n, text |-> NotRead]
<1>1. /\ pane' \in Panes /\ pane'.note = n /\ pane'.loading /\ pane'.open
      /\ pane'.title = pane.title /\ pane'.saving = pane.saving
  BY <1>0, OpenDoes
<1>2. /\ pane.open /\ Act /\ puts' = Unmounted /\ loads' = loads \cup {l}
      /\ UNCHANGED <<files, late, mixed, excused>>
  BY DEF OpenNote
<1>3. acts' \in 0..MaxActs /\ acts <= acts' /\ acts' \in Nat
  BY <1>0, <1>2, ActTyped
<1>4. l \in Loads /\ l.text = NotRead
  BY <1>3 DEF Loads
<1> HIDE DEF l
<1>5. NoteTypes'
  <2>1. puts' \subseteq Puts
    BY <1>0, <1>2, UnmountTexts
  <2>2. loads' \subseteq Loads
    BY <1>0, <1>2, <1>4 DEF NoteTypes
  <2> QED BY <1>0, <1>1, <1>2, <1>3, <2>1, <2>2 DEF NoteTypes
<1>6. TextsStay
  <2>1. Dated(pane.title)'
    <3>1. Dated(pane.title) /\ pane.title \in Texts /\ acts \in Nat
      BY <1>0, TextsTyped DEF TitlesDated
    <3> QED BY <1>1, <1>3, <3>1 DEF Dated, Texts
  <2>2. \A p \in puts' : \E q \in puts : q.note = p.note /\ q.text = p.text
    BY <1>0, <1>2, UnmountTexts
  <2> QED BY <1>1, <1>2, <1>3, <1>4, <2>1, <2>2 DEF TextsStay
<1>7. OwnTexts' /\ TitlesDated'
  BY <1>0, <1>3, <1>6, OwnKept, DatedKept
<1>8. InFlight'
  BY <1>0, <1>1, <1>2, UnmountTexts DEF InFlight
<1>9. ~Clean'
  BY <1>1 DEF Clean
<1> QED BY <1>5, <1>7, <1>8, <1>9 DEF NoteInv

LEMMA ReadInv == ASSUME NoteInv, NEW l \in loads, Read(l) PROVE NoteInv'
<1>0. NoteTypes /\ OwnTexts /\ TitlesDated /\ InFlight /\ (Clean => Safe)
  BY DEF NoteInv
<1> DEFINE r == [l EXCEPT !.text = files[l.note]]
<1>1. /\ l \in Loads /\ loads' = (loads \ {l}) \cup {r}
      /\ UNCHANGED <<files, pane, puts, late, mixed, excused, acts>>
  BY <1>0 DEF NoteTypes, Read
<1>2. l.note \in Notes /\ files[l.note] \in Pairs /\ acts \in Nat
  BY <1>0, TextsTyped
<1>3. r \in Loads /\ r.note = l.note /\ r.text = files[l.note]
  BY <1>1, <1>2 DEF Loads
<1> HIDE DEF r
<1>4. NoteTypes'
  <2>1. loads' \subseteq Loads
    BY <1>0, <1>1, <1>3 DEF NoteTypes
  <2> QED BY <1>0, <1>1, <2>1 DEF NoteTypes
<1>5. TextsStay
  <2>1. Dated(pane.title)'
    BY <1>0, <1>1 DEF TitlesDated, Dated
  <2>2. ~pane.loading /\ pane.note \notin mixed =>
          pane.title.of = pane.note /\ pane.body.of = pane.note /\ pane.bodyInitial.of = pane.note
    BY <1>0 DEF OwnTexts, Own, Text
  <2> QED BY <1>1, <1>2, <1>3, <2>1, <2>2 DEF TextsStay
<1>6. OwnTexts' /\ TitlesDated'
  BY <1>0, <1>1, <1>2, <1>5, OwnKept, DatedKept
<1>7. InFlight' /\ (Clean' => Safe')
  BY <1>0, <1>1 DEF InFlight, Clean, Safe, TitleSafe, BodySafe, LateBody, LateMine, InOrder, ClosedClean,
                    TitleKept, BodyKept, Coming, Mine
<1> QED BY <1>4, <1>6, <1>7 DEF NoteInv

LEMMA LoadedInv == ASSUME NoteInv, NEW l \in loads, Loaded(l) PROVE NoteInv'
<1>0. NoteTypes /\ OwnTexts /\ TitlesDated /\ InFlight
  BY DEF NoteInv
<1>1. /\ pane' \in Panes /\ pane'.note = pane.note /\ pane'.open = pane.open
      /\ pane'.saving = pane.saving /\ l.text \in Pairs /\ l.note \in Notes
      /\ ~pane.open => pane' = pane
      /\ pane.open => /\ ~pane'.loading /\ pane'.title = l.text.title /\ ~pane'.titleDirty
                      /\ pane'.bodyInitial = l.text.body
                      /\ pane.loading \/ pane'.body # pane.body => pane'.body = l.text.body
  BY <1>0, LoadedDoes
<1>2. /\ l.text # NotRead /\ loads' = loads \ {l} /\ UNCHANGED <<files, puts, late, acts>>
      /\ mixed' = mixed \cup {n \in {pane.note} : l.note # n}
  BY DEF Loaded
<1> DEFINE behind == files[l.note] # l.text \/ late.note = l.note \/ \E p \in puts : p.note = l.note
<1>3. excused' = IF l.note # pane.note THEN excused
                 ELSE IF pane.loading /\ ~behind THEN excused \ {l.note} ELSE excused \cup {l.note}
  BY DEF Loaded
<1> HIDE DEF behind
<1>4. NoteTypes'
  <2>1. mixed' \subseteq Notes
    BY <1>0, <1>2, TextsTyped DEF NoteTypes
  <2>2. excused' \subseteq Notes
    BY <1>0, <1>1, <1>3 DEF NoteTypes
  <2> QED BY <1>0, <1>1, <1>2, <2>1, <2>2 DEF NoteTypes
<1>5. acts' \in Nat /\ acts <= acts'
  BY <1>0, <1>2, TextsTyped
<1>6. TextsStay
  <2>1. Dated(pane.title)'
    <3>1. Dated(pane.title) /\ Dated(l.text.title)
      BY <1>0 DEF TitlesDated
    <3> QED BY <1>1, <1>2, <3>1 DEF Dated
  <2>2. ASSUME ~pane'.loading, pane'.note \notin mixed'
        PROVE  pane'.title.of = pane'.note /\ pane'.body.of = pane'.note /\ pane'.bodyInitial.of = pane'.note
    <3>1. l.note = pane.note /\ pane.note \notin mixed
      BY <1>1, <1>2, <2>2
    <3>2. l.text.title.of = pane.note /\ l.text.body.of = pane.note
      BY <1>0, <1>2, <3>1 DEF OwnTexts, Own
    <3>3. ~pane.loading => pane.title.of = pane.note /\ pane.body.of = pane.note /\ pane.bodyInitial.of = pane.note
      BY <1>0, <3>1 DEF OwnTexts, Own, Text
    <3> QED BY <1>1, <2>2, <3>2, <3>3
  <2> QED BY <1>2, <1>5, <2>1, <2>2 DEF TextsStay
<1>7. OwnTexts' /\ TitlesDated'
  BY <1>0, <1>5, <1>6, OwnKept, DatedKept
<1>8. InFlight'
  BY <1>0, <1>1, <1>2 DEF InFlight
<1>9. ASSUME Clean' PROVE Safe'
  <2>1. l.note = pane.note /\ pane.loading /\ ~behind /\ pane.open
    BY <1>0, <1>1, <1>2, <1>3, <1>9 DEF Clean, InFlight
  <2>2. files[pane.note] = l.text /\ late.note # pane.note /\ \A p \in puts : p.note # pane.note
    BY <2>1 DEF behind
  <2>3. Mine' = {} /\ Coming' = {} /\ ~LateMine'
    BY <1>1, <1>2, <2>2 DEF Mine, Coming, LateMine
  <2>4. TitleKept' /\ BodyKept'
    BY <1>1, <1>2, <2>1, <2>2, <2>3 DEF TitleKept, BodyKept
  <2>5. InOrder'
    BY <1>1, <2>1, <2>3 DEF InOrder
  <2> QED BY <1>1, <2>1, <2>3, <2>4, <2>5 DEF Safe, TitleSafe, BodySafe, LateBody, ClosedClean
<1> QED BY <1>4, <1>7, <1>8, <1>9 DEF NoteInv

LEMMA NotLoadedInv == ASSUME NoteInv, NEW l \in loads, NotLoaded(l) PROVE NoteInv'
<1>0. NoteTypes /\ OwnTexts /\ TitlesDated /\ InFlight
  BY DEF NoteInv
<1>1. /\ pane' \in Panes /\ pane'.note = pane.note /\ pane'.open = pane.open
      /\ pane'.saving = pane.saving /\ ~pane'.loading /\ pane'.title \in {pane.title, NoText}
  BY <1>0, NotLoadedDoes
<1>2. /\ Act /\ loads' = loads \ {l} /\ UNCHANGED <<files, puts, late, excused>>
      /\ mixed' = mixed \cup {pane.note}
  BY DEF NotLoaded
<1>3. acts' \in 0..MaxActs /\ acts <= acts' /\ acts' \in Nat
  BY <1>0, <1>2, ActTyped
<1>4. NoteTypes'
  BY <1>0, <1>1, <1>2, <1>3, TextsTyped DEF NoteTypes
<1>5. TextsStay
  <2>1. Dated(pane.title)'
    <3>1. Dated(pane.title) /\ pane.title \in Texts /\ acts \in Nat
      BY <1>0, TextsTyped DEF TitlesDated
    <3>2. NoText.of \notin Notes
      BY DEF NoText
    <3> QED BY <1>1, <1>3, <3>1, <3>2 DEF Dated, Texts
  <2> QED BY <1>1, <1>2, <1>3, <2>1 DEF TextsStay
<1>6. OwnTexts' /\ TitlesDated'
  BY <1>0, <1>3, <1>5, OwnKept, DatedKept
<1>7. InFlight' /\ ~Clean'
  BY <1>0, <1>1, <1>2 DEF InFlight, Clean
<1> QED BY <1>4, <1>6, <1>7 DEF NoteInv

LEMMA SwitchInv == ASSUME NoteInv, Switch PROVE NoteInv'
<1>0. NoteTypes /\ OwnTexts /\ TitlesDated /\ InFlight /\ (Clean => Safe)
  BY DEF NoteInv
<1>1. /\ pane' \in Panes /\ SameView /\ SameText
      /\ pane'.titleDirty = pane.titleDirty /\ pane'.saving = pane.saving
      /\ pane.titleDirty /\ pane.titleTimer => pane'.titleTimer
      /\ pane'.bodyInitial \in {pane.body, pane.bodyInitial}
      /\ ~pane.loading
  BY <1>0, SwitchDoes
<1>2. /\ Act /\ puts' = Unmounted /\ UNCHANGED <<files, loads, late, mixed>>
      /\ excused' = excused \cup {n \in {pane.note} : pane.bodyTimer}
  BY DEF Switch
<1>3. acts' \in 0..MaxActs /\ acts <= acts' /\ acts' \in Nat
  BY <1>0, <1>2, ActTyped
<1>4. NoteTypes'
  <2>1. puts' \subseteq Puts
    BY <1>0, <1>2, UnmountTexts
  <2>2. excused' \subseteq Notes
    BY <1>0, <1>2, TextsTyped DEF NoteTypes
  <2> QED BY <1>0, <1>1, <1>2, <1>3, <2>1, <2>2 DEF NoteTypes
<1>5. TextsStay
  <2>1. Dated(pane.title)'
    <3>1. Dated(pane.title) /\ pane.title \in Texts /\ acts \in Nat
      BY <1>0, TextsTyped DEF TitlesDated
    <3> QED BY <1>1, <1>3, <3>1 DEF Dated, Texts, SameText
  <2>2. \A p \in puts' : \E q \in puts : q.note = p.note /\ q.text = p.text
    BY <1>0, <1>2, UnmountTexts
  <2>3. ~pane.loading /\ pane.note \notin mixed =>
          pane.title.of = pane.note /\ pane.body.of = pane.note /\ pane.bodyInitial.of = pane.note
    BY <1>0 DEF OwnTexts, Own, Text
  <2> QED BY <1>1, <1>2, <1>3, <2>1, <2>2, <2>3 DEF TextsStay, SameView, SameText
<1>6. OwnTexts' /\ TitlesDated'
  BY <1>0, <1>3, <1>5, OwnKept, DatedKept
<1>7. InFlight'
  BY <1>0, <1>1, <1>2, UnmountTexts DEF InFlight, SameView
<1>8. ASSUME Clean' PROVE Safe'
  <2>1. Safe /\ ~pane.bodyTimer
    BY <1>0, <1>1, <1>2, <1>8 DEF Clean, SameView
  <2>2. SameNote
    BY <1>1, <1>2 DEF SameNote, SameView
  <2>3. InOrder' /\ (TitleKept => TitleKept') /\ (BodyKept => BodyKept')
    BY <1>0, <1>1, <1>2, <2>1, <2>2, UnmountSafe DEF Safe
  <2> QED BY <1>1, <1>2, <2>1, <2>3
          DEF Safe, TitleSafe, BodySafe, LateBody, LateMine, ClosedClean, SameView, SameText
<1> QED BY <1>4, <1>6, <1>7, <1>8 DEF NoteInv

LEMMA LeaveInv == ASSUME NoteInv, Leave PROVE NoteInv'
<1>0. NoteTypes /\ OwnTexts /\ TitlesDated /\ InFlight /\ (Clean => Safe)
  BY DEF NoteInv
<1>1. /\ pane' \in Panes /\ SameText /\ pane'.note = pane.note /\ ~pane'.open
      /\ ~pane.loading /\ ~pane'.loading /\ pane'.titleDirty = pane.titleDirty
      /\ pane'.bodyInitial = pane.bodyInitial
  BY <1>0, LeaveDoes
<1>2. /\ Act /\ puts' = Unmounted /\ UNCHANGED <<files, loads, late, mixed>>
      /\ excused' = excused \cup {n \in {pane.note} : pane.titleDirty \/ pane.bodyTimer}
  BY DEF Leave
<1>3. acts' \in 0..MaxActs /\ acts <= acts' /\ acts' \in Nat
  BY <1>0, <1>2, ActTyped
<1>4. NoteTypes'
  <2>1. puts' \subseteq Puts
    BY <1>0, <1>2, UnmountTexts
  <2>2. excused' \subseteq Notes
    BY <1>0, <1>2, TextsTyped DEF NoteTypes
  <2> QED BY <1>0, <1>1, <1>2, <1>3, <2>1, <2>2 DEF NoteTypes
<1>5. TextsStay
  <2>1. Dated(pane.title)'
    <3>1. Dated(pane.title) /\ pane.title \in Texts /\ acts \in Nat
      BY <1>0, TextsTyped DEF TitlesDated
    <3> QED BY <1>1, <1>3, <3>1 DEF Dated, Texts, SameText
  <2>2. \A p \in puts' : \E q \in puts : q.note = p.note /\ q.text = p.text
    BY <1>0, <1>2, UnmountTexts
  <2>3. ~pane.loading /\ pane.note \notin mixed =>
          pane.title.of = pane.note /\ pane.body.of = pane.note /\ pane.bodyInitial.of = pane.note
    BY <1>0 DEF OwnTexts, Own, Text
  <2> QED BY <1>1, <1>2, <1>3, <2>1, <2>2, <2>3 DEF TextsStay, SameText
<1>6. OwnTexts' /\ TitlesDated'
  BY <1>0, <1>3, <1>5, OwnKept, DatedKept
<1>7. InFlight'
  BY <1>1 DEF InFlight
<1>8. ASSUME Clean' PROVE Safe'
  <2>1. Safe /\ ~pane.bodyTimer /\ ~pane.titleDirty
    BY <1>0, <1>1, <1>2, <1>8 DEF Clean
  <2>2. SameNote
    BY <1>1, <1>2 DEF SameNote
  <2>3. InOrder' /\ (TitleKept => TitleKept') /\ (BodyKept => BodyKept')
    BY <1>0, <1>1, <1>2, <2>1, <2>2, UnmountSafe DEF Safe
  <2> QED BY <1>1, <1>2, <2>1, <2>3
          DEF Safe, TitleSafe, BodySafe, LateBody, LateMine, ClosedClean, SameText
<1> QED BY <1>4, <1>6, <1>7, <1>8 DEF NoteInv

-----------------------------------------------------------------------------
LEMMA NotesInitInv == ASSUME NotesInit PROVE NoteInv
<1>1. NoText \in Texts /\ 0 \in 0..MaxActs /\ First \in Notes
  BY DEF NoText, Texts
<1>2. \A n \in Notes : Original(n) \in Pairs /\ Own(Original(n), n) /\ Original(n).title.n = 0
  BY <1>1 DEF Original, Pairs, Texts, Own
<1>3. /\ files = [n \in Notes |-> Original(n)] /\ puts = {} /\ late = NotSet /\ mixed = {} /\ excused = {}
      /\ acts = 0 /\ loads = {[id |-> 0, note |-> First, text |-> NotRead]}
  BY DEF NotesInit
<1>4. /\ pane \in Panes /\ pane.loading /\ pane.open /\ ~pane.saving /\ pane.title = NoText
  BY <1>1 DEF NotesInit, Panes
<1>5. loads \subseteq Loads
  BY <1>1, <1>3 DEF Loads
<1>6. NoteTypes
  BY <1>1, <1>2, <1>3, <1>4, <1>5 DEF NoteTypes
<1>7. OwnTexts
  BY <1>2, <1>3, <1>4 DEF OwnTexts
<1>8. TitlesDated
  <2>1. Dated(pane.title) /\ Dated(NotRead.title)
    BY <1>4 DEF Dated, NoText, NotRead
  <2>2. \A n \in Notes : Dated(files[n].title)
    BY <1>2, <1>3 DEF Dated
  <2> QED BY <1>3, <2>1, <2>2 DEF TitlesDated
<1>9. InFlight /\ ~Clean
  BY <1>4 DEF InFlight, Clean
<1> QED BY <1>6, <1>7, <1>8, <1>9 DEF NoteInv

LEMMA NotesStep == ASSUME NoteInv, [NotesNext]_noteVars PROVE NoteInv'
<1>1. CASE UNCHANGED noteVars
  BY <1>1 DEF noteVars, NoteInv, NoteTypes, OwnTexts, Own, Text, TitlesDated, Dated, InFlight, Clean, Safe,
              TitleSafe, BodySafe, LateBody, LateMine, InOrder, ClosedClean, TitleKept, BodyKept, Coming, Mine
<1>2. CASE NotesNext
  BY <1>2, EditTitleInv, EditBodyInv, TitleTimerInv, BodyTimerInv, CommandInv, LateTimerInv, SwitchInv, LeaveInv,
     PutInv, SavedInv, RefusedInv, OpenInv, ReadInv, LoadedInv, NotLoadedInv DEF NotesNext
<1> QED BY <1>1, <1>2

LEMMA NotesSaved == ASSUME NoteInv PROVE EditsAreSaved
<1>0. NoteTypes /\ OwnTexts /\ InFlight /\ (Clean => Safe)
  BY DEF NoteInv
<1>1. \A n \in Notes \ mixed : files[n].title.of = n /\ files[n].body.of = n
  BY <1>0 DEF OwnTexts, Own
<1>2. ASSUME Quiet, pane.note \notin mixed \cup excused PROVE files[pane.note] = Text
  <2>1. /\ puts = {} /\ late = NotSet /\ ~pane.loading /\ ~pane.titleTimer /\ ~pane.bodyTimer
    BY <1>2 DEF Quiet
  <2>2. Safe
    BY <1>0, <1>2, <2>1 DEF Clean
  <2>3. Coming = {} /\ ~LateMine /\ ~(pane.titleDirty /\ pane.saving)
    BY <1>0, <2>1, <2>2 DEF Coming, Mine, LateMine, InFlight, Safe, ClosedClean
  <2>4. files[pane.note].title = pane.title /\ files[pane.note].body = pane.body
    BY <2>1, <2>2, <2>3 DEF Safe, TitleSafe, BodySafe, TitleKept, BodyKept
  <2>5. files[pane.note] \in Pairs
    BY <1>0, TextsTyped
  <2> QED BY <2>4, <2>5 DEF Pairs, Text
<1> QED BY <1>1, <1>2 DEF EditsAreSaved

\* When timers and requests have ended, the file of the note in the pane has what the pane shows,
\* whichever of the three paths saved it; and no note has text of another one.  Except in the races.
THEOREM EditsStaySaved == NotesInit /\ [][NotesNext]_noteVars => []EditsAreSaved
<1>1. NotesInit => NoteInv
  BY NotesInitInv
<1>2. NoteInv /\ [NotesNext]_noteVars => NoteInv'
  BY NotesStep
<1>3. NoteInv => EditsAreSaved
  BY NotesSaved
<1> QED BY <1>1, <1>2, <1>3, PTL
=============================================================================
