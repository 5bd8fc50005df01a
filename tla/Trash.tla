-------------------------------- MODULE Trash --------------------------------
(***************************************************************************)
(* The trash of a vault (storage/file_store.ts, routes/trash.ts).  Moving  *)
(* to the trash takes the paths one by one, each with a look and a rename, *)
(* and writes the manifest last; a restore reads the manifest, takes its   *)
(* paths one by one and removes the entry at the end.  Everything else may *)
(* happen between any two of these steps.                                  *)
(***************************************************************************)
EXTENDS Naturals, FiniteSets

CONSTANTS
  Paths,
  Moves,       \* requests that delete paths; each is named like the entry it makes
  Restores,    \* requests that restore an entry
  MaxContent   \* bound: contents ever written

VARIABLES
  file,      \* path -> its content, 0 if there is none
  contents,  \* how many contents were written so far
  entry,     \* entry -> the directory of its files: path -> content or 0
  dirs,      \* entries whose directory exists
  manifest,  \* entry -> paths its manifest lists, NoManifest before it is written
  moving,    \* the requests that delete
  restoring  \* the requests that restore

trashVars == <<file, contents, entry, dirs, manifest, moving, restoring>>

NoManifest == {"none"}
NoPath == "none"
NoEntry == "none"

ASSUME NoPathIsNone == NoPath \notin Paths

Empty == [p \in Paths |-> 0]
NotRestoring == [pc |-> "idle", entry |-> NoEntry, todo |-> {}, path |-> NoPath, skipped |-> {}]

TrashInit ==
  /\ file = [p \in Paths |-> 1] /\ contents = 1
  /\ entry = [m \in Moves |-> Empty] /\ dirs = {} /\ manifest = [m \in Moves |-> NoManifest]
  /\ moving = [m \in Moves |-> [pc |-> "idle", todo |-> {}, path |-> NoPath, moved |-> {}]]
  /\ restoring = [r \in Restores |-> NotRestoring]

Listed(m) == manifest[m] # NoManifest

-----------------------------------------------------------------------------
(* moveToTrash *)

\* All paths, of which some may have no file.
MoveToTrash(m) ==
  /\ moving[m].pc = "idle"
  /\ moving' = [moving EXCEPT ![m].pc = "paths", ![m].todo = Paths]
  /\ dirs' = dirs \cup {m}
  /\ UNCHANGED <<file, contents, entry, manifest, restoring>>

\* A path without a file is left out silently.  For the others the directory is made, which is no
\* step of its own: it and the look work on different things.
LookAt(m, p) ==
  /\ moving[m].pc = "paths" /\ moving[m].path = NoPath /\ p \in moving[m].todo
  /\ moving' = [moving EXCEPT ![m].todo = @ \ {p}, ![m].path = IF file[p] = 0 THEN NoPath ELSE p]
  /\ dirs' = IF file[p] = 0 THEN dirs ELSE dirs \cup {m}
  /\ UNCHANGED <<file, contents, entry, manifest, restoring>>

\* The rename fails if the file or the directory has gone since; the request ends there, its entry
\* without a manifest.
MoveFile(m) ==
  LET p == moving[m].path
  IN /\ p # NoPath
     /\ IF file[p] = 0 \/ m \notin dirs
        THEN moving' = [moving EXCEPT ![m].pc = "failed", ![m].path = NoPath] /\ UNCHANGED <<file, entry>>
        ELSE /\ file' = [file EXCEPT ![p] = 0] /\ entry' = [entry EXCEPT ![m][p] = file[p]]
             /\ moving' = [moving EXCEPT ![m].path = NoPath, ![m].moved = @ \cup {p}]
     /\ UNCHANGED <<contents, dirs, manifest, restoring>>

\* It fails if the entry was purged meanwhile.
WriteManifest(m) ==
  /\ moving[m].pc = "paths" /\ moving[m].path = NoPath /\ moving[m].todo = {}
  /\ IF m \in dirs
     THEN manifest' = [manifest EXCEPT ![m] = moving[m].moved] /\ moving' = [moving EXCEPT ![m].pc = "done"]
     ELSE moving' = [moving EXCEPT ![m].pc = "failed"] /\ UNCHANGED manifest
  /\ UNCHANGED <<file, contents, entry, dirs, restoring>>

-----------------------------------------------------------------------------
(* restoreFromTrash *)

Restore(r, m) ==
  /\ restoring[r].pc = "idle" /\ Listed(m)
  /\ restoring' = [restoring EXCEPT ![r] = [NotRestoring EXCEPT !.pc = "paths", !.entry = m, !.todo = manifest[m]]]
  /\ UNCHANGED <<file, contents, entry, dirs, manifest, moving>>

Occupied(p) == file[p] # 0

\* A path that exists again is skipped.
LookForRoom(r, p) ==
  /\ restoring[r].pc = "paths" /\ restoring[r].path = NoPath /\ p \in restoring[r].todo
  /\ restoring' = [restoring EXCEPT ![r].todo = @ \ {p},
                                    ![r].path = IF Occupied(p) THEN NoPath ELSE p,
                                    ![r].skipped = IF Occupied(p) THEN @ \cup {p} ELSE @]
  /\ UNCHANGED <<file, contents, entry, dirs, manifest, moving>>

\* The rename overwrites a file that has appeared since the look, and fails if another restore
\* or a purge has taken the source; the request then ends, the entry stays.
PutBack(r) ==
  LET m == restoring[r].entry
      p == restoring[r].path
  IN /\ p # NoPath
     /\ IF entry[m][p] = 0
        THEN restoring' = [restoring EXCEPT ![r] = NotRestoring] /\ UNCHANGED <<file, entry>>
        ELSE /\ file' = [file EXCEPT ![p] = entry[m][p]] /\ entry' = [entry EXCEPT ![m][p] = 0]
             /\ restoring' = [restoring EXCEPT ![r].path = NoPath]
     /\ UNCHANGED <<contents, dirs, manifest, moving>>

Gone(m) ==
  /\ entry' = [entry EXCEPT ![m] = Empty] /\ dirs' = dirs \ {m}
  /\ manifest' = [manifest EXCEPT ![m] = NoManifest]

\* Bug: the entry is removed while paths are still to be restored.
AllTried_NotYet(r) == restoring[r].path = NoPath

AllTried(r) == restoring[r].path = NoPath /\ restoring[r].todo = {}

\* The entry goes with the files that were skipped.
RemoveEntry(r) ==
  /\ restoring[r].pc = "paths" /\ AllTried(r)
  /\ Gone(restoring[r].entry)
  /\ restoring' = [restoring EXCEPT ![r] = NotRestoring]
  /\ UNCHANGED <<file, contents, moving>>

-----------------------------------------------------------------------------
\* permanentlyDelete finds the directory, with or without a manifest.
PermanentlyDelete(m) ==
  /\ m \in dirs /\ Gone(m)
  /\ UNCHANGED <<file, contents, moving, restoring>>

EmptyTrash ==
  /\ entry' = [m \in Moves |-> Empty] /\ dirs' = {} /\ manifest' = [m \in Moves |-> NoManifest]
  /\ UNCHANGED <<file, contents, moving, restoring>>

\* Everybody else: a path is written, new or again.
WriteFile(p) ==
  /\ contents < MaxContent /\ contents' = contents + 1
  /\ file' = [file EXCEPT ![p] = contents + 1]
  /\ UNCHANGED <<entry, dirs, manifest, moving, restoring>>

\* The server stops between two steps.
Halt ==
  /\ moving' = [m \in Moves |-> IF moving[m].pc = "paths"
                                THEN [moving[m] EXCEPT !.pc = "failed", !.path = NoPath] ELSE moving[m]]
  /\ restoring' = [r \in Restores |-> NotRestoring]
  /\ UNCHANGED <<file, contents, entry, dirs, manifest>>

TrashNext ==
  \/ EmptyTrash \/ Halt
  \/ \E p \in Paths : WriteFile(p)
  \/ \E m \in Moves : \/ MoveToTrash(m) \/ MoveFile(m) \/ WriteManifest(m) \/ PermanentlyDelete(m)
                      \/ \E p \in Paths : LookAt(m, p)
  \/ \E r \in Restores : \/ PutBack(r) \/ RemoveEntry(r)
                         \/ \E m \in Moves : Restore(r, m)
                         \/ \E p \in Paths : LookForRoom(r, p)

-----------------------------------------------------------------------------
TrashTypeOK ==
  /\ file \in [Paths -> 0..MaxContent] /\ contents \in 1..MaxContent
  /\ entry \in [Moves -> [Paths -> 0..MaxContent]]
  /\ \A m \in Moves : manifest[m] = NoManifest \/ manifest[m] \subseteq Paths
  /\ dirs \subseteq Moves

\* What is in the files and in the trash.
Kept(p, c) == file[p] = c \/ \E m \in Moves : entry[m][p] = c

\* A content disappears only when its path is written again, when its entry is purged, when it was
\* skipped by a restore that ends, or when the path was written between the look of a restore and
\* its rename: no other interleaving of deletions, restores, writes and halts loses one.
ContentsKept ==
  [][\A p \in Paths, c \in 1..MaxContent :
       Kept(p, c) /\ ~Kept(p, c)'
         => \/ WriteFile(p)
            \/ EmptyTrash \/ \E m \in Moves : PermanentlyDelete(m)
            \/ \E r \in Restores : RemoveEntry(r) /\ p \in restoring[r].skipped
            \/ \E r \in Restores : PutBack(r) /\ restoring[r].path = p /\ file[p] = c]_trashVars
=============================================================================
