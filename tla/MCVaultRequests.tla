--------------------------- MODULE MCVaultRequests ---------------------------
(***************************************************************************)
(* What the requests of a vault's two servers work on: the sessions of the *)
(* MCP server, and the trash, the devices and the plans of the web server, *)
(* with the note pane, whose requests go to its tree routes.  The five     *)
(* share no state, so that one of them, "part", is at work in each         *)
(* behaviour and the others rest: their states add up, and do not multiply.*)
(*                                                                         *)
(* Three places for sessions, room for one full and two read-only ones;    *)
(* two deletions and two restores of two paths; two requests for one pair  *)
(* code, a revocation, a verification; two plans and a research operation; *)
(* two notes, four acts of the user or failures of a request.              *)
(***************************************************************************)
EXTENDS McpServer, Trash, OpsPlans, Devices, NoteEditor

VARIABLE part

MCCapFor == [p \in Profiles |-> IF p = "full" THEN 1 ELSE 2]

PartInit ==
  /\ part \in {"sessions", "trash", "devices", "plans", "pane"}
  /\ Init /\ TrashInit /\ DevicesInit /\ OpsInit /\ NotesInit

PartNext ==
  /\ UNCHANGED part
  /\ \/ /\ part = "sessions" /\ Next
        /\ UNCHANGED <<trashVars, devicesVars, opsVars, noteVars>>
     \/ /\ part = "trash" /\ TrashNext
        /\ UNCHANGED <<vars, devicesVars, opsVars, noteVars>>
     \/ /\ part = "devices" /\ DevicesNext
        /\ UNCHANGED <<vars, trashVars, opsVars, noteVars>>
     \/ /\ part = "plans" /\ OpsNext
        /\ UNCHANGED <<vars, trashVars, devicesVars, noteVars>>
     \/ /\ part = "pane" /\ NotesNext
        /\ UNCHANGED <<vars, trashVars, devicesVars, opsVars>>

PartSpec == PartInit /\ [][PartNext]_<<part, vars, trashVars, devicesVars, opsVars, noteVars>>

\* Types of the variables of all five.
PartsTypeOK == TypeOK /\ TrashTypeOK /\ DevicesTypeOK /\ OpsTypeOK /\ NotesTypeOK
=============================================================================
