------------------------------- MODULE MCDrive -------------------------------
(***************************************************************************)
(* A drive: its tree, as concurrent transactions leave it, or who may see   *)
(* and change what is in it.  One of the two takes steps, and the other     *)
(* stays as it is.  Of the tree, each part has some of the operations: all   *)
(* but renames; renames with moves, for as long as the paths are right, as   *)
(* each rename after that makes a wrong one longer; and deletions of deeper  *)
(* trees.                                                                   *)
(***************************************************************************)
EXTENDS MCEntryTree, MCAccess

CONSTANT Parts \* of what a run checks

VARIABLE part

-----------------------------------------------------------------------------
MCCustodianOf == Custody

DriveSymmetry == Permutations(Items) \cup Permutations(Clients)

driveVars == <<vars, accessVars, part>>

DriveInit ==
    /\ part \in Parts
    /\ part # "rights" => driveOwner = CHOOSE a \in Owners : TRUE
    /\ Init /\ AccessInit

Runs(operations, entries) ==
    /\ Next
    /\ \A c \in Clients : tx'[c] # Idle =>
         tx'[c].op \in operations /\ {tx'[c].e, tx'[c].to} \subseteq entries \cup {Root, NoEntry}
    /\ UNCHANGED accessVars

DriveNext ==
    /\ UNCHANGED part
    /\ \/ part = "tree" /\ Runs({"create", "move", "delete", "restore"}, Entries \ {memo})
       \/ part = "paths" /\ PathsMatchParents /\ Runs({"create", "move", "rename"}, Entries \ {memo})
       \/ part = "deletions" /\ Runs({"create", "delete"}, Entries)
       \/ part = "rights" /\ AccessNext /\ UNCHANGED vars

DriveSpec == DriveInit /\ [][DriveNext]_driveVars
===============================================================================
