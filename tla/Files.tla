------------------------------- MODULE Files -------------------------------
(***************************************************************************)
(* The descriptor table of fs/vfs.c, one table for the whole system.       *)
(*                                                                         *)
(* An entry is free when it has no node.  Offset and flags are written and *)
(* never read.  The directories fs_init makes know their parent and nobody *)
(* knows them: the only node a path leads to is the root.                  *)
(***************************************************************************)
EXTENDS Integers

CONSTANT FS_MAX_FDS          \* 256

ASSUME FilesAssumption == FS_MAX_FDS \in Nat \ {0}

VARIABLE fd_table

Fds == 0 .. FS_MAX_FDS - 1
NoNode == "none"
fs_root_node == "root"
FreeFds == { f \in Fds : fd_table[f] = NoNode }

fs_init == fd_table = [f \in Fds |-> NoNode]

fs_traverse(path) == IF path \in {"", "/"} THEN fs_root_node ELSE NoNode

(* Mutant: the search takes any entry.                                     *)
fs_open_any(path, fd) ==
  /\ fd \in Fds
  /\ fd_table' = [fd_table EXCEPT ![fd] = fs_traverse(path)]

(* The lowest free entry, whether or not the path leads to a node; with no *)
(* node the entry stays free.                                              *)
fs_open(path, fd) ==
  \/ /\ fd \in FreeFds /\ \A f \in FreeFds : fd <= f
     /\ fd_table' = [fd_table EXCEPT ![fd] = fs_traverse(path)]
  \/ /\ fd = -1 /\ FreeFds = {}
     /\ UNCHANGED fd_table

IsOpen(fd) == fd \in Fds /\ fd_table[fd] # NoNode

fs_close(fd) ==
  IF IsOpen(fd) THEN fd_table' = [fd_table EXCEPT ![fd] = NoNode] ELSE UNCHANGED fd_table
=============================================================================
