------------------------------ MODULE Syscalls ------------------------------
(***************************************************************************)
(* The system calls of arch/x86_64/syscall.c on behalf of the tasks of     *)
(* Tasks: files (module Files), brk, fork, exit and the stubs.             *)
(*                                                                         *)
(* A call is one step: it runs behind an interrupt gate.  Gate 0x80 has no *)
(* handler (see Interrupts), so the module models what syscall_handler     *)
(* does when it is called.                                                 *)
(*                                                                         *)
(* Tasks are well behaved: they close and write the descriptors fs_open    *)
(* gave them, or one out of range.  handles are the descriptors a task     *)
(* believes it has.  No task sleeps here.                                  *)
(***************************************************************************)
EXTENDS Tasks, Files

CONSTANTS
  Paths,           \* the paths tasks open
  Addrs,           \* the arguments of sys_brk
  InitialBrk       \* KERNEL_HEAP_START + KERNEL_HEAP_SIZE

ASSUME SyscallAssumption ==
  /\ Addrs \subseteq Nat
  /\ InitialBrk \in Nat

VARIABLES
  brk,
  ret,             \* what the last system call returned
  handles,         \* history: [pid, fd, resolved] opened and not closed by pid
  strayed          \* history: descriptors closed through a handle without a node

fileVars == <<fd_table, handles, strayed>>
sysVars == <<vars, fileVars, brk, ret>>

SysInit ==
  /\ Init
  /\ fs_init
  /\ brk = [t \in {} |-> 0]
  /\ ret = 0
  /\ handles = {}
  /\ strayed = {}

Calling == pc = "run" /\ current_task # NULL

-----------------------------------------------------------------------------
sys_open(path) ==
  /\ Calling
  /\ \E fd \in Fds \cup {-1} :
       /\ fs_open(path, fd)
       /\ ret' = fd
       /\ handles' = IF fd = -1 THEN handles
                     ELSE handles \cup {[pid |-> current_task, fd |-> fd,
                                         resolved |-> fs_traverse(path) # NoNode]}
  /\ UNCHANGED <<vars, brk, strayed>>

(* The caller gives up handle h.                                           *)
sys_close(h) ==
  /\ Calling
  /\ h.pid = current_task
  /\ fs_close(h.fd)
  /\ ret' = IF IsOpen(h.fd) THEN 0 ELSE -1
  /\ handles' = handles \ {h}
  /\ strayed' = IF IsOpen(h.fd) /\ ~h.resolved THEN strayed \cup {h.fd} ELSE strayed
  /\ UNCHANGED <<vars, brk>>

(* Every other descriptor is refused by the range check.                   *)
BadClose ==
  /\ Calling
  /\ \E fd \in {-1, FS_MAX_FDS} : fs_close(fd)
  /\ ret' = -1
  /\ UNCHANGED <<vars, brk, handles, strayed>>

(* Descriptors 1 and 2 are the console, whatever fs_open has put there;    *)
(* fs_write and fs_read move no data.                                      *)
sys_write(h, len) ==
  /\ Calling
  /\ h.pid = current_task
  /\ ret' = IF h.fd \in {1, 2} THEN len ELSE 0
  /\ UNCHANGED <<vars, fileVars, brk>>

(* sys_read, sys_mkdir, sys_unlink and sys_time return 0, sys_kill and a   *)
(* number without a case -1.                                               *)
StubCall ==
  /\ Calling
  /\ ret' \in {0, -1}
  /\ UNCHANGED <<vars, fileVars, brk>>

sys_getpid ==
  /\ pc = "run"
  /\ ret' = current_task
  /\ UNCHANGED <<vars, fileVars, brk>>

sys_brk(addr) ==
  /\ Calling
  /\ brk' = IF addr # 0 THEN [brk EXCEPT ![current_task] = addr] ELSE brk
  /\ ret' = brk'[current_task]
  /\ UNCHANGED <<vars, fileVars>>

sys_fork ==
  /\ IF current_task = NULL
       THEN pc = "run" /\ UNCHANGED <<vars, brk>> /\ ret' = 0
       ELSE task_fork /\ brk' = Extend(brk, brk[current_task]) /\ ret' = next_pid
  /\ UNCHANGED fileVars

(* Mutant: an exiting task closes what it has open.                        *)
sys_exit_closes ==
  /\ task_exit
  /\ ret' = 0
  /\ handles' = { h \in handles : h.pid # current_task }
  /\ fd_table' = [f \in Fds |-> IF \E h \in handles \ handles' : h.fd = f /\ h.resolved
                                 THEN NoNode ELSE fd_table[f]]
  /\ UNCHANGED <<strayed, brk>>

(* task_exit closes nothing.                                               *)
sys_exit ==
  /\ task_exit
  /\ ret' = 0
  /\ UNCHANGED <<fileVars, brk>>

(* What the kernel does between the calls.                                 *)
CreateTask ==
  /\ \E pri \in Priorities : task_create(pri)
  /\ brk' = Extend(brk, InitialBrk)
  /\ UNCHANGED <<fileVars, ret>>

Schedule ==
  /\ task_yield \/ VisitRunnable \/ VisitOther \/ Halt \/ Switch
  /\ UNCHANGED <<fileVars, brk, ret>>

SysNext ==
  \/ \E path \in Paths : sys_open(path)
  \/ \E h \in handles : sys_close(h) \/ \E len \in 0 .. 1 : sys_write(h, len)
  \/ BadClose \/ StubCall \/ sys_getpid
  \/ \E addr \in Addrs : sys_brk(addr)
  \/ sys_fork \/ sys_exit
  \/ CreateTask \/ Schedule

SysSpec == SysInit /\ [][SysNext]_sysVars

-----------------------------------------------------------------------------

Holders(f) == { h \in handles : h.fd = f /\ h.resolved }

(* An entry of the table is in use exactly while one task holds it through *)
(* an open that found its path: no descriptor is handed out twice, closed  *)
(* under its owner or lost, by any order of calls of any tasks.  The       *)
(* exception is an entry that was closed through a descriptor fs_open      *)
(* returned for a path it did not find.                                    *)
HandlesExact ==
  \A f \in Fds \ strayed :
    /\ IsOpen(f) <=> Holders(f) # {}
    /\ \A g, h \in Holders(f) : g = h

(* A descriptor still open when its task exits is never released, by the   *)
(* exit or by any later step: nobody closes it but through a stray close,  *)
(* so that exited tasks use the table up.                                  *)
ZombieKeepsFd ==
  [][\A h \in handles :
       h.resolved /\ h.fd \notin strayed' /\ state'[h.pid] = "ZOMBIE"
         => h \in handles' /\ fd_table'[h.fd] # NoNode]_sysVars
=============================================================================
