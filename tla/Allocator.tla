----------------------------- MODULE Allocator -----------------------------
(***************************************************************************)
(* What a kernel heap promises its callers: the regions handed out and not *)
(* yet given back are inside the heap and pairwise disjoint.  Where the    *)
(* regions lie, and in which order free space is searched, is left open.   *)
(*                                                                         *)
(* An allocator may fail (`failed`): after that nothing is promised any    *)
(* more.  KernelHeap implements this specification; its `failed` states    *)
(* are the kernel panic and the exhaustion path of kmalloc_ap.             *)
(***************************************************************************)
EXTENDS Integers

CONSTANTS Lo, Hi,      \* regions lie in Lo .. Hi - 1
          RegionSizes  \* the sizes callers ask for

VARIABLES live,        \* the regions handed out and not yet given back
          failed

vars == <<live, failed>>

Regions == [ptr : Lo .. Hi, size : RegionSizes]

Disjoint(r, q) == r.ptr + r.size <= q.ptr \/ q.ptr + q.size <= r.ptr

Init ==
  /\ live = {}
  /\ failed = FALSE

Alloc(r) ==
  /\ ~failed
  /\ r.ptr + r.size <= Hi
  /\ \A q \in live : Disjoint(r, q)
  /\ live' = live \cup {r}
  /\ UNCHANGED failed

Free(r) ==
  /\ ~failed
  /\ live' = live \ {r}
  /\ UNCHANGED failed

(***************************************************************************)
(* The step that fails, and every step after it, leaves `live` open.       *)
(***************************************************************************)
Fail == failed' = TRUE

Next ==
  \/ \E r \in Regions : Alloc(r)
  \/ \E r \in live : Free(r)
  \/ Fail

Spec == Init /\ [][Next]_vars
=============================================================================
