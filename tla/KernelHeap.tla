----------------------------- MODULE KernelHeap -----------------------------
(***************************************************************************)
(* The kernel heap of kernel/mm.c: kmalloc, kmalloc_a, kmalloc_p and       *)
(* kmalloc_ap (the first three only forward to the last) and kfree, over   *)
(* an address-ordered, doubly linked list of blocks, each a mem_block_t    *)
(* header followed by its payload.                                         *)
(*                                                                         *)
(* `hdr` maps the address of every header on the list to its fields; the   *)
(* payload bytes, and headers that kfree has merged away, are not part of  *)
(* the state.  The search for a hole is a loop in the code, and here one   *)
(* step per block visited, so that a search that never ends is a           *)
(* behaviour of the model.  No interrupt handler uses the heap: nothing    *)
(* else runs between those steps.                                          *)
(*                                                                         *)
(* Callers are any kernel code that frees only what it was given, once.    *)
(* Request sizes are such that size + sizeof(mem_block_t) does not wrap.   *)
(***************************************************************************)
EXTENDS Integers

CONSTANTS
  KERNEL_HEAP_START,
  KERNEL_HEAP_SIZE,
  HeaderSize,          \* sizeof(mem_block_t)
  SplitSlack,          \* the 8 of mm.c:209, the least payload worth splitting off
  Sizes                \* the sizes callers ask for

ASSUME HeapAssumption ==
  /\ KERNEL_HEAP_START \in Nat \ {0}
  /\ HeaderSize \in Nat \ {0}
  /\ SplitSlack \in Nat \ {0}
  /\ KERNEL_HEAP_SIZE \in Nat
  /\ KERNEL_HEAP_SIZE > HeaderSize
  /\ Sizes \subseteq Nat

NULL == 0
HeapLimit == KERNEL_HEAP_START + KERNEL_HEAP_SIZE

VARIABLES
  hdr,             \* header address |-> mem_block_t
  heap_start,
  heap_end,
  heap_placement,
  pc,              \* "ready", "search" (inside kmalloc_ap) or "panic"
  req,             \* the `size` argument of the call under way
  cur,             \* `current` of mm_find_smallest_hole
  live,            \* history: the regions callers hold
  exhausted        \* history: the placement path of kmalloc_ap was taken

vars == <<hdr, heap_start, heap_end, heap_placement, pc, req, cur, live, exhausted>>

Blocks == DOMAIN hdr

mem_block_t == [size : Nat, next : Nat, prev : Nat, free : BOOLEAN]

Init ==
  /\ hdr = [b \in {} |-> NULL]
  /\ heap_start = NULL
  /\ heap_end = NULL
  /\ heap_placement = KERNEL_HEAP_START
  /\ pc = "ready"
  /\ req = 0
  /\ cur = NULL
  /\ live = {}
  /\ exhausted = FALSE

-----------------------------------------------------------------------------
(* The list operations, as functions of the headers h they start from.     *)

FirstBlock ==
  [b \in {KERNEL_HEAP_START} |->
     [size |-> KERNEL_HEAP_SIZE - HeaderSize, next |-> NULL, prev |-> NULL, free |-> TRUE]]

(* Mutant: a block in use fits as well.                                    *)
FitsUsed(b, s) == hdr[b].size >= s + HeaderSize

(* The caller passes size + sizeof(mem_block_t) as the size to look for.   *)
Fits(b, s) == hdr[b].free /\ hdr[b].size >= s + HeaderSize

(* Mutant: the header of the new block is forgotten in the remainder.      *)
SplitKeepsHeader(h, b, s) ==
  LET n == b + HeaderSize + s
  IN  [a \in DOMAIN h \cup {n} |->
         IF a = n THEN [size |-> h[b].size - s, next |-> h[b].next,
                        prev |-> b, free |-> TRUE]
         ELSE IF a = b THEN [h[b] EXCEPT !.next = n, !.size = s]
         ELSE IF a = h[b].next THEN [h[a] EXCEPT !.prev = n]
         ELSE h[a]]

(* Mutant: the new header is counted twice.                                *)
SplitTwoHeaders(h, b, s) ==
  LET n == b + HeaderSize + s
  IN  [a \in DOMAIN h \cup {n} |->
         IF a = n THEN [size |-> h[b].size - s - 2 * HeaderSize, next |-> h[b].next,
                        prev |-> b, free |-> TRUE]
         ELSE IF a = b THEN [h[b] EXCEPT !.next = n, !.size = s]
         ELSE IF a = h[b].next THEN [h[a] EXCEPT !.prev = n]
         ELSE h[a]]

(* Block b keeps s bytes; a new free block takes the rest of its payload.  *)
Split(h, b, s) ==
  LET n == b + HeaderSize + s
  IN  [a \in DOMAIN h \cup {n} |->
         IF a = n THEN [size |-> h[b].size - s - HeaderSize, next |-> h[b].next,
                        prev |-> b, free |-> TRUE]
         ELSE IF a = b THEN [h[b] EXCEPT !.next = n, !.size = s]
         ELSE IF a = h[b].next THEN [h[a] EXCEPT !.prev = n]
         ELSE h[a]]

SetFree(h, b, f) == [h EXCEPT ![b].free = f]

(* Block a absorbs block n, its successor, which leaves the list.          *)
Absorb(h, a, n) ==
  [x \in DOMAIN h \ {n} |->
     IF x = a THEN [h[a] EXCEPT !.size = @ + h[n].size + HeaderSize, !.next = h[n].next]
     ELSE IF x = h[n].next THEN [h[x] EXCEPT !.prev = a]
     ELSE h[x]]

(* A block placed at address p and linked after heap_end.  p may be the    *)
(* address of heap_end itself: its header is overwritten and then linked   *)
(* to itself.                                                              *)
Place(h, p, s) ==
  LET placed == [a \in DOMAIN h \cup {p} |->
                   IF a = p THEN [size |-> s, next |-> NULL, prev |-> heap_end, free |-> FALSE]
                   ELSE h[a]]
  IN  [placed EXCEPT ![heap_end].next = p]

-----------------------------------------------------------------------------
(* kmalloc_ap up to the search: the heap is created by the first call; a   *)
(* request for no bytes returns 0.                                         *)
Kmalloc(s) ==
  /\ pc = "ready"
  /\ IF heap_start = NULL
       THEN /\ hdr' = FirstBlock
            /\ heap_start' = KERNEL_HEAP_START
            /\ heap_end' = KERNEL_HEAP_START
       ELSE UNCHANGED <<hdr, heap_start, heap_end>>
  /\ IF s = 0
       THEN UNCHANGED <<pc, req, cur>>
       ELSE /\ pc' = "search"
            /\ req' = s
            /\ cur' = heap_start'
  /\ UNCHANGED <<heap_placement, live, exhausted>>

(* Mutant: a block of exactly the size looked for is passed over.          *)
SearchNextStrict ==
  /\ pc = "search"
  /\ cur # NULL
  /\ ~(hdr[cur].free /\ hdr[cur].size > req + HeaderSize)
  /\ cur' = hdr[cur].next
  /\ UNCHANGED <<hdr, heap_start, heap_end, heap_placement, pc, req, live, exhausted>>


(* One turn of mm_find_smallest_hole's loop: the block does not fit.       *)
SearchNext ==
  /\ pc = "search"
  /\ cur # NULL
  /\ ~Fits(cur, req)
  /\ cur' = hdr[cur].next
  /\ UNCHANGED <<hdr, heap_start, heap_end, heap_placement, pc, req, live, exhausted>>

(* The call returns p: the caller holds req bytes from there on.           *)
Return(p) ==
  /\ live' = live \cup {[ptr |-> p, size |-> req]}
  /\ pc' = "ready"
  /\ req' = 0
  /\ cur' = NULL

(* The block fits: it is split when enough of it would be left over.       *)
TakeHole ==
  /\ pc = "search"
  /\ cur # NULL
  /\ Fits(cur, req)
  /\ hdr' = SetFree(IF hdr[cur].size >= req + HeaderSize + SplitSlack
                      THEN Split(hdr, cur, req) ELSE hdr, cur, FALSE)
  /\ Return(cur + HeaderSize)
  /\ UNCHANGED <<heap_start, heap_end, heap_placement, exhausted>>

(* No block fits.  heap_placement has stayed at KERNEL_HEAP_START, where   *)
(* the first block lies, since the blocks taken from the list do not       *)
(* advance it.                                                             *)
PlacementPanics ==
  /\ pc = "search"
  /\ cur = NULL
  /\ heap_placement' = heap_placement + req + HeaderSize
  /\ heap_placement' > HeapLimit
  /\ pc' = "panic"
  /\ UNCHANGED <<hdr, heap_start, heap_end, req, cur, live, exhausted>>

PlaceBlock ==
  /\ pc = "search"
  /\ cur = NULL
  /\ heap_placement' = heap_placement + req + HeaderSize
  /\ heap_placement' <= HeapLimit
  /\ hdr' = Place(hdr, heap_placement, req)
  /\ heap_end' = heap_placement
  /\ Return(heap_placement + HeaderSize)
  /\ exhausted' = TRUE
  /\ UNCHANGED heap_start

(* Mutant: the neighbour before the freed block is not looked at.          *)
FreedNextOnly(h, b) ==
  LET h1 == SetFree(h, b, TRUE)
      n  == h1[b].next
  IN  IF n # NULL /\ h1[n].free THEN Absorb(h1, b, n) ELSE h1

(* kfree of block b: it is merged with a free predecessor, then the result *)
(* with a free successor.                                                  *)
Freed(h, b) ==
  LET h1   == SetFree(h, b, TRUE)
      p    == h1[b].prev
      back == p # NULL /\ h1[p].free
      h2   == IF back THEN Absorb(h1, p, b) ELSE h1
      c    == IF back THEN p ELSE b
      n    == h2[c].next
  IN  IF n # NULL /\ h2[n].free THEN Absorb(h2, c, n) ELSE h2

(* HORIZON: once a block has been placed over the first one the list holds *)
(* a header that two callers own; what kfree does with it is left out.     *)
Kfree(r) ==
  /\ pc = "ready"
  /\ ~exhausted
  /\ hdr' = Freed(hdr, r.ptr - HeaderSize)
  /\ live' = live \ {r}
  /\ UNCHANGED <<heap_start, heap_end, heap_placement, pc, req, cur, exhausted>>

KmallocStep == SearchNext \/ TakeHole \/ PlacementPanics \/ PlaceBlock

Next ==
  \/ \E s \in Sizes : Kmalloc(s)
  \/ SearchNext
  \/ TakeHole
  \/ PlacementPanics
  \/ PlaceBlock
  \/ \E r \in live : Kfree(r)

Spec == Init /\ [][Next]_vars

(* The CPU goes on executing a kmalloc it has begun; nobody owes a call.   *)
FairSpec == Spec /\ WF_vars(KmallocStep)

-----------------------------------------------------------------------------
(* Properties.  They speak of the heap from its creation to the first      *)
(* block placed over another (`exhausted`).                                *)

InUse == heap_start # NULL /\ ~exhausted

(* Every variable has its C type: header fields are unsigned words or a    *)
(* flag, callers hold regions of the sizes they asked for.                 *)
TypeOK ==
  /\ Blocks \subseteq Nat
  /\ hdr \in [Blocks -> mem_block_t]
  /\ heap_start \in {NULL, KERNEL_HEAP_START}
  /\ heap_end \in {NULL, KERNEL_HEAP_START}
  /\ heap_placement \in Nat
  /\ pc \in {"ready", "search", "panic"}
  /\ req \in Sizes \cup {0}
  /\ cur \in Nat
  /\ live \subseteq [ptr : Nat, size : Sizes \ {0}]
  /\ exhausted \in BOOLEAN

(* Block b of h ends where its successor begins, and the last block ends   *)
(* at the end of the heap; the successor links back.                       *)
NextOK(h, b) ==
  IF h[b].next = NULL
    THEN b + HeaderSize + h[b].size = HeapLimit
    ELSE /\ h[b].next \in DOMAIN h
         /\ h[b].next = b + HeaderSize + h[b].size
         /\ h[h[b].next].prev = b

(* Only the first block has no predecessor; the predecessor links forward. *)
PrevOK(h, b) ==
  IF h[b].prev = NULL
    THEN b = KERNEL_HEAP_START
    ELSE h[b].prev \in DOMAIN h /\ h[h[b].prev].next = b

Inside(h, b) == KERNEL_HEAP_START <= b /\ b + HeaderSize + h[b].size <= HeapLimit

Tiles(h) ==
  /\ KERNEL_HEAP_START \in DOMAIN h
  /\ \A b \in DOMAIN h : Inside(h, b) /\ NextOK(h, b) /\ PrevOK(h, b)
  /\ \A a, b \in DOMAIN h : a < b => a + HeaderSize + h[a].size <= b

(* kmalloc's splits and kfree's merges keep the list a tiling of the heap: *)
(* no byte is lost between blocks and none belongs to two of them.         *)
HeapTiled == InUse => Tiles(hdr)

Holds(h, r) ==
  /\ r.ptr - HeaderSize \in DOMAIN h
  /\ ~h[r.ptr - HeaderSize].free
  /\ r.size <= h[r.ptr - HeaderSize].size

UsedBy(h, L) ==
  /\ \A r \in L : Holds(h, r)
  /\ \A r, q \in L : r.ptr = q.ptr => r = q
  /\ \A b \in DOMAIN h : ~h[b].free => \E r \in L : r.ptr = b + HeaderSize

(* The blocks marked used are exactly the ones callers hold, each at least *)
(* as large as what was asked for: nothing leaks and nothing is handed     *)
(* out twice.                                                              *)
LiveIsUsed == InUse => UsedBy(hdr, live)

Apart(h) ==
  \A b \in DOMAIN h : h[b].free /\ h[b].next # NULL => ~h[h[b].next].free

(* kfree merges with both neighbours, so two free blocks never touch.      *)
Coalesced == InUse => Apart(hdr)

(* The search has passed over no block that fits: mm_find_smallest_hole    *)
(* takes the first fit, and when it gives up nothing on the list fits.     *)
FirstFit ==
  pc = "search" /\ InUse =>
    /\ cur \in Blocks \cup {NULL}
    /\ \A b \in Blocks : cur = NULL \/ b < cur => ~Fits(b, req)


(* What the other invariants leave unsaid: the state before the heap is    *)
(* created, the placement pointer that no block taken from the list        *)
(* moves, and the list of one self-linked block after exhaustion, which a  *)
(* search goes around for ever.                                            *)
HeapPhases ==
  /\ heap_end = heap_start
  /\ heap_start = NULL => /\ Blocks = {} /\ live = {} /\ pc = "ready" /\ ~exhausted
  /\ pc = "search" => req # 0
  /\ ~exhausted /\ pc # "panic" => heap_placement = KERNEL_HEAP_START
  /\ exhausted => /\ KERNEL_HEAP_START \in Blocks
                  /\ ~hdr[KERNEL_HEAP_START].free
                  /\ hdr[KERNEL_HEAP_START].next = KERNEL_HEAP_START
                  /\ pc = "search" => cur = KERNEL_HEAP_START

(* Two regions callers hold never share a byte, whatever happened before.  *)
(* kmalloc_ap's own check, kernel_panic("Kernel heap exhausted"), is there *)
(* to stop the kernel before it hands out memory it does not have.         *)
LiveDisjoint ==
  \A r, q \in live : r # q => \/ r.ptr + r.size <= q.ptr
                              \/ q.ptr + q.size <= r.ptr

(* kmalloc and kfree implement the abstract allocator up to exhaustion.    *)
A == INSTANCE Allocator WITH
       Lo <- KERNEL_HEAP_START + HeaderSize,
       Hi <- HeapLimit,
       RegionSizes <- Sizes \ {0},
       failed <- exhausted \/ pc = "panic"

ImplementsAllocator == A!Spec
=============================================================================
