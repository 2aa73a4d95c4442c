--------------------------- MODULE FrameAllocator ---------------------------
(***************************************************************************)
(* The physical frame allocator of kernel/mm.c: mm_init, mm_first_free,    *)
(* mm_alloc_frame, mm_free_frame and the used_blocks counter behind        *)
(* mm_get_used_memory.                                                     *)
(*                                                                         *)
(* mem_bitmap is the set of the frames whose bit is set (in use).  A page  *)
(* table entry keeps its frame, where 0 means "none", and its present bit; *)
(* the rw and user bits are written and never read back here.  Callers     *)
(* are the paging code, which passes any page: the module leaves the order *)
(* open.                                                                   *)
(*                                                                         *)
(* mm_init writes over what lies where its caller puts the bitmap, and     *)
(* behind it when memory is small: lost says that this has taken the       *)
(* kernel down.                                                            *)
(***************************************************************************)
EXTENDS Integers, FiniteSets

CONSTANTS
  total_blocks,   \* mem_size / PAGE_SIZE
  kernel_blocks,  \* (KERNEL_HEAP_START - KERNEL_BASE) / PAGE_SIZE
  Pages,          \* the page table entries callers pass
  Image           \* the bits, counted from the bitmap's first, that are memory of
                  \* the kernel's own (0x100000 is also where linker.ld puts it)

ASSUME FrameAssumption ==
  /\ total_blocks \in Nat
  /\ kernel_blocks \in Nat \ {0}
  /\ Image \subseteq Nat

VARIABLES
  mem_bitmap,
  used_blocks,
  page,           \* page_t of every page
  panic,          \* kernel_panic("Out of memory") was called
  lost,           \* the processor runs something else than the kernel
  boot_free       \* history: the frames whose bit was clear after mm_init

vars == <<mem_bitmap, used_blocks, page, panic, lost, boot_free>>

Frames == 0 .. total_blocks - 1
Up == ~panic /\ ~lost

(* The bits mm_init writes: whole bytes of the bitmap, and the bits of the *)
(* kernel's frames, whether or not the bitmap is that long.                *)
Filled == 0 .. 8 * (total_blocks \div 8) - 1
Cleared == 0 .. kernel_blocks - 1

(* The bitmaps mm_init may leave: memset does not reach the bits of the    *)
(* last total_blocks % 8 frames, which keep what the memory held.          *)
InitialBitmaps == { (Filled \cup junk) \ Cleared : junk \in SUBSET (Frames \ Filled) }

(* Writing over the kernel's own memory may take it down or not: that      *)
(* depends on what the linker put there.                                   *)
AfterInit == IF (Filled \cup Cleared) \cap Image = {} THEN {FALSE} ELSE BOOLEAN

Init ==
  /\ mem_bitmap \in InitialBitmaps
  /\ used_blocks = kernel_blocks
  /\ page = [p \in Pages |-> [frame |-> 0, present |-> FALSE]]
  /\ panic = FALSE
  /\ lost \in AfterInit
  /\ boot_free = Frames \ mem_bitmap

(* mm_first_free: the lowest frame whose bit is clear.                     *)
FirstFree(f) == f \notin mem_bitmap /\ \A g \in Frames : g < f => g \in mem_bitmap

(* mm_alloc_frame.  A page that has a frame keeps it and nothing happens;  *)
(* one that was given frame 0 counts as having none.                       *)
AllocFrame(p) ==
  /\ Up
  /\ page[p].frame = 0
  /\ \E f \in Frames :
       /\ FirstFree(f)
       /\ mem_bitmap' = mem_bitmap \cup {f}
       /\ page' = [page EXCEPT ![p] = [frame |-> f, present |-> TRUE]]
  /\ used_blocks' = used_blocks + 1
  /\ UNCHANGED <<panic, lost, boot_free>>

(* mm_alloc_frame with every bit set.                                      *)
OutOfMemory(p) ==
  /\ Up
  /\ page[p].frame = 0
  /\ Frames \subseteq mem_bitmap
  /\ panic' = TRUE
  /\ UNCHANGED <<mem_bitmap, used_blocks, page, lost, boot_free>>

(* Mutant: the page keeps the frame it gives back.                         *)
FreeFrameKeepsFrame(p) ==
  /\ Up
  /\ page[p].frame # 0
  /\ mem_bitmap' = mem_bitmap \ {page[p].frame}
  /\ used_blocks' = used_blocks - 1
  /\ UNCHANGED <<page, panic, lost, boot_free>>

(* mm_free_frame: nothing happens to a page whose frame is 0.  The present *)
(* bit is left as it was.                                                  *)
FreeFrame(p) ==
  /\ Up
  /\ page[p].frame # 0
  /\ mem_bitmap' = mem_bitmap \ {page[p].frame}
  /\ page' = [page EXCEPT ![p].frame = 0]
  /\ used_blocks' = used_blocks - 1
  /\ UNCHANGED <<panic, lost, boot_free>>

Next == \E p \in Pages : AllocFrame(p) \/ OutOfMemory(p) \/ FreeFrame(p)

Spec == Init /\ [][Next]_vars

-----------------------------------------------------------------------------
(* The counter is an unsigned number, pages name frames that exist.        *)
FrameTypeOK ==
  /\ mem_bitmap \subseteq Frames
  /\ boot_free \subseteq Frames
  /\ used_blocks \in Nat
  /\ page \in [Pages -> [frame : Frames \cup {0}, present : BOOLEAN]]
  /\ panic \in BOOLEAN /\ lost \in BOOLEAN

(* Two pages never share a frame that mm_alloc_frame gave them, however    *)
(* allocations and frees alternate.                                        *)
FrameExclusive ==
  \A p, q \in Pages : page[p].frame # 0 /\ page[p].frame = page[q].frame => p = q

(* The bitmap is exact: the frames taken since boot are those some page    *)
(* holds, and frame 0, which mm_free_frame can never give back.            *)
FramesAccounted ==
  /\ \A p \in Pages : page[p].frame # 0 => page[p].frame \in mem_bitmap \cap boot_free
  /\ \A f \in mem_bitmap \cap boot_free : f = 0 \/ \E p \in Pages : page[p].frame = f

(* used_blocks is the kernel's frames, which mm_init counts although it    *)
(* leaves them free, plus the frames taken since.                          *)
UsedCount == used_blocks = kernel_blocks + Cardinality(mem_bitmap \cap boot_free)

(* A page whose present bit is set maps a frame that is marked used.  This *)
(* also holds for a page after mm_free_frame, which stays present and maps *)
(* frame 0: the lowest frame is the first one taken and is never freed.    *)
PresentIsMarked == \A p \in Pages : page[p].present => page[p].frame \in mem_bitmap
=============================================================================
