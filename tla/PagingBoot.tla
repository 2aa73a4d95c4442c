----------------------------- MODULE PagingBoot -----------------------------
(***************************************************************************)
(* mm_init_paging of kernel/mm.c, the step of kernel_main that follows     *)
(* mm_init: it makes the kernel's directory, maps the kernel's pages, then *)
(* the heap's, and turns paging on.  A turn of its loops maps one page as  *)
(* in Directories; no directory is loaded until the end.                   *)
(*                                                                         *)
(* addr is the number of a page, address / PAGE_SIZE.  Where the tables    *)
(* lie in memory is counted in words from KERNEL_HEAP_START: a page has    *)
(* ENTRIES of them.                                                        *)
(***************************************************************************)
EXTENDS Directories

CONSTANTS
  SLOTS, ENTRIES,  \* tables of a directory, entries of a table (1024)
  HeapPage,        \* KERNEL_HEAP_START / PAGE_SIZE
  HeapPages,       \* KERNEL_HEAP_SIZE / PAGE_SIZE
  HeaderWords      \* words of a mem_block_t (4)

(* mem_size is a 32-bit number, so there are fewer frames than pages.  The *)
(* bound MaxTables leaves room for a directory without gaps.  Either half  *)
(* of a page_directory_t has the size of a page.                           *)
ASSUME BootAssumption ==
  /\ SLOTS \in Nat /\ Slots = 0 .. SLOTS - 1
  /\ ENTRIES \in Nat \ {0} /\ Entries = 0 .. ENTRIES - 1
  /\ total_blocks < SLOTS * ENTRIES
  /\ MaxTables >= SLOTS
  /\ HeapPage \in Nat
  /\ HeapPages \in Nat
  /\ HeapPage + HeapPages <= SLOTS * ENTRIES
  /\ SLOTS = ENTRIES /\ HeaderWords \in 1 .. ENTRIES - 1
  /\ kernel_blocks <= HeapPage

VARIABLES
  boot,            \* "kernel" and "heap", the two loops; "on", returned
  addr             \* the loop variable

bootVars == <<allVars, boot, addr>>

BootInit ==
  /\ Init
  /\ KernelDirectoryMade
  /\ current_directory = NULL /\ cr3 = NULL
  /\ boot = "kernel"
  /\ addr = 0

(* Mutant: the loop counts a page it has not mapped.                       *)
MapKernelPageSkips(p) ==
  /\ MapPage(kernel_directory, p \div ENTRIES, p % ENTRIES)
  /\ addr' = IF panic' THEN addr ELSE p + 2
  /\ UNCHANGED boot

(* The body of either loop.                                                *)
MapKernelPage(p) ==
  /\ MapPage(kernel_directory, p \div ENTRIES, p % ENTRIES)
  /\ addr' = IF panic' THEN addr ELSE p + 1
  /\ UNCHANGED boot

(* Mutant: the bound of the first loop is read once, before the loop.      *)
mm_init_paging_fixed_bound ==
  /\ Up
  /\ boot # "on"
  /\ LET end == IF boot = "kernel" THEN kernel_blocks ELSE HeapPage + HeapPages
     IN  IF addr < end THEN MapKernelPage(addr)
         ELSE IF boot = "kernel" THEN boot' = "heap" /\ addr' = HeapPage /\ UNCHANGED allVars
         ELSE boot' = "on" /\ mm_switch_page_directory(kernel_directory) /\ UNCHANGED addr

(* One turn of mm_init_paging.  The first loop compares with used_blocks,  *)
(* which mm_alloc_frame advances in the loop's body.                       *)
mm_init_paging ==
  /\ Up
  /\ boot # "on"
  /\ LET end == IF boot = "kernel" THEN used_blocks ELSE HeapPage + HeapPages
     IN  IF addr < end THEN MapKernelPage(addr)
         ELSE IF boot = "kernel" THEN boot' = "heap" /\ addr' = HeapPage /\ UNCHANGED allVars
         ELSE boot' = "on" /\ mm_switch_page_directory(kernel_directory) /\ UNCHANGED addr

BootSpec == BootInit /\ [][mm_init_paging]_bootVars

(* The boot code runs with interrupts off and nothing else to do.          *)
BootFairSpec == BootSpec /\ WF_bootVars(mm_init_paging)

-----------------------------------------------------------------------------
(* Mutant: kmalloc_ap takes the next page, as if it used page_align.       *)
BlockAtAligned(k) == (IF k = 0 THEN 1 ELSE k + 3) * ENTRIES

(* The word behind the header of the block that kmalloc_ap hands out for   *)
(* the directory (0), then for the tables in the order they are made.      *)
(* Nothing else is on the heap: each block takes the start of the one hole *)
(* there is.                                                               *)
BlockAt(k) ==
  IF k = 0 THEN HeaderWords
  ELSE 2 * SLOTS + 1 + 2 * HeaderWords + (k - 1) * (ENTRIES + HeaderWords)

EntryAt(s) == BlockAt(0) + SLOTS + s
PageBase(w) == w - (w % ENTRIES)

(* The frames that the word at w, read as an entry, leads the processor    *)
(* to: it looks at the present bit and the number of the page.  Headers,   *)
(* the pointers of tables and physical_addr are even, hence not present.   *)
PointsTo(w) ==
  { HeapPage + BlockAt(tables_physical[kernel_directory][s].table) \div ENTRIES :
      s \in { s \in Slots : EntryAt(s) = w /\ tables_physical[kernel_directory][s].flags } }
  \cup
  { page[p].frame : p \in { p \in Pages : /\ p[1] <= table_count /\ page[p].present
                                        /\ BlockAt(p[1]) + p[2] = w } }

(* The frames where the processor would find page p if the kernel's        *)
(* directory were loaded: the low bits of cr3 and of the entries are not   *)
(* part of an address.                                                     *)
Walk(p) ==
  UNION { PointsTo(((F - HeapPage) * ENTRIES) + (p % ENTRIES)) :
            F \in PointsTo(PageBase(EntryAt(0)) + (p \div ENTRIES)) }

-----------------------------------------------------------------------------
(* The entries that mm_get_page names for the kernel's pages hold the      *)
(* frames of the same number: the first free frame is always the one the   *)
(* loop has reached.  This is what the kernel wrote, not what the          *)
(* processor reads.                                                        *)
IdentityMapped ==
  \A p \in 0 .. addr - 1 : p < kernel_blocks =>
    LET slot == p \div ENTRIES
    IN  /\ slot \in Has(kernel_directory)
        /\ page[<<tables[kernel_directory][slot], p % ENTRIES>>] = [frame |-> p, present |-> TRUE]

(* kmalloc_a aligns nothing: the directory and the tables lie behind the   *)
(* headers of their blocks, and the processor, which starts at a page,     *)
(* reads the neighbours of the entries that were meant.  At no time would  *)
(* it find a page of the kernel where the kernel is.                       *)
KernelUnseen == \A p \in 0 .. kernel_blocks - 1 : p \notin Walk(p)

(* The first loop never ends: its bound runs ahead of its variable by the  *)
(* kernel's frames, so paging is not turned on.                            *)
LoopOutrun == boot = "kernel" /\ used_blocks = addr + kernel_blocks /\ cr3 = NULL

(* The boot ends in kernel_panic("Out of memory"), whatever the memory,    *)
(* unless mm_init wrote over the kernel.                                   *)
BootPanics == <>(panic \/ lost)
=============================================================================
