---------------------------- MODULE Directories ----------------------------
(***************************************************************************)
(* Page directories of kernel/mm.c on top of the frame allocator:          *)
(* mm_get_page, mm_clone_directory, which task_create and task_fork call,  *)
(* and mm_switch_page_directory, which task_schedule calls.                *)
(*                                                                         *)
(* Directories and tables are numbered in the order kmalloc_ap makes them, *)
(* directory 1 is the kernel's.  A page is <<table, entry>>.  Callers pass *)
(* any directory and any address.                                          *)
(*                                                                         *)
(* An address that the code stores stands for the block it points at.  The *)
(* module says what the kernel reads and writes; kmalloc_ap aligns nothing *)
(* to a page, so what the processor makes of these addresses is another    *)
(* matter, the one of PagingBoot.                                          *)
(***************************************************************************)
EXTENDS FrameAllocator, Sequences

CONSTANTS
  MaxDirs, MaxTables,   \* bounds of the model
  Slots,                \* the table indices of a directory (1024)
  Entries               \* the entries of a table (1024)

ASSUME DirAssumption ==
  /\ MaxDirs \in Nat \ {0} /\ MaxTables \in Nat
  /\ Slots \subseteq Nat /\ IsFiniteSet(Slots)
  /\ Entries \subseteq Nat
  /\ Pages = (1 .. MaxTables) \X Entries

VARIABLES
  tables,           \* the table of each directory and slot
  tables_physical,  \* the word of each directory and slot: the address of a table
                    \* and whether the flags were put to it
  physical_addr,    \* of each directory: the one whose tables_physical it points at
  table_count,
  current_directory, cr3,
  copied, junk,     \* history: the tables mm_clone_directory copied, and those
                    \* it copied from address 0
  released,         \* history: a frame that two pages named was given back
  inherited         \* history: the kernel's slots when a directory was made

dirVars == <<tables, tables_physical, physical_addr, table_count, current_directory,
             cr3, copied, junk, released, inherited>>
allVars == <<vars, dirVars>>

NULL == 0
NoEntry == [table |-> NULL, flags |-> FALSE]
Words(n) == [table : 0 .. n, flags : BOOLEAN]
kernel_directory == 1
Dirs == DOMAIN tables
Has(d) == { s \in Slots : tables[d][s] # NULL }

(* mm_init_paging makes the kernel's directory, without tables ...         *)
KernelDirectoryMade ==
  /\ tables = <<[s \in Slots |-> NULL]>>
  /\ tables_physical = <<[s \in Slots |-> NoEntry]>>
  /\ physical_addr = <<kernel_directory>>
  /\ table_count = 0
  /\ copied = {} /\ junk = {} /\ released = FALSE /\ inherited = <<{}>>

(* ... and loads it at its end; what it maps in between is the subject of  *)
(* PagingBoot and left open here.                                          *)
DirInit ==
  /\ Init
  /\ KernelDirectoryMade
  /\ current_directory = kernel_directory /\ cr3 = kernel_directory

-----------------------------------------------------------------------------
(* mm_get_page(addr, 1, dir): a missing table is made, zeroed, and its     *)
(* address stored twice, once with the flags (tmp | 0x7).                  *)
GetPage(d, s, t) ==
  IF tables[d][s] # NULL
    THEN t = tables[d][s] /\ UNCHANGED <<tables, tables_physical, table_count>>
    ELSE /\ t = table_count + 1 /\ t <= MaxTables
         /\ table_count' = t
         /\ tables' = [tables EXCEPT ![d][s] = t]
         /\ tables_physical' = [tables_physical EXCEPT ![d][s] = [table |-> t, flags |-> TRUE]]

(* A caller maps a page ...                                                *)
MapPage(d, s, e) ==
  /\ \E t \in 1 .. MaxTables :
       /\ GetPage(d, s, t)
       /\ \/ AllocFrame(<<t, e>>) \/ OutOfMemory(<<t, e>>)
          \/ Up /\ page[<<t, e>>].frame # 0 /\ UNCHANGED vars
  /\ UNCHANGED <<physical_addr, current_directory, cr3, copied, junk, released, inherited>>

(* ... and gives its frame back.                                           *)
UnmapPage(d, s, e) ==
  LET p == <<tables[d][s], e>>
  IN  /\ tables[d][s] # NULL
      /\ FreeFrame(p)
      /\ released' = (released \/ \E q \in Pages : q # p /\ page[q].frame = page[p].frame)
      /\ UNCHANGED <<tables, tables_physical, physical_addr, table_count,
                     current_directory, cr3, copied, junk, inherited>>

-----------------------------------------------------------------------------
(* The slots mm_clone_directory copies; it shares the kernel's other       *)
(* tables.  A table only the current directory has is in neither.          *)
Shared == { s \in Has(kernel_directory) :
              tables[current_directory][s] = tables[kernel_directory][s] }
Copies == Has(kernel_directory) \ Shared

(* The number of the table made for slot s: slots are taken in order.      *)
NewTable(s) == table_count + Cardinality({ r \in Copies : r <= s })
NewPages == { <<NewTable(s), e>> : s \in Copies, e \in Entries }

(* Mutant: the old table is not copied to the new one.                     *)
MemcpyForgotten(old) == [frame |-> 0, present |-> FALSE]

(* The entry of the new table after the memcpy of the old one.             *)
Memcpy(old) == old

(* What memory holds at address 0, read as a table, when the current       *)
(* directory lacks the one to copy.                                        *)
JunkEntries == [frame : Frames \cup {0}, present : BOOLEAN]

(* The entry that the one of a new table is made from.                     *)
OldPage(p, at0) ==
  LET o == tables[current_directory][CHOOSE s \in Copies : NewTable(s) = p[1]]
  IN  IF o = NULL THEN at0[p[2]] ELSE page[<<o, p[2]>>]

(* The loop over the entries calls mm_alloc_frame for those that have a    *)
(* frame in the old table.  It returns at once where the new entry has     *)
(* one; the others need one, and get the free frames from the lowest on in *)
(* the order of the loops.  The old entry has its frame back after each.   *)
Needy(at0) == { p \in NewPages : /\ OldPage(p, at0).frame # 0
                                 /\ Memcpy(OldPage(p, at0)).frame = 0 }

Before(p, q) == p[1] < q[1] \/ (p[1] = q[1] /\ p[2] < q[2])

Gets(p, f, at0) ==
  /\ p \in Needy(at0)
  /\ f \in Frames \ mem_bitmap
  /\ Cardinality({ g \in Frames \ mem_bitmap : g < f })
       = Cardinality({ q \in Needy(at0) : Before(q, p) })

NewPage(p, at0) ==
  IF \E f \in Frames : Gets(p, f, at0)
    THEN [frame |-> (CHOOSE f \in Frames : Gets(p, f, at0)), present |-> TRUE]
    ELSE Memcpy(OldPage(p, at0))

CopyPages(at0) ==
  LET given == { f \in Frames : \E p \in NewPages : Gets(p, f, at0) }
  IN  /\ page' = [p \in Pages |-> IF p \in NewPages THEN NewPage(p, at0) ELSE page[p]]
      /\ mem_bitmap' = mem_bitmap \cup given
      /\ used_blocks' = used_blocks + Cardinality(given)
      /\ panic' = (Cardinality(given) < Cardinality(Needy(at0)))

(* kmalloc_ap is told to store the address through dir, which has no value *)
(* yet (the build makes it address 8192), and memset then clears the new   *)
(* directory with its physical_addr, which nobody sets again.              *)
ClearedAddress(d) == 0

(* Mutant: the current directory's own tables are shared as well.          *)
ClonedTableCurrent(s) ==
  IF s \in Copies THEN NewTable(s) ELSE tables[current_directory][s]

ClonedTable(s) ==
  IF s \in Shared THEN tables[kernel_directory][s]
  ELSE IF s \in Copies THEN NewTable(s)
  ELSE NULL

(* Mutant: the words are the kernel's, its table's address with them.      *)
ClonedPhysicalAll(s) == tables_physical[kernel_directory][s]

(* Shared words are the kernel's; kmalloc_ap stores that of a copy, which  *)
(* lacks the flags that mm_get_page sets.                                  *)
ClonedPhysical(s) ==
  IF s \in Shared THEN tables_physical[kernel_directory][s]
  ELSE IF s \in Copies THEN [table |-> NewTable(s), flags |-> FALSE]
  ELSE NoEntry

(* The copies are made through the frames' physical addresses, which the   *)
(* processor may translate or not.                                         *)
mm_clone_directory ==
  /\ Up
  /\ Len(tables) < MaxDirs /\ table_count + Cardinality(Copies) <= MaxTables
  /\ tables' = Append(tables, [s \in Slots |-> ClonedTable(s)])
  /\ tables_physical' = Append(tables_physical, [s \in Slots |-> ClonedPhysical(s)])
  /\ physical_addr' = Append(physical_addr, ClearedAddress(Len(tables) + 1))
  /\ table_count' = table_count + Cardinality(Copies)
  /\ \E at0 \in [Entries -> JunkEntries] : CopyPages(at0)
  /\ lost' \in IF Copies = {} THEN {FALSE} ELSE BOOLEAN
  /\ copied' = copied \cup { NewTable(s) : s \in Copies }
  /\ junk' = junk \cup { NewTable(s) : s \in Copies \ Has(current_directory) }
  /\ inherited' = Append(inherited, Has(kernel_directory))
  /\ UNCHANGED <<boot_free, released, current_directory, cr3>>

(* The processor takes the page that cr3 lies in for its directory, the    *)
(* one at address 0 after a clone: the kernel's next instruction is where  *)
(* it was, or is not.                                                      *)
mm_switch_page_directory(d) ==
  /\ Up
  /\ current_directory' = d
  /\ cr3' = physical_addr[d]
  /\ lost' \in BOOLEAN
  /\ UNCHANGED <<mem_bitmap, used_blocks, page, panic, boot_free, tables, tables_physical,
                 physical_addr, table_count, copied, junk, released, inherited>>

DirNext ==
  \/ \E d \in Dirs, s \in Slots, e \in Entries : MapPage(d, s, e) \/ UnmapPage(d, s, e)
  \/ mm_clone_directory
  \/ \E d \in Dirs : mm_switch_page_directory(d)

DirSpec == DirInit /\ [][DirNext]_allVars

-----------------------------------------------------------------------------
(* Directories, tables and frames have their ranges.                       *)
DirTypeOK ==
  /\ tables \in Seq([Slots -> 0 .. table_count]) /\ Len(tables) \in 1 .. MaxDirs
  /\ tables_physical \in Seq([Slots -> Words(table_count)])
  /\ Len(tables_physical) = Len(tables)
  /\ physical_addr \in Seq(0 .. MaxDirs) /\ Len(physical_addr) = Len(tables)
  /\ inherited \in Seq(SUBSET Slots) /\ Len(inherited) = Len(tables)
  /\ table_count \in 0 .. MaxTables
  /\ current_directory \in Dirs /\ cr3 \in 0 .. MaxDirs
  /\ junk \subseteq copied /\ copied \subseteq 1 .. table_count
  /\ released \in BOOLEAN
  /\ junk = {} /\ ~released => FrameTypeOK

(* Two pages name one frame only where mm_clone_directory made one of      *)
(* their tables, and they are the same entry of both.                      *)
SharedByCopy ==
  \A p, q \in Pages :
    p # q /\ page[p].frame = page[q].frame /\ page[p].frame # 0
      => p[2] = q[2] /\ {p[1], q[1]} \cap copied # {}

(* However directories are cloned, shared, extended and switched, a frame  *)
(* has two pages only by a copy, none is lost and used_blocks is right, as *)
(* long as no table was read at address 0 and no shared frame given back.  *)
FramesExact == junk = {} /\ ~released => SharedByCopy /\ FramesAccounted /\ UsedCount

(* A copied table gets no frame of its own: mm_alloc_frame takes none for  *)
(* it, it maps, entry by entry, the frames of the table it was made from,  *)
(* and a write through either shows in the other.                          *)
CopyAliases ==
  [][\A t \in copied' \ (copied \cup junk') :
       /\ mem_bitmap' = mem_bitmap
       /\ \E o \in 1 .. table_count : \A e \in Entries :
            page'[<<t, e>>] = page'[<<o, e>>]]_allVars

(* Two directories share no table but the kernel's: what a task maps in a  *)
(* table of its own is never seen, nor inherited, by another.              *)
PrivateTables ==
  \A d, c \in Dirs, s \in Slots :
    d # c /\ tables[d][s] # NULL /\ tables[d][s] = tables[c][s]
      => tables[d][s] = tables[kernel_directory][s]

(* The kernel's tables at the time of the clone are all in it, as the      *)
(* kernel's own or as a copy, and tables_physical names the same tables as *)
(* tables: with the flags, but for the copies, which have none.            *)
KernelInherited ==
  \A d \in Dirs :
    /\ \A s \in inherited[d] : tables[d][s] \in copied \cup {tables[kernel_directory][s]}
    /\ \A s \in Slots :
         tables_physical[d][s] =
           [table |-> tables[d][s], flags |-> tables[d][s] \notin copied \cup {NULL}]
=============================================================================
