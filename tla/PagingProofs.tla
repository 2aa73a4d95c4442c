---------------------------- MODULE PagingProofs ----------------------------
(***************************************************************************)
(* Proofs about memory management: FrameAllocator, for every number of     *)
(* frames, of kernel frames and of pages; Directories, for every number of *)
(* directories, tables, slots and entries; PagingBoot, for every memory    *)
(* and kernel size.  The later two take the steps of the first and build   *)
(* on its invariant.                                                       *)
(***************************************************************************)
EXTENDS PagingBoot, FiniteSetTheorems, SequenceTheorems, TLAPS

-----------------------------------------------------------------------------
(* FrameAllocator.                                                         *)

(* What the invariants of the run leave unsaid: a frame that was not free  *)
(* at boot stays marked, and frame 0 is marked once any page is present.   *)
FrameHistory ==
  /\ Frames \ boot_free \subseteq mem_bitmap
  /\ \A p \in Pages : page[p].present => 0 \in mem_bitmap

(* What needs no exclusive frames.  UsedCount needs FramesAccounted (a     *)
(* freed frame is one the counter has counted) and FrameHistory (so is a   *)
(* new one).                                                               *)
FrameBase ==
  /\ FrameTypeOK
  /\ FramesAccounted
  /\ UsedCount
  /\ FrameHistory

(* The inductive invariant.  FramesAccounted needs FrameExclusive where a  *)
(* frame is released: nobody else holds it.                                *)
FrameInv == FrameBase /\ FrameExclusive

(* The frames taken since boot are finitely many.                          *)
LEMMA TakenFinite == FrameTypeOK => IsFiniteSet(mem_bitmap \cap boot_free)
<1> SUFFICES ASSUME FrameTypeOK PROVE IsFiniteSet(mem_bitmap \cap boot_free)
  OBVIOUS
<1>1. IsFiniteSet(Frames)
  <2>1. total_blocks - 1 \in Int
    BY FrameAssumption
  <2> QED BY <2>1, FS_Interval DEF Frames
<1>2. mem_bitmap \cap boot_free \in SUBSET Frames
  BY DEF FrameTypeOK
<1> QED BY <1>1, <1>2, FS_Subset

(* The whole bytes of the bitmap hold no more bits than there are frames.  *)
LEMMA FilledFrames == Filled \subseteq Frames
<1>1. ASSUME NEW n \in Nat
      PROVE  8 * (n \div 8) <= n
  OBVIOUS
<1> QED BY <1>1, FrameAssumption DEF Filled, Frames

(* mm_init establishes the invariant.                                      *)
LEMMA InitFrameInv == Init => FrameInv
<1> SUFFICES ASSUME Init PROVE FrameInv
  OBVIOUS
<1>1. mem_bitmap \subseteq Frames
  BY FilledFrames DEF Init, InitialBitmaps
<1>2. mem_bitmap \cap boot_free = {} /\ boot_free \subseteq Frames
  BY <1>1 DEF Init
<1>3. lost \in BOOLEAN
  BY DEF Init, AfterInit
<1>4. FrameTypeOK /\ FrameExclusive /\ FrameHistory
  BY <1>1, <1>2, <1>3, FrameAssumption DEF Init, FrameTypeOK, FrameExclusive, FrameHistory
<1>5. FramesAccounted
  BY <1>2 DEF Init, FramesAccounted
<1>6. UsedCount
  <2>1. Cardinality(mem_bitmap \cap boot_free) = 0
    BY <1>2, FS_EmptySet
  <2> QED BY <2>1, FrameAssumption DEF Init, UsedCount
<1> QED BY <1>4, <1>5, <1>6 DEF FrameInv, FrameBase

(* mm_alloc_frame: the frame it takes was unmarked, so nobody holds it and *)
(* it counts once.                                                         *)
LEMMA AllocBase ==
  ASSUME FrameBase, NEW p \in Pages, AllocFrame(p)
  PROVE  /\ FrameBase'
         /\ \A q \in Pages : q # p => page'[q] = page[q]
         /\ \A q \in Pages : page[q].frame # 0 => page[q].frame # page'[p].frame
<1> DEFINE T == mem_bitmap \cap boot_free
<1>1. PICK f \in Frames :
        /\ FirstFree(f)
        /\ mem_bitmap' = mem_bitmap \cup {f}
        /\ page' = [page EXCEPT ![p] = [frame |-> f, present |-> TRUE]]
  BY DEF AllocFrame
<1>2. page[p].frame = 0 /\ used_blocks' = used_blocks + 1 /\ UNCHANGED <<panic, lost, boot_free>>
  BY DEF AllocFrame
<1>3. f \notin mem_bitmap /\ f \in boot_free /\ (f # 0 => 0 \in mem_bitmap)
  <2>1. f # 0 => 0 \in Frames /\ 0 < f
    BY FrameAssumption DEF Frames
  <2> QED BY <2>1, <1>1 DEF FirstFree, FrameBase, FrameHistory
<1>4. /\ page'[p].frame = f /\ page'[p].present
      /\ \A q \in Pages : q # p => page'[q] = page[q]
  BY <1>1 DEF FrameBase, FrameTypeOK
<1>5. FrameTypeOK'
  BY <1>1, <1>2, FrameAssumption DEF FrameBase, FrameTypeOK, Frames
<1>6. \A q \in Pages : page[q].frame # 0 => page[q].frame # f
  BY <1>3 DEF FrameBase, FramesAccounted
<1>7. FramesAccounted'
  <2>1. ASSUME NEW q \in Pages, page'[q].frame # 0
        PROVE  page'[q].frame \in mem_bitmap' \cap boot_free'
    BY <2>1, <1>1, <1>2, <1>3, <1>4 DEF FrameBase, FramesAccounted
  <2>2. ASSUME NEW g \in mem_bitmap' \cap boot_free', g # 0
        PROVE  \E q \in Pages : page'[q].frame = g
    <3>1. CASE g = f
      BY <3>1, <1>4
    <3>2. CASE g # f
      <4>1. PICK q \in Pages : page[q].frame = g
        BY <3>2, <2>2, <1>1, <1>2 DEF FrameBase, FramesAccounted
      <4> QED BY <4>1, <2>2, <1>2, <1>4
    <3> QED BY <3>1, <3>2
  <2> QED BY <2>1, <2>2 DEF FramesAccounted
<1>8. UsedCount'
  <2>1. (mem_bitmap \cap boot_free)' = T \cup {f} /\ f \notin T
    BY <1>1, <1>2, <1>3
  <2>2. IsFiniteSet(T)
    BY TakenFinite DEF FrameBase
  <2>3. Cardinality(T) \in Nat /\ Cardinality(T \cup {f}) = Cardinality(T) + 1
    BY <2>1, <2>2, FS_AddElement, FS_CardinalityType
  <2> QED BY <2>1, <2>3, <1>2, FrameAssumption DEF FrameBase, UsedCount
<1>9. FrameHistory'
  BY <1>1, <1>2, <1>3, <1>4 DEF FrameBase, FrameHistory
<1> QED BY <1>4, <1>5, <1>6, <1>7, <1>8, <1>9 DEF FrameBase

(* mm_free_frame, where only the page passed holds the frame, which is not *)
(* frame 0.                                                                *)
LEMMA FreeBase ==
  ASSUME FrameBase, NEW p \in Pages, FreeFrame(p),
         \A q \in Pages : q # p => page[q].frame # page[p].frame
  PROVE  /\ FrameBase'
         /\ page'[p].frame = 0
         /\ \A q \in Pages : q # p => page'[q] = page[q]
<1> DEFINE T == mem_bitmap \cap boot_free
           f == page[p].frame
<1>1. /\ f # 0 /\ mem_bitmap' = mem_bitmap \ {f} /\ page' = [page EXCEPT ![p].frame = 0]
      /\ used_blocks' = used_blocks - 1 /\ UNCHANGED <<panic, lost, boot_free>>
  BY DEF FreeFrame
<1>2. f \in T /\ \A q \in Pages : q # p => page[q].frame # f
  BY <1>1 DEF FrameBase, FramesAccounted
<1>3. /\ page'[p].frame = 0 /\ page'[p].present = page[p].present
      /\ \A q \in Pages : q # p => page'[q] = page[q]
  BY <1>1 DEF FrameBase, FrameTypeOK
<1>4. (mem_bitmap \cap boot_free)' = T \ {f}
  BY <1>1
<1>5. Cardinality(T) \in Nat \ {0} /\ Cardinality(T \ {f}) = Cardinality(T) - 1
  <2>1. IsFiniteSet(T)
    BY TakenFinite DEF FrameBase
  <2>2. T # {}
    BY <1>2
  <2>3. Cardinality(T) \in Nat /\ Cardinality(T) # 0
    BY <2>1, <2>2, FS_CardinalityType, FS_EmptySet
  <2>4. Cardinality(T \ {f}) = Cardinality(T) - 1
    BY <2>1, <1>2, FS_RemoveElement
  <2> QED BY <2>3, <2>4
<1>6. UsedCount' /\ used_blocks' \in Nat
  <2>1. used_blocks = kernel_blocks + Cardinality(T) /\ kernel_blocks \in Nat
    BY FrameAssumption DEF FrameBase, UsedCount
  <2>2. used_blocks' = kernel_blocks + Cardinality(T \ {f}) /\ used_blocks' \in Nat
    BY <2>1, <1>1, <1>5
  <2> QED BY <2>2, <1>4 DEF UsedCount
<1>7. FrameTypeOK'
  <2>1. page' \in [Pages -> [frame : Frames \cup {0}, present : BOOLEAN]]
    BY <1>1 DEF FrameBase, FrameTypeOK
  <2> QED BY <2>1, <1>1, <1>6 DEF FrameBase, FrameTypeOK
<1>9. FramesAccounted'
  <2>1. ASSUME NEW q \in Pages, page'[q].frame # 0
        PROVE  page'[q].frame \in mem_bitmap' \cap boot_free'
    BY <2>1, <1>1, <1>2, <1>3 DEF FrameBase, FramesAccounted
  <2>2. ASSUME NEW g \in mem_bitmap' \cap boot_free', g # 0
        PROVE  \E q \in Pages : page'[q].frame = g
    <3>1. PICK q \in Pages : page[q].frame = g /\ g # f
      BY <2>2, <1>1 DEF FrameBase, FramesAccounted
    <3> QED BY <3>1, <1>3
  <2> QED BY <2>1, <2>2 DEF FramesAccounted
<1>10. FrameHistory'
  <2>1. Frames \ boot_free \subseteq mem_bitmap'
    BY <1>1, <1>2 DEF FrameBase, FrameHistory
  <2>2. \A q \in Pages : page'[q].present => 0 \in mem_bitmap'
    BY <1>1, <1>3 DEF FrameBase, FrameHistory
  <2> QED BY <2>1, <2>2, <1>1 DEF FrameHistory
<1> QED BY <1>3, <1>6, <1>7, <1>9, <1>10 DEF FrameBase

(* A step that leaves the frames alone, whether or not the kernel goes on. *)
LEMMA SameFrames ==
  ASSUME FrameBase, UNCHANGED <<mem_bitmap, used_blocks, page, boot_free>>,
         panic' \in BOOLEAN, lost' \in BOOLEAN
  PROVE  FrameBase'
BY DEF FrameBase, FrameTypeOK, FramesAccounted, UsedCount, FrameHistory

(* Every operation keeps the invariant.                                    *)
LEMMA FrameInductive == FrameInv /\ [Next]_vars => FrameInv'
<1> SUFFICES ASSUME FrameInv, [Next]_vars PROVE FrameInv'
  OBVIOUS
<1>1. ASSUME NEW p \in Pages, AllocFrame(p) PROVE FrameInv'
  <2>1. /\ FrameBase' /\ \A q \in Pages : q # p => page'[q] = page[q]
        /\ \A q \in Pages : page[q].frame # 0 => page[q].frame # page'[p].frame
    BY <1>1, AllocBase DEF FrameInv
  <2>2. FrameExclusive'
    BY <2>1 DEF FrameInv, FrameExclusive
  <2> QED BY <2>1, <2>2 DEF FrameInv
<1>2. ASSUME NEW p \in Pages, OutOfMemory(p) PROVE FrameInv'
  <2>1. UNCHANGED <<mem_bitmap, used_blocks, page, lost, boot_free>> /\ panic' \in BOOLEAN
    BY <1>2 DEF OutOfMemory
  <2>2. FrameBase'
    BY <2>1, SameFrames DEF FrameInv, FrameBase, FrameTypeOK
  <2> QED BY <2>1, <2>2 DEF FrameInv, FrameExclusive
<1>3. ASSUME NEW p \in Pages, FreeFrame(p) PROVE FrameInv'
  <2>1. page[p].frame # 0
    BY <1>3 DEF FreeFrame
  <2>2. \A q \in Pages : q # p => page[q].frame # page[p].frame
    BY <2>1 DEF FrameInv, FrameExclusive
  <2>3. FrameBase' /\ page'[p].frame = 0 /\ \A q \in Pages : q # p => page'[q] = page[q]
    BY <1>3, <2>2, FreeBase DEF FrameInv
  <2>4. FrameExclusive'
    BY <2>3 DEF FrameInv, FrameExclusive
  <2> QED BY <2>3, <2>4 DEF FrameInv
<1>4. CASE UNCHANGED vars
  <2>1. UNCHANGED <<mem_bitmap, used_blocks, page, panic, lost, boot_free>>
    BY <1>4 DEF vars
  <2>2. FrameBase'
    BY <2>1, SameFrames DEF FrameInv, FrameBase, FrameTypeOK
  <2> QED BY <2>1, <2>2 DEF FrameInv, FrameExclusive
<1> QED BY <1>1, <1>2, <1>3, <1>4 DEF Next

(* The invariant holds in every reachable state.                           *)
THEOREM FrameInvariant == Spec => []FrameInv
BY InitFrameInv, FrameInductive, PTL DEF Spec

(* No frame is ever mapped by two pages.                                   *)
THEOREM FramesExclusive == Spec => []FrameExclusive
BY FrameInvariant, PTL DEF FrameInv

(* No frame but frame 0 leaks, and none is handed out while held.          *)
THEOREM FramesNeverLeak == Spec => []FramesAccounted
BY FrameInvariant, PTL DEF FrameInv, FrameBase

(* What mm_get_used_memory reports: the kernel's frames plus those taken.  *)
THEOREM UsedBlocksCounts == Spec => []UsedCount
BY FrameInvariant, PTL DEF FrameInv, FrameBase

(* A present page maps a frame marked used, freed pages included.          *)
THEOREM PresentPagesMarked == Spec => []PresentIsMarked
<1>1. FrameInv => PresentIsMarked
  BY DEF FrameInv, FrameBase, FrameHistory, FramesAccounted, PresentIsMarked
<1> QED BY <1>1, FrameInvariant, PTL

-----------------------------------------------------------------------------
(* Directories.                                                            *)

(* What the properties of the run leave unsaid: the kernel's tables are    *)
(* never copies, and its slots at the time of a clone stay filled.         *)
KernelOwn ==
  /\ \A s \in Slots : tables[kernel_directory][s] \notin copied
  /\ \A d \in Dirs : \A s \in inherited[d] : tables[kernel_directory][s] # NULL

(* The pages of tables not made yet have no frame: a copy loses none.      *)
Blank == \A p \in Pages : p[1] > table_count => page[p].frame = 0

(* What holds of the frames until a table is read at address 0 or a shared *)
(* frame is given back.                                                    *)
FrameShared == FrameBase /\ SharedByCopy /\ Blank

(* The inductive invariant.  SharedByCopy needs FramesAccounted (a frame   *)
(* that is taken has no page yet), and that the kernel's tables and those  *)
(* of a directory are told apart by their numbers.                         *)
DirInv ==
  /\ DirTypeOK
  /\ junk = {} /\ ~released => FrameShared
  /\ PrivateTables
  /\ KernelInherited
  /\ KernelOwn

(* More tables have more words.                                            *)
LEMMA WordsGrow ==
  ASSUME NEW m \in Nat, NEW n \in Nat, m <= n
  PROVE  /\ Words(m) \subseteq Words(n)
         /\ \A t \in 0 .. n, b \in BOOLEAN : [table |-> t, flags |-> b] \in Words(n)
<1>1. 0 .. m \subseteq 0 .. n
  OBVIOUS
<1> QED BY <1>1, Zenon DEF Words

(* What the types say of a directory and its tables.                       *)
LEMMA DirFacts ==
  ASSUME DirInv
  PROVE  /\ Dirs = 1 .. Len(tables) /\ Len(tables) \in Nat \ {0} /\ kernel_directory \in Dirs
         /\ table_count \in Nat /\ table_count \in 0 .. MaxTables
         /\ tables \in [1 .. Len(tables) -> [Slots -> 0 .. table_count]]
         /\ \A d \in Dirs, s \in Slots : tables[d][s] \in 0 .. table_count
         /\ \A d \in Dirs : inherited[d] \subseteq Slots
         /\ \A d \in Dirs : physical_addr[d] \in 0 .. MaxDirs
         /\ copied \subseteq 1 .. table_count /\ junk \subseteq copied
         /\ current_directory \in Dirs /\ cr3 \in 0 .. MaxDirs /\ released \in BOOLEAN
<1>1. /\ tables \in Seq([Slots -> 0 .. table_count]) /\ Len(tables) \in 1 .. MaxDirs
      /\ physical_addr \in Seq(0 .. MaxDirs) /\ Len(physical_addr) = Len(tables)
      /\ inherited \in Seq(SUBSET Slots) /\ Len(inherited) = Len(tables)
      /\ table_count \in 0 .. MaxTables
      /\ current_directory \in Dirs /\ cr3 \in 0 .. MaxDirs /\ released \in BOOLEAN
      /\ copied \subseteq 1 .. table_count /\ junk \subseteq copied
  BY DEF DirInv, DirTypeOK
<1>2. Dirs = 1 .. Len(tables) /\ Len(tables) \in Nat \ {0}
  BY <1>1, DirAssumption DEF Dirs
<1>3. kernel_directory \in Dirs
  BY <1>2 DEF kernel_directory
<1>4. table_count \in Nat
  BY <1>1, DirAssumption
<1>5. tables \in [1 .. Len(tables) -> [Slots -> 0 .. table_count]]
  BY <1>1
<1>6. \A d \in Dirs, s \in Slots : tables[d][s] \in 0 .. table_count
  BY <1>2, <1>5
<1>7. \A d \in Dirs : inherited[d] \in SUBSET Slots
  BY <1>1, <1>2, ElementOfSeq
<1>8. \A d \in Dirs : physical_addr[d] \in 0 .. MaxDirs
  BY <1>1, <1>2, ElementOfSeq
<1> QED BY <1>1, <1>2, <1>3, <1>4, <1>5, <1>6, <1>7, <1>8

(* mm_init_paging leaves one directory, the one in cr3.                    *)
LEMMA InitDirInv == DirInit => DirInv
<1> SUFFICES ASSUME DirInit PROVE DirInv
  OBVIOUS
<1>1. FrameInv
  BY InitFrameInv DEF DirInit
<1>2. /\ Len(tables) = 1 /\ Dirs = {1} /\ tables[1] = [s \in Slots |-> NULL]
      /\ tables \in Seq([Slots -> 0 .. table_count])
      /\ table_count = 0
  BY DEF DirInit, KernelDirectoryMade, Dirs, NULL
<1>3. /\ tables_physical \in Seq([Slots -> Words(table_count)])
      /\ Len(tables_physical) = 1
      /\ \A s \in Slots : tables_physical[1][s] = [table |-> 0, flags |-> FALSE]
      /\ physical_addr \in Seq(0 .. MaxDirs) /\ Len(physical_addr) = 1
      /\ inherited \in Seq(SUBSET Slots) /\ Len(inherited) = 1 /\ inherited[1] = {}
  BY DirAssumption DEF DirInit, KernelDirectoryMade, kernel_directory, NoEntry, NULL, Words
<1>4. /\ current_directory = 1 /\ cr3 = 1 /\ copied = {} /\ junk = {} /\ released = FALSE
      /\ page = [p \in Pages |-> [frame |-> 0, present |-> FALSE]]
  BY DEF DirInit, Init, KernelDirectoryMade, kernel_directory
<1>5. DirTypeOK
  <2>1. 1 \in 1 .. MaxDirs /\ 1 \in 0 .. MaxDirs /\ 0 \in 0 .. MaxTables
    BY DirAssumption
  <2>2. FrameTypeOK
    BY <1>1 DEF FrameInv, FrameBase
  <2> QED BY <2>1, <2>2, <1>2, <1>3, <1>4 DEF DirTypeOK
<1>6. PrivateTables /\ KernelInherited /\ KernelOwn
  BY <1>2, <1>3, <1>4 DEF PrivateTables, KernelInherited, KernelOwn, kernel_directory, NULL
<1>7. FrameShared
  BY <1>1, <1>4 DEF FrameShared, FrameInv, SharedByCopy, Blank
<1> QED BY <1>5, <1>6, <1>7 DEF DirInv

(* What mm_get_page does to the tables: it leaves all entries but the one  *)
(* it fills, which was empty, with a table nobody has.                     *)
LEMMA GetPageInv ==
  ASSUME DirInv, NEW d \in Dirs, NEW s \in Slots, NEW t \in 1 .. MaxTables,
         GetPage(d, s, t), copied' = copied, junk' = junk, inherited' = inherited,
         physical_addr' = physical_addr, current_directory' = current_directory, cr3' = cr3,
         released' = released, junk = {} /\ ~released => FrameShared'
  PROVE  DirInv'
<1>1. CASE tables[d][s] # NULL
  <2>1. UNCHANGED dirVars
    BY <1>1 DEF GetPage, dirVars
  <2>2. DirTypeOK'
    BY <2>1 DEF DirInv, dirVars, DirTypeOK, FrameShared, FrameBase, Dirs
  <2>3. PrivateTables' /\ KernelInherited' /\ KernelOwn'
    BY <2>1 DEF DirInv, dirVars, PrivateTables, KernelInherited, KernelOwn,
                Dirs, kernel_directory, NULL
  <2> QED BY <2>1, <2>2, <2>3 DEF DirInv, dirVars
<1>2. CASE tables[d][s] = NULL
  <2> DEFINE W == [table |-> t, flags |-> TRUE]
  <2>1. /\ t = table_count + 1 /\ table_count' = t
        /\ tables' = [tables EXCEPT ![d] = [tables[d] EXCEPT ![s] = t]]
        /\ tables_physical' = [tables_physical EXCEPT ![d] = [tables_physical[d] EXCEPT ![s] = W]]
    BY <1>2 DEF GetPage
  <2>2. /\ tables \in Seq([Slots -> 0 .. table_count]) /\ table_count \in Nat
        /\ tables_physical \in Seq([Slots -> Words(table_count)]) /\ Len(tables_physical) = Len(tables)
        /\ Dirs = 1 .. Len(tables)
    BY DirAssumption DEF DirInv, DirTypeOK, Dirs
  <2>3. /\ tables' \in Seq([Slots -> 0 .. table_count'])
        /\ Len(tables') = Len(tables) /\ Dirs' = Dirs
    <3>1. tables \in [1 .. Len(tables) -> [Slots -> 0 .. table_count']]
      <4>1. tables \in [1 .. Len(tables) -> [Slots -> 0 .. table_count]]
        BY DirFacts
      <4>2. 0 .. table_count \subseteq 0 .. table_count'
        BY <2>1, <2>2
      <4> QED BY <4>1, <4>2
    <3>2. tables' \in [1 .. Len(tables) -> [Slots -> 0 .. table_count']]
      BY <3>1, <2>1, <2>2
    <3>3. Len(tables) \in Nat
      BY <2>2
    <3>4. tables' \in Seq([Slots -> 0 .. table_count'])
      BY <3>2, <3>3, SeqDef
    <3>5. DOMAIN tables' = 1 .. Len(tables)
      BY <3>2
    <3>6. Len(tables') = Len(tables)
      BY <3>3, <3>4, <3>5, LenProperties
    <3> QED BY <3>4, <3>5, <3>6, <2>2 DEF Dirs
  <2>4. /\ tables_physical' \in Seq([Slots -> Words(table_count')])
        /\ Len(tables_physical') = Len(tables_physical)
        /\ tables_physical'[d][s] = W
        /\ \A c \in Dirs, r \in Slots :
             c # d \/ r # s => tables_physical'[c][r] = tables_physical[c][r]
    <3>1. Words(table_count) \subseteq Words(table_count') /\ W \in Words(table_count')
      <4>1. table_count \in Nat /\ table_count' \in Nat /\ table_count <= table_count'
        BY <2>1, <2>2
      <4>2. t \in 0 .. table_count'
        BY <2>1, <4>1
      <4> QED BY <4>1, <4>2, WordsGrow
    <3>2. tables_physical \in [1 .. Len(tables) -> [Slots -> Words(table_count)]]
      BY <2>2
    <3> HIDE DEF W
    <3>3. tables_physical \in [1 .. Len(tables) -> [Slots -> Words(table_count')]]
      BY <3>1, <3>2
    <3>4. tables_physical' \in [1 .. Len(tables) -> [Slots -> Words(table_count')]]
      BY <3>1, <3>3, <2>1, <2>2
    <3>5. Len(tables) \in Nat
      BY <2>2
    <3>6. tables_physical' \in Seq([Slots -> Words(table_count')])
      BY <3>4, <3>5, SeqDef
    <3>7. Len(tables_physical') = Len(tables)
      BY <3>4, <3>5, <3>6, LenProperties
    <3>8. /\ tables_physical'[d][s] = W
          /\ \A c \in Dirs, r \in Slots :
               c # d \/ r # s => tables_physical'[c][r] = tables_physical[c][r]
      BY <3>3, <2>1, <2>2
    <3> QED BY <3>6, <3>7, <3>8, <2>2
  <2>5. /\ tables'[d][s] = t /\ tables[d] \in [Slots -> 0 .. table_count]
        /\ \A c \in Dirs, r \in Slots : c # d \/ r # s => tables'[c][r] = tables[c][r]
        /\ \A c \in Dirs, r \in Slots : tables[c][r] \in 0 .. table_count
    <3>1. tables \in [Dirs -> [Slots -> 0 .. table_count]]
      BY <2>2, DirFacts
    <3> QED BY <3>1, <2>1
  <2>6. t \notin copied /\ t # NULL /\ 0 \notin copied /\ copied \subseteq 1 .. table_count
    BY <2>1, <2>2 DEF DirInv, DirTypeOK, NULL
  <2>7. DirTypeOK'
    <3>1. copied' \subseteq 1 .. table_count'
      BY <2>1, <2>2, <2>6
    <3>2. table_count' \in 0 .. MaxTables
      BY <2>1, DirAssumption
    <3> QED BY <3>1, <3>2, <2>2, <2>3, <2>4 DEF DirInv, DirTypeOK, FrameShared, FrameBase
  <2>8. kernel_directory \in Dirs
    BY <2>2, DirAssumption DEF DirInv, DirTypeOK, kernel_directory
  <2>9. PrivateTables'
    <3> SUFFICES ASSUME NEW b \in Dirs, NEW c \in Dirs, NEW r \in Slots,
                        b # c, tables'[b][r] # NULL, tables'[b][r] = tables'[c][r]
                 PROVE  tables'[b][r] = tables'[kernel_directory][r]
      BY <2>3 DEF PrivateTables, kernel_directory, NULL
    <3>1. tables'[b][r] = tables[b][r] /\ tables'[c][r] = tables[c][r]
      <4>1. \A a \in Dirs : tables[a][r] # t
        BY <2>1, <2>2, <2>5
      <4>2. \A a \in Dirs : a # d \/ r # s => tables'[a][r] = tables[a][r]
        BY <2>5
      <4>3. CASE r # s
        BY <4>2, <4>3
      <4>4. CASE r = s
        BY <4>1, <4>2, <4>4, <2>5
      <4> QED BY <4>3, <4>4
    <3>2. tables[b][r] = tables[kernel_directory][r]
      BY <3>1 DEF DirInv, PrivateTables
    <3> QED BY <3>1, <3>2, <2>5, <2>8, <1>2
  <2>10. KernelInherited' /\ KernelOwn'
    <3>2. \A c \in Dirs : \A r \in inherited[c] :
            /\ r \in Slots /\ tables[kernel_directory][r] # NULL
            /\ tables[c][r] \in copied \cup {tables[kernel_directory][r]}
      <4>1. \A c \in Dirs : inherited[c] \subseteq Slots
        BY DirFacts
      <4> QED BY <4>1 DEF DirInv, KernelInherited, KernelOwn
    <3>3. \A c \in Dirs : \A r \in inherited[c] :
            tables'[kernel_directory][r] = tables[kernel_directory][r]
            /\ tables'[c][r] = tables[c][r]
      <4>1. ASSUME NEW c \in Dirs, NEW r \in inherited[c]
            PROVE  tables[c][r] # NULL /\ r \in Slots /\ tables[kernel_directory][r] # NULL
        BY <3>2, <2>6 DEF NULL
      <4> QED BY <4>1, <1>2, <2>5, <2>8
    <3>4. ASSUME NEW c \in Dirs, NEW r \in Slots
          PROVE  tables_physical'[c][r] =
                   [table |-> tables'[c][r], flags |-> tables'[c][r] \notin copied \cup {NULL}]
      <4>1. tables_physical[c][r] =
              [table |-> tables[c][r], flags |-> tables[c][r] \notin copied \cup {NULL}]
        BY DEF DirInv, KernelInherited
      <4>2. CASE c = d /\ r = s
        BY <4>2, <2>4, <2>5, <2>6
      <4>3. CASE c # d \/ r # s
        BY <4>1, <4>3, <2>4, <2>5
      <4> QED BY <4>2, <4>3
    <3>5. KernelInherited'
      BY <3>2, <3>3, <3>4, <2>3 DEF KernelInherited, kernel_directory, NULL
    <3>6. \A r \in Slots : tables'[kernel_directory][r] \notin copied
      BY <2>5, <2>6, <2>8 DEF DirInv, KernelOwn
    <3> QED BY <3>2, <3>3, <3>5, <3>6, <2>3 DEF DirInv, KernelOwn, kernel_directory, NULL
  <2> QED BY <2>7, <2>9, <2>10 DEF DirInv
<1> QED BY <1>1, <1>2

(* Mapping a page of any directory keeps the invariant.                    *)
LEMMA MapPageInv ==
  ASSUME DirInv, NEW d \in Dirs, NEW s \in Slots, NEW e \in Entries, MapPage(d, s, e)
  PROVE  DirInv'
<1>1. PICK t \in 1 .. MaxTables :
        /\ GetPage(d, s, t)
        /\ \/ AllocFrame(<<t, e>>) \/ OutOfMemory(<<t, e>>)
           \/ Up /\ page[<<t, e>>].frame # 0 /\ UNCHANGED vars
  BY DEF MapPage
<1> DEFINE p == <<t, e>>
<1>2. /\ copied' = copied /\ junk' = junk /\ inherited' = inherited /\ released' = released
      /\ physical_addr' = physical_addr /\ current_directory' = current_directory /\ cr3' = cr3
  BY DEF MapPage
<1>3. p \in Pages /\ \A q \in Pages : q[1] \in Nat
  BY DirAssumption
<1>4. t <= table_count' /\ table_count <= table_count'
      /\ table_count \in Nat /\ table_count' \in Nat /\ t \in Nat
  <2>1. tables[d][s] \in 0 .. table_count /\ table_count \in 0 .. MaxTables
    BY DirFacts
  <2> QED BY <2>1, <1>1, DirAssumption DEF GetPage
<1>5. ASSUME junk = {}, ~released
      PROVE  FrameShared'
  <2>1. FrameBase /\ SharedByCopy /\ Blank
    BY <1>5 DEF DirInv, FrameShared
  <2>2. CASE AllocFrame(p)
    <3>1. /\ FrameBase' /\ \A q \in Pages : q # p => page'[q] = page[q]
          /\ \A q \in Pages : page[q].frame # 0 => page[q].frame # page'[p].frame
      BY <2>1, <2>2, <1>3, AllocBase
    <3>2. SharedByCopy'
      BY <3>1, <2>1, <1>2 DEF SharedByCopy
    <3>3. Blank'
      <4> SUFFICES ASSUME NEW q \in Pages, q[1] > table_count' PROVE page'[q].frame = 0
        BY DEF Blank
      <4>1. q # p /\ q[1] > table_count
        BY <1>3, <1>4
      <4> QED BY <4>1, <3>1, <2>1 DEF Blank
    <3> QED BY <3>1, <3>2, <3>3 DEF FrameShared
  <2>3. CASE OutOfMemory(p) \/ UNCHANGED vars
    <3>1. /\ UNCHANGED <<mem_bitmap, used_blocks, page, lost, boot_free>>
          /\ panic' \in {panic, TRUE}
      BY <2>3 DEF OutOfMemory, vars
    <3>2. FrameBase'
      BY <3>1, <2>1, SameFrames DEF FrameBase, FrameTypeOK
    <3>3. SharedByCopy' /\ Blank'
      BY <3>1, <2>1, <1>2, <1>3, <1>4 DEF SharedByCopy, Blank
    <3> QED BY <3>2, <3>3 DEF FrameShared
  <2> QED BY <1>1, <2>2, <2>3
<1> QED BY <1>1, <1>2, <1>5, GetPageInv

(* A page of a directory is one the frame allocator knows.                 *)
LEMMA PageOfDirectory ==
  ASSUME DirInv, NEW d \in Dirs, NEW s \in Slots, tables[d][s] # NULL, NEW e \in Entries
  PROVE  tables[d][s] \in 1 .. table_count /\ <<tables[d][s], e>> \in Pages
<1>1. tables[d][s] \in 0 .. table_count /\ table_count \in 0 .. MaxTables
  BY DirFacts
<1>2. tables[d][s] \in 1 .. table_count /\ tables[d][s] \in 1 .. MaxTables
  BY <1>1, DirAssumption DEF NULL
<1> QED BY <1>2, DirAssumption

(* A step that leaves the directories alone but for cr3, the history of    *)
(* released frames and which directory is current.                         *)
LEMMA SameDirectories ==
  ASSUME DirInv, junk' = {} /\ ~released' => FrameShared',
         UNCHANGED <<tables, tables_physical, physical_addr, table_count, copied, junk, inherited>>,
         current_directory' \in Dirs, cr3' \in 0 .. MaxDirs, released' \in BOOLEAN
  PROVE  DirInv'
<1>1. DirTypeOK'
  BY DEF DirInv, DirTypeOK, FrameShared, FrameBase, Dirs
<1>2. PrivateTables' /\ KernelInherited' /\ KernelOwn'
  BY DEF DirInv, PrivateTables, KernelInherited, KernelOwn, Dirs, kernel_directory, NULL
<1> QED BY <1>1, <1>2 DEF DirInv

(* Releasing a frame that no other page names keeps the invariant.         *)
LEMMA UnmapPageInv ==
  ASSUME DirInv, NEW d \in Dirs, NEW s \in Slots, NEW e \in Entries, UnmapPage(d, s, e)
  PROVE  DirInv'
<1> DEFINE p == <<tables[d][s], e>>
<1>1. p \in Pages
  BY PageOfDirectory DEF UnmapPage
<1>2. /\ FreeFrame(p) /\ page[p].frame # 0
      /\ released' = (released \/ \E q \in Pages : q # p /\ page[q].frame = page[p].frame)
      /\ UNCHANGED <<tables, tables_physical, physical_addr, table_count, current_directory, cr3,
                     copied, junk, inherited>>
  BY DEF UnmapPage, FreeFrame
<1> HIDE DEF p
<1>3. ASSUME junk' = {}, ~released'
      PROVE  FrameShared'
  <2>1. FrameBase /\ SharedByCopy /\ Blank
    BY <1>2, <1>3 DEF DirInv, FrameShared
  <2>2. \A q \in Pages : q # p => page[q].frame # page[p].frame
    BY <1>2, <1>3
  <2>3. FrameBase' /\ page'[p].frame = 0 /\ \A q \in Pages : q # p => page'[q] = page[q]
    BY <2>1, <2>2, <1>1, <1>2, FreeBase
  <2>4. SharedByCopy' /\ Blank'
    BY <2>1, <2>3, <1>2 DEF SharedByCopy, Blank
  <2> QED BY <2>3, <2>4 DEF FrameShared
<1>4. released' \in BOOLEAN /\ current_directory' \in Dirs /\ cr3' \in 0 .. MaxDirs
  BY <1>2 DEF DirInv, DirTypeOK
<1> QED BY <1>2, <1>3, <1>4, SameDirectories

(* So does switching.                                                      *)
LEMMA SwitchInv ==
  ASSUME DirInv, NEW d \in Dirs, mm_switch_page_directory(d)
  PROVE  DirInv'
<1>1. /\ current_directory' = d /\ cr3' = physical_addr[d] /\ lost' \in BOOLEAN
      /\ UNCHANGED <<mem_bitmap, used_blocks, page, panic, boot_free, tables, tables_physical,
                     physical_addr, table_count, copied, junk, released, inherited>>
  BY DEF mm_switch_page_directory
<1>2. ASSUME junk = {}, ~released
      PROVE  FrameShared'
  <2>1. FrameBase /\ SharedByCopy /\ Blank
    BY <1>2 DEF DirInv, FrameShared
  <2>2. FrameBase'
    BY <2>1, <1>1, SameFrames DEF FrameBase, FrameTypeOK
  <2> QED BY <2>1, <2>2, <1>1 DEF FrameShared, SharedByCopy, Blank
<1>3. cr3' \in 0 .. MaxDirs
  BY <1>1, DirFacts
<1>4. released' \in BOOLEAN /\ junk' = junk /\ released' = released
  BY <1>1 DEF DirInv, DirTypeOK
<1> QED BY <1>1, <1>2, <1>3, <1>4, SameDirectories

(* A step that changes nothing.                                            *)
LEMMA StutterInv ==
  ASSUME DirInv, UNCHANGED allVars
  PROVE  DirInv'
<1>1. /\ UNCHANGED <<mem_bitmap, used_blocks, page, panic, lost, boot_free>>
      /\ UNCHANGED <<tables, tables_physical, physical_addr, table_count, current_directory, cr3,
                     copied, junk, released, inherited>>
  BY DEF allVars, vars, dirVars
<1>2. FrameShared => FrameShared'
  <2> SUFFICES ASSUME FrameShared PROVE FrameShared'
    OBVIOUS
  <2>1. FrameBase'
    BY <1>1, SameFrames DEF FrameShared, FrameBase, FrameTypeOK
  <2> QED BY <2>1, <1>1 DEF FrameShared, SharedByCopy, Blank
<1>3. current_directory' \in Dirs /\ cr3' \in 0 .. MaxDirs /\ released' \in BOOLEAN
  BY <1>1 DEF DirInv, DirTypeOK
<1> QED BY <1>1, <1>2, <1>3, SameDirectories DEF DirInv

(* The tables mm_clone_directory makes are new, and as many as it counts.  *)
LEMMA NewTables ==
  ASSUME DirInv
  PROVE  /\ Cardinality(Copies) \in Nat
         /\ Copies \subseteq Has(kernel_directory) /\ Has(kernel_directory) \subseteq Slots
         /\ \A s \in Copies : NewTable(s) \in table_count + 1 .. table_count + Cardinality(Copies)
         /\ Copies = {} => Cardinality(Copies) = 0
<1>1. Copies \subseteq Has(kernel_directory) /\ Has(kernel_directory) \subseteq Slots
  BY DEF Copies, Has
<1>2. IsFiniteSet(Copies)
  BY <1>1, DirAssumption, FS_Subset
<1>3. Cardinality(Copies) \in Nat /\ (Copies = {} => Cardinality(Copies) = 0)
  BY <1>2, FS_CardinalityType, FS_EmptySet
<1>4. ASSUME NEW s \in Copies
      PROVE  NewTable(s) \in table_count + 1 .. table_count + Cardinality(Copies)
  <2> DEFINE U == { r \in Copies : r <= s }
  <2>1. s \in Nat
    BY <1>1, DirAssumption
  <2>2. U \in SUBSET Copies /\ s \in U
    BY <2>1
  <2>3. IsFiniteSet(U) /\ Cardinality(U) <= Cardinality(Copies)
    BY <2>2, <1>2, FS_Subset
  <2>4. Cardinality(U) \in Nat /\ Cardinality(U) # 0
    BY <2>2, <2>3, FS_CardinalityType, FS_EmptySet
  <2>5. table_count \in Nat
    BY DEF DirInv, DirTypeOK
  <2> QED BY <2>3, <2>4, <2>5, <1>3 DEF NewTable
<1> QED BY <1>1, <1>3, <1>4

(* The loops of mm_clone_directory: every entry of a new table that has a  *)
(* frame has it from the memcpy, so mm_alloc_frame takes none.             *)
LEMMA CopyEffect ==
  ASSUME DirInv, mm_clone_directory
  PROVE  /\ NewPages \subseteq Pages
         /\ mem_bitmap' = mem_bitmap /\ (used_blocks \in Int => used_blocks' = used_blocks)
         /\ panic' = FALSE
         /\ page' = [p \in Pages |-> page'[p]]
         /\ \A p \in Pages \ NewPages : page'[p] = page[p]
         /\ \A p \in NewPages : p[1] > table_count /\ p[1] \in copied' \ copied
         /\ \A p \in NewPages : p[1] <= table_count'
         /\ \A t \in copied' \ (copied \cup junk') :
              \E o \in 1 .. table_count : \A e \in Entries :
                /\ <<t, e>> \in NewPages /\ <<o, e>> \in Pages \ NewPages
                /\ page'[<<t, e>>] = page[<<o, e>>]
<1>1. PICK at0 \in [Entries -> JunkEntries] : CopyPages(at0)
  BY DEF mm_clone_directory
<1>2. \A p, f : ~Gets(p, f, at0)
  BY DEF Gets, Needy, Memcpy
<1>3. /\ page' = [p \in Pages |-> IF p \in NewPages THEN OldPage(p, at0) ELSE page[p]]
      /\ mem_bitmap' = mem_bitmap
      /\ used_blocks \in Int => used_blocks' = used_blocks
      /\ panic' = FALSE
  <2> DEFINE given == { f \in Frames : \E p \in NewPages : Gets(p, f, at0) }
  <2>1. given = {}
    BY <1>2
  <2>2. Cardinality(given) = 0
    BY <2>1, FS_EmptySet
  <2>3. Needy(at0) = {}
    BY DEF Needy, Memcpy
  <2>4. Cardinality(Needy(at0)) = 0
    BY <2>3, FS_EmptySet
  <2>5. \A p : NewPage(p, at0) = OldPage(p, at0)
    BY <1>2 DEF NewPage, Memcpy
  <2>6. /\ page' = [p \in Pages |-> IF p \in NewPages THEN NewPage(p, at0) ELSE page[p]]
        /\ mem_bitmap' = mem_bitmap \cup given
        /\ used_blocks' = used_blocks + Cardinality(given)
        /\ panic' = (Cardinality(given) < Cardinality(Needy(at0)))
    BY <1>1 DEF CopyPages
  <2> HIDE DEF given
  <2>7. page' = [p \in Pages |-> IF p \in NewPages THEN OldPage(p, at0) ELSE page[p]]
    BY <2>5, <2>6
  <2>8. (Cardinality(given) < Cardinality(Needy(at0))) = FALSE
    BY <2>2, <2>4
  <2>9. panic' = FALSE
    BY <2>6, <2>8, Zenon
  <2> QED BY <2>1, <2>2, <2>6, <2>7, <2>9
<1>4. /\ table_count \in Nat /\ Cardinality(Copies) \in Nat
      /\ table_count' = table_count + Cardinality(Copies) /\ table_count' <= MaxTables
      /\ copied' = copied \cup { NewTable(s) : s \in Copies }
      /\ junk' = junk \cup { NewTable(s) : s \in Copies \ Has(current_directory) }
      /\ copied \subseteq 1 .. table_count /\ current_directory \in Dirs
      /\ Copies \subseteq Slots
  BY NewTables DEF mm_clone_directory, DirInv, DirTypeOK
<1>5. \A s \in Copies : NewTable(s) \in 1 .. MaxTables /\ NewTable(s) > table_count
                         /\ NewTable(s) <= table_count' /\ NewTable(s) \in copied' \ copied
  BY <1>4, NewTables, DirAssumption
<1>6. ASSUME NEW p \in NewPages
      PROVE  p \in Pages /\ p[1] > table_count /\ p[1] \in copied' \ copied /\ p[1] <= table_count'
  <2>1. PICK s \in Copies, e \in Entries : p = <<NewTable(s), e>>
    BY DEF NewPages
  <2>2. p[1] = NewTable(s)
    BY <2>1
  <2> QED BY <2>1, <2>2, <1>5, DirAssumption
<1>7. ASSUME NEW t \in copied' \ (copied \cup junk')
      PROVE  \E o \in 1 .. table_count : \A e \in Entries :
                /\ <<t, e>> \in NewPages /\ <<o, e>> \in Pages \ NewPages
                /\ page'[<<t, e>>] = page[<<o, e>>]
  <2> DEFINE c == CHOOSE s \in Copies : NewTable(s) = t
             o == tables[current_directory][c]
  <2>1. c \in Copies /\ NewTable(c) = t
    BY <1>4
  <2>2. c \in Has(current_directory)
    BY <2>1, <1>4
  <2>3. c \in Slots /\ o # NULL
    BY <2>2 DEF Has
  <2>4. \A e : OldPage(<<t, e>>, at0) = IF o = NULL THEN at0[e] ELSE page[<<o, e>>]
    BY DEF OldPage
  <2> HIDE DEF c
  <2>5. o \in 1 .. table_count
    <3>1. o \in 0 .. table_count
      BY <2>3, <1>4, DirFacts
    <3> QED BY <3>1, <2>3, <1>4 DEF NULL
  <2>6. ASSUME NEW e \in Entries
        PROVE  /\ <<t, e>> \in NewPages /\ <<o, e>> \in Pages \ NewPages
               /\ page'[<<t, e>>] = page[<<o, e>>]
    <3>1. <<t, e>> \in NewPages
      BY <2>1 DEF NewPages
    <3>2. <<o, e>> \in Pages
      BY <2>5, <1>4, DirAssumption
    <3>3. <<o, e>> \notin NewPages
      <4>1. ~(o > table_count)
        BY <2>5, <1>4
      <4>2. <<o, e>>[1] = o
        OBVIOUS
      <4> HIDE DEF o
      <4> QED BY <4>1, <4>2, <1>6
    <3>4. page'[<<t, e>>] = OldPage(<<t, e>>, at0)
      BY <3>1, <1>3, <1>6
    <3>5. OldPage(<<t, e>>, at0) = page[<<o, e>>]
      BY <2>3, <2>4
    <3> QED BY <3>1, <3>2, <3>3, <3>4, <3>5
  <2> QED BY <2>5, <2>6
<1>8. page' = [p \in Pages |-> page'[p]] /\ \A p \in Pages \ NewPages : page'[p] = page[p]
  BY <1>3
<1> QED BY <1>3, <1>6, <1>7, <1>8

(* A clone keeps what is known of the frames: every page has the entry of  *)
(* one that was there, itself or the one it is a copy of.                  *)
LEMMA CloneFrames ==
  ASSUME DirInv, mm_clone_directory, junk' = {}, ~released
  PROVE  FrameShared'
<1>1. /\ junk = {} /\ copied \subseteq copied' /\ table_count <= table_count'
      /\ table_count \in Nat /\ table_count' \in Nat
      /\ boot_free' = boot_free /\ lost' \in BOOLEAN
  <2>1. /\ junk' = junk \cup { NewTable(s) : s \in Copies \ Has(current_directory) }
        /\ copied' = copied \cup { NewTable(s) : s \in Copies }
        /\ table_count' = table_count + Cardinality(Copies)
        /\ boot_free' = boot_free /\ lost' \in BOOLEAN
    BY DEF mm_clone_directory
  <2>2. table_count \in Nat /\ Cardinality(Copies) \in Nat
    BY NewTables DEF DirInv, DirTypeOK
  <2> QED BY <2>1, <2>2
<1>2. FrameBase /\ SharedByCopy /\ Blank
  BY <1>1 DEF DirInv, FrameShared
<1>3. /\ NewPages \subseteq Pages /\ mem_bitmap' = mem_bitmap /\ used_blocks' = used_blocks
      /\ panic' = FALSE /\ page' = [p \in Pages |-> page'[p]]
      /\ \A p \in Pages \ NewPages : page'[p] = page[p]
      /\ \A p \in NewPages : p[1] > table_count /\ p[1] \in copied' \ copied /\ p[1] <= table_count'
  BY <1>2, CopyEffect DEF FrameBase, FrameTypeOK
<1>4. ASSUME NEW p \in Pages
      PROVE  \E q \in Pages \ NewPages : /\ q[2] = p[2] /\ page'[p] = page[q]
                                         /\ p = q \/ p[1] \in copied'
  <2>1. CASE p \notin NewPages
    BY <2>1, <1>3
  <2>2. CASE p \in NewPages
    <3>1. p[1] \in copied' \ (copied \cup junk')
      BY <2>2, <1>3
    <3>2. PICK o \in 1 .. table_count : \A e \in Entries :
            <<o, e>> \in Pages \ NewPages /\ page'[<<p[1], e>>] = page[<<o, e>>]
      BY <3>1, CopyEffect
    <3>3. p[2] \in Entries /\ p = <<p[1], p[2]>>
      BY DirAssumption
    <3> QED BY <3>1, <3>2, <3>3
  <2> QED BY <2>1, <2>2
<1>5. \A p \in Pages : p[1] \in Nat
  BY DirAssumption
<1>6. FrameTypeOK'
  <2>1. \A p \in Pages : page'[p] \in [frame : Frames \cup {0}, present : BOOLEAN]
    BY <1>2, <1>4 DEF FrameBase, FrameTypeOK
  <2>2. page' \in [Pages -> [frame : Frames \cup {0}, present : BOOLEAN]]
    BY <2>1, <1>3
  <2> QED BY <2>2, <1>1, <1>2, <1>3 DEF FrameBase, FrameTypeOK
<1>7. FramesAccounted'
  <2>1. ASSUME NEW p \in Pages, page'[p].frame # 0
        PROVE  page'[p].frame \in mem_bitmap' \cap boot_free'
    <3>1. PICK q \in Pages : page'[p] = page[q]
      BY <1>4
    <3> QED BY <3>1, <2>1, <1>1, <1>2, <1>3 DEF FrameBase, FramesAccounted
  <2>2. ASSUME NEW f \in mem_bitmap' \cap boot_free', f # 0
        PROVE  \E p \in Pages : page'[p].frame = f
    <3>1. PICK p \in Pages : page[p].frame = f
      BY <2>2, <1>1, <1>2, <1>3 DEF FrameBase, FramesAccounted
    <3>2. ~(p[1] > table_count)
      BY <3>1, <2>2, <1>2 DEF Blank
    <3> QED BY <3>1, <3>2, <1>3
  <2> QED BY <2>1, <2>2 DEF FramesAccounted
<1>8. UsedCount'
  BY <1>1, <1>2, <1>3 DEF FrameBase, UsedCount
<1>9. FrameHistory'
  BY <1>1, <1>2, <1>3, <1>4 DEF FrameBase, FrameHistory
<1>10. SharedByCopy'
  <2> SUFFICES ASSUME NEW p \in Pages, NEW q \in Pages, p # q,
                      page'[p].frame = page'[q].frame, page'[p].frame # 0
               PROVE  p[2] = q[2] /\ {p[1], q[1]} \cap copied' # {}
    BY DEF SharedByCopy
  <2>1. PICK a \in Pages \ NewPages :
          a[2] = p[2] /\ page'[p] = page[a] /\ (p = a \/ p[1] \in copied')
    BY <1>4
  <2>2. PICK b \in Pages \ NewPages :
          b[2] = q[2] /\ page'[q] = page[b] /\ (q = b \/ q[1] \in copied')
    BY <1>4
  <2>3. CASE a = b
    BY <2>1, <2>2, <2>3
  <2>4. CASE a # b
    <3>1. a[2] = b[2] /\ {a[1], b[1]} \cap copied # {}
      BY <2>1, <2>2, <2>4, <1>2 DEF SharedByCopy
    <3> QED BY <3>1, <2>1, <2>2, <1>1
  <2> QED BY <2>3, <2>4
<1>11. Blank'
  <2> SUFFICES ASSUME NEW p \in Pages, p[1] > table_count' PROVE page'[p].frame = 0
    BY DEF Blank
  <2>1. p[1] > table_count /\ ~(p[1] <= table_count')
    BY <1>1, <1>5
  <2> QED BY <2>1, <1>2, <1>3 DEF Blank
<1> QED BY <1>6, <1>7, <1>8, <1>9, <1>10, <1>11 DEF FrameShared, FrameBase

(* A clone links the kernel's tables, and its other tables are new.        *)
LEMMA CloneInv ==
  ASSUME DirInv, mm_clone_directory
  PROVE  DirInv'
<1> PICK n : n = Len(tables) + 1
  OBVIOUS
<1> DEFINE T == [s \in Slots |-> ClonedTable(s)]
           P == [s \in Slots |-> ClonedPhysical(s)]
           New == { NewTable(s) : s \in Copies }
           K == kernel_directory
           Word(t) == [table |-> t, flags |-> t \notin copied \cup {NULL}]
           Word1(t) == [table |-> t, flags |-> t \notin copied' \cup {NULL}]
<1>1. /\ tables' = Append(tables, T) /\ table_count' = table_count + Cardinality(Copies)
      /\ tables_physical' = Append(tables_physical, P)
      /\ physical_addr' = Append(physical_addr, 0)
      /\ inherited' = Append(inherited, Has(K))
      /\ copied' = copied \cup New
      /\ junk' = junk \cup { NewTable(s) : s \in Copies \ Has(current_directory) }
      /\ UNCHANGED <<boot_free, released, current_directory, cr3>>
      /\ Len(tables) < MaxDirs /\ table_count' <= MaxTables
  BY DEF mm_clone_directory, ClearedAddress
<1>2. /\ table_count \in Nat /\ table_count' \in 0 .. MaxTables /\ table_count <= table_count'
      /\ New \subseteq table_count + 1 .. table_count'
      /\ copied \subseteq 1 .. table_count
      /\ Copies \subseteq Has(K) /\ Has(K) \subseteq Slots
  <2>1. Cardinality(Copies) \in Nat /\ Copies \subseteq Has(K) /\ Has(K) \subseteq Slots
    BY NewTables
  <2>2. \A s \in Copies : NewTable(s) \in table_count + 1 .. table_count'
    BY <1>1, NewTables
  <2>3. table_count \in Nat /\ copied \subseteq 1 .. table_count
    BY DirFacts
  <2>4. table_count' \in 0 .. MaxTables /\ table_count <= table_count'
    BY <2>1, <2>3, <1>1, DirAssumption
  <2> QED BY <2>1, <2>2, <2>3, <2>4
<1>3. /\ Dirs = 1 .. Len(tables) /\ Len(tables) \in Nat /\ K \in Dirs /\ n \in Nat \ {0}
      /\ \A d \in Dirs, s \in Slots : tables[d][s] \in 0 .. table_count
      /\ tables \in Seq([Slots -> 0 .. table_count])
      /\ current_directory \in Dirs /\ n # K
  BY DirAssumption DEF DirInv, DirTypeOK, Dirs, kernel_directory
<1>4. /\ Shared \subseteq Slots /\ Shared \cap Copies = {} /\ Has(K) = Shared \cup Copies
      /\ \A s \in Shared : ClonedTable(s) = tables[K][s] /\ tables[K][s] # NULL
      /\ \A s \in Copies : ClonedTable(s) = NewTable(s) /\ NewTable(s) \in New
      /\ \A s \in Slots : s \notin Has(K) => ClonedTable(s) = NULL
  BY <1>2 DEF Shared, Copies, Has, ClonedTable
<1> HIDE DEF New
<1>5. T \in [Slots -> 0 .. table_count']
  <2> SUFFICES ASSUME NEW s \in Slots PROVE ClonedTable(s) \in 0 .. table_count'
    OBVIOUS
  <2>1. CASE s \in Shared
    BY <2>1, <1>2, <1>3, <1>4
  <2>2. CASE s \in Copies
    <3>1. ClonedTable(s) \in New
      BY <2>2, <1>4
    <3>2. New \subseteq 0 .. table_count'
      BY <1>2
    <3> QED BY <3>1, <3>2
  <2>3. CASE s \notin Has(K)
    BY <2>3, <1>2, <1>4 DEF NULL
  <2> QED BY <2>1, <2>2, <2>3, <1>4
<1>6. /\ tables' \in Seq([Slots -> 0 .. table_count']) /\ Len(tables') = n
      /\ Dirs' = Dirs \cup {n} /\ n \notin Dirs
      /\ tables'[n] = T /\ \A d \in Dirs : tables'[d] = tables[d]
  <2>1. [Slots -> 0 .. table_count] \subseteq [Slots -> 0 .. table_count']
    BY <1>2
  <2>2. tables \in Seq([Slots -> 0 .. table_count'])
    BY <2>1, <1>3, SeqMonotonic
  <2>3. /\ tables' \in Seq([Slots -> 0 .. table_count']) /\ Len(tables') = n
        /\ tables'[n] = T /\ \A d \in 1 .. Len(tables) : tables'[d] = tables[d]
    BY <2>2, <1>1, <1>5, AppendProperties
  <2>4. DOMAIN tables' = 1 .. n
    BY <2>3, LenProperties
  <2> QED BY <2>3, <2>4, <1>3 DEF Dirs
<1>12. \A d \in Dirs, s \in Slots : tables[d][s] \notin New
  <2>1. \A x \in New : x > table_count
    BY <1>2
  <2> QED BY <2>1, <1>2, <1>3
<1>w. \A d \in Dirs, s \in Slots : tables_physical[d][s] = Word(tables[d][s])
  BY DEF DirInv, KernelInherited, kernel_directory
<1>v. \A d \in Dirs, s \in Slots : Word1(tables[d][s]) = Word(tables[d][s])
  BY <1>1, <1>12
(* The words of the clone are those of its tables.                         *)
<1>p. ASSUME NEW s \in Slots
      PROVE  ClonedPhysical(s) = Word1(ClonedTable(s))
  <2>1. CASE s \in Shared
    <3>1. ClonedPhysical(s) = tables_physical[K][s] /\ ClonedTable(s) = tables[K][s]
      BY <2>1 DEF ClonedPhysical, ClonedTable
    <3>2. s \in Slots /\ K \in Dirs
      BY <1>3
    <3>3. tables_physical[K][s] = Word1(tables[K][s])
      <4> HIDE DEF Word, Word1, K
      <4> QED BY <3>2, <1>w, <1>v
    <3> QED BY <3>1, <3>3
  <2>2. CASE s \in Copies
    <3>1. NewTable(s) \in copied'
      BY <2>2, <1>1, <1>4
    <3> QED BY <2>2, <3>1, <1>4 DEF ClonedPhysical
  <2>3. CASE s \notin Has(K)
    BY <2>3, <1>4 DEF ClonedPhysical, NoEntry
  <2> QED BY <2>1, <2>2, <2>3, <1>4
<1>7. /\ tables_physical' \in Seq([Slots -> Words(table_count')]) /\ Len(tables_physical') = n
      /\ tables_physical'[n] = P
      /\ \A d \in Dirs : tables_physical'[d] = tables_physical[d]
  <2>1. P \in [Slots -> Words(table_count')]
    <3>1. \A s \in Slots : ClonedTable(s) \in 0 .. table_count'
      BY <1>5
    <3>2. \A s \in Slots : ClonedPhysical(s) \in Words(table_count')
      <4> SUFFICES ASSUME NEW s \in Slots PROVE ClonedPhysical(s) \in Words(table_count')
        OBVIOUS
      <4>1. (ClonedTable(s) \notin copied' \cup {NULL}) \in BOOLEAN
        OBVIOUS
      <4>2. table_count' \in Nat
        BY <1>2, DirAssumption
      <4>3. [table |-> ClonedTable(s), flags |-> ClonedTable(s) \notin copied' \cup {NULL}]
              \in Words(table_count')
        <5>1. \A t \in 0 .. table_count', b \in BOOLEAN :
                [table |-> t, flags |-> b] \in Words(table_count')
          <6>1. table_count \in Nat /\ table_count <= table_count'
            BY <1>2
          <6> QED BY <6>1, <4>2, WordsGrow, Zenon
        <5> QED BY <4>1, <5>1, <3>1, Zenon
      <4> QED BY <4>3, <1>p
    <3> QED BY <3>2
  <2>2. tables_physical \in Seq([Slots -> Words(table_count)]) /\ Len(tables_physical) = Len(tables)
    BY DEF DirInv, DirTypeOK
  <2>3. Words(table_count) \subseteq Words(table_count')
    <3>1. table_count' \in Nat
      BY <1>2, DirAssumption
    <3> QED BY <3>1, <1>2, WordsGrow
  <2> HIDE DEF P
  <2>4. [Slots -> Words(table_count)] \subseteq [Slots -> Words(table_count')]
    BY <2>3
  <2>5. tables_physical \in Seq([Slots -> Words(table_count')])
    BY <2>2, <2>4, SeqMonotonic
  <2>6. tables_physical' = Append(tables_physical, P) /\ Len(tables_physical) = n - 1
        /\ Dirs = 1 .. n - 1
    BY <2>2, <1>1, <1>3
  <2> DEFINE X == [Slots -> Words(table_count')]
  <2>7. P \in X /\ tables_physical \in Seq(X)
    BY <2>1, <2>5
  <2> HIDE DEF X
  <2>8. /\ Append(tables_physical, P) \in Seq(X)
        /\ Len(Append(tables_physical, P)) = Len(tables_physical) + 1
        /\ \A d \in 1 .. Len(tables_physical) :
             Append(tables_physical, P)[d] = tables_physical[d]
        /\ Append(tables_physical, P)[Len(tables_physical) + 1] = P
    BY <2>7, AppendProperties
  <2>9. Len(tables_physical) + 1 = n
    BY <2>2, <1>1, <1>3
  <2> QED BY <2>6, <2>8, <2>9, Zenon DEF X
<1>8. /\ physical_addr' \in Seq(0 .. MaxDirs) /\ Len(physical_addr') = n
  <2>1. 0 \in 0 .. MaxDirs
    BY DirAssumption
  <2>2. physical_addr \in Seq(0 .. MaxDirs) /\ Len(physical_addr) = Len(tables)
    BY DEF DirInv, DirTypeOK
  <2>3. /\ Append(physical_addr, 0) \in Seq(0 .. MaxDirs)
        /\ Len(Append(physical_addr, 0)) = n
    BY <2>1, <2>2, AppendProperties
  <2> QED BY <2>3, <1>1
<1>9. /\ inherited' \in Seq(SUBSET Slots) /\ Len(inherited') = n /\ inherited'[n] = Has(K)
      /\ \A d \in Dirs : inherited'[d] = inherited[d] /\ inherited[d] \subseteq Slots
  <2>1. Has(K) \in SUBSET Slots
    BY <1>2
  <2>2. inherited \in Seq(SUBSET Slots) /\ Len(inherited) = Len(tables)
    BY DEF DirInv, DirTypeOK
  <2>3. /\ Append(inherited, Has(K)) \in Seq(SUBSET Slots)
        /\ Len(Append(inherited, Has(K))) = n /\ Append(inherited, Has(K))[n] = Has(K)
        /\ \A d \in 1 .. Len(tables) : Append(inherited, Has(K))[d] = inherited[d]
    BY <2>1, <2>2, AppendProperties
  <2>4. \A d \in 1 .. Len(tables) : inherited[d] \in SUBSET Slots
    BY <2>2, ElementOfSeq
  <2> QED BY <2>3, <2>4, <1>1, <1>3
<1>10. junk' = {} /\ ~released' => FrameShared'
  BY <1>1, CloneFrames
<1>11. DirTypeOK'
  <2>1. copied' \subseteq 1 .. table_count'
    BY <1>1, <1>2
  <2>2. junk' \subseteq copied'
    <3>1. { NewTable(s) : s \in Copies \ Has(current_directory) } \subseteq New
      BY DEF New
    <3> QED BY <3>1, <1>1 DEF DirInv, DirTypeOK
  <2>3. n \in 1 .. MaxDirs
    BY <1>1, <1>3, DirAssumption
  <2>4. current_directory' \in Dirs' /\ cr3' \in 0 .. MaxDirs /\ released' \in BOOLEAN
    BY <1>1, <1>3, <1>6 DEF DirInv, DirTypeOK
  <2> QED BY <2>1, <2>2, <2>3, <2>4, <1>2, <1>6, <1>7, <1>8, <1>9, <1>10
          DEF DirTypeOK, FrameShared, FrameBase
<1>13. PrivateTables'
  <2> SUFFICES ASSUME NEW b \in Dirs', NEW c \in Dirs', NEW s \in Slots,
                      b # c, tables'[b][s] # NULL, tables'[b][s] = tables'[c][s]
               PROVE  tables'[b][s] = tables'[K][s]
    BY DEF PrivateTables, kernel_directory, NULL
  <2>1. CASE b = n \/ c = n
    <3>1. T[s] = tables'[b][s]
      BY <2>1, <1>6
    <3>2. \E d \in Dirs : T[s] = tables[d][s]
      BY <2>1, <1>6
    <3>3. s \in Shared
      BY <3>1, <3>2, <1>4, <1>12
    <3> QED BY <3>1, <3>3, <1>3, <1>4, <1>6
  <2>2. CASE b \in Dirs /\ c \in Dirs
    <3>1. tables[b][s] = tables[K][s]
      BY <2>2, <1>6 DEF DirInv, PrivateTables
    <3> QED BY <2>2, <3>1, <1>3, <1>6
  <2> QED BY <2>1, <2>2, <1>6
<1>15. KernelInherited'
  <2>1. ASSUME NEW d \in Dirs, NEW s \in inherited'[d]
        PROVE  tables'[d][s] \in copied' \cup {tables'[K][s]}
    <3>1. \A r \in inherited[d] : tables[d][r] \in copied \cup {tables[K][r]}
      BY DEF DirInv, KernelInherited
    <3> QED BY <3>1, <1>1, <1>3, <1>6, <1>9
  <2>2. \A s \in inherited'[n] : tables'[n][s] \in copied' \cup {tables'[K][s]}
    BY <1>1, <1>2, <1>3, <1>4, <1>6, <1>9
  <2>3. ASSUME NEW d \in Dirs', NEW s \in Slots
        PROVE  tables_physical'[d][s] = Word1(tables'[d][s])
    <3>1. CASE d \in Dirs
      <4>1. tables_physical'[d][s] = tables_physical[d][s] /\ tables'[d][s] = tables[d][s]
        BY <3>1, <1>6, <1>7
      <4> HIDE DEF Word, Word1
      <4> QED BY <3>1, <4>1, <1>w, <1>v
    <3>2. CASE d = n
      <4>1. tables_physical'[d][s] = ClonedPhysical(s) /\ tables'[d][s] = ClonedTable(s)
        BY <3>2, <1>6, <1>7
      <4> HIDE DEF Word, Word1
      <4> QED BY <4>1, <1>p
    <3> QED BY <3>1, <3>2, <1>6
  <2> QED BY <2>1, <2>2, <2>3, <1>6 DEF KernelInherited, kernel_directory, NULL
<1>16. KernelOwn'
  <2>1. \A s \in Slots : tables'[K][s] \notin copied'
    BY <1>1, <1>3, <1>6, <1>12 DEF DirInv, KernelOwn
  <2>2. \A d \in Dirs' : \A s \in inherited'[d] : tables'[K][s] # NULL
    BY <1>3, <1>6, <1>9 DEF DirInv, KernelOwn, Has
  <2> QED BY <2>1, <2>2 DEF KernelOwn, kernel_directory, NULL
<1> QED BY <1>10, <1>11, <1>13, <1>15, <1>16 DEF DirInv

(* Every operation keeps the invariant.                                    *)
LEMMA DirInductive == DirInv /\ [DirNext]_allVars => DirInv'
<1> SUFFICES ASSUME DirInv, [DirNext]_allVars PROVE DirInv'
  OBVIOUS
<1>1. ASSUME NEW d \in Dirs, NEW s \in Slots, NEW e \in Entries, MapPage(d, s, e)
      PROVE  DirInv'
  BY <1>1, MapPageInv
<1>2. ASSUME NEW d \in Dirs, NEW s \in Slots, NEW e \in Entries, UnmapPage(d, s, e)
      PROVE  DirInv'
  BY <1>2, UnmapPageInv
<1>3. CASE mm_clone_directory
  BY <1>3, CloneInv
<1>4. ASSUME NEW d \in Dirs, mm_switch_page_directory(d)
      PROVE  DirInv'
  BY <1>4, SwitchInv
<1>5. CASE UNCHANGED allVars
  BY <1>5, StutterInv
<1> QED BY <1>1, <1>2, <1>3, <1>4, <1>5 DEF DirNext

(* The invariant holds in every reachable state.                           *)
THEOREM DirInvariant == DirSpec => []DirInv
BY InitDirInv, DirInductive, PTL DEF DirSpec

(* Directories, tables and frames keep their ranges.                       *)
THEOREM DirTypes == DirSpec => []DirTypeOK
BY DirInvariant, PTL DEF DirInv

(* Whatever directories share and clones copy, a frame has two pages only  *)
(* by a copy, and frames are accounted for and counted, until a table is   *)
(* read at address 0 or a shared frame is given back.                      *)
THEOREM FramesExactUntilReleased == DirSpec => []FramesExact
<1>1. DirInv => FramesExact
  BY DEF DirInv, FramesExact, FrameShared, FrameBase
<1> QED BY <1>1, DirInvariant, PTL

(* Directories share no table but the kernel's.                            *)
THEOREM TablesPrivate == DirSpec => []PrivateTables
BY DirInvariant, PTL DEF DirInv

(* A clone has all of the kernel's tables, and tables_physical names the   *)
(* same ones as tables.                                                    *)
THEOREM KernelTablesInherited == DirSpec => []KernelInherited
BY DirInvariant, PTL DEF DirInv

(* The loops of mm_clone_directory, which ask mm_alloc_frame for every     *)
(* entry, take no frame: the copies map those of the tables copied.        *)
THEOREM CopiesAlias == DirSpec => CopyAliases
<1> DEFINE A == \A t \in copied' \ (copied \cup junk') :
                 /\ mem_bitmap' = mem_bitmap
                 /\ \E o \in 1 .. table_count :
                      \A e \in Entries : page'[<<t, e>>] = page'[<<o, e>>]
<1>1. DirInv /\ [DirNext]_allVars => [A]_allVars
  <2> SUFFICES ASSUME DirInv, DirNext PROVE A
    OBVIOUS
  <2>1. CASE mm_clone_directory
    <3> SUFFICES ASSUME NEW t \in copied' \ (copied \cup junk')
                 PROVE  \E o \in 1 .. table_count :
                          \A e \in Entries : page'[<<t, e>>] = page'[<<o, e>>]
      BY <2>1, CopyEffect
    <3>1. \A p \in Pages \ NewPages : page'[p] = page[p]
      BY <2>1, CopyEffect
    <3>2. PICK o \in 1 .. table_count : \A e \in Entries :
            <<o, e>> \in Pages \ NewPages /\ page'[<<t, e>>] = page[<<o, e>>]
      BY <2>1, CopyEffect
    <3> QED BY <3>1, <3>2
  <2>2. CASE ~mm_clone_directory
    <3>1. copied' = copied
      BY <2>2 DEF DirNext, MapPage, UnmapPage, mm_switch_page_directory
    <3> QED BY <3>1
  <2> QED BY <2>1, <2>2
<1> QED BY <1>1, DirInvariant, PTL DEF DirSpec, CopyAliases

-----------------------------------------------------------------------------
(* PagingBoot.                                                             *)

(* The word that mm_get_page stores for a table.                           *)
Entry(t) == [table |-> t, flags |-> TRUE]

(* The tables were made in the order of their slots, and the loop is in    *)
(* the last of them or at its end.                                         *)
TablesInOrder ==
  /\ table_count \in 0 .. SLOTS
  /\ tables = <<[s \in Slots |-> IF s < table_count THEN s + 1 ELSE NULL]>>
  /\ tables_physical = <<[s \in Slots |-> IF s < table_count THEN Entry(s + 1) ELSE NoEntry]>>
  /\ ENTRIES * table_count - ENTRIES <= addr /\ addr <= ENTRIES * table_count

(* The loop has mapped the pages below addr and no other, and of the       *)
(* kernel's frames it has taken those below addr and no other.             *)
LoopProgress ==
  /\ addr \in Nat
  /\ \A t \in 1 .. MaxTables, e \in Entries :
       ENTRIES * (t - 1) + e >= addr => page[<<t, e>>] = [frame |-> 0, present |-> FALSE]
  /\ \A f \in Frames : f < kernel_blocks => (f \in mem_bitmap <=> f < addr)

(* The inductive invariant: LoopOutrun needs LoopProgress (every page the  *)
(* loop meets is fresh, so every turn takes a frame) and FrameInv (there   *)
(* are no more turns than frames, so the page exists).                     *)
BootInv ==
  /\ FrameInv
  /\ TablesInOrder
  /\ LoopProgress
  /\ LoopOutrun
  /\ IdentityMapped

(* The state mm_init leaves satisfies the invariant.                       *)
LEMMA InitBootInv == BootInit => BootInv
<1> SUFFICES ASSUME BootInit PROVE BootInv
  OBVIOUS
<1>1. FrameInv
  BY InitFrameInv DEF BootInit
<1>2. \A f \in Frames : f < kernel_blocks => f \notin mem_bitmap
  <2>1. mem_bitmap \cap Cleared = {}
    BY DEF BootInit, Init, InitialBitmaps
  <2>2. \A f \in Frames : f < kernel_blocks => f \in Cleared
    BY FrameAssumption DEF Frames, Cleared
  <2> QED BY <2>1, <2>2
<1>3. \A f \in Frames : ~(f < 0)
  BY FrameAssumption DEF Frames
<1>4. page = [p \in Pages |-> [frame |-> 0, present |-> FALSE]]
      /\ Pages = (1 .. MaxTables) \X Entries
  BY DirAssumption DEF BootInit, Init
<1>5. LoopProgress
  BY <1>2, <1>3, <1>4 DEF BootInit, LoopProgress
<1>6. TablesInOrder
  <2>1. \A s \in Slots : ~(s < 0)
    BY BootAssumption
  <2> QED BY <2>1, BootAssumption DEF BootInit, KernelDirectoryMade, TablesInOrder
<1>7. LoopOutrun
  BY FrameAssumption DEF BootInit, Init, LoopOutrun
<1>8. IdentityMapped
  BY DEF BootInit, IdentityMapped
<1> QED BY <1>1, <1>5, <1>6, <1>7, <1>8 DEF BootInv

(* What division by the size of a table returns.                           *)
LEMMA TableOf ==
  ASSUME NEW p \in Nat
  PROVE  /\ (p % ENTRIES) \in Entries
         /\ (p \div ENTRIES) \in Nat
         /\ p = ENTRIES * (p \div ENTRIES) + (p % ENTRIES)
<1>1. ENTRIES \in Nat \ {0} /\ Entries = 0 .. ENTRIES - 1
  BY BootAssumption
<1>2. ASSUME NEW E \in Nat \ {0}
      PROVE  /\ (p % E) \in 0 .. E - 1
             /\ (p \div E) \in Nat
             /\ p = E * (p \div E) + (p % E)
  OBVIOUS
<1> QED BY <1>1, <1>2

(* Multiples of ENTRIES are at least ENTRIES apart.                        *)
LEMMA TablesApart ==
  ASSUME NEW k \in Int, NEW m \in Int, k < m
  PROVE  ENTRIES * k + ENTRIES <= ENTRIES * m
<1>1. ENTRIES \in Nat \ {0}
  BY BootAssumption
<1>2. ASSUME NEW E \in Nat \ {0}
      PROVE  E * k + E <= E * m
  <2> DEFINE d == m - k
  <2>1. d \in Nat \ {0} /\ m = k + d
    OBVIOUS
  <2>2. E * d >= E
    BY <2>1
  <2>3. E * (k + d) = E * k + E * d
    OBVIOUS
  <2> QED BY <2>1, <2>2, <2>3
<1> QED BY <1>1, <1>2

(* The loop variable is the number of a page: no more frames have been     *)
(* taken than there are.                                                   *)
LEMMA LoopInRange == BootInv => addr <= total_blocks
<1> SUFFICES ASSUME BootInv PROVE addr <= total_blocks
  OBVIOUS
<1> DEFINE T == mem_bitmap \cap boot_free
<1>1. IsFiniteSet(Frames) /\ Cardinality(Frames) = total_blocks
  <2>1. total_blocks - 1 \in Int /\ 0 \in Int
    BY FrameAssumption
  <2>2. /\ IsFiniteSet(0 .. total_blocks - 1)
        /\ Cardinality(0 .. total_blocks - 1) =
             IF 0 > total_blocks - 1 THEN 0 ELSE (total_blocks - 1) - 0 + 1
    BY <2>1, FS_Interval
  <2> QED BY <2>2, FrameAssumption DEF Frames
<1>2. Cardinality(T) <= total_blocks /\ Cardinality(T) \in Nat
  <2>1. T \in SUBSET Frames
    BY DEF BootInv, FrameInv, FrameBase, FrameTypeOK
  <2> QED BY <2>1, <1>1, FS_Subset, FS_CardinalityType
<1>3. addr = Cardinality(T)
  BY <1>2, FrameAssumption DEF BootInv, FrameInv, FrameBase, UsedCount, LoopOutrun, LoopProgress
<1> QED BY <1>2, <1>3

(* The page the loop has reached lies in the last table, or in the next,   *)
(* which mm_get_page then makes.                                           *)
LEMMA LoopTable ==
  ASSUME BootInv, NEW q, q = addr \div ENTRIES
  PROVE  /\ q \in Slots /\ q + 1 \in 1 .. MaxTables
         /\ q = table_count \/ q = table_count - 1
<1> DEFINE r == addr % ENTRIES
           E == ENTRIES
<1>1. r \in 0 .. E - 1 /\ q \in Nat /\ addr = E * q + r
  BY TableOf, BootAssumption DEF BootInv, LoopProgress
<1>2. E \in Nat \ {0} /\ SLOTS \in Nat /\ table_count \in Nat
  BY BootAssumption DEF BootInv, TablesInOrder
<1>3. addr < E * SLOTS
  BY LoopInRange, BootAssumption, FrameAssumption, <1>1, <1>2 DEF BootInv, LoopProgress
<1>4. E * table_count - E <= addr /\ addr <= E * table_count
  BY DEF BootInv, TablesInOrder
<1>5. /\ \A k, m \in Int : k < m => E * k + E <= E * m
  BY TablesApart
<1> HIDE DEF r, E
<1>6. E * q \in Int /\ E * SLOTS \in Int /\ E * table_count \in Int
  BY <1>1, <1>2
<1>7. ~(SLOTS <= q)
  <2>1. ~(SLOTS < q)
    BY <1>1, <1>2, <1>3, <1>5, <1>6
  <2>2. SLOTS # q
    BY <1>1, <1>3, <1>6
  <2> QED BY <2>1, <2>2, <1>1, <1>2
<1>8. ~(table_count < q)
  BY <1>1, <1>2, <1>4, <1>5, <1>6
<1>9. ~(q < table_count - 1)
  <2> SUFFICES ASSUME q + 1 < table_count PROVE FALSE
    BY <1>1, <1>2
  <2>1. E * (q + 1) + E <= E * table_count
    BY <1>1, <1>2, <1>5
  <2>2. E * (q + 1) = E * q + E
    BY <1>1, <1>2
  <2> QED BY <2>1, <2>2, <1>1, <1>2, <1>4, <1>6
<1>10. q \in Slots /\ q + 1 \in 1 .. MaxTables
  BY <1>1, <1>2, <1>7, BootAssumption, DirAssumption
<1> QED BY <1>1, <1>2, <1>8, <1>9, <1>10

(* What mm_get_page does in the boot: the tables stay in order.            *)
LEMMA LoopGetPage ==
  ASSUME BootInv, NEW q, q = addr \div ENTRIES, NEW t \in 1 .. MaxTables,
         GetPage(kernel_directory, q, t)
  PROVE  /\ t = q + 1
         /\ table_count' = q + 1
         /\ tables' = <<[s \in Slots |-> IF s < q + 1 THEN s + 1 ELSE NULL]>>
         /\ tables_physical' = <<[s \in Slots |-> IF s < q + 1 THEN Entry(s + 1) ELSE NoEntry]>>
<1>1. q \in Slots /\ (q = table_count \/ q = table_count - 1)
  BY LoopTable
<1>2. /\ table_count \in Nat
      /\ tables = <<[s \in Slots |-> IF s < table_count THEN s + 1 ELSE NULL]>>
      /\ tables_physical = <<[s \in Slots |-> IF s < table_count THEN Entry(s + 1) ELSE NoEntry]>>
      /\ \A s \in Slots : s \in Nat
  BY BootAssumption DEF BootInv, TablesInOrder
<1>3. tables[kernel_directory] = [s \in Slots |-> IF s < table_count THEN s + 1 ELSE NULL]
  BY <1>2 DEF kernel_directory
<1>4. CASE q = table_count - 1
  <2>1. tables[kernel_directory][q] = q + 1 /\ q + 1 # NULL
    BY <1>1, <1>2, <1>3, <1>4 DEF NULL
  <2>2. t = q + 1 /\ UNCHANGED <<tables, tables_physical, table_count>>
    BY <2>1 DEF GetPage
  <2>3. table_count = q + 1
    BY <1>1, <1>2, <1>4
  <2> QED BY <2>2, <2>3, <1>2
<1>5. CASE q = table_count
  <2>1. tables[kernel_directory][q] = NULL
    BY <1>1, <1>2, <1>3, <1>5
  <2>2. /\ t = table_count + 1 /\ table_count' = t
        /\ tables' = [tables EXCEPT ![kernel_directory][q] = t]
        /\ tables_physical' = [tables_physical EXCEPT ![kernel_directory][q] = Entry(t)]
    BY <2>1 DEF GetPage, Entry
  <2>n. q \in Slots /\ q = table_count /\ t = q + 1 /\ \A s \in Slots : s < q + 1 <=> s < q \/ s = q
    BY <1>1, <1>2, <1>5, <2>2
  <2>3. [s \in Slots |-> IF s < q + 1 THEN s + 1 ELSE NULL] = [tables[1] EXCEPT ![q] = t]
    <3>1. tables[1] = [s \in Slots |-> IF s < q THEN s + 1 ELSE NULL]
      BY <1>3, <2>n DEF kernel_directory
    <3>2. \A s \in Slots : (IF s < q + 1 THEN s + 1 ELSE NULL)
                              = [tables[1] EXCEPT ![q] = t][s]
      BY <3>1, <2>n
    <3> QED BY <3>1, <3>2
  <2>4. [s \in Slots |-> IF s < q + 1 THEN Entry(s + 1) ELSE NoEntry]
          = [tables_physical[1] EXCEPT ![q] = Entry(t)]
    <3>1. tables_physical[1] = [s \in Slots |-> IF s < q THEN Entry(s + 1) ELSE NoEntry]
      BY <1>2, <2>n
    <3>2. \A s \in Slots : (IF s < q + 1 THEN Entry(s + 1) ELSE NoEntry)
                              = [tables_physical[1] EXCEPT ![q] = Entry(t)][s]
      BY <3>1, <2>n
    <3> QED BY <3>1, <3>2
  <2>5. tables' = <<[tables[1] EXCEPT ![q] = t]>>
    BY <1>2, <2>2 DEF kernel_directory
  <2>6. tables_physical' = <<[tables_physical[1] EXCEPT ![q] = Entry(t)]>>
    BY <1>2, <2>2 DEF kernel_directory
  <2> QED BY <1>5, <2>2, <2>3, <2>4, <2>5, <2>6
<1> QED BY <1>1, <1>4, <1>5

(* A turn of the loop keeps the tables in order and takes the next page.   *)
LEMMA LoopTables ==
  ASSUME BootInv, MapKernelPage(addr)
  PROVE  /\ TablesInOrder'
         /\ <<(addr \div ENTRIES) + 1, addr % ENTRIES>> \in Pages
         /\ \/ AllocFrame(<<(addr \div ENTRIES) + 1, addr % ENTRIES>>)
            \/ OutOfMemory(<<(addr \div ENTRIES) + 1, addr % ENTRIES>>)
<1> DEFINE q == addr \div ENTRIES
           r == addr % ENTRIES
           E == ENTRIES
<1>1. r \in Entries /\ q \in Nat /\ addr = E * q + r /\ r \in 0 .. E - 1 /\ E \in Nat \ {0}
  BY TableOf, BootAssumption DEF BootInv, LoopProgress
<1>2. q \in Slots /\ q + 1 \in 1 .. MaxTables
  BY LoopTable
<1>3. PICK t \in 1 .. MaxTables :
        /\ GetPage(kernel_directory, q, t)
        /\ \/ AllocFrame(<<t, r>>) \/ OutOfMemory(<<t, r>>)
           \/ Up /\ page[<<t, r>>].frame # 0 /\ UNCHANGED vars
  BY DEF MapKernelPage, MapPage
<1>4. /\ t = q + 1 /\ table_count' = q + 1
      /\ tables' = <<[s \in Slots |-> IF s < q + 1 THEN s + 1 ELSE NULL]>>
      /\ tables_physical' = <<[s \in Slots |-> IF s < q + 1 THEN Entry(s + 1) ELSE NoEntry]>>
  BY <1>3, LoopGetPage
<1>5. addr' = addr \/ addr' = addr + 1
  BY DEF MapKernelPage
<1> HIDE DEF q, r, E
<1>6. <<q + 1, r>> \in Pages
  BY <1>1, <1>2, DirAssumption
<1>7. page[<<q + 1, r>>].frame = 0
  <2>1. E * ((q + 1) - 1) + r >= addr
    BY <1>1
  <2> QED BY <2>1, <1>1, <1>2 DEF BootInv, LoopProgress, E
<1>8. AllocFrame(<<q + 1, r>>) \/ OutOfMemory(<<q + 1, r>>)
  BY <1>3, <1>4, <1>7
<1>9. TablesInOrder'
  <2>1. E * (q + 1) = E * q + E /\ E * q \in Int
    BY <1>1
  <2>2. E * (q + 1) - E <= addr' /\ addr' <= E * (q + 1)
    BY <1>1, <1>5, <2>1
  <2>3. q + 1 \in 0 .. SLOTS
    BY <1>1, <1>2, BootAssumption
  <2> QED BY <1>4, <2>2, <2>3 DEF TablesInOrder, E
<1> QED BY <1>6, <1>8, <1>9 DEF q, r

(* Every turn keeps the invariant.                                         *)
LEMMA BootInductive == BootInv /\ [mm_init_paging]_bootVars => BootInv'
<1> SUFFICES ASSUME BootInv, [mm_init_paging]_bootVars PROVE BootInv'
  OBVIOUS
<1>i. addr \in Nat /\ boot = "kernel" /\ addr < used_blocks
  BY FrameAssumption DEF BootInv, LoopProgress, LoopOutrun
<1>1. CASE UNCHANGED bootVars
  <2>1. UNCHANGED vars /\ UNCHANGED <<boot, addr, tables, tables_physical, table_count, cr3>>
    BY <1>1 DEF bootVars, allVars, dirVars
  <2>2. FrameInv'
    BY <2>1, FrameInductive DEF BootInv
  <2>3. UNCHANGED Has(kernel_directory)
    BY <2>1 DEF Has
  <2> QED BY <2>1, <2>2, <2>3 DEF BootInv, TablesInOrder, LoopProgress, LoopOutrun, IdentityMapped,
                                  vars
<1>2. CASE mm_init_paging
  <2> DEFINE q == addr \div ENTRIES
             r == addr % ENTRIES
             P == <<q + 1, r>>
             Table(s) == IF s < table_count THEN s + 1 ELSE NULL
  <2>1. MapKernelPage(addr)
    BY <1>2, <1>i DEF mm_init_paging
  <2>2. TablesInOrder' /\ P \in Pages /\ (AllocFrame(P) \/ OutOfMemory(P))
    BY <2>1, LoopTables
  <2>3. FrameInv'
    BY <2>2, FrameInductive DEF Next, BootInv
  <2>4. boot' = "kernel" /\ cr3' = NULL
    BY <2>1, <1>i DEF MapKernelPage, MapPage, BootInv, LoopOutrun
  <2>d. r \in Entries /\ q \in Nat /\ addr = ENTRIES * q + r
    BY <1>i, TableOf
  <2>t. q \in Slots /\ q + 1 \in 1 .. MaxTables /\ table_count' = q + 1
        /\ table_count \in Nat /\ (q = table_count \/ q = table_count - 1)
    <3>1. PICK t \in 1 .. MaxTables : GetPage(kernel_directory, q, t)
      BY <2>1 DEF MapKernelPage, MapPage
    <3> QED BY <3>1, LoopTable, LoopGetPage DEF BootInv, TablesInOrder
  <2>k. /\ \A s \in Slots : s < table_count => tables[kernel_directory][s] = s + 1
        /\ \A s \in Slots : s < q + 1 => tables'[kernel_directory][s] = s + 1
        /\ Has(kernel_directory) = { s \in Slots : s < table_count }
        /\ Has(kernel_directory)' = { s \in Slots : s < q + 1 }
    <3> DEFINE F(n) == [s \in Slots |-> IF s < n THEN s + 1 ELSE NULL]
    <3>1. tables = <<F(table_count)>> /\ tables' = <<F(q + 1)>>
      BY <2>2, <2>t DEF BootInv, TablesInOrder
    <3>2. /\ \A s \in Slots : s \in Nat
          /\ \A s \in Slots : \A n : s < n => F(n)[s] = s + 1
          /\ \A s \in Slots : \A n : ~(s < n) => F(n)[s] = NULL
      BY BootAssumption
    <3>3. \A s \in Slots : s + 1 # NULL
      BY <3>2 DEF NULL
    <3> HIDE DEF F
    <3>4. tables[kernel_directory] = F(table_count) /\ tables'[kernel_directory] = F(q + 1)
      BY <3>1 DEF kernel_directory
    <3>5. /\ Has(kernel_directory) = { s \in Slots : F(table_count)[s] # NULL }
          /\ Has(kernel_directory)' = { s \in Slots : F(q + 1)[s] # NULL }
      BY <3>4 DEF Has, kernel_directory, NULL
    <3> HIDE DEF q
    <3> QED BY <3>2, <3>3, <3>4, <3>5
  (* What is mapped stays mapped when the page of addr, or none, changes.  *)
  <2>m. ASSUME NEW p \in 0 .. addr - 1, p < kernel_blocks,
               \A x \in Pages : x # P => page'[x] = page[x]
        PROVE  LET slot == p \div ENTRIES
               IN  /\ slot \in Has(kernel_directory)'
                   /\ page'[<<tables'[kernel_directory][slot], p % ENTRIES>>]
                        = [frame |-> p, present |-> TRUE]
    <3> DEFINE a == p \div ENTRIES
               b == p % ENTRIES
    <3>1. a \in Nat /\ b \in Entries /\ p = ENTRIES * a + b
      BY TableOf
    <3>2. /\ a \in Has(kernel_directory)
          /\ page[<<tables[kernel_directory][a], b>>] = [frame |-> p, present |-> TRUE]
      BY <2>m DEF BootInv, IdentityMapped
    <3> HIDE DEF a, b, q, r
    <3>3. a \in Slots /\ a < table_count /\ a < q + 1
      BY <3>1, <3>2, <2>k, <2>t, <2>d
    <3>4. tables[kernel_directory][a] = a + 1 /\ tables'[kernel_directory][a] = a + 1
          /\ a \in Has(kernel_directory)'
      BY <3>3, <2>k
    <3>5. ~(a = q /\ b = r)
      BY <3>1, <2>d
    <3>6. <<a + 1, b>> # P
      BY <3>5, <3>1, <2>d
    <3>7. <<a + 1, b>> \in Pages
      BY <3>1, <3>3, <2>t, <2>d, DirAssumption
    <3> QED BY <3>2, <3>4, <3>6, <3>7, <2>m DEF a, b
  <2>5. CASE OutOfMemory(P)
    <3>1. addr' = addr /\ UNCHANGED <<mem_bitmap, used_blocks, page>>
      BY <2>1, <2>5 DEF MapKernelPage, OutOfMemory
    <3>2. LoopProgress' /\ LoopOutrun'
      BY <3>1, <2>4 DEF BootInv, LoopProgress, LoopOutrun
    <3>3. IdentityMapped'
      BY <3>1, <2>m DEF IdentityMapped
    <3> QED BY <3>2, <3>3, <2>2, <2>3 DEF BootInv
  <2>6. CASE AllocFrame(P)
    <3>1. PICK f \in Frames :
            /\ FirstFree(f)
            /\ mem_bitmap' = mem_bitmap \cup {f}
            /\ page' = [page EXCEPT ![P] = [frame |-> f, present |-> TRUE]]
      BY <2>6 DEF AllocFrame
    <3>2. addr' = addr + 1 /\ used_blocks' = used_blocks + 1
      BY <2>1, <2>6 DEF MapKernelPage, AllocFrame, Up
    <3>3. /\ page'[P] = [frame |-> f, present |-> TRUE]
          /\ \A x \in Pages : x # P => page'[x] = page[x]
      BY <3>1, <2>2 DEF BootInv, FrameInv, FrameBase, FrameTypeOK
    <3>4. f \in Nat /\ \A g \in Frames : g \in Nat
      BY FrameAssumption DEF Frames
    <3>5. addr < kernel_blocks => f = addr
      <4> SUFFICES ASSUME addr < kernel_blocks PROVE f = addr
        OBVIOUS
      <4>1. ~(f < addr)
        BY <3>1, <3>4, <1>i, FrameAssumption DEF FirstFree, BootInv, LoopProgress
      <4>2. ~(addr < f)
        <5> SUFFICES ASSUME addr < f PROVE FALSE
          OBVIOUS
        <5>1. addr \in Frames
          BY <3>4, <1>i, FrameAssumption DEF Frames
        <5>2. addr \in mem_bitmap
          BY <5>1, <3>1 DEF FirstFree
        <5> QED BY <5>1, <5>2, <1>i DEF BootInv, LoopProgress
      <4> QED BY <4>1, <4>2, <3>4, <1>i
    <3>6. addr >= kernel_blocks => f >= kernel_blocks
      <4> SUFFICES ASSUME addr >= kernel_blocks, f < kernel_blocks PROVE FALSE
        BY <3>4, FrameAssumption
      <4>1. f < addr
        BY <3>4, <1>i, FrameAssumption
      <4> QED BY <4>1, <3>1 DEF FirstFree, BootInv, LoopProgress
    <3>7. LoopProgress'
      <4>1. ASSUME NEW t \in 1 .. MaxTables, NEW e \in Entries,
                   ENTRIES * (t - 1) + e >= addr + 1
            PROVE  page'[<<t, e>>] = [frame |-> 0, present |-> FALSE]
        <5>1. ENTRIES * (t - 1) \in Int /\ e \in Nat
          BY BootAssumption, DirAssumption
        <5>2. ENTRIES * (t - 1) + e >= addr
          BY <4>1, <5>1, <1>i
        <5>3. ~(t - 1 = q /\ e = r)
          <6> HIDE DEF q, r
          <6> QED BY <4>1, <5>1, <2>d, <1>i
        <5>4. <<t, e>> # P
          <6> HIDE DEF q, r
          <6> QED BY <5>3, <2>d
        <5>5. <<t, e>> \in Pages
          BY DirAssumption
        <5> QED BY <5>2, <5>4, <5>5, <3>3 DEF BootInv, LoopProgress
      <4>2. ASSUME NEW g \in Frames, g < kernel_blocks
            PROVE  g \in mem_bitmap' <=> g < addr + 1
        <5>1. g \in mem_bitmap <=> g < addr
          BY <4>2 DEF BootInv, LoopProgress
        <5>2. g = f => g = addr
          BY <4>2, <3>4, <3>5, <3>6, <1>i, FrameAssumption
        <5>3. g = addr => g = f
          BY <4>2, <3>5
        <5> QED BY <5>1, <5>2, <5>3, <3>1, <3>4, <1>i
      <4> QED BY <4>1, <4>2, <3>2, <1>i DEF LoopProgress
    <3>8. LoopOutrun'
      BY <2>4, <3>2, <1>i, FrameAssumption DEF BootInv, LoopOutrun
    <3>9. IdentityMapped'
      <4> SUFFICES ASSUME NEW p \in 0 .. (addr + 1) - 1, p < kernel_blocks
                   PROVE  LET slot == p \div ENTRIES
                          IN  /\ slot \in Has(kernel_directory)'
                              /\ page'[<<tables'[kernel_directory][slot], p % ENTRIES>>]
                                   = [frame |-> p, present |-> TRUE]
        BY <3>2 DEF IdentityMapped
      <4>1. CASE p = addr
        <5>1. q \in Has(kernel_directory)' /\ tables'[kernel_directory][q] = q + 1
          <6> HIDE DEF q
          <6> QED BY <2>t, <2>k, <2>d
        <5> QED BY <4>1, <5>1, <3>3, <3>5
      <4>2. CASE p # addr
        <5>1. p \in 0 .. addr - 1
          BY <4>2, <1>i
        <5> QED BY <5>1, <3>3, <2>m
      <4> QED BY <4>1, <4>2
    <3> QED BY <2>2, <2>3, <3>7, <3>8, <3>9 DEF BootInv
  <2> QED BY <2>2, <2>5, <2>6
<1> QED BY <1>1, <1>2

(* The invariant holds in every reachable state of the boot.               *)
THEOREM BootInvariant == BootSpec => []BootInv
BY InitBootInv, BootInductive, PTL DEF BootSpec

(* Whatever the memory, the first loop of mm_init_paging has not ended,    *)
(* and paging is off.                                                      *)
THEOREM LoopNeverEnds == BootSpec => []LoopOutrun
BY BootInvariant, PTL DEF BootInv

(* The entries that the loop writes for the kernel's pages hold the frames *)
(* of the same number, whatever the memory.                                *)
THEOREM KernelEntriesIdentity == BootSpec => []IdentityMapped
BY BootInvariant, PTL DEF BootInv

(* The tables' blocks lie behind the directory's, one behind the other.    *)
LEMMA BlocksApart ==
  ASSUME NEW t \in Nat \ {0}, NEW u \in Nat \ {0}
  PROVE  /\ BlockAt(t) \in Nat /\ BlockAt(t) > 2 * ENTRIES
         /\ t < u => BlockAt(t) + ENTRIES < BlockAt(u)
<1> DEFINE C == ENTRIES + HeaderWords
           B == 2 * SLOTS + 1 + 2 * HeaderWords
<1>1. /\ ENTRIES \in Nat \ {0} /\ SLOTS = ENTRIES /\ HeaderWords \in Nat \ {0}
  BY BootAssumption
<1>2. C \in Nat \ {0} /\ B \in Nat /\ B > 2 * ENTRIES /\ ENTRIES < C
  BY <1>1
<1>3. BlockAt(t) = B + (t - 1) * C /\ BlockAt(u) = B + (u - 1) * C
  BY DEF BlockAt
<1> HIDE DEF B, C
<1>4. ASSUME NEW D \in Nat \ {0}
      PROVE  /\ (t - 1) * D \in Nat
             /\ t < u => (t - 1) * D + D <= (u - 1) * D
  <2>1. t - 1 \in Nat /\ u - 1 \in Nat
    OBVIOUS
  <2>2. (t - 1) * D \in Nat
    BY <2>1
  <2>3. ASSUME t < u
        PROVE  (t - 1) * D + D <= (u - 1) * D
    <3> DEFINE d == u - t
    <3>1. d \in Nat \ {0} /\ u - 1 = (t - 1) + d
      BY <2>3
    <3>2. d * D >= D
      BY <3>1
    <3>3. ((t - 1) + d) * D = (t - 1) * D + d * D
      BY <3>1
    <3> QED BY <3>1, <3>2, <3>3
  <2> QED BY <2>2, <2>3
<1>5. (t - 1) * C \in Nat /\ (t < u => (t - 1) * C + C <= (u - 1) * C) /\ (u - 1) * C \in Int
  <2>1. (u - 1) \in Int /\ C \in Int
    BY <1>2
  <2> QED BY <1>2, <1>4, <2>1
<1> QED BY <1>1, <1>2, <1>3, <1>5

(* A number has one quotient and one remainder.                            *)
LEMMA DivisionUnique ==
  ASSUME NEW a \in Nat, NEW e \in Entries
  PROVE  /\ ENTRIES * a + e \in Nat
         /\ (ENTRIES * a + e) \div ENTRIES = a
         /\ (ENTRIES * a + e) % ENTRIES = e
<1> DEFINE E == ENTRIES
           q == E * a + e
           b == q \div E
           r == q % E
<1>1. E \in Nat \ {0} /\ e \in 0 .. E - 1 /\ E * a \in Nat
  BY BootAssumption
<1>2. q \in Nat
  BY <1>1
<1>3. r \in Entries /\ b \in Nat /\ q = E * b + r
  BY <1>2, TableOf
<1>4. r \in 0 .. E - 1 /\ E * b \in Nat
  BY <1>1, <1>3, BootAssumption
<1>5. \A k, m \in Int : k < m => E * k + E <= E * m
  BY TablesApart
<1>6. a \in Int /\ b \in Int
  BY <1>3
<1>7. (a < b => E * a + E <= E * b) /\ (b < a => E * b + E <= E * a)
  BY <1>5, <1>6
<1>8. E * a + e = E * b + r
  BY <1>3
<1> HIDE DEF b, r, E
<1>9. ~(a < b) /\ ~(b < a)
  BY <1>1, <1>4, <1>7, <1>8
<1>10. a = b /\ e = r
  BY <1>1, <1>4, <1>6, <1>8, <1>9
<1> QED BY <1>2, <1>10 DEF b, r, E

(* The page of the directory that the processor would start at is the one  *)
(* the entries' first word lies in, HeaderWords before that word.          *)
LEMMA DirectoryPage == PageBase(EntryAt(0)) = ENTRIES
<1>1. HeaderWords \in Entries /\ SLOTS = ENTRIES /\ ENTRIES \in Nat \ {0} /\ HeaderWords \in Nat
  BY BootAssumption
<1>2. EntryAt(0) = ENTRIES * 1 + HeaderWords
  BY <1>1 DEF EntryAt, BlockAt
<1>3. EntryAt(0) % ENTRIES = HeaderWords
  BY <1>1, <1>2, DivisionUnique
<1> QED BY <1>1, <1>2, <1>3 DEF PageBase

(* The table that the processor would take for the one of slot i is that   *)
(* of an earlier slot, so that the entry it would read there, of this      *)
(* table or of one before, is of an earlier page; or it is a word of the   *)
(* directory, which points into the heap.                                  *)
LEMMA BootUnseen == BootInv => KernelUnseen
<1> SUFFICES ASSUME BootInv, NEW p \in 0 .. kernel_blocks - 1, p \in Walk(p) PROVE FALSE
  BY DEF KernelUnseen
<1> DEFINE E == ENTRIES
           H == HeaderWords
           K == kernel_directory
           i == p \div ENTRIES
           r == p % ENTRIES
<1>1. /\ E \in Nat \ {0} /\ SLOTS = E /\ H \in 1 .. E - 1 /\ Slots = 0 .. E - 1 /\ Entries = 0 .. E - 1
      /\ kernel_blocks \in Nat /\ HeapPage \in Nat /\ kernel_blocks <= HeapPage /\ p \in Nat
      /\ HeapPage <= E * E
  BY BootAssumption, FrameAssumption
<1>2. i \in Nat /\ r \in 0 .. E - 1 /\ p = E * i + r /\ E * i \in Nat
  <2>1. i \in Nat /\ r \in Entries /\ p = E * i + r
    BY <1>1, TableOf
  <2> HIDE DEF i, r, E
  <2> QED BY <2>1, <1>1
<1>3. \A k, m \in Int : k < m => E * k + E <= E * m
  BY TablesApart
<1>4. i < E
  <2> SUFFICES ASSUME E <= i PROVE FALSE
    BY <1>1, <1>2
  <2>1. E * E \in Nat /\ E \in Int /\ i \in Int /\ E * i \in Int
    BY <1>1, <1>2
  <2>2. E * E <= E * i
    <3>1. E < i => E * E + E <= E * i
      BY <1>3, <2>1
    <3>2. CASE E < i
      BY <3>1, <3>2, <2>1, <1>1
    <3>3. CASE E = i
      BY <3>3, <2>1
    <3> QED BY <3>2, <3>3, <1>1, <1>2
  <2> HIDE DEF i, r, E
  <2> QED BY <2>1, <2>2, <1>1, <1>2
<1>t. /\ table_count \in 0 .. SLOTS /\ table_count \in Nat
      /\ tables_physical[K] = [s \in Slots |-> IF s < table_count THEN Entry(s + 1) ELSE NoEntry]
      /\ tables[K] = [s \in Slots |-> IF s < table_count THEN s + 1 ELSE NULL]
  BY BootAssumption DEF BootInv, TablesInOrder, kernel_directory
<1>s. ASSUME NEW s \in Slots, tables_physical[K][s].flags
      PROVE  s < table_count /\ tables_physical[K][s].table = s + 1
  BY <1>s, <1>t DEF Entry, NoEntry
<1>5. PICK F \in PointsTo(PageBase(EntryAt(0)) + i) : p \in PointsTo(((F - HeapPage) * ENTRIES) + r)
  BY DEF Walk
<1>6. F \in PointsTo(E + i)
  BY <1>5, DirectoryPage
<1>7. PICK s \in Slots : /\ EntryAt(s) = E + i /\ tables_physical[K][s].flags
                         /\ F = HeapPage + BlockAt(tables_physical[K][s].table) \div E
  <2>1. ASSUME NEW x \in Pages, BlockAt(x[1]) + x[2] = E + i
        PROVE  FALSE
    <3>1. x[1] \in Nat \ {0} /\ x[2] \in Nat
      BY DirAssumption, <1>1
    <3>2. BlockAt(x[1]) \in Nat /\ BlockAt(x[1]) > 2 * E
      BY <3>1, BlocksApart
    <3> HIDE DEF i, E
    <3> QED BY <2>1, <3>1, <3>2, <1>1, <1>2, <1>4
  <2> QED BY <2>1, <1>6 DEF PointsTo, kernel_directory
<1> DEFINE t == s + 1
           b == BlockAt(t) \div E
           w == b * E + r
<1>8. s = i - H /\ t \in Nat \ {0} /\ t <= i /\ F = HeapPage + b
  <2>1. EntryAt(s) = H + E + s
    BY <1>1 DEF EntryAt, BlockAt
  <2>2. s = i - H
    <3>1. H + E + s = E + i /\ s \in Nat /\ H \in Nat
      BY <2>1, <1>1, <1>7
    <3> HIDE DEF i, E, H
    <3> QED BY <3>1, <1>1, <1>2
  <2>3. tables_physical[K][s].table = t
    BY <1>7, <1>s
  <2> QED BY <2>2, <2>3, <1>1, <1>2, <1>7
<1>9. b \in Nat /\ w \in Nat /\ w < BlockAt(t) + E /\ BlockAt(t) \in Nat
  <2>1. BlockAt(t) \in Nat
    BY <1>8, BlocksApart
  <2>2. b \in Nat /\ E * b <= BlockAt(t) /\ E * b \in Nat /\ b * E = E * b
    <3>1. /\ BlockAt(t) % E \in Entries /\ b \in Nat
          /\ BlockAt(t) = E * b + (BlockAt(t) % E)
      BY <2>1, TableOf
    <3>2. (BlockAt(t) % E) \in Nat
      BY <3>1, <1>1
    <3>3. E * b \in Nat /\ b * E = E * b
      <4> HIDE DEF b, E
      <4> QED BY <3>1, <1>1
    <3> HIDE DEF b
    <3> QED BY <3>1, <3>2, <3>3, <2>1
  <2> HIDE DEF b, E, r
  <2> QED BY <2>1, <2>2, <1>1, <1>2
<1>10. p \in PointsTo(w)
  <2>1. F - HeapPage = b
    BY <1>8, <1>9, <1>1
  <2> QED BY <2>1, <1>5
<1>11. ASSUME NEW x \in Slots, tables_physical[K][x].flags,
              p = HeapPage + BlockAt(tables_physical[K][x].table) \div E
       PROVE  FALSE
  <2>1. tables_physical[K][x].table = x + 1 /\ x + 1 \in Nat \ {0}
    BY <1>11, <1>s, <1>1
  <2>2. BlockAt(x + 1) \in Nat
    BY <2>1, BlocksApart
  <2>3. (BlockAt(x + 1) \div E) \in Nat
    BY <2>2, TableOf
  <2> QED BY <2>1, <2>3, <1>1, <1>11
<1>12. ASSUME NEW x \in Pages, x[1] <= table_count, page[x].present, BlockAt(x[1]) + x[2] = w,
              page[x].frame = p
       PROVE  FALSE
  <2> DEFINE u == x[1]
             e == x[2]
             q == E * (u - 1) + e
  <2>1. u \in Nat \ {0} /\ u \in 1 .. MaxTables /\ e \in Entries /\ e \in 0 .. E - 1 /\ x = <<u, e>>
        /\ u - 1 \in Nat
    BY DirAssumption, <1>1
  <2>2. ~(t < u)
    <3>1. t < u => BlockAt(t) + E < BlockAt(u)
      BY <2>1, <1>8, BlocksApart
    <3>2. BlockAt(u) \in Nat
      BY <2>1, BlocksApart
    <3>3. BlockAt(u) + e = w /\ e \in Nat /\ w < BlockAt(t) + E
      BY <2>1, <1>1, <1>9, <1>12
    <3> HIDE DEF t, u, e, w, E
    <3> QED BY <3>1, <3>2, <3>3, <1>1, <1>9
  <2>3. u - 1 < i
    BY <2>1, <2>2, <1>2, <1>8
  <2>4. q \in Nat /\ q \div ENTRIES = u - 1 /\ q % ENTRIES = e
    BY <2>1, DivisionUnique
  <2>5. q < p
    <3>1. E * (u - 1) + E <= E * i
      BY <2>1, <2>3, <1>2, <1>3
    <3>2. E * (u - 1) \in Nat
      BY <2>1, <1>1
    <3> HIDE DEF i, r, E, u, e
    <3> QED BY <3>1, <3>2, <2>1, <1>1, <1>2
  <2>6. q < addr
    <3>1. addr \in Nat
      BY DEF BootInv, LoopProgress
    <3>2. q >= addr => page[<<u, e>>] = [frame |-> 0, present |-> FALSE]
      BY <2>1 DEF BootInv, LoopProgress
    <3> HIDE DEF q
    <3> QED BY <3>1, <3>2, <2>1, <2>4, <1>12
  <2>7. page[<<tables[K][u - 1], e>>].frame = q
    <3>1. q \in 0 .. addr - 1 /\ q < kernel_blocks
      <4>1. addr \in Nat
        BY DEF BootInv, LoopProgress
      <4> HIDE DEF q
      <4> QED BY <4>1, <2>4, <2>5, <2>6, <1>1
    <3>2. page[<<tables[K][q \div ENTRIES], q % ENTRIES>>] = [frame |-> q, present |-> TRUE]
      <4> HIDE DEF q
      <4> QED BY <3>1 DEF BootInv, IdentityMapped
    <3> HIDE DEF q
    <3> QED BY <3>2, <2>4
  <2>8. tables[K][u - 1] = u
    <3>1. u - 1 \in Slots /\ u - 1 < table_count
      BY <2>1, <1>1, <1>12, <1>t
    <3> QED BY <3>1, <1>t, <2>1
  <2>9. page[x].frame = q
    <3> HIDE DEF q, u, e
    <3> QED BY <2>1, <2>7, <2>8
  <2> HIDE DEF q
  <2> QED BY <2>4, <2>5, <2>9, <1>1, <1>12
<1> HIDE DEF w
<1> QED BY <1>10, <1>11, <1>12 DEF PointsTo, kernel_directory

(* kmalloc_a aligns nothing, so at no time of the boot would the processor *)
(* find a page of the kernel where the kernel is, whatever the size of a   *)
(* table and of a block's header, the memory and the kernel's frames.      *)
THEOREM KernelNeverSeen == BootSpec => []KernelUnseen
BY BootUnseen, BootInvariant, PTL

(* Every turn of mm_init_paging's loop runs out of memory or gets one page *)
(* further, and none gets beyond the number of frames: the loop makes at   *)
(* most that many turns before the panic.                                  *)
LoopRunsOut == [][panic' \/ (addr' = addr + 1 /\ addr' <= total_blocks)]_bootVars

(* The panic of mm_alloc_frame is at most as many turns away as memory has *)
(* frames, for every size of it: with the fairness of BootFairSpec, why    *)
(* BootPanics holds.                                                       *)
THEOREM BootRunsOut == BootSpec => LoopRunsOut
<1>1. ASSUME BootInv, BootInv', mm_init_paging
      PROVE  panic' \/ (addr' = addr + 1 /\ addr' <= total_blocks)
  <2>1. addr < used_blocks /\ boot = "kernel"
    BY <1>1, FrameAssumption DEF BootInv, LoopOutrun, LoopProgress
  <2>2. MapKernelPage(addr)
    BY <1>1, <2>1 DEF mm_init_paging
  <2>3. addr' <= total_blocks
    <3>1. (BootInv => addr <= total_blocks)'
      BY LoopInRange, PTL
    <3> QED BY <1>1, <3>1
  <2> QED BY <2>2, <2>3 DEF MapKernelPage
<1>2. BootInv /\ BootInv' /\ [mm_init_paging]_bootVars
        => [panic' \/ (addr' = addr + 1 /\ addr' <= total_blocks)]_bootVars
  BY <1>1
<1> QED BY <1>2, BootInvariant, PTL DEF BootSpec, LoopRunsOut

(* mm_init_paging is a caller of the frame allocator: its steps are steps  *)
(* of FrameAllocator, so every property of that module holds of the boot.  *)
THEOREM BootUsesFrames == BootSpec => Spec
<1>1. BootInit => Init
  BY DEF BootInit
<1>2. BootInv /\ [mm_init_paging]_bootVars => [Next]_vars
  <2> SUFFICES ASSUME BootInv, [mm_init_paging]_bootVars PROVE Next \/ UNCHANGED vars
    OBVIOUS
  <2>1. CASE UNCHANGED bootVars
    BY <2>1 DEF bootVars, allVars
  <2>2. CASE mm_init_paging
    <3>1. addr < used_blocks /\ boot = "kernel"
      BY FrameAssumption DEF BootInv, LoopOutrun, LoopProgress
    <3>2. MapKernelPage(addr)
      BY <2>2, <3>1 DEF mm_init_paging
    <3> QED BY <3>2, LoopTables DEF Next
  <2> QED BY <2>1, <2>2
<1> QED BY <1>1, <1>2, BootInvariant, PTL DEF BootSpec, Spec
=============================================================================
