-------------------------- MODULE KernelHeapProofs --------------------------
(***************************************************************************)
(* Proofs about KernelHeap, for every heap size, header size and set of    *)
(* request sizes.  First the list operations (Split, SetFree, Absorb) as   *)
(* functions of a heap, then kfree as a composition of them, then one      *)
(* inductive invariant over the actions.                                   *)
(***************************************************************************)
EXTENDS KernelHeap, TLAPS

IsHeap(h) ==
  /\ DOMAIN h \subseteq Nat
  /\ h \in [DOMAIN h -> mem_block_t]

(* g is h after block b was cut down to s bytes and a free block put after *)
(* it.                                                                     *)
WasSplit(g, h, b, s) ==
  LET n == b + HeaderSize + s
  IN  /\ n \notin DOMAIN h
      /\ DOMAIN g = DOMAIN h \cup {n}
      /\ g[n].free /\ g[n].next = h[b].next /\ g[n].size = h[b].size - s - HeaderSize
      /\ g[b].size = s /\ g[b].next = n /\ g[b].free = h[b].free
      /\ \A x \in DOMAIN h : x # b => /\ g[x].size = h[x].size
                                     /\ g[x].next = h[x].next
                                     /\ g[x].free = h[x].free

(* Splitting a block that has room for the request and a header leaves a   *)
(* tiling: the new header lies strictly inside the old block.              *)
LEMMA SplitTiles ==
  ASSUME NEW h, IsHeap(h), Tiles(h), NEW b \in DOMAIN h, NEW s \in Nat,
         h[b].size >= s + HeaderSize
  PROVE  /\ IsHeap(Split(h, b, s))
         /\ Tiles(Split(h, b, s))
         /\ WasSplit(Split(h, b, s), h, b, s)
<1> DEFINE n == b + HeaderSize + s
           g == Split(h, b, s)
<1> USE HeapAssumption
<1>1. /\ n \in Nat /\ n # 0 /\ b < n /\ n + HeaderSize <= b + HeaderSize + h[b].size
      /\ b \in Nat /\ h[b].size \in Nat /\ h[b].next \in Nat
  BY DEF IsHeap, mem_block_t
<1>2. n \notin DOMAIN h
  BY <1>1 DEF Tiles, IsHeap, mem_block_t
<1>3. DOMAIN g = DOMAIN h \cup {n}
  BY DEF Split
<1>4. g[n] = [size |-> h[b].size - s - HeaderSize, next |-> h[b].next, prev |-> b, free |-> TRUE]
  BY DEF Split
<1>5. /\ g[b].size = s /\ g[b].next = n /\ g[b].prev = h[b].prev /\ g[b].free = h[b].free
      /\ g[b] \in mem_block_t
  BY <1>1, <1>2 DEF Split, IsHeap, mem_block_t
<1>6. \A x \in DOMAIN h : x # b =>
        /\ g[x].size = h[x].size /\ g[x].next = h[x].next /\ g[x].free = h[x].free
        /\ g[x].prev = IF x = h[b].next THEN n ELSE h[x].prev
        /\ g[x] \in mem_block_t
  BY <1>1, <1>2 DEF Split, IsHeap, mem_block_t
<1>7. IsHeap(g)
  <2>1. g[n] \in mem_block_t
    BY <1>1, <1>4 DEF IsHeap, mem_block_t
  <2>2. \A x \in DOMAIN g : g[x] \in mem_block_t
    BY <2>1, <1>3, <1>5, <1>6
  <2>3. g = [x \in DOMAIN g |-> g[x]]
    BY DEF Split
  <2> QED BY <2>2, <2>3, <1>1, <1>3 DEF IsHeap
<1>8. Tiles(g)
  <2>1. KERNEL_HEAP_START \in DOMAIN g
    BY <1>3 DEF Tiles
  <2>2. ASSUME NEW x \in DOMAIN g PROVE Inside(g, x)
    <3>1. CASE x = n
      BY <3>1, <1>1, <1>4 DEF Tiles, Inside, IsHeap
    <3>2. CASE x # n
      BY <3>2, <1>1, <1>3, <1>5, <1>6 DEF Tiles, Inside, IsHeap, mem_block_t, HeapLimit
    <3> QED BY <3>1, <3>2
  <2>3. ASSUME NEW x \in DOMAIN g PROVE NextOK(g, x)
    <3>1. CASE x = n
      <4>1. h[b].next # NULL => h[b].next \in DOMAIN h /\ h[b].next # b
                                /\ h[b].next = b + HeaderSize + h[b].size
        BY <1>1 DEF Tiles, NextOK, IsHeap, NULL
      <4>2. h[b].next = NULL => b + HeaderSize + h[b].size = HeapLimit
        BY DEF Tiles, NextOK
      <4>3. g[n].next = h[b].next /\ n + HeaderSize + g[n].size = b + HeaderSize + h[b].size
        BY <1>1, <1>4
      <4>4. h[b].next # NULL => g[h[b].next].prev = n
        BY <4>1, <1>6
      <4> HIDE DEF g, n
      <4> QED BY <3>1, <4>1, <4>2, <4>3, <4>4, <1>3 DEF NextOK
    <3>2. CASE x = b
      BY <3>2, <1>1, <1>3, <1>4, <1>5 DEF NextOK, NULL
    <3>3. CASE x # n /\ x # b
      <4>1. x \in DOMAIN h /\ NextOK(h, x) /\ NextOK(h, b)
        BY <3>3, <1>3 DEF Tiles
      <4>2. g[x].next = h[x].next /\ g[x].size = h[x].size
        BY <3>3, <4>1, <1>6
      <4>3. CASE h[x].next = NULL
        BY <4>1, <4>2, <4>3 DEF NextOK
      <4>4. CASE h[x].next # NULL
        <5>1. h[x].next \in DOMAIN h /\ h[h[x].next].prev = x
          BY <4>1, <4>4 DEF NextOK
        <5>2. h[x].next # h[b].next
          BY <4>1, <5>1, <3>3, <4>4 DEF NextOK
        <5>3. g[h[x].next].prev = x
          BY <5>1, <5>2, <1>5, <1>6
        <5> QED BY <4>1, <4>2, <4>4, <5>1, <5>3, <1>3 DEF NextOK
      <4> QED BY <4>3, <4>4
    <3> QED BY <3>1, <3>2, <3>3
  <2>4. ASSUME NEW x \in DOMAIN g PROVE PrevOK(g, x)
    <3>1. CASE x = n
      BY <3>1, <1>1, <1>3, <1>4, <1>5 DEF PrevOK, Tiles, Inside, NULL, IsHeap
    <3>2. CASE x # n
      <4>1. x \in DOMAIN h /\ PrevOK(h, x) /\ NextOK(h, b)
        BY <3>2, <1>3 DEF Tiles
      <4>2. CASE x # b /\ x = h[b].next
        BY <4>1, <4>2, <1>1, <1>3, <1>4, <1>6 DEF PrevOK, NULL
      <4>3. CASE x = b \/ x # h[b].next
        <5>1. g[x].prev = h[x].prev
          BY <4>1, <4>3, <1>5, <1>6
        <5>2. h[x].prev # NULL => h[x].prev # b
          <6> SUFFICES ASSUME h[x].prev # NULL, h[x].prev = b PROVE FALSE
            OBVIOUS
          <6>1. h[b].next = x
            BY <4>1 DEF PrevOK
          <6>2. x = b
            BY <6>1, <4>3
          <6>3. b # NULL
            BY DEF Tiles, Inside, NULL, IsHeap
          <6> QED BY <6>1, <6>2, <6>3, <4>1, <1>1 DEF NextOK
        <5>3. h[x].prev # NULL => h[x].prev \in DOMAIN h /\ h[h[x].prev].next = x
          BY <4>1 DEF PrevOK
        <5>4. h[x].prev # NULL => g[h[x].prev].next = x
          BY <5>2, <5>3, <1>6
        <5> QED BY <4>1, <5>1, <5>3, <5>4, <1>3 DEF PrevOK
      <4> QED BY <4>2, <4>3
    <3> QED BY <3>1, <3>2
  <2>5. ASSUME NEW x \in DOMAIN g, NEW y \in DOMAIN g, x < y
        PROVE  x + HeaderSize + g[x].size <= y
    <3>1. CASE x = n
      <4>1. y \in DOMAIN h /\ b < y
        BY <3>1, <2>5, <1>1, <1>3 DEF IsHeap
      <4>2. b + HeaderSize + h[b].size <= y
        BY <4>1 DEF Tiles
      <4>3. g[n].size = h[b].size - s - HeaderSize /\ y \in Nat
        BY <4>1, <1>4 DEF IsHeap
      <4> QED BY <3>1, <4>2, <4>3, <1>1
    <3>2. CASE x = b /\ y = n
      BY <3>2, <1>1, <1>5
    <3>3. CASE x = b /\ y # n
      <4>1. b + HeaderSize + h[b].size <= y
        BY <3>3, <2>5, <1>3 DEF Tiles
      <4> QED BY <3>3, <4>1, <1>1, <1>3, <1>5 DEF IsHeap
    <3>4. CASE x # n /\ x # b /\ y # n
      BY <3>4, <2>5, <1>3, <1>6 DEF Tiles
    <3>5. CASE x # n /\ x # b /\ y = n
      <4>1. x \in DOMAIN h /\ g[x].size = h[x].size /\ h[x].size \in Nat /\ x \in Nat
        BY <3>5, <1>3, <1>6 DEF IsHeap, mem_block_t
      <4>2. x < b
        <5>1. ~(b < x)
          <6> SUFFICES ASSUME b < x PROVE FALSE
            OBVIOUS
          <6>1. b + HeaderSize + h[b].size <= x
            BY <4>1 DEF Tiles
          <6> QED BY <6>1, <3>5, <2>5, <1>1, <4>1 DEF IsHeap
        <5> QED BY <5>1, <3>5, <4>1 DEF IsHeap
      <4>3. x + HeaderSize + h[x].size <= b
        BY <4>1, <4>2 DEF Tiles
      <4> QED BY <3>5, <4>1, <4>3, <1>1 DEF IsHeap
    <3> QED BY <3>1, <3>2, <3>3, <3>4, <3>5
  <2> HIDE DEF g
  <2> QED BY <2>1, <2>2, <2>3, <2>4, <2>5 DEF Tiles
<1>9. WasSplit(g, h, b, s)
  <2> HIDE DEF g
  <2> QED BY <1>2, <1>3, <1>4, <1>5, <1>6 DEF WasSplit
<1> QED BY <1>7, <1>8, <1>9

(* g is h after the free flag of block b was set to f.                     *)
Marked(g, h, b, f) ==
  /\ DOMAIN g = DOMAIN h
  /\ IsHeap(g)
  /\ \A x \in DOMAIN h :
       /\ g[x].size = h[x].size /\ g[x].next = h[x].next /\ g[x].prev = h[x].prev
       /\ g[x].free = IF x = b THEN f ELSE h[x].free

(* Marking a block free or used changes no size and no link.               *)
LEMMA SetFreeTiles ==
  ASSUME NEW h, IsHeap(h), Tiles(h), NEW b \in DOMAIN h, NEW f \in BOOLEAN
  PROVE  Tiles(SetFree(h, b, f)) /\ Marked(SetFree(h, b, f), h, b, f)
<1> DEFINE g == SetFree(h, b, f)
<1>1. DOMAIN g = DOMAIN h
  BY DEF SetFree
<1>2. \A x \in DOMAIN h :
        /\ g[x].size = h[x].size /\ g[x].next = h[x].next /\ g[x].prev = h[x].prev
        /\ g[x].free = IF x = b THEN f ELSE h[x].free
        /\ g[x] \in mem_block_t
  BY DEF SetFree, IsHeap, mem_block_t
<1>3. IsHeap(g)
  <2>1. g = [x \in DOMAIN g |-> g[x]]
    BY DEF SetFree, IsHeap
  <2> HIDE DEF g
  <2> QED BY <2>1, <1>1, <1>2 DEF IsHeap
<1> HIDE DEF g
<1>4. ASSUME NEW x \in DOMAIN h PROVE Inside(g, x) /\ NextOK(g, x) /\ PrevOK(g, x)
  <2>1. Inside(h, x) /\ NextOK(h, x) /\ PrevOK(h, x)
    BY DEF Tiles
  <2>2. Inside(g, x)
    BY <2>1, <1>2 DEF Inside
  <2>3. NextOK(g, x)
    BY <2>1, <1>1, <1>2 DEF NextOK
  <2>4. PrevOK(g, x)
    BY <2>1, <1>1, <1>2 DEF PrevOK
  <2> QED BY <2>2, <2>3, <2>4
<1>5. Tiles(g)
  BY <1>1, <1>2, <1>4 DEF Tiles
<1>6. Marked(g, h, b, f)
  BY <1>1, <1>2, <1>3 DEF Marked
<1> QED BY <1>5, <1>6 DEF g

(* g is h after block a absorbed block n.                                  *)
Absorbed(g, h, a, n) ==
  /\ DOMAIN g = DOMAIN h \ {n}
  /\ IsHeap(g)
  /\ \A x \in DOMAIN h \ {n} :
       /\ g[x].free = h[x].free
       /\ g[x].size = IF x = a THEN h[a].size + h[n].size + HeaderSize ELSE h[x].size
       /\ g[x].next = IF x = a THEN h[n].next ELSE h[x].next
       /\ g[x].prev = IF x # a /\ x = h[n].next THEN a ELSE h[x].prev

(* The effect of Absorb on each header that stays on the list.             *)
LEMMA AbsorbFields ==
  ASSUME NEW h, IsHeap(h), NEW a \in DOMAIN h, NEW n \in DOMAIN h, a # n
  PROVE  Absorbed(Absorb(h, a, n), h, a, n)
<1> USE HeapAssumption
<1> DEFINE g == Absorb(h, a, n)
<1>1. DOMAIN g = DOMAIN h \ {n}
  BY DEF Absorb
<1>2. \A x \in DOMAIN h \ {n} :
        /\ g[x].free = h[x].free
        /\ g[x].size = IF x = a THEN h[a].size + h[n].size + HeaderSize ELSE h[x].size
        /\ g[x].next = IF x = a THEN h[n].next ELSE h[x].next
        /\ g[x].prev = IF x # a /\ x = h[n].next THEN a ELSE h[x].prev
        /\ g[x] \in mem_block_t
  <2> TAKE x \in DOMAIN h \ {n}
  <2>1. /\ h[x] \in mem_block_t /\ h[a] \in mem_block_t /\ h[n] \in mem_block_t
        /\ x \in Nat /\ a \in Nat
    BY DEF IsHeap
  <2>2. CASE x = a
    <3>1. g[a] = [h[a] EXCEPT !.size = h[a].size + h[n].size + HeaderSize,
                              !.next = h[n].next]
      BY <2>2 DEF Absorb
    <3> HIDE DEF g
    <3>2. h[a].size + h[n].size + HeaderSize \in Nat
      BY <2>1 DEF mem_block_t
    <3>3. g[a] = [size |-> h[a].size + h[n].size + HeaderSize, next |-> h[n].next,
                  prev |-> h[a].prev, free |-> h[a].free]
      BY <3>1, <2>1 DEF mem_block_t
    <3>4. g[a] \in mem_block_t
      BY <3>2, <3>3, <2>1 DEF mem_block_t
    <3> QED BY <3>3, <3>4, <2>2
  <2>3. CASE x # a /\ x = h[n].next
    <3>1. g[x] = [h[x] EXCEPT !.prev = a]
      BY <2>3 DEF Absorb
    <3> HIDE DEF g
    <3> QED BY <3>1, <2>1, <2>3 DEF mem_block_t
  <2>4. CASE x # a /\ x # h[n].next
    <3>1. g[x] = h[x]
      BY <2>4 DEF Absorb
    <3> HIDE DEF g
    <3> QED BY <3>1, <2>1, <2>4
  <2> QED BY <2>2, <2>3, <2>4
<1>3. IsHeap(g)
  <2>1. g = [x \in DOMAIN g |-> g[x]]
    BY DEF Absorb
  <2> HIDE DEF g
  <2> QED BY <2>1, <1>1, <1>2 DEF IsHeap
<1> HIDE DEF g
<1>4. Absorbed(g, h, a, n)
  BY <1>1, <1>2, <1>3 DEF Absorbed
<1> QED BY <1>4 DEF g

(* Merging a block with its successor leaves a tiling: the two regions and *)
(* the header between them become one region.                              *)
LEMMA AbsorbTiles ==
  ASSUME NEW h, IsHeap(h), Tiles(h), NEW a \in DOMAIN h, NEW n \in DOMAIN h,
         h[a].next = n
  PROVE  a # n /\ Tiles(Absorb(h, a, n))
<1> USE HeapAssumption
<1> DEFINE g == Absorb(h, a, n)
<1>1. \A x \in DOMAIN h : /\ x \in Nat /\ x # NULL
                          /\ h[x].size \in Nat /\ h[x].next \in Nat /\ h[x].prev \in Nat
  BY DEF IsHeap, mem_block_t, Tiles, Inside, NULL
<1>2. /\ n = a + HeaderSize + h[a].size /\ h[n].prev = a
      /\ a \in Nat /\ n \in Nat /\ a < n /\ n # NULL
  BY <1>1 DEF Tiles, NextOK, NULL
<1>0. a # n
  BY <1>2
<1>3. /\ DOMAIN g = DOMAIN h \ {n}
      /\ \A x \in DOMAIN h \ {n} :
           /\ g[x].size = IF x = a THEN h[a].size + h[n].size + HeaderSize ELSE h[x].size
           /\ g[x].next = IF x = a THEN h[n].next ELSE h[x].next
           /\ g[x].prev = IF x # a /\ x = h[n].next THEN a ELSE h[x].prev
  <2>1. Absorbed(g, h, a, n)
    BY <1>0, AbsorbFields
  <2> HIDE DEF g
  <2> QED BY <2>1 DEF Absorbed
<1> HIDE DEF g
<1>4. KERNEL_HEAP_START \in DOMAIN g
  BY <1>1, <1>2, <1>3 DEF Tiles, Inside
<1>n. h[n].next # NULL => /\ h[n].next \in DOMAIN h /\ h[h[n].next].prev = n
                          /\ h[n].next = n + HeaderSize + h[n].size
                          /\ h[n].next # a /\ h[n].next # n
  BY <1>1, <1>2 DEF Tiles, NextOK
<1>5. ASSUME NEW x \in DOMAIN g PROVE Inside(g, x)
  <2>1. x \in DOMAIN h /\ x # n /\ Inside(h, x) /\ Inside(h, n)
    BY <1>3 DEF Tiles
  <2>2. CASE x = a
    BY <2>1, <2>2, <1>1, <1>2, <1>3 DEF Inside, HeapLimit
  <2>3. CASE x # a
    BY <2>1, <2>3, <1>3 DEF Inside
  <2> QED BY <2>2, <2>3
<1>6. ASSUME NEW x \in DOMAIN g PROVE NextOK(g, x)
  <2>1. x \in DOMAIN h /\ x # n /\ NextOK(h, x) /\ NextOK(h, n)
    BY <1>3 DEF Tiles
  <2>2. CASE x = a
    <3>1. /\ g[a].next = h[n].next
          /\ a + HeaderSize + g[a].size = n + HeaderSize + h[n].size
      BY <2>1, <2>2, <1>1, <1>2, <1>3
    <3>2. h[n].next # NULL => h[n].next \in DOMAIN g /\ g[h[n].next].prev = a
      BY <1>n, <1>3
    <3> QED BY <2>1, <2>2, <3>1, <3>2 DEF NextOK
  <2>3. CASE x # a
    <3>1. g[x].next = h[x].next /\ g[x].size = h[x].size
      BY <2>1, <2>3, <1>3
    <3>2. h[x].next # NULL => h[x].next \in DOMAIN h /\ h[h[x].next].prev = x
      BY <2>1 DEF NextOK
    <3>3. h[x].next # NULL => h[x].next # n
      BY <3>2, <2>3, <1>2
    <3>4. h[x].next # NULL => h[x].next # h[n].next
      BY <3>2, <2>1, <1>n
    <3>5. h[x].next # NULL => h[x].next \in DOMAIN g /\ g[h[x].next].prev = x
      BY <3>2, <3>3, <3>4, <1>3
    <3> QED BY <2>1, <3>1, <3>5 DEF NextOK
  <2> QED BY <2>2, <2>3
<1>7. ASSUME NEW x \in DOMAIN g PROVE PrevOK(g, x)
  <2>1. x \in DOMAIN h /\ x # n /\ PrevOK(h, x)
    BY <1>3 DEF Tiles
  <2>2. CASE x # a /\ x = h[n].next
    BY <2>1, <2>2, <1>1, <1>2, <1>3 DEF PrevOK
  <2>3. CASE x = a \/ x # h[n].next
    <3>1. g[x].prev = h[x].prev
      BY <2>1, <2>3, <1>3
    <3>2. h[x].prev # NULL => h[x].prev \in DOMAIN h /\ h[h[x].prev].next = x
      BY <2>1 DEF PrevOK
    <3>3. h[x].prev # NULL => h[x].prev # n /\ h[x].prev # a
      BY <3>2, <2>1, <2>3, <1>1, <1>2, <1>n
    <3> QED BY <2>1, <3>1, <3>2, <3>3, <1>3 DEF PrevOK
  <2> QED BY <2>2, <2>3
<1>8. ASSUME NEW x \in DOMAIN g, NEW y \in DOMAIN g, x < y
      PROVE  x + HeaderSize + g[x].size <= y
  <2>1. /\ x \in DOMAIN h /\ x # n /\ y \in DOMAIN h /\ y # n
        /\ x + HeaderSize + h[x].size <= y
    BY <1>3, <1>8 DEF Tiles
  <2>2. CASE x = a
    <3>1. n < y
      BY <2>1, <2>2, <1>1, <1>2
    <3>2. n + HeaderSize + h[n].size <= y
      BY <3>1, <2>1 DEF Tiles
    <3> QED BY <2>1, <2>2, <3>2, <1>1, <1>2, <1>3
  <2>3. CASE x # a
    BY <2>1, <2>3, <1>3
  <2> QED BY <2>2, <2>3
<1>9. Tiles(g)
  BY <1>4, <1>5, <1>6, <1>7, <1>8 DEF Tiles
<1> QED BY <1>0, <1>9 DEF g

Region == [ptr : Nat, size : Sizes \ {0}]

(* The block kmalloc_ap takes, split or whole, becomes the caller's, and   *)
(* the rest of a split block is free and has no free neighbour.            *)
LEMMA TakenHole ==
  ASSUME NEW h, IsHeap(h), Tiles(h), Apart(h),
         NEW L \in SUBSET Region, UsedBy(h, L),
         NEW b \in DOMAIN h, h[b].free,
         NEW s \in Sizes \ {0}, h[b].size >= s + HeaderSize,
         NEW k, k = IF h[b].size >= s + HeaderSize + SplitSlack THEN Split(h, b, s) ELSE h,
         NEW g, g = SetFree(k, b, FALSE)
  PROVE  /\ IsHeap(g) /\ Tiles(g) /\ Apart(g)
         /\ UsedBy(g, L \cup {[ptr |-> b + HeaderSize, size |-> s]})
<1> USE HeapAssumption
<1> DEFINE n == b + HeaderSize + s
           new == [ptr |-> b + HeaderSize, size |-> s]
<1>1. /\ b \in Nat /\ s \in Nat /\ n \in Nat /\ n # b /\ h[b].size \in Nat /\ n # NULL
      /\ b + HeaderSize - HeaderSize = b
  BY DEF IsHeap, mem_block_t, NULL
<1>2. /\ k = h \/ WasSplit(k, h, b, s)
      /\ IsHeap(k) /\ Tiles(k) /\ b \in DOMAIN k
  <2>1. WasSplit(k, h, b, s) => b \in DOMAIN k
    BY DEF WasSplit
  <2> QED BY <1>1, <2>1, SplitTiles
<1>3. Tiles(g) /\ Marked(g, k, b, FALSE)
  BY <1>2, SetFreeTiles
<1>4. Apart(g)
  <2> SUFFICES ASSUME NEW x \in DOMAIN g, g[x].free, g[x].next # NULL
               PROVE  ~g[g[x].next].free
    BY DEF Apart
  <2>1. x \in DOMAIN k /\ x # b /\ k[x].free /\ g[x].next = k[x].next
    BY <1>3 DEF Marked
  <2>2. k[x].next \in DOMAIN k
    BY <2>1, <1>2 DEF Tiles, NextOK
  <2>3. k[x].next = b \/ ~k[k[x].next].free
    <3>1. CASE k = h
      BY <3>1, <2>1 DEF Apart
    <3>2. CASE WasSplit(k, h, b, s)
      <4>1. CASE x = n
        <5>1. k[x].next = h[b].next /\ h[b].next # NULL
          BY <4>1, <3>2, <2>1 DEF WasSplit
        <5>2. ~h[h[b].next].free /\ h[b].next \in DOMAIN h
          BY <5>1 DEF Apart, Tiles, NextOK
        <5> QED BY <5>1, <5>2, <3>2 DEF WasSplit
      <4>2. CASE x # n
        <5>1. x \in DOMAIN h /\ k[x].next = h[x].next /\ h[x].free /\ h[x].next # NULL
          BY <4>2, <3>2, <2>1 DEF WasSplit
        <5>2. ~h[h[x].next].free /\ h[x].next \in DOMAIN h
          BY <5>1 DEF Apart, Tiles, NextOK
        <5> QED BY <5>1, <5>2, <3>2 DEF WasSplit
      <4> QED BY <4>1, <4>2
    <3> QED BY <3>1, <3>2, <1>2
  <2>4. CASE k[x].next = b
    <3>1. g[b].free = FALSE
      BY <1>2, <1>3 DEF Marked
    <3> QED BY <3>1, <2>1, <2>4
  <2>5. CASE k[x].next # b
    <3>1. g[k[x].next].free = k[k[x].next].free
      BY <2>2, <2>5, <1>3 DEF Marked
    <3> QED BY <3>1, <2>1, <2>3, <2>5
  <2> QED BY <2>4, <2>5
<1>5. \A x \in DOMAIN h : ~h[x].free => x \in DOMAIN g /\ ~g[x].free /\ g[x].size = h[x].size
  <2> TAKE x \in DOMAIN h
  <2> HAVE ~h[x].free
  <2>1. x # b
    OBVIOUS
  <2>2. x \in DOMAIN k /\ ~k[x].free /\ k[x].size = h[x].size
    BY <2>1, <1>2 DEF WasSplit
  <2> QED BY <2>1, <2>2, <1>3 DEF Marked
<1>6. b \in DOMAIN g /\ ~g[b].free /\ s <= g[b].size
  <2>1. k[b].size = h[b].size \/ k[b].size = s
    BY <1>2 DEF WasSplit
  <2>2. s <= k[b].size
    BY <1>1, <2>1
  <2> QED BY <2>2, <1>2, <1>3 DEF Marked
<1>7. \A x \in DOMAIN g : ~g[x].free => x = b \/ (x \in DOMAIN h /\ ~h[x].free)
  <2> TAKE x \in DOMAIN g
  <2> HAVE ~g[x].free
  <2>1. x \in DOMAIN k /\ (x = b \/ ~k[x].free)
    BY <1>3 DEF Marked
  <2> QED BY <2>1, <1>2 DEF WasSplit
<1>8. new.ptr = b + HeaderSize /\ new.size = s
  OBVIOUS
<1> HIDE DEF new, n
<1>9. UsedBy(g, L \cup {new})
  <2>1. ASSUME NEW r \in L \cup {new} PROVE Holds(g, r)
    <3>1. CASE r \in L
      <4>1. Holds(h, r)
        BY <3>1 DEF UsedBy
      <4> QED BY <4>1, <1>5 DEF Holds
    <3>2. CASE r = new
      <4>1. r.ptr - HeaderSize = b /\ r.size = s
        BY <3>2, <1>1, <1>8
      <4> QED BY <4>1, <1>6 DEF Holds
    <3> QED BY <3>1, <3>2
  <2>2. ASSUME NEW r \in L PROVE r.ptr # b + HeaderSize
    <3>1. ~h[r.ptr - HeaderSize].free
      BY DEF UsedBy, Holds
    <3> QED BY <3>1, <1>1
  <2>3. ASSUME NEW r \in L \cup {new}, NEW q \in L \cup {new}, r.ptr = q.ptr PROVE r = q
    <3>1. r \in L /\ q \in L => r = q
      BY <2>3 DEF UsedBy
    <3> QED BY <3>1, <2>2, <2>3, <1>8
  <2>4. ASSUME NEW x \in DOMAIN g, ~g[x].free
        PROVE  \E r \in L \cup {new} : r.ptr = x + HeaderSize
    BY <2>4, <1>7, <1>8 DEF UsedBy
  <2> QED BY <2>1, <2>3, <2>4 DEF UsedBy
<1>10. IsHeap(g)
  BY <1>3 DEF Marked
<1> QED BY <1>3, <1>4, <1>9, <1>10 DEF new

(* Merging two free blocks takes nothing from the callers.                 *)
LEMMA AbsorbUsed ==
  ASSUME NEW h, IsHeap(h), NEW a \in DOMAIN h, NEW n \in DOMAIN h,
         h[a].free, h[n].free, NEW L, UsedBy(h, L), NEW g, Absorbed(g, h, a, n)
  PROVE  UsedBy(g, L)
<1>1. \A x \in DOMAIN h : ~h[x].free => /\ x \in DOMAIN g /\ ~g[x].free
                                        /\ g[x].size = h[x].size
  BY DEF Absorbed
<1>2. \A x \in DOMAIN g : x \in DOMAIN h /\ (~g[x].free => ~h[x].free)
  BY DEF Absorbed
<1>3. ASSUME NEW r \in L PROVE Holds(g, r)
  BY <1>1 DEF UsedBy, Holds
<1>4. ASSUME NEW x \in DOMAIN g, ~g[x].free PROVE \E r \in L : r.ptr = x + HeaderSize
  BY <1>2, <1>4 DEF UsedBy
<1> QED BY <1>3, <1>4 DEF UsedBy

(* Two free blocks touch nowhere but behind block c.                       *)
TouchOnly(h, c) ==
  \A x \in DOMAIN h :
    h[x].free /\ h[x].next # NULL /\ h[h[x].next].free => x = c

(* Merging the one pair of free blocks that touch leaves none.             *)
LEMMA AbsorbApart ==
  ASSUME NEW h, IsHeap(h), Tiles(h), NEW a \in DOMAIN h, NEW n \in DOMAIN h,
         a # n, h[a].next = n, h[n].free, TouchOnly(h, a),
         NEW g, Absorbed(g, h, a, n), Tiles(g)
  PROVE  Apart(g)
<1> SUFFICES ASSUME NEW x \in DOMAIN g, g[x].free, g[x].next # NULL, g[g[x].next].free
             PROVE  FALSE
  BY DEF Apart
<1>1. x \in DOMAIN h /\ x # n /\ h[x].free
  BY DEF Absorbed
<1>2. g[x].next \in DOMAIN g
  BY DEF Tiles, NextOK
<1>3. g[x].next \in DOMAIN h /\ h[g[x].next].free
  BY <1>2 DEF Absorbed
<1>4. CASE x = a
  <2>1. g[x].next = h[n].next
    BY <1>4, <1>1 DEF Absorbed
  <2> QED BY <2>1, <1>3 DEF TouchOnly
<1>5. CASE x # a
  <2>1. g[x].next = h[x].next
    BY <1>5, <1>1 DEF Absorbed
  <2> QED BY <2>1, <1>1, <1>3, <1>5 DEF TouchOnly
<1> QED BY <1>4, <1>5

(* kfree gives the caller's block back, keeps the tiling, and leaves no    *)
(* two free blocks side by side.                                           *)
LEMMA FreedHeap ==
  ASSUME NEW h, IsHeap(h), Tiles(h), Apart(h),
         NEW L \in SUBSET Region, UsedBy(h, L), NEW r \in L,
         NEW g, g = Freed(h, r.ptr - HeaderSize)
  PROVE  IsHeap(g) /\ Tiles(g) /\ Apart(g) /\ UsedBy(g, L \ {r})
<1> USE HeapAssumption
<1> DEFINE b    == r.ptr - HeaderSize
           h1   == SetFree(h, b, TRUE)
           p    == h1[b].prev
           back == p # NULL /\ h1[p].free
           h2   == IF back THEN Absorb(h1, p, b) ELSE h1
           c    == IF back THEN p ELSE b
           n    == h2[c].next
           h3   == IF n # NULL /\ h2[n].free THEN Absorb(h2, c, n) ELSE h2
<1>1. g = h3
  BY DEF Freed
<1>2. /\ b \in DOMAIN h /\ ~h[b].free
      /\ \A q \in L : Holds(h, q) /\ q.ptr \in Nat /\ (q # r => q.ptr - HeaderSize # b)
      /\ b + HeaderSize = r.ptr
  BY DEF UsedBy, Holds, Region
<1> HIDE DEF b
<1>3. Tiles(h1) /\ Marked(h1, h, b, TRUE)
  BY <1>2, SetFreeTiles
<1> HIDE DEF h1
<1>4. IsHeap(h1) /\ DOMAIN h1 = DOMAIN h /\ b \in DOMAIN h1 /\ h1[b].free
  BY <1>2, <1>3 DEF Marked
<1>5. \A x \in DOMAIN h : x # b => h1[x].free = h[x].free
  BY <1>3 DEF Marked
<1>6. UsedBy(h1, L \ {r})
  <2>1. ASSUME NEW q \in L \ {r} PROVE Holds(h1, q)
    <3>1. q \in L /\ q # r
      OBVIOUS
    <3>2. Holds(h, q) /\ q.ptr - HeaderSize # b
      BY <3>1, <1>2
    <3> QED BY <3>2, <1>3 DEF Holds, Marked
  <2>2. ASSUME NEW q1 \in L \ {r}, NEW q2 \in L \ {r}, q1.ptr = q2.ptr PROVE q1 = q2
    BY <2>2 DEF UsedBy
  <2>3. ASSUME NEW x \in DOMAIN h1, ~h1[x].free
        PROVE  \E q \in L \ {r} : q.ptr = x + HeaderSize
    <3>1. x # b /\ x \in DOMAIN h /\ ~h[x].free
      BY <2>3, <1>4, <1>5
    <3>2. PICK q \in L : q.ptr = x + HeaderSize
      BY <3>1 DEF UsedBy
    <3>3. x \in Nat /\ b \in Nat
      BY <3>1, <1>2 DEF IsHeap
    <3>4. q # r
      BY <3>1, <3>2, <3>3, <1>2
    <3> QED BY <3>2, <3>4
  <2> QED BY <2>1, <2>2, <2>3 DEF UsedBy
<1>7. \A x \in DOMAIN h1 : h1[x].next # NULL => /\ h1[x].next \in DOMAIN h1
                                               /\ h1[h1[x].next].prev = x
  BY <1>3 DEF Tiles, NextOK
<1>8. ASSUME NEW x \in DOMAIN h1, h1[x].free, h1[x].next # NULL, h1[h1[x].next].free
      PROVE  x = b \/ h1[x].next = b
  <2> SUFFICES ASSUME x # b, h1[x].next # b PROVE FALSE
    OBVIOUS
  <2>1. h[x].free /\ h[x].next = h1[x].next /\ h[h1[x].next].free
    BY <1>3, <1>4, <1>5, <1>7, <1>8 DEF Marked
  <2> QED BY <2>1, <1>4, <1>8 DEF Apart
<1>9. /\ IsHeap(h2) /\ Tiles(h2) /\ c \in DOMAIN h2 /\ h2[c].free
      /\ UsedBy(h2, L \ {r}) /\ TouchOnly(h2, c)
  <2>1. CASE back
    <3>1. p \in DOMAIN h1 /\ h1[p].next = b /\ h2 = Absorb(h1, p, b) /\ c = p
      BY <2>1, <1>3, <1>4 DEF Tiles, PrevOK
    <3>2. h1[p].free
      BY <2>1
    <3> HIDE DEF h2, c, p
    <3>3. p # b /\ Tiles(h2)
      BY <3>1, <1>3, <1>4, AbsorbTiles
    <3>4. Absorbed(h2, h1, p, b)
      BY <3>1, <3>3, <1>4, AbsorbFields
    <3>5. UsedBy(h2, L \ {r})
      BY <3>1, <3>2, <3>4, <1>4, <1>6, AbsorbUsed
    <3>6. IsHeap(h2) /\ c \in DOMAIN h2 /\ h2[c].free
      BY <3>1, <3>2, <3>3, <3>4 DEF Absorbed
    <3>7. TouchOnly(h2, p)
      <4> SUFFICES ASSUME NEW x \in DOMAIN h2, x # p,
                          h2[x].free, h2[x].next # NULL, h2[h2[x].next].free
                   PROVE  FALSE
        BY DEF TouchOnly
      <4>1. x \in DOMAIN h1 /\ x # b /\ h1[x].free /\ h2[x].next = h1[x].next
        BY <3>4 DEF Absorbed
      <4>2. h1[x].next # b
        BY <4>1, <1>7 DEF p
      <4>3. h2[x].next \in DOMAIN h2
        BY <3>3 DEF Tiles, NextOK
      <4>4. h1[h1[x].next].free
        BY <4>1, <4>3, <3>4 DEF Absorbed
      <4> QED BY <4>1, <4>2, <4>4, <1>8
    <3> QED BY <3>1, <3>3, <3>5, <3>6, <3>7
  <2>2. CASE ~back
    <3>1. h2 = h1 /\ c = b
      BY <2>2
    <3>2. TouchOnly(h1, b)
      <4> SUFFICES ASSUME NEW x \in DOMAIN h1, x # b,
                          h1[x].free, h1[x].next # NULL, h1[h1[x].next].free
                   PROVE  FALSE
        BY DEF TouchOnly
      <4>1. h1[x].next = b
        BY <1>8
      <4>2. p = x
        BY <4>1, <1>7
      <4>3. x # NULL
        BY <1>3 DEF Tiles, Inside, NULL, IsHeap
      <4> QED BY <4>2, <4>3, <2>2
    <3> QED BY <3>1, <3>2, <1>3, <1>4, <1>6
  <2> QED BY <2>1, <2>2
<1> HIDE DEF h2, c, p
<1>10. IsHeap(h3) /\ Tiles(h3) /\ Apart(h3) /\ UsedBy(h3, L \ {r})
  <2>1. CASE n # NULL /\ h2[n].free
    <3>1. n \in DOMAIN h2 /\ h2[c].next = n
      BY <2>1, <1>9 DEF Tiles, NextOK
    <3>2. h3 = Absorb(h2, c, n)
      BY <2>1
    <3>3. h2[n].free
      BY <2>1
    <3> HIDE DEF h3, n
    <3>4. c # n /\ Tiles(h3)
      BY <3>1, <3>2, <1>9, AbsorbTiles
    <3>5. Absorbed(h3, h2, c, n)
      BY <3>1, <3>2, <3>4, <1>9, AbsorbFields
    <3>6. UsedBy(h3, L \ {r})
      BY <3>1, <3>3, <3>5, <1>9, AbsorbUsed
    <3>7. Apart(h3)
      BY <3>1, <3>3, <3>4, <3>5, <1>9, AbsorbApart
    <3> QED BY <3>4, <3>5, <3>6, <3>7 DEF Absorbed
  <2>2. CASE ~(n # NULL /\ h2[n].free)
    <3>1. h3 = h2
      BY <2>2
    <3>2. Apart(h2)
      BY <2>2, <1>9 DEF Apart, TouchOnly
    <3> QED BY <3>1, <3>2, <1>9
  <2> QED BY <2>1, <2>2
<1> QED BY <1>1, <1>10

-----------------------------------------------------------------------------
(* The inductive invariant: the invariants of the run together.  HeapTiled *)
(* needs LiveIsUsed (kfree is called on a block of the list), Coalesced    *)
(* needs both, and all of them need HeapPhases to know when they apply.    *)
HeapInv ==
  /\ TypeOK
  /\ HeapTiled
  /\ LiveIsUsed
  /\ Coalesced
  /\ FirstFit
  /\ HeapPhases

(* The first call of kmalloc_ap makes one free block of the whole heap.    *)
LEMMA FirstBlockHeap ==
  /\ IsHeap(FirstBlock) /\ Tiles(FirstBlock) /\ Apart(FirstBlock)
  /\ UsedBy(FirstBlock, {}) /\ DOMAIN FirstBlock = {KERNEL_HEAP_START}
<1> USE HeapAssumption
<1> DEFINE S == KERNEL_HEAP_START
           h == FirstBlock
<1>1. DOMAIN h = {S} /\ S \in Nat /\ S # NULL
  BY DEF FirstBlock, NULL
<1>2. /\ h[S].size = KERNEL_HEAP_SIZE - HeaderSize /\ h[S].next = NULL /\ h[S].prev = NULL
      /\ h[S].free /\ h[S].size \in Nat /\ h[S] \in mem_block_t
  BY DEF FirstBlock, mem_block_t, NULL
<1>3. h = [x \in {S} |-> h[x]]
  BY DEF FirstBlock
<1> HIDE DEF h
<1>4. IsHeap(h)
  BY <1>1, <1>2, <1>3 DEF IsHeap
<1>5. Tiles(h)
  BY <1>1, <1>2 DEF Tiles, Inside, NextOK, PrevOK, HeapLimit
<1>6. Apart(h) /\ UsedBy(h, {})
  BY <1>1, <1>2 DEF Apart, UsedBy
<1> QED BY <1>1, <1>4, <1>5, <1>6 DEF h

(* At boot the block list is empty.                                        *)
LEMMA InitHeapInv == Init => HeapInv
<1> SUFFICES ASSUME Init PROVE HeapInv
  OBVIOUS
<1> USE HeapAssumption DEF Init
<1>1. TypeOK
  <2>1. DOMAIN hdr = {} /\ hdr \in [{} -> mem_block_t]
    OBVIOUS
  <2> QED BY <2>1 DEF TypeOK, Blocks, NULL
<1>2. heap_start = NULL
  OBVIOUS
<1> QED BY <1>1, <1>2 DEF HeapInv, HeapTiled, LiveIsUsed, Coalesced, FirstFit, HeapPhases,
                         InUse, Blocks

(* Starting a call keeps the invariant: the heap is there afterwards, and  *)
(* the search starts at its first block.                                   *)
LEMMA KmallocInv ==
  ASSUME HeapInv, NEW s \in Sizes, Kmalloc(s)
  PROVE  HeapInv'
<1> USE HeapAssumption
<1>1. /\ heap_start' = KERNEL_HEAP_START /\ heap_end' = KERNEL_HEAP_START
      /\ UNCHANGED <<heap_placement, live, exhausted>>
      /\ ~exhausted' => /\ IsHeap(hdr') /\ Tiles(hdr') /\ Apart(hdr') /\ UsedBy(hdr', live')
      /\ exhausted' => hdr' = hdr
  <2>1. CASE heap_start = NULL
    BY <2>1, FirstBlockHeap DEF Kmalloc, HeapInv, HeapPhases
  <2>2. CASE heap_start # NULL
    BY <2>2 DEF Kmalloc, HeapInv, HeapPhases, TypeOK, HeapTiled, LiveIsUsed, Coalesced,
                InUse, IsHeap, Blocks
  <2> QED BY <2>1, <2>2
<1>2. KERNEL_HEAP_START \in Nat /\ KERNEL_HEAP_START # NULL
  BY DEF NULL
<1>3. /\ pc = "ready" /\ pc' \in {"ready", "search"} /\ req' \in Sizes \cup {0} /\ cur' \in Nat
      /\ pc' = "search" => req' # 0 /\ cur' = KERNEL_HEAP_START
  BY <1>1, <1>2 DEF Kmalloc, HeapInv, TypeOK
<1>4. TypeOK'
  BY <1>1, <1>3 DEF TypeOK, HeapInv, IsHeap, Blocks
<1>5. HeapTiled' /\ LiveIsUsed' /\ Coalesced'
  BY <1>1 DEF HeapTiled, LiveIsUsed, Coalesced, InUse
<1>6. FirstFit'
  <2> SUFFICES ASSUME pc' = "search", InUse'
               PROVE  /\ cur' \in DOMAIN hdr' \cup {NULL}
                      /\ \A b \in DOMAIN hdr' : ~(cur' = NULL \/ b < cur')
    BY DEF FirstFit, Blocks
  <2>1. IsHeap(hdr') /\ Tiles(hdr') /\ cur' = KERNEL_HEAP_START
    BY <1>1, <1>3 DEF InUse
  <2> QED BY <2>1, <1>2 DEF Tiles, Inside, IsHeap
<1>7. HeapPhases'
  BY <1>1, <1>2, <1>3 DEF HeapPhases, HeapInv, Blocks
<1> QED BY <1>4, <1>5, <1>6, <1>7 DEF HeapInv

(* Going on to the next block keeps FirstFit: the tiling has no block      *)
(* between a block and its successor, and none behind the last.            *)
LEMMA SearchNextInv ==
  ASSUME HeapInv, SearchNext
  PROVE  HeapInv'
<1> USE HeapAssumption
<1>1. /\ pc = "search" /\ cur # NULL /\ ~Fits(cur, req) /\ cur' = hdr[cur].next
      /\ UNCHANGED <<hdr, heap_start, heap_end, heap_placement, pc, req, live, exhausted>>
  BY DEF SearchNext
<1>2. cur \in Blocks /\ hdr[cur] \in mem_block_t /\ heap_start # NULL
  BY <1>1 DEF HeapInv, FirstFit, HeapPhases, TypeOK, InUse
<1>3. TypeOK'
  BY <1>1, <1>2 DEF HeapInv, TypeOK, mem_block_t, Blocks
<1>4. HeapTiled' /\ LiveIsUsed' /\ Coalesced'
  BY <1>1 DEF HeapInv, HeapTiled, LiveIsUsed, Coalesced, InUse
<1>5. FirstFit'
  <2> SUFFICES ASSUME InUse
               PROVE  /\ cur' \in Blocks \cup {NULL}
                      /\ \A b \in Blocks : cur' = NULL \/ b < cur' => ~Fits(b, req)
    BY <1>1 DEF FirstFit, InUse, Blocks, Fits
  <2>1. /\ Tiles(hdr) /\ \A b \in Blocks : b < cur => ~Fits(b, req)
    BY <1>1 DEF HeapInv, HeapTiled, FirstFit
  <2>2. cur' \in Blocks \cup {NULL}
    BY <1>1, <1>2, <2>1 DEF Tiles, NextOK, Blocks
  <2>3. ASSUME NEW b \in Blocks, cur' = NULL \/ b < cur' PROVE ~Fits(b, req)
    <3>1. /\ b \in Nat /\ cur \in Nat /\ hdr[cur].size \in Nat /\ hdr[b].size \in Nat
      BY <1>2 DEF HeapInv, TypeOK, mem_block_t, Blocks
    <3>2. ~(cur < b)
      <4> SUFFICES ASSUME cur < b PROVE FALSE
        OBVIOUS
      <4>1. cur + HeaderSize + hdr[cur].size <= b
        BY <2>1, <1>2 DEF Tiles, Blocks
      <4>2. CASE cur' = NULL
        <5>1. cur + HeaderSize + hdr[cur].size = HeapLimit
          BY <4>2, <1>1, <1>2, <2>1 DEF Tiles, NextOK, Blocks
        <5>2. b + HeaderSize + hdr[b].size <= HeapLimit
          BY <2>1 DEF Tiles, Inside, Blocks
        <5> QED BY <4>1, <5>1, <5>2, <3>1
      <4>3. CASE cur' # NULL
        <5>1. cur' = cur + HeaderSize + hdr[cur].size
          BY <4>3, <1>1, <1>2, <2>1 DEF Tiles, NextOK, Blocks
        <5> QED BY <4>1, <4>3, <5>1, <2>3, <3>1
      <4> QED BY <4>2, <4>3
    <3> QED BY <3>1, <3>2, <2>1, <1>1
  <2> QED BY <2>2, <2>3
<1>6. HeapPhases'
  BY <1>1 DEF HeapInv, HeapPhases, Blocks
<1> QED BY <1>3, <1>4, <1>5, <1>6 DEF HeapInv

(* Taking a hole keeps the invariant (TakenHole).                          *)
LEMMA TakeHoleInv ==
  ASSUME HeapInv, TakeHole
  PROVE  HeapInv'
<1> USE HeapAssumption
<1>1. /\ pc = "search" /\ cur # NULL /\ Fits(cur, req) /\ pc' = "ready" /\ req' = 0 /\ cur' = NULL
      /\ live' = live \cup {[ptr |-> cur + HeaderSize, size |-> req]}
      /\ UNCHANGED <<heap_start, heap_end, heap_placement, exhausted>>
  BY DEF TakeHole, Return
<1>2. InUse
  BY <1>1 DEF HeapInv, HeapPhases, InUse, Fits
<1>3. /\ IsHeap(hdr) /\ Tiles(hdr) /\ Apart(hdr) /\ UsedBy(hdr, live) /\ live \in SUBSET Region
      /\ cur \in DOMAIN hdr /\ req \in Sizes \ {0} /\ cur \in Nat
  BY <1>1, <1>2 DEF HeapInv, TypeOK, HeapTiled, Coalesced, LiveIsUsed, FirstFit, HeapPhases,
                    IsHeap, Region, Blocks
<1>4. hdr[cur].free /\ hdr[cur].size >= req + HeaderSize
  BY <1>1 DEF Fits
<1>5. IsHeap(hdr') /\ Tiles(hdr') /\ Apart(hdr') /\ UsedBy(hdr', live')
  <2> DEFINE k == IF hdr[cur].size >= req + HeaderSize + SplitSlack
                    THEN Split(hdr, cur, req) ELSE hdr
  <2>1. hdr' = SetFree(k, cur, FALSE)
    BY DEF TakeHole
  <2> QED BY <2>1, <1>1, <1>3, <1>4, TakenHole
<1>6. TypeOK'
  <2>1. cur + HeaderSize \in Nat
    BY <1>3
  <2>2. [ptr |-> cur + HeaderSize, size |-> req] \in [ptr : Nat, size : Sizes \ {0}]
    BY <2>1, <1>3
  <2>3. live' \subseteq [ptr : Nat, size : Sizes \ {0}]
    BY <2>2, <1>1 DEF HeapInv, TypeOK
  <2> QED BY <2>3, <1>1, <1>5 DEF HeapInv, TypeOK, IsHeap, Blocks, NULL
<1>7. HeapTiled' /\ LiveIsUsed' /\ Coalesced' /\ FirstFit'
  BY <1>1, <1>5 DEF HeapTiled, LiveIsUsed, Coalesced, FirstFit
<1>8. HeapPhases'
  BY <1>1, <1>2 DEF HeapInv, HeapPhases, InUse
<1> QED BY <1>6, <1>7, <1>8 DEF HeapInv

(* The exhaustion path: the placement pointer is still at the first block, *)
(* so the new header is the first header, linked to itself.                *)
LEMMA PlaceBlockInv ==
  ASSUME HeapInv, PlaceBlock
  PROVE  HeapInv'
<1> USE HeapAssumption
<1> DEFINE S == KERNEL_HEAP_START
<1>1. /\ pc = "search" /\ cur = NULL /\ pc' = "ready" /\ req' = 0 /\ cur' = NULL
      /\ heap_placement' = heap_placement + req + HeaderSize
      /\ hdr' = Place(hdr, heap_placement, req)
      /\ heap_end' = heap_placement /\ exhausted' = TRUE /\ heap_start' = heap_start
      /\ live' = live \cup {[ptr |-> heap_placement + HeaderSize, size |-> req]}
  BY DEF PlaceBlock, Return
<1>2. /\ ~exhausted /\ heap_placement = S /\ heap_start = S /\ heap_end = S
      /\ req \in Sizes \ {0} /\ S \in Nat /\ S # NULL /\ req \in Nat
  BY <1>1 DEF HeapInv, HeapPhases, TypeOK, NULL
<1>3. /\ IsHeap(hdr) /\ S \in DOMAIN hdr
  BY <1>2 DEF HeapInv, TypeOK, HeapTiled, InUse, Tiles, IsHeap, Blocks
<1>4. /\ DOMAIN hdr' = DOMAIN hdr
      /\ hdr' = [a \in DOMAIN hdr |-> hdr'[a]]
      /\ hdr'[S] \in mem_block_t /\ hdr'[S].next = S /\ ~hdr'[S].free
      /\ \A a \in DOMAIN hdr : a # S => hdr'[a] = hdr[a]
  <2> DEFINE placed == [a \in DOMAIN hdr \cup {S} |->
                          IF a = S THEN [size |-> req, next |-> NULL, prev |-> S, free |-> FALSE]
                          ELSE hdr[a]]
  <2>1. hdr' = [placed EXCEPT ![S].next = S]
    BY <1>1, <1>2 DEF Place
  <2>2. DOMAIN placed = DOMAIN hdr
    BY <1>3
  <2>3. placed[S] = [size |-> req, next |-> NULL, prev |-> S, free |-> FALSE]
    BY <1>3
  <2>4. \A a \in DOMAIN hdr : a # S => placed[a] = hdr[a]
    OBVIOUS
  <2> HIDE DEF placed
  <2>5. hdr'[S] \in mem_block_t /\ hdr'[S].next = S /\ ~hdr'[S].free
    <3>1. hdr'[S] = [placed[S] EXCEPT !.next = S]
      BY <2>1, <2>2, <1>3
    <3>2. placed[S] \in mem_block_t /\ ~placed[S].free
      BY <2>3, <1>2 DEF mem_block_t, NULL
    <3> QED BY <3>1, <3>2, <1>2 DEF mem_block_t
  <2> QED BY <2>1, <2>2, <2>4, <2>5, <1>3
<1>6. TypeOK'
  <2>1. hdr' \in [DOMAIN hdr' -> mem_block_t]
    BY <1>3, <1>4 DEF IsHeap
  <2>2. /\ heap_placement' \in Nat
        /\ [ptr |-> heap_placement + HeaderSize, size |-> req] \in [ptr : Nat, size : Sizes \ {0}]
    BY <1>1, <1>2
  <2>3. live' \subseteq [ptr : Nat, size : Sizes \ {0}]
    BY <2>2, <1>1 DEF HeapInv, TypeOK
  <2> QED BY <2>1, <2>2, <2>3, <1>1, <1>2, <1>3, <1>4 DEF TypeOK, IsHeap, Blocks, NULL
<1>7. HeapTiled' /\ LiveIsUsed' /\ Coalesced' /\ FirstFit'
  BY <1>1 DEF HeapTiled, LiveIsUsed, Coalesced, FirstFit, InUse
<1>8. HeapPhases'
  BY <1>1, <1>2, <1>3, <1>4 DEF HeapPhases, Blocks
<1> QED BY <1>6, <1>7, <1>8 DEF HeapInv

(* kfree of a region some caller holds keeps the invariant (FreedHeap).    *)
LEMMA KfreeInv ==
  ASSUME HeapInv, NEW r \in live, Kfree(r)
  PROVE  HeapInv'
<1> USE HeapAssumption
<1>1. /\ pc = "ready" /\ ~exhausted /\ live' = live \ {r}
      /\ hdr' = Freed(hdr, r.ptr - HeaderSize)
      /\ UNCHANGED <<heap_start, heap_end, heap_placement, pc, req, cur, exhausted>>
  BY DEF Kfree
<1>2. InUse
  BY <1>1 DEF HeapInv, HeapPhases, InUse
<1>3. IsHeap(hdr) /\ Tiles(hdr) /\ Apart(hdr) /\ UsedBy(hdr, live) /\ live \in SUBSET Region
  BY <1>2 DEF HeapInv, TypeOK, HeapTiled, Coalesced, LiveIsUsed, IsHeap, Region, Blocks
<1>4. IsHeap(hdr') /\ Tiles(hdr') /\ Apart(hdr') /\ UsedBy(hdr', live')
  BY <1>1, <1>3, FreedHeap
<1>5. TypeOK'
  BY <1>1, <1>4 DEF HeapInv, TypeOK, IsHeap, Blocks
<1>6. HeapTiled' /\ LiveIsUsed' /\ Coalesced' /\ FirstFit'
  BY <1>1, <1>4 DEF HeapTiled, LiveIsUsed, Coalesced, FirstFit
<1>7. HeapPhases'
  BY <1>1, <1>2 DEF HeapInv, HeapPhases, InUse
<1> QED BY <1>5, <1>6, <1>7 DEF HeapInv

(* Every step of the heap keeps the invariant.                             *)
LEMMA HeapInductive == HeapInv /\ [Next]_vars => HeapInv'
<1> SUFFICES ASSUME HeapInv, [Next]_vars PROVE HeapInv'
  OBVIOUS
<1>1. CASE \E s \in Sizes : Kmalloc(s)
  BY <1>1, KmallocInv
<1>2. CASE SearchNext
  BY <1>2, SearchNextInv
<1>3. CASE TakeHole
  BY <1>3, TakeHoleInv
<1>4. CASE PlacementPanics
  <2>1. /\ pc = "search" /\ cur = NULL /\ pc' = "panic"
        /\ heap_placement' = heap_placement + req + HeaderSize
        /\ UNCHANGED <<hdr, heap_start, heap_end, req, cur, live, exhausted>>
    BY <1>4 DEF PlacementPanics
  <2>2. ~exhausted /\ heap_start # NULL
    BY <2>1, HeapAssumption DEF HeapInv, HeapPhases, NULL
  <2>3. TypeOK'
    BY <2>1, HeapAssumption DEF HeapInv, TypeOK, Blocks
  <2>4. HeapTiled' /\ LiveIsUsed' /\ Coalesced' /\ FirstFit'
    BY <2>1 DEF HeapInv, HeapTiled, LiveIsUsed, Coalesced, FirstFit, InUse
  <2>5. HeapPhases'
    BY <2>1, <2>2 DEF HeapInv, HeapPhases, Blocks
  <2> QED BY <2>3, <2>4, <2>5 DEF HeapInv
<1>5. CASE PlaceBlock
  BY <1>5, PlaceBlockInv
<1>6. CASE \E r \in live : Kfree(r)
  BY <1>6, KfreeInv
<1>7. CASE UNCHANGED vars
  BY <1>7 DEF vars, HeapInv, TypeOK, HeapTiled, LiveIsUsed, Coalesced, FirstFit, HeapPhases,
              InUse, Blocks, Fits
<1> QED BY <1>1, <1>2, <1>3, <1>4, <1>5, <1>6, <1>7 DEF Next

(* The invariant holds in every reachable state.                           *)
THEOREM HeapInvariant == Spec => []HeapInv
BY InitHeapInv, HeapInductive, PTL DEF Spec

(* Header fields, pointers and requests keep their types.                  *)
THEOREM HeapTypes == Spec => []TypeOK
BY HeapInvariant, PTL DEF HeapInv

(* Until memory runs out the blocks tile the heap, whatever the order of   *)
(* kmalloc and kfree.                                                      *)
THEOREM HeapAlwaysTiled == Spec => []HeapTiled
BY HeapInvariant, PTL DEF HeapInv

(* Until memory runs out the used blocks are exactly the callers'.         *)
THEOREM HeapAlwaysOwned == Spec => []LiveIsUsed
BY HeapInvariant, PTL DEF HeapInv

(* Until memory runs out no two free blocks are neighbours.                *)
THEOREM HeapAlwaysCoalesced == Spec => []Coalesced
BY HeapInvariant, PTL DEF HeapInv

(* mm_find_smallest_hole takes the first fit, and gives up only when no    *)
(* block fits.                                                             *)
THEOREM SearchIsFirstFit == Spec => []FirstFit
BY HeapInvariant, PTL DEF HeapInv

(* A search that goes on, goes on at a higher address inside the heap, or  *)
(* at the end of the list: it makes at most as many turns as the heap has  *)
(* addresses.                                                              *)
SearchRunsOut ==
  [][pc = "search" /\ pc' = "search" /\ ~exhausted =>
       cur' = NULL \/ (cur < cur' /\ cur' < HeapLimit)]_vars

(* mm_find_smallest_hole meets no block twice, whatever kmalloc and kfree  *)
(* did to the list before: with the fairness of FairSpec, why the first    *)
(* half of KmallocReturns holds.                                           *)
THEOREM SearchAlwaysRunsOut == Spec => SearchRunsOut
<1>1. ASSUME HeapInv, Next, pc = "search", pc' = "search", ~exhausted
      PROVE  cur' = NULL \/ (cur < cur' /\ cur' < HeapLimit)
  <2>1. SearchNext
    BY <1>1 DEF Next, Kmalloc, TakeHole, PlacementPanics, PlaceBlock, Return, Kfree
  <2>2. /\ InUse /\ IsHeap(hdr) /\ Tiles(hdr) /\ cur # NULL
        /\ cur' = hdr[cur].next
    BY <1>1, <2>1 DEF SearchNext, HeapInv, HeapPhases, InUse, TypeOK, HeapTiled, IsHeap, Blocks
  <2>3. cur \in DOMAIN hdr
    BY <1>1, <2>2 DEF HeapInv, FirstFit, InUse, Blocks
  <2>4. SUFFICES ASSUME cur' # NULL PROVE cur < cur' /\ cur' < HeapLimit
    OBVIOUS
  <2>5. /\ cur' \in DOMAIN hdr /\ cur' = cur + HeaderSize + hdr[cur].size
        /\ cur' + HeaderSize + hdr[cur'].size <= HeapLimit
    BY <2>2, <2>3, <2>4 DEF Tiles, NextOK, Inside
  <2>6. /\ cur \in Nat /\ hdr[cur].size \in Nat /\ HeaderSize \in Nat \ {0}
        /\ cur' \in Nat /\ hdr[cur'].size \in Nat /\ HeapLimit \in Nat
    BY <2>2, <2>3, <2>5, HeapAssumption DEF IsHeap, mem_block_t, HeapLimit
  <2> QED BY <2>5, <2>6
<1>2. HeapInv /\ [Next]_vars =>
        [pc = "search" /\ pc' = "search" /\ ~exhausted =>
           cur' = NULL \/ (cur < cur' /\ cur' < HeapLimit)]_vars
  BY <1>1
<1> QED BY <1>2, HeapInvariant, PTL DEF Spec, SearchRunsOut

(* A region inside a block is disjoint from a region inside another.       *)
LEMMA BlocksDisjoint ==
  ASSUME NEW h, IsHeap(h), Tiles(h), NEW a \in DOMAIN h, NEW b \in DOMAIN h, a # b,
         NEW m \in Nat, NEW k \in Nat, m <= h[a].size, k <= h[b].size
  PROVE  \/ a + HeaderSize + m <= b + HeaderSize
         \/ b + HeaderSize + k <= a + HeaderSize
<1>1. /\ a \in Nat /\ b \in Nat /\ h[a].size \in Nat /\ h[b].size \in Nat
      /\ HeaderSize \in Nat
  BY HeapAssumption DEF IsHeap, mem_block_t
<1>2. CASE a < b
  <2>1. a + HeaderSize + h[a].size <= b
    BY <1>2 DEF Tiles
  <2> QED BY <2>1, <1>1
<1>3. CASE b < a
  <2>1. b + HeaderSize + h[b].size <= a
    BY <1>3 DEF Tiles
  <2> QED BY <2>1, <1>1
<1> QED BY <1>1, <1>2, <1>3

(* A step of the heap is a step of the abstract allocator or changes       *)
(* nothing the allocator's callers can see.                                *)
LEMMA StepSimulation == HeapInv /\ [Next]_vars => [A!Next]_(A!vars)
<1> USE HeapAssumption
<1> SUFFICES ASSUME HeapInv, [Next]_vars PROVE A!Next \/ UNCHANGED A!vars
  OBVIOUS
<1>1. CASE \E s \in Sizes : Kmalloc(s)
  BY <1>1 DEF Kmalloc, A!vars
<1>2. CASE SearchNext
  BY <1>2 DEF SearchNext, A!vars
<1>3. CASE TakeHole
  <2> DEFINE r == [ptr |-> cur + HeaderSize, size |-> req]
  <2>1. /\ pc = "search" /\ cur # NULL /\ Fits(cur, req) /\ pc' = "ready"
        /\ live' = live \cup {r} /\ exhausted' = exhausted
    BY <1>3 DEF TakeHole, Return
  <2>2. InUse
    BY <2>1 DEF HeapInv, HeapPhases, InUse, Fits
  <2>3. /\ IsHeap(hdr) /\ Tiles(hdr) /\ UsedBy(hdr, live) /\ live \in SUBSET Region
        /\ cur \in DOMAIN hdr /\ req \in Sizes \ {0} /\ req \in Nat /\ cur \in Nat
        /\ hdr[cur].free /\ hdr[cur].size >= req + HeaderSize
    BY <2>1, <2>2 DEF HeapInv, TypeOK, HeapTiled, LiveIsUsed, FirstFit, HeapPhases,
                      IsHeap, Region, Blocks, Fits
  <2>4. /\ hdr[cur].size \in Nat /\ KERNEL_HEAP_START <= cur
        /\ cur + HeaderSize + hdr[cur].size <= HeapLimit
    BY <2>3 DEF IsHeap, mem_block_t, Tiles, Inside
  <2>5. r \in A!Regions /\ r.ptr + r.size <= HeapLimit
    BY <2>3, <2>4 DEF A!Regions, HeapLimit
  <2>6. ASSUME NEW q \in live PROVE A!Disjoint(r, q)
    <3> DEFINE c == q.ptr - HeaderSize
    <3>1. /\ c \in DOMAIN hdr /\ ~hdr[c].free /\ q.size <= hdr[c].size
          /\ q.size \in Nat /\ q.ptr \in Nat /\ c \in Nat /\ c + HeaderSize = q.ptr
      BY <2>3 DEF UsedBy, Holds, Region, IsHeap
    <3> HIDE DEF c
    <3>2. req <= hdr[cur].size /\ c # cur
      BY <2>3, <2>4, <3>1
    <3>3. \/ cur + HeaderSize + req <= c + HeaderSize
          \/ c + HeaderSize + q.size <= cur + HeaderSize
      BY <3>1, <3>2, <2>3, BlocksDisjoint
    <3> QED BY <3>1, <3>3 DEF A!Disjoint
  <2>7. A!Alloc(r)
    BY <2>1, <2>2, <2>5, <2>6 DEF A!Alloc, InUse
  <2> QED BY <2>5, <2>7 DEF A!Next
<1>4. CASE PlacementPanics
  BY <1>4 DEF PlacementPanics, A!Next, A!Fail
<1>5. CASE PlaceBlock
  BY <1>5 DEF PlaceBlock, A!Next, A!Fail
<1>6. CASE \E r \in live : Kfree(r)
  <2> PICK r \in live : Kfree(r)
    BY <1>6
  <2>1. A!Free(r)
    BY DEF Kfree, A!Free
  <2> QED BY <2>1 DEF A!Next
<1>7. CASE UNCHANGED vars
  BY <1>7 DEF vars, A!vars
<1> QED BY <1>1, <1>2, <1>3, <1>4, <1>5, <1>6, <1>7 DEF Next

(* kmalloc and kfree implement the abstract allocator: until memory runs   *)
(* out, a region handed out is inside the heap and disjoint from every     *)
(* region still held.                                                      *)
THEOREM HeapRefinement == Spec => ImplementsAllocator
<1>1. Init => A!Init
  BY DEF Init, A!Init
<1> QED BY <1>1, HeapInvariant, StepSimulation, PTL DEF Spec, A!Spec, ImplementsAllocator
=============================================================================
