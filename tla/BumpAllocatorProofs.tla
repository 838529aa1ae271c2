------------------------- MODULE BumpAllocatorProofs -------------------------
(***************************************************************************)
(* BumpAllocator hands out disjoint blocks inside its one heap, for every  *)
(* number of threads, every heap and every set of layouts.                 *)
(***************************************************************************)
EXTENDS BumpAllocator, TLAPS

PcValues == {"idle", "mmap", "start", "cur", "end", "load", "bound", "cas", "dead"}

TypeInv ==
  /\ start \in Nat /\ cur \in Nat /\ end \in Nat /\ mapped \in Nat
  /\ workers \in BOOLEAN
  /\ pc \in [Threads -> PcValues]
  /\ lay \in [Threads -> [size : Nat, align : Nat \ {0}]]
  /\ addr \in [Threads -> Nat]
  /\ seen \in [Threads -> Nat]

Booting == {"mmap", "start", "cur", "end"}

\* The heap is complete: mapped, and all three words stored.
Ready == start = HeapBase /\ mapped = 1 /\ end = HeapBase + HeapSize
          /\ HeapBase <= cur /\ cur <= end

\* Until the heap is ready only main runs, and each step of its initialisation
\* leaves exactly these words stored.
Boot ==
  \/ Ready /\ \A t \in Threads : pc[t] \notin Booting
  \/ /\ ~workers /\ blocks = {}
     /\ \A t \in Threads \ {Main} : pc[t] = "idle"
     /\ pc[Main] # "cas" /\ seen[Main] = 0
     /\ \/ pc[Main] \notin {"start", "cur", "end"} /\ start = 0 /\ mapped = 0
                           /\ cur = 0 /\ end = 0
        \/ pc[Main] = "start" /\ addr[Main] = HeapBase /\ mapped = 1 /\ start = 0
                           /\ cur = 0 /\ end = 0
        \/ pc[Main] = "cur" /\ addr[Main] = HeapBase /\ mapped = 1
                           /\ start = HeapBase /\ cur = 0 /\ end = 0
        \/ pc[Main] = "end" /\ addr[Main] = HeapBase /\ mapped = 1
                           /\ start = HeapBase /\ cur = HeapBase /\ end = 0

\* A thread about to compare_exchange has a block that fits behind what it saw.
Pending ==
  \A t \in Threads :
    /\ pc[t] \in {"bound", "cas"} => lay[t].size > 0
    /\ pc[t] = "cas" => Bumped(t) <= end

\* All blocks lie below HEAP_CUR, so the next one cannot meet them.
Below ==
  \A b \in blocks :
    /\ b.lo \in Nat /\ b.hi \in Nat
    /\ HeapBase <= b.lo /\ b.lo < b.hi /\ b.hi <= cur /\ b.hi <= end

IndInv == TypeInv /\ Boot /\ Pending /\ Below /\ BlocksDisjoint

\* Rounding up to the alignment never goes below the address.
LEMMA AlignUpGE ==
  ASSUME NEW c \in Nat, NEW a \in Nat \ {0}
  PROVE  AlignUp(c, a) \in Nat /\ AlignUp(c, a) >= c
<1>1. (c + a - 1) \in Nat
  OBVIOUS
<1> DEFINE x == c + a - 1
           q == x \div a
<1>2. q \in Nat /\ x < a * q + a
  <2> HIDE DEF x
  <2> QED BY <1>1 DEF x
<1>3. q * a \in Nat /\ q * a = a * q
  BY <1>2
<1> QED BY <1>2, <1>3 DEF AlignUp

\* The block a request computes lies behind the HEAP_CUR it has loaded.
LEMMA BumpedGE ==
  ASSUME TypeInv, NEW t \in Threads
  PROVE  Aligned(t) \in Nat /\ Bumped(t) \in Nat /\ seen[t] <= Aligned(t)
          /\ Bumped(t) = Aligned(t) + lay[t].size
<1>1. seen[t] \in Nat /\ lay[t].align \in Nat \ {0} /\ lay[t].size \in Nat
  BY DEF TypeInv
<1>2. Aligned(t) \in Nat /\ Aligned(t) >= seen[t]
  BY <1>1, AlignUpGE DEF Aligned
<1> QED BY <1>1, <1>2 DEF Bumped

\* Every step keeps the types.
LEMMA TypeStep == TypeInv /\ [Next]_vars => TypeInv'
<1> SUFFICES ASSUME TypeInv, [Next]_vars PROVE TypeInv'
  OBVIOUS
<1> USE AllocatorAssumption DEF TypeInv, PcValues
<1>1. CASE UNCHANGED vars
  BY <1>1 DEF vars, heapVars, Aligned, Bumped
<1>2. CASE StartWorkers
  BY <1>2 DEF StartWorkers, heapVars, Aligned, Bumped
<1>3. ASSUME NEW t \in Threads, Alloc(t) PROVE TypeInv'
  <2>a. Bumped(t) \in Nat
    BY BumpedGE
  <2>1. CASE Begin(t)
    BY <2>1, <2>a DEF Begin, Goto, heapVars
  <2>2. CASE Mmap(t)
    <3>1. mapped * (HeapSize + 1) \in Nat
      OBVIOUS
    <3>2. Base(mapped) \in Nat
      BY <3>1 DEF Base
    <3> QED BY <2>2, <3>2 DEF Mmap, Goto, heapVars
  <2>3. CASE StoreStart(t)
    BY <2>3, <2>a DEF StoreStart, Goto, heapVars
  <2>4. CASE StoreCur(t)
    BY <2>4, <2>a DEF StoreCur, Goto, heapVars
  <2>5. CASE StoreEnd(t)
    BY <2>5, <2>a DEF StoreEnd, Goto, heapVars
  <2>6. CASE ZeroSize(t)
    BY <2>6, <2>a DEF ZeroSize, Goto, heapVars
  <2>7. CASE LoadCur(t)
    BY <2>7, <2>a DEF LoadCur, Goto, heapVars
  <2>8. CASE CheckEnd(t)
    BY <2>8, <2>a DEF CheckEnd, Goto, heapVars, Fits
  <2>9. CASE Cas(t)
    BY <2>9, <2>a DEF Cas, Goto, heapVars, NewBlock
  <2> QED BY <1>3, <2>1, <2>2, <2>3, <2>4, <2>5, <2>6, <2>7, <2>8, <2>9 DEF Alloc
<1> QED BY <1>1, <1>2, <1>3 DEF Next

\* The stores after mmap happen once, in main, before any worker exists.
LEMMA BootStep == TypeInv /\ Boot /\ Pending /\ [Next]_vars => Boot'
<1> SUFFICES ASSUME TypeInv /\ Boot /\ Pending, [Next]_vars PROVE Boot'
  OBVIOUS
<1> USE AllocatorAssumption DEF TypeInv, Boot, Ready, Booting, PcValues
<1>1. CASE UNCHANGED vars
  BY <1>1 DEF vars, heapVars, Aligned, Bumped
<1>2. CASE StartWorkers
  BY <1>2 DEF StartWorkers, heapVars, Aligned, Bumped
<1>3. ASSUME NEW t \in Threads, Alloc(t) PROVE Boot'
  <2>a. Bumped(t) \in Nat /\ seen[t] <= Aligned(t) /\ Bumped(t) = Aligned(t) + lay[t].size
         /\ Aligned(t) \in Nat
    BY BumpedGE
  <2>b. /\ pc[t] \in {"bound", "cas"} => lay[t].size > 0
        /\ pc[t] = "cas" => Bumped(t) <= end
    BY DEF Pending
  <2>1. CASE Begin(t)
    BY <2>1, <2>a, <2>b DEF Begin, Goto, heapVars
  <2>2. CASE Mmap(t)
    BY <2>2, <2>a, <2>b DEF Mmap, Goto, heapVars, Base
  <2>3. CASE StoreStart(t)
    BY <2>3, <2>a, <2>b DEF StoreStart, Goto, heapVars
  <2>4. CASE StoreCur(t)
    BY <2>4, <2>a, <2>b DEF StoreCur, Goto, heapVars
  <2>5. CASE StoreEnd(t)
    <3>1. /\ t = Main /\ addr[t] = HeapBase /\ mapped = 1
          /\ start = HeapBase /\ cur = HeapBase
          /\ \A u \in Threads \ {t} : pc[u] = "idle"
      BY <2>5 DEF StoreEnd, Goto
    <3>2. /\ end' = HeapBase + HeapSize /\ start' = start /\ cur' = cur
          /\ mapped' = mapped /\ pc' = [pc EXCEPT ![t] = "load"]
      BY <2>5, <3>1 DEF StoreEnd, Goto
    <3>3. \A u \in Threads : pc'[u] \notin Booting
      BY <3>1, <3>2
    <3> QED BY <3>1, <3>2, <3>3
  <2>6. CASE ZeroSize(t)
    BY <2>6, <2>a, <2>b DEF ZeroSize, Goto, heapVars
  <2>7. CASE LoadCur(t)
    BY <2>7, <2>a, <2>b DEF LoadCur, Goto, heapVars
  <2>8. CASE CheckEnd(t)
    BY <2>8, <2>a, <2>b DEF CheckEnd, Goto, heapVars, Fits
  <2>9. CASE Cas(t)
    BY <2>9, <2>a, <2>b DEF Cas, Goto, heapVars, NewBlock
  <2> QED BY <1>3, <2>1, <2>2, <2>3, <2>4, <2>5, <2>6, <2>7, <2>8, <2>9 DEF Alloc
<1> QED BY <1>1, <1>2, <1>3 DEF Next

\* What a request has loaded and checked stays within the heap.
LEMMA PendingStep == TypeInv /\ Boot /\ Pending /\ [Next]_vars => Pending'
<1> SUFFICES ASSUME TypeInv /\ Boot /\ Pending, [Next]_vars PROVE Pending'
  OBVIOUS
<1> USE AllocatorAssumption DEF TypeInv, Pending, Aligned, Bumped
<1>1. CASE UNCHANGED vars
  BY <1>1 DEF vars, heapVars, Aligned, Bumped
<1>2. CASE StartWorkers
  BY <1>2 DEF StartWorkers, heapVars, Aligned, Bumped
<1>3. ASSUME NEW t \in Threads, Alloc(t) PROVE Pending'
  <2>1. CASE Begin(t)
    BY <2>1 DEF Begin, Goto, heapVars
  <2>2. CASE Mmap(t)
    BY <2>2 DEF Mmap, Goto, heapVars
  <2>3. CASE StoreStart(t)
    BY <2>3 DEF StoreStart, Goto, heapVars
  <2>4. CASE StoreCur(t)
    BY <2>4 DEF StoreCur, Goto, heapVars
  <2>5. CASE StoreEnd(t)
    <3>1. pc[t] = "end" /\ pc' = [pc EXCEPT ![t] = "load"]
      BY <2>5 DEF StoreEnd, Goto
    <3>2. \A u \in Threads \ {t} : pc[u] = "idle"
      BY <3>1 DEF Boot, Booting
    <3>3. \A u \in Threads : pc'[u] \notin {"bound", "cas"}
      BY <3>1, <3>2
    <3> QED BY <3>3
  <2>6. CASE ZeroSize(t)
    BY <2>6 DEF ZeroSize, Goto, heapVars
  <2>7. CASE LoadCur(t)
    BY <2>7 DEF LoadCur, Goto, heapVars
  <2>8. CASE CheckEnd(t)
    BY <2>8 DEF CheckEnd, Goto, heapVars, Fits
  <2>9. CASE Cas(t)
    BY <2>9 DEF Cas, Goto, heapVars, NewBlock
  <2> QED BY <1>3, <2>1, <2>2, <2>3, <2>4, <2>5, <2>6, <2>7, <2>8, <2>9 DEF Alloc
<1> QED BY <1>1, <1>2, <1>3 DEF Next

\* A successful compare_exchange puts its block behind all the others.
LEMMA BelowStep == IndInv /\ [Next]_vars => (Below /\ BlocksDisjoint)'
<1> SUFFICES ASSUME IndInv, [Next]_vars PROVE (Below /\ BlocksDisjoint)'
  OBVIOUS
<1> USE DEF Below, BlocksDisjoint
<1>t. TypeInv /\ Boot /\ Pending /\ Below /\ BlocksDisjoint
  BY DEF IndInv
<1>1. CASE UNCHANGED vars
  BY <1>1, <1>t DEF vars, heapVars
<1>2. CASE StartWorkers
  BY <1>2, <1>t DEF StartWorkers, heapVars
<1>3. ASSUME NEW t \in Threads, Alloc(t) PROVE (Below /\ BlocksDisjoint)'
  <2>1. CASE Begin(t)
    BY <2>1, <1>t DEF Begin, Goto, heapVars
  <2>2. CASE Mmap(t)
    BY <2>2, <1>t DEF Mmap, Goto, heapVars
  <2>3. CASE StoreStart(t)
    BY <2>3, <1>t DEF StoreStart, Goto, heapVars
  <2>4. CASE StoreCur(t)
    <3>1. blocks = {}
      BY <2>4, <1>t DEF StoreCur, Goto, Boot, Booting
    <3> QED BY <2>4, <3>1 DEF StoreCur
  <2>5. CASE StoreEnd(t)
    <3>1. blocks = {}
      BY <2>5, <1>t DEF StoreEnd, Goto, Boot, Booting
    <3> QED BY <2>5, <3>1 DEF StoreEnd
  <2>6. CASE ZeroSize(t)
    BY <2>6, <1>t DEF ZeroSize, Goto, heapVars
  <2>7. CASE LoadCur(t)
    BY <2>7, <1>t DEF LoadCur, Goto, heapVars
  <2>8. CASE CheckEnd(t)
    BY <2>8, <1>t DEF CheckEnd, Goto, heapVars, Fits
  <2>9. CASE Cas(t)
    <3>1. CASE cur # seen[t]
      BY <2>9, <3>1, <1>t DEF Cas
    <3>2. CASE cur = seen[t]
      <4> DEFINE b == NewBlock(t)
      <4>1. pc[t] = "cas" /\ blocks' = blocks \cup {b} /\ cur' = Bumped(t) /\ end' = end
        BY <2>9, <3>2 DEF Cas, Goto
      <4>2. Ready
        BY <1>t, <4>1, AllocatorAssumption DEF Boot
      <4>3. /\ Aligned(t) \in Nat /\ Bumped(t) \in Nat
            /\ cur <= Aligned(t) /\ Aligned(t) < Bumped(t) /\ Bumped(t) <= end
        <5>1. /\ Aligned(t) \in Nat /\ Bumped(t) \in Nat /\ seen[t] <= Aligned(t)
              /\ Bumped(t) = Aligned(t) + lay[t].size
          BY <1>t, BumpedGE
        <5>2. lay[t].size > 0 /\ Bumped(t) <= end /\ lay[t].size \in Nat
          BY <1>t, <4>1 DEF Pending, TypeInv
        <5> QED BY <3>2, <5>1, <5>2
      <4>4. b.lo = Aligned(t) /\ b.hi = Bumped(t)
        BY DEF NewBlock
      <4> HIDE DEF b
      <4>5. cur \in Nat /\ end \in Nat /\ HeapBase \in Nat
        BY <1>t, AllocatorAssumption DEF TypeInv
      <4>6. Below'
        BY <1>t, <4>1, <4>2, <4>3, <4>4, <4>5 DEF Ready
      <4>7. \A c \in blocks : c.hi <= b.lo
        BY <1>t, <4>3, <4>4, <4>5
      <4>8. BlocksDisjoint'
        BY <1>t, <4>1, <4>7
      <4> QED BY <4>6, <4>8
    <3> QED BY <3>1, <3>2
  <2> QED BY <1>3, <2>1, <2>2, <2>3, <2>4, <2>5, <2>6, <2>7, <2>8, <2>9 DEF Alloc
<1> QED BY <1>1, <1>2, <1>3 DEF Next

\* The program starts with no heap, no worker and no block.
LEMMA IndInvInit == Init => IndInv
<1> SUFFICES ASSUME Init PROVE IndInv
  OBVIOUS
<1>1. TypeInv
  <2>1. [size |-> 0, align |-> 1] \in [size : Nat, align : Nat \ {0}]
    OBVIOUS
  <2>2. lay \in [Threads -> [size : Nat, align : Nat \ {0}]]
    BY <2>1 DEF Init
  <2> QED BY <2>2 DEF Init, TypeInv, PcValues
<1>2. Boot
  BY AllocatorAssumption DEF Init, Boot
<1>3. Pending /\ Below /\ BlocksDisjoint
  BY DEF Init, Pending, Below, BlocksDisjoint
<1> QED BY <1>1, <1>2, <1>3 DEF IndInv

\* One step of any thread keeps the inductive invariant.
LEMMA IndInvStep == IndInv /\ [Next]_vars => IndInv'
  BY TypeStep, BootStep, PendingStep, BelowStep DEF IndInv

\* The inductive invariant holds of every behaviour of the allocator.
LEMMA IndInvAlways == Spec => []IndInv
  BY IndInvInit, IndInvStep, PTL DEF Spec

\* alloc never hands out overlapping memory to two callers, for any number of
\* threads racing on HEAP_CUR.
THEOREM Disjoint == Spec => []BlocksDisjoint
<1>1. IndInv => BlocksDisjoint
  BY DEF IndInv
<1> QED BY <1>1, IndInvAlways, PTL

\* Every block lies within the one region that mmap returned.
THEOREM InHeap == Spec => []BlocksInHeap
<1>1. IndInv => BlocksInHeap
  <2> SUFFICES ASSUME IndInv, NEW b \in blocks
               PROVE  HeapBase <= b.lo /\ b.lo < b.hi /\ b.hi <= HeapBase + HeapSize
    BY DEF BlocksInHeap
  <2>1. Ready
    BY DEF IndInv, Boot
  <2> QED BY <2>1 DEF IndInv, Below, Ready
<1> QED BY <1>1, IndInvAlways, PTL

\* The unsynchronised initialisation runs once, because main allocates first.
THEOREM MappedOnce == Spec => []HeapMappedOnce
<1>1. IndInv => HeapMappedOnce
  BY DEF IndInv, Boot, Ready, HeapMappedOnce
<1> QED BY <1>1, IndInvAlways, PTL
=============================================================================
