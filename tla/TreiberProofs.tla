---------------------------- MODULE TreiberProofs ----------------------------
(***************************************************************************)
(* Proofs about Treiber.  The schedule and the freelist are what they      *)
(* should be, for any number of wakes, in the two cases where a popped     *)
(* node cannot come back under a thread that still holds its address: when *)
(* nodes are never recycled, whatever the threads; and with recycling when *)
(* at most one thread wakes and at most one takes.  In these cases Treiber *)
(* also implements TaskStack.  The bound on the size of the freelist needs *)
(* neither: it holds for any threads.                                      *)
(***************************************************************************)
EXTENDS Treiber, FiniteSetTheorems, TLAPS

\* No node comes back under a thread that holds its address.
NoAba ==
  \/ FREELIST_MAX = 0
  \/ /\ \A t, u \in Wakers : t = u
     /\ \A t, u \in Takers : t = u

Pointers == Nodes \cup {Null}

\* IsList for any next pointers.
ListIn(f, p, s) ==
  /\ p = IF s = <<>> THEN Null ELSE s[1]
  /\ \A i \in DOMAIN s : f[s[i]] = IF i = Len(s) THEN Null ELSE s[i + 1]

Distinct(s) == \A i, j \in DOMAIN s : s[i] = s[j] => i = j

Asking == {t \in Threads : pc[t] \in {"alloc", "allocNext", "allocCas"}}
Holding == {"allocSub", "allocInit", "push", "pushCas", "read", "free", "freeLoad",
            "freeCas"}
Writing == {"allocSub", "allocInit", "push", "pushCas", "freeLoad", "freeCas"}
Recycling == {"allocNext", "allocCas", "allocSub", "allocInit", "freeLoad", "freeCas",
              "freeAdd"}

\* Wakers wake, takers take.
Roles ==
  \A t \in Threads :
    /\ pc[t] \in Waking => t \in Wakers
    /\ pc[t] \notin Waking \cup {"idle"} => t \in Takers

\* There is a node for every thread that asks for one.
NodesLeft ==
  /\ IsFiniteSet(Asking)
  /\ fresh + Cardinality(Asking) <= wakes

Lists ==
  /\ ListIn(nextOf, head, schedSeq) /\ Distinct(schedSeq)
  /\ ListIn(nextOf, fhead, freeSeq) /\ Distinct(freeSeq)
  /\ Elements(schedSeq) \cap Elements(freeSeq) = {}
  /\ Elements(schedSeq) \cup Elements(freeSeq) \subseteq 1 .. fresh

\* A node between a pop and a push belongs to one thread.
Owned ==
  \A t \in Threads : pc[t] \in Holding =>
    /\ nd[t] \in 1 .. fresh
    /\ nd[t] \notin Elements(schedSeq) /\ nd[t] \notin Elements(freeSeq)
    /\ \A u \in Threads \ {t} : pc[u] \in Holding => nd[u] # nd[t]

Linked == \A t \in Threads : pc[t] \in {"pushCas", "freeCas"} => nextOf[nd[t]] = hd[t]

\* Nobody writes the next pointer of the node whose pointer a taker has read.
Settled(n) == /\ n \in 1 .. fresh
              /\ \A u \in Threads : pc[u] \in Writing => nd[u] # n

Taking ==
  \A t \in Threads :
    /\ pc[t] \in {"takeNext", "takeCas"} =>
         IF FREELIST_MAX = 0 THEN Settled(hd[t]) ELSE hd[t] \in Elements(schedSeq)
    /\ pc[t] = "takeCas" => nx[t] = nextOf[hd[t]]

Allocating ==
  \A t \in Threads :
    /\ pc[t] \in {"allocNext", "allocCas"} => hd[t] \in Elements(freeSeq)
    /\ pc[t] = "allocCas" => nx[t] = nextOf[hd[t]]

NoRecycling ==
  FREELIST_MAX = 0 => freeSeq = <<>> /\ \A t \in Threads : pc[t] \notin Recycling

IInv ==
  /\ TypeOK /\ Roles /\ NodesLeft /\ Lists /\ Owned /\ Linked
  /\ Taking /\ Allocating /\ NoRecycling

-----------------------------------------------------------------------------
(* Lists.                                                                  *)

\* A node in front of a list.
LEMMA ListPush ==
  ASSUME NEW f, NEW p, NEW s \in Seq(Nodes), NEW n \in Nodes,
         ListIn(f, p, s), Distinct(s), n \notin Elements(s), f[n] = p
  PROVE /\ <<n>> \o s \in Seq(Nodes)
        /\ ListIn(f, n, <<n>> \o s)
        /\ Distinct(<<n>> \o s)
        /\ Elements(<<n>> \o s) = Elements(s) \cup {n}
  <1> DEFINE q == <<n>> \o s
  <1>1. /\ q \in Seq(Nodes) /\ Len(q) = Len(s) + 1
        /\ DOMAIN q = 1 .. Len(s) + 1 /\ DOMAIN s = 1 .. Len(s) /\ Len(s) \in Nat
        /\ q[1] = n /\ \A i \in 1 .. Len(s) : q[i + 1] = s[i]
    OBVIOUS
  <1>2. \A i \in DOMAIN q : i # 1 => i - 1 \in DOMAIN s /\ q[i] = s[i - 1]
    BY <1>1
  <1> HIDE DEF q
  <1>3. Elements(q) = Elements(s) \cup {n}
    <2>1. \A i \in DOMAIN s : i + 1 \in DOMAIN q /\ q[i + 1] = s[i]
      BY <1>1
    <2>2. 1 \in DOMAIN q /\ q[1] = n
      BY <1>1
    <2> QED  BY <2>1, <2>2, <1>2 DEF Elements
  <1>4. ListIn(f, n, q)
    <2>1. q # <<>> /\ q[1] = n
      BY <1>1
    <2>2. ASSUME NEW i \in DOMAIN q
          PROVE f[q[i]] = IF i = Len(q) THEN Null ELSE q[i + 1]
      <3>1. CASE i = 1
        <4>1. CASE s = <<>>
          BY <3>1, <4>1, <1>1 DEF ListIn
        <4>2. CASE s # <<>>
          BY <3>1, <4>2, <1>1 DEF ListIn
        <4> QED  BY <4>1, <4>2
      <3>2. CASE i # 1
        <4>1. i - 1 \in DOMAIN s /\ q[i] = s[i - 1]
          BY <3>2, <1>2
        <4>2. f[s[i - 1]] = IF i - 1 = Len(s) THEN Null ELSE s[i - 1 + 1]
          BY <4>1 DEF ListIn
        <4> QED  BY <4>1, <4>2, <1>1
      <3> QED  BY <3>1, <3>2
    <2> QED  BY <2>1, <2>2 DEF ListIn
  <1>5. Distinct(q)
    <2> SUFFICES ASSUME NEW i \in DOMAIN q, NEW j \in DOMAIN q, q[i] = q[j]
                 PROVE i = j
      BY DEF Distinct
    <2>1. \A k \in DOMAIN q : k # 1 => q[k] \in Elements(s)
      BY <1>2 DEF Elements
    <2>2. CASE i = 1 \/ j = 1
      BY <2>1, <2>2, <1>1
    <2>3. CASE i # 1 /\ j # 1
      <3>1. /\ i - 1 \in DOMAIN s /\ j - 1 \in DOMAIN s /\ s[i - 1] = s[j - 1]
        BY <2>3, <1>2
      <3>2. i - 1 = j - 1 /\ i \in Int /\ j \in Int
        BY <3>1, <1>1 DEF Distinct
      <3> QED  BY <3>2
    <2> QED  BY <2>2, <2>3
  <1> QED  BY <1>1, <1>3, <1>4, <1>5 DEF q

\* The rest of a list.
LEMMA ListPop ==
  ASSUME NEW f, NEW p \in Nodes, NEW s \in Seq(Nodes), ListIn(f, p, s), Distinct(s)
  PROVE /\ s # <<>> /\ p \in Elements(s)
        /\ Tail(s) \in Seq(Nodes)
        /\ ListIn(f, f[p], Tail(s))
        /\ Distinct(Tail(s))
        /\ Elements(Tail(s)) = Elements(s) \ {p}
  <1> DEFINE q == Tail(s)
  <1>1. s # <<>> /\ p = s[1]
    BY TreiberAssumption DEF ListIn, Nodes
  <1>2. /\ q \in Seq(Nodes) /\ Len(q) = Len(s) - 1
        /\ DOMAIN q = 1 .. Len(s) - 1 /\ DOMAIN s = 1 .. Len(s) /\ Len(s) \in Nat
        /\ \A i \in 1 .. Len(s) - 1 : q[i] = s[i + 1]
    BY <1>1
  <1>3. 1 \in DOMAIN s /\ p \in Elements(s)
    BY <1>1, <1>2 DEF Elements
  <1>4. \A i \in DOMAIN q : i + 1 \in DOMAIN s /\ q[i] = s[i + 1]
    BY <1>2
  <1> HIDE DEF q
  <1>5. Elements(q) = Elements(s) \ {p}
    <2>1. \A i \in DOMAIN s : i # 1 => i - 1 \in DOMAIN q /\ q[i - 1] = s[i]
      BY <1>2
    <2>2. \A i \in DOMAIN q : q[i] # p
      <3> SUFFICES ASSUME NEW i \in DOMAIN q, q[i] = p PROVE FALSE
        OBVIOUS
      <3>1. i + 1 = 1
        BY <1>1, <1>3, <1>4 DEF Distinct
      <3> QED  BY <3>1, <1>2
    <2> QED  BY <2>1, <2>2, <1>1, <1>4 DEF Elements
  <1>6. ListIn(f, f[p], q)
    <2>1. f[p] = IF q = <<>> THEN Null ELSE q[1]
      <3>1. f[s[1]] = IF 1 = Len(s) THEN Null ELSE s[1 + 1]
        BY <1>1, <1>3 DEF ListIn
      <3> QED  BY <3>1, <1>1, <1>2
    <2>2. ASSUME NEW i \in DOMAIN q
          PROVE f[q[i]] = IF i = Len(q) THEN Null ELSE q[i + 1]
      <3>1. f[s[i + 1]] = IF i + 1 = Len(s) THEN Null ELSE s[i + 1 + 1]
        BY <1>4 DEF ListIn
      <3> QED  BY <3>1, <1>2
    <2> QED  BY <2>1, <2>2 DEF ListIn
  <1>7. Distinct(q)
    <2> SUFFICES ASSUME NEW i \in DOMAIN q, NEW j \in DOMAIN q, q[i] = q[j]
                 PROVE i = j
      BY DEF Distinct
    <2>1. i + 1 = j + 1 /\ i \in Int /\ j \in Int
      BY <1>2, <1>4 DEF Distinct
    <2> QED  BY <2>1
  <1> QED  BY <1>1, <1>2, <1>3, <1>5, <1>6, <1>7 DEF q

\* Writes outside of a list leave it alone.
LEMMA ListFrame ==
  ASSUME NEW f, NEW g, NEW p, NEW s, ListIn(f, p, s), \A n \in Elements(s) : g[n] = f[n]
  PROVE ListIn(g, p, s)
  BY DEF ListIn, Elements

\* The head of a list is a pointer.
LEMMA ListHead ==
  ASSUME NEW f, NEW p, NEW s \in Seq(Nodes), ListIn(f, p, s)
  PROVE /\ p \in Pointers
        /\ p # Null => p \in Elements(s) /\ s # <<>>
        /\ p = Null => s = <<>>
        /\ Elements(s) \subseteq Nodes
  <1>1. CASE s = <<>>
    BY <1>1 DEF ListIn, Pointers, Elements
  <1>2. CASE s # <<>>
    BY <1>2, TreiberAssumption DEF ListIn, Pointers, Elements, Nodes
  <1> QED  BY <1>1, <1>2

\* A list has as many elements as nodes.
LEMMA ListSize ==
  ASSUME NEW s \in Seq(Nodes), Distinct(s)
  PROVE Cardinality(Elements(s)) = Len(s)
  <1>1. s \in Bijection(1 .. Len(s), Elements(s))
    BY DEF Distinct, Elements, Bijection, Injection, Surjection, IsInjective
  <1>2. ExistsBijection(1 .. Len(s), Elements(s)) /\ Len(s) \in Nat
    BY <1>1 DEF ExistsBijection
  <1> QED  BY <1>2, FS_CountingElements

\* Pointers lead to nodes that have been handed out.
LEMMA Handed ==
  ASSUME IInv
  PROVE /\ fresh \in Nat /\ 1 .. fresh \subseteq Nodes
        /\ head # Null => head \in Elements(schedSeq)
        /\ fhead # Null => fhead \in Elements(freeSeq)
        /\ fhead # Null => freeSeq # <<>>
        /\ Elements(schedSeq) \subseteq Nodes /\ Elements(freeSeq) \subseteq Nodes
  <1>1. fresh \in Nat /\ 1 .. fresh \subseteq Nodes
    BY TreiberAssumption DEF IInv, TypeOK, Nodes
  <1> QED  BY <1>1, ListHead DEF IInv, TypeOK, Lists

\* Who asks for a node can have one.
LEMMA NodeForAsking ==
  ASSUME IInv, NEW t \in Asking
  PROVE /\ fresh + 1 \in Nodes /\ fresh + 1 <= wakes
        /\ IsFiniteSet(Asking \ {t})
        /\ fresh + 1 + Cardinality(Asking \ {t}) <= wakes
  <1>1. IsFiniteSet(Asking) /\ Cardinality(Asking) \in Nat
    BY FS_CardinalityType DEF IInv, NodesLeft
  <1>2. /\ IsFiniteSet(Asking \ {t}) /\ Cardinality(Asking \ {t}) \in Nat
        /\ Cardinality(Asking \ {t}) = Cardinality(Asking) - 1
    BY <1>1, FS_RemoveElement, FS_CardinalityType
  <1>3. fresh \in Nat /\ wakes \in Nat /\ MaxWakes \in Nat /\ wakes <= MaxWakes
    BY TreiberAssumption DEF IInv, TypeOK
  <1> QED  BY <1>1, <1>2, <1>3 DEF IInv, NodesLeft, Nodes


-----------------------------------------------------------------------------
(* Every step preserves the invariant, one lemma per action.               *)

\* Steps that only move a thread on.
LocalMoves ==
  { <<"idle", "take">>, <<"take", "none">>, <<"allocSub", "allocInit">>,
    <<"read", "free">>, <<"free", "freeLoad">>, <<"free", "done">>,
    <<"freeAdd", "done">>, <<"done", "idle">>, <<"none", "idle">>,
    <<"allocCas", "alloc">>, <<"takeCas", "take">>, <<"pushCas", "push">>,
    <<"freeCas", "freeLoad">> }

LocalTo(t, x) ==
  /\ <<pc[t], x>> \in LocalMoves
  /\ pc' = [pc EXCEPT ![t] = x]
  /\ x = "take" /\ pc[t] = "idle" => t \in Takers
  /\ x = "freeLoad" /\ pc[t] = "free" => FREELIST_MAX # 0
  /\ UNCHANGED <<head, fhead, nextOf, fresh, wakes, hd, nx, nd, schedSeq, freeSeq>>

LEMMA LocalStep ==
  ASSUME IInv, TypeOK', NEW t \in Threads, NEW x, LocalTo(t, x)
  PROVE IInv'
  <1> USE DEF LocalTo, LocalMoves
  <1>1. pc \in [Threads -> PcValues]
    BY DEF IInv, TypeOK
  <1>2. Roles'
    BY <1>1 DEF IInv, Roles, Waking
  <1>3. NodesLeft'
    <2>1. Asking' = Asking
      BY <1>1 DEF Asking
    <2> QED  BY <2>1 DEF IInv, NodesLeft
  <1>4. Lists'
    BY DEF IInv, Lists
  <1>5. Owned'
    BY <1>1 DEF IInv, Owned, Holding
  <1>6. Linked'
    BY <1>1 DEF IInv, Linked
  <1>7. Taking'
    BY <1>1 DEF IInv, Taking, Settled, Writing, NoRecycling, Recycling
  <1>8. Allocating'
    BY <1>1 DEF IInv, Allocating
  <1>9. NoRecycling'
    BY <1>1 DEF IInv, NoRecycling, Recycling
  <1> QED  BY <1>2, <1>3, <1>4, <1>5, <1>6, <1>7, <1>8, <1>9 DEF IInv

LEMMA WakeHandleKeeps ==
  ASSUME IInv, NoAba, NEW t \in Threads, WakeHandle(t)
  PROVE IInv'
  <1>1. TypeOK'
    BY TreiberAssumption DEF IInv, NoAba, WakeHandle, Goto, TypeOK, PcValues, Handles,
       heapVars, listVars
  <1>2. Roles'
    BY TreiberAssumption DEF IInv, NoAba, WakeHandle, Goto, TypeOK, Roles, Waking,
       heapVars, listVars
  <1>3. NodesLeft'
    <2>1. t \notin Asking /\ Asking' = Asking \cup {t}
      BY DEF IInv, WakeHandle, Goto, Asking, TypeOK
    <2>2. IsFiniteSet(Asking') /\ Cardinality(Asking') = Cardinality(Asking) + 1
      BY <2>1, FS_AddElement DEF IInv, NodesLeft
    <2>3. Cardinality(Asking) \in Nat
      BY FS_CardinalityType DEF IInv, NodesLeft
    <2> QED  BY <2>2, <2>3 DEF IInv, TypeOK, WakeHandle, NodesLeft, heapVars
  <1>4. Lists'
    BY DEF IInv, WakeHandle, Lists, heapVars, listVars
  <1>5. Owned'
    BY TreiberAssumption DEF IInv, NoAba, WakeHandle, Goto, TypeOK, Owned, Holding,
       heapVars, listVars
  <1>6. Linked'
    BY TreiberAssumption DEF IInv, NoAba, WakeHandle, Goto, TypeOK, Linked, Owned,
       Holding, heapVars, listVars
  <1>7. Taking'
    BY TreiberAssumption DEF IInv, NoAba, WakeHandle, Goto, TypeOK, Taking, Settled,
       Writing, Holding, Owned, NoRecycling, Recycling, Roles, Waking, Lists, heapVars,
       listVars
  <1>8. Allocating'
    BY TreiberAssumption DEF IInv, NoAba, WakeHandle, Goto, TypeOK, Allocating, Owned,
       Holding, Lists, Roles, Waking, NoRecycling, Recycling, heapVars, listVars
  <1>9. NoRecycling'
    BY TreiberAssumption DEF IInv, NoAba, WakeHandle, Goto, TypeOK, NoRecycling,
       Recycling, heapVars, listVars
  <1> QED  BY <1>1, <1>2, <1>3, <1>4, <1>5, <1>6, <1>7, <1>8, <1>9 DEF IInv

LEMMA AllocFreshKeeps ==
  ASSUME IInv, NoAba, NEW t \in Threads, AllocFresh(t)
  PROVE IInv'
  <1>a. t \in Asking /\ Asking' = Asking \ {t}
    BY DEF IInv, AllocFresh, Goto, Asking, TypeOK
  <1>b. /\ fresh + 1 \in Nodes /\ fresh + 1 <= wakes
        /\ IsFiniteSet(Asking') /\ fresh + 1 + Cardinality(Asking') <= wakes
    BY <1>a, NodeForAsking
  <1>1. TypeOK'
    BY <1>b, TreiberAssumption DEF IInv, NoAba, AllocFresh, Goto, TypeOK, PcValues,
       heapVars, listVars
  <1>2. Roles'
    BY TreiberAssumption DEF IInv, NoAba, AllocFresh, Goto, TypeOK, Roles, Waking,
       heapVars, listVars
  <1>3. NodesLeft'
    BY <1>b DEF AllocFresh, NodesLeft
  <1>4. Lists'
    <2>1. /\ \A n \in Elements(schedSeq) : nextOf'[n] = nextOf[n]
          /\ \A n \in Elements(freeSeq) : nextOf'[n] = nextOf[n]
      BY <1>b, Handed DEF IInv, TypeOK, AllocFresh, Goto, Lists, Owned, Holding
    <2>2. ListIn(nextOf', head, schedSeq)
      BY <2>1, ListFrame DEF IInv, Lists
    <2>3. ListIn(nextOf', fhead, freeSeq)
      BY <2>1, ListFrame DEF IInv, Lists
    <2>4. UNCHANGED <<head, fhead, schedSeq, freeSeq>> /\ fresh' \in {fresh, fresh + 1}
      BY DEF AllocFresh, listVars
    <2> QED  BY <2>2, <2>3, <2>4, Handed DEF IInv, Lists
  <1>5. Owned'
    <2>1. /\ nd' = [nd EXCEPT ![t] = fresh + 1] /\ fresh' = fresh + 1
          /\ UNCHANGED <<schedSeq, freeSeq>> /\ fresh \in Nat
          /\ pc' = [pc EXCEPT ![t] = "push"] /\ pc[t] = "alloc"
      BY Handed DEF AllocFresh, Goto
    <2>2. \A n \in Elements(schedSeq) \cup Elements(freeSeq) : n # fresh + 1
      BY <2>1 DEF IInv, Lists
    <2>3. \A u \in Threads : u # t /\ pc[u] \in Holding =>
            nd[u] \in 1 .. fresh /\ nd[u] # fresh + 1
      BY <2>1 DEF IInv, Owned
    <2> QED  BY <2>1, <2>2, <2>3 DEF IInv, TypeOK, Owned, Holding
  <1>6. Linked'
    BY TreiberAssumption DEF IInv, NoAba, AllocFresh, Goto, TypeOK, Linked, Owned,
       Holding, heapVars, listVars
  <1>7. Taking'
    BY TreiberAssumption DEF IInv, NoAba, AllocFresh, Goto, TypeOK, Taking, Settled,
       Writing, Holding, Owned, NoRecycling, Recycling, Roles, Waking, Lists, heapVars,
       listVars
  <1>8. Allocating'
    BY TreiberAssumption DEF IInv, NoAba, AllocFresh, Goto, TypeOK, Allocating, Owned,
       Holding, Lists, Roles, Waking, NoRecycling, Recycling, heapVars, listVars
  <1>9. NoRecycling'
    BY TreiberAssumption DEF IInv, NoAba, AllocFresh, Goto, TypeOK, NoRecycling,
       Recycling, heapVars, listVars
  <1> QED  BY <1>1, <1>2, <1>3, <1>4, <1>5, <1>6, <1>7, <1>8, <1>9 DEF IInv

LEMMA AllocLoadKeeps ==
  ASSUME IInv, NoAba, NEW t \in Threads, AllocLoad(t)
  PROVE IInv'
  <1>1. TypeOK'
    BY TreiberAssumption DEF IInv, NoAba, AllocLoad, Goto, TypeOK, PcValues, heapVars,
       listVars
  <1>2. Roles'
    BY TreiberAssumption DEF IInv, NoAba, AllocLoad, Goto, TypeOK, Roles, Waking,
       heapVars, listVars
  <1>3. NodesLeft'
    <2>1. Asking' = Asking
      BY DEF IInv, AllocLoad, Goto, Asking, TypeOK
    <2> QED  BY <2>1 DEF IInv, AllocLoad, NodesLeft, heapVars
  <1>4. Lists'
    BY DEF IInv, AllocLoad, Lists, heapVars, listVars
  <1>5. Owned'
    BY TreiberAssumption DEF IInv, NoAba, AllocLoad, Goto, TypeOK, Owned, Holding,
       heapVars, listVars
  <1>6. Linked'
    BY TreiberAssumption DEF IInv, NoAba, AllocLoad, Goto, TypeOK, Linked, Owned,
       Holding, heapVars, listVars
  <1>7. Taking'
    BY TreiberAssumption DEF IInv, NoAba, AllocLoad, Goto, TypeOK, Taking, Settled,
       Writing, Holding, Owned, NoRecycling, Recycling, Roles, Waking, Lists, heapVars,
       listVars
  <1>8. Allocating'
    BY Handed, TreiberAssumption DEF IInv, NoAba, AllocLoad, Goto, TypeOK, Allocating,
       Owned, Holding, Lists, Roles, Waking, NoRecycling, Recycling, heapVars, listVars
  <1>9. NoRecycling'
    BY Handed, TreiberAssumption DEF IInv, NoAba, AllocLoad, Goto, TypeOK, NoRecycling,
       Recycling, heapVars, listVars
  <1> QED  BY <1>1, <1>2, <1>3, <1>4, <1>5, <1>6, <1>7, <1>8, <1>9 DEF IInv

LEMMA AllocNextKeeps ==
  ASSUME IInv, NoAba, NEW t \in Threads, AllocNext(t)
  PROVE IInv'
  <1>1. TypeOK'
    BY Handed, TreiberAssumption DEF IInv, NoAba, AllocNext, Goto, TypeOK, PcValues,
       Allocating, heapVars, listVars
  <1>2. Roles'
    BY TreiberAssumption DEF IInv, NoAba, AllocNext, Goto, TypeOK, Roles, Waking,
       heapVars, listVars
  <1>3. NodesLeft'
    <2>1. Asking' = Asking
      BY DEF IInv, AllocNext, Goto, Asking, TypeOK
    <2> QED  BY <2>1 DEF IInv, AllocNext, NodesLeft, heapVars
  <1>4. Lists'
    BY DEF IInv, AllocNext, Lists, heapVars, listVars
  <1>5. Owned'
    BY TreiberAssumption DEF IInv, NoAba, AllocNext, Goto, TypeOK, Owned, Holding,
       heapVars, listVars
  <1>6. Linked'
    BY TreiberAssumption DEF IInv, NoAba, AllocNext, Goto, TypeOK, Linked, Owned,
       Holding, heapVars, listVars
  <1>7. Taking'
    BY TreiberAssumption DEF IInv, NoAba, AllocNext, Goto, TypeOK, Taking, Settled,
       Writing, Holding, Owned, NoRecycling, Recycling, Roles, Waking, Lists, heapVars,
       listVars
  <1>8. Allocating'
    BY TreiberAssumption DEF IInv, NoAba, AllocNext, Goto, TypeOK, Allocating, Owned,
       Holding, Lists, Roles, Waking, NoRecycling, Recycling, heapVars, listVars
  <1>9. NoRecycling'
    BY TreiberAssumption DEF IInv, NoAba, AllocNext, Goto, TypeOK, NoRecycling,
       Recycling, heapVars, listVars
  <1> QED  BY <1>1, <1>2, <1>3, <1>4, <1>5, <1>6, <1>7, <1>8, <1>9 DEF IInv

\* What a successful compare_exchange of AllocCas does to its list.
LEMMA AllocCasSucceeds ==
  ASSUME IInv, NEW t \in Threads, AllocCas(t), fhead = hd[t]
  PROVE /\ freeSeq # <<>> /\ hd[t] \in Elements(freeSeq) /\ Tail(freeSeq) \in Seq(Nodes)
        /\ ListIn(nextOf, nx[t], Tail(freeSeq)) /\ Distinct(Tail(freeSeq))
        /\ Elements(Tail(freeSeq)) = Elements(freeSeq) \ {hd[t]}
        /\ nx[t] \in Pointers
  <1>1. hd[t] \in Nodes /\ nx[t] = nextOf[hd[t]]
    BY Handed DEF IInv, AllocCas, Goto, Allocating
  <1>2. freeSeq \in Seq(Nodes) /\ ListIn(nextOf, hd[t], freeSeq) /\ Distinct(freeSeq)
    BY DEF IInv, TypeOK, Lists
  <1>3. /\ freeSeq # <<>> /\ hd[t] \in Elements(freeSeq) /\ Tail(freeSeq) \in Seq(Nodes)
        /\ ListIn(nextOf, nx[t], Tail(freeSeq)) /\ Distinct(Tail(freeSeq))
        /\ Elements(Tail(freeSeq)) = Elements(freeSeq) \ {hd[t]}
    BY <1>1, <1>2, ListPop
  <1> QED  BY <1>3, ListHead

LEMMA AllocCasKeeps ==
  ASSUME IInv, NoAba, NEW t \in Threads, AllocCas(t)
  PROVE IInv'
  <1>1. CASE fhead # hd[t]
    <2>1. /\ UNCHANGED <<listVars, heapVars, wakes, hd, nx, nd, h, schedSeq, freeSeq>>
          /\ pc' = [pc EXCEPT ![t] = "alloc"]
          /\ pc[t] = "allocCas"
      BY <1>1 DEF AllocCas, Goto, listVars
    <2>2. TypeOK'
      BY <2>1 DEF IInv, TypeOK, PcValues, heapVars, listVars
    <2>3. LocalTo(t, "alloc")
      BY <2>1 DEF LocalTo, LocalMoves, heapVars, listVars
    <2> QED  BY <2>2, <2>3, LocalStep
  <1>2. CASE fhead = hd[t]
    <2>a. /\ fhead' = nx[t] /\ freeSeq' = Tail(freeSeq)
          /\ nd' = [nd EXCEPT ![t] = hd[t]]
          /\ UNCHANGED <<head, schedSeq, fcount, heapVars, wakes, hd, nx, h>>
          /\ freed' = freed - 1
          /\ pc' = [pc EXCEPT ![t] = "allocSub"] /\ pc[t] = "allocCas"
      BY <1>2, AllocCasSucceeds DEF AllocCas, Goto, Rest
    <2>b. /\ freeSeq' \in Seq(Nodes) /\ ListIn(nextOf, fhead', freeSeq') /\ Distinct(freeSeq')
          /\ fhead' \in Pointers
          /\ Elements(freeSeq') = Elements(freeSeq) \ {hd[t]}
          /\ hd[t] \in Elements(freeSeq)
      BY AllocCasSucceeds, <1>2, <2>a DEF Pointers
    <2> USE <2>a, <2>b
    <2>1. TypeOK'
      BY Handed DEF IInv, TypeOK, PcValues, Pointers, heapVars, listVars
    <2>2. Roles'
      BY DEF IInv, TypeOK, Roles, Waking, heapVars, listVars
    <2>3. NodesLeft'
      <3>1. t \in Asking /\ Asking' = Asking \ {t}
        BY DEF IInv, Asking, TypeOK
      <3>2. /\ IsFiniteSet(Asking \ {t})
            /\ fresh + 1 + Cardinality(Asking \ {t}) <= wakes
        BY <3>1, NodeForAsking
      <3>3. Cardinality(Asking \ {t}) \in Nat
        BY <3>2, FS_CardinalityType
      <3> QED  BY <3>1, <3>2, <3>3, Handed DEF IInv, TypeOK, NodesLeft, heapVars
    <2>4. Lists'
      BY Handed DEF IInv, Lists, Owned, Holding, heapVars, listVars
    <2>5. Owned'
      BY Handed DEF IInv, TypeOK, Owned, Holding, Lists, heapVars, listVars
    <2>6. Linked'
      BY DEF IInv, TypeOK, Linked, heapVars, listVars
    <2>7. Taking'
      BY DEF IInv, TypeOK, Taking, Settled, Writing, Roles, Waking, NoAba, NoRecycling,
         Recycling, heapVars, listVars
    <2>8. Allocating'
      BY DEF IInv, TypeOK, Allocating, Roles, Waking, NoAba, NoRecycling, Recycling,
         heapVars, listVars
    <2>9. NoRecycling'
      BY DEF IInv, TypeOK, NoRecycling, Recycling, heapVars, listVars
    <2> QED  BY <2>1, <2>2, <2>3, <2>4, <2>5, <2>6, <2>7, <2>8, <2>9 DEF IInv
  <1> QED  BY <1>1, <1>2

LEMMA AllocSubKeeps ==
  ASSUME IInv, NoAba, NEW t \in Threads, AllocSub(t)
  PROVE IInv'
  <1>1. TypeOK'
    BY TreiberAssumption DEF IInv, AllocSub, Goto, TypeOK, PcValues, heapVars, listVars
  <1>2. LocalTo(t, "allocInit")
    BY DEF AllocSub, Goto, LocalTo, LocalMoves, heapVars, listVars
  <1> QED  BY <1>1, <1>2, LocalStep

LEMMA AllocInitKeeps ==
  ASSUME IInv, NoAba, NEW t \in Threads, AllocInit(t)
  PROVE IInv'
  <1>1. TypeOK'
    BY TreiberAssumption DEF IInv, NoAba, AllocInit, Goto, TypeOK, PcValues, heapVars,
       listVars
  <1>2. Roles'
    BY TreiberAssumption DEF IInv, NoAba, AllocInit, Goto, TypeOK, Roles, Waking,
       heapVars, listVars
  <1>3. NodesLeft'
    <2>1. Asking' = Asking
      BY DEF IInv, AllocInit, Goto, Asking, TypeOK
    <2> QED  BY <2>1 DEF IInv, AllocInit, NodesLeft, heapVars
  <1>4. Lists'
    <2>1. /\ \A n \in Elements(schedSeq) : nextOf'[n] = nextOf[n]
          /\ \A n \in Elements(freeSeq) : nextOf'[n] = nextOf[n]
      BY Handed DEF IInv, TypeOK, AllocInit, Goto, Lists, Owned, Holding
    <2>2. ListIn(nextOf', head, schedSeq)
      BY <2>1, ListFrame DEF IInv, Lists
    <2>3. ListIn(nextOf', fhead, freeSeq)
      BY <2>1, ListFrame DEF IInv, Lists
    <2>4. UNCHANGED <<head, fhead, schedSeq, freeSeq>> /\ fresh' \in {fresh, fresh + 1}
      BY DEF AllocInit, listVars
    <2> QED  BY <2>2, <2>3, <2>4, Handed DEF IInv, Lists
  <1>5. Owned'
    BY TreiberAssumption DEF IInv, NoAba, AllocInit, Goto, TypeOK, Owned, Holding,
       heapVars, listVars
  <1>6. Linked'
    BY TreiberAssumption DEF IInv, NoAba, AllocInit, Goto, TypeOK, Linked, Owned,
       Holding, heapVars, listVars
  <1>7. Taking'
    BY TreiberAssumption DEF IInv, NoAba, AllocInit, Goto, TypeOK, Taking, Settled,
       Writing, Holding, Owned, NoRecycling, Recycling, Roles, Waking, Lists, heapVars,
       listVars
  <1>8. Allocating'
    BY TreiberAssumption DEF IInv, NoAba, AllocInit, Goto, TypeOK, Allocating, Owned,
       Holding, Lists, Roles, Waking, NoRecycling, Recycling, heapVars, listVars
  <1>9. NoRecycling'
    BY TreiberAssumption DEF IInv, NoAba, AllocInit, Goto, TypeOK, NoRecycling,
       Recycling, heapVars, listVars
  <1> QED  BY <1>1, <1>2, <1>3, <1>4, <1>5, <1>6, <1>7, <1>8, <1>9 DEF IInv

LEMMA PushLoadKeeps ==
  ASSUME IInv, NoAba, NEW t \in Threads, PushLoad(t)
  PROVE IInv'
  <1>1. TypeOK'
    BY TreiberAssumption DEF IInv, NoAba, PushLoad, Goto, TypeOK, PcValues, heapVars,
       listVars
  <1>2. Roles'
    BY TreiberAssumption DEF IInv, NoAba, PushLoad, Goto, TypeOK, Roles, Waking,
       heapVars, listVars
  <1>3. NodesLeft'
    <2>1. Asking' = Asking
      BY DEF IInv, PushLoad, Goto, Asking, TypeOK
    <2> QED  BY <2>1 DEF IInv, PushLoad, NodesLeft, heapVars
  <1>4. Lists'
    <2>1. /\ \A n \in Elements(schedSeq) : nextOf'[n] = nextOf[n]
          /\ \A n \in Elements(freeSeq) : nextOf'[n] = nextOf[n]
      BY Handed DEF IInv, TypeOK, PushLoad, Goto, Lists, Owned, Holding
    <2>2. ListIn(nextOf', head, schedSeq)
      BY <2>1, ListFrame DEF IInv, Lists
    <2>3. ListIn(nextOf', fhead, freeSeq)
      BY <2>1, ListFrame DEF IInv, Lists
    <2>4. UNCHANGED <<head, fhead, schedSeq, freeSeq>> /\ fresh' \in {fresh, fresh + 1}
      BY DEF PushLoad, listVars
    <2> QED  BY <2>2, <2>3, <2>4, Handed DEF IInv, Lists
  <1>5. Owned'
    BY TreiberAssumption DEF IInv, NoAba, PushLoad, Goto, TypeOK, Owned, Holding,
       heapVars, listVars
  <1>6. Linked'
    BY TreiberAssumption DEF IInv, NoAba, PushLoad, Goto, TypeOK, Linked, Owned,
       Holding, heapVars, listVars
  <1>7. Taking'
    BY TreiberAssumption DEF IInv, NoAba, PushLoad, Goto, TypeOK, Taking, Settled,
       Writing, Holding, Owned, NoRecycling, Recycling, Roles, Waking, Lists, heapVars,
       listVars
  <1>8. Allocating'
    BY TreiberAssumption DEF IInv, NoAba, PushLoad, Goto, TypeOK, Allocating, Owned,
       Holding, Lists, Roles, Waking, NoRecycling, Recycling, heapVars, listVars
  <1>9. NoRecycling'
    BY TreiberAssumption DEF IInv, NoAba, PushLoad, Goto, TypeOK, NoRecycling,
       Recycling, heapVars, listVars
  <1> QED  BY <1>1, <1>2, <1>3, <1>4, <1>5, <1>6, <1>7, <1>8, <1>9 DEF IInv

\* What a successful compare_exchange of PushCas does to its list.
LEMMA PushCasSucceeds ==
  ASSUME IInv, NEW t \in Threads, PushCas(t), head = hd[t]
  PROVE /\ <<nd[t]>> \o schedSeq \in Seq(Nodes)
        /\ ListIn(nextOf, nd[t], <<nd[t]>> \o schedSeq) /\ Distinct(<<nd[t]>> \o schedSeq)
        /\ Elements(<<nd[t]>> \o schedSeq) = Elements(schedSeq) \cup {nd[t]}
        /\ nd[t] \in Nodes
  <1>1. nd[t] \in Nodes /\ nd[t] \notin Elements(schedSeq) /\ nextOf[nd[t]] = head
    BY Handed DEF IInv, PushCas, Goto, Owned, Holding, Linked
  <1>2. schedSeq \in Seq(Nodes) /\ ListIn(nextOf, head, schedSeq) /\ Distinct(schedSeq)
    BY DEF IInv, TypeOK, Lists
  <1> QED  BY <1>1, <1>2, ListPush

LEMMA PushCasKeeps ==
  ASSUME IInv, NoAba, NEW t \in Threads, PushCas(t)
  PROVE IInv'
  <1>1. CASE head # hd[t]
    <2>1. /\ UNCHANGED <<listVars, heapVars, wakes, hd, nx, nd, h, schedSeq, freeSeq>>
          /\ pc' = [pc EXCEPT ![t] = "push"]
          /\ pc[t] = "pushCas"
      BY <1>1 DEF PushCas, Goto, listVars
    <2>2. TypeOK'
      BY <2>1 DEF IInv, TypeOK, PcValues, heapVars, listVars
    <2>3. LocalTo(t, "push")
      BY <2>1 DEF LocalTo, LocalMoves, heapVars, listVars
    <2> QED  BY <2>2, <2>3, LocalStep
  <1>2. CASE head = hd[t]
    <2>a. /\ head' = nd[t] /\ schedSeq' = <<nd[t]>> \o schedSeq
          /\ UNCHANGED nd
          /\ UNCHANGED <<fhead, freeSeq, fcount, freed, heapVars, wakes, hd, nx, h>>
          /\ pc' = [pc EXCEPT ![t] = "idle"] /\ pc[t] = "pushCas"
      BY <1>2 DEF PushCas, Goto
    <2>b. /\ schedSeq' \in Seq(Nodes) /\ ListIn(nextOf, head', schedSeq') /\ Distinct(schedSeq')
          /\ head' \in Pointers
          /\ Elements(schedSeq') = Elements(schedSeq) \cup {nd[t]}
          /\ nd[t] \in Nodes
      BY PushCasSucceeds, <1>2, <2>a DEF Pointers
    <2> USE <2>a, <2>b
    <2>1. TypeOK'
      BY Handed DEF IInv, TypeOK, PcValues, Pointers, heapVars, listVars
    <2>2. Roles'
      BY DEF IInv, TypeOK, Roles, Waking, heapVars, listVars
    <2>3. NodesLeft'
      <3>1. Asking' = Asking
        BY DEF IInv, Asking, TypeOK
      <3> QED  BY <3>1 DEF IInv, NodesLeft, heapVars
    <2>4. Lists'
      BY Handed DEF IInv, Lists, Owned, Holding, heapVars, listVars
    <2>5. Owned'
      BY Handed DEF IInv, TypeOK, Owned, Holding, Lists, heapVars, listVars
    <2>6. Linked'
      BY DEF IInv, TypeOK, Linked, heapVars, listVars
    <2>7. Taking'
      BY DEF IInv, TypeOK, Taking, Settled, Writing, Roles, Waking, NoAba, NoRecycling,
         Recycling, heapVars, listVars
    <2>8. Allocating'
      BY DEF IInv, TypeOK, Allocating, Roles, Waking, NoAba, NoRecycling, Recycling,
         heapVars, listVars
    <2>9. NoRecycling'
      BY DEF IInv, TypeOK, NoRecycling, Recycling, heapVars, listVars
    <2> QED  BY <2>1, <2>2, <2>3, <2>4, <2>5, <2>6, <2>7, <2>8, <2>9 DEF IInv
  <1> QED  BY <1>1, <1>2

LEMMA TakeScheduledTaskKeeps ==
  ASSUME IInv, NoAba, NEW t \in Threads, TakeScheduledTask(t)
  PROVE IInv'
  <1>1. TypeOK'
    BY TreiberAssumption DEF IInv, TakeScheduledTask, Goto, TypeOK, PcValues, heapVars,
       listVars
  <1>2. LocalTo(t, "take")
    BY DEF TakeScheduledTask, Goto, LocalTo, LocalMoves, heapVars, listVars
  <1> QED  BY <1>1, <1>2, LocalStep

LEMMA TakeNullKeeps ==
  ASSUME IInv, NoAba, NEW t \in Threads, TakeNull(t)
  PROVE IInv'
  <1>1. TypeOK'
    BY TreiberAssumption DEF IInv, TakeNull, Goto, TypeOK, PcValues, heapVars, listVars
  <1>2. LocalTo(t, "none")
    BY DEF TakeNull, Goto, LocalTo, LocalMoves, heapVars, listVars
  <1> QED  BY <1>1, <1>2, LocalStep

LEMMA TakeLoadKeeps ==
  ASSUME IInv, NoAba, NEW t \in Threads, TakeLoad(t)
  PROVE IInv'
  <1>1. TypeOK'
    BY TreiberAssumption DEF IInv, NoAba, TakeLoad, Goto, TypeOK, PcValues, heapVars,
       listVars
  <1>2. Roles'
    BY TreiberAssumption DEF IInv, NoAba, TakeLoad, Goto, TypeOK, Roles, Waking,
       heapVars, listVars
  <1>3. NodesLeft'
    <2>1. Asking' = Asking
      BY DEF IInv, TakeLoad, Goto, Asking, TypeOK
    <2> QED  BY <2>1 DEF IInv, TakeLoad, NodesLeft, heapVars
  <1>4. Lists'
    BY DEF IInv, TakeLoad, Lists, heapVars, listVars
  <1>5. Owned'
    BY TreiberAssumption DEF IInv, NoAba, TakeLoad, Goto, TypeOK, Owned, Holding,
       heapVars, listVars
  <1>6. Linked'
    BY TreiberAssumption DEF IInv, NoAba, TakeLoad, Goto, TypeOK, Linked, Owned,
       Holding, heapVars, listVars
  <1>7. Taking'
    BY Handed, TreiberAssumption DEF IInv, NoAba, TakeLoad, Goto, TypeOK, Taking,
       Settled, Writing, Holding, Owned, NoRecycling, Recycling, Roles, Waking, Lists,
       heapVars, listVars
  <1>8. Allocating'
    BY TreiberAssumption DEF IInv, NoAba, TakeLoad, Goto, TypeOK, Allocating, Owned,
       Holding, Lists, Roles, Waking, NoRecycling, Recycling, heapVars, listVars
  <1>9. NoRecycling'
    BY TreiberAssumption DEF IInv, NoAba, TakeLoad, Goto, TypeOK, NoRecycling,
       Recycling, heapVars, listVars
  <1> QED  BY <1>1, <1>2, <1>3, <1>4, <1>5, <1>6, <1>7, <1>8, <1>9 DEF IInv

LEMMA TakeNextKeeps ==
  ASSUME IInv, NoAba, NEW t \in Threads, TakeNext(t)
  PROVE IInv'
  <1>1. TypeOK'
    BY Handed, TreiberAssumption DEF IInv, NoAba, TakeNext, Goto, TypeOK, PcValues,
       Taking, Settled, heapVars, listVars
  <1>2. Roles'
    BY TreiberAssumption DEF IInv, NoAba, TakeNext, Goto, TypeOK, Roles, Waking,
       heapVars, listVars
  <1>3. NodesLeft'
    <2>1. Asking' = Asking
      BY DEF IInv, TakeNext, Goto, Asking, TypeOK
    <2> QED  BY <2>1 DEF IInv, TakeNext, NodesLeft, heapVars
  <1>4. Lists'
    BY DEF IInv, TakeNext, Lists, heapVars, listVars
  <1>5. Owned'
    BY TreiberAssumption DEF IInv, NoAba, TakeNext, Goto, TypeOK, Owned, Holding,
       heapVars, listVars
  <1>6. Linked'
    BY TreiberAssumption DEF IInv, NoAba, TakeNext, Goto, TypeOK, Linked, Owned,
       Holding, heapVars, listVars
  <1>7. Taking'
    BY TreiberAssumption DEF IInv, NoAba, TakeNext, Goto, TypeOK, Taking, Settled,
       Writing, Holding, Owned, NoRecycling, Recycling, Roles, Waking, Lists, heapVars,
       listVars
  <1>8. Allocating'
    BY TreiberAssumption DEF IInv, NoAba, TakeNext, Goto, TypeOK, Allocating, Owned,
       Holding, Lists, Roles, Waking, NoRecycling, Recycling, heapVars, listVars
  <1>9. NoRecycling'
    BY TreiberAssumption DEF IInv, NoAba, TakeNext, Goto, TypeOK, NoRecycling,
       Recycling, heapVars, listVars
  <1> QED  BY <1>1, <1>2, <1>3, <1>4, <1>5, <1>6, <1>7, <1>8, <1>9 DEF IInv

\* What a successful compare_exchange of TakeCas does to its list.
LEMMA TakeCasSucceeds ==
  ASSUME IInv, NEW t \in Threads, TakeCas(t), head = hd[t]
  PROVE /\ schedSeq # <<>> /\ hd[t] \in Elements(schedSeq) /\ Tail(schedSeq) \in Seq(Nodes)
        /\ ListIn(nextOf, nx[t], Tail(schedSeq)) /\ Distinct(Tail(schedSeq))
        /\ Elements(Tail(schedSeq)) = Elements(schedSeq) \ {hd[t]}
        /\ nx[t] \in Pointers
  <1>1. hd[t] \in Nodes /\ nx[t] = nextOf[hd[t]]
    BY Handed DEF IInv, TakeCas, Goto, Taking, Settled
  <1>2. schedSeq \in Seq(Nodes) /\ ListIn(nextOf, hd[t], schedSeq) /\ Distinct(schedSeq)
    BY DEF IInv, TypeOK, Lists
  <1>3. /\ schedSeq # <<>> /\ hd[t] \in Elements(schedSeq) /\ Tail(schedSeq) \in Seq(Nodes)
        /\ ListIn(nextOf, nx[t], Tail(schedSeq)) /\ Distinct(Tail(schedSeq))
        /\ Elements(Tail(schedSeq)) = Elements(schedSeq) \ {hd[t]}
    BY <1>1, <1>2, ListPop
  <1> QED  BY <1>3, ListHead

LEMMA TakeCasKeeps ==
  ASSUME IInv, NoAba, NEW t \in Threads, TakeCas(t)
  PROVE IInv'
  <1>1. CASE head # hd[t]
    <2>1. /\ UNCHANGED <<listVars, heapVars, wakes, hd, nx, nd, h, schedSeq, freeSeq>>
          /\ pc' = [pc EXCEPT ![t] = "take"]
          /\ pc[t] = "takeCas"
      BY <1>1 DEF TakeCas, Goto, listVars
    <2>2. TypeOK'
      BY <2>1 DEF IInv, TypeOK, PcValues, heapVars, listVars
    <2>3. LocalTo(t, "take")
      BY <2>1 DEF LocalTo, LocalMoves, heapVars, listVars
    <2> QED  BY <2>2, <2>3, LocalStep
  <1>2. CASE head = hd[t]
    <2>a. /\ head' = nx[t] /\ schedSeq' = Tail(schedSeq)
          /\ nd' = [nd EXCEPT ![t] = hd[t]]
          /\ UNCHANGED <<fhead, freeSeq, fcount, freed, heapVars, wakes, hd, nx, h>>
          /\ pc' = [pc EXCEPT ![t] = "read"] /\ pc[t] = "takeCas"
      BY <1>2, TakeCasSucceeds DEF TakeCas, Goto, Rest
    <2>b. /\ schedSeq' \in Seq(Nodes) /\ ListIn(nextOf, head', schedSeq') /\ Distinct(schedSeq')
          /\ head' \in Pointers
          /\ Elements(schedSeq') = Elements(schedSeq) \ {hd[t]}
          /\ hd[t] \in Elements(schedSeq)
      BY TakeCasSucceeds, <1>2, <2>a DEF Pointers
    <2> USE <2>a, <2>b
    <2>1. TypeOK'
      BY Handed DEF IInv, TypeOK, PcValues, Pointers, heapVars, listVars
    <2>2. Roles'
      BY DEF IInv, TypeOK, Roles, Waking, heapVars, listVars
    <2>3. NodesLeft'
      <3>1. Asking' = Asking
        BY DEF IInv, Asking, TypeOK
      <3> QED  BY <3>1 DEF IInv, NodesLeft, heapVars
    <2>4. Lists'
      BY Handed DEF IInv, Lists, Owned, Holding, heapVars, listVars
    <2>5. Owned'
      BY Handed DEF IInv, TypeOK, Owned, Holding, Lists, heapVars, listVars
    <2>6. Linked'
      BY DEF IInv, TypeOK, Linked, heapVars, listVars
    <2>7. Taking'
      BY DEF IInv, TypeOK, Taking, Settled, Writing, Roles, Waking, NoAba, NoRecycling,
         Recycling, heapVars, listVars
    <2>8. Allocating'
      BY DEF IInv, TypeOK, Allocating, Roles, Waking, NoAba, NoRecycling, Recycling,
         heapVars, listVars
    <2>9. NoRecycling'
      BY DEF IInv, TypeOK, NoRecycling, Recycling, heapVars, listVars
    <2> QED  BY <2>1, <2>2, <2>3, <2>4, <2>5, <2>6, <2>7, <2>8, <2>9 DEF IInv
  <1> QED  BY <1>1, <1>2

LEMMA ReadHandleKeeps ==
  ASSUME IInv, NoAba, NEW t \in Threads, ReadHandle(t)
  PROVE IInv'
  <1>1. TypeOK'
    BY Handed, TreiberAssumption DEF IInv, ReadHandle, Goto, TypeOK, PcValues, Owned,
       Holding, heapVars, listVars
  <1>2. LocalTo(t, "free")
    BY DEF ReadHandle, Goto, LocalTo, LocalMoves, heapVars, listVars
  <1> QED  BY <1>1, <1>2, LocalStep

LEMMA FreeCheckKeeps ==
  ASSUME IInv, NoAba, NEW t \in Threads, FreeCheck(t)
  PROVE IInv'
  <1>1. TypeOK'
    BY TreiberAssumption DEF IInv, FreeCheck, Goto, TypeOK, PcValues, heapVars, listVars
  <1>2. fcount < FREELIST_MAX => FREELIST_MAX # 0
    BY TreiberAssumption DEF IInv, TypeOK
  <1>3. LocalTo(t, "freeLoad") \/ LocalTo(t, "done")
    BY <1>2 DEF FreeCheck, Goto, LocalTo, LocalMoves, heapVars, listVars
  <1> QED  BY <1>1, <1>3, LocalStep

LEMMA FreeLoadKeeps ==
  ASSUME IInv, NoAba, NEW t \in Threads, FreeLoad(t)
  PROVE IInv'
  <1>1. TypeOK'
    BY TreiberAssumption DEF IInv, NoAba, FreeLoad, Goto, TypeOK, PcValues, heapVars,
       listVars
  <1>2. Roles'
    BY TreiberAssumption DEF IInv, NoAba, FreeLoad, Goto, TypeOK, Roles, Waking,
       heapVars, listVars
  <1>3. NodesLeft'
    <2>1. Asking' = Asking
      BY DEF IInv, FreeLoad, Goto, Asking, TypeOK
    <2> QED  BY <2>1 DEF IInv, FreeLoad, NodesLeft, heapVars
  <1>4. Lists'
    <2>1. /\ \A n \in Elements(schedSeq) : nextOf'[n] = nextOf[n]
          /\ \A n \in Elements(freeSeq) : nextOf'[n] = nextOf[n]
      BY Handed DEF IInv, TypeOK, FreeLoad, Goto, Lists, Owned, Holding
    <2>2. ListIn(nextOf', head, schedSeq)
      BY <2>1, ListFrame DEF IInv, Lists
    <2>3. ListIn(nextOf', fhead, freeSeq)
      BY <2>1, ListFrame DEF IInv, Lists
    <2>4. UNCHANGED <<head, fhead, schedSeq, freeSeq>> /\ fresh' \in {fresh, fresh + 1}
      BY DEF FreeLoad, listVars
    <2> QED  BY <2>2, <2>3, <2>4, Handed DEF IInv, Lists
  <1>5. Owned'
    BY TreiberAssumption DEF IInv, NoAba, FreeLoad, Goto, TypeOK, Owned, Holding,
       heapVars, listVars
  <1>6. Linked'
    BY TreiberAssumption DEF IInv, NoAba, FreeLoad, Goto, TypeOK, Linked, Owned,
       Holding, heapVars, listVars
  <1>7. Taking'
    BY TreiberAssumption DEF IInv, NoAba, FreeLoad, Goto, TypeOK, Taking, Settled,
       Writing, Holding, Owned, NoRecycling, Recycling, Roles, Waking, Lists, heapVars,
       listVars
  <1>8. Allocating'
    BY TreiberAssumption DEF IInv, NoAba, FreeLoad, Goto, TypeOK, Allocating, Owned,
       Holding, Lists, Roles, Waking, NoRecycling, Recycling, heapVars, listVars
  <1>9. NoRecycling'
    BY TreiberAssumption DEF IInv, NoAba, FreeLoad, Goto, TypeOK, NoRecycling,
       Recycling, heapVars, listVars
  <1> QED  BY <1>1, <1>2, <1>3, <1>4, <1>5, <1>6, <1>7, <1>8, <1>9 DEF IInv

\* What a successful compare_exchange of FreeCas does to its list.
LEMMA FreeCasSucceeds ==
  ASSUME IInv, NEW t \in Threads, FreeCas(t), fhead = hd[t]
  PROVE /\ <<nd[t]>> \o freeSeq \in Seq(Nodes)
        /\ ListIn(nextOf, nd[t], <<nd[t]>> \o freeSeq) /\ Distinct(<<nd[t]>> \o freeSeq)
        /\ Elements(<<nd[t]>> \o freeSeq) = Elements(freeSeq) \cup {nd[t]}
        /\ nd[t] \in Nodes
  <1>1. nd[t] \in Nodes /\ nd[t] \notin Elements(freeSeq) /\ nextOf[nd[t]] = fhead
    BY Handed DEF IInv, FreeCas, Goto, Owned, Holding, Linked
  <1>2. freeSeq \in Seq(Nodes) /\ ListIn(nextOf, fhead, freeSeq) /\ Distinct(freeSeq)
    BY DEF IInv, TypeOK, Lists
  <1> QED  BY <1>1, <1>2, ListPush

LEMMA FreeCasKeeps ==
  ASSUME IInv, NoAba, NEW t \in Threads, FreeCas(t)
  PROVE IInv'
  <1>1. CASE fhead # hd[t]
    <2>1. /\ UNCHANGED <<listVars, heapVars, wakes, hd, nx, nd, h, schedSeq, freeSeq>>
          /\ pc' = [pc EXCEPT ![t] = "freeLoad"]
          /\ pc[t] = "freeCas"
      BY <1>1 DEF FreeCas, Goto, listVars
    <2>2. TypeOK'
      BY <2>1 DEF IInv, TypeOK, PcValues, heapVars, listVars
    <2>3. LocalTo(t, "freeLoad")
      BY <2>1 DEF LocalTo, LocalMoves, heapVars, listVars
    <2> QED  BY <2>2, <2>3, LocalStep
  <1>2. CASE fhead = hd[t]
    <2>a. /\ fhead' = nd[t] /\ freeSeq' = <<nd[t]>> \o freeSeq
          /\ UNCHANGED nd
          /\ UNCHANGED <<head, schedSeq, fcount, heapVars, wakes, hd, nx, h>>
          /\ freed' = freed + 1
          /\ pc' = [pc EXCEPT ![t] = "freeAdd"] /\ pc[t] = "freeCas"
      BY <1>2 DEF FreeCas, Goto
    <2>b. /\ freeSeq' \in Seq(Nodes) /\ ListIn(nextOf, fhead', freeSeq') /\ Distinct(freeSeq')
          /\ fhead' \in Pointers
          /\ Elements(freeSeq') = Elements(freeSeq) \cup {nd[t]}
          /\ nd[t] \in Nodes
      BY FreeCasSucceeds, <1>2, <2>a DEF Pointers
    <2> USE <2>a, <2>b
    <2>1. TypeOK'
      BY Handed DEF IInv, TypeOK, PcValues, Pointers, heapVars, listVars
    <2>2. Roles'
      BY DEF IInv, TypeOK, Roles, Waking, heapVars, listVars
    <2>3. NodesLeft'
      <3>1. Asking' = Asking
        BY DEF IInv, Asking, TypeOK
      <3> QED  BY <3>1 DEF IInv, NodesLeft, heapVars
    <2>4. Lists'
      BY Handed DEF IInv, Lists, Owned, Holding, heapVars, listVars
    <2>5. Owned'
      BY Handed DEF IInv, TypeOK, Owned, Holding, Lists, heapVars, listVars
    <2>6. Linked'
      BY DEF IInv, TypeOK, Linked, heapVars, listVars
    <2>7. Taking'
      BY DEF IInv, TypeOK, Taking, Settled, Writing, Roles, Waking, NoAba, NoRecycling,
         Recycling, heapVars, listVars
    <2>8. Allocating'
      BY DEF IInv, TypeOK, Allocating, Roles, Waking, NoAba, NoRecycling, Recycling,
         heapVars, listVars
    <2>9. NoRecycling'
      BY DEF IInv, TypeOK, NoRecycling, Recycling, heapVars, listVars
    <2> QED  BY <2>1, <2>2, <2>3, <2>4, <2>5, <2>6, <2>7, <2>8, <2>9 DEF IInv
  <1> QED  BY <1>1, <1>2

LEMMA FreeAddKeeps ==
  ASSUME IInv, NoAba, NEW t \in Threads, FreeAdd(t)
  PROVE IInv'
  <1>1. TypeOK'
    BY TreiberAssumption DEF IInv, FreeAdd, Goto, TypeOK, PcValues, heapVars, listVars
  <1>2. LocalTo(t, "done")
    BY DEF FreeAdd, Goto, LocalTo, LocalMoves, heapVars, listVars
  <1> QED  BY <1>1, <1>2, LocalStep

LEMMA ReturnKeeps ==
  ASSUME IInv, NoAba, NEW t \in Threads, Return(t)
  PROVE IInv'
  <1>1. TypeOK'
    BY TreiberAssumption DEF IInv, Return, Goto, TypeOK, PcValues, heapVars, listVars
  <1>2. LocalTo(t, "idle")
    BY DEF Return, Goto, LocalTo, LocalMoves, heapVars, listVars
  <1> QED  BY <1>1, <1>2, LocalStep

-----------------------------------------------------------------------------
(* The theorems.                                                           *)

\* The three facts of the induction, and what the invariant implies.
LEMMA IInvInit == Init => IInv
  <1> SUFFICES ASSUME Init PROVE IInv
    OBVIOUS
  <1>1. TypeOK
    BY TreiberAssumption DEF Init, TypeOK, PcValues
  <1>2. Asking = {}
    BY DEF Init, Asking
  <1>3. NodesLeft
    BY <1>2, FS_EmptySet DEF Init, NodesLeft
  <1>4. Lists
    BY DEF Init, Lists, ListIn, Distinct, Elements
  <1>5. Roles /\ Owned /\ Linked /\ Taking /\ Allocating /\ NoRecycling
    BY DEF Init, Roles, Waking, Owned, Holding, Linked, Taking, Allocating, NoRecycling,
       Recycling
  <1> QED  BY <1>1, <1>3, <1>4, <1>5 DEF IInv

LEMMA IInvNext == IInv /\ NoAba /\ [Next]_vars => IInv'
  <1> SUFFICES ASSUME IInv, NoAba, [Next]_vars PROVE IInv'
    OBVIOUS
  <1>1. CASE UNCHANGED vars
    <2>1. Asking' = Asking
      BY <1>1 DEF vars, Asking
    <2> QED  BY <1>1, <2>1 DEF vars, listVars, heapVars, IInv, TypeOK, Roles, NodesLeft,
       Lists, Owned, Linked, Taking, Settled, Allocating, NoRecycling
  <1>2. ASSUME NEW t \in Threads, Wake(t) PROVE IInv'
    BY <1>2, WakeHandleKeeps, AllocFreshKeeps, AllocLoadKeeps, AllocNextKeeps,
       AllocCasKeeps, AllocSubKeeps, AllocInitKeeps, PushLoadKeeps, PushCasKeeps DEF Wake
  <1>3. ASSUME NEW t \in Threads, Take(t) PROVE IInv'
    BY <1>3, TakeScheduledTaskKeeps, TakeNullKeeps, TakeLoadKeeps, TakeNextKeeps,
       TakeCasKeeps, ReadHandleKeeps, FreeCheckKeeps, FreeLoadKeeps, FreeCasKeeps,
       FreeAddKeeps, ReturnKeeps DEF Take
  <1> QED  BY <1>1, <1>2, <1>3 DEF Next

LEMMA IInvMemory == IInv => MemoryIsStack
  <1> SUFFICES ASSUME IInv PROVE MemoryIsStack
    OBVIOUS
  <1>1. IsList(head, schedSeq) /\ IsList(fhead, freeSeq)
    BY DEF IInv, Lists, ListIn, IsList
  <1>2. /\ Cardinality(Elements(schedSeq)) = Len(schedSeq)
        /\ Cardinality(Elements(freeSeq)) = Len(freeSeq)
    BY ListSize DEF IInv, TypeOK, Lists
  <1>3. ASSUME NEW t \in Threads
        PROVE /\ Private(t) \cap (Elements(schedSeq) \cup Elements(freeSeq)) = {}
              /\ \A u \in Threads \ {t} : Private(t) \cap Private(u) = {}
    BY DEF IInv, Owned, Holding, Private
  <1> QED  BY <1>1, <1>2, <1>3 DEF IInv, Lists, MemoryIsStack

LEMMA IInvAlways == NoAba => (Spec => []IInv)
  <1> SUFFICES ASSUME NoAba PROVE Spec => []IInv
    OBVIOUS
  <1>1. IInv /\ [Next]_vars => IInv'
    BY IInvNext
  <1> QED  BY <1>1, IInvInit, PTL DEF Spec

\* Types; in particular alloc_node finds a fresh node whenever the freelist is
\* empty, and no compare_exchange stores anything but a node or null.
THEOREM TypeCorrect == NoAba => (Spec => []TypeOK)
  <1> SUFFICES ASSUME NoAba PROVE Spec => []TypeOK
    OBVIOUS
  <1>1. IInv => TypeOK
    BY DEF IInv
  <1> QED  BY <1>1, IInvAlways, PTL

\* However many threads wake and take and however often, SCHEDULE_HEAD and
\* FREELIST_HEAD lead through exactly the nodes pushed and not popped, and no node is
\* in two places, unless nodes are recycled among several threads: the only way a
\* compare_exchange of take_scheduled_task or alloc_node succeeds wrongly is that
\* the node it holds has been popped and has come back.
THEOREM ScheduleIntact == NoAba => (Spec => []MemoryIsStack)
  <1> SUFFICES ASSUME NoAba PROVE Spec => []MemoryIsStack
    OBVIOUS
  <1> QED  BY IInvAlways, IInvMemory, PTL
-----------------------------------------------------------------------------
(* The size of the freelist, for any threads: the argument counts pushes   *)
(* and pops and asks nothing of the memory.                                *)

\* The takers between their push and its fetch_add, those that have passed the
\* comparison and not pushed, and the wakers between a pop and its fetch_sub.
Adding  == {t \in Takers : pc[t] = "freeAdd"}
Linking == {t \in Takers : pc[t] \in {"freeLoad", "freeCas"}}
Subbing == {t \in Wakers : pc[t] = "allocSub"}

\* FREELIST_COUNT, were it not to wrap.
Counted == freed - Cardinality(Adding) + Cardinality(Subbing)

\* The count follows the pushes and pops, and a taker that has passed the
\* comparison has a place: at most the other takers have got ahead of it.
FreelistCounted ==
  /\ pc \in [Threads -> PcValues] /\ Roles
  /\ freed \in Int /\ fcount \in 0 .. CountSpan - 1
  /\ freed + Cardinality(Linking) <= FREELIST_MAX + Cardinality(Takers) - 1
  /\ \E k \in Int : fcount = Counted + k * CountSpan

\* How many threads there are in each place.
LEMMA Places ==
  /\ IsFiniteSet(Adding) /\ IsFiniteSet(Linking) /\ IsFiniteSet(Subbing)
  /\ Cardinality(Adding) \in Nat /\ Cardinality(Linking) \in Nat
  /\ Cardinality(Subbing) \in Nat /\ Cardinality(Subbing) <= Cardinality(Wakers)
  /\ Cardinality(Takers) \in Nat \ {0} /\ Cardinality(Wakers) \in Nat
  /\ \A t \in Takers : pc[t] = "free" =>
       Cardinality(Adding) + Cardinality(Linking) <= Cardinality(Takers) - 1
  <1>1. /\ IsFiniteSet(Takers) /\ IsFiniteSet(Wakers) /\ Takers # {}
        /\ Adding \in SUBSET Takers /\ Linking \in SUBSET Takers
        /\ Subbing \in SUBSET Wakers
    BY TreiberAssumption DEF Adding, Linking, Subbing
  <1>2. /\ IsFiniteSet(Adding) /\ IsFiniteSet(Linking) /\ IsFiniteSet(Subbing)
        /\ Cardinality(Subbing) <= Cardinality(Wakers)
    BY <1>1, FS_Subset
  <1>3. /\ Cardinality(Adding) \in Nat /\ Cardinality(Linking) \in Nat
        /\ Cardinality(Subbing) \in Nat /\ Cardinality(Wakers) \in Nat
    BY <1>1, <1>2, FS_CardinalityType
  <1>4. Cardinality(Takers) \in Nat \ {0}
    BY <1>1, FS_CardinalityType, FS_EmptySet
  <1>5. ASSUME NEW t \in Takers, pc[t] = "free"
        PROVE Cardinality(Adding) + Cardinality(Linking) <= Cardinality(Takers) - 1
    <2>1. /\ Adding \cup Linking \in SUBSET (Takers \ {t})
          /\ Adding \cap Linking = {}
      BY <1>5 DEF Adding, Linking
    <2>2. /\ IsFiniteSet(Takers \ {t})
          /\ Cardinality(Takers \ {t}) = Cardinality(Takers) - 1
      BY <1>1, FS_RemoveElement
    <2>3. Cardinality(Adding \cup Linking) <= Cardinality(Takers) - 1
      BY <2>1, <2>2, FS_Subset
    <2>4. Cardinality(Adding \cup Linking) = Cardinality(Adding) + Cardinality(Linking)
      <3>1. Cardinality(Adding \cap Linking) = 0
        BY <2>1, FS_EmptySet
      <3>2. Cardinality(Adding \cup Linking)
              = Cardinality(Adding) + Cardinality(Linking) - Cardinality(Adding \cap Linking)
        BY <1>2, FS_Union
      <3> QED  BY <3>1, <3>2, <1>3
    <2> QED  BY <2>3, <2>4
  <1> QED  BY <1>1, <1>2, <1>3, <1>4, <1>5

\* A step of t that enters or leaves none of the places, or moves within one.
LEMMA CountFrame ==
  ASSUME FreelistCounted, NEW t \in Threads, NEW y \in PcValues,
         pc' = [pc EXCEPT ![t] = y], UNCHANGED <<fcount, freed>>, Roles',
         pc[t] \notin {"allocSub", "freeAdd"}, y \notin {"allocSub", "freeAdd"},
         y \in {"freeLoad", "freeCas"} => pc[t] \in {"freeLoad", "freeCas"}
  PROVE FreelistCounted'
  <1>1. Adding' = Adding /\ Subbing' = Subbing
    BY DEF FreelistCounted, Adding, Subbing, Threads
  <1>2. Linking' \in SUBSET Linking
    BY DEF FreelistCounted, Linking, Threads
  <1>3. Cardinality(Linking') <= Cardinality(Linking) /\ Cardinality(Linking') \in Nat
    BY <1>2, Places, FS_Subset, FS_CardinalityType
  <1>4. Counted' = Counted
    BY <1>1 DEF Counted
  <1>5. pc' \in [Threads -> PcValues]
    BY DEF FreelistCounted
  <1>6. freed + Cardinality(Linking') <= FREELIST_MAX + Cardinality(Takers) - 1
    BY <1>3, Places, TreiberAssumption DEF FreelistCounted
  <1> QED  BY <1>4, <1>5, <1>6 DEF FreelistCounted

LEMMA AllocCasCounts ==
  ASSUME FreelistCounted, NEW t \in Threads, AllocCas(t)
  PROVE FreelistCounted'
  <1>0. t \in Wakers /\ Roles'
    BY DEF FreelistCounted, Roles, AllocCas, Goto, Waking
  <1>1. CASE fhead # hd[t]
    <2>1. /\ pc' = [pc EXCEPT ![t] = "alloc"] /\ pc[t] = "allocCas"
          /\ UNCHANGED <<fcount, freed>>
      BY <1>1 DEF AllocCas, Goto
    <2> QED  BY <1>0, <2>1, CountFrame DEF PcValues
  <1>2. CASE fhead = hd[t]
    <2>1. /\ pc' = [pc EXCEPT ![t] = "allocSub"] /\ pc[t] = "allocCas"
          /\ fcount' = fcount /\ freed' = freed - 1
      BY <1>2 DEF AllocCas, Goto
    <2>2. /\ Adding' = Adding /\ Linking' = Linking
          /\ Subbing' = Subbing \cup {t} /\ t \notin Subbing
      BY <1>0, <2>1 DEF FreelistCounted, Adding, Linking, Subbing, Threads
    <2>3. Cardinality(Subbing') = Cardinality(Subbing) + 1
      BY <2>2, Places, FS_AddElement
    <2>4. Counted' = Counted
      BY <2>1, <2>2, <2>3, Places DEF FreelistCounted, Counted
    <2>5. /\ pc' \in [Threads -> PcValues] /\ freed' \in Int /\ fcount' = fcount
      BY <2>1 DEF FreelistCounted, PcValues
    <2>6. freed' + Cardinality(Linking') <= FREELIST_MAX + Cardinality(Takers) - 1
      BY <2>1, <2>2, Places, TreiberAssumption DEF FreelistCounted
    <2> QED  BY <1>0, <2>4, <2>5, <2>6 DEF FreelistCounted
  <1> QED  BY <1>1, <1>2

\* fetch_sub and fetch_add, with their wrap.
LEMMA CountMoves ==
  ASSUME NEW n \in Nat \ {0}, NEW f \in 0 .. n - 1
  PROVE /\ (f + n - 1) % n = IF f = 0 THEN f - 1 + n ELSE f - 1
        /\ (f + 1) % n = IF f = n - 1 THEN f + 1 - n ELSE f + 1
  OBVIOUS

LEMMA AllocSubCounts ==
  ASSUME FreelistCounted, NEW t \in Threads, AllocSub(t)
  PROVE FreelistCounted'
  <1>1. /\ pc' = [pc EXCEPT ![t] = "allocInit"] /\ pc[t] = "allocSub" /\ t \in Wakers
        /\ fcount' = (fcount + CountSpan - 1) % CountSpan /\ freed' = freed /\ Roles'
    BY DEF AllocSub, Goto, FreelistCounted, Roles, Waking
  <1>2. /\ Adding' = Adding /\ Linking' = Linking
        /\ Subbing' = Subbing \ {t} /\ t \in Subbing
    BY <1>1 DEF FreelistCounted, Adding, Linking, Subbing, Threads
  <1>3. Cardinality(Subbing') = Cardinality(Subbing) - 1
    BY <1>2, Places, FS_RemoveElement
  <1>4. Counted' = Counted - 1 /\ Counted \in Int
    BY <1>1, <1>2, <1>3, Places DEF FreelistCounted, Counted
  <1>5. /\ fcount \in 0 .. CountSpan - 1 /\ CountSpan \in Nat
        /\ fcount' = IF fcount = 0 THEN fcount - 1 + CountSpan ELSE fcount - 1
    BY <1>1, CountMoves, TreiberAssumption DEF FreelistCounted
  <1>6. fcount' \in 0 .. CountSpan - 1 /\ fcount' \in {fcount - 1, fcount - 1 + CountSpan}
    BY <1>5
  <1>7. PICK k \in Int : fcount = Counted + k * CountSpan
    BY DEF FreelistCounted
  <1>8. \E j \in Int : fcount' = (Counted - 1) + j * CountSpan
    <2>1. /\ k + 1 \in Int /\ (k + 1) * CountSpan = k * CountSpan + CountSpan
          /\ k * CountSpan \in Int
      BY <1>5
    <2>2. CASE fcount' = fcount - 1
      BY <2>2, <2>1, <1>4, <1>7
    <2>3. CASE fcount' = fcount - 1 + CountSpan
      BY <2>3, <2>1, <1>4, <1>5, <1>7
    <2> QED  BY <2>2, <2>3, <1>6
  <1>9. pc' \in [Threads -> PcValues]
    BY <1>1 DEF FreelistCounted, PcValues
  <1> QED  BY <1>1, <1>2, <1>4, <1>6, <1>8, <1>9 DEF FreelistCounted

\* The comparison is with a count that is behind by the takers that have pushed
\* and not counted, and never ahead of the freelist but for the wakers' pops.
LEMMA FreeCheckCounts ==
  ASSUME FreelistCounted, NEW t \in Threads, FreeCheck(t)
  PROVE FreelistCounted'
  <1>1. /\ pc' = [pc EXCEPT ![t] = IF fcount < FREELIST_MAX THEN "freeLoad" ELSE "done"]
        /\ pc[t] = "free" /\ t \in Takers /\ UNCHANGED <<fcount, freed>> /\ Roles'
    BY DEF FreeCheck, Goto, FreelistCounted, Roles, Waking, listVars
  <1>2. CASE ~(fcount < FREELIST_MAX)
    BY <1>1, <1>2, CountFrame DEF PcValues
  <1>3. CASE fcount < FREELIST_MAX
    <2>1. /\ Adding' = Adding /\ Subbing' = Subbing
          /\ Linking' = Linking \cup {t} /\ t \notin Linking
      BY <1>1, <1>3 DEF FreelistCounted, Adding, Linking, Subbing, Threads
    <2>2. Cardinality(Linking') = Cardinality(Linking) + 1
      BY <2>1, Places, FS_AddElement
    <2>3. Counted' = Counted /\ Counted \in Int
      BY <1>1, <2>1, Places DEF FreelistCounted, Counted
    <2>4. Counted < FREELIST_MAX
      <3>1. Counted < CountSpan
        BY Places, TreiberAssumption DEF FreelistCounted, Counted
      <3>2. PICK k \in Int : fcount = Counted + k * CountSpan
        BY DEF FreelistCounted
      <3>3. fcount \in Nat /\ CountSpan \in Nat \ {0} /\ FREELIST_MAX \in Nat
        BY TreiberAssumption DEF FreelistCounted
      <3>4. CASE k >= 0
        <4>1. k * CountSpan >= 0
          BY <3>3, <3>4
        <4> QED  BY <4>1, <2>3, <3>2, <3>3, <1>3
      <3>5. CASE k <= -1
        <4>1. k * CountSpan <= (-1) * CountSpan
          BY <3>3, <3>5
        <4> QED  BY <4>1, <2>3, <3>1, <3>2, <3>3
      <3> QED  BY <3>4, <3>5
    <2>5. Cardinality(Adding) + Cardinality(Linking) <= Cardinality(Takers) - 1
      BY <1>1, Places
    <2>6. freed + Cardinality(Linking') <= FREELIST_MAX + Cardinality(Takers) - 1
      BY <2>2, <2>4, <2>5, Places, TreiberAssumption DEF FreelistCounted, Counted
    <2>7. pc' \in [Threads -> PcValues]
      BY <1>1 DEF FreelistCounted, PcValues
    <2> QED  BY <1>1, <2>3, <2>6, <2>7 DEF FreelistCounted
  <1> QED  BY <1>2, <1>3

LEMMA FreeCasCounts ==
  ASSUME FreelistCounted, NEW t \in Threads, FreeCas(t)
  PROVE FreelistCounted'
  <1>0. t \in Takers /\ Roles' /\ pc[t] = "freeCas"
    BY DEF FreelistCounted, Roles, FreeCas, Goto, Waking
  <1>1. CASE fhead # hd[t]
    <2>1. pc' = [pc EXCEPT ![t] = "freeLoad"] /\ UNCHANGED <<fcount, freed>>
      BY <1>1 DEF FreeCas, Goto
    <2> QED  BY <1>0, <2>1, CountFrame DEF PcValues
  <1>2. CASE fhead = hd[t]
    <2>1. /\ pc' = [pc EXCEPT ![t] = "freeAdd"]
          /\ fcount' = fcount /\ freed' = freed + 1
      BY <1>2 DEF FreeCas, Goto
    <2>2. /\ Subbing' = Subbing
          /\ Linking' = Linking \ {t} /\ t \in Linking
          /\ Adding' = Adding \cup {t} /\ t \notin Adding
      BY <1>0, <2>1 DEF FreelistCounted, Adding, Linking, Subbing, Threads
    <2>3. /\ Cardinality(Adding') = Cardinality(Adding) + 1
          /\ Cardinality(Linking') = Cardinality(Linking) - 1
      BY <2>2, Places, FS_AddElement, FS_RemoveElement
    <2>4. Counted' = Counted
      BY <2>1, <2>2, <2>3, Places DEF FreelistCounted, Counted
    <2>5. pc' \in [Threads -> PcValues] /\ freed' \in Int
      BY <2>1 DEF FreelistCounted, PcValues
    <2>6. freed' + Cardinality(Linking') <= FREELIST_MAX + Cardinality(Takers) - 1
      BY <2>1, <2>3, Places, TreiberAssumption DEF FreelistCounted
    <2> QED  BY <1>0, <2>1, <2>4, <2>5, <2>6 DEF FreelistCounted
  <1> QED  BY <1>1, <1>2

LEMMA FreeAddCounts ==
  ASSUME FreelistCounted, NEW t \in Threads, FreeAdd(t)
  PROVE FreelistCounted'
  <1>1. /\ pc' = [pc EXCEPT ![t] = "done"] /\ pc[t] = "freeAdd" /\ t \in Takers
        /\ fcount' = (fcount + 1) % CountSpan /\ freed' = freed /\ Roles'
    BY DEF FreeAdd, Goto, FreelistCounted, Roles, Waking
  <1>2. /\ Subbing' = Subbing /\ Linking' = Linking
        /\ Adding' = Adding \ {t} /\ t \in Adding
    BY <1>1 DEF FreelistCounted, Adding, Linking, Subbing, Threads
  <1>3. Cardinality(Adding') = Cardinality(Adding) - 1
    BY <1>2, Places, FS_RemoveElement
  <1>4. Counted' = Counted + 1 /\ Counted \in Int
    BY <1>1, <1>2, <1>3, Places DEF FreelistCounted, Counted
  <1>5. /\ fcount \in 0 .. CountSpan - 1 /\ CountSpan \in Nat
        /\ fcount' = IF fcount = CountSpan - 1 THEN fcount + 1 - CountSpan ELSE fcount + 1
    BY <1>1, CountMoves, TreiberAssumption DEF FreelistCounted
  <1>6. fcount' \in 0 .. CountSpan - 1 /\ fcount' \in {fcount + 1, fcount + 1 - CountSpan}
    BY <1>5
  <1>7. PICK k \in Int : fcount = Counted + k * CountSpan
    BY DEF FreelistCounted
  <1>8. \E j \in Int : fcount' = (Counted + 1) + j * CountSpan
    <2>1. /\ k - 1 \in Int /\ (k - 1) * CountSpan = k * CountSpan - CountSpan
          /\ k * CountSpan \in Int
      BY <1>5
    <2>2. CASE fcount' = fcount + 1
      BY <2>2, <2>1, <1>4, <1>7
    <2>3. CASE fcount' = fcount + 1 - CountSpan
      BY <2>3, <2>1, <1>4, <1>5, <1>7
    <2> QED  BY <2>2, <2>3, <1>6
  <1>9. pc' \in [Threads -> PcValues]
    BY <1>1 DEF FreelistCounted, PcValues
  <1> QED  BY <1>1, <1>2, <1>4, <1>6, <1>8, <1>9 DEF FreelistCounted

\* The other steps leave the freelist and its count alone.
LEMMA OthersCount ==
  ASSUME FreelistCounted, NEW t \in Threads,
         \/ WakeHandle(t) \/ AllocFresh(t) \/ AllocLoad(t) \/ AllocNext(t)
         \/ AllocInit(t) \/ PushLoad(t) \/ PushCas(t)
         \/ TakeScheduledTask(t) \/ TakeNull(t) \/ TakeLoad(t) \/ TakeNext(t)
         \/ TakeCas(t) \/ ReadHandle(t) \/ FreeLoad(t) \/ Return(t)
  PROVE FreelistCounted'
  <1>1. UNCHANGED <<fcount, freed>> /\ pc[t] \notin {"allocSub", "freeAdd"}
    BY DEF WakeHandle, AllocFresh, AllocLoad, AllocNext, AllocInit, PushLoad, PushCas,
       TakeScheduledTask, TakeNull, TakeLoad, TakeNext, TakeCas, ReadHandle, FreeLoad,
       Return, Goto, listVars
  <1>2. PICK y \in PcValues :
          /\ pc' = [pc EXCEPT ![t] = y] /\ y \notin {"allocSub", "freeAdd"}
          /\ y \in {"freeLoad", "freeCas"} => pc[t] \in {"freeLoad", "freeCas"}
          /\ y \in Waking => t \in Wakers
          /\ y \notin Waking \cup {"idle"} => t \in Takers
    BY DEF WakeHandle, AllocFresh, AllocLoad, AllocNext, AllocInit, PushLoad, PushCas,
       TakeScheduledTask, TakeNull, TakeLoad, TakeNext, TakeCas, ReadHandle, FreeLoad,
       Return, Goto, PcValues, FreelistCounted, Roles, Waking
  <1>3. Roles'
    BY <1>2 DEF FreelistCounted, Roles
  <1> QED  BY <1>1, <1>2, <1>3, CountFrame

\* However many threads wake and take, free_node overfills the freelist by at most one
\* node for each taker but one, although it reads FREELIST_COUNT before it pushes
\* and counts afterwards, although alloc_node can take the count below zero in between
\* and whatever the ABA problem has done to the list.
THEOREM FreelistStaysSmall == Spec => []FreelistBounded
  <1>1. Init => FreelistCounted
    <2> SUFFICES ASSUME Init PROVE FreelistCounted
      OBVIOUS
    <2>1. pc \in [Threads -> PcValues] /\ Roles /\ freed = 0 /\ fcount = 0
      BY DEF Init, Roles, PcValues, Waking
    <2>2. Adding = {} /\ Linking = {} /\ Subbing = {}
      BY DEF Init, Adding, Linking, Subbing, Threads
    <2>3. Counted = 0 /\ Cardinality(Linking) = 0
      BY <2>1, <2>2, FS_EmptySet DEF Counted
    <2>4. 0 \in Int /\ fcount = Counted + 0 * CountSpan
      BY <2>1, <2>3, TreiberAssumption
    <2> QED  BY <2>1, <2>3, <2>4, Places, TreiberAssumption DEF FreelistCounted
  <1>2. FreelistCounted /\ [Next]_vars => FreelistCounted'
    <2> SUFFICES ASSUME FreelistCounted, [Next]_vars PROVE FreelistCounted'
      OBVIOUS
    <2>1. CASE UNCHANGED vars
      BY <2>1 DEF vars, listVars, FreelistCounted, Counted, Adding, Linking, Subbing, Roles
    <2>2. ASSUME NEW t \in Threads, Wake(t) PROVE FreelistCounted'
      BY <2>2, AllocCasCounts, AllocSubCounts, OthersCount DEF Wake
    <2>3. ASSUME NEW t \in Threads, Take(t) PROVE FreelistCounted'
      BY <2>3, FreeCheckCounts, FreeCasCounts, FreeAddCounts, OthersCount DEF Take
    <2> QED  BY <2>1, <2>2, <2>3 DEF Next
  <1>3. FreelistCounted => FreelistBounded
    BY Places, TreiberAssumption DEF FreelistCounted, FreelistBounded
  <1> QED  BY <1>1, <1>2, <1>3, PTL DEF Spec

-----------------------------------------------------------------------------
(* Where NoAba holds Treiber implements TaskStack: a push takes            *)
(* effect at its compare_exchange, a take at its own, and every other step *)
(* is invisible.                                                           *)

Returning == {"free", "freeLoad", "freeCas", "freeAdd", "done"}

\* The refinement mapping, thread by thread.
StackBar == [i \in DOMAIN schedSeq |-> handleOf[schedSeq[i]]]
WakingOf(t) == IF pc[t] \in Waking THEN h[t] ELSE 0
GotOf(t) ==
  CASE pc[t] = "none" -> Null
    [] pc[t] = "read" -> handleOf[nd[t]]
    [] pc[t] \in {"free", "freeLoad", "freeCas", "freeAdd", "done"} -> h[t]
    [] OTHER -> 0

\* Handles that are pushed, scheduled or returned are handles, and a node that is
\* being pushed carries the handle of its wake.
HandlesKept ==
  /\ \A n \in Elements(schedSeq) : handleOf[n] \in Handles
  /\ \A t \in Threads :
       /\ pc[t] \in Waking => h[t] \in Handles
       /\ pc[t] \in {"push", "pushCas"} => handleOf[nd[t]] = h[t]
       /\ pc[t] = "read" => handleOf[nd[t]] \in Handles
       /\ pc[t] \in Returning => h[t] \in Handles

LEMMA HandlesInit == Init => HandlesKept
  BY DEF Init, HandlesKept, Elements, Waking, Returning

LEMMA HandlesStep ==
  ASSUME IInv, IInv', NoAba, HandlesKept, NEW t \in Threads, Wake(t) \/ Take(t)
  PROVE HandlesKept'
  <1>1. CASE WakeHandle(t)
    BY <1>1, Handed, TreiberAssumption DEF IInv, TypeOK, WakeHandle, Goto, HandlesKept,
       Waking, Returning, Owned, Holding, Lists, Handles, heapVars, listVars
  <1>2. CASE AllocFresh(t)
    BY <1>2, Handed, TreiberAssumption DEF IInv, TypeOK, AllocFresh, Goto, HandlesKept,
       Waking, Returning, Owned, Holding, Lists, Handles, heapVars, listVars
  <1>3. CASE AllocLoad(t)
    BY <1>3, Handed, TreiberAssumption DEF IInv, TypeOK, AllocLoad, Goto, HandlesKept,
       Waking, Returning, Owned, Holding, Lists, Handles, heapVars, listVars
  <1>4. CASE AllocNext(t)
    BY <1>4, Handed, TreiberAssumption DEF IInv, TypeOK, AllocNext, Goto, HandlesKept,
       Waking, Returning, Owned, Holding, Lists, Handles, heapVars, listVars
  <1>5. CASE AllocCas(t)
    BY <1>5, Handed, TreiberAssumption DEF IInv, TypeOK, AllocCas, Goto, HandlesKept,
       Waking, Returning, Owned, Holding, Lists, Handles, heapVars, listVars
  <1>6. CASE AllocSub(t)
    BY <1>6, Handed, TreiberAssumption DEF IInv, TypeOK, AllocSub, Goto, HandlesKept,
       Waking, Returning, Owned, Holding, Lists, Handles, heapVars, listVars
  <1>7. CASE AllocInit(t)
    BY <1>7, Handed, TreiberAssumption DEF IInv, TypeOK, AllocInit, Goto, HandlesKept,
       Waking, Returning, Owned, Holding, Lists, Handles, heapVars, listVars
  <1>8. CASE PushLoad(t)
    BY <1>8, Handed, TreiberAssumption DEF IInv, TypeOK, PushLoad, Goto, HandlesKept,
       Waking, Returning, Owned, Holding, Lists, Handles, heapVars, listVars
  <1>9. CASE PushCas(t)
    <2>1. CASE head = hd[t]
      <3>1. /\ schedSeq' = <<nd[t]>> \o schedSeq /\ UNCHANGED <<nd, h, handleOf>>
            /\ pc' = [pc EXCEPT ![t] = "idle"] /\ pc[t] = "pushCas"
        BY <1>9, <2>1 DEF PushCas, Goto, heapVars
      <3>2. Elements(schedSeq') = Elements(schedSeq) \cup {nd[t]}
        BY <1>9, <2>1, <3>1, PushCasSucceeds
      <3> QED  BY <3>1, <3>2 DEF IInv, TypeOK, HandlesKept, Waking, Returning
    <2>2. CASE head # hd[t]
      BY <1>9, <2>2 DEF IInv, TypeOK, PushCas, Goto, HandlesKept, Waking, Returning,
         heapVars
    <2> QED  BY <2>1, <2>2
  <1>10. CASE TakeScheduledTask(t)
    BY <1>10, Handed, TreiberAssumption DEF IInv, TypeOK, TakeScheduledTask, Goto,
       HandlesKept, Waking, Returning, Owned, Holding, Lists, Handles, heapVars,
       listVars
  <1>11. CASE TakeNull(t)
    BY <1>11, Handed, TreiberAssumption DEF IInv, TypeOK, TakeNull, Goto, HandlesKept,
       Waking, Returning, Owned, Holding, Lists, Handles, heapVars, listVars
  <1>12. CASE TakeLoad(t)
    BY <1>12, Handed, TreiberAssumption DEF IInv, TypeOK, TakeLoad, Goto, HandlesKept,
       Waking, Returning, Owned, Holding, Lists, Handles, heapVars, listVars
  <1>13. CASE TakeNext(t)
    BY <1>13, Handed, TreiberAssumption DEF IInv, TypeOK, TakeNext, Goto, HandlesKept,
       Waking, Returning, Owned, Holding, Lists, Handles, heapVars, listVars
  <1>14. CASE TakeCas(t)
    <2>1. CASE head = hd[t]
      <3>1. /\ schedSeq' = Tail(schedSeq) /\ nd' = [nd EXCEPT ![t] = hd[t]]
            /\ UNCHANGED <<h, handleOf>>
            /\ pc' = [pc EXCEPT ![t] = "read"] /\ pc[t] = "takeCas"
        BY <1>14, <2>1, TakeCasSucceeds DEF TakeCas, Goto, Rest, heapVars
      <3>2. hd[t] \in Elements(schedSeq) /\ Elements(schedSeq') \subseteq Elements(schedSeq)
        BY <1>14, <2>1, <3>1, TakeCasSucceeds
      <3> QED  BY <3>1, <3>2 DEF IInv, TypeOK, HandlesKept, Waking, Returning
    <2>2. CASE head # hd[t]
      BY <1>14, <2>2 DEF IInv, TypeOK, TakeCas, Goto, HandlesKept, Waking, Returning,
         heapVars
    <2> QED  BY <2>1, <2>2
  <1>15. CASE ReadHandle(t)
    BY <1>15, Handed, TreiberAssumption DEF IInv, TypeOK, ReadHandle, Goto, HandlesKept,
       Waking, Returning, Owned, Holding, Lists, Handles, heapVars, listVars
  <1>16. CASE FreeCheck(t)
    BY <1>16, Handed, TreiberAssumption DEF IInv, TypeOK, FreeCheck, Goto, HandlesKept,
       Waking, Returning, Owned, Holding, Lists, Handles, heapVars, listVars
  <1>17. CASE FreeLoad(t)
    BY <1>17, Handed, TreiberAssumption DEF IInv, TypeOK, FreeLoad, Goto, HandlesKept,
       Waking, Returning, Owned, Holding, Lists, Handles, heapVars, listVars
  <1>18. CASE FreeCas(t)
    BY <1>18, Handed, TreiberAssumption DEF IInv, TypeOK, FreeCas, Goto, HandlesKept,
       Waking, Returning, Owned, Holding, Lists, Handles, heapVars, listVars
  <1>19. CASE FreeAdd(t)
    BY <1>19, Handed, TreiberAssumption DEF IInv, TypeOK, FreeAdd, Goto, HandlesKept,
       Waking, Returning, Owned, Holding, Lists, Handles, heapVars, listVars
  <1>20. CASE Return(t)
    BY <1>20, Handed, TreiberAssumption DEF IInv, TypeOK, Return, Goto, HandlesKept,
       Waking, Returning, Owned, Holding, Lists, Handles, heapVars, listVars
  <1> QED  BY <1>1, <1>2, <1>3, <1>4, <1>5, <1>6, <1>7, <1>8, <1>9, <1>10, <1>11, <1>12,
     <1>13, <1>14, <1>15, <1>16, <1>17, <1>18, <1>19, <1>20 DEF Wake, Take

\* Pushing on and popping off a sequence of nodes does so on their handles.
LEMMA MapPush ==
  ASSUME NEW V, NEW f \in [Nodes -> V], NEW s \in Seq(Nodes), NEW n \in Nodes
  PROVE [i \in DOMAIN (<<n>> \o s) |-> f[(<<n>> \o s)[i]]] =
          <<f[n]>> \o [i \in DOMAIN s |-> f[s[i]]]
  <1> DEFINE q == <<n>> \o s
             m == [i \in DOMAIN s |-> f[s[i]]]
             r == <<f[n]>> \o m
  <1>1. m \in Seq(V) /\ Len(m) = Len(s)
    OBVIOUS
  <1>2. /\ q \in Seq(Nodes) /\ Len(q) = Len(s) + 1
        /\ DOMAIN q = 1 .. Len(s) + 1 /\ DOMAIN s = 1 .. Len(s)
        /\ q[1] = n /\ \A i \in 2 .. Len(s) + 1 : q[i] = s[i - 1]
    OBVIOUS
  <1>3. /\ r \in Seq(V) /\ Len(r) = Len(s) + 1 /\ DOMAIN r = 1 .. Len(s) + 1
        /\ r[1] = f[n] /\ \A i \in 2 .. Len(s) + 1 : r[i] = m[i - 1]
    BY <1>1
  <1>4. \A i \in 2 .. Len(s) + 1 : r[i] = f[q[i]]
    BY <1>2, <1>3
  <1>5. \A i \in DOMAIN r : r[i] = f[q[i]]
    BY <1>2, <1>3, <1>4
  <1>6. r = [i \in DOMAIN r |-> r[i]]
    BY <1>3
  <1> QED  BY <1>2, <1>3, <1>5, <1>6

LEMMA MapTail ==
  ASSUME NEW V, NEW f \in [Nodes -> V], NEW s \in Seq(Nodes), s # <<>>
  PROVE /\ [i \in DOMAIN s |-> f[s[i]]] # <<>>
        /\ Head([i \in DOMAIN s |-> f[s[i]]]) = f[s[1]]
        /\ [i \in DOMAIN Tail(s) |-> f[Tail(s)[i]]] = Tail([i \in DOMAIN s |-> f[s[i]]])
  <1> DEFINE m == [i \in DOMAIN s |-> f[s[i]]]
             q == Tail(s)
             r == Tail(m)
  <1>1. m \in Seq(V) /\ Len(m) = Len(s) /\ m # <<>> /\ Head(m) = f[s[1]]
    OBVIOUS
  <1>2. /\ q \in Seq(Nodes) /\ DOMAIN q = 1 .. Len(s) - 1 /\ DOMAIN s = 1 .. Len(s)
        /\ \A i \in 1 .. Len(s) - 1 : q[i] = s[i + 1]
    OBVIOUS
  <1>3. /\ r \in Seq(V) /\ DOMAIN r = 1 .. Len(s) - 1
        /\ \A i \in 1 .. Len(s) - 1 : r[i] = m[i + 1]
    BY <1>1
  <1>4. \A i \in DOMAIN r : r[i] = f[q[i]]
    BY <1>2, <1>3
  <1>5. r = [i \in DOMAIN r |-> r[i]]
    BY <1>3
  <1> QED  BY <1>1, <1>2, <1>3, <1>4, <1>5

\* A step that no thread's part of the mapping shows is a stutter.
LEMMA Stutters ==
  ASSUME UNCHANGED schedSeq, \A n \in Elements(schedSeq) : handleOf'[n] = handleOf[n],
         \A u \in Threads : WakingOf(u)' = WakingOf(u) /\ GotOf(u)' = GotOf(u)
  PROVE UNCHANGED Stack!vars
  <1>1. StackBar' = StackBar
    BY DEF StackBar, Elements
  <1> QED  BY <1>1 DEF Stack!vars, StackBar, WakingOf, GotOf

\* Each action is a step of TaskStack or a stutter.
LEMMA Simulates ==
  ASSUME IInv, NoAba, HandlesKept, NEW t \in Threads, Wake(t) \/ Take(t)
  PROVE Stack!Next \/ UNCHANGED Stack!vars
  <1>1. CASE WakeHandle(t)
    <2>1. /\ WakingOf(t) = 0 /\ WakingOf(t)' \in Handles
          /\ UNCHANGED StackBar
          /\ \A u \in Threads : GotOf(u)' = GotOf(u)
          /\ \A u \in Threads \ {t} : WakingOf(u)' = WakingOf(u)
      BY <1>1, TreiberAssumption DEF WakeHandle, Goto, IInv, TypeOK, WakingOf, GotOf,
         StackBar, Waking, Handles, heapVars
    <2>2. Stack!Call(t)
      BY <2>1 DEF Stack!Call, StackBar, WakingOf, GotOf
    <2> QED  BY <2>2 DEF Stack!Next
  <1>2. CASE AllocFresh(t)
    <2>1. /\ UNCHANGED schedSeq
          /\ \A n \in Elements(schedSeq) : handleOf'[n] = handleOf[n]
      BY <1>2, Handed DEF AllocFresh, Goto, IInv, TypeOK, Owned, Holding, Lists,
         heapVars
    <2>2. \A u \in Threads : WakingOf(u)' = WakingOf(u) /\ GotOf(u)' = GotOf(u)
      BY <1>2, Handed DEF AllocFresh, Goto, IInv, TypeOK, Owned, Holding, WakingOf,
         GotOf, Waking, heapVars
    <2> QED  BY <2>1, <2>2, Stutters
  <1>3. CASE AllocLoad(t)
    <2>1. /\ UNCHANGED schedSeq
          /\ \A n \in Elements(schedSeq) : handleOf'[n] = handleOf[n]
      BY <1>3, Handed DEF AllocLoad, Goto, IInv, TypeOK, Owned, Holding, Lists, heapVars
    <2>2. \A u \in Threads : WakingOf(u)' = WakingOf(u) /\ GotOf(u)' = GotOf(u)
      BY <1>3, Handed DEF AllocLoad, Goto, IInv, TypeOK, Owned, Holding, WakingOf,
         GotOf, Waking, heapVars
    <2> QED  BY <2>1, <2>2, Stutters
  <1>4. CASE AllocNext(t)
    <2>1. /\ UNCHANGED schedSeq
          /\ \A n \in Elements(schedSeq) : handleOf'[n] = handleOf[n]
      BY <1>4, Handed DEF AllocNext, Goto, IInv, TypeOK, Owned, Holding, Lists, heapVars
    <2>2. \A u \in Threads : WakingOf(u)' = WakingOf(u) /\ GotOf(u)' = GotOf(u)
      BY <1>4, Handed DEF AllocNext, Goto, IInv, TypeOK, Owned, Holding, WakingOf,
         GotOf, Waking, heapVars
    <2> QED  BY <2>1, <2>2, Stutters
  <1>5. CASE AllocCas(t)
    <2>1. /\ UNCHANGED schedSeq
          /\ \A n \in Elements(schedSeq) : handleOf'[n] = handleOf[n]
      BY <1>5, Handed DEF AllocCas, Goto, IInv, TypeOK, Owned, Holding, Lists, heapVars
    <2>2. \A u \in Threads : WakingOf(u)' = WakingOf(u) /\ GotOf(u)' = GotOf(u)
      BY <1>5, Handed DEF AllocCas, Goto, IInv, TypeOK, Owned, Holding, WakingOf, GotOf,
         Waking, heapVars
    <2> QED  BY <2>1, <2>2, Stutters
  <1>6. CASE AllocSub(t)
    <2>1. /\ UNCHANGED schedSeq
          /\ \A n \in Elements(schedSeq) : handleOf'[n] = handleOf[n]
      BY <1>6, Handed DEF AllocSub, Goto, IInv, TypeOK, Owned, Holding, Lists, heapVars
    <2>2. \A u \in Threads : WakingOf(u)' = WakingOf(u) /\ GotOf(u)' = GotOf(u)
      BY <1>6, Handed DEF AllocSub, Goto, IInv, TypeOK, Owned, Holding, WakingOf, GotOf,
         Waking, heapVars
    <2> QED  BY <2>1, <2>2, Stutters
  <1>7. CASE AllocInit(t)
    <2>1. /\ UNCHANGED schedSeq
          /\ \A n \in Elements(schedSeq) : handleOf'[n] = handleOf[n]
      BY <1>7, Handed DEF AllocInit, Goto, IInv, TypeOK, Owned, Holding, Lists, heapVars
    <2>2. \A u \in Threads : WakingOf(u)' = WakingOf(u) /\ GotOf(u)' = GotOf(u)
      BY <1>7, Handed DEF AllocInit, Goto, IInv, TypeOK, Owned, Holding, WakingOf,
         GotOf, Waking, heapVars
    <2> QED  BY <2>1, <2>2, Stutters
  <1>8. CASE PushLoad(t)
    <2>1. /\ UNCHANGED schedSeq
          /\ \A n \in Elements(schedSeq) : handleOf'[n] = handleOf[n]
      BY <1>8, Handed DEF PushLoad, Goto, IInv, TypeOK, Owned, Holding, Lists, heapVars
    <2>2. \A u \in Threads : WakingOf(u)' = WakingOf(u) /\ GotOf(u)' = GotOf(u)
      BY <1>8, Handed DEF PushLoad, Goto, IInv, TypeOK, Owned, Holding, WakingOf, GotOf,
         Waking, heapVars
    <2> QED  BY <2>1, <2>2, Stutters
  <1>9. CASE PushCas(t)
    <2>1. CASE head = hd[t]
      <3>1. /\ schedSeq' = <<nd[t]>> \o schedSeq /\ UNCHANGED <<nd, h, handleOf>>
            /\ pc' = [pc EXCEPT ![t] = "idle"] /\ pc[t] = "pushCas"
        BY <1>9, <2>1 DEF PushCas, Goto, heapVars
      <3>2. nd[t] \in Nodes
        BY <1>9, <2>1, PushCasSucceeds
      <3>3. /\ WakingOf(t) = handleOf[nd[t]] /\ WakingOf(t) # 0 /\ WakingOf(t)' = 0
            /\ \A u \in Threads : GotOf(u)' = GotOf(u)
            /\ \A u \in Threads \ {t} : WakingOf(u)' = WakingOf(u)
        BY <3>1 DEF IInv, TypeOK, WakingOf, GotOf, Waking, HandlesKept, Handles
      <3>4. StackBar' = <<WakingOf(t)>> \o StackBar
        <4>1. [i \in DOMAIN (<<nd[t]>> \o schedSeq) |-> handleOf[(<<nd[t]>> \o schedSeq)[i]]]
                = <<handleOf[nd[t]]>> \o [i \in DOMAIN schedSeq |-> handleOf[schedSeq[i]]]
          BY <3>2, MapPush DEF IInv, TypeOK
        <4> QED  BY <4>1, <3>1, <3>3 DEF StackBar
      <3>5. Stack!Push(t)
        BY <3>3, <3>4 DEF Stack!Push, StackBar, WakingOf, GotOf
      <3> QED  BY <3>5 DEF Stack!Next
    <2>2. CASE head # hd[t]
      <3>1. UNCHANGED <<schedSeq, handleOf>>
        BY <1>9, <2>2 DEF PushCas, heapVars
      <3>2. \A u \in Threads : WakingOf(u)' = WakingOf(u) /\ GotOf(u)' = GotOf(u)
        BY <1>9, <2>2 DEF PushCas, Goto, IInv, TypeOK, WakingOf, GotOf, Waking, heapVars
      <3> QED  BY <3>1, <3>2, Stutters
    <2> QED  BY <2>1, <2>2
  <1>10. CASE TakeScheduledTask(t)
    <2>1. /\ UNCHANGED schedSeq
          /\ \A n \in Elements(schedSeq) : handleOf'[n] = handleOf[n]
      BY <1>10, Handed DEF TakeScheduledTask, Goto, IInv, TypeOK, Owned, Holding, Lists,
         heapVars
    <2>2. \A u \in Threads : WakingOf(u)' = WakingOf(u) /\ GotOf(u)' = GotOf(u)
      BY <1>10, Handed DEF TakeScheduledTask, Goto, IInv, TypeOK, Owned, Holding,
         WakingOf, GotOf, Waking, heapVars
    <2> QED  BY <2>1, <2>2, Stutters
  <1>11. CASE TakeNull(t)
    <2>1. schedSeq = <<>>
      BY <1>11, ListHead DEF TakeNull, IInv, TypeOK, Lists
    <2>2. StackBar = <<>> /\ UNCHANGED StackBar
      BY <1>11, <2>1 DEF TakeNull, StackBar, heapVars
    <2>3. /\ GotOf(t) = 0 /\ GotOf(t)' = Null
          /\ \A u \in Threads : WakingOf(u)' = WakingOf(u)
          /\ \A u \in Threads \ {t} : GotOf(u)' = GotOf(u)
      BY <1>11 DEF TakeNull, Goto, IInv, TypeOK, WakingOf, GotOf, Waking, heapVars
    <2>4. Stack!PopNone(t)
      BY <2>2, <2>3 DEF Stack!PopNone, StackBar, WakingOf, GotOf
    <2> QED  BY <2>4 DEF Stack!Next
  <1>12. CASE TakeLoad(t)
    <2>1. /\ UNCHANGED schedSeq
          /\ \A n \in Elements(schedSeq) : handleOf'[n] = handleOf[n]
      BY <1>12, Handed DEF TakeLoad, Goto, IInv, TypeOK, Owned, Holding, Lists, heapVars
    <2>2. \A u \in Threads : WakingOf(u)' = WakingOf(u) /\ GotOf(u)' = GotOf(u)
      BY <1>12, Handed DEF TakeLoad, Goto, IInv, TypeOK, Owned, Holding, WakingOf,
         GotOf, Waking, heapVars
    <2> QED  BY <2>1, <2>2, Stutters
  <1>13. CASE TakeNext(t)
    <2>1. /\ UNCHANGED schedSeq
          /\ \A n \in Elements(schedSeq) : handleOf'[n] = handleOf[n]
      BY <1>13, Handed DEF TakeNext, Goto, IInv, TypeOK, Owned, Holding, Lists, heapVars
    <2>2. \A u \in Threads : WakingOf(u)' = WakingOf(u) /\ GotOf(u)' = GotOf(u)
      BY <1>13, Handed DEF TakeNext, Goto, IInv, TypeOK, Owned, Holding, WakingOf,
         GotOf, Waking, heapVars
    <2> QED  BY <2>1, <2>2, Stutters
  <1>14. CASE TakeCas(t)
    <2>1. CASE head = hd[t]
      <3>1. /\ schedSeq' = Tail(schedSeq) /\ nd' = [nd EXCEPT ![t] = hd[t]]
            /\ UNCHANGED <<h, handleOf>>
            /\ pc' = [pc EXCEPT ![t] = "read"] /\ pc[t] = "takeCas"
        BY <1>14, <2>1, TakeCasSucceeds DEF TakeCas, Goto, Rest, heapVars
      <3>2. schedSeq # <<>> /\ hd[t] = schedSeq[1]
        BY <1>14, <2>1, TakeCasSucceeds DEF IInv, Lists, ListIn
      <3>3. /\ StackBar # <<>> /\ Head(StackBar) = handleOf[hd[t]]
            /\ StackBar' = Tail(StackBar)
        BY <3>1, <3>2, MapTail DEF IInv, TypeOK, StackBar
      <3>4. /\ GotOf(t) = 0 /\ GotOf(t)' = handleOf[hd[t]]
            /\ \A u \in Threads : WakingOf(u)' = WakingOf(u)
            /\ \A u \in Threads \ {t} : GotOf(u)' = GotOf(u)
        BY <3>1 DEF IInv, TypeOK, WakingOf, GotOf, Waking
      <3>5. Stack!Pop(t)
        BY <3>3, <3>4 DEF Stack!Pop, StackBar, WakingOf, GotOf
      <3> QED  BY <3>5 DEF Stack!Next
    <2>2. CASE head # hd[t]
      <3>1. UNCHANGED <<schedSeq, handleOf>>
        BY <1>14, <2>2 DEF TakeCas, heapVars
      <3>2. \A u \in Threads : WakingOf(u)' = WakingOf(u) /\ GotOf(u)' = GotOf(u)
        BY <1>14, <2>2 DEF TakeCas, Goto, IInv, TypeOK, WakingOf, GotOf, Waking,
           heapVars
      <3> QED  BY <3>1, <3>2, Stutters
    <2> QED  BY <2>1, <2>2
  <1>15. CASE ReadHandle(t)
    <2>1. /\ UNCHANGED schedSeq
          /\ \A n \in Elements(schedSeq) : handleOf'[n] = handleOf[n]
      BY <1>15, Handed DEF ReadHandle, Goto, IInv, TypeOK, Owned, Holding, Lists,
         heapVars
    <2>2. \A u \in Threads : WakingOf(u)' = WakingOf(u) /\ GotOf(u)' = GotOf(u)
      BY <1>15, Handed DEF ReadHandle, Goto, IInv, TypeOK, Owned, Holding, WakingOf,
         GotOf, Waking, heapVars
    <2> QED  BY <2>1, <2>2, Stutters
  <1>16. CASE FreeCheck(t)
    <2>1. /\ UNCHANGED schedSeq
          /\ \A n \in Elements(schedSeq) : handleOf'[n] = handleOf[n]
      BY <1>16, Handed DEF FreeCheck, Goto, IInv, TypeOK, Owned, Holding, Lists,
         heapVars
    <2>2. \A u \in Threads : WakingOf(u)' = WakingOf(u) /\ GotOf(u)' = GotOf(u)
      BY <1>16, Handed DEF FreeCheck, Goto, IInv, TypeOK, Owned, Holding, WakingOf,
         GotOf, Waking, heapVars
    <2> QED  BY <2>1, <2>2, Stutters
  <1>17. CASE FreeLoad(t)
    <2>1. /\ UNCHANGED schedSeq
          /\ \A n \in Elements(schedSeq) : handleOf'[n] = handleOf[n]
      BY <1>17, Handed DEF FreeLoad, Goto, IInv, TypeOK, Owned, Holding, Lists, heapVars
    <2>2. \A u \in Threads : WakingOf(u)' = WakingOf(u) /\ GotOf(u)' = GotOf(u)
      BY <1>17, Handed DEF FreeLoad, Goto, IInv, TypeOK, Owned, Holding, WakingOf,
         GotOf, Waking, heapVars
    <2> QED  BY <2>1, <2>2, Stutters
  <1>18. CASE FreeCas(t)
    <2>1. /\ UNCHANGED schedSeq
          /\ \A n \in Elements(schedSeq) : handleOf'[n] = handleOf[n]
      BY <1>18, Handed DEF FreeCas, Goto, IInv, TypeOK, Owned, Holding, Lists, heapVars
    <2>2. \A u \in Threads : WakingOf(u)' = WakingOf(u) /\ GotOf(u)' = GotOf(u)
      BY <1>18, Handed DEF FreeCas, Goto, IInv, TypeOK, Owned, Holding, WakingOf, GotOf,
         Waking, heapVars
    <2> QED  BY <2>1, <2>2, Stutters
  <1>19. CASE FreeAdd(t)
    <2>1. /\ UNCHANGED schedSeq
          /\ \A n \in Elements(schedSeq) : handleOf'[n] = handleOf[n]
      BY <1>19, Handed DEF FreeAdd, Goto, IInv, TypeOK, Owned, Holding, Lists, heapVars
    <2>2. \A u \in Threads : WakingOf(u)' = WakingOf(u) /\ GotOf(u)' = GotOf(u)
      BY <1>19, Handed DEF FreeAdd, Goto, IInv, TypeOK, Owned, Holding, WakingOf, GotOf,
         Waking, heapVars
    <2> QED  BY <2>1, <2>2, Stutters
  <1>20. CASE Return(t)
    <2>1. /\ GotOf(t) # 0 /\ GotOf(t)' = 0
          /\ \A u \in Threads : WakingOf(u)' = WakingOf(u)
          /\ \A u \in Threads \ {t} : GotOf(u)' = GotOf(u)
      BY <1>20, TreiberAssumption DEF Return, Goto, IInv, TypeOK, WakingOf, GotOf,
         Waking, HandlesKept, Returning, Handles, heapVars
    <2>2. UNCHANGED StackBar
      BY <1>20 DEF Return, StackBar, heapVars
    <2>3. Stack!Return(t)
      BY <2>1, <2>2 DEF Stack!Return, StackBar, WakingOf, GotOf
    <2> QED  BY <2>3 DEF Stack!Next
  <1> QED  BY <1>1, <1>2, <1>3, <1>4, <1>5, <1>6, <1>7, <1>8, <1>9, <1>10, <1>11, <1>12,
     <1>13, <1>14, <1>15, <1>16, <1>17, <1>18, <1>19, <1>20 DEF Wake, Take

\* The schedule is an atomic stack of handles: every handle woken is taken once, last
\* woken first, and take_scheduled_task returns None only when it is empty, whatever
\* the interleaving, as long as no node is recycled among several threads.
THEOREM StackImplemented == NoAba => (Spec => ImplementsTaskStack)
  <1> SUFFICES ASSUME NoAba PROVE Spec => ImplementsTaskStack
    OBVIOUS
  <1>1. Init => Stack!Init
    BY DEF Init, Stack!Init, Waking
  <1>2. IInv /\ HandlesKept /\ [Next]_vars => [Stack!Next]_(Stack!vars)
    <2> SUFFICES ASSUME IInv, HandlesKept, [Next]_vars
                 PROVE Stack!Next \/ UNCHANGED Stack!vars
      OBVIOUS
    <2>1. CASE UNCHANGED vars
      BY <2>1 DEF vars, heapVars, Stack!vars
    <2>2. ASSUME NEW t \in Threads, Wake(t) \/ Take(t)
          PROVE Stack!Next \/ UNCHANGED Stack!vars
      BY <2>2, Simulates
    <2> QED  BY <2>1, <2>2 DEF Next
  <1>3. IInv /\ IInv' /\ HandlesKept /\ [Next]_vars => HandlesKept'
    <2> SUFFICES ASSUME IInv, IInv', HandlesKept, [Next]_vars PROVE HandlesKept'
      OBVIOUS
    <2>1. CASE UNCHANGED vars
      BY <2>1 DEF vars, heapVars, HandlesKept
    <2>2. ASSUME NEW t \in Threads, Wake(t) \/ Take(t) PROVE HandlesKept'
      BY <2>2, HandlesStep
    <2> QED  BY <2>1, <2>2 DEF Next
  <1>4. Spec => []HandlesKept
    BY <1>3, HandlesInit, IInvAlways, PTL DEF Spec
  <1> QED  BY <1>1, <1>2, <1>4, IInvAlways, PTL DEF Spec, ImplementsTaskStack,
     Stack!Spec
=============================================================================
