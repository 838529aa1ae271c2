--------------------------- MODULE TaskSlotsProofs ---------------------------
(***************************************************************************)
(* Proofs about TaskSlots, for any number of workers, slots and spawns.    *)
(***************************************************************************)
EXTENDS TaskSlots, FiniteSetTheorems, SequenceTheorems, TLAPS

\* Locks: a worker in a poll holds the lock of its slot, accept_loop that of slot 0.
Locked ==
  /\ inner[0] = Spawner
  /\ \A w \in Workers : pc[w] = "poll" => inner[slot[w]] = w

\* A spawn that is under way has a number left, and there is no slot below NEXT_SLOT
\* it has not been given.
Room ==
  /\ spc \in {"fetch", "bump"} => spawned < MaxSpawns
  /\ next >= 1

InFree(s)  == \E i \in DOMAIN free : free[i] = s
Freeing(s) == \E w \in Workers : pc[w] = "free" /\ slot[w] = s
Taken(s)   == task[s] # None

\* A slot is in one place at most, and in that place once ...
OnePlace ==
  /\ \A i, j \in DOMAIN free : free[i] = free[j] => i = j
  /\ \A v, w \in Workers :
       pc[v] = "free" /\ pc[w] = "free" /\ slot[v] = slot[w] => v = w
  /\ \A s \in Slots :
       /\ InFree(s) => ~Freeing(s) /\ ~Claimed(s) /\ ~Taken(s)
       /\ Freeing(s) => ~Claimed(s) /\ ~Taken(s)
       /\ Claimed(s) => ~Taken(s)

\* ... and in some place exactly when NEXT_SLOT has passed it.
SomePlace ==
  \A s \in Slots : s < next <=> InFree(s) \/ Freeing(s) \/ Claimed(s) \/ Taken(s)

\* accept_loop keeps its slot.
AcceptLoopStays == task[0] = 0

IInv == TypeOK /\ Locked /\ Room /\ OnePlace /\ SomePlace /\ AcceptLoopStays

-----------------------------------------------------------------------------
LEMMA IInvInit == Init => IInv
  <1> SUFFICES ASSUME Init PROVE IInv
    OBVIOUS
  <1> USE SlotsAssumption DEF Init, Slots, Ids, Handles
  <1>1. TypeOK
    BY DEF TypeOK
  <1>2. Locked /\ Room /\ AcceptLoopStays
    BY DEF Locked, Room, AcceptLoopStays
  <1>3. OnePlace
    BY DEF OnePlace, InFree, Freeing, Claimed, Taken
  <1>4. SomePlace
    BY DEF SomePlace, InFree, Freeing, Claimed, Taken
  <1> QED  BY <1>1, <1>2, <1>3, <1>4 DEF IInv

LEMMA SpawnPopKeeps == IInv /\ SpawnPop => IInv'
  <1> SUFFICES ASSUME IInv, SpawnPop PROVE IInv'
    OBVIOUS
  <1> USE DEF IInv, SpawnPop, SpawnGoto, slotVars, taskVars, workVars
  <1>1. CASE free = <<>>
    <2>1. TypeOK' /\ Locked' /\ Room' /\ AcceptLoopStays'
      BY <1>1 DEF TypeOK, Locked, Room, AcceptLoopStays
    <2>2. OnePlace' /\ SomePlace'
      BY <1>1 DEF OnePlace, SomePlace, InFree, Freeing, Claimed, Taken
    <2> QED  BY <2>1, <2>2
  <1>2. CASE free # <<>>
    <2> DEFINE n == Len(free)
    <2>1. /\ free \in Seq(Slots) /\ n \in Nat \ {0}
          /\ DOMAIN free = 1 .. n /\ sslot' = free[n] /\ spc' = "bump" /\ spc = "idle"
          /\ free' \in Seq(Slots) /\ DOMAIN free' = 1 .. n - 1
          /\ \A i \in 1 .. n - 1 : free'[i] = free[i]
      <3>1. free \in Seq(Slots) /\ n \in Nat \ {0} /\ DOMAIN free = 1 .. n
        BY <1>2 DEF TypeOK
      <3>2. free' = SubSeq(free, 1, n - 1) /\ \A i \in 1 .. n - 1 : free[i] \in Slots
        BY <1>2, <3>1
      <3>3. /\ free' \in Seq(Slots) /\ Len(free') = n - 1
            /\ \A i \in 1 .. n - 1 : free'[i] = free[i]
        <4>1. 1 \in Int /\ n - 1 \in Int
          BY <3>1
        <4> HIDE DEF n
        <4> QED  BY <3>1, <3>2, <4>1, SubSeqProperties
      <3> QED  BY <1>2, <3>1, <3>3
    <2>2. TypeOK' /\ Locked' /\ Room' /\ AcceptLoopStays'
      BY <1>2, <2>1 DEF TypeOK, Locked, Room, AcceptLoopStays
    <2>3. \A s \in Slots : /\ InFree(s) <=> InFree(s)' \/ Claimed(s)'
                           /\ ~(InFree(s)' /\ Claimed(s)')
                           /\ ~Claimed(s)
      BY <2>1 DEF InFree, Claimed, OnePlace
    <2>4. \A s \in Slots : (Freeing(s) <=> Freeing(s)') /\ (Taken(s) <=> Taken(s)')
      BY DEF Freeing, Taken
    <2>5. OnePlace'
      BY <2>1, <2>3, <2>4 DEF OnePlace
    <2>6. SomePlace'
      BY <2>3, <2>4 DEF SomePlace
    <2> QED  BY <2>2, <2>5, <2>6
  <1> QED  BY <1>1, <1>2

LEMMA SpawnFetchKeeps == IInv /\ SpawnFetch => IInv'
  <1> SUFFICES ASSUME IInv, SpawnFetch PROVE IInv'
    OBVIOUS
  <1> USE DEF IInv, SpawnFetch, SpawnGoto, slotVars, taskVars, workVars
  <1>1. TypeOK' /\ Locked' /\ Room' /\ AcceptLoopStays'
    BY SlotsAssumption DEF TypeOK, Locked, Room, AcceptLoopStays, Slots
  <1>2. \A s \in Slots : /\ (InFree(s) <=> InFree(s)') /\ (Freeing(s) <=> Freeing(s)')
                         /\ (Taken(s) <=> Taken(s)') /\ ~Claimed(s)
                         /\ (Claimed(s)' <=> s = next)
    <2>1. \A s \in Slots : s = next <=> next < MaxSlots /\ s = sslot'
      BY SlotsAssumption DEF TypeOK, Slots
    <2>2. spc' \in {"bump", "assign"} <=> next < MaxSlots
      BY SlotsAssumption DEF TypeOK
    <2> QED  BY <2>1, <2>2 DEF InFree, Freeing, Taken, Claimed
  <1>3. OnePlace'
    <2>1. ~(\E s \in Slots : s = next /\ (InFree(s) \/ Freeing(s) \/ Taken(s)))
      BY DEF SomePlace, TypeOK
    <2> QED  BY <1>2, <2>1 DEF OnePlace
  <1>4. SomePlace'
    <2>1. \A s \in Slots : s < next' <=> s < next \/ s = next
      BY SlotsAssumption DEF TypeOK, Slots
    <2> QED  BY <1>2, <2>1 DEF SomePlace
  <1> QED  BY <1>1, <1>3, <1>4

LEMMA SpawnBumpKeeps == IInv /\ SpawnBump => IInv'
  <1> SUFFICES ASSUME IInv, SpawnBump PROVE IInv'
    OBVIOUS
  <1> USE DEF IInv, SpawnBump, SpawnGoto, allocVars, workVars
  <1>1. TypeOK'
    <2>1. spawned + 1 \in Ids /\ spc = "bump" /\ sslot \in Slots
      BY SlotsAssumption DEF TypeOK, Room, Ids
    <2>2. generation' \in [Slots -> Nat]
      BY <2>1 DEF TypeOK
    <2>3. [slot |-> sslot, gen |-> generation[sslot] % GenSpan] \in Handles
      <3>1. sslot \in Nat /\ generation[sslot] \in Nat
        BY <2>1 DEF TypeOK, Slots
      <3> QED  BY <3>1, SlotsAssumption DEF Handles
    <2>4. handle' \in [Ids -> Handles]
      BY <2>1, <2>3 DEF TypeOK
    <2> QED  BY <2>1, <2>2, <2>4 DEF TypeOK
  <1>2. Locked' /\ Room' /\ AcceptLoopStays'
    BY DEF Locked, Room, AcceptLoopStays
  <1>3. OnePlace' /\ SomePlace'
    BY DEF OnePlace, SomePlace, InFree, Freeing, Claimed, Taken
  <1> QED  BY <1>1, <1>2, <1>3

LEMMA SpawnAssignKeeps == IInv /\ SpawnAssign => IInv'
  <1> SUFFICES ASSUME IInv, SpawnAssign PROVE IInv'
    OBVIOUS
  <1> USE DEF IInv, SpawnAssign, SpawnGoto, allocVars, taskVars, workVars
  <1>1. TypeOK' /\ Locked' /\ Room'
    BY DEF TypeOK, Locked, Room
  <1>2. sslot \in Slots /\ Claimed(sslot) /\ sslot # 0
    BY SlotsAssumption DEF TypeOK, Claimed, OnePlace, Taken, AcceptLoopStays
  <1>3. AcceptLoopStays'
    BY <1>2, SlotsAssumption DEF AcceptLoopStays, TypeOK, Slots
  <1>4. \A s \in Slots : /\ (InFree(s) <=> InFree(s)') /\ (Freeing(s) <=> Freeing(s)')
                         /\ ~Claimed(s)' /\ (Claimed(s) <=> s = sslot)
                         /\ (Taken(s)' <=> Taken(s) \/ Claimed(s))
    BY <1>2, SlotsAssumption DEF InFree, Freeing, Taken, Claimed, TypeOK, Ids
  <1>5. OnePlace' /\ SomePlace'
    BY <1>4 DEF OnePlace, SomePlace
  <1> QED  BY <1>1, <1>3, <1>5

LEMMA SpawnWakeKeeps == IInv /\ SpawnWake => IInv'
  <1> SUFFICES ASSUME IInv, SpawnWake PROVE IInv'
    OBVIOUS
  <1> USE DEF IInv, SpawnWake, SpawnGoto, slotVars, allocVars, workVars
  <1>1. TypeOK' /\ Locked' /\ Room' /\ AcceptLoopStays'
    BY DEF TypeOK, Locked, Room, AcceptLoopStays
  <1>2. OnePlace' /\ SomePlace'
    BY DEF OnePlace, SomePlace, InFree, Freeing, Claimed, Taken
  <1> QED  BY <1>1, <1>2

\* Take, Check, Lock and the polls that leave the task alone: the places of slots do
\* not change.
LEMMA QuietKeeps ==
  ASSUME IInv, NEW w \in Workers,
         Take(w) \/ Check(w) \/ Lock(w) \/ PollEmpty(w) \/ PollPending(w)
  PROVE IInv'
  <1> USE DEF IInv, Goto, slotVars, allocVars, taskVars, spawnVars
  <1>1. TypeOK'
    <2>1. CASE Take(w)
      <3>1. PICK i \in Ids : wakes[i] > 0 /\ wakes' = [wakes EXCEPT ![i] = @ - 1]
                             /\ cur' = [cur EXCEPT ![w] = i]
        BY <2>1 DEF Take
      <3>2. wakes' \in [Ids -> Nat]
        BY <3>1 DEF TypeOK
      <3> QED  BY <2>1, <3>1, <3>2 DEF TypeOK, Take
    <2>2. CASE Check(w)
      BY <2>2, SlotsAssumption, SMTT(30) DEF TypeOK, Check, Accepts, Slots, Ids
    <2>3. CASE Lock(w)
      BY <2>3 DEF TypeOK, Lock
    <2>4. CASE PollEmpty(w)
      BY <2>4, SlotsAssumption, SMTT(30) DEF TypeOK, PollEmpty, Unlock, Forget, Slots, Ids
    <2>5. CASE PollPending(w)
      <3>1. cur[w] \in Ids /\ wakes \in [Ids -> Nat] /\ wakes[cur[w]] + 1 \in Nat
        BY DEF TypeOK
      <3>2. wakes' \in [Ids -> Nat]
        BY <2>5, <3>1 DEF PollPending
      <3>3. 0 \in Slots /\ 0 \in Ids
        BY SlotsAssumption DEF Slots, Ids
      <3> QED  BY <2>5, <3>2, <3>3 DEF TypeOK, PollPending, Unlock, Forget
    <2> QED  BY <2>1, <2>2, <2>3, <2>4, <2>5
  <1>2. Locked'
    <2>1. CASE Take(w) \/ Check(w)
      BY <2>1 DEF TypeOK, Locked, Take, Check
    <2>2. CASE Lock(w)
      BY <2>2, SlotsAssumption DEF TypeOK, Locked, Lock, Slots
    <2>3. CASE PollEmpty(w) \/ PollPending(w)
      <3>1. /\ pc[w] = "poll" /\ inner[slot[w]] = w
            /\ pc' = [pc EXCEPT ![w] = "take"]
            /\ inner' = [inner EXCEPT ![slot[w]] = None]
            /\ slot' = [slot EXCEPT ![w] = 0]
        BY <2>3 DEF Locked, PollEmpty, PollPending, Unlock, Forget
      <3>2. slot[w] # 0 /\ inner'[0] = Spawner
        BY <3>1, SlotsAssumption DEF Locked, TypeOK, Slots
      <3>3. ASSUME NEW v \in Workers, pc'[v] = "poll" PROVE inner'[slot'[v]] = v
        <4>1. v # w /\ pc[v] = "poll" /\ slot'[v] = slot[v] /\ inner[slot[v]] = v
          BY <3>1, <3>3 DEF Locked, TypeOK
        <4> QED  BY <3>1, <4>1 DEF TypeOK
      <3> QED  BY <3>2, <3>3 DEF Locked
    <2> QED  BY <2>1, <2>2, <2>3
  <1>3. UNCHANGED <<task, free, next, spc, sslot, spawned>>
    BY DEF Take, Check, Lock, PollEmpty, PollPending, Unlock
  <1>4. \A v \in Workers : /\ (pc'[v] = "free" <=> pc[v] = "free")
                           /\ (pc[v] = "free" => slot'[v] = slot[v])
    BY DEF TypeOK, Take, Check, Lock, PollEmpty, PollPending, Unlock, Forget
  <1>5. Room' /\ AcceptLoopStays'
    BY <1>3 DEF Room, AcceptLoopStays
  <1>6. \A s \in Slots : /\ (InFree(s) <=> InFree(s)') /\ (Freeing(s) <=> Freeing(s)')
                         /\ (Taken(s) <=> Taken(s)') /\ (Claimed(s) <=> Claimed(s)')
    BY <1>3, <1>4 DEF InFree, Freeing, Taken, Claimed
  <1>7. OnePlace' /\ SomePlace'
    BY <1>3, <1>4, <1>6 DEF OnePlace, SomePlace
  <1> QED  BY <1>1, <1>2, <1>5, <1>7

LEMMA PollReadyKeeps ==
  ASSUME IInv, NEW w \in Workers, PollReady(w)
  PROVE IInv'
  <1> USE DEF IInv, PollReady, Unlock, Goto, allocVars, taskVars, spawnVars
  <1>1. slot[w] \in Slots /\ slot[w] # 0 /\ pc[w] = "poll"
    BY SlotsAssumption DEF TypeOK, Locked
  <1>2. TypeOK' /\ Room' /\ AcceptLoopStays'
    BY <1>1, SlotsAssumption DEF TypeOK, Room, AcceptLoopStays, Slots
  <1>3. Locked'
    BY <1>1, SlotsAssumption DEF TypeOK, Locked, Slots
  <1>4. Taken(slot[w])
    BY DEF Taken
  <1>5. \A s \in Slots : /\ (InFree(s) <=> InFree(s)') /\ (Claimed(s) <=> Claimed(s)')
                         /\ (Freeing(s)' <=> Freeing(s) \/ s = slot[w])
                         /\ (Taken(s)' <=> Taken(s) /\ s # slot[w])
    BY <1>1 DEF InFree, Freeing, Taken, Claimed, TypeOK
  <1>6. ~Freeing(slot[w])
    BY <1>1, <1>4 DEF OnePlace
  <1>7. \A u, v \in Workers :
          pc'[u] = "free" /\ pc'[v] = "free" /\ slot'[u] = slot'[v] => u = v
    BY <1>1, <1>6 DEF OnePlace, Freeing, TypeOK
  <1>8. OnePlace' /\ SomePlace'
    BY <1>1, <1>4, <1>5, <1>7 DEF OnePlace, SomePlace
  <1> QED  BY <1>2, <1>3, <1>8

LEMMA FreeSlotKeeps ==
  ASSUME IInv, NEW w \in Workers, FreeSlot(w)
  PROVE IInv'
  <1> USE DEF IInv, FreeSlot, Forget, Goto, slotVars, taskVars, spawnVars
  <1> DEFINE n == Len(free)
  <1>1. /\ pc[w] = "free" /\ slot[w] \in Slots /\ Freeing(slot[w])
        /\ free \in Seq(Slots) /\ n \in Nat /\ DOMAIN free = 1 .. n
        /\ free' \in Seq(Slots) /\ DOMAIN free' = 1 .. n + 1
        /\ free'[n + 1] = slot[w] /\ \A i \in 1 .. n : free'[i] = free[i]
    BY DEF TypeOK, Freeing
  <1>2. TypeOK' /\ Locked' /\ Room' /\ AcceptLoopStays'
    BY <1>1, SlotsAssumption, SMTT(30) DEF TypeOK, Locked, Room, AcceptLoopStays, Slots, Ids
  <1>3. \A s \in Slots : InFree(s)' <=> InFree(s) \/ s = slot[w]
    BY <1>1 DEF InFree
  <1>4. \A s \in Slots : /\ (Claimed(s) <=> Claimed(s)') /\ (Taken(s) <=> Taken(s)')
                         /\ (Freeing(s)' <=> Freeing(s) /\ s # slot[w])
    BY <1>1 DEF Freeing, Taken, Claimed, TypeOK, OnePlace
  <1>5. ~InFree(slot[w])
    BY <1>1 DEF OnePlace
  <1>6. \A i, j \in DOMAIN free' : free'[i] = free'[j] => i = j
    BY <1>1, <1>5 DEF OnePlace, InFree
  <1>7. \A u, v \in Workers :
          pc'[u] = "free" /\ pc'[v] = "free" /\ slot'[u] = slot'[v] => u = v
    BY <1>1 DEF OnePlace, TypeOK
  <1>8. OnePlace' /\ SomePlace'
    BY <1>1, <1>3, <1>4, <1>6, <1>7 DEF OnePlace, SomePlace
  <1> QED  BY <1>2, <1>8

LEMMA IInvNext == IInv /\ [Next]_vars => IInv'
  <1> SUFFICES ASSUME IInv, [Next]_vars PROVE IInv'
    OBVIOUS
  <1>1. CASE Spawn
    BY <1>1, SpawnPopKeeps, SpawnFetchKeeps, SpawnBumpKeeps, SpawnAssignKeeps,
       SpawnWakeKeeps DEF Spawn
  <1>2. ASSUME NEW w \in Workers, Worker(w) PROVE IInv'
    BY <1>2, QuietKeeps, PollReadyKeeps, FreeSlotKeeps DEF Worker
  <1>3. CASE UNCHANGED vars
    <2> USE <1>3 DEF IInv, vars, slotVars, allocVars, taskVars, spawnVars, workVars
    <2>1. TypeOK' /\ Locked' /\ Room' /\ AcceptLoopStays'
      BY DEF TypeOK, Locked, Room, AcceptLoopStays
    <2>2. OnePlace' /\ SomePlace'
      BY DEF OnePlace, SomePlace, InFree, Freeing, Claimed, Taken
    <2> QED  BY <2>1, <2>2
  <1> QED  BY <1>1, <1>2, <1>3 DEF Next

LEMMA IInvAlways == Spec => []IInv
  BY IInvInit, IInvNext, PTL DEF Spec

\* The types, with the slot and the task number every thread works with in range.
THEOREM TypeCorrect == Spec => []TypeOK
  <1>1. IInv => TypeOK
    BY DEF IInv
  <1> QED  BY <1>1, IInvAlways, PTL

\* A set whose elements are all equal has one element or none.
LEMMA AtMostOne ==
  ASSUME NEW S, \A x, y \in S : x = y
  PROVE Cardinality(S) = IF S = {} THEN 0 ELSE 1
  <1>1. CASE S = {}
    BY <1>1, FS_EmptySet
  <1>2. CASE S # {}
    <2>1. PICK x \in S : S = {x}
      BY <1>2
    <2> QED  BY <2>1, <1>2, FS_Singleton
  <1> QED  BY <1>1, <1>2

\* However spawns, polls of stale handles and ends of tasks interleave, spawn and
\* poll_task_safe neither lose a slot nor give one out twice.
THEOREM SlotsConserved == Spec => []SlotConservation
  <1>1. IInv => SlotConservation
    <2> SUFFICES ASSUME IInv, NEW s \in Slots
                 PROVE Cardinality(FreeAt(s)) + Cardinality(FreeingOf(s))
                         + (IF Claimed(s) THEN 1 ELSE 0)
                         + (IF task[s] # None THEN 1 ELSE 0)
                         = IF s < next THEN 1 ELSE 0
      BY DEF SlotConservation
    <2>1. Cardinality(FreeAt(s)) = IF InFree(s) THEN 1 ELSE 0
      <3>1. \A x, y \in FreeAt(s) : x = y
        BY DEF FreeAt, IInv, OnePlace
      <3>2. FreeAt(s) = {} <=> ~InFree(s)
        BY DEF FreeAt, InFree
      <3> QED  BY <3>1, <3>2, AtMostOne
    <2>2. Cardinality(FreeingOf(s)) = IF Freeing(s) THEN 1 ELSE 0
      <3>1. \A x, y \in FreeingOf(s) : x = y
        BY DEF FreeingOf, IInv, OnePlace
      <3>2. FreeingOf(s) = {} <=> ~Freeing(s)
        BY DEF FreeingOf, Freeing
      <3> QED  BY <3>1, <3>2, AtMostOne
    <2> QED  BY <2>1, <2>2 DEF IInv, OnePlace, SomePlace, Taken
  <1> QED  BY <1>1, IInvAlways, PTL

\* spawn assigns into an empty slot that is not accept_loop's.
THEOREM SpawnsIntoEmptySlot == Spec => []ClaimsEmptySlot
  <1>1. IInv => ClaimsEmptySlot
    BY SlotsAssumption DEF IInv, OnePlace, AcceptLoopStays, ClaimsEmptySlot, Taken
  <1> QED  BY <1>1, IInvAlways, PTL

-----------------------------------------------------------------------------
(* A live task and its handle.                                             *)

\* The bound under which generations fit a handle: 2^32 spawns, and a mask for all
\* slots.
HandlesSuffice == MaxSlots <= SlotSpan /\ MaxSpawns <= GenSpan

\* The handle of slot s's task, made when its generation was one less.
Names(i, s) == handle[i].slot = s /\ generation[s] = handle[i].gen + 1

\* A generation counts the spawns into its slot; the task in a slot, and the one
\* about to be put there, is named by its handle.
Named ==
  \A s \in Slots \ {0} :
    /\ generation[s] <= spawned
    /\ Taken(s) => task[s] \in 1 .. spawned /\ Names(task[s], s)
    /\ spc = "assign" /\ sslot = s => spawned >= 1 /\ Names(spawned, s)

LEMMA NamedInit == Init => Named
  BY SlotsAssumption DEF Init, Named, Taken, Names, Slots, Ids

\* SpawnBump makes the handle of the next task from the slot's generation.
LEMMA NamedBump == IInv /\ Named /\ HandlesSuffice /\ SpawnBump => Named'
  <1> SUFFICES ASSUME IInv, Named, HandlesSuffice, SpawnBump PROVE Named'
    OBVIOUS
  <1>1. /\ spawned + 1 \in Ids /\ spawned \in Nat /\ sslot \in Slots \ {0}
        /\ generation \in [Slots -> Nat] /\ handle \in [Ids -> Handles]
        /\ task' = task /\ sslot' = sslot /\ spawned' = spawned + 1 /\ spc' = "assign"
    BY SlotsAssumption DEF IInv, TypeOK, Room, Ids, SpawnBump, SpawnGoto, OnePlace,
       Claimed, Taken, AcceptLoopStays
  <1>2. generation[sslot] % GenSpan = generation[sslot]
    <2>1. /\ generation[sslot] \in Nat /\ generation[sslot] <= spawned
          /\ spawned < MaxSpawns
      BY <1>1, SlotsAssumption DEF Named, IInv, Room, SpawnBump, SpawnGoto
    <2> QED  BY <1>1, <2>1, SlotsAssumption DEF HandlesSuffice
  <1>3. /\ generation' = [generation EXCEPT ![sslot] = generation[sslot] + 1]
        /\ handle' = [handle EXCEPT ![spawned + 1] =
                        [slot |-> sslot, gen |-> generation[sslot]]]
    BY <1>2 DEF SpawnBump
  <1>4. ~Taken(sslot)
    BY <1>1 DEF IInv, OnePlace, Claimed, SpawnBump, SpawnGoto
  <1>5. ASSUME NEW s \in Slots \ {0}
        PROVE /\ generation'[s] <= spawned'
              /\ Taken(s)' => task'[s] \in 1 .. spawned' /\ Names(task[s], s)'
              /\ spc' = "assign" /\ sslot' = s => spawned' >= 1 /\ Names(spawned, s)'
    <2>1. CASE s = sslot
      <3>1. generation[s] <= spawned
        BY DEF Named
      <3> QED  BY <1>1, <1>3, <1>4, <2>1, <3>1 DEF Names, Taken
    <2>2. CASE s # sslot
      <3>1. generation'[s] = generation[s] /\ generation[s] <= spawned
        BY <1>1, <1>3, <2>2 DEF Named
      <3>2. ASSUME Taken(s)
            PROVE task[s] \in 1 .. spawned + 1 /\ Names(task[s], s)'
        <4>1. task[s] \in 1 .. spawned /\ Names(task[s], s)
          BY <3>2 DEF Named
        <4>2. handle'[task[s]] = handle[task[s]]
          BY <4>1, <1>1, <1>3, SlotsAssumption DEF Ids
        <4> QED  BY <1>1, <3>1, <4>1, <4>2 DEF Names
      <3> QED  BY <1>1, <2>2, <3>1, <3>2 DEF Taken
    <2> QED  BY <2>1, <2>2
  <1> QED  BY <1>5 DEF Named

LEMMA NamedNext == IInv /\ Named /\ HandlesSuffice /\ [Next]_vars => Named'
  <1> SUFFICES ASSUME IInv, Named, HandlesSuffice, [Next]_vars PROVE Named'
    OBVIOUS
  <1>1. CASE SpawnBump
    BY <1>1, NamedBump
  <1>2. CASE SpawnAssign
    <2>1. /\ spc = "assign" /\ spc' = "wake" /\ sslot \in Slots
          /\ task' = [task EXCEPT ![sslot] = spawned] /\ task \in [Slots -> Ids \cup {None}]
          /\ UNCHANGED <<generation, handle, spawned>> /\ spawned \in Nat
      BY <1>2 DEF SpawnAssign, SpawnGoto, taskVars, IInv, TypeOK, Ids
    <2> QED  BY <2>1 DEF Named, Names, Taken
  <1>3. ASSUME NEW w \in Workers, PollReady(w) PROVE Named'
    <2>1. /\ task \in [Slots -> Ids \cup {None}] /\ slot[w] \in Slots
          /\ task' = [task EXCEPT ![slot[w]] = None]
          /\ UNCHANGED <<generation, handle, spawned, spc, sslot>>
      BY <1>3 DEF PollReady, taskVars, spawnVars, IInv, TypeOK
    <2> QED  BY <2>1 DEF Named, Names, Taken
  <1>4. CASE \/ SpawnPop \/ SpawnFetch \/ SpawnWake \/ UNCHANGED vars
             \/ \E w \in Workers : \/ Take(w) \/ Check(w) \/ Lock(w) \/ PollEmpty(w)
                                   \/ PollPending(w) \/ FreeSlot(w)
    <2>1. /\ UNCHANGED <<generation, handle, spawned, task>>
          /\ spc' # "assign" \/ UNCHANGED <<spc, sslot>>
      BY <1>4 DEF SpawnPop, SpawnFetch, SpawnWake, SpawnGoto, Take, Check, Lock, PollEmpty,
         PollPending, FreeSlot, vars, slotVars, taskVars, spawnVars
    <2> QED  BY <2>1 DEF Named, Names, Taken
  <1> QED  BY <1>1, <1>2, <1>3, <1>4 DEF Next, Spawn, Worker

\* As long as generations fit a handle (2^32 spawns) and its mask names every slot,
\* the handle spawn returned for a task reaches that task: poll_task_safe never takes
\* the wake-up of a live task for a stale one.
THEOREM OwnHandleReaches == HandlesSuffice => (Spec => []OwnHandlePasses)
  <1> SUFFICES ASSUME HandlesSuffice PROVE Spec => []OwnHandlePasses
    OBVIOUS
  <1>1. IInv /\ Named => OwnHandlePasses
    <2> SUFFICES ASSUME IInv, Named, NEW s \in Slots, NEW i \in Ids \ {0}, task[s] = i
                 PROVE SlotOf(i) = s /\ Accepts(i)
      BY DEF OwnHandlePasses
    <2>1. s # 0 /\ Taken(s)
      BY SlotsAssumption DEF IInv, AcceptLoopStays, Taken, Ids
    <2>2. Names(i, s)
      BY <2>1 DEF Named
    <2>3. SlotOf(i) = s
      BY <2>2, SlotsAssumption DEF Names, SlotOf, Slots, HandlesSuffice
    <2> QED  BY <2>2, <2>3 DEF Names, Accepts
  <1>2. IInv /\ Named /\ [Next]_vars => Named'
    BY NamedNext
  <1> QED  BY <1>1, <1>2, NamedInit, IInvAlways, PTL DEF Spec
=============================================================================
