---------------------------- MODULE ReactorProofs ----------------------------
(***************************************************************************)
(* Proofs about Reactor for every number of workers, connections and fds:  *)
(* the type invariant, the two facts about waiting workers, that the IO    *)
(* registry only ever leads to open sockets and the slots of their owners, *)
(* and how many wakes of a task there are.                                 *)
(***************************************************************************)
EXTENDS Reactor, SequenceTheorems, FiniteSetTheorems, TLAPS

InPoll  == {"poll", "register", "unregister", "refresh", "close"}
Closing == {"unregister", "refresh", "close"}
Waking  == {"wake", "signal"}

\* A worker inside a poll holds the slot lock of the live task it polls, and
\* only such a worker holds a lock; accept_loop wakes from inside its poll.
ControlOf(w) ==
  /\ pc[w] \in {"check", "lock"} \cup InPoll => cur[w] \in Tasks
  /\ pc[w] \in InPoll => polled[w] \in Tasks /\ inner[polled[w]] = w
                                             /\ state[polled[w]] = "live"
  /\ pc[w] \in Closing => polled[w] \in Conns
  /\ pc[w] = "wake" => wakeq[w] # <<>>
  /\ \A t \in Tasks : inner[t] = w =>
       /\ polled[w] = t /\ cur[w] \in Tasks
       /\ pc[w] \in InPoll \/ (t = Acc /\ pc[w] \in Waking)

Control == \A w \in Workers : ControlOf(w)

\* Live connections own distinct open sockets, the accept loop owns the
\* listening one, and a handler that has unregistered has no entry left.
Ownership ==
  /\ state[Acc] = "live" /\ fd[Acc] = ListenFd
  /\ \A c \in Conns : state[c] = "live" => fd[c] \in open
  /\ \A c, d \in Conns : state[c] = "live" /\ state[d] = "live" /\ fd[c] = fd[d]
                           => c = d
  /\ \A w \in Workers :
       pc[w] \in {"refresh", "close"} => regEvents[fd[polled[w]]] = "none"

\* A live task is the last one spawned into its slot, so no other is live there,
\* and a worker polls a task in the slot of the handle it has taken.
Placement ==
  /\ \A t \in Tasks : state[t] \in {"unborn", "backlog"} => slot[t] = None
  /\ \A t \in Tasks : state[t] = "live" => slot[t] \in Slots /\ latest[slot[t]] = t
  /\ \A t \in Tasks : \A w \in Workers : inner[t] = w => slot[cur[w]] = slot[t]

IndInv == TypeOK /\ Control /\ Ownership /\ Placement /\ RegistryNamesSlot

\* Routing a request keeps the types of the handler's phase and pending sends.
LEMMA RouteTypes ==
  ASSUME TypeOK, NEW c \in Conns, Route(c)
  PROVE  phase' \in [Conns -> Phases] /\ replies' \in [Conns -> Nat]
<1>1. CASE Answer(c)
  BY <1>1 DEF Answer, TypeOK, Phases
<1>2. CASE /\ phase' = [phase EXCEPT ![c] = "last"]
           /\ UNCHANGED replies
  BY <1>2 DEF TypeOK, Phases
<1>3. CASE /\ phase' = [phase EXCEPT ![c] = "welcome"]
           /\ \E n \in 1..MaxReplies : replies' = [replies EXCEPT ![c] = n]
  BY <1>3 DEF TypeOK, Phases
<1> QED BY <1>1, <1>2, <1>3 DEF Route, Handshake

\* Every step keeps the types.
LEMMA TypeStep == TypeOK /\ Control /\ [Next]_vars => TypeOK'
<1> SUFFICES ASSUME TypeOK /\ Control, [Next]_vars PROVE TypeOK'
  OBVIOUS
<1> USE ReactorAssumption DEF TypeOK, Tasks, AllFds, Events, NoEntries, PcValues
<1> USE DEF queueVars, regVars, taskVars, slotVars, sockVars, localVars, pollVars
<1>1. CASE UNCHANGED vars
  BY <1>1 DEF vars
<1>2. ASSUME NEW c \in Conns, Client(c) PROVE TypeOK'
  <2>1. CASE ClientConnect(c)
    BY <2>1 DEF ClientConnect
  <2>2. CASE ClientSend(c)
    <3>1. sent' \in [Conns -> Nat] /\ inbox' \in [Conns -> Nat]
      BY <2>2 DEF ClientSend
    <3> QED BY <2>2, <3>1 DEF ClientSend
  <2>3. CASE ClientRead(c)
    <3>1. writable' \in SUBSET Fds
      BY <2>3 DEF ClientRead, Connected
    <3> QED BY <2>3, <3>1 DEF ClientRead
  <2>4. CASE ClientClose(c)
    <3>1. hup' \in SUBSET Fds
      BY <2>4 DEF ClientClose, Connected
    <3> QED BY <2>4, <3>1 DEF ClientClose
  <2> QED BY <1>2, <2>1, <2>2, <2>3, <2>4 DEF Client
<1>3. ASSUME NEW w \in Workers, Worker(w) PROVE TypeOK'
  <2>a. ControlOf(w)
    BY DEF Control
  <2>1. CASE TakeTask(w)
    <3>1. Head(sched) \in Tasks /\ Tail(sched) \in Seq(Tasks)
      BY <2>1 DEF TakeTask
    <3> QED BY <2>1, <3>1 DEF TakeTask, Goto
  <2>2. CASE TakeNone(w)
    BY <2>2 DEF TakeNone, Goto
  <2>3. CASE CheckHandle(w)
    BY <2>3 DEF CheckHandle, Dismiss, Goto
  <2>3e. CASE SlotEmpty(w)
    BY <2>3e DEF SlotEmpty, Dismiss, Goto
  <2>4. CASE LockSlot(w)
    <3>1. PICK t \in Tasks : /\ inner' = [inner EXCEPT ![t] = w]
                             /\ polled' = [polled EXCEPT ![w] = t]
      BY <2>4 DEF LockSlot
    <3>2. /\ inner' \in [Tasks -> Workers \cup {None}]
          /\ polled' \in [Workers -> Tasks \cup {None}]
          /\ pc' \in [Workers -> PcValues]
      BY <2>4, <3>1 DEF LockSlot, Goto
    <3>3. UNCHANGED <<queueVars, regVars, state, fd, phase, replies, registered,
                      slotVars, sockVars, cur, snap, rev, wakeq>>
      BY <2>4 DEF LockSlot
    <3> QED BY <3>2, <3>3
  <2>5. ASSUME NEW c \in Conns, RecvData(w, c) PROVE TypeOK'
    <3>1. inbox' \in [Conns -> Nat]
      BY <2>5 DEF RecvData
    <3>2. phase' \in [Conns -> Phases] /\ replies' \in [Conns -> Nat]
      <4>1. CASE Route(c)
        BY <4>1, RouteTypes
      <4>2. CASE phase' = [phase EXCEPT ![c] = "extra"] /\ replies' = replies
        BY <4>2 DEF Phases
      <4>3. CASE Frames(c)
        BY <4>3 DEF Frames, Phases
      <4> QED BY <2>5, <4>1, <4>2, <4>3 DEF RecvData
    <3>3. pc' \in [Workers -> PcValues] /\ registered' \in SUBSET Tasks
      BY <2>5 DEF RecvData, NextFuture, Continue
    <3> QED BY <2>5, <3>1, <3>2, <3>3 DEF RecvData
  <2>6. ASSUME NEW c \in Conns, RecvEmpty(w, c) PROVE TypeOK'
    <3>1. phase' \in [Conns -> Phases] /\ replies' \in [Conns -> Nat]
      <4>1. CASE Route(c)
        BY <4>1, RouteTypes
      <4>2. CASE phase' = [phase EXCEPT ![c] = "last"] /\ replies' = replies
        BY <4>2 DEF Phases
      <4> QED BY <2>6, <4>1, <4>2 DEF RecvEmpty
    <3>2. pc' \in [Workers -> PcValues] /\ registered' \in SUBSET Tasks
      BY <2>6 DEF RecvEmpty, NextFuture, Continue
    <3> QED BY <2>6, <3>1, <3>2 DEF RecvEmpty
  <2>7. ASSUME NEW c \in Conns, SendData(w, c) PROVE TypeOK'
    <3>1. replies' \in [Conns -> Nat] /\ writable' \in SUBSET Fds
      BY <2>7 DEF SendData, Direction
    <3>2. pc' \in [Workers -> PcValues] /\ registered' \in SUBSET Tasks
      BY <2>7 DEF SendData, NextFuture, Continue
    <3> QED BY <2>7, <3>1, <3>2 DEF SendData
  <2>8. CASE Accept(w)
    <3>1. PICK c \in Backlog, f \in Fds \ open :
            /\ open' = open \cup {f}
            /\ writable' = writable \cup {f}
            /\ hup' = hup \ {f}
            /\ state' = [state EXCEPT ![c] = "live"]
            /\ fd' = [fd EXCEPT ![c] = f]
            /\ wakeq' = [wakeq EXCEPT ![w] = <<c, c>>]
            /\ Spawn(c)
      BY <2>8 DEF Accept
    <3>2. c \in Conns /\ <<c, c>> \in Seq(Tasks)
      BY DEF Backlog
    <3>3. wakeq' \in [Workers -> Seq(Tasks)]
      BY <3>1, <3>2
    <3>4. /\ open' \in SUBSET Fds /\ writable' \in SUBSET Fds /\ hup' \in SUBSET Fds
          /\ state' \in [Tasks -> {"unborn", "backlog", "live", "done"}]
          /\ fd' \in [Tasks -> AllFds]
      BY <3>1, <3>2 DEF AllFds
    <3>5. pc' \in [Workers -> PcValues] /\ registered' \in SUBSET Tasks
      BY <2>8 DEF Accept, Goto
    <3>6. /\ slot' \in [Tasks -> Slots \cup {None}]
          /\ latest' \in [Slots -> Tasks \cup {None}]
      BY <3>1, <3>2 DEF Spawn
    <3> QED BY <2>8, <3>3, <3>4, <3>5, <3>6 DEF Accept
  <2>9. CASE AcceptError(w)
    <3>1. state' \in [Tasks -> {"unborn", "backlog", "live", "done"}]
      BY <2>9 DEF AcceptError
    <3> QED BY <2>9, <3>1 DEF AcceptError
  <2>10. CASE WouldBlock(w)
    BY <2>10 DEF WouldBlock, Goto
  <2>11. CASE StillPending(w)
    BY <2>11, <2>a DEF StillPending, Suspend, Leave, ControlOf, InPoll, Closing, Waking
  <2>12. CASE RegisterFdWaker(w)
    <3> DEFINE t == polled[w]
               h == cur[w]
    <3>1. t \in Tasks /\ h \in Tasks /\ fd[t] \in AllFds
      BY <2>12, <2>a DEF RegisterFdWaker, ControlOf, InPoll
    <3> DEFINE s == Append(regWaiters[fd[t]], h)
    <3>s. s \in Seq(Tasks) /\ s # <<>>
      <4>1. regWaiters[fd[t]] \in Seq(Tasks)
        BY <3>1
      <4> QED BY ONLY <3>1, <4>1, AppendProperties
    <3>2. /\ regWaiters' = [regWaiters EXCEPT ![fd[t]] = s]
          /\ regWaiters' \in [AllFds -> Seq(Tasks)]
          /\ regWaiters'[fd[t]] # <<>>
      <4> HIDE DEF s
      <4>1. regWaiters' = [regWaiters EXCEPT ![fd[t]] = s]
        BY <2>12 DEF RegisterFdWaker, s
      <4> QED BY <3>1, <3>s, <4>1
    <3>3. Direction(t) \in Events
      BY DEF Direction
    <3>4. /\ regEvents' \in [AllFds -> Events \cup {"none"}]
          /\ regEvents'[fd[t]] # "none"
          /\ \A f \in AllFds \ {fd[t]} : regEvents'[f] = regEvents[f]
      BY <2>12, <3>1, <3>3 DEF RegisterFdWaker
    <3>5. \A f \in AllFds : regEvents'[f] = "none" <=> regWaiters'[f] = <<>>
      BY <3>1, <3>2, <3>4
    <3>6. /\ pc' \in [Workers -> PcValues]
          /\ inner' \in [Tasks -> Workers \cup {None}]
          /\ cur' \in [Workers -> Tasks \cup {None}]
          /\ polled' \in [Workers -> Tasks \cup {None}]
          /\ registered' \in SUBSET Tasks
      BY <2>12, <3>1 DEF RegisterFdWaker, Suspend, Leave
    <3> QED BY <2>12, <3>2, <3>4, <3>5, <3>6 DEF RegisterFdWaker
  <2>13. CASE UnregisterFd(w)
    <3> DEFINE f == fd[polled[w]]
    <3>1. f \in AllFds
      BY <2>13, <2>a DEF UnregisterFd, Goto, ControlOf, InPoll
    <3>2. /\ regWaiters' \in [AllFds -> Seq(Tasks)]
          /\ regEvents' \in [AllFds -> Events \cup {"none"}]
          /\ \A g \in AllFds : regEvents'[g] = "none" <=> regWaiters'[g] = <<>>
      BY <2>13, <3>1 DEF UnregisterFd, RemoveEntry
    <3> QED BY <2>13, <3>2 DEF UnregisterFd, Goto
  <2>14. CASE RefreshSignal(w)
    BY <2>14 DEF RefreshSignal, Goto
  <2>15. CASE CloseFd(w)
    BY <2>15, <2>a DEF CloseFd, CloseSocket, FreeSlot, Suspend, Leave, ControlOf,
       InPoll, Closing, Waking
  <2>16. CASE WakePush(w)
    <3>1. wakeq[w] \in Seq(Tasks) /\ wakeq[w] # <<>>
      BY <2>16, <2>a DEF WakePush, Goto, ControlOf
    <3>2. Head(wakeq[w]) \in Tasks /\ Tail(wakeq[w]) \in Seq(Tasks)
      BY <3>1
    <3>3. sched' \in Seq(Tasks)
      BY <2>16, <3>2 DEF WakePush
    <3> QED BY <2>16, <3>2, <3>3 DEF WakePush, Goto
  <2>17. CASE WakeSignal(w)
    BY <2>17 DEF WakeSignal, AfterWake, Goto
  <2>18. CASE Snapshot(w)
    BY <2>18 DEF Snapshot, Goto
  <2>19. CASE Ppoll(w)
    BY <2>19 DEF Ppoll, Goto
  <2>20. CASE PpollError(w)
    BY <2>20 DEF PpollError, Goto
  <2>21. CASE Drain(w)
    BY <2>21 DEF Drain, Goto
  <2>22. CASE ScanFd(w)
    <3>1. PICK f \in rev[w] :
            /\ rev' = [rev EXCEPT ![w] = @ \ {f}]
            /\ wakeq' = [wakeq EXCEPT ![w] = regWaiters[f]]
            /\ pc' = [pc EXCEPT ![w] = IF regEvents[f] = "none" THEN "scan" ELSE "wake"]
            /\ RemoveEntry(f)
      BY <2>22 DEF ScanFd
    <3>2. f \in AllFds /\ regWaiters[f] \in Seq(Tasks)
      OBVIOUS
    <3>3. /\ regWaiters' \in [AllFds -> Seq(Tasks)]
          /\ regEvents' \in [AllFds -> Events \cup {"none"}]
          /\ \A g \in AllFds : regEvents'[g] = "none" <=> regWaiters'[g] = <<>>
      BY <3>1, <3>2 DEF RemoveEntry
    <3> QED BY <2>22, <3>1, <3>2, <3>3 DEF ScanFd
  <2>23. CASE ScanDone(w)
    BY <2>23 DEF ScanDone, Goto
  <2> QED BY <1>3, <2>1, <2>2, <2>3, <2>3e, <2>4, <2>5, <2>6, <2>7, <2>8, <2>9,
       <2>10, <2>11, <2>12, <2>13, <2>14, <2>15, <2>16, <2>17, <2>18, <2>19, <2>20,
       <2>21, <2>22, <2>23 DEF Worker, Handler
<1> QED BY <1>1, <1>2, <1>3 DEF Next

\* Every step keeps the workers' control state and the slot locks in line.
LEMMA ControlStep == TypeOK /\ Control /\ Ownership /\ [Next]_vars => Control'
<1> SUFFICES ASSUME TypeOK /\ Control /\ Ownership, [Next]_vars PROVE Control'
  OBVIOUS
<1> USE ReactorAssumption DEF ControlOf, InPoll, Closing, Waking, Tasks
<1>t. /\ pc \in [Workers -> PcValues]
      /\ cur \in [Workers -> Tasks \cup {None}]
      /\ polled \in [Workers -> Tasks \cup {None}]
      /\ inner \in [Tasks -> Workers \cup {None}]
      /\ state \in [Tasks -> {"unborn", "backlog", "live", "done"}]
      /\ wakeq \in [Workers -> Seq(Tasks)]
      /\ state[Acc] = "live"
  BY DEF TypeOK, Ownership
<1> SUFFICES ASSUME NEW v \in Workers PROVE ControlOf(v)'
  BY DEF Control
<1>v. ControlOf(v)
  BY DEF Control
<1> USE DEF queueVars, regVars, taskVars, slotVars, sockVars, localVars, pollVars
<1>1. CASE UNCHANGED vars
  BY <1>1, <1>t, <1>v DEF vars
<1>2. ASSUME NEW c \in Conns, Client(c) PROVE ControlOf(v)'
  <2>1. CASE ClientConnect(c)
    BY <2>1, <1>t, <1>v DEF ClientConnect, Backlog
  <2>2. CASE ClientSend(c)
    BY <2>2, <1>t, <1>v DEF ClientSend
  <2>3. CASE ClientRead(c)
    BY <2>3, <1>t, <1>v DEF ClientRead
  <2>4. CASE ClientClose(c)
    BY <2>4, <1>t, <1>v DEF ClientClose
  <2> QED BY <1>2, <2>1, <2>2, <2>3, <2>4 DEF Client
<1>3. ASSUME NEW w \in Workers, Worker(w) PROVE ControlOf(v)'
  <2>a. ControlOf(w)
    BY DEF Control
  <2>1. CASE TakeTask(w)
    <3>1. Head(sched) \in Tasks
      BY <2>1 DEF TakeTask, TypeOK
    <3> QED BY <2>1, <3>1, <1>t, <1>v, <2>a DEF TakeTask, Goto
  <2>2. CASE TakeNone(w)
    BY <2>2, <1>t, <1>v, <2>a DEF TakeNone, Goto
  <2>3. CASE CheckHandle(w)
    BY <2>3, <1>t, <1>v, <2>a DEF CheckHandle, Dismiss, Goto
  <2>3e. CASE SlotEmpty(w)
    BY <2>3e, <1>t, <1>v, <2>a DEF SlotEmpty, Dismiss, Goto
  <2>4. CASE LockSlot(w)
    <3>0. PICK u \in Tasks :
            /\ pc[w] = "lock" /\ pc' = [pc EXCEPT ![w] = "poll"]
            /\ state[u] = "live"
            /\ inner' = [inner EXCEPT ![u] = w] /\ inner[u] = None
            /\ polled' = [polled EXCEPT ![w] = u]
            /\ cur' = cur /\ state' = state /\ wakeq' = wakeq
      BY <2>4 DEF LockSlot, Goto, InSlot
    <3>1. CASE v = w
      <4>1. /\ pc'[w] = "poll" /\ polled'[w] = u /\ cur[w] \in Tasks
        BY <3>0, <1>t, <2>a
      <4>2. \A t \in Tasks : inner[t] # w
        BY <2>a, <3>0
      <4>3. /\ inner'[u] = w
            /\ \A t \in Tasks : inner'[t] = w => t = u
        BY <1>t, <3>0, <4>2
      <4> QED BY <3>0, <3>1, <4>1, <4>3
    <3>2. CASE v # w
      BY <3>0, <3>2, <1>t, <1>v
    <3> QED BY <3>1, <3>2
  <2>5. ASSUME NEW c \in Conns, RecvData(w, c) PROVE ControlOf(v)'
    BY <2>5, <1>t, <1>v, <2>a DEF RecvData, NextFuture, Continue, Polling
  <2>6. ASSUME NEW c \in Conns, RecvEmpty(w, c) PROVE ControlOf(v)'
    BY <2>6, <1>t, <1>v, <2>a DEF RecvEmpty, NextFuture, Continue, Polling
  <2>7. ASSUME NEW c \in Conns, SendData(w, c) PROVE ControlOf(v)'
    BY <2>7, <1>t, <1>v, <2>a DEF SendData, Polling, NextFuture, Continue, Direction
  <2>8. CASE Accept(w)
    BY <2>8, <1>t, <1>v, <2>a DEF Accept, Polling, Backlog, Goto
  <2>9. CASE AcceptError(w)
    BY <2>9, <1>t, <1>v, <2>a DEF AcceptError, Polling, Backlog
  <2>10. CASE WouldBlock(w)
    BY <2>10, <1>t, <1>v, <2>a DEF WouldBlock, Goto
  <2>11. CASE StillPending(w)
    BY <2>11, <1>t, <1>v, <2>a DEF StillPending, Suspend, Leave
  <2>12. CASE RegisterFdWaker(w)
    BY <2>12, <1>t, <1>v, <2>a DEF RegisterFdWaker, Suspend, Leave, Direction
  <2>13. CASE UnregisterFd(w)
    BY <2>13, <1>t, <1>v, <2>a DEF UnregisterFd, RemoveEntry, Goto
  <2>14. CASE RefreshSignal(w)
    BY <2>14, <1>t, <1>v, <2>a DEF RefreshSignal, Goto
  <2>15. CASE CloseFd(w)
    BY <2>15, <1>t, <1>v, <2>a DEF CloseFd, CloseSocket, FreeSlot, Suspend, Leave
  <2>16. CASE WakePush(w)
    BY <2>16, <1>t, <1>v, <2>a DEF WakePush, Goto
  <2>17. CASE WakeSignal(w)
    <3>1. CASE v = w
      <4>1. /\ pc[w] = "signal"
            /\ cur' = cur /\ polled' = polled /\ inner' = inner /\ state' = state
            /\ wakeq' = wakeq
            /\ pc'[w] = IF wakeq[w] = <<>> THEN AfterWake(w) ELSE "wake"
        BY <2>17, <1>t DEF WakeSignal, Goto
      <4>2. \A t \in Tasks : inner[t] = w => t = Acc /\ polled[w] = Acc /\ cur[w] \in Tasks
        BY <2>a, <4>1
      <4>3. CASE wakeq[w] # <<>>
        BY <3>1, <4>1, <4>2, <4>3
      <4>4. CASE wakeq[w] = <<>> /\ inner[Acc] = w
        BY <3>1, <1>t, <4>1, <4>2, <4>4 DEF AfterWake
      <4>5. CASE wakeq[w] = <<>> /\ inner[Acc] # w
        BY <3>1, <4>1, <4>2, <4>5 DEF AfterWake
      <4> QED BY <4>3, <4>4, <4>5
    <3>2. CASE v # w
      BY <2>17, <3>2, <1>t, <1>v DEF WakeSignal, AfterWake, Goto
    <3> QED BY <3>1, <3>2
  <2>18. CASE Snapshot(w)
    BY <2>18, <1>t, <1>v, <2>a DEF Snapshot, Goto
  <2>19. CASE Ppoll(w)
    BY <2>19, <1>t, <1>v, <2>a DEF Ppoll, Goto
  <2>20. CASE PpollError(w)
    BY <2>20, <1>t, <1>v, <2>a DEF PpollError, Goto
  <2>21. CASE Drain(w)
    BY <2>21, <1>t, <1>v, <2>a DEF Drain, Goto
  <2>22. CASE ScanFd(w)
    BY <2>22, <1>t, <1>v, <2>a DEF ScanFd, RemoveEntry, TypeOK, AllFds
  <2>23. CASE ScanDone(w)
    BY <2>23, <1>t, <1>v, <2>a DEF ScanDone, Goto
  <2> QED BY <1>3, <2>1, <2>2, <2>3, <2>3e, <2>4, <2>5, <2>6, <2>7, <2>8, <2>9,
       <2>10, <2>11, <2>12, <2>13, <2>14, <2>15, <2>16, <2>17, <2>18, <2>19, <2>20,
       <2>21, <2>22, <2>23 DEF Worker, Handler
<1> QED BY <1>1, <1>2, <1>3 DEF Next

\* Every step keeps the sockets with their owners.
LEMMA OwnershipStep == TypeOK /\ Control /\ Ownership /\ [Next]_vars => Ownership'
<1> SUFFICES ASSUME TypeOK /\ Control /\ Ownership, [Next]_vars PROVE Ownership'
  OBVIOUS
<1> USE ReactorAssumption DEF Ownership, InPoll, Closing, Waking, Tasks, AllFds
<1>t. /\ pc \in [Workers -> PcValues]
      /\ polled \in [Workers -> Tasks \cup {None}]
      /\ inner \in [Tasks -> Workers \cup {None}]
      /\ state \in [Tasks -> {"unborn", "backlog", "live", "done"}]
      /\ fd \in [Tasks -> AllFds]
      /\ open \in SUBSET Fds
      /\ regEvents \in [AllFds -> Events \cup {"none"}]
  BY DEF TypeOK
<1>o. Ownership
  OBVIOUS
<1> USE DEF queueVars, regVars, taskVars, slotVars, sockVars, localVars, pollVars
<1>1. CASE UNCHANGED vars
  BY <1>1, <1>t, <1>o DEF vars
<1>2. ASSUME NEW c \in Conns, Client(c) PROVE Ownership'
  <2>1. CASE ClientConnect(c)
    BY <2>1, <1>t, <1>o DEF ClientConnect
  <2>2. CASE ClientSend(c)
    BY <2>2, <1>t, <1>o DEF ClientSend
  <2>3. CASE ClientRead(c)
    BY <2>3, <1>t, <1>o DEF ClientRead
  <2>4. CASE ClientClose(c)
    BY <2>4, <1>t, <1>o DEF ClientClose
  <2> QED BY <1>2, <2>1, <2>2, <2>3, <2>4 DEF Client
<1>3. ASSUME NEW w \in Workers, Worker(w) PROVE Ownership'
  <2>a. ControlOf(w)
    BY DEF Control
  <2>1. CASE TakeTask(w)
    BY <2>1, <1>t, <1>o, <2>a DEF TakeTask, Goto
  <2>2. CASE TakeNone(w)
    BY <2>2, <1>t, <1>o, <2>a DEF TakeNone, Goto
  <2>3. CASE CheckHandle(w)
    BY <2>3, <1>t, <1>o, <2>a DEF CheckHandle, Dismiss, Goto
  <2>3e. CASE SlotEmpty(w)
    BY <2>3e, <1>t, <1>o, <2>a DEF SlotEmpty, Dismiss, Goto
  <2>4. CASE LockSlot(w)
    BY <2>4, <1>t, <1>o, <2>a DEF LockSlot, Goto
  <2>5. ASSUME NEW c \in Conns, RecvData(w, c) PROVE Ownership'
    BY <2>5, <1>t, <1>o, <2>a DEF RecvData, NextFuture, Continue, Polling
  <2>6. ASSUME NEW c \in Conns, RecvEmpty(w, c) PROVE Ownership'
    BY <2>6, <1>t, <1>o, <2>a DEF RecvEmpty, NextFuture, Continue, Polling
  <2>7. ASSUME NEW c \in Conns, SendData(w, c) PROVE Ownership'
    BY <2>7, <1>t, <1>o, <2>a DEF SendData, Polling, NextFuture, Continue
  <2>8. CASE Accept(w)
    <3>1. PICK c \in Backlog, f \in Fds \ open :
            /\ open' = open \cup {f}
            /\ state' = [state EXCEPT ![c] = "live"]
            /\ fd' = [fd EXCEPT ![c] = f]
      BY <2>8 DEF Accept
    <3>2. c \in Conns /\ state[c] = "backlog"
      BY DEF Backlog
    <3>3. /\ pc'[w] = "wake" /\ polled' = polled /\ regEvents' = regEvents
          /\ \A v \in Workers \ {w} : pc'[v] = pc[v]
      BY <2>8, <1>t DEF Accept, Goto
    <3>4. \A d \in Conns : state'[d] = "live" => fd'[d] \in open'
      BY <1>t, <3>1, <3>2
    <3>5. \A d, e \in Conns :
            state'[d] = "live" /\ state'[e] = "live" /\ fd'[d] = fd'[e] => d = e
      BY <1>t, <3>1, <3>2
    <3>6. ASSUME NEW v \in Workers, pc'[v] \in {"refresh", "close"}
          PROVE  regEvents'[fd'[polled'[v]]] = "none"
      <4>1. v # w /\ pc[v] \in {"refresh", "close"}
        BY <3>3, <3>6
      <4>2. polled[v] \in Conns /\ state[polled[v]] = "live"
        BY <4>1 DEF Control, ControlOf
      <4> QED BY <1>t, <3>1, <3>2, <3>3, <4>1, <4>2
    <3>7. state'[Acc] = "live" /\ fd'[Acc] = ListenFd
      BY <1>t, <3>1, <3>2
    <3> QED BY <3>4, <3>5, <3>6, <3>7
  <2>9. CASE AcceptError(w)
    BY <2>9, <1>t, <1>o, <2>a DEF AcceptError, Polling, Backlog
  <2>10. CASE WouldBlock(w)
    BY <2>10, <1>t, <1>o, <2>a DEF WouldBlock, Goto
  <2>11. CASE StillPending(w)
    BY <2>11, <1>t, <1>o, <2>a DEF StillPending, Suspend, Leave
  <2>12. CASE RegisterFdWaker(w)
    <3>1. /\ pc'[w] = "take" /\ \A v \in Workers \ {w} : pc'[v] = pc[v] /\ polled'[v] = polled[v]
          /\ \A f \in AllFds \ {fd[polled[w]]} : regEvents'[f] = regEvents[f]
          /\ fd' = fd /\ state' = state /\ open' = open
      BY <2>12, <1>t DEF RegisterFdWaker, Suspend, Leave
    <3>2. ASSUME NEW v \in Workers, pc'[v] \in {"refresh", "close"}
          PROVE  regEvents'[fd'[polled'[v]]] = "none"
      <4>1. v # w /\ pc[v] \in {"refresh", "close"}
        BY <3>1, <3>2
      <4>2. polled[v] \in Conns /\ state[polled[v]] = "live" /\ inner[polled[v]] = v
        BY <4>1 DEF Control, ControlOf
      <4>3. polled[w] \in Tasks /\ state[polled[w]] = "live" /\ inner[polled[w]] = w
        BY <2>12, <2>a DEF RegisterFdWaker, ControlOf
      <4>4. fd[polled[v]] # fd[polled[w]]
        BY <1>t, <4>1, <4>2, <4>3
      <4> QED BY <1>t, <3>1, <4>1, <4>2, <4>4
    <3> QED BY <3>1, <3>2
  <2>13. CASE UnregisterFd(w)
    BY <2>13, <1>t, <1>o, <2>a DEF UnregisterFd, RemoveEntry, Goto, ControlOf
  <2>14. CASE RefreshSignal(w)
    BY <2>14, <1>t, <1>o, <2>a DEF RefreshSignal, Goto
  <2>15. CASE CloseFd(w)
    BY <2>15, <1>t, <1>o, <2>a DEF CloseFd, CloseSocket, FreeSlot, Suspend, Leave, ControlOf
  <2>16. CASE WakePush(w)
    BY <2>16, <1>t, <1>o, <2>a DEF WakePush, Goto
  <2>17. CASE WakeSignal(w)
    BY <2>17, <1>t, <1>o, <2>a DEF WakeSignal, AfterWake, Goto, ControlOf
  <2>18. CASE Snapshot(w)
    BY <2>18, <1>t, <1>o, <2>a DEF Snapshot, Goto
  <2>19. CASE Ppoll(w)
    BY <2>19, <1>t, <1>o, <2>a DEF Ppoll, Goto
  <2>20. CASE PpollError(w)
    BY <2>20, <1>t, <1>o, <2>a DEF PpollError, Goto
  <2>21. CASE Drain(w)
    BY <2>21, <1>t, <1>o, <2>a DEF Drain, Goto
  <2>22. CASE ScanFd(w)
    BY <2>22, <1>t, <1>o, <2>a DEF ScanFd, RemoveEntry
  <2>23. CASE ScanDone(w)
    BY <2>23, <1>t, <1>o, <2>a DEF ScanDone, Goto
  <2> QED BY <1>3, <2>1, <2>2, <2>3, <2>3e, <2>4, <2>5, <2>6, <2>7, <2>8, <2>9,
       <2>10, <2>11, <2>12, <2>13, <2>14, <2>15, <2>16, <2>17, <2>18, <2>19, <2>20,
       <2>21, <2>22, <2>23 DEF Worker, Handler
<1> QED BY <1>1, <1>2, <1>3 DEF Next

\* Every step keeps tasks in slots of their own, and polls in the handle's slot.
LEMMA PlacementStep ==
  TypeOK /\ Control /\ Ownership /\ Placement /\ [Next]_vars => Placement'
<1> SUFFICES ASSUME TypeOK, Control, Ownership, Placement, [Next]_vars PROVE Placement'
  OBVIOUS
<1>t. /\ cur \in [Workers -> Tasks \cup {None}]
      /\ inner \in [Tasks -> Workers \cup {None}]
      /\ state \in [Tasks -> {"unborn", "backlog", "live", "done"}]
      /\ slot \in [Tasks -> Slots \cup {None}]
      /\ latest \in [Slots -> Tasks \cup {None}]
      /\ None \notin Workers /\ None \notin Tasks /\ None \notin Slots
      /\ Acc \in Tasks /\ Conns \subseteq Tasks /\ state[Acc] = "live"
  BY ReactorAssumption DEF TypeOK, Tasks, Ownership
<1>p. Placement
  OBVIOUS
<1> USE DEF Placement
<1>k. ASSUME state' = state, inner' = inner, slot' = slot, latest' = latest, cur' = cur
      PROVE  Placement'
  BY <1>k, <1>p
<1> USE DEF InPoll, Closing, Waking, ControlOf
<1> USE DEF queueVars, regVars, taskVars, slotVars, sockVars, localVars, pollVars
<1>1. CASE UNCHANGED vars
  BY <1>1, <1>k DEF vars
<1>2. ASSUME NEW c \in Conns, Client(c) PROVE Placement'
  <2>1. CASE ClientConnect(c)
    BY <2>1, <1>t, <1>p DEF ClientConnect
  <2>2. CASE ClientSend(c)
    BY <2>2, <1>k DEF ClientSend
  <2>3. CASE ClientRead(c)
    BY <2>3, <1>k DEF ClientRead
  <2>4. CASE ClientClose(c)
    BY <2>4, <1>k DEF ClientClose
  <2> QED BY <1>2, <2>1, <2>2, <2>3, <2>4 DEF Client
<1>3. ASSUME NEW w \in Workers, Worker(w) PROVE Placement'
  <2>a. ControlOf(w)
    BY DEF Control
  <2>1. CASE TakeTask(w)
    <3>1. \A t \in Tasks : inner[t] # w
      BY <2>1, <2>a DEF TakeTask, Goto
    <3> QED BY <2>1, <3>1, <1>t, <1>p DEF TakeTask, Goto
  <2>2. CASE TakeNone(w)
    BY <2>2, <1>k DEF TakeNone
  <2>3. CASE CheckHandle(w)
    <3>1. \A t \in Tasks : inner[t] # w
      BY <2>3, <2>a DEF CheckHandle
    <3> QED BY <2>3, <3>1, <1>t, <1>p DEF CheckHandle, Dismiss, Goto
  <2>3e. CASE SlotEmpty(w)
    <3>1. \A t \in Tasks : inner[t] # w
      BY <2>3e, <2>a DEF SlotEmpty, Dismiss, Goto
    <3> QED BY <2>3e, <3>1, <1>t, <1>p DEF SlotEmpty, Dismiss, Goto
  <2>4. CASE LockSlot(w)
    BY <2>4, <1>t, <1>p DEF LockSlot, Goto, InSlot
  <2>5. ASSUME NEW c \in Conns, RecvData(w, c) PROVE Placement'
    BY <2>5, <1>k DEF RecvData
  <2>6. ASSUME NEW c \in Conns, RecvEmpty(w, c) PROVE Placement'
    BY <2>6, <1>k DEF RecvEmpty
  <2>7. ASSUME NEW c \in Conns, SendData(w, c) PROVE Placement'
    BY <2>7, <1>k DEF SendData
  <2>8. CASE Accept(w)
    <3>1. PICK c \in Backlog : Spawn(c) /\ state' = [state EXCEPT ![c] = "live"]
      BY <2>8 DEF Accept
    <3>2. c \in Conns /\ c \in Tasks /\ state[c] = "backlog" /\ slot[c] = None
      BY <1>t, <1>p DEF Backlog
    <3>3. PICK s \in Slots : /\ s \in Freed \cup Fresh
                            /\ slot' = [slot EXCEPT ![c] = s]
                            /\ latest' = [latest EXCEPT ![s] = c]
      BY <3>1 DEF Spawn
    <3>4. \A t \in Tasks : state[t] = "live" => slot[t] # s
      BY <1>t, <1>p, <3>3 DEF Freed, Fresh
    <3>5. \A t \in Tasks : state'[t] = "live" => slot'[t] \in Slots /\ latest'[slot'[t]] = t
      BY <1>t, <1>p, <3>1, <3>2, <3>3, <3>4
    <3>6. ASSUME NEW t \in Tasks, NEW v \in Workers, inner[t] = v
          PROVE  slot'[cur[v]] = slot'[t]
      <4>1. state[t] = "live" /\ slot[t] \in Slots /\ slot[cur[v]] = slot[t]
        BY <3>6, <1>t, <1>p DEF Control, ControlOf
      <4>2. cur[v] \in Tasks
        BY <3>6 DEF Control, ControlOf
      <4> QED BY <1>t, <3>2, <3>3, <4>1, <4>2
    <3> QED BY <2>8, <1>t, <1>p, <3>1, <3>2, <3>3, <3>5, <3>6 DEF Accept
  <2>9. CASE AcceptError(w)
    BY <2>9, <1>t, <1>p DEF AcceptError, Backlog
  <2>10. CASE WouldBlock(w)
    BY <2>10, <1>k DEF WouldBlock
  <2>11. CASE StillPending(w)
    <3>1. \A t \in Tasks : inner'[t] # w
      BY <2>11, <2>a, <1>t DEF StillPending, Suspend, Leave
    <3> QED BY <2>11, <3>1, <1>t, <1>p DEF StillPending, Suspend, Leave
  <2>12. CASE RegisterFdWaker(w)
    <3>1. \A t \in Tasks : inner'[t] # w
      BY <2>12, <2>a, <1>t DEF RegisterFdWaker, Suspend, Leave
    <3> QED BY <2>12, <3>1, <1>t, <1>p DEF RegisterFdWaker, Suspend, Leave
  <2>13. CASE UnregisterFd(w)
    BY <2>13, <1>k DEF UnregisterFd
  <2>14. CASE RefreshSignal(w)
    BY <2>14, <1>k DEF RefreshSignal
  <2>15. CASE CloseFd(w)
    <3>1. \A t \in Tasks : inner'[t] # w
      BY <2>15, <2>a, <1>t DEF CloseFd, FreeSlot, Suspend, Leave
    <3> QED BY <2>15, <2>a, <3>1, <1>t, <1>p DEF CloseFd, FreeSlot, Suspend, Leave
  <2>16. CASE WakePush(w)
    BY <2>16, <1>k DEF WakePush
  <2>17. CASE WakeSignal(w)
    BY <2>17, <1>k DEF WakeSignal
  <2>18. CASE Snapshot(w)
    BY <2>18, <1>k DEF Snapshot
  <2>19. CASE Ppoll(w)
    BY <2>19, <1>k DEF Ppoll
  <2>20. CASE PpollError(w)
    BY <2>20, <1>k DEF PpollError
  <2>21. CASE Drain(w)
    BY <2>21, <1>k DEF Drain
  <2>22. CASE ScanFd(w)
    BY <2>22, <1>k DEF ScanFd
  <2>23. CASE ScanDone(w)
    BY <2>23, <1>k DEF ScanDone
  <2> QED BY <1>3, <2>1, <2>2, <2>3, <2>3e, <2>4, <2>5, <2>6, <2>7, <2>8, <2>9,
       <2>10, <2>11, <2>12, <2>13, <2>14, <2>15, <2>16, <2>17, <2>18, <2>19, <2>20,
       <2>21, <2>22, <2>23 DEF Worker, Handler
<1> QED BY <1>1, <1>2, <1>3 DEF Next

\* The waker of handle h, registered for f, leads to the slot of f's owner t.
Leads(f, h, t) == fd[t] = f /\ InSlot(t, h)

\* Every step keeps IO_REG to open sockets and the slots of their live owners.
LEMMA RegistryStep == IndInv /\ [Next]_vars => RegistryNamesSlot'
<1> SUFFICES ASSUME IndInv, [Next]_vars PROVE RegistryNamesSlot'
  OBVIOUS
<1> USE ReactorAssumption
<1>t. /\ pc \in [Workers -> PcValues]
      /\ cur \in [Workers -> Tasks \cup {None}]
      /\ state \in [Tasks -> {"unborn", "backlog", "live", "done"}]
      /\ slot \in [Tasks -> Slots \cup {None}] /\ None \notin Slots
      /\ fd \in [Tasks -> AllFds]
      /\ open \in SUBSET Fds
      /\ regEvents \in [AllFds -> Events \cup {"none"}]
      /\ regWaiters \in [AllFds -> Seq(Tasks)]
  BY DEF IndInv, TypeOK
<1>o. Ownership /\ Placement /\ RegistryNamesSlot
  BY DEF IndInv
<1>f. ASSUME regEvents' = regEvents, regWaiters' = regWaiters, open \subseteq open',
             \A f \in AllFds, h, t \in Tasks : Leads(f, h, t) => Leads(f, h, t)'
      PROVE  RegistryNamesSlot'
  <2> SUFFICES ASSUME NEW f \in AllFds, regEvents[f] # "none"
               PROVE  /\ f \in open' \cup {ListenFd}
                      /\ \A i \in DOMAIN regWaiters[f] :
                           \E t \in Tasks : Leads(f, regWaiters[f][i], t)'
    BY <1>f DEF RegistryNamesSlot, Leads
  <2>1. f \in open \cup {ListenFd}
    BY <1>o DEF RegistryNamesSlot
  <2>2. ASSUME NEW i \in DOMAIN regWaiters[f]
        PROVE  \E t \in Tasks : Leads(f, regWaiters[f][i], t)'
    <3>1. PICK t \in Tasks : Leads(f, regWaiters[f][i], t)
      BY <1>o DEF RegistryNamesSlot, Leads
    <3>2. regWaiters[f][i] \in Tasks
      BY <1>t
    <3> QED BY <1>f, <3>1, <3>2
  <2> QED BY <1>f, <2>1, <2>2
<1>k. ASSUME regEvents' = regEvents, regWaiters' = regWaiters, open' = open,
             state' = state, fd' = fd, slot' = slot
      PROVE  RegistryNamesSlot'
  BY <1>k, <1>o DEF RegistryNamesSlot, InSlot
<1> USE DEF queueVars, regVars, taskVars, slotVars, sockVars, localVars, pollVars
<1>1. CASE UNCHANGED vars
  BY <1>1, <1>k DEF vars
<1>2. ASSUME NEW c \in Conns, Client(c) PROVE RegistryNamesSlot'
  <2>1. CASE ClientConnect(c)
    <3>1. ASSUME NEW f \in AllFds, NEW h \in Tasks, NEW t \in Tasks, Leads(f, h, t)
          PROVE  Leads(f, h, t)'
      BY <2>1, <3>1, <1>t DEF ClientConnect, Leads, InSlot
    <3> QED BY <2>1, <3>1, <1>f DEF ClientConnect
  <2>2. CASE ClientSend(c)
    BY <2>2, <1>k DEF ClientSend
  <2>3. CASE ClientRead(c)
    BY <2>3, <1>k DEF ClientRead
  <2>4. CASE ClientClose(c)
    BY <2>4, <1>k DEF ClientClose
  <2> QED BY <1>2, <2>1, <2>2, <2>3, <2>4 DEF Client
<1>3. ASSUME NEW w \in Workers, Worker(w) PROVE RegistryNamesSlot'
  <2>a. ControlOf(w)
    BY DEF IndInv, Control
  <2>1. CASE TakeTask(w)
    BY <2>1, <1>k DEF TakeTask
  <2>2. CASE TakeNone(w)
    BY <2>2, <1>k DEF TakeNone
  <2>3. CASE CheckHandle(w)
    BY <2>3, <1>k DEF CheckHandle
  <2>3e. CASE SlotEmpty(w)
    BY <2>3e, <1>k DEF SlotEmpty
  <2>4. CASE LockSlot(w)
    BY <2>4, <1>k DEF LockSlot
  <2>5. ASSUME NEW c \in Conns, RecvData(w, c) PROVE RegistryNamesSlot'
    BY <2>5, <1>k DEF RecvData
  <2>6. ASSUME NEW c \in Conns, RecvEmpty(w, c) PROVE RegistryNamesSlot'
    BY <2>6, <1>k DEF RecvEmpty
  <2>7. ASSUME NEW c \in Conns, SendData(w, c) PROVE RegistryNamesSlot'
    BY <2>7, <1>k DEF SendData
  <2>8. CASE Accept(w)
    <3>1. PICK c \in Backlog, g \in Fds \ open :
            /\ Spawn(c) /\ open' = open \cup {g}
            /\ state' = [state EXCEPT ![c] = "live"]
            /\ fd' = [fd EXCEPT ![c] = g]
      BY <2>8 DEF Accept
    <3>2. c \in Tasks /\ state[c] = "backlog" /\ slot[c] = None
      BY <1>o DEF Backlog, Tasks, Placement
    <3>3. PICK s \in Slots : slot' = [slot EXCEPT ![c] = s]
      BY <3>1 DEF Spawn
    <3>4. regEvents' = regEvents /\ regWaiters' = regWaiters
      BY <2>8 DEF Accept
    <3>5. ASSUME NEW f \in AllFds, NEW h \in Tasks, NEW t \in Tasks, Leads(f, h, t)
          PROVE  Leads(f, h, t)'
      <4>1. state[t] = "live" /\ slot[t] = slot[h] /\ slot[t] \in Slots /\ fd[t] = f
        BY <3>5, <1>o DEF Leads, InSlot, Placement
      <4>2. t # c /\ h # c
        BY <3>2, <4>1, <1>t
      <4> QED BY <3>1, <3>2, <3>3, <4>1, <4>2, <1>t DEF Leads, InSlot
    <3> QED BY <3>1, <3>4, <3>5, <1>f
  <2>9. CASE AcceptError(w)
    <3>1. ASSUME NEW f \in AllFds, NEW h \in Tasks, NEW t \in Tasks, Leads(f, h, t)
          PROVE  Leads(f, h, t)'
      BY <2>9, <3>1, <1>t DEF AcceptError, Backlog, Leads, InSlot
    <3> QED BY <2>9, <3>1, <1>f DEF AcceptError
  <2>10. CASE WouldBlock(w)
    BY <2>10, <1>k DEF WouldBlock
  <2>11. CASE StillPending(w)
    BY <2>11, <1>k DEF StillPending
  <2>12. CASE RegisterFdWaker(w)
    <3> DEFINE t == polled[w]
               h == cur[w]
               s == regWaiters[fd[t]]
    <3>1. /\ regWaiters' = [regWaiters EXCEPT ![fd[t]] = Append(s, h)]
          /\ \A f \in AllFds \ {fd[t]} : regEvents'[f] = regEvents[f]
          /\ fd' = fd /\ state' = state /\ open' = open /\ slot' = slot
      BY <2>12, <1>t DEF RegisterFdWaker
    <3>2. /\ t \in Tasks /\ h \in Tasks /\ state[t] = "live" /\ slot[t] = slot[h]
          /\ fd[t] \in AllFds /\ s \in Seq(Tasks)
      BY <2>12, <1>t, <1>o, <2>a DEF RegisterFdWaker, ControlOf, InPoll, Placement
    <3>3. fd[t] \in open \cup {ListenFd}
      BY <1>o, <3>2 DEF Ownership, Tasks
    <3>4. \A f \in AllFds, g, u \in Tasks : Leads(f, g, u)' <=> Leads(f, g, u)
      BY <3>1 DEF Leads, InSlot
    <3>5. \A i \in 1..Len(s) : \E u \in Tasks : Leads(fd[t], s[i], u)
      <4>1. CASE regEvents[fd[t]] = "none"
        <5>1. s = <<>>
          BY <3>2, <4>1 DEF IndInv, TypeOK
        <5> QED BY <5>1
      <4>2. CASE regEvents[fd[t]] # "none"
        BY <1>o, <3>2, <4>2 DEF RegistryNamesSlot, Leads
      <4> QED BY <4>1, <4>2
    <3>6. /\ Append(s, h) \in Seq(Tasks) /\ Len(Append(s, h)) = Len(s) + 1
          /\ \A i \in 1..Len(s) : Append(s, h)[i] = s[i]
          /\ Append(s, h)[Len(s) + 1] = h
      BY ONLY <3>2, AppendProperties
    <3>7. \A i \in DOMAIN Append(s, h) : \E u \in Tasks : Leads(fd[t], Append(s, h)[i], u)
      <4>1. DOMAIN Append(s, h) = 1..(Len(s) + 1) /\ Len(s) \in Nat
        BY <3>2, <3>6
      <4>2. Leads(fd[t], h, t)
        BY <3>2 DEF Leads, InSlot
      <4> HIDE DEF s, t, h
      <4>3. TAKE i \in DOMAIN Append(s, h)
      <4>4. i \in 1..Len(s) \/ i = Len(s) + 1
        BY <4>1
      <4> QED BY <3>2, <3>5, <3>6, <4>2, <4>4
    <3> HIDE DEF s, t, h
    <3>8. ASSUME NEW f \in AllFds, regEvents'[f] # "none", f # fd[t]
          PROVE  /\ f \in open' \cup {ListenFd}
                 /\ \A i \in DOMAIN regWaiters'[f] :
                      \E u \in Tasks : Leads(f, regWaiters'[f][i], u)
      BY <3>1, <3>8, <1>t, <1>o DEF RegistryNamesSlot, Leads
    <3>9. regWaiters'[fd[t]] = Append(s, h)
      BY <3>1, <3>2, <1>t
    <3>10. ASSUME NEW f \in AllFds, regEvents'[f] # "none"
           PROVE  /\ f \in open' \cup {ListenFd}
                  /\ \A i \in DOMAIN regWaiters'[f] :
                       \E u \in Tasks : Leads(f, regWaiters'[f][i], u)
      BY <3>1, <3>3, <3>7, <3>8, <3>9, <3>10
    <3> QED BY <3>1, <3>10 DEF RegistryNamesSlot, Leads, InSlot
  <2>13. CASE UnregisterFd(w)
    <3>1. \A f \in AllFds : regEvents'[f] # "none" =>
            regEvents'[f] = regEvents[f] /\ regWaiters'[f] = regWaiters[f]
      BY <2>13, <1>t DEF UnregisterFd, RemoveEntry
    <3> QED BY <2>13, <3>1, <1>o DEF UnregisterFd, RegistryNamesSlot, InSlot
  <2>14. CASE RefreshSignal(w)
    BY <2>14, <1>k DEF RefreshSignal
  <2>15. CASE CloseFd(w)
    <3>1. regEvents[fd[polled[w]]] = "none" /\ polled[w] \in Tasks
      BY <2>15, <1>o, <2>a DEF CloseFd, Ownership, ControlOf, InPoll
    <3>2. /\ regEvents' = regEvents /\ regWaiters' = regWaiters /\ fd' = fd /\ slot' = slot
          /\ open' = open \ {fd[polled[w]]}
          /\ state' = [state EXCEPT ![polled[w]] = "done"]
      BY <2>15 DEF CloseFd, CloseSocket, FreeSlot
    <3>3. ASSUME NEW f \in AllFds, regEvents[f] # "none"
          PROVE  /\ f \in open' \cup {ListenFd}
                 /\ \A i \in DOMAIN regWaiters[f] :
                      \E t \in Tasks : fd[t] = f /\ InSlot(t, regWaiters[f][i])'
      <4>1. f # fd[polled[w]] /\ f \in open \cup {ListenFd}
        BY <1>o, <3>1, <3>3 DEF RegistryNamesSlot
      <4>2. ASSUME NEW i \in DOMAIN regWaiters[f]
            PROVE  \E t \in Tasks : fd[t] = f /\ InSlot(t, regWaiters[f][i])'
        <5>1. PICK t \in Tasks : fd[t] = f /\ state[t] = "live"
                                  /\ slot[t] = slot[regWaiters[f][i]]
          BY <1>o, <3>3 DEF RegistryNamesSlot, InSlot
        <5>2. state'[t] = "live"
          BY <1>t, <3>2, <4>1, <5>1
        <5> QED BY <3>2, <5>1, <5>2 DEF InSlot
      <4> QED BY <3>2, <4>1, <4>2
    <3> QED BY <3>2, <3>3 DEF RegistryNamesSlot
  <2>16. CASE WakePush(w)
    BY <2>16, <1>k DEF WakePush
  <2>17. CASE WakeSignal(w)
    BY <2>17, <1>k DEF WakeSignal
  <2>18. CASE Snapshot(w)
    BY <2>18, <1>k DEF Snapshot
  <2>19. CASE Ppoll(w)
    BY <2>19, <1>k DEF Ppoll
  <2>20. CASE PpollError(w)
    BY <2>20, <1>k DEF PpollError
  <2>21. CASE Drain(w)
    BY <2>21, <1>k DEF Drain
  <2>22. CASE ScanFd(w)
    <3>1. \A f \in AllFds : regEvents'[f] # "none" =>
            regEvents'[f] = regEvents[f] /\ regWaiters'[f] = regWaiters[f]
      BY <2>22, <1>t DEF ScanFd, RemoveEntry
    <3> QED BY <2>22, <3>1, <1>o DEF ScanFd, RegistryNamesSlot, InSlot
  <2>23. CASE ScanDone(w)
    BY <2>23, <1>k DEF ScanDone
  <2> QED BY <1>3, <2>1, <2>2, <2>3, <2>3e, <2>4, <2>5, <2>6, <2>7, <2>8, <2>9,
       <2>10, <2>11, <2>12, <2>13, <2>14, <2>15, <2>16, <2>17, <2>18, <2>19, <2>20,
       <2>21, <2>22, <2>23 DEF Worker, Handler
<1> QED BY <1>1, <1>2, <1>3 DEF Next

-----------------------------------------------------------------------------

\* start_workers finds the server in a state that satisfies the invariant.
LEMMA IndInvInit == Init => IndInv
  <1> SUFFICES ASSUME Init PROVE IndInv
    OBVIOUS
  <1> USE ReactorAssumption DEF Init, Tasks, AllFds, NoEntries
  <1>1. TypeOK
    BY DEF TypeOK, Events, PcValues, Phases
  <1>2. Control /\ Ownership
    BY DEF Control, ControlOf, Ownership, InPoll, Closing, Waking
  <1>3. Placement
    BY DEF Placement
  <1>4. RegistryNamesSlot
    BY DEF RegistryNamesSlot
  <1> QED BY <1>1, <1>2, <1>3, <1>4 DEF IndInv

\* One step of any client or worker keeps the inductive invariant.
LEMMA IndInvStep == IndInv /\ [Next]_vars => IndInv'
  BY TypeStep, ControlStep, OwnershipStep, PlacementStep, RegistryStep DEF IndInv

\* The strengthened invariant holds of every behaviour of the server.
THEOREM IndInvAlways == Spec => []IndInv
  BY IndInvInit, IndInvStep, PTL DEF Spec

\* Types, and a registry entry has wakers and only an entry has (io_registry).
THEOREM TypeCorrect == Spec => []TypeOK
<1>1. IndInv => TypeOK
  BY DEF IndInv
<1> QED BY <1>1, IndInvAlways, PTL

\* unregister_fd before close: whatever the number of workers, connections,
\* descriptors and slots, and however descriptors and slots are reused, an entry of
\* IO_REG is for an open socket and wakes handles that lead to its owner's slot.
THEOREM RegistrySound == Spec => []RegistryNamesSlot
<1>1. IndInv => RegistryNamesSlot
  BY DEF IndInv
<1> QED BY <1>1, IndInvAlways, PTL

-----------------------------------------------------------------------------
(* Waiting workers.                                                        *)

\* A worker that stops being on its way to the schedule leaves it empty, or
\* leaves the eventfd readable.
LEMMA NoStrandedWorkStep == TypeOK /\ NoStrandedWork /\ [Next]_vars => NoStrandedWork'
<1> SUFFICES ASSUME TypeOK /\ NoStrandedWork, [Next]_vars PROVE NoStrandedWork'
  OBVIOUS
<1> USE DEF NoStrandedWork, Waiting
<1>t. /\ pc \in [Workers -> PcValues]
      /\ snap \in [Workers -> [AllFds -> Events \cup {"none"}]]
      /\ evt \in {0, 1}
  BY DEF TypeOK
<1> USE DEF queueVars, regVars, taskVars, slotVars, sockVars, localVars, pollVars
<1>1. CASE UNCHANGED vars
  BY <1>1, <1>t DEF vars
<1>2. ASSUME NEW c \in Conns, Client(c) PROVE NoStrandedWork'
  <2>1. CASE ClientConnect(c)
    BY <2>1, <1>t DEF ClientConnect
  <2>2. CASE ClientSend(c)
    BY <2>2, <1>t DEF ClientSend
  <2>3. CASE ClientRead(c)
    BY <2>3, <1>t DEF ClientRead
  <2>4. CASE ClientClose(c)
    BY <2>4, <1>t DEF ClientClose
  <2> QED BY <1>2, <2>1, <2>2, <2>3, <2>4 DEF Client
<1>3. ASSUME NEW w \in Workers, Worker(w) PROVE NoStrandedWork'
  <2>1. CASE TakeTask(w)
    BY <2>1, <1>t DEF TakeTask, Goto
  <2>2. CASE TakeNone(w)
    BY <2>2, <1>t DEF TakeNone, Goto
  <2>3. CASE CheckHandle(w)
    BY <2>3, <1>t DEF CheckHandle, Dismiss, Goto
  <2>3e. CASE SlotEmpty(w)
    BY <2>3e, <1>t DEF SlotEmpty, Dismiss, Goto
  <2>4. CASE LockSlot(w)
    BY <2>4, <1>t DEF LockSlot, Goto
  <2>5. ASSUME NEW c \in Conns, RecvData(w, c) PROVE NoStrandedWork'
    BY <2>5, <1>t DEF RecvData, NextFuture, Continue, Polling
  <2>6. ASSUME NEW c \in Conns, RecvEmpty(w, c) PROVE NoStrandedWork'
    BY <2>6, <1>t DEF RecvEmpty, NextFuture, Continue, Polling
  <2>7. ASSUME NEW c \in Conns, SendData(w, c) PROVE NoStrandedWork'
    BY <2>7, <1>t DEF SendData, Polling, NextFuture, Continue
  <2>8. CASE Accept(w)
    BY <2>8, <1>t DEF Accept, Polling, Backlog, Goto
  <2>9. CASE AcceptError(w)
    BY <2>9, <1>t DEF AcceptError, Polling, Backlog
  <2>10. CASE WouldBlock(w)
    BY <2>10, <1>t DEF WouldBlock, Goto
  <2>11. CASE StillPending(w)
    BY <2>11, <1>t DEF StillPending, Suspend, Leave
  <2>12. CASE RegisterFdWaker(w)
    BY <2>12, <1>t DEF RegisterFdWaker, Suspend, Leave, Direction
  <2>13. CASE UnregisterFd(w)
    BY <2>13, <1>t DEF UnregisterFd, RemoveEntry, Goto
  <2>14. CASE RefreshSignal(w)
    BY <2>14, <1>t DEF RefreshSignal, Goto
  <2>15. CASE CloseFd(w)
    BY <2>15, <1>t DEF CloseFd, CloseSocket, FreeSlot, Suspend, Leave
  <2>16. CASE WakePush(w)
    BY <2>16, <1>t DEF WakePush, Goto
  <2>17. CASE WakeSignal(w)
    BY <2>17, <1>t DEF WakeSignal, AfterWake, Goto
  <2>18. CASE Snapshot(w)
    BY <2>18, <1>t DEF Snapshot, Goto
  <2>19. CASE Ppoll(w)
    BY <2>19, <1>t DEF Ppoll, Goto
  <2>20. CASE PpollError(w)
    BY <2>20, <1>t DEF PpollError, Goto
  <2>21. CASE Drain(w)
    BY <2>21, <1>t DEF Drain, Goto
  <2>22. CASE ScanFd(w)
    BY <2>22, <1>t DEF ScanFd, RemoveEntry
  <2>23. CASE ScanDone(w)
    BY <2>23, <1>t DEF ScanDone, Goto
  <2> QED BY <1>3, <2>1, <2>2, <2>3, <2>3e, <2>4, <2>5, <2>6, <2>7, <2>8, <2>9,
       <2>10, <2>11, <2>12, <2>13, <2>14, <2>15, <2>16, <2>17, <2>18, <2>19, <2>20,
       <2>21, <2>22, <2>23 DEF Worker, Handler
<1> QED BY <1>1, <1>2, <1>3 DEF Next

\* The last worker to block has taken its fd list after every registration.
LEMMA WatchedStep == TypeOK /\ Watched /\ [Next]_vars => Watched'
<1> SUFFICES ASSUME TypeOK /\ Watched, [Next]_vars PROVE Watched'
  OBVIOUS
<1> USE DEF Watched
<1>t. /\ pc \in [Workers -> PcValues]
      /\ snap \in [Workers -> [AllFds -> Events \cup {"none"}]]
      /\ evt \in {0, 1}
  BY DEF TypeOK
<1> USE DEF queueVars, regVars, taskVars, slotVars, sockVars, localVars, pollVars
<1>1. CASE UNCHANGED vars
  BY <1>1, <1>t DEF vars
<1>2. ASSUME NEW c \in Conns, Client(c) PROVE Watched'
  <2>1. CASE ClientConnect(c)
    BY <2>1, <1>t DEF ClientConnect
  <2>2. CASE ClientSend(c)
    BY <2>2, <1>t DEF ClientSend
  <2>3. CASE ClientRead(c)
    BY <2>3, <1>t DEF ClientRead
  <2>4. CASE ClientClose(c)
    BY <2>4, <1>t DEF ClientClose
  <2> QED BY <1>2, <2>1, <2>2, <2>3, <2>4 DEF Client
<1>3. ASSUME NEW w \in Workers, Worker(w) PROVE Watched'
  <2>1. CASE TakeTask(w)
    BY <2>1, <1>t DEF TakeTask, Goto
  <2>2. CASE TakeNone(w)
    BY <2>2, <1>t DEF TakeNone, Goto
  <2>3. CASE CheckHandle(w)
    BY <2>3, <1>t DEF CheckHandle, Dismiss, Goto
  <2>3e. CASE SlotEmpty(w)
    BY <2>3e, <1>t DEF SlotEmpty, Dismiss, Goto
  <2>4. CASE LockSlot(w)
    BY <2>4, <1>t DEF LockSlot, Goto
  <2>5. ASSUME NEW c \in Conns, RecvData(w, c) PROVE Watched'
    BY <2>5, <1>t DEF RecvData, NextFuture, Continue, Polling
  <2>6. ASSUME NEW c \in Conns, RecvEmpty(w, c) PROVE Watched'
    BY <2>6, <1>t DEF RecvEmpty, NextFuture, Continue, Polling
  <2>7. ASSUME NEW c \in Conns, SendData(w, c) PROVE Watched'
    BY <2>7, <1>t DEF SendData, Polling, NextFuture, Continue
  <2>8. CASE Accept(w)
    BY <2>8, <1>t DEF Accept, Polling, Backlog, Goto
  <2>9. CASE AcceptError(w)
    BY <2>9, <1>t DEF AcceptError, Polling, Backlog
  <2>10. CASE WouldBlock(w)
    BY <2>10, <1>t DEF WouldBlock, Goto
  <2>11. CASE StillPending(w)
    BY <2>11, <1>t DEF StillPending, Suspend, Leave
  <2>12. CASE RegisterFdWaker(w)
    BY <2>12, <1>t DEF RegisterFdWaker, Suspend, Leave, Direction
  <2>13. CASE UnregisterFd(w)
    BY <2>13, <1>t DEF UnregisterFd, RemoveEntry, Goto
  <2>14. CASE RefreshSignal(w)
    BY <2>14, <1>t DEF RefreshSignal, Goto
  <2>15. CASE CloseFd(w)
    BY <2>15, <1>t DEF CloseFd, CloseSocket, FreeSlot, Suspend, Leave
  <2>16. CASE WakePush(w)
    BY <2>16, <1>t DEF WakePush, Goto
  <2>17. CASE WakeSignal(w)
    BY <2>17, <1>t DEF WakeSignal, AfterWake, Goto
  <2>18. CASE Snapshot(w)
    BY <2>18, <1>t DEF Snapshot, Goto
  <2>19. CASE Ppoll(w)
    BY <2>19, <1>t DEF Ppoll, Goto
  <2>20. CASE PpollError(w)
    BY <2>20, <1>t DEF PpollError, Goto
  <2>21. CASE Drain(w)
    BY <2>21, <1>t DEF Drain, Goto
  <2>22. CASE ScanFd(w)
    BY <2>22, <1>t DEF ScanFd, RemoveEntry
  <2>23. CASE ScanDone(w)
    BY <2>23, <1>t DEF ScanDone, Goto
  <2> QED BY <1>3, <2>1, <2>2, <2>3, <2>3e, <2>4, <2>5, <2>6, <2>7, <2>8, <2>9,
       <2>10, <2>11, <2>12, <2>13, <2>14, <2>15, <2>16, <2>17, <2>18, <2>19, <2>20,
       <2>21, <2>22, <2>23 DEF Worker, Handler
<1> QED BY <1>1, <1>2, <1>3 DEF Next

\* No lost wake-up, for any number of workers: a scheduled handle never waits
\* with every worker blocked and nothing to wake one (worker_loop, wake_handle).
THEOREM NoLostWakeup == Spec => []NoStrandedWork
<1>1. Init => NoStrandedWork
  BY DEF Init, NoStrandedWork
<1> QED BY <1>1, TypeCorrect, NoStrandedWorkStep, PTL DEF Spec

\* However workers race for the blocking eventfd read in ppoll_and_schedule, the
\* registry is watched by a ppoll, the eventfd is readable or a worker is running.
THEOREM RegistryWatched == Spec => []Watched
<1>1. Init => Watched
  BY DEF Init, Watched
<1> QED BY <1>1, TypeCorrect, WatchedStep, PTL DEF Spec

-----------------------------------------------------------------------------
(* The wakes of a task: for any number of workers they do not multiply,    *)
(* and a single worker never loses the last one.                           *)

IsSched(x, t, sc) == \E i \in DOMAIN sc : sc[i] = t /\ x = <<"sched", i>>
IsPoll(x, t, cu) == \E w \in Workers : cu[w] = t /\ x = <<"poll", w>>
IsWaker(x, t, rw) ==
  \E f \in AllFds : \E i \in DOMAIN rw[f] : rw[f][i] = t /\ x = <<"waker", f, i>>
IsToWake(x, t, wq) ==
  \E w \in Workers : \E i \in DOMAIN wq[w] : wq[w][i] = t /\ x = <<"to_wake", w, i>>

\* The four kinds of token.
LEMMA TokenKinds ==
  ASSUME NEW t, NEW sc, NEW cu, NEW rw, NEW wq, NEW x
  PROVE x \in TokensIn(t, sc, cu, rw, wq) <=>
          \/ IsSched(x, t, sc) \/ IsPoll(x, t, cu)
          \/ IsWaker(x, t, rw) \/ IsToWake(x, t, wq)
  <1>1. x \in SchedTokens(t, sc) <=> IsSched(x, t, sc)
    BY DEF SchedTokens, IsSched
  <1>2. x \in PollTokens(t, cu) <=> IsPoll(x, t, cu)
    BY DEF PollTokens, IsPoll
  <1>3. x \in WakerTokens(t, rw) <=> IsWaker(x, t, rw)
    BY DEF WakerTokens, IsWaker
  <1>4. x \in ToWakeTokens(t, wq) <=> IsToWake(x, t, wq)
    BY DEF ToWakeTokens, IsToWake
  <1> QED  BY <1>1, <1>2, <1>3, <1>4 DEF TokensIn

\* A set that maps into a finite one and back is no larger.
LEMMA Carried ==
  ASSUME NEW S, NEW T, IsFiniteSet(S), NEW g, NEW k,
         \A x \in T : g[x] \in S /\ k[g[x]] = x
  PROVE /\ IsFiniteSet(T)
        /\ Cardinality(T) <= Cardinality(S)
        /\ S = {} => T = {}
  <1> DEFINE m == [x \in T |-> g[x]]
  <1>1. m \in [T -> S] /\ \A x, y \in T : m[x] = m[y] => x = y
    <2>1. \A x, y \in T : g[x] = g[y] => x = y
      BY Zenon
    <2> QED  BY <2>1
  <1>2. m \in Injection(T, S)
    BY <1>1 DEF Injection, IsInjective
  <1> QED  BY <1>2, FS_Injection

\* Two elements at most.
LEMMA PairSize ==
  ASSUME NEW a, NEW b
  PROVE  IsFiniteSet({a, b}) /\ Cardinality({a, b}) <= 2
  <1> DEFINE A == {a}
  <1>1. IsFiniteSet(A) /\ Cardinality(A) = 1
    BY FS_Singleton
  <1> HIDE DEF A
  <1>2. /\ IsFiniteSet(A \cup {b})
       
            /\ Cardinality(A \cup {b}) = IF b \in A THEN Cardinality(A) ELSE Cardinality(A) + 1
    BY <1>1, FS_AddElement
  <1>3. {a, b} = A \cup {b}
    BY DEF A
  <1> QED  BY <1>1, <1>2, <1>3

\* Fewer tokens.
LEMMA Dropped ==
  ASSUME NEW S, NEW T, IsFiniteSet(S), T \subseteq S
  PROVE /\ IsFiniteSet(T)
        /\ Cardinality(T) <= Cardinality(S)
        /\ S = {} => T = {}
  BY FS_Subset

-----------------------------------------------------------------------------
(* Tokens change hands.                                                    *)

\* take_scheduled_task: the first place in the schedule becomes a poll.
LEMMA TakeCarries ==
  ASSUME TypeOK, NEW w \in Workers, TakeTask(w), NEW t \in Tasks, IsFiniteSet(Tokens(t))
  PROVE /\ IsFiniteSet(Tokens(t)')
        /\ Cardinality(Tokens(t)') <= Cardinality(Tokens(t))
        /\ Tokens(t) = {} => Tokens(t)' = {}
  <1> DEFINE S == TokensIn(t, sched, cur, regWaiters, wakeq)
             T == TokensIn(t, sched', cur', regWaiters, wakeq)
             g == [x \in T |-> IF x[1] = "sched" THEN <<"sched", x[2] + 1>>
                               ELSE IF x = <<"poll", w>> THEN <<"sched", 1>> ELSE x]
             k == [y \in S |-> IF y = <<"sched", 1>> THEN <<"poll", w>>
                               ELSE IF y[1] = "sched" THEN <<"sched", y[2] - 1>> ELSE y]
  <1>1. S = Tokens(t) /\ T = Tokens(t)'
    BY DEF Tokens, TakeTask, regVars
  <1>2. /\ sched \in Seq(Tasks) /\ sched # <<>> /\ Len(sched) \in Nat \ {0}
        /\ DOMAIN sched = 1 .. Len(sched) /\ DOMAIN sched' = 1 .. Len(sched) - 1
        /\ \A i \in 1 .. Len(sched) - 1 : sched'[i] = sched[i + 1]
        /\ cur'[w] = sched[1] /\ \A v \in Workers : v # w => cur'[v] = cur[v]
    BY DEF TypeOK, TakeTask
  <1>3. ASSUME NEW x \in T PROVE g[x] \in S /\ k[g[x]] = x
    <2> HIDE DEF S, T
    <2>1. CASE IsSched(x, t, sched')
      <3>1. PICK i \in DOMAIN sched' : sched'[i] = t /\ x = <<"sched", i>>
        BY <2>1 DEF IsSched
      <3>2. i + 1 \in DOMAIN sched /\ sched[i + 1] = t /\ i \in Nat \ {0}
        BY <3>1, <1>2
      <3>3. <<"sched", i + 1>> \in S
        BY <3>2, TokenKinds DEF IsSched, S
      <3>4. g[x] = <<"sched", i + 1>>
        BY <3>1
      <3> QED  BY <3>1, <3>2, <3>3, <3>4
    <2>2. CASE IsPoll(x, t, cur')
      <3>1. PICK v \in Workers : cur'[v] = t /\ x = <<"poll", v>>
        BY <2>2 DEF IsPoll
      <3>2. CASE v = w
        <4>1. <<"sched", 1>> \in S
          BY <1>2, <3>1, <3>2, TokenKinds DEF IsSched, S
        <4> QED  BY <3>1, <3>2, <4>1
      <3>3. CASE v # w
        <4>1. x \in S
          BY <1>2, <3>1, <3>3, TokenKinds DEF IsPoll, S
        <4> QED  BY <3>1, <3>3, <4>1
      <3> QED  BY <3>2, <3>3
    <2>3. CASE IsWaker(x, t, regWaiters)
      <3>1. x \in S
        BY <2>3, TokenKinds DEF S
      <3>2. x[1] = "waker"
        BY <2>3 DEF IsWaker
      <3> QED  BY <3>1, <3>2
    <2>4. CASE IsToWake(x, t, wakeq)
      <3>1. x \in S
        BY <2>4, TokenKinds DEF S
      <3>2. x[1] = "to_wake"
        BY <2>4 DEF IsToWake
      <3> QED  BY <3>1, <3>2
    <2> QED  BY <2>1, <2>2, <2>3, <2>4, TokenKinds DEF T
  <1> HIDE DEF g, k, S, T
  <1> QED  BY <1>1, <1>3, Carried

\* wake_handle's push: the first entry of to_wake becomes the head of the schedule.
LEMMA PushCarries ==
  ASSUME TypeOK, NEW w \in Workers, WakePush(w), wakeq[w] # <<>>,
         NEW t \in Tasks, IsFiniteSet(Tokens(t))
  PROVE /\ IsFiniteSet(Tokens(t)')
        /\ Cardinality(Tokens(t)') <= Cardinality(Tokens(t))
        /\ Tokens(t) = {} => Tokens(t)' = {}
  <1> DEFINE S == TokensIn(t, sched, cur, regWaiters, wakeq)
             T == TokensIn(t, sched', cur, regWaiters, wakeq')
             g == [x \in T |-> IF x = <<"sched", 1>> THEN <<"to_wake", w, 1>>
                               ELSE IF x[1] = "sched" THEN <<"sched", x[2] - 1>>
                               ELSE IF x[1] = "to_wake" /\ x[2] = w
                                    THEN <<"to_wake", w, x[3] + 1>> ELSE x]
             k == [y \in S |-> IF y = <<"to_wake", w, 1>> THEN <<"sched", 1>>
                               ELSE IF y[1] = "sched" THEN <<"sched", y[2] + 1>>
                               ELSE IF y[1] = "to_wake" /\ y[2] = w
                                    THEN <<"to_wake", w, y[3] - 1>> ELSE y]
             q == wakeq[w]
  <1>1. S = Tokens(t) /\ T = Tokens(t)'
    BY DEF Tokens, WakePush, regVars, pollVars
  <1>2. /\ sched \in Seq(Tasks) /\ q \in Seq(Tasks) /\ q # <<>>
        /\ wakeq'[w] = Tail(q)
        /\ \A v \in Workers : v # w => wakeq'[v] = wakeq[v]
        /\ sched' = <<Head(q)>> \o sched
    BY DEF TypeOK, WakePush
  <1>3. /\ Len(sched) \in Nat /\ DOMAIN sched = 1 .. Len(sched)
        /\ DOMAIN sched' = 1 .. Len(sched) + 1
        /\ sched'[1] = q[1]
        /\ \A i \in 2 .. Len(sched) + 1 : sched'[i] = sched[i - 1]
    BY <1>2
  <1>4. /\ Len(q) \in Nat \ {0} /\ DOMAIN q = 1 .. Len(q)
        /\ DOMAIN wakeq'[w] = 1 .. Len(q) - 1
        /\ \A i \in 1 .. Len(q) - 1 : wakeq'[w][i] = q[i + 1]
    BY <1>2
  <1>5. ASSUME NEW x \in T PROVE g[x] \in S /\ k[g[x]] = x
    <2> HIDE DEF S, T
    <2>1. CASE IsSched(x, t, sched')
      <3>1. PICK i \in DOMAIN sched' : sched'[i] = t /\ x = <<"sched", i>>
        BY <2>1 DEF IsSched
      <3>2. CASE i = 1
        <4>1. <<"to_wake", w, 1>> \in S
          BY <1>3, <1>4, <3>1, <3>2, TokenKinds DEF IsToWake, S
        <4> QED  BY <3>1, <3>2, <4>1
      <3>3. CASE i # 1
        <4>1. i - 1 \in DOMAIN sched /\ sched[i - 1] = t /\ i \in Nat /\ i > 1
          BY <3>1, <3>3, <1>3
        <4>2. <<"sched", i - 1>> \in S
          BY <4>1, TokenKinds DEF IsSched, S
        <4>3. g[x] = <<"sched", i - 1>>
          BY <3>1, <3>3
        <4> QED  BY <3>1, <4>1, <4>2, <4>3
      <3> QED  BY <3>2, <3>3
    <2>2. CASE IsPoll(x, t, cur)
      <3>1. x \in S /\ x[1] = "poll"
        BY <2>2, TokenKinds DEF S, IsPoll
      <3> QED  BY <3>1
    <2>3. CASE IsWaker(x, t, regWaiters)
      <3>1. x \in S /\ x[1] = "waker"
        BY <2>3, TokenKinds DEF S, IsWaker
      <3> QED  BY <3>1
    <2>4. CASE IsToWake(x, t, wakeq')
      <3>1. PICK v \in Workers : \E i \in DOMAIN wakeq'[v] :
              wakeq'[v][i] = t /\ x = <<"to_wake", v, i>>
        BY <2>4 DEF IsToWake
      <3>2. PICK i \in DOMAIN wakeq'[v] : wakeq'[v][i] = t /\ x = <<"to_wake", v, i>>
        BY <3>1
      <3>3. CASE v = w
        <4>1. i + 1 \in DOMAIN q /\ q[i + 1] = t /\ i \in Nat \ {0}
          BY <1>4, <3>2, <3>3
        <4>2. <<"to_wake", w, i + 1>> \in S
          BY <4>1, TokenKinds DEF S, IsToWake
        <4>3. g[x] = <<"to_wake", w, i + 1>>
          BY <3>2, <3>3
        <4> QED  BY <3>2, <3>3, <4>1, <4>2, <4>3
      <3>4. CASE v # w
        <4>1. x \in S
          BY <1>2, <3>2, <3>4, TokenKinds DEF S, IsToWake
        <4> QED  BY <3>2, <3>4, <4>1
      <3> QED  BY <3>3, <3>4
    <2> QED  BY <2>1, <2>2, <2>3, <2>4, TokenKinds DEF T
  <1> HIDE DEF g, k, S, T
  <1> QED  BY <1>1, <1>5, Carried

\* register_fd_waker: the poll that ends becomes the entry's last waker.
LEMMA RegisterCarries ==
  ASSUME IndInv, NEW w \in Workers, RegisterFdWaker(w), NEW t \in Tasks,
         IsFiniteSet(Tokens(t))
  PROVE /\ IsFiniteSet(Tokens(t)')
        /\ Cardinality(Tokens(t)') <= Cardinality(Tokens(t))
        /\ Tokens(t) = {} => Tokens(t)' = {}
  <1> DEFINE f == fd[polled[w]]
             n == Len(regWaiters[f])
             S == TokensIn(t, sched, cur, regWaiters, wakeq)
             T == TokensIn(t, sched, cur', regWaiters', wakeq)
             g == [x \in T |-> IF x = <<"waker", f, n + 1>> THEN <<"poll", w>> ELSE x]
             k == [y \in S |-> IF y = <<"poll", w>> THEN <<"waker", f, n + 1>> ELSE y]
  <1>1. S = Tokens(t) /\ T = Tokens(t)'
    BY DEF Tokens, RegisterFdWaker, queueVars
  <1>2. /\ cur[w] \in Tasks /\ f \in AllFds
        /\ cur'[w] = None /\ \A v \in Workers : v # w => cur'[v] = cur[v]
        /\ regWaiters[f] \in Seq(Tasks)
        /\ regWaiters'[f] = Append(regWaiters[f], cur[w])
        /\ \A e \in AllFds : e # f => regWaiters'[e] = regWaiters[e]
    BY DEF IndInv, Control, ControlOf, InPoll, TypeOK, RegisterFdWaker, Suspend, Leave
  <1>3. /\ n \in Nat /\ DOMAIN regWaiters[f] = 1 .. n
        /\ DOMAIN regWaiters'[f] = 1 .. n + 1
        /\ regWaiters'[f][n + 1] = cur[w]
        /\ \A i \in 1 .. n : regWaiters'[f][i] = regWaiters[f][i]
    BY <1>2
  <1>4. None \notin Tasks
    BY ReactorAssumption
  <1>5. ASSUME NEW x \in T PROVE g[x] \in S /\ k[g[x]] = x
    <2> HIDE DEF S, T
    <2>1. CASE IsSched(x, t, sched)
      <3>1. x \in S /\ x[1] = "sched"
        BY <2>1, TokenKinds DEF S, IsSched
      <3> QED  BY <3>1
    <2>2. CASE IsPoll(x, t, cur')
      <3>1. PICK v \in Workers : cur'[v] = t /\ x = <<"poll", v>>
        BY <2>2 DEF IsPoll
      <3>2. v # w /\ cur[v] = t
        BY <3>1, <1>2, <1>4
      <3>3. x \in S
        BY <3>1, <3>2, TokenKinds DEF S, IsPoll
      <3> QED  BY <3>1, <3>2, <3>3
    <2>3. CASE IsWaker(x, t, regWaiters')
      <3>1. PICK e \in AllFds : \E i \in DOMAIN regWaiters'[e] :
              regWaiters'[e][i] = t /\ x = <<"waker", e, i>>
        BY <2>3 DEF IsWaker
      <3>2. PICK i \in DOMAIN regWaiters'[e] :
              regWaiters'[e][i] = t /\ x = <<"waker", e, i>>
        BY <3>1
      <3>3. CASE e = f /\ i = n + 1
        <4>1. <<"poll", w>> \in S
          BY <1>3, <3>2, <3>3, TokenKinds DEF S, IsPoll
        <4> QED  BY <3>2, <3>3, <4>1
      <3>4. CASE ~(e = f /\ i = n + 1)
        <4>1. i \in DOMAIN regWaiters[e] /\ regWaiters[e][i] = t
          <5>1. CASE e = f
            <6>1. i \in 1 .. n
              BY <1>3, <3>2, <3>4, <5>1
            <6> QED  BY <1>3, <3>2, <5>1, <6>1
          <5>2. CASE e # f
            BY <1>2, <3>2, <5>2
          <5> QED  BY <5>1, <5>2
        <4>2. x \in S
          BY <3>2, <4>1, TokenKinds DEF S, IsWaker
        <4>3. g[x] = x /\ x # <<"poll", w>>
          BY <3>2, <3>4
        <4> QED  BY <4>2, <4>3
      <3> QED  BY <3>3, <3>4
    <2>4. CASE IsToWake(x, t, wakeq)
      <3>1. x \in S /\ x[1] = "to_wake"
        BY <2>4, TokenKinds DEF S, IsToWake
      <3> QED  BY <3>1
    <2> QED  BY <2>1, <2>2, <2>3, <2>4, TokenKinds DEF T
  <1> HIDE DEF g, k, S, T
  <1> QED  BY <1>1, <1>5, Carried

\* ppoll_and_schedule takes an entry: its wakers become the to_wake list.
LEMMA ScanCarries ==
  ASSUME TypeOK, NEW w \in Workers, ScanFd(w), NEW t \in Tasks, IsFiniteSet(Tokens(t))
  PROVE /\ IsFiniteSet(Tokens(t)')
        /\ Cardinality(Tokens(t)') <= Cardinality(Tokens(t))
        /\ Tokens(t) = {} => Tokens(t)' = {}
  <1>0. PICK f \in AllFds : /\ wakeq' = [wakeq EXCEPT ![w] = regWaiters[f]]
                            /\ regWaiters' = [regWaiters EXCEPT ![f] = <<>>]
    BY DEF ScanFd, RemoveEntry, TypeOK
  <1> DEFINE S == TokensIn(t, sched, cur, regWaiters, wakeq)
             T == TokensIn(t, sched, cur, regWaiters', wakeq')
             g == [x \in T |-> IF x[1] = "to_wake" /\ x[2] = w
                               THEN <<"waker", f, x[3]>> ELSE x]
             k == [y \in S |-> IF y[1] = "waker" /\ y[2] = f
                               THEN <<"to_wake", w, y[3]>> ELSE y]
  <1>1. S = Tokens(t) /\ T = Tokens(t)'
    BY DEF Tokens, ScanFd, queueVars, pollVars
  <1>2. /\ wakeq'[w] = regWaiters[f] /\ regWaiters'[f] = <<>>
        /\ \A v \in Workers : v # w => wakeq'[v] = wakeq[v]
        /\ \A e \in AllFds : e # f => regWaiters'[e] = regWaiters[e]
    BY <1>0 DEF TypeOK
  <1>3. ASSUME NEW x \in T PROVE g[x] \in S /\ k[g[x]] = x
    <2> HIDE DEF S, T
    <2>1. CASE IsSched(x, t, sched)
      <3>1. x \in S /\ x[1] = "sched"
        BY <2>1, TokenKinds DEF S, IsSched
      <3> QED  BY <3>1
    <2>2. CASE IsPoll(x, t, cur)
      <3>1. x \in S /\ x[1] = "poll"
        BY <2>2, TokenKinds DEF S, IsPoll
      <3> QED  BY <3>1
    <2>3. CASE IsWaker(x, t, regWaiters')
      <3>1. PICK e \in AllFds : \E i \in DOMAIN regWaiters'[e] :
              regWaiters'[e][i] = t /\ x = <<"waker", e, i>>
        BY <2>3 DEF IsWaker
      <3>2. e # f /\ x[1] = "waker" /\ x[2] = e
        BY <1>2, <3>1
      <3>3. x \in S
        BY <1>2, <3>1, <3>2, TokenKinds DEF S, IsWaker
      <3> QED  BY <3>2, <3>3
    <2>4. CASE IsToWake(x, t, wakeq')
      <3>1. PICK v \in Workers : \E i \in DOMAIN wakeq'[v] :
              wakeq'[v][i] = t /\ x = <<"to_wake", v, i>>
        BY <2>4 DEF IsToWake
      <3>2. PICK i \in DOMAIN wakeq'[v] : wakeq'[v][i] = t /\ x = <<"to_wake", v, i>>
        BY <3>1
      <3>3. CASE v = w
        <4>1. <<"waker", f, i>> \in S
          BY <1>2, <3>2, <3>3, TokenKinds DEF S, IsWaker
        <4>2. g[x] = <<"waker", f, i>>
          BY <3>2, <3>3
        <4> QED  BY <3>2, <3>3, <4>1, <4>2
      <3>4. CASE v # w
        <4>1. x \in S
          BY <1>2, <3>2, <3>4, TokenKinds DEF S, IsToWake
        <4> QED  BY <3>2, <3>4, <4>1
      <3> QED  BY <3>3, <3>4
    <2> QED  BY <2>1, <2>2, <2>3, <2>4, TokenKinds DEF T
  <1> HIDE DEF g, k, S, T
  <1>4. IsFiniteSet(S)
    BY <1>1
  <1>5. /\ IsFiniteSet(T)
        /\ Cardinality(T) <= Cardinality(S)
        /\ S = {} => T = {}
    BY <1>3, <1>4, Carried
  <1> QED  BY <1>1, <1>5

\* Polls, wakers and to_wake lists that only lose t leave it fewer tokens.
LEMMA FewerTokens ==
  ASSUME NEW t, NEW sc, NEW cu, NEW rw, NEW wq, NEW cu2, NEW rw2, NEW wq2,
         \A w \in Workers : cu2[w] = t => cu[w] = t,
         \A f \in AllFds : \A i \in DOMAIN rw2[f] : rw2[f][i] = t =>
           i \in DOMAIN rw[f] /\ rw[f][i] = t,
         \A w \in Workers : \A i \in DOMAIN wq2[w] : wq2[w][i] = t =>
           i \in DOMAIN wq[w] /\ wq[w][i] = t
  PROVE TokensIn(t, sc, cu2, rw2, wq2) \subseteq TokensIn(t, sc, cu, rw, wq)
  <1> SUFFICES ASSUME NEW x \in TokensIn(t, sc, cu2, rw2, wq2)
               PROVE  x \in TokensIn(t, sc, cu, rw, wq)
    OBVIOUS
  <1>1. IsPoll(x, t, cu2) => IsPoll(x, t, cu)
    BY DEF IsPoll
  <1>2. IsWaker(x, t, rw2) => IsWaker(x, t, rw)
    BY DEF IsWaker
  <1>3. IsToWake(x, t, wq2) => IsToWake(x, t, wq)
    BY DEF IsToWake
  <1> QED  BY <1>1, <1>2, <1>3, TokenKinds

\* The tokens of t do not multiply.
Kept(t) ==
  /\ IsFiniteSet(Tokens(t)')
  /\ Cardinality(Tokens(t)') <= Cardinality(Tokens(t))
  /\ Tokens(t) = {} => Tokens(t)' = {}

\* accept_loop wakes the new task c twice and drops nobody's wakes.
LEMMA AcceptCarries ==
  ASSUME IndInv, NEW w \in Workers, Accept(w), NEW t \in Tasks, IsFiniteSet(Tokens(t))
  PROVE \/ Kept(t)
        \/ /\ state[t] = "backlog" /\ state'[t] = "live" /\ t \in Conns
           /\ Tokens(t) = {} =>
                IsFiniteSet(Tokens(t)') /\ Cardinality(Tokens(t)') <= 2
  <1>1. PICK c \in Backlog : /\ wakeq' = [wakeq EXCEPT ![w] = <<c, c>>]
                             /\ state' = [state EXCEPT ![c] = "live"]
    BY DEF Accept
  <1>2. /\ wakeq'[w] = <<c, c>>
        /\ \A v \in Workers : v # w => wakeq'[v] = wakeq[v]
        /\ c \in Conns /\ state[c] = "backlog" /\ state'[c] = "live"
    BY <1>1 DEF IndInv, TypeOK, Backlog, Tasks
  <1> DEFINE S == TokensIn(t, sched, cur, regWaiters, wakeq)
             T == TokensIn(t, sched, cur, regWaiters, wakeq')
  <1>3. S = Tokens(t) /\ T = Tokens(t)'
    BY DEF Tokens, Accept, queueVars, regVars, pollVars
  <1>4. CASE t # c
    <2>1. \A v \in Workers : \A i \in DOMAIN wakeq'[v] : wakeq'[v][i] = t =>
            i \in DOMAIN wakeq[v] /\ wakeq[v][i] = t
      <3> SUFFICES ASSUME NEW v \in Workers, NEW i \in DOMAIN wakeq'[v], wakeq'[v][i] = t
                   PROVE  v # w
        BY <1>2
      <3> QED  BY <1>2, <1>4
    <2>2. T \subseteq S
      BY <2>1, FewerTokens
    <2> HIDE DEF S, T
    <2>3. IsFiniteSet(T) /\ Cardinality(T) <= Cardinality(S) /\ (S = {} => T = {})
      BY <1>3, <2>2, Dropped
    <2> QED  BY <1>3, <2>3 DEF Kept
  <1>5. CASE t = c
    <2> DEFINE U == {<<"to_wake", w, 1>>, <<"to_wake", w, 2>>}
    <2>1. ASSUME S = {}, NEW x \in T PROVE x \in U
      <3>1. ~IsSched(x, t, sched) /\ ~IsPoll(x, t, cur) /\ ~IsWaker(x, t, regWaiters)
        BY <2>1, TokenKinds
      <3>2. PICK v \in Workers : \E i \in DOMAIN wakeq'[v] :
              wakeq'[v][i] = t /\ x = <<"to_wake", v, i>>
        BY <2>1, <3>1, TokenKinds DEF IsToWake
      <3>3. PICK i \in DOMAIN wakeq'[v] : wakeq'[v][i] = t /\ x = <<"to_wake", v, i>>
        BY <3>2
      <3>4. v = w
        <4> SUFFICES ASSUME v # w PROVE x \in S
          BY <2>1
        <4> QED  BY <1>2, <3>3, TokenKinds DEF IsToWake
      <3>5. i \in {1, 2}
        BY <1>2, <3>3, <3>4
      <3> QED  BY <3>3, <3>4, <3>5
    <2>2. IsFiniteSet(U) /\ Cardinality(U) <= 2
      BY PairSize
    <2> HIDE DEF S, T, U
    <2>3. S = {} => IsFiniteSet(T) /\ Cardinality(T) <= Cardinality(U)
      <3> SUFFICES ASSUME S = {} PROVE IsFiniteSet(T) /\ Cardinality(T) <= Cardinality(U)
        OBVIOUS
      <3>1. T \subseteq U
        BY <2>1
      <3> QED  BY <2>2, <3>1, FS_Subset
    <2>4. S = {} => Cardinality(U) \in Nat /\ Cardinality(T) \in Nat
      BY <2>2, <2>3, FS_CardinalityType
    <2> QED  BY <1>2, <1>3, <1>5, <2>2, <2>3, <2>4
  <1> QED  BY <1>4, <1>5

\* A step that leaves the schedule alone and drops polls and entries.
LEMMA DropsCarry ==
  ASSUME NEW t \in Tasks, IsFiniteSet(Tokens(t)), sched' = sched, wakeq' = wakeq,
         \A w \in Workers : cur'[w] = t => cur[w] = t,
         \A f \in AllFds : regWaiters'[f] \in {regWaiters[f], <<>>}
  PROVE Kept(t)
  <1>1. \A f \in AllFds : \A i \in DOMAIN regWaiters'[f] : regWaiters'[f][i] = t =>
          i \in DOMAIN regWaiters[f] /\ regWaiters[f][i] = t
    OBVIOUS
  <1> DEFINE S == TokensIn(t, sched, cur, regWaiters, wakeq)
             T == TokensIn(t, sched, cur', regWaiters', wakeq)
  <1>2. S = Tokens(t) /\ T = Tokens(t)'
    BY DEF Tokens
  <1>3. T \subseteq S
    BY <1>1, FewerTokens
  <1> HIDE DEF S, T
  <1>4. IsFiniteSet(T) /\ Cardinality(T) <= Cardinality(S) /\ (S = {} => T = {})
    BY <1>2, <1>3, Dropped
  <1> QED  BY <1>2, <1>4 DEF Kept

-----------------------------------------------------------------------------
(* No step multiplies a task's tokens.                                     *)

\* A step keeps the tokens of t, or accepts t and gives it at most two.
TokenStep(t) ==
  \/ Kept(t) /\ (state'[t] \in {"unborn", "backlog"} =>
                   state[t] \in {"unborn", "backlog"})
  \/ /\ state[t] = "backlog" /\ state'[t] = "live" /\ t \in Conns
     /\ Tokens(t) = {} => IsFiniteSet(Tokens(t)') /\ Cardinality(Tokens(t)') <= 2

LEMMA TokensStep ==
  ASSUME IndInv, [Next]_vars, NEW t \in Tasks, IsFiniteSet(Tokens(t))
  PROVE TokenStep(t)
<1>t. /\ state \in [Tasks -> {"unborn", "backlog", "live", "done"}]
      /\ regWaiters \in [AllFds -> Seq(Tasks)]
      /\ cur \in [Workers -> Tasks \cup {None}]
      /\ None \notin Tasks
  BY ReactorAssumption DEF IndInv, TypeOK
<1>k. ASSUME sched' = sched, regWaiters' = regWaiters, cur' = cur, wakeq' = wakeq,
             state'[t] \in {"unborn", "backlog"} => state[t] \in {"unborn", "backlog"}
      PROVE  TokenStep(t)
  <2>1. Kept(t)
    BY <1>k, DropsCarry
  <2> QED BY <1>k, <2>1 DEF TokenStep
<1> USE DEF queueVars, regVars, taskVars, slotVars, sockVars, localVars, pollVars
<1>1. CASE UNCHANGED vars
  BY <1>1, <1>k DEF vars
<1>2. ASSUME NEW c \in Conns, Client(c) PROVE TokenStep(t)
  <2>1. CASE ClientConnect(c)
    <3>1. state[t] = "unborn" \/ state'[t] = state[t]
      BY <2>1, <1>t DEF ClientConnect
    <3> QED BY <2>1, <3>1, <1>k DEF ClientConnect
  <2>2. CASE ClientSend(c)
    BY <2>2, <1>k DEF ClientSend
  <2>3. CASE ClientRead(c)
    BY <2>3, <1>k DEF ClientRead
  <2>4. CASE ClientClose(c)
    BY <2>4, <1>k DEF ClientClose
  <2> QED BY <1>2, <2>1, <2>2, <2>3, <2>4 DEF Client
<1>3. ASSUME NEW w \in Workers, Worker(w) PROVE TokenStep(t)
  <2>1. CASE TakeTask(w)
    BY <2>1, TakeCarries DEF TakeTask, IndInv, Kept, TokenStep
  <2>2. CASE TakeNone(w)
    BY <2>2, <1>k DEF TakeNone
  <2>3. CASE CheckHandle(w)
    <3>1. \A v \in Workers : cur'[v] = t => cur[v] = t
      BY <2>3, <1>t DEF CheckHandle, Dismiss
    <3>2. Kept(t)
      BY <2>3, <3>1, DropsCarry DEF CheckHandle
    <3> QED BY <2>3, <3>2 DEF CheckHandle, TokenStep
  <2>3e. CASE SlotEmpty(w)
    <3>1. \A v \in Workers : cur'[v] = t => cur[v] = t
      BY <2>3e, <1>t DEF SlotEmpty, Dismiss
    <3>2. Kept(t)
      BY <2>3e, <3>1, DropsCarry DEF SlotEmpty
    <3> QED BY <2>3e, <3>2 DEF SlotEmpty, TokenStep
  <2>4. CASE LockSlot(w)
    BY <2>4, <1>k DEF LockSlot
  <2>5. ASSUME NEW c \in Conns, RecvData(w, c) PROVE TokenStep(t)
    BY <2>5, <1>k DEF RecvData
  <2>6. ASSUME NEW c \in Conns, RecvEmpty(w, c) PROVE TokenStep(t)
    BY <2>6, <1>k DEF RecvEmpty
  <2>7. ASSUME NEW c \in Conns, SendData(w, c) PROVE TokenStep(t)
    BY <2>7, <1>k DEF SendData
  <2>8. CASE Accept(w)
    <3>1. state'[t] \in {"unborn", "backlog"} => state[t] \in {"unborn", "backlog"}
      BY <2>8, <1>t DEF Accept, Backlog, Tasks
    <3> QED BY <2>8, <3>1, AcceptCarries DEF TokenStep
  <2>9. CASE AcceptError(w)
    <3>1. state'[t] \in {"unborn", "backlog"} => state[t] \in {"unborn", "backlog"}
      BY <2>9, <1>t DEF AcceptError, Backlog, Tasks
    <3> QED BY <2>9, <3>1, <1>k DEF AcceptError
  <2>10. CASE WouldBlock(w)
    BY <2>10, <1>k DEF WouldBlock
  <2>11. CASE StillPending(w)
    <3>1. \A v \in Workers : cur'[v] = t => cur[v] = t
      BY <2>11, <1>t DEF StillPending, Suspend, Leave
    <3>2. Kept(t)
      BY <2>11, <3>1, DropsCarry DEF StillPending
    <3> QED BY <2>11, <3>2 DEF StillPending, TokenStep
  <2>12. CASE RegisterFdWaker(w)
    BY <2>12, RegisterCarries DEF RegisterFdWaker, Kept, TokenStep
  <2>13. CASE UnregisterFd(w)
    <3>1. \A f \in AllFds : regWaiters'[f] \in {regWaiters[f], <<>>}
      BY <2>13, <1>t DEF UnregisterFd, RemoveEntry
    <3>2. Kept(t)
      BY <2>13, <3>1, DropsCarry DEF UnregisterFd
    <3> QED BY <2>13, <3>2 DEF UnregisterFd, TokenStep
  <2>14. CASE RefreshSignal(w)
    BY <2>14, <1>k DEF RefreshSignal
  <2>15. CASE CloseFd(w)
    <3>1. \A v \in Workers : cur'[v] = t => cur[v] = t
      BY <2>15, <1>t DEF CloseFd, CloseSocket, FreeSlot, Suspend, Leave
    <3>2. Kept(t)
      BY <2>15, <3>1, DropsCarry DEF CloseFd, CloseSocket, FreeSlot
    <3>3. state'[t] \in {"unborn", "backlog"} => state[t] \in {"unborn", "backlog"}
      BY <2>15, <1>t DEF CloseFd, CloseSocket, FreeSlot
    <3> QED BY <3>2, <3>3 DEF TokenStep
  <2>16. CASE WakePush(w)
    <3>1. wakeq[w] # <<>>
      BY <2>16 DEF WakePush, Goto, IndInv, Control, ControlOf
    <3> QED BY <2>16, <3>1, PushCarries DEF WakePush, IndInv, Kept, TokenStep
  <2>17. CASE WakeSignal(w)
    BY <2>17, <1>k DEF WakeSignal
  <2>18. CASE Snapshot(w)
    BY <2>18, <1>k DEF Snapshot
  <2>19. CASE Ppoll(w)
    BY <2>19, <1>k DEF Ppoll
  <2>20. CASE PpollError(w)
    BY <2>20, <1>k DEF PpollError
  <2>21. CASE Drain(w)
    BY <2>21, <1>k DEF Drain
  <2>22. CASE ScanFd(w)
    BY <2>22, ScanCarries DEF ScanFd, IndInv, Kept, TokenStep
  <2>23. CASE ScanDone(w)
    BY <2>23, <1>k DEF ScanDone
  <2> QED BY <1>3, <2>1, <2>2, <2>3, <2>3e, <2>4, <2>5, <2>6, <2>7, <2>8, <2>9,
       <2>10, <2>11, <2>12, <2>13, <2>14, <2>15, <2>16, <2>17, <2>18, <2>19, <2>20,
       <2>21, <2>22, <2>23 DEF Worker, Handler
<1> QED BY <1>1, <1>2, <1>3 DEF Next

\* A task that is not yet accepted has no tokens; a live one as many as it got.
TokensOf(t) ==
  /\ IsFiniteSet(Tokens(t))
  /\ Cardinality(Tokens(t)) <= IF t = Acc THEN 1 ELSE 2
  /\ state[t] \in {"unborn", "backlog"} => Tokens(t) = {}

FewTokens == \A t \in Tasks : TokensOf(t)

LEMMA FewTokensInit == Init => FewTokens
  <1> SUFFICES ASSUME Init, NEW t \in Tasks PROVE TokensOf(t)
    BY DEF FewTokens
  <1>1. ASSUME NEW x \in Tokens(t) PROVE t = Acc /\ x = <<"sched", 1>>
    <2>1. ~IsPoll(x, t, cur)
      BY ReactorAssumption DEF Init, IsPoll
    <2>2. ~IsWaker(x, t, regWaiters)
      BY DEF Init, IsWaker
    <2>3. ~IsToWake(x, t, wakeq)
      BY DEF Init, IsToWake
    <2>4. IsSched(x, t, sched)
      BY <1>1, <2>1, <2>2, <2>3, TokenKinds DEF Tokens
    <2> QED  BY <2>4 DEF IsSched, Init
  <1>2. t # Acc => Tokens(t) = {}
    BY <1>1
  <1>3. Tokens(t) \subseteq {<<"sched", 1>>}
    BY <1>1
  <1> DEFINE U == {<<"sched", 1>>}
  <1>4. IsFiniteSet(U) /\ Cardinality(U) = 1
    BY FS_Singleton
  <1> HIDE DEF U
  <1>5. IsFiniteSet(Tokens(t)) /\ Cardinality(Tokens(t)) <= 1
    BY <1>3, <1>4, FS_Subset DEF U
  <1>6. Cardinality(Tokens(t)) \in Nat
    BY <1>5, FS_CardinalityType
  <1> QED  BY <1>2, <1>5, <1>6 DEF TokensOf, Init

LEMMA FewTokensStep == IndInv /\ FewTokens /\ [Next]_vars => FewTokens'
  <1> SUFFICES ASSUME IndInv, FewTokens, [Next]_vars, NEW t \in Tasks PROVE TokensOf(t)'
    BY DEF FewTokens
  <1>1. TokensOf(t)
    BY DEF FewTokens
  <1> DEFINE S == Tokens(t)
             T == Tokens(t)'
  <1>2. IsFiniteSet(S) /\ Cardinality(S) \in Nat
    BY <1>1, FS_CardinalityType DEF TokensOf
  <1>3. IsFiniteSet(T) => Cardinality(T) \in Nat
    BY FS_CardinalityType
  <1>4. t \in Conns => t # Acc
    BY ReactorAssumption
  <1>5. \/ Kept(t) /\ (state'[t] \in {"unborn", "backlog"} =>
                         state[t] \in {"unborn", "backlog"})
        \/ /\ state[t] = "backlog" /\ state'[t] = "live" /\ t \in Conns
           /\ S = {} => IsFiniteSet(T) /\ Cardinality(T) <= 2
    BY <1>2, TokensStep DEF TokenStep
  <1> HIDE DEF S, T
  <1>6. /\ IsFiniteSet(T)
        /\ Cardinality(T) <= IF t = Acc THEN 1 ELSE 2
        /\ state'[t] \in {"unborn", "backlog"} => T = {}
    BY <1>1, <1>2, <1>3, <1>4, <1>5 DEF TokensOf, Kept, S, T
  <1> QED  BY <1>6 DEF TokensOf, T

\* For any number of workers a connection has at most the two wakes accept_loop
\* gave it, and the accept loop one: neither SCHEDULE_HEAD nor IO_REG grows with
\* the number of readiness events, however workers interleave.
THEOREM WakesDoNotMultiply == Spec => []WakesBounded
<1>1. FewTokens => WakesBounded
  BY DEF FewTokens, TokensOf, WakesBounded
<1> QED BY <1>1, FewTokensInit, FewTokensStep, IndInvAlways, PTL DEF Spec

-----------------------------------------------------------------------------
(* One worker, and sends that never block.                                 *)

OneWorker == \A v, w \in Workers : v = w

HasWaker(t) == \E i \in DOMAIN regWaiters[fd[t]] : regWaiters[fd[t]][i] = t

\* Between polls the worker has no handle, and no ready fds or wakes to handle
\* except those of its last ppoll, whose fds are still ready; while it is in ppoll
\* its fd list is the registry.  No task is spawned between the check of a handle
\* and the lock of its slot, so the task it polls is the handle's own.
LocalOf(w) ==
  /\ pc[w] \in {"take", "snapshot", "ppoll", "drain", "scan"} => cur[w] = None
  /\ pc[w] \in Waking => cur[w] = None \/ (cur[w] = Acc /\ inner[Acc] = w)
  /\ pc[w] \notin Waking => wakeq[w] = <<>>
  /\ pc[w] \in {"take", "snapshot", "ppoll"} \/ cur[w] \in Tasks => rev[w] = {}
  /\ pc[w] = "ppoll" => snap[w] = regEvents
  /\ pc[w] = "lock" => latest[slot[cur[w]]] = cur[w]
  /\ pc[w] \in InPoll => polled[w] = cur[w]
  /\ pc[w] = "register" => Direction(cur[w]) = "in"
  /\ pc[w] \in Closing => cur[w] \notin registered

ReadyOf(w) ==
  \A f \in rev[w] : regEvents[f] # "none" =>
    \A t \in Tasks : state[t] = "live" /\ fd[t] = f => CanProceed(t, "in")

\* Open sockets have room, so a future only ever waits for input.
SendsNeverBlock ==
  /\ open \subseteq writable
  /\ \A f \in AllFds : regEvents[f] # "out"

\* A future that has registered still has its waker, or its input is there.
WaitersKnown ==
  \A t \in registered :
    /\ state[t] \in {"live", "done"}
    /\ Direction(t) = "in"
    /\ state[t] = "live" => HasWaker(t) \/ CanProceed(t, "in")

OneInv ==
  /\ \A w \in Workers : LocalOf(w) /\ ReadyOf(w)
  /\ SendsNeverBlock
  /\ WaitersKnown
  /\ NotForgotten

LEMMA OneInit == Init => OneInv
  <1> SUFFICES ASSUME Init PROVE OneInv
    OBVIOUS
  <1> USE ReactorAssumption DEF Init
  <1>1. \A w \in Workers : LocalOf(w) /\ ReadyOf(w)
    BY DEF LocalOf, ReadyOf, Waking, Closing, InPoll, Tasks
  <1>2. SendsNeverBlock /\ WaitersKnown
    BY DEF SendsNeverBlock, WaitersKnown, NoEntries
  <1>3. ASSUME NEW t \in Tasks, state[t] = "live" PROVE Tokens(t) # {}
    <2>1. IsSched(<<"sched", 1>>, t, sched)
      BY <1>3 DEF IsSched
    <2> QED  BY <2>1, TokenKinds DEF Tokens
  <1> QED  BY <1>1, <1>2, <1>3 DEF OneInv, NotForgotten

\* sendto on an open socket never finds the buffer full.
LEMMA SendsStep ==
  IndInv /\ OneInv /\ OneWorker /\ ~SendBuffersFill /\ [Next]_vars => SendsNeverBlock'
<1> SUFFICES ASSUME IndInv, OneInv, OneWorker, ~SendBuffersFill, [Next]_vars
             PROVE SendsNeverBlock'
  OBVIOUS
<1>t. /\ regEvents \in [AllFds -> Events \cup {"none"}]
      /\ open \in SUBSET Fds /\ \A v \in Workers : LocalOf(v)
      /\ open \subseteq writable /\ \A f \in AllFds : regEvents[f] # "out"
  BY DEF IndInv, TypeOK, OneInv, SendsNeverBlock
<1> USE DEF SendsNeverBlock, queueVars, regVars, taskVars, slotVars, sockVars, localVars, pollVars
<1>1. CASE UNCHANGED vars
  BY <1>1, <1>t DEF vars
<1>2. ASSUME NEW c \in Conns, Client(c) PROVE SendsNeverBlock'
  <2>1. CASE ClientConnect(c)
    BY <2>1, <1>t DEF ClientConnect
  <2>2. CASE ClientSend(c)
    BY <2>2, <1>t DEF ClientSend
  <2>3. CASE ClientRead(c)
    BY <2>3, <1>t DEF ClientRead
  <2>4. CASE ClientClose(c)
    BY <2>4, <1>t DEF ClientClose
  <2> QED BY <1>2, <2>1, <2>2, <2>3, <2>4 DEF Client
<1>3. ASSUME NEW w \in Workers, Worker(w) PROVE SendsNeverBlock'
  <2>1. CASE TakeTask(w)
    BY <2>1, <1>t DEF TakeTask
  <2>2. CASE TakeNone(w)
    BY <2>2, <1>t DEF TakeNone
  <2>3. CASE CheckHandle(w)
    BY <2>3, <1>t DEF CheckHandle, Dismiss, Goto
  <2>3e. CASE SlotEmpty(w)
    BY <2>3e, <1>t DEF SlotEmpty, Dismiss, Goto
  <2>4. CASE LockSlot(w)
    BY <2>4, <1>t DEF LockSlot
  <2>5. ASSUME NEW c \in Conns, RecvData(w, c) PROVE SendsNeverBlock'
    BY <2>5, <1>t DEF RecvData
  <2>6. ASSUME NEW c \in Conns, RecvEmpty(w, c) PROVE SendsNeverBlock'
    BY <2>6, <1>t DEF RecvEmpty
  <2>7. ASSUME NEW c \in Conns, SendData(w, c) PROVE SendsNeverBlock'
    BY <2>7, <1>t DEF SendData
  <2>8. CASE Accept(w)
    BY <2>8, <1>t DEF Accept
  <2>9. CASE AcceptError(w)
    BY <2>9, <1>t DEF AcceptError
  <2>10. CASE WouldBlock(w)
    BY <2>10, <1>t DEF WouldBlock
  <2>11. CASE StillPending(w)
    BY <2>11, <1>t DEF StillPending
  <2>12. CASE RegisterFdWaker(w)
    <3>1. Direction(polled[w]) = "in"
      BY <2>12, <1>t DEF RegisterFdWaker, LocalOf, InPoll
    <3> QED BY <2>12, <3>1, <1>t DEF RegisterFdWaker
  <2>13. CASE UnregisterFd(w)
    BY <2>13, <1>t DEF UnregisterFd, RemoveEntry
  <2>14. CASE RefreshSignal(w)
    BY <2>14, <1>t DEF RefreshSignal
  <2>15. CASE CloseFd(w)
    BY <2>15, <1>t DEF CloseFd, CloseSocket, FreeSlot
  <2>16. CASE WakePush(w)
    BY <2>16, <1>t DEF WakePush
  <2>17. CASE WakeSignal(w)
    BY <2>17, <1>t DEF WakeSignal
  <2>18. CASE Snapshot(w)
    BY <2>18, <1>t DEF Snapshot
  <2>19. CASE Ppoll(w)
    BY <2>19, <1>t DEF Ppoll
  <2>20. CASE PpollError(w)
    BY <2>20, <1>t DEF PpollError
  <2>21. CASE Drain(w)
    BY <2>21, <1>t DEF Drain
  <2>22. CASE ScanFd(w)
    BY <2>22, <1>t DEF ScanFd, RemoveEntry
  <2>23. CASE ScanDone(w)
    BY <2>23, <1>t DEF ScanDone
  <2> QED BY <1>3, <2>1, <2>2, <2>3, <2>3e, <2>4, <2>5, <2>6, <2>7, <2>8, <2>9,
       <2>10, <2>11, <2>12, <2>13, <2>14, <2>15, <2>16, <2>17, <2>18, <2>19, <2>20,
       <2>21, <2>22, <2>23 DEF Worker, Handler
<1> QED BY <1>1, <1>2, <1>3 DEF Next

\* The one worker's locals.
LEMMA LocalStep ==
  ASSUME IndInv, OneInv, OneWorker, ~SendBuffersFill, [Next]_vars, NEW v \in Workers
  PROVE  LocalOf(v)'
<1>t. /\ LocalOf(v) /\ ControlOf(v) /\ \A w \in Workers : w = v
      /\ pc \in [Workers -> PcValues] /\ cur \in [Workers -> Tasks \cup {None}]
      /\ polled \in [Workers -> Tasks \cup {None}]
      /\ rev \in [Workers -> SUBSET AllFds] /\ wakeq \in [Workers -> Seq(Tasks)]
      /\ snap \in [Workers -> [AllFds -> Events \cup {"none"}]]
      /\ inner \in [Tasks -> Workers \cup {None}] /\ replies \in [Conns -> Nat]
      /\ None \notin Tasks /\ Acc \in Tasks /\ Acc \notin Conns /\ None \notin Workers
  BY ReactorAssumption DEF OneInv, OneWorker, IndInv, TypeOK, Control, Tasks
<1>s. \A t \in Tasks : state[t] = "live" => CanProceed(t, "out") \/ t = Acc
  BY DEF OneInv, SendsNeverBlock, IndInv, Ownership, CanProceed, Tasks
<1> USE DEF LocalOf, ControlOf, Waking, Closing, InPoll, queueVars, regVars, taskVars,
            slotVars, sockVars, localVars, pollVars
<1>1. CASE UNCHANGED vars
  BY <1>1, <1>t DEF vars, Direction
<1>2. ASSUME NEW c \in Conns, Client(c) PROVE LocalOf(v)'
  <2>1. CASE ClientConnect(c)
    BY <2>1, <1>t DEF ClientConnect, Direction
  <2>2. CASE ClientSend(c)
    BY <2>2, <1>t DEF ClientSend, Direction
  <2>3. CASE ClientRead(c)
    BY <2>3, <1>t DEF ClientRead, Direction
  <2>4. CASE ClientClose(c)
    BY <2>4, <1>t DEF ClientClose, Direction
  <2> QED BY <1>2, <2>1, <2>2, <2>3, <2>4 DEF Client
<1>3. ASSUME NEW w \in Workers, Worker(w) PROVE LocalOf(v)'
  <2>1. CASE TakeTask(w)
    BY <2>1, <1>t DEF TakeTask, Goto, Polling
  <2>2. CASE TakeNone(w)
    BY <2>2, <1>t DEF TakeNone, Goto, Polling
  <2>3. CASE CheckHandle(w)
    BY <2>3, <1>t DEF CheckHandle, Dismiss, Goto, Polling
  <2>3e. CASE SlotEmpty(w)
    BY <2>3e, <1>t DEF SlotEmpty, Dismiss, Goto, Polling
  <2>4. CASE LockSlot(w)
    <3>1. PICK t \in Tasks : InSlot(t, cur[w]) /\ polled' = [polled EXCEPT ![w] = t]
      BY <2>4 DEF LockSlot
    <3>2. t = cur[w]
      BY <2>4, <3>1, <1>t DEF LockSlot, Goto, InSlot, IndInv, Placement
    <3> QED BY <2>4, <3>1, <3>2, <1>t DEF LockSlot, Goto
  <2>5. ASSUME NEW c \in Conns, RecvData(w, c) PROVE LocalOf(v)'
    BY <2>5, <1>t DEF RecvData, Polling, NextFuture, Continue
  <2>6. ASSUME NEW c \in Conns, RecvEmpty(w, c) PROVE LocalOf(v)'
    BY <2>6, <1>t DEF RecvEmpty, Polling, NextFuture, Continue
  <2>7. ASSUME NEW c \in Conns, SendData(w, c) PROVE LocalOf(v)'
    BY <2>7, <1>t DEF SendData, Polling, NextFuture, Continue
  <2>8. CASE Accept(w)
    BY <2>8, <1>t DEF Accept, Goto, Polling
  <2>9. CASE AcceptError(w)
    BY <2>9, <1>t DEF AcceptError, Goto, Polling
  <2>10. CASE WouldBlock(w)
    <3>1. Direction(cur[v]) = "in"
      BY <2>10, <1>t, <1>s DEF WouldBlock, Goto, Direction
    <3> QED BY <2>10, <3>1, <1>t DEF WouldBlock, Goto, Direction
  <2>11. CASE StillPending(w)
    BY <2>11, <1>t DEF StillPending, Suspend, Leave
  <2>12. CASE RegisterFdWaker(w)
    BY <2>12, <1>t DEF RegisterFdWaker, Suspend, Leave
  <2>13. CASE UnregisterFd(w)
    BY <2>13, <1>t DEF UnregisterFd, Goto, Polling
  <2>14. CASE RefreshSignal(w)
    BY <2>14, <1>t DEF RefreshSignal, Goto, Polling
  <2>15. CASE CloseFd(w)
    BY <2>15, <1>t DEF CloseFd, CloseSocket, FreeSlot, Suspend, Leave
  <2>16. CASE WakePush(w)
    BY <2>16, <1>t DEF WakePush, Goto
  <2>17. CASE WakeSignal(w)
    BY <2>17, <1>t DEF WakeSignal, Goto, AfterWake
  <2>18. CASE Snapshot(w)
    BY <2>18, <1>t DEF Snapshot, Goto, Polling
  <2>19. CASE Ppoll(w)
    BY <2>19, <1>t DEF Ppoll, Goto, Polling
  <2>20. CASE PpollError(w)
    BY <2>20, <1>t DEF PpollError, Goto, Polling
  <2>21. CASE Drain(w)
    BY <2>21, <1>t DEF Drain, Goto, Polling
  <2>22. CASE ScanFd(w)
    <3>1. PICK f \in AllFds :
            /\ rev' = [rev EXCEPT ![v] = @ \ {f}]
            /\ wakeq' = [wakeq EXCEPT ![v] = regWaiters[f]]
            /\ pc' = [pc EXCEPT ![v] = IF regEvents[f] = "none" THEN "scan" ELSE "wake"]
      BY <2>22, <1>t DEF ScanFd
    <3>2. regEvents[f] = "none" => regWaiters[f] = <<>>
      BY DEF IndInv, TypeOK
    <3> QED BY <2>22, <3>1, <3>2, <1>t DEF ScanFd
  <2>23. CASE ScanDone(w)
    BY <2>23, <1>t DEF ScanDone, Goto, Polling
  <2> QED BY <1>3, <2>1, <2>2, <2>3, <2>3e, <2>4, <2>5, <2>6, <2>7, <2>8, <2>9,
       <2>10, <2>11, <2>12, <2>13, <2>14, <2>15, <2>16, <2>17, <2>18, <2>19, <2>20,
       <2>21, <2>22, <2>23 DEF Worker, Handler
<1> QED BY <1>1, <1>2, <1>3 DEF Next

\* What ppoll found ready stays ready until the worker polls a task again.
LEMMA ReadyStep ==
  ASSUME IndInv, OneInv, OneWorker, [Next]_vars, NEW v \in Workers
  PROVE  ReadyOf(v)'
<1>t. /\ LocalOf(v) /\ ControlOf(v) /\ ReadyOf(v) /\ \A w \in Workers : w = v
      /\ pc \in [Workers -> PcValues] /\ rev \in [Workers -> SUBSET AllFds]
      /\ state \in [Tasks -> {"unborn", "backlog", "live", "done"}]
      /\ fd \in [Tasks -> AllFds] /\ inbox \in [Conns -> Nat]
      /\ regEvents \in [AllFds -> Events \cup {"none"}]
      /\ Acc \notin Conns /\ \A t \in Tasks \ Conns : t = Acc
  BY ReactorAssumption DEF OneInv, OneWorker, IndInv, TypeOK, Control, Tasks
<1>e. rev'[v] = {} => ReadyOf(v)'
  BY DEF ReadyOf
<1>k. ASSUME rev' = rev, regEvents' = regEvents, state' = state, fd' = fd,
             inbox' = inbox, hup' = hup, writable' = writable PROVE ReadyOf(v)'
  BY <1>k, <1>t DEF ReadyOf, CanProceed, Backlog
<1> USE DEF queueVars, regVars, taskVars, slotVars, sockVars, localVars, pollVars
<1>1. CASE UNCHANGED vars
  BY <1>1, <1>k DEF vars
<1>2. ASSUME NEW c \in Conns, Client(c) PROVE ReadyOf(v)'
  <2>1. CASE ClientConnect(c)
    <3>1. \A t \in Tasks : state'[t] = "live" => state[t] = "live"
      BY <2>1, <1>t DEF ClientConnect
    <3>2. Backlog \subseteq Backlog'
      BY <2>1, <1>t DEF ClientConnect, Backlog, Tasks
    <3> QED BY <2>1, <3>1, <3>2, <1>t DEF ClientConnect, ReadyOf, CanProceed
  <2>2. CASE ClientSend(c)
    <3>1. \A d \in Conns : inbox[d] > 0 => inbox'[d] > 0
      BY <2>2, <1>t DEF ClientSend
    <3> QED BY <2>2, <3>1, <1>t DEF ClientSend, ReadyOf, CanProceed, Backlog
  <2>3. CASE ClientRead(c)
    BY <2>3, <1>t DEF ClientRead, ReadyOf, CanProceed, Backlog
  <2>4. CASE ClientClose(c)
    BY <2>4, <1>t DEF ClientClose, ReadyOf, CanProceed, Backlog
  <2> QED BY <1>2, <2>1, <2>2, <2>3, <2>4 DEF Client
<1>3. ASSUME NEW w \in Workers, Worker(w) PROVE ReadyOf(v)'
  <2>1. CASE TakeTask(w)
    BY <2>1, <1>k DEF TakeTask
  <2>2. CASE TakeNone(w)
    BY <2>2, <1>k DEF TakeNone
  <2>3. CASE CheckHandle(w)
    BY <2>3, <1>k DEF CheckHandle, Dismiss, Goto
  <2>3e. CASE SlotEmpty(w)
    BY <2>3e, <1>k DEF SlotEmpty, Dismiss, Goto
  <2>4. CASE LockSlot(w)
    BY <2>4, <1>k DEF LockSlot
  <2>5. ASSUME NEW c \in Conns, RecvData(w, c) PROVE ReadyOf(v)'
    BY <2>5, <1>t, <1>e DEF RecvData, Polling, LocalOf, ControlOf, InPoll
  <2>6. ASSUME NEW c \in Conns, RecvEmpty(w, c) PROVE ReadyOf(v)'
    BY <2>6, <1>t, <1>e DEF RecvEmpty, Polling, LocalOf, ControlOf, InPoll
  <2>7. ASSUME NEW c \in Conns, SendData(w, c) PROVE ReadyOf(v)'
    BY <2>7, <1>t, <1>e DEF SendData, Polling, LocalOf, ControlOf, InPoll
  <2>8. CASE Accept(w)
    BY <2>8, <1>t, <1>e DEF Accept, Polling, LocalOf, ControlOf, InPoll
  <2>9. CASE AcceptError(w)
    BY <2>9, <1>t, <1>e DEF AcceptError, Polling, LocalOf, ControlOf, InPoll
  <2>10. CASE WouldBlock(w)
    BY <2>10, <1>k DEF WouldBlock
  <2>11. CASE StillPending(w)
    BY <2>11, <1>k DEF StillPending
  <2>12. CASE RegisterFdWaker(w)
    BY <2>12, <1>t, <1>e DEF RegisterFdWaker, Polling, LocalOf, ControlOf, InPoll
  <2>13. CASE UnregisterFd(w)
    BY <2>13, <1>t, <1>e DEF UnregisterFd, Goto, LocalOf, ControlOf, InPoll
  <2>14. CASE RefreshSignal(w)
    BY <2>14, <1>k DEF RefreshSignal
  <2>15. CASE CloseFd(w)
    BY <2>15, <1>t, <1>e DEF CloseFd, CloseSocket, FreeSlot, Polling, LocalOf, ControlOf, InPoll
  <2>16. CASE WakePush(w)
    BY <2>16, <1>k DEF WakePush
  <2>17. CASE WakeSignal(w)
    BY <2>17, <1>k DEF WakeSignal
  <2>18. CASE Snapshot(w)
    BY <2>18, <1>k DEF Snapshot
  <2>19. CASE Ppoll(w)
    <3>1. /\ rev'[v] = {f \in AllFds : snap[v][f] # "none" /\ PollReady(f, snap[v][f])}
          /\ snap[v] = regEvents /\ regEvents' = regEvents /\ state' = state /\ fd' = fd
          /\ inbox' = inbox /\ hup' = hup /\ writable' = writable
      BY <2>19, <1>t DEF Ppoll, Goto, LocalOf
    <3> SUFFICES ASSUME NEW f \in AllFds, regEvents[f] # "none", PollReady(f, regEvents[f]),
                        NEW t \in Tasks, state[t] = "live", fd[t] = f
                 PROVE  CanProceed(t, "in")
      BY <3>1 DEF ReadyOf, CanProceed, Backlog
    <3>2. /\ regEvents[f] = "in" /\ f \in open \cup {ListenFd}
      BY <1>t DEF OneInv, SendsNeverBlock, IndInv, RegistryNamesSlot, Events
    <3>3. /\ open \subseteq Fds /\ ListenFd \notin Fds
      BY ReactorAssumption DEF IndInv, TypeOK
    <3> QED BY <3>2, <3>3, <1>t DEF PollReady, IndInv, Ownership
  <2>20. CASE PpollError(w)
    BY <2>20, <1>k DEF PpollError
  <2>21. CASE Drain(w)
    BY <2>21, <1>k DEF Drain
  <2>22. CASE ScanFd(w)
    <3>1. PICK f \in AllFds : /\ rev' = [rev EXCEPT ![v] = @ \ {f}]
                              /\ regEvents' = [regEvents EXCEPT ![f] = "none"]
      BY <2>22, <1>t DEF ScanFd, RemoveEntry
    <3> QED BY <2>22, <3>1, <1>t DEF ScanFd, ReadyOf, CanProceed, Backlog
  <2>23. CASE ScanDone(w)
    BY <2>23, <1>k DEF ScanDone
  <2> QED BY <1>3, <2>1, <2>2, <2>3, <2>3e, <2>4, <2>5, <2>6, <2>7, <2>8, <2>9,
       <2>10, <2>11, <2>12, <2>13, <2>14, <2>15, <2>16, <2>17, <2>18, <2>19, <2>20,
       <2>21, <2>22, <2>23 DEF Worker, Handler
<1> QED BY <1>1, <1>2, <1>3 DEF Next

\* A registered future keeps its waker until its input is there.
LEMMA WaitersStep ==
  IndInv /\ OneInv /\ OneWorker /\ [Next]_vars => WaitersKnown'
<1> SUFFICES ASSUME IndInv, OneInv, OneWorker, [Next]_vars, NEW t \in registered'
             PROVE  /\ state'[t] \in {"live", "done"}
                    /\ Direction(t)' = "in"
                    /\ state'[t] = "live" => HasWaker(t)' \/ CanProceed(t, "in")'
  BY DEF WaitersKnown
<1> DEFINE Known == /\ state[t] \in {"live", "done"}
                    /\ Direction(t) = "in"
                    /\ state[t] = "live" => HasWaker(t) \/ CanProceed(t, "in")
<1> HIDE DEF Known
<1>w. t \in registered => Known
  BY DEF OneInv, WaitersKnown, Known
<1>t. /\ state \in [Tasks -> {"unborn", "backlog", "live", "done"}]
      /\ fd \in [Tasks -> AllFds] /\ inbox \in [Conns -> Nat]
      /\ regWaiters \in [AllFds -> Seq(Tasks)]
      /\ registered \in SUBSET Tasks /\ cur \in [Workers -> Tasks \cup {None}]
      /\ replies \in [Conns -> Nat]
      /\ Acc \notin Conns /\ Acc \in Tasks /\ Tasks = Conns \cup {Acc}
  BY ReactorAssumption DEF IndInv, TypeOK, Tasks
<1>o. /\ \A c \in Conns : state[c] = "live" => fd[c] \in open
      /\ state[Acc] = "live" /\ fd[Acc] = ListenFd
  BY DEF IndInv, Ownership
<1>u. \A w \in Workers : LocalOf(w) /\ ControlOf(w) /\ ReadyOf(w)
  BY DEF OneInv, IndInv, Control
<1>k. ASSUME registered' \subseteq registered, state' = state, fd' = fd,
             inbox' = inbox, hup' = hup, regWaiters' = regWaiters, replies' = replies
      PROVE Known'
  BY <1>k, <1>w, <1>t DEF Known, HasWaker, CanProceed, Direction, Backlog
<1> USE DEF queueVars, regVars, taskVars, slotVars, sockVars, localVars, pollVars
<1>x. SUFFICES Known'
  BY DEF Known
<1>1. CASE UNCHANGED vars
  BY <1>1, <1>k DEF vars
<1>2. ASSUME NEW c \in Conns, Client(c) PROVE Known'
  <2>1. CASE ClientConnect(c)
    <3>1. Backlog \subseteq Backlog' /\ (state'[t] = state[t] \/ state[t] = "unborn")
      BY <2>1, <1>t DEF ClientConnect, Backlog, Tasks
    <3> QED BY <2>1, <3>1, <1>t, <1>w
        DEF ClientConnect, Known, HasWaker, CanProceed, Direction
  <2>2. CASE ClientSend(c)
    <3>1. t \in Conns /\ inbox[t] > 0 => inbox'[t] > 0
      BY <2>2, <1>t DEF ClientSend
    <3> QED BY <2>2, <3>1, <1>t, <1>w
        DEF ClientSend, Known, HasWaker, CanProceed, Direction, Backlog
  <2>3. CASE ClientRead(c)
    BY <2>3, <1>k DEF ClientRead
  <2>4. CASE ClientClose(c)
    BY <2>4, <1>t, <1>w DEF ClientClose, Known, HasWaker, CanProceed, Direction, Backlog
  <2> QED BY <1>2, <2>1, <2>2, <2>3, <2>4 DEF Client
<1>3. ASSUME NEW w \in Workers, Worker(w) PROVE Known'
  <2>1. CASE TakeTask(w)
    BY <2>1, <1>k DEF TakeTask
  <2>2. CASE TakeNone(w)
    BY <2>2, <1>k DEF TakeNone
  <2>3. CASE CheckHandle(w)
    BY <2>3, <1>k DEF CheckHandle, Dismiss, Goto
  <2>3e. CASE SlotEmpty(w)
    BY <2>3e, <1>k DEF SlotEmpty, Dismiss, Goto
  <2>4. CASE LockSlot(w)
    BY <2>4, <1>k DEF LockSlot
  <2>5. ASSUME NEW c \in Conns, RecvData(w, c) PROVE Known'
    <3>1. t # c /\ t \in registered /\ c # Acc
        /\ (t \in Conns => replies'[t] = replies[t] /\ inbox'[t] = inbox[t])
      BY <2>5, <1>t DEF RecvData, NextFuture, Route, Answer, Handshake, Frames
    <3> QED BY <2>5, <3>1, <1>w, <1>t
        DEF RecvData, Known, HasWaker, CanProceed, Direction, Backlog
  <2>6. ASSUME NEW c \in Conns, RecvEmpty(w, c) PROVE Known'
    <3>1. t # c /\ t \in registered /\ c # Acc
        /\ (t \in Conns => replies'[t] = replies[t])
      BY <2>6, <1>t DEF RecvEmpty, NextFuture, Route, Answer, Handshake
    <3> QED BY <2>6, <3>1, <1>w, <1>t
        DEF RecvEmpty, Known, HasWaker, CanProceed, Direction, Backlog
  <2>7. ASSUME NEW c \in Conns, SendData(w, c) PROVE Known'
    <3>1. t # c /\ t \in registered /\ c # Acc
        /\ (t \in Conns => replies'[t] = replies[t])
      BY <2>7, <1>t DEF SendData, NextFuture
    <3> QED BY <2>7, <3>1, <1>w, <1>t
        DEF SendData, Known, HasWaker, CanProceed, Direction, Backlog
  <2>8. CASE Accept(w)
    <3>1. PICK d \in Backlog, f \in Fds \ open :
            /\ hup' = hup \ {f}
            /\ state' = [state EXCEPT ![d] = "live"]
            /\ fd' = [fd EXCEPT ![d] = f]
      BY <2>8 DEF Accept
    <3>2. t # Acc /\ t \in registered /\ t \in Conns
      BY <2>8, <1>t DEF Accept
    <3>3. t # d /\ d \in Conns
      BY <3>1, <3>2, <1>w DEF Known, Backlog
    <3> QED BY <2>8, <3>1, <3>2, <3>3, <1>w, <1>t, <1>o
        DEF Accept, Known, HasWaker, CanProceed, Direction
  <2>9. CASE AcceptError(w)
    <3>1. t # Acc /\ t \in registered /\ t \in Conns
      BY <2>9, <1>t DEF AcceptError
    <3>2. state'[t] = state[t]
      BY <2>9, <3>1, <1>w, <1>t DEF AcceptError, Known, Backlog
    <3> QED BY <2>9, <3>1, <3>2, <1>w, <1>t
        DEF AcceptError, Known, HasWaker, CanProceed, Direction
  <2>10. CASE WouldBlock(w)
    BY <2>10, <1>k DEF WouldBlock
  <2>11. CASE StillPending(w)
    BY <2>11, <1>k DEF StillPending
  <2>12. CASE RegisterFdWaker(w)
    <3> DEFINE f == fd[cur[w]]
    <3>0. polled[w] = cur[w]
      BY <2>12, <1>u DEF RegisterFdWaker, LocalOf, InPoll
    <3>1. /\ cur[w] \in Tasks /\ state[cur[w]] = "live" /\ Direction(cur[w]) = "in"
          /\ f \in AllFds
      BY <2>12, <3>0, <1>u, <1>t DEF RegisterFdWaker, LocalOf, ControlOf, InPoll
    <3>2. /\ regWaiters' = [regWaiters EXCEPT ![f] = Append(@, cur[w])]
          /\ regWaiters[f] \in Seq(Tasks)
      BY <2>12, <3>0, <3>1, <1>t DEF RegisterFdWaker
    <3>3. CASE t = cur[w]
      <4>1. /\ Len(regWaiters[f]) + 1 \in DOMAIN regWaiters'[f]
            /\ regWaiters'[f][Len(regWaiters[f]) + 1] = t
        BY <3>1, <3>2, <3>3, <1>t
      <4> QED BY <2>12, <3>1, <3>3, <4>1 DEF RegisterFdWaker, Known, HasWaker, Direction
    <3>4. CASE t # cur[w]
      <4>1. t \in registered
        BY <2>12, <3>0, <3>4 DEF RegisterFdWaker
      <4>2. \A e \in AllFds : \A i \in DOMAIN regWaiters[e] :
              i \in DOMAIN regWaiters'[e] /\ regWaiters'[e][i] = regWaiters[e][i]
        BY <3>1, <3>2, <1>t
      <4>3. HasWaker(t) => HasWaker(t)'
        BY <2>12, <4>1, <4>2, <1>t DEF RegisterFdWaker, HasWaker
      <4> QED BY <2>12, <4>1, <4>3, <1>w
          DEF RegisterFdWaker, Known, CanProceed, Direction, Backlog
    <3> QED BY <3>3, <3>4
  <2>13. CASE UnregisterFd(w)
    <3>0. polled[w] = cur[w]
      BY <2>13, <1>u DEF UnregisterFd, Goto, LocalOf, InPoll
    <3>1. /\ cur[w] \in Conns /\ cur[w] \notin registered /\ state[cur[w]] = "live"
          /\ t \in registered /\ t # cur[w]
      BY <2>13, <3>0, <1>u DEF UnregisterFd, Goto, LocalOf, ControlOf, InPoll, Closing
    <3>2. state[t] = "live" => fd[t] # fd[cur[w]]
      BY <3>1, <1>t, ReactorAssumption DEF IndInv, Ownership, TypeOK
    <3>3. state[t] = "live" => regWaiters'[fd[t]] = regWaiters[fd[t]]
      BY <2>13, <3>0, <3>1, <3>2, <1>t DEF UnregisterFd, RemoveEntry
    <3> QED BY <2>13, <3>1, <3>3, <1>w
        DEF UnregisterFd, Known, HasWaker, CanProceed, Direction, Backlog
  <2>14. CASE RefreshSignal(w)
    BY <2>14, <1>k DEF RefreshSignal
  <2>15. CASE CloseFd(w)
    <3>0. polled[w] = cur[w]
      BY <2>15, <1>u DEF CloseFd, LocalOf, InPoll
    <3>1. t \in registered /\ cur[w] \in Conns /\ (t = cur[w] => state'[t] = "done")
          /\ (t # cur[w] => state'[t] = state[t] /\ (t \in Conns => inbox'[t] = inbox[t]))
      BY <2>15, <3>0, <1>u, <1>t DEF CloseFd, CloseSocket, FreeSlot, ControlOf, Closing
    <3>2. Backlog \subseteq Backlog'
      BY <2>15, <3>0, <3>1, <1>u, <1>t
      DEF CloseFd, FreeSlot, ControlOf, InPoll, Backlog
    <3> QED BY <2>15, <3>1, <3>2, <1>w, <1>t
        DEF CloseFd, CloseSocket, FreeSlot, Known, HasWaker, CanProceed, Direction
  <2>16. CASE WakePush(w)
    BY <2>16, <1>k DEF WakePush
  <2>17. CASE WakeSignal(w)
    BY <2>17, <1>k DEF WakeSignal
  <2>18. CASE Snapshot(w)
    BY <2>18, <1>k DEF Snapshot
  <2>19. CASE Ppoll(w)
    BY <2>19, <1>k DEF Ppoll
  <2>20. CASE PpollError(w)
    BY <2>20, <1>k DEF PpollError
  <2>21. CASE Drain(w)
    BY <2>21, <1>k DEF Drain
  <2>22. CASE ScanFd(w)
    <3>1. PICK f \in rev[w] : /\ regWaiters' = [regWaiters EXCEPT ![f] = <<>>]
      BY <2>22 DEF ScanFd, RemoveEntry
    <3>2. t \in registered
      BY <2>22 DEF ScanFd
    <3>3. CASE fd[t] = f
      <4>1. state[t] = "live" /\ HasWaker(t) => CanProceed(t, "in")
        <5> SUFFICES ASSUME state[t] = "live", HasWaker(t) PROVE CanProceed(t, "in")
          OBVIOUS
        <5>1. regWaiters[f] # <<>> /\ f \in AllFds
          BY <3>2, <3>3, <1>t DEF HasWaker
        <5>2. regEvents[f] # "none"
          BY <5>1 DEF IndInv, TypeOK
        <5> QED BY <3>2, <3>3, <5>2, <1>u, <1>t DEF ReadyOf
      <4> QED BY <2>22, <3>2, <4>1, <1>w DEF ScanFd, Known, CanProceed, Direction, Backlog
    <3>4. CASE fd[t] # f
      <4>1. HasWaker(t) => HasWaker(t)'
        BY <2>22, <3>1, <3>2, <3>4, <1>t DEF ScanFd, HasWaker
      <4> QED BY <2>22, <3>2, <4>1, <1>w DEF ScanFd, Known, CanProceed, Direction, Backlog
    <3> QED BY <3>3, <3>4
  <2>23. CASE ScanDone(w)
    BY <2>23, <1>k DEF ScanDone
  <2> QED BY <1>3, <2>1, <2>2, <2>3, <2>3e, <2>4, <2>5, <2>6, <2>7, <2>8, <2>9,
       <2>10, <2>11, <2>12, <2>13, <2>14, <2>15, <2>16, <2>17, <2>18, <2>19, <2>20,
       <2>21, <2>22, <2>23 DEF Worker, Handler
<1> QED BY <1>1, <1>2, <1>3 DEF Next

\* t is in the schedule, polled, in the registry or in a to_wake list.
HeldIn(t, sc, cu, rw, wq) ==
  \/ \E i \in DOMAIN sc : sc[i] = t
  \/ \E w \in Workers : cu[w] = t
  \/ \E f \in AllFds : \E i \in DOMAIN rw[f] : rw[f][i] = t
  \/ \E w \in Workers : \E i \in DOMAIN wq[w] : wq[w][i] = t

LEMMA HeldTokens ==
  ASSUME NEW t, NEW sc, NEW cu, NEW rw, NEW wq
  PROVE  HeldIn(t, sc, cu, rw, wq) <=> TokensIn(t, sc, cu, rw, wq) # {}
  <1>1. ASSUME HeldIn(t, sc, cu, rw, wq)
        PROVE  \E x : \/ IsSched(x, t, sc) \/ IsPoll(x, t, cu)
                      \/ IsWaker(x, t, rw) \/ IsToWake(x, t, wq)
    <2>1. ASSUME NEW i \in DOMAIN sc, sc[i] = t PROVE IsSched(<<"sched", i>>, t, sc)
      BY <2>1 DEF IsSched
    <2>2. ASSUME NEW w \in Workers, cu[w] = t PROVE IsPoll(<<"poll", w>>, t, cu)
      BY <2>2 DEF IsPoll
    <2>3. ASSUME NEW f \in AllFds, NEW i \in DOMAIN rw[f], rw[f][i] = t
          PROVE  IsWaker(<<"waker", f, i>>, t, rw)
      BY <2>3 DEF IsWaker
    <2>4. ASSUME NEW w \in Workers, NEW i \in DOMAIN wq[w], wq[w][i] = t
          PROVE  IsToWake(<<"to_wake", w, i>>, t, wq)
      BY <2>4 DEF IsToWake
    <2> QED  BY <1>1, <2>1, <2>2, <2>3, <2>4 DEF HeldIn
  <1>2. ASSUME TokensIn(t, sc, cu, rw, wq) # {} PROVE HeldIn(t, sc, cu, rw, wq)
    <2>1. PICK x : \/ IsSched(x, t, sc) \/ IsPoll(x, t, cu)
                   \/ IsWaker(x, t, rw) \/ IsToWake(x, t, wq)
      BY <1>2, TokenKinds
    <2> QED  BY <2>1 DEF IsSched, IsPoll, IsWaker, IsToWake, HeldIn
  <1> QED  BY <1>1, <1>2, TokenKinds

Held(t) == HeldIn(t, sched, cur, regWaiters, wakeq)

LEMMA HeldStep ==
  ASSUME IndInv, OneInv, OneWorker, [Next]_vars, NEW t \in Tasks, state'[t] = "live",
         state[t] = "live" => Held(t)
  PROVE  Held(t)'
<1>t. /\ state \in [Tasks -> {"unborn", "backlog", "live", "done"}]
      /\ fd \in [Tasks -> AllFds] /\ sched \in Seq(Tasks)
      /\ regWaiters \in [AllFds -> Seq(Tasks)] /\ wakeq \in [Workers -> Seq(Tasks)]
      /\ cur \in [Workers -> Tasks \cup {None}]
      /\ Acc \notin Conns /\ Tasks = Conns \cup {Acc} /\ None \notin Tasks
  BY ReactorAssumption DEF IndInv, TypeOK, Tasks
<1>u. \A w \in Workers : LocalOf(w) /\ ControlOf(w) /\ \A v \in Workers : v = w
  BY DEF OneInv, IndInv, Control, OneWorker
<1> USE DEF queueVars, regVars, taskVars, slotVars, sockVars, localVars, pollVars
<1>k. ASSUME sched' = sched, cur' = cur, regWaiters' = regWaiters, wakeq' = wakeq,
             state[t] = "live" PROVE Held(t)'
  BY <1>k DEF Held
<1>1. CASE UNCHANGED vars
  BY <1>1, <1>k DEF vars
<1>2. ASSUME NEW c \in Conns, Client(c) PROVE Held(t)'
  <2>1. CASE ClientConnect(c)
    <3>1. state[t] = "live"
      BY <2>1, <1>t DEF ClientConnect
    <3> QED BY <2>1, <3>1, <1>k DEF ClientConnect
  <2>2. CASE ClientSend(c)
    BY <2>2, <1>k DEF ClientSend
  <2>3. CASE ClientRead(c)
    BY <2>3, <1>k DEF ClientRead
  <2>4. CASE ClientClose(c)
    BY <2>4, <1>k DEF ClientClose
  <2> QED BY <1>2, <2>1, <2>2, <2>3, <2>4 DEF Client
<1>3. ASSUME NEW w \in Workers, Worker(w) PROVE Held(t)'
  <2>1. CASE TakeTask(w)
    <3>1. /\ state[t] = "live" /\ DOMAIN sched = 1 .. Len(sched) /\ Len(sched) \in Nat
          /\ DOMAIN sched' = 1 .. Len(sched) - 1
          /\ \A i \in 1 .. Len(sched) - 1 : sched'[i] = sched[i + 1]
          /\ cur[w] = None /\ cur'[w] = sched[1]
          /\ regWaiters' = regWaiters /\ wakeq' = wakeq
      BY <2>1, <1>t, <1>u DEF TakeTask, Goto, LocalOf
    <3>2. CASE \E i \in DOMAIN sched : sched[i] = t
      <4>1. PICK i \in 1 .. Len(sched) : sched[i] = t
        BY <3>1, <3>2
      <4>2. i = 1 \/ (i - 1 \in DOMAIN sched' /\ sched'[i - 1] = t)
        BY <3>1, <4>1
      <4> QED BY <3>1, <4>1, <4>2 DEF Held, HeldIn
    <3>3. CASE ~ \E i \in DOMAIN sched : sched[i] = t
      BY <3>1, <3>3, <1>u, <1>t DEF Held, HeldIn
    <3> QED BY <3>2, <3>3
  <2>2. CASE TakeNone(w)
    BY <2>2, <1>k DEF TakeNone
  <2>3. CASE CheckHandle(w)
    <3>1. CASE cur' = cur
      BY <2>3, <3>1, <1>k DEF CheckHandle
    <3>2. CASE latest[slot[cur[w]]] # cur[w] /\ Dismiss(w, "check")
      <4>1. state[t] = "live" /\ cur[w] # t
        BY <2>3, <3>2 DEF CheckHandle, IndInv, Placement
      <4> QED BY <2>3, <3>2, <4>1, <1>u DEF CheckHandle, Held, HeldIn
    <3> QED BY <2>3, <3>1, <3>2 DEF CheckHandle
  <2>3e. CASE SlotEmpty(w)
    <3>1. state[t] = "live" /\ cur[w] # t
      BY <2>3e DEF SlotEmpty, InSlot
    <3> QED BY <2>3e, <3>1, <1>u DEF SlotEmpty, Held, HeldIn
  <2>4. CASE LockSlot(w)
    BY <2>4, <1>k DEF LockSlot
  <2>5. ASSUME NEW c \in Conns, RecvData(w, c) PROVE Held(t)'
    BY <2>5, <1>k DEF RecvData
  <2>6. ASSUME NEW c \in Conns, RecvEmpty(w, c) PROVE Held(t)'
    BY <2>6, <1>k DEF RecvEmpty
  <2>7. ASSUME NEW c \in Conns, SendData(w, c) PROVE Held(t)'
    BY <2>7, <1>k DEF SendData
  <2>8. CASE Accept(w)
    <3>1. PICK d \in Backlog : /\ wakeq' = [wakeq EXCEPT ![w] = <<d, d>>]
                             /\ state' = [state EXCEPT ![d] = "live"]
      BY <2>8 DEF Accept
    <3>2. wakeq[w] = <<>>
      BY <2>8, <1>u DEF Accept, Polling, LocalOf, Waking
    <3>3. CASE t = d
      <4>1. 1 \in DOMAIN wakeq'[w] /\ wakeq'[w][1] = t
        BY <3>1, <3>3, <1>t
      <4> QED BY <4>1 DEF Held, HeldIn
    <3>4. CASE t # d
      <4>1. state[t] = "live"
        BY <3>1, <3>4, <1>t
      <4> QED BY <2>8, <3>1, <3>2, <4>1, <1>u, <1>t DEF Accept, Held, HeldIn
    <3> QED BY <3>3, <3>4
  <2>9. CASE AcceptError(w)
    <3>1. state[t] = "live"
      BY <2>9, <1>t DEF AcceptError, Backlog
    <3> QED BY <2>9, <3>1, <1>k DEF AcceptError
  <2>10. CASE WouldBlock(w)
    BY <2>10, <1>k DEF WouldBlock
  <2>11. CASE StillPending(w)
    <3>0. polled[w] = cur[w]
      BY <2>11, <1>u DEF StillPending, LocalOf, InPoll
    <3>1. state[t] = "live" /\ cur[w] \in registered /\ cur[w] \in Tasks
      BY <2>11, <3>0, <1>u DEF StillPending, ControlOf, InPoll
    <3>2. CASE t = cur[w]
      <4>1. HasWaker(t)
        BY <2>11, <3>0, <3>1, <3>2 DEF StillPending, OneInv, WaitersKnown
      <4> QED BY <2>11, <4>1, <1>t DEF StillPending, HasWaker, Held, HeldIn
    <3>3. CASE t # cur[w]
      BY <2>11, <3>1, <3>3, <1>u DEF StillPending, Held, HeldIn
    <3> QED BY <3>2, <3>3
  <2>12. CASE RegisterFdWaker(w)
    <3> DEFINE f == fd[cur[w]]
    <3>0. polled[w] = cur[w]
      BY <2>12, <1>u DEF RegisterFdWaker, LocalOf, InPoll
    <3>1. /\ state[t] = "live" /\ cur[w] \in Tasks /\ f \in AllFds
          /\ regWaiters' = [regWaiters EXCEPT ![f] = Append(@, cur[w])]
          /\ regWaiters[f] \in Seq(Tasks)
      BY <2>12, <3>0, <1>u, <1>t DEF RegisterFdWaker, ControlOf, InPoll
    <3>2. CASE t = cur[w]
      <4>1. /\ Len(regWaiters[f]) + 1 \in DOMAIN regWaiters'[f]
            /\ regWaiters'[f][Len(regWaiters[f]) + 1] = t
        BY <3>1, <3>2, <1>t
      <4> QED BY <3>1, <4>1 DEF Held, HeldIn
    <3>3. CASE t # cur[w]
      <4>1. \A e \in AllFds : \A i \in DOMAIN regWaiters[e] :
              i \in DOMAIN regWaiters'[e] /\ regWaiters'[e][i] = regWaiters[e][i]
        BY <3>1, <1>t
      <4> QED BY <2>12, <3>1, <3>3, <4>1, <1>u DEF RegisterFdWaker, Held, HeldIn
    <3> QED BY <3>2, <3>3
  <2>13. CASE UnregisterFd(w)
    <3>0. polled[w] = cur[w]
      BY <2>13, <1>u DEF UnregisterFd, Goto, LocalOf, InPoll
    <3>1. state[t] = "live" /\ cur[w] \in Conns /\ state[cur[w]] = "live"
      BY <2>13, <3>0, <1>u DEF UnregisterFd, Goto, ControlOf, Closing, InPoll
    <3>2. CASE t = cur[w]
      BY <2>13, <3>2 DEF UnregisterFd, Held, HeldIn
    <3>3. CASE t # cur[w]
      <4>1. fd[t] # fd[cur[w]]
        BY <3>1, <3>3, <1>t, ReactorAssumption DEF IndInv, Ownership, TypeOK
      <4>2. \A i \in DOMAIN regWaiters[fd[cur[w]]] : regWaiters[fd[cur[w]]][i] # t
        <5> SUFFICES ASSUME NEW i \in DOMAIN regWaiters[fd[cur[w]]],
                            regWaiters[fd[cur[w]]][i] = t
                     PROVE  FALSE
          OBVIOUS
        <5>1. fd[cur[w]] \in AllFds /\ regWaiters[fd[cur[w]]] # <<>>
          BY <3>1, <1>t
        <5>2. regEvents[fd[cur[w]]] # "none"
          BY <5>1 DEF IndInv, TypeOK
        <5>3. PICK u \in Tasks : fd[u] = fd[cur[w]] /\ InSlot(u, t)
          BY <5>1, <5>2 DEF IndInv, RegistryNamesSlot
        <5>4. u = t
          BY <3>1, <5>3 DEF IndInv, Placement, InSlot
        <5> QED BY <4>1, <5>3, <5>4
      <4> QED BY <2>13, <3>0, <3>1, <4>2, <1>t DEF UnregisterFd, RemoveEntry, Held, HeldIn
    <3> QED BY <3>2, <3>3
  <2>14. CASE RefreshSignal(w)
    BY <2>14, <1>k DEF RefreshSignal
  <2>15. CASE CloseFd(w)
    <3>0. polled[w] = cur[w]
      BY <2>15, <1>u DEF CloseFd, LocalOf, InPoll
    <3>1. t # cur[w] /\ state[t] = "live"
      BY <2>15, <3>0, <1>t DEF CloseFd, FreeSlot
    <3> QED BY <2>15, <3>1, <1>u DEF CloseFd, CloseSocket, FreeSlot, Held, HeldIn
  <2>16. CASE WakePush(w)
    <3> DEFINE q == wakeq[w]
    <3>1. /\ state[t] = "live" /\ q \in Seq(Tasks) /\ q # <<>> /\ wakeq'[w] = Tail(q)
          /\ sched' = <<Head(q)>> \o sched /\ cur' = cur /\ regWaiters' = regWaiters
      BY <2>16, <1>u, <1>t DEF WakePush, Goto, ControlOf
    <3>2. /\ \A i \in DOMAIN sched : i + 1 \in DOMAIN sched' /\ sched'[i + 1] = sched[i]
          /\ 1 \in DOMAIN sched' /\ sched'[1] = q[1]
      BY <3>1, <1>t
    <3>3. CASE \E i \in DOMAIN q : q[i] = t
      <4>1. PICK i \in DOMAIN q : q[i] = t
        BY <3>3
      <4>2. i = 1 \/ (i - 1 \in DOMAIN wakeq'[w] /\ wakeq'[w][i - 1] = t)
        BY <3>1, <4>1
      <4> QED BY <3>2, <4>1, <4>2 DEF Held, HeldIn
    <3>4. CASE ~ \E i \in DOMAIN q : q[i] = t
      <4>1. \/ \E i \in DOMAIN sched : sched[i] = t
            \/ \E v \in Workers : cur[v] = t
            \/ \E f \in AllFds : \E i \in DOMAIN regWaiters[f] : regWaiters[f][i] = t
        BY <3>1, <3>4, <1>u DEF Held, HeldIn
      <4>2. (\E i \in DOMAIN sched : sched[i] = t) => \E i \in DOMAIN sched' : sched'[i] = t
        BY <3>2
      <4> QED BY <3>1, <4>1, <4>2 DEF Held, HeldIn
    <3> QED BY <3>3, <3>4
  <2>17. CASE WakeSignal(w)
    BY <2>17, <1>k DEF WakeSignal
  <2>18. CASE Snapshot(w)
    BY <2>18, <1>k DEF Snapshot
  <2>19. CASE Ppoll(w)
    BY <2>19, <1>k DEF Ppoll
  <2>20. CASE PpollError(w)
    BY <2>20, <1>k DEF PpollError
  <2>21. CASE Drain(w)
    BY <2>21, <1>k DEF Drain
  <2>22. CASE ScanFd(w)
    <3>1. PICK f \in AllFds : /\ regWaiters' = [regWaiters EXCEPT ![f] = <<>>]
                              /\ wakeq' = [wakeq EXCEPT ![w] = regWaiters[f]]
      BY <2>22 DEF ScanFd, RemoveEntry, IndInv, TypeOK
    <3>2. state[t] = "live" /\ wakeq[w] = <<>> /\ sched' = sched /\ cur' = cur
      BY <2>22, <1>u DEF ScanFd, LocalOf, Waking
    <3>3. \A i \in DOMAIN regWaiters[f] : regWaiters[f][i] = wakeq'[w][i]
        /\ i \in DOMAIN wakeq'[w]
      BY <3>1, <1>t
    <3> QED BY <3>1, <3>2, <3>3, <1>u, <1>t DEF Held, HeldIn
  <2>23. CASE ScanDone(w)
    BY <2>23, <1>k DEF ScanDone
  <2> QED BY <1>3, <2>1, <2>2, <2>3, <2>3e, <2>4, <2>5, <2>6, <2>7, <2>8, <2>9,
       <2>10, <2>11, <2>12, <2>13, <2>14, <2>15, <2>16, <2>17, <2>18, <2>19, <2>20,
       <2>21, <2>22, <2>23 DEF Worker, Handler
<1> QED BY <1>1, <1>2, <1>3 DEF Next

LEMMA OneStep ==
  IndInv /\ OneInv /\ OneWorker /\ ~SendBuffersFill /\ [Next]_vars => OneInv'
  <1> SUFFICES ASSUME IndInv, OneInv, OneWorker, ~SendBuffersFill, [Next]_vars PROVE OneInv'
    OBVIOUS
  <1>1. SendsNeverBlock' /\ WaitersKnown'
    BY SendsStep, WaitersStep
  <1>2. \A w \in Workers : LocalOf(w)' /\ ReadyOf(w)'
    BY LocalStep, ReadyStep
  <1>3. ASSUME NEW t \in Tasks, state'[t] = "live" PROVE Tokens(t)' # {}
    <2>1. state[t] = "live" => Held(t)
      BY HeldTokens DEF OneInv, NotForgotten, Held, Tokens
    <2>2. Held(t)'
      BY <1>3, <2>1, HeldStep
    <2> QED  BY <2>2, HeldTokens DEF Held, Tokens
  <1> QED  BY <1>1, <1>2, <1>3 DEF OneInv, NotForgotten

\* The main thread alone (worker_count 0) never forgets a task while send buffers
\* have room: worker_loop may drop a Pending task, because its waker is still in
\* IO_REG.  With two workers, or a full send buffer, this fails.
THEOREM OneWorkerForgetsNone ==
  OneWorker /\ ~SendBuffersFill => (Spec => []NotForgotten)
<1> SUFFICES ASSUME OneWorker, ~SendBuffersFill PROVE Spec => []NotForgotten
  OBVIOUS
<1>1. OneInv => NotForgotten
  BY DEF OneInv
<1>2. IndInv /\ OneInv /\ [Next]_vars => OneInv'
  BY OneStep
<1> QED BY <1>1, <1>2, OneInit, IndInvAlways, PTL DEF Spec
=============================================================================
