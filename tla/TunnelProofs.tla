---------------------------- MODULE TunnelProofs ----------------------------
(***************************************************************************)
(* Proofs about Tunnel, for every number of queues, every set of endpoints *)
(* and every bound.                                                        *)
(***************************************************************************)
EXTENDS Tunnel, TLAPS

\* Where a worker holds the write lock, and where it holds the lock at all.
WriterAt == {"recheck", "alloc", "register", "mapadd", "rehash"}
LockedAt == WriterAt \cup {"next", "tap", "udp", "deliver", "rearm"}

\* A worker of Tunnel is at a Label; a cancelled one (Shutdown) has ended.
Place == Label \cup {"exit"}

LockInv ==
  /\ pc \in [Worker -> Place]
  /\ main \in {"join", "rdlock", "report", "crash"}
  /\ writer \in Worker \cup {Nobody}
  /\ readers \subseteq Worker \cup {Main}
  /\ writer # Nobody => readers = {}
  /\ \A w \in Worker : pc[w] \in WriterAt => writer = w
  /\ \A w \in Worker : pc[w] \in LockedAt => w \in readers \/ writer = w
  /\ main = "report" => Main \in readers

-----------------------------------------------------------------------------
(* A step that moves one worker and leaves the lock alone keeps LockInv if *)
(* the worker needs no more of the lock than it had.                       *)
LEMMA LockKept ==
  ASSUME LockInv, NEW w \in Worker, NEW l \in Place, Goto(w, l),
         UNCHANGED <<lockVars, main>>,
         l \in WriterAt => pc[w] \in WriterAt,
         l \in LockedAt => pc[w] \in LockedAt
  PROVE  LockInv'
  BY DEF LockInv, Goto, lockVars

(* A step that takes the read lock keeps LockInv if it needs no more.      *)
LEMMA LockRead ==
  ASSUME LockInv, NEW w \in Worker, NEW l \in Place \ WriterAt, Goto(w, l),
         RdLock(w), UNCHANGED main
  PROVE  LockInv'
  BY DEF LockInv, Goto, RdLock

(* A step that takes the write lock keeps LockInv, wherever it leads.      *)
LEMMA LockWritten ==
  ASSUME LockInv, NEW w \in Worker, NEW l \in Place, Goto(w, l), WrLock(w), UNCHANGED main
  PROVE  LockInv'
  BY DEF LockInv, Goto, WrLock, Worker, Nobody, Main, WriterAt, LockedAt

(* A step that gives the lock back keeps LockInv if it needs none.         *)
LEMMA LockReleased ==
  ASSUME LockInv, NEW w \in Worker, NEW l \in Place \ LockedAt, Goto(w, l),
         Unlock(w), UNCHANGED main
  PROVE  LockInv'
  BY DEF LockInv, Goto, Unlock, Worker, Nobody, Main, WriterAt, LockedAt

(* Every step of worker_thread() and of tunnel_print_stats() respects the  *)
(* reader-writer discipline.                                               *)
LEMMA LockNext == LockInv /\ [Next]_vars => LockInv'
  <1> SUFFICES ASSUME LockInv, [Next]_vars PROVE LockInv'
    OBVIOUS
  <1> USE DEF Place, Label, InEvent, WriterAt, LockedAt
  <1>1. ASSUME NEW w \in Worker, EpollWait(w) PROVE LockInv'
    BY <1>1, LockKept DEF EpollWait
  <1>2. ASSUME NEW w \in Worker, LockBatch(w) PROVE LockInv'
    BY <1>2, LockRead DEF LockBatch
  <1>3. ASSUME NEW w \in Worker, NextEvent(w) PROVE LockInv'
    <2> PICK v \in batch[w] : Goto(w, IF v.tap = -1 THEN "udp" ELSE "tap")
      BY <1>3 DEF NextEvent
    <2> PICK l \in {"udp", "tap"} : Goto(w, l)
      OBVIOUS
    <2> QED
      BY <1>3, LockKept DEF NextEvent
  <1>4. ASSUME NEW w \in Worker, EndBatch(w) PROVE LockInv'
    BY <1>4, LockReleased DEF EndBatch
  <1>5. ASSUME NEW w \in Worker, ForwardFrame(w) PROVE LockInv'
    BY <1>5 DEF ForwardFrame, LockInv, lockVars
  <1>6. ASSUME NEW w \in Worker, TapDrained(w) PROVE LockInv'
    BY <1>6, LockKept DEF TapDrained
  <1>7. ASSUME NEW w \in Worker, StrayTapEvent(w) PROVE LockInv'
    <2>1. CASE Goto(w, "rearm") /\ UNCHANGED main
      BY <1>7, <2>1, LockKept DEF StrayTapEvent
    <2>2. CASE pc' = [x \in Worker |-> "crash"] /\ main' = "crash"
      BY <1>7, <2>2 DEF StrayTapEvent, LockInv, lockVars
    <2> QED
      BY <1>7, <2>1, <2>2 DEF StrayTapEvent
  <1>8. ASSUME NEW w \in Worker, IoError(w) PROVE LockInv'
    BY <1>8, LockKept DEF IoError
  <1>9. ASSUME NEW w \in Worker, ReceiveKnown(w) PROVE LockInv'
    BY <1>9, LockKept DEF ReceiveKnown, Receive
  <1>10. ASSUME NEW w \in Worker, ReceiveRefused(w) PROVE LockInv'
    BY <1>10 DEF ReceiveRefused, Receive, LockInv, lockVars
  <1>11. ASSUME NEW w \in Worker, ReceiveNew(w) PROVE LockInv'
    BY <1>11, LockReleased DEF ReceiveNew, Receive
  <1>12. ASSUME NEW w \in Worker, SocketDrained(w) PROVE LockInv'
    BY <1>12, LockKept DEF SocketDrained
  <1>13. ASSUME NEW w \in Worker, LockTable(w) PROVE LockInv'
    BY <1>13, LockWritten DEF LockTable
  <1>14. ASSUME NEW w \in Worker, RecheckFound(w) PROVE LockInv'
    BY <1>14, LockReleased DEF RecheckFound
  <1>15. ASSUME NEW w \in Worker, RecheckMissed(w) PROVE LockInv'
    BY <1>15, LockKept DEF RecheckMissed
  <1>16. ASSUME NEW w \in Worker, RelockRead(w) PROVE LockInv'
    BY <1>16, LockRead DEF RelockRead
  <1>17. ASSUME NEW w \in Worker, Deliver(w) PROVE LockInv'
    BY <1>17, LockKept DEF Deliver
  <1>18. ASSUME NEW w \in Worker, CreateTap(w) PROVE LockInv'
    BY <1>18, LockKept DEF CreateTap
  <1>19. ASSUME NEW w \in Worker, CreateTapFails(w) PROVE LockInv'
    BY <1>19, LockKept DEF CreateTapFails
  <1>20. ASSUME NEW w \in Worker, RegisterQueue(w) PROVE LockInv'
    BY <1>20 DEF RegisterQueue, LockInv, lockVars
  <1>21. ASSUME NEW w \in Worker, RegisterFails(w) PROVE LockInv'
    BY <1>21, LockKept DEF RegisterFails
  <1>22. ASSUME NEW w \in Worker, CommitTap(w) PROVE LockInv'
    BY <1>22, LockKept DEF CommitTap
  <1>23. ASSUME NEW w \in Worker,
                MapAdd(w) \/ MapAddSpins(w) \/ MapAddFails(w) \/ MapAddStrands(w) \/ MapAddMoves(w)
         PROVE  LockInv'
    BY <1>23, LockKept DEF MapAdd, MapAddSpins, MapAddFails, MapAddStrands, MapAddMoves
  <1>24. ASSUME NEW w \in Worker, Rearm(w) \/ RearmFails(w) PROVE LockInv'
    BY <1>24, LockKept DEF Rearm, RearmFails
  <1>25. CASE Environment
    BY <1>25 DEF Environment, Datagram, Frame, ReportAsked, LockInv, lockVars
  <1>26. CASE ReportLock
    BY <1>26 DEF ReportLock, RdLock, LockInv
  <1>27. CASE ReportDone
    BY <1>27 DEF ReportDone, Unlock, LockInv, Worker, Main, Nobody
  <1>28. CASE UNCHANGED vars
    BY <1>28 DEF vars, lockVars, LockInv
  <1>29. ASSUME NEW w \in Worker, PortAssertFails(w) PROVE LockInv'
    BY <1>29 DEF PortAssertFails, LockInv, lockVars
  <1> HIDE DEF Place, Label, InEvent, WriterAt, LockedAt
  <1> QED
    BY <1>1, <1>2, <1>3, <1>4, <1>5, <1>6, <1>7, <1>8, <1>9, <1>10, <1>11, <1>12, <1>13,
       <1>14, <1>15, <1>16, <1>17, <1>18, <1>19, <1>20, <1>21, <1>22, <1>23, <1>24, <1>25,
       <1>26, <1>27, <1>28, <1>29
    DEF Next, WorkerStep, MainStep

(* The lock invariant holds in every reachable state, failures included.   *)
THEOREM LockInvariant == Spec => []LockInv
  <1>1. Init => LockInv
    BY DEF Init, LockInv, Place, Label, WriterAt, LockedAt, InEvent, Worker
  <1> QED
    BY <1>1, LockNext, PTL DEF Spec

\* The other direction: who has the lock is where it is counted on.
HeldInv ==
  /\ \A w \in Worker : w \in readers \/ writer = w => pc[w] \in LockedAt \cup {"crash"}
  /\ Main \in readers => main \in {"report", "crash"}

(* A step that moves one worker and leaves the lock alone keeps HeldInv if *)
(* the worker does not forget the lock.                                    *)
LEMMA HeldKept ==
  ASSUME LockInv, HeldInv, NEW w \in Worker, NEW l \in Place, Goto(w, l),
         UNCHANGED <<lockVars, main>>,
         pc[w] \in LockedAt => l \in LockedAt, pc[w] # "crash"
  PROVE  HeldInv'
  BY DEF LockInv, HeldInv, Goto, lockVars

(* No step of worker_thread() or of tunnel_print_stats() keeps a lock.     *)
LEMMA HeldNext ==
  ASSUME LockInv, HeldInv, [Next]_vars
  PROVE  HeldInv'
  <1> USE DEF Place, Label, InEvent, WriterAt, LockedAt
  <1>1. ASSUME NEW w \in Worker, EpollWait(w) \/ TapDrained(w) \/ IoError(w) PROVE HeldInv'
    BY <1>1, HeldKept DEF EpollWait, TapDrained, IoError
  <1>2. ASSUME NEW w \in Worker, NextEvent(w) PROVE HeldInv'
    <2> PICK v \in batch[w] : Goto(w, IF v.tap = -1 THEN "udp" ELSE "tap")
      BY <1>2 DEF NextEvent
    <2> PICK l \in {"udp", "tap"} : Goto(w, l)
      OBVIOUS
    <2> QED
      BY <1>2, HeldKept DEF NextEvent
  <1>3. ASSUME NEW w \in Worker, ReceiveKnown(w) \/ SocketDrained(w) \/ RecheckMissed(w) \/ Deliver(w) PROVE HeldInv'
    BY <1>3, HeldKept DEF ReceiveKnown, Receive, SocketDrained, RecheckMissed, Deliver
  <1>4. ASSUME NEW w \in Worker, CreateTap(w) \/ CreateTapFails(w) \/ RegisterFails(w) \/ CommitTap(w) PROVE HeldInv'
    BY <1>4, HeldKept DEF CreateTap, CreateTapFails, RegisterFails, CommitTap
  <1>5. ASSUME NEW w \in Worker,
               \/ MapAdd(w) \/ MapAddSpins(w) \/ MapAddFails(w) \/ MapAddStrands(w) \/ MapAddMoves(w)
               \/ Rearm(w) \/ RearmFails(w)
        PROVE  HeldInv'
    BY <1>5, HeldKept DEF MapAdd, MapAddSpins, MapAddFails, MapAddStrands, MapAddMoves, Rearm, RearmFails
  <1>6. ASSUME NEW w \in Worker, StrayTapEvent(w) PROVE HeldInv'
    <2>1. CASE Goto(w, "rearm") /\ UNCHANGED main
      BY <1>6, <2>1, HeldKept DEF StrayTapEvent
    <2>2. CASE pc' = [x \in Worker |-> "crash"] /\ main' = "crash"
      BY <2>2 DEF HeldInv
    <2> QED
      BY <1>6, <2>1, <2>2 DEF StrayTapEvent
  <1>7. ASSUME NEW w \in Worker, ForwardFrame(w) \/ ReceiveRefused(w) \/ RegisterQueue(w) PROVE HeldInv'
    BY <1>7 DEF ForwardFrame, ReceiveRefused, Receive, RegisterQueue, HeldInv, lockVars
  <1>8. ASSUME NEW w \in Worker, LockBatch(w) \/ RelockRead(w) PROVE HeldInv'
    <2>1. /\ readers' = readers \cup {w} /\ UNCHANGED <<writer, main>>
          /\ \A x \in Worker : x # w => pc'[x] = pc[x]
      BY <1>8 DEF LockBatch, RelockRead, RdLock, Goto, LockInv
    <2>2. pc'[w] \in LockedAt
      BY <1>8 DEF LockBatch, RelockRead, Goto, LockInv
    <2> QED
      BY <2>1, <2>2 DEF HeldInv, Worker, Main
  <1>9. ASSUME NEW w \in Worker, LockTable(w) PROVE HeldInv'
    BY <1>9 DEF LockTable, WrLock, Goto, LockInv, HeldInv, Worker, Main, Nobody
  <1>10. ASSUME NEW w \in Worker, EndBatch(w) \/ ReceiveNew(w) \/ RecheckFound(w) PROVE HeldInv'
    <2>1. Unlock(w) /\ UNCHANGED main /\ \A x \in Worker : x # w => pc'[x] = pc[x]
      BY <1>10 DEF EndBatch, ReceiveNew, Receive, RecheckFound, Goto, LockInv
    <2>2. /\ w \notin readers' /\ writer' # w
          /\ readers' \subseteq readers /\ writer' \in {writer, Nobody}
      BY <2>1 DEF Unlock, Worker, Nobody
    <2> QED
      BY <2>1, <2>2 DEF HeldInv, Worker, Nobody
  <1>11. CASE Environment
    <2>1. UNCHANGED <<pc, lockVars>> /\ (main' = main \/ (main = "join" /\ main' = "rdlock"))
      BY <1>11 DEF Environment, Datagram, Frame, ReportAsked
    <2> QED
      BY <2>1 DEF HeldInv, lockVars
  <1>12. CASE ReportLock
    BY <1>12 DEF ReportLock, RdLock, HeldInv, LockInv, Worker, Main, Nobody
  <1>13. CASE ReportDone
    BY <1>13 DEF ReportDone, Unlock, HeldInv, LockInv, Worker, Main, Nobody
  <1>14. CASE UNCHANGED vars
    BY <1>14 DEF vars, lockVars, HeldInv
  <1>15. ASSUME NEW w \in Worker, PortAssertFails(w) PROVE HeldInv'
    BY <1>15 DEF PortAssertFails, HeldInv
  <1> HIDE DEF Place, Label, InEvent, WriterAt, LockedAt
  <1> QED
    BY <1>1, <1>2, <1>3, <1>4, <1>5, <1>6, <1>7, <1>8, <1>9, <1>10, <1>11, <1>12, <1>13, <1>14, <1>15
    DEF Next, WorkerStep, MainStep

(* Each thread has the lock exactly where it counts on it, for any number  *)
(* of workers and through every failure: nobody waits for a lock it has or *)
(* leaves one behind.                                                      *)
THEOREM LockAlwaysBalanced == Spec => []LockBalanced
  <1>1. Init => HeldInv
    BY DEF Init, HeldInv, Worker, Nobody
  <1>2. LockInv /\ HeldInv /\ [Next]_vars => HeldInv'
    BY HeldNext
  <1>3. LockInv /\ HeldInv => LockBalanced
    BY DEF LockInv, HeldInv, LockBalanced, Holding, Reading, Mutating, WriterAt, LockedAt
  <1> QED
    BY <1>1, <1>2, <1>3, LockInvariant, PTL DEF Spec

(* A worker that changes the tap table or the endpoint map is alone with   *)
(* them: for any number of workers, and across failed allocations.         *)
THEOREM ExclusiveTable == Spec => []TableExclusive
  <1>1. LockInv => TableExclusive
    BY DEF LockInv, TableExclusive, Mutating, Reading, WriterAt, LockedAt, Worker, Nobody, Main
  <1> QED
    BY <1>1, LockInvariant, PTL

-----------------------------------------------------------------------------
\* tap[w] is the id of a tap of the sender in hand.
TapOfSender(w) == tap[w] \in 0..(num_tap_devs - 1) /\ tap_devs[tap[w]].ep = pkt[w]

\* What each worker on its way from a new sender to a new tap has achieved.
NewTapInv ==
  \A w \in Worker :
    /\ pc[w] \in {"wrlock", "recheck", "alloc", "register", "mapadd", "rehash"} => pkt[w] \in Endpoint
    /\ pc[w] = "register" =>
         /\ tap[w] = num_tap_devs
         /\ num_tap_devs < tap_devs_allocated /\ num_tap_devs < ndev
         /\ tap_devs[num_tap_devs].ep = pkt[w]
    /\ pc[w] \in {"mapadd", "rehash"} => TapOfSender(w)
    /\ pc[w] \in {"relock", "deliver"} /\ map_state # "stale" => TapOfSender(w)

\* The map leads to taps of the right sender.
MapInv ==
  map_state # "stale" => \A e \in Endpoint :
    map[e] # -1 => map[e] < num_tap_devs /\ tap_devs[map[e]].ep = e

\* The inductive invariant of the tap table and the map, failures included.
TableInv ==
  /\ TypeOK
  /\ num_tap_devs <= tap_devs_allocated
  /\ NewTapInv
  /\ MapInv

TapInv == num_tap_devs <= tap_devs_allocated /\ NewTapInv /\ MapInv

(* A lookup that finds something finds, if t->map is not stale, a tap of   *)
(* the sender, and in any case the id of some tap.                         *)
LEMMA LookupSound ==
  ASSUME TypeOK, NEW e \in Endpoint, NEW i \in LookupResults(e) \ {-1}
  PROVE  /\ i \in -1..(ndev - 1)
         /\ MapInv /\ map_state # "stale" =>
              i \in 0..(num_tap_devs - 1) /\ tap_devs[i].ep = e
  <1>1. num_tap_devs \in 0..ndev /\ ndev \in Nat /\ map[e] \in -1..(ndev - 1)
    BY DEF TypeOK
  <1>2. CASE map_state = "sound"
    BY <1>1, <1>2 DEF LookupResults, MapInv
  <1>3. CASE map_state = "torn"
    BY <1>1, <1>3 DEF LookupResults
  <1>4. CASE map_state = "stale"
    BY <1>1, <1>4 DEF LookupResults
  <1> QED
    BY <1>2, <1>3, <1>4 DEF TypeOK

(* A worker goes from label to label: only a cancellation ends one.        *)
LEMMA LabelNext ==
  ASSUME pc \in [Worker -> Label], [Next]_vars
  PROVE  pc' \in [Worker -> Label]
  <1> USE DEF Label, InEvent, Goto
  <1>1. ASSUME NEW w \in Worker, WorkerStep(w) PROVE pc' \in [Worker -> Label]
    <2>1. CASE EpollWait(w) \/ LockBatch(w) \/ NextEvent(w) \/ EndBatch(w)
      BY <2>1 DEF EpollWait, LockBatch, NextEvent, EndBatch
    <2>2. CASE ForwardFrame(w) \/ TapDrained(w) \/ StrayTapEvent(w) \/ IoError(w)
      BY <2>2 DEF ForwardFrame, TapDrained, StrayTapEvent, IoError
    <2>3. CASE ReceiveKnown(w) \/ ReceiveRefused(w) \/ ReceiveNew(w) \/ SocketDrained(w)
      BY <2>3 DEF ReceiveKnown, ReceiveRefused, ReceiveNew, SocketDrained
    <2>4. CASE LockTable(w) \/ RecheckFound(w) \/ RecheckMissed(w) \/ RelockRead(w) \/ Deliver(w)
      BY <2>4 DEF LockTable, RecheckFound, RecheckMissed, RelockRead, Deliver
    <2>5. CASE CreateTap(w) \/ CreateTapFails(w) \/ PortAssertFails(w)
               \/ RegisterQueue(w) \/ RegisterFails(w) \/ CommitTap(w)
      BY <2>5 DEF CreateTap, CreateTapFails, PortAssertFails, RegisterQueue, RegisterFails, CommitTap
    <2>6. CASE MapAdd(w) \/ MapAddSpins(w) \/ MapAddFails(w) \/ MapAddStrands(w) \/ MapAddMoves(w)
               \/ Rearm(w) \/ RearmFails(w)
      BY <2>6 DEF MapAdd, MapAddSpins, MapAddFails, MapAddStrands, MapAddMoves, Rearm, RearmFails
    <2> QED
      BY <1>1, <2>1, <2>2, <2>3, <2>4, <2>5, <2>6 DEF WorkerStep
  <1>2. CASE MainStep \/ Environment \/ UNCHANGED vars
    BY <1>2 DEF MainStep, ReportLock, ReportDone, Environment, Datagram, Frame, ReportAsked, vars
  <1> QED
    BY <1>1, <1>2 DEF Next

(* Every step keeps the variables in their types, given the invariants.    *)
LEMMA TypeNext ==
  ASSUME LockInv, LockInv', pc' \in [Worker -> Label], TableInv, [Next]_vars
  PROVE  TypeOK'
  <1> USE DEF TypeOK, Event, Slot, Label, InEvent, Goto, localVars, kernelVars, tableVars, mapVars
  <1>1. ASSUME NEW w \in Worker, EpollWait(w) PROVE TypeOK'
    <2> HIDE DEF Event, Slot
    <2>1. Event' = Event /\ Slot' = Slot
      BY <1>1 DEF EpollWait, Event, Slot
    <2> PICK B \in SUBSET Ready(w) : batch' = [batch EXCEPT ![w] = B] /\ armed' = [armed EXCEPT ![w] = armed[w] \ B]
      BY <1>1 DEF EpollWait
    <2>2. B \subseteq Event
      BY DEF Ready, TableInv
    <2>3. batch' \in [Worker -> SUBSET Event] /\ armed' \in [Worker -> SUBSET Event]
      BY <2>2 DEF TableInv
    <2> QED
      BY <1>1, <2>1, <2>3 DEF EpollWait, TableInv, LockInv
  <1>2. ASSUME NEW w \in Worker, LockBatch(w) PROVE TypeOK'
    BY <1>2, TunnelAssumption DEF LockBatch, RdLock, TableInv, LockInv, NewTapInv
  <1>3. ASSUME NEW w \in Worker, NextEvent(w) PROVE TypeOK'
    <2> HIDE DEF Event, Slot
    <2>1. Event' = Event /\ Slot' = Slot
      BY <1>3 DEF NextEvent, Event, Slot
    <2> PICK v \in batch[w] : cur' = [cur EXCEPT ![w] = v] /\ batch' = [batch EXCEPT ![w] = batch[w] \ {v}]
      BY <1>3 DEF NextEvent
    <2>2. v \in Event
      BY DEF TableInv
    <2>3. cur' \in [Worker -> Event] /\ batch' \in [Worker -> SUBSET Event]
      BY <2>2 DEF TableInv
    <2> QED
      BY <1>3, <2>1, <2>3 DEF NextEvent, TableInv, LockInv
  <1>4. ASSUME NEW w \in Worker, EndBatch(w) PROVE TypeOK'
    BY <1>4, TunnelAssumption DEF EndBatch, Unlock, TableInv, LockInv, NewTapInv
  <1>5. ASSUME NEW w \in Worker, ForwardFrame(w) PROVE TypeOK'
    BY <1>5, TunnelAssumption DEF ForwardFrame, TableInv, LockInv, NewTapInv
  <1>6. ASSUME NEW w \in Worker, TapDrained(w) PROVE TypeOK'
    BY <1>6, TunnelAssumption DEF TapDrained, TableInv, LockInv, NewTapInv
  <1>7. ASSUME NEW w \in Worker, StrayTapEvent(w) PROVE TypeOK'
    BY <1>7, TunnelAssumption DEF StrayTapEvent, TableInv, LockInv, NewTapInv
  <1>8. ASSUME NEW w \in Worker, IoError(w) PROVE TypeOK'
    BY <1>8, TunnelAssumption DEF IoError, TableInv, LockInv, NewTapInv
  <1>9. ASSUME NEW w \in Worker, ReceiveKnown(w) PROVE TypeOK'
    <2> HIDE DEF Event, Slot
    <2>1. Event' = Event /\ Slot' = Slot
      BY <1>9 DEF ReceiveKnown, Receive, Event, Slot
    <2>2. udpq[w] \in Seq(Endpoint) /\ udpq[w] # <<>>
      BY <1>9 DEF ReceiveKnown, Receive, TableInv
    <2>3. Head(udpq[w]) \in Endpoint /\ Tail(udpq[w]) \in Seq(Endpoint)
      BY <2>2
    <2>4. udpq' \in [Worker -> Seq(Endpoint)] /\ pkt' \in [Worker -> Endpoint \cup {NoEndpoint}]
      BY <1>9, <2>3 DEF ReceiveKnown, Receive, TableInv
    <2>5. tap' \in [Worker -> -1..(ndev - 1)]
      <3>1. PICK i \in LookupResults(Head(udpq[w])) \ {-1} : tap' = [tap EXCEPT ![w] = i]
        BY <1>9 DEF ReceiveKnown
      <3>2. i \in -1..(ndev - 1)
        BY <2>3, LookupSound DEF TableInv
      <3> QED
        BY <3>1, <3>2 DEF TableInv
    <2> QED
      BY <1>9, <2>1, <2>4, <2>5 DEF ReceiveKnown, Receive, TableInv, LockInv
  <1>10. ASSUME NEW w \in Worker, ReceiveRefused(w) PROVE TypeOK'
    <2> HIDE DEF Event, Slot
    <2>1. Event' = Event /\ Slot' = Slot
      BY <1>10 DEF ReceiveRefused, Receive, Event, Slot
    <2>2. udpq[w] \in Seq(Endpoint) /\ udpq[w] # <<>>
      BY <1>10 DEF ReceiveRefused, Receive, TableInv
    <2>3. Head(udpq[w]) \in Endpoint /\ Tail(udpq[w]) \in Seq(Endpoint)
      BY <2>2
    <2>4. udpq' \in [Worker -> Seq(Endpoint)] /\ pkt' \in [Worker -> Endpoint \cup {NoEndpoint}]
      BY <1>10, <2>3 DEF ReceiveRefused, Receive, TableInv
    <2> QED
      BY <1>10, <2>1, <2>4 DEF ReceiveRefused, Receive, TableInv, LockInv
  <1>11. ASSUME NEW w \in Worker, ReceiveNew(w) PROVE TypeOK'
    <2> HIDE DEF Event, Slot
    <2>1. Event' = Event /\ Slot' = Slot
      BY <1>11 DEF ReceiveNew, Receive, Event, Slot
    <2>2. udpq[w] \in Seq(Endpoint) /\ udpq[w] # <<>>
      BY <1>11 DEF ReceiveNew, Receive, TableInv
    <2>3. Head(udpq[w]) \in Endpoint /\ Tail(udpq[w]) \in Seq(Endpoint)
      BY <2>2
    <2>4. udpq' \in [Worker -> Seq(Endpoint)] /\ pkt' \in [Worker -> Endpoint \cup {NoEndpoint}]
      BY <1>11, <2>3 DEF ReceiveNew, Receive, TableInv
    <2> QED
      BY <1>11, <2>1, <2>4 DEF ReceiveNew, Receive, TableInv, LockInv
  <1>12. ASSUME NEW w \in Worker, SocketDrained(w) PROVE TypeOK'
    BY <1>12, TunnelAssumption DEF SocketDrained, TableInv, LockInv, NewTapInv
  <1>13. ASSUME NEW w \in Worker, LockTable(w) PROVE TypeOK'
    BY <1>13, TunnelAssumption DEF LockTable, WrLock, TableInv, LockInv, NewTapInv
  <1>14. ASSUME NEW w \in Worker, RecheckFound(w) PROVE TypeOK'
    <2> HIDE DEF Event, Slot
    <2>1. Event' = Event /\ Slot' = Slot
      BY <1>14 DEF RecheckFound, Event, Slot
    <2>2. pkt[w] \in Endpoint
      BY <1>14 DEF RecheckFound, TableInv, NewTapInv
    <2>3. tap' \in [Worker -> -1..(ndev - 1)]
      <3>1. PICK i \in LookupResults(pkt[w]) \ {-1} : tap' = [tap EXCEPT ![w] = i]
        BY <1>14 DEF RecheckFound
      <3>2. i \in -1..(ndev - 1)
        BY <2>2, LookupSound DEF TableInv
      <3> QED
        BY <3>1, <3>2 DEF TableInv
    <2> QED
      BY <1>14, <2>1, <2>3 DEF RecheckFound, TableInv, LockInv
  <1>15. ASSUME NEW w \in Worker, RecheckMissed(w) PROVE TypeOK'
    BY <1>15, TunnelAssumption DEF RecheckMissed, LookupResults, TableInv, LockInv, NewTapInv
  <1>16. ASSUME NEW w \in Worker, RelockRead(w) PROVE TypeOK'
    BY <1>16, TunnelAssumption DEF RelockRead, RdLock, TableInv, LockInv, NewTapInv
  <1>17. ASSUME NEW w \in Worker, Deliver(w) PROVE TypeOK'
    BY <1>17, TunnelAssumption DEF Deliver, TableInv, LockInv, NewTapInv
  <1>18. ASSUME NEW w \in Worker, CreateTap(w) PROVE TypeOK'
    <2>1. Event \subseteq Event' /\ Slot \subseteq Slot' /\ ndev' = ndev + 1 /\ ndev \in Nat
      BY <1>18 DEF CreateTap, TableInv
    <2>2. /\ [ep |-> pkt[w], dev |-> ndev] \in Slot' /\ NoSlot \in Slot'
      BY <2>1 DEF TableInv, NoSlot
    <2>3. tap_devs' \in [0..(tap_devs_allocated' - 1) -> Slot'] /\ tap_devs_allocated' \in Nat
      <3> HIDE DEF Slot, Event
      <3>1. tap_devs_allocated' \in Nat
        BY <1>18 DEF CreateTap, FillSlot, NewSize, TableInv
      <3>2. \A i \in 0..(tap_devs_allocated - 1) : tap_devs[i] \in Slot'
        BY <2>1 DEF TableInv
      <3>3. \A i \in 0..(tap_devs_allocated' - 1) :
              (IF i = num_tap_devs THEN [ep |-> pkt[w], dev |-> ndev]
               ELSE IF i < tap_devs_allocated THEN tap_devs[i] ELSE NoSlot) \in Slot'
        BY <2>2, <3>1, <3>2 DEF TableInv
      <3> QED
        BY <1>18, <3>1, <3>3 DEF CreateTap, FillSlot
    <2> HIDE DEF Slot, Event
    <2>4. /\ batch' \in [Worker -> SUBSET Event'] /\ cur' \in [Worker -> Event']
          /\ armed' \in [Worker -> SUBSET Event']
      BY <1>18, <2>1 DEF CreateTap, TableInv
    <2>5. /\ tap' \in [Worker -> -1..(ndev' - 1)] /\ reg' \in [Worker -> 0..NumQueues]
          /\ map' \in [Endpoint -> -1..(ndev' - 1)] /\ num_tap_devs' \in 0..ndev'
          /\ frames' \subseteq (0..(ndev' - 1)) \X Worker
      BY <1>18, <2>1, TunnelAssumption DEF CreateTap, TableInv
    <2>6. /\ pkt' = pkt /\ udpq' = udpq /\ map_state' = map_state /\ inputs' = inputs
      BY <1>18 DEF CreateTap
    <2>7. /\ pkt \in [Worker -> Endpoint \cup {NoEndpoint}] /\ udpq \in [Worker -> Seq(Endpoint)]
          /\ map_state \in {"sound", "torn", "stale"} /\ inputs \in Nat /\ ndev' \in Nat
      BY <2>1 DEF TableInv
    <2> QED
      BY <2>3, <2>4, <2>5, <2>6, <2>7 DEF LockInv
  <1>19. ASSUME NEW w \in Worker, CreateTapFails(w) PROVE TypeOK'
    <2> HIDE DEF Event, Slot
    <2>1. Event' = Event /\ Slot' = Slot
      BY <1>19 DEF CreateTapFails, Event, Slot
    <2>2. /\ [ep |-> pkt[w], dev |-> -1] \in Slot /\ NoSlot \in Slot
      BY DEF TableInv, NoSlot, Slot
    <2>3. tap_devs' \in [0..(tap_devs_allocated' - 1) -> Slot] /\ tap_devs_allocated' \in Nat
      <3>1. CASE UNCHANGED <<tap_devs, tap_devs_allocated>>
        BY <3>1 DEF TableInv
      <3>2. CASE FillSlot([ep |-> pkt[w], dev |-> -1])
        <4>1. tap_devs_allocated' \in Nat
          BY <3>2 DEF FillSlot, NewSize, TableInv
        <4>2. \A i \in 0..(tap_devs_allocated' - 1) :
                (IF i = num_tap_devs THEN [ep |-> pkt[w], dev |-> -1]
                 ELSE IF i < tap_devs_allocated THEN tap_devs[i] ELSE NoSlot) \in Slot
          BY <2>2, <4>1 DEF TableInv
        <4> QED
          BY <3>2, <4>1, <4>2 DEF FillSlot
      <3> QED
        BY <1>19, <3>1, <3>2 DEF CreateTapFails
    <2> QED
      BY <1>19, <2>1, <2>3 DEF CreateTapFails, TableInv, LockInv
  <1>20. ASSUME NEW w \in Worker, RegisterQueue(w) PROVE TypeOK'
    <2> HIDE DEF Event, Slot
    <2>1. Event' = Event /\ Slot' = Slot
      BY <1>20 DEF RegisterQueue, Event, Slot
    <2>2. tap[w] \in 0..(tap_devs_allocated - 1) /\ tap[w] \in -1..(ndev - 1)
      BY <1>20 DEF RegisterQueue, TableInv, NewTapInv
    <2>3. tap_devs[tap[w]].dev \in -1..(ndev - 1)
      BY <2>2 DEF TableInv, Slot
    <2>4. TapEvent(tap[w], tap_devs[tap[w]].dev) \in Event
      BY <2>2, <2>3 DEF TapEvent, Event
    <2>5. armed' \in [Worker -> SUBSET Event]
      BY <1>20, <2>4 DEF RegisterQueue, TableInv
    <2>6. reg' \in [Worker -> 0..NumQueues]
      BY <1>20, TunnelAssumption DEF RegisterQueue, TableInv
    <2> QED
      BY <1>20, <2>1, <2>5, <2>6 DEF RegisterQueue, TableInv, LockInv
  <1>21. ASSUME NEW w \in Worker, RegisterFails(w) PROVE TypeOK'
    BY <1>21, TunnelAssumption DEF RegisterFails, TableInv, LockInv, NewTapInv
  <1>22. ASSUME NEW w \in Worker, CommitTap(w) PROVE TypeOK'
    <2> HIDE DEF Event, Slot
    <2>1. Event' = Event /\ Slot' = Slot
      BY <1>22 DEF CommitTap, Event, Slot
    <2>2. num_tap_devs' \in 0..ndev
      BY <1>22 DEF CommitTap, TableInv, NewTapInv
    <2> QED
      BY <1>22, <2>1, <2>2 DEF CommitTap, TableInv, LockInv
  <1>23. ASSUME NEW w \in Worker, MapAdd(w) PROVE TypeOK'
    BY <1>23, TunnelAssumption DEF MapAdd, Bind, TableInv, LockInv, NewTapInv
  <1>24. ASSUME NEW w \in Worker, MapAddFails(w) PROVE TypeOK'
    BY <1>24, TunnelAssumption DEF MapAddFails, TableInv, LockInv, NewTapInv
  <1>25. ASSUME NEW w \in Worker, MapAddMoves(w) PROVE TypeOK'
    BY <1>25, TunnelAssumption DEF MapAddMoves, Bind, TableInv, LockInv, NewTapInv
  <1>26. ASSUME NEW w \in Worker, Rearm(w) PROVE TypeOK'
    <2> HIDE DEF Event, Slot
    <2>1. Event' = Event /\ Slot' = Slot
      BY <1>26 DEF Rearm, Event, Slot
    <2>2. armed' \in [Worker -> SUBSET Event]
      BY <1>26 DEF Rearm, TableInv
    <2> QED
      BY <1>26, <2>1, <2>2 DEF Rearm, TableInv, LockInv
  <1>27. ASSUME NEW w \in Worker, RearmFails(w) PROVE TypeOK'
    BY <1>27, TunnelAssumption DEF RearmFails, TableInv, LockInv, NewTapInv
  <1>28. CASE Environment
    <2> HIDE DEF Event, Slot
    <2>1. Event' = Event /\ Slot' = Slot
      BY <1>28 DEF Environment, Datagram, Frame, ReportAsked, Event, Slot
    <2>2. inputs' \in Nat
      <3>1. Spend => inputs' \in Nat
        BY DEF Spend, TableInv
      <3> QED
        BY <1>28, <3>1 DEF Environment, Datagram, Frame, ReportAsked
    <2>3. ASSUME NEW q \in Worker, NEW e \in Endpoint, Datagram(q, e) PROVE TypeOK'
      <3>1. udpq' \in [Worker -> Seq(Endpoint)]
        BY <2>3 DEF Datagram, TableInv
      <3> QED
        BY <2>1, <2>2, <2>3, <3>1 DEF Datagram, TableInv, LockInv
    <2>4. ASSUME NEW d \in 0..(ndev - 1), NEW q \in Worker, Frame(d, q) PROVE TypeOK'
      BY <2>1, <2>2, <2>4 DEF Frame, TableInv, LockInv
    <2>5. CASE ReportAsked
      BY <2>1, <2>2, <2>5 DEF ReportAsked, TableInv, LockInv
    <2> QED
      BY <1>28, <2>3, <2>4, <2>5 DEF Environment
  <1>29. CASE MainStep
    <2> HIDE DEF Event, Slot
    <2>1. Event' = Event /\ Slot' = Slot
      BY <1>29 DEF MainStep, ReportLock, ReportDone, Event, Slot
    <2> QED
      BY <1>29, <2>1 DEF MainStep, ReportLock, ReportDone, TableInv, LockInv
  <1>30. CASE UNCHANGED vars
    BY <1>30, TunnelAssumption DEF vars, lockVars, TableInv, LockInv, NewTapInv
  <1>31. ASSUME NEW w \in Worker, PortAssertFails(w) PROVE TypeOK'
    BY <1>31, TunnelAssumption DEF PortAssertFails, TableInv, LockInv
  <1>32. ASSUME NEW w \in Worker, MapAddSpins(w) PROVE TypeOK'
    BY <1>32, TunnelAssumption DEF MapAddSpins, TableInv, LockInv, NewTapInv
  <1>33. ASSUME NEW w \in Worker, MapAddStrands(w) PROVE TypeOK'
    BY <1>33, TunnelAssumption DEF MapAddStrands, TableInv, LockInv, NewTapInv
  <1> HIDE DEF TypeOK, Event, Slot, Label, InEvent, Goto, localVars, kernelVars, tableVars, mapVars
  <1> QED
    BY <1>1, <1>2, <1>3, <1>4, <1>5, <1>6, <1>7, <1>8, <1>9, <1>10, <1>11, <1>12, <1>13, <1>14, <1>15, <1>16, <1>17, <1>18, <1>19, <1>20, <1>21, <1>22, <1>23, <1>24, <1>25, <1>26, <1>27, <1>28, <1>29, <1>30, <1>31, <1>32, <1>33
    DEF Next, WorkerStep

(* Every step keeps the tap table inside its allocation, the map in step   *)
(* with it, and each new tap with the worker that is creating it.          *)
LEMMA TapNext ==
  ASSUME LockInv, TableInv, [Next]_vars
  PROVE  TapInv'
  <1> USE DEF TapInv, NewTapInv, MapInv, TapOfSender, Goto, localVars, kernelVars, tableVars, mapVars
  <1>1. ASSUME NEW w \in Worker, EpollWait(w) PROVE TapInv'
    BY <1>1, TunnelAssumption DEF EpollWait, TableInv, TypeOK, LockInv, WriterAt
  <1>2. ASSUME NEW w \in Worker, LockBatch(w) PROVE TapInv'
    BY <1>2, TunnelAssumption DEF LockBatch, RdLock, TableInv, TypeOK, LockInv, WriterAt
  <1>3. ASSUME NEW w \in Worker, NextEvent(w) PROVE TapInv'
    BY <1>3, TunnelAssumption DEF NextEvent, TableInv, TypeOK, LockInv, WriterAt
  <1>4. ASSUME NEW w \in Worker, EndBatch(w) PROVE TapInv'
    BY <1>4, TunnelAssumption DEF EndBatch, Unlock, TableInv, TypeOK, LockInv, WriterAt
  <1>5. ASSUME NEW w \in Worker, ForwardFrame(w) PROVE TapInv'
    BY <1>5, TunnelAssumption DEF ForwardFrame, TableInv, TypeOK, LockInv, WriterAt
  <1>6. ASSUME NEW w \in Worker, TapDrained(w) PROVE TapInv'
    BY <1>6, TunnelAssumption DEF TapDrained, TableInv, TypeOK, LockInv, WriterAt
  <1>7. ASSUME NEW w \in Worker, StrayTapEvent(w) PROVE TapInv'
    BY <1>7, TunnelAssumption DEF StrayTapEvent, TableInv, TypeOK, LockInv, WriterAt
  <1>8. ASSUME NEW w \in Worker, IoError(w) PROVE TapInv'
    BY <1>8, TunnelAssumption DEF IoError, TableInv, TypeOK, LockInv, WriterAt
  <1>9. ASSUME NEW w \in Worker, ReceiveKnown(w) PROVE TapInv'
    <2>1. Head(udpq[w]) \in Endpoint /\ udpq[w] # <<>>
      BY <1>9 DEF ReceiveKnown, Receive, TableInv, TypeOK
    <2>2. PICK i \in LookupResults(Head(udpq[w])) \ {-1} : tap' = [tap EXCEPT ![w] = i]
      BY <1>9 DEF ReceiveKnown
    <2>3. map_state # "stale" => i \in 0..(num_tap_devs - 1) /\ tap_devs[i].ep = Head(udpq[w])
      BY <2>1, <2>2, LookupSound DEF TableInv
    <2> QED
      BY <1>9, <2>2, <2>3 DEF ReceiveKnown, Receive, TableInv, TypeOK
  <1>10. ASSUME NEW w \in Worker, ReceiveRefused(w) PROVE TapInv'
    <2>1. /\ UNCHANGED <<pc, tap, tableVars, mapVars, ndev>> /\ pc[w] = "udp"
          /\ pkt' = [pkt EXCEPT ![w] = Head(udpq[w])]
      BY <1>10 DEF ReceiveRefused, Receive
    <2> QED
      BY <2>1 DEF TableInv, TypeOK
  <1>11. ASSUME NEW w \in Worker, ReceiveNew(w) PROVE TapInv'
    BY <1>11, TunnelAssumption DEF ReceiveNew, Receive, Unlock, TableInv, TypeOK, LockInv, WriterAt
  <1>12. ASSUME NEW w \in Worker, SocketDrained(w) PROVE TapInv'
    BY <1>12, TunnelAssumption DEF SocketDrained, TableInv, TypeOK, LockInv, WriterAt
  <1>13. ASSUME NEW w \in Worker, LockTable(w) PROVE TapInv'
    BY <1>13, TunnelAssumption DEF LockTable, WrLock, TableInv, TypeOK, LockInv, WriterAt
  <1>14. ASSUME NEW w \in Worker, RecheckFound(w) PROVE TapInv'
    <2>1. pkt[w] \in Endpoint
      BY <1>14 DEF RecheckFound, TableInv
    <2>2. PICK i \in LookupResults(pkt[w]) \ {-1} : tap' = [tap EXCEPT ![w] = i]
      BY <1>14 DEF RecheckFound
    <2>3. map_state # "stale" => i \in 0..(num_tap_devs - 1) /\ tap_devs[i].ep = pkt[w]
      BY <2>1, <2>2, LookupSound DEF TableInv
    <2> QED
      BY <1>14, <2>2, <2>3 DEF RecheckFound, TableInv, TypeOK
  <1>15. ASSUME NEW w \in Worker, RecheckMissed(w) PROVE TapInv'
    BY <1>15 DEF RecheckMissed, TableInv, TypeOK, LockInv
  <1>16. ASSUME NEW w \in Worker, RelockRead(w) PROVE TapInv'
    BY <1>16, TunnelAssumption DEF RelockRead, RdLock, TableInv, TypeOK, LockInv, WriterAt
  <1>17. ASSUME NEW w \in Worker, Deliver(w) PROVE TapInv'
    BY <1>17, TunnelAssumption DEF Deliver, TableInv, TypeOK, LockInv, WriterAt
  <1>18. ASSUME NEW w \in Worker, CreateTap(w) PROVE TapInv'
    <2>1. /\ num_tap_devs \in Nat /\ tap_devs_allocated \in Nat /\ num_tap_devs <= tap_devs_allocated
          /\ ndev \in Nat /\ num_tap_devs <= ndev
      BY DEF TableInv, TypeOK
    <2>2. /\ num_tap_devs < tap_devs_allocated' /\ tap_devs_allocated' \in Nat
          /\ tap_devs'[num_tap_devs].ep = pkt[w]
          /\ \A i \in 0..(num_tap_devs - 1) : tap_devs'[i] = tap_devs[i]
      BY <1>18, <2>1 DEF CreateTap, FillSlot, NeedsRoom, NewSize
    <2>3. /\ pc' = [pc EXCEPT ![w] = "register"] /\ tap' = [tap EXCEPT ![w] = num_tap_devs]
          /\ UNCHANGED <<pkt, num_tap_devs, map, map_state>> /\ ndev' = ndev + 1
      BY <1>18 DEF CreateTap
    <2>4. \A x \in Worker : x # w => pc[x] \notin {"register", "mapadd", "rehash"}
      BY <1>18 DEF CreateTap, LockInv, WriterAt
    <2>5. NewTapInv'
      <3> SUFFICES ASSUME NEW x \in Worker
                   PROVE  /\ pc'[x] \in {"wrlock", "recheck", "alloc", "register", "mapadd", "rehash"} => pkt[x] \in Endpoint
                          /\ pc'[x] = "register" =>
                               /\ tap'[x] = num_tap_devs
                               /\ num_tap_devs < tap_devs_allocated' /\ num_tap_devs < ndev'
                               /\ tap_devs'[num_tap_devs].ep = pkt[x]
                          /\ pc'[x] \in {"mapadd", "rehash"} => TapOfSender(x)'
                          /\ pc'[x] \in {"relock", "deliver"} /\ map_state # "stale" => TapOfSender(x)'
        BY <2>3
      <3>1. CASE x = w
        BY <1>18, <2>1, <2>2, <2>3, <3>1 DEF CreateTap, LockInv, TableInv, TypeOK
      <3>2. CASE x # w
        BY <2>1, <2>2, <2>3, <2>4, <3>2 DEF LockInv, TableInv, TypeOK
      <3> QED
        BY <3>1, <3>2
    <2>6. MapInv'
      <3>1. \A e \in Endpoint : map[e] \in -1..(ndev - 1)
        BY DEF TableInv, TypeOK
      <3>2. \A e \in Endpoint : map[e] # -1 /\ map[e] < num_tap_devs => map[e] \in 0..(num_tap_devs - 1)
        BY <2>1, <3>1
      <3> QED
        BY <2>2, <2>3, <3>2 DEF TableInv
    <2> QED
      BY <2>1, <2>2, <2>3, <2>5, <2>6
  <1>19. ASSUME NEW w \in Worker, CreateTapFails(w) PROVE TapInv'
    <2>1. CASE UNCHANGED <<tap_devs, tap_devs_allocated>>
      BY <1>19, <2>1 DEF CreateTapFails, TableInv, TypeOK, LockInv, WriterAt
    <2>2. CASE FillSlot([ep |-> pkt[w], dev |-> -1])
      <3>1. /\ num_tap_devs \in Nat /\ tap_devs_allocated \in Nat /\ num_tap_devs <= tap_devs_allocated
        BY DEF TableInv, TypeOK
      <3>2. /\ num_tap_devs < tap_devs_allocated' /\ tap_devs_allocated' \in Nat
            /\ \A i \in 0..(num_tap_devs - 1) : tap_devs'[i] = tap_devs[i]
        BY <2>2, <3>1 DEF FillSlot, NeedsRoom, NewSize
      <3>3. /\ pc' = [pc EXCEPT ![w] = "udp"]
            /\ UNCHANGED <<pkt, tap, num_tap_devs, map, map_state, ndev>>
        BY <1>19 DEF CreateTapFails
      <3>4. \A x \in Worker : pc'[x] \notin {"register", "mapadd", "rehash"}
        BY <1>19, <3>3 DEF CreateTapFails, LockInv, WriterAt
      <3>5. \A x \in Worker : pc'[x] = pc[x] \/ pc'[x] = "udp"
        BY <3>3 DEF LockInv
      <3>6. NewTapInv'
        BY <3>1, <3>2, <3>3, <3>4, <3>5 DEF TableInv, TypeOK
      <3>7. MapInv'
        <4>1. \A e \in Endpoint : map[e] # -1 /\ map[e] < num_tap_devs => map[e] \in 0..(num_tap_devs - 1)
          BY <3>1 DEF TableInv, TypeOK
        <4> QED
          BY <3>2, <3>3, <4>1 DEF TableInv
      <3> QED
        BY <3>1, <3>2, <3>3, <3>6, <3>7
    <2> QED
      BY <1>19, <2>1, <2>2 DEF CreateTapFails
  <1>20. ASSUME NEW w \in Worker, RegisterQueue(w) PROVE TapInv'
    BY <1>20, TunnelAssumption DEF RegisterQueue, TapEvent, TableInv, TypeOK, LockInv, WriterAt
  <1>21. ASSUME NEW w \in Worker, RegisterFails(w) PROVE TapInv'
    BY <1>21, TunnelAssumption DEF RegisterFails, TableInv, TypeOK, LockInv, WriterAt
  <1>22. ASSUME NEW w \in Worker, CommitTap(w) PROVE TapInv'
    BY <1>22, TunnelAssumption DEF CommitTap, TableInv, TypeOK, LockInv, WriterAt
  <1>23. ASSUME NEW w \in Worker, MapAdd(w) PROVE TapInv'
    BY <1>23, TunnelAssumption DEF MapAdd, Bind, TableInv, TypeOK, LockInv, WriterAt
  <1>24. ASSUME NEW w \in Worker, MapAddFails(w) PROVE TapInv'
    BY <1>24, TunnelAssumption DEF MapAddFails, TableInv, TypeOK, LockInv, WriterAt
  <1>25. ASSUME NEW w \in Worker, MapAddMoves(w) PROVE TapInv'
    BY <1>25, TunnelAssumption DEF MapAddMoves, Bind, TableInv, TypeOK, LockInv, WriterAt
  <1>26. ASSUME NEW w \in Worker, Rearm(w) PROVE TapInv'
    BY <1>26, TunnelAssumption DEF Rearm, TableInv, TypeOK, LockInv, WriterAt
  <1>27. ASSUME NEW w \in Worker, RearmFails(w) PROVE TapInv'
    BY <1>27, TunnelAssumption DEF RearmFails, TableInv, TypeOK, LockInv, WriterAt
  <1>28. CASE Environment
    <2>1. UNCHANGED <<pc, pkt, tap, tableVars, mapVars, ndev>>
      BY <1>28 DEF Environment, Datagram, Frame, ReportAsked
    <2> QED
      BY <2>1 DEF TableInv
  <1>29. CASE MainStep
    <2>1. UNCHANGED <<pc, pkt, tap, tableVars, mapVars, ndev>>
      BY <1>29 DEF MainStep, ReportLock, ReportDone
    <2> QED
      BY <2>1 DEF TableInv
  <1>30. CASE UNCHANGED vars
    BY <1>30, TunnelAssumption DEF vars, lockVars, TableInv, TypeOK, LockInv, WriterAt
  <1>31. ASSUME NEW w \in Worker, PortAssertFails(w) PROVE TapInv'
    BY <1>31, TunnelAssumption DEF PortAssertFails, TableInv, TypeOK, LockInv, WriterAt
  <1>32. ASSUME NEW w \in Worker, MapAddSpins(w) PROVE TapInv'
    BY <1>32, TunnelAssumption DEF MapAddSpins, TableInv, TypeOK, LockInv, WriterAt
  <1>33. ASSUME NEW w \in Worker, MapAddStrands(w) PROVE TapInv'
    BY <1>33, TunnelAssumption DEF MapAddStrands, TableInv, TypeOK, LockInv, WriterAt
  <1> HIDE DEF TapInv, NewTapInv, MapInv, TapOfSender, Goto, localVars, kernelVars, tableVars, mapVars
  <1> QED
    BY <1>1, <1>2, <1>3, <1>4, <1>5, <1>6, <1>7, <1>8, <1>9, <1>10, <1>11, <1>12, <1>13, <1>14, <1>15, <1>16, <1>17, <1>18, <1>19, <1>20, <1>21, <1>22, <1>23, <1>24, <1>25, <1>26, <1>27, <1>28, <1>29, <1>30, <1>31, <1>32, <1>33
    DEF Next, WorkerStep

(* A filled slot, with the realloc() before it, leaves the taps in use as  *)
(* they were.                                                              *)
LEMMA SlotsKept ==
  ASSUME TableInv, NEW s, FillSlot(s)
  PROVE  \A i \in 0..(num_tap_devs - 1) : tap_devs'[i] = tap_devs[i]
  <1>1. /\ num_tap_devs \in Nat /\ tap_devs_allocated \in Nat
        /\ num_tap_devs <= tap_devs_allocated
    BY DEF TableInv, TypeOK
  <1>2. tap_devs_allocated' \in Nat /\ tap_devs_allocated <= tap_devs_allocated'
    BY <1>1 DEF FillSlot, NewSize
  <1> QED
    BY <1>1, <1>2 DEF FillSlot

(* The table invariant holds in every reachable state, failures included.  *)
THEOREM TableInvariant == Spec => []TableInv
  <1>1. Init => TableInv
    <2> SUFFICES ASSUME Init PROVE TableInv
      OBVIOUS
    <2>1. ndev \in Nat /\ num_tap_devs = ndev /\ tap_devs_allocated = ndev
      BY DEF Init
    <2>2. TypeOK
      <3>1. \A i \in 0..(num_tap_devs - 1) : [ep |-> Default, dev |-> 0] \in Slot
        BY <2>1, TunnelAssumption DEF Init, Slot
      <3>2. tap_devs \in [0..(tap_devs_allocated - 1) -> Slot]
        BY <2>1, <3>1 DEF Init
      <3>3. /\ UdpEvent \in Event
            /\ Default # NoEndpoint => TapEvent(0, 0) \in Event
        BY DEF Init, UdpEvent, TapEvent, Event
      <3>4. /\ batch \in [Worker -> SUBSET Event] /\ cur \in [Worker -> Event]
            /\ armed \in [Worker -> SUBSET Event]
        BY <3>3 DEF Init
      <3>5. /\ map \in [Endpoint -> -1..(ndev - 1)] /\ tap \in [Worker -> -1..(ndev - 1)]
        <4>1. -1 \in -1..(ndev - 1) /\ (Default # NoEndpoint => 0 \in -1..(ndev - 1))
          BY DEF Init
        <4>2. \A e \in Endpoint : (IF e = Default THEN 0 ELSE -1) \in -1..(ndev - 1)
          BY <4>1, TunnelAssumption
        <4> QED
          BY <4>1, <4>2 DEF Init
      <3>6. /\ pc \in [Worker -> Label] /\ reg \in [Worker -> 0..NumQueues]
            /\ pkt \in [Worker -> Endpoint \cup {NoEndpoint}] /\ udpq \in [Worker -> Seq(Endpoint)]
        BY TunnelAssumption DEF Init, Label
      <3>7. /\ writer \in Worker \cup {Nobody} /\ readers \subseteq Worker \cup {Main}
            /\ main \in {"join", "rdlock", "report", "crash"}
            /\ frames \subseteq (0..(ndev - 1)) \X Worker
            /\ map_state \in {"sound", "torn", "stale"} /\ inputs \in Nat
        BY DEF Init
      <3>8. num_tap_devs \in 0..ndev /\ tap_devs_allocated \in Nat
        BY <2>1
      <3> QED
        BY <2>1, <3>2, <3>4, <3>5, <3>6, <3>7, <3>8 DEF TypeOK
    <2>3. NewTapInv
      BY DEF Init, NewTapInv
    <2>4. MapInv
      BY TunnelAssumption DEF Init, MapInv
    <2> QED
      BY <2>1, <2>2, <2>3, <2>4 DEF TableInv
  <1>2. LockInv /\ LockInv' /\ TableInv /\ [Next]_vars => TableInv'
    <2>1. LockInv /\ LockInv' /\ TableInv /\ [Next]_vars => pc' \in [Worker -> Label]
      BY LabelNext DEF TableInv, TypeOK
    <2> QED
      BY <2>1, TypeNext, TapNext DEF TableInv, TapInv
  <1> QED
    BY <1>1, <1>2, LockInvariant, PTL DEF Spec

(* The variables of the tunnel keep their types.                           *)
THEOREM TunnelTypeCorrect == Spec => []TypeOK
  <1>1. TableInv => TypeOK
    BY DEF TableInv
  <1> QED
    BY <1>1, TableInvariant, PTL

(* As long as t->map is not stale, the map and the tap table agree and     *)
(* every datagram is written to the tap of its own sender, whatever fails  *)
(* and however many workers race.                                          *)
THEOREM RoutingCorrect == Spec => []Routing
  <1>1. TableInv => Routing
    BY DEF TableInv, NewTapInv, MapInv, TapOfSender, Routing
  <1> QED
    BY <1>1, TableInvariant, PTL

(* No tap id is ever outside the allocated table.                          *)
THEOREM TableAlwaysFits == Spec => []TableFits
  <1>1. TableInv => TableFits
    BY DEF TableInv, NewTapInv, TableFits
  <1> QED
    BY <1>1, TableInvariant, PTL
=============================================================================
