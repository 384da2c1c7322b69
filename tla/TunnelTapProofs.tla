-------------------------- MODULE TunnelTapProofs ---------------------------
(***************************************************************************)
(* Proofs about who gets a tap in Tunnel, and how many: a worker looks the *)
(* sender up and asks the allow list under the read lock, drops the lock,  *)
(* and makes the tap under the write lock.                                 *)
(***************************************************************************)
EXTENDS TunnelProofs, FiniteSetTheorems

\* From the moment a worker has decided on a new tap until it has the tap.
Making == {"wrlock"} \cup WriterAt

(* Who is making a tap has just been let in, or goes on with the sender it *)
(* had; who changes the table has just missed the sender in the map, or    *)
(* goes on.                                                                *)
LEMMA Makers ==
  ASSUME TypeOK, [Next]_vars, NEW x \in Worker
  PROVE  /\ pc'[x] \in Making =>
              (pc[x] \in Making /\ pkt'[x] = pkt[x]) \/ pkt'[x] \in Allowed
         /\ pc'[x] \in Mutating =>
              (pc[x] \in Mutating \/ RecheckMissed(x)) /\ pkt'[x] = pkt[x]
  <1> USE DEF TypeOK, Goto, Making, WriterAt, Mutating, localVars
  <1>1. ASSUME NEW w \in Worker, EpollWait(w) \/ LockBatch(w) \/ NextEvent(w) \/ EndBatch(w)
        PROVE  pkt' = pkt /\ (pc'[x] = pc[x] \/ pc'[x] \notin Making)
    BY <1>1 DEF EpollWait, LockBatch, NextEvent, EndBatch
  <1>2. ASSUME NEW w \in Worker, ForwardFrame(w) \/ TapDrained(w) \/ StrayTapEvent(w) \/ IoError(w)
        PROVE  pkt' = pkt /\ (pc'[x] = pc[x] \/ pc'[x] \notin Making)
    BY <1>2 DEF ForwardFrame, TapDrained, StrayTapEvent, IoError
  <1>3. ASSUME NEW w \in Worker, ReceiveKnown(w) \/ ReceiveRefused(w)
        PROVE  (pkt'[x] = pkt[x] /\ pc'[x] = pc[x]) \/ pc'[x] \notin Making
    <2>1. pc[w] = "udp" /\ \A y \in Worker : y # w => pkt'[y] = pkt[y]
      BY <1>3 DEF ReceiveKnown, ReceiveRefused, Receive
    <2>2. pc'[w] \in {"udp", "deliver"} /\ \A y \in Worker : y # w => pc'[y] = pc[y]
      BY <1>3, <2>1 DEF ReceiveKnown, ReceiveRefused
    <2> QED
      BY <2>1, <2>2
  <1>4. ASSUME NEW w \in Worker, ReceiveNew(w)
        PROVE  \/ pkt'[x] = pkt[x] /\ pc'[x] = pc[x]
               \/ pc'[x] = "wrlock" /\ pkt'[x] \in Allowed
    <2>1. \A y \in Worker : y # w => pkt'[y] = pkt[y] /\ pc'[y] = pc[y]
      BY <1>4 DEF ReceiveNew, Receive
    <2>2. pc'[w] = "wrlock" /\ pkt'[w] \in Allowed
      BY <1>4 DEF ReceiveNew, Receive
    <2> QED
      BY <2>1, <2>2
  <1>5. ASSUME NEW w \in Worker, SocketDrained(w) \/ RecheckFound(w) \/ RelockRead(w) \/ Deliver(w)
        PROVE  pkt' = pkt /\ (pc'[x] = pc[x] \/ pc'[x] \notin Making)
    BY <1>5 DEF SocketDrained, RecheckFound, RelockRead, Deliver
  <1>6. ASSUME NEW w \in Worker, LockTable(w)
        PROVE  pkt' = pkt /\ (pc'[x] = pc[x] \/ (pc[x] = "wrlock" /\ pc'[x] = "recheck"))
    BY <1>6 DEF LockTable
  <1>7. ASSUME NEW w \in Worker, RecheckMissed(w)
        PROVE  pkt' = pkt /\ (pc'[x] = pc[x] \/ (x = w /\ pc[x] = "recheck"))
    BY <1>7 DEF RecheckMissed
  <1>8. ASSUME NEW w \in Worker, CreateTap(w) \/ CreateTapFails(w) \/ RegisterQueue(w) \/ RegisterFails(w) \/ CommitTap(w)
        PROVE  pkt' = pkt /\ (pc'[x] = pc[x] \/ pc[x] \in Mutating)
    BY <1>8 DEF CreateTap, CreateTapFails, RegisterQueue, RegisterFails, CommitTap
  <1>9. ASSUME NEW w \in Worker,
               MapAdd(w) \/ MapAddFails(w) \/ MapAddStrands(w) \/ MapAddMoves(w) \/ Rearm(w) \/ RearmFails(w)
        PROVE  pkt' = pkt /\ (pc'[x] = pc[x] \/ pc'[x] \notin Making)
    BY <1>9 DEF MapAdd, MapAddFails, MapAddStrands, MapAddMoves, Rearm, RearmFails
  <1>11. ASSUME NEW w \in Worker, MapAddSpins(w) \/ PortAssertFails(w)
         PROVE  pkt' = pkt /\ (pc'[x] = pc[x] \/ pc[x] \in Mutating \/ pc'[x] \notin Making)
    BY <1>11 DEF MapAddSpins, PortAssertFails
  <1>10. CASE MainStep \/ Environment \/ UNCHANGED vars
    <2>1. UNCHANGED <<pc, pkt>>
      BY <1>10 DEF MainStep, ReportLock, ReportDone, Environment, Datagram, Frame, ReportAsked, vars
    <2> QED
      BY <2>1
  <1> HIDE DEF TypeOK, Goto, localVars
  <1> QED
    BY <1>1, <1>2, <1>3, <1>4, <1>5, <1>6, <1>7, <1>8, <1>9, <1>10, <1>11 DEF Next, WorkerStep

\* The steps that write to the table or to the map.
TableStep ==
  \E w \in Worker :
    \/ CreateTap(w) \/ CreateTapFails(w) \/ CommitTap(w)
    \/ MapAdd(w) \/ MapAddStrands(w) \/ MapAddMoves(w)

(* The other steps leave the table and the map alone.                      *)
LEMMA TableSteps ==
  ASSUME [Next]_vars
  PROVE  UNCHANGED <<tableVars, mapVars>> \/ TableStep
  <1> USE DEF tableVars, mapVars
  <1>1. ASSUME NEW w \in Worker, EpollWait(w) \/ LockBatch(w) \/ NextEvent(w) \/ EndBatch(w)
                                 \/ ForwardFrame(w) \/ TapDrained(w) \/ StrayTapEvent(w) \/ IoError(w)
        PROVE  UNCHANGED <<tableVars, mapVars>>
    BY <1>1 DEF EpollWait, LockBatch, NextEvent, EndBatch, ForwardFrame, TapDrained, StrayTapEvent, IoError
  <1>2. ASSUME NEW w \in Worker, ReceiveKnown(w) \/ ReceiveRefused(w) \/ ReceiveNew(w) \/ SocketDrained(w)
        PROVE  UNCHANGED <<tableVars, mapVars>>
    BY <1>2 DEF ReceiveKnown, ReceiveRefused, ReceiveNew, Receive, SocketDrained
  <1>3. ASSUME NEW w \in Worker, LockTable(w) \/ RecheckFound(w) \/ RecheckMissed(w) \/ RelockRead(w) \/ Deliver(w)
        PROVE  UNCHANGED <<tableVars, mapVars>>
    BY <1>3 DEF LockTable, RecheckFound, RecheckMissed, RelockRead, Deliver
  <1>4. ASSUME NEW w \in Worker, RegisterQueue(w) \/ RegisterFails(w) \/ MapAddFails(w) \/ Rearm(w) \/ RearmFails(w)
        PROVE  UNCHANGED <<tableVars, mapVars>>
    BY <1>4 DEF RegisterQueue, RegisterFails, MapAddFails, Rearm, RearmFails
  <1>5. CASE MainStep \/ Environment \/ UNCHANGED vars
    BY <1>5 DEF MainStep, ReportLock, ReportDone, Environment, Datagram, Frame, ReportAsked, vars
  <1>6. ASSUME NEW w \in Worker, PortAssertFails(w) \/ MapAddSpins(w)
        PROVE  UNCHANGED <<tableVars, mapVars>>
    BY <1>6 DEF PortAssertFails, MapAddSpins
  <1> HIDE DEF tableVars, mapVars
  <1> QED
    BY <1>1, <1>2, <1>3, <1>4, <1>5, <1>6 DEF Next, WorkerStep, TableStep

-----------------------------------------------------------------------------
\* Who changes the table does so for a sender that is not bound.
FreshSender == MapSound => \A w \in Worker : pc[w] \in Mutating => map[pkt[w]] = -1

(* The second lookup, under the write lock, is good until the binding is   *)
(* there.                                                                  *)
LEMMA FreshNext ==
  ASSUME LockInv, TableInv, FreshSender, [Next]_vars
  PROVE  FreshSender'
  <1>1. CASE UNCHANGED mapVars
    <2>1. ASSUME NEW x \in Worker, MapSound, pc'[x] \in Mutating PROVE map[pkt'[x]] = -1
      <3>1. (pc[x] \in Mutating \/ RecheckMissed(x)) /\ pkt'[x] = pkt[x]
        BY <2>1, Makers DEF TableInv
      <3> QED
        BY <2>1, <3>1 DEF FreshSender, RecheckMissed, LookupResults, MapSound
    <2> QED
      BY <1>1, <2>1 DEF FreshSender, mapVars, MapSound
  <1>2. ASSUME NEW w \in Worker, MapAdd(w) \/ MapAddStrands(w) \/ MapAddMoves(w) PROVE FreshSender'
    <2>1. /\ pc[w] = "mapadd" /\ pc' = [pc EXCEPT ![w] = "deliver"]
          /\ pc \in [Worker -> Label]
      BY <1>2 DEF MapAdd, MapAddStrands, MapAddMoves, Goto, TableInv, TypeOK
    <2>2. \A x \in Worker : x # w => pc[x] \notin Mutating
      BY <2>1 DEF LockInv, WriterAt, Mutating
    <2>3. \A x \in Worker : pc'[x] \notin Mutating
      BY <2>1, <2>2 DEF Mutating
    <2> QED
      BY <2>3 DEF FreshSender
  <1>3. ASSUME NEW w \in Worker, CreateTap(w) \/ CreateTapFails(w) \/ CommitTap(w) PROVE UNCHANGED mapVars
    BY <1>3 DEF CreateTap, CreateTapFails, CommitTap
  <1> QED
    BY <1>1, <1>2, <1>3, TableSteps DEF TableStep

(* FreshSender holds in every reachable state, failures included.          *)
THEOREM FreshInvariant == Spec => []FreshSender
  <1>1. Init => FreshSender
    BY DEF Init, FreshSender, Mutating
  <1>2. LockInv /\ TableInv /\ FreshSender /\ [Next]_vars => FreshSender'
    BY FreshNext
  <1> QED
    BY <1>1, <1>2, LockInvariant, TableInvariant, PTL DEF Spec

(* Taps are kept: no realloc(), no failed creation and no race of workers  *)
(* changes a tap in use, for any number of either, or the binding of a     *)
(* sender while the map is sound.  Only endpoint_map_add() of a full map   *)
(* can end that.                                                           *)
THEOREM TapsAlwaysKept == Spec => TapsAreKept
  <1> DEFINE Kept ==
        /\ num_tap_devs' >= num_tap_devs
        /\ \A i \in 0..(num_tap_devs - 1) : tap_devs'[i] = tap_devs[i]
        /\ MapSound => \A e \in Bound : map'[e] = map[e]
        /\ MapSound /\ ~MapSound' => MapFull /\ \E w \in Worker : pc[w] = "mapadd"
  <1>1. ASSUME TableInv, FreshSender, [Next]_vars PROVE Kept
    <2>0. num_tap_devs \in Nat
      BY <1>1 DEF TableInv, TypeOK
    <2>1. CASE UNCHANGED <<tableVars, mapVars>>
      BY <2>0, <2>1 DEF tableVars, mapVars, MapSound
    <2>2. ASSUME NEW w \in Worker, CreateTap(w) \/ CreateTapFails(w) PROVE Kept
      <3>1. /\ \/ UNCHANGED tap_devs
               \/ FillSlot([ep |-> pkt[w], dev |-> ndev])
               \/ FillSlot([ep |-> pkt[w], dev |-> -1])
            /\ UNCHANGED <<num_tap_devs, map, MapSound>>
        BY <2>2 DEF CreateTap, CreateTapFails, mapVars, MapSound
      <3>2. \A i \in 0..(num_tap_devs - 1) : tap_devs'[i] = tap_devs[i]
        BY <1>1, <3>1, SlotsKept
      <3> QED
        BY <2>0, <3>1, <3>2
    <2>3. ASSUME NEW w \in Worker, CommitTap(w) PROVE Kept
      BY <2>0, <2>3 DEF CommitTap, mapVars, MapSound
    <2>4. ASSUME NEW w \in Worker, MapAdd(w) \/ MapAddStrands(w) \/ MapAddMoves(w) PROVE Kept
      <3>1. /\ pc[w] = "mapadd" /\ (map' = [map EXCEPT ![pkt[w]] = tap[w]] \/ map' = map)
            /\ UNCHANGED <<tap_devs, num_tap_devs>>
        BY <2>4 DEF MapAdd, MapAddStrands, MapAddMoves, Bind, tableVars
      <3>2. UNCHANGED MapSound \/ MapFull
        BY <2>4 DEF MapAdd, MapAddStrands, MapAddMoves, MapSound
      <3>3. MapSound => pkt[w] \notin Bound
        BY <1>1, <3>1 DEF FreshSender, Mutating, Bound
      <3>4. map \in [Endpoint -> -1..(ndev - 1)]
        BY <1>1 DEF TableInv, TypeOK
      <3> QED
        BY <2>0, <3>1, <3>2, <3>3, <3>4 DEF Bound
    <2> QED
      BY <1>1, <2>1, <2>2, <2>3, <2>4, TableSteps DEF TableStep
  <1>2. TableInv /\ FreshSender /\ [Next]_vars => [Kept]_vars
    BY <1>1
  <1> HIDE DEF Kept
  <1>3. Spec => [][Kept]_vars
    BY <1>2, TableInvariant, FreshInvariant, PTL DEF Spec
  <1> QED
    BY <1>3 DEF TapsAreKept, Kept

-----------------------------------------------------------------------------
\* Every tap in use is bound, or is about to be by the worker that made it.
OneTapInv ==
  MapSound => \A i \in 0..(num_tap_devs - 1) :
    /\ tap_devs[i].ep \in Endpoint
    /\ \/ map[tap_devs[i].ep] = i
       \/ \E w \in Worker : pc[w] \in {"mapadd", "rehash"} /\ tap[w] = i

(* Each step keeps OneTapInv, provided that endpoint_map_add() does not    *)
(* return NULL.                                                            *)
LEMMA OneTapNext ==
  ASSUME ~AllocMayFail, LockInv, TableInv, FreshSender, OneTapInv, [Next]_vars
  PROVE  OneTapInv'
  <1> USE DEF OneTapInv, FreshSender, MapSound, Mutating, Goto, localVars, kernelVars, tableVars, mapVars
  <1>1. ASSUME NEW w \in Worker, EpollWait(w) PROVE OneTapInv'
    BY <1>1, TunnelAssumption DEF EpollWait, TableInv, TypeOK, LockInv, WriterAt, NewTapInv, TapOfSender
  <1>2. ASSUME NEW w \in Worker, LockBatch(w) PROVE OneTapInv'
    BY <1>2, TunnelAssumption DEF LockBatch, RdLock, TableInv, TypeOK, LockInv, WriterAt, NewTapInv, TapOfSender
  <1>3. ASSUME NEW w \in Worker, NextEvent(w) PROVE OneTapInv'
    BY <1>3, TunnelAssumption DEF NextEvent, TableInv, TypeOK, LockInv, WriterAt, NewTapInv, TapOfSender
  <1>4. ASSUME NEW w \in Worker, EndBatch(w) PROVE OneTapInv'
    BY <1>4, TunnelAssumption DEF EndBatch, Unlock, TableInv, TypeOK, LockInv, WriterAt, NewTapInv, TapOfSender
  <1>5. ASSUME NEW w \in Worker, ForwardFrame(w) PROVE OneTapInv'
    BY <1>5, TunnelAssumption DEF ForwardFrame, TableInv, TypeOK, LockInv, WriterAt, NewTapInv, TapOfSender
  <1>6. ASSUME NEW w \in Worker, TapDrained(w) PROVE OneTapInv'
    BY <1>6, TunnelAssumption DEF TapDrained, TableInv, TypeOK, LockInv, WriterAt, NewTapInv, TapOfSender
  <1>7. ASSUME NEW w \in Worker, StrayTapEvent(w) PROVE OneTapInv'
    <2>1. UNCHANGED <<pkt, tap, tableVars, mapVars>> /\ pc[w] = "tap"
      BY <1>7 DEF StrayTapEvent
    <2>2. \A x \in Worker : pc[x] \notin {"mapadd", "rehash"}
      BY <2>1 DEF LockInv, WriterAt, LockedAt, Worker, Nobody
    <2>3. \A x \in Worker : pc'[x] \notin Mutating \/ pc'[x] = pc[x]
      BY <1>7 DEF StrayTapEvent, LockInv
    <2> QED
      BY <2>1, <2>2, <2>3
  <1>8. ASSUME NEW w \in Worker, IoError(w) PROVE OneTapInv'
    BY <1>8, TunnelAssumption DEF IoError, TableInv, TypeOK, LockInv, WriterAt, NewTapInv, TapOfSender
  <1>9. ASSUME NEW w \in Worker, ReceiveKnown(w) PROVE OneTapInv'
    <2>1. /\ UNCHANGED <<tableVars, mapVars>> /\ pc[w] = "udp"
          /\ pc' = [pc EXCEPT ![w] = "deliver"]
          /\ pkt' = [pkt EXCEPT ![w] = Head(udpq[w])]
      BY <1>9 DEF ReceiveKnown, Receive
    <2>2. \A x \in Worker : x # w => pc'[x] = pc[x] /\ pkt'[x] = pkt[x] /\ tap'[x] = tap[x]
      BY <1>9, <2>1 DEF ReceiveKnown, TableInv, TypeOK
    <2>3. pc'[w] = "deliver"
      BY <2>1 DEF LockInv
    <2> QED
      BY <2>1, <2>2, <2>3
  <1>10. ASSUME NEW w \in Worker, ReceiveRefused(w) PROVE OneTapInv'
    BY <1>10, TunnelAssumption DEF ReceiveRefused, Receive, TableInv, TypeOK, LockInv, WriterAt, NewTapInv, TapOfSender
  <1>11. ASSUME NEW w \in Worker, ReceiveNew(w) PROVE OneTapInv'
    BY <1>11, TunnelAssumption DEF ReceiveNew, Receive, Unlock, TableInv, TypeOK, LockInv, WriterAt, NewTapInv, TapOfSender
  <1>12. ASSUME NEW w \in Worker, SocketDrained(w) PROVE OneTapInv'
    BY <1>12, TunnelAssumption DEF SocketDrained, TableInv, TypeOK, LockInv, WriterAt, NewTapInv, TapOfSender
  <1>13. ASSUME NEW w \in Worker, LockTable(w) PROVE OneTapInv'
    BY <1>13, TunnelAssumption DEF LockTable, WrLock, TableInv, TypeOK, LockInv, WriterAt, NewTapInv, TapOfSender
  <1>14. ASSUME NEW w \in Worker, RecheckFound(w) PROVE OneTapInv'
    BY <1>14, TunnelAssumption DEF RecheckFound, Unlock, LookupResults, TableInv, TypeOK, LockInv, WriterAt, NewTapInv, TapOfSender
  <1>15. ASSUME NEW w \in Worker, RecheckMissed(w) PROVE OneTapInv'
    BY <1>15, TunnelAssumption DEF RecheckMissed, LookupResults, TableInv, TypeOK, LockInv, WriterAt, NewTapInv, TapOfSender
  <1>16. ASSUME NEW w \in Worker, RelockRead(w) PROVE OneTapInv'
    BY <1>16, TunnelAssumption DEF RelockRead, RdLock, TableInv, TypeOK, LockInv, WriterAt, NewTapInv, TapOfSender
  <1>17. ASSUME NEW w \in Worker, Deliver(w) PROVE OneTapInv'
    BY <1>17, TunnelAssumption DEF Deliver, TableInv, TypeOK, LockInv, WriterAt, NewTapInv, TapOfSender
  <1>18. ASSUME NEW w \in Worker, CreateTap(w) PROVE OneTapInv'
    <2>1. /\ UNCHANGED <<num_tap_devs, mapVars>> /\ pc[w] = "alloc"
          /\ pc' = [pc EXCEPT ![w] = "register"] /\ tap' = [tap EXCEPT ![w] = num_tap_devs]
      BY <1>18 DEF CreateTap
    <2>2. \A i \in 0..(num_tap_devs - 1) : tap_devs'[i] = tap_devs[i]
      BY <1>18, SlotsKept DEF CreateTap
    <2>3. \A x \in Worker : pc[x] \in {"mapadd", "rehash"} => pc'[x] = pc[x] /\ tap'[x] = tap[x]
      BY <2>1 DEF LockInv, TableInv, TypeOK
    <2> QED
      BY <2>1, <2>2, <2>3
  <1>19. ASSUME NEW w \in Worker, CreateTapFails(w) PROVE OneTapInv'
    BY <1>19, TunnelAssumption DEF CreateTapFails, FillSlot, NeedsRoom, NewSize, NoSlot, TableInv, TypeOK, LockInv, WriterAt, NewTapInv, TapOfSender
  <1>20. ASSUME NEW w \in Worker, RegisterQueue(w) PROVE OneTapInv'
    BY <1>20, TunnelAssumption DEF RegisterQueue, TapEvent, TableInv, TypeOK, LockInv, WriterAt, NewTapInv, TapOfSender
  <1>21. ASSUME NEW w \in Worker, RegisterFails(w) PROVE OneTapInv'
    BY <1>21, TunnelAssumption DEF RegisterFails, TableInv, TypeOK, LockInv, WriterAt, NewTapInv, TapOfSender
  <1>22. ASSUME NEW w \in Worker, CommitTap(w) PROVE OneTapInv'
    <2>1. /\ UNCHANGED <<pkt, tap, tap_devs, mapVars>> /\ pc[w] = "register"
          /\ num_tap_devs' = num_tap_devs + 1 /\ num_tap_devs \in Nat
          /\ pc' = [pc EXCEPT ![w] = "mapadd"]
      BY <1>22 DEF CommitTap, TableInv, TypeOK
    <2>2. /\ pkt[w] \in Endpoint /\ tap[w] = num_tap_devs
          /\ tap_devs[num_tap_devs].ep = pkt[w]
      BY <2>1 DEF TableInv, NewTapInv
    <2>3. \A x \in Worker : pc'[x] = IF x = w THEN "mapadd" ELSE pc[x]
      BY <2>1 DEF LockInv
    <2>4. \A i \in 0..(num_tap_devs' - 1) : i \in 0..(num_tap_devs - 1) \/ i = num_tap_devs
      BY <2>1
    <2> QED
      BY <2>1, <2>2, <2>3, <2>4
  <1>23. ASSUME NEW w \in Worker, MapAdd(w) PROVE OneTapInv'
    BY <1>23, TunnelAssumption DEF MapAdd, Bind, TableInv, TypeOK, LockInv, WriterAt, NewTapInv, TapOfSender
  <1>24. ASSUME NEW w \in Worker, MapAddFails(w) PROVE OneTapInv'
    BY <1>24, TunnelAssumption DEF MapAddFails, TableInv, TypeOK, LockInv, WriterAt, NewTapInv, TapOfSender
  <1>25. ASSUME NEW w \in Worker, MapAddMoves(w) PROVE OneTapInv'
    BY <1>25, TunnelAssumption DEF MapAddMoves, Bind, TableInv, TypeOK, LockInv, WriterAt, NewTapInv, TapOfSender
  <1>26. ASSUME NEW w \in Worker, Rearm(w) PROVE OneTapInv'
    BY <1>26, TunnelAssumption DEF Rearm, TableInv, TypeOK, LockInv, WriterAt, NewTapInv, TapOfSender
  <1>27. ASSUME NEW w \in Worker, RearmFails(w) PROVE OneTapInv'
    BY <1>27, TunnelAssumption DEF RearmFails, TableInv, TypeOK, LockInv, WriterAt, NewTapInv, TapOfSender
  <1>28. CASE Environment
    <2>1. UNCHANGED <<pc, pkt, tap, tableVars, mapVars>>
      BY <1>28 DEF Environment, Datagram, Frame, ReportAsked
    <2> QED
      BY <2>1
  <1>29. CASE MainStep
    BY <1>29, TunnelAssumption DEF MainStep, ReportLock, ReportDone, RdLock, Unlock, TableInv, TypeOK, LockInv, WriterAt, NewTapInv, TapOfSender
  <1>30. CASE UNCHANGED vars
    BY <1>30, TunnelAssumption DEF vars, lockVars, TableInv, TypeOK, LockInv, WriterAt, NewTapInv, TapOfSender
  <1>31. ASSUME NEW w \in Worker, PortAssertFails(w) PROVE OneTapInv'
    BY <1>31 DEF PortAssertFails, TableInv, TypeOK, LockInv, WriterAt
  <1>32. ASSUME NEW w \in Worker, MapAddSpins(w) PROVE OneTapInv'
    BY <1>32 DEF MapAddSpins, TableInv, TypeOK, LockInv, WriterAt
  <1>33. ASSUME NEW w \in Worker, MapAddStrands(w) PROVE OneTapInv'
    BY <1>33 DEF MapAddStrands
  <1> HIDE DEF OneTapInv, FreshSender, MapSound, Mutating, Goto, localVars, kernelVars, tableVars, mapVars
  <1> QED
    BY <1>1, <1>2, <1>3, <1>4, <1>5, <1>6, <1>7, <1>8, <1>9, <1>10, <1>11, <1>12, <1>13, <1>14, <1>15, <1>16, <1>17, <1>18, <1>19, <1>20, <1>21, <1>22, <1>23, <1>24, <1>25, <1>26, <1>27, <1>28, <1>29, <1>30, <1>31, <1>32, <1>33
    DEF Next, WorkerStep

(* Between the two lookups of a worker the lock is free, and other workers *)
(* meet the same sender: still no sender gets two taps, for any number of  *)
(* workers and senders, as long as allocations succeed and the map is      *)
(* sound.                                                                  *)
THEOREM OneTapCorrect ==
  ASSUME ~AllocMayFail
  PROVE  Spec => [](MapSound => OneTapPerEndpoint)
  <1>1. Init => OneTapInv
    BY TunnelAssumption DEF Init, OneTapInv, Mutating
  <1>2. LockInv /\ TableInv /\ FreshSender /\ OneTapInv /\ [Next]_vars => OneTapInv'
    BY OneTapNext
  <1>3. LockInv /\ TableInv /\ FreshSender /\ OneTapInv => (MapSound => OneTapPerEndpoint)
    <2> SUFFICES ASSUME LockInv, TableInv, FreshSender, OneTapInv, MapSound,
                        NEW i \in 0..(num_tap_devs - 1), NEW j \in 0..(num_tap_devs - 1),
                        tap_devs[i].ep = tap_devs[j].ep
                 PROVE  i = j
      BY DEF OneTapPerEndpoint
    <2>1. \A x, y \in Worker : pc[x] \in Mutating /\ pc[y] \in Mutating => x = y
      BY DEF LockInv, WriterAt, Mutating
    <2>2. \A x \in Worker : pc[x] \in {"mapadd", "rehash"} => tap_devs[tap[x]].ep = pkt[x] /\ map[pkt[x]] = -1
      BY DEF TableInv, NewTapInv, TapOfSender, FreshSender, Mutating
    <2> QED
      BY <2>1, <2>2 DEF OneTapInv, Mutating
  <1> QED
    BY <1>1, <1>2, <1>3, LockInvariant, TableInvariant, FreshInvariant, PTL DEF Spec

-----------------------------------------------------------------------------
\* Every tap in use, and every one being made, is for an admitted sender.
AdmittedInv ==
  /\ \A i \in 0..(num_tap_devs - 1) : tap_devs[i].ep \in Admitted
  /\ \A w \in Worker : pc[w] \in Making => pkt[w] \in Admitted

(* The answer of the allow list outlives the unlock.                       *)
LEMMA AdmittedNext ==
  ASSUME TableInv, AdmittedInv, [Next]_vars
  PROVE  AdmittedInv'
  <1>0. num_tap_devs \in Nat
    BY DEF TableInv, TypeOK
  <1>1. ASSUME NEW x \in Worker, pc'[x] \in Making PROVE pkt'[x] \in Admitted
    <2>1. (pc[x] \in Making /\ pkt'[x] = pkt[x]) \/ pkt'[x] \in Allowed
      BY <1>1, Makers DEF TableInv
    <2> QED
      BY <2>1 DEF AdmittedInv, Admitted
  <1> DEFINE TapsAdmitted == \A i \in 0..(num_tap_devs' - 1) : tap_devs'[i].ep \in Admitted
  <1>2. TapsAdmitted
    <2>1. CASE UNCHANGED <<tableVars, mapVars>>
      BY <2>1 DEF AdmittedInv, tableVars
    <2>2. ASSUME NEW w \in Worker, CommitTap(w) PROVE TapsAdmitted
      <3>1. /\ pc[w] = "register" /\ num_tap_devs' = num_tap_devs + 1 /\ tap_devs' = tap_devs
        BY <2>2 DEF CommitTap
      <3>2. tap_devs[num_tap_devs].ep \in Admitted
        BY <3>1 DEF AdmittedInv, Making, WriterAt, TableInv, NewTapInv
      <3>3. \A i \in 0..(num_tap_devs' - 1) : i \in 0..(num_tap_devs - 1) \/ i = num_tap_devs
        BY <1>0, <3>1
      <3> QED
        BY <3>1, <3>2, <3>3 DEF AdmittedInv
    <2>3. ASSUME NEW w \in Worker, CreateTap(w) \/ CreateTapFails(w) PROVE TapsAdmitted
      <3>1. num_tap_devs' = num_tap_devs
        BY <2>3 DEF CreateTap, CreateTapFails
      <3>2. \A i \in 0..(num_tap_devs - 1) : tap_devs'[i] = tap_devs[i]
        BY <2>3, SlotsKept DEF CreateTap, CreateTapFails
      <3> QED
        BY <3>1, <3>2 DEF AdmittedInv
    <2>4. ASSUME NEW w \in Worker, MapAdd(w) \/ MapAddStrands(w) \/ MapAddMoves(w) PROVE TapsAdmitted
      BY <2>4 DEF MapAdd, MapAddStrands, MapAddMoves, tableVars, AdmittedInv
    <2> QED
      BY <2>1, <2>2, <2>3, <2>4, TableSteps DEF TableStep
  <1>3. Admitted' = Admitted
    BY DEF Admitted
  <1> QED
    BY <1>1, <1>2, <1>3 DEF AdmittedInv

(* AdmittedInv holds in every reachable state, failures included.          *)
THEOREM AdmittedInvariant == Spec => []AdmittedInv
  <1>1. Init => AdmittedInv
    BY DEF Init, AdmittedInv, Making, WriterAt, Admitted
  <1>2. TableInv /\ AdmittedInv /\ [Next]_vars => AdmittedInv'
    BY AdmittedNext
  <1> QED
    BY <1>1, <1>2, TableInvariant, PTL DEF Spec

(* worker_thread(): only senders of the allow list and the default         *)
(* endpoint get a tap, whatever fails, even after t->map has become stale; *)
(* and before that nobody else's datagram is written to one.               *)
THEOREM OnlyAdmitted == Spec => []OnlyAdmittedServed
  <1>1. TableInv /\ AdmittedInv => OnlyAdmittedServed
    <2> SUFFICES ASSUME TableInv, AdmittedInv PROVE OnlyAdmittedServed
      OBVIOUS
    <2>1. ASSUME NEW w \in Worker, map_state # "stale", pc[w] = "deliver" PROVE pkt[w] \in Admitted
      BY <2>1 DEF TableInv, NewTapInv, TapOfSender, AdmittedInv
    <2> QED
      BY <2>1 DEF AdmittedInv, OnlyAdmittedServed
  <1> QED
    BY <1>1, TableInvariant, AdmittedInvariant, PTL

-----------------------------------------------------------------------------
(* endpoint_map_add() has no reason to move a map with room for everyone   *)
(* who is admitted.                                                        *)
LEMMA MapHasRoom ==
  ASSUME IsFiniteSet(Admitted), Cardinality(Admitted) <= MapCapacity,
         TableInv, FreshSender, AdmittedInv, MapSound,
         NEW w \in Worker, pc[w] = "mapadd"
  PROVE  Cardinality(Bound) \in Nat /\ Cardinality(Bound) < MapCapacity
  <1>1. pkt[w] \in Admitted /\ pkt[w] \notin Bound
    BY DEF AdmittedInv, Making, WriterAt, FreshSender, Mutating, Bound
  <1>2. Bound \subseteq Admitted
    <2> SUFFICES ASSUME NEW e \in Endpoint, map[e] # -1 PROVE e \in Admitted
      BY DEF Bound
    <2>1. map[e] \in 0..(num_tap_devs - 1) /\ tap_devs[map[e]].ep = e
      BY DEF TableInv, TypeOK, MapInv, MapSound
    <2> QED
      BY <2>1 DEF AdmittedInv
  <1>3. Bound \subseteq Admitted \ {pkt[w]}
    BY <1>1, <1>2
  <1>4. /\ IsFiniteSet(Admitted \ {pkt[w]})
        /\ Cardinality(Admitted \ {pkt[w]}) = Cardinality(Admitted) - 1
    BY <1>1, FS_RemoveElement
  <1>5. Cardinality(Bound) <= Cardinality(Admitted) - 1
    BY <1>3, <1>4, FS_Subset
  <1>6. /\ Cardinality(Admitted) \in Nat
        /\ IsFiniteSet(Bound) /\ Cardinality(Bound) \in Nat
    BY <1>3, <1>4, FS_Subset, FS_CardinalityType
  <1> QED
    BY <1>5, <1>6, TunnelAssumption

(* The map stays sound, whatever fails, in a tunnel that admits no more    *)
(* senders than the map holds before it grows.                             *)
THEOREM MapStaysSound ==
  ASSUME IsFiniteSet(Admitted), Cardinality(Admitted) <= MapCapacity
  PROVE  Spec => []MapSound
  <1>1. Init => MapSound
    BY DEF Init, MapSound
  <1>2. ASSUME TableInv, FreshSender, AdmittedInv, MapSound, [Next]_vars PROVE MapSound'
    <2>1. ASSUME NEW w \in Worker, MapAddStrands(w) \/ MapAddMoves(w) PROVE FALSE
      <3>1. pc[w] = "mapadd" /\ Cardinality(Bound) >= MapCapacity
        BY <2>1 DEF MapAddStrands, MapAddMoves, MapFull
      <3>2. Cardinality(Bound) \in Nat /\ Cardinality(Bound) < MapCapacity
        BY <1>2, <3>1, MapHasRoom
      <3> QED
        BY <3>1, <3>2, TunnelAssumption
    <2>2. UNCHANGED map_state \/ \E w \in Worker : MapAddStrands(w) \/ MapAddMoves(w)
      BY <1>2, TableSteps DEF TableStep, CreateTap, CreateTapFails, CommitTap, MapAdd, mapVars
    <2> QED
      BY <1>2, <2>1, <2>2 DEF MapSound
  <1>3. TableInv /\ FreshSender /\ AdmittedInv /\ MapSound /\ [Next]_vars => MapSound'
    BY <1>2
  <1> QED
    BY <1>1, <1>3, TableInvariant, FreshInvariant, AdmittedInvariant, PTL DEF Spec

(* No sender ever has two taps in a tunnel whose allocations succeed and   *)
(* that admits no more senders than the map holds before it grows.         *)
THEOREM OneTapAlways ==
  ASSUME ~AllocMayFail, IsFiniteSet(Admitted), Cardinality(Admitted) <= MapCapacity
  PROVE  Spec => []OneTapPerEndpoint
  BY OneTapCorrect, MapStaysSound, PTL
=============================================================================
