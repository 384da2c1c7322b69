------------------------- MODULE TunnelEventProofs --------------------------
(***************************************************************************)
(* Proofs about the one-shot epoll registrations of Tunnel: that an event  *)
(* finds its tap complete, and that no wakeup is lost.  Both are about a   *)
(* tunnel whose allocations succeed: when epoll_ctl() fails half-way       *)
(* through tunnel_alloc_new_tap(), the queues registered before keep       *)
(* events of a tap that does not exist.                                    *)
(***************************************************************************)
EXTENDS TunnelTapProofs

\* The registration of tap i with each worker.
RegistrationOf(i) == TapEvent(i, tap_devs[i].dev)

\* Events of the socket and of the taps in use.
Served(v) == v = UdpEvent \/ \E i \in 0..(num_tap_devs - 1) : v = RegistrationOf(i)

\* The event of the tap that a worker is registering with every queue.
Announced(v) == (\E r \in Worker : pc[r] = "register") /\ v = RegistrationOf(num_tap_devs)

\* What epoll has and reports is in use or being made; what a worker handles,
\* which it picked with the lock held, is in use.
EventInv ==
  \A w \in Worker :
    /\ \A v \in armed[w] \cup batch[w] : Served(v) \/ Announced(v)
    /\ pc[w] \in InEvent => Served(cur[w])
    /\ pc[w] = "tap" => cur[w].tap # -1

\* Every registration is in hand, and those of the tap being made are so in the
\* queues that the loop of tunnel_alloc_new_tap() has passed.
WakeInv ==
  \A w \in Worker :
    /\ pc[w] = "wait" => batch[w] = {}
    /\ UdpEvent \in InHand(w)
    /\ \A i \in 0..(num_tap_devs - 1) : RegistrationOf(i) \in InHand(w)
    /\ \A r \in Worker : pc[r] = "register" /\ w < reg[r] =>
         RegistrationOf(num_tap_devs) \in InHand(w)

-----------------------------------------------------------------------------
(* While a worker holds the lock, no other one is in tunnel_alloc_new_tap(). *)
LEMMA RegistersAlone ==
  ASSUME LockInv, NEW w \in Worker, pc[w] \in LockedAt, NEW r \in Worker, pc[r] = "register"
  PROVE  r = w
  BY DEF LockInv, WriterAt, LockedAt, Worker, Nobody

(* EventInv is what an event of a tap needs.                               *)
LEMMA EventsReady ==
  ASSUME TableInv, EventInv
  PROVE  EventTapReady
  <1> SUFFICES ASSUME NEW w \in Worker, pc[w] = "tap"
               PROVE  cur[w].tap < num_tap_devs /\ tap_devs[cur[w].tap].dev = cur[w].dev
    BY DEF EventTapReady
  <1>1. Served(cur[w]) /\ cur[w].tap # -1
    BY DEF EventInv, InEvent
  <1>2. PICK i \in 0..(num_tap_devs - 1) : cur[w] = RegistrationOf(i)
    BY <1>1 DEF Served, UdpEvent
  <1>3. num_tap_devs \in Nat
    BY DEF TableInv, TypeOK
  <1> QED
    BY <1>2, <1>3 DEF RegistrationOf, TapEvent

\* A step that leaves the registrations, the taps and every worker's event alone.
Quiet ==
  /\ UNCHANGED <<armed, batch, cur, reg, tap_devs, num_tap_devs>>
  /\ \A x \in Worker :
       /\ pc'[x] \in InEvent <=> pc[x] \in InEvent
       /\ pc'[x] = "register" <=> pc[x] = "register"
       /\ pc'[x] = "wait" => pc[x] = "wait" \/ batch[x] = {}
       /\ pc'[x] = "tap" => pc[x] = "tap"

(* A worker that goes on with its event, or stays outside of one.          *)
LEMMA QuietMove ==
  ASSUME LockInv, NEW w \in Worker, NEW l \in Label, Goto(w, l),
         UNCHANGED <<armed, batch, cur, reg, tap_devs, num_tap_devs>>,
         l \in InEvent <=> pc[w] \in InEvent,
         l # "register", pc[w] # "register", l # "tap",
         l = "wait" => batch[w] = {}
  PROVE  Quiet
  BY DEF LockInv, Goto, Quiet

(* Without failed allocations, the steps that are not quiet are those of   *)
(* epoll and of tunnel_alloc_new_tap().                                    *)
LEMMA StepKinds ==
  ASSUME ~AllocMayFail, LockInv, EventTapReady, TableInv, [Next]_vars
  PROVE  \/ Quiet
         \/ \E w \in Worker :
              \/ EpollWait(w) \/ NextEvent(w) \/ Rearm(w) \/ RearmFails(w)
              \/ CreateTap(w) \/ PortAssertFails(w) \/ RegisterQueue(w) \/ CommitTap(w)
  <1> USE DEF Label, InEvent, localVars, kernelVars, tableVars, mapVars
  <1>1. ASSUME NEW w \in Worker, LockBatch(w) PROVE Quiet
    BY <1>1, QuietMove DEF LockBatch
  <1>2. ASSUME NEW w \in Worker, EndBatch(w) PROVE Quiet
    BY <1>2, QuietMove DEF EndBatch
  <1>3. ASSUME NEW w \in Worker, ForwardFrame(w) PROVE Quiet
    BY <1>3 DEF ForwardFrame, Quiet
  <1>4. ASSUME NEW w \in Worker, TapDrained(w) PROVE Quiet
    BY <1>4, QuietMove DEF TapDrained
  <1>5. ASSUME NEW w \in Worker, StrayTapEvent(w) PROVE Quiet
    <2>1. pc[w] = "tap" /\ cur[w].tap >= num_tap_devs
      BY <1>5 DEF StrayTapEvent
    <2>2. cur[w].tap < num_tap_devs
      BY <2>1 DEF EventTapReady
    <2>3. cur[w].tap \in Int /\ num_tap_devs \in Int
      BY DEF TableInv, TypeOK, Event
    <2> QED
      BY <2>1, <2>2, <2>3
  <1>6. ASSUME NEW w \in Worker, IoError(w) PROVE Quiet
    BY <1>6, QuietMove DEF IoError
  <1>7. ASSUME NEW w \in Worker, ReceiveKnown(w) PROVE Quiet
    BY <1>7, QuietMove DEF ReceiveKnown, Receive
  <1>8. ASSUME NEW w \in Worker, ReceiveRefused(w) PROVE Quiet
    BY <1>8 DEF ReceiveRefused, Receive, Quiet
  <1>9. ASSUME NEW w \in Worker, ReceiveNew(w) PROVE Quiet
    BY <1>9, QuietMove DEF ReceiveNew, Receive
  <1>10. ASSUME NEW w \in Worker, SocketDrained(w) PROVE Quiet
    BY <1>10, QuietMove DEF SocketDrained
  <1>11. ASSUME NEW w \in Worker, LockTable(w) PROVE Quiet
    BY <1>11, QuietMove DEF LockTable
  <1>12. ASSUME NEW w \in Worker, RecheckFound(w) PROVE Quiet
    BY <1>12, QuietMove DEF RecheckFound
  <1>13. ASSUME NEW w \in Worker, RecheckMissed(w) PROVE Quiet
    BY <1>13, QuietMove DEF RecheckMissed
  <1>14. ASSUME NEW w \in Worker, RelockRead(w) PROVE Quiet
    BY <1>14, QuietMove DEF RelockRead
  <1>15. ASSUME NEW w \in Worker, Deliver(w) PROVE Quiet
    BY <1>15, QuietMove DEF Deliver
  <1>16. ASSUME NEW w \in Worker, MapAdd(w) \/ MapAddSpins(w) \/ MapAddMoves(w) PROVE Quiet
    BY <1>16, QuietMove DEF MapAdd, MapAddSpins, MapAddMoves
  <1>17. ASSUME NEW w \in Worker,
                CreateTapFails(w) \/ RegisterFails(w) \/ MapAddFails(w) \/ MapAddStrands(w)
         PROVE  FALSE
    BY <1>17 DEF CreateTapFails, RegisterFails, MapAddFails, MapAddStrands
  <1>18. CASE Environment \/ MainStep
    BY <1>18 DEF Environment, Datagram, Frame, ReportAsked, MainStep, ReportLock, ReportDone, Quiet
  <1>19. CASE UNCHANGED vars
    BY <1>19 DEF vars, Quiet
  <1> HIDE DEF Label, InEvent, localVars, kernelVars, tableVars, mapVars
  <1> QED
    BY <1>1, <1>2, <1>3, <1>4, <1>5, <1>6, <1>7, <1>8, <1>9, <1>10, <1>11, <1>12, <1>13,
       <1>14, <1>15, <1>16, <1>17, <1>18, <1>19
    DEF Next, WorkerStep

(* A step that leaves the taps alone leaves their events alone.            *)
LEMMA SameEvents ==
  ASSUME UNCHANGED <<tap_devs, num_tap_devs>>,
         \A x \in Worker : pc'[x] = "register" <=> pc[x] = "register"
  PROVE  \A v : (Served(v)' <=> Served(v)) /\ (Announced(v)' <=> Announced(v))
  BY DEF Served, Announced, RegistrationOf

(* realloc() and the new slot leave the taps in use as they were.          *)
LEMMA TapsKept ==
  ASSUME TableInv, NEW w \in Worker, CreateTap(w)
  PROVE  /\ num_tap_devs' = num_tap_devs
         /\ \A i \in 0..(num_tap_devs - 1) : tap_devs'[i] = tap_devs[i]
  BY SlotsKept DEF CreateTap

(* Each step keeps EventInv: in particular, a worker that picks an event   *)
(* holds the lock, so that the tap of the event is no longer being made.   *)
LEMMA EventNext ==
  ASSUME ~AllocMayFail, LockInv, LockInv', TableInv, EventInv, [Next]_vars
  PROVE  EventInv'
  <1>0. pc \in [Worker -> Label] /\ pc' \in [Worker -> Label]
    BY LabelNext DEF TableInv, TypeOK
  <1>t. /\ batch \in [Worker -> SUBSET Event] /\ armed \in [Worker -> SUBSET Event]
        /\ cur \in [Worker -> Event]
    BY DEF TableInv, TypeOK
  <1>1. CASE Quiet
    BY <1>1, SameEvents DEF Quiet, EventInv
  <1>2. ASSUME NEW w \in Worker, EpollWait(w) PROVE EventInv'
    <2>1. PICK B \in SUBSET Ready(w) :
            batch' = [batch EXCEPT ![w] = B] /\ armed' = [armed EXCEPT ![w] = armed[w] \ B]
      BY <1>2 DEF EpollWait
    <2>2. B \subseteq armed[w]
      BY <2>1 DEF Ready
    <2>3. /\ UNCHANGED <<cur, tap_devs, num_tap_devs>> /\ pc[w] = "wait"
          /\ pc' = [pc EXCEPT ![w] = "rdlock"]
      BY <1>2 DEF EpollWait, Goto, tableVars
    <2>4. \A x \in Worker : pc'[x] = IF x = w THEN "rdlock" ELSE pc[x]
      BY <1>0, <2>3
    <2>5. \A x \in Worker : armed'[x] \cup batch'[x] \subseteq armed[x] \cup batch[x]
      BY <1>t, <2>1, <2>2
    <2> QED
      BY <2>3, <2>4, <2>5, SameEvents DEF EventInv, InEvent
  <1>3. ASSUME NEW w \in Worker, NextEvent(w) PROVE EventInv'
    <2>1. PICK v \in batch[w] :
            /\ cur' = [cur EXCEPT ![w] = v]
            /\ batch' = [batch EXCEPT ![w] = batch[w] \ {v}]
            /\ pc' = [pc EXCEPT ![w] = IF v.tap = -1 THEN "udp" ELSE "tap"]
      BY <1>3 DEF NextEvent, Goto
    <2>2. /\ UNCHANGED <<armed, tap_devs, num_tap_devs>> /\ pc[w] = "next"
      BY <1>3 DEF NextEvent, tableVars, kernelVars
    <2>3. \A x \in Worker : pc'[x] = IF x = w THEN (IF v.tap = -1 THEN "udp" ELSE "tap") ELSE pc[x]
      BY <1>0, <2>1
    <2>4. \A x \in Worker : /\ cur'[x] = IF x = w THEN v ELSE cur[x]
                            /\ batch'[x] \subseteq batch[x]
      BY <1>t, <2>1
    <2>5. Served(v)
      <3>1. ~Announced(v)
        BY <2>2, RegistersAlone DEF Announced, LockedAt
      <3> QED
        BY <2>1, <3>1 DEF EventInv
    <2>6. \A x \in Worker : pc'[x] = "register" <=> pc[x] = "register"
      BY <2>2, <2>3
    <2> QED
      BY <2>2, <2>3, <2>4, <2>5, <2>6, SameEvents DEF EventInv
  <1>4. ASSUME NEW w \in Worker, Rearm(w) \/ RearmFails(w) PROVE EventInv'
    <2>1. /\ UNCHANGED <<cur, tap_devs, num_tap_devs>> /\ pc[w] = "rearm"
          /\ pc' = [pc EXCEPT ![w] = "next"]
      BY <1>4 DEF Rearm, RearmFails, Goto, tableVars, localVars
    <2>2. \A x \in Worker : pc'[x] = IF x = w THEN "next" ELSE pc[x]
      BY <1>0, <2>1
    <2>3. \A x \in Worker :
            armed'[x] \cup batch'[x] \subseteq armed[x] \cup batch[x] \cup (IF x = w THEN {cur[w]} ELSE {})
      BY <1>4, <1>t DEF Rearm, RearmFails, kernelVars, localVars
    <2>4. Served(cur[w])
      BY <2>1 DEF EventInv, InEvent
    <2>5. \A x \in Worker : pc'[x] = "register" <=> pc[x] = "register"
      BY <2>1, <2>2
    <2> QED
      BY <2>1, <2>2, <2>3, <2>4, <2>5, SameEvents DEF EventInv, InEvent
  <1>5. ASSUME NEW w \in Worker, CreateTap(w) PROVE EventInv'
    <2>1. /\ UNCHANGED <<armed, batch, cur>> /\ pc[w] = "alloc"
          /\ pc' = [pc EXCEPT ![w] = "register"]
      BY <1>5 DEF CreateTap, Goto
    <2>2. \A x \in Worker : pc'[x] = IF x = w THEN "register" ELSE pc[x]
      BY <1>0, <2>1
    <2>3. \A v : ~Announced(v)
      BY <2>1, RegistersAlone DEF Announced, LockedAt, WriterAt
    <2>4. \A v : Served(v) => Served(v)'
      BY <1>5, TapsKept DEF Served, RegistrationOf
    <2> QED
      BY <2>1, <2>2, <2>3, <2>4 DEF EventInv, InEvent
  <1>6. ASSUME NEW w \in Worker, RegisterQueue(w) PROVE EventInv'
    <2>1. /\ UNCHANGED <<pc, batch, cur, tap_devs, num_tap_devs>> /\ pc[w] = "register"
          /\ armed' = [armed EXCEPT ![reg[w]] = @ \cup {TapEvent(tap[w], tap_devs[tap[w]].dev)}]
      BY <1>6 DEF RegisterQueue, tableVars
    <2>2. tap[w] = num_tap_devs
      BY <2>1 DEF TableInv, NewTapInv
    <2>3. Announced(TapEvent(tap[w], tap_devs[tap[w]].dev))
      BY <2>1, <2>2 DEF Announced, RegistrationOf
    <2>4. \A x \in Worker : armed'[x] \subseteq armed[x] \cup {TapEvent(tap[w], tap_devs[tap[w]].dev)}
      BY <1>t, <2>1
    <2> QED
      BY <2>1, <2>3, <2>4, SameEvents DEF EventInv
  <1>7. ASSUME NEW w \in Worker, CommitTap(w) PROVE EventInv'
    <2>1. /\ UNCHANGED <<armed, batch, cur, tap_devs>> /\ pc[w] = "register"
          /\ pc' = [pc EXCEPT ![w] = "mapadd"] /\ num_tap_devs' = num_tap_devs + 1
      BY <1>7 DEF CommitTap, Goto, localVars, kernelVars
    <2>2. \A x \in Worker : pc'[x] = IF x = w THEN "mapadd" ELSE pc[x]
      BY <1>0, <2>1
    <2>3. num_tap_devs \in Nat
      BY DEF TableInv, TypeOK
    <2>4. \A v : Served(v) \/ Announced(v) => Served(v)'
      BY <2>1, <2>3 DEF Served, Announced, RegistrationOf
    <2> QED
      BY <2>1, <2>2, <2>4 DEF EventInv, InEvent
  <1>8. ASSUME NEW w \in Worker, PortAssertFails(w) PROVE EventInv'
    <2>1. /\ UNCHANGED <<armed, batch, cur, tap_devs, num_tap_devs>> /\ pc[w] = "alloc"
          /\ pc' = [x \in Worker |-> "crash"]
      BY <1>8 DEF PortAssertFails, localVars, kernelVars, tableVars
    <2>2. \A v : ~Announced(v)
      BY <2>1, RegistersAlone DEF Announced, LockedAt, WriterAt
    <2>3. \A v : Served(v) => Served(v)'
      BY <2>1 DEF Served, RegistrationOf
    <2> QED
      BY <2>1, <2>2, <2>3 DEF EventInv, InEvent
  <1>9. EventTapReady
    BY EventsReady
  <1> QED
    BY <1>1, <1>2, <1>3, <1>4, <1>5, <1>6, <1>7, <1>8, <1>9, StepKinds

(* The event invariant holds in every reachable state, failed reads and     *)
(* failed re-arming included.                                              *)
THEOREM EventInvariant ==
  ASSUME ~AllocMayFail
  PROVE  Spec => []EventInv
  <1>1. Init => EventInv
    BY TunnelAssumption DEF Init, EventInv, Served, RegistrationOf, InEvent, TapEvent
  <1>2. LockInv /\ LockInv' /\ TableInv /\ EventInv /\ [Next]_vars => EventInv'
    BY EventNext
  <1> QED
    BY <1>1, <1>2, LockInvariant, TableInvariant, PTL DEF Spec

(* A tap is registered with the other workers' queues before its slot is   *)
(* complete and its id in use; still, for any number of workers, a worker  *)
(* that handles an event of a tap finds the tap in use and the device the  *)
(* event came from, as long as allocations and registrations succeed.      *)
THEOREM EventTapCorrect ==
  ASSUME ~AllocMayFail
  PROVE  Spec => []EventTapReady
  <1>1. TableInv /\ EventInv => EventTapReady
    BY EventsReady
  <1> QED
    BY <1>1, EventInvariant, TableInvariant, PTL

\* No tap is being made for a sender whose port is 0.
PortsPositive == \A w \in Worker : pc[w] = "alloc" => pkt[w] \notin PortZero

(* The assertion on the port holds if the allow list lets no such sender   *)
(* in.                                                                     *)
LEMMA AdmittedPorts ==
  ASSUME PortZero \cap Allowed = {}, AdmittedInv
  PROVE  PortsPositive
  BY TunnelAssumption DEF PortsPositive, AdmittedInv, Admitted, Making, WriterAt

\* The process has not died on the half-made tap of a stray event, or of the
\* assertion in tunnel_alloc_new_tap().
Alive == main # "crash" /\ \A w \in Worker : pc[w] # "crash"

(* Only an event of a tap that does not exist, or a port that is 0, can    *)
(* kill the process.                                                       *)
LEMMA AliveNext ==
  ASSUME TableInv, EventTapReady, PortsPositive, Alive, [Next]_vars
  PROVE  Alive'
  <1>0. pc \in [Worker -> Label]
    BY DEF TableInv, TypeOK
  <1> USE <1>0 DEF Alive, Goto
  <1>1. ASSUME NEW w \in Worker, StrayTapEvent(w) PROVE FALSE
    <2>1. pc[w] = "tap" /\ cur[w].tap >= num_tap_devs
      BY <1>1 DEF StrayTapEvent
    <2>2. cur[w].tap < num_tap_devs
      BY <2>1 DEF EventTapReady
    <2>3. cur[w].tap \in Int /\ num_tap_devs \in Int
      BY DEF TableInv, TypeOK, Event
    <2> QED
      BY <2>1, <2>2, <2>3
  <1>2. ASSUME NEW w \in Worker, EpollWait(w) \/ LockBatch(w) \/ NextEvent(w) \/ EndBatch(w) PROVE Alive'
    BY <1>2 DEF EpollWait, LockBatch, NextEvent, EndBatch
  <1>3. ASSUME NEW w \in Worker, ForwardFrame(w) \/ TapDrained(w) \/ IoError(w) PROVE Alive'
    BY <1>3 DEF ForwardFrame, TapDrained, IoError
  <1>4. ASSUME NEW w \in Worker, ReceiveKnown(w) \/ ReceiveRefused(w) \/ ReceiveNew(w) \/ SocketDrained(w) PROVE Alive'
    BY <1>4 DEF ReceiveKnown, ReceiveRefused, ReceiveNew, Receive, SocketDrained
  <1>5. ASSUME NEW w \in Worker, LockTable(w) \/ RecheckFound(w) \/ RecheckMissed(w) \/ RelockRead(w) \/ Deliver(w)
        PROVE  Alive'
    BY <1>5 DEF LockTable, RecheckFound, RecheckMissed, RelockRead, Deliver
  <1>6. ASSUME NEW w \in Worker, CreateTap(w) \/ CreateTapFails(w) \/ RegisterQueue(w) \/ RegisterFails(w) \/ CommitTap(w)
        PROVE  Alive'
    BY <1>6 DEF CreateTap, CreateTapFails, RegisterQueue, RegisterFails, CommitTap
  <1>7. ASSUME NEW w \in Worker,
               \/ MapAdd(w) \/ MapAddSpins(w) \/ MapAddFails(w) \/ MapAddStrands(w) \/ MapAddMoves(w)
               \/ Rearm(w) \/ RearmFails(w)
        PROVE  Alive'
    BY <1>7 DEF MapAdd, MapAddSpins, MapAddFails, MapAddStrands, MapAddMoves, Rearm, RearmFails
  <1>8. CASE MainStep \/ Environment \/ UNCHANGED vars
    BY <1>8 DEF MainStep, ReportLock, ReportDone, Environment, Datagram, Frame, ReportAsked, vars
  <1>9. ASSUME NEW w \in Worker, PortAssertFails(w) PROVE FALSE
    BY <1>9 DEF PortAssertFails, PortsPositive
  <1> HIDE DEF Alive, Goto
  <1> QED
    BY <1>1, <1>2, <1>3, <1>4, <1>5, <1>6, <1>7, <1>8, <1>9 DEF Next, WorkerStep

(* A tunnel whose allocations and registrations succeed, and that admits   *)
(* no sender with port 0, does not die, whatever else fails: the crash of  *)
(* StrayTapEvent needs an epoll_ctl() that failed half-way through         *)
(* tunnel_alloc_new_tap(), the assertion there a datagram from port 0.     *)
THEOREM StaysAlive ==
  ASSUME ~AllocMayFail, PortZero \cap Allowed = {}
  PROVE  Spec => []Alive
  <1>1. Init => Alive
    BY DEF Init, Alive
  <1>2. TableInv /\ EventTapReady /\ AdmittedInv /\ Alive /\ [Next]_vars => Alive'
    BY AliveNext, AdmittedPorts
  <1> QED
    BY <1>1, <1>2, TableInvariant, EventTapCorrect, AdmittedInvariant, PTL DEF Spec

-----------------------------------------------------------------------------
(* No step but a failed EPOLL_CTL_MOD takes a registration away from epoll *)
(* and from its worker: it goes from epoll to the batch, from the batch to *)
(* the event in hand, and back to epoll.                                   *)
LEMMA HandKept ==
  ASSUME ~AllocMayFail, ~IoMayFail, LockInv, LockInv', TableInv, EventInv, WakeInv,
         PortsPositive, [Next]_vars,
         NEW x \in Worker
  PROVE  InHand(x) \subseteq InHand(x)'
  <1>0. pc \in [Worker -> Label] /\ pc' \in [Worker -> Label]
    BY LabelNext DEF TableInv, TypeOK
  <1>t. /\ batch \in [Worker -> SUBSET Event] /\ armed \in [Worker -> SUBSET Event]
        /\ cur \in [Worker -> Event] /\ reg \in [Worker -> 0..NumQueues]
    BY DEF TableInv, TypeOK
  <1>1. CASE Quiet
    BY <1>1 DEF Quiet, InHand
  <1>2. ASSUME NEW w \in Worker, EpollWait(w) PROVE InHand(x) \subseteq InHand(x)'
    <2>1. PICK B \in SUBSET Ready(w) :
            batch' = [batch EXCEPT ![w] = B] /\ armed' = [armed EXCEPT ![w] = armed[w] \ B]
      BY <1>2 DEF EpollWait
    <2>2. /\ cur' = cur /\ pc[w] = "wait" /\ pc' = [pc EXCEPT ![w] = "rdlock"]
          /\ batch[w] = {}
      BY <1>2 DEF EpollWait, Goto, WakeInv
    <2>3. CASE x = w
      <3>1. InHand(x) = armed[w]
        BY <2>2, <2>3 DEF InHand, InEvent
      <3>2. armed'[w] = armed[w] \ B /\ batch'[w] = B
        BY <1>t, <2>1
      <3> QED
        BY <2>3, <3>1, <3>2 DEF InHand
    <2>4. CASE x # w
      BY <1>0, <1>t, <2>1, <2>2, <2>4 DEF InHand
    <2> QED
      BY <2>3, <2>4
  <1>3. ASSUME NEW w \in Worker, NextEvent(w) PROVE InHand(x) \subseteq InHand(x)'
    <2>1. PICK v \in batch[w] :
            /\ cur' = [cur EXCEPT ![w] = v]
            /\ batch' = [batch EXCEPT ![w] = batch[w] \ {v}]
            /\ pc' = [pc EXCEPT ![w] = IF v.tap = -1 THEN "udp" ELSE "tap"]
      BY <1>3 DEF NextEvent, Goto
    <2>2. armed' = armed /\ pc[w] = "next"
      BY <1>3 DEF NextEvent, kernelVars
    <2>3. CASE x = w
      <3>1. InHand(x) = armed[w] \cup batch[w]
        BY <2>2, <2>3 DEF InHand, InEvent
      <3>2. pc'[w] \in InEvent /\ cur'[w] = v /\ batch'[w] = batch[w] \ {v}
        BY <1>0, <1>t, <2>1 DEF InEvent
      <3> QED
        BY <2>2, <2>3, <3>1, <3>2 DEF InHand
    <2>4. CASE x # w
      BY <1>0, <1>t, <2>1, <2>2, <2>4 DEF InHand
    <2> QED
      BY <2>3, <2>4
  <1>4. ASSUME NEW w \in Worker, Rearm(w) PROVE InHand(x) \subseteq InHand(x)'
    <2>1. /\ UNCHANGED <<cur, batch>> /\ pc[w] = "rearm" /\ pc' = [pc EXCEPT ![w] = "next"]
          /\ armed' = [armed EXCEPT ![w] = armed[w] \cup {cur[w]}]
      BY <1>4 DEF Rearm, Goto, localVars
    <2> QED
      BY <1>0, <1>t, <2>1 DEF InHand
  <1>5. ASSUME NEW w \in Worker, CreateTap(w) PROVE InHand(x) \subseteq InHand(x)'
    <2>1. UNCHANGED <<cur, batch, armed>> /\ pc[w] = "alloc" /\ pc' = [pc EXCEPT ![w] = "register"]
      BY <1>5 DEF CreateTap, Goto
    <2> QED
      BY <1>0, <2>1 DEF InHand, InEvent
  <1>6. ASSUME NEW w \in Worker, RegisterQueue(w) PROVE InHand(x) \subseteq InHand(x)'
    <2>1. /\ UNCHANGED <<cur, batch, pc>>
          /\ armed' = [armed EXCEPT ![reg[w]] = @ \cup {TapEvent(tap[w], tap_devs[tap[w]].dev)}]
      BY <1>6 DEF RegisterQueue
    <2>2. armed[x] \subseteq armed'[x]
      BY <1>t, <2>1
    <2> QED
      BY <2>1, <2>2 DEF InHand
  <1>7. ASSUME NEW w \in Worker, CommitTap(w) PROVE InHand(x) \subseteq InHand(x)'
    <2>1. UNCHANGED <<cur, batch, armed>> /\ pc[w] = "register" /\ pc' = [pc EXCEPT ![w] = "mapadd"]
      BY <1>7 DEF CommitTap, Goto, localVars, kernelVars
    <2> QED
      BY <1>0, <2>1 DEF InHand, InEvent
  <1>8. ASSUME NEW w \in Worker, RearmFails(w) PROVE FALSE
    BY <1>8 DEF RearmFails
  <1>9. EventTapReady
    BY EventsReady
  <1>10. ASSUME NEW w \in Worker, PortAssertFails(w) PROVE FALSE
    BY <1>10 DEF PortAssertFails, PortsPositive
  <1> QED
    BY <1>1, <1>2, <1>3, <1>4, <1>5, <1>6, <1>7, <1>8, <1>9, <1>10, StepKinds

(* Each step keeps WakeInv.                                                *)
LEMMA WakeNext ==
  ASSUME ~AllocMayFail, ~IoMayFail, LockInv, LockInv', TableInv, EventInv, WakeInv,
         PortsPositive, [Next]_vars
  PROVE  WakeInv'
  <1>0. pc \in [Worker -> Label] /\ pc' \in [Worker -> Label]
    BY LabelNext DEF TableInv, TypeOK
  <1>t. /\ batch \in [Worker -> SUBSET Event] /\ armed \in [Worker -> SUBSET Event]
        /\ cur \in [Worker -> Event] /\ reg \in [Worker -> 0..NumQueues]
        /\ num_tap_devs \in Nat
    BY DEF TableInv, TypeOK
  <1>h. \A x \in Worker : InHand(x) \subseteq InHand(x)'
    BY HandKept
  \* A step that only moves registrations or that a worker takes elsewhere.
  <1>s. ASSUME UNCHANGED <<reg, tap_devs, num_tap_devs>>,
               \A x \in Worker : pc'[x] = "register" => pc[x] = "register",
               \A x \in Worker : pc'[x] = "wait" => batch'[x] = {}
        PROVE  WakeInv'
    <2>1. \A i : RegistrationOf(i)' = RegistrationOf(i)
      BY <1>s DEF RegistrationOf
    <2>2. UdpEvent' = UdpEvent
      BY DEF UdpEvent
    <2> HIDE DEF InHand, RegistrationOf, UdpEvent
    <2> QED
      BY <1>s, <1>h, <2>1, <2>2 DEF WakeInv
  <1>1. CASE Quiet
    BY <1>1, <1>s DEF Quiet, WakeInv
  <1>2. ASSUME NEW w \in Worker, EpollWait(w) PROVE WakeInv'
    <2>1. /\ UNCHANGED <<reg, tap_devs, num_tap_devs>> /\ pc' = [pc EXCEPT ![w] = "rdlock"]
          /\ \E B : batch' = [batch EXCEPT ![w] = B]
      BY <1>2 DEF EpollWait, Goto, tableVars
    <2>2. \A x \in Worker : pc'[x] = IF x = w THEN "rdlock" ELSE pc[x]
      BY <1>0, <2>1
    <2>3. \A x \in Worker : x # w => batch'[x] = batch[x]
      BY <1>t, <2>1
    <2> QED
      BY <1>s, <2>1, <2>2, <2>3 DEF WakeInv
  <1>3. ASSUME NEW w \in Worker, NextEvent(w) PROVE WakeInv'
    <2>1. PICK v \in batch[w] :
            /\ batch' = [batch EXCEPT ![w] = batch[w] \ {v}]
            /\ pc' = [pc EXCEPT ![w] = IF v.tap = -1 THEN "udp" ELSE "tap"]
      BY <1>3 DEF NextEvent, Goto
    <2>2. UNCHANGED <<reg, tap_devs, num_tap_devs>>
      BY <1>3 DEF NextEvent, tableVars
    <2>3. \A x \in Worker : pc'[x] = IF x = w THEN (IF v.tap = -1 THEN "udp" ELSE "tap") ELSE pc[x]
      BY <1>0, <2>1
    <2>4. \A x \in Worker : x # w => batch'[x] = batch[x]
      BY <1>t, <2>1
    <2> QED
      BY <1>s, <2>2, <2>3, <2>4 DEF WakeInv
  <1>4. ASSUME NEW w \in Worker, Rearm(w) PROVE WakeInv'
    <2>1. /\ UNCHANGED <<batch, reg, tap_devs, num_tap_devs>> /\ pc' = [pc EXCEPT ![w] = "next"]
      BY <1>4 DEF Rearm, Goto, localVars, tableVars
    <2>2. \A x \in Worker : pc'[x] = IF x = w THEN "next" ELSE pc[x]
      BY <1>0, <2>1
    <2> QED
      BY <1>s, <2>1, <2>2 DEF WakeInv
  <1>5. ASSUME NEW w \in Worker, CreateTap(w) PROVE WakeInv'
    <2>1. /\ batch' = batch /\ pc[w] = "alloc" /\ pc' = [pc EXCEPT ![w] = "register"]
          /\ reg' = [reg EXCEPT ![w] = 0]
      BY <1>5 DEF CreateTap, Goto
    <2>2. \A x \in Worker : pc'[x] = IF x = w THEN "register" ELSE pc[x]
      BY <1>0, <2>1
    <2>3. num_tap_devs' = num_tap_devs
          /\ \A i \in 0..(num_tap_devs - 1) : RegistrationOf(i)' = RegistrationOf(i)
      BY <1>5, TapsKept DEF RegistrationOf
    <2>4. \A r \in Worker : pc'[r] = "register" => r = w
      BY <2>1, <2>2, RegistersAlone DEF LockedAt, WriterAt
    <2>5. reg'[w] = 0 /\ \A x \in Worker : ~(x < 0)
      BY <1>t, <2>1 DEF Worker
    <2>6. UdpEvent' = UdpEvent
      BY DEF UdpEvent
    <2> HIDE DEF InHand, RegistrationOf, UdpEvent
    <2> QED
      BY <1>h, <2>1, <2>2, <2>3, <2>4, <2>5, <2>6 DEF WakeInv
  <1>6. ASSUME NEW w \in Worker, RegisterQueue(w) PROVE WakeInv'
    <2> DEFINE v == TapEvent(tap[w], tap_devs[tap[w]].dev)
    <2>1. /\ UNCHANGED <<pc, batch, cur, tap_devs, num_tap_devs>> /\ pc[w] = "register"
          /\ reg[w] < NumQueues
          /\ armed' = [armed EXCEPT ![reg[w]] = armed[reg[w]] \cup {v}]
          /\ reg' = [reg EXCEPT ![w] = reg[w] + 1]
      BY <1>6 DEF RegisterQueue, tableVars
    <2>2. v = RegistrationOf(num_tap_devs)
      BY <2>1 DEF TableInv, NewTapInv, RegistrationOf
    <2>3. PICK q \in Worker : q = reg[w] /\ v \in armed'[q]
      BY <1>t, <2>1, TunnelAssumption DEF Worker
    <2>4. \A r \in Worker : pc[r] = "register" => r = w
      BY <2>1, RegistersAlone DEF LockedAt, WriterAt
    <2>5. \A x \in Worker : x < reg'[w] => x < reg[w] \/ x = q
      BY <1>t, <2>1, <2>3 DEF Worker
    <2>6. v \in InHand(q)'
      BY <2>3 DEF InHand
    <2>7. UdpEvent' = UdpEvent /\ \A i : RegistrationOf(i)' = RegistrationOf(i)
      BY <2>1 DEF UdpEvent, RegistrationOf
    <2> HIDE DEF InHand, RegistrationOf, UdpEvent, v
    <2>8. ASSUME NEW x \in Worker, x < reg'[w] PROVE v \in InHand(x)'
      <3>1. CASE x < reg[w]
        BY <1>h, <2>1, <2>2, <3>1 DEF WakeInv
      <3>2. CASE x = q
        BY <2>6, <3>2
      <3> QED
        BY <2>5, <2>8, <3>1, <3>2
    <2> QED
      BY <1>h, <2>1, <2>2, <2>4, <2>7, <2>8 DEF WakeInv
  <1>7. ASSUME NEW w \in Worker, CommitTap(w) PROVE WakeInv'
    <2>1. /\ UNCHANGED <<batch, reg, tap_devs>> /\ pc[w] = "register" /\ reg[w] = NumQueues
          /\ pc' = [pc EXCEPT ![w] = "mapadd"] /\ num_tap_devs' = num_tap_devs + 1
      BY <1>7 DEF CommitTap, Goto, localVars
    <2>2. \A x \in Worker : pc'[x] = IF x = w THEN "mapadd" ELSE pc[x]
      BY <1>0, <2>1
    <2>3. \A r \in Worker : pc'[r] # "register"
      BY <2>1, <2>2, RegistersAlone DEF LockedAt, WriterAt
    <2>4. \A x \in Worker : x < reg[w]
      BY <2>1, TunnelAssumption DEF Worker
    <2>5. UdpEvent' = UdpEvent /\ \A i : RegistrationOf(i)' = RegistrationOf(i)
      BY <2>1 DEF UdpEvent, RegistrationOf
    <2>6. \A i \in 0..(num_tap_devs' - 1) : i \in 0..(num_tap_devs - 1) \/ i = num_tap_devs
      BY <1>t, <2>1
    <2> HIDE DEF InHand, RegistrationOf, UdpEvent
    <2> QED
      BY <1>h, <2>1, <2>2, <2>3, <2>4, <2>5, <2>6 DEF WakeInv
  <1>8. ASSUME NEW w \in Worker, RearmFails(w) PROVE FALSE
    BY <1>8 DEF RearmFails
  <1>9. EventTapReady
    BY EventsReady
  <1>10. ASSUME NEW w \in Worker, PortAssertFails(w) PROVE FALSE
    BY <1>10 DEF PortAssertFails, PortsPositive
  <1> QED
    BY <1>1, <1>2, <1>3, <1>4, <1>5, <1>6, <1>7, <1>8, <1>9, <1>10, StepKinds

(* No wakeup is lost, for any number of workers and taps: the registration *)
(* of each socket and of each tap in use with each worker is armed, in the *)
(* worker's batch, or the event it handles and will arm again, as long as  *)
(* no allocation and no EPOLL_CTL_MOD fails and nobody with port 0 is let  *)
(* in.                                                                     *)
THEOREM NoWakeupLost ==
  ASSUME ~AllocMayFail, ~IoMayFail, PortZero \cap Allowed = {}
  PROVE  Spec => []NoLostWakeup
  <1>1. Init => WakeInv
    BY TunnelAssumption DEF Init, WakeInv, RegistrationOf, InHand, TapEvent, InEvent
  <1>2. LockInv /\ LockInv' /\ TableInv /\ EventInv /\ AdmittedInv /\ WakeInv /\ [Next]_vars => WakeInv'
    BY WakeNext, AdmittedPorts
  <1>3. WakeInv => NoLostWakeup
    BY DEF WakeInv, NoLostWakeup, RegistrationOf
  <1> QED
    BY <1>1, <1>2, <1>3, LockInvariant, TableInvariant, EventInvariant, AdmittedInvariant, PTL DEF Spec
=============================================================================
