------------------------------- MODULE Tunnel -------------------------------
(***************************************************************************)
(* src/src/tunnel.c: the worker threads of one tunnel, the reader-writer   *)
(* lock over its tap table and endpoint map, and the one-shot epoll        *)
(* registrations that wake the workers.                                    *)
(*                                                                         *)
(* Worker q owns queue q: one UDP socket, one epoll instance and queue q   *)
(* of every tap device.  The endpoint map is the dictionary EndpointMap    *)
(* implements; Storable says whom its two slots per endpoint can hold.     *)
(* Every system call and every lock operation is a step of its own.        *)
(***************************************************************************)
EXTENDS Integers, Sequences, FiniteSets

CONSTANTS
  NumQueues,      \* t->num_queues: workers, sockets, queues of each tap
  Endpoint,       \* remote (address, port) pairs
  PortZero,       \* those whose port is 0
  Allowed,        \* those ip_addr_cidr_list_match() accepts
  Default,        \* the resolved default_endpoint, or NoEndpoint
  NoEndpoint,
  Storable,       \* the sets of endpoints that some pair of nonces can store
                  \* together (EndpointHash, Fits)
  MapCapacity,    \* bindings that fit before endpoint_map_add() reallocates
  EpollMax,       \* EPOLL_MAX_EVENTS
  QueueLen,       \* bound: datagrams a socket buffers, more are dropped
  MaxInputs,      \* bound: datagrams, frames and SIGUSR1s that arrive
  AllocMayFail,   \* whether memory, tap and epoll registrations may fail
  IoMayFail       \* whether recvfrom(), read() and re-arming may fail

Worker == 0..(NumQueues - 1)

ASSUME TunnelAssumption ==
  /\ NumQueues \in Nat \ {0}
  /\ Allowed \subseteq Endpoint
  /\ NoEndpoint \notin Endpoint
  /\ Default \in Endpoint \cup {NoEndpoint}
  /\ PortZero \subseteq Endpoint /\ Default \notin PortZero
  /\ Storable \subseteq SUBSET Endpoint
  /\ MapCapacity \in Nat \ {0} /\ EpollMax \in Nat \ {0}
  /\ QueueLen \in Nat /\ MaxInputs \in Nat
  /\ {AllocMayFail, IoMayFail} \subseteq BOOLEAN

VARIABLES
  writer, readers,     \* t->mutex: who holds it (-1: the thread of main())
  main,                \* the SIGUSR1 handler in main()'s thread
  pc,                  \* where each worker is in worker_thread()
  batch, cur,          \* events still to handle, and the one in hand
  pkt, tap,            \* sender of the datagram in buf, and tap_id
  reg,                 \* tunnel_alloc_new_tap()'s loop counter
  armed,               \* registrations that can still fire, per worker
  udpq,                \* datagrams in each socket, by sender
  frames,              \* <<device, queue>> pairs that have a frame to read
  tap_devs,            \* t->tap_devs, indexed from 0
  num_tap_devs, tap_devs_allocated,
  map,                 \* what t->map binds each endpoint to, -1 for none
  map_state,           \* "sound"; "torn": doubled in place over slots that
                       \* were filled for the old size; "stale": t->map
                       \* points to a block realloc() has freed
  ndev,                \* tap devices created so far
  inputs               \* inputs so far

lockVars == <<writer, readers>>
tableVars == <<tap_devs, num_tap_devs, tap_devs_allocated>>
mapVars == <<map, map_state>>
kernelVars == <<armed, udpq, frames, ndev>>
localVars == <<batch, cur, pkt, tap, reg>>
vars == <<lockVars, main, pc, localVars, kernelVars, tableVars, mapVars, inputs>>

Main == -1
Nobody == -2

\* What epoll hands back: .is_tap with .tap_id, or the socket.
UdpEvent == [tap |-> -1, dev |-> -1]
TapEvent(i, d) == [tap |-> i, dev |-> d]

-----------------------------------------------------------------------------
(* pthread_rwlock_t with the default preference: a reader is let in        *)
(* whenever no writer is inside, however long a writer has been waiting.   *)

RdLock(x) ==
  /\ writer = Nobody
  /\ readers' = readers \cup {x}
  /\ UNCHANGED writer

WrLock(x) ==
  /\ writer = Nobody
  /\ readers = {}
  /\ writer' = x
  /\ UNCHANGED readers

Unlock(x) ==
  /\ readers' = readers \ {x}
  /\ writer' = IF writer = x THEN Nobody ELSE writer

-----------------------------------------------------------------------------
Goto(w, l) == pc' = [pc EXCEPT ![w] = l]

Ready(w) ==
  {v \in armed[w] : IF v.tap = -1 THEN udpq[w] # <<>> ELSE <<v.dev, w>> \in frames}

\* epoll_wait() reports what is ready, up to EPOLL_MAX_EVENTS, and disarms it.
EpollWait(w) ==
  /\ pc[w] = "wait"
  /\ Ready(w) # {}
  /\ \E B \in SUBSET Ready(w) :
       /\ \/ B = Ready(w) /\ Cardinality(B) <= EpollMax
          \/ Cardinality(B) = EpollMax
       /\ batch' = [batch EXCEPT ![w] = B]
       /\ armed' = [armed EXCEPT ![w] = @ \ B]
  /\ Goto(w, "rdlock")
  /\ UNCHANGED <<lockVars, main, cur, pkt, tap, reg, udpq, frames, ndev, tableVars, mapVars, inputs>>

\* Mutant: a batch is handled without the read lock.
LockBatchNot(w) ==
  /\ pc[w] = "rdlock"
  /\ Goto(w, "next")
  /\ UNCHANGED <<lockVars, main, localVars, kernelVars, tableVars, mapVars, inputs>>

LockBatch(w) ==
  /\ pc[w] = "rdlock"
  /\ RdLock(w)
  /\ Goto(w, "next")
  /\ UNCHANGED <<main, localVars, kernelVars, tableVars, mapVars, inputs>>

NextEvent(w) ==
  /\ pc[w] = "next"
  /\ \E v \in batch[w] :
       /\ cur' = [cur EXCEPT ![w] = v]
       /\ batch' = [batch EXCEPT ![w] = @ \ {v}]
       /\ Goto(w, IF v.tap = -1 THEN "udp" ELSE "tap")
  /\ UNCHANGED <<lockVars, main, pkt, tap, reg, kernelVars, tableVars, mapVars, inputs>>

\* Mutant: the lock outlives the batch.
EndBatchLocked(w) ==
  /\ pc[w] = "next"
  /\ batch[w] = {}
  /\ Goto(w, "wait")
  /\ UNCHANGED <<lockVars, main, localVars, kernelVars, tableVars, mapVars, inputs>>

EndBatch(w) ==
  /\ pc[w] = "next"
  /\ batch[w] = {}
  /\ Unlock(w)
  /\ Goto(w, "wait")
  /\ UNCHANGED <<main, localVars, kernelVars, tableVars, mapVars, inputs>>

-----------------------------------------------------------------------------
(* The tap branch: read() and sendto() until read() would block.  A frame  *)
(* that sendto() refuses is gone as well, so both outcomes are one step.   *)

TapFd(w) == <<tap_devs[cur[w].tap].dev, w>>

ForwardFrame(w) ==
  /\ pc[w] = "tap"
  /\ cur[w].tap < num_tap_devs
  /\ TapFd(w) \in frames
  /\ frames' = frames \ {TapFd(w)}
  /\ UNCHANGED <<lockVars, main, pc, localVars, armed, udpq, ndev, tableVars, mapVars, inputs>>

\* Mutant: EAGAIN leaves the event without arming it again.
TapDrainedUnarmed(w) ==
  /\ pc[w] = "tap"
  /\ cur[w].tap < num_tap_devs
  /\ TapFd(w) \notin frames
  /\ Goto(w, "next")
  /\ UNCHANGED <<lockVars, main, localVars, kernelVars, tableVars, mapVars, inputs>>

TapDrained(w) ==
  /\ pc[w] = "tap"
  /\ cur[w].tap < num_tap_devs
  /\ TapFd(w) \notin frames
  /\ Goto(w, "rearm")
  /\ UNCHANGED <<lockVars, main, localVars, kernelVars, tableVars, mapVars, inputs>>

\* An event of a tap whose creation failed half-way: tap_fds is freed and stats
\* is NULL, so read() fails on a junk descriptor or the process dies.
StrayTapEvent(w) ==
  /\ pc[w] = "tap"
  /\ cur[w].tap >= num_tap_devs
  /\ \/ Goto(w, "rearm") /\ UNCHANGED main
     \/ pc' = [x \in Worker |-> "crash"] /\ main' = "crash"
  /\ UNCHANGED <<lockVars, localVars, kernelVars, tableVars, mapVars, inputs>>

\* read() or recvfrom() fails with something else than EAGAIN.
IoError(w) ==
  /\ IoMayFail
  /\ pc[w] \in {"tap", "udp"}
  /\ Goto(w, "rearm")
  /\ UNCHANGED <<lockVars, main, localVars, kernelVars, tableVars, mapVars, inputs>>

-----------------------------------------------------------------------------
(* The socket branch.  In a torn map an entry is found if it happens to be *)
(* at an index of the new size (the uninitialised half is taken to spell   *)
(* no sender: EndpointHash, GhostsApart); through a dangling t->map a      *)
(* lookup finds anything.                                                  *)

LookupResults(e) ==
  CASE map_state = "sound" -> {map[e]}
    [] map_state = "torn" -> {-1} \cup {i \in 0..(num_tap_devs - 1) : tap_devs[i].ep = e}
    [] map_state = "stale" -> {-1} \cup 0..(num_tap_devs - 1)

Receive(w) ==
  /\ pc[w] = "udp"
  /\ udpq[w] # <<>>
  /\ udpq' = [udpq EXCEPT ![w] = Tail(@)]
  /\ pkt' = [pkt EXCEPT ![w] = Head(udpq[w])]
  /\ UNCHANGED <<main, batch, cur, reg, armed, frames, ndev, tableVars, mapVars, inputs>>

ReceiveKnown(w) ==
  /\ Receive(w)
  /\ \E i \in LookupResults(Head(udpq[w])) \ {-1} : tap' = [tap EXCEPT ![w] = i]
  /\ Goto(w, "deliver")
  /\ UNCHANGED lockVars

ReceiveRefused(w) ==
  /\ Receive(w)
  /\ -1 \in LookupResults(Head(udpq[w]))
  /\ Head(udpq[w]) \notin Allowed
  /\ UNCHANGED <<pc, tap, lockVars>>

\* Mutant: the table is changed under the read lock.
ReceiveNewShared(w) ==
  /\ Receive(w)
  /\ -1 \in LookupResults(Head(udpq[w]))
  /\ Head(udpq[w]) \in Allowed
  /\ Goto(w, "recheck")
  /\ UNCHANGED <<lockVars, tap>>

\* Mutant: the allow list is not asked.
ReceiveNewAny(w) ==
  /\ Receive(w)
  /\ -1 \in LookupResults(Head(udpq[w]))
  /\ Unlock(w)
  /\ Goto(w, "wrlock")
  /\ UNCHANGED tap

\* The read lock is dropped before the write lock is asked for.
ReceiveNew(w) ==
  /\ Receive(w)
  /\ -1 \in LookupResults(Head(udpq[w]))
  /\ Head(udpq[w]) \in Allowed
  /\ Unlock(w)
  /\ Goto(w, "wrlock")
  /\ UNCHANGED tap

SocketDrained(w) ==
  /\ pc[w] = "udp"
  /\ udpq[w] = <<>>
  /\ Goto(w, "rearm")
  /\ UNCHANGED <<lockVars, main, localVars, kernelVars, tableVars, mapVars, inputs>>

\* Mutant: no second lookup under the write lock.
LockTableUnchecked(w) ==
  /\ pc[w] = "wrlock"
  /\ WrLock(w)
  /\ Goto(w, "alloc")
  /\ UNCHANGED <<main, localVars, kernelVars, tableVars, mapVars, inputs>>

LockTable(w) ==
  /\ pc[w] = "wrlock"
  /\ WrLock(w)
  /\ Goto(w, "recheck")
  /\ UNCHANGED <<main, localVars, kernelVars, tableVars, mapVars, inputs>>

RecheckFound(w) ==
  /\ pc[w] = "recheck"
  /\ \E i \in LookupResults(pkt[w]) \ {-1} : tap' = [tap EXCEPT ![w] = i]
  /\ Unlock(w)
  /\ Goto(w, "relock")
  /\ UNCHANGED <<main, batch, cur, pkt, reg, kernelVars, tableVars, mapVars, inputs>>

RecheckMissed(w) ==
  /\ pc[w] = "recheck"
  /\ -1 \in LookupResults(pkt[w])
  /\ Goto(w, "alloc")
  /\ UNCHANGED <<lockVars, main, localVars, kernelVars, tableVars, mapVars, inputs>>

RelockRead(w) ==
  /\ pc[w] = "relock"
  /\ RdLock(w)
  /\ Goto(w, "deliver")
  /\ UNCHANGED <<main, localVars, kernelVars, tableVars, mapVars, inputs>>

\* write() to the tap; an error is counted and the loop goes on likewise.
Deliver(w) ==
  /\ pc[w] = "deliver"
  /\ Goto(w, "udp")
  /\ UNCHANGED <<lockVars, main, localVars, kernelVars, tableVars, mapVars, inputs>>

-----------------------------------------------------------------------------
(* tunnel_alloc_new_tap(): a slot, a device, one registration per queue -  *)
(* which the other workers' epoll_wait() may report at once - and only     *)
(* then the stats and num_tap_devs.  On failure the worker goes on to the  *)
(* next datagram, still holding the write lock.                            *)

NoSlot == [ep |-> NoEndpoint, dev |-> -1]

\* Mutant: the table is grown one tap too late.
NeedsRoomLate == num_tap_devs > tap_devs_allocated

NeedsRoom == num_tap_devs >= tap_devs_allocated

NewSize == IF tap_devs_allocated = 0 THEN 1 ELSE tap_devs_allocated * 2

\* The realloc() branch, then slot num_tap_devs is filled in.
FillSlot(s) ==
  /\ tap_devs_allocated' = IF NeedsRoom THEN NewSize ELSE tap_devs_allocated
  /\ tap_devs' = [i \in 0..(tap_devs_allocated' - 1) |->
                    IF i = num_tap_devs THEN s
                    ELSE IF i < tap_devs_allocated THEN tap_devs[i] ELSE NoSlot]

CreateTap(w) ==
  /\ pc[w] = "alloc"
  /\ pkt[w] \notin PortZero
  /\ FillSlot([ep |-> pkt[w], dev |-> ndev])
  /\ ndev' = ndev + 1
  /\ tap' = [tap EXCEPT ![w] = num_tap_devs]
  /\ reg' = [reg EXCEPT ![w] = 0]
  /\ Goto(w, "register")
  /\ UNCHANGED <<lockVars, main, batch, cur, pkt, armed, udpq, frames, num_tap_devs, mapVars, inputs>>

\* realloc() or net_create_tap_mq_fds() fails.
CreateTapFails(w) ==
  /\ AllocMayFail
  /\ pc[w] = "alloc"
  /\ \/ NeedsRoom /\ UNCHANGED <<tap_devs, tap_devs_allocated>>
     \/ pkt[w] \notin PortZero /\ FillSlot([ep |-> pkt[w], dev |-> -1])
  /\ Goto(w, "udp")
  /\ UNCHANGED <<lockVars, main, localVars, kernelVars, num_tap_devs, mapVars, inputs>>

\* assert(remote_port > 0) ends the process.
PortAssertFails(w) ==
  /\ pc[w] = "alloc"
  /\ pkt[w] \in PortZero
  /\ pc' = [x \in Worker |-> "crash"]
  /\ main' = "crash"
  /\ UNCHANGED <<lockVars, localVars, kernelVars, tableVars, mapVars, inputs>>

\* Mutant: the loop over the queues runs once too often.
RegisterQueueOver(w) ==
  /\ pc[w] = "register"
  /\ reg[w] <= NumQueues
  /\ armed' = [armed EXCEPT ![reg[w] % NumQueues] =
                 @ \cup {TapEvent(tap[w], tap_devs[tap[w]].dev)}]
  /\ reg' = [reg EXCEPT ![w] = @ + 1]
  /\ UNCHANGED <<lockVars, main, pc, batch, cur, pkt, tap, udpq, frames, ndev, tableVars, mapVars, inputs>>

RegisterQueue(w) ==
  /\ pc[w] = "register"
  /\ reg[w] < NumQueues
  /\ armed' = [armed EXCEPT ![reg[w]] =
                 @ \cup {TapEvent(tap[w], tap_devs[tap[w]].dev)}]
  /\ reg' = [reg EXCEPT ![w] = @ + 1]
  /\ UNCHANGED <<lockVars, main, pc, batch, cur, pkt, tap, udpq, frames, ndev, tableVars, mapVars, inputs>>

\* The queues registered so far stay registered.
RegisterFails(w) ==
  /\ AllocMayFail
  /\ pc[w] = "register"
  /\ reg[w] < NumQueues
  /\ Goto(w, "udp")
  /\ UNCHANGED <<lockVars, main, localVars, kernelVars, tableVars, mapVars, inputs>>

CommitTap(w) ==
  /\ pc[w] = "register"
  /\ reg[w] = NumQueues
  /\ num_tap_devs' = num_tap_devs + 1
  /\ Goto(w, "mapadd")
  /\ UNCHANGED <<lockVars, main, localVars, kernelVars, tap_devs, tap_devs_allocated, mapVars, inputs>>

-----------------------------------------------------------------------------
(* The endpoint_map_add() of worker_thread(), which ignores its result.    *)

Bound == {e \in Endpoint : map[e] # -1}

MapSound == map_state = "sound"

\* A pass of the rehash loop can succeed.  What a map that is not sound holds is
\* not known, and either may happen.
MayFit(w) == MapSound => Bound \cup {pkt[w]} \in Storable

MayNotFit(w) == MapSound => Bound \cup {pkt[w]} \notin Storable

\* num_entries >= alloc_entries.  The size after a growth is not followed: from
\* the first one on, the map may be found full at any call.
MapFull == Cardinality(Bound) >= MapCapacity

\* Mutant: the id is taken after num_tap_devs was incremented.
BindNext(w) == map' = [map EXCEPT ![pkt[w]] = num_tap_devs]

Bind(w) == map' = [map EXCEPT ![pkt[w]] = tap[w]]

MapAdd(w) ==
  /\ pc[w] = "mapadd"
  /\ MayFit(w)
  /\ Bind(w)
  /\ Goto(w, "deliver")
  /\ UNCHANGED <<lockVars, main, localVars, kernelVars, tableVars, map_state, inputs>>

\* The endless rehash, which keeps the write lock: there is no step out of it.
MapAddSpins(w) ==
  /\ pc[w] = "mapadd"
  /\ MayNotFit(w)
  /\ Goto(w, "rehash")
  /\ UNCHANGED <<lockVars, main, localVars, kernelVars, tableVars, mapVars, inputs>>

\* NULL from a failed realloc(), or from the malloc() of a rehash without growth:
\* the binding is not there, the worker delivers to the tap all the same.  In an
\* empty map the first insertion succeeds and nothing is allocated.
MapAddFails(w) ==
  /\ AllocMayFail
  /\ pc[w] = "mapadd"
  /\ MapSound => Bound # {}
  /\ Goto(w, "deliver")
  /\ UNCHANGED <<lockVars, main, localVars, kernelVars, tableVars, mapVars, inputs>>

\* NULL from the malloc() that follows a successful realloc(): the map was moved,
\* or doubled where it is, and its entries are not at the indices of the new size.
MapAddStrands(w) ==
  /\ AllocMayFail
  /\ pc[w] = "mapadd"
  /\ map_state # "stale"
  /\ MapFull
  /\ map_state' \in {"torn", "stale"}
  /\ Goto(w, "deliver")
  /\ UNCHANGED <<lockVars, main, localVars, kernelVars, tableVars, map, inputs>>

\* The full map was reallocated to another place; t->map keeps the old one.
MapAddMoves(w) ==
  /\ pc[w] = "mapadd"
  /\ map_state # "stale"
  /\ MapFull
  /\ MayFit(w)
  /\ Bind(w)
  /\ map_state' = "stale"
  /\ Goto(w, "deliver")
  /\ UNCHANGED <<lockVars, main, localVars, kernelVars, tableVars, inputs>>

-----------------------------------------------------------------------------
(* The end of each event: EPOLL_CTL_MOD arms the registration again.       *)

\* Mutant: the registration is not armed again.
RearmNot(w) ==
  /\ pc[w] = "rearm"
  /\ Goto(w, "next")
  /\ UNCHANGED <<lockVars, main, localVars, kernelVars, tableVars, mapVars, inputs>>

Rearm(w) ==
  /\ pc[w] = "rearm"
  /\ armed' = [armed EXCEPT ![w] = @ \cup {cur[w]}]
  /\ Goto(w, "next")
  /\ UNCHANGED <<lockVars, main, localVars, udpq, frames, ndev, tableVars, mapVars, inputs>>

\* The for loop is left: the rest of the batch is neither handled nor re-armed.
RearmFails(w) ==
  /\ IoMayFail
  /\ pc[w] = "rearm"
  /\ batch' = [batch EXCEPT ![w] = {}]
  /\ Goto(w, "next")
  /\ UNCHANGED <<lockVars, main, cur, pkt, tap, reg, kernelVars, tableVars, mapVars, inputs>>

-----------------------------------------------------------------------------
(* The environment, and tunnel_print_stats() in main()'s thread.           *)

Spend == inputs < MaxInputs /\ inputs' = inputs + 1

\* SO_REUSEPORT spreads datagrams over the sockets; nothing in the code says
\* which socket a sender's datagrams go to.
Datagram(q, e) ==
  /\ Len(udpq[q]) < QueueLen
  /\ Spend
  /\ udpq' = [udpq EXCEPT ![q] = Append(@, e)]
  /\ UNCHANGED <<lockVars, main, pc, localVars, armed, frames, ndev, tableVars, mapVars>>

\* The bridge hands a frame to queue q of device d.
Frame(d, q) ==
  /\ <<d, q>> \notin frames
  /\ Spend
  /\ frames' = frames \cup {<<d, q>>}
  /\ UNCHANGED <<lockVars, main, pc, localVars, armed, udpq, ndev, tableVars, mapVars>>

ReportAsked ==
  /\ main = "join"
  /\ Spend
  /\ main' = "rdlock"
  /\ UNCHANGED <<lockVars, pc, localVars, kernelVars, tableVars, mapVars>>

ReportLock ==
  /\ main = "rdlock"
  /\ RdLock(Main)
  /\ main' = "report"
  /\ UNCHANGED <<pc, localVars, kernelVars, tableVars, mapVars, inputs>>

ReportDone ==
  /\ main = "report"
  /\ Unlock(Main)
  /\ main' = "join"
  /\ UNCHANGED <<pc, localVars, kernelVars, tableVars, mapVars, inputs>>

-----------------------------------------------------------------------------
(* tunnel_create() up to the start of the workers: with a default endpoint *)
(* there is one tap, bound and registered with every queue.                *)
Init ==
  LET taps == IF Default = NoEndpoint THEN 0 ELSE 1 IN
  /\ writer = Nobody
  /\ readers = {}
  /\ main = "join"
  /\ pc = [w \in Worker |-> "wait"]
  /\ batch = [w \in Worker |-> {}]
  /\ cur = [w \in Worker |-> UdpEvent]
  /\ pkt = [w \in Worker |-> NoEndpoint]
  /\ tap = [w \in Worker |-> -1]
  /\ reg = [w \in Worker |-> 0]
  /\ armed = [w \in Worker |-> {UdpEvent} \cup (IF taps = 0 THEN {} ELSE {TapEvent(0, 0)})]
  /\ udpq = [w \in Worker |-> <<>>]
  /\ frames = {}
  /\ tap_devs = [i \in 0..(taps - 1) |-> [ep |-> Default, dev |-> 0]]
  /\ num_tap_devs = taps
  /\ tap_devs_allocated = taps
  /\ map = [e \in Endpoint |-> IF e = Default THEN 0 ELSE -1]
  /\ map_state = "sound"
  /\ ndev = taps
  /\ inputs = 0

WorkerStep(w) ==
  \/ EpollWait(w) \/ LockBatch(w) \/ NextEvent(w) \/ EndBatch(w)
  \/ ForwardFrame(w) \/ TapDrained(w) \/ StrayTapEvent(w) \/ IoError(w)
  \/ ReceiveKnown(w) \/ ReceiveRefused(w) \/ ReceiveNew(w) \/ SocketDrained(w)
  \/ LockTable(w) \/ RecheckFound(w) \/ RecheckMissed(w) \/ RelockRead(w) \/ Deliver(w)
  \/ CreateTap(w) \/ CreateTapFails(w) \/ PortAssertFails(w)
  \/ RegisterQueue(w) \/ RegisterFails(w) \/ CommitTap(w)
  \/ MapAdd(w) \/ MapAddSpins(w) \/ MapAddFails(w) \/ MapAddStrands(w) \/ MapAddMoves(w)
  \/ Rearm(w) \/ RearmFails(w)

MainStep == ReportLock \/ ReportDone

Environment ==
  \/ \E q \in Worker, e \in Endpoint : Datagram(q, e)
  \/ \E d \in 0..(ndev - 1), q \in Worker : Frame(d, q)
  \/ ReportAsked

Next ==
  \/ \E w \in Worker : WorkerStep(w)
  \/ MainStep
  \/ Environment

Spec == Init /\ [][Next]_vars

(* The scheduler runs every thread that can run, and a thread that could   *)
(* have the lock from some moment on gets it.  A lock that is free only    *)
(* now and then is promised to no one.                                     *)
FairSpec ==
  /\ Spec
  /\ \A w \in Worker : WF_vars(WorkerStep(w))
  /\ WF_vars(MainStep)

-----------------------------------------------------------------------------
InEvent ==
  {"tap", "udp", "deliver", "wrlock", "recheck", "relock", "alloc", "register", "mapadd",
   "rehash", "rearm"}

Label == {"wait", "rdlock", "next", "crash"} \cup InEvent

Event == [tap : -1..(ndev - 1), dev : -1..(ndev - 1)]

Slot == [ep : Endpoint \cup {NoEndpoint}, dev : -1..(ndev - 1)]

TypeOK ==
  /\ writer \in Worker \cup {Nobody}
  /\ readers \subseteq Worker \cup {Main}
  /\ main \in {"join", "rdlock", "report", "crash"}
  /\ pc \in [Worker -> Label]
  /\ batch \in [Worker -> SUBSET Event]
  /\ cur \in [Worker -> Event]
  /\ pkt \in [Worker -> Endpoint \cup {NoEndpoint}]
  /\ tap \in [Worker -> -1..(ndev - 1)]
  /\ reg \in [Worker -> 0..NumQueues]
  /\ armed \in [Worker -> SUBSET Event]
  /\ udpq \in [Worker -> Seq(Endpoint)]
  /\ frames \subseteq (0..(ndev - 1)) \X Worker
  /\ tap_devs_allocated \in Nat
  /\ tap_devs \in [0..(tap_devs_allocated - 1) -> Slot]
  /\ num_tap_devs \in 0..ndev
  /\ map \in [Endpoint -> -1..(ndev - 1)]
  /\ map_state \in {"sound", "torn", "stale"}
  /\ ndev \in Nat
  /\ inputs \in Nat

Mutating == {"alloc", "register", "mapadd", "rehash"}

Reading == {"tap", "udp", "deliver", "recheck"} \cup Mutating

(* While a worker changes the tap table or the endpoint map (which may     *)
(* move both in memory), no other worker and no tunnel_print_stats() looks *)
(* at them: the lock is dropped and taken again in the middle of a batch,  *)
(* kept across a failed allocation and released by a scope the C code does *)
(* not show.                                                               *)
TableExclusive ==
  \A w \in Worker :
    pc[w] \in Mutating =>
      /\ main # "report"
      /\ \A x \in Worker \ {w} : pc[x] \notin Reading

\* Where worker_thread() counts on the lock, in either mode.
Holding == Reading \cup {"next", "rearm"}

(* The lock changes hands and modes in the middle of a batch and on the    *)
(* way out of failures.  Still each thread has it exactly where it counts  *)
(* on it: nobody asks for a lock it has, which would be waiting for        *)
(* itself, waits in epoll_wait() with it, or gives back one it has not.    *)
LockBalanced ==
  /\ \A w \in Worker :
       pc[w] # "crash" => (pc[w] \in Holding <=> w \in readers \/ writer = w)
  /\ main # "crash" => (main = "report" <=> Main \in readers)

(* Two workers that meet the same new sender at the same time, or one that *)
(* lost the lock between its two lookups, create one tap for it.           *)
OneTapPerEndpoint ==
  \A i, j \in 0..(num_tap_devs - 1) : tap_devs[i].ep = tap_devs[j].ep => i = j

(* The map and the tap table, updated one after the other, agree whenever  *)
(* they are read, and a datagram is written to the tap of its own sender,  *)
(* though tap_id is kept across an unlock and a map that endpoint_map_add() *)
(* left half-way may name any of the sender's taps.  Only a stale t->map   *)
(* breaks it.                                                              *)
Routing ==
  map_state # "stale" =>
    /\ \A e \in Endpoint :
         map[e] # -1 => map[e] < num_tap_devs /\ tap_devs[map[e]].ep = e
    /\ \A w \in Worker :
         pc[w] = "deliver" => tap[w] \in 0..(num_tap_devs - 1) /\ tap_devs[tap[w]].ep = pkt[w]

(* A tap is registered with the other workers' epoll before its slot is    *)
(* complete; a worker that handles one of its events finds the slot there, *)
(* with its stats, and the device the event came from.                     *)
EventTapReady ==
  \A w \in Worker :
    pc[w] = "tap" =>
      cur[w].tap < num_tap_devs /\ tap_devs[cur[w].tap].dev = cur[w].dev

\* The registrations of worker w that epoll or w itself still has.
InHand(w) == armed[w] \cup batch[w] \cup (IF pc[w] \in InEvent THEN {cur[w]} ELSE {})

(* No wakeup is lost: every one-shot registration - the socket's, and each *)
(* tap's with each worker - is armed, or with the worker that will arm it. *)
NoLostWakeup ==
  \A w \in Worker :
    /\ UdpEvent \in InHand(w)
    /\ \A i \in 0..(num_tap_devs - 1) : TapEvent(i, tap_devs[i].dev) \in InHand(w)

(* The slot a worker fills, and every tap in use, is inside the table that *)
(* realloc() last returned.                                                *)
TableFits ==
  /\ num_tap_devs <= tap_devs_allocated
  /\ \A w \in Worker : pc[w] = "register" => tap[w] < tap_devs_allocated

\* Who may have a tap.
Admitted == Allowed \cup ({Default} \ {NoEndpoint})

(* The allow list is asked before the read lock is dropped, the tap is     *)
(* made later under the write lock, for the sender in a buffer that lives  *)
(* on: only admitted senders ever get a tap, and nobody else's datagram    *)
(* reaches one unless t->map is stale.                                     *)
OnlyAdmittedServed ==
  /\ \A i \in 0..(num_tap_devs - 1) : tap_devs[i].ep \in Admitted
  /\ map_state # "stale" => \A w \in Worker : pc[w] = "deliver" => pkt[w] \in Admitted

(* A tap, once in use, keeps its slot, its device and its sender through   *)
(* every realloc() and every failed creation of another one.  A sender     *)
(* that is bound to a tap stays bound to that one, and is found, while the *)
(* map is sound; that ends only inside endpoint_map_add(), in a worker     *)
(* that found the map full: by moving it, or by a malloc() that fails once *)
(* it is doubled.                                                          *)
TapsAreKept ==
  [][/\ num_tap_devs' >= num_tap_devs
     /\ \A i \in 0..(num_tap_devs - 1) : tap_devs'[i] = tap_devs[i]
     /\ MapSound => \A e \in Bound : map'[e] = map[e]
     /\ MapSound /\ ~MapSound' => MapFull /\ \E w \in Worker : pc[w] = "mapadd"]_vars

(* README.md:172: "For each remote host that connects to the central host, *)
(* a new tap interface will be created".                                   *)
AllowedGetsTap ==
  \A e \in Allowed :
    (\E q \in Worker, i \in 1..QueueLen : i <= Len(udpq[q]) /\ udpq[q][i] = e) ~> (map[e] # -1)

(* Once the network is quiet everything is forwarded and every worker is   *)
(* back in epoll_wait(): no lock, wakeup or event is left behind.          *)
Drains ==
  <>[](/\ frames = {}
       /\ \A w \in Worker : udpq[w] = <<>> /\ pc[w] = "wait"
       /\ writer = Nobody)
=============================================================================
