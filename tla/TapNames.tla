------------------------------ MODULE TapNames ------------------------------
(***************************************************************************)
(* net_create_tap_mq_fds() (src/src/net.c): the tunnels of one process     *)
(* create taps under the same base name.  A tunnel's write lock lets one   *)
(* of its workers in here at a time (TableExclusive of Tunnel); it does    *)
(* not keep out the workers of another tunnel.  What the kernel does on    *)
(* TUNSETIFF, SIOCBRADDBR, SIOCBRADDIF and close() is modelled from how    *)
(* the code uses it.  A device is known by the number after the base name. *)
(***************************************************************************)
EXTENDS Integers, FiniteSets, FiniteSetsExt

CONSTANTS
  Creator,        \* the tunnels
  Queues,         \* num_queues
  Taps,           \* bound: taps each tunnel creates
  Foreign,        \* numbers of the devices other programs have
  BaseLen,        \* strlen(base_tap_dev)
  Bridged,        \* whether bridge_name is configured, the same for all
  MaxFaults       \* bound: calls that fail without another tunnel's doing

ASSUME TapNamesAssumption ==
  /\ Queues \in Nat \ {0} /\ Taps \in Nat
  /\ Foreign \subseteq Nat /\ IsFiniteSet(Foreign)
  /\ BaseLen \in Nat /\ MaxFaults \in Nat
  /\ Bridged \in BOOLEAN

VARIABLES
  pc,             \* where each tunnel is in net_create_tap_mq_fds()
  num,            \* the number in its tap_name
  i,              \* queues it has opened for the tap it creates
  taps,           \* how many taps it has
  fds,            \* open queues: of which tap of which tunnel, on which device
  bridge,         \* whether the bridge exists
  ports,          \* devices that are ports of the bridge
  up,             \* devices that are up
  faults          \* faults so far

vars == <<pc, num, i, taps, fds, bridge, ports, up, faults>>

Devices == Foreign \cup {f.dev : f \in fds}

\* fds[0..i-1] of the tap c creates.
Opened(c) == {f \in fds : f.owner = c /\ f.tap = taps[c]}

Goto(c, l) == pc' = [pc EXCEPT ![c] = l]

Fault == faults < MaxFaults /\ faults' = faults + 1

-----------------------------------------------------------------------------
IFNAMSIZ == 16

Digits(n) == CHOOSE d \in 1..(n + 1) : n < 10^d /\ (d = 1 \/ n >= 10^(d - 1))

NameLen(n) == BaseLen + Digits(n)

\* Mutant: one character less is copied.
CtlNameShort(n) ==
  IF NameLen(n) <= IFNAMSIZ - 3 THEN n ELSE IF n < 10 THEN -1 ELSE n \div 10

\* The device the ioctls on ctl_fd reach: strlcpy(.., IFNAMSIZ - 1) keeps all but
\* the last character of the longest names, which leaves another number or none.
CtlName(n) ==
  IF NameLen(n) <= IFNAMSIZ - 2 THEN n ELSE IF n < 10 THEN -1 ELSE n \div 10

-----------------------------------------------------------------------------
\* /proc/net/dev is read: one more than the highest number, 0 if it cannot be
\* opened.  A name that is too long is refused.
ChooseName(c) ==
  /\ pc[c] = "idle"
  /\ taps[c] < Taps
  /\ \/ UNCHANGED faults /\ num' = [num EXCEPT ![c] = Max({-1} \cup Devices) + 1]
     \/ Fault /\ num' = [num EXCEPT ![c] = 0]
  /\ NameLen(num'[c]) < IFNAMSIZ
  /\ i' = [i EXCEPT ![c] = 0]
  /\ Goto(c, "open")
  /\ UNCHANGED <<taps, fds, bridge, ports, up>>

\* Mutant: the loop runs once too often.
OpenQueueOver(c) ==
  /\ pc[c] = "open"
  /\ i[c] <= Queues
  /\ num[c] \notin Foreign
  /\ fds' = fds \cup {[owner |-> c, tap |-> taps[c], queue |-> i[c], dev |-> num[c]]}
  /\ i' = [i EXCEPT ![c] = @ + 1]
  /\ UNCHANGED <<pc, num, taps, bridge, ports, up, faults>>

\* open() and TUNSETIFF make the device, or add a queue to the one of that name.
OpenQueue(c) ==
  /\ pc[c] = "open"
  /\ i[c] < Queues
  /\ num[c] \notin Foreign
  /\ fds' = fds \cup {[owner |-> c, tap |-> taps[c], queue |-> i[c], dev |-> num[c]]}
  /\ i' = [i EXCEPT ![c] = @ + 1]
  /\ UNCHANGED <<pc, num, taps, bridge, ports, up, faults>>

\* TUNSETIFF refuses a device that is no multi-queue tap.
OpenRefused(c) ==
  /\ pc[c] = "open"
  /\ i[c] < Queues
  /\ num[c] \in Foreign
  /\ Goto(c, "error")
  /\ UNCHANGED <<num, i, taps, fds, bridge, ports, up, faults>>

\* SIOCGIFINDEX, SIOCSIFMTU.
FindDevice(c) ==
  /\ pc[c] = "open"
  /\ i[c] = Queues
  /\ Goto(c, IF CtlName(num[c]) \notin Devices THEN "error" ELSE IF Bridged THEN "findbr" ELSE "up")
  /\ UNCHANGED <<num, i, taps, fds, bridge, ports, up, faults>>

FindBridge(c) ==
  /\ pc[c] = "findbr"
  /\ Goto(c, IF bridge THEN "addif" ELSE "addbr")
  /\ UNCHANGED <<num, i, taps, fds, bridge, ports, up, faults>>

\* SIOCBRADDBR and the new bridge is set up; EEXIST if another tunnel was faster.
AddBridge(c) ==
  /\ pc[c] = "addbr"
  /\ Goto(c, IF bridge THEN "error" ELSE "addif")
  /\ bridge' = TRUE
  /\ UNCHANGED <<num, i, taps, fds, ports, up, faults>>

\* Mutant: EBUSY is ignored.
AddPortAnyway(c) ==
  /\ pc[c] = "addif"
  /\ Goto(c, IF CtlName(num[c]) \in Devices THEN "up" ELSE "error")
  /\ ports' = ports \cup ({CtlName(num[c])} \cap Devices)
  /\ UNCHANGED <<num, i, taps, fds, bridge, up, faults>>

\* SIOCBRADDIF; EBUSY if the device is a port already, ENODEV if it is gone.
AddPort(c) ==
  /\ pc[c] = "addif"
  /\ Goto(c, IF CtlName(num[c]) \in Devices \ ports THEN "up" ELSE "error")
  /\ ports' = ports \cup ({CtlName(num[c])} \cap Devices)
  /\ UNCHANGED <<num, i, taps, fds, bridge, up, faults>>

\* SIOCSIFFLAGS, and the tap goes to tunnel_alloc_new_tap().
SetUp(c) ==
  /\ pc[c] = "up"
  /\ IF CtlName(num[c]) \in Devices
     THEN /\ up' = up \cup {CtlName(num[c])}
          /\ taps' = [taps EXCEPT ![c] = @ + 1]
          /\ Goto(c, "idle")
     ELSE Goto(c, "error") /\ UNCHANGED <<up, taps>>
  /\ UNCHANGED <<num, i, fds, bridge, ports, faults>>

\* Any call fails for a reason of its own.  A bridge just made stays.
CallFails(c) ==
  /\ pc[c] \notin {"idle", "error"}
  /\ Fault
  /\ Goto(c, "error")
  /\ UNCHANGED <<num, i, taps, fds, bridge, ports, up>>

\* Mutant: the loop over j starts at 1.
CloseAllButFirst(c) ==
  /\ pc[c] = "error"
  /\ fds' = fds \ {f \in Opened(c) : f.queue # 0}
  /\ ports' = ports \cap Devices'
  /\ up' = up \cap Devices'
  /\ Goto(c, "idle")
  /\ UNCHANGED <<num, i, taps, bridge, faults>>

\* Mutant: the device is removed instead of its queues closed.
CloseAllOfName(c) ==
  /\ pc[c] = "error"
  /\ fds' = {f \in fds : f.dev # num[c]}
  /\ ports' = ports \cap Devices'
  /\ up' = up \cap Devices'
  /\ Goto(c, "idle")
  /\ UNCHANGED <<num, i, taps, bridge, faults>>

\* What was opened is closed; a device goes with its last queue.
CloseOpened(c) ==
  /\ pc[c] = "error"
  /\ fds' = fds \ Opened(c)
  /\ ports' = ports \cap Devices'
  /\ up' = up \cap Devices'
  /\ Goto(c, "idle")
  /\ UNCHANGED <<num, i, taps, bridge, faults>>

-----------------------------------------------------------------------------
Init ==
  /\ pc = [c \in Creator |-> "idle"]
  /\ num = [c \in Creator |-> 0]
  /\ i = [c \in Creator |-> 0]
  /\ taps = [c \in Creator |-> 0]
  /\ fds = {}
  /\ bridge \in IF Bridged THEN BOOLEAN ELSE {FALSE}
  /\ ports = {}
  /\ up = {}
  /\ faults = 0

Step(c) ==
  \/ ChooseName(c) \/ OpenQueue(c) \/ OpenRefused(c) \/ FindDevice(c)
  \/ FindBridge(c) \/ AddBridge(c) \/ AddPort(c) \/ SetUp(c)
  \/ CallFails(c) \/ CloseOpened(c)

Next == \E c \in Creator : Step(c)

Spec == Init /\ [][Next]_vars

(* A sender that found no tap sends again, so its tunnel tries again; and  *)
(* a thread that can run does.                                             *)
FairSpec == Spec /\ \A c \in Creator : WF_vars(Step(c))

-----------------------------------------------------------------------------
TypeOK ==
  /\ pc \in [Creator -> {"idle", "open", "findbr", "addbr", "addif", "up", "error"}]
  /\ num \in [Creator -> Nat]
  /\ i \in [Creator -> 0..Queues]
  /\ taps \in [Creator -> 0..Taps]
  /\ fds \subseteq [owner : Creator, tap : 0..Taps, queue : 0..(Queues - 1), dev : Nat]
  /\ bridge \in BOOLEAN
  /\ ports \cup up \subseteq Devices
  /\ faults \in 0..MaxFaults

Complete(f) == f.tap < taps[f.owner]

(* README.md:107: "The number postfixed is automatically incremeneted from *)
(* available free interface names, so multiple tunnels can use the same    *)
(* base name": tunnels that read /proc/net/dev at the same moment choose   *)
(* the same number, and TUNSETIFF lets the second join the first one's     *)
(* device; still no two taps that were completed share a device.           *)
OwnDevice ==
  \A f, g \in fds :
    Complete(f) /\ Complete(g) /\ f.dev = g.dev => f.owner = g.owner /\ f.tap = g.tap

(* A completed tap has all its queues, on one device, which is up and, if  *)
(* there is a bridge, a port of it, whatever the creations of other        *)
(* tunnels did to that device meanwhile and whoever made it.               *)
TapWhole ==
  \A c \in Creator : \A k \in 0..(taps[c] - 1) :
    \E d \in (IF Bridged THEN ports ELSE Devices) \cap up :
      \A q \in 0..(Queues - 1) : [owner |-> c, tap |-> k, queue |-> q, dev |-> d] \in fds

(* A creation that failed, at whatever call, leaves no queue open: an open *)
(* one would keep the device and take frames that nobody reads.            *)
NoLeftovers == \A c \in Creator : pc[c] = "idle" => Opened(c) = {}

(* Creations that spoil each other's do not do so forever: every tunnel    *)
(* gets its taps.                                                          *)
EveryTapMade == <>[](\A c \in Creator : taps[c] = Taps)
=============================================================================
