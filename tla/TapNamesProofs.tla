-------------------------- MODULE TapNamesProofs ----------------------------
(* What TapNames promises for every number of tunnels, taps and queues.    *)
EXTENDS TapNames, FiniteSetTheorems, WellFoundedInduction, TLAPS

Record(c, k, q, d) == [owner |-> c, tap |-> k, queue |-> q, dev |-> d]

\* Past the loop over the queues.
Made == {"findbr", "addbr", "addif", "up"}

TypeInv ==
  /\ pc \in [Creator -> {"idle", "open", "error"} \cup Made]
  /\ num \in [Creator -> Nat]
  /\ i \in [Creator -> 0..Queues]
  /\ taps \in [Creator -> 0..Taps]
  /\ fds \subseteq [owner : Creator, tap : 0..Taps, queue : 0..(Queues - 1), dev : Nat]
  /\ bridge \in BOOLEAN
  /\ ports \subseteq Devices
  /\ up \subseteq Devices
  /\ faults \in 0..MaxFaults
  /\ \A c \in Creator : pc[c] # "idle" => taps[c] < Taps

\* Device numbers do not run away: there is a highest one to add one to.
Bounded == \E m \in Nat : \A d \in Devices : d <= m

\* The queues of a creation are on one device and belong to a tap in the making.
QueuesInv ==
  /\ \A f \in fds : f.tap <= taps[f.owner]
  /\ \A f \in fds : f.tap = taps[f.owner] => f.dev = num[f.owner] /\ pc[f.owner] # "idle"
  /\ \A c \in Creator :
       /\ pc[c] = "open" => \A q \in 0..(i[c] - 1) : Record(c, taps[c], q, num[c]) \in fds
       /\ pc[c] \in Made => \A q \in 0..(Queues - 1) : Record(c, taps[c], q, num[c]) \in fds

\* The tap f belongs to has made its device a port of the bridge.
Claimed(f) == f.tap < taps[f.owner] \/ (f.tap = taps[f.owner] /\ pc[f.owner] = "up")

\* A port has one claimant: it stays a port as long as that one's queues are open.
ClaimInv ==
  Bridged =>
    /\ \A f \in fds : Claimed(f) => f.dev \in ports
    /\ \A f, g \in fds : Claimed(f) /\ Claimed(g) /\ f.dev = g.dev => f.owner = g.owner /\ f.tap = g.tap

\* All names are short enough for the ioctls on ctl_fd.
ShortNames == \A c \in Creator : CtlName(num[c]) = num[c]

-----------------------------------------------------------------------------
(* Arithmetic: bounded sets of naturals have a maximum, and finite ones    *)
(* are bounded.                                                            *)

LEMMA LeastNat == ASSUME NEW T, T \subseteq Nat, T # {} PROVE \E x \in T : \A y \in T : x <= y
PROOF
<1>1. PICK x \in T : \A y \in T : ~ (<<y, x>> \in OpToRel(<, Nat))
  BY WFMin, NatLessThanWellFounded
<1>2. x \in T /\ \A y \in T : ~(y < x)
  BY <1>1 DEF OpToRel
<1> QED BY <1>2

LEMMA MaxNext ==
  ASSUME NEW S, S \subseteq Nat, NEW m \in Nat, \A d \in S : d <= m
  PROVE  Max({-1} \cup S) + 1 \in Nat
PROOF
<1> DEFINE X == {-1} \cup S
<1>1. \E x \in X : \A y \in X : x >= y
  <2>1. CASE S = {}
    BY <2>1
  <2>2. CASE S # {}
    <3> DEFINE T == {b \in Nat : \A d \in S : d <= b}
    <3>1. PICK b \in T : \A y \in T : b <= y
      <4>1. T \subseteq Nat /\ T # {}
        OBVIOUS
      <4> HIDE DEF T
      <4> QED BY <4>1, LeastNat
    <3>2. b \in S
      <4> SUFFICES ASSUME b \notin S PROVE FALSE
        OBVIOUS
      <4>1. \A d \in S : d < b
        BY <3>1
      <4>2. b > 0
        <5>1. PICK d \in S : TRUE
          BY <2>2
        <5>2. d \in Nat /\ b \in Nat /\ d < b
          BY <4>1, <5>1
        <5> QED BY <5>2
      <4>3. b - 1 \in T
        BY <4>1, <4>2
      <4> QED BY <3>1, <4>3
    <3> QED BY <3>1, <3>2
  <2> QED BY <2>1, <2>2
<1>2. Max(X) \in X
  BY <1>1 DEF Max
<1>3. X \subseteq Int /\ \A x \in X : x + 1 \in Nat
  OBVIOUS
<1> HIDE DEF X
<1>4. Max(X) + 1 \in Nat
  BY <1>2, <1>3
<1> QED BY <1>4 DEF X

LEMMA FiniteBounded ==
  ASSUME NEW S, S \subseteq Nat, IsFiniteSet(S)
  PROVE  \E m \in Nat : \A d \in S : d <= m
PROOF
<1> DEFINE Bad == {A \in SUBSET S : ~ \E m \in Nat : \A d \in A : d <= m}
           Sizes == {Cardinality(A) : A \in Bad}
<1> SUFFICES ASSUME S \in Bad PROVE FALSE
  OBVIOUS
<1>1. \A A \in Bad : IsFiniteSet(A) /\ Cardinality(A) \in Nat
  BY FS_Subset, FS_CardinalityType
<1>2. PICK n \in Sizes : \A k \in Sizes : n <= k
  <2>1. Sizes \subseteq Nat /\ Sizes # {}
    BY <1>1
  <2> HIDE DEF Sizes
  <2> QED BY <2>1, LeastNat
<1>3. PICK A \in Bad : n = Cardinality(A)
  BY <1>2
<1>4. PICK x \in A : TRUE
  <2>1. A # {}
    BY <1>3
  <2> QED BY <2>1
<1>5. Cardinality(A \ {x}) = n - 1
  BY <1>1, <1>3, <1>4, FS_RemoveElement
<1>6. A \ {x} \in Bad
  <2> SUFFICES ASSUME NEW m \in Nat, \A d \in A \ {x} : d <= m PROVE FALSE
    BY <1>3
  <2>1. x \in Nat
    BY <1>3, <1>4
  <2>2. PICK b \in Nat : b >= m /\ b >= x
    BY <2>1
  <2>3. \A d \in A : d <= b
    BY <1>3, <2>1, <2>2
  <2> QED BY <1>3, <2>2, <2>3
<1>7. n - 1 \in Sizes
  BY <1>5, <1>6
<1>8. n \in Nat
  BY <1>1, <1>3
<1> QED BY <1>2, <1>7, <1>8

-----------------------------------------------------------------------------
IInv == TypeInv /\ Bounded /\ QueuesInv

LEMMA InitInv == Init => IInv
PROOF
<1> SUFFICES ASSUME Init PROVE IInv
  OBVIOUS
<1> USE TapNamesAssumption
<1>1. TypeInv
  <2>1. /\ pc \in [Creator -> {"idle", "open", "error"} \cup Made] /\ num \in [Creator -> Nat]
        /\ i \in [Creator -> 0..Queues] /\ taps \in [Creator -> 0..Taps]
    BY DEF Init
  <2>2. fds = {} /\ ports = {} /\ up = {} /\ faults \in 0..MaxFaults
    BY DEF Init
  <2>3. bridge \in BOOLEAN
    BY DEF Init
  <2>4. \A c \in Creator : pc[c] = "idle"
    BY DEF Init
  <2> QED BY <2>1, <2>2, <2>3, <2>4 DEF TypeInv
<1>2. Bounded
  <2>1. PICK m \in Nat : \A d \in Foreign : d <= m
    BY FiniteBounded
  <2>2. Devices = Foreign
    BY DEF Init, Devices
  <2> QED BY <2>1, <2>2 DEF Bounded
<1>3. QueuesInv
  BY DEF Init, QueuesInv, Made
<1> QED BY <1>1, <1>2, <1>3 DEF IInv

\* A step that opens no queue leaves the devices, or takes some away.
LEMMA FewerDevices == ASSUME Bounded, fds' \subseteq fds PROVE Bounded' /\ Devices' \subseteq Devices
PROOF
<1>1. Devices' \subseteq Devices
  BY DEF Devices
<1> QED BY <1>1 DEF Bounded

LEMMA ChooseNameInv == ASSUME IInv, NEW c \in Creator, ChooseName(c) PROVE IInv'
PROOF
<1> USE DEF IInv, ChooseName, Goto
<1>1. Bounded' /\ Devices' = Devices
  BY FewerDevices DEF Devices
<1>2. num' \in [Creator -> Nat] /\ faults' \in 0..MaxFaults
  <2>1. PICK m \in Nat : \A d \in Devices : d <= m
    BY DEF Bounded
  <2>2. Devices \subseteq Nat
    BY TapNamesAssumption DEF Devices, TypeInv
  <2>3. Max({-1} \cup Devices) + 1 \in Nat
    BY <2>1, <2>2, MaxNext
  <2> HIDE DEF IInv
  <2>4. num \in [Creator -> Nat] /\ faults \in 0..MaxFaults
    BY DEF IInv, TypeInv
  <2>5. CASE UNCHANGED faults /\ num' = [num EXCEPT ![c] = Max({-1} \cup Devices) + 1]
    BY <2>3, <2>4, <2>5
  <2>6. CASE Fault /\ num' = [num EXCEPT ![c] = 0]
    BY <2>4, <2>6, TapNamesAssumption DEF Fault
  <2> QED BY <2>5, <2>6
<1>3. TypeInv'
  BY <1>1, <1>2, TapNamesAssumption DEF TypeInv
<1>4. \A x \in Creator : x # c => num'[x] = num[x]
  BY DEF TypeInv
<1>5. QueuesInv'
  BY <1>3, <1>4 DEF TypeInv, QueuesInv, Record, Made
<1> QED BY <1>1, <1>3, <1>5

LEMMA OpenQueueInv == ASSUME IInv, NEW c \in Creator, OpenQueue(c) PROVE IInv'
PROOF
<1> DEFINE r == Record(c, taps[c], i[c], num[c])
<1>1. fds' = fds \cup {r}
  BY DEF OpenQueue, Record
<1>2. Devices' = Devices \cup {num[c]}
  <2>1. r.dev = num[c]
    BY DEF Record
  <2> HIDE DEF r
  <2>2. {f.dev : f \in fds'} = {f.dev : f \in fds} \cup {r.dev}
    BY <1>1
  <2> QED BY <2>1, <2>2 DEF Devices
<1>3. Bounded'
  <2>1. PICK m \in Nat : \A d \in Devices : d <= m
    BY DEF IInv, Bounded
  <2>2. num[c] \in Nat
    BY DEF IInv, TypeInv
  <2>3. Devices \subseteq Nat
    BY TapNamesAssumption DEF Devices, IInv, TypeInv
  <2>4. PICK b \in Nat : b >= m /\ b >= num[c]
    BY <2>2
  <2> QED BY <1>2, <2>1, <2>2, <2>3, <2>4 DEF Bounded
<1>4. r \in [owner : Creator, tap : 0..Taps, queue : 0..(Queues - 1), dev : Nat]
  BY TapNamesAssumption DEF IInv, TypeInv, OpenQueue, Record
<1>5. TypeInv'
  <2> HIDE DEF r
  <2> QED BY <1>1, <1>2, <1>4, TapNamesAssumption DEF IInv, TypeInv, OpenQueue
<1>6. QueuesInv'
  <2>1. \A f \in fds' : f.tap <= taps'[f.owner]
    BY <1>1, TapNamesAssumption DEF IInv, TypeInv, QueuesInv, OpenQueue, Record
  <2>2. \A f \in fds' : f.tap = taps'[f.owner] => f.dev = num'[f.owner] /\ pc'[f.owner] # "idle"
    BY <1>1 DEF IInv, QueuesInv, OpenQueue, Record
  <2>3. \A x \in Creator : pc'[x] = "open" => \A q \in 0..(i'[x] - 1) : Record(x, taps'[x], q, num'[x]) \in fds'
    <3> SUFFICES ASSUME NEW x \in Creator, pc'[x] = "open", NEW q \in 0..(i'[x] - 1)
                 PROVE  Record(x, taps'[x], q, num'[x]) \in fds'
      OBVIOUS
    <3>1. CASE x = c
      <4>1. q \in 0..(i[c] - 1) \/ q = i[c]
        BY <3>1, TapNamesAssumption DEF IInv, TypeInv, OpenQueue
      <4> QED BY <1>1, <3>1, <4>1 DEF IInv, QueuesInv, OpenQueue
    <3>2. CASE x # c
      BY <1>1, <3>2 DEF IInv, TypeInv, QueuesInv, OpenQueue
    <3> QED BY <3>1, <3>2
  <2>4. \A x \in Creator : pc'[x] \in Made => \A q \in 0..(Queues - 1) : Record(x, taps'[x], q, num'[x]) \in fds'
    BY <1>1 DEF IInv, QueuesInv, OpenQueue
  <2> QED BY <2>1, <2>2, <2>3, <2>4 DEF QueuesInv
<1> QED BY <1>3, <1>5, <1>6 DEF IInv

\* The steps between the loop over the queues and the last call.
LEMMA MiddleInv ==
  ASSUME IInv, NEW c \in Creator,
         NEW l \in {"error"} \cup Made,
         pc[c] # "idle",
         pc[c] = "open" /\ l \in Made => i[c] = Queues,
         pc[c] = "error" => l = "error",
         Goto(c, l),
         faults' \in 0..MaxFaults, bridge' \in BOOLEAN,
         ports' \subseteq Devices, up' \subseteq Devices,
         UNCHANGED <<num, i, taps, fds>>
  PROVE  IInv'
PROOF
<1>1. Bounded' /\ Devices' = Devices
  BY FewerDevices DEF Devices, IInv
<1>2. TypeInv'
  BY <1>1 DEF IInv, TypeInv, Goto
<1>3. QueuesInv'
  <2>1. \A x \in Creator : x # c => pc'[x] = pc[x]
    BY DEF IInv, TypeInv, Goto
  <2>2. pc'[c] = l
    BY DEF IInv, TypeInv, Goto
  <2>3. pc[c] \in {"open", "error"} \cup Made
    BY DEF IInv, TypeInv
  <2>4. ASSUME l \in Made PROVE \A q \in 0..(Queues - 1) : Record(c, taps[c], q, num[c]) \in fds
    BY <2>3, <2>4 DEF IInv, QueuesInv, Made
  <2>5. \A f \in fds : f.tap = taps[f.owner] => pc'[f.owner] # "idle"
    BY <2>1, <2>2 DEF IInv, QueuesInv, TypeInv, Made
  <2> QED BY <2>1, <2>2, <2>4, <2>5 DEF IInv, QueuesInv, Made
<1> QED BY <1>1, <1>2, <1>3 DEF IInv

LEMMA FailsInv == ASSUME IInv, NEW c \in Creator, OpenRefused(c) \/ CallFails(c) PROVE IInv'
PROOF
<1>1. faults' \in 0..MaxFaults
  BY TapNamesAssumption DEF OpenRefused, CallFails, Fault, IInv, TypeInv
<1>2. UNCHANGED <<num, i, taps, fds>> /\ Goto(c, "error") /\ pc[c] # "idle"
  BY DEF OpenRefused, CallFails
<1>3. ports' \subseteq Devices /\ up' \subseteq Devices /\ bridge' \in BOOLEAN
  BY DEF OpenRefused, CallFails, IInv, TypeInv
<1>4. "error" \notin Made
  BY DEF Made
<1> QED BY <1>1, <1>2, <1>3, <1>4, MiddleInv

LEMMA CallsInv ==
  ASSUME IInv, NEW c \in Creator, FindDevice(c) \/ FindBridge(c) \/ AddBridge(c) \/ AddPort(c)
  PROVE  IInv'
PROOF
<1>1. CASE FindDevice(c)
  <2>1. PICK l \in {"error"} \cup Made : Goto(c, l)
    BY <1>1 DEF FindDevice, Made
  <2> QED BY <1>1, <2>1, MiddleInv DEF FindDevice, IInv, TypeInv
<1>2. CASE FindBridge(c)
  <2>1. PICK l \in {"error"} \cup Made : Goto(c, l)
    BY <1>2 DEF FindBridge, Made
  <2> QED BY <1>2, <2>1, MiddleInv DEF FindBridge, IInv, TypeInv
<1>3. CASE AddBridge(c)
  <2>1. PICK l \in {"error"} \cup Made : Goto(c, l)
    BY <1>3 DEF AddBridge, Made
  <2> QED BY <1>3, <2>1, MiddleInv DEF AddBridge, IInv, TypeInv
<1>4. CASE AddPort(c)
  <2>1. PICK l \in {"error"} \cup Made : Goto(c, l)
    BY <1>4 DEF AddPort, Made
  <2>2. ports' \subseteq Devices
    BY <1>4 DEF AddPort, IInv, TypeInv
  <2> QED BY <1>4, <2>1, <2>2, MiddleInv DEF AddPort, IInv, TypeInv
<1> QED BY <1>1, <1>2, <1>3, <1>4

LEMMA SetUpInv == ASSUME IInv, NEW c \in Creator, SetUp(c) PROVE IInv'
PROOF
<1>1. CASE CtlName(num[c]) \notin Devices
  <2>1. Goto(c, "error") /\ pc[c] = "up" /\ UNCHANGED <<num, i, taps, fds, bridge, ports, up, faults>>
    BY <1>1 DEF SetUp
  <2>2. "error" \notin Made
    BY DEF Made
  <2> QED BY <2>1, <2>2, MiddleInv DEF IInv, TypeInv
<1>2. CASE CtlName(num[c]) \in Devices
  <2>1. Bounded' /\ Devices' = Devices
    BY FewerDevices DEF SetUp, Devices, IInv
  <2>2. /\ pc' = [pc EXCEPT ![c] = "idle"]
        /\ taps' = [taps EXCEPT ![c] = @ + 1]
        /\ up' = up \cup {CtlName(num[c])}
        /\ UNCHANGED <<num, i, fds, bridge, ports, faults>>
        /\ pc[c] = "up"
    BY <1>2 DEF SetUp, Goto
  <2>3. taps[c] \in 0..Taps /\ taps[c] < Taps
    BY <2>2 DEF IInv, TypeInv
  <2>4. TypeInv'
    BY <1>2, <2>1, <2>2, <2>3, TapNamesAssumption DEF IInv, TypeInv
  <2>5. QueuesInv'
    <3>1. \A f \in fds : f.owner \in Creator /\ f.tap \in Nat
      BY TapNamesAssumption DEF IInv, TypeInv
    <3>2. \A x \in Creator : taps[x] \in Nat /\ taps'[x] = (IF x = c THEN taps[x] + 1 ELSE taps[x])
      BY <2>2, TapNamesAssumption DEF IInv, TypeInv
    <3>3. \A x \in Creator : pc'[x] = (IF x = c THEN "idle" ELSE pc[x])
      BY <2>2 DEF IInv, TypeInv
    <3> QED BY <2>2, <3>1, <3>2, <3>3 DEF IInv, QueuesInv, Made
  <2> QED BY <2>1, <2>4, <2>5 DEF IInv
<1> QED BY <1>1, <1>2

LEMMA CloseInv == ASSUME IInv, NEW c \in Creator, CloseOpened(c) PROVE IInv'
PROOF
<1>1. Bounded' /\ Devices' \subseteq Devices
  BY FewerDevices DEF CloseOpened, IInv
<1>2. TypeInv'
  BY <1>1 DEF CloseOpened, Goto, IInv, TypeInv
<1>3. QueuesInv'
  <2>1. \A x \in Creator : pc'[x] = (IF x = c THEN "idle" ELSE pc[x])
    BY DEF CloseOpened, Goto, IInv, TypeInv
  <2>2. \A f \in fds' : f \in fds /\ f.owner \in Creator /\ ~(f.owner = c /\ f.tap = taps[c])
    BY DEF CloseOpened, Opened, IInv, TypeInv
  <2>3. \A f \in fds : f.owner # c => f \in fds'
    BY DEF CloseOpened, Opened
  <2>4. \A x, k, q, d : Record(x, k, q, d).owner = x
    BY DEF Record
  <2>5. UNCHANGED <<num, i, taps>>
    BY DEF CloseOpened
  <2> QED BY <2>1, <2>2, <2>3, <2>4, <2>5 DEF IInv, QueuesInv, Made
<1> QED BY <1>1, <1>2, <1>3 DEF IInv

LEMMA NextInv == IInv /\ [Next]_vars => IInv'
PROOF
<1> SUFFICES ASSUME IInv, [Next]_vars PROVE IInv'
  OBVIOUS
<1>1. ASSUME NEW c \in Creator, Step(c) PROVE IInv'
  BY <1>1, ChooseNameInv, OpenQueueInv, FailsInv, CallsInv, SetUpInv, CloseInv DEF Step
<1>2. CASE UNCHANGED vars
  BY <1>2 DEF vars, IInv, TypeInv, Bounded, Devices, QueuesInv
<1> QED BY <1>1, <1>2 DEF Next

LEMMA Invariant == Spec => []IInv
PROOF
<1> QED BY InitInv, NextInv, PTL DEF Spec

(* net_create_tap_mq_fds(): the variables keep their types, loop counters  *)
(* their ranges, and the bridge and the flags only know devices that       *)
(* exist.                                                                  *)
THEOREM TypeCorrect == Spec => []TypeOK
PROOF
<1>1. IInv => TypeOK
  BY DEF IInv, TypeInv, TypeOK, Made
<1> QED BY <1>1, Invariant, PTL

(* The error path of net_create_tap_mq_fds(): no creation that failed,     *)
(* with any number of tunnels and queues, leaves a queue open.             *)
THEOREM NeverLeftovers == Spec => []NoLeftovers
PROOF
<1>1. IInv => NoLeftovers
  BY DEF IInv, QueuesInv, NoLeftovers, Opened
<1> QED BY <1>1, Invariant, PTL

-----------------------------------------------------------------------------
\* Steps after which no more queues are claimed than before.
LEMMA NoNewClaim ==
  ASSUME ClaimInv, fds' \subseteq fds,
         \A f \in fds' : Claimed(f)' => Claimed(f),
         \A f \in fds' : f.dev \in ports => f.dev \in ports'
  PROVE  ClaimInv'
PROOF BY DEF ClaimInv

LEMMA ClaimStep ==
  ASSUME IInv, ClaimInv, ShortNames, NEW c \in Creator, Step(c)
  PROVE  ClaimInv'
PROOF
<1> USE DEF Goto
<1>0. /\ pc \in [Creator -> {"idle", "open", "error"} \cup Made] /\ taps \in [Creator -> Nat]
      /\ \A f \in fds : f.owner \in Creator /\ f.tap \in Nat
  BY TapNamesAssumption DEF IInv, TypeInv
<1>1. CASE ChooseName(c) \/ OpenRefused(c) \/ CallFails(c) \/ FindBridge(c) \/ AddBridge(c)
  <2>1. UNCHANGED <<taps, fds, ports>> /\ \A x \in Creator : pc'[x] = "up" => pc[x] = "up"
    BY <1>0, <1>1 DEF ChooseName, OpenRefused, CallFails, FindBridge, AddBridge
  <2> QED BY <1>0, <2>1, NoNewClaim DEF Claimed
<1>2. CASE FindDevice(c)
  <2>1. Bridged => \A x \in Creator : pc'[x] = "up" => pc[x] = "up"
    BY <1>0, <1>2 DEF FindDevice
  <2>2. UNCHANGED <<taps, fds, ports>>
    BY <1>2 DEF FindDevice
  <2> QED BY <1>0, <2>1, <2>2 DEF Claimed, ClaimInv
<1>3. CASE OpenQueue(c)
  <2> DEFINE r == Record(c, taps[c], i[c], num[c])
  <2>1. fds' = fds \cup {r} /\ UNCHANGED <<pc, taps, ports>> /\ pc[c] = "open"
    BY <1>3 DEF OpenQueue, Record
  <2>2. ~Claimed(r)
    BY <1>0, <2>1 DEF Claimed, Record
  <2>3. \A f : Claimed(f)' <=> Claimed(f)
    BY <2>1 DEF Claimed
  <2> HIDE DEF r
  <2> QED BY <2>1, <2>2, <2>3 DEF ClaimInv
<1>4. CASE AddPort(c)
  <2>1. UNCHANGED <<taps, fds>> /\ ports \subseteq ports'
    BY <1>4 DEF AddPort
  <2>2. CASE num[c] \in Devices \ ports
    <3>1. num[c] \in ports' /\ pc' = [pc EXCEPT ![c] = "up"]
      BY <1>4, <2>2 DEF AddPort, ShortNames
    <3>2. \A f \in fds : Claimed(f)' => Claimed(f) \/ (f.owner = c /\ f.tap = taps[c] /\ f.dev = num[c])
      BY <1>0, <2>1, <3>1 DEF Claimed, IInv, QueuesInv
    <3> QED BY <2>1, <2>2, <3>1, <3>2 DEF ClaimInv
  <2>3. CASE num[c] \notin Devices \ ports
    <3>1. pc' = [pc EXCEPT ![c] = "error"]
      BY <1>4, <2>3 DEF AddPort, ShortNames
    <3>2. \A f \in fds : Claimed(f)' => Claimed(f)
      BY <1>0, <2>1, <3>1 DEF Claimed
    <3> QED BY <2>1, <3>2, NoNewClaim
  <2> QED BY <2>2, <2>3
<1>5. CASE SetUp(c)
  <2>1. UNCHANGED <<fds, ports>> /\ pc[c] = "up"
    BY <1>5 DEF SetUp
  <2>2. \A x \in Creator : x # c => taps'[x] = taps[x] /\ pc'[x] = pc[x]
    BY <1>0, <1>5 DEF SetUp
  <2>3. taps'[c] \in {taps[c], taps[c] + 1} /\ pc'[c] # "up"
    BY <1>0, <1>5 DEF SetUp
  <2>4. \A f \in fds : Claimed(f)' => Claimed(f)
    BY <1>0, <2>1, <2>2, <2>3 DEF Claimed
  <2> QED BY <2>1, <2>4, NoNewClaim
<1>6. CASE CloseOpened(c)
  <2>1. fds' \subseteq fds /\ UNCHANGED taps /\ \A x \in Creator : pc'[x] = "up" => pc[x] = "up"
    BY <1>0, <1>6 DEF CloseOpened
  <2>2. \A f \in fds' : f.dev \in ports => f.dev \in ports'
    BY <1>6 DEF CloseOpened, Devices
  <2>3. \A f \in fds' : Claimed(f)' => Claimed(f)
    BY <1>0, <2>1 DEF Claimed
  <2> QED BY <2>1, <2>2, <2>3, NoNewClaim
<1> QED BY <1>1, <1>2, <1>3, <1>4, <1>5, <1>6 DEF Step

LEMMA ClaimNext == IInv /\ ClaimInv /\ ShortNames /\ [Next]_vars => ClaimInv'
PROOF
<1> SUFFICES ASSUME IInv, ClaimInv, ShortNames, [Next]_vars PROVE ClaimInv'
  OBVIOUS
<1>1. CASE Next
  BY <1>1, ClaimStep DEF Next
<1>2. CASE UNCHANGED vars
  BY <1>2 DEF vars, ClaimInv, Claimed
<1> QED BY <1>1, <1>2

LEMMA ClaimInvariant == Spec /\ []ShortNames => []ClaimInv
PROOF
<1>1. Init => ClaimInv
  BY DEF Init, ClaimInv
<1> QED BY <1>1, ClaimNext, Invariant, PTL DEF Spec

(* Tunnels that share a base name and a bridge: however many create taps   *)
(* at once, and whichever of their calls fail, no two completed taps share *)
(* a device, because SIOCBRADDIF lets one claimant in - as long as device  *)
(* names fit what the ioctls get.                                          *)
THEOREM OwnDevices == Spec /\ []ShortNames => [](Bridged => OwnDevice)
PROOF
<1>1. ClaimInv => (Bridged => OwnDevice)
  BY DEF ClaimInv, Claimed, OwnDevice, Complete
<1> QED BY <1>1, ClaimInvariant, PTL

-----------------------------------------------------------------------------
\* Tap k of c is complete on device d.
Whole(c, k, d) ==
  /\ d \in up
  /\ d \in (IF Bridged THEN ports ELSE Devices)
  /\ \A q \in 0..(Queues - 1) : Record(c, k, q, d) \in fds

WholeInv == \A c \in Creator : \A k \in 0..(taps[c] - 1) : \E d : Whole(c, k, d)

LEMMA WholeStep ==
  ASSUME IInv, ClaimInv, ShortNames, WholeInv, NEW c \in Creator, Step(c)
  PROVE  WholeInv'
PROOF
<1> SUFFICES ASSUME NEW x \in Creator, NEW k \in 0..(taps'[x] - 1)
             PROVE  \E d : Whole(x, k, d)'
  BY DEF WholeInv
<1> USE DEF Goto
<1>0. taps \in [Creator -> Nat] /\ Queues \in Nat \ {0}
  BY TapNamesAssumption DEF IInv, TypeInv
<1>1. CASE /\ UNCHANGED taps
           /\ fds \ Opened(c) \subseteq fds'
           /\ \A d \in Devices' : (d \in up => d \in up') /\ (d \in ports => d \in ports')
  <2>1. PICK d : Whole(x, k, d)
    BY <1>1 DEF WholeInv
  <2>2. \A q \in 0..(Queues - 1) : Record(x, k, q, d) \in fds'
    <3>1. k # taps[x]
      BY <1>0, <1>1
    <3>2. \A q \in 0..(Queues - 1) : Record(x, k, q, d) \in fds \ Opened(c)
      BY <2>1, <3>1 DEF Whole, Opened, Record
    <3> QED BY <1>1, <3>2
  <2>3. d \in Devices'
    <3>1. Record(x, k, 0, d) \in fds' /\ Record(x, k, 0, d).dev = d
      BY <1>0, <2>2 DEF Record
    <3> QED BY <3>1 DEF Devices
  <2> QED BY <1>1, <2>1, <2>2, <2>3 DEF Whole
<1>2. CASE SetUp(c) /\ num[c] \in Devices
  <2>1. /\ UNCHANGED <<num, fds, ports>> /\ up' = up \cup {num[c]} /\ pc[c] = "up"
        /\ taps' = [taps EXCEPT ![c] = @ + 1]
    BY <1>2 DEF SetUp, ShortNames
  <2>2. Devices' = Devices
    BY <2>1 DEF Devices
  <2>3. CASE k \in 0..(taps[x] - 1)
    BY <2>1, <2>2, <2>3 DEF WholeInv, Whole
  <2>4. CASE k \notin 0..(taps[x] - 1)
    <3>1. x = c /\ k = taps[c]
      BY <1>0, <2>1, <2>4
    <3>2. \A q \in 0..(Queues - 1) : Record(c, k, q, num[c]) \in fds
      BY <2>1, <3>1 DEF IInv, QueuesInv, Made
    <3>3. Bridged => num[c] \in ports
      <4>1. Record(c, k, 0, num[c]) \in fds /\ Claimed(Record(c, k, 0, num[c]))
            /\ Record(c, k, 0, num[c]).dev = num[c]
        BY <1>0, <2>1, <3>1, <3>2 DEF Claimed, Record
      <4> QED BY <4>1 DEF ClaimInv
    <3>4. Whole(c, k, num[c])'
      BY <1>2, <2>1, <2>2, <3>2, <3>3 DEF Whole
    <3> QED BY <3>1, <3>4
  <2> QED BY <2>3, <2>4
<1>3. CASE SetUp(c) /\ num[c] \notin Devices
  BY <1>1, <1>3 DEF SetUp, ShortNames
<1>4. CASE CloseOpened(c)
  BY <1>1, <1>4 DEF CloseOpened
<1>5. CASE ~SetUp(c) /\ ~CloseOpened(c)
  <2>1. UNCHANGED <<taps, up>> /\ fds \subseteq fds' /\ ports \subseteq ports'
    BY <1>5 DEF Step, ChooseName, OpenQueue, OpenRefused, FindDevice, FindBridge, AddBridge, AddPort, CallFails
  <2> QED BY <1>1, <2>1
<1> QED BY <1>2, <1>3, <1>4, <1>5

LEMMA WholeNext == IInv /\ ClaimInv /\ ShortNames /\ WholeInv /\ [Next]_vars => WholeInv'
PROOF
<1> SUFFICES ASSUME IInv, ClaimInv, ShortNames, WholeInv, [Next]_vars PROVE WholeInv'
  OBVIOUS
<1>1. CASE Next
  BY <1>1, WholeStep DEF Next
<1>2. CASE UNCHANGED vars
  BY <1>2 DEF vars, WholeInv, Whole, Devices
<1> QED BY <1>1, <1>2

(* A tap that was completed keeps all its queues, on one device that is up *)
(* and, with a bridge, a port of it, whatever creations of other tunnels   *)
(* under the same name do before they fail and close what they opened - as *)
(* long as device names fit what the ioctls get.                           *)
THEOREM TapsStayWhole == Spec /\ []ShortNames => []TapWhole
PROOF
<1>1. Init => WholeInv
  BY DEF Init, WholeInv
<1>2. WholeInv => TapWhole
  BY DEF WholeInv, Whole, TapWhole, Record, Devices
<1> QED BY <1>1, <1>2, WholeNext, ClaimInvariant, Invariant, PTL DEF Spec
=============================================================================
