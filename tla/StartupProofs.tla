--------------------------- MODULE StartupProofs ----------------------------
(* What Startup promises for every set of values and files of any length.  *)
EXTENDS Startup, IpAddrProofs, WellFoundedInduction, TLAPS

Hosts == "allowed_remote_hosts"

AnyValue == Iface \cup Remote \cup RemotePort0 \cup HostList

ParamSet == {p \in [Key -> AnyValue \cup {Unset}] : \A k \in Key : p[k] \in Value(k) \cup {Unset}}

Tunnel ==
  [name : Section \cup {"default"},
   params : ParamSet,
   allowed_addr_list : {<<>>} \cup UNION {ip_addr_cidr_list_create_from_str(h) : h \in HostList}]

\* A tunnel that runs has a list made from its own, well-formed, entries.
Good(t) ==
  t.params[Hosts] # Unset =>
    /\ \A e \in DOMAIN t.params[Hosts] : WellFormed(t.params[Hosts][e])
    /\ t.allowed_addr_list \in ip_addr_cidr_list_create_from_str(t.params[Hosts])

ParseInv ==
  /\ phase \in {"read", "join", "fail", "exit", "crash", "hang"}
  /\ tunnel_name \in Section \cup {Unset}
  /\ params \in ParamSet
  /\ seen_values \in BOOLEAN

\* Until the first growth there is no memory; from then on block is alloc_size,
\* and a slot is always free.  The count is that of the tunnels, or one more on
\* the way out.
ListInv ==
  /\ tunnels \in Seq(Tunnel)
  /\ alloc_size \in Nat
  /\ block = alloc_size \/ (block = 0 /\ tunnels = <<>> /\ alloc_size <= 1)
  /\ alloc_size = 0 => tunnels = <<>> /\ num_tunnels = 0
  /\ alloc_size > 0 => Len(tunnels) < alloc_size
  /\ num_tunnels \in {Len(tunnels), Len(tunnels) + 1}
  /\ phase \in {"read", "join", "exit"} => num_tunnels = Len(tunnels)

GoodInv == \A i \in DOMAIN tunnels : Good(tunnels[i])

IInv == ParseInv /\ ListInv /\ GoodInv

-----------------------------------------------------------------------------
LEMMA HostsValue == ASSUME NEW p \in ParamSet, p[Hosts] # Unset PROVE p[Hosts] \in HostList
PROOF BY DEF ParamSet, Hosts, Key, Value

LEMMA NoParamsOK == NoParams \in ParamSet
PROOF BY DEF NoParams, ParamSet

LEMMA InitInv == Init => IInv
PROOF
<1> SUFFICES ASSUME Init PROVE IInv
  OBVIOUS
<1>1. ParseInv
  BY NoParamsOK DEF Init, ParseInv
<1>2. ListInv /\ GoodInv
  BY DEF Init, ListInv, GoodInv
<1> QED BY <1>1, <1>2 DEF IInv

\* What a commit creates.
LEMMA CreatedGood ==
  ASSUME ParseInv, ~Refuses, NEW t \in Created
  PROVE  t \in Tunnel /\ Good(t)
PROOF
<1>1. t.params = params /\ t.name \in Section \cup {"default"}
  BY DEF Created, CommitName, ParseInv
<1>2. CASE params[Hosts] = Unset
  <2>1. t.allowed_addr_list = <<>>
    BY <1>2 DEF Created, Hosts
  <2>2. t \in Tunnel
    BY <1>1, <2>1 DEF Tunnel, Created, ParseInv
  <2> QED BY <1>1, <1>2, <2>2 DEF Good
<1>3. CASE params[Hosts] # Unset
  <2>1. params[Hosts] \in HostList
    BY <1>3, HostsValue DEF ParseInv
  <2>2. t.allowed_addr_list \in ip_addr_cidr_list_create_from_str(params[Hosts])
    BY <1>3, <2>1 DEF Created, AddrLists, Hosts
  <2>3. t \in Tunnel
    BY <1>1, <2>1, <2>2 DEF Tunnel, Created, ParseInv
  <2>4. \A e \in DOMAIN params[Hosts] : WellFormed(params[Hosts][e])
    BY <1>3 DEF Refuses, Hosts
  <2> QED BY <1>1, <2>2, <2>3, <2>4 DEF Good
<1> QED BY <1>2, <1>3

LEMMA AddKeeps ==
  ASSUME ListInv, GoodInv, NEW t \in Tunnel, Good(t), tunnel_list_add(t), phase = "read"
  PROVE  ListInv' /\ GoodInv'
PROOF
<1>1. tunnels' = Append(tunnels, t) /\ tunnels' \in Seq(Tunnel) /\ Len(tunnels') = Len(tunnels) + 1
  BY DEF ListInv, tunnel_list_add
<1>2. Len(tunnels) \in Nat
  BY DEF ListInv
<1>3. ListInv'
  <2>1. CASE NeedsGrowth
    BY <1>1, <1>2, <2>1 DEF ListInv, tunnel_list_add, NeedsGrowth
  <2>2. CASE ~NeedsGrowth
    BY <1>1, <1>2, <2>2 DEF ListInv, tunnel_list_add, NeedsGrowth
  <2> QED BY <2>1, <2>2
<1>4. ASSUME NEW k \in DOMAIN tunnels' PROVE Good(tunnels'[k])
  <2>1. CASE k = Len(tunnels) + 1
    <3>1. tunnels'[k] = t
      BY <1>1, <1>2, <2>1 DEF ListInv
    <3> QED BY <3>1
  <2>2. CASE k # Len(tunnels) + 1
    <3>1. k \in DOMAIN tunnels /\ tunnels'[k] = tunnels[k]
      BY <1>1, <1>2, <2>2 DEF ListInv
    <3> QED BY <3>1 DEF GoodInv
  <2> QED BY <2>1, <2>2
<1> QED BY <1>3, <1>4 DEF GoodInv

LEMMA AddFailsKeeps ==
  ASSUME ListInv, GoodInv, ListAddFails, phase = "read", phase' \in {"fail", "crash", "hang"}
  PROVE  ListInv' /\ GoodInv'
PROOF
<1>1. Len(tunnels) \in Nat /\ num_tunnels = Len(tunnels) /\ alloc_size > 0
  BY DEF ListInv, ListAddFails
<1>2. ListInv'
  BY <1>1 DEF ListInv, ListAddFails
<1> QED BY <1>2 DEF ListAddFails, GoodInv

LEMMA DeleteKeeps ==
  ASSUME ListInv, GoodInv, tunnel_list_delete
  PROVE  ListInv' /\ GoodInv' /\ phase' \in {"exit", "crash", "hang"}
PROOF
<1>1. CASE /\ tunnels' = <<>> /\ phase' = "exit"
           /\ num_tunnels' = 0 /\ alloc_size' = 0 /\ block' = 0
  <2>1. ListInv'
    BY <1>1 DEF ListInv
  <2>2. GoodInv'
    BY <1>1 DEF GoodInv
  <2> QED BY <1>1, <2>1, <2>2
<1>2. CASE UNCHANGED listVars /\ phase' \in {"crash", "hang"}
  BY <1>2 DEF ListInv, GoodInv, listVars
<1> QED BY <1>1, <1>2 DEF tunnel_list_delete

LEMMA SameList ==
  ASSUME ListInv, GoodInv, UNCHANGED listVars, phase = "read" \/ phase' = phase
  PROVE  ListInv' /\ GoodInv'
PROOF BY DEF ListInv, GoodInv, listVars

LEMMA NextInv == IInv /\ [Next]_vars => IInv'
PROOF
<1> SUFFICES ASSUME IInv, [Next]_vars PROVE IInv'
  OBVIOUS
<1> USE DEF IInv
<1>1. ASSUME NEW k \in Key, NEW v \in Value(k), KeyEvent(k, v) PROVE IInv'
  <2>1. params' \in ParamSet
    BY <1>1 DEF KeyEvent, ParseInv, ParamSet, AnyValue, Key, Value
  <2>2. ParseInv'
    BY <1>1, <2>1 DEF KeyEvent, ParseInv
  <2> QED BY <1>1, <2>2, SameList DEF KeyEvent, Read
<1>2. ASSUME NEW s \in Section \cup {Unset}, NothingToCommit(s) PROVE IInv'
  <2>1. phase = "read" /\ UNCHANGED listVars
    BY <1>2 DEF NothingToCommit, SectionOrEnd, Read
  <2>2. ParseInv'
    BY <1>2 DEF NothingToCommit, Proceed, ParseInv
  <2> QED BY <2>1, <2>2, SameList
<1>3. ASSUME NEW s \in Section \cup {Unset}, Commit(s) PROVE IInv'
  <2>1. ParseInv'
    BY <1>3, NoParamsOK DEF Commit, Proceed, ParseInv, reset_tunnel_params
  <2>2. PICK t \in Created : tunnel_list_add(t)
    BY <1>3 DEF Commit
  <2>3. ListInv' /\ GoodInv'
    BY <1>3, <2>2, CreatedGood, AddKeeps DEF Commit, SectionOrEnd, Read
  <2> QED BY <2>1, <2>3
<1>4. ASSUME NEW s \in Section \cup {Unset}, CommitRefused(s) PROVE IInv'
  <2>1. phase = "read" /\ UNCHANGED listVars
    BY <1>4 DEF CommitRefused, SectionOrEnd, Read
  <2>2. ParseInv'
    BY <1>4, NoParamsOK DEF CommitRefused, ParseInv, reset_tunnel_params
  <2> QED BY <2>1, <2>2, SameList
<1>5. ASSUME NEW s \in Section \cup {Unset}, CommitCrashes(s) PROVE IInv'
  <2>1. phase = "read" /\ UNCHANGED listVars
    BY <1>5 DEF CommitCrashes, SectionOrEnd, Read
  <2>2. ParseInv'
    BY <1>5 DEF CommitCrashes, ParseInv, parseVars
  <2> QED BY <2>1, <2>2, SameList
<1>6. ASSUME NEW s \in Section \cup {Unset}, CommitNoRoom(s) PROVE IInv'
  <2>1. phase = "read" /\ phase' \in {"fail", "crash", "hang"} /\ ListAddFails
    BY <1>6 DEF CommitNoRoom, SectionOrEnd, Read
  <2>2. ParseInv'
    BY <1>6, <2>1, NoParamsOK DEF CommitNoRoom, ParseInv, reset_tunnel_params
  <2> QED BY <2>1, <2>2, AddFailsKeeps
<1>7. CASE BadLine
  BY <1>7, SameList DEF BadLine, ParseInv, parseVars
<1>9. CASE tunnel_list_delete
  <2>1. ListInv' /\ GoodInv' /\ phase' \in {"exit", "crash", "hang"}
    BY <1>9, DeleteKeeps
  <2>2. ParseInv'
    BY <1>9, <2>1 DEF tunnel_list_delete, ParseInv, parseVars
  <2> QED BY <2>1, <2>2
<1>8. CASE UNCHANGED vars
  BY <1>8, SameList DEF vars, ParseInv, parseVars
<1> QED BY <1>1, <1>2, <1>3, <1>4, <1>5, <1>6, <1>7, <1>8, <1>9 DEF Next

LEMMA Invariant == Spec => []IInv
PROOF
<1> QED BY InitInv, NextInv, PTL DEF Spec

-----------------------------------------------------------------------------
(* The variables keep their types through every file: what the parser      *)
(* stores, the list's counters and the names of its tunnels.               *)
THEOREM TypeCorrect == Spec => []TypeOK
PROOF
<1>1. IInv => TypeOK
  <2> SUFFICES ASSUME IInv PROVE TypeOK
    OBVIOUS
  <2>1. \A i \in DOMAIN tunnels : tunnels[i].name \in Section \cup {"default"}
    <3>1. \A i \in DOMAIN tunnels : tunnels[i] \in Tunnel
      BY DEF IInv, ListInv
    <3> QED BY <3>1 DEF Tunnel
  <2>2. \A k \in Key : params[k] \in Value(k) \cup {Unset}
    BY DEF IInv, ParseInv, ParamSet
  <2>3. num_tunnels \in Nat /\ alloc_size \in Nat /\ block \in 0..alloc_size
    BY DEF IInv, ListInv
  <2> QED BY <2>1, <2>2, <2>3 DEF IInv, ParseInv, TypeOK
<1> QED BY <1>1, Invariant, PTL

(* tunnel_list_add(): however many tunnels a file has, num_tunnels counts  *)
(* the tunnels stored and all lie inside the list's memory while lines are *)
(* read and tunnels run.  A failed realloc() leaves the count one too      *)
(* high, past the memory only when that was the first growth.              *)
THEOREM ListAlwaysFits == Spec => []ListFits
PROOF
<1>1. ASSUME IInv PROVE ListFits
  <2>1. Len(tunnels) \in Nat
    BY <1>1 DEF IInv, ListInv
  <2> QED BY <1>1, <2>1 DEF IInv, ListInv, ListFits
<1> QED BY <1>1, Invariant, PTL

(* tunnel_create(), ip_addr_cidr_list_create_from_str() and the match: in  *)
(* every tunnel that runs, whatever lists and peers there are, no sender   *)
(* of a network written in IPv6 is locked out, if the network has a one    *)
(* bit: nothing is claimed of ::/0 or any other network of zeros, whose    *)
(* senders the match does lock out.                                        *)
THEOREM AllowListsCover == Spec => []AllowListCovers
PROOF
<1>1. IInv => AllowListCovers
  <2> SUFFICES ASSUME IInv, NEW n \in DOMAIN tunnels, tunnels[n].params[Hosts] # Unset,
                      NEW e \in DOMAIN tunnels[n].params[Hosts], NEW p \in Peer,
                      tunnels[n].params[Hosts][e].v6,
                      tunnels[n].params[Hosts][e].net \cap NetworkBits(tunnels[n].params[Hosts][e]) # {},
                      InNetwork(tunnels[n].params[Hosts][e], p)
               PROVE  ip_addr_cidr_list_match(tunnels[n].allowed_addr_list, p)
    BY DEF AllowListCovers, Hosts
  <2> DEFINE t == tunnels[n]
             h == t.params[Hosts]
  <2>1. t \in Tunnel /\ Good(t)
    BY DEF IInv, ListInv, GoodInv
  <2>2. t.params \in ParamSet
    BY <2>1 DEF Tunnel
  <2>3. h \in Seq(Entry)
    BY <2>2, HostsValue, StartupAssumption
  <2>4. h[e] \in Entry /\ e \in 1..Len(h) /\ WellFormed(h[e])
    BY <2>1, <2>3 DEF Good
  <2>5. /\ DOMAIN t.allowed_addr_list = 1..Len(h)
        /\ t.allowed_addr_list[e] \in ip_addr_cidr_from_str(h[e])
    BY <2>1, <2>4 DEF Good, ip_addr_cidr_list_create_from_str
  <2>6. p \in SUBSET Bits
    BY StartupAssumption
  <2>7. ip_addr_cidr_match(t.allowed_addr_list[e], p)
    BY <2>4, <2>5, <2>6, EntryCovers
  <2> QED BY <2>4, <2>5, <2>7 DEF ip_addr_cidr_list_match
<1> QED BY <1>1, Invariant, PTL

-----------------------------------------------------------------------------
(* The parser against the file read as a whole.                            *)

Line == {HeaderLine(s) : s \in Section} \cup {KeyLine(k, v) : k \in Key, v \in AnyValue}

LastHeader(c) == c \in Headers /\ \A h \in Headers : h <= c

\* While the section of header c is read, params is what it says so far and the
\* list is what the sections before it say.
SectionOpen(c) ==
  /\ tunnel_name = IF c = 0 THEN Unset ELSE file[c].key
  /\ params = [k \in Key |-> ValueOf(c, k)]
  /\ ListIs({h \in KeyedHeaders : h < c})

FileInv ==
  /\ file \in Seq(Line)
  /\ ~seen_values => \A i \in DOMAIN file : file[i].kind = "section"
  /\ phase = "read" => \E c \in Headers : LastHeader(c) /\ SectionOpen(c)
  /\ phase = "join" => ListIs(KeyedHeaders)

\* A set of lines has a last one.
LEMMA LastLine ==
  ASSUME NEW n \in Nat, NEW S, S \subseteq 1..n, S # {}
  PROVE  \E m \in S : \A l \in S : l <= m
PROOF
<1> DEFINE T == {n - l : l \in S}
<1>1. T \subseteq Nat /\ T # {}
  <2>1. \A l \in S : n - l \in Nat
    BY SMT
  <2>2. PICK l \in S : TRUE
    OBVIOUS
  <2>3. n - l \in T
    OBVIOUS
  <2> QED BY <2>1, <2>3
<1>2. PICK x \in T : \A y \in T : ~ (<<y, x>> \in OpToRel(<, Nat))
  <2> HIDE DEF T
  <2> QED BY <1>1, WFMin, NatLessThanWellFounded
<1>3. \A y \in T : ~(y < x)
  BY <1>1, <1>2 DEF OpToRel
<1>4. PICK m \in S : x = n - m
  BY <1>2
<1>5. ASSUME NEW l \in S PROVE l <= m
  <2>1. n - l \in T
    OBVIOUS
  <2>2. ~(n - l < n - m)
    BY <1>3, <1>4, <2>1
  <2> QED BY <2>2
<1> QED BY <1>5

\* What ini_parse_file() appends to the lines read so far.
LEMMA AppendLine ==
  ASSUME file \in Seq(Line), NEW l \in Line, file' = Append(file, l)
  PROVE  /\ file' \in Seq(Line) /\ Len(file) \in Nat
         /\ DOMAIN file = 1..Len(file) /\ DOMAIN file' = DOMAIN file \cup {Len(file) + 1}
         /\ Len(file) + 1 \notin DOMAIN file
         /\ file'[Len(file) + 1] = l
         /\ \A i \in DOMAIN file : file'[i] = file[i]
PROOF OBVIOUS

\* The kinds of lines.
LEMMA LineKinds ==
  /\ \A s \in Section : HeaderLine(s) \in Line /\ HeaderLine(s).kind = "section" /\ HeaderLine(s).key = s
  /\ \A k \in Key, v \in AnyValue :
       /\ KeyLine(k, v) \in Line /\ KeyLine(k, v).kind = "key"
       /\ KeyLine(k, v).key = k /\ KeyLine(k, v).value = v
  /\ \A l \in Line : l.kind = "section" => l.key \in Section
PROOF
<1>1. \A s \in Section : HeaderLine(s).kind = "section" /\ HeaderLine(s).key = s
  BY DEF HeaderLine
<1>2. \A k \in Key, v \in AnyValue :
        KeyLine(k, v).kind = "key" /\ KeyLine(k, v).key = k /\ KeyLine(k, v).value = v
  BY DEF KeyLine
<1>3. \A l \in Line : (\E s \in Section : l = HeaderLine(s)) \/ (\E k \in Key, v \in AnyValue : l = KeyLine(k, v))
  BY DEF Line
<1>4. /\ \A s \in Section : HeaderLine(s) \in Line
      /\ \A k \in Key, v \in AnyValue : KeyLine(k, v) \in Line
  BY DEF Line
<1> QED BY <1>1, <1>2, <1>3, <1>4

\* A line that leaves the lines of a section alone leaves its values alone.
LEMMA SameValue ==
  ASSUME file \in Seq(Line), NEW l \in Line, file' = Append(file, l),
         NEW h, NEW k, Body(h)' = Body(h)
  PROVE  ValueOf(h, k)' = ValueOf(h, k)
PROOF
<1> DEFINE lines == {i \in Body(h) : file[i].key = k}
<1>1. Body(h) \subseteq DOMAIN file
  BY DEF Body
<1>2. lines' = lines
  BY <1>1, AppendLine
<1>3. CASE lines = {}
  BY <1>2, <1>3 DEF ValueOf
<1>4. CASE lines # {}
  <2>1. \E m \in lines : \A i \in lines : i <= m
    <3>1. lines \subseteq 1..Len(file) /\ Len(file) \in Nat
      BY <1>1, AppendLine
    <3> HIDE DEF lines
    <3> QED BY <1>4, <3>1, LastLine
  <2> DEFINE m == CHOOSE i \in lines : \A x \in lines : x <= i
  <2>2. m \in lines
    BY <2>1
  <2>3. m \in DOMAIN file /\ file'[m] = file[m]
    BY <1>1, <2>2, AppendLine
  <2>4. PICK L : L = lines
    OBVIOUS
  <2>5. ValueOf(h, k) = file[CHOOSE i \in L : \A x \in L : x <= i].value
    BY <1>4, <2>4 DEF ValueOf
  <2>6. ValueOf(h, k)' = file'[CHOOSE i \in L : \A x \in L : x <= i].value
    BY <1>2, <1>4, <2>4 DEF ValueOf
  <2> QED BY <2>3, <2>4, <2>5, <2>6
<1> QED BY <1>3, <1>4

\* A key line changes the value of its key in the last section.
LEMMA NewValue ==
  ASSUME file \in Seq(Line), NEW k \in Key, NEW v \in AnyValue,
         file' = Append(file, KeyLine(k, v)),
         NEW c, Body(c)' = Body(c) \cup {Len(file) + 1}, NEW x \in Key
  PROVE  ValueOf(c, x)' = IF x = k THEN v ELSE ValueOf(c, x)
PROOF
<1>n. PICK n \in Nat : n = Len(file)
  OBVIOUS
<1>l. PICK L : L = {i \in Body(c) : file[i].key = x}
  OBVIOUS
<1>m. PICK M : M = {i \in Body(c)' : file'[i].key = x}
  OBVIOUS
<1>1. L \subseteq 1..n
  BY <1>n, <1>l DEF Body
<1>2. KeyLine(k, v) \in Line
  BY LineKinds
<1>3. /\ file'[n + 1] = KeyLine(k, v) /\ \A i \in 1..n : file'[i] = file[i]
      /\ Body(c) \subseteq 1..n
  BY <1>n, <1>2, AppendLine DEF Body
<1>4. ValueOf(c, x) = IF L = {} THEN Unset ELSE file[CHOOSE i \in L : \A y \in L : y <= i].value
  BY <1>l DEF ValueOf
<1>5. ValueOf(c, x)' = IF M = {} THEN Unset ELSE file'[CHOOSE i \in M : \A y \in M : y <= i].value
  BY <1>m DEF ValueOf
<1>6. CASE x = k
  <2>1. n + 1 \in M /\ M \subseteq 1..(n + 1)
    BY <1>n, <1>m, <1>3, <1>6, LineKinds
  <2>2. (CHOOSE i \in M : \A y \in M : y <= i) = n + 1
    <3>1. \A y \in M : y \in Int /\ y <= n + 1
      BY <2>1
    <3>2. \A i \in M : (\A y \in M : y <= i) => i = n + 1
      BY <2>1, <3>1
    <3> QED BY <2>1, <3>1, <3>2
  <2>3. KeyLine(k, v).value = v
    BY LineKinds
  <2>4. ValueOf(c, x)' = file'[n + 1].value
    BY <1>5, <2>1, <2>2
  <2> QED BY <1>3, <1>6, <2>3, <2>4
<1>7. CASE x # k
  <2>1. M = L
    BY <1>n, <1>l, <1>m, <1>3, <1>7, LineKinds
  <2>2. CASE L = {}
    BY <1>4, <1>5, <1>7, <2>1, <2>2
  <2>3. CASE L # {}
    <3>1. (CHOOSE i \in L : \A y \in L : y <= i) \in 1..n
      BY <1>1, <2>3, LastLine
    <3> QED BY <1>3, <1>4, <1>5, <1>7, <2>1, <2>3, <3>1
  <2> QED BY <2>2, <2>3
<1> QED BY <1>6, <1>7

\* Headers are line numbers, or 0.
LEMMA HeaderNumbers ==
  ASSUME file \in Seq(Line), NEW h \in Headers
  PROVE  h \in 0..Len(file) /\ Len(file) \in Nat /\ (h # 0 => h \in DOMAIN file)
PROOF BY DEF Headers

\* A key line belongs to the last section.
LEMMA ReadKey ==
  ASSUME file \in Seq(Line), NEW k \in Key, NEW v \in AnyValue,
         file' = Append(file, KeyLine(k, v)), NEW c, LastHeader(c)
  PROVE  /\ Headers' = Headers
         /\ Body(c)' = Body(c) \cup {Len(file) + 1}
         /\ \A h \in Headers : h < c => Body(h)' = Body(h)
PROOF
<1>1. KeyLine(k, v) \in Line /\ KeyLine(k, v).kind # "section"
  BY LineKinds
<1>2. /\ Len(file) \in Nat /\ DOMAIN file = 1..Len(file)
      /\ DOMAIN file' = DOMAIN file \cup {Len(file) + 1}
      /\ file'[Len(file) + 1] = KeyLine(k, v)
      /\ \A i \in DOMAIN file : file'[i] = file[i]
  BY <1>1, AppendLine
<1>3. Headers' = Headers
  BY <1>1, <1>2 DEF Headers
<1>4. \A h \in Headers : h \in 0..Len(file)
  BY HeaderNumbers
<1>5. Body(c)' = Body(c) \cup {Len(file) + 1}
  <2>1. \A h \in Headers : ~(h > c)
    BY <1>4 DEF LastHeader
  <2>2. c \in 0..Len(file)
    BY <1>4 DEF LastHeader
  <2> HIDE DEF Headers
  <2>3. Body(c) = {i \in DOMAIN file : i > c}
    BY <2>1 DEF Body
  <2>4. Body(c)' = {i \in DOMAIN file' : i > c}
    BY <1>3, <2>1 DEF Body
  <2> QED BY <1>2, <2>2, <2>3, <2>4
<1>6. ASSUME NEW h \in Headers, h < c PROVE Body(h)' = Body(h)
  <2>1. c \in Headers /\ c \in 0..Len(file) /\ c > h
    BY <1>4, <1>6 DEF LastHeader
  <2>2. Body(h)' = {i \in DOMAIN file' : i > h /\ \A g \in Headers : g > h => i < g}
    BY <1>3 DEF Body
  <2>3. ~(Len(file) + 1 < c)
    BY <1>2, <2>1
  <2> HIDE DEF Headers
  <2> QED BY <1>2, <2>1, <2>2, <2>3 DEF Body
<1> QED BY <1>3, <1>5, <1>6

\* A header ends the last section and opens an empty one.
LEMMA ReadHeader ==
  ASSUME file \in Seq(Line), NEW s \in Section, file' = Append(file, HeaderLine(s))
  PROVE  /\ Headers' = Headers \cup {Len(file) + 1}
         /\ \A h \in Headers : h < Len(file) + 1 /\ Body(h)' = Body(h)
         /\ \A n \in Nat : n = Len(file) + 1 => Body(n)' = {}
PROOF
<1>1. HeaderLine(s) \in Line /\ HeaderLine(s).kind = "section"
  BY LineKinds
<1>2. /\ Len(file) \in Nat /\ DOMAIN file = 1..Len(file)
      /\ DOMAIN file' = DOMAIN file \cup {Len(file) + 1}
      /\ file'[Len(file) + 1] = HeaderLine(s)
      /\ \A i \in DOMAIN file : file'[i] = file[i]
  BY <1>1, AppendLine
<1>3. Headers' = Headers \cup {Len(file) + 1}
  BY <1>1, <1>2 DEF Headers
<1>4. \A h \in Headers : h \in 0..Len(file)
  BY HeaderNumbers
<1>5. ASSUME NEW h \in Headers PROVE h < Len(file) + 1 /\ Body(h)' = Body(h)
  <2>1. h < Len(file) + 1 /\ h \in Int
    BY <1>2, <1>4
  <2>2. Body(h)' = {i \in DOMAIN file' : i > h /\ \A g \in Headers \cup {Len(file) + 1} : g > h => i < g}
    BY <1>3 DEF Body
  <2> HIDE DEF Headers
  <2> QED BY <1>2, <2>1, <2>2 DEF Body
<1>6. ASSUME NEW n \in Nat, n = Len(file) + 1 PROVE Body(n)' = {}
  BY <1>2, <1>6 DEF Body
<1> QED BY <1>3, <1>5, <1>6

\* The list still is what the sections of H say.
LEMMA ListKept ==
  ASSUME NEW H, ListIs(H), UNCHANGED tunnels, \A h \in H : Written(h)' = Written(h)
  PROVE  ListIs(H)'
PROOF
<1>1. PICK order \in [DOMAIN tunnels -> H] :
        /\ \A x, y \in DOMAIN tunnels : x < y => order[x] < order[y]
        /\ \A h \in H : \E x \in DOMAIN tunnels : order[x] = h
        /\ \A x \in DOMAIN tunnels :
             [name |-> tunnels[x].name, params |-> tunnels[x].params] = Written(order[x])
  BY DEF ListIs
<1>2. \A x \in DOMAIN tunnels : Written(order[x])' = Written(order[x])
  BY <1>1
<1> QED BY <1>1, <1>2 DEF ListIs

\* tunnel_list_add() of the tunnel the next section says.
LEMMA ListAdded ==
  ASSUME NEW H, NEW c \in Int, ListIs(H), \A h \in H : h \in Int /\ h < c,
         tunnels \in Seq(Tunnel), NEW t \in Tunnel, tunnels' = Append(tunnels, t),
         [name |-> t.name, params |-> t.params] = Written(c)',
         \A h \in H : Written(h)' = Written(h)
  PROVE  ListIs(H \cup {c})'
PROOF
<1>1. PICK order \in [DOMAIN tunnels -> H] :
        /\ \A x, y \in DOMAIN tunnels : x < y => order[x] < order[y]
        /\ \A h \in H : \E x \in DOMAIN tunnels : order[x] = h
        /\ \A x \in DOMAIN tunnels :
             [name |-> tunnels[x].name, params |-> tunnels[x].params] = Written(order[x])
  BY DEF ListIs
<1>2. PICK n \in Nat : n = Len(tunnels)
  OBVIOUS
<1>3. /\ DOMAIN tunnels = 1..n /\ DOMAIN tunnels' = 1..(n + 1)
      /\ tunnels'[n + 1] = t /\ \A x \in 1..n : tunnels'[x] = tunnels[x]
  BY <1>2
<1>4. PICK longer : longer = [x \in 1..(n + 1) |-> IF x = n + 1 THEN c ELSE order[x]]
  OBVIOUS
<1>5. /\ longer \in [1..(n + 1) -> H \cup {c}]
      /\ longer[n + 1] = c /\ \A x \in 1..n : longer[x] = order[x]
  BY <1>1, <1>3, <1>4
<1>6. \A x, y \in 1..(n + 1) : x < y => longer[x] < longer[y]
  <2> SUFFICES ASSUME NEW x \in 1..(n + 1), NEW y \in 1..(n + 1), x < y
               PROVE  longer[x] < longer[y]
    OBVIOUS
  <2>1. x \in 1..n /\ longer[x] = order[x] /\ order[x] \in H
    BY <1>1, <1>3, <1>5
  <2>2. CASE y = n + 1
    BY <1>5, <2>1, <2>2
  <2>3. CASE y # n + 1
    <3>1. y \in 1..n
      BY <2>3
    <3> QED BY <1>1, <1>3, <1>5, <2>1, <3>1
  <2> QED BY <2>2, <2>3
<1>7. \A h \in H \cup {c} : \E x \in 1..(n + 1) : longer[x] = h
  <2>1. ASSUME NEW h \in H PROVE \E x \in 1..(n + 1) : longer[x] = h
    <3>1. PICK x \in 1..n : order[x] = h
      BY <1>1, <1>3
    <3>2. x \in 1..(n + 1) /\ longer[x] = h
      BY <1>5, <3>1
    <3> QED BY <3>2
  <2> QED BY <1>5, <2>1
<1>8. ASSUME NEW x \in 1..(n + 1)
      PROVE  [name |-> tunnels'[x].name, params |-> tunnels'[x].params] = Written(longer[x])'
  <2>1. CASE x = n + 1
    BY <1>3, <1>5, <2>1
  <2>2. CASE x # n + 1
    <3>1. x \in 1..n /\ tunnels'[x] = tunnels[x] /\ longer[x] = order[x] /\ order[x] \in H
      BY <1>1, <1>3, <1>5, <2>2
    <3> QED BY <1>1, <1>3, <3>1
  <2> QED BY <2>1, <2>2
<1>9. /\ longer \in [DOMAIN tunnels' -> H \cup {c}]
      /\ \A x, y \in DOMAIN tunnels' : x < y => longer[x] < longer[y]
      /\ \A h \in H \cup {c} : \E x \in DOMAIN tunnels' : longer[x] = h
      /\ \A x \in DOMAIN tunnels' :
           [name |-> tunnels'[x].name, params |-> tunnels'[x].params] = Written(longer[x])'
  BY <1>3, <1>5, <1>6, <1>7, <1>8, Zenon
<1> QED BY <1>9, Zenon DEF ListIs

\* Lines that are appended change nothing that was written before them.
LEMMA WrittenKept ==
  ASSUME file \in Seq(Line), NEW l \in Line, file' = Append(file, l),
         NEW h \in Headers, Body(h)' = Body(h)
  PROVE  Written(h)' = Written(h)
PROOF
<1>1. \A k \in Key : ValueOf(h, k)' = ValueOf(h, k)
  BY SameValue
<1>2. h # 0 => file'[h] = file[h]
  BY HeaderNumbers, AppendLine
<1> HIDE DEF ValueOf
<1> QED BY <1>1, <1>2 DEF Written

LEMMA NoLines ==
  ASSUME NEW h, Body(h) = {}
  PROVE  [k \in Key |-> ValueOf(h, k)] = NoParams
PROOF BY DEF ValueOf, NoParams

\* The end of a section or of the file, when the list is what all of it says.
LEMMA SectionClosed ==
  ASSUME file \in Seq(Line), NEW s \in Section \cup {Unset}, SectionOrEnd(s), Proceed(s),
         params' = NoParams, NEW K, K = KeyedHeaders, ListIs(K)'
  PROVE  /\ file' \in Seq(Line)
         /\ phase' = "read" => \E c \in Headers' : LastHeader(c)' /\ SectionOpen(c)'
         /\ phase' = "join" => ListIs(KeyedHeaders)'
PROOF
<1>1. CASE s = Unset
  <2>1. file' = file /\ phase' # "read"
    BY <1>1 DEF SectionOrEnd, Proceed
  <2>2. KeyedHeaders' = K
    BY <2>1 DEF KeyedHeaders, Headers, Body
  <2> QED BY <2>1, <2>2 DEF ListIs
<1>2. CASE s # Unset
  <2>1. s \in Section /\ file' = Append(file, HeaderLine(s)) /\ phase' = "read" /\ tunnel_name' = s
    BY <1>2 DEF SectionOrEnd, Read, Proceed
  <2>2. PICK n \in Nat : n = Len(file) + 1
    OBVIOUS
  <2>3. /\ Headers' = Headers \cup {n}
        /\ \A h \in Headers : h < n /\ Body(h)' = Body(h)
        /\ Body(n)' = {}
    BY <2>1, <2>2, ReadHeader
  <2>4. LastHeader(n)' /\ n \in Headers'
    <3>1. \A h \in Headers : h <= n
      BY <2>2, <2>3, HeaderNumbers
    <3> QED BY <2>2, <2>3, <3>1 DEF LastHeader
  <2>5. params' = [k \in Key |-> ValueOf(n, k)']
    BY <2>3 DEF ValueOf, NoParams
  <2>6. tunnel_name' = IF n = 0 THEN Unset ELSE file'[n].key
    BY <2>1, <2>2, LineKinds, AppendLine
  <2>7. {h \in KeyedHeaders' : h < n} = K
    BY <2>2, <2>3 DEF KeyedHeaders
  <2>8. ListIs({h \in KeyedHeaders : h < n})'
    BY <2>7 DEF ListIs
  <2>9. SectionOpen(n)'
    BY <2>5, <2>6, <2>8 DEF SectionOpen
  <2>10. file' \in Seq(Line)
    BY <2>1, LineKinds, AppendLine
  <2> QED BY <2>1, <2>4, <2>9, <2>10
<1> QED BY <1>1, <1>2

\* At the end of a section its values, and those of the sections before it, stay.
LEMMA CloseKeeps ==
  ASSUME file \in Seq(Line), NEW s \in Section \cup {Unset}, SectionOrEnd(s), NEW h \in Headers
  PROVE  Written(h)' = Written(h)
PROOF
<1>1. CASE s = Unset
  <2>1. file' = file
    BY <1>1 DEF SectionOrEnd
  <2> QED BY <2>1 DEF Written, ValueOf, Body, Headers
<1>2. CASE s # Unset
  <2>1. s \in Section /\ file' = Append(file, HeaderLine(s)) /\ HeaderLine(s) \in Line
    BY <1>2, LineKinds DEF SectionOrEnd, Read
  <2>2. Body(h)' = Body(h)
    BY <2>1, ReadHeader
  <2> QED BY <2>1, <2>2, WrittenKept
<1> QED BY <1>1, <1>2

LEMMA FileInit == Init => FileInv
PROOF
<1> SUFFICES ASSUME Init PROVE FileInv
  OBVIOUS
<1>1. file = <<>> /\ phase = "read" /\ tunnels = <<>> /\ tunnel_name = Unset /\ params = NoParams
  BY DEF Init
<1>2. Headers = {0} /\ Body(0) = {}
  BY <1>1 DEF Headers, Body
<1>3. {h \in KeyedHeaders : h < 0} = {}
  BY <1>2 DEF KeyedHeaders
<1>4. ListIs({h \in KeyedHeaders : h < 0})
  <2>1. PICK order : order = [x \in {} |-> 0]
    OBVIOUS
  <2>2. order \in [DOMAIN tunnels -> {}] /\ DOMAIN tunnels = {}
    BY <1>1, <2>1
  <2> QED BY <1>3, <2>2 DEF ListIs
<1>5. SectionOpen(0)
  BY <1>1, <1>2, <1>4, NoLines DEF SectionOpen
<1>6. LastHeader(0)
  BY <1>2 DEF LastHeader
<1> QED BY <1>1, <1>2, <1>5, <1>6 DEF FileInv

LEMMA FileNext == IInv /\ FileInv /\ [Next]_vars => FileInv'
PROOF
<1> SUFFICES ASSUME IInv, FileInv, [Next]_vars PROVE FileInv'
  OBVIOUS
<1>0. file \in Seq(Line) /\ (~seen_values => \A i \in DOMAIN file : file[i].kind = "section")
  BY DEF FileInv
<1>1. ASSUME NEW k \in Key, NEW v \in Value(k), KeyEvent(k, v) PROVE FileInv'
  <2>1. /\ phase = "read" /\ file' = Append(file, KeyLine(k, v)) /\ phase' = phase
        /\ params' = [params EXCEPT ![k] = v] /\ seen_values' = TRUE
        /\ UNCHANGED <<tunnel_name, tunnels>>
    BY <1>1 DEF KeyEvent, Read, listVars
  <2>2. v \in AnyValue /\ KeyLine(k, v) \in Line
    BY LineKinds DEF Key, Value, AnyValue
  <2>3. PICK c \in Headers : LastHeader(c) /\ SectionOpen(c)
    BY <2>1 DEF FileInv
  <2>4. /\ Headers' = Headers
        /\ Body(c)' = Body(c) \cup {Len(file) + 1}
        /\ \A h \in Headers : h < c => Body(h)' = Body(h)
    BY <1>0, <2>1, <2>2, <2>3, ReadKey
  <2>5. PICK H : H = {h \in KeyedHeaders : h < c}
    OBVIOUS
  <2>6. H = {h \in KeyedHeaders' : h < c}
    <3>1. c \in Int
      BY <1>0, HeaderNumbers
    <3> HIDE DEF Headers, Body
    <3> QED BY <2>4, <2>5, <3>1 DEF KeyedHeaders
  <2>7. \A h \in H : Written(h)' = Written(h)
    BY <1>0, <2>1, <2>2, <2>4, <2>5, WrittenKept DEF KeyedHeaders
  <2>8. ListIs(H)'
    <3>1. ListIs(H)
      BY <2>3, <2>5 DEF SectionOpen
    <3> QED BY <2>1, <2>7, <3>1, ListKept
  <2>9. ListIs({h \in KeyedHeaders : h < c})'
    BY <2>6, <2>8 DEF ListIs
  <2>10. params' = [x \in Key |-> ValueOf(c, x)']
    <3>1. \A x \in Key : ValueOf(c, x)' = IF x = k THEN v ELSE ValueOf(c, x)
      BY <1>0, <2>1, <2>2, <2>4, NewValue
    <3>2. params = [x \in Key |-> ValueOf(c, x)]
      BY <2>3 DEF SectionOpen
    <3> HIDE DEF ValueOf
    <3> QED BY <2>1, <3>1, <3>2
  <2>11. tunnel_name' = IF c = 0 THEN Unset ELSE file'[c].key
    <3>1. c # 0 => file'[c] = file[c]
      BY <1>0, <2>1, <2>2, HeaderNumbers, AppendLine
    <3> QED BY <2>1, <2>3, <3>1 DEF SectionOpen
  <2>12. SectionOpen(c)'
    BY <2>9, <2>10, <2>11 DEF SectionOpen
  <2>13. LastHeader(c)' /\ c \in Headers'
    BY <2>3, <2>4 DEF LastHeader
  <2>14. file' \in Seq(Line)
    BY <1>0, <2>1, <2>2, AppendLine
  <2> QED BY <2>1, <2>12, <2>13, <2>14 DEF FileInv
<1>2. ASSUME NEW s \in Section \cup {Unset}, NothingToCommit(s) PROVE FileInv'
  <2>1. /\ phase = "read" /\ SectionOrEnd(s) /\ Proceed(s) /\ ~seen_values
        /\ UNCHANGED <<params, seen_values, tunnels>>
    BY <1>2 DEF NothingToCommit, SectionOrEnd, Read, listVars
  <2>2. PICK c \in Headers : LastHeader(c) /\ SectionOpen(c)
    BY <2>1 DEF FileInv
  <2>3. \A h : Body(h) = {}
    BY <1>0, <2>1 DEF Body, Headers
  <2>4. PICK K : K = KeyedHeaders
    OBVIOUS
  <2>5. K = {} /\ {h \in KeyedHeaders : h < c} = K
    BY <2>3, <2>4 DEF KeyedHeaders
  <2>6. ListIs(K)
    BY <2>2, <2>5 DEF SectionOpen
  <2>7. ListIs(K)'
    BY <2>1, <2>5, <2>6, ListKept
  <2>8. params' = NoParams
    BY <2>1, <2>2, <2>3, NoLines DEF SectionOpen
  <2>9. /\ file' \in Seq(Line)
        /\ phase' = "read" => \E d \in Headers' : LastHeader(d)' /\ SectionOpen(d)'
        /\ phase' = "join" => ListIs(KeyedHeaders)'
    BY <1>0, <2>1, <2>4, <2>7, <2>8, SectionClosed
  <2>10. \A i \in DOMAIN file' : file'[i].kind = "section"
    <3>1. CASE s = Unset
      BY <1>0, <2>1, <3>1 DEF SectionOrEnd
    <3>2. CASE s # Unset
      <4>1. file' = Append(file, HeaderLine(s)) /\ s \in Section
        BY <2>1, <3>2 DEF SectionOrEnd, Read
      <4> QED BY <1>0, <2>1, <4>1, LineKinds, AppendLine
    <3> QED BY <3>1, <3>2
  <2> QED BY <2>9, <2>10 DEF FileInv
<1>3. ASSUME NEW s \in Section \cup {Unset}, Commit(s) PROVE FileInv'
  <2>1. /\ phase = "read" /\ SectionOrEnd(s) /\ Proceed(s) /\ seen_values /\ seen_values' = seen_values
        /\ ~Refuses /\ params["bind_iface"] # Unset /\ params' = NoParams
    BY <1>3 DEF Commit, SectionOrEnd, Read, Faults, reset_tunnel_params
  <2>2. PICK c \in Headers : LastHeader(c) /\ SectionOpen(c)
    BY <2>1 DEF FileInv
  <2>3. PICK t \in Created : tunnels' = Append(tunnels, t)
    BY <1>3 DEF Commit, tunnel_list_add
  <2>4. t \in Tunnel
    BY <2>1, CreatedGood DEF IInv
  <2>5. [name |-> t.name, params |-> t.params] = Written(c)
    <3>1. params = [k \in Key |-> ValueOf(c, k)]
      BY <2>2 DEF SectionOpen
    <3>2. CommitName = IF c = 0 THEN "default" ELSE file[c].key
      <4>1. CASE c = 0
        BY <2>2, <4>1 DEF SectionOpen, CommitName
      <4>2. CASE c # 0
        <5>1. c \in DOMAIN file /\ file[c].kind = "section" /\ file[c] \in Line
          BY <1>0, <4>2 DEF Headers
        <5>2. file[c].key \in Section /\ file[c].key # Unset
          BY <5>1, LineKinds, StartupAssumption
        <5> QED BY <2>2, <4>2, <5>2 DEF SectionOpen, CommitName
      <4> QED BY <4>1, <4>2
    <3>3. t.name = CommitName /\ t.params = params
      BY DEF Created
    <3> QED BY <3>1, <3>2, <3>3 DEF Written
  <2>6. Body(c) # {}
    <3>1. ValueOf(c, "bind_iface") # Unset
      BY <2>1, <2>2 DEF SectionOpen, Key
    <3> QED BY <3>1 DEF ValueOf
  <2>7. PICK H : H = {h \in KeyedHeaders : h < c}
    OBVIOUS
  <2>8. PICK K : K = KeyedHeaders
    OBVIOUS
  <2>9. \A h \in Headers : h \in Int /\ h <= c
    BY <1>0, <2>2, HeaderNumbers DEF LastHeader
  <2>10. K = H \cup {c}
    BY <2>2, <2>6, <2>7, <2>8, <2>9 DEF KeyedHeaders
  <2>11. \A h \in Headers : Written(h)' = Written(h)
    BY <1>0, <2>1, CloseKeeps
  <2>12. ListIs(H \cup {c})'
    <3>1. ListIs(H)
      BY <2>2, <2>7 DEF SectionOpen
    <3>2. tunnels \in Seq(Tunnel)
      BY DEF IInv, ListInv
    <3>3. \A h \in H : h \in Int /\ h < c /\ Written(h)' = Written(h)
      BY <2>7, <2>9, <2>11 DEF KeyedHeaders
    <3>4. [name |-> t.name, params |-> t.params] = Written(c)' /\ c \in Int
      BY <2>5, <2>9, <2>11
    <3> QED BY <2>3, <2>4, <3>1, <3>2, <3>3, <3>4, ListAdded
  <2>13. ListIs(K)'
    BY <2>10, <2>12
  <2>14. /\ file' \in Seq(Line)
         /\ phase' = "read" => \E d \in Headers' : LastHeader(d)' /\ SectionOpen(d)'
         /\ phase' = "join" => ListIs(KeyedHeaders)'
    BY <1>0, <2>1, <2>8, <2>13, SectionClosed
  <2> QED BY <2>1, <2>14 DEF FileInv
<1>4. ASSUME file' \in Seq(Line), seen_values' = seen_values,
             seen_values \/ file' = file, phase' \notin {"read", "join"}
      PROVE  FileInv'
  BY <1>0, <1>4 DEF FileInv
<1>5. ASSUME NEW s \in Section \cup {Unset}, SectionOrEnd(s) PROVE file' \in Seq(Line)
  <2>1. CASE s = Unset
    BY <1>0, <1>5, <2>1 DEF SectionOrEnd
  <2>2. CASE s # Unset
    BY <1>0, <1>5, <2>2, LineKinds, AppendLine DEF SectionOrEnd, Read
  <2> QED BY <2>1, <2>2
<1>6. ASSUME NEW s \in Section \cup {Unset}, CommitRefused(s) PROVE FileInv'
  BY <1>4, <1>5, <1>6 DEF CommitRefused
<1>7. ASSUME NEW s \in Section \cup {Unset}, CommitCrashes(s) PROVE FileInv'
  BY <1>4, <1>5, <1>7 DEF CommitCrashes, parseVars
<1>8. ASSUME NEW s \in Section \cup {Unset}, CommitNoRoom(s) PROVE FileInv'
  BY <1>4, <1>5, <1>8 DEF CommitNoRoom
<1>9. CASE BadLine
  BY <1>0, <1>4, <1>9 DEF BadLine, parseVars
<1>11. CASE tunnel_list_delete
  BY <1>0, <1>4, <1>11 DEF tunnel_list_delete, parseVars
<1>10. CASE UNCHANGED vars
  <2>1. UNCHANGED <<phase, file, tunnel_name, params, seen_values, tunnels>>
    BY <1>10 DEF vars, parseVars, listVars
  <2>2. Headers' = Headers /\ \A h : Body(h)' = Body(h)
    BY <2>1 DEF Headers, Body
  <2>3. KeyedHeaders' = KeyedHeaders /\ \A h, k : ValueOf(h, k)' = ValueOf(h, k)
    <3>1. file' = file
      BY <2>1
    <3>2. KeyedHeaders' = KeyedHeaders
      BY <3>1 DEF KeyedHeaders, Headers, Body
    <3>3. \A h, k : ValueOf(h, k)' = ValueOf(h, k)
      BY <3>1 DEF ValueOf, Headers, Body
    <3> QED BY <3>2, <3>3
  <2>4. \A h : Written(h)' = Written(h)
    BY <2>1, <2>3 DEF Written
  <2>5. \A H : ListIs(H) => ListIs(H)'
    BY <2>1, <2>4, ListKept
  <2>6. \A c : SectionOpen(c) => SectionOpen(c)'
    <3> TAKE c
    <3> HAVE SectionOpen(c)
    <3>1. PICK H : H = {h \in KeyedHeaders : h < c}
      OBVIOUS
    <3>2. ListIs(H)'
      BY <2>5, <3>1 DEF SectionOpen
    <3>3. ListIs({h \in KeyedHeaders : h < c})'
      BY <2>3, <3>1, <3>2 DEF ListIs
    <3> QED BY <2>1, <2>3, <3>3 DEF SectionOpen
  <2>7. ListIs(KeyedHeaders) => ListIs(KeyedHeaders)'
    <3>1. PICK K : K = KeyedHeaders
      OBVIOUS
    <3> QED BY <2>3, <2>5, <3>1 DEF ListIs
  <2> QED BY <2>1, <2>2, <2>6, <2>7 DEF FileInv, LastHeader
<1> QED BY <1>1, <1>2, <1>3, <1>6, <1>7, <1>8, <1>9, <1>10, <1>11 DEF Next

(* config_parse_event() and ini_parse_file(): for files of any length, the *)
(* tunnels main() waits for are those the file describes section by        *)
(* section, in its order: no value of one section reaches another, though  *)
(* one params and one seen_values serve all of them.                       *)
THEOREM StartsCorrectly == Spec => []StartsAsWritten
PROOF
<1>1. FileInv => StartsAsWritten
  BY DEF FileInv, StartsAsWritten
<1> QED BY <1>1, FileInit, FileNext, Invariant, PTL DEF Spec
=============================================================================
