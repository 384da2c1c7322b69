-------------------------- MODULE EndpointMapProofs --------------------------
(***************************************************************************)
(* Proofs about EndpointMap, for every set of endpoints, addresses, ports, *)
(* nonces and tap ids and every initial size and bound.                    *)
(***************************************************************************)
EXTENDS EndpointMap, FiniteSetTheorems, TLAPS

Rehashing == pc \in {"reset", "insert"}

\* Every entry is in one of the two slots its endpoint hashes to.
HashPlaced ==
  \A s \in Slots(bits) :
    entries[s] # Absent => s \in {SlotA(entries[s].ep), SlotB(entries[s].ep)}

\* Every entry of the copy that was reinserted is in the table.
Refilled ==
  pc = "insert" =>
    \A s \in Present(table) \ todo : \E r \in Slots(bits) : Holds(r, table[s].ep)

\* The inductive invariant of the table's layout: what lookup() and the rehash
\* loop rest on whatever callers add and whatever realloc() leaves in memory.
PlaceInv ==
  /\ TypeOK
  /\ pc \in {"idle", "add", "insert"} => HashPlaced
  /\ Refilled

NoDuplicate(t) ==
  \A r, s \in DOMAIN t :
    t[r] \in Entry /\ t[s] \in Entry /\ t[r].ep = t[s].ep => r = s

\* The copy never holds the endpoint that is being added.
ArgIsNew == \A s \in DOMAIN table : table[s] \in Entry => table[s].ep # arg.ep

\* While the inner loop runs, each binding of the copy is either back in the
\* table or still to be reinserted, and never both.
Conserved ==
  /\ Live(entries) \cup {b \in Entry : \E s \in todo : table[s] = b} = Live(table)
  /\ \A s \in todo, r \in Slots(bits) :
       table[s] \in Entry => ~Holds(r, table[s].ep)

\* The inductive invariant of the table's contents, for callers that add an
\* endpoint only after a failed lookup.
DictInv ==
  /\ pc \in {"idle", "add", "insert"} => NoDuplicate(entries)
  /\ pc = "add" => \A r \in Slots(bits) : ~Holds(r, arg.ep)
  /\ Rehashing => NoDuplicate(table) /\ ArgIsNew
  /\ pc = "insert" => Conserved

-----------------------------------------------------------------------------
(* Slots are indices of the table.                                         *)
LEMMA SlotInTable ==
  ASSUME NEW e, NEW n, NEW k \in Nat
  PROVE  Slot(e, n, k) \in Slots(k)
  BY DEF Slot, Slots

(* A nonce is xored into the index of hash_small() and hash(): endpoints   *)
(* that agree on the masked key share their slot under every nonce.        *)
LEMMA SameClassSameSlot ==
  ASSUME NEW x, NEW y, NEW n, NEW k \in Nat, KeyClass(x, k) = KeyClass(y, k)
  PROVE  Slot(x, n, k) = Slot(y, n, k)
  <1>1. CASE k <= 8
    <2>1. SmallKey(x) \cap (0..(k - 1)) = SmallKey(y) \cap (0..(k - 1))
      BY <1>1 DEF KeyClass
    <2>2. hash_small(x, n) \cap (0..(k - 1)) = hash_small(y, n) \cap (0..(k - 1))
      BY <2>1, Zenon DEF hash_small, Xor
    <2> QED
      BY <1>1, <2>2 DEF Slot
  <1>2. CASE ~(k <= 8)
    <2>1. WideKey(x) \cap (0..(k - 1)) = WideKey(y) \cap (0..(k - 1))
      BY <1>2 DEF KeyClass
    <2>2. hash(x, n) \cap (0..(k - 1)) = hash(y, n) \cap (0..(k - 1))
      BY <2>1, Zenon DEF hash, Xor
    <2> QED
      BY <1>2, <2>2 DEF Slot
  <1> QED
    BY <1>1, <1>2

(* Real entries, ghosts and free slots are told apart.                     *)
LEMMA EntryKinds ==
  ASSUME GhostsApart
  PROVE  /\ Absent \notin Entry /\ Absent \notin GhostEntry
         /\ \A b \in Entry : b.ep \in Endpoint /\ b \notin GhostEntry
         /\ \A b \in GhostEntry : b.ep \in Ghost /\ b \notin Entry
         /\ \A b \in Entry, c \in GhostEntry : b.ep # c.ep
  BY MapAssumption DEF GhostsApart, Entry, GhostEntry

AnyEntry == Entry \cup GhostEntry

(* What a successful try_insert() does to the table: one slot, one of the  *)
(* endpoint's two, which was free or held that endpoint, now holds b.      *)
LEMMA InsertEffect ==
  ASSUME bits \in Nat,
         entries \in [Slots(bits) -> AnyEntry \cup {Absent}],
         NEW b \in AnyEntry, Insert(b)
  PROVE  /\ InsertAt(b.ep) \in Slots(bits)
         /\ InsertAt(b.ep) \in {SlotA(b.ep), SlotB(b.ep)}
         /\ Usable(InsertAt(b.ep), b.ep)
         /\ bits' = bits /\ nonce_a' = nonce_a /\ nonce_b' = nonce_b
         /\ entries' \in [Slots(bits) -> AnyEntry \cup {Absent}]
         /\ entries'[InsertAt(b.ep)] = b
         /\ \A r \in Slots(bits) : r # InsertAt(b.ep) => entries'[r] = entries[r]
  <1>1. SlotA(b.ep) \in Slots(bits) /\ SlotB(b.ep) \in Slots(bits)
    BY SlotInTable DEF SlotA, SlotB
  <1>2. InsertAt(b.ep) \in Slots(bits) /\ InsertAt(b.ep) \in {SlotA(b.ep), SlotB(b.ep)}
    BY <1>1 DEF InsertAt
  <1>3. Usable(InsertAt(b.ep), b.ep)
    BY DEF InsertAt, Insert, CanInsert
  <1> QED
    BY <1>2, <1>3 DEF Insert

(* A failed endpoint_map_lookup() means that no slot holds the endpoint.   *)
LEMMA LookupMiss ==
  ASSUME TypeOK, HashPlaced, NEW e \in Endpoint, endpoint_map_lookup(e) = -1,
         NEW s \in Slots(bits)
  PROVE  ~Holds(s, e)
  <1> SUFFICES ASSUME Holds(s, e) PROVE FALSE
    OBVIOUS
  <1>1. entries[s] \in AnyEntry /\ entries[s].ep = e
    BY DEF Holds, TypeOK, AnyEntry
  <1>2. entries[s].tap \in Nat
    BY <1>1, MapAssumption DEF AnyEntry, Entry, GhostEntry
  <1>3. s \in {SlotA(e), SlotB(e)}
    BY <1>1 DEF Holds, HashPlaced
  <1>4. CASE Holds(SlotA(e), e)
    <2>1. SlotA(e) \in Slots(bits)
      BY SlotInTable DEF SlotA, TypeOK
    <2>2. entries[SlotA(e)] \in AnyEntry
      BY <2>1, <1>4 DEF Holds, TypeOK, AnyEntry
    <2>3. entries[SlotA(e)].tap \in Nat
      BY <2>2, MapAssumption DEF AnyEntry, Entry, GhostEntry
    <2> QED
      BY <1>4, <2>3 DEF endpoint_map_lookup
  <1>5. CASE ~Holds(SlotA(e), e)
    BY <1>2, <1>3, <1>5 DEF endpoint_map_lookup
  <1> QED
    BY <1>4, <1>5

(* try_insert() keeps every entry in a slot its endpoint hashes to, and no  *)
(* endpoint that is stored is displaced.                                   *)
LEMMA InsertPlaced ==
  ASSUME TypeOK, HashPlaced, NEW b \in AnyEntry, Insert(b)
  PROVE  /\ HashPlaced'
         /\ \A r \in Slots(bits) : \A e : Holds(r, e) => Holds(r, e)'
         /\ \E r \in Slots(bits) : Holds(r, b.ep)'
  <1> DEFINE s == InsertAt(b.ep)
  <1>1. entries \in [Slots(bits) -> AnyEntry \cup {Absent}] /\ bits \in Nat
    BY DEF TypeOK, AnyEntry
  <1>2. /\ s \in Slots(bits) /\ s \in {SlotA(b.ep), SlotB(b.ep)} /\ Usable(s, b.ep)
        /\ bits' = bits /\ nonce_a' = nonce_a /\ nonce_b' = nonce_b
        /\ entries'[s] = b
        /\ \A r \in Slots(bits) : r # s => entries'[r] = entries[r]
    BY <1>1, InsertEffect
  <1>3. b # Absent
    BY MapAssumption DEF AnyEntry
  <1> HIDE DEF s
  <1>4. \E r \in Slots(bits) : Holds(r, b.ep)'
    BY <1>2, <1>3 DEF Holds
  <1>5. HashPlaced'
    <2> SUFFICES ASSUME NEW r \in Slots(bits), entries'[r] # Absent
                 PROVE  r \in {SlotA(entries'[r].ep), SlotB(entries'[r].ep)}
      BY <1>2 DEF HashPlaced, SlotA, SlotB
    <2>1. CASE r = s
      BY <2>1, <1>2
    <2>2. CASE r # s
      BY <2>2, <1>2 DEF HashPlaced
    <2> QED
      BY <2>1, <2>2
  <1>6. ASSUME NEW r \in Slots(bits), NEW e, Holds(r, e)
        PROVE  Holds(r, e)'
    <2>1. CASE r = s
      BY <2>1, <1>2, <1>3, <1>6 DEF Usable, Holds
    <2>2. CASE r # s
      BY <2>2, <1>2, <1>6 DEF Holds
    <2> QED
      BY <2>1, <2>2
  <1> QED
    BY <1>4, <1>5, <1>6

(* try_insert() of a ghost, or of an endpoint the table does not hold,     *)
(* duplicates nothing and adds that binding to the live ones.              *)
LEMMA InsertFresh ==
  ASSUME GhostsApart, TypeOK, NoDuplicate(entries), NEW b \in AnyEntry, Insert(b),
         b \in Entry => \A r \in Slots(bits) : ~Holds(r, b.ep)
  PROVE  /\ NoDuplicate(entries)'
         /\ Live(entries)' = Live(entries) \cup ({b} \cap Entry)
         /\ \A r \in Slots(bits), e \in Endpoint :
              Holds(r, e)' => Holds(r, e) \/ e = b.ep
  <1> DEFINE s == InsertAt(b.ep)
  <1>1. entries \in [Slots(bits) -> AnyEntry \cup {Absent}] /\ bits \in Nat
    BY DEF TypeOK, AnyEntry
  <1>2. /\ s \in Slots(bits) /\ s \in {SlotA(b.ep), SlotB(b.ep)} /\ Usable(s, b.ep)
        /\ bits' = bits /\ nonce_a' = nonce_a /\ nonce_b' = nonce_b
        /\ entries' \in [Slots(bits) -> AnyEntry \cup {Absent}]
        /\ entries'[s] = b
        /\ \A r \in Slots(bits) : r # s => entries'[r] = entries[r]
    BY <1>1, InsertEffect
  <1> HIDE DEF s
  <1>3. entries[s] \notin Entry
    <2>1. CASE b \in Entry
      BY <2>1, <1>2, EntryKinds DEF Usable
    <2>2. CASE b \in GhostEntry
      BY <2>2, <1>2, EntryKinds DEF Usable, Holds
    <2> QED
      BY <2>1, <2>2 DEF AnyEntry
  <1>4. NoDuplicate(entries)'
    <2> SUFFICES ASSUME NEW q \in Slots(bits), NEW r \in Slots(bits),
                        entries'[q] \in Entry, entries'[r] \in Entry,
                        entries'[q].ep = entries'[r].ep
                 PROVE  q = r
      BY <1>2 DEF NoDuplicate
    <2>1. CASE q # s /\ r # s
      BY <2>1, <1>1, <1>2 DEF NoDuplicate
    <2>2. CASE q = s /\ r # s
      BY <2>2, <1>2, EntryKinds DEF Holds
    <2>3. CASE q # s /\ r = s
      BY <2>3, <1>2, EntryKinds DEF Holds
    <2> QED
      BY <2>1, <2>2, <2>3
  <1>5. Live(entries)' = Live(entries) \cup ({b} \cap Entry)
    BY <1>1, <1>2, <1>3 DEF Live
  <1>6. \A r \in Slots(bits), e \in Endpoint :
           Holds(r, e)' => Holds(r, e) \/ e = b.ep
    BY <1>2 DEF Holds
  <1> QED
    BY <1>4, <1>5, <1>6

-----------------------------------------------------------------------------
(* The first state has an empty table and no call in progress.             *)
LEMMA PlaceInvInit == Init => PlaceInv
  <1> SUFFICES ASSUME Init PROVE PlaceInv
    OBVIOUS
  <1>1. SomeNonce \in Nonce
    BY NonceAssumption DEF SomeNonce
  <1> QED
    BY <1>1 DEF Init, PlaceInv, TypeOK, Refilled, Cleared

(* realloc() keeps the old half and leaves anything in the new one.        *)
LEMMA GrownType ==
  ASSUME TypeOK, NEW g \in Garbage
  PROVE  Grown(g) \in [Slots(bits + 1) -> AnyEntry \cup {Absent}] /\ bits + 1 \in Nat
  BY DEF Grown, Garbage, TypeOK, AnyEntry

(* Each action of the map keeps its variables in their types.              *)
LEMMA TypeNext == TypeOK /\ [Next]_vars => TypeOK'
  <1> SUFFICES ASSUME TypeOK, [Next]_vars PROVE TypeOK'
    OBVIOUS
  <1> USE DEF AnyEntry
  <1>1. CASE endpoint_map_create
    BY <1>1, MapAssumption DEF endpoint_map_create, TypeOK, Cleared
  <1>2. CASE endpoint_map_delete
    <2>1. SomeNonce \in Nonce
      BY NonceAssumption DEF SomeNonce
    <2> QED
      BY <1>2, <2>1 DEF endpoint_map_delete, TypeOK, Cleared
  <1>3. ASSUME NEW e \in Endpoint, endpoint_map_remove(e) PROVE TypeOK'
    <2> DEFINE s == IF Holds(SlotA(e), e) THEN SlotA(e) ELSE SlotB(e)
    <2>1. entries' = [entries EXCEPT ![s] = Absent]
      BY <1>3 DEF endpoint_map_remove
    <2> HIDE DEF s
    <2>2. entries' \in [Slots(bits) -> AnyEntry \cup {Absent}]
      BY <2>1 DEF TypeOK
    <2> QED
      BY <1>3, <2>2 DEF endpoint_map_remove, TypeOK, addVars
  <1>4. CASE AddInPlace
    <2>1. /\ arg \in AnyEntry /\ Insert(arg) /\ pc' = "idle" /\ ret' = "map"
      BY <1>4 DEF AddInPlace, Return, TypeOK
    <2>2. PICK b \in AnyEntry : b = arg
      BY <2>1
    <2>3. /\ entries' \in [Slots(bits) -> AnyEntry \cup {Absent}]
          /\ bits' = bits /\ nonce_a' = nonce_a /\ nonce_b' = nonce_b
      BY <2>1, <2>2, InsertEffect DEF TypeOK
    <2>4. num_entries' \in Int
      BY <2>1 DEF Insert, TypeOK
    <2> QED
      BY <2>1, <2>3, <2>4 DEF TypeOK
  <1>5. CASE AddRehash
    BY <1>5 DEF AddRehash, BeginRehash, TypeOK, mapVars
  <1>6. CASE AddGrow
    <2> PICK g \in Garbage : Grow(g) /\ BeginRehash(Grown(g))
      BY <1>6 DEF AddGrow
    <2>1. pc = "add"
      BY <1>6 DEF AddGrow
    <2> QED
      BY <2>1, GrownType DEF Grow, BeginRehash, TypeOK
  <1>7. CASE AddNoMemory
    BY <1>7 DEF AddNoMemory, Return, TypeOK, mapVars
  <1>8. CASE AddGrowNoTable
    <2> PICK g \in Garbage : Grow(g)
      BY <1>8 DEF AddGrowNoTable
    <2> QED
      BY <1>8, GrownType DEF AddGrowNoTable, Return, Grow, TypeOK
  <1>13. ASSUME NEW b \in Entry, AddCall(b) PROVE TypeOK'
    BY <1>13 DEF AddCall, TypeOK, mapVars
  <1>9. ASSUME NEW na \in Nonce, NEW nb \in Nonce, Reset(na, nb) PROVE TypeOK'
    BY <1>9 DEF Reset, TypeOK, Cleared, Present
  <1>10. ASSUME NEW s \in todo, Reinsert(s) PROVE TypeOK'
    <2>1. pc = "insert" /\ table[s] \in AnyEntry
      BY <1>10 DEF Reinsert, TypeOK, Present
    <2>2. CASE Insert(table[s]) /\ todo' = todo \ {s} /\ UNCHANGED pc
      <3>1. /\ entries' \in [Slots(bits) -> AnyEntry \cup {Absent}]
            /\ bits' = bits /\ nonce_a' = nonce_a /\ nonce_b' = nonce_b
        BY <2>1, <2>2, InsertEffect DEF TypeOK
      <3>2. num_entries' \in Int
        BY <2>2 DEF Insert, TypeOK
      <3> QED
        BY <1>10, <2>1, <2>2, <3>1, <3>2 DEF Reinsert, TypeOK, Present
    <2>3. CASE pc' = "reset" /\ UNCHANGED mapVars
      BY <1>10, <2>1, <2>3 DEF Reinsert, TypeOK, mapVars
    <2> QED
      BY <1>10, <2>2, <2>3 DEF Reinsert
  <1>11. CASE Finish
    <2>1. pc = "insert" /\ arg \in AnyEntry
      BY <1>11 DEF Finish, TypeOK
    <2>2. CASE Insert(arg) /\ Return("idle", "map")
      <3>1. /\ entries' \in [Slots(bits) -> AnyEntry \cup {Absent}]
            /\ bits' = bits /\ nonce_a' = nonce_a /\ nonce_b' = nonce_b
        BY <2>1, <2>2, InsertEffect DEF TypeOK
      <3>2. num_entries' \in Int
        BY <2>2 DEF Insert, TypeOK
      <3> QED
        BY <2>2, <3>1, <3>2 DEF TypeOK, Return
    <2>3. CASE pc' = "reset" /\ UNCHANGED <<mapVars, addVars, ret>>
      BY <2>1, <2>3 DEF TypeOK, mapVars, addVars
    <2> QED
      BY <1>11, <2>2, <2>3 DEF Finish
  <1>12. CASE UNCHANGED vars
    BY <1>12 DEF vars, mapVars, addVars, TypeOK, Present
  <1> QED
    BY <1>1, <1>2, <1>3, <1>4, <1>5, <1>6, <1>7, <1>8, <1>9, <1>10, <1>11, <1>12, <1>13
    DEF Next, Add, Rehash

(* Each action keeps the layout: creation and reset empty the table, the   *)
(* two paths of try_insert() place, remove() only frees a slot.            *)
LEMMA PlaceInvNext == PlaceInv /\ [Next]_vars => PlaceInv'
  <1> SUFFICES ASSUME PlaceInv, [Next]_vars PROVE PlaceInv'
    OBVIOUS
  <1>0. TypeOK /\ TypeOK'
    BY TypeNext DEF PlaceInv
  <1>1. CASE endpoint_map_create
    BY <1>0, <1>1, MapAssumption DEF endpoint_map_create, PlaceInv, HashPlaced, Refilled, Cleared
  <1>2. CASE endpoint_map_delete
    BY <1>0, <1>2 DEF endpoint_map_delete, PlaceInv, Refilled
  <1>3. ASSUME NEW e \in Endpoint, endpoint_map_remove(e) PROVE PlaceInv'
    <2> DEFINE s == IF Holds(SlotA(e), e) THEN SlotA(e) ELSE SlotB(e)
    <2>1. entries' = [entries EXCEPT ![s] = Absent]
      BY <1>3 DEF endpoint_map_remove
    <2> HIDE DEF s
    <2>2. HashPlaced'
      BY <1>0, <1>3, <2>1 DEF endpoint_map_remove, PlaceInv, HashPlaced, SlotA, SlotB, TypeOK
    <2> QED
      BY <1>0, <1>3, <2>2 DEF endpoint_map_remove, PlaceInv, Refilled
  <1>4. CASE AddInPlace
    <2>1. pc = "add" /\ Insert(arg) /\ pc' = "idle"
      BY <1>4 DEF AddInPlace, Return
    <2>2. PICK b \in AnyEntry : b = arg
      BY <1>0, <2>1 DEF TypeOK, AnyEntry
    <2>3. HashPlaced'
      BY <1>0, <2>1, <2>2, InsertPlaced DEF PlaceInv
    <2> QED
      BY <1>0, <2>1, <2>3 DEF PlaceInv, Refilled
  <1>5. CASE AddRehash \/ AddGrow \/ AddGrowNoTable
    BY <1>0, <1>5 DEF AddRehash, AddGrow, AddGrowNoTable, BeginRehash, Return, PlaceInv, Refilled
  <1>6. CASE AddNoMemory
    BY <1>0, <1>6 DEF AddNoMemory, Return, mapVars, PlaceInv, Refilled, HashPlaced, SlotA, SlotB
  <1>13. ASSUME NEW b \in Entry, AddCall(b) PROVE PlaceInv'
    BY <1>0, <1>13 DEF AddCall, mapVars, PlaceInv, Refilled, HashPlaced, SlotA, SlotB
  <1>7. ASSUME NEW na \in Nonce, NEW nb \in Nonce, Reset(na, nb) PROVE PlaceInv'
    BY <1>0, <1>7 DEF Reset, PlaceInv, Refilled, HashPlaced, Cleared
  <1>8. ASSUME NEW s \in todo, Reinsert(s) PROVE PlaceInv'
    <2>1. pc = "insert" /\ table[s] \in AnyEntry /\ table' = table
      BY <1>0, <1>8 DEF Reinsert, TypeOK, Present, AnyEntry
    <2>2. CASE Insert(table[s]) /\ todo' = todo \ {s} /\ UNCHANGED pc
      <3>1. /\ HashPlaced' /\ bits' = bits
            /\ \A r \in Slots(bits) : \A e : Holds(r, e) => Holds(r, e)'
            /\ \E r \in Slots(bits) : Holds(r, table[s].ep)'
        BY <1>0, <2>1, <2>2, InsertPlaced DEF PlaceInv, Insert
      <3>2. ASSUME NEW t \in Present(table) \ todo'
            PROVE  \E r \in Slots(bits) : Holds(r, table[t].ep)'
        <4>1. CASE t = s
          BY <3>1, <4>1
        <4>2. CASE t # s
          <5>1. PICK r \in Slots(bits) : Holds(r, table[t].ep)
            BY <2>1, <2>2, <3>2, <4>2 DEF PlaceInv, Refilled
          <5> QED
            BY <2>1, <3>1, <5>1 DEF Holds
        <4> QED
          BY <4>1, <4>2
      <3>3. Refilled'
        BY <2>1, <3>1, <3>2 DEF Refilled, Present, Holds
      <3> QED
        BY <1>0, <3>1, <3>3 DEF PlaceInv
    <2>3. CASE pc' = "reset"
      BY <1>0, <2>3 DEF PlaceInv, Refilled
    <2> QED
      BY <1>8, <2>2, <2>3 DEF Reinsert
  <1>9. CASE Finish
    <2>1. pc = "insert" /\ arg \in AnyEntry
      BY <1>0, <1>9 DEF Finish, TypeOK, AnyEntry
    <2>2. CASE Insert(arg) /\ Return("idle", "map")
      BY <1>0, <2>1, <2>2, InsertPlaced DEF PlaceInv, Refilled, Return
    <2>3. CASE pc' = "reset"
      BY <1>0, <2>3 DEF PlaceInv, Refilled
    <2> QED
      BY <1>9, <2>2, <2>3 DEF Finish
  <1>10. CASE UNCHANGED vars
    BY <1>0, <1>10 DEF vars, mapVars, addVars, PlaceInv, Refilled, HashPlaced,
                       SlotA, SlotB, Holds, Present
  <1> QED
    BY <1>1, <1>2, <1>3, <1>4, <1>5, <1>6, <1>7, <1>8, <1>9, <1>10, <1>13
    DEF Next, Add, Rehash

(* The layout invariant holds in every reachable state: whatever is added, *)
(* removed, grown or abandoned, an entry sits where lookup() looks.        *)
THEOREM LayoutInvariant == Spec => []PlaceInv
  BY PlaceInvInit, PlaceInvNext, PTL DEF Spec

(* The variables of endpoint_map.c keep their types.                       *)
THEOREM MapTypeCorrect == Spec => []TypeOK
  <1>1. PlaceInv => TypeOK
    BY DEF PlaceInv
  <1> QED
    BY <1>1, LayoutInvariant, PTL

-----------------------------------------------------------------------------
(* A table of alloc_entries slots is finite, and so are its entries.       *)
LEMMA SlotsFinite ==
  ASSUME NEW k \in Nat
  PROVE  IsFiniteSet(Slots(k)) /\ Cardinality(Slots(k)) = 2 ^ k
  <1>1. IsFiniteSet(0..(k - 1)) /\ Cardinality(0..(k - 1)) = k
    BY FS_Interval
  <1> QED
    BY <1>1, FS_SUBSET DEF Slots

LEMMA PresentFinite ==
  ASSUME TypeOK
  PROVE  Present(entries) \subseteq Slots(bits) /\ IsFiniteSet(Present(entries))
  <1>1. Present(entries) \subseteq Slots(bits)
    BY DEF TypeOK, Present
  <1>2. IsFiniteSet(Slots(bits))
    BY SlotsFinite DEF TypeOK
  <1> QED
    BY <1>1, <1>2, FS_Subset

\* What CountExact says of a state in which it says something.
Counted == num_entries = Cardinality(Present(entries))

(* try_insert() counts the entry it adds, and does not count an update.    *)
LEMMA InsertCounted ==
  ASSUME TypeOK, Counted, NEW b \in AnyEntry, Insert(b)
  PROVE  Counted'
  <1> DEFINE s == InsertAt(b.ep)
  <1>1. entries \in [Slots(bits) -> AnyEntry \cup {Absent}] /\ bits \in Nat
    BY DEF TypeOK, AnyEntry
  <1>2. /\ s \in Slots(bits)
        /\ entries' \in [Slots(bits) -> AnyEntry \cup {Absent}]
        /\ entries'[s] = b
        /\ \A r \in Slots(bits) : r # s => entries'[r] = entries[r]
    BY <1>1, InsertEffect
  <1>3. b # Absent
    BY MapAssumption DEF AnyEntry
  <1>4. num_entries' = num_entries + (IF entries[s] = Absent THEN 1 ELSE 0)
    BY DEF Insert
  <1> HIDE DEF s
  <1>5. Present(entries') = Present(entries) \cup {s}
    BY <1>1, <1>2, <1>3 DEF Present
  <1>6. s \in Present(entries) <=> entries[s] # Absent
    BY <1>1, <1>2 DEF Present
  <1>7. /\ IsFiniteSet(Present(entries)) /\ Cardinality(Present(entries)) \in Nat
    BY PresentFinite, FS_CardinalityType
  <1>8. Cardinality(Present(entries) \cup {s})
          = IF s \in Present(entries) THEN Cardinality(Present(entries))
            ELSE Cardinality(Present(entries)) + 1
    BY <1>7, FS_AddElement
  <1> QED
    BY <1>4, <1>5, <1>6, <1>7, <1>8 DEF Counted

(* An empty table counts nothing.                                          *)
LEMMA ClearedCounted ==
  ASSUME NEW k
  PROVE  Cardinality(Present(Cleared(k))) = 0
  <1>1. Present(Cleared(k)) = {}
    BY DEF Present, Cleared
  <1> QED
    BY <1>1, FS_EmptySet

(* Each action keeps the count where CountExact asks for it; a table that   *)
(* realloc() has just doubled, with whatever its new half holds, is left   *)
(* only through a reset.                                                   *)
LEMMA CountNext == TypeOK /\ CountExact /\ [Next]_vars => CountExact'
  <1> SUFFICES ASSUME TypeOK, CountExact, [Next]_vars PROVE CountExact'
    OBVIOUS
  <1>0. CountExact <=> (pc \in {"idle", "add", "insert"} => Counted)
    BY DEF CountExact, Counted
  <1>1. CASE endpoint_map_create
    BY <1>1, ClearedCounted DEF endpoint_map_create, CountExact
  <1>2. CASE endpoint_map_delete
    BY <1>2 DEF endpoint_map_delete, CountExact
  <1>3. ASSUME NEW e \in Endpoint, endpoint_map_remove(e) PROVE CountExact'
    <2> DEFINE s == IF Holds(SlotA(e), e) THEN SlotA(e) ELSE SlotB(e)
    <2>1. /\ pc = "idle" /\ pc' = "idle" /\ Holds(s, e)
          /\ num_entries' = num_entries - 1
          /\ entries' = [entries EXCEPT ![s] = Absent]
      BY <1>3 DEF endpoint_map_remove, endpoint_map_lookup
    <2>2. s \in Slots(bits)
      BY SlotInTable DEF SlotA, SlotB, TypeOK
    <2> HIDE DEF s
    <2>3. s \in Present(entries)
      BY <2>1, <2>2 DEF Present, Holds, TypeOK
    <2>4. Present(entries') = Present(entries) \ {s}
      BY <2>1, <2>2 DEF Present, TypeOK
    <2>5. IsFiniteSet(Present(entries))
      BY PresentFinite
    <2>6. Cardinality(Present(entries) \ {s}) = Cardinality(Present(entries)) - 1
      BY <2>3, <2>5, FS_RemoveElement
    <2> QED
      BY <2>1, <2>4, <2>6 DEF CountExact
  <1>4. CASE AddInPlace
    <2>1. pc = "add" /\ Insert(arg) /\ arg \in AnyEntry
      BY <1>4 DEF AddInPlace, TypeOK, AnyEntry
    <2> QED
      BY <1>0, <2>1, InsertCounted DEF CountExact, Counted
  <1>5. CASE AddRehash \/ AddGrow \/ AddGrowNoTable
    BY <1>5 DEF AddRehash, AddGrow, AddGrowNoTable, BeginRehash, Return, CountExact
  <1>6. CASE AddNoMemory
    BY <1>6 DEF AddNoMemory, mapVars, CountExact, Present
  <1>13. ASSUME NEW b \in Entry, AddCall(b) PROVE CountExact'
    BY <1>13 DEF AddCall, mapVars, CountExact, Present
  <1>7. ASSUME NEW na \in Nonce, NEW nb \in Nonce, Reset(na, nb) PROVE CountExact'
    BY <1>7, ClearedCounted DEF Reset, CountExact
  <1>8. ASSUME NEW s \in todo, Reinsert(s) PROVE CountExact'
    <2>1. pc = "insert" /\ table[s] \in AnyEntry
      BY <1>8 DEF Reinsert, TypeOK, Present, AnyEntry
    <2>2. CASE Insert(table[s])
      BY <1>0, <2>1, <2>2, InsertCounted DEF CountExact, Counted
    <2>3. CASE pc' = "reset"
      BY <2>3 DEF CountExact
    <2> QED
      BY <1>8, <2>2, <2>3 DEF Reinsert
  <1>9. CASE Finish
    <2>1. pc = "insert" /\ arg \in AnyEntry
      BY <1>9 DEF Finish, TypeOK, AnyEntry
    <2>2. CASE Insert(arg)
      BY <1>0, <2>1, <2>2, InsertCounted DEF CountExact, Counted
    <2>3. CASE pc' = "reset"
      BY <2>3 DEF CountExact
    <2> QED
      BY <1>9, <2>2, <2>3 DEF Finish
  <1>10. CASE UNCHANGED vars
    BY <1>10 DEF vars, mapVars, CountExact, Present
  <1> QED
    BY <1>1, <1>2, <1>3, <1>4, <1>5, <1>6, <1>7, <1>8, <1>9, <1>10, <1>13
    DEF Next, Add, Rehash

(* num_entries is the number of present entries whenever a call can return *)
(* or a rehash pass inserts: across updates in place, removals, growth,    *)
(* failed allocations and abandoned passes, whatever callers add.          *)
THEOREM CountCorrect == Spec => []CountExact
  <1>1. Init => CountExact
    BY DEF Init, CountExact
  <1> QED
    BY <1>1, CountNext, MapTypeCorrect, PTL DEF Spec

(* The test that makes endpoint_map_add() grow the table is exact: where  *)
(* it is made num_entries never passes alloc_entries, and equals it only when   *)
(* no slot at all is free.                                                 *)
THEOREM GrowsWhenFull ==
  Spec => [](pc \in {"idle", "add"} => /\ num_entries <= 2 ^ bits
                                       /\ Full <=> Present(entries) = Slots(bits))
  <1>1. TypeOK /\ CountExact /\ pc \in {"idle", "add"} =>
          /\ num_entries <= 2 ^ bits
          /\ Full <=> Present(entries) = Slots(bits)
    <2> SUFFICES ASSUME TypeOK, CountExact, pc \in {"idle", "add"}
                 PROVE  /\ num_entries <= 2 ^ bits
                        /\ Full <=> Present(entries) = Slots(bits)
      OBVIOUS
    <2>1. /\ IsFiniteSet(Slots(bits)) /\ Cardinality(Slots(bits)) = 2 ^ bits
          /\ Cardinality(Slots(bits)) \in Nat
      BY SlotsFinite, FS_CardinalityType DEF TypeOK
    <2>2. /\ Present(entries) \subseteq Slots(bits)
          /\ Cardinality(Present(entries)) \in Nat
      BY PresentFinite, FS_CardinalityType
    <2>3. /\ Cardinality(Present(entries)) <= Cardinality(Slots(bits))
          /\ Cardinality(Slots(bits)) = Cardinality(Present(entries)) => Slots(bits) = Present(entries)
      BY <2>1, <2>2, FS_Subset
    <2>4. num_entries = Cardinality(Present(entries))
      BY DEF CountExact
    <2> QED
      BY <2>1, <2>2, <2>3, <2>4 DEF Full
  <1> QED
    BY <1>1, CountCorrect, MapTypeCorrect, PTL

-----------------------------------------------------------------------------
(* One step keeps a hopeless set of keys hopeless: only a successful last  *)
(* insertion could end the loop, and it would leave three endpoints in the *)
(* two slots their common class gives them.                                *)
LEMMA HopelessStep ==
  ASSUME PlaceInv, [Next]_vars, Hopeless
  PROVE  Hopeless'
  <1>1. CASE UNCHANGED <<arg, table, bits>> /\ pc' \in {"reset", "insert"}
    BY <1>1 DEF Hopeless, WantedKeys, Present
  <1>2. CASE Finish /\ Insert(arg)
    <2> PICK x, y, z \in WantedKeys :
               /\ x # y /\ y # z /\ x # z
               /\ KeyClass(x, bits) = KeyClass(y, bits)
               /\ KeyClass(y, bits) = KeyClass(z, bits)
      BY DEF Hopeless
    <2>1. TypeOK /\ HashPlaced /\ pc = "insert" /\ todo = {} /\ arg \in AnyEntry
      BY <1>2 DEF PlaceInv, Finish, TypeOK, AnyEntry
    <2> PICK b \in AnyEntry : b = arg
      BY <2>1
    <2>2. /\ HashPlaced'
          /\ bits' = bits /\ nonce_a' = nonce_a /\ nonce_b' = nonce_b
          /\ \A r \in Slots(bits) : \A e : Holds(r, e) => Holds(r, e)'
          /\ \E r \in Slots(bits) : Holds(r, b.ep)'
      <3>1. Insert(b)
        BY <1>2
      <3> QED
        BY <3>1, <2>1, InsertPlaced DEF Insert
    <2>3. ASSUME NEW e \in WantedKeys
          PROVE  \E r \in Slots(bits) : Holds(r, e)' /\ r \in {SlotA(e), SlotB(e)}
      <3>1. PICK r \in Slots(bits) : Holds(r, e)'
        <4>1. CASE e = b.ep
          BY <2>2, <4>1
        <4>2. CASE e # b.ep
          BY <2>1, <2>2, <4>2 DEF WantedKeys, PlaceInv, Refilled
        <4> QED
          BY <4>1, <4>2
      <3>2. r \in {SlotA(e), SlotB(e)}
        BY <2>2, <3>1 DEF HashPlaced, Holds, SlotA, SlotB
      <3> QED
        BY <3>1, <3>2
    <2>4. SlotA(x) = SlotA(y) /\ SlotA(y) = SlotA(z) /\ SlotB(x) = SlotB(y) /\ SlotB(y) = SlotB(z)
      BY <2>1, SameClassSameSlot DEF SlotA, SlotB, TypeOK
    <2>5. PICK p \in Slots(bits), q \in Slots(bits), r \in Slots(bits) :
               /\ Holds(p, x)' /\ Holds(q, y)' /\ Holds(r, z)'
               /\ {p, q, r} \subseteq {SlotA(x), SlotB(x)}
      BY <2>3, <2>4
    <2>6. p # q /\ q # r /\ p # r
      BY <2>5 DEF Holds
    <2> QED
      BY <2>5, <2>6
  <1>3. CASE UNCHANGED vars
    BY <1>1, <1>3 DEF vars, mapVars, addVars, Hopeless
  <1>4. ASSUME NEW na \in Nonce, NEW nb \in Nonce, Reset(na, nb) PROVE Hopeless'
    BY <1>1, <1>4 DEF Reset
  <1>5. ASSUME NEW s \in todo, Reinsert(s) PROVE Hopeless'
    BY <1>1, <1>5 DEF Reinsert, Insert, mapVars
  <1>6. CASE Finish
    BY <1>1, <1>2, <1>6 DEF Finish, mapVars, addVars
  <1> QED
    BY <1>3, <1>4, <1>5, <1>6
    DEF Hopeless, Next, Rehash, Add, AddInPlace, AddRehash, AddGrow, AddNoMemory, AddGrowNoTable,
        AddCall, endpoint_map_create, endpoint_map_delete, endpoint_map_remove

(* For every address, port, nonce and table size: once endpoint_map_add()  *)
(* must store three endpoints of one hash class, it never returns.         *)
THEOREM HopelessForever == Spec => EndlessRehash
  <1>1. PlaceInv /\ [Next]_vars => (Hopeless => Hopeless')
    BY HopelessStep
  <1> QED
    BY <1>1, LayoutInvariant, PTL DEF Spec, EndlessRehash

-----------------------------------------------------------------------------
(* An endpoint that worker_thread() adds is in no slot: its lookup failed. *)
LEMMA AddIsFresh ==
  ASSUME PlaceInv, ~Readd, NEW b \in Entry, AddCall(b)
  PROVE  \A r \in Slots(bits) : ~Holds(r, b.ep)
  <1>1. TypeOK /\ HashPlaced /\ b.ep \in Endpoint /\ endpoint_map_lookup(b.ep) = -1
    BY DEF PlaceInv, AddCall, Entry
  <1> QED
    BY <1>1, LookupMiss

(* When the inner loop is done the table holds the copy's bindings, and    *)
(* not yet the new endpoint.                                               *)
LEMMA LoopDone ==
  ASSUME GhostsApart, PlaceInv, DictInv, pc = "insert", todo = {}
  PROVE  /\ Live(entries) = Live(table)
         /\ \A r \in Slots(bits) : ~Holds(r, arg.ep)
         /\ arg \in Entry
  <1>1. Live(entries) = Live(table)
    BY DEF DictInv, Conserved
  <1>2. ASSUME NEW r \in Slots(bits), Holds(r, arg.ep) PROVE FALSE
    <2>1. arg \in Entry /\ entries[r] \in AnyEntry
      BY <1>2 DEF PlaceInv, TypeOK, Holds, AnyEntry
    <2>2. entries[r] \in Entry
      BY <1>2, <2>1, EntryKinds DEF Holds, AnyEntry
    <2>3. entries[r] \in Live(table)
      BY <1>1, <2>2 DEF Live, PlaceInv, TypeOK
    <2> QED
      BY <1>2, <2>3 DEF Live, DictInv, ArgIsNew, Rehashing, Holds
  <1> QED
    BY <1>1, <1>2 DEF PlaceInv, TypeOK

(* The copy taken for a rehash, grown or not, has the bindings of the      *)
(* table: what realloc() leaves in the new half names no real endpoint.    *)
LEMMA GrownLive ==
  ASSUME GhostsApart, TypeOK, NEW g \in Garbage
  PROVE  /\ Live(Grown(g)) = Live(entries)
         /\ NoDuplicate(entries) => NoDuplicate(Grown(g))
  <1> DEFINE G == Grown(g)
  <1>1. /\ DOMAIN G = Slots(bits + 1) /\ DOMAIN entries = Slots(bits)
        /\ Slots(bits) \subseteq Slots(bits + 1)
        /\ \A s \in Slots(bits) : G[s] = entries[s]
    BY DEF Grown, TypeOK, Slots
  <1>2. \A s \in Slots(bits + 1) : s \notin Slots(bits) => G[s] \notin Entry
    <2>1. \A s \in Slots(bits + 1) : s \notin Slots(bits) => G[s] \in GhostEntry \cup {Absent}
      BY DEF Grown, Garbage
    <2> QED
      BY <2>1, EntryKinds
  <1> HIDE DEF G
  <1>3. Live(G) = Live(entries)
    BY <1>1, <1>2 DEF Live
  <1>4. NoDuplicate(entries) => NoDuplicate(G)
    BY <1>1, <1>2 DEF NoDuplicate
  <1> QED
    BY <1>3, <1>4 DEF G

(* Init makes no claim on the contents: there is no map.                   *)
LEMMA DictInvInit == Init => DictInv
  BY DEF Init, DictInv, Rehashing

(* Each action keeps the bindings apart and, inside the rehash loop,       *)
(* neither loses nor duplicates one.                                       *)
LEMMA DictInvNext ==
  ASSUME GhostsApart, ~Readd, PlaceInv, DictInv, [Next]_vars
  PROVE  DictInv'
  <1>0. TypeOK /\ TypeOK'
    BY TypeNext DEF PlaceInv
  <1>1. CASE endpoint_map_create
    BY <1>1, EntryKinds DEF endpoint_map_create, DictInv, NoDuplicate, Cleared, Rehashing
  <1>2. CASE endpoint_map_delete
    BY <1>2 DEF endpoint_map_delete, DictInv, Rehashing
  <1>3. ASSUME NEW e \in Endpoint, endpoint_map_remove(e) PROVE DictInv'
    <2> DEFINE s == IF Holds(SlotA(e), e) THEN SlotA(e) ELSE SlotB(e)
    <2>1. entries' = [entries EXCEPT ![s] = Absent]
      BY <1>3 DEF endpoint_map_remove
    <2> HIDE DEF s
    <2>2. NoDuplicate(entries)'
      BY <1>0, <1>3, <2>1, EntryKinds DEF endpoint_map_remove, DictInv, NoDuplicate, TypeOK
    <2> QED
      BY <1>3, <2>2 DEF endpoint_map_remove, DictInv, Rehashing
  <1>4. CASE AddInPlace
    <2>1. /\ pc = "add" /\ Insert(arg) /\ pc' = "idle" /\ arg \in Entry
          /\ NoDuplicate(entries) /\ \A r \in Slots(bits) : ~Holds(r, arg.ep)
      BY <1>0, <1>4 DEF AddInPlace, Return, DictInv, TypeOK
    <2>2. PICK b \in AnyEntry : b = arg
      BY <2>1 DEF AnyEntry
    <2>3. NoDuplicate(entries)'
      BY <1>0, <2>1, <2>2, InsertFresh
    <2> QED
      BY <2>1, <2>3 DEF DictInv, Rehashing
  <1>5. CASE AddRehash
    <2>1. /\ table' = entries /\ arg' = arg /\ pc' = "reset"
          /\ NoDuplicate(entries) /\ DOMAIN entries = Slots(bits)
          /\ \A r \in Slots(bits) : ~Holds(r, arg.ep)
      BY <1>0, <1>5 DEF AddRehash, BeginRehash, DictInv, TypeOK
    <2>2. NoDuplicate(table)'
      BY <2>1 DEF NoDuplicate
    <2>3. ArgIsNew'
      BY <2>1, EntryKinds DEF ArgIsNew, Holds
    <2> QED
      BY <2>1, <2>2, <2>3 DEF DictInv
  <1>6. CASE AddGrow
    <2> PICK g \in Garbage : Grow(g) /\ BeginRehash(Grown(g))
      BY <1>6 DEF AddGrow
    <2>1. /\ table' = Grown(g) /\ arg' = arg /\ pc' = "reset" /\ NoDuplicate(entries)
          /\ \A r \in Slots(bits) : ~Holds(r, arg.ep)
      BY <1>6 DEF AddGrow, BeginRehash, DictInv
    <2>2. NoDuplicate(table)'
      BY <1>0, <2>1, GrownLive DEF NoDuplicate
    <2>3. ArgIsNew'
      <3> SUFFICES ASSUME NEW s \in DOMAIN table', table'[s] \in Entry
                   PROVE  table'[s].ep # arg.ep
        BY <2>1 DEF ArgIsNew
      <3>1. table'[s] \in Live(entries)
        BY <1>0, <2>1, GrownLive DEF Live
      <3>2. PICK r \in Slots(bits) : entries[r] = table'[s]
        BY <1>0, <3>1 DEF Live, TypeOK
      <3> QED
        BY <2>1, <3>2, EntryKinds DEF Holds
    <2> QED
      BY <2>1, <2>2, <2>3 DEF DictInv
  <1>7. CASE AddNoMemory
    BY <1>7 DEF AddNoMemory, Return, mapVars, DictInv, Rehashing, NoDuplicate
  <1>8. CASE AddGrowNoTable
    BY <1>8 DEF AddGrowNoTable, Return, DictInv, Rehashing
  <1>13. ASSUME NEW b \in Entry, AddCall(b) PROVE DictInv'
    <2>1. \A r \in Slots(bits) : ~Holds(r, b.ep)
      BY <1>13, AddIsFresh
    <2> QED
      BY <1>13, <2>1 DEF AddCall, mapVars, DictInv, Rehashing, NoDuplicate, Holds
  <1>9. ASSUME NEW na \in Nonce, NEW nb \in Nonce, Reset(na, nb) PROVE DictInv'
    <2>1. /\ entries' = Cleared(bits) /\ bits' = bits /\ todo' = Present(table)
          /\ table' = table /\ arg' = arg /\ pc' = "insert" /\ pc = "reset"
          /\ DOMAIN table = Slots(bits)
      BY <1>0, <1>9 DEF Reset, TypeOK
    <2>2. NoDuplicate(entries)'
      BY <2>1, EntryKinds DEF NoDuplicate, Cleared
    <2>3. Live(entries)' = {}
      BY <2>1, EntryKinds DEF Live, Cleared
    <2>4. {b \in Entry : \E s \in Present(table) : table[s] = b} = Live(table)
      BY <2>1, EntryKinds DEF Live, Present
    <2>5. \A r \in Slots(bits) : \A e : ~Holds(r, e)'
      BY <2>1 DEF Holds, Cleared
    <2>6. Conserved'
      <3>1. (Live(entries) \cup {b \in Entry : \E s \in todo : table[s] = b} = Live(table))'
        BY <2>1, <2>3, <2>4 DEF Live
      <3> QED
        BY <2>1, <2>5, <3>1 DEF Conserved, Holds
    <2> QED
      BY <2>1, <2>2, <2>6 DEF DictInv, NoDuplicate, ArgIsNew, Rehashing
  <1>10. ASSUME NEW s \in todo, Reinsert(s) PROVE DictInv'
    <2>1. /\ pc = "insert" /\ table[s] \in AnyEntry /\ table' = table /\ arg' = arg
          /\ s \in DOMAIN table
      BY <1>0, <1>10 DEF Reinsert, TypeOK, Present, AnyEntry
    <2>2. CASE Insert(table[s]) /\ todo' = todo \ {s} /\ UNCHANGED pc
      <3> PICK b \in AnyEntry : b = table[s]
        BY <2>1
      <3>1. Conserved /\ NoDuplicate(table) /\ NoDuplicate(entries)
        BY <2>1 DEF DictInv, Rehashing
      <3>2. b \in Entry => \A r \in Slots(bits) : ~Holds(r, b.ep)
        BY <3>1 DEF Conserved
      <3>3. Insert(b) /\ bits' = bits
        BY <2>2 DEF Insert
      <3>4. /\ NoDuplicate(entries)'
            /\ Live(entries)' = Live(entries) \cup ({b} \cap Entry)
            /\ \A r \in Slots(bits), e \in Endpoint :
                 Holds(r, e)' => Holds(r, e) \/ e = b.ep
        BY <1>0, <3>1, <3>2, <3>3, InsertFresh
      <3>5. ASSUME NEW t \in todo', NEW r \in Slots(bits), table[t] \in Entry
            PROVE  ~Holds(r, table[t].ep)'
        <4> PICK e \in Endpoint : e = table[t].ep
          BY <3>5, EntryKinds
        <4>1. t \in todo /\ t # s /\ t \in DOMAIN table
          BY <1>0, <2>1, <2>2 DEF TypeOK, Present
        <4>2. ~Holds(r, e)
          BY <3>1, <3>5, <4>1 DEF Conserved
        <4>3. e # b.ep
          <5>1. CASE b \in Entry
            BY <2>1, <3>1, <3>5, <4>1, <5>1 DEF NoDuplicate
          <5>2. CASE b \in GhostEntry
            BY <3>5, <5>2, EntryKinds
          <5> QED
            BY <5>1, <5>2 DEF AnyEntry
        <4>4. ~Holds(r, e)'
          BY <3>4, <4>2, <4>3
        <4> QED
          BY <2>1, <4>4 DEF Holds
      <3>6. (Live(entries) \cup {c \in Entry : \E t \in todo : table[t] = c} = Live(table))'
        <4>1. Live(table)' = Live(table)
          BY <2>1 DEF Live
        <4> DEFINE Rest == {c \in Entry : \E t \in todo' : table[t] = c}
        <4>2. {c \in Entry : \E t \in todo : table[t] = c} = Rest \cup ({b} \cap Entry)
          BY <2>2
        <4>3. Live(entries)' \cup Rest = Live(table)
          BY <3>1, <3>4, <4>2 DEF Conserved
        <4> QED
          BY <2>1, <4>1, <4>3
      <3>7. Conserved'
        BY <2>1, <3>3, <3>5, <3>6 DEF Conserved, Holds
      <3> QED
        BY <2>1, <2>2, <3>1, <3>4, <3>7 DEF DictInv, NoDuplicate, ArgIsNew, Rehashing
    <2>3. CASE pc' = "reset"
      BY <2>1, <2>3 DEF DictInv, NoDuplicate, ArgIsNew, Rehashing
    <2> QED
      BY <1>10, <2>2, <2>3 DEF Reinsert
  <1>11. CASE Finish
    <2>1. pc = "insert" /\ todo = {}
      BY <1>11 DEF Finish
    <2>2. CASE Insert(arg) /\ Return("idle", "map")
      <3> PICK b \in AnyEntry : b = arg
        BY <2>1, LoopDone DEF AnyEntry
      <3>1. NoDuplicate(entries)'
        BY <1>0, <2>1, <2>2, LoopDone, InsertFresh DEF DictInv
      <3> QED
        BY <2>2, <3>1 DEF DictInv, Rehashing, Return
    <2>3. CASE pc' = "reset" /\ UNCHANGED <<mapVars, addVars, ret>>
      BY <2>1, <2>3 DEF DictInv, NoDuplicate, ArgIsNew, Rehashing, addVars
    <2> QED
      BY <1>11, <2>2, <2>3 DEF Finish
  <1>12. CASE UNCHANGED vars
    BY <1>12 DEF vars, mapVars, addVars, DictInv, NoDuplicate, ArgIsNew, Rehashing,
                 Conserved, Live, Holds
  <1> QED
    BY <1>1, <1>2, <1>3, <1>4, <1>5, <1>6, <1>7, <1>8, <1>9, <1>10, <1>11, <1>12, <1>13
    DEF Next, Add, Rehash

(* The contents invariant, for callers that look an endpoint up before     *)
(* adding it and memory that spells no real endpoint.                      *)
THEOREM ContentsInvariant ==
  ASSUME GhostsApart, ~Readd
  PROVE  Spec => []DictInv
  <1>1. PlaceInv /\ DictInv /\ [Next]_vars => DictInv'
    BY DictInvNext
  <1> QED
    BY <1>1, DictInvInit, LayoutInvariant, PTL DEF Spec

(* endpoint_map_lookup() finds the binding of an endpoint exactly when the *)
(* table stores it, after any history of additions, removals, rehashes,    *)
(* growth and failed allocations.                                          *)
THEOREM LookupCorrect ==
  ASSUME GhostsApart, ~Readd
  PROVE  Spec => []LookupFindsBinding
  <1>1. ASSUME PlaceInv, DictInv PROVE LookupFindsBinding
    <2> SUFFICES ASSUME pc = "idle", NEW e \in Endpoint, NEW t \in TapId
                 PROVE  endpoint_map_lookup(e) = t <=> [ep |-> e, tap |-> t] \in Live(entries)
      BY DEF LookupFindsBinding
    <2>1. /\ TypeOK /\ HashPlaced /\ NoDuplicate(entries)
          /\ SlotA(e) \in Slots(bits) /\ SlotB(e) \in Slots(bits)
          /\ DOMAIN entries = Slots(bits)
      BY <1>1, SlotInTable DEF PlaceInv, DictInv, TypeOK, SlotA, SlotB
    <2>2. ASSUME NEW s \in Slots(bits), Holds(s, e)
          PROVE  /\ entries[s] \in Entry
                 /\ entries[s] = [ep |-> e, tap |-> entries[s].tap]
                 /\ entries[s].tap \in Nat
      <3>1. entries[s] \in AnyEntry /\ entries[s].ep = e
        BY <2>1, <2>2 DEF Holds, TypeOK, AnyEntry
      <3>2. entries[s] \in Entry
        BY <3>1 DEF AnyEntry, Entry, GhostEntry, GhostsApart
      <3> QED
        BY <3>1, <3>2, MapAssumption DEF Entry
    <2>3. ASSUME endpoint_map_lookup(e) = t PROVE [ep |-> e, tap |-> t] \in Live(entries)
      <3>1. t # -1
        BY MapAssumption
      <3>2. PICK s \in Slots(bits) : Holds(s, e) /\ entries[s].tap = t
        BY <2>1, <2>3, <3>1 DEF endpoint_map_lookup
      <3> QED
        BY <2>1, <2>2, <3>2 DEF Live
    <2>4. ASSUME [ep |-> e, tap |-> t] \in Live(entries) PROVE endpoint_map_lookup(e) = t
      <3>1. PICK s \in Slots(bits) : entries[s] = [ep |-> e, tap |-> t] /\ entries[s] \in Entry
        BY <2>1, <2>4 DEF Live
      <3>2. Holds(s, e)
        BY <3>1, EntryKinds DEF Holds
      <3>3. s \in {SlotA(e), SlotB(e)}
        BY <2>1, <3>1, <3>2 DEF HashPlaced, Holds
      <3>4. CASE Holds(SlotA(e), e)
        <4>1. SlotA(e) = s
          BY <2>1, <2>2, <3>1, <3>4 DEF NoDuplicate, Holds
        <4> QED
          BY <3>1, <3>4, <4>1 DEF endpoint_map_lookup
      <3>5. CASE ~Holds(SlotA(e), e)
        <4>1. SlotB(e) = s /\ Holds(SlotB(e), e)
          BY <3>2, <3>3, <3>5
        <4> QED
          BY <3>1, <3>5, <4>1 DEF endpoint_map_lookup
      <3> QED
        BY <3>4, <3>5
    <2> QED
      BY <2>3, <2>4
  <1> QED
    BY <1>1, LayoutInvariant, ContentsInvariant, PTL

(* What the dictionary sees of the map does not change.                    *)
LEMMA DictStutter ==
  ASSUME UNCHANGED <<Bindings, MapStage, Pending, ret>>
  PROVE  UNCHANGED Dict!vars
  BY DEF Dict!vars

(* Every step of the table is a step of the dictionary or a stutter: the   *)
(* return of an add completes, refuses or strands the call that was made.  *)
LEMMA DictStep ==
  ASSUME GhostsApart, ~Readd, PlaceInv, DictInv, [Next]_vars
  PROVE  [Dict!Next]_(Dict!vars)
  <1>0. TypeOK /\ TypeOK'
    BY TypeNext DEF PlaceInv
  <1>1. CASE endpoint_map_create
    <2>1. Bindings = {} /\ Bindings' = {}
      BY <1>1, EntryKinds DEF endpoint_map_create, Bindings, Live, Cleared
    <2>2. Dict!Create
      BY <1>1, <2>1 DEF endpoint_map_create, MapStage, Pending, Dict!Create
    <2> QED
      BY <2>2 DEF Dict!Next
  <1>2. CASE endpoint_map_delete
    <2>1. Dict!Delete
      BY <1>2 DEF endpoint_map_delete, Bindings, MapStage, Pending, Dict!Delete, Dict!Idle
    <2> QED
      BY <2>1 DEF Dict!Next
  <1>3. ASSUME NEW e \in Endpoint, endpoint_map_remove(e) PROVE Dict!Next
    <2> DEFINE s == IF Holds(SlotA(e), e) THEN SlotA(e) ELSE SlotB(e)
    <2>1. /\ entries' = [entries EXCEPT ![s] = Absent] /\ pc = "idle" /\ pc' = "idle"
          /\ DOMAIN entries = Slots(bits) /\ NoDuplicate(entries) /\ ret' = ret
      BY <1>0, <1>3 DEF endpoint_map_remove, TypeOK, DictInv
    <2>2. s \in Slots(bits) /\ Holds(s, e)
      BY <1>0, <1>3, SlotInTable DEF endpoint_map_remove, endpoint_map_lookup, SlotA, SlotB, TypeOK
    <2> HIDE DEF s
    <2>3. entries[s] \in Entry /\ entries[s].ep = e
      BY <1>0, <2>2 DEF Holds, TypeOK, AnyEntry, GhostsApart, Entry, GhostEntry
    <2>4. Live(entries)' = {c \in Live(entries) : c.ep # e}
      BY <2>1, <2>2, <2>3, EntryKinds DEF Live, NoDuplicate
    <2>5. \E c \in Live(entries) : c.ep = e
      BY <2>1, <2>2, <2>3 DEF Live
    <2>6. Dict!Remove(e)
      BY <2>1, <2>4, <2>5 DEF Dict!Remove, Dict!Idle, Bindings, MapStage, Pending
    <2> QED
      BY <2>6 DEF Dict!Next
  <1>4. CASE AddInPlace
    <2>1. /\ pc = "add" /\ Insert(arg) /\ pc' = "idle" /\ ret' = "map" /\ arg \in Entry
          /\ NoDuplicate(entries) /\ \A r \in Slots(bits) : ~Holds(r, arg.ep)
      BY <1>0, <1>4 DEF AddInPlace, Return, DictInv, TypeOK
    <2>2. PICK b \in AnyEntry : b = arg
      BY <2>1 DEF AnyEntry
    <2>3. Live(entries)' = Live(entries) \cup {b}
      BY <1>0, <2>1, <2>2, InsertFresh
    <2>4. Dict!Complete
      BY <2>1, <2>2, <2>3, EntryKinds DEF Dict!Complete, Bindings, MapStage, Pending
    <2> QED
      BY <2>4 DEF Dict!Next
  <1>5. CASE AddRehash
    BY <1>5, DictStutter DEF AddRehash, BeginRehash, Bindings, MapStage, Pending, Live
  <1>6. CASE AddGrow
    <2> PICK g \in Garbage : Grow(g) /\ BeginRehash(Grown(g))
      BY <1>6 DEF AddGrow
    <2>1. Bindings = Live(entries) /\ Bindings' = Live(Grown(g))
      BY <1>6 DEF AddGrow, BeginRehash, Bindings, Live
    <2>2. UNCHANGED <<MapStage, Pending, ret>>
      BY <1>6 DEF AddGrow, BeginRehash, MapStage, Pending
    <2> QED
      BY <1>0, <2>1, <2>2, GrownLive, DictStutter
  <1>7. CASE AddNoMemory
    <2>1. arg # Absent
      BY <1>0, <1>7, EntryKinds DEF AddNoMemory, TypeOK
    <2>2. Dict!Refuse
      BY <1>7, <2>1 DEF AddNoMemory, Return, mapVars, Dict!Refuse, Bindings, MapStage, Pending, Live
    <2> QED
      BY <2>2 DEF Dict!Next
  <1>8. CASE AddGrowNoTable
    <2>1. arg # Absent
      BY <1>0, <1>8, EntryKinds DEF AddGrowNoTable, TypeOK
    <2>2. Dict!Strand
      BY <1>8, <2>1 DEF AddGrowNoTable, Return, Dict!Strand, Bindings, MapStage, Pending
    <2> QED
      BY <2>2 DEF Dict!Next
  <1>9. ASSUME NEW na \in Nonce, NEW nb \in Nonce, Reset(na, nb) PROVE UNCHANGED Dict!vars
    BY <1>9, DictStutter DEF Reset, Bindings, MapStage, Pending, Live
  <1>10. ASSUME NEW s \in todo, Reinsert(s) PROVE UNCHANGED Dict!vars
    BY <1>10, DictStutter DEF Reinsert, Bindings, MapStage, Pending, Live
  <1>11. CASE Finish
    <2>1. pc = "insert" /\ todo = {}
      BY <1>11 DEF Finish
    <2>2. CASE Insert(arg) /\ Return("idle", "map")
      <3> PICK b \in Entry : b = arg
        BY <2>1, LoopDone
      <3>1. Live(entries)' = Live(entries) \cup {b}
        BY <1>0, <2>1, <2>2, LoopDone, InsertFresh DEF DictInv, AnyEntry
      <3>2. Bindings' = Live(entries)' /\ Bindings = Live(entries)
        BY <2>1, <2>2, LoopDone DEF Bindings, Return
      <3>3. Dict!Complete
        BY <2>1, <2>2, <3>1, <3>2, EntryKinds DEF Dict!Complete, Return, MapStage, Pending
      <3> QED
        BY <3>3 DEF Dict!Next
    <2>3. CASE pc' = "reset" /\ UNCHANGED <<mapVars, addVars, ret>>
      BY <2>1, <2>3, DictStutter DEF addVars, Bindings, MapStage, Pending, Live
    <2> QED
      BY <1>11, <2>2, <2>3 DEF Finish
  <1>12. CASE UNCHANGED vars
    BY <1>12, DictStutter DEF vars, mapVars, addVars, Bindings, MapStage, Pending, Live
  <1>13. ASSUME NEW b \in Entry, AddCall(b) PROVE Dict!Next
    <2>1. \A r \in Slots(bits) : ~Holds(r, b.ep)
      BY <1>13, AddIsFresh
    <2>2. \A c \in Live(entries) : c.ep # b.ep
      BY <1>0, <2>1, EntryKinds DEF Live, Holds, TypeOK
    <2>3. Bindings = Live(entries) /\ Bindings' = Live(entries)
      BY <1>13 DEF AddCall, mapVars, Bindings, Live
    <2>4. Dict!Call(b)
      BY <1>13, <2>2, <2>3 DEF AddCall, Dict!Call, Dict!Idle, MapStage, Pending
    <2>5. b \in Dict!Binding
      BY DEF Dict!Binding, Entry
    <2> QED
      BY <2>4, <2>5 DEF Dict!Next
  <1> QED
    BY <1>1, <1>2, <1>3, <1>4, <1>5, <1>6, <1>7, <1>8, <1>9, <1>10, <1>11, <1>12, <1>13
    DEF Next, Add, Rehash

(* endpoint_map.c implements a dictionary of calls and returns: an add     *)
(* that returns the map has stored its binding and touched no other, one   *)
(* that returns NULL has changed nothing, except that a malloc() failing   *)
(* after the growth strands the map with every binding.  It is assumed,    *)
(* and not ensured by the code, that the memory realloc() adds spells no   *)
(* real endpoint (GhostsApart), and that callers look up before they add.  *)
THEOREM MapImplementsDict ==
  ASSUME GhostsApart, ~Readd
  PROVE  Spec => ImplementsDict
  <1>1. Init => Dict!Init
    BY DEF Init, Dict!Init, Bindings, MapStage, Pending
  <1>2. PlaceInv /\ DictInv /\ [Next]_vars => [Dict!Next]_(Dict!vars)
    BY DictStep
  <1> QED
    BY <1>1, <1>2, LayoutInvariant, ContentsInvariant, PTL DEF Spec, ImplementsDict, Dict!Spec

=============================================================================
