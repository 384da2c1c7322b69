----------------------------- MODULE EndpointMap -----------------------------
(***************************************************************************)
(* src/src/endpoint_map.c: the table from (address, port) to tap id.  Each *)
(* entry may live in one of two slots, one per nonce.  When neither is     *)
(* free the whole table is copied aside, cleared and reinserted under      *)
(* fresh nonces, again and again until everything fits; a full table is    *)
(* doubled first.  Callers hold the tunnel's write lock during             *)
(* endpoint_map_add(), so its steps interleave with no other call.         *)
(***************************************************************************)
EXTENDS EndpointHash

CONSTANTS
  TapId,         \* tap ids callers bind
  Absent,        \* an entry whose present bit is clear
  InitBits,      \* log2 of the initial alloc_entries (5 in the code)
  MaxBits,       \* bound: the table is not doubled past 2^MaxBits entries
  AllocMayFail,  \* whether malloc() and realloc() may return NULL
  Readd          \* whether callers may add an endpoint that is bound already

Entry == [ep : Endpoint, tap : TapId]

\* Entries that memory fresh from realloc() can hold by accident.
GhostEntry == [ep : Ghost, tap : TapId]

ASSUME MapAssumption ==
  /\ InitBits \in Nat /\ MaxBits \in Nat /\ TapId \subseteq Nat
  /\ Absent \notin Entry \cup GhostEntry
  /\ AllocMayFail \in BOOLEAN /\ Readd \in BOOLEAN

VARIABLES
  bits,         \* log2 of map->alloc_entries
  nonce_a, nonce_b,
  entries,      \* map->entries
  num_entries,  \* map->num_entries
  pc,           \* "nil": no map; "idle"; "add": endpoint_map_add() called;
                \* "reset" and "insert": its rehash loop; "lost": see
                \* AddGrowNoTable
  arg,          \* the binding endpoint_map_add() was called with
  table,        \* its copy of the entries
  todo,         \* the slots of table its inner loop has yet to reinsert
  ret           \* whether the last call returned the map or NULL

mapVars == <<bits, nonce_a, nonce_b, entries, num_entries>>
addVars == <<arg, table, todo>>
vars == <<mapVars, addVars, pc, ret>>

Cleared(k) == [s \in Slots(k) |-> Absent]

\* Stands for the nonces while no map exists.
SomeNonce == CHOOSE n \in Nonce : TRUE

Present(t) == {s \in DOMAIN t : t[s] # Absent}

-----------------------------------------------------------------------------
(* try_insert() and endpoint_map_lookup() look at the same two slots.      *)

SlotA(e) == Slot(e, nonce_a, bits)
SlotB(e) == Slot(e, nonce_b, bits)

Holds(s, e) == entries[s] # Absent /\ entries[s].ep = e

\* Mutant: only the first slot is looked at.
LookupFirstSlot(e) == IF Holds(SlotA(e), e) THEN entries[SlotA(e)].tap ELSE -1

endpoint_map_lookup(e) ==
  IF Holds(SlotA(e), e) THEN entries[SlotA(e)].tap
  ELSE IF Holds(SlotB(e), e) THEN entries[SlotB(e)].tap
  ELSE -1

Usable(s, e) == entries[s] = Absent \/ Holds(s, e)

CanInsert(e) == Usable(SlotA(e), e) \/ Usable(SlotB(e), e)

InsertAt(e) == IF Usable(SlotA(e), e) THEN SlotA(e) ELSE SlotB(e)

\* The successful outcome of try_insert(): update in place or take a free slot.
Insert(b) ==
  LET s == InsertAt(b.ep) IN
  /\ CanInsert(b.ep)
  /\ entries' = [entries EXCEPT ![s] = b]
  /\ num_entries' = num_entries + (IF entries[s] = Absent THEN 1 ELSE 0)
  /\ UNCHANGED <<bits, nonce_a, nonce_b>>

-----------------------------------------------------------------------------
endpoint_map_create ==
  /\ pc = "nil"
  /\ bits' = InitBits
  /\ entries' = Cleared(InitBits)
  /\ num_entries' = 0
  /\ nonce_a' \in Nonce
  /\ nonce_b' \in Nonce
  /\ pc' = "idle"
  /\ ret' = "map"
  /\ UNCHANGED addVars

endpoint_map_delete ==
  /\ pc \in {"idle", "lost"}
  /\ pc' = "nil"
  /\ bits' = 0
  /\ entries' = Cleared(0)
  /\ num_entries' = 0
  /\ nonce_a' = SomeNonce
  /\ nonce_b' = SomeNonce
  /\ ret' = "NULL"
  /\ UNCHANGED addVars

endpoint_map_remove(e) ==
  /\ pc = "idle"
  /\ endpoint_map_lookup(e) # -1
  /\ entries' = [entries EXCEPT ![IF Holds(SlotA(e), e) THEN SlotA(e) ELSE SlotB(e)] = Absent]
  /\ num_entries' = num_entries - 1
  /\ UNCHANGED <<bits, nonce_a, nonce_b, addVars, pc, ret>>

-----------------------------------------------------------------------------
(* endpoint_map_add(): its call, one action per way through its head, then *)
(* its rehash loop.  worker_thread() adds an endpoint only after a failed  *)
(* lookup; Readd drops that discipline.                                    *)

Full == num_entries >= 2 ^ bits

AddCall(b) ==
  /\ pc = "idle"
  /\ Readd \/ endpoint_map_lookup(b.ep) = -1
  /\ Full => bits < MaxBits
  /\ arg' = b
  /\ pc' = "add"
  /\ UNCHANGED <<mapVars, table, todo, ret>>

Return(p, r) ==
  /\ pc' = p
  /\ ret' = r
  /\ arg' = Absent
  /\ table' = Cleared(0)
  /\ UNCHANGED todo

AddInPlace ==
  /\ pc = "add"
  /\ ~Full
  /\ Insert(arg)
  /\ Return("idle", "map")

BeginRehash(t) ==
  /\ table' = t
  /\ pc' = "reset"
  /\ UNCHANGED <<arg, todo, ret>>

AddRehash ==
  /\ pc = "add"
  /\ ~Full
  /\ ~CanInsert(arg.ep)
  /\ BeginRehash(entries)
  /\ UNCHANGED mapVars

\* realloc() keeps the old entries and leaves the new half uninitialised.
Grown(g) == [s \in Slots(bits + 1) |-> IF s \in Slots(bits) THEN entries[s] ELSE g[s]]

\* Mutant: alloc_entries is not updated after realloc().
GrowSameSize(g) ==
  /\ Full
  /\ entries' = Grown(g)
  /\ UNCHANGED <<bits, nonce_a, nonce_b, num_entries>>

Grow(g) ==
  /\ Full
  /\ bits' = bits + 1
  /\ entries' = Grown(g)
  /\ UNCHANGED <<nonce_a, nonce_b, num_entries>>

Garbage == [Slots(bits + 1) \ Slots(bits) -> GhostEntry \cup {Absent}]

AddGrow ==
  /\ pc = "add"
  /\ \E g \in Garbage : Grow(g) /\ BeginRehash(Grown(g))

\* A NULL return that leaves the map alone: realloc(), or the copy's malloc().
AddNoMemory ==
  /\ AllocMayFail
  /\ pc = "add"
  /\ Full \/ ~CanInsert(arg.ep)
  /\ Return("idle", "NULL")
  /\ UNCHANGED mapVars

\* realloc() worked, the copy's malloc() failed: NULL is returned, and the caller
\* has either a pointer to a freed block or, if the block did not move, a table
\* whose entries are at the indices of the old size.  Either way the bindings are
\* out of reach and only endpoint_map_delete() is considered from here.
AddGrowNoTable ==
  /\ AllocMayFail
  /\ pc = "add"
  /\ \E g \in Garbage : Grow(g)
  /\ Return("lost", "NULL")

\* Mutant: num_entries is not reset with the table.
ResetKeepsCount(na, nb) ==
  /\ pc = "reset"
  /\ entries' = Cleared(bits)
  /\ nonce_a' = na
  /\ nonce_b' = nb
  /\ todo' = Present(table)
  /\ pc' = "insert"
  /\ UNCHANGED <<bits, num_entries, arg, table, ret>>

\* Mutant: the nonces are not drawn again.
ResetSameNonces(na, nb) ==
  /\ pc = "reset"
  /\ entries' = Cleared(bits)
  /\ num_entries' = 0
  /\ todo' = Present(table)
  /\ pc' = "insert"
  /\ UNCHANGED <<bits, nonce_a, nonce_b, arg, table, ret>>

Reset(na, nb) ==
  /\ pc = "reset"
  /\ entries' = Cleared(bits)
  /\ num_entries' = 0
  /\ nonce_a' = na
  /\ nonce_b' = nb
  /\ todo' = Present(table)
  /\ pc' = "insert"
  /\ UNCHANGED <<bits, arg, table, ret>>

\* Mutant: an entry that does not fit is skipped.
ReinsertOrSkip(s) ==
  /\ pc = "insert"
  /\ s \in todo
  /\ \A t \in todo : ~SlotBefore(t, s)
  /\ Insert(table[s]) \/ (~CanInsert(table[s].ep) /\ UNCHANGED mapVars)
  /\ todo' = todo \ {s}
  /\ UNCHANGED <<pc, arg, table, ret>>

\* The inner loop visits the copy in index order.
Reinsert(s) ==
  /\ pc = "insert"
  /\ s \in todo
  /\ \A t \in todo : ~SlotBefore(t, s)
  /\ \/ /\ Insert(table[s])
        /\ todo' = todo \ {s}
        /\ UNCHANGED pc
     \/ /\ ~CanInsert(table[s].ep)
        /\ pc' = "reset"
        /\ todo' = {}
        /\ UNCHANGED mapVars
  /\ UNCHANGED <<arg, table, ret>>

\* Mutant: a new endpoint that does not fit is given up.
FinishAnyway ==
  /\ pc = "insert"
  /\ todo = {}
  /\ Insert(arg) \/ (~CanInsert(arg.ep) /\ UNCHANGED mapVars)
  /\ Return("idle", "map")

Finish ==
  /\ pc = "insert"
  /\ todo = {}
  /\ \/ Insert(arg) /\ Return("idle", "map")
     \/ /\ ~CanInsert(arg.ep)
        /\ pc' = "reset"
        /\ UNCHANGED <<mapVars, addVars, ret>>

-----------------------------------------------------------------------------
Init ==
  /\ pc = "nil"
  /\ bits = 0
  /\ nonce_a = SomeNonce
  /\ nonce_b = SomeNonce
  /\ entries = Cleared(0)
  /\ num_entries = 0
  /\ arg = Absent
  /\ table = Cleared(0)
  /\ todo = {}
  /\ ret = "NULL"

Rehash ==
  \/ \E na, nb \in Nonce : Reset(na, nb)
  \/ \E s \in todo : Reinsert(s)
  \/ Finish

\* What a call that was made goes on with.
Add ==
  \/ AddInPlace
  \/ AddRehash
  \/ AddGrow
  \/ AddNoMemory
  \/ AddGrowNoTable
  \/ Rehash

Next ==
  \/ endpoint_map_create
  \/ endpoint_map_delete
  \/ \E e \in Endpoint : endpoint_map_remove(e)
  \/ \E b \in Entry : AddCall(b)
  \/ Add

Spec == Init /\ [][Next]_vars

(***************************************************************************)
(* endpoint_map_add() runs to its return once called (no lock or system    *)
(* call can block it), and rand() draws a pair of nonces that works        *)
(* infinitely often if it can be drawn infinitely often.                   *)
(***************************************************************************)
WantedKeys == {table[s].ep : s \in Present(table)} \cup {arg.ep}

LuckyReset ==
  /\ pc = "reset"
  /\ \E na, nb \in Nonce : Fits(WantedKeys, na, nb, bits) /\ Reset(na, nb)

FairSpec == Spec /\ WF_vars(Add) /\ SF_vars(LuckyReset)

-----------------------------------------------------------------------------
TypeOK ==
  /\ bits \in Nat
  /\ nonce_a \in Nonce /\ nonce_b \in Nonce
  /\ entries \in [Slots(bits) -> Entry \cup GhostEntry \cup {Absent}]
  /\ num_entries \in Int
  /\ pc \in {"nil", "idle", "add", "reset", "insert", "lost"}
  /\ ret \in {"map", "NULL"}
  /\ pc \in {"add", "reset", "insert"} => arg \in Entry
  /\ pc \in {"reset", "insert"} =>
       table \in [Slots(bits) -> Entry \cup GhostEntry \cup {Absent}]
  /\ pc = "insert" => todo \subseteq Present(table)

\* The bindings of real endpoints stored in a table.
Live(t) == {t[s] : s \in DOMAIN t} \cap Entry

\* The dictionary the map stands for.  Until endpoint_map_add() returns, the
\* bindings are those of its copy, whatever the half-filled table holds.
Bindings ==
  IF pc \in {"nil", "lost"} THEN {}
  ELSE IF pc \in {"idle", "add"} THEN Live(entries)
  ELSE Live(table)

MapStage == IF pc = "nil" THEN "none" ELSE IF pc = "lost" THEN "stranded" ELSE "ready"

Pending == IF pc \in {"add", "reset", "insert"} THEN arg ELSE Absent

Dict == INSTANCE EndpointDict WITH
          NoCall <- Absent, dict <- Bindings, state <- MapStage, call <- Pending, result <- ret

(* The two-slot table with its rehash loop is a dictionary.  An add that   *)
(* returns the map has bound what it was called with and nothing else,     *)
(* through every rehash, growth and retry; one that returns NULL has       *)
(* changed nothing or, if malloc() failed after the table was doubled, has *)
(* lost everything - which happens in no other way.  Callers add an        *)
(* endpoint after a failed lookup, and uninitialised memory spells none of *)
(* them (GhostsApart).                                                     *)
ImplementsDict == Dict!Spec

(* Between calls, endpoint_map_lookup() finds exactly the stored binding   *)
(* of an endpoint: the entry is in one of the two slots the current nonces *)
(* and size give, and no second entry of that endpoint shadows it.         *)
LookupFindsBinding ==
  pc = "idle" =>
    \A e \in Endpoint, t \in TapId :
      endpoint_map_lookup(e) = t <=> [ep |-> e, tap |-> t] \in Live(entries)

(* num_entries, which decides when the table grows, counts the present     *)
(* entries across updates, removals, growth and abandoned rehash passes.   *)
CountExact ==
  pc \in {"idle", "add", "insert"} => num_entries = Cardinality(Present(entries))

\* Three of the endpoints to store differ in nothing the hash sees.
Hopeless ==
  /\ pc \in {"reset", "insert"}
  /\ \E x, y, z \in WantedKeys :
       /\ x # y /\ y # z /\ x # z
       /\ KeyClass(x, bits) = KeyClass(y, bits)
       /\ KeyClass(y, bits) = KeyClass(z, bits)

(* Nonces are only xored in, so three endpoints of one class share two     *)
(* slots under every nonce: once endpoint_map_add() must store them, its   *)
(* for(;;) loop never ends, whatever rand() returns.                       *)
EndlessRehash == [][Hopeless => Hopeless']_vars

(* The comment at endpoint_map.c:140 takes a failed insertion as a reason  *)
(* to "rehash with new nonces": the loop then ends and the call returns.   *)
AddTerminates == (pc = "reset") ~> (pc = "idle")

(* The loop ends whenever rand() can draw nonces that give no pair of      *)
(* slots more endpoints than it has slots, though an entry is never moved  *)
(* to its other slot.  How many endpoints each class has does not decide   *)
(* it: classes a and b share their slots under every pair of nonces whose  *)
(* xor is that of a and b.                                                 *)
FittingAddReturns ==
  (pc = "reset" /\ \E na, nb \in Nonce : Fits(WantedKeys, na, nb, bits)) ~> (pc = "idle")

=============================================================================
