---------------------------- MODULE EndpointHash ----------------------------
(***************************************************************************)
(* The two hash functions of src/src/endpoint_map.c and the pair of slots  *)
(* they give an endpoint.                                                  *)
(*                                                                         *)
(* A byte is the set of its one bits, so that C's ^ is the symmetric       *)
(* difference and C's & an intersection.  A table of 2^bits entries is     *)
(* indexed by the subsets of 0..bits-1: the binary numerals below 2^bits.  *)
(* Memory is laid out as on the little-endian machines the program targets *)
(* (byte b of a u32 holds its bits 8b .. 8b+7).                            *)
(***************************************************************************)
EXTENDS Integers, FiniteSets

CONSTANTS
  Endpoint,  \* the remote endpoints that send to the tunnel
  Ghost,     \* the endpoints uninitialised memory may happen to spell
  Addr,      \* the 16 bytes of each one's ip_addr (network byte order)
  Port,      \* the 2 bytes of each one's u16 port (network byte order)
  Nonce      \* the values rand() may return, as the 4 bytes of a u32

Byte == SUBSET (0..7)

Known == Endpoint \cup Ghost

ASSUME EndpointAssumption ==
  /\ Addr \in [Known -> [0..15 -> Byte]]
  /\ Port \in [Known -> [0..1 -> Byte]]
  /\ \A e, f \in Known : Addr[e] = Addr[f] /\ Port[e] = Port[f] => e = f

\* Uninitialised memory spells none of the endpoints that send.  Not an ASSUME:
\* nothing in the code ensures it, and what depends on it says so.
GhostsApart == Endpoint \cap Ghost = {}

ASSUME NonceAssumption == Nonce # {} /\ Nonce \subseteq [0..3 -> Byte]

Xor(a, b) == (a \ b) \cup (b \ a)

-----------------------------------------------------------------------------
(* Table indices.                                                          *)

Slots(bits) == SUBSET (0..(bits - 1))

\* Numeric order of two indices: they differ first, from the top, at a bit of t.
SlotBefore(s, t) == \E b \in t \ s : \A c \in s \ t : c < b

-----------------------------------------------------------------------------
(* hash_small() folds the four bytes of the nonce, bytes 0..3 of the       *)
(* address (sizeof(ip_addr) / 4 of them) and the two bytes of the port.    *)

Fold4(f) == Xor(Xor(f[0], f[1]), Xor(f[2], f[3]))

SmallKey(e) == Xor(Fold4(Addr[e]), Xor(Port[e][0], Port[e][1]))

hash_small(e, nonce) == Xor(Fold4(nonce), SmallKey(e))

(* hash() folds the nonce, the four 32-bit words of the address and the port. *)

Word(bytes, i) == {n \in 0..31 : (n % 8) \in bytes[4 * i + (n \div 8)]}

PortWord(e) == {n \in 0..15 : (n % 8) \in Port[e][n \div 8]}

WideKey(e) == Xor(Fold4([i \in 0..3 |-> Word(Addr[e], i)]), PortWord(e))

hash(e, nonce) == Xor(Word(nonce, 0), WideKey(e))

\* The index try_insert(), endpoint_map_lookup() and endpoint_map_remove()
\* compute for one nonce: alloc_entries <= 256 selects the 8-bit hash.
Slot(e, nonce, bits) ==
  (IF bits <= 8 THEN hash_small(e, nonce) ELSE hash(e, nonce)) \cap (0..(bits - 1))

\* What of the endpoint reaches the index, whatever the nonce.
KeyClass(e, bits) ==
  (IF bits <= 8 THEN SmallKey(e) ELSE WideKey(e)) \cap (0..(bits - 1))

SlotPair(e, na, nb, bits) == {Slot(e, na, bits), Slot(e, nb, bits)}

\* Whether the endpoints of S can all be stored under the nonces na and nb: no
\* pair of slots is shared by more endpoints than it has slots.
Fits(S, na, nb, bits) ==
  \A e \in S : Cardinality({f \in S : SlotPair(f, na, nb, bits) = SlotPair(e, na, nb, bits)})
                 <= Cardinality(SlotPair(e, na, nb, bits))

=============================================================================
