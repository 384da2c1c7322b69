---------------------------- MODULE IpAddrProofs ----------------------------
(* What the masks of IpAddr are, for every prefix and network.             *)
EXTENDS IpAddr, TLAPS

\* Where ToNetworkOrder() takes bit b of the mask from, as a weight.
LEMMA BitOrigin ==
  ASSUME NEW V, NEW b \in Bits
  PROVE  b \in ToNetworkOrder(V) <=> 127 - b \in V
PROOF
<1> DEFINE x == (b + 64) % 128
<1> DEFINE y == 8 * (IF x < 64 THEN 7 - (x \div 8) ELSE 23 - (x \div 8)) + (x % 8)
<1>1. x = IF b < 64 THEN b + 64 ELSE b - 64
  BY Z3 DEF Bits
<1>2. x \in Bits
  BY <1>1 DEF Bits
<1>3. /\ b \div 8 \in 0..15 /\ b % 8 \in 0..7 /\ b = 8 * (b \div 8) + (b % 8)
  BY Z3 DEF Bits
<1>4. /\ x % 8 = b % 8
      /\ x \div 8 = IF b < 64 THEN (b \div 8) + 8 ELSE (b \div 8) - 8
  BY <1>1, <1>3, Z3 DEF Bits
<1>5. y = 8 * (15 - (b \div 8)) + (b % 8)
  BY <1>1, <1>3, <1>4 DEF Bits
<1>6. y \in Bits /\ y \div 8 = 15 - (b \div 8) /\ y % 8 = b % 8
  <2> HIDE DEF y
  <2> QED BY <1>5, <1>3, Z3 DEF Bits
<1>7. 8 * (y \div 8) + (7 - (y % 8)) = 127 - b
  <2> HIDE DEF y
  <2> QED BY <1>6, <1>3 DEF Bits
<1>8. y \in InMemory(V) <=> 127 - b \in V
  <2> HIDE DEF y
  <2> QED BY <1>6, <1>7 DEF InMemory
<1>9. x \in BothHtobe64(InMemory(V)) <=> y \in InMemory(V)
  <2> HIDE DEF x
  <2> QED BY <1>2 DEF BothHtobe64
<1>10. b \in ToNetworkOrder(V) <=> x \in BothHtobe64(InMemory(V))
  BY DEF ToNetworkOrder, QwordsExchanged
<1> QED BY <1>8, <1>9, <1>10

(* ip_addr_cidr_from_str(): the shift, the two byte swaps and the exchange *)
(* of the halves together make the mask CIDR means, its first prefix_len   *)
(* bits in network order, for every prefix length but 0.                   *)
THEOREM MaskIsPrefix ==
  \A prefix \in 1..128 : \A V \in ShiftedOnes(prefix) : ToNetworkOrder(V) = 0..(prefix - 1)
PROOF
<1> TAKE prefix \in 1..128
<1> DEFINE V == {v \in Bits : v >= 128 - prefix}
<1>1. \A b \in Bits : b \in ToNetworkOrder(V) <=> 127 - b \in V
  <2> HIDE DEF V
  <2> QED BY BitOrigin
<1>2. \A b \in Bits : 127 - b \in V <=> b \in 0..(prefix - 1)
  BY DEF Bits
<1>3. ToNetworkOrder(V) \subseteq Bits /\ 0..(prefix - 1) \subseteq Bits
  BY DEF ToNetworkOrder, QwordsExchanged, Bits
<1>4. ToNetworkOrder(V) = 0..(prefix - 1)
  BY <1>1, <1>2, <1>3
<1>5. ShiftedOnes(prefix) = {V}
  <2>1. prefix # 0
    OBVIOUS
  <2> QED BY <2>1 DEF ShiftedOnes
<1> HIDE DEF V
<1> QED BY <1>4, <1>5

(* An entry written in IPv6, with any network and any prefix the code      *)
(* accepts, matches every sender of its network, provided the network has  *)
(* a one bit: ip_addr_cidr_match() looks for a common one bit.             *)
THEOREM EntryCovers ==
  ASSUME NEW entry \in Entry, WellFormed(entry), entry.v6,
         NEW cidr \in ip_addr_cidr_from_str(entry),
         NEW addr \in SUBSET Bits, InNetwork(entry, addr),
         entry.net \cap NetworkBits(entry) # {}
  PROVE  ip_addr_cidr_match(cidr, addr)
PROOF
<1>1. PICK b \in Bits : b \in entry.net /\ b \in NetworkBits(entry)
  BY DEF Entry
<1>2. b \in addr
  BY <1>1 DEF InNetwork
<1>3. CASE ~entry.slash
  <2>1. cidr.mask = Bits
    BY <1>3 DEF ip_addr_cidr_from_str
  <2> QED BY <1>1, <1>2, <2>1 DEF ip_addr_cidr_match
<1>4. CASE entry.slash
  <2>1. b \in 0..(entry.prefix - 1) /\ entry.prefix \in 1..128
    BY <1>1, <1>4 DEF NetworkBits, WellFormed, Entry, Bits
  <2>2. PICK V \in ShiftedOnes(entry.prefix) : cidr.mask = ToNetworkOrder(V)
    BY <1>4 DEF ip_addr_cidr_from_str
  <2>3. b \in cidr.mask
    BY <2>1, <2>2, MaskIsPrefix
  <2> QED BY <1>2, <2>3 DEF ip_addr_cidr_match
<1> QED BY <1>3, <1>4
=============================================================================
