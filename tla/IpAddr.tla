------------------------------- MODULE IpAddr -------------------------------
(***************************************************************************)
(* src/src/ip_addr.c: the masks of allowed_remote_hosts and how senders    *)
(* are matched against them.                                               *)
(*                                                                         *)
(* An address or mask is the set of its one bits as they lie in memory,    *)
(* which is network order: bit b is in byte b \div 8, 0 being the most     *)
(* significant bit of the first byte.  The machine is little-endian.       *)
(***************************************************************************)
EXTENDS Integers, Sequences

Bits == 0..127

\* ~((u128)0) << (128 - prefix_len), by the weight of its bits.  A shift by 128 is
\* undefined: x86 leaves the operand alone, constant folding yields 0.
ShiftedOnes(prefix) ==
  IF prefix = 0 THEN {Bits, {}} ELSE {{v \in Bits : v >= 128 - prefix}}

\* Where a little-endian u128 has its bits in memory.
InMemory(V) == {b \in Bits : 8 * (b \div 8) + (7 - (b % 8)) \in V}

\* htobe64() on both halves: the bytes of each are reversed.
BothHtobe64(M) ==
  {b \in Bits : 8 * (IF b < 64 THEN 7 - (b \div 8) ELSE 23 - (b \div 8)) + (b % 8) \in M}

\* Mutant: the halves stay where they are.
QwordsKept(M) == M

\* The exchange of high_qword and low_qword.
QwordsExchanged(M) == {b \in Bits : (b + 64) % 128 \in M}

ToNetworkOrder(V) == QwordsExchanged(BothHtobe64(InMemory(V)))

-----------------------------------------------------------------------------
(* An entry of the list as written: whether its text is IPv6, the address  *)
(* meant (IPv4 in its mapped form), and the prefix if it has a slash.      *)

Entry == [v6 : BOOLEAN, net : SUBSET Bits, slash : BOOLEAN, prefix : Int]

WellFormed(entry) == entry.slash => entry.prefix \in 0..128

\* What ip_addr_cidr_from_str() may store.  inet_pton(AF_INET6) returns 0 for a
\* text that is not IPv6: that passes for success and leaves the address zero.
ip_addr_cidr_from_str(entry) ==
  LET masks == IF entry.slash THEN {ToNetworkOrder(V) : V \in ShiftedOnes(entry.prefix)}
               ELSE {Bits}
  IN  [mask : masks, addr : {IF entry.v6 THEN entry.net ELSE {}}]

\* The slots of the list that no token fills keep a mask of zeros, which matches
\* nothing, so the list is as long as its tokens.
ip_addr_cidr_list_create_from_str(entries) ==
  {list \in [1..Len(entries) -> UNION {ip_addr_cidr_from_str(entries[i]) : i \in 1..Len(entries)}] :
     \A i \in 1..Len(entries) : list[i] \in ip_addr_cidr_from_str(entries[i])}

ip_addr_cidr_match(cidr, addr) == addr \cap cidr.mask # {}

ip_addr_cidr_list_match(list, addr) == \E i \in DOMAIN list : ip_addr_cidr_match(list[i], addr)

-----------------------------------------------------------------------------
(* What CIDR means, for comparison.                                        *)

NetworkBits(entry) ==
  IF entry.slash THEN 0..((IF entry.v6 THEN entry.prefix ELSE entry.prefix + 96) - 1) ELSE Bits

InNetwork(entry, addr) == \A b \in NetworkBits(entry) : b \in addr <=> b \in entry.net
=============================================================================
