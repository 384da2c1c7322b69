---------------------------- MODULE MCEndpointMap ----------------------------
(* Model values for the runs of EndpointMap.                               *)
EXTENDS EndpointMap

OneBits(n) == {i \in 0..7 : (n \div 2 ^ i) % 2 = 1}

\* The IPv4-mapped address ::ffff:a.b.c.d, as recvfrom() reports an IPv4 peer.
V4(a, b, c, d) ==
  [i \in 0..15 |-> OneBits(CASE i = 10 -> 255 [] i = 11 -> 255 [] i = 12 -> a
                             [] i = 13 -> b [] i = 14 -> c [] i = 15 -> d
                             [] OTHER -> 0)]

\* A native address 2001:db8::xx that differs from the others in byte 3 too.
V6(x) ==
  [i \in 0..15 |-> OneBits(CASE i = 0 -> 32 [] i = 1 -> 1 [] i = 2 -> 13
                             [] i = 3 -> x [] OTHER -> 0)]

NetPort(n) == [i \in 0..1 |-> OneBits(IF i = 0 THEN n \div 256 ELSE n % 256)]

\* Peers addressed as in example 2 of the repository's README, where all send
\* from port 1234; "peer4" does not, and "ghost" and "junk" only exist in
\* uninitialised memory.
AllAddr ==
  [e \in {"peer1", "peer2", "peer3", "peer4", "v6", "ghost", "junk"} |->
     CASE e = "peer1" -> V4(10, 10, 10, 2)
       [] e = "peer2" -> V4(10, 10, 10, 3)
       [] e = "peer3" -> V4(10, 10, 10, 4)
       [] e = "peer4" -> V4(10, 10, 10, 5)
       [] e = "v6" -> V6(5)
       [] e \in {"ghost", "junk"} -> V4(0, 0, 0, 0)]

AllPort ==
  [e \in DOMAIN AllAddr |->
     NetPort(CASE e = "peer4" -> 1235 [] e = "junk" -> 1236 [] OTHER -> 1234)]

MCAddr == [e \in Known |-> AllAddr[e]]
MCPort == [e \in Known |-> AllPort[e]]

\* One nonce for each value of the low index bits: the only part that matters
\* while the table has at most 2^k entries.
Nonces(k) == {[i \in 0..3 |-> IF i = 0 THEN OneBits(n) ELSE {}] : n \in 0..(2 ^ k - 1)}

Nonces4 == Nonces(2)

\* Nonces that tell the 512 slots of the peers from those of "v6" or not: the classes
\* of the two differ by 298 = 256 + 42, as do the nonces 0 and 298.
NoncesWide ==
  {[i \in 0..3 |-> OneBits(IF i = 0 THEN n % 256 ELSE IF i = 1 THEN n \div 256 ELSE 0)] :
     n \in {0, 1, 298}}
=============================================================================
