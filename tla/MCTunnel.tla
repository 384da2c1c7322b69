------------------------------ MODULE MCTunnel ------------------------------
(* Model values for the runs of Tunnel.                                    *)
EXTENDS Tunnel

\* All endpoints in one hash class, as IPv4 peers that use the same port are: any
\* two of them can be stored, a third sends endpoint_map_add() into its endless
\* loop.
AnyTwo == {S \in SUBSET Endpoint : Cardinality(S) <= 2}

\* The default endpoint uses another port and shares no slot with two others.
AnyTwoAndDefault == {S \in SUBSET Endpoint : Cardinality(S \ {Default}) <= 2}
=============================================================================
