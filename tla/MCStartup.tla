----------------------------- MODULE MCStartup ------------------------------
(* Addresses and lists for the runs of Startup.                            *)
EXTENDS Startup

Net6 == {2, 15, 20, 21, 23, 24, 26, 27, 28}          \* 2001:db8::
Net4 == 80..95 \cup {100, 102}                       \* ::ffff:10.0.0.0

\* The first entry lets everyone in or no one, as the compiler has it.
AnyAndNet6 ==
  <<[v6 |-> TRUE, net |-> {}, slash |-> TRUE, prefix |-> 0],
    [v6 |-> TRUE, net |-> Net6, slash |-> TRUE, prefix |-> 32]>>
BadPrefix == <<[v6 |-> TRUE, net |-> Net6, slash |-> TRUE, prefix |-> 129]>>
Net4Only == <<[v6 |-> FALSE, net |-> Net4, slash |-> TRUE, prefix |-> 8]>>

Peers == {Net6 \cup {127}, Net6, (Net6 \ {28}) \cup {31, 126}, Net4 \cup {127}}
HostLists == {AnyAndNet6, BadPrefix}
ReadmeList == {Net4Only}
=============================================================================
