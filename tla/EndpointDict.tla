---------------------------- MODULE EndpointDict ----------------------------
(***************************************************************************)
(* What src/src/endpoint_map.h promises its callers: a dictionary from     *)
(* remote endpoints to tap ids, here the set of its [ep, tap] bindings.    *)
(* An add is a call and a return, so that what it does can be held against *)
(* what it was asked to do.  EndpointMap is shown to implement it.         *)
(***************************************************************************)
CONSTANTS Endpoint, TapId, NoCall, AllocMayFail

VARIABLES
  dict,    \* the bindings
  state,   \* "none": no map; "ready"; "stranded": see Strand
  call,    \* the binding that is being added, or NoCall
  result   \* whether the last create or add returned the map or NULL

vars == <<dict, state, call, result>>

Binding == [ep : Endpoint, tap : TapId]

Init ==
  /\ dict = {}
  /\ state = "none"
  /\ call = NoCall
  /\ result = "NULL"

Idle == state = "ready" /\ call = NoCall

Create ==
  /\ state = "none"
  /\ state' = "ready"
  /\ result' = "map"
  /\ UNCHANGED <<dict, call>>

Delete ==
  /\ Idle \/ state = "stranded"
  /\ dict' = {}
  /\ state' = "none"
  /\ result' = "NULL"
  /\ UNCHANGED call

Remove(e) ==
  /\ Idle
  /\ \E b \in dict : b.ep = e
  /\ dict' = {b \in dict : b.ep # e}
  /\ UNCHANGED <<state, call, result>>

\* Callers add an endpoint after a failed lookup.
Call(b) ==
  /\ Idle
  /\ \A c \in dict : c.ep # b.ep
  /\ call' = b
  /\ UNCHANGED <<dict, state, result>>

\* The call returns the map: its binding, and no other, is there.
Complete ==
  /\ call # NoCall
  /\ dict' = dict \cup {call}
  /\ call' = NoCall
  /\ result' = "map"
  /\ UNCHANGED state

\* The call returns NULL and nothing has changed.
Refuse ==
  /\ AllocMayFail
  /\ call # NoCall
  /\ call' = NoCall
  /\ result' = "NULL"
  /\ UNCHANGED <<dict, state>>

\* The call returns NULL and every binding is lost (endpoint_map.c:118).
Strand ==
  /\ AllocMayFail
  /\ call # NoCall
  /\ dict' = {}
  /\ state' = "stranded"
  /\ call' = NoCall
  /\ result' = "NULL"

Next ==
  \/ Create \/ Delete
  \/ \E e \in Endpoint : Remove(e)
  \/ \E b \in Binding : Call(b)
  \/ Complete \/ Refuse \/ Strand

Spec == Init /\ [][Next]_vars
=============================================================================
