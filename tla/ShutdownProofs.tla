--------------------------- MODULE ShutdownProofs ---------------------------
(* What tunnel_delete() promises for every number of workers.              *)
EXTENDS Shutdown, TunnelProofs

(* A cancelled worker takes its locks with it: it ends where it stands and *)
(* gives nothing back, so the discipline of the others is not disturbed.   *)
LEMMA LockShutdownNext == LockInv /\ [ShutdownNext]_allVars => LockInv'
PROOF
<1> SUFFICES ASSUME LockInv, [ShutdownNext]_allVars PROVE LockInv'
  OBVIOUS
<1>1. ASSUME NEW w \in Worker, WorkerDies(w) PROVE LockInv'
  BY <1>1, LockKept DEF WorkerDies, Place, Label, InEvent, WriterAt, LockedAt
<1>2. ASSUME [Next]_vars PROVE LockInv'
  BY <1>2, LockNext
<1>3. ASSUME NEW w \in Worker, WorkerStepOrDeath(w) PROVE WorkerDies(w) \/ [Next]_vars
  BY <1>3 DEF WorkerStepOrDeath, UseFreed, Next
<1>4. CASE Reporting \/ (Running /\ Environment)
  BY <1>2, <1>4 DEF Reporting, Next
<1>5. CASE ExitSignal \/ Exiting \/ UNCHANGED allVars
  <2>1. UNCHANGED vars
    BY <1>5 DEF ExitSignal, Exiting, Cancel, Join, FreeAll, Exit, allVars
  <2> QED BY <1>2, <2>1
<1> QED BY <1>1, <1>2, <1>3, <1>4, <1>5 DEF ShutdownNext

(* Shutdown keeps the promise of the lock: whoever changes the tap table   *)
(* or the endpoint map is still alone with them when workers are cancelled *)
(* in the middle of a batch, with the lock held, and when the exit handler *)
(* interrupts a report, for any number of workers and whatever fails.      *)
THEOREM ExclusiveToTheEnd == ShutdownSpec => []TableExclusive
PROOF
<1>1. ShutdownInit => LockInv
  BY DEF ShutdownInit, Init, LockInv, Place, Label, WriterAt, LockedAt, InEvent, Worker
<1>2. LockInv => TableExclusive
  BY DEF LockInv, TableExclusive, Mutating, Reading, WriterAt, LockedAt, Worker, Nobody, Main
<1> QED BY <1>1, <1>2, LockShutdownNext, PTL DEF ShutdownSpec
=============================================================================
