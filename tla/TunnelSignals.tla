---------------------------- MODULE TunnelSignals ----------------------------
(***************************************************************************)
(* Tunnel with SIGUSR1 reaching the workers.  tunnel_create() means to     *)
(* block signals in them (tunnel.c:600) but passes a NULL set, so they     *)
(* inherit an open mask.  The kernel prefers main()'s thread; while that   *)
(* thread is inside print_stats_handler(), where SIGUSR1 is masked, the    *)
(* next SIGUSR1 runs the handler in some worker.                           *)
(***************************************************************************)
EXTENDS MCTunnel

\* A worker in epoll_wait() gets EINTR and its loop ends.  In a worker that holds
\* the write lock the handler's pthread_rwlock_rdlock() fails with EDEADLK, which
\* pthread_rwlock_scope_rdlock ignores, and the end of its scope unlocks.  In any
\* other place the handler takes and returns a read lock of its own.
SignalWorker(w) ==
  /\ main \in {"rdlock", "report"}
  /\ Spend
  /\ \/ /\ pc[w] = "wait"
        /\ Goto(w, "exit")
        /\ UNCHANGED lockVars
     \/ /\ writer = w
        /\ Unlock(w)
        /\ UNCHANGED pc
  /\ UNCHANGED <<main, localVars, kernelVars, tableVars, mapVars>>

SignalNext == Next \/ \E w \in Worker : SignalWorker(w)

SignalSpec == Init /\ [][SignalNext]_vars
=============================================================================
