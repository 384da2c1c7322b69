------------------------------ MODULE Shutdown ------------------------------
(***************************************************************************)
(* Tunnel with its end: SIGINT, SIGTERM or SIGQUIT runs exit_handler()     *)
(* (main.c) in the thread of main(), which sits in tunnel_wait(), possibly *)
(* inside a SIGUSR1 report.  tunnel_list_delete() and tunnel_delete()      *)
(* (tunnel.c) cancel the workers, join them, free everything and exit.     *)
(*                                                                         *)
(* Cancellation is deferred: a worker ends at its next cancellation point, *)
(* where it does not make the call any more.  Lock operations and          *)
(* epoll_ctl() are none.  C is built without -fexceptions, so the end of a *)
(* thread runs no cleanup attribute: a lock it holds stays held.           *)
(***************************************************************************)
EXTENDS MCTunnel

VARIABLES
  stage,         \* "run", then of tunnel_delete(): "cancel", "join", "freed";
                 \* "gone" after exit(), "abort" after a crash
  j,             \* its loop counter
  interrupted,   \* where main() was when the signal came
  cancelled      \* workers with a cancellation pending

exitVars == <<stage, j, interrupted, cancelled>>
allVars == <<vars, exitVars>>

\* epoll_wait(), read(), recvfrom(), write(), and open() in tunnel_alloc_new_tap().
CancelPoint == {"wait", "tap", "udp", "deliver", "alloc"}

Doomed(w) == w \in cancelled /\ pc[w] \in CancelPoint

\* LOG() and perror() write to stderr and may end the worker as well.  In most
\* places that is the end at the next of the calls above, the locks being the same;
\* perror() after a failed EPOLL_CTL_MOD (tunnel.c:378) is followed by none.
MayEndAtLog(w) == IoMayFail /\ w \in cancelled /\ pc[w] = "rearm"

-----------------------------------------------------------------------------
ExitSignal ==
  /\ stage = "run"
  /\ main # "crash"
  /\ stage' = "cancel"
  /\ interrupted' = main
  /\ UNCHANGED <<vars, j, cancelled>>

\* SIGUSR1 may interrupt exit_handler() as well, unless that interrupted a report.
HandlerRuns == main = interrupted

\* Mutant: the last worker is not cancelled.
CancelAllButLast ==
  /\ stage = "cancel" /\ HandlerRuns
  /\ IF j < NumQueues - 1
     THEN cancelled' = cancelled \cup {j} /\ j' = j + 1 /\ UNCHANGED stage
     ELSE stage' = "join" /\ j' = 0 /\ UNCHANGED cancelled
  /\ UNCHANGED <<vars, interrupted>>

Cancel ==
  /\ stage = "cancel" /\ HandlerRuns
  /\ IF j < NumQueues
     THEN cancelled' = cancelled \cup {j} /\ j' = j + 1 /\ UNCHANGED stage
     ELSE stage' = "join" /\ j' = 0 /\ UNCHANGED cancelled
  /\ UNCHANGED <<vars, interrupted>>

WorkerDies(w) ==
  /\ Doomed(w) \/ MayEndAtLog(w)
  /\ stage \in {"cancel", "join", "freed"}
  /\ Goto(w, "exit")
  /\ UNCHANGED <<lockVars, main, localVars, kernelVars, tableVars, mapVars, inputs, exitVars>>


\* tunnel_wait() is waiting for worker 0 already, so pthread_join() returns EINVAL
\* for that one and waits for the others.
Join ==
  /\ stage = "join" /\ HandlerRuns
  /\ j < NumQueues
  /\ j = 0 \/ pc[j] = "exit"
  /\ j' = j + 1
  /\ UNCHANGED <<vars, stage, interrupted, cancelled>>

\* The loop over the taps frees tap_fds and stats once for each tap: with two it
\* frees them twice and malloc aborts.
FreeAll ==
  /\ stage = "join" /\ HandlerRuns
  /\ j = NumQueues
  /\ stage' = IF num_tap_devs > 1 THEN "abort" ELSE "freed"
  /\ UNCHANGED <<vars, j, interrupted, cancelled>>

\* Worker 0, which nobody waited for, finds its tunnel freed.
UseFreed(w) ==
  /\ stage = "freed"
  /\ pc[w] \notin {"wait", "exit"}
  /\ stage' = "abort"
  /\ UNCHANGED <<vars, j, interrupted, cancelled>>

Exit ==
  /\ stage = "freed"
  /\ stage' = "gone"
  /\ UNCHANGED <<vars, j, interrupted, cancelled>>

-----------------------------------------------------------------------------
Running == stage \in {"run", "cancel", "join"}

WorkerStepOrDeath(w) ==
  \/ Running /\ ~Doomed(w) /\ WorkerStep(w) /\ UNCHANGED exitVars
  \/ WorkerDies(w)
  \/ UseFreed(w)

\* A report goes on unless the exit handler interrupted it.
Reporting == Running /\ (stage = "run" \/ interrupted = "join") /\ MainStep /\ UNCHANGED exitVars

Exiting == Cancel \/ Join \/ FreeAll \/ Exit

ShutdownInit ==
  /\ Init
  /\ stage = "run"
  /\ j = 0
  /\ interrupted = "join"
  /\ cancelled = {}

ShutdownNext ==
  \/ \E w \in Worker : WorkerStepOrDeath(w)
  \/ Reporting
  \/ Running /\ Environment /\ UNCHANGED exitVars
  \/ ExitSignal
  \/ Exiting

ShutdownSpec == ShutdownInit /\ [][ShutdownNext]_allVars

(* Threads that can run do; a cancellation takes effect.                   *)
FairShutdownSpec ==
  /\ ShutdownSpec
  /\ \A w \in Worker : WF_allVars(WorkerStepOrDeath(w))
  /\ WF_allVars(Reporting)
  /\ WF_allVars(Exiting)

-----------------------------------------------------------------------------
\* Who holds a lock and will never give it back: a worker that has ended with it
\* or is in the endless rehash, or the report that exit_handler() interrupted.
Keeps(x) ==
  \/ x \in Worker /\ pc[x] \in {"exit", "rehash"}
  \/ x = Main /\ stage # "run" /\ interrupted = "report"

WaitsInVain(w) ==
  \/ pc[w] \in {"rdlock", "relock"} /\ Keeps(writer)
  \/ pc[w] = "wrlock" /\ (Keeps(writer) \/ \E x \in readers : Keeps(x))

(* main.c:9: "exiting...": the process ends, by exit() or by a crash,      *)
(* unless a worker that pthread_join() waits for cannot end, because it is *)
(* in the endless rehash or waits for a lock that is kept, or a SIGUSR1    *)
(* makes exit_handler() wait for such a lock.  No other interleaving of    *)
(* cancellations, lock changes, failures and reports makes the exit hang.  *)
ExitEnds ==
  stage = "cancel" ~>
    \/ stage \in {"gone", "abort"} \/ main = "crash"
    \/ \E w \in Worker \ {0} : pc[w] = "rehash" \/ WaitsInVain(w)
    \/ ~HandlerRuns /\ main = "rdlock" /\ Keeps(writer)

\* What tunnel_delete() cannot cope with: a second tap (it frees the first one's
\* tap_fds and stats again), a lock that is kept, a worker that never ends, worker 0
\* at work when everything is freed, and a process that has crashed before.
Unclean ==
  \/ num_tap_devs > 1
  \/ Keeps(writer) \/ \E x \in readers : Keeps(x)
  \/ \E w \in Worker : pc[w] = "rehash"
  \/ stage = "freed" /\ pc[0] \notin {"wait", "exit"}
  \/ main = "crash"

=============================================================================
