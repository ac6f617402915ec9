-------------------------- MODULE ExecutorBarrier --------------------------
(***************************************************************************)
(* tensorflow/core/common_runtime/executor.h:139-215 and its use in        *)
(* DirectSession::RunInternal: the executors of one step report to a       *)
(* barrier; the first to fail aborts the rendezvous of the step, the last  *)
(* one sets the status of the step and wakes the thread that waits for it. *)
(*                                                                         *)
(* The section of WhenDone under mu_ is one step; StartAbort and the       *)
(* callback `done' come after it, without the lock.                        *)
(*                                                                         *)
(* An executor itself is external to this module: it may fail at any time, *)
(* and it may stay blocked until its step is cancelled or the rendezvous   *)
(* is aborted.                                                             *)
(***************************************************************************)
EXTENDS Integers, FiniteSets

CONSTANTS Steps,       \* the steps, each with a barrier of its own
          Executors    \* the executors of a step, one per partition of the graph

VARIABLES
  exec,            \* exec[s][e]: "none", "running", or where e is in WhenDone
  pending,         \* pending_
  groupOk,         \* status_group_.ok()
  aborting,        \* executors whose error_rendez is set
  aborts,          \* calls of StartAbort by the barrier of the step
  status,          \* run_state.status
  executorsDone    \* run_state.executors_done.HasBeenNotified()

barrierVars == <<exec, pending, groupOk, aborting, aborts, status, executorsDone>>

BarrierInit ==
  /\ exec     = [s \in Steps |-> [e \in Executors |-> "none"]]
  /\ pending  = [s \in Steps |-> Cardinality(Executors)]
  /\ groupOk  = [s \in Steps |-> TRUE]
  /\ aborting = [s \in Steps |-> {}]
  /\ aborts   = [s \in Steps |-> 0]
  /\ status   = [s \in Steps |-> "ok"]
  /\ executorsDone = [s \in Steps |-> FALSE]

\* Status::Update keeps the first error.
Update(old, new) == IF old = "ok" THEN new ELSE old

\* item.executor->RunAsync(args, barrier->Get())
RunAsync(s, e) ==
  /\ exec[s][e] = "none"
  /\ exec' = [exec EXCEPT ![s][e] = "running"]
  /\ UNCHANGED <<pending, groupOk, aborting, aborts, status, executorsDone>>

\* The executor that WhenDone makes abort the rendezvous, if any.
FirstError(s, e, ok) == IF groupOk[s] /\ ~ok THEN {e} ELSE {}

\* --pending_ <= 1
IsLast_Off(s) == pending[s] - 1 <= 1

\* --pending_ == 0
IsLast(s) == pending[s] - 1 = 0

\* WhenDone, under mu_: executor e of step s ends, ok or not.
WhenDone(s, e, ok) ==
  /\ exec[s][e] = "running"
  /\ aborting' = [aborting EXCEPT ![s] = @ \cup FirstError(s, e, ok)]
  /\ groupOk'  = [groupOk EXCEPT ![s] = @ /\ ok]
  /\ pending'  = [pending EXCEPT ![s] = @ - 1]
  /\ exec'     = [exec EXCEPT ![s][e] = IF IsLast(s) THEN "last" ELSE "counted"]
  /\ UNCHANGED <<aborts, status, executorsDone>>

\* The failing executor does not abort the rendezvous.
StartAbort_Skipped(s, e) ==
  /\ e \in aborting[s]
  /\ aborting' = [aborting EXCEPT ![s] = @ \ {e}]
  /\ UNCHANGED <<exec, pending, groupOk, aborts, status, executorsDone>>

\* error_rendez->StartAbort(...); error_rendez->Unref()
StartAbort(s, e) ==
  /\ e \in aborting[s]
  /\ aborting' = [aborting EXCEPT ![s] = @ \ {e}]
  /\ aborts'   = [aborts EXCEPT ![s] = @ + 1]
  /\ UNCHANGED <<exec, pending, groupOk, status, executorsDone>>

\* delete this; done(status): run_state.status.Update, executors_done.Notify
Done(s, e) ==
  /\ exec[s][e] = "last" /\ e \notin aborting[s]
  /\ exec'   = [exec EXCEPT ![s][e] = "done"]
  /\ status' = [status EXCEPT ![s] = Update(@, IF groupOk[s] THEN "ok" ELSE "error")]
  /\ executorsDone' = [executorsDone EXCEPT ![s] = TRUE]
  /\ UNCHANGED <<pending, groupOk, aborting, aborts>>

\* The calling thread updates run_state.status under run_state.mu_.
SetStatus(s, new) == status' = [status EXCEPT ![s] = Update(@, new)]

AllStarted(s) == \A e \in Executors : exec[s][e] # "none"

\* Executors that have not come to the end of WhenDone's locked section.
Busy(s) == {e \in Executors : exec[s][e] \in {"none", "running"}}

BarrierTypeOK ==
  /\ exec \in [Steps -> [Executors -> {"none", "running", "counted", "last", "done"}]]
  /\ pending \in [Steps -> 0 .. Cardinality(Executors)]
  /\ groupOk \in [Steps -> BOOLEAN]
  /\ aborting \in [Steps -> SUBSET Executors]
  /\ aborts \in [Steps -> Nat]
  /\ status \in [Steps -> {"ok", "error", "deadline", "cancelled"}]
  /\ executorsDone \in [Steps -> BOOLEAN]

(* "If any of the executors experiences an error, the rendezvous object    *)
(* will be aborted exactly once" (executor.h:155-156): however the failing *)
(* executors of a step interleave in WhenDone, one of them and no other    *)
(* calls StartAbort there.  Not counted: an executor that fails also       *)
(* aborts the rendezvous by itself (executor.cc:2231-2250), so that over   *)
(* all of a step StartAbort may be called more often.                      *)
AbortedExactlyOnce ==
  \A s \in Steps : aborts[s] + Cardinality(aborting[s]) = IF groupOk[s] THEN 0 ELSE 1

(* "'done' is called after the last executor completes" (executor.h:158):  *)
(* the waiting thread is told once every executor has reported, and by one *)
(* of them only; the status it then reads is not OK if any of them failed. *)
DoneAfterLast ==
  \A s \in Steps :
    /\ executorsDone[s] => Busy(s) = {} /\ (status[s] = "ok" => groupOk[s])
    /\ Busy(s) = {} => Cardinality({e \in Executors : exec[s][e] \in {"last", "done"}}) <= 1
    /\ Busy(s) # {} => \A e \in Executors : exec[s][e] \notin {"last", "done"}

(* What ExecutorBarrier promises of a step (executor.h:153-158), however   *)
(* its executors end or fail and interleave in WhenDone.                   *)
BarrierPromise == AbortedExactlyOnce /\ DoneAfterLast
=============================================================================
