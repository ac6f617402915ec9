--------------------------- MODULE DirectSession ---------------------------
(***************************************************************************)
(* tensorflow/core/common_runtime/direct_session.{h,cc}: the in-process    *)
(* session with its split Run.  Run executes the graph spl times, each     *)
(* time on a slice of every input tensor; each slice is a step of its own  *)
(* (RunInternal) with its own barrier, rendezvous, cancellation manager    *)
(* and registration with the cancellation manager of the session.          *)
(*                                                                         *)
(* Threads Callers call Run, threads Cancellers call Close.  A step is     *)
(* named by the token it registers with.  Tensors are abstracted to the    *)
(* numbers of their rows.                                                  *)
(***************************************************************************)
EXTENDS CancellationManager, ExecutorBarrier, Sequences

CONSTANTS spl,          \* number of slices; 8 in the code
          Inputs,       \* what Run may be fed: sequences of dim_size(0)
          Timeouts,     \* whether Run may be given a timeout: a set of Booleans
          MaxRuns       \* bound: calls of Run that find the session open

Scalar == -1            \* dim_size(0) of a tensor without dimensions

ASSUME StepsAssumption   == Steps = Tokens
ASSUME SplAssumption     == spl \in Nat \ {0}
ASSUME ExecutorsFinite   == IsFiniteSet(Executors)
ASSUME InputsAssumption  == Inputs \subseteq Seq(Nat \cup {Scalar})
\* The bound on tokens never stops a Run half way.
ASSUME BoundsAssumption  == MaxRuns \in Nat /\ MaxRuns * spl <= MaxTokens
ASSUME TimeoutAssumption == Timeouts \subseteq BOOLEAN

VARIABLES
  closed,         \* closed_
  graphCreated,   \* graph_created_
  cache,          \* executors_: the caller that made the entry, or NoEntry
  inFactory,      \* the factory's sessions_ holds this session
  closing,        \* where each canceller is in Close
  crashed,        \* a CHECK failed and the process is gone
  pc, sc,         \* where each Run is, and its loop counter
  inputs, timed,  \* the arguments of each Run: tensors, whether timeout_in_ms > 0
  ek,             \* its executors_and_keys
  retval,         \* what its last call returned
  outputs,        \* per input, the rows that *outputs was computed from
  stepCancelled,  \* StartCancel was called on the step's manager
  runs,           \* calls of Run that found the session open
  fed,            \* history: per input, the rows given to executors in order
  stepsOf         \* history: the steps of each Run's current call

sessionVars == <<closed, graphCreated, cache, inFactory, closing, crashed>>
localVars   == <<pc, sc, inputs, timed, ek, retval, outputs>>
dsHistory   == <<runs, fed, stepsOf>>
dsVars == <<cmVars, barrierVars, sessionVars, localVars, stepCancelled, dsHistory>>

NoEntry == "none"

DSInit ==
  /\ CMInit /\ BarrierInit
  /\ closed = FALSE /\ graphCreated = FALSE /\ cache = NoEntry /\ inFactory = TRUE
  /\ closing = [c \in Cancellers |-> "no"] /\ crashed = FALSE
  /\ pc = [r \in Callers |-> "idle"] /\ sc = [r \in Callers |-> 0]
  /\ inputs = [r \in Callers |-> <<>>] /\ timed = [r \in Callers |-> FALSE] /\ ek = [r \in Callers |-> NoEntry]
  /\ retval = [r \in Callers |-> "none"] /\ outputs = [r \in Callers |-> <<>>]
  /\ stepCancelled = [s \in Tokens |-> FALSE]
  /\ runs = 0 /\ fed = [r \in Callers |-> <<>>] /\ stepsOf = [r \in Callers |-> <<>>]

AtRest == {"idle", "returned"}
Goto(r, l) == pc' = [pc EXCEPT ![r] = l]

\* TF_RETURN_IF_ERROR and the final return of Run.
Return(r, v) ==
  /\ Goto(r, "returned")
  /\ retval' = [retval EXCEPT ![r] = v]

---------------------------------------------------------------------------
(* Create and Run up to the registration of a step.                        *)

\* Create; another call fails and changes nothing.
Create ==
  /\ alive /\ ~graphCreated
  /\ graphCreated' = TRUE
  /\ UNCHANGED <<cmVars, barrierVars, closed, cache, inFactory, closing, crashed, localVars, stepCancelled, dsHistory>>

\* Entry of Run, CheckNotClosed.
Run(r, in, to) ==
  /\ alive /\ pc[r] \in AtRest
  /\ inputs'  = [inputs EXCEPT ![r] = in]
  /\ timed'   = [timed EXCEPT ![r] = to]
  /\ outputs' = [outputs EXCEPT ![r] = [i \in DOMAIN in |-> {}]]
  /\ fed'     = [fed EXCEPT ![r] = [i \in DOMAIN in |-> <<>>]]
  /\ stepsOf' = [stepsOf EXCEPT ![r] = <<>>]
  /\ sc'      = [sc EXCEPT ![r] = 0]
  /\ \/ closed /\ Return(r, "cancelled") /\ UNCHANGED runs
     \/ /\ ~closed /\ Goto(r, "check") /\ retval' = [retval EXCEPT ![r] = "none"]
        /\ runs < MaxRuns /\ runs' = runs + 1
  /\ UNCHANGED <<cmVars, barrierVars, sessionVars, ek, stepCancelled>>

\* CheckGraphCreated, then the trial Slice of inputs[1], which fails a CHECK
\* on a scalar.
CheckGraph(r) ==
  /\ pc[r] = "check"
  /\ \/ /\ ~graphCreated /\ Return(r, "error") /\ UNCHANGED crashed
     \/ /\ graphCreated /\ Goto(r, "slice") /\ UNCHANGED retval
        /\ crashed' = (Len(inputs[r]) >= 2 /\ inputs[r][2] = Scalar)
  /\ UNCHANGED <<cmVars, barrierVars, closed, graphCreated, cache, inFactory, closing,
                 sc, inputs, timed, ek, outputs, stepCancelled, dsHistory>>

\* GetOrCreateExecutors: look up under executor_lock_ ...
LookUp(r) ==
  /\ pc[r] = "slice"
  /\ \/ cache = NoEntry /\ Goto(r, "create") /\ UNCHANGED ek
     \/ cache # NoEntry /\ Goto(r, "feed") /\ ek' = [ek EXCEPT ![r] = cache]
  /\ UNCHANGED <<cmVars, barrierVars, sessionVars, sc, inputs, timed, retval, outputs, stepCancelled, dsHistory>>

\* ... create without the lock, which may fail ...
CreateExecutors(r) ==
  /\ pc[r] = "create"
  /\ \/ Goto(r, "insert") /\ UNCHANGED retval
     \/ Return(r, "error")
  /\ UNCHANGED <<cmVars, barrierVars, sessionVars, sc, inputs, timed, ek, outputs, stepCancelled, dsHistory>>

\* executors_[sorted_key] = ... instead of emplace.
Emplace_Overwrite(r) == r

\* ... and insert under the lock, or take what another thread inserted.
Emplace(r) == IF cache = NoEntry THEN r ELSE cache

Insert(r) ==
  /\ pc[r] = "insert"
  /\ cache' = Emplace(r)
  /\ ek' = [ek EXCEPT ![r] = cache']
  /\ Goto(r, "feed")
  /\ UNCHANGED <<cmVars, barrierVars, closed, graphCreated, inFactory, closing, crashed,
                 sc, inputs, timed, retval, outputs, stepCancelled, dsHistory>>

\* Slice every input, SetArgs, and enter RunInternal.  A scalar input fails
\* a CHECK; a resource handle, the arguments, the debugger, the tracer or the
\* thread pool may be refused.
Feed(r) ==
  /\ pc[r] = "feed"
  /\ \/ /\ \E i \in DOMAIN inputs[r] : inputs[r][i] = Scalar
        /\ crashed' = TRUE /\ UNCHANGED <<pc, retval>>
     \/ /\ \A i \in DOMAIN inputs[r] : inputs[r][i] # Scalar
        /\ Goto(r, "token") /\ UNCHANGED <<crashed, retval>>
     \/ Return(r, "error") /\ UNCHANGED crashed
  /\ UNCHANGED <<cmVars, barrierVars, closed, graphCreated, cache, inFactory, closing,
                 sc, inputs, timed, ek, outputs, stepCancelled, dsHistory>>

\* The first row of each slice is lost and one too many is read.
Slice_Shifted(n, k) == LET sps == n \div spl IN [j \in 1 .. sps |-> k * sps + j]

\* it.second.Slice(sc * sps, (sc + 1) * sps) with sps = dim_size(0) / spl
Slice(n, k) == LET sps == n \div spl IN [j \in 1 .. sps |-> k * sps + j - 1]

\* The step's RunState and manager exist; it takes a token ...
TakeToken(r) ==
  /\ pc[r] = "token" /\ GetToken(r)
  /\ Goto(r, "register")
  /\ UNCHANGED <<barrierVars, sessionVars, sc, inputs, timed, ek, retval, outputs, stepCancelled, dsHistory>>

\* ... and registers with the session's manager.
RegisterStep(r) ==
  /\ pc[r] = "register" /\ Register(r)
  /\ \/ /\ caller'[r] = "registered" /\ Goto(r, "start")
        /\ stepsOf' = [stepsOf EXCEPT ![r] = Append(@, token[r])]
        /\ fed' = [fed EXCEPT ![r] = [i \in DOMAIN @ |-> @[i] \o Slice(inputs[r][i], sc[r])]]
        /\ UNCHANGED runs
     \/ /\ caller'[r] = "refused" /\ Goto(r, "refused")
        /\ UNCHANGED dsHistory
  /\ UNCHANGED <<barrierVars, sessionVars, sc, inputs, timed, ek, retval, outputs, stepCancelled>>

\* already_cancelled: the step ends before it began.
Refused(r) ==
  /\ pc[r] = "refused" /\ Forget(r)
  /\ Return(r, "cancelled")
  /\ UNCHANGED <<barrierVars, sessionVars, sc, inputs, timed, ek, outputs, stepCancelled, dsHistory>>

---------------------------------------------------------------------------
(* The step.                                                               *)

Start(r) ==
  /\ pc[r] = "start"
  /\ \E e \in Executors : RunAsync(token[r], e)
  /\ UNCHANGED <<cmVars, sessionVars, localVars, stepCancelled, dsHistory>>

\* After a timeout the executors are not waited for.
WaitReturns_Early(r) ==
  /\ pc[r] \in {"start", "rewait"} /\ AllStarted(token[r])
  /\ executorsDone[token[r]] \/ pc[r] = "rewait"
  /\ Goto(r, "deregister")
  /\ UNCHANGED <<cmVars, barrierVars, sessionVars, sc, inputs, timed, ek, retval, outputs, stepCancelled, dsHistory>>

\* WaitForNotification returns because the executors are done ...
WaitReturns(r) ==
  /\ pc[r] \in {"start", "rewait"} /\ AllStarted(token[r])
  /\ executorsDone[token[r]]
  /\ Goto(r, "deregister")
  /\ UNCHANGED <<cmVars, barrierVars, sessionVars, sc, inputs, timed, ek, retval, outputs, stepCancelled, dsHistory>>

\* ... or because of the deadline; ...
Timeout(r) ==
  /\ timed[r]
  /\ pc[r] = "start" /\ AllStarted(token[r]) /\ ~executorsDone[token[r]]
  /\ Goto(r, "late")
  /\ UNCHANGED <<cmVars, barrierVars, sessionVars, sc, inputs, timed, ek, retval, outputs, stepCancelled, dsHistory>>

\* ... then, though the executors may be done by now, set the status, ...
SetDeadline(r) ==
  /\ pc[r] = "late"
  /\ SetStatus(token[r], "deadline")
  /\ Goto(r, "timedout")
  /\ UNCHANGED <<cmVars, exec, pending, groupOk, aborting, aborts, executorsDone,
                 sessionVars, sc, inputs, timed, ek, retval, outputs, stepCancelled, dsHistory>>

\* ... cancel the step and wait for the executors after all.
CancelStep(r) ==
  /\ pc[r] = "timedout"
  /\ stepCancelled' = [stepCancelled EXCEPT ![token[r]] = TRUE]
  /\ Goto(r, "rewait")
  /\ UNCHANGED <<cmVars, barrierVars, sessionVars, sc, inputs, timed, ek, retval, outputs, dsHistory>>

DeregisterStep(r) ==
  /\ pc[r] = "deregister"
  /\ Deregister(r) \/ Wakes(r)
  /\ Goto(r, IF caller'[r] = "finished" THEN "status" ELSE "deregister")
  /\ UNCHANGED <<barrierVars, sessionVars, sc, inputs, timed, ek, retval, outputs, stepCancelled, dsHistory>>

\* The result of DeregisterCallback is ignored.
StepStatus_IgnoresCancel(s) == status[s]

\* The status the step returns, Cancelled if DeregisterCallback said so.
StepStatus(s) == Update(status[s], IF result[s] = "true" THEN "ok" ELSE "cancelled")

\* As in for (int sc = 0; sc <= spl; sc++).
LastSlice_Off(r) == sc[r] = spl

\* for (int sc = 0; sc < spl; sc++) ends after this slice.
LastSlice(r) == sc[r] + 1 = spl

\* RunInternal returns and destroys the state of the step.  On error so does
\* Run, also when the tracer fails or the outputs cannot be fetched; otherwise
\* *outputs is cleared and filled from this slice, and the loop goes on.
EndStep(r) ==
  /\ pc[r] = "status" /\ Forget(r)
  /\ SetStatus(token[r], StepStatus(token[r]))
  /\ \/ /\ StepStatus(token[r]) # "ok"
        /\ Return(r, StepStatus(token[r])) /\ UNCHANGED <<sc, outputs>>
     \/ Return(r, "error") /\ UNCHANGED <<sc, outputs>>
     \/ /\ StepStatus(token[r]) = "ok"
        /\ outputs' = [outputs EXCEPT ![r] = [i \in DOMAIN @ |->
                         {Slice(inputs[r][i], sc[r])[j] : j \in DOMAIN Slice(inputs[r][i], sc[r])}]]
        /\ sc' = [sc EXCEPT ![r] = @ + 1]
        /\ \/ ~LastSlice(r) /\ Goto(r, "slice") /\ UNCHANGED retval
           \/ LastSlice(r) /\ Return(r, "ok")
  /\ UNCHANGED <<exec, pending, groupOk, aborting, aborts, executorsDone,
                 sessionVars, inputs, timed, ek, stepCancelled, dsHistory>>

ExecutorStep(s, e) ==
  /\ \/ \E ok \in BOOLEAN : WhenDone(s, e, ok)
     \/ StartAbort(s, e) \/ Done(s, e)
  /\ UNCHANGED <<cmVars, sessionVars, localVars, stepCancelled, dsHistory>>

---------------------------------------------------------------------------
(* Close and the destructor.                                               *)

\* Close without StartCancel.
Close_Uncancelled(c) ==
  /\ alive /\ closing[c] = "no" /\ canceller[c] = "idle"
  /\ canceller' = [canceller EXCEPT ![c] = "returned"]
  /\ closing' = [closing EXCEPT ![c] = "cancel"]
  /\ UNCHANGED <<managerVars, toRun, running, callerVars, historyVars, barrierVars,
                 closed, graphCreated, cache, inFactory, crashed, localVars, stepCancelled, dsHistory>>

\* cancellation_manager_->StartCancel()
Close(c) ==
  /\ closing[c] = "no" /\ StartCancel(c)
  /\ closing' = [closing EXCEPT ![c] = "cancel"]
  /\ UNCHANGED <<barrierVars, closed, graphCreated, cache, inFactory, crashed, localVars, stepCancelled, dsHistory>>

\* The callbacks of the steps do nothing.
CancelSteps_Silent(c) ==
  /\ CancelProgress(c)
  /\ UNCHANGED <<barrierVars, sessionVars, localVars, stepCancelled, dsHistory>>

\* The callback of a step calls StartCancel of the step's manager.
CancelSteps(c) ==
  /\ CancelProgress(c)
  /\ stepCancelled' = [s \in Tokens |-> stepCancelled[s] \/ running'[c] = s]
  /\ UNCHANGED <<barrierVars, sessionVars, localVars, dsHistory>>

\* The rest of Close: closed_ under closed_lock_ ...
SetClosed(c) ==
  /\ closing[c] = "cancel" /\ canceller[c] = "returned"
  /\ closed' = TRUE
  /\ closing' = [closing EXCEPT ![c] = IF closed THEN "done" ELSE "deregister"]
  /\ UNCHANGED <<cmVars, barrierVars, graphCreated, cache, inFactory, crashed, localVars, stepCancelled, dsHistory>>

\* ... and factory_->Deregister(this).
LeaveFactory(c) ==
  /\ closing[c] = "deregister"
  /\ inFactory' = FALSE
  /\ closing' = [closing EXCEPT ![c] = "done"]
  /\ UNCHANGED <<cmVars, barrierVars, closed, graphCreated, cache, crashed, localVars, stepCancelled, dsHistory>>

\* ~DirectSession, by the owner, when no call is under way.  It closes the
\* session first if need be.
Delete(c) ==
  /\ closed /\ \A d \in Cancellers : closing[d] \in {"no", "done"}
  /\ \A r \in Callers : pc[r] \in AtRest
  /\ Destroy(c)
  /\ UNCHANGED <<barrierVars, sessionVars, localVars, stepCancelled, dsHistory>>

---------------------------------------------------------------------------
RunStep(r) ==
  \/ CheckGraph(r) \/ LookUp(r) \/ CreateExecutors(r) \/ Insert(r) \/ Feed(r)
  \/ TakeToken(r) \/ RegisterStep(r) \/ Refused(r)
  \/ Start(r) \/ WaitReturns(r) \/ SetDeadline(r) \/ CancelStep(r) \/ DeregisterStep(r) \/ EndStep(r)

CloseStep(c) == CancelSteps(c) \/ SetClosed(c) \/ LeaveFactory(c)

\* An executor stops when its step is cancelled or its rendezvous aborted.
Reacts(s, e) == ExecutorStep(s, e) /\ (exec[s][e] = "running" => stepCancelled[s] \/ aborts[s] > 0)

DSNext ==
  /\ ~crashed
  /\ \/ Create
     \/ \E r \in Callers : (\E in \in Inputs, to \in Timeouts : Run(r, in, to)) \/ RunStep(r) \/ Timeout(r)
     \/ \E s \in Tokens, e \in Executors : ExecutorStep(s, e)
     \/ \E c \in Cancellers : Close(c) \/ CloseStep(c) \/ Delete(c)

DSSpec == DSInit /\ [][DSNext]_dsVars

\* Threads that can go on do; nothing makes an executor that is blocked go
\* on but cancellation and abort.  Steps are taken one thread at a time, so
\* the fairness is per thread.
DSFairness ==
  /\ \A r \in Callers : WF_dsVars(~crashed /\ RunStep(r)) /\ WF_dsVars(~crashed /\ Timeout(r))
  /\ \A s \in Tokens, e \in Executors : WF_dsVars(~crashed /\ Reacts(s, e))
  /\ \A c \in Cancellers : WF_dsVars(~crashed /\ CloseStep(c))

DSLiveSpec == DSSpec /\ DSFairness

---------------------------------------------------------------------------
DSTypeOK ==
  /\ CMTypeOK /\ BarrierTypeOK
  /\ closed \in BOOLEAN /\ graphCreated \in BOOLEAN /\ inFactory \in BOOLEAN /\ crashed \in BOOLEAN
  /\ cache \in Callers \cup {NoEntry} /\ ek \in [Callers -> Callers \cup {NoEntry}]
  /\ closing \in [Cancellers -> {"no", "cancel", "deregister", "done"}]
  /\ pc \in [Callers -> AtRest \cup {"check", "slice", "create", "insert", "feed", "token", "register",
                        "refused", "start", "late", "timedout", "rewait", "deregister", "status"}]
  /\ sc \in [Callers -> 0 .. spl]
  /\ inputs \in [Callers -> Inputs \cup {<<>>}] /\ timed \in [Callers -> BOOLEAN]
  /\ retval \in [Callers -> {"none", "ok", "error", "cancelled", "deadline"}]
  /\ stepCancelled \in [Tokens -> BOOLEAN] /\ runs \in 0 .. MaxRuns
  /\ \A r \in Callers : /\ DOMAIN outputs[r] = DOMAIN inputs[r] /\ DOMAIN fed[r] = DOMAIN inputs[r]
                        /\ stepsOf[r] \in Seq(Tokens)

\* RunInternal's frame of step s exists: its RunState, manager and call frame.
StepLive(s) == \E r \in Callers : token[r] = s

(* "We must wait for the executors to complete, because they have borrowed *)
(* references to `cm' and other per-step state" (direct_session.cc:1725):  *)
(* while an executor of a step runs or its last one calls `done', and      *)
(* while Close is in the callback of a step, the RunState and the          *)
(* cancellation manager on RunInternal's stack still exist.                *)
NoUseAfterReturn ==
  \A s \in Tokens :
    /\ (\E e \in Executors : exec[s][e] \in {"running", "last"}) => StepLive(s)
    /\ (\E c \in Cancellers : running[c] = s \/ s \in toRun[c]) => StepLive(s)

(* A Run that returns OK has executed all its slices: each step had every  *)
(* executor end without error and was deregistered before Close could      *)
(* cancel it.  A timeout, a failure or a Close in any slice is reported.   *)
OkMeansAllSlicesRan ==
  \A r \in Callers : retval[r] = "ok" =>
    /\ Len(stepsOf[r]) = spl
    /\ \A k \in 1 .. spl : LET s == stepsOf[r][k] IN
         groupOk[s] /\ executorsDone[s] /\ result[s] = "true" /\ ~stepCancelled[s]

(* The slices given to the executors are disjoint and in order: at any     *)
(* time, and so also when a Run fails half way, what was fed of an input   *)
(* is a prefix of its rows, one slice for every step that was started, and *)
(* no row is fed twice or read beyond the end of the tensor.               *)
FedIsAPrefix ==
  \A r \in Callers : \A i \in DOMAIN fed[r] :
    /\ Len(fed[r][i]) = Len(stepsOf[r]) * (inputs[r][i] \div spl)
    /\ Len(fed[r][i]) > 0 => Len(fed[r][i]) <= inputs[r][i]
    /\ \A k \in 1 .. Len(fed[r][i]) : fed[r][i][k] = k - 1

(* Run checks closed_ only before its loop, yet no step is registered once *)
(* Close has returned, not even by a Run that was between two slices: the  *)
(* cancelled manager refuses it.                                           *)
NoStepAfterClose ==
  [][\A r \in Callers : (\E c \in Cancellers : closing[c] = "done") =>
       stepsOf'[r] = stepsOf[r] \/ stepsOf'[r] = <<>>]_dsVars

(* Two Runs that miss the executor cache at the same time end up with the  *)
(* same executors: no step runs on executors that are not the cached ones. *)
ExecutorsShared ==
  \A r \in Callers : ek[r] # NoEntry => ek[r] = cache

(* A Run under way when Close is called, and one that has a timeout,       *)
(* returns, wherever it is: waiting for blocked executors, registering, or *)
(* between two slices.                                                     *)
StoppedRunsReturn ==
  \A r \in Callers :
    ((Cancellation \/ timed[r]) /\ pc[r] \notin AtRest) ~> (pc[r] \in AtRest \/ crashed)

(* An executor that fails makes its Run return, even if another executor   *)
(* of the step is blocked: the barrier aborts the rendezvous.  The         *)
(* property does not rely on what the failing executor does of its own     *)
(* accord (executor.cc:2242-2250 aborts and cancels too).                  *)
FailureEndsRun ==
  \A r \in Callers, s \in Tokens :
    (token[r] = s /\ ~groupOk[s]) ~> (pc[r] \in AtRest)

(* "Runs the graph with the provided input tensors and fills `outputs' for *)
(* the endpoints specified" (public/session.h:102): a Run that returns OK  *)
(* returns outputs computed from all rows of its inputs.                   *)
OutputsFromAllRows ==
  \A r \in Callers : retval[r] = "ok" =>
    \A i \in DOMAIN inputs[r] : outputs[r][i] = 0 .. inputs[r][i] - 1
=============================================================================
