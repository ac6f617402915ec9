------------------------ MODULE DirectSession_proof ------------------------
(***************************************************************************)
(* The session uses its CancellationManager as the manager's own           *)
(* specification allows, so the promises proved in                         *)
(* CancellationManager_proof hold of it; with them, nothing uses the state *)
(* of a step after its Run has destroyed it, for any number of Runs,       *)
(* Closes, executors and slices.  The second part is about the loop over   *)
(* the slices: what a Run that returns OK has executed, which rows it fed, *)
(* and what a Close stops.                                                 *)
(***************************************************************************)
EXTENDS DirectSession, CancellationManager_proof, FiniteSetTheorems, SequenceTheorems

\* The part of Run outside RunInternal's registration with the manager.
Outside == AtRest \cup {"check", "slice", "create", "insert", "feed", "token"}
InStep  == {"start", "late", "timedout", "rewait"}

PcType == pc \in [Callers -> Outside \cup InStep \cup {"register", "refused", "deregister", "status"}]

\* Where a Run is determines what it has done with the manager.
LinkInv ==
  \A r \in Callers :
    /\ pc[r] \in Outside     => caller[r] = "idle"
    /\ pc[r] = "register"    => caller[r] = "holding"
    /\ pc[r] = "refused"     => caller[r] = "refused"
    /\ pc[r] \in InStep      => caller[r] = "registered"
    /\ pc[r] = "deregister"  => caller[r] \in {"registered", "waiting"}
    /\ pc[r] = "status"      => caller[r] = "finished" /\ result[token[r]] \in {"true", "false"}

\* The barrier: the counter is exact, the last executor is alone, the first
\* failing one aborts.
CountInv == \A s \in Steps : pending[s] = Cardinality(Busy(s))
LastInv ==
  /\ \A s \in Steps, e, f \in Executors : exec[s][e] \in {"last", "done"} => exec[s][f] \notin {"none", "running"}
  /\ \A s \in Steps, e, f \in Executors :
       exec[s][e] \in {"last", "done"} /\ exec[s][f] \in {"last", "done"} => e = f
  /\ \A s \in Steps : executorsDone[s] => \A e \in Executors : exec[s][e] \in {"counted", "done"}
  /\ \A s \in Steps : executorsDone[s] /\ status[s] = "ok" => groupOk[s]
AbortInv ==
  \A s \in Steps :
    /\ groupOk[s]  => aborts[s] = 0 /\ aborting[s] = {}
    /\ ~groupOk[s] => \/ aborts[s] = 1 /\ aborting[s] = {}
                      \/ aborts[s] = 0 /\ \E e \in Executors : aborting[s] = {e}

BarrierInv == BarrierTypeOK /\ CountInv /\ LastInv /\ AbortInv

\* What may still touch a step keeps it alive, and a step that is not in
\* its wait has no executor.
OwnerInv == \A s \in Tokens : Pending(s) => StepLive(s)
ExecInv ==
  /\ \A s \in Tokens, e \in Executors : exec[s][e] \in {"running", "last"} => StepLive(s)
  /\ \A r \in Callers : pc[r] \in {"deregister", "status"} => executorsDone[token[r]]
  /\ \A r \in Callers, e \in Executors : pc[r] \in {"register", "refused"} => exec[token[r]][e] = "none"
  /\ \A s \in Tokens, e \in Executors : s >= nextToken => exec[s][e] = "none"

RunInvs == PcType /\ LinkInv /\ OwnerInv /\ ExecInv
DSInv == CMInv /\ BarrierInv /\ RunInvs

---------------------------------------------------------------------------
(* Every step of the session is a step of its manager, or leaves it alone. *)

LEMMA SessionStepIsManagerStep == [DSNext]_dsVars => [CMNext]_cmVars
<1> SUFFICES ASSUME [DSNext]_dsVars PROVE [CMNext]_cmVars OBVIOUS
<1>1. CASE Create BY <1>1 DEF Create
<1>2. ASSUME NEW r \in Callers, NEW in \in Inputs, NEW to \in Timeouts, Run(r, in, to) PROVE UNCHANGED cmVars BY <1>2 DEF Run
<1>3. ASSUME NEW r \in Callers, RunStep(r) PROVE [CMNext]_cmVars
  <2>1. CASE CheckGraph(r) \/ LookUp(r) \/ CreateExecutors(r) \/ Insert(r) \/ Feed(r)
    BY <2>1 DEF CheckGraph, LookUp, CreateExecutors, Insert, Feed
  <2>2. CASE TakeToken(r) BY <2>2 DEF TakeToken, CMNext, CallerStep
  <2>3. CASE RegisterStep(r) BY <2>3 DEF RegisterStep, CMNext, CallerStep
  <2>4. CASE Refused(r) BY <2>4 DEF Refused, CMNext, CallerStep
  <2>5. CASE Start(r) \/ WaitReturns(r) \/ SetDeadline(r) \/ CancelStep(r)
    BY <2>5 DEF Start, WaitReturns, SetDeadline, CancelStep
  <2>6. CASE DeregisterStep(r) BY <2>6 DEF DeregisterStep, CMNext, CallerStep
  <2>7. CASE EndStep(r) BY <2>7 DEF EndStep, CMNext, CallerStep
  <2> QED BY <1>3, <2>1, <2>2, <2>3, <2>4, <2>5, <2>6, <2>7 DEF RunStep
<1>4. ASSUME NEW r \in Callers, Timeout(r) PROVE UNCHANGED cmVars BY <1>4 DEF Timeout
<1>5. ASSUME NEW s \in Tokens, NEW e \in Executors, ExecutorStep(s, e) PROVE UNCHANGED cmVars
  BY <1>5 DEF ExecutorStep
<1>6. ASSUME NEW c \in Cancellers, Close(c) \/ CloseStep(c) \/ Delete(c) PROVE [CMNext]_cmVars
  BY <1>6 DEF Close, CloseStep, Delete, CancelSteps, SetClosed, LeaveFactory, CMNext, CancellerStep
<1>7. CASE UNCHANGED dsVars BY <1>7 DEF dsVars
<1> QED BY <1>1, <1>2, <1>3, <1>4, <1>5, <1>6, <1>7 DEF DSNext

(* The session implements the specification of the CancellationManager.    *)
THEOREM SessionUsesManager == DSSpec => CMSpec
<1>1. DSInit => CMInit BY DEF DSInit
<1> QED BY <1>1, SessionStepIsManagerStep, PTL DEF DSSpec, CMSpec

---------------------------------------------------------------------------
(* The barrier.                                                            *)

LEMMA BarrierInitInv == BarrierInit => BarrierInv
<1> SUFFICES ASSUME BarrierInit PROVE BarrierInv OBVIOUS
<1>1. Cardinality(Executors) \in Nat BY ExecutorsFinite, FS_CardinalityType
<1>2. BarrierTypeOK BY <1>1 DEF BarrierInit, BarrierTypeOK
<1>3. CountInv
  <2>1. \A s \in Steps : Busy(s) = Executors BY DEF BarrierInit, Busy
  <2> QED BY <2>1 DEF CountInv, BarrierInit
<1>4. LastInv BY DEF LastInv, BarrierInit
<1>5. AbortInv BY DEF AbortInv, BarrierInit
<1> QED BY <1>2, <1>3, <1>4, <1>5 DEF BarrierInv

LEMMA BusyFinite == \A s \in Steps : IsFiniteSet(Busy(s))
BY ExecutorsFinite, FS_Subset DEF Busy

LEMMA RunAsyncKeeps ==
  ASSUME BarrierInv, NEW s \in Steps, NEW e \in Executors, RunAsync(s, e) PROVE BarrierInv'
<1> USE DEF BarrierInv, RunAsync
<1>1. BarrierTypeOK' BY DEF BarrierTypeOK
<1>2. \A t \in Steps : Busy(t)' = Busy(t) BY DEF Busy, BarrierTypeOK
<1>3. CountInv' BY <1>2 DEF CountInv
<1>4. \A t \in Steps, f \in Executors :
        exec'[t][f] = exec[t][f] \/ (exec[t][f] = "none" /\ exec'[t][f] = "running")
  BY DEF BarrierTypeOK
<1>5. LastInv' BY <1>4 DEF LastInv
<1>6. AbortInv' BY DEF AbortInv
<1> QED BY <1>1, <1>3, <1>5, <1>6

LEMMA WhenDoneKeeps ==
  ASSUME BarrierInv, NEW s \in Steps, NEW e \in Executors, NEW ok \in BOOLEAN, WhenDone(s, e, ok)
  PROVE BarrierInv'
<1> USE DEF BarrierInv
<1> DEFINE new == IF IsLast(s) THEN "last" ELSE "counted"
<1>1. /\ exec[s][e] = "running" /\ exec'[s][e] = new
      /\ \A f \in Executors : f # e => exec'[s][f] = exec[s][f]
      /\ \A t \in Steps : t # s => exec'[t] = exec[t]
  BY DEF WhenDone, BarrierTypeOK
<1>2. Busy(s)' = Busy(s) \ {e} /\ e \in Busy(s) /\ \A t \in Steps : t # s => Busy(t)' = Busy(t)
  BY <1>1 DEF Busy
<1>3. /\ Cardinality(Busy(s)') = Cardinality(Busy(s)) - 1
      /\ Cardinality(Busy(s)) \in Nat /\ Cardinality(Busy(s)') \in Nat
  <2>1. IsFiniteSet(Busy(s)) BY BusyFinite
  <2>2. Cardinality(Busy(s) \ {e}) = Cardinality(Busy(s)) - 1 BY <2>1, <1>2, FS_RemoveElement
  <2>3. IsFiniteSet(Busy(s) \ {e}) BY <2>1, FS_RemoveElement
  <2> QED BY <2>1, <2>2, <2>3, <1>2, FS_CardinalityType
<1>4. CountInv' BY <1>2, <1>3 DEF CountInv, WhenDone, BarrierTypeOK
<1>5. IsLast(s) => \A f \in Executors : f # e => exec[s][f] \notin {"none", "running"}
  <2> SUFFICES ASSUME IsLast(s) PROVE Busy(s) = {e} BY DEF Busy
  <2>1. Cardinality(Busy(s) \ {e}) = 0 BY <1>2, <1>3 DEF IsLast, CountInv
  <2>2. IsFiniteSet(Busy(s) \ {e}) BY BusyFinite, FS_RemoveElement
  <2> QED BY <2>1, <2>2, <1>2, FS_EmptySet
<1>6. \A f \in Executors : exec[s][f] \notin {"last", "done"} BY <1>1 DEF LastInv
<1>7. ~executorsDone[s] BY <1>1 DEF LastInv
<1>8. BarrierTypeOK'
  <2>1. pending[s] \in 1 .. Cardinality(Executors)
    <3>1. Cardinality(Busy(s)) >= 1 BY <1>3
    <3> QED BY <3>1 DEF CountInv, BarrierTypeOK
  <2>2. pending' \in [Steps -> 0 .. Cardinality(Executors)]
    <3>1. pending[s] - 1 \in 0 .. Cardinality(Executors)
      <4>1. Cardinality(Executors) \in Nat BY ExecutorsFinite, FS_CardinalityType
      <4> QED BY <4>1, <2>1
    <3> QED BY <3>1 DEF WhenDone, BarrierTypeOK
  <2>3. exec' \in [Steps -> [Executors -> {"none", "running", "counted", "last", "done"}]]
    BY DEF WhenDone, BarrierTypeOK
  <2>4. groupOk' \in [Steps -> BOOLEAN] BY DEF WhenDone, BarrierTypeOK
  <2>5. aborting' \in [Steps -> SUBSET Executors] BY DEF WhenDone, FirstError, BarrierTypeOK
  <2> QED BY <2>2, <2>3, <2>4, <2>5 DEF WhenDone, BarrierTypeOK
<1>9. LastInv'
  <2>1. \A t \in Steps, f, g \in Executors : exec'[t][f] \in {"last", "done"} => exec'[t][g] \notin {"none", "running"}
    BY <1>1, <1>5, <1>6 DEF LastInv
  <2>2. \A t \in Steps, f, g \in Executors :
          exec'[t][f] \in {"last", "done"} /\ exec'[t][g] \in {"last", "done"} => f = g
    BY <1>1, <1>6 DEF LastInv
  <2>3. \A t \in Steps : executorsDone'[t] => \A f \in Executors : exec'[t][f] \in {"counted", "done"}
    BY <1>1, <1>7 DEF LastInv, WhenDone
  <2>4. \A t \in Steps : executorsDone'[t] /\ status'[t] = "ok" => groupOk'[t]
    <3>1. \A t \in Steps : t # s => groupOk'[t] = groupOk[t] BY DEF WhenDone, BarrierTypeOK
    <3>2. status' = status /\ executorsDone' = executorsDone BY DEF WhenDone
    <3> QED BY <1>7, <3>1, <3>2 DEF LastInv
  <2> QED BY <2>1, <2>2, <2>3, <2>4 DEF LastInv
<1>10. AbortInv'
  <2>1. \A t \in Steps : t # s => groupOk'[t] = groupOk[t] /\ aborting'[t] = aborting[t]
    BY DEF WhenDone, BarrierTypeOK
  <2>2. aborts' = aborts BY DEF WhenDone
  <2>3. groupOk'[s] = (groupOk[s] /\ ok) BY DEF WhenDone, BarrierTypeOK
  <2>4. aborting'[s] = aborting[s] \cup (IF groupOk[s] /\ ~ok THEN {e} ELSE {})
    BY DEF WhenDone, FirstError, BarrierTypeOK
  <2>5. CASE ok BY <2>1, <2>2, <2>3, <2>4, <2>5 DEF AbortInv
  <2>6. CASE ~ok /\ groupOk[s]
    <3>1. aborting'[s] = {e} /\ aborts'[s] = 0 /\ ~groupOk'[s] BY <2>2, <2>3, <2>4, <2>6 DEF AbortInv
    <3> QED BY <2>1, <2>2, <3>1 DEF AbortInv
  <2>7. CASE ~ok /\ ~groupOk[s]
    <3>1. aborting'[s] = aborting[s] /\ ~groupOk'[s] BY <2>3, <2>4, <2>7
    <3> QED BY <2>1, <2>2, <3>1, <2>7 DEF AbortInv
  <2> QED BY <2>5, <2>6, <2>7
<1> QED BY <1>4, <1>8, <1>9, <1>10

LEMMA StartAbortKeeps ==
  ASSUME BarrierInv, NEW s \in Steps, NEW e \in Executors, StartAbort(s, e) PROVE BarrierInv'
<1> USE DEF BarrierInv, StartAbort
<1>1. aborts[s] = 0 /\ aborting[s] = {e} /\ ~groupOk[s] BY DEF AbortInv
<1>2. /\ aborts'[s] = 1 /\ aborting'[s] = {}
      /\ \A t \in Steps : t # s => aborts'[t] = aborts[t] /\ aborting'[t] = aborting[t]
  BY <1>1 DEF BarrierTypeOK
<1>3. BarrierTypeOK' BY <1>1 DEF BarrierTypeOK
<1>4. CountInv' BY DEF CountInv, Busy
<1>5. LastInv' BY DEF LastInv
<1>6. AbortInv' BY <1>1, <1>2 DEF AbortInv
<1> QED BY <1>3, <1>4, <1>5, <1>6

LEMMA DoneKeeps ==
  ASSUME BarrierInv, NEW s \in Steps, NEW e \in Executors, Done(s, e) PROVE BarrierInv'
<1> USE DEF BarrierInv
<1>1. /\ exec[s][e] = "last" /\ exec'[s][e] = "done"
      /\ \A f \in Executors : f # e => exec'[s][f] = exec[s][f]
      /\ \A t \in Steps : t # s => exec'[t] = exec[t]
  BY DEF Done, BarrierTypeOK
<1>2. BarrierTypeOK' BY DEF Done, BarrierTypeOK, Update
<1>3. CountInv'
  <2>1. \A t \in Steps : Busy(t)' = Busy(t) BY <1>1 DEF Busy
  <2> QED BY <2>1 DEF CountInv, Done
<1>4. LastInv'
  <2>1. \A t \in Steps, f, g \in Executors : exec'[t][f] \in {"last", "done"} => exec'[t][g] \notin {"none", "running"}
    BY <1>1 DEF LastInv
  <2>2. \A t \in Steps, f, g \in Executors :
          exec'[t][f] \in {"last", "done"} /\ exec'[t][g] \in {"last", "done"} => f = g
    BY <1>1 DEF LastInv
  <2>3. \A t \in Steps : executorsDone'[t] => \A f \in Executors : exec'[t][f] \in {"counted", "done"}
    <3>1. \A f \in Executors : exec'[s][f] \in {"counted", "done"} BY <1>1 DEF LastInv, BarrierTypeOK
    <3>2. \A t \in Steps : t # s => executorsDone'[t] = executorsDone[t] BY DEF Done, BarrierTypeOK
    <3> QED BY <3>1, <3>2, <1>1 DEF LastInv
  <2>4. \A t \in Steps : executorsDone'[t] /\ status'[t] = "ok" => groupOk'[t]
    <3>1. status'[s] = "ok" => groupOk[s] BY DEF Done, Update, BarrierTypeOK
    <3>2. \A t \in Steps : t # s => executorsDone'[t] = executorsDone[t] /\ status'[t] = status[t]
      BY DEF Done, BarrierTypeOK
    <3>3. groupOk' = groupOk BY DEF Done
    <3> QED BY <3>1, <3>2, <3>3 DEF LastInv
  <2> QED BY <2>1, <2>2, <2>3, <2>4 DEF LastInv
<1>5. AbortInv' BY DEF AbortInv, Done
<1> QED BY <1>2, <1>3, <1>4, <1>5

LEMMA SetStatusKeeps ==
  ASSUME BarrierInv, NEW s \in Steps, NEW new \in {"ok", "error", "deadline", "cancelled"}, SetStatus(s, new),
         UNCHANGED <<exec, pending, groupOk, aborting, aborts, executorsDone>>
  PROVE BarrierInv'
<1> USE DEF BarrierInv, SetStatus
<1>1. BarrierTypeOK' BY DEF BarrierTypeOK, Update
<1>2. CountInv' BY DEF CountInv, Busy
<1>3. \A t \in Steps : status'[t] = "ok" => status[t] = "ok" BY DEF BarrierTypeOK, Update
<1>4. LastInv' BY <1>3 DEF LastInv
<1>5. AbortInv' BY DEF AbortInv
<1> QED BY <1>1, <1>2, <1>4, <1>5

LEMMA BarrierUnchangedKeeps == ASSUME BarrierInv, UNCHANGED barrierVars PROVE BarrierInv'
BY DEF BarrierInv, barrierVars, BarrierTypeOK, CountInv, Busy, LastInv, AbortInv

---------------------------------------------------------------------------
(* The Runs, by what a step does to the manager and to the executors.      *)

\* Steps of a Run before it has a token or while it waits for executors, and
\* the steps of Close after StartCancel.
LEMMA QuietKeeps ==
  ASSUME DSInv, UNCHANGED <<cmVars, exec, executorsDone>>, PcType',
         \A r \in Callers : \/ pc'[r] = pc[r]
                            \/ pc[r] \in Outside /\ pc'[r] \in Outside
                            \/ pc[r] \in InStep /\ pc'[r] \in InStep
  PROVE RunInvs'
<1> USE DEF DSInv, RunInvs, cmVars, managerVars, callerVars, cancelVars, historyVars
<1>1. LinkInv' BY DEF LinkInv, Outside, InStep, AtRest
<1>2. OwnerInv' BY DEF OwnerInv, Pending, StepLive
<1>3. \A r \in Callers : pc'[r] \in {"register", "refused", "deregister", "status"} => pc'[r] = pc[r]
  BY DEF Outside, InStep, AtRest
<1>4. ExecInv' BY <1>3 DEF ExecInv, StepLive
<1> QED BY <1>1, <1>2, <1>4

LEMMA WaitReturnsKeeps ==
  ASSUME DSInv, NEW r \in Callers, WaitReturns(r) PROVE RunInvs'
<1> USE DEF DSInv, RunInvs, cmVars, managerVars, callerVars, cancelVars, historyVars, barrierVars, WaitReturns, Goto
<1>1. PcType' BY DEF PcType
<1>2. /\ pc[r] \in InStep /\ pc'[r] = "deregister" /\ executorsDone[token[r]]
      /\ \A q \in Callers : q # r => pc'[q] = pc[q]
  BY DEF PcType, InStep
<1>3. LinkInv' BY <1>2 DEF LinkInv, Outside, InStep, AtRest
<1>4. OwnerInv' BY DEF OwnerInv, Pending, StepLive
<1>5. ExecInv' BY <1>2 DEF ExecInv, StepLive
<1> QED BY <1>1, <1>3, <1>4, <1>5

\* Steps of an executor of a step that is being waited for.
LEMMA ExecutorKeeps ==
  ASSUME DSInv, UNCHANGED <<cmVars, pc>>, NEW s \in Tokens, NEW e \in Executors,
         \A t \in Tokens, f \in Executors : exec'[t][f] # exec[t][f] => t = s /\ f = e,
         exec'[s][e] \in {"running", "last"} => StepLive(s),
         \A r \in Callers : token[r] = s /\ pc[r] \in {"register", "refused"} => exec'[s][e] = "none",
         s < nextToken,
         \A t \in Tokens : executorsDone[t] => executorsDone'[t]
  PROVE RunInvs'
<1> USE DEF DSInv, RunInvs, cmVars, managerVars, callerVars, cancelVars, historyVars
<1>1. PcType' BY DEF PcType
<1>2. LinkInv' BY DEF LinkInv
<1>3. OwnerInv' BY DEF OwnerInv, Pending, StepLive
<1>4. ExecInv'
  <2>1. \A t \in Tokens : StepLive(t)' = StepLive(t) BY DEF StepLive
  <2>2. \A t \in Tokens, f \in Executors : exec'[t][f] \in {"running", "last"} => StepLive(t)' BY <2>1 DEF ExecInv
  <2>3. \A r \in Callers : pc'[r] \in {"register", "refused", "deregister", "status"} => token[r] \in Tokens
    BY DEF LinkInv, CMInv, TokenInv, CMTypeOK
  <2>4. \A r \in Callers : pc'[r] \in {"deregister", "status"} => executorsDone'[token'[r]] BY <2>3 DEF ExecInv
  <2>5. \A r \in Callers, f \in Executors : pc'[r] \in {"register", "refused"} => exec'[token'[r]][f] = "none"
    BY <2>3 DEF ExecInv
  <2>6. \A t \in Tokens, f \in Executors : t >= nextToken' => exec'[t][f] = "none"
    <3> SUFFICES ASSUME NEW t \in Tokens, NEW f \in Executors, t >= nextToken PROVE exec'[t][f] = "none" OBVIOUS
    <3>1. t # s BY DEF CMInv, CMTypeOK, Tokens
    <3> QED BY <3>1 DEF ExecInv
  <2> QED BY <2>2, <2>4, <2>5, <2>6 DEF ExecInv
<1> QED BY <1>1, <1>2, <1>3, <1>4

LEMMA StepLiveOlder == ASSUME DSInv, NEW s \in Tokens, StepLive(s) PROVE s < nextToken
BY DEF StepLive, DSInv, CMInv, TokenInv

LEMMA StartKeeps == ASSUME DSInv, NEW r \in Callers, Start(r) PROVE RunInvs' /\ BarrierInv'
<1>1. PICK e \in Executors : RunAsync(token[r], e) BY DEF Start
<1>2. token[r] \in Tokens
  BY DEF Start, DSInv, RunInvs, LinkInv, InStep, CMInv, TokenInv, CMTypeOK
<1>3. BarrierInv' BY <1>1, <1>2, RunAsyncKeeps, StepsAssumption DEF DSInv
<1>4. StepLive(token[r]) /\ token[r] < nextToken BY <1>2, StepLiveOlder DEF StepLive
<1>5. \A t \in Tokens, f \in Executors : exec'[t][f] # exec[t][f] => t = token[r] /\ f = e
  BY <1>1, <1>2, StepsAssumption DEF RunAsync, DSInv, BarrierInv, BarrierTypeOK
<1>6. \A q \in Callers : token[q] = token[r] => q = r
  BY <1>2 DEF DSInv, CMInv, TokenInv, Tokens, kInvalidToken
<1>7. UNCHANGED <<cmVars, pc>> /\ pc[r] = "start" BY DEF Start, localVars
<1>8. executorsDone' = executorsDone BY <1>1 DEF RunAsync
<1>9. RunInvs' BY <1>2, <1>4, <1>5, <1>6, <1>7, <1>8, ExecutorKeeps
<1> QED BY <1>3, <1>9

LEMMA ExecutorStepKeeps ==
  ASSUME DSInv, NEW s \in Tokens, NEW e \in Executors, ExecutorStep(s, e)
  PROVE RunInvs' /\ BarrierInv'
<1>1. UNCHANGED <<cmVars, pc>> BY DEF ExecutorStep, localVars
<1>2. ASSUME exec[s][e] \in {"running", "last"} PROVE StepLive(s) /\ s < nextToken
  BY <1>2, StepLiveOlder DEF DSInv, RunInvs, ExecInv
<1>3. ASSUME exec[s][e] \in {"running", "last"}
      PROVE \A r \in Callers : token[r] = s => pc[r] \notin {"register", "refused"}
  BY <1>3 DEF DSInv, RunInvs, ExecInv
<1>4. ASSUME NEW ok \in BOOLEAN, WhenDone(s, e, ok) PROVE RunInvs' /\ BarrierInv'
  <2>1. exec[s][e] = "running" /\ executorsDone' = executorsDone BY <1>4 DEF WhenDone
  <2>2. \A t \in Tokens, f \in Executors : exec'[t][f] # exec[t][f] => t = s /\ f = e
    BY <1>4, StepsAssumption DEF WhenDone, DSInv, BarrierInv, BarrierTypeOK
  <2> QED BY <1>1, <1>2, <1>3, <1>4, <2>1, <2>2, ExecutorKeeps, WhenDoneKeeps, StepsAssumption DEF DSInv
<1>5. CASE Done(s, e)
  <2>1. exec[s][e] = "last" /\ \A t \in Tokens : executorsDone[t] => executorsDone'[t]
    BY <1>5, StepsAssumption DEF Done, DSInv, BarrierInv, BarrierTypeOK
  <2>2. \A t \in Tokens, f \in Executors : exec'[t][f] # exec[t][f] => t = s /\ f = e
    BY <1>5, StepsAssumption DEF Done, DSInv, BarrierInv, BarrierTypeOK
  <2> QED BY <1>1, <1>2, <1>3, <1>5, <2>1, <2>2, ExecutorKeeps, DoneKeeps, StepsAssumption DEF DSInv
<1>6. CASE StartAbort(s, e)
  <2>1. UNCHANGED <<cmVars, exec, executorsDone, pc>> BY <1>1, <1>6 DEF StartAbort
  <2>2. PcType' BY <2>1 DEF DSInv, RunInvs, PcType
  <2>3. RunInvs' BY <2>1, <2>2, QuietKeeps
  <2> QED BY <1>6, <2>3, StartAbortKeeps, StepsAssumption DEF DSInv
<1> QED BY <1>4, <1>5, <1>6 DEF ExecutorStep

---------------------------------------------------------------------------
(* The steps of a Run that call the manager.                               *)

LEMMA TakeTokenKeeps == ASSUME DSInv, NEW r \in Callers, TakeToken(r) PROVE RunInvs'
<1> USE DEF DSInv, RunInvs, TakeToken, GetToken, Goto, barrierVars, cancelVars, historyVars
<1>1. /\ caller[r] = "idle" /\ token[r] = kInvalidToken /\ token'[r] = nextToken /\ caller'[r] = "holding"
      /\ \A q \in Callers : q # r => token'[q] = token[q] /\ caller'[q] = caller[q]
      /\ nextToken \in Tokens /\ nextToken' = nextToken + 1 /\ kInvalidToken \notin Tokens
  BY MaxTokensAssumption DEF CMInv, TokenInv, CMTypeOK, Tokens, kInvalidToken
<1>2. pc'[r] = "register" /\ \A q \in Callers : q # r => pc'[q] = pc[q] BY DEF PcType
<1>3. PcType' BY DEF PcType
<1>4. LinkInv' BY <1>1, <1>2 DEF LinkInv, Outside, InStep, AtRest
<1>5. \A s \in Tokens : StepLive(s) => StepLive(s)' BY <1>1 DEF StepLive
<1>6. OwnerInv' BY <1>5 DEF OwnerInv, Pending
<1>7. ExecInv'
  <2>1. \A s \in Tokens, e \in Executors : exec'[s][e] \in {"running", "last"} => StepLive(s)' BY <1>5 DEF ExecInv
  <2>2. \A q \in Callers : pc'[q] \in {"deregister", "status"} => executorsDone'[token'[q]] BY <1>1, <1>2 DEF ExecInv
  <2>3. \A e \in Executors : exec[nextToken][e] = "none" BY <1>1 DEF ExecInv, Tokens
  <2>4. \A q \in Callers, e \in Executors : pc'[q] \in {"register", "refused"} => exec'[token'[q]][e] = "none"
    BY <1>1, <1>2, <2>3 DEF ExecInv
  <2>5. \A s \in Tokens, e \in Executors : s >= nextToken' => exec'[s][e] = "none" BY <1>1 DEF ExecInv, Tokens
  <2> QED BY <2>1, <2>2, <2>4, <2>5 DEF ExecInv
<1> QED BY <1>3, <1>4, <1>6, <1>7

LEMMA RegisterStepKeeps == ASSUME DSInv, NEW r \in Callers, RegisterStep(r) PROVE RunInvs'
<1> USE DEF DSInv, RunInvs, RegisterStep, Register, Goto, barrierVars, cancelVars, historyVars
<1>1. token[r] \in Tokens /\ token' = token BY DEF CMInv, TokenInv, CMTypeOK
<1>2. \A q \in Callers : q # r => pc'[q] = pc[q] /\ caller'[q] = caller[q] BY DEF PcType, CMInv, CMTypeOK
<1>3. \/ caller'[r] = "registered" /\ pc'[r] = "start"
      \/ caller'[r] = "refused" /\ pc'[r] = "refused"
  BY DEF PcType
<1>4. PcType' BY DEF PcType, InStep
<1>5. LinkInv' BY <1>1, <1>2, <1>3 DEF LinkInv, Outside, InStep, AtRest
<1>6. OwnerInv'
  <2>1. \A s \in Tokens : Pending(s)' => Pending(s) \/ s = token[r] BY DEF Pending
  <2> QED BY <1>1, <2>1 DEF OwnerInv, StepLive
<1>7. ExecInv' BY <1>1, <1>2, <1>3 DEF ExecInv, StepLive
<1> QED BY <1>4, <1>5, <1>6, <1>7

LEMMA DeregisterStepKeeps == ASSUME DSInv, NEW r \in Callers, DeregisterStep(r) PROVE RunInvs'
<1> USE DEF DSInv, RunInvs
<1>0. UNCHANGED <<exec, executorsDone, nextToken, token, toRun, running>> /\ pc[r] = "deregister"
  BY DEF DeregisterStep, Deregister, Wakes, barrierVars, managerVars, cancelVars
<1>1. token[r] \in Tokens
  <2>1. caller[r] \in {"registered", "waiting"} BY <1>0 DEF LinkInv
  <2> QED BY <2>1 DEF CMInv, TokenInv, CMTypeOK
<1>2. \A q \in Callers : q # r => pc'[q] = pc[q] /\ caller'[q] = caller[q]
  BY DEF DeregisterStep, Deregister, Wakes, Returns, Erase, WaitForCallbacks, Goto, PcType, CMInv, CMTypeOK
<1>3. \/ caller'[r] = "finished" /\ result'[token[r]] \in {"true", "false"} /\ pc'[r] = "status"
      \/ caller'[r] = "waiting" /\ pc'[r] = "deregister"
  BY <1>1 DEF DeregisterStep, Deregister, Wakes, Returns, Erase, WaitForCallbacks, Goto, PcType, CMInv, CMTypeOK
<1>4. \A t \in Tokens : t # token[r] => result'[t] = result[t]
  BY DEF DeregisterStep, Deregister, Wakes, Returns, Erase, WaitForCallbacks, CMInv, CMTypeOK
<1>5. PcType' BY DEF DeregisterStep, Goto, PcType
<1>6. LinkInv'
  <2> SUFFICES ASSUME NEW q \in Callers, q # r, pc[q] = "status" PROVE result'[token[q]] = result[token[q]]
    BY <1>0, <1>2, <1>3 DEF LinkInv, Outside, InStep, AtRest
  <2>1. caller[q] = "finished" BY DEF LinkInv
  <2>2. token[q] # token[r] /\ token[q] \in Tokens BY <1>1, <2>1 DEF CMInv, TokenInv, CMTypeOK
  <2> QED BY <2>2, <1>4
<1>7. OwnerInv'
  <2>1. callbacks' \subseteq callbacks
    BY DEF DeregisterStep, Deregister, Wakes, Erase, WaitForCallbacks, managerVars
  <2> QED BY <2>1, <1>0 DEF OwnerInv, Pending, StepLive
<1>8. ExecInv' BY <1>0, <1>2, <1>3 DEF ExecInv, StepLive
<1> QED BY <1>5, <1>6, <1>7, <1>8

\* RunInternal returns: nothing can touch its step any more.
LEMMA StepIsOver ==
  ASSUME DSInv, NEW r \in Callers, pc[r] \in {"refused", "status"}
  PROVE /\ token[r] \in Tokens /\ ~Pending(token[r])
        /\ \A e \in Executors : exec[token[r]][e] \notin {"running", "last"}
<1> USE DEF DSInv, RunInvs
<1>1. CASE pc[r] = "refused"
  <2>1. caller[r] = "refused" BY <1>1 DEF LinkInv
  <2>2. token[r] \in Tokens BY <2>1 DEF CMInv, TokenInv, CMTypeOK
  <2>3. \A c \in Cancellers : running[c] # token[r]
    BY <2>1, <2>2 DEF CMInv, CallerInv, RunInv, Tokens, kInvalidToken
  <2>4. ~Pending(token[r]) BY <2>1, <2>3 DEF Pending, CMInv, CallerInv
  <2> QED BY <1>1, <2>2, <2>4 DEF ExecInv
<1>2. CASE pc[r] = "status"
  <2>1. caller[r] = "finished" /\ result[token[r]] \in {"true", "false"} BY <1>2 DEF LinkInv
  <2>2. token[r] \in Tokens BY <2>1 DEF CMInv, TokenInv, CMTypeOK
  <2>3. ~Pending(token[r])
    BY <2>1, <2>2, CMInvGivesTrue, CMInvGivesFalse DEF TrueMeansNeverInvoked, FalseMeansInvoked
  <2>4. executorsDone[token[r]] BY <1>2 DEF ExecInv
  <2>5. \A e \in Executors : exec[token[r]][e] \in {"counted", "done"}
    BY <2>2, <2>4, StepsAssumption DEF BarrierInv, LastInv
  <2> QED BY <2>2, <2>3, <2>5
<1> QED BY <1>1, <1>2

LEMMA ForgetStepKeeps ==
  ASSUME DSInv, NEW r \in Callers, pc[r] \in {"refused", "status"}, Forget(r),
         UNCHANGED <<exec, executorsDone>>, PcType', pc'[r] \in Outside,
         \A q \in Callers : q # r => pc'[q] = pc[q]
  PROVE RunInvs'
<1> USE DEF DSInv, RunInvs
<1>0. UNCHANGED <<nextToken, callbacks, toRun, running, result>>
  BY DEF Forget, managerVars, cancelVars, historyVars
<1>1. caller'[r] = "idle" /\ \A q \in Callers : q # r => caller'[q] = caller[q] /\ token'[q] = token[q]
  BY DEF Forget, CMInv, CMTypeOK
<1>2. LinkInv' BY <1>0, <1>1 DEF LinkInv, Outside, InStep, AtRest
<1>3. \A s \in Tokens : StepLive(s) /\ s # token[r] => StepLive(s)' BY <1>1 DEF StepLive
<1>4. OwnerInv'
  <2>1. \A s \in Tokens : Pending(s)' = Pending(s) BY <1>0 DEF Pending
  <2> QED BY <2>1, <1>3, StepIsOver DEF OwnerInv
<1>5. ExecInv'
  <2>1. \A s \in Tokens, e \in Executors : exec'[s][e] \in {"running", "last"} => StepLive(s)'
    BY <1>3, StepIsOver DEF ExecInv
  <2>2. \A q \in Callers : pc'[q] \in {"register", "refused", "deregister", "status"} => q # r
    BY DEF Outside, AtRest
  <2> QED BY <2>1, <2>2, <1>0, <1>1 DEF ExecInv
<1> QED BY <1>2, <1>4, <1>5

LEMMA RefusedKeeps == ASSUME DSInv, NEW r \in Callers, Refused(r) PROVE RunInvs'
<1>1. pc'[r] \in Outside /\ PcType' /\ \A q \in Callers : q # r => pc'[q] = pc[q]
  BY DEF Refused, Return, Goto, DSInv, RunInvs, PcType, Outside, AtRest
<1>2. UNCHANGED <<exec, executorsDone>> BY DEF Refused, barrierVars
<1> QED BY <1>1, <1>2, ForgetStepKeeps DEF Refused

LEMMA EndStepKeeps == ASSUME DSInv, NEW r \in Callers, EndStep(r) PROVE RunInvs' /\ BarrierInv'
<1>1. pc'[r] \in Outside /\ PcType' /\ \A q \in Callers : q # r => pc'[q] = pc[q]
  BY DEF EndStep, Return, Goto, DSInv, RunInvs, PcType, Outside, AtRest
<1>2. UNCHANGED <<exec, executorsDone>> BY DEF EndStep
<1>3. RunInvs' BY <1>1, <1>2, ForgetStepKeeps DEF EndStep
<1>4. token[r] \in Tokens BY StepIsOver DEF EndStep
<1>5. StepStatus(token[r]) \in {"ok", "error", "deadline", "cancelled"}
  BY <1>4, StepsAssumption DEF StepStatus, Update, DSInv, BarrierInv, BarrierTypeOK
<1>6. BarrierInv' BY <1>4, <1>5, SetStatusKeeps, StepsAssumption DEF EndStep, DSInv
<1> QED BY <1>3, <1>6

---------------------------------------------------------------------------
(* Close and the destructor.                                               *)

LEMMA CancellerKeeps ==
  ASSUME DSInv, NEW c \in Cancellers, StartCancel(c) \/ CancelProgress(c) \/ Destroy(c),
         UNCHANGED <<pc, exec, executorsDone>>
  PROVE RunInvs'
<1> USE DEF DSInv, RunInvs
<1>1. UNCHANGED <<caller, token, nextToken, result>>
  BY DEF StartCancel, CancelProgress, Destroy, BeginCallback, EndCallback, SetCancelled, Notify,
         callerVars, managerVars, historyVars
<1>2. PcType' BY DEF PcType
<1>3. LinkInv' BY <1>1 DEF LinkInv
<1>4. \A s \in Tokens : Pending(s)' => Pending(s)
  <2>1. CASE UNCHANGED <<callbacks, toRun, running>> BY <2>1 DEF Pending
  <2>2. CASE SwapCallbacks(c) /\ UNCHANGED running
    BY <2>2 DEF SwapCallbacks, Pending, CMInv, CMTypeOK
  <2>3. ASSUME NEW t \in toRun[c], BeginCallback(c, t) PROVE \A s \in Tokens : Pending(s)' => Pending(s)
    BY <2>3 DEF BeginCallback, managerVars, Pending, CMInv, CMTypeOK
  <2>4. CASE EndCallback(c)
    BY <2>4 DEF EndCallback, managerVars, Pending, CMInv, CMTypeOK, Tokens, kInvalidToken
  <2>5. CASE StartCancel(c) \/ Destroy(c) BY <2>5, <2>1, <2>2 DEF StartCancel, Destroy
  <2>6. CASE SetCancelled(c) \/ Notify(c) BY <2>6, <2>1 DEF SetCancelled, Notify
  <2> QED BY <2>3, <2>4, <2>5, <2>6 DEF CancelProgress
<1>5. OwnerInv' BY <1>1, <1>4 DEF OwnerInv, StepLive
<1>6. ExecInv' BY <1>1 DEF ExecInv, StepLive
<1> QED BY <1>2, <1>3, <1>5, <1>6

---------------------------------------------------------------------------
LEMMA DSInitInv == DSInit => DSInv
<1> SUFFICES ASSUME DSInit PROVE DSInv OBVIOUS
<1>1. CMInv BY CMInitInv DEF DSInit
<1>2. BarrierInv BY BarrierInitInv DEF DSInit
<1>3. PcType BY DEF DSInit, PcType, Outside, AtRest
<1>4. LinkInv BY DEF DSInit, CMInit, LinkInv, Outside, InStep, AtRest
<1>5. OwnerInv BY DEF DSInit, CMInit, OwnerInv, Pending, Tokens, kInvalidToken
<1>6. ExecInv BY StepsAssumption DEF DSInit, CMInit, BarrierInit, ExecInv
<1> QED BY <1>1, <1>2, <1>3, <1>4, <1>5, <1>6 DEF DSInv, RunInvs

\* The deadline passes, is put into the status and cancels the step.
LEMMA DeadlineKeeps ==
  ASSUME DSInv, NEW r \in Callers, Timeout(r) \/ SetDeadline(r) \/ CancelStep(r)
  PROVE RunInvs' /\ BarrierInv'
<1>1. PcType' /\ \A q \in Callers : pc'[q] = pc[q] \/ (pc[q] \in InStep /\ pc'[q] \in InStep)
  BY DEF Timeout, SetDeadline, CancelStep, Goto, DSInv, RunInvs, PcType, InStep
<1>2. UNCHANGED <<cmVars, exec, executorsDone>> BY DEF Timeout, SetDeadline, CancelStep, barrierVars
<1>3. RunInvs' BY <1>1, <1>2, QuietKeeps
<1>4. CASE Timeout(r) \/ CancelStep(r)
  <2>1. UNCHANGED barrierVars BY <1>4 DEF Timeout, CancelStep
  <2> QED BY <1>3, <2>1, BarrierUnchangedKeeps DEF DSInv
<1>5. CASE SetDeadline(r)
  <2>1. token[r] \in Tokens BY <1>5 DEF SetDeadline, DSInv, RunInvs, LinkInv, InStep, CMInv, TokenInv, CMTypeOK
  <2>2. BarrierInv' BY <1>5, <2>1, SetStatusKeeps, StepsAssumption DEF SetDeadline, DSInv
  <2> QED BY <1>3, <2>2
<1> QED BY <1>4, <1>5

LEMMA RunPartKeeps == ASSUME DSInv, NEW r \in Callers, RunStep(r) PROVE RunInvs' /\ BarrierInv'
<1>1. CASE CheckGraph(r) \/ LookUp(r) \/ CreateExecutors(r) \/ Insert(r) \/ Feed(r)
  <2>1. UNCHANGED <<cmVars, barrierVars>> BY <1>1 DEF CheckGraph, LookUp, CreateExecutors, Insert, Feed
  <2>2. pc[r] \in Outside
    BY <1>1 DEF CheckGraph, LookUp, CreateExecutors, Insert, Feed, Outside
  <2>3. pc' = pc \/ \E l \in Outside : pc' = [pc EXCEPT ![r] = l]
    BY <1>1 DEF CheckGraph, LookUp, CreateExecutors, Insert, Feed, Outside, AtRest, Return, Goto
  <2>4. PcType' /\ \A q \in Callers : pc'[q] = pc[q] \/ (pc[q] \in Outside /\ pc'[q] \in Outside)
    BY <2>2, <2>3 DEF DSInv, RunInvs, PcType
  <2>5. RunInvs' BY <2>1, <2>4, QuietKeeps DEF barrierVars
  <2> QED BY <2>1, <2>5, BarrierUnchangedKeeps DEF DSInv
<1>2. CASE CancelStep(r) BY <1>2, DeadlineKeeps
<1>3. CASE TakeToken(r) \/ RegisterStep(r) \/ Refused(r) \/ WaitReturns(r) \/ DeregisterStep(r)
  <2>1. UNCHANGED barrierVars BY <1>3 DEF TakeToken, RegisterStep, Refused, WaitReturns, DeregisterStep
  <2>2. BarrierInv' BY <2>1, BarrierUnchangedKeeps DEF DSInv
  <2> QED BY <1>3, <2>2, TakeTokenKeeps, RegisterStepKeeps, RefusedKeeps, WaitReturnsKeeps, DeregisterStepKeeps
<1> QED BY <1>1, <1>2, <1>3, DeadlineKeeps, StartKeeps, EndStepKeeps DEF RunStep

LEMMA DSInvNext == DSInv /\ [DSNext]_dsVars => DSInv'
<1> SUFFICES ASSUME DSInv, [DSNext]_dsVars PROVE DSInv' OBVIOUS
<1>1. CMInv' BY SessionStepIsManagerStep, CMInvNext DEF DSInv
<1>2. ASSUME UNCHANGED <<cmVars, barrierVars, pc>> PROVE RunInvs' /\ BarrierInv'
  <2>1. PcType' BY <1>2 DEF DSInv, RunInvs, PcType
  <2>2. RunInvs' BY <1>2, <2>1, QuietKeeps DEF barrierVars
  <2> QED BY <1>2, <2>2, BarrierUnchangedKeeps DEF DSInv
<1>3. ASSUME Create PROVE RunInvs' /\ BarrierInv' BY <1>2, <1>3 DEF Create, localVars
<1>4. ASSUME NEW r \in Callers, NEW in \in Inputs, NEW to \in Timeouts, Run(r, in, to)
      PROVE RunInvs' /\ BarrierInv'
  <2>1. UNCHANGED <<cmVars, barrierVars>> /\ pc[r] \in AtRest BY <1>4 DEF Run
  <2>2. \E l \in Outside : pc' = [pc EXCEPT ![r] = l] BY <1>4 DEF Run, Return, Goto, Outside, AtRest
  <2>3. PcType' /\ \A q \in Callers : pc'[q] = pc[q] \/ (pc[q] \in Outside /\ pc'[q] \in Outside)
    BY <2>1, <2>2 DEF DSInv, RunInvs, PcType, Outside
  <2>4. RunInvs' BY <2>1, <2>3, QuietKeeps DEF barrierVars
  <2> QED BY <2>1, <2>4, BarrierUnchangedKeeps DEF DSInv
<1>5. ASSUME NEW c \in Cancellers, Close(c) \/ CloseStep(c) \/ Delete(c) PROVE RunInvs' /\ BarrierInv'
  <2>1. UNCHANGED <<barrierVars, pc>>
    BY <1>5 DEF Close, CloseStep, Delete, CancelSteps, SetClosed, LeaveFactory, localVars
  <2>2. StartCancel(c) \/ CancelProgress(c) \/ Destroy(c) \/ UNCHANGED cmVars
    BY <1>5 DEF Close, CloseStep, Delete, CancelSteps, SetClosed, LeaveFactory
  <2>3. BarrierInv' BY <2>1, BarrierUnchangedKeeps DEF DSInv
  <2>4. RunInvs' BY <1>2, <2>1, <2>2, CancellerKeeps DEF barrierVars
  <2> QED BY <2>3, <2>4
<1>6. ASSUME UNCHANGED dsVars PROVE RunInvs' /\ BarrierInv' BY <1>2, <1>6 DEF dsVars, localVars
<1>7. RunInvs' /\ BarrierInv'
  BY <1>3, <1>4, <1>5, <1>6, RunPartKeeps, DeadlineKeeps, ExecutorStepKeeps DEF DSNext
<1> QED BY <1>1, <1>7 DEF DSInv

(* The inductive invariant of the session holds in every reachable state,  *)
(* for any number of Runs, Closes, executors, slices and inputs.           *)
THEOREM SessionInvariant == DSSpec => []DSInv
BY DSInitInv, DSInvNext, PTL DEF DSSpec

(* No executor runs and no callback of Close is under way or still to come *)
(* for a step whose RunInternal has returned and destroyed what they use.  *)
THEOREM StepsOutliveTheirUsers == DSSpec => []NoUseAfterReturn
<1>1. DSInv => NoUseAfterReturn BY DEF DSInv, RunInvs, OwnerInv, ExecInv, Pending, NoUseAfterReturn
<1> QED BY <1>1, SessionInvariant, PTL

(* However its executors fail, the rendezvous of a step is aborted exactly *)
(* once, and not at all if none fails.                                     *)
THEOREM RendezvousAbortedOnce == DSSpec => []AbortedExactlyOnce
<1>1. ASSUME DSInv, NEW s \in Steps
      PROVE aborts[s] + Cardinality(aborting[s]) = IF groupOk[s] THEN 0 ELSE 1
  <2>1. Cardinality({}) = 0 BY FS_EmptySet
  <2>2. \A e \in Executors : Cardinality({e}) = 1 BY FS_Singleton
  <2>3. CASE groupOk[s] BY <1>1, <2>1, <2>3 DEF DSInv, BarrierInv, AbortInv
  <2>4. CASE ~groupOk[s] /\ aborts[s] = 1 /\ aborting[s] = {} BY <2>1, <2>4
  <2>5. CASE ~groupOk[s] /\ aborts[s] = 0 /\ \E e \in Executors : aborting[s] = {e} BY <2>2, <2>5
  <2> QED BY <1>1, <2>3, <2>4, <2>5 DEF DSInv, BarrierInv, AbortInv
<1>2. DSInv => AbortedExactlyOnce BY <1>1 DEF AbortedExactlyOnce
<1> QED BY <1>2, SessionInvariant, PTL

(* The thread that waits for a step is told after the last of its          *)
(* executors, by one of them, and learns of every failure.                 *)
THEOREM WaiterToldAfterLast == DSSpec => []DoneAfterLast
<1>1. ASSUME DSInv, NEW s \in Steps
      PROVE /\ executorsDone[s] => Busy(s) = {} /\ (status[s] = "ok" => groupOk[s])
            /\ Busy(s) # {} => \A e \in Executors : exec[s][e] \notin {"last", "done"}
  <2>1. executorsDone[s] => Busy(s) = {} BY <1>1 DEF DSInv, BarrierInv, LastInv, Busy
  <2>2. executorsDone[s] => (status[s] = "ok" => groupOk[s]) BY <1>1 DEF DSInv, BarrierInv, LastInv
  <2>3. Busy(s) # {} => \A e \in Executors : exec[s][e] \notin {"last", "done"}
    BY <1>1 DEF DSInv, BarrierInv, LastInv, Busy
  <2> QED BY <2>1, <2>2, <2>3
<1>2. ASSUME DSInv, NEW s \in Steps
      PROVE Cardinality({e \in Executors : exec[s][e] \in {"last", "done"}}) <= 1
  <2> DEFINE L == {e \in Executors : exec[s][e] \in {"last", "done"}}
  <2>1. CASE L = {} BY <2>1, FS_EmptySet
  <2>2. ASSUME NEW e \in L PROVE L = {e} BY <1>2 DEF DSInv, BarrierInv, LastInv
  <2>3. CASE L # {} BY <2>2, <2>3, FS_Singleton
  <2> QED BY <2>1, <2>3
<1>3. DSInv => DoneAfterLast BY <1>1, <1>2 DEF DoneAfterLast
<1> QED BY <1>3, SessionInvariant, PTL

(* Every step of a session gets what ExecutorBarrier promises.             *)
THEOREM BarrierKeepsItsPromise == DSSpec => []BarrierPromise
<1>1. AbortedExactlyOnce /\ DoneAfterLast => BarrierPromise BY DEF BarrierPromise
<1> QED BY <1>1, RendezvousAbortedOnce, WaiterToldAfterLast, PTL

---------------------------------------------------------------------------
(* The arguments, results and counters of the Runs.                        *)

\* What DSTypeOK says of the session and of a Run's variables.
SessionTypes ==
  /\ closed \in BOOLEAN /\ graphCreated \in BOOLEAN /\ inFactory \in BOOLEAN /\ crashed \in BOOLEAN
  /\ cache \in Callers \cup {NoEntry} /\ ek \in [Callers -> Callers \cup {NoEntry}]
  /\ closing \in [Cancellers -> {"no", "cancel", "deregister", "done"}]
  /\ stepCancelled \in [Tokens -> BOOLEAN] /\ runs \in 0 .. MaxRuns
LocalTypes ==
  /\ sc \in [Callers -> 0 .. spl]
  /\ inputs \in [Callers -> Inputs \cup {<<>>}] /\ timed \in [Callers -> BOOLEAN]
  /\ retval \in [Callers -> {"none", "ok", "error", "cancelled", "deadline"}]
\* Records of functions that are updated whole, so also their own domains.
HistoryTypes ==
  /\ DOMAIN outputs = Callers /\ DOMAIN fed = Callers /\ DOMAIN stepsOf = Callers
  /\ \A r \in Callers : /\ DOMAIN outputs[r] = DOMAIN inputs[r] /\ DOMAIN fed[r] = DOMAIN inputs[r]
                        /\ stepsOf[r] \in Seq(Tokens)

LEMMA SessionTypesInit == DSInit => SessionTypes /\ LocalTypes /\ HistoryTypes
<1> SUFFICES ASSUME DSInit PROVE SessionTypes /\ LocalTypes /\ HistoryTypes OBVIOUS
<1>1. SessionTypes
  <2>1. closed \in BOOLEAN /\ graphCreated \in BOOLEAN /\ inFactory \in BOOLEAN /\ crashed \in BOOLEAN
    BY Zenon DEF DSInit
  <2>2. runs \in 0 .. MaxRuns BY BoundsAssumption DEF DSInit
  <2>3. stepCancelled \in [Tokens -> BOOLEAN] BY DEF DSInit
  <2> QED BY <2>1, <2>2, <2>3 DEF DSInit, SessionTypes
<1>2. LocalTypes
  <2>1. 0 \in 0 .. spl BY SplAssumption
  <2> QED BY <2>1 DEF DSInit, LocalTypes
<1>3. HistoryTypes BY DEF DSInit, HistoryTypes
<1> QED BY <1>1, <1>2, <1>3

LEMMA SessionTypesNext ==
  ASSUME DSInv, SessionTypes, [DSNext]_dsVars PROVE SessionTypes'
<1> DEFINE V == <<closed, graphCreated, inFactory, crashed, cache, ek, closing, stepCancelled, runs>>
<1>0. ASSUME UNCHANGED V PROVE SessionTypes' BY <1>0 DEF SessionTypes
<1>1. CASE Create BY <1>1 DEF Create, SessionTypes, localVars, dsHistory
<1>2. ASSUME NEW r \in Callers, NEW in \in Inputs, NEW to \in Timeouts, Run(r, in, to) PROVE SessionTypes'
  <2>1. runs' \in 0 .. MaxRuns BY <1>2, BoundsAssumption DEF Run, SessionTypes
  <2>2. UNCHANGED <<sessionVars, ek, stepCancelled>> BY <1>2 DEF Run
  <2> QED BY <2>1, <2>2 DEF SessionTypes, sessionVars
<1>3. ASSUME NEW r \in Callers, RunStep(r) \/ Timeout(r) PROVE SessionTypes'
  <2>1. CASE CheckGraph(r) \/ Feed(r)
    <3>1. crashed' \in BOOLEAN BY <2>1 DEF CheckGraph, Feed, SessionTypes
    <3> QED BY <2>1, <3>1 DEF CheckGraph, Feed, SessionTypes, dsHistory
  <2>2. CASE LookUp(r) \/ Insert(r)
    <3>1. cache' \in Callers \cup {NoEntry} BY <2>2 DEF LookUp, Insert, Emplace, SessionTypes, sessionVars
    <3>2. ek' \in [Callers -> Callers \cup {NoEntry}] BY <2>2, <3>1 DEF LookUp, Insert, SessionTypes
    <3> QED BY <2>2, <3>1, <3>2 DEF LookUp, Insert, SessionTypes, sessionVars, dsHistory
  <2>3. CASE CreateExecutors(r) \/ TakeToken(r) \/ Refused(r) \/ Start(r) \/ WaitReturns(r)
             \/ SetDeadline(r) \/ DeregisterStep(r) \/ EndStep(r) \/ Timeout(r)
    BY <1>0, <2>3 DEF CreateExecutors, TakeToken, Refused, Start, WaitReturns, SetDeadline,
                      DeregisterStep, EndStep, Timeout, sessionVars, localVars, dsHistory
  <2>4. CASE RegisterStep(r) BY <1>0, <2>4 DEF RegisterStep, sessionVars, dsHistory
  <2>5. CASE CancelStep(r) BY <2>5 DEF CancelStep, SessionTypes, sessionVars, dsHistory
  <2> QED BY <1>3, <2>1, <2>2, <2>3, <2>4, <2>5 DEF RunStep
<1>4. ASSUME NEW s \in Tokens, NEW e \in Executors, ExecutorStep(s, e) PROVE SessionTypes'
  BY <1>0, <1>4 DEF ExecutorStep, sessionVars, localVars, dsHistory
<1>5. ASSUME NEW c \in Cancellers, Close(c) \/ CloseStep(c) \/ Delete(c) PROVE SessionTypes'
  <2>1. CASE Close(c) \/ SetClosed(c) \/ LeaveFactory(c)
    <3>1. closing' \in [Cancellers -> {"no", "cancel", "deregister", "done"}]
      BY <2>1 DEF Close, SetClosed, LeaveFactory, SessionTypes
    <3>2. closed' \in BOOLEAN /\ inFactory' \in BOOLEAN BY <2>1 DEF Close, SetClosed, LeaveFactory, SessionTypes
    <3> QED BY <2>1, <3>1, <3>2 DEF Close, SetClosed, LeaveFactory, SessionTypes, localVars, dsHistory
  <2>2. CASE CancelSteps(c) BY <2>2 DEF CancelSteps, SessionTypes, sessionVars, localVars, dsHistory
  <2>3. CASE Delete(c) BY <1>0, <2>3 DEF Delete, sessionVars, localVars, dsHistory
  <2> QED BY <1>5, <2>1, <2>2, <2>3 DEF CloseStep
<1>6. CASE UNCHANGED dsVars BY <1>0, <1>6 DEF dsVars, sessionVars, localVars, dsHistory
<1> QED BY <1>1, <1>2, <1>3, <1>4, <1>5, <1>6 DEF DSNext

(* Two Runs that miss the cache at the same time share its entry.          *)
LEMMA SharedNext ==
  ASSUME SessionTypes, ExecutorsShared, [DSNext]_dsVars PROVE ExecutorsShared'
<1>0. ASSUME UNCHANGED <<cache, ek>> PROVE ExecutorsShared' BY <1>0 DEF ExecutorsShared
<1>1. ASSUME NEW r \in Callers, LookUp(r) PROVE ExecutorsShared'
  BY <1>1 DEF LookUp, sessionVars, ExecutorsShared, SessionTypes
<1>2. ASSUME NEW r \in Callers, Insert(r) PROVE ExecutorsShared'
  <2>1. cache # NoEntry => cache' = cache BY <1>2 DEF Insert, Emplace
  <2>2. ek'[r] = cache' /\ \A q \in Callers : q # r => ek'[q] = ek[q] BY <1>2 DEF Insert, SessionTypes
  <2> QED BY <2>1, <2>2 DEF ExecutorsShared
<1>3. ASSUME NEW r \in Callers, ~LookUp(r), ~Insert(r), RunStep(r) \/ Timeout(r) PROVE UNCHANGED <<cache, ek>>
  BY <1>3 DEF RunStep, CheckGraph, CreateExecutors, Feed, TakeToken, RegisterStep, Refused, Start, WaitReturns,
              SetDeadline, CancelStep, DeregisterStep, EndStep, Timeout, sessionVars, localVars
<1>4. ASSUME NEW r \in Callers, NEW in \in Inputs, NEW to \in Timeouts, Run(r, in, to) PROVE UNCHANGED <<cache, ek>>
  BY <1>4 DEF Run, sessionVars
<1>5. ASSUME NEW s \in Tokens, NEW e \in Executors, ExecutorStep(s, e) PROVE UNCHANGED <<cache, ek>>
  BY <1>5 DEF ExecutorStep, sessionVars, localVars
<1>6. ASSUME NEW c \in Cancellers, Close(c) \/ CloseStep(c) \/ Delete(c) PROVE UNCHANGED <<cache, ek>>
  BY <1>6 DEF Close, CloseStep, CancelSteps, SetClosed, LeaveFactory, Delete, sessionVars, localVars
<1>7. CASE Create \/ UNCHANGED dsVars BY <1>0, <1>7 DEF Create, dsVars, sessionVars, localVars
<1> QED BY <1>0, <1>1, <1>2, <1>3, <1>4, <1>5, <1>6, <1>7 DEF DSNext

\* A Close that has begun has cancelled the manager, for good.
CloseInv == \A c \in Cancellers : closing[c] # "no" => Cancellation

LEMMA CancellationStays == ASSUME CMInv, [CMNext]_cmVars, Cancellation PROVE Cancellation'
BY DEF CMNext, CallerStep, GetToken, Register, Deregister, Wakes, TryDeregister, Forget, CancellerStep,
       StartCancel, CancelProgress, BeginCallback, EndCallback, SetCancelled, Notify, Destroy,
       SwapCallbacks, managerVars, cmVars, Cancellation

LEMMA CloseNext == ASSUME DSInv, SessionTypes, CloseInv, [DSNext]_dsVars PROVE CloseInv'
<1>1. Cancellation => Cancellation' BY SessionStepIsManagerStep, CancellationStays DEF DSInv
<1>2. ASSUME NEW c \in Cancellers, Close(c) PROVE CloseInv'
  <2>1. Cancellation' BY <1>2 DEF Close, StartCancel, SwapCallbacks, Cancellation
  <2> QED BY <2>1 DEF CloseInv
<1>3. ASSUME NEW c \in Cancellers, SetClosed(c) \/ LeaveFactory(c) PROVE CloseInv'
  BY <1>1, <1>3 DEF SetClosed, LeaveFactory, CloseInv, SessionTypes
<1>4. ASSUME closing' = closing PROVE CloseInv' BY <1>1, <1>4 DEF CloseInv
<1>5. ASSUME NEW r \in Callers, RunStep(r) \/ Timeout(r) PROVE closing' = closing
  BY <1>5 DEF RunStep, CheckGraph, LookUp, CreateExecutors, Insert, Feed, TakeToken, RegisterStep, Refused, Start,
              WaitReturns, SetDeadline, CancelStep, DeregisterStep, EndStep, Timeout, sessionVars
<1>6. ASSUME NEW r \in Callers, NEW in \in Inputs, NEW to \in Timeouts, Run(r, in, to) PROVE closing' = closing
  BY <1>6 DEF Run, sessionVars
<1>7. ASSUME NEW s \in Tokens, NEW e \in Executors, ExecutorStep(s, e) PROVE closing' = closing
  BY <1>7 DEF ExecutorStep, sessionVars
<1>8. ASSUME NEW c \in Cancellers, CancelSteps(c) \/ Delete(c) PROVE closing' = closing
  BY <1>8 DEF CancelSteps, Delete, sessionVars
<1>9. CASE Create \/ UNCHANGED dsVars BY <1>4, <1>9 DEF Create, dsVars, sessionVars
<1> QED BY <1>2, <1>3, <1>4, <1>5, <1>6, <1>7, <1>8, <1>9 DEF DSNext, CloseStep

---------------------------------------------------------------------------
(* The loop over the slices.                                               *)

\* Run is in the part of RunInternal that comes after the registration.
Working == InStep \cup {"deregister", "status"}

\* The steps of a call are those of the slices before sc, and the current one
\* from its registration on.
LoopAt(r) ==
  /\ pc[r] \notin AtRest => sc[r] < spl /\ retval[r] = "none"
  /\ pc[r] \in Working => Len(stepsOf[r]) = sc[r] + 1 /\ stepsOf[r][sc[r] + 1] = token[r]
  /\ pc[r] \notin AtRest \cup Working => Len(stepsOf[r]) = sc[r]
  /\ pc[r] \in AtRest => Len(stepsOf[r]) \in {sc[r], sc[r] + 1}
  /\ Len(stepsOf[r]) <= spl
  /\ retval[r] = "ok" => sc[r] = spl

LoopInv == LocalTypes /\ HistoryTypes /\ \A r \in Callers : LoopAt(r)

LEMMA LoopInit == DSInit => LoopInv
<1> SUFFICES ASSUME DSInit PROVE LoopInv OBVIOUS
<1>1. LocalTypes /\ HistoryTypes BY SessionTypesInit
<1>2. ASSUME NEW r \in Callers PROVE LoopAt(r)
  <2>1. pc[r] = "idle" /\ sc[r] = 0 /\ retval[r] = "none" /\ stepsOf[r] = <<>> BY DEF DSInit
  <2> QED BY <2>1, SplAssumption DEF LoopAt, AtRest, Working, InStep
<1> QED BY <1>1, <1>2 DEF LoopInv

\* The steps that change nothing of a Run but where it is.
LEMMA MoveKeeps ==
  ASSUME LoopInv, NEW r \in Callers, UNCHANGED <<sc, inputs, timed, outputs, fed, stepsOf>>,
         NEW l, pc' = [pc EXCEPT ![r] = l], NEW v, retval' = [retval EXCEPT ![r] = v], DOMAIN pc = Callers,
         \A q \in Callers : q # r => token'[q] = token[q],
         \/ pc[r] \notin AtRest \cup Working /\ l \notin AtRest \cup Working /\ v = retval[r]
         \/ pc[r] \in Working /\ l \in Working /\ v = retval[r] /\ token'[r] = token[r]
         \/ pc[r] \notin AtRest /\ l \in AtRest /\ v \in {"error", "cancelled", "deadline"}
  PROVE LoopInv'
<1> USE DEF LoopInv
<1>1. LocalTypes' BY DEF LocalTypes
<1>2. HistoryTypes' BY DEF HistoryTypes
<1>3. \A q \in Callers : q # r => LoopAt(q)' BY DEF LoopAt, LocalTypes
<1>4. LoopAt(r)' BY DEF LoopAt, LocalTypes, Working, InStep, AtRest
<1> QED BY <1>1, <1>2, <1>3, <1>4

LEMMA RestKeeps == ASSUME LoopInv, UNCHANGED <<localVars, dsHistory, token>> PROVE LoopInv'
<1>1. LocalTypes' /\ HistoryTypes' BY DEF LoopInv, LocalTypes, HistoryTypes, localVars, dsHistory
<1>2. \A r \in Callers : LoopAt(r)' BY DEF LoopInv, LoopAt, localVars, dsHistory
<1> QED BY <1>1, <1>2 DEF LoopInv

LEMMA RunEntryKeeps ==
  ASSUME DSInv, LoopInv, NEW r \in Callers, NEW in \in Inputs, NEW to \in Timeouts, Run(r, in, to)
  PROVE LoopInv'
<1> USE DEF LoopInv, Run, Return, Goto, AtRest
<1>0. DOMAIN pc = Callers /\ token' = token BY DEF DSInv, RunInvs, PcType, cmVars, callerVars
<1>1. LocalTypes'
  <2>1. 0 \in 0 .. spl BY SplAssumption
  <2>2. to \in BOOLEAN BY TimeoutAssumption
  <2>3. inputs' \in [Callers -> Inputs \cup {<<>>}] BY DEF LocalTypes
  <2>4. timed' \in [Callers -> BOOLEAN] BY <2>2 DEF LocalTypes
  <2>5. sc' \in [Callers -> 0 .. spl] BY <2>1 DEF LocalTypes
  <2>6. retval' \in [Callers -> {"none", "ok", "error", "cancelled", "deadline"}] BY DEF LocalTypes
  <2> QED BY <2>3, <2>4, <2>5, <2>6 DEF LocalTypes
<1>2. HistoryTypes'
  <2>1. /\ DOMAIN outputs'[r] = DOMAIN in /\ DOMAIN fed'[r] = DOMAIN in /\ inputs'[r] = in /\ stepsOf'[r] = <<>>
    BY DEF HistoryTypes, LocalTypes
  <2>2. \A q \in Callers : q # r => /\ outputs'[q] = outputs[q] /\ fed'[q] = fed[q]
                                    /\ inputs'[q] = inputs[q] /\ stepsOf'[q] = stepsOf[q]
    BY DEF HistoryTypes, LocalTypes
  <2>3. DOMAIN outputs' = Callers /\ DOMAIN fed' = Callers /\ DOMAIN stepsOf' = Callers BY DEF HistoryTypes
  <2> QED BY <2>1, <2>2, <2>3 DEF HistoryTypes
<1>3. \A q \in Callers : q # r => LoopAt(q)' BY <1>0 DEF LoopAt, LocalTypes, HistoryTypes
<1>4. LoopAt(r)'
  <2>1. stepsOf'[r] = <<>> /\ sc'[r] = 0 BY DEF HistoryTypes, LocalTypes
  <2>2. \/ pc'[r] = "returned" /\ retval'[r] = "cancelled"
        \/ pc'[r] = "check" /\ retval'[r] = "none"
    BY <1>0 DEF LocalTypes
  <2> QED BY <2>1, <2>2, SplAssumption DEF LoopAt, Working, InStep
<1> QED BY <1>1, <1>2, <1>3, <1>4

LEMMA RegisterLoopKeeps == ASSUME DSInv, LoopInv, NEW r \in Callers, RegisterStep(r) PROVE LoopInv'
<1> USE DEF RegisterStep, Goto
<1>0. DOMAIN pc = Callers /\ token' = token /\ token[r] \in Tokens
  BY DEF DSInv, RunInvs, PcType, Register, LinkInv, CMInv, TokenInv, CMTypeOK
<1>1. CASE caller'[r] = "refused"
  <2>1. pc' = [pc EXCEPT ![r] = "refused"] /\ UNCHANGED <<sc, inputs, timed, outputs, fed, stepsOf, retval>>
    BY <1>1 DEF dsHistory
  <2>2. pc[r] \notin AtRest \cup Working /\ pc'[r] \notin AtRest \cup Working
    BY <1>0, <2>1 DEF AtRest, Working, InStep
  <2>3. retval' = [retval EXCEPT ![r] = retval[r]] BY <2>1 DEF LoopInv, LocalTypes
  <2> QED BY <1>0, <2>1, <2>2, <2>3, MoveKeeps DEF AtRest, Working, InStep
<1>2. CASE caller'[r] = "registered"
  <2>1. /\ pc' = [pc EXCEPT ![r] = "start"] /\ stepsOf' = [stepsOf EXCEPT ![r] = Append(@, token[r])]
        /\ fed' = [fed EXCEPT ![r] = [i \in DOMAIN @ |-> @[i] \o Slice(inputs[r][i], sc[r])]]
        /\ UNCHANGED <<sc, inputs, timed, outputs, retval>>
    BY <1>2
  <2>2. LocalTypes' BY <2>1 DEF LoopInv, LocalTypes
  <2>3. /\ \A q \in Callers : q # r => stepsOf'[q] = stepsOf[q] /\ fed'[q] = fed[q] /\ pc'[q] = pc[q]
        /\ stepsOf'[r] = Append(stepsOf[r], token[r]) /\ DOMAIN fed'[r] = DOMAIN fed[r] /\ pc'[r] = "start"
        /\ DOMAIN fed' = Callers /\ DOMAIN stepsOf' = Callers
    BY <1>0, <2>1 DEF LoopInv, HistoryTypes
  <2>4. HistoryTypes' BY <1>0, <2>1, <2>3 DEF LoopInv, HistoryTypes
  <2>5. \A q \in Callers : q # r => LoopAt(q)' BY <1>0, <2>1, <2>3 DEF LoopInv, LoopAt
  <2>6. LoopAt(r)'
    <3>0. pc[r] = "register" /\ LoopAt(r) /\ sc[r] \in 0 .. spl /\ stepsOf[r] \in Seq(Tokens)
      BY DEF LoopInv, LocalTypes, HistoryTypes
    <3> HIDE DEF RegisterStep
    <3>1. Len(stepsOf[r]) = sc[r] /\ sc[r] < spl /\ retval[r] = "none" /\ sc[r] \in Nat /\ stepsOf[r] \in Seq(Tokens)
      BY <3>0, SplAssumption DEF LoopAt, AtRest, Working, InStep
    <3>2. Len(stepsOf'[r]) = sc[r] + 1 /\ stepsOf'[r][sc[r] + 1] = token[r] BY <1>0, <2>3, <3>1
    <3> QED BY <1>0, <2>1, <2>3, <3>1, <3>2, SplAssumption DEF LoopAt, AtRest, Working, InStep
  <2> QED BY <2>2, <2>4, <2>5, <2>6 DEF LoopInv
<1> QED BY <1>1, <1>2

LEMMA EndStepLoopKeeps == ASSUME DSInv, LoopInv, NEW r \in Callers, EndStep(r) PROVE LoopInv'
<1> USE DEF EndStep, Goto, Return
<1>0. DOMAIN pc = Callers /\ \A q \in Callers : q # r => token'[q] = token[q]
  BY DEF DSInv, RunInvs, PcType, Forget, CMInv, CMTypeOK
<1>1. /\ Len(stepsOf[r]) = sc[r] + 1 /\ sc[r] < spl /\ retval[r] = "none" /\ sc[r] \in 0 .. spl
      /\ stepsOf[r] \in Seq(Tokens)
  BY SplAssumption DEF LoopInv, LoopAt, AtRest, Working, InStep, LocalTypes, HistoryTypes
<1>2. StepStatus(token[r]) \in {"ok", "error", "deadline", "cancelled"}
  <2>1. token[r] \in Tokens BY StepIsOver
  <2> QED BY <2>1, StepsAssumption DEF StepStatus, Update, DSInv, BarrierInv, BarrierTypeOK
<1>3. ASSUME NEW v \in {"error", "deadline", "cancelled"}, UNCHANGED <<sc, outputs>>,
             pc' = [pc EXCEPT ![r] = "returned"], retval' = [retval EXCEPT ![r] = v]
      PROVE LoopInv'
  <2>1. pc[r] \notin AtRest /\ "returned" \in AtRest BY DEF AtRest
  <2> QED BY <1>0, <1>3, <2>1, MoveKeeps DEF dsHistory
<1>4. ASSUME outputs' = [outputs EXCEPT ![r] = [i \in DOMAIN @ |->
                         {Slice(inputs[r][i], sc[r])[j] : j \in DOMAIN Slice(inputs[r][i], sc[r])}]],
             sc' = [sc EXCEPT ![r] = @ + 1],
             \/ ~LastSlice(r) /\ pc' = [pc EXCEPT ![r] = "slice"] /\ UNCHANGED retval
             \/ LastSlice(r) /\ pc' = [pc EXCEPT ![r] = "returned"] /\ retval' = [retval EXCEPT ![r] = "ok"]
      PROVE LoopInv'
  <2>1. sc[r] + 1 \in 0 .. spl BY <1>1, SplAssumption
  <2>2. LocalTypes'
    <3>1. sc' \in [Callers -> 0 .. spl] BY <1>4, <2>1 DEF LoopInv, LocalTypes
    <3>2. retval' \in [Callers -> {"none", "ok", "error", "cancelled", "deadline"}] BY <1>4 DEF LoopInv, LocalTypes
    <3> QED BY <3>1, <3>2 DEF LoopInv, LocalTypes
  <2>3. HistoryTypes'
    <3>1. UNCHANGED <<inputs, fed, stepsOf>> BY DEF dsHistory
    <3>2. /\ DOMAIN outputs' = Callers /\ DOMAIN outputs'[r] = DOMAIN outputs[r]
          /\ \A q \in Callers : q # r => outputs'[q] = outputs[q]
      BY <1>4 DEF LoopInv, HistoryTypes
    <3> QED BY <3>1, <3>2 DEF LoopInv, HistoryTypes
  <2>4. \A q \in Callers : q # r => LoopAt(q)' BY <1>0, <1>4 DEF LoopInv, LoopAt, LocalTypes, dsHistory
  <2>5. LoopAt(r)'
    <3>1. sc'[r] = sc[r] + 1 /\ Len(stepsOf'[r]) = sc[r] + 1 BY <1>1, <1>4 DEF LoopInv, LocalTypes, dsHistory
    <3>2. CASE ~LastSlice(r) /\ pc'[r] = "slice" /\ retval'[r] = "none"
      BY <1>1, <3>1, <3>2, SplAssumption DEF LastSlice, LoopAt, AtRest, Working, InStep
    <3>3. CASE LastSlice(r) /\ pc'[r] = "returned" /\ retval'[r] = "ok"
      BY <1>1, <3>1, <3>3, SplAssumption DEF LastSlice, LoopAt, AtRest, Working, InStep
    <3> QED BY <1>0, <1>1, <1>4, <3>2, <3>3 DEF LoopInv, LocalTypes
  <2> QED BY <2>2, <2>3, <2>4, <2>5 DEF LoopInv
<1> QED BY <1>2, <1>3, <1>4

\* Where the other steps of a Run take it, and what they return.
LEMMA RunMoves ==
  ASSUME DSInv, LoopInv, NEW r \in Callers, RunStep(r) \/ Timeout(r), ~RegisterStep(r), ~EndStep(r)
  PROVE LoopInv'
<1>0. DOMAIN pc = Callers /\ [retval EXCEPT ![r] = retval[r]] = retval BY DEF DSInv, RunInvs, PcType, LoopInv, LocalTypes
<1> USE DEF Goto, Return, dsHistory, localVars
<1>1. CASE CheckGraph(r) \/ LookUp(r) \/ CreateExecutors(r) \/ Insert(r) \/ Feed(r)
  <2>1. token' = token /\ UNCHANGED <<sc, inputs, timed, outputs, fed, stepsOf>>
    BY <1>1 DEF CheckGraph, LookUp, CreateExecutors, Insert, Feed, cmVars, callerVars
  <2>2. \/ /\ pc[r] \notin AtRest \cup Working /\ UNCHANGED retval
           /\ \E l \in {"slice", "create", "feed", "insert", "token"} : pc' = [pc EXCEPT ![r] = l]
        \/ /\ pc[r] \notin AtRest /\ pc' = [pc EXCEPT ![r] = "returned"]
           /\ retval' = [retval EXCEPT ![r] = "error"]
        \/ UNCHANGED <<localVars, dsHistory>>
    BY <1>1 DEF CheckGraph, LookUp, CreateExecutors, Insert, Feed, AtRest, Working, InStep
  <2>3. \A l \in {"slice", "create", "feed", "insert", "token"} : l \notin AtRest \cup Working
    BY DEF AtRest, Working, InStep
  <2>4. "returned" \in AtRest BY DEF AtRest
  <2>5. CASE UNCHANGED <<localVars, dsHistory>> BY <2>1, <2>5, RestKeeps
  <2>6. ASSUME pc[r] \notin AtRest \cup Working, UNCHANGED retval,
               NEW l \in {"slice", "create", "feed", "insert", "token"}, pc' = [pc EXCEPT ![r] = l]
        PROVE LoopInv'
    BY <1>0, <2>1, <2>3, <2>6, MoveKeeps
  <2>7. ASSUME pc[r] \notin AtRest, pc' = [pc EXCEPT ![r] = "returned"], retval' = [retval EXCEPT ![r] = "error"]
        PROVE LoopInv'
    BY <1>0, <2>1, <2>4, <2>7, MoveKeeps
  <2> QED BY <2>2, <2>5, <2>6, <2>7
<1>2. CASE TakeToken(r)
  <2>1. \A q \in Callers : q # r => token'[q] = token[q] BY <1>2 DEF TakeToken, GetToken, DSInv, CMInv, CMTypeOK
  <2>2. pc[r] \notin AtRest \cup Working /\ pc' = [pc EXCEPT ![r] = "register"]
    BY <1>2 DEF TakeToken, AtRest, Working, InStep
  <2>3. UNCHANGED <<sc, inputs, timed, outputs, fed, stepsOf, retval>> BY <1>2 DEF TakeToken
  <2>4. "register" \notin AtRest \cup Working BY DEF AtRest, Working, InStep
  <2> QED BY <1>0, <2>1, <2>2, <2>3, <2>4, MoveKeeps
<1>3. CASE Refused(r)
  <2>1. \A q \in Callers : q # r => token'[q] = token[q] BY <1>3 DEF Refused, Forget, DSInv, CMInv, CMTypeOK
  <2>2. /\ pc[r] \notin AtRest /\ pc' = [pc EXCEPT ![r] = "returned"]
        /\ retval' = [retval EXCEPT ![r] = "cancelled"]
    BY <1>3 DEF Refused, AtRest
  <2>3. UNCHANGED <<sc, inputs, timed, outputs, fed, stepsOf>> BY <1>3 DEF Refused
  <2> QED BY <1>0, <2>1, <2>2, <2>3, MoveKeeps DEF AtRest
<1>4. CASE Start(r) BY <1>4, RestKeeps DEF Start, cmVars, callerVars
<1>5. CASE WaitReturns(r) \/ SetDeadline(r) \/ CancelStep(r) \/ Timeout(r) \/ DeregisterStep(r)
  <2>1. token' = token
    BY <1>5 DEF WaitReturns, SetDeadline, CancelStep, Timeout, DeregisterStep, Deregister, Wakes, cmVars, callerVars
  <2>2. UNCHANGED <<sc, inputs, timed, outputs, fed, stepsOf, retval>>
    BY <1>5 DEF WaitReturns, SetDeadline, CancelStep, Timeout, DeregisterStep
  <2>3. pc[r] \in Working /\ \E l \in Working : pc' = [pc EXCEPT ![r] = l]
    BY <1>5 DEF WaitReturns, SetDeadline, CancelStep, Timeout, DeregisterStep, Working, InStep
  <2> QED BY <1>0, <2>1, <2>2, <2>3, MoveKeeps
<1> QED BY <1>1, <1>2, <1>3, <1>4, <1>5 DEF RunStep

LEMMA LoopNext == ASSUME DSInv, LoopInv, [DSNext]_dsVars PROVE LoopInv'
<1>2. ASSUME NEW s \in Tokens, NEW e \in Executors, ExecutorStep(s, e) PROVE LoopInv'
  BY RestKeeps, <1>2 DEF ExecutorStep, cmVars, callerVars
<1>3. ASSUME NEW c \in Cancellers, Close(c) \/ CloseStep(c) \/ Delete(c) PROVE LoopInv'
  <2>1. UNCHANGED <<localVars, dsHistory>> BY <1>3 DEF Close, CloseStep, CancelSteps, SetClosed, LeaveFactory, Delete
  <2>2. token' = token
    BY <1>3 DEF Close, CloseStep, CancelSteps, SetClosed, LeaveFactory, Delete, StartCancel, CancelProgress, Destroy,
                BeginCallback, EndCallback, SetCancelled, Notify, cmVars, callerVars
  <2> QED BY RestKeeps, <2>1, <2>2
<1>4. CASE Create \/ UNCHANGED dsVars BY RestKeeps, <1>4 DEF Create, dsVars, cmVars, callerVars
<1> QED BY <1>2, <1>3, <1>4, RunEntryKeeps, RegisterLoopKeeps, EndStepLoopKeeps, RunMoves DEF DSNext, RunStep

---------------------------------------------------------------------------
(* A slice that is over ran to its end, and stays as it was.               *)

\* A step is cancelled by the callback of Close or after its deadline was put
\* into its status.
CancelInv ==
  /\ \A s \in Tokens : stepCancelled[s] => s \in began \/ status[s] # "ok"
  /\ \A r \in Callers : pc[r] = "timedout" => status[token[r]] # "ok"

Ran == {s \in Tokens : groupOk[s] /\ executorsDone[s] /\ result[s] = "true" /\ ~stepCancelled[s]}
RanInv == \A r \in Callers : \A k \in 1 .. sc[r] : stepsOf[r][k] \in Ran

LEMMA ErrorStays == ASSUME DSInv, [DSNext]_dsVars, NEW s \in Tokens, status[s] # "ok" PROVE status'[s] # "ok"
<1>1. status \in [Tokens -> {"ok", "error", "deadline", "cancelled"}]
  BY StepsAssumption DEF DSInv, BarrierInv, BarrierTypeOK
<1>2. ASSUME NEW t, NEW v, status' = [status EXCEPT ![t] = Update(@, v)] PROVE status'[s] # "ok"
  BY <1>1, <1>2 DEF Update
<1>3. ASSUME UNCHANGED status PROVE status'[s] # "ok" BY <1>3
<1>4. ASSUME NEW r \in Callers, RunStep(r) \/ Timeout(r) PROVE status'[s] # "ok"
  <2>1. CASE SetDeadline(r) \/ EndStep(r) BY <1>2, <2>1 DEF SetDeadline, EndStep, SetStatus
  <2>2. CASE Start(r) BY <1>3, <2>2 DEF Start, RunAsync
  <2>3. CASE ~(SetDeadline(r) \/ EndStep(r) \/ Start(r))
    BY <1>3, <1>4, <2>3 DEF RunStep, CheckGraph, LookUp, CreateExecutors, Insert, Feed, TakeToken, RegisterStep,
                            Refused, WaitReturns, CancelStep, DeregisterStep, Timeout, barrierVars
  <2> QED BY <2>1, <2>2, <2>3
<1>5. ASSUME NEW t \in Tokens, NEW e \in Executors, ExecutorStep(t, e) PROVE status'[s] # "ok"
  BY <1>2, <1>3, <1>5 DEF ExecutorStep, WhenDone, StartAbort, Done
<1>6. ASSUME NEW r \in Callers, NEW in \in Inputs, NEW to \in Timeouts, Run(r, in, to) PROVE status'[s] # "ok"
  BY <1>3, <1>6 DEF Run, barrierVars
<1>7. ASSUME NEW c \in Cancellers, Close(c) \/ CloseStep(c) \/ Delete(c) PROVE status'[s] # "ok"
  BY <1>3, <1>7 DEF Close, CloseStep, CancelSteps, SetClosed, LeaveFactory, Delete, barrierVars
<1>8. CASE Create \/ UNCHANGED dsVars BY <1>3, <1>8 DEF Create, dsVars, barrierVars
<1> QED BY <1>4, <1>5, <1>6, <1>7, <1>8 DEF DSNext

LEMMA BeganStays == ASSUME [CMNext]_cmVars PROVE began \subseteq began'
BY DEF CMNext, CallerStep, GetToken, Register, Deregister, Wakes, TryDeregister, Forget, CancellerStep,
       StartCancel, CancelProgress, BeginCallback, EndCallback, SetCancelled, Notify, Destroy,
       historyVars, cmVars

\* Who cancels a step, and when.
LEMMA CancelledBy ==
  ASSUME DSInv, SessionTypes, [DSNext]_dsVars, NEW s \in Tokens, stepCancelled'[s], ~stepCancelled[s]
  PROVE s \in began' \/ \E r \in Callers : token[r] = s /\ pc[r] = "timedout"
<1>1. ASSUME NEW r \in Callers, CancelStep(r) PROVE token[r] = s /\ pc[r] = "timedout"
  BY <1>1 DEF CancelStep, SessionTypes
<1>2. ASSUME NEW c \in Cancellers, CancelSteps(c) PROVE s \in began'
  <2>1. running'[c] = s BY <1>2 DEF CancelSteps
  <2>2. running \in [Cancellers -> Tokens \cup {kInvalidToken}] /\ s # kInvalidToken
    BY DEF DSInv, CMInv, CMTypeOK, Tokens, kInvalidToken
  <2>3. CASE running[c] = s
    BY <2>2, <2>3, SessionStepIsManagerStep, BeganStays DEF DSInv, CMInv, RunInv
  <2>4. ASSUME NEW t \in toRun[c], BeginCallback(c, t) PROVE s \in began' BY <2>1, <2>2, <2>4 DEF BeginCallback
  <2>5. CASE EndCallback(c) BY <2>1, <2>2, <2>5 DEF EndCallback
  <2>6. CASE SetCancelled(c) \/ Notify(c) BY <2>1, <2>3, <2>6 DEF SetCancelled, Notify
  <2> QED BY <1>2, <2>4, <2>5, <2>6 DEF CancelSteps, CancelProgress
<1>3. ASSUME UNCHANGED stepCancelled PROVE FALSE BY <1>3
<1>4. ASSUME NEW r \in Callers, RunStep(r) \/ Timeout(r) PROVE CancelStep(r)
  BY <1>3, <1>4 DEF RunStep, CheckGraph, LookUp, CreateExecutors, Insert, Feed, TakeToken, RegisterStep,
                    Refused, Start, WaitReturns, SetDeadline, DeregisterStep, EndStep, Timeout
<1>5. ASSUME NEW r \in Callers, NEW in \in Inputs, NEW to \in Timeouts, Run(r, in, to) PROVE FALSE
  BY <1>3, <1>5 DEF Run
<1>6. ASSUME NEW t \in Tokens, NEW e \in Executors, ExecutorStep(t, e) PROVE FALSE BY <1>3, <1>6 DEF ExecutorStep
<1>7. ASSUME NEW c \in Cancellers, Close(c) \/ SetClosed(c) \/ LeaveFactory(c) \/ Delete(c) PROVE FALSE
  BY <1>3, <1>7 DEF Close, SetClosed, LeaveFactory, Delete
<1>8. CASE Create \/ UNCHANGED dsVars BY <1>3, <1>8 DEF Create, dsVars
<1> QED BY <1>1, <1>2, <1>4, <1>5, <1>6, <1>7, <1>8 DEF DSNext, CloseStep

LEMMA TimedOutBy ==
  ASSUME DSInv, [DSNext]_dsVars, NEW r \in Callers, pc'[r] = "timedout"
  PROVE token'[r] = token[r] /\ token[r] \in Tokens /\ (SetDeadline(r) \/ pc[r] = "timedout")
<1> DEFINE Goal == token'[r] = token[r] /\ token[r] \in Tokens /\ (SetDeadline(r) \/ pc[r] = "timedout")
<1>0. pc[r] \in InStep => token[r] \in Tokens BY DEF DSInv, RunInvs, LinkInv, CMInv, TokenInv, CMTypeOK
<1>1. ASSUME token' = token, pc'[r] = pc[r] PROVE Goal BY <1>0, <1>1 DEF InStep
<1>2. DOMAIN pc = Callers BY DEF DSInv, RunInvs, PcType
<1>3. ASSUME NEW q \in Callers, RunStep(q) \/ Timeout(q) PROVE Goal
  <2>1. CASE q = r /\ SetDeadline(r) BY <1>0, <2>1 DEF SetDeadline, InStep, cmVars, callerVars
  <2>2. CASE q = r /\ ~SetDeadline(r)
    <3>1. ASSUME NEW l, pc' = [pc EXCEPT ![r] = l] PROVE l = "timedout" BY <1>2, <3>1
    <3>2. ~(\E l \in {"check", "slice", "create", "insert", "feed", "token", "register", "refused", "start", "late",
                      "rewait", "deregister", "status", "returned"} : pc' = [pc EXCEPT ![r] = l])
      BY <3>1
    <3>3. ~Start(r) => UNCHANGED pc
      BY <1>3, <2>2, <3>2 DEF RunStep, CheckGraph, LookUp, CreateExecutors, Insert, Feed, TakeToken, RegisterStep,
           Refused, WaitReturns, CancelStep, DeregisterStep, EndStep, Timeout, Goto, Return
    <3>4. UNCHANGED pc BY <3>3 DEF Start, localVars
    <3>5. pc[r] = "timedout" BY <3>4
    <3>6. token' = token
      BY <1>3, <2>2, <3>5 DEF RunStep, CheckGraph, LookUp, CreateExecutors, Insert, Feed, TakeToken, RegisterStep,
           Refused, Start, WaitReturns, CancelStep, DeregisterStep, EndStep, Timeout, cmVars, callerVars
    <3> QED BY <1>1, <3>4, <3>6
  <2>3. CASE q # r
    <3>1. token'[r] = token[r]
      BY <1>3, <2>3 DEF RunStep, CheckGraph, LookUp, CreateExecutors, Insert, Feed, TakeToken, RegisterStep,
           Refused, Start, WaitReturns, SetDeadline, CancelStep, DeregisterStep, EndStep, Timeout,
           GetToken, Register, Deregister, Wakes, Forget, cmVars, callerVars, DSInv, CMInv, CMTypeOK
    <3>2. pc'[r] = pc[r]
      BY <1>2, <1>3, <2>3 DEF RunStep, CheckGraph, LookUp, CreateExecutors, Insert, Feed, TakeToken, RegisterStep,
           Refused, Start, WaitReturns, SetDeadline, CancelStep, DeregisterStep, EndStep, Timeout, Goto, Return, localVars
    <3> QED BY <1>0, <3>1, <3>2 DEF InStep
  <2> QED BY <2>1, <2>2, <2>3
<1>4. ASSUME NEW q \in Callers, NEW in \in Inputs, NEW to \in Timeouts, Run(q, in, to) PROVE Goal
  <2>1. token' = token BY <1>4 DEF Run, cmVars, callerVars
  <2>2. pc'[r] = pc[r] BY <1>2, <1>4 DEF Run, Goto, Return
  <2> QED BY <1>1, <2>1, <2>2
<1>5. ASSUME NEW t \in Tokens, NEW e \in Executors, ExecutorStep(t, e) PROVE Goal
  BY <1>1, <1>5 DEF ExecutorStep, localVars, cmVars, callerVars
<1>6. ASSUME NEW c \in Cancellers, Close(c) \/ CloseStep(c) \/ Delete(c) PROVE Goal
  BY <1>1, <1>6 DEF Close, CloseStep, CancelSteps, SetClosed, LeaveFactory, Delete, StartCancel, CancelProgress, Destroy,
                    BeginCallback, EndCallback, SetCancelled, Notify, cmVars, callerVars, localVars
<1>7. CASE Create \/ UNCHANGED dsVars BY <1>1, <1>7 DEF Create, dsVars, localVars, cmVars, callerVars
<1> QED BY <1>3, <1>4, <1>5, <1>6, <1>7 DEF DSNext

LEMMA CancelInvNext == ASSUME DSInv, SessionTypes, CancelInv, [DSNext]_dsVars PROVE CancelInv'
<1>1. ASSUME NEW s \in Tokens, stepCancelled'[s] PROVE s \in began' \/ status'[s] # "ok"
  <2>1. began \subseteq began' BY SessionStepIsManagerStep, BeganStays
  <2>2. CASE stepCancelled[s] BY <2>1, <2>2, ErrorStays DEF CancelInv
  <2>3. CASE ~stepCancelled[s] BY <1>1, <2>3, CancelledBy, ErrorStays DEF CancelInv
  <2> QED BY <2>2, <2>3
<1>2. ASSUME NEW r \in Callers, pc'[r] = "timedout" PROVE status'[token'[r]] # "ok"
  <2>1. token'[r] = token[r] /\ token[r] \in Tokens /\ (SetDeadline(r) \/ pc[r] = "timedout") BY <1>2, TimedOutBy
  <2>2. CASE SetDeadline(r)
    BY <2>1, <2>2, StepsAssumption DEF SetDeadline, SetStatus, Update, DSInv, BarrierInv, BarrierTypeOK
  <2>3. CASE pc[r] = "timedout" BY <2>1, <2>3, ErrorStays DEF CancelInv
  <2> QED BY <2>1, <2>2, <2>3
<1> QED BY <1>1, <1>2 DEF CancelInv

\* No executor, Close or deadline reaches a step that ran to its end.
LEMMA RanStays ==
  ASSUME DSInv, SessionTypes, [DSNext]_dsVars, NEW s \in Tokens, s \in Ran PROVE s \in Ran'
<1>0. groupOk[s] /\ executorsDone[s] /\ result[s] = "true" /\ ~stepCancelled[s] BY DEF Ran
<1>1. result'[s] = "true"
  <2>1. \A p \in Callers : caller[p] \in {"registered", "waiting"} => token[p] # s BY <1>0 DEF DSInv, CMInv, CallerInv
  <2>2. result \in [Tokens -> {"none", "true", "false", "tryfalse"}] BY DEF DSInv, CMInv, CMTypeOK
  <2>3. [CMNext]_cmVars BY SessionStepIsManagerStep
  <2>4. ASSUME NEW p \in Callers, CallerStep(p) PROVE result'[s] = "true"
    BY <1>0, <2>1, <2>2, <2>4 DEF CallerStep, GetToken, Register, Deregister, Wakes, TryDeregister, Forget,
                                  Returns, Erase, WaitForCallbacks, historyVars
  <2>5. ASSUME NEW c \in Cancellers, CancellerStep(c) \/ Destroy(c) PROVE result' = result
    BY <2>5 DEF CancellerStep, StartCancel, CancelProgress, BeginCallback, EndCallback, SetCancelled, Notify, Destroy,
                historyVars
  <2>6. CASE UNCHANGED cmVars BY <1>0, <2>6 DEF cmVars, historyVars
  <2> QED BY <1>0, <2>3, <2>4, <2>5, <2>6 DEF CMNext
<1>2. ~stepCancelled'[s]
  <2>1. s \notin began' BY <1>1, DSInvNext DEF DSInv, CMInv, PromiseInv
  <2>2. \A r \in Callers : pc[r] = "timedout" => token[r] # s
    BY <1>0 DEF DSInv, RunInvs, LinkInv, InStep, CMInv, CallerInv
  <2> QED BY <1>0, <2>1, <2>2, CancelledBy
<1>3. groupOk'[s] /\ executorsDone'[s]
  <2>1. \A e \in Executors : exec[s][e] \in {"counted", "done"} BY <1>0, StepsAssumption DEF DSInv, BarrierInv, LastInv
  <2>2. groupOk \in [Tokens -> BOOLEAN] /\ executorsDone \in [Tokens -> BOOLEAN]
    BY StepsAssumption DEF DSInv, BarrierInv, BarrierTypeOK
  <2>3. ASSUME UNCHANGED <<groupOk, executorsDone>> PROVE groupOk'[s] /\ executorsDone'[s] BY <1>0, <2>3
  <2>4. ASSUME NEW t \in Tokens, NEW e \in Executors, ExecutorStep(t, e) PROVE groupOk'[s] /\ executorsDone'[s]
    BY <1>0, <2>1, <2>2, <2>4 DEF ExecutorStep, WhenDone, StartAbort, Done
  <2>5. ASSUME NEW r \in Callers, RunStep(r) \/ Timeout(r) PROVE UNCHANGED <<groupOk, executorsDone>>
    BY <2>5 DEF RunStep, CheckGraph, LookUp, CreateExecutors, Insert, Feed, TakeToken, RegisterStep, Refused, Start,
                RunAsync, WaitReturns, SetDeadline, CancelStep, DeregisterStep, EndStep, Timeout, barrierVars
  <2>6. ASSUME NEW r \in Callers, NEW in \in Inputs, NEW to \in Timeouts, Run(r, in, to)
        PROVE UNCHANGED <<groupOk, executorsDone>>
    BY <2>6 DEF Run, barrierVars
  <2>7. ASSUME NEW c \in Cancellers, Close(c) \/ CloseStep(c) \/ Delete(c) PROVE UNCHANGED <<groupOk, executorsDone>>
    BY <2>7 DEF Close, CloseStep, CancelSteps, SetClosed, LeaveFactory, Delete, barrierVars
  <2>8. CASE Create \/ UNCHANGED dsVars BY <2>3, <2>8 DEF Create, dsVars, barrierVars
  <2> QED BY <2>3, <2>4, <2>5, <2>6, <2>7, <2>8 DEF DSNext
<1> QED BY <1>1, <1>2, <1>3 DEF Ran

\* What a step does to the slices a Run has been through.
SameHistory(r) == sc'[r] = sc[r] /\ stepsOf'[r] = stepsOf[r] /\ fed'[r] = fed[r] /\ inputs'[r] = inputs[r]
NewCall(r) ==
  /\ sc'[r] = 0 /\ stepsOf'[r] = <<>>
  /\ inputs'[r] \in Inputs /\ fed'[r] = [i \in DOMAIN inputs'[r] |-> <<>>]
NewStep(r) ==
  /\ pc[r] = "register" /\ sc'[r] = sc[r] /\ inputs'[r] = inputs[r]
  /\ stepsOf'[r] = Append(stepsOf[r], token[r])
  /\ fed'[r] = [i \in DOMAIN fed[r] |-> fed[r][i] \o Slice(inputs[r][i], sc[r])]
  /\ MayTouchCallbacks
NextSlice(r) ==
  /\ pc[r] = "status" /\ StepStatus(token[r]) = "ok" /\ sc'[r] = sc[r] + 1
  /\ stepsOf'[r] = stepsOf[r] /\ fed'[r] = fed[r] /\ inputs'[r] = inputs[r]

LEMMA HistoryMoves ==
  ASSUME DSInv, LoopInv, [DSNext]_dsVars, NEW r \in Callers
  PROVE SameHistory(r) \/ NewCall(r) \/ NewStep(r) \/ NextSlice(r)
<1> DEFINE Goal == SameHistory(r) \/ NewCall(r) \/ NewStep(r) \/ NextSlice(r)
<1>0. DOMAIN sc = Callers /\ DOMAIN inputs = Callers /\ DOMAIN fed = Callers /\ DOMAIN stepsOf = Callers
  BY DEF LoopInv, LocalTypes, HistoryTypes
<1>1. ASSUME UNCHANGED <<sc, inputs, fed, stepsOf>> PROVE SameHistory(r) BY <1>1 DEF SameHistory
<1>2. ASSUME NEW q \in Callers, NEW in \in Inputs, NEW to \in Timeouts, Run(q, in, to) PROVE Goal
  <2>1. CASE q = r
    <3>1. sc'[r] = 0 /\ stepsOf'[r] = <<>> /\ inputs'[r] = in BY <1>0, <1>2, <2>1 DEF Run
    <3>2. fed'[r] = [i \in DOMAIN in |-> <<>>] BY <1>0, <1>2, <2>1 DEF Run
    <3> QED BY <3>1, <3>2 DEF NewCall
  <2>2. CASE q # r BY <1>0, <1>2, <2>2 DEF Run, SameHistory
  <2> QED BY <2>1, <2>2
<1>3. ASSUME NEW q \in Callers, RegisterStep(q) PROVE Goal
  <2>1. CASE caller'[q] = "refused" BY <1>1, <1>3, <2>1 DEF RegisterStep, dsHistory
  <2>2. CASE caller'[q] = "registered" /\ q = r
    <3>1. MayTouchCallbacks /\ pc[r] = "register"
      BY <1>3, <2>2 DEF RegisterStep, Register, DSInv, CMInv, CMTypeOK
    <3>2. stepsOf'[r] = Append(stepsOf[r], token[r]) /\ UNCHANGED <<sc, inputs>>
      BY <1>0, <1>3, <2>2 DEF RegisterStep
    <3>3. fed'[r] = [i \in DOMAIN fed[r] |-> fed[r][i] \o Slice(inputs[r][i], sc[r])]
      BY <1>0, <1>3, <2>2 DEF RegisterStep
    <3> QED BY <3>1, <3>2, <3>3 DEF NewStep
  <2>3. CASE caller'[q] = "registered" /\ q # r BY <1>0, <1>3, <2>3 DEF RegisterStep, SameHistory
  <2> QED BY <1>3, <2>1, <2>2, <2>3 DEF RegisterStep
<1>4. ASSUME NEW q \in Callers, EndStep(q) PROVE Goal
  <2>1. UNCHANGED <<inputs, fed, stepsOf>> /\ pc[q] = "status" BY <1>4 DEF EndStep, dsHistory
  <2>2. UNCHANGED sc \/ (sc' = [sc EXCEPT ![q] = @ + 1] /\ StepStatus(token[q]) = "ok") BY <1>4 DEF EndStep
  <2>3. CASE q = r BY <1>0, <1>1, <2>1, <2>2, <2>3 DEF NextSlice
  <2>4. CASE q # r BY <1>0, <1>1, <2>1, <2>2, <2>4 DEF SameHistory
  <2> QED BY <2>3, <2>4
<1>5. ASSUME NEW q \in Callers, ~RegisterStep(q), ~EndStep(q), RunStep(q) \/ Timeout(q)
      PROVE UNCHANGED <<sc, inputs, fed, stepsOf>>
  BY <1>5 DEF RunStep, CheckGraph, LookUp, CreateExecutors, Insert, Feed, TakeToken, Refused, Start, WaitReturns,
              SetDeadline, CancelStep, DeregisterStep, Timeout, localVars, dsHistory
<1>6. ASSUME NEW s \in Tokens, NEW e \in Executors, ExecutorStep(s, e) PROVE UNCHANGED <<sc, inputs, fed, stepsOf>>
  BY <1>6 DEF ExecutorStep, localVars, dsHistory
<1>7. ASSUME NEW c \in Cancellers, Close(c) \/ CloseStep(c) \/ Delete(c) PROVE UNCHANGED <<sc, inputs, fed, stepsOf>>
  BY <1>7 DEF Close, CloseStep, CancelSteps, SetClosed, LeaveFactory, Delete, localVars, dsHistory
<1>8. CASE Create \/ UNCHANGED dsVars BY <1>1, <1>8 DEF Create, dsVars, localVars, dsHistory
<1> QED BY <1>1, <1>2, <1>3, <1>4, <1>5, <1>6, <1>7, <1>8 DEF DSNext

LEMMA RanNext ==
  ASSUME DSInv, SessionTypes, LoopInv, CancelInv, RanInv, [DSNext]_dsVars PROVE RanInv'
<1> SUFFICES ASSUME NEW r \in Callers, NEW k \in 1 .. sc'[r] PROVE stepsOf'[r][k] \in Ran' BY DEF RanInv
<1>1. sc[r] \in 0 .. spl /\ stepsOf[r] \in Seq(Tokens) /\ LoopAt(r) BY DEF LoopInv, LocalTypes, HistoryTypes
<1>2. Len(stepsOf[r]) >= sc[r] BY <1>1, SplAssumption DEF LoopAt
<1>3. \A j \in 1 .. sc[r] : stepsOf[r][j] \in Tokens /\ stepsOf[r][j] \in Ran'
  <2>1. \A j \in 1 .. sc[r] : stepsOf[r][j] \in Tokens BY <1>1, <1>2, SplAssumption
  <2> QED BY <2>1, RanStays DEF RanInv
<1>4. CASE SameHistory(r) BY <1>3, <1>4 DEF SameHistory
<1>5. CASE NewCall(r) BY <1>5 DEF NewCall
<1>6. CASE NewStep(r)
  <2>1. k \in 1 .. sc[r] /\ stepsOf'[r] = Append(stepsOf[r], token[r]) BY <1>6 DEF NewStep
  <2>2. stepsOf'[r][k] = stepsOf[r][k] BY <1>1, <1>2, <2>1, SplAssumption
  <2> QED BY <1>3, <2>1, <2>2
<1>7. CASE NextSlice(r)
  <2>1. stepsOf'[r] = stepsOf[r] /\ sc'[r] = sc[r] + 1 /\ stepsOf[r][sc[r] + 1] = token[r]
    BY <1>1, <1>7 DEF NextSlice, LoopAt, Working
  <2>2. CASE k \in 1 .. sc[r] BY <1>3, <2>1, <2>2
  <2>3. CASE k = sc[r] + 1
    <3>1. token[r] \in Tokens /\ executorsDone[token[r]]
      BY <1>7, StepIsOver DEF NextSlice, DSInv, RunInvs, ExecInv
    <3>2. status[token[r]] = "ok" /\ result[token[r]] = "true"
      BY <1>7 DEF NextSlice, StepStatus, Update
    <3>3. groupOk[token[r]] BY <3>1, <3>2, StepsAssumption DEF DSInv, BarrierInv, LastInv
    <3>4. ~stepCancelled[token[r]] BY <3>1, <3>2 DEF CancelInv, DSInv, CMInv, PromiseInv
    <3>5. token[r] \in Ran BY <3>1, <3>2, <3>3, <3>4 DEF Ran
    <3> QED BY <2>1, <2>3, <3>1, <3>5, RanStays
  <2> QED BY <1>1, <2>1, <2>2, <2>3, SplAssumption
<1> QED BY <1>4, <1>5, <1>6, <1>7, HistoryMoves

---------------------------------------------------------------------------
(* The rows given to the executors.                                        *)

LEMMA QuotientFits ==
  ASSUME NEW n \in Nat PROVE n \div spl \in Nat /\ spl * (n \div spl) <= n
BY SplAssumption

LEMMA ProductGrows ==
  ASSUME NEW a \in Nat, NEW b \in Nat, NEW q \in Nat, a <= b PROVE a * q <= b * q
<1>1. b * q = a * q + (b - a) * q OBVIOUS
<1>2. (b - a) * q >= 0 OBVIOUS
<1> QED BY <1>1, <1>2

\* One slice: n \div spl consecutive rows from the k-th multiple on.
LEMMA SliceRows ==
  ASSUME NEW n \in Nat, NEW k \in Nat
  PROVE /\ Slice(n, k) \in Seq(Nat) /\ Len(Slice(n, k)) = n \div spl
        /\ \A j \in 1 .. n \div spl : Slice(n, k)[j] = k * (n \div spl) + j - 1
<1> DEFINE q == n \div spl
<1>1. q \in Nat BY QuotientFits
<1>2. k * q \in Nat BY <1>1
<1> HIDE DEF q
<1>3. Slice(n, k) = [j \in 1 .. q |-> k * q + j - 1] BY DEF Slice, q
<1>4. \A j \in 1 .. q : k * q + j - 1 \in Nat BY <1>1, <1>2
<1> QED BY <1>1, <1>2, <1>3, <1>4 DEF q

\* Appending the k-th slice to the rows before it.
LEMMA PrefixGrows ==
  ASSUME NEW n \in Nat, NEW k \in Nat, NEW f \in Seq(Nat), Len(f) = k * (n \div spl),
         \A j \in 1 .. Len(f) : f[j] = j - 1
  PROVE /\ f \o Slice(n, k) \in Seq(Nat) /\ Len(f \o Slice(n, k)) = (k + 1) * (n \div spl)
        /\ \A j \in 1 .. Len(f \o Slice(n, k)) : (f \o Slice(n, k))[j] = j - 1
<1> DEFINE q == n \div spl
           g == Slice(n, k)
<1>1. q \in Nat /\ k * q \in Nat /\ (k + 1) * q = k * q + q BY QuotientFits
<1>2. g \in Seq(Nat) /\ Len(g) = q /\ \A j \in 1 .. q : g[j] = k * q + j - 1 BY SliceRows
<1>3. Len(f) = k * q OBVIOUS
<1> HIDE DEF q, g
<1>4. f \o g \in Seq(Nat) /\ Len(f \o g) = k * q + q
  BY <1>2, <1>3, ConcatProperties
<1>5. ASSUME NEW j \in 1 .. Len(f \o g) PROVE (f \o g)[j] = j - 1
  <2>1. CASE j <= Len(f) BY <1>1, <1>2, <1>3, <1>4, <2>1
  <2>2. CASE j > Len(f)
    <3>1. (f \o g)[j] = g[j - Len(f)] BY <1>1, <1>2, <1>3, <1>4, <2>2, ConcatProperties
    <3>2. j - Len(f) \in 1 .. q BY <1>1, <1>3, <1>4, <2>2
    <3>3. g[j - Len(f)] = k * q + (j - Len(f)) - 1 BY <1>2, <3>2
    <3> QED BY <1>1, <1>3, <3>1, <3>3
  <2> QED BY <1>1, <1>3, <2>1, <2>2
<1> QED BY <1>1, <1>4, <1>5 DEF q, g

\* Run is past the loop that slices the inputs.
PastFeed == {"token", "register", "refused"} \cup Working

\* No scalar is ever sliced; what was fed are the first rows.
FedInv ==
  /\ \A r \in Callers : pc[r] \in PastFeed \/ stepsOf[r] # <<>> =>
       \A i \in DOMAIN inputs[r] : inputs[r][i] # Scalar
  /\ \A r \in Callers : \A i \in DOMAIN fed[r] :
       /\ fed[r][i] \in Seq(Nat) /\ Len(fed[r][i]) = Len(stepsOf[r]) * (inputs[r][i] \div spl)
       /\ \A k \in 1 .. Len(fed[r][i]) : fed[r][i][k] = k - 1

LEMMA FeedMoves ==
  ASSUME DSInv, LoopInv, [DSNext]_dsVars, NEW r \in Callers, pc'[r] \in PastFeed
  PROVE inputs'[r] = inputs[r] /\ (pc[r] \in PastFeed \/ \A i \in DOMAIN inputs[r] : inputs[r][i] # Scalar)
<1> DEFINE Goal == inputs'[r] = inputs[r] /\ (pc[r] \in PastFeed \/ \A i \in DOMAIN inputs[r] : inputs[r][i] # Scalar)
<1>0. DOMAIN pc = Callers /\ DOMAIN inputs = Callers BY DEF DSInv, RunInvs, PcType, LoopInv, LocalTypes
<1>1. ASSUME UNCHANGED <<pc, inputs>> PROVE Goal BY <1>1
<1>2. ASSUME NEW q \in Callers, NEW in \in Inputs, NEW to \in Timeouts, Run(q, in, to) PROVE Goal
  <2>1. q # r BY <1>0, <1>2 DEF Run, Return, Goto, PastFeed, Working, InStep
  <2> QED BY <1>0, <1>2, <2>1 DEF Run, Return, Goto
<1>3. ASSUME NEW q \in Callers, RunStep(q) \/ Timeout(q) PROVE Goal
  <2>1. inputs' = inputs
    BY <1>3 DEF RunStep, CheckGraph, LookUp, CreateExecutors, Insert, Feed, TakeToken, RegisterStep, Refused, Start,
                WaitReturns, SetDeadline, CancelStep, DeregisterStep, EndStep, Timeout, localVars
  <2>2. CASE pc'[r] = pc[r] BY <2>1, <2>2
  <2>3. CASE q # r
    BY <1>0, <1>3, <2>2, <2>3 DEF RunStep, CheckGraph, LookUp, CreateExecutors, Insert, Feed, TakeToken, RegisterStep,
         Refused, Start, WaitReturns, SetDeadline, CancelStep, DeregisterStep, EndStep, Timeout, Goto, Return, localVars
  <2>4. CASE q = r /\ pc[r] \notin PastFeed
    <3>1. ASSUME NEW l \in {"slice", "create", "insert", "feed", "returned"}, pc' = [pc EXCEPT ![r] = l] PROVE FALSE
      BY <1>0, <3>1 DEF PastFeed, Working, InStep
    <3>2. CASE Feed(r) BY <2>1, <2>2, <3>1, <3>2 DEF Feed, Goto, Return
    <3>3. CASE CheckGraph(r) \/ LookUp(r) \/ CreateExecutors(r) \/ Insert(r)
      BY <3>1, <3>3 DEF CheckGraph, LookUp, CreateExecutors, Insert, Goto, Return
    <3> QED BY <1>3, <2>4, <3>2, <3>3 DEF RunStep, TakeToken, RegisterStep, Refused, Start, WaitReturns,
         SetDeadline, CancelStep, DeregisterStep, EndStep, Timeout, PastFeed, Working, InStep
  <2> QED BY <2>1, <2>3, <2>4
<1>4. ASSUME NEW s \in Tokens, NEW e \in Executors, ExecutorStep(s, e) PROVE Goal
  BY <1>1, <1>4 DEF ExecutorStep, localVars
<1>5. ASSUME NEW c \in Cancellers, Close(c) \/ CloseStep(c) \/ Delete(c) PROVE Goal
  BY <1>1, <1>5 DEF Close, CloseStep, CancelSteps, SetClosed, LeaveFactory, Delete, localVars
<1>6. CASE Create \/ UNCHANGED dsVars BY <1>1, <1>6 DEF Create, dsVars, localVars
<1> QED BY <1>2, <1>3, <1>4, <1>5, <1>6 DEF DSNext

LEMMA FedInit == DSInit => FedInv
<1> SUFFICES ASSUME DSInit PROVE FedInv OBVIOUS
<1>1. \A r \in Callers : pc[r] \notin PastFeed /\ stepsOf[r] = <<>> BY DEF DSInit, PastFeed, Working, InStep
<1>2. \A r \in Callers : fed[r] = <<>> BY DEF DSInit
<1>3. DOMAIN <<>> = {}
  <2>1. <<>> \in Seq({}) /\ Len(<<>>) = 0 BY EmptySeq
  <2>2. DOMAIN <<>> = 1 .. 0 BY <2>1
  <2> QED BY <2>2
<1> QED BY <1>1, <1>2, <1>3 DEF FedInv

LEMMA FedNext == ASSUME DSInv, LoopInv, FedInv, [DSNext]_dsVars PROVE FedInv'
<1>1. ASSUME NEW r \in Callers, pc'[r] \in PastFeed \/ stepsOf'[r] # <<>>
      PROVE \A i \in DOMAIN inputs'[r] : inputs'[r][i] # Scalar
  <2>1. CASE pc'[r] \in PastFeed BY <2>1, FeedMoves DEF FedInv
  <2>2. CASE stepsOf'[r] # <<>>
    <3>1. CASE SameHistory(r) \/ NextSlice(r) BY <2>2, <3>1 DEF SameHistory, NextSlice, FedInv
    <3>2. CASE NewStep(r) BY <3>2 DEF NewStep, FedInv, PastFeed
    <3> QED BY <2>2, <3>1, <3>2, HistoryMoves DEF NewCall
  <2> QED BY <1>1, <2>1, <2>2
<1>2. ASSUME NEW r \in Callers, NEW i \in DOMAIN fed'[r]
      PROVE /\ fed'[r][i] \in Seq(Nat) /\ Len(fed'[r][i]) = Len(stepsOf'[r]) * (inputs'[r][i] \div spl)
            /\ \A k \in 1 .. Len(fed'[r][i]) : fed'[r][i][k] = k - 1
  <2>1. CASE SameHistory(r) \/ NextSlice(r) BY <1>2, <2>1 DEF SameHistory, NextSlice, FedInv
  <2>2. CASE NewCall(r)
    <3>1. i \in DOMAIN inputs'[r] /\ fed'[r][i] = <<>> /\ stepsOf'[r] = <<>> BY <1>2, <2>2 DEF NewCall
    <3>2. inputs'[r][i] \in Int BY <3>1, <2>2, InputsAssumption DEF NewCall, Scalar
    <3>3. inputs'[r][i] \div spl \in Int BY <3>2, SplAssumption
    <3> QED BY <3>1, <3>3
  <2>3. CASE NewStep(r)
    <3>1. i \in DOMAIN fed[r] /\ fed'[r][i] = fed[r][i] \o Slice(inputs[r][i], sc[r]) /\ inputs'[r] = inputs[r]
      BY <1>2, <2>3 DEF NewStep
    <3>2. DOMAIN fed[r] = DOMAIN inputs[r] /\ stepsOf[r] \in Seq(Tokens) /\ sc[r] \in 0 .. spl
          /\ inputs[r] \in Inputs \cup {<<>>} /\ LoopAt(r)
      BY DEF LoopInv, HistoryTypes, LocalTypes
    <3>3. sc[r] \in Nat /\ Len(stepsOf[r]) = sc[r] /\ Len(stepsOf'[r]) = sc[r] + 1
      <4>1. pc[r] = "register" /\ stepsOf'[r] = Append(stepsOf[r], token[r]) BY <2>3 DEF NewStep
      <4>2. Len(stepsOf[r]) = sc[r] BY <3>2, <4>1 DEF LoopAt, AtRest, Working, InStep
      <4> QED BY <3>2, <4>1, <4>2, SplAssumption
    <3>4. inputs[r][i] \in Nat
      <4>1. inputs[r][i] # Scalar BY <2>3, <3>1, <3>2 DEF FedInv, NewStep, PastFeed
      <4>2. inputs[r] \in Seq(Nat \cup {Scalar})
        <5>1. <<>> \in Seq(Nat \cup {Scalar}) BY EmptySeq
        <5> QED BY <3>2, <5>1, InputsAssumption
      <4> QED BY <3>1, <3>2, <4>1, <4>2
    <3>5. /\ fed[r][i] \in Seq(Nat) /\ Len(fed[r][i]) = sc[r] * (inputs[r][i] \div spl)
          /\ \A k \in 1 .. Len(fed[r][i]) : fed[r][i][k] = k - 1
      BY <3>1, <3>3 DEF FedInv
    <3>6. LET n == inputs[r][i] k == sc[r] f == fed[r][i] IN
            /\ f \o Slice(n, k) \in Seq(Nat) /\ Len(f \o Slice(n, k)) = (k + 1) * (n \div spl)
            /\ \A j \in 1 .. Len(f \o Slice(n, k)) : (f \o Slice(n, k))[j] = j - 1
      BY <3>3, <3>4, <3>5, PrefixGrows
    <3> QED BY <3>1, <3>3, <3>6
  <2> QED BY <2>1, <2>2, <2>3, HistoryMoves
<1> QED BY <1>1, <1>2 DEF FedInv

---------------------------------------------------------------------------
\* What the history of the session's Runs adds to DSInv.
HistoryInv ==
  SessionTypes /\ ExecutorsShared /\ CloseInv /\ LoopInv /\ CancelInv /\ RanInv /\ FedInv

LEMMA HistoryInitInv == DSInit => HistoryInv
<1> SUFFICES ASSUME DSInit PROVE HistoryInv OBVIOUS
<1>1. ExecutorsShared BY DEF DSInit, ExecutorsShared
<1>2. CloseInv BY DEF DSInit, CloseInv
<1>3. CancelInv BY DEF DSInit, CancelInv
<1>4. RanInv BY DEF DSInit, RanInv
<1> QED BY <1>1, <1>2, <1>3, <1>4, SessionTypesInit, LoopInit, FedInit DEF HistoryInv

LEMMA HistoryInvNext == DSInv /\ HistoryInv /\ [DSNext]_dsVars => HistoryInv'
BY SessionTypesNext, SharedNext, CloseNext, LoopNext, CancelInvNext, RanNext, FedNext DEF HistoryInv

(* The second inductive invariant, on top of the first.                    *)
THEOREM SessionHistory == DSSpec => [](DSInv /\ HistoryInv)
<1>1. DSInit => DSInv /\ HistoryInv BY DSInitInv, HistoryInitInv
<1>2. (DSInv /\ HistoryInv) /\ [DSNext]_dsVars => (DSInv /\ HistoryInv)' BY DSInvNext, HistoryInvNext
<1> QED BY <1>1, <1>2, PTL DEF DSSpec

(* The variables of the session keep their types; in particular the slice  *)
(* counter of a Run never passes spl.                                      *)
THEOREM SessionTypeCorrect == DSSpec => []DSTypeOK
<1>1. DSInv /\ HistoryInv => DSTypeOK
  <2> SUFFICES ASSUME DSInv, HistoryInv PROVE DSTypeOK OBVIOUS
  <2>1. CMTypeOK /\ BarrierTypeOK BY DEF DSInv, CMInv, BarrierInv
  <2>2. pc \in [Callers -> AtRest \cup {"check", "slice", "create", "insert", "feed", "token", "register",
                        "refused", "start", "late", "timedout", "rewait", "deregister", "status"}]
    BY DEF DSInv, RunInvs, PcType, Outside, InStep
  <2>3. SessionTypes /\ LocalTypes /\ HistoryTypes BY DEF HistoryInv, LoopInv
  <2> QED BY <2>1, <2>2, <2>3 DEF DSTypeOK, SessionTypes, LocalTypes, HistoryTypes
<1> QED BY <1>1, SessionHistory, PTL

(* Runs that race to fill the executor cache all run on the entry that is  *)
(* in it.                                                                  *)
THEOREM RunsShareExecutors == DSSpec => []ExecutorsShared
<1>1. HistoryInv => ExecutorsShared BY DEF HistoryInv
<1> QED BY <1>1, SessionHistory, PTL

(* A Run that returns OK has run every slice to its end, uncancelled.      *)
THEOREM OkRunsAreComplete == DSSpec => []OkMeansAllSlicesRan
<1>1. DSInv /\ HistoryInv => OkMeansAllSlicesRan
  <2> SUFFICES ASSUME DSInv, HistoryInv, NEW r \in Callers, retval[r] = "ok"
               PROVE Len(stepsOf[r]) = spl /\ \A k \in 1 .. spl : stepsOf[r][k] \in Ran
    BY DEF OkMeansAllSlicesRan, Ran
  <2>1. LoopAt(r) /\ stepsOf[r] \in Seq(Tokens) BY DEF HistoryInv, LoopInv, HistoryTypes
  <2>2. sc[r] = spl /\ Len(stepsOf[r]) <= spl /\ pc[r] \in AtRest BY <2>1 DEF LoopAt
  <2>3. Len(stepsOf[r]) \in {sc[r], sc[r] + 1} BY <2>1, <2>2 DEF LoopAt
  <2> QED BY <2>1, <2>2, <2>3, SplAssumption DEF HistoryInv, RanInv
<1> QED BY <1>1, SessionHistory, PTL

(* Whatever happens to a Run, the rows it has fed are a prefix of its      *)
(* input, one slice per step.                                              *)
THEOREM SlicesAreAPrefix == DSSpec => []FedIsAPrefix
<1>1. DSInv /\ HistoryInv => FedIsAPrefix
  <2> SUFFICES ASSUME DSInv, HistoryInv, NEW r \in Callers, NEW i \in DOMAIN fed[r], Len(fed[r][i]) > 0
               PROVE Len(fed[r][i]) <= inputs[r][i]
    BY DEF FedIsAPrefix, HistoryInv, FedInv
  <2> DEFINE n == inputs[r][i]
             q == n \div spl
             m == Len(stepsOf[r])
  <2>1. Len(fed[r][i]) = m * q /\ i \in DOMAIN inputs[r] /\ stepsOf[r] \in Seq(Tokens)
    BY DEF HistoryInv, FedInv, LoopInv, HistoryTypes
  <2>2. m \in Nat /\ m <= spl BY <2>1 DEF HistoryInv, LoopInv, LoopAt
  <2>3. n \in Int
    <3>1. inputs[r] \in Inputs \cup {<<>>} BY DEF HistoryInv, LoopInv, LocalTypes
    <3>2. <<>> \in Seq(Nat \cup {Scalar}) BY EmptySeq
    <3>3. inputs[r] \in Seq(Nat \cup {Scalar}) BY <3>1, <3>2, InputsAssumption
    <3> QED BY <2>1, <3>3 DEF Scalar
  <2>4. q \in Int BY <2>3, SplAssumption
  <2>5. stepsOf[r] # <<>>
    <3>1. ASSUME stepsOf[r] = <<>> PROVE FALSE
      <4>1. m = 0 BY <3>1
      <4>2. m * q = 0 BY <2>4, <4>1
      <4> QED BY <2>1, <4>2
    <3> QED BY <3>1
  <2>6. n \in Nat
    <3>1. n # Scalar BY <2>1, <2>5 DEF HistoryInv, FedInv
    <3>2. inputs[r] \in Inputs \cup {<<>>} BY DEF HistoryInv, LoopInv, LocalTypes
    <3>3. <<>> \in Seq(Nat \cup {Scalar}) BY EmptySeq
    <3>4. inputs[r] \in Seq(Nat \cup {Scalar}) BY <3>2, <3>3, InputsAssumption
    <3> QED BY <2>1, <3>1, <3>4
  <2>7. q \in Nat /\ spl * q <= n BY <2>6, QuotientFits
  <2>8. m * q <= spl * q BY <2>2, <2>7, SplAssumption, ProductGrows
  <2> QED
    <3> HIDE DEF q, m
    <3>1. m * q \in Int /\ spl * q \in Int BY <2>2, <2>7, SplAssumption
    <3> QED BY <2>1, <2>6, <2>7, <2>8, <3>1
<1> QED BY <1>1, SessionHistory, PTL

(* Once a Close has returned, the manager refuses the next slice of every  *)
(* Run that is under way, so no step begins.                               *)
THEOREM ClosedSessionsStartNothing == DSSpec => NoStepAfterClose
<1>1. DSInv /\ HistoryInv /\ [DSNext]_dsVars =>
        [\A r \in Callers : (\E c \in Cancellers : closing[c] = "done") =>
           stepsOf'[r] = stepsOf[r] \/ stepsOf'[r] = <<>>]_dsVars
  <2> SUFFICES ASSUME DSInv, HistoryInv, [DSNext]_dsVars, NEW r \in Callers,
                      NEW c \in Cancellers, closing[c] = "done"
               PROVE stepsOf'[r] = stepsOf[r] \/ stepsOf'[r] = <<>>
    OBVIOUS
  <2>1. Cancellation BY DEF HistoryInv, CloseInv
  <2>2. ~NewStep(r) BY <2>1 DEF Cancellation, NewStep, MayTouchCallbacks
  <2> QED BY <2>2, HistoryMoves DEF HistoryInv, SameHistory, NewCall, NextSlice
<1> QED BY <1>1, SessionHistory, PTL DEF NoStepAfterClose, DSSpec
=============================================================================
