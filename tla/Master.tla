------------------------------ MODULE Master ------------------------------
(***************************************************************************)
(* tensorflow/core/distributed_runtime/master.{h,cc}: the table of         *)
(* sessions and the handlers of the master service.  A request first takes *)
(* a reference to the session in its critical section on the table and     *)
(* gives it back when the session's method has returned; CloseSession,     *)
(* Reset and the collector take the table's own reference.  The RPCs to    *)
(* the workers return, RunGraph and Logging only perhaps: a step may wait  *)
(* for ever until it is cancelled.  The process dies when a worker fails   *)
(* the CleanupAll of a Reset.                                              *)
(***************************************************************************)
EXTENDS MasterSession

CONSTANT RequestKinds   \* the requests that FindMasterSession serves, all or some

VARIABLES
  batch,    \* the sessions_to_close of the Reset that closes each session
  crashed   \* the process died in TF_CHECK_OK

mVars == <<msVars, batch, crashed>>

MInit == MSInit /\ batch = [s \in Sessions |-> {}] /\ crashed = FALSE

AllKinds == {"Run", "RunCallable", "Extend", "MakeCallable", "ReleaseCallable"}

ASSUME MasterAssumption == RequestKinds \subseteq AllKinds

sessions_ == {s \in Sessions : owner[s] = "table"}

\* CreateSession: a new object, with the reference of its constructor;
NewSession(s) ==
  /\ Pass(s, "unborn", "creating")
  /\ refs' = [refs EXCEPT ![s] = 1]
  /\ UNCHANGED <<closed, collected, version, numRunning, cancelled, runGraphs, callables,
                 graphVars, handlerVars, late, toUnref, batch>>

\* Create succeeds and the table takes it, or fails and it is closed.
CreateSession(s) ==
  /\ Pass(s, "creating", "table") \/ Pass(s, "creating", "close")
  /\ UNCHANGED <<sessionVars, graphVars, handlerVars, late, toUnref, batch>>

\* FindMasterSession for request op; a handle the table lacks is answered at
\* once and changes nothing.
FindMasterSession(h, s, op) ==
  /\ At(h, "idle") /\ cleanup[h] = "none" /\ s \in sessions_
  /\ RefSession(s)
  /\ sess' = [sess EXCEPT ![h] = s]
  /\ Go(h, op)
  /\ UNCHANGED <<closed, collected, version, numRunning, cancelled, runGraphs, callables,
                 graphVars, graph, stepVars, cleanup, late, ownerVars, batch>>

\* The method has returned: session->Unref() and done(status).
Done(h) ==
  /\ At(h, "unref") /\ Go(h, "idle")
  /\ UnrefSession(sess[h])
  /\ Release(h, cleanup[h] = "none")
  /\ status' = [status EXCEPT ![h] = "ok"] /\ stopped' = [stopped EXCEPT ![h] = FALSE]
  /\ UNCHANGED <<closed, collected, version, numRunning, cancelled, callables, reg, logging, call,
                 traced, subscribed, cleanup, late, ownerVars, batch>>

CloseSession(s) ==
  /\ Pass(s, "table", "close")
  /\ UNCHANGED <<sessionVars, graphVars, handlerVars, late, toUnref, batch>>

\* GC: the session was not accessed for session_gc_seconds.  A step that runs
\* is no access.
GC(s) ==
  /\ Pass(s, "table", "collect")
  /\ UNCHANGED <<sessionVars, graphVars, handlerVars, late, toUnref, batch>>

\* Reset empties the table (that of an empty table closes no session),
Reset ==
  /\ sessions_ # {}
  /\ owner' = [s \in Sessions |-> IF s \in sessions_ THEN "cleaning" ELSE owner[s]]
  /\ batch' = [s \in Sessions |-> IF s \in sessions_ THEN sessions_ ELSE batch[s]]
  /\ UNCHANGED <<sessionVars, graphVars, handlerVars, late, toUnref>>

\* waits in CleanupWorkers until all workers have answered CleanupAll, which must
\* be OK or the process dies,
CleanupWorkers(s) ==
  /\ owner[s] = "cleaning"
  /\ \/ /\ owner' = [t \in Sessions |-> IF owner[t] = "cleaning" /\ batch[t] = batch[s]
                                   THEN "queued" ELSE owner[t]]
        /\ UNCHANGED crashed
     \/ crashed' = TRUE /\ UNCHANGED owner
  /\ UNCHANGED <<sessionVars, graphVars, handlerVars, late, toUnref, batch>>

\* and closes the sessions one after the other.
ResetNext(s) ==
  /\ \A t \in batch[s] : owner[t] \in {"queued", "done"}
  /\ Pass(s, "queued", "close")
  /\ UNCHANGED <<sessionVars, graphVars, handlerVars, late, toUnref, batch>>

---------------------------------------------------------------------------

\* One step of the closure that works on handler h's request ...
HandlerStep(h) ==
  \/ /\ UNCHANGED batch
     /\ \/ EnterRun(h) \/ StartStep(h) \/ RegisterPartitions(h)
        \/ FillPerStepState(h) \/ RejectFeeds(h) \/ Subscribe(h) \/ Waited(h)
        \/ ProcessStats(h) \/ PostRunCleanup(h) \/ DropGraph(h) \/ CompleteEarly(h)
        \/ Extend(h) \/ MakeCallable(h) \/ InsertCallable(h)
        \/ \E result \in {"ok", "failed"} : RegisterDone(h, result)
        \/ \E w \in Workers : IssueCall(h, w)
        \/ \E g \in Graphs : EnterRunCallable(h, g) \/ ReleaseCallable(h, g)
  \/ Done(h)

\* ... of its cleanup closure ...
CleanupStep(h) ==
  /\ CleanupDone(h) \/ CleanupComplete(h) \/ CleanupUnref(h)
  /\ UNCHANGED batch

\* ... and of the thread that creates, closes or collects session s.
OwnerStep(s) ==
  \/ CreateSession(s) \/ ResetNext(s)
  \/ /\ CloseSection(s) \/ CancelSteps(s) \/ DrainSession(s) \/ ClearGraphs(s) \/ OwnerUnref(s)
     /\ UNCHANGED batch

WorkerAnswers(h, w) == WhenDone(h, w) /\ UNCHANGED batch
ClientLeaves(h)     == ClientCancel(h) /\ UNCHANGED batch

LoggingAnswered(g)  == LoggingDone(g) /\ UNCHANGED batch

MStep ==
  \/ \E h \in Handlers :
       \/ HandlerStep(h) \/ CleanupStep(h) \/ ClientLeaves(h)
       \/ \E w \in Workers : WorkerAnswers(h, w)
       \/ \E s \in Sessions, op \in RequestKinds : FindMasterSession(h, s, op)
  \/ \E g \in Graphs : LoggingAnswered(g)
  \/ \E s \in Sessions : NewSession(s) \/ OwnerStep(s) \/ CloseSession(s) \/ GC(s)
  \/ Reset

\* The process lives and goes on living.
Living(A) == ~crashed /\ A /\ UNCHANGED crashed

MNext ==
  \/ Living(MStep)
  \/ ~crashed /\ \E s \in Sessions : CleanupWorkers(s)

MSpec == MInit /\ [][MNext]_mVars

\* Handlers, cleanup closures and owners run and the workers answer CleanupAll;
\* of the calls of a step only those told to stop are known to end (TryCancel
\* completes a call).
MFairness ==
  /\ \A h \in Handlers :
       /\ WF_mVars(Living(HandlerStep(h))) /\ WF_mVars(Living(CleanupStep(h)))
       /\ \A w \in Workers : WF_mVars(Living(call[h][w] = "told" /\ WorkerAnswers(h, w)))
  /\ \A s \in Sessions : WF_mVars(Living(OwnerStep(s))) /\ WF_mVars(~crashed /\ CleanupWorkers(s))

MLiveSpec == MSpec /\ MFairness

---------------------------------------------------------------------------
(* Who uses what.                                                          *)

HoldsGraph == {"register", "registering", "fill", "issue", "waiting", "post", "drop", "dropEarly",
               "insert"}

HandlersOf(s) == {h \in Handlers : pc[h] # "idle" /\ sess[h] = s}
CleanupsOf(s) == {h \in Handlers : cleanup[h] # "none" /\ sess[h] = s}
Owned(s)      == owner[s] \notin {"unborn", "done", "lapsed"}

HandlersWith(g) == {h \in Handlers : pc[h] \in HoldsGraph /\ graph[h] = g}
CleanupsWith(g) == {h \in Handlers : cleanup[h] = "rpc" /\ graph[h] = g}
Kept(g)         == g \in runGraphs \cup callables \cup toUnref[g[1]]

\* Handler h is past ++num_running_ and its MarkRunCompletion is still due, from
\* itself or from its cleanup closure.
InStep(h) ==
  \/ pc[h] \in {"startStep", "fill", "issue", "waiting", "post", "dropEarly", "complete"}
  \/ pc[h] \in {"register", "registering"} /\ graph[h] = RunGraph(sess[h])
  \/ cleanup[h] \in {"rpc", "complete"}

StepsOf(s) == {h \in Handlers : sess[h] = s /\ InStep(h)}

One(b) == IF b THEN 1 ELSE 0

Deleted(s) == owner[s] # "unborn" /\ refs[s] = 0

---------------------------------------------------------------------------
(* Properties.                                                             *)

HandlerStates == AllKinds \cup HoldsGraph \cup {"idle", "startStep", "complete", "unref"}
OwnerStates   == {"unborn", "creating", "table", "cleaning", "queued", "close", "collect", "cancel",
                  "gcCancel", "drain", "clear", "closed", "unref", "done", "lapsed"}

\* Types of the state of master.cc and master_session.cc.
MTypeOK ==
  /\ owner \in [Sessions -> OwnerStates] /\ toUnref \in [Sessions -> SUBSET Graphs]
  /\ batch \in [Sessions -> SUBSET Sessions]
  /\ refs \in [Sessions -> Nat] /\ numRunning \in [Sessions -> Nat]
  /\ version \in [Sessions -> 0 .. MaxVersion]
  /\ closed \in [Sessions -> BOOLEAN] /\ collected \in [Sessions -> BOOLEAN]
  /\ cancelled \in [Sessions -> BOOLEAN]
  /\ runGraphs \in SUBSET Graphs /\ callables \in SUBSET Graphs /\ late \in SUBSET Graphs
  /\ graphRefs \in [Graphs -> Nat] /\ logging \in [Graphs -> Nat]
  /\ reg \in [Graphs -> {"unbuilt", "built", "registering", "ok", "failed"}]
  /\ pc \in [Handlers -> HandlerStates]
  /\ sess \in [Handlers -> Sessions \cup {NoSession}]
  /\ graph \in [Handlers -> Graphs \cup {NoGraph}]
  /\ call \in [Handlers -> [Workers -> {"none", "running", "told", "deaf", "done"}]]
  /\ status \in [Handlers -> {"ok", "failed", "cancelled", "closed", "collected"} \cup Derived]
  /\ traced \in [Handlers -> BOOLEAN] /\ crashed \in BOOLEAN
  /\ subscribed \in [Handlers -> BOOLEAN] /\ stopped \in [Handlers -> BOOLEAN]
  /\ cleanup \in [Handlers -> {"none", "rpc", "complete", "unref"}]

\* The reference count of a session is the number of its users: the request
\* handlers and cleanup closures that still touch it, and the table or the
\* thread that closes it.  No thread meets a deleted session, and a session
\* that nobody uses is deleted, in whatever order Close, the collector and the
\* closures that steps leave behind give their references back.
SessionRefsExact ==
  \A s \in Sessions :
    refs[s] = One(Owned(s)) + Cardinality(HandlersOf(s)) + Cardinality(CleanupsOf(s))

\* The same of the client graphs: run_graphs_ and callables_ (or the to_unref of
\* Close), the steps, their cleanup closures and those of SetRPCLogging.
GraphRefsExact ==
  \A g \in Graphs :
    graphRefs[g] = One(Kept(g)) + Cardinality(HandlersWith(g)) + Cardinality(CleanupsWith(g))
                   + logging[g]

\* Both counts: the two kinds of objects that closures share are deleted when,
\* and only when, their last user has let go of them.
RefsExact == SessionRefsExact /\ GraphRefsExact

\* The graphs of a deleted session are deleted too, but for those that a closure
\* of SetRPCLogging refers to, which neither the step nor Close waits for, and
\* for callables that ~MasterSession forgets: all those of a session that was
\* collected, and one whose MakeCallable overlapped Close.  A graph that outlives
\* its session uses a worker cache the session may have owned.
GraphsGoWithSession ==
  \A g \in Graphs :
    Deleted(g[1]) /\ graphRefs[g] > 0 =>
      \/ logging[g] > 0
      \/ g # RunGraph(g[1]) /\ (collected[g[1]] \/ g \in late)

\* num_running_ is the number of steps between their increment and their
\* MarkRunCompletion, on every error path: Close cannot wait for a step that is
\* over nor pass one that runs.
RunningExact == \A s \in Sessions : numRunning[s] = Cardinality(StepsOf(s))

\* Once Close has passed its wait no step of the session is left, no partition
\* is still being run for it, and none begins.
CloseWaitsForSteps ==
  \A s \in Sessions : owner[s] \in {"clear", "closed", "done"} =>
    \A h \in Handlers : sess[h] = s =>
      ~InStep(h) /\ \A w \in Workers : call[h][w] = "none"

\* A cancelled session leaves no step waiting in ignorance: whether its callback
\* was registered before or refused after, the step has a bad status and its
\* calls are told to stop.  The exception is a deaf call, issued after a sibling
\* had already failed: the one cancellation of RunManyGraphs is spent and the
\* call never hears of it.
CancelReachesCalls ==
  \A h \in Handlers : At(h, "waiting") /\ cancelled[sess[h]] =>
    status[h] # "ok" /\ \A w \in Workers : call[h][w] # "running"

\* A step that its session cancelled is told why: a plain CANCELLED is answered
\* only when the client cancelled the step, or one of its workers answered
\* CANCELLED, while the session was not closed, since closed_ is set before the
\* steps are cancelled.
PlainCancelNotTheSessions ==
  \A h \in Handlers : pc[h] \in {"drop", "unref"} /\ status[h] = "cancelled" => stopped[h]

---------------------------------------------------------------------------
(* The master implements the session service.                              *)

PhaseOf(s) ==
  IF owner[s] = "unborn" THEN "none"
  ELSE IF refs[s] = 0 THEN "gone"
  ELSE IF ~closed[s] THEN "open"
  ELSE IF owner[s] \in {"clear", "closed", "done"} THEN "drained" ELSE "closed"

Service == INSTANCE SessionService WITH
             Requests <- Handlers,
             phase <- [s \in Sessions |-> PhaseOf(s)],
             graphVersion <- version,
             steps <- [s \in Sessions |-> StepsOf(s)]

\* Seen from outside, sessions of the master open, close and go as
\* SessionService says, whatever requests, closes, resets and collections
\* overlap.
ImplementsService == Service!ServiceSpec

\* A call of the session's steps that no cancellation will reach.
Deaf(s) == \E h \in Handlers, w \in Workers : sess[h] = s /\ call[h][w] = "deaf"

\* A session that left the table is closed to the end and deleted, though steps
\* run on it that would never end by themselves, unless a worker fails the
\* CleanupAll of Reset and with it the master, or a step of the session, or of one
\* that the same Reset closes, waits for ever for a deaf call.
OutOfTableIsDeleted ==
  \A s \in Sessions :
    owner[s] \in {"close", "cleaning", "queued", "collect"} ~>
      \/ Deleted(s) \/ crashed
      \/ <>[](\E t \in batch[s] \cup {s} : Deaf(t))

=============================================================================
