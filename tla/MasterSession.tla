--------------------------- MODULE MasterSession ---------------------------
(***************************************************************************)
(* tensorflow/core/distributed_runtime/master_session.{h,cc}: a session as *)
(* the master keeps it, and the steps, callables and extensions that       *)
(* handler threads carry out on it.                                        *)
(*                                                                         *)
(* Every variable is a function of the session, of the client graph        *)
(* (ReffedClientGraph) or of the handler.  A section under MasterSession's *)
(* mu_ is one step, and so is each Ref, Unref, RPC and cancellation        *)
(* between two of them.  A handler is the closure that Master schedules    *)
(* for a request together with the cleanup closure its step leaves behind; *)
(* it takes the next request when both are over.  A session has one run    *)
(* graph (one set of feeds and fetches) and MaxCallables callables.        *)
(* Partial runs are left out.                                              *)
(***************************************************************************)
EXTENDS Integers, FiniteSets

CONSTANTS Sessions, Handlers,
          Workers,        \* the partitions of every graph, each on its worker
          WorkerErrors,   \* the errors that workers answer, all or some
          MaxCallables,   \* bound: callables made of a session
          MaxVersion,     \* bound: extensions of a session
          MaxLogging      \* bound: a step begins to be traced only while fewer
                          \* than this are traced or owe an answer to LoggingAsync

\* An error that another error of the step led to carries a marker.
Derived == {"derivedFailed", "derivedCancelled"}
AllErrors == {"failed", "cancelled"} \cup Derived

ASSUME MasterSessionAssumption ==
  /\ WorkerErrors \subseteq AllErrors
  /\ MaxCallables \in Nat /\ MaxVersion \in Nat /\ MaxLogging \in Nat
  /\ IsFiniteSet(Handlers) /\ IsFiniteSet(Workers)

VARIABLES
  owner,         \* who has the reference that came with the session: the
                 \* thread that creates it, Master::sessions_, the thread that
                 \* closes it (and where that is in Close), the collector's
  toUnref,       \* to_unref of that thread
  refs,          \* core::RefCounted of each session
  closed,        \* closed_
  collected,     \* garbage_collected_
  version,       \* graph_version_
  numRunning,    \* num_running_
  cancelled,     \* cancellation_manager_ was started
  runGraphs,     \* graphs in run_graphs_
  callables,     \* graphs in callables_
  graphRefs,     \* core::RefCounted of each graph
  reg,           \* RegisterPartitions: unbuilt, built, registering, ok, failed
  logging,       \* closures of SetRPCLogging that still refer to each graph
  pc,            \* where each handler is
  sess, graph,   \* the session and the graph it has in hand
  call,          \* its RunGraph calls: none, running, told (to stop), deaf (they
                 \* run, but the step has told its calls to stop before), done
  status,        \* RunManyGraphs::status_group_, then the step's status
  traced,        \* pss.collect_timeline
  subscribed,    \* its callback is in cancellation_manager_
  cleanup,       \* where its cleanup closure is
  stopped,       \* history: before the session closed, the client cancelled the
                 \* request or a worker answered CANCELLED
  late           \* history: callables entered in callables_ of a closed session

sessionVars == <<refs, closed, collected, version, numRunning, cancelled, runGraphs, callables>>
graphVars   == <<graphRefs, reg, logging>>
stepVars    == <<call, status, traced, subscribed, stopped>>
handlerVars == <<pc, sess, graph, stepVars, cleanup>>
ownerVars   == <<owner, toUnref>>
msVars      == <<sessionVars, graphVars, handlerVars, late, ownerVars>>

Graphs      == Sessions \X (0 .. MaxCallables)
RunGraph(s) == <<s, 0>>
NoSession   == "no session"
NoGraph     == <<NoSession, 0>>

MSInit ==
  /\ owner = [s \in Sessions |-> "unborn"] /\ toUnref = [s \in Sessions |-> {}]
  /\ refs = [s \in Sessions |-> 0] /\ version = [s \in Sessions |-> 0]
  /\ closed = [s \in Sessions |-> FALSE] /\ collected = [s \in Sessions |-> FALSE]
  /\ numRunning = [s \in Sessions |-> 0] /\ cancelled = [s \in Sessions |-> FALSE]
  /\ runGraphs = {} /\ callables = {} /\ late = {}
  /\ graphRefs = [g \in Graphs |-> 0] /\ reg = [g \in Graphs |-> "unbuilt"]
  /\ logging = [g \in Graphs |-> 0]
  /\ pc = [h \in Handlers |-> "idle"] /\ cleanup = [h \in Handlers |-> "none"]
  /\ sess = [h \in Handlers |-> NoSession] /\ graph = [h \in Handlers |-> NoGraph]
  /\ call = [h \in Handlers |-> [w \in Workers |-> "none"]]
  /\ status = [h \in Handlers |-> "ok"] /\ traced = [h \in Handlers |-> FALSE]
  /\ subscribed = [h \in Handlers |-> FALSE] /\ stopped = [h \in Handlers |-> FALSE]

At(h, here) == pc[h] = here
Go(h, next) == pc' = [pc EXCEPT ![h] = next]

---------------------------------------------------------------------------
(* Reference counts.                                                       *)

RefGraph(g) == graphRefs' = [graphRefs EXCEPT ![g] = @ + 1]

UnrefGraph(g) == graphRefs' = [graphRefs EXCEPT ![g] = @ - 1]

\* SetRPCLogging: one reference for each partition's LoggingAsync, whose answer
\* nobody waits for.
SetRPCLogging(g) ==
  /\ graphRefs' = [graphRefs EXCEPT ![g] = @ + Cardinality(Workers)]
  /\ logging'   = [logging EXCEPT ![g] = @ + Cardinality(Workers)]

\* A closure of SetRPCLogging: LoggingAsync is answered.
LoggingDone(g) ==
  /\ logging[g] > 0
  /\ logging' = [logging EXCEPT ![g] = @ - 1]
  /\ UnrefGraph(g)
  /\ UNCHANGED <<sessionVars, reg, handlerVars, late, ownerVars>>

RefSession(s) == refs' = [refs EXCEPT ![s] = @ + 1]

\* The destructor leaves run_graphs_ alone.
UnrefSession_NoDestructor(s) ==
  /\ refs' = [refs EXCEPT ![s] = @ - 1]
  /\ UNCHANGED <<runGraphs, graphRefs>>

\* Unref, and ~MasterSession when it was the last: the run graph loses the
\* reference of run_graphs_; callables_ is not looked at.
UnrefSession(s) ==
  /\ refs' = [refs EXCEPT ![s] = @ - 1]
  /\ LET dies == refs[s] = 1 /\ RunGraph(s) \in runGraphs
     IN  /\ runGraphs' = IF dies THEN runGraphs \ {RunGraph(s)} ELSE runGraphs
         /\ graphRefs' = IF dies THEN [graphRefs EXCEPT ![RunGraph(s)] = @ - 1]
                                 ELSE graphRefs

MarkRunCompletion(s) == numRunning' = [numRunning EXCEPT ![s] = @ - 1]

---------------------------------------------------------------------------
(* RunManyGraphs.                                                          *)

\* CallOptions::StartCancel of every call: it reaches the calls that have set
\* a cancel callback, those issued and not yet answered.
Told(calls) == [w \in Workers |-> IF calls[w] = "running" THEN "told" ELSE calls[w]]

Code(st) == CASE st = "derivedFailed"    -> "failed"
              [] st = "derivedCancelled" -> "cancelled"
              [] OTHER                   -> st

\* StatusGroup: the code of the group is that of its first error without the
\* marker, or of its first error when all are marked.
GroupUpdate(old, st) ==
  IF old = "ok" \/ (old \in Derived /\ st \notin Derived) THEN st ELSE old

\* The calls and the group of handler h, those of the set A having been reported st.
ReportedCalls(A, h, calls) == IF h \in A /\ status[h] = "ok" THEN Told(calls) ELSE calls
ReportedStatus(A, h, st)   == IF h \in A THEN GroupUpdate(status[h], st) ELSE status[h]

\* ReportBadStatus to the steps of all handlers in A: only the first bad
\* status of a step cancels its calls.
ReportBadStatus(A, st) ==
  /\ call'   = [h \in Handlers |-> ReportedCalls(A, h, call[h])]
  /\ status' = [h \in Handlers |-> ReportedStatus(A, h, st)]

\* WhenDone: the worker of partition w answers, and an error keeps the code that
\* the worker gave it.
WhenDone(h, w) ==
  /\ call[h][w] \in {"running", "told", "deaf"}
  /\ LET answered == [call[h] EXCEPT ![w] = "done"]
     IN  \/ /\ call' = [call EXCEPT ![h] = answered]
            /\ UNCHANGED <<status, stopped>>
         \/ \E st \in WorkerErrors :
              /\ call' = [call EXCEPT ![h] = ReportedCalls({h}, h, answered)]
              /\ status' = [status EXCEPT ![h] = ReportedStatus({h}, h, st)]
              /\ stopped' = [stopped EXCEPT ![h] = @ \/ (Code(st) = "cancelled" /\ ~closed[sess[h]])]
  /\ UNCHANGED <<sessionVars, graphVars, pc, sess, graph, traced, subscribed, cleanup, late, ownerVars>>

\* The client cancels the RPC, or leaves: CallOptions::StartCancel, heard
\* between SetCancelCallback and ClearCancelCallback.
ClientCancel(h) ==
  /\ At(h, "waiting")
  /\ stopped' = [stopped EXCEPT ![h] = @ \/ ~closed[sess[h]]]
  /\ ReportBadStatus({h}, "cancelled")
  /\ UNCHANGED <<sessionVars, graphVars, pc, sess, graph, traced, subscribed, cleanup, late, ownerVars>>

\* cancellation_manager_.StartCancel(): every callback registered runs.
StartCancel(s) ==
  /\ cancelled' = [cancelled EXCEPT ![s] = TRUE]
  /\ ReportBadStatus({h \in Handlers : subscribed[h] /\ sess[h] = s}, "cancelled")

---------------------------------------------------------------------------
(* A step: Run and RunCallable.                                            *)

\* closed_ is not tested.
EnterRun_NoCheck(h) ==
  /\ At(h, "Run")
  /\ numRunning' = [numRunning EXCEPT ![sess[h]] = @ + 1]
  /\ Go(h, "startStep")
  /\ UNCHANGED <<refs, closed, collected, version, cancelled, runGraphs, callables, graphVars,
                 sess, graph, stepVars, cleanup, late, ownerVars>>

\* Run: refused once closed_, else counted in num_running_.
EnterRun(h) ==
  /\ At(h, "Run")
  /\ \/ closed[sess[h]] /\ Go(h, "unref") /\ UNCHANGED numRunning
     \/ /\ ~closed[sess[h]]
        /\ numRunning' = [numRunning EXCEPT ![sess[h]] = @ + 1]
        /\ Go(h, "startStep")
  /\ UNCHANGED <<refs, closed, collected, version, cancelled, runGraphs, callables, graphVars,
                 sess, graph, stepVars, cleanup, late, ownerVars>>

\* RunCallable, of the callable g of its session or of a handle that no
\* callable has (any more).
EnterRunCallable(h, g) ==
  /\ At(h, "RunCallable") /\ g[1] = sess[h] /\ g # RunGraph(g[1])
  /\ \/ /\ closed[sess[h]] \/ g \notin callables
        /\ Go(h, "unref") /\ UNCHANGED <<numRunning, graphRefs, graph>>
     \/ /\ ~closed[sess[h]] /\ g \in callables
        /\ RefGraph(g)
        /\ graph' = [graph EXCEPT ![h] = g]
        /\ numRunning' = [numRunning EXCEPT ![sess[h]] = @ + 1]
        /\ Go(h, "fill")
  /\ UNCHANGED <<refs, closed, collected, version, cancelled, runGraphs, callables, reg, logging,
                 sess, stepVars, cleanup, late, ownerVars>>

\* StartStep: finds the run graph or, unless BuildGraph fails, makes it.
StartStep(h) ==
  /\ At(h, "startStep")
  /\ LET g == RunGraph(sess[h]) IN
     \/ /\ g \in runGraphs
        /\ RefGraph(g)
        /\ graph' = [graph EXCEPT ![h] = g] /\ Go(h, "register")
        /\ UNCHANGED <<runGraphs, reg>>
     \/ /\ g \notin runGraphs
        /\ runGraphs' = runGraphs \cup {g}
        /\ graphRefs' = [graphRefs EXCEPT ![g] = 2]
        /\ reg' = [reg EXCEPT ![g] = "built"]
        /\ graph' = [graph EXCEPT ![h] = g] /\ Go(h, "register")
     \/ /\ g \notin runGraphs
        /\ Go(h, "complete")
        /\ UNCHANGED <<runGraphs, graphRefs, reg, graph>>
  /\ UNCHANGED <<refs, closed, collected, version, numRunning, cancelled, callables,
                 logging, sess, stepVars, cleanup, late, ownerVars>>

\* Where a handler goes with the result of RegisterPartitions.
Registered(h, result) ==
  IF graph[h] = RunGraph(sess[h])
  THEN IF result = "ok" THEN "fill" ELSE "dropEarly"
  ELSE IF result = "ok" THEN "insert" ELSE "drop"

\* RegisterPartitions: the first caller takes client_graph_before_register_,
\* the others wait for its result, which stands for ever.  A Run may fail
\* before it, in CreateDebuggerState.
RegisterPartitions(h) ==
  /\ At(h, "register")
  /\ \/ /\ reg[graph[h]] = "built"
        /\ reg' = [reg EXCEPT ![graph[h]] = "registering"]
        /\ Go(h, "registering")
     \/ /\ reg[graph[h]] \in {"ok", "failed"}
        /\ Go(h, Registered(h, reg[graph[h]]))
        /\ UNCHANGED reg
     \/ /\ graph[h] = RunGraph(sess[h])
        /\ Go(h, "dropEarly")
        /\ UNCHANGED reg
  /\ UNCHANGED <<sessionVars, graphRefs, logging, sess, graph, stepVars, cleanup, late, ownerVars>>

\* DoBuildPartitions and DoRegisterPartitions are over: init_done_.Notify().
RegisterDone(h, result) ==
  /\ At(h, "registering")
  /\ reg' = [reg EXCEPT ![graph[h]] = result]
  /\ Go(h, Registered(h, result))
  /\ UNCHANGED <<sessionVars, graphRefs, logging, sess, graph, stepVars, cleanup, late, ownerVars>>

\* FillPerStepState and the start of RunPartitionsHelper: a step that is traced
\* (collect_timeline), by its options or by a ProfileHandler, may turn the
\* logging of RPCs on (collect_rpcs).
FillPerStepState(h) ==
  /\ At(h, "fill") /\ Go(h, "issue")
  /\ \/ UNCHANGED <<traced, graphRefs, logging>>
     \/ /\ \A g \in Graphs : logging[g] + Cardinality({k \in Handlers : traced[k]}) < MaxLogging
        /\ traced' = [traced EXCEPT ![h] = TRUE]
        /\ SetRPCLogging(graph[h]) \/ UNCHANGED <<graphRefs, logging>>
  /\ UNCHANGED <<sessionVars, reg, sess, graph, call, status, subscribed, stopped, cleanup, late, ownerVars>>

\* RunPartitions does not accept the feeds: no call is issued.
RejectFeeds(h) ==
  /\ At(h, "issue") /\ \A w \in Workers : call[h][w] = "none"
  /\ status' = [status EXCEPT ![h] = "failed"]
  /\ Go(h, "post")
  /\ UNCHANGED <<sessionVars, graphVars, sess, graph, call, traced, subscribed, stopped, cleanup, late, ownerVars>>

\* RunPartitionsHelper issues the RunGraph call of one partition, also when an
\* earlier one has failed already.
IssueCall(h, w) ==
  /\ At(h, "issue") /\ call[h][w] = "none"
  /\ call' = [call EXCEPT ![h][w] = IF status[h] = "ok" THEN "running" ELSE "deaf"]
  /\ UNCHANGED <<sessionVars, graphVars, pc, sess, graph, status, traced, subscribed, stopped, cleanup, late, ownerVars>>

\* A refused registration is ignored.
Subscribe_Ignored(h) ==
  /\ At(h, "issue") /\ \A w \in Workers : call[h][w] # "none"
  /\ subscribed' = [subscribed EXCEPT ![h] = ~cancelled[sess[h]]]
  /\ Go(h, "waiting")
  /\ UNCHANGED <<sessionVars, graphVars, sess, graph, call, status, traced, stopped, cleanup, late, ownerVars>>

\* All calls are issued: SetCancelCallback and RegisterCallback; a manager
\* that is already cancelled refuses, and the step cancels itself.
Subscribe(h) ==
  /\ At(h, "issue") /\ \A w \in Workers : call[h][w] # "none"
  /\ subscribed' = [subscribed EXCEPT ![h] = ~cancelled[sess[h]]]
  /\ ReportBadStatus(IF cancelled[sess[h]] THEN {h} ELSE {}, "cancelled")
  /\ Go(h, "waiting")
  /\ UNCHANGED <<sessionVars, graphVars, sess, graph, traced, stopped, cleanup, late, ownerVars>>

\* Wait returns: ClearCancelCallback, DeregisterCallback and the status, or that
\* of the fetches, which may lack one.
Waited(h) ==
  /\ At(h, "waiting") /\ \A w \in Workers : call[h][w] = "done"
  /\ \/ status' = [status EXCEPT ![h] = IF subscribed[h] THEN Code(@) ELSE "cancelled"]
     \/ /\ subscribed[h] /\ status[h] = "ok"
        /\ status' = [status EXCEPT ![h] = "failed"]
  /\ subscribed' = [subscribed EXCEPT ![h] = FALSE]
  /\ call' = [call EXCEPT ![h] = [w \in Workers |-> "none"]]
  /\ Go(h, "post")
  /\ UNCHANGED <<sessionVars, graphVars, sess, graph, traced, stopped, cleanup, late, ownerVars>>

\* ProcessStats, in PostRunCleanup of a step that ended well: a traced step turns
\* the logging off, whether or not it had turned it on.
ProcessStats(h) ==
  /\ At(h, "post") /\ status[h] = "ok" /\ traced[h]
  /\ SetRPCLogging(graph[h])
  /\ traced' = [traced EXCEPT ![h] = FALSE]
  /\ UNCHANGED <<sessionVars, reg, pc, sess, graph, call, status, subscribed, stopped, cleanup, late, ownerVars>>

\* What PostRunCleanup tells the client.
Verdict(h) ==
  IF status[h] = "cancelled" /\ closed[sess[h]]
  THEN IF collected[sess[h]] THEN "collected" ELSE "closed"
  ELSE status[h]

\* The cleanup closure uses the session without a reference.
PostRunCleanup_NoRef(h) ==
  /\ At(h, "post") /\ ~(status[h] = "ok" /\ traced[h])
  /\ status' = [status EXCEPT ![h] = Verdict(h)]
  /\ RefGraph(graph[h])
  /\ cleanup' = [cleanup EXCEPT ![h] = "rpc"]
  /\ Go(h, "drop")
  /\ traced' = [traced EXCEPT ![h] = FALSE]
  /\ UNCHANGED <<sessionVars, reg, logging, sess, graph, call, subscribed, stopped, late, ownerVars>>

\* PostRunCleanup: references for the cleanup closure, which takes over
\* MarkRunCompletion.
PostRunCleanup(h) ==
  /\ At(h, "post") /\ ~(status[h] = "ok" /\ traced[h])
  /\ status' = [status EXCEPT ![h] = Verdict(h)]
  /\ RefSession(sess[h]) /\ RefGraph(graph[h])
  /\ cleanup' = [cleanup EXCEPT ![h] = "rpc"]
  /\ Go(h, "drop")
  /\ traced' = [traced EXCEPT ![h] = FALSE]
  /\ UNCHANGED <<closed, collected, version, numRunning, cancelled, runGraphs, callables, reg, logging,
                 sess, graph, call, subscribed, stopped, late, ownerVars>>

\* ScopedUnref of the graph; a step that failed before RunPartitions still has
\* to mark its completion.
DropGraph(h) ==
  /\ \/ At(h, "drop") /\ Go(h, "unref")
     \/ At(h, "dropEarly") /\ Go(h, "complete")
  /\ UnrefGraph(graph[h])
  /\ UNCHANGED <<sessionVars, reg, logging, sess, graph, stepVars, cleanup, late, ownerVars>>

\* An error path without MarkRunCompletion.
CompleteEarly_NoMark(h) ==
  /\ At(h, "complete")
  /\ Go(h, "unref")
  /\ UNCHANGED <<sessionVars, graphVars, sess, graph, stepVars, cleanup, late, ownerVars>>

CompleteEarly(h) ==
  /\ At(h, "complete")
  /\ MarkRunCompletion(sess[h])
  /\ Go(h, "unref")
  /\ UNCHANGED <<refs, closed, collected, version, cancelled, runGraphs, callables, graphVars,
                 sess, graph, stepVars, cleanup, late, ownerVars>>

\* The last CleanupGraph call of the step is answered: CleanupBroadcastHelper
\* runs the closure, which drops the graph,
CleanupDone(h) ==
  /\ cleanup[h] = "rpc"
  /\ UnrefGraph(graph[h])
  /\ cleanup' = [cleanup EXCEPT ![h] = "complete"]
  /\ UNCHANGED <<sessionVars, reg, logging, pc, sess, graph, stepVars, late, ownerVars>>

\* marks the completion of the step
CleanupComplete(h) ==
  /\ cleanup[h] = "complete"
  /\ MarkRunCompletion(sess[h])
  /\ cleanup' = [cleanup EXCEPT ![h] = "unref"]
  /\ UNCHANGED <<refs, closed, collected, version, cancelled, runGraphs, callables, graphVars,
                 pc, sess, graph, stepVars, late, ownerVars>>

\* The slot of handler h is free when both its threads are over.
Release(h, free) ==
  /\ sess'  = IF free THEN [sess EXCEPT ![h] = NoSession] ELSE sess
  /\ graph' = IF free THEN [graph EXCEPT ![h] = NoGraph] ELSE graph

\* and drops the session.
CleanupUnref(h) ==
  /\ cleanup[h] = "unref"
  /\ UnrefSession(sess[h])
  /\ cleanup' = [cleanup EXCEPT ![h] = "none"]
  /\ Release(h, pc[h] = "idle")
  /\ UNCHANGED <<closed, collected, version, numRunning, cancelled, callables, reg, logging, pc, stepVars, late, ownerVars>>

---------------------------------------------------------------------------
(* Extend and the callables.                                               *)

\* Extend: the caller must name the current version.
Extend(h) ==
  /\ At(h, "Extend")
  /\ Go(h, "unref")
  /\ \/ UNCHANGED version    \* closed, another version, or a bad extension
     \/ /\ ~closed[sess[h]] /\ version[sess[h]] < MaxVersion
        /\ version' = [version EXCEPT ![sess[h]] = @ + 1]
  /\ UNCHANGED <<refs, closed, collected, numRunning, cancelled, runGraphs, callables, graphVars,
                 sess, graph, stepVars, cleanup, late, ownerVars>>

\* MakeCallable, first section: closed_, a BuildGraph that fails, or a new
\* graph.  The step is not counted in num_running_.
MakeCallable(h) ==
  /\ At(h, "MakeCallable")
  /\ \/ Go(h, "unref") /\ UNCHANGED <<graphRefs, reg, graph>>
     \/ /\ ~closed[sess[h]]
        /\ \E k \in 1 .. MaxCallables :
             LET g == <<sess[h], k>> IN
             /\ reg[g] = "unbuilt" /\ \A j \in 1 .. k - 1 : reg[<<sess[h], j>>] # "unbuilt"
             /\ reg' = [reg EXCEPT ![g] = "built"]
             /\ graphRefs' = [graphRefs EXCEPT ![g] = 1]
             /\ graph' = [graph EXCEPT ![h] = g]
        /\ Go(h, "register")
  /\ UNCHANGED <<sessionVars, logging, sess, stepVars, cleanup, late, ownerVars>>

\* MakeCallable, second section: closed_ is not tested again.
InsertCallable(h) ==
  /\ At(h, "insert")
  /\ callables' = callables \cup {graph[h]}
  /\ late' = IF closed[sess[h]] THEN late \cup {graph[h]} ELSE late
  /\ Go(h, "unref")
  /\ UNCHANGED <<refs, closed, collected, version, numRunning, cancelled, runGraphs, graphVars,
                 sess, graph, stepVars, cleanup, ownerVars>>

\* ReleaseCallable, of a handle that may name no callable.
ReleaseCallable(h, g) ==
  /\ At(h, "ReleaseCallable") /\ g[1] = sess[h] /\ g # RunGraph(g[1])
  /\ callables' = callables \ {g}
  /\ IF g \in callables THEN graph' = [graph EXCEPT ![h] = g] /\ Go(h, "drop")
                        ELSE UNCHANGED graph /\ Go(h, "unref")
  /\ UNCHANGED <<refs, closed, collected, version, numRunning, cancelled, runGraphs, graphVars,
                 sess, stepVars, cleanup, late, ownerVars>>

---------------------------------------------------------------------------
(* Close and GarbageCollect, by the thread that took the session out of    *)
(* the table.                                                              *)

Pass(s, here, next) == owner[s] = here /\ owner' = [owner EXCEPT ![s] = next]

\* GarbageCollect does not set closed_.
CloseSection_OnlyClose(s) ==
  /\ \/ /\ Pass(s, "close", "cancel") /\ UNCHANGED collected
        /\ closed' = [closed EXCEPT ![s] = TRUE]
     \/ /\ Pass(s, "collect", "gcCancel") /\ collected' = [collected EXCEPT ![s] = TRUE]
        /\ UNCHANGED closed
  /\ UNCHANGED <<refs, version, numRunning, cancelled, runGraphs, callables, graphVars,
                 handlerVars, late, toUnref>>

\* The first sections of Close and GarbageCollect.
CloseSection(s) ==
  /\ \/ Pass(s, "close", "cancel") /\ UNCHANGED collected
     \/ Pass(s, "collect", "gcCancel") /\ collected' = [collected EXCEPT ![s] = TRUE]
  /\ closed' = [closed EXCEPT ![s] = TRUE]
  /\ UNCHANGED <<refs, version, numRunning, cancelled, runGraphs, callables, graphVars,
                 handlerVars, late, toUnref>>

\* The steps are left running.
CancelSteps_Silent(s) ==
  /\ Pass(s, "cancel", "drain") \/ Pass(s, "gcCancel", "unref")
  /\ UNCHANGED <<sessionVars, graphVars, handlerVars, late, toUnref>>

CancelSteps(s) ==
  /\ Pass(s, "cancel", "drain") \/ Pass(s, "gcCancel", "unref")
  /\ StartCancel(s)
  /\ UNCHANGED <<refs, closed, collected, version, numRunning, runGraphs, callables, graphVars,
                 pc, sess, graph, traced, subscribed, stopped, cleanup, late, toUnref>>

\* Close waits for num_running_ = 0 and clears the tables.
DrainSession(s) ==
  /\ Pass(s, "drain", "clear") /\ numRunning[s] = 0
  /\ toUnref' = [toUnref EXCEPT ![s] = {g \in runGraphs \cup callables : g[1] = s}]
  /\ runGraphs' = runGraphs \ toUnref'[s] /\ callables' = callables \ toUnref'[s]
  /\ UNCHANGED <<refs, closed, collected, version, numRunning, cancelled, graphVars,
                 handlerVars, late>>

\* Close drops the graphs it took from the tables, and deletes the worker
\* sessions.
ClearGraphs(s) ==
  /\ Pass(s, "clear", "closed")
  /\ graphRefs' = [g \in Graphs |-> IF g \in toUnref[s] THEN graphRefs[g] - 1 ELSE graphRefs[g]]
  /\ toUnref' = [toUnref EXCEPT ![s] = {}]
  /\ UNCHANGED <<sessionVars, reg, logging, handlerVars, late>>

\* The owner's Unref, after Close or at the end of GarbageCollect.
OwnerUnref(s) ==
  /\ Pass(s, "closed", "done") \/ Pass(s, "unref", "lapsed")
  /\ UnrefSession(s)
  /\ UNCHANGED <<closed, collected, version, numRunning, cancelled, callables, reg, logging,
                 handlerVars, late, toUnref>>

=============================================================================
