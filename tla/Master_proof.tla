---------------------------- MODULE Master_proof ----------------------------
(***************************************************************************)
(* The master, proved for every number of sessions, workers and handlers.   *)
(* MasterInv is the inductive invariant: the types, what a handler has in   *)
(* hand and how its worker calls stand at every place in its code, what the *)
(* owner of a session has done to it, and the three exact counts (steps,    *)
(* users of a session, users of a graph).  Each part has one lemma that     *)
(* every step of the master keeps it; the counts use the cardinality        *)
(* theorems.  The properties of Master follow, and last that the master     *)
(* implements SessionService.                                              *)
(***************************************************************************)
EXTENDS Master, FiniteSetTheorems, TLAPS

\* What the status of a step may be.
Statuses == {"ok", "failed", "cancelled", "closed", "collected"} \cup Derived

\* The types, with the counters as integers.
Types ==
  /\ owner \in [Sessions -> OwnerStates] /\ toUnref \in [Sessions -> SUBSET Graphs]
  /\ refs \in [Sessions -> Int] /\ numRunning \in [Sessions -> Int]
  /\ version \in [Sessions -> 0 .. MaxVersion]
  /\ closed \in [Sessions -> BOOLEAN] /\ collected \in [Sessions -> BOOLEAN]
  /\ cancelled \in [Sessions -> BOOLEAN]
  /\ runGraphs \in SUBSET Graphs /\ callables \in SUBSET Graphs /\ late \in SUBSET Graphs
  /\ graphRefs \in [Graphs -> Int] /\ logging \in [Graphs -> Nat]
  /\ reg \in [Graphs -> {"unbuilt", "built", "registering", "ok", "failed"}]
  /\ pc \in [Handlers -> HandlerStates]
  /\ sess \in [Handlers -> Sessions \cup {NoSession}]
  /\ graph \in [Handlers -> Graphs \cup {NoGraph}]
  /\ call \in [Handlers -> [Workers -> {"none", "running", "told", "deaf", "done"}]]
  /\ status \in [Handlers -> Statuses]
  /\ traced \in [Handlers -> BOOLEAN]
  /\ subscribed \in [Handlers -> BOOLEAN] /\ stopped \in [Handlers -> BOOLEAN]
  /\ cleanup \in [Handlers -> {"none", "rpc", "complete", "unref"}]

\* What a handler has in hand where it is.
Shape ==
  \A h \in Handlers :
    /\ pc[h] # "idle" \/ cleanup[h] # "none" => sess[h] \in Sessions
    /\ cleanup[h] # "none" => pc[h] \in {"drop", "unref", "idle"}
    /\ pc[h] \in HoldsGraph \/ cleanup[h] = "rpc" => graph[h] \in Graphs /\ graph[h][1] = sess[h]
    /\ pc[h] = "insert" => graph[h] # RunGraph(sess[h])
    /\ pc[h] = "dropEarly" => graph[h] = RunGraph(sess[h])

\* The states the actions move to are states.
LEMMA StatesAre ==
  /\ {"unref", "startStep", "fill", "issue", "register", "registering", "complete", "dropEarly", "drop", "insert",
      "waiting", "post", "idle"} \subseteq HandlerStates
  /\ {"cleaning", "queued", "cancel", "gcCancel", "drain", "unref", "clear", "closed", "done", "lapsed"} \subseteq OwnerStates
BY DEF HandlerStates, HoldsGraph, OwnerStates

\* What the owner of a session has done to it.
OwnerShape ==
  \A s \in Sessions :
    /\ closed[s] <=> owner[s] \in {"cancel", "gcCancel", "drain", "clear", "closed", "unref", "done", "lapsed"}
    /\ cancelled[s] <=> owner[s] \in {"drain", "clear", "closed", "unref", "done", "lapsed"}
    /\ owner[s] \in {"gcCancel", "unref", "lapsed"} => collected[s]

\* How the calls of a step, its status and its subscription go together.
CallsOf(h) ==
  /\ (\A w \in Workers : call[h][w] = "none") \/ pc[h] \in {"issue", "waiting"}
  /\ subscribed[h] => pc[h] = "waiting"
  /\ pc[h] = "waiting" /\ ~subscribed[h] => cancelled[sess[h]]
  /\ pc[h] = "waiting" /\ cancelled[sess[h]] => status[h] # "ok"
  /\ status[h] # "ok" => \A w \in Workers : call[h][w] # "running"
  /\ pc[h] \in {"issue", "waiting", "post"} /\ Code(status[h]) = "cancelled" => stopped[h] \/ closed[sess[h]]
  /\ pc[h] \in {"drop", "unref"} /\ status[h] = "cancelled" => stopped[h]
  /\ pc[h] \notin {"issue", "waiting", "post", "drop", "unref"} => status[h] = "ok"

\* So for every handler.
Calls == \A h \in Handlers : CallsOf(h)

\* A graph has finitely many partitions.
LEMMA Partitions == Cardinality(Workers) \in Nat
BY MasterSessionAssumption, FS_CardinalityType

\* Every step keeps the types.
LEMMA TypesStep ==
  ASSUME Types, Shape, MNext \/ UNCHANGED mVars
  PROVE  Types'
<1> USE MasterAssumption DEF At, Go, sessionVars, graphVars, stepVars, handlerVars, ownerVars
<1>1. ASSUME NEW h \in Handlers, HandlerStep(h) PROVE Types'
  <2>1. CASE EnterRun(h)
    <3>1. pc \in [Handlers -> HandlerStates] BY DEF Types
    <3>2. pc' \in [Handlers -> HandlerStates]
      BY <2>1, <3>1, StatesAre DEF EnterRun
    <3>3. numRunning \in [Sessions -> Int] BY DEF Types
    <3>4. numRunning' \in [Sessions -> Int]
      BY <2>1, <3>3 DEF EnterRun
    <3> QED BY <2>1, <3>1, <3>2, <3>3, <3>4 DEF EnterRun, Types
  <2>2. CASE StartStep(h)
    <3>1. sess[h] \in Sessions /\ RunGraph(sess[h]) \in Graphs
      BY <2>2, MasterSessionAssumption DEF StartStep, Shape, RunGraph, Graphs
    <3>2. pc \in [Handlers -> HandlerStates] BY DEF Types
    <3>3. pc' \in [Handlers -> HandlerStates]
      BY <2>2, <3>2, <3>1, StatesAre DEF StartStep
    <3>4. graph \in [Handlers -> Graphs \cup {NoGraph}] BY DEF Types
    <3>5. graph' \in [Handlers -> Graphs \cup {NoGraph}]
      BY <2>2, <3>4, <3>1 DEF StartStep
    <3>6. graphRefs \in [Graphs -> Int] BY DEF Types
    <3>7. graphRefs' \in [Graphs -> Int]
      BY <2>2, <3>6, <3>1 DEF StartStep, RefGraph, graphVars
    <3>8. runGraphs \in SUBSET Graphs BY DEF Types
    <3>9. runGraphs' \in SUBSET Graphs
      BY <2>2, <3>8, <3>1 DEF StartStep
    <3>10. reg \in [Graphs -> {"unbuilt", "built", "registering", "ok", "failed"}] BY DEF Types
    <3>11. reg' \in [Graphs -> {"unbuilt", "built", "registering", "ok", "failed"}]
      BY <2>2, <3>10, <3>1 DEF StartStep, graphVars
    <3> QED BY <2>2, <3>1, <3>2, <3>3, <3>4, <3>5, <3>6, <3>7, <3>8, <3>9, <3>10, <3>11 DEF StartStep, Types
  <2>3. CASE RegisterPartitions(h)
    <3>1. pc \in [Handlers -> HandlerStates] BY DEF Types
    <3>2. pc' \in [Handlers -> HandlerStates]
      BY <2>3, <3>1, StatesAre DEF RegisterPartitions, Registered
    <3>3. reg \in [Graphs -> {"unbuilt", "built", "registering", "ok", "failed"}] BY DEF Types
    <3>4. reg' \in [Graphs -> {"unbuilt", "built", "registering", "ok", "failed"}]
      BY <2>3, <3>3 DEF RegisterPartitions
    <3> QED BY <2>3, <3>1, <3>2, <3>3, <3>4 DEF RegisterPartitions, Types
  <2>4. CASE RejectFeeds(h)
    BY <2>4, MasterSessionAssumption DEF RejectFeeds, Statuses, Types, Shape, HandlerStates,
       HoldsGraph, AllKinds, OwnerStates
  <2>5. CASE Subscribe(h)
    BY <2>5, MasterSessionAssumption DEF Subscribe, Statuses, ReportBadStatus, ReportedCalls,
       ReportedStatus, GroupUpdate, Told, Types, Shape, HandlerStates, HoldsGraph, AllKinds,
       OwnerStates
  <2>6. CASE Waited(h)
    <3>1. pc \in [Handlers -> HandlerStates] BY DEF Types
    <3>2. pc' \in [Handlers -> HandlerStates] BY <2>6, <3>1, StatesAre DEF Waited
    <3>3. status \in [Handlers -> Statuses] BY DEF Types
    <3>4. Code(status[h]) \in Statuses BY <3>3 DEF Code, Statuses
    <3>5. \E st \in Statuses : status' = [status EXCEPT ![h] = st]
      BY <2>6, <3>4 DEF Waited, Statuses
    <3>6. status' \in [Handlers -> Statuses] BY <3>3, <3>5
    <3> QED BY <2>6, <3>2, <3>6 DEF Waited, Types
  <2>7. CASE PostRunCleanup(h)
    BY <2>7, MasterSessionAssumption DEF PostRunCleanup, Statuses, RefSession, RefGraph, Verdict,
       Types, Shape, HandlerStates, HoldsGraph, AllKinds, OwnerStates
  <2>8. CASE DropGraph(h)
    <3>1. graph[h] \in Graphs
      BY <2>8 DEF DropGraph, Shape, HoldsGraph
    <3>2. pc \in [Handlers -> HandlerStates] BY DEF Types
    <3>3. pc' \in [Handlers -> HandlerStates]
      BY <2>8, <3>2, <3>1, StatesAre DEF DropGraph
    <3>4. graphRefs \in [Graphs -> Int] BY DEF Types
    <3>5. graphRefs' \in [Graphs -> Int]
      BY <2>8, <3>4, <3>1 DEF DropGraph, UnrefGraph
    <3> QED BY <2>8, <3>1, <3>2, <3>3, <3>4, <3>5 DEF DropGraph, Types
  <2>9. CASE CompleteEarly(h)
    BY <2>9, MasterSessionAssumption DEF CompleteEarly, MarkRunCompletion, Types, Shape, HandlerStates,
       HoldsGraph, AllKinds, OwnerStates
  <2>10. CASE Extend(h)
    <3>1. MaxVersion \in Nat
      BY MasterSessionAssumption
    <3>2. pc \in [Handlers -> HandlerStates] BY DEF Types
    <3>3. pc' \in [Handlers -> HandlerStates]
      BY <2>10, <3>2, <3>1, StatesAre DEF Extend
    <3>4. version \in [Sessions -> 0 .. MaxVersion] BY DEF Types
    <3>5. version' \in [Sessions -> 0 .. MaxVersion]
      BY <2>10, <3>4, <3>1 DEF Extend
    <3> QED BY <2>10, <3>1, <3>2, <3>3, <3>4, <3>5 DEF Extend, Types
  <2>11. CASE MakeCallable(h)
    <3>1. sess[h] \in Sessions BY <2>11 DEF MakeCallable, Shape
    <3>a. \A k \in 1 .. MaxCallables : <<sess[h], k>> \in Graphs
      BY <3>1, MasterSessionAssumption DEF Graphs
    <3>2. CASE UNCHANGED <<graphRefs, reg, graph>> /\ Go(h, "unref")
      BY <2>11, <3>2 DEF MakeCallable, Types, HandlerStates
    <3>3. ASSUME NEW k \in 1 .. MaxCallables, Go(h, "register"),
                 reg' = [reg EXCEPT ![<<sess[h], k>>] = "built"],
                 graphRefs' = [graphRefs EXCEPT ![<<sess[h], k>>] = 1],
                 graph' = [graph EXCEPT ![h] = <<sess[h], k>>]
          PROVE  Types'
      <4>1. <<sess[h], k>> \in Graphs BY <3>a
      <4>0. pc \in [Handlers -> HandlerStates] BY DEF Types
      <4>2. pc' \in [Handlers -> HandlerStates] BY <3>3, <4>0, StatesAre DEF Go
      <4> QED BY <4>1, <4>2, <3>3, <2>11 DEF MakeCallable, Types
    <3> QED BY <2>11, <3>2, <3>3 DEF MakeCallable
  <2>12. CASE InsertCallable(h)
    BY <2>12, MasterSessionAssumption DEF InsertCallable, Types, Shape, HandlerStates, HoldsGraph,
       AllKinds, OwnerStates
  <2>13. ASSUME NEW result \in {"ok", "failed"}, RegisterDone(h, result) PROVE Types'
    BY <2>13, MasterSessionAssumption DEF RegisterDone, Registered, Types, Shape, HandlerStates,
       HoldsGraph, AllKinds, OwnerStates
  <2>14. ASSUME NEW w \in Workers, IssueCall(h, w) PROVE Types'
    BY <2>14, MasterSessionAssumption DEF IssueCall, Types, Shape, HandlerStates, HoldsGraph, AllKinds,
       OwnerStates
  <2>15. ASSUME NEW g \in Graphs, EnterRunCallable(h, g) PROVE Types'
    <3>1. pc \in [Handlers -> HandlerStates] BY DEF Types
    <3>2. pc' \in [Handlers -> HandlerStates]
      BY <2>15, <3>1, StatesAre DEF EnterRunCallable
    <3>3. graph \in [Handlers -> Graphs \cup {NoGraph}] BY DEF Types
    <3>4. graph' \in [Handlers -> Graphs \cup {NoGraph}]
      BY <2>15, <3>3 DEF EnterRunCallable
    <3>5. graphRefs \in [Graphs -> Int] BY DEF Types
    <3>6. graphRefs' \in [Graphs -> Int]
      BY <2>15, <3>5 DEF EnterRunCallable, RefGraph
    <3>7. numRunning \in [Sessions -> Int] BY DEF Types
    <3>8. numRunning' \in [Sessions -> Int]
      BY <2>15, <3>7 DEF EnterRunCallable
    <3> QED BY <2>15, <3>1, <3>2, <3>3, <3>4, <3>5, <3>6, <3>7, <3>8 DEF EnterRunCallable, Types
  <2>16. ASSUME NEW g \in Graphs, ReleaseCallable(h, g) PROVE Types'
    <3>1. pc \in [Handlers -> HandlerStates] BY DEF Types
    <3>2. pc' \in [Handlers -> HandlerStates]
      BY <2>16, <3>1, StatesAre DEF ReleaseCallable
    <3>3. graph \in [Handlers -> Graphs \cup {NoGraph}] BY DEF Types
    <3>4. graph' \in [Handlers -> Graphs \cup {NoGraph}]
      BY <2>16, <3>3 DEF ReleaseCallable
    <3> QED BY <2>16, <3>1, <3>2, <3>3, <3>4 DEF ReleaseCallable, Types
  <2>17. CASE Done(h)
    BY <2>17, MasterSessionAssumption DEF Done, Statuses, UnrefSession, Release, RunGraph, Types, Shape,
       HandlerStates, HoldsGraph, AllKinds, OwnerStates
  <2>18. CASE FillPerStepState(h)
    <3>1. graph[h] \in Graphs BY <2>18 DEF FillPerStepState, Shape, HoldsGraph
    <3>2. pc \in [Handlers -> HandlerStates] BY DEF Types
    <3>3. pc' \in [Handlers -> HandlerStates] BY <2>18, <3>2, StatesAre DEF FillPerStepState
    <3>4. graphRefs \in [Graphs -> Int] /\ logging \in [Graphs -> Nat] BY DEF Types
    <3>5. graphRefs' \in [Graphs -> Int] /\ logging' \in [Graphs -> Nat]
      BY <2>18, <3>1, <3>4, Partitions DEF FillPerStepState, SetRPCLogging
    <3>6. traced \in [Handlers -> BOOLEAN] BY DEF Types
    <3>7. traced' \in [Handlers -> BOOLEAN] BY <2>18, <3>6 DEF FillPerStepState
    <3> QED BY <2>18, <3>3, <3>5, <3>7 DEF FillPerStepState, Types
  <2>19. CASE ProcessStats(h)
    <3>1. graph[h] \in Graphs BY <2>19 DEF ProcessStats, Shape, HoldsGraph
    <3>2. graphRefs \in [Graphs -> Int] /\ logging \in [Graphs -> Nat] BY DEF Types
    <3>3. graphRefs' \in [Graphs -> Int] /\ logging' \in [Graphs -> Nat]
      BY <2>19, <3>1, <3>2, Partitions DEF ProcessStats, SetRPCLogging
    <3>4. traced \in [Handlers -> BOOLEAN] BY DEF Types
    <3>5. traced' \in [Handlers -> BOOLEAN] BY <2>19, <3>4 DEF ProcessStats
    <3> QED BY <2>19, <3>3, <3>5 DEF ProcessStats, Types
  <2> QED BY <1>1, <2>1, <2>2, <2>3, <2>4, <2>5, <2>6, <2>7, <2>8, <2>9, <2>10, <2>11, <2>12, <2>13,
             <2>14, <2>15, <2>16, <2>17, <2>18, <2>19 DEF HandlerStep
<1>2. ASSUME NEW h \in Handlers, CleanupStep(h) PROVE Types'
  <2>1. CASE CleanupDone(h)
    BY <2>1, MasterSessionAssumption DEF CleanupDone, UnrefGraph, Types, Shape, HandlerStates,
       HoldsGraph, AllKinds, OwnerStates
  <2>2. CASE CleanupComplete(h)
    BY <2>2, MasterSessionAssumption DEF CleanupComplete, MarkRunCompletion, Types, Shape,
       HandlerStates, HoldsGraph, AllKinds, OwnerStates
  <2>3. CASE CleanupUnref(h)
    BY <2>3, MasterSessionAssumption DEF CleanupUnref, UnrefSession, Release, RunGraph, Types, Shape,
       HandlerStates, HoldsGraph, AllKinds, OwnerStates
  <2> QED BY <1>2, <2>1, <2>2, <2>3 DEF CleanupStep
<1>3. ASSUME NEW s \in Sessions, OwnerStep(s) PROVE Types'
  <2>1. CASE CreateSession(s)
    BY <2>1, MasterSessionAssumption DEF CreateSession, Pass, Types, Shape, HandlerStates, HoldsGraph,
       AllKinds, OwnerStates
  <2>2. CASE ResetNext(s)
    BY <2>2, MasterSessionAssumption DEF ResetNext, Pass, Types, Shape, HandlerStates, HoldsGraph,
       AllKinds, OwnerStates
  <2>3. CASE CloseSection(s)
    <3>1. owner \in [Sessions -> OwnerStates] BY DEF Types
    <3>2. owner' \in [Sessions -> OwnerStates]
      BY <2>3, <3>1, StatesAre DEF CloseSection, Pass
    <3>3. collected \in [Sessions -> BOOLEAN] BY DEF Types
    <3>4. collected' \in [Sessions -> BOOLEAN]
      BY <2>3, <3>3 DEF CloseSection
    <3>5. closed \in [Sessions -> BOOLEAN] BY DEF Types
    <3>6. closed' \in [Sessions -> BOOLEAN]
      BY <2>3, <3>5 DEF CloseSection
    <3> QED BY <2>3, <3>1, <3>2, <3>3, <3>4, <3>5, <3>6 DEF CloseSection, Types
  <2>4. CASE CancelSteps(s)
    <3>1. owner \in [Sessions -> OwnerStates] BY DEF Types
    <3>2. owner' \in [Sessions -> OwnerStates]
      BY <2>4, <3>1, StatesAre DEF CancelSteps, Pass
    <3>3. cancelled \in [Sessions -> BOOLEAN] BY DEF Types
    <3>4. cancelled' \in [Sessions -> BOOLEAN]
      BY <2>4, <3>3 DEF CancelSteps, StartCancel
    <3>5. call \in [Handlers -> [Workers -> {"none", "running", "told", "deaf", "done"}]] BY DEF Types
    <3>6. call' \in [Handlers -> [Workers -> {"none", "running", "told", "deaf", "done"}]]
      BY <2>4, <3>5 DEF CancelSteps, StartCancel, ReportBadStatus, ReportedCalls, Told
    <3>7. status \in [Handlers -> Statuses] BY DEF Types
    <3>8. status' \in [Handlers -> Statuses]
      BY <2>4, <3>7 DEF CancelSteps, StartCancel, ReportBadStatus, ReportedStatus, GroupUpdate, Statuses
    <3> QED BY <2>4, <3>1, <3>2, <3>3, <3>4, <3>5, <3>6, <3>7, <3>8 DEF CancelSteps, Types
  <2>5. CASE DrainSession(s)
    BY <2>5, MasterSessionAssumption DEF DrainSession, Pass, Types, Shape, HandlerStates, HoldsGraph,
       AllKinds, OwnerStates
  <2>6. CASE ClearGraphs(s)
    BY <2>6, MasterSessionAssumption DEF ClearGraphs, Pass, Types, Shape, HandlerStates, HoldsGraph,
       AllKinds, OwnerStates
  <2>7. CASE OwnerUnref(s)
    <3>1. RunGraph(s) \in Graphs
      BY MasterSessionAssumption DEF RunGraph, Graphs
    <3>2. owner \in [Sessions -> OwnerStates] BY DEF Types
    <3>3. owner' \in [Sessions -> OwnerStates]
      BY <2>7, <3>2, <3>1, StatesAre DEF OwnerUnref, Pass
    <3>4. refs \in [Sessions -> Int] BY DEF Types
    <3>5. refs' \in [Sessions -> Int]
      BY <2>7, <3>4, <3>1 DEF OwnerUnref, UnrefSession
    <3>6. runGraphs \in SUBSET Graphs BY DEF Types
    <3>7. runGraphs' \in SUBSET Graphs
      BY <2>7, <3>6, <3>1 DEF OwnerUnref, UnrefSession
    <3>8. graphRefs \in [Graphs -> Int] BY DEF Types
    <3>9. graphRefs' \in [Graphs -> Int]
      BY <2>7, <3>8, <3>1 DEF OwnerUnref, UnrefSession
    <3> QED BY <2>7, <3>1, <3>2, <3>3, <3>4, <3>5, <3>6, <3>7, <3>8, <3>9 DEF OwnerUnref, Types
  <2> QED BY <1>3, <2>1, <2>2, <2>3, <2>4, <2>5, <2>6, <2>7 DEF OwnerStep
<1>4. ASSUME NEW h \in Handlers, NEW w \in Workers, WhenDone(h, w) PROVE Types'
    <3> DEFINE CallArrays == [Workers -> {"none", "running", "told", "deaf", "done"}]
                 answered == [call[h] EXCEPT ![w] = "done"]
    <3>1. call \in [Handlers -> CallArrays] BY DEF Types
    <3>2. answered \in CallArrays BY <3>1
    <3>3. ReportedCalls({h}, h, answered) \in CallArrays BY <3>2 DEF ReportedCalls, Told
    <3>4. call' = [call EXCEPT ![h] = answered] \/ call' = [call EXCEPT ![h] = ReportedCalls({h}, h, answered)]
      BY <1>4 DEF WhenDone
    <3> HIDE DEF CallArrays, answered
    <3>5. call' \in [Handlers -> CallArrays] BY <3>1, <3>2, <3>3, <3>4
    <3>6. status \in [Handlers -> Statuses] BY DEF Types
    <3>7. \A st \in WorkerErrors : ReportedStatus({h}, h, st) \in Statuses
      BY <3>6, MasterSessionAssumption DEF ReportedStatus, GroupUpdate, AllErrors, Statuses
    <3>8. UNCHANGED status \/ \E st \in WorkerErrors : status' = [status EXCEPT ![h] = ReportedStatus({h}, h, st)]
      BY <1>4 DEF WhenDone
    <3>9. status' \in [Handlers -> Statuses] BY <3>6, <3>7, <3>8
    <3>10. stopped \in [Handlers -> BOOLEAN] BY DEF Types
    <3>11. stopped' \in [Handlers -> BOOLEAN] BY <1>4, <3>10 DEF WhenDone
    <3> QED BY <1>4, <3>5, <3>9, <3>11 DEF WhenDone, Types, CallArrays
<1>5. ASSUME NEW h \in Handlers, ClientCancel(h) PROVE Types'
    BY <1>5, MasterSessionAssumption DEF ClientCancel, Statuses, ReportBadStatus, ReportedCalls,
       ReportedStatus, GroupUpdate, Told, Types, Shape, HandlerStates, HoldsGraph, AllKinds,
       OwnerStates
<1>6. ASSUME NEW h \in Handlers, NEW s \in Sessions, NEW op \in RequestKinds, FindMasterSession(h, s, op)
      PROVE  Types'
    BY <1>6, MasterSessionAssumption DEF FindMasterSession, RefSession, sessions_, Types, Shape,
       HandlerStates, HoldsGraph, AllKinds, OwnerStates
<1>7. ASSUME NEW s \in Sessions, NewSession(s) PROVE Types'
    BY <1>7, MasterSessionAssumption DEF NewSession, Pass, Types, Shape, HandlerStates, HoldsGraph,
       AllKinds, OwnerStates
<1>8. ASSUME NEW s \in Sessions, CloseSession(s) PROVE Types'
    BY <1>8, MasterSessionAssumption DEF CloseSession, Pass, Types, Shape, HandlerStates, HoldsGraph,
       AllKinds, OwnerStates
<1>9. ASSUME NEW s \in Sessions, GC(s) PROVE Types'
    BY <1>9, MasterSessionAssumption DEF GC, Pass, Types, Shape, HandlerStates, HoldsGraph, AllKinds,
       OwnerStates
<1>10. CASE Reset
    BY <1>10, MasterSessionAssumption DEF Reset, sessions_, Types, Shape, HandlerStates, HoldsGraph,
       AllKinds, OwnerStates
<1>11. CASE UNCHANGED mVars
    BY <1>11, MasterSessionAssumption DEF mVars, msVars, Types, Shape, HandlerStates, HoldsGraph,
       AllKinds, OwnerStates
<1>12. ASSUME NEW g \in Graphs, LoggingDone(g) PROVE Types'
    BY <1>12, MasterSessionAssumption DEF LoggingDone, UnrefGraph, Types, Shape, HandlerStates,
       HoldsGraph, AllKinds, OwnerStates
<1>13. ASSUME NEW s \in Sessions, CleanupWorkers(s) PROVE Types'
    BY <1>13, MasterSessionAssumption DEF CleanupWorkers, Types, Shape, HandlerStates, HoldsGraph,
       AllKinds, OwnerStates
<1> QED BY <1>1, <1>2, <1>3, <1>4, <1>5, <1>6, <1>7, <1>8, <1>9, <1>10, <1>11, <1>12, <1>13
        DEF MNext, MStep, Living, WorkerAnswers, ClientLeaves, LoggingAnswered

\* Every step keeps what a handler has in hand.
LEMMA ShapeStep ==
  ASSUME Types, Shape, MNext \/ UNCHANGED mVars
  PROVE  Shape'
<1> USE MasterAssumption DEF At, Go, sessionVars, graphVars, stepVars, handlerVars, ownerVars
<1>1. ASSUME NEW h \in Handlers, HandlerStep(h) PROVE Shape'
  <2>1. CASE EnterRun(h)
    <3>1. pc[h] = "Run" /\ UNCHANGED <<sess, graph, cleanup>> /\ (pc' = [pc EXCEPT ![h] = "unref"] \/ pc' = [pc EXCEPT ![h] = "startStep"])
      BY <2>1 DEF EnterRun, RunGraph
    <3>2. pc \in [Handlers -> HandlerStates] /\ graph \in [Handlers -> Graphs \cup {NoGraph}]
      BY DEF Types
    <3>3. sess[h] \in Sessions /\ cleanup[h] = "none"
      BY <2>1, <3>1 DEF Shape, HoldsGraph, AllKinds
    <3> QED BY <3>1, <3>2, <3>3 DEF Shape, HoldsGraph, RunGraph
  <2>2. CASE StartStep(h)
    <3>1. pc[h] = "startStep" /\ UNCHANGED <<sess, cleanup>>
          /\ \/ pc' = [pc EXCEPT ![h] = "register"] /\ graph' = [graph EXCEPT ![h] = <<sess[h], 0>>]
             \/ pc' = [pc EXCEPT ![h] = "complete"] /\ graph' = graph
      BY <2>2 DEF StartStep, RunGraph
    <3>2. pc \in [Handlers -> HandlerStates] /\ graph \in [Handlers -> Graphs \cup {NoGraph}]
      BY DEF Types
    <3>3. sess[h] \in Sessions /\ cleanup[h] = "none" /\ <<sess[h], 0>> \in Graphs
      BY <2>2, <3>1, MasterSessionAssumption DEF Shape, HoldsGraph, AllKinds, Graphs
    <3> QED BY <3>1, <3>2, <3>3 DEF Shape, HoldsGraph, RunGraph
  <2>3. CASE RegisterPartitions(h)
    BY <2>3, MasterSessionAssumption DEF RegisterPartitions, Registered, RunGraph, Types, Shape,
       HoldsGraph, AllKinds, Graphs, RunGraph
  <2>4. CASE RejectFeeds(h)
    BY <2>4, MasterSessionAssumption DEF RejectFeeds, Types, Shape, HoldsGraph, AllKinds, Graphs,
       RunGraph
  <2>5. CASE Subscribe(h)
    BY <2>5, MasterSessionAssumption DEF Subscribe, ReportBadStatus, ReportedCalls, ReportedStatus,
       GroupUpdate, Told, Types, Shape, HoldsGraph, AllKinds, Graphs, RunGraph
  <2>6. CASE Waited(h)
    BY <2>6, MasterSessionAssumption DEF Waited, Types, Shape, HoldsGraph, AllKinds, Graphs, RunGraph
  <2>7. CASE PostRunCleanup(h)
    BY <2>7, MasterSessionAssumption DEF PostRunCleanup, RefSession, RefGraph, Verdict, Types, Shape,
       HoldsGraph, AllKinds, Graphs, RunGraph
  <2>8. CASE DropGraph(h)
    <3>1. pc[h] \in HoldsGraph /\ UNCHANGED <<sess, graph, cleanup>>
          /\ \/ pc[h] = "drop" /\ pc' = [pc EXCEPT ![h] = "unref"]
             \/ pc[h] = "dropEarly" /\ pc' = [pc EXCEPT ![h] = "complete"]
      BY <2>8 DEF DropGraph, HoldsGraph, RunGraph
    <3>2. pc \in [Handlers -> HandlerStates] /\ graph \in [Handlers -> Graphs \cup {NoGraph}]
      BY DEF Types
    <3>3. sess[h] \in Sessions /\ (pc[h] = "dropEarly" => cleanup[h] = "none")
      BY <2>8, <3>1 DEF Shape, HoldsGraph, AllKinds
    <3> QED BY <3>1, <3>2, <3>3 DEF Shape, HoldsGraph, RunGraph
  <2>9. CASE CompleteEarly(h)
    BY <2>9, MasterSessionAssumption DEF CompleteEarly, MarkRunCompletion, Types, Shape, HoldsGraph,
       AllKinds, Graphs, RunGraph
  <2>10. CASE Extend(h)
    BY <2>10, MasterSessionAssumption DEF Extend, Types, Shape, HoldsGraph, AllKinds, Graphs, RunGraph
  <2>11. CASE MakeCallable(h)
    <3>1. pc[h] = "MakeCallable" /\ UNCHANGED <<sess, cleanup>>
          /\ \/ pc' = [pc EXCEPT ![h] = "register"] /\ \E k \in 1 .. MaxCallables : graph' = [graph EXCEPT ![h] = <<sess[h], k>>]
             \/ pc' = [pc EXCEPT ![h] = "unref"] /\ graph' = graph
      BY <2>11 DEF MakeCallable, RunGraph
    <3>2. pc \in [Handlers -> HandlerStates] /\ graph \in [Handlers -> Graphs \cup {NoGraph}]
      BY DEF Types
    <3>3. sess[h] \in Sessions /\ cleanup[h] = "none" /\ \A k \in 1 .. MaxCallables : <<sess[h], k>> \in Graphs
      BY <2>11, <3>1, MasterSessionAssumption DEF Shape, HoldsGraph, AllKinds, Graphs
    <3> QED BY <3>1, <3>2, <3>3 DEF Shape, HoldsGraph, RunGraph
  <2>12. CASE InsertCallable(h)
    BY <2>12, MasterSessionAssumption DEF InsertCallable, Types, Shape, HoldsGraph, AllKinds, Graphs,
       RunGraph
  <2>13. ASSUME NEW result \in {"ok", "failed"}, RegisterDone(h, result) PROVE Shape'
    BY <2>13, MasterSessionAssumption DEF RegisterDone, Registered, Types, Shape, HoldsGraph, AllKinds,
       Graphs, RunGraph
  <2>14. ASSUME NEW w \in Workers, IssueCall(h, w) PROVE Shape'
    BY <2>14, MasterSessionAssumption DEF IssueCall, Types, Shape, HoldsGraph, AllKinds, Graphs,
       RunGraph
  <2>15. ASSUME NEW g \in Graphs, EnterRunCallable(h, g) PROVE Shape'
    <3>1. pc[h] = "RunCallable" /\ UNCHANGED <<sess, cleanup>> /\ g[1] = sess[h]
          /\ \/ pc' = [pc EXCEPT ![h] = "fill"] /\ graph' = [graph EXCEPT ![h] = g]
             \/ pc' = [pc EXCEPT ![h] = "unref"] /\ graph' = graph
      BY <2>15 DEF EnterRunCallable, RunGraph
    <3>2. pc \in [Handlers -> HandlerStates] /\ graph \in [Handlers -> Graphs \cup {NoGraph}]
      BY DEF Types
    <3>3. sess[h] \in Sessions /\ cleanup[h] = "none"
      BY <2>15, <3>1 DEF Shape, HoldsGraph, AllKinds
    <3> QED BY <3>1, <3>2, <3>3 DEF Shape, HoldsGraph, RunGraph
  <2>16. ASSUME NEW g \in Graphs, ReleaseCallable(h, g) PROVE Shape'
    <3>1. pc[h] = "ReleaseCallable" /\ UNCHANGED <<sess, cleanup>> /\ g[1] = sess[h]
          /\ \/ pc' = [pc EXCEPT ![h] = "drop"] /\ graph' = [graph EXCEPT ![h] = g]
             \/ pc' = [pc EXCEPT ![h] = "unref"] /\ graph' = graph
      BY <2>16 DEF ReleaseCallable, RunGraph
    <3>2. pc \in [Handlers -> HandlerStates] /\ graph \in [Handlers -> Graphs \cup {NoGraph}]
      BY DEF Types
    <3>3. sess[h] \in Sessions /\ cleanup[h] = "none"
      BY <2>16, <3>1 DEF Shape, HoldsGraph, AllKinds
    <3> QED BY <3>1, <3>2, <3>3 DEF Shape, HoldsGraph, RunGraph
  <2>17. CASE Done(h)
    BY <2>17, MasterSessionAssumption DEF Done, UnrefSession, Release, RunGraph, Types, Shape,
       HoldsGraph, AllKinds, Graphs, RunGraph
  <2>18. CASE FillPerStepState(h)
    BY <2>18, MasterSessionAssumption DEF FillPerStepState, SetRPCLogging, Types, Shape, HoldsGraph,
       AllKinds, Graphs, RunGraph
  <2>19. CASE ProcessStats(h)
    BY <2>19, MasterSessionAssumption DEF ProcessStats, SetRPCLogging, Types, Shape, HoldsGraph,
       AllKinds, Graphs, RunGraph
  <2> QED BY <1>1, <2>1, <2>2, <2>3, <2>4, <2>5, <2>6, <2>7, <2>8, <2>9, <2>10, <2>11, <2>12, <2>13,
             <2>14, <2>15, <2>16, <2>17, <2>18, <2>19 DEF HandlerStep
<1>2. ASSUME NEW h \in Handlers, CleanupStep(h) PROVE Shape'
  <2>1. CASE CleanupDone(h)
    BY <2>1, MasterSessionAssumption DEF CleanupDone, UnrefGraph, Types, Shape, HoldsGraph, AllKinds,
       Graphs, RunGraph
  <2>2. CASE CleanupComplete(h)
    BY <2>2, MasterSessionAssumption DEF CleanupComplete, MarkRunCompletion, Types, Shape, HoldsGraph,
       AllKinds, Graphs, RunGraph
  <2>3. CASE CleanupUnref(h)
    BY <2>3, MasterSessionAssumption DEF CleanupUnref, UnrefSession, Release, RunGraph, Types, Shape,
       HoldsGraph, AllKinds, Graphs, RunGraph
  <2> QED BY <1>2, <2>1, <2>2, <2>3 DEF CleanupStep
<1>3. ASSUME NEW s \in Sessions, OwnerStep(s) PROVE Shape'
  <2>1. CASE CreateSession(s)
    BY <2>1, MasterSessionAssumption DEF CreateSession, Pass, Types, Shape, HoldsGraph, AllKinds,
       Graphs, RunGraph
  <2>2. CASE ResetNext(s)
    BY <2>2, MasterSessionAssumption DEF ResetNext, Pass, Types, Shape, HoldsGraph, AllKinds, Graphs,
       RunGraph
  <2>3. CASE CloseSection(s)
    BY <2>3, MasterSessionAssumption DEF CloseSection, Pass, Types, Shape, HoldsGraph, AllKinds, Graphs,
       RunGraph
  <2>4. CASE CancelSteps(s)
    BY <2>4, MasterSessionAssumption DEF CancelSteps, StartCancel, ReportBadStatus, ReportedCalls,
       ReportedStatus, GroupUpdate, Told, Pass, Types, Shape, HoldsGraph, AllKinds, Graphs, RunGraph
  <2>5. CASE DrainSession(s)
    BY <2>5, MasterSessionAssumption DEF DrainSession, Pass, Types, Shape, HoldsGraph, AllKinds, Graphs,
       RunGraph
  <2>6. CASE ClearGraphs(s)
    BY <2>6, MasterSessionAssumption DEF ClearGraphs, Pass, Types, Shape, HoldsGraph, AllKinds, Graphs,
       RunGraph
  <2>7. CASE OwnerUnref(s)
    BY <2>7, MasterSessionAssumption DEF OwnerUnref, UnrefSession, RunGraph, Pass, Types, Shape,
       HoldsGraph, AllKinds, Graphs, RunGraph
  <2> QED BY <1>3, <2>1, <2>2, <2>3, <2>4, <2>5, <2>6, <2>7 DEF OwnerStep
<1>4. ASSUME NEW h \in Handlers, NEW w \in Workers, WhenDone(h, w) PROVE Shape'
    BY <1>4, MasterSessionAssumption DEF WhenDone, ReportedCalls, ReportedStatus, GroupUpdate, Told,
       Types, Shape, HoldsGraph, AllKinds, Graphs, RunGraph
<1>5. ASSUME NEW h \in Handlers, ClientCancel(h) PROVE Shape'
    BY <1>5, MasterSessionAssumption DEF ClientCancel, ReportBadStatus, ReportedCalls, ReportedStatus,
       GroupUpdate, Told, Types, Shape, HoldsGraph, AllKinds, Graphs, RunGraph
<1>6. ASSUME NEW h \in Handlers, NEW s \in Sessions, NEW op \in RequestKinds, FindMasterSession(h, s, op)
      PROVE  Shape'
    BY <1>6, MasterSessionAssumption DEF FindMasterSession, RefSession, sessions_, Types, Shape,
       HoldsGraph, AllKinds, Graphs, RunGraph
<1>7. ASSUME NEW s \in Sessions, NewSession(s) PROVE Shape'
    BY <1>7, MasterSessionAssumption DEF NewSession, Pass, Types, Shape, HoldsGraph, AllKinds, Graphs,
       RunGraph
<1>8. ASSUME NEW s \in Sessions, CloseSession(s) PROVE Shape'
    BY <1>8, MasterSessionAssumption DEF CloseSession, Pass, Types, Shape, HoldsGraph, AllKinds, Graphs,
       RunGraph
<1>9. ASSUME NEW s \in Sessions, GC(s) PROVE Shape'
    BY <1>9, MasterSessionAssumption DEF GC, Pass, Types, Shape, HoldsGraph, AllKinds, Graphs, RunGraph
<1>10. CASE Reset
    BY <1>10, MasterSessionAssumption DEF Reset, sessions_, Types, Shape, HoldsGraph, AllKinds, Graphs,
       RunGraph
<1>11. CASE UNCHANGED mVars
    BY <1>11, MasterSessionAssumption DEF mVars, msVars, Types, Shape, HoldsGraph, AllKinds, Graphs,
       RunGraph
<1>12. ASSUME NEW g \in Graphs, LoggingDone(g) PROVE Shape'
    BY <1>12, MasterSessionAssumption DEF LoggingDone, UnrefGraph, Types, Shape, HoldsGraph, AllKinds,
       Graphs, RunGraph
<1>13. ASSUME NEW s \in Sessions, CleanupWorkers(s) PROVE Shape'
    BY <1>13, MasterSessionAssumption DEF CleanupWorkers, Types, Shape, HoldsGraph, AllKinds, Graphs,
       RunGraph
<1> QED BY <1>1, <1>2, <1>3, <1>4, <1>5, <1>6, <1>7, <1>8, <1>9, <1>10, <1>11, <1>12, <1>13
        DEF MNext, MStep, Living, WorkerAnswers, ClientLeaves, LoggingAnswered

\* Every step keeps what an owner has done.
LEMMA OwnerShapeStep ==
  ASSUME Types, OwnerShape, MNext \/ UNCHANGED mVars
  PROVE  OwnerShape'
<1> USE MasterAssumption DEF At, Go, sessionVars, graphVars, stepVars, handlerVars, ownerVars
<1>1. ASSUME NEW h \in Handlers, HandlerStep(h) PROVE OwnerShape'
  <2>1. CASE EnterRun(h)
    BY <2>1 DEF EnterRun, Types, OwnerShape, AllKinds
  <2>2. CASE StartStep(h)
    BY <2>2 DEF StartStep, RunGraph, Graphs, RefGraph, Types, OwnerShape, AllKinds
  <2>3. CASE RegisterPartitions(h)
    BY <2>3 DEF RegisterPartitions, Registered, RunGraph, Types, OwnerShape, AllKinds
  <2>4. CASE RejectFeeds(h)
    BY <2>4 DEF RejectFeeds, Types, OwnerShape, AllKinds
  <2>5. CASE Subscribe(h)
    BY <2>5 DEF Subscribe, ReportBadStatus, ReportedCalls, ReportedStatus, GroupUpdate, Told, Types,
       OwnerShape, AllKinds
  <2>6. CASE Waited(h)
    BY <2>6 DEF Waited, Types, OwnerShape, AllKinds
  <2>7. CASE PostRunCleanup(h)
    BY <2>7 DEF PostRunCleanup, RefSession, RefGraph, Verdict, Types, OwnerShape, AllKinds
  <2>8. CASE DropGraph(h)
    BY <2>8 DEF DropGraph, UnrefGraph, Types, OwnerShape, AllKinds
  <2>9. CASE CompleteEarly(h)
    BY <2>9 DEF CompleteEarly, MarkRunCompletion, Types, OwnerShape, AllKinds
  <2>10. CASE Extend(h)
    BY <2>10 DEF Extend, Types, OwnerShape, AllKinds
  <2>11. CASE MakeCallable(h)
    BY <2>11 DEF MakeCallable, Graphs, Types, OwnerShape, AllKinds
  <2>12. CASE InsertCallable(h)
    BY <2>12 DEF InsertCallable, Types, OwnerShape, AllKinds
  <2>13. ASSUME NEW result \in {"ok", "failed"}, RegisterDone(h, result) PROVE OwnerShape'
    BY <2>13 DEF RegisterDone, Registered, Types, OwnerShape, AllKinds
  <2>14. ASSUME NEW w \in Workers, IssueCall(h, w) PROVE OwnerShape'
    BY <2>14 DEF IssueCall, Types, OwnerShape, AllKinds
  <2>15. ASSUME NEW g \in Graphs, EnterRunCallable(h, g) PROVE OwnerShape'
    BY <2>15 DEF EnterRunCallable, RefGraph, Types, OwnerShape, AllKinds
  <2>16. ASSUME NEW g \in Graphs, ReleaseCallable(h, g) PROVE OwnerShape'
    BY <2>16 DEF ReleaseCallable, Types, OwnerShape, AllKinds
  <2>17. CASE Done(h)
    BY <2>17 DEF Done, UnrefSession, Release, RunGraph, Types, OwnerShape, AllKinds
  <2>18. CASE FillPerStepState(h)
    BY <2>18 DEF FillPerStepState, SetRPCLogging, Types, OwnerShape, AllKinds
  <2>19. CASE ProcessStats(h)
    BY <2>19 DEF ProcessStats, SetRPCLogging, Types, OwnerShape, AllKinds
  <2> QED BY <1>1, <2>1, <2>2, <2>3, <2>4, <2>5, <2>6, <2>7, <2>8, <2>9, <2>10, <2>11, <2>12, <2>13,
             <2>14, <2>15, <2>16, <2>17, <2>18, <2>19 DEF HandlerStep
<1>2. ASSUME NEW h \in Handlers, CleanupStep(h) PROVE OwnerShape'
  <2>1. CASE CleanupDone(h)
    BY <2>1 DEF CleanupDone, UnrefGraph, Types, OwnerShape, AllKinds
  <2>2. CASE CleanupComplete(h)
    BY <2>2 DEF CleanupComplete, MarkRunCompletion, Types, OwnerShape, AllKinds
  <2>3. CASE CleanupUnref(h)
    BY <2>3 DEF CleanupUnref, UnrefSession, Release, RunGraph, Types, OwnerShape, AllKinds
  <2> QED BY <1>2, <2>1, <2>2, <2>3 DEF CleanupStep
<1>3. ASSUME NEW s \in Sessions, OwnerStep(s) PROVE OwnerShape'
  <2>1. CASE CreateSession(s)
    BY <2>1 DEF CreateSession, Pass, Types, OwnerShape, AllKinds
  <2>2. CASE ResetNext(s)
    BY <2>2 DEF ResetNext, Pass, Types, OwnerShape, AllKinds
  <2>3. CASE CloseSection(s)
    BY <2>3 DEF CloseSection, Pass, Types, OwnerShape, AllKinds
  <2>4. CASE CancelSteps(s)
    BY <2>4 DEF CancelSteps, StartCancel, ReportBadStatus, ReportedCalls, ReportedStatus, GroupUpdate,
       Told, Pass, Types, OwnerShape, AllKinds
  <2>5. CASE DrainSession(s)
    BY <2>5 DEF DrainSession, Pass, Types, OwnerShape, AllKinds
  <2>6. CASE ClearGraphs(s)
    BY <2>6 DEF ClearGraphs, Pass, Types, OwnerShape, AllKinds
  <2>7. CASE OwnerUnref(s)
    BY <2>7 DEF OwnerUnref, UnrefSession, RunGraph, Pass, Types, OwnerShape, AllKinds
  <2> QED BY <1>3, <2>1, <2>2, <2>3, <2>4, <2>5, <2>6, <2>7 DEF OwnerStep
<1>4. ASSUME NEW h \in Handlers, NEW w \in Workers, WhenDone(h, w) PROVE OwnerShape'
    BY <1>4 DEF WhenDone, ReportedCalls, ReportedStatus, GroupUpdate, Told, Types, OwnerShape, AllKinds
<1>5. ASSUME NEW h \in Handlers, ClientCancel(h) PROVE OwnerShape'
    BY <1>5 DEF ClientCancel, ReportBadStatus, ReportedCalls, ReportedStatus, GroupUpdate, Told, Types,
       OwnerShape, AllKinds
<1>6. ASSUME NEW h \in Handlers, NEW s \in Sessions, NEW op \in RequestKinds, FindMasterSession(h, s, op)
      PROVE  OwnerShape'
    BY <1>6 DEF FindMasterSession, RefSession, sessions_, Types, OwnerShape, AllKinds
<1>7. ASSUME NEW s \in Sessions, NewSession(s) PROVE OwnerShape'
    BY <1>7 DEF NewSession, Pass, Types, OwnerShape, AllKinds
<1>8. ASSUME NEW s \in Sessions, CloseSession(s) PROVE OwnerShape'
    BY <1>8 DEF CloseSession, Pass, Types, OwnerShape, AllKinds
<1>9. ASSUME NEW s \in Sessions, GC(s) PROVE OwnerShape'
    BY <1>9 DEF GC, Pass, Types, OwnerShape, AllKinds
<1>10. CASE Reset
    BY <1>10 DEF Reset, sessions_, Types, OwnerShape, AllKinds
<1>11. CASE UNCHANGED mVars
    BY <1>11 DEF mVars, msVars, Types, OwnerShape, AllKinds
<1>12. ASSUME NEW g \in Graphs, LoggingDone(g) PROVE OwnerShape'
    BY <1>12 DEF LoggingDone, UnrefGraph, Types, OwnerShape, AllKinds
<1>13. ASSUME NEW s \in Sessions, CleanupWorkers(s) PROVE OwnerShape'
    BY <1>13 DEF CleanupWorkers, Types, OwnerShape, AllKinds
<1> QED BY <1>1, <1>2, <1>3, <1>4, <1>5, <1>6, <1>7, <1>8, <1>9, <1>10, <1>11, <1>12, <1>13
        DEF MNext, MStep, Living, WorkerAnswers, ClientLeaves, LoggingAnswered

\* The codes, and what an error leaves in the group.
LEMMA Codes ==
  /\ \A st : st \notin Derived => Code(st) = st
  /\ Code("ok") = "ok" /\ Code("failed") = "failed" /\ Code("cancelled") = "cancelled"
  /\ Code("derivedFailed") = "failed" /\ Code("derivedCancelled") = "cancelled"
BY DEF Code, Derived

LEMMA Groups ==
  ASSUME NEW old, NEW st, st # "ok"
  PROVE  /\ GroupUpdate(old, st) \in {old, st} /\ GroupUpdate(old, st) # "ok"
         /\ old = "ok" => GroupUpdate(old, st) = st
BY DEF GroupUpdate

\* Every step keeps the calls of the steps consistent.
LEMMA CallsStep ==
  ASSUME Types, Shape, OwnerShape, Calls, MNext \/ UNCHANGED mVars
  PROVE  Calls'
<1> USE MasterAssumption DEF At, Go, sessionVars, graphVars, stepVars, handlerVars, ownerVars
<1>1. ASSUME NEW h \in Handlers, HandlerStep(h) PROVE Calls'
  <2>1. CASE EnterRun(h)
    BY <2>1 DEF EnterRun, Types, Shape, OwnerShape, Calls, CallsOf, AllKinds
  <2>2. CASE StartStep(h)
    BY <2>2 DEF StartStep, RunGraph, Graphs, RefGraph, Types, Shape, OwnerShape, Calls, CallsOf,
       AllKinds
  <2>3. CASE RegisterPartitions(h)
    BY <2>3 DEF RegisterPartitions, Registered, RunGraph, Types, Shape, OwnerShape, Calls, CallsOf,
       AllKinds
  <2>4. CASE RejectFeeds(h)
    BY <2>4, Codes DEF RejectFeeds, Types, Shape, OwnerShape, Calls, CallsOf, AllKinds
  <2>5. CASE Subscribe(h)
    <3> SUFFICES ASSUME NEW k \in Handlers PROVE CallsOf(k)'
      BY DEF Calls
    <3>1. CallsOf(k) /\ sess[h] \in Sessions /\ pc[h] = "issue"
      BY <2>5 DEF Calls, Subscribe, Shape
    <3>2. UNCHANGED <<sess, stopped, cancelled, closed>>
          /\ pc' = [pc EXCEPT ![h] = "waiting"] /\ pc \in [Handlers -> HandlerStates]
      BY <2>5 DEF Subscribe, Types
    <3>3. CASE k # h
      <4>1. pc'[k] = pc[k] /\ call'[k] = call[k] /\ status'[k] = status[k] /\ subscribed'[k] = subscribed[k]
        BY <2>5, <3>2, <3>3 DEF Subscribe, ReportBadStatus, ReportedCalls, ReportedStatus, GroupUpdate,
           Types
      <4> QED BY <3>1, <3>2, <4>1 DEF CallsOf
    <3>4. CASE k = h
      <4>1. pc'[h] = "waiting" /\ subscribed'[h] = ~cancelled[sess[h]]
        BY <2>5, <3>2 DEF Subscribe, Types
      <4>2. cancelled[sess[h]] => closed[sess[h]]
        BY <3>1 DEF OwnerShape
      <4>4. CASE cancelled[sess[h]]
        <5>1. status'[h] = ReportedStatus({h}, h, "cancelled") /\ call'[h] = ReportedCalls({h}, h, call[h])
          BY <2>5, <4>4 DEF Subscribe, ReportBadStatus
        <5>2. status'[h] # "ok" BY <5>1, Groups DEF ReportedStatus
        <5>3. \A w \in Workers : call'[h][w] # "running"
          BY <5>1, <3>1, <3>4 DEF CallsOf, ReportedCalls, Told
        <5> QED BY <3>4, <3>2, <4>1, <4>2, <4>4, <5>2, <5>3 DEF CallsOf
      <4>5. CASE ~cancelled[sess[h]]
        <5>1. status'[h] = status[h] /\ call'[h] = call[h]
          BY <2>5, <4>5 DEF Subscribe, ReportBadStatus, ReportedStatus, ReportedCalls
        <5> QED BY <3>1, <3>4, <3>2, <4>1, <4>5, <5>1 DEF CallsOf
      <4> QED BY <4>4, <4>5
    <3> QED BY <3>3, <3>4
  <2>6. CASE Waited(h)
    <3> SUFFICES ASSUME NEW k \in Handlers PROVE CallsOf(k)'
      BY DEF Calls
    <3>1. CallsOf(k) /\ pc[h] = "waiting" /\ sess[h] \in Sessions
      BY <2>6 DEF Calls, Waited, Shape
    <3>2. UNCHANGED <<sess, stopped, cancelled, closed>> /\ pc' = [pc EXCEPT ![h] = "post"]
          /\ subscribed' = [subscribed EXCEPT ![h] = FALSE]
          /\ call' = [call EXCEPT ![h] = [w \in Workers |-> "none"]]
      BY <2>6 DEF Waited
    <3>3. CASE k # h
      <4>1. pc'[k] = pc[k] /\ call'[k] = call[k] /\ status'[k] = status[k] /\ subscribed'[k] = subscribed[k]
        BY <2>6, <3>2, <3>3 DEF Waited, Types
      <4> QED BY <3>1, <3>2, <4>1 DEF CallsOf
    <3>4. CASE k = h
      <4>1. pc'[h] = "post" /\ ~subscribed'[h] /\ \A w \in Workers : call'[h][w] = "none"
        BY <3>2 DEF Types
      <4>2. \/ subscribed[h] /\ status'[h] = Code(status[h])
            \/ ~subscribed[h] /\ status'[h] = "cancelled"
            \/ status'[h] = "failed"
        BY <2>6 DEF Waited, Types
      <4>3. Code(Code(status[h])) = Code(status[h])
        BY Codes DEF Derived
      <4>4. Code(status'[h]) = "cancelled" => stopped[h] \/ closed[sess[h]]
        BY <4>2, <4>3, <3>1, <3>4, Codes DEF CallsOf, OwnerShape
      <4> QED BY <3>2, <3>4, <4>1, <4>4 DEF CallsOf
    <3> QED BY <3>3, <3>4
  <2>7. CASE PostRunCleanup(h)
    BY <2>7, Codes DEF PostRunCleanup, RefSession, RefGraph, Verdict, Types, Shape, OwnerShape, Calls,
       CallsOf, AllKinds
  <2>8. CASE DropGraph(h)
    BY <2>8 DEF DropGraph, UnrefGraph, Types, Shape, OwnerShape, Calls, CallsOf, AllKinds
  <2>9. CASE CompleteEarly(h)
    BY <2>9 DEF CompleteEarly, MarkRunCompletion, Types, Shape, OwnerShape, Calls, CallsOf, AllKinds
  <2>10. CASE Extend(h)
    BY <2>10 DEF Extend, Types, Shape, OwnerShape, Calls, CallsOf, AllKinds
  <2>11. CASE MakeCallable(h)
    BY <2>11 DEF MakeCallable, Graphs, Types, Shape, OwnerShape, Calls, CallsOf, AllKinds
  <2>12. CASE InsertCallable(h)
    BY <2>12 DEF InsertCallable, Types, Shape, OwnerShape, Calls, CallsOf, AllKinds
  <2>13. ASSUME NEW result \in {"ok", "failed"}, RegisterDone(h, result) PROVE Calls'
    BY <2>13 DEF RegisterDone, Registered, Types, Shape, OwnerShape, Calls, CallsOf, AllKinds
  <2>14. ASSUME NEW w \in Workers, IssueCall(h, w) PROVE Calls'
    BY <2>14 DEF IssueCall, Types, Shape, OwnerShape, Calls, CallsOf, AllKinds
  <2>15. ASSUME NEW g \in Graphs, EnterRunCallable(h, g) PROVE Calls'
    BY <2>15 DEF EnterRunCallable, RefGraph, Types, Shape, OwnerShape, Calls, CallsOf, AllKinds
  <2>16. ASSUME NEW g \in Graphs, ReleaseCallable(h, g) PROVE Calls'
    BY <2>16 DEF ReleaseCallable, Types, Shape, OwnerShape, Calls, CallsOf, AllKinds
  <2>17. CASE Done(h)
    BY <2>17 DEF Done, UnrefSession, Release, RunGraph, Types, Shape, OwnerShape, Calls, CallsOf,
       AllKinds
  <2>18. CASE FillPerStepState(h)
    BY <2>18, Codes DEF FillPerStepState, SetRPCLogging, Types, Shape, OwnerShape, Calls, CallsOf,
       AllKinds
  <2>19. CASE ProcessStats(h)
    BY <2>19 DEF ProcessStats, SetRPCLogging, Types, Shape, OwnerShape, Calls, CallsOf, AllKinds
  <2> QED BY <1>1, <2>1, <2>2, <2>3, <2>4, <2>5, <2>6, <2>7, <2>8, <2>9, <2>10, <2>11, <2>12, <2>13,
             <2>14, <2>15, <2>16, <2>17, <2>18, <2>19 DEF HandlerStep
<1>2. ASSUME NEW h \in Handlers, CleanupStep(h) PROVE Calls'
  <2>1. CASE CleanupDone(h)
    BY <2>1 DEF CleanupDone, UnrefGraph, Types, Shape, OwnerShape, Calls, CallsOf, AllKinds
  <2>2. CASE CleanupComplete(h)
    BY <2>2 DEF CleanupComplete, MarkRunCompletion, Types, Shape, OwnerShape, Calls, CallsOf, AllKinds
  <2>3. CASE CleanupUnref(h)
    BY <2>3 DEF CleanupUnref, UnrefSession, Release, RunGraph, Types, Shape, OwnerShape, Calls, CallsOf,
       AllKinds
  <2> QED BY <1>2, <2>1, <2>2, <2>3 DEF CleanupStep
<1>3. ASSUME NEW s \in Sessions, OwnerStep(s) PROVE Calls'
  <2>1. CASE CreateSession(s)
    BY <2>1 DEF CreateSession, Pass, Types, Shape, OwnerShape, Calls, CallsOf, AllKinds
  <2>2. CASE ResetNext(s)
    BY <2>2 DEF ResetNext, Pass, Types, Shape, OwnerShape, Calls, CallsOf, AllKinds
  <2>3. CASE CloseSection(s)
    BY <2>3 DEF CloseSection, Pass, Types, Shape, OwnerShape, Calls, CallsOf, AllKinds
  <2>4. CASE CancelSteps(s)
    <3> SUFFICES ASSUME NEW k \in Handlers PROVE CallsOf(k)'
      BY DEF Calls
    <3> DEFINE A == {h \in Handlers : subscribed[h] /\ sess[h] = s}
    <3>1. CallsOf(k) /\ UNCHANGED <<pc, sess, subscribed, stopped, closed>>
          /\ cancelled' = [cancelled EXCEPT ![s] = TRUE] /\ closed[s]
      BY <2>4 DEF Calls, CancelSteps, StartCancel, Pass, OwnerShape
    <3>2. call'[k] = ReportedCalls(A, k, call[k]) /\ status'[k] = ReportedStatus(A, k, "cancelled")
      BY <2>4 DEF CancelSteps, StartCancel, ReportBadStatus
    <3>3. CASE k \notin A
      <4>1. call'[k] = call[k] /\ status'[k] = status[k]
        BY <3>2, <3>3 DEF ReportedCalls, ReportedStatus
      <4>2. pc[k] = "waiting" /\ sess[k] = s => ~subscribed[k] BY <3>3
      <4>3. pc[k] # "idle" => (cancelled'[sess[k]] <=> sess[k] = s \/ cancelled[sess[k]])
        BY <3>1 DEF Types, Shape
      <4> QED BY <3>1, <4>1, <4>2, <4>3 DEF CallsOf
    <3>4. CASE k \in A
      <4>1. pc[k] = "waiting" /\ sess[k] = s /\ closed[sess[k]] BY <3>1, <3>4 DEF CallsOf
      <4>2. status'[k] # "ok" BY <3>2, <3>4, Groups DEF ReportedStatus
      <4>3. \A w \in Workers : call'[k][w] # "running"
        BY <3>1, <3>2, <3>4 DEF ReportedCalls, Told, CallsOf
      <4> QED BY <3>1, <4>1, <4>2, <4>3 DEF CallsOf
    <3> QED BY <3>3, <3>4
  <2>5. CASE DrainSession(s)
    BY <2>5 DEF DrainSession, Pass, Types, Shape, OwnerShape, Calls, CallsOf, AllKinds
  <2>6. CASE ClearGraphs(s)
    BY <2>6 DEF ClearGraphs, Pass, Types, Shape, OwnerShape, Calls, CallsOf, AllKinds
  <2>7. CASE OwnerUnref(s)
    BY <2>7 DEF OwnerUnref, UnrefSession, RunGraph, Pass, Types, Shape, OwnerShape, Calls, CallsOf,
       AllKinds
  <2> QED BY <1>3, <2>1, <2>2, <2>3, <2>4, <2>5, <2>6, <2>7 DEF OwnerStep
<1>4. ASSUME NEW h \in Handlers, NEW w \in Workers, WhenDone(h, w) PROVE Calls'
    <3> DEFINE answered == [call[h] EXCEPT ![w] = "done"]
    <3> SUFFICES ASSUME NEW k \in Handlers PROVE CallsOf(k)'
      BY DEF Calls
    <3>1. CallsOf(k) /\ CallsOf(h) /\ call[h] \in [Workers -> {"none", "running", "told", "deaf", "done"}]
          /\ call[h][w] \in {"running", "told", "deaf"}
      BY <1>4 DEF Calls, Types, WhenDone
    <3>2. UNCHANGED <<pc, sess, subscribed, cancelled, closed>>
      BY <1>4 DEF WhenDone
    <3>3. CASE k # h
      <4>1. call'[k] = call[k] /\ status'[k] = status[k] /\ stopped'[k] = stopped[k]
        BY <1>4, <3>3 DEF WhenDone, Types
      <4> QED BY <3>1, <3>2, <4>1 DEF CallsOf
    <3>4. CASE k = h
      <4>1. pc[h] \in {"issue", "waiting"} BY <3>1 DEF CallsOf
      <4>2. answered[w] = "done" /\ \A v \in Workers : answered[v] = "running" => call[h][v] = "running"
        BY <3>1
      <4>3. CASE call' = [call EXCEPT ![h] = answered] /\ UNCHANGED <<status, stopped>>
        <5>1. call'[h] = answered BY <4>3 DEF Types
        <5> QED BY <5>1, <4>1, <4>2, <4>3, <3>1, <3>2, <3>4 DEF CallsOf
      <4>4. ASSUME NEW st \in WorkerErrors,
                   call' = [call EXCEPT ![h] = ReportedCalls({h}, h, answered)],
                   status' = [status EXCEPT ![h] = ReportedStatus({h}, h, st)],
                   stopped' = [stopped EXCEPT ![h] = @ \/ (Code(st) = "cancelled" /\ ~closed[sess[h]])]
            PROVE  CallsOf(k)'
        <5>1. /\ call'[h] = ReportedCalls({h}, h, answered) /\ status'[h] = GroupUpdate(status[h], st)
              /\ stopped'[h] <=> stopped[h] \/ (Code(st) = "cancelled" /\ ~closed[sess[h]])
          BY <4>4 DEF Types, ReportedStatus
        <5>2. st # "ok" BY MasterSessionAssumption DEF AllErrors, Derived
        <5>3. status'[h] \in {status[h], st} /\ status'[h] # "ok"
          BY <5>1, <5>2, Groups
        <5> HIDE DEF answered
        <5>4. \A v \in Workers : call'[h][v] # "running"
          BY <5>1, <4>2, <3>1 DEF ReportedCalls, Told, CallsOf
        <5> QED BY <5>1, <5>3, <5>4, <4>1, <3>1, <3>2, <3>4 DEF CallsOf
      <4> QED BY <1>4, <4>3, <4>4 DEF WhenDone
    <3> QED BY <3>3, <3>4
<1>5. ASSUME NEW h \in Handlers, ClientCancel(h) PROVE Calls'
    <3> SUFFICES ASSUME NEW k \in Handlers PROVE CallsOf(k)'
      BY DEF Calls
    <3>1. CallsOf(k) /\ pc[h] = "waiting" /\ UNCHANGED <<pc, sess, subscribed, cancelled, closed>>
      BY <1>5 DEF Calls, ClientCancel
    <3>2. CASE k # h
      <4>1. call'[k] = call[k] /\ status'[k] = status[k] /\ stopped'[k] = stopped[k]
        BY <1>5, <3>2 DEF ClientCancel, ReportBadStatus, ReportedCalls, ReportedStatus, Types
      <4> QED BY <3>1, <4>1 DEF CallsOf
    <3>3. CASE k = h
      <4>1. /\ status'[h] = GroupUpdate(status[h], "cancelled") /\ (stopped'[h] \/ closed[sess[h]])
            /\ call'[h] = ReportedCalls({h}, h, call[h])
        BY <1>5 DEF ClientCancel, ReportBadStatus, ReportedStatus, Types
      <4>2. status'[h] # "ok" BY <4>1, Groups
      <4>3. \A w \in Workers : call'[h][w] # "running"
        BY <4>1, <3>1, <3>3 DEF ReportedCalls, Told, CallsOf
      <4> QED BY <3>1, <3>3, <4>1, <4>2, <4>3 DEF CallsOf
    <3> QED BY <3>2, <3>3
<1>6. ASSUME NEW h \in Handlers, NEW s \in Sessions, NEW op \in RequestKinds, FindMasterSession(h, s, op)
      PROVE  Calls'
    <3>1. op \notin {"issue", "waiting", "post", "drop", "unref"} BY <1>6 DEF AllKinds
    <3>2. /\ pc[h] = "idle" /\ pc' = [pc EXCEPT ![h] = op] /\ sess' = [sess EXCEPT ![h] = s]
          /\ UNCHANGED <<call, status, subscribed, stopped, cancelled, closed>>
      BY <1>6 DEF FindMasterSession
    <3>3. ASSUME NEW k \in Handlers PROVE CallsOf(k)'
      <4>1. CallsOf(k) BY DEF Calls
      <4>2. CASE k = h
        <5>1. pc'[k] = op BY <4>2, <3>2 DEF Types
        <5> QED BY <5>1, <4>1, <4>2, <3>1, <3>2 DEF CallsOf
      <4>3. CASE k # h
        <5>1. pc'[k] = pc[k] /\ sess'[k] = sess[k] BY <4>3, <3>2 DEF Types
        <5> QED BY <5>1, <4>1, <3>2 DEF CallsOf
      <4> QED BY <4>2, <4>3
    <3> QED BY <3>3 DEF Calls
<1>7. ASSUME NEW s \in Sessions, NewSession(s) PROVE Calls'
    BY <1>7 DEF NewSession, Pass, Types, Shape, OwnerShape, Calls, CallsOf, AllKinds
<1>8. ASSUME NEW s \in Sessions, CloseSession(s) PROVE Calls'
    BY <1>8 DEF CloseSession, Pass, Types, Shape, OwnerShape, Calls, CallsOf, AllKinds
<1>9. ASSUME NEW s \in Sessions, GC(s) PROVE Calls'
    BY <1>9 DEF GC, Pass, Types, Shape, OwnerShape, Calls, CallsOf, AllKinds
<1>10. CASE Reset
    BY <1>10 DEF Reset, sessions_, Types, Shape, OwnerShape, Calls, CallsOf, AllKinds
<1>11. CASE UNCHANGED mVars
    BY <1>11 DEF mVars, msVars, Types, Shape, OwnerShape, Calls, CallsOf, AllKinds
<1>12. ASSUME NEW g \in Graphs, LoggingDone(g) PROVE Calls'
    BY <1>12 DEF LoggingDone, UnrefGraph, Types, Shape, OwnerShape, Calls, CallsOf, AllKinds
<1>13. ASSUME NEW s \in Sessions, CleanupWorkers(s) PROVE Calls'
    BY <1>13 DEF CleanupWorkers, Types, Shape, OwnerShape, Calls, CallsOf, AllKinds
<1> QED BY <1>1, <1>2, <1>3, <1>4, <1>5, <1>6, <1>7, <1>8, <1>9, <1>10, <1>11, <1>12, <1>13
        DEF MNext, MStep, Living, WorkerAnswers, ClientLeaves, LoggingAnswered

\* No handler enters or leaves a step.
SameSteps ==
  \A k \in Handlers : /\ InStep(k)' <=> InStep(k)
                      /\ InStep(k) => sess'[k] = sess[k]

\* Handler h enters a step; all others stay.
Begins(h) ==
  /\ ~InStep(h) /\ InStep(h)' /\ sess[h] \in Sessions /\ ~closed[sess[h]] /\ pc[h] # "idle"
  /\ \A k \in Handlers \ {h} : InStep(k)' <=> InStep(k)
  /\ numRunning' = [numRunning EXCEPT ![sess[h]] = @ + 1]
  /\ UNCHANGED <<refs, owner, closed, version, sess>>

\* Handler h leaves a step; all others stay.
Ends(h) ==
  /\ InStep(h) /\ ~InStep(h)' /\ sess[h] \in Sessions
  /\ \A k \in Handlers \ {h} : InStep(k)' <=> InStep(k)
  /\ numRunning' = [numRunning EXCEPT ![sess[h]] = @ - 1]
  /\ UNCHANGED <<refs, owner, closed, version, sess>>

\* A step of the master moves at most one handler into or out of a step, and num_running_ with it.
LEMMA StepEffect ==
  ASSUME Types, Shape, MNext \/ UNCHANGED mVars
  PROVE  (SameSteps /\ UNCHANGED numRunning) \/ \E k \in Handlers : Begins(k) \/ Ends(k)
<1> DEFINE Goal == (SameSteps /\ UNCHANGED numRunning) \/ \E k \in Handlers : Begins(k) \/ Ends(k)
<1>0. SUFFICES Goal OBVIOUS
<1> USE MasterAssumption DEF At, Go, sessionVars, graphVars, stepVars, handlerVars, ownerVars
<1>1. ASSUME NEW h \in Handlers, HandlerStep(h) PROVE Goal
  <2>1. CASE EnterRun(h)
    <3>1. pc[h] = "Run" /\ UNCHANGED <<sess, cleanup, refs, owner, closed, version>>
      BY <2>1 DEF EnterRun
    <3>2. pc \in [Handlers -> HandlerStates] /\ graph \in [Handlers -> Graphs \cup {NoGraph}]
      BY DEF Types
    <3>3. sess[h] \in Sessions /\ cleanup[h] = "none"
      BY <3>1 DEF Shape
    <3>4. CASE pc' = [pc EXCEPT ![h] = "unref"] /\ UNCHANGED <<graph, numRunning>>
      BY <3>1, <3>2, <3>3, <3>4 DEF InStep, SameSteps
    <3>5. CASE /\ pc' = [pc EXCEPT ![h] = "startStep"] /\ UNCHANGED graph
               /\ ~closed[sess[h]] /\ numRunning' = [numRunning EXCEPT ![sess[h]] = @ + 1]
      <4>1. ~InStep(h) /\ InStep(h)' BY <3>1, <3>2, <3>3, <3>5 DEF InStep
      <4>2. \A k \in Handlers \ {h} : InStep(k)' <=> InStep(k)
        BY <3>1, <3>2, <3>5 DEF InStep
      <4>3. Begins(h) BY <4>1, <4>2, <3>1, <3>3, <3>5 DEF Begins
      <4> QED BY <4>3
    <3> QED BY <2>1, <3>1, <3>4, <3>5 DEF EnterRun
  <2>2. CASE StartStep(h)
    BY <2>2 DEF StartStep, RunGraph, Graphs, RefGraph, Types, Shape, AllKinds, HoldsGraph, InStep,
       SameSteps, RunGraph
  <2>3. CASE RegisterPartitions(h)
    BY <2>3 DEF RegisterPartitions, Registered, RunGraph, Types, Shape, AllKinds, HoldsGraph, InStep,
       SameSteps, RunGraph
  <2>4. CASE RejectFeeds(h)
    BY <2>4 DEF RejectFeeds, Types, Shape, AllKinds, HoldsGraph, InStep, SameSteps, RunGraph
  <2>5. CASE Subscribe(h)
    BY <2>5 DEF Subscribe, ReportBadStatus, ReportedCalls, ReportedStatus, GroupUpdate, Told, Types,
       Shape, AllKinds, HoldsGraph, InStep, SameSteps, RunGraph
  <2>6. CASE Waited(h)
    BY <2>6 DEF Waited, Types, Shape, AllKinds, HoldsGraph, InStep, SameSteps, RunGraph
  <2>7. CASE PostRunCleanup(h)
    BY <2>7 DEF PostRunCleanup, RefSession, RefGraph, Verdict, Types, Shape, AllKinds, HoldsGraph,
       InStep, SameSteps, RunGraph
  <2>8. CASE DropGraph(h)
    BY <2>8 DEF DropGraph, UnrefGraph, Types, Shape, AllKinds, HoldsGraph, InStep, SameSteps, RunGraph
  <2>9. CASE CompleteEarly(h)
    <3>1. pc[h] = "complete" /\ pc' = [pc EXCEPT ![h] = "unref"] /\ UNCHANGED cleanup /\ UNCHANGED <<sess, graph, refs, owner, closed, version>>
          /\ numRunning' = [numRunning EXCEPT ![sess[h]] = @ - 1]
      BY <2>9 DEF CompleteEarly, MarkRunCompletion
    <3>2. pc \in [Handlers -> HandlerStates] /\ cleanup \in [Handlers -> {"none", "rpc", "complete", "unref"}]
      BY DEF Types
    <3>3. sess[h] \in Sessions /\ (cleanup[h] = "none" \/ pc[h] \in {"drop", "unref", "idle"})
      BY <3>1 DEF Shape
    <3>4. InStep(h) /\ ~InStep(h)' BY <3>1, <3>2, <3>3 DEF InStep
    <3>5. \A k \in Handlers \ {h} : InStep(k)' <=> InStep(k)
      BY <3>1, <3>2 DEF InStep
    <3>6. Ends(h) BY <3>1, <3>3, <3>4, <3>5 DEF Ends
    <3> QED BY <3>6
  <2>10. CASE Extend(h)
    BY <2>10 DEF Extend, Types, Shape, AllKinds, HoldsGraph, InStep, SameSteps, RunGraph
  <2>11. CASE MakeCallable(h)
    <3>1. pc[h] = "MakeCallable" /\ UNCHANGED <<sess, cleanup, numRunning>>
      BY <2>11 DEF MakeCallable
    <3>2. pc \in [Handlers -> HandlerStates] /\ graph \in [Handlers -> Graphs \cup {NoGraph}]
      BY DEF Types
    <3>3. cleanup[h] = "none" BY <3>1 DEF Shape
    <3>4. \/ pc' = [pc EXCEPT ![h] = "unref"] /\ UNCHANGED graph
          \/ /\ pc' = [pc EXCEPT ![h] = "register"]
             /\ \E k \in 1 .. MaxCallables : graph' = [graph EXCEPT ![h] = <<sess[h], k>>]
      BY <2>11 DEF MakeCallable
    <3>5. SameSteps BY <3>1, <3>2, <3>3, <3>4 DEF SameSteps, InStep, RunGraph
    <3> QED BY <3>1, <3>5
  <2>12. CASE InsertCallable(h)
    BY <2>12 DEF InsertCallable, Types, Shape, AllKinds, HoldsGraph, InStep, SameSteps, RunGraph
  <2>13. ASSUME NEW result \in {"ok", "failed"}, RegisterDone(h, result) PROVE Goal
    BY <2>13 DEF RegisterDone, Registered, Types, Shape, AllKinds, HoldsGraph, InStep, SameSteps,
       RunGraph
  <2>14. ASSUME NEW w \in Workers, IssueCall(h, w) PROVE Goal
    BY <2>14 DEF IssueCall, Types, Shape, AllKinds, HoldsGraph, InStep, SameSteps, RunGraph
  <2>15. ASSUME NEW g \in Graphs, EnterRunCallable(h, g) PROVE Goal
    <3>1. pc[h] = "RunCallable" /\ UNCHANGED <<sess, cleanup, refs, owner, closed, version>>
      BY <2>15 DEF EnterRunCallable
    <3>2. pc \in [Handlers -> HandlerStates] /\ graph \in [Handlers -> Graphs \cup {NoGraph}]
      BY DEF Types
    <3>3. sess[h] \in Sessions /\ cleanup[h] = "none"
      BY <3>1 DEF Shape
    <3>4. CASE pc' = [pc EXCEPT ![h] = "unref"] /\ UNCHANGED <<graph, numRunning>>
      BY <3>1, <3>2, <3>3, <3>4 DEF InStep, SameSteps
    <3>5. CASE /\ pc' = [pc EXCEPT ![h] = "fill"] /\ graph' = [graph EXCEPT ![h] = g]
               /\ ~closed[sess[h]] /\ numRunning' = [numRunning EXCEPT ![sess[h]] = @ + 1]
      <4>1. ~InStep(h) /\ InStep(h)' BY <3>1, <3>2, <3>3, <3>5 DEF InStep
      <4>2. \A k \in Handlers \ {h} : InStep(k)' <=> InStep(k)
        BY <3>1, <3>2, <3>5 DEF InStep
      <4>3. Begins(h) BY <4>1, <4>2, <3>1, <3>3, <3>5 DEF Begins
      <4> QED BY <4>3
    <3> QED BY <2>15, <3>1, <3>4, <3>5 DEF EnterRunCallable
  <2>16. ASSUME NEW g \in Graphs, ReleaseCallable(h, g) PROVE Goal
    BY <2>16 DEF ReleaseCallable, Types, Shape, AllKinds, HoldsGraph, InStep, SameSteps, RunGraph
  <2>17. CASE Done(h)
    BY <2>17 DEF Done, UnrefSession, Release, RunGraph, Types, Shape, AllKinds, HoldsGraph, InStep,
       SameSteps, RunGraph
  <2>18. CASE FillPerStepState(h)
    BY <2>18 DEF FillPerStepState, SetRPCLogging, Types, Shape, AllKinds, HoldsGraph, InStep,
       SameSteps, RunGraph
  <2>19. CASE ProcessStats(h)
    BY <2>19 DEF ProcessStats, SetRPCLogging, Types, Shape, AllKinds, HoldsGraph, InStep, SameSteps,
       RunGraph
  <2> QED BY <1>1, <2>1, <2>2, <2>3, <2>4, <2>5, <2>6, <2>7, <2>8, <2>9, <2>10, <2>11, <2>12, <2>13,
             <2>14, <2>15, <2>16, <2>17, <2>18, <2>19 DEF HandlerStep
<1>2. ASSUME NEW h \in Handlers, CleanupStep(h) PROVE Goal
  <2>1. CASE CleanupDone(h)
    BY <2>1 DEF CleanupDone, UnrefGraph, Types, Shape, AllKinds, HoldsGraph, InStep, SameSteps, RunGraph
  <2>2. CASE CleanupComplete(h)
    <3>1. cleanup[h] = "complete" /\ cleanup' = [cleanup EXCEPT ![h] = "unref"] /\ UNCHANGED pc /\ UNCHANGED <<sess, graph, refs, owner, closed, version>>
          /\ numRunning' = [numRunning EXCEPT ![sess[h]] = @ - 1]
      BY <2>2 DEF CleanupComplete, MarkRunCompletion
    <3>2. pc \in [Handlers -> HandlerStates] /\ cleanup \in [Handlers -> {"none", "rpc", "complete", "unref"}]
      BY DEF Types
    <3>3. sess[h] \in Sessions /\ (cleanup[h] = "none" \/ pc[h] \in {"drop", "unref", "idle"})
      BY <3>1 DEF Shape
    <3>4. InStep(h) /\ ~InStep(h)' BY <3>1, <3>2, <3>3 DEF InStep
    <3>5. \A k \in Handlers \ {h} : InStep(k)' <=> InStep(k)
      BY <3>1, <3>2 DEF InStep
    <3>6. Ends(h) BY <3>1, <3>3, <3>4, <3>5 DEF Ends
    <3> QED BY <3>6
  <2>3. CASE CleanupUnref(h)
    BY <2>3 DEF CleanupUnref, UnrefSession, Release, RunGraph, Types, Shape, AllKinds, HoldsGraph,
       InStep, SameSteps, RunGraph
  <2> QED BY <1>2, <2>1, <2>2, <2>3 DEF CleanupStep
<1>3. ASSUME NEW s \in Sessions, OwnerStep(s) PROVE Goal
  <2>1. CASE CreateSession(s)
    BY <2>1 DEF CreateSession, Pass, Types, Shape, AllKinds, HoldsGraph, InStep, SameSteps, RunGraph
  <2>2. CASE ResetNext(s)
    BY <2>2 DEF ResetNext, Pass, Types, Shape, AllKinds, HoldsGraph, InStep, SameSteps, RunGraph
  <2>3. CASE CloseSection(s)
    BY <2>3 DEF CloseSection, Pass, Types, Shape, AllKinds, HoldsGraph, InStep, SameSteps, RunGraph
  <2>4. CASE CancelSteps(s)
    BY <2>4 DEF CancelSteps, StartCancel, ReportBadStatus, ReportedCalls, ReportedStatus, GroupUpdate,
       Told, Pass, Types, Shape, AllKinds, HoldsGraph, InStep, SameSteps, RunGraph
  <2>5. CASE DrainSession(s)
    BY <2>5 DEF DrainSession, Pass, Types, Shape, AllKinds, HoldsGraph, InStep, SameSteps, RunGraph
  <2>6. CASE ClearGraphs(s)
    BY <2>6 DEF ClearGraphs, Pass, Types, Shape, AllKinds, HoldsGraph, InStep, SameSteps, RunGraph
  <2>7. CASE OwnerUnref(s)
    BY <2>7 DEF OwnerUnref, UnrefSession, RunGraph, Pass, Types, Shape, AllKinds, HoldsGraph, InStep,
       SameSteps, RunGraph
  <2> QED BY <1>3, <2>1, <2>2, <2>3, <2>4, <2>5, <2>6, <2>7 DEF OwnerStep
<1>4. ASSUME NEW h \in Handlers, NEW w \in Workers, WhenDone(h, w) PROVE Goal
    BY <1>4 DEF WhenDone, ReportedCalls, ReportedStatus, GroupUpdate, Told, Types, Shape, AllKinds,
       HoldsGraph, InStep, SameSteps, RunGraph
<1>5. ASSUME NEW h \in Handlers, ClientCancel(h) PROVE Goal
    BY <1>5 DEF ClientCancel, ReportBadStatus, ReportedCalls, ReportedStatus, GroupUpdate, Told, Types,
       Shape, AllKinds, HoldsGraph, InStep, SameSteps, RunGraph
<1>6. ASSUME NEW h \in Handlers, NEW s \in Sessions, NEW op \in RequestKinds, FindMasterSession(h, s, op)
      PROVE  Goal
    BY <1>6 DEF FindMasterSession, RefSession, sessions_, Types, Shape, AllKinds, HoldsGraph, InStep,
       SameSteps, RunGraph
<1>7. ASSUME NEW s \in Sessions, NewSession(s) PROVE Goal
    BY <1>7 DEF NewSession, Pass, Types, Shape, AllKinds, HoldsGraph, InStep, SameSteps, RunGraph
<1>8. ASSUME NEW s \in Sessions, CloseSession(s) PROVE Goal
    BY <1>8 DEF CloseSession, Pass, Types, Shape, AllKinds, HoldsGraph, InStep, SameSteps, RunGraph
<1>9. ASSUME NEW s \in Sessions, GC(s) PROVE Goal
    BY <1>9 DEF GC, Pass, Types, Shape, AllKinds, HoldsGraph, InStep, SameSteps, RunGraph
<1>10. CASE Reset
    BY <1>10 DEF Reset, sessions_, Types, Shape, AllKinds, HoldsGraph, InStep, SameSteps, RunGraph
<1>11. CASE UNCHANGED mVars
    BY <1>11 DEF mVars, msVars, Types, Shape, AllKinds, HoldsGraph, InStep, SameSteps, RunGraph
<1>12. ASSUME NEW g \in Graphs, LoggingDone(g) PROVE Goal
    BY <1>12 DEF LoggingDone, UnrefGraph, Types, Shape, AllKinds, HoldsGraph, InStep, SameSteps,
       RunGraph
<1>13. ASSUME NEW s \in Sessions, CleanupWorkers(s) PROVE Goal
    BY <1>13 DEF CleanupWorkers, Types, Shape, AllKinds, HoldsGraph, InStep, SameSteps, RunGraph
<1> QED BY <1>1, <1>2, <1>3, <1>4, <1>5, <1>6, <1>7, <1>8, <1>9, <1>10, <1>11, <1>12, <1>13
        DEF MNext, MStep, Living, WorkerAnswers, ClientLeaves, LoggingAnswered

\* Adding an element to a finite set, or taking one out, moves its cardinality by one.
LEMMA Counts ==
  ASSUME NEW S \in SUBSET Handlers
  PROVE  /\ IsFiniteSet(S) /\ Cardinality(S) \in Nat
         /\ Cardinality(S) = 0 <=> S = {}
         /\ \A h \in Handlers \ S : Cardinality(S \cup {h}) = Cardinality(S) + 1
         /\ \A h \in S : Cardinality(S \ {h}) = Cardinality(S) - 1
<1>1. IsFiniteSet(S) BY MasterSessionAssumption, FS_Subset
<1> QED BY <1>1, FS_CardinalityType, FS_EmptySet, FS_AddElement, FS_RemoveElement

\* Every step keeps num_running_ exact.
LEMMA RunningStep ==
  ASSUME Types, Shape, RunningExact, MNext \/ UNCHANGED mVars
  PROVE  RunningExact'
<1>1. CASE SameSteps /\ UNCHANGED numRunning
  <2>1. \A s \in Sessions : StepsOf(s)' = StepsOf(s)
    BY <1>1 DEF SameSteps, StepsOf
  <2> QED BY <1>1, <2>1 DEF RunningExact
<1>2. ASSUME NEW h \in Handlers, Begins(h) PROVE RunningExact'
  <2>1. \A s \in Sessions : StepsOf(s) \in SUBSET Handlers BY DEF StepsOf
  <2>2. /\ h \notin StepsOf(sess[h]) /\ StepsOf(sess[h])' = StepsOf(sess[h]) \cup {h}
        /\ \A s \in Sessions \ {sess[h]} : StepsOf(s)' = StepsOf(s)
    BY <1>2 DEF Begins, StepsOf
  <2>3. Cardinality(StepsOf(sess[h]))' = Cardinality(StepsOf(sess[h])) + 1
    BY <1>2, <2>1, <2>2, Counts DEF Begins
  <2> QED BY <1>2, <2>2, <2>3 DEF RunningExact, Begins, Types
<1>3. ASSUME NEW h \in Handlers, Ends(h) PROVE RunningExact'
  <2>1. \A s \in Sessions : StepsOf(s) \in SUBSET Handlers BY DEF StepsOf
  <2>2. /\ h \in StepsOf(sess[h]) /\ StepsOf(sess[h])' = StepsOf(sess[h]) \ {h}
        /\ \A s \in Sessions \ {sess[h]} : StepsOf(s)' = StepsOf(s)
    BY <1>3 DEF Ends, StepsOf
  <2>3. Cardinality(StepsOf(sess[h]))' = Cardinality(StepsOf(sess[h])) - 1
    BY <1>3, <2>1, <2>2, Counts DEF Ends
  <2> QED BY <1>3, <2>2, <2>3 DEF RunningExact, Ends, Types
<1> QED BY <1>1, <1>2, <1>3, StepEffect

\* A session in use exists.
Born == \A h \in Handlers : pc[h] # "idle" \/ cleanup[h] # "none" => owner[sess[h]] # "unborn"

\* The users of every session stay the same.
SameUsers ==
  \A k \in Handlers : /\ pc'[k] = "idle" <=> pc[k] = "idle"
                      /\ cleanup'[k] = "none" <=> cleanup[k] = "none"
                      /\ pc[k] # "idle" \/ cleanup[k] # "none" => sess'[k] = sess[k]

\* With the same users and the same counts, the counts stay exact.
LEMMA UseFrame ==
  ASSUME SessionRefsExact, SameUsers, UNCHANGED refs, \A s \in Sessions : Owned(s)' <=> Owned(s)
  PROVE  SessionRefsExact'
<1>1. \A s \in Sessions : HandlersOf(s)' = HandlersOf(s) /\ CleanupsOf(s)' = CleanupsOf(s)
  BY DEF SameUsers, HandlersOf, CleanupsOf
<1> QED BY <1>1 DEF SessionRefsExact, One

\* Every step keeps the sessions in use born.
LEMMA BornStep ==
  ASSUME Types, Shape, Born, MNext \/ UNCHANGED mVars
  PROVE  Born'
<1> USE MasterAssumption DEF At, Go, sessionVars, graphVars, stepVars, handlerVars, ownerVars
<1>1. ASSUME NEW h \in Handlers, HandlerStep(h) PROVE Born'
  <2>1. CASE EnterRun(h)
    BY <2>1 DEF EnterRun, Types, Shape, Born, AllKinds
  <2>2. CASE StartStep(h)
    BY <2>2 DEF StartStep, RunGraph, Graphs, RefGraph, Types, Shape, Born, AllKinds
  <2>3. CASE RegisterPartitions(h)
    BY <2>3 DEF RegisterPartitions, Registered, RunGraph, Types, Shape, Born, AllKinds
  <2>4. CASE RejectFeeds(h)
    BY <2>4 DEF RejectFeeds, Types, Shape, Born, AllKinds
  <2>5. CASE Subscribe(h)
    BY <2>5 DEF Subscribe, ReportBadStatus, ReportedCalls, ReportedStatus, GroupUpdate, Told, Types,
       Shape, Born, AllKinds
  <2>6. CASE Waited(h)
    BY <2>6 DEF Waited, Types, Shape, Born, AllKinds
  <2>7. CASE PostRunCleanup(h)
    BY <2>7 DEF PostRunCleanup, RefSession, RefGraph, Verdict, Types, Shape, Born, AllKinds
  <2>8. CASE DropGraph(h)
    BY <2>8 DEF DropGraph, UnrefGraph, Types, Shape, Born, AllKinds
  <2>9. CASE CompleteEarly(h)
    BY <2>9 DEF CompleteEarly, MarkRunCompletion, Types, Shape, Born, AllKinds
  <2>10. CASE Extend(h)
    BY <2>10 DEF Extend, Types, Shape, Born, AllKinds
  <2>11. CASE MakeCallable(h)
    BY <2>11 DEF MakeCallable, Graphs, Types, Shape, Born, AllKinds
  <2>12. CASE InsertCallable(h)
    BY <2>12 DEF InsertCallable, Types, Shape, Born, AllKinds
  <2>13. ASSUME NEW result \in {"ok", "failed"}, RegisterDone(h, result) PROVE Born'
    BY <2>13 DEF RegisterDone, Registered, Types, Shape, Born, AllKinds
  <2>14. ASSUME NEW w \in Workers, IssueCall(h, w) PROVE Born'
    BY <2>14 DEF IssueCall, Types, Shape, Born, AllKinds
  <2>15. ASSUME NEW g \in Graphs, EnterRunCallable(h, g) PROVE Born'
    BY <2>15 DEF EnterRunCallable, RefGraph, Types, Shape, Born, AllKinds
  <2>16. ASSUME NEW g \in Graphs, ReleaseCallable(h, g) PROVE Born'
    BY <2>16 DEF ReleaseCallable, Types, Shape, Born, AllKinds
  <2>17. CASE Done(h)
    BY <2>17 DEF Done, UnrefSession, Release, RunGraph, Types, Shape, Born, AllKinds
  <2>18. CASE FillPerStepState(h)
    BY <2>18 DEF FillPerStepState, SetRPCLogging, Types, Shape, Born, AllKinds
  <2>19. CASE ProcessStats(h)
    BY <2>19 DEF ProcessStats, SetRPCLogging, Types, Shape, Born, AllKinds
  <2> QED BY <1>1, <2>1, <2>2, <2>3, <2>4, <2>5, <2>6, <2>7, <2>8, <2>9, <2>10, <2>11, <2>12, <2>13,
             <2>14, <2>15, <2>16, <2>17, <2>18, <2>19 DEF HandlerStep
<1>2. ASSUME NEW h \in Handlers, CleanupStep(h) PROVE Born'
  <2>1. CASE CleanupDone(h)
    BY <2>1 DEF CleanupDone, UnrefGraph, Types, Shape, Born, AllKinds
  <2>2. CASE CleanupComplete(h)
    BY <2>2 DEF CleanupComplete, MarkRunCompletion, Types, Shape, Born, AllKinds
  <2>3. CASE CleanupUnref(h)
    BY <2>3 DEF CleanupUnref, UnrefSession, Release, RunGraph, Types, Shape, Born, AllKinds
  <2> QED BY <1>2, <2>1, <2>2, <2>3 DEF CleanupStep
<1>3. ASSUME NEW s \in Sessions, OwnerStep(s) PROVE Born'
  <2>1. CASE CreateSession(s)
    BY <2>1 DEF CreateSession, Pass, Types, Shape, Born, AllKinds
  <2>2. CASE ResetNext(s)
    BY <2>2 DEF ResetNext, Pass, Types, Shape, Born, AllKinds
  <2>3. CASE CloseSection(s)
    BY <2>3 DEF CloseSection, Pass, Types, Shape, Born, AllKinds
  <2>4. CASE CancelSteps(s)
    BY <2>4 DEF CancelSteps, StartCancel, ReportBadStatus, ReportedCalls, ReportedStatus, GroupUpdate,
       Told, Pass, Types, Shape, Born, AllKinds
  <2>5. CASE DrainSession(s)
    BY <2>5 DEF DrainSession, Pass, Types, Shape, Born, AllKinds
  <2>6. CASE ClearGraphs(s)
    BY <2>6 DEF ClearGraphs, Pass, Types, Shape, Born, AllKinds
  <2>7. CASE OwnerUnref(s)
    BY <2>7 DEF OwnerUnref, UnrefSession, RunGraph, Pass, Types, Shape, Born, AllKinds
  <2> QED BY <1>3, <2>1, <2>2, <2>3, <2>4, <2>5, <2>6, <2>7 DEF OwnerStep
<1>4. ASSUME NEW h \in Handlers, NEW w \in Workers, WhenDone(h, w) PROVE Born'
    BY <1>4 DEF WhenDone, ReportedCalls, ReportedStatus, GroupUpdate, Told, Types, Shape, Born, AllKinds
<1>5. ASSUME NEW h \in Handlers, ClientCancel(h) PROVE Born'
    BY <1>5 DEF ClientCancel, ReportBadStatus, ReportedCalls, ReportedStatus, GroupUpdate, Told, Types,
       Shape, Born, AllKinds
<1>6. ASSUME NEW h \in Handlers, NEW s \in Sessions, NEW op \in RequestKinds, FindMasterSession(h, s, op)
      PROVE  Born'
    BY <1>6 DEF FindMasterSession, RefSession, sessions_, Types, Shape, Born, AllKinds
<1>7. ASSUME NEW s \in Sessions, NewSession(s) PROVE Born'
    BY <1>7 DEF NewSession, Pass, Types, Shape, Born, AllKinds
<1>8. ASSUME NEW s \in Sessions, CloseSession(s) PROVE Born'
    BY <1>8 DEF CloseSession, Pass, Types, Shape, Born, AllKinds
<1>9. ASSUME NEW s \in Sessions, GC(s) PROVE Born'
    BY <1>9 DEF GC, Pass, Types, Shape, Born, AllKinds
<1>10. CASE Reset
    BY <1>10 DEF Reset, sessions_, Types, Shape, Born, AllKinds
<1>11. CASE UNCHANGED mVars
    BY <1>11 DEF mVars, msVars, Types, Shape, Born, AllKinds
<1>12. ASSUME NEW g \in Graphs, LoggingDone(g) PROVE Born'
    BY <1>12 DEF LoggingDone, UnrefGraph, Types, Shape, Born, AllKinds
<1>13. ASSUME NEW s \in Sessions, CleanupWorkers(s) PROVE Born'
    BY <1>13 DEF CleanupWorkers, Types, Shape, Born, AllKinds
<1> QED BY <1>1, <1>2, <1>3, <1>4, <1>5, <1>6, <1>7, <1>8, <1>9, <1>10, <1>11, <1>12, <1>13
        DEF MNext, MStep, Living, WorkerAnswers, ClientLeaves, LoggingAnswered

\* Every step keeps the reference counts of the sessions exact.
LEMMA SessionRefsStep ==
  ASSUME Types, Shape, Born, SessionRefsExact, MNext \/ UNCHANGED mVars
  PROVE  SessionRefsExact'
<1> USE MasterAssumption DEF At, Go, sessionVars, graphVars, stepVars, handlerVars, ownerVars
<1>1. ASSUME NEW h \in Handlers, HandlerStep(h) PROVE SessionRefsExact'
  <2>1. CASE EnterRun(h)
    BY <2>1, UseFrame DEF EnterRun, Types, Shape, AllKinds, SameUsers, Owned
  <2>2. CASE StartStep(h)
    BY <2>2, UseFrame DEF StartStep, RunGraph, Graphs, RefGraph, Types, Shape, AllKinds, SameUsers,
       Owned
  <2>3. CASE RegisterPartitions(h)
    BY <2>3, UseFrame DEF RegisterPartitions, Registered, RunGraph, Types, Shape, AllKinds, SameUsers,
       Owned
  <2>4. CASE RejectFeeds(h)
    BY <2>4, UseFrame DEF RejectFeeds, Types, Shape, AllKinds, SameUsers, Owned
  <2>5. CASE Subscribe(h)
    BY <2>5, UseFrame DEF Subscribe, ReportBadStatus, ReportedCalls, ReportedStatus, GroupUpdate, Told,
       Types, Shape, AllKinds, SameUsers, Owned
  <2>6. CASE Waited(h)
    BY <2>6, UseFrame DEF Waited, Types, Shape, AllKinds, SameUsers, Owned
  <2>7. CASE PostRunCleanup(h)
    <3>0. PICK s \in Sessions : s = sess[h]
      BY <2>7 DEF PostRunCleanup, Shape, Shape
    <3>1. pc[h] = "post" /\ cleanup[h] = "none" /\ pc' = [pc EXCEPT ![h] = "drop"]
          /\ cleanup' = [cleanup EXCEPT ![h] = "rpc"] /\ UNCHANGED sess
      BY <2>7 DEF PostRunCleanup, Shape, Release, RefSession, UnrefSession
    <3>2. s \in Sessions /\ UNCHANGED owner /\ refs' = [refs EXCEPT ![s] = @ + 1]
      BY <3>0, <2>7, <3>1 DEF PostRunCleanup, Shape, RefSession, UnrefSession
    <3>3. pc \in [Handlers -> HandlerStates] /\ cleanup \in [Handlers -> {"none", "rpc", "complete", "unref"}]
          /\ sess \in [Handlers -> Sessions \cup {NoSession}] /\ refs \in [Sessions -> Int]
      BY DEF Types
    <3>a. \A k \in Handlers \ {h} : pc'[k] = pc[k] /\ cleanup'[k] = cleanup[k] /\ sess'[k] = sess[k]
      BY <3>1, <3>3
    <3>b. pc'[h] = "drop" /\ sess'[h] = sess[h] /\ cleanup'[h] = "rpc"
      BY <3>1, <3>3
    <3>4. \A t \in Sessions : HandlersOf(t)' = HandlersOf(t)
      BY <3>0, <3>a, <3>b, <3>1, <3>2 DEF HandlersOf
    <3>5. /\ h \notin CleanupsOf(s) /\ CleanupsOf(s)' = CleanupsOf(s) \cup {h}
          /\ \A t \in Sessions \ {s} : CleanupsOf(t)' = CleanupsOf(t)
      BY <3>0, <3>a, <3>b, <3>1, <3>2 DEF CleanupsOf
    <3>6. \A t \in Sessions : Cardinality(CleanupsOf(t)) \in Nat /\ Cardinality(HandlersOf(t)) \in Nat
      BY Counts DEF CleanupsOf, HandlersOf
    <3>7. CleanupsOf(s) \in SUBSET Handlers BY DEF CleanupsOf
    <3>8. Cardinality(CleanupsOf(s))' = Cardinality(CleanupsOf(s)) + 1
      BY <3>5, <3>7, Counts
    <3>9. \A t \in Sessions : One(Owned(t))' = One(Owned(t)) /\ One(Owned(t)) \in Nat
      BY <3>2 DEF One, Owned
    <3>10. refs'[s] = refs[s] + 1 /\ \A t \in Sessions \ {s} : refs'[t] = refs[t]
      BY <3>2, <3>3
    <3> SUFFICES ASSUME NEW t \in Sessions
                 PROVE  (refs[t] = One(Owned(t)) + Cardinality(HandlersOf(t)) + Cardinality(CleanupsOf(t)))'
      BY DEF SessionRefsExact
    <3>11. refs[t] = One(Owned(t)) + Cardinality(HandlersOf(t)) + Cardinality(CleanupsOf(t))
      BY DEF SessionRefsExact
    <3>12. CASE t = s
      BY <3>12, <3>11, <3>10, <3>9, <3>4, <3>6, <3>8, <3>2
    <3>13. CASE t # s
      BY <3>13, <3>11, <3>10, <3>9, <3>4, <3>5
    <3> QED BY <3>12, <3>13
  <2>8. CASE DropGraph(h)
    BY <2>8, UseFrame DEF DropGraph, UnrefGraph, Types, Shape, AllKinds, SameUsers, Owned
  <2>9. CASE CompleteEarly(h)
    BY <2>9, UseFrame DEF CompleteEarly, MarkRunCompletion, Types, Shape, AllKinds, SameUsers, Owned
  <2>10. CASE Extend(h)
    BY <2>10, UseFrame DEF Extend, Types, Shape, AllKinds, SameUsers, Owned
  <2>11. CASE MakeCallable(h)
    BY <2>11, UseFrame DEF MakeCallable, Graphs, Types, Shape, AllKinds, SameUsers, Owned
  <2>12. CASE InsertCallable(h)
    BY <2>12, UseFrame DEF InsertCallable, Types, Shape, AllKinds, SameUsers, Owned
  <2>13. ASSUME NEW result \in {"ok", "failed"}, RegisterDone(h, result) PROVE SessionRefsExact'
    BY <2>13, UseFrame DEF RegisterDone, Registered, Types, Shape, AllKinds, SameUsers, Owned
  <2>14. ASSUME NEW w \in Workers, IssueCall(h, w) PROVE SessionRefsExact'
    BY <2>14, UseFrame DEF IssueCall, Types, Shape, AllKinds, SameUsers, Owned
  <2>15. ASSUME NEW g \in Graphs, EnterRunCallable(h, g) PROVE SessionRefsExact'
    BY <2>15, UseFrame DEF EnterRunCallable, RefGraph, Types, Shape, AllKinds, SameUsers, Owned
  <2>16. ASSUME NEW g \in Graphs, ReleaseCallable(h, g) PROVE SessionRefsExact'
    BY <2>16, UseFrame DEF ReleaseCallable, Types, Shape, AllKinds, SameUsers, Owned
  <2>17. CASE Done(h)
    <3>0. PICK s \in Sessions : s = sess[h]
      BY <2>17 DEF Done, Shape
    <3>1. /\ pc[h] = "unref" /\ pc' = [pc EXCEPT ![h] = "idle"] /\ UNCHANGED cleanup
          /\ sess' = IF cleanup[h] = "none" THEN [sess EXCEPT ![h] = NoSession] ELSE sess
      BY <2>17 DEF Done, Release, RefSession, UnrefSession
    <3>2. s \in Sessions /\ UNCHANGED owner /\ refs' = [refs EXCEPT ![s] = @ - 1]
      BY <3>0, <2>17, <3>1 DEF Done, Shape, RefSession, UnrefSession
    <3>3. pc \in [Handlers -> HandlerStates] /\ cleanup \in [Handlers -> {"none", "rpc", "complete", "unref"}]
          /\ sess \in [Handlers -> Sessions \cup {NoSession}] /\ refs \in [Sessions -> Int]
      BY DEF Types
    <3>a. \A k \in Handlers \ {h} : pc'[k] = pc[k] /\ cleanup'[k] = cleanup[k] /\ sess'[k] = sess[k]
      BY <3>1, <3>3
    <3>b. pc'[h] = "idle" /\ cleanup'[h] = cleanup[h] /\ (cleanup[h] # "none" => sess'[h] = sess[h])
      BY <3>1, <3>3
    <3>4. \A t \in Sessions : CleanupsOf(t)' = CleanupsOf(t)
      BY <3>0, <3>a, <3>b, <3>1, <3>2 DEF CleanupsOf
    <3>5. /\ h \in HandlersOf(s) /\ HandlersOf(s)' = HandlersOf(s) \ {h}
          /\ \A t \in Sessions \ {s} : HandlersOf(t)' = HandlersOf(t)
      BY <3>0, <3>a, <3>b, <3>1, <3>2 DEF HandlersOf
    <3>6. \A t \in Sessions : Cardinality(HandlersOf(t)) \in Nat /\ Cardinality(CleanupsOf(t)) \in Nat
      BY Counts DEF HandlersOf, CleanupsOf
    <3>7. HandlersOf(s) \in SUBSET Handlers BY DEF HandlersOf
    <3>8. Cardinality(HandlersOf(s))' = Cardinality(HandlersOf(s)) - 1
      BY <3>5, <3>7, Counts
    <3>9. \A t \in Sessions : One(Owned(t))' = One(Owned(t)) /\ One(Owned(t)) \in Nat
      BY <3>2 DEF One, Owned
    <3>10. refs'[s] = refs[s] - 1 /\ \A t \in Sessions \ {s} : refs'[t] = refs[t]
      BY <3>2, <3>3
    <3> SUFFICES ASSUME NEW t \in Sessions
                 PROVE  (refs[t] = One(Owned(t)) + Cardinality(HandlersOf(t)) + Cardinality(CleanupsOf(t)))'
      BY DEF SessionRefsExact
    <3>11. refs[t] = One(Owned(t)) + Cardinality(HandlersOf(t)) + Cardinality(CleanupsOf(t))
      BY DEF SessionRefsExact
    <3>12. CASE t = s
      BY <3>12, <3>11, <3>10, <3>9, <3>4, <3>6, <3>8, <3>2
    <3>13. CASE t # s
      BY <3>13, <3>11, <3>10, <3>9, <3>4, <3>5
    <3> QED BY <3>12, <3>13
  <2>18. CASE FillPerStepState(h)
    BY <2>18, UseFrame DEF FillPerStepState, SetRPCLogging, Types, Shape, AllKinds, SameUsers, Owned
  <2>19. CASE ProcessStats(h)
    BY <2>19, UseFrame DEF ProcessStats, SetRPCLogging, Types, Shape, AllKinds, SameUsers, Owned
  <2> QED BY <1>1, <2>1, <2>2, <2>3, <2>4, <2>5, <2>6, <2>7, <2>8, <2>9, <2>10, <2>11, <2>12, <2>13,
             <2>14, <2>15, <2>16, <2>17, <2>18, <2>19 DEF HandlerStep
<1>2. ASSUME NEW h \in Handlers, CleanupStep(h) PROVE SessionRefsExact'
  <2>1. CASE CleanupDone(h)
    BY <2>1, UseFrame DEF CleanupDone, UnrefGraph, Types, Shape, AllKinds, SameUsers, Owned
  <2>2. CASE CleanupComplete(h)
    BY <2>2, UseFrame DEF CleanupComplete, MarkRunCompletion, Types, Shape, AllKinds, SameUsers, Owned
  <2>3. CASE CleanupUnref(h)
    <3>0. PICK s \in Sessions : s = sess[h]
      BY <2>3 DEF CleanupUnref, Shape
    <3>1. /\ cleanup[h] = "unref" /\ cleanup' = [cleanup EXCEPT ![h] = "none"] /\ UNCHANGED pc
          /\ sess' = IF pc[h] = "idle" THEN [sess EXCEPT ![h] = NoSession] ELSE sess
      BY <2>3 DEF CleanupUnref, Release, RefSession, UnrefSession
    <3>2. s \in Sessions /\ UNCHANGED owner /\ refs' = [refs EXCEPT ![s] = @ - 1]
      BY <3>0, <2>3, <3>1 DEF CleanupUnref, Shape, RefSession, UnrefSession
    <3>3. pc \in [Handlers -> HandlerStates] /\ cleanup \in [Handlers -> {"none", "rpc", "complete", "unref"}]
          /\ sess \in [Handlers -> Sessions \cup {NoSession}] /\ refs \in [Sessions -> Int]
      BY DEF Types
    <3>a. \A k \in Handlers \ {h} : pc'[k] = pc[k] /\ cleanup'[k] = cleanup[k] /\ sess'[k] = sess[k]
      BY <3>1, <3>3
    <3>b. pc'[h] = pc[h] /\ cleanup'[h] = "none" /\ (pc[h] # "idle" => sess'[h] = sess[h])
      BY <3>1, <3>3
    <3>4. \A t \in Sessions : HandlersOf(t)' = HandlersOf(t)
      BY <3>0, <3>a, <3>b, <3>1, <3>2 DEF HandlersOf
    <3>5. /\ h \in CleanupsOf(s) /\ CleanupsOf(s)' = CleanupsOf(s) \ {h}
          /\ \A t \in Sessions \ {s} : CleanupsOf(t)' = CleanupsOf(t)
      BY <3>0, <3>a, <3>b, <3>1, <3>2 DEF CleanupsOf
    <3>6. \A t \in Sessions : Cardinality(CleanupsOf(t)) \in Nat /\ Cardinality(HandlersOf(t)) \in Nat
      BY Counts DEF CleanupsOf, HandlersOf
    <3>7. CleanupsOf(s) \in SUBSET Handlers BY DEF CleanupsOf
    <3>8. Cardinality(CleanupsOf(s))' = Cardinality(CleanupsOf(s)) - 1
      BY <3>5, <3>7, Counts
    <3>9. \A t \in Sessions : One(Owned(t))' = One(Owned(t)) /\ One(Owned(t)) \in Nat
      BY <3>2 DEF One, Owned
    <3>10. refs'[s] = refs[s] - 1 /\ \A t \in Sessions \ {s} : refs'[t] = refs[t]
      BY <3>2, <3>3
    <3> SUFFICES ASSUME NEW t \in Sessions
                 PROVE  (refs[t] = One(Owned(t)) + Cardinality(HandlersOf(t)) + Cardinality(CleanupsOf(t)))'
      BY DEF SessionRefsExact
    <3>11. refs[t] = One(Owned(t)) + Cardinality(HandlersOf(t)) + Cardinality(CleanupsOf(t))
      BY DEF SessionRefsExact
    <3>12. CASE t = s
      BY <3>12, <3>11, <3>10, <3>9, <3>4, <3>6, <3>8, <3>2
    <3>13. CASE t # s
      BY <3>13, <3>11, <3>10, <3>9, <3>4, <3>5
    <3> QED BY <3>12, <3>13
  <2> QED BY <1>2, <2>1, <2>2, <2>3 DEF CleanupStep
<1>3. ASSUME NEW s \in Sessions, OwnerStep(s) PROVE SessionRefsExact'
  <2>1. CASE CreateSession(s)
    BY <2>1, UseFrame DEF CreateSession, Pass, Types, Shape, AllKinds, SameUsers, Owned
  <2>2. CASE ResetNext(s)
    BY <2>2, UseFrame DEF ResetNext, Pass, Types, Shape, AllKinds, SameUsers, Owned
  <2>3. CASE CloseSection(s)
    BY <2>3, UseFrame DEF CloseSection, Pass, Types, Shape, AllKinds, SameUsers, Owned
  <2>4. CASE CancelSteps(s)
    BY <2>4, UseFrame DEF CancelSteps, StartCancel, ReportBadStatus, ReportedCalls, ReportedStatus,
       GroupUpdate, Told, Pass, Types, Shape, AllKinds, SameUsers, Owned
  <2>5. CASE DrainSession(s)
    BY <2>5, UseFrame DEF DrainSession, Pass, Types, Shape, AllKinds, SameUsers, Owned
  <2>6. CASE ClearGraphs(s)
    BY <2>6, UseFrame DEF ClearGraphs, Pass, Types, Shape, AllKinds, SameUsers, Owned
  <2>7. CASE OwnerUnref(s)
    <3>1. /\ UNCHANGED <<pc, cleanup, sess>> /\ refs' = [refs EXCEPT ![s] = @ - 1]
          /\ \/ owner[s] = "closed" /\ owner' = [owner EXCEPT ![s] = "done"]
             \/ owner[s] = "unref" /\ owner' = [owner EXCEPT ![s] = "lapsed"]
      BY <2>7 DEF OwnerUnref, UnrefSession, Pass
    <3>2. \A t \in Sessions : HandlersOf(t)' = HandlersOf(t) /\ CleanupsOf(t)' = CleanupsOf(t)
      BY <3>1 DEF HandlersOf, CleanupsOf
    <3>3. \A t \in Sessions : Cardinality(HandlersOf(t)) \in Nat /\ Cardinality(CleanupsOf(t)) \in Nat
      BY Counts DEF HandlersOf, CleanupsOf
    <3>4. Owned(s) /\ ~Owned(s)' /\ \A t \in Sessions \ {s} : Owned(t)' <=> Owned(t)
      BY <3>1 DEF Owned, Types
    <3> QED BY <3>1, <3>2, <3>3, <3>4 DEF SessionRefsExact, One, Types
  <2> QED BY <1>3, <2>1, <2>2, <2>3, <2>4, <2>5, <2>6, <2>7 DEF OwnerStep
<1>4. ASSUME NEW h \in Handlers, NEW w \in Workers, WhenDone(h, w) PROVE SessionRefsExact'
    BY <1>4, UseFrame DEF WhenDone, ReportedCalls, ReportedStatus, GroupUpdate, Told, Types, Shape,
       AllKinds, SameUsers, Owned
<1>5. ASSUME NEW h \in Handlers, ClientCancel(h) PROVE SessionRefsExact'
    BY <1>5, UseFrame DEF ClientCancel, ReportBadStatus, ReportedCalls, ReportedStatus, GroupUpdate,
       Told, Types, Shape, AllKinds, SameUsers, Owned
<1>6. ASSUME NEW h \in Handlers, NEW s \in Sessions, NEW op \in RequestKinds, FindMasterSession(h, s, op)
      PROVE  SessionRefsExact'
    <3>1. pc[h] = "idle" /\ cleanup[h] = "none" /\ pc' = [pc EXCEPT ![h] = op] /\ op # "idle"
          /\ sess' = [sess EXCEPT ![h] = s] /\ UNCHANGED cleanup
      BY <1>6 DEF FindMasterSession, AllKinds, Release, RefSession, UnrefSession
    <3>2. s \in Sessions /\ UNCHANGED owner /\ refs' = [refs EXCEPT ![s] = @ + 1]
      BY <1>6, <3>1 DEF FindMasterSession, Shape, RefSession, UnrefSession
    <3>3. pc \in [Handlers -> HandlerStates] /\ cleanup \in [Handlers -> {"none", "rpc", "complete", "unref"}]
          /\ sess \in [Handlers -> Sessions \cup {NoSession}] /\ refs \in [Sessions -> Int]
      BY DEF Types
    <3>a. \A k \in Handlers \ {h} : pc'[k] = pc[k] /\ cleanup'[k] = cleanup[k] /\ sess'[k] = sess[k]
      BY <3>1, <3>3
    <3>b. pc'[h] = op /\ sess'[h] = s /\ cleanup'[h] = "none"
      BY <3>1, <3>3
    <3>4. \A t \in Sessions : CleanupsOf(t)' = CleanupsOf(t)
      BY <3>a, <3>b, <3>1, <3>2 DEF CleanupsOf
    <3>5. /\ h \notin HandlersOf(s) /\ HandlersOf(s)' = HandlersOf(s) \cup {h}
          /\ \A t \in Sessions \ {s} : HandlersOf(t)' = HandlersOf(t)
      BY <3>a, <3>b, <3>1, <3>2 DEF HandlersOf
    <3>6. \A t \in Sessions : Cardinality(HandlersOf(t)) \in Nat /\ Cardinality(CleanupsOf(t)) \in Nat
      BY Counts DEF HandlersOf, CleanupsOf
    <3>7. HandlersOf(s) \in SUBSET Handlers BY DEF HandlersOf
    <3>8. Cardinality(HandlersOf(s))' = Cardinality(HandlersOf(s)) + 1
      BY <3>5, <3>7, Counts
    <3>9. \A t \in Sessions : One(Owned(t))' = One(Owned(t)) /\ One(Owned(t)) \in Nat
      BY <3>2 DEF One, Owned
    <3>10. refs'[s] = refs[s] + 1 /\ \A t \in Sessions \ {s} : refs'[t] = refs[t]
      BY <3>2, <3>3
    <3> SUFFICES ASSUME NEW t \in Sessions
                 PROVE  (refs[t] = One(Owned(t)) + Cardinality(HandlersOf(t)) + Cardinality(CleanupsOf(t)))'
      BY DEF SessionRefsExact
    <3>11. refs[t] = One(Owned(t)) + Cardinality(HandlersOf(t)) + Cardinality(CleanupsOf(t))
      BY DEF SessionRefsExact
    <3>12. CASE t = s
      BY <3>12, <3>11, <3>10, <3>9, <3>4, <3>6, <3>8, <3>2
    <3>13. CASE t # s
      BY <3>13, <3>11, <3>10, <3>9, <3>4, <3>5
    <3> QED BY <3>12, <3>13
<1>7. ASSUME NEW s \in Sessions, NewSession(s) PROVE SessionRefsExact'
    <3>1. UNCHANGED <<pc, cleanup, sess>> /\ owner[s] = "unborn" /\ owner' = [owner EXCEPT ![s] = "creating"]
          /\ refs' = [refs EXCEPT ![s] = 1]
      BY <1>7 DEF NewSession, Pass
    <3>2. \A t \in Sessions : HandlersOf(t)' = HandlersOf(t) /\ CleanupsOf(t)' = CleanupsOf(t)
      BY <3>1 DEF HandlersOf, CleanupsOf
    <3>3. HandlersOf(s) = {} /\ CleanupsOf(s) = {}
      BY <3>1 DEF Born, HandlersOf, CleanupsOf
    <3>4. Cardinality(HandlersOf(s)) = 0 /\ Cardinality(CleanupsOf(s)) = 0
      BY <3>3, FS_EmptySet
    <3>5. Owned(s)' /\ \A t \in Sessions \ {s} : Owned(t)' <=> Owned(t)
      BY <3>1 DEF Owned, Types
    <3> QED BY <3>1, <3>2, <3>4, <3>5 DEF SessionRefsExact, One, Types
<1>8. ASSUME NEW s \in Sessions, CloseSession(s) PROVE SessionRefsExact'
    BY <1>8, UseFrame DEF CloseSession, Pass, Types, Shape, AllKinds, SameUsers, Owned
<1>9. ASSUME NEW s \in Sessions, GC(s) PROVE SessionRefsExact'
    BY <1>9, UseFrame DEF GC, Pass, Types, Shape, AllKinds, SameUsers, Owned
<1>10. CASE Reset
    BY <1>10, UseFrame DEF Reset, sessions_, Types, Shape, AllKinds, SameUsers, Owned
<1>11. CASE UNCHANGED mVars
    BY <1>11, UseFrame DEF mVars, msVars, Types, Shape, AllKinds, SameUsers, Owned
<1>12. ASSUME NEW g \in Graphs, LoggingDone(g) PROVE SessionRefsExact'
    BY <1>12, UseFrame DEF LoggingDone, UnrefGraph, Types, Shape, AllKinds, SameUsers, Owned
<1>13. ASSUME NEW s \in Sessions, CleanupWorkers(s) PROVE SessionRefsExact'
    BY <1>13, UseFrame DEF CleanupWorkers, Types, Shape, AllKinds, SameUsers, Owned
<1> QED BY <1>1, <1>2, <1>3, <1>4, <1>5, <1>6, <1>7, <1>8, <1>9, <1>10, <1>11, <1>12, <1>13
        DEF MNext, MStep, Living, WorkerAnswers, ClientLeaves, LoggingAnswered

\* Whoever uses a session finds it alive.
LEMMA Alive ==
  ASSUME Types, SessionRefsExact
  PROVE  /\ \A s \in Sessions : refs[s] \in Nat /\ (Owned(s) => refs[s] > 0)
         /\ \A h \in Handlers : (pc[h] # "idle" \/ cleanup[h] # "none") /\ sess[h] \in Sessions => refs[sess[h]] > 0
<1>1. \A s \in Sessions : /\ Cardinality(HandlersOf(s)) \in Nat /\ Cardinality(CleanupsOf(s)) \in Nat
                          /\ HandlersOf(s) # {} => Cardinality(HandlersOf(s)) # 0
                          /\ CleanupsOf(s) # {} => Cardinality(CleanupsOf(s)) # 0
  BY Counts DEF HandlersOf, CleanupsOf
<1>2. \A s \in Sessions : One(Owned(s)) \in Nat /\ (Owned(s) => One(Owned(s)) = 1)
  BY DEF One
<1>3. \A s \in Sessions : refs[s] = One(Owned(s)) + Cardinality(HandlersOf(s)) + Cardinality(CleanupsOf(s))
  BY DEF SessionRefsExact
<1>4. ASSUME NEW h \in Handlers, pc[h] # "idle" \/ cleanup[h] # "none", sess[h] \in Sessions
      PROVE  HandlersOf(sess[h]) # {} \/ CleanupsOf(sess[h]) # {}
  BY <1>4 DEF HandlersOf, CleanupsOf
<1> QED BY <1>1, <1>2, <1>3, <1>4

\* The same, as a formula that can be primed.
UsersAlive ==
  /\ \A s \in Sessions : refs[s] \in Nat /\ (Owned(s) => refs[s] > 0)
  /\ \A h \in Handlers : (pc[h] # "idle" \/ cleanup[h] # "none") /\ sess[h] \in Sessions => refs[sess[h]] > 0

\* It holds in the next state as well.
LEMMA AliveNext == (Types /\ SessionRefsExact)' => UsersAlive'
<1>1. Types /\ SessionRefsExact => UsersAlive BY Alive DEF UsersAlive
<1> QED BY <1>1, PTL

\* No step is left when Close has passed its wait.
Drained == \A h \in Handlers : InStep(h) => owner[sess[h]] \notin {"clear", "closed", "done"}

\* Every step keeps drained sessions free of steps.
LEMMA DrainedStep ==
  ASSUME Types, Shape, OwnerShape, RunningExact, Drained, MNext \/ UNCHANGED mVars
  PROVE  Drained'
<1>1. \A s \in Sessions : numRunning[s] = 0 => \A h \in Handlers : InStep(h) => sess[h] # s
  <2>1. \A s \in Sessions : numRunning[s] = 0 => StepsOf(s) = {}
    BY Counts DEF RunningExact, StepsOf
  <2> QED BY <2>1 DEF StepsOf
<1>2. \A h \in Handlers : InStep(h) => sess[h] \in Sessions
  BY DEF InStep, Shape
<1>3. \A s \in Sessions : owner'[s] \in {"clear", "closed", "done"} =>
        owner[s] \in {"clear", "closed", "done"} \/ numRunning[s] = 0
  <2> DEFINE Goal == \A s \in Sessions : owner'[s] \in {"clear", "closed", "done"} =>
                       owner[s] \in {"clear", "closed", "done"} \/ numRunning[s] = 0
  <2>1. ASSUME NEW h \in Handlers, HandlerStep(h) PROVE UNCHANGED owner
    BY <2>1 DEF HandlerStep, EnterRun, StartStep, RegisterPartitions, FillPerStepState, RejectFeeds,
                Subscribe, Waited, ProcessStats, PostRunCleanup, DropGraph, CompleteEarly, Extend, MakeCallable, InsertCallable, RegisterDone, IssueCall,
                EnterRunCallable, ReleaseCallable, Done, ownerVars
  <2>2. ASSUME NEW h \in Handlers, CleanupStep(h) PROVE UNCHANGED owner
    BY <2>2 DEF CleanupStep, CleanupDone, CleanupComplete, CleanupUnref, ownerVars
  <2>3. ASSUME NEW s \in Sessions, OwnerStep(s) PROVE Goal
    BY <2>3 DEF OwnerStep, CreateSession, ResetNext, CloseSection, CancelSteps, DrainSession,
       ClearGraphs, OwnerUnref, Pass, Types
  <2>4. ASSUME NEW h \in Handlers, ClientLeaves(h) \/ \E w \in Workers : WorkerAnswers(h, w)
        PROVE  UNCHANGED owner
    BY <2>4 DEF ClientLeaves, ClientCancel, WorkerAnswers, WhenDone, ownerVars
  <2>5. ASSUME NEW h \in Handlers, NEW s \in Sessions, NEW op \in RequestKinds, FindMasterSession(h, s, op)
        PROVE  UNCHANGED owner
    BY <2>5 DEF FindMasterSession, ownerVars
  <2>6. ASSUME NEW s \in Sessions, NewSession(s) \/ CloseSession(s) \/ GC(s) PROVE Goal
    BY <2>6 DEF NewSession, CloseSession, GC, Pass, Types
  <2>7. CASE Reset
    BY <2>7 DEF Reset, sessions_, Types
  <2>8. CASE UNCHANGED mVars
    BY <2>8 DEF mVars, msVars, ownerVars
  <2>9. ASSUME NEW g \in Graphs, LoggingAnswered(g) PROVE UNCHANGED owner
    BY <2>9 DEF LoggingAnswered, LoggingDone, ownerVars
  <2>10. ASSUME NEW s \in Sessions, CleanupWorkers(s) PROVE Goal
    BY <2>10 DEF CleanupWorkers, Types
  <2> QED BY <2>1, <2>2, <2>3, <2>4, <2>5, <2>6, <2>7, <2>8, <2>9, <2>10 DEF MNext, MStep, Living
<1>4. CASE SameSteps
  BY <1>1, <1>2, <1>3, <1>4 DEF SameSteps, Drained
<1>5. ASSUME NEW k \in Handlers, Begins(k) \/ Ends(k) PROVE Drained'
  <2>1. UNCHANGED <<owner, sess>> /\ \A h \in Handlers \ {k} : InStep(h)' <=> InStep(h)
    BY <1>5 DEF Begins, Ends
  <2>2. InStep(k)' => sess[k] \in Sessions /\ ~closed[sess[k]]
    BY <1>5 DEF Begins, Ends
  <2> QED BY <2>1, <2>2 DEF Drained, OwnerShape
<1> QED BY <1>4, <1>5, StepEffect

\* A graph in hand was built.
InHand == \A h \in Handlers : pc[h] \in HoldsGraph \/ cleanup[h] = "rpc" => reg[graph[h]] # "unbuilt"

\* MakeCallable has a graph that nobody else has.
Making(h) == pc[h] \in {"register", "registering", "insert"} /\ graph[h] # RunGraph(sess[h])

\* Where the graph g can be kept.
GraphShapeOf(g) ==
  /\ g \in runGraphs => g = RunGraph(g[1]) /\ refs[g[1]] # 0
  /\ g \in callables => g # RunGraph(g[1])
  /\ g \in toUnref[g[1]] => owner[g[1]] = "clear" /\ g \notin runGraphs \cup callables
  /\ reg[g] = "unbuilt" => ~Kept(g) /\ logging[g] = 0
  /\ reg[g] # "unbuilt" => owner[g[1]] # "unborn"
  /\ g = RunGraph(g[1]) /\ reg[g] # "unbuilt" /\ refs[g[1]] # 0
       /\ owner[g[1]] \notin {"clear", "closed", "done"} => g \in runGraphs
  /\ g \in callables /\ owner[g[1]] \in {"clear", "closed", "done"} => g \in late

\* So for every graph.
GraphShape ==
  /\ \A g \in Graphs : GraphShapeOf(g)
  /\ \A s \in Sessions : \A g \in toUnref[s] : g[1] = s

\* No handler has a graph that another one is making.
MakersAlone ==
  \A h \in Handlers : Making(h) =>
    /\ ~Kept(graph[h])
    /\ \A k \in Handlers : Making(k) /\ graph[k] = graph[h] => k = h

\* A graph is a pair of its session and its number.
LEMMA GraphPairs ==
  /\ \A g \in Graphs : g[1] \in Sessions /\ RunGraph(g[1]) \in Graphs
  /\ \A s \in Sessions : RunGraph(s) \in Graphs /\ RunGraph(s)[1] = s
BY MasterSessionAssumption DEF Graphs, RunGraph

\* What the actions do that put a graph in a handler's hand.
LEMMA Takes ==
  ASSUME Types, Shape, NEW h \in Handlers
  PROVE  /\ StartStep(h) =>
              /\ pc[h] = "startStep" /\ cleanup[h] = "none" /\ sess[h] \in Sessions /\ RunGraph(sess[h]) \in Graphs
              /\ UNCHANGED <<sess, cleanup, refs, owner, logging, callables, late, toUnref>>
              /\ \/ /\ pc' = [pc EXCEPT ![h] = "register"] /\ graph' = [graph EXCEPT ![h] = RunGraph(sess[h])]
                    /\ \/ /\ RunGraph(sess[h]) \in runGraphs /\ UNCHANGED <<runGraphs, reg>>
                          /\ graphRefs' = [graphRefs EXCEPT ![RunGraph(sess[h])] = @ + 1]
                       \/ /\ RunGraph(sess[h]) \notin runGraphs /\ runGraphs' = runGraphs \cup {RunGraph(sess[h])}
                          /\ reg' = [reg EXCEPT ![RunGraph(sess[h])] = "built"]
                          /\ graphRefs' = [graphRefs EXCEPT ![RunGraph(sess[h])] = 2]
                 \/ pc' = [pc EXCEPT ![h] = "complete"] /\ UNCHANGED <<runGraphs, reg, graph, graphRefs>>
         /\ MakeCallable(h) =>
              /\ pc[h] = "MakeCallable" /\ cleanup[h] = "none" /\ sess[h] \in Sessions
              /\ UNCHANGED <<sess, cleanup, refs, owner, logging, runGraphs, callables, late, toUnref>>
              /\ \/ pc' = [pc EXCEPT ![h] = "unref"] /\ UNCHANGED <<reg, graph, graphRefs>>
                 \/ /\ pc' = [pc EXCEPT ![h] = "register"]
                    /\ \E g \in Graphs : /\ g[1] = sess[h] /\ g # RunGraph(sess[h]) /\ reg[g] = "unbuilt"
                                         /\ reg' = [reg EXCEPT ![g] = "built"]
                                         /\ graphRefs' = [graphRefs EXCEPT ![g] = 1]
                                         /\ graph' = [graph EXCEPT ![h] = g]
         /\ \A g \in Graphs : EnterRunCallable(h, g) =>
              /\ pc[h] = "RunCallable" /\ cleanup[h] = "none" /\ sess[h] \in Sessions /\ g[1] = sess[h]
              /\ UNCHANGED <<sess, cleanup, refs, owner, logging, runGraphs, callables, late, toUnref, reg>>
              /\ \/ pc' = [pc EXCEPT ![h] = "unref"] /\ UNCHANGED <<graph, graphRefs>>
                 \/ /\ pc' = [pc EXCEPT ![h] = "fill"] /\ graph' = [graph EXCEPT ![h] = g] /\ g \in callables
                    /\ graphRefs' = [graphRefs EXCEPT ![g] = @ + 1]
         /\ \A g \in Graphs : ReleaseCallable(h, g) =>
              /\ pc[h] = "ReleaseCallable" /\ cleanup[h] = "none" /\ sess[h] \in Sessions /\ g[1] = sess[h]
              /\ UNCHANGED <<sess, cleanup, refs, owner, logging, runGraphs, late, toUnref, reg, graphRefs>>
              /\ callables' = callables \ {g}
              /\ \/ pc' = [pc EXCEPT ![h] = "unref"] /\ UNCHANGED graph /\ g \notin callables
                 \/ pc' = [pc EXCEPT ![h] = "drop"] /\ graph' = [graph EXCEPT ![h] = g] /\ g \in callables
<1>1. ASSUME pc[h] \in {"startStep", "MakeCallable", "RunCallable", "ReleaseCallable"}
      PROVE  cleanup[h] = "none" /\ sess[h] \in Sessions
  BY <1>1 DEF Shape
<1>2. ASSUME StartStep(h)
      PROVE  /\ pc[h] = "startStep" /\ cleanup[h] = "none" /\ sess[h] \in Sessions /\ RunGraph(sess[h]) \in Graphs
             /\ UNCHANGED <<sess, cleanup, refs, owner, logging, callables, late, toUnref>>
             /\ \/ /\ pc' = [pc EXCEPT ![h] = "register"] /\ graph' = [graph EXCEPT ![h] = RunGraph(sess[h])]
                   /\ \/ /\ RunGraph(sess[h]) \in runGraphs /\ UNCHANGED <<runGraphs, reg>>
                         /\ graphRefs' = [graphRefs EXCEPT ![RunGraph(sess[h])] = @ + 1]
                      \/ /\ RunGraph(sess[h]) \notin runGraphs /\ runGraphs' = runGraphs \cup {RunGraph(sess[h])}
                         /\ reg' = [reg EXCEPT ![RunGraph(sess[h])] = "built"]
                         /\ graphRefs' = [graphRefs EXCEPT ![RunGraph(sess[h])] = 2]
                \/ pc' = [pc EXCEPT ![h] = "complete"] /\ UNCHANGED <<runGraphs, reg, graph, graphRefs>>
  <2>1. pc[h] = "startStep" BY <1>2 DEF StartStep, At
  <2>2. sess[h] \in Sessions /\ cleanup[h] = "none" /\ RunGraph(sess[h]) \in Graphs
    BY <2>1, <1>1, GraphPairs
  <2>3. UNCHANGED <<sess, cleanup, refs, owner, logging, callables, late, toUnref>>
    BY <1>2 DEF StartStep, ownerVars
  <2> QED BY <1>2, <2>1, <2>2, <2>3 DEF StartStep, Go, RefGraph, graphVars
<1>3. ASSUME MakeCallable(h)
      PROVE  /\ pc[h] = "MakeCallable" /\ cleanup[h] = "none" /\ sess[h] \in Sessions
             /\ UNCHANGED <<sess, cleanup, refs, owner, logging, runGraphs, callables, late, toUnref>>
             /\ \/ pc' = [pc EXCEPT ![h] = "unref"] /\ UNCHANGED <<reg, graph, graphRefs>>
                \/ /\ pc' = [pc EXCEPT ![h] = "register"]
                   /\ \E g \in Graphs : /\ g[1] = sess[h] /\ g # RunGraph(sess[h]) /\ reg[g] = "unbuilt"
                                        /\ reg' = [reg EXCEPT ![g] = "built"]
                                        /\ graphRefs' = [graphRefs EXCEPT ![g] = 1]
                                        /\ graph' = [graph EXCEPT ![h] = g]
  <2>1. pc[h] = "MakeCallable" BY <1>3 DEF MakeCallable, At
  <2>2. sess[h] \in Sessions /\ cleanup[h] = "none" BY <2>1, <1>1
  <2>3. UNCHANGED <<sess, cleanup, refs, owner, logging, runGraphs, callables, late, toUnref>>
    BY <1>3 DEF MakeCallable, ownerVars, sessionVars
  <2>4. \A k \in 1 .. MaxCallables : /\ <<sess[h], k>> \in Graphs /\ <<sess[h], k>>[1] = sess[h]
                                     /\ <<sess[h], k>> # RunGraph(sess[h])
    BY <2>2, MasterSessionAssumption DEF Graphs, RunGraph
  <2> QED BY <1>3, <2>1, <2>2, <2>3, <2>4 DEF MakeCallable, Go, graphVars
<1>4. ASSUME NEW g \in Graphs, EnterRunCallable(h, g)
      PROVE  /\ pc[h] = "RunCallable" /\ cleanup[h] = "none" /\ sess[h] \in Sessions /\ g[1] = sess[h]
             /\ UNCHANGED <<sess, cleanup, refs, owner, logging, runGraphs, callables, late, toUnref, reg>>
             /\ \/ pc' = [pc EXCEPT ![h] = "unref"] /\ UNCHANGED <<graph, graphRefs>>
                \/ /\ pc' = [pc EXCEPT ![h] = "fill"] /\ graph' = [graph EXCEPT ![h] = g] /\ g \in callables
                   /\ graphRefs' = [graphRefs EXCEPT ![g] = @ + 1]
  <2>1. pc[h] = "RunCallable" BY <1>4 DEF EnterRunCallable, At
  <2>2. sess[h] \in Sessions /\ cleanup[h] = "none" BY <2>1, <1>1
  <2> QED BY <1>4, <2>1, <2>2 DEF EnterRunCallable, Go, RefGraph, ownerVars
<1>5. ASSUME NEW g \in Graphs, ReleaseCallable(h, g)
      PROVE  /\ pc[h] = "ReleaseCallable" /\ cleanup[h] = "none" /\ sess[h] \in Sessions /\ g[1] = sess[h]
             /\ UNCHANGED <<sess, cleanup, refs, owner, logging, runGraphs, late, toUnref, reg, graphRefs>>
             /\ callables' = callables \ {g}
             /\ \/ pc' = [pc EXCEPT ![h] = "unref"] /\ UNCHANGED graph /\ g \notin callables
                \/ pc' = [pc EXCEPT ![h] = "drop"] /\ graph' = [graph EXCEPT ![h] = g] /\ g \in callables
  <2>1. pc[h] = "ReleaseCallable" BY <1>5 DEF ReleaseCallable, At
  <2>2. sess[h] \in Sessions /\ cleanup[h] = "none" BY <2>1, <1>1
  <2> QED BY <1>5, <2>1, <2>2 DEF ReleaseCallable, Go, ownerVars, graphVars
<1> QED BY <1>2, <1>3, <1>4, <1>5

\* UnrefSession, with the destructor.
LEMMA Unrefs ==
  ASSUME Types, GraphShape, NEW s \in Sessions, UnrefSession(s)
  PROVE  /\ refs' = [refs EXCEPT ![s] = @ - 1]
         /\ \/ /\ refs[s] = 1 /\ RunGraph(s) \in runGraphs
               /\ runGraphs' = runGraphs \ {RunGraph(s)}
               /\ graphRefs' = [graphRefs EXCEPT ![RunGraph(s)] = @ - 1]
            \/ ~(refs[s] = 1 /\ RunGraph(s) \in runGraphs) /\ UNCHANGED <<runGraphs, graphRefs>>
BY DEF UnrefSession

\* Every step keeps the graphs in hand built.
LEMMA InHandStep ==
  ASSUME Types, Shape, GraphShape, InHand, MNext \/ UNCHANGED mVars
  PROVE  InHand'
<1> USE MasterAssumption DEF At, Go, sessionVars, graphVars, stepVars, handlerVars, ownerVars
<1>1. ASSUME NEW h \in Handlers, HandlerStep(h) PROVE InHand'
  <2>1. CASE EnterRun(h)
    BY <2>1, GraphPairs DEF EnterRun, Types, Shape, InHand, HoldsGraph, AllKinds
  <2>2. CASE StartStep(h)
    <3>1. pc \in [Handlers -> HandlerStates] /\ graph \in [Handlers -> Graphs \cup {NoGraph}]
          /\ reg \in [Graphs -> {"unbuilt", "built", "registering", "ok", "failed"}]
      BY DEF Types
    <3>2. \A g1 \in runGraphs \cup callables : g1 \in Graphs /\ reg[g1] # "unbuilt"
      BY DEF Types, GraphShape, GraphShapeOf, Kept
    <3>3. cleanup[h] = "none" /\ UNCHANGED cleanup /\ RunGraph(sess[h]) \in Graphs
          /\ \/ /\ pc' = [pc EXCEPT ![h] = "register"] /\ graph' = [graph EXCEPT ![h] = RunGraph(sess[h])]
                /\ \/ RunGraph(sess[h]) \in runGraphs /\ UNCHANGED reg
                   \/ reg' = [reg EXCEPT ![RunGraph(sess[h])] = "built"]
             \/ pc' = [pc EXCEPT ![h] = "complete"] /\ UNCHANGED <<reg, graph>>
      BY <2>2, Takes
    <3>4. \A k \in Handlers \ {h} : pc'[k] = pc[k] /\ graph'[k] = graph[k] /\ cleanup'[k] = cleanup[k]
      BY <3>1, <3>3
    <3>5. \A g1 \in Graphs : reg[g1] # "unbuilt" => reg'[g1] # "unbuilt"
      BY <3>1, <3>3
    <3>6. \A k \in Handlers : pc[k] \in HoldsGraph \/ cleanup[k] = "rpc" => graph[k] \in Graphs
      BY DEF Shape
    <3>7. pc'[h] \in HoldsGraph \/ cleanup'[h] = "rpc" => reg'[graph'[h]] # "unbuilt"
      BY <3>1, <3>2, <3>3 DEF HoldsGraph
    <3> QED BY <3>4, <3>5, <3>6, <3>7 DEF InHand
  <2>3. CASE RegisterPartitions(h)
    <3>1. reg \in [Graphs -> {"unbuilt", "built", "registering", "ok", "failed"}] BY DEF Types
    <3>2. UNCHANGED <<graph, cleanup>> /\ pc[h] \in HoldsGraph
      BY <2>3 DEF RegisterPartitions, HoldsGraph
    <3>3. \A g1 \in Graphs : reg[g1] # "unbuilt" => reg'[g1] # "unbuilt"
      BY <2>3, <3>1 DEF RegisterPartitions
    <3>4. \A k \in Handlers : pc'[k] \in HoldsGraph => pc[k] \in HoldsGraph
      BY <2>3, <3>2 DEF RegisterPartitions, Types
    <3> QED BY <3>2, <3>3, <3>4 DEF InHand, Shape
  <2>4. CASE RejectFeeds(h)
    BY <2>4, GraphPairs DEF RejectFeeds, Types, Shape, InHand, HoldsGraph, AllKinds
  <2>5. CASE Subscribe(h)
    BY <2>5, GraphPairs DEF Subscribe, ReportBadStatus, ReportedCalls, ReportedStatus, GroupUpdate,
       Told, Types, Shape, InHand, HoldsGraph, AllKinds
  <2>6. CASE Waited(h)
    BY <2>6, GraphPairs DEF Waited, Types, Shape, InHand, HoldsGraph, AllKinds
  <2>7. CASE PostRunCleanup(h)
    BY <2>7, GraphPairs DEF PostRunCleanup, RefSession, RefGraph, Verdict, Types, Shape, InHand,
       HoldsGraph, AllKinds
  <2>8. CASE DropGraph(h)
    BY <2>8, GraphPairs DEF DropGraph, UnrefGraph, Types, Shape, InHand, HoldsGraph, AllKinds
  <2>9. CASE CompleteEarly(h)
    BY <2>9, GraphPairs DEF CompleteEarly, MarkRunCompletion, Types, Shape, InHand, HoldsGraph, AllKinds
  <2>10. CASE Extend(h)
    BY <2>10, GraphPairs DEF Extend, Types, Shape, InHand, HoldsGraph, AllKinds
  <2>11. CASE MakeCallable(h)
    <3>1. pc \in [Handlers -> HandlerStates] /\ graph \in [Handlers -> Graphs \cup {NoGraph}]
          /\ reg \in [Graphs -> {"unbuilt", "built", "registering", "ok", "failed"}]
      BY DEF Types
    <3>2. \A g1 \in runGraphs \cup callables : g1 \in Graphs /\ reg[g1] # "unbuilt"
      BY DEF Types, GraphShape, GraphShapeOf, Kept
    <3>3. cleanup[h] = "none" /\ UNCHANGED cleanup
          /\ \/ pc' = [pc EXCEPT ![h] = "unref"] /\ UNCHANGED <<reg, graph>>
             \/ /\ pc' = [pc EXCEPT ![h] = "register"]
                /\ \E g1 \in Graphs : reg' = [reg EXCEPT ![g1] = "built"] /\ graph' = [graph EXCEPT ![h] = g1]
      BY <2>11, Takes
    <3>4. \A k \in Handlers \ {h} : pc'[k] = pc[k] /\ graph'[k] = graph[k] /\ cleanup'[k] = cleanup[k]
      BY <3>1, <3>3
    <3>5. \A g1 \in Graphs : reg[g1] # "unbuilt" => reg'[g1] # "unbuilt"
      BY <3>1, <3>3
    <3>6. \A k \in Handlers : pc[k] \in HoldsGraph \/ cleanup[k] = "rpc" => graph[k] \in Graphs
      BY DEF Shape
    <3>7. pc'[h] \in HoldsGraph \/ cleanup'[h] = "rpc" => reg'[graph'[h]] # "unbuilt"
      BY <3>1, <3>2, <3>3 DEF HoldsGraph
    <3> QED BY <3>4, <3>5, <3>6, <3>7 DEF InHand
  <2>12. CASE InsertCallable(h)
    BY <2>12, GraphPairs DEF InsertCallable, Types, Shape, InHand, HoldsGraph, AllKinds
  <2>13. ASSUME NEW result \in {"ok", "failed"}, RegisterDone(h, result) PROVE InHand'
    BY <2>13, GraphPairs DEF RegisterDone, Registered, Types, Shape, InHand, HoldsGraph, AllKinds
  <2>14. ASSUME NEW w \in Workers, IssueCall(h, w) PROVE InHand'
    BY <2>14, GraphPairs DEF IssueCall, Types, Shape, InHand, HoldsGraph, AllKinds
  <2>15. ASSUME NEW g \in Graphs, EnterRunCallable(h, g) PROVE InHand'
    <3>1. pc \in [Handlers -> HandlerStates] /\ graph \in [Handlers -> Graphs \cup {NoGraph}]
          /\ reg \in [Graphs -> {"unbuilt", "built", "registering", "ok", "failed"}]
      BY DEF Types
    <3>2. \A g1 \in runGraphs \cup callables : g1 \in Graphs /\ reg[g1] # "unbuilt"
      BY DEF Types, GraphShape, GraphShapeOf, Kept
    <3>3. cleanup[h] = "none" /\ UNCHANGED cleanup /\ UNCHANGED reg
          /\ \/ pc' = [pc EXCEPT ![h] = "unref"] /\ UNCHANGED graph
             \/ pc' = [pc EXCEPT ![h] = "fill"] /\ graph' = [graph EXCEPT ![h] = g] /\ g \in callables
      BY <2>15, Takes
    <3>4. \A k \in Handlers \ {h} : pc'[k] = pc[k] /\ graph'[k] = graph[k] /\ cleanup'[k] = cleanup[k]
      BY <3>1, <3>3
    <3>5. \A g1 \in Graphs : reg[g1] # "unbuilt" => reg'[g1] # "unbuilt"
      BY <3>1, <3>3
    <3>6. \A k \in Handlers : pc[k] \in HoldsGraph \/ cleanup[k] = "rpc" => graph[k] \in Graphs
      BY DEF Shape
    <3>7. pc'[h] \in HoldsGraph \/ cleanup'[h] = "rpc" => reg'[graph'[h]] # "unbuilt"
      BY <3>1, <3>2, <3>3 DEF HoldsGraph
    <3> QED BY <3>4, <3>5, <3>6, <3>7 DEF InHand
  <2>16. ASSUME NEW g \in Graphs, ReleaseCallable(h, g) PROVE InHand'
    <3>1. pc \in [Handlers -> HandlerStates] /\ graph \in [Handlers -> Graphs \cup {NoGraph}]
          /\ reg \in [Graphs -> {"unbuilt", "built", "registering", "ok", "failed"}]
      BY DEF Types
    <3>2. \A g1 \in runGraphs \cup callables : g1 \in Graphs /\ reg[g1] # "unbuilt"
      BY DEF Types, GraphShape, GraphShapeOf, Kept
    <3>3. cleanup[h] = "none" /\ UNCHANGED cleanup /\ UNCHANGED reg
          /\ \/ pc' = [pc EXCEPT ![h] = "unref"] /\ UNCHANGED graph
             \/ pc' = [pc EXCEPT ![h] = "drop"] /\ graph' = [graph EXCEPT ![h] = g] /\ g \in callables
      BY <2>16, Takes
    <3>4. \A k \in Handlers \ {h} : pc'[k] = pc[k] /\ graph'[k] = graph[k] /\ cleanup'[k] = cleanup[k]
      BY <3>1, <3>3
    <3>5. \A g1 \in Graphs : reg[g1] # "unbuilt" => reg'[g1] # "unbuilt"
      BY <3>1, <3>3
    <3>6. \A k \in Handlers : pc[k] \in HoldsGraph \/ cleanup[k] = "rpc" => graph[k] \in Graphs
      BY DEF Shape
    <3>7. pc'[h] \in HoldsGraph \/ cleanup'[h] = "rpc" => reg'[graph'[h]] # "unbuilt"
      BY <3>1, <3>2, <3>3 DEF HoldsGraph
    <3> QED BY <3>4, <3>5, <3>6, <3>7 DEF InHand
  <2>17. CASE Done(h)
    BY <2>17, GraphPairs DEF Done, UnrefSession, Release, RunGraph, Types, Shape, InHand, HoldsGraph,
       AllKinds
  <2>18. CASE FillPerStepState(h)
    BY <2>18, GraphPairs DEF FillPerStepState, SetRPCLogging, Types, Shape, InHand, HoldsGraph,
       AllKinds
  <2>19. CASE ProcessStats(h)
    BY <2>19, GraphPairs DEF ProcessStats, SetRPCLogging, Types, Shape, InHand, HoldsGraph, AllKinds
  <2> QED BY <1>1, <2>1, <2>2, <2>3, <2>4, <2>5, <2>6, <2>7, <2>8, <2>9, <2>10, <2>11, <2>12, <2>13,
             <2>14, <2>15, <2>16, <2>17, <2>18, <2>19 DEF HandlerStep
<1>2. ASSUME NEW h \in Handlers, CleanupStep(h) PROVE InHand'
  <2>1. CASE CleanupDone(h)
    BY <2>1, GraphPairs DEF CleanupDone, UnrefGraph, Types, Shape, InHand, HoldsGraph, AllKinds
  <2>2. CASE CleanupComplete(h)
    BY <2>2, GraphPairs DEF CleanupComplete, MarkRunCompletion, Types, Shape, InHand, HoldsGraph,
       AllKinds
  <2>3. CASE CleanupUnref(h)
    BY <2>3, GraphPairs DEF CleanupUnref, UnrefSession, Release, RunGraph, Types, Shape, InHand,
       HoldsGraph, AllKinds
  <2> QED BY <1>2, <2>1, <2>2, <2>3 DEF CleanupStep
<1>3. ASSUME NEW s \in Sessions, OwnerStep(s) PROVE InHand'
  <2>1. CASE CreateSession(s)
    BY <2>1, GraphPairs DEF CreateSession, Pass, Types, Shape, InHand, HoldsGraph, AllKinds
  <2>2. CASE ResetNext(s)
    BY <2>2, GraphPairs DEF ResetNext, Pass, Types, Shape, InHand, HoldsGraph, AllKinds
  <2>3. CASE CloseSection(s)
    BY <2>3, GraphPairs DEF CloseSection, Pass, Types, Shape, InHand, HoldsGraph, AllKinds
  <2>4. CASE CancelSteps(s)
    BY <2>4, GraphPairs DEF CancelSteps, StartCancel, ReportBadStatus, ReportedCalls, ReportedStatus,
       GroupUpdate, Told, Pass, Types, Shape, InHand, HoldsGraph, AllKinds
  <2>5. CASE DrainSession(s)
    BY <2>5, GraphPairs DEF DrainSession, Pass, Types, Shape, InHand, HoldsGraph, AllKinds
  <2>6. CASE ClearGraphs(s)
    BY <2>6, GraphPairs DEF ClearGraphs, Pass, Types, Shape, InHand, HoldsGraph, AllKinds
  <2>7. CASE OwnerUnref(s)
    BY <2>7, GraphPairs DEF OwnerUnref, UnrefSession, RunGraph, Pass, Types, Shape, InHand, HoldsGraph,
       AllKinds
  <2> QED BY <1>3, <2>1, <2>2, <2>3, <2>4, <2>5, <2>6, <2>7 DEF OwnerStep
<1>4. ASSUME NEW h \in Handlers, NEW w \in Workers, WhenDone(h, w) PROVE InHand'
    BY <1>4, GraphPairs DEF WhenDone, ReportedCalls, ReportedStatus, GroupUpdate, Told, Types, Shape,
       InHand, HoldsGraph, AllKinds
<1>5. ASSUME NEW h \in Handlers, ClientCancel(h) PROVE InHand'
    BY <1>5, GraphPairs DEF ClientCancel, ReportBadStatus, ReportedCalls, ReportedStatus, GroupUpdate,
       Told, Types, Shape, InHand, HoldsGraph, AllKinds
<1>6. ASSUME NEW h \in Handlers, NEW s \in Sessions, NEW op \in RequestKinds, FindMasterSession(h, s, op)
      PROVE  InHand'
    BY <1>6, GraphPairs DEF FindMasterSession, RefSession, sessions_, Types, Shape, InHand, HoldsGraph,
       AllKinds
<1>7. ASSUME NEW s \in Sessions, NewSession(s) PROVE InHand'
    BY <1>7, GraphPairs DEF NewSession, Pass, Types, Shape, InHand, HoldsGraph, AllKinds
<1>8. ASSUME NEW s \in Sessions, CloseSession(s) PROVE InHand'
    BY <1>8, GraphPairs DEF CloseSession, Pass, Types, Shape, InHand, HoldsGraph, AllKinds
<1>9. ASSUME NEW s \in Sessions, GC(s) PROVE InHand'
    BY <1>9, GraphPairs DEF GC, Pass, Types, Shape, InHand, HoldsGraph, AllKinds
<1>10. CASE Reset
    BY <1>10, GraphPairs DEF Reset, sessions_, Types, Shape, InHand, HoldsGraph, AllKinds
<1>11. CASE UNCHANGED mVars
    BY <1>11, GraphPairs DEF mVars, msVars, Types, Shape, InHand, HoldsGraph, AllKinds
<1>12. ASSUME NEW g \in Graphs, LoggingDone(g) PROVE InHand'
    BY <1>12, GraphPairs DEF LoggingDone, UnrefGraph, Types, Shape, InHand, HoldsGraph, AllKinds
<1>13. ASSUME NEW s \in Sessions, CleanupWorkers(s) PROVE InHand'
    BY <1>13, GraphPairs DEF CleanupWorkers, Types, Shape, InHand, HoldsGraph, AllKinds
<1> QED BY <1>1, <1>2, <1>3, <1>4, <1>5, <1>6, <1>7, <1>8, <1>9, <1>10, <1>11, <1>12, <1>13
        DEF MNext, MStep, Living, WorkerAnswers, ClientLeaves, LoggingAnswered

\* Every step keeps graphs where they can be kept.
LEMMA GraphShapeStep ==
  ASSUME Types, Shape, OwnerShape, Born, SessionRefsExact, Drained, InHand, MakersAlone, GraphShape, MNext \/ UNCHANGED mVars
  PROVE  GraphShape'
<1> USE MasterAssumption DEF At, Go, sessionVars, graphVars, stepVars, handlerVars, ownerVars
<1>1. ASSUME NEW h \in Handlers, HandlerStep(h) PROVE GraphShape'
  <2>1. CASE EnterRun(h)
    BY <2>1, GraphPairs, Alive DEF EnterRun, Types, GraphShape, GraphShapeOf, Kept
  <2>2. CASE StartStep(h)
    <3>1. UNCHANGED <<logging, callables, late, toUnref, owner, refs>> /\ sess[h] \in Sessions /\ RunGraph(sess[h]) \in Graphs
          /\ \/ UNCHANGED <<reg, runGraphs>>
             \/ /\ runGraphs' = runGraphs \cup {RunGraph(sess[h])}
                /\ reg' = [reg EXCEPT ![RunGraph(sess[h])] = "built"]
      BY <2>2, Takes
    <3>2. pc[h] = "startStep" BY <2>2 DEF StartStep
    <3>3. owner[sess[h]] # "unborn" /\ refs[sess[h]] # 0 /\ owner[sess[h]] \notin {"clear", "closed", "done"}
      BY <3>1, <3>2, Alive DEF Born, Drained, InStep
    <3>4. ASSUME NEW g1 \in Graphs PROVE GraphShapeOf(g1)'
      <4>1. GraphShapeOf(g1) BY DEF GraphShape
      <4>2. CASE g1 # RunGraph(sess[h])
        <5>1. reg'[g1] = reg[g1] /\ (g1 \in runGraphs' <=> g1 \in runGraphs) BY <3>1, <4>2 DEF Types
        <5> QED BY <5>1, <4>1, <3>1 DEF GraphShapeOf, Kept
      <4>3. CASE g1 = RunGraph(sess[h])
        <5>1. g1[1] = sess[h] BY <4>3, <3>1, GraphPairs
        <5>2. \/ reg'[g1] = reg[g1] /\ UNCHANGED runGraphs
              \/ reg'[g1] = "built" /\ g1 \in runGraphs'
          BY <3>1, <4>3 DEF Types
        <5>3. g1 \notin callables /\ g1 \notin toUnref[g1[1]]
          BY <4>1, <4>3, <5>1, <3>3 DEF GraphShapeOf
        <5> QED BY <5>1, <5>2, <5>3, <4>1, <4>3, <3>1, <3>3 DEF GraphShapeOf, Kept
      <4> QED BY <4>2, <4>3
    <3> QED BY <3>1, <3>4 DEF GraphShape
  <2>3. CASE RegisterPartitions(h)
    <3>1. UNCHANGED <<logging, runGraphs, callables, late, toUnref, owner, refs>>
      BY <2>3 DEF RegisterPartitions
    <3>2. \A g1 \in Graphs : reg'[g1] = "unbuilt" <=> reg[g1] = "unbuilt"
      BY <2>3 DEF RegisterPartitions, Types
    <3>3. ASSUME NEW g1 \in Graphs PROVE GraphShapeOf(g1)'
      <4>1. GraphShapeOf(g1) BY DEF GraphShape
      <4> QED BY <4>1, <3>1, <3>2 DEF GraphShapeOf, Kept
    <3> QED BY <3>1, <3>3 DEF GraphShape
  <2>4. CASE RejectFeeds(h)
    BY <2>4, GraphPairs, Alive DEF RejectFeeds, Types, GraphShape, GraphShapeOf, Kept
  <2>5. CASE Subscribe(h)
    BY <2>5, GraphPairs, Alive DEF Subscribe, ReportBadStatus, ReportedCalls, ReportedStatus,
       GroupUpdate, Told, Types, GraphShape, GraphShapeOf, Kept
  <2>6. CASE Waited(h)
    BY <2>6, GraphPairs, Alive DEF Waited, Types, GraphShape, GraphShapeOf, Kept
  <2>7. CASE PostRunCleanup(h)
    <3>1. UNCHANGED <<logging, runGraphs, callables, late, toUnref, owner, reg>> /\ sess[h] \in Sessions
          /\ refs' = [refs EXCEPT ![sess[h]] = @ + 1]
      BY <2>7 DEF PostRunCleanup, RefSession, Shape
    <3>2. \A t \in Sessions : refs[t] \in Nat BY Alive
    <3>3. refs[sess[h]] > 0 BY <2>7, Alive DEF PostRunCleanup, sessions_, Owned, Shape
    <3>4. \A t \in Sessions : refs'[t] # 0 <=> refs[t] # 0
      BY <3>1, <3>2, <3>3 DEF Types
    <3>5. ASSUME NEW g1 \in Graphs PROVE GraphShapeOf(g1)'
      <4>1. GraphShapeOf(g1) /\ g1[1] \in Sessions BY GraphPairs DEF GraphShape
      <4> QED BY <4>1, <3>1, <3>4 DEF GraphShapeOf, Kept
    <3> QED BY <3>1, <3>5 DEF GraphShape
  <2>8. CASE DropGraph(h)
    BY <2>8, GraphPairs, Alive DEF DropGraph, UnrefGraph, Types, GraphShape, GraphShapeOf, Kept
  <2>9. CASE CompleteEarly(h)
    BY <2>9, GraphPairs, Alive DEF CompleteEarly, MarkRunCompletion, Types, GraphShape, GraphShapeOf,
       Kept
  <2>10. CASE Extend(h)
    BY <2>10, GraphPairs, Alive DEF Extend, Types, GraphShape, GraphShapeOf, Kept
  <2>11. CASE MakeCallable(h)
    <3>1. UNCHANGED <<logging, runGraphs, callables, late, toUnref, owner, refs>> /\ sess[h] \in Sessions
          /\ \/ UNCHANGED reg
             \/ \E g \in Graphs : g[1] = sess[h] /\ g # RunGraph(sess[h]) /\ reg' = [reg EXCEPT ![g] = "built"]
      BY <2>11, Takes
    <3>2. owner[sess[h]] # "unborn" BY <2>11 DEF MakeCallable, Born
    <3>3. ASSUME NEW g1 \in Graphs PROVE GraphShapeOf(g1)'
      <4>1. GraphShapeOf(g1) BY DEF GraphShape
      <4>2. \/ reg'[g1] = reg[g1]
            \/ g1[1] = sess[h] /\ g1 # RunGraph(sess[h]) /\ reg'[g1] # "unbuilt"
        BY <3>1 DEF Types
      <4> QED BY <4>1, <4>2, <3>1, <3>2 DEF GraphShapeOf, Kept
    <3> QED BY <3>1, <3>3 DEF GraphShape
  <2>12. CASE InsertCallable(h)
    <3>1. UNCHANGED <<logging, runGraphs, toUnref, owner, refs, reg>> /\ callables' = callables \cup {graph[h]}
          /\ late' = IF closed[sess[h]] THEN late \cup {graph[h]} ELSE late
      BY <2>12 DEF InsertCallable
    <3>2. /\ pc[h] = "insert" /\ graph[h] # RunGraph(sess[h]) /\ graph[h] \in Graphs /\ graph[h][1] = sess[h]
          /\ sess[h] \in Sessions
      BY <2>12 DEF InsertCallable, Shape, HoldsGraph
    <3>3. Making(h) /\ ~Kept(graph[h]) BY <3>2 DEF Making, MakersAlone
    <3>4. reg[graph[h]] # "unbuilt" BY <3>2 DEF InHand, HoldsGraph
    <3>5. owner[sess[h]] \in {"clear", "closed", "done"} => closed[sess[h]] BY <3>2 DEF OwnerShape
    <3>6. ASSUME NEW g1 \in Graphs PROVE GraphShapeOf(g1)'
      <4>1. GraphShapeOf(g1) BY DEF GraphShape
      <4>2. CASE g1 # graph[h] BY <4>1, <4>2, <3>1 DEF GraphShapeOf, Kept
      <4>3. CASE g1 = graph[h]
        BY <4>1, <4>3, <3>1, <3>2, <3>3, <3>4, <3>5 DEF GraphShapeOf, Kept
      <4> QED BY <4>2, <4>3
    <3> QED BY <3>1, <3>6 DEF GraphShape
  <2>13. ASSUME NEW result \in {"ok", "failed"}, RegisterDone(h, result) PROVE GraphShape'
    <3>1. UNCHANGED <<logging, runGraphs, callables, late, toUnref, owner, refs>>
      BY <2>13 DEF RegisterDone
    <3>2. \A g1 \in Graphs : reg'[g1] = "unbuilt" <=> reg[g1] = "unbuilt"
      <4>1. reg[graph[h]] # "unbuilt" BY <2>13 DEF RegisterDone, InHand, HoldsGraph
      <4> QED BY <2>13, <4>1 DEF RegisterDone, Types
    <3>3. ASSUME NEW g1 \in Graphs PROVE GraphShapeOf(g1)'
      <4>1. GraphShapeOf(g1) BY DEF GraphShape
      <4> QED BY <4>1, <3>1, <3>2 DEF GraphShapeOf, Kept
    <3> QED BY <3>1, <3>3 DEF GraphShape
  <2>14. ASSUME NEW w \in Workers, IssueCall(h, w) PROVE GraphShape'
    BY <2>14, GraphPairs, Alive DEF IssueCall, Types, GraphShape, GraphShapeOf, Kept
  <2>15. ASSUME NEW g \in Graphs, EnterRunCallable(h, g) PROVE GraphShape'
    BY <2>15, GraphPairs, Alive DEF EnterRunCallable, RefGraph, Types, GraphShape, GraphShapeOf, Kept
  <2>16. ASSUME NEW g \in Graphs, ReleaseCallable(h, g) PROVE GraphShape'
    BY <2>16, GraphPairs, Alive DEF ReleaseCallable, Types, GraphShape, GraphShapeOf, Kept
  <2>17. CASE Done(h)
    <3>0. PICK s \in Sessions : s = sess[h] /\ UnrefSession(s) BY <2>17 DEF Done, Shape
    <3>1. UNCHANGED <<logging, callables, late, toUnref, reg>>
      BY <2>17 DEF Done
    <3>2. UNCHANGED owner
      BY <2>17 DEF Done, Pass
    <3>3. /\ refs' = [refs EXCEPT ![s] = @ - 1]
          /\ \/ refs[s] = 1 /\ RunGraph(s) \in runGraphs /\ runGraphs' = runGraphs \ {RunGraph(s)}
             \/ ~(refs[s] = 1 /\ RunGraph(s) \in runGraphs) /\ UNCHANGED runGraphs
      BY <3>0, Unrefs
    <3>4. refs \in [Sessions -> Int] /\ owner \in [Sessions -> OwnerStates] BY DEF Types
    <3>5. ASSUME NEW g1 \in Graphs PROVE GraphShapeOf(g1)'
      <4>1. GraphShapeOf(g1) /\ g1[1] \in Sessions /\ refs[g1[1]] \in Nat BY GraphPairs, Alive DEF GraphShape
      <4>2. refs[s] > 0
        BY <2>17, <3>0, <3>2, Alive DEF Done, Shape, Owned
      <4>3. CASE g1[1] # s
        <5>1. refs'[g1[1]] = refs[g1[1]] /\ (g1 \in runGraphs' <=> g1 \in runGraphs) /\ owner'[g1[1]] = owner[g1[1]]
          BY <4>1, <4>3, <3>2, <3>3, <3>4, GraphPairs
        <5> QED BY <5>1, <4>1, <3>1 DEF GraphShapeOf, Kept
      <4>4. CASE g1[1] = s
        <5>1. refs'[s] = refs[s] - 1 BY <3>3, <3>4
        <5>2. g1 \in runGraphs' <=> g1 \in runGraphs /\ refs'[s] # 0
          BY <5>1, <4>1, <4>2, <4>4, <3>3, <3>4 DEF GraphShapeOf
        <5>3. owner'[s] = owner[s] \/ (owner[s] = "closed" /\ owner'[s] = "done") \/ (owner[s] = "unref" /\ owner'[s] = "lapsed")
          BY <3>2, <3>4
        <5> QED BY <5>1, <5>2, <5>3, <4>1, <4>2, <4>4, <3>1 DEF GraphShapeOf, Kept
      <4> QED BY <4>3, <4>4
    <3> QED BY <3>1, <3>5 DEF GraphShape
  <2>18. CASE FillPerStepState(h)
    <3>1. UNCHANGED <<runGraphs, callables, late, toUnref, owner, refs, reg>>
      BY <2>18 DEF FillPerStepState
    <3>2. graph[h] \in Graphs /\ reg[graph[h]] # "unbuilt"
      BY <2>18 DEF FillPerStepState, Shape, InHand, HoldsGraph
    <3>3. \A g1 \in Graphs : reg[g1] = "unbuilt" => logging'[g1] = logging[g1]
      BY <2>18, <3>2 DEF FillPerStepState, SetRPCLogging, Types
    <3>4. ASSUME NEW g1 \in Graphs PROVE GraphShapeOf(g1)'
      <4>1. GraphShapeOf(g1) BY DEF GraphShape
      <4> QED BY <4>1, <3>1, <3>3 DEF GraphShapeOf, Kept
    <3> QED BY <3>1, <3>4 DEF GraphShape
  <2>19. CASE ProcessStats(h)
    <3>1. UNCHANGED <<runGraphs, callables, late, toUnref, owner, refs, reg>>
      BY <2>19 DEF ProcessStats
    <3>2. graph[h] \in Graphs /\ reg[graph[h]] # "unbuilt"
      BY <2>19 DEF ProcessStats, Shape, InHand, HoldsGraph
    <3>3. \A g1 \in Graphs : reg[g1] = "unbuilt" => logging'[g1] = logging[g1]
      BY <2>19, <3>2 DEF ProcessStats, SetRPCLogging, Types
    <3>4. ASSUME NEW g1 \in Graphs PROVE GraphShapeOf(g1)'
      <4>1. GraphShapeOf(g1) BY DEF GraphShape
      <4> QED BY <4>1, <3>1, <3>3 DEF GraphShapeOf, Kept
    <3> QED BY <3>1, <3>4 DEF GraphShape
  <2> QED BY <1>1, <2>1, <2>2, <2>3, <2>4, <2>5, <2>6, <2>7, <2>8, <2>9, <2>10, <2>11, <2>12, <2>13,
             <2>14, <2>15, <2>16, <2>17, <2>18, <2>19 DEF HandlerStep
<1>2. ASSUME NEW h \in Handlers, CleanupStep(h) PROVE GraphShape'
  <2>1. CASE CleanupDone(h)
    BY <2>1, GraphPairs, Alive DEF CleanupDone, UnrefGraph, Types, GraphShape, GraphShapeOf, Kept
  <2>2. CASE CleanupComplete(h)
    BY <2>2, GraphPairs, Alive DEF CleanupComplete, MarkRunCompletion, Types, GraphShape, GraphShapeOf,
       Kept
  <2>3. CASE CleanupUnref(h)
    <3>0. PICK s \in Sessions : s = sess[h] /\ UnrefSession(s) BY <2>3 DEF CleanupUnref, Shape
    <3>1. UNCHANGED <<logging, callables, late, toUnref, reg>>
      BY <2>3 DEF CleanupUnref
    <3>2. UNCHANGED owner
      BY <2>3 DEF CleanupUnref, Pass
    <3>3. /\ refs' = [refs EXCEPT ![s] = @ - 1]
          /\ \/ refs[s] = 1 /\ RunGraph(s) \in runGraphs /\ runGraphs' = runGraphs \ {RunGraph(s)}
             \/ ~(refs[s] = 1 /\ RunGraph(s) \in runGraphs) /\ UNCHANGED runGraphs
      BY <3>0, Unrefs
    <3>4. refs \in [Sessions -> Int] /\ owner \in [Sessions -> OwnerStates] BY DEF Types
    <3>5. ASSUME NEW g1 \in Graphs PROVE GraphShapeOf(g1)'
      <4>1. GraphShapeOf(g1) /\ g1[1] \in Sessions /\ refs[g1[1]] \in Nat BY GraphPairs, Alive DEF GraphShape
      <4>2. refs[s] > 0
        BY <2>3, <3>0, <3>2, Alive DEF CleanupUnref, Shape, Owned
      <4>3. CASE g1[1] # s
        <5>1. refs'[g1[1]] = refs[g1[1]] /\ (g1 \in runGraphs' <=> g1 \in runGraphs) /\ owner'[g1[1]] = owner[g1[1]]
          BY <4>1, <4>3, <3>2, <3>3, <3>4, GraphPairs
        <5> QED BY <5>1, <4>1, <3>1 DEF GraphShapeOf, Kept
      <4>4. CASE g1[1] = s
        <5>1. refs'[s] = refs[s] - 1 BY <3>3, <3>4
        <5>2. g1 \in runGraphs' <=> g1 \in runGraphs /\ refs'[s] # 0
          BY <5>1, <4>1, <4>2, <4>4, <3>3, <3>4 DEF GraphShapeOf
        <5>3. owner'[s] = owner[s] \/ (owner[s] = "closed" /\ owner'[s] = "done") \/ (owner[s] = "unref" /\ owner'[s] = "lapsed")
          BY <3>2, <3>4
        <5> QED BY <5>1, <5>2, <5>3, <4>1, <4>2, <4>4, <3>1 DEF GraphShapeOf, Kept
      <4> QED BY <4>3, <4>4
    <3> QED BY <3>1, <3>5 DEF GraphShape
  <2> QED BY <1>2, <2>1, <2>2, <2>3 DEF CleanupStep
<1>3. ASSUME NEW s \in Sessions, OwnerStep(s) PROVE GraphShape'
  <2>1. CASE CreateSession(s)
    BY <2>1, GraphPairs, Alive DEF CreateSession, Pass, Types, GraphShape, GraphShapeOf, Kept
  <2>2. CASE ResetNext(s)
    BY <2>2, GraphPairs, Alive DEF ResetNext, Pass, Types, GraphShape, GraphShapeOf, Kept
  <2>3. CASE CloseSection(s)
    <3>1. UNCHANGED <<runGraphs, callables, late, toUnref, refs, reg, logging>>
      BY <2>3 DEF CloseSection
    <3>2. \A t \in Sessions : \/ owner'[t] = owner[t]
                              \/ owner[t] \in {"close", "collect"} /\ owner'[t] \in {"cancel", "gcCancel"}
      BY <2>3 DEF CloseSection, Pass, Types
    <3>3. ASSUME NEW g1 \in Graphs PROVE GraphShapeOf(g1)'
      <4>1. GraphShapeOf(g1) /\ g1[1] \in Sessions BY GraphPairs DEF GraphShape
      <4> QED BY <4>1, <3>1, <3>2 DEF GraphShapeOf, Kept
    <3> QED BY <3>1, <3>3 DEF GraphShape
  <2>4. CASE CancelSteps(s)
    <3>1. UNCHANGED <<runGraphs, callables, late, toUnref, refs, reg, logging>>
      BY <2>4 DEF CancelSteps
    <3>2. \A t \in Sessions : \/ owner'[t] = owner[t]
                              \/ owner[t] \in {"cancel", "gcCancel"} /\ owner'[t] \in {"drain", "unref"}
      BY <2>4 DEF CancelSteps, Pass, Types
    <3>3. ASSUME NEW g1 \in Graphs PROVE GraphShapeOf(g1)'
      <4>1. GraphShapeOf(g1) /\ g1[1] \in Sessions BY GraphPairs DEF GraphShape
      <4> QED BY <4>1, <3>1, <3>2 DEF GraphShapeOf, Kept
    <3> QED BY <3>1, <3>3 DEF GraphShape
  <2>5. CASE DrainSession(s)
    BY <2>5, GraphPairs, Alive DEF DrainSession, Pass, Types, GraphShape, GraphShapeOf, Kept
  <2>6. CASE ClearGraphs(s)
    BY <2>6, GraphPairs, Alive DEF ClearGraphs, Pass, Types, GraphShape, GraphShapeOf, Kept
  <2>7. CASE OwnerUnref(s)
    <3>0. UnrefSession(s) BY <2>7 DEF OwnerUnref
    <3>1. UNCHANGED <<logging, callables, late, toUnref, reg>>
      BY <2>7 DEF OwnerUnref
    <3>2. \/ owner[s] = "closed" /\ owner' = [owner EXCEPT ![s] = "done"]
          \/ owner[s] = "unref" /\ owner' = [owner EXCEPT ![s] = "lapsed"]
      BY <2>7 DEF OwnerUnref, Pass
    <3>3. /\ refs' = [refs EXCEPT ![s] = @ - 1]
          /\ \/ refs[s] = 1 /\ RunGraph(s) \in runGraphs /\ runGraphs' = runGraphs \ {RunGraph(s)}
             \/ ~(refs[s] = 1 /\ RunGraph(s) \in runGraphs) /\ UNCHANGED runGraphs
      BY <3>0, Unrefs
    <3>4. refs \in [Sessions -> Int] /\ owner \in [Sessions -> OwnerStates] BY DEF Types
    <3>5. ASSUME NEW g1 \in Graphs PROVE GraphShapeOf(g1)'
      <4>1. GraphShapeOf(g1) /\ g1[1] \in Sessions /\ refs[g1[1]] \in Nat BY GraphPairs, Alive DEF GraphShape
      <4>2. refs[s] > 0
        BY <2>7, <3>0, <3>2, Alive DEF OwnerUnref, Shape, Owned
      <4>3. CASE g1[1] # s
        <5>1. refs'[g1[1]] = refs[g1[1]] /\ (g1 \in runGraphs' <=> g1 \in runGraphs) /\ owner'[g1[1]] = owner[g1[1]]
          BY <4>1, <4>3, <3>2, <3>3, <3>4, GraphPairs
        <5> QED BY <5>1, <4>1, <3>1 DEF GraphShapeOf, Kept
      <4>4. CASE g1[1] = s
        <5>1. refs'[s] = refs[s] - 1 BY <3>3, <3>4
        <5>2. g1 \in runGraphs' <=> g1 \in runGraphs /\ refs'[s] # 0
          BY <5>1, <4>1, <4>2, <4>4, <3>3, <3>4 DEF GraphShapeOf
        <5>3. owner'[s] = owner[s] \/ (owner[s] = "closed" /\ owner'[s] = "done") \/ (owner[s] = "unref" /\ owner'[s] = "lapsed")
          BY <3>2, <3>4
        <5> QED BY <5>1, <5>2, <5>3, <4>1, <4>2, <4>4, <3>1 DEF GraphShapeOf, Kept
      <4> QED BY <4>3, <4>4
    <3> QED BY <3>1, <3>5 DEF GraphShape
  <2> QED BY <1>3, <2>1, <2>2, <2>3, <2>4, <2>5, <2>6, <2>7 DEF OwnerStep
<1>4. ASSUME NEW h \in Handlers, NEW w \in Workers, WhenDone(h, w) PROVE GraphShape'
    BY <1>4, GraphPairs, Alive DEF WhenDone, ReportedCalls, ReportedStatus, GroupUpdate, Told, Types,
       GraphShape, GraphShapeOf, Kept
<1>5. ASSUME NEW h \in Handlers, ClientCancel(h) PROVE GraphShape'
    BY <1>5, GraphPairs, Alive DEF ClientCancel, ReportBadStatus, ReportedCalls, ReportedStatus,
       GroupUpdate, Told, Types, GraphShape, GraphShapeOf, Kept
<1>6. ASSUME NEW h \in Handlers, NEW s \in Sessions, NEW op \in RequestKinds, FindMasterSession(h, s, op)
      PROVE  GraphShape'
    <3>1. UNCHANGED <<logging, runGraphs, callables, late, toUnref, owner, reg>> /\ s \in Sessions
          /\ refs' = [refs EXCEPT ![s] = @ + 1]
      BY <1>6 DEF FindMasterSession, RefSession, Shape
    <3>2. \A t \in Sessions : refs[t] \in Nat BY Alive
    <3>3. refs[s] > 0 BY <1>6, Alive DEF FindMasterSession, sessions_, Owned, Shape
    <3>4. \A t \in Sessions : refs'[t] # 0 <=> refs[t] # 0
      BY <3>1, <3>2, <3>3 DEF Types
    <3>5. ASSUME NEW g1 \in Graphs PROVE GraphShapeOf(g1)'
      <4>1. GraphShapeOf(g1) /\ g1[1] \in Sessions BY GraphPairs DEF GraphShape
      <4> QED BY <4>1, <3>1, <3>4 DEF GraphShapeOf, Kept
    <3> QED BY <3>1, <3>5 DEF GraphShape
<1>7. ASSUME NEW s \in Sessions, NewSession(s) PROVE GraphShape'
    BY <1>7, GraphPairs, Alive DEF NewSession, Pass, Types, GraphShape, GraphShapeOf, Kept
<1>8. ASSUME NEW s \in Sessions, CloseSession(s) PROVE GraphShape'
    BY <1>8, GraphPairs, Alive DEF CloseSession, Pass, Types, GraphShape, GraphShapeOf, Kept
<1>9. ASSUME NEW s \in Sessions, GC(s) PROVE GraphShape'
    BY <1>9, GraphPairs, Alive DEF GC, Pass, Types, GraphShape, GraphShapeOf, Kept
<1>10. CASE Reset
    BY <1>10, GraphPairs, Alive DEF Reset, sessions_, Types, GraphShape, GraphShapeOf, Kept
<1>11. CASE UNCHANGED mVars
    BY <1>11, GraphPairs, Alive DEF mVars, msVars, Types, GraphShape, GraphShapeOf, Kept
<1>12. ASSUME NEW g \in Graphs, LoggingDone(g) PROVE GraphShape'
    BY <1>12, GraphPairs, Alive DEF LoggingDone, UnrefGraph, Types, GraphShape, GraphShapeOf, Kept
<1>13. ASSUME NEW s \in Sessions, CleanupWorkers(s) PROVE GraphShape'
    BY <1>13, GraphPairs, Alive DEF CleanupWorkers, Types, GraphShape, GraphShapeOf, Kept
<1> QED BY <1>1, <1>2, <1>3, <1>4, <1>5, <1>6, <1>7, <1>8, <1>9, <1>10, <1>11, <1>12, <1>13
        DEF MNext, MStep, Living, WorkerAnswers, ClientLeaves, LoggingAnswered

\* Every step keeps a new callable's graph to its maker.
LEMMA MakersStep ==
  ASSUME Types, Shape, InHand, GraphShape, MakersAlone, MNext \/ UNCHANGED mVars
  PROVE  MakersAlone'
<1> USE MasterAssumption DEF At, Go, sessionVars, graphVars, stepVars, handlerVars, ownerVars
<1>1. ASSUME NEW h \in Handlers, HandlerStep(h) PROVE MakersAlone'
  <2>1. CASE EnterRun(h)
    <3>1. /\ UNCHANGED <<graph, sess, runGraphs, callables, toUnref>>
          /\ pc' = [pc EXCEPT ![h] = "unref"] \/ pc' = [pc EXCEPT ![h] = "startStep"]
      BY <2>1 DEF EnterRun
    <3>2. pc \in [Handlers -> HandlerStates] /\ graph \in [Handlers -> Graphs \cup {NoGraph}]
      BY DEF Types
    <3>3. \A k \in Handlers \ {h} : (Making(k)' <=> Making(k)) /\ graph'[k] = graph[k]
      BY <3>1, <3>2 DEF Making
    <3>4. ~Making(h)' BY <3>1, <3>2 DEF Making, RunGraph
    <3>5. \A k \in Handlers : Making(k) => (Kept(graph[k])' => Kept(graph[k])) \/ k = h
      BY <3>1, <3>3, GraphPairs DEF Kept, Making
    <3> QED BY <3>3, <3>4, <3>5 DEF MakersAlone
  <2>2. CASE StartStep(h)
    <3>1. /\ UNCHANGED <<sess, callables, toUnref>> /\ sess[h] \in Sessions /\ pc[h] = "startStep"
          /\ runGraphs' \subseteq runGraphs \cup {RunGraph(sess[h])}
          /\ \/ pc' = [pc EXCEPT ![h] = "register"] /\ graph' = [graph EXCEPT ![h] = RunGraph(sess[h])]
             \/ pc' = [pc EXCEPT ![h] = "complete"] /\ UNCHANGED graph
      BY <2>2, Takes
    <3>2. pc \in [Handlers -> HandlerStates] /\ graph \in [Handlers -> Graphs \cup {NoGraph}]
      BY DEF Types
    <3>3. \A k \in Handlers \ {h} : (Making(k)' <=> Making(k)) /\ graph'[k] = graph[k]
      BY <3>1, <3>2 DEF Making
    <3>4. ~Making(h)' BY <3>1, <3>2 DEF Making
    <3>5. ASSUME NEW k \in Handlers \ {h}, Making(k) PROVE ~Kept(graph[k])'
      <4>1. graph[k] # RunGraph(sess[h])
        <5>1. graph[k] \in Graphs /\ graph[k][1] = sess[k] /\ graph[k] # RunGraph(sess[k])
          BY <3>5 DEF Shape, Making, HoldsGraph
        <5> QED BY <5>1, <3>1, GraphPairs
      <4>2. ~Kept(graph[k]) BY <3>5 DEF MakersAlone
      <4> QED BY <4>1, <4>2, <3>1, <3>3 DEF Kept
    <3> QED BY <3>3, <3>4, <3>5 DEF MakersAlone
  <2>3. CASE RegisterPartitions(h)
    <3>1. /\ UNCHANGED <<graph, sess, runGraphs, callables, toUnref>> /\ pc[h] = "register"
          /\ \E x : pc' = [pc EXCEPT ![h] = x]
      BY <2>3 DEF RegisterPartitions
    <3>2. pc \in [Handlers -> HandlerStates] BY DEF Types
    <3>3. \A k \in Handlers : Making(k)' => Making(k) BY <3>1, <3>2 DEF Making
    <3> QED BY <3>1, <3>3 DEF MakersAlone, Kept
  <2>4. CASE RejectFeeds(h)
    BY <2>4, GraphPairs DEF RejectFeeds, Types, Shape, MakersAlone, Making, Kept, AllKinds
  <2>5. CASE Subscribe(h)
    BY <2>5, GraphPairs DEF Subscribe, ReportBadStatus, ReportedCalls, ReportedStatus, GroupUpdate,
       Told, Types, Shape, MakersAlone, Making, Kept, AllKinds
  <2>6. CASE Waited(h)
    BY <2>6, GraphPairs DEF Waited, Types, Shape, MakersAlone, Making, Kept, AllKinds
  <2>7. CASE PostRunCleanup(h)
    BY <2>7, GraphPairs DEF PostRunCleanup, RefSession, RefGraph, Verdict, Types, Shape, MakersAlone,
       Making, Kept, AllKinds
  <2>8. CASE DropGraph(h)
    <3>1. /\ UNCHANGED <<graph, sess, runGraphs, callables, toUnref>>
          /\ pc' = [pc EXCEPT ![h] = "unref"] \/ pc' = [pc EXCEPT ![h] = "complete"]
      BY <2>8 DEF DropGraph
    <3>2. pc \in [Handlers -> HandlerStates] /\ graph \in [Handlers -> Graphs \cup {NoGraph}]
      BY DEF Types
    <3>3. \A k \in Handlers \ {h} : (Making(k)' <=> Making(k)) /\ graph'[k] = graph[k]
      BY <3>1, <3>2 DEF Making
    <3>4. ~Making(h)' BY <3>1, <3>2 DEF Making, RunGraph
    <3>5. \A k \in Handlers : Making(k) => (Kept(graph[k])' => Kept(graph[k])) \/ k = h
      BY <3>1, <3>3, GraphPairs DEF Kept, Making
    <3> QED BY <3>3, <3>4, <3>5 DEF MakersAlone
  <2>9. CASE CompleteEarly(h)
    BY <2>9, GraphPairs DEF CompleteEarly, MarkRunCompletion, Types, Shape, MakersAlone, Making, Kept,
       AllKinds
  <2>10. CASE Extend(h)
    BY <2>10, GraphPairs DEF Extend, Types, Shape, MakersAlone, Making, Kept, AllKinds
  <2>11. CASE MakeCallable(h)
    <3>1. /\ UNCHANGED <<sess, runGraphs, callables, toUnref>> /\ sess[h] \in Sessions /\ pc[h] = "MakeCallable"
          /\ \/ pc' = [pc EXCEPT ![h] = "unref"] /\ UNCHANGED graph
             \/ /\ pc' = [pc EXCEPT ![h] = "register"]
                /\ \E g \in Graphs : reg[g] = "unbuilt" /\ graph' = [graph EXCEPT ![h] = g]
      BY <2>11, Takes
    <3>2. pc \in [Handlers -> HandlerStates] /\ graph \in [Handlers -> Graphs \cup {NoGraph}]
      BY DEF Types
    <3>3. \A k \in Handlers \ {h} : (Making(k)' <=> Making(k)) /\ graph'[k] = graph[k]
      BY <3>1, <3>2 DEF Making
    <3>4. \A g1 \in Graphs : (Kept(g1)' <=> Kept(g1)) /\ (reg[g1] = "unbuilt" => ~Kept(g1))
      BY <3>1 DEF Kept, GraphShape, GraphShapeOf
    <3>5. \A k \in Handlers : Making(k) => graph[k] \in Graphs /\ reg[graph[k]] # "unbuilt"
      BY DEF Making, Shape, InHand, HoldsGraph
    <3>6. Making(h)' => graph'[h] \in Graphs /\ reg[graph'[h]] = "unbuilt"
      BY <3>1, <3>2 DEF Making
    <3>7. ASSUME NEW k \in Handlers, Making(k)' PROVE ~Kept(graph[k])'
      <4>1. CASE k = h BY <4>1, <3>7, <3>1, <3>6, <3>4 DEF Kept
      <4>2. CASE k # h BY <4>2, <3>7, <3>1, <3>3, <3>4, <3>5 DEF MakersAlone, Kept
      <4> QED BY <4>1, <4>2
    <3>8. ASSUME NEW k \in Handlers, NEW j \in Handlers, Making(k)', Making(j)', graph'[j] = graph'[k]
          PROVE  j = k
      BY <3>8, <3>3, <3>5, <3>6 DEF MakersAlone
    <3> QED BY <3>7, <3>8 DEF MakersAlone
  <2>12. CASE InsertCallable(h)
    BY <2>12, GraphPairs DEF InsertCallable, Types, Shape, MakersAlone, Making, Kept, AllKinds
  <2>13. ASSUME NEW result \in {"ok", "failed"}, RegisterDone(h, result) PROVE MakersAlone'
    BY <2>13, GraphPairs DEF RegisterDone, Registered, Types, Shape, MakersAlone, Making, Kept, AllKinds
  <2>14. ASSUME NEW w \in Workers, IssueCall(h, w) PROVE MakersAlone'
    BY <2>14, GraphPairs DEF IssueCall, Types, Shape, MakersAlone, Making, Kept, AllKinds
  <2>15. ASSUME NEW g \in Graphs, EnterRunCallable(h, g) PROVE MakersAlone'
    <3>1. /\ UNCHANGED <<sess, runGraphs, callables, toUnref>>
          /\ \/ pc' = [pc EXCEPT ![h] = "unref"] /\ UNCHANGED graph
             \/ pc' = [pc EXCEPT ![h] = "fill"] /\ graph' = [graph EXCEPT ![h] = g]
      BY <2>15, Takes
    <3>2. pc \in [Handlers -> HandlerStates] /\ graph \in [Handlers -> Graphs \cup {NoGraph}]
      BY DEF Types
    <3>3. \A k \in Handlers \ {h} : (Making(k)' <=> Making(k)) /\ graph'[k] = graph[k]
      BY <3>1, <3>2 DEF Making
    <3>4. ~Making(h)' BY <3>1, <3>2 DEF Making, RunGraph
    <3>5. \A k \in Handlers : Making(k) => (Kept(graph[k])' => Kept(graph[k])) \/ k = h
      BY <3>1, <3>3, GraphPairs DEF Kept, Making
    <3> QED BY <3>3, <3>4, <3>5 DEF MakersAlone
  <2>16. ASSUME NEW g \in Graphs, ReleaseCallable(h, g) PROVE MakersAlone'
    <3>1. /\ UNCHANGED <<sess, runGraphs, toUnref>> /\ callables' = callables \ {g}
          /\ \/ pc' = [pc EXCEPT ![h] = "unref"] /\ UNCHANGED graph
             \/ pc' = [pc EXCEPT ![h] = "drop"] /\ graph' = [graph EXCEPT ![h] = g]
      BY <2>16, Takes
    <3>2. pc \in [Handlers -> HandlerStates] /\ graph \in [Handlers -> Graphs \cup {NoGraph}]
      BY DEF Types
    <3>3. \A k \in Handlers \ {h} : (Making(k)' <=> Making(k)) /\ graph'[k] = graph[k]
      BY <3>1, <3>2 DEF Making
    <3>4. ~Making(h)' BY <3>1, <3>2 DEF Making, RunGraph
    <3>5. \A k \in Handlers : Making(k) => (Kept(graph[k])' => Kept(graph[k])) \/ k = h
      BY <3>1, <3>3, GraphPairs DEF Kept, Making
    <3> QED BY <3>3, <3>4, <3>5 DEF MakersAlone
  <2>17. CASE Done(h)
    BY <2>17, GraphPairs DEF Done, UnrefSession, Release, RunGraph, Types, Shape, MakersAlone, Making,
       Kept, AllKinds
  <2>18. CASE FillPerStepState(h)
    BY <2>18, GraphPairs DEF FillPerStepState, SetRPCLogging, Types, Shape, MakersAlone, Making, Kept,
       AllKinds
  <2>19. CASE ProcessStats(h)
    BY <2>19, GraphPairs DEF ProcessStats, SetRPCLogging, Types, Shape, MakersAlone, Making, Kept,
       AllKinds
  <2> QED BY <1>1, <2>1, <2>2, <2>3, <2>4, <2>5, <2>6, <2>7, <2>8, <2>9, <2>10, <2>11, <2>12, <2>13,
             <2>14, <2>15, <2>16, <2>17, <2>18, <2>19 DEF HandlerStep
<1>2. ASSUME NEW h \in Handlers, CleanupStep(h) PROVE MakersAlone'
  <2>1. CASE CleanupDone(h)
    BY <2>1, GraphPairs DEF CleanupDone, UnrefGraph, Types, Shape, MakersAlone, Making, Kept, AllKinds
  <2>2. CASE CleanupComplete(h)
    BY <2>2, GraphPairs DEF CleanupComplete, MarkRunCompletion, Types, Shape, MakersAlone, Making, Kept,
       AllKinds
  <2>3. CASE CleanupUnref(h)
    BY <2>3, GraphPairs DEF CleanupUnref, UnrefSession, Release, RunGraph, Types, Shape, MakersAlone,
       Making, Kept, AllKinds
  <2> QED BY <1>2, <2>1, <2>2, <2>3 DEF CleanupStep
<1>3. ASSUME NEW s \in Sessions, OwnerStep(s) PROVE MakersAlone'
  <2>1. CASE CreateSession(s)
    BY <2>1, GraphPairs DEF CreateSession, Pass, Types, Shape, MakersAlone, Making, Kept, AllKinds
  <2>2. CASE ResetNext(s)
    BY <2>2, GraphPairs DEF ResetNext, Pass, Types, Shape, MakersAlone, Making, Kept, AllKinds
  <2>3. CASE CloseSection(s)
    BY <2>3, GraphPairs DEF CloseSection, Pass, Types, Shape, MakersAlone, Making, Kept, AllKinds
  <2>4. CASE CancelSteps(s)
    BY <2>4, GraphPairs DEF CancelSteps, StartCancel, ReportBadStatus, ReportedCalls, ReportedStatus,
       GroupUpdate, Told, Pass, Types, Shape, MakersAlone, Making, Kept, AllKinds
  <2>5. CASE DrainSession(s)
    BY <2>5, GraphPairs DEF DrainSession, Pass, Types, Shape, MakersAlone, Making, Kept, AllKinds
  <2>6. CASE ClearGraphs(s)
    BY <2>6, GraphPairs DEF ClearGraphs, Pass, Types, Shape, MakersAlone, Making, Kept, AllKinds
  <2>7. CASE OwnerUnref(s)
    BY <2>7, GraphPairs DEF OwnerUnref, UnrefSession, RunGraph, Pass, Types, Shape, MakersAlone, Making,
       Kept, AllKinds
  <2> QED BY <1>3, <2>1, <2>2, <2>3, <2>4, <2>5, <2>6, <2>7 DEF OwnerStep
<1>4. ASSUME NEW h \in Handlers, NEW w \in Workers, WhenDone(h, w) PROVE MakersAlone'
    BY <1>4, GraphPairs DEF WhenDone, ReportedCalls, ReportedStatus, GroupUpdate, Told, Types, Shape,
       MakersAlone, Making, Kept, AllKinds
<1>5. ASSUME NEW h \in Handlers, ClientCancel(h) PROVE MakersAlone'
    BY <1>5, GraphPairs DEF ClientCancel, ReportBadStatus, ReportedCalls, ReportedStatus, GroupUpdate,
       Told, Types, Shape, MakersAlone, Making, Kept, AllKinds
<1>6. ASSUME NEW h \in Handlers, NEW s \in Sessions, NEW op \in RequestKinds, FindMasterSession(h, s, op)
      PROVE  MakersAlone'
    BY <1>6, GraphPairs DEF FindMasterSession, RefSession, sessions_, Types, Shape, MakersAlone, Making,
       Kept, AllKinds
<1>7. ASSUME NEW s \in Sessions, NewSession(s) PROVE MakersAlone'
    BY <1>7, GraphPairs DEF NewSession, Pass, Types, Shape, MakersAlone, Making, Kept, AllKinds
<1>8. ASSUME NEW s \in Sessions, CloseSession(s) PROVE MakersAlone'
    BY <1>8, GraphPairs DEF CloseSession, Pass, Types, Shape, MakersAlone, Making, Kept, AllKinds
<1>9. ASSUME NEW s \in Sessions, GC(s) PROVE MakersAlone'
    BY <1>9, GraphPairs DEF GC, Pass, Types, Shape, MakersAlone, Making, Kept, AllKinds
<1>10. CASE Reset
    BY <1>10, GraphPairs DEF Reset, sessions_, Types, Shape, MakersAlone, Making, Kept, AllKinds
<1>11. CASE UNCHANGED mVars
    BY <1>11, GraphPairs DEF mVars, msVars, Types, Shape, MakersAlone, Making, Kept, AllKinds
<1>12. ASSUME NEW g \in Graphs, LoggingDone(g) PROVE MakersAlone'
    BY <1>12, GraphPairs DEF LoggingDone, UnrefGraph, Types, Shape, MakersAlone, Making, Kept, AllKinds
<1>13. ASSUME NEW s \in Sessions, CleanupWorkers(s) PROVE MakersAlone'
    BY <1>13, GraphPairs DEF CleanupWorkers, Types, Shape, MakersAlone, Making, Kept, AllKinds
<1> QED BY <1>1, <1>2, <1>3, <1>4, <1>5, <1>6, <1>7, <1>8, <1>9, <1>10, <1>11, <1>12, <1>13
        DEF MNext, MStep, Living, WorkerAnswers, ClientLeaves, LoggingAnswered

\* What the step of one handler does to the users of a graph.
LEMMA HandCount ==
  ASSUME NEW h \in Handlers, NEW g \in Graphs,
         \A k \in Handlers \ {h} : pc'[k] = pc[k] /\ graph'[k] = graph[k] /\ cleanup'[k] = cleanup[k]
  PROVE  /\ Cardinality(HandlersWith(g)) \in Nat /\ Cardinality(CleanupsWith(g)) \in Nat
         /\ Cardinality(HandlersWith(g))' =
              Cardinality(HandlersWith(g)) + One(h \in HandlersWith(g))' - One(h \in HandlersWith(g))
         /\ Cardinality(CleanupsWith(g))' =
              Cardinality(CleanupsWith(g)) + One(h \in CleanupsWith(g))' - One(h \in CleanupsWith(g))
<1> DEFINE A == HandlersWith(g)
           B == CleanupsWith(g)
<1>1. A \in SUBSET Handlers /\ B \in SUBSET Handlers BY DEF HandlersWith, CleanupsWith
<1>2. \A k \in Handlers \ {h} : (k \in A' <=> k \in A) /\ (k \in B' <=> k \in B)
  BY DEF HandlersWith, CleanupsWith
<1>3. A' \subseteq Handlers /\ B' \subseteq Handlers BY DEF HandlersWith, CleanupsWith
<1>4. \/ A' = A /\ (h \in A' <=> h \in A)
      \/ h \notin A /\ h \in A' /\ A' = A \cup {h}
      \/ h \in A /\ h \notin A' /\ A' = A \ {h}
  BY <1>1, <1>2, <1>3
<1>5. \/ B' = B /\ (h \in B' <=> h \in B)
      \/ h \notin B /\ h \in B' /\ B' = B \cup {h}
      \/ h \in B /\ h \notin B' /\ B' = B \ {h}
  BY <1>1, <1>2, <1>3
<1> HIDE DEF A, B
<1>6. Cardinality(A) \in Nat /\ Cardinality(B) \in Nat BY <1>1, Counts
<1>7. Cardinality(A)' = Cardinality(A) + One(h \in A)' - One(h \in A)
  BY <1>1, <1>4, <1>6, Counts DEF One
<1>8. Cardinality(B)' = Cardinality(B) + One(h \in B)' - One(h \in B)
  BY <1>1, <1>5, <1>6, Counts DEF One
<1> QED BY <1>6, <1>7, <1>8 DEF A, B

\* No handler takes or drops a graph.
SameHands ==
  \A k \in Handlers : /\ pc'[k] \in HoldsGraph <=> pc[k] \in HoldsGraph
                      /\ cleanup'[k] = "rpc" <=> cleanup[k] = "rpc"
                      /\ pc[k] \in HoldsGraph \/ cleanup[k] = "rpc" => graph'[k] = graph[k]

\* Then the users of every graph are the same.
LEMMA HandFrame ==
  ASSUME SameHands, NEW g \in Graphs
  PROVE  HandlersWith(g)' = HandlersWith(g) /\ CleanupsWith(g)' = CleanupsWith(g)
BY DEF SameHands, HandlersWith, CleanupsWith

\* With the same users and counts, the counts of the graphs stay exact.
LEMMA GraphFrame ==
  ASSUME GraphRefsExact, SameHands, UNCHANGED <<graphRefs, logging>>, \A g \in Graphs : Kept(g)' <=> Kept(g)
  PROVE  GraphRefsExact'
BY HandFrame DEF GraphRefsExact, One

\* So they do when closures of SetRPCLogging come or go with their references.
LEMMA LoggingFrame ==
  ASSUME Types, GraphRefsExact, SameHands, UNCHANGED <<runGraphs, callables, toUnref>>,
         \A g \in Graphs : /\ graphRefs'[g] \in Int /\ logging'[g] \in Int
                           /\ graphRefs'[g] - logging'[g] = graphRefs[g] - logging[g]
  PROVE  GraphRefsExact'
<1> SUFFICES ASSUME NEW g1 \in Graphs
             PROVE  (graphRefs[g1] = One(Kept(g1)) + Cardinality(HandlersWith(g1)) + Cardinality(CleanupsWith(g1))
                                     + logging[g1])'
  BY DEF GraphRefsExact
<1>1. graphRefs[g1] = One(Kept(g1)) + Cardinality(HandlersWith(g1)) + Cardinality(CleanupsWith(g1)) + logging[g1]
  BY DEF GraphRefsExact
<1>2. HandlersWith(g1)' = HandlersWith(g1) /\ CleanupsWith(g1)' = CleanupsWith(g1) BY HandFrame
<1>3. Cardinality(HandlersWith(g1)) \in Nat /\ Cardinality(CleanupsWith(g1)) \in Nat
  BY Counts DEF HandlersWith, CleanupsWith
<1>4. One(Kept(g1))' = One(Kept(g1)) /\ One(Kept(g1)) \in Nat BY DEF Kept, One
<1>5. logging[g1] \in Int /\ graphRefs[g1] \in Int BY DEF Types
<1>6. /\ graphRefs'[g1] \in Int /\ logging'[g1] \in Int
      /\ graphRefs'[g1] - logging'[g1] = graphRefs[g1] - logging[g1]
  OBVIOUS
<1> QED BY <1>1, <1>2, <1>3, <1>4, <1>5, <1>6

\* Every step keeps the reference counts of the graphs exact.
LEMMA GraphRefsStep ==
  ASSUME Types, Shape, SessionRefsExact, Drained, InHand, GraphShape, MakersAlone, GraphRefsExact, MNext \/ UNCHANGED mVars
  PROVE  GraphRefsExact'
<1> USE MasterAssumption DEF At, Go, sessionVars, graphVars, stepVars, handlerVars, ownerVars
<1>1. ASSUME NEW h \in Handlers, HandlerStep(h) PROVE GraphRefsExact'
  <2>1. CASE EnterRun(h)
    BY <2>1, GraphFrame DEF EnterRun, Types, SameHands, HoldsGraph, AllKinds, Kept
  <2>2. CASE StartStep(h)
    <3>c. CASE pc' = [pc EXCEPT ![h] = "complete"] /\ UNCHANGED <<runGraphs, graph, graphRefs>>
      <4>1. pc[h] = "startStep" /\ UNCHANGED <<logging, cleanup, callables, toUnref>> BY <2>2, Takes
      <4>2. SameHands BY <4>1, <3>c DEF SameHands, HoldsGraph, Types
      <4> QED BY <4>1, <4>2, <3>c, GraphFrame DEF Kept
    <3>d. CASE /\ pc' = [pc EXCEPT ![h] = "register"] /\ graph' = [graph EXCEPT ![h] = RunGraph(sess[h])]
               /\ \/ /\ RunGraph(sess[h]) \in runGraphs /\ UNCHANGED runGraphs
                     /\ graphRefs' = [graphRefs EXCEPT ![RunGraph(sess[h])] = @ + 1]
                  \/ /\ RunGraph(sess[h]) \notin runGraphs /\ runGraphs' = runGraphs \cup {RunGraph(sess[h])}
                     /\ graphRefs' = [graphRefs EXCEPT ![RunGraph(sess[h])] = 2]
      <4>0. PICK x \in Graphs : x = RunGraph(sess[h]) BY <2>2, Takes
      <4>1. /\ UNCHANGED <<logging, callables, toUnref, cleanup>> /\ pc[h] = "startStep" /\ cleanup[h] = "none"
            /\ pc' = [pc EXCEPT ![h] = "register"] /\ graph' = [graph EXCEPT ![h] = x]
            /\ \/ x \in runGraphs /\ UNCHANGED runGraphs /\ graphRefs' = [graphRefs EXCEPT ![x] = @ + 1]
               \/ x \notin runGraphs /\ runGraphs' = runGraphs \cup {x} /\ graphRefs' = [graphRefs EXCEPT ![x] = 2]
        <5>1. UNCHANGED <<logging, callables, toUnref, cleanup>> /\ pc[h] = "startStep" /\ cleanup[h] = "none"
          BY <2>2, Takes
        <5> QED BY <5>1, <4>0, <3>d
      <4>2. pc \in [Handlers -> HandlerStates] /\ graph \in [Handlers -> Graphs \cup {NoGraph}]
            /\ cleanup \in [Handlers -> {"none", "rpc", "complete", "unref"}] /\ graphRefs \in [Graphs -> Int]
        BY DEF Types
      <4> SUFFICES ASSUME NEW g1 \in Graphs
                   PROVE  (graphRefs[g1] = One(Kept(g1)) + Cardinality(HandlersWith(g1)) + Cardinality(CleanupsWith(g1)) + logging[g1])'
        BY DEF GraphRefsExact
      <4>3. /\ graphRefs[g1] = One(Kept(g1)) + Cardinality(HandlersWith(g1)) + Cardinality(CleanupsWith(g1)) + logging[g1]
            /\ logging[g1] \in Nat /\ logging'[g1] = logging[g1]
        BY <4>1 DEF GraphRefsExact, Types
      <4>4. \A k \in Handlers \ {h} : pc'[k] = pc[k] /\ graph'[k] = graph[k] /\ cleanup'[k] = cleanup[k]
        BY <4>1, <4>2
      <4>5. /\ Cardinality(HandlersWith(g1)) \in Nat /\ Cardinality(CleanupsWith(g1)) \in Nat
            /\ Cardinality(HandlersWith(g1))' =
                 Cardinality(HandlersWith(g1)) + One(h \in HandlersWith(g1))' - One(h \in HandlersWith(g1))
            /\ Cardinality(CleanupsWith(g1))' =
                 Cardinality(CleanupsWith(g1)) + One(h \in CleanupsWith(g1))' - One(h \in CleanupsWith(g1))
        BY <4>4, HandCount
      <4>6. CASE g1 = x
        <5>1. ~(h \in HandlersWith(g1)) /\ (h \in HandlersWith(g1))' /\ ~(h \in CleanupsWith(g1)) /\ ~(h \in CleanupsWith(g1))'
          BY <4>6, <4>1, <4>2 DEF HandlersWith, CleanupsWith, HoldsGraph
        <5>2. Kept(g1)' /\ (x \in runGraphs => Kept(g1)) /\ (x \notin runGraphs => ~Kept(g1) /\ graphRefs[g1] = 0)
          <6>1. x \in runGraphs => Kept(g1) BY <4>6 DEF Kept
          <6>2. Kept(g1)' BY <4>6, <4>1 DEF Kept
          <6>3. ASSUME x \notin runGraphs PROVE ~Kept(g1) /\ graphRefs[g1] = 0
            <7>1. sess[h] \in Sessions /\ x[1] = sess[h] BY <2>2, <4>0, Takes, GraphPairs
            <7>2. refs[sess[h]] # 0 /\ owner[sess[h]] \notin {"clear", "closed", "done"}
              BY <7>1, <4>1, Alive DEF Drained, InStep
            <7>3. reg[x] = "unbuilt" BY <6>3, <7>1, <7>2, <4>0 DEF GraphShape, GraphShapeOf
            <7>4. ~Kept(g1) /\ logging[g1] = 0 BY <7>3, <4>6 DEF GraphShape, GraphShapeOf
            <7>5. HandlersWith(g1) = {} /\ CleanupsWith(g1) = {}
              BY <7>3, <4>6 DEF InHand, HandlersWith, CleanupsWith
            <7> QED BY <7>4, <7>5, <4>3, FS_EmptySet DEF One
          <6> QED BY <6>1, <6>2, <6>3
        <5> QED BY <5>1, <5>2, <4>1, <4>2, <4>3, <4>5, <4>6 DEF One
      <4>7. CASE g1 # x
        <5>1. /\ (h \in HandlersWith(g1))' <=> h \in HandlersWith(g1)
              /\ (h \in CleanupsWith(g1))' <=> h \in CleanupsWith(g1)
          BY <4>7, <4>1, <4>2 DEF HandlersWith, CleanupsWith, HoldsGraph
        <5>2. Kept(g1)' <=> Kept(g1) BY <4>7, <4>1 DEF Kept
        <5>3. graphRefs'[g1] = graphRefs[g1] BY <4>7, <4>1, <4>2
        <5> QED BY <5>1, <5>2, <5>3, <4>3, <4>5 DEF One
      <4> QED BY <4>6, <4>7
    <3> QED BY <2>2, <3>c, <3>d, Takes
  <2>3. CASE RegisterPartitions(h)
    BY <2>3, GraphFrame DEF RegisterPartitions, Registered, RunGraph, Types, SameHands, HoldsGraph,
       AllKinds, Kept
  <2>4. CASE RejectFeeds(h)
    BY <2>4, GraphFrame DEF RejectFeeds, Types, SameHands, HoldsGraph, AllKinds, Kept
  <2>5. CASE Subscribe(h)
    BY <2>5, GraphFrame DEF Subscribe, ReportBadStatus, ReportedCalls, ReportedStatus, GroupUpdate,
       Told, Types, SameHands, HoldsGraph, AllKinds, Kept
  <2>6. CASE Waited(h)
    BY <2>6, GraphFrame DEF Waited, Types, SameHands, HoldsGraph, AllKinds, Kept
  <2>7. CASE PostRunCleanup(h)
    <3>0. PICK x \in Graphs : x = graph[h] BY <2>7 DEF PostRunCleanup, Shape, HoldsGraph
    <3>1. /\ UNCHANGED <<logging, runGraphs, callables, toUnref>> /\ UNCHANGED graph /\ pc[h] = "post" /\ cleanup[h] = "none"
          /\ pc' = [pc EXCEPT ![h] = "drop"] /\ cleanup' = [cleanup EXCEPT ![h] = "rpc"]
          /\ graphRefs' = [graphRefs EXCEPT ![x] = @ + 1] /\ graph[h] = x
      BY <2>7, <3>0 DEF PostRunCleanup, RefGraph, Shape
    <3>2. pc \in [Handlers -> HandlerStates] /\ graph \in [Handlers -> Graphs \cup {NoGraph}]
          /\ cleanup \in [Handlers -> {"none", "rpc", "complete", "unref"}] /\ graphRefs \in [Graphs -> Int]
      BY DEF Types
    <3> SUFFICES ASSUME NEW g1 \in Graphs
                 PROVE  (graphRefs[g1] = One(Kept(g1)) + Cardinality(HandlersWith(g1)) + Cardinality(CleanupsWith(g1)) + logging[g1])'
      BY DEF GraphRefsExact
    <3>3. /\ graphRefs[g1] = One(Kept(g1)) + Cardinality(HandlersWith(g1)) + Cardinality(CleanupsWith(g1)) + logging[g1]
          /\ logging[g1] \in Nat /\ logging'[g1] = logging[g1]
      BY <3>1 DEF GraphRefsExact, Types
    <3>4. \A k \in Handlers \ {h} : pc'[k] = pc[k] /\ graph'[k] = graph[k] /\ cleanup'[k] = cleanup[k]
      BY <3>1, <3>2
    <3>5. /\ Cardinality(HandlersWith(g1)) \in Nat /\ Cardinality(CleanupsWith(g1)) \in Nat
          /\ Cardinality(HandlersWith(g1))' =
               Cardinality(HandlersWith(g1)) + One(h \in HandlersWith(g1))' - One(h \in HandlersWith(g1))
          /\ Cardinality(CleanupsWith(g1))' =
               Cardinality(CleanupsWith(g1)) + One(h \in CleanupsWith(g1))' - One(h \in CleanupsWith(g1))
      BY <3>4, HandCount
    <3>6. CASE g1 = x
      <4>1. (h \in HandlersWith(g1)) /\ (h \in HandlersWith(g1))' /\ ~(h \in CleanupsWith(g1)) /\ (h \in CleanupsWith(g1))'
        BY <3>6, <3>1, <3>2 DEF HandlersWith, CleanupsWith, HoldsGraph
      <4>2. Kept(g1)' <=> Kept(g1)
        BY <3>1 DEF Kept
      <4> QED BY <4>1, <4>2, <3>1, <3>2, <3>3, <3>5, <3>6 DEF One
    <3>7. CASE g1 # x
      <4>1. /\ (h \in HandlersWith(g1))' <=> h \in HandlersWith(g1)
            /\ (h \in CleanupsWith(g1))' <=> h \in CleanupsWith(g1)
        BY <3>7, <3>1, <3>2 DEF HandlersWith, CleanupsWith, HoldsGraph
      <4>2. Kept(g1)' <=> Kept(g1) BY <3>7, <3>1 DEF Kept
      <4>3. graphRefs'[g1] = graphRefs[g1] BY <3>7, <3>1, <3>2
      <4> QED BY <4>1, <4>2, <4>3, <3>3, <3>5 DEF One
    <3> QED BY <3>6, <3>7
  <2>8. CASE DropGraph(h)
    <3>0. PICK x \in Graphs : x = graph[h] BY <2>8 DEF DropGraph, Shape, HoldsGraph
    <3>1. /\ UNCHANGED <<logging, runGraphs, callables, toUnref>> /\ UNCHANGED <<graph, cleanup>> /\ pc[h] \in HoldsGraph
          /\ pc' = [pc EXCEPT ![h] = "unref"] \/ pc' = [pc EXCEPT ![h] = "complete"]
          /\ graphRefs' = [graphRefs EXCEPT ![x] = @ - 1] /\ graph[h] = x
      BY <2>8, <3>0 DEF DropGraph, UnrefGraph, HoldsGraph
    <3>2. pc \in [Handlers -> HandlerStates] /\ graph \in [Handlers -> Graphs \cup {NoGraph}]
          /\ cleanup \in [Handlers -> {"none", "rpc", "complete", "unref"}] /\ graphRefs \in [Graphs -> Int]
      BY DEF Types
    <3> SUFFICES ASSUME NEW g1 \in Graphs
                 PROVE  (graphRefs[g1] = One(Kept(g1)) + Cardinality(HandlersWith(g1)) + Cardinality(CleanupsWith(g1)) + logging[g1])'
      BY DEF GraphRefsExact
    <3>3. /\ graphRefs[g1] = One(Kept(g1)) + Cardinality(HandlersWith(g1)) + Cardinality(CleanupsWith(g1)) + logging[g1]
          /\ logging[g1] \in Nat /\ logging'[g1] = logging[g1]
      BY <3>1 DEF GraphRefsExact, Types
    <3>4. \A k \in Handlers \ {h} : pc'[k] = pc[k] /\ graph'[k] = graph[k] /\ cleanup'[k] = cleanup[k]
      BY <3>1, <3>2
    <3>5. /\ Cardinality(HandlersWith(g1)) \in Nat /\ Cardinality(CleanupsWith(g1)) \in Nat
          /\ Cardinality(HandlersWith(g1))' =
               Cardinality(HandlersWith(g1)) + One(h \in HandlersWith(g1))' - One(h \in HandlersWith(g1))
          /\ Cardinality(CleanupsWith(g1))' =
               Cardinality(CleanupsWith(g1)) + One(h \in CleanupsWith(g1))' - One(h \in CleanupsWith(g1))
      BY <3>4, HandCount
    <3>6. CASE g1 = x
      <4>1. h \in HandlersWith(g1) /\ ~(h \in HandlersWith(g1))' /\ ((h \in CleanupsWith(g1))' <=> h \in CleanupsWith(g1))
        BY <3>6, <3>1, <3>2 DEF HandlersWith, CleanupsWith, HoldsGraph
      <4>2. Kept(g1)' <=> Kept(g1)
        BY <3>1 DEF Kept
      <4> QED BY <4>1, <4>2, <3>1, <3>2, <3>3, <3>5, <3>6 DEF One
    <3>7. CASE g1 # x
      <4>1. /\ (h \in HandlersWith(g1))' <=> h \in HandlersWith(g1)
            /\ (h \in CleanupsWith(g1))' <=> h \in CleanupsWith(g1)
        BY <3>7, <3>1, <3>2 DEF HandlersWith, CleanupsWith, HoldsGraph
      <4>2. Kept(g1)' <=> Kept(g1) BY <3>7, <3>1 DEF Kept
      <4>3. graphRefs'[g1] = graphRefs[g1] BY <3>7, <3>1, <3>2
      <4> QED BY <4>1, <4>2, <4>3, <3>3, <3>5 DEF One
    <3> QED BY <3>6, <3>7
  <2>9. CASE CompleteEarly(h)
    BY <2>9, GraphFrame DEF CompleteEarly, MarkRunCompletion, Types, SameHands, HoldsGraph, AllKinds,
       Kept
  <2>10. CASE Extend(h)
    BY <2>10, GraphFrame DEF Extend, Types, SameHands, HoldsGraph, AllKinds, Kept
  <2>11. CASE MakeCallable(h)
    <3>c. CASE pc' = [pc EXCEPT ![h] = "unref"] /\ UNCHANGED <<graph, graphRefs>>
      <4>1. pc[h] = "MakeCallable" /\ UNCHANGED <<logging, cleanup, runGraphs, callables, toUnref>> BY <2>11, Takes
      <4>2. SameHands BY <4>1, <3>c DEF SameHands, HoldsGraph, Types
      <4> QED BY <4>1, <4>2, <3>c, GraphFrame DEF Kept
    <3>d. ASSUME NEW g \in Graphs, reg[g] = "unbuilt", pc' = [pc EXCEPT ![h] = "register"],
                 graph' = [graph EXCEPT ![h] = g], graphRefs' = [graphRefs EXCEPT ![g] = 1]
          PROVE  GraphRefsExact'
      <4>0. PICK x \in Graphs : x = g OBVIOUS
      <4>1. /\ UNCHANGED <<logging, runGraphs, callables, toUnref>> /\ UNCHANGED cleanup /\ pc[h] = "MakeCallable" /\ cleanup[h] = "none"
            /\ pc' = [pc EXCEPT ![h] = "register"] /\ graph' = [graph EXCEPT ![h] = x]
            /\ graphRefs' = [graphRefs EXCEPT ![x] = 1] /\ reg[x] = "unbuilt"
        BY <2>11, <4>0, <3>d, Takes
      <4>2. pc \in [Handlers -> HandlerStates] /\ graph \in [Handlers -> Graphs \cup {NoGraph}]
            /\ cleanup \in [Handlers -> {"none", "rpc", "complete", "unref"}] /\ graphRefs \in [Graphs -> Int]
        BY DEF Types
      <4> SUFFICES ASSUME NEW g1 \in Graphs
                   PROVE  (graphRefs[g1] = One(Kept(g1)) + Cardinality(HandlersWith(g1)) + Cardinality(CleanupsWith(g1)) + logging[g1])'
        BY DEF GraphRefsExact
      <4>3. /\ graphRefs[g1] = One(Kept(g1)) + Cardinality(HandlersWith(g1)) + Cardinality(CleanupsWith(g1)) + logging[g1]
            /\ logging[g1] \in Nat /\ logging'[g1] = logging[g1]
        BY <4>1 DEF GraphRefsExact, Types
      <4>4. \A k \in Handlers \ {h} : pc'[k] = pc[k] /\ graph'[k] = graph[k] /\ cleanup'[k] = cleanup[k]
        BY <4>1, <4>2
      <4>5. /\ Cardinality(HandlersWith(g1)) \in Nat /\ Cardinality(CleanupsWith(g1)) \in Nat
            /\ Cardinality(HandlersWith(g1))' =
                 Cardinality(HandlersWith(g1)) + One(h \in HandlersWith(g1))' - One(h \in HandlersWith(g1))
            /\ Cardinality(CleanupsWith(g1))' =
                 Cardinality(CleanupsWith(g1)) + One(h \in CleanupsWith(g1))' - One(h \in CleanupsWith(g1))
        BY <4>4, HandCount
      <4>6. CASE g1 = x
        <5>1. ~(h \in HandlersWith(g1)) /\ (h \in HandlersWith(g1))' /\ ~(h \in CleanupsWith(g1)) /\ ~(h \in CleanupsWith(g1))'
          BY <4>6, <4>1, <4>2 DEF HandlersWith, CleanupsWith, HoldsGraph
        <5>2. ~Kept(g1) /\ ~Kept(g1)' /\ graphRefs[g1] = 0
          <6>1. ~Kept(g1) /\ logging[g1] = 0 BY <4>1, <4>6 DEF GraphShape, GraphShapeOf
          <6>2. HandlersWith(g1) = {} /\ CleanupsWith(g1) = {}
            BY <4>1, <4>6 DEF InHand, HandlersWith, CleanupsWith
          <6>3. graphRefs[g1] = 0 BY <6>1, <6>2, <4>3, FS_EmptySet DEF One
          <6> QED BY <6>1, <6>3, <4>1 DEF Kept
        <5> QED BY <5>1, <5>2, <4>1, <4>2, <4>3, <4>5, <4>6 DEF One
      <4>7. CASE g1 # x
        <5>1. /\ (h \in HandlersWith(g1))' <=> h \in HandlersWith(g1)
              /\ (h \in CleanupsWith(g1))' <=> h \in CleanupsWith(g1)
          BY <4>7, <4>1, <4>2 DEF HandlersWith, CleanupsWith, HoldsGraph
        <5>2. Kept(g1)' <=> Kept(g1) BY <4>7, <4>1 DEF Kept
        <5>3. graphRefs'[g1] = graphRefs[g1] BY <4>7, <4>1, <4>2
        <5> QED BY <5>1, <5>2, <5>3, <4>3, <4>5 DEF One
      <4> QED BY <4>6, <4>7
    <3> QED BY <2>11, <3>c, <3>d, Takes
  <2>12. CASE InsertCallable(h)
    <3>0. PICK x \in Graphs : x = graph[h] BY <2>12 DEF InsertCallable, Shape, HoldsGraph
    <3>1. /\ UNCHANGED <<logging, runGraphs, toUnref, graph, cleanup, graphRefs>> /\ pc[h] = "insert" /\ cleanup[h] = "none"
          /\ callables' = callables \cup {x} /\ pc' = [pc EXCEPT ![h] = "unref"] /\ graph[h] = x
      BY <2>12, <3>0 DEF InsertCallable, Shape
    <3>2. pc \in [Handlers -> HandlerStates] /\ graph \in [Handlers -> Graphs \cup {NoGraph}]
          /\ cleanup \in [Handlers -> {"none", "rpc", "complete", "unref"}] /\ graphRefs \in [Graphs -> Int]
      BY DEF Types
    <3> SUFFICES ASSUME NEW g1 \in Graphs
                 PROVE  (graphRefs[g1] = One(Kept(g1)) + Cardinality(HandlersWith(g1)) + Cardinality(CleanupsWith(g1)) + logging[g1])'
      BY DEF GraphRefsExact
    <3>3. /\ graphRefs[g1] = One(Kept(g1)) + Cardinality(HandlersWith(g1)) + Cardinality(CleanupsWith(g1)) + logging[g1]
          /\ logging[g1] \in Nat /\ logging'[g1] = logging[g1]
      BY <3>1 DEF GraphRefsExact, Types
    <3>4. \A k \in Handlers \ {h} : pc'[k] = pc[k] /\ graph'[k] = graph[k] /\ cleanup'[k] = cleanup[k]
      BY <3>1, <3>2
    <3>5. /\ Cardinality(HandlersWith(g1)) \in Nat /\ Cardinality(CleanupsWith(g1)) \in Nat
          /\ Cardinality(HandlersWith(g1))' =
               Cardinality(HandlersWith(g1)) + One(h \in HandlersWith(g1))' - One(h \in HandlersWith(g1))
          /\ Cardinality(CleanupsWith(g1))' =
               Cardinality(CleanupsWith(g1)) + One(h \in CleanupsWith(g1))' - One(h \in CleanupsWith(g1))
      BY <3>4, HandCount
    <3>6. CASE g1 = x
      <4>1. (h \in HandlersWith(g1)) /\ ~(h \in HandlersWith(g1))' /\ ~(h \in CleanupsWith(g1)) /\ ~(h \in CleanupsWith(g1))'
        BY <3>6, <3>1, <3>2 DEF HandlersWith, CleanupsWith, HoldsGraph
      <4>2. Kept(g1)' /\ ~Kept(g1)
        <5>1. Making(h) BY <3>1 DEF Making, Shape
        <5> QED BY <5>1, <3>1, <3>6 DEF Kept, MakersAlone
      <4> QED BY <4>1, <4>2, <3>1, <3>2, <3>3, <3>5, <3>6 DEF One
    <3>7. CASE g1 # x
      <4>1. /\ (h \in HandlersWith(g1))' <=> h \in HandlersWith(g1)
            /\ (h \in CleanupsWith(g1))' <=> h \in CleanupsWith(g1)
        BY <3>7, <3>1, <3>2 DEF HandlersWith, CleanupsWith, HoldsGraph
      <4>2. Kept(g1)' <=> Kept(g1) BY <3>7, <3>1 DEF Kept
      <4>3. graphRefs'[g1] = graphRefs[g1] BY <3>7, <3>1, <3>2
      <4> QED BY <4>1, <4>2, <4>3, <3>3, <3>5 DEF One
    <3> QED BY <3>6, <3>7
  <2>13. ASSUME NEW result \in {"ok", "failed"}, RegisterDone(h, result) PROVE GraphRefsExact'
    BY <2>13, GraphFrame DEF RegisterDone, Registered, Types, SameHands, HoldsGraph, AllKinds, Kept
  <2>14. ASSUME NEW w \in Workers, IssueCall(h, w) PROVE GraphRefsExact'
    BY <2>14, GraphFrame DEF IssueCall, Types, SameHands, HoldsGraph, AllKinds, Kept
  <2>15. ASSUME NEW g \in Graphs, EnterRunCallable(h, g) PROVE GraphRefsExact'
    <3>c. CASE pc' = [pc EXCEPT ![h] = "unref"] /\ UNCHANGED <<graph, graphRefs>>
      <4>1. pc[h] = "RunCallable" /\ UNCHANGED <<logging, cleanup, runGraphs, callables, toUnref>> BY <2>15, Takes
      <4>2. SameHands BY <4>1, <3>c DEF SameHands, HoldsGraph, Types
      <4> QED BY <4>1, <4>2, <3>c, GraphFrame DEF Kept
    <3>d. CASE pc' = [pc EXCEPT ![h] = "fill"] /\ graph' = [graph EXCEPT ![h] = g] /\ graphRefs' = [graphRefs EXCEPT ![g] = @ + 1]
      <4>0. PICK x \in Graphs : x = g OBVIOUS
      <4>1. /\ UNCHANGED <<logging, runGraphs, callables, toUnref>> /\ UNCHANGED cleanup /\ pc[h] = "RunCallable" /\ cleanup[h] = "none"
            /\ pc' = [pc EXCEPT ![h] = "fill"] /\ graph' = [graph EXCEPT ![h] = x]
            /\ graphRefs' = [graphRefs EXCEPT ![x] = @ + 1]
        BY <2>15, <4>0, <3>d, Takes
      <4>2. pc \in [Handlers -> HandlerStates] /\ graph \in [Handlers -> Graphs \cup {NoGraph}]
            /\ cleanup \in [Handlers -> {"none", "rpc", "complete", "unref"}] /\ graphRefs \in [Graphs -> Int]
        BY DEF Types
      <4> SUFFICES ASSUME NEW g1 \in Graphs
                   PROVE  (graphRefs[g1] = One(Kept(g1)) + Cardinality(HandlersWith(g1)) + Cardinality(CleanupsWith(g1)) + logging[g1])'
        BY DEF GraphRefsExact
      <4>3. /\ graphRefs[g1] = One(Kept(g1)) + Cardinality(HandlersWith(g1)) + Cardinality(CleanupsWith(g1)) + logging[g1]
            /\ logging[g1] \in Nat /\ logging'[g1] = logging[g1]
        BY <4>1 DEF GraphRefsExact, Types
      <4>4. \A k \in Handlers \ {h} : pc'[k] = pc[k] /\ graph'[k] = graph[k] /\ cleanup'[k] = cleanup[k]
        BY <4>1, <4>2
      <4>5. /\ Cardinality(HandlersWith(g1)) \in Nat /\ Cardinality(CleanupsWith(g1)) \in Nat
            /\ Cardinality(HandlersWith(g1))' =
                 Cardinality(HandlersWith(g1)) + One(h \in HandlersWith(g1))' - One(h \in HandlersWith(g1))
            /\ Cardinality(CleanupsWith(g1))' =
                 Cardinality(CleanupsWith(g1)) + One(h \in CleanupsWith(g1))' - One(h \in CleanupsWith(g1))
        BY <4>4, HandCount
      <4>6. CASE g1 = x
        <5>1. ~(h \in HandlersWith(g1)) /\ (h \in HandlersWith(g1))' /\ ~(h \in CleanupsWith(g1)) /\ ~(h \in CleanupsWith(g1))'
          BY <4>6, <4>1, <4>2 DEF HandlersWith, CleanupsWith, HoldsGraph
        <5>2. Kept(g1)' <=> Kept(g1)
          BY <4>1 DEF Kept
        <5> QED BY <5>1, <5>2, <4>1, <4>2, <4>3, <4>5, <4>6 DEF One
      <4>7. CASE g1 # x
        <5>1. /\ (h \in HandlersWith(g1))' <=> h \in HandlersWith(g1)
              /\ (h \in CleanupsWith(g1))' <=> h \in CleanupsWith(g1)
          BY <4>7, <4>1, <4>2 DEF HandlersWith, CleanupsWith, HoldsGraph
        <5>2. Kept(g1)' <=> Kept(g1) BY <4>7, <4>1 DEF Kept
        <5>3. graphRefs'[g1] = graphRefs[g1] BY <4>7, <4>1, <4>2
        <5> QED BY <5>1, <5>2, <5>3, <4>3, <4>5 DEF One
      <4> QED BY <4>6, <4>7
    <3> QED BY <2>15, <3>c, <3>d, Takes
  <2>16. ASSUME NEW g \in Graphs, ReleaseCallable(h, g) PROVE GraphRefsExact'
    <3>c. CASE pc' = [pc EXCEPT ![h] = "unref"] /\ UNCHANGED graph /\ g \notin callables
      <4>1. pc[h] = "ReleaseCallable" /\ UNCHANGED <<logging, cleanup, runGraphs, toUnref, graphRefs>> /\ callables' = callables \ {g}
        BY <2>16, Takes
      <4>2. SameHands BY <4>1, <3>c DEF SameHands, HoldsGraph, Types
      <4>3. UNCHANGED callables BY <4>1, <3>c
      <4> QED BY <4>1, <4>2, <4>3, <3>c, GraphFrame DEF Kept
    <3>d. CASE pc' = [pc EXCEPT ![h] = "drop"] /\ graph' = [graph EXCEPT ![h] = g] /\ g \in callables
      <4>0. PICK x \in Graphs : x = g OBVIOUS
      <4>1. /\ UNCHANGED <<logging, runGraphs, toUnref, graphRefs, cleanup>> /\ pc[h] = "ReleaseCallable" /\ cleanup[h] = "none"
            /\ pc' = [pc EXCEPT ![h] = "drop"] /\ graph' = [graph EXCEPT ![h] = x]
            /\ callables' = callables \ {x} /\ x \in callables
        BY <2>16, <4>0, <3>d, Takes
      <4>2. pc \in [Handlers -> HandlerStates] /\ graph \in [Handlers -> Graphs \cup {NoGraph}]
            /\ cleanup \in [Handlers -> {"none", "rpc", "complete", "unref"}] /\ graphRefs \in [Graphs -> Int]
        BY DEF Types
      <4> SUFFICES ASSUME NEW g1 \in Graphs
                   PROVE  (graphRefs[g1] = One(Kept(g1)) + Cardinality(HandlersWith(g1)) + Cardinality(CleanupsWith(g1)) + logging[g1])'
        BY DEF GraphRefsExact
      <4>3. /\ graphRefs[g1] = One(Kept(g1)) + Cardinality(HandlersWith(g1)) + Cardinality(CleanupsWith(g1)) + logging[g1]
            /\ logging[g1] \in Nat /\ logging'[g1] = logging[g1]
        BY <4>1 DEF GraphRefsExact, Types
      <4>4. \A k \in Handlers \ {h} : pc'[k] = pc[k] /\ graph'[k] = graph[k] /\ cleanup'[k] = cleanup[k]
        BY <4>1, <4>2
      <4>5. /\ Cardinality(HandlersWith(g1)) \in Nat /\ Cardinality(CleanupsWith(g1)) \in Nat
            /\ Cardinality(HandlersWith(g1))' =
                 Cardinality(HandlersWith(g1)) + One(h \in HandlersWith(g1))' - One(h \in HandlersWith(g1))
            /\ Cardinality(CleanupsWith(g1))' =
                 Cardinality(CleanupsWith(g1)) + One(h \in CleanupsWith(g1))' - One(h \in CleanupsWith(g1))
        BY <4>4, HandCount
      <4>6. CASE g1 = x
        <5>1. ~(h \in HandlersWith(g1)) /\ (h \in HandlersWith(g1))' /\ ~(h \in CleanupsWith(g1)) /\ ~(h \in CleanupsWith(g1))'
          BY <4>6, <4>1, <4>2 DEF HandlersWith, CleanupsWith, HoldsGraph
        <5>2. Kept(g1) /\ ~Kept(g1)'
          BY <4>1, <4>6 DEF Kept, GraphShape, GraphShapeOf
        <5> QED BY <5>1, <5>2, <4>1, <4>2, <4>3, <4>5, <4>6 DEF One
      <4>7. CASE g1 # x
        <5>1. /\ (h \in HandlersWith(g1))' <=> h \in HandlersWith(g1)
              /\ (h \in CleanupsWith(g1))' <=> h \in CleanupsWith(g1)
          BY <4>7, <4>1, <4>2 DEF HandlersWith, CleanupsWith, HoldsGraph
        <5>2. Kept(g1)' <=> Kept(g1) BY <4>7, <4>1 DEF Kept
        <5>3. graphRefs'[g1] = graphRefs[g1] BY <4>7, <4>1, <4>2
        <5> QED BY <5>1, <5>2, <5>3, <4>3, <4>5 DEF One
      <4> QED BY <4>6, <4>7
    <3> QED BY <2>16, <3>c, <3>d, Takes
  <2>17. CASE Done(h)
    <3>0. PICK s \in Sessions : s = sess[h] /\ UnrefSession(s) BY <2>17 DEF Done, Shape
    <3>1. UNCHANGED <<logging, callables, toUnref>> /\ SameHands
      BY <2>17 DEF Done, Release, SameHands, HoldsGraph, Types
    <3>2. \/ /\ RunGraph(s) \in runGraphs /\ runGraphs' = runGraphs \ {RunGraph(s)}
             /\ graphRefs' = [graphRefs EXCEPT ![RunGraph(s)] = @ - 1]
          \/ UNCHANGED <<runGraphs, graphRefs>>
      BY <3>0, Unrefs
    <3>3. CASE UNCHANGED <<runGraphs, graphRefs>>
      BY <3>1, <3>3, GraphFrame DEF Kept
    <3>4. CASE /\ RunGraph(s) \in runGraphs /\ runGraphs' = runGraphs \ {RunGraph(s)}
               /\ graphRefs' = [graphRefs EXCEPT ![RunGraph(s)] = @ - 1]
      <4> SUFFICES ASSUME NEW g1 \in Graphs
                   PROVE  (graphRefs[g1] = One(Kept(g1)) + Cardinality(HandlersWith(g1)) + Cardinality(CleanupsWith(g1)) + logging[g1])'
        BY DEF GraphRefsExact
      <4>1. /\ graphRefs[g1] = One(Kept(g1)) + Cardinality(HandlersWith(g1)) + Cardinality(CleanupsWith(g1)) + logging[g1]
            /\ logging[g1] \in Nat /\ logging'[g1] = logging[g1]
        BY <3>1 DEF GraphRefsExact, Types
      <4>2. HandlersWith(g1)' = HandlersWith(g1) /\ CleanupsWith(g1)' = CleanupsWith(g1)
        BY <3>1, HandFrame
      <4>3. Cardinality(HandlersWith(g1)) \in Nat /\ Cardinality(CleanupsWith(g1)) \in Nat
        BY Counts DEF HandlersWith, CleanupsWith
      <4>4. CASE g1 = RunGraph(s)
        <5>1. Kept(g1) /\ ~Kept(g1)' BY <4>4, <3>4, <3>1 DEF Kept, GraphShape, GraphShapeOf
        <5>2. graphRefs'[g1] = graphRefs[g1] - 1 BY <4>4, <3>4 DEF Types
        <5> QED BY <5>1, <5>2, <4>1, <4>2, <4>3 DEF One
      <4>5. CASE g1 # RunGraph(s)
        <5>1. Kept(g1)' <=> Kept(g1) BY <4>5, <3>4, <3>1 DEF Kept
        <5>2. graphRefs'[g1] = graphRefs[g1] BY <4>5, <3>4 DEF Types
        <5> QED BY <5>1, <5>2, <4>1, <4>2 DEF One
      <4> QED BY <4>4, <4>5
    <3> QED BY <3>2, <3>3, <3>4
  <2>18. CASE FillPerStepState(h)
    <3>1. graph[h] \in Graphs /\ UNCHANGED <<runGraphs, callables, toUnref>>
      BY <2>18 DEF FillPerStepState, Shape, HoldsGraph
    <3>2. SameHands BY <2>18 DEF FillPerStepState, SameHands, HoldsGraph, Types
    <3>3. CASE UNCHANGED <<graphRefs, logging>> BY <3>1, <3>2, <3>3, GraphFrame DEF Kept
    <3>4. CASE SetRPCLogging(graph[h])
      <4>1. \A g1 \in Graphs : /\ graphRefs'[g1] \in Int /\ logging'[g1] \in Int
                               /\ graphRefs'[g1] - logging'[g1] = graphRefs[g1] - logging[g1]
        BY <3>1, <3>4, Partitions DEF SetRPCLogging, Types
      <4> QED BY <3>1, <3>2, <4>1, LoggingFrame
    <3> QED BY <2>18, <3>3, <3>4 DEF FillPerStepState
  <2>19. CASE ProcessStats(h)
    <3>1. graph[h] \in Graphs /\ UNCHANGED <<runGraphs, callables, toUnref>>
      BY <2>19 DEF ProcessStats, Shape, HoldsGraph
    <3>2. SameHands BY <2>19 DEF ProcessStats, SameHands
    <3>3. \A g1 \in Graphs : /\ graphRefs'[g1] \in Int /\ logging'[g1] \in Int
                             /\ graphRefs'[g1] - logging'[g1] = graphRefs[g1] - logging[g1]
      BY <2>19, <3>1, Partitions DEF ProcessStats, SetRPCLogging, Types
    <3> QED BY <3>1, <3>2, <3>3, LoggingFrame
  <2> QED BY <1>1, <2>1, <2>2, <2>3, <2>4, <2>5, <2>6, <2>7, <2>8, <2>9, <2>10, <2>11, <2>12, <2>13,
             <2>14, <2>15, <2>16, <2>17, <2>18, <2>19 DEF HandlerStep
<1>2. ASSUME NEW h \in Handlers, CleanupStep(h) PROVE GraphRefsExact'
  <2>1. CASE CleanupDone(h)
    <3>0. PICK x \in Graphs : x = graph[h] BY <2>1 DEF CleanupDone, Shape, HoldsGraph
    <3>1. /\ UNCHANGED <<logging, runGraphs, callables, toUnref>> /\ UNCHANGED <<graph, pc>> /\ cleanup[h] = "rpc"
          /\ cleanup' = [cleanup EXCEPT ![h] = "complete"]
          /\ graphRefs' = [graphRefs EXCEPT ![x] = @ - 1] /\ graph[h] = x
      BY <2>1, <3>0 DEF CleanupDone, UnrefGraph
    <3>2. pc \in [Handlers -> HandlerStates] /\ graph \in [Handlers -> Graphs \cup {NoGraph}]
          /\ cleanup \in [Handlers -> {"none", "rpc", "complete", "unref"}] /\ graphRefs \in [Graphs -> Int]
      BY DEF Types
    <3> SUFFICES ASSUME NEW g1 \in Graphs
                 PROVE  (graphRefs[g1] = One(Kept(g1)) + Cardinality(HandlersWith(g1)) + Cardinality(CleanupsWith(g1)) + logging[g1])'
      BY DEF GraphRefsExact
    <3>3. /\ graphRefs[g1] = One(Kept(g1)) + Cardinality(HandlersWith(g1)) + Cardinality(CleanupsWith(g1)) + logging[g1]
          /\ logging[g1] \in Nat /\ logging'[g1] = logging[g1]
      BY <3>1 DEF GraphRefsExact, Types
    <3>4. \A k \in Handlers \ {h} : pc'[k] = pc[k] /\ graph'[k] = graph[k] /\ cleanup'[k] = cleanup[k]
      BY <3>1, <3>2
    <3>5. /\ Cardinality(HandlersWith(g1)) \in Nat /\ Cardinality(CleanupsWith(g1)) \in Nat
          /\ Cardinality(HandlersWith(g1))' =
               Cardinality(HandlersWith(g1)) + One(h \in HandlersWith(g1))' - One(h \in HandlersWith(g1))
          /\ Cardinality(CleanupsWith(g1))' =
               Cardinality(CleanupsWith(g1)) + One(h \in CleanupsWith(g1))' - One(h \in CleanupsWith(g1))
      BY <3>4, HandCount
    <3>6. CASE g1 = x
      <4>1. h \in CleanupsWith(g1) /\ ~(h \in CleanupsWith(g1))' /\ ((h \in HandlersWith(g1))' <=> h \in HandlersWith(g1))
        BY <3>6, <3>1, <3>2 DEF HandlersWith, CleanupsWith, HoldsGraph
      <4>2. Kept(g1)' <=> Kept(g1)
        BY <3>1 DEF Kept
      <4> QED BY <4>1, <4>2, <3>1, <3>2, <3>3, <3>5, <3>6 DEF One
    <3>7. CASE g1 # x
      <4>1. /\ (h \in HandlersWith(g1))' <=> h \in HandlersWith(g1)
            /\ (h \in CleanupsWith(g1))' <=> h \in CleanupsWith(g1)
        BY <3>7, <3>1, <3>2 DEF HandlersWith, CleanupsWith, HoldsGraph
      <4>2. Kept(g1)' <=> Kept(g1) BY <3>7, <3>1 DEF Kept
      <4>3. graphRefs'[g1] = graphRefs[g1] BY <3>7, <3>1, <3>2
      <4> QED BY <4>1, <4>2, <4>3, <3>3, <3>5 DEF One
    <3> QED BY <3>6, <3>7
  <2>2. CASE CleanupComplete(h)
    BY <2>2, GraphFrame DEF CleanupComplete, MarkRunCompletion, Types, SameHands, HoldsGraph, AllKinds,
       Kept
  <2>3. CASE CleanupUnref(h)
    <3>0. PICK s \in Sessions : s = sess[h] /\ UnrefSession(s) BY <2>3 DEF CleanupUnref, Shape
    <3>1. UNCHANGED <<logging, callables, toUnref>> /\ SameHands
      BY <2>3 DEF CleanupUnref, Release, SameHands, HoldsGraph, Types
    <3>2. \/ /\ RunGraph(s) \in runGraphs /\ runGraphs' = runGraphs \ {RunGraph(s)}
             /\ graphRefs' = [graphRefs EXCEPT ![RunGraph(s)] = @ - 1]
          \/ UNCHANGED <<runGraphs, graphRefs>>
      BY <3>0, Unrefs
    <3>3. CASE UNCHANGED <<runGraphs, graphRefs>>
      BY <3>1, <3>3, GraphFrame DEF Kept
    <3>4. CASE /\ RunGraph(s) \in runGraphs /\ runGraphs' = runGraphs \ {RunGraph(s)}
               /\ graphRefs' = [graphRefs EXCEPT ![RunGraph(s)] = @ - 1]
      <4> SUFFICES ASSUME NEW g1 \in Graphs
                   PROVE  (graphRefs[g1] = One(Kept(g1)) + Cardinality(HandlersWith(g1)) + Cardinality(CleanupsWith(g1)) + logging[g1])'
        BY DEF GraphRefsExact
      <4>1. /\ graphRefs[g1] = One(Kept(g1)) + Cardinality(HandlersWith(g1)) + Cardinality(CleanupsWith(g1)) + logging[g1]
            /\ logging[g1] \in Nat /\ logging'[g1] = logging[g1]
        BY <3>1 DEF GraphRefsExact, Types
      <4>2. HandlersWith(g1)' = HandlersWith(g1) /\ CleanupsWith(g1)' = CleanupsWith(g1)
        BY <3>1, HandFrame
      <4>3. Cardinality(HandlersWith(g1)) \in Nat /\ Cardinality(CleanupsWith(g1)) \in Nat
        BY Counts DEF HandlersWith, CleanupsWith
      <4>4. CASE g1 = RunGraph(s)
        <5>1. Kept(g1) /\ ~Kept(g1)' BY <4>4, <3>4, <3>1 DEF Kept, GraphShape, GraphShapeOf
        <5>2. graphRefs'[g1] = graphRefs[g1] - 1 BY <4>4, <3>4 DEF Types
        <5> QED BY <5>1, <5>2, <4>1, <4>2, <4>3 DEF One
      <4>5. CASE g1 # RunGraph(s)
        <5>1. Kept(g1)' <=> Kept(g1) BY <4>5, <3>4, <3>1 DEF Kept
        <5>2. graphRefs'[g1] = graphRefs[g1] BY <4>5, <3>4 DEF Types
        <5> QED BY <5>1, <5>2, <4>1, <4>2 DEF One
      <4> QED BY <4>4, <4>5
    <3> QED BY <3>2, <3>3, <3>4
  <2> QED BY <1>2, <2>1, <2>2, <2>3 DEF CleanupStep
<1>3. ASSUME NEW s \in Sessions, OwnerStep(s) PROVE GraphRefsExact'
  <2>1. CASE CreateSession(s)
    BY <2>1, GraphFrame DEF CreateSession, Pass, Types, SameHands, HoldsGraph, AllKinds, Kept
  <2>2. CASE ResetNext(s)
    BY <2>2, GraphFrame DEF ResetNext, Pass, Types, SameHands, HoldsGraph, AllKinds, Kept
  <2>3. CASE CloseSection(s)
    BY <2>3, GraphFrame DEF CloseSection, Pass, Types, SameHands, HoldsGraph, AllKinds, Kept
  <2>4. CASE CancelSteps(s)
    BY <2>4, GraphFrame DEF CancelSteps, StartCancel, ReportBadStatus, ReportedCalls, ReportedStatus,
       GroupUpdate, Told, Pass, Types, SameHands, HoldsGraph, AllKinds, Kept
  <2>5. CASE DrainSession(s)
    <3>1. /\ UNCHANGED <<logging, graphRefs, pc, graph, cleanup>>
          /\ toUnref' = [toUnref EXCEPT ![s] = {g \in runGraphs \cup callables : g[1] = s}]
          /\ runGraphs' = runGraphs \ toUnref'[s] /\ callables' = callables \ toUnref'[s]
      BY <2>5 DEF DrainSession
    <3>2. SameHands BY <3>1 DEF SameHands
    <3>3. toUnref'[s] = {g \in runGraphs \cup callables : g[1] = s} /\ \A t \in Sessions \ {s} : toUnref'[t] = toUnref[t]
      BY <3>1 DEF Types
    <3>4. \A g1 \in toUnref[s] : FALSE
      <4>1. owner[s] = "drain" BY <2>5 DEF DrainSession, Pass
      <4>2. \A g1 \in toUnref[s] : g1 \in Graphs /\ g1[1] = s BY DEF GraphShape, Types
      <4> QED BY <4>1, <4>2 DEF GraphShape, GraphShapeOf
    <3>5. ASSUME NEW g1 \in Graphs PROVE Kept(g1)' <=> Kept(g1)
      <4>1. g1[1] \in Sessions BY GraphPairs
      <4> QED BY <4>1, <3>1, <3>3, <3>4 DEF Kept
    <3> QED BY <3>1, <3>2, <3>5, GraphFrame
  <2>6. CASE ClearGraphs(s)
    <3>1. /\ UNCHANGED <<logging, runGraphs, callables, pc, graph, cleanup>> /\ toUnref' = [toUnref EXCEPT ![s] = {}]
          /\ graphRefs' = [g \in Graphs |-> IF g \in toUnref[s] THEN graphRefs[g] - 1 ELSE graphRefs[g]]
      BY <2>6 DEF ClearGraphs
    <3>2. SameHands BY <3>1 DEF SameHands
    <3> SUFFICES ASSUME NEW g1 \in Graphs
                 PROVE  (graphRefs[g1] = One(Kept(g1)) + Cardinality(HandlersWith(g1)) + Cardinality(CleanupsWith(g1)) + logging[g1])'
      BY DEF GraphRefsExact
    <3>3. /\ graphRefs[g1] = One(Kept(g1)) + Cardinality(HandlersWith(g1)) + Cardinality(CleanupsWith(g1)) + logging[g1]
          /\ logging[g1] \in Nat /\ logging'[g1] = logging[g1]
      BY <3>1 DEF GraphRefsExact, Types
    <3>4. HandlersWith(g1)' = HandlersWith(g1) /\ CleanupsWith(g1)' = CleanupsWith(g1)
      BY <3>2, HandFrame
    <3>5. Cardinality(HandlersWith(g1)) \in Nat /\ Cardinality(CleanupsWith(g1)) \in Nat
      BY Counts DEF HandlersWith, CleanupsWith
    <3>6. g1[1] \in Sessions /\ (g1 \in toUnref[s] => g1[1] = s) BY GraphPairs DEF GraphShape
    <3>7. toUnref'[s] = {} /\ \A t \in Sessions \ {s} : toUnref'[t] = toUnref[t] BY <3>1 DEF Types
    <3>8. CASE g1 \in toUnref[s]
      <4>1. Kept(g1) /\ ~Kept(g1)' BY <3>8, <3>1, <3>6, <3>7 DEF Kept, GraphShape, GraphShapeOf
      <4>2. graphRefs'[g1] = graphRefs[g1] - 1 BY <3>8, <3>1
      <4> QED BY <4>1, <4>2, <3>3, <3>4, <3>5 DEF One
    <3>9. CASE g1 \notin toUnref[s]
      <4>1. Kept(g1)' <=> Kept(g1) BY <3>9, <3>1, <3>6, <3>7 DEF Kept
      <4>2. graphRefs'[g1] = graphRefs[g1] BY <3>9, <3>1
      <4> QED BY <4>1, <4>2, <3>3, <3>4 DEF One
    <3> QED BY <3>8, <3>9
  <2>7. CASE OwnerUnref(s)
    <3>0. UnrefSession(s) BY <2>7 DEF OwnerUnref
    <3>1. UNCHANGED <<logging, callables, toUnref>> /\ SameHands
      BY <2>7 DEF OwnerUnref, Release, SameHands, HoldsGraph, Types
    <3>2. \/ /\ RunGraph(s) \in runGraphs /\ runGraphs' = runGraphs \ {RunGraph(s)}
             /\ graphRefs' = [graphRefs EXCEPT ![RunGraph(s)] = @ - 1]
          \/ UNCHANGED <<runGraphs, graphRefs>>
      BY <3>0, Unrefs
    <3>3. CASE UNCHANGED <<runGraphs, graphRefs>>
      BY <3>1, <3>3, GraphFrame DEF Kept
    <3>4. CASE /\ RunGraph(s) \in runGraphs /\ runGraphs' = runGraphs \ {RunGraph(s)}
               /\ graphRefs' = [graphRefs EXCEPT ![RunGraph(s)] = @ - 1]
      <4> SUFFICES ASSUME NEW g1 \in Graphs
                   PROVE  (graphRefs[g1] = One(Kept(g1)) + Cardinality(HandlersWith(g1)) + Cardinality(CleanupsWith(g1)) + logging[g1])'
        BY DEF GraphRefsExact
      <4>1. /\ graphRefs[g1] = One(Kept(g1)) + Cardinality(HandlersWith(g1)) + Cardinality(CleanupsWith(g1)) + logging[g1]
            /\ logging[g1] \in Nat /\ logging'[g1] = logging[g1]
        BY <3>1 DEF GraphRefsExact, Types
      <4>2. HandlersWith(g1)' = HandlersWith(g1) /\ CleanupsWith(g1)' = CleanupsWith(g1)
        BY <3>1, HandFrame
      <4>3. Cardinality(HandlersWith(g1)) \in Nat /\ Cardinality(CleanupsWith(g1)) \in Nat
        BY Counts DEF HandlersWith, CleanupsWith
      <4>4. CASE g1 = RunGraph(s)
        <5>1. Kept(g1) /\ ~Kept(g1)' BY <4>4, <3>4, <3>1 DEF Kept, GraphShape, GraphShapeOf
        <5>2. graphRefs'[g1] = graphRefs[g1] - 1 BY <4>4, <3>4 DEF Types
        <5> QED BY <5>1, <5>2, <4>1, <4>2, <4>3 DEF One
      <4>5. CASE g1 # RunGraph(s)
        <5>1. Kept(g1)' <=> Kept(g1) BY <4>5, <3>4, <3>1 DEF Kept
        <5>2. graphRefs'[g1] = graphRefs[g1] BY <4>5, <3>4 DEF Types
        <5> QED BY <5>1, <5>2, <4>1, <4>2 DEF One
      <4> QED BY <4>4, <4>5
    <3> QED BY <3>2, <3>3, <3>4
  <2> QED BY <1>3, <2>1, <2>2, <2>3, <2>4, <2>5, <2>6, <2>7 DEF OwnerStep
<1>4. ASSUME NEW h \in Handlers, NEW w \in Workers, WhenDone(h, w) PROVE GraphRefsExact'
    BY <1>4, GraphFrame DEF WhenDone, ReportedCalls, ReportedStatus, GroupUpdate, Told, Types,
       SameHands, HoldsGraph, AllKinds, Kept
<1>5. ASSUME NEW h \in Handlers, ClientCancel(h) PROVE GraphRefsExact'
    BY <1>5, GraphFrame DEF ClientCancel, ReportBadStatus, ReportedCalls, ReportedStatus, GroupUpdate,
       Told, Types, SameHands, HoldsGraph, AllKinds, Kept
<1>6. ASSUME NEW h \in Handlers, NEW s \in Sessions, NEW op \in RequestKinds, FindMasterSession(h, s, op)
      PROVE  GraphRefsExact'
    BY <1>6, GraphFrame DEF FindMasterSession, RefSession, sessions_, Types, SameHands, HoldsGraph,
       AllKinds, Kept
<1>7. ASSUME NEW s \in Sessions, NewSession(s) PROVE GraphRefsExact'
    BY <1>7, GraphFrame DEF NewSession, Pass, Types, SameHands, HoldsGraph, AllKinds, Kept
<1>8. ASSUME NEW s \in Sessions, CloseSession(s) PROVE GraphRefsExact'
    BY <1>8, GraphFrame DEF CloseSession, Pass, Types, SameHands, HoldsGraph, AllKinds, Kept
<1>9. ASSUME NEW s \in Sessions, GC(s) PROVE GraphRefsExact'
    BY <1>9, GraphFrame DEF GC, Pass, Types, SameHands, HoldsGraph, AllKinds, Kept
<1>10. CASE Reset
    BY <1>10, GraphFrame DEF Reset, sessions_, Types, SameHands, HoldsGraph, AllKinds, Kept
<1>11. CASE UNCHANGED mVars
    BY <1>11, GraphFrame DEF mVars, msVars, Types, SameHands, HoldsGraph, AllKinds, Kept
<1>12. ASSUME NEW g \in Graphs, LoggingDone(g) PROVE GraphRefsExact'
    <3>1. SameHands /\ UNCHANGED <<runGraphs, callables, toUnref>> BY <1>12 DEF LoggingDone, SameHands
    <3>2. \A g1 \in Graphs : /\ graphRefs'[g1] \in Int /\ logging'[g1] \in Int
                             /\ graphRefs'[g1] - logging'[g1] = graphRefs[g1] - logging[g1]
      <4>1. graphRefs \in [Graphs -> Int] /\ logging \in [Graphs -> Int] BY DEF Types
      <4>2. graphRefs' = [graphRefs EXCEPT ![g] = @ - 1] /\ logging' = [logging EXCEPT ![g] = @ - 1]
        BY <1>12 DEF LoggingDone, UnrefGraph
      <4> QED BY <4>1, <4>2
    <3> QED BY <3>1, <3>2, LoggingFrame
<1>13. ASSUME NEW s \in Sessions, CleanupWorkers(s) PROVE GraphRefsExact'
    BY <1>13, GraphFrame DEF CleanupWorkers, Types, SameHands, HoldsGraph, AllKinds, Kept
<1> QED BY <1>1, <1>2, <1>3, <1>4, <1>5, <1>6, <1>7, <1>8, <1>9, <1>10, <1>11, <1>12, <1>13
        DEF MNext, MStep, Living, WorkerAnswers, ClientLeaves, LoggingAnswered

---------------------------------------------------------------------------
(* The invariant.                                                          *)

\* The sessions that one Reset takes from the table, and whether the process died.
BatchOK == batch \in [Sessions -> SUBSET Sessions] /\ crashed \in BOOLEAN

\* The inductive invariant.
MasterInv ==
  /\ Types /\ BatchOK /\ Shape /\ OwnerShape /\ Calls /\ Born
  /\ RunningExact /\ SessionRefsExact /\ Drained
  /\ InHand /\ GraphShape /\ MakersAlone /\ GraphRefsExact

\* Every step keeps their types.
LEMMA BatchStep ==
  ASSUME BatchOK, MNext \/ UNCHANGED mVars
  PROVE  BatchOK'
<1> DEFINE Batches == [Sessions -> SUBSET Sessions]
<1>1. batch \in Batches BY DEF BatchOK
<1>2. Reset => batch' \in Batches
  BY <1>1 DEF Reset, sessions_
<1>3. ASSUME NEW h \in Handlers, HandlerStep(h) PROVE UNCHANGED batch
  BY <1>3 DEF HandlerStep, Done
<1>4. ASSUME NEW h \in Handlers, CleanupStep(h) PROVE UNCHANGED batch
  BY <1>4 DEF CleanupStep
<1>5. ASSUME NEW s \in Sessions, OwnerStep(s) PROVE UNCHANGED batch
  BY <1>5 DEF OwnerStep, CreateSession, ResetNext
<1>6. ASSUME NEW s \in Sessions, NewSession(s) \/ CloseSession(s) \/ GC(s) PROVE UNCHANGED batch
  BY <1>6 DEF NewSession, CloseSession, GC
<1>7. ASSUME NEW h \in Handlers, ClientLeaves(h) \/ \E w \in Workers : WorkerAnswers(h, w)
      PROVE  UNCHANGED batch
  BY <1>7 DEF ClientLeaves, WorkerAnswers
<1>8. ASSUME NEW h \in Handlers, NEW s \in Sessions, NEW op \in RequestKinds, FindMasterSession(h, s, op)
      PROVE  UNCHANGED batch
  BY <1>8 DEF FindMasterSession
<1>9. ASSUME NEW g \in Graphs, LoggingAnswered(g) PROVE UNCHANGED batch
  BY <1>9 DEF LoggingAnswered
<1>10. MStep => batch' \in Batches
  <2> HAVE MStep
  <2>1. UNCHANGED batch \/ Reset
    BY <1>3, <1>4, <1>5, <1>6, <1>7, <1>8, <1>9 DEF MStep
  <2> QED BY <1>1, <1>2, <2>1
<1>11. CASE Living(MStep)
  BY <1>10, <1>11 DEF Living, BatchOK
<1>12. ASSUME NEW s \in Sessions, CleanupWorkers(s) PROVE BatchOK'
  BY <1>12 DEF CleanupWorkers, BatchOK
<1>13. CASE UNCHANGED mVars BY <1>13 DEF mVars, BatchOK
<1> QED BY <1>11, <1>12, <1>13 DEF MNext

\* The master starts in the invariant.
LEMMA MasterInitially == MInit => MasterInv
<1> SUFFICES ASSUME MInit PROVE MasterInv OBVIOUS
<1> USE DEF MInit, MSInit
<1>1. Types /\ BatchOK
  <2>1. status \in [Handlers -> Statuses] BY DEF Statuses
  <2>2. pc \in [Handlers -> HandlerStates] /\ owner \in [Sessions -> OwnerStates]
    BY DEF HandlerStates, OwnerStates
  <2>3. BatchOK BY DEF BatchOK
  <2> QED BY <2>1, <2>2, <2>3, MasterSessionAssumption DEF Types
<1>2. Shape /\ OwnerShape /\ Calls /\ Born
  BY Codes DEF Shape, OwnerShape, Calls, CallsOf, Born, HoldsGraph
<1>3. Drained /\ InHand /\ MakersAlone
  BY DEF Drained, InStep, InHand, MakersAlone, Making, HoldsGraph
<1>4. GraphShape
  BY GraphPairs DEF GraphShape, GraphShapeOf, Kept
<1>5. RunningExact
  <2>1. \A s \in Sessions : StepsOf(s) = {} BY DEF StepsOf, InStep
  <2> QED BY <2>1, FS_EmptySet DEF RunningExact
<1>6. SessionRefsExact
  <2>1. \A s \in Sessions : HandlersOf(s) = {} /\ CleanupsOf(s) = {} /\ ~Owned(s)
    BY DEF HandlersOf, CleanupsOf, Owned
  <2>2. Cardinality({}) = 0 BY FS_EmptySet
  <2>3. \A s \in Sessions : One(Owned(s)) = 0 BY <2>1 DEF One
  <2>4. \A s \in Sessions : refs[s] = 0 OBVIOUS
  <2> HIDE DEF MInit, MSInit
  <2> QED BY <2>1, <2>2, <2>3, <2>4 DEF SessionRefsExact
<1>7. GraphRefsExact
  <2>1. \A g \in Graphs : HandlersWith(g) = {} /\ CleanupsWith(g) = {} /\ ~Kept(g)
    BY GraphPairs DEF HandlersWith, CleanupsWith, HoldsGraph, Kept
  <2>2. Cardinality({}) = 0 BY FS_EmptySet
  <2>3. \A g \in Graphs : One(Kept(g)) = 0 BY <2>1 DEF One
  <2>4. \A g \in Graphs : graphRefs[g] = 0 /\ logging[g] = 0 OBVIOUS
  <2> HIDE DEF MInit, MSInit
  <2> QED BY <2>1, <2>2, <2>3, <2>4 DEF GraphRefsExact
<1> QED BY <1>1, <1>2, <1>3, <1>4, <1>5, <1>6, <1>7 DEF MasterInv

\* Every step keeps the invariant.
LEMMA MasterInvStep == MasterInv /\ [MNext]_mVars => MasterInv'
<1> SUFFICES ASSUME MasterInv, MNext \/ UNCHANGED mVars PROVE MasterInv'
  OBVIOUS
<1>1. /\ Types /\ BatchOK /\ Shape /\ OwnerShape /\ Calls /\ Born
      /\ RunningExact /\ SessionRefsExact /\ Drained
      /\ InHand /\ GraphShape /\ MakersAlone /\ GraphRefsExact
  BY DEF MasterInv
<1>2. Types' /\ BatchOK' /\ Shape' /\ OwnerShape'
  BY <1>1, TypesStep, BatchStep, ShapeStep, OwnerShapeStep
<1>3. Calls' /\ Born' /\ RunningExact' /\ SessionRefsExact' /\ Drained'
  BY <1>1, CallsStep, BornStep, RunningStep, SessionRefsStep, DrainedStep
<1>4. InHand' /\ GraphShape' /\ MakersAlone' /\ GraphRefsExact'
  BY <1>1, InHandStep, GraphShapeStep, MakersStep, GraphRefsStep
<1> QED BY <1>2, <1>3, <1>4 DEF MasterInv

\* The inductive invariant holds in every behaviour of the master: at every point of every handler of
\* master.cc the counts of steps, session users and graph users are exact.
THEOREM MasterInvAlways == MSpec => []MasterInv
<1> QED BY MasterInitially, MasterInvStep, PTL DEF MSpec

---------------------------------------------------------------------------
(* What the invariant says.                                                *)

\* No reference count and no num_running_ is ever given back more often than it
\* was taken: the counters of every session and graph stay natural numbers.
THEOREM MasterTypeCorrect == MSpec => []MTypeOK
<1>1. MasterInv => MTypeOK
  <2> SUFFICES ASSUME MasterInv PROVE MTypeOK OBVIOUS
  <2>1. Types /\ BatchOK BY DEF MasterInv
  <2>2. refs \in [Sessions -> Nat]
    BY <2>1, Alive DEF MasterInv, Types
  <2>3. numRunning \in [Sessions -> Nat]
    <3>1. \A s \in Sessions : numRunning[s] \in Nat BY Counts DEF MasterInv, RunningExact, StepsOf
    <3> QED BY <3>1, <2>1 DEF Types
  <2>4. graphRefs \in [Graphs -> Nat]
    <3>1. ASSUME NEW g \in Graphs PROVE graphRefs[g] \in Nat
      <4>1. Cardinality(HandlersWith(g)) \in Nat /\ Cardinality(CleanupsWith(g)) \in Nat
        BY Counts DEF HandlersWith, CleanupsWith
      <4> QED BY <4>1, <2>1 DEF MasterInv, GraphRefsExact, One, Types
    <3> QED BY <3>1, <2>1 DEF Types
  <2> QED BY <2>1, <2>2, <2>3, <2>4 DEF MTypeOK, Types, BatchOK, Statuses
<1> QED BY <1>1, MasterInvAlways, PTL

\* The reference count of a MasterSession is the number of its users.
THEOREM SessionRefsAlwaysExact == MSpec => []SessionRefsExact
<1>1. MasterInv => SessionRefsExact BY DEF MasterInv
<1> QED BY <1>1, MasterInvAlways, PTL

\* The reference count of a ReffedClientGraph is the number of its users.
THEOREM GraphRefsAlwaysExact == MSpec => []GraphRefsExact
<1>1. MasterInv => GraphRefsExact BY DEF MasterInv
<1> QED BY <1>1, MasterInvAlways, PTL

\* The objects that closures of the master share live as long as their users.
THEOREM RefsAlwaysExact == MSpec => []RefsExact
<1>1. MasterInv => RefsExact BY DEF MasterInv, RefsExact
<1> QED BY <1>1, MasterInvAlways, PTL

\* A deleted session leaves a graph behind only while a closure of SetRPCLogging
\* refers to it, or if it is a callable and the session was collected or its
\* MakeCallable overlapped Close.
THEOREM GraphsAlwaysGo == MSpec => []GraphsGoWithSession
<1>1. MasterInv => GraphsGoWithSession
  <2> SUFFICES ASSUME MasterInv, NEW g \in Graphs, Deleted(g[1]), graphRefs[g] > 0, logging[g] = 0
               PROVE  g # RunGraph(g[1]) /\ (collected[g[1]] \/ g \in late)
    BY DEF GraphsGoWithSession, MasterInv, Types
  <2>1. /\ Types /\ Shape /\ OwnerShape /\ SessionRefsExact /\ GraphShapeOf(g)
        /\ g[1] \in Sessions /\ refs[g[1]] = 0 /\ owner[g[1]] # "unborn"
    BY GraphPairs DEF MasterInv, GraphShape, Deleted
  <2>2. ~Owned(g[1]) BY <2>1, Alive
  <2>3. HandlersWith(g) = {} /\ CleanupsWith(g) = {}
    <3>1. ASSUME NEW h \in HandlersWith(g) \cup CleanupsWith(g) PROVE FALSE
      <4>1. h \in Handlers /\ graph[h] = g /\ (pc[h] \in HoldsGraph \/ cleanup[h] = "rpc")
        BY DEF HandlersWith, CleanupsWith
      <4>2. sess[h] = g[1] /\ (pc[h] # "idle" \/ cleanup[h] # "none")
        BY <4>1, <2>1 DEF Shape, HoldsGraph
      <4> QED BY <4>1, <4>2, <2>1, Alive
    <3> QED BY <3>1
  <2>4. Kept(g)
    BY <2>3, FS_EmptySet DEF MasterInv, GraphRefsExact, One
  <2>5. g \in callables /\ g # RunGraph(g[1])
    BY <2>1, <2>2, <2>4 DEF Kept, GraphShapeOf, Owned
  <2>6. owner[g[1]] \in {"done", "lapsed"}
    BY <2>1, <2>2 DEF Owned, Types
  <2> QED BY <2>1, <2>5, <2>6 DEF GraphShapeOf, OwnerShape
<1> QED BY <1>1, MasterInvAlways, PTL

\* num_running_ counts the steps that have still to mark their completion.
THEOREM RunningAlwaysExact == MSpec => []RunningExact
<1>1. MasterInv => RunningExact BY DEF MasterInv
<1> QED BY <1>1, MasterInvAlways, PTL

\* MasterSession::Close does not go on while a step or one of its calls runs.
THEOREM CloseAlwaysWaits == MSpec => []CloseWaitsForSteps
<1>1. MasterInv => CloseWaitsForSteps
  <2> SUFFICES ASSUME MasterInv, NEW s \in Sessions, owner[s] \in {"clear", "closed", "done"},
                      NEW h \in Handlers, sess[h] = s
               PROVE  ~InStep(h) /\ \A w \in Workers : call[h][w] = "none"
    BY DEF CloseWaitsForSteps
  <2>1. ~InStep(h) BY DEF MasterInv, Drained
  <2>2. pc[h] \notin {"issue", "waiting"} BY <2>1 DEF InStep
  <2> QED BY <2>1, <2>2 DEF MasterInv, Calls, CallsOf
<1> QED BY <1>1, MasterInvAlways, PTL

\* A cancellation of the session reaches every step that waits, whether its
\* callback was registered before it or refused after; only a call that was issued
\* after a sibling had failed does not hear of it.
THEOREM CancelAlwaysReaches == MSpec => []CancelReachesCalls
<1>1. MasterInv => CancelReachesCalls
  BY DEF MasterInv, Calls, CallsOf, CancelReachesCalls, At
<1> QED BY <1>1, MasterInvAlways, PTL

\* A plain CANCELLED is never the answer to a step that only its session has
\* cancelled: the client did, or a worker answered CANCELLED, before it closed.
THEOREM PlainCancelNeverTheSessions == MSpec => []PlainCancelNotTheSessions
<1>1. MasterInv => PlainCancelNotTheSessions
  BY DEF MasterInv, Calls, CallsOf, PlainCancelNotTheSessions
<1> QED BY <1>1, MasterInvAlways, PTL

---------------------------------------------------------------------------
(* The refinement.                                                         *)

\* What SessionService sees of the sessions.
Phases == [s \in Sessions |-> PhaseOf(s)]
Steps  == [s \in Sessions |-> StepsOf(s)]

\* A session whose count falls to zero was closed, and no step of it is left.
LEMMA Vanishes ==
  ASSUME MasterInv, MasterInv', SameSteps, NEW s \in Sessions, UnrefSession(s), UNCHANGED <<closed, version>>,
         owner[s] # "unborn",
         \/ UNCHANGED owner
         \/ owner[s] = "closed" /\ owner' = [owner EXCEPT ![s] = "done"]
         \/ owner[s] = "unref" /\ owner' = [owner EXCEPT ![s] = "lapsed"]
  PROVE  Service!Vanish(s) \/ UNCHANGED Service!serviceVars
<1>1. refs \in [Sessions -> Int] /\ owner \in [Sessions -> OwnerStates] /\ refs' = [refs EXCEPT ![s] = @ - 1]
  BY DEF MasterInv, Types, UnrefSession
<1>2. Steps' = Steps
  BY DEF SameSteps, Steps, StepsOf
<1>3. \A t \in Sessions \ {s} : refs'[t] = refs[t] /\ owner'[t] = owner[t]
  BY <1>1
<1>4. refs'[s] = refs[s] - 1 /\ refs[s] \in Nat /\ refs'[s] \in Nat
  BY <1>1, Alive, AliveNext DEF MasterInv, UsersAlive
<1>5. \/ owner'[s] = owner[s]
      \/ owner[s] = "closed" /\ owner'[s] = "done"
      \/ owner[s] = "unref" /\ owner'[s] = "lapsed"
  BY <1>1
<1>6. \A t \in Sessions \ {s} : PhaseOf(t)' = PhaseOf(t)
  BY <1>3 DEF PhaseOf
<1>7. CASE refs'[s] # 0
  <2>1. PhaseOf(s)' = PhaseOf(s) BY <1>4, <1>5, <1>7 DEF PhaseOf
  <2>2. Phases' = Phases BY <1>6, <2>1 DEF Phases
  <2> QED BY <1>2, <2>2 DEF Service!serviceVars, Phases, Steps
<1>8. CASE refs'[s] = 0
  <2>1. ~Owned(s)' BY <1>8, AliveNext DEF MasterInv, UsersAlive
  <2>2. closed[s] BY <2>1, <1>5 DEF Owned, MasterInv, OwnerShape, Types
  <2>3. PhaseOf(s) \in {"closed", "drained"} /\ PhaseOf(s)' = "gone"
    BY <1>4, <1>5, <1>8, <2>2 DEF PhaseOf
  <2>4. Phases' = [Phases EXCEPT ![s] = "gone"] BY <1>6, <2>3 DEF Phases
  <2>5. StepsOf(s)' = {}
    <3>1. ASSUME NEW h \in StepsOf(s)' PROVE FALSE
      <4>1. h \in Handlers /\ sess'[h] = s /\ InStep(h)' BY DEF StepsOf
      <4>2. pc'[h] # "idle" \/ cleanup'[h] # "none" BY <4>1 DEF InStep
      <4> QED BY <4>1, <4>2, <1>8, AliveNext DEF MasterInv, UsersAlive
    <3> QED BY <3>1
  <2>6. StepsOf(s) = {} BY <1>2, <2>5 DEF Steps
  <2> QED BY <1>2, <2>3, <2>4, <2>6 DEF Service!Vanish, Phases, Steps
<1> QED BY <1>7, <1>8

\* A session whose owner, counts and steps stay keeps its phase.
LEMMA PhaseKept ==
  ASSUME MasterInv, SameSteps, UNCHANGED <<closed, version>>,
         \A s \in Sessions : refs'[s] = 0 <=> refs[s] = 0,
         \A s \in Sessions : owner'[s] = "unborn" <=> owner[s] = "unborn",
         \A s \in Sessions : closed[s] => (owner'[s] \in {"clear", "closed", "done"} <=> owner[s] \in {"clear", "closed", "done"})
  PROVE  UNCHANGED Service!serviceVars
<1>1. Steps' = Steps BY DEF SameSteps, Steps, StepsOf
<1>2. Phases' = Phases BY DEF Phases, PhaseOf
<1> QED BY <1>1, <1>2 DEF Service!serviceVars, Phases, Steps

\* An action that touches neither the counts nor the owners.
LEMMA PhaseFrame ==
  ASSUME MasterInv, SameSteps, UNCHANGED <<closed, version, refs, owner>>
  PROVE  UNCHANGED Service!serviceVars
BY PhaseKept

\* A step begins, or ends.
LEMMA StepsMove ==
  ASSUME MasterInv, NEW k \in Handlers, Begins(k) \/ Ends(k)
  PROVE  Service!ServiceNext
<1>1. UNCHANGED <<refs, owner, closed, version, sess>> /\ sess[k] \in Sessions
  BY DEF Begins, Ends
<1>2. Phases' = Phases BY <1>1 DEF Phases, PhaseOf
<1>3. CASE Begins(k)
  <2>1. StepsOf(sess[k])' = StepsOf(sess[k]) \cup {k} /\ \A t \in Sessions \ {sess[k]} : StepsOf(t)' = StepsOf(t)
    BY <1>3, <1>1 DEF Begins, StepsOf
  <2>2. Steps' = [Steps EXCEPT ![sess[k]] = @ \cup {k}] BY <1>1, <2>1 DEF Steps
  <2>3. \A t \in Sessions : k \notin Steps[t] BY <1>3 DEF Begins, Steps, StepsOf
  <2>4. Phases[sess[k]] = "open"
    BY <1>1, <1>3, Alive DEF MasterInv, Born, Begins, Phases, PhaseOf
  <2> QED BY <1>1, <1>2, <2>2, <2>3, <2>4 DEF Service!ServiceNext, Service!BeginStep, Phases, Steps
<1>4. CASE Ends(k)
  <2>1. StepsOf(sess[k])' = StepsOf(sess[k]) \ {k} /\ \A t \in Sessions \ {sess[k]} : StepsOf(t)' = StepsOf(t)
    BY <1>4, <1>1 DEF Ends, StepsOf
  <2>2. Steps' = [Steps EXCEPT ![sess[k]] = @ \ {k}] BY <1>1, <2>1 DEF Steps
  <2>3. k \in Steps[sess[k]] BY <1>1, <1>4 DEF Ends, Steps, StepsOf
  <2> QED BY <1>1, <1>2, <2>2, <2>3 DEF Service!ServiceNext, Service!EndStep, Phases, Steps
<1> QED BY <1>3, <1>4

\* Every step of the master is a step of SessionService or a stutter.
LEMMA ServiceStep ==
  ASSUME MasterInv, MasterInv', MNext \/ UNCHANGED mVars
  PROVE  Service!ServiceNext \/ UNCHANGED Service!serviceVars
<1> DEFINE Goal == Service!ServiceNext \/ UNCHANGED Service!serviceVars
<1> SUFFICES ASSUME SameSteps PROVE Goal
  BY StepEffect, StepsMove DEF MasterInv
<1> USE MasterAssumption DEF At, Go, sessionVars, graphVars, stepVars, handlerVars, ownerVars
<1>1. ASSUME NEW h \in Handlers, HandlerStep(h) PROVE Goal
  <2>1. CASE EnterRun(h)
    BY <2>1, PhaseFrame DEF EnterRun
  <2>2. CASE StartStep(h)
    BY <2>2, PhaseFrame DEF StartStep
  <2>3. CASE RegisterPartitions(h)
    BY <2>3, PhaseFrame DEF RegisterPartitions
  <2>4. CASE RejectFeeds(h)
    BY <2>4, PhaseFrame DEF RejectFeeds
  <2>5. CASE Subscribe(h)
    BY <2>5, PhaseFrame DEF Subscribe
  <2>6. CASE Waited(h)
    BY <2>6, PhaseFrame DEF Waited
  <2>7. CASE PostRunCleanup(h)
    <3>1. sess[h] \in Sessions /\ refs' = [refs EXCEPT ![sess[h]] = @ + 1] /\ UNCHANGED <<closed, version, owner>>
      BY <2>7 DEF PostRunCleanup, RefSession, MasterInv, Shape
    <3>2. refs[sess[h]] > 0 /\ refs \in [Sessions -> Int] /\ \A t \in Sessions : refs[t] \in Nat
      BY <2>7, <3>1, Alive DEF PostRunCleanup, MasterInv, Types, sessions_, Owned
    <3>3. \A t \in Sessions : refs'[t] = 0 <=> refs[t] = 0 BY <3>1, <3>2
    <3> QED BY <3>1, <3>3, PhaseKept
  <2>8. CASE DropGraph(h)
    BY <2>8, PhaseFrame DEF DropGraph
  <2>9. CASE CompleteEarly(h)
    BY <2>9, PhaseFrame DEF CompleteEarly
  <2>10. CASE Extend(h)
    <3>1. /\ UNCHANGED <<closed, refs, owner>> /\ pc[h] = "Extend"
          /\ \/ UNCHANGED version
             \/ ~closed[sess[h]] /\ version' = [version EXCEPT ![sess[h]] = @ + 1]
      BY <2>10 DEF Extend
    <3>2. CASE UNCHANGED version BY <3>1, <3>2, PhaseFrame
    <3>3. CASE ~closed[sess[h]] /\ version' = [version EXCEPT ![sess[h]] = @ + 1]
      <4>1. sess[h] \in Sessions /\ owner[sess[h]] # "unborn" BY <3>1 DEF MasterInv, Shape, Born
      <4>2. Phases[sess[h]] = "open" BY <4>1, <3>1, <3>3, Alive DEF MasterInv, Phases, PhaseOf
      <4>3. Phases' = Phases /\ Steps' = Steps BY <3>1 DEF Phases, PhaseOf, SameSteps, Steps, StepsOf
      <4>4. Service!ExtendGraph(sess[h]) BY <3>3, <4>2, <4>3 DEF Service!ExtendGraph, Phases, Steps
      <4> QED BY <4>1, <4>4 DEF Service!ServiceNext
    <3> QED BY <3>1, <3>2, <3>3
  <2>11. CASE MakeCallable(h)
    BY <2>11, PhaseFrame DEF MakeCallable
  <2>12. CASE InsertCallable(h)
    BY <2>12, PhaseFrame DEF InsertCallable
  <2>13. ASSUME NEW result \in {"ok", "failed"}, RegisterDone(h, result) PROVE Goal
    BY <2>13, PhaseFrame DEF RegisterDone
  <2>14. ASSUME NEW w \in Workers, IssueCall(h, w) PROVE Goal
    BY <2>14, PhaseFrame DEF IssueCall
  <2>15. ASSUME NEW g \in Graphs, EnterRunCallable(h, g) PROVE Goal
    BY <2>15, PhaseFrame DEF EnterRunCallable
  <2>16. ASSUME NEW g \in Graphs, ReleaseCallable(h, g) PROVE Goal
    BY <2>16, PhaseFrame DEF ReleaseCallable
  <2>17. CASE Done(h)
    <3>1. PICK s \in Sessions : s = sess[h] /\ UnrefSession(s)
      BY <2>17 DEF Done, MasterInv, Shape
    <3>2. UNCHANGED <<closed, version, owner>> BY <2>17 DEF Done
    <3>3. owner[s] # "unborn" BY <2>17, <3>1 DEF Done, MasterInv, Born
    <3> QED BY <3>1, <3>2, <3>3, Vanishes DEF Service!ServiceNext
  <2>18. CASE FillPerStepState(h)
    BY <2>18, PhaseFrame DEF FillPerStepState, SetRPCLogging
  <2>19. CASE ProcessStats(h)
    BY <2>19, PhaseFrame DEF ProcessStats, SetRPCLogging
  <2> QED BY <1>1, <2>1, <2>2, <2>3, <2>4, <2>5, <2>6, <2>7, <2>8, <2>9, <2>10, <2>11, <2>12, <2>13,
             <2>14, <2>15, <2>16, <2>17, <2>18, <2>19 DEF HandlerStep
<1>2. ASSUME NEW h \in Handlers, CleanupStep(h) PROVE Goal
  <2>1. CASE CleanupDone(h)
    BY <2>1, PhaseFrame DEF CleanupDone
  <2>2. CASE CleanupComplete(h)
    BY <2>2, PhaseFrame DEF CleanupComplete
  <2>3. CASE CleanupUnref(h)
    <3>1. PICK s \in Sessions : s = sess[h] /\ UnrefSession(s)
      BY <2>3 DEF CleanupUnref, MasterInv, Shape
    <3>2. UNCHANGED <<closed, version, owner>> BY <2>3 DEF CleanupUnref
    <3>3. owner[s] # "unborn" BY <2>3, <3>1 DEF CleanupUnref, MasterInv, Born
    <3> QED BY <3>1, <3>2, <3>3, Vanishes DEF Service!ServiceNext
  <2> QED BY <1>2, <2>1, <2>2, <2>3 DEF CleanupStep
<1>3. ASSUME NEW s \in Sessions, OwnerStep(s) PROVE Goal
  <2>1. CASE CreateSession(s)
    <3>1. /\ UNCHANGED <<closed, version, refs>>
          /\ \/ owner[s] = "creating" /\ owner' = [owner EXCEPT ![s] = "table"]
             \/ owner[s] = "creating" /\ owner' = [owner EXCEPT ![s] = "close"]
      BY <2>1 DEF CreateSession, Pass
    <3>2. closed[s] <=> owner[s] \in {"cancel", "gcCancel", "drain", "clear", "closed", "unref", "done", "lapsed"}
      BY DEF MasterInv, OwnerShape
    <3> QED BY <3>1, <3>2, PhaseKept DEF MasterInv, Types
  <2>2. CASE ResetNext(s)
    <3>1. UNCHANGED <<closed, version, refs>> /\ owner[s] = "queued" /\ owner' = [owner EXCEPT ![s] = "close"]
      BY <2>2 DEF ResetNext, Pass
    <3>2. closed[s] <=> owner[s] \in {"cancel", "gcCancel", "drain", "clear", "closed", "unref", "done", "lapsed"}
      BY DEF MasterInv, OwnerShape
    <3> QED BY <3>1, <3>2, PhaseKept DEF MasterInv, Types
  <2>3. CASE CloseSection(s)
    <3>1. /\ \/ owner[s] = "close" /\ owner' = [owner EXCEPT ![s] = "cancel"]
             \/ owner[s] = "collect" /\ owner' = [owner EXCEPT ![s] = "gcCancel"]
          /\ closed' = [closed EXCEPT ![s] = TRUE] /\ UNCHANGED <<refs, version>>
      BY <2>3 DEF CloseSection, Pass
    <3>2. \A t \in Sessions \ {s} : PhaseOf(t)' = PhaseOf(t)
      BY <3>1 DEF PhaseOf, MasterInv, Types
    <3>3. PhaseOf(s) = "open" /\ PhaseOf(s)' = "closed"
      <4>1. ~closed[s] BY <3>1 DEF MasterInv, OwnerShape
      <4>2. refs[s] # 0 BY <3>1, Alive DEF MasterInv, Owned
      <4>3. closed'[s] /\ owner'[s] \in {"cancel", "gcCancel"} BY <3>1 DEF MasterInv, Types
      <4> QED BY <4>1, <4>2, <4>3, <3>1 DEF PhaseOf
    <3>4. Phases' = [Phases EXCEPT ![s] = "closed"] BY <3>2, <3>3 DEF Phases
    <3>5. Steps' = Steps BY DEF SameSteps, Steps, StepsOf
    <3>6. Service!BeginClose(s) BY <3>1, <3>3, <3>4, <3>5 DEF Service!BeginClose, Phases, Steps
    <3> QED BY <3>6 DEF Service!ServiceNext
  <2>4. CASE CancelSteps(s)
    <3>1. /\ UNCHANGED <<closed, version, refs>>
          /\ \/ owner[s] = "cancel" /\ owner' = [owner EXCEPT ![s] = "drain"]
             \/ owner[s] = "gcCancel" /\ owner' = [owner EXCEPT ![s] = "unref"]
      BY <2>4 DEF CancelSteps, Pass
    <3>2. closed[s] <=> owner[s] \in {"cancel", "gcCancel", "drain", "clear", "closed", "unref", "done", "lapsed"}
      BY DEF MasterInv, OwnerShape
    <3> QED BY <3>1, <3>2, PhaseKept DEF MasterInv, Types
  <2>5. CASE DrainSession(s)
    <3>1. /\ owner[s] = "drain" /\ owner' = [owner EXCEPT ![s] = "clear"] /\ numRunning[s] = 0
          /\ UNCHANGED <<closed, refs, version>>
      BY <2>5 DEF DrainSession, Pass
    <3>2. \A t \in Sessions \ {s} : PhaseOf(t)' = PhaseOf(t)
      BY <3>1 DEF PhaseOf, MasterInv, Types
    <3>3. PhaseOf(s) = "closed" /\ PhaseOf(s)' = "drained" /\ StepsOf(s) = {}
      <4>1. closed[s] BY <3>1 DEF MasterInv, OwnerShape
      <4>2. refs[s] # 0 BY <3>1, Alive DEF MasterInv, Owned
      <4>3. owner'[s] = "clear" BY <3>1 DEF MasterInv, Types
      <4>4. StepsOf(s) = {} BY <3>1, Counts DEF MasterInv, RunningExact, StepsOf
      <4> QED BY <4>1, <4>2, <4>3, <4>4, <3>1 DEF PhaseOf
    <3>4. Phases' = [Phases EXCEPT ![s] = "drained"] BY <3>2, <3>3 DEF Phases
    <3>5. Steps' = Steps BY DEF SameSteps, Steps, StepsOf
    <3>6. Service!Drain(s) BY <3>1, <3>3, <3>4, <3>5 DEF Service!Drain, Phases, Steps
    <3> QED BY <3>6 DEF Service!ServiceNext
  <2>6. CASE ClearGraphs(s)
    <3>1. UNCHANGED <<closed, version, refs>> /\ owner[s] = "clear" /\ owner' = [owner EXCEPT ![s] = "closed"]
      BY <2>6 DEF ClearGraphs, Pass
    <3>2. closed[s] <=> owner[s] \in {"cancel", "gcCancel", "drain", "clear", "closed", "unref", "done", "lapsed"}
      BY DEF MasterInv, OwnerShape
    <3> QED BY <3>1, <3>2, PhaseKept DEF MasterInv, Types
  <2>7. CASE OwnerUnref(s)
    <3>1. UnrefSession(s) /\ UNCHANGED <<closed, version>> BY <2>7 DEF OwnerUnref
    <3>2. \/ owner[s] = "closed" /\ owner' = [owner EXCEPT ![s] = "done"]
          \/ owner[s] = "unref" /\ owner' = [owner EXCEPT ![s] = "lapsed"]
      BY <2>7 DEF OwnerUnref, Pass
    <3>3. owner[s] # "unborn" BY <3>2
    <3> QED BY <3>1, <3>2, <3>3, Vanishes DEF Service!ServiceNext
  <2> QED BY <1>3, <2>1, <2>2, <2>3, <2>4, <2>5, <2>6, <2>7 DEF OwnerStep
<1>4. ASSUME NEW h \in Handlers, NEW w \in Workers, WhenDone(h, w) PROVE Goal
    BY <1>4, PhaseFrame DEF WhenDone
<1>5. ASSUME NEW h \in Handlers, ClientCancel(h) PROVE Goal
    BY <1>5, PhaseFrame DEF ClientCancel
<1>6. ASSUME NEW h \in Handlers, NEW s \in Sessions, NEW op \in RequestKinds, FindMasterSession(h, s, op)
      PROVE  Goal
    <3>1. s \in Sessions /\ refs' = [refs EXCEPT ![s] = @ + 1] /\ UNCHANGED <<closed, version, owner>>
      BY <1>6 DEF FindMasterSession, RefSession, MasterInv, Shape
    <3>2. refs[s] > 0 /\ refs \in [Sessions -> Int] /\ \A t \in Sessions : refs[t] \in Nat
      BY <1>6, <3>1, Alive DEF FindMasterSession, MasterInv, Types, sessions_, Owned
    <3>3. \A t \in Sessions : refs'[t] = 0 <=> refs[t] = 0 BY <3>1, <3>2
    <3> QED BY <3>1, <3>3, PhaseKept
<1>7. ASSUME NEW s \in Sessions, NewSession(s) PROVE Goal
    <3>1. /\ owner[s] = "unborn" /\ owner' = [owner EXCEPT ![s] = "creating"] /\ refs' = [refs EXCEPT ![s] = 1]
          /\ UNCHANGED <<closed, version>>
      BY <1>7 DEF NewSession, Pass
    <3>2. \A t \in Sessions \ {s} : PhaseOf(t)' = PhaseOf(t)
      BY <3>1 DEF PhaseOf, MasterInv, Types
    <3>3. PhaseOf(s) = "none" /\ PhaseOf(s)' = "open"
      <4>1. ~closed[s] BY <3>1 DEF MasterInv, OwnerShape
      <4>2. owner'[s] = "creating" /\ refs'[s] = 1 BY <3>1 DEF MasterInv, Types
      <4> QED BY <4>1, <4>2, <3>1 DEF PhaseOf
    <3>4. Phases' = [Phases EXCEPT ![s] = "open"] BY <3>2, <3>3 DEF Phases
    <3>5. Steps' = Steps BY DEF SameSteps, Steps, StepsOf
    <3>6. Service!OpenSession(s) BY <3>1, <3>3, <3>4, <3>5 DEF Service!OpenSession, Phases, Steps
    <3> QED BY <3>6 DEF Service!ServiceNext
<1>8. ASSUME NEW s \in Sessions, CloseSession(s) PROVE Goal
    <3>1. UNCHANGED <<closed, version, refs>> /\ owner[s] = "table" /\ owner' = [owner EXCEPT ![s] = "close"]
      BY <1>8 DEF CloseSession, Pass
    <3>2. closed[s] <=> owner[s] \in {"cancel", "gcCancel", "drain", "clear", "closed", "unref", "done", "lapsed"}
      BY DEF MasterInv, OwnerShape
    <3> QED BY <3>1, <3>2, PhaseKept DEF MasterInv, Types
<1>9. ASSUME NEW s \in Sessions, GC(s) PROVE Goal
    <3>1. UNCHANGED <<closed, version, refs>> /\ owner[s] = "table" /\ owner' = [owner EXCEPT ![s] = "collect"]
      BY <1>9 DEF GC, Pass
    <3>2. closed[s] <=> owner[s] \in {"cancel", "gcCancel", "drain", "clear", "closed", "unref", "done", "lapsed"}
      BY DEF MasterInv, OwnerShape
    <3> QED BY <3>1, <3>2, PhaseKept DEF MasterInv, Types
<1>10. CASE Reset
    <3>1. UNCHANGED <<closed, version, refs>> /\ owner' = [s \in Sessions |-> IF s \in sessions_ THEN "cleaning" ELSE owner[s]]
      BY <1>10 DEF Reset
    <3>2. \A s \in Sessions : s \in sessions_ => owner[s] = "table" BY DEF sessions_
    <3>3. \A s \in Sessions : closed[s] => owner[s] # "table" BY DEF MasterInv, OwnerShape
    <3> QED BY <3>1, <3>2, <3>3, PhaseKept
<1>11. CASE UNCHANGED mVars
    BY <1>11, PhaseFrame DEF mVars, msVars
<1>12. ASSUME NEW g \in Graphs, LoggingDone(g) PROVE Goal
    BY <1>12, PhaseFrame DEF LoggingDone
<1>13. ASSUME NEW s \in Sessions, CleanupWorkers(s) PROVE Goal
    <3>1. /\ UNCHANGED <<closed, version, refs>>
          /\ \A t \in Sessions : owner'[t] = owner[t] \/ (owner[t] = "cleaning" /\ owner'[t] = "queued")
      BY <1>13 DEF CleanupWorkers
    <3> QED BY <3>1, PhaseKept
<1> QED BY <1>1, <1>2, <1>3, <1>4, <1>5, <1>6, <1>7, <1>8, <1>9, <1>10, <1>11, <1>12, <1>13
        DEF MNext, MStep, Living, WorkerAnswers, ClientLeaves, LoggingAnswered

\* The master starts as SessionService does.
LEMMA ServiceInitially == MInit => Service!ServiceInit
<1> SUFFICES ASSUME MInit PROVE Service!ServiceInit OBVIOUS
<1>1. \A s \in Sessions : PhaseOf(s) = "none" /\ StepsOf(s) = {}
  BY DEF MInit, MSInit, PhaseOf, StepsOf, InStep
<1> QED BY <1>1 DEF MInit, MSInit, Service!ServiceInit

\* The master of master.cc and master_session.cc implements the session service:
\* whatever requests, closes, resets, collections and failures overlap, each of
\* its steps is a step of SessionService or changes nothing that a client sees.
THEOREM MasterImplementsService == MSpec => ImplementsService
<1>1. MasterInv /\ MasterInv' /\ [MNext]_mVars => [Service!ServiceNext]_(Service!serviceVars)
  BY ServiceStep
<1> QED BY <1>1, ServiceInitially, MasterInvAlways, PTL DEF MSpec, ImplementsService, Service!ServiceSpec

=============================================================================
