--------------------------- MODULE KernelSim_proof ---------------------------
(***************************************************************************)
(* Proofs about the whole program: the graph getInput hands over is one    *)
(* simColocation is correct for, so the theorems about the simulator hold  *)
(* of main, for every number of applications and every trace.              *)
(***************************************************************************)
EXTENDS KernelSim, GetInput_proof, SimHistory_proof

(* Before the call there is nothing to say of the simulator. *)
MainInv ==
    /\ LoaderInv
    /\ outcome # "idle" => loading = "true" /\ SimInv

(***************************************************************************)
(* getInput returns true only with a graph that simColocation is correct   *)
(* for: a forest with one tree per application, whose root is the head.    *)
(***************************************************************************)
THEOREM LoadedGraphOK == LoaderInv /\ loading = "true" => GraphOK
<1> SUFFICES ASSUME LoaderInv, loading = "true" PROVE GraphOK
  OBVIOUS
<1>1. /\ N \in Nat /\ Kernel = 1..N /\ App = 1..Len(Apps) /\ Len(Apps) \in Nat
      /\ kernels \in Seq(Kernels) /\ next \in Seq(SUBSET Nat)
      /\ Apps \in Seq(AppsOf(Nat)) /\ Len(next) = N
      /\ \A k \in 1..N : kernels[k] \in Kernels
  BY LenProperties, ElementOfSeq DEF LoaderInv, InputTypeOK, HeapInv, N, Kernel, App
<1>2. /\ \A k \in 1..N : /\ next[k] \subseteq 1..N /\ kernels[k].parent \in 0..N
                         /\ kernels[k].appid \in 1..Len(Apps)
      /\ \A i \in 1..Len(Apps) : /\ Apps[i].first \in 1..N /\ Apps[i].last \in 1..N
                                 /\ kernels[Apps[i].first].appid = i
  BY DEF LoaderInv, HeapInv, Open
<1>3. next \in [Kernel -> SUBSET Kernel]
  <2>1. next \in [1..N -> SUBSET Nat]
    BY <1>1, LenProperties
  <2> QED
    BY <1>1, <1>2, <2>1
<1>4. Apps \in Seq(AppsOf(Kernel))
  <2>1. \A i \in 1..Len(Apps) : Apps[i] \in AppsOf(Kernel)
    <3> SUFFICES ASSUME NEW i \in 1..Len(Apps) PROVE Apps[i] \in AppsOf(Kernel)
      OBVIOUS
    <3>1. Apps[i] \in AppsOf(Nat)
      BY <1>1, ElementOfSeq
    <3> QED
      BY <1>1, <1>2, <3>1 DEF AppsOf
  <2>2. Apps = [i \in 1..Len(Apps) |-> Apps[i]]
    BY <1>1, LenProperties
  <2> QED
    BY <1>1, <2>1, <2>2, IsASeq
<1>5. /\ Heads = {Apps[i].first : i \in App}
      /\ \A k \in Kernel : kernels[k].parent = NULL <=> k \in Heads
      /\ \A k, p \in Kernel : k \in next[p] <=> p = kernels[k].parent
      /\ \A k \in Kernel : k \notin Heads => /\ kernels[k].parent < k
                              /\ kernels[kernels[k].parent].appid = kernels[k].appid
  BY DEF LoaderInv, Forest, Heads, Open, Kernel, App
<1>6. \A a \in App : kernels[Apps[a].first].appid = a /\ kernels[Apps[a].first].parent = NULL
  BY <1>1, <1>2, <1>5
<1>7. ASSUME NEW k \in Kernel, k # Apps[kernels[k].appid].first
      PROVE  /\ kernels[k].parent \in 1..(k - 1)
             /\ kernels[kernels[k].parent].appid = kernels[k].appid
  <2>1. k \notin Heads
    BY <1>1, <1>2, <1>5, <1>7
  <2>2. kernels[k].parent # 0 /\ kernels[k].parent \in 0..N /\ kernels[k].parent < k
    BY <1>1, <1>2, <1>5, <2>1 DEF NULL
  <2> QED
    BY <1>1, <1>5, <2>1, <2>2
<1> QED
  BY <1>1, <1>2, <1>3, <1>4, <1>5, <1>6, <1>7 DEF GraphOK

LEMMA MainInvInit == MainInit => MainInv
  BY LoaderInvInit DEF MainInit, Idle, MainInv

LEMMA LoadKeeps ==
    ASSUME MainInv, Load
    PROVE  MainInv'
<1>1. InputNext /\ outcome' = outcome
  BY DEF Load, simVars
<1>2. loading # "true"
  BY <1>1 DEF InputNext, OpenApp, SkipMemset, AfterLast, AfterBrother, AfterParent, DropRow,
     BadTime, ReadRow, CloseApp, InputDone
<1>3. LoaderInv'
  BY <1>1, LoaderInvNext DEF MainInv
<1> QED
  BY <1>1, <1>2, <1>3 DEF MainInv

LEMMA CallKeeps ==
    ASSUME MainInv, Call
    PROVE  MainInv'
<1>1. loading = "true" /\ SimCall /\ HistCall /\ UNCHANGED inputVars
  BY DEF Call
<1>2. LoaderInv' /\ loading' = "true" /\ graph' = graph
  BY <1>1, LoaderInvNext DEF MainInv, inputVars
<1>3. kernels' = kernels /\ Apps' = Apps /\ Kernel' = Kernel /\ App' = App /\ GraphOK'
  BY <1>1, <1>2, LoadedGraphOK, GraphUnchanged DEF MainInv
<1>4. InitialStatus' = InitialStatus /\ InitialTime' = InitialTime /\ InitialLoop' = InitialLoop
  BY <1>3 DEF InitialStatus, InitialTime, InitialLoop, IsHead, LoopCount
<1>5. SimInit'
  BY <1>1, <1>3, <1>4 DEF SimCall, SimInit
<1>6. HistInit'
  BY <1>1, <1>3, <1>4 DEF HistCall, HistInit
<1>7. (GraphOK /\ SimInit /\ HistInit => SimInv)'
  BY SimInvInit, PTL
<1> QED
  BY <1>2, <1>3, <1>5, <1>6, <1>7 DEF MainInv

LEMMA SimulateKeeps ==
    ASSUME MainInv, Simulate
    PROVE  MainInv'
<1>1. SimStep /\ Record /\ UNCHANGED <<newApp, k_last, row, nrows, dropped, loading>>
  BY DEF Simulate
<1>2. outcome # "idle" /\ UNCHANGED graph
  BY <1>1 DEF SimStep, StartKernel, WaitKernel, StartMemcpy, FinishKernel, FinishMemcpy,
     Finish, Report, Top
<1>3. SimInv'
  BY <1>1, <1>2, SimInvNext DEF MainInv
<1>4. LoaderInv'
  BY <1>1, <1>2, LoaderInvNext DEF MainInv, inputVars
<1> QED
  BY <1>1, <1>2, <1>3, <1>4 DEF MainInv

LEMMA MainInvNext == MainInv /\ [MainNext]_mainVars => MainInv'
<1> SUFFICES ASSUME MainInv, [MainNext]_mainVars PROVE MainInv'
  OBVIOUS
<1>1. CASE UNCHANGED mainVars
  <2>1. UNCHANGED inputVars /\ UNCHANGED allVars /\ loading' = loading /\ outcome' = outcome
    BY <1>1 DEF mainVars, inputVars, allVars, vars, simVars, graph
  <2>2. LoaderInv'
    BY <2>1, LoaderInvNext DEF MainInv
  <2> QED
    BY <2>1, <2>2, StutterKeeps DEF MainInv
<1> QED
  BY <1>1, LoadKeeps, CallKeeps, SimulateKeeps DEF MainNext

(***************************************************************************)
(* The inductive invariant of main: the loader's invariant, and once       *)
(* simColocation is called the simulator's.                                *)
(***************************************************************************)
THEOREM MainInvariant == MainSpec => []MainInv
<1>1. MainInit /\ [][MainNext]_mainVars => []MainInv
  BY MainInvInit, MainInvNext, PTL
<1> QED
  BY <1>1, PTL DEF MainSpec

(* A state of main in which the simulator runs satisfies its invariant. *)
LEMMA MainInvGives ==
    ASSUME MainInv
    PROVE  /\ SimTypeOK /\ QueueCounted /\ GpuExclusive /\ NeverFails
           /\ ExactlyOncePerIteration /\ ParentFirst /\ ReportedTimesSet
<1>1. CASE outcome = "idle"
  BY <1>1 DEF Started, SimTypeOK, QueueCounted, GpuExclusive, NeverFails,
     ExactlyOncePerIteration, ParentFirst, ReportedTimesSet
<1>2. CASE outcome # "idle"
  <2>1. SimInv
    BY <1>2 DEF MainInv
  <2> QED
    BY <2>1, SimInvGivesOnce, SimInvGivesOrder, SimInvGivesTimes DEF SimInv, NeverFails
<1> QED
  BY <1>1, <1>2

(***************************************************************************)
(* simColocation's state keeps its types whatever the traces: no counter   *)
(* becomes negative, no application has fewer than one iteration left.     *)
(***************************************************************************)
THEOREM MainTypeCorrect == MainSpec => []SimTypeOK
  BY MainInvGives, MainInvariant, PTL

(***************************************************************************)
(* count[] and ac[] agree with the event queue whatever the traces: no     *)
(* event is lost and none is pushed twice.                                 *)
(***************************************************************************)
THEOREM MainCountersExact == MainSpec => []QueueCounted
  BY MainInvGives, MainInvariant, PTL

(* Whatever the traces, one kernel at a time executes and k_sch is its end. *)
THEOREM MainOneKernelAtATime == MainSpec => []GpuExclusive
  BY MainInvGives, MainInvariant, PTL

(* Whatever the traces, simColocation never returns false. *)
THEOREM MainNeverFails == MainSpec => []NeverFails
  BY MainInvGives, MainInvariant, PTL

(***************************************************************************)
(* Whatever the traces, every kernel getInput kept is executed exactly     *)
(* once per iteration, LoopCount times in all.                             *)
(***************************************************************************)
THEOREM MainRunsExactlyOnce == MainSpec => []ExactlyOncePerIteration
  BY MainInvGives, MainInvariant, PTL

(* Whatever the traces, no kernel is submitted before its parent finished. *)
THEOREM MainDependenciesRespected == MainSpec => []ParentFirst
  BY MainInvGives, MainInvariant, PTL

(* Whatever the traces, every run time is assigned when it is printed. *)
THEOREM MainRunTimesReported == MainSpec => []ReportedTimesSet
  BY MainInvGives, MainInvariant, PTL

-----------------------------------------------------------------------------
(* The simulator never writes the graph: main makes only the loader's steps. *)
LEMMA MainStepsLoad == [MainNext]_mainVars => [InputNext]_inputVars
<1> SUFFICES ASSUME [MainNext]_mainVars PROVE [InputNext]_inputVars
  OBVIOUS
<1>1. CASE Load \/ Call \/ UNCHANGED mainVars
  BY <1>1 DEF Load, Call, mainVars
<1>2. CASE Simulate
  <2>1. UNCHANGED graph
    BY <1>2 DEF Simulate, SimStep, StartKernel, WaitKernel, StartMemcpy, FinishKernel,
       FinishMemcpy, Finish, Report
  <2> QED
    BY <1>2, <2>1 DEF Simulate, inputVars
<1> QED
  BY <1>1, <1>2 DEF MainNext

(***************************************************************************)
(* main implements the specification of the loader: what getInput is       *)
(* proved to do it also does with the simulator running after it.          *)
(***************************************************************************)
THEOREM MainImplementsLoader == MainSpec => InputSpec
<1>1. MainInit => InputInit
  BY DEF MainInit
<1> QED
  BY <1>1, MainStepsLoad, PTL DEF MainSpec, InputSpec

LEMMA MainEnds == MainSpec => []EndsInv
<1>1. InputSpec => []EndsInv
  BY EndsInit, EndsNext, LoaderInvariant, PTL DEF InputSpec
<1> QED
  BY <1>1, MainImplementsLoader, PTL

(* The traces getInput hands over start at 0, end at the iteration's length *)
(* and have no kernel before the end of its parent.                        *)
LEMMA LoadedTraceOK == LoaderInv /\ EndsInv /\ loading = "true" => TraceOK
<1> SUFFICES ASSUME LoaderInv, EndsInv, loading = "true" PROVE TraceOK
  OBVIOUS
<1>1. GraphOK
  BY LoadedGraphOK
<1>2. App = 1..Len(Apps) /\ DOMAIN kernels = Kernel /\ Kernel = 1..N /\ N \in Nat
  BY LenProperties DEF LoaderInv, InputTypeOK, N, Kernel, App
<1>3. \A a \in App : /\ kernels[First(a)].start = 0 /\ kernels[First(a)].length = 0
                     /\ Apps[a].last \in Kernel /\ kernels[Apps[a].last].appid = a
                     /\ kernels[Apps[a].last].start = Apps[a].length
                     /\ kernels[Apps[a].last].length = 0
  BY <1>2 DEF LoaderInv, HeapInv, TailsInv, EndsInv, First
<1>4. ASSUME NEW k \in Kernel, k # First(kernels[k].appid), k # Apps[kernels[k].appid].last
      PROVE  End(kernels[kernels[k].parent]) <= kernels[k].start
  <2>1. k \notin Tails
    BY <1>2, <1>3, <1>4 DEF Tails, App
  <2>2. kernels[k].parent # NULL
    BY <1>1, <1>4, GraphFacts
  <2> QED
    BY <1>2, <2>1, <2>2 DEF LoaderInv, Precedence
<1> QED
  BY <1>3, <1>4 DEF TraceOK

(* Once simColocation is called: its timing invariants, the second for exact steps. *)
TimeInv == outcome # "idle" => TraceOK /\ ClockInv /\ SoloInv
ExactInv == outcome # "idle" => WorkInv /\ LowerInv

(* The steps of main while the simulator runs are the simulator's. *)
LEMMA MainStepsSimulate ==
    ASSUME MainInv, outcome # "idle", [MainNext]_mainVars
    PROVE  (SimStep /\ Record) \/ UNCHANGED allVars
<1>1. CASE Load
  <2>1. loading # "true"
    BY <1>1 DEF Load, InputNext, OpenApp, SkipMemset, AfterLast, AfterBrother, AfterParent,
       DropRow, BadTime, ReadRow, CloseApp, InputDone
  <2> QED
    BY <2>1 DEF MainInv
<1>2. CASE Call
  BY <1>2 DEF Call, SimCall
<1>3. CASE Simulate
  BY <1>3 DEF Simulate
<1>4. CASE UNCHANGED mainVars
  BY <1>4 DEF mainVars, inputVars, allVars, vars, simVars, graph
<1> QED
  BY <1>1, <1>2, <1>3, <1>4 DEF MainNext

(* The call starts the simulator in an initial state of its timing invariants. *)
LEMMA CallTimes ==
    ASSUME MainInv, EndsInv, outcome = "idle", outcome' # "idle", [MainNext]_mainVars
    PROVE  TraceOK' /\ ClockInv' /\ SoloInv' /\ WorkInv' /\ LowerInv'
<1>1. Call
  BY DEF MainNext, Load, Simulate, mainVars, simVars, SimStep, StartKernel, WaitKernel,
     StartMemcpy, FinishKernel, FinishMemcpy, Finish, Report, Top
<1>2. loading = "true" /\ SimCall /\ HistCall /\ UNCHANGED graph
  BY <1>1 DEF Call, inputVars
<1>3. GraphOK /\ TraceOK
  BY <1>2, LoadedGraphOK, LoadedTraceOK DEF MainInv
<1>4. kernels' = kernels /\ Apps' = Apps /\ Kernel' = Kernel /\ App' = App /\ GraphOK' /\ TraceOK'
  BY <1>2, <1>3, GraphUnchanged, TraceUnchanged
<1>5. InitialStatus' = InitialStatus /\ InitialTime' = InitialTime /\ InitialLoop' = InitialLoop
  BY <1>4 DEF InitialStatus, InitialTime, InitialLoop, IsHead, LoopCount
<1>6. SimInit'
  BY <1>2, <1>4, <1>5 DEF SimCall, SimInit
<1>7. HistInit'
  BY <1>2, <1>4, <1>5 DEF HistCall, HistInit
<1>8. (GraphOK /\ TraceOK /\ SimInit /\ HistInit => ClockInv /\ WorkInv /\ LowerInv /\ SoloInv)'
  BY TimingInit, PTL
<1> QED
  BY <1>4, <1>6, <1>7, <1>8

LEMMA TimeInvNext ==
    ASSUME MainInv, EndsInv, TimeInv, [MainNext]_mainVars
    PROVE  TimeInv'
<1> SUFFICES ASSUME outcome' # "idle" PROVE TraceOK' /\ ClockInv' /\ SoloInv'
  BY DEF TimeInv
<1>1. CASE outcome = "idle"
  BY <1>1, CallTimes
<1>2. CASE outcome # "idle"
  <2>1. SimInv /\ TraceOK /\ ClockInv /\ SoloInv
    BY <1>2 DEF MainInv, TimeInv
  <2>2. CASE SimStep /\ Record
    <3>1. UNCHANGED graph
      BY <2>1, <2>2, StepForms
    <3> QED
      BY <2>1, <2>2, <3>1, TraceUnchanged, ClockKeeps, SoloKeeps
  <2>3. CASE UNCHANGED allVars
    BY <2>1, <2>3, TimingStutter
  <2> QED
    BY <1>2, <2>2, <2>3, MainStepsSimulate
<1> QED
  BY <1>1, <1>2

LEMMA ExactInvNext ==
    ASSUME MainInv, EndsInv, TimeInv, ExactInv, [MainNext]_mainVars, [ExactShares]_allVars
    PROVE  ExactInv'
<1> SUFFICES ASSUME outcome' # "idle" PROVE WorkInv' /\ LowerInv'
  BY DEF ExactInv
<1>1. CASE outcome = "idle"
  BY <1>1, CallTimes
<1>2. CASE outcome # "idle"
  <2>1. SimInv /\ TraceOK /\ ClockInv /\ WorkInv /\ LowerInv
    BY <1>2 DEF MainInv, TimeInv, ExactInv
  <2>2. CASE SimStep /\ Record /\ ExactShares
    BY <2>1, <2>2, WorkKeeps, LowerKeeps
  <2>3. CASE UNCHANGED allVars
    BY <2>1, <2>3, TimingStutter
  <2> QED
    BY <1>2, <2>2, <2>3, MainStepsSimulate
<1> QED
  BY <1>1, <1>2

LEMMA MainTimes == MainSpec => []TimeInv
<1>1. MainInit => TimeInv
  BY DEF MainInit, Idle, TimeInv
<1>2. MainInv /\ EndsInv /\ TimeInv /\ [MainNext]_mainVars => TimeInv'
  BY TimeInvNext
<1> QED
  BY <1>1, <1>2, MainInvariant, MainEnds, PTL DEF MainSpec

LEMMA MainExact == MainSpec /\ [][ExactShares]_allVars => []ExactInv
<1>1. MainInit => ExactInv
  BY DEF MainInit, Idle, ExactInv
<1>2. MainInv /\ EndsInv /\ TimeInv /\ ExactInv /\ [MainNext]_mainVars /\ [ExactShares]_allVars
        => ExactInv'
  BY ExactInvNext
<1> QED
  BY <1>1, <1>2, MainInvariant, MainEnds, MainTimes, PTL DEF MainSpec

(***************************************************************************)
(* If every trace is well formed the simulated time never goes back,       *)
(* however the applications contend for the GPU and the buses.             *)
(***************************************************************************)
THEOREM MainClockMonotone == MainSpec => ClockMonotone
<1>1. ASSUME MainInv, TimeInv, [MainNext]_mainVars
      PROVE  [Started /\ (\A a \in App : WellFormed(a)) => now' >= now]_allVars
  <2> SUFFICES ASSUME outcome # "idle", AllWellFormed, SimStep /\ Record PROVE now' >= now
    BY <1>1, MainStepsSimulate DEF Started, AllWellFormed
  <2>1. SimInv /\ TraceOK /\ ClockInv
    BY <1>1 DEF MainInv, TimeInv
  <2>2. now <= now'
    BY <2>1, ClockKeeps
  <2>3. SimInv'
    BY <2>1, SimInvNext
  <2>4. now \in Int /\ now' \in Int
    BY <2>1, <2>3 DEF SimInv, SimTypeOK, Started
  <2> QED
    BY <2>2, <2>4
<1>2. MainInv /\ TimeInv /\ [MainNext]_mainVars
        => [Started /\ (\A a \in App : WellFormed(a)) => now' >= now]_allVars
  BY <1>1
<1> QED
  BY <1>2, MainInvariant, MainTimes, PTL DEF MainSpec, ClockMonotone

(***************************************************************************)
(* An application that is alone, not slowed by the CPU and free of         *)
(* contention is replayed exactly as its trace was recorded, whatever the  *)
(* trace and however many iterations: the simulator is calibrated.         *)
(***************************************************************************)
THEOREM MainSoloReplay == MainSpec => []SoloReplay
<1>1. MainInv /\ TimeInv => SoloReplay
  BY SoloInvGives DEF MainInv, TimeInv, SoloReplay, Started
<1> QED
  BY <1>1, MainInvariant, MainTimes, PTL

(***************************************************************************)
(* As long as no division rounds, rescaling is fair sharing: what is left  *)
(* of an operation is the work it has not received, times the number of    *)
(* operations it shares with, whoever comes and goes in the meantime.      *)
(***************************************************************************)
THEOREM MainFairSharing == MainSpec /\ [][ExactShares]_allVars => []RemainingWork
<1>1. ExactInv => RemainingWork
  BY DEF ExactInv, WorkInv, RemainingWork, Started
<1> QED
  BY <1>1, MainExact, PTL

(***************************************************************************)
(* As long as no division rounds, well formed traces never run faster      *)
(* together than alone: no slowdown that is printed is negative.           *)
(***************************************************************************)
THEOREM MainNeverFaster ==
    MainSpec /\ [][ExactShares]_allVars => [](AllWellFormed => NonNegativeSlowdown)
<1>1. MainInv /\ ExactInv => (AllWellFormed => NonNegativeSlowdown)
  BY LowerInvGives DEF MainInv, ExactInv, NonNegativeSlowdown, Started
<1> QED
  BY <1>1, MainInvariant, MainExact, PTL
=============================================================================
