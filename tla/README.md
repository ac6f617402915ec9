# Verification of RuntimeTF

RuntimeTF is a fork of TensorFlow (1.14) for experiments with several training
jobs on one GPU. Its own logic is in two places: **KernelSim**, a simulator of
co-located jobs that replays profiler traces (`src/KernelSim`), and the **split
Run** of the session layer, which executes a step in eight slices of its inputs
(`direct_session.cc`, `grpc_session.cc`). The rest is upstream TensorFlow,
training scripts and measurement data. This directory holds TLA+ models of that
logic and of the TensorFlow classes the split Run depends on, up to the master
that serves a remote session, TLC runs on small
instances, and TLAPS proofs for all instances.

## Inventory

`TF` stands for `src/tensorflow/tensorflow/core`.

| part | state | operations | modelled |
|---|---|---|---|
| KernelSim data (`KernelSim/src/App.h`) | Kernel objects, their `next` vectors, Apps | `addNextKernel`, `setParent`, `computeEnd` | KernelGraph |
| KernelSim loader (`getInput`) | App being read, last kernel, row | read a row, hang it below a kernel, drop it, refuse the trace, close the App | GetInput |
| KernelSim simulator (`simColocation`) | event queue, `count`, `k_sch`, `loop`, `ac`, `rt` | submit, wait, start, rescale, finish, next iteration, report | SimColocation, SimHistory |
| KernelSim `main` | the two above | load, then simulate | KernelSim |
| CancellationManager (`TF/framework/cancellation.{h,cc}`) | `is_cancelling_`, `is_cancelled_`, notification, tokens, `callbacks_` | `get_cancellation_token`, `RegisterCallback`, `DeregisterCallback`, `TryDeregisterCallback`, `StartCancel`, destructor (`Reset` has no caller) | CancellationManager |
| ExecutorBarrier (`TF/common_runtime/executor.h`) | `pending_`, `status_group_`, rendezvous | `WhenDone`: count, abort, call `done` | ExecutorBarrier |
| DirectSession (`TF/common_runtime/direct_session.{h,cc}`) | `closed_`, `graph_created_`, `executors_`, one RunState per step | `Create`, `Run`, `RunInternal`, `GetOrCreateExecutors`, `WaitForNotification`, `Close`, destructor | DirectSession (partly) |
| GrpcSession (`TF/distributed_runtime/rpc/grpc_session.{h,cc}`) | `mu_`, `handle_`, `current_graph_version_` | `Create`, `Extend`, `Run` in slices, `Close` | GrpcSystem (partly) |
| GrpcRemoteMaster (`TF/distributed_runtime/rpc/grpc_remote_master.cc`) | the request and `num_retries` of a call | `CallWithRetry` | GrpcSystem |
| RecentRequestIds (`TF/distributed_runtime/recent_request_ids.{h,cc}`) | `set_`, `circular_buffer_`, `next_index_` | `TrackUnique` | RecentRequestIds |
| Master (`TF/distributed_runtime/master.{h,cc}`) | `sessions_` | `CreateSession`, the requests that find a session, `CloseSession`, `Reset`, `GC` | Master (partly) |
| MasterSession (`TF/distributed_runtime/master_session.{h,cc}`) | reference counts, `closed_`, `garbage_collected_`, `graph_version_`, `num_running_`, `run_graphs_`, `callables_`, cancellation manager, a RunManyGraphs per step | `Run`, `RunCallable`, `MakeCallable`, `ReleaseCallable`, `Extend`, `Close`, `GarbageCollect`, destructor, the cleanup closure of a step | MasterSession (partly) |
| Rendezvous (`TF/framework/rendezvous.cc`) | queues of items and waiters, abort status | `Send`, `RecvAsync`, `StartAbort` | planned |
| Executor, BFC allocator, devices, kernels | | | no: upstream code the fork does not change |
| Parse_nvprof, PatternAnalysis, scripts, benchmarks | files | | no: text filters and process drivers without shared state |

**How the parts interact.** `main` calls `getInput` and, if that returns true,
`simColocation` on the graph it built; both work on the same objects. A caller's
`DirectSession::Run` loops over the slices. For each it looks up or creates
executors in a cache shared by all Runs, and calls `RunInternal`, which registers
with the session's CancellationManager, starts one executor per partition,
waits, and deregisters. The executors report to an ExecutorBarrier, whose last
report wakes the waiting Run and whose first error aborts the rendezvous the
other executors may be blocked on. `Close` calls `StartCancel` on the session's
manager, whose callbacks cancel the steps, and only then sets `closed_`.

A `GrpcSession::Run` sends every slice as a `RunStep` RPC of its own, through
`CallWithRetry`, which repeats a call that ends UNAVAILABLE. The master looks
the request id up in RecentRequestIds, the handle in its table, takes a
reference to the MasterSession and schedules a closure. The closure registers
the graph with the workers, issues one `RunGraph` call per partition, registers
with the session's CancellationManager, waits, and leaves a second closure that
tells the workers to clean up and only then counts the step as complete. A traced step
also turns the logging of RPCs at the workers on and off, with calls whose answers
nobody waits for. `CloseSession`, `Reset` and the collector take the session from
the table; the first two set `closed_`, cancel, and wait until no step is left, the
collector only sets and cancels. `Reset` first waits for `CleanupAll` of every
worker.

**What is hard.** In KernelSim: an event queue with hand-kept counters, finish
times that are rescaled whenever the number of copies on a bus changes, a busy
GPU handled by putting events back, iterations that restart when a counter
reaches zero, and traces the loader has to make a tree of. In the session layer:
callbacks that run outside the lock while their owners deregister and free what
they use; executors, timers and `Close` racing for the end of a step; `closed_`
read once for eight steps; failure after some slices have been executed. Between
client and master: requests and answers that are lost, late or repeated; a
handle that is tested before an RPC and set after it; a lock held across an RPC;
a master that restarts. In the master: references of closures that outlive the
request or that no step waits for, a counter that one of two threads must
decrement on every path, a cancellation that is delivered once, and errors of
several workers that become one status.
`PROJECT.json` lists each hazard at its line with the properties that cover it.

## Modules

| module | extends | content |
|---|---|---|
| KernelGraph | | `App.h`: heap of kernels as a sequence, pointers as indices |
| GetInput | KernelGraph | one action per way `getInput` treats a row; the trace is chosen row by row |
| SimColocation | KernelGraph | one action per case of the event loop |
| SimHistory | SimColocation | history variables and the properties that need them |
| KernelSim | GetInput, SimHistory | `main`: every graph the loader can build is simulated |
| CancellationManager | | one action per section under `mu_`, per start and end of a callback, and for the final `Notify` |
| ExecutorBarrier | | `RunAsync`, and `WhenDone` in its three parts |
| DirectSession | CancellationManager, ExecutorBarrier | threads in `Run` and `Close`, the executor cache, the slices |
| SessionService | | abstract specification: what a session of a master is to its clients |
| MasterSession | | one action per section under `mu_`, Ref, Unref, RPC and cancellation of `master_session.cc` |
| Master | MasterSession | the table, the handlers, `Reset`, the collector; INSTANCE of SessionService with the refinement mapping |
| RecentRequestIds | | the set and the ring of request ids |
| GrpcSystem | SessionService, RecentRequestIds | client threads in GrpcSession, `CallWithRetry`, the network, a restarting master |
| `*_proof` | the module of that name | inductive invariants and theorems |
| `MC*` | the module of that name | values for the constants |

### State and actions against the code

*KernelSim.* The priority queue is `status[k]` and `time[k]`: the queue holds at
most one event per kernel, and `QueueCounted` would fail if the code ever pushed
two. Events with equal times may be handled in any order, as `priority_queue`
leaves it open. Times are integers. The code divides doubles; the instances use
times that are multiples of `Unit` = 6^6 and a wait margin `Margin` = 6^4 so
that every rescaling between one, two and three copies is exact, and
`RemainingWork` fails where it is not. `Eps` is the code's 0.00001. Streams and
bandwidths are left out: no decision depends on them. A row of a trace is one of
`AfterLast`, `AfterBrother`, `AfterParent`, `DropRow`, `BadTime`, `SkipMemset`;
`CloseApp` is the end of the file; the exits "invalid type[0]" and "[1]" are in
`HangBelow` and are proved unreachable.

*CancellationManager.* A caller is idle, holds a token, is registered, refused,
waiting in `DeregisterCallback`, or finished; a canceller is before, in or after
`StartCancel`. `toRun` and `running` are the local `callbacks_to_run` and the
callback being executed. `began`, `ended` and `result` are history.

*ExecutorBarrier.* `exec[s][e]` says where executor `e` of step `s` is: not
started, running, counted in `WhenDone`, the last one before `done`, after it.
The section under `mu_` is the action `WhenDone`, what follows it without the
lock are `StartAbort` and `Done`. `aborts` counts what the barrier does; an executor
that fails also aborts the rendezvous and cancels the step by itself
(`executor.cc:2231-2250`), which the model leaves out, so that `FailureEndsRun`
does not lean on it.

*DirectSession.* `pc[r]` is the position of thread `r` in `Run` and
`RunInternal`. Steps are named by their cancellation tokens, so the barrier of a
step is indexed by its token. Tensors are the numbers of their rows
(`dim_size(0)`, or `Scalar`); `fed` records which rows went to executors,
`outputs` from which rows `*outputs` was computed. A CHECK that fails sets
`crashed`, after which nothing happens. The parts of `RunInternal` and of
`CreateExecutors` that only build objects are a step that may fail.

*MasterSession and Master.* A handler `h` is the closure of one request and the
cleanup closure it leaves; `pc[h]` and `cleanup[h]` say where the two are.
`owner[s]` is who holds the reference that came with the session: its creator,
the table, a Reset that waits in `CleanupWorkers` (`cleaning`) or has it queued, or
the thread that closes or collects it, with the place of that thread in `Close`.
`batch[s]` is `sessions_to_close` of that Reset. `crashed` is set when a worker
fails `CleanupAll` (`TF_CHECK_OK`, `master.cc:636`); nothing happens after it. A
Reset that finds the table empty changes nothing the model has. A graph is a pair of a session and a number,
0 for its run graph (one set of feeds and fetches) and 1 .. `MaxCallables` for
callables. `call[h][w]` is a `RunGraph` call: not issued, running, told to stop,
done; only a call that is running when its `CallOptions` are cancelled is told, and
one that is issued after that is `deaf`. `status[h]` is the StatusGroup of the step,
reduced to what decides its code: the first error without the derived marker, or
else the first error; a worker's error keeps its own code, CANCELLED among them.
`traced[h]` is `collect_timeline`. `logging[g]` counts the closures of
`SetRPCLogging` that hold a reference to the graph and wait for `LoggingAsync`: a
traced step makes one per partition before its calls, if RPCs are collected, and
one per partition in `ProcessStats`. `RetrieveLogs`, which follows there and waits
for the workers, is part of the same action.
The cancellation manager is the flag `cancelled[s]` and `subscribed[h]`: what
registration and deregistration promise is proved of CancellationManager. The
collector may take any session of the table, since a running step does not
count as an access. `stopped` (the client cancelled, or a worker answered CANCELLED,
while the session was not closed) and `late` (callables entered after `Close`) are
history.

*SessionService.* A session is open, closed, drained and gone; steps begin while
it is open; whoever drains it waits for its steps. Master maps `phase` to
`PhaseOf` (from `owner`, `refs` and `closed`), `graphVersion` to `version` and
`steps` to the handlers between `++num_running_` and `MarkRunCompletion`.

*GrpcSystem.* A thread calls methods of one GrpcSession; `at[t]` is where it is,
`want[t]` the request it has sent. `net` holds the attempts: sent, being served,
answered. A request that nobody serves is lost; `Retry` and `GiveUp` leave the
attempt in `net`, so that it may still reach the master, and drop an answer that
is already there. `mu` is the holder of `mu_` across an RPC (only `ExtendImpl`);
other critical sections are single steps guarded by `Free`. `Restart` ends all
sessions, the ids and what was being served. The master's side is SessionService
behind RecentRequestIds; any request may also be answered with an error. `used`,
`ran`, `forgotten`, `doubt`, `dropped`, `overlapped` are history.

## Runs

| run | instance | shows |
|---|---|---|
| loader | 1 app, 4 rows in any order, starts 0-3, durations 1-2, all types | what is built is a forest in which kernels start after their parents end; only traces out of order are refused; a row is lost only if it overlaps a kept one of its type |
| pair | 2 apps, 2 rows, 2 iterations, traces that outlast their iteration | counters agree with the queue, one kernel on the GPU, each kernel once per iteration after its parent, clock monotone and slowdown not negative for well formed traces |
| trio | 3 apps, 1 row | rescaling with three copies keeps the remaining work exact; the simulation ends, never by its error exit |
| solo | 1 app, 3 rows, CPU slowdown 0 and 1 | an uncontended trace is replayed as recorded |
| fifo | as trio with 2 apps | **violated**: see findings |
| cancellation | 2 callers, 2 cancellers, 3 tokens | the promises of `DeregisterCallback`; nothing runs twice or is lost; no wait for ever |
| session_close | 2 Runs, 2 slices, 1 executor, 1 Close, timeouts | OK means every slice ran undisturbed; no step is registered after `Close`; executors are shared |
| session_live | 1 Run, 2 slices, 2 executors, 2 Closes, with and without timeout, mixed inputs, scalars among them | failure, deadline and cancellation race: abort once, `done` after the last, nothing outlives its step, what was fed is a prefix; every such Run returns |
| session_testfeed | 8 slices, input of 2 rows | **violated**: see findings |
| master | 1 session, 2 handlers, 1 worker that may answer CANCELLED or a derived error, 1 callable, 1 extension, traced steps, all requests | reference counts and `num_running_` are exact on every path; nothing of a session outlives it but the callables and the graphs with unanswered logging calls named in the property; a step that its session cancelled learns so; the master implements SessionService |
| master_live | 2 sessions, 1 handler, 2 workers that may fail or answer a derived CANCELLED, steps that never end by themselves | cancellation reaches every call but those issued after a sibling had failed, and every session taken from the table is deleted, unless such a call lasts for ever or a worker fails the `CleanupAll` of Reset |
| grpc | 2 sessions, 2 threads, 3 calls, 2 slices, 3 request ids, a ring of 2, 1 retry, 2 faults (lost attempts, deadlines, restarts) | the client's graph version falls behind only by an Extend that ended in an error for the client (most often: that was left without an answer), and then for good; a slice is run once unless its id was forgotten; the slices of a Run share a session; open sessions nobody holds have a named cause; the lock is kept only during an Extend |

**Bounds.** `MaxRows` bounds a trace; three rows are the fewest for a last
kernel, a brother and a parent, four let a generation follow. Two applications
suffice for contention on the GPU, three for a bus going from two to three
copies and back. `MAX` gives two iterations, so that one restarts. `MaxTokens`
and `MaxRuns` bound the calls of a behaviour; three tokens let a caller register
again after the manager was cancelled. Two slices instead of eight have all that
a loop of slices has: a first, a last and a boundary between them; `spl` is a
parameter and the run that quotes a test uses 8. For the master, two handlers
let a request, a second request and the cleanup closure of each meet a closing
thread; two workers are needed only where one call may fail before its sibling
is issued, two sessions only for `Reset`, and so they are in master_live. `WorkerErrors` are
two of the four kinds of error, others in the two runs; in each, one of them is
CANCELLED and one carries the derived marker; `MaxLogging` = 1 lets one step be
traced at a time and its answers come at any later time, after the session is gone
too. The constraint `ExtendedPlain` leaves the combinations of an extension with a
callable or a traced step unexplored: `Extend` touches nothing that those do.
`TracedApart` does not follow a traced step of the run graph once there is a
callable, nor a second unanswered logging call of a callable: `SetRPCLogging`
touches only its own graph, and two calls of one graph are unanswered together in
the behaviours without callables.
master_live traces no step: `RetrieveLogs` waits for workers, and that they answer
is nowhere guaranteed. For the client, a ring of two and three ids let an id be forgotten; three calls on
two threads let a Create, an Extend or a Close overlap a Run of two slices. The
proofs are free of all these bounds except that the sets of tokens, executors
and handlers are finite.

`CHECK_DEADLOCK FALSE` is in every cfg because every instance ends: the program
returns, or the session is deleted.

**Fairness.** KernelSim: weak fairness of a single sequential program
(`Call \/ Simulate`). CancellationManager: callbacks return and threads that are
not blocked proceed (`CMFairness`). DirectSession (`DSFairness`): each thread in
`Run` and `Close` proceeds when it can, and a deadline passes. An executor is
*not* fair: it may run for ever. It must stop only once its step is cancelled or
its rendezvous aborted, which is what the executor does with both.
`StoppedRunsReturn` and `FailureEndsRun` therefore say that one of these signals
reaches every blocked executor. Master (`MFairness`): the scheduled closures, the
cleanup closures and the threads that create, close and reset run, and
`CleanupAll` is answered, well or badly, for which `Reset` sets no limit: a
worker that never answers keeps the sessions of a Reset from being closed. A `RunGraph`
call is *not* fair: it must end only once it was told to stop, since cancelling
a gRPC call completes it. GrpcSystem has no liveness property: nothing in the
code bounds how long an RPC without a timeout takes.

## Theorems

All are proved by TLAPS for every value of the constants that satisfies the
named assumptions. Every invariant and action property of the passing runs has a
theorem; two of them under a hypothesis that is stated below. Some properties are
only proved and not in a run: the types of the loader, the simulator, the manager and the master; `SortedTraceLoads`,
`LastGenerationIsLeaves`, `NeverFails`, `ReportedTimesSet`, `NoRepeatInWindow` and
`CloseWaitsForSteps`.

*GetInput_proof* (`GetInputAssumption`). `LoaderInv` joins `Forest`,
`Precedence` and `LastGenerationIsLeaves`, which need each other, with the bounds
of all pointers (`HeapInv`), what is known of the App being read (`OpenInv`),
and that in a sorted trace the last kernel starts no later than the last row
(`SortedInv`). The last part is
what makes "invalid time[2]" unreachable. Theorems `ForestBuilt`,
`PrecedenceKept`, `LeavesAtTheCursor`, `SortedTracesAccepted`,
`RefusalMeansDisorder`, `InputTypeCorrect`, and `OnlyOverlapsAreDropped`, an action
property: the brother whose place the row would take has not ended
(`DropStep`).
`EndsInv` says where heads and tails start and end; the simulator's timing needs it.

*SimHistory_proof* (`SimAssumption`). `SimInv` joins the counters, the exclusive
GPU, the progress of each iteration (`PhaseInv`: a kernel has not been submitted
exactly as long as its parent has not finished, and the head never waits) and
that an application without events is in its last iteration and has its run time
(`FinishedInv`). `PhaseInv` is what makes "exactly once" inductive: when the
counter of an application is zero, every kernel of it has finished, by descent
along the parents. The simulator is proved for every graph that satisfies
`GraphOK`.

The timing of the simulator is proved on top of `SimInv`, for graphs that also
satisfy `TraceOK` (heads at 0, tails at the iteration's length, children after their
parents). `StepForms` reduces every action of the event loop to a few forms,
a start, a wait or an end of the earliest event (or it touches no event), and each
timing invariant is shown for them:

- `ClockInv`, no event of well formed traces is in the past. It is stronger than
  `ClockMonotone`: rescaling must not move an end before the clock either.
- `SoloInv`, every event of an uncontended application is exactly where the trace
  has it. `NeverTogether` is its heart: two operations of one type that could meet
  are parent and child, and those are never in flight together.
- `WorkInv`, what was served and what is left add up. It is inductive only if the
  rescaling divides evenly.
- `LowerInv`, no event is earlier than in an undisturbed run: not the submission,
  not the start of what is in flight, not the end of what has run.

*The hypothesis `ExactShares`.* The code divides doubles (`KernelSim.cpp`); the
model divides integers, and an integer division that rounds loses work that the
code does not lose. `RemainingWork` and `NonNegativeSlowdown` are therefore proved of the
behaviours in which the time that each step advances is a multiple of the number of
operations that share it, that is, with ticks fine enough. The instances of the runs
meet it in every step. `ClockMonotone` and `SoloReplay` need no such hypothesis.

*KernelSim_proof*. `LoadedGraphOK`: what the loader hands over satisfies
`GraphOK`, and `LoadedTraceOK` that it satisfies `TraceOK`. `MainImplementsLoader`:
every behaviour of `main` is one of the loader, so what is proved of `getInput`
holds in the program. With these the simulator's results hold of `main`: `MainTypeCorrect`,
`MainCountersExact`, `MainOneKernelAtATime`, `MainNeverFails`,
`MainRunsExactlyOnce`, `MainDependenciesRespected`, `MainRunTimesReported`;
`MainClockMonotone` and `MainSoloReplay`; and, under `ExactShares`,
`MainFairSharing` and `MainNeverFaster`. The last is proved when all traces are well formed;
the run pair also covers mixes in which only the application that is reported is.

*CancellationManager_proof* (`MaxTokensAssumption`). `CMInv`: at most one
`StartCancel` is between its critical sections and `callbacks_` is empty from then on
(`PhaseInv`); a token has one owner (`TokenInv`); a token that was refused or
not yet registered is nowhere in the manager (`CallerInv`); a callback moves
from `callbacks_` to `callbacks_to_run` to begun to ended (`RunInv`). Theorems
`DeregisterKeepsItsPromise`, `CallbacksRunExactlyOnce`, `ManagerTypeCorrect`.

*DirectSession_proof* (finite set of executors; steps are tokens).
`SessionUsesManager` shows that every step of the session is a step of the
manager's specification or leaves it alone, so `CMInv` is inherited. `DSInv`
adds: where a Run is determines what it has done with the manager (`LinkInv`);
`pending_` is the number of executors that have not reported, and the last one is
alone (`BarrierInv`); whatever is registered, about to be called back or running
belongs to a step whose frame exists (`OwnerInv`, `ExecInv`). A step is over
(`StepIsOver`) only when `DeregisterCallback` has answered, which by the
manager's promises leaves no callback, and `executors_done` was notified, which
by `BarrierInv` leaves no executor. Theorems `StepsOutliveTheirUsers`,
`BarrierKeepsItsPromise`.

`HistoryInv` adds what a Run has behind it: how many steps it has registered at
each place of its loop (`LoopInv`); that a step is cancelled only by a callback that
began or after its status went bad (`CancelInv`), so that a step that ended well and
was deregistered stays as it was (`RanInv`, for all slices before the current one);
that no scalar gets past `Feed` and what was fed are the first rows (`FedInv`); that
a `Close` that has begun has cancelled the manager, for good (`CloseInv`).
`OkRunsAreComplete` and `SlicesAreAPrefix` follow from `RanInv` and `FedInv` at the end of the loop;
`ClosedSessionsStartNothing` from `CloseInv`, since a cancelled manager refuses
the registration that every step needs; `RunsShareExecutors` and
`SessionTypeCorrect` are parts. Assumed of the constants (`BoundsAssumption`): there is a
token for every slice of every Run.

*RecentRequestIds_proof* (`TrackingAssumption`). `IdsInv` adds to the types and
the two properties `RingHolds`: slot by slot, which accepted id the ring holds
before and after `next_index_`, in the first round and later. It makes the id that
is overwritten the oldest of the window; that no id repeats in a window
(`NoRepeatInWindow`) makes erasing it from the set erase one occurrence.
Theorems `TracksTheLastAlways`, `NoRepeatAlways`.

*GrpcSystem_proof* (`GrpcAssumption`, `NoneAssumption`: "none" is neither a session
nor a thread). `GInv` takes `IdsInv` from RecentRequestIds_proof and adds, with one lemma each
that every step keeps it:

- `WantInv`, `NetInv`: requests are new when they are sent and retries are numbered,
  so that of all attempts under way at most one is the one its thread waits for;
- `DoubtInv`: whatever is under way and not awaited is in doubt. It carries the
  argument past `Retry`, `GiveUp` and `Restart`;
- `MuInv`: only the holder of `mu_` waits for an Extend, and handle and version are
  still those it sent;
- `ExtendInv`: the client is at most one Extend behind, and no attempt carries a
  version above the client's. The master therefore refuses every attempt, however
  late, once the client is behind, which is `BehindForGood`;
- `FreshInv`: the handle in an answer to Create is known to nobody else;
- `RanInv`: a slice that was begun is still in the master's set, was forgotten, or
  its session is over, which after a restart is the only thing that stops it;
- `UsedInv`, `OverlapInv`, `ClosedInv`, `CountInv`: what the answered slices used, when
  Creates overlap, why open sessions are not the client's, and that no version
  exceeds the number of calls.

Theorems `GrpcInvariant`, `GrpcTypeCorrect`, `SystemTracksTheLast`, `SlicesRunOnce`,
`AnswersAreOfRuns`, `RunsStayInASession`, `VersionsAgree`, `OrphansHaveACause`,
`BehindStaysBehind`.

*Master_proof* (`MasterSessionAssumption`, `MasterAssumption`). `MasterInv` is a
conjunction of named parts with one lemma each that every step keeps it.
`Types`; `BatchOK` (a Reset's batch is a set of sessions); `Shape` (what a
handler has in hand at each place in its code); `OwnerShape` (what the owner has
done to `closed_`, `garbage_collected_` and the manager when it is at a given
place); `Calls` (how calls, status and subscription go together, which gives
`CancelReachesCalls` and `PlainCancelNotTheSessions`: a group whose code is
CANCELLED has a cause before the closing of the session, or the session is closed,
in which case `PostRunCleanup` says so); `Born` (a session
in use was created); then the exact counts `RunningExact`,
`SessionRefsExact` and `GraphRefsExact`, each by showing that a step adds or
removes one element of a finite set when it changes the counter. They need
`Drained` (after its wait `Close` sees no step), `InHand` (a graph in hand was
built), `GraphShape` (which graphs a table may hold, according to how far
registration and `Close` have come) and `MakersAlone` (a callable under
construction has one maker). `SetRPCLogging` adds as many references as there are
partitions, so `GraphRefsExact` has the count `logging[g]` beside the sets. `GraphsAlwaysGo`
reads the graphs that are left off the exact counts: of a deleted session no handler,
no cleanup closure and no Close holds one, so what is left is in a table that was
not cleared or referred to by a logging closure. The counters are integers in `Types`; that they are
never negative follows from the counts. Theorems `MasterTypeCorrect`,
`RefsAlwaysExact`, `GraphsAlwaysGo`,
`RunningAlwaysExact`, `CloseAlwaysWaits`, `CancelAlwaysReaches`,
`PlainCancelNeverTheSessions`, and `MasterImplementsService`: every step of the
master maps to a step of SessionService or leaves the mapped state alone. The
interesting case is the last Unref, which may be that of a handler, a cleanup
closure or the owner and must find no step left: `SessionRefsExact` gives it.

**Only model-checked.** All liveness (outside the prover's reach): `SimTerminates`,
`DeregisterReturns`, `StoppedRunsReturn`, `FailureEndsRun`,
`OutOfTableIsDeleted`. Of the simulator, `RemainingWork` and `NonNegativeSlowdown` without
`ExactShares`: in integers they are false of instances whose divisions round,
so no proof can do without it. `NonNegativeSlowdown` where another application's trace is
not well formed: its clock may go back, and the lower bounds of `LowerInv` with it.
The two violated properties are findings and have nothing to prove.

## Findings

- **fifo.** `Conf.dat.template` calls the GPU policy FIFO. A kernel that finds
  the GPU busy is put back 0.00001 after the end of the running one, so a kernel
  that is submitted exactly at that end is served first.
- **session_testfeed.** The split Run feeds `dim_size(0) / 8` rows per slice and
  fills `*outputs` from the last slice; the fed tensor of `TestFeed` has two rows,
  so none is used, and the outputs the test expects do not come.

Observed while modelling, without a run of their own:

- Scalar inputs are sliced too and `Tensor::Slice` fails a CHECK
  (`framework/tensor.cc:820`); `MultipleFeedTest` feeds scalars, and
  `GrpcSession::RunHelper` slices even when `spl` is 1. DirectSession has the crash;
  GrpcSystem has no tensors and not this crash of the client.
- `grpc_remote_master.cc:129` adds `timeout_in_ms / 1000.` to a time in
  microseconds. A call with a timeout that ends UNAVAILABLE therefore answers
  DeadlineExceeded instead of the retries the comment at 165-167 describes. The
  model lets a timed call give up after any attempt.
- `master.proto:90-93` promises FAILED_PRECONDITION for a graph version that does
  not match; `MasterSession::Extend` answers Aborted.
- Only the first bad status of a step cancels its calls
  (`master_session.cc:551`). A call that is issued after a sibling has failed never
  hears of a cancellation, and `Close` waits for it as long as it lasts. The
  properties `CancelReachesCalls` and `OutOfTableIsDeleted` name the exception.
- Callables of a collected session, and one whose `MakeCallable` overlaps `Close`,
  are not dropped by anybody (`GraphsGoWithSession` names both).
- `SetRPCLogging` (`master_session.cc:128-151`) takes a reference to the graph for
  calls that neither the step nor `Close` waits for. With FULL_TRACE a graph can
  therefore outlive its session, and its destructor uses a worker cache that the
  session may have owned. `GraphsGoWithSession` names the exception.
- A worker that answers CANCELLED by itself (an enqueue on a closed queue does) makes
  the master answer a plain CANCELLED although nobody cancelled the step.
  `PlainCancelNotTheSessions` says only that the session is never the cause.
- `Master::CleanupWorkers` ends the master process when a worker fails `CleanupAll`
  (`TF_CHECK_OK`, `master.cc:636`). The sessions of that Reset are then neither
  closed nor in the table; `OutOfTableIsDeleted` names the case.
- `CancellationManager::Reset` leaves `cancelled_notification_` notified. Nothing calls it.

Traces in `KernelSim/data` whose last kernel ends after the recorded iteration
time make the tail kernel's delay negative; `ClockMonotone`, `NonNegativeSlowdown`
and `SoloReplay` are therefore stated for well formed traces, which `getInput`
does not check for.

## Not modelled

- *Partial runs* of both sessions (`PRunSetup`, `PRun`, `PartialRunSetup`), the
  callables of DirectSession, its `Extend` after the first graph and
  `DirectSessionFactory::Reset`. `PartialRunSetup` takes a reference to its graph
  that nothing gives back and does not test `closed_`; the split Run does not
  use it.
- *CreateSession's search for devices* and the worker sessions it makes,
  `ListDevices`: they end in one status, which `CreateSession` in Master chooses
  freely.
- *The contents of statistics and of debugger state*: only the references and RPCs
  of a traced step are modelled.
- *Workers*: a `RunGraph`, `RegisterGraph`, `CleanupGraph`, `CleanupAll` or
  `Logging` call ends well, badly or, the first and the last only, perhaps never.
- *Inputs of type DT_RESOURCE* in DirectSession (`direct_session.cc:759-765`): `sps` is
  taken from the handle tensor and another tensor is sliced with it, so
  `FedIsAPrefix` does not speak of them; that the handle is refused is the error of
  `Feed`.
- *Tensors in GrpcSession* (`grpc_session.cc:223-228`): how a slice is cut is checked
  in DirectSession, which cuts in the same way.
- *Time*: deadlines, back-off and `session_gc_seconds` may pass at any moment.
- *Rendezvous*: enters only as "blocked until aborted" of ExecutorBarrier.
- Graph construction and optimisation, devices, kernels, allocators and the
  executor are upstream and enter only by what they may do to a step: end, fail,
  or block. They are most of the repository's million lines; nothing of the
  fork's own logic is in them.
- Floating-point rounding of KernelSim's times.
- The profiler filters, training and benchmark scripts hold no state that two
  parties share.

## Plan

1. **Proofs**: `NonNegativeSlowdown` of a well formed trace among ill formed
   ones, which needs a lower bound that survives a clock that goes back.
2. **Partial runs** in MasterSession and DirectSession: pending inputs and
   outputs, the partial run that is never finished.
3. **Rendezvous**: `Send`, `RecvAsync` and `StartAbort`, refining the "blocked
   until aborted" of ExecutorBarrier.

Runs are one per question; new components will share runs where one instance can
answer several.
