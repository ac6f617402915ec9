---------------------------- MODULE SimColocation ----------------------------
(***************************************************************************)
(* simColocation (src/KernelSim/src/KernelSim.cpp): the discrete event     *)
(* simulation of applications that share one GPU and one bus in each       *)
(* direction.  The GPU executes one kernel at a time; copies in the same   *)
(* direction share the bus, so each arrival and each departure rescales    *)
(* what is left of the others.                                             *)
(*                                                                         *)
(* The priority queue holds at most one event of a kernel, so it is two    *)
(* functions: status[k] is 0 when no event of k is queued, else 1          *)
(* (submitted) or 2 (scheduled), and time[k] is the event's time.  (Were a *)
(* kernel pushed twice, QueueCounted would fail.)  Events with equal times *)
(* leave a priority_queue in an unspecified order: any of them may be the  *)
(* top.  The division of the code is exact in the reals; here it is \div,  *)
(* and RemainingWork fails in any instance where it would round.           *)
(***************************************************************************)
EXTENDS KernelGraph

CONSTANTS
    MAX,        \* simulated time each application is repeated for
    Eps,        \* the 0.00001 a waiting kernel adds to the end of the other
    Verb,       \* verbosity: from 1 on, a wait that does not advance fails
    Unset       \* rt[] before it is assigned

ASSUME SimAssumption ==
    /\ MAX \in Nat
    /\ Eps \in Nat \ {0}
    /\ Verb \in 0..3
    /\ Unset \notin Int

VARIABLES
    status,     \* the event queue: 0 none, 1 submitted, 2 scheduled
    time,       \* the event queue: time of the event
    count,      \* scheduled events of each type
    k_sch,      \* end of the kernel the GPU executes, 0 if idle
    now,        \* time of the event handled last
    loop,       \* iterations left to the application, the current included
    ac,         \* queued events of the application
    rt,         \* time the application finished
    outcome     \* "idle" before the call, "running", or the result "true" or "false"

queue   == <<status, time>>
simVars == <<status, time, count, k_sch, now, loop, ac, rt, outcome>>
vars    == <<graph, simVars>>

Kernel == DOMAIN kernels
App    == DOMAIN Apps

(* loop[i] = MAX / length, at least 1 *)
LoopCount(a) == IF MAX \div Apps[a].length < 1 THEN 1 ELSE MAX \div Apps[a].length

(* The head kernel of each application is submitted at its start time. *)
IsHead(k)     == \E a \in App : Apps[a].first = k
InitialStatus == [k \in Kernel |-> IF IsHead(k) THEN 1 ELSE 0]
InitialTime   == [k \in Kernel |-> IF IsHead(k) THEN kernels[k].start ELSE 0]
InitialLoop   == [a \in App |-> LoopCount(a)]

SimInit ==
    /\ status = InitialStatus /\ time = InitialTime
    /\ count = [t \in KernelTypes |-> 0]
    /\ k_sch = 0 /\ now = 0
    /\ loop = InitialLoop
    /\ ac = [a \in App |-> 1]
    /\ rt = [a \in App |-> Unset]
    /\ outcome = "running"

(* The call as a step: the same assignments. *)
SimCall ==
    /\ outcome = "idle"
    /\ status' = InitialStatus /\ time' = InitialTime
    /\ count' = [t \in KernelTypes |-> 0]
    /\ k_sch' = 0 /\ now' = 0
    /\ loop' = InitialLoop
    /\ ac' = [a \in App |-> 1]
    /\ rt' = [a \in App |-> Unset]
    /\ outcome' = "running"

Queued == {k \in Kernel : status[k] # 0}
InFlight(t) == {k \in Kernel : status[k] = 2 /\ kernels[k].type = t}

(* k's event is handled now: it is one of the earliest. *)
Top(k, s) ==
    /\ outcome = "running"
    /\ status[k] = s
    /\ \A j \in Queued : time[k] <= time[j]
    /\ now' = time[k]

(* Mutant: the GPU is not checked. *)
StartKernel_NoCheck(k) ==
    /\ Top(k, 1)
    /\ kernels[k].type = Compute
    /\ count' = [count EXCEPT ![Compute] = @ + 1]
    /\ status' = [status EXCEPT ![k] = 2]
    /\ time' = [time EXCEPT ![k] = now' + kernels[k].length]
    /\ k_sch' = now' + kernels[k].length
    /\ UNCHANGED <<graph, loop, ac, rt, outcome>>

(* Submitted kernel, idle GPU: the kernel is scheduled. *)
StartKernel(k) ==
    /\ Top(k, 1)
    /\ kernels[k].type = Compute
    /\ count[Compute] = 0
    /\ count' = [count EXCEPT ![Compute] = @ + 1]
    /\ status' = [status EXCEPT ![k] = 2]
    /\ time' = [time EXCEPT ![k] = now' + kernels[k].length]
    /\ k_sch' = now' + kernels[k].length
    /\ UNCHANGED <<graph, loop, ac, rt, outcome>>

(* Mutant: the waiting kernel is put back exactly at the end of the other. *)
WaitKernel_NoMargin(k) ==
    /\ Top(k, 1)
    /\ kernels[k].type = Compute
    /\ count[Compute] # 0
    /\ time' = [time EXCEPT ![k] = @ + (k_sch - now')]
    /\ outcome' = IF Verb >= 1 /\ now' = time'[k] THEN "false" ELSE outcome
    /\ UNCHANGED <<graph, status, count, k_sch, loop, ac, rt>>

(***************************************************************************)
(* Submitted kernel, busy GPU: the event is put back just after the end of *)
(* the running kernel.  With verb >= 1 simColocation returns false if that *)
(* is not later than now.                                                  *)
(***************************************************************************)
WaitKernel(k) ==
    /\ Top(k, 1)
    /\ kernels[k].type = Compute
    /\ count[Compute] # 0
    /\ time' = [time EXCEPT ![k] = @ + (k_sch - now') + Eps]
    /\ outcome' = IF Verb >= 1 /\ now' = time'[k] THEN "false" ELSE outcome
    /\ UNCHANGED <<graph, status, count, k_sch, loop, ac, rt>>

(* Mutants: the factors are swapped; the current time is not added again. *)
Rescale_Swapped(t, n, m)  == ((t - now') * m) \div n + now'
Rescale_Relative(t, n, m) == ((t - now') * n) \div m

(* What is left of a copy when the bus goes from m to n concurrent copies. *)
Rescale(t, n, m) == ((t - now') * n) \div m + now'

(* Submitted copy: it starts at once and the others of its direction slow down. *)
StartMemcpy(k) ==
    LET t == kernels[k].type
        n == count[t] + 1
    IN  /\ Top(k, 1)
        /\ t # Compute
        /\ count' = [count EXCEPT ![t] = n]
        /\ status' = [status EXCEPT ![k] = 2]
        /\ time' = [j \in Kernel |->
                      IF j = k THEN now' + kernels[k].length * n
                      ELSE IF n # 1 /\ j \in InFlight(t)
                           THEN Rescale(time[j], n, n - 1)
                      ELSE time[j]]
        /\ UNCHANGED <<graph, k_sch, loop, ac, rt, outcome>>

(* Mutant: the finished event is not subtracted. *)
Left_NotCounted(k) ==
    [b \in App |-> ac[b] + Cardinality({c \in next[k] : kernels[c].appid = b})]

(* ac[] when the event of k is popped and k's successors are pushed. *)
Left(k) ==
    [b \in App |-> ac[b] - (IF b = kernels[k].appid THEN 1 ELSE 0)
                         + Cardinality({c \in next[k] : kernels[c].appid = b})]

(* Mutant: the successor follows at once. *)
Delay_None(k, c) == 0

(***************************************************************************)
(* A successor follows k as long after it as in the trace, stretched by    *)
(* the slowdown of the CPU side.                                           *)
(***************************************************************************)
Delay(k, c) ==
    (kernels[c].start - End(kernels[k])) * (1 + Apps[kernels[c].appid].slow)

(* Mutant: events of the iteration are still queued. *)
StartsAgain_Early(a, left) == loop[a] > 1

(* The application has no event left and its next iteration is due. *)
StartsAgain(a, left) == left = 0 /\ loop[a] > 1

(* Mutant: the alternative the code has commented out. *)
NextIteration_Length(a) == Apps[a].length - kernels[Apps[a].first].start + now'

(* Time at which the head of the next iteration is submitted. *)
NextIteration(a) == kernels[Apps[a].first].start + now'

(***************************************************************************)
(* End of a scheduled event of kernel k: its successors are submitted; if  *)
(* the application then has no event left, its next iteration is submitted *)
(* or its finish time is recorded.  n is the number of copies left in the  *)
(* direction of k, 0 if there are none to rescale.                         *)
(***************************************************************************)
Finish(k, n) ==
    LET a     == kernels[k].appid
        left  == Left(k)
        again == StartsAgain(a, left[a])
        head  == IF again THEN {Apps[a].first} ELSE {}
    IN  /\ Top(k, 2)
        /\ count' = [count EXCEPT ![kernels[k].type] = @ - 1]
        /\ status' = [j \in Kernel |-> IF j \in next[k] \cup head THEN 1
                                       ELSE IF j = k THEN 0
                                       ELSE status[j]]
        /\ time' = [j \in Kernel |->
                      IF j \in head THEN NextIteration(a)
                      ELSE IF j \in next[k] THEN now' + Delay(k, j)
                      ELSE IF j = k THEN 0
                      ELSE IF n # 0 /\ j \in InFlight(kernels[k].type)
                           THEN Rescale(time[j], n, n + 1)
                      ELSE time[j]]
        /\ ac' = [left EXCEPT ![a] = @ + Cardinality(head)]
        /\ loop' = [loop EXCEPT ![a] = @ - Cardinality(head)]
        /\ rt' = [rt EXCEPT ![a] = IF left[a] = 0 /\ ~again THEN now' ELSE @]
        /\ UNCHANGED <<graph, outcome>>

FinishKernel(k) ==
    /\ kernels[k].type = Compute
    /\ Finish(k, 0)
    /\ k_sch' = 0

FinishMemcpy(k) ==
    /\ kernels[k].type # Compute
    /\ Finish(k, count[kernels[k].type] - 1)
    /\ UNCHANGED k_sch

(* The queue is empty: the table of run times is printed. *)
Report ==
    /\ outcome = "running"
    /\ Queued = {}
    /\ outcome' = "true"
    /\ UNCHANGED <<graph, status, time, count, k_sch, now, loop, ac, rt>>

SimStep ==
    \/ \E k \in Kernel : StartKernel(k)
    \/ \E k \in Kernel : WaitKernel(k)
    \/ \E k \in Kernel : StartMemcpy(k)
    \/ \E k \in Kernel : FinishKernel(k)
    \/ \E k \in Kernel : FinishMemcpy(k)
    \/ Report

-----------------------------------------------------------------------------
(***************************************************************************)
(* What simColocation needs of the graph it is given; getInput provides it *)
(* (theorem LoadedGraphOK of KernelSim_proof).                             *)
(***************************************************************************)
GraphOK ==
    /\ kernels \in Seq(Kernels)
    /\ next \in [Kernel -> SUBSET Kernel]
    /\ Apps \in Seq(AppsOf(Kernel))
    /\ \A k \in Kernel : kernels[k].appid \in App
    /\ \A a \in App : /\ kernels[Apps[a].first].appid = a
                      /\ kernels[Apps[a].first].parent = NULL
    /\ \A k \in Kernel : k # Apps[kernels[k].appid].first =>
          /\ kernels[k].parent \in 1..(k - 1)
          /\ kernels[kernels[k].parent].appid = kernels[k].appid
    /\ \A p, c \in Kernel : c \in next[p] <=> kernels[c].parent = p

SimSpec == /\ GraphOK /\ SimInit
           /\ [][SimStep]_vars

-----------------------------------------------------------------------------
(* simColocation has been called; only then its variables exist. *)
Started == outcome # "idle"

(* Type invariant of the simulator's state. *)
SimTypeOK == Started =>
    /\ status \in [Kernel -> 0..2]
    /\ time \in [Kernel -> Int]
    /\ count \in [KernelTypes -> Nat]
    /\ k_sch \in Int
    /\ now \in Int
    /\ loop \in [App -> Nat \ {0}]
    /\ ac \in [App -> Nat]
    /\ rt \in [App -> Int \cup {Unset}]
    /\ outcome \in {"running", "true", "false"}

(***************************************************************************)
(* The counters the code keeps beside the queue agree with it: count[t] is *)
(* the number of scheduled events of type t, ac[a] the number of events of *)
(* application a.  An event that is lost or pushed twice breaks it, and    *)
(* with it the rescaling of the copies and the end of an iteration.        *)
(***************************************************************************)
QueueCounted == Started =>
    /\ \A t \in KernelTypes : count[t] = Cardinality(InFlight(t))
    /\ \A a \in App : ac[a] = Cardinality({k \in Queued : kernels[k].appid = a})

(***************************************************************************)
(* At most one kernel executes on the GPU, and k_sch, from which every     *)
(* waiting kernel computes when to try again, is its end.                  *)
(***************************************************************************)
GpuExclusive == Started =>
    IF count[Compute] = 0
    THEN InFlight(Compute) = {}
    ELSE /\ count[Compute] = 1
         /\ \E k \in Kernel : /\ InFlight(Compute) = {k}
                              /\ k_sch = time[k]

(***************************************************************************)
(* A kernel that has to wait is put back later than now, so the check      *)
(* `if(now == newEvt.getTime()) return false;` never fires and the         *)
(* simulation never fails.                                                 *)
(***************************************************************************)
NeverFails == outcome # "false"

(* The run time of an application is assigned by the time it is printed. *)
ReportedTimesSet ==
    outcome = "true" => \A a \in App : rt[a] # Unset
=============================================================================
