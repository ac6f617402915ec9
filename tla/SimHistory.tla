----------------------------- MODULE SimHistory -----------------------------
(***************************************************************************)
(* SimColocation with history variables that record what happened, for     *)
(* properties that relate a state to earlier ones.  No action of the       *)
(* simulator reads them.                                                   *)
(***************************************************************************)
EXTENDS SimColocation

VARIABLES
    runs,       \* how often the kernel has been scheduled
    served,     \* bus time the scheduled copy has received
    since       \* time at which the kernel was submitted

histVars == <<runs, served, since>>
allVars  == <<vars, histVars>>

HistInit ==
    /\ runs = [k \in Kernel |-> 0]
    /\ served = [k \in Kernel |-> 0]
    /\ since = InitialTime

HistCall ==
    /\ runs' = [k \in Kernel |-> 0]
    /\ served' = [k \in Kernel |-> 0]
    /\ since' = InitialTime

(* Between two events the copies of a direction share its bus equally. *)
Share(k) == (now' - now) \div count[kernels[k].type]

Scheduled(k) == status[k] # 2 /\ status'[k] = 2
Submitted(k) == status[k] # 1 /\ status'[k] = 1

Record ==
    /\ runs' = [k \in Kernel |-> IF Scheduled(k) THEN runs[k] + 1 ELSE runs[k]]
    /\ served' = [k \in Kernel |->
                     IF status[k] = 2 THEN served[k] + Share(k)
                     ELSE IF Scheduled(k) THEN 0
                     ELSE served[k]]
    /\ since' = [k \in Kernel |-> IF Submitted(k) THEN time'[k] ELSE since[k]]

HistSpec == /\ GraphOK /\ SimInit /\ HistInit
            /\ [][SimStep /\ Record]_allVars

-----------------------------------------------------------------------------
(* Iterations application a has completed *)
Done(a) == LoopCount(a) - loop[a]

(***************************************************************************)
(* Every kernel of an application is executed exactly once in each of its  *)
(* iterations: no iteration starts before the last one is complete, none   *)
(* is skipped, and at the end every kernel has run LoopCount times.        *)
(***************************************************************************)
ExactlyOncePerIteration == Started =>
    \A k \in Kernel :
        LET a == kernels[k].appid
        IN  /\ runs[k] \in {Done(a), Done(a) + 1}
            /\ status[k] = 1 => runs[k] = Done(a)
            /\ status[k] = 2 => runs[k] = Done(a) + 1
            /\ rt[a] # Unset => runs[k] = LoopCount(a)

(***************************************************************************)
(* A successor never runs ahead of its parent: it is submitted in an       *)
(* iteration only when the parent has finished in that iteration.          *)
(***************************************************************************)
ParentFirst == Started =>
    \A k \in Kernel :
        LET p == kernels[k].parent
            a == kernels[k].appid
        IN  p # NULL /\ (status[k] # 0 \/ runs[k] > Done(a))
                => status[p] = 0 /\ runs[p] = Done(a) + 1

(***************************************************************************)
(* Rescaling is fair sharing of the bus: what is left of a copy, as its    *)
(* finish time stands, is what it has not received yet, times the number   *)
(* of copies it shares the bus with.  Rounding would break this too.       *)
(***************************************************************************)
RemainingWork == Started =>
    \A k \in Kernel :
        status[k] = 2 =>
            time[k] - now = count[kernels[k].type] * (kernels[k].length - served[k])

(***************************************************************************)
(* A trace is well formed if its iteration lasts until the last kernel has *)
(* ended; getInput does not check it.                                      *)
(***************************************************************************)
WellFormed(a) == \A k \in Kernel : kernels[k].appid = a => End(kernels[k]) <= Apps[a].length

(* Simulated time never goes back, for traces that are well formed. *)
ClockMonotone == [][Started /\ (\A a \in App : WellFormed(a)) => now' >= now]_allVars

(***************************************************************************)
(* The slowdown printed for an application is not negative: sharing the    *)
(* machine never makes a well formed trace faster than it was alone.       *)
(***************************************************************************)
NonNegativeSlowdown == Started =>
    \A a \in App : rt[a] # Unset /\ WellFormed(a) => rt[a] >= LoopCount(a) * Apps[a].length

(***************************************************************************)
(* Two operations of a trace contend if they are of one type and one does  *)
(* not end before the other starts.                                        *)
(***************************************************************************)
Contend(j, k) == /\ j # k
                 /\ kernels[j].type = kernels[k].type
                 /\ kernels[j].start <= End(kernels[k])
                 /\ kernels[k].start <= End(kernels[j])

(***************************************************************************)
(* Calibration: an application that is alone, not slowed by the CPU and    *)
(* whose trace is free of contention is replayed exactly as it was         *)
(* recorded, in every iteration, and its slowdown is 0.                    *)
(***************************************************************************)
Ancestor(p, k) == p = kernels[k].parent

SoloReplay == Started =>
    \A a \in App :
        /\ App = {a}
        /\ Apps[a].slow = 0
        /\ WellFormed(a)
        /\ \A j, k \in Kernel : Contend(j, k) => Ancestor(j, k) \/ Ancestor(k, j)
        => /\ \A k \in Kernel : status[k] # 0 =>
                 time[k] = Done(a) * Apps[a].length +
                           IF status[k] = 1 THEN kernels[k].start ELSE End(kernels[k])
           /\ rt[a] # Unset => rt[a] = LoopCount(a) * Apps[a].length

(***************************************************************************)
(* The GPU is given to waiting kernels in the order of their submission    *)
(* (the FIFO of Conf.dat).                                                 *)
(***************************************************************************)
FifoGpu ==
    [][Started => \A k \in Kernel :
          Scheduled(k) /\ kernels[k].type = Compute =>
              \A j \in Kernel : status[j] = 1 /\ kernels[j].type = Compute
                                  => since[k] <= since[j]]_allVars

(* The simulation ends: no set of kernels keeps each other waiting for ever. *)
SimTerminates == (outcome = "running") ~> (outcome = "true")
=============================================================================
