-------------------------- MODULE SimHistory_proof --------------------------
(***************************************************************************)
(* Proofs about the simulator, for every graph the loader can build, every *)
(* number of applications, every MAX and every margin.                     *)
(***************************************************************************)
EXTENDS SimHistory, SequenceTheorems, FiniteSetTheorems, WellFoundedInduction, TLAPS

(* In its current iteration the kernel has finished; has not been submitted. *)
Ran(k)     == status[k] = 0 /\ runs[k] = Done(kernels[k].appid) + 1
Pending(k) == status[k] = 0 /\ runs[k] = Done(kernels[k].appid)

First(a) == Apps[a].first
EventsOf(a) == {k \in Queued : kernels[k].appid = a}

(***************************************************************************)
(* The progress of an iteration: a kernel waits exactly until its parent   *)
(* has finished; the head never waits.                                     *)
(***************************************************************************)
PhaseInv ==
    \A k \in Kernel :
        /\ runs[k] \in {Done(kernels[k].appid), Done(kernels[k].appid) + 1}
        /\ status[k] = 1 => runs[k] = Done(kernels[k].appid)
        /\ status[k] = 2 => runs[k] = Done(kernels[k].appid) + 1
        /\ k = First(kernels[k].appid) => ~Pending(k)
        /\ k # First(kernels[k].appid) => (Pending(k) <=> ~Ran(kernels[k].parent))

(* An application without events has finished its last iteration. *)
FinishedInv ==
    \A a \in App : /\ rt[a] = Unset <=> ac[a] # 0
                   /\ rt[a] # Unset => loop[a] = 1

SimInv ==
    /\ outcome \in {"running", "true"}
    /\ GraphOK
    /\ SimTypeOK
    /\ runs \in [Kernel -> Int]
    /\ QueueCounted
    /\ GpuExclusive
    /\ PhaseInv
    /\ FinishedInv
    /\ outcome = "true" => Queued = {}

(* The graph, unfolded. *)
LEMMA GraphFacts ==
    ASSUME GraphOK
    PROVE  /\ Len(kernels) \in Nat
           /\ Kernel = 1..Len(kernels)
           /\ IsFiniteSet(Kernel)
           /\ \A k \in Kernel : /\ kernels[k].type \in KernelTypes
                                /\ kernels[k].start \in Int
                                /\ kernels[k].length \in Nat
                                /\ kernels[k].appid \in App
                                /\ next[k] \subseteq Kernel
           /\ \A a \in App : /\ First(a) \in Kernel
                             /\ kernels[First(a)].appid = a
                             /\ kernels[First(a)].parent = NULL
                             /\ Apps[a].slow \in Nat
                             /\ Apps[a].length \in Nat \ {0}
           /\ \A k \in Kernel : k # First(kernels[k].appid) =>
                 /\ kernels[k].parent \in Kernel
                 /\ kernels[k].parent < k
                 /\ kernels[kernels[k].parent].appid = kernels[k].appid
           /\ \A p, c \in Kernel : c \in next[p] <=> kernels[c].parent = p
           /\ NULL \notin Kernel
<1>1. Len(kernels) \in Nat /\ Kernel = 1..Len(kernels)
  BY LenProperties DEF GraphOK, Kernel
<1>2. IsFiniteSet(Kernel) /\ NULL \notin Kernel
  BY <1>1, FS_Interval DEF NULL
<1>3. \A k \in Kernel : kernels[k] \in Kernels
  BY <1>1, ElementOfSeq DEF GraphOK
<1>4. \A k \in Kernel : /\ kernels[k].type \in KernelTypes
                        /\ kernels[k].start \in Int
                        /\ kernels[k].length \in Nat
  BY <1>3 DEF Kernels
<1>5. \A a \in App : Apps[a] \in AppsOf(Kernel)
  BY LenProperties, ElementOfSeq DEF GraphOK, App
<1>6. \A a \in App : /\ First(a) \in Kernel
                     /\ Apps[a].slow \in Nat
                     /\ Apps[a].length \in Nat \ {0}
  BY <1>5 DEF AppsOf, First
<1>7. \A k \in Kernel : k # First(kernels[k].appid) =>
         /\ kernels[k].parent \in Kernel
         /\ kernels[k].parent < k
         /\ kernels[kernels[k].parent].appid = kernels[k].appid
  <2> SUFFICES ASSUME NEW k \in Kernel, k # First(kernels[k].appid)
               PROVE  /\ kernels[k].parent \in Kernel
                      /\ kernels[k].parent < k
                      /\ kernels[kernels[k].parent].appid = kernels[k].appid
    OBVIOUS
  <2>1. /\ kernels[k].parent \in 1..(k - 1)
        /\ kernels[kernels[k].parent].appid = kernels[k].appid
    BY DEF GraphOK, First
  <2> QED
    BY <1>1, <2>1
<1> QED
  BY <1>1, <1>2, <1>4, <1>6, <1>7 DEF GraphOK, First

(* A nonempty set of naturals has a least element. *)
LEMMA LeastElement ==
    ASSUME NEW T \in SUBSET Nat, T # {}
    PROVE  \E x \in T : \A y \in T : x <= y
<1> DEFINE R == {p \in Nat \X Nat : p[1] < p[2]}
<1>1. IsWellFoundedOn(OpToRel(<, Nat), Nat)
  BY NatLessThanWellFounded
<1>2. OpToRel(<, Nat) = R
  BY DEF OpToRel
<1> HIDE DEF R
<1>3. PICK x \in T : \A y \in T : ~(<<y, x>> \in R)
  BY <1>1, <1>2, WFMin
<1>4. ASSUME NEW y \in T PROVE x <= y
  <2>1. ~(<<y, x>> \in R) /\ x \in Nat /\ y \in Nat
    BY <1>3
  <2>2. y < x => <<y, x>> \in R
    BY <2>1 DEF R
  <2> QED
    BY <2>1, <2>2
<1> QED
  BY <1>4

LEMMA LoopCountType ==
    ASSUME GraphOK, NEW a \in App
    PROVE  LoopCount(a) \in Nat \ {0}
<1>1. Apps[a].length \in Nat \ {0}
  BY GraphFacts
<1>2. MAX \div Apps[a].length \in Int
  BY <1>1, SimAssumption DEF SimAssumption
<1> QED
  BY <1>2 DEF LoopCount

-----------------------------------------------------------------------------
LEMMA SimInvInit == GraphOK /\ SimInit /\ HistInit => SimInv
<1> SUFFICES ASSUME GraphOK, SimInit, HistInit PROVE SimInv
  OBVIOUS
<1>1. /\ IsFiniteSet(Kernel) /\ NULL \notin Kernel
      /\ \A k \in Kernel : kernels[k].appid \in App /\ kernels[k].start \in Int
      /\ \A a \in App : First(a) \in Kernel /\ kernels[First(a)].appid = a
      /\ \A k \in Kernel : k # First(kernels[k].appid) =>
            /\ kernels[k].parent \in Kernel
            /\ kernels[kernels[k].parent].appid = kernels[k].appid
  BY GraphFacts
<1>2. \A k \in Kernel : IsHead(k) <=> k = First(kernels[k].appid)
  BY <1>1 DEF IsHead, First
<1>3. /\ \A k \in Kernel : status[k] = IF k = First(kernels[k].appid) THEN 1 ELSE 0
      /\ \A k \in Kernel : runs[k] = 0
      /\ \A a \in App : loop[a] = LoopCount(a) /\ Done(a) = 0
      /\ outcome = "running"
  BY <1>2, LoopCountType DEF SimInit, HistInit, InitialStatus, InitialLoop, Done
<1>4. SimTypeOK
  <2>1. time \in [Kernel -> Int]
    BY <1>1 DEF SimInit, InitialTime
  <2>2. status \in [Kernel -> 0..2]
    BY DEF SimInit, InitialStatus
  <2>3. loop \in [App -> Nat \ {0}]
    BY LoopCountType DEF SimInit, InitialLoop
  <2> QED
    BY <2>1, <2>2, <2>3 DEF SimInit, SimTypeOK
<1>5. \A t \in KernelTypes : InFlight(t) = {}
  BY <1>3 DEF InFlight
<1>6. \A a \in App : EventsOf(a) = {First(a)}
  BY <1>1, <1>3 DEF EventsOf, Queued
<1>7. QueueCounted
  BY <1>5, <1>6, FS_EmptySet, FS_Singleton DEF QueueCounted, SimInit, EventsOf
<1>8. GpuExclusive
  BY <1>5 DEF GpuExclusive, SimInit, Compute, KernelTypes
<1>9. PhaseInv
  <2> SUFFICES ASSUME NEW k \in Kernel
               PROVE  /\ runs[k] \in {Done(kernels[k].appid), Done(kernels[k].appid) + 1}
                      /\ status[k] = 1 => runs[k] = Done(kernels[k].appid)
                      /\ status[k] = 2 => runs[k] = Done(kernels[k].appid) + 1
                      /\ k = First(kernels[k].appid) => ~Pending(k)
                      /\ k # First(kernels[k].appid) =>
                            (Pending(k) <=> ~Ran(kernels[k].parent))
    BY DEF PhaseInv
  <2>1. k # First(kernels[k].appid) => ~Ran(kernels[k].parent)
    BY <1>1, <1>3 DEF Ran
  <2> QED
    BY <1>1, <1>3, <2>1 DEF Pending
<1>10. FinishedInv
  BY DEF SimInit, FinishedInv
<1>11. runs \in [Kernel -> Int]
  BY DEF HistInit
<1> QED
  BY <1>3, <1>4, <1>7, <1>8, <1>9, <1>10, <1>11 DEF SimInv

(* The facts of the invariant every step starts from. *)
LEMMA StepFacts ==
    ASSUME SimInv, outcome = "running"
    PROVE  /\ status \in [Kernel -> 0..2] /\ time \in [Kernel -> Int]
           /\ count \in [KernelTypes -> Nat] /\ k_sch \in Int /\ now \in Int
           /\ loop \in [App -> Nat \ {0}] /\ ac \in [App -> Nat]
           /\ rt \in [App -> Int \cup {Unset}] /\ runs \in [Kernel -> Int]
           /\ \A t \in KernelTypes : count[t] = Cardinality(InFlight(t))
           /\ \A a \in App : ac[a] = Cardinality(EventsOf(a))
           /\ \A t \in KernelTypes : IsFiniteSet(InFlight(t))
           /\ \A a \in App : IsFiniteSet(EventsOf(a))
<1>1. IsFiniteSet(Kernel)
  BY GraphFacts DEF SimInv
<1>2. /\ \A t \in KernelTypes : InFlight(t) \in SUBSET Kernel
      /\ \A a \in App : EventsOf(a) \in SUBSET Kernel
  BY DEF InFlight, EventsOf, Queued
<1>3. /\ \A t \in KernelTypes : IsFiniteSet(InFlight(t))
      /\ \A a \in App : IsFiniteSet(EventsOf(a))
  BY <1>1, <1>2, FS_Subset
<1>4. QueueCounted /\ SimTypeOK /\ Started
  BY DEF SimInv, Started
<1> QED
  BY <1>3, <1>4 DEF SimInv, SimTypeOK, QueueCounted, EventsOf

(* A step that leaves the graph and the iterations alone. *)
LEMMA GraphUnchanged ==
    ASSUME UNCHANGED graph
    PROVE  /\ kernels' = kernels /\ next' = next /\ Apps' = Apps
           /\ Kernel' = Kernel /\ App' = App /\ (GraphOK => GraphOK')
           /\ \A a \in App : First(a)' = First(a)
<1>1. kernels' = kernels /\ next' = next /\ Apps' = Apps
  BY DEF graph
<1>2. Kernel' = Kernel /\ App' = App
  BY <1>1 DEF Kernel, App
<1> QED
  BY <1>1, <1>2 DEF GraphOK, First

(* Scheduling a submitted event, whatever the new times are. *)
LEMMA ScheduleKeeps ==
    ASSUME SimInv, outcome = "running", NEW k \in Kernel, status[k] = 1,
           status' = [status EXCEPT ![k] = 2],
           count' = [count EXCEPT ![kernels[k].type] = count[kernels[k].type] + 1],
           UNCHANGED <<graph, loop, ac, rt, outcome>>, Record
    PROVE  /\ \A t \in KernelTypes : InFlight(t)' = IF t = kernels[k].type
                                                    THEN InFlight(t) \cup {k}
                                                    ELSE InFlight(t)
           /\ status' \in [Kernel -> 0..2] /\ count' \in [KernelTypes -> Nat]
           /\ runs' \in [Kernel -> Int]
           /\ QueueCounted' /\ PhaseInv' /\ FinishedInv'
<1>1. /\ status \in [Kernel -> 0..2] /\ count \in [KernelTypes -> Nat]
      /\ runs \in [Kernel -> Int]
      /\ \A t \in KernelTypes : count[t] = Cardinality(InFlight(t))
      /\ \A a \in App : ac[a] = Cardinality(EventsOf(a))
      /\ \A t \in KernelTypes : IsFiniteSet(InFlight(t))
  BY StepFacts
<1>2. /\ kernels' = kernels /\ Kernel' = Kernel /\ App' = App
      /\ \A a \in App : First(a)' = First(a)
      /\ Apps' = Apps
  BY GraphUnchanged
<1>3. /\ kernels[k].type \in KernelTypes
      /\ \A x \in Kernel : kernels[x].appid \in App
      /\ \A x \in Kernel : x # First(kernels[x].appid) =>
            /\ kernels[x].parent \in Kernel
            /\ kernels[kernels[x].parent].appid = kernels[x].appid
  BY GraphFacts DEF SimInv
<1>4. \A x \in Kernel : status'[x] = IF x = k THEN 2 ELSE status[x]
  BY <1>1
<1>5. \A t \in KernelTypes : InFlight(t)' = IF t = kernels[k].type
                                           THEN InFlight(t) \cup {k} ELSE InFlight(t)
  BY <1>2, <1>4 DEF InFlight
<1>6. \A t \in KernelTypes : count'[t] = Cardinality(InFlight(t)')
  <2> SUFFICES ASSUME NEW t \in KernelTypes PROVE count'[t] = Cardinality(InFlight(t)')
    OBVIOUS
  <2>1. k \notin InFlight(t)
    BY DEF InFlight
  <2>2. Cardinality(InFlight(t) \cup {k}) = Cardinality(InFlight(t)) + 1
    BY <1>1, <2>1, FS_AddElement
  <2> QED
    BY <1>1, <1>5, <2>2
<1>7. \A a \in App : EventsOf(a)' = EventsOf(a)
  BY <1>2, <1>4 DEF EventsOf, Queued
<1>8. QueueCounted'
  <2>1. \A a \in App : ac'[a] = Cardinality(EventsOf(a)')
    BY <1>1, <1>7
  <2> QED
    BY <1>2, <1>6, <2>1 DEF QueueCounted, EventsOf
<1>9. /\ \A x \in Kernel : runs'[x] = IF x = k THEN runs[x] + 1 ELSE runs[x]
      /\ runs' \in [Kernel -> Int]
  BY <1>1, <1>2, <1>4 DEF Record, Scheduled
<1>10. \A a \in App : Done(a)' = Done(a)
  BY <1>2 DEF Done, LoopCount
<1>11. PhaseInv'
  <2>1. runs[k] = Done(kernels[k].appid) /\ Done(kernels[k].appid) \in Int
    BY <1>1, <1>3 DEF SimInv, PhaseInv
  <2>2. \A x \in Kernel : (Ran(x)' <=> Ran(x)) /\ (Pending(x)' <=> Pending(x))
    BY <1>2, <1>3, <1>4, <1>9, <1>10 DEF Ran, Pending
  <2> SUFFICES ASSUME NEW x \in Kernel
               PROVE  /\ runs'[x] \in {Done(kernels[x].appid), Done(kernels[x].appid) + 1}
                      /\ status'[x] = 1 => runs'[x] = Done(kernels[x].appid)
                      /\ status'[x] = 2 => runs'[x] = Done(kernels[x].appid) + 1
                      /\ x = First(kernels[x].appid) => ~Pending(x)'
                      /\ x # First(kernels[x].appid) =>
                            (Pending(x)' <=> ~Ran(kernels[x].parent)')
    BY <1>2, <1>3, <1>10 DEF PhaseInv
  <2>3. /\ runs[x] \in {Done(kernels[x].appid), Done(kernels[x].appid) + 1}
        /\ status[x] = 1 => runs[x] = Done(kernels[x].appid)
        /\ status[x] = 2 => runs[x] = Done(kernels[x].appid) + 1
        /\ x = First(kernels[x].appid) => ~Pending(x)
        /\ x # First(kernels[x].appid) => (Pending(x) <=> ~Ran(kernels[x].parent))
    BY DEF SimInv, PhaseInv
  <2>4. /\ x = First(kernels[x].appid) => ~Pending(x)'
        /\ x # First(kernels[x].appid) => (Pending(x)' <=> ~Ran(kernels[x].parent)')
    <3>1. x # First(kernels[x].appid) => kernels[x].parent \in Kernel
      BY <1>3
    <3> QED
      BY <1>2, <2>2, <2>3, <3>1
  <2>5. CASE x = k
    BY <1>4, <1>9, <2>1, <2>4, <2>5
  <2>6. CASE x # k
    BY <1>4, <1>9, <2>3, <2>4, <2>6
  <2> QED
    BY <2>5, <2>6
<1>12. FinishedInv'
  BY <1>2 DEF SimInv, FinishedInv
<1>13. status' \in [Kernel -> 0..2] /\ count' \in [KernelTypes -> Nat]
  BY <1>1, <1>3
<1> QED
  BY <1>5, <1>8, <1>9, <1>11, <1>12, <1>13

LEMMA StartKernelKeeps ==
    ASSUME SimInv, NEW k \in Kernel, StartKernel(k), Record
    PROVE  SimInv'
<1>1. /\ outcome = "running" /\ status[k] = 1 /\ kernels[k].type = Compute
      /\ count[Compute] = 0 /\ now' = time[k]
      /\ count' = [count EXCEPT ![Compute] = count[Compute] + 1]
      /\ status' = [status EXCEPT ![k] = 2]
      /\ time' = [time EXCEPT ![k] = now' + kernels[k].length]
      /\ k_sch' = now' + kernels[k].length
      /\ UNCHANGED <<graph, loop, ac, rt, outcome>>
  BY DEF StartKernel, Top
<1>2. /\ time \in [Kernel -> Int] /\ count \in [KernelTypes -> Nat] /\ Compute \in KernelTypes
      /\ loop \in [App -> Nat \ {0}] /\ ac \in [App -> Nat]
      /\ rt \in [App -> Int \cup {Unset}]
  BY <1>1, StepFacts DEF KernelTypes
<1>3. kernels[k].length \in Nat
  BY GraphFacts DEF SimInv
<1>4. /\ InFlight(Compute)' = InFlight(Compute) \cup {k}
      /\ status' \in [Kernel -> 0..2] /\ count' \in [KernelTypes -> Nat]
      /\ runs' \in [Kernel -> Int] /\ QueueCounted' /\ PhaseInv' /\ FinishedInv'
  BY <1>1, <1>2, ScheduleKeeps
<1>5. kernels' = kernels /\ Kernel' = Kernel /\ App' = App /\ GraphOK'
  BY <1>1, GraphUnchanged DEF SimInv
<1>6. SimTypeOK'
  BY <1>1, <1>2, <1>3, <1>4, <1>5 DEF SimTypeOK
<1>7. GpuExclusive'
  <2>1. InFlight(Compute) = {}
    BY <1>1 DEF SimInv, GpuExclusive, Started
  <2>2. InFlight(Compute)' = {k} /\ k_sch' = time'[k] /\ count'[Compute] = 1
    BY <1>1, <1>2, <1>3, <1>4, <2>1
  <2> QED
    BY <1>5, <2>2 DEF GpuExclusive
<1> QED
  BY <1>1, <1>4, <1>5, <1>6, <1>7 DEF SimInv

LEMMA RescaleType ==
    ASSUME NEW t \in Int, now' \in Int, NEW n \in Nat, NEW m \in Nat \ {0}
    PROVE  Rescale(t, n, m) \in Int
<1>1. (t - now') * n \in Int
  OBVIOUS
<1>2. \A x \in Int : x \div m \in Int
  OBVIOUS
<1> QED
  BY <1>1, <1>2 DEF Rescale

LEMMA StartMemcpyKeeps ==
    ASSUME SimInv, NEW k \in Kernel, StartMemcpy(k), Record
    PROVE  SimInv'
<1> DEFINE t == kernels[k].type
           n == count[t] + 1
<1>1. /\ outcome = "running" /\ status[k] = 1 /\ t # Compute /\ now' = time[k]
      /\ count' = [count EXCEPT ![t] = n]
      /\ status' = [status EXCEPT ![k] = 2]
      /\ time' = [j \in Kernel |->
                      IF j = k THEN now' + kernels[k].length * n
                      ELSE IF n # 1 /\ j \in InFlight(t)
                           THEN Rescale(time[j], n, n - 1)
                      ELSE time[j]]
      /\ UNCHANGED <<graph, k_sch, loop, ac, rt, outcome>>
  BY DEF StartMemcpy, Top
<1>2. /\ time \in [Kernel -> Int] /\ count \in [KernelTypes -> Nat] /\ Compute \in KernelTypes
      /\ loop \in [App -> Nat \ {0}] /\ ac \in [App -> Nat] /\ k_sch \in Int
      /\ rt \in [App -> Int \cup {Unset}]
  BY <1>1, StepFacts DEF KernelTypes
<1>3. kernels[k].length \in Nat /\ t \in KernelTypes
  BY GraphFacts DEF SimInv
<1>4. n \in Nat /\ n # 0 /\ (n # 1 => n - 1 \in Nat \ {0}) /\ now' \in Int
  BY <1>1, <1>2, <1>3
<1>5. /\ InFlight(Compute)' = InFlight(Compute)
      /\ status' \in [Kernel -> 0..2] /\ count' \in [KernelTypes -> Nat]
      /\ runs' \in [Kernel -> Int] /\ QueueCounted' /\ PhaseInv' /\ FinishedInv'
  BY <1>1, <1>2, ScheduleKeeps
<1>6. kernels' = kernels /\ Kernel' = Kernel /\ App' = App /\ GraphOK'
  BY <1>1, GraphUnchanged DEF SimInv
<1> HIDE DEF n
<1>7. time' \in [Kernel -> Int]
  <2>1. now' + kernels[k].length * n \in Int
    BY <1>3, <1>4
  <2>2. \A j \in Kernel : n # 1 => Rescale(time[j], n, n - 1) \in Int
    BY <1>2, <1>4, RescaleType
  <2> QED
    BY <1>1, <1>2, <2>1, <2>2
<1>8. SimTypeOK'
  BY <1>1, <1>2, <1>4, <1>5, <1>6, <1>7 DEF SimTypeOK
<1>9. \A j \in InFlight(Compute) : time'[j] = time[j]
  BY <1>1 DEF InFlight
<1>10. count'[Compute] = count[Compute]
  BY <1>1, <1>2
<1>11. GpuExclusive'
  BY <1>1, <1>5, <1>6, <1>9, <1>10 DEF SimInv, GpuExclusive, Started
<1> QED
  BY <1>1, <1>5, <1>6, <1>8, <1>11 DEF SimInv

LEMMA WaitKernelKeeps ==
    ASSUME SimInv, NEW k \in Kernel, WaitKernel(k), Record
    PROVE  SimInv'
<1>1. /\ outcome = "running" /\ status[k] = 1 /\ count[Compute] # 0 /\ now' = time[k]
      /\ \A j \in Queued : time[k] <= time[j]
      /\ time' = [time EXCEPT ![k] = time[k] + (k_sch - now') + Eps]
      /\ outcome' = IF Verb >= 1 /\ now' = time'[k] THEN "false" ELSE outcome
      /\ UNCHANGED <<graph, status, count, k_sch, loop, ac, rt>>
  BY DEF WaitKernel, Top
<1>2. /\ time \in [Kernel -> Int] /\ count \in [KernelTypes -> Nat] /\ k_sch \in Int
      /\ loop \in [App -> Nat \ {0}] /\ ac \in [App -> Nat] /\ status \in [Kernel -> 0..2]
      /\ rt \in [App -> Int \cup {Unset}] /\ runs \in [Kernel -> Int]
  BY <1>1, StepFacts
<1>3. PICK g \in Kernel : InFlight(Compute) = {g} /\ k_sch = time[g]
  BY <1>1 DEF SimInv, GpuExclusive, Started
<1>4. status[g] = 2 /\ g # k /\ g \in Queued
  BY <1>1, <1>3 DEF InFlight, Queued
<1>5. time'[k] = k_sch + Eps /\ now' < time'[k]
  BY <1>1, <1>2, <1>3, <1>4, SimAssumption DEF SimAssumption
<1>6. outcome' = "running"
  <2>1. now' \in Int /\ time'[k] \in Int
    BY <1>1, <1>2, <1>5, SimAssumption DEF SimAssumption
  <2> QED
    BY <1>1, <1>5, <2>1
<1>7. /\ kernels' = kernels /\ Kernel' = Kernel /\ App' = App /\ GraphOK' /\ Apps' = Apps
      /\ \A a \in App : First(a)' = First(a)
  BY <1>1, GraphUnchanged DEF SimInv
<1>8. SimTypeOK'
  <2>1. time' \in [Kernel -> Int]
    BY <1>1, <1>2, SimAssumption DEF SimAssumption
  <2> QED
    BY <1>1, <1>2, <1>6, <1>7, <2>1 DEF SimTypeOK
<1>9. \A t : InFlight(t)' = InFlight(t)
  BY <1>1, <1>7 DEF InFlight
<1>10. Queued' = Queued
  BY <1>1, <1>7 DEF Queued
<1>11. QueueCounted'
  BY <1>1, <1>7, <1>9, <1>10 DEF SimInv, QueueCounted, Started
<1>12. GpuExclusive'
  <2>1. time'[g] = time[g]
    BY <1>1, <1>2, <1>4
  <2>2. count[Compute] = 1
    BY <1>1 DEF SimInv, GpuExclusive, Started
  <2> QED
    BY <1>1, <1>3, <1>7, <1>9, <2>1, <2>2 DEF GpuExclusive
<1>13. runs' = runs
  BY <1>1, <1>2, <1>7 DEF Record, Scheduled
<1>14. PhaseInv'
  <2>1. /\ \A x \in Kernel : kernels[x].appid \in App
        /\ \A x \in Kernel : x # First(kernels[x].appid) => kernels[x].parent \in Kernel
    BY GraphFacts DEF SimInv
  <2>2. \A a \in App : Done(a)' = Done(a)
    BY <1>1, <1>7 DEF Done, LoopCount
  <2>3. \A x \in Kernel : (Ran(x)' <=> Ran(x)) /\ (Pending(x)' <=> Pending(x))
    BY <1>1, <1>7, <1>13, <2>1, <2>2 DEF Ran, Pending
  <2> QED
    BY <1>1, <1>7, <1>13, <2>1, <2>2, <2>3 DEF SimInv, PhaseInv
<1>15. FinishedInv'
  BY <1>1, <1>7 DEF SimInv, FinishedInv
<1> QED
  BY <1>2, <1>6, <1>7, <1>8, <1>11, <1>12, <1>13, <1>14, <1>15 DEF SimInv

-----------------------------------------------------------------------------
(***************************************************************************)
(* The state in which an event of k ends: its successors have not been     *)
(* submitted in this iteration, and if nothing of the application is left  *)
(* then every other kernel of it has finished.                             *)
(***************************************************************************)
LEMMA EndingFacts ==
    ASSUME SimInv, outcome = "running", NEW k \in Kernel, status[k] = 2
    PROVE  LET a == kernels[k].appid
           IN  /\ a \in App /\ kernels[k].type \in KernelTypes
               /\ k \in EventsOf(a) /\ k \in InFlight(kernels[k].type)
               /\ ac[a] >= 1 /\ count[kernels[k].type] >= 1
               /\ IsFiniteSet(next[k]) /\ Cardinality(next[k]) \in Nat
               /\ \A c \in next[k] : /\ c \in Kernel /\ c # k /\ kernels[c].appid = a
                                      /\ c # First(a) /\ Pending(c)
                                      /\ kernels[c].parent = k
               /\ \A b \in App : Left(k)[b] = IF b = a THEN ac[b] - 1 + Cardinality(next[k])
                                                        ELSE ac[b]
               /\ Left(k) \in [App -> Nat]
               /\ Left(k)[a] = 0 => /\ next[k] = {}
                                    /\ EventsOf(a) = {k}
                                    /\ \A x \in Kernel : kernels[x].appid = a /\ x # k => Ran(x)
<1> DEFINE a == kernels[k].appid
<1>1. /\ Kernel \subseteq Nat /\ IsFiniteSet(Kernel) /\ NULL \notin Kernel
      /\ a \in App /\ kernels[k].type \in KernelTypes /\ next[k] \subseteq Kernel
      /\ \A b \in App : First(b) \in Kernel /\ kernels[First(b)].parent = NULL
      /\ \A x \in Kernel : x # First(kernels[x].appid) =>
            /\ kernels[x].parent \in Kernel /\ kernels[x].parent < x
            /\ kernels[kernels[x].parent].appid = kernels[x].appid
      /\ \A c \in Kernel : c \in next[k] <=> kernels[c].parent = k
      /\ \A x \in Kernel : kernels[x].appid \in App
  BY GraphFacts DEF SimInv
<1>2. /\ status \in [Kernel -> 0..2] /\ ac \in [App -> Nat] /\ count \in [KernelTypes -> Nat]
      /\ \A t \in KernelTypes : count[t] = Cardinality(InFlight(t))
      /\ \A b \in App : ac[b] = Cardinality(EventsOf(b))
      /\ \A t \in KernelTypes : IsFiniteSet(InFlight(t))
      /\ \A b \in App : IsFiniteSet(EventsOf(b))
  BY StepFacts
<1>3. k \in EventsOf(a) /\ k \in InFlight(kernels[k].type)
  BY DEF EventsOf, InFlight, Queued
<1>4. ac[a] >= 1 /\ count[kernels[k].type] >= 1
  <2>1. ac[a] # 0
    BY <1>1, <1>2, <1>3, FS_EmptySet
  <2>2. count[kernels[k].type] # 0
    BY <1>1, <1>2, <1>3, FS_EmptySet
  <2>3. ac[a] \in Nat /\ count[kernels[k].type] \in Nat
    BY <1>1, <1>2
  <2> QED
    BY <2>1, <2>2, <2>3
<1>5. IsFiniteSet(next[k]) /\ Cardinality(next[k]) \in Nat
  BY <1>1, FS_Subset, FS_CardinalityType
<1>6. ASSUME NEW c \in next[k]
      PROVE  /\ c \in Kernel /\ c # k /\ kernels[c].appid = a
             /\ c # First(a) /\ Pending(c) /\ kernels[c].parent = k
  <2>1. c \in Kernel /\ kernels[c].parent = k /\ c # First(kernels[c].appid)
    <3>1. c \in Kernel /\ kernels[c].parent = k
      BY <1>1
    <3>2. kernels[c].appid \in App
      BY <1>1, <3>1
    <3>3. kernels[First(kernels[c].appid)].parent = NULL
      BY <1>1, <3>2
    <3> QED
      BY <1>1, <3>1, <3>3
  <2>2. kernels[c].appid = a /\ c # k
    BY <1>1, <2>1
  <2>3. ~Ran(k)
    BY DEF Ran
  <2> QED
    BY <2>1, <2>2, <2>3 DEF SimInv, PhaseInv
<1>7. \A b \in App : Left(k)[b] = IF b = a THEN ac[b] - 1 + Cardinality(next[k]) ELSE ac[b]
  <2> SUFFICES ASSUME NEW b \in App
               PROVE  Left(k)[b] = IF b = a THEN ac[b] - 1 + Cardinality(next[k]) ELSE ac[b]
    OBVIOUS
  <2>1. {c \in next[k] : kernels[c].appid = b} = IF b = a THEN next[k] ELSE {}
    BY <1>6
  <2>2. ac[b] \in Nat
    BY <1>2
  <2>3. CASE b = a
    BY <1>5, <2>1, <2>2, <2>3 DEF Left
  <2>4. CASE b # a
    <3>1. Cardinality({c \in next[k] : kernels[c].appid = b}) = 0
      BY <2>1, <2>4, FS_EmptySet
    <3> QED
      BY <2>2, <2>4, <3>1 DEF Left
  <2> QED
    BY <2>3, <2>4
<1>8. Left(k) \in [App -> Nat]
  <2>1. \A b \in App : Left(k)[b] \in Nat
    BY <1>2, <1>4, <1>5, <1>7
  <2> QED
    BY <2>1 DEF Left
<1>9. ASSUME Left(k)[a] = 0
      PROVE  next[k] = {} /\ EventsOf(a) = {k}
  <2>1. ac[a] = 1 /\ Cardinality(next[k]) = 0
    BY <1>1, <1>2, <1>4, <1>5, <1>7, <1>9
  <2>2. next[k] = {}
    BY <1>5, <2>1, FS_EmptySet
  <2>3. PICK x : EventsOf(a) = {x}
    BY <1>1, <1>2, <2>1, FS_Singleton
  <2> QED
    BY <1>3, <2>2, <2>3
<1>10. ASSUME Left(k)[a] = 0, NEW y \in Kernel, kernels[y].appid = a, y # k
       PROVE  Ran(y)
  <2> DEFINE T == {x \in Kernel : kernels[x].appid = a /\ Pending(x)}
  <2>1. ASSUME T # {} PROVE FALSE
    <3>1. T \in SUBSET Nat
      BY <1>1
    <3>2. PICK x \in T : \A z \in T : x <= z
      BY <2>1, <3>1, LeastElement
    <3>3. x \in Kernel /\ kernels[x].appid = a /\ Pending(x)
      BY <3>2
    <3>4. x # First(a) /\ ~Ran(kernels[x].parent)
      BY <3>3 DEF SimInv, PhaseInv
    <3> DEFINE p == kernels[x].parent
    <3>5. p \in Kernel /\ p < x /\ kernels[p].appid = a
      BY <1>1, <3>3, <3>4
    <3>6. ~Pending(p)
      <4>1. p \in T => x <= p
        BY <3>2
      <4>2. p \in Nat /\ x \in Nat
        BY <1>1, <3>3, <3>5
      <4>3. p \notin T
        BY <3>5, <4>1, <4>2
      <4> QED
        BY <3>5, <4>3
    <3>7. status[p] # 0
      BY <3>4, <3>5, <3>6 DEF SimInv, PhaseInv, Ran, Pending
    <3>8. p = k
      BY <1>9, <1>10, <3>5, <3>7 DEF EventsOf, Queued
    <3> QED
      BY <1>1, <1>9, <1>10, <3>3, <3>8
  <2>2. ~Pending(y)
    BY <1>10, <2>1
  <2>3. status[y] = 0
    BY <1>9, <1>10 DEF EventsOf, Queued
  <2> QED
    BY <1>10, <2>2, <2>3 DEF SimInv, PhaseInv, Ran, Pending
<1> QED
  BY <1>1, <1>3, <1>4, <1>5, <1>6, <1>7, <1>8, <1>9, <1>10

(* What both kinds of ending change. *)
LEMMA FinishKeeps ==
    ASSUME SimInv, NEW k \in Kernel, NEW n \in Nat, Finish(k, n), Record
    PROVE  /\ GraphOK' /\ Kernel' = Kernel /\ kernels' = kernels /\ App' = App
           /\ outcome = "running" /\ outcome' = "running"
           /\ status' \in [Kernel -> 0..2] /\ time' \in [Kernel -> Int]
           /\ count' \in [KernelTypes -> Nat] /\ now' \in Int
           /\ loop' \in [App -> Nat \ {0}] /\ ac' \in [App -> Nat]
           /\ rt' \in [App -> Int \cup {Unset}] /\ runs' \in [Kernel -> Int]
           /\ \A t \in KernelTypes : InFlight(t)' = InFlight(t) \ {k}
           /\ \A j \in Kernel : kernels[j].type # kernels[k].type /\ status'[j] = 2
                                => time'[j] = time[j]
           /\ count' = [count EXCEPT ![kernels[k].type] = count[kernels[k].type] - 1]
           /\ QueueCounted' /\ PhaseInv' /\ FinishedInv'
<1> DEFINE a     == kernels[k].appid
           left  == Left(k)
           again == StartsAgain(a, left[a])
           head  == IF again THEN {First(a)} ELSE {}
<1>1. /\ outcome = "running" /\ status[k] = 2 /\ now' = time[k]
      /\ count' = [count EXCEPT ![kernels[k].type] = count[kernels[k].type] - 1]
      /\ status' = [j \in Kernel |-> IF j \in next[k] \cup head THEN 1
                                     ELSE IF j = k THEN 0
                                     ELSE status[j]]
      /\ time' = [j \in Kernel |->
                    IF j \in head THEN NextIteration(a)
                    ELSE IF j \in next[k] THEN now' + Delay(k, j)
                    ELSE IF j = k THEN 0
                    ELSE IF n # 0 /\ j \in InFlight(kernels[k].type)
                         THEN Rescale(time[j], n, n + 1)
                    ELSE time[j]]
      /\ ac' = [left EXCEPT ![a] = left[a] + Cardinality(head)]
      /\ loop' = [loop EXCEPT ![a] = loop[a] - Cardinality(head)]
      /\ rt' = [rt EXCEPT ![a] = IF left[a] = 0 /\ ~again THEN now' ELSE rt[a]]
      /\ UNCHANGED <<graph, outcome>>
  BY DEF Finish, Top, First
<1>0. /\ outcome = "running" /\ status[k] = 2 /\ now' = time[k]
      /\ count' = [count EXCEPT ![kernels[k].type] = count[kernels[k].type] - 1]
      /\ UNCHANGED <<graph, outcome>>
  BY <1>1
<1>2. /\ status \in [Kernel -> 0..2] /\ time \in [Kernel -> Int]
      /\ count \in [KernelTypes -> Nat]
      /\ loop \in [App -> Nat \ {0}] /\ ac \in [App -> Nat]
      /\ rt \in [App -> Int \cup {Unset}] /\ runs \in [Kernel -> Int]
      /\ \A t \in KernelTypes : count[t] = Cardinality(InFlight(t))
      /\ \A b \in App : ac[b] = Cardinality(EventsOf(b))
      /\ \A t \in KernelTypes : IsFiniteSet(InFlight(t))
      /\ \A b \in App : IsFiniteSet(EventsOf(b))
  BY <1>0, StepFacts
<1>3. /\ a \in App /\ kernels[k].type \in KernelTypes
      /\ k \in EventsOf(a) /\ k \in InFlight(kernels[k].type)
      /\ ac[a] >= 1 /\ count[kernels[k].type] >= 1
      /\ IsFiniteSet(next[k]) /\ Cardinality(next[k]) \in Nat
      /\ \A c \in next[k] : /\ c \in Kernel /\ c # k /\ kernels[c].appid = a
                             /\ c # First(a) /\ Pending(c) /\ kernels[c].parent = k
      /\ \A b \in App : left[b] = IF b = a THEN ac[b] - 1 + Cardinality(next[k]) ELSE ac[b]
      /\ left \in [App -> Nat]
      /\ left[a] = 0 => /\ next[k] = {}
                        /\ EventsOf(a) = {k}
                        /\ \A x \in Kernel : kernels[x].appid = a /\ x # k => Ran(x)
  BY <1>0, EndingFacts
<1>4. /\ \A b \in App : /\ First(b) \in Kernel /\ kernels[First(b)].appid = b
                        /\ Apps[b].slow \in Nat
      /\ \A x \in Kernel : /\ kernels[x].appid \in App
                           /\ kernels[x].start \in Int /\ kernels[x].length \in Nat
      /\ \A x \in Kernel : x # First(kernels[x].appid) =>
            /\ kernels[x].parent \in Kernel
            /\ kernels[kernels[x].parent].appid = kernels[x].appid
      /\ \A c \in Kernel : c \in next[k] <=> kernels[c].parent = k
  BY GraphFacts DEF SimInv
<1>5. /\ kernels' = kernels /\ next' = next /\ Apps' = Apps
      /\ Kernel' = Kernel /\ App' = App /\ GraphOK'
      /\ \A b \in App : First(b)' = First(b)
  BY <1>0, GraphUnchanged DEF SimInv
<1>6. /\ again => left[a] = 0 /\ loop[a] > 1
      /\ left[a] = 0 /\ ~again => loop[a] = 1
      /\ Cardinality(head) = IF again THEN 1 ELSE 0
  <2>1. loop[a] \in Nat \ {0}
    BY <1>2, <1>3
  <2> QED
    BY <2>1, FS_EmptySet, FS_Singleton DEF StartsAgain
<1>c. Cardinality(head) \in Nat /\ \A j : j \in head <=> again /\ j = First(a)
  BY <1>6
<1> HIDE DEF left, again, head
<1>st. \A j \in Kernel : status'[j] = IF j \in next[k] \/ (again /\ j = First(a)) THEN 1
                                     ELSE IF j = k THEN 0
                                     ELSE status[j]
  BY <1>1, <1>c
<1>ac. \A b \in App : ac'[b] = IF b # a THEN ac[b] ELSE IF again THEN 1 ELSE left[a]
  <2>1. \A b \in App : ac'[b] = IF b = a THEN left[a] + Cardinality(head) ELSE left[b]
    BY <1>1, <1>3
  <2>2. left[a] \in Nat
    BY <1>3
  <2> QED
    BY <1>3, <1>6, <2>1, <2>2
<1>lp. \A b \in App : loop'[b] = IF b = a /\ again THEN loop[b] - 1 ELSE loop[b]
  <2>1. \A b \in App : loop'[b] = IF b = a THEN loop[a] - Cardinality(head) ELSE loop[b]
    BY <1>1, <1>2
  <2>2. loop[a] \in Nat
    BY <1>2, <1>3
  <2> QED
    BY <1>6, <2>1, <2>2
<1>rt. \A b \in App : rt'[b] = IF b = a /\ left[a] = 0 /\ ~again THEN now' ELSE rt[b]
  BY <1>1, <1>2
<1>7. \A j \in Kernel : j \in next[k] \/ (again /\ j = First(a)) => j = k \/ status[j] = 0
  <2>1. \A j \in next[k] : status[j] = 0
    BY <1>3 DEF Pending
  <2>2. again => First(a) = k \/ status[First(a)] = 0
    BY <1>3, <1>4, <1>6 DEF Ran
  <2> QED
    BY <2>1, <2>2
<1>8. ASSUME NEW t \in KernelTypes PROVE InFlight(t)' = InFlight(t) \ {k}
  <2>1. \A j \in Kernel : status'[j] = 2 <=> status[j] = 2 /\ j # k
    BY <1>0, <1>7, <1>st
  <2> QED
    BY <1>5, <2>1 DEF InFlight
<1>9. status' \in [Kernel -> 0..2] /\ count' \in [KernelTypes -> Nat] /\ now' \in Int
  <2>1. now' \in Int /\ count' \in [KernelTypes -> Nat]
    BY <1>0, <1>2, <1>3
  <2>2. \A j \in Kernel : status'[j] \in 0..2
    BY <1>2, <1>st
  <2>3. status' = [j \in Kernel |-> status'[j]]
    BY <1>1
  <2> QED
    BY <2>1, <2>2, <2>3
<1>10. time' \in [Kernel -> Int]
  <2>1. NextIteration(a) \in Int
    BY <1>3, <1>4, <1>9 DEF NextIteration, First
  <2>2. \A j \in next[k] : now' + Delay(k, j) \in Int
    <3> SUFFICES ASSUME NEW j \in next[k] PROVE now' + Delay(k, j) \in Int
      OBVIOUS
    <3>1. kernels[j].start - End(kernels[k]) \in Int
      BY <1>3, <1>4 DEF End
    <3>2. 1 + Apps[kernels[j].appid].slow \in Int
      BY <1>3, <1>4
    <3>3. Delay(k, j) \in Int
      BY <3>1, <3>2 DEF Delay
    <3> QED
      BY <1>9, <3>3
  <2>3. \A j \in Kernel : Rescale(time[j], n, n + 1) \in Int
    BY <1>2, <1>9, RescaleType
  <2>4. time' = [j \in Kernel |->
                    IF j \in head THEN NextIteration(a)
                    ELSE IF j \in next[k] THEN now' + Delay(k, j)
                    ELSE IF j = k THEN 0
                    ELSE IF n # 0 /\ j \in InFlight(kernels[k].type)
                         THEN Rescale(time[j], n, n + 1)
                    ELSE time[j]]
    BY <1>1
  <2>5. \A j \in Kernel : time'[j] \in Int
    BY <1>2, <2>1, <2>2, <2>3, <2>4
  <2>6. time' = [j \in Kernel |-> time'[j]]
    BY <2>4
  <2> QED
    BY <2>5, <2>6
<1>11. loop' \in [App -> Nat \ {0}] /\ ac' \in [App -> Nat] /\ rt' \in [App -> Int \cup {Unset}]
  <2>1. DOMAIN loop' = App /\ DOMAIN ac' = App /\ DOMAIN rt' = App
    BY <1>1, <1>2, <1>3
  <2>2. \A b \in App : loop'[b] \in Nat \ {0}
    BY <1>2, <1>6, <1>lp
  <2>3. \A b \in App : ac'[b] \in Nat
    BY <1>2, <1>3, <1>ac
  <2>4. \A b \in App : rt'[b] \in Int \cup {Unset}
    BY <1>2, <1>9, <1>rt
  <2>5. /\ loop' = [b \in App |-> loop'[b]] /\ ac' = [b \in App |-> ac'[b]]
        /\ rt' = [b \in App |-> rt'[b]]
    BY <1>1, <1>2, <1>3, <2>1
  <2> QED
    BY <2>2, <2>3, <2>4, <2>5
<1>12. runs' = runs
  <2>1. \A j \in Kernel : ~Scheduled(j)
    BY <1>0, <1>7, <1>st DEF Scheduled
  <2> QED
    BY <1>2, <1>5, <2>1 DEF Record
<1>13. \A j \in Kernel : kernels[j].type # kernels[k].type /\ status'[j] = 2 => time'[j] = time[j]
  <2> SUFFICES ASSUME NEW j \in Kernel, kernels[j].type # kernels[k].type, status'[j] = 2
               PROVE  time'[j] = time[j]
    OBVIOUS
  <2>1. j \notin head /\ j \notin next[k] /\ j # k
    BY <1>c, <1>st
  <2>2. j \notin InFlight(kernels[k].type)
    BY DEF InFlight
  <2> QED
    BY <1>1, <2>1, <2>2
<1>14. QueueCounted'
  <2>1. ASSUME NEW t \in KernelTypes PROVE count'[t] = Cardinality(InFlight(t)')
    <3>1. Cardinality(InFlight(t) \ {k}) =
            IF k \in InFlight(t) THEN Cardinality(InFlight(t)) - 1 ELSE Cardinality(InFlight(t))
      BY <1>2, FS_RemoveElement
    <3>2. k \in InFlight(t) <=> t = kernels[k].type
      BY <1>0 DEF InFlight
    <3> QED
      BY <1>0, <1>2, <1>8, <3>1, <3>2
  <2>2. ASSUME NEW b \in App PROVE ac'[b] = Cardinality(EventsOf(b)')
    <3>1. CASE b # a
      <4>1. EventsOf(b)' = EventsOf(b)
        <5>1. \A x \in Kernel : kernels[x].appid = b => status'[x] = status[x]
          BY <1>3, <1>4, <3>1, <1>st
        <5> QED
          BY <1>5, <5>1 DEF EventsOf, Queued
      <4> QED
        BY <1>2, <3>1, <4>1, <1>ac
    <3>2. CASE b = a /\ again
      <4>1. EventsOf(a)' = {First(a)}
        <5>1. \A x \in Kernel : kernels[x].appid = a =>
                 (status'[x] # 0 <=> x = First(a))
          BY <1>3, <1>4, <1>6, <3>2, <1>st DEF Ran
        <5> QED
          BY <1>3, <1>4, <1>5, <5>1 DEF EventsOf, Queued
      <4>2. ac'[a] = 1
        BY <1>3, <3>2, <1>ac
      <4> QED
        BY <1>5, <3>2, <4>1, <4>2, FS_Singleton
    <3>3. CASE b = a /\ ~again
      <4> DEFINE E == EventsOf(a) \ {k}
      <4>1. EventsOf(a)' = E \cup next[k]
        <5>1. \A x \in Kernel : kernels[x].appid = a =>
                 (status'[x] # 0 <=> x \in next[k] \/ (x # k /\ status[x] # 0))
          BY <1>3, <3>3, <1>st
        <5>2. \A x \in next[k] : x \in Kernel /\ kernels[x].appid = a
          BY <1>3
        <5> QED
          BY <1>5, <5>1, <5>2 DEF EventsOf, Queued
      <4>2. IsFiniteSet(E) /\ Cardinality(E) = ac[a] - 1
        <5>1. k \in EventsOf(a) /\ IsFiniteSet(EventsOf(a)) /\ ac[a] = Cardinality(EventsOf(a))
          BY <1>2, <1>3
        <5> QED
          BY <5>1, FS_RemoveElement
      <4>3. E \cap next[k] = {}
        BY <1>3 DEF EventsOf, Queued, Pending
      <4>4. Cardinality(E \cup next[k]) = ac[a] - 1 + Cardinality(next[k])
        <5>1. Cardinality(E \cup next[k]) =
                 Cardinality(E) + Cardinality(next[k]) - Cardinality(E \cap next[k])
          BY <1>3, <4>2, FS_Union
        <5>2. Cardinality(E \cap next[k]) = 0
          BY <4>3, FS_EmptySet
        <5>3. ac[a] \in Nat
          BY <1>2, <1>3
        <5> QED
          BY <1>3, <4>2, <5>1, <5>2, <5>3
      <4>5. ac'[a] = left[a]
        BY <1>3, <3>3, <1>ac
      <4> QED
        BY <1>5, <1>3, <3>3, <4>1, <4>4, <4>5
    <3> QED
      BY <3>1, <3>2, <3>3
  <2> QED
    BY <1>5, <2>1, <2>2 DEF QueueCounted, EventsOf
<1>15. FinishedInv'
  <2> SUFFICES ASSUME NEW b \in App
               PROVE  /\ rt'[b] = Unset <=> ac'[b] # 0
                      /\ rt'[b] # Unset => loop'[b] = 1
    BY <1>5 DEF FinishedInv
  <2>1. CASE b # a
    BY <2>1, <1>ac, <1>lp, <1>rt DEF SimInv, FinishedInv
  <2>2. CASE b = a
    <3>1. rt[a] = Unset
      BY <1>2, <1>3 DEF SimInv, FinishedInv
    <3>2. now' # Unset
      BY <1>9, SimAssumption DEF SimAssumption
    <3>3. CASE again
      <4>1. ac'[a] = 1 /\ rt'[a] = Unset
        BY <1>3, <3>1, <3>3, <1>ac, <1>rt
      <4> QED
        BY <2>2, <4>1
    <3>4. CASE ~again
      <4>1. ac'[a] = left[a] /\ loop'[a] = loop[a] /\ left[a] \in Nat
        BY <1>3, <3>4, <1>ac, <1>lp
      <4>2. rt'[a] = IF left[a] = 0 THEN now' ELSE Unset
        BY <1>3, <3>1, <3>4, <1>rt
      <4> QED
        BY <1>6, <2>2, <3>2, <3>4, <4>1, <4>2
    <3> QED
      BY <3>3, <3>4
  <2> QED
    BY <2>1, <2>2
<1>16. PhaseInv'
  <2>1. /\ \A b \in App : Done(b) \in Int
        /\ \A b \in App : Done(b)' = IF b = a /\ again THEN Done(b) + 1 ELSE Done(b)
    <3>1. \A b \in App : loop[b] \in Int /\ LoopCount(b) \in Int /\ LoopCount(b)' = LoopCount(b)
      BY <1>2, <1>5, LoopCountType DEF SimInv, LoopCount
    <3>2. \A b \in App : loop'[b] = IF b = a /\ again THEN loop[b] - 1 ELSE loop[b]
      BY <1>lp
    <3> QED
      BY <3>1, <3>2 DEF Done
  <2>2. ASSUME NEW x \in Kernel
        PROVE  /\ runs[x] \in {Done(kernels[x].appid), Done(kernels[x].appid) + 1}
               /\ status[x] = 1 => runs[x] = Done(kernels[x].appid)
               /\ status[x] = 2 => runs[x] = Done(kernels[x].appid) + 1
               /\ x = First(kernels[x].appid) => ~Pending(x)
               /\ x # First(kernels[x].appid) => (Pending(x) <=> ~Ran(kernels[x].parent))
               /\ kernels[x].appid \in App /\ runs[x] \in Int
    BY <1>2, <1>4 DEF SimInv, PhaseInv
  <2>3. \A x \in Kernel : /\ Ran(x)' <=> status'[x] = 0 /\ runs[x] = Done(kernels[x].appid)' + 1
                          /\ Pending(x)' <=> status'[x] = 0 /\ runs[x] = Done(kernels[x].appid)'
    BY <1>5, <1>12 DEF Ran, Pending
  <2> SUFFICES ASSUME NEW x \in Kernel
               PROVE  /\ runs[x] \in {Done(kernels[x].appid)', Done(kernels[x].appid)' + 1}
                      /\ status'[x] = 1 => runs[x] = Done(kernels[x].appid)'
                      /\ status'[x] = 2 => runs[x] = Done(kernels[x].appid)' + 1
                      /\ x = First(kernels[x].appid) => ~Pending(x)'
                      /\ x # First(kernels[x].appid) =>
                            (Pending(x)' <=> ~Ran(kernels[x].parent)')
    <3>1. \A x \in Kernel : First(kernels[x].appid)' = First(kernels[x].appid)
      BY <1>4, <1>5
    <3> QED
      BY <1>5, <1>12, <3>1 DEF PhaseInv
  <2>4. CASE kernels[x].appid = a /\ again
    <3>1. Done(a)' = Done(a) + 1 /\ Done(a) \in Int
      BY <1>5, <1>3, <2>1, <2>4
    <3>2. \A y \in Kernel : kernels[y].appid = a => runs[y] = Done(a) + 1
      <4>1. runs[k] = Done(a) + 1
        BY <1>0, <2>2
      <4> QED
        BY <1>3, <1>6, <2>4, <4>1 DEF Ran
    <3>3. \A y \in Kernel : kernels[y].appid = a =>
             status'[y] = IF y = First(a) THEN 1 ELSE 0
      BY <1>3, <1>6, <2>4, <1>st DEF Ran
    <3>4. \A y \in Kernel : kernels[y].appid = a => ~Ran(y)' /\ (Pending(y)' <=> y # First(a))
      BY <1>5, <2>3, <3>1, <3>2, <3>3
    <3>5. x # First(a) => kernels[x].parent \in Kernel /\ kernels[kernels[x].parent].appid = a
      BY <1>4, <2>4
    <3> QED
      BY <1>5, <2>4, <3>1, <3>2, <3>3, <3>4, <3>5
  <2>5. CASE ~(kernels[x].appid = a /\ again)
    <3> DEFINE b == kernels[x].appid
    <3>1. b \in App /\ Done(b)' = Done(b) /\ Done(b) \in Int
      BY <1>5, <2>1, <2>2, <2>5
    <3>2. \A y \in Kernel : kernels[y].appid = b =>
             status'[y] = IF y \in next[k] THEN 1 ELSE IF y = k THEN 0 ELSE status[y]
      BY <1>3, <1>4, <2>5, <1>st
    <3>3. ASSUME NEW y \in Kernel, kernels[y].appid = b
          PROVE  /\ Ran(y)' <=> Ran(y) \/ y = k
                 /\ Pending(y)' <=> Pending(y) /\ y \notin next[k]
      <4>1. CASE y \in next[k]
        BY <1>3, <2>3, <3>1, <3>2, <3>3, <4>1 DEF Ran, Pending
      <4>2. CASE y = k
        BY <1>5, <1>0, <1>3, <2>2, <2>3, <3>1, <3>2, <3>3, <4>2 DEF Ran, Pending
      <4>3. CASE y # k /\ y \notin next[k]
        BY <1>5, <2>3, <3>1, <3>2, <3>3, <4>3 DEF Ran, Pending
      <4> QED
        BY <4>1, <4>2, <4>3
    <3>4. x = First(b) => ~Pending(x)'
      BY <2>2, <3>3
    <3>5. ASSUME x # First(b) PROVE Pending(x)' <=> ~Ran(kernels[x].parent)'
      <4>1. kernels[x].parent \in Kernel /\ kernels[kernels[x].parent].appid = b
        BY <1>4, <3>5
      <4>2. x \in next[k] <=> kernels[x].parent = k
        BY <1>4
      <4>3. Pending(x) <=> ~Ran(kernels[x].parent)
        BY <2>2, <3>5
      <4> QED
        BY <1>5, <3>3, <4>1, <4>2, <4>3
    <3>6. x \in next[k] => runs[x] = Done(b)
      BY <1>3 DEF Pending
    <3> QED
      BY <2>2, <3>1, <3>2, <3>4, <3>5, <3>6
  <2> QED
    BY <2>4, <2>5
<1> QED
  BY <1>0, <1>2, <1>5, <1>8, <1>9, <1>10, <1>11, <1>12, <1>13, <1>14, <1>15, <1>16

LEMMA FinishKernelKeeps ==
    ASSUME SimInv, NEW k \in Kernel, FinishKernel(k), Record
    PROVE  SimInv'
<1>1. kernels[k].type = Compute /\ Finish(k, 0) /\ k_sch' = 0 /\ 0 \in Nat
  BY DEF FinishKernel
<1>2. /\ GraphOK' /\ Kernel' = Kernel /\ App' = App
      /\ outcome = "running" /\ outcome' = "running"
      /\ status' \in [Kernel -> 0..2] /\ time' \in [Kernel -> Int]
      /\ count' \in [KernelTypes -> Nat] /\ now' \in Int
      /\ loop' \in [App -> Nat \ {0}] /\ ac' \in [App -> Nat]
      /\ rt' \in [App -> Int \cup {Unset}] /\ runs' \in [Kernel -> Int]
      /\ \A t \in KernelTypes : InFlight(t)' = InFlight(t) \ {k}
      /\ count' = [count EXCEPT ![Compute] = count[Compute] - 1]
      /\ QueueCounted' /\ PhaseInv' /\ FinishedInv'
  BY <1>1, FinishKeeps
<1>3. status[k] = 2 /\ Compute \in KernelTypes /\ count \in [KernelTypes -> Nat]
  BY <1>1, <1>2, StepFacts DEF Finish, Top, KernelTypes
<1>4. SimTypeOK'
  BY <1>1, <1>2 DEF SimTypeOK
<1>5. k \in InFlight(Compute)
  BY <1>1, <1>3 DEF InFlight
<1>6. count[Compute] = 1 /\ InFlight(Compute) = {k}
  BY <1>2, <1>5 DEF SimInv, GpuExclusive, Started
<1>7. count'[Compute] = 0 /\ InFlight(Compute)' = {}
  BY <1>2, <1>3, <1>6
<1>8. GpuExclusive'
  BY <1>7 DEF GpuExclusive
<1> QED
  BY <1>2, <1>4, <1>8 DEF SimInv

LEMMA FinishMemcpyKeeps ==
    ASSUME SimInv, NEW k \in Kernel, FinishMemcpy(k), Record
    PROVE  SimInv'
<1> DEFINE t == kernels[k].type
           n == count[t] - 1
<1>1. t # Compute /\ Finish(k, n) /\ k_sch' = k_sch
  BY DEF FinishMemcpy
<1>2. outcome = "running" /\ status[k] = 2
  BY <1>1 DEF Finish, Top
<1>3. n \in Nat
  <2>1. t \in KernelTypes /\ count[t] >= 1
    BY <1>2, EndingFacts
  <2>2. count[t] \in Nat
    BY <1>2, <2>1, StepFacts
  <2> QED
    BY <2>1, <2>2
<1> HIDE DEF n
<1>4. /\ GraphOK' /\ Kernel' = Kernel /\ App' = App /\ kernels' = kernels
      /\ outcome' = "running"
      /\ status' \in [Kernel -> 0..2] /\ time' \in [Kernel -> Int]
      /\ count' \in [KernelTypes -> Nat] /\ now' \in Int
      /\ loop' \in [App -> Nat \ {0}] /\ ac' \in [App -> Nat]
      /\ rt' \in [App -> Int \cup {Unset}] /\ runs' \in [Kernel -> Int]
      /\ \A u \in KernelTypes : InFlight(u)' = InFlight(u) \ {k}
      /\ \A j \in Kernel : kernels[j].type # t /\ status'[j] = 2 => time'[j] = time[j]
      /\ count' = [count EXCEPT ![t] = count[t] - 1]
      /\ QueueCounted' /\ PhaseInv' /\ FinishedInv'
  BY <1>1, <1>3, FinishKeeps
<1>5. Compute \in KernelTypes /\ count \in [KernelTypes -> Nat] /\ k_sch \in Int
  BY <1>2, StepFacts DEF KernelTypes
<1>6. SimTypeOK'
  BY <1>1, <1>4, <1>5 DEF SimTypeOK
<1>7. InFlight(Compute)' = InFlight(Compute) /\ count'[Compute] = count[Compute]
  <2>1. k \notin InFlight(Compute)
    BY <1>1 DEF InFlight
  <2> QED
    <3>1. count'[Compute] = count[Compute]
      BY <1>1, <1>4, <1>5
    <3>2. InFlight(Compute)' = InFlight(Compute) \ {k}
      BY <1>4, <1>5
    <3> QED
      BY <2>1, <3>1, <3>2
<1>8. \A j \in InFlight(Compute) : time'[j] = time[j]
  <2>1. \A j \in InFlight(Compute)' : j \in Kernel /\ kernels[j].type # t /\ status'[j] = 2
    BY <1>1, <1>4 DEF InFlight
  <2> QED
    BY <1>4, <1>7, <2>1
<1>9. GpuExclusive'
  BY <1>1, <1>2, <1>4, <1>7, <1>8 DEF SimInv, GpuExclusive, Started
<1> QED
  BY <1>4, <1>6, <1>9 DEF SimInv

LEMMA ReportKeeps ==
    ASSUME SimInv, Report, Record
    PROVE  SimInv'
<1>1. /\ outcome = "running" /\ Queued = {} /\ outcome' = "true"
      /\ UNCHANGED <<graph, status, time, count, k_sch, now, loop, ac, rt>>
  BY DEF Report
<1>2. /\ kernels' = kernels /\ Kernel' = Kernel /\ App' = App /\ GraphOK' /\ Apps' = Apps
  BY <1>1, GraphUnchanged DEF SimInv
<1>3. runs \in [Kernel -> Int]
  BY DEF SimInv
<1>4. runs' = runs
  BY <1>1, <1>2, <1>3 DEF Record, Scheduled
<1>5. SimTypeOK'
  BY <1>1, <1>2 DEF SimInv, SimTypeOK, Started
<1>6. Queued' = Queued /\ \A t : InFlight(t)' = InFlight(t)
  BY <1>1, <1>2 DEF Queued, InFlight
<1>7. QueueCounted' /\ GpuExclusive'
  BY <1>1, <1>2, <1>6 DEF SimInv, QueueCounted, GpuExclusive, Started
<1>8. PhaseInv' /\ FinishedInv'
  BY <1>1, <1>2, <1>4
     DEF SimInv, PhaseInv, FinishedInv, Ran, Pending, First, Done, LoopCount
<1> QED
  BY <1>1, <1>2, <1>3, <1>4, <1>5, <1>6, <1>7, <1>8 DEF SimInv

LEMMA StutterKeeps ==
    ASSUME SimInv, UNCHANGED allVars
    PROVE  SimInv'
<1>1. /\ kernels' = kernels /\ next' = next /\ Apps' = Apps /\ status' = status
      /\ time' = time /\ count' = count /\ k_sch' = k_sch /\ now' = now /\ loop' = loop
      /\ ac' = ac /\ rt' = rt /\ outcome' = outcome /\ runs' = runs
  BY DEF allVars, vars, graph, simVars, histVars
<1>2. Kernel' = Kernel /\ App' = App /\ GraphOK'
  BY <1>1 DEF Kernel, App, GraphOK, SimInv
<1>3. Queued' = Queued /\ \A t : InFlight(t)' = InFlight(t)
  BY <1>1, <1>2 DEF Queued, InFlight
<1>4. SimTypeOK' /\ QueueCounted' /\ GpuExclusive'
  BY <1>1, <1>2, <1>3 DEF SimInv, SimTypeOK, QueueCounted, GpuExclusive, Started
<1>5. PhaseInv' /\ FinishedInv'
  BY <1>1, <1>2 DEF SimInv, PhaseInv, FinishedInv, Ran, Pending, First, Done, LoopCount
<1> QED
  BY <1>1, <1>2, <1>3, <1>4, <1>5 DEF SimInv

(* Every step of the simulator preserves the invariant. *)
LEMMA SimInvNext == SimInv /\ [SimStep /\ Record]_allVars => SimInv'
<1> SUFFICES ASSUME SimInv, [SimStep /\ Record]_allVars PROVE SimInv'
  OBVIOUS
<1>1. CASE Record /\ \E k \in Kernel : StartKernel(k)
  BY <1>1, StartKernelKeeps
<1>2. CASE Record /\ \E k \in Kernel : WaitKernel(k)
  BY <1>2, WaitKernelKeeps
<1>3. CASE Record /\ \E k \in Kernel : StartMemcpy(k)
  BY <1>3, StartMemcpyKeeps
<1>4. CASE Record /\ \E k \in Kernel : FinishKernel(k)
  BY <1>4, FinishKernelKeeps
<1>5. CASE Record /\ \E k \in Kernel : FinishMemcpy(k)
  BY <1>5, FinishMemcpyKeeps
<1>6. CASE Record /\ Report
  BY <1>6, ReportKeeps
<1>7. CASE UNCHANGED allVars
  BY <1>7, StutterKeeps
<1> QED
  BY <1>1, <1>2, <1>3, <1>4, <1>5, <1>6, <1>7 DEF SimStep

(* An application without an event in the queue has run all its kernels. *)
LEMMA NothingLeft ==
    ASSUME SimInv, NEW a \in App, EventsOf(a) = {},
           NEW y \in Kernel, kernels[y].appid = a
    PROVE  Ran(y)
<1>1. /\ Kernel \subseteq Nat
      /\ \A x \in Kernel : x # First(kernels[x].appid) =>
            /\ kernels[x].parent \in Kernel /\ kernels[x].parent < x
            /\ kernels[kernels[x].parent].appid = kernels[x].appid
  BY GraphFacts DEF SimInv
<1>2. \A x \in Kernel : kernels[x].appid = a => status[x] = 0
  BY DEF EventsOf, Queued
<1>3. \A x \in Kernel : kernels[x].appid = a => Ran(x) \/ Pending(x)
  BY <1>2 DEF SimInv, PhaseInv, Ran, Pending
<1> DEFINE T == {x \in Kernel : kernels[x].appid = a /\ Pending(x)}
<1>4. ASSUME T # {} PROVE FALSE
  <2>1. T \in SUBSET Nat
    BY <1>1
  <2>2. PICK x \in T : \A z \in T : x <= z
    BY <1>4, <2>1, LeastElement
  <2>3. x \in Kernel /\ kernels[x].appid = a /\ Pending(x)
    BY <2>2
  <2>4. x # First(a) /\ ~Ran(kernels[x].parent)
    BY <2>3 DEF SimInv, PhaseInv
  <2> DEFINE p == kernels[x].parent
  <2>5. p \in Kernel /\ p < x /\ kernels[p].appid = a
    BY <1>1, <2>3, <2>4
  <2>6. p \in T
    BY <1>3, <2>4, <2>5
  <2>7. x <= p /\ p \in Nat /\ x \in Nat
    BY <1>1, <2>2, <2>3, <2>5, <2>6
  <2> QED
    BY <2>5, <2>7
<1> QED
  BY <1>3, <1>4

LEMMA SimInvGivesOnce == SimInv => ExactlyOncePerIteration
<1> SUFFICES ASSUME SimInv, Started, NEW k \in Kernel
             PROVE  LET a == kernels[k].appid
                    IN  /\ runs[k] \in {Done(a), Done(a) + 1}
                        /\ status[k] = 1 => runs[k] = Done(a)
                        /\ status[k] = 2 => runs[k] = Done(a) + 1
                        /\ rt[a] # Unset => runs[k] = LoopCount(a)
  BY DEF ExactlyOncePerIteration
<1> DEFINE a == kernels[k].appid
<1>1. a \in App /\ LoopCount(a) \in Nat
  BY GraphFacts, LoopCountType DEF SimInv
<1>2. ASSUME rt[a] # Unset PROVE runs[k] = LoopCount(a)
  <2>1. ac[a] = 0 /\ loop[a] = 1
    BY <1>1, <1>2 DEF SimInv, FinishedInv
  <2>2. ac[a] = Cardinality(EventsOf(a))
    BY <1>1 DEF SimInv, QueueCounted, EventsOf
  <2>3. IsFiniteSet(EventsOf(a))
    <3>1. IsFiniteSet(Kernel)
      BY GraphFacts DEF SimInv
    <3>2. EventsOf(a) \subseteq Kernel
      BY DEF EventsOf, Queued
    <3> QED
      BY <3>1, <3>2, FS_Subset
  <2>4. EventsOf(a) = {}
    BY <2>1, <2>2, <2>3, FS_EmptySet
  <2>5. runs[k] = Done(a) + 1
    BY <1>1, <2>4, NothingLeft DEF Ran
  <2> QED
    BY <1>1, <2>1, <2>5 DEF Done
<1> QED
  BY <1>2 DEF SimInv, PhaseInv

LEMMA SimInvGivesOrder == SimInv => ParentFirst
<1> SUFFICES ASSUME SimInv, Started, NEW k \in Kernel, kernels[k].parent # NULL,
                    status[k] # 0 \/ runs[k] > Done(kernels[k].appid)
             PROVE  /\ status[kernels[k].parent] = 0
                    /\ runs[kernels[k].parent] = Done(kernels[k].appid) + 1
  BY DEF ParentFirst
<1>1. k # First(kernels[k].appid)
  BY GraphFacts DEF SimInv
<1>2. kernels[kernels[k].parent].appid = kernels[k].appid
  BY <1>1, GraphFacts DEF SimInv
<1>3. ~Pending(k)
  <2>1. runs[k] \in Int
    BY DEF SimInv
  <2> QED
    BY <2>1 DEF Pending
<1>4. Ran(kernels[k].parent)
  BY <1>1, <1>3 DEF SimInv, PhaseInv
<1> QED
  BY <1>2, <1>4 DEF Ran

LEMMA SimInvGivesTimes == SimInv => ReportedTimesSet
<1> SUFFICES ASSUME SimInv, outcome = "true", NEW a \in App PROVE rt[a] # Unset
  BY DEF ReportedTimesSet
<1>1. EventsOf(a) = {}
  BY DEF SimInv, EventsOf
<1>2. ac[a] = Cardinality(EventsOf(a))
  BY DEF SimInv, QueueCounted, EventsOf, Started
<1>3. ac[a] = 0
  BY <1>1, <1>2, FS_EmptySet
<1> QED
  BY <1>3 DEF SimInv, FinishedInv

-----------------------------------------------------------------------------
(* The inductive invariant holds in every state of the simulation. *)
THEOREM SimulatorInvariant == HistSpec => []SimInv
<1>1. GraphOK /\ SimInit /\ HistInit => SimInv
  BY SimInvInit
<1>2. SimInv /\ [SimStep /\ Record]_allVars => SimInv'
  BY SimInvNext
<1> QED
  BY <1>1, <1>2, PTL DEF HistSpec

-----------------------------------------------------------------------------
(***************************************************************************)
(* Timing.  What a step does to the event queue, kernel by kernel: k is    *)
(* the event at the top.                                                   *)
(***************************************************************************)
Again(k) == StartsAgain(kernels[k].appid, Left(k)[kernels[k].appid])

TopStep(k) ==
    /\ k \in Queued
    /\ now' = time[k]
    /\ \A j \in Queued : time[k] <= time[j]

StartStep(k) ==
    LET t == kernels[k].type
    IN  /\ status[k] = 1
        /\ \A j \in Kernel : status'[j] = IF j = k THEN 2 ELSE status[j]
        /\ \A u \in KernelTypes : count'[u] = IF u = t THEN count[t] + 1 ELSE count[u]
        /\ t = Compute => count[t] = 0
        /\ time'[k] = now' + kernels[k].length * (count[t] + 1)
        /\ \A j \in Kernel \ {k} :
              time'[j] = IF j \in InFlight(t) THEN Rescale(time[j], count[t] + 1, count[t])
                                              ELSE time[j]
        /\ UNCHANGED <<loop, rt>>

WaitStep(k) ==
    /\ status[k] = 1
    /\ kernels[k].type = Compute
    /\ count[Compute] # 0
    /\ status' = status
    /\ count' = count
    /\ time'[k] \in Int /\ time'[k] >= now'
    /\ \A j \in Kernel \ {k} : time'[j] = time[j]
    /\ UNCHANGED <<loop, rt>>

FinishStep(k) ==
    LET t == kernels[k].type
        a == kernels[k].appid
    IN  /\ status[k] = 2
        /\ \A j \in Kernel : status'[j] = IF j \in next[k] \/ (Again(k) /\ j = First(a)) THEN 1
                                          ELSE IF j = k THEN 0
                                          ELSE status[j]
        /\ \A u \in KernelTypes : count'[u] = IF u = t THEN count[t] - 1 ELSE count[u]
        /\ Again(k) => time'[First(a)] = now' + kernels[First(a)].start
        /\ \A j \in next[k] : time'[j] = now' + Delay(k, j)
        /\ \A j \in Queued \ {k} :
              time'[j] = IF j \in InFlight(t) THEN Rescale(time[j], count[t] - 1, count[t])
                                              ELSE time[j]
        /\ \A b \in App : loop'[b] = IF b = a /\ Again(k) THEN loop[b] - 1 ELSE loop[b]
        /\ \A b \in App : rt'[b] = IF b = a /\ Left(k)[a] = 0 /\ ~Again(k) THEN now' ELSE rt[b]

(* A step that moves neither the clock nor the queue. *)
QuietStep == UNCHANGED <<status, time, count, now, loop, rt>>

(* Only an idle GPU or bus has nothing in flight. *)
LEMMA CountFacts ==
    ASSUME SimInv, outcome = "running", NEW t \in KernelTypes
    PROVE  /\ count[t] \in Nat
           /\ count[t] = 0 <=> InFlight(t) = {}
           /\ \A k \in Kernel : InFlight(t) = {k} => count[t] = 1
           /\ \A k \in Kernel : count[t] = 1 /\ k \in InFlight(t) => InFlight(t) = {k}
<1>1. count[t] \in Nat /\ count[t] = Cardinality(InFlight(t)) /\ IsFiniteSet(InFlight(t))
  BY StepFacts
<1>2. count[t] = 1 => \E x : InFlight(t) = {x}
  BY <1>1, FS_Singleton
<1> QED
  BY <1>1, <1>2, FS_EmptySet, FS_Singleton

LEMMA StartForms ==
    ASSUME SimInv, NEW k \in Kernel, StartKernel(k) \/ StartMemcpy(k)
    PROVE  outcome = "running" /\ TopStep(k) /\ StartStep(k) /\ UNCHANGED graph
<1> DEFINE t == kernels[k].type
<1>1. /\ outcome = "running" /\ status[k] = 1 /\ UNCHANGED <<graph, loop, rt>>
      /\ now' = time[k] /\ \A j \in Queued : time[k] <= time[j]
  BY DEF StartKernel, StartMemcpy, Top
<1>2. /\ status \in [Kernel -> 0..2] /\ time \in [Kernel -> Int]
      /\ count \in [KernelTypes -> Nat] /\ t \in KernelTypes
      /\ kernels[k].length \in Nat
  BY <1>1, StepFacts, GraphFacts DEF SimInv
<1>3. TopStep(k)
  BY <1>1 DEF TopStep, Queued
<1>4. CASE StartKernel(k)
  <2>1. /\ t = Compute /\ count[t] = 0
        /\ count' = [count EXCEPT ![t] = count[t] + 1]
        /\ status' = [status EXCEPT ![k] = 2]
        /\ time' = [time EXCEPT ![k] = now' + kernels[k].length]
    BY <1>4 DEF StartKernel
  <2>2. InFlight(t) = {}
    BY <1>1, <1>2, <2>1, CountFacts
  <2>3. time'[k] = now' + kernels[k].length * (count[t] + 1)
    BY <1>2, <2>1
  <2> QED
    BY <1>1, <1>2, <1>3, <2>1, <2>2, <2>3 DEF StartStep
<1>5. CASE StartMemcpy(k)
  <2> DEFINE n == count[t] + 1
  <2>1. /\ t # Compute
        /\ count' = [count EXCEPT ![t] = n]
        /\ status' = [status EXCEPT ![k] = 2]
        /\ time' = [j \in Kernel |->
                      IF j = k THEN now' + kernels[k].length * n
                      ELSE IF n # 1 /\ j \in InFlight(t)
                           THEN Rescale(time[j], n, n - 1)
                      ELSE time[j]]
    BY <1>5 DEF StartMemcpy
  <2>2. /\ n - 1 = count[t]
        /\ n = 1 => InFlight(t) = {}
    BY <1>1, <1>2, CountFacts
  <2>3. /\ \A j \in Kernel : status'[j] = IF j = k THEN 2 ELSE status[j]
        /\ \A u \in KernelTypes : count'[u] = IF u = t THEN n ELSE count[u]
    BY <1>2, <2>1
  <2>4. /\ time'[k] = now' + kernels[k].length * n
        /\ \A j \in Kernel \ {k} : time'[j] = IF j \in InFlight(t)
                                              THEN Rescale(time[j], n, count[t]) ELSE time[j]
    BY <2>1, <2>2
  <2> QED
    BY <1>1, <1>3, <2>1, <2>3, <2>4 DEF StartStep
<1> QED
  BY <1>4, <1>5

LEMMA WaitForms ==
    ASSUME SimInv, NEW k \in Kernel, WaitKernel(k)
    PROVE  outcome = "running" /\ TopStep(k) /\ WaitStep(k) /\ UNCHANGED graph
<1>1. /\ outcome = "running" /\ status[k] = 1 /\ kernels[k].type = Compute
      /\ count[Compute] # 0 /\ now' = time[k]
      /\ \A j \in Queued : time[k] <= time[j]
      /\ time' = [time EXCEPT ![k] = time[k] + (k_sch - now') + Eps]
      /\ UNCHANGED <<graph, status, count, loop, rt>>
  BY DEF WaitKernel, Top
<1>2. time \in [Kernel -> Int] /\ k_sch \in Int
  BY <1>1, StepFacts
<1>3. PICK g \in Kernel : InFlight(Compute) = {g} /\ k_sch = time[g]
  BY <1>1 DEF SimInv, GpuExclusive, Started
<1>4. g \in Queued
  BY <1>3 DEF InFlight, Queued
<1>5. time'[k] \in Int /\ time'[k] >= now' /\ \A j \in Kernel \ {k} : time'[j] = time[j]
  BY <1>1, <1>2, <1>3, <1>4, SimAssumption DEF SimAssumption
<1> QED
  BY <1>1, <1>5 DEF TopStep, WaitStep, Queued

LEMMA FinishForms ==
    ASSUME SimInv, NEW k \in Kernel, FinishKernel(k) \/ FinishMemcpy(k)
    PROVE  outcome = "running" /\ TopStep(k) /\ FinishStep(k) /\ UNCHANGED graph
<1> DEFINE t == kernels[k].type
           a == kernels[k].appid
           n == IF t = Compute THEN 0 ELSE count[t] - 1
           left == Left(k)
           head == IF Again(k) THEN {First(a)} ELSE {}
<1>1. Finish(k, n)
  BY DEF FinishKernel, FinishMemcpy
<1>2. /\ outcome = "running" /\ status[k] = 2 /\ now' = time[k]
      /\ \A j \in Queued : time[k] <= time[j]
      /\ count' = [count EXCEPT ![t] = count[t] - 1]
      /\ status' = [j \in Kernel |-> IF j \in next[k] \cup head THEN 1
                                     ELSE IF j = k THEN 0
                                     ELSE status[j]]
      /\ time' = [j \in Kernel |->
                    IF j \in head THEN NextIteration(a)
                    ELSE IF j \in next[k] THEN now' + Delay(k, j)
                    ELSE IF j = k THEN 0
                    ELSE IF n # 0 /\ j \in InFlight(t)
                         THEN Rescale(time[j], n, n + 1)
                    ELSE time[j]]
      /\ loop' = [loop EXCEPT ![a] = loop[a] - Cardinality(head)]
      /\ rt' = [rt EXCEPT ![a] = IF left[a] = 0 /\ ~Again(k) THEN now' ELSE rt[a]]
      /\ UNCHANGED graph
  BY <1>1 DEF Finish, Top, First, Again
<1>3. /\ time \in [Kernel -> Int] /\ count \in [KernelTypes -> Nat]
      /\ loop \in [App -> Nat \ {0}] /\ rt \in [App -> Int \cup {Unset}]
  BY <1>2, StepFacts
<1>4. /\ a \in App /\ t \in KernelTypes /\ k \in InFlight(t)
      /\ count[t] >= 1
      /\ \A c \in next[k] : c \in Kernel /\ c # First(a) /\ Pending(c)
      /\ Left(k)[a] = 0 => EventsOf(a) = {k}
  BY <1>2, EndingFacts
<1>5. First(a) \in Kernel /\ kernels[First(a)].start \in Int /\ kernels[First(a)].appid = a
  BY <1>4, GraphFacts DEF SimInv
<1>6. Again(k) => Left(k)[a] = 0
  BY DEF Again, StartsAgain
<1>7. /\ \A j : j \in head <=> Again(k) /\ j = First(a)
      /\ Cardinality(head) = IF Again(k) THEN 1 ELSE 0
  BY FS_EmptySet, FS_Singleton
<1> HIDE DEF head, left
<1>8. /\ n = 0 => InFlight(t) = {k}
      /\ n # 0 => n = count[t] - 1 /\ n + 1 = count[t]
      /\ count[t] \in Nat
  <2>1. t = Compute => count[t] = 1
    BY <1>2, <1>4, CountFacts DEF SimInv, GpuExclusive, Started
  <2>2. count[t] = 1 => InFlight(t) = {k}
    BY <1>2, <1>4, CountFacts
  <2> QED
    BY <1>3, <1>4, <2>1, <2>2
<1> HIDE DEF n
<1>9. ASSUME NEW j \in Queued, j # k
      PROVE  time'[j] = IF j \in InFlight(t) THEN Rescale(time[j], count[t] - 1, count[t])
                                             ELSE time[j]
  <2>1. j \notin next[k] /\ j \in Kernel
    BY <1>4 DEF Pending, Queued
  <2>2. j \notin head
    BY <1>4, <1>5, <1>6, <1>7, <1>9 DEF EventsOf
  <2>3. time'[j] = IF n # 0 /\ j \in InFlight(t) THEN Rescale(time[j], n, n + 1) ELSE time[j]
    BY <1>2, <1>9, <2>1, <2>2
  <2> QED
    BY <1>8, <1>9, <2>3
<1>10. Again(k) => time'[First(a)] = now' + kernels[First(a)].start
  BY <1>2, <1>3, <1>5, <1>7 DEF NextIteration, First
<1>11. \A j \in next[k] : time'[j] = now' + Delay(k, j)
  BY <1>2, <1>4, <1>7
<1>12. /\ \A j \in Kernel : status'[j] = IF j \in next[k] \/ (Again(k) /\ j = First(a)) THEN 1
                                        ELSE IF j = k THEN 0
                                        ELSE status[j]
       /\ \A u \in KernelTypes : count'[u] = IF u = t THEN count[t] - 1 ELSE count[u]
  BY <1>2, <1>3, <1>7
<1>13. \A b \in App : loop'[b] = IF b = a /\ Again(k) THEN loop[b] - 1 ELSE loop[b]
  <2>1. loop[a] \in Nat
    BY <1>3, <1>4
  <2>2. \A b \in App : loop'[b] = IF b = a THEN loop[a] - Cardinality(head) ELSE loop[b]
    BY <1>2, <1>3
  <2> QED
    BY <1>7, <2>1, <2>2
<1>14. \A b \in App : rt'[b] = IF b = a /\ Left(k)[a] = 0 /\ ~Again(k) THEN now' ELSE rt[b]
  BY <1>2, <1>3, <1>4 DEF left
<1>15. TopStep(k)
  BY <1>2 DEF TopStep, Queued
<1> QED
  BY <1>2, <1>9, <1>10, <1>11, <1>12, <1>13, <1>14, <1>15 DEF FinishStep

(* Every step of the simulator, by what it does to the queue. *)
LEMMA StepForms ==
    ASSUME SimInv, SimStep
    PROVE  /\ outcome = "running" /\ UNCHANGED graph
           /\ \/ \E k \in Kernel : TopStep(k) /\ (StartStep(k) \/ WaitStep(k) \/ FinishStep(k))
              \/ QuietStep /\ Queued = {}
<1>1. CASE Report
  BY <1>1 DEF Report, QuietStep, graph
<1> QED
  BY <1>1, StartForms, WaitForms, FinishForms DEF SimStep

(* The clock of a step that is not quiet, and the iterations it leaves. *)
LEMMA StepTypes ==
    ASSUME SimInv, outcome = "running", NEW k \in Kernel, TopStep(k)
    PROVE  /\ now \in Int /\ now' \in Int
           /\ \A j \in Kernel : /\ time[j] \in Int /\ status[j] \in 0..2 /\ runs[j] \in Int
                                /\ kernels[j].start \in Int /\ kernels[j].length \in Nat
                                /\ kernels[j].type \in KernelTypes /\ kernels[j].appid \in App
                                /\ count[kernels[j].type] \in Nat
                                /\ End(kernels[j]) \in Int
           /\ \A b \in App : /\ Apps[b].length \in Nat \ {0} /\ Apps[b].slow \in Nat
                             /\ loop[b] \in Nat \ {0} /\ LoopCount(b) \in Nat \ {0}
                             /\ Done(b) \in Int
<1>1. /\ status \in [Kernel -> 0..2] /\ time \in [Kernel -> Int]
      /\ count \in [KernelTypes -> Nat] /\ now \in Int
      /\ loop \in [App -> Nat \ {0}] /\ runs \in [Kernel -> Int]
  BY StepFacts
<1>2. /\ \A j \in Kernel : /\ kernels[j].start \in Int /\ kernels[j].length \in Nat
                           /\ kernels[j].type \in KernelTypes /\ kernels[j].appid \in App
      /\ \A b \in App : Apps[b].length \in Nat \ {0} /\ Apps[b].slow \in Nat
  BY GraphFacts DEF SimInv
<1>3. \A b \in App : LoopCount(b) \in Nat \ {0}
  BY LoopCountType DEF SimInv
<1>4. \A b \in App : Done(b) \in Int
  BY <1>1, <1>3 DEF Done
<1> QED
  BY <1>1, <1>2, <1>3, <1>4 DEF TopStep, End

(***************************************************************************)
(* Who has run when: a start or a wait leaves it alone; the end of k adds  *)
(* k, and clears the application if its next iteration starts.             *)
(***************************************************************************)
LEMMA RanForms ==
    ASSUME SimInv, outcome = "running", Record, UNCHANGED graph, NEW k \in Kernel, TopStep(k),
           StartStep(k) \/ WaitStep(k) \/ FinishStep(k)
    PROVE  LET restarts(b) == FinishStep(k) /\ Again(k) /\ b = kernels[k].appid
           IN  /\ \A b \in App : Done(b)' = IF restarts(b) THEN Done(b) + 1 ELSE Done(b)
               /\ \A j \in Kernel : Ran(j)' =>
                     /\ ~restarts(kernels[j].appid)
                     /\ Ran(j) \/ (FinishStep(k) /\ j = k)
<1> DEFINE restarts(b) == FinishStep(k) /\ Again(k) /\ b = kernels[k].appid
<1>1. /\ kernels' = kernels /\ Apps' = Apps /\ Kernel' = Kernel /\ App' = App
  BY GraphUnchanged
<1>2. /\ \A j \in Kernel : /\ status[j] \in 0..2 /\ runs[j] \in Int /\ kernels[j].appid \in App
      /\ \A b \in App : loop[b] \in Nat /\ LoopCount(b) \in Nat /\ Done(b) \in Int
  BY StepTypes
<1>3. ~(StartStep(k) /\ FinishStep(k)) /\ ~(WaitStep(k) /\ FinishStep(k))
  BY DEF StartStep, WaitStep, FinishStep
<1>4. \A b \in App : loop'[b] = IF restarts(b) THEN loop[b] - 1 ELSE loop[b]
  BY <1>3 DEF StartStep, WaitStep, FinishStep
<1>5. \A b \in App : Done(b)' = IF restarts(b) THEN Done(b) + 1 ELSE Done(b)
  <2>1. \A b \in App : LoopCount(b)' = LoopCount(b)
    BY <1>1 DEF LoopCount
  <2> QED
    BY <1>1, <1>2, <1>4, <2>1 DEF Done
<1>6. ASSUME NEW j \in Kernel, Ran(j)'
      PROVE  ~restarts(kernels[j].appid) /\ (Ran(j) \/ (FinishStep(k) /\ j = k))
  <2>1. status'[j] = 0 /\ runs'[j] = Done(kernels[j].appid)' + 1
    BY <1>1, <1>6 DEF Ran
  <2>2. runs'[j] = runs[j]
    BY <2>1 DEF Record, Scheduled
  <2>3. runs[j] \in {Done(kernels[j].appid), Done(kernels[j].appid) + 1}
    BY DEF SimInv, PhaseInv
  <2>4. ~restarts(kernels[j].appid)
    BY <1>1, <1>2, <1>5, <2>1, <2>2, <2>3
  <2>5. runs[j] = Done(kernels[j].appid) + 1
    BY <1>1, <1>2, <1>5, <2>1, <2>2, <2>4
  <2>6. status[j] = 0 \/ (FinishStep(k) /\ j = k)
    BY <2>1 DEF StartStep, WaitStep, FinishStep
  <2> QED
    BY <2>4, <2>5, <2>6 DEF Ran
<1> QED
  BY <1>5, <1>6

-----------------------------------------------------------------------------
(***************************************************************************)
(* The times of the traces getInput keeps: an application starts at 0 and  *)
(* its tail when the iteration is over; in between no kernel starts before *)
(* its parent has ended.                                                   *)
(***************************************************************************)
TraceOK ==
    /\ \A a \in App : /\ kernels[First(a)].start = 0
                      /\ kernels[First(a)].length = 0
                      /\ Apps[a].last \in Kernel
                      /\ kernels[Apps[a].last].appid = a
                      /\ kernels[Apps[a].last].start = Apps[a].length
                      /\ kernels[Apps[a].last].length = 0
    /\ \A k \in Kernel :
          k # First(kernels[k].appid) /\ k # Apps[kernels[k].appid].last =>
              End(kernels[kernels[k].parent]) <= kernels[k].start

AllWellFormed == \A a \in App : WellFormed(a)

(* No event of well formed traces is in the past. *)
ClockInv == AllWellFormed => \A k \in Queued : now <= time[k]

LEMMA TraceUnchanged ==
    ASSUME UNCHANGED graph
    PROVE  (TraceOK => TraceOK') /\ AllWellFormed' = AllWellFormed
           /\ \A a \in App : WellFormed(a)' = WellFormed(a)
<1>1. kernels' = kernels /\ Apps' = Apps /\ Kernel' = Kernel /\ App' = App
  BY GraphUnchanged
<1> QED
  BY <1>1 DEF TraceOK, AllWellFormed, WellFormed, First

(* In a well formed trace the successors of k start after it, the tail too. *)
LEMMA DelayFacts ==
    ASSUME GraphOK, TraceOK, NEW k \in Kernel, NEW c \in next[k],
           WellFormed(kernels[c].appid)
    PROVE  /\ c \in Kernel /\ Delay(k, c) \in Int
           /\ Delay(k, c) >= 0
           /\ Delay(k, c) >= kernels[c].start - End(kernels[k])
           /\ Apps[kernels[c].appid].slow = 0 =>
                 Delay(k, c) = kernels[c].start - End(kernels[k])
<1> DEFINE a == kernels[c].appid
           x == kernels[c].start - End(kernels[k])
           s == Apps[a].slow
<1>1. /\ c \in Kernel /\ kernels[c].parent = k /\ a \in App /\ NULL \notin Kernel
      /\ kernels[c].start \in Int /\ kernels[k].start \in Int /\ kernels[k].length \in Nat
      /\ s \in Nat /\ First(a) \in Kernel /\ kernels[First(a)].parent = NULL
      /\ kernels[k].appid = a
  <2>1. c \in Kernel /\ kernels[c].parent = k /\ a \in App /\ NULL \notin Kernel
        /\ kernels[c].start \in Int /\ kernels[k].start \in Int /\ kernels[k].length \in Nat
    BY GraphFacts
  <2>2. s \in Nat /\ First(a) \in Kernel /\ kernels[First(a)].parent = NULL
    BY <2>1, GraphFacts
  <2>3. c # First(a)
    BY <2>1, <2>2
  <2> QED
    BY <2>1, <2>2, <2>3, GraphFacts
<1>2. c # First(a)
  BY <1>1
<1>3. End(kernels[k]) <= kernels[c].start
  <2>1. CASE c = Apps[a].last
    BY <1>1, <2>1 DEF TraceOK, WellFormed
  <2>2. CASE c # Apps[a].last
    BY <1>1, <1>2, <2>2 DEF TraceOK
  <2> QED
    BY <2>1, <2>2
<1>4. x \in Nat
  BY <1>1, <1>3 DEF End
<1>5. Delay(k, c) = x * (1 + s)
  BY DEF Delay
<1> HIDE DEF x, s
<1>6. x * (1 + s) \in Int /\ x * (1 + s) >= x /\ (s = 0 => x * (1 + s) = x)
  BY <1>1, <1>4
<1>7. Delay(k, c) >= x /\ x >= 0
  BY <1>4, <1>5, <1>6
<1> QED
  BY <1>1, <1>4, <1>5, <1>6, <1>7 DEF x, s

(* Rescaling never moves an event into the past. *)
LEMMA RescaleLow ==
    ASSUME NEW t \in Int, now' \in Int, now' <= t, NEW n \in Nat, NEW m \in Nat \ {0}
    PROVE  now' <= Rescale(t, n, m)
<1> DEFINE left == t - now'
<1>0. \A x, y \in Int : y <= x => x - y \in Nat
  OBVIOUS
<1>1. left \in Nat
  BY <1>0
<1> HIDE DEF left
<1>2. left * n \in Nat
  BY <1>1
<1>3. (left * n) \div m \in Nat
  BY <1>2
<1>4. Rescale(t, n, m) = (left * n) \div m + now'
  BY DEF Rescale, left
<1> QED
  BY <1>3, <1>4

(* Events stay in the future, so the clock does not go back. *)
LEMMA ClockKeeps ==
    ASSUME SimInv, TraceOK, ClockInv, SimStep
    PROVE  ClockInv' /\ (AllWellFormed => now <= now')
<1>1. outcome = "running" /\ UNCHANGED graph /\ GraphOK
  BY StepForms DEF SimInv
<1>2. /\ kernels' = kernels /\ next' = next /\ Apps' = Apps /\ Kernel' = Kernel /\ App' = App
      /\ AllWellFormed' = AllWellFormed
  BY <1>1, GraphUnchanged, TraceUnchanged
<1>3. CASE QuietStep /\ Queued = {}
  <2>1. now \in Int /\ now' = now /\ time' = time /\ Queued' = {}
    BY <1>1, <1>2, <1>3, StepFacts DEF QuietStep, Queued
  <2> QED
    BY <2>1 DEF ClockInv
<1>4. ASSUME NEW k \in Kernel, TopStep(k), StartStep(k) \/ WaitStep(k) \/ FinishStep(k)
      PROVE  ClockInv' /\ (AllWellFormed => now <= now')
  <2>0. SUFFICES ASSUME AllWellFormed
                 PROVE  now <= now' /\ \A j \in Queued' : now' <= time'[j]
    BY <1>2 DEF ClockInv
  <2>1. /\ now \in Int /\ now' \in Int
        /\ \A j \in Kernel : /\ time[j] \in Int /\ kernels[j].length \in Nat
                             /\ kernels[j].type \in KernelTypes /\ kernels[j].appid \in App
                             /\ count[kernels[j].type] \in Nat
    BY <1>1, <1>4, StepTypes
  <2>2. now <= now' /\ \A j \in Queued : now' <= time[j]
    BY <1>4, <2>0 DEF TopStep, ClockInv
  <2>3. \A j \in Queued' : j \in Kernel /\ status'[j] # 0
    BY <1>2 DEF Queued
  <2>4. ASSUME NEW t \in KernelTypes, NEW j \in InFlight(t)
        PROVE  /\ count[t] \in Nat \ {0} /\ count[t] - 1 \in Nat /\ count[t] + 1 \in Nat
               /\ \A n \in Nat : now' <= Rescale(time[j], n, count[t])
    <3>1. j \in Kernel /\ kernels[j].type = t /\ j \in Queued
      BY DEF InFlight, Queued
    <3>2. count[t] \in Nat \ {0} /\ count[t] - 1 \in Nat /\ count[t] + 1 \in Nat
      BY <1>1, CountFacts
    <3>3. time[j] \in Int /\ now' <= time[j]
      BY <2>1, <2>2, <3>1
    <3> QED
      BY <2>1, <3>2, <3>3, RescaleLow
  <2>5. CASE StartStep(k)
    <3>1. now' <= now' + kernels[k].length * (count[kernels[k].type] + 1)
      <4>1. kernels[k].length * (count[kernels[k].type] + 1) \in Nat
        BY <2>1
      <4> QED
        BY <2>1, <4>1
    <3>2. ASSUME NEW j \in Queued', j # k PROVE now' <= time'[j]
      <4>1. j \in Queued /\ j \in Kernel
        BY <2>3, <2>5, <3>2 DEF StartStep, Queued
      <4>2. CASE j \in InFlight(kernels[k].type)
        <5>1. time'[j] = Rescale(time[j], count[kernels[k].type] + 1, count[kernels[k].type])
          BY <2>5, <3>2, <4>1, <4>2 DEF StartStep
        <5> QED
          BY <2>1, <2>4, <4>2, <5>1
      <4>3. CASE j \notin InFlight(kernels[k].type)
        <5>1. time'[j] = time[j]
          BY <2>5, <3>2, <4>1, <4>3 DEF StartStep
        <5> QED
          BY <2>2, <4>1, <5>1
      <4> QED
        BY <4>2, <4>3
    <3>3. now' <= time'[k]
      BY <2>5, <3>1 DEF StartStep
    <3> QED
      BY <2>2, <3>2, <3>3
  <2>6. CASE WaitStep(k)
    <3>1. \A j \in Queued' : j \in Queued
      BY <2>3, <2>6 DEF WaitStep, Queued
    <3>2. \A j \in Queued' : j # k => time'[j] = time[j]
      BY <2>3, <2>6 DEF WaitStep
    <3>3. time'[k] >= now'
      BY <2>6 DEF WaitStep
    <3>4. now' <= time'[k]
      BY <3>3
    <3> QED
      BY <2>2, <3>1, <3>2, <3>4
  <2>7. CASE FinishStep(k)
    <3> DEFINE a == kernels[k].appid
               t == kernels[k].type
    <3>1. ASSUME NEW j \in Queued' PROVE now' <= time'[j]
      <4>1. CASE Again(k) /\ j = First(a)
        <5>1. kernels[First(a)].start = 0
          BY <2>1 DEF TraceOK
        <5>2. time'[j] = now' + kernels[First(a)].start
          BY <2>7, <4>1 DEF FinishStep
        <5>3. now' \in Int /\ \A x \in Int : x + 0 = x
          BY <2>1
        <5>4. time'[j] = now'
          BY <5>1, <5>2, <5>3
        <5> QED
          BY <5>3, <5>4
      <4>2. CASE j \in next[k]
        <5>1. j \in Kernel
          BY <2>3
        <5>2. WellFormed(kernels[j].appid)
          BY <2>0, <2>1, <5>1 DEF AllWellFormed
        <5>3. Delay(k, j) \in Int /\ Delay(k, j) >= 0
          BY <1>1, <4>2, <5>2, DelayFacts
        <5>4. time'[j] = now' + Delay(k, j)
          BY <2>7, <4>2 DEF FinishStep
        <5> QED
          BY <2>1, <5>3, <5>4
      <4>3. CASE ~(Again(k) /\ j = First(a)) /\ j \notin next[k]
        <5>1. j # k /\ j \in Queued
          BY <2>3, <2>7, <4>3 DEF FinishStep, Queued
        <5>2. time'[j] = IF j \in InFlight(t) THEN Rescale(time[j], count[t] - 1, count[t])
                                              ELSE time[j]
          BY <2>7, <5>1 DEF FinishStep
        <5>3. t \in KernelTypes
          BY <2>1
        <5> QED
          BY <2>2, <2>4, <5>1, <5>2, <5>3
      <4> QED
        BY <4>1, <4>2, <4>3
    <3> QED
      BY <2>2, <3>1
  <2> QED
    BY <1>4, <2>5, <2>6, <2>7
<1> QED
  BY <1>3, <1>4, StepForms

-----------------------------------------------------------------------------
(***************************************************************************)
(* The code divides doubles, the model integers.  A step is exact if the   *)
(* time it advances divides equally between the operations in flight: the  *)
(* tick is fine enough.  The rescaling is then exact too.                  *)
(***************************************************************************)
ExactShares ==
    Started => \A t \in KernelTypes : count[t] # 0 => (now' - now) % count[t] = 0

(* What has been served, and with it what is left. *)
WorkInv == served \in [Kernel -> Int] /\ RemainingWork

LEMMA ExactDivision ==
    ASSUME NEW c \in Nat \ {0}, NEW x \in Int, x % c = 0
    PROVE  x \div c \in Int /\ x = c * (x \div c)
  OBVIOUS

LEMMA RescaleExact ==
    ASSUME NEW t \in Int, now' \in Int, NEW r \in Int, NEW n \in Nat, NEW m \in Nat \ {0},
           t - now' = m * r
    PROVE  Rescale(t, n, m) \in Int /\ Rescale(t, n, m) - now' = n * r
<1>1. (m * r) * n = m * (r * n) /\ r * n \in Int
  OBVIOUS
<1>2. \A y \in Int : (m * y) \div m = y
  OBVIOUS
<1>3. ((t - now') * n) \div m = r * n
  BY <1>1, <1>2
<1>4. Rescale(t, n, m) = r * n + now'
  BY <1>3 DEF Rescale
<1>5. \A x, y \in Int : x + y \in Int /\ (x + y) - y = x
  OBVIOUS
<1>6. r * n = n * r
  OBVIOUS
<1> QED
  BY <1>1, <1>4, <1>5, <1>6

(* What an operation in flight is served until the clock stands at now'. *)
LEMMA ServedUntilNow ==
    ASSUME SimInv, outcome = "running", served \in [Kernel -> Int], Record, UNCHANGED graph,
           NEW k \in Kernel, TopStep(k), NEW j \in Kernel, status[j] = 2
    PROVE  LET c == count[kernels[j].type]
           IN  /\ c \in Nat \ {0}
               /\ served'[j] = served[j] + ((now' - now) \div c)
               /\ served'[j] \in Int
               /\ now <= now' => now - served[j] <= now' - served'[j]
               /\ RemainingWork /\ ExactShares =>
                     time[j] - now' = c * (kernels[j].length - served'[j])
<1> DEFINE c == count[kernels[j].type]
           d == now' - now
           q == d \div c
<1>1. /\ c \in Nat \ {0} /\ kernels[j].type \in KernelTypes
  <2>1. kernels[j].type \in KernelTypes /\ j \in InFlight(kernels[j].type)
    BY EndingFacts
  <2> QED
    BY <2>1, CountFacts
<1>2. now \in Int /\ now' \in Int /\ time[j] \in Int /\ kernels[j].length \in Nat /\ served[j] \in Int
  BY StepTypes
<1>3. served'[j] = served[j] + q
  BY DEF Record, Share
<1>a. \A x, y \in Int : y - x \in Int /\ y = x + (y - x)
  OBVIOUS
<1>4. d \in Int /\ now' = now + d
  BY <1>2, <1>a
<1> HIDE DEF d
<1>5. q \in Int /\ (d >= 0 => q <= d)
  BY <1>1, <1>4
<1>6. served'[j] \in Int
  BY <1>2, <1>3, <1>5
<1>7. ASSUME now <= now' PROVE now - served[j] <= now' - served'[j]
  <2>1. d >= 0
    BY <1>2, <1>7 DEF d
  <2> HIDE DEF q, c
  <2>2. now' - served'[j] = now - served[j] + (d - q)
    BY <1>2, <1>3, <1>4, <1>5
  <2> QED
    BY <1>2, <1>4, <1>5, <2>1, <2>2
<1>8. ASSUME RemainingWork, ExactShares
      PROVE  time[j] - now' = c * (kernels[j].length - served'[j])
  <2>1. time[j] - now = c * (kernels[j].length - served[j])
    BY <1>8 DEF RemainingWork, Started
  <2>2. d % c = 0
    BY <1>1, <1>8 DEF ExactShares, Started, d
  <2>3. d = c * q
    BY <1>1, <1>4, <2>2, ExactDivision
  <2> HIDE DEF q, c
  <2>4. time[j] - now' = c * (kernels[j].length - served[j]) - c * q
    BY <1>2, <1>4, <2>1, <2>3
  <2> DEFINE r == kernels[j].length - served[j]
  <2>5. r \in Int /\ kernels[j].length - served'[j] = r - q
    BY <1>2, <1>3, <1>5
  <2>6. time[j] - now' = c * r - c * q
    BY <2>4
  <2> HIDE DEF r
  <2>7. c * r - c * q = c * (r - q)
    BY <1>1, <1>5, <2>5
  <2> QED
    BY <2>5, <2>6, <2>7
<1> QED
  BY <1>1, <1>3, <1>6, <1>7, <1>8 DEF d

(* Exact steps keep what is left of every operation equal to its work. *)
LEMMA WorkKeeps ==
    ASSUME SimInv, WorkInv, SimStep, Record, ExactShares
    PROVE  WorkInv'
<1>1. outcome = "running" /\ UNCHANGED graph /\ served \in [Kernel -> Int] /\ RemainingWork
  BY StepForms DEF WorkInv
<1>2. kernels' = kernels /\ Kernel' = Kernel
  BY <1>1, GraphUnchanged
<1>3. \A j \in Kernel : /\ served'[j] = IF status[j] = 2 THEN served[j] + Share(j)
                                       ELSE IF Scheduled(j) THEN 0
                                       ELSE served[j]
  BY DEF Record
<1>4. served' = [j \in Kernel |-> served'[j]]
  BY DEF Record
<1>5. CASE QuietStep /\ Queued = {}
  <2>1. \A j \in Kernel : status[j] = 0 /\ status'[j] = 0
    BY <1>5 DEF QuietStep, Queued
  <2>2. \A j \in Kernel : served'[j] \in Int
    BY <1>1, <1>3, <2>1 DEF Scheduled
  <2> QED
    BY <1>2, <1>4, <2>1, <2>2 DEF WorkInv, RemainingWork
<1>6. ASSUME NEW k \in Kernel, TopStep(k), StartStep(k) \/ WaitStep(k) \/ FinishStep(k)
      PROVE  WorkInv'
  <2>1. /\ now' \in Int
        /\ \A j \in Kernel : /\ time[j] \in Int /\ kernels[j].length \in Nat
                             /\ kernels[j].type \in KernelTypes
                             /\ count[kernels[j].type] \in Nat
    BY <1>1, <1>6, StepTypes
  <2>2. ASSUME NEW j \in Kernel, status[j] = 2
        PROVE  LET c == count[kernels[j].type]
               IN  /\ c \in Nat \ {0} /\ served'[j] \in Int
                   /\ time[j] - now' = c * (kernels[j].length - served'[j])
    BY <1>1, <1>6, <2>2, ServedUntilNow
  <2>3. \A j \in Kernel : served'[j] \in Int
    BY <1>1, <1>3, <2>2
  <2>4. SUFFICES ASSUME NEW j \in Kernel, status'[j] = 2
                 PROVE  time'[j] - now' = count'[kernels[j].type] *
                                             (kernels[j].length - served'[j])
    BY <1>2, <1>4, <2>3 DEF WorkInv, RemainingWork
  <2> DEFINE r == kernels[j].length - served'[j]
             t == kernels[j].type
             c == count[t]
  <2>5. r \in Int /\ t \in KernelTypes /\ c \in Nat
    BY <2>1, <2>3
  <2>6. CASE StartStep(k) /\ j = k
    <3>1. status[k] = 1 /\ time'[j] = now' + kernels[j].length * (c + 1) /\ count'[t] = c + 1
      BY <2>5, <2>6 DEF StartStep
    <3>2. served'[j] = 0
      BY <1>3, <2>4, <2>6, <3>1 DEF Scheduled
    <3>3. r = kernels[j].length
      BY <2>1, <3>2
    <3> HIDE DEF c
    <3>4. kernels[j].length * (c + 1) = (c + 1) * kernels[j].length
          /\ kernels[j].length * (c + 1) \in Int
      BY <2>1, <2>5
    <3>5. \A x, y \in Int : (y + x) - y = x
      OBVIOUS
    <3>6. time'[j] - now' = kernels[j].length * (c + 1)
      BY <2>1, <3>1, <3>4, <3>5
    <3> QED
      BY <3>1, <3>3, <3>4, <3>6
  <2>7. CASE StartStep(k) /\ j # k
    <3>1. status[j] = 2
      BY <2>4, <2>7 DEF StartStep
    <3>2. c \in Nat \ {0} /\ time[j] - now' = c * r
      BY <2>2, <3>1
    <3>3. CASE t = kernels[k].type
      <4>1. j \in InFlight(t)
        BY <3>1 DEF InFlight
      <4>2. time'[j] = Rescale(time[j], c + 1, c) /\ count'[t] = c + 1
        BY <2>5, <2>7, <3>3, <4>1 DEF StartStep
      <4>3. c + 1 \in Nat /\ time[j] \in Int
        BY <2>1, <2>5
      <4>4. now' \in Int /\ r \in Int
        BY <2>1, <2>5
      <4> HIDE DEF r, c
      <4>5. Rescale(time[j], c + 1, c) - now' = (c + 1) * r
        BY <3>2, <4>3, <4>4, RescaleExact, Zenon
      <4> QED
        BY <4>2, <4>5 DEF r
    <3>4. CASE t # kernels[k].type
      <4>1. j \notin InFlight(kernels[k].type)
        BY <3>4 DEF InFlight
      <4>2. time'[j] = time[j] /\ count'[t] = c
        BY <2>5, <2>7, <3>4, <4>1 DEF StartStep
      <4> QED
        BY <3>2, <4>2
    <3> QED
      BY <3>3, <3>4
  <2>8. CASE WaitStep(k)
    <3>1. status[j] = 2 /\ j # k /\ time'[j] = time[j] /\ count' = count
      BY <2>4, <2>8 DEF WaitStep
    <3> QED
      BY <2>2, <3>1
  <2>9. CASE FinishStep(k)
    <3>1. status[j] = 2 /\ j # k /\ j \in Queued
      BY <2>4, <2>9 DEF FinishStep, Queued
    <3>2. c \in Nat \ {0} /\ time[j] - now' = c * r
      BY <2>2, <3>1
    <3>3. CASE t = kernels[k].type
      <4>1. j \in InFlight(t)
        BY <3>1 DEF InFlight
      <4>2. time'[j] = Rescale(time[j], c - 1, c) /\ count'[t] = c - 1
        BY <2>5, <2>9, <3>1, <3>3, <4>1 DEF FinishStep
      <4>3. c - 1 \in Nat /\ time[j] \in Int
        BY <2>1, <3>2
      <4>4. now' \in Int /\ r \in Int
        BY <2>1, <2>5
      <4> HIDE DEF r, c
      <4>5. Rescale(time[j], c - 1, c) - now' = (c - 1) * r
        BY <3>2, <4>3, <4>4, RescaleExact, Zenon
      <4> QED
        BY <4>2, <4>5 DEF r
    <3>4. CASE t # kernels[k].type
      <4>1. j \notin InFlight(kernels[k].type)
        BY <3>4 DEF InFlight
      <4>2. time'[j] = time[j] /\ count'[t] = c
        BY <2>5, <2>9, <3>1, <3>4, <4>1 DEF FinishStep
      <4> QED
        BY <3>2, <4>2
    <3> QED
      BY <3>3, <3>4
  <2> QED
    BY <1>6, <2>6, <2>7, <2>8, <2>9
<1> QED
  BY <1>5, <1>6, StepForms

-----------------------------------------------------------------------------
(* Start of the current iteration in an undisturbed run of k's application. *)
Base(k) == Done(kernels[k].appid) * Apps[kernels[k].appid].length

(***************************************************************************)
(* No event of well formed traces is earlier than in an undisturbed run.   *)
(***************************************************************************)
NotEarly(k) ==
    /\ status[k] = 1 => Base(k) + kernels[k].start <= time[k]
    /\ status[k] = 2 => Base(k) + kernels[k].start <= now - served[k]
    /\ Ran(k) => Base(k) + End(kernels[k]) <= now

LowerInv == AllWellFormed =>
    /\ \A k \in Kernel : NotEarly(k)
    /\ \A a \in App : rt[a] # Unset => LoopCount(a) * Apps[a].length <= rt[a]

(* The next iteration is one iteration length later, the last one too. *)
LEMMA BaseFacts ==
    ASSUME SimInv, outcome = "running", Record, UNCHANGED graph, NEW k \in Kernel, TopStep(k),
           StartStep(k) \/ WaitStep(k) \/ FinishStep(k)
    PROVE  LET len(j) == Apps[kernels[j].appid].length
               restarts(j) == FinishStep(k) /\ Again(k) /\ kernels[j].appid = kernels[k].appid
           IN  /\ \A j \in Kernel : Base(j) \in Int /\ len(j) \in Nat
               /\ \A j \in Kernel : Base(j)' = IF restarts(j) THEN Base(j) + len(j) ELSE Base(j)
               /\ FinishStep(k) /\ Left(k)[kernels[k].appid] = 0 /\ ~Again(k) =>
                     LoopCount(kernels[k].appid) * len(k) = Base(k) + len(k)
<1> DEFINE len(j) == Apps[kernels[j].appid].length
           restarts(j) == FinishStep(k) /\ Again(k) /\ kernels[j].appid = kernels[k].appid
<1>1. /\ kernels' = kernels /\ Apps' = Apps
  BY GraphUnchanged
<1>2. /\ \A j \in Kernel : kernels[j].appid \in App
      /\ \A b \in App : /\ Apps[b].length \in Nat /\ loop[b] \in Nat \ {0}
                        /\ LoopCount(b) \in Nat /\ Done(b) \in Int
  BY StepTypes
<1>3. \A b \in App : Done(b)' = IF FinishStep(k) /\ Again(k) /\ b = kernels[k].appid
                                THEN Done(b) + 1 ELSE Done(b)
  BY RanForms
<1>4. \A d, l \in Int : d * l \in Int /\ (d + 1) * l = d * l + l
  OBVIOUS
<1>5. ASSUME NEW j \in Kernel
      PROVE  /\ Base(j) \in Int /\ len(j) \in Nat
             /\ Base(j)' = IF restarts(j) THEN Base(j) + len(j) ELSE Base(j)
  <2>1. /\ Done(kernels[j].appid) \in Int /\ len(j) \in Nat
        /\ Done(kernels[j].appid)' = IF restarts(j) THEN Done(kernels[j].appid) + 1
                                                   ELSE Done(kernels[j].appid)
    BY <1>1, <1>2, <1>3
  <2>2. /\ Base(j) = Done(kernels[j].appid) * len(j)
        /\ Base(j)' = Done(kernels[j].appid)' * len(j)
    BY <1>1 DEF Base
  <2>3. len(j) \in Int
    BY <2>1
  <2> HIDE DEF len, restarts
  <2> QED
    BY <1>4, <2>1, <2>2, <2>3
<1>6. ASSUME FinishStep(k), Left(k)[kernels[k].appid] = 0, ~Again(k)
      PROVE  LoopCount(kernels[k].appid) * len(k) = Base(k) + len(k)
  <2> DEFINE a == kernels[k].appid
  <2>1. a \in App /\ loop[a] \in Nat \ {0} /\ ~(loop[a] > 1)
    BY <1>2, <1>6 DEF Again, StartsAgain
  <2>2. loop[a] = 1
    BY <2>1
  <2>3. LoopCount(a) = Done(a) + 1
    BY <1>2, <2>1, <2>2 DEF Done
  <2>4. Done(a) \in Int /\ len(k) \in Int
    BY <1>2, <2>1
  <2> QED
    BY <1>4, <2>3, <2>4 DEF Base
<1> QED
  BY <1>5, <1>6

(* When nothing of the application is left, its tail has run. *)
LEMMA IterationOver ==
    ASSUME SimInv, outcome = "running", TraceOK, NEW k \in Kernel, status[k] = 2,
           Left(k)[kernels[k].appid] = 0
    PROVE  LET a == kernels[k].appid
               z == Apps[a].last
           IN  /\ z \in Kernel /\ kernels[z].appid = a /\ End(kernels[z]) = Apps[a].length
               /\ z = k \/ Ran(z)
               /\ next[k] = {}
               /\ \A x \in Kernel : kernels[x].appid = a /\ x # k => status[x] = 0
<1> DEFINE a == kernels[k].appid
           z == Apps[a].last
<1>1. a \in App
  BY EndingFacts
<1>2. z \in Kernel /\ kernels[z].appid = a /\ kernels[z].start = Apps[a].length /\ kernels[z].length = 0
  BY <1>1 DEF TraceOK
<1>3. next[k] = {} /\ \A x \in Kernel : kernels[x].appid = a /\ x # k => Ran(x)
  BY EndingFacts
<1>4. Apps[a].length \in Nat
  BY <1>1, GraphFacts DEF SimInv
<1>5. End(kernels[z]) = Apps[a].length
  BY <1>2, <1>4 DEF End
<1> QED
  BY <1>2, <1>3, <1>5 DEF Ran

LEMMA LowerKeeps ==
    ASSUME SimInv, TraceOK, ClockInv, WorkInv, LowerInv, SimStep, Record, ExactShares
    PROVE  LowerInv'
<1>1. outcome = "running" /\ UNCHANGED graph /\ GraphOK
  BY StepForms DEF SimInv
<1>2. /\ kernels' = kernels /\ next' = next /\ Apps' = Apps /\ Kernel' = Kernel /\ App' = App
      /\ AllWellFormed' = AllWellFormed
      /\ \A b \in App : LoopCount(b)' = LoopCount(b)
  BY <1>1, GraphUnchanged, TraceUnchanged DEF LoopCount
<1>3. SUFFICES ASSUME AllWellFormed
               PROVE  /\ \A j \in Kernel : NotEarly(j)'
                      /\ \A b \in App : rt'[b] # Unset => LoopCount(b) * Apps[b].length <= rt'[b]
  BY <1>2 DEF LowerInv
<1>4. /\ \A j \in Kernel : NotEarly(j)
      /\ \A b \in App : rt[b] # Unset => LoopCount(b) * Apps[b].length <= rt[b]
  BY <1>3 DEF LowerInv
<1>5. now <= now'
  BY <1>3, ClockKeeps
<1>6. CASE QuietStep /\ Queued = {}
  <2>1. \A b \in App : Done(b)' = Done(b)
    BY <1>2, <1>6 DEF QuietStep, Done
  <2>2. \A j \in Kernel : status[j] = 0 /\ status'[j] = 0 /\ runs'[j] = runs[j]
    BY <1>6 DEF QuietStep, Queued, Record, Scheduled
  <2>3. \A j \in Kernel : kernels[j].appid \in App
    BY <1>1, GraphFacts
  <2>4. \A j \in Kernel : (Ran(j)' <=> Ran(j)) /\ Base(j)' = Base(j)
    BY <1>2, <2>1, <2>2, <2>3 DEF Ran, Base
  <2>5. now' = now /\ rt' = rt
    BY <1>6 DEF QuietStep
  <2> QED
    BY <1>2, <1>4, <2>2, <2>4, <2>5 DEF NotEarly
<1>7. ASSUME NEW k \in Kernel, TopStep(k), StartStep(k) \/ WaitStep(k) \/ FinishStep(k)
      PROVE  /\ \A j \in Kernel : NotEarly(j)'
             /\ \A b \in App : rt'[b] # Unset => LoopCount(b) * Apps[b].length <= rt'[b]
  <2> DEFINE a == kernels[k].appid
             len(j) == Apps[kernels[j].appid].length
             restarts(j) == FinishStep(k) /\ Again(k) /\ kernels[j].appid = a
  <2>1. /\ now \in Int /\ now' \in Int
        /\ \A j \in Kernel : /\ time[j] \in Int /\ kernels[j].start \in Int
                             /\ kernels[j].length \in Nat /\ kernels[j].appid \in App
                             /\ End(kernels[j]) \in Int
    BY <1>1, <1>7, StepTypes
  <2>2. /\ \A j \in Kernel : Base(j) \in Int /\ len(j) \in Nat
        /\ \A j \in Kernel : Base(j)' = IF restarts(j) THEN Base(j) + len(j) ELSE Base(j)
        /\ FinishStep(k) /\ Left(k)[a] = 0 /\ ~Again(k) => LoopCount(a) * len(k) = Base(k) + len(k)
    BY <1>1, <1>7, BaseFacts
  <2>3. \A j \in Kernel : Ran(j)' => ~restarts(j) /\ (Ran(j) \/ (FinishStep(k) /\ j = k))
    BY <1>1, <1>7, RanForms
  <2>4. \A j \in Kernel : status[j] = 2 =>
           /\ served[j] \in Int /\ served'[j] \in Int
           /\ now - served[j] <= now' - served'[j]
           /\ time[j] - now' = count[kernels[j].type] * (kernels[j].length - served'[j])
           /\ count[kernels[j].type] \in Nat \ {0}
    BY <1>1, <1>5, <1>7, ServedUntilNow DEF WorkInv
  <2>5. ASSUME FinishStep(k) PROVE Base(k) + End(kernels[k]) <= now'
    <3>1. status[k] = 2 /\ time[k] = now'
      BY <1>7, <2>5 DEF FinishStep, TopStep
    <3> DEFINE c == count[kernels[k].type]
               r == kernels[k].length - served'[k]
    <3>2. c \in Nat \ {0} /\ r \in Int /\ time[k] - now' = c * r
      BY <2>1, <2>4, <3>1
    <3>3. c * r = 0
      BY <2>1, <3>1, <3>2
    <3> HIDE DEF c, r
    <3>4. r = 0
      BY <3>2, <3>3
    <3>5. served'[k] = kernels[k].length
      BY <2>1, <2>4, <3>1, <3>4 DEF r
    <3>6. Base(k) + kernels[k].start <= now - served[k]
      BY <1>4, <3>1 DEF NotEarly
    <3>7. now - served[k] <= now' - kernels[k].length
      BY <2>4, <3>1, <3>5
    <3>8. served[k] \in Int
      BY <2>4, <3>1
    <3>9. \A b, st, l, x, n \in Int : b + st <= x /\ x <= n - l => b + (st + l) <= n
      OBVIOUS
    <3>10. now - served[k] \in Int
      BY <2>1, <3>8
    <3> QED
      BY <2>1, <2>2, <3>6, <3>7, <3>9, <3>10 DEF End
  <2>6. ASSUME FinishStep(k), Left(k)[a] = 0
        PROVE  /\ Base(k) + len(k) <= now'
               /\ next[k] = {}
               /\ \A x \in Kernel : kernels[x].appid = a /\ x # k => status[x] = 0
    <3> DEFINE z == Apps[a].last
    <3>1. /\ z \in Kernel /\ kernels[z].appid = a /\ End(kernels[z]) = len(k)
          /\ z = k \/ Ran(z)
          /\ \A x \in Kernel : kernels[x].appid = a /\ x # k => status[x] = 0
      BY <1>1, <2>6, IterationOver DEF FinishStep
    <3>2. next[k] = {}
      BY <1>1, <2>6, IterationOver DEF FinishStep
    <3>3. Base(z) = Base(k)
      BY <3>1 DEF Base
    <3>4. CASE z = k
      BY <2>5, <2>6, <3>1, <3>2, <3>4
    <3>5. CASE Ran(z)
      <4>1. Base(k) + len(k) <= now
        BY <1>4, <3>1, <3>3, <3>5 DEF NotEarly
      <4>2. Base(k) + len(k) \in Int
        BY <2>2
      <4>3. Base(k) + len(k) <= now'
        BY <1>5, <2>1, <4>1, <4>2
      <4> QED
        BY <3>1, <3>2, <4>3
    <3> QED
      BY <3>1, <3>4, <3>5
  <2>7. Again(k) => Left(k)[a] = 0
    BY DEF Again, StartsAgain
  <2>8. ASSUME NEW j \in Kernel PROVE NotEarly(j)'
    <3>1. CASE restarts(j)
      <4>1. /\ Base(k) + len(k) <= now' /\ next[k] = {}
            /\ \A x \in Kernel : kernels[x].appid = a /\ x # k => status[x] = 0
        BY <2>6, <2>7, <3>1
      <4>2. status'[j] = IF j = First(a) THEN 1 ELSE 0
        BY <3>1, <4>1 DEF FinishStep
      <4>3. ~Ran(j)'
        BY <2>3, <3>1
      <4>4. j = First(a) => Base(j)' + kernels[j].start <= time'[j]
        <5>1. j = First(a) => time'[j] = now' + kernels[First(a)].start /\ kernels[First(a)].start = 0
          BY <2>1, <3>1 DEF FinishStep, TraceOK
        <5>2. Base(j)' = Base(k) + len(k)
          BY <2>2, <3>1 DEF Base
        <5>3. \A x \in Int : x + 0 = x
          OBVIOUS
        <5>4. Base(k) + len(k) \in Int
          BY <2>2
        <5> QED
          BY <2>1, <4>1, <5>1, <5>2, <5>3, <5>4
      <4> QED
        BY <1>2, <4>2, <4>3, <4>4 DEF NotEarly
    <3>2. CASE ~restarts(j)
      <4>1. Base(j)' = Base(j)
        BY <2>2, <3>2
      <4>2. Ran(j)' => Base(j) + End(kernels[j]) <= now'
        <5>1. Ran(j) => Base(j) + End(kernels[j]) <= now
          BY <1>4 DEF NotEarly
        <5>2. Base(j) + End(kernels[j]) \in Int
          BY <2>1, <2>2
        <5> QED
          BY <1>5, <2>1, <2>3, <2>5, <5>1, <5>2
      <4>3. ASSUME status'[j] = 2 PROVE Base(j) + kernels[j].start <= now' - served'[j]
        <5>1. CASE status[j] = 2
          <6>1. Base(j) + kernels[j].start <= now - served[j]
            BY <1>4, <5>1 DEF NotEarly
          <6>2. \A x, y, z \in Int : x <= y /\ y <= z => x <= z
            OBVIOUS
          <6>3. /\ Base(j) + kernels[j].start \in Int
                /\ now - served[j] \in Int /\ now' - served'[j] \in Int
            BY <2>1, <2>2, <2>4, <5>1
          <6> QED
            BY <2>4, <5>1, <6>1, <6>2, <6>3
        <5>2. CASE status[j] # 2
          <6>1. StartStep(k) /\ j = k
            BY <1>7, <4>3, <5>2 DEF StartStep, WaitStep, FinishStep
          <6>2. status[j] = 1 /\ now' = time[j]
            BY <1>7, <6>1 DEF StartStep, TopStep
          <6>3. served'[j] = 0
            BY <4>3, <5>2 DEF Record, Scheduled
          <6>4. Base(j) + kernels[j].start <= now'
            BY <1>4, <6>2 DEF NotEarly
          <6>5. now' - served'[j] = now'
            BY <2>1, <6>3
          <6> QED
            BY <6>4, <6>5
        <5> QED
          BY <5>1, <5>2
      <4>4. ASSUME status'[j] = 1 PROVE Base(j) + kernels[j].start <= time'[j]
        <5>1. CASE FinishStep(k) /\ j \in next[k]
          <6>1. kernels[j].appid = a
            BY <1>1, <5>1, EndingFacts DEF FinishStep
          <6>2. Base(j) = Base(k)
            BY <6>1 DEF Base
          <6>3. WellFormed(kernels[j].appid)
            BY <1>3, <2>1 DEF AllWellFormed
          <6>4. Delay(k, j) \in Int /\ Delay(k, j) >= kernels[j].start - End(kernels[k])
            BY <1>1, <5>1, <6>3, DelayFacts
          <6>5. time'[j] = now' + Delay(k, j)
            BY <5>1 DEF FinishStep
          <6>6. Base(k) + End(kernels[k]) <= now'
            BY <2>5, <5>1
          <6>7. \A b, e, n, d, st \in Int : b + e <= n /\ d >= st - e => b + st <= n + d
            OBVIOUS
          <6> QED
            BY <2>1, <2>2, <6>2, <6>4, <6>5, <6>6, <6>7
        <5>2. CASE ~(FinishStep(k) /\ j \in next[k])
          <6>0. kernels[First(a)].appid = a
            BY <1>1, <2>1, GraphFacts
          <6>1. status[j] = 1
            BY <1>7, <3>2, <4>4, <5>2, <6>0 DEF StartStep, WaitStep, FinishStep
          <6>2. Base(j) + kernels[j].start <= time[j]
            BY <1>4, <6>1 DEF NotEarly
          <6>3. j \in Queued /\ \A t : j \notin InFlight(t)
            BY <6>1 DEF Queued, InFlight
          <6>4. CASE WaitStep(k) /\ j = k
            <7>1. time'[j] \in Int /\ time'[j] >= now' /\ now' = time[j]
              BY <1>7, <6>4 DEF WaitStep, TopStep
            <7>2. Base(j) + kernels[j].start \in Int
              BY <2>1, <2>2
            <7> QED
              BY <2>1, <6>2, <7>1, <7>2
          <6>5. CASE ~(WaitStep(k) /\ j = k)
            <7>1. time'[j] = time[j]
              BY <1>7, <4>4, <5>2, <6>1, <6>3, <6>5 DEF StartStep, WaitStep, FinishStep
            <7> QED
              BY <6>2, <7>1
          <6> QED
            BY <6>4, <6>5
        <5> QED
          BY <5>1, <5>2
      <4> QED
        BY <1>2, <4>1, <4>2, <4>3, <4>4 DEF NotEarly
    <3> QED
      BY <3>1, <3>2
  <2>9. ASSUME NEW b \in App, rt'[b] # Unset PROVE LoopCount(b) * Apps[b].length <= rt'[b]
    <3>1. CASE FinishStep(k) /\ b = a /\ Left(k)[a] = 0 /\ ~Again(k)
      <4>1. rt'[b] = now'
        BY <3>1 DEF FinishStep
      <4> QED
        BY <2>2, <2>6, <3>1, <4>1
    <3>2. CASE ~(FinishStep(k) /\ b = a /\ Left(k)[a] = 0 /\ ~Again(k))
      <4>1. rt'[b] = rt[b]
        BY <1>7, <3>2 DEF StartStep, WaitStep, FinishStep
      <4> QED
        BY <1>4, <2>9, <4>1
    <3> QED
      BY <3>1, <3>2
  <2> QED
    BY <2>8, <2>9
<1> QED
  BY <1>6, <1>7, StepForms

-----------------------------------------------------------------------------
(* What SoloReplay assumes of the only application. *)
Solo(a) ==
    /\ App = {a}
    /\ Apps[a].slow = 0
    /\ WellFormed(a)
    /\ \A j, k \in Kernel : Contend(j, k) => Ancestor(j, k) \/ Ancestor(k, j)

(* Every event is exactly where the trace has it. *)
OnTime(k) ==
    /\ status[k] = 1 => time[k] = Base(k) + kernels[k].start
    /\ status[k] = 2 => /\ time[k] = Base(k) + End(kernels[k])
                        /\ Base(k) + kernels[k].start <= now
    /\ Ran(k) => Base(k) + End(kernels[k]) <= now

SoloInv == \A a \in App : Solo(a) =>
    /\ \A k \in Kernel : OnTime(k)
    /\ rt[a] # Unset => rt[a] = LoopCount(a) * Apps[a].length

(***************************************************************************)
(* Two operations of one type that overlap are parent and child, and those *)
(* are never in flight together: nothing ever waits or shares a bus.       *)
(***************************************************************************)
LEMMA NeverTogether ==
    ASSUME SimInv, outcome = "running", ClockInv, NEW a \in App, Solo(a),
           \A x \in Kernel : OnTime(x),
           NEW i \in Kernel, TopStep(i),
           NEW j \in Kernel, NEW k \in Kernel, j # k, kernels[j].type = kernels[k].type,
           status[j] = 2, status[k] = 2 \/ (status[k] = 1 /\ k = i)
    PROVE  FALSE
<1>1. /\ now \in Int
      /\ \A x \in Kernel : /\ time[x] \in Int /\ kernels[x].start \in Int
                           /\ kernels[x].length \in Nat /\ kernels[x].appid \in App
                           /\ End(kernels[x]) \in Int
      /\ \A b \in App : Done(b) \in Int /\ Apps[b].length \in Nat
  BY StepTypes
<1>2. AllWellFormed
  BY DEF AllWellFormed, Solo
<1>3. j \in Queued /\ k \in Queued /\ now <= time[j] /\ now <= time[k]
  BY <1>2 DEF Queued, ClockInv
<1>4. Base(j) = Base(k) /\ Base(k) \in Int
  <2>1. kernels[j].appid = a /\ kernels[k].appid = a
    BY <1>1 DEF Solo
  <2>2. Done(a) * Apps[a].length \in Int
    BY <1>1
  <2> QED
    BY <2>1, <2>2 DEF Base
<1>5. /\ time[j] = Base(k) + End(kernels[j])
      /\ Base(k) + kernels[j].start <= now
  BY <1>4 DEF OnTime
<1>6. kernels[j].start <= End(kernels[k]) /\ kernels[k].start <= End(kernels[j])
  <2>1. CASE status[k] = 2
    <3>1. time[k] = Base(k) + End(kernels[k]) /\ Base(k) + kernels[k].start <= now
      BY <2>1 DEF OnTime
    <3> QED
      BY <1>1, <1>3, <1>4, <1>5, <3>1
  <2>2. CASE status[k] = 1 /\ k = i
    <3>1. time[k] = Base(k) + kernels[k].start /\ time[k] <= time[j]
      BY <1>3, <2>2 DEF OnTime, TopStep
    <3>2. kernels[k].start <= End(kernels[k])
      BY <1>1 DEF End
    <3> QED
      BY <1>1, <1>3, <1>4, <1>5, <3>1, <3>2
  <2> QED
    BY <2>1, <2>2
<1>7. Ancestor(j, k) \/ Ancestor(k, j)
  BY <1>6 DEF Solo, Contend
<1>8. ASSUME NEW p \in Kernel, NEW c \in Kernel, p = kernels[c].parent,
             status[p] # 0, status[c] # 0
      PROVE  FALSE
  <2>1. c # First(kernels[c].appid)
    BY <1>8, GraphFacts DEF SimInv
  <2>2. Pending(c) <=> ~Ran(p)
    BY <1>8, <2>1 DEF SimInv, PhaseInv
  <2> QED
    BY <1>8, <2>2 DEF Pending, Ran
<1> QED
  BY <1>7, <1>8 DEF Ancestor

LEMMA SoloKeeps ==
    ASSUME SimInv, TraceOK, ClockInv, SoloInv, SimStep, Record
    PROVE  SoloInv'
<1>1. outcome = "running" /\ UNCHANGED graph /\ GraphOK
  BY StepForms DEF SimInv
<1>2. /\ kernels' = kernels /\ next' = next /\ Apps' = Apps /\ Kernel' = Kernel /\ App' = App
      /\ \A b \in App : LoopCount(b)' = LoopCount(b)
      /\ \A b \in App : WellFormed(b)' = WellFormed(b)
  BY <1>1, GraphUnchanged, TraceUnchanged DEF LoopCount
<1>3. \A b \in App : Solo(b)' => Solo(b)
  BY <1>2 DEF Solo, Contend, Ancestor
<1>4. SUFFICES ASSUME NEW a \in App, Solo(a)
               PROVE  /\ \A j \in Kernel : OnTime(j)'
                      /\ rt'[a] # Unset => rt'[a] = LoopCount(a) * Apps[a].length
  BY <1>2, <1>3 DEF SoloInv
<1>5. /\ \A j \in Kernel : OnTime(j)
      /\ rt[a] # Unset => rt[a] = LoopCount(a) * Apps[a].length
  BY <1>4 DEF SoloInv
<1>6. AllWellFormed /\ now <= now'
  BY <1>4, ClockKeeps DEF AllWellFormed, Solo
<1>7. CASE QuietStep /\ Queued = {}
  <2>1. \A b \in App : Done(b)' = Done(b)
    BY <1>2, <1>7 DEF QuietStep, Done
  <2>2. \A j \in Kernel : status[j] = 0 /\ status'[j] = 0 /\ runs'[j] = runs[j]
    BY <1>7 DEF QuietStep, Queued, Record, Scheduled
  <2>3. \A j \in Kernel : kernels[j].appid \in App
    BY <1>1, GraphFacts
  <2>4. \A j \in Kernel : (Ran(j)' <=> Ran(j)) /\ Base(j)' = Base(j)
    BY <1>2, <2>1, <2>2, <2>3 DEF Ran, Base
  <2>5. now' = now /\ rt' = rt
    BY <1>7 DEF QuietStep
  <2> QED
    BY <1>2, <1>5, <2>2, <2>4, <2>5 DEF OnTime
<1>8. ASSUME NEW k \in Kernel, TopStep(k), StartStep(k) \/ WaitStep(k) \/ FinishStep(k)
      PROVE  /\ \A j \in Kernel : OnTime(j)'
             /\ rt'[a] # Unset => rt'[a] = LoopCount(a) * Apps[a].length
  <2> DEFINE len == Apps[a].length
             restarts == FinishStep(k) /\ Again(k)
             t == kernels[k].type
  <2>1. /\ now \in Int /\ now' \in Int /\ t \in KernelTypes
        /\ \A j \in Kernel : /\ time[j] \in Int /\ kernels[j].start \in Int
                             /\ kernels[j].length \in Nat
                             /\ End(kernels[j]) \in Int /\ kernels[j].appid \in App
    BY <1>1, <1>8, StepTypes
  <2>2. \A j \in Kernel : kernels[j].appid = a
    BY <1>4, <2>1 DEF Solo
  <2>3. /\ \A j \in Kernel : Base(j) = Base(k) /\ Base(j)' = Base(k)'
        /\ Base(k) \in Int /\ len \in Nat
        /\ Base(k)' = IF restarts THEN Base(k) + len ELSE Base(k)
        /\ FinishStep(k) /\ Left(k)[a] = 0 /\ ~Again(k) => LoopCount(a) * len = Base(k) + len
    <3>1. /\ \A j \in Kernel : Base(j) \in Int /\ Apps[kernels[j].appid].length \in Nat
          /\ \A j \in Kernel : Base(j)' =
                IF FinishStep(k) /\ Again(k) /\ kernels[j].appid = kernels[k].appid
                THEN Base(j) + Apps[kernels[j].appid].length ELSE Base(j)
          /\ FinishStep(k) /\ Left(k)[kernels[k].appid] = 0 /\ ~Again(k) =>
                LoopCount(kernels[k].appid) * Apps[kernels[k].appid].length
                   = Base(k) + Apps[kernels[k].appid].length
      BY <1>1, <1>8, BaseFacts
    <3>2. \A j \in Kernel : Base(j) = Base(k)
      BY <2>2 DEF Base
    <3> QED
      BY <2>2, <3>1, <3>2
  <2>4. \A j \in Kernel : Ran(j)' => ~restarts /\ (Ran(j) \/ (FinishStep(k) /\ j = k))
    <3>1. \A j \in Kernel : Ran(j)' =>
             /\ ~(FinishStep(k) /\ Again(k) /\ kernels[j].appid = kernels[k].appid)
             /\ Ran(j) \/ (FinishStep(k) /\ j = k)
      BY <1>1, <1>8, RanForms
    <3> QED
      BY <2>2, <3>1
  <2>5. InFlight(t) \subseteq {k}
    <3> SUFFICES ASSUME NEW j \in InFlight(t), j # k PROVE FALSE
      OBVIOUS
    <3>1. j \in Kernel /\ status[j] = 2 /\ kernels[j].type = t
      BY DEF InFlight
    <3>2. status[k] = 2 \/ status[k] = 1
      BY <1>8 DEF StartStep, WaitStep, FinishStep
    <3> QED
      BY <1>1, <1>4, <1>5, <1>8, <3>1, <3>2, NeverTogether
  <2>6. ~WaitStep(k)
    <3> SUFFICES ASSUME WaitStep(k) PROVE FALSE
      OBVIOUS
    <3>1. status[k] = 1 /\ t = Compute /\ count[t] # 0
      BY DEF WaitStep
    <3>2. InFlight(t) = {}
      BY <2>5, <3>1 DEF InFlight
    <3> QED
      BY <1>1, <2>1, <3>1, <3>2, CountFacts
  <2>7. \A j \in Queued \ {k} : time'[j] = time[j]
    <3>1. \A j \in Queued \ {k} : j \in Kernel /\ j \notin InFlight(t)
      BY <2>5 DEF Queued
    <3> QED
      BY <1>8, <2>6, <3>1 DEF StartStep, FinishStep
  <2>8. ASSUME FinishStep(k) PROVE now' = Base(k) + End(kernels[k])
    BY <1>5, <1>8, <2>8 DEF OnTime, FinishStep, TopStep
  <2>9. ASSUME FinishStep(k), Left(k)[a] = 0
        PROVE  /\ now' = Base(k) + len /\ next[k] = {}
               /\ \A x \in Kernel : x # k => status[x] = 0
    <3> DEFINE z == Apps[a].last
    <3>1. /\ z \in Kernel /\ End(kernels[z]) = len
          /\ z = k \/ Ran(z)
          /\ next[k] = {}
          /\ \A x \in Kernel : kernels[x].appid = a /\ x # k => status[x] = 0
      <4>1. status[k] = 2 /\ kernels[k].appid = a
        BY <2>2, <2>9 DEF FinishStep
      <4> QED
        BY <1>1, <2>9, <4>1, IterationOver
    <3>2. End(kernels[k]) <= len
      BY <1>4, <2>2 DEF Solo, WellFormed
    <3>3. now' = Base(k) + len
      <4>1. CASE z = k
        BY <2>8, <2>9, <3>1, <4>1
      <4>2. CASE Ran(z)
        <5>1. Base(k) + len <= now
          BY <1>5, <2>3, <3>1, <4>2 DEF OnTime
        <5>2. \A b, l, e, n, m \in Int : b + l <= n /\ n <= m /\ m = b + e /\ e <= l => m = b + l
          OBVIOUS
        <5>3. len \in Int
          BY <2>3
        <5> QED
          BY <1>6, <2>1, <2>3, <2>8, <2>9, <3>2, <5>1, <5>2, <5>3
      <4> QED
        BY <3>1, <4>1, <4>2
    <3> QED
      BY <2>2, <3>1, <3>3
  <2>10. Again(k) => Left(k)[a] = 0
    BY <2>2 DEF Again, StartsAgain
  <2>11. ASSUME NEW j \in Kernel PROVE OnTime(j)'
    <3>1. CASE restarts
      <4>1. /\ now' = Base(k) + len /\ next[k] = {}
            /\ \A x \in Kernel : x # k => status[x] = 0
        BY <2>9, <2>10, <3>1
      <4>2. status'[j] = IF j = First(a) THEN 1 ELSE 0
        BY <2>2, <3>1, <4>1 DEF FinishStep
      <4>3. ~Ran(j)'
        BY <2>4, <3>1
      <4>4. j = First(a) => time'[j] = Base(j)' + kernels[j].start
        <5>1. j = First(a) => time'[j] = now' + kernels[j].start
          BY <2>2, <3>1 DEF FinishStep
        <5>2. Base(j)' = Base(k) + len
          BY <2>3, <3>1
        <5> QED
          BY <4>1, <5>1, <5>2
      <4> QED
        BY <1>2, <4>2, <4>3, <4>4 DEF OnTime
    <3>2. CASE ~restarts
      <4>1. Base(j)' = Base(j) /\ Base(j) = Base(k) /\ Base(j) \in Int
        BY <2>3, <3>2
      <4>2. Ran(j)' => Base(j) + End(kernels[j]) <= now'
        <5>1. Ran(j) => Base(j) + End(kernels[j]) <= now
          BY <1>5 DEF OnTime
        <5>2. Base(j) + End(kernels[j]) \in Int
          BY <2>1, <4>1
        <5>3. FinishStep(k) /\ j = k => Base(j) + End(kernels[j]) <= now'
          BY <2>1, <2>8, <5>2
        <5> QED
          BY <1>6, <2>1, <2>4, <5>1, <5>2, <5>3
      <4>3. ASSUME status'[j] = 2
            PROVE  time'[j] = Base(j) + End(kernels[j]) /\ Base(j) + kernels[j].start <= now'
        <5>1. CASE status[j] = 2
          <6>1. j \in Queued /\ j # k
            BY <1>8, <2>6, <4>3, <5>1 DEF StartStep, FinishStep, Queued
          <6>2. time'[j] = time[j]
            BY <2>7, <6>1
          <6>3. time[j] = Base(j) + End(kernels[j]) /\ Base(j) + kernels[j].start <= now
            BY <1>5, <5>1 DEF OnTime
          <6>4. Base(j) + kernels[j].start \in Int
            BY <2>1, <4>1
          <6> QED
            BY <1>6, <2>1, <6>2, <6>3, <6>4
        <5>2. CASE status[j] # 2
          <6>1. StartStep(k) /\ j = k
            BY <1>8, <2>6, <4>3, <5>2 DEF StartStep, FinishStep
          <6>2. status[j] = 1 /\ now' = time[j]
            BY <1>8, <6>1 DEF StartStep, TopStep
          <6>3. now' = Base(j) + kernels[j].start
            BY <1>5, <6>2 DEF OnTime
          <6>4. count[t] = 0
            <7>1. InFlight(t) = {}
              BY <2>5, <6>1, <6>2 DEF InFlight
            <7> QED
              BY <1>1, <2>1, <7>1, CountFacts
          <6>5. time'[j] = now' + kernels[j].length * (count[t] + 1)
            BY <6>1 DEF StartStep
          <6>6. time'[j] = now' + kernels[j].length
            BY <2>1, <6>4, <6>5
          <6>7. \A b, st, l \in Int : (b + st) + l = b + (st + l)
            OBVIOUS
          <6>8. time'[j] = Base(j) + End(kernels[j])
            BY <2>1, <4>1, <6>3, <6>6, <6>7 DEF End
          <6> QED
            BY <2>1, <6>3, <6>8
        <5> QED
          BY <5>1, <5>2
      <4>4. ASSUME status'[j] = 1 PROVE time'[j] = Base(j) + kernels[j].start
        <5>1. CASE FinishStep(k) /\ j \in next[k]
          <6>1. WellFormed(kernels[j].appid) /\ Apps[kernels[j].appid].slow = 0
            BY <1>4, <2>2 DEF Solo
          <6>2. Delay(k, j) = kernels[j].start - End(kernels[k])
            BY <1>1, <5>1, <6>1, DelayFacts
          <6>3. time'[j] = now' + Delay(k, j)
            BY <5>1 DEF FinishStep
          <6>4. now' = Base(j) + End(kernels[k])
            BY <2>8, <4>1, <5>1
          <6>5. \A b, e, st \in Int : (b + e) + (st - e) = b + st
            OBVIOUS
          <6> QED
            BY <2>1, <4>1, <6>2, <6>3, <6>4, <6>5
        <5>2. CASE ~(FinishStep(k) /\ j \in next[k])
          <6>1. status[j] = 1 /\ j # k
            BY <1>8, <2>6, <3>2, <4>4, <5>2 DEF StartStep, FinishStep
          <6>2. time'[j] = time[j]
            BY <2>7, <6>1 DEF Queued
          <6> QED
            BY <1>5, <6>1, <6>2 DEF OnTime
        <5> QED
          BY <5>1, <5>2
      <4> QED
        BY <1>2, <4>1, <4>2, <4>3, <4>4 DEF OnTime
    <3> QED
      BY <3>1, <3>2
  <2>12. ASSUME rt'[a] # Unset PROVE rt'[a] = LoopCount(a) * len
    <3>1. CASE FinishStep(k) /\ Left(k)[a] = 0 /\ ~Again(k)
      <4>1. rt'[a] = now'
        BY <2>2, <3>1 DEF FinishStep
      <4> QED
        BY <2>3, <2>9, <3>1, <4>1
    <3>2. CASE ~(FinishStep(k) /\ Left(k)[a] = 0 /\ ~Again(k))
      <4>1. rt'[a] = rt[a]
        BY <1>8, <2>2, <2>6, <3>2 DEF StartStep, FinishStep
      <4> QED
        BY <1>5, <2>12, <4>1
    <3> QED
      BY <3>1, <3>2
  <2> QED
    BY <2>11, <2>12
<1> QED
  BY <1>7, <1>8, StepForms

-----------------------------------------------------------------------------
(* Where the timing invariants start: the heads, at time 0. *)
LEMMA TimingInit ==
    ASSUME GraphOK, TraceOK, SimInit, HistInit
    PROVE  ClockInv /\ WorkInv /\ LowerInv /\ SoloInv
<1>1. /\ \A k \in Kernel : kernels[k].appid \in App /\ kernels[k].start \in Int
      /\ \A a \in App : Apps[a].length \in Nat
  BY GraphFacts
<1>2. \A k \in Kernel : IsHead(k) => kernels[k].start = 0
  BY DEF TraceOK, IsHead, First
<1>3. \A k \in Kernel : /\ status[k] = IF IsHead(k) THEN 1 ELSE 0
                        /\ IsHead(k) => time[k] = 0
  BY <1>2 DEF SimInit, InitialStatus, InitialTime
<1>4. \A a \in App : Done(a) = 0
  BY LoopCountType DEF SimInit, InitialLoop, Done
<1>5. \A k \in Kernel : Base(k) = 0
  <2>1. \A l \in Int : 0 * l = 0
    OBVIOUS
  <2> QED
    BY <1>1, <1>4, <2>1 DEF Base
<1>6. now = 0 /\ \A k \in Kernel : status[k] # 2 /\ ~Ran(k)
  <2>1. \A k \in Kernel : runs[k] = 0
    BY DEF HistInit
  <2>2. \A k \in Kernel : ~Ran(k)
    BY <1>1, <1>4, <2>1 DEF Ran
  <2>3. \A k \in Kernel : status[k] # 2
    BY <1>3
  <2> QED
    BY <2>2, <2>3 DEF SimInit
<1>7. ClockInv
  BY <1>3, <1>6 DEF ClockInv, Queued
<1>8. WorkInv
  BY <1>6 DEF WorkInv, RemainingWork, HistInit
<1>9. \A a \in App : rt[a] = Unset
  BY DEF SimInit
<1>10. LowerInv
  BY <1>2, <1>3, <1>5, <1>6, <1>9 DEF LowerInv, NotEarly
<1>11. SoloInv
  BY <1>2, <1>3, <1>5, <1>6, <1>9 DEF SoloInv, OnTime
<1> QED
  BY <1>7, <1>8, <1>10, <1>11

LEMMA TimingStutter ==
    ASSUME UNCHANGED allVars
    PROVE  /\ TraceOK => TraceOK'
           /\ ClockInv => ClockInv'
           /\ WorkInv => WorkInv'
           /\ LowerInv => LowerInv'
           /\ SoloInv => SoloInv'
<1>1. /\ kernels' = kernels /\ next' = next /\ Apps' = Apps /\ status' = status
      /\ time' = time /\ count' = count /\ now' = now /\ loop' = loop /\ rt' = rt
      /\ outcome' = outcome /\ runs' = runs /\ served' = served /\ UNCHANGED graph
  BY DEF allVars, vars, graph, simVars, histVars
<1>2. /\ Kernel' = Kernel /\ App' = App /\ (TraceOK => TraceOK')
      /\ AllWellFormed' = AllWellFormed /\ \A a \in App : WellFormed(a)' = WellFormed(a)
  BY <1>1, GraphUnchanged, TraceUnchanged
<1>3. Queued' = Queued
  BY <1>1, <1>2 DEF Queued
<1>4. /\ \A a : LoopCount(a)' = LoopCount(a) /\ Done(a)' = Done(a)
  BY <1>1 DEF LoopCount, Done
<1>5. \A k : Base(k)' = Base(k) /\ Ran(k)' = Ran(k)
  BY <1>1, <1>4 DEF Base, Ran
<1>6. ClockInv => ClockInv'
  BY <1>1, <1>2, <1>3 DEF ClockInv
<1>7. WorkInv => WorkInv'
  BY <1>1, <1>2 DEF WorkInv, RemainingWork, Started
<1>8. LowerInv => LowerInv'
  BY <1>1, <1>2, <1>4, <1>5 DEF LowerInv, NotEarly
<1>9. SoloInv => SoloInv'
  <2>1. \A a \in App : Solo(a)' => Solo(a)
    BY <1>1, <1>2 DEF Solo, Contend, Ancestor
  <2> QED
    BY <1>1, <1>2, <1>4, <1>5, <2>1 DEF SoloInv, OnTime
<1> QED
  BY <1>2, <1>6, <1>7, <1>8, <1>9

(* What the timing invariants say in the terms of the properties. *)
LEMMA SoloInvGives == SimInv /\ SoloInv => SoloReplay
<1> SUFFICES ASSUME SimInv, SoloInv, NEW a \in App, Solo(a)
             PROVE  /\ \A k \in Kernel : status[k] # 0 =>
                         time[k] = Done(a) * Apps[a].length +
                                   IF status[k] = 1 THEN kernels[k].start ELSE End(kernels[k])
                    /\ rt[a] # Unset => rt[a] = LoopCount(a) * Apps[a].length
  BY DEF SoloReplay, Solo
<1>1. \A k \in Kernel : OnTime(k)
  BY DEF SoloInv
<1>2. \A k \in Kernel : kernels[k].appid = a
  BY GraphFacts DEF SimInv, Solo
<1>3. outcome # "idle" /\ status \in [Kernel -> 0..2]
  BY DEF SimInv, SimTypeOK, Started
<1>4. ASSUME NEW k \in Kernel, status[k] # 0
      PROVE  time[k] = Done(a) * Apps[a].length +
                       IF status[k] = 1 THEN kernels[k].start ELSE End(kernels[k])
  <2>1. status[k] = 1 \/ status[k] = 2
    BY <1>3, <1>4
  <2>2. Base(k) = Done(a) * Apps[a].length
    BY <1>2 DEF Base
  <2> QED
    BY <1>1, <2>1, <2>2 DEF OnTime
<1>5. rt[a] # Unset => rt[a] = LoopCount(a) * Apps[a].length
  BY DEF SoloInv
<1> QED
  BY <1>4, <1>5

LEMMA LowerInvGives == SimInv /\ LowerInv => (AllWellFormed => NonNegativeSlowdown)
<1> SUFFICES ASSUME SimInv, LowerInv, AllWellFormed, NEW a \in App, rt[a] # Unset
             PROVE  rt[a] >= LoopCount(a) * Apps[a].length
  BY DEF NonNegativeSlowdown
<1>1. LoopCount(a) * Apps[a].length <= rt[a]
  BY DEF LowerInv
<1>2. rt[a] \in Int
  BY DEF SimInv, SimTypeOK, Started
<1>3. LoopCount(a) \in Int /\ Apps[a].length \in Int
  BY LoopCountType, GraphFacts DEF SimInv
<1>4. LoopCount(a) * Apps[a].length \in Int
  BY <1>3
<1> QED
  BY <1>1, <1>2, <1>4
=============================================================================
