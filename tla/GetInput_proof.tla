--------------------------- MODULE GetInput_proof ---------------------------
(***************************************************************************)
(* Proofs about the loader, for every number of applications and every     *)
(* trace.                                                                  *)
(***************************************************************************)
EXTENDS GetInput, SequenceTheorems, TLAPS

N == Len(kernels)

(* What the heap and the App objects look like between two rows. *)
HeapInv ==
    /\ Len(next) = N
    /\ \A k \in 1..N : /\ next[k] \subseteq 1..N
                       /\ kernels[k].parent \in 0..N
                       /\ kernels[k].appid \in 1..(IF Open THEN AppId ELSE Len(Apps))
    /\ \A i \in 1..Len(Apps) : /\ Apps[i].first \in 1..N
                               /\ Apps[i].last \in 1..N
                               /\ kernels[Apps[i].first].appid = i

(* The App being read: its head starts and ends at 0. *)
OpenInv ==
    Open => /\ newApp.first \in 1..N
            /\ newApp.length # 0
            /\ kernels[newApp.first].appid = AppId
            /\ End(kernels[newApp.first]) = 0
            /\ k_last \in 1..N
            /\ Last.appid = AppId

(* In a sorted trace no later row starts before the last kernel did. *)
SortedInv == Sorted /\ loading = "rows" => Last.start <= row.start

(* The tail of a finished App belongs to it. *)
TailsInv == \A i \in 1..Len(Apps) : kernels[Apps[i].last].appid = i

LoaderInv ==
    /\ InputTypeOK
    /\ TailsInv
    /\ HeapInv
    /\ OpenInv
    /\ Forest
    /\ LastGenerationIsLeaves
    /\ Precedence
    /\ SortedInv
    /\ SortedTraceLoads

(* The heap after allocating k below p: only p's successors have changed. *)
Grown(k, p) ==
    /\ N' = N + 1
    /\ kernels' \in Seq(Kernels)
    /\ next' \in Seq(SUBSET Nat)
    /\ Len(next') = N + 1
    /\ kernels'[N + 1] = k
    /\ next'[N + 1] = {}
    /\ \A x \in 1..N : kernels'[x] = kernels[x]
    /\ \A x \in 1..N : next'[x] = IF x = p THEN next[p] \cup {N + 1} ELSE next[x]

LEMMA GrowKernels ==
    ASSUME kernels \in Seq(Kernels), NEW k \in Kernels, kernels' = Append(kernels, k)
    PROVE  /\ kernels' \in Seq(Kernels)
           /\ N \in Nat
           /\ N' = N + 1
           /\ kernels'[N + 1] = k
           /\ \A x \in 1..N : kernels'[x] = kernels[x]
  BY AppendProperties, LenProperties DEF N

LEMMA GrowLinked ==
    ASSUME kernels \in Seq(Kernels), next \in Seq(SUBSET Nat), Len(next) = N,
           NEW k \in Kernels, kernels' = Append(kernels, k),
           NEW p \in 1..N, next' = AddNextKernel(p)
    PROVE  Grown(k, p)
<1> DEFINE q == [next EXCEPT ![p] = next[p] \cup {N + 1}]
<1>1. N \in Nat /\ N + 1 \in Nat
  BY GrowKernels
<1>2. next[p] \in SUBSET Nat
  BY ElementOfSeq
<1>3. next[p] \cup {N + 1} \in SUBSET Nat
  BY <1>1, <1>2
<1>4. q \in Seq(SUBSET Nat) /\ Len(q) = N
  BY <1>3, ExceptSeq
<1>5. \A x \in 1..N : q[x] = IF x = p THEN next[p] \cup {N + 1} ELSE next[x]
  BY LenProperties
<1>6. next' = Append(q, {})
  BY DEF AddNextKernel, NewId, N
<1> HIDE DEF q
<1>7. /\ next' \in Seq(SUBSET Nat)
      /\ Len(next') = N + 1
      /\ next'[N + 1] = {}
      /\ \A x \in 1..N : next'[x] = q[x]
  BY <1>4, <1>6, AppendProperties
<1> QED
  BY <1>5, <1>7, GrowKernels DEF Grown

LEMMA GrowUnlinked ==
    ASSUME kernels \in Seq(Kernels), next \in Seq(SUBSET Nat), Len(next) = N,
           NEW k \in Kernels, kernels' = Append(kernels, k),
           next' = Append(next, {})
    PROVE  Grown(k, NULL)
<1>1. /\ next' \in Seq(SUBSET Nat)
      /\ Len(next') = N + 1
      /\ next'[N + 1] = {}
      /\ \A x \in 1..N : next'[x] = next[x]
  BY AppendProperties
<1>2. \A x \in 1..N : x # NULL
  BY GrowKernels DEF NULL
<1> QED
  BY <1>1, <1>2, GrowKernels DEF Grown

LEMMA LoaderInvInit == InputInit => LoaderInv
<1> SUFFICES ASSUME InputInit PROVE LoaderInv
  OBVIOUS
<1>1. kernels \in Seq(Kernels) /\ next \in Seq(SUBSET Nat) /\ Apps \in Seq(AppsOf(Nat))
  BY EmptySeq DEF InputInit
<1>2. N = 0 /\ Len(next) = 0 /\ Len(Apps) = 0 /\ DOMAIN kernels = {}
  BY EmptySeq DEF InputInit, N
<1>3. InputTypeOK
  BY <1>1, GetInputAssumption
     DEF InputInit, InputTypeOK, GetInputAssumption, NoApp, NoRow, NULL, Compute, KernelTypes
<1> QED
  BY <1>2, <1>3 DEF InputInit, LoaderInv, HeapInv, TailsInv, OpenInv, Open, Forest, SortedInv,
     LastGenerationIsLeaves, Precedence, SortedTraceLoads

(* Facts of the invariant about the cursor that most steps need. *)
LEMMA CursorFacts ==
    ASSUME LoaderInv, loading = "rows"
    PROVE  /\ N \in Nat /\ DOMAIN kernels = 1..N /\ DOMAIN next = 1..N
           /\ \A k \in 1..N : kernels[k] \in Kernels
           /\ DOMAIN Apps = 1..Len(Apps) /\ Len(Apps) \in Nat
           /\ k_last \in 1..N /\ Last.appid = AppId
           /\ Last.parent = NULL => k_last = newApp.first
<1>1. /\ N \in Nat /\ DOMAIN kernels = 1..N /\ DOMAIN next = 1..N
      /\ DOMAIN Apps = 1..Len(Apps) /\ Len(Apps) \in Nat
      /\ \A k \in 1..N : kernels[k] \in Kernels
  BY LenProperties, ElementOfSeq DEF LoaderInv, InputTypeOK, HeapInv, N
<1>2. k_last \in 1..N /\ Last.appid = AppId
  BY DEF LoaderInv, OpenInv, Open
<1>3. Last.parent = NULL => k_last \in Heads
  BY <1>1, <1>2 DEF LoaderInv, Forest, Last
<1>4. \A i \in 1..Len(Apps) : Apps[i].first # k_last
  BY <1>1, <1>2 DEF LoaderInv, HeapInv, AppId, Last
<1> QED
  BY <1>1, <1>2, <1>3, <1>4 DEF Heads, Open

(* Reading a row. *)
LEMMA ReadRowFacts ==
    ASSUME LoaderInv, NEW t \in KernelTypes, ReadRow(t)
    PROVE  /\ loading = "rows"
           /\ nrows' \in 0..MaxRows
           /\ row' \in [type : KernelTypes, start : Nat, length : Nat]
           /\ row'.type = t
           /\ Sorted => row.start <= row'.start
  BY GetInputAssumption DEF ReadRow, LoaderInv, InputTypeOK, GetInputAssumption

(***************************************************************************)
(* Hanging the row below a leaf, or below the parent of the last kernel,   *)
(* keeps the invariant.                                                    *)
(***************************************************************************)
LEMMA HangPreserves ==
    ASSUME LoaderInv, NEW t \in KernelTypes, ReadRow(t),
           NEW p \in 1..N, kernels[p].appid = AppId, EndedBefore(p, row'),
           \/ next[p] = {}
           \/ p = Last.parent /\ MayAddNext(p, t),
           HangBelow(p, row'), UNCHANGED dropped
    PROVE  LoaderInv'
<1> DEFINE k  == NewKernel(AppId, row'.type, row'.start, row'.length, p)
           id == N + 1
<1>1. /\ loading = "rows" /\ nrows' \in 0..MaxRows
      /\ row' \in [type : KernelTypes, start : Nat, length : Nat] /\ row'.type = t
      /\ Sorted => row.start <= row'.start
  BY ReadRowFacts
<1>2. /\ N \in Nat /\ DOMAIN kernels = 1..N /\ DOMAIN next = 1..N
      /\ DOMAIN Apps = 1..Len(Apps) /\ Len(Apps) \in Nat
      /\ k_last \in 1..N
      /\ \A x \in 1..N : kernels[x] \in Kernels
  BY <1>1, CursorFacts
<1>3. MayAddNext(p, row'.type)
  BY <1>1 DEF MayAddNext
<1>4. /\ kernels' = Append(kernels, k) /\ next' = AddNextKernel(p)
      /\ k_last' = id /\ loading' = "rows" /\ Apps' = Apps /\ newApp' = newApp
  BY <1>1, <1>3 DEF HangBelow, NewId, N
<1>5. k \in Kernels
  BY <1>1, <1>2 DEF NewKernel, Kernels, AppId
<1>6. Grown(k, p)
  BY <1>4, <1>5, GrowLinked DEF LoaderInv, InputTypeOK, HeapInv
<1>7. k.appid = AppId /\ k.type = t /\ k.start = row'.start /\ k.parent = p
  BY <1>1 DEF NewKernel
<1> HIDE DEF k
<1>8. /\ DOMAIN kernels' = 1..id /\ DOMAIN next' = 1..id /\ N' = id
      /\ AppId' = AppId /\ Open /\ Open' /\ Heads' = Heads /\ Tails' = Tails
      /\ Last' = k
  BY <1>1, <1>2, <1>4, <1>6, LenProperties DEF Grown, N, AppId, Open, Heads, Tails, Last
<1>9. InputTypeOK'
  BY <1>1, <1>2, <1>4, <1>6 DEF LoaderInv, InputTypeOK, Grown
<1>10. HeapInv'
  <2>1. ASSUME NEW x \in 1..id
        PROVE  /\ next'[x] \subseteq 1..id
               /\ kernels'[x].parent \in 0..id
               /\ kernels'[x].appid \in 1..AppId
    <3>1. CASE x \in 1..N
      <4>1. /\ next[x] \subseteq 1..N /\ kernels[x].parent \in 0..N
            /\ kernels[x].appid \in 1..AppId
        BY <1>8, <3>1 DEF LoaderInv, HeapInv
      <4>2. kernels'[x] = kernels[x] /\ next'[x] \subseteq next[x] \cup {id}
        BY <1>6, <3>1 DEF Grown
      <4> QED
        BY <1>2, <4>1, <4>2
    <3>2. CASE x = id
      BY <1>2, <1>6, <1>7, <3>2 DEF Grown, AppId
    <3> QED
      BY <1>2, <3>1, <3>2
  <2>2. \A i \in 1..Len(Apps) : /\ Apps[i].first \in 1..id /\ Apps[i].last \in 1..id
                                /\ kernels'[Apps[i].first].appid = i
    BY <1>2, <1>6 DEF LoaderInv, HeapInv, Grown
  <2> QED
    BY <1>4, <1>6, <1>8, <2>1, <2>2 DEF HeapInv, Grown
<1>11. OpenInv'
  BY <1>2, <1>4, <1>6, <1>7, <1>8 DEF LoaderInv, OpenInv, Grown, End
<1>12. Forest'
  <2>1. id \notin Heads /\ \A x \in 1..N : id \notin next[x] /\ kernels[x].parent # id
    BY <1>2, <1>8 DEF LoaderInv, HeapInv, OpenInv, Heads, Open
  <2>2. ASSUME NEW x \in 1..N
        PROVE  /\ kernels'[x].parent = NULL <=> x \in Heads'
               /\ \A y \in 1..id : x \in next'[y] <=> y = kernels'[x].parent
               /\ x \notin Heads' => /\ kernels'[x].parent < x
                                    /\ kernels'[kernels'[x].parent].appid = kernels'[x].appid
    <3> DEFINE px == kernels[x].parent
    <3>1. /\ px = NULL <=> x \in Heads
          /\ \A y \in 1..N : x \in next[y] <=> y = px
          /\ x \notin Heads => px < x /\ kernels[px].appid = kernels[x].appid
          /\ px \in 0..N
      BY <1>2 DEF LoaderInv, Forest, HeapInv
    <3>2. kernels'[x] = kernels[x]
      BY <1>6 DEF Grown
    <3>3. x # id /\ px # id /\ x \notin next'[id]
      BY <1>2, <1>6, <2>1 DEF Grown
    <3>4. \A y \in 1..N : x \in next'[y] <=> x \in next[y]
      BY <1>6, <3>3 DEF Grown
    <3>5. x \notin Heads => kernels'[px] = kernels[px]
      <4>1. x \notin Heads => px \in 1..N
        BY <1>2, <3>1 DEF NULL
      <4> QED  BY <1>6, <4>1 DEF Grown
    <3>6. \A y \in 1..id : y \in 1..N \/ y = id
      BY <1>2
    <3> QED
      BY <1>8, <3>1, <3>2, <3>3, <3>4, <3>5, <3>6
  <2>3. /\ kernels'[id].parent # NULL
        /\ \A y \in 1..id : id \in next'[y] <=> y = kernels'[id].parent
        /\ kernels'[id].parent < id
        /\ kernels'[kernels'[id].parent].appid = kernels'[id].appid
    <3>1. kernels'[id].parent = p /\ kernels'[id].appid = AppId
      BY <1>6, <1>7 DEF Grown
    <3>2. p # NULL /\ p < id /\ kernels'[p].appid = AppId
      BY <1>2, <1>6 DEF Grown, NULL
    <3>3. \A y \in 1..N : id \in next'[y] <=> y = p
      BY <1>6, <2>1 DEF Grown
    <3>4. id \notin next'[id]
      BY <1>6 DEF Grown
    <3>5. \A y \in 1..id : y \in 1..N \/ y = id
      BY <1>2
    <3> QED
      BY <3>1, <3>2, <3>3, <3>4, <3>5
  <2> QED
    BY <1>2, <1>8, <2>1, <2>2, <2>3 DEF Forest
<1>13. LastGenerationIsLeaves'
  <2>1. next'[id] = {} /\ Brothers' = next[p] \cup {id}
    BY <1>2, <1>6, <1>7, <1>8 DEF Grown, Brothers
  <2>2. ASSUME NEW b \in next[p] PROVE next'[b] = {}
    <3>1. p = Last.parent /\ Last.parent # NULL
      BY <1>2 DEF NULL
    <3>2. next[b] = {}
      BY <1>1, <3>1 DEF LoaderInv, LastGenerationIsLeaves, Brothers
    <3>3. b \in 1..N /\ b # p
      BY <3>2 DEF LoaderInv, HeapInv
    <3> QED
      BY <1>6, <3>2, <3>3 DEF Grown
  <2> QED
    BY <1>4, <2>1, <2>2 DEF LastGenerationIsLeaves
<1>14. Precedence'
  <2>1. \A x \in 1..N : kernels[x].parent \in 0..N
    BY DEF LoaderInv, HeapInv
  <2>2. ASSUME NEW x \in 1..N, x \notin Tails, kernels'[x].parent # NULL
        PROVE  End(kernels'[kernels'[x].parent]) <= kernels'[x].start
    <3>1. kernels'[x] = kernels[x]
      BY <1>6 DEF Grown
    <3>2. kernels[x].parent \in 1..N
      BY <1>2, <2>1, <2>2, <3>1 DEF NULL
    <3>3. kernels'[kernels[x].parent] = kernels[kernels[x].parent]
      BY <1>6, <3>2 DEF Grown
    <3>4. End(kernels[kernels[x].parent]) <= kernels[x].start
      BY <1>2, <2>2, <3>1 DEF LoaderInv, Precedence, EndedBefore
    <3> QED
      BY <3>1, <3>3, <3>4
  <2>3. kernels'[id].parent = p /\ End(kernels'[p]) <= kernels'[id].start
    BY <1>6, <1>7 DEF EndedBefore, Grown
  <2>4. \A x \in 1..id : x \in 1..N \/ x = id
    BY <1>2
  <2> QED
    BY <1>8, <2>2, <2>3, <2>4 DEF Precedence, EndedBefore
<1>15. SortedInv'
  BY <1>1, <1>7, <1>8 DEF SortedInv
<1>16. SortedTraceLoads'
  BY <1>4 DEF SortedTraceLoads
<1>17. TailsInv'
  BY <1>4, <1>6 DEF LoaderInv, TailsInv, HeapInv, Grown
<1> QED
  BY <1>17, <1>9, <1>10, <1>11, <1>12, <1>13, <1>14, <1>15, <1>16 DEF LoaderInv

(* A row that links nothing keeps the invariant. *)
LEMMA RowOnlyPreserves ==
    ASSUME LoaderInv, NEW t \in KernelTypes, ReadRow(t), UNCHANGED <<graph, newApp, k_last>>,
           loading' \in {"rows", "false"}, Sorted => loading' = "rows", dropped' \in Nat
    PROVE  LoaderInv'
<1>1. /\ loading = "rows" /\ nrows' \in 0..MaxRows
      /\ row' \in [type : KernelTypes, start : Nat, length : Nat]
      /\ Sorted => row.start <= row'.start
  BY ReadRowFacts
<1>2. /\ kernels' = kernels /\ next' = next /\ Apps' = Apps
      /\ newApp' = newApp /\ k_last' = k_last
  BY DEF graph
<1>3. /\ N' = N /\ AppId' = AppId /\ Open /\ Open' /\ Heads' = Heads /\ Tails' = Tails
      /\ Last' = Last /\ Brothers' = Brothers
  BY <1>1, <1>2 DEF N, AppId, Open, Heads, Tails, Last, Brothers
<1>4. InputTypeOK'
  BY <1>1, <1>2 DEF LoaderInv, InputTypeOK
<1>5. HeapInv'
  BY <1>2, <1>3 DEF LoaderInv, HeapInv
<1>6. OpenInv'
  BY <1>2, <1>3 DEF LoaderInv, OpenInv
<1>7. Forest' /\ Precedence'
  BY <1>2, <1>3 DEF LoaderInv, Forest, Precedence, EndedBefore
<1>8. LastGenerationIsLeaves'
  BY <1>1, <1>2, <1>3 DEF LoaderInv, LastGenerationIsLeaves
<1>9. SortedInv'
  <2>1. Last.start \in Int
    BY <1>1, CursorFacts DEF Last, Kernels
  <2> QED
    BY <1>1, <1>3, <2>1 DEF LoaderInv, SortedInv, InputTypeOK
<1>10. SortedTraceLoads'
  BY DEF SortedTraceLoads
<1>11. TailsInv'
  BY <1>2 DEF LoaderInv, TailsInv
<1> QED
  BY <1>11, <1>4, <1>5, <1>6, <1>7, <1>8, <1>9, <1>10 DEF LoaderInv

(* When the last kernel has not ended it is not the head, so it has a parent. *)
LEMMA ParentFacts ==
    ASSUME LoaderInv, NEW t \in KernelTypes, ReadRow(t), ~EndedBefore(k_last, row')
    PROVE  /\ Last.parent \in 1..N
           /\ kernels[Last.parent].appid = AppId
           /\ k_last \in Brothers
           /\ Brothers \subseteq 1..N
           /\ \A b \in Brothers : next[b] = {} /\ kernels[b].appid = AppId
           /\ Last.start <= row'.start => EndedBefore(Last.parent, row')
           /\ Sorted => EndedBefore(Last.parent, row')
           /\ Last.start \in Int /\ row'.start \in Int
<1>1. /\ loading = "rows" /\ row'.start \in Nat /\ row.start \in Nat
      /\ Sorted => row.start <= row'.start
  BY ReadRowFacts DEF LoaderInv, InputTypeOK
<1>2. /\ N \in Nat /\ DOMAIN kernels = 1..N /\ k_last \in 1..N /\ Last.appid = AppId
      /\ Last.parent = NULL => k_last = newApp.first
      /\ \A x \in 1..N : kernels[x] \in Kernels
      /\ DOMAIN Apps = 1..Len(Apps) /\ Len(Apps) \in Nat
  BY <1>1, CursorFacts
<1>3. Last.parent # NULL
  BY <1>1, <1>2 DEF LoaderInv, OpenInv, Open, EndedBefore
<1>4. Last.parent \in 1..N
  BY <1>2, <1>3 DEF LoaderInv, HeapInv, NULL, Last
<1>5. \A x \in 1..N : x \in Brothers <=> kernels[x].parent = Last.parent
  BY <1>2, <1>4 DEF LoaderInv, Forest, Brothers
<1>6. Brothers \subseteq 1..N /\ \A b \in Brothers : next[b] = {}
  BY <1>1, <1>3, <1>4 DEF LoaderInv, LastGenerationIsLeaves, HeapInv, Brothers
<1>7. \A x \in 1..N : kernels[x].parent # NULL =>
         kernels[kernels[x].parent].appid = kernels[x].appid
  BY <1>2 DEF LoaderInv, Forest
<1>8. kernels[Last.parent].appid = AppId
  BY <1>2, <1>3, <1>7 DEF Last
<1>9. \A b \in Brothers : kernels[b].appid = AppId
  BY <1>3, <1>5, <1>6, <1>7, <1>8
<1>10. /\ Last.start <= row'.start => EndedBefore(Last.parent, row')
       /\ Sorted => EndedBefore(Last.parent, row')
       /\ Last.start \in Int
  <2>1. k_last \notin Tails
    <3>1. next[k_last] = {} /\ Last.appid = AppId
      BY <1>1, <1>2 DEF LoaderInv, LastGenerationIsLeaves
    <3> QED
      BY <1>2, <3>1 DEF LoaderInv, TailsInv, Tails, Last, AppId
  <2>2. End(kernels[Last.parent]) <= Last.start
    BY <1>2, <1>3, <2>1 DEF LoaderInv, Precedence, EndedBefore, Last
  <2>3. Last.start \in Int /\ End(kernels[Last.parent]) \in Int
    <3>1. Last \in Kernels
      BY <1>2 DEF Last
    <3>2. kernels[Last.parent] \in Kernels
      BY <1>2, <1>4
    <3>3. \A k \in Kernels : k.start \in Int /\ End(k) \in Int
      BY DEF Kernels, End
    <3> QED
      BY <3>1, <3>2, <3>3
  <2> QED
    BY <1>1, <2>2, <2>3 DEF LoaderInv, SortedInv, EndedBefore
<1> QED
  BY <1>1, <1>2, <1>4, <1>5, <1>6, <1>8, <1>9, <1>10 DEF Last

LEMMA OpenAppPreserves == ASSUME LoaderInv, OpenApp PROVE LoaderInv'
<1> DEFINE k  == NewKernel(AppId, Compute, 0, 0, NULL)
           id == N + 1
<1>1. /\ kernels \in Seq(Kernels) /\ next \in Seq(SUBSET Nat) /\ Len(next) = N
      /\ N \in Nat /\ DOMAIN kernels = 1..N /\ DOMAIN next = 1..N
      /\ DOMAIN Apps = 1..Len(Apps) /\ Len(Apps) \in Nat
  BY LenProperties DEF LoaderInv, InputTypeOK, HeapInv, N
<1>2. /\ loading = "conf" /\ loading' = "rows" /\ Apps' = Apps /\ row' = row
      /\ nrows' = nrows /\ dropped' = dropped /\ k_last' = id
      /\ kernels' = Append(kernels, k) /\ next' = Append(next, {})
      /\ newApp' \in [length : Nat, slow : Nat, first : Nat]
      /\ newApp'.first = id /\ newApp'.length # 0
  BY <1>1, GetInputAssumption DEF OpenApp, GetInputAssumption, NewId, N
<1>3. k \in Kernels /\ k.appid = AppId /\ End(k) = 0 /\ k.parent = NULL /\ k.start = 0
  BY <1>1 DEF NewKernel, Kernels, AppId, KernelTypes, Compute, End, NULL
<1> HIDE DEF k
<1>4. Grown(k, NULL)
  BY <1>1, <1>2, <1>3, GrowUnlinked
<1>5. /\ N' = id /\ AppId' = AppId /\ ~Open /\ Open' /\ Tails' = Tails /\ Last' = k
      /\ DOMAIN kernels' = 1..id /\ DOMAIN next' = 1..id
      /\ Heads' = Heads \cup {id}
  BY <1>1, <1>2, <1>4, LenProperties DEF Grown, N, AppId, Open, Tails, Last, Heads
<1>6. /\ \A x \in 1..N : kernels'[x] = kernels[x] /\ next'[x] = next[x]
      /\ kernels'[id] = k /\ next'[id] = {}
  BY <1>1, <1>4 DEF Grown, NULL
<1>7. \A x \in 1..id : x \in 1..N \/ x = id
  BY <1>1
<1>8. \A x \in 1..N : /\ next[x] \subseteq 1..N /\ kernels[x].parent \in 0..N
                      /\ kernels[x].appid \in 1..Len(Apps)
  BY <1>5 DEF LoaderInv, HeapInv
<1>9. InputTypeOK'
  BY <1>1, <1>2, <1>4 DEF LoaderInv, InputTypeOK, Grown
<1>10. HeapInv'
  <2>1. \A x \in 1..id : /\ next'[x] \subseteq 1..id /\ kernels'[x].parent \in 0..id
                         /\ kernels'[x].appid \in 1..AppId
    BY <1>1, <1>3, <1>6, <1>7, <1>8 DEF AppId, NULL
  <2>2. \A i \in 1..Len(Apps) : /\ Apps[i].first \in 1..id /\ Apps[i].last \in 1..id
                                /\ kernels'[Apps[i].first].appid = i
    BY <1>1, <1>6 DEF LoaderInv, HeapInv
  <2> QED
    BY <1>2, <1>4, <1>5, <2>1, <2>2 DEF HeapInv, Grown
<1>11. OpenInv'
  BY <1>1, <1>2, <1>3, <1>5, <1>6 DEF OpenInv
<1>12. TailsInv'
  BY <1>2, <1>6 DEF LoaderInv, TailsInv, HeapInv
<1>13. Forest'
  <2>1. id \notin 1..N
    BY <1>1
  <2>2. ASSUME NEW x \in 1..N
        PROVE  /\ kernels'[x].parent = NULL <=> x \in Heads'
               /\ \A y \in 1..id : x \in next'[y] <=> y = kernels'[x].parent
               /\ x \notin Heads' => /\ kernels'[x].parent < x
                                    /\ kernels'[kernels'[x].parent].appid = kernels'[x].appid
    <3> DEFINE px == kernels[x].parent
    <3>1. /\ px = NULL <=> x \in Heads
          /\ \A y \in 1..N : x \in next[y] <=> y = px
          /\ x \notin Heads => px < x /\ kernels[px].appid = kernels[x].appid
          /\ px \in 0..N
      BY <1>1, <1>8 DEF LoaderInv, Forest
    <3>2. x \notin Heads => px \in 1..N
      BY <1>1, <3>1 DEF NULL
    <3>3. kernels'[x] = kernels[x] /\ (x \notin Heads => kernels'[px] = kernels[px])
      BY <1>6, <3>2
    <3>4. px # id /\ x # id
      BY <1>1, <3>1
    <3> QED
      BY <1>5, <1>6, <1>7, <3>1, <3>3, <3>4
  <2>3. /\ kernels'[id].parent = NULL /\ id \in Heads'
        /\ \A y \in 1..id : id \notin next'[y] /\ y # NULL
    BY <1>1, <1>3, <1>5, <1>6, <1>7, <1>8, <2>1 DEF NULL
  <2> QED
    BY <1>5, <1>7, <2>2, <2>3 DEF Forest
<1>14. LastGenerationIsLeaves'
  BY <1>2, <1>3, <1>5, <1>6 DEF LastGenerationIsLeaves
<1>15. Precedence'
  <2>1. ASSUME NEW x \in 1..N, x \notin Tails, kernels[x].parent # NULL
        PROVE  End(kernels'[kernels'[x].parent]) <= kernels'[x].start
    <3>1. kernels[x].parent \in 1..N
      BY <1>1, <1>8, <2>1 DEF NULL
    <3>2. End(kernels[kernels[x].parent]) <= kernels[x].start
      BY <1>1, <2>1 DEF LoaderInv, Precedence, EndedBefore
    <3> QED
      BY <1>6, <3>1, <3>2
  <2> QED
    BY <1>3, <1>5, <1>6, <1>7, <2>1 DEF Precedence, EndedBefore
<1>16. SortedInv' /\ SortedTraceLoads'
  BY <1>2, <1>3, <1>5 DEF SortedInv, SortedTraceLoads, LoaderInv, InputTypeOK
<1> QED
  BY <1>9, <1>10, <1>11, <1>12, <1>13, <1>14, <1>15, <1>16 DEF LoaderInv

LEMMA CloseAppPreserves == ASSUME LoaderInv, CloseApp PROVE LoaderInv'
<1> DEFINE k   == NewKernel(AppId, Compute, newApp.length, 0, k_last)
           id  == N + 1
           app == [length |-> newApp.length, slow |-> newApp.slow,
                   first |-> newApp.first, last |-> id]
<1>1. /\ loading = "rows" /\ Open /\ Len(next) = N
      /\ N \in Nat /\ DOMAIN kernels = 1..N /\ DOMAIN next = 1..N
      /\ DOMAIN Apps = 1..Len(Apps) /\ Len(Apps) \in Nat
      /\ k_last \in 1..N /\ Last.appid = AppId /\ next[k_last] = {}
  BY CursorFacts DEF CloseApp, LoaderInv, HeapInv, LastGenerationIsLeaves, Open
<1>2. MayAddNext(k_last, Compute)
  BY <1>1 DEF MayAddNext
<1>3. /\ kernels' = Append(kernels, k) /\ next' = AddNextKernel(k_last)
      /\ Apps' = Append(Apps, app) /\ loading' = "conf"
      /\ newApp' = NoApp /\ k_last' = NULL /\ row' = NoRow /\ nrows' = 0 /\ dropped' = 0
  BY <1>2 DEF CloseApp, NewId, N
<1>4. k \in Kernels /\ k.appid = AppId /\ k.parent = k_last
  BY <1>1 DEF NewKernel, Kernels, AppId, KernelTypes, Compute, LoaderInv, InputTypeOK
<1>5. /\ newApp.length \in Nat \ {0} /\ newApp.first \in 1..N
      /\ kernels[newApp.first].appid = AppId
  BY <1>1 DEF LoaderInv, InputTypeOK, OpenInv
<1>6. app \in AppsOf(Nat) /\ app.first = newApp.first /\ app.last = id
  BY <1>1, <1>5 DEF AppsOf, LoaderInv, InputTypeOK
<1> HIDE DEF k, app
<1>7. Grown(k, k_last)
  BY <1>1, <1>3, <1>4, GrowLinked DEF LoaderInv, InputTypeOK
<1>8. /\ Apps' \in Seq(AppsOf(Nat)) /\ Len(Apps') = AppId /\ DOMAIN Apps' = 1..AppId
      /\ Apps'[AppId] = app /\ \A i \in 1..Len(Apps) : Apps'[i] = Apps[i]
  BY <1>3, <1>6, AppendProperties, LenProperties DEF LoaderInv, InputTypeOK, AppId
<1>9. /\ N' = id /\ DOMAIN kernels' = 1..id /\ DOMAIN next' = 1..id /\ ~Open'
      /\ \A i \in 1..AppId : i \in 1..Len(Apps) \/ i = AppId
      /\ \A x \in 1..id : x \in 1..N \/ x = id
  BY <1>1, <1>3, <1>7, LenProperties DEF Grown, N, Open, AppId
<1>10. Heads' = Heads /\ Tails' = Tails \cup {id}
  <2>1. Heads = {Apps[i].first : i \in 1..Len(Apps)} \cup {newApp.first}
    BY <1>1 DEF Heads
  <2>2. Heads' = {Apps'[i].first : i \in 1..AppId}
    BY <1>8, <1>9 DEF Heads
  <2>3. AppId \in 1..AppId /\ \A i \in 1..Len(Apps) : i \in 1..AppId
    BY <1>1 DEF AppId
  <2> QED
    BY <1>1, <1>6, <1>8, <1>9, <2>1, <2>2, <2>3 DEF Tails
<1>11. InputTypeOK'
  BY <1>3, <1>7, <1>8, GetInputAssumption
     DEF InputTypeOK, Grown, NoApp, NoRow, NULL, KernelTypes, Compute, GetInputAssumption
<1>12. \A x \in 1..N : /\ next[x] \subseteq 1..N /\ kernels[x].parent \in 0..N
                       /\ kernels[x].appid \in 1..AppId
  BY <1>1 DEF LoaderInv, HeapInv
<1>13. HeapInv' /\ TailsInv'
  <2>1. ASSUME NEW x \in 1..id
        PROVE  /\ next'[x] \subseteq 1..id /\ kernels'[x].parent \in 0..id
               /\ kernels'[x].appid \in 1..AppId
    <3>1. CASE x \in 1..N
      <4>1. kernels'[x] = kernels[x] /\ next'[x] \subseteq next[x] \cup {id}
        BY <1>7, <3>1 DEF Grown
      <4>2. /\ next[x] \subseteq 1..N /\ kernels[x].parent \in 0..N
            /\ kernels[x].appid \in 1..AppId
        BY <1>12, <3>1
      <4> QED
        BY <1>1, <4>1, <4>2
    <3>2. CASE x = id
      BY <1>1, <1>4, <1>7, <3>2 DEF Grown, AppId
    <3> QED
      BY <1>9, <3>1, <3>2
  <2>2. ASSUME NEW i \in 1..AppId
        PROVE  /\ Apps'[i].first \in 1..id /\ Apps'[i].last \in 1..id
               /\ kernels'[Apps'[i].first].appid = i /\ kernels'[Apps'[i].last].appid = i
    <3>1. CASE i \in 1..Len(Apps)
      BY <1>1, <1>7, <1>8, <3>1 DEF LoaderInv, HeapInv, TailsInv, Grown
    <3>2. CASE i = AppId
      BY <1>1, <1>4, <1>5, <1>6, <1>7, <1>8, <3>2 DEF Grown
    <3> QED
      BY <1>9, <3>1, <3>2
  <2> QED
    BY <1>7, <1>8, <1>9, <2>1, <2>2 DEF HeapInv, TailsInv, Grown
<1>14. Forest'
  <2>1. id \notin Heads /\ \A x \in 1..N : id \notin next[x] /\ kernels[x].parent # id
    BY <1>1, <1>5, <1>12 DEF LoaderInv, HeapInv, Heads
  <2>2. ASSUME NEW x \in 1..N
        PROVE  /\ kernels'[x].parent = NULL <=> x \in Heads'
               /\ \A y \in 1..id : x \in next'[y] <=> y = kernels'[x].parent
               /\ x \notin Heads' => /\ kernels'[x].parent < x
                                    /\ kernels'[kernels'[x].parent].appid = kernels'[x].appid
    <3> DEFINE px == kernels[x].parent
    <3>1. /\ px = NULL <=> x \in Heads
          /\ \A y \in 1..N : x \in next[y] <=> y = px
          /\ x \notin Heads => px < x /\ kernels[px].appid = kernels[x].appid
          /\ px \in 0..N
      BY <1>1, <1>12 DEF LoaderInv, Forest
    <3>2. x \notin Heads => px \in 1..N
      BY <1>1, <3>1 DEF NULL
    <3>3. kernels'[x] = kernels[x] /\ (x \notin Heads => kernels'[px] = kernels[px])
      BY <1>7, <3>2 DEF Grown
    <3>4. x # id /\ px # id /\ x \notin next'[id]
      BY <1>1, <1>7, <2>1 DEF Grown
    <3>5. \A y \in 1..N : x \in next'[y] <=> x \in next[y]
      BY <1>7, <3>4 DEF Grown
    <3> QED
      BY <1>9, <1>10, <3>1, <3>3, <3>4, <3>5
  <2>3. /\ kernels'[id].parent # NULL
        /\ \A y \in 1..id : id \in next'[y] <=> y = kernels'[id].parent
        /\ kernels'[id].parent < id
        /\ kernels'[kernels'[id].parent].appid = kernels'[id].appid
    <3>1. kernels'[id].parent = k_last /\ kernels'[id].appid = AppId
      BY <1>4, <1>7 DEF Grown
    <3>2. k_last # NULL /\ k_last < id /\ kernels'[k_last].appid = AppId
      BY <1>1, <1>7 DEF Grown, NULL, Last
    <3>3. \A y \in 1..N : id \in next'[y] <=> y = k_last
      BY <1>7, <2>1 DEF Grown
    <3>4. id \notin next'[id]
      BY <1>7 DEF Grown
    <3> QED
      BY <1>9, <3>1, <3>2, <3>3, <3>4
  <2> QED
    BY <1>9, <1>10, <2>1, <2>2, <2>3 DEF Forest
<1>15. Precedence'
  <2>1. ASSUME NEW x \in 1..N, x \notin Tails, kernels'[x].parent # NULL
        PROVE  End(kernels'[kernels'[x].parent]) <= kernels'[x].start
    <3>1. kernels'[x] = kernels[x]
      BY <1>7 DEF Grown
    <3>2. kernels[x].parent \in 1..N
      BY <1>1, <1>12, <2>1, <3>1 DEF NULL
    <3>3. kernels'[kernels[x].parent] = kernels[kernels[x].parent]
      BY <1>7, <3>2 DEF Grown
    <3>4. End(kernels[kernels[x].parent]) <= kernels[x].start
      BY <1>1, <2>1, <3>1 DEF LoaderInv, Precedence, EndedBefore
    <3> QED
      BY <3>1, <3>3, <3>4
  <2> QED
    BY <1>9, <1>10, <2>1 DEF Precedence, EndedBefore
<1>16. OpenInv' /\ LastGenerationIsLeaves' /\ SortedInv' /\ SortedTraceLoads'
  BY <1>3, <1>9 DEF OpenInv, LastGenerationIsLeaves, SortedInv, SortedTraceLoads
<1> QED
  BY <1>11, <1>13, <1>14, <1>15, <1>16 DEF LoaderInv

LEMMA LoaderInvNext == LoaderInv /\ [InputNext]_inputVars => LoaderInv'
<1> SUFFICES ASSUME LoaderInv, [InputNext]_inputVars PROVE LoaderInv'
  OBVIOUS
<1>1. CASE OpenApp
  BY <1>1, OpenAppPreserves
<1>2. CASE SkipMemset
  <2>1. ReadRow(Compute) /\ loading = "rows" /\ dropped \in Nat /\ Compute \in KernelTypes
    BY <1>2 DEF SkipMemset, ReadRow, LoaderInv, InputTypeOK, KernelTypes
  <2> QED
    BY <1>2, <2>1, RowOnlyPreserves DEF SkipMemset
<1>3. ASSUME NEW t \in KernelTypes, AfterLast(t) PROVE LoaderInv'
  <2>1. /\ ReadRow(t) /\ EndedBefore(k_last, row') /\ HangBelow(k_last, row')
        /\ UNCHANGED dropped /\ loading = "rows"
    BY <1>3 DEF AfterLast, ReadRow
  <2>2. k_last \in 1..N /\ kernels[k_last].appid = AppId /\ next[k_last] = {}
    BY <2>1, CursorFacts DEF LoaderInv, LastGenerationIsLeaves, Last
  <2> QED
    BY <2>1, <2>2, HangPreserves
<1>4. ASSUME NEW t \in KernelTypes, AfterBrother(t) PROVE LoaderInv'
  <2>1. ReadRow(t) /\ ~EndedBefore(k_last, row') /\ UNCHANGED dropped
    BY <1>4 DEF AfterBrother
  <2>2. PICK b \in Brothers : EndedBefore(b, row') /\ HangBelow(b, row')
    BY <1>4 DEF AfterBrother
  <2>3. b \in 1..N /\ next[b] = {} /\ kernels[b].appid = AppId
    BY <2>1, ParentFacts
  <2> QED
    BY <2>1, <2>2, <2>3, HangPreserves
<1>5. ASSUME NEW t \in KernelTypes, AfterParent(t) PROVE LoaderInv'
  <2>1. /\ ReadRow(t) /\ ~EndedBefore(k_last, row') /\ UNCHANGED dropped
        /\ EndedBefore(Last.parent, row') /\ MayAddNext(Last.parent, t)
        /\ HangBelow(Last.parent, row')
    BY <1>5 DEF AfterParent
  <2>2. Last.parent \in 1..N /\ kernels[Last.parent].appid = AppId
    BY <2>1, ParentFacts
  <2> QED
    BY <2>1, <2>2, HangPreserves
<1>6. ASSUME NEW t \in KernelTypes, DropRow(t) PROVE LoaderInv'
  <2>1. ReadRow(t) /\ loading = "rows" /\ dropped \in Nat
    BY <1>6 DEF DropRow, ReadRow, LoaderInv, InputTypeOK
  <2> QED
    BY <1>6, <2>1, RowOnlyPreserves DEF DropRow
<1>7. ASSUME NEW t \in KernelTypes, BadTime(t) PROVE LoaderInv'
  <2>1. /\ ReadRow(t) /\ ~EndedBefore(k_last, row') /\ ~EndedBefore(Last.parent, row')
        /\ dropped \in Nat
    BY <1>7 DEF BadTime, LoaderInv, InputTypeOK
  <2>2. ~Sorted
    BY <2>1, ParentFacts
  <2> QED
    BY <1>7, <2>1, <2>2, RowOnlyPreserves DEF BadTime
<1>8. CASE CloseApp
  BY <1>8, CloseAppPreserves
<1>9. CASE InputDone \/ UNCHANGED inputVars
  <2>1. /\ kernels' = kernels /\ next' = next /\ Apps' = Apps /\ newApp' = newApp
        /\ k_last' = k_last /\ row' = row /\ nrows' = nrows /\ dropped' = dropped
        /\ \/ loading' = loading
           \/ (loading = "conf" /\ loading' = "true")
    <3>1. CASE InputDone
      BY <3>1 DEF InputDone, graph
    <3>2. CASE UNCHANGED inputVars
      BY <3>2 DEF inputVars, graph
    <3> QED
      BY <1>9, <3>1, <3>2
  <2>2. /\ N' = N /\ AppId' = AppId /\ Open' = Open /\ Tails' = Tails /\ Last' = Last
        /\ Brothers' = Brothers
    BY <2>1 DEF N, AppId, Open, Tails, Last, Brothers
  <2>3. Heads' = Heads
    BY <2>1, <2>2 DEF Heads
  <2>4. InputTypeOK' /\ TailsInv'
    BY <2>1 DEF LoaderInv, InputTypeOK, TailsInv
  <2>5. HeapInv'
    BY <2>1, <2>2 DEF LoaderInv, HeapInv
  <2>6. OpenInv'
    BY <2>1, <2>2 DEF LoaderInv, OpenInv
  <2>7. Forest' /\ Precedence'
    BY <2>1, <2>2, <2>3 DEF LoaderInv, Forest, Precedence, EndedBefore
  <2>8. LastGenerationIsLeaves' /\ SortedInv' /\ SortedTraceLoads'
    BY <2>1, <2>2 DEF LoaderInv, LastGenerationIsLeaves, SortedInv, SortedTraceLoads
  <2> QED
    BY <2>4, <2>5, <2>6, <2>7, <2>8 DEF LoaderInv
<1> QED
  BY <1>1, <1>2, <1>3, <1>4, <1>5, <1>6, <1>7, <1>8, <1>9 DEF InputNext

(* The inductive invariant holds in every state of the loader. *)
THEOREM LoaderInvariant == InputSpec => []LoaderInv
  BY LoaderInvInit, LoaderInvNext, PTL DEF InputSpec

(* getInput keeps its variables in their types. *)
THEOREM InputTypeCorrect == InputSpec => []InputTypeOK
<1>1. LoaderInv => InputTypeOK
  BY DEF LoaderInv
<1> QED
  BY <1>1, LoaderInvariant, PTL

(* getInput builds a forest: parent pointers and successor lists agree. *)
THEOREM ForestBuilt == InputSpec => []Forest
<1>1. LoaderInv => Forest
  BY DEF LoaderInv
<1> QED
  BY <1>1, LoaderInvariant, PTL

(***************************************************************************)
(* The kernel read last and its brothers are leaves: "invalid type[0]" and *)
(* "invalid type[1]" cannot happen, whatever the trace.                    *)
(***************************************************************************)
THEOREM LeavesAtTheCursor == InputSpec => []LastGenerationIsLeaves
<1>1. LoaderInv => LastGenerationIsLeaves
  BY DEF LoaderInv
<1> QED
  BY <1>1, LoaderInvariant, PTL

(* No kernel but a tail starts before its parent has ended. *)
THEOREM PrecedenceKept == InputSpec => []Precedence
<1>1. LoaderInv => Precedence
  BY DEF LoaderInv
<1> QED
  BY <1>1, LoaderInvariant, PTL

(* getInput accepts every trace that is sorted by start_time. *)
THEOREM SortedTracesAccepted == InputSpec => []SortedTraceLoads
<1>1. LoaderInv => SortedTraceLoads
  BY DEF LoaderInv
<1> QED
  BY <1>1, LoaderInvariant, PTL

LEMMA RefusalInit == InputInit => RefusesOnlyDisorder
  BY DEF InputInit, RefusesOnlyDisorder

(* Only "invalid time[2]" ends in a refusal, and the parent of the last kernel *)
(* ended before that kernel started.                                          *)
LEMMA RefusalNext ==
    LoaderInv /\ RefusesOnlyDisorder /\ [InputNext]_inputVars => RefusesOnlyDisorder'
<1> SUFFICES ASSUME LoaderInv, RefusesOnlyDisorder, [InputNext]_inputVars, loading' = "false"
             PROVE  row'.start < Last'.start
  BY DEF RefusesOnlyDisorder
<1>1. CASE OpenApp \/ CloseApp \/ InputDone
  BY <1>1 DEF OpenApp, CloseApp, InputDone
<1>2. CASE SkipMemset
  BY <1>2 DEF SkipMemset, ReadRow
<1>3. ASSUME NEW t \in KernelTypes, AfterLast(t) PROVE FALSE
  <2>1. ReadRow(t) /\ HangBelow(k_last, row') /\ loading = "rows"
    BY <1>3 DEF AfterLast, ReadRow
  <2>2. k_last \in 1..N /\ next[k_last] = {}
    BY <2>1, CursorFacts DEF LoaderInv, LastGenerationIsLeaves
  <2> QED
    BY <2>1, <2>2 DEF HangBelow, MayAddNext
<1>4. ASSUME NEW t \in KernelTypes, AfterBrother(t) PROVE FALSE
  <2>1. ReadRow(t) /\ ~EndedBefore(k_last, row') /\ loading = "rows"
    BY <1>4 DEF AfterBrother, ReadRow
  <2>2. PICK b \in Brothers : HangBelow(b, row')
    BY <1>4 DEF AfterBrother
  <2>3. next[b] = {}
    BY <2>1, ParentFacts
  <2> QED
    BY <2>1, <2>2, <2>3 DEF HangBelow, MayAddNext
<1>5. ASSUME NEW t \in KernelTypes, AfterParent(t) PROVE FALSE
  <2>1. ReadRow(t) /\ MayAddNext(Last.parent, t) /\ HangBelow(Last.parent, row')
        /\ loading = "rows"
    BY <1>5 DEF AfterParent, ReadRow
  <2>2. row'.type = t
    BY <2>1, ReadRowFacts
  <2> QED
    BY <2>1, <2>2 DEF HangBelow
<1>6. ASSUME NEW t \in KernelTypes, DropRow(t) PROVE FALSE
  BY <1>6 DEF DropRow, ReadRow
<1>7. ASSUME NEW t \in KernelTypes, BadTime(t) PROVE row'.start < Last'.start
  <2>1. /\ ReadRow(t) /\ ~EndedBefore(k_last, row') /\ ~EndedBefore(Last.parent, row')
        /\ Last' = Last
    BY <1>7 DEF BadTime, graph, Last
  <2>2. /\ ~(Last.start <= row'.start)
        /\ Last.start \in Int /\ row'.start \in Int
    BY <2>1, ParentFacts
  <2> QED
    BY <2>1, <2>2
<1>8. CASE UNCHANGED inputVars
  BY <1>8 DEF inputVars, graph, RefusesOnlyDisorder, Last
<1> QED
  BY <1>1, <1>2, <1>3, <1>4, <1>5, <1>6, <1>7, <1>8 DEF InputNext

(***************************************************************************)
(* Whatever the trace, getInput refuses it only at a row that starts       *)
(* before the kernel read last did.                                        *)
(***************************************************************************)
THEOREM RefusalMeansDisorder == InputSpec => []RefusesOnlyDisorder
  BY RefusalInit, RefusalNext, LoaderInvariant, PTL DEF InputSpec

(***************************************************************************)
(* Only "invalid time[3]" loses a row, and it does so because a brother of *)
(* the kernel read last that has the row's type has not ended.             *)
(***************************************************************************)
LEMMA DropStep ==
    ASSUME LoaderInv, [InputNext]_inputVars, dropped' > dropped
    PROVE  \E k \in Kept : kernels[k].type = row'.type /\ row'.start < End(kernels[k])
<1>0. dropped \in Nat
  BY DEF LoaderInv, InputTypeOK
<1>1. PICK t \in KernelTypes : DropRow(t)
  <2>1. CASE OpenApp \/ SkipMemset \/ InputDone \/ UNCHANGED inputVars
    BY <1>0, <2>1 DEF OpenApp, SkipMemset, InputDone, inputVars
  <2>2. CASE CloseApp
    BY <1>0, <2>2 DEF CloseApp
  <2>3. ASSUME NEW t \in KernelTypes,
               AfterLast(t) \/ AfterBrother(t) \/ AfterParent(t) \/ BadTime(t)
        PROVE  FALSE
    BY <1>0, <2>3 DEF AfterLast, AfterBrother, AfterParent, BadTime
  <2> QED
    BY <2>1, <2>2, <2>3 DEF InputNext
<1>2. /\ ReadRow(t) /\ ~EndedBefore(k_last, row') /\ NoBrotherEnded(row')
      /\ ~MayAddNext(Last.parent, t)
  BY <1>1 DEF DropRow
<1>3. loading = "rows" /\ row'.type = t /\ row'.start \in Nat
  BY <1>2, ReadRowFacts
<1>4. /\ Brothers \subseteq 1..N
      /\ \A b \in Brothers : kernels[b].appid = AppId
  BY <1>2, ParentFacts
<1>5. PICK b \in Brothers : kernels[b].type = t
  BY <1>2 DEF MayAddNext, Brothers
<1>6. b \in DOMAIN kernels /\ kernels[b] \in Kernels
  BY <1>3, <1>4, CursorFacts
<1>7. b \in Kept
  BY <1>4, <1>6 DEF Kept
<1>8. row'.start < End(kernels[b])
  BY <1>2, <1>3, <1>6 DEF NoBrotherEnded, EndedBefore, End, Kernels
<1> QED
  BY <1>3, <1>5, <1>7, <1>8

(***************************************************************************)
(* A row that starts no earlier than the kernels kept of its application   *)
(* is lost only if it overlaps one of them of its own type, whatever came  *)
(* before it.                                                              *)
(***************************************************************************)
THEOREM OnlyOverlapsAreDropped == InputSpec => DropsOnlyOverlaps
<1>1. LoaderInv /\ [InputNext]_inputVars =>
        [dropped' > dropped /\ (\A k \in Kept : kernels[k].start <= row'.start) =>
          \E k \in Kept : /\ kernels[k].type = row'.type
                          /\ row'.start < End(kernels[k])]_inputVars
  BY DropStep
<1> QED
  BY <1>1, LoaderInvariant, PTL DEF InputSpec, DropsOnlyOverlaps

-----------------------------------------------------------------------------
(***************************************************************************)
(* The ends of a trace: the head of an application starts and ends at 0,   *)
(* its tail starts and ends when the iteration does.                       *)
(***************************************************************************)
EndsInv ==
    /\ \A i \in 1..Len(Apps) : /\ kernels[Apps[i].first].start = 0
                               /\ kernels[Apps[i].first].length = 0
                               /\ kernels[Apps[i].last].start = Apps[i].length
                               /\ kernels[Apps[i].last].length = 0
    /\ Open => kernels[newApp.first].start = 0 /\ kernels[newApp.first].length = 0

LEMMA EndsInit == InputInit => EndsInv
<1> SUFFICES ASSUME InputInit PROVE EndsInv
  OBVIOUS
<1>1. Len(Apps) = 0 /\ ~Open
  BY EmptySeq DEF InputInit, Open
<1> QED
  BY <1>1 DEF EndsInv

(* Kernel objects are allocated, never changed. *)
LEMMA HeapGrows ==
    ASSUME LoaderInv, [InputNext]_inputVars
    PROVE  \A x \in 1..N : kernels'[x] = kernels[x]
<1>0. kernels \in Seq(Kernels)
  BY DEF LoaderInv, InputTypeOK
<1>1. kernels' = kernels \/ \E k : kernels' = Append(kernels, k)
  <2>1. CASE OpenApp \/ CloseApp
    BY <2>1 DEF OpenApp, CloseApp
  <2>2. CASE SkipMemset \/ InputDone \/ UNCHANGED inputVars
    BY <2>2 DEF SkipMemset, InputDone, inputVars, graph
  <2>3. ASSUME NEW t \in KernelTypes, DropRow(t) \/ BadTime(t) PROVE kernels' = kernels
    BY <2>3 DEF DropRow, BadTime, graph
  <2>4. ASSUME NEW p, HangBelow(p, row')
        PROVE  kernels' = kernels \/ \E k : kernels' = Append(kernels, k)
    BY <2>4 DEF HangBelow
  <2>5. ASSUME NEW t \in KernelTypes, AfterLast(t) \/ AfterBrother(t) \/ AfterParent(t)
        PROVE  \E p : HangBelow(p, row')
    BY <2>5 DEF AfterLast, AfterBrother, AfterParent
  <2> QED
    BY <2>1, <2>2, <2>3, <2>4, <2>5 DEF InputNext
<1>2. ASSUME NEW k, kernels' = Append(kernels, k), NEW x \in 1..N
      PROVE  kernels'[x] = kernels[x]
  BY <1>0, <1>2 DEF N
<1> QED
  BY <1>1, <1>2

LEMMA EndsNext == LoaderInv /\ EndsInv /\ [InputNext]_inputVars => EndsInv'
<1> SUFFICES ASSUME LoaderInv, EndsInv, [InputNext]_inputVars PROVE EndsInv'
  OBVIOUS
<1>1. \A x \in 1..N : kernels'[x] = kernels[x]
  BY HeapGrows
<1>2. /\ kernels \in Seq(Kernels) /\ Apps \in Seq(AppsOf(Nat)) /\ newApp.length \in Nat
      /\ Len(Apps) \in Nat /\ N \in Nat
      /\ \A i \in 1..Len(Apps) : Apps[i].first \in 1..N /\ Apps[i].last \in 1..N
      /\ Open => newApp.first \in 1..N
  BY LenProperties DEF LoaderInv, InputTypeOK, HeapInv, OpenInv, N
<1>3. CASE OpenApp
  <2> DEFINE k == NewKernel(AppId, Compute, 0, 0, NULL)
  <2>1. /\ kernels' = Append(kernels, k)
        /\ newApp'.first = N + 1 /\ Apps' = Apps
    BY <1>3 DEF OpenApp, NewId, N
  <2>2. kernels'[N + 1] = k
    BY <1>2, <2>1 DEF N
  <2>k. k.start = 0 /\ k.length = 0
    BY DEF NewKernel
  <2> HIDE DEF k
  <2>3. kernels'[newApp'.first].start = 0 /\ kernels'[newApp'.first].length = 0
    BY <2>1, <2>2, <2>k
  <2> QED
    BY <1>1, <1>2, <2>1, <2>3 DEF EndsInv
<1>4. CASE CloseApp
  <2> DEFINE app == [length |-> newApp.length, slow |-> newApp.slow,
                     first |-> newApp.first, last |-> N + 1]
             k   == NewKernel(AppId, Compute, newApp.length, 0, k_last)
  <2>1. /\ kernels' = Append(kernels, k) /\ Apps' = Append(Apps, app)
        /\ Open /\ ~Open'
    BY <1>4 DEF CloseApp, NewId, N, Open
  <2>2. kernels'[N + 1] = k
    BY <1>2, <2>1 DEF N
  <2>3. /\ Len(Apps') = Len(Apps) + 1 /\ Apps'[Len(Apps) + 1] = app
        /\ \A i \in 1..Len(Apps) : Apps'[i] = Apps[i]
    BY <1>2, <2>1
  <2>4. /\ app.first = newApp.first /\ app.last = N + 1 /\ app.length = newApp.length
        /\ k.start = newApp.length /\ k.length = 0
    BY DEF NewKernel
  <2> HIDE DEF app, k
  <2>5. \A i \in 1..(Len(Apps) + 1) : i \in 1..Len(Apps) \/ i = Len(Apps) + 1
    BY <1>2
  <2>6. newApp.first \in 1..N /\ kernels[newApp.first].start = 0 /\ kernels[newApp.first].length = 0
    BY <1>2, <2>1 DEF EndsInv
  <2>7. ASSUME NEW i \in 1..(Len(Apps) + 1)
        PROVE  /\ kernels'[Apps'[i].first].start = 0 /\ kernels'[Apps'[i].first].length = 0
               /\ kernels'[Apps'[i].last].start = Apps'[i].length
               /\ kernels'[Apps'[i].last].length = 0
    <3>1. CASE i \in 1..Len(Apps)
      BY <1>1, <1>2, <2>3, <3>1 DEF EndsInv
    <3>2. CASE i = Len(Apps) + 1
      BY <1>1, <2>2, <2>3, <2>4, <2>6, <3>2
    <3> QED
      BY <2>5, <3>1, <3>2
  <2> QED
    BY <2>1, <2>3, <2>7 DEF EndsInv
<1>5. CASE ~OpenApp /\ ~CloseApp
  <2>1. Apps' = Apps /\ newApp' = newApp /\ (Open' => Open)
    <3>1. CASE SkipMemset \/ InputDone \/ UNCHANGED inputVars
      BY <3>1 DEF SkipMemset, InputDone, inputVars, graph, Open
    <3>2. ASSUME NEW t \in KernelTypes, DropRow(t) \/ BadTime(t)
          PROVE  Apps' = Apps /\ newApp' = newApp /\ Open
      BY <3>2 DEF DropRow, BadTime, graph, ReadRow, Open
    <3>3. ASSUME NEW t \in KernelTypes, AfterLast(t) \/ AfterBrother(t) \/ AfterParent(t)
          PROVE  Apps' = Apps /\ newApp' = newApp /\ Open
      BY <3>3 DEF AfterLast, AfterBrother, AfterParent, HangBelow, ReadRow, Open
    <3> QED
      BY <1>5, <3>1, <3>2, <3>3 DEF InputNext
  <2> QED
    BY <1>1, <1>2, <2>1 DEF EndsInv
<1> QED
  BY <1>3, <1>4, <1>5
=============================================================================
