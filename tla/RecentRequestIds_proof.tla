----------------------- MODULE RecentRequestIds_proof -----------------------
(***************************************************************************)
(* RecentRequestIds remembers exactly the last NumTracked ids, for every   *)
(* size of the ring and any sequence of requests.                          *)
(***************************************************************************)
EXTENDS RecentRequestIds, TLAPS

\* How many insertions came before the ring's current round.
Round == Len(accepted) - nextIndex

\* What the ring holds: the slots below next_index_ were filled in this round,
\* the others in the round before or, in the first round, never.
RingHolds ==
  /\ Round = 0 \/ Round >= NumTracked
  /\ \A k \in Slots : k < nextIndex => ring[k] = accepted[Round + k + 1]
  /\ \A k \in Slots : k >= nextIndex /\ Round = 0 => ring[k] = 0
  /\ \A k \in Slots : k >= nextIndex /\ Round # 0 => ring[k] = accepted[Round - NumTracked + k + 1]

IdsInv == IdsTypeOK /\ RingHolds /\ TracksTheLast /\ NoRepeatInWindow

\* next_index_ goes around.
LEMMA NextSlot ==
  ASSUME NEW k \in Slots
  PROVE  (k + 1) % NumTracked = IF k + 1 = NumTracked THEN 0 ELSE k + 1
BY TrackingAssumption DEF Slots

LEMMA IdsInitially == IdsInit => IdsInv
BY TrackingAssumption DEF IdsInit, IdsInv, IdsTypeOK, RingHolds, Round, TracksTheLast,
                          NoRepeatInWindow, Slots

LEMMA InsertKeepsType ==
  ASSUME IdsTypeOK, NEW id \in Ids, Insert(id)
  PROVE  /\ IdsTypeOK'
         /\ Len(accepted') = Len(accepted) + 1
         /\ accepted'[Len(accepted) + 1] = id
         /\ \A k \in 1 .. Len(accepted) : accepted'[k] = accepted[k]
<1>1. nextIndex' \in Slots
  BY NextSlot, TrackingAssumption DEF Slots, Insert, IdsTypeOK
<1>2. accepted' \in Seq(Ids) /\ Len(accepted') = Len(accepted) + 1
      /\ accepted'[Len(accepted) + 1] = id
      /\ \A k \in 1 .. Len(accepted) : accepted'[k] = accepted[k]
  BY DEF Insert, IdsTypeOK
<1>3. idSet' \subseteq Ids /\ ring' \in [Slots -> Ids \cup {0}]
  BY DEF Insert, IdsTypeOK
<1> QED BY <1>1, <1>2, <1>3 DEF IdsTypeOK

\* What is forgotten is nothing, in the first round, and then the oldest id of
\* the window.
LEMMA ForgetsTheOldest ==
  ASSUME IdsInv
  PROVE  /\ Len(accepted) < NumTracked => ring[nextIndex] = 0
         /\ Len(accepted) >= NumTracked =>
              ring[nextIndex] = accepted[Len(accepted) - NumTracked + 1]
BY TrackingAssumption DEF IdsInv, IdsTypeOK, RingHolds, Round, Slots

LEMMA InsertKeepsRing ==
  ASSUME IdsInv, NEW id \in Ids, Insert(id)
  PROVE  RingHolds'
<1> USE TrackingAssumption
<1>1. /\ IdsTypeOK /\ IdsTypeOK' /\ Len(accepted) \in Nat
      /\ Len(accepted') = Len(accepted) + 1 /\ accepted'[Len(accepted) + 1] = id
      /\ \A k \in 1 .. Len(accepted) : accepted'[k] = accepted[k]
  BY InsertKeepsType DEF IdsInv, IdsTypeOK
<1>2. /\ ring' = [ring EXCEPT ![nextIndex] = id]
      /\ nextIndex' = IF nextIndex + 1 = NumTracked THEN 0 ELSE nextIndex + 1
      /\ nextIndex \in 0 .. NumTracked - 1
  BY <1>1, NextSlot DEF Insert, IdsTypeOK, Slots
<1>3. RingHolds BY DEF IdsInv
<1>4. \A k \in Slots : k # nextIndex => ring'[k] = ring[k]
  BY <1>1, <1>2 DEF IdsTypeOK
<1>5. ring'[nextIndex] = id
  BY <1>1, <1>2 DEF IdsTypeOK
<1>6. CASE nextIndex + 1 = NumTracked
  <2>1. nextIndex' = 0 /\ Round' = Round + NumTracked /\ Round \in Nat
    BY <1>1, <1>2, <1>3, <1>6 DEF RingHolds, Round
  <2>2. ASSUME NEW k \in Slots PROVE ring'[k] = accepted'[Round + k + 1]
    <3>1. CASE k = nextIndex
      BY <3>1, <1>1, <1>2, <1>5, <2>1 DEF Round
    <3>2. CASE k # nextIndex
      <4>1. k < nextIndex /\ k \in Nat BY <3>2, <1>2, <1>6 DEF Slots
      <4>2. ring'[k] = accepted[Round + k + 1] BY <4>1, <1>3, <1>4, <3>2 DEF RingHolds
      <4>3. Round + k + 1 \in 1 .. Len(accepted) BY <4>1, <2>1, <1>1, <1>2 DEF Round
      <4> QED BY <4>2, <4>3, <1>1
    <3> QED BY <3>1, <3>2
  <2>3. Round' - NumTracked = Round /\ Round' # 0 /\ Round' >= NumTracked
    BY <2>1
  <2>4. \A k \in Slots : ~ (k < nextIndex')
    BY <2>1 DEF Slots
  <2>5. \A k \in Slots : ring'[k] = accepted'[Round' - NumTracked + k + 1]
    BY <2>2, <2>3
  <2> QED BY <2>3, <2>4, <2>5 DEF RingHolds, Slots
<1>7. CASE nextIndex + 1 # NumTracked
  <2>1. nextIndex' = nextIndex + 1 /\ Round' = Round /\ Round \in Nat
    BY <1>1, <1>2, <1>3, <1>7 DEF RingHolds, Round
  <2>2. ASSUME NEW k \in Slots, k < nextIndex' PROVE ring'[k] = accepted'[Round + k + 1]
    <3>1. CASE k = nextIndex
      BY <3>1, <1>1, <1>2, <1>5, <2>1 DEF Round
    <3>2. CASE k # nextIndex
      <4>1. k < nextIndex /\ k \in Nat BY <3>2, <2>1, <2>2, <1>2 DEF Slots
      <4>2. ring'[k] = accepted[Round + k + 1] BY <4>1, <1>3, <1>4, <3>2 DEF RingHolds
      <4>3. Round + k + 1 \in 1 .. Len(accepted) BY <4>1, <2>1, <1>1, <1>2 DEF Round
      <4> QED BY <4>2, <4>3, <1>1
    <3> QED BY <3>1, <3>2
  <2>3. ASSUME NEW k \in Slots, k >= nextIndex' PROVE k # nextIndex /\ k >= nextIndex /\ k \in Nat
    BY <2>1, <2>3, <1>2 DEF Slots
  <2>4. ASSUME NEW k \in Slots, k >= nextIndex', Round = 0 PROVE ring'[k] = 0
    BY <2>3, <2>4, <1>3, <1>4 DEF RingHolds
  <2>5. ASSUME NEW k \in Slots, k >= nextIndex', Round # 0
        PROVE  ring'[k] = accepted'[Round - NumTracked + k + 1]
    <3>1. ring'[k] = accepted[Round - NumTracked + k + 1]
      BY <2>3, <2>5, <1>3, <1>4 DEF RingHolds
    <3>2. Round - NumTracked + k + 1 \in 1 .. Len(accepted)
      <4>1. Round >= NumTracked BY <2>5, <1>3 DEF RingHolds
      <4>2. k \in Nat /\ k < NumTracked BY DEF Slots
      <4> QED BY <4>1, <4>2, <2>1, <1>1, <1>2 DEF Round
    <3> QED BY <3>1, <3>2, <1>1
  <2>6. Round' = 0 \/ Round' >= NumTracked BY <1>3, <2>1 DEF RingHolds
  <2> QED BY <2>1, <2>2, <2>4, <2>5, <2>6 DEF RingHolds, Slots
<1> QED BY <1>6, <1>7

LEMMA InsertKeepsWindow ==
  ASSUME IdsInv, NEW id \in Ids, id \notin idSet, Insert(id)
  PROVE  TracksTheLast' /\ NoRepeatInWindow'
<1> USE TrackingAssumption
<1> DEFINE n == Len(accepted)
           W == {j \in 1 .. n : j > n - NumTracked}
           X == {j \in 1 .. n + 1 : j > n + 1 - NumTracked}
<1>1. /\ n \in Nat /\ Len(accepted') = n + 1 /\ accepted'[n + 1] = id
      /\ \A k \in 1 .. n : accepted'[k] = accepted[k] /\ accepted[k] \in Ids
  BY InsertKeepsType DEF IdsInv, IdsTypeOK
<1>2. idSet = {accepted[k] : k \in W}
  BY DEF IdsInv, TracksTheLast
<1>3. \A k \in W : accepted[k] # id
  BY <1>2
<1>4. NoRepeatInWindow'
  <2> SUFFICES ASSUME NEW j \in 1 .. n + 1, NEW k \in 1 .. n + 1, j < k,
                      accepted'[j] = accepted'[k]
               PROVE  k - j > NumTracked
    BY <1>1 DEF NoRepeatInWindow
  <2>1. CASE k \in 1 .. n
    BY <2>1, <1>1 DEF IdsInv, NoRepeatInWindow
  <2>2. CASE k = n + 1
    <3>1. j \in 1 .. n /\ accepted[j] = id BY <2>2, <1>1
    <3>2. j \notin W BY <3>1, <1>3
    <3> QED BY <3>1, <3>2, <2>2, <1>1
  <2> QED BY <2>1, <2>2, <1>1
<1>5. idSet' = {accepted'[k] : k \in X}
  <2>1. idSet' = (idSet \cup {id}) \ {ring[nextIndex]}
    BY DEF Insert
  <2>2. CASE n < NumTracked
    <3>1. ring[nextIndex] = 0 /\ 0 \notin Ids /\ idSet \subseteq Ids
      BY <2>2, ForgetsTheOldest DEF IdsInv, IdsTypeOK
    <3>2. idSet' = idSet \cup {id} BY <3>1, <2>1
    <3>3. W = 1 .. n /\ X = W \cup {n + 1} BY <2>2, <1>1
    <3>4. \A k \in W : accepted'[k] = accepted[k] BY <1>1, <3>3
    <3>5. {accepted'[k] : k \in X} = {accepted[k] : k \in W} \cup {id}
      BY <3>3, <3>4, <1>1
    <3> QED BY <3>2, <3>5, <1>2
  <2>3. CASE n >= NumTracked
    <3> DEFINE o == n - NumTracked + 1
    <3>1. ring[nextIndex] = accepted[o] /\ o \in 1 .. n
      BY <2>3, ForgetsTheOldest, <1>1
    <3>2. \A k \in W : k = o \/ k \in X
      BY <1>1, <2>3
    <3>3. \A k \in X : k = n + 1 \/ (k \in W /\ k # o)
      BY <1>1, <2>3
    <3>4. o \in W /\ n + 1 \in X BY <1>1, <2>3
    <3>5. \A k \in W : k # o => accepted[k] # accepted[o]
      <4> SUFFICES ASSUME NEW k \in W, k # o, accepted[k] = accepted[o] PROVE FALSE
        OBVIOUS
      <4>1. o < k /\ k - o < NumTracked BY <1>1
      <4> QED BY <4>1, <3>1 DEF IdsInv, NoRepeatInWindow
    <3>6. accepted[o] # id BY <3>4, <1>3
    <3>7. idSet' = ({accepted[k] : k \in W} \cup {id}) \ {accepted[o]}
      BY <2>1, <1>2, <3>1
    <3>8. \A k \in W : accepted'[k] = accepted[k] BY <1>1
    <3> HIDE DEF W, X, n, o
    <3>9. \A v \in idSet' : v \in {accepted'[k] : k \in X}
      BY <3>7, <3>2, <3>8, <1>1, <3>4
    <3>10. \A v \in {accepted'[k] : k \in X} : v \in idSet'
      BY <3>7, <3>3, <3>5, <3>6, <3>8, <1>1
    <3> QED BY <3>9, <3>10
  <2> QED BY <2>2, <2>3, <1>1
<1>6. TracksTheLast'
  BY <1>5, <1>1 DEF TracksTheLast
<1> QED BY <1>4, <1>6

LEMMA IdsUnchanged == IdsInv /\ UNCHANGED idVars => IdsInv'
BY DEF idVars, IdsInv, IdsTypeOK, RingHolds, Round, TracksTheLast, NoRepeatInWindow, Slots

LEMMA TrackUniqueKeeps ==
  ASSUME IdsInv, NEW id \in Ids \cup {0}, NEW accepts \in BOOLEAN, TrackUnique(id, accepts)
  PROVE  IdsInv'
<1>1. CASE accepts /\ id # 0
  <2>1. Insert(id) /\ id \in Ids /\ id \notin idSet
    BY <1>1 DEF TrackUnique
  <2> QED BY <2>1, InsertKeepsType, InsertKeepsRing, InsertKeepsWindow DEF IdsInv
<1>2. CASE ~ (accepts /\ id # 0)
  BY <1>2, IdsUnchanged DEF TrackUnique
<1> QED BY <1>1, <1>2

\* recent_request_ids.h promises to remember the last num_tracked_request_ids
\* ids: the set that TrackUnique asks holds those and no other, for every size.
THEOREM TracksTheLastAlways == IdsSpec => []TracksTheLast
<1>1. IdsInv /\ [IdsNext]_idVars => IdsInv'
  BY TrackUniqueKeeps, IdsUnchanged DEF IdsNext
<1>2. IdsInv => TracksTheLast BY DEF IdsInv
<1> QED BY <1>1, <1>2, IdsInitially, PTL DEF IdsSpec

\* Two acceptances of one id are more than num_tracked_request_ids insertions
\* apart: a retry that comes sooner is refused.
THEOREM NoRepeatAlways == IdsSpec => []NoRepeatInWindow
<1>1. IdsInv /\ [IdsNext]_idVars => IdsInv'
  BY TrackUniqueKeeps, IdsUnchanged DEF IdsNext
<1>2. IdsInv => NoRepeatInWindow BY DEF IdsInv
<1> QED BY <1>1, <1>2, IdsInitially, PTL DEF IdsSpec

=============================================================================
