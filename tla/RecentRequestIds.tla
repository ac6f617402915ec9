-------------------------- MODULE RecentRequestIds --------------------------
(***************************************************************************)
(* tensorflow/core/distributed_runtime/recent_request_ids.{h,cc}: the      *)
(* memory by which a master refuses a request that it has already had.  A  *)
(* set answers the question, a ring of NumTracked ids says which to forget *)
(* next.  Every insertion is one section under mu_.                        *)
(***************************************************************************)
EXTENDS Integers, Sequences

CONSTANTS Ids,          \* request ids; 0 is none, and is never tracked
          NumTracked    \* num_tracked_request_ids, 10000 in master.cc

ASSUME TrackingAssumption == NumTracked \in Nat \ {0} /\ Ids \subseteq Nat \ {0}

VARIABLES
  idSet,      \* set_
  ring,       \* circular_buffer_
  nextIndex,  \* next_index_
  accepted    \* history: the ids inserted since the object was made

idVars == <<idSet, ring, nextIndex, accepted>>

Slots == 0 .. NumTracked - 1

IdsInit ==
  /\ idSet = {} /\ nextIndex = 0 /\ accepted = << >>
  /\ ring = [k \in Slots |-> 0]

\* The new id is put in the ring but the old one stays in the set.
Insert_NoErase(id) ==
  /\ idSet' = idSet \cup {id}
  /\ ring' = [ring EXCEPT ![nextIndex] = id]
  /\ nextIndex' = (nextIndex + 1) % NumTracked
  /\ accepted' = Append(accepted, id)

\* Insert, of an id that the set lacks.
Insert(id) ==
  /\ idSet' = (idSet \cup {id}) \ {ring[nextIndex]}
  /\ ring' = [ring EXCEPT ![nextIndex] = id]
  /\ nextIndex' = (nextIndex + 1) % NumTracked
  /\ accepted' = Append(accepted, id)

\* Whatever comes is accepted.
TrackUnique_NoTest(id, accepts) ==
  /\ accepts
  /\ IF id # 0 THEN Insert(id) ELSE UNCHANGED idVars

\* TrackUnique: accepts is what it says of the request.
TrackUnique(id, accepts) ==
  /\ accepts = (id = 0 \/ id \notin idSet)
  /\ IF accepts /\ id # 0 THEN Insert(id) ELSE UNCHANGED idVars

IdsNext == \E id \in Ids \cup {0}, accepts \in BOOLEAN : TrackUnique(id, accepts)

IdsSpec == IdsInit /\ [][IdsNext]_idVars

---------------------------------------------------------------------------
(* Properties.                                                             *)

\* Types of recent_request_ids.h.
IdsTypeOK ==
  /\ idSet \subseteq Ids /\ ring \in [Slots -> Ids \cup {0}]
  /\ nextIndex \in Slots /\ accepted \in Seq(Ids)

\* recent_request_ids.h:56: an id is refused exactly when it is one of the last
\* NumTracked inserted, however the set and the ring have wrapped around.
TracksTheLast ==
  idSet = {accepted[k] : k \in {j \in 1 .. Len(accepted) : j > Len(accepted) - NumTracked}}

\* No id is accepted twice within NumTracked insertions.
NoRepeatInWindow ==
  \A j, k \in 1 .. Len(accepted) : j < k /\ accepted[j] = accepted[k] => k - j > NumTracked

=============================================================================
