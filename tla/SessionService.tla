--------------------------- MODULE SessionService ---------------------------
(***************************************************************************)
(* What a master promises of a session to its clients, with none of the    *)
(* machinery of master.cc and master_session.cc: a session is open, then   *)
(* closed, and at last gone; steps begin only while it is open; its graph  *)
(* only grows; whoever closes it waits until it is drained, and it goes    *)
(* only when no step is left.  Requests name the steps a master has in     *)
(* hand.  Master.tla implements this module; GrpcSystem.tla is the client  *)
(* of a service that behaves like it.                                      *)
(***************************************************************************)
EXTENDS Naturals

CONSTANTS Sessions, Requests

VARIABLES
  phase,          \* none, open, closed, drained, gone
  graphVersion,   \* extensions of each session's graph
  steps           \* requests that are a step of each session

serviceVars == <<phase, graphVersion, steps>>

ServiceInit ==
  /\ phase = [s \in Sessions |-> "none"]
  /\ graphVersion = [s \in Sessions |-> 0]
  /\ steps = [s \in Sessions |-> {}]

OpenSession(s) ==
  /\ phase[s] = "none"
  /\ phase' = [phase EXCEPT ![s] = "open"]
  /\ UNCHANGED <<graphVersion, steps>>

ExtendGraph(s) ==
  /\ phase[s] = "open"
  /\ graphVersion' = [graphVersion EXCEPT ![s] = @ + 1]
  /\ UNCHANGED <<phase, steps>>

BeginStep(r, s) ==
  /\ phase[s] = "open" /\ \A t \in Sessions : r \notin steps[t]
  /\ steps' = [steps EXCEPT ![s] = @ \cup {r}]
  /\ UNCHANGED <<phase, graphVersion>>

EndStep(r, s) ==
  /\ r \in steps[s]
  /\ steps' = [steps EXCEPT ![s] = @ \ {r}]
  /\ UNCHANGED <<phase, graphVersion>>

BeginClose(s) ==
  /\ phase[s] = "open"
  /\ phase' = [phase EXCEPT ![s] = "closed"]
  /\ UNCHANGED <<graphVersion, steps>>

\* Close has waited for the steps and gives up what the session keeps.
Drain(s) ==
  /\ phase[s] = "closed" /\ steps[s] = {}
  /\ phase' = [phase EXCEPT ![s] = "drained"]
  /\ UNCHANGED <<graphVersion, steps>>

\* The session is deleted: drained by a Close, or collected.
Vanish(s) ==
  /\ phase[s] \in {"closed", "drained"} /\ steps[s] = {}
  /\ phase' = [phase EXCEPT ![s] = "gone"]
  /\ UNCHANGED <<graphVersion, steps>>

ServiceNext ==
  \E s \in Sessions :
    \/ OpenSession(s) \/ ExtendGraph(s) \/ BeginClose(s) \/ Drain(s) \/ Vanish(s)
    \/ \E r \in Requests : BeginStep(r, s) \/ EndStep(r, s)

ServiceSpec == ServiceInit /\ [][ServiceNext]_serviceVars

=============================================================================
