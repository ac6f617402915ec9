----------------------------- MODULE GrpcSystem -----------------------------
(***************************************************************************)
(* A GrpcSession (distributed_runtime/rpc/grpc_session.cc) that several    *)
(* threads of a client use, its RPCs with CallWithRetry                    *)
(* (rpc/grpc_remote_master.cc), a network that loses and delays requests   *)
(* and answers, and a master that behaves like SessionService behind its   *)
(* RecentRequestIds and may restart.                                       *)
(*                                                                         *)
(* An attempt of an RPC is a record of net until its answer is taken.  A   *)
(* request that is never served is lost.  The client may see an attempt    *)
(* fail at any time, whether the master has answered it (the answer is     *)
(* lost), will have it late, or never will; a retry sends the same         *)
(* request, with the same id, again.  An error of the master is always     *)
(* possible and is not told apart by its code.  Run is the split Run of    *)
(* RunHelper; each slice is an RPC with an id of its own.                  *)
(***************************************************************************)
EXTENDS SessionService, RecentRequestIds, FiniteSets

CONSTANTS Threads,
          spl,           \* slices of a Run: run_options.split()
          kMaxRetries,   \* 10 in CallWithRetry
          Timed,         \* the calls have a timeout_in_ms
          MaxCalls,      \* bound: calls of the session's methods
          MaxFaults      \* bound: attempts that end without an answer, and
                         \* restarts of the master

ASSUME GrpcAssumption ==
  /\ spl \in Nat \ {0} /\ kMaxRetries \in Nat /\ Timed \in BOOLEAN
  /\ MaxCalls \in Nat /\ MaxFaults \in Nat /\ Requests = Ids

VARIABLES
  handle,       \* handle_
  version,      \* current_graph_version_
  mu,           \* who holds mu_ across an RPC: a thread in ExtendImpl, or none
  at,           \* where each thread is
  want,         \* the request its RPC sends
  tries,        \* its num_retries
  sc,           \* its slice, in RunHelper
  used,         \* history: the sessions that ran the answered slices of its Run
  net,          \* attempts under way
  nextId,       \* GetUniqueRequestId
  nCalls, faults,
  forgotten,    \* history: ids that dropped out of the master's ring
  ran,          \* history: how often the master began the step of each id
  doubt,        \* history: kind and session of requests that ended in an error,
                \* or in none: UNAVAILABLE or the deadline
  dropped,      \* history: handles given up by Close
  overlapped    \* history: a Create began while another was under way

clientVars == <<handle, version, mu, at, want, tries, sc, used, nCalls, nextId, doubt, dropped, overlapped>>
gVars == <<serviceVars, idVars, clientVars, net, faults, forgotten, ran>>

None   == "none"
ASSUME NoneAssumption == None \notin Sessions \cup Threads

NoWant == [kind |-> None, session |-> None, version |-> 0, id |-> 0, call |-> 0]

\* A request of the call that is now the last one made.
Request(kind, s, v, id) == [kind |-> kind, session |-> s, version |-> v, id |-> id, call |-> nCalls]

\* A new GrpcSession, or one whose Create has returned.
Start ==
  \/ handle = None /\ version = -1 /\ ServiceInit
  \/ /\ handle \in Sessions /\ version = 0
     /\ phase = [s \in Sessions |-> IF s = handle THEN "open" ELSE "none"]
     /\ graphVersion = [s \in Sessions |-> 0] /\ steps = [s \in Sessions |-> {}]

GInit ==
  /\ Start /\ IdsInit /\ mu = None
  /\ at = [t \in Threads |-> "idle"] /\ want = [t \in Threads |-> NoWant]
  /\ tries = [t \in Threads |-> 0] /\ sc = [t \in Threads |-> 0]
  /\ used = [t \in Threads |-> << >>]
  /\ net = {} /\ nextId = 1 /\ nCalls = 0 /\ faults = 0
  /\ ran = [i \in Ids |-> 0] /\ forgotten = {} /\ doubt = {} /\ dropped = {} /\ overlapped = FALSE

---------------------------------------------------------------------------
(* The client.                                                             *)

Free == mu = None

Fault == faults < MaxFaults /\ faults' = faults + 1

\* The attempt that thread t waits for.
NoReply == [session |-> None, version |-> 0]
Attempt(t, w, n) == [thread |-> t, want |-> w, try |-> n, state |-> "sent", reply |-> NoReply]
Waits(t, a) == /\ at[t] = "rpc" /\ a.thread = t /\ a.want = want[t] /\ a.try = tries[t]

\* master_->Method: the first attempt.
Send(t, w) ==
  /\ want' = [want EXCEPT ![t] = w] /\ tries' = [tries EXCEPT ![t] = 0]
  /\ at' = [at EXCEPT ![t] = "rpc"]
  /\ net' = net \cup {Attempt(t, w, 0)}

Go(t, next) == at' = [at EXCEPT ![t] = next]

\* The method returns to its caller.
Return(t) ==
  /\ Go(t, "idle")
  /\ want' = [want EXCEPT ![t] = NoWant] /\ tries' = [tries EXCEPT ![t] = 0]
  /\ sc' = [sc EXCEPT ![t] = 0] /\ used' = [used EXCEPT ![t] = << >>]

\* A thread calls Create, Extend, Run or Close.
Call(t, method) ==
  /\ at[t] = "idle" /\ nCalls < MaxCalls
  /\ nCalls' = nCalls + 1 /\ Go(t, method)
  /\ UNCHANGED <<handle, version, mu, want, tries, sc, used, nextId, doubt, dropped, overlapped,
                 serviceVars, idVars, net, faults, forgotten, ran>>

\* handle_ is not tested.
CreateImpl_NoTest(t) ==
  /\ at[t] = "Create" /\ Free
  /\ Send(t, Request("Create", None, 0, 0))
  /\ overlapped' = (overlapped \/ \E u \in Threads : want[u].kind = "Create")
  /\ UNCHANGED <<handle, version, mu, nextId, nCalls, doubt, dropped, sc, used, serviceVars, idVars,
                 faults, forgotten, ran>>

\* CreateImpl up to its RPC: mu_ is released before it.
CreateImpl(t) ==
  /\ at[t] = "Create" /\ Free
  /\ \/ /\ handle # None /\ Return(t) /\ UNCHANGED net
     \/ /\ handle = None
        /\ Send(t, Request("Create", None, 0, 0))
        /\ UNCHANGED <<sc, used>>
  /\ overlapped' = (overlapped \/ \E u \in Threads : want[u].kind = "Create")
  /\ UNCHANGED <<handle, version, mu, nextId, nCalls, doubt, dropped, serviceVars, idVars, faults, forgotten, ran>>

\* ExtendImpl: without a handle it is Create,
ExtendTest(t) ==
  /\ at[t] = "Extend" /\ Free
  /\ Go(t, IF handle = None THEN "Create" ELSE "ExtendLocked")
  /\ UNCHANGED <<handle, version, mu, want, tries, sc, used, nextId, nCalls, doubt, dropped, overlapped,
                 serviceVars, idVars, net, faults, forgotten, ran>>

\* else it takes mu_ again, sends what handle_ and the version now are, and keeps
\* mu_ until it is answered.
ExtendSend(t) ==
  /\ at[t] = "ExtendLocked" /\ Free
  /\ mu' = t
  /\ Send(t, Request("Extend", handle, version, 0))
  /\ UNCHANGED <<handle, version, sc, used, nextId, nCalls, doubt, dropped, overlapped,
                 serviceVars, idVars, faults, forgotten, ran>>

\* RunHelper, one slice: RunProto reads the handle anew.
RunSlice(t) ==
  /\ at[t] = "Run" /\ Free
  /\ \/ /\ handle = None /\ Return(t) /\ UNCHANGED <<net, nextId>>
     \/ /\ handle # None /\ nextId \in Ids
        /\ Send(t, Request("Run", handle, 0, nextId))
        /\ nextId' = nextId + 1
        /\ UNCHANGED <<sc, used>>
  /\ UNCHANGED <<handle, version, mu, nCalls, doubt, dropped, overlapped, serviceVars, idVars, faults, forgotten, ran>>

\* The master is not told.
Close_Silent(t) ==
  /\ at[t] = "Close" /\ Free
  /\ Return(t)
  /\ handle' = None /\ dropped' = dropped \cup ({handle} \ {None})
  /\ UNCHANGED <<version, mu, nextId, nCalls, doubt, overlapped, net, serviceVars, idVars, faults,
                 forgotten, ran>>

\* Close: the handle is given up before the RPC.
Close(t) ==
  /\ at[t] = "Close" /\ Free
  /\ \/ /\ handle = None /\ Return(t) /\ UNCHANGED net
     \/ /\ handle # None
        /\ Send(t, Request("Close", handle, 0, 0))
        /\ UNCHANGED <<sc, used>>
  /\ handle' = None /\ dropped' = dropped \cup ({handle} \ {None})
  /\ UNCHANGED <<version, mu, nextId, nCalls, doubt, overlapped, serviceVars, idVars, faults, forgotten, ran>>

Unlock(t) == mu' = IF mu = t THEN None ELSE mu

Doubts(t) == doubt' = doubt \cup {<<want[t].kind, want[t].session>>}

\* mu_ stays locked after an error.
Fails_Locked(t) ==
  /\ Return(t) /\ Doubts(t)
  /\ UNCHANGED <<handle, version, mu, nextId, nCalls, dropped, overlapped>>

\* The RPC returned an error: so does the method.
Fails(t) ==
  /\ Return(t) /\ Unlock(t) /\ Doubts(t)
  /\ UNCHANGED <<handle, version, nextId, nCalls, dropped, overlapped>>

\* CreateImpl after its RPC: SetHandleAndGraphVersion, whatever handle_ now is.
SetHandleAndGraphVersion(t, s) ==
  /\ Free
  /\ handle' = s /\ version' = 0
  /\ Go(t, "idle")
  /\ want' = [want EXCEPT ![t] = NoWant] /\ tries' = [tries EXCEPT ![t] = 0]
  /\ UNCHANGED <<mu, sc, used, nextId, nCalls, doubt, dropped, overlapped>>

MoreSlices(t) == sc[t] + 1 < spl

\* ExtendImpl after its RPC, without current_graph_version_.
ExtendDone_NoVersion(t, reply) ==
  /\ Return(t) /\ Unlock(t)
  /\ UNCHANGED <<handle, version, nextId, nCalls, doubt, dropped, overlapped>>

ExtendDone(t, reply) ==
  /\ version' = reply.version /\ Return(t) /\ Unlock(t)
  /\ UNCHANGED <<handle, nextId, nCalls, doubt, dropped, overlapped>>

\* RunHelper with the answer to a slice: the next one, or the end.
SliceDone(t) ==
  /\ \/ /\ MoreSlices(t) /\ Go(t, "Run")
        /\ sc' = [sc EXCEPT ![t] = @ + 1]
        /\ used' = [used EXCEPT ![t] = Append(@, want[t])]
        /\ UNCHANGED <<want, tries>>
     \/ ~MoreSlices(t) /\ Return(t)
  /\ UNCHANGED <<handle, version, mu, nextId, nCalls, doubt, dropped, overlapped>>

Succeeds(t, reply) ==
  \/ want[t].kind = "Create" /\ SetHandleAndGraphVersion(t, reply.session)
  \/ want[t].kind = "Extend" /\ ExtendDone(t, reply)
  \/ want[t].kind = "Run" /\ SliceDone(t)
  \/ want[t].kind = "Run" /\ sc[t] = 0 /\ Fails(t)   \* a tensor that was not asked for
  \/ /\ want[t].kind = "Close" /\ Return(t)
     /\ UNCHANGED <<handle, version, mu, nextId, nCalls, doubt, dropped, overlapped>>

\* The status in the response body is not looked at.
Receive_IgnoresError(t) ==
  \E a \in net :
    /\ Waits(t, a) /\ a.state \in {"ok", "error"}
    /\ net' = net \ {a}
    /\ Succeeds(t, a.reply)
    /\ UNCHANGED <<serviceVars, idVars, faults, forgotten, ran>>

\* The answer arrives.
Receive(t) ==
  \E a \in net :
    /\ Waits(t, a)
    /\ net' = net \ {a}
    /\ \/ a.state = "error" /\ Fails(t)
       \/ a.state = "ok" /\ Succeeds(t, a.reply)
    /\ UNCHANGED <<serviceVars, idVars, faults, forgotten, ran>>

\* What is under way when thread t stops waiting: an answer is lost.
Abandoned(t) == {a \in net : ~(Waits(t, a) /\ a.state \in {"ok", "error"})}

\* CallWithRetry: UNAVAILABLE; the attempt is left to its fate.  It is repeated
\* kMaxRetries times.
Retry(t) ==
  /\ at[t] = "rpc" /\ tries[t] < kMaxRetries /\ Fault
  /\ tries' = [tries EXCEPT ![t] = @ + 1]
  /\ net' = Abandoned(t) \cup {Attempt(t, want[t], tries[t] + 1)}
  /\ Doubts(t)
  /\ UNCHANGED <<handle, version, mu, at, want, sc, used, nextId, nCalls, dropped, overlapped,
                 serviceVars, idVars, forgotten, ran>>

\* The last retry failed, or the deadline passed.
GiveUp(t) ==
  /\ at[t] = "rpc" /\ Fault
  /\ tries[t] = kMaxRetries \/ Timed
  /\ Fails(t) /\ net' = Abandoned(t)
  /\ UNCHANGED <<serviceVars, idVars, forgotten, ran>>

---------------------------------------------------------------------------
(* The network and the master.                                             *)

\* The master answers attempt a; nobody listens if the client has given it up.
Answer(a, outcome, reply) ==
  net' = (net \ {a}) \cup (IF \E t \in Threads : Waits(t, a)
                          THEN {[a EXCEPT !.state = outcome, !.reply = reply]} ELSE {})

Begun(a) == net' = (net \ {a}) \cup {[a EXCEPT !.state = "serving"]}

\* Any request may fail: no such session, a bad graph, a failing worker.
Refuse(a) ==
  /\ a.state = "sent" /\ a.want.kind # "Run"
  /\ Answer(a, "error", NoReply)
  /\ UNCHANGED <<serviceVars, idVars, clientVars, faults, forgotten, ran>>

\* Handles are random numbers: some handle that was never given out.
NewHandle == CHOOSE s \in Sessions : phase[s] = "none"

ServeCreate(a) ==
  /\ a.state = "sent" /\ a.want.kind = "Create" /\ \E s \in Sessions : phase[s] = "none"
  /\ OpenSession(NewHandle)
  /\ Answer(a, "ok", [session |-> NewHandle, version |-> 0])
  /\ UNCHANGED <<idVars, clientVars, faults, forgotten, ran>>

\* MasterSession::Extend does not compare versions.
ServeExtend_NoCheck(a) ==
  /\ a.state = "sent" /\ a.want.kind = "Extend" /\ a.want.session \in Sessions
  /\ ExtendGraph(a.want.session)
  /\ Answer(a, "ok", [session |-> None, version |-> graphVersion[a.want.session] + 1])
  /\ UNCHANGED <<idVars, clientVars, faults, forgotten, ran>>

ServeExtend(a) ==
  /\ a.state = "sent" /\ a.want.kind = "Extend" /\ a.want.session \in Sessions
  /\ a.want.version = graphVersion[a.want.session]
  /\ ExtendGraph(a.want.session)
  /\ Answer(a, "ok", [session |-> None, version |-> graphVersion[a.want.session] + 1])
  /\ UNCHANGED <<idVars, clientVars, faults, forgotten, ran>>

\* Master::RunStep: TrackUnique, then the session.
ServeRun(a) ==
  /\ a.state = "sent" /\ a.want.kind = "Run"
  /\ \/ /\ TrackUnique(a.want.id, FALSE)
        /\ Answer(a, "error", NoReply)
        /\ UNCHANGED <<serviceVars, forgotten, ran>>
     \/ /\ TrackUnique(a.want.id, TRUE)
        /\ forgotten' = forgotten \cup ({ring[nextIndex]} \ {0})
        /\ \/ Answer(a, "error", NoReply) /\ UNCHANGED <<serviceVars, ran>>
           \/ /\ BeginStep(a.want.id, a.want.session)
              /\ ran' = [ran EXCEPT ![a.want.id] = @ + 1]
              /\ Begun(a)
  /\ UNCHANGED <<clientVars, faults>>

\* The step is over, well or not.
EndRun(a) ==
  /\ a.state = "serving" /\ a.want.kind = "Run"
  /\ EndStep(a.want.id, a.want.session)
  /\ Answer(a, "ok", NoReply) \/ Answer(a, "error", NoReply)
  /\ UNCHANGED <<idVars, clientVars, faults, forgotten, ran>>

ServeClose(a) ==
  /\ a.state = "sent" /\ a.want.kind = "Close"
  /\ BeginClose(a.want.session)
  /\ Begun(a)
  /\ UNCHANGED <<idVars, clientVars, faults, forgotten, ran>>

EndClose(a) ==
  /\ a.state = "serving" /\ a.want.kind = "Close"
  /\ Drain(a.want.session)
  /\ Answer(a, "ok", NoReply)
  /\ UNCHANGED <<idVars, clientVars, faults, forgotten, ran>>

\* The master's process is replaced: no session, no memory of request ids, no
\* answer to what was being served.
Restart ==
  /\ Fault
  /\ phase' = [s \in Sessions |-> IF phase[s] = "none" THEN "none" ELSE "gone"]
  /\ steps' = [s \in Sessions |-> {}]
  /\ idSet' = {} /\ nextIndex' = 0 /\ ring' = [k \in Slots |-> 0] /\ accepted' = << >>
  /\ net' = {a \in net : a.state # "serving"}
  /\ UNCHANGED <<graphVersion, clientVars, forgotten, ran>>

Serve(a) ==
  \/ Refuse(a) \/ ServeCreate(a) \/ ServeExtend(a) \/ ServeRun(a) \/ EndRun(a)
  \/ ServeClose(a) \/ EndClose(a)

ThreadStep(t) ==
  \/ CreateImpl(t) \/ ExtendTest(t) \/ ExtendSend(t) \/ RunSlice(t) \/ Close(t)

RpcEnds(t) == Receive(t) \/ Retry(t) \/ GiveUp(t)

GNext ==
  \/ \E t \in Threads :
       \/ ThreadStep(t) \/ RpcEnds(t)
       \/ \E method \in {"Create", "Extend", "Run", "Close"} : Call(t, method)
  \/ \E a \in net : Serve(a)
  \/ Restart

GSpec == GInit /\ [][GNext]_gVars

---------------------------------------------------------------------------
(* Properties.                                                             *)

Wants == [kind : {None, "Create", "Extend", "Run", "Close"}, session : Sessions \cup {None},
          version : -1 .. MaxCalls, id : Ids \cup {0}, call : 0 .. MaxCalls]

\* Types of the state of grpc_session.h and of the RPCs.  Of mu_: beyond a
\* critical section only a thread that waits for the answer to its Extend keeps
\* it, and no longer than it waits.  That RPC may take for ever, and the others
\* with it.
GTypeOK ==
  /\ IdsTypeOK
  /\ handle \in Sessions \cup {None} /\ version \in -1 .. MaxCalls
  /\ mu \in {t \in Threads : at[t] = "rpc" /\ want[t].kind = "Extend"} \cup {None}
  /\ at \in [Threads -> {"idle", "Create", "Extend", "ExtendLocked", "Run", "Close", "rpc"}]
  /\ want \in [Threads -> Wants] /\ tries \in [Threads -> 0 .. kMaxRetries]
  /\ sc \in [Threads -> 0 .. spl - 1] /\ nextId \in Nat
  /\ \A a \in net : /\ a.thread \in Threads /\ a.want \in Wants /\ a.try \in 0 .. kMaxRetries
                   /\ a.state \in {"sent", "serving", "ok", "error"}
  /\ \A t \in Threads : Len(used[t]) = sc[t] /\ (at[t] = "idle" => want[t] = NoWant)

\* An Extend that the master carried out and whose answer the client still awaits.
ExtendAnswered ==
  \E a \in net, t \in Threads : Waits(t, a) /\ a.want.kind = "Extend" /\ a.state = "ok"

Behind == handle \in Sessions /\ version < graphVersion[handle] /\ ~ExtendAnswered

\* current_graph_version_ is the version of the master's graph; it falls behind
\* only by an Extend of that session that ended in an error for the client, with or
\* without an answer of the master, and is never ahead.
BehindOnlyInDoubt ==
  /\ handle \in Sessions => version <= graphVersion[handle]
  /\ Behind => <<"Extend", handle>> \in doubt

\* There is no way back: a client that is behind cannot extend its session any
\* more, not even by a late or repeated attempt, until it has another handle.
BehindForGood ==
  [][Behind /\ handle' = handle =>
       version' = version /\ graphVersion'[handle] = graphVersion[handle]]_gVars

\* A slice, however often it is retried, delayed or met by a restarted master,
\* is one step: it is run again only if NumTracked other requests or more came
\* between and the master had forgotten its id.
StepRunsOnce == \A i \in Ids : ran[i] > 1 => i \in forgotten

\* Every slice of a Run that was answered was run, before the next was sent.
AnsweredSlicesRan ==
  \A t \in Threads : \A k \in 1 .. Len(used[t]) :
    /\ ran[used[t][k].id] > 0
    /\ at[t] = "rpc" => used[t][k].id < want[t].id

\* The slices of a Run are steps of one session, though each reads the handle
\* again, unless another thread closed that session meanwhile or two Creates
\* overlapped.
SlicesShareSession ==
  \A t \in Threads : \A k \in 1 .. Len(used[t]) :
    at[t] = "rpc" /\ used[t][k].session # want[t].session =>
      used[t][k].session \in dropped \/ overlapped

\* A session that is open and not the client's has a cause: a Create overlapped
\* another and replaced its handle, a Create or a Close was left unanswered or
\* failed, or one of them is still under way.
OrphansExplained ==
  \A s \in Sessions : phase[s] = "open" /\ handle # s =>
    \/ overlapped \/ <<"Create", None>> \in doubt \/ <<"Close", s>> \in doubt
    \/ \E t \in Threads : want[t].kind = "Create" \/ (want[t].kind = "Close" /\ want[t].session = s)

=============================================================================
