-------------------------- MODULE GrpcSystem_proof --------------------------
(***************************************************************************)
(* The GrpcSession, its retried RPCs and the master keep the properties of *)
(* GrpcSystem, for any number of threads, sessions, slices and retries.    *)
(* GInv is inductive; its parts say what an attempt still on its way can   *)
(* mean to a client that may have forgotten it.                            *)
(***************************************************************************)
EXTENDS GrpcSystem, RecentRequestIds_proof, FiniteSetTheorems

Places == {"idle", "Create", "Extend", "ExtendLocked", "Run", "Close", "rpc"}
States == {"sent", "serving", "ok", "error"}
Phases == {"none", "open", "closed", "drained", "gone"}
Replies == [session : Sessions \cup {None}, version : Nat]
Attempts == [thread : Threads, want : Wants, try : 0 .. kMaxRetries, state : States, reply : Replies]

ClientTypes ==
  /\ handle \in Sessions \cup {None} /\ version \in -1 .. MaxCalls
  /\ mu \in {t \in Threads : at[t] = "rpc" /\ want[t].kind = "Extend"} \cup {None}
  /\ at \in [Threads -> Places] /\ want \in [Threads -> Wants]
  /\ tries \in [Threads -> 0 .. kMaxRetries] /\ sc \in [Threads -> 0 .. spl - 1]
  /\ nextId \in Nat \ {0} /\ nCalls \in 0 .. MaxCalls /\ overlapped \in BOOLEAN
  /\ used \in [Threads -> Seq(Wants)] /\ \A t \in Threads : Len(used[t]) = sc[t]

MasterTypes ==
  /\ phase \in [Sessions -> Phases] /\ graphVersion \in [Sessions -> Nat]
  /\ ran \in [Ids -> Nat] /\ forgotten \subseteq Ids

NetTypes == net \subseteq Attempts

\* The requests that threads or attempts carry.
LiveWants == {a.want : a \in net} \cup {want[t] : t \in Threads}

\* What a request of each kind names: a session that has been given out, an id
\* that has been taken, a call that has been made.
Shaped(w) ==
  /\ w.kind = "Create" => w.session = None
  /\ w.kind \in {"Run", "Close"} => w.session \in Sessions
  /\ w.kind = "Run" => w.id \in Ids /\ w.id < nextId
  /\ w.call <= nCalls
  /\ w.session \in Sessions => phase[w.session] # "none"

WantInv ==
  /\ \A w \in LiveWants : Shaped(w)
  /\ \A t \in Threads : at[t] \notin {"rpc", "Run"} => want[t] = NoWant
  /\ \A t \in Threads : at[t] = "Run" => want[t].kind \in {None, "Run"}
  /\ \A t \in Threads : at[t] = "rpc" => want[t].kind # None
  /\ \A t \in Threads : sc[t] # 0 => at[t] \in {"Run", "rpc"} /\ want[t].kind = "Run"
  /\ handle \in Sessions => phase[handle] # "none"

\* Its thread waits for attempt a.
Awaited(a) == at[a.thread] = "rpc" /\ a.want = want[a.thread] /\ a.try = tries[a.thread]

Started == {"Create", "Extend", "ExtendLocked", "Close"}

\* A request is new when it is sent, and a retry has a number of its own: of the
\* attempts under way at most one is the one a thread waits for.
NetInv ==
  /\ \A a, b \in net : a.thread = b.thread /\ a.want = b.want /\ a.try = b.try => a = b
  /\ \A a \in net : at[a.thread] \in Started /\ a.want.kind # "Run" => a.want.call < nCalls
  /\ \A a \in net : at[a.thread] = "rpc" /\ a.want = want[a.thread] => a.try <= tries[a.thread]
  /\ \A a \in net : a.want.kind # None

\* Whatever is under way and nobody waits for is in doubt.
DoubtInv ==
  \A a \in net : Awaited(a) \/ <<a.want.kind, a.want.session>> \in doubt

\* Only the holder of mu_ waits for an Extend, and nothing it sent has changed.
MuInv ==
  \A t \in Threads : at[t] = "rpc" /\ want[t].kind = "Extend" =>
    mu = t /\ want[t].session = handle /\ want[t].version = version

\* The client is behind by at most one Extend, one that is in doubt, and no
\* attempt knows more than the client does.
ExtendInv ==
  /\ handle \in Sessions => version <= graphVersion[handle] /\ graphVersion[handle] <= version + 1
  /\ \A w \in LiveWants :
       w.kind = "Extend" /\ w.session \in Sessions /\ w.session = handle => w.version <= version
  /\ \A a \in net : a.want.kind = "Extend" /\ a.state = "ok" =>
       /\ a.want.session \in Sessions /\ a.reply.version = a.want.version + 1
       /\ a.reply.version <= graphVersion[a.want.session]
  /\ Behind => <<"Extend", handle>> \in doubt

\* The handle that an answer to Create brings is known to nobody else.
FreshInv ==
  /\ \A a \in net : a.want.kind = "Create" /\ a.state = "ok" =>
       /\ a.reply.session \in Sessions /\ a.reply.session # handle
       /\ phase[a.reply.session] # "none" /\ graphVersion[a.reply.session] = 0
       /\ \A w \in LiveWants : w.session # a.reply.session
       /\ \A b \in net :
            b.want.kind = "Create" /\ b.state = "ok" /\ b.reply.session = a.reply.session => b = a
  /\ \A s \in Sessions : phase[s] = "none" => graphVersion[s] = 0

\* A slice that was begun is remembered, forgotten, or its session is over.
RanInv ==
  /\ \A i \in Ids : i >= nextId => ran[i] = 0
  /\ \A w \in LiveWants : w.kind = "Run" /\ ran[w.id] > 0 =>
       w.id \in idSet \/ w.id \in forgotten \/ phase[w.session] # "open"
  /\ \A a \in net : a.want.kind = "Run" /\ a.state \in {"serving", "ok"} => ran[a.want.id] > 0
  /\ StepRunsOnce

\* The client's handle, or one it gave up or replaced.
Settled == {s \in Sessions : s = handle \/ s \in dropped \/ overlapped}

UsedInv ==
  /\ \A t \in Threads : want[t].kind = "Run" => want[t].session \in Settled
  /\ \A t \in Threads : \A k \in 1 .. Len(used[t]) :
       /\ used[t][k].session \in Settled /\ used[t][k].id \in Ids
       /\ used[t][k].id < nextId /\ ran[used[t][k].id] > 0
  /\ AnsweredSlicesRan /\ SlicesShareSession

OverlapInv ==
  /\ \A t, u \in Threads : want[t].kind = "Create" /\ want[u].kind = "Create" /\ t # u => overlapped
  /\ \A t \in Threads : want[t].kind = "Create" /\ handle # None => overlapped

\* A Close that was begun has closed, and every open session that is not the
\* client's has a cause: as OrphansExplained, with the answer that is awaited.
ClosedInv ==
  /\ \A a \in net : a.want.kind = "Close" /\ a.state \in {"serving", "ok"} =>
       phase[a.want.session] \notin {"none", "open"}
  /\ \A s \in Sessions : phase[s] = "open" /\ handle # s =>
       \/ overlapped \/ <<"Create", None>> \in doubt \/ <<"Close", s>> \in doubt
       \/ \E t \in Threads : at[t] = "rpc" /\ want[t].kind = "Close" /\ want[t].session = s
       \/ \E a \in net : Awaited(a) /\ a.want.kind = "Create" /\ a.state = "ok" /\ a.reply.session = s

\* The calls of Extend that are under way; each raises the version once at most.
Extending ==
  {t \in Threads : at[t] \in {"Extend", "ExtendLocked"} \/ (at[t] = "rpc" /\ want[t].kind = "Extend")}

CountInv ==
  /\ IsFiniteSet(Extending)
  /\ Cardinality(Extending) <= nCalls /\ version + Cardinality(Extending) <= nCalls

GTypes == IdsInv /\ ClientTypes /\ MasterTypes /\ NetTypes

GInv ==
  /\ GTypes /\ WantInv /\ NetInv /\ DoubtInv /\ MuInv /\ ExtendInv /\ FreshInv
  /\ RanInv /\ UsedInv /\ OverlapInv /\ ClosedInv /\ CountInv

---------------------------------------------------------------------------
(* Which steps there are and what each leaves alone.                       *)

\* A thread of the client takes a step: the master does not.
LEMMA ClientFrame ==
  ASSUME NEW t \in Threads,
         \/ ThreadStep(t) \/ RpcEnds(t)
         \/ \E method \in {"Create", "Extend", "Run", "Close"} : Call(t, method)
  PROVE  UNCHANGED <<serviceVars, idVars, forgotten, ran>>
BY DEF ThreadStep, RpcEnds, Call, CreateImpl, ExtendTest, ExtendSend, RunSlice, Close, Receive,
       Retry, GiveUp

LEMMA MasterFrame ==
  ASSUME (\E a \in net : Serve(a)) \/ Restart
  PROVE  UNCHANGED clientVars
BY DEF Serve, Refuse, ServeCreate, ServeExtend, ServeRun, EndRun, ServeClose, EndClose, Restart

---------------------------------------------------------------------------
(* The moves of the client.                                                *)

\* Every step of thread t of the client takes it from one place to another with
\* a request that is new, kept, or given up.
Moves(t, l, w, n) ==
  /\ at' = [at EXCEPT ![t] = l] /\ want' = [want EXCEPT ![t] = w] /\ tries' = [tries EXCEPT ![t] = n]

Quits(t) == Moves(t, "idle", NoWant, 0) /\ sc' = [sc EXCEPT ![t] = 0] /\ used' = [used EXCEPT ![t] = << >>]

LEMMA NoWantType == NoWant \in Wants
BY GrpcAssumption DEF NoWant, Wants

LEMMA RequestType ==
  ASSUME ClientTypes, NEW kind \in {"Create", "Extend", "Run", "Close"},
         NEW s \in Sessions \cup {None}, NEW v \in -1 .. MaxCalls, NEW i \in Ids \cup {0}
  PROVE  /\ Request(kind, s, v, i) \in Wants
         /\ Request(kind, s, v, i).kind = kind /\ Request(kind, s, v, i).session = s
         /\ Request(kind, s, v, i).version = v /\ Request(kind, s, v, i).id = i
         /\ Request(kind, s, v, i).call = nCalls
BY DEF Request, Wants, ClientTypes

LEMMA AttemptType ==
  ASSUME NEW t \in Threads, NEW w \in Wants, NEW n \in 0 .. kMaxRetries
  PROVE  /\ Attempt(t, w, n) \in Attempts
         /\ Attempt(t, w, n).thread = t /\ Attempt(t, w, n).want = w /\ Attempt(t, w, n).try = n
         /\ Attempt(t, w, n).state = "sent"
BY DEF Attempt, Attempts, NoReply, Replies, States, None

LEMMA NothingUsed ==
  ASSUME GTypes, WantInv, NEW t \in Threads, at[t] \notin {"Run", "rpc"} \/ want[t].kind # "Run"
  PROVE  sc[t] = 0 /\ used[t] = << >>
<1>1. sc[t] = 0 BY DEF WantInv
<1>2. used[t] \in Seq(Wants) /\ Len(used[t]) = 0 BY <1>1 DEF GTypes, ClientTypes
<1> QED BY <1>1, <1>2

LEMMA ReturnQuits == ASSUME NEW t \in Threads, Return(t) PROVE Quits(t)
BY DEF Return, Quits, Moves, Go

LEMMA SetHandleQuits ==
  ASSUME GTypes, WantInv, NEW t \in Threads, want[t].kind = "Create",
         NEW s, SetHandleAndGraphVersion(t, s)
  PROVE  Quits(t)
<1>1. sc[t] = 0 /\ used[t] = << >> BY NothingUsed
<1>2. sc' = sc /\ used' = used BY DEF SetHandleAndGraphVersion
<1>3. sc = [sc EXCEPT ![t] = 0] /\ used = [used EXCEPT ![t] = << >>]
  BY <1>1 DEF GTypes, ClientTypes
<1> QED BY <1>2, <1>3 DEF SetHandleAndGraphVersion, Quits, Moves, Go

(* The steps of thread t, with the disjunctions of the actions taken apart. *)

\* A method returns at once.
Skips(t) ==
  /\ at[t] \in {"Create", "Run", "Close"} /\ Quits(t)
  /\ overlapped' \in BOOLEAN /\ (overlapped => overlapped')
  /\ UNCHANGED <<handle, version, mu, nCalls, nextId, doubt, dropped, net>>

\* A method sends request w.
Sends(t, w) ==
  /\ Free /\ Moves(t, "rpc", w, 0) /\ net' = net \cup {Attempt(t, w, 0)}
  /\ UNCHANGED <<version, nCalls, sc, used, doubt>>

SendsCreate(t) ==
  /\ at[t] = "Create" /\ handle = None /\ Sends(t, Request("Create", None, 0, 0))
  /\ overlapped' = (overlapped \/ \E u \in Threads : want[u].kind = "Create")
  /\ UNCHANGED <<handle, mu, nextId, dropped>>

SendsExtend(t) ==
  /\ at[t] = "ExtendLocked" /\ Sends(t, Request("Extend", handle, version, 0)) /\ mu' = t
  /\ UNCHANGED <<handle, nextId, dropped, overlapped>>

SendsRun(t) ==
  /\ at[t] = "Run" /\ handle # None /\ nextId \in Ids
  /\ Sends(t, Request("Run", handle, 0, nextId)) /\ nextId' = nextId + 1
  /\ UNCHANGED <<handle, mu, dropped, overlapped>>

SendsClose(t) ==
  /\ at[t] = "Close" /\ handle # None /\ Sends(t, Request("Close", handle, 0, 0))
  /\ handle' = None /\ dropped' = dropped \cup {handle}
  /\ UNCHANGED <<mu, nextId, overlapped>>

\* The RPC ends in an error, or in none.
Drops(t) ==
  /\ at[t] = "rpc" /\ Quits(t) /\ Unlock(t) /\ Doubts(t)
  /\ net' \subseteq net /\ \A a \in net : a \notin net' => Waits(t, a)
  /\ UNCHANGED <<handle, version, nextId, nCalls, dropped, overlapped>>

\* The answer a is taken.
Takes(t, a) == Waits(t, a) /\ a.state = "ok" /\ net' = net \ {a} /\ UNCHANGED <<nextId, nCalls, doubt, dropped, overlapped>>

TakesCreate(t, a) ==
  /\ Takes(t, a) /\ want[t].kind = "Create" /\ Free /\ Quits(t)
  /\ handle' = a.reply.session /\ version' = 0 /\ mu' = mu

TakesExtend(t, a) ==
  /\ Takes(t, a) /\ want[t].kind = "Extend" /\ Quits(t) /\ Unlock(t)
  /\ version' = a.reply.version /\ handle' = handle

TakesSlice(t, a) ==
  /\ Takes(t, a) /\ want[t].kind = "Run" /\ sc[t] + 1 < spl
  /\ Moves(t, "Run", want[t], tries[t])
  /\ sc' = [sc EXCEPT ![t] = sc[t] + 1] /\ used' = [used EXCEPT ![t] = Append(used[t], want[t])]
  /\ UNCHANGED <<handle, version, mu>>

TakesLast(t, a) ==
  /\ Takes(t, a) /\ want[t].kind \in {"Run", "Close"} /\ Quits(t)
  /\ UNCHANGED <<handle, version, mu>>

Calls(t) ==
  /\ at[t] = "idle" /\ nCalls < MaxCalls /\ nCalls' = nCalls + 1
  /\ \E method \in {"Create", "Extend", "Run", "Close"} : at' = [at EXCEPT ![t] = method]
  /\ UNCHANGED <<handle, version, mu, want, tries, sc, used, nextId, doubt, dropped, overlapped, net>>

Tests(t) ==
  /\ at[t] = "Extend"
  /\ at' = [at EXCEPT ![t] = "Create"] \/ at' = [at EXCEPT ![t] = "ExtendLocked"]
  /\ UNCHANGED <<handle, version, mu, want, tries, sc, used, nextId, nCalls, doubt, dropped, overlapped, net>>

Retries(t) ==
  /\ at[t] = "rpc" /\ tries[t] < kMaxRetries
  /\ tries' = [tries EXCEPT ![t] = tries[t] + 1] /\ Doubts(t)
  /\ net' = Abandoned(t) \cup {Attempt(t, want[t], tries[t] + 1)}
  /\ UNCHANGED <<handle, version, mu, at, want, sc, used, nextId, nCalls, dropped, overlapped>>

ClientStep(t) ==
  \/ Calls(t) \/ Skips(t) \/ Tests(t) \/ Retries(t) \/ Drops(t)
  \/ SendsCreate(t) \/ SendsExtend(t) \/ SendsRun(t) \/ SendsClose(t)
  \/ \E a \in net : TakesCreate(t, a) \/ TakesExtend(t, a) \/ TakesSlice(t, a) \/ TakesLast(t, a)

LEMMA ClientCases ==
  ASSUME GTypes, WantInv, NEW t \in Threads,
         \/ ThreadStep(t) \/ RpcEnds(t)
         \/ \E method \in {"Create", "Extend", "Run", "Close"} : Call(t, method)
  PROVE  ClientStep(t)
<1>1. CASE \E method \in {"Create", "Extend", "Run", "Close"} : Call(t, method)
  BY <1>1 DEF Call, Go, Calls, ClientStep
<1>2. CASE CreateImpl(t)
  BY <1>2, ReturnQuits DEF CreateImpl, Send, Sends, SendsCreate, Skips, Moves, ClientStep, GTypes, ClientTypes
<1>3. CASE ExtendTest(t)
  BY <1>3 DEF ExtendTest, Go, Tests, ClientStep
<1>4. CASE ExtendSend(t)
  BY <1>4 DEF ExtendSend, Send, Sends, SendsExtend, Moves, ClientStep
<1>5. CASE RunSlice(t)
  BY <1>5, ReturnQuits DEF RunSlice, Send, Sends, SendsRun, Skips, Moves, ClientStep, GTypes, ClientTypes
<1>6. CASE Close(t)
  <2>1. CASE handle = None
    <3>1. dropped' = dropped BY <1>6, <2>1 DEF Close
    <3> QED BY <1>6, <2>1, <3>1, ReturnQuits DEF Close, Skips, ClientStep, GTypes, ClientTypes
  <2>2. CASE handle # None
    <3>1. dropped' = dropped \cup {handle} BY <1>6, <2>2 DEF Close
    <3> QED BY <1>6, <2>2, <3>1 DEF Close, Send, Sends, SendsClose, Moves, ClientStep
  <2> QED BY <2>1, <2>2
<1>7. CASE Receive(t)
  <2> PICK a \in net : /\ Waits(t, a) /\ net' = net \ {a}
                       /\ \/ a.state = "error" /\ Fails(t)
                          \/ a.state = "ok" /\ Succeeds(t, a.reply)
    BY <1>7 DEF Receive
  <2>1. CASE Fails(t)
    BY <2>1, ReturnQuits DEF Fails, Waits, Drops, ClientStep
  <2>2. CASE a.state = "ok" /\ want[t].kind = "Create" /\ SetHandleAndGraphVersion(t, a.reply.session)
    BY <2>2, SetHandleQuits DEF SetHandleAndGraphVersion, TakesCreate, Takes, ClientStep
  <2>3. CASE a.state = "ok" /\ want[t].kind = "Extend" /\ ExtendDone(t, a.reply)
    BY <2>3, ReturnQuits DEF ExtendDone, TakesExtend, Takes, ClientStep
  <2>4. CASE a.state = "ok" /\ want[t].kind = "Run" /\ SliceDone(t)
    <3>1. CASE ~MoreSlices(t)
      BY <2>4, <3>1, ReturnQuits DEF SliceDone, TakesLast, Takes, ClientStep
    <3>2. CASE MoreSlices(t)
      <4>1. Moves(t, "Run", want[t], tries[t])
        BY <2>4, <3>2 DEF SliceDone, Go, Moves, GTypes, ClientTypes
      <4>2. TakesSlice(t, a)
        BY <2>4, <3>2, <4>1 DEF SliceDone, MoreSlices, TakesSlice, Takes
      <4> QED BY <4>2 DEF ClientStep
    <3> QED BY <3>1, <3>2
  <2>5. CASE a.state = "ok" /\ want[t].kind = "Close" /\ Return(t)
             /\ UNCHANGED <<handle, version, mu, nextId, nCalls, doubt, dropped, overlapped>>
    BY <2>5, ReturnQuits DEF TakesLast, Takes, ClientStep
  <2> QED BY <2>1, <2>2, <2>3, <2>4, <2>5 DEF Succeeds
<1>8. CASE Retry(t)
  BY <1>8 DEF Retry, Retries, ClientStep
<1>9. CASE GiveUp(t)
  BY <1>9, ReturnQuits DEF GiveUp, Fails, Abandoned, Drops, ClientStep
<1> QED BY <1>1, <1>2, <1>3, <1>4, <1>5, <1>6, <1>7, <1>8, <1>9 DEF ThreadStep, RpcEnds

---------------------------------------------------------------------------
(* The moves of the master.                                                *)

\* Attempt a goes on as b, or is dropped if its thread no longer waits for it.
Becomes(a, b) ==
  /\ b \in Attempts /\ b.thread = a.thread /\ b.want = a.want /\ b.try = a.try
  /\ net' = (net \ {a}) \cup {b} \/ (net' = net \ {a} /\ ~Awaited(a))
  /\ UNCHANGED clientVars

IdsRest == UNCHANGED <<idVars, forgotten>>

\* The request fails, or its step did.
Errs(a, b) ==
  /\ Becomes(a, b) /\ a.state \in {"sent", "serving"} /\ b.state = "error"
  /\ IdsRest /\ UNCHANGED <<phase, graphVersion, ran>>

Creates(a, b) ==
  /\ Becomes(a, b) /\ a.want.kind = "Create" /\ a.state = "sent"
  /\ b.state = "ok" /\ b.reply.session \in Sessions /\ phase[b.reply.session] = "none"
  /\ phase' = [phase EXCEPT ![b.reply.session] = "open"]
  /\ IdsRest /\ UNCHANGED <<graphVersion, ran>>

Extends(a, b) ==
  /\ Becomes(a, b) /\ a.want.kind = "Extend" /\ a.state = "sent" /\ a.want.session \in Sessions
  /\ b.state = "ok" /\ b.reply.version = graphVersion[a.want.session] + 1
  /\ a.want.version = graphVersion[a.want.session]
  /\ graphVersion' = [graphVersion EXCEPT ![a.want.session] = graphVersion[a.want.session] + 1]
  /\ IdsRest /\ UNCHANGED <<phase, ran>>

\* TrackUnique accepts the slice, and its step begins or is refused.
Tracks(a, b) ==
  /\ Becomes(a, b) /\ a.want.kind = "Run" /\ a.state = "sent"
  /\ TrackUnique(a.want.id, TRUE) /\ a.want.id \in Ids /\ a.want.id \notin idSet
  /\ forgotten' = forgotten \cup ({ring[nextIndex]} \ {0})
  /\ idSet' = (idSet \cup {a.want.id}) \ {ring[nextIndex]}
  /\ \/ b.state = "error" /\ ran' = ran
     \/ /\ b.state = "serving" /\ phase[a.want.session] = "open"
        /\ ran' = [ran EXCEPT ![a.want.id] = ran[a.want.id] + 1]
  /\ UNCHANGED <<phase, graphVersion>>

Finishes(a, b) ==
  /\ Becomes(a, b) /\ a.want.kind = "Run" /\ a.state = "serving" /\ b.state = "ok"
  /\ IdsRest /\ UNCHANGED <<phase, graphVersion, ran>>

\* A Close takes effect, or its session is drained.
Closes(a, b) ==
  /\ Becomes(a, b) /\ a.want.kind = "Close" /\ a.want.session \in Sessions
  /\ \/ a.state = "sent" /\ b.state = "serving" /\ phase' = [phase EXCEPT ![a.want.session] = "closed"]
     \/ a.state = "serving" /\ b.state = "ok" /\ phase' = [phase EXCEPT ![a.want.session] = "drained"]
  /\ IdsRest /\ UNCHANGED <<graphVersion, ran>>

MasterStep(a, b) ==
  \/ Errs(a, b) \/ Creates(a, b) \/ Extends(a, b) \/ Tracks(a, b) \/ Finishes(a, b) \/ Closes(a, b)

LEMMA AttemptFields ==
  ASSUME NEW a \in Attempts
  PROVE  /\ a.thread \in Threads /\ a.want \in Wants /\ a.try \in 0 .. kMaxRetries
         /\ a.state \in States /\ a.reply \in Replies
BY DEF Attempts

LEMMA WaitsAwaited ==
  ASSUME NEW a \in Attempts
  PROVE  (\E t \in Threads : Waits(t, a)) <=> Awaited(a)
BY DEF Waits, Awaited, Attempts

\* What the master makes of an attempt is an attempt again.
LEMMA AnswerBecomes ==
  ASSUME NetTypes, NEW a \in net, NEW o \in States, NEW r \in Replies, Answer(a, o, r), UNCHANGED clientVars
  PROVE  \E b \in Attempts : Becomes(a, b) /\ b.state = o /\ b.reply = r
<1> DEFINE b == [a EXCEPT !.state = o, !.reply = r]
<1>1. b \in Attempts /\ b.thread = a.thread /\ b.want = a.want /\ b.try = a.try /\ b.state = o /\ b.reply = r
  BY DEF NetTypes, Attempts
<1>2. net' = (net \ {a}) \cup {b} \/ (net' = net \ {a} /\ ~Awaited(a))
  BY WaitsAwaited DEF Answer, NetTypes
<1> HIDE DEF b
<1> QED BY <1>1, <1>2 DEF Becomes

LEMMA BegunBecomes ==
  ASSUME NetTypes, NEW a \in net, Begun(a), UNCHANGED clientVars
  PROVE  \E b \in Attempts : Becomes(a, b) /\ b.state = "serving"
<1> DEFINE b == [a EXCEPT !.state = "serving"]
<1>1. b \in Attempts /\ b.thread = a.thread /\ b.want = a.want /\ b.try = a.try /\ b.state = "serving"
  BY DEF NetTypes, Attempts, States
<1>2. net' = (net \ {a}) \cup {b} BY DEF Begun
<1> HIDE DEF b
<1> QED BY <1>1, <1>2 DEF Becomes

LEMMA MasterCases ==
  ASSUME GTypes, WantInv, NEW a \in net, Serve(a)
  PROVE  \E b \in Attempts : MasterStep(a, b)
<1>0. /\ NetTypes /\ a \in Attempts /\ NoReply \in Replies /\ UNCHANGED clientVars
      /\ {"error", "ok", "serving"} \subseteq States
  BY MasterFrame DEF GTypes, NetTypes, NoReply, Replies, None, States
<1>1. Shaped(a.want) BY DEF WantInv, LiveWants
<1>2. CASE Refuse(a)
  BY <1>0, <1>2, AnswerBecomes DEF Refuse, Errs, MasterStep, serviceVars, IdsRest
<1>3. CASE ServeCreate(a)
  <2>1. NewHandle \in Sessions /\ phase[NewHandle] = "none"
    BY <1>3 DEF ServeCreate, NewHandle
  <2> DEFINE r == [session |-> NewHandle, version |-> 0]
  <2>2. r \in Replies /\ r.session = NewHandle BY <2>1 DEF Replies
  <2>3. Answer(a, "ok", r) BY <1>3 DEF ServeCreate
  <2> HIDE DEF r
  <2>4. PICK b \in Attempts : Becomes(a, b) /\ b.state = "ok" /\ b.reply = r
    BY <1>0, <2>2, <2>3, AnswerBecomes
  <2>5. Creates(a, b)
    BY <1>3, <2>1, <2>2, <2>4 DEF ServeCreate, OpenSession, Creates, IdsRest
  <2> QED BY <2>5 DEF MasterStep
<1>4. CASE ServeExtend(a)
  <2> DEFINE r == [session |-> None, version |-> graphVersion[a.want.session] + 1]
  <2>1. graphVersion[a.want.session] \in Nat
    BY <1>4 DEF ServeExtend, GTypes, MasterTypes
  <2>2. r \in Replies /\ r.version = graphVersion[a.want.session] + 1 BY <2>1 DEF Replies
  <2>3. Answer(a, "ok", r) BY <1>4 DEF ServeExtend
  <2> HIDE DEF r
  <2>4. PICK b \in Attempts : Becomes(a, b) /\ b.state = "ok" /\ b.reply = r
    BY <1>0, <2>2, <2>3, AnswerBecomes
  <2>5. Extends(a, b)
    BY <1>4, <2>1, <2>2, <2>4 DEF ServeExtend, ExtendGraph, Extends, IdsRest
  <2> QED BY <2>5 DEF MasterStep
<1>5. CASE ServeRun(a)
  <2>1. a.want.id \in Ids /\ a.want.id # 0 /\ a.state = "sent" /\ a.want.kind = "Run"
    BY <1>1, <1>5, TrackingAssumption DEF Shaped, ServeRun
  <2>2. CASE TrackUnique(a.want.id, FALSE) /\ Answer(a, "error", NoReply)
             /\ UNCHANGED <<serviceVars, forgotten, ran>>
    <3>1. PICK b \in Attempts : Becomes(a, b) /\ b.state = "error"
      BY <1>0, <2>2, AnswerBecomes
    <3>2. UNCHANGED idVars BY <2>2 DEF TrackUnique
    <3> QED BY <3>1, <3>2, <2>1, <2>2 DEF Errs, MasterStep, serviceVars, IdsRest
  <2>3. CASE TrackUnique(a.want.id, TRUE)
             /\ forgotten' = forgotten \cup ({ring[nextIndex]} \ {0})
             /\ Answer(a, "error", NoReply) /\ UNCHANGED <<serviceVars, ran>>
    <3>1. PICK b \in Attempts : Becomes(a, b) /\ b.state = "error"
      BY <1>0, <2>3, AnswerBecomes
    <3> QED BY <3>1, <2>1, <2>3 DEF Tracks, MasterStep, serviceVars, TrackUnique, Insert
  <2>4. CASE TrackUnique(a.want.id, TRUE)
             /\ forgotten' = forgotten \cup ({ring[nextIndex]} \ {0})
             /\ BeginStep(a.want.id, a.want.session)
             /\ ran' = [ran EXCEPT ![a.want.id] = @ + 1] /\ Begun(a)
    <3>1. PICK b \in Attempts : Becomes(a, b) /\ b.state = "serving"
      BY <1>0, <2>4, BegunBecomes
    <3> QED BY <3>1, <2>1, <2>4 DEF Tracks, MasterStep, BeginStep, TrackUnique, Insert
  <2> QED BY <1>5, <2>2, <2>3, <2>4 DEF ServeRun
<1>6. CASE EndRun(a)
  <2>1. UNCHANGED <<phase, graphVersion, ran>> /\ IdsRest /\ a.state = "serving" /\ a.want.kind = "Run"
    BY <1>6 DEF EndRun, EndStep, IdsRest
  <2>2. CASE Answer(a, "ok", NoReply)
    BY <2>1, <2>2, <1>0, AnswerBecomes DEF Finishes, MasterStep
  <2>3. CASE Answer(a, "error", NoReply)
    BY <2>1, <2>3, <1>0, AnswerBecomes DEF Errs, MasterStep
  <2> QED BY <1>6, <2>2, <2>3 DEF EndRun
<1>7. CASE ServeClose(a)
  <2>1. PICK b \in Attempts : Becomes(a, b) /\ b.state = "serving"
    BY <1>0, <1>7, BegunBecomes DEF ServeClose
  <2>2. Closes(a, b)
    BY <2>1, <1>1, <1>7 DEF ServeClose, BeginClose, Closes, Shaped, IdsRest
  <2> QED BY <2>2 DEF MasterStep
<1>8. CASE EndClose(a)
  <2>1. PICK b \in Attempts : Becomes(a, b) /\ b.state = "ok"
    BY <1>0, <1>8, AnswerBecomes DEF EndClose
  <2>2. Closes(a, b)
    BY <2>1, <1>1, <1>8 DEF EndClose, Drain, Closes, Shaped, IdsRest
  <2> QED BY <2>2 DEF MasterStep
<1> QED BY <1>2, <1>3, <1>4, <1>5, <1>6, <1>7, <1>8 DEF Serve

---------------------------------------------------------------------------
(* Types.                                                                  *)

LEMMA InExtending ==
  ASSUME IsFiniteSet(Extending), NEW t \in Extending
  PROVE  /\ Cardinality(Extending) \in Nat \ {0} /\ IsFiniteSet(Extending \ {t})
         /\ Cardinality(Extending \ {t}) = Cardinality(Extending) - 1
BY FS_CardinalityType, FS_RemoveElement, FS_EmptySet

\* An answer to Extend raises the version that it was sent with by one.
LEMMA ExtendRaises ==
  ASSUME GInv, NEW t \in Threads, NEW a \in net, TakesExtend(t, a)
  PROVE  /\ t \in Extending /\ mu = t /\ handle \in Sessions
         /\ version' = version + 1 /\ version' = graphVersion[handle]
         /\ version' \in 0 .. MaxCalls
<1> USE DEF GInv
<1>1. at[t] = "rpc" /\ a.want = want[t] /\ a.state = "ok" /\ want[t].kind = "Extend"
  BY DEF TakesExtend, Takes, Waits
<1>2. mu = t /\ want[t].session = handle /\ want[t].version = version
  BY <1>1 DEF MuInv
<1>3. handle \in Sessions /\ a.reply.version = version + 1 /\ a.reply.version <= graphVersion[handle]
  BY <1>1, <1>2 DEF ExtendInv
<1>4. version' = version + 1 BY <1>3 DEF TakesExtend
<1>5. version \in -1 .. MaxCalls /\ graphVersion[handle] \in Nat /\ nCalls \in 0 .. MaxCalls /\ MaxCalls \in Nat
  BY <1>3, GrpcAssumption DEF GTypes, ClientTypes, MasterTypes
<1>6. graphVersion[handle] = version + 1
  BY <1>3, <1>5 DEF ExtendInv
<1>7. t \in Extending BY <1>1 DEF Extending
<1>8. version + 1 <= MaxCalls
  <2>1. Cardinality(Extending) \in Nat \ {0} BY <1>7, InExtending DEF CountInv
  <2>2. version + Cardinality(Extending) <= nCalls BY DEF CountInv
  <2> QED BY <2>1, <2>2, <1>5
<1> QED BY <1>2, <1>3, <1>4, <1>5, <1>6, <1>7, <1>8

LEMMA AppendUsed ==
  ASSUME NEW s \in Seq(Wants), NEW w \in Wants
  PROVE  /\ Append(s, w) \in Seq(Wants) /\ Len(Append(s, w)) = Len(s) + 1
         /\ Append(s, w)[Len(s) + 1] = w
         /\ \A k \in 1 .. Len(s) : Append(s, w)[k] = s[k]
OBVIOUS

LEMMA ClientTypesNext == ASSUME GInv, NEW t \in Threads, ClientStep(t) PROVE ClientTypes'
<1> USE DEF GInv, GTypes
<1>0. /\ NoWant \in Wants /\ MaxCalls \in Nat /\ 0 \in -1 .. MaxCalls /\ 0 \in 0 .. kMaxRetries /\ 0 \in 0 .. spl - 1
      /\ << >> \in Seq(Wants) /\ Len(<< >>) = 0 /\ None \notin Threads /\ None \notin Sessions
  BY NoWantType, GrpcAssumption, NoneAssumption
<1>1. CASE Calls(t)
  BY <1>0, <1>1 DEF Calls, ClientTypes, Places
<1>2. CASE Tests(t)
  BY <1>0, <1>2 DEF Tests, ClientTypes, Places
<1>3. CASE Retries(t)
  <2>1. tries' \in [Threads -> 0 .. kMaxRetries]
    BY <1>0, <1>3, GrpcAssumption DEF Retries, ClientTypes
  <2> QED BY <1>3, <2>1 DEF Retries, ClientTypes
<1>4. ASSUME Quits(t) PROVE
         /\ at' \in [Threads -> Places] /\ want' \in [Threads -> Wants]
         /\ tries' \in [Threads -> 0 .. kMaxRetries] /\ sc' \in [Threads -> 0 .. spl - 1]
         /\ used' \in [Threads -> Seq(Wants)] /\ \A u \in Threads : Len(used'[u]) = sc'[u]
         /\ \A u \in Threads : u # t => at'[u] = at[u] /\ want'[u] = want[u]
  BY <1>0, <1>4 DEF Quits, Moves, ClientTypes, Places
<1>5. CASE Skips(t)
  BY <1>0, <1>4, <1>5 DEF Skips, ClientTypes
<1>6. CASE Drops(t)
  BY <1>0, <1>4, <1>6 DEF Drops, Unlock, ClientTypes
<1>7. ASSUME NEW w \in Wants, Sends(t, w) PROVE
         /\ at' \in [Threads -> Places] /\ want' \in [Threads -> Wants]
         /\ tries' \in [Threads -> 0 .. kMaxRetries] /\ at'[t] = "rpc" /\ want'[t] = w /\ mu = None
         /\ UNCHANGED <<sc, used, version, nCalls>>
  BY <1>0, <1>7 DEF Sends, Moves, ClientTypes, Places, Free
<1>8. CASE SendsCreate(t)
  <2>1. Request("Create", None, 0, 0) \in Wants BY <1>0, RequestType DEF ClientTypes
  <2> QED BY <1>0, <1>7, <1>8, <2>1 DEF SendsCreate, ClientTypes
<1>9. CASE SendsExtend(t)
  <2>1. Request("Extend", handle, version, 0) \in Wants /\ Request("Extend", handle, version, 0).kind = "Extend"
    BY RequestType DEF ClientTypes
  <2> QED BY <1>0, <1>7, <1>9, <2>1 DEF SendsExtend, ClientTypes
<1>10. CASE SendsRun(t)
  <2>1. Request("Run", handle, 0, nextId) \in Wants BY <1>0, <1>10, RequestType DEF ClientTypes, SendsRun
  <2> QED BY <1>0, <1>7, <1>10, <2>1 DEF SendsRun, ClientTypes
<1>11. CASE SendsClose(t)
  <2>1. Request("Close", handle, 0, 0) \in Wants BY <1>0, RequestType DEF ClientTypes
  <2> QED BY <1>0, <1>7, <1>11, <2>1 DEF SendsClose, ClientTypes
<1>12. ASSUME NEW a \in net, TakesCreate(t, a) PROVE ClientTypes'
  <2>1. a.reply.session \in Sessions BY <1>12 DEF FreshInv, TakesCreate, Takes, Waits
  <2> QED BY <1>0, <1>4, <1>12, <2>1 DEF TakesCreate, Takes, Free, ClientTypes
<1>13. ASSUME NEW a \in net, TakesExtend(t, a) PROVE ClientTypes'
  <2>1. version' \in -1 .. MaxCalls /\ mu = t BY <1>0, <1>13, ExtendRaises
  <2> QED BY <1>0, <1>4, <1>13, <2>1 DEF TakesExtend, Takes, Unlock, ClientTypes
<1>14. ASSUME NEW a \in net, TakesSlice(t, a) PROVE ClientTypes'
  <2>1. want[t] \in Wants /\ used[t] \in Seq(Wants) /\ Len(used[t]) = sc[t] /\ sc[t] + 1 \in 0 .. spl - 1
    BY <1>14, GrpcAssumption DEF TakesSlice, ClientTypes
  <2>2. Append(used[t], want[t]) \in Seq(Wants) /\ Len(Append(used[t], want[t])) = sc[t] + 1
    BY <2>1, AppendUsed
  <2>3. at' \in [Threads -> Places] /\ want' = want /\ tries' = tries
        /\ \A u \in Threads : u # t => at'[u] = at[u]
    BY <1>14 DEF TakesSlice, Moves, ClientTypes, Places
  <2>4. sc' \in [Threads -> 0 .. spl - 1] /\ used' \in [Threads -> Seq(Wants)]
        /\ \A u \in Threads : Len(used'[u]) = sc'[u]
    BY <1>14, <2>1, <2>2 DEF TakesSlice, ClientTypes
  <2>5. mu # t BY <1>14, <1>0 DEF TakesSlice, ClientTypes
  <2> QED BY <1>14, <2>3, <2>4, <2>5 DEF TakesSlice, Takes, ClientTypes
<1>15. ASSUME NEW a \in net, TakesLast(t, a) PROVE ClientTypes'
  <2>1. mu # t BY <1>15, <1>0 DEF TakesLast, ClientTypes
  <2> QED BY <1>0, <1>4, <1>15, <2>1 DEF TakesLast, Takes, ClientTypes
<1> QED BY <1>1, <1>2, <1>3, <1>5, <1>6, <1>8, <1>9, <1>10, <1>11, <1>12, <1>13, <1>14, <1>15 DEF ClientStep

LEMMA NetTypesNext == ASSUME GInv, NEW t \in Threads, ClientStep(t) PROVE NetTypes'
<1> USE DEF GInv, GTypes
<1>0. /\ NoWant \in Wants /\ MaxCalls \in Nat /\ 0 \in -1 .. MaxCalls /\ 0 \in 0 .. kMaxRetries /\ kMaxRetries \in Nat
  BY NoWantType, GrpcAssumption
<1>1. ASSUME NEW w \in Wants, Sends(t, w) PROVE NetTypes'
  BY <1>0, <1>1, AttemptType DEF Sends, NetTypes
<1>2. CASE SendsCreate(t)
  <2>1. Request("Create", None, 0, 0) \in Wants BY <1>0, RequestType DEF ClientTypes
  <2> QED BY <1>1, <1>2, <2>1 DEF SendsCreate
<1>3. CASE SendsExtend(t)
  <2>1. Request("Extend", handle, version, 0) \in Wants BY RequestType DEF ClientTypes
  <2> QED BY <1>1, <1>3, <2>1 DEF SendsExtend
<1>4. CASE SendsRun(t)
  <2>1. Request("Run", handle, 0, nextId) \in Wants BY <1>0, <1>4, RequestType DEF ClientTypes, SendsRun
  <2> QED BY <1>1, <1>4, <2>1 DEF SendsRun
<1>5. CASE SendsClose(t)
  <2>1. Request("Close", handle, 0, 0) \in Wants BY <1>0, RequestType DEF ClientTypes
  <2> QED BY <1>1, <1>5, <2>1 DEF SendsClose
<1>6. CASE Retries(t)
  <2>1. want[t] \in Wants /\ tries[t] + 1 \in 0 .. kMaxRetries
    BY <1>0, <1>6 DEF Retries, ClientTypes
  <2> QED BY <1>6, <2>1, AttemptType DEF Retries, Abandoned, NetTypes
<1>7. CASE Calls(t) \/ Tests(t) \/ Skips(t) \/ Drops(t)
  BY <1>7 DEF Calls, Tests, Skips, Drops, NetTypes
<1>8. CASE \E a \in net : TakesCreate(t, a) \/ TakesExtend(t, a) \/ TakesSlice(t, a) \/ TakesLast(t, a)
  BY <1>8 DEF TakesCreate, TakesExtend, TakesSlice, TakesLast, Takes, NetTypes
<1> QED BY <1>2, <1>3, <1>4, <1>5, <1>6, <1>7, <1>8 DEF ClientStep

LEMMA MasterTypesNext ==
  ASSUME GTypes, NEW a \in net, NEW b \in Attempts, MasterStep(a, b)
  PROVE  MasterTypes' /\ NetTypes'
<1> USE DEF GTypes
<1>1. NetTypes'
  BY DEF MasterStep, Errs, Creates, Extends, Tracks, Finishes, Closes, Becomes, NetTypes
<1>2. CASE Errs(a, b) \/ Finishes(a, b)
  BY <1>1, <1>2 DEF Errs, Finishes, IdsRest, MasterTypes
<1>3. CASE Creates(a, b) \/ Closes(a, b)
  BY <1>1, <1>3 DEF Creates, Closes, IdsRest, MasterTypes, Phases
<1>4. CASE Extends(a, b)
  BY <1>1, <1>4 DEF Extends, IdsRest, MasterTypes
<1>5. CASE Tracks(a, b)
  <2>1. ring[nextIndex] \in Ids \cup {0} BY DEF IdsInv, IdsTypeOK
  <2> QED BY <1>1, <1>5, <2>1 DEF Tracks, MasterTypes
<1> QED BY <1>1, <1>2, <1>3, <1>4, <1>5 DEF MasterStep

LEMMA RestartTypes == ASSUME GTypes, Restart PROVE GTypes'
<1>1. MasterTypes' BY DEF Restart, GTypes, MasterTypes, Phases
<1>2. NetTypes' BY DEF Restart, GTypes, NetTypes
<1>3. ClientTypes' BY MasterFrame DEF clientVars, GTypes, ClientTypes
<1>4. IdsInv'
  BY TrackingAssumption DEF Restart, IdsInv, IdsTypeOK, RingHolds, Round, TracksTheLast, NoRepeatInWindow, Slots
<1> QED BY <1>1, <1>2, <1>3, <1>4 DEF GTypes

LEMMA IdsNextInv == ASSUME GTypes, NEW a \in net, NEW b \in Attempts, MasterStep(a, b) PROVE IdsInv'
<1>1. CASE Tracks(a, b)
  BY <1>1, TrackUniqueKeeps DEF Tracks, GTypes
<1>2. CASE ~Tracks(a, b)
  BY <1>2, IdsUnchanged DEF MasterStep, Errs, Creates, Extends, Finishes, Closes, IdsRest, GTypes
<1> QED BY <1>1, <1>2

---------------------------------------------------------------------------
(* Requests.                                                               *)

\* A thread that does not send.
Listens(t) ==
  \/ Calls(t) \/ Skips(t) \/ Tests(t) \/ Retries(t) \/ Drops(t)
  \/ \E a \in net : TakesCreate(t, a) \/ TakesExtend(t, a) \/ TakesSlice(t, a) \/ TakesLast(t, a)

Sending(t, w) ==
  \/ w = Request("Create", None, 0, 0) /\ SendsCreate(t)
  \/ w = Request("Extend", handle, version, 0) /\ SendsExtend(t)
  \/ w = Request("Run", handle, 0, nextId) /\ SendsRun(t)
  \/ w = Request("Close", handle, 0, 0) /\ SendsClose(t)

LEMMA SendsOrListens ==
  ASSUME GTypes, NEW t \in Threads, ClientStep(t)
  PROVE  Listens(t) \/ \E w \in Wants : Sending(t, w) /\ Sends(t, w)
<1>0. MaxCalls \in Nat /\ 0 \in -1 .. MaxCalls /\ 0 \in Ids \cup {0} /\ ClientTypes
      /\ handle \in Sessions \cup {None} /\ version \in -1 .. MaxCalls
  BY GrpcAssumption DEF GTypes, ClientTypes
<1>1. /\ Request("Create", None, 0, 0) \in Wants /\ Request("Extend", handle, version, 0) \in Wants
      /\ Request("Close", handle, 0, 0) \in Wants
      /\ nextId \in Ids => Request("Run", handle, 0, nextId) \in Wants
  BY <1>0, RequestType
<1>2. CASE SendsCreate(t) BY <1>1, <1>2 DEF Sending, SendsCreate
<1>3. CASE SendsExtend(t) BY <1>1, <1>3 DEF Sending, SendsExtend
<1>4. CASE SendsRun(t) BY <1>1, <1>4 DEF Sending, SendsRun
<1>5. CASE SendsClose(t) BY <1>1, <1>5 DEF Sending, SendsClose
<1> QED BY <1>2, <1>3, <1>4, <1>5 DEF ClientStep, Listens

\* What a request says, by its kind.
LEMMA SentRequest ==
  ASSUME GTypes, NEW t \in Threads, NEW w \in Wants, Sending(t, w)
  PROVE  /\ w.call = nCalls /\ w.kind # None /\ w.session \in {handle, None}
         /\ w.kind = "Create" <=> SendsCreate(t)
         /\ w.kind = "Extend" <=> SendsExtend(t)
         /\ w.kind = "Run" <=> SendsRun(t)
         /\ w.kind = "Close" <=> SendsClose(t)
         /\ w.kind = "Create" => w.session = None
         /\ w.kind # "Create" => w.session = handle
         /\ w.kind = "Extend" => w.version = version
         /\ w.kind = "Run" => w.id = nextId
<1>0. MaxCalls \in Nat /\ 0 \in -1 .. MaxCalls /\ 0 \in Ids \cup {0} /\ ClientTypes
      /\ handle \in Sessions \cup {None} /\ version \in -1 .. MaxCalls
  BY GrpcAssumption DEF GTypes, ClientTypes
<1>1. CASE w = Request("Create", None, 0, 0) /\ SendsCreate(t)
  BY <1>0, <1>1, RequestType DEF SendsCreate, SendsExtend, SendsRun, SendsClose, None
<1>2. CASE w = Request("Extend", handle, version, 0) /\ SendsExtend(t)
  BY <1>0, <1>2, RequestType DEF SendsCreate, SendsExtend, SendsRun, SendsClose, None
<1>3. CASE w = Request("Run", handle, 0, nextId) /\ SendsRun(t)
  BY <1>0, <1>3, RequestType DEF SendsCreate, SendsExtend, SendsRun, SendsClose, None
<1>4. CASE w = Request("Close", handle, 0, 0) /\ SendsClose(t)
  BY <1>0, <1>4, RequestType DEF SendsCreate, SendsExtend, SendsRun, SendsClose, None
<1> QED BY <1>1, <1>2, <1>3, <1>4 DEF Sending

LEMMA SendWants ==
  ASSUME GTypes, NEW t \in Threads, NEW w \in Wants, Sends(t, w)
  PROVE  LiveWants' \subseteq LiveWants \cup {w}
<1>1. want' = [want EXCEPT ![t] = w] /\ net' = net \cup {Attempt(t, w, 0)} /\ want \in [Threads -> Wants]
  BY DEF Sends, Moves, GTypes, ClientTypes
<1>2. Attempt(t, w, 0).want = w BY DEF Attempt
<1>3. \A u \in Threads : want'[u] \in LiveWants \cup {w} BY <1>1 DEF LiveWants
<1>4. \A a \in net' : a.want \in LiveWants \cup {w} BY <1>1, <1>2 DEF LiveWants
<1> QED BY <1>3, <1>4 DEF LiveWants

LEMMA ListenWants ==
  ASSUME GTypes, NEW t \in Threads, Listens(t)
  PROVE  LiveWants' \subseteq LiveWants \cup {NoWant}
<1>1. want \in [Threads -> Wants] BY DEF GTypes, ClientTypes
<1>2. \A u \in Threads : want'[u] \in LiveWants \cup {NoWant}
  BY <1>1 DEF Listens, Calls, Skips, Tests, Retries, Drops, TakesCreate, TakesExtend, TakesSlice, TakesLast,
              Quits, Moves, LiveWants
<1>3. CASE Retries(t)
  <2>1. Attempt(t, want[t], tries[t] + 1).want = want[t] BY DEF Attempt
  <2> QED BY <1>2, <1>3, <2>1 DEF Retries, Abandoned, LiveWants
<1>4. CASE ~Retries(t)
  <2>1. net' \subseteq net
    BY <1>4 DEF Listens, Calls, Skips, Tests, Drops, TakesCreate, TakesExtend, TakesSlice, TakesLast, Takes
  <2> QED BY <1>2, <2>1 DEF LiveWants
<1> QED BY <1>3, <1>4

LEMMA MasterBecomes ==
  ASSUME NEW a \in net, NEW b \in Attempts, MasterStep(a, b) PROVE Becomes(a, b)
BY DEF MasterStep, Errs, Creates, Extends, Tracks, Finishes, Closes

LEMMA MasterWants ==
  ASSUME NEW a \in net, NEW b \in Attempts, MasterStep(a, b)
  PROVE  LiveWants' \subseteq LiveWants
BY MasterBecomes DEF Becomes, clientVars, LiveWants

LEMMA RestartWants == Restart => LiveWants' \subseteq LiveWants
BY MasterFrame DEF Restart, clientVars, LiveWants

\* A session that was given out stays so.
LEMMA PhaseStays ==
  ASSUME GTypes, NEW s \in Sessions, phase[s] # "none",
         Restart \/ \E a \in net, b \in Attempts : MasterStep(a, b)
  PROVE  phase'[s] # "none"
<1>1. CASE Restart BY <1>1 DEF Restart, GTypes, MasterTypes
<1>2. ASSUME NEW a \in net, NEW b \in Attempts, MasterStep(a, b) PROVE phase'[s] # "none"
  BY <1>2 DEF MasterStep, Errs, Creates, Extends, Tracks, Finishes, Closes, GTypes, MasterTypes
<1> QED BY <1>1, <1>2

LEMMA WantNumbers ==
  ASSUME NEW w \in Wants PROVE w.call \in Int /\ w.id \in Int /\ w.version \in Int
<1>1. w.call \in 0 .. MaxCalls /\ w.id \in Ids \cup {0} /\ w.version \in -1 .. MaxCalls BY DEF Wants
<1>2. w.id \in Int
  <2>1. \A i \in Ids : i \in Nat BY TrackingAssumption
  <2> QED BY <1>1, <2>1
<1> QED BY <1>1, <1>2

\* What is known of requests outlives the steps that only add to it.
LEMMA ShapedStays ==
  ASSUME NEW w, Shaped(w), nextId \in Nat, nextId' \in Nat, nCalls \in Nat, nCalls' \in Nat,
         nextId <= nextId', nCalls <= nCalls', w \in Wants,
         \A s \in Sessions : phase[s] # "none" => phase'[s] # "none"
  PROVE  Shaped(w)'
BY WantNumbers DEF Shaped

LEMMA WantsType == ASSUME GTypes PROVE LiveWants \subseteq Wants
BY AttemptFields DEF GTypes, NetTypes, ClientTypes, LiveWants

LEMMA NoWantShaped == ASSUME GTypes PROVE Shaped(NoWant)
BY NoneAssumption DEF NoWant, Shaped, None, GTypes, ClientTypes

LEMMA CountersGrow ==
  ASSUME GTypes, GTypes', NEW t \in Threads, ClientStep(t)
  PROVE  /\ nextId \in Nat /\ nextId' \in Nat /\ nCalls \in Nat /\ nCalls' \in Nat
         /\ nextId <= nextId' /\ nCalls <= nCalls'
<1>1. nextId \in Nat /\ nextId' \in Nat /\ nCalls \in Nat /\ nCalls' \in Nat
  BY DEF GTypes, ClientTypes
<1>2. (nextId' = nextId \/ nextId' = nextId + 1) /\ (nCalls' = nCalls \/ nCalls' = nCalls + 1)
  BY DEF ClientStep, Calls, Skips, Tests, Retries, Drops, SendsCreate, SendsExtend, SendsRun, SendsClose, Sends,
         TakesCreate, TakesExtend, TakesSlice, TakesLast, Takes
<1> QED BY <1>1, <1>2

LEMMA WantInvListens ==
  ASSUME GInv, GTypes', NEW t \in Threads, Listens(t), ClientStep(t), UNCHANGED phase
  PROVE  WantInv'
<1> USE DEF GInv
<1>0. at \in [Threads -> Places] /\ want \in [Threads -> Wants] /\ sc \in [Threads -> 0 .. spl - 1]
  BY DEF GTypes, ClientTypes
<1>1. \A w \in LiveWants' : Shaped(w)'
  <2> TAKE w \in LiveWants'
  <2>1. w \in Wants /\ Shaped(w)
    BY ListenWants, NoWantShaped, NoWantType, WantsType DEF WantInv
  <2> QED BY <2>1, CountersGrow, ShapedStays
<1>2. handle' \in Sessions => phase'[handle'] # "none"
  <2>1. ASSUME NEW a \in net, TakesCreate(t, a) PROVE handle' \in Sessions => phase[handle'] # "none"
    BY <2>1 DEF TakesCreate, Takes, Waits, FreshInv
  <2>2. handle' = handle \/ \E a \in net : TakesCreate(t, a)
    BY DEF Listens, Calls, Skips, Tests, Retries, Drops, TakesExtend, TakesSlice, TakesLast
  <2> QED BY <2>1, <2>2 DEF WantInv
<1> DEFINE P == /\ \A u \in Threads : at[u] \notin {"rpc", "Run"} => want[u] = NoWant
                /\ \A u \in Threads : at[u] = "Run" => want[u].kind \in {None, "Run"}
                /\ \A u \in Threads : at[u] = "rpc" => want[u].kind # None
                /\ \A u \in Threads : sc[u] # 0 => at[u] \in {"Run", "rpc"} /\ want[u].kind = "Run"
<1>3. P BY DEF WantInv
<1>4. NoWant.kind = None BY DEF NoWant
<1>5. P'
  <2>1. ASSUME Quits(t) PROVE P'
    BY <1>0, <1>3, <2>1 DEF Quits, Moves
  <2>2. CASE Calls(t)
    BY <1>0, <1>3, <1>4, <2>2 DEF Calls
  <2>3. CASE Tests(t)
    BY <1>0, <1>3, <1>4, <2>3 DEF Tests
  <2>4. CASE Retries(t)
    BY <1>3, <2>4 DEF Retries
  <2>5. ASSUME NEW a \in net, TakesSlice(t, a) PROVE P'
    BY <1>0, <1>3, <2>5 DEF TakesSlice, Takes, Waits, Moves
  <2> HIDE DEF P
  <2> QED BY <2>1, <2>2, <2>3, <2>4, <2>5
          DEF Listens, Skips, Drops, TakesCreate, TakesExtend, TakesLast
<1> QED BY <1>1, <1>2, <1>5 DEF WantInv

LEMMA WantInvSends ==
  ASSUME GInv, GTypes', NEW t \in Threads, NEW w \in Wants, Sending(t, w), Sends(t, w), ClientStep(t),
         UNCHANGED phase
  PROVE  WantInv'
<1> USE DEF GInv
<1>0. at \in [Threads -> Places] /\ want \in [Threads -> Wants] /\ sc \in [Threads -> 0 .. spl - 1]
      /\ sc' = sc /\ at' = [at EXCEPT ![t] = "rpc"] /\ want' = [want EXCEPT ![t] = w]
  BY DEF GTypes, ClientTypes, Sends, Moves
<1>1. Shaped(w)'
  <2>1. nCalls' = nCalls /\ nCalls \in Nat /\ nextId \in Nat /\ (w.kind = "Run" => nextId' = nextId + 1 /\ nextId \in Ids)
    BY SentRequest DEF Sends, SendsRun, GTypes, ClientTypes
  <2>2. (w.kind \in {"Run", "Close"} => handle # None) /\ handle \in Sessions \cup {None}
    BY SentRequest DEF SendsRun, SendsClose, GTypes, ClientTypes
  <2>3. w.session \in Sessions => phase[w.session] # "none"
    BY SentRequest, NoneAssumption DEF WantInv
  <2> QED BY <2>1, <2>2, <2>3, SentRequest DEF Shaped
<1>2. \A x \in LiveWants' : Shaped(x)'
  <2> TAKE x \in LiveWants'
  <2>1. x = w \/ (x \in Wants /\ Shaped(x))
    BY SendWants, WantsType DEF WantInv
  <2> QED BY <1>1, <2>1, CountersGrow, ShapedStays
<1>3. handle' \in Sessions => phase'[handle'] # "none"
  <2>1. handle' \in {handle, None}
    BY DEF Sending, SendsCreate, SendsExtend, SendsRun, SendsClose
  <2> QED BY <2>1, NoneAssumption DEF WantInv
<1>4. w.kind # None /\ (sc[t] # 0 => w.kind = "Run")
  <2>1. sc[t] # 0 => at[t] = "Run" \/ at[t] = "rpc" BY DEF WantInv
  <2>2. w.kind = "Create" \/ w.kind = "Extend" \/ w.kind = "Run" \/ w.kind = "Close"
    BY SentRequest DEF Wants
  <2> QED BY <2>1, <2>2, SentRequest DEF SendsCreate, SendsExtend, SendsRun, SendsClose
<1> QED BY <1>0, <1>2, <1>3, <1>4 DEF WantInv

LEMMA WantInvMaster ==
  ASSUME GTypes, WantInv, UNCHANGED clientVars, LiveWants' \subseteq LiveWants,
         Restart \/ \E a \in net, b \in Attempts : MasterStep(a, b)
  PROVE  WantInv'
<1>1. \A s \in Sessions : phase[s] # "none" => phase'[s] # "none" BY PhaseStays
<1>2. UNCHANGED <<handle, at, want, sc, nextId, nCalls>> /\ nextId \in Nat /\ nCalls \in Nat
  BY DEF clientVars, GTypes, ClientTypes
<1>3. \A w \in LiveWants' : Shaped(w)'
  BY <1>1, <1>2, WantsType, ShapedStays DEF WantInv
<1> QED BY <1>1, <1>2, <1>3 DEF WantInv

---------------------------------------------------------------------------
(* Attempts under way.                                                     *)

\* No attempt under way carries the request that is about to be sent.
LEMMA SendIsNew ==
  ASSUME GInv, NEW t \in Threads, NEW w \in Wants, Sending(t, w), NEW a \in net, a.thread = t
  PROVE  a.want # w
<1> USE DEF GInv
<1>1. a.want \in Wants /\ a.want \in LiveWants /\ Shaped(a.want)
  BY AttemptFields DEF GTypes, NetTypes, LiveWants, WantInv
<1>2. CASE w.kind = "Run"
  <2>1. w.id = nextId BY <1>2, SentRequest
  <2> QED BY <1>1, <1>2, <2>1, WantNumbers DEF Shaped
<1>3. CASE w.kind # "Run"
  <2>1. at[t] \in Started
    BY <1>3 DEF Sending, SendsCreate, SendsExtend, SendsRun, SendsClose, Started, Request
  <2>2. w.call = nCalls BY SentRequest
  <2> QED BY <1>1, <1>3, <2>1, <2>2, WantNumbers DEF NetInv
<1> QED BY <1>2, <1>3

LEMMA NetInvSends ==
  ASSUME GInv, NEW t \in Threads, NEW w \in Wants, Sending(t, w), Sends(t, w)
  PROVE  NetInv'
<1> USE DEF GInv
<1> DEFINE n == Attempt(t, w, 0)
<1>1. n.thread = t /\ n.want = w /\ n.try = 0 BY DEF Attempt
<1>2. at' = [at EXCEPT ![t] = "rpc"] /\ want' = [want EXCEPT ![t] = w] /\ tries' = [tries EXCEPT ![t] = 0]
      /\ net' = net \cup {n} /\ nCalls' = nCalls
  BY DEF Sends, Moves
<1>3. at \in [Threads -> Places] /\ want \in [Threads -> Wants] /\ tries \in [Threads -> 0 .. kMaxRetries]
  BY DEF GTypes, ClientTypes
<1>4. \A a \in net : a.thread \in Threads /\ (a.thread = t => a.want # w)
  BY SendIsNew, AttemptFields DEF GTypes, NetTypes
<1>5. w.kind # None BY SentRequest
<1> HIDE DEF n
<1>6. \A a, b \in net' : a.thread = b.thread /\ a.want = b.want /\ a.try = b.try => a = b
  BY <1>1, <1>2, <1>4 DEF NetInv
<1>7. \A a \in net' : at'[a.thread] \in Started /\ a.want.kind # "Run" => a.want.call < nCalls'
  BY <1>1, <1>2, <1>3, <1>4 DEF NetInv, Started
<1>8. \A a \in net' : at'[a.thread] = "rpc" /\ a.want = want'[a.thread] => a.try <= tries'[a.thread]
  BY <1>1, <1>2, <1>3, <1>4 DEF NetInv
<1>9. \A a \in net' : a.want.kind # None
  BY <1>1, <1>2, <1>5 DEF NetInv
<1> QED BY <1>6, <1>7, <1>8, <1>9 DEF NetInv

LEMMA NetInvListens ==
  ASSUME GInv, NEW t \in Threads, Listens(t)
  PROVE  NetInv'
<1> USE DEF GInv
<1>0. /\ at \in [Threads -> Places] /\ want \in [Threads -> Wants] /\ tries \in [Threads -> 0 .. kMaxRetries]
      /\ nCalls \in Nat /\ \A a \in net : a.thread \in Threads /\ a.want \in Wants
  BY AttemptFields DEF GTypes, ClientTypes, NetTypes
<1>1. CASE Retries(t)
  <2> DEFINE n == Attempt(t, want[t], tries[t] + 1)
  <2>1. n.thread = t /\ n.want = want[t] /\ n.try = tries[t] + 1 BY DEF Attempt
  <2>2. net' \subseteq net \cup {n} /\ at' = at /\ want' = want /\ nCalls' = nCalls /\ at[t] = "rpc"
        /\ tries' = [tries EXCEPT ![t] = tries[t] + 1]
    BY <1>1 DEF Retries, Abandoned
  <2> HIDE DEF n
  <2>3. want[t].kind # None BY <2>2 DEF WantInv
  <2>4. \A a \in net : a.thread = t /\ a.want = want[t] => a.try <= tries[t] /\ a.try \in Nat /\ tries[t] \in Nat
    BY <2>2, <1>0, AttemptFields DEF NetInv, GTypes, NetTypes
  <2>5. \A a, b \in net' : a.thread = b.thread /\ a.want = b.want /\ a.try = b.try => a = b
    BY <2>1, <2>2, <2>4 DEF NetInv
  <2>6. \A a \in net' : at'[a.thread] \in Started /\ a.want.kind # "Run" => a.want.call < nCalls'
    BY <2>1, <2>2 DEF NetInv, Started
  <2>7. \A a \in net' : at'[a.thread] = "rpc" /\ a.want = want'[a.thread] => a.try <= tries'[a.thread]
    BY <2>1, <2>2, <2>4, <1>0 DEF NetInv
  <2> QED BY <2>1, <2>2, <2>3, <2>5, <2>6, <2>7 DEF NetInv
<1>2. CASE Calls(t)
  <2>1. \A a \in net : a.want.call \in Int /\ a.want.call <= nCalls
    BY <1>0, WantNumbers DEF WantInv, LiveWants, Shaped
  <2>2. \A a \in net' : a.want.call < nCalls' BY <1>0, <1>2, <2>1 DEF Calls
  <2> QED BY <1>0, <1>2, <2>2 DEF Calls, NetInv
<1>3. CASE Tests(t)
  BY <1>0, <1>3 DEF Tests, NetInv, Started
<1>4. ASSUME net' \subseteq net, nCalls' = nCalls, Quits(t) PROVE NetInv'
  BY <1>0, <1>4 DEF Quits, Moves, NetInv, Started
<1>5. ASSUME NEW a \in net, TakesSlice(t, a) PROVE NetInv'
  BY <1>0, <1>5 DEF TakesSlice, Takes, Moves, NetInv, Started
<1> QED BY <1>1, <1>2, <1>3, <1>4, <1>5 DEF Listens, Skips, Drops, TakesCreate, TakesExtend, TakesLast, Takes

LEMMA NetInvMaster ==
  ASSUME GTypes, NetInv, UNCHANGED clientVars,
         Restart \/ \E a \in net, b \in Attempts : MasterStep(a, b)
  PROVE  NetInv'
<1>0. UNCHANGED <<at, want, tries, nCalls>> BY DEF clientVars
<1>1. CASE Restart
  BY <1>0, <1>1 DEF Restart, NetInv
<1>2. ASSUME NEW a \in net, NEW b \in Attempts, MasterStep(a, b) PROVE NetInv'
  <2>1. Becomes(a, b) BY <1>2, MasterBecomes
  <2> QED BY <1>0, <2>1 DEF Becomes, NetInv
<1> QED BY <1>1, <1>2

LEMMA AwaitedStays ==
  ASSUME GTypes, NEW t \in Threads, NEW a \in net, Awaited(a), ClientStep(t), a.thread # t \/ at[t] # "rpc"
  PROVE  Awaited(a)'
<1>0. at \in [Threads -> Places] /\ want \in [Threads -> Wants] /\ tries \in [Threads -> 0 .. kMaxRetries]
      /\ a.thread \in Threads
  BY AttemptFields DEF GTypes, ClientTypes, NetTypes
<1>1. a.thread # t BY DEF Awaited
<1>2. \E l, w, n : Moves(t, l, w, n)
  BY <1>0 DEF ClientStep, Calls, Skips, Tests, Retries, Drops, SendsCreate, SendsExtend, SendsRun, SendsClose,
              Sends, TakesCreate, TakesExtend, TakesSlice, TakesLast, Quits, Moves
<1> QED BY <1>0, <1>1, <1>2 DEF Moves, Awaited

LEMMA DoubtInvClient ==
  ASSUME GInv, NEW t \in Threads, ClientStep(t)
  PROVE  DoubtInv'
<1> USE DEF GInv
<1>0. /\ at \in [Threads -> Places] /\ want \in [Threads -> Wants] /\ tries \in [Threads -> 0 .. kMaxRetries]
      /\ \A a \in net : a.thread \in Threads /\ a.want \in Wants
  BY AttemptFields DEF GTypes, ClientTypes, NetTypes
<1>1. doubt \subseteq doubt'
  BY DEF ClientStep, Calls, Skips, Tests, Retries, Drops, Doubts, SendsCreate, SendsExtend, SendsRun, SendsClose,
         Sends, TakesCreate, TakesExtend, TakesSlice, TakesLast, Takes
<1>2. ASSUME NEW a \in net, a.thread # t \/ at[t] # "rpc" \/ ~Awaited(a)
      PROVE  Awaited(a)' \/ <<a.want.kind, a.want.session>> \in doubt'
  BY <1>1, <1>2, AwaitedStays DEF DoubtInv
<1>3. ASSUME NEW a \in net, a.thread = t, Awaited(a), Doubts(t)
      PROVE  <<a.want.kind, a.want.session>> \in doubt'
  BY <1>3 DEF Doubts, Awaited
<1>4. CASE at[t] # "rpc"
  <2>1. ASSUME NEW w \in Wants, Sends(t, w), NEW a \in net', a \notin net PROVE Awaited(a)'
    BY <1>0, <2>1 DEF Sends, Moves, Attempt, Awaited
  <2>2. net' \subseteq net \/ \E w \in Wants : Sends(t, w)
    BY <1>4, SendsOrListens DEF Listens, Calls, Skips, Tests, Retries, Drops, TakesCreate, TakesExtend, TakesSlice,
       TakesLast, Takes, Waits
  <2> QED BY <1>2, <1>4, <2>1, <2>2 DEF DoubtInv
<1>5. CASE Retries(t)
  <2> DEFINE n == Attempt(t, want[t], tries[t] + 1)
  <2>1. n.thread = t /\ n.want = want[t] /\ n.try = tries[t] + 1 BY DEF Attempt
  <2>2. net' \subseteq net \cup {n} /\ Doubts(t) BY <1>5 DEF Retries, Abandoned
  <2> HIDE DEF n
  <2>3. <<n.want.kind, n.want.session>> \in doubt' BY <2>1, <2>2 DEF Doubts
  <2> QED BY <1>2, <1>3, <2>2, <2>3 DEF DoubtInv
<1>6. CASE Drops(t)
  BY <1>2, <1>3, <1>6 DEF Drops, DoubtInv
<1>7. ASSUME NEW a \in net, Takes(t, a) PROVE DoubtInv'
  <2>1. \A b \in net' : b \in net /\ (b.thread # t \/ ~Awaited(b))
    BY <1>7 DEF Takes, Waits, Awaited, NetInv
  <2> QED BY <1>2, <2>1 DEF DoubtInv
<1>8. at[t] # "rpc" \/ Retries(t) \/ Drops(t) \/ \E a \in net : Takes(t, a)
  BY DEF ClientStep, Calls, Skips, Tests, SendsCreate, SendsExtend, SendsRun, SendsClose,
         TakesCreate, TakesExtend, TakesSlice, TakesLast
<1> QED BY <1>4, <1>5, <1>6, <1>7, <1>8

LEMMA DoubtInvMaster ==
  ASSUME DoubtInv, UNCHANGED clientVars,
         Restart \/ \E a \in net, b \in Attempts : MasterStep(a, b)
  PROVE  DoubtInv'
<1>0. UNCHANGED <<at, want, tries, doubt>> BY DEF clientVars
<1>1. CASE Restart
  BY <1>0, <1>1 DEF Restart, DoubtInv, Awaited
<1>2. ASSUME NEW a \in net, NEW b \in Attempts, MasterStep(a, b) PROVE DoubtInv'
  <2>1. Becomes(a, b) BY <1>2, MasterBecomes
  <2> QED BY <1>0, <2>1 DEF Becomes, DoubtInv, Awaited
<1> QED BY <1>1, <1>2

---------------------------------------------------------------------------
(* Versions of the graph.                                                  *)

\* Without mu_ nobody waits for an Extend.
LEMMA FreeOfExtends ==
  ASSUME GInv, mu = None, NEW t \in Threads
  PROVE  ~ (at[t] = "rpc" /\ want[t].kind = "Extend")
BY NoneAssumption DEF GInv, MuInv

LEMMA MuInvClient ==
  ASSUME GInv, NEW t \in Threads, ClientStep(t)
  PROVE  MuInv'
<1> USE DEF GInv
<1>0. at \in [Threads -> Places] /\ want \in [Threads -> Wants] /\ NoWant.kind = None
  BY DEF GTypes, ClientTypes, NoWant
<1>1. CASE Calls(t) BY <1>0, <1>1 DEF Calls, MuInv
<1>2. CASE Tests(t) BY <1>0, <1>2 DEF Tests, MuInv
<1>3. CASE Retries(t) BY <1>3 DEF Retries, MuInv
<1>4. ASSUME Quits(t), handle' = handle, version' = version, mu' = mu PROVE MuInv'
  BY <1>0, <1>4 DEF Quits, Moves, MuInv
<1>5. CASE Drops(t)
  BY <1>0, <1>5 DEF Drops, Unlock, Quits, Moves, MuInv
<1>6. ASSUME NEW a \in net, TakesCreate(t, a) PROVE MuInv'
  BY <1>0, <1>6, FreeOfExtends DEF TakesCreate, Free, Quits, Moves, MuInv
<1>7. ASSUME NEW a \in net, TakesExtend(t, a) PROVE MuInv'
  <2>1. mu = t BY <1>7, ExtendRaises
  <2> QED BY <1>0, <1>7, <2>1 DEF TakesExtend, Quits, Moves, MuInv
<1>8. ASSUME NEW a \in net, TakesSlice(t, a) PROVE MuInv'
  BY <1>0, <1>8 DEF TakesSlice, Moves, MuInv
<1>9. ASSUME NEW w \in Wants, Sending(t, w), Sends(t, w) PROVE MuInv'
  <2>1. \A u \in Threads : ~ (at[u] = "rpc" /\ want[u].kind = "Extend")
    BY <1>9, FreeOfExtends DEF Sends, Free
  <2>2. \A u \in Threads : u # t => ~ (at'[u] = "rpc" /\ want'[u].kind = "Extend")
    BY <1>0, <1>9, <2>1 DEF Sends, Moves
  <2>3. w.kind = "Extend" => SendsExtend(t) /\ w.session = handle /\ w.version = version
    BY <1>9, SentRequest
  <2>4. want'[t] = w BY <1>0, <1>9 DEF Sends, Moves
  <2> QED BY <2>2, <2>3, <2>4, <1>9 DEF SendsExtend, Sends, MuInv
<1>10. \/ Listens(t) \/ \E w \in Wants : Sending(t, w) /\ Sends(t, w) BY SendsOrListens
<1> QED BY <1>1, <1>2, <1>3, <1>4, <1>5, <1>6, <1>7, <1>8, <1>9, <1>10 DEF Listens, Skips, TakesLast

LEMMA MuInvMaster == ASSUME MuInv, UNCHANGED clientVars PROVE MuInv'
BY DEF clientVars, MuInv

LEMMA CountClient ==
  ASSUME GInv, NEW t \in Threads, ClientStep(t)
  PROVE  CountInv'
<1> USE DEF GInv
<1>0. /\ at \in [Threads -> Places] /\ want \in [Threads -> Wants] /\ NoWant.kind = None
      /\ version \in Int /\ nCalls \in Nat
  BY DEF GTypes, ClientTypes, NoWant
<1>1. IsFiniteSet(Extending) /\ Cardinality(Extending) \in Nat
  BY FS_CardinalityType DEF CountInv
<1>2. ASSUME Extending' = Extending, version' = version \/ version' = 0, nCalls' = nCalls \/ nCalls' = nCalls + 1
      PROVE  CountInv'
  BY <1>0, <1>1, <1>2 DEF CountInv
<1>3. ASSUME Extending' = Extending \ {t}, version' = version, nCalls' = nCalls PROVE CountInv'
  <2>1. CASE t \in Extending BY <1>0, <1>1, <1>3, <2>1, InExtending DEF CountInv
  <2>2. CASE t \notin Extending
    <3>1. Extending' = Extending BY <1>3, <2>2
    <3> QED BY <1>2, <1>3, <3>1
  <2> QED BY <2>1, <2>2
<1>4. ASSUME Quits(t) PROVE Extending' = Extending \ {t}
  BY <1>0, <1>4 DEF Quits, Moves, Extending
<1>5. ASSUME NEW w \in Wants, Sending(t, w), Sends(t, w) PROVE Extending' = Extending
  <2>1. at'[t] = "rpc" /\ want'[t] = w /\ \A u \in Threads : u # t => at'[u] = at[u] /\ want'[u] = want[u]
    BY <1>0, <1>5 DEF Sends, Moves
  <2>2. at[t] # "rpc" /\ at[t] # "Extend" /\ (at[t] = "ExtendLocked" <=> w.kind = "Extend")
    BY <1>5, SentRequest DEF Sending, SendsCreate, SendsExtend, SendsRun, SendsClose
  <2>3. \A u \in Threads : u \in Extending' <=> u \in Extending
    BY <2>1, <2>2 DEF Extending
  <2> QED BY <2>3 DEF Extending
<1>6. CASE Calls(t)
  <2>1. PICK m \in {"Create", "Extend", "Run", "Close"} : at' = [at EXCEPT ![t] = m] BY <1>6 DEF Calls
  <2>2. t \notin Extending /\ want' = want /\ version' = version /\ nCalls' = nCalls + 1
    BY <1>6 DEF Calls, Extending
  <2>3. CASE m = "Extend"
    <3>1. Extending' = Extending \cup {t} BY <1>0, <2>1, <2>2, <2>3 DEF Extending
    <3>2. IsFiniteSet(Extending \cup {t}) /\ Cardinality(Extending \cup {t}) = Cardinality(Extending) + 1
      BY <1>1, <2>2, FS_AddElement
    <3> QED BY <1>0, <1>1, <2>2, <3>1, <3>2 DEF CountInv
  <2>4. CASE m # "Extend"
    <3>1. Extending' = Extending BY <1>0, <1>6, <2>1, <2>2, <2>4 DEF Calls, Extending
    <3> QED BY <1>2, <2>2, <3>1
  <2> QED BY <2>3, <2>4
<1>7. CASE Tests(t)
  <2>1. Extending' = Extending \/ Extending' = Extending \ {t}
    BY <1>0, <1>7 DEF Tests, Extending
  <2> QED BY <1>2, <1>3, <1>7, <2>1 DEF Tests
<1>8. CASE Retries(t) BY <1>2, <1>8 DEF Retries, Extending
<1>9. CASE Skips(t) \/ Drops(t) BY <1>3, <1>4, <1>9 DEF Skips, Drops
<1>10. ASSUME NEW a \in net, TakesCreate(t, a) PROVE CountInv'
  <2>1. t \notin Extending BY <1>10 DEF TakesCreate, Takes, Waits, Extending
  <2>2. Extending' = Extending BY <2>1, <1>4, <1>10 DEF TakesCreate
  <2> QED BY <1>2, <1>10, <2>2 DEF TakesCreate, Takes
<1>11. ASSUME NEW a \in net, TakesExtend(t, a) PROVE CountInv'
  <2>1. t \in Extending /\ version' = version + 1 BY <1>11, ExtendRaises
  <2>2. Extending' = Extending \ {t} /\ nCalls' = nCalls BY <1>4, <1>11 DEF TakesExtend, Takes
  <2> QED BY <1>0, <1>1, <2>1, <2>2, InExtending DEF CountInv
<1>12. ASSUME NEW a \in net, TakesSlice(t, a) PROVE CountInv'
  <2>1. \A u \in Threads : want'[u] = want[u] /\ (u # t => at'[u] = at[u])
    BY <1>0, <1>12 DEF TakesSlice, Moves
  <2>2. at'[t] = "Run" /\ at[t] = "rpc" /\ want[t].kind = "Run"
    BY <1>0, <1>12 DEF TakesSlice, Takes, Waits, Moves
  <2>3. Extending' = Extending BY <2>1, <2>2 DEF Extending
  <2> QED BY <1>2, <1>12, <2>3 DEF TakesSlice, Takes
<1>13. ASSUME NEW a \in net, TakesLast(t, a) PROVE CountInv'
  BY <1>3, <1>4, <1>13 DEF TakesLast, Takes
<1>14. ASSUME NEW w \in Wants, Sending(t, w), Sends(t, w) PROVE CountInv'
  BY <1>2, <1>5, <1>14 DEF Sends
<1> QED BY SendsOrListens, <1>6, <1>7, <1>8, <1>9, <1>10, <1>11, <1>12, <1>13, <1>14 DEF Listens

LEMMA CountMaster == ASSUME CountInv, UNCHANGED clientVars PROVE CountInv'
BY DEF clientVars, CountInv, Extending

LEMMA ClientAnswers ==
  ASSUME NEW t \in Threads, ClientStep(t)
  PROVE  \A b \in net' : b \in net \/ b.state = "sent"
<1>1. ASSUME NEW w, NEW n PROVE Attempt(t, w, n).state = "sent" BY DEF Attempt
<1>2. CASE \E w, n : net' \subseteq net \cup {Attempt(t, w, n)}
  BY <1>1, <1>2
<1>3. net' \subseteq net \/ \E w, n : net' \subseteq net \cup {Attempt(t, w, n)}
  BY DEF ClientStep, Calls, Skips, Tests, Retries, Abandoned, Drops, SendsCreate, SendsExtend, SendsRun, SendsClose,
         Sends, TakesCreate, TakesExtend, TakesSlice, TakesLast, Takes
<1> QED BY <1>2, <1>3

LEMMA ClientSessions ==
  ASSUME GInv, NEW t \in Threads, ClientStep(t), NEW x \in LiveWants'
  PROVE  x \in LiveWants \/ x.session \in {handle, None}
<1> USE DEF GInv
<1>1. NoWant.session = None BY DEF NoWant
<1>2. CASE Listens(t) BY <1>1, <1>2, ListenWants
<1>3. ASSUME NEW w \in Wants, Sending(t, w), Sends(t, w) PROVE x \in LiveWants \/ x.session \in {handle, None}
  BY <1>3, SendWants, SentRequest
<1> QED BY <1>2, <1>3, SendsOrListens

LEMMA ClientHandle ==
  ASSUME NEW t \in Threads, ClientStep(t)
  PROVE  handle' \in {handle, None} \/ \E a \in net : TakesCreate(t, a)
BY DEF ClientStep, Calls, Skips, Tests, Retries, Drops, SendsCreate, SendsExtend, SendsRun, SendsClose,
       Sends, TakesExtend, TakesSlice, TakesLast

LEMMA FreshClient ==
  ASSUME GInv, NEW t \in Threads, ClientStep(t), UNCHANGED <<phase, graphVersion>>
  PROVE  FreshInv'
<1> USE DEF GInv
<1> SUFFICES ASSUME NEW a \in net', a.want.kind = "Create", a.state = "ok"
             PROVE  /\ a.reply.session \in Sessions /\ a.reply.session # handle'
                    /\ phase[a.reply.session] # "none" /\ graphVersion[a.reply.session] = 0
                    /\ \A w \in LiveWants' : w.session # a.reply.session
                    /\ \A b \in net' : b.want.kind = "Create" /\ b.state = "ok"
                                       /\ b.reply.session = a.reply.session => b = a
  BY DEF FreshInv
<1>1. \A b \in net' : b.state = "ok" => b \in net BY ClientAnswers
<1>2. a \in net BY <1>1
<1>3. /\ a.reply.session \in Sessions /\ a.reply.session # handle
      /\ phase[a.reply.session] # "none" /\ graphVersion[a.reply.session] = 0
      /\ \A w \in LiveWants : w.session # a.reply.session
      /\ \A b \in net : b.want.kind = "Create" /\ b.state = "ok"
                        /\ b.reply.session = a.reply.session => b = a
  BY <1>2 DEF FreshInv
<1>4. a.reply.session # handle'
  <2>1. ASSUME NEW c \in net, TakesCreate(t, c) PROVE a.reply.session # handle'
    BY <1>3, <2>1 DEF TakesCreate, Takes, Waits
  <2> QED BY <1>3, <2>1, ClientHandle, NoneAssumption
<1>5. \A w \in LiveWants' : w.session # a.reply.session
  BY <1>3, ClientSessions, NoneAssumption
<1> QED BY <1>1, <1>3, <1>4, <1>5

LEMMA FreshMaster ==
  ASSUME GInv, UNCHANGED clientVars, NEW a \in net, NEW b \in Attempts, MasterStep(a, b)
  PROVE  FreshInv'
<1> USE DEF GInv
<1>0. /\ handle' = handle /\ LiveWants' \subseteq LiveWants /\ Becomes(a, b) /\ net' \subseteq net \cup {b}
      /\ phase \in [Sessions -> Phases] /\ graphVersion \in [Sessions -> Nat]
  BY MasterWants, MasterBecomes DEF clientVars, Becomes, GTypes, MasterTypes
<1>1. CASE Creates(a, b)
  <2> DEFINE s == b.reply.session
  <2>1. /\ s \in Sessions /\ phase[s] = "none" /\ graphVersion[s] = 0
        /\ phase'[s] = "open" /\ graphVersion' = graphVersion /\ handle # s
        /\ \A r \in Sessions : r # s => phase'[r] = phase[r]
    BY <1>0, <1>1 DEF Creates, FreshInv, WantInv
  <2>2. \A w \in LiveWants : w.session # s
    BY <2>1 DEF WantInv, Shaped
  <2>3. \A c \in net : c.want.kind = "Create" /\ c.state = "ok" => c.reply.session # s
    BY <2>1 DEF FreshInv
  <2> HIDE DEF s
  <2>4. \A c \in net' : c.want.kind = "Create" /\ c.state = "ok" =>
          /\ c.reply.session \in Sessions /\ c.reply.session # handle
          /\ phase'[c.reply.session] # "none" /\ graphVersion[c.reply.session] = 0
          /\ \A w \in LiveWants : w.session # c.reply.session
    BY <1>0, <2>1, <2>2, <2>3 DEF FreshInv, s
  <2>5. \A c, d \in net' : /\ c.want.kind = "Create" /\ c.state = "ok"
                           /\ d.want.kind = "Create" /\ d.state = "ok"
                           /\ d.reply.session = c.reply.session
                           => d = c
    BY <1>0, <2>3 DEF FreshInv, s
  <2>6. \A r \in Sessions : phase'[r] = "none" => graphVersion[r] = 0
    BY <2>1 DEF FreshInv
  <2> QED BY <1>0, <2>1, <2>4, <2>5, <2>6 DEF FreshInv
<1>2. CASE ~Creates(a, b)
  <2>1. \A c \in net' : c.want.kind = "Create" /\ c.state = "ok" => c \in net
    BY <1>0, <1>2 DEF MasterStep, Errs, Extends, Tracks, Finishes, Closes, Becomes
  <2>2. \A s \in Sessions : phase[s] = "none" <=> phase'[s] = "none"
    <3>1. CASE Closes(a, b)
      <4>1. phase[a.want.session] # "none"
        BY <3>1 DEF Closes, WantInv, LiveWants, Shaped
      <4> QED BY <1>0, <3>1, <4>1 DEF Closes
    <3>2. CASE ~Closes(a, b)
      BY <1>2, <3>2 DEF MasterStep, Errs, Extends, Tracks, Finishes
    <3> QED BY <3>1, <3>2
  <2>3. \A s \in Sessions : (phase[s] = "none" \/ \A w \in LiveWants : w.session # s) => graphVersion'[s] = graphVersion[s]
    <3>1. CASE Extends(a, b)
      <4>1. a.want \in LiveWants /\ phase[a.want.session] # "none"
        BY <3>1 DEF Extends, WantInv, LiveWants, Shaped
      <4> QED BY <1>0, <3>1, <4>1 DEF Extends
    <3>2. CASE ~Extends(a, b)
      BY <1>2, <3>2 DEF MasterStep, Errs, Tracks, Finishes, Closes
    <3> QED BY <3>1, <3>2
  <2> QED BY <1>0, <2>1, <2>2, <2>3 DEF FreshInv
<1> QED BY <1>1, <1>2

LEMMA FreshRestart == ASSUME GInv, Restart PROVE FreshInv'
<1>1. \A s \in Sessions : phase[s] = "none" <=> phase'[s] = "none"
  BY DEF Restart, GInv, GTypes, MasterTypes
<1>2. net' \subseteq net /\ LiveWants' \subseteq LiveWants /\ handle' = handle /\ graphVersion' = graphVersion
  BY RestartWants, MasterFrame DEF Restart, clientVars
<1> QED BY <1>1, <1>2 DEF FreshInv, GInv

LEMMA AnsweredAwaited ==
  ASSUME NetTypes
  PROVE  ExtendAnswered <=> \E a \in net : Awaited(a) /\ a.want.kind = "Extend" /\ a.state = "ok"
BY WaitsAwaited DEF ExtendAnswered, NetTypes

LEMMA AnsweredAwaitedNext ==
  ASSUME NetTypes'
  PROVE  ExtendAnswered' <=> \E a \in net' : Awaited(a)' /\ a.want.kind = "Extend" /\ a.state = "ok"
BY AttemptFields DEF ExtendAnswered, NetTypes, Waits, Awaited

LEMMA ExtendClient ==
  ASSUME GInv, GTypes', NEW t \in Threads, ClientStep(t), UNCHANGED <<phase, graphVersion>>
  PROVE  ExtendInv'
<1> USE DEF GInv
<1>0. /\ version \in Int /\ version' \in Int /\ graphVersion \in [Sessions -> Nat] /\ None \notin Sessions
      /\ NetTypes /\ NetTypes' /\ NoWant.kind # "Extend"
      /\ \A w \in LiveWants : w.version \in Int
  <2>1. \A w \in LiveWants : w.version \in Int BY WantsType, WantNumbers
  <2>2. NoWant.kind # "Extend" BY DEF NoWant, None
  <2> QED BY <2>1, <2>2, NoneAssumption DEF GTypes, ClientTypes, MasterTypes
<1>1. \A b \in net' : b.state = "ok" => b \in net BY ClientAnswers
<1>2. \A a \in net' : a.want.kind = "Extend" /\ a.state = "ok" =>
        /\ a.want.session \in Sessions /\ a.reply.version = a.want.version + 1
        /\ a.reply.version <= graphVersion'[a.want.session]
  BY <1>1 DEF ExtendInv
<1>3. ASSUME NEW a \in net, TakesCreate(t, a) PROVE ExtendInv'
  <2>1. handle' \in Sessions /\ version' = 0 /\ graphVersion[handle'] = 0
        /\ \A w \in LiveWants : w.session # handle'
    BY <1>3 DEF TakesCreate, Takes, Waits, FreshInv
  <2>2. LiveWants' \subseteq LiveWants \cup {NoWant}
    BY <1>3, ListenWants DEF Listens
  <2> QED BY <1>0, <1>2, <2>1, <2>2 DEF ExtendInv, Behind
<1>4. ASSUME NEW a \in net, TakesExtend(t, a) PROVE ExtendInv'
  <2>1. handle' = handle /\ handle \in Sessions /\ version' = version + 1 /\ version' = graphVersion[handle]
    BY <1>4, ExtendRaises DEF TakesExtend
  <2>2. LiveWants' \subseteq LiveWants \cup {NoWant}
    BY <1>4, ListenWants DEF Listens
  <2> QED BY <1>0, <1>2, <2>1, <2>2 DEF ExtendInv, Behind
<1>5. CASE SendsClose(t)
  <2>1. handle' = None BY <1>5 DEF SendsClose
  <2> QED BY <1>0, <1>2, <2>1 DEF ExtendInv, Behind
<1>6. CASE /\ ~SendsClose(t) /\ ~ \E a \in net : TakesCreate(t, a) \/ TakesExtend(t, a)
  <2>1. handle' = handle /\ version' = version /\ doubt \subseteq doubt'
    BY <1>6 DEF ClientStep, Calls, Skips, Tests, Retries, Drops, Doubts, SendsCreate, SendsExtend, SendsRun,
                Sends, TakesSlice, TakesLast, Takes
  <2>2. ASSUME NEW w \in LiveWants', w.kind = "Extend" PROVE w \in LiveWants \/ w.version = version
    <3>1. CASE Listens(t) BY <1>0, <2>2, <3>1, ListenWants
    <3>2. ASSUME NEW x \in Wants, Sending(t, x), Sends(t, x) PROVE w \in LiveWants \/ w.version = version
      BY <2>2, <3>2, SendWants, SentRequest
    <3> QED BY <3>1, <3>2, SendsOrListens
  <2>3. ASSUME Behind' PROVE <<"Extend", handle>> \in doubt'
    <3>1. handle \in Sessions /\ version < graphVersion[handle] BY <2>1, <2>3 DEF Behind
    <3>2. CASE ~ExtendAnswered
      BY <2>1, <3>1, <3>2 DEF Behind, ExtendInv
    <3>3. CASE ExtendAnswered
      <4>1. PICK a \in net : Awaited(a) /\ a.want.kind = "Extend" /\ a.state = "ok"
        BY <1>0, <3>3, AnsweredAwaited
      <4>2. a \notin net' \/ ~Awaited(a)' BY <1>0, <2>3, <4>1, AnsweredAwaitedNext DEF Behind
      <4>3. a.thread \in Threads BY <1>0, AttemptFields DEF NetTypes
      <4>4. CASE a.thread = t
        <5>1. at[t] = "rpc" /\ want[t].kind = "Extend" /\ want[t].session = handle
          BY <4>1, <4>4 DEF Awaited, MuInv
        <5>2. Retries(t) \/ Drops(t)
          BY <1>6, <5>1 DEF ClientStep, Calls, Skips, Tests, SendsCreate, SendsExtend, SendsRun, TakesSlice, TakesLast
        <5> QED BY <5>1, <5>2 DEF Retries, Drops, Doubts
      <4>5. CASE a.thread # t
        <5>1. Awaited(a)' BY <4>1, <4>5, AwaitedStays
        <5>2. a \in net'
          BY <4>5, <1>6 DEF ClientStep, Calls, Skips, Tests, Retries, Abandoned, Drops, SendsCreate, SendsExtend, SendsRun,
                Sends, TakesSlice, TakesLast, Takes, Waits
        <5> QED BY <4>2, <5>1, <5>2
      <4> QED BY <4>4, <4>5
    <3> QED BY <3>2, <3>3
  <2>4. \A w \in LiveWants' :
          w.kind = "Extend" /\ w.session \in Sessions /\ w.session = handle' => w.version <= version'
    BY <1>0, <2>1, <2>2 DEF ExtendInv
  <2> QED BY <1>0, <1>2, <2>1, <2>3, <2>4 DEF ExtendInv
<1> QED BY <1>3, <1>4, <1>5, <1>6

LEMMA ExtendMaster ==
  ASSUME GInv, GTypes', UNCHANGED clientVars, NEW a \in net, NEW b \in Attempts, MasterStep(a, b)
  PROVE  ExtendInv'
<1> USE DEF GInv
<1>0. /\ version \in Int /\ version' = version /\ handle' = handle /\ doubt' = doubt
      /\ graphVersion \in [Sessions -> Nat] /\ NetTypes /\ NetTypes' /\ Becomes(a, b)
      /\ LiveWants' \subseteq LiveWants /\ a.want \in LiveWants /\ \A w \in LiveWants : w.version \in Int
      /\ UNCHANGED <<at, want, tries>>
  <2>1. LiveWants' \subseteq LiveWants /\ Becomes(a, b) BY MasterWants, MasterBecomes
  <2>2. \A w \in LiveWants : w.version \in Int BY WantsType, WantNumbers
  <2>3. a.want \in LiveWants BY DEF LiveWants
  <2> QED BY <2>1, <2>2, <2>3 DEF GTypes, ClientTypes, MasterTypes, clientVars
<1>9. /\ b.want = a.want /\ net' \subseteq net \cup {b} /\ net \ {a} \subseteq net'
      /\ a.state \in {"sent", "serving"}
  BY <1>0 DEF MasterStep, Errs, Creates, Extends, Tracks, Finishes, Closes, Becomes
<1>10. ExtendAnswered => ExtendAnswered'
  <2> SUFFICES ASSUME NEW c \in net, Awaited(c), c.want.kind = "Extend", c.state = "ok" PROVE ExtendAnswered'
    BY <1>0, AnsweredAwaited
  <2>1. c \in net' BY <1>9
  <2>2. Awaited(c)' BY <1>0 DEF Awaited
  <2> QED BY <1>0, <2>1, <2>2, AnsweredAwaitedNext
<1>1. CASE Extends(a, b)
  <2>1. /\ a.want.session \in Sessions /\ a.want.version = graphVersion[a.want.session]
        /\ b.want = a.want /\ b.reply.version = a.want.version + 1 /\ b.state = "ok" /\ a.want.kind = "Extend"
        /\ graphVersion'[a.want.session] = graphVersion[a.want.session] + 1
        /\ \A s \in Sessions : s # a.want.session => graphVersion'[s] = graphVersion[s]
        /\ net' \subseteq net \cup {b} /\ a.state = "sent"
    BY <1>0, <1>1 DEF Extends, Becomes
  <2>2. handle \in Sessions => version <= graphVersion'[handle] /\ graphVersion'[handle] <= version + 1
    <3>1. CASE handle = a.want.session
      <4>1. a.want.version <= version /\ version <= graphVersion[handle] /\ graphVersion[handle] \in Nat
        BY <1>0, <2>1, <3>1 DEF ExtendInv
      <4> QED BY <1>0, <2>1, <3>1, <4>1
    <3>2. CASE handle # a.want.session BY <2>1, <3>2 DEF ExtendInv
    <3> QED BY <3>1, <3>2
  <2>3. \A s \in Sessions : graphVersion[s] \in Nat /\ graphVersion'[s] \in Nat /\ graphVersion[s] <= graphVersion'[s]
    BY <1>0, <2>1
  <2>4. \A c \in net : c.reply.version \in Int
    BY <1>0 DEF NetTypes, Attempts, Replies
  <2>5. \A c \in net' : c.want.kind = "Extend" /\ c.state = "ok" =>
          /\ c.want.session \in Sessions /\ c.reply.version = c.want.version + 1
          /\ c.reply.version <= graphVersion'[c.want.session]
    <3> SUFFICES ASSUME NEW c \in net', c.want.kind = "Extend", c.state = "ok"
                 PROVE  /\ c.want.session \in Sessions /\ c.reply.version = c.want.version + 1
                        /\ c.reply.version <= graphVersion'[c.want.session]
      OBVIOUS
    <3>1. CASE c = b
      <4>1. a.want.version \in Int BY <1>0
      <4>2. c.want = a.want /\ c.reply.version = a.want.version + 1
            /\ graphVersion'[a.want.session] = a.want.version + 1
        BY <2>1, <3>1
      <4> QED BY <4>1, <4>2, <2>1
    <3>2. CASE c # b
      <4>1. c \in net BY <2>1, <3>2
      <4>2. c.want.session \in Sessions /\ c.reply.version = c.want.version + 1
            /\ c.reply.version <= graphVersion[c.want.session]
        BY <4>1 DEF ExtendInv
      <4> QED BY <4>1, <4>2, <2>3, <2>4
    <3> QED BY <3>1, <3>2
  <2>6. ASSUME Behind' PROVE <<"Extend", handle>> \in doubt
    <3>1. handle \in Sessions /\ ~ExtendAnswered' /\ version < graphVersion'[handle] BY <1>0, <2>6 DEF Behind
    <3>2. ~ExtendAnswered BY <1>10, <3>1
    <3>3. CASE handle = a.want.session
      <4>1. CASE Awaited(a)
        <5>1. b \in net' BY <1>0, <4>1 DEF Becomes
        <5>2. Awaited(b)' BY <1>0, <4>1 DEF Awaited, Becomes
        <5> QED BY <1>0, <2>1, <3>1, <5>1, <5>2, AnsweredAwaitedNext
      <4>2. CASE ~Awaited(a) BY <2>1, <3>3, <4>2 DEF DoubtInv
      <4> QED BY <4>1, <4>2
    <3>4. CASE handle # a.want.session
      BY <2>1, <3>1, <3>2, <3>4 DEF Behind, ExtendInv
    <3> QED BY <3>3, <3>4
  <2> QED BY <1>0, <2>2, <2>5, <2>6 DEF ExtendInv
<1>2. CASE ~Extends(a, b)
  <2>1. graphVersion' = graphVersion
    BY <1>2 DEF MasterStep, Errs, Creates, Tracks, Finishes, Closes
  <2>2. a.want.kind = "Extend" => b.state = "error"
    BY <1>2 DEF MasterStep, Errs, Creates, Tracks, Finishes, Closes
  <2>3. \A c \in net' : c.want.kind = "Extend" /\ c.state = "ok" => c \in net
    BY <1>9, <2>2
  <2> QED BY <1>0, <1>10, <2>1, <2>3 DEF ExtendInv, Behind
<1> QED BY <1>1, <1>2

LEMMA ExtendRestart == ASSUME GInv, GTypes', Restart PROVE ExtendInv'
<1> USE DEF GInv
<1>0. UNCHANGED <<handle, version, doubt, at, want, tries, graphVersion>>
      /\ net' = {a \in net : a.state # "serving"} /\ LiveWants' \subseteq LiveWants
      /\ NetTypes /\ NetTypes'
  BY RestartWants, MasterFrame DEF Restart, clientVars, GTypes
<1>1. ExtendAnswered => ExtendAnswered'
  <2> SUFFICES ASSUME NEW c \in net, Awaited(c), c.want.kind = "Extend", c.state = "ok" PROVE ExtendAnswered'
    BY <1>0, AnsweredAwaited
  <2>1. c \in net' /\ Awaited(c)' BY <1>0 DEF Awaited
  <2> QED BY <1>0, <2>1, AnsweredAwaitedNext
<1> QED BY <1>0, <1>1 DEF ExtendInv, Behind

---------------------------------------------------------------------------
(* Slices and their ids.                                                   *)

LEMMA RanClient ==
  ASSUME GInv, GTypes', NEW t \in Threads, ClientStep(t), UNCHANGED <<phase, idSet, forgotten, ran>>
  PROVE  RanInv'
<1> USE DEF GInv
<1>0. /\ nextId \in Nat /\ nextId' \in Nat /\ nextId <= nextId' /\ NoWant.kind # "Run"
      /\ \A i \in Ids : i \in Nat
  BY CountersGrow, TrackingAssumption DEF NoWant, None
<1>1. \A i \in Ids : i >= nextId' => ran'[i] = 0
  BY <1>0 DEF RanInv
<1>2. ASSUME NEW x \in LiveWants', x.kind = "Run", ran'[x.id] > 0 PROVE x \in LiveWants
  <2>1. CASE Listens(t) BY <1>0, <1>2, <2>1, ListenWants
  <2>2. ASSUME NEW w \in Wants, Sending(t, w), Sends(t, w), x = w PROVE FALSE
    <3>1. x.id = nextId /\ nextId \in Ids BY <1>2, <2>2, SentRequest DEF SendsRun
    <3>2. ran[nextId] = 0 BY <1>0, <3>1 DEF RanInv
    <3> QED BY <1>2, <3>1, <3>2
  <2>3. ASSUME NEW w \in Wants, Sending(t, w), Sends(t, w) PROVE x \in LiveWants
    BY <2>2, <2>3, SendWants
  <2> QED BY <2>1, <2>3, SendsOrListens
<1>3. \A a \in net' : a.state \in {"serving", "ok"} => a \in net BY ClientAnswers
<1> QED BY <1>1, <1>2, <1>3 DEF RanInv, StepRunsOnce

LEMMA RanMaster ==
  ASSUME GInv, UNCHANGED clientVars, NEW a \in net, NEW b \in Attempts, MasterStep(a, b)
  PROVE  RanInv'
<1> USE DEF GInv
<1>0. /\ nextId' = nextId /\ nextId \in Nat /\ ran \in [Ids -> Nat] /\ phase \in [Sessions -> Phases]
      /\ LiveWants' \subseteq LiveWants /\ a.want \in LiveWants /\ Shaped(a.want)
      /\ net' \subseteq net \cup {b} /\ b.want = a.want /\ b.thread = a.thread
      /\ \A i \in Ids : i \in Nat
      /\ \A w \in LiveWants : w.kind = "Run" => w.id \in Ids /\ w.session \in Sessions /\ phase[w.session] # "none"
  <2>1. LiveWants' \subseteq LiveWants /\ Becomes(a, b) BY MasterWants, MasterBecomes
  <2>2. a.want \in LiveWants BY DEF LiveWants
  <2> QED BY <2>1, <2>2, TrackingAssumption DEF Becomes, clientVars, GTypes, ClientTypes, MasterTypes, WantInv, Shaped
<1>1. CASE Tracks(a, b)
  <2> DEFINE i == a.want.id
  <2>1. /\ i \in Ids /\ i \notin idSet /\ i < nextId /\ phase' = phase
        /\ forgotten \subseteq forgotten'
        /\ \A j \in idSet \cup {i} : j \in Ids => j \in idSet' \/ j \in forgotten'
    BY <1>0, <1>1, TrackingAssumption DEF Tracks, Shaped
  <2>2. CASE ran' = ran /\ b.state = "error"
    BY <1>0, <2>1, <2>2 DEF RanInv, StepRunsOnce
  <2>3. CASE /\ b.state = "serving" /\ phase[a.want.session] = "open"
             /\ ran' = [ran EXCEPT ![i] = ran[i] + 1]
    <3>1. ran'[i] = ran[i] + 1 /\ ran[i] \in Nat /\ \A j \in Ids : j # i => ran'[j] = ran[j]
      BY <1>0, <2>1, <2>3
    <3>2. ran[i] > 0 => i \in forgotten
      BY <1>0, <1>1, <2>1, <2>3 DEF RanInv, Tracks
    <3> HIDE DEF i
    <3>3. \A j \in Ids : j >= nextId => ran'[j] = 0
      BY <1>0, <2>1, <3>1 DEF RanInv
    <3>4. \A w \in LiveWants : w.kind = "Run" /\ ran'[w.id] > 0 =>
            w.id \in idSet' \/ w.id \in forgotten' \/ phase'[w.session] # "open"
      BY <1>0, <2>1, <3>1 DEF RanInv
    <3>5. \A c \in net' : c.want.kind = "Run" /\ c.state \in {"serving", "ok"} => ran'[c.want.id] > 0
      <4> TAKE c \in net'
      <4>1. CASE c = b BY <1>0, <3>1, <4>1 DEF i
      <4>2. CASE c # b
        <5>1. c \in net /\ c.want \in LiveWants BY <1>0, <4>2 DEF LiveWants
        <5> QED BY <1>0, <3>1, <5>1 DEF RanInv
      <4> QED BY <4>1, <4>2
    <3>6. \A j \in Ids : ran'[j] > 1 => j \in forgotten'
      BY <1>0, <2>1, <3>1, <3>2 DEF RanInv, StepRunsOnce
    <3> QED BY <1>0, <3>3, <3>4, <3>5, <3>6 DEF RanInv, StepRunsOnce
  <2> QED BY <1>1, <2>2, <2>3 DEF Tracks
<1>2. CASE ~Tracks(a, b)
  <2>1. UNCHANGED <<idSet, forgotten, ran>>
    BY <1>2 DEF MasterStep, Errs, Creates, Extends, Finishes, Closes, IdsRest, idVars
  <2>2. \A s \in Sessions : phase[s] # "none" /\ phase[s] # "open" => phase'[s] # "open"
    BY <1>0, <1>2 DEF MasterStep, Errs, Creates, Extends, Finishes, Closes
  <2>3. b.want.kind = "Run" /\ b.state \in {"serving", "ok"} => a.state = "serving"
    BY <1>0, <1>2 DEF MasterStep, Errs, Creates, Extends, Finishes, Closes
  <2>4. \A c \in net' : c.want.kind = "Run" /\ c.state \in {"serving", "ok"} => ran[c.want.id] > 0
    BY <1>0, <2>3 DEF RanInv
  <2>5. \A w \in LiveWants : w.kind = "Run" /\ ran[w.id] > 0 =>
          w.id \in idSet \/ w.id \in forgotten \/ phase'[w.session] # "open"
    BY <1>0, <2>2 DEF RanInv
  <2> QED BY <1>0, <2>1, <2>4, <2>5 DEF RanInv, StepRunsOnce
<1> QED BY <1>1, <1>2

LEMMA RanRestart == ASSUME GInv, Restart PROVE RanInv'
<1> USE DEF GInv
<1>0. UNCHANGED <<nextId, ran, forgotten>> /\ net' \subseteq net /\ LiveWants' \subseteq LiveWants
  BY RestartWants, MasterFrame DEF Restart, clientVars
<1>1. \A s \in Sessions : phase'[s] # "open" BY DEF Restart
<1>2. \A w \in LiveWants : w.kind = "Run" => w.session \in Sessions BY DEF WantInv, Shaped
<1> QED BY <1>0, <1>1, <1>2 DEF RanInv, StepRunsOnce

LEMMA OverlapClient ==
  ASSUME GInv, NEW t \in Threads, ClientStep(t)
  PROVE  OverlapInv'
<1> USE DEF GInv
<1>0. want \in [Threads -> Wants] /\ overlapped \in BOOLEAN /\ NoWant.kind # "Create"
  BY DEF GTypes, ClientTypes, NoWant, None
<1>1. ASSUME overlapped => overlapped', handle' \in {handle, None},
             \A u \in Threads : want'[u].kind = "Create" => want[u].kind = "Create"
      PROVE  OverlapInv'
  BY <1>1 DEF OverlapInv
<1>2. ASSUME Quits(t) PROVE /\ \A u \in Threads : want'[u].kind = "Create" => want[u].kind = "Create" /\ u # t
  BY <1>0, <1>2 DEF Quits, Moves
<1>3. CASE SendsCreate(t)
  <2>1. \A u \in Threads : u # t => want'[u] = want[u]
    BY <1>0, <1>3 DEF SendsCreate, Sends, Moves
  <2> QED BY <1>3, <2>1 DEF SendsCreate, OverlapInv
<1>4. ASSUME NEW a \in net, TakesCreate(t, a) PROVE OverlapInv'
  BY <1>2, <1>4 DEF TakesCreate, Takes, OverlapInv
<1>5. ASSUME NEW w \in Wants, Sending(t, w), Sends(t, w), ~SendsCreate(t) PROVE OverlapInv'
  <2>1. w.kind # "Create" BY <1>5, SentRequest
  <2>2. \A u \in Threads : want'[u].kind = "Create" => want[u].kind = "Create"
    BY <1>0, <1>5, <2>1 DEF Sends, Moves
  <2>3. handle' \in {handle, None} /\ overlapped' = overlapped
    BY <1>5 DEF Sending, SendsExtend, SendsRun, SendsClose
  <2> QED BY <1>1, <2>2, <2>3
<1>6. CASE Skips(t) \/ Drops(t) BY <1>1, <1>2, <1>6 DEF Skips, Drops
<1>7. CASE Calls(t) \/ Tests(t) \/ Retries(t) BY <1>1, <1>7 DEF Calls, Tests, Retries
<1>8. ASSUME NEW a \in net, TakesExtend(t, a) \/ TakesLast(t, a) PROVE OverlapInv'
  BY <1>1, <1>2, <1>8 DEF TakesExtend, TakesLast, Takes
<1>9. ASSUME NEW a \in net, TakesSlice(t, a) PROVE OverlapInv'
  BY <1>0, <1>1, <1>9 DEF TakesSlice, Takes, Moves
<1> QED BY SendsOrListens, <1>3, <1>4, <1>5, <1>6, <1>7, <1>8, <1>9 DEF Listens

LEMMA OverlapMaster == ASSUME OverlapInv, UNCHANGED clientVars PROVE OverlapInv'
BY DEF clientVars, OverlapInv

\* The sessions of the client, and the ids of the slices it has answers to.
LEMMA SettledStays ==
  ASSUME GInv, NEW t \in Threads, ClientStep(t)
  PROVE  Settled \subseteq Settled'
<1> USE DEF GInv
<1>0. overlapped \in BOOLEAN /\ overlapped' \in BOOLEAN /\ (overlapped => overlapped') /\ dropped \subseteq dropped'
      /\ None \notin Sessions
  BY NoneAssumption DEF GTypes, ClientTypes, ClientStep, Calls, Skips, Tests, Retries, Drops, SendsCreate, SendsExtend,
     SendsRun, SendsClose, Sends, TakesCreate, TakesExtend, TakesSlice, TakesLast, Takes
<1>1. CASE handle' = handle BY <1>0, <1>1 DEF Settled
<1>2. CASE SendsClose(t)
  BY <1>0, <1>2 DEF SendsClose, Settled
<1>3. ASSUME NEW a \in net, TakesCreate(t, a) PROVE Settled \subseteq Settled'
  <2>1. handle = None \/ overlapped BY <1>3 DEF TakesCreate, OverlapInv
  <2> QED BY <1>0, <2>1 DEF Settled
<1>4. handle' = handle \/ SendsClose(t) \/ \E a \in net : TakesCreate(t, a)
  BY DEF ClientStep, Calls, Skips, Tests, Retries, Drops, SendsCreate, SendsExtend, SendsRun, Sends,
         TakesExtend, TakesSlice, TakesLast
<1> QED BY <1>1, <1>2, <1>3, <1>4

\* The part of UsedInv that is about thread t.
UsedOf(t) ==
  /\ want[t].kind = "Run" => want[t].session \in Settled
  /\ \A k \in 1 .. Len(used[t]) :
       /\ used[t][k].session \in Settled /\ used[t][k].id \in Ids
       /\ used[t][k].id < nextId /\ ran[used[t][k].id] > 0
       /\ at[t] = "rpc" => used[t][k].id < want[t].id
       /\ at[t] = "rpc" /\ used[t][k].session # want[t].session =>
            used[t][k].session \in dropped \/ overlapped

LEMMA UsedByThread == UsedInv <=> \A t \in Threads : UsedOf(t)
BY DEF UsedInv, UsedOf, AnsweredSlicesRan, SlicesShareSession

LEMMA UsedByThreadNext == UsedInv' <=> \A t \in Threads : UsedOf(t)'
BY DEF UsedInv, UsedOf, AnsweredSlicesRan, SlicesShareSession

LEMMA UsedStays ==
  ASSUME NEW t \in Threads, UsedOf(t), Settled \subseteq Settled', UNCHANGED ran,
         dropped \subseteq dropped', overlapped => overlapped', nextId \in Nat, nextId' \in Nat, nextId <= nextId',
         at'[t] = "rpc" => at[t] = "rpc", want'[t] = want[t], used'[t] = used[t]
  PROVE  UsedOf(t)'
<1>1. \A i \in Ids : i \in Nat BY TrackingAssumption
<1> QED BY <1>1 DEF UsedOf

LEMMA UsedClient ==
  ASSUME GInv, GTypes', NEW t \in Threads, ClientStep(t), UNCHANGED ran
  PROVE  UsedInv'
<1> USE DEF GInv
<1>0. /\ at \in [Threads -> Places] /\ want \in [Threads -> Wants] /\ used \in [Threads -> Seq(Wants)]
      /\ overlapped \in BOOLEAN /\ NoWant.kind # "Run"
  BY DEF GTypes, ClientTypes, NoWant, None
<1>1. (overlapped => overlapped') /\ dropped \subseteq dropped' /\ Settled \subseteq Settled'
      /\ nextId \in Nat /\ nextId' \in Nat /\ nextId <= nextId'
  <2>1. (overlapped => overlapped') /\ dropped \subseteq dropped'
    BY <1>0 DEF ClientStep, Calls, Skips, Tests, Retries, Drops, SendsCreate, SendsExtend, SendsRun, SendsClose, Sends,
                TakesCreate, TakesExtend, TakesSlice, TakesLast, Takes
  <2> QED BY <2>1, SettledStays, CountersGrow
<1>2. \A u \in Threads : UsedOf(u) BY UsedByThread
<1>3. ASSUME NEW u \in Threads, u # t PROVE UsedOf(u)'
  <2>1. at'[u] = at[u] /\ want'[u] = want[u] /\ used'[u] = used[u]
    BY <1>0, <1>3 DEF ClientStep, Calls, Skips, Tests, Retries, Drops, SendsCreate, SendsExtend, SendsRun, SendsClose, Sends,
         TakesCreate, TakesExtend, TakesSlice, TakesLast, Quits, Moves
  <2> QED BY <1>1, <1>2, <2>1, UsedStays
<1>4. UsedOf(t)'
  <2>1. CASE Quits(t)
    <3>1. want'[t] = NoWant /\ used'[t] = << >> BY <1>0, <2>1 DEF Quits, Moves
    <3> QED BY <1>0, <3>1 DEF UsedOf
  <2>2. CASE Calls(t) \/ Tests(t) \/ Retries(t)
    <3>1. (at'[t] = "rpc" => at[t] = "rpc") /\ want'[t] = want[t] /\ used'[t] = used[t]
      BY <1>0, <2>2 DEF Calls, Tests, Retries
    <3> QED BY <1>1, <1>2, <3>1, UsedStays
  <2>3. ASSUME NEW a \in net, TakesSlice(t, a) PROVE UsedOf(t)'
    <3>1. /\ at'[t] = "Run" /\ want'[t] = want[t] /\ used'[t] = Append(used[t], want[t])
          /\ want[t].kind = "Run" /\ want[t] = a.want /\ a.state = "ok" /\ nextId' = nextId
          /\ want[t] \in Wants /\ used[t] \in Seq(Wants)
      BY <1>0, <2>3 DEF TakesSlice, Takes, Waits, Moves
    <3>2. ran[want[t].id] > 0 BY <3>1 DEF RanInv
    <3>3. want[t].id \in Ids /\ want[t].id < nextId /\ want[t].session \in Settled
      BY <1>2, <3>1 DEF WantInv, LiveWants, Shaped, UsedOf
    <3>4. ASSUME NEW k \in 1 .. Len(used'[t])
          PROVE  /\ used'[t][k].session \in Settled /\ used'[t][k].id \in Ids
                 /\ used'[t][k].id < nextId /\ ran[used'[t][k].id] > 0
      <4>1. Len(used'[t]) = Len(used[t]) + 1 /\ Len(used[t]) \in Nat
        BY <3>1, AppendUsed
      <4>2. CASE k = Len(used[t]) + 1
        <5>1. used'[t][k] = want[t] BY <3>1, <4>2, AppendUsed
        <5> QED BY <3>2, <3>3, <5>1
      <4>3. CASE k # Len(used[t]) + 1
        <5>1. k \in 1 .. Len(used[t]) BY <4>1, <4>3
        <5>2. used'[t][k] = used[t][k] BY <3>1, <5>1, AppendUsed
        <5> QED BY <1>2, <5>1, <5>2 DEF UsedOf
      <4> QED BY <4>2, <4>3
    <3> QED BY <1>1, <3>1, <3>3, <3>4 DEF UsedOf
  <2>4. ASSUME NEW w \in Wants, Sending(t, w), Sends(t, w) PROVE UsedOf(t)'
    <3>1. at'[t] = "rpc" /\ want'[t] = w /\ used'[t] = used[t] BY <1>0, <2>4 DEF Sends, Moves
    <3>2. CASE w.kind = "Run"
      <4>1. /\ handle' = handle /\ handle \in Sessions /\ w.id = nextId /\ w.session = handle
            /\ dropped' = dropped /\ overlapped' = overlapped
        BY <2>4, <3>2, SentRequest DEF SendsRun, GTypes, ClientTypes
      <4>2. Settled' = Settled /\ handle \in Settled BY <4>1 DEF Settled
      <4>3. \A k \in 1 .. Len(used[t]) :
              used[t][k].session # handle => used[t][k].session \in dropped \/ overlapped
        BY <1>2 DEF UsedOf, Settled
      <4>4. \A i \in Ids : i \in Nat BY TrackingAssumption
      <4> QED BY <1>1, <1>2, <3>1, <4>1, <4>2, <4>3, <4>4 DEF UsedOf
    <3>3. CASE w.kind # "Run"
      <4>1. at[t] \notin {"Run", "rpc"}
        BY <2>4, <3>3, SentRequest DEF Sending, SendsCreate, SendsExtend, SendsRun, SendsClose
      <4>2. used[t] = << >> BY <4>1, NothingUsed
      <4> QED BY <3>1, <3>3, <4>2 DEF UsedOf
    <3> QED BY <3>2, <3>3
  <2> QED BY SendsOrListens, <2>1, <2>2, <2>3, <2>4
          DEF Listens, Skips, Drops, TakesCreate, TakesExtend, TakesLast
<1> QED BY <1>3, <1>4, UsedByThreadNext

LEMMA UsedMaster ==
  ASSUME GInv, UNCHANGED clientVars, ran' \in [Ids -> Nat], \A i \in Ids : ran'[i] >= ran[i]
  PROVE  UsedInv'
<1> USE DEF GInv
<1>1. UNCHANGED <<handle, dropped, overlapped, at, want, used, nextId>> /\ Settled' = Settled
  BY DEF clientVars, Settled
<1>2. \A i \in Ids : ran[i] > 0 => ran'[i] > 0 BY DEF GTypes, MasterTypes
<1> QED BY <1>1, <1>2 DEF UsedInv, AnsweredSlicesRan, SlicesShareSession

---------------------------------------------------------------------------
(* Sessions that are open and not the client's.                            *)

\* Why session s may be open though the client does not have it.
Cause(s) ==
  \/ overlapped \/ <<"Create", None>> \in doubt \/ <<"Close", s>> \in doubt
  \/ \E t \in Threads : at[t] = "rpc" /\ want[t].kind = "Close" /\ want[t].session = s
  \/ \E a \in net : Awaited(a) /\ a.want.kind = "Create" /\ a.state = "ok" /\ a.reply.session = s

LEMMA CauseStays ==
  ASSUME GInv, NEW t \in Threads, ClientStep(t), NEW s \in Sessions, Cause(s), phase[s] = "open", handle' # s
  PROVE  Cause(s)'
<1> USE DEF GInv
<1>0. /\ at \in [Threads -> Places] /\ want \in [Threads -> Wants] /\ overlapped \in BOOLEAN
      /\ \A a \in net : a.thread \in Threads
  BY AttemptFields DEF GTypes, ClientTypes, NetTypes
<1>1. CASE overlapped \/ <<"Create", None>> \in doubt \/ <<"Close", s>> \in doubt
  <2>1. (overlapped => overlapped') /\ doubt \subseteq doubt'
    BY <1>0 DEF ClientStep, Calls, Skips, Tests, Retries, Drops, Doubts, SendsCreate, SendsExtend, SendsRun, SendsClose,
         Sends, TakesCreate, TakesExtend, TakesSlice, TakesLast, Takes
  <2> QED BY <1>1, <2>1 DEF Cause
<1>2. ASSUME at[t] = "rpc", ~ \E a \in net : Takes(t, a) PROVE Doubts(t)
  BY <1>2 DEF ClientStep, Calls, Skips, Tests, Retries, Drops, SendsCreate, SendsExtend, SendsRun, SendsClose,
       TakesCreate, TakesExtend, TakesSlice, TakesLast
<1>3. ASSUME NEW u \in Threads, at[u] = "rpc", want[u].kind = "Close", want[u].session = s PROVE Cause(s)'
  <2>1. CASE u = t
    <3>1. ~ \E a \in net : Takes(t, a)
      BY <1>3, <2>1 DEF Takes, Waits, ClosedInv
    <3> QED BY <1>2, <1>3, <2>1, <3>1 DEF Doubts, Cause
  <2>2. CASE u # t
    <3>1. at'[u] = at[u] /\ want'[u] = want[u]
      BY <1>0, <2>2 DEF ClientStep, Calls, Skips, Tests, Retries, Drops, SendsCreate, SendsExtend, SendsRun, SendsClose,
           Sends, TakesCreate, TakesExtend, TakesSlice, TakesLast, Quits, Moves
    <3> QED BY <1>3, <3>1 DEF Cause
  <2> QED BY <2>1, <2>2
<1>4. ASSUME NEW a \in net, Awaited(a), a.want.kind = "Create", a.state = "ok", a.reply.session = s PROVE Cause(s)'
  <2>1. CASE a.thread = t
    <3>1. at[t] = "rpc" /\ want[t] = a.want /\ want[t].kind = "Create" /\ want[t].session = None
      BY <1>4, <2>1 DEF Awaited, WantInv, LiveWants, Shaped
    <3>2. Doubts(t) \/ \E d \in net : TakesCreate(t, d)
      BY <3>1 DEF ClientStep, Calls, Skips, Tests, Retries, Drops, SendsCreate, SendsExtend, SendsRun, SendsClose,
           TakesExtend, TakesSlice, TakesLast
    <3>3. ASSUME NEW d \in net, TakesCreate(t, d) PROVE FALSE
      <4>1. d = a BY <1>4, <2>1, <3>3 DEF TakesCreate, Takes, Waits, Awaited, NetInv
      <4> QED BY <1>4, <3>3, <4>1 DEF TakesCreate
    <3> QED BY <3>1, <3>2, <3>3 DEF Doubts, Cause
  <2>2. CASE a.thread # t
    <3>1. Awaited(a)' BY <1>4, <2>2, AwaitedStays
    <3>2. a \in net'
      BY <2>2 DEF ClientStep, Calls, Skips, Tests, Retries, Abandoned, Drops, SendsCreate, SendsExtend, SendsRun, SendsClose,
           Sends, TakesCreate, TakesExtend, TakesSlice, TakesLast, Takes, Waits
    <3> QED BY <1>4, <3>1, <3>2 DEF Cause
  <2> QED BY <2>1, <2>2
<1> QED BY <1>1, <1>3, <1>4 DEF Cause

LEMMA ClosedClient ==
  ASSUME GInv, NEW t \in Threads, ClientStep(t), UNCHANGED phase
  PROVE  ClosedInv'
<1> USE DEF GInv
<1>0. \A s \in Sessions : phase[s] = "open" /\ handle # s => Cause(s)
  BY DEF ClosedInv, Cause
<1>1. ASSUME NEW s \in Sessions, phase[s] = "open", handle' # s PROVE Cause(s)'
  <2>1. CASE handle # s BY <1>0, <1>1, <2>1, CauseStays
  <2>2. CASE handle = s
    <3>1. SendsClose(t) \/ \E a \in net : TakesCreate(t, a)
      BY <1>1, <2>2 DEF ClientStep, Calls, Skips, Tests, Retries, Drops, SendsCreate, SendsExtend, SendsRun, Sends,
         TakesExtend, TakesSlice, TakesLast
    <3>2. CASE SendsClose(t)
      <4>1. handle # None BY <3>2 DEF SendsClose
      <4>2. Request("Close", handle, 0, 0).kind = "Close" /\ Request("Close", handle, 0, 0).session = handle
        BY DEF Request
      <4>3. at'[t] = "rpc" /\ want'[t] = Request("Close", handle, 0, 0)
        BY <3>2 DEF SendsClose, Sends, Moves, GTypes, ClientTypes
      <4> QED BY <2>2, <4>2, <4>3 DEF Cause
    <3>3. ASSUME NEW a \in net, TakesCreate(t, a) PROVE Cause(s)'
      <4>1. handle # None BY <2>2, NoneAssumption
      <4>2. overlapped /\ overlapped' = overlapped BY <3>3, <4>1 DEF TakesCreate, Takes, OverlapInv
      <4> QED BY <4>2 DEF Cause
    <3> QED BY <3>1, <3>2, <3>3
  <2> QED BY <2>1, <2>2
<1>2. \A a \in net' : a.state \in {"serving", "ok"} => a \in net BY ClientAnswers
<1>3. \A s \in Sessions : phase'[s] = "open" /\ handle' # s => Cause(s)' BY <1>1
<1>4. \A a \in net' : a.want.kind = "Close" /\ a.state \in {"serving", "ok"} =>
        phase'[a.want.session] \notin {"none", "open"}
  BY <1>2 DEF ClosedInv
<1> QED BY <1>3, <1>4 DEF ClosedInv, Cause

LEMMA ClosedMaster ==
  ASSUME GInv, UNCHANGED clientVars, NEW a \in net, NEW b \in Attempts, MasterStep(a, b)
  PROVE  ClosedInv'
<1> USE DEF GInv
<1>0. /\ UNCHANGED <<handle, at, want, tries, doubt, overlapped>> /\ Becomes(a, b)
      /\ phase \in [Sessions -> Phases] /\ net' \subseteq net \cup {b} /\ net \ {a} \subseteq net'
      /\ b.want = a.want /\ b.thread = a.thread /\ b.try = a.try
      /\ a.state \in {"sent", "serving"}
  BY MasterBecomes DEF clientVars, Becomes, GTypes, MasterTypes,
     MasterStep, Errs, Creates, Extends, Tracks, Finishes, Closes
<1>1. \A s \in Sessions : phase'[s] = phase[s] \/ phase[s] = "none" \/ phase'[s] \notin {"none", "open"}
  BY <1>0 DEF MasterStep, Errs, Creates, Extends, Tracks, Finishes, Closes
<1>2. \A c \in net' : c.want.kind = "Close" /\ c.state \in {"serving", "ok"} =>
        phase'[c.want.session] \notin {"none", "open"}
  <2> SUFFICES ASSUME NEW c \in net', c.want.kind = "Close", c.state \in {"serving", "ok"}
               PROVE  phase'[c.want.session] \notin {"none", "open"}
    OBVIOUS
  <2>1. CASE c \in net
    <3>1. c.want.session \in Sessions BY <2>1 DEF WantInv, LiveWants, Shaped
    <3>2. phase[c.want.session] \notin {"none", "open"} BY <2>1 DEF ClosedInv
    <3> QED BY <1>1, <3>1, <3>2
  <2>2. CASE c \notin net
    <3>1. c = b BY <1>0, <2>2
    <3>2. Closes(a, b)
      BY <1>0, <3>1 DEF MasterStep, Errs, Creates, Extends, Tracks, Finishes
    <3> QED BY <1>0, <3>1, <3>2 DEF Closes
  <2> QED BY <2>1, <2>2
<1>3. ASSUME NEW s \in Sessions, Cause(s) PROVE Cause(s)'
  <2>1. \A c \in net : c.state = "ok" /\ Awaited(c) => c \in net' /\ Awaited(c)'
    BY <1>0 DEF Awaited
  <2> QED BY <1>0, <1>3, <2>1 DEF Cause
<1>4. ASSUME NEW s \in Sessions, phase'[s] = "open", handle' # s PROVE Cause(s)'
  <2>1. CASE phase[s] = "open"
    BY <1>0, <1>3, <1>4, <2>1 DEF ClosedInv, Cause
  <2>2. CASE phase[s] # "open"
    <3>1. Creates(a, b) /\ b.reply.session = s
      BY <1>0, <1>4, <2>2 DEF MasterStep, Errs, Creates, Extends, Tracks, Finishes, Closes
    <3>2. CASE Awaited(a)
      <4>1. b \in net' BY <1>0, <3>2 DEF Becomes
      <4>2. Awaited(b)' BY <1>0, <3>2 DEF Awaited
      <4> QED BY <1>0, <3>1, <4>1, <4>2 DEF Creates, Cause
    <3>3. CASE ~Awaited(a)
      <4>1. a.want.kind = "Create" /\ a.want.session = None
        BY <3>1 DEF Creates, WantInv, LiveWants, Shaped
      <4> QED BY <1>0, <3>3, <4>1 DEF DoubtInv, Cause
    <3> QED BY <3>2, <3>3
  <2> QED BY <2>1, <2>2
<1> QED BY <1>2, <1>4 DEF ClosedInv, Cause

LEMMA ClosedRestart == ASSUME GInv, Restart PROVE ClosedInv'
<1> USE DEF GInv
<1>1. \A s \in Sessions : phase'[s] # "open" /\ (phase[s] # "none" => phase'[s] = "gone")
  BY DEF Restart, GTypes, MasterTypes
<1>2. \A c \in net' : c \in net BY DEF Restart
<1>3. \A c \in net : c.want.kind = "Close" => c.want.session \in Sessions BY DEF WantInv, LiveWants, Shaped
<1>4. \A c \in net' : c.want.kind = "Close" /\ c.state \in {"serving", "ok"} =>
        phase'[c.want.session] \notin {"none", "open"}
  BY <1>1, <1>2, <1>3 DEF ClosedInv
<1> QED BY <1>1, <1>4 DEF ClosedInv

---------------------------------------------------------------------------
(* The invariant, and what follows from it.                                *)

LEMMA GInitInv == GInit => GInv
<1> SUFFICES ASSUME GInit PROVE GInv
  OBVIOUS
<1>0. /\ at = [t \in Threads |-> "idle"] /\ want = [t \in Threads |-> NoWant] /\ net = {}
      /\ tries = [t \in Threads |-> 0] /\ sc = [t \in Threads |-> 0] /\ used = [t \in Threads |-> << >>]
      /\ nextId = 1 /\ nCalls = 0 /\ ran = [i \in Ids |-> 0] /\ forgotten = {} /\ doubt = {} /\ dropped = {}
      /\ overlapped = FALSE /\ mu = None /\ IdsInit
      /\ NoWant \in Wants /\ NoWant.kind = None /\ NoWant.session = None /\ NoWant.call = 0
      /\ None \notin Sessions /\ MaxCalls \in Nat /\ kMaxRetries \in Nat /\ spl \in Nat \ {0}
  BY NoWantType, NoneAssumption, GrpcAssumption DEF GInit, NoWant
<1>1. /\ handle \in Sessions \cup {None} /\ version \in {-1, 0}
      /\ handle \in Sessions => version = 0 /\ phase[handle] = "open"
      /\ phase \in [Sessions -> Phases] /\ graphVersion = [s \in Sessions |-> 0]
      /\ \A s \in Sessions : s # handle => phase[s] = "none"
  <2>1. CASE handle = None /\ version = -1 /\ ServiceInit
    BY <1>0, <2>1 DEF ServiceInit, Phases
  <2>2. CASE /\ handle \in Sessions /\ version = 0
             /\ phase = [s \in Sessions |-> IF s = handle THEN "open" ELSE "none"]
             /\ graphVersion = [s \in Sessions |-> 0] /\ steps = [s \in Sessions |-> {}]
    BY <1>0, <2>2 DEF Phases
  <2> QED BY <2>1, <2>2 DEF GInit, Start
<1>2. ClientTypes
  <2>1. used \in [Threads -> Seq(Wants)] /\ \A t \in Threads : Len(used[t]) = sc[t]
    BY <1>0
  <2>2. version \in -1 .. MaxCalls /\ nCalls \in 0 .. MaxCalls /\ nextId \in Nat \ {0}
    BY <1>0, <1>1
  <2>3. tries \in [Threads -> 0 .. kMaxRetries] /\ sc \in [Threads -> 0 .. spl - 1]
    BY <1>0
  <2>4. at \in [Threads -> Places] /\ want \in [Threads -> Wants] /\ overlapped \in BOOLEAN
    BY <1>0 DEF Places
  <2> QED BY <1>0, <1>1, <2>1, <2>2, <2>3, <2>4 DEF ClientTypes
<1>3. GTypes BY <1>0, <1>1, <1>2, IdsInitially DEF GTypes, MasterTypes, NetTypes
<1>4. LiveWants \subseteq {NoWant} BY <1>0 DEF LiveWants
<1>5. WantInv BY <1>0, <1>1, <1>4, NoWantShaped, <1>3 DEF WantInv
<1>6. NetInv /\ DoubtInv /\ MuInv BY <1>0 DEF NetInv, DoubtInv, MuInv
<1>7. ExtendInv
  <2>1. NoWant.kind # "Extend" BY DEF NoWant, None
  <2> QED BY <1>0, <1>1, <1>4, <2>1 DEF ExtendInv, Behind
<1>8. FreshInv BY <1>0, <1>1 DEF FreshInv
<1>9. RanInv
  <2>1. NoWant.kind # "Run" BY DEF NoWant, None
  <2> QED BY <1>0, <1>4, <2>1 DEF RanInv, StepRunsOnce
<1>10. UsedInv /\ OverlapInv
  <2>1. NoWant.kind \notin {"Run", "Create"} BY DEF NoWant, None
  <2> QED BY <1>0, <2>1 DEF UsedInv, OverlapInv, AnsweredSlicesRan, SlicesShareSession
<1>11. ClosedInv BY <1>0, <1>1 DEF ClosedInv
<1>12. CountInv
  <2>1. Extending = {} BY <1>0 DEF Extending
  <2> QED BY <1>0, <1>1, <2>1, FS_EmptySet DEF CountInv
<1> QED BY <1>3, <1>5, <1>6, <1>7, <1>8, <1>9, <1>10, <1>11, <1>12 DEF GInv

LEMMA GInvNext == GInv /\ [GNext]_gVars => GInv'
<1> SUFFICES ASSUME GInv, [GNext]_gVars PROVE GInv'
  OBVIOUS
<1>0. GTypes /\ WantInv BY DEF GInv
<1>1. CASE UNCHANGED gVars
  <2>1. IdsInv' BY <1>0, <1>1, IdsUnchanged DEF gVars, GTypes
  <2>2. UNCHANGED <<phase, graphVersion, steps, clientVars, net, ran, forgotten, idSet>>
        /\ LiveWants' = LiveWants
    BY <1>1 DEF gVars, serviceVars, idVars, clientVars, LiveWants
  <2>3. GTypes' BY <1>0, <2>1, <2>2 DEF clientVars, GTypes, ClientTypes, MasterTypes, NetTypes
  <2>4. WantInv' /\ NetInv' /\ DoubtInv'
    BY <2>2 DEF GInv, clientVars, WantInv, Shaped, NetInv, DoubtInv, Awaited
  <2>5. ExtendInv' /\ FreshInv'
    BY <2>2 DEF GInv, clientVars, ExtendInv, FreshInv, Behind, ExtendAnswered, Waits
  <2>6. RanInv' /\ ClosedInv' BY <2>2 DEF GInv, clientVars, RanInv, StepRunsOnce, ClosedInv, Awaited
  <2>7. UsedInv' BY <2>2 DEF GInv, clientVars, UsedInv, AnsweredSlicesRan, SlicesShareSession, Settled
  <2> QED BY <2>2, <2>3, <2>4, <2>5, <2>6, <2>7, MuInvMaster, OverlapMaster, CountMaster DEF GInv
<1>2. ASSUME NEW t \in Threads,
             \/ ThreadStep(t) \/ RpcEnds(t)
             \/ \E method \in {"Create", "Extend", "Run", "Close"} : Call(t, method)
      PROVE  GInv'
  <2>1. ClientStep(t) BY <1>0, <1>2, ClientCases
  <2>2. UNCHANGED <<phase, graphVersion, idVars, idSet, forgotten, ran>>
    BY <1>2, ClientFrame DEF serviceVars, idVars
  <2>3. GTypes'
    BY <1>0, <2>1, <2>2, ClientTypesNext, NetTypesNext, IdsUnchanged DEF GTypes, MasterTypes
  <2>4. WantInv'
    BY <1>0, <2>1, <2>2, <2>3, SendsOrListens, WantInvListens, WantInvSends
  <2>5. NetInv' BY <1>0, <2>1, SendsOrListens, NetInvListens, NetInvSends
  <2>6. DoubtInv' /\ MuInv' /\ ExtendInv' /\ FreshInv'
    BY <2>1, <2>2, <2>3, DoubtInvClient, MuInvClient, ExtendClient, FreshClient
  <2>7. RanInv' /\ UsedInv' /\ OverlapInv' /\ ClosedInv' /\ CountInv'
    BY <2>1, <2>2, <2>3, RanClient, UsedClient, OverlapClient, ClosedClient, CountClient
  <2> QED BY <2>3, <2>4, <2>5, <2>6, <2>7 DEF GInv
<1>3. ASSUME NEW a \in net, Serve(a) PROVE GInv'
  <2>1. PICK b \in Attempts : MasterStep(a, b) BY <1>0, <1>3, MasterCases
  <2>2. UNCHANGED clientVars /\ LiveWants' \subseteq LiveWants
    BY <1>3, <2>1, MasterFrame, MasterWants
  <2>3. ClientTypes' BY <1>0, <2>2 DEF clientVars, GTypes, ClientTypes
  <2>4. GTypes' BY <1>0, <2>1, <2>3, MasterTypesNext, IdsNextInv DEF GTypes
  <2>5. WantInv' /\ NetInv' /\ DoubtInv'
    BY <1>0, <2>1, <2>2, WantInvMaster, NetInvMaster, DoubtInvMaster DEF GInv
  <2>6. ExtendInv' /\ FreshInv' /\ RanInv' /\ ClosedInv'
    BY <2>1, <2>2, <2>4, ExtendMaster, FreshMaster, RanMaster, ClosedMaster
  <2>7. UsedInv'
    <3>1. ran' \in [Ids -> Nat] /\ ran \in [Ids -> Nat] BY <1>0, <2>4 DEF GTypes, MasterTypes
    <3>2. ran' = ran \/ \E j \in Ids : ran' = [ran EXCEPT ![j] = ran[j] + 1]
      BY <2>1 DEF MasterStep, Errs, Creates, Extends, Tracks, Finishes, Closes
    <3>3. \A i \in Ids : ran[i] \in Nat /\ (ran'[i] = ran[i] \/ ran'[i] = ran[i] + 1)
      BY <3>1, <3>2
    <3>4. \A i \in Ids : ran'[i] >= ran[i]
      BY <3>3
    <3> QED BY <2>2, <3>1, <3>4, UsedMaster
  <2>8. MuInv' /\ OverlapInv' /\ CountInv' BY <2>2, MuInvMaster, OverlapMaster, CountMaster DEF GInv
  <2> QED BY <2>4, <2>5, <2>6, <2>7, <2>8 DEF GInv
<1>4. CASE Restart
  <2>1. UNCHANGED clientVars /\ LiveWants' \subseteq LiveWants BY <1>4, MasterFrame, RestartWants
  <2>2. GTypes' BY <1>0, <1>4, RestartTypes
  <2>3. WantInv' /\ NetInv' /\ DoubtInv'
    BY <1>0, <1>4, <2>1, WantInvMaster, NetInvMaster, DoubtInvMaster DEF GInv
  <2>4. ExtendInv' /\ FreshInv' /\ RanInv' /\ ClosedInv'
    BY <1>4, <2>2, ExtendRestart, FreshRestart, RanRestart, ClosedRestart
  <2>5. ran' = ran /\ ran \in [Ids -> Nat] BY <1>0, <1>4 DEF Restart, GTypes, MasterTypes
  <2>6. UsedInv' BY <2>1, <2>5, UsedMaster
  <2>7. MuInv' /\ OverlapInv' /\ CountInv' BY <2>1, MuInvMaster, OverlapMaster, CountMaster DEF GInv
  <2> QED BY <2>2, <2>3, <2>4, <2>6, <2>7 DEF GInv
<1> QED BY <1>1, <1>2, <1>3, <1>4 DEF GNext

\* The inductive invariant of the client, the network and the master.
THEOREM GrpcInvariant == GSpec => []GInv
BY GInitInv, GInvNext, PTL DEF GSpec

\* Types of grpc_session.h and of the RPCs, for every number of threads and
\* calls.  mu_ is held beyond a critical section only by a thread whose Extend
\* is not answered yet: no end of an RPC leaves it locked.
THEOREM GrpcTypeCorrect == GSpec => []GTypeOK
<1>1. GInv => GTypeOK
  <2> SUFFICES ASSUME GInv PROVE GTypeOK
    OBVIOUS
  <2> USE DEF GInv, GTypes
  <2>1. \A a \in net : /\ a.thread \in Threads /\ a.want \in Wants /\ a.try \in 0 .. kMaxRetries
                       /\ a.state \in {"sent", "serving", "ok", "error"}
    BY AttemptFields DEF NetTypes, States
  <2>2. \A t \in Threads : Len(used[t]) = sc[t] /\ (at[t] = "idle" => want[t] = NoWant)
    BY DEF ClientTypes, WantInv
  <2> QED BY <2>1, <2>2 DEF GTypeOK, ClientTypes, Places, IdsInv
<1> QED BY <1>1, GrpcInvariant, PTL

\* The master's RecentRequestIds remembers the last NumTracked slices also when
\* requests are retried, lost or late, and when the master restarts.
THEOREM SystemTracksTheLast == GSpec => []TracksTheLast
<1>1. GInv => TracksTheLast BY DEF GInv, GTypes, IdsInv
<1> QED BY <1>1, GrpcInvariant, PTL

\* A retried, delayed or repeated slice is run again only after its id dropped
\* out of the master's memory.
THEOREM SlicesRunOnce == GSpec => []StepRunsOnce
<1>1. GInv => StepRunsOnce BY DEF GInv, RanInv
<1> QED BY <1>1, GrpcInvariant, PTL

\* Every answered slice of a Run was run, and before the next was sent.
THEOREM AnswersAreOfRuns == GSpec => []AnsweredSlicesRan
<1>1. GInv => AnsweredSlicesRan BY DEF GInv, UsedInv
<1> QED BY <1>1, GrpcInvariant, PTL

\* Two slices of one Run go to two sessions only if the first was closed by
\* another thread or two Creates overlapped.
THEOREM RunsStayInASession == GSpec => []SlicesShareSession
<1>1. GInv => SlicesShareSession BY DEF GInv, UsedInv
<1> QED BY <1>1, GrpcInvariant, PTL

\* current_graph_version_ is never ahead of the master's, and behind it only
\* by an Extend that was left without an answer.
THEOREM VersionsAgree == GSpec => []BehindOnlyInDoubt
<1>1. GInv => BehindOnlyInDoubt BY DEF GInv, ExtendInv, BehindOnlyInDoubt
<1> QED BY <1>1, GrpcInvariant, PTL

\* Every session that is open and not the client's has a cause on record.
THEOREM OrphansHaveACause == GSpec => []OrphansExplained
<1>1. GInv => OrphansExplained
  <2> SUFFICES ASSUME GInv, NEW s \in Sessions, phase[s] = "open", handle # s
               PROVE  \/ overlapped \/ <<"Create", None>> \in doubt \/ <<"Close", s>> \in doubt
                      \/ \E t \in Threads : \/ want[t].kind = "Create"
                                            \/ (want[t].kind = "Close" /\ want[t].session = s)
    BY DEF OrphansExplained
  <2>1. \A a \in net : Awaited(a) => a.thread \in Threads /\ a.want = want[a.thread]
    BY AttemptFields DEF GInv, GTypes, NetTypes, Awaited
  <2> QED BY <2>1 DEF GInv, ClosedInv
<1> QED BY <1>1, GrpcInvariant, PTL

\* A client that has fallen behind stays behind: neither a late attempt nor a
\* retry extends its session, and no answer changes its version, until it has
\* another handle.
THEOREM BehindStaysBehind == GSpec => BehindForGood
<1>1. GInv /\ [GNext]_gVars =>
        [Behind /\ handle' = handle => version' = version /\ graphVersion'[handle] = graphVersion[handle]]_gVars
  <2> SUFFICES ASSUME GInv, GNext, Behind, handle' = handle
               PROVE  version' = version /\ graphVersion'[handle] = graphVersion[handle]
    OBVIOUS
  <2>0. /\ GTypes /\ WantInv /\ handle \in Sessions /\ version < graphVersion[handle] /\ ~ExtendAnswered
        /\ version \in Int /\ graphVersion \in [Sessions -> Nat]
    BY DEF GInv, GTypes, ClientTypes, MasterTypes, Behind
  <2>1. ASSUME NEW t \in Threads,
               \/ ThreadStep(t) \/ RpcEnds(t)
               \/ \E method \in {"Create", "Extend", "Run", "Close"} : Call(t, method)
        PROVE  version' = version /\ graphVersion' = graphVersion
    <3>1. ClientStep(t) /\ graphVersion' = graphVersion
      BY <2>0, <2>1, ClientCases, ClientFrame DEF serviceVars
    <3>2. ASSUME NEW a \in net, TakesCreate(t, a) PROVE FALSE
      BY <3>2 DEF GInv, FreshInv, TakesCreate, Takes, Waits
    <3>3. ASSUME NEW a \in net, TakesExtend(t, a) PROVE FALSE
      BY <2>0, <3>3 DEF TakesExtend, Takes, Waits, ExtendAnswered
    <3> QED BY <3>1, <3>2, <3>3 DEF ClientStep, Calls, Skips, Tests, Retries, Drops, SendsCreate, SendsExtend, SendsRun,
              SendsClose, Sends, TakesSlice, TakesLast
  <2>2. ASSUME NEW a \in net, Serve(a) PROVE version' = version /\ graphVersion'[handle] = graphVersion[handle]
    <3>1. PICK b \in Attempts : MasterStep(a, b) BY <2>0, <2>2, MasterCases
    <3>2. version' = version BY <2>2, MasterFrame DEF clientVars
    <3>3. CASE Extends(a, b)
      <4>1. a.want.session # handle
        <5> SUFFICES ASSUME a.want.session = handle PROVE FALSE
          OBVIOUS
        <5>1. a.want \in LiveWants /\ a.want.kind = "Extend" BY <3>3 DEF LiveWants, Extends
        <5>2. a.want.version <= version BY <2>0, <5>1 DEF GInv, ExtendInv
        <5> QED BY <2>0, <3>3, <5>2 DEF Extends
      <4> QED BY <2>0, <3>2, <3>3, <4>1 DEF Extends
    <3>4. CASE ~Extends(a, b)
      BY <3>1, <3>2, <3>4 DEF MasterStep, Errs, Creates, Tracks, Finishes, Closes
    <3> QED BY <3>3, <3>4
  <2>3. CASE Restart BY <2>3, MasterFrame DEF Restart, clientVars
  <2> QED BY <2>1, <2>2, <2>3 DEF GNext
<1> QED BY <1>1, GrpcInvariant, PTL DEF GSpec, BehindForGood

=============================================================================
