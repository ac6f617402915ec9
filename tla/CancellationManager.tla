------------------------ MODULE CancellationManager ------------------------
(***************************************************************************)
(* tensorflow/core/framework/cancellation.{h,cc}: the object through which *)
(* a session cancels its steps and a step cancels its operations.          *)
(*                                                                         *)
(* Callers take a token, register a callback under it and deregister it    *)
(* when their operation is over; cancellers call StartCancel.  A section   *)
(* under mu_ is one step.  The callbacks run without mu_, so the start and *)
(* the end of each is a step of its own, and so is the Notify that         *)
(* StartCancel does after its last critical section.  A callback calls no  *)
(* method of the manager and returns (cancellation.h:106-108).  Reset is   *)
(* left out: nothing calls it.                                             *)
(***************************************************************************)
EXTENDS Integers

CONSTANTS Callers,      \* threads that register callbacks
          Cancellers,   \* threads that call StartCancel
          MaxTokens     \* bound: tokens handed out in a behaviour

ASSUME MaxTokensAssumption == MaxTokens \in Nat

VARIABLES
  isCancelling,   \* is_cancelling_
  isCancelled,    \* is_cancelled_
  notified,       \* cancelled_notification_.HasBeenNotified()
  nextToken,      \* next_cancellation_token_
  callbacks,      \* keys of callbacks_
  alive,          \* the destructor has not been entered
  canceller,      \* where each canceller is in StartCancel
  toRun,          \* its callbacks_to_run that have not begun
  running,        \* the callback it is in
  caller,         \* where each caller is
  token,          \* the token each caller holds
  began, ended,   \* history: callbacks that began, that returned
  result          \* history: what DeregisterCallback returned for a token

managerVars == <<isCancelling, isCancelled, notified, nextToken, callbacks, alive>>
cancelVars  == <<canceller, toRun, running>>
callerVars  == <<caller, token>>
historyVars == <<began, ended, result>>
cmVars      == <<managerVars, cancelVars, callerVars, historyVars>>

Tokens        == 0 .. MaxTokens - 1
kInvalidToken == -1

CallerStates == {"idle", "holding", "registered", "refused", "waiting", "finished"}
CancellerStates == {"idle", "running", "notify", "returned"}

CMInit ==
  /\ isCancelling = FALSE /\ isCancelled = FALSE /\ notified = FALSE
  /\ nextToken = 0 /\ callbacks = {} /\ alive = TRUE
  /\ canceller = [c \in Cancellers |-> "idle"]
  /\ toRun     = [c \in Cancellers |-> {}]
  /\ running   = [c \in Cancellers |-> kInvalidToken]
  /\ caller    = [p \in Callers |-> "idle"]
  /\ token     = [p \in Callers |-> kInvalidToken]
  /\ began = {} /\ ended = {}
  /\ result = [t \in Tokens |-> "none"]

Cancellation == isCancelling \/ isCancelled

---------------------------------------------------------------------------
(* The callers.                                                            *)

\* get_cancellation_token
GetToken(p) ==
  /\ alive /\ caller[p] = "idle" /\ nextToken < MaxTokens
  /\ nextToken' = nextToken + 1
  /\ token'  = [token EXCEPT ![p] = nextToken]
  /\ caller' = [caller EXCEPT ![p] = "holding"]
  /\ UNCHANGED <<isCancelling, isCancelled, notified, callbacks, alive, cancelVars, historyVars>>

\* A cancellation in progress is not noticed.
MayTouchCallbacks_OnlyCancelled == ~isCancelled

\* The test RegisterCallback, DeregisterCallback and TryDeregisterCallback
\* make under mu_ before they touch callbacks_.
MayTouchCallbacks == ~isCancelled /\ ~isCancelling

\* RegisterCallback: TRUE puts the callback into callbacks_, FALSE leaves the
\* clean-up to the caller.
Register(p) ==
  /\ alive /\ caller[p] = "holding"
  /\ \/ /\ MayTouchCallbacks
        /\ callbacks' = callbacks \cup {token[p]}
        /\ caller' = [caller EXCEPT ![p] = "registered"]
     \/ /\ ~MayTouchCallbacks
        /\ caller' = [caller EXCEPT ![p] = "refused"]
        /\ UNCHANGED callbacks
  /\ UNCHANGED <<isCancelling, isCancelled, notified, nextToken, alive, token, cancelVars, historyVars>>

\* A call of (Try)DeregisterCallback returns r to p.
Returns(p, r) ==
  /\ caller' = [caller EXCEPT ![p] = "finished"]
  /\ result' = [result EXCEPT ![token[p]] = r]

Erase(p) ==
  /\ MayTouchCallbacks
  /\ callbacks' = callbacks \ {token[p]}
  /\ Returns(p, "true")

\* DeregisterCallback that does not wait.
WaitForCallbacks_NoWait(p) ==
  /\ isCancelling /\ ~isCancelled
  /\ Returns(p, "false")
  /\ UNCHANGED callbacks

\* DeregisterCallback when cancellation is in progress: waits for the
\* notification after it has released mu_.
WaitForCallbacks(p) ==
  /\ isCancelling /\ ~isCancelled
  /\ caller' = [caller EXCEPT ![p] = "waiting"]
  /\ UNCHANGED <<callbacks, result>>

Deregister(p) ==
  /\ alive /\ caller[p] = "registered"
  /\ \/ /\ isCancelled
        /\ Returns(p, "false") /\ UNCHANGED callbacks
     \/ WaitForCallbacks(p)
     \/ Erase(p)
  /\ UNCHANGED <<isCancelling, isCancelled, notified, nextToken, alive, token, cancelVars, began, ended>>

\* cancelled_notification_.WaitForNotification() returns.
Wakes(p) ==
  /\ caller[p] = "waiting" /\ notified
  /\ Returns(p, "false")
  /\ UNCHANGED <<managerVars, token, cancelVars, began, ended>>

\* TryDeregisterCallback: FALSE promises nothing about the callback.
TryDeregister(p) ==
  /\ alive /\ caller[p] = "registered"
  /\ \/ Erase(p)
     \/ /\ ~MayTouchCallbacks
        /\ Returns(p, "tryfalse") /\ UNCHANGED callbacks
  /\ UNCHANGED <<isCancelling, isCancelled, notified, nextToken, alive, token, cancelVars, began, ended>>

\* The caller's operation is over; its next one takes a new token.
Forget(p) ==
  /\ caller[p] \in {"refused", "finished"}
  /\ caller' = [caller EXCEPT ![p] = "idle"]
  /\ token'  = [token EXCEPT ![p] = kInvalidToken]
  /\ UNCHANGED <<managerVars, cancelVars, historyVars>>

CallerStep(p) ==
  GetToken(p) \/ Register(p) \/ Deregister(p) \/ Wakes(p) \/ TryDeregister(p) \/ Forget(p)

---------------------------------------------------------------------------
(* StartCancel.                                                            *)

\* First critical section: take the callbacks.
SwapCallbacks(c) ==
  /\ ~Cancellation
  /\ isCancelling' = TRUE
  /\ toRun' = [toRun EXCEPT ![c] = callbacks]
  /\ callbacks' = {}
  /\ canceller' = [canceller EXCEPT ![c] = "running"]

StartCancel(c) ==
  /\ alive /\ canceller[c] = "idle"
  /\ \/ /\ Cancellation
        /\ canceller' = [canceller EXCEPT ![c] = "returned"]
        /\ UNCHANGED <<isCancelling, toRun, callbacks>>
     \/ SwapCallbacks(c)
  /\ UNCHANGED <<isCancelled, notified, nextToken, alive, running, callerVars, historyVars>>

BeginCallback(c, t) ==
  /\ canceller[c] = "running" /\ running[c] = kInvalidToken
  /\ t \in toRun[c]
  /\ toRun'   = [toRun EXCEPT ![c] = @ \ {t}]
  /\ running' = [running EXCEPT ![c] = t]
  /\ began'   = began \cup {t}
  /\ UNCHANGED <<managerVars, canceller, callerVars, ended, result>>

EndCallback(c) ==
  /\ running[c] # kInvalidToken
  /\ running' = [running EXCEPT ![c] = kInvalidToken]
  /\ ended'   = ended \cup {running[c]}
  /\ UNCHANGED <<managerVars, canceller, toRun, callerVars, began, result>>

\* The loop over callbacks_to_run is over.
AllRun(c) ==
  canceller[c] = "running" /\ running[c] = kInvalidToken /\ toRun[c] = {}

\* Second critical section.
SetCancelled(c) ==
  /\ AllRun(c)
  /\ isCancelling' = FALSE /\ isCancelled' = TRUE
  /\ canceller' = [canceller EXCEPT ![c] = "notify"]
  /\ UNCHANGED <<notified, nextToken, callbacks, alive, toRun, running, callerVars, historyVars>>

\* StartCancel returns without waking those who wait.
Notify_Lost(c) ==
  /\ canceller[c] = "notify"
  /\ canceller' = [canceller EXCEPT ![c] = "returned"]
  /\ UNCHANGED <<managerVars, toRun, running, callerVars, historyVars>>

Notify(c) ==
  /\ canceller[c] = "notify"
  /\ notified'  = TRUE
  /\ canceller' = [canceller EXCEPT ![c] = "returned"]
  /\ UNCHANGED <<isCancelling, isCancelled, nextToken, callbacks, alive, toRun, running, callerVars, historyVars>>

CancelProgress(c) ==
  \/ \E t \in toRun[c] : BeginCallback(c, t)
  \/ EndCallback(c) \/ SetCancelled(c) \/ Notify(c)

CancellerStep(c) == StartCancel(c) \/ CancelProgress(c)

\* The destructor, run by thread c when nobody is in a method of the manager.
\* Callbacks still registered are run.
Destroy(c) ==
  /\ alive
  /\ \A d \in Cancellers : canceller[d] \in {"idle", "returned"}
  /\ \A p \in Callers : caller[p] # "waiting"
  /\ alive' = FALSE
  /\ \/ /\ callbacks = {}
        /\ UNCHANGED <<isCancelling, toRun, callbacks, canceller>>
     \/ /\ callbacks # {} /\ SwapCallbacks(c)
  /\ UNCHANGED <<isCancelled, notified, nextToken, running, callerVars, historyVars>>

---------------------------------------------------------------------------
CMNext ==
  \/ \E p \in Callers : CallerStep(p)
  \/ \E c \in Cancellers : CancellerStep(c) \/ Destroy(c)

CMSpec == CMInit /\ [][CMNext]_cmVars

\* Callbacks return and threads that are not blocked go on.
CMFairness ==
  /\ \A c \in Cancellers : WF_cmVars(CancelProgress(c))
  /\ \A p \in Callers : WF_cmVars(Wakes(p))

CMLiveSpec == CMSpec /\ CMFairness

---------------------------------------------------------------------------
CMTypeOK ==
  /\ isCancelling \in BOOLEAN /\ isCancelled \in BOOLEAN /\ notified \in BOOLEAN
  /\ nextToken \in 0 .. MaxTokens /\ callbacks \in SUBSET Tokens /\ alive \in BOOLEAN
  /\ canceller \in [Cancellers -> CancellerStates]
  /\ toRun     \in [Cancellers -> SUBSET Tokens]
  /\ running   \in [Cancellers -> Tokens \cup {kInvalidToken}]
  /\ caller    \in [Callers -> CallerStates]
  /\ token     \in [Callers -> Tokens \cup {kInvalidToken}]
  /\ began \in SUBSET Tokens /\ ended \in SUBSET Tokens
  /\ result \in [Tokens -> {"none", "true", "false", "tryfalse"}]

\* The callback of t is registered, waits for its turn or runs.
Pending(t) ==
  \/ t \in callbacks
  \/ \E c \in Cancellers : t \in toRun[c] \/ running[c] = t

(* "Returns true iff the callback was deregistered and will not be         *)
(* invoked" (cancellation.h:118-119): once DeregisterCallback or           *)
(* TryDeregisterCallback has returned true, the callback has not begun and *)
(* nothing is left that could begin it, whatever StartCancel calls are     *)
(* under way.                                                              *)
TrueMeansNeverInvoked ==
  \A t \in Tokens : result[t] = "true" => t \notin began /\ ~Pending(t)

(* "otherwise returns false after the callback has been invoked, blocking  *)
(* if necessary" (cancellation.h:119-120): when DeregisterCallback returns *)
(* false the callback has returned and cannot run any more, so the caller  *)
(* may free what it uses.                                                  *)
FalseMeansInvoked ==
  \A t \in Tokens : result[t] = "false" => t \in ended /\ ~Pending(t)

(* The contract of DeregisterCallback, whichever it returns.               *)
DeregisterPromise == TrueMeansNeverInvoked /\ FalseMeansInvoked

(* A callback that has begun is never run again: not by a second           *)
(* StartCancel that overlaps the first, not by the destructor.             *)
InvokedOnce ==
  \A t \in began :
    /\ t \notin callbacks
    /\ \A c \in Cancellers : t \notin toRun[c]
    /\ \A c, d \in Cancellers : running[c] = t /\ running[d] = t => c = d

(* A callback that was registered successfully is not lost: it is in the   *)
(* manager, about to run, running or done, until its caller deregisters    *)
(* it; and once the manager is cancelled it has been run.                  *)
NoCallbackLost ==
  \A p \in Callers : caller[p] \in {"registered", "waiting"} =>
    /\ Pending(token[p]) \/ token[p] \in ended
    /\ isCancelled => token[p] \in ended

(* StartCancel runs every callback that is registered, each once, while    *)
(* callers register and deregister and another StartCancel overlaps it.    *)
EachCallbackOnce == InvokedOnce /\ NoCallbackLost

(* A DeregisterCallback that blocks because cancellation is in progress    *)
(* returns.                                                                *)
DeregisterReturns ==
  \A p \in Callers : caller[p] = "waiting" ~> caller[p] # "waiting"
=============================================================================
