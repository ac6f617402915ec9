--------------------- MODULE CancellationManager_proof ---------------------
(***************************************************************************)
(* What the CancellationManager promises, for any number of callers,       *)
(* cancellers and tokens.                                                  *)
(***************************************************************************)
EXTENDS CancellationManager, TLAPS

\* One StartCancel at a time runs callbacks; it has emptied callbacks_, which
\* stays empty from then on.
PhaseInv ==
  /\ \A c \in Cancellers : canceller[c] = "running" => isCancelling
  /\ \A c \in Cancellers : toRun[c] # {} \/ running[c] # kInvalidToken => canceller[c] = "running"
  /\ \A c, d \in Cancellers : canceller[c] = "running" /\ canceller[d] = "running" => c = d
  /\ \A c \in Cancellers : canceller[c] = "notify" => isCancelled
  /\ notified => isCancelled
  /\ ~(isCancelling /\ isCancelled)
  /\ isCancelling \/ isCancelled => callbacks = {}

\* A token belongs to one caller, and only tokens that were handed out are
\* in use.
TokenInv ==
  /\ \A p \in Callers : token[p] = kInvalidToken <=> caller[p] = "idle"
  /\ \A p, q \in Callers : token[p] = token[q] /\ token[p] # kInvalidToken => p = q
  /\ \A p \in Callers : token[p] < nextToken
  /\ \A t \in callbacks \cup began : t < nextToken
  /\ \A c \in Cancellers : \A t \in toRun[c] : t < nextToken
  /\ \A t \in Tokens : result[t] # "none" => t < nextToken

\* A token that was not registered yet, or was refused, is nowhere in the
\* manager; one that is registered has no result.
CallerInv ==
  /\ \A p \in Callers : caller[p] \in {"holding", "refused"} =>
       token[p] \notin callbacks /\ token[p] \notin began /\ result[token[p]] = "none"
  /\ \A p \in Callers, c \in Cancellers : caller[p] \in {"holding", "refused"} => token[p] \notin toRun[c]
  /\ \A p \in Callers : caller[p] \in {"registered", "waiting"} => result[token[p]] = "none"

\* Callbacks move from callbacks_ to callbacks_to_run to began to ended.
RunInv ==
  /\ ended \subseteq began
  /\ began # {} => isCancelling \/ isCancelled
  /\ \A c \in Cancellers : running[c] # kInvalidToken => running[c] \in began \ ended
  /\ \A t \in began : t \notin callbacks
  /\ \A t \in began, c \in Cancellers : t \notin toRun[c]

\* The promises, on the parts the actions change.
PromiseInv ==
  /\ \A p \in Callers : caller[p] \in {"registered", "waiting"} =>
       Pending(token[p]) \/ token[p] \in ended
  /\ \A t \in Tokens : result[t] = "true" => t \notin began /\ t \notin callbacks
  /\ \A t \in Tokens, c \in Cancellers : result[t] = "true" => t \notin toRun[c]
  /\ \A t \in Tokens : result[t] = "false" => t \in ended

CMInv == CMTypeOK /\ PhaseInv /\ TokenInv /\ CallerInv /\ RunInv /\ PromiseInv

---------------------------------------------------------------------------
LEMMA CMInitInv == CMInit => CMInv
<1> SUFFICES ASSUME CMInit PROVE CMInv OBVIOUS
<1> USE MaxTokensAssumption DEF CMInit, Tokens, kInvalidToken
<1>1. CMTypeOK
  <2>1. /\ isCancelling \in BOOLEAN /\ isCancelled \in BOOLEAN /\ notified \in BOOLEAN /\ alive \in BOOLEAN
    BY Zenon
  <2>2. /\ nextToken \in 0 .. MaxTokens /\ callbacks \in SUBSET Tokens
        /\ began \in SUBSET Tokens /\ ended \in SUBSET Tokens
    OBVIOUS
  <2>3. /\ canceller \in [Cancellers -> CancellerStates]
        /\ toRun     \in [Cancellers -> SUBSET Tokens]
        /\ running   \in [Cancellers -> Tokens \cup {kInvalidToken}]
    BY DEF CancellerStates
  <2>4. /\ caller \in [Callers -> CallerStates]
        /\ token  \in [Callers -> Tokens \cup {kInvalidToken}]
    BY DEF CallerStates
  <2>5. result \in [Tokens -> {"none", "true", "false", "tryfalse"}] OBVIOUS
  <2> QED BY <2>1, <2>2, <2>3, <2>4, <2>5 DEF CMTypeOK
<1>2. PhaseInv BY DEF PhaseInv
<1>3. TokenInv BY DEF TokenInv
<1>4. CallerInv BY DEF CallerInv
<1>5. RunInv BY DEF RunInv
<1>6. PromiseInv BY DEF PromiseInv
<1> QED BY <1>1, <1>2, <1>3, <1>4, <1>5, <1>6 DEF CMInv

LEMMA GetTokenKeeps == ASSUME NEW p \in Callers, CMInv, GetToken(p) PROVE CMInv'
<1> USE DEF CMInv, GetToken, cancelVars, historyVars, Tokens, kInvalidToken
<1>1. CMTypeOK' BY MaxTokensAssumption DEF CMTypeOK, CallerStates
<1>2. PhaseInv' BY DEF PhaseInv
<1>3. TokenInv' BY DEF TokenInv, CMTypeOK
<1>4. CallerInv'
  <2>1. nextToken \in Tokens BY MaxTokensAssumption DEF CMTypeOK
  <2>2. /\ nextToken \notin callbacks /\ nextToken \notin began /\ result[nextToken] = "none"
        /\ \A c \in Cancellers : nextToken \notin toRun[c]
    BY <2>1 DEF TokenInv, CMTypeOK
  <2>3. \A q \in Callers : q # p => token'[q] = token[q] /\ caller'[q] = caller[q]
    BY DEF CMTypeOK
  <2>4. token'[p] = nextToken /\ caller'[p] = "holding" BY DEF CMTypeOK
  <2> QED BY <2>1, <2>2, <2>3, <2>4 DEF CallerInv
<1>5. RunInv' BY DEF RunInv
<1>6. PromiseInv' BY DEF PromiseInv, CMTypeOK, Pending
<1> QED BY <1>1, <1>2, <1>3, <1>4, <1>5, <1>6

LEMMA RegisterKeeps == ASSUME NEW p \in Callers, CMInv, Register(p) PROVE CMInv'
<1> USE DEF CMInv, Register, cancelVars, historyVars, Tokens, kInvalidToken, MayTouchCallbacks
<1>0. token[p] \in Tokens BY DEF CMTypeOK, TokenInv
<1>1. CMTypeOK' BY <1>0 DEF CMTypeOK, CallerStates
<1>2. PhaseInv' BY DEF PhaseInv
<1>3. TokenInv' BY DEF TokenInv, CMTypeOK
<1>4. CallerInv' BY DEF CallerInv, CMTypeOK, TokenInv
<1>5. RunInv' BY DEF RunInv, CallerInv, CMTypeOK
<1>6. PromiseInv' BY <1>0 DEF PromiseInv, CMTypeOK, Pending, CallerInv
<1> QED BY <1>1, <1>2, <1>3, <1>4, <1>5, <1>6

\* DeregisterCallback and TryDeregisterCallback end with one of these.
LEMMA EraseKeeps ==
  ASSUME NEW p \in Callers, CMInv, caller[p] = "registered", Erase(p),
         UNCHANGED <<isCancelling, isCancelled, notified, nextToken, alive, token, cancelVars, began, ended>>
  PROVE CMInv'
<1> USE DEF CMInv, Erase, Returns, cancelVars, Tokens, kInvalidToken, MayTouchCallbacks
<1>0. token[p] \in Tokens BY DEF CMTypeOK, TokenInv
<1>1. CMTypeOK' BY <1>0 DEF CMTypeOK, CallerStates
<1>2. PhaseInv' BY DEF PhaseInv
<1>3. TokenInv' BY DEF TokenInv, CMTypeOK
<1>4. CallerInv' BY <1>0 DEF CallerInv, CMTypeOK, TokenInv
<1>5. RunInv' BY DEF RunInv
<1>6. /\ token[p] \notin began /\ \A c \in Cancellers : token[p] \notin toRun[c]
  BY <1>0 DEF PhaseInv, RunInv, CallerInv, PromiseInv, Pending, CMTypeOK
<1>7. PromiseInv' BY <1>0, <1>6 DEF PromiseInv, CMTypeOK, Pending, TokenInv
<1> QED BY <1>1, <1>2, <1>3, <1>4, <1>5, <1>7

LEMMA FalseKeeps ==
  ASSUME NEW p \in Callers, CMInv, caller[p] \in {"registered", "waiting"},
         NEW r \in {"false", "tryfalse"}, Returns(p, r), r = "false" => isCancelled,
         UNCHANGED <<managerVars, token, cancelVars, began, ended>>
  PROVE CMInv'
<1> USE DEF CMInv, Returns, managerVars, cancelVars, Tokens, kInvalidToken
<1>0. token[p] \in Tokens BY DEF CMTypeOK, TokenInv
<1>1. CMTypeOK' BY <1>0 DEF CMTypeOK, CallerStates
<1>2. PhaseInv' BY DEF PhaseInv
<1>3. TokenInv' BY DEF TokenInv, CMTypeOK
<1>4. CallerInv' BY <1>0 DEF CallerInv, CMTypeOK, TokenInv
<1>5. RunInv' BY DEF RunInv
<1>6. isCancelled => token[p] \in ended
  BY <1>0 DEF PhaseInv, PromiseInv, Pending, CMTypeOK
<1>7. PromiseInv' BY <1>0, <1>6 DEF PromiseInv, CMTypeOK, Pending, TokenInv
<1> QED BY <1>1, <1>2, <1>3, <1>4, <1>5, <1>7

LEMMA WaitKeeps ==
  ASSUME NEW p \in Callers, CMInv, caller[p] = "registered", WaitForCallbacks(p),
         UNCHANGED <<isCancelling, isCancelled, notified, nextToken, alive, token, cancelVars, began, ended>>
  PROVE CMInv'
<1> USE DEF CMInv, WaitForCallbacks, cancelVars, Tokens, kInvalidToken
<1>1. CMTypeOK' BY DEF CMTypeOK, CallerStates
<1>2. PhaseInv' BY DEF PhaseInv
<1>3. TokenInv' BY DEF TokenInv, CMTypeOK
<1>4. CallerInv' BY DEF CallerInv, CMTypeOK
<1>5. RunInv' BY DEF RunInv
<1>6. PromiseInv' BY DEF PromiseInv, CMTypeOK, Pending
<1> QED BY <1>1, <1>2, <1>3, <1>4, <1>5, <1>6

LEMMA DeregisterKeeps ==
  ASSUME NEW p \in Callers, CMInv, Deregister(p) \/ TryDeregister(p) \/ Wakes(p)
  PROVE CMInv'
<1>1. CASE Deregister(p)
  <2>1. CASE isCancelled /\ Returns(p, "false") /\ UNCHANGED callbacks
    BY <1>1, <2>1, FalseKeeps DEF Deregister, managerVars
  <2> QED BY <1>1, <2>1, WaitKeeps, EraseKeeps DEF Deregister
<1>2. CASE TryDeregister(p)
  <2>1. CASE Returns(p, "tryfalse") /\ UNCHANGED callbacks
    BY <1>2, <2>1, FalseKeeps DEF TryDeregister, managerVars
  <2> QED BY <1>2, <2>1, EraseKeeps DEF TryDeregister
<1>3. CASE Wakes(p)
  <2>1. isCancelled BY <1>3 DEF Wakes, CMInv, PhaseInv
  <2> QED BY <1>3, <2>1, FalseKeeps DEF Wakes
<1> QED BY <1>1, <1>2, <1>3

LEMMA ForgetKeeps == ASSUME NEW p \in Callers, CMInv, Forget(p) PROVE CMInv'
<1> USE DEF CMInv, Forget, managerVars, cancelVars, historyVars, Tokens, kInvalidToken
<1>1. CMTypeOK' BY DEF CMTypeOK, CallerStates
<1>2. PhaseInv' BY DEF PhaseInv
<1>3. TokenInv' BY DEF TokenInv, CMTypeOK
<1>4. CallerInv' BY DEF CallerInv, CMTypeOK
<1>5. RunInv' BY DEF RunInv
<1>6. PromiseInv' BY DEF PromiseInv, CMTypeOK, Pending
<1> QED BY <1>1, <1>2, <1>3, <1>4, <1>5, <1>6

\* The critical section that begins a cancellation; the destructor may be
\* the one to run it.
LEMMA SwapKeeps ==
  ASSUME NEW c \in Cancellers, CMInv, SwapCallbacks(c), alive' \in BOOLEAN,
         UNCHANGED <<isCancelled, notified, nextToken, running, callerVars, historyVars>>
  PROVE CMInv'
<1> USE DEF CMInv, SwapCallbacks, Cancellation, callerVars, historyVars, Tokens, kInvalidToken
<1>1. CMTypeOK' BY DEF CMTypeOK, CancellerStates
<1>2. PhaseInv' BY DEF PhaseInv, CMTypeOK
<1>3. TokenInv' BY DEF TokenInv, CMTypeOK
<1>4. CallerInv' BY DEF CallerInv, CMTypeOK
<1>5. RunInv' BY DEF RunInv, CMTypeOK
<1>6. \A t \in Tokens : Pending(t) => Pending(t)' BY DEF Pending, PhaseInv, CMTypeOK
<1>7. PromiseInv' BY <1>6 DEF PromiseInv, CMTypeOK, TokenInv
<1> QED BY <1>1, <1>2, <1>3, <1>4, <1>5, <1>7

LEMMA StartCancelKeeps == ASSUME NEW c \in Cancellers, CMInv, StartCancel(c) PROVE CMInv'
<1>1. CASE SwapCallbacks(c) BY <1>1, SwapKeeps DEF StartCancel, CMInv, CMTypeOK
<1>2. CASE canceller' = [canceller EXCEPT ![c] = "returned"] /\ UNCHANGED <<isCancelling, toRun, callbacks>>
  <2> USE <1>2 DEF CMInv, StartCancel, callerVars, historyVars, Tokens, kInvalidToken
  <2>1. CMTypeOK' BY DEF CMTypeOK, CancellerStates
  <2>2. PhaseInv' BY DEF PhaseInv, CMTypeOK
  <2>3. TokenInv' BY DEF TokenInv
  <2>4. CallerInv' BY DEF CallerInv
  <2>5. RunInv' BY DEF RunInv
  <2>6. PromiseInv' BY DEF PromiseInv, Pending
  <2> QED BY <2>1, <2>2, <2>3, <2>4, <2>5, <2>6
<1> QED BY <1>1, <1>2 DEF StartCancel

LEMMA BeginKeeps == ASSUME NEW c \in Cancellers, NEW t \in toRun[c], CMInv, BeginCallback(c, t) PROVE CMInv'
<1> USE DEF CMInv, BeginCallback, managerVars, callerVars, Tokens, kInvalidToken
<1>0. t \in Tokens BY DEF CMTypeOK
<1>1. CMTypeOK' BY <1>0 DEF CMTypeOK
<1>2. PhaseInv' BY DEF PhaseInv, CMTypeOK
<1>3. TokenInv' BY <1>0 DEF TokenInv, CMTypeOK
<1>4. CallerInv' BY <1>0 DEF CallerInv, CMTypeOK
<1>5. RunInv'
  <2>1. \A d \in Cancellers : d # c => toRun[d] = {} BY DEF PhaseInv
  <2>2. t \notin callbacks BY DEF PhaseInv
  <2>3. t \notin began BY DEF RunInv
  <2> QED BY <1>0, <2>1, <2>2, <2>3 DEF RunInv, CMTypeOK, PhaseInv
<1>6. \A u \in Tokens : Pending(u) => Pending(u)' BY <1>0 DEF Pending, PhaseInv, CMTypeOK
<1>7. PromiseInv' BY <1>0, <1>6 DEF PromiseInv, CMTypeOK, TokenInv
<1> QED BY <1>1, <1>2, <1>3, <1>4, <1>5, <1>7

LEMMA EndKeeps == ASSUME NEW c \in Cancellers, CMInv, EndCallback(c) PROVE CMInv'
<1> USE DEF CMInv, EndCallback, managerVars, callerVars, Tokens, kInvalidToken
<1>0. running[c] \in Tokens /\ running[c] \in began BY DEF CMTypeOK, RunInv
<1>1. CMTypeOK' BY <1>0 DEF CMTypeOK
<1>2. PhaseInv' BY DEF PhaseInv, CMTypeOK
<1>3. TokenInv' BY DEF TokenInv, CMTypeOK
<1>4. CallerInv' BY DEF CallerInv, CMTypeOK
<1>5. RunInv'
  <2>1. \A d \in Cancellers : d # c => running[d] = kInvalidToken BY DEF PhaseInv
  <2> QED BY <1>0, <2>1 DEF RunInv, CMTypeOK
<1>6. \A u \in Tokens : Pending(u) => Pending(u)' \/ u \in ended' BY <1>0 DEF Pending, CMTypeOK
<1>7. PromiseInv' BY <1>0, <1>6 DEF PromiseInv, CMTypeOK, TokenInv
<1> QED BY <1>1, <1>2, <1>3, <1>4, <1>5, <1>7

LEMMA SetCancelledKeeps == ASSUME NEW c \in Cancellers, CMInv, SetCancelled(c) PROVE CMInv'
<1> USE DEF CMInv, SetCancelled, AllRun, callerVars, historyVars, Tokens, kInvalidToken
<1>1. CMTypeOK' BY DEF CMTypeOK, CancellerStates
<1>2. PhaseInv' BY DEF PhaseInv, CMTypeOK
<1>3. TokenInv' BY DEF TokenInv
<1>4. CallerInv' BY DEF CallerInv
<1>5. RunInv' BY DEF RunInv
<1>6. PromiseInv' BY DEF PromiseInv, Pending
<1> QED BY <1>1, <1>2, <1>3, <1>4, <1>5, <1>6

LEMMA NotifyKeeps == ASSUME NEW c \in Cancellers, CMInv, Notify(c) PROVE CMInv'
<1> USE DEF CMInv, Notify, callerVars, historyVars, Tokens, kInvalidToken
<1>1. CMTypeOK' BY DEF CMTypeOK, CancellerStates
<1>2. PhaseInv' BY DEF PhaseInv, CMTypeOK
<1>3. TokenInv' BY DEF TokenInv
<1>4. CallerInv' BY DEF CallerInv
<1>5. RunInv' BY DEF RunInv
<1>6. PromiseInv' BY DEF PromiseInv, Pending
<1> QED BY <1>1, <1>2, <1>3, <1>4, <1>5, <1>6

\* Also for steps of a larger system that leave the manager alone.
LEMMA CMUnchangedKeeps == ASSUME CMInv, UNCHANGED cmVars PROVE CMInv'
<1> USE DEF CMInv, cmVars, managerVars, cancelVars, callerVars, historyVars
<1>1. CMTypeOK' BY DEF CMTypeOK
<1>2. PhaseInv' BY DEF PhaseInv
<1>3. TokenInv' BY DEF TokenInv
<1>4. CallerInv' BY DEF CallerInv
<1>5. RunInv' BY DEF RunInv
<1>6. PromiseInv' BY DEF PromiseInv, Pending
<1> QED BY <1>1, <1>2, <1>3, <1>4, <1>5, <1>6

LEMMA DestroyKeeps == ASSUME NEW c \in Cancellers, CMInv, Destroy(c) PROVE CMInv'
<1>1. CASE SwapCallbacks(c) BY <1>1, SwapKeeps DEF Destroy
<1>2. CASE UNCHANGED <<isCancelling, toRun, callbacks, canceller>>
  <2> USE <1>2 DEF CMInv, Destroy, callerVars, historyVars
  <2>1. CMTypeOK' BY DEF CMTypeOK
  <2>2. PhaseInv' BY DEF PhaseInv
  <2>3. TokenInv' BY DEF TokenInv
  <2>4. CallerInv' BY DEF CallerInv
  <2>5. RunInv' BY DEF RunInv
  <2>6. PromiseInv' BY DEF PromiseInv, Pending
  <2> QED BY <2>1, <2>2, <2>3, <2>4, <2>5, <2>6
<1> QED BY <1>1, <1>2 DEF Destroy

LEMMA CMInvNext == CMInv /\ [CMNext]_cmVars => CMInv'
<1> SUFFICES ASSUME CMInv, [CMNext]_cmVars PROVE CMInv' OBVIOUS
<1>1. ASSUME NEW p \in Callers, CallerStep(p) PROVE CMInv'
  BY <1>1, GetTokenKeeps, RegisterKeeps, DeregisterKeeps, ForgetKeeps DEF CallerStep
<1>2. ASSUME NEW c \in Cancellers, CancellerStep(c) PROVE CMInv'
  BY <1>2, StartCancelKeeps, BeginKeeps, EndKeeps, SetCancelledKeeps, NotifyKeeps
  DEF CancellerStep, CancelProgress
<1> QED BY <1>1, <1>2, DestroyKeeps, CMUnchangedKeeps DEF CMNext

(* The inductive invariant holds in every reachable state, whatever the    *)
(* number of threads and tokens.                                           *)
THEOREM ManagerInvariant == CMSpec => []CMInv
BY CMInitInv, CMInvNext, PTL DEF CMSpec

(* The variables of a CancellationManager keep their types.                *)
THEOREM ManagerTypeCorrect == CMSpec => []CMTypeOK
<1>1. CMInv => CMTypeOK BY DEF CMInv
<1> QED BY <1>1, ManagerInvariant, PTL

LEMMA CMInvGivesTrue == CMInv => TrueMeansNeverInvoked
BY DEF CMInv, TrueMeansNeverInvoked, PromiseInv, RunInv, Pending, CMTypeOK, Tokens, kInvalidToken

LEMMA CMInvGivesFalse == CMInv => FalseMeansInvoked
<1> SUFFICES ASSUME CMInv, NEW t \in Tokens, result[t] = "false" PROVE t \in ended /\ ~Pending(t)
  BY DEF FalseMeansInvoked
<1>1. t \in ended /\ t \in began BY DEF CMInv, PromiseInv, RunInv
<1>2. t # kInvalidToken BY DEF Tokens, kInvalidToken
<1> QED BY <1>1, <1>2 DEF CMInv, RunInv, Pending

LEMMA CMInvGivesOnce == CMInv => InvokedOnce
BY DEF CMInv, InvokedOnce, RunInv, PhaseInv, CMTypeOK, Tokens, kInvalidToken

LEMMA CMInvGivesKept == CMInv => NoCallbackLost
<1> SUFFICES ASSUME CMInv, NEW p \in Callers, caller[p] \in {"registered", "waiting"}
             PROVE /\ Pending(token[p]) \/ token[p] \in ended
                   /\ isCancelled => token[p] \in ended
  BY DEF NoCallbackLost
<1>1. token[p] # kInvalidToken BY DEF CMInv, TokenInv
<1> QED BY <1>1 DEF CMInv, PromiseInv, PhaseInv, Pending

(* DeregisterCallback and TryDeregisterCallback return true only when the  *)
(* callback never ran and never will.                                      *)
THEOREM TrueIsAPromise == CMSpec => []TrueMeansNeverInvoked
BY ManagerInvariant, CMInvGivesTrue, PTL

(* DeregisterCallback returns false only after the callback has returned,  *)
(* so that its caller may free what the callback uses.                     *)
THEOREM FalseIsAPromise == CMSpec => []FalseMeansInvoked
BY ManagerInvariant, CMInvGivesFalse, PTL

(* What DeregisterCallback returns can be relied upon.                     *)
THEOREM DeregisterKeepsItsPromise == CMSpec => []DeregisterPromise
<1>1. CMInv => DeregisterPromise BY CMInvGivesTrue, CMInvGivesFalse DEF DeregisterPromise
<1> QED BY <1>1, ManagerInvariant, PTL

(* No callback runs twice, however many StartCancel calls overlap.         *)
THEOREM CallbacksRunOnce == CMSpec => []InvokedOnce
BY ManagerInvariant, CMInvGivesOnce, PTL

(* A registered callback stays in the manager until it runs or is          *)
(* deregistered, and has run when the manager is cancelled.                *)
THEOREM CallbacksAreKept == CMSpec => []NoCallbackLost
BY ManagerInvariant, CMInvGivesKept, PTL

(* StartCancel runs each registered callback, once.                        *)
THEOREM CallbacksRunExactlyOnce == CMSpec => []EachCallbackOnce
<1>1. CMInv => EachCallbackOnce BY CMInvGivesOnce, CMInvGivesKept DEF EachCallbackOnce
<1> QED BY <1>1, ManagerInvariant, PTL
=============================================================================
