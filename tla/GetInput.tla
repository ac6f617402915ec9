------------------------------ MODULE GetInput ------------------------------
(***************************************************************************)
(* getInput (src/KernelSim/src/KernelSim.cpp): reads the trace of one      *)
(* iteration of every application and builds from it the tree of kernels   *)
(* the simulator follows.  A row of the trace is hung below the kernel     *)
(* read last if it starts after that one ended, else below a brother of    *)
(* it that has ended, else below their parent.                             *)
(*                                                                         *)
(* The trace is the environment: OpenApp and the row actions choose the    *)
(* next line of the file from the constants.                               *)
(***************************************************************************)
EXTENDS KernelGraph

CONSTANTS
    Napp,       \* number of applications in Conf.dat
    MaxRows,    \* bound: rows of one application's trace
    Lengths,    \* TotalIterationTime values
    CPUslows,   \* values of the "slowdown from CPU side" column
    Starts,     \* start_time values of a row
    Durations,  \* duration values of a row
    Sorted      \* are the rows of a trace in order of start_time?

ASSUME GetInputAssumption ==
    /\ Napp \in Nat \ {0}
    /\ MaxRows \in Nat
    /\ Lengths \subseteq Nat \ {0}
    /\ CPUslows \subseteq Nat
    /\ Starts \subseteq Nat
    /\ Durations \subseteq Nat
    /\ Sorted \in BOOLEAN

VARIABLES
    newApp,     \* the App being read
    k_last,     \* its last kernel
    row,        \* the row of newApp read last
    nrows,      \* rows of newApp read so far
    dropped,    \* rows of newApp refused with "invalid time[3]"
    loading     \* "conf", "rows", or getInput's result "true" or "false"

inputVars == <<graph, newApp, k_last, row, nrows, dropped, loading>>

NoRow == [type |-> Compute, start |-> 0, length |-> 0]
NoApp == [length |-> 0, slow |-> 0, first |-> NULL]

InputInit ==
    /\ kernels = <<>>
    /\ next = <<>>
    /\ Apps = <<>>
    /\ newApp = NoApp
    /\ k_last = NULL
    /\ row = NoRow
    /\ nrows = 0
    /\ dropped = 0
    /\ loading = "conf"

(* appid of the App being read *)
AppId == Len(Apps) + 1

(***************************************************************************)
(* The head of the loop over the applications: the length and the slowdown *)
(* are read and the head kernel, which starts and ends at 0, is allocated. *)
(***************************************************************************)
OpenApp ==
    /\ loading = "conf"
    /\ Len(Apps) < Napp
    /\ \E len \in Lengths, slow \in CPUslows :
          newApp' = [length |-> len, slow |-> slow, first |-> NewId]
    /\ kernels' = Append(kernels, NewKernel(AppId, Compute, 0, 0, NULL))
    /\ next' = Append(next, {})
    /\ k_last' = NewId
    /\ loading' = "rows"
    /\ UNCHANGED <<Apps, row, nrows, dropped>>

(* Environment: the next row of the trace. *)
ReadRow(t) ==
    /\ loading = "rows"
    /\ nrows < MaxRows
    /\ nrows' = nrows + 1
    /\ \E st \in Starts, dur \in Durations :
          /\ Sorted => row.start <= st
          /\ row' = [type |-> t, start |-> st, length |-> dur]

(* A [CUDA_memset] row is skipped. *)
SkipMemset ==
    /\ ReadRow(Compute)
    /\ UNCHANGED <<graph, newApp, k_last, dropped, loading>>

Last == kernels[k_last]
EndedBefore(k, r) == End(kernels[k]) <= r.start

(***************************************************************************)
(* Hang the row below p and remember it as the last kernel; getInput gives *)
(* up when p refuses it ("invalid type[0]", "invalid type[1]").            *)
(***************************************************************************)
HangBelow(p, r) ==
    /\ IF MayAddNext(p, r.type)
       THEN /\ kernels' = Append(kernels, NewKernel(AppId, r.type, r.start, r.length, p))
            /\ next' = AddNextKernel(p)
            /\ k_last' = NewId
            /\ loading' = loading
       ELSE /\ loading' = "false"
            /\ UNCHANGED <<kernels, next, k_last>>
    /\ UNCHANGED <<Apps, newApp>>

(* The row starts after the last kernel has ended. *)
AfterLast(t) ==
    /\ ReadRow(t)
    /\ EndedBefore(k_last, row')
    /\ HangBelow(k_last, row')
    /\ UNCHANGED dropped

(* The last kernel and its brothers *)
Brothers == next[Last.parent]

(* The youngest brother that has ended takes the row. *)
AfterBrother(t) ==
    /\ ReadRow(t)
    /\ ~EndedBefore(k_last, row')
    /\ \E b \in Brothers :
          /\ EndedBefore(b, row')
          /\ \A c \in Brothers : EndedBefore(c, row') => c <= b
          /\ HangBelow(b, row')
    /\ UNCHANGED dropped

NoBrotherEnded(r) == \A b \in Brothers : ~EndedBefore(b, r)

(* Mutant: the parent's end is not looked at. *)
AfterParent_NoTimeCheck(t) ==
    /\ ReadRow(t)
    /\ ~EndedBefore(k_last, row')
    /\ NoBrotherEnded(row')
    /\ MayAddNext(Last.parent, t)
    /\ HangBelow(Last.parent, row')
    /\ UNCHANGED dropped

(* No brother has ended: the row becomes another brother. *)
AfterParent(t) ==
    /\ ReadRow(t)
    /\ ~EndedBefore(k_last, row')
    /\ NoBrotherEnded(row')
    /\ EndedBefore(Last.parent, row')
    /\ MayAddNext(Last.parent, t)
    /\ HangBelow(Last.parent, row')
    /\ UNCHANGED dropped

(* Mutant: the commented out `return false` of "invalid time[3]" is active. *)
DropRow_Fatal(t) ==
    /\ ReadRow(t)
    /\ ~EndedBefore(k_last, row')
    /\ NoBrotherEnded(row')
    /\ EndedBefore(Last.parent, row')
    /\ ~MayAddNext(Last.parent, t)
    /\ loading' = "false"
    /\ UNCHANGED <<graph, newApp, k_last, dropped>>

(* ... unless there is one of its type: "invalid time[3]", the row is lost. *)
DropRow(t) ==
    /\ ReadRow(t)
    /\ ~EndedBefore(k_last, row')
    /\ NoBrotherEnded(row')
    /\ EndedBefore(Last.parent, row')
    /\ ~MayAddNext(Last.parent, t)
    /\ dropped' = dropped + 1
    /\ UNCHANGED <<graph, newApp, k_last, loading>>

(* The row starts before the parent has ended: "invalid time[2]". *)
BadTime(t) ==
    /\ ReadRow(t)
    /\ ~EndedBefore(k_last, row')
    /\ NoBrotherEnded(row')
    /\ ~EndedBefore(Last.parent, row')
    /\ loading' = "false"
    /\ UNCHANGED <<graph, newApp, k_last, dropped>>

(* Mutant: the tail is never added to the successors of the last kernel. *)
CloseApp_Unlinked ==
    /\ loading = "rows"
    /\ kernels' = Append(kernels, NewKernel(AppId, Compute, newApp.length, 0, k_last))
    /\ next' = Append(next, {})
    /\ Apps' = Append(Apps, [length |-> newApp.length, slow |-> newApp.slow,
                             first |-> newApp.first, last |-> NewId])
    /\ newApp' = NoApp /\ k_last' = NULL /\ row' = NoRow
    /\ nrows' = 0 /\ dropped' = 0 /\ loading' = "conf"

(***************************************************************************)
(* End of the trace: the tail kernel, which starts at the length of the    *)
(* iteration, is hung below the last kernel (the result of addNextKernel   *)
(* is not looked at) and the App is complete.                              *)
(***************************************************************************)
CloseApp ==
    /\ loading = "rows"
    /\ kernels' = Append(kernels, NewKernel(AppId, Compute, newApp.length, 0, k_last))
    /\ next' = IF MayAddNext(k_last, Compute) THEN AddNextKernel(k_last)
                                              ELSE Append(next, {})
    /\ Apps' = Append(Apps, [length |-> newApp.length, slow |-> newApp.slow,
                             first |-> newApp.first, last |-> NewId])
    /\ newApp' = NoApp
    /\ k_last' = NULL
    /\ row' = NoRow
    /\ nrows' = 0
    /\ dropped' = 0
    /\ loading' = "conf"

(* All applications are read: getInput returns true. *)
InputDone ==
    /\ loading = "conf"
    /\ Len(Apps) = Napp
    /\ loading' = "true"
    /\ UNCHANGED <<graph, newApp, k_last, row, nrows, dropped>>

InputNext ==
    \/ OpenApp
    \/ SkipMemset
    \/ \E t \in KernelTypes : AfterLast(t)
    \/ \E t \in KernelTypes : AfterBrother(t)
    \/ \E t \in KernelTypes : AfterParent(t)
    \/ \E t \in KernelTypes : DropRow(t)
    \/ \E t \in KernelTypes : BadTime(t)
    \/ CloseApp
    \/ InputDone

InputSpec == InputInit /\ [][InputNext]_inputVars

-----------------------------------------------------------------------------
(* Type invariant of the loader's state. *)
InputTypeOK ==
    /\ kernels \in Seq(Kernels)
    /\ next \in Seq(SUBSET Nat)
    /\ Apps \in Seq(AppsOf(Nat))
    /\ newApp \in [length : Nat, slow : Nat, first : Nat]
    /\ k_last \in Nat
    /\ row \in [type : KernelTypes, start : Nat, length : Nat]
    /\ nrows \in 0..MaxRows
    /\ dropped \in Nat
    /\ loading \in {"conf", "rows", "true", "false"}

Open  == loading \in {"rows", "false"}      \* newApp is not finished
Heads == {Apps[i].first : i \in DOMAIN Apps} \cup (IF Open THEN {newApp.first} ELSE {})

(***************************************************************************)
(* The parent pointers and the successor lists describe the same forest:   *)
(* every kernel but the heads is in the list of its parent and in no other *)
(* one, parents are older than their successors and of the same            *)
(* application.  The simulator reaches a kernel only through the lists, so *)
(* a kernel missing from them would never run and one that is in two would *)
(* run twice.                                                              *)
(***************************************************************************)
Forest ==
    \A k \in DOMAIN kernels :
        /\ kernels[k].parent = NULL <=> k \in Heads
        /\ \A p \in DOMAIN kernels :
              k \in next[p] <=> p = kernels[k].parent
        /\ k \notin Heads => /\ kernels[k].parent < k
                             /\ kernels[kernels[k].parent].appid = kernels[k].appid

(***************************************************************************)
(* The last kernel and all its brothers have no successors yet.  This is   *)
(* why "invalid type[0]" and "invalid type[1]" cannot happen.              *)
(***************************************************************************)
LastGenerationIsLeaves ==
    loading = "rows" =>
        /\ next[k_last] = {}
        /\ Last.parent # NULL => \A b \in Brothers : next[b] = {}

(***************************************************************************)
(* A kernel starts only when its parent has ended, so the delay the        *)
(* simulator computes from the two is not negative.  (The tail is outside  *)
(* this promise: getInput never compares the iteration length with the     *)
(* end of the last kernel.)                                                *)
(***************************************************************************)
Tails == {Apps[i].last : i \in DOMAIN Apps}
Precedence ==
    \A k \in DOMAIN kernels \ Tails :
        kernels[k].parent # NULL =>
            End(kernels[kernels[k].parent]) <= kernels[k].start

(***************************************************************************)
(* A trace sorted by start_time (what the profiler writes) is always       *)
(* accepted: none of the exits of getInput that return false is reached.   *)
(***************************************************************************)
SortedTraceLoads == Sorted => loading # "false"

(***************************************************************************)
(* Of any other trace: getInput gives up only at a row that starts before  *)
(* the kernel it read last did, never at one that is merely late, long or  *)
(* of the wrong type.                                                      *)
(***************************************************************************)
RefusesOnlyDisorder == loading = "false" => row.start < Last.start

(***************************************************************************)
(* Whatever came before it, a row that starts no earlier than the kernels  *)
(* of its application that were kept is lost only if it really overlaps    *)
(* one of them of its own type.                                            *)
(***************************************************************************)
Kept == {k \in DOMAIN kernels : kernels[k].appid = AppId}
DropsOnlyOverlaps ==
    [][dropped' > dropped /\ (\A k \in Kept : kernels[k].start <= row'.start) =>
          \E k \in Kept : /\ kernels[k].type = row'.type
                          /\ row'.start < End(kernels[k])]_inputVars
=============================================================================
