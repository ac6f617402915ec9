----------------------------- MODULE KernelGraph -----------------------------
(***************************************************************************)
(* The kernel objects of KernelSim (src/KernelSim/src/App.h).              *)
(*                                                                         *)
(* The heap of Kernel objects is a sequence: `new Kernel` appends to it    *)
(* and a pointer is an index.  The `next` vectors, the only fields that    *)
(* change once a kernel is linked, are a sequence of their own; a vector   *)
(* is the set of its elements: kernels are pushed in the order they are    *)
(* allocated, so its order is the order of the indices.                    *)
(*                                                                         *)
(* Times are integers (ticks).  The stream and the bandwidth of a kernel   *)
(* are left out: no decision of the simulator depends on them              *)
(* (Event::setKernel never copies the bandwidth).                          *)
(***************************************************************************)
EXTENDS Integers, Sequences, FiniteSets

VARIABLES
    kernels,    \* the Kernel objects
    next,       \* their next vectors
    Apps        \* the App objects

graph == <<kernels, next, Apps>>

NULL == 0                           \* no Kernel object has index 0

(* Kernel::type *)
Compute == 1
HtoD    == 2
DtoH    == 3
KernelTypes == {Compute, HtoD, DtoH}

(* Kernel::Kernel(a, t, s, st, l, b) and Kernel::setParent(p) *)
NewKernel(a, t, st, l, p) ==
    [appid |-> a, type |-> t, start |-> st, length |-> l, parent |-> p]

(* Kernel::computeEnd *)
End(k) == k.start + k.length

(* The pointer `new` returns *)
NewId == Len(kernels) + 1

(* Mutant: a kernel takes one successor only. *)
MayAddNext_Single(p, t) == next[p] = {}

(* The test of Kernel::addNextKernel: no successor has the new one's type. *)
MayAddNext(p, t) == \A c \in next[p] : kernels[c].type # t

(* A successful Kernel::addNextKernel of a new kernel *)
AddNextKernel(p) == Append([next EXCEPT ![p] = @ \cup {NewId}], {})

Kernels == [appid : Nat, type : KernelTypes, start : Int, length : Nat, parent : Nat]
AppsOf(S) == [length : Nat \ {0}, slow : Nat, first : S, last : S]
=============================================================================
