----------------------------- MODULE MCKernelSim -----------------------------
(***************************************************************************)
(* Small instances of KernelSim for TLC.  Trace times are multiples of     *)
(* Unit and the wait margin is Margin, both divisible by 6 often enough    *)
(* for the rescaling of up to three copies to stay exact.                  *)
(***************************************************************************)
EXTENDS KernelSim

Unit   == 6 * 6 * 6 * 6 * 6 * 6
Margin == 6 * 6 * 6 * 6
U(S)   == {x * Unit : x \in S}

(* two applications, up to two rows each, two iterations *)
PairStarts    == U({0, 1})
PairDurations == U({2})
PairLengths   == U({2})
PairMAX       == 4 * Unit

(* three applications of at most one row: three copies on one bus *)
TrioStarts    == U({0})
TrioDurations == U({1, 2})
TrioLengths   == U({2})
TrioMAX       == 2 * Unit

(* one application, longer traces, also ones that outlast the iteration *)
SoloStarts    == U({0, 1, 3})
SoloDurations == U({1, 2})
SoloLengths   == U({2, 4})
SoloMAX       == 8 * Unit

=============================================================================
