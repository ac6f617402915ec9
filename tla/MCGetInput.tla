----------------------------- MODULE MCGetInput -----------------------------
(* Small instances of GetInput for TLC. *)
EXTENDS GetInput
=============================================================================
