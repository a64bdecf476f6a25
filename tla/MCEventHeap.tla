---------------------------- MODULE MCEventHeap -----------------------------
(***************************************************************************)
(* A heap of up to five events over three moments: three levels, ties, an  *)
(* only child, and a first allocation that must grow twice.                *)
(***************************************************************************)
EXTENDS EventHeap, TLC

EventSymmetry == Permutations(Events)

=============================================================================
