------------------------------ MODULE MCStartup ------------------------------
(***************************************************************************)
(* A few invocations of the program for TLC.                               *)
(***************************************************************************)
EXTENDS Startup, TLC

InvocationSymmetry == Permutations(Invocations)

=============================================================================
