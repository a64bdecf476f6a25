---------------------------- MODULE MCPreparation ----------------------------
(***************************************************************************)
(* Two rows in a performance test and two mounts for TLC.                  *)
(***************************************************************************)
EXTENDS Preparation

MCTests == {-1, 0, 1}

=============================================================================
