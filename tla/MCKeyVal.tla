------------------------------- MODULE MCKeyVal -------------------------------
(***************************************************************************)
(* All short lines for TLC.                                                *)
(***************************************************************************)
EXTENDS KeyVal

=============================================================================
