----------------------------- MODULE MCDatalogger -----------------------------
(***************************************************************************)
(* One worker; the model has no parameters.                                *)
(***************************************************************************)
EXTENDS Datalogger
=============================================================================
