------------------------------ MODULE MCDaemon ------------------------------
(***************************************************************************)
(* Small instances of the main loop for TLC.                               *)
(***************************************************************************)
EXTENDS Daemon, TLC

Ev(a, t) == [action |-> a, type |-> t, source |-> "PARSED"]

PidSymmetry == Permutations(Pids)

NoSchedule == {{}}
\* Nothing; a nightly pause; an import every so often and a one-time resume.
SomeSchedules ==
  { {},
    {Ev("SUSPEND", "DAILY"), Ev("RESUME", "DAILY")},
    {Ev("IMPORTTMPFS", "INTERVAL"), Ev("RESUME", "ONCE")} }

=============================================================================
