-------------------------- MODULE MCEventSchedule ---------------------------
(***************************************************************************)
(* Small instances of the schedule: a day of four moments, up to three     *)
(* days.                                                                   *)
(***************************************************************************)
EXTENDS EventSchedule

Good(a, t, o) == [action |-> a, type |-> t, localoffset |-> o, ok |-> TRUE]
Bad == [action |-> "WATCHDOG", type |-> "DAILY", localoffset |-> 0, ok |-> FALSE]

Pause == <<Good("SUSPEND", "DAILY", 3), Good("RESUME", "DAILY", 1)>>
Import == <<Good("IMPORTTMPFS", "INTERVAL", 2), Good("RESUME", "ONCE", 3)>>
Twice == <<Good("SUSPEND", "DAILY", 1), Good("SUSPEND", "DAILY", 1)>>
Wrong == <<Good("RESUME", "DAILY", 2), Bad>>

AllLists == {<<>>, Pause, Twice, Import, Wrong}
DailyLists == {<<>>, Pause, Twice}

=============================================================================
