---------------------------- MODULE DaemonProofs ----------------------------
(***************************************************************************)
(* Proofs about the main loop, for any set of pids, intervals, schedules   *)
(* and signals.                                                            *)
(***************************************************************************)
EXTENDS Daemon, TLAPS

USE DEF roundVars, restVars

\* daemon_initialize() keeps the types of what it touches.
LEMMA InitializeTypes ==
  ASSUME TypeOK, NEW i \in Intervals, NEW s \in Schedules, Initialize(i, s)
  PROVE  /\ interval' \in Intervals \cup {0}
         /\ interval_timer' \in {"none", "armed", "expired"}
         /\ schedule_timer' \in TimerStates
         /\ worker_timer' \in TimerStates
         /\ events' \subseteq Event
<1>1. s \subseteq Event
  BY DaemonAssumption DEF ParsedEvent, Event
<1>2. events' \subseteq Event
  BY <1>1 DEF Initialize, TypeOK
<1>3. QED
  BY <1>2 DEF Initialize, TypeOK, TimerStates

\* What the schedule handler leaves in the heap are events.
LEMMA ScheduleTypes ==
  ASSUME TypeOK, ScheduleRun
  PROVE  /\ events' \subseteq Event
         /\ suspended_by_schedule' \in BOOLEAN
         /\ schedule_timer' \in TimerStates
<1>1. PICK due \in SUBSET events :
        /\ \E gone \in SUBSET {e \in due : e.type = "ONCE"} :
             events' = (events \ gone) \cup Created(due)
        /\ suspended_by_schedule' \in SuspendedAfter(due)
  BY DEF ScheduleRun
<1>2. Created(due) \subseteq Event
  BY DEF Created, ImportTimeout, Event, Actions, EventTypes
<1>3. events' \subseteq Event
  BY <1>1, <1>2 DEF TypeOK
<1>4. SuspendedAfter(due) \subseteq BOOLEAN
  <2>1. {suspended_by_schedule} \subseteq BOOLEAN
    BY DEF TypeOK
  <2>2. {a = "SUSPEND" : a \in {e.action : e \in due} \cap {"SUSPEND", "RESUME"}}
          \subseteq BOOLEAN
    OBVIOUS
  <2>3. QED
    BY <2>1, <2>2 DEF SuspendedAfter
<1>5. schedule_timer' \in TimerStates
  BY DEF ScheduleRun, TimerStates
<1>6. QED
  BY <1>1, <1>3, <1>4, <1>5

\* Type correctness: every variable keeps the range its C counterpart has.
THEOREM TypeCorrect == Spec => []TypeOK
<1>1. Init => TypeOK
  <2> SUFFICES ASSUME Init PROVE TypeOK
    OBVIOUS
  <2>1. proc \in [Pids -> ProcStates]
    BY DEF Init, ProcStates
  <2>2. /\ suspended_by_command \in BOOLEAN
        /\ suspended_by_schedule \in BOOLEAN
        /\ running \in BOOLEAN
    BY Zenon DEF Init
  <2>3. QED
    BY <2>1, <2>2 DEF Init, TypeOK, TimerStates
<1>2. TypeOK /\ [Next]_vars => TypeOK'
  <2> SUFFICES ASSUME TypeOK, [Next]_vars PROVE TypeOK'
    OBVIOUS
  <2>1. CASE Startup
    <3>1. PICK i \in Intervals, s \in Schedules : Initialize(i, s)
      BY <2>1 DEF Startup
    <3>2. QED
      BY <2>1, <3>1, InitializeTypes DEF Startup, TypeOK, stats
  <2>2. CASE Select
    BY <2>2 DEF Select, TypeOK, Readable, Stages, workerVars, scheduleVars, stats
  <2>3. ASSUME NEW s \in Stages, Pass(s) PROVE TypeOK'
    <3>1. NextStage(s) \in Stages \cup {"loop"}
      BY DEF NextStage, Stages
    <3>2. QED
      BY <2>3, <3>1 DEF Pass, TypeOK, workerVars, scheduleVars, stats
  <2>4. CASE ReadSignal
    BY <2>4 DEF ReadSignal, TypeOK, workerVars, scheduleVars, stats
  <2>5. CASE HandleTERM
    BY <2>5 DEF HandleTERM, Handling, TypeOK, Stages, workerVars, scheduleVars, stats
  <2>6. CASE HandleHUPRejected
    BY <2>6 DEF HandleHUPRejected, Handling, TypeOK, Stages, workerVars,
                scheduleVars, stats
  <2>7. CASE HandleHUPAccepted
    <3>1. PICK i \in Intervals, s \in Schedules : Initialize(i, s)
      BY <2>7 DEF HandleHUPAccepted
    <3>2. QED
      BY <2>7, <3>1, InitializeTypes
      DEF HandleHUPAccepted, Handling, TypeOK, Stages, stats
  <2>8. CASE HandleUSR1
    BY <2>8 DEF HandleUSR1, Handling, TypeOK, Stages, workerVars, scheduleVars, stats
  <2>9. CASE HandleUSR2
    BY <2>9 DEF HandleUSR2, Handling, TypeOK, Stages, workerVars, scheduleVars, stats
  <2>10. CASE HandleCHLD
    <3>1. PICK p \in Pids : Reap(p)
      BY <2>10 DEF HandleCHLD
    <3>2. /\ proc' \in [Pids -> ProcStates]
          /\ worker_pid' \in Pids \cup {NoPid}
          /\ worker_timer' \in TimerStates
      BY <3>1 DEF Reap, TypeOK, ProcStates, TimerStates
    <3>3. n_datalog_success' \in Nat
      BY <3>1 DEF Reap, TypeOK
    <3>4. QED
      BY <2>10, <3>2, <3>3 DEF HandleCHLD, Handling, TypeOK, Stages, scheduleVars
  <2>11. CASE HandleCHLDNobody
    BY <2>11 DEF HandleCHLDNobody, Handling, TypeOK, Stages, workerVars,
                 scheduleVars, stats
  <2>12. CASE TickWithoutWorker
    BY <2>12 DEF TickWithoutWorker, IntervalTick, TypeOK, Stages, workerVars,
                 scheduleVars, stats
  <2>13. CASE TickForksWorker
    <3>1. PICK p \in Pids \ Unreaped :
            proc' = [proc EXCEPT ![p] = "running"] /\ worker_pid' = p
      BY <2>13 DEF TickForksWorker, ForkWorker
    <3>2. proc' \in [Pids -> ProcStates] /\ worker_pid' \in Pids
      BY <3>1 DEF TypeOK, ProcStates
    <3>3. QED
      BY <2>13, <3>2
      DEF TickForksWorker, IntervalTick, TypeOK, Stages, TimerStates,
          scheduleVars
  <2>14. CASE WorkerTimeout
    BY <2>14 DEF WorkerTimeout, TypeOK, Stages, Dead, ProcStates, TimerStates,
                 Unreaped, scheduleVars, stats
  <2>15. CASE ScheduleRun
    BY <2>15, ScheduleTypes DEF ScheduleRun, TypeOK, workerVars, stats
  <2>16. CASE ScheduleRunFails
    BY <2>16 DEF ScheduleRunFails, TypeOK, Dead, TimerStates, workerVars, stats
  <2>17. CASE LoopEnd
    BY <2>17 DEF LoopEnd, TypeOK, Dead, stats, workerVars, scheduleVars, stats
  <2>18. CASE IntervalExpires \/ WorkerExpires \/ ScheduleExpires \/ SignalArrives
    BY <2>18, DaemonAssumption
    DEF IntervalExpires, WorkerExpires, ScheduleExpires, SignalArrives, envFrame, stats,
        TypeOK, TimerStates
  <2>19. ASSUME NEW p \in Pids, WorkerExits(p) \/ WorkerDies(p) PROVE TypeOK'
    <3>1. PICK s \in {"exited", "died"} : proc' = [proc EXCEPT ![p] = s]
      BY <2>19 DEF WorkerExits, WorkerDies
    <3>2. proc' \in [Pids -> ProcStates]
      BY <3>1 DEF TypeOK, ProcStates
    <3>3. pending' \subseteq SignalNames
      BY <2>19 DEF WorkerExits, WorkerDies, TypeOK, SignalNames
    <3>4. QED
      BY <2>19, <3>2, <3>3 DEF WorkerExits, WorkerDies, envFrame, stats, TypeOK
  <2>20. CASE UNCHANGED vars
    BY <2>20 DEF vars, workerVars, scheduleVars, stats, TypeOK
  <2>21. QED
    BY <2>1, <2>2, <2>3, <2>4, <2>5, <2>6, <2>7, <2>8, <2>9, <2>10, <2>11,
       <2>12, <2>13, <2>14, <2>15, <2>16, <2>17, <2>18, <2>19, <2>20
    DEF Next, DaemonNext, EnvNext
<1>3. QED
  BY <1>1, <1>2, PTL DEF Spec

-----------------------------------------------------------------------------
(***************************************************************************)
(* The worker protocol.  None of its parts is inductive alone: that a      *)
(* collected worker leaves no timer behind (WorkerWatched) needs that it   *)
(* was the only one (WorkerTracked).                                       *)
(***************************************************************************)
WorkerInv == WorkerTracked /\ WorkerWatched /\ ZombieAnnounced /\ StatsConsistent

\* The actions that leave the worker, its timer and the counters alone, and
\* take no SIGCHLD out of the queue.
Quiet ==
  \/ Select \/ (\E s \in Stages : Pass(s))
  \/ HandleTERM \/ HandleHUPRejected \/ HandleUSR1 \/ HandleUSR2
  \/ ScheduleRun \/ ScheduleRunFails \/ LoopEnd
  \/ IntervalExpires \/ ScheduleExpires \/ SignalArrives

WorkerUntouched ==
  /\ UNCHANGED <<proc, worker_pid, worker_timer, stats>>
  /\ pending \subseteq pending'
  /\ pc = "handle" /\ siginfo = "CHLD" => pc' = "handle" /\ siginfo' = "CHLD"
  /\ Alive' => Alive

LEMMA QuietFrame == Quiet => WorkerUntouched
<1> USE DEF workerVars, scheduleVars, envFrame, stats, Alive, Dead, Stages,
            WorkerUntouched
<1>1. CASE Select
  BY <1>1 DEF Select
<1>2. ASSUME NEW s \in Stages, Pass(s) PROVE WorkerUntouched
  BY <1>2 DEF Pass
<1>3. CASE HandleTERM \/ HandleHUPRejected \/ HandleUSR1 \/ HandleUSR2
  BY <1>3 DEF HandleTERM, HandleHUPRejected, HandleUSR1, HandleUSR2, Handling
<1>4. CASE ScheduleRun \/ ScheduleRunFails \/ LoopEnd
  BY <1>4 DEF ScheduleRun, ScheduleRunFails, LoopEnd, Acknowledge
<1>5. CASE IntervalExpires \/ ScheduleExpires \/ SignalArrives
  BY <1>5 DEF IntervalExpires, ScheduleExpires, SignalArrives
<1>6. QED
  BY <1>1, <1>2, <1>3, <1>4, <1>5 DEF Quiet

LEMMA UntouchedKeeps == WorkerInv /\ WorkerUntouched => WorkerInv'
  BY DEF WorkerInv, WorkerUntouched, WorkerTracked, WorkerWatched,
         ZombieAnnounced, StatsConsistent, Unreaped, Zombie, stats

\* The worker protocol is preserved by every step.
LEMMA WorkerStep == TypeOK /\ WorkerInv /\ [Next]_vars => WorkerInv'
<1> SUFFICES ASSUME TypeOK, WorkerInv, [Next]_vars PROVE WorkerInv'
  OBVIOUS
<1> USE DEF WorkerInv
<1>1. CASE Quiet
  BY <1>1, QuietFrame, UntouchedKeeps
<1>2. CASE Startup \/ HandleHUPAccepted
  <2>1. /\ UNCHANGED <<proc, worker_pid, pending, stats>>
        /\ worker_timer' = IF worker_timer = "none" THEN "disarmed"
                           ELSE worker_timer
        /\ ~(pc = "handle" /\ siginfo = "CHLD")
        /\ Alive' => Alive
    BY <1>2 DEF Startup, HandleHUPAccepted, Handling, Initialize, stats, Alive,
                Dead
  <2>2. QED
    BY <2>1 DEF WorkerTracked, WorkerWatched, ZombieAnnounced, StatsConsistent,
                Unreaped, Zombie, stats
<1>3. CASE ReadSignal
  <2>1. /\ UNCHANGED <<proc, worker_pid, worker_timer, stats>>
        /\ "CHLD" \in pending =>
             "CHLD" \in pending' \/ (pc' = "handle" /\ siginfo' = "CHLD")
        /\ pc = "signal"
    BY <1>3 DEF ReadSignal, workerVars
  <2>2. QED
    BY <2>1 DEF WorkerTracked, WorkerWatched, ZombieAnnounced, StatsConsistent,
                Unreaped, Zombie, stats, Alive, Dead
<1>4. CASE HandleCHLD
  <2>1. PICK p \in Pids : Reap(p)
    BY <1>4 DEF HandleCHLD
  <2>2. p = worker_pid /\ p # NoPid
    BY <2>1, DaemonAssumption DEF Reap, Zombie, WorkerTracked, Unreaped
  <2>3. /\ proc' = [proc EXCEPT ![p] = "none"]
        /\ worker_timer' = "disarmed"
        /\ worker_pid' = NoPid
        /\ n_datalog_success' =
             n_datalog_success + (IF proc[p] = "exited" THEN 1 ELSE 0)
        /\ UNCHANGED <<n_interval_ticks, n_datalog_actions>>
    BY <1>4, <2>1, <2>2 DEF Reap, HandleCHLD
  <2>4. \A q \in Pids : proc'[q] = "none"
    BY <2>2, <2>3 DEF TypeOK, WorkerTracked, Unreaped
  <2>5. WorkerTracked' /\ WorkerWatched' /\ ZombieAnnounced'
    BY <2>3, <2>4 DEF WorkerTracked, WorkerWatched, ZombieAnnounced, Unreaped,
                      Zombie
  <2>6. StatsConsistent'
    BY <2>2, <2>3 DEF StatsConsistent, TypeOK
  <2>7. QED
    BY <2>5, <2>6
<1>5. CASE HandleCHLDNobody
  <2>1. /\ UNCHANGED <<proc, worker_pid, worker_timer, stats>>
        /\ \A p \in Pids : ~Zombie(p)
    BY <1>5 DEF HandleCHLDNobody, workerVars
  <2>2. QED
    BY <2>1 DEF WorkerTracked, WorkerWatched, ZombieAnnounced, StatsConsistent,
                Unreaped, Zombie, stats
<1>6. CASE TickWithoutWorker
  <2>1. /\ UNCHANGED <<proc, worker_pid, worker_timer, pending,
                       n_datalog_actions, n_datalog_success>>
        /\ n_interval_ticks' = n_interval_ticks + 1
        /\ pc = "interval"
    BY <1>6 DEF TickWithoutWorker, IntervalTick, Acknowledge, workerVars
  <2>2. StatsConsistent'
    BY <2>1 DEF StatsConsistent, TypeOK
  <2>3. QED
    BY <2>1, <2>2 DEF WorkerTracked, WorkerWatched, ZombieAnnounced, Unreaped,
                      Zombie, Alive, Dead
<1>7. CASE TickForksWorker
  <2>1. PICK p \in Pids \ Unreaped :
          proc' = [proc EXCEPT ![p] = "running"] /\ worker_pid' = p
    BY <1>7 DEF TickForksWorker, ForkWorker
  <2>2. /\ worker_pid = NoPid
        /\ worker_timer' = "armed"
        /\ n_datalog_actions' = n_datalog_actions + 1
        /\ n_interval_ticks' = n_interval_ticks + 1
        /\ UNCHANGED n_datalog_success
    BY <1>7 DEF TickForksWorker, IntervalTick
  <2>3. \A q \in Pids : proc[q] = "none"
    BY <2>2 DEF WorkerTracked, Unreaped
  <2>4. \A q \in Pids : proc'[q] = IF q = p THEN "running" ELSE "none"
    BY <2>1, <2>3 DEF TypeOK
  <2>5. WorkerTracked' /\ WorkerWatched' /\ ZombieAnnounced'
    BY <2>1, <2>2, <2>4, DaemonAssumption
    DEF WorkerTracked, WorkerWatched, ZombieAnnounced, Unreaped, Zombie
  <2>6. StatsConsistent'
    BY <2>1, <2>2 DEF StatsConsistent, TypeOK
  <2>7. QED
    BY <2>5, <2>6
<1>8. CASE WorkerTimeout
  <2>1. worker_pid \in Unreaped
    BY <1>8 DEF WorkerTimeout, Acknowledge, WorkerWatched, WorkerTracked
  <2>2. /\ worker_timer' = "disarmed"
        /\ proc' = [proc EXCEPT ![worker_pid] =
                      IF @ = "running" THEN "killed" ELSE @]
        /\ UNCHANGED <<worker_pid, pending, stats>>
        /\ pc = "worker"
    BY <1>8, <2>1 DEF WorkerTimeout, Acknowledge
  <2>3. Unreaped' = Unreaped
    BY <2>1, <2>2 DEF Unreaped, TypeOK
  <2>4. \A q \in Pids : Zombie(q)' => Zombie(q)
    BY <2>1, <2>2 DEF Zombie, Unreaped, TypeOK
  <2>5. \A q \in Pids : proc'[q] # "running"
    BY <2>1, <2>2 DEF WorkerTracked, Unreaped, TypeOK
  <2>6. WorkerTracked' /\ WorkerWatched' /\ StatsConsistent'
    BY <2>2, <2>3, <2>5 DEF WorkerTracked, WorkerWatched, StatsConsistent, stats
  <2>7. ZombieAnnounced'
    BY <2>2, <2>4 DEF ZombieAnnounced, Alive, Dead
  <2>8. QED
    BY <2>6, <2>7
<1>9. CASE WorkerExpires
  BY <1>9 DEF WorkerExpires, envFrame, WorkerTracked, WorkerWatched,
              ZombieAnnounced, StatsConsistent, Unreaped, Zombie, stats, Alive
<1>10. ASSUME NEW p \in Pids, WorkerExits(p) \/ WorkerDies(p) PROVE WorkerInv'
  <2>1. /\ "CHLD" \in pending'
        /\ UNCHANGED <<worker_pid, worker_timer, stats>>
        /\ proc[p] \in {"running", "killed"}
    BY <1>10 DEF WorkerExits, WorkerDies, envFrame, stats
  <2>2. PICK s \in {"exited", "died"} : proc' = [proc EXCEPT ![p] = s]
    BY <1>10 DEF WorkerExits, WorkerDies
  <2>3. Unreaped' = Unreaped
    BY <2>1, <2>2 DEF Unreaped, TypeOK
  <2>4. \A q \in Pids : proc'[q] = "running" => proc[q] = "running"
    BY <2>2 DEF TypeOK
  <2>5. QED
    BY <2>1, <2>3, <2>4 DEF WorkerTracked, WorkerWatched, ZombieAnnounced,
                            StatsConsistent, stats
<1>11. CASE UNCHANGED vars
  BY <1>11 DEF vars, workerVars, stats, WorkerTracked, WorkerWatched,
               ZombieAnnounced, StatsConsistent, Unreaped, Zombie, Alive
<1>12. QED
  BY <1>1, <1>2, <1>3, <1>4, <1>5, <1>6, <1>7, <1>8, <1>9, <1>10, <1>11
  DEF Next, DaemonNext, EnvNext, Quiet

LEMMA WorkerInit == Init => WorkerInv
  BY DEF Init, WorkerInv, WorkerTracked, WorkerWatched, ZombieAnnounced,
         StatsConsistent, Unreaped, Zombie

(***************************************************************************)
(* The worker protocol holds for ever: exactly the uncollected child is    *)
(* tracked, it is watched by its timeout until killed, its death is never  *)
(* missed and the reported figures agree.                                  *)
(***************************************************************************)
THEOREM WorkerSafe ==
  Spec => [](WorkerTracked /\ WorkerWatched /\ ZombieAnnounced /\ StatsConsistent)
<1>1. Init => WorkerInv
  BY WorkerInit
<1>2. TypeOK /\ WorkerInv /\ [Next]_vars => WorkerInv'
  BY WorkerStep
<1>3. Spec => []WorkerInv
  BY <1>1, <1>2, TypeCorrect, PTL DEF Spec
<1>4. WorkerInv =>
        WorkerTracked /\ WorkerWatched /\ ZombieAnnounced /\ StatsConsistent
  BY DEF WorkerInv
<1>5. QED
  BY <1>3, <1>4, PTL

\* A child that runs and was not killed has its timeout pending, and no timeout is
\* left pending after the child it was for.
THEOREM WorkerIsWatched == Spec => []WorkerWatched
BY WorkerSafe, PTL

\* No death of a child gets lost behind the other signals of its round.
THEOREM DeathIsAnnounced == Spec => []ZombieAnnounced
BY WorkerSafe, PTL

\* The timeout handler only ever kills a child that is still there.
THEOREM KillSafe == Spec => []KillIsSafe
<1>1. WorkerTracked /\ WorkerWatched => KillIsSafe
  BY DEF WorkerTracked, WorkerWatched, KillIsSafe
<1>2. QED
  BY <1>1, WorkerSafe, PTL

-----------------------------------------------------------------------------
(***************************************************************************)
(* The snapshot.  Until the signal is handled every descriptor in it is    *)
(* still readable - timers only move towards expiry - and what is not      *)
(* readable afterwards was reset by that signal's handler.                 *)
(***************************************************************************)
Fresh ==
  /\ "interval" \in ready => interval_timer = "expired"
  /\ "worker" \in ready => worker_timer = "expired"
  /\ "schedule" \in ready => schedule_timer = "expired"

StaleInv ==
  /\ pc \in {"signal", "handle"} => Fresh
  /\ pc = "handle" => "signal" \in ready
  /\ StaleOnlyAfterSignal

\* Timers move towards expiry, and neither the snapshot nor siginfo changes.
TimersAdvance ==
  /\ UNCHANGED <<pc, ready, siginfo>>
  /\ interval_timer = "expired" => interval_timer' = "expired"
  /\ worker_timer = "expired" => worker_timer' = "expired"
  /\ schedule_timer = "expired" => schedule_timer' = "expired"

LEMMA AdvanceKeepsStale == StaleInv /\ TimersAdvance => StaleInv'
  BY DEF StaleInv, TimersAdvance, StaleOnlyAfterSignal, Fresh

LEMMA StaleStep == TypeOK /\ WorkerInv /\ StaleInv /\ [Next]_vars => StaleInv'
<1> SUFFICES ASSUME TypeOK, WorkerInv, StaleInv, [Next]_vars PROVE StaleInv'
  OBVIOUS
<1> USE DEF StaleInv, StaleOnlyAfterSignal, Fresh, workerVars, scheduleVars
<1>1. CASE Startup
  BY <1>1 DEF Startup
<1>2. CASE Select
  BY <1>2 DEF Select, Readable, Stages
<1>3. ASSUME NEW s \in Stages, Pass(s) PROVE StaleInv'
  BY <1>3 DEF Pass, NotReady, NextStage, Stages
<1>4. CASE ReadSignal
  BY <1>4 DEF ReadSignal
<1>5. CASE HandleTERM \/ HandleHUPRejected \/ HandleUSR1 \/ HandleUSR2
  BY <1>5 DEF HandleTERM, HandleHUPRejected, HandleUSR1, HandleUSR2, Handling
<1>6. CASE HandleHUPAccepted
  <2>1. worker_timer = "expired" => worker_timer' = "expired"
    BY <1>6 DEF HandleHUPAccepted, Initialize
  <2>2. /\ pc = "handle" /\ siginfo = "HUP" /\ pc' = "interval"
        /\ UNCHANGED <<ready, siginfo>>
    BY <1>6 DEF HandleHUPAccepted, Handling
  <2>3. QED
    BY <2>1, <2>2
<1>7. CASE HandleCHLD \/ HandleCHLDNobody
  BY <1>7 DEF HandleCHLD, HandleCHLDNobody, Handling, Reap
<1>8. CASE TickWithoutWorker
  BY <1>8 DEF TickWithoutWorker, IntervalTick, Acknowledge
<1>9. CASE TickForksWorker
  <2>1. worker_timer # "expired"
    BY <1>9 DEF TickForksWorker, WorkerInv, WorkerWatched
  <2>2. /\ pc = "interval" /\ pc' = "worker"
        /\ UNCHANGED <<ready, siginfo, schedule_timer>>
    BY <1>9 DEF TickForksWorker, IntervalTick, Acknowledge
  <2>3. QED
    BY <2>1, <2>2
<1>10. CASE WorkerTimeout
  BY <1>10 DEF WorkerTimeout, Acknowledge
<1>11. CASE ScheduleRun \/ ScheduleRunFails \/ LoopEnd
  BY <1>11 DEF ScheduleRun, ScheduleRunFails, LoopEnd, Acknowledge
<1>12. CASE EnvNext
  <2>1. TimersAdvance
    BY <1>12 DEF EnvNext, IntervalExpires, WorkerExpires, ScheduleExpires,
                 WorkerExits, WorkerDies, SignalArrives, envFrame, TimersAdvance
  <2>2. QED
    BY <2>1, AdvanceKeepsStale
<1>13. CASE UNCHANGED vars
  BY <1>13 DEF vars
<1>14. QED
  BY <1>1, <1>2, <1>3, <1>4, <1>5, <1>6, <1>7, <1>8, <1>9, <1>10, <1>11, <1>12,
     <1>13 DEF Next, DaemonNext

(***************************************************************************)
(* Only two signals can make the daemon sleep in a handler: SIGCHLD, for   *)
(* the worker timer, and SIGHUP, for the interval and schedule timers.     *)
(***************************************************************************)
THEOREM StaleSafe == Spec => []StaleOnlyAfterSignal
<1>1. Init => StaleInv
  BY DEF Init, StaleInv, StaleOnlyAfterSignal
<1>2. TypeOK /\ WorkerInv /\ StaleInv /\ [Next]_vars => StaleInv'
  BY StaleStep
<1>3. WorkerTracked /\ WorkerWatched /\ ZombieAnnounced /\ StatsConsistent
        => WorkerInv
  BY DEF WorkerInv
<1>4. StaleInv => StaleOnlyAfterSignal
  BY DEF StaleInv
<1>5. QED
  BY <1>1, <1>2, <1>3, <1>4, TypeCorrect, WorkerSafe, PTL DEF Spec

\* A set schedule timer stays set while there are events.
THEOREM ScheduleLive == Spec => []ScheduleTimerLive
<1>1. Init => ScheduleTimerLive
  BY DEF Init, ScheduleTimerLive
<1>2. ScheduleTimerLive /\ [Next]_vars => ScheduleTimerLive'
  <2> SUFFICES ASSUME ScheduleTimerLive, [Next]_vars PROVE ScheduleTimerLive'
    OBVIOUS
  <2> USE DEF ScheduleTimerLive, scheduleVars
  <2>1. CASE Startup \/ HandleHUPAccepted
    BY <2>1 DEF Startup, HandleHUPAccepted, Initialize
  <2>2. CASE ScheduleRun \/ ScheduleRunFails
    BY <2>2 DEF ScheduleRun, ScheduleRunFails
  <2>3. CASE ScheduleExpires
    BY <2>3 DEF ScheduleExpires
  <2>4. CASE UNCHANGED <<events, schedule_timer>> /\ (pc = "failed" => pc' = "failed")
    BY <2>4
  <2>5. CASE \/ Select \/ (\E s \in Stages : Pass(s)) \/ ReadSignal
             \/ HandleTERM \/ HandleHUPRejected \/ HandleUSR1 \/ HandleUSR2
             \/ HandleCHLD \/ HandleCHLDNobody
    BY <2>4, <2>5 DEF Select, Pass, ReadSignal, HandleTERM, HandleHUPRejected,
       HandleUSR1, HandleUSR2, HandleCHLD, HandleCHLDNobody, Handling, Stages
  <2>6. CASE TickWithoutWorker \/ TickForksWorker \/ WorkerTimeout \/ LoopEnd
    BY <2>4, <2>6 DEF TickWithoutWorker, TickForksWorker, IntervalTick,
       WorkerTimeout, LoopEnd, Acknowledge
  <2>7. CASE \/ IntervalExpires \/ WorkerExpires \/ SignalArrives
             \/ \E p \in Pids : WorkerExits(p) \/ WorkerDies(p)
    BY <2>4, <2>7 DEF IntervalExpires, WorkerExpires, SignalArrives, WorkerExits,
       WorkerDies, envFrame
  <2>8. CASE UNCHANGED vars
    BY <2>4, <2>8 DEF vars
  <2>9. QED
    BY <2>1, <2>2, <2>3, <2>5, <2>6, <2>7, <2>8 DEF Next, DaemonNext, EnvNext
<1>3. QED
  BY <1>1, <1>2, PTL DEF Spec

=============================================================================
