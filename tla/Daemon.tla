------------------------------- MODULE Daemon -------------------------------
(***************************************************************************)
(* The main loop of icmond (daemon.c): one process that sleeps in          *)
(* pselect() over a signalfd and three timerfds, takes ONE snapshot of the *)
(* readable descriptors (this.readfds) and then walks the handlers in a    *)
(* fixed order, testing the snapshot - not the descriptors - before each.  *)
(* Between any two of its steps timers expire, the worker process exits    *)
(* and signals arrive.                                                     *)
(*                                                                         *)
(* Time is abstracted: an armed timer may expire at any moment, and any    *)
(* set of scheduled events may be due when the schedule timer is served    *)
(* (EventSchedule has the clock).  The import timer (this.collecttmpfs) is *)
(* never armed by the code, so its handler is never entered and has no     *)
(* action here.                                                            *)
(***************************************************************************)
EXTENDS Naturals

CONSTANTS
  Pids,        \* process ids fork() may return
  NoPid,       \* the value 0 of this.worker.pid
  Intervals,   \* values cfg.execute.interval may have
  Schedules,   \* event lists cfg.event.liststring may parse to
  External,    \* signals other processes send to the daemon
  MaxTicks,    \* bound: interval ticks that arrive on their own
  MaxSignals   \* bound: signals sent by other processes

SignalNames == {"HUP", "USR1", "USR2", "TERM", "CHLD"}
\* Linux numbers; a signalfd read dequeues the lowest pending number.
SigNo(s) == CASE s = "HUP"  -> 1
              [] s = "USR1" -> 10
              [] s = "USR2" -> 12
              [] s = "TERM" -> 15
              [] s = "CHLD" -> 17

Actions == {"SUSPEND", "RESUME", "POWEROFF", "POWERON", "IMPORTTMPFS",
            "IMPORTTMPFSTIMEOUT", "WATCHDOG"}
EventTypes == {"DAILY", "INTERVAL", "ONCE"}
ParsedEvent == [action: Actions, type: EventTypes, source: {"PARSED"}]
Event == [action: Actions, type: EventTypes, source: {"PARSED", "INTERNAL"}]

ASSUME DaemonAssumption ==
  /\ NoPid \notin Pids
  /\ Schedules \subseteq SUBSET ParsedEvent
  /\ External \subseteq SignalNames
  /\ MaxTicks \in Nat /\ MaxSignals \in Nat

VARIABLES
  pc,              \* where the loop is; three final values
  ready,           \* this.readfds: the snapshot pselect() left behind
  pending,         \* signals queued on the signalfd (standard: coalesced)
  siginfo,         \* the signal just read from the signalfd
  proc,            \* state of the child processes
  worker_pid,      \* this.worker.pid
  worker_timer,    \* this.worker.fd: one shot
  interval_timer,  \* this.interval.fd: periodic
  schedule_timer,  \* this.schedule.fd: one shot, or no descriptor at all
  interval,        \* this.interval.tspec.it_interval
  events,          \* the event heap (kinds of events it holds)
  suspended_by_command,
  suspended_by_schedule,
  running,         \* this.state.running
  n_interval_ticks,   \* execstats: the three counters it reports
  n_datalog_actions,
  n_datalog_success,
  n_signals        \* signals sent so far (bounding only)

roundVars    == <<ready, pending, siginfo>>
workerVars   == <<proc, worker_pid, worker_timer>>
stats        == <<n_interval_ticks, n_datalog_actions, n_datalog_success>>
scheduleVars == <<schedule_timer, events, suspended_by_schedule>>
restVars     == <<interval_timer, interval, suspended_by_command, running,
                  stats, n_signals>>
vars == <<pc, roundVars, workerVars, scheduleVars, restVars>>

Stages == {"signal", "interval", "worker", "schedule"}
\* The order of the if (FD_ISSET()) blocks in the loop body.
NextStage(s) == CASE s = "signal"   -> "interval"
                  [] s = "interval" -> "worker"
                  [] s = "worker"   -> "schedule"
                  [] s = "schedule" -> "loop"

Dead == {"stopped", "failed"}
Alive == pc \notin Dead

TimerStates == {"none", "disarmed", "armed", "expired"}
\* "killed": SIGKILL was sent, the process has not died yet.
ProcStates == {"none", "running", "killed", "exited", "died"}
Zombie(p) == proc[p] \in {"exited", "died"}
Unreaped == {p \in Pids : proc[p] # "none"}

-----------------------------------------------------------------------------
Init ==
  /\ pc = "init"
  /\ ready = {} /\ pending = {} /\ siginfo = "none"
  /\ proc = [p \in Pids |-> "none"]
  /\ worker_pid = NoPid
  /\ worker_timer = "none"
  /\ interval_timer = "none"
  /\ schedule_timer = "none"
  /\ interval = 0
  /\ events = {}
  /\ suspended_by_command = FALSE /\ suspended_by_schedule = FALSE
  /\ running = TRUE
  /\ n_interval_ticks = 0 /\ n_datalog_actions = 0 /\ n_datalog_success = 0
  /\ n_signals = 0

(***************************************************************************)
(* daemon_initialize(): the interval timer is replaced only when the       *)
(* interval changed; the schedule timer is destroyed and, if the heap AS   *)
(* IT STILL IS has a next event, created again; only then are the parsed   *)
(* events of the heap replaced by the newly parsed ones.  A timer that is  *)
(* replaced forgets an expiry nobody has read yet.                         *)
(***************************************************************************)
Initialize(newInterval, newSchedule) ==
  /\ IF newInterval # interval
     THEN interval_timer' = "armed" /\ interval' = newInterval
     ELSE UNCHANGED <<interval_timer, interval>>
  /\ schedule_timer' = IF events # {} THEN "armed" ELSE "none"
  /\ worker_timer' = IF worker_timer = "none" THEN "disarmed" ELSE worker_timer
  /\ events' = {e \in events : e.source # "PARSED"} \cup newSchedule

Startup ==
  /\ pc = "init"
  /\ \E i \in Intervals, s \in Schedules : Initialize(i, s)
  /\ pc' = "select"
  /\ UNCHANGED <<roundVars, proc, worker_pid, running, stats,
                 suspended_by_command, suspended_by_schedule, n_signals>>

Readable ==
  {fd \in Stages :
     \/ fd = "signal"   /\ pending # {}
     \/ fd = "interval" /\ interval_timer = "expired"
     \/ fd = "worker"   /\ worker_timer = "expired"
     \/ fd = "schedule" /\ schedule_timer = "expired"}

\* build_fdset() and pselect() without a timeout
Select ==
  /\ pc = "select"
  /\ Readable # {}
  /\ ready' = Readable
  /\ pc' = "signal"
  /\ UNCHANGED <<pending, siginfo, workerVars, scheduleVars, restVars>>

\* A handler whose descriptor is not in the snapshot is passed over.  The
\* schedule descriptor is also 0, and never in a set, after it was destroyed.
NotReady(s) == s \notin ready \/ (s = "schedule" /\ schedule_timer = "none")

Pass(s) ==
  /\ pc = s
  /\ NotReady(s)
  /\ pc' = NextStage(s)
  /\ UNCHANGED <<roundVars, workerVars, scheduleVars, restVars>>

-----------------------------------------------------------------------------
\* Faulty variant: reads all that is queued and looks at the first only.
ReadSignalDrains ==
  /\ pc = "signal"
  /\ "signal" \in ready
  /\ \E s \in pending :
       /\ \A t \in pending : SigNo(s) <= SigNo(t)
       /\ siginfo' = s
  /\ pending' = {}
  /\ pc' = "handle"
  /\ UNCHANGED <<ready, workerVars, scheduleVars, interval_timer, interval,
                 suspended_by_command, running, stats, n_signals>>

\* One siginfo per round, however many signals are pending.
ReadSignal ==
  /\ pc = "signal"
  /\ "signal" \in ready
  /\ \E s \in pending :
       /\ \A t \in pending : SigNo(s) <= SigNo(t)
       /\ siginfo' = s
       /\ pending' = pending \ {s}
  /\ pc' = "handle"
  /\ UNCHANGED <<ready, workerVars, scheduleVars, interval_timer, interval,
                 suspended_by_command, running, stats, n_signals>>

Handling(s) == pc = "handle" /\ siginfo = s /\ pc' = "interval"

HandleTERM ==
  /\ Handling("TERM")
  /\ running' = FALSE
  /\ UNCHANGED <<roundVars, workerVars, scheduleVars,
                 interval_timer, interval, suspended_by_command, stats,
                 n_signals>>

\* The file is unreadable, or fails cfg_check(): no value changes.
HandleHUPRejected ==
  /\ Handling("HUP")
  /\ UNCHANGED <<roundVars, workerVars, scheduleVars, restVars>>

HandleHUPAccepted ==
  /\ Handling("HUP")
  /\ \E i \in Intervals, s \in Schedules : Initialize(i, s)
  /\ UNCHANGED <<roundVars, proc, worker_pid, running, stats,
                 suspended_by_command, suspended_by_schedule, n_signals>>

HandleUSR1 ==
  /\ Handling("USR1")
  /\ suspended_by_command' = TRUE
  /\ UNCHANGED <<roundVars, workerVars, scheduleVars,
                 interval_timer, interval, running, stats, n_signals>>

HandleUSR2 ==
  /\ Handling("USR2")
  /\ suspended_by_command' = FALSE
  /\ UNCHANGED <<roundVars, workerVars, scheduleVars,
                 interval_timer, interval, running, stats, n_signals>>

\* Faulty variant: timerfd_disarm() forgotten.
ReapKeepsTimer(p) ==
  /\ Zombie(p)
  /\ proc' = [proc EXCEPT ![p] = "none"]
  /\ worker_pid' = NoPid
  /\ n_datalog_success' =
       n_datalog_success + (IF proc[p] = "exited" THEN 1 ELSE 0)
  /\ UNCHANGED worker_timer

\* waitpid(-1, WNOHANG) found a dead child: one child per SIGCHLD.
Reap(p) ==
  /\ Zombie(p)
  /\ proc' = [proc EXCEPT ![p] = "none"]
  /\ IF p = worker_pid
     THEN /\ worker_timer' = "disarmed"
          /\ worker_pid' = NoPid
          /\ n_datalog_success' =
               n_datalog_success + (IF proc[p] = "exited" THEN 1 ELSE 0)
     ELSE UNCHANGED <<worker_timer, worker_pid, n_datalog_success>>

HandleCHLD ==
  /\ Handling("CHLD")
  /\ \E p \in Pids : Reap(p)
  /\ UNCHANGED <<roundVars, scheduleVars, interval_timer,
                 interval, suspended_by_command, running, n_interval_ticks,
                 n_datalog_actions, n_signals>>

\* waitpid() returned 0 (the child was stopped or continued, or its exit has
\* not happened yet) or -1 (no child at all): logged, nothing else.
HandleCHLDNobody ==
  /\ Handling("CHLD")
  /\ \A p \in Pids : ~Zombie(p)
  /\ UNCHANGED <<roundVars, workerVars, scheduleVars, restVars>>

-----------------------------------------------------------------------------
(***************************************************************************)
(* timerfd_acknowledge(): the descriptors are opened without TFD_NONBLOCK, *)
(* so the read returns only once the timer has expired.  When the snapshot *)
(* is stale - the timer was disarmed or replaced earlier in the round -    *)
(* the daemon sleeps here.                                                 *)
(***************************************************************************)
Acknowledge(fd, timer) == pc = fd /\ fd \in ready /\ timer = "expired"

Suspended == suspended_by_command \/ suspended_by_schedule

IntervalTick ==
  /\ Acknowledge("interval", interval_timer)
  /\ interval_timer' = "armed"
  /\ n_interval_ticks' = n_interval_ticks + 1
  /\ pc' = "worker"
  /\ UNCHANGED <<roundVars, scheduleVars, interval,
                 suspended_by_command, running, n_datalog_success, n_signals>>

\* Faulty variant: a skipped tick gives the running worker new time.
TickRestartsTimer ==
  /\ IntervalTick
  /\ worker_timer' = IF worker_pid # NoPid THEN "armed" ELSE worker_timer
  /\ UNCHANGED <<proc, worker_pid, n_datalog_actions>>

\* Suspended, the previous worker not collected yet, or fork() failed.
TickWithoutWorker ==
  /\ IntervalTick
  /\ UNCHANGED <<workerVars, n_datalog_actions>>

ForkWorker ==
  \E p \in Pids \ Unreaped :
    /\ proc' = [proc EXCEPT ![p] = "running"]
    /\ worker_pid' = p

\* Faulty variants: no look at the previous worker; no timeout.
TickForksAlways ==
  /\ IntervalTick
  /\ ~Suspended
  /\ ForkWorker
  /\ worker_timer' = "armed"
  /\ n_datalog_actions' = n_datalog_actions + 1

TickForksUnwatched ==
  /\ IntervalTick
  /\ ~Suspended
  /\ worker_pid = NoPid
  /\ ForkWorker
  /\ n_datalog_actions' = n_datalog_actions + 1
  /\ UNCHANGED worker_timer

TickForksWorker ==
  /\ IntervalTick
  /\ ~Suspended
  /\ worker_pid = NoPid
  /\ ForkWorker
  /\ worker_timer' = "armed"
  /\ n_datalog_actions' = n_datalog_actions + 1

\* Faulty variant: the timer is silenced and the worker left alone.
WorkerTimeoutSpares ==
  /\ Acknowledge("worker", worker_timer)
  /\ worker_timer' = "disarmed"
  /\ pc' = "schedule"
  /\ UNCHANGED <<roundVars, proc, worker_pid, scheduleVars, restVars>>

\* SIGKILL goes to this.worker.pid.  With pid 0 it would hit the daemon's own
\* process group; with a pid nobody has, kill() fails and the daemon exits.
WorkerTimeout ==
  /\ Acknowledge("worker", worker_timer)
  /\ worker_timer' = "disarmed"
  /\ IF worker_pid \in Unreaped
     THEN /\ pc' = "schedule"
          /\ proc' = [proc EXCEPT ![worker_pid] =
                        IF @ = "running" THEN "killed" ELSE @]
     ELSE /\ pc' = "failed"
          /\ UNCHANGED proc
  /\ UNCHANGED <<roundVars, worker_pid, scheduleVars, restVars>>

-----------------------------------------------------------------------------
\* Faulty variant: the action table is off by one, the type is unset.
ImportTimeoutUntyped ==
  [action |-> "IMPORTTMPFSTIMEOUT", type |-> "NULL", source |-> "INTERNAL"]

ImportTimeout ==
  [action |-> "IMPORTTMPFSTIMEOUT", type |-> "ONCE", source |-> "INTERNAL"]

\* event_execute(): daemon_importtmpfs() adds a one-time event.
Created(due) ==
  IF \E e \in due : e.action = "IMPORTTMPFS" THEN {ImportTimeout} ELSE {}

\* The SUSPEND or RESUME executed last decides.
SuspendedAfter(due) ==
  LET switches == {e.action : e \in due} \cap {"SUSPEND", "RESUME"}
  IN IF switches = {} THEN {suspended_by_schedule}
                      ELSE {a = "SUSPEND" : a \in switches}

\* Execute what is due, put repeating events back, arm for the next event.
\* Events of one kind may be several: a one-time kind may be left over.
ScheduleRun ==
  /\ Acknowledge("schedule", schedule_timer)
  /\ \E due \in SUBSET events :
       /\ \E gone \in SUBSET {e \in due : e.type = "ONCE"} :
            events' = (events \ gone) \cup Created(due)
       /\ suspended_by_schedule' \in SuspendedAfter(due)
  /\ schedule_timer' = IF events' # {} THEN "armed" ELSE "disarmed"
  /\ pc' = "loop"
  /\ UNCHANGED <<roundVars, workerVars, interval_timer, interval,
                 suspended_by_command, running, stats, n_signals>>

\* event_reschedule() of an interval event served more than one of its
\* intervals late gives a trigger time in the past: exit(EXIT_FAILURE).
ScheduleRunFails ==
  /\ Acknowledge("schedule", schedule_timer)
  /\ \E e \in events : e.type = "INTERVAL"
  /\ schedule_timer' = "disarmed"
  /\ pc' = "failed"
  /\ UNCHANGED <<roundVars, workerVars, events, interval_timer,
                 suspended_by_schedule, interval, suspended_by_command,
                 running, stats, n_signals>>

\* } while (this.state.running).  The snapshot is rebuilt before it is used
\* again and sigfdinfo is local to its block: both are forgotten here.
LoopEnd ==
  /\ pc = "loop"
  /\ pc' = IF running THEN "select" ELSE "stopped"
  /\ ready' = {}
  /\ siginfo' = "none"
  /\ UNCHANGED <<pending, workerVars, scheduleVars, restVars>>

DaemonNext ==
  \/ Startup \/ Select
  \/ \E s \in Stages : Pass(s)
  \/ ReadSignal \/ HandleTERM \/ HandleHUPRejected \/ HandleHUPAccepted
  \/ HandleUSR1 \/ HandleUSR2 \/ HandleCHLD \/ HandleCHLDNobody
  \/ TickWithoutWorker \/ TickForksWorker \/ WorkerTimeout
  \/ ScheduleRun \/ ScheduleRunFails \/ LoopEnd

-----------------------------------------------------------------------------
(***************************************************************************)
(* Everything the daemon does not do itself.                               *)
(***************************************************************************)
envFrame == <<pc, ready, siginfo, worker_pid, interval, events,
              suspended_by_command, suspended_by_schedule, running, stats>>

\* The bound on ticks spares a tick the daemon is waiting for.
IntervalExpires ==
  /\ Alive
  /\ interval_timer = "armed"
  /\ n_interval_ticks < MaxTicks \/ (pc = "interval" /\ "interval" \in ready)
  /\ interval_timer' = "expired"
  /\ UNCHANGED <<envFrame, pending, proc, worker_timer, schedule_timer,
                 n_signals>>

WorkerExpires ==
  /\ Alive
  /\ worker_timer = "armed"
  /\ worker_timer' = "expired"
  /\ UNCHANGED <<envFrame, pending, proc, interval_timer, schedule_timer,
                 n_signals>>

ScheduleExpires ==
  /\ Alive
  /\ schedule_timer = "armed"
  /\ schedule_timer' = "expired"
  /\ UNCHANGED <<envFrame, pending, proc, interval_timer, worker_timer,
                 n_signals>>

\* A worker ends by itself, or never does.
WorkerExits(p) ==
  /\ Alive
  /\ proc[p] = "running"
  /\ \E s \in {"exited", "died"} : proc' = [proc EXCEPT ![p] = s]
  /\ pending' = pending \cup {"CHLD"}
  /\ UNCHANGED <<envFrame, interval_timer, worker_timer, schedule_timer,
                 n_signals>>

\* SIGKILL takes effect.
WorkerDies(p) ==
  /\ Alive
  /\ proc[p] = "killed"
  /\ proc' = [proc EXCEPT ![p] = "died"]
  /\ pending' = pending \cup {"CHLD"}
  /\ UNCHANGED <<envFrame, interval_timer, worker_timer, schedule_timer,
                 n_signals>>

\* kill(1), or SIGCHLD for a worker that was stopped or continued.
SignalArrives ==
  /\ Alive
  /\ n_signals < MaxSignals
  /\ \E s \in External : pending' = pending \cup {s}
  /\ n_signals' = n_signals + 1
  /\ UNCHANGED <<envFrame, proc, interval_timer, worker_timer, schedule_timer>>

EnvNext ==
  \/ IntervalExpires \/ WorkerExpires \/ ScheduleExpires
  \/ \E p \in Pids : WorkerExits(p) \/ WorkerDies(p)
  \/ SignalArrives

Next == DaemonNext \/ EnvNext

Spec == Init /\ [][Next]_vars

(***************************************************************************)
(* The daemon is a running process, timers that are armed expire and a     *)
(* process that was sent SIGKILL dies.  Nothing is assumed of a worker     *)
(* that was not killed, nor of the senders of signals.                     *)
(***************************************************************************)
Fairness ==
  /\ WF_vars(DaemonNext)
  /\ WF_vars(IntervalExpires)
  /\ WF_vars(WorkerExpires)
  /\ WF_vars(ScheduleExpires)
  /\ \A p \in Pids : WF_vars(WorkerDies(p))

FairSpec == Spec /\ Fairness

-----------------------------------------------------------------------------
TypeOK ==
  /\ pc \in Stages \cup Dead \cup {"init", "select", "handle", "loop"}
  /\ ready \subseteq Stages
  /\ pending \subseteq SignalNames
  /\ siginfo \in SignalNames \cup {"none"}
  /\ proc \in [Pids -> ProcStates]
  /\ worker_pid \in Pids \cup {NoPid}
  /\ worker_timer \in TimerStates
  /\ interval_timer \in {"none", "armed", "expired"}
  /\ schedule_timer \in TimerStates
  /\ interval \in Intervals \cup {0}
  /\ events \subseteq Event
  /\ suspended_by_command \in BOOLEAN
  /\ suspended_by_schedule \in BOOLEAN
  /\ running \in BOOLEAN
  /\ n_interval_ticks \in Nat
  /\ n_datalog_actions \in Nat
  /\ n_datalog_success \in Nat
  /\ n_signals \in Nat

(***************************************************************************)
(* this.worker.pid names the one child that has not been collected, and is *)
(* 0 only when there is none: handle_SIGCHLD() and the interval handler    *)
(* together never lose a child nor fork a second one.                      *)
(***************************************************************************)
WorkerTracked == Unreaped = {worker_pid} \ {NoPid}

(***************************************************************************)
(* A worker is never left without a watch: until it is collected its       *)
(* timeout is pending or it has been killed already; and the timeout of a  *)
(* worker that was collected is not left pending for the next one.         *)
(***************************************************************************)
WorkerWatched ==
  /\ \A p \in Pids : proc[p] = "running" => worker_timer \in {"armed", "expired"}
  /\ worker_timer \in {"armed", "expired"} => worker_pid # NoPid

(***************************************************************************)
(* When the timeout handler kills, the pid it uses is that of a child that *)
(* is still there: never 0 (the daemon's own process group) and never a    *)
(* pid the kernel may have given to another process.                       *)
(***************************************************************************)
KillIsSafe == worker_timer = "expired" => worker_pid \in Unreaped

(***************************************************************************)
(* No child waits for ever to be collected: while one is dead, its SIGCHLD *)
(* is still queued or is the signal being handled - although standard      *)
(* signals coalesce, one is read per round and one child is collected per  *)
(* signal.                                                                 *)
(***************************************************************************)
ZombieAnnounced ==
  Alive => \A p \in Pids : Zombie(p) =>
    "CHLD" \in pending \/ (pc = "handle" /\ siginfo = "CHLD")

(***************************************************************************)
(* The three figures logexecstats() reports on exit stay in proportion:    *)
(* every worker is counted when forked, at most once when it succeeded.    *)
(***************************************************************************)
StatsConsistent ==
  /\ n_datalog_success + (IF worker_pid = NoPid THEN 0 ELSE 1)
       <= n_datalog_actions
  /\ n_datalog_actions <= n_interval_ticks

(***************************************************************************)
(* Once there is a schedule timer it is never left unset while the heap    *)
(* holds events: serving the schedule re-arms it and a reload keeps it.    *)
(***************************************************************************)
ScheduleTimerLive ==
  pc # "failed" /\ events # {} => schedule_timer # "disarmed"

(***************************************************************************)
(* A handler meets a timer that has not expired - and sleeps in read() -   *)
(* only because of the signal handled in the same round: the worker timer  *)
(* after SIGCHLD disarmed it, the other two after SIGHUP replaced them.    *)
(***************************************************************************)
StaleOnlyAfterSignal ==
  /\ pc = "interval" /\ "interval" \in ready /\ interval_timer # "expired"
       => "signal" \in ready /\ siginfo = "HUP"
  /\ pc \in {"interval", "worker"} /\ "worker" \in ready /\ worker_timer # "expired"
       => "signal" \in ready /\ siginfo = "CHLD"
  /\ pc \in {"interval", "worker", "schedule"} /\ "schedule" \in ready
       /\ schedule_timer # "expired"
       => "signal" \in ready /\ siginfo = "HUP"

\* The daemon sleeps in read() on a timer that is not even set.
Hung == pc = "worker" /\ "worker" \in ready /\ worker_timer = "disarmed"

(***************************************************************************)
(* Unless the daemon hangs, every worker is collected some time after it   *)
(* was forked, also one that never ends by itself and whatever signals     *)
(* come in between.                                                        *)
(***************************************************************************)
WorkerReaped ==
  [](~Hung) => (worker_pid # NoPid ~> (worker_pid = NoPid \/ ~Alive))

(***************************************************************************)
(* Unless the daemon hangs, signals are obeyed although only one is read   *)
(* per round and lower numbers go first: SIGTERM ends the daemon, SIGUSR1  *)
(* and SIGUSR2 suspend and resume it.                                      *)
(***************************************************************************)
SignalsObeyed ==
  [](~Hung) =>
    /\ "TERM" \in pending ~> ~Alive
    /\ "USR1" \in pending ~> (suspended_by_command \/ ~Alive)
    /\ "USR2" \in pending ~> (~suspended_by_command \/ ~Alive)

(***************************************************************************)
(* README:213-214: "we can at least ensure that the daemon keeps on        *)
(* ticking intervals reliably"; daemon.c:913-915 says the same.  Every     *)
(* expiry of the interval timer is served as long as the daemon runs.      *)
(***************************************************************************)
TicksServed == interval_timer = "expired" ~> (interval_timer # "expired" \/ ~Alive)

=============================================================================
