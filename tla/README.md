# icmond in TLA+

icmond is a daemon that logs the line values of a cable modem. On every tick of
an interval it forks a worker, which runs an external scrubber, pings the modem
and an Internet host, and inserts one row into an SQLite database. This directory
models the parts of it in which order, timing and ownership decide whether it is
right, checks them with TLC and proves the central invariants with TLAPS.

- [The system](#the-system): components, state, operations, interactions
- [Modules](#modules): which module models what, and how
- [Runs](#runs): what TLC checks, within which bounds
- [Fairness](#fairness)
- [Proofs](#proofs): what holds for every value of the constants, and why
- [Disagreements](#disagreements): where code and documentation differ
- [Not modelled](#not-modelled)
- [Plan](#plan)

To check: `tlc -config MCDaemon.cfg MCDaemon.tla` (likewise the other MC modules
and their .cfg files), `tlapm DaemonProofs.tla` (likewise the other `*Proofs.tla`).

## The system

| Component | State | Operations |
|---|---|---|
| main loop, `daemon.c` | `this`: signalfd, the timers of interval, worker and schedule, the snapshot `readfds`, `worker.pid`, `suspended_by_command`, `suspended_by_schedule`, `running`; `execstats` | one round: `pselect()`, then the handlers of signals, interval, worker timeout and schedule, in this order |
| event schedule, `event.c` | `g_parsed`, the test schedule; every event's `next_trigger` | test parsing, commit, clear, create, reschedule, execute |
| event heap, `eventheap.c` | `g_heap`: an array of pointers with its size in slot 0 | insert, fetch, fetchtriggered, destroy |
| configuration, `config.c` | `cfg` and the copy being read; the strings both point to | `cfg_init`, `cfg_read_file`, `cfg_read_argv`, `cfg_check`, `cfg_commit`, `cfg_free` |
| start-up, `main.c` | parent and child, their signals, two seconds of alarm | `daemonize`, `daemonchild_handler`, `predaemon_initialize` |
| PID file, `pidfile.c` | the name, the open file, its lock and its content | `pidfile_lock`, `pidfile_unlock` |
| worker, `datalogger.c`, `icmpecho.c` | the scrubber process, two pings, three timers, the row | `datalogger`, `process_child`, `icmp_prepare`, `icmp_send`, `icmp_receive` |
| special commands, `main.c` | the command line, the files it is about | `-createdb`, `-writeconfig`, `-testdbwrite`, the measurement before the fork |
| database, `database.c` | the SQLite file | create, insert, delete, performance test |
| users and capabilities, `user.c`, `capability.c` | real, effective and saved ids, capabilities | `user_set_eugid`, `user_restore_eugid`, `user_changeto`, `capability_set` |
| tmpfs, `tmpfs.c` | mounts on the mount point | mount |
| key-value parser and string arrays, `keyval.c`, `util.c` | one line, one buffer, two pointer lists | parse, sanitize, join, split, collapse |
| power, logging, terminal, process statistics | | stubs and wrappers |

How they interact:

- The main loop reads signals and timers through descriptors. It forks the worker
  and hears of its end by SIGCHLD; its own timer lets it kill a worker that hangs.
- SIGHUP makes the main loop call the configuration, which parses the event string
  into the test schedule; `daemon_initialize()` then commits that to the heap and
  sets up the timers again.
- The schedule handler takes the triggered events from the heap, executes them
  (some suspend or resume the main loop, one creates a further event) and puts the
  repeating ones back.
- The worker is a fork of the daemon. It inherits its `atexit()` handler, and with
  it the duty to remove the PID file.
- Every string of the configuration passes the key-value parser twice: a line is
  split into values, the values are joined into one string that `cfg` keeps, and that
  string is split again wherever it is used.
- The special commands work on the files of a daemon that may be running: they
  remove, create and test the database its workers insert into. They change the
  effective user and change it back; what follows relies on the change back.
- The parent of the daemon waits for the child's signal and turns it into the
  answer to the administrator. The child inherits the parent's handlers.

What is hard:

- **Snapshots.** Both loops ask `pselect()` once and test the answer several
  handlers later, when it may be stale. `timerfd_acknowledge()` is a blocking
  read: a stale answer is a sleep.
- **Signals** coalesce, are read one per round, and lower numbers go first.
- **Processes** end between any two steps, and pids are reused.
- **Ownership.** Events and strings are bare pointers that move between three
  owners, on paths that depend on what was rejected before.
- **Late service.** The handler of the schedule may run long after the trigger.
- **Names and files.** The PID file may be unlinked while others have it open; the
  database may be created by a worker between its removal and its creation.
- **Identity.** Who a system call is made as depends on the calls before it that
  succeeded, and on returns in between.
- **Escapes.** Four passes over a line interpret backslashes, each with a flag of its own,
  in a buffer whose size was counted before the first of them moved anything.

What makes the components correct:

- main loop: one worker at a time, tracked, watched by its timeout and collected;
  no kill of a wrong process; signals are obeyed; ticks go on
- heap: a heap, always, inside its allocation; fetch returns an earliest event
- schedule: no event lost, doubled or owned twice; daily events at their hour;
  execution in order; the timer set for the next event
- configuration: a rejected file changes nothing, an accepted one everything
- start-up and PID file: one instance; an answer, and what it is worth; a PID file that names the daemon
- worker: one row per tick with what was measured; no wrong kill; it ends
- key-value parser: nothing outside the buffer; the values the rules ask for, and the
  same ones after the second split
- special commands and database: the right user for every step; no measurement lost
  without consent; success means a complete database; nothing of root in the daemon

## Modules

| Module | Models | Composition |
|---|---|---|
| `EventQueue` | what `event.c` needs of the heap: a set with its trigger times | abstract specification |
| `EventHeap` | `eventheap.c` | implements `EventQueue` (`ImplementsQueue`) |
| `EventSchedule` | `event.c` and its use in `daemon.c`, over a clock | uses `EventQueue` as `Heap` for the heap |
| `Daemon` | `daemon.c` | the schedule is a set of events that may be due, the worker a process |
| `Datalogger` | `datalogger.c`, `icmpecho.c` | the inside of the worker, with the kill by `Daemon` as an action |
| `ConfigReload` | `config.c`, `main.c`, SIGHUP in `daemon.c` | the schedule is the list it was made of |
| `Startup` | `main.c`, `pidfile.c`, all exits | several daemons, each with its worker and its parent |
| `KeyVal` | `keyval.c`, string arrays of `util.c` | what a line of `ConfigReload`'s files becomes |
| `Preparation` | commands and preparation in `main.c`, `database.c`, `user.c`, `capability.c`, `tmpfs.c`, files in `config.c` | ends where an invocation of `Startup` begins to run |
| `*Proofs` | | theorems about the module of the same name |
| `MC*` | | instances for TLC |

The modules share no variables: each takes the part of the process that its
properties are about and leaves the others as coarse as the code lets it. Where
one abstracts what another details, it allows every behaviour the other has:
`Daemon` lets any set of events be due, of which `EventSchedule` says which;
it lets a worker end at any time, or never, of which `Datalogger` says how.

**Daemon.** `pc` is the handler the round has reached; `ready` is the snapshot.
`Select` takes it, `Pass(s)` is a test of it that fails. `ReadSignal` takes the
lowest pending number, the `Handle...` actions are the cases of the switch.
`Initialize` is `daemon_initialize()`, called by `Startup` and `HandleHUPAccepted`.
`TickForksWorker`, `TickWithoutWorker`, `WorkerTimeout` and `ScheduleRun` are the
other handlers, each with the acknowledgement it begins with: none is enabled on a
timer that has not expired, which is how a blocking read is modelled. A timer is
`"armed"`, `"expired"` or `"disarmed"`; time is the freedom of an armed timer to
expire. Children are running, dying or dead; `TickForksWorker` may reuse a pid that
was collected. The counters are those of `logexecstats()`.

**EventQueue, EventHeap.** `g_heap` is the sequence of slots 1 to HEAPSIZE.
`BubbleUp` is one round of the loop in `eventheap_insert()`, `Heapify` one call of
the tail recursion. `capacity` counts the slots of the allocation: it grows by
SIZE_INCREMENT *bytes* (`GROWTH` slots) plus whatever `malloc_usable_size()` adds
(`Slack`). `eventheap_destroy()` fetches until the heap is empty.

**EventSchedule.** `clock` is `time()` and advances between any two steps. The
handler is `Serve` (the round notices the timer), `Take` (fetch the next triggered
event), `Execute` or `ExecuteImport`, `Reschedule` or `Release`, and `PumpEnd`,
which arms the timer. `NextTrigger` is the calculation of `next_trigger`, with
`mktime()` as arithmetic modulo a day in UTC. `Reload`, `ReloadEmpty`,
`ReloadRejected` are SIGHUP with a list that parses, with none, with one that does
not; `RescheduleFails` is the `exit()` at event.c:418-421.

**ConfigReload.** `mem` is the heap memory by address; `cfg` and `newcfg` hold
addresses, so that freed strings, double frees and reuse of memory happen as in C.
Every `free()` is a step of its own with what follows it up to the next. A double
free leads to `"undefined"`. The event string of a freed address is any string.

**Datalogger.** As in Daemon, `readfds` is the snapshot and `pc` the descriptor
tested next. A packet is its sender: what the model distinguishes about a ping is
whose packet was timed. Both raw sockets receive the same packets, so `packet`, the
first since they were opened, is one variable. `row` is what is inserted;
`returnvalue` the flags of the exit code.

**Startup.** An invocation names the parent, the daemon, and the file the daemon may
create. `pidfile` is the file at the name, `handle` the file a daemon has open,
`locker` and `content` belong to files. `Ends` is the end of a process, `Unlocks`
the way over `daemon_unexpected_exit()`. Before `MaskSignals` signals from outside
meet the parent's handler (`InheritedHandler`) or the default (`Killed`). `Stopped` is
SIGSTOP or SIGTSTP: it sends SIGCHLD as the end does, and what follows is a daemon that
takes no step for a while, as every daemon of the model may. `locked`, `refusal` and
`stopped` are history: what became of `pidfile_lock()`, and who was stopped.

**KeyVal.** A string is a sequence of characters; those that mean something are
characters of their own, all others are `Letters`. `kv` is the pointer list with the
strings its slots point to, `room` and `used` count the bytes behind it, so that a
buffer that is too small is seen as such. The places where a character is active
(`Active`) are computed from the flag every loop of keyval.c keeps (`f_escape`).
The passes are actions in the order of the code, and the loops that close gaps in a list
(`keyval_remove_empty_values`, `arrcollapse`) go slot by slot with the two indices of
the code. `ByTheRules` is the reference: the rules of keyval.c's comment, stated over
tokens (a character, escaped or not) without any buffer. Both pick places of a line by
their number: `Nth` is the k-th member of a set.

**Preparation.** `argv` is what the invocation was asked for, `pc` the place in `main()`
it has reached. `Invoke` begins one, `Interrupt` ends it at any step, `GiveUp` where
a call fails; nothing is undone by either. `uid` and `gid` have their real, effective
and saved part, and a system call takes effect only when the kernel would let it
(`Allowed`). A database is its owner, its tables and the kinds of rows in it, since
the performance test writes rows into the real one and takes them out by timestamp 0.
`StoreRow` and `StoreCreates` are the workers of a daemon that runs meanwhile.

## Runs

Passing runs; sizes are distinct states.

| Run | Checks | Size |
|---|---|---|
| `daemon_safety` | `TypeOK` `WorkerTracked` `WorkerWatched` `KillIsSafe` `ZombieAnnounced` `StaleOnlyAfterSignal` | 1 728 139 |
| `daemon_live` | `WorkerReaped` `SignalsObeyed` | 90 993 |
| `heap` | `TypeOK` `LoopInvariant` `RootIsEarliest` `SlotsInBounds` `ImplementsQueue` | 40 479 |
| `schedule` | `TypeOK` `ScheduleFollowsList` `DailyOnTime` `ExecutedInOrder` `ImportTimeoutsKept` `PumpEnds` | 598 803 |
| `config` | `TypeOK` `StartUpApplies` `ValuesOfAcceptedFile` | 33 603 |
| `datalogger` | `TypeOK` `AsleepOnlyAfterEvent` `RowAccounted` `KillIsSafe` `WorkerEnds` | 148 116 |
| `startup` | `TypeOK` `ReportAccurate` `PidFileNamesDaemon` `TwoNeedUnlink` `ParentAnswers` | 549 262 |
| `keyval` | `TypeOK` `InBounds` `MatchesRules` `ListSurvives` | 311 595 |
| `preparation` | `TypeOK` `RightIdentity` `CreatedComplete` `RowsKept` | 1 568 032 |

Each property is stated in words above its definition. What the runs show:

- **daemon_safety**: under any interleaving of ticks, timeouts, exits, due events and
  signals the uncollected child is the one in `worker.pid`, its timeout is pending
  until it is killed, SIGKILL hits no process that was collected, and a dead child
  is always announced. A handler sleeps in `read()` only after the SIGCHLD or SIGHUP
  of its own round (`StaleOnlyAfterSignal`), which bounds the damage that
  `daemon_hang` shows.
- **daemon_live**: behaviours in which the daemon never sleeps on a disarmed timer
  (`[](~Hung)`) collect every worker and obey every SIGTERM, SIGUSR1 and SIGUSR2.
- **heap**: the array is a heap except for the one place the running loop is at, no
  slot outside the allocation is used, and the operations are those of the queue.
- **schedule**: over days of late service and reloads the repeating events are those
  of the list accepted last, daily ones stay at their hour, execution follows
  trigger times unless leftovers of a rejected list were committed, the daemon's own timeouts survive SIGHUP, and the handler's loop ends.
- **config**: start-up ends with what command line, file and defaults ask for, and no
  value of a rejected file is ever in use.
- **datalogger**: the row is made only when scrubber and pings are over, it accounts
  for how the scrubber ended, no wrong process is killed, and the worker ends, or
  sleeps on a timer disarmed by an event of the same round.
- **startup**: the command line always answers. "Started" is true; "already running" is
  said only to one that never gets the lock, but also when `open()` or `lockf()` failed
  and no other copy is there; "died" is said also of a child that was only stopped
  (`ReportAccurate` states both exceptions, [Disagreements](#disagreements) lists them).
  The PID file names the daemon or one that is on its way out; two daemons need a removed
  PID file.
- **keyval**: from any short line the parser writes no byte outside the buffer it
  counted beforehand (for every line: `LineFits`), ends every list with a null pointer that it wrote, makes of the
  line what the rules ask for, and the second split gives back the values of the first,
  unless one of them needed an escape.
- **preparation**: whatever commands are combined and wherever an invocation ends, the
  database is made as the daemon's user and the rest is done as root, success means both
  tables, no measurement is lost that the user did not give up, and the daemon has nothing
  of root but CAP_NET_RAW, if the change of user went through.

Runs that end in a violation: see [Disagreements](#disagreements).

### Bounds

| Run | Bound | Why it is enough |
|---|---|---|
| daemon | 2 pids | one uncollected child at most (`WorkerTracked`, proved for any number); the second lets a pid differ and be reused |
| | 3 ticks (2 in `daemon_live`), 2 signals | a skipped tick between two workers; signals that coalesce and overtake; a SIGHUP inside a round with each timer |
| | intervals 10, 20; 3 schedules | a SIGHUP that changes the interval or not; a schedule with nothing, with repeating, with one-time and importing events |
| heap | 5 events, 3 moments | three levels, an only child, ties; the first allocation (2 slots) grows twice |
| schedule | days of 4 moments, 12 moments | three days: a daily event is rescheduled late, after midnight and on time |
| | 3 SIGHUPs (2 in `schedule_timer`), 5 lists, 8 events | the timer is armed, then rejected, accepted and empty lists in any order of two; with 8 objects no step ever lacks memory |
| | POWERUPDELAY 2, import timeout 1 | an event list with a generated POWERON that wraps around midnight |
| config | 5 buffers, 5 files, 2 command lines, 2 SIGHUPs | both configurations, what they leak, and one free block to be reused; every kind of file after every other |
| datalogger | none | the model is finite as it stands: TLC has visited all of it |
| startup | 2 invocations (3 for `OneInstance`) | a daemon and one that is started beside or after it; the safety properties are proved for any number |
| keyval | lines of up to 6 characters, one letter | every pair of the five characters with a meaning, escaped or not, in front of, between and behind values; two empty values in a row, at the front and at the end |
| preparation | 2 rows in a test, `-testdbwrite` -1, 0 or 1 | the loop goes round and ends; a number that is refused, one that is none, one that is served |
| | 2 mounts | one over the other; proved for any number |

Counters in guards exist for the bounds only: `MaxTicks`, `MaxSignals`, `MaxTime`,
`MaxReloads`. Pids, events of the heap, buffers and (in `OneInstance`) invocations are
symmetric; symmetry is used where no liveness property is checked. Deadlock checking
is off where the system stops: a daemon that ended or sleeps in `read()`, a worker
that ended, a line that was parsed, a clock or a counter at its bound. The heap has no such states.

## Fairness

- `Daemon` (`FairSpec`): the daemon's process is scheduled, armed timers expire, a
  process that was sent SIGKILL dies. Nothing is assumed of a worker that was not
  killed, nor of the senders of signals. A step that waits in `read()` is not enabled,
  so weak fairness does not wake it.
- `EventSchedule`: the handler, once entered, goes on; the clock may stand still or
  run through its whole range meanwhile.
- `Datalogger`: worker, timers and SIGKILL as above. Hosts need not answer and the
  scrubber need not end.
- `Startup`: the parent is scheduled, not stopped for good, and its alarm rings. The child
  may be stuck or stopped.

## Proofs

TLAPS checks the theorems below for every value of the constants: any sets of pids,
intervals, events, trigger times, files, buffers, invocations, rows in a test, mounts,
lines of any length. The assumptions are
the named `ASSUME`s of the modules: null values are distinct from real ones,
constants have their types, the first allocation has two slots or more and growth is
positive. Each argument is an inductive invariant.

**DaemonProofs.** `TypeCorrect`. `WorkerSafe` proves `WorkerInv`, the conjunction of
`WorkerTracked`, `WorkerWatched`, `ZombieAnnounced` and `StatsConsistent`, together:
none is inductive alone (`WorkerIsWatched` and `DeathIsAnnounced` name two of its parts;
`StatsConsistent`, that the counters of the log account for every worker, is proved only). That a tick forks only when nobody is uncollected needs
`worker.pid` to be the child; that SIGCHLD may clear it needs the zombie to be that
child; that a zombie is announced needs the timeout handler to leave the pid. Actions
that touch none of it are dealt with once (`Quiet`). `KillSafe` follows. `StaleSafe`
adds that until the signal is handled every descriptor in the snapshot is still
readable (`Fresh`), because timers only move towards expiry. `ScheduleLive` (a
schedule with triggered events has a live timer) needs nothing else and is proved only.

**EventHeapProofs.** `LoopInvariant` allows disorder at one place only, and
`Bridged` says that the children of that place are in order below its parent:
without it a swap could not be shown to repair one pair without breaking another
(`HeapIsOrdered`). `RootEarliest`: of the slots below the root in value take the first;
its parent, a slot before it, is no larger, so there is none (finite prefixes are
well-founded). `SlotsSafe` bounds the size by the capacity. `HeapImplementsQueue` is the refinement:
swaps keep the set of events, an insertion adds one, a fetch takes the root, which
`RootEarliest` knows to be an earliest event.

**EventScheduleProofs.** `NextDaily` is the arithmetic of a day: the moment of an hour after
midnight, or that moment a day later, is ahead by a day at most. `ParsedObjects` says
what the parser writes: its allocations and nothing else. `TypeCorrect` (one owner per
event) and `DailySafe` need `ScheduleInv`: the handler holds an object, tested events are
marked as parsed and at their hour before they are committed. `OrderSafe` needs
`OrderInv`: what is in the heap triggers no earlier than what was executed last, and what the
handler holds was the earliest. `ListSafe` keeps a one-to-one map between the repeating entries
of the list and the live events (`OneToOne`), from which counting follows; two
allocations are never the same memory, so each event is as its own entry says.
`ImportSafe` follows from the source an event is marked with.

**ConfigReloadProofs.** `AcceptedValues` follows a plain value through the copy: from
default over file to command line, and into `cfg` only behind the check
(`ValuesInv`). `StartUpSound` needs to know of every step of start-up which buffers
are allocated and distinct, so that nothing is freed twice (`StartUpInv`). It
cannot be extended beyond the first SIGHUP, whose `cfg_init()` frees the strings of `cfg`.

**StartupProofs.** `LockInv` and `ContentInv`: a daemon at work holds the lock of the
file it has open, only holders write, and an id in a file is that of a process that
once got there with the lock. `PidFileSound` and `OneUnlessUnlinked` follow.
`ReportSound` adds that a signal on its way to the parent stays worth what it was when it
was sent: the lock is won for good, or lost for good and for a reason (`HasReason`), and the
dead stay dead. That the holder who refused a daemon did get the lock is `LockerInv`.
`TypeCorrect` needs `LockInv`, for the file of one that tries the lock.

**PreparationProofs.** `IdentitySafe`: only `user_set_eugid()`, `user_restore_eugid()`,
the end of the invocation and the steps of `daemonize()` touch an id; all others are dealt with
once (`Quiet`). `IdentityInv` keeps the real and saved ids and the permitted
capabilities for the way back, and what becomes of them when the kernel refuses a
change. `RowsSafe`: every step but the removal and the deletion of test rows lets the
database grow or leaves it alone (`FileStep`), and the removal is behind a consent
(`Asked`). `CreateSafe` follows the file from `open` on: its owner and the tables made so far
stay, whatever the workers do to it (`MadeInv`). `TypeCorrect` includes that the loop of the
performance test is never entered with less than one row.

**KeyValProofs.** `LineFits`: the buffer is sized by counting delimiters once and filled
by looking for them again. `BoundsInv` says that the slots written and the ends of
values still to come (`Remaining`) never exceed the slots there are, and that the bytes
written never overtake the place of the line they came from; `OneEndLess` is the step
from one value to the next. Behind it stands the null pointer at `f_delim - 1`, which no
later loop moves. The flag of escapes may be whatever it is: the argument holds for any
reading of the line, as long as both passes read it alike.

`Parsed` compares two ways of reading a line: the code finds places in it, trims and
copies, and unescapes what it copied; the rules read tokens and never see an escape.
What joins them is the set of characters that are kept (`Kept`): the k-th of them is the
k-th token (`TokensAre`, for which the recursion of `Tokens` is unrolled from the end of
the line), and `Rank` and `Nth`, which count the members of a set of places, carry every
place over. A part of a line between two places with a meaning keeps what the whole line
keeps there (`KeptBehind`), so trimming before unescaping gives what trimming tokens gives
unless the last blank was escaped (`SegmentRules`, `FieldRules`); the delimiters behind the
equal sign are the same ones in both readings (`RulesAre`). `ParserInv` then says of each
stage how many fields are in the list; it holds for lines that end in an escape only up to
the bounds, since there the code departs from the rules. `TypeCorrect` needs both: that a
slot in front of `f_delim` was written, and that the null pointer is among them.

`ValuesSurvive` follows the values from there. `Removing` is the loop invariant of
`keyval_remove_empty_values()`: in front of `writeidx` what is wanted so far, null pointers
up to `valueidx`, behind it the values as they were parsed; the rank of `valueidx` among the
wanted ones is `writeidx`. `JoinedIs` unrolls the recursion of `__2str()`, `TextHolds` says
where each string stands in the result, and `CutUp` that the places between them are exactly
the cuts of `str2arr()`, as no plain value holds a `,`. `arrcollapse()` then moves nothing.

These are inductions over numbers, inside a proof: `Induction` is a lemma about sets of
numbers that follows from the well-foundedness of inclusion on finite sets, which the library
states without an operator parameter.

**DataloggerProofs.** `RecordInv` ties the outcome of the scrubber to how it ended and to what
was parsed, and the row to both (`RowSafe`). `ScrubberInv`: the pid is kept exactly while there
is a scrubber to collect, and its timer runs only for one, which is what `KillSafe` needs.
`SnapshotInv` says what a descriptor in the snapshot is worth while the handlers before
it run: a timer in it has expired and is disarmed only by the handler of the event it
waited for, in the same round, before its own turn. `AsleepSafe` reads that off at the
moment a handler reads a timer that is no longer readable. The module has no
parameters: the theorems add an argument to TLC's exhaustive search, not generality.

Only model-checked: the liveness properties (`WorkerReaped`, `SignalsObeyed`,
`PumpEnds`, `WorkerEnds`, `ParentAnswers`), which rest on fairness and so on ENABLED, out of
the prover's reach. Every invariant and the refinement that a passing run checks are proved.

## Disagreements

Met while modelling, each with a run that ends in a violation:

| Run | What |
|---|---|
| `daemon_hang` | SIGCHLD and the worker's timeout in one snapshot: `handle_SIGCHLD()` disarms the timer, the stale test at daemon.c:1179 then reads it for ever. README:213-214 promises reliable ticks. |
| `schedule_timer` | `daemon_initialize()` creates the schedule timer (daemon.c:533) before it commits the schedule (621): configured events get no timer at start-up. |
| `startup_instances` | A worker that leaves by `exit()` in icmpecho.c removes its daemon's PID file, and a second daemon can start. |

In the models, without a run of their own:

- `cfg_init()` frees the strings of `cfg` through the shallow copy (config.c:278), so that a
  rejected SIGHUP leaves dangling pointers.
- The reply of the modem is taken for that of the Internet host, or the other way round:
  both sockets are raw and nobody looks at the sender (icmpecho.c:172, datalogger.c:611).
- An interval event served more than an interval late ends the daemon (event.c:418-421).
- An accepted SIGHUP sets `execute.tmpfs` back to AUTO, which nobody resolves again
  (config.c:271), so that workers have no database file; `cfg_check()` parses the old
  event string (config.c:1360), so that a new one takes effect one SIGHUP late.
- The success of `event_create()` is taken for a failure (main.c:419): no daemon runs
  with tmpfs.
- A scrubber line with the wrong number of values is freed twice (datalogger.c:677, 708).
- The scrubber's exit flags are not exclusive in the way datalogger.h:39 counts them;
  a ping that timed out is stored as 0 and not flagged.
- `pidfile_unlock()` releases the lock before it unlinks the name (pidfile.c:127-128),
  so that the file removed may be that of the next daemon.
- "Another copy of the daemon process already running!" is also the answer when `open()` of
  the PID file merely failed (pidfile.c:79-83, main.c:289-295), or `lockf()` for want of
  memory, though main.c:56, 142 and 294 say that SIGUSR2 means another process was found;
  and "daemon process died" (main.c:63-66) when the child was only stopped, as main.c:140
  does not set SA_NOCLDSTOP. Such a child may go on and become the daemon. Without these
  exceptions TLC violates `ReportAccurate` in five and three steps.
- The scrubber's timeout in milliseconds is stored as nanoseconds (datalogger.c:131): one
  of less than a second expires at once.
- After the report of success, and for a second, SIGUSR1 and SIGUSR2 end the daemon
  (main.c:141-142, 316).
- When the parent's two seconds are over the daemon goes on, though main.c:143 says
  "terminate it".
- `file_useraccess()` does not become the user when it runs as root (util.c:445), so
  that every check before the fork tells what root may do.
- `-writeconfig` writes the value of "ramdisk" under the key "daemon" (config.c:1426); with
  AUTO the next start refuses the file. A configuration file that is named and does not
  exist is refused before `-writeconfig` could make it (config.c:422).
- A rejected SIGHUP leaves the good part of its list in the test schedule
  (event.c:682), and a SIGHUP without events commits it. Its trigger times are those of
  the rejected SIGHUP, so that an overdue RESUME may run after a later SUSPEND
  (`ExecutedInOrder` excepts this; without the exception three SIGHUPs violate it).
- `ismountpoint() < 0` is what `rc` gets (tmpfs.c:125): a mount is never found and each
  invocation mounts over the last.
- The result of `user_changeto()` is not looked at (main.c:118): without the user
  DAEMON_RUN_AS_USER the daemon stays root, with CAP_NET_RAW only.
- `-testdbwrite` of a missing database leaves an empty file of root's, a failed insertion
  leaves the rows of the test (database.c:54-69), and `-testdbwrite=0`, or a value that is
  no number, starts the daemon.
- A blank is trimmed at the end of a value though it was escaped, an escape at the end
  of a line loses the last value, `keyval2array()` gives the last value twice
  (keyval.c:475), and `keyval2valstr()` does not escape what the second split
  interprets (`ListSurvives` says which values that leaves).

## Not modelled

- the import timer (`collecttmpfs`), which no code arms, and the handler of SIGSEGV
- daylight saving and time zones (`mktime()` with a changing offset)
- the characters of event strings and of printed output
- SQLite itself: a statement has its effect, or fails
- power control and `tmpfs_umount()` (stubs), logging, `prostat.c` (formatting of /proc),
  the characters typed at a prompt
- databases at other places than the one configured, and two invocations with commands
  at once
- failures of `pselect()`, `signalfd()`, `sigprocmask()`, after which the code exits
- a scrubber that is stopped and continued from outside

## Plan

Done: heap, schedule, main loop, configuration, worker, start-up with PID file,
special commands with database and identity, key-value parser, and the proofs above.
Worth doing next, in this order:

1. A composition of `Daemon` and `Datalogger`, in which the worker of the loop is the
   worker of the other module, to show that a worker asleep on a stale timer is always
   killed and collected.
2. The tmpfs import: `database.c` moves rows between two files; with the timer that is
   never armed it is worth a model only of what the handlers would do.
