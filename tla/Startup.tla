------------------------------- MODULE Startup -------------------------------
(***************************************************************************)
(* Several invocations of the program on one host: the parent that waits   *)
(* for its daemon's report (main.c), the PID file that is to keep a second *)
(* daemon away (pidfile.c), the exits of the daemon (daemon.c) and of its  *)
(* workers, which inherit the atexit() handler (icmpecho.c).               *)
(*                                                                         *)
(* The daemon of an invocation is named after it, and so is the file it    *)
(* creates: DAEMON_PIDFILE is a name that leads to one file, or to none,   *)
(* while processes may have others open.  lockf() locks belong to a        *)
(* process and end with it or with its close().                            *)
(***************************************************************************)
CONSTANTS
  Invocations,  \* of the program
  None,         \* no file, no process
  Failed        \* a system call that failed

ASSUME StartupAssumption ==
  None \notin Invocations /\ Failed \notin Invocations /\ None # Failed

VARIABLES
  as_daemon,  \* cfg.execute.as_daemon
  parent,     \* the process that waits in pause(), and what it reported
  pending,    \* signals on their way to the parent
  pc,         \* the daemon: the child, or the process itself
  pidfile,    \* the file at DAEMON_PIDFILE
  handle,     \* pidfile.handle: the file the daemon has open
  locker,     \* of every file: the process that holds its lock
  content,    \* of every file: the process whose id it holds
  worker,     \* invocations whose daemon has a worker
  locked,     \* daemons that got the lock (history)
  refusal,    \* why pidfile_lock() failed: who held the lock, or Failed (history)
  stopped     \* daemons that were stopped while the parent waited (history)

history == <<locked, refusal, stopped>>
vars == <<as_daemon, parent, pending, pc, pidfile, handle, locker, content,
          worker, history>>
files == <<pidfile, handle, locker, content>>

Waiting == {"forked", "paused"}
Reports == {"success", "running", "timeout", "died"}
\* Of the daemon, from fork() to the mask of daemon_main().
Unmasked == {"setup", "open", "lock", "write", "report", "sleep", "enter",
             "refused", "exit"}
Holding == {"write", "report", "sleep", "enter", "main"}

Init ==
  /\ as_daemon = [d \in Invocations |-> TRUE]
  /\ parent = [d \in Invocations |-> "none"]
  /\ pending = [d \in Invocations |-> {}]
  /\ pc = [d \in Invocations |-> "off"]
  /\ pidfile = None
  /\ handle = [d \in Invocations |-> None]
  /\ locker = [f \in Invocations |-> None]
  /\ content = [f \in Invocations |-> None]
  /\ worker = {}
  /\ locked = {} /\ stopped = {}
  /\ refusal = [d \in Invocations |-> None]

Step(d, from, to) == pc[d] = from /\ pc' = [pc EXCEPT ![d] = to]

(***************************************************************************)
(* The parent.  kill(getppid()) reaches it as long as it exists, and then  *)
(* init, which the daemon's user may not signal.  Every handler exits, so  *)
(* the first signal delivered, the lowest number, decides.                 *)
(***************************************************************************)
Signal(d, s) ==
  pending' = IF parent[d] \in Waiting
             THEN [pending EXCEPT ![d] = @ \cup {s}] ELSE pending

\* daemonize() with fork(); the handlers are set before, so nothing is lost.
Invoke(d) ==
  /\ Step(d, "off", "setup")
  /\ \E b \in BOOLEAN :
       /\ as_daemon' = [as_daemon EXCEPT ![d] = b]
       /\ parent' = [parent EXCEPT ![d] = IF b THEN "forked" ELSE "none"]
  /\ UNCHANGED <<pending, files, worker, history>>
ForkFails(d) ==
  /\ Step(d, "off", "ended")
  /\ UNCHANGED <<as_daemon, parent, pending, files, worker, history>>

Pause(d) ==
  /\ parent[d] = "forked"
  /\ parent' = [parent EXCEPT ![d] = "paused"]
  /\ UNCHANGED <<as_daemon, pending, pc, files, worker, history>>
\* Faulty variant: alarm() is forgotten.
NoAlarm(d) == FALSE

\* The two seconds of alarm(2) are over.
AlarmExpires(d) ==
  /\ parent[d] = "paused"
  /\ "ALRM" \notin pending[d]
  /\ Signal(d, "ALRM")
  /\ UNCHANGED <<as_daemon, parent, pc, files, worker, history>>
Told(signals) ==
  CASE "USR1" \in signals                                 -> "success"
    [] "USR1" \notin signals /\ "USR2" \in signals         -> "running"
    [] signals \cap {"USR1", "USR2"} = {} /\ "ALRM" \in signals -> "timeout"
    [] signals \cap {"USR1", "USR2", "ALRM"} = {}          -> "died"
daemonchild_handler(d) ==
  /\ parent[d] \in Waiting
  /\ pending[d] # {}
  /\ parent' = [parent EXCEPT ![d] = Told(pending[d])]
  /\ pending' = [pending EXCEPT ![d] = {}]
  /\ UNCHANGED <<as_daemon, pc, files, worker, history>>

(***************************************************************************)
(* The daemon's end: the kernel closes its file, releases its lock and     *)
(* tells the parent.  exit() runs daemon_unexpected_exit() before, once    *)
(* daemon_main() has registered it.                                        *)
(***************************************************************************)
Close(d) ==
  /\ handle' = [handle EXCEPT ![d] = None]
  /\ locker' = [f \in Invocations |-> IF locker[f] = d THEN None ELSE locker[f]]
Ends(d) ==
  /\ pc' = [pc EXCEPT ![d] = "ended"]
  /\ Close(d)
  /\ Signal(d, "CHLD")
  /\ UNCHANGED <<as_daemon, parent, pidfile, content, worker, history>>
Unlocks(d) ==
  /\ pc' = [pc EXCEPT ![d] = "close"]
  /\ UNCHANGED <<as_daemon, parent, pending, files, worker, history>>

\* Faulty variant: the success is reported before the PID file is locked.
SetupReports(d) ==
  /\ Step(d, "setup", "open")
  /\ Signal(d, "USR1")
  /\ UNCHANGED <<as_daemon, parent, files, worker, history>>

\* setsid(), chdir() or the resource limit fails; the refused daemon exits.
Setup(d) ==
  /\ Step(d, "setup", "open")
  /\ UNCHANGED <<as_daemon, parent, pending, files, worker, history>>
Exit(d) == pc[d] \in {"setup", "exit"} /\ Ends(d)

(***************************************************************************)
(* pidfile_lock().                                                         *)
(***************************************************************************)
\* Faulty variant: the id is written before the lock is tried.
OpenWrites(d) ==
  /\ Step(d, "open", "lock")
  /\ pidfile' = IF pidfile = None THEN d ELSE pidfile
  /\ handle' = [handle EXCEPT ![d] = pidfile']
  /\ content' = [content EXCEPT ![pidfile'] = d]
  /\ UNCHANGED <<as_daemon, parent, pending, locker, worker, history>>

Open(d) ==
  /\ Step(d, "open", "lock")
  /\ pidfile' = IF pidfile = None THEN d ELSE pidfile
  /\ handle' = [handle EXCEPT ![d] = pidfile']
  /\ UNCHANGED <<as_daemon, parent, pending, locker, content, worker, history>>
\* Faulty variant: the value open() fails with is kept.
OpenUnchecked(d) ==
  /\ Step(d, "open", "refused")
  /\ handle' = [handle EXCEPT ![d] = "-1"]
  /\ refusal' = [refusal EXCEPT ![d] = Failed]
  /\ UNCHANGED <<as_daemon, parent, pending, pidfile, locker, content, worker,
                 locked, stopped>>

OpenFails(d) ==
  /\ Step(d, "open", "refused")
  /\ refusal' = [refusal EXCEPT ![d] = Failed]
  /\ UNCHANGED <<as_daemon, parent, pending, files, worker, locked, stopped>>
\* Faulty variant: the result of lockf() is ignored.
LockUnchecked(d) ==
  /\ Step(d, "lock", "write")
  /\ locker' = [locker EXCEPT ![handle[d]] = d]
  /\ locked' = locked \cup {d}
  /\ UNCHANGED <<as_daemon, parent, pending, pidfile, handle, content, worker,
                 refusal, stopped>>

Lock(d) ==
  /\ Step(d, "lock", "write")
  /\ locker[handle[d]] = None
  /\ locker' = [locker EXCEPT ![handle[d]] = d]
  /\ locked' = locked \cup {d}
  /\ UNCHANGED <<as_daemon, parent, pending, pidfile, handle, content, worker,
                 refusal, stopped>>
\* Another process has the lock, or lockf() fails for want of memory.
LockFails(d) ==
  /\ Step(d, "lock", "refused")
  /\ refusal' = [refusal EXCEPT ![d] =
                   IF locker[handle[d]] = None THEN Failed ELSE locker[handle[d]]]
  /\ UNCHANGED <<as_daemon, parent, pending, files, worker, locked, stopped>>
\* At the start of the file: a longer id of before leaves its last digits on a
\* second line.
Write(d) ==
  /\ Step(d, "write", "report")
  /\ content' = [content EXCEPT ![handle[d]] = d]
  /\ UNCHANGED <<as_daemon, parent, pending, pidfile, handle, locker, worker,
                 history>>
\* ... which is only logged.
WriteFails(d) ==
  /\ Step(d, "write", "report")
  /\ UNCHANGED <<as_daemon, parent, pending, files, worker, history>>

\* "Using SIGUSR2 to signal another process already running", whatever failed.
Refuse(d) ==
  /\ Step(d, "refused", "exit")
  /\ IF as_daemon[d] THEN Signal(d, "USR2") ELSE UNCHANGED pending
  /\ UNCHANGED <<as_daemon, parent, files, worker, history>>
Report(d) ==
  /\ Step(d, "report", IF as_daemon[d] THEN "sleep" ELSE "enter")
  /\ IF as_daemon[d] THEN Signal(d, "USR1") ELSE UNCHANGED pending
  /\ UNCHANGED <<as_daemon, parent, files, worker, history>>
Sleep(d) ==
  /\ Step(d, "sleep", "enter")
  /\ UNCHANGED <<as_daemon, parent, pending, files, worker, history>>

(***************************************************************************)
(* daemon_main(): atexit(), the signal mask, the loop and pidfile_unlock() *)
(* at its end, which is also what exit() and handle_SIGSEGV() do.          *)
(***************************************************************************)
MaskSignals(d) ==
  /\ Step(d, "enter", "main")
  /\ UNCHANGED <<as_daemon, parent, pending, files, worker, history>>
Leave(d) == pc[d] \in {"enter", "main"} /\ Unlocks(d)
CloseFile(d) ==
  /\ Step(d, "close", "unlink")
  /\ Close(d)
  /\ UNCHANGED <<as_daemon, parent, pending, pidfile, content, worker, history>>
Unlink(d) ==
  /\ pc[d] = "unlink"
  /\ pidfile' = None
  /\ pc' = [pc EXCEPT ![d] = "ended"]
  /\ Signal(d, "CHLD")
  /\ UNCHANGED <<as_daemon, parent, handle, locker, content, worker, history>>

(***************************************************************************)
(* Signals from outside.  Until it masks them the daemon has the parent's  *)
(* handler for SIGUSR1 and SIGUSR2 and the default for the others.         *)
(***************************************************************************)
InheritedHandler(d) ==
  /\ as_daemon[d]
  /\ pc[d] \in Unmasked
  /\ IF pc[d] = "enter" THEN Unlocks(d) ELSE Ends(d)
\* SIGKILL or a crash at any time; SIGHUP, SIGTERM in time.
Killed(d) ==
  /\ pc[d] \notin {"off", "ended"}
  /\ Ends(d)

\* SIGSTOP, or SIGTSTP in time: without SA_NOCLDSTOP the parent hears of it.  That a
\* stopped daemon takes no step needs no guard: none has to, ever.
Stopped(d) ==
  /\ parent[d] \in Waiting
  /\ pc[d] \notin {"off", "ended"}
  /\ Signal(d, "CHLD")
  /\ stopped' = stopped \cup {d}
  /\ UNCHANGED <<as_daemon, parent, pc, files, worker, locked, refusal>>

(***************************************************************************)
(* Workers.  One ends by _exit() or a signal, or by exit() in icmpecho.c   *)
(* with the inherited handler: its close() releases no lock, as it has     *)
(* none, but its unlink() removes the file.                                *)
(***************************************************************************)
ForkWorker(d) ==
  /\ pc[d] = "main"
  /\ d \notin worker
  /\ worker' = worker \cup {d}
  /\ UNCHANGED <<as_daemon, parent, pending, pc, files, history>>
WorkerEnds(d) ==
  /\ d \in worker
  /\ worker' = worker \ {d}
  /\ UNCHANGED <<as_daemon, parent, pending, pc, files, history>>
WorkerExits(d) ==
  /\ d \in worker
  /\ worker' = worker \ {d}
  /\ pidfile' = None
  /\ UNCHANGED <<as_daemon, parent, pending, pc, handle, locker, content, history>>

Parent(d) == Pause(d) \/ AlarmExpires(d) \/ daemonchild_handler(d)
Daemon(d) ==
  \/ Setup(d) \/ Exit(d) \/ Open(d) \/ OpenFails(d) \/ Lock(d) \/ LockFails(d)
  \/ Write(d) \/ WriteFails(d) \/ Refuse(d) \/ Report(d) \/ Sleep(d)
  \/ MaskSignals(d) \/ Leave(d) \/ CloseFile(d) \/ Unlink(d)
  \/ ForkWorker(d)
Next ==
  \E d \in Invocations :
    \/ Invoke(d) \/ ForkFails(d)
    \/ Parent(d)
    \/ Daemon(d)
    \/ InheritedHandler(d) \/ Killed(d) \/ Stopped(d)
    \/ WorkerEnds(d) \/ WorkerExits(d)

Spec == Init /\ [][Next]_vars
\* The parent is scheduled and its alarm rings; a daemon may be slow or stuck.
FairSpec == Spec /\ \A d \in Invocations : WF_vars(Parent(d))

-----------------------------------------------------------------------------
\* Every variable keeps its range.
TypeOK ==
  /\ as_daemon \in [Invocations -> BOOLEAN]
  /\ parent \in [Invocations -> Waiting \cup Reports \cup {"none"}]
  /\ pending \in [Invocations -> SUBSET {"USR1", "USR2", "ALRM", "CHLD"}]
  /\ pc \in [Invocations -> Unmasked \cup {"off", "main", "close", "unlink", "ended"}]
  /\ pidfile \in Invocations \cup {None}
  /\ handle \in [Invocations -> Invocations \cup {None}]
  /\ locker \in [Invocations -> Invocations \cup {None}]
  /\ content \in [Invocations -> Invocations \cup {None}]
  /\ worker \subseteq Invocations
  /\ locked \subseteq Invocations /\ stopped \subseteq Invocations
  /\ refusal \in [Invocations -> Invocations \cup {None, Failed}]

\* What the reports of the parent are worth, however late it is scheduled
\* (main.c:48-72).  "Started successfully": the daemon got the lock, by itself.
\* "Another copy already running": it never did and never will, because another
\* daemon that did get the lock held it, or because open() or lockf() failed, when
\* no other copy need be there.  "Died": it ended, or was stopped and may go on.
ReportAccurate ==
  \A d \in Invocations :
    /\ parent[d] = "success" => d \in locked
    /\ parent[d] = "running" => /\ d \notin locked /\ pc[d] \in {"exit", "ended"}
                               /\ refusal[d] \in (locked \ {d}) \cup {Failed}
    /\ parent[d] = "died" => pc[d] = "ended" \/ d \in stopped

\* The id in a locked PID file is that of the daemon that holds it, or of one
\* that is on its way out: a command for the daemon never reaches another that is
\* at work, nor one that is being refused (pidfile.c:91-104).
PidFileNamesDaemon ==
  \A f \in Invocations : locker[f] # None /\ content[f] # None =>
    content[f] = locker[f] \/ pc[content[f]] \in {"close", "unlink", "ended"}

\* Two daemons are at work only if a PID file was removed under one of them:
\* neither crashes, nor refused starts, nor workers that end release its lock.
TwoNeedUnlink ==
  \A d, e \in Invocations :
    pc[d] = "main" /\ pc[e] = "main" /\ d # e => handle[d] # pidfile \/ handle[e] # pidfile

\* The command line comes back with one of its four reports (main.c:155-163), also
\* when the daemon hangs on its way.
ParentAnswers ==
  \A d \in Invocations : parent[d] \in Waiting ~> parent[d] \in Reports

\* pidfile.c:13-14 "this program DOES NOT ALLOW multiple instances at all".
OneInstance == \A d, e \in Invocations : pc[d] = "main" /\ pc[e] = "main" => d = e

=============================================================================
