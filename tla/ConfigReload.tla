----------------------------- MODULE ConfigReload -----------------------------
(***************************************************************************)
(* How the configuration is read and replaced: config.c (cfg_init, cfg_dup,*)
(* cfg_read_file, cfg_read_argv, cfg_check, cfg_commit, cfg_free), the     *)
(* start of the program in main.c that uses them on the global cfg, and    *)
(* handle_SIGHUP() in daemon.c that uses them on a shallow copy.           *)
(*                                                                         *)
(* Two of config_t's members are pointers to buffers on the heap           *)
(* (inet.pinghosts, event.liststring); execute.tmpfs stands for the        *)
(* members that are plain values.  database.tmpfsfilename is NULL in every *)
(* configuration that gets past start-up.                                  *)
(*                                                                         *)
(* The allocator may return any memory that is free, what was freed just   *)
(* now included.  Reading freed memory finds some string or other; freeing *)
(* it again has no defined outcome, and the model stops there.             *)
(***************************************************************************)
EXTENDS FiniteSets, Naturals

CONSTANTS
  Buffers,      \* addresses malloc() may return (a bound)
  Null,         \* the null pointer
  Freed,        \* what memory holds that is not allocated
  Hosts,        \* host strings
  DefaultHosts, \* CFG_DEFAULT_INET_PINGHOSTS
  Lists,        \* event strings that parse
  BadStrings,   \* strings that do not parse as an event list
  Files,        \* contents of the configuration file
  Argvs,        \* command lines main() accepts
  MaxReloads    \* bound on SIGHUPs

Strings == Hosts \cup {DefaultHosts} \cup Lists \cup BadStrings
Tmpfs == {"TRUE", "FALSE", "AUTO"}

\* "unset": the key does not occur; Null: it has no value.
File == [pinghosts: Hosts \cup {Null, "unset"},
         schedule: Lists \cup BadStrings \cup {Null, "unset"},
         ramdisk: Tmpfs \cup {"unset"},
         errors: BOOLEAN]
Argv == [hosts: Hosts \cup {"unset"}, ramdisk: Tmpfs \cup {"unset"}]

ASSUME ConfigAssumption ==
  /\ Null \notin Buffers /\ Null # Freed
  /\ Freed \notin Strings /\ Null \notin Strings
  /\ "unset" \notin Strings
  /\ Lists \cap (Hosts \cup {DefaultHosts} \cup BadStrings) = {}
  /\ Files \subseteq File /\ Argvs \subseteq Argv
  /\ MaxReloads \in Nat

VARIABLES
  file,       \* the configuration file
  argv,       \* cmdline
  mem,        \* what the buffers hold
  cfg,        \* the configuration in use
  newcfg,     \* the copy being built
  reloading,  \* FALSE: called by main(), TRUE: by handle_SIGHUP()
  pc,
  g_parsed,   \* the test schedule (the list it was made of)
  schedule,   \* the schedule in use (the list it was made of)
  read,       \* the file read last (history)
  accepted,   \* the file of the configuration in use (history)
  n_reloads   \* bounding only

env == <<file, argv>>
sched == <<g_parsed, schedule>>
history == <<read, accepted, n_reloads>>
vars == <<env, mem, cfg, newcfg, reloading, pc, sched, history>>

Config == [tmpfs: Tmpfs, pinghosts: Buffers \cup {Null},
           liststring: Buffers \cup {Null}]

Unused == {b \in Buffers : mem[b] = Freed}
Live(b) == b \in (Buffers \ Unused) \cup {Null}
\* free(b); free(NULL) does nothing
FreedOf(b) == IF b = Null THEN mem ELSE [mem EXCEPT ![b] = Freed]

-----------------------------------------------------------------------------
(***************************************************************************)
(* What the command line, the file accepted last and the defaults ask for. *)
(***************************************************************************)
WantedTmpfs ==
  IF argv.ramdisk # "unset" THEN argv.ramdisk
  ELSE IF accepted.ramdisk = "unset" THEN "AUTO"
  ELSE accepted.ramdisk
WantedHosts ==
  IF argv.hosts # "unset" THEN argv.hosts
  ELSE IF accepted.pinghosts = "unset" THEN DefaultHosts
  ELSE accepted.pinghosts
WantedSchedule == IF accepted.schedule = "unset" THEN Null ELSE accepted.schedule

Content(b) == IF b = Null THEN Null ELSE mem[b]

-----------------------------------------------------------------------------
(***************************************************************************)
(* main(): cfg_init(&cfg) with null pointers, then the copy.               *)
(***************************************************************************)
Init ==
  /\ file \in Files
  /\ argv \in Argvs
  /\ \E b \in Buffers :
       /\ mem = [a \in Buffers |-> IF a = b THEN DefaultHosts ELSE Freed]
       /\ cfg = [tmpfs |-> "AUTO", pinghosts |-> b, liststring |-> Null]
  /\ newcfg = cfg
  /\ reloading = FALSE
  /\ pc = "read"
  /\ g_parsed = Null /\ schedule = Null
  /\ read = file /\ accepted = file
  /\ n_reloads = 0

\* The administrator edits the file.
EditFile ==
  /\ pc = "idle"
  /\ n_reloads < MaxReloads
  /\ file' \in Files \ {file}
  /\ UNCHANGED <<argv, mem, cfg, newcfg, reloading, pc, sched, history>>

\* handle_SIGHUP(): cfg_dup(&cfg)
Hangup ==
  /\ pc = "idle"
  /\ n_reloads < MaxReloads
  /\ newcfg' = cfg
  /\ reloading' = TRUE
  /\ pc' = "init_hosts"
  /\ n_reloads' = n_reloads + 1
  /\ UNCHANGED <<env, mem, cfg, sched, read, accepted>>

\* cfg_init(newcfg): the plain values and inet.pinghosts
InitHosts ==
  /\ pc = "init_hosts"
  /\ Live(newcfg.pinghosts)
  /\ \E b \in Unused \cup ({newcfg.pinghosts} \ {Null}) :
       /\ mem' = [FreedOf(newcfg.pinghosts) EXCEPT ![b] = DefaultHosts]
       /\ newcfg' = [newcfg EXCEPT !.tmpfs = "AUTO", !.pinghosts = b]
  /\ pc' = "init_list"
  /\ UNCHANGED <<env, cfg, reloading, sched, history>>

\* cfg_init(newcfg): event.liststring
InitList ==
  /\ pc = "init_list"
  /\ Live(newcfg.liststring)
  /\ mem' = FreedOf(newcfg.liststring)
  /\ newcfg' = [newcfg EXCEPT !.liststring = Null]
  /\ pc' = "read"
  /\ UNCHANGED <<env, cfg, reloading, sched, history>>

\* A fresh buffer for string s, the null pointer for no value, or the pointer
\* as it is for a key that does not occur.
Stored(s, old, b) == IF s = "unset" THEN old ELSE IF s = Null THEN Null ELSE b
\* Faulty variant: memory for a value that is not there.
NeededAlways(s) == Unused
Needed(s) == IF s \in {"unset", Null} THEN {Null} ELSE Unused

(***************************************************************************)
(* cfg_read_file(): the values are stored as their lines are read; one line*)
(* with an error fails the whole file at its end.                          *)
(***************************************************************************)
ReadFile ==
  /\ pc = "read"
  /\ \E h \in Needed(file.pinghosts), l \in Needed(file.schedule) :
       /\ h = l => h = Null
       /\ mem' = [b \in Buffers |-> CASE b = h -> file.pinghosts
                                      [] b = l -> file.schedule
                                      [] OTHER -> mem[b]]
       /\ newcfg' = [tmpfs |-> IF file.ramdisk = "unset" THEN newcfg.tmpfs
                               ELSE file.ramdisk,
                     pinghosts |-> Stored(file.pinghosts, newcfg.pinghosts, h),
                     liststring |-> Stored(file.schedule, newcfg.liststring, l)]
  /\ pc' = CASE ~file.errors             -> "argv"
             [] file.errors /\ reloading -> "free_list"
             [] OTHER                    -> "exited"
  /\ read' = file
  /\ UNCHANGED <<env, cfg, reloading, sched, accepted, n_reloads>>

\* Faulty variant: the file has the last word.
ReadArgvSkipped ==
  /\ pc = "argv"
  /\ mem' = mem /\ newcfg' = newcfg
  /\ pc' = IF reloading THEN "check" ELSE "commit_hosts"
  /\ UNCHANGED <<env, cfg, reloading, sched, history>>
\* cfg_read_argv(): what the command line sets has priority.
ReadArgv ==
  /\ pc = "argv"
  /\ \E h \in Needed(argv.hosts) :
       /\ mem' = [b \in Buffers |-> IF b = h THEN argv.hosts ELSE mem[b]]
       /\ newcfg' = [newcfg EXCEPT
            !.tmpfs = IF argv.ramdisk = "unset" THEN @ ELSE argv.ramdisk,
            !.pinghosts = Stored(argv.hosts, newcfg.pinghosts, h)]
  /\ pc' = IF reloading THEN "check" ELSE "commit_hosts"
  /\ UNCHANGED <<env, cfg, reloading, sched, history>>

-----------------------------------------------------------------------------
\* cfg_commit(): free() the buffers of cfg that newcfg does not point to ...
CommitHosts ==
  /\ pc = "commit_hosts"
  /\ IF cfg.pinghosts # newcfg.pinghosts
     THEN Live(cfg.pinghosts) /\ mem' = FreedOf(cfg.pinghosts)
     ELSE mem' = mem
  /\ pc' = "commit_list"
  /\ UNCHANGED <<env, cfg, newcfg, reloading, sched, history>>
\* Faulty variant: copies the struct but leaves the default hosts in place.
CommitListKeepsHosts ==
  /\ pc = "commit_list"
  /\ IF cfg.liststring # newcfg.liststring
     THEN Live(cfg.liststring) /\ mem' = FreedOf(cfg.liststring)
     ELSE mem' = mem
  /\ cfg' = [newcfg EXCEPT !.pinghosts = cfg.pinghosts]
  /\ accepted' = read
  /\ pc' = "free_list"
  /\ UNCHANGED <<env, newcfg, reloading, sched, read, n_reloads>>
\* ... and copy.
CommitList ==
  /\ pc = "commit_list"
  /\ IF cfg.liststring # newcfg.liststring
     THEN Live(cfg.liststring) /\ mem' = FreedOf(cfg.liststring)
     ELSE mem' = mem
  /\ cfg' = newcfg
  /\ accepted' = read
  /\ pc' = "free_list"
  /\ UNCHANGED <<env, newcfg, reloading, sched, read, n_reloads>>

\* cfg_free(newcfg): free() the buffers cfg does not point to.
FreeList ==
  /\ pc = "free_list"
  /\ IF cfg.liststring # newcfg.liststring
     THEN Live(newcfg.liststring) /\ mem' = FreedOf(newcfg.liststring)
     ELSE mem' = mem
  /\ pc' = "free_hosts"
  /\ UNCHANGED <<env, cfg, newcfg, reloading, sched, history>>
\* After a commit main() checks cfg and SIGHUP applies it.
FreeHosts ==
  /\ pc = "free_hosts"
  /\ IF cfg.pinghosts # newcfg.pinghosts
     THEN Live(newcfg.pinghosts) /\ mem' = FreedOf(newcfg.pinghosts)
     ELSE mem' = mem
  /\ pc' = CASE ~reloading                  -> "check"
             [] reloading /\ ~read.errors   -> "apply"
             [] reloading /\ read.errors    -> "idle"
  /\ UNCHANGED <<env, cfg, newcfg, reloading, sched, history>>

(***************************************************************************)
(* cfg_check(): whatever configuration it is given, it parses the event    *)
(* string of cfg.  Rejected by SIGHUP, newcfg is not released.             *)
(***************************************************************************)
EventString ==
  IF Live(cfg.liststring) THEN {Content(cfg.liststring)} ELSE Strings
\* access to the files fails
CheckFails ==
  /\ pc = "check"
  /\ pc' = IF reloading THEN "idle" ELSE "exited"
  /\ UNCHANGED <<env, mem, cfg, newcfg, reloading, sched, history>>
CheckEvents ==
  /\ pc = "check"
  /\ \E s \in EventString :
       /\ g_parsed' = IF s = Null THEN g_parsed ELSE s
       /\ pc' = CASE s \in Lists \cup {Null} -> IF reloading THEN "commit_hosts"
                                                ELSE "predaemon"
                  [] s \notin Lists \cup {Null} -> IF reloading THEN "idle"
                                                   ELSE "exited"
  /\ UNCHANGED <<env, mem, cfg, newcfg, reloading, schedule, history>>

\* daemon_initialize(): replaces the schedule by the test schedule.
Apply ==
  /\ pc = "apply"
  /\ schedule' = g_parsed
  /\ g_parsed' = Null
  /\ pc' = "idle"
  /\ UNCHANGED <<env, mem, cfg, newcfg, reloading, history>>

(***************************************************************************)
(* predaemon_initialize(): AUTO is resolved by measuring the database.     *)
(* The periodic import event is then taken for a failure, so that no       *)
(* daemon runs with tmpfs.                                                 *)
(***************************************************************************)
Predaemon ==
  /\ pc = "predaemon"
  /\ cfg.tmpfs \in {"FALSE", "AUTO"}
  /\ cfg' = [cfg EXCEPT !.tmpfs = "FALSE"]
  /\ pc' = "apply"
  /\ UNCHANGED <<env, mem, newcfg, reloading, sched, history>>
PredaemonTmpfs ==
  /\ pc = "predaemon"
  /\ cfg.tmpfs \in {"TRUE", "AUTO"}
  /\ cfg' = [cfg EXCEPT !.tmpfs = "TRUE"]
  /\ pc' = "exited"
  /\ UNCHANGED <<env, mem, newcfg, reloading, sched, history>>

-----------------------------------------------------------------------------
\* The buffer the next step frees.
ToFree ==
  CASE pc = "init_hosts" -> newcfg.pinghosts
    [] pc = "init_list" -> newcfg.liststring
    [] pc = "commit_hosts" /\ cfg.pinghosts # newcfg.pinghosts -> cfg.pinghosts
    [] pc = "commit_list" /\ cfg.liststring # newcfg.liststring -> cfg.liststring
    [] pc = "free_hosts" /\ cfg.pinghosts # newcfg.pinghosts -> newcfg.pinghosts
    [] pc = "free_list" /\ cfg.liststring # newcfg.liststring -> newcfg.liststring
    [] OTHER -> Null
FreeTwice ==
  /\ ~Live(ToFree)
  /\ pc' = "undefined"
  /\ UNCHANGED <<env, mem, cfg, newcfg, reloading, sched, history>>

Next ==
  \/ EditFile \/ Hangup \/ InitHosts \/ InitList \/ ReadFile \/ ReadArgv
  \/ CommitHosts \/ CommitList \/ FreeList \/ FreeHosts
  \/ CheckFails \/ CheckEvents \/ Apply \/ Predaemon \/ PredaemonTmpfs
  \/ FreeTwice

Spec == Init /\ [][Next]_vars

-----------------------------------------------------------------------------
\* Every variable keeps its range.
TypeOK ==
  /\ file \in Files /\ argv \in Argvs
  /\ mem \in [Buffers -> Strings \cup {Freed}]
  /\ cfg \in Config /\ newcfg \in Config
  /\ reloading \in BOOLEAN
  /\ pc \in {"init_hosts", "init_list", "read", "argv", "commit_hosts",
             "commit_list", "free_list", "free_hosts", "check", "predaemon",
             "apply", "idle", "exited", "undefined"}
  /\ g_parsed \in Strings \cup {Null} /\ schedule \in Strings \cup {Null}
  /\ read \in Files /\ accepted \in Files
  /\ n_reloads \in 0..MaxReloads

\* Until the first SIGHUP every step is defined, and the daemon starts with the
\* hosts and the schedule that command line, file and defaults ask for, in this
\* order, in buffers that are allocated, and with AUTO resolved (main.c:388).
StartUpApplies ==
  n_reloads = 0 =>
    /\ pc # "undefined"
    /\ pc = "idle" =>
         /\ cfg.tmpfs = "FALSE"
         /\ Content(cfg.pinghosts) = WantedHosts
         /\ Content(cfg.liststring) = WantedSchedule
         /\ schedule = WantedSchedule

\* A plain value in use is the one that command line and the file accepted last
\* ask for, whatever rejected files were read since (daemon.c:725, 732: "No
\* values changed").
ValuesOfAcceptedFile ==
  pc = "idle" => \/ cfg.tmpfs = WantedTmpfs
                 \/ cfg.tmpfs = "FALSE" /\ WantedTmpfs = "AUTO"

=============================================================================
