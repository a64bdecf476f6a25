----------------------------- MODULE Preparation -----------------------------
(***************************************************************************)
(* What an invocation of the program does before it becomes a daemon, and  *)
(* what it leaves behind: main.c (the special commands, predaemon_         *)
(* initialize() and the change of identity in daemonize()), database.c,    *)
(* tmpfs.c, user.c, capability.c and the part of config.c that looks at    *)
(* files.  Startup.tla takes over where an invocation becomes "running".   *)
(*                                                                         *)
(* One invocation after the other is made by root (main() turns anybody    *)
(* else away), each may be interrupted or fail at every step, and the      *)
(* daemon of an earlier one may be at work meanwhile.  A database is known *)
(* by its owner, its tables, and the kinds of rows in it: measurements and *)
(* the rows of the performance test, which have timestamp 0.  The database *)
(* is the one configured, and every configuration file names it.           *)
(***************************************************************************)
EXTENDS Integers

CONSTANTS
  Absent,    \* no such file, or no such process
  Samples,   \* NUM_SQLITE3_INSERT_TESTS
  Tests,     \* values of -testdbwrite, 0 when it is not given
  MaxMounts  \* tmpfs mounted over one another (a bound)

ASSUME PreparationAssumption ==
  /\ Samples \in Nat \ {0}
  /\ Tests \subseteq Int /\ 0 \in Tests
  /\ MaxMounts \in Nat

VARIABLES
  file,       \* the database, and the one in the tmpfs mounted last
  config,     \* the configuration file
  mounts,     \* tmpfs on DAEMON_TMPFS_MOUNTPOINT
  known,      \* the passwd entry of DAEMON_RUN_AS_USER exists
  folder,     \* that user may write where the database is
  running,    \* the daemon
  argv,       \* of the invocation
  pc,
  tmpfs,      \* cfg.execute.tmpfs
  target,     \* the database database_initialize() works on
  n,          \* nsamples of database_testwriteperf()
  uid, gid,   \* real, effective and saved ids
  permitted, effective,  \* capabilities
  created,    \* the invocation before reported that it made the database (history)
  consent,    \* the user agreed to lose the database (history)
  refused     \* the kernel refused a change in user_changeto() (history)

disk == <<file, config, mounts>>
host == <<known, folder>>
ids == <<uid, gid, permitted, effective>>
request == <<argv, tmpfs>>
work == <<target, n>>
history == <<consent, refused>>
process == <<request, pc, work, ids, history>>
vars == <<disk, host, running, process, created>>

Root == "root"
Daemon == "daemon"     \* DAEMON_RUN_AS_USER
Users == {Root, Daemon}
Ids == [real: Users, eff: Users, saved: Users]
All(u) == [real |-> u, eff |-> u, saved |-> u]
Caps == {"NET_RAW", "SETID"}

Targets == {"database", "tmpfs"}
Tables == {"data", "bounds"}
Database == [owner: Users, tables: SUBSET Tables, rows: BOOLEAN, tests: BOOLEAN]
New(u) == [owner |-> u, tables |-> {}, rows |-> FALSE, tests |-> FALSE]
Tmpfs == {"TRUE", "FALSE", "AUTO"}
\* Whether all its lines can be parsed, and its value of "ramdisk".
Config == [valid: BOOLEAN, ramdisk: Tmpfs \cup {"unset"}]
\* named: with -config=, a file other than CFG_DEFAULT_FILECONFIG.
Argv == [named: BOOLEAN, createdb: BOOLEAN, writeconfig: BOOLEAN, testdb: Tests,
         ramdisk: Tmpfs \cup {"unset"}]
ASSUME AbsentAssumption == Absent \notin Database /\ Absent \notin Config

Commands == argv.createdb \/ argv.writeconfig \/ argv.testdb # 0

\* The directories of the databases.
Creatable(t, u) == u = Root \/ t = "tmpfs" \/ folder
\* u, with the capabilities of its id only, may change the database; SQLite
\* writes a journal beside it.  Root as such may write anything.
Writable(t, u) ==
  /\ file[t] # Absent
  /\ u = Root \/ (file[t].owner = u /\ Creatable(t, u))

-----------------------------------------------------------------------------
(***************************************************************************)
(* System calls.  A process may take an id when it has the capability or   *)
(* has that id already; setreuid(-1, u) and setregid(-1, u) save u unless  *)
(* it is the real id.                                                      *)
(***************************************************************************)
Allowed(id, u) == "SETID" \in effective \/ u \in {id.real, id.eff, id.saved}
SetEff(id, u) == [id EXCEPT !.eff = u, !.saved = IF u = id.real THEN @ ELSE u]
\* Capabilities are effective while the effective user is root.
EffectiveFor(u) == IF u = Root THEN permitted ELSE {}

Go(next) == pc' = next
Stay == UNCHANGED <<disk, host, running, request, work, ids, created, history>>
NoArguments == [named |-> FALSE, createdb |-> FALSE, writeconfig |-> FALSE,
                testdb |-> 0, ramdisk |-> "unset"]
\* The process and its variables are gone.
End ==
  /\ pc' = "off"
  /\ argv' = NoArguments
  /\ tmpfs' = "AUTO" /\ target' = "database" /\ n' = 0
  /\ uid' = All(Root) /\ gid' = All(Root)
  /\ permitted' = Caps /\ effective' = Caps
  /\ consent' = FALSE /\ refused' = FALSE
Fail == End /\ created' = FALSE
Failed == Fail /\ UNCHANGED <<disk, host, running>>

Init ==
  /\ file \in [Targets -> {Absent} \cup [owner: Users, tables: {Tables},
                                         rows: {TRUE}, tests: {FALSE}]]
  /\ file["tmpfs"] = Absent
  /\ config \in {Absent} \cup [valid: {TRUE}, ramdisk: {"unset", "FALSE"}]
  /\ mounts = 0
  /\ known \in BOOLEAN /\ folder \in BOOLEAN
  /\ running = Absent
  /\ pc = "off"
  /\ argv = NoArguments
  /\ tmpfs = "AUTO" /\ target = "database" /\ n = 0
  /\ uid = All(Root) /\ gid = All(Root)
  /\ permitted = Caps /\ effective = Caps
  /\ consent = FALSE /\ refused = FALSE
  /\ created = FALSE

Invoke ==
  /\ pc = "off"
  /\ argv' \in Argv
  /\ Go("preread")
  /\ created' = FALSE
  /\ UNCHANGED <<disk, host, running, tmpfs, work, ids, history>>

\* Ctrl-C, or kill: nothing is undone.
Interrupt == pc # "off" /\ Failed

(***************************************************************************)
(* Configuration.  file_useraccess() does not become the user while the    *)
(* effective user is root, and so tells whether root has access.           *)
(***************************************************************************)
file_useraccess(t) ==
  Writable(t, IF uid.eff \notin {Root, Daemon} THEN Daemon ELSE uid.eff)

cfg_preread_commandline ==
  /\ pc = "preread"
  /\ IF argv.named /\ ~argv.writeconfig /\ config = Absent
     THEN Failed ELSE Go("read") /\ Stay

\* The file that does not exist must be the default one.
ReadNothing ==
  /\ pc = "read"
  /\ config = Absent
  /\ IF argv.named THEN Failed ELSE Go("argv") /\ Stay
\* One bad line refuses the file; its line "database" is checked unless the
\* database is to be created.
cfg_read_file ==
  /\ pc = "read"
  /\ config # Absent
  /\ IF ~config.valid \/ ~(argv.createdb \/ file_useraccess("database"))
     THEN Failed
     ELSE /\ tmpfs' = IF config.ramdisk = "unset" THEN tmpfs ELSE config.ramdisk
          /\ Go("argv")
          /\ UNCHANGED <<disk, host, running, argv, work, ids, created, history>>
cfg_read_argv ==
  /\ pc = "argv"
  /\ tmpfs' = IF argv.ramdisk = "unset" THEN tmpfs ELSE argv.ramdisk
  /\ Go("createdb")
  /\ UNCHANGED <<disk, host, running, argv, work, ids, created, history>>

(***************************************************************************)
(* -createdb                                                               *)
(***************************************************************************)
cmd_initdb ==
  /\ pc = "createdb"
  /\ Go(IF ~argv.createdb THEN "writeconfig"
        ELSE IF file["database"] # Absent THEN "ask_database" ELSE "assume")
  /\ Stay
\* ttyprompt() goes on until it reads a yes or a no.
Agree ==
  /\ pc = "ask_database"
  /\ consent' = TRUE
  /\ Go("unlink_database")
  /\ UNCHANGED <<disk, host, running, request, work, ids, created, refused>>
Decline == pc \in {"ask_database", "ask_config"} /\ Failed
UnlinkDatabase ==
  /\ pc = "unlink_database"
  /\ file["database"] # Absent
  /\ file' = [file EXCEPT !["database"] = Absent]
  /\ Go("assume")
  /\ UNCHANGED <<config, mounts, host, running, request, work, ids, created, history>>

\* user_set_eugid(): the group first, while there is the right to do so.
user_set_eugid ==
  /\ pc = "assume"
  /\ known
  /\ Allowed(gid, Daemon) /\ gid' = SetEff(gid, Daemon)
  /\ Allowed(uid, Daemon) /\ uid' = SetEff(uid, Daemon)
  /\ effective' = EffectiveFor(Daemon)
  /\ Go("open")
  /\ UNCHANGED <<disk, host, running, request, work, permitted, created, history>>

(***************************************************************************)
(* database_initialize()                                                   *)
(***************************************************************************)
OpenDatabase ==
  /\ pc = "open"
  /\ file[target] # Absent \/ Creatable(target, uid.eff)
  /\ file' = [file EXCEPT ![target] = IF @ = Absent THEN New(uid.eff) ELSE @]
  /\ Go("data")
  /\ UNCHANGED <<config, mounts, host, running, request, work, ids, created, history>>
CanCreate(table) ==
  Writable(target, uid.eff) /\ table \notin file[target].tables
CreateData ==
  /\ pc = "data"
  /\ CanCreate("data")
  /\ file' = [file EXCEPT ![target].tables = @ \cup {"data"}]
  /\ Go("bounds")
  /\ UNCHANGED <<config, mounts, host, running, request, work, ids, created, history>>
\* Faulty variant: the result of the second statement is not looked at.
CreateBoundsUnchecked ==
  /\ pc = "bounds"
  /\ file' \in {file} \cup
       (IF CanCreate("bounds")
        THEN {[file EXCEPT ![target].tables = @ \cup {"bounds"}]} ELSE {})
  /\ Go("restore")
  /\ UNCHANGED <<config, mounts, host, running, request, work, ids, created, history>>
CreateBounds ==
  /\ pc = "bounds"
  /\ CanCreate("bounds")
  /\ file' = [file EXCEPT ![target].tables = @ \cup {"bounds"}]
  /\ Go("restore")
  /\ UNCHANGED <<config, mounts, host, running, request, work, ids, created, history>>

\* The user first, which gives back the right to change the group.
user_restore_eugid ==
  /\ pc = "restore"
  /\ Allowed(uid, uid.real) /\ uid' = SetEff(uid, uid.real)
  /\ gid' = SetEff(gid, gid.real)
  /\ effective' = EffectiveFor(uid.real)
  /\ Go(IF target = "database" THEN "writeconfig" ELSE "event")
  /\ UNCHANGED <<disk, host, running, request, work, permitted, created, history>>

(***************************************************************************)
(* -writeconfig                                                            *)
(***************************************************************************)
cmd_writeconfig ==
  /\ pc = "writeconfig"
  /\ Go(IF ~argv.writeconfig THEN "testdb"
        ELSE IF config # Absent THEN "ask_config" ELSE "write")
  /\ Stay
AgreeConfig ==
  /\ pc = "ask_config"
  /\ Go("unlink_config")
  /\ Stay
UnlinkConfig ==
  /\ pc = "unlink_config"
  /\ config' = Absent
  /\ Go("write")
  /\ UNCHANGED <<file, mounts, host, running, request, work, ids, created, history>>
\* The line of the ramdisk says "daemon", with AUTO or TRUE.
cfg_writefile ==
  /\ pc = "write"
  /\ config' = [valid |-> tmpfs # "AUTO", ramdisk |-> "unset"]
  /\ Go("testdb")
  /\ UNCHANGED <<file, mounts, host, running, request, work, ids, created, history>>

(***************************************************************************)
(* -testdbwrite, and the test of an invocation without commands.           *)
(***************************************************************************)
\* Faulty variant: a negative number is not turned away.
TestAnyNumber ==
  /\ pc = "testdb"
  /\ n' = argv.testdb
  /\ Go(IF argv.testdb # 0 THEN "insert" ELSE "finish")
  /\ UNCHANGED <<disk, host, running, request, target, ids, created, history>>
\* -testdbwrite=0 is as good as none.
cmd_testdbperf ==
  /\ pc = "testdb"
  /\ IF argv.testdb < 0 THEN Failed
     ELSE /\ n' = argv.testdb
          /\ Go(IF argv.testdb > 0 THEN "insert" ELSE "finish")
          /\ UNCHANGED <<disk, host, running, request, target, ids, created, history>>
\* database_insert(): sqlite3_open() creates a file that is missing.
CanInsert(t, u) == Writable(t, u) /\ "data" \in file[t].tables
Insert ==
  /\ pc = "insert"
  /\ CanInsert("database", uid.eff)
  /\ file' = [file EXCEPT !["database"].tests = TRUE]
  /\ n' = n - 1
  /\ Go(IF n = 1 THEN "delete" ELSE "insert")
  /\ UNCHANGED <<config, mounts, host, running, request, target, ids, created, history>>
InsertCreates ==
  /\ pc = "insert"
  /\ file["database"] = Absent /\ Creatable("database", uid.eff)
  /\ file' = [file EXCEPT !["database"] = New(uid.eff)]
  /\ Fail
  /\ UNCHANGED <<config, mounts, host, running>>
\* Where database_testwriteperf() returns to, its result being slow or fast.
Tested ==
  IF Commands THEN tmpfs' = tmpfs /\ Go("finish")
  ELSE \E slow \in BOOLEAN :
         /\ tmpfs' = IF slow THEN "TRUE" ELSE "FALSE"
         /\ Go(IF slow THEN "mount" ELSE "daemonize")
\* Faulty variant: a negative timestamp, which stands for all rows.
DeleteAll ==
  /\ pc = "delete"
  /\ IF CanInsert("database", uid.eff)
     THEN file' = [file EXCEPT !["database"].tests = FALSE, !["database"].rows = FALSE]
     ELSE file' = file
  /\ Tested
  /\ UNCHANGED <<config, mounts, host, running, argv, work, ids, created, history>>
database_delete ==
  /\ pc = "delete"
  /\ IF CanInsert("database", uid.eff)
     THEN file' = [file EXCEPT !["database"].tests = FALSE]
     ELSE file' = file
  /\ Tested
  /\ UNCHANGED <<config, mounts, host, running, argv, work, ids, created, history>>
\* The result of database_delete() is not looked at.
DeleteFails ==
  /\ pc = "delete"
  /\ Tested
  /\ UNCHANGED <<disk, host, running, argv, work, ids, created, history>>

(***************************************************************************)
(* After the commands; cfg_check() and predaemon_initialize().             *)
(***************************************************************************)
Finish ==
  /\ pc = "finish"
  /\ IF Commands
     THEN End /\ created' = argv.createdb /\ UNCHANGED <<disk, host, running>>
     ELSE Go("check") /\ Stay
cfg_check ==
  /\ pc = "check"
  /\ config = Absent => ~argv.named
  /\ file_useraccess("database")
  /\ Go("prepare")
  /\ Stay
predaemon_initialize ==
  /\ pc = "prepare"
  /\ n' = Samples
  /\ \/ tmpfs = "AUTO"  /\ Go("insert")
     \/ tmpfs = "TRUE"  /\ Go("mount")
     \/ tmpfs = "FALSE" /\ Go("daemonize")
  /\ UNCHANGED <<disk, host, running, request, target, ids, created, history>>
\* What is mounted already is covered: ismountpoint() < 0 is what rc gets.
tmpfs_mount ==
  /\ pc = "mount"
  /\ known
  /\ mounts < MaxMounts
  /\ mounts' = mounts + 1
  /\ file' = [file EXCEPT !["tmpfs"] = Absent]
  /\ target' = "tmpfs"
  /\ Go("assume")
  /\ UNCHANGED <<config, host, running, request, n, ids, created, history>>
\* event_create() returns a time, which is taken for a failure.
ImportEvent == pc = "event" /\ Failed

\* A system call or an SQL statement fails, a file is not there or not writable
\* any more, or the user is not known: the invocation gives up where it is.
GiveUp ==
  /\ pc \in {"read", "argv", "unlink_database", "assume", "open", "data", "bounds",
             "restore", "unlink_config", "write", "insert", "check", "mount"}
  /\ Failed

(***************************************************************************)
(* daemonize(): prctl(PR_SET_KEEPCAPS), user_changeto(), whose result is   *)
(* not looked at, and capability_set().                                    *)
(***************************************************************************)
\* Faulty variant: only the effective user is changed.
ChangeEffective ==
  /\ pc = "daemonize"
  /\ known
  /\ Allowed(gid, Daemon) /\ gid' = All(Daemon)
  /\ Allowed(uid, Daemon) /\ uid' = SetEff(uid, Daemon)
  /\ effective' = EffectiveFor(Daemon)
  /\ Go("capability")
  /\ UNCHANGED <<disk, host, running, request, work, permitted, created, history>>
\* setuid() of root sets all three.
user_changeto ==
  /\ pc = "daemonize"
  /\ known
  /\ Allowed(gid, Daemon) /\ gid' = All(Daemon)
  /\ Allowed(uid, Daemon)
  /\ uid' = IF "SETID" \in effective THEN All(Daemon) ELSE [uid EXCEPT !.eff = Daemon]
  /\ effective' = EffectiveFor(Daemon)
  /\ Go("capability")
  /\ UNCHANGED <<disk, host, running, request, work, permitted, created, history>>
UnknownUser ==
  /\ pc = "daemonize"
  /\ ~known
  /\ Go("capability")
  /\ Stay
\* setregid() or setuid() is refused.
ChangeRefused ==
  /\ pc = "daemonize"
  /\ known
  /\ gid' \in {gid, All(Daemon)}
  /\ refused' = TRUE
  /\ Go("capability")
  /\ UNCHANGED <<disk, host, running, request, work, uid, permitted, effective,
                 created, consent>>

capability_set ==
  /\ pc = "capability"
  /\ IF "NET_RAW" \notin permitted THEN Failed
     ELSE /\ permitted' = {"NET_RAW"} /\ effective' = {"NET_RAW"}
          /\ Go("lock")
          /\ UNCHANGED <<disk, host, running, request, work, uid, gid, created, history>>
\* Not in the bounding set, or no memory.
CapabilityFails == pc = "capability" /\ Failed

\* The rest of daemonize() is in Startup.tla: one daemon at a time.
Run ==
  /\ pc = "lock"
  /\ running = Absent
  /\ running' = [uid |-> uid, gid |-> gid, caps |-> effective,
                 changed |-> known /\ ~refused]
  /\ End
  /\ UNCHANGED <<disk, host, created>>
Locked == pc = "lock" /\ Failed
DaemonEnds ==
  /\ running # Absent
  /\ running' = Absent
  /\ UNCHANGED <<disk, host, process, created>>

(***************************************************************************)
(* A worker of the daemon inserts its row, or creates the file and finds   *)
(* no table in it.  Root without capabilities owns what is its own only.   *)
(***************************************************************************)
StoreRow ==
  /\ running # Absent
  /\ CanInsert("database", running.uid.eff)
  /\ file["database"].owner = running.uid.eff
  /\ file' = [file EXCEPT !["database"].rows = TRUE]
  /\ UNCHANGED <<config, mounts, host, running, process, created>>
StoreCreates ==
  /\ running # Absent
  /\ file["database"] = Absent /\ Creatable("database", running.uid.eff)
  /\ file' = [file EXCEPT !["database"] = New(running.uid.eff)]
  /\ UNCHANGED <<config, mounts, host, running, process, created>>

Next ==
  \/ Invoke \/ Interrupt \/ GiveUp
  \/ cfg_preread_commandline \/ ReadNothing \/ cfg_read_file \/ cfg_read_argv
  \/ cmd_initdb \/ Agree \/ Decline \/ UnlinkDatabase \/ user_set_eugid
  \/ OpenDatabase \/ CreateData \/ CreateBounds \/ user_restore_eugid
  \/ cmd_writeconfig \/ AgreeConfig \/ UnlinkConfig \/ cfg_writefile
  \/ cmd_testdbperf \/ Insert \/ InsertCreates \/ database_delete \/ DeleteFails
  \/ Finish \/ cfg_check \/ predaemon_initialize \/ tmpfs_mount \/ ImportEvent
  \/ user_changeto \/ UnknownUser \/ ChangeRefused
  \/ capability_set \/ CapabilityFails \/ Run \/ Locked
  \/ DaemonEnds \/ StoreRow \/ StoreCreates

Spec == Init /\ [][Next]_vars

-----------------------------------------------------------------------------
AsUser == {"open", "data", "bounds", "restore"}
AsRoot == {"ask_database", "unlink_database", "ask_config", "unlink_config", "write",
           "insert", "delete", "check", "mount", "daemonize"}

\* Every variable keeps its range; the loop of database_testwriteperf(), which
\* ends when n is 0, is not entered with less than 1.
TypeOK ==
  /\ file \in [Targets -> {Absent} \cup Database]
  /\ config \in {Absent} \cup Config
  /\ mounts \in 0..MaxMounts
  /\ known \in BOOLEAN /\ folder \in BOOLEAN
  /\ running \in {Absent} \cup
       [uid: Ids, gid: Ids, caps: SUBSET Caps, changed: BOOLEAN]
  /\ argv \in Argv
  /\ pc \in AsUser \cup AsRoot \cup
       {"off", "preread", "read", "argv", "createdb", "assume", "writeconfig",
        "testdb", "finish", "prepare", "event", "capability", "lock"}
  /\ tmpfs \in Tmpfs /\ target \in Targets
  /\ n \in Nat /\ (pc = "insert" => n > 0)
  /\ uid \in Ids /\ gid \in Ids
  /\ permitted \in SUBSET Caps /\ effective \in SUBSET permitted
  /\ created \in BOOLEAN /\ consent \in BOOLEAN /\ refused \in BOOLEAN

\* The database is made as the daemon's user and everything else is done as root,
\* whatever commands are combined (main.c:575-577, user.h); and the daemon has
\* nothing of root left, neither id nor capability except CAP_NET_RAW, provided
\* that the change went through: daemonize() does not ask.
RightIdentity ==
  /\ pc \in AsUser => uid.eff = Daemon /\ gid.eff = Daemon
  /\ pc \in AsRoot => uid.eff = Root /\ gid.eff = Root
  /\ running # Absent =>
       /\ running.caps = {"NET_RAW"}
       /\ running.changed => running.uid = All(Daemon) /\ running.gid = All(Daemon)

\* No invocation, interrupted or failed at whatever step, and no test of the write
\* performance loses measurements unless the user agreed to it in this very
\* invocation (main.c:520-532).
HasRows(d) == d # Absent /\ d.rows
RowsKept ==
  [][HasRows(file["database"]) => consent \/ HasRows(file'["database"])]_vars

\* An invocation with -createdb that ends in success leaves both tables, in a file
\* of the daemon's user, though a daemon may have created the file under its
\* hands: database.c:95-97 asks for a file that does not exist.
CreatedComplete ==
  created =>
    /\ file["database"] # Absent
    /\ file["database"].tables = Tables
    /\ file["database"].owner = Daemon
=============================================================================
