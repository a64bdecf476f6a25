-------------------------- MODULE PreparationProofs --------------------------
(***************************************************************************)
(* Theorems about Preparation.tla, for any number of samples and tests.    *)
(***************************************************************************)
EXTENDS Preparation, TLAPS

USE DEF Root, Daemon

-----------------------------------------------------------------------------
(***************************************************************************)
(* Identity.  Only few steps change it: for the others it is enough to     *)
(* know from which part of the program to which they lead.                 *)
(***************************************************************************)
Assumed == [real |-> Root, eff |-> Daemon, saved |-> Daemon]
\* Where the process is root, before and after it was the daemon's user.
Rooted == AsRoot \cup {"off", "preread", "read", "argv", "createdb", "assume",
                       "writeconfig", "testdb", "finish", "prepare", "event"}
Changed == {"capability", "lock"}

IdentityInv ==
  /\ pc \in Rooted \cup AsUser \cup Changed
  /\ uid \in Ids /\ gid \in Ids
  /\ pc \in AsUser => /\ uid = Assumed /\ gid = Assumed
                      /\ permitted = Caps /\ effective = {}
  /\ pc \in Rooted => /\ uid.real = Root /\ uid.eff = Root
                      /\ gid.real = Root /\ gid.eff = Root
                      /\ permitted = Caps /\ effective = Caps
  /\ pc \in Changed /\ known /\ ~refused => uid = All(Daemon) /\ gid = All(Daemon)
  /\ pc = "lock" => effective = {"NET_RAW"}
  /\ running # Absent =>
       /\ running.caps = {"NET_RAW"}
       /\ running.changed => running.uid = All(Daemon) /\ running.gid = All(Daemon)

Quiet ==
  /\ UNCHANGED <<ids, running, known, refused>>
  /\ \/ pc \in Rooted /\ pc' \in Rooted
     \/ pc \in AsUser /\ pc' \in AsUser
     \/ pc' = pc

LEMMA QuietKeepsIdentity == IdentityInv /\ Quiet => IdentityInv'
  BY DEF IdentityInv, Quiet, ids, Rooted, AsUser, AsRoot, Changed, All

LEMMA EndRestoresIdentity == IdentityInv /\ End /\ UNCHANGED running => IdentityInv'
  BY DEF IdentityInv, End, Rooted, AsUser, AsRoot, Changed, All, Ids, Users

\* The steps that do not touch the identity of the process, or end it.
LEMMA OthersKeepIdentity ==
  ASSUME IdentityInv,
         \/ Invoke \/ Interrupt \/ GiveUp
         \/ cfg_preread_commandline \/ ReadNothing \/ cfg_read_file \/ cfg_read_argv
         \/ cmd_initdb \/ Agree \/ Decline \/ UnlinkDatabase
         \/ OpenDatabase \/ CreateData \/ CreateBounds
         \/ cmd_writeconfig \/ AgreeConfig \/ UnlinkConfig \/ cfg_writefile
         \/ cmd_testdbperf \/ Insert \/ InsertCreates \/ database_delete \/ DeleteFails
         \/ Finish \/ cfg_check \/ predaemon_initialize \/ tmpfs_mount \/ ImportEvent
         \/ CapabilityFails \/ Locked \/ StoreRow \/ StoreCreates
  PROVE  IdentityInv'
<1>1. CASE Interrupt \/ GiveUp \/ Decline \/ InsertCreates \/ ImportEvent
           \/ CapabilityFails \/ Locked
  BY <1>1, EndRestoresIdentity
     DEF Interrupt, GiveUp, Decline, InsertCreates, ImportEvent, CapabilityFails,
         Locked, Failed, Fail
<1>2. CASE StoreRow \/ StoreCreates
  BY <1>2, QuietKeepsIdentity
     DEF StoreRow, StoreCreates, Quiet, process, ids, host, history
<1>3. CASE Invoke \/ ReadNothing \/ cfg_preread_commandline \/ cfg_read_file
           \/ cfg_read_argv \/ cmd_initdb \/ Agree \/ UnlinkDatabase
  BY <1>3, QuietKeepsIdentity, EndRestoresIdentity
     DEF Invoke, ReadNothing, cfg_preread_commandline, cfg_read_file, cfg_read_argv,
         cmd_initdb, Agree, UnlinkDatabase, Quiet, Stay, Go, Failed, Fail, Rooted,
         AsRoot, host, history
<1>4. CASE OpenDatabase \/ CreateData \/ CreateBounds
  BY <1>4, QuietKeepsIdentity
     DEF OpenDatabase, CreateData, CreateBounds, Quiet, Go, AsUser, host, history
<1>5. CASE cmd_writeconfig \/ AgreeConfig \/ UnlinkConfig \/ cfg_writefile
           \/ cmd_testdbperf \/ Insert
  BY <1>5, QuietKeepsIdentity, EndRestoresIdentity
     DEF cmd_writeconfig, AgreeConfig, UnlinkConfig, cfg_writefile, cmd_testdbperf,
         Insert, Quiet, Stay, Go, Failed, Fail, Rooted, AsRoot, host, history
<1>6. CASE database_delete \/ DeleteFails
  BY <1>6, QuietKeepsIdentity
     DEF database_delete, DeleteFails, Tested, Quiet, Go, Rooted, AsRoot, host, history
<1>7. CASE Finish \/ cfg_check \/ predaemon_initialize \/ tmpfs_mount
  BY <1>7, QuietKeepsIdentity, EndRestoresIdentity
     DEF Finish, cfg_check, predaemon_initialize, tmpfs_mount, Quiet, Stay, Go,
         Rooted, AsRoot, host, history
<1>8. QED
  BY <1>1, <1>2, <1>3, <1>4, <1>5, <1>6, <1>7

LEMMA AssumeKeepsIdentity == IdentityInv /\ user_set_eugid => IdentityInv'
  BY DEF IdentityInv, user_set_eugid, SetEff, EffectiveFor, Go, host, history,
         Rooted, AsUser, AsRoot, Changed, All, Ids, Users, Assumed

LEMMA RestoreKeepsIdentity == IdentityInv /\ user_restore_eugid => IdentityInv'
<1>1. SUFFICES ASSUME IdentityInv, user_restore_eugid PROVE IdentityInv'
  OBVIOUS
<1>2. /\ uid = Assumed /\ gid = Assumed
      /\ permitted = Caps
  BY <1>1 DEF IdentityInv, user_restore_eugid, AsUser
<1>3. uid' = [real |-> Root, eff |-> Root, saved |-> Daemon]
  BY <1>1, <1>2 DEF user_restore_eugid, SetEff, Assumed
<1>4. gid' = [real |-> Root, eff |-> Root, saved |-> Daemon]
  BY <1>1, <1>2 DEF user_restore_eugid, SetEff, Assumed
<1>5. effective' = Caps /\ permitted' = Caps /\ pc' \in {"writeconfig", "event"}
  BY <1>1, <1>2 DEF user_restore_eugid, EffectiveFor, Go, Assumed
<1>6. UNCHANGED <<running, known, refused>>
  BY <1>1 DEF user_restore_eugid, host, history
<1>7. QED
  BY <1>1, <1>3, <1>4, <1>5, <1>6
     DEF IdentityInv, Rooted, AsUser, AsRoot, Changed, Ids, Users

LEMMA ChangeKeepsIdentity ==
  ASSUME IdentityInv, user_changeto \/ UnknownUser \/ ChangeRefused
  PROVE  IdentityInv'
<1>1. CASE user_changeto
  BY <1>1 DEF IdentityInv, user_changeto, EffectiveFor, Go, host, history, Caps,
              Rooted, AsUser, AsRoot, Changed, All, Ids, Users
<1>2. CASE UnknownUser
  BY <1>2 DEF IdentityInv, UnknownUser, Stay, Go, ids, host, history,
              Rooted, AsUser, AsRoot, Changed, All
<1>3. CASE ChangeRefused
  BY <1>3 DEF IdentityInv, ChangeRefused, Go, host, history,
              Rooted, AsUser, AsRoot, Changed, All, Ids, Users
<1>4. QED
  BY <1>1, <1>2, <1>3

LEMMA CapabilityKeepsIdentity == IdentityInv /\ capability_set => IdentityInv'
<1>1. SUFFICES ASSUME IdentityInv, capability_set PROVE IdentityInv'
  OBVIOUS
<1>2. CASE "NET_RAW" \notin permitted
  BY <1>1, <1>2, EndRestoresIdentity DEF capability_set, Failed, Fail
<1>3. CASE "NET_RAW" \in permitted
  BY <1>1, <1>3 DEF IdentityInv, capability_set, Go, host, history,
                    Rooted, AsUser, AsRoot, Changed, All
<1>4. QED
  BY <1>2, <1>3

LEMMA RunKeepsIdentity == IdentityInv /\ (Run \/ DaemonEnds) => IdentityInv'
<1>1. ASSUME IdentityInv, Run PROVE IdentityInv'
  BY <1>1 DEF IdentityInv, Run, End, host, Rooted, AsUser, AsRoot, Changed, All,
              Ids, Users
<1>2. ASSUME IdentityInv, DaemonEnds PROVE IdentityInv'
  BY <1>2 DEF IdentityInv, DaemonEnds, process, ids, host, history,
              Rooted, AsUser, AsRoot, Changed, All
<1>3. QED
  BY <1>1, <1>2

LEMMA IdentityInvariant == Spec => []IdentityInv
<1>1. Init => IdentityInv
  BY DEF Init, IdentityInv, Rooted, AsUser, AsRoot, Changed, All, Ids, Users, Caps
<1>2. IdentityInv /\ [Next]_vars => IdentityInv'
  <2>1. ASSUME IdentityInv, UNCHANGED vars PROVE IdentityInv'
    BY <2>1, QuietKeepsIdentity DEF Quiet, vars, process, ids, host, history
  <2>2. QED
    BY <2>1, OthersKeepIdentity, AssumeKeepsIdentity, RestoreKeepsIdentity,
       ChangeKeepsIdentity, CapabilityKeepsIdentity, RunKeepsIdentity DEF Next
<1>3. QED
  BY <1>1, <1>2, PTL DEF Spec

\* Whatever commands are given and wherever they fail, databases are made as the
\* daemon's user, everything else is done as root, and a daemon whose change of
\* identity went through is that user alone, with CAP_NET_RAW alone.
THEOREM IdentitySafe == Spec => []RightIdentity
<1>1. IdentityInv => RightIdentity
  BY DEF IdentityInv, RightIdentity, Assumed, Rooted, AsUser, AsRoot
<1>2. QED
  BY <1>1, IdentityInvariant, PTL

-----------------------------------------------------------------------------
(***************************************************************************)
(* The files.  But for the two steps that take one away - the unlink() of  *)
(* cmd_initdb(), and a tmpfs mounted over another - a database keeps its   *)
(* owner, its tables and its measurements.                                 *)
(***************************************************************************)
FileTyped == file \in [Targets -> {Absent} \cup Database]

Grown(d, e) ==
  d # Absent => /\ e # Absent
                /\ e.owner = d.owner
                /\ d.tables \subseteq e.tables
                /\ d.rows => e.rows

Kept(t) == Grown(file[t], file'[t])

LEMMA NewTyped ==
  ASSUME NEW u \in Users
  PROVE  New(u) \in Database
  BY DEF New, Database, Users

\* A file that is changed stays a database, and is larger.
LEMMA ChangeTyped ==
  ASSUME NEW d \in Database
  PROVE  /\ \A t \in SUBSET Tables :
              LET e == [d EXCEPT !.tables = @ \cup t] IN e \in Database /\ Grown(d, e)
         /\ \A b \in BOOLEAN :
              LET e == [d EXCEPT !.tests = b] IN e \in Database /\ Grown(d, e)
         /\ LET e == [d EXCEPT !.rows = TRUE] IN e \in Database /\ Grown(d, e)
<1>1. ASSUME NEW t \in SUBSET Tables
      PROVE  LET e == [d EXCEPT !.tables = @ \cup t] IN e \in Database /\ Grown(d, e)
  <2>1. d.tables \cup t \in SUBSET Tables
    BY DEF Database
  <2>2. QED
    BY <2>1, AbsentAssumption DEF Database, Grown
<1>2. ASSUME NEW b \in BOOLEAN
      PROVE  LET e == [d EXCEPT !.tests = b] IN e \in Database /\ Grown(d, e)
  BY AbsentAssumption DEF Database, Grown
<1>3. LET e == [d EXCEPT !.rows = TRUE] IN e \in Database /\ Grown(d, e)
  BY AbsentAssumption DEF Database, Grown
<1>4. QED
  BY <1>1, <1>2, <1>3

LEMMA ReplaceKeeps ==
  ASSUME FileTyped, NEW t \in Targets, NEW e \in Database,
         file' = [file EXCEPT ![t] = e], Grown(file[t], e)
  PROVE  FileTyped' /\ \A s \in Targets : Kept(s)
<1>1. FileTyped'
  BY DEF FileTyped
<1>2. ASSUME NEW s \in Targets PROVE Kept(s)
  <2>1. CASE s = t
    BY <2>1 DEF Kept, FileTyped
  <2>2. CASE s # t
    <3>1. file'[s] = file[s] /\ file[s] \in {Absent} \cup Database
      BY <2>2 DEF FileTyped
    <3>2. QED
      BY <3>1 DEF Kept, Grown, Database
  <2>3. QED
    BY <2>1, <2>2
<1>3. QED
  BY <1>1, <1>2

LEMMA SameKeeps ==
  ASSUME FileTyped, UNCHANGED file
  PROVE  FileTyped' /\ \A s \in Targets : Kept(s)
<1>1. ASSUME NEW s \in Targets PROVE Kept(s)
  BY DEF FileTyped, Kept, Grown, Database
<1>2. QED
  BY <1>1 DEF FileTyped

FileInv ==
  /\ FileTyped
  /\ target \in Targets
  /\ running # Absent => running.uid \in Ids

LEMMA FileStep ==
  ASSUME IdentityInv, FileInv, [Next]_vars, ~UnlinkDatabase, ~tmpfs_mount
  PROVE  FileTyped' /\ \A s \in Targets : Kept(s)
<1> DEFINE Goal == FileTyped' /\ \A s \in Targets : Kept(s)
<1> SUFFICES Goal
  OBVIOUS
<1> HIDE DEF Goal
<1>1. /\ uid.eff \in Users /\ target \in Targets /\ "database" \in Targets
      /\ running # Absent => running.uid.eff \in Users
      /\ FileTyped
  BY DEF IdentityInv, FileInv, Ids, Targets
<1>2. \A t \in Targets : file[t] # Absent => file[t] \in Database
  BY <1>1 DEF FileTyped
<1>3. ASSUME NEW t \in Targets, NEW u \in Users, file[t] = Absent,
             file' = [file EXCEPT ![t] = New(u)]
      PROVE  Goal
  BY <1>1, <1>3, NewTyped, ReplaceKeeps DEF Grown, Goal
<1>4. ASSUME NEW t \in Targets, file[t] # Absent, NEW e \in Database,
             Grown(file[t], e), file' = [file EXCEPT ![t] = e]
      PROVE  Goal
  BY <1>1, <1>4, ReplaceKeeps DEF Goal
<1>5. ASSUME UNCHANGED file PROVE Goal
  BY <1>1, <1>5, SameKeeps DEF Goal
<1>6. CASE OpenDatabase
  <2>1. CASE file[target] = Absent
    BY <1>1, <1>3, <1>6, <2>1 DEF OpenDatabase
  <2>2. CASE file[target] # Absent
    <3>1. UNCHANGED file
      BY <1>1, <1>6, <2>2 DEF OpenDatabase, FileTyped
    <3>2. QED
      BY <1>5, <3>1
  <2>3. QED
    BY <2>1, <2>2
<1>7. CASE CreateData \/ CreateBounds
  <2>1. PICK table \in Tables :
          file' = [file EXCEPT ![target].tables = @ \cup {table}]
    BY <1>7 DEF CreateData, CreateBounds, Tables
  <2>2. file[target] # Absent /\ file[target] \in Database
    BY <1>1, <1>2, <1>7 DEF CreateData, CreateBounds, CanCreate, Writable
  <2>3. QED
    <3> DEFINE e == [file[target] EXCEPT !.tables = @ \cup {table}]
    <3>1. e \in Database /\ Grown(file[target], e)
      BY <2>2, ChangeTyped
    <3>2. file' = [file EXCEPT ![target] = e]
      BY <2>1
    <3> HIDE DEF e
    <3>3. QED
      BY <1>1, <1>4, <2>2, <3>1, <3>2
<1>8. CASE Insert \/ (database_delete /\ CanInsert("database", uid.eff))
  <2>1. PICK b \in BOOLEAN : file' = [file EXCEPT !["database"].tests = b]
    BY <1>8 DEF Insert, database_delete
  <2>2. file["database"] # Absent /\ file["database"] \in Database
    BY <1>1, <1>2, <1>8 DEF Insert, CanInsert, Writable
  <2>3. QED
    <3> DEFINE e == [file["database"] EXCEPT !.tests = b]
    <3>1. e \in Database /\ Grown(file["database"], e)
      BY <2>2, ChangeTyped
    <3>2. file' = [file EXCEPT !["database"] = e]
      BY <2>1
    <3> HIDE DEF e
    <3>3. QED
      BY <1>1, <1>4, <2>2, <3>1, <3>2
<1>9. CASE StoreRow
  <2>1. file["database"] # Absent /\ file["database"] \in Database
    BY <1>1, <1>2, <1>9 DEF StoreRow, CanInsert, Writable
  <2>2. QED
    <3> DEFINE e == [file["database"] EXCEPT !.rows = TRUE]
    <3>1. e \in Database /\ Grown(file["database"], e)
      BY <2>1, ChangeTyped
    <3>2. file' = [file EXCEPT !["database"] = e]
      BY <1>9 DEF StoreRow
    <3> HIDE DEF e
    <3>3. QED
      BY <1>1, <1>4, <2>1, <3>1, <3>2
<1>10. CASE InsertCreates
  BY <1>1, <1>3, <1>10 DEF InsertCreates
<1>11. CASE StoreCreates
  BY <1>1, <1>3, <1>11 DEF StoreCreates
<1>12. CASE database_delete /\ ~CanInsert("database", uid.eff)
  BY <1>5, <1>12 DEF database_delete
<1>13. CASE \/ Invoke \/ Interrupt \/ GiveUp \/ cfg_preread_commandline \/ ReadNothing
            \/ cfg_read_file \/ cfg_read_argv \/ cmd_initdb \/ Agree \/ Decline
  BY <1>5, <1>13 DEF Invoke, Interrupt, GiveUp, cfg_preread_commandline, ReadNothing,
     cfg_read_file, cfg_read_argv, cmd_initdb, Agree, Decline, Failed, Stay, disk
<1>14. CASE \/ user_set_eugid \/ user_restore_eugid \/ cmd_writeconfig \/ AgreeConfig
            \/ UnlinkConfig \/ cfg_writefile \/ cmd_testdbperf \/ DeleteFails \/ Finish
  BY <1>5, <1>14 DEF user_set_eugid, user_restore_eugid, cmd_writeconfig, AgreeConfig,
     UnlinkConfig, cfg_writefile, cmd_testdbperf, DeleteFails, Finish, Failed, Stay, disk
<1>15. CASE \/ cfg_check \/ predaemon_initialize \/ ImportEvent \/ user_changeto
            \/ UnknownUser \/ ChangeRefused \/ capability_set \/ CapabilityFails
            \/ Run \/ Locked \/ DaemonEnds \/ UNCHANGED vars
  BY <1>5, <1>15 DEF cfg_check, predaemon_initialize, ImportEvent, user_changeto,
     UnknownUser, ChangeRefused, capability_set, CapabilityFails, Run, Locked,
     DaemonEnds, Failed, Stay, disk, vars
<1>16. QED
  BY <1>6, <1>7, <1>8, <1>9, <1>10, <1>11, <1>12, <1>13, <1>14, <1>15 DEF Next

\* The two that take a file away leave no more than nothing.
LEMMA AbsentTyped ==
  ASSUME FileTyped, UnlinkDatabase \/ tmpfs_mount
  PROVE  /\ FileTyped'
         /\ UnlinkDatabase => pc = "unlink_database"
         /\ tmpfs_mount => Kept("database")
<1>1. FileTyped'
  BY DEF FileTyped, UnlinkDatabase, tmpfs_mount
<1>2. UnlinkDatabase => pc = "unlink_database"
  BY DEF UnlinkDatabase
<1>3. tmpfs_mount => Kept("database")
  <2>1. ASSUME tmpfs_mount PROVE file'["database"] = file["database"]
    BY <2>1 DEF tmpfs_mount, FileTyped, Targets
  <2>2. file["database"] \in {Absent} \cup Database
    BY DEF FileTyped, Targets
  <2>3. QED
    BY <2>1, <2>2 DEF Kept, Grown, Database
<1>4. QED
  BY <1>1, <1>2, <1>3

\* What the steps do to argv, to target and to the daemon.
LEMMA RequestStep ==
  ASSUME [Next]_vars
  PROVE  /\ target' \in {target, "database", "tmpfs"}
         /\ \/ UNCHANGED running
            \/ running' = Absent
            \/ running'.uid = uid
<1>1. CASE \/ Interrupt \/ GiveUp \/ Decline \/ InsertCreates \/ ImportEvent
           \/ CapabilityFails \/ Locked \/ Finish \/ Run \/ DaemonEnds
  BY <1>1 DEF Interrupt, GiveUp, Decline, InsertCreates, ImportEvent, CapabilityFails,
     Locked, Finish, Run, DaemonEnds, Failed, Fail, End, Stay, process, work
<1>2. CASE \/ Invoke \/ cfg_preread_commandline \/ ReadNothing \/ cfg_read_file
           \/ cfg_read_argv \/ cmd_initdb \/ Agree \/ UnlinkDatabase \/ user_set_eugid
  BY <1>2 DEF Invoke, cfg_preread_commandline, ReadNothing, cfg_read_file,
     cfg_read_argv, cmd_initdb, Agree, UnlinkDatabase, user_set_eugid, Failed, Fail,
     End, Stay, work
<1>3. CASE \/ OpenDatabase \/ CreateData \/ CreateBounds \/ user_restore_eugid
           \/ cmd_writeconfig \/ AgreeConfig \/ UnlinkConfig \/ cfg_writefile
           \/ cmd_testdbperf \/ Insert \/ database_delete \/ DeleteFails
  BY <1>3 DEF OpenDatabase, CreateData, CreateBounds, user_restore_eugid,
     cmd_writeconfig, AgreeConfig, UnlinkConfig, cfg_writefile, cmd_testdbperf,
     Insert, database_delete, DeleteFails, Failed, Fail, End, Stay, work
<1>4. CASE \/ cfg_check \/ predaemon_initialize \/ tmpfs_mount \/ user_changeto
           \/ UnknownUser \/ ChangeRefused \/ capability_set \/ StoreRow
           \/ StoreCreates \/ UNCHANGED vars
  BY <1>4 DEF cfg_check, predaemon_initialize, tmpfs_mount, user_changeto,
     UnknownUser, ChangeRefused, capability_set, StoreRow, StoreCreates, Failed, Fail,
     End, Stay, process, work, vars
<1>5. QED
  BY <1>1, <1>2, <1>3, <1>4 DEF Next

LEMMA FileInvStep == IdentityInv /\ FileInv /\ [Next]_vars => FileInv'
<1>1. SUFFICES ASSUME IdentityInv, FileInv, [Next]_vars PROVE FileInv'
  OBVIOUS
<1>2. FileTyped'
  BY <1>1, FileStep, AbsentTyped DEF FileInv
<1>3. target' \in Targets
  BY <1>1, RequestStep DEF FileInv, Targets
<1>4. running' # Absent => running'.uid \in Ids
  BY <1>1, RequestStep DEF FileInv, IdentityInv
<1>5. QED
  BY <1>2, <1>3, <1>4 DEF FileInv

\* unlink() is reached with the consent of the user only.
Asked == pc = "unlink_database" => consent

LEMMA AskedStep == Asked /\ [Next]_vars => Asked'
<1>1. SUFFICES ASSUME Asked, [Next]_vars, pc' = "unlink_database" PROVE consent'
  BY DEF Asked
<1>2. CASE Agree
  BY <1>2 DEF Agree
<1>3. CASE UNCHANGED vars \/ StoreRow \/ StoreCreates \/ DaemonEnds
  BY <1>1, <1>3 DEF Asked, StoreRow, StoreCreates, DaemonEnds, vars, process, history
<1>4. CASE \/ Invoke \/ Interrupt \/ GiveUp \/ cfg_preread_commandline \/ ReadNothing
           \/ cfg_read_file \/ cfg_read_argv \/ cmd_initdb \/ Decline \/ UnlinkDatabase
           \/ user_set_eugid \/ OpenDatabase \/ CreateData \/ CreateBounds
  BY <1>1, <1>4 DEF Invoke, Interrupt, GiveUp, cfg_preread_commandline, ReadNothing,
     cfg_read_file, cfg_read_argv, cmd_initdb, Decline, UnlinkDatabase,
     user_set_eugid, OpenDatabase, CreateData, CreateBounds, Failed, Fail, End, Go
<1>5. CASE \/ user_restore_eugid \/ cmd_writeconfig \/ AgreeConfig \/ UnlinkConfig
           \/ cfg_writefile \/ cmd_testdbperf \/ Insert \/ InsertCreates
           \/ database_delete \/ DeleteFails \/ Finish \/ cfg_check
  BY <1>1, <1>5 DEF user_restore_eugid, cmd_writeconfig, AgreeConfig, UnlinkConfig,
     cfg_writefile, cmd_testdbperf, Insert, InsertCreates, database_delete,
     DeleteFails, Tested, Finish, cfg_check, Failed, Fail, End, Go
<1>6. CASE \/ predaemon_initialize \/ tmpfs_mount \/ ImportEvent \/ user_changeto
           \/ UnknownUser \/ ChangeRefused \/ capability_set \/ CapabilityFails
           \/ Run \/ Locked
  BY <1>1, <1>6 DEF predaemon_initialize, tmpfs_mount, ImportEvent, user_changeto,
     UnknownUser, ChangeRefused, capability_set, CapabilityFails, Run, Locked,
     Failed, Fail, End, Go
<1>7. QED
  BY <1>1, <1>2, <1>3, <1>4, <1>5, <1>6 DEF Next

LEMMA InitFiles == Init => FileInv /\ Asked
<1>1. SUFFICES ASSUME Init PROVE FileInv /\ Asked
  OBVIOUS
<1>2. FileTyped
  BY <1>1 DEF Init, FileTyped, Database
<1>3. QED
  BY <1>1, <1>2 DEF Init, FileInv, Asked, Targets

\* Measurements are only lost to a user who agreed to it in this invocation: for
\* any number of test rows, and whatever fails.
THEOREM RowsSafe == Spec => RowsKept
<1>1. IdentityInv /\ FileInv /\ Asked /\ [Next]_vars =>
        [HasRows(file["database"]) => consent \/ HasRows(file'["database"])]_vars
  <2>1. SUFFICES ASSUME IdentityInv, FileInv, Asked, [Next]_vars,
                        HasRows(file["database"]), ~consent
                 PROVE  HasRows(file'["database"])
    OBVIOUS
  <2>2. Kept("database")
    BY <2>1, FileStep, AbsentTyped DEF Asked, FileInv, Targets
  <2>3. QED
    BY <2>1, <2>2 DEF Kept, Grown, HasRows
<1>2. Spec => [](FileInv /\ Asked)
  BY IdentityInvariant, InitFiles, FileInvStep, AskedStep, PTL DEF Spec
<1>3. QED
  BY <1>1, <1>2, IdentityInvariant, PTL DEF Spec, RowsKept

-----------------------------------------------------------------------------
(***************************************************************************)
(* What -createdb reports.  From the second CREATE TABLE to the end of the *)
(* invocation the database stays complete, as no step takes it away.       *)
(***************************************************************************)
Complete ==
  /\ file["database"] # Absent
  /\ file["database"].tables = Tables
  /\ file["database"].owner = Daemon
HasData == file[target] # Absent /\ "data" \in file[target].tables
\* Past -createdb, and past all commands.
AfterCreate == {"writeconfig", "ask_config", "unlink_config", "write", "testdb",
                "insert", "delete", "finish"}
AfterCommands == {"check", "prepare"}

MadeInv ==
  /\ created => pc = "off" /\ Complete
  /\ pc \in AfterCreate /\ argv.createdb => Complete
  /\ pc \in AfterCommands => ~argv.createdb
  /\ pc = "bounds" => HasData
  /\ pc = "restore" /\ target = "database" => Complete

LEMMA MadeStep == IdentityInv /\ FileInv /\ MadeInv /\ [Next]_vars => MadeInv'
<1> SUFFICES ASSUME IdentityInv, FileInv, MadeInv, [Next]_vars PROVE MadeInv'
  OBVIOUS
<1>1. CASE UnlinkDatabase
  BY <1>1 DEF UnlinkDatabase, MadeInv, AfterCreate, AfterCommands, Go
<1>2. CASE tmpfs_mount
  BY <1>2 DEF tmpfs_mount, MadeInv, AfterCreate, AfterCommands, Go
<1>3. CASE ~UnlinkDatabase /\ ~tmpfs_mount
  <2>1. Kept("database") /\ Kept(target) /\ FileTyped'
    BY <1>3, FileStep DEF FileInv, Targets
  <2>2. Complete => Complete'
    BY <2>1 DEF Complete, Kept, Grown, FileTyped, Database, Targets
  <2>3. HasData /\ UNCHANGED target => HasData'
    BY <2>1 DEF HasData, Kept, Grown
  <2>4. CASE CreateData
    <3>1. file' = [file EXCEPT ![target].tables = @ \cup {"data"}]
      BY <2>4 DEF CreateData
    <3>2. file[target] \in Database /\ UNCHANGED target
      BY <2>4 DEF CreateData, CanCreate, Writable, FileInv, FileTyped, work
    <3>3. file'[target].tables = file[target].tables \cup {"data"}
      BY <3>1, <3>2 DEF FileInv, FileTyped, Database
    <3>4. HasData'
      BY <2>1, <2>4, <3>2, <3>3
         DEF HasData, CreateData, CanCreate, Writable, Kept, Grown
    <3>5. QED
      BY <2>4, <3>4 DEF CreateData, MadeInv, AfterCreate, AfterCommands, Go
  <2>5. CASE CreateBounds
    <3>1. file' = [file EXCEPT ![target].tables = @ \cup {"bounds"}]
      BY <2>5 DEF CreateBounds
    <3>2. /\ file[target] # Absent /\ file[target] \in Database /\ UNCHANGED target
          /\ file[target].owner = Daemon /\ "data" \in file[target].tables
      BY <2>5 DEF CreateBounds, CanCreate, Writable, FileInv, FileTyped, work,
                  IdentityInv, AsUser, Assumed, MadeInv, HasData
    <3>3. file'[target].tables = file[target].tables \cup {"bounds"}
      BY <3>1, <3>2 DEF FileInv, FileTyped, Database
    <3>4. target = "database" => Complete'
      BY <2>1, <3>2, <3>3 DEF Complete, Kept, Grown, Tables, Database
    <3>5. QED
      BY <2>5, <3>2, <3>4 DEF CreateBounds, MadeInv, AfterCreate, AfterCommands, Go
  <2>6. CASE Finish
    BY <2>2, <2>6 DEF Finish, End, Stay, Commands, MadeInv, AfterCreate,
                      AfterCommands, Go, NoArguments, request
  <2>7. CASE StoreRow \/ StoreCreates \/ DaemonEnds \/ Run \/ UNCHANGED vars
    BY <2>2, <2>3, <2>7 DEF StoreRow, StoreCreates, DaemonEnds, Run, End, vars, process,
       request, work, MadeInv, AfterCreate, AfterCommands
  <2>8. CASE Failed \/ InsertCreates
    BY <2>8 DEF Failed, Fail, End, InsertCreates, MadeInv, AfterCreate, AfterCommands
  <2>9. CASE Invoke \/ ((\/ cfg_preread_commandline \/ ReadNothing \/ cfg_read_file
                         \/ cfg_read_argv \/ cmd_initdb \/ Agree \/ user_set_eugid
                         \/ OpenDatabase) /\ ~Failed)
    BY <2>2, <2>3, <2>9 DEF Invoke, cfg_preread_commandline, ReadNothing, cfg_read_file,
       cfg_read_argv, cmd_initdb, Agree, user_set_eugid, OpenDatabase, Stay, Go,
       request, work, MadeInv, AfterCreate, AfterCommands
  <2>10. CASE (\/ user_restore_eugid \/ cmd_writeconfig \/ AgreeConfig \/ UnlinkConfig
               \/ cfg_writefile \/ cmd_testdbperf \/ Insert \/ cfg_check) /\ ~Failed
    BY <2>2, <2>3, <2>10 DEF user_restore_eugid, cmd_writeconfig, AgreeConfig,
       UnlinkConfig, cfg_writefile, cmd_testdbperf, Insert, cfg_check, Stay, Go,
       request, work, MadeInv, AfterCreate, AfterCommands
  <2>11. CASE database_delete \/ DeleteFails
    BY <2>2, <2>3, <2>11 DEF database_delete, DeleteFails, Tested, Commands, Go,
       work, MadeInv, AfterCreate, AfterCommands
  <2>12. CASE (\/ predaemon_initialize \/ user_changeto \/ UnknownUser \/ ChangeRefused
               \/ capability_set) /\ ~Failed
    BY <2>2, <2>3, <2>12 DEF predaemon_initialize, user_changeto, UnknownUser,
       ChangeRefused, capability_set, Stay, Go, request, work, MadeInv, AfterCreate,
       AfterCommands
  <2>13. CASE Interrupt \/ GiveUp \/ Decline \/ ImportEvent \/ CapabilityFails \/ Locked
    BY <2>8, <2>13 DEF Interrupt, GiveUp, Decline, ImportEvent, CapabilityFails, Locked
  <2>14. QED
    BY <1>3, <2>4, <2>5, <2>6, <2>7, <2>8, <2>9, <2>10, <2>11, <2>12, <2>13 DEF Next
<1>4. QED
  BY <1>1, <1>2, <1>3

\* Whatever a daemon does to the file meanwhile: a success that is reported is one.
THEOREM CreateSafe == Spec => []CreatedComplete
<1>1. Init => MadeInv
  BY DEF Init, MadeInv, AfterCreate, AfterCommands
<1>2. MadeInv => CreatedComplete
  BY DEF MadeInv, Complete, CreatedComplete
<1>3. Spec => []FileInv
  BY IdentityInvariant, InitFiles, FileInvStep, PTL DEF Spec
<1>4. QED
  BY <1>1, <1>2, <1>3, MadeStep, IdentityInvariant, PTL DEF Spec

-----------------------------------------------------------------------------
(***************************************************************************)
(* Types.  The counter of the performance test is the part that needs more *)
(* than the guards: its loop ends at 0 and is entered above it.            *)
(***************************************************************************)
HostTyped ==
  /\ config \in {Absent} \cup Config
  /\ mounts \in 0..MaxMounts
  /\ known \in BOOLEAN /\ folder \in BOOLEAN
RequestTyped ==
  /\ argv \in Argv
  /\ tmpfs \in Tmpfs
  /\ n \in Nat /\ (pc = "insert" => n > 0)
HistoryTyped == created \in BOOLEAN /\ consent \in BOOLEAN /\ refused \in BOOLEAN
CapsTyped ==
  /\ permitted \in SUBSET Caps /\ effective \in SUBSET permitted
  /\ running \in {Absent} \cup
       [uid: Ids, gid: Ids, caps: SUBSET Caps, changed: BOOLEAN]

LEMMA HostStep == HostTyped /\ RequestTyped /\ [Next]_vars => HostTyped'
<1> SUFFICES ASSUME HostTyped, RequestTyped, [Next]_vars PROVE HostTyped'
  OBVIOUS
<1>1. CASE UnlinkConfig
  BY <1>1 DEF UnlinkConfig, HostTyped, host
<1>2. CASE cfg_writefile
  BY <1>2 DEF cfg_writefile, HostTyped, host, Config
<1>3. CASE tmpfs_mount
  BY <1>3, PreparationAssumption DEF tmpfs_mount, HostTyped, host
<1>4. CASE UNCHANGED <<config, mounts, host>>
  BY <1>4 DEF HostTyped, host
<1>5. CASE \/ Invoke \/ Interrupt \/ GiveUp \/ cfg_preread_commandline \/ ReadNothing
           \/ cfg_read_file \/ cfg_read_argv \/ cmd_initdb \/ Agree \/ Decline
           \/ UnlinkDatabase \/ user_set_eugid \/ OpenDatabase \/ CreateData
  BY <1>4, <1>5 DEF Invoke, Interrupt, GiveUp, cfg_preread_commandline, ReadNothing,
     cfg_read_file, cfg_read_argv, cmd_initdb, Agree, Decline, UnlinkDatabase,
     user_set_eugid, OpenDatabase, CreateData, Failed, Stay, disk
<1>6. CASE \/ CreateBounds \/ user_restore_eugid \/ cmd_writeconfig \/ AgreeConfig
           \/ cmd_testdbperf \/ Insert \/ InsertCreates \/ database_delete
           \/ DeleteFails \/ Finish \/ cfg_check \/ predaemon_initialize
  BY <1>4, <1>6 DEF CreateBounds, user_restore_eugid, cmd_writeconfig, AgreeConfig,
     cmd_testdbperf, Insert, InsertCreates, database_delete, DeleteFails, Finish,
     cfg_check, predaemon_initialize, Failed, Stay, disk
<1>7. CASE \/ ImportEvent \/ user_changeto \/ UnknownUser \/ ChangeRefused
           \/ capability_set \/ CapabilityFails \/ Run \/ Locked \/ DaemonEnds
           \/ StoreRow \/ StoreCreates \/ UNCHANGED vars
  BY <1>4, <1>7 DEF ImportEvent, user_changeto, UnknownUser, ChangeRefused,
     capability_set, CapabilityFails, Run, Locked, DaemonEnds, StoreRow, StoreCreates,
     Failed, Stay, disk, vars
<1>8. QED
  BY <1>1, <1>2, <1>3, <1>5, <1>6, <1>7 DEF Next

LEMMA RequestTypedStep ==
  HostTyped /\ RequestTyped /\ [Next]_vars => RequestTyped'
<1> SUFFICES ASSUME HostTyped, RequestTyped, [Next]_vars PROVE RequestTyped'
  OBVIOUS
<1> USE DEF RequestTyped
<1>1. CASE End
  BY <1>1, PreparationAssumption DEF End, NoArguments, Argv, Tmpfs
<1>2. CASE cfg_read_file /\ ~End
  BY <1>2 DEF cfg_read_file, HostTyped, Config, Failed, Fail, work, Go
<1>3. CASE cfg_read_argv /\ ~End
  BY <1>3 DEF cfg_read_argv, Argv, work, Go
<1>4. CASE cmd_testdbperf /\ ~End
  <2>1. argv.testdb \in Int
    BY PreparationAssumption DEF Argv
  <2>2. argv.testdb >= 0 /\ n' = argv.testdb /\ (pc' = "insert" => argv.testdb > 0)
        /\ UNCHANGED request
    BY <1>4, <2>1 DEF cmd_testdbperf, Failed, Fail, Go
  <2>3. QED
    BY <2>1, <2>2 DEF request
<1>5. CASE Insert
  BY <1>5 DEF Insert, request, Go
<1>6. CASE predaemon_initialize
  BY <1>6, PreparationAssumption DEF predaemon_initialize, request, Go
<1>7. CASE database_delete \/ DeleteFails
  BY <1>7 DEF database_delete, DeleteFails, Tested, work, Go, Tmpfs
<1>8. CASE Invoke
  BY <1>8 DEF Invoke, work, Go
<1>9. CASE UNCHANGED <<request, n>> /\ (pc' # "insert" \/ pc' = pc)
  BY <1>9 DEF request
<1>10. CASE \/ Interrupt \/ GiveUp \/ Decline \/ InsertCreates \/ ImportEvent
            \/ CapabilityFails \/ Locked \/ Run
  BY <1>1, <1>10 DEF Interrupt, GiveUp, Decline, InsertCreates, ImportEvent,
     CapabilityFails, Locked, Run, Failed, Fail
<1>11. CASE (\/ cfg_preread_commandline \/ ReadNothing \/ cmd_initdb \/ Agree
             \/ UnlinkDatabase \/ user_set_eugid \/ OpenDatabase \/ CreateData
             \/ CreateBounds \/ user_restore_eugid \/ cmd_writeconfig \/ AgreeConfig
             \/ UnlinkConfig \/ cfg_writefile) /\ ~End
  BY <1>9, <1>11 DEF cfg_preread_commandline, ReadNothing, cmd_initdb, Agree,
     UnlinkDatabase, user_set_eugid, OpenDatabase, CreateData, CreateBounds,
     user_restore_eugid, cmd_writeconfig, AgreeConfig, UnlinkConfig, cfg_writefile,
     Failed, Fail, Stay, Go, work
<1>12. CASE (\/ Finish \/ cfg_check \/ tmpfs_mount \/ user_changeto \/ UnknownUser
             \/ ChangeRefused \/ capability_set) /\ ~End
  BY <1>9, <1>12 DEF Finish, cfg_check, tmpfs_mount, user_changeto, UnknownUser,
     ChangeRefused, capability_set, Failed, Fail, Stay, Go, work
<1>13. CASE DaemonEnds \/ StoreRow \/ StoreCreates \/ UNCHANGED vars
  BY <1>9, <1>13 DEF DaemonEnds, StoreRow, StoreCreates, vars, process, work
<1>14. QED
  BY <1>1, <1>2, <1>3, <1>4, <1>5, <1>6, <1>7, <1>8, <1>10, <1>11, <1>12, <1>13 DEF Next

LEMMA HistoryStep == HistoryTyped /\ RequestTyped /\ [Next]_vars => HistoryTyped'
<1> SUFFICES ASSUME HistoryTyped, RequestTyped, [Next]_vars PROVE HistoryTyped'
  OBVIOUS
<1> USE DEF HistoryTyped, history
<1>1. CASE Finish
  BY <1>1 DEF Finish, RequestTyped, Argv, End, Stay
<1>2. CASE Fail
  BY <1>2 DEF Fail, End
<1>3. CASE Invoke \/ Agree \/ ChangeRefused
  BY <1>3 DEF Invoke, Agree, ChangeRefused
<1>4. CASE Run
  BY <1>4 DEF Run, End
<1>5. CASE \/ Interrupt \/ GiveUp \/ Decline \/ InsertCreates \/ ImportEvent
           \/ CapabilityFails \/ Locked
  BY <1>2, <1>5 DEF Interrupt, GiveUp, Decline, InsertCreates, ImportEvent,
     CapabilityFails, Locked, Failed
<1>6. CASE (\/ cfg_preread_commandline \/ ReadNothing \/ cfg_read_file \/ cfg_read_argv
            \/ cmd_initdb \/ UnlinkDatabase \/ user_set_eugid \/ OpenDatabase
            \/ CreateData \/ CreateBounds \/ user_restore_eugid) /\ ~Fail
  BY <1>6 DEF cfg_preread_commandline, ReadNothing, cfg_read_file, cfg_read_argv,
     cmd_initdb, UnlinkDatabase, user_set_eugid, OpenDatabase, CreateData,
     CreateBounds, user_restore_eugid, Failed, Stay
<1>7. CASE (\/ cmd_writeconfig \/ AgreeConfig \/ UnlinkConfig \/ cfg_writefile
            \/ cmd_testdbperf \/ Insert \/ database_delete \/ DeleteFails) /\ ~Fail
  BY <1>7 DEF cmd_writeconfig, AgreeConfig, UnlinkConfig, cfg_writefile,
     cmd_testdbperf, Insert, database_delete, DeleteFails, Failed, Stay
<1>8. CASE (\/ cfg_check \/ predaemon_initialize \/ tmpfs_mount \/ user_changeto
            \/ UnknownUser \/ capability_set \/ DaemonEnds \/ StoreRow
            \/ StoreCreates \/ UNCHANGED vars) /\ ~Fail
  BY <1>8 DEF cfg_check, predaemon_initialize, tmpfs_mount, user_changeto, UnknownUser,
     capability_set, DaemonEnds, StoreRow, StoreCreates, Failed, Stay, vars, process
<1>9. QED
  BY <1>1, <1>2, <1>3, <1>4, <1>5, <1>6, <1>7, <1>8 DEF Next

LEMMA CapsStep ==
  IdentityInv /\ HostTyped /\ HistoryTyped /\ CapsTyped /\ [Next]_vars => CapsTyped'
<1> SUFFICES ASSUME IdentityInv, HostTyped, HistoryTyped, CapsTyped, [Next]_vars
             PROVE  CapsTyped'
  OBVIOUS
<1> USE DEF CapsTyped
<1>1. CASE End /\ UNCHANGED running
  BY <1>1 DEF End
<1>2. CASE user_set_eugid \/ user_restore_eugid \/ user_changeto
  BY <1>2 DEF user_set_eugid, user_restore_eugid, user_changeto, EffectiveFor
<1>3. CASE capability_set /\ ~End
  BY <1>3 DEF capability_set, Failed, Fail
<1>4. CASE Run
  <2>1. (known /\ ~refused) \in BOOLEAN
    BY DEF HostTyped, HistoryTyped
  <2>2. uid \in Ids /\ gid \in Ids /\ effective \in SUBSET Caps
    BY DEF IdentityInv
  <2>3. running' \in [uid: Ids, gid: Ids, caps: SUBSET Caps, changed: BOOLEAN]
    BY <1>4, <2>1, <2>2 DEF Run
  <2>4. permitted' = Caps /\ effective' = Caps
    BY <1>4 DEF Run, End
  <2>5. QED
    BY <2>3, <2>4
<1>5. CASE DaemonEnds
  BY <1>5 DEF DaemonEnds, process, ids
<1>6. CASE UNCHANGED <<running, permitted, effective>>
  BY <1>6
<1>7. CASE \/ Interrupt \/ GiveUp \/ Decline \/ InsertCreates \/ ImportEvent
           \/ CapabilityFails \/ Locked
  BY <1>1, <1>7 DEF Interrupt, GiveUp, Decline, InsertCreates, ImportEvent,
     CapabilityFails, Locked, Failed, Fail
<1>8. CASE \/ Invoke \/ cfg_preread_commandline \/ ReadNothing \/ cfg_read_file
           \/ cfg_read_argv \/ cmd_initdb \/ Agree \/ UnlinkDatabase \/ OpenDatabase
           \/ CreateData \/ CreateBounds
  BY <1>1, <1>6, <1>8 DEF Invoke, cfg_preread_commandline, ReadNothing, cfg_read_file,
     cfg_read_argv, cmd_initdb, Agree, UnlinkDatabase, OpenDatabase, CreateData,
     CreateBounds, Failed, Fail, Stay, ids
<1>9. CASE \/ cmd_writeconfig \/ AgreeConfig \/ UnlinkConfig \/ cfg_writefile
           \/ cmd_testdbperf \/ Insert \/ database_delete \/ DeleteFails \/ Finish
  BY <1>1, <1>6, <1>9 DEF cmd_writeconfig, AgreeConfig, UnlinkConfig, cfg_writefile,
     cmd_testdbperf, Insert, database_delete, DeleteFails, Finish, Failed, Fail, Stay,
     ids
<1>10. CASE \/ cfg_check \/ predaemon_initialize \/ tmpfs_mount \/ UnknownUser
            \/ ChangeRefused \/ StoreRow \/ StoreCreates \/ UNCHANGED vars
  BY <1>6, <1>10 DEF cfg_check, predaemon_initialize, tmpfs_mount, UnknownUser,
     ChangeRefused, StoreRow, StoreCreates, Stay, ids, process, vars
<1>11. QED
  BY <1>1, <1>2, <1>3, <1>4, <1>5, <1>7, <1>8, <1>9, <1>10 DEF Next, capability_set,
     Failed, Fail

\* Every variable keeps its range, for any number of samples, tests and mounts.
THEOREM TypeCorrect == Spec => []TypeOK
<1> DEFINE Typed == HostTyped /\ RequestTyped /\ HistoryTyped /\ CapsTyped
<1>1. Init => Typed
  <2> SUFFICES ASSUME Init PROVE Typed
    OBVIOUS
  <2>1. HostTyped
    <3>1. config \in {Absent} \cup Config
      <4>1. ASSUME config # Absent
            PROVE  /\ config = [valid |-> config.valid, ramdisk |-> config.ramdisk]
                   /\ config.valid \in BOOLEAN
                   /\ config.ramdisk \in Tmpfs \cup {"unset"}
        BY <4>1 DEF Init, Tmpfs
      <4>2. QED
        BY <4>1 DEF Config
    <3>2. QED
      BY <3>1, PreparationAssumption DEF Init, HostTyped
  <2>2. RequestTyped
    BY PreparationAssumption DEF Init, RequestTyped, NoArguments, Argv, Tmpfs
  <2>3. HistoryTyped /\ CapsTyped
    BY DEF Init, HistoryTyped, CapsTyped
  <2>4. QED
    BY <2>1, <2>2, <2>3
<1>2. IdentityInv /\ Typed /\ [Next]_vars => Typed'
  BY HostStep, RequestTypedStep, HistoryStep, CapsStep
<1>3. IdentityInv /\ FileInv /\ Typed => TypeOK
  BY DEF IdentityInv, Rooted, AsRoot, AsUser, Changed, FileInv, FileTyped, HostTyped,
         RequestTyped, HistoryTyped, CapsTyped, TypeOK
<1>4. Spec => []FileInv
  BY IdentityInvariant, InitFiles, FileInvStep, PTL DEF Spec
<1>5. QED
  BY <1>1, <1>2, <1>3, <1>4, IdentityInvariant, PTL DEF Spec

=============================================================================
