-------------------------- MODULE ConfigReloadProofs --------------------------
(***************************************************************************)
(* Proofs about the configuration, for any strings, files, command lines   *)
(* and memory.                                                             *)
(***************************************************************************)
EXTENDS ConfigReload, TLAPS

-----------------------------------------------------------------------------
(***************************************************************************)
(* Start-up.  main() reads into a copy of a configuration that has only    *)
(* the default hosts, so that the copy's strings are fresh but for those;  *)
(* the commit frees the defaults unless they are in use, and cfg_free()    *)
(* frees nothing.                                                          *)
(***************************************************************************)
FileHosts == IF accepted.pinghosts = "unset" THEN DefaultHosts
             ELSE accepted.pinghosts
Wanted(c) == /\ Content(c.pinghosts) = WantedHosts
             /\ Content(c.liststring) = WantedSchedule
DefaultsOnly == /\ cfg.liststring = Null
                /\ cfg.pinghosts \in Buffers
                /\ mem[cfg.pinghosts] = DefaultHosts

StartUpInv ==
  n_reloads = 0 =>
    /\ reloading = FALSE
    /\ read = accepted
    /\ pc # "idle" => file = accepted
    /\ pc \in {"read", "argv", "commit_hosts", "commit_list", "free_list",
               "free_hosts", "check", "predaemon", "apply", "idle", "exited"}
    /\ pc \in {"read", "argv", "commit_hosts"} => DefaultsOnly
    /\ pc = "read" => newcfg = cfg
    /\ pc = "argv" => /\ Content(newcfg.pinghosts) = FileHosts
                      /\ Content(newcfg.liststring) = WantedSchedule
    /\ pc \in {"commit_hosts", "commit_list"} => Wanted(newcfg)
    /\ pc \in {"argv", "commit_hosts"} => newcfg.liststring # cfg.pinghosts
    /\ pc = "commit_list" => cfg.liststring = Null
    /\ pc \in {"free_list", "free_hosts"} => cfg = newcfg
    /\ pc \in {"free_list", "free_hosts", "check", "predaemon", "apply", "idle"}
         => Wanted(cfg)
    /\ pc \in {"read", "argv", "commit_hosts", "commit_list", "free_list",
               "free_hosts", "check"} => g_parsed = Null
    /\ pc \in {"predaemon", "apply"} => g_parsed = WantedSchedule
    /\ pc \in {"apply", "idle"} => cfg.tmpfs = "FALSE"
    /\ pc = "idle" => schedule = WantedSchedule

(***************************************************************************)
(* Plain values: the copy is on its way from the defaults over the file to *)
(* the command line, cfg is as it was accepted.                            *)
(***************************************************************************)
WantedOf(f) == IF argv.ramdisk # "unset" THEN argv.ramdisk
               ELSE IF f.ramdisk = "unset" THEN "AUTO" ELSE f.ramdisk
ValuesInv ==
  /\ pc = "read" => newcfg.tmpfs = "AUTO"
  /\ pc = "argv" => newcfg.tmpfs = IF read.ramdisk = "unset" THEN "AUTO"
                                   ELSE read.ramdisk
  /\ (pc \in {"commit_hosts", "commit_list"} \/ (pc = "check" /\ reloading))
       => newcfg.tmpfs = WantedOf(read)
  /\ (reloading \/ pc \in {"free_list", "free_hosts", "check", "predaemon", "apply", "idle"})
       => \/ cfg.tmpfs = WantedOf(accepted)
          \/ cfg.tmpfs = "FALSE" /\ WantedOf(accepted) = "AUTO"
  /\ pc = "init_list" => newcfg.tmpfs = "AUTO"
  /\ pc \in {"init_hosts", "init_list"} => reloading
  /\ pc = "predaemon" => ~reloading

-----------------------------------------------------------------------------
LEMMA FileTypes ==
  ASSUME NEW f \in Files
  PROVE  /\ f.pinghosts \in Hosts \cup {Null, "unset"}
         /\ f.schedule \in Lists \cup BadStrings \cup {Null, "unset"}
         /\ f.ramdisk \in Tmpfs \cup {"unset"}
         /\ f.errors \in BOOLEAN
<1>1. f \in File
  BY ConfigAssumption
<1>2. QED
  BY <1>1 DEF File

LEMMA ArgvTypes ==
  ASSUME argv \in Argvs
  PROVE  /\ argv.hosts \in Hosts \cup {"unset"}
         /\ argv.ramdisk \in Tmpfs \cup {"unset"}
<1>1. argv \in Argv
  BY ConfigAssumption
<1>2. QED
  BY <1>1 DEF Argv

\* free() leaves memory that is well typed.
LEMMA FreedType ==
  ASSUME TypeOK, NEW b
  PROVE  FreedOf(b) \in [Buffers -> Strings \cup {Freed}]
BY DEF TypeOK, FreedOf

LEMMA InitTypes == Init => TypeOK
<1> SUFFICES ASSUME Init PROVE TypeOK
  OBVIOUS
<1>1. PICK b \in Buffers :
        /\ mem = [a \in Buffers |-> IF a = b THEN DefaultHosts ELSE Freed]
        /\ cfg = [tmpfs |-> "AUTO", pinghosts |-> b, liststring |-> Null]
  BY DEF Init
<1>2. mem \in [Buffers -> Strings \cup {Freed}]
  BY <1>1 DEF Strings
<1>3. cfg \in Config /\ newcfg \in Config
  BY <1>1 DEF Init, Config, Tmpfs
<1>4. n_reloads \in 0..MaxReloads
  BY ConfigAssumption DEF Init
<1>5. QED
  BY <1>2, <1>3, <1>4 DEF Init, TypeOK

LEMMA NextTypes == TypeOK /\ [Next]_vars => TypeOK'
<1> SUFFICES ASSUME TypeOK, [Next]_vars PROVE TypeOK'
  OBVIOUS
<1> USE DEF env, sched, history
<1>1. CASE EditFile
  BY <1>1 DEF EditFile, TypeOK
<1>2. CASE Hangup
  <2>1. n_reloads' \in 0..MaxReloads
    BY <1>2, ConfigAssumption DEF Hangup, TypeOK
  <2>2. QED
    BY <1>2, <2>1 DEF Hangup, TypeOK
<1>3. CASE InitHosts
  <2>1. PICK b \in Unused \cup ({newcfg.pinghosts} \ {Null}) :
          /\ mem' = [FreedOf(newcfg.pinghosts) EXCEPT ![b] = DefaultHosts]
          /\ newcfg' = [newcfg EXCEPT !.tmpfs = "AUTO", !.pinghosts = b]
    BY <1>3 DEF InitHosts
  <2>2. b \in Buffers
    BY <2>1 DEF Unused, TypeOK, Config
  <2>3. mem' \in [Buffers -> Strings \cup {Freed}]
    BY <2>1, FreedType DEF Strings
  <2>4. newcfg' \in Config
    BY <2>1, <2>2 DEF TypeOK, Config, Tmpfs
  <2>5. QED
    BY <1>3, <2>3, <2>4 DEF InitHosts, TypeOK
<1>4. CASE InitList
  <2>1. mem' \in [Buffers -> Strings \cup {Freed}]
    BY <1>4, FreedType DEF InitList
  <2>2. newcfg' \in Config
    BY <1>4 DEF InitList, TypeOK, Config
  <2>3. QED
    BY <1>4, <2>1, <2>2 DEF InitList, TypeOK
<1>5. CASE ReadFile
  <2>1. PICK h \in Needed(file.pinghosts), l \in Needed(file.schedule) :
          /\ mem' = [b \in Buffers |-> CASE b = h -> file.pinghosts
                                         [] b = l -> file.schedule
                                         [] OTHER -> mem[b]]
          /\ newcfg' = [tmpfs |-> IF file.ramdisk = "unset" THEN newcfg.tmpfs
                                  ELSE file.ramdisk,
                        pinghosts |-> Stored(file.pinghosts, newcfg.pinghosts, h),
                        liststring |-> Stored(file.schedule, newcfg.liststring, l)]
    BY <1>5 DEF ReadFile
  <2>2. file \in Files
    BY DEF TypeOK
  <2>3. /\ h \in Buffers => file.pinghosts \in Hosts
        /\ l \in Buffers => file.schedule \in Lists \cup BadStrings
        /\ h \in Buffers \cup {Null} /\ l \in Buffers \cup {Null}
    BY <2>1, <2>2, FileTypes, ConfigAssumption DEF Needed, Unused
  <2>4. mem' \in [Buffers -> Strings \cup {Freed}]
    BY <2>1, <2>3 DEF Strings, TypeOK
  <2>5. newcfg'.tmpfs \in Tmpfs /\ newcfg' \in Config
    BY <2>1, <2>2, <2>3, FileTypes DEF Stored, TypeOK, Config
  <2>6. pc' \in {"argv", "free_list", "exited"}
    BY <1>5 DEF ReadFile
  <2>7. QED
    BY <1>5, <2>2, <2>4, <2>5, <2>6 DEF ReadFile, TypeOK
<1>6. CASE ReadArgv
  <2>1. PICK h \in Needed(argv.hosts) :
          /\ mem' = [b \in Buffers |-> IF b = h THEN argv.hosts ELSE mem[b]]
          /\ newcfg' = [newcfg EXCEPT
               !.tmpfs = IF argv.ramdisk = "unset" THEN @ ELSE argv.ramdisk,
               !.pinghosts = Stored(argv.hosts, newcfg.pinghosts, h)]
    BY <1>6 DEF ReadArgv
  <2>2. /\ h \in Buffers => argv.hosts \in Hosts
        /\ h \in Buffers \cup {Null}
    BY <2>1, ArgvTypes, ConfigAssumption DEF Needed, Unused, TypeOK
  <2>3. mem' \in [Buffers -> Strings \cup {Freed}]
    BY <2>1, <2>2 DEF Strings, TypeOK
  <2>4. newcfg' \in Config
    BY <2>1, <2>2, ArgvTypes DEF Stored, TypeOK, Config
  <2>5. QED
    BY <1>6, <2>3, <2>4 DEF ReadArgv, TypeOK
<1>7. CASE CommitHosts
  BY <1>7, FreedType DEF CommitHosts, TypeOK
<1>8. CASE CommitList
  BY <1>8, FreedType DEF CommitList, TypeOK
<1>9. CASE FreeList
  BY <1>9, FreedType DEF FreeList, TypeOK
<1>10. CASE FreeHosts
  <2>1. pc' \in {"check", "apply", "idle"}
    BY <1>10, FileTypes DEF FreeHosts, TypeOK
  <2>2. QED
    BY <1>10, <2>1, FreedType DEF FreeHosts, TypeOK
<1>11. CASE CheckFails
  BY <1>11 DEF CheckFails, TypeOK
<1>12. CASE CheckEvents
  <2>1. EventString \subseteq Strings \cup {Null}
    BY DEF EventString, Live, Unused, Content, TypeOK
  <2>2. g_parsed' \in Strings \cup {Null}
    BY <1>12, <2>1 DEF CheckEvents, TypeOK
  <2>3. pc' \in {"commit_hosts", "predaemon", "idle", "exited"}
    BY <1>12 DEF CheckEvents
  <2>4. QED
    BY <1>12, <2>2, <2>3 DEF CheckEvents, TypeOK
<1>13. CASE Apply
  BY <1>13 DEF Apply, TypeOK
<1>14. CASE Predaemon
  BY <1>14 DEF Predaemon, TypeOK, Config, Tmpfs
<1>15. CASE PredaemonTmpfs
  BY <1>15 DEF PredaemonTmpfs, TypeOK, Config, Tmpfs
<1>16. CASE FreeTwice
  BY <1>16 DEF FreeTwice, TypeOK
<1>17. CASE UNCHANGED vars
  BY <1>17 DEF vars, TypeOK
<1>18. QED
  BY <1>1, <1>2, <1>3, <1>4, <1>5, <1>6, <1>7, <1>8, <1>9, <1>10, <1>11, <1>12,
     <1>13, <1>14, <1>15, <1>16, <1>17 DEF Next

\* Every variable keeps its range whatever memory malloc() returns.
THEOREM TypeCorrect == Spec => []TypeOK
BY InitTypes, NextTypes, PTL DEF Spec

-----------------------------------------------------------------------------
LEMMA InitValues == Init => ValuesInv
<1> SUFFICES ASSUME Init PROVE ValuesInv
  OBVIOUS
<1>1. newcfg.tmpfs = "AUTO" /\ pc = "read" /\ reloading = FALSE
  BY DEF Init
<1>2. QED
  BY <1>1 DEF ValuesInv

LEMMA NextValues == TypeOK /\ ValuesInv /\ [Next]_vars => ValuesInv'
<1> SUFFICES ASSUME TypeOK, ValuesInv, [Next]_vars PROVE ValuesInv'
  OBVIOUS
<1> USE DEF env, sched, history, ValuesInv, WantedOf
<1>1. CASE EditFile
  BY <1>1 DEF EditFile
<1>2. CASE Hangup
  BY <1>2 DEF Hangup
<1>3. CASE InitHosts
  <2>1. PICK b : newcfg' = [newcfg EXCEPT !.tmpfs = "AUTO", !.pinghosts = b]
    BY <1>3 DEF InitHosts
  <2>2. newcfg'.tmpfs = "AUTO"
    BY <2>1 DEF TypeOK, Config
  <2>3. QED
    BY <1>3, <2>2 DEF InitHosts
<1>4. CASE InitList
  <2>1. newcfg'.tmpfs = "AUTO"
    BY <1>4 DEF InitList, TypeOK, Config
  <2>2. QED
    BY <1>4, <2>1 DEF InitList
<1>5. CASE ReadFile
  <2>1. newcfg'.tmpfs = IF file.ramdisk = "unset" THEN newcfg.tmpfs
                        ELSE file.ramdisk
    BY <1>5 DEF ReadFile
  <2>2. pc = "read" /\ read' = file /\ UNCHANGED <<argv, cfg, reloading, accepted>>
    BY <1>5 DEF ReadFile
  <2>3. pc' \in {"argv", "free_list", "exited"} /\ (pc' = "free_list" => reloading)
    BY <1>5 DEF ReadFile
  <2>4. QED
    BY <2>1, <2>2, <2>3
<1>6. CASE ReadArgv
  <2>1. PICK h : newcfg' = [newcfg EXCEPT
               !.tmpfs = IF argv.ramdisk = "unset" THEN @ ELSE argv.ramdisk,
               !.pinghosts = Stored(argv.hosts, newcfg.pinghosts, h)]
    BY <1>6 DEF ReadArgv
  <2>2. newcfg'.tmpfs = IF argv.ramdisk = "unset" THEN newcfg.tmpfs
                        ELSE argv.ramdisk
    BY <2>1 DEF TypeOK, Config
  <2>3. pc = "argv" /\ UNCHANGED <<argv, cfg, reloading, read, accepted>>
    BY <1>6 DEF ReadArgv
  <2>4. pc' \in {"check", "commit_hosts"} /\ (pc' = "check" => reloading)
    BY <1>6 DEF ReadArgv
  <2>5. QED
    BY <2>2, <2>3, <2>4
<1>7. CASE CommitHosts
  BY <1>7 DEF CommitHosts
<1>8. CASE CommitList
  BY <1>8 DEF CommitList
<1>9. CASE FreeList
  BY <1>9 DEF FreeList
<1>10. CASE FreeHosts
  <2>1. /\ pc' \in {"check", "apply", "idle"} /\ (pc' = "check" => ~reloading)
        /\ pc = "free_hosts" /\ UNCHANGED <<argv, cfg, newcfg, reloading, read, accepted>>
    BY <1>10, FileTypes DEF FreeHosts, TypeOK
  <2>2. QED
    BY <2>1
<1>11. CASE CheckFails
  BY <1>11 DEF CheckFails
<1>12. CASE CheckEvents
  <2>1. /\ pc = "check"
        /\ UNCHANGED <<argv, cfg, newcfg, reloading, read, accepted>>
        /\ pc' \in IF reloading THEN {"commit_hosts", "idle"}
                   ELSE {"predaemon", "exited"}
    BY <1>12 DEF CheckEvents
  <2>2. QED
    BY <2>1
<1>13. CASE Apply
  BY <1>13 DEF Apply
<1>14. CASE Predaemon
  <2>1. cfg'.tmpfs = "FALSE"
    BY <1>14 DEF Predaemon, TypeOK, Config
  <2>2. QED
    BY <1>14, <2>1 DEF Predaemon
<1>15. CASE PredaemonTmpfs
  BY <1>15 DEF PredaemonTmpfs
<1>16. CASE FreeTwice
  BY <1>16 DEF FreeTwice
<1>17. CASE UNCHANGED vars
  BY <1>17 DEF vars
<1>18. QED
  BY <1>1, <1>2, <1>3, <1>4, <1>5, <1>6, <1>7, <1>8, <1>9, <1>10, <1>11, <1>12,
     <1>13, <1>14, <1>15, <1>16, <1>17 DEF Next

\* Whatever was rejected in between, the plain values in use are those of the
\* file accepted last, under the command line.
THEOREM AcceptedValues == Spec => []ValuesOfAcceptedFile
<1>1. ValuesInv => ValuesOfAcceptedFile
  BY DEF ValuesInv, ValuesOfAcceptedFile, WantedOf, WantedTmpfs
<1>2. QED
  BY <1>1, InitTypes, NextTypes, InitValues, NextValues, PTL DEF Spec

-----------------------------------------------------------------------------
\* What is wanted is never the mark of freed memory.
LEMMA WantedTypes ==
  ASSUME TypeOK
  PROVE  /\ WantedSchedule # Freed /\ WantedHosts # Freed /\ FileHosts # Freed
         /\ DefaultHosts # Freed /\ DefaultHosts # Null
         /\ WantedSchedule \in Lists \cup BadStrings \cup {Null}
<1>1. accepted \in Files /\ argv \in Argvs
  BY DEF TypeOK
<1>2. WantedSchedule \in Lists \cup BadStrings \cup {Null}
  BY <1>1, FileTypes DEF WantedSchedule
<1>3. FileHosts \in Hosts \cup {DefaultHosts, Null}
  BY <1>1, FileTypes DEF FileHosts
<1>4. WantedHosts \in Hosts \cup {DefaultHosts, Null}
  BY <1>1, <1>3, ArgvTypes DEF WantedHosts, FileHosts
<1>5. QED
  BY <1>2, <1>3, <1>4, ConfigAssumption DEF Strings

LEMMA InitStartUp == Init => StartUpInv
<1> SUFFICES ASSUME Init PROVE StartUpInv
  OBVIOUS
<1>1. PICK b \in Buffers :
        /\ mem = [a \in Buffers |-> IF a = b THEN DefaultHosts ELSE Freed]
        /\ cfg = [tmpfs |-> "AUTO", pinghosts |-> b, liststring |-> Null]
  BY DEF Init
<1>2. DefaultsOnly
  BY <1>1 DEF DefaultsOnly
<1>3. QED
  BY <1>2 DEF Init, StartUpInv

\* Reading stores into memory that was free, so the defaults stay what they are.
LEMMA ReadFileStartUp ==
  ASSUME TypeOK, StartUpInv, ReadFile, n_reloads = 0
  PROVE  StartUpInv'
<1>1. PICK h \in Needed(file.pinghosts), l \in Needed(file.schedule) :
        /\ h = l => h = Null
        /\ mem' = [b \in Buffers |-> CASE b = h -> file.pinghosts
                                       [] b = l -> file.schedule
                                       [] OTHER -> mem[b]]
        /\ newcfg' = [tmpfs |-> IF file.ramdisk = "unset" THEN newcfg.tmpfs
                                ELSE file.ramdisk,
                      pinghosts |-> Stored(file.pinghosts, newcfg.pinghosts, h),
                      liststring |-> Stored(file.schedule, newcfg.liststring, l)]
  BY DEF ReadFile
<1>2. /\ pc = "read" /\ read' = file /\ reloading = FALSE /\ file = accepted
      /\ DefaultsOnly /\ newcfg = cfg /\ g_parsed = Null
      /\ UNCHANGED <<file, argv, cfg, reloading, g_parsed, schedule, accepted, n_reloads>>
  BY DEF ReadFile, StartUpInv, env, sched
<1>3. pc' \in {"argv", "exited"}
  BY <1>2 DEF ReadFile
<1>4. /\ h \in {Null} \cup Unused /\ l \in {Null} \cup Unused
      /\ file.pinghosts \notin {Null, "unset"} => h \in Unused
      /\ file.schedule \notin {Null, "unset"} => l \in Unused
  BY <1>1 DEF Needed
<1>5. cfg.pinghosts # h /\ cfg.pinghosts # l
  BY <1>2, <1>4, WantedTypes, ConfigAssumption DEF DefaultsOnly, Unused
<1>6. mem'[cfg.pinghosts] = DefaultHosts
  BY <1>1, <1>2, <1>5 DEF DefaultsOnly
<1>7. DefaultsOnly'
  BY <1>2, <1>6 DEF DefaultsOnly
<1>8. /\ newcfg'.pinghosts = Stored(file.pinghosts, cfg.pinghosts, h)
      /\ newcfg'.liststring = Stored(file.schedule, Null, l)
  BY <1>1, <1>2 DEF DefaultsOnly
<1>9. /\ h \in Unused => h # Null /\ mem'[h] = file.pinghosts
      /\ l \in Unused => l # Null /\ mem'[l] = file.schedule
  BY <1>1, ConfigAssumption DEF Unused
<1>10. (Content(newcfg.pinghosts))' = FileHosts'
  BY <1>2, <1>4, <1>6, <1>8, <1>9, ConfigAssumption
  DEF Content, Stored, FileHosts, DefaultsOnly
<1>11. (Content(newcfg.liststring))' = WantedSchedule'
  BY <1>2, <1>4, <1>8, <1>9 DEF Content, Stored, WantedSchedule
<1>12. newcfg'.liststring # cfg'.pinghosts
  BY <1>2, <1>5, <1>8, ConfigAssumption DEF Stored, DefaultsOnly
<1>13. QED
  BY <1>2, <1>3, <1>7, <1>10, <1>11, <1>12 DEF StartUpInv

LEMMA ReadArgvStartUp ==
  ASSUME TypeOK, StartUpInv, ReadArgv, n_reloads = 0
  PROVE  StartUpInv'
<1>1. PICK h \in Needed(argv.hosts) :
        /\ mem' = [b \in Buffers |-> IF b = h THEN argv.hosts ELSE mem[b]]
        /\ newcfg' = [newcfg EXCEPT
             !.tmpfs = IF argv.ramdisk = "unset" THEN @ ELSE argv.ramdisk,
             !.pinghosts = Stored(argv.hosts, newcfg.pinghosts, h)]
  BY DEF ReadArgv
<1>2. /\ pc = "argv" /\ reloading = FALSE /\ read = accepted /\ file = accepted
      /\ DefaultsOnly /\ g_parsed = Null
      /\ Content(newcfg.pinghosts) = FileHosts
      /\ Content(newcfg.liststring) = WantedSchedule
      /\ newcfg.liststring # cfg.pinghosts
      /\ UNCHANGED <<file, argv, cfg, reloading, g_parsed, schedule, read,
                     accepted, n_reloads>>
  BY DEF ReadArgv, StartUpInv, env, sched, history
<1>3. pc' = "commit_hosts"
  BY <1>2 DEF ReadArgv
<1>4. /\ newcfg'.pinghosts = Stored(argv.hosts, newcfg.pinghosts, h)
      /\ newcfg'.liststring = newcfg.liststring
  BY <1>1 DEF TypeOK, Config
<1>5. /\ newcfg.pinghosts \in Buffers \cup {Null}
      /\ newcfg.liststring \in Buffers \cup {Null}
  BY DEF TypeOK, Config
<1>6. h \in Unused \cup {Null} /\ (argv.hosts \notin {Null, "unset"} => h \in Unused)
  BY <1>1 DEF Needed
<1>7. argv.hosts # "unset" => argv.hosts # Null
  BY ArgvTypes, ConfigAssumption DEF TypeOK, Strings
<1>8. \A b \in Buffers : mem[b] # Freed => mem'[b] = mem[b]
  BY <1>1, <1>6, ConfigAssumption DEF Unused
<1>9. DefaultsOnly'
  BY <1>2, <1>8, WantedTypes DEF DefaultsOnly
<1>10. (Content(newcfg.liststring))' = WantedSchedule'
  BY <1>2, <1>4, <1>5, <1>8, WantedTypes DEF Content, WantedSchedule
<1>11. (Content(newcfg.pinghosts))' = WantedHosts'
  <2>1. CASE argv.hosts = "unset"
    <3>1. WantedHosts' = FileHosts
      BY <1>2, <2>1 DEF WantedHosts, FileHosts
    <3>2. QED
      BY <1>2, <1>4, <1>5, <1>8, <2>1, <3>1, WantedTypes DEF Content, Stored
  <2>2. CASE argv.hosts # "unset"
    <3>1. h \in Buffers /\ h # Null /\ mem'[h] = argv.hosts
      BY <1>1, <1>6, <1>7, <2>2, ConfigAssumption DEF Unused
    <3>2. QED
      BY <1>2, <1>4, <1>7, <2>2, <3>1 DEF Content, Stored, WantedHosts
  <2>3. QED
    BY <2>1, <2>2
<1>12. QED
  BY <1>2, <1>3, <1>4, <1>9, <1>10, <1>11 DEF StartUpInv, Wanted

\* The commit frees the defaults only when the copy points to other hosts.
LEMMA CommitHostsStartUp ==
  ASSUME TypeOK, StartUpInv, CommitHosts, n_reloads = 0
  PROVE  StartUpInv'
<1>1. /\ pc = "commit_hosts" /\ pc' = "commit_list"
      /\ reloading = FALSE /\ read = accepted /\ file = accepted
      /\ DefaultsOnly /\ g_parsed = Null /\ Wanted(newcfg)
      /\ newcfg.liststring # cfg.pinghosts
      /\ UNCHANGED <<file, argv, cfg, newcfg, reloading, g_parsed, schedule, read,
                     accepted, n_reloads>>
  BY DEF CommitHosts, StartUpInv, env, sched, history
<1>2. \A b \in Buffers : b # cfg.pinghosts => mem'[b] = mem[b]
  BY DEF CommitHosts, FreedOf, TypeOK
<1>3. newcfg.pinghosts = cfg.pinghosts => mem' = mem
  BY DEF CommitHosts
<1>4. /\ newcfg.pinghosts \in Buffers \cup {Null}
      /\ newcfg.liststring \in Buffers \cup {Null}
  BY DEF TypeOK, Config
<1>5. /\ (Content(newcfg.pinghosts))' = Content(newcfg.pinghosts)
      /\ (Content(newcfg.liststring))' = Content(newcfg.liststring)
  BY <1>1, <1>2, <1>3, <1>4 DEF Content
<1>6. Wanted(newcfg)'
  BY <1>1, <1>5 DEF Wanted, WantedHosts, WantedSchedule
<1>7. QED
  BY <1>1, <1>6 DEF StartUpInv, DefaultsOnly

\* cfg_check() parses a string that is allocated.
LEMMA CheckEventsStartUp ==
  ASSUME TypeOK, StartUpInv, CheckEvents, n_reloads = 0
  PROVE  StartUpInv'
<1>1. /\ pc = "check" /\ reloading = FALSE /\ read = accepted /\ file = accepted
      /\ Wanted(cfg) /\ g_parsed = Null
      /\ UNCHANGED <<file, argv, mem, cfg, newcfg, reloading, schedule, read,
                     accepted, n_reloads>>
  BY DEF CheckEvents, StartUpInv, env, history
<1>2. Live(cfg.liststring)
  BY <1>1, WantedTypes DEF Wanted, Content, Live, Unused, TypeOK, Config
<1>3. EventString = {WantedSchedule}
  BY <1>1, <1>2 DEF EventString, Wanted
<1>4. g_parsed' = WantedSchedule /\ pc' \in {"predaemon", "exited"}
  BY <1>1, <1>3 DEF CheckEvents
<1>5. Wanted(cfg)'
  BY <1>1 DEF Wanted, Content, WantedHosts, WantedSchedule
<1>6. g_parsed' = WantedSchedule'
  BY <1>1, <1>4 DEF WantedSchedule
<1>7. QED
  BY <1>1, <1>4, <1>5, <1>6 DEF StartUpInv

LEMMA NextStartUp == TypeOK /\ StartUpInv /\ [Next]_vars => StartUpInv'
<1> SUFFICES ASSUME TypeOK, StartUpInv, [Next]_vars, n_reloads' = 0
             PROVE  StartUpInv'
  BY DEF StartUpInv
<1> USE DEF env, sched, history
<1>1. CASE Hangup
  BY <1>1 DEF Hangup, TypeOK
<1> SUFFICES ASSUME ~Hangup PROVE StartUpInv'
  BY <1>1
<1>2. n_reloads = 0
  <2>1. n_reloads' = n_reloads
    BY DEF Next, vars, EditFile, InitHosts, InitList, ReadFile, ReadArgv,
       CommitHosts, CommitList, FreeList, FreeHosts, CheckFails, CheckEvents,
       Apply, Predaemon, PredaemonTmpfs, FreeTwice
  <2>2. QED
    BY <2>1
<1>3. CASE EditFile
  <2>1. /\ pc = "idle" /\ pc' = pc
        /\ UNCHANGED <<argv, mem, cfg, newcfg, reloading, sched, history>>
    BY <1>3 DEF EditFile
  <2>2. Wanted(cfg)'
    BY <1>2, <2>1 DEF StartUpInv, Wanted, Content, WantedHosts, WantedSchedule
  <2>3. QED
    BY <1>2, <2>1, <2>2 DEF StartUpInv, WantedSchedule
<1>4. CASE InitHosts
  BY <1>2, <1>4 DEF InitHosts, StartUpInv
<1>5. CASE InitList
  BY <1>2, <1>5 DEF InitList, StartUpInv
<1>6. CASE ReadFile
  BY <1>2, <1>6, ReadFileStartUp
<1>7. CASE ReadArgv
  BY <1>2, <1>7, ReadArgvStartUp
<1>8. CASE CommitHosts
  BY <1>2, <1>8, CommitHostsStartUp
<1>9. CASE CommitList
  <2>1. /\ pc = "commit_list" /\ pc' = "free_list" /\ cfg' = newcfg
        /\ newcfg' = newcfg /\ mem' = mem /\ accepted' = accepted
        /\ read = accepted /\ Wanted(newcfg) /\ g_parsed = Null
        /\ reloading = FALSE /\ file = accepted
        /\ UNCHANGED <<file, argv, reloading, sched, read, n_reloads>>
    BY <1>2, <1>9 DEF CommitList, StartUpInv, FreedOf
  <2>2. Wanted(cfg)'
    BY <2>1 DEF Wanted, Content, WantedHosts, WantedSchedule
  <2>3. QED
    BY <2>1, <2>2 DEF StartUpInv
<1>10. CASE FreeList
  <2>1. /\ pc = "free_list" /\ pc' = "free_hosts" /\ cfg = newcfg
        /\ mem' = mem /\ Wanted(cfg) /\ g_parsed = Null
        /\ reloading = FALSE /\ read = accepted /\ file = accepted
        /\ UNCHANGED <<env, cfg, newcfg, reloading, sched, history>>
    BY <1>2, <1>10 DEF FreeList, StartUpInv
  <2>2. Wanted(cfg)'
    BY <2>1 DEF Wanted, Content, WantedHosts, WantedSchedule
  <2>3. QED
    BY <2>1, <2>2 DEF StartUpInv
<1>11. CASE FreeHosts
  <2>1. /\ pc = "free_hosts" /\ pc' = "check" /\ cfg = newcfg
        /\ mem' = mem /\ Wanted(cfg) /\ g_parsed = Null
        /\ reloading = FALSE /\ read = accepted /\ file = accepted
        /\ UNCHANGED <<env, cfg, newcfg, reloading, sched, history>>
    BY <1>2, <1>11 DEF FreeHosts, StartUpInv
  <2>2. Wanted(cfg)'
    BY <2>1 DEF Wanted, Content, WantedHosts, WantedSchedule
  <2>3. QED
    BY <2>1, <2>2 DEF StartUpInv
<1>12. CASE CheckFails
  <2>1. pc' = "exited" /\ pc = "check"
    BY <1>2, <1>12 DEF CheckFails, StartUpInv
  <2>2. QED
    BY <1>2, <1>12, <2>1 DEF CheckFails, StartUpInv
<1>13. CASE CheckEvents
  BY <1>2, <1>13, CheckEventsStartUp
<1>14. CASE Apply
  <2>1. /\ pc = "apply" /\ pc' = "idle" /\ schedule' = WantedSchedule
        /\ Wanted(cfg) /\ cfg.tmpfs = "FALSE"
        /\ reloading = FALSE /\ read = accepted
        /\ UNCHANGED <<env, mem, cfg, newcfg, reloading, history>>
    BY <1>2, <1>14 DEF Apply, StartUpInv
  <2>2. Wanted(cfg)' /\ WantedSchedule' = WantedSchedule
    BY <2>1 DEF Wanted, Content, WantedHosts, WantedSchedule
  <2>3. QED
    BY <2>1, <2>2 DEF StartUpInv
<1>15. CASE Predaemon
  <2>1. /\ pc = "predaemon" /\ pc' = "apply"
        /\ cfg' = [cfg EXCEPT !.tmpfs = "FALSE"]
        /\ Wanted(cfg) /\ g_parsed = WantedSchedule
        /\ reloading = FALSE /\ read = accepted /\ file = accepted
        /\ UNCHANGED <<env, mem, newcfg, reloading, sched, history>>
    BY <1>2, <1>15 DEF Predaemon, StartUpInv
  <2>2. /\ cfg'.tmpfs = "FALSE" /\ cfg'.pinghosts = cfg.pinghosts
        /\ cfg'.liststring = cfg.liststring
    BY <2>1 DEF TypeOK, Config
  <2>3. Wanted(cfg)' /\ WantedSchedule' = WantedSchedule
    BY <2>1, <2>2 DEF Wanted, Content, WantedHosts, WantedSchedule
  <2>4. QED
    BY <2>1, <2>2, <2>3 DEF StartUpInv
<1>16. CASE PredaemonTmpfs
  <2>1. /\ pc = "predaemon" /\ pc' = "exited" /\ file = accepted
        /\ reloading = FALSE /\ read = accepted
        /\ UNCHANGED <<env, mem, newcfg, reloading, sched, history>>
    BY <1>2, <1>16 DEF PredaemonTmpfs, StartUpInv
  <2>2. QED
    BY <2>1 DEF StartUpInv
<1>17. CASE FreeTwice
  <2>1. ~Live(ToFree)
    BY <1>17 DEF FreeTwice
  <2>2. Live(Null)
    BY DEF Live
  <2>3. DefaultsOnly => Live(cfg.pinghosts)
    BY WantedTypes DEF DefaultsOnly, Live, Unused
  <2>4. Live(ToFree)
    BY <1>2, <2>2, <2>3 DEF ToFree, StartUpInv
  <2>5. QED
    BY <2>1, <2>4
<1>18. CASE UNCHANGED vars
  <2>1. UNCHANGED <<file, argv, mem, cfg, newcfg, reloading, pc, g_parsed,
                    schedule, read, accepted, n_reloads>>
    BY <1>18 DEF vars
  <2>2. /\ Wanted(cfg)' = Wanted(cfg) /\ Wanted(newcfg)' = Wanted(newcfg)
        /\ WantedSchedule' = WantedSchedule /\ FileHosts' = FileHosts
        /\ DefaultsOnly' = DefaultsOnly
        /\ (Content(newcfg.pinghosts))' = Content(newcfg.pinghosts)
        /\ (Content(newcfg.liststring))' = Content(newcfg.liststring)
    BY <2>1 DEF Wanted, Content, WantedHosts, WantedSchedule, FileHosts, DefaultsOnly
  <2>3. QED
    BY <1>2, <2>1, <2>2 DEF StartUpInv
<1>19. QED
  BY <1>3, <1>4, <1>5, <1>6, <1>7, <1>8, <1>9, <1>10, <1>11, <1>12, <1>13,
     <1>14, <1>15, <1>16, <1>17, <1>18 DEF Next

\* The daemon starts, without a step that is undefined, with the strings and the
\* schedule that were asked for, whatever was asked for.
THEOREM StartUpSound == Spec => []StartUpApplies
<1>1. StartUpInv => StartUpApplies
  BY DEF StartUpInv, StartUpApplies, Wanted
<1>2. QED
  BY <1>1, InitTypes, NextTypes, InitStartUp, NextStartUp, PTL DEF Spec

=============================================================================
