---------------------------- MODULE StartupProofs ----------------------------
(***************************************************************************)
(* The PID file and the parent's report, for any number of invocations.    *)
(***************************************************************************)
EXTENDS Startup, TLAPS

PcStates == Unmasked \cup {"off", "main", "close", "unlink", "ended"}

LEMMA SignalType ==
  ASSUME TypeOK, NEW d \in Invocations,
         NEW s \in {"USR1", "USR2", "ALRM", "CHLD"}, Signal(d, s)
  PROVE  pending' \in [Invocations -> SUBSET {"USR1", "USR2", "ALRM", "CHLD"}]
BY DEF TypeOK, Signal

LEMMA CloseType ==
  ASSUME TypeOK, NEW d \in Invocations, Close(d)
  PROVE  /\ handle' \in [Invocations -> Invocations \cup {None}]
         /\ locker' \in [Invocations -> Invocations \cup {None}]
BY DEF TypeOK, Close

LEMMA StepType ==
  ASSUME TypeOK, NEW d \in Invocations, NEW from, NEW to \in PcStates,
         Step(d, from, to)
  PROVE  pc' \in [Invocations -> PcStates]
BY DEF TypeOK, Step, PcStates

LEMMA EndsType ==
  ASSUME TypeOK, NEW d \in Invocations, Ends(d)
  PROVE  TypeOK'
<1>1. pc' \in [Invocations -> PcStates]
  BY DEF TypeOK, Ends, PcStates
<1>2. /\ handle' \in [Invocations -> Invocations \cup {None}]
      /\ locker' \in [Invocations -> Invocations \cup {None}]
  BY CloseType DEF Ends
<1>3. pending' \in [Invocations -> SUBSET {"USR1", "USR2", "ALRM", "CHLD"}]
  BY SignalType DEF Ends
<1>4. UNCHANGED <<as_daemon, parent, pidfile, content, worker, history>>
  BY DEF Ends
<1>5. QED
  BY <1>1, <1>2, <1>3, <1>4 DEF TypeOK, PcStates, history

LEMMA UnlocksType ==
  ASSUME TypeOK, NEW d \in Invocations, Unlocks(d)
  PROVE  TypeOK'
BY DEF TypeOK, Unlocks, files, history

LEMMA InitTypes == Init => TypeOK
BY DEF Init, TypeOK, Unmasked, Waiting, Reports

\* Who tries the lock has a file open; why is LockInv below.
FileOpen == \A d \in Invocations : pc[d] = "lock" => handle[d] \in Invocations

LEMMA NextTypes == TypeOK /\ FileOpen /\ [Next]_vars => TypeOK'
<1> SUFFICES ASSUME TypeOK, FileOpen, [Next]_vars PROVE TypeOK'
  OBVIOUS
<1> USE DEF files, history, PcStates
<1>0. CASE UNCHANGED vars
  BY <1>0 DEF vars, TypeOK
<1>1. ASSUME NEW d \in Invocations, Invoke(d)
      PROVE  TypeOK'
  <2>1. pc' \in [Invocations -> PcStates]
    BY <1>1, StepType DEF Invoke, Unmasked
  <2>2. /\ as_daemon' \in [Invocations -> BOOLEAN]
        /\ parent' \in [Invocations -> Waiting \cup Reports \cup {"none"}]
    BY <1>1 DEF Invoke, TypeOK, Waiting
  <2>3. QED
    BY <1>1, <2>1, <2>2 DEF Invoke, TypeOK
<1>2. ASSUME NEW d \in Invocations, ForkFails(d)
      PROVE  TypeOK'
  BY <1>2, StepType DEF ForkFails, TypeOK
<1>3. ASSUME NEW d \in Invocations, Pause(d)
      PROVE  TypeOK'
  BY <1>3 DEF Pause, TypeOK, Waiting
<1>4. ASSUME NEW d \in Invocations, AlarmExpires(d)
      PROVE  TypeOK'
  BY <1>4, SignalType DEF AlarmExpires, TypeOK
<1>5. ASSUME NEW d \in Invocations, daemonchild_handler(d)
      PROVE  TypeOK'
  <2>1. Told(pending[d]) \in Reports
    BY DEF Told, Reports
  <2>2. QED
    BY <1>5, <2>1 DEF daemonchild_handler, TypeOK
<1>6. ASSUME NEW d \in Invocations, Daemon(d)
      PROVE  TypeOK'
  <2>1. CASE Setup(d)
    BY <2>1, StepType DEF Setup, TypeOK, Unmasked
  <2>2. CASE Exit(d)
    BY <2>2, EndsType DEF Exit
  <2>3. CASE Open(d)
    <3>1. pidfile' \in Invocations
      BY <2>3 DEF Open, TypeOK
    <3>2. pc' \in [Invocations -> PcStates]
      BY <2>3, StepType DEF Open, Unmasked
    <3>3. QED
      BY <2>3, <3>1, <3>2 DEF Open, TypeOK
  <2>4. CASE OpenFails(d)
    <3>1. pc' \in [Invocations -> PcStates]
      BY <2>4, StepType DEF OpenFails, Unmasked
    <3>2. QED
      BY <2>4, <3>1 DEF OpenFails, TypeOK
  <2>5. CASE Lock(d)
    <3>1. pc' \in [Invocations -> PcStates]
      BY <2>5, StepType DEF Lock, Unmasked
    <3>2. QED
      BY <2>5, <3>1 DEF Lock, TypeOK
  <2>6. CASE LockFails(d)
    <3>1. pc' \in [Invocations -> PcStates]
      BY <2>6, StepType DEF LockFails, Unmasked
    <3>2. handle[d] \in Invocations
      BY <2>6 DEF LockFails, Step, FileOpen
    <3>3. QED
      BY <2>6, <3>1, <3>2 DEF LockFails, TypeOK
  <2>7. CASE Write(d)
    <3>1. pc' \in [Invocations -> PcStates]
      BY <2>7, StepType DEF Write, Unmasked
    <3>2. QED
      BY <2>7, <3>1 DEF Write, TypeOK
  <2>8. CASE WriteFails(d)
    BY <2>8, StepType DEF WriteFails, TypeOK, Unmasked
  <2>9. CASE Refuse(d)
    <3>1. pc' \in [Invocations -> PcStates]
      BY <2>9, StepType DEF Refuse, Unmasked
    <3>2. pending' \in [Invocations -> SUBSET {"USR1", "USR2", "ALRM", "CHLD"}]
      BY <2>9, SignalType DEF Refuse, TypeOK
    <3>3. QED
      BY <2>9, <3>1, <3>2 DEF Refuse, TypeOK
  <2>10. CASE Report(d)
    <3>1. pc' \in [Invocations -> PcStates]
      BY <2>10, StepType DEF Report, Unmasked
    <3>2. pending' \in [Invocations -> SUBSET {"USR1", "USR2", "ALRM", "CHLD"}]
      BY <2>10, SignalType DEF Report, TypeOK
    <3>3. QED
      BY <2>10, <3>1, <3>2 DEF Report, TypeOK
  <2>11. CASE Sleep(d)
    BY <2>11, StepType DEF Sleep, TypeOK, Unmasked
  <2>12. CASE MaskSignals(d)
    BY <2>12, StepType DEF MaskSignals, TypeOK
  <2>13. CASE Leave(d)
    BY <2>13, UnlocksType DEF Leave
  <2>14. CASE CloseFile(d)
    BY <2>14, StepType, CloseType DEF CloseFile, TypeOK
  <2>15. CASE Unlink(d)
    BY <2>15, SignalType DEF Unlink, TypeOK
  <2>16. CASE ForkWorker(d)
    BY <2>16 DEF ForkWorker, TypeOK
  <2>17. QED
    BY <1>6, <2>1, <2>2, <2>3, <2>4, <2>5, <2>6, <2>7, <2>8, <2>9, <2>10, <2>11,
       <2>12, <2>13, <2>14, <2>15, <2>16 DEF Daemon
<1>7. ASSUME NEW d \in Invocations, InheritedHandler(d)
      PROVE  TypeOK'
  BY <1>7, EndsType, UnlocksType DEF InheritedHandler
<1>8. ASSUME NEW d \in Invocations, Killed(d)
      PROVE  TypeOK'
  BY <1>8, EndsType DEF Killed
<1>9. ASSUME NEW d \in Invocations, Stopped(d)
      PROVE  TypeOK'
  BY <1>9, SignalType DEF Stopped, TypeOK
<1>10. ASSUME NEW d \in Invocations, WorkerEnds(d) \/ WorkerExits(d)
      PROVE  TypeOK'
  BY <1>10 DEF WorkerEnds, WorkerExits, TypeOK
<1>11. QED
  BY <1>0, <1>1, <1>2, <1>3, <1>4, <1>5, <1>6, <1>7, <1>8, <1>9, <1>10
  DEF Next, Parent

-----------------------------------------------------------------------------
(***************************************************************************)
(* Locks, open files and contents.  A daemon at work holds the lock of the *)
(* file it has open, so nobody else writes into that one; and an id in a   *)
(* file is that of a process that got there with the lock.                 *)
(***************************************************************************)
NotLocked == {"off", "setup", "open", "lock", "refused", "exit"}

LockInv ==
  \A d \in Invocations :
    /\ pc[d] = "lock" => handle[d] \in Invocations
    /\ pc[d] \in Holding => /\ handle[d] \in Invocations
                            /\ locker[handle[d]] = d
    /\ pc[d] \in NotLocked => d \notin locked
    /\ pc[d] \in Holding => d \in locked
ContentInv ==
  \A f, c \in Invocations :
    content[f] = c => c \in locked /\ (pc[c] \in Holding => handle[c] = f)
LockerInv == \A f \in Invocations : locker[f] # None => locker[f] \in locked
FileInv == LockInv /\ ContentInv /\ LockerInv

\* What changes when d moves on its way without a change to the files.
Moves(d) ==
  /\ \A e \in Invocations \ {d} : pc'[e] = pc[e]
  /\ UNCHANGED <<handle, locker, content, locked>>
  /\ \/ pc'[d] = pc[d]
     \/ pc'[d] \in NotLocked \ {"lock"} /\ pc[d] \in NotLocked
     \/ pc'[d] \in Holding /\ pc[d] \in Holding
     \/ pc'[d] \in {"close", "unlink", "ended"}

LEMMA MovesKeeps ==
  ASSUME TypeOK, FileInv, NEW d \in Invocations, Moves(d)
  PROVE  FileInv'
<1>1. LockInv'
  BY DEF FileInv, LockInv, Moves, NotLocked, Holding
<1>2. ContentInv'
  BY DEF FileInv, ContentInv, LockInv, Moves, NotLocked, Holding
<1>3. LockerInv'
  BY DEF FileInv, LockerInv, Moves
<1>4. QED
  BY <1>1, <1>2, <1>3 DEF FileInv

\* close(), by the daemon or by the kernel when it ends.
LEMMA CloseKeeps ==
  ASSUME TypeOK, FileInv, NEW d \in Invocations, Close(d),
         NEW p \in {"unlink", "ended"},
         pc' = [pc EXCEPT ![d] = p],
         UNCHANGED <<content, locked>>
  PROVE  FileInv'
<1>1. /\ pc'[d] = p
      /\ \A e \in Invocations \ {d} : pc'[e] = pc[e] /\ handle'[e] = handle[e]
      /\ \A f \in Invocations : locker[f] # d => locker'[f] = locker[f]
  BY DEF TypeOK, Close
<1>2. LockInv'
  BY <1>1 DEF FileInv, LockInv, NotLocked, Holding
<1>3. ContentInv'
  BY <1>1 DEF FileInv, ContentInv, Holding
<1>4. LockerInv'
  <2>1. \A f \in Invocations : locker'[f] \in {None, locker[f]}
    BY DEF Close
  <2>2. QED
    BY <2>1 DEF FileInv, LockerInv
<1>5. QED
  BY <1>2, <1>3, <1>4 DEF FileInv

LEMMA EndsKeeps ==
  ASSUME TypeOK, FileInv, NEW d \in Invocations, Ends(d)
  PROVE  FileInv'
BY CloseKeeps DEF Ends, history

LEMMA UnlocksKeeps ==
  ASSUME TypeOK, FileInv, NEW d \in Invocations, Unlocks(d)
  PROVE  FileInv'
<1>1. Moves(d)
  BY DEF Unlocks, Moves, files, history, TypeOK
<1>2. QED
  BY <1>1, MovesKeeps

LEMMA NextFiles == TypeOK /\ FileInv /\ [Next]_vars => FileInv'
<1> SUFFICES ASSUME TypeOK, FileInv, [Next]_vars PROVE FileInv'
  OBVIOUS
<1> USE DEF files, history
<1>0. CASE UNCHANGED vars
  BY <1>0 DEF vars, FileInv, LockInv, ContentInv, LockerInv
<1>1. ASSUME NEW d \in Invocations, Invoke(d) \/ ForkFails(d) \/ Parent(d)
      PROVE  Moves(d)
  <2>1. CASE Invoke(d)
    BY <2>1 DEF Invoke, Step, Moves, NotLocked, TypeOK
  <2>2. CASE ForkFails(d)
    BY <2>2 DEF ForkFails, Step, Moves, NotLocked, TypeOK
  <2>3. CASE Parent(d)
    BY <2>3 DEF Parent, Pause, AlarmExpires, daemonchild_handler, Moves
  <2>4. QED
    BY <1>1, <2>1, <2>2, <2>3
<1>2. ASSUME NEW d \in Invocations, Daemon(d)
      PROVE  FileInv'
  <2>1. CASE \/ Setup(d) \/ OpenFails(d) \/ LockFails(d) \/ WriteFails(d)
             \/ Refuse(d) \/ Report(d) \/ Sleep(d) \/ MaskSignals(d)
             \/ Unlink(d) \/ ForkWorker(d)
    <3>1. CASE Setup(d) \/ OpenFails(d) \/ LockFails(d) \/ Refuse(d)
      BY <3>1, MovesKeeps
      DEF Setup, OpenFails, LockFails, Refuse, Step, Moves, NotLocked, TypeOK
    <3>2. CASE WriteFails(d) \/ Report(d) \/ Sleep(d) \/ MaskSignals(d)
      BY <3>2, MovesKeeps
      DEF WriteFails, Report, Sleep, MaskSignals, Step, Moves, Holding, TypeOK
    <3>3. CASE Unlink(d) \/ ForkWorker(d)
      BY <3>3, MovesKeeps DEF Unlink, ForkWorker, Moves, TypeOK
    <3>4. QED
      BY <2>1, <3>1, <3>2, <3>3
  <2>2. CASE Exit(d)
    BY <2>2, EndsKeeps DEF Exit
  <2>3. CASE Open(d)
    <3>1. /\ pc[d] = "open" /\ pc'[d] = "lock" /\ handle'[d] \in Invocations
          /\ \A e \in Invocations \ {d} : pc'[e] = pc[e] /\ handle'[e] = handle[e]
          /\ UNCHANGED <<locker, content, locked>>
      BY <2>3 DEF Open, Step, TypeOK
    <3>2. LockInv'
      BY <3>1 DEF FileInv, LockInv, NotLocked, Holding
    <3>3. ContentInv'
      BY <3>1 DEF FileInv, ContentInv, Holding
    <3>4. QED
      BY <3>1, <3>2, <3>3 DEF FileInv, LockerInv
  <2>4. CASE Lock(d)
    <3>1. /\ pc[d] = "lock" /\ pc'[d] = "write" /\ handle[d] \in Invocations
          /\ locker[handle[d]] = None /\ locker'[handle[d]] = d
          /\ d \notin locked /\ locked' = locked \cup {d}
          /\ \A e \in Invocations \ {d} : pc'[e] = pc[e]
          /\ \A f \in Invocations : f # handle[d] => locker'[f] = locker[f]
          /\ UNCHANGED <<handle, content>>
      BY <2>4 DEF Lock, Step, TypeOK, FileInv, LockInv, NotLocked
    <3>2. None \notin Invocations
      BY StartupAssumption
    <3>3. LockInv'
      BY <3>1, <3>2 DEF FileInv, LockInv, NotLocked, Holding
    <3>4. ContentInv'
      BY <3>1 DEF FileInv, ContentInv, Holding
    <3>5. LockerInv'
      <4>1. \A f \in Invocations : locker'[f] \in {locker[f], d}
        BY <3>1
      <4>2. QED
        BY <3>1, <4>1 DEF FileInv, LockerInv
    <3>6. QED
      BY <3>3, <3>4, <3>5 DEF FileInv
  <2>5. CASE Write(d)
    <3>1. /\ pc[d] = "write" /\ pc'[d] = "report"
          /\ \A e \in Invocations \ {d} : pc'[e] = pc[e]
          /\ content' = [content EXCEPT ![handle[d]] = d]
          /\ UNCHANGED <<handle, locker, locked>>
      BY <2>5 DEF Write, Step, TypeOK
    <3>2. LockInv'
      BY <3>1 DEF FileInv, LockInv, NotLocked, Holding
    <3>3. d \in locked
      BY <3>1 DEF FileInv, LockInv, Holding
    <3>4. \A f \in Invocations :
            content'[f] = content[f] \/ (f = handle[d] /\ content'[f] = d)
      BY <3>1 DEF TypeOK
    <3>5. \A e \in Invocations : pc'[e] \in Holding => pc[e] \in Holding
      BY <3>1 DEF Holding
    <3>6. ContentInv'
      BY <3>1, <3>3, <3>4, <3>5 DEF FileInv, ContentInv
    <3>7. QED
      BY <3>1, <3>2, <3>6 DEF FileInv, LockerInv
  <2>6. CASE Leave(d)
    BY <2>6, UnlocksKeeps DEF Leave
  <2>7. CASE CloseFile(d)
    BY <2>7, CloseKeeps DEF CloseFile, Step
  <2>8. QED
    BY <1>2, <2>1, <2>2, <2>3, <2>4, <2>5, <2>6, <2>7 DEF Daemon
<1>3. ASSUME NEW d \in Invocations, InheritedHandler(d) \/ Killed(d)
      PROVE  FileInv'
  BY <1>3, EndsKeeps, UnlocksKeeps DEF InheritedHandler, Killed
<1>4. ASSUME NEW d \in Invocations, WorkerEnds(d) \/ WorkerExits(d)
      PROVE  Moves(d)
  BY <1>4 DEF WorkerEnds, WorkerExits, Moves
<1>5. ASSUME NEW d \in Invocations, Stopped(d)
      PROVE  Moves(d)
  BY <1>5 DEF Stopped, Moves
<1>6. QED
  BY <1>0, <1>1, <1>2, <1>3, <1>4, <1>5, MovesKeeps DEF Next

LEMMA InitFiles == Init => FileInv
BY StartupAssumption
DEF Init, FileInv, LockInv, ContentInv, LockerInv, Holding, NotLocked

LEMMA FilesInvariant == Spec => [](TypeOK /\ FileInv)
<1>1. FileInv => FileOpen
  BY DEF FileInv, LockInv, FileOpen
<1>2. QED
  BY <1>1, InitTypes, InitFiles, NextTypes, NextFiles, PTL DEF Spec

\* Every variable keeps its range, for any number of invocations (main.c, pidfile.c).
THEOREM TypeCorrect == Spec => []TypeOK
BY FilesInvariant, PTL

\* A locked PID file names its holder or a process on its way out, whatever crashes,
\* refusals and removals of the file came before (pidfile.c:91-104).
THEOREM PidFileSound == Spec => []PidFileNamesDaemon
<1>1. TypeOK /\ FileInv => PidFileNamesDaemon
  <2> SUFFICES ASSUME TypeOK, FileInv, NEW f \in Invocations,
                      locker[f] # None, content[f] # None, content[f] # locker[f]
               PROVE  pc[content[f]] \in {"close", "unlink", "ended"}
    BY DEF PidFileNamesDaemon
  <2>1. content[f] \in Invocations /\ content[f] \in locked
    BY DEF TypeOK, FileInv, ContentInv
  <2>2. pc[content[f]] \notin NotLocked
    BY <2>1 DEF FileInv, LockInv
  <2>3. pc[content[f]] \notin Holding
    BY <2>1 DEF FileInv, LockInv, ContentInv
  <2>4. QED
    BY <2>1, <2>2, <2>3 DEF TypeOK, Unmasked, NotLocked, Holding
<1>2. QED
  BY <1>1, FilesInvariant, PTL

\* However many invocations there are: two daemons at work have different files,
\* so that one was removed from its name (pidfile.c, icmpecho.c).
THEOREM OneUnlessUnlinked == Spec => []TwoNeedUnlink
<1>1. FileInv => TwoNeedUnlink
  BY DEF FileInv, LockInv, TwoNeedUnlink, Holding
<1>2. QED
  BY <1>1, FilesInvariant, PTL

-----------------------------------------------------------------------------
(***************************************************************************)
(* The report.  A signal on its way to the parent is worth what it is worth*)
(* when it is sent: the lock was won for good, or lost for good and for a  *)
(* reason, and the dead stay dead.  That a refused child has not won the   *)
(* lock either is LockInv, that who held it did is LockerInv.              *)
(***************************************************************************)
Refused == {"exit", "ended"}
HasReason(d) == refusal[d] \in (locked \ {d}) \cup {Failed}
ReportInv ==
  \A d \in Invocations :
    /\ pc[d] = "refused" => HasReason(d)
    /\ "USR1" \in pending[d] => d \in locked
    /\ "USR2" \in pending[d] => d \notin locked /\ pc[d] \in Refused /\ HasReason(d)
    /\ "CHLD" \in pending[d] => pc[d] = "ended" \/ d \in stopped
    /\ parent[d] = "success" => d \in locked
    /\ parent[d] = "running" => d \notin locked /\ pc[d] \in Refused /\ HasReason(d)
    /\ parent[d] = "died" => pc[d] = "ended" \/ d \in stopped

\* What a step does to what is reported of its daemon, the message aside.
Progress(d) ==
  /\ \A e \in Invocations \ {d} : /\ pc'[e] = pc[e] /\ refusal'[e] = refusal[e]
                                  /\ e \in locked' <=> e \in locked
  /\ locked \subseteq locked' /\ stopped \subseteq stopped'
  /\ pc[d] \in Refused => refusal'[d] = refusal[d]
  /\ pc'[d] = "refused" => HasReason(d)'
  /\ d \notin locked /\ d \in locked' => pc[d] \notin Refused
  /\ pc[d] \in Refused => pc'[d] \in Refused
  /\ pc[d] = "ended" => pc'[d] = "ended"

LEMMA SilentKeeps ==
  ASSUME TypeOK, ReportInv, NEW d \in Invocations, Progress(d),
         UNCHANGED <<pending, parent>>
  PROVE  ReportInv'
BY DEF ReportInv, HasReason, Progress, Refused

LEMMA SignalKeeps ==
  ASSUME TypeOK, ReportInv, NEW d \in Invocations, Progress(d),
         NEW s \in {"USR1", "USR2", "ALRM", "CHLD"}, Signal(d, s),
         UNCHANGED parent,
         s = "USR1" => d \in locked',
         s = "USR2" => d \notin locked' /\ pc'[d] \in Refused /\ HasReason(d)',
         s = "CHLD" => pc'[d] = "ended" \/ d \in stopped'
  PROVE  ReportInv'
<1>1. \A e \in Invocations, t \in {"USR1", "USR2", "CHLD"} :
        t \in pending'[e] => t \in pending[e] \/ (e = d /\ t = s)
  BY DEF Signal, TypeOK
<1>2. QED
  BY <1>1 DEF ReportInv, HasReason, Progress, Refused

LEMMA EndsReport ==
  ASSUME TypeOK, ReportInv, NEW d \in Invocations, Ends(d)
  PROVE  ReportInv'
<1>1. Progress(d) /\ pc'[d] = "ended"
  BY DEF Ends, history, Progress, Refused, TypeOK
<1>2. Signal(d, "CHLD") /\ UNCHANGED parent
  BY DEF Ends
<1>3. QED
  BY <1>1, <1>2, SignalKeeps

LEMMA UnlocksReport ==
  ASSUME TypeOK, ReportInv, NEW d \in Invocations, Unlocks(d),
         pc[d] \in {"enter", "main"}
  PROVE  ReportInv'
<1>1. Progress(d) /\ UNCHANGED <<pending, parent>>
  BY DEF Unlocks, history, Progress, Refused, TypeOK
<1>2. QED
  BY <1>1, SilentKeeps

LEMMA NextReport == TypeOK /\ FileInv /\ ReportInv /\ [Next]_vars => ReportInv'
<1> SUFFICES ASSUME TypeOK, FileInv, ReportInv, [Next]_vars PROVE ReportInv'
  OBVIOUS
<1> USE DEF history
<1>0. CASE UNCHANGED vars
  BY <1>0 DEF vars, ReportInv, HasReason
<1>1. ASSUME NEW d \in Invocations, Invoke(d)
      PROVE  ReportInv'
  <2>1. /\ pc[d] = "off" /\ pc'[d] = "setup"
        /\ \A e \in Invocations \ {d} : pc'[e] = pc[e] /\ parent'[e] = parent[e]
        /\ parent'[d] \in {"forked", "none"}
        /\ UNCHANGED <<pending, history>>
    BY <1>1 DEF Invoke, Step, TypeOK
  <2>2. QED
    BY <2>1 DEF ReportInv, HasReason, Refused
<1>2. ASSUME NEW d \in Invocations, ForkFails(d)
      PROVE  ReportInv'
  BY <1>2, SilentKeeps DEF ForkFails, Step, Progress, Refused, TypeOK
<1>3. ASSUME NEW d \in Invocations, Parent(d)
      PROVE  ReportInv'
  <2>1. CASE Pause(d)
    BY <2>1 DEF Pause, ReportInv, HasReason, TypeOK
  <2>2. CASE AlarmExpires(d)
    <3>1. Progress(d)
      BY <2>2 DEF AlarmExpires, Progress, ReportInv, HasReason
    <3>2. QED
      BY <2>2, <3>1, SignalKeeps DEF AlarmExpires
  <2>3. CASE daemonchild_handler(d)
    <3>1. /\ Told(pending[d]) = "success" => "USR1" \in pending[d]
          /\ Told(pending[d]) = "running" => "USR2" \in pending[d]
          /\ Told(pending[d]) = "died" => "CHLD" \in pending[d]
      <4>1. pending[d] \subseteq {"USR1", "USR2", "ALRM", "CHLD"} /\ pending[d] # {}
        BY <2>3 DEF daemonchild_handler, TypeOK
      <4>2. QED
        BY <4>1 DEF Told
    <3>2. /\ parent'[d] = Told(pending[d]) /\ pending'[d] = {}
          /\ \A e \in Invocations \ {d} :
               parent'[e] = parent[e] /\ pending'[e] = pending[e]
          /\ UNCHANGED <<pc, history>>
      BY <2>3 DEF daemonchild_handler, TypeOK
    <3>3. QED
      BY <3>1, <3>2 DEF ReportInv, HasReason
  <2>4. QED
    BY <1>3, <2>1, <2>2, <2>3 DEF Parent
<1>4. ASSUME NEW d \in Invocations, Daemon(d)
      PROVE  ReportInv'
  <2>1. CASE Refuse(d)
    <3>1. /\ d \notin locked /\ pc'[d] = "exit" /\ HasReason(d)'
          /\ Progress(d) /\ UNCHANGED <<parent, locked>>
      BY <2>1 DEF ReportInv, HasReason, Refuse, Step, Progress, FileInv, LockInv, NotLocked, Refused, TypeOK
    <3>2. CASE as_daemon[d]
      BY <2>1, <3>1, <3>2, SignalKeeps DEF Refuse, Refused
    <3>3. CASE ~as_daemon[d]
      BY <2>1, <3>1, <3>3, SilentKeeps DEF Refuse
    <3>4. QED
      BY <3>2, <3>3
  <2>2. CASE Report(d)
    <3>1. d \in locked /\ Progress(d) /\ UNCHANGED <<parent, locked>>
      BY <2>2 DEF Report, Step, Progress, FileInv, LockInv, Holding, Refused, TypeOK
    <3>2. CASE as_daemon[d]
      BY <2>2, <3>1, <3>2, SignalKeeps DEF Report
    <3>3. CASE ~as_daemon[d]
      BY <2>2, <3>1, <3>3, SilentKeeps DEF Report
    <3>4. QED
      BY <3>2, <3>3
  <2>3. CASE Unlink(d)
    <3>1. Progress(d) /\ pc'[d] = "ended"
      BY <2>3 DEF Unlink, Progress, Refused, TypeOK
    <3>2. QED
      BY <2>3, <3>1, SignalKeeps DEF Unlink
  <2>4. CASE Exit(d)
    BY <2>4, EndsReport DEF Exit
  <2>5. CASE Leave(d)
    BY <2>5, UnlocksReport DEF Leave
  <2>6. CASE Lock(d)
    BY <2>6, SilentKeeps DEF Lock, Step, Progress, Refused, TypeOK
  <2>7. CASE Setup(d) \/ Open(d) \/ OpenFails(d) \/ LockFails(d)
    <3>1. CASE Setup(d) \/ Open(d)
      BY <3>1, SilentKeeps DEF Setup, Open, Step, Progress, Refused, TypeOK
    <3>2. CASE OpenFails(d)
      BY <3>2, SilentKeeps
      DEF OpenFails, files, Step, Progress, HasReason, Refused, TypeOK
    <3>3. CASE LockFails(d)
      <4>1. handle[d] \in Invocations /\ d \notin locked
        BY <3>3 DEF LockFails, Step, FileInv, LockInv, NotLocked
      <4>2. locker[handle[d]] = None \/ locker[handle[d]] \in locked \ {d}
        BY <4>1 DEF FileInv, LockerInv
      <4>3. HasReason(d)'
        BY <3>3, <4>2 DEF LockFails, HasReason, TypeOK
      <4>4. QED
        BY <3>3, <4>3, SilentKeeps
        DEF LockFails, files, Step, Progress, Refused, TypeOK
    <3>4. QED
      BY <2>7, <3>1, <3>2, <3>3
  <2>8. CASE Write(d) \/ WriteFails(d) \/ Sleep(d) \/ MaskSignals(d)
    BY <2>8, SilentKeeps
    DEF Write, WriteFails, Sleep, MaskSignals, Step, Progress, Refused, TypeOK
  <2>9. CASE CloseFile(d) \/ ForkWorker(d)
    BY <2>9, SilentKeeps DEF CloseFile, ForkWorker, Step, Progress, Refused, TypeOK
  <2>10. QED
    BY <1>4, <2>1, <2>2, <2>3, <2>4, <2>5, <2>6, <2>7, <2>8, <2>9 DEF Daemon
<1>5. ASSUME NEW d \in Invocations, InheritedHandler(d) \/ Killed(d)
      PROVE  ReportInv'
  BY <1>5, EndsReport, UnlocksReport DEF InheritedHandler, Killed
<1>6. ASSUME NEW d \in Invocations, WorkerEnds(d) \/ WorkerExits(d)
      PROVE  ReportInv'
  BY <1>6, SilentKeeps DEF WorkerEnds, WorkerExits, Progress, ReportInv, HasReason
<1>7. ASSUME NEW d \in Invocations, Stopped(d)
      PROVE  ReportInv'
  <2>1. /\ Progress(d) /\ d \in stopped'
        /\ Signal(d, "CHLD") /\ UNCHANGED parent
    BY <1>7 DEF Stopped, Progress, Refused, ReportInv, HasReason
  <2>2. QED
    BY <2>1, SignalKeeps
<1>8. QED
  BY <1>0, <1>1, <1>2, <1>3, <1>4, <1>5, <1>6, <1>7 DEF Next

LEMMA InitReport == Init => ReportInv
BY DEF Init, ReportInv

\* What each report is worth, in whatever order the child's signals, its stops, its
\* death and the alarm meet: "success" a lock that was won, "running" one that another
\* daemon held or a system call that failed, "died" an end or a stop (main.c:43-78).
THEOREM ReportSound == Spec => []ReportAccurate
<1>1. ReportInv => ReportAccurate
  BY DEF ReportInv, HasReason, ReportAccurate, Refused
<1>2. TypeOK /\ FileInv /\ ReportInv /\ [Next]_vars => ReportInv'
  BY NextReport
<1>3. QED
  BY <1>1, <1>2, InitReport, FilesInvariant, PTL DEF Spec

=============================================================================
