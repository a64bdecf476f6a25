---------------------------- MODULE EventSchedule ----------------------------
(***************************************************************************)
(* The event schedule over a clock: event.c (test parsing, commit, clear,  *)
(* create, reschedule, execute) and the parts of daemon.c that drive it    *)
(* (the schedule timer in daemon_initialize(), its handler in              *)
(* daemon_main(), SIGHUP).  The heap is the queue EventQueue that          *)
(* EventHeap implements.                                                   *)
(*                                                                         *)
(* Time passes between any two steps: the process may be preempted or      *)
(* stopped.  The local time zone is UTC without daylight saving, so that   *)
(* mktime() is arithmetic modulo DAY.  The stale readable bit after SIGHUP *)
(* is the subject of Daemon and does not occur here.                       *)
(***************************************************************************)
EXTENDS Integers, Sequences, FiniteSets

CONSTANTS
  Events,               \* memory for event_t objects (a bound)
  None,                 \* NULL
  DAY,                  \* SECONDS_PER_DAY
  IMPORTTMPFS_TIMEOUT,  \* DAEMON_IMPORTTMPFS_TIMEOUT
  POWERUPDELAY,         \* cfg.modem.powerupdelay; 0 without power control
  Lists,                \* event lists cfg_check() may come to parse
  MaxTime,              \* bound on the clock
  MaxReloads            \* bound on SIGHUPs

Actions == {"SUSPEND", "RESUME", "POWEROFF", "POWERON", "IMPORTTMPFS",
            "IMPORTTMPFSTIMEOUT", "WATCHDOG"}
Types == {"DAILY", "INTERVAL", "ONCE"}
\* One item of the list.  ok: the parser accepts it.
Entry == [action: Actions, type: Types, localoffset: Nat, ok: BOOLEAN]

ASSUME ScheduleAssumption ==
  /\ None \notin Events
  /\ DAY \in Nat \ {0}
  /\ IMPORTTMPFS_TIMEOUT \in Nat \ {0}
  /\ POWERUPDELAY \in 0..DAY
  /\ Lists \subseteq Seq(Entry)
  /\ MaxTime \in Nat /\ MaxTime >= 2 * DAY
  /\ MaxReloads \in Nat

VARIABLES
  clock,          \* time()
  event,          \* the objects: action, type, source, localoffset
  next_trigger,   \* event_t.next_trigger
  scheduled,      \* contents of the event heap
  fetched,        \* the event taken from the heap last
  g_parsed,       \* the test schedule, or None for the null pointer
  expiry,         \* the schedule timer's time; 0: disarmed or no descriptor
  pc,             \* idle: in pselect()
  now,            \* the handler's local variable
  suspended_by_schedule,
  last_executed,  \* trigger time of the event executed last (history)
  configured,     \* the list accepted last, None if no list made the schedule
                  \* (history)
  n_reloads       \* bounding only

objects == <<event, next_trigger, scheduled, fetched, g_parsed>>
timer == <<expiry, now>>
vars == <<clock, objects, timer, pc, suspended_by_schedule, last_executed,
          configured, n_reloads>>

Heap == INSTANCE EventQueue WITH Times <- Int

NoEvent == [action |-> "(null)", type |-> "(null)", source |-> "UNKNOWN",
            localoffset |-> 0]

Parsed == IF g_parsed = None THEN {} ELSE g_parsed
Handling == IF pc \in {"execute", "reschedule"} THEN {fetched} ELSE {}
Free == Events \ (scheduled \cup Parsed \cup Handling)

-----------------------------------------------------------------------------
(***************************************************************************)
(* __schedule_next_trigger(): the next moment of a daily event's hour that *)
(* is still ahead; an interval counts from the previous trigger.           *)
(***************************************************************************)
\* Faulty variant: a daily event keeps a moment that is this very one.
NextTriggerThisMoment(type, localoffset, previous, t) ==
  LET eventtime == t - (t % DAY) + (localoffset % DAY)
  IN  CASE type = "DAILY" /\ eventtime < t   -> eventtime + DAY
        [] type = "DAILY" /\ eventtime >= t  -> eventtime
        [] type # "DAILY" /\ previous # 0    -> previous + localoffset
        [] type # "DAILY" /\ previous = 0    -> t + localoffset
\* Faulty variant: a daily event is put off by a day from now.
NextTriggerDrifts(type, localoffset, previous, t) ==
  LET eventtime == t - (t % DAY) + (localoffset % DAY)
  IN  CASE type = "DAILY" /\ eventtime <= t  -> t + DAY
        [] type = "DAILY" /\ eventtime > t   -> eventtime
        [] type # "DAILY" /\ previous # 0    -> previous + localoffset
        [] type # "DAILY" /\ previous = 0    -> t + localoffset
NextTrigger(type, localoffset, previous, t) ==
  LET eventtime == t - (t % DAY) + (localoffset % DAY)
  IN  CASE type = "DAILY" /\ eventtime <= t  -> eventtime + DAY
        [] type = "DAILY" /\ eventtime > t   -> eventtime
        [] type # "DAILY" /\ previous # 0    -> previous + localoffset
        [] type # "DAILY" /\ previous = 0    -> t + localoffset

\* The POWERON that goes before a RESUME.
PowerOn(resume) ==
  [action |-> "POWERON", type |-> "DAILY", ok |-> TRUE,
   localoffset |-> IF resume.localoffset < POWERUPDELAY
                   THEN resume.localoffset - POWERUPDELAY + DAY
                   ELSE resume.localoffset - POWERUPDELAY]

WellFormed(list) == \A i \in DOMAIN list : list[i].ok

\* The entries event_test_parse() makes events of, keyed by their place, the
\* POWERONs behind them.  With an entry discarded it returns before it adds
\* those.
TestEntries(list) ==
  LET kept == {i \in DOMAIN list : list[i].ok}
      resumes == {i \in DOMAIN list : /\ list[i].action = "RESUME"
                                      /\ WellFormed(list) /\ POWERUPDELAY # 0}
  IN  [k \in kept \cup {Len(list) + i : i \in resumes} |->
         IF k \in kept THEN list[k] ELSE PowerOn(list[k - Len(list)])]

\* calloc() for each entry; which free memory it returns does not matter.
\* With less memory than entries there is none (Events is the bound).
Allocations(entries, memory) ==
  {a \in [DOMAIN entries -> memory] :
     \A i, j \in DOMAIN entries : a[i] = a[j] => i = j}
Allocated(entries, memory) == CHOOSE a \in Allocations(entries, memory) : TRUE

\* The objects after the events in gone were freed and entries were parsed
\* into the memory a.
ParsedInto(entries, a, gone) ==
  LET new == {a[i] : i \in DOMAIN entries}
      At(e) == entries[CHOOSE i \in DOMAIN entries : a[i] = e]
  IN  /\ event' = [e \in Events |->
                     IF e \in new
                     THEN [action |-> At(e).action, type |-> At(e).type,
                           source |-> "PARSED", localoffset |-> At(e).localoffset]
                     ELSE IF e \in gone THEN NoEvent ELSE event[e]]
      /\ next_trigger' = [e \in Events |->
                            IF e \in new
                            THEN NextTrigger(At(e).type, At(e).localoffset, 0, clock)
                            ELSE IF e \in gone THEN 0 ELSE next_trigger[e]]

IsParsed(e) == event[e].source = "PARSED"
Head1 == CHOOSE e \in scheduled : Heap!Earliest(e)
\* timerfd_settime(), TFD_TIMER_ABSTIME, to the root's next_trigger
ArmForHead == IF scheduled = {} THEN 0 ELSE next_trigger[Head1]

-----------------------------------------------------------------------------
Init ==
  /\ clock \in DAY..(2 * DAY - 1)
  /\ event = [e \in Events |-> NoEvent]
  /\ Heap!Init
  /\ g_parsed = None
  /\ expiry = 0 /\ now = 0
  /\ pc = "init"
  /\ suspended_by_schedule = FALSE
  /\ last_executed = 0
  /\ configured = <<>>
  /\ n_reloads = 0

\* cfg_check(&cfg) in main(), then daemon_initialize() with an empty heap: the
\* events are committed after the timer was not created.
Startup(list) ==
  /\ pc = "init"
  /\ WellFormed(list)
  /\ LET entries == TestEntries(list)
         a == Allocated(entries, Events)
     IN  /\ Allocations(entries, Events) # {}
         /\ ParsedInto(entries, a, {})
         /\ scheduled' = {a[i] : i \in DOMAIN entries}
  /\ configured' = list
  /\ pc' = "idle"
  /\ UNCHANGED <<clock, fetched, g_parsed, timer, suspended_by_schedule,
                 last_executed, n_reloads>>

\* SIGHUP, the list has malformed entries: event_test_parse() drops the old
\* test schedule and leaves the good part of the new one behind.
ReloadRejected(list) ==
  /\ pc = "idle"
  /\ n_reloads < MaxReloads
  /\ ~WellFormed(list)
  /\ LET entries == TestEntries(list)
         a == Allocated(entries, Free \cup Parsed)
     IN  /\ Allocations(entries, Free \cup Parsed) # {}
         /\ ParsedInto(entries, a, Parsed)
         /\ g_parsed' = {a[i] : i \in DOMAIN entries}
  /\ n_reloads' = n_reloads + 1
  /\ UNCHANGED <<clock, scheduled, fetched, timer, pc, suspended_by_schedule,
                 last_executed, configured>>

\* SIGHUP, accepted: the timer is armed for the root of the old schedule, then
\* event_schedule_clear(PARSED) and event_commit_test_schedule().
\* Faulty variant: clears the whole schedule, events of the daemon included.
ReloadClearsAll(list) ==
  /\ pc = "idle"
  /\ n_reloads < MaxReloads
  /\ WellFormed(list) /\ list # <<>>
  /\ LET entries == TestEntries(list)
         a == Allocated(entries, Free \cup Parsed)
     IN  /\ Allocations(entries, Free \cup Parsed) # {}
         /\ ParsedInto(entries, a, Parsed \cup scheduled)
         /\ scheduled' = {a[i] : i \in DOMAIN entries}
  /\ expiry' = ArmForHead
  /\ g_parsed' = None
  /\ configured' = list
  /\ n_reloads' = n_reloads + 1
  /\ UNCHANGED <<clock, fetched, now, pc, suspended_by_schedule, last_executed>>
\* Faulty variant: commits but keeps the pointers in the test schedule.
ReloadKeepsTest(list) ==
  /\ pc = "idle"
  /\ n_reloads < MaxReloads
  /\ WellFormed(list) /\ list # <<>>
  /\ LET entries == TestEntries(list)
         a == Allocated(entries, Free \cup Parsed)
         gone == {e \in scheduled : IsParsed(e)}
     IN  /\ Allocations(entries, Free \cup Parsed) # {}
         /\ ParsedInto(entries, a, Parsed \cup gone)
         /\ scheduled' = (scheduled \ gone) \cup {a[i] : i \in DOMAIN entries}
         /\ g_parsed' = {a[i] : i \in DOMAIN entries}
  /\ expiry' = ArmForHead
  /\ configured' = list
  /\ n_reloads' = n_reloads + 1
  /\ UNCHANGED <<clock, fetched, now, pc, suspended_by_schedule, last_executed>>
Reload(list) ==
  /\ pc = "idle"
  /\ n_reloads < MaxReloads
  /\ WellFormed(list) /\ list # <<>>
  /\ LET entries == TestEntries(list)
         a == Allocated(entries, Free \cup Parsed)
         gone == {e \in scheduled : IsParsed(e)}
     IN  /\ Allocations(entries, Free \cup Parsed) # {}
         /\ ParsedInto(entries, a, Parsed \cup gone)
         /\ scheduled' = (scheduled \ gone) \cup {a[i] : i \in DOMAIN entries}
  /\ expiry' = ArmForHead
  /\ g_parsed' = None
  /\ configured' = list
  /\ n_reloads' = n_reloads + 1
  /\ UNCHANGED <<clock, fetched, now, pc, suspended_by_schedule, last_executed>>

\* SIGHUP with no list: event_test_parse() returns before it clears the test
\* schedule, so what a rejected list left there is committed now and the
\* schedule follows no list.
ReloadEmpty(list) ==
  /\ pc = "idle"
  /\ n_reloads < MaxReloads
  /\ list = <<>>
  /\ LET gone == {e \in scheduled : IsParsed(e)}
     IN  /\ ParsedInto(<<>>, <<>>, gone)
         /\ scheduled' = (scheduled \ gone) \cup Parsed
  /\ expiry' = ArmForHead
  /\ g_parsed' = None
  /\ configured' = IF Parsed = {} THEN list ELSE None
  /\ n_reloads' = n_reloads + 1
  /\ UNCHANGED <<clock, fetched, now, pc, suspended_by_schedule, last_executed>>

-----------------------------------------------------------------------------
\* The handler: acknowledge the timer, remember the time.
Serve ==
  /\ pc = "idle"
  /\ expiry # 0 /\ expiry <= clock
  /\ expiry' = 0
  /\ now' = clock
  /\ pc' = "pump"
  /\ UNCHANGED <<clock, objects, suspended_by_schedule, last_executed,
                 configured, n_reloads>>

Due == {e \in scheduled : next_trigger[e] <= now}

\* event_gettriggered()
\* Faulty variant: any triggered event, not the earliest.
TakeAny ==
  /\ pc = "pump"
  /\ \E e \in Due : fetched' = e /\ scheduled' = scheduled \ {e}
  /\ pc' = "execute"
  /\ UNCHANGED <<clock, event, next_trigger, g_parsed, timer, suspended_by_schedule,
                 last_executed, configured, n_reloads>>
Take ==
  /\ pc = "pump"
  /\ Due # {}
  /\ Heap!Fetch
  /\ pc' = "execute"
  /\ UNCHANGED <<clock, event, g_parsed, timer, suspended_by_schedule,
                 last_executed, configured, n_reloads>>

\* event_execute() of SUSPEND, RESUME and the actions that change nothing here
Execute ==
  /\ pc = "execute"
  /\ event[fetched].action # "IMPORTTMPFS"
  /\ suspended_by_schedule' =
       CASE event[fetched].action = "SUSPEND" -> TRUE
         [] event[fetched].action = "RESUME"  -> FALSE
         [] OTHER                             -> suspended_by_schedule
  /\ last_executed' = next_trigger[fetched]
  /\ pc' = "reschedule"
  /\ UNCHANGED <<clock, objects, timer, configured, n_reloads>>

\* What event_create() makes.
ImportTimeout == [action |-> "IMPORTTMPFSTIMEOUT", type |-> "ONCE",
                  source |-> "INTERNAL", localoffset |-> IMPORTTMPFS_TIMEOUT]

\* daemon_importtmpfs(): event_create() of the timeout
ExecuteImport ==
  /\ pc = "execute"
  /\ event[fetched].action = "IMPORTTMPFS"
  /\ LET e == CHOOSE e \in Free : TRUE
     IN  /\ Free # {}
         /\ event' = [event EXCEPT ![e] = ImportTimeout]
         /\ Heap!Insert(e, NextTrigger("ONCE", IMPORTTMPFS_TIMEOUT, 0, clock))
  /\ last_executed' = next_trigger[fetched]
  /\ pc' = "reschedule"
  /\ UNCHANGED <<clock, g_parsed, timer, suspended_by_schedule, configured,
                 n_reloads>>

RescheduleTime ==
  NextTrigger(event[fetched].type, event[fetched].localoffset,
              next_trigger[fetched], clock)

\* event_reschedule() of a daily or interval event
\* Faulty variant: an event that is late is not put back.
RescheduleDropsLate ==
  /\ pc = "reschedule"
  /\ event[fetched].type # "ONCE"
  /\ RescheduleTime >= clock
  /\ IF next_trigger[fetched] = now
     THEN Heap!Insert(fetched, RescheduleTime)
     ELSE UNCHANGED <<scheduled, next_trigger, fetched>>
  /\ pc' = "pump"
  /\ UNCHANGED <<clock, event, g_parsed, timer, suspended_by_schedule,
                 last_executed, configured, n_reloads>>
Reschedule ==
  /\ pc = "reschedule"
  /\ event[fetched].type # "ONCE"
  /\ RescheduleTime >= clock
  /\ Heap!Insert(fetched, RescheduleTime)
  /\ pc' = "pump"
  /\ UNCHANGED <<clock, event, g_parsed, timer, suspended_by_schedule,
                 last_executed, configured, n_reloads>>

\* ... which is not ahead: exit(EXIT_FAILURE)
RescheduleFails ==
  /\ pc = "reschedule"
  /\ event[fetched].type # "ONCE"
  /\ RescheduleTime < clock
  /\ pc' = "failed"
  /\ UNCHANGED <<clock, objects, timer, suspended_by_schedule, last_executed,
                 configured, n_reloads>>

\* free() of a one-time event
Release ==
  /\ pc = "reschedule"
  /\ event[fetched].type = "ONCE"
  /\ event' = [event EXCEPT ![fetched] = NoEvent]
  /\ next_trigger' = [next_trigger EXCEPT ![fetched] = 0]
  /\ pc' = "pump"
  /\ UNCHANGED <<clock, scheduled, fetched, g_parsed, timer,
                 suspended_by_schedule, last_executed, configured, n_reloads>>

\* No more triggered events: wake up for the next one, if there is one.
PumpEnd ==
  /\ pc = "pump"
  /\ Due = {}
  /\ expiry' = ArmForHead
  /\ now' = 0
  /\ pc' = "idle"
  /\ UNCHANGED <<clock, objects, suspended_by_schedule, last_executed,
                 configured, n_reloads>>

Tick ==
  /\ pc # "failed"
  /\ clock < MaxTime
  /\ clock' = clock + 1
  /\ UNCHANGED <<objects, timer, pc, suspended_by_schedule, last_executed,
                 configured, n_reloads>>

Handler ==
  \/ Serve \/ Take \/ Execute \/ ExecuteImport \/ Reschedule
  \/ RescheduleFails \/ Release \/ PumpEnd
Next ==
  \/ \E list \in Lists :
       Startup(list) \/ ReloadRejected(list) \/ Reload(list) \/ ReloadEmpty(list)
  \/ Handler
  \/ Tick

Spec == Init /\ [][Next]_vars

\* The daemon is a running process: the handler goes on.
FairSpec == Spec /\ WF_vars(Handler)

-----------------------------------------------------------------------------
\* Every variable keeps its range; no event is owned twice (heap, test
\* schedule, handler), so none is freed twice.
TypeOK ==
  /\ clock \in Nat /\ now \in Nat /\ expiry \in Nat
  /\ event \in [Events -> [action: Actions \cup {"(null)"}, type: Types \cup {"(null)"},
                           source: {"UNKNOWN", "INTERNAL", "PARSED"}, localoffset: Nat]]
  /\ next_trigger \in [Events -> Nat]
  /\ scheduled \subseteq Events /\ Parsed \subseteq Events
  /\ fetched \in Events \cup {None}
  /\ pc \in {"init", "idle", "pump", "execute", "reschedule", "failed"}
  /\ scheduled \cap Parsed = {} /\ Handling \cap (scheduled \cup Parsed) = {}
  /\ suspended_by_schedule \in BOOLEAN
  /\ last_executed \in Nat /\ configured \in Lists \cup {<<>>, None}
  /\ n_reloads \in 0..MaxReloads

Repeating(e) == IsParsed(e) /\ event[e].type # "ONCE"
Matches(e, entry) ==
  /\ event[e].action = entry.action /\ event[e].type = entry.type
  /\ event[e].localoffset = entry.localoffset

\* The repeating events of the schedule are those of the list accepted last,
\* each as often as listed: none is lost between fetch and reschedule, none
\* survives a SIGHUP or comes from a rejected list (event.h:247-259).  The
\* SIGHUP with no list after a rejected one is the exception, see ReloadEmpty.
ScheduleFollowsList ==
  pc \notin {"init", "failed"} /\ configured # None =>
    LET entries == TestEntries(configured)
        repeating == {i \in DOMAIN entries : entries[i].type # "ONCE"}
        live == {e \in scheduled \cup Handling : Repeating(e)}
    IN  /\ \A e \in live : \E i \in repeating : Matches(e, entries[i])
        /\ \A i \in repeating :
             Cardinality({e \in live : Matches(e, entries[i])})
               = Cardinality({j \in repeating : entries[j] = entries[i]})

\* A daily event in the schedule triggers at its hour and at most a day from
\* now, however late the handler ran (event.h, next_trigger).
DailyOnTime ==
  \A e \in scheduled : event[e].type = "DAILY" =>
    /\ next_trigger[e] % DAY = event[e].localoffset % DAY
    /\ next_trigger[e] <= clock + DAY

\* Events are executed in the order of their trigger times, over late service
\* and reloads too: the SUSPEND or RESUME in force is the latest one.  What
\* ReloadEmpty commits was parsed at an earlier SIGHUP and may be overdue by
\* then; until the next list replaces it the order is not kept.
ExecutedInOrder ==
  [][configured # None => last_executed' >= last_executed]_vars

\* SIGHUP replaces the events of the list only; an import timeout created by
\* the daemon leaves the schedule by triggering (event.c:528-552).
ImportTimeoutsKept ==
  [][\A e \in scheduled : event[e].source = "INTERNAL" /\ e \notin scheduled'
       => fetched' = e]_vars

\* The handler's loop ends: rescheduled events are ahead of its moment.
PumpEnds == pc = "pump" ~> pc \in {"idle", "failed"}

\* daemon.c:1240 "Set timer to wake up for the next event": in pselect() the
\* schedule timer is armed for the next event, if there is one.
TimerForNextEvent ==
  pc = "idle" /\ scheduled # {} => expiry = next_trigger[Head1]

=============================================================================
