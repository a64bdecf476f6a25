------------------------- MODULE EventScheduleProofs -------------------------
(***************************************************************************)
(* Theorems about EventSchedule for any day, any lists, any number of      *)
(* SIGHUPs and any lateness of the handler: no event is owned twice, daily *)
(* events stay at their hour, execution follows trigger times, and the     *)
(* daemon's own events survive SIGHUP.                                     *)
(***************************************************************************)
EXTENDS EventSchedule, TLAPS, FiniteSetTheorems, WellFoundedInduction

-----------------------------------------------------------------------------
(***************************************************************************)
(* Arithmetic of days.                                                     *)
(***************************************************************************)

\* Midnight before t.
LEMMA Midnight ==
  ASSUME NEW t \in Nat
  PROVE  /\ t % DAY \in 0..DAY - 1
         /\ t - (t % DAY) \in Nat
         /\ t - (t % DAY) <= t /\ t < t - (t % DAY) + DAY
BY Z3, ScheduleAssumption

\* Quotient and remainder are unique.
LEMMA Remainder ==
  ASSUME NEW q \in Nat, NEW r \in 0..DAY - 1
  PROVE  (DAY * q + r) % DAY = r
BY Z3, ScheduleAssumption

LEMMA Division ==
  ASSUME NEW t \in Nat
  PROVE  t \div DAY \in Nat /\ t = DAY * (t \div DAY) + (t % DAY)
BY Z3, ScheduleAssumption

\* The hour of a moment that is an hour after a midnight, and a day later.
LEMMA Hour ==
  ASSUME NEW t \in Nat, NEW h \in 0..DAY - 1
  PROVE  /\ (t - (t % DAY) + h) % DAY = h
         /\ (t - (t % DAY) + h + DAY) % DAY = h
<1> DEFINE q == t \div DAY
<1>1. q \in Nat /\ t - (t % DAY) = DAY * q
  <2>1. q \in Nat /\ t = DAY * q + (t % DAY)
    BY Division
  <2>2. t % DAY \in Nat /\ DAY * q \in Nat
    BY <2>1, Midnight, ScheduleAssumption
  <2> HIDE DEF q
  <2> QED BY <2>1, <2>2
<1>2. (DAY * q + h) % DAY = h
  BY <1>1, Remainder
<1>3. (DAY * (q + 1) + h) % DAY = h
  BY <1>1, Remainder
<1>4. DAY * (q + 1) + h = DAY * q + h + DAY
  BY <1>1, ScheduleAssumption
<1> QED BY <1>1, <1>2, <1>3, <1>4, ScheduleAssumption

\* A daily event triggers at its hour, after now and within a day.
LEMMA NextDaily ==
  ASSUME NEW localoffset \in Nat, NEW previous \in Nat, NEW t \in Nat,
         NEW next, next = NextTrigger("DAILY", localoffset, previous, t)
  PROVE  /\ next \in Nat
         /\ t < next /\ next <= t + DAY
         /\ next % DAY = localoffset % DAY
<1> DEFINE h == localoffset % DAY
           midnight == t - (t % DAY)
           eventtime == midnight + h
<1>1. h \in 0..DAY - 1
  BY Midnight
<1>2. eventtime % DAY = h /\ (eventtime + DAY) % DAY = h
  BY <1>1, Hour
<1>3. eventtime \in Nat /\ t < eventtime + DAY /\ eventtime < t + DAY
  <2>1. midnight \in Nat /\ midnight <= t /\ t < midnight + DAY
    BY Midnight
  <2> HIDE DEF midnight, h
  <2> QED BY <1>1, <2>1, ScheduleAssumption
<1>4. CASE eventtime <= t
  <2>1. next = eventtime + DAY
    <3>1. ~(eventtime > t)
      BY <1>3, <1>4
    <3> QED BY <1>4, <3>1 DEF NextTrigger
  <2> HIDE DEF eventtime
  <2> QED BY <1>2, <1>3, <1>4, <2>1, ScheduleAssumption
<1>5. CASE eventtime > t
  <2>1. next = eventtime
    <3>1. ~(eventtime <= t)
      BY <1>3, <1>5
    <3> QED BY <1>5, <3>1 DEF NextTrigger
  <2> HIDE DEF eventtime
  <2> QED BY <1>2, <1>3, <1>5, <2>1, ScheduleAssumption
<1> QED BY <1>3, <1>4, <1>5

\* Any other event counts from its previous trigger, if it had one.
LEMMA NextOther ==
  ASSUME NEW type, type # "DAILY",
         NEW localoffset \in Nat, NEW previous \in Nat, NEW t \in Nat
  PROVE  NextTrigger(type, localoffset, previous, t)
           = IF previous = 0 THEN t + localoffset ELSE previous + localoffset
<1>1. CASE previous = 0
  BY <1>1 DEF NextTrigger
<1>2. CASE previous # 0
  BY <1>2 DEF NextTrigger
<1> QED BY <1>1, <1>2

\* Whatever is parsed, rescheduled or created has a trigger time, and one that
\* does not count from an earlier one is ahead.
LEMMA NextTyped ==
  ASSUME NEW type, NEW localoffset \in Nat, NEW previous \in Nat, NEW t \in Nat
  PROVE  /\ NextTrigger(type, localoffset, previous, t) \in Nat
         /\ previous = 0 => NextTrigger(type, localoffset, previous, t) >= t
<1> DEFINE next == NextTrigger(type, localoffset, previous, t)
<1>1. CASE type = "DAILY"
  <2>1. next = NextTrigger("DAILY", localoffset, previous, t)
    BY <1>1
  <2> HIDE DEF next
  <2>2. next \in Nat /\ t < next
    BY <2>1, NextDaily
  <2> QED BY <2>2 DEF next
<1>2. CASE type # "DAILY"
  BY <1>2, NextOther
<1> QED BY <1>1, <1>2

-----------------------------------------------------------------------------
(***************************************************************************)
(* Test parsing.                                                           *)
(***************************************************************************)

TypedEntry(entry) ==
  entry.action \in Actions /\ entry.type \in Types /\ entry.localoffset \in Nat

\* POWERONs have an hour of the day too, at the other end of midnight if need be.
LEMMA EntriesTyped ==
  ASSUME NEW list \in Lists
  PROVE  \A k \in DOMAIN TestEntries(list) : TypedEntry(TestEntries(list)[k])
<1> DEFINE kept == {i \in DOMAIN list : list[i].ok}
           resumes == {i \in DOMAIN list : /\ list[i].action = "RESUME"
                                           /\ WellFormed(list) /\ POWERUPDELAY # 0}
<1>1. \A i \in DOMAIN list : TypedEntry(list[i])
  <2>1. list \in Seq(Entry)
    BY ScheduleAssumption
  <2>2. \A i \in DOMAIN list : list[i] \in Entry
    BY <2>1
  <2> QED BY <2>2 DEF Entry, TypedEntry
<1>2. \A i \in DOMAIN list : TypedEntry(PowerOn(list[i]))
  BY <1>1, ScheduleAssumption DEF TypedEntry, PowerOn, Actions, Types
<1>3. Len(list) \in Nat /\ DOMAIN list = 1..Len(list)
  BY ScheduleAssumption
<1>4. \A k \in DOMAIN TestEntries(list) :
        \/ k \in kept /\ TestEntries(list)[k] = list[k]
        \/ \E i \in resumes : TestEntries(list)[k] = PowerOn(list[i])
  <2> SUFFICES ASSUME NEW k \in kept \cup {Len(list) + i : i \in resumes},
                      k \notin kept
               PROVE  \E i \in resumes : k - Len(list) = i
    BY DEF TestEntries
  <2> QED BY <1>3
<1> QED BY <1>1, <1>2, <1>4

EventType ==
  [action: Actions \cup {"(null)"}, type: Types \cup {"(null)"},
   source: {"UNKNOWN", "INTERNAL", "PARSED"}, localoffset: Nat]

\* A daily event that is at its hour and not more than a day ahead.
OnTime(e) ==
  event[e].type = "DAILY" =>
    /\ next_trigger[e] % DAY = event[e].localoffset % DAY
    /\ next_trigger[e] <= clock + DAY

Kept(e) == event'[e] = event[e] /\ next_trigger'[e] = next_trigger[e]
\* An object as the parser leaves it.
Fresh(e) ==
  /\ event'[e].source = "PARSED"
  /\ clock <= next_trigger'[e]
  /\ event'[e].type = "DAILY" =>
       /\ next_trigger'[e] % DAY = event'[e].localoffset % DAY
       /\ next_trigger'[e] <= clock + DAY

\* The parser writes the objects it allocated and nothing else, the caller frees
\* others.
LEMMA ParsedObjects ==
  ASSUME TypeOK,
         NEW entries, \A k \in DOMAIN entries : TypedEntry(entries[k]),
         NEW a, \A k \in DOMAIN entries : a[k] \in Events,
         NEW gone, ParsedInto(entries, a, gone)
  PROVE  /\ event' \in [Events -> EventType]
         /\ next_trigger' \in [Events -> Nat]
         /\ \A k \in DOMAIN entries : Fresh(a[k])
         /\ \A e \in Events : \/ e \in gone
                              \/ \E k \in DOMAIN entries : e = a[k]
                              \/ Kept(e)
<1> DEFINE new == {a[i] : i \in DOMAIN entries}
           At(e) == entries[CHOOSE i \in DOMAIN entries : a[i] = e]
           Made(e) == [action |-> At(e).action, type |-> At(e).type,
                       source |-> "PARSED", localoffset |-> At(e).localoffset]
           Moment(e) == NextTrigger(At(e).type, At(e).localoffset, 0, clock)
<1>1. event' = [e \in Events |-> IF e \in new THEN Made(e)
                                ELSE IF e \in gone THEN NoEvent ELSE event[e]]
  BY DEF ParsedInto
<1>2. next_trigger' = [e \in Events |-> IF e \in new THEN Moment(e)
                                       ELSE IF e \in gone THEN 0 ELSE next_trigger[e]]
  BY DEF ParsedInto
<1>3. /\ clock \in Nat
      /\ event \in [Events -> EventType] /\ next_trigger \in [Events -> Nat]
  BY DEF TypeOK, EventType
<1>4. \A e \in new : TypedEntry(At(e))
  OBVIOUS
<1>5. \A e \in new : Made(e) \in EventType
  BY <1>4 DEF TypedEntry, EventType
<1>6. \A e \in new : Moment(e) \in Nat /\ clock <= Moment(e)
  <2> SUFFICES ASSUME NEW e \in new
               PROVE  Moment(e) \in Nat /\ clock <= Moment(e)
    OBVIOUS
  <2>1. At(e).localoffset \in Nat
    BY <1>4 DEF TypedEntry
  <2> HIDE DEF At
  <2> QED BY <1>3, <2>1, NextTyped
<1>7. \A e \in new : At(e).type = "DAILY" =>
        Moment(e) % DAY = At(e).localoffset % DAY /\ Moment(e) <= clock + DAY
  <2> SUFFICES ASSUME NEW e \in new, At(e).type = "DAILY"
               PROVE  /\ Moment(e) % DAY = At(e).localoffset % DAY
                      /\ Moment(e) <= clock + DAY
    OBVIOUS
  <2> DEFINE localoffset == At(e).localoffset
             next == Moment(e)
  <2>1. localoffset \in Nat
    BY <1>4 DEF TypedEntry
  <2>2. next = NextTrigger("DAILY", localoffset, 0, clock)
    OBVIOUS
  <2> HIDE DEF localoffset, next
  <2>3. next % DAY = localoffset % DAY /\ next <= clock + DAY
    BY <1>3, <2>1, <2>2, NextDaily
  <2> QED BY <2>3 DEF localoffset, next
<1>8. NoEvent \in EventType
  BY DEF NoEvent, EventType
<1> HIDE DEF Moment, At
<1>9. event' \in [Events -> EventType]
  <2> HIDE DEF Made, new
  <2> QED BY <1>1, <1>3, <1>5, <1>8
<1>10. next_trigger' \in [Events -> Nat]
  <2> HIDE DEF new
  <2> QED BY <1>2, <1>3, <1>6
<1>11. ASSUME NEW k \in DOMAIN entries
       PROVE  Fresh(a[k])
  <2>1. a[k] \in new /\ a[k] \in Events
    OBVIOUS
  <2>2. event'[a[k]] = Made(a[k]) /\ next_trigger'[a[k]] = Moment(a[k])
    BY <1>1, <1>2, <2>1
  <2> QED BY <1>6, <1>7, <2>1, <2>2 DEF Fresh
<1>12. ASSUME NEW e \in Events, e \notin gone, e \notin new
       PROVE  Kept(e)
  BY <1>1, <1>2, <1>12 DEF Kept
<1> QED BY <1>9, <1>10, <1>11, <1>12

\* Memory is allocated once for each entry, from what is free.
LEMMA AllocatedMemory ==
  ASSUME NEW entries, NEW memory, Allocations(entries, memory) # {}
  PROVE  \A k \in DOMAIN entries : Allocated(entries, memory)[k] \in memory
<1>1. Allocated(entries, memory) \in Allocations(entries, memory)
  BY DEF Allocated
<1> QED BY <1>1 DEF Allocations

MadeOf(list, memory) ==
  {Allocated(TestEntries(list), memory)[k] : k \in DOMAIN TestEntries(list)}

\* What the steps that parse a list do to the objects.
LEMMA ListParsed ==
  ASSUME TypeOK, NEW list \in Lists, NEW memory \in SUBSET Events, NEW gone,
         Allocations(TestEntries(list), memory) # {},
         ParsedInto(TestEntries(list), Allocated(TestEntries(list), memory), gone)
  PROVE  /\ event' \in [Events -> EventType]
         /\ next_trigger' \in [Events -> Nat]
         /\ MadeOf(list, memory) \subseteq memory
         /\ \A e \in MadeOf(list, memory) : Fresh(e)
         /\ \A e \in Events \ (gone \cup MadeOf(list, memory)) : Kept(e)
<1> DEFINE entries == TestEntries(list)
           a == Allocated(entries, memory)
<1>1. \A k \in DOMAIN entries : TypedEntry(entries[k])
  BY EntriesTyped
<1>2. \A k \in DOMAIN entries : a[k] \in memory
  BY AllocatedMemory
<1>3. MadeOf(list, memory) = {a[k] : k \in DOMAIN entries}
  BY DEF MadeOf
<1> HIDE DEF entries, a
<1>4. /\ event' \in [Events -> EventType]
      /\ next_trigger' \in [Events -> Nat]
      /\ \A k \in DOMAIN entries : Fresh(a[k])
      /\ \A e \in Events : \/ e \in gone
                           \/ \E k \in DOMAIN entries : e = a[k]
                           \/ Kept(e)
  <2>1. ParsedInto(entries, a, gone)
    BY DEF entries, a
  <2> QED BY <1>1, <1>2, <2>1, ParsedObjects
<1> QED BY <1>2, <1>3, <1>4

\* What a SIGHUP without a list does to them: it frees.
LEMMA NothingParsed ==
  ASSUME TypeOK, NEW gone, ParsedInto(<<>>, <<>>, gone)
  PROVE  /\ event' \in [Events -> EventType]
         /\ next_trigger' \in [Events -> Nat]
         /\ \A e \in Events \ gone : Kept(e)
<1>1. DOMAIN <<>> = {}
  OBVIOUS
<1>2. \A k \in DOMAIN <<>> : TypedEntry(<<>>[k]) /\ <<>>[k] \in Events
  BY <1>1
<1> QED BY <1>1, <1>2, ParsedObjects

-----------------------------------------------------------------------------
(***************************************************************************)
(* The invariant.  What is in the heap, in the test schedule and in the    *)
(* hands of the handler are different objects (TypeOK); what the parser    *)
(* left is marked as such, which is why clearing the schedule finds it;    *)
(* and daily events are at their hour before they are committed.           *)
(***************************************************************************)
ScheduleInv ==
  /\ pc \in {"execute", "reschedule"} => fetched \in Events
  /\ pc = "init" => scheduled = {} /\ Parsed = {}
  /\ now <= clock
  /\ \A e \in Parsed : IsParsed(e)
  /\ \A e \in scheduled \cup Parsed : OnTime(e)

\* All that TypeOK says of the objects and their owners.
ObjectsTyped ==
  /\ event \in [Events -> EventType]
  /\ next_trigger \in [Events -> Nat]
  /\ scheduled \subseteq Events /\ Parsed \subseteq Events
  /\ scheduled \cap Parsed = {} /\ Handling \cap (scheduled \cup Parsed) = {}
\* ... and of the other variables.
RestTyped ==
  /\ clock \in Nat /\ now \in Nat /\ expiry \in Nat
  /\ fetched \in Events \cup {None}
  /\ pc \in {"init", "idle", "pump", "execute", "reschedule", "failed"}
  /\ suspended_by_schedule \in BOOLEAN
  /\ last_executed \in Nat /\ configured \in Lists \cup {<<>>, None}
  /\ n_reloads \in 0..MaxReloads

LEMMA TypeParts == TypeOK <=> ObjectsTyped /\ RestTyped
BY DEF TypeOK, ObjectsTyped, RestTyped, EventType

LEMMA TypePartsNext == TypeOK' <=> ObjectsTyped' /\ RestTyped'
BY DEF TypeOK, ObjectsTyped, RestTyped, EventType

\* Some moment is the first: the smaller a number, the smaller the finite set
\* of those up to it.
LEMMA FirstMoment ==
  ASSUME NEW T \in SUBSET Nat, T # {}
  PROVE  \E m \in T : \A k \in T : m <= k
<1> DEFINE UpTo == {1..k : k \in T}
<1>1. UpTo \subseteq FiniteSubsetsOf(Nat) /\ UpTo # {}
  <2>1. ASSUME NEW k \in T PROVE 1..k \in FiniteSubsetsOf(Nat)
    <3>1. IsFiniteSet(1..k)
      BY FS_Interval
    <3> QED BY <3>1 DEF FiniteSubsetsOf
  <2> QED BY <2>1
<1>2. PICK M \in UpTo : \A K \in UpTo : ~(<<K, M>> \in StrictSubsetOrdering(Nat))
  <2>1. IsWellFoundedOn(StrictSubsetOrdering(Nat), FiniteSubsetsOf(Nat))
    BY FS_StrictSubsetOrderingWellFounded
  <2> HIDE DEF UpTo
  <2> QED BY <1>1, <2>1, WFMin
<1>3. PICK m \in T : M = 1..m
  OBVIOUS
<1>4. ASSUME NEW k \in T, k < m PROVE FALSE
  <2>1. 1..k \subseteq 1..m /\ 1..k # 1..m /\ 1..m \subseteq Nat
    <3>1. m \in 1..m /\ m \notin 1..k
      BY <1>4
    <3> QED BY <1>4, <3>1
  <2>2. <<1..k, M>> \in StrictSubsetOrdering(Nat)
    BY <1>3, <2>1 DEF StrictSubsetOrdering
  <2>3. 1..k \in UpTo
    OBVIOUS
  <2> HIDE DEF UpTo
  <2> QED BY <1>2, <2>2, <2>3
<1> QED BY <1>4

\* The heap has a root as long as there are events.
LEMMA HeadExists ==
  ASSUME ObjectsTyped, scheduled # {}
  PROVE  Head1 \in scheduled /\ Heap!Earliest(Head1)
<1> DEFINE T == {next_trigger[e] : e \in scheduled}
<1>1. T \in SUBSET Nat /\ T # {}
  BY DEF ObjectsTyped
<1>2. PICK m \in T : \A k \in T : m <= k
  BY <1>1, FirstMoment
<1>3. PICK e \in scheduled : m = next_trigger[e]
  BY <1>2
<1>4. Heap!Earliest(e)
  BY <1>2, <1>3 DEF Heap!Earliest
<1> QED BY <1>4 DEF Head1

\* The timer is set to a moment of time, or not at all.
LEMMA ArmedTime == ASSUME ObjectsTyped PROVE ArmForHead \in Nat
<1>1. CASE scheduled = {}
  BY <1>1 DEF ArmForHead
<1>2. CASE scheduled # {}
  BY <1>2, HeadExists DEF ArmForHead, ObjectsTyped
<1> QED BY <1>1, <1>2

-----------------------------------------------------------------------------
(***************************************************************************)
(* Type correctness: objects and owners first.                             *)
(***************************************************************************)
\* Steps that touch neither objects nor owners.
LEMMA ObjectsQuiet ==
  ASSUME ObjectsTyped, UNCHANGED objects, Handling' \subseteq Handling
  PROVE  ObjectsTyped'
BY DEF ObjectsTyped, objects, Parsed

\* A list was parsed: what is scheduled and what is tested then.
LEMMA ObjectsParsed ==
  ASSUME ObjectsTyped, event' \in [Events -> EventType], next_trigger' \in [Events -> Nat],
         scheduled' \subseteq Events, Parsed' \subseteq Events,
         scheduled' \cap Parsed' = {}, Handling' = {}
  PROVE  ObjectsTyped'
BY DEF ObjectsTyped

LEMMA ObjectsStep ==
  ASSUME TypeOK, ScheduleInv, Next
  PROVE  ObjectsTyped'
<1> USE TypeParts
<1>1. Parsed \subseteq Events /\ Free \subseteq Events
  BY DEF ObjectsTyped, Free
<1>2. ASSUME NEW list \in Lists, Startup(list)
      PROVE  ObjectsTyped'
  <2>1. event' \in [Events -> EventType] /\ next_trigger' \in [Events -> Nat]
        /\ MadeOf(list, Events) \subseteq Events
    BY <1>2, ListParsed DEF Startup
  <2>2. scheduled' = MadeOf(list, Events) /\ Parsed' = {} /\ Handling' = {}
    BY <1>2 DEF Startup, MadeOf, ScheduleInv, Parsed, Handling
  <2> QED BY <2>1, <2>2, ObjectsParsed
<1>3. ASSUME NEW list \in Lists, ReloadRejected(list)
      PROVE  ObjectsTyped'
  <2> DEFINE made == MadeOf(list, Free \cup Parsed)
  <2>1. /\ event' \in [Events -> EventType] /\ next_trigger' \in [Events -> Nat]
        /\ made \subseteq Free \cup Parsed
    BY <1>1, <1>3, ListParsed DEF ReloadRejected
  <2>2. scheduled' = scheduled /\ Parsed' \subseteq made /\ Handling' = {}
    BY <1>3 DEF ReloadRejected, MadeOf, Parsed, Handling
  <2>3. scheduled \cap made = {}
    BY <2>1 DEF ObjectsTyped, Free
  <2> HIDE DEF made
  <2> QED BY <1>1, <2>1, <2>2, <2>3, ObjectsParsed DEF ObjectsTyped
<1>4. ASSUME NEW list \in Lists, Reload(list)
      PROVE  ObjectsTyped'
  <2> DEFINE made == MadeOf(list, Free \cup Parsed)
  <2>1. /\ event' \in [Events -> EventType] /\ next_trigger' \in [Events -> Nat]
        /\ made \subseteq Free \cup Parsed
    BY <1>1, <1>4, ListParsed DEF Reload
  <2>2. /\ scheduled' \subseteq scheduled \cup made
        /\ Parsed' = {} /\ Handling' = {}
    BY <1>4 DEF Reload, MadeOf, Parsed, Handling
  <2> HIDE DEF made
  <2> QED BY <1>1, <2>1, <2>2, ObjectsParsed DEF ObjectsTyped
<1>5. ASSUME NEW list \in Lists, ReloadEmpty(list)
      PROVE  ObjectsTyped'
  <2>1. event' \in [Events -> EventType] /\ next_trigger' \in [Events -> Nat]
    BY <1>5, NothingParsed DEF ReloadEmpty
  <2>2. /\ scheduled' \subseteq scheduled \cup Parsed
        /\ Parsed' = {} /\ Handling' = {}
    BY <1>5 DEF ReloadEmpty, Parsed, Handling
  <2> QED BY <1>1, <2>1, <2>2, ObjectsParsed DEF ObjectsTyped
<1>6. CASE Serve \/ Execute \/ RescheduleFails \/ PumpEnd \/ Tick
  <2>1. UNCHANGED objects
    BY <1>6 DEF Serve, Execute, RescheduleFails, PumpEnd, Tick
  <2>2. Handling' \subseteq Handling
    BY <1>6, <2>1 DEF Serve, Execute, RescheduleFails, PumpEnd, Tick, Handling, objects
  <2> QED BY <2>1, <2>2, ObjectsQuiet
<1>7. CASE Take
  <2>1. /\ scheduled' = scheduled \ {fetched'} /\ fetched' \in scheduled
        /\ UNCHANGED <<event, next_trigger, g_parsed>> /\ Handling' = {fetched'}
    BY <1>7 DEF Take, Heap!Fetch, Heap!Earliest, Handling
  <2> QED BY <2>1 DEF ObjectsTyped, Parsed
<1>8. CASE ExecuteImport
  <2> DEFINE e == CHOOSE x \in Free : TRUE
             t == NextTrigger("ONCE", IMPORTTMPFS_TIMEOUT, 0, clock)
  <2>1. e \in Free /\ e \in Events
    BY <1>1, <1>8 DEF ExecuteImport
  <2>2. t \in Nat
    BY NextTyped, ScheduleAssumption DEF RestTyped
  <2> HIDE DEF t
  <2>3. /\ event' = [event EXCEPT ![e] = ImportTimeout]
        /\ next_trigger' = [next_trigger EXCEPT ![e] = t]
        /\ scheduled' = scheduled \cup {e} /\ fetched' = fetched /\ g_parsed' = g_parsed
    BY <1>8 DEF ExecuteImport, Heap!Insert, t
  <2>4. Handling' = Handling
    BY <1>8, <2>3 DEF ExecuteImport, Handling
  <2>5. ImportTimeout \in EventType
    BY ScheduleAssumption DEF ImportTimeout, EventType, Actions, Types
  <2> HIDE DEF e
  <2>6. event' \in [Events -> EventType] /\ next_trigger' \in [Events -> Nat]
    BY <2>1, <2>2, <2>3, <2>5 DEF ObjectsTyped
  <2> QED BY <2>1, <2>3, <2>4, <2>6 DEF ObjectsTyped, Parsed, Free
<1>9. CASE Reschedule
  <2>1. fetched \in Handling /\ fetched \in Events
    BY <1>9 DEF Reschedule, ScheduleInv, Handling
  <2>2. RescheduleTime \in Nat
    <3>1. event[fetched].localoffset \in Nat /\ next_trigger[fetched] \in Nat
      BY <2>1 DEF ObjectsTyped, EventType
    <3> QED BY <3>1, NextTyped DEF RescheduleTime, RestTyped
  <2>3. /\ next_trigger' = [next_trigger EXCEPT ![fetched] = RescheduleTime]
        /\ scheduled' = scheduled \cup {fetched} /\ Handling' = {}
        /\ UNCHANGED <<event, g_parsed>>
    BY <1>9 DEF Reschedule, Heap!Insert, Handling
  <2> QED BY <2>1, <2>2, <2>3 DEF ObjectsTyped, Parsed
<1>10. CASE Release
  <2>1. fetched \in Events /\ NoEvent \in EventType
    BY <1>10 DEF Release, ScheduleInv, NoEvent, EventType
  <2>2. /\ event' = [event EXCEPT ![fetched] = NoEvent]
        /\ next_trigger' = [next_trigger EXCEPT ![fetched] = 0]
        /\ UNCHANGED <<scheduled, g_parsed>> /\ Handling' = {}
    BY <1>10 DEF Release, Handling
  <2> QED BY <2>1, <2>2 DEF ObjectsTyped, Parsed
<1> QED BY <1>2, <1>3, <1>4, <1>5, <1>6, <1>7, <1>8, <1>9, <1>10 DEF Next, Handler

LEMMA RestStep ==
  ASSUME TypeOK, ScheduleInv, Next
  PROVE  RestTyped'
<1> USE TypeParts DEF RestTyped
<1>1. ArmForHead \in Nat
  BY ArmedTime
<1>2. ASSUME NEW list \in Lists,
             \/ Startup(list) \/ ReloadRejected(list) \/ Reload(list) \/ ReloadEmpty(list)
      PROVE  RestTyped'
  <2>1. n_reloads' \in 0..MaxReloads
    BY <1>2, ScheduleAssumption DEF Startup, ReloadRejected, Reload, ReloadEmpty
  <2>2. configured' \in Lists \cup {<<>>, None}
    BY <1>2 DEF Startup, ReloadRejected, Reload, ReloadEmpty
  <2>3. expiry' \in Nat
    BY <1>1, <1>2 DEF Startup, ReloadRejected, Reload, ReloadEmpty, timer
  <2> QED BY <1>2, <2>1, <2>2, <2>3
        DEF Startup, ReloadRejected, Reload, ReloadEmpty, timer
<1>3. CASE Serve \/ RescheduleFails \/ PumpEnd \/ Tick
  BY <1>1, <1>3 DEF Serve, RescheduleFails, PumpEnd, Tick, timer, objects
<1>4. CASE Take
  <2>1. fetched' \in Events
    BY <1>4 DEF Take, Heap!Fetch, Heap!Earliest, ObjectsTyped
  <2> QED BY <1>4, <2>1 DEF Take, timer
<1>5. CASE Execute \/ ExecuteImport
  <2>1. last_executed' \in Nat
    <3>1. last_executed' = next_trigger[fetched] /\ pc = "execute"
      BY <1>5 DEF Execute, ExecuteImport
    <3> QED BY <3>1 DEF ScheduleInv, ObjectsTyped
  <2>2. suspended_by_schedule' \in BOOLEAN
    <3>1. CASE Execute
      <4>1. CASE event[fetched].action = "SUSPEND"
        BY <3>1, <4>1 DEF Execute
      <4>2. CASE event[fetched].action = "RESUME"
        BY <3>1, <4>2 DEF Execute
      <4>3. CASE event[fetched].action \notin {"SUSPEND", "RESUME"}
        BY <3>1, <4>3 DEF Execute
      <4> QED BY <4>1, <4>2, <4>3
    <3>2. CASE ExecuteImport
      BY <3>2 DEF ExecuteImport
    <3> QED BY <1>5, <3>1, <3>2
  <2>3. fetched' = fetched /\ pc' = "reschedule"
        /\ UNCHANGED <<clock, timer, configured, n_reloads>>
    BY <1>5 DEF Execute, ExecuteImport, objects, Heap!Insert
  <2> QED BY <2>1, <2>2, <2>3 DEF timer
<1>6. CASE Reschedule \/ Release
  BY <1>6 DEF Reschedule, Release, Heap!Insert, timer
<1> QED BY <1>2, <1>3, <1>4, <1>5, <1>6 DEF Next, Handler

LEMMA TypeInit == Init => TypeOK /\ ScheduleInv
<1> SUFFICES ASSUME Init PROVE TypeOK /\ ScheduleInv
  OBVIOUS
<1>1. NoEvent \in EventType
  BY DEF NoEvent, EventType
<1>2. scheduled = {} /\ Parsed = {} /\ Handling = {} /\ fetched = None
  BY DEF Init, Heap!Init, Parsed, Handling
<1>3. event = [e \in Events |-> NoEvent] /\ next_trigger = [e \in Events |-> 0]
  BY DEF Init, Heap!Init
<1>4. ObjectsTyped
  BY <1>1, <1>2, <1>3 DEF ObjectsTyped
<1>5. clock \in Nat
  BY ScheduleAssumption DEF Init
<1>6. RestTyped
  <2>1. now \in Nat /\ expiry \in Nat /\ last_executed \in Nat /\ n_reloads \in 0..MaxReloads
    BY ScheduleAssumption DEF Init
  <2>2. suspended_by_schedule \in BOOLEAN /\ pc = "init"
    BY DEF Init
  <2>3. configured \in {<<>>}
    BY DEF Init
  <2> QED BY <1>2, <1>5, <2>1, <2>2, <2>3 DEF RestTyped
<1>7. ScheduleInv
  BY <1>2, <1>5, ScheduleAssumption DEF Init, ScheduleInv
<1> QED BY <1>4, <1>6, <1>7, TypeParts

-----------------------------------------------------------------------------
(***************************************************************************)
(* Daily events.                                                           *)
(***************************************************************************)
\* An object that is left alone stays at its hour, for time only goes on.
LEMMA StaysOnTime ==
  ASSUME TypeOK, NEW e \in Events, OnTime(e), Kept(e), clock' \in {clock, clock + 1}
  PROVE  OnTime(e)'
<1>1. clock \in Nat /\ next_trigger[e] \in Nat
  BY DEF TypeOK
<1> QED BY <1>1, ScheduleAssumption DEF OnTime, Kept

LEMMA FreshOnTime ==
  ASSUME NEW e, Fresh(e), clock' = clock
  PROVE  OnTime(e)' /\ event'[e].source = "PARSED"
BY DEF Fresh, OnTime

\* What is scheduled or tested after a list was parsed was so before and was left
\* alone, or was made now.
LEMMA ParsedOnTime ==
  ASSUME TypeOK, ScheduleInv, NEW made, clock' = clock,
         \A e \in made : Fresh(e),
         \A e \in (scheduled' \cup Parsed') \ made :
           e \in scheduled \cup Parsed /\ Kept(e)
  PROVE  \A e \in scheduled' \cup Parsed' : OnTime(e)'
<1> SUFFICES ASSUME NEW e \in scheduled' \cup Parsed' PROVE OnTime(e)'
  OBVIOUS
<1>1. CASE e \in made
  BY <1>1, FreshOnTime
<1>2. CASE e \notin made
  <2>1. e \in Events /\ OnTime(e) /\ Kept(e)
    BY <1>2 DEF TypeOK, ScheduleInv
  <2> QED BY <2>1, StaysOnTime
<1> QED BY <1>1, <1>2

\* All parts of the invariant after a list was parsed.
LEMMA ParsedInv ==
  ASSUME TypeOK, ScheduleInv, NEW made, UNCHANGED <<clock, now>>, pc' = "idle",
         \A e \in made : Fresh(e),
         \A e \in (scheduled' \cup Parsed') \ made :
           e \in scheduled \cup Parsed /\ Kept(e),
         Parsed' \subseteq made
  PROVE  ScheduleInv'
<1>1. \A e \in scheduled' \cup Parsed' : OnTime(e)'
  BY ParsedOnTime
<1>2. \A e \in Parsed' : IsParsed(e)'
  BY DEF Fresh, IsParsed
<1>3. (now <= clock)'
  BY DEF ScheduleInv
<1> QED BY <1>1, <1>2, <1>3 DEF ScheduleInv

LEMMA ScheduleStep ==
  ASSUME TypeOK, ScheduleInv, Next
  PROVE  ScheduleInv'
<1> USE TypeParts
<1>1. Parsed \subseteq Events /\ Free \subseteq Events /\ scheduled \subseteq Events
  BY DEF ObjectsTyped, Free
<1>2. ASSUME NEW list \in Lists, Startup(list)
      PROVE  ScheduleInv'
  <2> DEFINE made == MadeOf(list, Events)
  <2>1. \A e \in made : Fresh(e)
    BY <1>2, ListParsed DEF Startup
  <2>2. scheduled' = made /\ Parsed' = {}
    BY <1>2 DEF Startup, MadeOf, ScheduleInv, Parsed
  <2>3. UNCHANGED <<clock, now>> /\ pc' = "idle"
    BY <1>2 DEF Startup, timer
  <2> HIDE DEF made
  <2> QED BY <2>1, <2>2, <2>3, ParsedInv
<1>3. ASSUME NEW list \in Lists, ReloadRejected(list)
      PROVE  ScheduleInv'
  <2> DEFINE made == MadeOf(list, Free \cup Parsed)
  <2>1. /\ made \subseteq Free \cup Parsed
        /\ \A e \in made : Fresh(e)
        /\ \A e \in Events \ (Parsed \cup made) : Kept(e)
    BY <1>1, <1>3, ListParsed DEF ReloadRejected
  <2>2. scheduled' = scheduled /\ Parsed' \subseteq made
    BY <1>3 DEF ReloadRejected, MadeOf, Parsed
  <2>3. UNCHANGED <<clock, now>> /\ pc' = "idle"
    BY <1>3 DEF ReloadRejected, timer
  <2>4. scheduled \cap (Parsed \cup made) = {}
    BY <2>1 DEF ObjectsTyped, Free
  <2> HIDE DEF made
  <2> QED BY <1>1, <2>1, <2>2, <2>3, <2>4, ParsedInv
<1>4. ASSUME NEW list \in Lists, Reload(list)
      PROVE  ScheduleInv'
  <2> DEFINE made == MadeOf(list, Free \cup Parsed)
             gone == {e \in scheduled : IsParsed(e)}
  <2>1. /\ \A e \in made : Fresh(e)
        /\ \A e \in Events \ (Parsed \cup gone \cup made) : Kept(e)
    BY <1>1, <1>4, ListParsed DEF Reload
  <2>2. scheduled' = (scheduled \ gone) \cup made /\ Parsed' = {}
    BY <1>4 DEF Reload, MadeOf, Parsed
  <2>3. UNCHANGED <<clock, now>> /\ pc' = "idle"
    BY <1>4 DEF Reload
  <2>4. scheduled \cap Parsed = {}
    BY DEF ObjectsTyped
  <2> HIDE DEF made, gone
  <2> QED BY <1>1, <2>1, <2>2, <2>3, <2>4, ParsedInv
<1>5. ASSUME NEW list \in Lists, ReloadEmpty(list)
      PROVE  ScheduleInv'
  <2> DEFINE gone == {e \in scheduled : IsParsed(e)}
  <2>1. \A e \in Events \ gone : Kept(e)
    BY <1>5, NothingParsed DEF ReloadEmpty
  <2>2. scheduled' = (scheduled \ gone) \cup Parsed /\ Parsed' = {}
    BY <1>5 DEF ReloadEmpty, Parsed
  <2>3. UNCHANGED <<clock, now>> /\ pc' = "idle"
    BY <1>5 DEF ReloadEmpty
  <2>4. scheduled \cap Parsed = {} /\ gone \subseteq scheduled
    BY DEF ObjectsTyped
  <2> HIDE DEF gone
  <2>5. \A e \in {} : Fresh(e)
    OBVIOUS
  <2> QED BY <1>1, <2>1, <2>2, <2>3, <2>4, <2>5, ParsedInv
<1>6. ASSUME NEW e \in Events, OnTime(e), Kept(e), clock' \in {clock, clock + 1}
      PROVE  OnTime(e)'
  BY <1>6, StaysOnTime
<1>7. CASE Serve \/ Execute \/ RescheduleFails \/ PumpEnd \/ Tick
  <2>1. UNCHANGED objects /\ clock' \in {clock, clock + 1}
    BY <1>7 DEF Serve, Execute, RescheduleFails, PumpEnd, Tick
  <2>2. /\ \A e \in Events : Kept(e)
        /\ scheduled' = scheduled /\ Parsed' = Parsed /\ fetched' = fetched
    BY <2>1 DEF objects, Kept, Parsed
  <2>3. \A e \in scheduled' \cup Parsed' : OnTime(e)'
    BY <1>1, <1>6, <2>1, <2>2 DEF ScheduleInv
  <2>4. \A e \in Parsed' : IsParsed(e)'
    BY <1>1, <2>2 DEF ScheduleInv, IsParsed, Kept
  <2>5. (now <= clock)'
    <3>1. now \in Nat /\ clock \in Nat /\ now <= clock
      BY DEF ScheduleInv, RestTyped
    <3>2. clock <= clock'
      BY <2>1, <3>1
    <3>3. now' \in {now, clock, 0}
      BY <1>7 DEF Serve, Execute, RescheduleFails, PumpEnd, Tick, timer
    <3> QED BY <2>1, <3>1, <3>2, <3>3
  <2>6. /\ pc' \in {"execute", "reschedule"} => pc \in {"execute", "reschedule"}
        /\ pc' = "init" => pc = "init"
    BY <1>7 DEF Serve, Execute, RescheduleFails, PumpEnd, Tick
  <2> QED BY <2>2, <2>3, <2>4, <2>5, <2>6 DEF ScheduleInv
<1>8. CASE Take
  <2>1. /\ scheduled' \subseteq scheduled /\ fetched' \in scheduled
        /\ UNCHANGED <<clock, event, next_trigger, g_parsed, now>> /\ pc' = "execute"
    BY <1>8 DEF Take, Heap!Fetch, Heap!Earliest, timer
  <2> QED BY <1>1, <1>6, <2>1 DEF ScheduleInv, Parsed, Kept, IsParsed
<1>9. CASE ExecuteImport
  <2> DEFINE t == NextTrigger("ONCE", IMPORTTMPFS_TIMEOUT, 0, clock)
  <2>1. PICK new \in Free : new = CHOOSE x \in Free : TRUE
    BY <1>9 DEF ExecuteImport
  <2>2. /\ event' = [event EXCEPT ![new] = ImportTimeout]
        /\ next_trigger' = [next_trigger EXCEPT ![new] = t]
        /\ scheduled' = scheduled \cup {new} /\ Parsed' = Parsed
        /\ UNCHANGED <<clock, now, fetched>>
        /\ pc = "execute" /\ pc' = "reschedule"
    BY <1>9, <2>1 DEF ExecuteImport, Heap!Insert, Parsed, timer
  <2> HIDE DEF t
  <2>3. \A e \in Events \ {new} : Kept(e)
    BY <2>2 DEF Kept, ObjectsTyped
  <2>4. OnTime(new)'
    <3>1. event'[new] = ImportTimeout
      BY <1>1, <2>1, <2>2 DEF ObjectsTyped
    <3> QED BY <3>1 DEF OnTime, ImportTimeout
  <2>5. new \notin Parsed
    BY <2>1 DEF Free
  <2>6. \A e \in scheduled' \cup Parsed' : OnTime(e)'
    <3>1. \A e \in Events \ {new} : OnTime(e) => OnTime(e)'
      BY <1>6, <2>2, <2>3
    <3> QED BY <1>1, <2>2, <2>4, <3>1 DEF ScheduleInv
  <2> QED BY <1>1, <2>2, <2>3, <2>5, <2>6 DEF ScheduleInv, IsParsed, Kept
<1>10. CASE Reschedule
  <2>1. PICK moved \in Events : moved = fetched /\ moved \notin Parsed
    BY <1>10 DEF Reschedule, ScheduleInv, ObjectsTyped, Handling
  <2>2. /\ next_trigger' = [next_trigger EXCEPT ![moved] = RescheduleTime]
        /\ scheduled' = scheduled \cup {moved} /\ Parsed' = Parsed
        /\ UNCHANGED <<clock, now, event>> /\ pc' = "pump"
    BY <1>10, <2>1 DEF Reschedule, Heap!Insert, Parsed, timer
  <2>3. \A e \in Events \ {moved} : Kept(e)
    BY <2>2 DEF Kept, ObjectsTyped
  <2>4. OnTime(moved)'
    <3> SUFFICES ASSUME event[moved].type = "DAILY"
                 PROVE  /\ RescheduleTime % DAY = event[moved].localoffset % DAY
                        /\ RescheduleTime <= clock + DAY
      <4>1. next_trigger'[moved] = RescheduleTime /\ event' = event /\ clock' = clock
        BY <2>1, <2>2 DEF ObjectsTyped
      <4> QED BY <4>1 DEF OnTime
    <3> DEFINE offset == event[moved].localoffset
               last == next_trigger[moved]
               next == RescheduleTime
    <3>1. offset \in Nat /\ last \in Nat
      BY <2>1 DEF ObjectsTyped, EventType
    <3>2. next = NextTrigger("DAILY", offset, last, clock)
      BY <2>1 DEF RescheduleTime
    <3>3. clock \in Nat
      BY DEF RestTyped
    <3> HIDE DEF offset, last, next
    <3>4. next % DAY = offset % DAY /\ next <= clock + DAY
      BY <3>1, <3>2, <3>3, NextDaily
    <3> QED BY <3>4 DEF offset, next
  <2>5. \A e \in scheduled' \cup Parsed' : OnTime(e)'
    <3>1. \A e \in Events \ {moved} : OnTime(e) => OnTime(e)'
      BY <1>6, <2>2, <2>3
    <3> QED BY <1>1, <2>1, <2>2, <2>4, <3>1 DEF ScheduleInv
  <2> QED BY <2>2, <2>5 DEF ScheduleInv, IsParsed
<1>11. CASE Release
  <2>1. fetched \in Events /\ fetched \notin scheduled \cup Parsed
    BY <1>11 DEF Release, ScheduleInv, ObjectsTyped, Handling
  <2>2. /\ event' = [event EXCEPT ![fetched] = NoEvent]
        /\ next_trigger' = [next_trigger EXCEPT ![fetched] = 0]
        /\ scheduled' = scheduled /\ Parsed' = Parsed
        /\ UNCHANGED <<clock, now>> /\ pc' = "pump"
    BY <1>11 DEF Release, Parsed, timer
  <2>3. \A e \in Events \ {fetched} : Kept(e)
    BY <2>2 DEF Kept, ObjectsTyped
  <2>4. \A e \in scheduled' \cup Parsed' : OnTime(e)'
    BY <1>1, <1>6, <2>1, <2>2, <2>3 DEF ScheduleInv
  <2> QED BY <1>1, <2>1, <2>2, <2>3, <2>4 DEF ScheduleInv, IsParsed, Kept
<1> QED BY <1>2, <1>3, <1>4, <1>5, <1>7, <1>8, <1>9, <1>10, <1>11 DEF Next, Handler

-----------------------------------------------------------------------------
(***************************************************************************)
(* The order of execution.  What is in the heap triggers no earlier than   *)
(* what was executed last, unless it was committed by a SIGHUP with no     *)
(* list; the event in the hands of the handler was the earliest.           *)
(***************************************************************************)
InOrder(e) == last_executed <= next_trigger[e] \/ (configured = None /\ IsParsed(e))
OrderInv ==
  /\ last_executed <= clock
  /\ \A e \in scheduled : InOrder(e)
  /\ pc = "execute" => /\ next_trigger[fetched] <= now
                       /\ InOrder(fetched)
                       /\ \A e \in scheduled : next_trigger[fetched] <= next_trigger[e]

\* After a list was parsed: what stayed was in order and still is, or it was made
\* now, or nobody promises anything of it.
LEMMA ParsedInOrder ==
  ASSUME TypeOK, OrderInv, NEW made, pc' # "execute",
         UNCHANGED <<clock, last_executed>>,
         \A e \in made : Fresh(e) /\ e \in Events,
         next_trigger' \in [Events -> Nat],
         \A e \in scheduled' \ made :
           \/ e \in scheduled /\ Kept(e) /\ configured' = configured
           \/ e \in scheduled /\ Kept(e) /\ ~IsParsed(e)
           \/ configured' = None /\ IsParsed(e)'
  PROVE  OrderInv'
<1>1. clock \in Nat /\ last_executed \in Nat /\ last_executed <= clock
  BY DEF TypeOK, OrderInv
<1>2. ASSUME NEW e \in scheduled' PROVE InOrder(e)'
  <2>1. CASE e \in made
    <3>1. next_trigger'[e] \in Nat /\ clock <= next_trigger'[e]
      BY <2>1 DEF Fresh
    <3> QED BY <1>1, <3>1 DEF InOrder
  <2>2. CASE e \in scheduled /\ Kept(e) /\ configured' = configured
    BY <2>2 DEF InOrder, Kept, OrderInv, IsParsed
  <2>3. CASE e \in scheduled /\ Kept(e) /\ ~IsParsed(e)
    BY <2>3 DEF InOrder, Kept, OrderInv, IsParsed
  <2>4. CASE configured' = None /\ IsParsed(e)'
    BY <2>4 DEF InOrder
  <2> QED BY <2>1, <2>2, <2>3, <2>4
<1> QED BY <1>1, <1>2 DEF OrderInv

LEMMA OrderStep ==
  ASSUME TypeOK, ScheduleInv, OrderInv, Next
  PROVE  OrderInv'
<1> USE TypeParts
<1>1. /\ Parsed \subseteq Events /\ Free \subseteq Events /\ scheduled \subseteq Events
      /\ \A e \in Events : next_trigger[e] \in Nat
      /\ clock \in Nat /\ now \in Nat /\ now <= clock
      /\ last_executed \in Nat /\ last_executed <= clock
  BY DEF ObjectsTyped, RestTyped, Free, ScheduleInv, OrderInv
<1>2. ASSUME NEW list \in Lists, Startup(list)
      PROVE  OrderInv'
  <2> DEFINE made == MadeOf(list, Events)
  <2>1. /\ \A e \in made : Fresh(e) /\ e \in Events
        /\ next_trigger' \in [Events -> Nat]
    BY <1>2, ListParsed DEF Startup
  <2>2. /\ scheduled' = made /\ pc' # "execute"
        /\ UNCHANGED <<clock, last_executed>>
    BY <1>2 DEF Startup, MadeOf
  <2> HIDE DEF made
  <2> QED BY <2>1, <2>2, ParsedInOrder
<1>3. ASSUME NEW list \in Lists, ReloadRejected(list)
      PROVE  OrderInv'
  <2> DEFINE made == MadeOf(list, Free \cup Parsed)
  <2>1. /\ made \subseteq Free \cup Parsed
        /\ \A e \in made : Fresh(e)
        /\ \A e \in Events \ (Parsed \cup made) : Kept(e)
        /\ next_trigger' \in [Events -> Nat]
    BY <1>1, <1>3, ListParsed DEF ReloadRejected
  <2>2. /\ scheduled' = scheduled /\ pc' # "execute"
        /\ UNCHANGED <<clock, last_executed, configured>>
    BY <1>3 DEF ReloadRejected
  <2>3. scheduled \cap (Parsed \cup made) = {}
    BY <2>1 DEF ObjectsTyped, Free
  <2> HIDE DEF made
  <2> QED BY <1>1, <2>1, <2>2, <2>3, ParsedInOrder
<1>4. ASSUME NEW list \in Lists, Reload(list)
      PROVE  OrderInv'
  <2> DEFINE made == MadeOf(list, Free \cup Parsed)
             gone == {e \in scheduled : IsParsed(e)}
  <2>1. /\ made \subseteq Events
        /\ \A e \in made : Fresh(e)
        /\ \A e \in Events \ (Parsed \cup gone \cup made) : Kept(e)
        /\ next_trigger' \in [Events -> Nat]
    BY <1>1, <1>4, ListParsed DEF Reload
  <2>2. /\ scheduled' = (scheduled \ gone) \cup made /\ pc' # "execute"
        /\ UNCHANGED <<clock, last_executed>>
    BY <1>4 DEF Reload, MadeOf
  <2>3. scheduled \cap Parsed = {}
    BY DEF ObjectsTyped
  <2>4. \A e \in scheduled \ gone : ~IsParsed(e)
    OBVIOUS
  <2> HIDE DEF made, gone
  <2>5. \A e \in scheduled' \ made : e \in scheduled /\ Kept(e) /\ ~IsParsed(e)
    BY <1>1, <2>1, <2>2, <2>3, <2>4
  <2> QED BY <2>1, <2>2, <2>5, ParsedInOrder
<1>5. ASSUME NEW list \in Lists, ReloadEmpty(list)
      PROVE  OrderInv'
  <2> DEFINE gone == {e \in scheduled : IsParsed(e)}
  <2>1. /\ \A e \in Events \ gone : Kept(e)
        /\ next_trigger' \in [Events -> Nat]
    BY <1>5, NothingParsed DEF ReloadEmpty
  <2>2. /\ scheduled' = (scheduled \ gone) \cup Parsed /\ pc' # "execute"
        /\ UNCHANGED <<clock, last_executed>>
        /\ Parsed # {} => configured' = None
    BY <1>5 DEF ReloadEmpty
  <2>3. scheduled \cap Parsed = {} /\ gone \subseteq scheduled
    BY DEF ObjectsTyped
  <2>4. \A e \in scheduled \ gone : ~IsParsed(e)
    OBVIOUS
  <2> HIDE DEF gone
  <2>5. \A e \in Parsed : IsParsed(e)'
    BY <1>1, <2>1, <2>3 DEF ScheduleInv, IsParsed, Kept
  <2> DEFINE made == {}
  <2>6. \A e \in scheduled' \ made :
          \/ e \in scheduled /\ Kept(e) /\ ~IsParsed(e)
          \/ configured' = None /\ IsParsed(e)'
    BY <1>1, <2>1, <2>2, <2>3, <2>4, <2>5
  <2>7. \A e \in made : Fresh(e) /\ e \in Events
    OBVIOUS
  <2> HIDE DEF made
  <2> QED BY <2>1, <2>2, <2>6, <2>7, ParsedInOrder
<1>6. CASE Serve \/ RescheduleFails \/ PumpEnd \/ Tick
  <2>1. /\ UNCHANGED <<event, next_trigger, scheduled, fetched, last_executed, configured>>
        /\ clock' \in {clock, clock + 1}
        /\ pc' = "execute" => pc = "execute" /\ now' = now
    BY <1>6 DEF Serve, RescheduleFails, PumpEnd, Tick, objects, timer
  <2>2. (last_executed <= clock)'
    BY <1>1, <2>1
  <2>3. \A e \in scheduled' : InOrder(e)'
    BY <2>1 DEF OrderInv, InOrder, IsParsed
  <2>4. ASSUME pc' = "execute"
        PROVE  /\ (next_trigger[fetched] <= now)' /\ InOrder(fetched)'
               /\ \A e \in scheduled' : (next_trigger[fetched] <= next_trigger[e])'
    BY <2>1, <2>4 DEF OrderInv, InOrder, IsParsed
  <2> QED BY <2>2, <2>3, <2>4 DEF OrderInv
<1>7. CASE Take
  <2>1. PICK e \in scheduled : /\ fetched' = e /\ Heap!Earliest(e)
                               /\ scheduled' = scheduled \ {e}
    BY <1>7 DEF Take, Heap!Fetch
  <2>2. /\ \A f \in scheduled : next_trigger[e] <= next_trigger[f]
        /\ UNCHANGED <<clock, event, next_trigger, now, last_executed, configured>>
    BY <1>7, <2>1 DEF Take, Heap!Fetch, Heap!Earliest, timer
  <2>3. PICK d \in scheduled : next_trigger[d] <= now
    BY <1>7 DEF Take, Due
  <2>4. next_trigger[e] <= now
    BY <1>1, <2>2, <2>3
  <2> QED BY <1>1, <2>1, <2>2, <2>4 DEF OrderInv, InOrder, IsParsed
<1>8. CASE Execute
  <2>1. /\ UNCHANGED <<event, next_trigger, scheduled, clock, configured>>
        /\ pc = "execute" /\ pc' = "reschedule"
        /\ last_executed' = next_trigger[fetched]
    BY <1>8 DEF Execute, objects
  <2>2. next_trigger[fetched] \in Nat /\ next_trigger[fetched] <= now
    BY <1>1, <2>1 DEF ScheduleInv, OrderInv
  <2> QED BY <1>1, <2>1, <2>2 DEF OrderInv, InOrder
<1>9. CASE ExecuteImport
  <2> DEFINE t == NextTrigger("ONCE", IMPORTTMPFS_TIMEOUT, 0, clock)
  <2>1. PICK new \in Free : new = CHOOSE x \in Free : TRUE
    BY <1>9 DEF ExecuteImport
  <2>2. t \in Nat /\ clock <= t
    BY <1>1, NextTyped, ScheduleAssumption
  <2>3. /\ next_trigger' = [next_trigger EXCEPT ![new] = t]
        /\ scheduled' = scheduled \cup {new}
        /\ UNCHANGED clock
        /\ pc = "execute" /\ pc' = "reschedule"
        /\ last_executed' = next_trigger[fetched]
    BY <1>9, <2>1 DEF ExecuteImport, Heap!Insert
  <2> HIDE DEF t
  <2>4. next_trigger[fetched] \in Nat /\ next_trigger[fetched] <= now
    BY <1>1, <2>3 DEF ScheduleInv, OrderInv
  <2>5. next_trigger'[new] = t /\ \A e \in Events \ {new} : next_trigger'[e] = next_trigger[e]
    BY <1>1, <2>1, <2>3 DEF ObjectsTyped
  <2>6. last_executed' <= clock /\ last_executed' <= t
    BY <1>1, <2>2, <2>3, <2>4
  <2>7. \A e \in scheduled' : last_executed' <= next_trigger'[e]
    BY <1>1, <2>3, <2>5, <2>6 DEF OrderInv
  <2> QED BY <2>3, <2>6, <2>7 DEF OrderInv, InOrder
<1>10. CASE Reschedule
  <2>1. PICK moved \in Events : moved = fetched
    BY <1>10 DEF Reschedule, ScheduleInv
  <2>2. /\ next_trigger' = [next_trigger EXCEPT ![moved] = RescheduleTime]
        /\ scheduled' = scheduled \cup {moved} /\ pc' = "pump"
        /\ UNCHANGED <<clock, event, last_executed, configured>>
        /\ RescheduleTime >= clock
    BY <1>10, <2>1 DEF Reschedule, Heap!Insert
  <2>3. RescheduleTime \in Nat
    <3>1. event[moved].localoffset \in Nat /\ next_trigger[moved] \in Nat
      BY <2>1 DEF ObjectsTyped, EventType
    <3> QED BY <1>1, <2>1, <3>1, NextTyped DEF RescheduleTime
  <2>4. /\ next_trigger'[moved] = RescheduleTime
        /\ \A e \in Events \ {moved} : next_trigger'[e] = next_trigger[e]
    BY <2>2 DEF ObjectsTyped
  <2>5. last_executed' <= next_trigger'[moved]
    BY <1>1, <2>2, <2>3, <2>4
  <2> QED BY <1>1, <2>2, <2>4, <2>5 DEF OrderInv, InOrder, IsParsed
<1>11. CASE Release
  <2>1. fetched \in Events /\ fetched \notin scheduled
    BY <1>11 DEF Release, ScheduleInv, ObjectsTyped, Handling
  <2>2. /\ event' = [event EXCEPT ![fetched] = NoEvent]
        /\ next_trigger' = [next_trigger EXCEPT ![fetched] = 0]
        /\ UNCHANGED <<scheduled, clock, last_executed, configured>> /\ pc' = "pump"
    BY <1>11 DEF Release
  <2>3. \A e \in scheduled : event'[e] = event[e] /\ next_trigger'[e] = next_trigger[e]
    BY <1>1, <2>1, <2>2 DEF ObjectsTyped
  <2> QED BY <2>2, <2>3 DEF OrderInv, InOrder, IsParsed
<1> QED BY <1>2, <1>3, <1>4, <1>5, <1>6, <1>7, <1>8, <1>9, <1>10, <1>11 DEF Next, Handler

-----------------------------------------------------------------------------
(***************************************************************************)
(* The schedule is that of the list: the repeating entries and the         *)
(* repeating events that live in the heap or in the hands of the handler   *)
(* correspond one to one.                                                  *)
(***************************************************************************)
Repeats(list) ==
  {i \in DOMAIN TestEntries(list) : TestEntries(list)[i].type # "ONCE"}
Live == {e \in scheduled \cup Handling : Repeating(e)}
OneToOne(f, list) ==
  /\ f \in [Repeats(list) -> Live]
  /\ \A i, j \in Repeats(list) : f[i] = f[j] => i = j
  /\ \A e \in Live : \E i \in Repeats(list) : f[i] = e
  /\ \A i \in Repeats(list) : Matches(f[i], TestEntries(list)[i])
FollowInv ==
  pc \notin {"init", "failed"} /\ configured # None => \E f : OneToOne(f, configured)

\* The entries are records of which action, type and hour make the difference.
LEMMA EntryByFields ==
  ASSUME NEW list \in Lists, NEW k \in DOMAIN TestEntries(list)
  PROVE  LET e == TestEntries(list)[k]
         IN  e = [action |-> e.action, type |-> e.type,
                  localoffset |-> e.localoffset, ok |-> TRUE]
<1> DEFINE kept == {i \in DOMAIN list : list[i].ok}
           resumes == {i \in DOMAIN list : /\ list[i].action = "RESUME"
                                           /\ WellFormed(list) /\ POWERUPDELAY # 0}
<1>1. CASE k \in kept
  <2>1. list \in Seq(Entry)
    BY ScheduleAssumption
  <2>2. list[k] \in Entry /\ list[k].ok = TRUE
    <3>1. list[k] \in Entry
      BY <1>1, <2>1
    <3>2. list[k].ok \in BOOLEAN
      BY <3>1 DEF Entry
    <3>3. list[k].ok
      BY <1>1
    <3> QED BY <3>1, <3>2, <3>3
  <2>3. TestEntries(list)[k] = list[k]
    BY <1>1 DEF TestEntries
  <2> QED BY <2>2, <2>3 DEF Entry
<1>2. CASE k \notin kept
  <2>1. TestEntries(list)[k] = PowerOn(list[k - Len(list)])
    BY <1>2 DEF TestEntries
  <2> QED BY <2>1 DEF PowerOn
<1> QED BY <1>1, <1>2

\* There are finitely many.
LEMMA FinitelyManyEntries ==
  ASSUME NEW list \in Lists
  PROVE  IsFiniteSet(DOMAIN TestEntries(list))
<1>1. Len(list) \in Nat /\ DOMAIN list = 1..Len(list)
  BY ScheduleAssumption
<1>2. DOMAIN TestEntries(list) \subseteq 1..2 * Len(list)
  <2> DEFINE kept == {i \in DOMAIN list : list[i].ok}
             resumes == {i \in DOMAIN list : /\ list[i].action = "RESUME"
                                             /\ WellFormed(list) /\ POWERUPDELAY # 0}
  <2>1. DOMAIN TestEntries(list) = kept \cup {Len(list) + i : i \in resumes}
    BY DEF TestEntries
  <2>2. kept \subseteq 1..Len(list) /\ resumes \subseteq 1..Len(list)
    BY <1>1
  <2>3. {Len(list) + i : i \in resumes} \subseteq 1..2 * Len(list)
    BY <1>1, <2>2
  <2>4. 1..Len(list) \subseteq 1..2 * Len(list)
    BY <1>1
  <2> HIDE DEF kept, resumes
  <2> QED BY <2>1, <2>2, <2>3, <2>4
<1>3. IsFiniteSet(1..2 * Len(list))
  BY <1>1, FS_Interval
<1> QED BY <1>2, <1>3, FS_Subset

\* Two allocations of one parse are never the same memory, so that each object is
\* as its own entry says.
LEMMA ParsedCopies ==
  ASSUME NEW entries, NEW a, \A k \in DOMAIN entries : a[k] \in Events,
         \A i, j \in DOMAIN entries : a[i] = a[j] => i = j,
         NEW gone, ParsedInto(entries, a, gone), NEW k \in DOMAIN entries
  PROVE  /\ event'[a[k]].source = "PARSED"
         /\ event'[a[k]].action = entries[k].action
         /\ event'[a[k]].type = entries[k].type
         /\ event'[a[k]].localoffset = entries[k].localoffset
<1> DEFINE At(e) == entries[CHOOSE i \in DOMAIN entries : a[i] = e]
           Made(e) == [action |-> At(e).action, type |-> At(e).type,
                       source |-> "PARSED", localoffset |-> At(e).localoffset]
<1>1. At(a[k]) = entries[k]
  <2>1. (CHOOSE i \in DOMAIN entries : a[i] = a[k]) = k
    OBVIOUS
  <2> QED BY <2>1
<1>2. event'[a[k]] = Made(a[k])
  <2>1. a[k] \in {a[i] : i \in DOMAIN entries}
    OBVIOUS
  <2> QED BY <2>1 DEF ParsedInto
<1> HIDE DEF At
<1> QED BY <1>1, <1>2

\* After a list was made the schedule, and nothing parsed before is left.
LEMMA ListFollowed ==
  ASSUME TypeOK, NEW list \in Lists, NEW memory \in SUBSET Events, NEW gone,
         Allocations(TestEntries(list), memory) # {},
         ParsedInto(TestEntries(list), Allocated(TestEntries(list), memory), gone),
         MadeOf(list, memory) \subseteq scheduled', Handling' = {},
         \A e \in scheduled' \ MadeOf(list, memory) : ~Repeating(e)'
  PROVE  \E f : OneToOne(f, list)'
<1> DEFINE entries == TestEntries(list)
           a == Allocated(entries, memory)
           f == [i \in Repeats(list) |-> a[i]]
<1>1. \A k \in DOMAIN entries : a[k] \in memory /\ a[k] \in Events
  BY AllocatedMemory
<1>2. \A i, j \in DOMAIN entries : a[i] = a[j] => i = j
  <2>1. a \in Allocations(entries, memory)
    BY DEF Allocated
  <2> QED BY <2>1 DEF Allocations
<1>3. \A k \in DOMAIN entries : /\ event'[a[k]].source = "PARSED"
                                /\ event'[a[k]].action = entries[k].action
                                /\ event'[a[k]].type = entries[k].type
                                /\ event'[a[k]].localoffset = entries[k].localoffset
  BY <1>1, <1>2, ParsedCopies
<1>4. \A k \in DOMAIN entries : Repeating(a[k])' <=> k \in Repeats(list)
  BY <1>3 DEF Repeating, IsParsed, Repeats
<1>5. MadeOf(list, memory) = {a[k] : k \in DOMAIN entries}
  BY DEF MadeOf
<1>6. Live' = {a[k] : k \in Repeats(list)}
  BY <1>4, <1>5 DEF Live, Repeats
<1>7. Repeats(list) \subseteq DOMAIN entries
  BY DEF Repeats
<1> HIDE DEF a, entries
<1>8. /\ f \in [Repeats(list) -> Live']
      /\ \A i, j \in Repeats(list) : f[i] = f[j] => i = j
      /\ \A e \in Live' : \E i \in Repeats(list) : f[i] = e
  BY <1>2, <1>6, <1>7
<1>9. \A i \in Repeats(list) : Matches(a[i], entries[i])'
  BY <1>3, <1>7 DEF Matches
<1> QED BY <1>8, <1>9 DEF OneToOne, entries

\* The same list, the same repeating events.
LEMMA StillFollowed ==
  ASSUME FollowInv, pc \notin {"init", "failed"}, configured' = configured,
         Live' = Live, \A e \in Live : event'[e] = event[e]
  PROVE  FollowInv'
<1> SUFFICES ASSUME configured # None PROVE \E f : OneToOne(f, configured)'
  BY DEF FollowInv
<1>1. PICK f : OneToOne(f, configured)
  BY DEF FollowInv
<1>2. \A i \in Repeats(configured) : f[i] \in Live
  BY <1>1 DEF OneToOne
<1>3. \A i \in Repeats(configured) :
        Matches(f[i], TestEntries(configured)[i])
        => /\ event'[f[i]].action = TestEntries(configured)[i].action
           /\ event'[f[i]].type = TestEntries(configured)[i].type
           /\ event'[f[i]].localoffset = TestEntries(configured)[i].localoffset
  BY <1>2 DEF Matches
<1>4. OneToOne(f, configured)'
  BY <1>1, <1>3 DEF OneToOne, Matches
<1> QED BY <1>4

LEMMA FollowStep ==
  ASSUME TypeOK, ScheduleInv, FollowInv, Next
  PROVE  FollowInv'
<1> USE TypeParts
<1>1. Parsed \subseteq Events /\ Free \subseteq Events /\ scheduled \subseteq Events
  BY DEF ObjectsTyped, Free
<1>2. ASSUME NEW list \in Lists, Startup(list)
      PROVE  FollowInv'
  <2>1. \E f : OneToOne(f, list)'
    <3>1. scheduled' = MadeOf(list, Events) /\ Handling' = {}
      BY <1>2 DEF Startup, MadeOf, Handling
    <3>2. \A e \in scheduled' \ MadeOf(list, Events) : ~Repeating(e)'
      BY <3>1
    <3> QED BY <1>2, <3>1, <3>2, ListFollowed DEF Startup
  <2>2. configured' = list
    BY <1>2 DEF Startup
  <2> QED BY <2>1, <2>2 DEF FollowInv
<1>3. ASSUME NEW list \in Lists, ReloadRejected(list)
      PROVE  FollowInv'
  <2> DEFINE made == MadeOf(list, Free \cup Parsed)
  <2>1. /\ made \subseteq Free \cup Parsed
        /\ \A e \in Events \ (Parsed \cup made) : Kept(e)
    BY <1>1, <1>3, ListParsed DEF ReloadRejected
  <2>2. /\ scheduled' = scheduled /\ Handling = {} /\ Handling' = {}
        /\ configured' = configured /\ pc \notin {"init", "failed"}
    BY <1>3 DEF ReloadRejected, Handling
  <2>3. scheduled \cap (Parsed \cup made) = {}
    BY <2>1 DEF ObjectsTyped, Free
  <2>4. \A e \in scheduled : event'[e] = event[e]
    BY <1>1, <2>1, <2>3 DEF Kept
  <2>5. Live' = Live
    BY <2>2, <2>4 DEF Live, Repeating, IsParsed
  <2> QED BY <2>2, <2>4, <2>5, StillFollowed DEF Live
<1>4. ASSUME NEW list \in Lists, Reload(list)
      PROVE  FollowInv'
  <2> DEFINE memory == Free \cup Parsed
             made == MadeOf(list, memory)
             gone == {e \in scheduled : IsParsed(e)}
  <2>1. \A e \in Events \ (Parsed \cup gone \cup made) : Kept(e)
    BY <1>1, <1>4, ListParsed DEF Reload
  <2>2. /\ scheduled' = (scheduled \ gone) \cup made /\ Handling' = {}
        /\ configured' = list
    BY <1>4 DEF Reload, MadeOf, Handling
  <2>3. scheduled \cap Parsed = {}
    BY DEF ObjectsTyped
  <2>4. \A e \in scheduled' \ made : ~Repeating(e)'
    BY <1>1, <2>1, <2>2, <2>3 DEF Repeating, IsParsed, Kept
  <2>5. /\ Allocations(TestEntries(list), memory) # {}
        /\ ParsedInto(TestEntries(list), Allocated(TestEntries(list), memory), Parsed \cup gone)
        /\ memory \in SUBSET Events
    BY <1>1, <1>4 DEF Reload
  <2>6. made \subseteq scheduled'
    BY <2>2
  <2> HIDE DEF memory, gone
  <2>7. \E f : OneToOne(f, list)'
    BY <2>2, <2>4, <2>5, <2>6, ListFollowed
  <2> QED BY <2>2, <2>7 DEF FollowInv
<1>5. ASSUME NEW list \in Lists, ReloadEmpty(list)
      PROVE  FollowInv'
  <2> SUFFICES ASSUME Parsed = {} PROVE \E f : OneToOne(f, <<>>)'
    BY <1>5 DEF ReloadEmpty, FollowInv
  <2> DEFINE gone == {e \in scheduled : IsParsed(e)}
  <2>1. \A e \in Events \ gone : Kept(e)
    BY <1>5, NothingParsed DEF ReloadEmpty
  <2>2. scheduled' = scheduled \ gone /\ Handling' = {}
    BY <1>5 DEF ReloadEmpty, Handling
  <2>3. Live' = {}
    BY <1>1, <2>1, <2>2 DEF Live, Repeating, IsParsed, Kept
  <2>4. Repeats(<<>>) = {}
    BY DEF Repeats, TestEntries, WellFormed
  <2>5. OneToOne(<<>>, <<>>)'
    BY <2>3, <2>4 DEF OneToOne
  <2> QED BY <2>5
<1>6. CASE Serve \/ Execute \/ PumpEnd \/ Tick
  <2>1. /\ UNCHANGED <<event, scheduled, fetched, configured>>
        /\ pc \notin {"init", "failed"} \/ pc' = pc
    BY <1>6 DEF Serve, Execute, PumpEnd, Tick, objects
  <2>2. pc' \in {"execute", "reschedule"} <=> pc \in {"execute", "reschedule"}
    BY <1>6 DEF Serve, Execute, PumpEnd, Tick
  <2>3. Live' = Live
    BY <2>1, <2>2 DEF Live, Handling, Repeating, IsParsed
  <2>4. CASE pc \notin {"init", "failed"}
    BY <2>1, <2>3, <2>4, StillFollowed
  <2>5. CASE pc' = pc /\ pc \in {"init", "failed"}
    BY <2>5 DEF FollowInv
  <2> QED BY <2>1, <2>4, <2>5
<1>7. CASE RescheduleFails
  BY <1>7 DEF RescheduleFails, FollowInv
<1>8. CASE Take
  <2>1. /\ scheduled' = scheduled \ {fetched'} /\ fetched' \in scheduled
        /\ UNCHANGED <<event, configured>> /\ Handling = {} /\ Handling' = {fetched'}
        /\ pc \notin {"init", "failed"}
    BY <1>8 DEF Take, Heap!Fetch, Heap!Earliest, Handling
  <2>2. Live' = Live
    BY <2>1 DEF Live, Repeating, IsParsed
  <2> QED BY <2>1, <2>2, StillFollowed
<1>9. CASE ExecuteImport
  <2>1. PICK new \in Free : new = CHOOSE x \in Free : TRUE
    BY <1>9 DEF ExecuteImport
  <2>2. /\ event' = [event EXCEPT ![new] = ImportTimeout]
        /\ scheduled' = scheduled \cup {new}
        /\ UNCHANGED <<fetched, configured>>
        /\ pc = "execute" /\ pc' = "reschedule"
    BY <1>9, <2>1 DEF ExecuteImport, Heap!Insert
  <2>3. /\ event'[new].source = "INTERNAL"
        /\ \A e \in Events \ {new} : event'[e] = event[e]
    BY <1>1, <2>1, <2>2 DEF ObjectsTyped, ImportTimeout
  <2>4. new \notin scheduled \cup Handling /\ Handling' = Handling /\ Handling \subseteq Events
    BY <2>1, <2>2 DEF Free, Handling, ScheduleInv
  <2>5. Live' = Live
    BY <1>1, <2>2, <2>3, <2>4 DEF Live, Repeating, IsParsed
  <2>6. \A e \in Live : event'[e] = event[e]
    BY <1>1, <2>3, <2>4 DEF Live
  <2> QED BY <2>2, <2>5, <2>6, StillFollowed
<1>10. CASE Reschedule
  <2>1. /\ scheduled' = scheduled \cup {fetched} /\ Handling = {fetched} /\ Handling' = {}
        /\ UNCHANGED <<event, configured>> /\ pc \notin {"init", "failed"}
    BY <1>10 DEF Reschedule, Heap!Insert, Handling
  <2>2. Live' = Live
    BY <2>1 DEF Live, Repeating, IsParsed
  <2> QED BY <2>1, <2>2, StillFollowed
<1>11. CASE Release
  <2>1. PICK freed \in Events : freed = fetched /\ freed \notin scheduled
    BY <1>11 DEF Release, ScheduleInv, ObjectsTyped, Handling
  <2>2. /\ event' = [event EXCEPT ![freed] = NoEvent]
        /\ UNCHANGED <<scheduled, configured>> /\ pc \notin {"init", "failed"}
        /\ Handling = {freed} /\ Handling' = {} /\ event[freed].type = "ONCE"
    BY <1>11, <2>1 DEF Release, Handling
  <2>3. \A e \in Events \ {freed} : event'[e] = event[e]
    BY <2>2 DEF ObjectsTyped
  <2>4. freed \notin Live
    BY <2>2 DEF Live, Repeating
  <2>5. Live' = Live
    BY <1>1, <2>1, <2>2, <2>3, <2>4 DEF Live, Repeating, IsParsed
  <2>6. \A e \in Live : event'[e] = event[e]
    BY <1>1, <2>2, <2>3, <2>4 DEF Live
  <2> QED BY <2>2, <2>5, <2>6, StillFollowed
<1> QED BY <1>2, <1>3, <1>4, <1>5, <1>6, <1>7, <1>8, <1>9, <1>10, <1>11 DEF Next, Handler

\* One to one means as often as listed.
LEMMA FollowsList ==
  ASSUME TypeOK, FollowInv
  PROVE  ScheduleFollowsList
<1> DEFINE entries == TestEntries(configured)
           repeating == Repeats(configured)
<1> SUFFICES ASSUME pc \notin {"init", "failed"}, configured # None
             PROVE  /\ \A e \in Live : \E i \in repeating : Matches(e, entries[i])
                    /\ \A i \in repeating :
                         Cardinality({e \in Live : Matches(e, entries[i])})
                           = Cardinality({j \in repeating : entries[j] = entries[i]})
  BY DEF ScheduleFollowsList, Live, Repeats
<1>1. PICK f : OneToOne(f, configured)
  BY DEF FollowInv
<1>2. \A e \in Live : \E i \in repeating : Matches(e, entries[i])
  BY <1>1 DEF OneToOne
<1>3. ASSUME NEW i \in repeating
      PROVE  Cardinality({e \in Live : Matches(e, entries[i])})
               = Cardinality({j \in repeating : entries[j] = entries[i]})
  <2> DEFINE S == {j \in repeating : entries[j] = entries[i]}
             T == {e \in Live : Matches(e, entries[i])}
             g == [j \in S |-> f[j]]
  <2>1. configured \in Lists
    <3>1. CASE configured = <<>>
      <4>1. DOMAIN TestEntries(configured) = {}
        BY <3>1 DEF TestEntries, WellFormed
      <4> QED BY <4>1 DEF Repeats
    <3> QED BY <3>1 DEF TypeOK
  <2>2. \A j \in repeating :
          entries[j] = [action |-> entries[j].action, type |-> entries[j].type,
                        localoffset |-> entries[j].localoffset, ok |-> TRUE]
    BY <2>1, EntryByFields DEF Repeats
  <2>3. \A j \in repeating : Matches(f[j], entries[j])
    BY <1>1 DEF OneToOne
  <2> HIDE DEF entries
  <2>4. \A j \in repeating : Matches(f[j], entries[i]) <=> entries[j] = entries[i]
    <3> SUFFICES ASSUME NEW j \in repeating, Matches(f[j], entries[i])
                 PROVE  entries[j] = entries[i]
      BY <2>3
    <3>1. /\ entries[j].action = entries[i].action /\ entries[j].type = entries[i].type
          /\ entries[j].localoffset = entries[i].localoffset
      BY <2>3 DEF Matches
    <3> QED BY <2>2, <3>1
  <2>5. /\ f \in [repeating -> Live]
        /\ \A j, k \in repeating : f[j] = f[k] => j = k
        /\ \A e \in Live : \E j \in repeating : f[j] = e
    BY <1>1 DEF OneToOne
  <2> HIDE DEF repeating
  <2>6. g \in [S -> T] /\ \A j, k \in S : g[j] = g[k] => j = k
    BY <2>4, <2>5
  <2>7. \A e \in T : \E j \in S : g[j] = e
    BY <2>4, <2>5
  <2>8. IsFiniteSet(S)
    <3>1. S \subseteq DOMAIN TestEntries(configured)
      BY DEF repeating, Repeats
    <3> HIDE DEF S
    <3> QED BY <2>1, <3>1, FinitelyManyEntries, FS_Subset
  <2> HIDE DEF S, T, g
  <2>9. ExistsBijection(S, T)
    <3>1. g \in Bijection(S, T)
      BY <2>6, <2>7 DEF Bijection, Injection, Surjection, IsInjective
    <3> QED BY <3>1 DEF ExistsBijection
  <2> QED BY <2>8, <2>9, FS_Bijection DEF S, T
<1> QED BY <1>2, <1>3

-----------------------------------------------------------------------------
IInv == TypeOK /\ ScheduleInv /\ OrderInv /\ FollowInv

LEMMA Inductive == Spec => []IInv
<1>1. Init => IInv
  <2>1. Init => OrderInv
    <3> SUFFICES ASSUME Init PROVE OrderInv
      OBVIOUS
    <3>1. scheduled = {} /\ pc = "init" /\ last_executed = 0
      BY DEF Init, Heap!Init
    <3>2. clock \in Nat
      BY TypeInit DEF TypeOK
    <3> QED BY <3>1, <3>2 DEF OrderInv
  <2>2. Init => FollowInv
    BY DEF Init, FollowInv
  <2> QED BY <2>1, <2>2, TypeInit DEF IInv
<1>2. IInv /\ [Next]_vars => IInv'
  <2> SUFFICES ASSUME IInv, [Next]_vars PROVE IInv'
    OBVIOUS
  <2>1. CASE Next
    <3>1. ObjectsTyped' /\ RestTyped'
      BY <2>1, ObjectsStep, RestStep DEF IInv
    <3>2. TypeOK'
      BY <3>1, TypePartsNext
    <3> QED BY <2>1, <3>2, ScheduleStep, OrderStep, FollowStep DEF IInv
  <2>2. CASE UNCHANGED vars
    BY <2>2 DEF vars, objects, timer, IInv, TypeOK, ScheduleInv, OrderInv, InOrder,
                OnTime, IsParsed, Parsed, Handling, FollowInv, OneToOne, Live, Repeating,
                Matches
  <2> QED BY <2>1, <2>2
<1> QED BY <1>1, <1>2, PTL DEF Spec

\* No event is owned twice, and every variable keeps its range.
THEOREM TypeCorrect == Spec => []TypeOK
BY Inductive, PTL DEF IInv

\* The repeating events are those of the list accepted last, as often as listed.
THEOREM ListSafe == Spec => []ScheduleFollowsList
<1>1. IInv => ScheduleFollowsList
  BY FollowsList DEF IInv
<1> QED BY <1>1, Inductive, PTL

\* Daily events trigger at their hour and at most a day from now.
THEOREM DailySafe == Spec => []DailyOnTime
<1>1. IInv => DailyOnTime
  BY DEF IInv, ScheduleInv, OnTime, DailyOnTime
<1> QED BY <1>1, Inductive, PTL

\* Events are executed in the order of their trigger times.
THEOREM OrderSafe == Spec => ExecutedInOrder
<1>1. IInv /\ [Next]_vars => [configured # None => last_executed' >= last_executed]_vars
  <2> SUFFICES ASSUME IInv, Next, configured # None
               PROVE  last_executed' >= last_executed
    OBVIOUS
  <2>1. last_executed \in Nat
    BY DEF IInv, TypeOK
  <2>2. CASE Execute \/ ExecuteImport
    <3>1. pc = "execute" /\ last_executed' = next_trigger[fetched]
      BY <2>2 DEF Execute, ExecuteImport
    <3>2. next_trigger[fetched] \in Nat /\ last_executed <= next_trigger[fetched]
      BY <3>1 DEF IInv, TypeOK, ScheduleInv, OrderInv, InOrder
    <3> QED BY <2>1, <3>1, <3>2
  <2>3. CASE ~(Execute \/ ExecuteImport)
    <3>1. last_executed' = last_executed
      BY <2>3 DEF Next, Handler, Startup, ReloadRejected, Reload, ReloadEmpty, Serve, Take,
                  Reschedule, RescheduleFails, Release, PumpEnd, Tick
    <3> QED BY <2>1, <3>1
  <2> QED BY <2>2, <2>3
<1> QED BY <1>1, Inductive, PTL DEF Spec, ExecutedInOrder

\* SIGHUP leaves the daemon's own events in the schedule.
THEOREM ImportSafe == Spec => ImportTimeoutsKept
<1>1. IInv /\ [Next]_vars
      => [\A e \in scheduled : event[e].source = "INTERNAL" /\ e \notin scheduled'
            => fetched' = e]_vars
  <2> SUFFICES ASSUME IInv, Next, NEW e \in scheduled,
                      event[e].source = "INTERNAL", e \notin scheduled'
               PROVE  fetched' = e
    OBVIOUS
  <2>1. ~IsParsed(e)
    BY DEF IsParsed
  <2>2. ASSUME NEW list \in Lists,
               \/ Startup(list) \/ ReloadRejected(list) \/ Reload(list) \/ ReloadEmpty(list)
        PROVE  FALSE
    BY <2>1, <2>2 DEF Startup, ReloadRejected, Reload, ReloadEmpty, IInv, ScheduleInv
  <2>3. CASE Take
    BY <2>3 DEF Take, Heap!Fetch
  <2>4. CASE Handler /\ ~Take
    BY <2>4 DEF Handler, Serve, Execute, ExecuteImport, Reschedule, RescheduleFails,
                Release, PumpEnd, Heap!Insert, objects
  <2>5. CASE Tick
    BY <2>5 DEF Tick, objects
  <2> QED BY <2>2, <2>3, <2>4, <2>5 DEF Next
<1> QED BY <1>1, Inductive, PTL DEF Spec, ImportTimeoutsKept

=============================================================================
