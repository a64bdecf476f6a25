----------------------------- MODULE EventQueue -----------------------------
(***************************************************************************)
(* What event.c relies on from the event heap: a set of scheduled events   *)
(* from which the one that triggers first can be taken.  Among events of   *)
(* the same moment the order is not defined (event.h, SPECIAL CONDITIONS   *)
(* 3).  EventHeap is shown to implement this.                              *)
(***************************************************************************)
EXTENDS Integers

CONSTANTS
  Events,  \* the allocated event_t objects
  Times,   \* values of time_t
  None     \* the NULL pointer

VARIABLES
  scheduled,     \* the events in the schedule
  next_trigger,  \* event_t.next_trigger
  fetched        \* the event handed out last

vars == <<scheduled, next_trigger, fetched>>

Init ==
  /\ scheduled = {}
  /\ next_trigger = [e \in Events |-> 0]
  /\ fetched = None

Insert(e, t) ==
  /\ e \notin scheduled
  /\ scheduled' = scheduled \cup {e}
  /\ next_trigger' = [next_trigger EXCEPT ![e] = t]
  /\ UNCHANGED fetched

Earliest(e) ==
  /\ e \in scheduled
  /\ \A other \in scheduled : next_trigger[e] <= next_trigger[other]

Fetch ==
  /\ \E e \in scheduled : Earliest(e) /\ fetched' = e
  /\ scheduled' = scheduled \ {fetched'}
  /\ UNCHANGED next_trigger

Next == Fetch \/ \E e \in Events, t \in Times : Insert(e, t)

Spec == Init /\ [][Next]_vars

=============================================================================
