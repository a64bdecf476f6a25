------------------------------ MODULE EventHeap ------------------------------
(***************************************************************************)
(* eventheap.c: the schedule as a binary minimum heap in one array.        *)
(*                                                                         *)
(* g_heap[1] .. g_heap[HEAPSIZE] point to events, g_heap[0] holds          *)
(* HEAPSIZE; here g_heap is the sequence of the pointers in use and        *)
(* HEAPSIZE its length.  The two loops of the code, "bubble up" in         *)
(* eventheap_insert() and the tail recursion of heapify(), take one step   *)
(* per round; index is the loop's position.  The callers are               *)
(* single-threaded, so no operation starts before the previous ended.      *)
(***************************************************************************)
EXTENDS Integers, Sequences

CONSTANTS
  Events,         \* the event_t objects callers may hand in
  Times,          \* values of event_t.next_trigger
  None,           \* NULL
  SIZE_INCREMENT, \* slots of the first allocation
  GROWTH,         \* slots a realloc() adds: SIZE_INCREMENT BYTES
  Slack           \* slots malloc_usable_size() may report on top

ASSUME HeapAssumption ==
  /\ Times \subseteq Int
  /\ None \notin Events
  /\ SIZE_INCREMENT \in Nat /\ SIZE_INCREMENT >= 2
  /\ GROWTH \in Nat /\ GROWTH >= 1
  /\ Slack \subseteq Nat

VARIABLES
  g_heap,        \* slots 1 .. HEAPSIZE
  capacity,      \* usable slots, slot 0 included; 0: g_heap is NULL
  next_trigger,  \* of every event
  pc,            \* the loop the code is in
  index,         \* where the loop is
  destroying,    \* eventheap_destroy() is fetching
  fetched        \* what eventheap_fetch() returned last

vars == <<g_heap, capacity, next_trigger, pc, index, destroying, fetched>>

HEAPSIZE == Len(g_heap)
Scheduled == {g_heap[i] : i \in 1..HEAPSIZE}
VAL(i) == next_trigger[g_heap[i]]
PARENTINDEX(i) == i \div 2
LCHILDINDEX(i) == 2 * i
RCHILDINDEX(i) == 2 * i + 1

\* Faulty variant: no temporary, one pointer ends up twice in the array.
SwapLosesTemp(i, j) == [g_heap EXCEPT ![i] = g_heap[j]]
Swap(i, j) == [g_heap EXCEPT ![i] = g_heap[j], ![j] = g_heap[i]]

-----------------------------------------------------------------------------
Init ==
  /\ g_heap = <<>>
  /\ capacity = 0
  /\ next_trigger = [e \in Events |-> 0]
  /\ pc = "idle"
  /\ index = 1
  /\ destroying = FALSE
  /\ fetched = None

\* The first allocation, then room for one more slot if there is none.
\* Faulty variant: forgets that slot 0 holds the size.
GrowForgetsSizeSlot ==
  \E s \in Slack :
    LET allocated == IF capacity = 0 THEN SIZE_INCREMENT + s ELSE capacity
    IN  capacity' = IF allocated < HEAPSIZE + 1
                    THEN allocated + GROWTH + s ELSE allocated
Grow ==
  \E s \in Slack :
    LET allocated == IF capacity = 0 THEN SIZE_INCREMENT + s ELSE capacity
    IN  capacity' = IF allocated < HEAPSIZE + 2
                    THEN allocated + GROWTH + s ELSE allocated

\* eventheap_insert() up to its loop
Insert(e, t) ==
  /\ pc = "idle"
  /\ e \notin Scheduled
  /\ Grow
  /\ next_trigger' = [next_trigger EXCEPT ![e] = t]
  /\ g_heap' = Append(g_heap, e)
  /\ index' = HEAPSIZE + 1
  /\ pc' = "bubble"
  /\ UNCHANGED <<destroying, fetched>>

\* one round of the loop: up, or out
\* Faulty variant: compares with the parent but stops after one swap.
BubbleUpOnce ==
  /\ pc = "bubble"
  /\ IF index > 1 /\ VAL(index) < VAL(PARENTINDEX(index))
     THEN g_heap' = Swap(index, PARENTINDEX(index))
     ELSE UNCHANGED g_heap
  /\ pc' = "idle"
  /\ UNCHANGED <<capacity, next_trigger, index, destroying, fetched>>
BubbleUp ==
  /\ pc = "bubble"
  /\ IF index > 1 /\ VAL(index) < VAL(PARENTINDEX(index))
     THEN /\ g_heap' = Swap(index, PARENTINDEX(index))
          /\ index' = PARENTINDEX(index)
          /\ UNCHANGED pc
     ELSE /\ pc' = "idle"
          /\ UNCHANGED <<g_heap, index>>
  /\ UNCHANGED <<capacity, next_trigger, destroying, fetched>>

\* eventheap_fetch() up to heapify(1): the last pointer becomes the root
\* Faulty variant: the size is decremented before the last slot is moved.
TakeRootLosesLast ==
  /\ HEAPSIZE >= 1
  /\ fetched' = g_heap[1]
  /\ g_heap' = [i \in 1..(HEAPSIZE - 1) |->
                  IF i = 1 THEN g_heap[HEAPSIZE - 1] ELSE g_heap[i]]
  /\ index' = 1
  /\ pc' = "heapify"
  /\ UNCHANGED <<capacity, next_trigger>>
TakeRoot ==
  /\ HEAPSIZE >= 1
  /\ fetched' = g_heap[1]
  /\ g_heap' = [i \in 1..(HEAPSIZE - 1) |->
                  IF i = 1 THEN g_heap[HEAPSIZE] ELSE g_heap[i]]
  /\ index' = 1
  /\ pc' = "heapify"
  /\ UNCHANGED <<capacity, next_trigger>>

Fetch ==
  /\ pc = "idle"
  /\ TakeRoot
  /\ UNCHANGED destroying

\* eventheap_fetchtriggered() when the root is due; else it only returns NULL
FetchTriggered(now) ==
  /\ HEAPSIZE >= 1
  /\ VAL(1) <= now
  /\ Fetch

\* heapify(): the smaller of the node and its children
\* Faulty variant: the right child is compared with the node, not with the
\* smaller of node and left child.
SmallestForgetsLeft(i) ==
  LET Smaller(c, s) == c <= HEAPSIZE /\ VAL(c) < VAL(i)
      left == IF Smaller(LCHILDINDEX(i), i) THEN LCHILDINDEX(i) ELSE i
  IN  IF Smaller(RCHILDINDEX(i), left) THEN RCHILDINDEX(i) ELSE left
Smallest(i) ==
  LET Smaller(c, s) == c <= HEAPSIZE /\ VAL(c) < VAL(s)
      left == IF Smaller(LCHILDINDEX(i), i) THEN LCHILDINDEX(i) ELSE i
  IN  IF Smaller(RCHILDINDEX(i), left) THEN RCHILDINDEX(i) ELSE left

Heapify ==
  /\ pc = "heapify"
  /\ IF HEAPSIZE >= 1 /\ VAL(Smallest(index)) # VAL(index)
     THEN /\ g_heap' = Swap(Smallest(index), index)
          /\ index' = Smallest(index)
          /\ UNCHANGED pc
     ELSE /\ pc' = IF destroying THEN "destroy" ELSE "idle"
          /\ UNCHANGED <<g_heap, index>>
  /\ UNCHANGED <<capacity, next_trigger, destroying, fetched>>

\* eventheap_destroy(): fetch and free every event, then the array
Destroy ==
  /\ pc = "idle"
  /\ capacity # 0
  /\ pc' = "destroy" /\ destroying' = TRUE
  /\ UNCHANGED <<g_heap, capacity, next_trigger, index, fetched>>

DestroyFetch ==
  /\ pc = "destroy"
  /\ TakeRoot
  /\ UNCHANGED destroying

DestroyEnd ==
  /\ pc = "destroy"
  /\ HEAPSIZE = 0
  /\ capacity' = 0
  /\ pc' = "idle" /\ destroying' = FALSE
  /\ UNCHANGED <<g_heap, next_trigger, index, fetched>>

Next ==
  \/ \E e \in Events, t \in Times : Insert(e, t)
  \/ BubbleUp
  \/ Fetch
  \/ \E now \in Times : FetchTriggered(now)
  \/ Heapify
  \/ Destroy \/ DestroyFetch \/ DestroyEnd

Spec == Init /\ [][Next]_vars

-----------------------------------------------------------------------------
\* Every variable keeps its range and no event is in the heap twice: the two
\* owners of a doubly scheduled event would both free it (event.c, eventheap.c).
TypeOK ==
  /\ g_heap \in Seq(Events)
  /\ \A i, j \in 1..HEAPSIZE : g_heap[i] = g_heap[j] => i = j
  /\ capacity \in Nat
  /\ next_trigger \in [Events -> Times \cup {0}]
  /\ pc \in {"idle", "bubble", "heapify", "destroy"}
  /\ index \in Nat \ {0}
  /\ destroying \in BOOLEAN
  /\ fetched \in Events \cup {None}

Ordered(i) == VAL(PARENTINDEX(i)) <= VAL(i)
\* the children of i would be in order below i's parent
Bridged(i) ==
  \A c \in 2..HEAPSIZE :
    PARENTINDEX(c) = i /\ i > 1 => VAL(PARENTINDEX(i)) <= VAL(c)

\* The array is a minimum heap except at the edge the running loop repairs:
\* above index while it bubbles up, below index in heapify().
LoopInvariant ==
  /\ pc \in {"idle", "destroy"} => \A i \in 2..HEAPSIZE : Ordered(i)
  /\ pc = "bubble" =>
       /\ index \in 1..HEAPSIZE
       /\ \A i \in 2..HEAPSIZE : i # index => Ordered(i)
       /\ Bridged(index)
  /\ pc = "heapify" =>
       /\ index > 1 => index <= HEAPSIZE
       /\ \A i \in 2..HEAPSIZE : PARENTINDEX(i) # index => Ordered(i)
       /\ Bridged(index)

\* Between operations the root is an event that triggers first: what
\* event_next() arms the schedule timer with, and why
\* eventheap_fetchtriggered() may look at the root alone (eventheap.c:114).
RootIsEarliest ==
  pc \in {"idle", "destroy"} /\ HEAPSIZE >= 1 =>
    \A e \in Scheduled : VAL(1) <= next_trigger[e]

\* The slots written lie inside the allocation, although the array grows by
\* SIZE_INCREMENT bytes and slot 0 is not counted in HEAPSIZE (eventheap.c:74).
SlotsInBounds == HEAPSIZE >= 1 => HEAPSIZE + 1 <= capacity

\* The heap implements the queue event.c relies on; the loops are stutters.
Queue == INSTANCE EventQueue WITH scheduled <- Scheduled
ImplementsQueue == Queue!Spec

=============================================================================
