--------------------------- MODULE EventHeapProofs ---------------------------
(***************************************************************************)
(* The heap is a heap for any set of events, any trigger times and any     *)
(* sizes of its allocation, and implements EventQueue.                     *)
(***************************************************************************)
EXTENDS EventHeap, TLAPS, FiniteSetTheorems, WellFoundedInduction

-----------------------------------------------------------------------------
\* Index arithmetic of a 1-based heap.
LEMMA ParentFacts ==
  ASSUME NEW i \in Nat, i >= 2
  PROVE  /\ PARENTINDEX(i) \in Nat
         /\ PARENTINDEX(i) >= 1
         /\ PARENTINDEX(i) < i
         /\ i = LCHILDINDEX(PARENTINDEX(i)) \/ i = RCHILDINDEX(PARENTINDEX(i))
BY DEF PARENTINDEX, LCHILDINDEX, RCHILDINDEX

LEMMA ChildFacts ==
  ASSUME NEW i \in Nat \ {0}
  PROVE  /\ PARENTINDEX(LCHILDINDEX(i)) = i
         /\ PARENTINDEX(RCHILDINDEX(i)) = i
BY DEF PARENTINDEX, LCHILDINDEX, RCHILDINDEX

LEMMA ValType ==
  ASSUME TypeOK
  PROVE  \A k \in 1..HEAPSIZE : g_heap[k] \in Events /\ VAL(k) \in Int
<1>1. \A e \in Events : next_trigger[e] \in Int
  <2>1. Times \cup {0} \subseteq Int
    BY HeapAssumption
  <2>2. QED
    BY <2>1 DEF TypeOK
<1>2. \A k \in 1..HEAPSIZE : g_heap[k] \in Events
  BY DEF TypeOK, HEAPSIZE
<1>3. QED
  BY <1>1, <1>2 DEF VAL

\* What swap() does to an array of distinct pointers.
LEMMA SwapFacts ==
  ASSUME TypeOK, NEW i \in 1..HEAPSIZE, NEW j \in 1..HEAPSIZE,
         g_heap' = Swap(i, j)
  PROVE  /\ g_heap' \in Seq(Events)
         /\ Len(g_heap') = HEAPSIZE
         /\ g_heap'[i] = g_heap[j]
         /\ g_heap'[j] = g_heap[i]
         /\ \A k \in 1..HEAPSIZE : k # i /\ k # j => g_heap'[k] = g_heap[k]
         /\ \A k, l \in 1..HEAPSIZE : g_heap'[k] = g_heap'[l] => k = l
         /\ {g_heap'[k] : k \in 1..HEAPSIZE} = Scheduled
<1>1. /\ g_heap \in Seq(Events)
      /\ \A k, l \in 1..HEAPSIZE : g_heap[k] = g_heap[l] => k = l
  BY DEF TypeOK
<1>2. /\ g_heap' \in Seq(Events)
      /\ Len(g_heap') = HEAPSIZE
      /\ g_heap'[i] = g_heap[j]
      /\ g_heap'[j] = g_heap[i]
      /\ \A k \in 1..HEAPSIZE : k # i /\ k # j => g_heap'[k] = g_heap[k]
  BY <1>1 DEF Swap, HEAPSIZE
<1>3. \A k, l \in 1..HEAPSIZE : g_heap'[k] = g_heap'[l] => k = l
  BY <1>1, <1>2
<1>4. {g_heap'[k] : k \in 1..HEAPSIZE} = Scheduled
  BY <1>2 DEF Scheduled
<1>5. QED
  BY <1>2, <1>3, <1>4

\* Smallest(i) is i or a child of i in the heap, and no child is smaller.
LEMMA SmallestFacts ==
  ASSUME TypeOK, NEW i \in 1..HEAPSIZE
  PROVE  /\ Smallest(i) \in 1..HEAPSIZE
         /\ Smallest(i) # i => PARENTINDEX(Smallest(i)) = i /\ Smallest(i) > i
         /\ VAL(Smallest(i)) <= VAL(i)
         /\ \A c \in 2..HEAPSIZE : PARENTINDEX(c) = i => VAL(Smallest(i)) <= VAL(c)
<1>1. HEAPSIZE \in Nat
  BY DEF TypeOK, HEAPSIZE
<1>2. \A k \in 1..HEAPSIZE : VAL(k) \in Int
  BY ValType
<1>3. i \in Nat \ {0}
  BY <1>1
<1>4. \A c \in 2..HEAPSIZE :
        PARENTINDEX(c) = i => c = LCHILDINDEX(i) \/ c = RCHILDINDEX(i)
  BY <1>1, ParentFacts
<1>5. /\ LCHILDINDEX(i) \in Nat /\ LCHILDINDEX(i) > i
      /\ RCHILDINDEX(i) \in Nat /\ RCHILDINDEX(i) > i
  BY <1>3 DEF LCHILDINDEX, RCHILDINDEX
<1>6. PARENTINDEX(LCHILDINDEX(i)) = i /\ PARENTINDEX(RCHILDINDEX(i)) = i
  BY <1>3, ChildFacts
<1>7. QED
  BY <1>1, <1>2, <1>3, <1>4, <1>5, <1>6 DEF Smallest

-----------------------------------------------------------------------------
\* What eventheap_insert() does to the array before its loop.
LEMMA InsertFacts ==
  ASSUME TypeOK, NEW e \in Events, NEW t \in Times, Insert(e, t)
  PROVE  /\ g_heap' \in Seq(Events)
         /\ HEAPSIZE' = HEAPSIZE + 1
         /\ HEAPSIZE \in Nat
         /\ g_heap'[HEAPSIZE + 1] = e
         /\ \A k \in 1..HEAPSIZE : g_heap'[k] = g_heap[k] /\ g_heap[k] # e
         /\ \A k \in 1..HEAPSIZE : VAL(k)' = VAL(k)
         /\ Scheduled' = Scheduled \cup {e}
<1>1. /\ g_heap \in Seq(Events)
      /\ g_heap' = Append(g_heap, e)
      /\ e \notin Scheduled
      /\ next_trigger' = [next_trigger EXCEPT ![e] = t]
  BY DEF TypeOK, Insert
<1>2. /\ g_heap' \in Seq(Events)
      /\ HEAPSIZE' = HEAPSIZE + 1
      /\ HEAPSIZE \in Nat
      /\ g_heap'[HEAPSIZE + 1] = e
      /\ \A k \in 1..HEAPSIZE : g_heap'[k] = g_heap[k]
  BY <1>1 DEF HEAPSIZE
<1>3. \A k \in 1..HEAPSIZE : g_heap[k] # e /\ g_heap[k] \in Events
  BY <1>1, ValType DEF Scheduled
<1>4. \A k \in 1..HEAPSIZE : VAL(k)' = VAL(k)
  BY <1>1, <1>2, <1>3 DEF VAL, TypeOK
<1>5. Scheduled' = Scheduled \cup {e}
  BY <1>2 DEF Scheduled
<1>6. QED
  BY <1>2, <1>3, <1>4, <1>5

\* What eventheap_fetch() does to the array before heapify().
LEMMA TakeRootFacts ==
  ASSUME TypeOK, TakeRoot
  PROVE  /\ g_heap' \in Seq(Events)
         /\ HEAPSIZE \in Nat /\ HEAPSIZE >= 1
         /\ HEAPSIZE' = HEAPSIZE - 1
         /\ \A k \in 2..HEAPSIZE' : g_heap'[k] = g_heap[k] /\ VAL(k)' = VAL(k)
         /\ HEAPSIZE > 1 => g_heap'[1] = g_heap[HEAPSIZE]
         /\ \A k, l \in 1..HEAPSIZE' : g_heap'[k] = g_heap'[l] => k = l
         /\ Scheduled' = Scheduled \ {g_heap[1]}
         /\ fetched' \in Scheduled
<1>1. /\ HEAPSIZE \in Nat /\ HEAPSIZE >= 1
      /\ \A k \in 1..HEAPSIZE : g_heap[k] \in Events
      /\ \A k, l \in 1..HEAPSIZE : g_heap[k] = g_heap[l] => k = l
  BY ValType DEF TypeOK, HEAPSIZE, TakeRoot
<1>2. /\ g_heap' = [i \in 1..(HEAPSIZE - 1) |->
                      IF i = 1 THEN g_heap[HEAPSIZE] ELSE g_heap[i]]
      /\ fetched' = g_heap[1]
      /\ next_trigger' = next_trigger
  BY DEF TakeRoot
<1>3. g_heap' \in Seq(Events) /\ HEAPSIZE' = HEAPSIZE - 1
  BY <1>1, <1>2 DEF HEAPSIZE
<1>4. \A k \in 2..HEAPSIZE' : g_heap'[k] = g_heap[k]
  BY <1>1, <1>2, <1>3
<1>5. HEAPSIZE > 1 => g_heap'[1] = g_heap[HEAPSIZE]
  BY <1>1, <1>2, <1>3
<1>6. \A k, l \in 1..HEAPSIZE' : g_heap'[k] = g_heap'[l] => k = l
  BY <1>1, <1>3, <1>4, <1>5
<1>7. Scheduled' = Scheduled \ {g_heap[1]}
  <2>1. Scheduled' \subseteq Scheduled \ {g_heap[1]}
    BY <1>1, <1>3, <1>4, <1>5 DEF Scheduled
  <2>2. ASSUME NEW k \in 1..HEAPSIZE, g_heap[k] # g_heap[1]
        PROVE  g_heap[k] \in Scheduled'
    <3>1. CASE k = HEAPSIZE
      BY <1>1, <1>3, <1>5, <2>2, <3>1 DEF Scheduled
    <3>2. CASE k # HEAPSIZE
      BY <1>1, <1>3, <1>4, <2>2, <3>2 DEF Scheduled
    <3>3. QED
      BY <3>1, <3>2
  <2>3. QED
    BY <2>1, <2>2 DEF Scheduled
<1>8. \A k \in 2..HEAPSIZE' : VAL(k)' = VAL(k)
  BY <1>2, <1>4 DEF VAL
<1>9. fetched' \in Scheduled
  BY <1>1, <1>2 DEF Scheduled
<1>10. QED
  BY <1>1, <1>3, <1>4, <1>5, <1>6, <1>7, <1>8, <1>9

-----------------------------------------------------------------------------
\* Types, and no pointer twice.
LEMMA TypeStep ==
  ASSUME TypeOK, LoopInvariant, [Next]_vars
  PROVE  TypeOK'
<1>1. HEAPSIZE \in Nat
  BY DEF TypeOK, HEAPSIZE
<1>2. ASSUME NEW e \in Events, NEW t \in Times, Insert(e, t)
      PROVE  TypeOK'
  <2>1. \A k, l \in 1..HEAPSIZE' : g_heap'[k] = g_heap'[l] => k = l
    BY <1>1, <1>2, InsertFacts DEF TypeOK
  <2>2. next_trigger' \in [Events -> Times \cup {0}]
    BY <1>2 DEF Insert, TypeOK
  <2>3. capacity' \in Nat
    BY <1>1, <1>2, HeapAssumption DEF Insert, Grow, TypeOK
  <2>4. /\ pc' = "bubble" /\ index' \in Nat \ {0}
        /\ destroying' = destroying /\ fetched' = fetched
    BY <1>1, <1>2 DEF Insert
  <2>5. g_heap' \in Seq(Events)
    BY <1>2, InsertFacts
  <2>6. QED
    BY <2>1, <2>2, <2>3, <2>4, <2>5 DEF TypeOK
<1>3. ASSUME TakeRoot, UNCHANGED destroying
      PROVE  TypeOK'
  <2>1. fetched' \in Events
    BY <1>3, TakeRootFacts, ValType DEF Scheduled
  <2>2. QED
    BY <1>3, <2>1, TakeRootFacts DEF TakeRoot, TypeOK
<1>4. ASSUME NEW i \in 1..HEAPSIZE, NEW j \in 1..HEAPSIZE, g_heap' = Swap(i, j),
             index' \in 1..HEAPSIZE,
             UNCHANGED <<pc, capacity, next_trigger, destroying, fetched>>
      PROVE  TypeOK'
  <2>1. /\ g_heap' \in Seq(Events)
        /\ HEAPSIZE' = HEAPSIZE
        /\ \A k, l \in 1..HEAPSIZE : g_heap'[k] = g_heap'[l] => k = l
    BY <1>4, SwapFacts DEF HEAPSIZE
  <2>2. QED
    BY <1>1, <1>4, <2>1 DEF TypeOK
<1>5. CASE BubbleUp
  <2>1. CASE index > 1 /\ VAL(index) < VAL(PARENTINDEX(index))
    <3>1. index \in 1..HEAPSIZE /\ index \in Nat /\ index >= 2
      BY <1>1, <1>5, <2>1 DEF BubbleUp, LoopInvariant
    <3>2. PARENTINDEX(index) \in 1..HEAPSIZE
      BY <1>1, <3>1, ParentFacts
    <3>3. QED
      BY <1>4, <1>5, <2>1, <3>1, <3>2 DEF BubbleUp
  <2>2. CASE ~(index > 1 /\ VAL(index) < VAL(PARENTINDEX(index)))
    BY <1>5, <2>2 DEF BubbleUp, TypeOK, HEAPSIZE
  <2>3. QED
    BY <2>1, <2>2
<1>6. CASE Heapify
  <2>1. CASE HEAPSIZE >= 1 /\ VAL(Smallest(index)) # VAL(index)
    <3>1. index \in 1..HEAPSIZE
      BY <1>1, <1>6, <2>1 DEF Heapify, LoopInvariant, TypeOK
    <3>2. Smallest(index) \in 1..HEAPSIZE
      BY <3>1, SmallestFacts
    <3>3. QED
      BY <1>4, <1>6, <2>1, <3>1, <3>2 DEF Heapify
  <2>2. CASE ~(HEAPSIZE >= 1 /\ VAL(Smallest(index)) # VAL(index))
    BY <1>6, <2>2 DEF Heapify, TypeOK, HEAPSIZE
  <2>3. QED
    BY <2>1, <2>2
<1>7. CASE Destroy
  BY <1>7 DEF Destroy, TypeOK, HEAPSIZE
<1>8. CASE DestroyEnd
  BY <1>8 DEF DestroyEnd, TypeOK, HEAPSIZE
<1>9. CASE UNCHANGED vars
  BY <1>9 DEF vars, TypeOK, HEAPSIZE
<1>10. QED
  BY <1>2, <1>3, <1>5, <1>6, <1>7, <1>8, <1>9
  DEF Next, Fetch, FetchTriggered, DestroyFetch

-----------------------------------------------------------------------------
\* Values after a swap: exchanged at the two places, kept elsewhere.
LEMMA SwapValues ==
  ASSUME TypeOK, NEW i \in 1..HEAPSIZE, NEW j \in 1..HEAPSIZE,
         g_heap' = Swap(i, j), UNCHANGED next_trigger
  PROVE  /\ HEAPSIZE' = HEAPSIZE
         /\ VAL(i)' = VAL(j)
         /\ VAL(j)' = VAL(i)
         /\ \A k \in 1..HEAPSIZE : k # i /\ k # j => VAL(k)' = VAL(k)
BY SwapFacts DEF VAL, HEAPSIZE

LEMMA BubbleUpKeepsOrder ==
  ASSUME TypeOK, LoopInvariant, BubbleUp
  PROVE  LoopInvariant'
<1>1. PICK i \in 1..HEAPSIZE : i = index
  BY DEF BubbleUp, LoopInvariant
<1>2. PICK p : p = PARENTINDEX(i)
  OBVIOUS
<1>3. /\ HEAPSIZE \in Nat
      /\ \A k \in 1..HEAPSIZE : VAL(k) \in Int
      /\ \A k \in 2..HEAPSIZE : k # i => VAL(PARENTINDEX(k)) <= VAL(k)
      /\ \A c \in 2..HEAPSIZE : PARENTINDEX(c) = i /\ i > 1 => VAL(p) <= VAL(c)
  BY <1>1, <1>2, ValType DEF BubbleUp, LoopInvariant, Ordered, Bridged, TypeOK, HEAPSIZE
<1>4. \A k \in 2..HEAPSIZE : PARENTINDEX(k) \in 1..HEAPSIZE /\ PARENTINDEX(k) < k
  BY <1>3, ParentFacts
<1>5. CASE i > 1 /\ VAL(i) < VAL(p)
  <2>1. p \in 1..HEAPSIZE /\ p < i
    BY <1>2, <1>3, <1>4, <1>5
  <2>2. g_heap' = Swap(i, p) /\ index' = p /\ pc' = "bubble" /\ UNCHANGED next_trigger
    BY <1>1, <1>2, <1>5 DEF BubbleUp
  <2>3. /\ HEAPSIZE' = HEAPSIZE
        /\ VAL(i)' = VAL(p)
        /\ VAL(p)' = VAL(i)
        /\ \A k \in 1..HEAPSIZE : k # i /\ k # p => VAL(k)' = VAL(k)
    BY <2>1, <2>2, SwapValues
  <2>4. ASSUME NEW k \in 2..HEAPSIZE, k # p
        PROVE  Ordered(k)'
    <3>1. PICK q \in 1..HEAPSIZE : q = PARENTINDEX(k) /\ q < k
      BY <1>4
    <3>2. SUFFICES VAL(q)' <= VAL(k)'
      BY <3>1 DEF Ordered, PARENTINDEX
    <3>3. CASE k = i
      BY <1>2, <1>3, <1>5, <2>1, <2>3, <3>1, <3>3
    <3>4. CASE k # i /\ q = i
      <4>1. VAL(q)' = VAL(p) /\ VAL(k)' = VAL(k)
        BY <2>3, <2>4, <3>4 DEF VAL
      <4>2. QED
        BY <1>3, <1>5, <3>1, <3>4, <4>1
    <3>5. CASE k # i /\ q = p
      <4>1. VAL(q)' = VAL(i) /\ VAL(k)' = VAL(k)
        BY <2>3, <2>4, <3>5 DEF VAL
      <4>2. VAL(p) <= VAL(k)
        BY <1>3, <3>1, <3>5
      <4>3. VAL(i) \in Int /\ VAL(p) \in Int /\ VAL(k) \in Int
        BY <1>3, <2>1
      <4>4. QED
        BY <1>5, <4>1, <4>2, <4>3
    <3>6. CASE k # i /\ q # i /\ q # p
      BY <1>3, <2>3, <2>4, <3>1, <3>6
    <3>7. QED
      BY <3>3, <3>4, <3>5, <3>6
  <2>5. ASSUME p > 1, NEW c \in 2..HEAPSIZE, PARENTINDEX(c) = p
        PROVE  VAL(PARENTINDEX(p))' <= VAL(c)'
    <3>1. PICK g \in 1..HEAPSIZE : g = PARENTINDEX(p) /\ g < p
      BY <1>4, <2>1, <2>5
    <3>2. VAL(g) <= VAL(p) /\ VAL(g)' = VAL(g)
      BY <1>3, <2>1, <2>3, <2>5, <3>1
    <3>3. SUFFICES VAL(g)' <= VAL(c)'
      BY <3>1 DEF PARENTINDEX
    <3>4. CASE c = i
      BY <2>3, <3>2, <3>4
    <3>5. CASE c # i
      <4>1. VAL(p) <= VAL(c) /\ c # p
        BY <1>3, <1>4, <2>5, <3>5
      <4>2. QED
        BY <1>3, <2>1, <2>3, <3>2, <3>5, <4>1
    <3>6. QED
      BY <3>4, <3>5
  <2>6. Bridged(index)'
    BY <2>2, <2>3, <2>5 DEF Bridged, PARENTINDEX
  <2>7. QED
    BY <2>1, <2>2, <2>3, <2>4, <2>6 DEF LoopInvariant
<1>6. CASE ~(i > 1 /\ VAL(i) < VAL(p))
  <2>1. pc' = "idle" /\ UNCHANGED <<g_heap, next_trigger>>
    BY <1>1, <1>2, <1>6 DEF BubbleUp
  <2>2. \A k \in 2..HEAPSIZE : Ordered(k)
    BY <1>2, <1>3, <1>4, <1>6 DEF Ordered
  <2>3. QED
    BY <2>1, <2>2 DEF LoopInvariant, Ordered, VAL, HEAPSIZE
<1>7. QED
  BY <1>5, <1>6

LEMMA HeapifyKeepsOrder ==
  ASSUME TypeOK, LoopInvariant, Heapify
  PROVE  LoopInvariant'
<1>1. PICK i \in Nat \ {0} : i = index
  BY DEF TypeOK
<1>2. PICK s : s = Smallest(i)
  OBVIOUS
<1>3. /\ HEAPSIZE \in Nat
      /\ \A k \in 1..HEAPSIZE : VAL(k) \in Int
      /\ i > 1 => i <= HEAPSIZE
      /\ \A k \in 2..HEAPSIZE : PARENTINDEX(k) # i => VAL(PARENTINDEX(k)) <= VAL(k)
      /\ \A c \in 2..HEAPSIZE :
           PARENTINDEX(c) = i /\ i > 1 => VAL(PARENTINDEX(i)) <= VAL(c)
  BY <1>1, ValType DEF Heapify, LoopInvariant, Ordered, Bridged, TypeOK, HEAPSIZE
<1>4. \A k \in 2..HEAPSIZE : PARENTINDEX(k) \in 1..HEAPSIZE /\ PARENTINDEX(k) < k
  BY <1>3, ParentFacts
<1>5. CASE HEAPSIZE >= 1
  <2>1. i \in 1..HEAPSIZE
    BY <1>3, <1>5
  <2>2. /\ s \in 1..HEAPSIZE
        /\ s # i => PARENTINDEX(s) = i /\ s > i
        /\ VAL(s) <= VAL(i)
        /\ \A c \in 2..HEAPSIZE : PARENTINDEX(c) = i => VAL(s) <= VAL(c)
    BY <1>2, <2>1, SmallestFacts
  <2>3. CASE VAL(s) # VAL(i)
    <3>1. /\ g_heap' = Swap(s, i) /\ index' = s /\ pc' = "heapify"
          /\ UNCHANGED next_trigger
      BY <1>1, <1>2, <1>5, <2>3 DEF Heapify
    <3>2. s # i /\ PARENTINDEX(s) = i /\ s > i /\ VAL(s) < VAL(i)
      BY <1>3, <2>1, <2>2, <2>3
    <3>3. /\ HEAPSIZE' = HEAPSIZE
          /\ VAL(i)' = VAL(s)
          /\ VAL(s)' = VAL(i)
          /\ \A k \in 1..HEAPSIZE : k # i /\ k # s => VAL(k)' = VAL(k)
      BY <2>1, <2>2, <3>1, SwapValues
    <3>4. ASSUME NEW k \in 2..HEAPSIZE, PARENTINDEX(k) # s
          PROVE  Ordered(k)'
      <4>1. PICK q \in 1..HEAPSIZE : q = PARENTINDEX(k) /\ q < k
        BY <1>4
      <4>2. SUFFICES VAL(q)' <= VAL(k)'
        BY <4>1 DEF Ordered, PARENTINDEX
      <4>3. CASE k = s
        BY <1>3, <2>1, <2>2, <3>2, <3>3, <4>1, <4>3
      <4>4. CASE k = i
        <5>1. VAL(q) <= VAL(s)
          BY <1>3, <2>1, <2>2, <3>2, <4>1, <4>4
        <5>2. q # i /\ q # s
          BY <3>2, <3>4, <4>1, <4>4
        <5>3. QED
          BY <3>3, <4>1, <4>4, <5>1, <5>2
      <4>5. CASE k # s /\ k # i /\ q = i
        <5>1. VAL(q)' = VAL(s) /\ VAL(k)' = VAL(k)
          BY <3>3, <4>5 DEF VAL
        <5>2. QED
          BY <2>2, <4>1, <4>5, <5>1
      <4>6. CASE k # s /\ k # i /\ q # i
        BY <1>3, <3>3, <3>4, <4>1, <4>6
      <4>7. QED
        BY <4>3, <4>4, <4>5, <4>6
    <3>5. ASSUME NEW c \in 2..HEAPSIZE, PARENTINDEX(c) = s
          PROVE  VAL(i)' <= VAL(c)'
      <4>1. VAL(s) <= VAL(c) /\ c # s /\ c # i
        BY <1>3, <1>4, <3>2, <3>5
      <4>2. QED
        BY <3>3, <4>1
    <3>6. Bridged(index)'
      BY <3>1, <3>2, <3>3, <3>5 DEF Bridged, PARENTINDEX
    <3>7. QED
      BY <1>3, <2>1, <2>2, <3>1, <3>3, <3>4, <3>6 DEF LoopInvariant
  <2>4. CASE VAL(s) = VAL(i)
    <3>1. pc' \in {"idle", "destroy"} /\ UNCHANGED <<g_heap, next_trigger>>
      BY <1>1, <1>2, <2>4 DEF Heapify
    <3>2. \A k \in 2..HEAPSIZE : Ordered(k)
      BY <1>3, <1>4, <2>1, <2>2, <2>4 DEF Ordered
    <3>3. QED
      BY <3>1, <3>2 DEF LoopInvariant, Ordered, VAL, HEAPSIZE
  <2>5. QED
    BY <2>3, <2>4
<1>6. CASE ~(HEAPSIZE >= 1)
  BY <1>3, <1>6 DEF Heapify, LoopInvariant, HEAPSIZE
<1>7. QED
  BY <1>5, <1>6

LEMMA LoopStep ==
  ASSUME TypeOK, LoopInvariant, [Next]_vars
  PROVE  LoopInvariant'
<1>1. HEAPSIZE \in Nat
  BY DEF TypeOK, HEAPSIZE
<1>2. \A i \in 2..HEAPSIZE :
        /\ PARENTINDEX(i) \in 1..HEAPSIZE /\ PARENTINDEX(i) < i
  BY <1>1, ParentFacts
<1>3. ASSUME NEW e \in Events, NEW t \in Times, Insert(e, t)
      PROVE  LoopInvariant'
  <2>1. /\ HEAPSIZE' = HEAPSIZE + 1 /\ index' = HEAPSIZE + 1 /\ pc' = "bubble"
        /\ \A i \in 2..HEAPSIZE : VAL(PARENTINDEX(i)) <= VAL(i)
        /\ \A k \in 1..HEAPSIZE : VAL(k)' = VAL(k)
    BY <1>3, InsertFacts DEF Insert, LoopInvariant, Ordered
  <2>2. \A i \in 2..HEAPSIZE : Ordered(i)'
    <3>1. SUFFICES ASSUME NEW i \in 2..HEAPSIZE
                   PROVE  VAL(PARENTINDEX(i))' <= VAL(i)'
      BY DEF Ordered
    <3>2. VAL(PARENTINDEX(i))' = VAL(PARENTINDEX(i))
      BY <1>2, <2>1 DEF VAL, PARENTINDEX
    <3>3. QED
      BY <1>1, <2>1, <3>2
  <2>3. \A c \in 2..(HEAPSIZE + 1) : PARENTINDEX(c) # HEAPSIZE + 1
    BY <1>1, ParentFacts
  <2>4. QED
    BY <1>1, <2>1, <2>2, <2>3 DEF LoopInvariant, Bridged, PARENTINDEX
<1>4. ASSUME TakeRoot, pc \in {"idle", "destroy"}
      PROVE  LoopInvariant'
  <2>1. /\ HEAPSIZE' = HEAPSIZE - 1 /\ index' = 1 /\ pc' = "heapify"
        /\ \A i \in 2..HEAPSIZE : VAL(PARENTINDEX(i)) <= VAL(i)
        /\ \A k \in 2..HEAPSIZE' : VAL(k)' = VAL(k)
    BY <1>4, TakeRootFacts DEF TakeRoot, LoopInvariant, Ordered
  <2>2. ASSUME NEW i \in 2..HEAPSIZE', PARENTINDEX(i) # 1
        PROVE  Ordered(i)'
    <3>1. i \in 2..HEAPSIZE /\ PARENTINDEX(i) \in 2..HEAPSIZE'
      BY <1>1, <1>2, <2>1, <2>2
    <3>2. VAL(PARENTINDEX(i))' = VAL(PARENTINDEX(i)) /\ VAL(i)' = VAL(i)
      BY <2>1, <3>1 DEF VAL, PARENTINDEX
    <3>3. QED
      BY <2>1, <3>1, <3>2 DEF Ordered
  <2>3. QED
    BY <2>1, <2>2 DEF LoopInvariant, Bridged, PARENTINDEX
<1>5. CASE Destroy
  BY <1>5 DEF Destroy, LoopInvariant, Ordered, VAL, HEAPSIZE
<1>6. CASE DestroyEnd
  BY <1>6 DEF DestroyEnd, LoopInvariant, Ordered, VAL, HEAPSIZE
<1>7. CASE UNCHANGED vars
  BY <1>7 DEF vars, LoopInvariant, Ordered, Bridged, VAL, HEAPSIZE
<1>8. QED
  BY <1>3, <1>4, <1>5, <1>6, <1>7, BubbleUpKeepsOrder, HeapifyKeepsOrder
  DEF Next, Fetch, FetchTriggered, DestroyFetch

-----------------------------------------------------------------------------
LEMMA SlotsStep ==
  ASSUME TypeOK, SlotsInBounds, [Next]_vars
  PROVE  SlotsInBounds'
<1>1. HEAPSIZE \in Nat /\ capacity \in Nat
  BY DEF TypeOK, HEAPSIZE
<1>2. ASSUME NEW e \in Events, NEW t \in Times, Insert(e, t)
      PROVE  SlotsInBounds'
  <2> DEFINE Allocated(s) == IF capacity = 0 THEN SIZE_INCREMENT + s ELSE capacity
  <2>1. PICK s \in Slack :
          capacity' = IF Allocated(s) < HEAPSIZE + 2
                      THEN Allocated(s) + GROWTH + s ELSE Allocated(s)
    BY <1>2 DEF Insert, Grow
  <2>2. s \in Nat
    BY HeapAssumption
  <2>3. Allocated(s) \in Nat /\ Allocated(s) >= HEAPSIZE + 1
    BY <1>1, <2>2, HeapAssumption DEF SlotsInBounds
  <2> HIDE DEF Allocated
  <2>4. capacity' >= HEAPSIZE + 2
    BY <1>1, <2>1, <2>2, <2>3, HeapAssumption
  <2>5. HEAPSIZE' = HEAPSIZE + 1
    BY <1>2, InsertFacts
  <2>6. QED
    BY <1>1, <2>4, <2>5 DEF SlotsInBounds
<1>3. ASSUME TakeRoot PROVE SlotsInBounds'
  <2>1. HEAPSIZE' = HEAPSIZE - 1 /\ capacity' = capacity
    BY <1>3, TakeRootFacts DEF TakeRoot
  <2>2. QED
    BY <1>1, <2>1 DEF SlotsInBounds
<1>4. CASE UNCHANGED g_heap /\ UNCHANGED capacity
  BY <1>4 DEF SlotsInBounds, HEAPSIZE
<1>5. ASSUME BubbleUp \/ Heapify PROVE HEAPSIZE' = HEAPSIZE
  BY <1>5 DEF BubbleUp, Heapify, Swap, TypeOK, HEAPSIZE
<1>6. CASE BubbleUp \/ Heapify
  BY <1>5, <1>6 DEF BubbleUp, Heapify, SlotsInBounds
<1>7. CASE DestroyEnd
  BY <1>7 DEF DestroyEnd, SlotsInBounds, HEAPSIZE
<1>8. CASE Destroy \/ UNCHANGED vars
  BY <1>4, <1>8 DEF Destroy, vars
<1>9. QED
  BY <1>2, <1>3, <1>6, <1>7, <1>8
  DEF Next, Fetch, FetchTriggered, DestroyFetch

\* In an array in heap order no slot is smaller than the root: a smallest
\* index with a smaller value would have a parent with one.
LEMMA RootLemma ==
  ASSUME TypeOK, \A i \in 2..HEAPSIZE : Ordered(i)
  PROVE  \A i \in 1..HEAPSIZE : VAL(1) <= VAL(i)
<1>1. /\ HEAPSIZE \in Nat
      /\ \A k \in 1..HEAPSIZE : VAL(k) \in Int
  BY ValType DEF TypeOK, HEAPSIZE
<1> DEFINE Below == {k \in 1..HEAPSIZE : VAL(k) < VAL(1)}
           Prefixes == {1..k : k \in Below}
<1>2. SUFFICES ASSUME Below # {} PROVE FALSE
  BY <1>1
<1>3. Prefixes \subseteq FiniteSubsetsOf(Nat) /\ Prefixes # {}
  <2>1. ASSUME NEW k \in Below PROVE 1..k \in FiniteSubsetsOf(Nat)
    <3>1. k \in Int /\ 1..k \subseteq Nat
      BY <1>1
    <3>2. IsFiniteSet(1..k)
      BY <3>1, FS_Interval
    <3>3. QED
      BY <3>1, <3>2 DEF FiniteSubsetsOf
  <2>2. QED
    BY <1>2, <2>1
<1>4. PICK P \in Prefixes :
        \A Q \in Prefixes : ~(<<Q, P>> \in StrictSubsetOrdering(Nat))
  <2>1. IsWellFoundedOn(StrictSubsetOrdering(Nat), FiniteSubsetsOf(Nat))
    BY FS_StrictSubsetOrderingWellFounded
  <2> HIDE DEF Prefixes
  <2>2. QED
    BY <1>3, <2>1, WFMin
<1>5. PICK k \in Below : P = 1..k
  OBVIOUS
<1>6. k \in 2..HEAPSIZE
  BY <1>1
<1>7. PICK p \in 1..HEAPSIZE : p = PARENTINDEX(k) /\ p < k
  BY <1>1, <1>6, ParentFacts
<1>8. p \in Below
  BY <1>1, <1>6, <1>7 DEF Ordered
<1>9. <<1..p, P>> \in StrictSubsetOrdering(Nat)
  <2>1. 1..p \subseteq 1..k /\ 1..p # 1..k /\ 1..k \subseteq Nat
    BY <1>6, <1>7
  <2>2. QED
    BY <1>5, <2>1 DEF StrictSubsetOrdering
<1>10. QED
  BY <1>4, <1>8, <1>9

LEMMA RootOfOrdered ==
  ASSUME TypeOK, LoopInvariant
  PROVE  RootIsEarliest
BY RootLemma DEF LoopInvariant, RootIsEarliest, Scheduled, VAL

-----------------------------------------------------------------------------
LEMMA HeapInit ==
  ASSUME Init
  PROVE  TypeOK /\ LoopInvariant /\ SlotsInBounds
<1>1. HEAPSIZE = 0 /\ g_heap \in Seq(Events)
  BY DEF Init, HEAPSIZE
<1>2. destroying \in BOOLEAN
  BY DEF Init
<1>3. next_trigger \in [Events -> Times \cup {0}]
  BY DEF Init
<1>4. TypeOK
  BY <1>1, <1>2, <1>3 DEF Init, TypeOK
<1>5. QED
  BY <1>1, <1>4 DEF Init, LoopInvariant, SlotsInBounds

\* The array is a heap after every round of both loops, with no event in it
\* twice, whatever is inserted and fetched.
THEOREM HeapIsOrdered == Spec => [](TypeOK /\ LoopInvariant)
<1>1. Init => TypeOK /\ LoopInvariant
  BY HeapInit
<1>2. TypeOK /\ LoopInvariant /\ [Next]_vars => TypeOK' /\ LoopInvariant'
  BY TypeStep, LoopStep
<1>3. QED
  BY <1>1, <1>2, PTL DEF Spec

\* No slot is empty, and no event is in two slots, in the middle of a loop either.
THEOREM TypeCorrect == Spec => []TypeOK
BY HeapIsOrdered, PTL

\* The event the schedule timer is armed with, and the only one
\* eventheap_fetchtriggered() looks at, is an earliest one.
THEOREM RootEarliest == Spec => []RootIsEarliest
BY HeapIsOrdered, RootOfOrdered, PTL

\* No insert writes outside the allocation, however it grows.
THEOREM SlotsSafe == Spec => []SlotsInBounds
<1>1. Init => SlotsInBounds
  BY HeapInit
<1>2. TypeOK /\ SlotsInBounds /\ [Next]_vars => SlotsInBounds'
  BY SlotsStep
<1>3. QED
  BY <1>1, <1>2, HeapIsOrdered, PTL DEF Spec

-----------------------------------------------------------------------------
\* A fetch of the heap is a fetch of the queue.
LEMMA TakeRootImplements ==
  ASSUME TypeOK, LoopInvariant, TakeRoot, pc \in {"idle", "destroy"}
  PROVE  Queue!Fetch
<1>1. /\ Scheduled' = Scheduled \ {g_heap[1]}
      /\ fetched' = g_heap[1]
      /\ g_heap[1] \in Scheduled
      /\ HEAPSIZE >= 1
      /\ UNCHANGED next_trigger
  BY TakeRootFacts DEF TakeRoot
<1>2. Queue!Earliest(g_heap[1])
  BY <1>1, RootOfOrdered DEF Queue!Earliest, RootIsEarliest, VAL
<1>3. QED
  BY <1>1, <1>2 DEF Queue!Fetch

LEMMA StepImplements ==
  ASSUME TypeOK, LoopInvariant, [Next]_vars
  PROVE  [Queue!Next]_(Queue!vars)
<1>1. ASSUME NEW e \in Events, NEW t \in Times, Insert(e, t)
      PROVE  Queue!Insert(e, t)
  BY <1>1, InsertFacts DEF Insert, Queue!Insert
<1>2. ASSUME BubbleUp \/ Heapify PROVE UNCHANGED <<Scheduled, next_trigger, fetched>>
  <2>1. CASE UNCHANGED g_heap
    BY <1>2, <2>1 DEF BubbleUp, Heapify, Scheduled, HEAPSIZE
  <2>2. CASE ~UNCHANGED g_heap
    <3>1. PICK i \in 1..HEAPSIZE, j \in 1..HEAPSIZE : g_heap' = Swap(i, j)
      <4>1. HEAPSIZE \in Nat
        BY DEF TypeOK, HEAPSIZE
      <4>2. CASE BubbleUp
        BY <2>2, <4>1, <4>2, ParentFacts DEF BubbleUp, LoopInvariant
      <4>3. CASE Heapify
        <5>1. index \in 1..HEAPSIZE
          BY <2>2, <4>1, <4>3 DEF Heapify, LoopInvariant, TypeOK
        <5>2. QED
          BY <2>2, <4>3, <5>1, SmallestFacts DEF Heapify
      <4>4. QED
        BY <1>2, <4>2, <4>3
    <3>2. Scheduled' = Scheduled
      BY <3>1, SwapFacts DEF Scheduled, HEAPSIZE
    <3>3. QED
      BY <1>2, <3>2 DEF BubbleUp, Heapify
  <2>3. QED
    BY <2>1, <2>2
<1>3. ASSUME Destroy \/ DestroyEnd \/ UNCHANGED vars
      PROVE  UNCHANGED <<Scheduled, next_trigger, fetched>>
  BY <1>3 DEF Destroy, DestroyEnd, vars, Scheduled, HEAPSIZE
<1>4. QED
  BY <1>1, <1>2, <1>3, TakeRootImplements
  DEF Next, Fetch, FetchTriggered, DestroyFetch, Queue!Next, Queue!vars

\* The heap implements the queue of EventQueue: nothing else is ever handed
\* out than an earliest event, and no event appears or gets lost.
THEOREM HeapImplementsQueue == Spec => ImplementsQueue
<1>1. Init => Queue!Init
  BY DEF Init, Queue!Init, Scheduled, HEAPSIZE
<1>2. TypeOK /\ LoopInvariant /\ [Next]_vars => [Queue!Next]_(Queue!vars)
  BY StepImplements
<1>3. QED
  BY <1>1, <1>2, HeapIsOrdered, PTL DEF Spec, ImplementsQueue, Queue!Spec

=============================================================================
