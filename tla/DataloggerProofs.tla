-------------------------- MODULE DataloggerProofs --------------------------
(***************************************************************************)
(* Theorems about a worker: whom it kills, what it may sleep on, and what  *)
(* its row says of the scrubber.                                           *)
(***************************************************************************)
EXTENDS Datalogger, TLAPS

USE DEF scrubber, ping, record

LEMMA Names ==
  /\ timeoutfd["modem"] = "modem.timeoutfd"
  /\ timeoutfd["inet"] = "inet.timeoutfd"
  /\ timeoutfd["scrubber"] = "scrubber.timeoutfd"
  /\ recvfd["modem"] = "modem.recvfd"
  /\ recvfd["inet"] = "inet.recvfd"
BY DEF timeoutfd, recvfd

LEMMA FdsAre ==
  Fds = {"signalfd", "scrubber.timeoutfd", "modem.recvfd", "modem.timeoutfd",
         "inet.recvfd", "inet.timeoutfd"}
BY Names DEF Fds, Timers, Pings

LEMMA Order ==
  /\ After["signalfd"] = "scrubber.timeoutfd"
  /\ After["scrubber.timeoutfd"] = "modem.recvfd"
  /\ After["modem.recvfd"] = "modem.timeoutfd"
  /\ After["modem.timeoutfd"] = "inet.recvfd"
  /\ After["inet.recvfd"] = "inet.timeoutfd"
  /\ After["inet.timeoutfd"] = "while"
BY FdsAre DEF After

-----------------------------------------------------------------------------
(***************************************************************************)
(* Types.                                                                  *)
(***************************************************************************)

LEMMA TypesInit == Init => TypeOK
<1> SUFFICES ASSUME Init PROVE TypeOK
  OBVIOUS
<1>1. timer \in [Timers -> {"off", "armed", "expired"}]
  BY DEF Init
<1>2. sent_and_listening \in [Pings -> BOOLEAN]
  BY DEF Init
<1>3. timerecv \in [Pings -> Packets \cup {"zero", "none"}]
  BY DEF Init
<1>4. outcome \in Outcomes
  BY DEF Init, Outcomes
<1>5. pid \in BOOLEAN /\ killed_for_timeout \in BOOLEAN
  BY DEF Init
<1>6. row \in [modem: Packets \cup {"zero", "none"}, inet: Packets \cup {"zero", "none"},
               line: {"values", "none"}]
  BY DEF Init, NoRow
<1> QED BY <1>1, <1>2, <1>3, <1>4, <1>5, <1>6 DEF Init, TypeOK, Ended

LEMMA AfterTypes == \A fd \in Fds : After[fd] \in Fds \cup {"while"}
BY FdsAre, Order

LEMMA TypesStep == TypeOK /\ [Next]_vars => TypeOK'
<1> SUFFICES ASSUME TypeOK, [Next]_vars PROVE TypeOK'
  OBVIOUS
<1> USE DEF TypeOK, Ended
<1>1. CASE Prepare \/ PrepareFails \/ Fork \/ ForkFails
  BY <1>1 DEF Prepare, PrepareFails, Fork, ForkFails, Timers
<1>2. ASSUME NEW p \in Pings, Send(p) \/ SendFails(p) PROVE TypeOK'
  <2>1. sent_and_listening' \in [Pings -> BOOLEAN]
    BY <1>2 DEF Send, SendFails
  <2>2. timer' \in [Timers -> {"off", "armed", "expired"}]
    BY <1>2 DEF Send, SendFails, Timers
  <2>3. pc' \in {"send_modem", "pselect", "exit"}
    BY <1>2 DEF Send, SendFails
  <2> QED BY <1>2, <2>1, <2>2, <2>3 DEF Send, SendFails
<1>3. CASE Pselect
  BY <1>3, FdsAre, Names DEF Pselect, Ready, Listening, Timers, Pings
<1>4. CASE NotReady
  BY <1>4, AfterTypes DEF NotReady
<1>5. CASE Terminate
  BY <1>5 DEF Terminate
<1>6. CASE Collect
  BY <1>6, AfterTypes DEF Collect, At, ScrubberFlags, Outcomes, Timers
<1>7. CASE ScrubberTimeout
  BY <1>7, AfterTypes, FdsAre, Names DEF ScrubberTimeout, At, Acknowledge, Timers
<1>8. ASSUME NEW p \in Pings, Reply(p) \/ ReplyFails(p) PROVE TypeOK'
  <2>1. sent_and_listening' \in [Pings -> BOOLEAN]
    BY <1>8 DEF Reply, ReplyFails
  <2>2. timer' \in [Timers -> {"off", "armed", "expired"}]
    BY <1>8 DEF Reply, ReplyFails, Timers
  <2>3. timerecv' \in [Pings -> Packets \cup {"zero", "none"}]
    BY <1>8 DEF Reply, ReplyFails
  <2>4. pc' \in Fds \cup {"while", "exit"}
    BY <1>8, AfterTypes, FdsAre, Names DEF Reply, ReplyFails, At, Pings
  <2> QED BY <1>8, <2>1, <2>2, <2>3, <2>4 DEF Reply, ReplyFails
<1>9. ASSUME NEW p \in Pings, PingTimeout(p) PROVE TypeOK'
  <2>1. sent_and_listening' \in [Pings -> BOOLEAN]
    BY <1>9 DEF PingTimeout
  <2>2. timer' \in [Timers -> {"off", "armed", "expired"}]
    BY <1>9 DEF PingTimeout, Acknowledge, Timers
  <2>3. pc' \in Fds \cup {"while"}
    BY <1>9, AfterTypes, FdsAre, Names DEF PingTimeout, At, Pings
  <2> QED BY <1>9, <2>1, <2>2, <2>3 DEF PingTimeout
<1>10. CASE While \/ Preprocess \/ InsertFails
  BY <1>10 DEF While, Preprocess, InsertFails
<1>16. CASE Insert
  <2>1. row' \in [modem: Packets \cup {"zero", "none"}, inet: Packets \cup {"zero", "none"},
                  line: {"values", "none"}]
    BY <1>16 DEF Insert, Pings
  <2> QED BY <1>16, <2>1 DEF Insert
<1>11. CASE ScrubberExits \/ ScrubberDies
  BY <1>11 DEF ScrubberExits, ScrubberDies
<1>12. CASE \E t \in Timers : Expire(t)
  BY <1>12 DEF Expire
<1>13. CASE \E s \in Packets : Arrive(s)
  BY <1>13 DEF Arrive
<1>14. CASE SendTerm \/ WorkerTimeout
  BY <1>14 DEF SendTerm, WorkerTimeout
<1>15. CASE UNCHANGED vars
  BY <1>15 DEF vars
<1> QED BY <1>1, <1>2, <1>3, <1>4, <1>5, <1>6, <1>7, <1>8, <1>9, <1>10, <1>11,
           <1>12, <1>13, <1>14, <1>15, <1>16 DEF Next, Worker

\* Type correctness: every variable keeps the range its C counterpart has.
THEOREM TypeCorrect == Spec => []TypeOK
BY TypesInit, TypesStep, PTL DEF Spec

-----------------------------------------------------------------------------
(***************************************************************************)
(* The scrubber.                                                           *)
(***************************************************************************)
Alive == {"running", "dying", "zombie"}

\* pid says whether there is a scrubber to wait for, and its timer runs only
\* for one that was not collected.
ScrubberInv ==
  /\ pid <=> process \in Alive
  /\ process = "none" => pc \in {"prepare", "fork"} \cup Ended
  /\ pc \in {"prepare", "fork"} => process = "none"
  /\ pc \in {"send_inet", "send_modem"} => process # "collected"
  /\ timer["scrubber"] # "off" => pid \/ pc \in {"fork"} \cup Ended
  /\ process = "dying" => killed_for_timeout \/ pc \in Ended
  /\ pc \in {"preprocess", "insert", "returned"} => process = "collected"

\* What its end leaves in the record.
Written == IF outcome.ended = "signal" THEN "none" ELSE outcome.stdout
Accounted ==
  /\ line = "values" <=> /\ outcome.stdout = "values" /\ ~killed_for_timeout
                         /\ outcome.ended # "signal"
  /\ line = "none" /\ returnvalue \subseteq {"SQLITE3_ERROR"} =>
       killed_for_timeout /\ outcome.ended = "zero"
  /\ "SCRUBBER_TIMEOUT" \in returnvalue =>
       returnvalue \subseteq {"SCRUBBER_TIMEOUT", "SQLITE3_ERROR"}
RecordInv ==
  /\ process # "collected" => returnvalue = {} /\ stdoutbuffer = "none"
  /\ process = "collected" /\ pc \in Fds \cup {"pselect", "while", "preprocess"} =>
       returnvalue = ScrubberFlags /\ stdoutbuffer = Written
  /\ pc \in {"insert", "returned"} => Accounted

-----------------------------------------------------------------------------
(***************************************************************************)
(* The snapshot.                                                           *)
(***************************************************************************)

\* The descriptors that are tested before p's reply was looked for.
BeforeReply(p) ==
  IF p = "modem" THEN {"signalfd", "scrubber.timeoutfd", "modem.recvfd"}
  ELSE {"signalfd", "scrubber.timeoutfd", "modem.recvfd", "modem.timeoutfd",
        "inet.recvfd"}

ScrubberSnapshot ==
  timeoutfd["scrubber"] \in readfds =>
    /\ pc = "signalfd" => timer["scrubber"] = "expired"
    /\ pc = timeoutfd["scrubber"] /\ timer["scrubber"] # "expired" =>
         timer["scrubber"] = "off" /\ process = "collected"
PingSnapshot(p) ==
  timeoutfd[p] \in readfds =>
    /\ pc \in BeforeReply(p) => timer[p] = "expired"
    /\ pc = timeoutfd[p] /\ timer[p] # "expired" =>
         /\ timer[p] = "off"
         /\ ~sent_and_listening[p] /\ timerecv[p] # "zero"
SnapshotInv == ScrubberSnapshot /\ \A p \in Pings : PingSnapshot(p)

IInv == TypeOK /\ ScrubberInv /\ RecordInv /\ SnapshotInv

LEMMA InvInit == Init => ScrubberInv /\ RecordInv /\ SnapshotInv
<1> SUFFICES ASSUME Init PROVE ScrubberInv /\ RecordInv /\ SnapshotInv
  OBVIOUS
<1>1. ScrubberInv
  BY DEF Init, ScrubberInv, Alive, Timers, Ended
<1>2. RecordInv
  BY FdsAre DEF Init, RecordInv, Ended
<1>3. SnapshotInv
  BY DEF Init, SnapshotInv, ScrubberSnapshot, PingSnapshot
<1> QED BY <1>1, <1>2, <1>3

LEMMA ScrubberStep == TypeOK /\ ScrubberInv /\ [Next]_vars => ScrubberInv'
<1> SUFFICES ASSUME TypeOK, ScrubberInv, [Next]_vars PROVE ScrubberInv'
  OBVIOUS
<1> USE DEF ScrubberInv, Ended, Alive
<1>0. timer \in [Timers -> {"off", "armed", "expired"}] /\ pid \in BOOLEAN
  BY DEF TypeOK
<1>1. CASE Prepare \/ PrepareFails \/ Fork \/ ForkFails
  BY <1>0, <1>1 DEF Prepare, PrepareFails, Fork, ForkFails
<1>2. ASSUME NEW p \in Pings, Send(p) \/ SendFails(p) PROVE ScrubberInv'
  <2>1. timer'["scrubber"] = timer["scrubber"]
    BY <1>0, <1>2 DEF Send, SendFails, Pings, Timers
  <2> QED BY <1>0, <1>2, <2>1 DEF Send, SendFails
<1>3. CASE Pselect \/ NotReady
  BY <1>0, <1>3, FdsAre, AfterTypes DEF Pselect, NotReady
<1>4. CASE Terminate
  BY <1>0, <1>4 DEF Terminate, At
<1>5. CASE Collect
  BY <1>0, <1>5, Order DEF Collect, At, Timers
<1>6. CASE ScrubberTimeout
  <2>1. timer'["scrubber"] = "off"
    BY <1>0, <1>6 DEF ScrubberTimeout, Acknowledge, Timers
  <2>2. pid /\ process \in Alive
    BY <1>6, Names DEF ScrubberTimeout, Acknowledge, At
  <2> QED BY <1>0, <1>6, <2>1, <2>2, Names, Order DEF ScrubberTimeout, At
<1>7. ASSUME NEW p \in Pings, Reply(p) \/ ReplyFails(p) \/ PingTimeout(p) PROVE ScrubberInv'
  <2>1. timer'["scrubber"] = timer["scrubber"]
    BY <1>0, <1>7 DEF Reply, ReplyFails, PingTimeout, Acknowledge, Pings, Timers
  <2>2. pc \in Fds /\ pc' \in Fds \cup {"while", "exit"}
    BY <1>7, FdsAre, Names, AfterTypes DEF Reply, ReplyFails, PingTimeout, At, Pings
  <2> QED BY <1>0, <1>7, <2>1, <2>2, FdsAre DEF Reply, ReplyFails, PingTimeout
<1>8. CASE While
  BY <1>0, <1>8 DEF While, TypeOK
<1>9. CASE Preprocess \/ Insert \/ InsertFails
  BY <1>0, <1>9 DEF Preprocess, Insert, InsertFails
<1>10. CASE ScrubberExits \/ ScrubberDies
  BY <1>0, <1>10 DEF ScrubberExits, ScrubberDies
<1>11. ASSUME NEW t \in Timers, Expire(t) PROVE ScrubberInv'
  BY <1>0, <1>11 DEF Expire
<1>12. CASE (\E s \in Packets : Arrive(s)) \/ SendTerm \/ WorkerTimeout
  BY <1>0, <1>12 DEF Arrive, SendTerm, WorkerTimeout
<1>13. CASE UNCHANGED vars
  BY <1>13 DEF vars
<1> QED BY <1>1, <1>2, <1>3, <1>4, <1>5, <1>6, <1>7, <1>8, <1>9, <1>10, <1>11,
           <1>12, <1>13 DEF Next, Worker

\* A step before or behind the record that only moves pc.
LEMMA RecordStays ==
  ASSUME RecordInv, UNCHANGED <<process, outcome, killed_for_timeout, stdoutbuffer, record>>,
         pc' = pc \/ pc' \notin {"insert", "returned"},
         process = "collected" /\ pc' \in Fds \cup {"pselect", "while", "preprocess"} =>
           pc \in Fds \cup {"pselect", "while", "preprocess"}
  PROVE  RecordInv'
BY DEF RecordInv, Accounted, Written, ScrubberFlags

LEMMA RecordStep ==
  TypeOK /\ ScrubberInv /\ RecordInv /\ [Next]_vars => RecordInv'
<1> SUFFICES ASSUME TypeOK, ScrubberInv, RecordInv, [Next]_vars PROVE RecordInv'
  OBVIOUS
<1>0. /\ timer \in [Timers -> {"off", "armed", "expired"}]
      /\ returnvalue \subseteq {"SCRUBBER_TIMEOUT", "SCRUBBER_FAILURE",
                                "SCRUBBER_DATAERROR", "SQLITE3_ERROR"}
      /\ stdoutbuffer \in {"values", "short", "none"}
      /\ outcome \in Outcomes
  BY DEF TypeOK
<1>1. CASE Prepare \/ PrepareFails \/ ForkFails
  BY <1>1, RecordStays, FdsAre DEF Prepare, PrepareFails, ForkFails
<1>2. CASE Fork
  BY <1>2 DEF Fork, RecordInv, ScrubberInv
<1>3. ASSUME NEW p \in Pings, Send(p) \/ SendFails(p) PROVE RecordInv'
  <2>1. pc \in {"send_inet", "send_modem"} /\ pc' \in {"send_modem", "pselect", "exit"}
    BY <1>3 DEF Send, SendFails
  <2>2. process # "collected"
    BY <2>1 DEF ScrubberInv
  <2> QED BY <1>3, <2>1, <2>2, RecordStays DEF Send, SendFails
<1>4. CASE Pselect \/ NotReady
  <2>1. pc' \in Fds \cup {"while"} /\ pc \in Fds \cup {"pselect"}
    BY <1>4, AfterTypes, FdsAre DEF Pselect, NotReady
  <2> QED BY <1>4, <2>1, FdsAre, RecordStays DEF Pselect, NotReady
<1>5. CASE Terminate
  <2>1. pc' = "_exit" /\ pc \in Fds
    BY <1>5, FdsAre DEF Terminate, At
  <2>2. process' = "collected" => process = "collected"
    BY <1>5 DEF Terminate
  <2>3. process # "collected" \/ process' = "collected"
    BY <1>5 DEF Terminate
  <2> QED BY <1>5, <2>1, <2>2, <2>3, FdsAre DEF Terminate, RecordInv
<1>6. CASE Collect
  <2>1. pc \in Fds /\ pc' \in Fds \cup {"while"} /\ process' = "collected"
    BY <1>6, FdsAre, AfterTypes DEF Collect, At
  <2>2. CASE process = "collected"
    <3>1. ScrubberFlags' = ScrubberFlags /\ Written' = Written
      BY <1>6 DEF Collect, ScrubberFlags, Written
    <3>2. stdoutbuffer' = Written /\ returnvalue' = ScrubberFlags
      BY <1>6, <2>1, <2>2 DEF Collect, RecordInv, Written
    <3> QED BY <2>1, <3>1, <3>2, FdsAre DEF RecordInv
  <2>3. CASE process # "collected"
    <3>1. ScrubberFlags' = ScrubberFlags /\ Written' = Written
      BY <1>6 DEF Collect, ScrubberFlags, Written
    <3>2. stdoutbuffer' = Written /\ returnvalue' = ScrubberFlags
      BY <1>6, <2>1, <2>3 DEF Collect, RecordInv, Written
    <3> QED BY <2>1, <3>1, <3>2, FdsAre DEF RecordInv
  <2> QED BY <2>2, <2>3
<1>7. CASE ScrubberTimeout
  <2>1. process \in Alive /\ process' # "collected" /\ process # "collected"
    BY <1>7, Names DEF ScrubberTimeout, Acknowledge, At, ScrubberInv, Ended, Alive
  <2>2. pc' \in Fds \cup {"while", "killed"}
    BY <1>7, AfterTypes, FdsAre, Names DEF ScrubberTimeout, At
  <2> QED BY <1>7, <2>1, <2>2, FdsAre DEF ScrubberTimeout, RecordInv
<1>8. ASSUME NEW p \in Pings, Reply(p) \/ ReplyFails(p) \/ PingTimeout(p)
      PROVE  RecordInv'
  <2>1. pc \in Fds /\ pc' \in Fds \cup {"while", "exit"}
    BY <1>8, FdsAre, Names, AfterTypes DEF Reply, ReplyFails, PingTimeout, At, Pings
  <2> QED BY <1>8, <2>1, FdsAre, RecordStays DEF Reply, ReplyFails, PingTimeout
<1>9. CASE While
  BY <1>9, RecordStays DEF While
<1>10. CASE Preprocess
  <2>1. process = "collected" /\ process' = process /\ outcome' = outcome
    BY <1>10 DEF Preprocess, ScrubberInv
  <2>2. stdoutbuffer = Written /\ returnvalue = ScrubberFlags
    BY <1>10, <2>1 DEF Preprocess, RecordInv
  <2>3. Accounted'
    <3>1. killed_for_timeout' = killed_for_timeout
      BY <1>10 DEF Preprocess
    <3>2. CASE killed_for_timeout
      <4>1. line' = "none" /\ returnvalue' = ScrubberFlags
        BY <1>10, <2>2, <3>2 DEF Preprocess
      <4>2. outcome.ended \in {"zero", "nonzero", "signal"}
        BY <1>0 DEF Outcomes
      <4> QED BY <2>1, <3>1, <3>2, <4>1, <4>2 DEF Accounted, ScrubberFlags
    <3>3. CASE ~killed_for_timeout
      <4>1. line' = IF Written = "values" THEN "values" ELSE "none"
        BY <1>10, <2>2, <3>3 DEF Preprocess
      <4>2. returnvalue' = IF Written = "values" THEN ScrubberFlags
                           ELSE ScrubberFlags \cup {"SCRUBBER_DATAERROR"}
        BY <1>10, <2>2, <3>3 DEF Preprocess
      <4>3. "SCRUBBER_TIMEOUT" \notin returnvalue'
        BY <3>3, <4>2 DEF ScrubberFlags
      <4>4. line' = "none" => "SCRUBBER_DATAERROR" \in returnvalue'
        BY <4>1, <4>2
      <4>5. line' = "values" <=> outcome.stdout = "values" /\ outcome.ended # "signal"
        BY <4>1 DEF Written
      <4> QED BY <2>1, <3>1, <3>3, <4>3, <4>4, <4>5 DEF Accounted
    <3> QED BY <3>2, <3>3
  <2>4. pc' \in {"insert", "aborted"}
    BY <1>10 DEF Preprocess
  <2> QED BY <2>1, <2>3, <2>4, FdsAre DEF RecordInv
<1>11. CASE Insert \/ InsertFails
  <2>1. pc = "insert" /\ pc' = "returned" /\ process = "collected" /\ process' = process
    BY <1>11 DEF Insert, InsertFails, ScrubberInv
  <2>2. Accounted
    BY <2>1 DEF RecordInv
  <2>3. Accounted'
    BY <1>11, <2>2 DEF Insert, InsertFails, Accounted
  <2> QED BY <2>1, <2>3, FdsAre DEF RecordInv
<1>12. CASE ScrubberExits \/ ScrubberDies
  <2>1. process \in {"running", "dying"} /\ process' = "zombie"
    BY <1>12 DEF ScrubberExits, ScrubberDies
  <2>2. pc' \notin {"insert", "returned"}
    BY <1>12, <2>1 DEF ScrubberExits, ScrubberDies, ScrubberInv
  <2> QED BY <1>12, <2>1, <2>2 DEF ScrubberExits, ScrubberDies, RecordInv
<1>13. CASE \/ (\E t \in Timers : Expire(t)) \/ (\E s \in Packets : Arrive(s))
           \/ SendTerm \/ WorkerTimeout
  BY <1>13, RecordStays, FdsAre DEF Expire, Arrive, SendTerm, WorkerTimeout
<1>14. CASE UNCHANGED vars
  BY <1>14, RecordStays DEF vars
<1> QED BY <1>1, <1>2, <1>3, <1>4, <1>5, <1>6, <1>7, <1>8, <1>9, <1>10, <1>11,
           <1>12, <1>13, <1>14 DEF Next, Worker

-----------------------------------------------------------------------------
\* A step that leaves what is known of the scrubber's timer, and goes on at most
\* from a descriptor that is not the scrubber's.
LEMMA ScrubberSnapshotStays ==
  ASSUME ScrubberSnapshot, UNCHANGED readfds,
         timer'["scrubber"] = timer["scrubber"],
         process = "collected" => process' = "collected",
         pc' = pc \/ (pc \in Fds /\ pc' = After[pc])
  PROVE  ScrubberSnapshot'
BY FdsAre, Names, Order DEF ScrubberSnapshot

\* The same of a ping; behind the reply nothing is known unless it was handled.
LEMMA PingSnapshotStays ==
  ASSUME NEW p \in Pings, PingSnapshot(p),
         UNCHANGED <<readfds, sent_and_listening[p], timerecv[p], timer[p]>>,
         pc' = pc \/ (pc \in Fds /\ pc' = After[pc])
  PROVE  PingSnapshot(p)'
<1>1. CASE p = "modem"
  BY <1>1, FdsAre, Names, Order DEF PingSnapshot, BeforeReply
<1>2. CASE p = "inet"
  BY <1>2, FdsAre, Names, Order DEF PingSnapshot, BeforeReply
<1> QED BY <1>1, <1>2 DEF Pings

LEMMA SnapshotStep ==
  TypeOK /\ ScrubberInv /\ SnapshotInv /\ [Next]_vars => SnapshotInv'
<1> SUFFICES ASSUME TypeOK, ScrubberInv, SnapshotInv, [Next]_vars PROVE SnapshotInv'
  OBVIOUS
<1>0. /\ timer \in [Timers -> {"off", "armed", "expired"}]
      /\ sent_and_listening \in [Pings -> BOOLEAN]
      /\ timerecv \in [Pings -> Packets \cup {"zero", "none"}]
      /\ packet # "zero"
  BY DEF TypeOK, Packets, Pings
<1>1. ASSUME pc' \notin Fds PROVE SnapshotInv'
  BY <1>1, FdsAre, Names DEF SnapshotInv, ScrubberSnapshot, PingSnapshot,
     BeforeReply, Pings
<1>2. CASE Pselect
  <2>1. pc' = "signalfd" /\ readfds' = Ready /\ UNCHANGED timer
    BY <1>2 DEF Pselect
  <2>2. \A t \in Timers : timeoutfd[t] \in readfds' => timer[t] = "expired"
    BY <2>1, Names DEF Ready, Listening, Pings, Timers, recvfd
  <2> QED BY <2>1, <2>2, Names DEF SnapshotInv, ScrubberSnapshot, PingSnapshot,
          BeforeReply, Pings, Timers
\* Nothing happens to the timers and to what is known of their events.
<1>3. ASSUME UNCHANGED <<readfds, timer, sent_and_listening, timerecv>>,
             process = "collected" => process' = "collected",
             pc' = pc \/ (pc \in Fds /\ pc' = After[pc])
      PROVE  SnapshotInv'
  BY <1>3, ScrubberSnapshotStays, PingSnapshotStays DEF SnapshotInv
<1>4. CASE NotReady
  BY <1>3, <1>4 DEF NotReady
<1>5. CASE \/ Prepare \/ PrepareFails \/ Fork \/ ForkFails \/ While
           \/ Preprocess \/ Insert \/ InsertFails \/ Terminate
           \/ \E p \in Pings : Send(p) \/ SendFails(p) \/ ReplyFails(p)
  BY <1>1, <1>5, FdsAre DEF Prepare, PrepareFails, Fork, ForkFails, While, Preprocess,
     Insert, InsertFails, Terminate, Send, SendFails, ReplyFails
<1>6. CASE Collect
  <2>1. /\ pc = "signalfd" /\ pc' = timeoutfd["scrubber"] /\ process' = "collected"
        /\ UNCHANGED <<readfds, sent_and_listening, timerecv>>
        /\ timer'["scrubber"] = "off" /\ \A p \in Pings : timer'[p] = timer[p]
    BY <1>0, <1>6, Names, Order DEF Collect, At, Pings, Timers
  <2>2. ScrubberSnapshot'
    BY <2>1, Names DEF ScrubberSnapshot
  <2>3. ASSUME NEW p \in Pings PROVE PingSnapshot(p)'
    <3>1. pc \in Fds /\ pc' = After[pc]
      BY <2>1, Names, Order, FdsAre
    <3> QED BY <2>1, <3>1, PingSnapshotStays DEF SnapshotInv
  <2> QED BY <2>2, <2>3 DEF SnapshotInv
<1>7. CASE ScrubberTimeout
  <2>1. CASE pc' \notin Fds
    BY <1>1, <2>1
  <2>2. CASE pc' \in Fds
    <3>1. /\ pc = timeoutfd["scrubber"] /\ pc' = After[pc] /\ pc \in Fds
          /\ UNCHANGED <<readfds, sent_and_listening, timerecv>>
          /\ \A p \in Pings : timer'[p] = timer[p]
      BY <1>0, <1>7, <2>2, Names, FdsAre DEF ScrubberTimeout, At, Acknowledge, Pings, Timers
    <3>2. ScrubberSnapshot'
      BY <3>1, Names, Order DEF ScrubberSnapshot
    <3>3. ASSUME NEW p \in Pings PROVE PingSnapshot(p)'
      BY <3>1, PingSnapshotStays DEF SnapshotInv
    <3> QED BY <3>2, <3>3 DEF SnapshotInv
  <2> QED BY <2>1, <2>2
\* A ping whose reply or timeout was handled, and the other.
<1>8. ASSUME NEW p \in Pings, Reply(p) \/ PingTimeout(p)
      PROVE  SnapshotInv'
  <2>1. /\ pc \in Fds /\ pc' = After[pc] /\ UNCHANGED <<readfds, process>>
        /\ pc = recvfd[p] \/ pc = timeoutfd[p]
    BY <1>8, FdsAre, Names DEF Reply, PingTimeout, At, Pings
  <2>2. /\ timer'["scrubber"] = timer["scrubber"] /\ timer'[p] = "off"
        /\ \A q \in Pings \ {p} : timer'[q] = timer[q]
    BY <1>0, <1>8 DEF Reply, PingTimeout, Acknowledge, Pings, Timers
  <2>3. /\ ~sent_and_listening'[p]
        /\ \A q \in Pings \ {p} : /\ sent_and_listening'[q] = sent_and_listening[q]
                                 /\ timerecv'[q] = timerecv[q]
    BY <1>0, <1>8 DEF Reply, PingTimeout
  <2>4. pc = recvfd[p] => timerecv'[p] # "zero"
    BY <1>0, <1>8, Names DEF Reply, PingTimeout, At, Pings
  <2>5. ScrubberSnapshot'
    BY <2>1, <2>2, ScrubberSnapshotStays DEF SnapshotInv
  <2>6. ASSUME NEW q \in Pings \ {p} PROVE PingSnapshot(q)'
    BY <2>1, <2>2, <2>3, PingSnapshotStays DEF SnapshotInv
  <2>7. PingSnapshot(p)'
    <3>1. CASE p = "modem"
      BY <2>1, <2>2, <2>3, <2>4, <3>1, FdsAre, Names, Order DEF PingSnapshot, BeforeReply
    <3>2. CASE p = "inet"
      BY <2>1, <2>2, <2>3, <2>4, <3>2, FdsAre, Names, Order DEF PingSnapshot, BeforeReply
    <3> QED BY <3>1, <3>2 DEF Pings
  <2> QED BY <2>5, <2>6, <2>7 DEF SnapshotInv
<1>9. CASE ScrubberExits \/ ScrubberDies
  BY <1>3, <1>9 DEF ScrubberExits, ScrubberDies
<1>10. ASSUME NEW t \in Timers, Expire(t) PROVE SnapshotInv'
  <2>1. /\ UNCHANGED <<pc, readfds, process, sent_and_listening, timerecv>>
        /\ \A u \in Timers : timer'[u] # timer[u] => timer'[u] = "expired"
    BY <1>0, <1>10 DEF Expire
  <2> QED BY <2>1 DEF SnapshotInv, ScrubberSnapshot, PingSnapshot, BeforeReply, Timers, Pings
<1>11. CASE (\E s \in Packets : Arrive(s)) \/ SendTerm
  BY <1>3, <1>11 DEF Arrive, SendTerm
<1>12. CASE WorkerTimeout
  BY <1>1, <1>12, FdsAre DEF WorkerTimeout
<1>13. CASE UNCHANGED vars
  BY <1>3, <1>13 DEF vars
<1> QED BY <1>2, <1>4, <1>5, <1>6, <1>7, <1>8, <1>9, <1>10, <1>11, <1>12, <1>13
        DEF Next, Worker

-----------------------------------------------------------------------------
LEMMA InvStep == IInv /\ [Next]_vars => IInv'
BY TypesStep, ScrubberStep, RecordStep, SnapshotStep DEF IInv

LEMMA InvHolds == Spec => []IInv
<1>1. Init => IInv
  BY TypesInit, InvInit DEF IInv
<1> QED BY <1>1, InvStep, PTL DEF Spec

\* A handler that sleeps in read() sleeps on a timer that was disarmed in the
\* same round, because its event had come: the scrubber was collected, or the
\* reply was timed (datalogger.c:586-641).
THEOREM AsleepSafe == Spec => []AsleepOnlyAfterEvent
<1>1. IInv => AsleepOnlyAfterEvent
  <2> SUFFICES ASSUME IInv, NEW t \in Timers,
                      At(timeoutfd[t]), timer[t] # "expired"
               PROVE  /\ timer[t] = "off"
                      /\ IF t = "scrubber" THEN process = "collected"
                         ELSE ~sent_and_listening[t] /\ timerecv[t] # "zero"
    BY DEF AsleepOnlyAfterEvent
  <2>1. CASE t = "scrubber"
    BY <2>1 DEF IInv, SnapshotInv, ScrubberSnapshot, At
  <2>2. CASE t \in Pings
    <3>1. t # "scrubber"
      BY <2>2 DEF Pings
    <3> QED BY <2>2, <3>1 DEF IInv, SnapshotInv, PingSnapshot, At
  <2> QED BY <2>1, <2>2 DEF Timers
<1> QED BY <1>1, InvHolds, PTL

\* What the row says of the scrubber is true: its channel values are those of a
\* scrubber that was not killed, and the exit code owns up to every row without.
THEOREM RowSafe == Spec => []RowAccounted
<1>1. IInv => RowAccounted
  BY DEF IInv, RecordInv, Accounted, RowAccounted
<1> QED BY <1>1, InvHolds, PTL

\* The scrubber's timeout sends SIGKILL to a child that was not collected, and
\* never to pid 0, the whole process group (datalogger.c:586-596).
THEOREM KillSafe == Spec => KillIsSafe
<1>1. IInv /\ [Next]_vars =>
        (killed_for_timeout' # killed_for_timeout =>
           pid /\ process \in {"running", "zombie"})
  <2> SUFFICES ASSUME IInv, [Next]_vars, killed_for_timeout' # killed_for_timeout
               PROVE  pid /\ process \in {"running", "zombie"}
    OBVIOUS
  <2>1. ScrubberTimeout
    BY DEF Next, Worker, vars, Prepare, PrepareFails, Fork, ForkFails, Send, SendFails,
       Pselect, NotReady, Terminate, Collect, Reply, ReplyFails, PingTimeout, While,
       Preprocess, Insert, InsertFails, ScrubberExits, ScrubberDies, Expire, Arrive,
       SendTerm, WorkerTimeout
  <2>2. pid /\ process \in Alive
    BY <2>1, Names DEF ScrubberTimeout, Acknowledge, At, IInv, ScrubberInv, Ended, Alive
  <2>3. ~killed_for_timeout
    BY <2>1 DEF ScrubberTimeout, IInv, TypeOK
  <2>4. process # "dying"
    BY <2>1, <2>3, Names DEF ScrubberTimeout, At, IInv, ScrubberInv, Ended
  <2> QED BY <2>2, <2>4 DEF Alive
<1> QED BY <1>1, InvHolds, PTL DEF Spec, KillIsSafe
=============================================================================
