------------------------------ MODULE Datalogger ------------------------------
(***************************************************************************)
(* A worker process, from fork() in daemon.c:1146 to its end: datalogger() *)
(* of datalogger.c with process_child(), process_terminate(), the echo     *)
(* requests of icmpecho.c and the outcomes of database_insert().           *)
(*                                                                         *)
(* A round of the loop asks pselect() once which descriptors are ready and *)
(* then tests them one after the other, while scrubber, network and timers *)
(* go on; pc names the descriptor to be tested next.                       *)
(*                                                                         *)
(* The sockets are raw ICMP sockets: each of them receives every ICMP      *)
(* packet the host receives, so that both hold the same first packet.      *)
(***************************************************************************)
Pings == {"modem", "inet"}
Packets == Pings \cup {"other"}   \* by their sender
Timers == Pings \cup {"scrubber"}
timeoutfd == [modem |-> "modem.timeoutfd", inet |-> "inet.timeoutfd",
              scrubber |-> "scrubber.timeoutfd"]
recvfd == [modem |-> "modem.recvfd", inet |-> "inet.recvfd"]

Fds == {"signalfd"} \cup {timeoutfd[t] : t \in Timers} \cup {recvfd[p] : p \in Pings}
\* The order of the FD_ISSET() tests.
After == [fd \in Fds |->
  CASE fd = "signalfd" -> "scrubber.timeoutfd"
    [] fd = "scrubber.timeoutfd" -> "modem.recvfd"
    [] fd = "modem.recvfd" -> "modem.timeoutfd"
    [] fd = "modem.timeoutfd" -> "inet.recvfd"
    [] fd = "inet.recvfd" -> "inet.timeoutfd"
    [] fd = "inet.timeoutfd" -> "while"]

\* How a scrubber ends, and what it has written: a key with 20 values, with
\* another number of values, or no key.
Outcomes == [ended: {"zero", "nonzero", "signal"},
             stdout: {"values", "short", "none"}]

VARIABLES
  pc,
  readfds,   \* the snapshot of pselect()
  pending,   \* signals not yet read from signalfd
  process,   \* the scrubber: "none", "running", "dying", "zombie", "collected"
  outcome,   \* how it ended (once it has)
  pid,       \* scrubber.pid is not 0
  killed_for_timeout,
  stdoutbuffer,
  timer,     \* "off", "armed" or "expired"
  packet,    \* the sender of the first packet since the sockets were opened
  sent_and_listening,
  timerecv,  \* the sender of the packet whose arrival was timed, or "zero"
  returnvalue,
  line,      \* the channels' values in dbrec
  row        \* what was inserted

scrubber == <<process, outcome, pid, killed_for_timeout, stdoutbuffer>>
ping == <<sent_and_listening, timerecv>>
record == <<returnvalue, line, row>>
vars == <<pc, readfds, pending, scrubber, timer, packet, ping, record>>

NoRow == [modem |-> "zero", inet |-> "zero", line |-> "none"]
Ended == {"returned", "_exit", "exit", "aborted", "killed"}

-----------------------------------------------------------------------------
\* fork() in the daemon's handler
Init ==
  /\ pc = "prepare"
  /\ readfds = {} /\ pending = {}
  /\ process = "none" /\ pid = FALSE /\ killed_for_timeout = FALSE
  /\ outcome = [ended |-> "zero", stdout |-> "none"]
  /\ stdoutbuffer = "none"
  /\ timer = [t \in Timers |-> "off"]
  /\ packet = "none"
  /\ sent_and_listening = [p \in Pings |-> FALSE]
  /\ timerecv = [p \in Pings |-> "zero"]
  /\ returnvalue = {} /\ line = "none" /\ row = NoRow

\* icmp_prepare() for both hosts, and the scrubber's timer
Prepare ==
  /\ pc = "prepare"
  /\ timer' = [timer EXCEPT !["scrubber"] = "armed"]
  /\ pc' = "fork"
  /\ UNCHANGED <<readfds, pending, scrubber, packet, ping, record>>
\* A name that cannot be resolved, or a socket that cannot be had
PrepareFails ==
  /\ pc = "prepare"
  /\ pc' = "exit"
  /\ UNCHANGED <<readfds, pending, scrubber, timer, packet, ping, record>>

Fork ==
  /\ pc = "fork"
  /\ process' = "running" /\ pid' = TRUE
  /\ pc' = "send_inet"
  /\ UNCHANGED <<readfds, pending, outcome, killed_for_timeout, stdoutbuffer,
                 timer, packet, ping, record>>
ForkFails ==
  /\ pc = "fork"
  /\ pc' = "_exit"
  /\ UNCHANGED <<readfds, pending, scrubber, timer, packet, ping, record>>

\* icmp_send() and timerfd_start_rel()
Send(p) ==
  /\ pc = (IF p = "inet" THEN "send_inet" ELSE "send_modem")
  /\ sent_and_listening' = [sent_and_listening EXCEPT ![p] = TRUE]
  /\ timer' = [timer EXCEPT ![p] = "armed"]
  /\ pc' = IF p = "inet" THEN "send_modem" ELSE "pselect"
  /\ UNCHANGED <<readfds, pending, scrubber, packet, timerecv, record>>
SendFails(p) ==
  /\ pc = (IF p = "inet" THEN "send_inet" ELSE "send_modem")
  /\ sent_and_listening' = [sent_and_listening EXCEPT ![p] = TRUE]
  /\ pc' = "exit"
  /\ UNCHANGED <<readfds, pending, scrubber, timer, packet, timerecv, record>>

-----------------------------------------------------------------------------
Listening == {p \in Pings : sent_and_listening[p]}
Ready ==
  {fd \in {"signalfd"} : pending # {}} \cup
  {timeoutfd[t] : t \in {u \in Listening \cup {"scrubber"} : timer[u] = "expired"}} \cup
  {recvfd[p] : p \in {q \in Listening : packet # "none"}}

\* pselect() without a timeout
Pselect ==
  /\ pc = "pselect"
  /\ Ready # {}
  /\ readfds' = Ready
  /\ pc' = "signalfd"
  /\ UNCHANGED <<pending, scrubber, timer, packet, ping, record>>

\* FD_ISSET() is false.
NotReady ==
  /\ pc \in Fds \ readfds
  /\ pc' = After[pc]
  /\ UNCHANGED <<readfds, pending, scrubber, timer, packet, ping, record>>

At(fd) == pc = fd /\ fd \in readfds

\* Faulty variants: a read() that does not block; one timer for all.
AcknowledgeAtOnce(t) == timer' = [timer EXCEPT ![t] = "off"]
AcknowledgeAll(t) == timer[t] = "expired" /\ timer' = [u \in Timers |-> "off"]
\* timerfd_acknowledge(): a blocking read() of the expirations
Acknowledge(t) == timer[t] = "expired" /\ timer' = [timer EXCEPT ![t] = "off"]

\* SIGTERM, the lower number, is read first: process_terminate() and _exit().
Terminate ==
  /\ At("signalfd")
  /\ "SIGTERM" \in pending
  /\ pending' = pending \ {"SIGTERM"}
  /\ process' = IF pid /\ process = "running" THEN "dying" ELSE process
  /\ pc' = "_exit"
  /\ UNCHANGED <<readfds, outcome, pid, killed_for_timeout, stdoutbuffer, timer,
                 packet, ping, record>>

\* Faulty variant: how it ended instead of a flag.
ScrubberFlagsRaw ==
  IF outcome.ended = "signal" /\ killed_for_timeout THEN {"SCRUBBER_TIMEOUT"}
  ELSE {outcome.ended}
ScrubberFlags ==
  CASE outcome.ended = "zero" -> {}
    [] outcome.ended = "signal" /\ killed_for_timeout -> {"SCRUBBER_TIMEOUT"}
    [] OTHER -> {"SCRUBBER_FAILURE"}

\* SIGCHLD: waitpid() and process_child()
Collect ==
  /\ At("signalfd")
  /\ pending = {"SIGCHLD"}
  /\ pending' = {}
  /\ process' = "collected"
  /\ pid' = FALSE
  /\ timer' = [timer EXCEPT !["scrubber"] = "off"]
  /\ stdoutbuffer' = IF outcome.ended = "signal" THEN stdoutbuffer
                     ELSE outcome.stdout
  /\ returnvalue' = returnvalue \cup ScrubberFlags
  /\ pc' = After[pc]
  /\ UNCHANGED <<readfds, outcome, killed_for_timeout, packet, ping, line, row>>

\* kill(0, SIGKILL) would kill the worker, the daemon and the whole group.
ScrubberTimeout ==
  /\ At(timeoutfd["scrubber"])
  /\ Acknowledge("scrubber")
  /\ process' = IF pid /\ process = "running" THEN "dying" ELSE process
  /\ killed_for_timeout' = TRUE
  /\ pc' = IF pid THEN After[pc] ELSE "killed"
  /\ UNCHANGED <<readfds, pending, outcome, pid, stdoutbuffer, packet, ping, record>>

\* timerfd_disarm() and icmp_receive()
Reply(p) ==
  /\ At(recvfd[p])
  /\ timer' = [timer EXCEPT ![p] = "off"]
  /\ sent_and_listening' = [sent_and_listening EXCEPT ![p] = FALSE]
  /\ timerecv' = [timerecv EXCEPT ![p] = packet]
  /\ pc' = After[pc]
  /\ UNCHANGED <<readfds, pending, scrubber, packet, record>>
ReplyFails(p) ==
  /\ At(recvfd[p])
  /\ timer' = [timer EXCEPT ![p] = "off"]
  /\ sent_and_listening' = [sent_and_listening EXCEPT ![p] = FALSE]
  /\ timerecv' = [timerecv EXCEPT ![p] = packet]
  /\ pc' = "exit"
  /\ UNCHANGED <<readfds, pending, scrubber, packet, record>>

\* Faulty variant: the request stays open.
PingTimeoutKeeps(p) ==
  /\ At(timeoutfd[p])
  /\ Acknowledge(p)
  /\ pc' = After[pc]
  /\ UNCHANGED <<readfds, pending, scrubber, packet, ping, record>>
\* timerfd_acknowledge() and icmp_cancel()
PingTimeout(p) ==
  /\ At(timeoutfd[p])
  /\ Acknowledge(p)
  /\ sent_and_listening' = [sent_and_listening EXCEPT ![p] = FALSE]
  /\ pc' = After[pc]
  /\ UNCHANGED <<readfds, pending, scrubber, packet, timerecv, record>>

While ==
  /\ pc = "while"
  /\ pc' = IF pid \/ Listening # {} THEN "pselect" ELSE "preprocess"
  /\ UNCHANGED <<readfds, pending, scrubber, timer, packet, ping, record>>

-----------------------------------------------------------------------------
\* Faulty variant: also the line of a scrubber that was killed is read.
PreprocessAlways ==
  /\ pc = "preprocess"
  /\ line' = IF stdoutbuffer = "values" THEN "values" ELSE "none"
  /\ returnvalue' = IF stdoutbuffer # "values"
                    THEN returnvalue \cup {"SCRUBBER_DATAERROR"} ELSE returnvalue
  /\ pc' \in IF stdoutbuffer = "short"
             THEN {"insert", "aborted"} ELSE {"insert"}
  /\ UNCHANGED <<readfds, pending, scrubber, timer, packet, ping, row>>
(***************************************************************************)
(* The line of a scrubber that was not killed.  A key without 20 values is *)
(* freed twice (677, 708), which the C library may notice and abort;       *)
(* without a key there is nothing to free.                                 *)
(***************************************************************************)
Preprocess ==
  /\ pc = "preprocess"
  /\ line' = IF ~killed_for_timeout /\ stdoutbuffer = "values" THEN "values"
             ELSE "none"
  /\ returnvalue' = IF ~killed_for_timeout /\ stdoutbuffer # "values"
                    THEN returnvalue \cup {"SCRUBBER_DATAERROR"} ELSE returnvalue
  /\ pc' \in IF ~killed_for_timeout /\ stdoutbuffer = "short"
             THEN {"insert", "aborted"} ELSE {"insert"}
  /\ UNCHANGED <<readfds, pending, scrubber, timer, packet, ping, row>>

Insert ==
  /\ pc = "insert"
  /\ row' = [modem |-> timerecv["modem"], inet |-> timerecv["inet"], line |-> line]
  /\ pc' = "returned"
  /\ UNCHANGED <<readfds, pending, scrubber, timer, packet, ping, returnvalue, line>>
InsertFails ==
  /\ pc = "insert"
  /\ returnvalue' = returnvalue \cup {"SQLITE3_ERROR"}
  /\ pc' = "returned"
  /\ UNCHANGED <<readfds, pending, scrubber, timer, packet, ping, line, row>>

-----------------------------------------------------------------------------
(***************************************************************************)
(* Around the worker: the scrubber ends or dies, timers expire, packets    *)
(* arrive, somebody sends SIGTERM, the daemon's timeout kills the worker.  *)
(***************************************************************************)
ScrubberExits ==
  /\ process = "running"
  /\ process' = "zombie"
  /\ outcome' \in Outcomes
  /\ pending' = pending \cup {"SIGCHLD"}
  /\ UNCHANGED <<pc, readfds, pid, killed_for_timeout, stdoutbuffer, timer, packet,
                 ping, record>>
ScrubberDies ==
  /\ process = "dying"
  /\ process' = "zombie"
  /\ outcome' \in {o \in Outcomes : o.ended = "signal"}
  /\ pending' = pending \cup {"SIGCHLD"}
  /\ UNCHANGED <<pc, readfds, pid, killed_for_timeout, stdoutbuffer, timer, packet,
                 ping, record>>

Expire(t) ==
  /\ pc \notin Ended
  /\ timer[t] = "armed"
  /\ timer' = [timer EXCEPT ![t] = "expired"]
  /\ UNCHANGED <<pc, readfds, pending, scrubber, packet, ping, record>>

\* A host replies once the request was sent.
Answered(s) ==
  \/ s = "other"
  \/ /\ pc \notin {"fork", "send_inet"}
     /\ s = "modem" => pc # "send_modem"
Arrive(s) ==
  /\ pc \notin Ended \cup {"prepare"}
  /\ packet = "none"
  /\ Answered(s)
  /\ packet' = s
  /\ UNCHANGED <<pc, readfds, pending, scrubber, timer, ping, record>>

SendTerm ==
  /\ pc \notin Ended
  /\ pending' = pending \cup {"SIGTERM"}
  /\ UNCHANGED <<pc, readfds, scrubber, timer, packet, ping, record>>
WorkerTimeout ==
  /\ pc \notin Ended
  /\ pc' = "killed"
  /\ UNCHANGED <<readfds, pending, scrubber, timer, packet, ping, record>>

Worker ==
  \/ Prepare \/ PrepareFails \/ Fork \/ ForkFails
  \/ Pselect \/ NotReady \/ Terminate \/ Collect \/ ScrubberTimeout
  \/ \E p \in Pings : \/ Send(p) \/ SendFails(p) \/ Reply(p) \/ ReplyFails(p)
                      \/ PingTimeout(p)
  \/ While \/ Preprocess \/ Insert \/ InsertFails

Next ==
  \/ Worker
  \/ ScrubberExits \/ ScrubberDies
  \/ \E t \in Timers : Expire(t)
  \/ \E s \in Packets : Arrive(s)
  \/ SendTerm \/ WorkerTimeout

Spec == Init /\ [][Next]_vars
\* The scheduler runs the worker, timers expire, SIGKILL kills.
FairSpec == /\ Spec /\ WF_vars(Worker) /\ WF_vars(ScrubberDies)
            /\ \A t \in Timers : WF_vars(Expire(t))

-----------------------------------------------------------------------------
\* Every variable keeps its range.
TypeOK ==
  /\ pc \in Fds \cup Ended \cup {"prepare", "fork", "send_inet", "send_modem",
                                  "pselect", "while", "preprocess", "insert"}
  /\ readfds \subseteq Fds
  /\ pending \subseteq {"SIGTERM", "SIGCHLD"}
  /\ process \in {"none", "running", "dying", "zombie", "collected"}
  /\ outcome \in Outcomes
  /\ pid \in BOOLEAN /\ killed_for_timeout \in BOOLEAN
  /\ stdoutbuffer \in {"values", "short", "none"}
  /\ timer \in [Timers -> {"off", "armed", "expired"}]
  /\ packet \in Packets \cup {"none"}
  /\ sent_and_listening \in [Pings -> BOOLEAN]
  /\ timerecv \in [Pings -> Packets \cup {"zero", "none"}]
  /\ returnvalue \subseteq {"SCRUBBER_TIMEOUT", "SCRUBBER_FAILURE",
                            "SCRUBBER_DATAERROR", "SQLITE3_ERROR"}
  /\ line \in {"values", "none"}
  /\ row \in [modem: Packets \cup {"zero", "none"}, inet: Packets \cup {"zero", "none"},
              line: {"values", "none"}]

\* The scrubber's timeout never kills by a pid that is 0, which would be the
\* whole process group: its handler waits for ever if the scrubber was collected
\* in the same round (datalogger.c:588-590).
KillIsSafe ==
  [][killed_for_timeout' # killed_for_timeout =>
       pid /\ process \in {"running", "zombie"}]_vars

\* A descriptor whose handler sleeps in read(), since its timer was disarmed
\* earlier in the round: by the collected scrubber or by a reply.
Asleep == \E t \in Timers : At(timeoutfd[t]) /\ timer[t] = "off"
\* The worker only falls asleep for ever over an event that had already come.
AsleepOnlyAfterEvent ==
  \A t \in Timers :
    At(timeoutfd[t]) /\ timer[t] # "expired" =>
      /\ timer[t] = "off"
      /\ IF t = "scrubber" THEN process = "collected"
         ELSE ~sent_and_listening[t] /\ timerecv[t] # "zero"

\* Channel values are stored when, and only when, the scrubber wrote them and was
\* not killed; without them the exit code has a flag, unless the scrubber ended
\* between its timeout and the SIGKILL.  The timeout flag excludes the others.
RowAccounted ==
  pc = "returned" =>
    /\ line = "values" <=> /\ outcome.stdout = "values" /\ ~killed_for_timeout
                           /\ outcome.ended # "signal"
    /\ line = "none" /\ returnvalue \subseteq {"SQLITE3_ERROR"} =>
         killed_for_timeout /\ outcome.ended = "zero"
    /\ "SCRUBBER_TIMEOUT" \in returnvalue =>
         returnvalue \subseteq {"SCRUBBER_TIMEOUT", "SQLITE3_ERROR"}

\* Without any help from the daemon a worker ends, or falls asleep on a timer.
WorkerEnds == <>(pc \in Ended \/ Asleep)

=============================================================================
