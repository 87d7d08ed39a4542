---------------------------- MODULE DltDaemonClient ----------------------------
(* How the daemon forwards messages to its TCP clients (dlt_daemon_client.c,   *)
(* dlt-daemon.c): the logging state machine BUFFER / BUFFER_FULL / SEND_BUFFER *)
(* / SEND_DIRECT, the client ring buffer, the table of connections, the        *)
(* overflow counter and its report, and the offline trace.                     *)
(*                                                                             *)
(* The daemon is one thread that handles one event at a time, but its          *)
(* functions call each other recursively: a send that meets a broken client    *)
(* closes it, closing sends two messages to the clients that are left, and     *)
(* each of those may meet the next broken client.  "stack" is the call stack;  *)
(* an event starts when it is empty, and each step runs the function on top.   *)
(* Clients break at any time, also between two steps of one event.             *)
(*                                                                             *)
(* The ring is the bounded FIFO queue that DltBufferProofs shows dlt_buffer to *)
(* implement: a push succeeds within RingMin, fails above RingMax, and may do  *)
(* either in between.                                                          *)
EXTENDS Integers, FiniteSets, Sequences, SequencesExt

CONSTANTS RingMin, RingMax,   \* capacity of client_ringbuffer, in units
          MaxConns,           \* connections accepted in total
          Limits              \* shapes of the histories, see Limit

Modes == {"OFF", "EXTERNAL", "INTERNAL", "BOTH"}

\* The log mode of the persistent configuration, and bounds: log messages and
\* overflow messages of the applications, connections in total and at the same
\* time, log mode messages.
Limit == [mode : Modes, logs : Nat, overflows : Nat, conns : 0 .. MaxConns,
          clients : Nat, modes : Nat]

ASSUME ConstAssumption ==
  /\ RingMin \in Nat \ {0} /\ RingMax \in Nat /\ RingMin <= RingMax
  /\ MaxConns \in Nat
  /\ Limits \subseteq Limit

VARIABLES state,              \* daemon->state
          mode,               \* daemon->mode
          ring,               \* daemon->client_ringbuffer
          pfd,                \* client connections, in the order of pEvent.pfd;
                              \* its length is client_connections
          broken,             \* clients whose socket fails
          connectionState,    \* daemon->connectionState, told to applications
          overflow_counter,   \* daemon->overflow_counter
          overflow_cnt,       \* static sent_message_overflow_cnt
          stack,              \* call stack, innermost call last
          ret,                \* value of the last return
          delivered,          \* what the socket of each connection accepted
          offline,            \* log messages written to the offline trace
          limit,              \* the member of Limits this history obeys
          done                \* history: what has happened so far

daemonVars == <<state, mode, ring, pfd, connectionState, overflow_counter, overflow_cnt>>
vars == <<daemonVars, broken, stack, ret, delivered, offline, limit, done>>

--------------------------------------------------------------------------------
(* Messages and frames *)

Conn == 1 .. MaxConns

\* An application's log message; a notice of the daemon itself (an internal log
\* message, or the connection info, which is handled alike); a report of lost
\* messages (numbered, to tell them apart).
Log(n) == [kind |-> "log", n |-> n, lost |-> 0]
Info == [kind |-> "info", n |-> 0, lost |-> 0]
ConnectionInfo == Info
Overflow(k, n) == [kind |-> "overflow", n |-> n, lost |-> k]

MsgLen(m) == IF m.kind = "log" THEN 2 ELSE 1
\* The sum of MsgLen over s: one unit for each message and one more for each log message.
UsedBy(s) == Len(s) + Cardinality({i \in DOMAIN s : s[i].kind = "log"})
RingUsed == UsedBy(ring)

\* Mutant of MayAccept: the size of the new entry is not counted.
MayAcceptAnyLength(m) == RingUsed < RingMax

\* dlt_buffer_push3 may accept the message; it must.
MayAccept(m) == RingUsed + MsgLen(m) <= RingMax
MustAccept(m) == RingUsed + MsgLen(m) <= RingMin

\* Frames: the function and the point in it (pc), the message of a send and
\* whether it is forced (DLT_DAEMON_SEND_FORCE), the loop index or connection,
\* and whether some client took the message.
Frame(pc, m, force, idx) ==
  [pc |-> pc, msg |-> m, force |-> force, idx |-> idx, sent |-> FALSE]
Send(m, force) == Frame("send", m, force, 1)
Close(c) == Frame("close", Info, FALSE, c)
Drain == Frame("drain", Info, FALSE, 0)
Then(pc) == Frame(pc, Info, FALSE, 0)

Idle == stack = <<>>
Top == stack[Len(stack)]
At(pc) == ~Idle /\ Top.pc = pc
\* The running function goes on as the first of these frames, after a call of the others, the
\* last one first.
Run(frames) == stack' = Front(stack) \o frames
Return(r) == stack' = Front(stack) /\ ret' = r

Init ==
  /\ limit \in Limits
  /\ state = "BUFFER" /\ mode = limit.mode
  /\ ring = <<>> /\ pfd = <<>> /\ broken = {}
  /\ connectionState = 0 /\ overflow_counter = 0 /\ overflow_cnt = 0
  /\ stack = <<>> /\ ret = "OK"
  /\ delivered = [c \in Conn |-> <<>>]
  /\ offline = <<>>
  /\ done = [logs |-> 0, conns |-> 0, peak |-> 0, modes |-> 0, overflows |-> 0,
             reports |-> 0, discards |-> 0, discarded |-> {}]

--------------------------------------------------------------------------------
(* dlt_daemon_client_send *)

Routed == mode \in {"EXTERNAL", "BOTH"}
\* Mutant of Traced: messages sent from the ring are traced again.
TracedForced(f) == /\ mode \in {"INTERNAL", "BOTH"}
                   /\ state # "SEND_BUFFER"

\* Mutant of Traced: nothing is traced while the ring is full.
TracedUnlessFull(f) == /\ mode \in {"INTERNAL", "BOTH"}
                       /\ ~f.force /\ state \notin {"SEND_BUFFER", "BUFFER_FULL"}

Traced(f) == /\ mode \in {"INTERNAL", "BOTH"}
             /\ ~f.force /\ state # "SEND_BUFFER"

\* Entry: the offline trace, and whether the message goes to the clients.  The daemon has no log
\* storage devices (OfflineLogstorageMaxDevices is 0 by default), whose filters could keep a message
\* from the clients (ret_logstorage).
ClientSend ==
  /\ At("send")
  /\ offline' = IF Traced(Top) /\ Top.msg.kind = "log"
                THEN Append(offline, Top.msg.n) ELSE offline
  /\ Run(<<[Top EXCEPT !.pc = IF Routed /\ (Top.force \/ state = "SEND_DIRECT")
                              THEN "loop" ELSE "store"]>>)
  /\ UNCHANGED <<daemonVars, broken, ret, delivered, done>>

\* dlt_connection_send_multiple to a client that reads; notices are not recorded.
ConnectionSend(c, m) ==
  delivered' = IF m = Info THEN delivered ELSE [delivered EXCEPT ![c] = Append(@, m)]

\* One iteration of dlt_daemon_client_send_all_multiple.  The index advances
\* even when closing the client moved the next one to its place.
SendAllMultiple ==
  /\ At("loop") /\ Top.idx <= Len(pfd)
  /\ LET c == pfd[Top.idx]
         next == [Top EXCEPT !.idx = @ + 1]
     IN IF c \in broken
        THEN Run(<<next, Close(c)>>) /\ UNCHANGED delivered
        ELSE /\ Run(<<[next EXCEPT !.sent = TRUE]>>)
             /\ ConnectionSend(c, Top.msg)
  /\ UNCHANGED <<daemonVars, broken, ret, offline, done>>

SendAllMultipleEnd ==
  /\ At("loop") /\ Top.idx > Len(pfd)
  /\ IF Top.force /\ ~Top.sent
     THEN Return("SEND_FAILED")
     ELSE Run(<<[Top EXCEPT !.pc = "store"]>>) /\ UNCHANGED ret
  /\ UNCHANGED <<daemonVars, broken, delivered, offline, done>>

Buffering(f) == ~f.force /\ state \in {"BUFFER", "SEND_BUFFER", "BUFFER_FULL"}

\* The message is kept in the ring ...
StoreInRing ==
  /\ At("store") /\ Buffering(Top)
  /\ state # "BUFFER_FULL" /\ MayAccept(Top.msg)
  /\ ring' = Append(ring, Top.msg)
  /\ Return("OK")
  /\ UNCHANGED <<state, mode, pfd, connectionState, overflow_counter, overflow_cnt,
                 broken, delivered, offline, done>>

\* ... or it does not fit, and is discarded and counted.
Discard ==
  /\ At("store") /\ Buffering(Top)
  /\ state = "BUFFER_FULL" \/ ~MustAccept(Top.msg)
  /\ state' = "BUFFER_FULL"
  /\ overflow_counter' = overflow_counter + 1
  /\ done' = [done EXCEPT !.discards = @ + 1,
                !.discarded = IF Top.msg.kind = "log" THEN @ \union {Top.msg.n} ELSE @]
  /\ Return("BUFFER_FULL")
  /\ UNCHANGED <<mode, ring, pfd, connectionState, overflow_cnt, broken, delivered, offline>>

\* Otherwise a pending overflow is reported, unless this send is itself the
\* report (sent_message_overflow_cnt guards the recursion).
ReportOverflow ==
  /\ At("store") /\ ~Buffering(Top)
  /\ IF overflow_counter > 0 /\ pfd # <<>> /\ overflow_cnt + 1 < 2
     THEN /\ overflow_cnt' = overflow_cnt + 1
          /\ Run(<<[Top EXCEPT !.pc = "reported"],
                   Send(Overflow(overflow_counter, done.reports + 1), FALSE)>>)
          /\ done' = [done EXCEPT !.reports = @ + 1]
          /\ UNCHANGED ret
     ELSE Return("OK") /\ UNCHANGED <<overflow_cnt, done>>
  /\ UNCHANGED <<state, mode, ring, pfd, connectionState, overflow_counter,
                 broken, delivered, offline>>

\* Mutant of OverflowReported: the result of the report is ignored.
OverflowReportedAlways ==
  /\ At("reported")
  /\ overflow_counter' = 0 /\ overflow_cnt' = overflow_cnt - 1
  /\ Return("OK")
  /\ UNCHANGED <<state, mode, ring, pfd, connectionState, broken, delivered, offline, done>>

OverflowReported ==
  /\ At("reported")
  /\ IF ret = "OK"
     THEN overflow_counter' = 0 /\ overflow_cnt' = overflow_cnt - 1
     ELSE UNCHANGED <<overflow_counter, overflow_cnt>>
  /\ Return("OK")
  /\ UNCHANGED <<state, mode, ring, pfd, connectionState, broken, delivered, offline, done>>

--------------------------------------------------------------------------------
(* dlt_daemon_close_socket, and the ring buffer sent to the clients *)

\* The event handler's table: a new connection comes last, and the entries behind
\* a removed one move up (dlt_event_handler_disable_fd).
RegisterConnection(c) == pfd' = Append(pfd, c)
DisableFd(s, c) ==
  LET at == CHOOSE i \in DOMAIN s : s[i] = c IN
  IF Contains(s, c) THEN [i \in 1 .. Len(s) - 1 |-> IF i < at THEN s[i] ELSE s[i + 1]] ELSE s
UnregisterConnection(c) == pfd' = DisableFd(pfd, c)

\* Mutant of LogStateOnClose: the daemon does not buffer again.
LogStateOnCloseKeepsSending(left) ==
  /\ connectionState' = IF left = <<>> THEN 0 ELSE connectionState
  /\ UNCHANGED state

\* Mutant of LogStateOnClose: the applications are told when any client leaves.
LogStateOnCloseTellsAlways(left) ==
  /\ connectionState' = 0
  /\ state' = IF left = <<>> THEN "BUFFER" ELSE state

\* Without clients the applications are told so and the daemon buffers again.
LogStateOnClose(left) ==
  IF left = <<>>
  THEN connectionState' = 0 /\ state' = "BUFFER"
  ELSE UNCHANGED <<connectionState, state>>

\* The connection leaves the table; last the connection info and the internal log
\* message are sent.
CloseSocket ==
  /\ At("close")
  /\ UnregisterConnection(Top.idx)
  /\ LogStateOnClose(pfd')
  /\ Run(<<Send(Info, FALSE), Send(ConnectionInfo, FALSE)>>)
  /\ UNCHANGED <<mode, ring, overflow_counter, overflow_cnt, broken, ret,
                 delivered, offline, done>>

\* Mutant of SendRingbuffer: the loop goes on with an entry it does not send.
SendRingbufferLogsOnly ==
  /\ At("drain")
  /\ IF ring = <<>>
     THEN state' = "SEND_DIRECT" /\ Return("OK")
     ELSE /\ Run(IF Head(ring).kind = "log" THEN <<Then("drained"), Send(Head(ring), TRUE)>> ELSE <<Drain>>)
          /\ UNCHANGED <<state, ret>>
  /\ UNCHANGED <<mode, ring, pfd, connectionState, overflow_counter, overflow_cnt,
                 broken, delivered, offline, done>>

\* dlt_daemon_send_ringbuffer_to_client: the oldest entry is sent ...
SendRingbuffer ==
  /\ At("drain")
  /\ IF ring = <<>>
     THEN state' = "SEND_DIRECT" /\ Return("OK")
     ELSE /\ Run(<<Then("drained"), Send(Head(ring), TRUE)>>)
          /\ UNCHANGED <<state, ret>>
  /\ UNCHANGED <<mode, ring, pfd, connectionState, overflow_counter, overflow_cnt,
                 broken, delivered, offline, done>>

\* Mutant of SendEntryFailed: the entry is removed before the result is tested.
SendEntryFailedRemoves == Return(ret) /\ ring' = Tail(ring) /\ UNCHANGED state

\* Mutant of SendEntryFailed: the loop tries again.
SendEntryFailedRetries == Run(<<Drain>>) /\ UNCHANGED <<ret, state, ring>>

\* Mutant of SendEntryDone: the entry is not removed.
SendEntryDoneKeeps ==
  /\ UNCHANGED <<ring, ret>> /\ state' = "SEND_BUFFER" /\ Run(<<Drain>>)

\* The outcome of one entry: it stays in the ring after a failure, which ends the
\* loop; an empty ring ends it, too.
SendEntryFailed == Return(ret) /\ UNCHANGED <<state, ring>>

SendEntryDone ==
  /\ ring' = Tail(ring)
  /\ state' = IF ring' = <<>> THEN "SEND_DIRECT" ELSE "SEND_BUFFER"
  /\ IF ring' = <<>> THEN Return("OK") ELSE Run(<<Drain>>) /\ UNCHANGED ret

\* ... and removed when some client took it.
SendRingbufferNext ==
  /\ At("drained")
  /\ IF ret # "OK"
     THEN SendEntryFailed
     ELSE SendEntryDone
  /\ UNCHANGED <<mode, pfd, connectionState, overflow_counter, overflow_cnt,
                 broken, delivered, offline, done>>

--------------------------------------------------------------------------------
(* Events *)

\* dlt_daemon_process_user_message_log, for a message the level and load
\* filters keep.
UserMessageLog ==
  /\ Idle /\ done.logs < limit.logs
  /\ stack' = <<Send(Log(done.logs + 1), FALSE)>>
  /\ done' = [done EXCEPT !.logs = @ + 1]
  /\ UNCHANGED <<daemonVars, broken, ret, delivered, offline>>

\* dlt_daemon_process_user_message_overflow: the application lost a message.
UserMessageOverflow ==
  /\ Idle /\ done.overflows < limit.overflows
  /\ stack' = <<Then("userOverflow"), Send(Overflow(1, done.reports + 1), FALSE)>>
  /\ done' = [done EXCEPT !.overflows = @ + 1, !.reports = @ + 1, !.discards = @ + 1]
  /\ UNCHANGED <<daemonVars, broken, ret, delivered, offline>>

UserMessageOverflowEnd ==
  /\ At("userOverflow")
  /\ overflow_counter' = IF ret = "OK" THEN overflow_counter ELSE overflow_counter + 1
  /\ Return("OK")
  /\ UNCHANGED <<state, mode, ring, pfd, connectionState, overflow_cnt, broken,
                 delivered, offline, done>>

\* dlt_daemon_process_user_message_log_mode.
UserMessageLogMode(md) ==
  /\ Idle /\ done.modes < limit.modes
  /\ mode' = md
  /\ done' = [done EXCEPT !.modes = @ + 1]
  /\ UNCHANGED <<state, ring, pfd, connectionState, overflow_counter, overflow_cnt,
                 broken, stack, ret, delivered, offline>>

\* dlt_daemon_process_client_connect: the connection is registered, the notice
\* sent, and the first client gets the ring buffer.
ClientConnect ==
  /\ Idle /\ done.conns < limit.conns /\ Len(pfd) < limit.clients
  /\ RegisterConnection(done.conns + 1)
  /\ stack' = <<Then("connected"), Send(Info, FALSE)>>
  /\ done' = [done EXCEPT !.conns = @ + 1, !.peak = IF Len(pfd') > @ THEN Len(pfd') ELSE @]
  /\ UNCHANGED <<state, mode, ring, connectionState, overflow_counter, overflow_cnt,
                 broken, ret, delivered, offline>>

\* Mutant of ClientConnected: the ring buffer is not sent to the first client.
ClientConnectedNoDrain ==
  /\ At("connected")
  /\ IF Len(pfd) = 1
     THEN state' = "SEND_DIRECT" /\ Run(<<Then("announce")>>) /\ UNCHANGED ret
     ELSE Return("OK") /\ UNCHANGED state
  /\ UNCHANGED <<mode, ring, pfd, connectionState, overflow_counter, overflow_cnt,
                 broken, delivered, offline, done>>

ClientConnected ==
  /\ At("connected")
  /\ IF Len(pfd) = 1
     THEN /\ state' = "SEND_BUFFER"
          /\ Run(<<Then("announce"), Drain>>)
          /\ UNCHANGED ret
     ELSE Return("OK") /\ UNCHANGED state
  /\ UNCHANGED <<mode, ring, pfd, connectionState, overflow_counter, overflow_cnt,
                 broken, delivered, offline, done>>

\* Only the result -1, which the sending of the ring never returns, stops this.
ClientAnnounce ==
  /\ At("announce")
  /\ connectionState' = 1
  /\ Return("OK")
  /\ UNCHANGED <<state, mode, ring, pfd, overflow_counter, overflow_cnt,
                 broken, delivered, offline, done>>

\* accept() or the registration fails: the callback's -1 ends the event loop, and
\* after a last internal log message the daemon exits.
ClientConnectFails ==
  /\ Idle /\ done.conns < limit.conns
  /\ stack' = <<Then("exit"), Send(Info, FALSE)>>
  /\ UNCHANGED <<daemonVars, broken, ret, delivered, offline, done>>

Exited == At("exit") /\ UNCHANGED vars

\* dlt_daemon_process_client_messages when recv() returns nothing: the client hung
\* up or the connection failed.
ClientMessages(c) ==
  /\ Idle /\ c \in broken /\ Contains(pfd, c)
  /\ stack' = <<Close(c)>>
  /\ UNCHANGED <<daemonVars, broken, ret, delivered, offline, done>>

\* dlt_daemon_process_one_s_timer.
OneSTimer ==
  /\ Idle
  /\ stack' = IF state \in {"SEND_BUFFER", "BUFFER_FULL"} THEN <<Drain>> ELSE <<>>
  /\ UNCHANGED <<daemonVars, broken, ret, delivered, offline, done>>

\* The environment: a client hangs up or stops reading.
ClientBreaks(c) ==
  /\ Contains(pfd, c) /\ c \notin broken
  /\ broken' = broken \union {c}
  /\ UNCHANGED <<daemonVars, stack, ret, delivered, offline, done>>

Step ==
  \/ ClientSend \/ SendAllMultiple \/ SendAllMultipleEnd
  \/ StoreInRing \/ Discard \/ ReportOverflow \/ OverflowReported
  \/ CloseSocket \/ SendRingbuffer \/ SendRingbufferNext
  \/ UserMessageOverflowEnd \/ ClientConnected \/ ClientAnnounce

Event ==
  \/ UserMessageLog \/ UserMessageOverflow
  \/ \E md \in Modes : UserMessageLogMode(md)
  \/ ClientConnect \/ ClientConnectFails
  \/ \E c \in Conn : ClientMessages(c)
  \/ OneSTimer

Next ==
  /\ Step \/ Event \/ Exited \/ \E c \in Conn : ClientBreaks(c)
  /\ UNCHANGED limit

Spec == Init /\ [][Next]_vars

\* A function that was called goes on, and the timer, whose descriptor is in
\* the poll set of every round of the event loop, is served again and again.
FairSpec == Spec /\ WF_vars(Step /\ UNCHANGED limit) /\ SF_vars(OneSTimer /\ UNCHANGED limit)

--------------------------------------------------------------------------------
(* Properties *)

Range1(s) == {s[i] : i \in DOMAIN s}
Message == [kind : {"log", "info", "overflow"}, n : Nat, lost : Nat]
FrameType == [pc : {"send", "loop", "store", "reported", "close", "drain", "drained", "connected",
                    "announce", "userOverflow", "exit"},
              msg : Message, force : BOOLEAN, idx : Nat, sent : BOOLEAN]

\* Types of the variables; the ring keeps within its capacity, and the recursion guard
\* of the overflow report is never taken twice.
TypeOK ==
  /\ state \in {"BUFFER", "BUFFER_FULL", "SEND_BUFFER", "SEND_DIRECT"}
  /\ mode \in Modes
  /\ ring \in Seq(Message) /\ RingUsed <= RingMax
  /\ pfd \in Seq(Conn) /\ Len(pfd) <= limit.clients
  /\ broken \subseteq Conn
  /\ connectionState \in {0, 1}
  /\ overflow_counter \in Nat /\ overflow_cnt \in {0, 1}
  /\ ret \in {"OK", "BUFFER_FULL", "SEND_FAILED"}
  /\ stack \in Seq(FrameType)
  /\ delivered \in [Conn -> Seq(Message)]

\* The daemon sends past the ring buffer only when the ring is empty: otherwise
\* the buffered messages would stay behind until the next connection and be
\* overtaken by every new one.
DirectMeansDrained == Idle /\ state = "SEND_DIRECT" => ring = <<>>

\* External logging from the start on.
External == done.modes = 0 /\ Routed

\* With external logging: without a client the daemon buffers, with one it sends,
\* whatever clients broke while it was registering, draining or closing.
StateMatchesClients ==
  Idle /\ External =>
    /\ state = "BUFFER" => pfd = <<>>
    /\ pfd = <<>> => state \in {"BUFFER", "BUFFER_FULL"}

\* No client sees a log message twice or after a later one, although messages
\* travel directly and through the ring, and are retried by the timer; nor does
\* the offline trace.
InOrder ==
  /\ \A i, j \in DOMAIN offline : i < j => offline[i] < offline[j]
  /\ \A c \in Conn : \A i, j \in DOMAIN delivered[c] :
       i < j /\ delivered[c][i].kind = "log" /\ delivered[c][j].kind = "log"
         => delivered[c][i].n < delivered[c][j].n

\* A log message the daemon took is on some client's socket, or in the ring, or
\* counted as lost.
NoSilentLoss ==
  Idle => \A n \in 1 .. done.logs :
            \/ n \in done.discarded
            \/ Log(n) \in Range1(ring)
            \/ \E c \in Conn : Log(n) \in Range1(delivered[c])

\* There is no silent loss as long as external logging is on and never two
\* clients are connected at the same time.
SingleClientLossless == External /\ done.peak <= 1 => NoSilentLoss

Reports == {m \in Range1(ring) \union UNION {Range1(delivered[c]) : c \in Conn} :
              m.kind = "overflow"}

\* A member for each loss that these reports tell of: the report and a number.
LossesIn(reports) == UNION {{m} \X (1 .. m.lost) : m \in reports}

\* Under the same condition, every lost message is either still counted in
\* overflow_counter or in exactly one report that is on a socket or in the ring.
LossCounted ==
  Idle /\ External /\ done.peak <= 1 =>
    done.discards = Cardinality(LossesIn(Reports)) + overflow_counter

\* The applications know of the clients: as long as one is connected, they have
\* been told so.
ClientsAnnounced == Idle /\ pfd # <<>> => connectionState = 1

\* After every event the logging state, the ring, the table of connections and what
\* the applications were told agree (dlt_daemon_change_state,
\* dlt_daemon_close_socket, dlt_daemon_process_client_connect).
StateSound == TypeOK /\ DirectMeansDrained /\ StateMatchesClients /\ ClientsAnnounced

\* With internal logging from the start, the offline trace gets every log message.
\* dlt_daemon_client_send skips the trace in the whole state SEND_BUFFER, also for
\* a new message; this is safe only because no event ends in that state.
OfflineComplete ==
  Idle /\ done.modes = 0 /\ mode \in {"INTERNAL", "BOTH"} =>
    \A n \in 1 .. done.logs : n \in Range1(offline)

\* With one client at a time and external logging every log message is sent, buffered or
\* discarded and counted; with internal logging it is traced (dlt_daemon_client_send).
NothingLost == SingleClientLossless /\ OfflineComplete

\* Buffered messages reach a client that stays, unless the daemon exits.
Drained == (pfd # <<>> /\ ring # <<>>) ~> (pfd = <<>> \/ ring = <<>> \/ At("exit"))

\* No event runs forever: whatever clients break, the nested sends and closes
\* come to an end.
EventEnds == ~Idle ~> (Idle \/ At("exit"))
================================================================================
