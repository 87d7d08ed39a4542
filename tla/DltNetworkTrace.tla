---------------------------- MODULE DltNetworkTrace ----------------------------
(* Network traces of the application library (dlt_user.c).  A trace that does   *)
(* not fit one message is announced by the caller, queued, and sent in segments *)
(* by a thread of its own; a trace may also be truncated.  Sizes are those of a *)
(* verbose message: every value has four bytes of type information.             *)
EXTENDS Integers, Sequences

CONSTANTS Callers,            \* threads that trace
          LogBufLen,          \* dlt_user.log_buf_len, in 16 bits
          SegmentSize,        \* DLT_MAX_TRACE_SEGMENT_SIZE
          QueueSize,          \* mq_maxmsg
          AddressSpace,       \* 2^32: the end of a payload is kept in 32 bits
          Headers, Payloads,  \* lengths
          Addresses,          \* where a copy of a payload starts, in 32 bits
          NetLimits           \* shapes of the histories, see NetLimit

\* Lengths of payloads, stream handles, traces, log messages that are refused, changes of the trace status, times the buffer
\* fills up, and failures to open the queue.
NetLimit == [payloads : SUBSET Payloads, handles : SUBSET Nat, traces : Nat, refusals : Nat, switches : Nat, fills : Nat, opens : Nat]

ASSUME NetAssumption ==
  /\ LogBufLen \in Nat /\ LogBufLen < 65536 /\ SegmentSize \in Nat \ {0} /\ QueueSize \in Nat \ {0} /\ AddressSpace \in Nat
  /\ Headers \subseteq Nat /\ Payloads \subseteq Nat /\ Addresses \subseteq 0 .. AddressSpace - 1
  /\ NetLimits \subseteq NetLimit

NoTrace == 0

VARIABLES callers,            \* pc and trace of each caller
          queue,              \* the message queue
          open,               \* it has been opened (dlt_init_message_queue)
          worker,             \* dlt_user_trace_network_segmented_thread
          status,             \* trace status of the context is DLT_TRACE_STATUS_ON
          room,               \* check_buffer: at least half of the buffer is free
          stream,             \* the messages that were sent or buffered, in their order
          traces,             \* history: the traces and what became of them
          netlimit, netused

netvars == <<callers, queue, open, worker, status, room, stream, traces, netlimit, netused>>

NetInit ==
  /\ netlimit \in NetLimits
  /\ callers = [c \in Callers |-> [pc |-> "idle", trace |-> NoTrace]]
  /\ queue = <<>> /\ open = FALSE
  /\ worker = [pc |-> "idle", trace |-> NoTrace, offset |-> 0, sequence |-> 0]
  /\ status = TRUE /\ room = TRUE
  /\ stream = <<>> /\ traces = <<>>
  /\ netused = [refusals |-> 0, switches |-> 0, fills |-> 0, opens |-> 0]

--------------------------------------------------------------------------------
(* Sizes: dlt_user_log_write_string, .._uint32, .._uint16, .._raw.             *)

StringSize == 4 + 2 + 5       \* "NWST", "NWCH", "NWEN" and "NWTR"
Uint32Size == 4 + 4
Uint16Size == 4 + 2
RawSize(n) == 4 + 2 + n

StartSize(header) == StringSize + Uint32Size + RawSize(header) + Uint32Size + 2 * Uint16Size

\* Mutant of SegmentCount: one segment more when the payload fills the last one.
SegmentCountUneven(payload) == payload \div SegmentSize + 1

SegmentCount(payload) ==
  IF payload % SegmentSize = 0 THEN payload \div SegmentSize ELSE payload \div SegmentSize + 1

\* The room that is left for the payload, as an uint16_t.
TruncatedLength(header) ==
  (LogBufLen - (StringSize + RawSize(header) + Uint32Size) - 2 - 4) % 65536

\* The number of payload bytes dlt_user_trace_network_truncated sends, or -1.
dlt_user_trace_network_truncated(header, payload) ==
  LET cut == TruncatedLength(header) IN
  CASE header + payload + 2 > LogBufLen ->
         IF StringSize + RawSize(header) + Uint32Size + RawSize(cut) <= LogBufLen THEN cut ELSE -1
    [] OTHER -> IF RawSize(header) + RawSize(payload) <= LogBufLen THEN payload ELSE -1

--------------------------------------------------------------------------------
(* dlt_user_log_send_log: a message is sent or buffered, or refused.           *)

Spoil(t, ts) == IF t = NoTrace THEN ts ELSE [ts EXCEPT ![t].spoiled = TRUE]

\* With the status off nothing is sent, which is not an error.
Send(t, msg, ts, ok) ==
  \/ /\ ~status /\ ok
     /\ traces' = Spoil(t, ts)
     /\ UNCHANGED <<stream, netused>>
  \/ /\ status /\ ok
     /\ stream' = Append(stream, msg)
     /\ traces' = ts
     /\ UNCHANGED netused
  \/ /\ status /\ ~ok /\ netused.refusals < netlimit.refusals
     /\ netused' = [netused EXCEPT !.refusals = @ + 1]
     /\ traces' = Spoil(t, ts)
     /\ UNCHANGED stream

--------------------------------------------------------------------------------
(* The callers.                                                                *)

NewTrace(header, payload, address, handle) ==
  [header |-> header, payload |-> payload, address |-> address, handle |-> handle, spoiled |-> FALSE,
   result |-> "none", ended |-> FALSE]

\* dlt_user_trace_network_segmented: what fits is sent at once.
SendAtOnce(c) ==
  /\ callers[c].pc = "idle" /\ Len(traces) < netlimit.traces
  /\ \E h \in Headers, p \in netlimit.payloads, ok \in BOOLEAN :
       /\ h + p + 2 < LogBufLen
       /\ LET t == Len(traces) + 1
              n == dlt_user_trace_network_truncated(h, p)
              new(r) == Append(traces, [NewTrace(h, p, 0, 0) EXCEPT !.result = r, !.ended = TRUE])
          IN  IF n = -1 /\ status THEN traces' = new("error") /\ UNCHANGED <<stream, netused>>
              ELSE Send(t, [kind |-> "trace", trace |-> t, length |-> n, count |-> 0],
                        new(IF ok THEN "ok" ELSE "error"), ok)
  /\ UNCHANGED <<callers, queue, open, worker, status, room, netlimit>>

\* dlt_user_trace_network: what does not fit is truncated.
SendTruncated(c) ==
  /\ callers[c].pc = "idle" /\ Len(traces) < netlimit.traces
  /\ \E h \in Headers, p \in netlimit.payloads, ok \in BOOLEAN :
       /\ h + p + 2 > LogBufLen
       /\ LET t == Len(traces) + 1
              n == dlt_user_trace_network_truncated(h, p)
              new(r) == Append(traces, [NewTrace(h, p, 0, 0) EXCEPT !.result = r, !.ended = TRUE])
          IN  IF n = -1 /\ status THEN traces' = new("error") /\ UNCHANGED <<stream, netused>>
              ELSE Send(t, [kind |-> "truncated", trace |-> t, length |-> n, count |-> 0],
                        new(IF ok THEN "ok" ELSE "error"), ok)
  /\ UNCHANGED <<callers, queue, open, worker, status, room, netlimit>>

\* The stream handle is the microseconds of the time of day, or what malloc found when the status is
\* off: any number, also one that another trace has.
dlt_user_trace_network_segmented_start(c) ==
  /\ callers[c].pc = "idle" /\ Len(traces) < netlimit.traces
  /\ \E h \in Headers, p \in netlimit.payloads, a \in Addresses, id \in netlimit.handles, ok \in BOOLEAN :
       LET t == Len(traces) + 1
           fits == StartSize(h) <= LogBufLen
           new(r) == Append(traces, [NewTrace(h, p, a, id) EXCEPT !.result = r])
       IN  /\ h + p + 2 >= LogBufLen
           /\ IF ~fits /\ status
              THEN traces' = new("error") /\ UNCHANGED <<stream, netused>>
              ELSE Send(t, [kind |-> "start", trace |-> t, length |-> p, count |-> SegmentCount(p)],
                        new(IF ok THEN "none" ELSE "error"), ok)
           /\ callers' = [callers EXCEPT ![c] =
                IF ok /\ (fits \/ ~status) THEN [pc |-> "enqueue", trace |-> t] ELSE @]
  /\ UNCHANGED <<queue, open, worker, status, room, netlimit>>

\* dlt_init_message_queue: the queue is opened once; a queue that a crashed process has left
\* is removed first.
OpenQueue(ok) ==
  \/ open /\ ok /\ UNCHANGED <<open, netused>>
  \/ ~open /\ ok /\ open' = TRUE /\ UNCHANGED netused
  \/ /\ ~open /\ ~ok /\ netused.opens < netlimit.opens
     /\ netused' = [netused EXCEPT !.opens = @ + 1]
     /\ UNCHANGED open

\* A queue that is full or cannot be opened leaves an announced trace without segments and
\* end.
Enqueue(c) ==
  /\ callers[c].pc = "enqueue"
  /\ callers' = [callers EXCEPT ![c] = [pc |-> "idle", trace |-> NoTrace]]
  /\ \E ok \in BOOLEAN :
       LET t == callers[c].trace IN
       /\ OpenQueue(ok)
       /\ IF ok /\ Len(queue) < QueueSize
          THEN queue' = Append(queue, t) /\ traces' = [traces EXCEPT ![t].result = "ok"]
          ELSE UNCHANGED queue /\ traces' = [Spoil(t, traces) EXCEPT ![t].result = "error"]
  /\ UNCHANGED <<worker, status, room, stream, netlimit>>

--------------------------------------------------------------------------------
(* The thread.                                                                 *)

dlt_user_trace_network_segmented_thread ==
  /\ worker.pc = "idle" /\ open /\ queue # <<>>
  /\ worker' = [pc |-> "segment", trace |-> Head(queue), offset |-> 0, sequence |-> 0]
  /\ queue' = Tail(queue)
  /\ UNCHANGED <<callers, open, status, room, stream, traces, netlimit, netused>>

SegmentLength(t, offset) ==
  IF offset + SegmentSize > traces[t].payload THEN traces[t].payload - offset ELSE SegmentSize

\* The loop compares the offset with the end of the payload's address.
LoopEnd(t) == (traces[t].address + traces[t].payload) % AddressSpace

\* dlt_user_trace_network_segmented_thread_segmenter with
\* dlt_user_trace_network_segmented_segment, which waits until the buffer has room.
dlt_user_trace_network_segmented_segment ==
  /\ worker.pc = "segment"
  /\ LET t == worker.trace
         len == SegmentLength(t, worker.offset)
     IN  IF len = 0
         THEN /\ worker' = [worker EXCEPT !.pc = "end"]
              /\ UNCHANGED <<stream, traces, netused>>
         ELSE /\ room
              /\ \E ok \in BOOLEAN :
                   /\ Send(t, [kind |-> "segment", trace |-> t, length |-> len, count |-> worker.sequence],
                           traces, ok)
                   /\ worker' = [worker EXCEPT
                        !.sequence = @ + 1,
                        !.offset = IF ok THEN @ + len ELSE @,
                        !.pc = IF ok /\ worker.offset + len < LoopEnd(t) THEN "segment" ELSE "end"]
  /\ UNCHANGED <<callers, queue, open, status, room, netlimit>>

\* Mutant of dlt_user_trace_network_segmented_end: a trace that was aborted has no end.
EndOfWholeOnly ==
  /\ worker.pc = "end"
  /\ LET t == worker.trace IN
     \E ok \in BOOLEAN :
       /\ ~traces[t].spoiled
       /\ Send(t, [kind |-> "end", trace |-> t, length |-> 0, count |-> 0],
               [traces EXCEPT ![t].ended = TRUE], ok)
  /\ worker' = [worker EXCEPT !.pc = "idle", !.trace = NoTrace]
  /\ UNCHANGED <<callers, queue, open, status, room, netlimit>>

dlt_user_trace_network_segmented_end ==
  /\ worker.pc = "end"
  /\ LET t == worker.trace IN
     \E ok \in BOOLEAN :
       Send(t, [kind |-> "end", trace |-> t, length |-> 0, count |-> 0],
            [traces EXCEPT ![t].ended = TRUE], ok)
  /\ worker' = [worker EXCEPT !.pc = "idle", !.trace = NoTrace]
  /\ UNCHANGED <<callers, queue, open, status, room, netlimit>>

--------------------------------------------------------------------------------
(* The rest of the library: SET_TRACE_STATUS arrives, and the buffer fills and *)
(* is sent again.                                                              *)

SwitchStatus ==
  /\ netused.switches < netlimit.switches
  /\ status' = ~status
  /\ netused' = [netused EXCEPT !.switches = @ + 1]
  /\ UNCHANGED <<callers, queue, open, worker, room, stream, traces, netlimit>>

Fill ==
  /\ room /\ netused.fills < netlimit.fills
  /\ room' = FALSE
  /\ netused' = [netused EXCEPT !.fills = @ + 1]
  /\ UNCHANGED <<callers, queue, open, worker, status, stream, traces, netlimit>>

\* check_buffer fails: the thread sleeps and sends the buffer again.
Resend ==
  /\ ~room
  /\ room' = TRUE
  /\ UNCHANGED <<callers, queue, open, worker, status, stream, traces, netlimit, netused>>

WorkerStep ==
  \/ dlt_user_trace_network_segmented_thread
  \/ dlt_user_trace_network_segmented_segment
  \/ dlt_user_trace_network_segmented_end

NetNext ==
  \/ \E c \in Callers : SendAtOnce(c)
  \/ \E c \in Callers : SendTruncated(c)
  \/ \E c \in Callers : dlt_user_trace_network_segmented_start(c)
  \/ \E c \in Callers : Enqueue(c)
  \/ WorkerStep
  \/ SwitchStatus
  \/ Fill
  \/ Resend

NetSpec == NetInit /\ [][NetNext]_netvars

\* The thread is scheduled, and the daemon takes what is sent again in the end.
NetFairness == WF_netvars(WorkerStep) /\ WF_netvars(Resend)

--------------------------------------------------------------------------------
(* Properties.                                                                 *)

\* The messages of a segmented trace carry its stream handle, by which a receiver tells traces apart.
Handle(j) == traces[stream[j].trace].handle
Streamed(j) == stream[j].kind \in {"start", "segment", "end"}

\* Between its start and its end no other trace uses the handle of a trace.
Alone(s, e) ==
  \A j \in s .. e : Streamed(j) /\ Handle(j) = Handle(e) => stream[j].trace = stream[e].trace

\* The segments that a receiver finds between the start s and the end e of a trace.
SegmentsOf(s, e) == {j \in s + 1 .. e - 1 : stream[j].kind = "segment" /\ Handle(j) = Handle(e)}

\* They are the announced ones: numbered from 0, each once and in their order, all of the full size
\* but the last, which has the rest of the announced length.
Reassembled(s, e) ==
  LET n == stream[s].count
  IN  /\ \A j \in SegmentsOf(s, e) :
           /\ stream[j].count \in 0 .. n - 1 /\ stream[j].length \in 1 .. SegmentSize
           /\ stream[j].length =
                IF stream[j].count = n - 1 THEN stream[s].length - (n - 1) * SegmentSize ELSE SegmentSize
      /\ \A k \in 0 .. n - 1 : \E j \in SegmentsOf(s, e) : stream[j].count = k
      /\ \A i, j \in SegmentsOf(s, e) : i < j => stream[i].count < stream[j].count

\* A receiver can put a trace together again: before its end are its start and the announced
\* segments, unless a message was refused, the status was off meanwhile, the copy of the payload
\* crosses a 4 GiB boundary, or another trace with the same handle comes in between.
EndsComplete ==
  \A e \in DOMAIN stream :
    LET trace == traces[stream[e].trace] IN
    stream[e].kind = "end" /\ ~trace.spoiled /\ trace.address + trace.payload < AddressSpace =>
      \E s \in 1 .. e - 1 :
        /\ stream[s].kind = "start" /\ stream[s].trace = stream[e].trace /\ stream[s].length = trace.payload
        /\ Alone(s, e) => Reassembled(s, e)

\* A truncated trace uses the message up.
TruncatedFills ==
  \A i \in DOMAIN stream :
    stream[i].kind = "truncated" =>
      StringSize + RawSize(traces[stream[i].trace].header) + Uint32Size + RawSize(stream[i].length) = LogBufLen

\* No segment of another trace comes between a segment of a trace and the rest of it.
NotMixed ==
  \A i, j, k \in DOMAIN stream :
    i < j /\ j < k /\ stream[i].kind = "segment" /\ stream[j].kind = "segment" /\ stream[k].trace = stream[i].trace =>
      stream[j].trace = stream[i].trace

\* However the calls, the queue and the thread interleave, the messages of a network trace that ends
\* are all there, in order and not mixed with another trace, which a receiver can tell as long as the
\* handle is not used by two at once (doc/dlt_extended_network_trace.md:23 calls it unique, the code
\* takes a microsecond), and a truncated one is as long as can be
\* (dlt_user_trace_network_segmented, dlt_user_trace_network_segmented_thread).
TracesExact == EndsComplete /\ TruncatedFills /\ NotMixed

\* A trace that was accepted comes to its end, also one whose segments are refused.
TracesEnd ==
  \A t \in 1 .. 2 :
    (t \in DOMAIN traces /\ traces[t].result = "ok") ~> (t \in DOMAIN traces /\ traces[t].ended)
================================================================================
