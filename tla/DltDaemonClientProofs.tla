------------------------- MODULE DltDaemonClientProofs -------------------------
(* The logging state, the order of messages and what happens to each of them,     *)
(* for every number of clients, messages and recursive calls.                     *)
EXTENDS DltDaemonClient, FiniteSetTheorems, SequenceTheorems, TLAPS

(* The inductive invariant, in parts. *)

Buffers == {"BUFFER", "BUFFER_FULL"}
SendPcs == {"send", "loop", "store", "reported"}
DrainPcs == {"drain", "drained"}
EventPcs == {"connected", "announce", "userOverflow", "exit"}

History == [logs : Nat, conns : 0 .. MaxConns, peak : Nat, modes : Nat, overflows : Nat,
            reports : Nat, discards : Nat, discarded : SUBSET Nat]

\* Types of the history variables; the loop over the connections starts at 1.
Typed ==
  /\ TypeOK
  /\ limit \in Limits
  /\ done \in History
  /\ offline \in Seq(Nat)
  /\ \A i \in 1 .. Len(stack) : stack[i].pc \in {"send", "loop"} => stack[i].idx # 0

\* Connections are numbered as they come, none is in the table twice, and nothing was sent to
\* one that has not come yet.
Table ==
  /\ \A i \in 1 .. Len(pfd) : pfd[i] <= done.conns
  /\ \A i, j \in 1 .. Len(pfd) : pfd[i] = pfd[j] => i = j
  /\ \A c \in Conn : c > done.conns => delivered[c] = <<>>
  /\ Len(pfd) <= done.peak

\* An entry that is being sent is in the ring.
Holding == \A i \in 1 .. Len(stack) : stack[i].pc = "drained" => ring # <<>>

\* Nothing is stored while messages are sent past the ring.
Direct == state = "SEND_DIRECT" => ring = <<>>

\* A full ring holds something.
Full == state = "BUFFER_FULL" => ring # <<>>

\* One report of lost messages at a time, guarded by sent_message_overflow_cnt.
Reporting ==
  /\ \A i \in 1 .. Len(stack) : stack[i].pc = "reported" => overflow_cnt = 1
  /\ \A i, j \in 1 .. Len(stack) : stack[i].pc = "reported" /\ stack[j].pc = "reported" => i = j

\* The applications are told, or will be by the event that runs.
Announced ==
  pfd # <<>> => \/ connectionState = 1
                \/ /\ Len(pfd) = 1 /\ stack # <<>>
                   /\ stack[1].pc \in {"connected", "announce"}

\* Who calls whom: what the frame at place i and its neighbours may be.
FrameOK(i) ==
  LET f == stack[i] IN
  /\ f.pc \notin SendPcs => ~f.force /\ f.msg = Info
  /\ f.force => i > 1 /\ stack[i - 1].pc = "drained"
  /\ f.pc = "drained" /\ i < Len(stack) => stack[i + 1].force
  /\ f.pc \in DrainPcs => i = 1 \/ (i = 2 /\ stack[1].pc = "announce")
  /\ f.pc \in EventPcs => i = 1
  /\ ~f.force /\ f.msg.kind = "log" => i = 1
  /\ f.pc = "close" => /\ i = Len(stack) /\ \E j \in 1 .. Len(pfd) : pfd[j] = f.idx
                       /\ i = 1 \/ stack[i - 1].pc = "loop"
  /\ i < Len(stack) => f.pc \notin {"store", "close", "drain"}
  /\ i < Len(stack) /\ f.pc = "send" => ~f.force /\ f.msg = Info
Shape == \A i \in 1 .. Len(stack) : FrameOK(i)

InDrain == \E i \in 1 .. Len(stack) : stack[i].pc \in DrainPcs

\* With external logging from the start: outside of the sending of the ring the state tells
\* whether there are clients; inside there is at most one client, and its loss is noticed.
Outside ==
  ~InDrain =>
    /\ pfd = <<>> => state \in Buffers
    /\ pfd # <<>> => \/ state = "SEND_DIRECT"
                     \/ /\ Len(pfd) = 1 /\ state \in Buffers
                        /\ stack # <<>> /\ stack[1].pc = "connected"

InsideFrame(i) ==
  LET f == stack[i] IN
  /\ f.force /\ f.pc = "loop" =>
       \/ f.idx = 1 /\ ~f.sent
       \/ f.idx = 2 /\ f.sent /\ pfd # <<>>
       \/ f.idx = 2 /\ ~f.sent /\ pfd = <<>>
       \/ f.idx = 2 /\ ~f.sent /\ i < Len(stack) /\ stack[i + 1].pc = "close"
  /\ f.force /\ f.pc \in {"store", "reported"} => pfd # <<>>
  /\ f.force /\ f.pc = "send" => ~f.sent /\ f.idx = 1
  /\ ~f.force /\ f.pc \in SendPcs => f.pc \in {"send", "store"}
  /\ f.pc = "close" => i > 1 /\ stack[i - 1].force /\ ~stack[i - 1].sent

Inside ==
  InDrain =>
    /\ Len(pfd) <= 1
    /\ pfd = <<>> => state \in Buffers
    /\ pfd # <<>> => state \in {"SEND_BUFFER", "BUFFER_FULL"}
    /\ At("drain") /\ ring = <<>> => pfd # <<>>
    /\ At("drained") => (ret = "OK" <=> pfd # <<>>)
    /\ \A i \in 1 .. Len(stack) : InsideFrame(i)

StateInv == External => Outside /\ Inside

\* Without external logging from the start, the sending of the ring does not fail.
Unrouted ==
  done.modes = 0 /\ ~Routed =>
    /\ ~InDrain => state # "SEND_BUFFER"
    /\ At("drained") => ret = "OK"
    /\ \A i \in 1 .. Len(stack) : stack[i].force => stack[i].pc # "loop"

\* Every message before the one that comes in is in the offline trace.
Tracing ==
  done.modes = 0 /\ mode \in {"INTERNAL", "BOTH"} =>
    \A n \in 1 .. done.logs :
      \/ \E i \in 1 .. Len(offline) : offline[i] = n
      \/ n = done.logs /\ stack # <<>> /\ stack[1] = Send(Log(n), FALSE)

--------------------------------------------------------------------------------
(* The order of log messages *)

\* All log messages in s come before log message n; s is in order.
Before(s, n) == \A i \in 1 .. Len(s) : s[i].kind = "log" => s[i].n < n
Sorted(s) == \A i, j \in 1 .. Len(s) :
               i < j /\ s[i].kind = "log" /\ s[j].kind = "log" => s[i].n < s[j].n

\* Somebody took the oldest entry of the ring, which is still there.
HeadSent == \/ \E i \in 1 .. Len(stack) : stack[i].force /\ stack[i].sent
            \/ At("drained") /\ ret = "OK"

OfflineOrder ==
  /\ \A i \in 1 .. Len(offline) : offline[i] <= done.logs
  /\ \A i, j \in 1 .. Len(offline) : i < j => offline[i] < offline[j]
  /\ stack # <<>> /\ stack[1].pc = "send" /\ stack[1].msg.kind = "log" =>
       \A i \in 1 .. Len(offline) : offline[i] < stack[1].msg.n

Ordered ==
  /\ Sorted(ring) /\ Before(ring, done.logs + 1)
  /\ \A c \in Conn : Sorted(delivered[c]) /\ Before(delivered[c], done.logs + 1)

\* What a connected client got comes before what the ring holds.
Queued ==
  \A k \in 1 .. Len(pfd) : \A j \in 1 .. Len(ring) :
    ring[j].kind = "log" /\ (j = 1 => ~HeadSent) => Before(delivered[pfd[k]], ring[j].n)

\* The clients from place i on got only log messages before n.
Ahead(i, n) == \A k \in 1 .. Len(pfd) : k >= i => Before(delivered[pfd[k]], n)

\* The oldest entry of the ring on its way.
ForcedFrame(i) ==
  LET f == stack[i] IN
  f.force =>
    /\ ring # <<>> /\ f.msg = ring[1]
    /\ f.pc = "loop" /\ f.msg.kind = "log" => Ahead(f.idx, f.msg.n)
    /\ f.pc = "send" => f.idx = 1 /\ ~f.sent
Forced == \A i \in 1 .. Len(stack) : ForcedFrame(i)

\* A new log message on its way.
IncomingFrame(f) ==
  /\ f.msg = Log(done.logs)
  /\ f.pc \in {"send", "loop", "store"} => Before(ring, f.msg.n)
  /\ f.pc = "send" => f.idx = 1 /\ \A c \in Conn : Before(delivered[c], f.msg.n)
  /\ f.pc = "loop" => Ahead(f.idx, f.msg.n) /\ (state = "SEND_DIRECT" \/ pfd = <<>>)
  /\ f.pc = "store" => state = "SEND_DIRECT" \/ Ahead(1, f.msg.n)
Incoming == stack # <<>> /\ stack[1].msg.kind = "log" => IncomingFrame(stack[1])

--------------------------------------------------------------------------------
(* What became of each log message *)

Delivered(m) == \E c \in Conn : \E i \in 1 .. Len(delivered[c]) : delivered[c][i] = m

Accounted(n) ==
  \/ n \in done.discarded
  \/ \E i \in 1 .. Len(ring) : ring[i] = Log(n)
  \/ Delivered(Log(n))
  \/ /\ stack # <<>> /\ stack[1].msg = Log(n)
     /\ stack[1].pc \in {"send", "loop", "store"}

\* An entry of the ring on its way: whoever says it was sent is right, and it gets past the loop
\* over the clients only when it was.
SentEntry(i) ==
  LET f == stack[i] IN
  f.force /\ f.msg.kind # "info" =>
    /\ f.sent => Delivered(f.msg)
    /\ f.pc \in {"store", "reported"} => f.sent

\* A new log message on its way: its only client takes it, or is closed and the daemon buffers.
SentLog ==
  stack # <<>> /\ stack[1].msg.kind = "log" =>
    /\ stack[1].sent /\ stack[1].pc # "reported" => Delivered(stack[1].msg)
    /\ stack[1].pc = "store" /\ state = "SEND_DIRECT" => stack[1].sent
    /\ stack[1].pc = "loop" =>
         \/ stack[1].idx = 1 /\ pfd # <<>> /\ Len(stack) = 1
         \/ /\ stack[1].idx = 2
            /\ \/ stack[1].sent
               \/ pfd = <<>>
               \/ Len(stack) = 2 /\ stack[2].pc = "close"

HeadDelivered == At("drained") /\ ret = "OK" /\ ring[1].kind # "info" => Delivered(ring[1])

Lossless ==
  External /\ done.peak <= 1 =>
    /\ \A n \in 1 .. done.logs : Accounted(n)
    /\ \A i \in 1 .. Len(stack) : SentEntry(i)
    /\ SentLog
    /\ HeadDelivered

--------------------------------------------------------------------------------
(* The call stack *)

\* The effect of Run and Return, place by place.
Replaced(f) ==
  /\ Len(stack') = Len(stack)
  /\ \A i \in 1 .. Len(stack) : stack'[i] = IF i = Len(stack) THEN f ELSE stack[i]
Pushed(f, g) ==
  /\ Len(stack') = Len(stack) + 1
  /\ \A i \in 1 .. Len(stack) + 1 :
       stack'[i] = IF i = Len(stack) + 1 THEN g ELSE IF i = Len(stack) THEN f ELSE stack[i]
Popped ==
  /\ Len(stack') = Len(stack) - 1
  /\ \A i \in 1 .. Len(stack) - 1 : stack'[i] = stack[i]

\* All calls but the innermost.
LEMMA FrontFacts ==
  ASSUME NEW S, NEW s \in Seq(S), s # <<>>
  PROVE  /\ Front(s) \in Seq(S) /\ Len(s) \in Nat /\ Len(s) >= 1
         /\ Len(Front(s)) = Len(s) - 1
         /\ \A i \in 1 .. Len(s) - 1 : Front(s)[i] = s[i]
  <1>1. Len(s) \in Nat /\ Len(s) >= 1
    BY EmptySeq
  <1>2. Front(s) = [i \in 1 .. Len(s) - 1 |-> s[i]]
    BY DEF Front
  <1> QED
    BY <1>1, <1>2

LEMMA RunOne ==
  ASSUME stack \in Seq(FrameType), stack # <<>>, NEW f \in FrameType, Run(<<f>>)
  PROVE  stack' \in Seq(FrameType) /\ Replaced(f)
  <1> DEFINE t == Front(stack)
  <1>1. /\ t \in Seq(FrameType) /\ Len(stack) \in Nat /\ Len(t) = Len(stack) - 1
        /\ \A i \in 1 .. Len(stack) - 1 : t[i] = stack[i]
    BY FrontFacts
  <1>2. stack' = t \o <<f>>
    BY DEF Run
  <1> HIDE DEF t
  <1> QED
    BY <1>1, <1>2 DEF Replaced

LEMMA RunTwo ==
  ASSUME stack \in Seq(FrameType), stack # <<>>, NEW f \in FrameType, NEW g \in FrameType,
         Run(<<f, g>>)
  PROVE  stack' \in Seq(FrameType) /\ Pushed(f, g)
  <1> DEFINE t == Front(stack)
             u == <<f, g>>
  <1>1. /\ t \in Seq(FrameType) /\ Len(stack) \in Nat /\ Len(t) = Len(stack) - 1
        /\ \A i \in 1 .. Len(stack) - 1 : t[i] = stack[i]
    BY FrontFacts
  <1>2. stack' = t \o u
    BY DEF Run
  <1>3. u \in Seq(FrameType) /\ Len(u) = 2 /\ u[1] = f /\ u[2] = g
    OBVIOUS
  <1> HIDE DEF t, u
  <1>4. /\ stack' \in Seq(FrameType) /\ Len(stack') = Len(t) + Len(u)
        /\ \A i \in 1 .. Len(t) + Len(u) : stack'[i] = IF i <= Len(t) THEN t[i] ELSE u[i - Len(t)]
    BY <1>1, <1>2, <1>3, ConcatProperties, Zenon
  <1>5. stack'[Len(stack)] = f /\ stack'[Len(stack) + 1] = g
    BY <1>1, <1>3, <1>4
  <1> QED
    BY <1>1, <1>3, <1>4, <1>5 DEF Pushed

LEMMA ReturnOne ==
  ASSUME stack \in Seq(FrameType), stack # <<>>, NEW r, Return(r)
  PROVE  stack' \in Seq(FrameType) /\ Popped /\ ret' = r
  BY FrontFacts DEF Return, Popped

--------------------------------------------------------------------------------
(* The table of connections and the ring *)

\* dlt_event_handler_disable_fd takes one entry out and keeps the order of the others.
LEMMA DisableFdFacts ==
  ASSUME NEW S, NEW s \in Seq(S), NEW c, Contains(s, c)
  PROVE  /\ DisableFd(s, c) \in Seq(S) /\ Len(DisableFd(s, c)) = Len(s) - 1
         /\ \E at \in 1 .. Len(s) :
              /\ s[at] = c
              /\ \A i \in 1 .. Len(s) - 1 :
                   DisableFd(s, c)[i] = IF i < at THEN s[i] ELSE s[i + 1]
  <1> DEFINE at == CHOOSE i \in DOMAIN s : s[i] = c
             d == [i \in 1 .. Len(s) - 1 |-> IF i < at THEN s[i] ELSE s[i + 1]]
  <1>1. \E i \in DOMAIN s : s[i] = c
    BY DEF Contains
  <1>2. at \in DOMAIN s /\ s[at] = c
    BY <1>1
  <1>3. DisableFd(s, c) = d
    BY DEF DisableFd
  <1>4. Len(s) \in Nat /\ DOMAIN s = 1 .. Len(s)
    OBVIOUS
  <1> HIDE DEF at
  <1>5. d \in Seq(S) /\ Len(d) = Len(s) - 1
    BY <1>2, <1>4
  <1> QED
    BY <1>2, <1>3, <1>4, <1>5

LEMMA NotInTable ==
  ASSUME NEW s, NEW c, ~Contains(s, c)
  PROVE  DisableFd(s, c) = s
  BY DEF DisableFd

Logs(s) == {i \in DOMAIN s : s[i].kind = "log"}

LEMMA LogsFinite ==
  ASSUME NEW s \in Seq(Message)
  PROVE  IsFiniteSet(Logs(s)) /\ Cardinality(Logs(s)) \in Nat /\ UsedBy(s) \in Nat
         /\ UsedBy(s) = Len(s) + Cardinality(Logs(s)) /\ UsedBy(s) >= Len(s)
  <1>1. DOMAIN s = 1 .. Len(s) /\ Len(s) \in Nat
    OBVIOUS
  <1>2. IsFiniteSet(1 .. Len(s))
    BY <1>1, FS_Interval
  <1>3. Logs(s) \subseteq 1 .. Len(s)
    BY <1>1 DEF Logs
  <1>4. IsFiniteSet(Logs(s))
    BY <1>2, <1>3, FS_Subset
  <1>5. Cardinality(Logs(s)) \in Nat
    BY <1>4, FS_CardinalityType
  <1> QED
    BY <1>1, <1>4, <1>5 DEF UsedBy, Logs

LEMMA UsedByEmpty == UsedBy(<<>>) = 0
  <1>1. Logs(<<>>) = {}
    BY DEF Logs
  <1>2. Cardinality({}) = 0
    BY FS_EmptySet
  <1> QED
    BY <1>1, <1>2, LogsFinite DEF UsedBy, Logs

\* A pushed entry takes its length, ...
LEMMA UsedByAppend ==
  ASSUME NEW s \in Seq(Message), NEW m \in Message
  PROVE  UsedBy(Append(s, m)) = UsedBy(s) + MsgLen(m)
  <1> DEFINE t == Append(s, m)
  <1>1. /\ t \in Seq(Message) /\ Len(t) = Len(s) + 1 /\ DOMAIN t = 1 .. Len(s) + 1
        /\ Len(s) \in Nat /\ DOMAIN s = 1 .. Len(s)
        /\ t[Len(s) + 1] = m /\ \A i \in 1 .. Len(s) : t[i] = s[i]
    OBVIOUS
  <1>2. UsedBy(t) = Len(t) + Cardinality(Logs(t)) /\ UsedBy(s) = Len(s) + Cardinality(Logs(s))
    BY <1>1, LogsFinite
  <1>3. IsFiniteSet(Logs(s)) /\ Cardinality(Logs(s)) \in Nat
    BY LogsFinite
  <1> HIDE DEF t
  <1>4. CASE m.kind = "log"
    <2>1. Logs(t) = Logs(s) \cup {Len(s) + 1} /\ Len(s) + 1 \notin Logs(s)
      BY <1>1, <1>4 DEF Logs
    <2>2. Cardinality(Logs(t)) = Cardinality(Logs(s)) + 1
      BY <2>1, <1>3, FS_AddElement
    <2> QED
      BY <2>2, <1>1, <1>2, <1>3, <1>4 DEF MsgLen, t
  <1>5. CASE m.kind # "log"
    <2>1. Logs(t) = Logs(s)
      BY <1>1, <1>5 DEF Logs
    <2> QED
      BY <2>1, <1>1, <1>2, <1>3, <1>5 DEF MsgLen, t
  <1> QED
    BY <1>4, <1>5

\* ... and a removed one does not leave more.
LEMMA UsedByTail ==
  ASSUME NEW s \in Seq(Message), s # <<>>
  PROVE  UsedBy(Tail(s)) <= UsedBy(s)
  <1> DEFINE t == Tail(s)
             f == [i \in Logs(t) |-> i + 1]
  <1>1. /\ t \in Seq(Message) /\ Len(s) \in Nat /\ Len(s) >= 1 /\ Len(t) = Len(s) - 1
        /\ DOMAIN t = 1 .. Len(s) - 1 /\ DOMAIN s = 1 .. Len(s)
        /\ \A i \in 1 .. Len(s) - 1 : t[i] = s[i + 1]
    BY EmptySeq
  <1>2. /\ UsedBy(t) = Len(t) + Cardinality(Logs(t)) /\ UsedBy(s) = Len(s) + Cardinality(Logs(s))
        /\ IsFiniteSet(Logs(s)) /\ Cardinality(Logs(s)) \in Nat /\ Cardinality(Logs(t)) \in Nat
    BY <1>1, LogsFinite
  <1> HIDE DEF t
  <1>3. \A i \in Logs(t) : i \in Nat /\ i + 1 \in Logs(s)
    BY <1>1 DEF Logs
  <1>4. f \in Injection(Logs(t), Logs(s))
    BY <1>3 DEF Injection, IsInjective
  <1>5. Cardinality(Logs(t)) <= Cardinality(Logs(s))
    BY <1>2, <1>4, FS_Injection
  <1> QED
    BY <1>1, <1>2, <1>5 DEF t

--------------------------------------------------------------------------------
(* What each step does to the call stack *)

LEMMA MessageTypes ==
  /\ Info \in Message /\ ConnectionInfo = Info
  /\ \A n \in Nat : Log(n) \in Message
  /\ \A k, n \in Nat : Overflow(k, n) \in Message
  BY DEF Info, ConnectionInfo, Log, Overflow, Message

LEMMA FrameTypes ==
  /\ \A m \in Message, force \in BOOLEAN : Send(m, force) \in FrameType
  /\ \A c \in Nat : Close(c) \in FrameType
  /\ Drain \in FrameType
  /\ \A pc \in DrainPcs \cup EventPcs : Then(pc) \in FrameType
  BY MessageTypes DEF Send, Close, Drain, Then, Frame, FrameType, DrainPcs, EventPcs

LEMMA TopFacts ==
  ASSUME stack \in Seq(FrameType), NEW pc, At(pc)
  PROVE  /\ stack # <<>> /\ Len(stack) \in Nat /\ Len(stack) >= 1
         /\ Top = stack[Len(stack)] /\ Top \in FrameType /\ Top.pc = pc
  BY EmptySeq DEF At, Idle, Top

\* The running function at another point, with another index and result.
Goes(pc, idx, sent) == [pc |-> pc, msg |-> Top.msg, force |-> Top.force, idx |-> idx, sent |-> sent]

LEMMA GoesFacts ==
  ASSUME Top \in FrameType, NEW pc \in SendPcs
  PROVE  /\ [Top EXCEPT !.pc = pc] = Goes(pc, Top.idx, Top.sent)
         /\ [Top EXCEPT !.idx = @ + 1] = Goes(Top.pc, Top.idx + 1, Top.sent)
         /\ \A sent \in BOOLEAN, idx \in Nat : Goes(pc, idx, sent) \in FrameType
  <1> DEFINE t == Top
  <1>1. /\ t = [pc |-> t.pc, msg |-> t.msg, force |-> t.force, idx |-> t.idx, sent |-> t.sent]
        /\ t.msg \in Message /\ t.force \in BOOLEAN
    BY DEF FrameType
  <1> HIDE DEF t
  <1>2. [t EXCEPT !.pc = pc] = [pc |-> pc, msg |-> t.msg, force |-> t.force, idx |-> t.idx, sent |-> t.sent]
    BY <1>1
  <1>3. [t EXCEPT !.idx = @ + 1]
          = [pc |-> t.pc, msg |-> t.msg, force |-> t.force, idx |-> t.idx + 1, sent |-> t.sent]
    BY <1>1
  <1>5. \A sent \in BOOLEAN, idx \in Nat :
          [pc |-> pc, msg |-> t.msg, force |-> t.force, idx |-> idx, sent |-> sent] \in FrameType
    BY <1>1 DEF FrameType, SendPcs
  <1> QED
    BY <1>2, <1>3, <1>5 DEF Goes, t

LEMMA SentFacts ==
  ASSUME NEW f \in FrameType
  PROVE  [f EXCEPT !.sent = TRUE] =
           [pc |-> f.pc, msg |-> f.msg, force |-> f.force, idx |-> f.idx, sent |-> TRUE]
  <1> DEFINE p == f.pc
             m == f.msg
             o == f.force
             i == f.idx
             s == f.sent
  <1>1. f = [pc |-> p, msg |-> m, force |-> o, idx |-> i, sent |-> s]
    BY DEF FrameType
  <1> HIDE DEF p, m, o, i, s
  <1>2. \A b : [f EXCEPT !.sent = b] = [pc |-> p, msg |-> m, force |-> o, idx |-> i, sent |-> b]
    BY <1>1
  <1>3. [f EXCEPT !.sent = TRUE] = [pc |-> p, msg |-> m, force |-> o, idx |-> i, sent |-> TRUE]
    BY <1>2, Zenon
  <1> QED
    BY <1>3 DEF p, m, o, i

LEMMA ClientSendStack ==
  ASSUME stack \in Seq(FrameType), ClientSend
  PROVE  /\ stack' \in Seq(FrameType)
         /\ Replaced(Goes(IF Routed /\ (Top.force \/ state = "SEND_DIRECT") THEN "loop" ELSE "store",
                          Top.idx, Top.sent))
  <1> DEFINE pc == IF Routed /\ (Top.force \/ state = "SEND_DIRECT") THEN "loop" ELSE "store"
  <1>1. stack # <<>> /\ Top \in FrameType
    BY TopFacts DEF ClientSend
  <1>2. pc \in SendPcs
    BY DEF SendPcs
  <1>3. Run(<<[Top EXCEPT !.pc = pc]>>)
    BY DEF ClientSend
  <1> HIDE DEF pc
  <1>4. [Top EXCEPT !.pc = pc] = Goes(pc, Top.idx, Top.sent) /\ Goes(pc, Top.idx, Top.sent) \in FrameType
    BY <1>1, <1>2, GoesFacts DEF FrameType
  <1> QED
    BY <1>1, <1>3, <1>4, RunOne DEF pc

LEMMA SendAllMultipleStack ==
  ASSUME stack \in Seq(FrameType), pfd \in Seq(Conn), Top.idx # 0, SendAllMultiple
  PROVE  /\ stack' \in Seq(FrameType)
         /\ IF pfd[Top.idx] \in broken
            THEN /\ Pushed(Goes("loop", Top.idx + 1, Top.sent), Close(pfd[Top.idx]))
                 /\ UNCHANGED delivered
            ELSE /\ Replaced(Goes("loop", Top.idx + 1, TRUE))
                 /\ ConnectionSend(pfd[Top.idx], Top.msg)
  <1>1. stack # <<>> /\ Top \in FrameType /\ Top.pc = "loop" /\ "loop" \in SendPcs
    BY TopFacts DEF SendAllMultiple, SendPcs
  <1>2. /\ [Top EXCEPT !.idx = @ + 1] = Goes("loop", Top.idx + 1, Top.sent)
    BY <1>1, GoesFacts
  <1>3. Top.idx \in Nat /\ Top.sent \in BOOLEAN
    BY <1>1 DEF FrameType
  <1>4. \A sent \in BOOLEAN : Goes("loop", Top.idx + 1, sent) \in FrameType
    <2>1. Top.idx + 1 \in Nat
      BY <1>3
    <2> QED
      BY <1>1, <2>1, GoesFacts
  <1>5. CASE pfd[Top.idx] \in broken
    <2>1. Run(<<Goes("loop", Top.idx + 1, Top.sent), Close(pfd[Top.idx])>>) /\ UNCHANGED delivered
      BY <1>2, <1>5 DEF SendAllMultiple
    <2>2. pfd[Top.idx] \in Nat
      <3>1. Top.idx \in 1 .. Len(pfd)
        BY <1>3 DEF SendAllMultiple
      <3> QED
        BY <3>1, ConstAssumption DEF Conn
    <2>3. Close(pfd[Top.idx]) \in FrameType
      BY <2>2, FrameTypes
    <2> QED
      BY <1>1, <1>3, <1>4, <1>5, <2>1, <2>3, RunTwo
  <1>6. CASE pfd[Top.idx] \notin broken
    <2> DEFINE next == Goes("loop", Top.idx + 1, Top.sent)
    <2>2. Run(<<[next EXCEPT !.sent = TRUE]>>) /\ ConnectionSend(pfd[Top.idx], Top.msg)
      BY <1>2, <1>6 DEF SendAllMultiple
    <2>3. [next EXCEPT !.sent = TRUE] = Goes("loop", Top.idx + 1, TRUE)
      BY <1>3, <1>4, SentFacts DEF Goes
    <2>1. Run(<<Goes("loop", Top.idx + 1, TRUE)>>) /\ ConnectionSend(pfd[Top.idx], Top.msg)
      BY <2>2, <2>3
    <2> QED
      BY <1>1, <1>4, <1>6, <2>1, RunOne
  <1> QED
    BY <1>5, <1>6

LEMMA SendAllMultipleEndStack ==
  ASSUME stack \in Seq(FrameType), SendAllMultipleEnd
  PROVE  /\ stack' \in Seq(FrameType)
         /\ IF Top.force /\ ~Top.sent
            THEN Popped /\ ret' = "SEND_FAILED"
            ELSE Replaced(Goes("store", Top.idx, Top.sent)) /\ ret' = ret
  <1>1. stack # <<>> /\ Top \in FrameType /\ "store" \in SendPcs /\ Top.idx \in Nat /\ Top.sent \in BOOLEAN
    BY TopFacts DEF SendAllMultipleEnd, SendPcs, FrameType
  <1>2. /\ [Top EXCEPT !.pc = "store"] = Goes("store", Top.idx, Top.sent)
        /\ Goes("store", Top.idx, Top.sent) \in FrameType
    BY <1>1, GoesFacts
  <1>3. CASE Top.force /\ ~Top.sent
    BY <1>1, <1>3, ReturnOne DEF SendAllMultipleEnd
  <1>4. CASE ~(Top.force /\ ~Top.sent)
    <2>1. Run(<<Goes("store", Top.idx, Top.sent)>>) /\ ret' = ret
      BY <1>2, <1>4 DEF SendAllMultipleEnd
    <2> QED
      BY <1>1, <1>2, <1>4, <2>1, RunOne
  <1> QED
    BY <1>3, <1>4

LEMMA StoreInRingStack ==
  ASSUME stack \in Seq(FrameType), StoreInRing
  PROVE  stack' \in Seq(FrameType) /\ Popped /\ ret' = "OK"
  BY TopFacts, ReturnOne DEF StoreInRing

LEMMA DiscardStack ==
  ASSUME stack \in Seq(FrameType), Discard
  PROVE  stack' \in Seq(FrameType) /\ Popped /\ ret' = "BUFFER_FULL"
  BY TopFacts, ReturnOne DEF Discard

LEMMA ReportOverflowStack ==
  ASSUME stack \in Seq(FrameType), overflow_counter \in Nat, done.reports \in Nat, ReportOverflow
  PROVE  /\ stack' \in Seq(FrameType)
         /\ IF overflow_counter > 0 /\ pfd # <<>> /\ overflow_cnt + 1 < 2
            THEN /\ Pushed(Goes("reported", Top.idx, Top.sent),
                           Send(Overflow(overflow_counter, done.reports + 1), FALSE))
                 /\ ret' = ret
            ELSE Popped /\ ret' = "OK"
  <1>1. stack # <<>> /\ Top \in FrameType /\ "reported" \in SendPcs /\ Top.idx \in Nat /\ Top.sent \in BOOLEAN
    BY TopFacts DEF ReportOverflow, SendPcs, FrameType
  <1>2. /\ [Top EXCEPT !.pc = "reported"] = Goes("reported", Top.idx, Top.sent)
        /\ Goes("reported", Top.idx, Top.sent) \in FrameType
    BY <1>1, GoesFacts
  <1>3. Send(Overflow(overflow_counter, done.reports + 1), FALSE) \in FrameType
    <2>1. Overflow(overflow_counter, done.reports + 1) \in Message
      BY MessageTypes
    <2> QED
      BY <2>1, FrameTypes
  <1>4. CASE overflow_counter > 0 /\ pfd # <<>> /\ overflow_cnt + 1 < 2
    <2>1. /\ Run(<<Goes("reported", Top.idx, Top.sent),
                   Send(Overflow(overflow_counter, done.reports + 1), FALSE)>>)
          /\ ret' = ret
      BY <1>2, <1>4 DEF ReportOverflow
    <2> QED
      BY <1>1, <1>2, <1>3, <1>4, <2>1, RunTwo
  <1>5. CASE ~(overflow_counter > 0 /\ pfd # <<>> /\ overflow_cnt + 1 < 2)
    BY <1>1, <1>5, ReturnOne DEF ReportOverflow
  <1> QED
    BY <1>4, <1>5

LEMMA OverflowReportedStack ==
  ASSUME stack \in Seq(FrameType), OverflowReported
  PROVE  stack' \in Seq(FrameType) /\ Popped /\ ret' = "OK"
  BY TopFacts, ReturnOne DEF OverflowReported

LEMMA CloseSocketStack ==
  ASSUME stack \in Seq(FrameType), CloseSocket
  PROVE  stack' \in Seq(FrameType) /\ Pushed(Send(Info, FALSE), Send(Info, FALSE))
  <1>1. stack # <<>>
    BY TopFacts DEF CloseSocket
  <1>2. Send(Info, FALSE) \in FrameType
    BY MessageTypes, FrameTypes
  <1>3. Run(<<Send(Info, FALSE), Send(Info, FALSE)>>)
    BY DEF CloseSocket, ConnectionInfo
  <1> QED
    BY <1>1, <1>2, <1>3, RunTwo

LEMMA SendRingbufferStack ==
  ASSUME stack \in Seq(FrameType), ring \in Seq(Message), SendRingbuffer
  PROVE  /\ stack' \in Seq(FrameType)
         /\ IF ring = <<>>
            THEN Popped /\ ret' = "OK" /\ state' = "SEND_DIRECT"
            ELSE Pushed(Then("drained"), Send(ring[1], TRUE)) /\ UNCHANGED <<ret, state>>
  <1>1. stack # <<>>
    BY TopFacts DEF SendRingbuffer
  <1>2. CASE ring = <<>>
    BY <1>1, <1>2, ReturnOne DEF SendRingbuffer
  <1>3. CASE ring # <<>>
    <2>1. Head(ring) = ring[1] /\ ring[1] \in Message
      BY <1>3, EmptySeq
    <2>2. Then("drained") \in FrameType /\ Send(ring[1], TRUE) \in FrameType
      BY <2>1, FrameTypes DEF DrainPcs
    <2>3. Run(<<Then("drained"), Send(ring[1], TRUE)>>) /\ UNCHANGED <<ret, state>>
      BY <1>3, <2>1 DEF SendRingbuffer
    <2> QED
      BY <1>1, <1>3, <2>2, <2>3, RunTwo
  <1> QED
    BY <1>2, <1>3

LEMMA SendRingbufferNextStack ==
  ASSUME stack \in Seq(FrameType), SendRingbufferNext
  PROVE  /\ stack' \in Seq(FrameType)
         /\ \/ ret # "OK" /\ Popped /\ UNCHANGED <<ret, state, ring>>
            \/ /\ ret = "OK" /\ ring' = Tail(ring) /\ ring' = <<>> /\ state' = "SEND_DIRECT"
               /\ Popped /\ ret' = "OK"
            \/ /\ ret = "OK" /\ ring' = Tail(ring) /\ ring' # <<>> /\ state' = "SEND_BUFFER"
               /\ Replaced(Drain) /\ ret' = ret
  <1>1. stack # <<>>
    BY TopFacts DEF SendRingbufferNext
  <1>2. CASE ret # "OK"
    <2>1. Return(ret) /\ UNCHANGED <<state, ring>>
      BY <1>2 DEF SendRingbufferNext, SendEntryFailed
    <2> QED
      BY <1>1, <1>2, <2>1, ReturnOne
  <1>3. CASE ret = "OK" /\ ring' = <<>>
    <2>1. Return("OK") /\ ring' = Tail(ring) /\ state' = "SEND_DIRECT"
      BY <1>3 DEF SendRingbufferNext, SendEntryDone
    <2> QED
      BY <1>1, <1>3, <2>1, ReturnOne
  <1>4. CASE ret = "OK" /\ ring' # <<>>
    <2>1. Run(<<Drain>>) /\ ret' = ret /\ ring' = Tail(ring) /\ state' = "SEND_BUFFER"
      BY <1>4 DEF SendRingbufferNext, SendEntryDone
    <2> QED
      BY <1>1, <1>4, <2>1, FrameTypes, RunOne
  <1> QED
    BY <1>2, <1>3, <1>4

LEMMA UserMessageOverflowEndStack ==
  ASSUME stack \in Seq(FrameType), UserMessageOverflowEnd
  PROVE  stack' \in Seq(FrameType) /\ Popped /\ ret' = "OK"
  BY TopFacts, ReturnOne DEF UserMessageOverflowEnd

LEMMA ClientConnectedStack ==
  ASSUME stack \in Seq(FrameType), ClientConnected
  PROVE  /\ stack' \in Seq(FrameType)
         /\ IF Len(pfd) = 1
            THEN Pushed(Then("announce"), Drain) /\ state' = "SEND_BUFFER" /\ ret' = ret
            ELSE Popped /\ ret' = "OK" /\ state' = state
  <1>1. stack # <<>>
    BY TopFacts DEF ClientConnected
  <1>2. CASE Len(pfd) = 1
    <2>1. Run(<<Then("announce"), Drain>>) /\ state' = "SEND_BUFFER" /\ ret' = ret
      BY <1>2 DEF ClientConnected
    <2>2. Then("announce") \in FrameType /\ Drain \in FrameType
      BY FrameTypes DEF EventPcs
    <2> QED
      BY <1>1, <1>2, <2>1, <2>2, RunTwo
  <1>3. CASE Len(pfd) # 1
    BY <1>1, <1>3, ReturnOne DEF ClientConnected
  <1> QED
    BY <1>2, <1>3

LEMMA ClientAnnounceStack ==
  ASSUME stack \in Seq(FrameType), ClientAnnounce
  PROVE  stack' \in Seq(FrameType) /\ Popped /\ ret' = "OK"
  BY TopFacts, ReturnOne DEF ClientAnnounce

--------------------------------------------------------------------------------
(* Which steps change what *)

LEMMA HistoryChanges ==
  ASSUME Next
  PROVE  Discard \/ ReportOverflow \/ UserMessageLog \/ UserMessageOverflow \/ ClientConnect
         \/ (\E md \in Modes : UserMessageLogMode(md)) \/ UNCHANGED done
  BY DEF Next, Step, Event, ClientSend, SendAllMultiple, SendAllMultipleEnd, StoreInRing,
      OverflowReported, CloseSocket, SendRingbuffer, SendRingbufferNext, UserMessageOverflowEnd,
      ClientConnected, ClientAnnounce, ClientConnectFails, ClientMessages, OneSTimer, Exited,
      ClientBreaks, vars

LEMMA RingChanges ==
  ASSUME Next
  PROVE  StoreInRing \/ SendRingbufferNext \/ UNCHANGED ring
  BY DEF Next, Step, Event, ClientSend, SendAllMultiple, SendAllMultipleEnd, Discard, ReportOverflow,
      OverflowReported, CloseSocket, SendRingbuffer, UserMessageOverflowEnd,
      ClientConnected, ClientAnnounce, UserMessageLog, UserMessageOverflow, UserMessageLogMode,
      ClientConnect, ClientConnectFails, ClientMessages, OneSTimer, Exited, ClientBreaks,
      vars, daemonVars

LEMMA DeliveredChanges ==
  ASSUME Next
  PROVE  SendAllMultiple \/ UNCHANGED delivered
  BY DEF Next, Step, Event, ClientSend, SendAllMultipleEnd, StoreInRing, Discard, ReportOverflow,
      OverflowReported, CloseSocket, SendRingbuffer, SendRingbufferNext, UserMessageOverflowEnd,
      ClientConnected, ClientAnnounce, UserMessageLog, UserMessageOverflow, UserMessageLogMode,
      ClientConnect, ClientConnectFails, ClientMessages, OneSTimer, Exited, ClientBreaks, vars

LEMMA OfflineChanges ==
  ASSUME Next
  PROVE  ClientSend \/ UNCHANGED offline
  BY DEF Next, Step, Event, SendAllMultiple, SendAllMultipleEnd, StoreInRing, Discard, ReportOverflow,
      OverflowReported, CloseSocket, SendRingbuffer, SendRingbufferNext, UserMessageOverflowEnd,
      ClientConnected, ClientAnnounce, UserMessageLog, UserMessageOverflow, UserMessageLogMode,
      ClientConnect, ClientConnectFails, ClientMessages, OneSTimer, Exited, ClientBreaks, vars

LEMMA TableChanges ==
  ASSUME Next
  PROVE  CloseSocket \/ ClientConnect \/ UNCHANGED pfd
  BY DEF Next, Step, Event, ClientSend, SendAllMultiple, SendAllMultipleEnd, StoreInRing, Discard,
      ReportOverflow, OverflowReported, SendRingbuffer, SendRingbufferNext, UserMessageOverflowEnd,
      ClientConnected, ClientAnnounce, UserMessageLog, UserMessageOverflow, UserMessageLogMode,
      ClientConnectFails, ClientMessages, OneSTimer, Exited, ClientBreaks, vars, daemonVars

LEMMA CounterChanges ==
  ASSUME Next
  PROVE  Discard \/ ReportOverflow \/ OverflowReported \/ UserMessageOverflowEnd
         \/ UNCHANGED <<overflow_counter, overflow_cnt>>
  BY DEF Next, Step, Event, ClientSend, SendAllMultiple, SendAllMultipleEnd, StoreInRing,
      CloseSocket, SendRingbuffer, SendRingbufferNext,
      ClientConnected, ClientAnnounce, UserMessageLog, UserMessageOverflow, UserMessageLogMode,
      ClientConnect, ClientConnectFails, ClientMessages, OneSTimer, Exited, ClientBreaks,
      vars, daemonVars

LEMMA StateChanges ==
  ASSUME Next
  PROVE  Discard \/ CloseSocket \/ SendRingbuffer \/ SendRingbufferNext \/ ClientConnected
         \/ UNCHANGED state
  BY DEF Next, Step, Event, ClientSend, SendAllMultiple, SendAllMultipleEnd, StoreInRing,
      ReportOverflow, OverflowReported, UserMessageOverflowEnd, ClientAnnounce, UserMessageLog,
      UserMessageOverflow, UserMessageLogMode, ClientConnect, ClientConnectFails, ClientMessages,
      OneSTimer, Exited, ClientBreaks, vars, daemonVars

--------------------------------------------------------------------------------
(* Types *)

\* A call that goes on or calls another keeps its index, or counts it up.
Indexed(s) == \A i \in 1 .. Len(s) : s[i].pc \in {"send", "loop"} => s[i].idx # 0

IndexedFrame(f) == f.pc \in {"send", "loop"} => f.idx # 0

LEMMA IndexedFrames ==
  /\ \A m, b : IndexedFrame(Send(m, b))
  /\ \A c : IndexedFrame(Close(c))
  /\ IndexedFrame(Drain)
  /\ \A pc \in DrainPcs \cup EventPcs : IndexedFrame(Then(pc))
  BY DEF IndexedFrame, Send, Close, Drain, Then, Frame, DrainPcs, EventPcs

LEMMA IndexedReplaced ==
  ASSUME stack \in Seq(FrameType), Indexed(stack), NEW f, Replaced(f), IndexedFrame(f)
  PROVE  Indexed(stack')
  BY DEF Indexed, IndexedFrame, Replaced

LEMMA IndexedPushed ==
  ASSUME stack \in Seq(FrameType), Indexed(stack), NEW f, NEW g, Pushed(f, g),
         IndexedFrame(f), IndexedFrame(g)
  PROVE  Indexed(stack')
  BY DEF Indexed, IndexedFrame, Pushed

LEMMA IndexedPopped ==
  ASSUME stack \in Seq(FrameType), Indexed(stack), Popped
  PROVE  Indexed(stack')
  BY DEF Indexed, Popped

LEMMA StackTyped ==
  ASSUME Typed, Next
  PROVE  stack' \in Seq(FrameType) /\ Indexed(stack')
  <1>1. /\ stack \in Seq(FrameType) /\ ring \in Seq(Message) /\ pfd \in Seq(Conn)
        /\ overflow_counter \in Nat /\ done.reports \in Nat /\ done.logs \in Nat /\ Indexed(stack)
    BY DEF Typed, TypeOK, Indexed, History
  <1>2. ASSUME stack' \in Seq(FrameType), Popped
        PROVE  stack' \in Seq(FrameType) /\ Indexed(stack')
    BY <1>1, <1>2, IndexedPopped
  <1>6. CASE ClientSend
    <2> DEFINE pc == IF Routed /\ (Top.force \/ state = "SEND_DIRECT") THEN "loop" ELSE "store"
    <2>1. Len(stack) \in 1 .. Len(stack) /\ Top = stack[Len(stack)] /\ Top.pc = "send"
      BY <1>1, <1>6, TopFacts DEF ClientSend
    <2>2. IndexedFrame(Goes(pc, Top.idx, Top.sent))
      BY <1>1, <2>1 DEF Indexed, IndexedFrame, Goes
    <2>3. stack' \in Seq(FrameType) /\ Replaced(Goes(pc, Top.idx, Top.sent))
      BY <1>1, <1>6, ClientSendStack
    <2> QED
      BY <1>1, <2>2, <2>3, IndexedReplaced
  <1>7. CASE SendAllMultiple
    <2>1. Len(stack) \in 1 .. Len(stack) /\ Top = stack[Len(stack)] /\ Top.pc = "loop" /\ Top \in FrameType
      BY <1>1, <1>7, TopFacts DEF SendAllMultiple
    <2>2. Top.idx # 0 /\ Top.idx \in Nat
      BY <1>1, <2>1 DEF Indexed, FrameType
    <2>3. \A sent : IndexedFrame(Goes("loop", Top.idx + 1, sent))
      BY <2>2 DEF IndexedFrame, Goes
    <2>4. CASE pfd[Top.idx] \in broken
      <3>1. stack' \in Seq(FrameType) /\ Pushed(Goes("loop", Top.idx + 1, Top.sent), Close(pfd[Top.idx]))
        BY <1>1, <1>7, <2>2, <2>4, SendAllMultipleStack
      <3>2. IndexedFrame(Close(pfd[Top.idx]))
        BY IndexedFrames
      <3> QED
        BY <1>1, <2>3, <3>1, <3>2, IndexedPushed
    <2>5. CASE pfd[Top.idx] \notin broken
      <3>1. stack' \in Seq(FrameType) /\ Replaced(Goes("loop", Top.idx + 1, TRUE))
        BY <1>1, <1>7, <2>2, <2>5, SendAllMultipleStack
      <3>2. IndexedFrame(Goes("loop", Top.idx + 1, TRUE))
        BY <2>3, Zenon
      <3> QED
        BY <1>1, <3>1, <3>2, IndexedReplaced
    <2> QED
      BY <2>4, <2>5
  <1>8. CASE SendAllMultipleEnd
    <2> DEFINE f == Goes("store", Top.idx, Top.sent)
    <2>1. IndexedFrame(f)
      BY DEF IndexedFrame, Goes
    <2>2. stack' \in Seq(FrameType) /\ (Replaced(f) \/ Popped)
      BY <1>1, <1>8, SendAllMultipleEndStack
    <2> HIDE DEF f
    <2> QED
      BY <1>1, <1>2, <2>1, <2>2, IndexedReplaced
  <1>9. CASE StoreInRing
    BY <1>1, <1>2, <1>9, StoreInRingStack
  <1>10. CASE Discard
    BY <1>1, <1>2, <1>10, DiscardStack
  <1>11. CASE ReportOverflow
    <2> DEFINE f == Goes("reported", Top.idx, Top.sent)
               g == Send(Overflow(overflow_counter, done.reports + 1), FALSE)
    <2>1. stack' \in Seq(FrameType) /\ (Pushed(f, g) \/ Popped)
      BY <1>1, <1>11, ReportOverflowStack
    <2>2. IndexedFrame(f)
      BY DEF IndexedFrame, Goes
    <2>3. IndexedFrame(g)
      BY IndexedFrames
    <2> HIDE DEF f, g
    <2> QED
      BY <1>1, <1>2, <2>1, <2>2, <2>3, IndexedPushed
  <1>12. CASE OverflowReported
    BY <1>1, <1>2, <1>12, OverflowReportedStack
  <1>13. CASE CloseSocket
    <2> DEFINE f == Send(Info, FALSE)
    <2>1. stack' \in Seq(FrameType) /\ Pushed(f, f)
      BY <1>1, <1>13, CloseSocketStack
    <2>2. IndexedFrame(f)
      BY IndexedFrames
    <2> HIDE DEF f
    <2> QED
      BY <1>1, <2>1, <2>2, IndexedPushed
  <1>14. CASE SendRingbuffer
    <2> DEFINE f == Then("drained")
               g == Send(ring[1], TRUE)
    <2>1. stack' \in Seq(FrameType) /\ (Pushed(f, g) \/ Popped)
      BY <1>1, <1>14, SendRingbufferStack
    <2>2. IndexedFrame(f) /\ IndexedFrame(g)
      BY IndexedFrames DEF DrainPcs
    <2> HIDE DEF f, g
    <2> QED
      BY <1>1, <1>2, <2>1, <2>2, IndexedPushed
  <1>15. CASE SendRingbufferNext
    <2>1. stack' \in Seq(FrameType) /\ (Replaced(Drain) \/ Popped)
      BY <1>1, <1>15, SendRingbufferNextStack
    <2> QED
      BY <1>1, <1>2, <2>1, IndexedFrames, IndexedReplaced
  <1>16. CASE UserMessageOverflowEnd
    BY <1>1, <1>2, <1>16, UserMessageOverflowEndStack
  <1>17. CASE ClientConnected
    <2> DEFINE f == Then("announce")
    <2>1. stack' \in Seq(FrameType) /\ (Pushed(f, Drain) \/ Popped)
      BY <1>1, <1>17, ClientConnectedStack
    <2>2. IndexedFrame(f) /\ IndexedFrame(Drain)
      BY IndexedFrames DEF EventPcs
    <2> HIDE DEF f
    <2> QED
      BY <1>1, <1>2, <2>1, <2>2, IndexedPushed
  <1>18. CASE ClientAnnounce
    BY <1>1, <1>2, <1>18, ClientAnnounceStack
  <1>19. CASE Event
    <2>1. ASSUME NEW f \in FrameType, IndexedFrame(f), stack' = <<f>>
          PROVE  stack' \in Seq(FrameType) /\ Indexed(stack')
      BY <2>1 DEF Indexed, IndexedFrame
    <2>2. ASSUME NEW f \in FrameType, NEW g \in FrameType, IndexedFrame(f), IndexedFrame(g),
                 stack' = <<f, g>>
          PROVE  stack' \in Seq(FrameType) /\ Indexed(stack')
      BY <2>2 DEF Indexed, IndexedFrame
    <2>3. CASE UserMessageLog
      <3>1. Log(done.logs + 1) \in Message
        BY <1>1, MessageTypes
      <3>2. Send(Log(done.logs + 1), FALSE) \in FrameType /\ IndexedFrame(Send(Log(done.logs + 1), FALSE))
        BY <3>1, FrameTypes, IndexedFrames
      <3> QED
        BY <2>1, <2>3, <3>2 DEF UserMessageLog
    <2>4. CASE UserMessageOverflow
      <3> DEFINE f == Then("userOverflow")
                 m == Overflow(1, done.reports + 1)
      <3>1. m \in Message
        BY <1>1, MessageTypes
      <3>2. stack' = <<f, Send(m, FALSE)>>
        BY <2>4 DEF UserMessageOverflow
      <3> HIDE DEF m
      <3>3. f \in FrameType /\ Send(m, FALSE) \in FrameType /\ IndexedFrame(f) /\ IndexedFrame(Send(m, FALSE))
        BY <3>1, FrameTypes, IndexedFrames DEF EventPcs
      <3> HIDE DEF f
      <3> QED
        BY <2>2, <3>2, <3>3
    <2>5. CASE \E md \in Modes : UserMessageLogMode(md)
      BY <1>1, <2>5 DEF UserMessageLogMode
    <2>6. CASE ClientConnect \/ ClientConnectFails
      <3>1. PICK pc \in EventPcs : stack' = <<Then(pc), Send(Info, FALSE)>>
        BY <2>6 DEF ClientConnect, ClientConnectFails, EventPcs
      <3>2. Send(Info, FALSE) \in FrameType /\ IndexedFrame(Send(Info, FALSE))
        BY FrameTypes, MessageTypes, IndexedFrames
      <3>3. Then(pc) \in FrameType /\ IndexedFrame(Then(pc))
        BY FrameTypes, IndexedFrames
      <3> QED
        BY <2>2, <3>1, <3>2, <3>3
    <2>8. CASE \E c \in Conn : ClientMessages(c)
      <3>1. PICK c \in Conn : stack' = <<Close(c)>>
        BY <2>8 DEF ClientMessages
      <3>2. Close(c) \in FrameType /\ IndexedFrame(Close(c))
        BY ConstAssumption, FrameTypes, IndexedFrames DEF Conn
      <3> QED
        BY <2>1, <3>1, <3>2
    <2>9. CASE OneSTimer
      <3>1. stack' = <<>> \/ stack' = <<Drain>>
        BY <2>9 DEF OneSTimer
      <3>2. stack' = <<>> => stack' \in Seq(FrameType) /\ Indexed(stack')
        BY DEF Indexed
      <3> QED
        BY <2>1, <3>1, <3>2, FrameTypes, IndexedFrames
    <2> QED
      BY <1>19, <2>3, <2>4, <2>5, <2>6, <2>8, <2>9 DEF Event
  <1>20. CASE Exited \/ \E c \in Conn : ClientBreaks(c)
    BY <1>1, <1>20 DEF Exited, ClientBreaks, vars
  <1> QED
    BY <1>6, <1>7, <1>8, <1>9, <1>10, <1>11, <1>12, <1>13, <1>14, <1>15, <1>16, <1>17, <1>18,
       <1>19, <1>20 DEF Next, Step

\* The types of everything else, for the steps that change it.
LEMMA HistoryUpdates ==
  ASSUME NEW d \in History, NEW i \in Nat, NEW j \in Nat, NEW k \in Nat, NEW L \in SUBSET Nat
  PROVE  /\ [d EXCEPT !.discards = i, !.discarded = L] \in History
         /\ [d EXCEPT !.overflows = i, !.reports = j, !.discards = k] \in History
  BY DEF History

LEMMA HistoryStep ==
  ASSUME Typed, Next
  PROVE  done' \in History
  <1>0. done \in History
    BY DEF Typed
  <1>1. stack \in Seq(FrameType) /\ pfd \in Seq(Conn) /\ limit.conns \in 0 .. MaxConns
    BY ConstAssumption DEF Typed, TypeOK, Limit
  <1>2. CASE Discard
    <2> DEFINE lost == IF Top.msg.kind = "log" THEN done.discarded \union {Top.msg.n} ELSE done.discarded
    <2>1. Top.msg.n \in Nat
      BY <1>1, <1>2, TopFacts DEF Discard, FrameType, Message
    <2>2. lost \in SUBSET Nat
      BY <1>0, <2>1 DEF History
    <2>3. done' = [done EXCEPT !.discards = done.discards + 1, !.discarded = lost]
      BY <1>2 DEF Discard
    <2>4. done.discards + 1 \in Nat
      BY <1>0 DEF History
    <2> HIDE DEF lost
    <2> QED
      BY <1>0, <2>2, <2>3, <2>4, HistoryUpdates
  <1>3. CASE ReportOverflow
    <2>1. done' = done \/ done' = [done EXCEPT !.reports = @ + 1]
      BY <1>3 DEF ReportOverflow
    <2> QED
      BY <1>0, <2>1 DEF History
  <1>4. CASE UserMessageLog
    BY <1>0, <1>4 DEF UserMessageLog, History
  <1>5. CASE UserMessageOverflow
    <2>1. done' = [done EXCEPT !.overflows = done.overflows + 1, !.reports = done.reports + 1,
                               !.discards = done.discards + 1]
      BY <1>5 DEF UserMessageOverflow
    <2>2. done.overflows + 1 \in Nat /\ done.reports + 1 \in Nat /\ done.discards + 1 \in Nat
      BY <1>0 DEF History
    <2> QED
      BY <1>0, <2>1, <2>2, HistoryUpdates
  <1>6. CASE \E md \in Modes : UserMessageLogMode(md)
    <2>1. done' = [done EXCEPT !.modes = @ + 1]
      BY <1>6 DEF UserMessageLogMode
    <2> QED
      BY <1>0, <2>1 DEF History
  <1>7. CASE ClientConnect
    <2> DEFINE peak == IF Len(pfd') > done.peak THEN Len(pfd') ELSE done.peak
    <2>1. pfd' = Append(pfd, done.conns + 1) /\ done.conns < limit.conns
      BY <1>7 DEF ClientConnect, RegisterConnection
    <2>2. done.conns + 1 \in 0 .. MaxConns /\ Len(pfd') \in Nat
      BY <1>0, <1>1, <2>1, ConstAssumption DEF History, Conn
    <2>3. peak \in Nat
      BY <1>0, <2>2 DEF History
    <2>4. done' = [done EXCEPT !.conns = done.conns + 1, !.peak = peak]
      BY <1>7 DEF ClientConnect
    <2> HIDE DEF peak
    <2> QED
      BY <1>0, <2>2, <2>3, <2>4 DEF History
  <1>8. CASE UNCHANGED done
    BY <1>0, <1>8
  <1> QED
    BY <1>2, <1>3, <1>4, <1>5, <1>6, <1>7, <1>8, HistoryChanges

LEMMA RingStep ==
  ASSUME Typed, Holding, Next
  PROVE  ring' \in Seq(Message) /\ UsedBy(ring') <= RingMax
  <1>1. ring \in Seq(Message) /\ UsedBy(ring) <= RingMax /\ stack \in Seq(FrameType)
    BY DEF Typed, TypeOK, RingUsed
  <1>2. CASE StoreInRing
    <2>1. Top.msg \in Message
      BY <1>1, <1>2, TopFacts DEF StoreInRing, FrameType
    <2> QED
      BY <1>1, <1>2, <2>1, UsedByAppend DEF StoreInRing, MayAccept, RingUsed
  <1>3. CASE SendRingbufferNext
    <2>1. Len(stack) \in 1 .. Len(stack) /\ stack[Len(stack)].pc = "drained"
      BY <1>1, <1>3, TopFacts DEF SendRingbufferNext
    <2>2. ring # <<>>
      BY <2>1 DEF Holding
    <2>3. ring' = ring \/ ring' = Tail(ring)
      BY <1>1, <1>3, SendRingbufferNextStack
    <2>4. Tail(ring) \in Seq(Message) /\ UsedBy(Tail(ring)) <= RingMax
      <3>1. Tail(ring) \in Seq(Message)
        BY <1>1, <2>2
      <3>2. UsedBy(Tail(ring)) <= UsedBy(ring)
        BY <1>1, <2>2, UsedByTail
      <3>3. UsedBy(Tail(ring)) \in Nat /\ UsedBy(ring) \in Nat
        BY <1>1, <3>1, LogsFinite
      <3> QED
        BY <1>1, <3>1, <3>2, <3>3, ConstAssumption
    <2> QED
      BY <1>1, <2>3, <2>4
  <1>4. CASE UNCHANGED ring
    BY <1>1, <1>4
  <1> QED
    BY <1>2, <1>3, <1>4, RingChanges

LEMMA DeliveredStep ==
  ASSUME Typed, Next
  PROVE  delivered' \in [Conn -> Seq(Message)]
  <1>1. stack \in Seq(FrameType) /\ Indexed(stack) /\ pfd \in Seq(Conn)
    BY DEF Typed, TypeOK, Indexed
  <1>2. delivered \in [Conn -> Seq(Message)]
    BY DEF Typed, TypeOK
  <1>3. CASE SendAllMultiple
    <2>1. /\ Len(stack) \in 1 .. Len(stack) /\ Top = stack[Len(stack)] /\ Top.pc = "loop"
          /\ Top \in FrameType
      BY <1>1, <1>3, TopFacts DEF SendAllMultiple
    <2>2. Top.msg \in Message /\ Top.idx \in Nat /\ Top.idx # 0
      BY <1>1, <2>1 DEF Indexed, FrameType
    <2>3. pfd[Top.idx] \in Conn
      BY <1>1, <1>3, <2>2 DEF SendAllMultiple
    <2>4. \/ delivered' = delivered
          \/ delivered' = [delivered EXCEPT ![pfd[Top.idx]] = Append(delivered[pfd[Top.idx]], Top.msg)]
      BY <1>3 DEF SendAllMultiple, ConnectionSend
    <2>5. Append(delivered[pfd[Top.idx]], Top.msg) \in Seq(Message)
      BY <1>2, <2>2, <2>3
    <2> QED
      BY <1>2, <2>3, <2>4, <2>5
  <1>4. CASE UNCHANGED delivered
    BY <1>2, <1>4
  <1> QED
    BY <1>3, <1>4, DeliveredChanges

LEMMA OfflineStep ==
  ASSUME Typed, Next
  PROVE  offline' \in Seq(Nat)
  <1>1. stack \in Seq(FrameType) /\ offline \in Seq(Nat)
    BY DEF Typed, TypeOK
  <1>2. CASE ClientSend
    <2>1. Top.msg.n \in Nat
      BY <1>1, <1>2, TopFacts DEF ClientSend, FrameType, Message
    <2> QED
      BY <1>1, <1>2, <2>1 DEF ClientSend
  <1>3. CASE UNCHANGED offline
    BY <1>1, <1>3
  <1> QED
    BY <1>2, <1>3, OfflineChanges

LEMMA TableTyped ==
  ASSUME Typed, Next
  PROVE  pfd' \in Seq(Conn) /\ Len(pfd') <= limit.clients
  <1>1. /\ pfd \in Seq(Conn) /\ Len(pfd) <= limit.clients /\ Len(pfd) \in Nat
        /\ limit.clients \in Nat /\ limit.conns \in 0 .. MaxConns /\ done.conns \in Nat
    BY ConstAssumption DEF Typed, TypeOK, Limit, History
  <1>2. CASE CloseSocket
    <2>1. pfd' = DisableFd(pfd, Top.idx)
      BY <1>2 DEF CloseSocket, UnregisterConnection
    <2>2. CASE Contains(pfd, Top.idx)
      <3>1. pfd' \in Seq(Conn) /\ Len(pfd') = Len(pfd) - 1
        BY <1>1, <2>1, <2>2, DisableFdFacts
      <3> QED
        BY <1>1, <3>1
    <2>3. CASE ~Contains(pfd, Top.idx)
      BY <1>1, <2>1, <2>3, NotInTable
    <2> QED
      BY <2>2, <2>3
  <1>3. CASE ClientConnect
    <2>1. pfd' = Append(pfd, done.conns + 1) /\ done.conns < limit.conns /\ Len(pfd) < limit.clients
      BY <1>3 DEF ClientConnect, RegisterConnection
    <2>2. done.conns + 1 \in Conn
      BY <1>1, <2>1, ConstAssumption DEF Conn
    <2> QED
      BY <1>1, <2>1, <2>2
  <1>4. CASE UNCHANGED pfd
    BY <1>1, <1>4
  <1> QED
    BY <1>2, <1>3, <1>4, TableChanges

LEMMA CountersTyped ==
  ASSUME Typed, Reporting, Next
  PROVE  overflow_counter' \in Nat /\ overflow_cnt' \in {0, 1}
  <1>1. overflow_counter \in Nat /\ overflow_cnt \in {0, 1} /\ stack \in Seq(FrameType)
    BY DEF Typed, TypeOK
  <1>2. CASE Discard
    BY <1>1, <1>2 DEF Discard
  <1>3. CASE ReportOverflow
    BY <1>1, <1>3 DEF ReportOverflow
  <1>4. CASE OverflowReported
    <2>1. Len(stack) \in 1 .. Len(stack) /\ stack[Len(stack)].pc = "reported"
      BY <1>1, <1>4, TopFacts DEF OverflowReported
    <2>2. overflow_cnt = 1
      BY <2>1 DEF Reporting
    <2> QED
      BY <1>1, <1>4, <2>2 DEF OverflowReported
  <1>5. CASE UserMessageOverflowEnd
    BY <1>1, <1>5 DEF UserMessageOverflowEnd
  <1>6. CASE UNCHANGED <<overflow_counter, overflow_cnt>>
    BY <1>1, <1>6
  <1> QED
    BY <1>2, <1>3, <1>4, <1>5, <1>6, CounterChanges

LEMMA FlagsTyped ==
  ASSUME Typed, Next
  PROVE  /\ state' \in {"BUFFER", "BUFFER_FULL", "SEND_BUFFER", "SEND_DIRECT"}
         /\ mode' \in Modes
         /\ broken' \subseteq Conn
         /\ connectionState' \in {0, 1}
         /\ ret' \in {"OK", "BUFFER_FULL", "SEND_FAILED"}
         /\ limit' \in Limits
  <1>1. /\ state \in {"BUFFER", "BUFFER_FULL", "SEND_BUFFER", "SEND_DIRECT"}
        /\ mode \in Modes
        /\ broken \subseteq Conn
        /\ connectionState \in {0, 1}
        /\ ret \in {"OK", "BUFFER_FULL", "SEND_FAILED"}
        /\ limit \in Limits
    BY DEF Typed, TypeOK
  <1> QED
    BY <1>1
    DEF Next, Step, Event, ClientSend, SendAllMultiple, SendAllMultipleEnd, StoreInRing, Discard,
        ReportOverflow, OverflowReported, CloseSocket, LogStateOnClose, SendRingbuffer,
        SendRingbufferNext, SendEntryFailed, SendEntryDone, UserMessageOverflowEnd, ClientConnected,
        ClientAnnounce, UserMessageLog, UserMessageOverflow, UserMessageLogMode, ClientConnect,
        ClientConnectFails, ClientMessages, OneSTimer, Exited, ClientBreaks, Return, vars, daemonVars

LEMMA TypedStep ==
  ASSUME Typed, Reporting, Holding, Next
  PROVE  Typed'
  BY StackTyped, HistoryStep, RingStep, DeliveredStep, OfflineStep, TableTyped, CountersTyped, FlagsTyped
  DEF Typed, TypeOK, RingUsed, Indexed, Next

--------------------------------------------------------------------------------
(* Who calls whom *)

\* The running function at another point: f can stand where it stood.
Follows(f) ==
  /\ f.force <=> Top.force
  /\ f.msg = Top.msg
  /\ f.pc \in DrainPcs => Top.pc \in DrainPcs
  /\ f.pc \in EventPcs => Top.pc \in EventPcs
  /\ f.pc \notin SendPcs => Top.pc \notin SendPcs
  /\ f.pc # "close"

\* f may call g.
Calls(f, g) ==
  /\ f.pc \notin {"store", "close", "drain"}
  /\ f.pc = "send" => ~f.force /\ f.msg = Info
  /\ g.force <=> f.pc = "drained"
  /\ g.pc \notin SendPcs => ~g.force /\ g.msg = Info
  /\ g.pc \in DrainPcs => f.pc = "announce"
  /\ g.pc \notin EventPcs
  /\ ~g.force => g.msg.kind # "log"

\* The steps of the call stack: a call returns, goes on, calls another, or an event starts.
Returns == /\ stack # <<>> /\ Popped
           /\ Top.pc # "reported" => UNCHANGED overflow_cnt
GoesOn(f) == /\ stack # <<>> /\ Replaced(f) /\ Follows(f)
             /\ f.pc \in {"loop", "store", "drain"} /\ UNCHANGED overflow_cnt
CallsOn(f, g) ==
  /\ stack # <<>> /\ Pushed(f, g) /\ Follows(f) /\ Calls(f, g)
  /\ f.pc \in {"loop", "reported", "send", "drained", "announce"} /\ g.pc \in {"send", "close", "drain"}
  /\ IF f.pc = "reported" THEN overflow_cnt = 0 /\ overflow_cnt' = 1 ELSE UNCHANGED overflow_cnt
  /\ f.pc = "drained" => ring # <<>> /\ UNCHANGED ring
  /\ g.pc = "close" => f.pc = "loop" /\ \E j \in 1 .. Len(pfd') : pfd'[j] = g.idx
Starts(f) ==
  /\ stack = <<>> /\ stack' = <<f>> /\ UNCHANGED overflow_cnt
  /\ f.pc \in {"send", "close", "drain"} /\ ~f.force /\ (f.pc # "send" => f.msg = Info)
  /\ f.pc = "close" => \E j \in 1 .. Len(pfd') : pfd'[j] = f.idx
StartsWith(f, g) ==
  /\ stack = <<>> /\ stack' = <<f, g>> /\ UNCHANGED overflow_cnt
  /\ f.pc \in EventPcs /\ ~f.force /\ f.msg = Info
  /\ g.pc = "send" /\ ~g.force /\ g.msg.kind # "log"

StackMove == \/ Returns
             \/ \E f \in FrameType : GoesOn(f)
             \/ \E f, g \in FrameType : CallsOn(f, g)
             \/ \E f \in FrameType : Starts(f)
             \/ \E f, g \in FrameType : StartsWith(f, g)
             \/ UNCHANGED <<stack, pfd, overflow_cnt>>

LEMMA ShapePopped ==
  ASSUME stack \in Seq(FrameType), stack # <<>>, Shape, Popped
  PROVE  Shape'
  <1>1. Len(stack) \in Nat /\ Len(stack) >= 1
    BY EmptySeq
  <1>2. ASSUME NEW i \in 1 .. Len(stack')
        PROVE  FrameOK(i)'
    <2>1. i \in 1 .. Len(stack) - 1 /\ Len(stack') = Len(stack) - 1
      BY <1>1 DEF Popped
    <2>2. FrameOK(i)
      BY <1>1, <2>1 DEF Shape
    <2>3. /\ stack'[i] = stack[i]
          /\ i > 1 => stack'[i - 1] = stack[i - 1] /\ stack'[1] = stack[1]
          /\ i < Len(stack) - 1 => stack'[i + 1] = stack[i + 1]
      BY <1>1, <2>1 DEF Popped
    <2> QED
      BY <1>1, <2>1, <2>2, <2>3 DEF FrameOK
  <1> QED
    BY <1>2 DEF Shape

LEMMA ShapeReplaced ==
  ASSUME stack \in Seq(FrameType), stack # <<>>, Shape,
         NEW f, Replaced(f), Follows(f)
  PROVE  Shape'
  <1>1. Len(stack) \in Nat /\ Len(stack) >= 1 /\ Top = stack[Len(stack)] /\ Len(stack') = Len(stack)
    BY EmptySeq DEF Replaced, Top
  <1>2. ASSUME NEW i \in 1 .. Len(stack')
        PROVE  FrameOK(i)'
    <2>1. i \in 1 .. Len(stack) /\ FrameOK(i) /\ FrameOK(Len(stack))
      BY <1>1 DEF Shape
    <2>2. CASE i = Len(stack)
      <3>1. /\ stack'[i] = f
            /\ i > 1 => stack'[i - 1] = stack[i - 1] /\ stack'[1] = stack[1]
        BY <1>1, <2>1, <2>2 DEF Replaced
      <3> QED
        BY <1>1, <2>1, <2>2, <3>1 DEF FrameOK, Follows, DrainPcs, EventPcs, SendPcs
    <2>3. CASE i < Len(stack)
      <3>1. /\ stack'[i] = stack[i]
            /\ i > 1 => stack'[i - 1] = stack[i - 1] /\ stack'[1] = stack[1]
            /\ i + 1 < Len(stack) => stack'[i + 1] = stack[i + 1]
            /\ i + 1 = Len(stack) => stack'[i + 1] = f /\ stack[i + 1] = Top
        BY <1>1, <2>1, <2>3 DEF Replaced
      <3> QED
        BY <1>1, <2>1, <2>3, <3>1 DEF FrameOK, Follows
    <2> QED
      BY <1>1, <2>1, <2>2, <2>3
  <1> QED
    BY <1>2 DEF Shape

LEMMA ShapePushed ==
  ASSUME stack \in Seq(FrameType), stack # <<>>, Shape,
         NEW f, NEW g, Pushed(f, g), Follows(f), Calls(f, g),
         g.pc = "close" => f.pc = "loop" /\ \E j \in 1 .. Len(pfd') : pfd'[j] = g.idx
  PROVE  Shape'
  <1>1. Len(stack) \in Nat /\ Len(stack) >= 1 /\ Top = stack[Len(stack)] /\ Len(stack') = Len(stack) + 1
    BY EmptySeq DEF Pushed, Top
  <1>2. ASSUME NEW i \in 1 .. Len(stack')
        PROVE  FrameOK(i)'
    <2>1. FrameOK(Len(stack)) /\ stack'[Len(stack)] = f /\ stack'[Len(stack) + 1] = g
      BY <1>1 DEF Shape, Pushed
    <2>2. CASE i = Len(stack) + 1
      <3>1. /\ stack'[i] = g /\ stack'[i - 1] = f
            /\ Len(stack) > 1 => stack'[1] = stack[1]
        BY <1>1, <2>1, <2>2 DEF Pushed
      <3>2. f.pc = "announce" => Len(stack) = 1
        BY <1>1, <2>1 DEF FrameOK, Follows, EventPcs
      <3> QED
        BY <1>1, <2>1, <2>2, <3>1, <3>2 DEF FrameOK, Calls, DrainPcs
    <2>3. CASE i = Len(stack)
      <3>1. /\ stack'[i] = f /\ stack'[i + 1] = g
            /\ i > 1 => stack'[i - 1] = stack[i - 1] /\ stack'[1] = stack[1]
        BY <1>1, <2>1, <2>3 DEF Pushed
      <3> QED
        BY <1>1, <2>1, <2>3, <3>1 DEF FrameOK, Follows, Calls, DrainPcs, EventPcs, SendPcs
    <2>4. CASE i < Len(stack)
      <3>1. /\ stack'[i] = stack[i]
            /\ i > 1 => stack'[i - 1] = stack[i - 1] /\ stack'[1] = stack[1]
            /\ i + 1 < Len(stack) => stack'[i + 1] = stack[i + 1]
            /\ i + 1 = Len(stack) => stack'[i + 1] = f /\ stack[i + 1] = Top
        BY <1>1, <2>4 DEF Pushed
      <3>2. FrameOK(i)
        BY <1>1, <2>4 DEF Shape
      <3> QED
        BY <1>1, <2>4, <3>1, <3>2 DEF FrameOK, Follows
    <2> QED
      BY <1>1, <2>2, <2>3, <2>4
  <1> QED
    BY <1>2 DEF Shape

\* An event starts with one call, or with two where the handler goes on after the first.
LEMMA ShapeOne ==
  ASSUME NEW f, stack' = <<f>>, ~f.force, f.pc \notin SendPcs => f.msg = Info,
         f.pc = "close" => \E j \in 1 .. Len(pfd') : pfd'[j] = f.idx
  PROVE  Shape'
  <1>1. Len(stack') = 1 /\ stack'[1] = f
    OBVIOUS
  <1>2. FrameOK(1)'
    BY <1>1 DEF FrameOK
  <1> QED
    BY <1>1, <1>2 DEF Shape

LEMMA ShapeTwo ==
  ASSUME NEW f, NEW g, stack' = <<f, g>>, f.pc \in EventPcs, ~f.force, f.msg = Info,
         g.pc = "send", ~g.force, g.msg.kind # "log"
  PROVE  Shape'
  <1>1. Len(stack') = 2 /\ stack'[1] = f /\ stack'[2] = g
    OBVIOUS
  <1>2. FrameOK(1)'
    BY <1>1 DEF FrameOK, DrainPcs, EventPcs
  <1>3. FrameOK(2)'
    BY <1>1 DEF FrameOK, DrainPcs, EventPcs, SendPcs
  <1> QED
    BY <1>1, <1>2, <1>3 DEF Shape

LEMMA StackMoves ==
  ASSUME Typed, Shape, Next
  PROVE  StackMove
  <1>1. /\ stack \in Seq(FrameType) /\ ring \in Seq(Message) /\ pfd \in Seq(Conn)
        /\ overflow_counter \in Nat /\ done.reports \in Nat /\ done.logs \in Nat /\ Indexed(stack)
    BY DEF Typed, TypeOK, Indexed, History
  <1>2. ASSUME NEW pc, At(pc)
        PROVE  /\ stack # <<>> /\ Len(stack) \in 1 .. Len(stack) /\ Top = stack[Len(stack)]
               /\ Top \in FrameType /\ Top.pc = pc /\ FrameOK(Len(stack))
               /\ pc \notin SendPcs => ~Top.force /\ Top.msg = Info
    <2>1. /\ stack # <<>> /\ Len(stack) \in 1 .. Len(stack) /\ Top = stack[Len(stack)]
          /\ Top \in FrameType /\ Top.pc = pc
      BY <1>1, <1>2, TopFacts
    <2>2. FrameOK(Len(stack))
      BY <2>1 DEF Shape
    <2> QED
      BY <2>1, <2>2 DEF FrameOK
  <1>3. ASSUME NEW pc, At(pc), Popped, pc # "reported" => UNCHANGED overflow_cnt PROVE Returns
    BY <1>2, <1>3 DEF Returns
  <1>4. CASE ClientSend
    <2> DEFINE pc == IF Routed /\ (Top.force \/ state = "SEND_DIRECT") THEN "loop" ELSE "store"
               f == Goes(pc, Top.idx, Top.sent)
    <2>1. stack # <<>> /\ Top.pc = "send" /\ Top \in FrameType
      BY <1>2, <1>4 DEF ClientSend
    <2>2. pc \in {"loop", "store"}
      OBVIOUS
    <2>3. Replaced(f) /\ UNCHANGED overflow_cnt
      BY <1>1, <1>4, ClientSendStack DEF ClientSend, daemonVars
    <2> HIDE DEF pc
    <2>4. Follows(f) /\ f.pc = pc /\ f \in FrameType
      BY <2>1, <2>2 DEF Follows, Goes, DrainPcs, EventPcs, SendPcs, FrameType
    <2> HIDE DEF f
    <2>5. GoesOn(f)
      BY <2>1, <2>2, <2>3, <2>4 DEF GoesOn
    <2> QED
      BY <2>4, <2>5 DEF StackMove
  <1>5. CASE SendAllMultiple
    <2>1. stack # <<>> /\ Top.pc = "loop" /\ Top.idx \in Nat /\ Top.idx # 0 /\ Top \in FrameType
      BY <1>1, <1>2, <1>5 DEF SendAllMultiple, Indexed, FrameType
    <2>2. UNCHANGED <<pfd, overflow_cnt>>
      BY <1>5 DEF SendAllMultiple, daemonVars
    <2>3. CASE pfd[Top.idx] \in broken
      <3> DEFINE f == Goes("loop", Top.idx + 1, Top.sent)
                 g == Close(pfd[Top.idx])
      <3>1. Pushed(f, g)
        BY <1>1, <1>5, <2>1, <2>3, SendAllMultipleStack
      <3>2. Follows(f) /\ f \in FrameType /\ f.pc = "loop"
        BY <2>1 DEF Follows, Goes, DrainPcs, EventPcs, SendPcs, FrameType
      <3>3. g.pc = "close" /\ ~g.force /\ g.msg = Info /\ g.idx = pfd[Top.idx]
        BY DEF Goes, Close, Frame
      <3>4. Top.idx \in 1 .. Len(pfd)
        BY <1>1, <1>5, <2>1 DEF SendAllMultiple
      <3>5. pfd[Top.idx] \in Nat
        BY <1>1, <3>4, ConstAssumption DEF Conn
      <3>6. g \in FrameType
        BY <3>5, FrameTypes
      <3> HIDE DEF f, g
      <3>7. Calls(f, g)
        BY <3>2, <3>3 DEF Calls, DrainPcs, EventPcs, SendPcs, Info
      <3>8. \E j \in 1 .. Len(pfd') : pfd'[j] = g.idx
        BY <2>2, <3>3, <3>4
      <3>9. CallsOn(f, g)
        BY <2>1, <2>2, <3>1, <3>2, <3>3, <3>7, <3>8 DEF CallsOn
      <3> QED
        BY <3>2, <3>6, <3>9 DEF StackMove
    <2>4. CASE pfd[Top.idx] \notin broken
      <3> DEFINE f == Goes("loop", Top.idx + 1, TRUE)
      <3>1. Replaced(f)
        BY <1>1, <1>5, <2>1, <2>4, SendAllMultipleStack
      <3>2. Follows(f) /\ f.pc = "loop"
        BY <2>1 DEF Follows, Goes, DrainPcs, EventPcs, SendPcs
      <3>3. f \in FrameType
        <4>1. Top.idx + 1 \in Nat /\ "loop" \in SendPcs
          BY <2>1 DEF SendPcs
        <4>2. \A sent \in BOOLEAN : Goes("loop", Top.idx + 1, sent) \in FrameType
          BY <2>1, <4>1, GoesFacts
        <4> QED
          BY <4>2, Zenon
      <3> HIDE DEF f
      <3>4. GoesOn(f)
        BY <2>1, <2>2, <3>1, <3>2 DEF GoesOn
      <3> QED
        BY <3>3, <3>4 DEF StackMove
    <2> QED
      BY <2>3, <2>4
  <1>6. CASE SendAllMultipleEnd
    <2> DEFINE f == Goes("store", Top.idx, Top.sent)
    <2>1. stack # <<>> /\ Top.pc = "loop" /\ Top \in FrameType
      BY <1>2, <1>6 DEF SendAllMultipleEnd
    <2>2. Popped \/ Replaced(f)
      BY <1>1, <1>6, SendAllMultipleEndStack
    <2>3. UNCHANGED overflow_cnt
      BY <1>6 DEF SendAllMultipleEnd, daemonVars
    <2>4. Follows(f) /\ f.pc = "store" /\ f \in FrameType
      BY <2>1 DEF Follows, Goes, DrainPcs, EventPcs, SendPcs, FrameType
    <2> HIDE DEF f
    <2> QED
      BY <2>1, <2>2, <2>3, <2>4 DEF StackMove, Returns, GoesOn
  <1>7. CASE StoreInRing
    BY <1>1, <1>3, <1>7, StoreInRingStack DEF StoreInRing, StackMove
  <1>8. CASE Discard
    BY <1>1, <1>3, <1>8, DiscardStack DEF Discard, StackMove
  <1>9. CASE ReportOverflow
    <2> DEFINE f == Goes("reported", Top.idx, Top.sent)
               m == Overflow(overflow_counter, done.reports + 1)
               g == Send(m, FALSE)
    <2>1. stack # <<>> /\ Top.pc = "store" /\ Top \in FrameType
      BY <1>2, <1>9 DEF ReportOverflow
    <2>2. \/ Popped /\ UNCHANGED overflow_cnt
          \/ Pushed(f, g) /\ overflow_cnt' = overflow_cnt + 1 /\ overflow_cnt + 1 < 2
      BY <1>1, <1>9, ReportOverflowStack DEF ReportOverflow
    <2>3. overflow_cnt \in {0, 1}
      BY DEF Typed, TypeOK
    <2>4. Follows(f) /\ f.pc = "reported" /\ f \in FrameType
      BY <2>1 DEF Follows, Goes, DrainPcs, EventPcs, SendPcs, FrameType
    <2>5. m \in Message
      BY <1>1, MessageTypes
    <2>6. g \in FrameType
      <3> HIDE DEF m
      <3> QED
        BY <2>5, FrameTypes
    <2>7. g.pc = "send" /\ ~g.force /\ g.msg.kind = "overflow"
      BY DEF Send, Frame, Overflow
    <2> HIDE DEF f, g
    <2>8. Calls(f, g)
      BY <2>4, <2>7 DEF Calls, DrainPcs, EventPcs, SendPcs
    <2>9. CASE Popped /\ UNCHANGED overflow_cnt
      BY <2>1, <2>9 DEF StackMove, Returns
    <2>10. CASE Pushed(f, g) /\ overflow_cnt' = overflow_cnt + 1 /\ overflow_cnt + 1 < 2
      <3>1. CallsOn(f, g)
        BY <2>1, <2>3, <2>4, <2>7, <2>8, <2>10 DEF CallsOn
      <3> QED
        BY <2>4, <2>6, <3>1 DEF StackMove
    <2> QED
      BY <2>2, <2>9, <2>10
  <1>10. CASE OverflowReported
    BY <1>1, <1>3, <1>10, OverflowReportedStack DEF OverflowReported, StackMove
  <1>11. CASE CloseSocket
    <2> DEFINE f == Send(Info, FALSE)
    <2>1. stack # <<>> /\ Top.pc = "close" /\ ~Top.force /\ Top.msg = Info
      BY <1>2, <1>11 DEF CloseSocket, SendPcs
    <2>2. Pushed(f, f) /\ UNCHANGED overflow_cnt
      BY <1>1, <1>11, CloseSocketStack DEF CloseSocket
    <2>3. f.pc = "send" /\ ~f.force /\ f.msg = Info
      BY DEF Send, Frame
    <2>4. f \in FrameType
      BY FrameTypes, MessageTypes
    <2> HIDE DEF f
    <2>5. Follows(f) /\ Calls(f, f)
      BY <2>1, <2>3 DEF Follows, Calls, DrainPcs, EventPcs, SendPcs, Info
    <2>6. CallsOn(f, f)
      BY <2>1, <2>2, <2>3, <2>5 DEF CallsOn
    <2> QED
      BY <2>4, <2>6 DEF StackMove
  <1>12. CASE SendRingbuffer
    <2> DEFINE f == Then("drained")
               g == Send(ring[1], TRUE)
    <2>1. stack # <<>> /\ Top.pc = "drain" /\ ~Top.force /\ Top.msg = Info
      BY <1>2, <1>12 DEF SendRingbuffer, SendPcs
    <2>2. Popped \/ (Pushed(f, g) /\ ring # <<>>)
      BY <1>1, <1>12, SendRingbufferStack
    <2>3. UNCHANGED <<ring, overflow_cnt>>
      BY <1>12 DEF SendRingbuffer
    <2>4. f.pc = "drained" /\ ~f.force /\ f.msg = Info /\ g.pc = "send" /\ g.force
      BY DEF Then, Send, Frame
    <2>9. f \in FrameType
      BY FrameTypes DEF DrainPcs
    <2>5. f \in FrameType /\ (ring # <<>> => g \in FrameType)
      <3>1. ring # <<>> => ring[1] \in Message
        BY <1>1, EmptySeq
      <3> QED
        BY <2>9, <3>1, FrameTypes
    <2> HIDE DEF f, g
    <2>6. Follows(f) /\ Calls(f, g)
      BY <2>1, <2>4 DEF Follows, Calls, DrainPcs, EventPcs, SendPcs
    <2>7. CASE Popped
      BY <2>1, <2>3, <2>7 DEF StackMove, Returns
    <2>8. CASE Pushed(f, g) /\ ring # <<>>
      <3>1. CallsOn(f, g)
        BY <2>1, <2>3, <2>4, <2>6, <2>8 DEF CallsOn
      <3> QED
        BY <2>5, <2>8, <3>1 DEF StackMove
    <2> QED
      BY <2>2, <2>7, <2>8
  <1>13. CASE SendRingbufferNext
    <2>1. stack # <<>> /\ Top.pc = "drained" /\ ~Top.force /\ Top.msg = Info
      BY <1>2, <1>13 DEF SendRingbufferNext, SendPcs
    <2>2. Popped \/ Replaced(Drain)
      BY <1>1, <1>13, SendRingbufferNextStack
    <2>3. Follows(Drain) /\ Drain.pc = "drain" /\ Drain \in FrameType
      BY <2>1, FrameTypes DEF Follows, Drain, Frame, DrainPcs, EventPcs, SendPcs
    <2>4. UNCHANGED overflow_cnt
      BY <1>13 DEF SendRingbufferNext
    <2> QED
      BY <2>1, <2>2, <2>3, <2>4 DEF StackMove, Returns, GoesOn
  <1>14. CASE UserMessageOverflowEnd
    BY <1>1, <1>3, <1>14, UserMessageOverflowEndStack DEF UserMessageOverflowEnd, StackMove
  <1>15. CASE ClientConnected
    <2> DEFINE f == Then("announce")
    <2>1. stack # <<>> /\ Top.pc = "connected" /\ ~Top.force /\ Top.msg = Info
      BY <1>2, <1>15 DEF ClientConnected, SendPcs
    <2>2. (Popped \/ Pushed(f, Drain)) /\ UNCHANGED overflow_cnt
      BY <1>1, <1>15, ClientConnectedStack DEF ClientConnected
    <2>3. f.pc = "announce" /\ ~f.force /\ f.msg = Info
      BY DEF Then, Frame
    <2>4. Drain.pc = "drain" /\ ~Drain.force /\ Drain.msg = Info
      BY DEF Drain, Frame
    <2>5. f \in FrameType /\ Drain \in FrameType
      BY FrameTypes DEF EventPcs
    <2> HIDE DEF f
    <2>6. Follows(f) /\ Calls(f, Drain)
      BY <2>1, <2>3, <2>4 DEF Follows, Calls, DrainPcs, EventPcs, SendPcs, Info
    <2>7. CASE Popped
      BY <2>1, <2>2, <2>7 DEF StackMove, Returns
    <2>8. CASE Pushed(f, Drain)
      <3>1. CallsOn(f, Drain)
        BY <2>1, <2>2, <2>3, <2>4, <2>6, <2>8 DEF CallsOn
      <3> QED
        BY <2>5, <3>1 DEF StackMove
    <2> QED
      BY <2>2, <2>7, <2>8
  <1>16. CASE ClientAnnounce
    BY <1>1, <1>3, <1>16, ClientAnnounceStack DEF ClientAnnounce, StackMove
  <1>17. CASE Event
    <2>1. CASE UserMessageLog
      <3> DEFINE m == Log(done.logs + 1)
                 f == Send(m, FALSE)
      <3>1. stack = <<>> /\ stack' = <<f>> /\ UNCHANGED overflow_cnt
        BY <2>1 DEF UserMessageLog, Idle, daemonVars
      <3>2. m \in Message
        BY <1>1, MessageTypes
      <3> HIDE DEF m
      <3>3. f.pc = "send" /\ ~f.force
        BY DEF Send, Frame
      <3>4. f \in FrameType
        BY <3>2, FrameTypes
      <3> HIDE DEF f
      <3> QED
        BY <3>1, <3>3, <3>4 DEF StackMove, Starts
    <2>2. CASE UserMessageOverflow
      <3> DEFINE m == Overflow(1, done.reports + 1)
                 f == Then("userOverflow")
                 g == Send(m, FALSE)
      <3>1. stack = <<>> /\ stack' = <<f, g>> /\ UNCHANGED overflow_cnt
        BY <2>2 DEF UserMessageOverflow, Idle, daemonVars
      <3>2. m \in Message /\ m.kind = "overflow"
        BY <1>1, MessageTypes DEF Overflow
      <3> HIDE DEF m
      <3>3. f.pc = "userOverflow" /\ ~f.force /\ f.msg = Info /\ g.pc = "send" /\ ~g.force /\ g.msg = m
        BY DEF Send, Then, Frame
      <3>4. f \in FrameType /\ g \in FrameType
        BY <3>2, FrameTypes DEF EventPcs
      <3> HIDE DEF f, g
      <3>5. StartsWith(f, g)
        BY <3>1, <3>2, <3>3 DEF StartsWith, EventPcs
      <3> QED
        BY <3>4, <3>5 DEF StackMove
    <2>3. CASE \E md \in Modes : UserMessageLogMode(md)
      BY <2>3 DEF UserMessageLogMode, StackMove
    <2>4. CASE ClientConnect \/ ClientConnectFails
      <3>1. PICK pc \in {"connected", "exit"} : stack' = <<Then(pc), Send(Info, FALSE)>>
        BY <2>4 DEF ClientConnect, ClientConnectFails
      <3>2. stack = <<>> /\ UNCHANGED overflow_cnt
        BY <2>4 DEF ClientConnect, ClientConnectFails, Idle, daemonVars
      <3> DEFINE f == Then(pc)
                 g == Send(Info, FALSE)
      <3>3. f.pc = pc /\ ~f.force /\ f.msg = Info /\ g.pc = "send" /\ ~g.force /\ g.msg.kind = "info"
        BY DEF Send, Then, Frame, Info
      <3>4. f \in FrameType /\ g \in FrameType
        BY FrameTypes, MessageTypes DEF EventPcs
      <3> HIDE DEF f, g
      <3>5. stack' = <<f, g>>
        BY <3>1 DEF f, g
      <3>6. StartsWith(f, g)
        BY <3>2, <3>3, <3>5 DEF StartsWith, EventPcs
      <3> QED
        BY <3>4, <3>6 DEF StackMove
    <2>5. CASE \E c \in Conn : ClientMessages(c)
      <3>1. PICK c \in Conn : ClientMessages(c)
        BY <2>5
      <3> DEFINE f == Close(c)
      <3>2. /\ stack = <<>> /\ stack' = <<f>> /\ UNCHANGED <<pfd, overflow_cnt>>
            /\ \E j \in 1 .. Len(pfd) : pfd[j] = c
        BY <3>1 DEF ClientMessages, daemonVars, Contains, Idle
      <3>3. f.pc = "close" /\ ~f.force /\ f.msg = Info /\ f.idx = c
        BY DEF Close, Frame
      <3>4. f \in FrameType
        BY ConstAssumption, FrameTypes DEF Conn
      <3> HIDE DEF f
      <3>5. Starts(f)
        BY <3>2, <3>3 DEF Starts
      <3> QED
        BY <3>4, <3>5 DEF StackMove
    <2>6. CASE OneSTimer
      <3>1. stack = <<>> /\ (stack' = <<>> \/ stack' = <<Drain>>) /\ UNCHANGED <<pfd, overflow_cnt>>
        BY <2>6 DEF OneSTimer, Idle, daemonVars
      <3>2. Drain.pc = "drain" /\ ~Drain.force /\ Drain.msg = Info
        BY DEF Drain, Frame
      <3>3. stack' = <<Drain>> => Starts(Drain)
        BY <3>1, <3>2 DEF Starts
      <3> QED
        BY <3>1, <3>3, FrameTypes DEF StackMove
    <2> QED
      BY <1>17, <2>1, <2>2, <2>3, <2>4, <2>5, <2>6 DEF Event
  <1>18. CASE Exited \/ \E c \in Conn : ClientBreaks(c)
    BY <1>18 DEF Exited, ClientBreaks, vars, daemonVars, StackMove
  <1> QED
    BY <1>4, <1>5, <1>6, <1>7, <1>8, <1>9, <1>10, <1>11, <1>12, <1>13, <1>14, <1>15, <1>16, <1>17,
       <1>18 DEF Next, Step

LEMMA ShapeStep ==
  ASSUME Typed, Shape, StackMove
  PROVE  Shape'
  <1>1. stack \in Seq(FrameType)
    BY DEF Typed, TypeOK
  <1>2. CASE Returns
    BY <1>1, <1>2, ShapePopped DEF Returns
  <1>3. ASSUME NEW f \in FrameType, GoesOn(f) PROVE Shape'
    BY <1>1, <1>3, ShapeReplaced DEF GoesOn
  <1>4. ASSUME NEW f \in FrameType, NEW g \in FrameType, CallsOn(f, g) PROVE Shape'
    BY <1>1, <1>4, ShapePushed DEF CallsOn
  <1>5. ASSUME NEW f \in FrameType, Starts(f) PROVE Shape'
    BY <1>5, ShapeOne DEF Starts, SendPcs
  <1>6. ASSUME NEW f \in FrameType, NEW g \in FrameType, StartsWith(f, g) PROVE Shape'
    BY <1>6, ShapeTwo DEF StartsWith
  <1>7. CASE UNCHANGED <<stack, pfd>>
    BY <1>7 DEF Shape, FrameOK
  <1> QED
    BY <1>2, <1>3, <1>4, <1>5, <1>6, <1>7 DEF StackMove

LEMMA ReportingStep ==
  ASSUME Typed, Reporting, StackMove
  PROVE  Reporting'
  <1>1. stack \in Seq(FrameType) /\ Len(stack) \in Nat /\ (stack # <<>> => Len(stack) >= 1)
    BY EmptySeq DEF Typed, TypeOK
  <1>2. CASE Returns
    <2>1. Len(stack') = Len(stack) - 1 /\ \A i \in 1 .. Len(stack) - 1 : stack'[i] = stack[i]
      BY <1>2 DEF Returns, Popped
    <2>2. Top = stack[Len(stack)] /\ Len(stack) \in 1 .. Len(stack)
      BY <1>1, <1>2 DEF Returns, Top
    <2> QED
      BY <1>1, <1>2, <2>1, <2>2 DEF Returns, Reporting
  <1>3. ASSUME NEW f \in FrameType, GoesOn(f) PROVE Reporting'
    BY <1>1, <1>3 DEF GoesOn, Replaced, Reporting
  <1>4. ASSUME NEW f \in FrameType, NEW g \in FrameType, CallsOn(f, g) PROVE Reporting'
    BY <1>1, <1>4 DEF CallsOn, Pushed, Reporting
  <1>5. ASSUME NEW f \in FrameType, Starts(f) PROVE Reporting'
    BY <1>5 DEF Starts, Reporting
  <1>6. ASSUME NEW f \in FrameType, NEW g \in FrameType, StartsWith(f, g) PROVE Reporting'
    BY <1>6 DEF StartsWith, Reporting, EventPcs
  <1>7. CASE UNCHANGED <<stack, overflow_cnt>>
    BY <1>7 DEF Reporting
  <1> QED
    BY <1>2, <1>3, <1>4, <1>5, <1>6, <1>7 DEF StackMove

--------------------------------------------------------------------------------
(* The history, the table and the state *)

LEMMA HistoryFields ==
  ASSUME Typed, Next
  PROVE  /\ \/ ClientConnect
            \/ done'.conns = done.conns /\ done'.peak = done.peak
         /\ UserMessageLog \/ done'.logs = done.logs
         /\ \/ \E md \in Modes : UserMessageLogMode(md)
            \/ done'.modes = done.modes /\ mode' = mode
         /\ \/ Discard
            \/ done'.discarded = done.discarded
  <1>1. done \in History
    BY DEF Typed
  <1>2. \/ \E md \in Modes : UserMessageLogMode(md)
        \/ mode' = mode
    BY DEF Next, Step, Event, ClientSend, SendAllMultiple, SendAllMultipleEnd, StoreInRing, Discard,
      ReportOverflow, OverflowReported, CloseSocket, SendRingbuffer, SendRingbufferNext,
      UserMessageOverflowEnd, ClientConnected, ClientAnnounce, UserMessageLog, UserMessageOverflow,
      ClientConnect, ClientConnectFails, ClientMessages, OneSTimer, Exited, ClientBreaks,
      vars, daemonVars
  <1>3. CASE Discard
    <2>1. PICK x, y : done' = [done EXCEPT !.discards = x, !.discarded = y]
      BY <1>3 DEF Discard
    <2> QED
      BY <1>1, <1>2, <1>3, <2>1 DEF History
  <1>4. CASE ReportOverflow
    <2>1. done' = done \/ done' = [done EXCEPT !.reports = @ + 1]
      BY <1>4 DEF ReportOverflow
    <2> QED
      BY <1>1, <1>2, <2>1 DEF History
  <1>5. CASE UserMessageLog
    <2>1. done' = [done EXCEPT !.logs = @ + 1]
      BY <1>5 DEF UserMessageLog
    <2> QED
      BY <1>1, <1>2, <1>5, <2>1 DEF History
  <1>6. CASE UserMessageOverflow
    <2>1. PICK x, y, z : done' = [done EXCEPT !.overflows = x, !.reports = y, !.discards = z]
      BY <1>6 DEF UserMessageOverflow
    <2> QED
      BY <1>1, <1>2, <2>1 DEF History
  <1>7. CASE \E md \in Modes : UserMessageLogMode(md)
    <2>1. done' = [done EXCEPT !.modes = @ + 1]
      BY <1>7 DEF UserMessageLogMode
    <2> QED
      BY <1>1, <1>7, <2>1 DEF History
  <1>8. CASE ClientConnect
    <2>1. PICK x, y : done' = [done EXCEPT !.conns = x, !.peak = y]
      BY <1>8 DEF ClientConnect
    <2> QED
      BY <1>1, <1>2, <1>8, <2>1 DEF History
  <1>9. CASE UNCHANGED done
    BY <1>2, <1>9
  <1> QED
    BY <1>3, <1>4, <1>5, <1>6, <1>7, <1>8, <1>9, HistoryChanges

\* While the ring is being sent there is nothing below but the end of the connect event.
LEMMA DrainPlace ==
  ASSUME stack \in Seq(FrameType), Shape, NEW i \in 1 .. Len(stack), stack[i].pc \in DrainPcs
  PROVE  /\ i = 1 \/ (i = 2 /\ stack[1].pc = "announce")
         /\ \A j \in 1 .. Len(stack) : stack[j].pc \in DrainPcs => j = i
         /\ \A j \in 1 .. Len(stack) : stack[j].force => j = i + 1
  <1>1. \A j \in 1 .. Len(stack) : FrameOK(j)
    BY DEF Shape
  <1>2. \A j \in 1 .. Len(stack) : stack[j].pc \in DrainPcs => j = 1 \/ (j = 2 /\ stack[1].pc = "announce")
    BY <1>1 DEF FrameOK
  <1>3. \A j \in 1 .. Len(stack) : stack[j].pc \in DrainPcs => j = i
    BY <1>2 DEF DrainPcs
  <1>4. \A j \in 1 .. Len(stack) : stack[j].force => j > 1 /\ stack[j - 1].pc = "drained"
    BY <1>1 DEF FrameOK
  <1>5. \A j \in 1 .. Len(stack) : stack[j].force => j = i + 1
    BY <1>3, <1>4 DEF DrainPcs
  <1> QED
    BY <1>2, <1>3, <1>5

LEMMA HoldingStep ==
  ASSUME Typed, Shape, Holding, Next
  PROVE  Holding'
  <1>1. stack \in Seq(FrameType) /\ Len(stack) \in Nat /\ (stack # <<>> => Len(stack) >= 1)
    BY EmptySeq DEF Typed, TypeOK
  <1>2. ring \in Seq(Message)
    BY DEF Typed, TypeOK
  <1>3. CASE SendRingbufferNext
    <2>1. Len(stack) \in 1 .. Len(stack) /\ stack[Len(stack)].pc = "drained"
      BY <1>1, <1>3, TopFacts DEF SendRingbufferNext
    <2>2. \A j \in 1 .. Len(stack) : stack[j].pc = "drained" => j = Len(stack)
      BY <1>1, <2>1, DrainPlace DEF DrainPcs
    <2>3. Popped \/ ring' # <<>>
      BY <1>1, <1>3, SendRingbufferNextStack
    <2> QED
      BY <1>1, <2>1, <2>2, <2>3 DEF Holding, Popped
  <1>4. CASE ring' = ring \/ ring' # <<>>
    <2>1. StackMove
      BY StackMoves
    <2>2. CASE Returns
      BY <1>1, <1>4, <2>2 DEF Returns, Popped, Holding
    <2>3. ASSUME NEW f \in FrameType, GoesOn(f) PROVE Holding'
      BY <1>1, <1>4, <2>3 DEF GoesOn, Replaced, Holding
    <2>4. ASSUME NEW f \in FrameType, NEW g \in FrameType, CallsOn(f, g) PROVE Holding'
      BY <1>1, <1>4, <2>4 DEF CallsOn, Pushed, Holding
    <2>5. ASSUME NEW f \in FrameType, Starts(f) PROVE Holding'
      BY <2>5 DEF Starts, Holding
    <2>6. ASSUME NEW f \in FrameType, NEW g \in FrameType, StartsWith(f, g) PROVE Holding'
      BY <2>6 DEF StartsWith, Holding, EventPcs
    <2>7. CASE UNCHANGED stack
      BY <1>4, <2>7 DEF Holding
    <2> QED
      BY <2>1, <2>2, <2>3, <2>4, <2>5, <2>6, <2>7 DEF StackMove
  <1>5. CASE StoreInRing
    <2>1. ring' = Append(ring, Top.msg)
      BY <1>5 DEF StoreInRing
    <2>2. ring' # <<>>
      BY <1>2, <2>1
    <2> QED
      BY <1>4, <2>2
  <1> QED
    BY <1>3, <1>4, <1>5, RingChanges

\* A client that leaves: the connections behind it move up.
LEMMA CloseTable ==
  ASSUME pfd \in Seq(Conn), CloseSocket
  PROVE  \/ pfd' = pfd
         \/ /\ pfd' \in Seq(Conn) /\ Len(pfd') = Len(pfd) - 1
            /\ \E at \in 1 .. Len(pfd) :
                 /\ pfd[at] = Top.idx
                 /\ \A i \in 1 .. Len(pfd) - 1 : pfd'[i] = IF i < at THEN pfd[i] ELSE pfd[i + 1]
  <1> DEFINE c == Top.idx
             d == DisableFd(pfd, c)
  <1>1. pfd' = d
    BY DEF CloseSocket, UnregisterConnection
  <1> HIDE DEF c
  <1>2. CASE ~Contains(pfd, c)
    BY <1>1, <1>2, NotInTable
  <1>3. CASE Contains(pfd, c)
    <2>1. /\ d \in Seq(Conn) /\ Len(d) = Len(pfd) - 1
          /\ \E at \in 1 .. Len(pfd) :
               /\ pfd[at] = c
               /\ \A i \in 1 .. Len(pfd) - 1 : d[i] = IF i < at THEN pfd[i] ELSE pfd[i + 1]
      BY <1>3, DisableFdFacts
    <2> HIDE DEF d
    <2> QED
      BY <1>1, <2>1 DEF c
  <1> QED
    BY <1>2, <1>3

LEMMA TableStep ==
  ASSUME Typed, Table, Next
  PROVE  Table'
  <1>1. pfd \in Seq(Conn) /\ Len(pfd) \in Nat /\ done.conns \in 0 .. MaxConns /\ done.peak \in Nat
    BY DEF Typed, TypeOK, History
  <1>2. delivered \in [Conn -> Seq(Message)]
    BY DEF Typed, TypeOK
  <1>9. \A i \in 1 .. Len(pfd) : pfd[i] \in Conn
    BY <1>1
  <1>3. \A i \in 1 .. Len(pfd) : pfd[i] \in Int
    BY <1>9 DEF Conn
  <1>4. CASE CloseSocket
    <2>1. UNCHANGED <<delivered, done>>
      BY <1>4 DEF CloseSocket
    <2>2. CASE pfd' = pfd
      BY <2>1, <2>2 DEF Table
    <2>3. CASE pfd' # pfd
      <3>1. /\ Len(pfd') = Len(pfd) - 1
            /\ \E at \in 1 .. Len(pfd) :
                 /\ pfd[at] = Top.idx
                 /\ \A i \in 1 .. Len(pfd) - 1 : pfd'[i] = IF i < at THEN pfd[i] ELSE pfd[i + 1]
        BY <1>1, <1>4, <2>3, CloseTable
      <3>2. PICK at \in 1 .. Len(pfd) :
                 \A i \in 1 .. Len(pfd) - 1 : pfd'[i] = IF i < at THEN pfd[i] ELSE pfd[i + 1]
        BY <3>1
      <3>3. \A i \in 1 .. Len(pfd') : pfd'[i] <= done.conns
        BY <1>1, <3>1, <3>2 DEF Table
      <3>4. \A i, j \in 1 .. Len(pfd') : pfd'[i] = pfd'[j] => i = j
        <4> TAKE i, j \in 1 .. Len(pfd')
        <4>1. Len(pfd) \in Nat /\ i \in 1 .. Len(pfd) - 1 /\ j \in 1 .. Len(pfd) - 1
          BY <1>1, <3>1
        <4>2. PICK k \in 1 .. Len(pfd) : pfd'[i] = pfd[k] /\ k = IF i < at THEN i ELSE i + 1
          BY <3>2, <4>1
        <4>3. PICK l \in 1 .. Len(pfd) : pfd'[j] = pfd[l] /\ l = IF j < at THEN j ELSE j + 1
          BY <3>2, <4>1
        <4>4. pfd'[i] = pfd'[j] => k = l
          BY <4>2, <4>3 DEF Table
        <4>5. k = l => i = j
          BY <4>1, <4>2, <4>3
        <4> QED
          BY <4>4, <4>5
      <3> QED
        BY <1>1, <2>1, <3>1, <3>3, <3>4 DEF Table
    <2> QED
      BY <2>2, <2>3
  <1>5. CASE ClientConnect
    <2> DEFINE peak == IF Len(pfd') > done.peak THEN Len(pfd') ELSE done.peak
    <2>1. pfd' = Append(pfd, done.conns + 1) /\ UNCHANGED delivered
      BY <1>5 DEF ClientConnect, RegisterConnection
    <2>2. done' = [done EXCEPT !.conns = done.conns + 1, !.peak = peak]
      BY <1>5 DEF ClientConnect
    <2>3. done'.conns = done.conns + 1 /\ done'.peak = peak
      <3> HIDE DEF peak
      <3> QED
        BY <2>2 DEF Typed, History
    <2>4. /\ Len(pfd') = Len(pfd) + 1 /\ pfd'[Len(pfd) + 1] = done.conns + 1
          /\ \A i \in 1 .. Len(pfd) : pfd'[i] = pfd[i]
      BY <1>1, <2>1
    <2>5. Len(pfd') <= done'.peak
      BY <1>1, <2>3, <2>4
    <2>6. \A i \in 1 .. Len(pfd') : pfd'[i] <= done'.conns
      BY <1>1, <1>3, <2>3, <2>4 DEF Table
    <2>7. \A i, j \in 1 .. Len(pfd') : pfd'[i] = pfd'[j] => i = j
      BY <1>1, <1>3, <2>4 DEF Table
    <2>8. \A c \in Conn : c > done'.conns => delivered'[c] = <<>>
      BY <1>1, <2>1, <2>3 DEF Table, Conn
    <2> QED
      BY <2>5, <2>6, <2>7, <2>8 DEF Table
  <1>6. CASE UNCHANGED pfd /\ done'.conns = done.conns /\ done'.peak = done.peak
    <2>1. CASE UNCHANGED delivered
      BY <1>6, <2>1 DEF Table
    <2>2. CASE SendAllMultiple
      <3>1. /\ Len(stack) \in 1 .. Len(stack) /\ Top = stack[Len(stack)] /\ Top.pc = "loop"
            /\ Top \in FrameType
        BY <2>2, TopFacts DEF SendAllMultiple, Typed, TypeOK
      <3>2. Top.idx \in Nat /\ Top.idx # 0
        BY <3>1 DEF Typed, FrameType
      <3>3. Top.idx \in 1 .. Len(pfd)
        BY <1>1, <2>2, <3>2 DEF SendAllMultiple
      <3>4. pfd[Top.idx] <= done.conns /\ pfd[Top.idx] \in Conn
        BY <1>1, <3>3 DEF Table
      <3>5. \/ delivered' = delivered
            \/ delivered' = [delivered EXCEPT ![pfd[Top.idx]] = Append(delivered[pfd[Top.idx]], Top.msg)]
        BY <2>2 DEF SendAllMultiple, ConnectionSend
      <3>6. \A c \in Conn : c > done.conns => delivered'[c] = delivered[c]
        <4> DEFINE b == pfd[Top.idx]
                   t == Append(delivered[pfd[Top.idx]], Top.msg)
        <4>1. b <= done.conns /\ (delivered' = delivered \/ delivered' = [delivered EXCEPT ![b] = t])
          BY <3>4, <3>5
        <4>2. DOMAIN delivered = Conn
          BY <1>2
        <4> HIDE DEF b, t
        <4>3. \A c \in Conn : c # b => delivered'[c] = delivered[c]
          BY <4>1, <4>2
        <4>4. \A c \in Conn : c > done.conns => c # b
          BY <1>1, <4>1 DEF Conn
        <4> QED
          BY <4>3, <4>4
      <3> QED
        BY <1>6, <3>6 DEF Table
    <2> QED
      BY <2>1, <2>2, DeliveredChanges
  <1> QED
    BY <1>4, <1>5, <1>6, TableChanges, HistoryFields

LEMMA DirectStep ==
  ASSUME Typed, Direct, Next
  PROVE  Direct'
  <1>1. stack \in Seq(FrameType) /\ ring \in Seq(Message)
    BY DEF Typed, TypeOK
  <1>2. CASE SendRingbufferNext
    BY <1>1, <1>2, SendRingbufferNextStack DEF Direct
  <1>3. CASE SendRingbuffer
    BY <1>1, <1>3, SendRingbufferStack DEF Direct, SendRingbuffer
  <1>4. CASE StoreInRing
    BY <1>4 DEF StoreInRing, Buffering, Direct
  <1>5. CASE UNCHANGED <<ring, state>>
    BY <1>5 DEF Direct
  <1>6. CASE Discard
    BY <1>6 DEF Discard, Direct
  <1>7. CASE CloseSocket
    BY <1>7 DEF CloseSocket, LogStateOnClose, Direct
  <1>8. CASE ClientConnected
    BY <1>8 DEF ClientConnected, Direct
  <1> QED
    BY <1>2, <1>3, <1>4, <1>5, <1>6, <1>7, <1>8, RingChanges, StateChanges

\* Which step the innermost call takes.
LEMMA Dispatch ==
  ASSUME Next, stack # <<>>
  PROVE  \/ At("send") /\ ClientSend
         \/ At("loop") /\ (SendAllMultiple \/ SendAllMultipleEnd)
         \/ At("store") /\ (StoreInRing \/ Discard \/ ReportOverflow)
         \/ At("reported") /\ OverflowReported
         \/ At("close") /\ CloseSocket
         \/ At("drain") /\ SendRingbuffer
         \/ At("drained") /\ SendRingbufferNext
         \/ At("userOverflow") /\ UserMessageOverflowEnd
         \/ At("connected") /\ ClientConnected
         \/ At("announce") /\ ClientAnnounce
         \/ UNCHANGED <<daemonVars, stack, ret, delivered, offline, done>>
  <1>1. CASE Step
    BY <1>1 DEF Step, ClientSend, SendAllMultiple, SendAllMultipleEnd, StoreInRing, Discard,
      ReportOverflow, OverflowReported, CloseSocket, SendRingbuffer, SendRingbufferNext,
      UserMessageOverflowEnd, ClientConnected, ClientAnnounce
  <1>2. CASE Event
    BY <1>2 DEF Event, UserMessageLog, UserMessageOverflow, UserMessageLogMode, ClientConnect,
      ClientConnectFails, ClientMessages, OneSTimer, Idle
  <1>3. CASE Exited
    BY <1>3 DEF Exited, vars
  <1>4. CASE \E c \in Conn : ClientBreaks(c)
    BY <1>4 DEF ClientBreaks
  <1> QED
    BY <1>1, <1>2, <1>3, <1>4 DEF Next

LEMMA StackSizes ==
  ASSUME Typed
  PROVE  Len(stack) \in Nat /\ (stack = <<>> \/ Len(stack) = 1 \/ Len(stack) > 1)
  <1>1. \A n \in Nat : n = 0 \/ n = 1 \/ n > 1
    OBVIOUS
  <1>2. Len(stack) \in Nat /\ (Len(stack) = 0 => stack = <<>>)
    BY EmptySeq DEF Typed, TypeOK
  <1> QED
    BY <1>1, <1>2, Zenon

\* The outermost call waits while another one runs.
LEMMA BaseKept ==
  ASSUME Typed, StackMove, Len(stack) > 1
  PROVE  Len(stack') >= 1 /\ stack' # <<>> /\ stack'[1] = stack[1]
  <1>1. stack \in Seq(FrameType) /\ Len(stack) \in Nat /\ stack # <<>>
    BY DEF Typed, TypeOK
  <1>2. CASE Returns
    <2>1. Len(stack') >= 1 /\ stack'[1] = stack[1]
      BY <1>1, <1>2 DEF Returns, Popped
    <2> QED
      BY <2>1
  <1>3. ASSUME NEW f, Replaced(f) PROVE Len(stack') >= 1 /\ stack'[1] = stack[1]
    BY <1>1, <1>3 DEF Replaced
  <1>4. ASSUME NEW f, NEW g, Pushed(f, g) PROVE Len(stack') >= 1 /\ stack'[1] = stack[1]
    BY <1>1, <1>4 DEF Pushed
  <1>5. Len(stack') >= 1 /\ stack'[1] = stack[1]
    BY <1>1, <1>2, <1>3, <1>4 DEF StackMove, GoesOn, CallsOn, Starts, StartsWith
  <1> QED
    BY <1>5

LEMMA AnnouncedStep ==
  ASSUME Typed, Shape, Announced, Next
  PROVE  Announced'
  <1>1. /\ stack \in Seq(FrameType) /\ Len(stack) \in Nat /\ (stack # <<>> => Len(stack) >= 1)
        /\ pfd \in Seq(Conn) /\ Len(pfd) \in Nat
    BY EmptySeq DEF Typed, TypeOK
  <1>2. StackMove
    BY StackMoves
  <1>3. ASSUME NEW pc \in EventPcs, At(pc) PROVE Len(stack) = 1 /\ Top = stack[1]
    <2>1. Len(stack) \in 1 .. Len(stack) /\ Top = stack[Len(stack)] /\ Top.pc = pc
      BY <1>1, <1>3, TopFacts
    <2>2. FrameOK(Len(stack))
      BY <2>1 DEF Shape
    <2> QED
      BY <2>1, <2>2 DEF FrameOK
  <1>4. CASE ClientConnected
    <2>1. Len(stack) = 1 /\ UNCHANGED <<pfd, connectionState>> /\ Top = stack[1] /\ Top.pc = "connected"
      BY <1>1, <1>3, <1>4, TopFacts DEF ClientConnected, EventPcs
    <2>2. CASE Len(pfd) = 1
      <3> DEFINE f == Then("announce")
      <3>1. Pushed(f, Drain)
        BY <1>1, <1>4, <2>2, ClientConnectedStack
      <3>2. f.pc = "announce"
        BY DEF Then, Frame
      <3> HIDE DEF f
      <3>3. Len(stack') = 2 /\ stack'[1].pc = "announce"
        BY <2>1, <3>1, <3>2 DEF Pushed
      <3>4. stack' # <<>>
        BY <3>3
      <3> QED
        BY <2>1, <2>2, <3>3, <3>4 DEF Announced
    <2>3. CASE Len(pfd) # 1
      BY <2>1, <2>3 DEF Announced
    <2> QED
      BY <2>2, <2>3
  <1>5. CASE ClientAnnounce
    BY <1>5 DEF ClientAnnounce, Announced
  <1>6. CASE CloseSocket
    <2>1. Top.pc = "close" /\ Top = stack[Len(stack)] /\ stack # <<>>
      BY <1>1, <1>6, TopFacts DEF CloseSocket
    <2>2. pfd' # <<>> => UNCHANGED connectionState
      BY <1>6 DEF CloseSocket, LogStateOnClose
    <2>3. pfd' # <<>> /\ Len(pfd) = 1 => pfd' = pfd
      BY <1>1, <1>6, CloseTable, EmptySeq
    <2>4. pfd' # <<>> => pfd # <<>>
      <3>1. pfd' = pfd \/ (pfd' \in Seq(Conn) /\ Len(pfd') = Len(pfd) - 1)
        BY <1>1, <1>6, CloseTable
      <3> QED
        BY <1>1, <3>1
    <2>5. stack[1].pc \in {"connected", "announce"} => Len(stack) > 1
      BY <1>1, <2>1
    <2> QED
      BY <1>1, <1>2, <2>2, <2>3, <2>4, <2>5, BaseKept DEF Announced
  <1>7. CASE ClientConnect
    <2> DEFINE f == Then("connected")
               g == Send(Info, FALSE)
    <2>1. stack = <<>> /\ stack' = <<f, g>> /\ pfd' = Append(pfd, done.conns + 1) /\ UNCHANGED connectionState
      BY <1>7 DEF ClientConnect, RegisterConnection, Idle
    <2>2. f.pc = "connected"
      BY DEF Then, Frame
    <2> HIDE DEF f, g
    <2>3. stack' # <<>> /\ stack'[1].pc = "connected"
      BY <2>1, <2>2
    <2>4. pfd = <<>> => Len(pfd') = 1
      BY <2>1
    <2> QED
      BY <2>1, <2>3, <2>4 DEF Announced
  <1>8. CASE UNCHANGED <<pfd, connectionState>> /\ ~ClientConnected /\ ~ClientAnnounce
    <2>1. CASE stack = <<>>
      BY <1>8, <2>1 DEF Announced
    <2>2. CASE Len(stack) > 1
      BY <1>1, <1>2, <1>8, <2>2, BaseKept DEF Announced
    <2>3. CASE Len(stack) = 1
      <3>1. stack # <<>> /\ Top = stack[1]
        BY <1>1, <2>3 DEF Top
      <3>2. Top.pc \in {"connected", "announce"} => stack' = stack
        BY <1>8, <3>1, Dispatch DEF At
      <3> QED
        BY <1>8, <3>1, <3>2 DEF Announced
    <2> QED
      BY <1>1, <2>1, <2>2, <2>3, StackSizes
  <1>9. CloseSocket \/ ClientAnnounce \/ UNCHANGED connectionState
    BY DEF Next, Step, Event, ClientSend, SendAllMultiple, SendAllMultipleEnd, StoreInRing, Discard,
      ReportOverflow, OverflowReported, SendRingbuffer, SendRingbufferNext, UserMessageOverflowEnd,
      ClientConnected, UserMessageLog, UserMessageOverflow, UserMessageLogMode, ClientConnect,
      ClientConnectFails, ClientMessages, OneSTimer, Exited, ClientBreaks, vars, daemonVars
  <1> QED
    BY <1>4, <1>5, <1>6, <1>7, <1>8, <1>9, TableChanges

LEMMA FullStep ==
  ASSUME RingMin >= 2, Typed, Shape, Full, Next
  PROVE  Full'
  <1>1. stack \in Seq(FrameType) /\ ring \in Seq(Message)
    BY DEF Typed, TypeOK
  <1>2. CASE SendRingbufferNext
    BY <1>1, <1>2, SendRingbufferNextStack DEF Full
  <1>3. CASE SendRingbuffer
    BY <1>1, <1>3, SendRingbufferStack DEF Full, SendRingbuffer
  <1>4. CASE StoreInRing
    <2>1. ring' = Append(ring, Top.msg)
      BY <1>4 DEF StoreInRing
    <2>2. ring' # <<>>
      BY <1>1, <2>1
    <2> QED
      BY <2>2 DEF Full
  <1>5. CASE UNCHANGED <<ring, state>>
    BY <1>5 DEF Full
  <1>6. CASE Discard
    <2>1. UNCHANGED ring /\ (state = "BUFFER_FULL" \/ ~MustAccept(Top.msg))
      BY <1>6 DEF Discard
    <2>2. ring = <<>> => MustAccept(Top.msg)
      <3> SUFFICES ASSUME ring = <<>> PROVE MustAccept(Top.msg)
        OBVIOUS
      <3>1. RingUsed = 0
        BY UsedByEmpty DEF RingUsed
      <3>2. MsgLen(Top.msg) \in {1, 2}
        BY DEF MsgLen
      <3> QED
        BY <3>1, <3>2, ConstAssumption DEF MustAccept
    <2> QED
      BY <2>1, <2>2 DEF Full
  <1>7. CASE CloseSocket
    BY <1>7 DEF CloseSocket, LogStateOnClose, Full
  <1>8. CASE ClientConnected
    BY <1>8 DEF ClientConnected, Full
  <1> QED
    BY <1>2, <1>3, <1>4, <1>5, <1>6, <1>7, <1>8, RingChanges, StateChanges

--------------------------------------------------------------------------------
(* The state and the clients *)

LEMMA DrainPopped ==
  ASSUME stack \in Seq(FrameType), stack # <<>>, Popped, Top.pc \notin DrainPcs
  PROVE  InDrain' <=> InDrain
  <1>1. Len(stack) \in Nat /\ Len(stack) >= 1 /\ Top = stack[Len(stack)]
    BY EmptySeq DEF Top
  <1> QED
    BY <1>1 DEF InDrain, Popped

LEMMA DrainReplaced ==
  ASSUME stack \in Seq(FrameType), stack # <<>>, NEW f, Replaced(f),
         Top.pc \in DrainPcs <=> f.pc \in DrainPcs
  PROVE  InDrain' <=> InDrain
  <1>1. Len(stack) \in Nat /\ Len(stack) >= 1 /\ Top = stack[Len(stack)]
    BY EmptySeq DEF Top
  <1>2. ASSUME NEW i \in 1 .. Len(stack) PROVE stack[i].pc \in DrainPcs <=> stack'[i].pc \in DrainPcs
    BY <1>1 DEF Replaced
  <1>3. Len(stack') = Len(stack)
    BY DEF Replaced
  <1> QED
    BY <1>2, <1>3 DEF InDrain

LEMMA DrainPushed ==
  ASSUME stack \in Seq(FrameType), stack # <<>>, NEW f, NEW g, Pushed(f, g),
         Top.pc \in DrainPcs <=> f.pc \in DrainPcs, g.pc \notin DrainPcs
  PROVE  InDrain' <=> InDrain
  <1>1. Len(stack) \in Nat /\ Len(stack) >= 1 /\ Top = stack[Len(stack)]
    BY EmptySeq DEF Top
  <1>2. ASSUME NEW i \in 1 .. Len(stack) PROVE stack[i].pc \in DrainPcs <=> stack'[i].pc \in DrainPcs
    BY <1>1 DEF Pushed
  <1>3. Len(stack') = Len(stack) + 1 /\ stack'[Len(stack) + 1] = g
    BY <1>1 DEF Pushed
  <1>4. \A i \in 1 .. Len(stack') : i \in 1 .. Len(stack) \/ i = Len(stack) + 1
    BY <1>1, <1>3
  <1>5. 1 .. Len(stack) \subseteq 1 .. Len(stack')
    BY <1>1, <1>3
  <1> QED
    BY <1>2, <1>3, <1>4, <1>5 DEF InDrain

LEMMA DrainEnds ==
  ASSUME stack \in Seq(FrameType), stack # <<>>, Shape, Top.pc \in DrainPcs, Popped
  PROVE  InDrain /\ ~InDrain'
  <1>1. Len(stack) \in Nat /\ Len(stack) \in 1 .. Len(stack) /\ Top = stack[Len(stack)]
    BY EmptySeq DEF Top
  <1>2. \A j \in 1 .. Len(stack) : stack[j].pc \in DrainPcs => j = Len(stack)
    BY <1>1, DrainPlace
  <1> QED
    BY <1>1, <1>2 DEF InDrain, Popped

InsideFrames == \A i \in 1 .. Len(stack) : InsideFrame(i)

\* What InsideFrame says of the innermost call f.
InsideTop(f) ==
  /\ f.force /\ f.pc = "loop" =>
       \/ f.idx = 1 /\ ~f.sent
       \/ f.idx = 2 /\ f.sent /\ pfd # <<>>
       \/ f.idx = 2 /\ ~f.sent /\ pfd = <<>>
  /\ f.force /\ f.pc \in {"store", "reported"} => pfd # <<>>
  /\ f.force /\ f.pc = "send" => ~f.sent /\ f.idx = 1
  /\ ~f.force /\ f.pc \in SendPcs => f.pc \in {"send", "store"}

LEMMA InsideAtTop ==
  ASSUME stack \in Seq(FrameType), stack # <<>>, InsideFrames, Top.pc # "close"
  PROVE  InsideTop(Top)
  <1>1. Len(stack) \in Nat /\ Len(stack) \in 1 .. Len(stack) /\ Top = stack[Len(stack)]
    BY EmptySeq DEF Top
  <1>2. InsideFrame(Len(stack)) /\ ~(Len(stack) < Len(stack))
    BY <1>1 DEF InsideFrames
  <1> QED
    BY <1>1, <1>2 DEF InsideFrame, InsideTop

LEMMA InsidePopped ==
  ASSUME stack \in Seq(FrameType), stack # <<>>, InsideFrames, Popped, Top.pc # "close", UNCHANGED pfd
  PROVE  InsideFrames'
  <1>1. Len(stack) \in Nat /\ Len(stack) >= 1 /\ Top = stack[Len(stack)]
    BY EmptySeq DEF Top
  <1>2. ASSUME NEW i \in 1 .. Len(stack') PROVE InsideFrame(i)'
    <2>1. i \in 1 .. Len(stack) - 1 /\ Len(stack') = Len(stack) - 1
      BY <1>1 DEF Popped
    <2>2. InsideFrame(i)
      BY <1>1, <2>1 DEF InsideFrames
    <2>3. /\ stack'[i] = stack[i] /\ (i > 1 => stack'[i - 1] = stack[i - 1])
          /\ i < Len(stack') => stack'[i + 1] = stack[i + 1]
          /\ i + 1 = Len(stack) => stack[i + 1].pc # "close"
      BY <1>1, <2>1 DEF Popped
    <2>4. i < Len(stack') \/ i + 1 = Len(stack)
      BY <1>1, <2>1
    <2> QED
      BY <1>1, <2>1, <2>2, <2>3, <2>4 DEF InsideFrame
  <1> QED
    BY <1>2 DEF InsideFrames

LEMMA InsideReplaced ==
  ASSUME stack \in Seq(FrameType), stack # <<>>, InsideFrames, NEW f, Replaced(f),
         Top.pc # "close", f.pc # "close", UNCHANGED pfd, InsideTop(f)
  PROVE  InsideFrames'
  <1>1. Len(stack) \in Nat /\ Len(stack) >= 1 /\ Top = stack[Len(stack)] /\ Len(stack') = Len(stack)
    BY EmptySeq DEF Top, Replaced
  <1>2. ASSUME NEW i \in 1 .. Len(stack') PROVE InsideFrame(i)'
    <2>1. i \in 1 .. Len(stack) /\ InsideFrame(i)
      BY <1>1 DEF InsideFrames
    <2>2. CASE i = Len(stack)
      <3>1. stack'[i] = f
        BY <1>1, <2>2 DEF Replaced
      <3> QED
        BY <3>1 DEF InsideFrame, InsideTop
    <2>3. CASE i # Len(stack)
      <3>1. /\ stack'[i] = stack[i] /\ (i > 1 => stack'[i - 1] = stack[i - 1])
            /\ i + 1 # Len(stack) => stack'[i + 1] = stack[i + 1]
            /\ i + 1 = Len(stack) => stack[i + 1].pc # "close"
        BY <1>1, <2>1, <2>3 DEF Replaced
      <3> QED
        BY <1>1, <2>1, <2>3, <3>1 DEF InsideFrame
    <2> QED
      BY <2>2, <2>3
  <1> QED
    BY <1>2 DEF InsideFrames

\* f calls g, which is no close, or the one that f does for the client it could not reach.
LEMMA InsidePushed ==
  ASSUME stack \in Seq(FrameType), stack # <<>>, InsideFrames, NEW f, NEW g, Pushed(f, g),
         Top.pc # "close", f.pc # "close", UNCHANGED pfd,
         \/ InsideTop(f) /\ g.pc # "close"
         \/ f.force /\ f.pc = "loop" /\ f.idx = 2 /\ ~f.sent /\ g.pc = "close",
         InsideTop(g)
  PROVE  InsideFrames'
  <1>1. Len(stack) \in Nat /\ Len(stack) >= 1 /\ Top = stack[Len(stack)] /\ Len(stack') = Len(stack) + 1
    BY EmptySeq DEF Top, Pushed
  <1>2. ASSUME NEW i \in 1 .. Len(stack') PROVE InsideFrame(i)'
    <2>1. stack'[Len(stack) + 1] = g /\ stack'[Len(stack)] = f
      BY <1>1 DEF Pushed
    <2>2. CASE i = Len(stack) + 1
      <3>1. stack'[i] = g /\ stack'[i - 1] = f /\ i > 1
        BY <1>1, <2>1, <2>2
      <3> QED
        BY <3>1 DEF InsideFrame, InsideTop
    <2>3. CASE i = Len(stack)
      <3>1. stack'[i] = f /\ stack'[i + 1] = g /\ i < Len(stack')
        BY <1>1, <2>1, <2>3
      <3> QED
        BY <3>1 DEF InsideFrame, InsideTop, SendPcs
    <2>4. CASE i \in 1 .. Len(stack) - 1
      <3>1. /\ stack'[i] = stack[i] /\ (i > 1 => stack'[i - 1] = stack[i - 1])
            /\ i + 1 # Len(stack) => stack'[i + 1] = stack[i + 1]
            /\ i + 1 = Len(stack) => stack[i + 1].pc # "close"
        BY <1>1, <2>4 DEF Pushed
      <3>2. InsideFrame(i) /\ i < Len(stack) /\ i < Len(stack')
        BY <1>1, <2>4 DEF InsideFrames
      <3> QED
        BY <3>1, <3>2 DEF InsideFrame
    <2> QED
      BY <1>1, <2>2, <2>3, <2>4
  <1> QED
    BY <1>2 DEF InsideFrames

\* The innermost call after a return, and after a call.
LEMMA TopPopped ==
  ASSUME stack \in Seq(FrameType), stack # <<>>, Shape, Popped, stack' \in Seq(FrameType)
  PROVE  ~At("drain")' /\ (At("drained")' <=> Top.force)
  <1>1. Len(stack) \in Nat /\ Len(stack) \in 1 .. Len(stack) /\ Top = stack[Len(stack)]
    BY EmptySeq DEF Top
  <1>2. Len(stack') = Len(stack) - 1 /\ \A i \in 1 .. Len(stack) - 1 : stack'[i] = stack[i]
    BY DEF Popped
  <1>3. FrameOK(Len(stack))
    BY <1>1 DEF Shape
  <1>4. CASE Len(stack) = 1
    <2>1. Len(stack') = 0
      BY <1>2, <1>4
    <2>2. stack' = <<>>
      BY <2>1, EmptySeq
    <2> QED
      BY <1>1, <1>3, <1>4, <2>2 DEF At, Idle, FrameOK
  <1>5. CASE Len(stack) > 1
    <2>1. Len(stack) - 1 \in 1 .. Len(stack)
      BY <1>1, <1>5
    <2>2. FrameOK(Len(stack) - 1)
      BY <2>1 DEF Shape
    <2>3. stack'[Len(stack')] = stack[Len(stack) - 1] /\ stack' # <<>>
      BY <1>1, <1>2, <1>5
    <2> QED
      BY <1>1, <1>3, <1>5, <2>2, <2>3 DEF At, Idle, Top, FrameOK
  <1>6. \A n \in Nat : n \in 1 .. n => n = 1 \/ n > 1
    OBVIOUS
  <1>7. Len(stack) = 1 \/ Len(stack) > 1
    BY <1>1, <1>6, Zenon
  <1> QED
    BY <1>4, <1>5, <1>7

LEMMA TopReplaced ==
  ASSUME stack \in Seq(FrameType), stack # <<>>, NEW f, Replaced(f), NEW pc
  PROVE  At(pc)' <=> f.pc = pc
  <1>1. Len(stack) \in Nat /\ Len(stack) \in 1 .. Len(stack)
    BY EmptySeq
  <1>2. Len(stack') = Len(stack) /\ stack'[Len(stack)] = f
    BY <1>1 DEF Replaced
  <1>3. stack' # <<>>
    BY <1>1, <1>2
  <1> QED
    BY <1>2, <1>3 DEF At, Idle, Top

LEMMA TopPushed ==
  ASSUME stack \in Seq(FrameType), stack # <<>>, NEW f, NEW g, Pushed(f, g), NEW pc
  PROVE  At(pc)' <=> g.pc = pc
  <1>1. Len(stack) \in Nat
    BY EmptySeq
  <1>2. Len(stack') = Len(stack) + 1 /\ stack'[Len(stack) + 1] = g
    BY <1>1 DEF Pushed
  <1>3. stack' # <<>>
    BY <1>1, <1>2
  <1> QED
    BY <1>2, <1>3 DEF At, Idle, Top

\* The end of the connect event waits below every call but ClientConnected.
BaseStays == stack # <<>> /\ stack[1].pc = "connected" => stack' # <<>> /\ stack'[1].pc = "connected"

LEMMA ConnectedStays ==
  ASSUME Typed, Next, StackMove, ~ClientConnected
  PROVE  BaseStays
  <1>1. CASE stack = <<>>
    BY <1>1 DEF BaseStays
  <1>2. CASE Len(stack) > 1
    BY <1>2, BaseKept DEF BaseStays
  <1>3. CASE Len(stack) = 1
    <2>1. stack # <<>> /\ Top = stack[1]
      BY <1>3 DEF Top
    <2>2. Top.pc = "connected" => stack' = stack
      BY <2>1, Dispatch DEF At
    <2> QED
      BY <2>1, <2>2 DEF BaseStays
  <1> QED
    BY <1>1, <1>2, <1>3, StackSizes

\* A step that keeps the table, and the state or fills the ring.
LEMMA StateKept ==
  ASSUME Outside, Inside, BaseStays, InDrain' <=> InDrain, UNCHANGED pfd,
         state' = state \/ (state # "SEND_DIRECT" /\ state' = "BUFFER_FULL"),
         ~At("drain")',
         InDrain /\ At("drained")' => (ret' = "OK" <=> pfd # <<>>),
         InDrain => InsideFrames'
  PROVE  Outside' /\ Inside'
  <1>1. Outside'
    BY DEF Outside, BaseStays, Buffers
  <1>2. Inside'
    BY DEF Inside, Buffers, InsideFrames
  <1> QED
    BY <1>1, <1>2

\* What the steps of the state and the clients start from.
StateContext == Typed /\ Shape /\ Direct /\ Full /\ Outside /\ Inside /\ Routed /\ Next

LEMMA ContextFacts ==
  ASSUME StateContext
  PROVE  /\ stack \in Seq(FrameType) /\ stack' \in Seq(FrameType) /\ StackMove
         /\ Outside /\ Inside /\ Routed /\ Shape
         /\ InDrain => /\ InsideFrames /\ Len(pfd) <= 1
                       /\ pfd = <<>> => state \in Buffers
                       /\ pfd # <<>> => state \in {"SEND_BUFFER", "BUFFER_FULL"}
         /\ ~ClientConnected => BaseStays
  BY StackTyped, StackMoves, ConnectedStays
  DEF StateContext, Typed, TypeOK, Inside, InsideFrames

LEMMA ClientSendState ==
  ASSUME StateContext, ClientSend
  PROVE  Outside' /\ Inside'
  <1> DEFINE pc == IF Routed /\ (Top.force \/ state = "SEND_DIRECT") THEN "loop" ELSE "store"
             f == Goes(pc, Top.idx, Top.sent)
  <1>1. stack \in Seq(FrameType) /\ StackMove /\ Outside /\ Inside /\ Routed
    BY ContextFacts
  <1>2. stack # <<>> /\ Top.pc = "send"
    BY <1>1, TopFacts DEF ClientSend
  <1>3. BaseStays
    BY <1>2, ContextFacts DEF ClientConnected, At
  <1>4. Replaced(f)
    BY <1>1, ClientSendStack
  <1>5. UNCHANGED <<state, pfd, ring, ret>>
    BY DEF ClientSend, daemonVars
  <1>6. f.pc \in {"loop", "store"} /\ (f.force <=> Top.force) /\ f.idx = Top.idx /\ f.sent = Top.sent
        /\ (Top.force => f.pc = "loop") /\ (~Top.force /\ state # "SEND_DIRECT" => f.pc = "store")
    BY <1>1 DEF Goes
  <1> HIDE DEF f
  <1>7. InDrain' <=> InDrain
    BY <1>1, <1>2, <1>4, <1>6, DrainReplaced DEF DrainPcs
  <1>8. ~At("drain")' /\ ~At("drained")'
    BY <1>1, <1>2, <1>4, <1>6, TopReplaced
  <1>9. InDrain => InsideFrames'
    <2> SUFFICES ASSUME InDrain PROVE InsideFrames'
      OBVIOUS
    <2>1. InsideFrames /\ state # "SEND_DIRECT"
      BY ContextFacts DEF Buffers
    <2>2. InsideTop(Top)
      BY <1>1, <1>2, <2>1, InsideAtTop
    <2>3. InsideTop(f)
      BY <1>2, <1>6, <2>1, <2>2 DEF InsideTop, SendPcs
    <2> QED
      BY <1>1, <1>2, <1>4, <1>5, <1>6, <2>1, <2>3, InsideReplaced
  <1> QED
    BY <1>1, <1>3, <1>5, <1>7, <1>8, <1>9, StateKept

LEMMA SendAllMultipleState ==
  ASSUME StateContext, SendAllMultiple
  PROVE  Outside' /\ Inside'
  <1>1. stack \in Seq(FrameType) /\ StackMove /\ Outside /\ Inside /\ Routed
    BY ContextFacts
  <1>2. stack # <<>> /\ Top.pc = "loop" /\ Top.idx \in Nat /\ Top.idx # 0
    <2>1. Len(stack) \in 1 .. Len(stack) /\ Top = stack[Len(stack)] /\ Top.pc = "loop" /\ Top \in FrameType
          /\ stack # <<>>
      BY <1>1, TopFacts DEF SendAllMultiple
    <2> QED
      BY <2>1 DEF StateContext, Typed, FrameType
  <1>3. BaseStays
    BY <1>2, ContextFacts DEF ClientConnected, At
  <1>4. UNCHANGED <<state, pfd, ring, ret>> /\ Top.idx <= Len(pfd) /\ pfd \in Seq(Conn)
    BY DEF SendAllMultiple, daemonVars, StateContext, Typed, TypeOK
  <1>5. InDrain => Top.force /\ Top.idx = 1 /\ ~Top.sent /\ pfd # <<>>
    <2> SUFFICES ASSUME InDrain PROVE Top.force /\ Top.idx = 1 /\ ~Top.sent /\ pfd # <<>>
      OBVIOUS
    <2>1. InsideFrames /\ Len(pfd) <= 1
      BY ContextFacts
    <2>2. InsideTop(Top)
      BY <1>1, <1>2, <2>1, InsideAtTop
    <2>3. Top.idx = 1
      BY <1>2, <1>4, <2>1
    <2>4. pfd # <<>>
      BY <1>4, <2>3
    <2> QED
      BY <1>2, <2>2, <2>3, <2>4 DEF InsideTop, SendPcs
  <1>6. CASE pfd[Top.idx] \in broken
    <2> DEFINE f == Goes("loop", Top.idx + 1, Top.sent)
               g == Close(pfd[Top.idx])
    <2>1. Pushed(f, g)
      BY <1>1, <1>2, <1>4, <1>6, SendAllMultipleStack
    <2>2. /\ f.pc = "loop" /\ f.idx = Top.idx + 1 /\ f.sent = Top.sent /\ (f.force <=> Top.force)
          /\ g.pc = "close" /\ ~g.force
      BY DEF Goes, Close, Frame
    <2> HIDE DEF f, g
    <2>3. InDrain' <=> InDrain
      BY <1>1, <1>2, <2>1, <2>2, DrainPushed DEF DrainPcs
    <2>4. ~At("drain")' /\ ~At("drained")'
      BY <1>1, <1>2, <2>1, <2>2, TopPushed
    <2>5. InsideTop(g)
      BY <2>2 DEF InsideTop, SendPcs
    <2>6. InDrain => InsideFrames'
      <3> SUFFICES ASSUME InDrain PROVE InsideFrames'
        OBVIOUS
      <3>1. InsideFrames
        BY ContextFacts
      <3>2. f.force /\ f.idx = 2 /\ ~f.sent
        BY <1>5, <2>2
      <3> QED
        BY <1>1, <1>2, <1>4, <2>1, <2>2, <2>5, <3>1, <3>2, InsidePushed
    <2> QED
      BY <1>1, <1>3, <1>4, <2>3, <2>4, <2>6, StateKept
  <1>7. CASE pfd[Top.idx] \notin broken
    <2> DEFINE f == Goes("loop", Top.idx + 1, TRUE)
    <2>1. Replaced(f)
      BY <1>1, <1>2, <1>4, <1>7, SendAllMultipleStack
    <2>2. f.pc = "loop" /\ f.idx = Top.idx + 1 /\ f.sent /\ (f.force <=> Top.force)
      BY DEF Goes
    <2> HIDE DEF f
    <2>3. InDrain' <=> InDrain
      BY <1>1, <1>2, <2>1, <2>2, DrainReplaced DEF DrainPcs
    <2>4. ~At("drain")' /\ ~At("drained")'
      BY <1>1, <1>2, <2>1, <2>2, TopReplaced
    <2>6. InDrain => InsideFrames'
      <3> SUFFICES ASSUME InDrain PROVE InsideFrames'
        OBVIOUS
      <3>1. InsideFrames
        BY ContextFacts
      <3>2. f.force /\ f.idx = 2 /\ pfd # <<>>
        BY <1>5, <2>2
      <3>3. InsideTop(f)
        BY <2>2, <3>2 DEF InsideTop
      <3> QED
        BY <1>1, <1>2, <1>4, <2>1, <2>2, <3>1, <3>3, InsideReplaced
    <2> QED
      BY <1>1, <1>3, <1>4, <2>3, <2>4, <2>6, StateKept
  <1> QED
    BY <1>6, <1>7

LEMMA SendAllMultipleEndState ==
  ASSUME StateContext, SendAllMultipleEnd
  PROVE  Outside' /\ Inside'
  <1>1. stack \in Seq(FrameType) /\ StackMove /\ Outside /\ Inside /\ Routed /\ Shape
        /\ stack' \in Seq(FrameType)
    BY ContextFacts
  <1>2. stack # <<>> /\ Top.pc = "loop"
    BY <1>1, TopFacts DEF SendAllMultipleEnd
  <1>3. BaseStays
    BY <1>2, ContextFacts DEF ClientConnected, At
  <1>4. UNCHANGED <<state, pfd, ring>> /\ Top.idx > Len(pfd) /\ pfd \in Seq(Conn)
    BY DEF SendAllMultipleEnd, daemonVars, StateContext, Typed, TypeOK
  <1>5. InDrain => InsideFrames /\ InsideTop(Top) /\ Top.force
    <2> SUFFICES ASSUME InDrain PROVE InsideFrames /\ InsideTop(Top) /\ Top.force
      OBVIOUS
    <2>1. InsideFrames
      BY ContextFacts
    <2>2. InsideTop(Top)
      BY <1>1, <1>2, <2>1, InsideAtTop
    <2> QED
      BY <1>2, <2>1, <2>2 DEF InsideTop, SendPcs
  <1>6. pfd # <<>> => Len(pfd) >= 1
    BY <1>4, EmptySeq
  <1>7. CASE Top.force /\ ~Top.sent
    <2>1. Popped /\ ret' = "SEND_FAILED"
      BY <1>1, <1>7, SendAllMultipleEndStack
    <2>2. InDrain' <=> InDrain
      BY <1>1, <1>2, <2>1, DrainPopped DEF DrainPcs
    <2>3. ~At("drain")'
      BY <1>1, <1>2, <2>1, TopPopped
    <2>4. InDrain => pfd = <<>>
      BY <1>2, <1>4, <1>5, <1>6, <1>7 DEF InsideTop
    <2>5. InDrain => InsideFrames'
      BY <1>1, <1>2, <1>4, <1>5, <2>1, InsidePopped
    <2> QED
      BY <1>1, <1>3, <1>4, <2>1, <2>2, <2>3, <2>4, <2>5, StateKept
  <1>8. CASE ~(Top.force /\ ~Top.sent)
    <2> DEFINE f == Goes("store", Top.idx, Top.sent)
    <2>1. Replaced(f) /\ ret' = ret
      BY <1>1, <1>8, SendAllMultipleEndStack
    <2>2. f.pc = "store" /\ (f.force <=> Top.force)
      BY DEF Goes
    <2> HIDE DEF f
    <2>3. InDrain' <=> InDrain
      BY <1>1, <1>2, <2>1, <2>2, DrainReplaced DEF DrainPcs
    <2>4. ~At("drain")' /\ ~At("drained")'
      BY <1>1, <1>2, <2>1, <2>2, TopReplaced
    <2>5. InDrain => InsideTop(f)
      BY <1>2, <1>5, <1>8, <2>2 DEF InsideTop
    <2>6. InDrain => InsideFrames'
      BY <1>1, <1>2, <1>4, <1>5, <2>1, <2>2, <2>5, InsideReplaced
    <2> QED
      BY <1>1, <1>3, <1>4, <2>3, <2>4, <2>6, StateKept
  <1> QED
    BY <1>7, <1>8

\* A send that ends in the ring, or does not fit.
LEMMA StoredState ==
  ASSUME StateContext, StoreInRing \/ Discard
  PROVE  Outside' /\ Inside'
  <1>1. stack \in Seq(FrameType) /\ StackMove /\ Outside /\ Inside /\ Routed /\ Shape
        /\ stack' \in Seq(FrameType)
    BY ContextFacts
  <1>2. stack # <<>> /\ Top.pc = "store" /\ ~Top.force
    BY <1>1, TopFacts DEF StoreInRing, Discard, Buffering
  <1>3. BaseStays
    BY <1>2, ContextFacts DEF ClientConnected, At
  <1>4. /\ UNCHANGED pfd
        /\ state' = state \/ (state # "SEND_DIRECT" /\ state' = "BUFFER_FULL")
    BY DEF StoreInRing, Discard, Buffering
  <1>5. Popped
    BY <1>1, StoreInRingStack, DiscardStack
  <1>6. InDrain' <=> InDrain
    BY <1>1, <1>2, <1>5, DrainPopped DEF DrainPcs
  <1>7. ~At("drain")' /\ ~At("drained")'
    BY <1>1, <1>2, <1>5, TopPopped
  <1>8. InDrain => InsideFrames'
    BY <1>1, <1>2, <1>4, <1>5, ContextFacts, InsidePopped
  <1> QED
    BY <1>1, <1>3, <1>4, <1>6, <1>7, <1>8, StateKept

LEMMA ReportOverflowState ==
  ASSUME StateContext, ReportOverflow
  PROVE  Outside' /\ Inside'
  <1>1. stack \in Seq(FrameType) /\ StackMove /\ Outside /\ Inside /\ Routed /\ Shape
        /\ stack' \in Seq(FrameType)
    BY ContextFacts
  <1>2. stack # <<>> /\ Top.pc = "store"
    BY <1>1, TopFacts DEF ReportOverflow
  <1>3. BaseStays
    BY <1>2, ContextFacts DEF ClientConnected, At
  <1>4. UNCHANGED <<state, pfd, ring>> /\ (Top.force \/ state = "SEND_DIRECT")
    BY DEF ReportOverflow, Buffering, StateContext, Typed, TypeOK
  <1>5. InDrain => InsideFrames /\ Top.force /\ pfd # <<>>
    <2> SUFFICES ASSUME InDrain PROVE InsideFrames /\ Top.force /\ pfd # <<>>
      OBVIOUS
    <2>1. InsideFrames /\ state # "SEND_DIRECT"
      BY ContextFacts DEF Buffers
    <2>2. InsideTop(Top)
      BY <1>1, <1>2, <2>1, InsideAtTop
    <2> QED
      BY <1>2, <1>4, <2>1, <2>2 DEF InsideTop
  <1> DEFINE f == Goes("reported", Top.idx, Top.sent)
             g == Send(Overflow(overflow_counter, done.reports + 1), FALSE)
  <1>6. (Popped /\ ret' = "OK") \/ Pushed(f, g)
    <2>1. overflow_counter \in Nat /\ done.reports \in Nat
      BY DEF StateContext, Typed, TypeOK, History
    <2> QED
      BY <1>1, <2>1, ReportOverflowStack
  <1>7. f.pc = "reported" /\ (f.force <=> Top.force) /\ g.pc = "send" /\ ~g.force
    BY DEF Goes, Send, Frame
  <1> HIDE DEF f, g
  <1>8. CASE Popped /\ ret' = "OK"
    <2>1. InDrain' <=> InDrain
      BY <1>1, <1>2, <1>8, DrainPopped DEF DrainPcs
    <2>2. ~At("drain")'
      BY <1>1, <1>2, <1>8, TopPopped
    <2>3. InDrain => InsideFrames'
      BY <1>1, <1>2, <1>4, <1>5, <1>8, InsidePopped
    <2> QED
      BY <1>1, <1>3, <1>4, <1>5, <1>8, <2>1, <2>2, <2>3, StateKept
  <1>9. CASE Pushed(f, g)
    <2>1. InDrain' <=> InDrain
      BY <1>1, <1>2, <1>7, <1>9, DrainPushed DEF DrainPcs
    <2>2. ~At("drain")' /\ ~At("drained")'
      BY <1>1, <1>2, <1>7, <1>9, TopPushed
    <2>3. InDrain => InsideTop(f) /\ InsideTop(g)
      BY <1>5, <1>7 DEF InsideTop
    <2>4. InDrain => InsideFrames'
      BY <1>1, <1>2, <1>4, <1>5, <1>7, <1>9, <2>3, InsidePushed
    <2> QED
      BY <1>1, <1>3, <1>4, <2>1, <2>2, <2>4, StateKept
  <1> QED
    BY <1>6, <1>8, <1>9

LEMMA OverflowReportedState ==
  ASSUME StateContext, OverflowReported
  PROVE  Outside' /\ Inside'
  <1>1. stack \in Seq(FrameType) /\ StackMove /\ Outside /\ Inside /\ Routed /\ Shape
        /\ stack' \in Seq(FrameType)
    BY ContextFacts
  <1>2. stack # <<>> /\ Top.pc = "reported"
    BY <1>1, TopFacts DEF OverflowReported
  <1>3. BaseStays
    BY <1>2, ContextFacts DEF ClientConnected, At
  <1>4. UNCHANGED <<state, pfd, ring>>
    BY DEF OverflowReported
  <1>5. Popped /\ ret' = "OK"
    BY <1>1, OverflowReportedStack
  <1>6. InDrain' <=> InDrain
    BY <1>1, <1>2, <1>5, DrainPopped DEF DrainPcs
  <1>7. ~At("drain")' /\ (At("drained")' => Top.force)
    BY <1>1, <1>2, <1>5, TopPopped
  <1>8. InDrain => InsideFrames' /\ (Top.force => pfd # <<>>)
    <2> SUFFICES ASSUME InDrain PROVE InsideFrames' /\ (Top.force => pfd # <<>>)
      OBVIOUS
    <2>1. InsideFrames
      BY ContextFacts
    <2>2. InsideTop(Top)
      BY <1>1, <1>2, <2>1, InsideAtTop
    <2>3. InsideFrames'
      BY <1>1, <1>2, <1>4, <1>5, <2>1, InsidePopped
    <2> QED
      BY <1>2, <2>2, <2>3 DEF InsideTop
  <1> QED
    BY <1>1, <1>3, <1>4, <1>5, <1>6, <1>7, <1>8, StateKept

\* A client leaves; inside the sending of the ring it is the only one, and that send fails.
LEMMA CloseSocketState ==
  ASSUME StateContext, CloseSocket
  PROVE  Outside' /\ Inside'
  <1>1. stack \in Seq(FrameType) /\ StackMove /\ Outside /\ Inside /\ Routed /\ Shape
        /\ stack' \in Seq(FrameType) /\ pfd \in Seq(Conn)
    BY ContextFacts DEF StateContext, Typed, TypeOK
  <1>2. /\ stack # <<>> /\ Top.pc = "close" /\ Len(stack) \in Nat /\ Len(stack) >= 1
        /\ Top = stack[Len(stack)]
    BY <1>1, TopFacts DEF CloseSocket
  <1>3. BaseStays
    BY <1>2, ContextFacts DEF ClientConnected, At
  <1>4. UNCHANGED <<ring, ret>> /\ IF pfd' = <<>> THEN state' = "BUFFER" ELSE state' = state
    BY DEF CloseSocket, LogStateOnClose
  <1> DEFINE f == Send(Info, FALSE)
  <1>5. Pushed(f, f) /\ f.pc = "send" /\ ~f.force
    BY <1>1, CloseSocketStack DEF Send, Frame
  <1> HIDE DEF f
  <1>6. InDrain' <=> InDrain
    BY <1>1, <1>2, <1>5, DrainPushed DEF DrainPcs
  <1>7. ~At("drain")' /\ ~At("drained")'
    BY <1>1, <1>2, <1>5, TopPushed
  <1>8. \E j \in 1 .. Len(pfd) : pfd[j] = Top.idx
    BY <1>1, <1>2 DEF Shape, FrameOK
  <1>9. pfd' \in Seq(Conn) /\ Len(pfd') = Len(pfd) - 1 /\ Len(pfd) \in Nat /\ pfd # <<>>
    <2>1. Contains(pfd, Top.idx)
      BY <1>1, <1>8 DEF Contains
    <2>2. pfd' = DisableFd(pfd, Top.idx)
      BY DEF CloseSocket, UnregisterConnection
    <2>3. pfd' \in Seq(Conn) /\ Len(pfd') = Len(pfd) - 1
      BY <1>1, <2>1, <2>2, DisableFdFacts
    <2> QED
      BY <1>1, <1>8, <2>3
  <1>10. Len(pfd) <= 1 => pfd' = <<>> /\ state' = "BUFFER"
    <2>1. Len(pfd) <= 1 => pfd' = <<>>
      BY <1>9, EmptySeq
    <2> QED
      BY <1>4, <2>1
  <1>13. Len(pfd) = 1 => pfd' = <<>>
    BY <1>9, EmptySeq
  <1>11. Outside'
    <2> SUFFICES ASSUME ~InDrain' PROVE Outside'
      BY DEF Outside
    <2>1. \/ state = "SEND_DIRECT"
          \/ Len(pfd) = 1
      BY <1>1, <1>6, <1>9 DEF Outside
    <2>2. CASE pfd' = <<>>
      BY <1>4, <2>2 DEF Outside, Buffers
    <2>3. CASE pfd' # <<>>
      <3>1. Len(pfd) # 1
        BY <1>13, <2>3, Zenon
      <3>2. state' = "SEND_DIRECT"
        BY <1>4, <2>1, <2>3, <3>1
      <3> QED
        BY <2>3, <3>2 DEF Outside
    <2> QED
      BY <2>2, <2>3
  <1>12. Inside'
    <2> SUFFICES ASSUME InDrain' PROVE Inside'
      BY DEF Inside
    <2>1. InsideFrames /\ Len(pfd) <= 1
      BY <1>6, ContextFacts
    <2>2. pfd' = <<>> /\ state' = "BUFFER" /\ Len(pfd') <= 1
      BY <1>9, <1>10, <2>1
    <2>3. InsideFrames'
      <3>1. Len(stack) \in 1 .. Len(stack) /\ InsideFrame(Len(stack))
        BY <1>2, <2>1 DEF InsideFrames
      <3>2. Len(stack) > 1 /\ stack[Len(stack) - 1].force /\ ~stack[Len(stack) - 1].sent
        BY <1>2, <3>1 DEF InsideFrame
      <3>3. stack[Len(stack) - 1].pc = "loop"
        <4>1. FrameOK(Len(stack))
          BY <1>1, <3>1 DEF Shape
        <4> QED
          BY <1>2, <3>2, <4>1 DEF FrameOK
      <3>4. \A i \in 1 .. Len(stack) : stack[i].force => i = Len(stack) - 1
        <4>1. PICK d \in 1 .. Len(stack) : stack[d].pc \in DrainPcs
          BY <1>6 DEF InDrain
        <4>2. \A i \in 1 .. Len(stack) : stack[i].force => i = d + 1
          BY <1>1, <4>1, DrainPlace
        <4>3. Len(stack) - 1 \in 1 .. Len(stack)
          BY <1>2, <3>2
        <4> QED
          BY <1>2, <3>2, <4>2, <4>3
      <3>5. ASSUME NEW i \in 1 .. Len(stack') PROVE InsideFrame(i)'
        <4>1. Len(stack') = Len(stack) + 1 /\ stack'[Len(stack) + 1] = f /\ stack'[Len(stack)] = f
          BY <1>2, <1>5 DEF Pushed
        <4>2. CASE i \in {Len(stack), Len(stack) + 1}
          <5>1. stack'[i] = f
            BY <4>1, <4>2
          <5> QED
            BY <1>5, <5>1 DEF InsideFrame
        <4>3. CASE i = Len(stack) - 1
          <5>1. stack'[i] = stack[Len(stack) - 1]
            BY <1>2, <1>5, <3>2, <4>3 DEF Pushed
          <5>2. InsideFrame(i)
            BY <1>2, <3>2, <2>1, <4>3 DEF InsideFrames
          <5> QED
            BY <2>2, <3>2, <3>3, <4>3, <5>1, <5>2 DEF InsideFrame, SendPcs
        <4>4. CASE i \in 1 .. Len(stack) /\ i < Len(stack) - 1
          <5>1. /\ stack'[i] = stack[i] /\ ~stack[i].force
                /\ (i > 1 => stack'[i - 1] = stack[i - 1])
            BY <1>2, <1>5, <3>4, <4>4 DEF Pushed
          <5>2. InsideFrame(i) /\ stack[i].pc # "close"
            <6>1. InsideFrame(i)
              BY <2>1, <4>4 DEF InsideFrames
            <6>2. FrameOK(i)
              BY <1>1, <4>4 DEF Shape
            <6> QED
              BY <1>2, <4>4, <6>1, <6>2 DEF FrameOK
          <5> QED
            BY <5>1, <5>2 DEF InsideFrame
        <4> QED
          BY <1>2, <4>1, <4>2, <4>3, <4>4
      <3> QED
        BY <3>5 DEF InsideFrames
    <2> QED
      BY <1>7, <2>2, <2>3 DEF Inside, InsideFrames, Buffers
  <1> QED
    BY <1>11, <1>12

LEMMA SendRingbufferState ==
  ASSUME StateContext, SendRingbuffer
  PROVE  Outside' /\ Inside'
  <1>1. stack \in Seq(FrameType) /\ StackMove /\ Outside /\ Inside /\ Routed /\ Shape
        /\ stack' \in Seq(FrameType) /\ ring \in Seq(Message)
    BY ContextFacts DEF StateContext, Typed, TypeOK
  <1>2. stack # <<>> /\ Top.pc = "drain" /\ Len(stack) \in 1 .. Len(stack) /\ Top = stack[Len(stack)]
    BY <1>1, TopFacts DEF SendRingbuffer
  <1>3. BaseStays
    BY <1>2, ContextFacts DEF ClientConnected, At
  <1>4. UNCHANGED <<ring, pfd>> /\ At("drain")
    BY DEF SendRingbuffer
  <1>5. InDrain
    BY <1>2 DEF InDrain, DrainPcs
  <1>6. CASE ring = <<>>
    <2>1. Popped /\ state' = "SEND_DIRECT"
      BY <1>1, <1>6, SendRingbufferStack
    <2>2. ~InDrain'
      BY <1>1, <1>2, <2>1, DrainEnds DEF DrainPcs
    <2>3. pfd # <<>>
      BY <1>1, <1>4, <1>5, <1>6 DEF Inside
    <2> QED
      BY <1>4, <2>1, <2>2, <2>3 DEF Outside, Inside
  <1>7. CASE ring # <<>>
    <2> DEFINE f == Then("drained")
               g == Send(ring[1], TRUE)
    <2>1. Pushed(f, g) /\ UNCHANGED <<ret, state>>
      BY <1>1, <1>7, SendRingbufferStack
    <2>2. f.pc = "drained" /\ ~f.force /\ g.pc = "send" /\ g.force /\ g.idx = 1 /\ ~g.sent
      BY DEF Then, Send, Frame
    <2> HIDE DEF f, g
    <2>3. InDrain' <=> InDrain
      BY <1>1, <1>2, <2>1, <2>2, DrainPushed DEF DrainPcs
    <2>4. ~At("drain")' /\ ~At("drained")'
      BY <1>1, <1>2, <2>1, <2>2, TopPushed
    <2>5. InsideTop(f) /\ InsideTop(g)
      BY <2>2 DEF InsideTop, SendPcs
    <2>6. InsideFrames'
      BY <1>1, <1>2, <1>4, <1>5, <2>1, <2>2, <2>5, ContextFacts, InsidePushed
    <2> QED
      BY <1>1, <1>3, <1>4, <2>1, <2>3, <2>4, <2>6, StateKept
  <1> QED
    BY <1>6, <1>7

LEMMA SendRingbufferNextState ==
  ASSUME StateContext, SendRingbufferNext
  PROVE  Outside' /\ Inside'
  <1>1. stack \in Seq(FrameType) /\ StackMove /\ Outside /\ Inside /\ Routed /\ Shape
        /\ stack' \in Seq(FrameType)
    BY ContextFacts
  <1>2. stack # <<>> /\ Top.pc = "drained" /\ Len(stack) \in 1 .. Len(stack) /\ Top = stack[Len(stack)]
    BY <1>1, TopFacts DEF SendRingbufferNext
  <1>3. UNCHANGED pfd /\ At("drained")
    BY DEF SendRingbufferNext
  <1>4. InDrain
    BY <1>2 DEF InDrain, DrainPcs
  <1>5. (ret = "OK" <=> pfd # <<>>) /\ Len(pfd) <= 1 /\ (pfd = <<>> => state \in Buffers)
    BY <1>1, <1>3, <1>4 DEF Inside
  <1>6. CASE ret # "OK" /\ Popped /\ UNCHANGED <<ret, state, ring>>
    <2>1. ~InDrain'
      BY <1>1, <1>2, <1>6, DrainEnds DEF DrainPcs
    <2> QED
      BY <1>3, <1>5, <1>6, <2>1 DEF Outside, Inside
  <1>7. CASE ret = "OK" /\ state' = "SEND_DIRECT" /\ Popped
    <2>1. ~InDrain'
      BY <1>1, <1>2, <1>7, DrainEnds DEF DrainPcs
    <2> QED
      BY <1>3, <1>5, <1>7, <2>1 DEF Outside, Inside
  <1>8. CASE ret = "OK" /\ state' = "SEND_BUFFER" /\ Replaced(Drain) /\ ring' # <<>>
    <2>1. Drain.pc = "drain" /\ ~Drain.force
      BY DEF Drain, Frame
    <2>2. InDrain' <=> InDrain
      BY <1>1, <1>2, <1>8, <2>1, DrainReplaced DEF DrainPcs
    <2>3. ~At("drained")'
      BY <1>1, <1>2, <1>8, <2>1, TopReplaced
    <2>4. InsideTop(Drain)
      BY <2>1 DEF InsideTop, SendPcs
    <2>5. InsideFrames'
      BY <1>1, <1>2, <1>3, <1>4, <1>8, <2>1, <2>4, ContextFacts, InsideReplaced
    <2> QED
      BY <1>3, <1>4, <1>5, <1>8, <2>2, <2>3, <2>5 DEF Outside, Inside, InsideFrames
  <1> QED
    BY <1>1, <1>6, <1>7, <1>8, SendRingbufferNextStack

\* The calls of the event handlers, which are alone on the stack.
LEMMA HandlerState ==
  ASSUME StateContext, UserMessageOverflowEnd \/ ClientConnected \/ ClientAnnounce
  PROVE  Outside' /\ Inside'
  <1>1. stack \in Seq(FrameType) /\ StackMove /\ Outside /\ Inside /\ Routed /\ Shape
        /\ stack' \in Seq(FrameType) /\ pfd \in Seq(Conn)
    BY ContextFacts DEF StateContext, Typed, TypeOK
  <1>2. PICK pc \in EventPcs : At(pc) /\ (UserMessageOverflowEnd => pc = "userOverflow")
                               /\ (ClientConnected => pc = "connected") /\ (ClientAnnounce => pc = "announce")
    BY DEF UserMessageOverflowEnd, ClientConnected, ClientAnnounce, EventPcs, At
  <1>3. stack # <<>> /\ Top.pc = pc /\ Len(stack) \in 1 .. Len(stack) /\ Top = stack[Len(stack)]
    BY <1>1, <1>2, TopFacts
  <1>4. Len(stack) = 1 /\ stack[1].pc = pc
    <2>1. FrameOK(Len(stack))
      BY <1>1, <1>3 DEF Shape
    <2> QED
      BY <1>3, <2>1 DEF FrameOK
  <1>5. ~InDrain
    BY <1>4 DEF InDrain, DrainPcs, EventPcs
  <1>6. UNCHANGED <<pfd, ring>>
    BY DEF UserMessageOverflowEnd, ClientConnected, ClientAnnounce
  <1>7. CASE Popped /\ UNCHANGED state /\ (pc = "connected" => Len(pfd) # 1)
    <2>1. Len(stack') = 0 /\ stack' = <<>>
      BY <1>1, <1>4, <1>7, EmptySeq DEF Popped
    <2>2. ~InDrain'
      BY <2>1 DEF InDrain
    <2>3. pfd = <<>> => state \in Buffers
      BY <1>1, <1>5 DEF Outside
    <2>4. pfd # <<>> => state = "SEND_DIRECT"
      BY <1>1, <1>4, <1>5, <1>7 DEF Outside
    <2> QED
      BY <1>6, <1>7, <2>2, <2>3, <2>4 DEF Outside, Inside
  <1>8. CASE ClientConnected /\ Len(pfd) = 1
    <2> DEFINE f == Then("announce")
    <2>1. Pushed(f, Drain) /\ state' = "SEND_BUFFER"
      BY <1>1, <1>8, ClientConnectedStack
    <2>2. f.pc = "announce" /\ ~f.force /\ Drain.pc = "drain" /\ ~Drain.force
      BY DEF Then, Drain, Frame
    <2> HIDE DEF f
    <2>3. Len(stack') = 2 /\ stack'[1] = f /\ stack'[2] = Drain
      BY <1>4, <2>1 DEF Pushed
    <2>4. InDrain'
      BY <2>2, <2>3 DEF InDrain, DrainPcs
    <2>5. pfd # <<>>
      BY <1>8
    <2>6. ~At("drained")'
      BY <1>1, <1>3, <2>1, <2>2, TopPushed
    <2>7. InsideFrame(1)' /\ InsideFrame(2)'
      BY <2>2, <2>3 DEF InsideFrame, SendPcs
    <2>8. InsideFrames'
      BY <2>3, <2>7 DEF InsideFrames
    <2>9. Len(pfd') <= 1
      BY <1>6, <1>8
    <2> QED
      BY <1>6, <2>1, <2>4, <2>5, <2>6, <2>8, <2>9 DEF Outside, Inside, InsideFrames
  <1>9. CASE ClientConnected /\ Len(pfd) # 1
    BY <1>1, <1>7, <1>9, ClientConnectedStack
  <1>10. CASE UserMessageOverflowEnd \/ ClientAnnounce
    BY <1>1, <1>2, <1>7, <1>10, UserMessageOverflowEndStack, ClientAnnounceStack
    DEF UserMessageOverflowEnd, ClientAnnounce
  <1> QED
    BY <1>8, <1>9, <1>10

\* An event finds no call, so the ring is not being sent.
LEMMA EventState ==
  ASSUME StateContext, Event, mode' = mode
  PROVE  Outside' /\ Inside'
  <1>1. Outside /\ pfd \in Seq(Conn)
    BY ContextFacts DEF StateContext, Typed, TypeOK
  <1>2. stack = <<>>
    BY DEF Event, UserMessageLog, UserMessageOverflow, UserMessageLogMode, ClientConnect,
      ClientConnectFails, ClientMessages, OneSTimer, Idle
  <1>3. ~InDrain
    BY <1>2 DEF InDrain
  <1>4. UNCHANGED <<state, ring>>
    BY DEF Event, UserMessageLog, UserMessageOverflow, UserMessageLogMode, ClientConnect,
      ClientConnectFails, ClientMessages, OneSTimer, daemonVars
  <1>5. (pfd = <<>> => state \in Buffers) /\ (pfd # <<>> => state = "SEND_DIRECT")
    BY <1>1, <1>2, <1>3 DEF Outside
  <1>6. CASE UNCHANGED pfd /\ ~InDrain'
    BY <1>4, <1>5, <1>6 DEF Outside, Inside
  <1>7. ASSUME NEW f, stack' = <<f>>, f.pc \notin DrainPcs PROVE ~InDrain'
    BY <1>7 DEF InDrain
  <1>8. ASSUME NEW f, NEW g, stack' = <<f, g>>, f.pc \notin DrainPcs, g.pc \notin DrainPcs PROVE ~InDrain'
    <2>1. Len(stack') = 2 /\ stack'[1] = f /\ stack'[2] = g
      BY <1>8
    <2> QED
      BY <1>8, <2>1 DEF InDrain
  <1>9. CASE UserMessageLog
    <2> DEFINE f == Send(Log(done.logs + 1), FALSE)
    <2>1. stack' = <<f>> /\ UNCHANGED pfd
      BY <1>9 DEF UserMessageLog, daemonVars
    <2>2. f.pc \notin DrainPcs
      BY DEF Send, Frame, DrainPcs
    <2> HIDE DEF f
    <2> QED
      BY <1>6, <1>7, <2>1, <2>2
  <1>10. CASE UserMessageOverflow
    <2> DEFINE f == Then("userOverflow")
               g == Send(Overflow(1, done.reports + 1), FALSE)
    <2>1. stack' = <<f, g>> /\ UNCHANGED pfd
      BY <1>10 DEF UserMessageOverflow, daemonVars
    <2>2. f.pc \notin DrainPcs /\ g.pc \notin DrainPcs
      BY DEF Then, Send, Frame, DrainPcs
    <2> HIDE DEF f, g
    <2> QED
      BY <1>6, <1>8, <2>1, <2>2
  <1>11. CASE \E md \in Modes : UserMessageLogMode(md)
    BY <1>2, <1>6, <1>11 DEF UserMessageLogMode, InDrain
  <1>12. CASE ClientConnectFails
    <2> DEFINE f == Then("exit")
               g == Send(Info, FALSE)
    <2>1. stack' = <<f, g>> /\ UNCHANGED pfd
      BY <1>12 DEF ClientConnectFails, daemonVars
    <2>2. f.pc \notin DrainPcs /\ g.pc \notin DrainPcs
      BY DEF Then, Send, Frame, DrainPcs
    <2> HIDE DEF f, g
    <2> QED
      BY <1>6, <1>8, <2>1, <2>2
  <1>13. CASE \E c \in Conn : ClientMessages(c)
    <2>1. PICK c \in Conn : stack' = <<Close(c)>> /\ UNCHANGED pfd
      BY <1>13 DEF ClientMessages, daemonVars
    <2>2. Close(c).pc \notin DrainPcs
      BY DEF Close, Frame, DrainPcs
    <2> QED
      BY <1>6, <1>7, <2>1, <2>2
  <1>14. CASE ClientConnect
    <2> DEFINE f == Then("connected")
               g == Send(Info, FALSE)
    <2>1. stack' = <<f, g>> /\ pfd' = Append(pfd, done.conns + 1)
      BY <1>14 DEF ClientConnect, RegisterConnection
    <2>2. f.pc \notin DrainPcs /\ g.pc \notin DrainPcs /\ f.pc = "connected"
      BY DEF Then, Send, Frame, DrainPcs
    <2> HIDE DEF f, g
    <2>3. ~InDrain' /\ stack' # <<>> /\ stack'[1].pc = "connected"
      BY <1>8, <2>1, <2>2
    <2>4. pfd' # <<>> /\ (pfd = <<>> => Len(pfd') = 1)
      BY <1>1, <2>1
    <2> QED
      BY <1>4, <1>5, <2>3, <2>4 DEF Outside, Inside
  <1>15. CASE OneSTimer
    <2>1. UNCHANGED <<pfd, ring, ret>>
          /\ stack' = IF state \in {"SEND_BUFFER", "BUFFER_FULL"} THEN <<Drain>> ELSE <<>>
      BY <1>15 DEF OneSTimer, daemonVars
    <2>2. CASE stack' = <<>>
      BY <1>6, <2>1, <2>2 DEF InDrain
    <2>3. CASE stack' = <<Drain>> /\ state \in {"SEND_BUFFER", "BUFFER_FULL"}
      <3>1. Len(stack') = 1 /\ stack'[1] = Drain /\ Drain.pc = "drain" /\ ~Drain.force
        BY <2>3 DEF Drain, Frame
      <3>2. pfd = <<>> /\ state = "BUFFER_FULL" /\ ring # <<>>
        BY <1>5, <2>1, <2>3 DEF StateContext, Full, Buffers
      <3>6. Len(pfd') <= 1
        BY <2>1, <3>2
      <3>3. InDrain' /\ ~At("drained")'
        BY <3>1 DEF InDrain, DrainPcs, At, Top
      <3>4. InsideFrame(1)'
        BY <3>1 DEF InsideFrame, SendPcs
      <3>5. InsideFrames'
        BY <3>1, <3>4 DEF InsideFrames
      <3> QED
        BY <1>4, <2>1, <3>2, <3>3, <3>5, <3>6 DEF Outside, Inside, InsideFrames, Buffers
    <2> QED
      BY <2>1, <2>2, <2>3
  <1> QED
    BY <1>9, <1>10, <1>11, <1>12, <1>13, <1>14, <1>15 DEF Event

LEMMA StateInvStep ==
  ASSUME Typed, Shape, Direct, Full, StateInv, Next
  PROVE  StateInv'
  <1>1. SUFFICES ASSUME External' PROVE Outside' /\ Inside'
    BY DEF StateInv
  <1>2. done \in History /\ done' \in History
    BY HistoryStep DEF Typed
  <1>3. ~\E md \in Modes : UserMessageLogMode(md)
    <2>1. ASSUME NEW md \in Modes, UserMessageLogMode(md) PROVE FALSE
      <3>1. done' = [done EXCEPT !.modes = @ + 1]
        BY <2>1 DEF UserMessageLogMode
      <3>2. done'.modes = done.modes + 1 /\ done.modes \in Nat
        BY <1>2, <3>1 DEF History
      <3> QED
        BY <1>1, <3>2 DEF External
    <2> QED
      BY <2>1
  <1>4. done'.modes = done.modes /\ mode' = mode
    BY <1>3, HistoryFields
  <1>5. StateContext
    BY <1>1, <1>4 DEF StateContext, StateInv, External, Routed
  <1>6. CASE UNCHANGED <<stack, state, ring, pfd, ret>>
    BY <1>5, <1>6 DEF StateContext, Outside, Inside, InDrain, InsideFrame, At, Idle, Top
  <1>7. CASE Step
    BY <1>5, <1>7, ClientSendState, SendAllMultipleState, SendAllMultipleEndState, StoredState,
       ReportOverflowState, OverflowReportedState, CloseSocketState, SendRingbufferState,
       SendRingbufferNextState, HandlerState DEF Step
  <1>8. CASE Event
    BY <1>4, <1>5, <1>8, EventState
  <1>9. CASE Exited \/ \E c \in Conn : ClientBreaks(c)
    BY <1>6, <1>9 DEF Exited, ClientBreaks, vars, daemonVars
  <1> QED
    BY <1>7, <1>8, <1>9 DEF Next

--------------------------------------------------------------------------------
(* The order of log messages *)

LEMMA BeforeAppend ==
  ASSUME NEW s \in Seq(Message), NEW m \in Message, NEW n, Before(s, n), m.kind = "log" => m.n < n
  PROVE  Before(Append(s, m), n)
  <1> DEFINE t == Append(s, m)
  <1>1. /\ Len(t) = Len(s) + 1 /\ Len(s) \in Nat /\ t[Len(s) + 1] = m
        /\ \A i \in 1 .. Len(s) : t[i] = s[i]
    OBVIOUS
  <1> HIDE DEF t
  <1>2. Before(t, n)
    BY <1>1 DEF Before
  <1> QED
    BY <1>2 DEF t

LEMMA SortedAppend ==
  ASSUME NEW s \in Seq(Message), NEW m \in Message, Sorted(s), m.kind = "log" => Before(s, m.n)
  PROVE  Sorted(Append(s, m))
  <1> DEFINE t == Append(s, m)
  <1>1. /\ Len(t) = Len(s) + 1 /\ Len(s) \in Nat /\ t[Len(s) + 1] = m
        /\ \A i \in 1 .. Len(s) : t[i] = s[i]
    OBVIOUS
  <1> HIDE DEF t
  <1>3. \A i \in 1 .. Len(t) : i \in 1 .. Len(s) \/ i = Len(s) + 1
    BY <1>1
  <1>4. ASSUME NEW i \in 1 .. Len(t), NEW j \in 1 .. Len(t), i < j, t[i].kind = "log", t[j].kind = "log"
        PROVE  t[i].n < t[j].n
    <2>1. i \in 1 .. Len(s) /\ t[i] = s[i]
      BY <1>1, <1>4
    <2>2. CASE j \in 1 .. Len(s)
      BY <1>1, <1>4, <2>1, <2>2 DEF Sorted
    <2>3. CASE j = Len(s) + 1
      BY <1>1, <1>4, <2>1, <2>3 DEF Before
    <2> QED
      BY <1>3, <2>2, <2>3
  <1>2. Sorted(t)
    BY <1>4 DEF Sorted
  <1> QED
    BY <1>2 DEF t

LEMMA OrderTail ==
  ASSUME NEW s \in Seq(Message), s # <<>>, NEW n
  PROVE  /\ Before(s, n) => Before(Tail(s), n)
         /\ Sorted(s) => Sorted(Tail(s))
         /\ Len(Tail(s)) = Len(s) - 1 /\ Len(s) \in Nat
         /\ \A i \in 1 .. Len(Tail(s)) : Tail(s)[i] = s[i + 1] /\ i + 1 \in 1 .. Len(s)
  <1> DEFINE t == Tail(s)
  <1>1. /\ Len(t) = Len(s) - 1 /\ Len(s) \in Nat /\ Len(s) >= 1
        /\ \A i \in 1 .. Len(s) - 1 : t[i] = s[i + 1]
    BY EmptySeq
  <1> HIDE DEF t
  <1>2. \A i \in 1 .. Len(t) : t[i] = s[i + 1] /\ i + 1 \in 1 .. Len(s)
    BY <1>1
  <1>3. Before(s, n) => Before(t, n)
    BY <1>1, <1>2 DEF Before
  <1>4. Sorted(s) => Sorted(t)
    <2>1. ASSUME Sorted(s), NEW i \in 1 .. Len(t), NEW j \in 1 .. Len(t), i < j,
                 t[i].kind = "log", t[j].kind = "log"
          PROVE  t[i].n < t[j].n
      <3>1. /\ i + 1 \in 1 .. Len(s) /\ j + 1 \in 1 .. Len(s) /\ i + 1 < j + 1
            /\ t[i] = s[i + 1] /\ t[j] = s[j + 1]
        BY <1>1, <1>2, <2>1
      <3> QED
        BY <2>1, <3>1 DEF Sorted
    <2> QED
      BY <2>1 DEF Sorted
  <1> QED
    BY <1>1, <1>2, <1>3, <1>4 DEF t

LEMMA BeforeLater ==
  ASSUME NEW s \in Seq(Message), NEW m \in Nat, NEW n \in Nat, m <= n, Before(s, m)
  PROVE  Before(s, n)
  <1>1. \A i \in 1 .. Len(s) : s[i] \in Message
    OBVIOUS
  <1>2. \A i \in 1 .. Len(s) : s[i].n \in Nat
    BY <1>1 DEF Message
  <1> QED
    BY <1>2 DEF Before

\* One client gets a message.
LEMMA DeliveredUpdate ==
  ASSUME Typed, SendAllMultiple
  PROVE  /\ stack # <<>> /\ Top = stack[Len(stack)] /\ Len(stack) \in 1 .. Len(stack)
         /\ Top.pc = "loop" /\ Top.msg \in Message
         /\ Top.idx \in 1 .. Len(pfd) /\ pfd[Top.idx] \in Conn
         /\ UNCHANGED <<pfd, ring, state, ret>>
         /\ \A c \in Conn : \/ delivered'[c] = delivered[c]
                            \/ c = pfd[Top.idx] /\ delivered'[c] = Append(delivered[c], Top.msg)
  <1>1. stack \in Seq(FrameType) /\ Indexed(stack) /\ pfd \in Seq(Conn)
    BY DEF Typed, TypeOK, Indexed
  <1>2. /\ Len(stack) \in 1 .. Len(stack) /\ Top = stack[Len(stack)] /\ Top.pc = "loop"
        /\ Top \in FrameType /\ stack # <<>>
    BY <1>1, TopFacts DEF SendAllMultiple
  <1>3. Top.msg \in Message /\ Top.idx \in Nat /\ Top.idx # 0
    BY <1>1, <1>2 DEF Indexed, FrameType
  <1>4. Top.idx \in 1 .. Len(pfd)
    BY <1>1, <1>3 DEF SendAllMultiple
  <1>5. pfd[Top.idx] \in Conn
    BY <1>1, <1>4
  <1>6. \A c \in Conn : \/ delivered'[c] = delivered[c]
                        \/ c = pfd[Top.idx] /\ delivered'[c] = Append(delivered[c], Top.msg)
    <2> DEFINE b == pfd[Top.idx]
               t == Append(delivered[b], Top.msg)
    <2>1. delivered' = delivered \/ delivered' = [delivered EXCEPT ![b] = t]
      BY DEF SendAllMultiple, ConnectionSend
    <2>2. DOMAIN delivered = Conn
      BY DEF Typed, TypeOK
    <2>3. \A c \in Conn : \/ delivered'[c] = delivered[c]
                          \/ c = b /\ delivered'[c] = t
      <3> HIDE DEF b, t
      <3> QED
        BY <2>1, <2>2
    <2> QED
      BY <2>3
  <1>7. UNCHANGED <<pfd, ring, state, ret>>
    BY DEF SendAllMultiple, daemonVars
  <1> QED
    BY <1>2, <1>3, <1>4, <1>5, <1>6, <1>7

\* Messages other than log messages do not count, ...
LEMMA BeforeKept ==
  ASSUME Typed, Next, SendAllMultiple => Top.msg.kind # "log", NEW c \in Conn, NEW n,
         Before(delivered[c], n)
  PROVE  Before(delivered'[c], n)
  <1>1. delivered[c] \in Seq(Message)
    BY DEF Typed, TypeOK
  <1>2. CASE SendAllMultiple
    <2>1. \/ delivered'[c] = delivered[c]
          \/ delivered'[c] = Append(delivered[c], Top.msg)
      BY <1>2, DeliveredUpdate
    <2>2. Top.msg \in Message
      BY <1>2, DeliveredUpdate
    <2> QED
      BY <1>1, <1>2, <2>1, <2>2, BeforeAppend
  <1> QED
    BY <1>2, DeliveredChanges

\* ... a client that leaves lets others move up, but none to before its place, ...
LEMMA AheadKept ==
  ASSUME Typed, Next, SendAllMultiple => Top.msg.kind # "log", ~ClientConnect,
         NEW i \in Nat, NEW n, Ahead(i, n)
  PROVE  Ahead(i, n)'
  <1>1. pfd \in Seq(Conn) /\ Len(pfd) \in Nat
    BY DEF Typed, TypeOK
  <1>2. \A k \in 1 .. Len(pfd) : pfd[k] \in Conn
    BY <1>1
  <1>3. \A k \in 1 .. Len(pfd) : k >= i => Before(delivered'[pfd[k]], n)
    BY <1>2, BeforeKept DEF Ahead
  <1>4. CASE UNCHANGED pfd
    BY <1>3, <1>4 DEF Ahead
  <1>5. CASE CloseSocket /\ pfd' # pfd
    <2>1. /\ Len(pfd') = Len(pfd) - 1
          /\ \E at \in 1 .. Len(pfd) :
               /\ pfd[at] = Top.idx
               /\ \A k \in 1 .. Len(pfd) - 1 : pfd'[k] = IF k < at THEN pfd[k] ELSE pfd[k + 1]
      BY <1>1, <1>5, CloseTable
    <2>2. \A k \in 1 .. Len(pfd) - 1 : \/ pfd'[k] = pfd[k] /\ k \in 1 .. Len(pfd)
                                       \/ pfd'[k] = pfd[k + 1] /\ k + 1 \in 1 .. Len(pfd)
      BY <1>1, <2>1
    <2> QED
      BY <1>1, <1>3, <2>1, <2>2 DEF Ahead
  <1> QED
    BY <1>4, <1>5, TableChanges

\* ... and the loop goes on with the clients behind.
LEMMA AheadAdvances ==
  ASSUME Typed, Table, SendAllMultiple, NEW n, NEW i, i = Top.idx, Ahead(i, n)
  PROVE  Ahead(i + 1, n)'
  <1>1. pfd \in Seq(Conn) /\ Len(pfd) \in Nat
    BY DEF Typed, TypeOK
  <1>2. \A k \in 1 .. Len(pfd) : pfd[k] \in Conn
    BY <1>1
  <1>3. Top.idx \in 1 .. Len(pfd) /\ UNCHANGED pfd
    BY DeliveredUpdate
  <1>4. \A c \in Conn : c # pfd[Top.idx] => delivered'[c] = delivered[c]
    BY DeliveredUpdate
  <1>5. \A k \in 1 .. Len(pfd) : k # Top.idx => pfd[k] # pfd[Top.idx]
    BY <1>3 DEF Table
  <1>6. \A k \in 1 .. Len(pfd) : k >= Top.idx + 1 => k >= Top.idx /\ k # Top.idx
    BY <1>3
  <1>7. ASSUME NEW k \in 1 .. Len(pfd), k >= Top.idx + 1 PROVE Before(delivered'[pfd[k]], n)
    <2>1. delivered'[pfd[k]] = delivered[pfd[k]]
      BY <1>2, <1>4, <1>5, <1>6, <1>7
    <2>2. Before(delivered[pfd[k]], n)
      BY <1>6, <1>7 DEF Ahead
    <2> QED
      BY <2>1, <2>2
  <1> QED
    BY <1>3, <1>7 DEF Ahead

\* At most one entry of the ring is on its way.
LEMMA OneForced ==
  ASSUME stack \in Seq(FrameType), Shape, NEW i \in 1 .. Len(stack), stack[i].force
  PROVE  i > 1 /\ InDrain /\ \A j \in 1 .. Len(stack) : stack[j].force => j = i
  <1>1. i > 1 /\ stack[i - 1].pc = "drained"
    BY DEF Shape, FrameOK
  <1>2. Len(stack) \in Nat /\ i - 1 \in 1 .. Len(stack)
    BY <1>1
  <1>3. \A j \in 1 .. Len(stack) : stack[j].force => j = (i - 1) + 1
    BY <1>1, <1>2, DrainPlace DEF DrainPcs
  <1> QED
    BY <1>1, <1>2, <1>3 DEF InDrain, DrainPcs

LEMMA NoneForced ==
  ASSUME stack \in Seq(FrameType), Shape, stack # <<>>, Top.pc \in DrainPcs \cup EventPcs
  PROVE  \A j \in 1 .. Len(stack) : ~stack[j].force
  <1>1. Len(stack) \in Nat /\ Len(stack) \in 1 .. Len(stack) /\ Top = stack[Len(stack)]
    BY EmptySeq DEF Top
  <1>2. CASE Top.pc \in DrainPcs
    <2>1. \A j \in 1 .. Len(stack) : stack[j].force => j = Len(stack) + 1
      BY <1>1, <1>2, DrainPlace
    <2> QED
      BY <1>1, <2>1
  <1>3. CASE Top.pc \in EventPcs
    <2>1. Len(stack) = 1
      BY <1>1, <1>3 DEF Shape, FrameOK
    <2>2. \A j \in 1 .. Len(stack) : stack[j].force => j > 1
      BY DEF Shape, FrameOK
    <2> QED
      BY <2>1, <2>2
  <1> QED
    BY <1>2, <1>3

\* While a new log message is on its way, the ring is not being sent, and the calls above that
\* of the message send no log message.
LEMMA AboveBase ==
  ASSUME stack \in Seq(FrameType), Shape, stack # <<>>, stack[1].msg.kind = "log"
  PROVE  /\ stack[1].pc \in SendPcs /\ ~stack[1].force
         /\ ~InDrain /\ \A j \in 1 .. Len(stack) : ~stack[j].force
         /\ Len(stack) > 1 => Top.msg.kind # "log"
  <1>1. Len(stack) \in Nat /\ Len(stack) \in 1 .. Len(stack) /\ Top = stack[Len(stack)] /\ 1 \in 1 .. Len(stack)
    BY EmptySeq DEF Top
  <1>2. stack[1].pc \in SendPcs /\ ~stack[1].force
    <2>1. FrameOK(1)
      BY <1>1 DEF Shape
    <2> QED
      BY <2>1 DEF FrameOK, Info
  <1>3. \A j \in 1 .. Len(stack) : stack[j].pc \notin DrainPcs
    <2>1. \A j \in 1 .. Len(stack) : stack[j].pc \in DrainPcs => j = 1 \/ stack[1].pc = "announce"
      BY DEF Shape, FrameOK
    <2> QED
      BY <1>2, <2>1 DEF SendPcs, DrainPcs
  <1>4. ~InDrain
    BY <1>3 DEF InDrain
  <1>5. \A j \in 1 .. Len(stack) : ~stack[j].force
    BY <1>4, OneForced
  <1>6. Len(stack) > 1 => Top.msg.kind # "log"
    <2>1. FrameOK(Len(stack)) /\ ~Top.force
      BY <1>1, <1>5 DEF Shape
    <2> QED
      BY <1>1, <2>1 DEF FrameOK
  <1> QED
    BY <1>2, <1>4, <1>5, <1>6

\* Where the call of a new log message comes from.
LEMMA BaseMoves ==
  ASSUME Typed, Shape, Next, stack' # <<>>, stack'[1].msg.kind = "log"
  PROVE  \/ stack = <<>> /\ UserMessageLog /\ stack'[1] = Send(Log(done.logs + 1), FALSE)
         \/ stack # <<>> /\ stack'[1] = stack[1] /\ Len(stack) > 1
         \/ stack # <<>> /\ stack'[1] = stack[1]
            /\ UNCHANGED <<daemonVars, stack, ret, delivered, offline, done>>
         \/ /\ stack # <<>> /\ stack[1] = Top /\ Len(stack) = 1
            /\ stack'[1].msg = stack[1].msg /\ ~stack[1].force
            /\ \/ ClientSend
               \/ SendAllMultiple
               \/ SendAllMultipleEnd
               \/ ReportOverflow /\ stack'[1].pc = "reported"
  <1>1. stack \in Seq(FrameType) /\ stack' \in Seq(FrameType) /\ StackMove
    BY StackTyped, StackMoves DEF Typed, TypeOK
  <1>2. CASE stack = <<>>
    <2>1. CASE UserMessageLog
      BY <1>2, <2>1 DEF UserMessageLog
    <2>2. CASE Event /\ ~UserMessageLog
      <3>1. \/ stack' = <<>>
            \/ \E f, g : stack' = <<f, g>> /\ f.msg = Info
            \/ \E f : stack' = <<f>> /\ f.msg = Info
        <4>1. Drain.msg = Info /\ (\A c : Close(c).msg = Info) /\ \A pc : Then(pc).msg = Info
          BY DEF Drain, Close, Then, Frame
        <4> QED
          BY <1>2, <2>2, <4>1 DEF Event, UserMessageOverflow, UserMessageLogMode,
            ClientConnect, ClientConnectFails, ClientMessages, OneSTimer
      <3>2. stack' = <<>> \/ stack'[1].msg = Info
        BY <3>1
      <3> QED
        BY <3>2 DEF Info
    <2>3. CASE ~Event
      <3>1. UNCHANGED stack
        BY <1>2, <2>3 DEF Next, Step, ClientSend, SendAllMultiple, SendAllMultipleEnd, StoreInRing,
          Discard, ReportOverflow, OverflowReported, CloseSocket, SendRingbuffer, SendRingbufferNext,
          UserMessageOverflowEnd, ClientConnected, ClientAnnounce, Exited, ClientBreaks, vars, At, Idle
      <3> QED
        BY <1>2, <3>1
    <2> QED
      BY <2>1, <2>2, <2>3
  <1>3. CASE Len(stack) > 1
    <2>1. stack # <<>>
      BY <1>3
    <2> QED
      BY <1>1, <1>3, <2>1, BaseKept
  <1>4. CASE Len(stack) = 1
    <2>1. stack # <<>> /\ Top = stack[1]
      BY <1>4 DEF Top
    <2>2. ~Popped
      <3>1. Popped => Len(stack') = 0
        BY <1>4 DEF Popped
      <3> QED
        BY <1>1, <3>1, EmptySeq
    <2>3. stack'[1].msg = stack[1].msg \/ UNCHANGED stack
      <3>1. ASSUME NEW f, Replaced(f), Follows(f) PROVE stack'[1].msg = stack[1].msg
        BY <1>4, <2>1, <3>1 DEF Replaced, Follows
      <3>2. ASSUME NEW f, NEW g, Pushed(f, g), Follows(f) PROVE stack'[1].msg = stack[1].msg
        BY <1>4, <2>1, <3>2 DEF Pushed, Follows
      <3> QED
        BY <1>1, <2>1, <2>2, <3>1, <3>2 DEF StackMove, Returns, GoesOn, CallsOn, Starts, StartsWith
    <2>4. stack[1].pc \in SendPcs /\ ~stack[1].force
      BY <1>1, <2>1, <2>3, AboveBase
    <2>5. CASE UNCHANGED <<daemonVars, stack, ret, delivered, offline, done>>
      BY <2>1, <2>5
    <2>6. CASE ~UNCHANGED <<daemonVars, stack, ret, delivered, offline, done>>
      <3>1. \/ ClientSend \/ SendAllMultiple \/ SendAllMultipleEnd \/ StoreInRing \/ Discard
            \/ ReportOverflow \/ OverflowReported
        BY <2>1, <2>4, <2>6, Dispatch DEF At, SendPcs
      <3>2. ~StoreInRing /\ ~Discard /\ ~OverflowReported
        BY <1>1, <2>2, StoreInRingStack, DiscardStack, OverflowReportedStack
      <3>3. ReportOverflow => stack'[1].pc = "reported"
        <4>1. overflow_counter \in Nat /\ done.reports \in Nat
          BY DEF Typed, TypeOK, History
        <4> DEFINE f == Goes("reported", Top.idx, Top.sent)
                   g == Send(Overflow(overflow_counter, done.reports + 1), FALSE)
        <4>2. ReportOverflow => Pushed(f, g)
          BY <1>1, <2>2, <4>1, ReportOverflowStack
        <4>3. f.pc = "reported"
          BY DEF Goes
        <4> HIDE DEF f, g
        <4> QED
          BY <1>4, <4>2, <4>3 DEF Pushed
      <3>4. stack'[1].msg = stack[1].msg
        BY <2>3
      <3> QED
        BY <1>4, <2>1, <2>4, <3>1, <3>2, <3>3, <3>4
    <2> QED
      BY <2>5, <2>6
  <1> QED
    BY <1>2, <1>3, <1>4, StackSizes

\* An only call that goes on.
LEMMA BaseGoesOn ==
  ASSUME Typed, Len(stack) = 1, Top = stack[1]
  PROVE  /\ ClientSend =>
              /\ stack'[1].pc = IF Routed /\ (Top.force \/ state = "SEND_DIRECT") THEN "loop" ELSE "store"
              /\ stack'[1].idx = Top.idx /\ stack'[1].sent = Top.sent
         /\ SendAllMultiple =>
              /\ stack'[1].pc = "loop" /\ stack'[1].idx = Top.idx + 1
              /\ IF pfd[Top.idx] \in broken
                 THEN /\ stack'[1].sent = Top.sent /\ Len(stack') = 2 /\ stack'[2].pc = "close"
                 ELSE stack'[1].sent
         /\ SendAllMultipleEnd /\ ~Top.force =>
              stack'[1].pc = "store" /\ stack'[1].idx = Top.idx /\ stack'[1].sent = Top.sent
  <1>1. stack \in Seq(FrameType) /\ pfd \in Seq(Conn)
    BY DEF Typed, TypeOK
  <1>2. ASSUME NEW f, Replaced(f) PROVE stack'[1] = f
    BY <1>2 DEF Replaced
  <1>3. ASSUME NEW f, NEW g, Pushed(f, g) PROVE stack'[1] = f /\ stack'[2] = g /\ Len(stack') = 2
    BY <1>3 DEF Pushed
  <1>4. ASSUME ClientSend
        PROVE  /\ stack'[1].pc = IF Routed /\ (Top.force \/ state = "SEND_DIRECT") THEN "loop" ELSE "store"
               /\ stack'[1].idx = Top.idx /\ stack'[1].sent = Top.sent
    <2> DEFINE pc == IF Routed /\ (Top.force \/ state = "SEND_DIRECT") THEN "loop" ELSE "store"
               f == Goes(pc, Top.idx, Top.sent)
    <2>1. Replaced(f)
      BY <1>1, <1>4, ClientSendStack
    <2>2. f.pc = pc /\ f.idx = Top.idx /\ f.sent = Top.sent
      BY DEF Goes
    <2> HIDE DEF f
    <2> QED
      BY <1>2, <2>1, <2>2
  <1>5. ASSUME SendAllMultiple
        PROVE  /\ stack'[1].pc = "loop" /\ stack'[1].idx = Top.idx + 1
               /\ IF pfd[Top.idx] \in broken
                  THEN stack'[1].sent = Top.sent /\ Len(stack') = 2 /\ stack'[2].pc = "close"
                  ELSE stack'[1].sent
    <2>1. Top.idx # 0
      <3>1. Top.idx \in 1 .. Len(pfd)
        BY <1>5, DeliveredUpdate
      <3> QED
        BY <3>1
    <2>2. CASE pfd[Top.idx] \in broken
      <3> DEFINE f == Goes("loop", Top.idx + 1, Top.sent)
                 g == Close(pfd[Top.idx])
      <3>1. Pushed(f, g)
        BY <1>1, <1>5, <2>1, <2>2, SendAllMultipleStack
      <3>2. f.pc = "loop" /\ f.idx = Top.idx + 1 /\ f.sent = Top.sent /\ g.pc = "close"
        BY DEF Goes, Close, Frame
      <3> HIDE DEF f, g
      <3> QED
        BY <1>3, <2>2, <3>1, <3>2
    <2>3. CASE pfd[Top.idx] \notin broken
      <3> DEFINE f == Goes("loop", Top.idx + 1, TRUE)
      <3>1. Replaced(f)
        BY <1>1, <1>5, <2>1, <2>3, SendAllMultipleStack
      <3>2. f.pc = "loop" /\ f.idx = Top.idx + 1 /\ f.sent
        BY DEF Goes
      <3> HIDE DEF f
      <3> QED
        BY <1>2, <2>3, <3>1, <3>2
    <2> QED
      BY <2>2, <2>3
  <1>6. ASSUME SendAllMultipleEnd, ~Top.force
        PROVE  stack'[1].pc = "store" /\ stack'[1].idx = Top.idx /\ stack'[1].sent = Top.sent
    <2> DEFINE f == Goes("store", Top.idx, Top.sent)
    <2>1. Replaced(f)
      BY <1>1, <1>6, SendAllMultipleEndStack
    <2>2. f.pc = "store" /\ f.idx = Top.idx /\ f.sent = Top.sent
      BY DEF Goes
    <2> HIDE DEF f
    <2> QED
      BY <1>2, <2>1, <2>2
  <1> QED
    BY <1>4, <1>5, <1>6

\* While other calls run above that of the message, ...
LEMMA IncomingWaits ==
  ASSUME Typed, Shape, Next, stack # <<>>, Len(stack) > 1, NEW f, f = stack[1],
         f.msg.kind = "log", IncomingFrame(f)
  PROVE  IncomingFrame(f)'
  <1>1. stack \in Seq(FrameType) /\ Len(stack) \in Nat /\ ring \in Seq(Message) /\ 1 \in 1 .. Len(stack)
        /\ pfd \in Seq(Conn)
    BY DEF Typed, TypeOK
  <1>2. ~InDrain /\ Top.msg.kind # "log" /\ f.pc \in SendPcs
    BY <1>1, AboveBase
  <1>3. f.pc \in {"loop", "reported"}
    <2>1. FrameOK(1)
      BY <1>1 DEF Shape
    <2> QED
      BY <1>2, <2>1 DEF FrameOK, SendPcs, Info
  <1>4. done'.logs = done.logs /\ ~ClientConnect
    BY HistoryFields DEF UserMessageLog, ClientConnect, Idle
  <1>5. ~SendRingbufferNext /\ ~SendRingbuffer /\ ~ClientConnected
    <2>1. ASSUME NEW pc, At(pc) PROVE Len(stack) \in 1 .. Len(stack) /\ stack[Len(stack)].pc = pc
      BY <1>1, <2>1, TopFacts
    <2>2. ~At("drain") /\ ~At("drained")
      BY <1>2, <2>1 DEF InDrain, DrainPcs
    <2>3. ~At("connected")
      BY <1>1, <2>1 DEF Shape, FrameOK, EventPcs
    <2> QED
      BY <2>2, <2>3 DEF SendRingbufferNext, SendRingbuffer, ClientConnected
  <1>6. f.pc = "loop" => Before(ring', f.msg.n)
    <2>1. CASE StoreInRing
      <3>1. Top.msg \in Message
        BY <1>1, <2>1, TopFacts DEF StoreInRing, FrameType
      <3> QED
        BY <1>1, <1>2, <2>1, <3>1, BeforeAppend DEF StoreInRing, IncomingFrame
    <2> QED
      BY <1>5, <2>1, RingChanges DEF IncomingFrame
  <1>7. f.pc = "loop" => Ahead(f.idx, f.msg.n)'
    <2>1. f \in FrameType
      BY <1>1
    <2>2. f.idx \in Nat
      BY <2>1 DEF FrameType
    <2> QED
      BY <1>2, <1>4, <2>2, AheadKept DEF IncomingFrame
  <1>8. f.pc = "loop" => state' = "SEND_DIRECT" \/ pfd' = <<>>
    <2> SUFFICES ASSUME f.pc = "loop" PROVE state' = "SEND_DIRECT" \/ pfd' = <<>>
      OBVIOUS
    <2>1. state = "SEND_DIRECT" \/ pfd = <<>>
      BY DEF IncomingFrame
    <2>2. CASE Discard
      BY <2>1, <2>2 DEF Discard, Buffering
    <2>3. CASE CloseSocket
      <3>1. pfd = <<>> => pfd' = <<>>
        <4>1. pfd' = pfd \/ \E at \in 1 .. Len(pfd) : pfd[at] = Top.idx
          BY <1>1, <2>3, CloseTable
        <4>2. pfd = <<>> => 1 .. Len(pfd) = {}
          OBVIOUS
        <4> QED
          BY <4>1, <4>2
      <3>2. pfd' = <<>> \/ state' = state
        BY <2>3 DEF CloseSocket, LogStateOnClose
      <3> QED
        BY <2>1, <3>1, <3>2
    <2>4. CASE UNCHANGED <<state, pfd>>
      BY <2>1, <2>4
    <2> QED
      BY <1>4, <1>5, <2>2, <2>3, <2>4, StateChanges, TableChanges
  <1> QED
    BY <1>3, <1>4, <1>6, <1>7, <1>8 DEF IncomingFrame

\* ... and when it goes on itself.
LEMMA IncomingStep ==
  ASSUME Typed, Shape, Table, Ordered, Incoming, Next
  PROVE  Incoming'
  <1> SUFFICES ASSUME stack' # <<>>, stack'[1].msg.kind = "log" PROVE (IncomingFrame(stack[1]))'
    BY DEF Incoming
  <1>1. stack \in Seq(FrameType) /\ done \in History
    BY DEF Typed, TypeOK
  <1>2. CASE stack = <<>> /\ UserMessageLog /\ stack'[1] = Send(Log(done.logs + 1), FALSE)
    <2> DEFINE f == Send(Log(done.logs + 1), FALSE)
               n == done.logs + 1
    <2>1. f.msg = Log(n) /\ f.pc = "send" /\ f.idx = 1 /\ f.msg.n = n /\ stack'[1] = f
      BY <1>2 DEF Send, Frame, Log
    <2>2. done'.logs = n
      <3>1. done' = [done EXCEPT !.logs = @ + 1]
        BY <1>2 DEF UserMessageLog
      <3> QED
        BY <1>1, <3>1 DEF History
    <2>3. UNCHANGED <<ring, delivered>>
      BY <1>2 DEF UserMessageLog, daemonVars
    <2>4. Before(ring, n) /\ \A c \in Conn : Before(delivered[c], n)
      BY DEF Ordered
    <2> HIDE DEF f, n
    <2> QED
      BY <2>1, <2>2, <2>3, <2>4 DEF IncomingFrame
  <1>3. CASE stack # <<>> /\ stack'[1] = stack[1] /\ Len(stack) > 1
    <2>1. PICK f : f = stack[1]
      OBVIOUS
    <2>2. IncomingFrame(f)
      BY <1>3, <2>1 DEF Incoming
    <2>3. IncomingFrame(f)'
      BY <1>3, <2>1, <2>2, IncomingWaits
    <2> QED
      BY <1>3, <2>1, <2>3 DEF IncomingFrame
  <1>4. CASE stack # <<>> /\ stack'[1] = stack[1] /\ UNCHANGED <<daemonVars, stack, ret, delivered, offline, done>>
    BY <1>4 DEF Incoming, IncomingFrame, Ahead, daemonVars
  <1>5. CASE /\ stack # <<>> /\ stack[1] = Top /\ Len(stack) = 1
             /\ stack'[1].msg = stack[1].msg /\ ~stack[1].force
             /\ \/ ClientSend
                \/ SendAllMultiple
                \/ SendAllMultipleEnd
                \/ ReportOverflow /\ stack'[1].pc = "reported"
    <2>1. IncomingFrame(Top) /\ stack'[1].msg = Top.msg
      BY <1>5 DEF Incoming
    <2>2. done'.logs = done.logs
      BY <1>5, HistoryFields DEF UserMessageLog, Idle
    <2>3. CASE ClientSend
      <3>1. UNCHANGED <<ring, pfd, state, delivered>> /\ Top.pc = "send"
        BY <2>3 DEF ClientSend, daemonVars, At
      <3>2. /\ stack'[1].pc = IF Routed /\ (Top.force \/ state = "SEND_DIRECT") THEN "loop" ELSE "store"
            /\ stack'[1].idx = Top.idx
        BY <1>5, <2>3, BaseGoesOn
      <3>3. Ahead(1, Top.msg.n) /\ Before(ring, Top.msg.n) /\ Top.idx = 1
        <4>1. \A k \in 1 .. Len(pfd) : pfd[k] \in Conn
          BY DEF Typed, TypeOK
        <4> QED
          BY <2>1, <3>1, <4>1 DEF Ahead, IncomingFrame
      <3>4. Routed /\ (Top.force \/ state = "SEND_DIRECT") => state = "SEND_DIRECT"
        BY <1>5
      <3> QED
        BY <2>1, <2>2, <3>1, <3>2, <3>3, <3>4 DEF IncomingFrame, Ahead
    <2>4. CASE SendAllMultiple
      <3>1. UNCHANGED <<ring, pfd, state>> /\ Top.pc = "loop" /\ Top.idx \in Nat
        BY <2>4, DeliveredUpdate
      <3>2. stack'[1].pc = "loop" /\ stack'[1].idx = Top.idx + 1
        BY <1>5, <2>4, BaseGoesOn
      <3>3. PICK i, n : i = Top.idx /\ n = Top.msg.n
        OBVIOUS
      <3>4. Ahead(i, n)
        BY <2>1, <3>1, <3>3 DEF IncomingFrame
      <3>5. Ahead(i + 1, n)'
        BY <2>4, <3>3, <3>4, AheadAdvances
      <3> QED
        BY <2>1, <2>2, <3>1, <3>2, <3>3, <3>5 DEF IncomingFrame, Ahead
    <2>5. CASE SendAllMultipleEnd
      <3>1. UNCHANGED <<ring, pfd, state, delivered>> /\ Top.pc = "loop"
        BY <2>5 DEF SendAllMultipleEnd, daemonVars, At
      <3>2. stack'[1].pc = "store"
        BY <1>5, <2>5, BaseGoesOn
      <3>3. pfd = <<>> => Ahead(1, Top.msg.n)
        BY DEF Ahead
      <3> QED
        BY <2>1, <2>2, <3>1, <3>2, <3>3 DEF IncomingFrame, Ahead
    <2>6. CASE ReportOverflow /\ stack'[1].pc = "reported"
      BY <2>1, <2>2, <2>6 DEF IncomingFrame
    <2> QED
      BY <1>5, <2>3, <2>4, <2>5, <2>6
  <1> QED
    BY <1>2, <1>3, <1>4, <1>5, BaseMoves

\* A log message that is sent is the oldest of the ring, or a new one while the ring is empty.
LEMMA LogDelivered ==
  ASSUME Typed, Shape, Direct, Ordered, Forced, Incoming, SendAllMultiple, Top.msg.kind = "log"
  PROVE  /\ Ahead(Top.idx, Top.msg.n) /\ Top.msg.n < done.logs + 1
         /\ \/ Top.force /\ ring # <<>> /\ Top.msg = ring[1]
            \/ ~Top.force /\ ring = <<>> /\ Len(stack) = 1 /\ Top = stack[1]
  <1>1. stack \in Seq(FrameType) /\ ring \in Seq(Message) /\ pfd \in Seq(Conn) /\ done.logs \in Nat
    BY DEF Typed, TypeOK, History
  <1>2. /\ stack # <<>> /\ Top = stack[Len(stack)] /\ Len(stack) \in 1 .. Len(stack) /\ Top.pc = "loop"
        /\ Top.idx \in 1 .. Len(pfd)
    BY DeliveredUpdate
  <1>3. CASE Top.force
    <2>1. ForcedFrame(Len(stack))
      BY <1>2 DEF Forced
    <2>2. ring # <<>> /\ Top.msg = ring[1] /\ Ahead(Top.idx, Top.msg.n)
      BY <1>2, <1>3, <2>1 DEF ForcedFrame
    <2>3. 1 \in 1 .. Len(ring)
      BY <1>1, <2>2, EmptySeq
    <2>4. ring[1].n < done.logs + 1
      BY <2>2, <2>3 DEF Ordered, Before
    <2> QED
      BY <1>3, <2>2, <2>4
  <1>4. CASE ~Top.force
    <2>1. FrameOK(Len(stack))
      BY <1>2 DEF Shape
    <2>2. Len(stack) = 1
      BY <1>2, <1>4, <2>1 DEF FrameOK
    <2>3. IncomingFrame(Top) /\ Top = stack[1]
      BY <1>2, <2>2 DEF Incoming
    <2>4. Top.msg = Log(done.logs) /\ Ahead(Top.idx, Top.msg.n) /\ (state = "SEND_DIRECT" \/ pfd = <<>>)
      BY <1>2, <2>3 DEF IncomingFrame
    <2>5. Top.msg.n = done.logs
      BY <2>4 DEF Log
    <2>6. pfd # <<>>
      BY <1>2
    <2>7. ring = <<>>
      BY <2>4, <2>6 DEF Direct
    <2> QED
      BY <1>1, <1>4, <2>2, <2>3, <2>4, <2>5, <2>7
  <1> QED
    BY <1>3, <1>4

\* A log message that is stored is a new one.
LEMMA LogStored ==
  ASSUME Typed, Shape, Incoming, StoreInRing \/ Discard, Top.msg.kind = "log"
  PROVE  /\ Before(ring, Top.msg.n) /\ Top.msg = Log(done.logs) /\ Ahead(1, Top.msg.n)
         /\ Len(stack) = 1 /\ Top = stack[1] /\ stack # <<>>
  <1>1. stack \in Seq(FrameType)
    BY DEF Typed, TypeOK
  <1>2. /\ stack # <<>> /\ Top = stack[Len(stack)] /\ Len(stack) \in 1 .. Len(stack)
        /\ Top.pc = "store" /\ ~Top.force /\ state # "SEND_DIRECT"
    BY <1>1, TopFacts DEF StoreInRing, Discard, Buffering
  <1>3. FrameOK(Len(stack))
    BY <1>2 DEF Shape
  <1>4. Len(stack) = 1
    BY <1>2, <1>3 DEF FrameOK
  <1>5. IncomingFrame(Top)
    BY <1>2, <1>4 DEF Incoming
  <1> QED
    BY <1>2, <1>4, <1>5 DEF IncomingFrame

\* The ring after a step: an entry came, the oldest went, or nothing changed.
LEMMA RingMoves ==
  ASSUME Typed, Holding, Next
  PROVE  \/ UNCHANGED ring
         \/ StoreInRing /\ ring' = Append(ring, Top.msg) /\ Top.msg \in Message
         \/ SendRingbufferNext /\ ring # <<>> /\ ring' = Tail(ring) /\ ret = "OK"
  <1>1. stack \in Seq(FrameType)
    BY DEF Typed, TypeOK
  <1>2. CASE StoreInRing
    BY <1>1, <1>2, TopFacts DEF StoreInRing, FrameType
  <1>3. CASE SendRingbufferNext
    <2>1. Len(stack) \in 1 .. Len(stack) /\ stack[Len(stack)].pc = "drained"
      BY <1>1, <1>3, TopFacts DEF SendRingbufferNext
    <2>2. ring # <<>>
      BY <2>1 DEF Holding
    <2> QED
      BY <1>1, <1>3, <2>2, SendRingbufferNextStack
  <1> QED
    BY <1>2, <1>3, RingChanges

LEMMA LogsGrow ==
  ASSUME Typed, Next
  PROVE  /\ done.logs \in Nat /\ done'.logs \in Nat /\ done.logs <= done'.logs
         /\ UserMessageLog => done'.logs = done.logs + 1
  <1>1. done \in History /\ done' \in History
    BY HistoryStep DEF Typed
  <1>2. done.logs \in Nat /\ done'.logs \in Nat
    BY <1>1 DEF History
  <1>3. UserMessageLog => done'.logs = done.logs + 1
    <2>1. UserMessageLog => done' = [done EXCEPT !.logs = @ + 1]
      BY DEF UserMessageLog
    <2> QED
      BY <1>1, <2>1 DEF History
  <1>4. done'.logs = done.logs \/ done'.logs = done.logs + 1
    BY <1>3, HistoryFields
  <1> QED
    BY <1>2, <1>3, <1>4

LEMMA OrderedStep ==
  ASSUME Typed, Shape, Direct, Holding, Ordered, Forced, Incoming, Next
  PROVE  Ordered'
  <1>1. ring \in Seq(Message) /\ done.logs \in Nat /\ done'.logs \in Nat /\ done.logs <= done'.logs
    BY LogsGrow DEF Typed, TypeOK
  <1>2. ring' \in Seq(Message)
    BY RingStep
  <1>3. Sorted(ring') /\ Before(ring', done.logs + 1)
    <2>1. CASE UNCHANGED ring
      BY <2>1 DEF Ordered
    <2>2. CASE StoreInRing /\ ring' = Append(ring, Top.msg) /\ Top.msg \in Message
      <3>1. Top.msg.kind = "log" => Before(ring, Top.msg.n) /\ Top.msg.n < done.logs + 1
        <4> SUFFICES ASSUME Top.msg.kind = "log" PROVE Before(ring, Top.msg.n) /\ Top.msg.n < done.logs + 1
          OBVIOUS
        <4>1. Before(ring, Top.msg.n) /\ Top.msg = Log(done.logs)
          BY <2>2, LogStored
        <4>2. Top.msg.n = done.logs
          BY <4>1 DEF Log
        <4> QED
          BY <1>1, <4>1, <4>2
      <3> QED
        BY <1>1, <2>2, <3>1, SortedAppend, BeforeAppend DEF Ordered
    <2>3. CASE ring # <<>> /\ ring' = Tail(ring)
      BY <1>1, <2>3, OrderTail DEF Ordered
    <2> QED
      BY <2>1, <2>2, <2>3, RingMoves
  <1>4. ASSUME NEW c \in Conn PROVE Sorted(delivered'[c]) /\ Before(delivered'[c], done.logs + 1)
    <2>1. delivered[c] \in Seq(Message) /\ Sorted(delivered[c]) /\ Before(delivered[c], done.logs + 1)
      BY DEF Typed, TypeOK, Ordered
    <2>2. CASE delivered'[c] = delivered[c]
      BY <2>1, <2>2
    <2>3. CASE SendAllMultiple /\ c = pfd[Top.idx] /\ delivered'[c] = Append(delivered[c], Top.msg)
      <3>1. Top.msg \in Message /\ Top.idx \in 1 .. Len(pfd)
        BY <2>3, DeliveredUpdate
      <3>2. Top.msg.kind = "log" => Before(delivered[c], Top.msg.n) /\ Top.msg.n < done.logs + 1
        <4>1. Top.idx \in 1 .. Len(pfd) /\ Top.idx >= Top.idx
          BY <3>1
        <4> QED
          BY <2>3, <4>1, LogDelivered DEF Ahead
      <3> QED
        BY <2>1, <2>3, <3>1, <3>2, SortedAppend, BeforeAppend
    <2> QED
      BY <2>2, <2>3, DeliveredChanges, DeliveredUpdate
  <1>5. delivered' \in [Conn -> Seq(Message)]
    BY DeliveredStep
  <1>6. done.logs + 1 \in Nat /\ done'.logs + 1 \in Nat /\ done.logs + 1 <= done'.logs + 1
    BY <1>1
  <1>7. Before(ring', done'.logs + 1)
    BY <1>2, <1>3, <1>6, BeforeLater
  <1>8. ASSUME NEW c \in Conn PROVE Before(delivered'[c], done'.logs + 1)
    <2>1. delivered'[c] \in Seq(Message)
      BY <1>5
    <2> QED
      BY <1>4, <1>6, <2>1, BeforeLater
  <1> QED
    BY <1>3, <1>4, <1>7, <1>8 DEF Ordered

\* An entry that was sent stays so until it is removed.
LEMMA HeadKept ==
  ASSUME Typed, Shape, Next, HeadSent
  PROVE  HeadSent' \/ (SendRingbufferNext /\ ret = "OK")
  <1>1. stack \in Seq(FrameType) /\ stack' \in Seq(FrameType) /\ StackMove
    BY StackTyped, StackMoves DEF Typed, TypeOK
  <1>2. CASE At("drained") /\ ret = "OK"
    <2>1. SendRingbufferNext \/ UNCHANGED <<stack, ret>>
      BY <1>2, Dispatch DEF At, Idle
    <2> QED
      BY <1>2, <2>1 DEF HeadSent, At, Idle, Top
  <1>3. ASSUME NEW i \in 1 .. Len(stack), stack[i].force, stack[i].sent
        PROVE  HeadSent'
    <2>1. stack # <<>> /\ Len(stack) \in Nat /\ Top = stack[Len(stack)] /\ i > 1
      <3>1. i > 1
        BY <1>1, <1>3, OneForced
      <3> QED
        BY <1>1, <3>1 DEF Top
    <2>2. ASSUME i \in 1 .. Len(stack'), stack'[i].force, stack'[i].sent PROVE HeadSent'
      BY <2>2 DEF HeadSent
    <2>3. CASE i < Len(stack)
      <3>1. CASE Popped
        <4>1. i \in 1 .. Len(stack') /\ stack'[i] = stack[i]
          BY <2>1, <2>3, <3>1 DEF Popped
        <4> QED
          BY <1>3, <2>2, <4>1
      <3>2. ASSUME NEW f, Replaced(f) PROVE HeadSent'
        <4>1. i \in 1 .. Len(stack') /\ stack'[i] = stack[i]
          BY <2>1, <2>3, <3>2 DEF Replaced
        <4> QED
          BY <1>3, <2>2, <4>1
      <3>3. ASSUME NEW f, NEW g, Pushed(f, g) PROVE HeadSent'
        <4>1. i \in 1 .. Len(stack') /\ stack'[i] = stack[i]
          BY <2>1, <2>3, <3>3 DEF Pushed
        <4> QED
          BY <1>3, <2>2, <4>1
      <3>4. CASE UNCHANGED stack
        BY <1>3, <2>2, <3>4
      <3> QED
        BY <1>1, <2>1, <3>1, <3>2, <3>3, <3>4 DEF StackMove, Returns, GoesOn, CallsOn, Starts, StartsWith
    <2>4. CASE i = Len(stack)
      <3>1. Top.force /\ Top.sent /\ Top.pc \in SendPcs
        BY <1>3, <2>1, <2>4 DEF Shape, FrameOK
      <3>2. ASSUME NEW f, Replaced(f), f.force, f.sent PROVE HeadSent'
        <4>1. i \in 1 .. Len(stack') /\ stack'[i] = f
          BY <2>1, <2>4, <3>2 DEF Replaced
        <4> QED
          BY <2>2, <3>2, <4>1
      <3>3. ASSUME NEW f, NEW g, Pushed(f, g), f.force, f.sent PROVE HeadSent'
        <4>1. i \in 1 .. Len(stack') /\ stack'[i] = f
          BY <2>1, <2>4, <3>3 DEF Pushed
        <4> QED
          BY <2>2, <3>3, <4>1
      <3>4. ASSUME Popped, ret' = "OK" PROVE HeadSent'
        BY <1>1, <2>1, <3>1, <3>4, TopPopped DEF HeadSent
      <3>5. \A pc, idx : Goes(pc, idx, Top.sent).force /\ Goes(pc, idx, Top.sent).sent
        BY <3>1 DEF Goes
      <3>6. CASE ClientSend
        BY <1>1, <3>2, <3>5, <3>6, ClientSendStack
      <3>7. CASE SendAllMultiple
        <4>1. Top.idx # 0 /\ pfd \in Seq(Conn)
          BY <3>7, DeliveredUpdate DEF Typed, TypeOK
        <4>2. Goes("loop", Top.idx + 1, TRUE).force /\ Goes("loop", Top.idx + 1, TRUE).sent
          BY <3>1 DEF Goes
        <4> QED
          BY <1>1, <3>2, <3>3, <3>5, <3>7, <4>1, <4>2, SendAllMultipleStack
      <3>8. CASE SendAllMultipleEnd
        BY <1>1, <3>1, <3>2, <3>5, <3>8, SendAllMultipleEndStack
      <3>9. CASE ReportOverflow
        <4>1. overflow_counter \in Nat /\ done.reports \in Nat
          BY DEF Typed, TypeOK, History
        <4> QED
          BY <1>1, <3>3, <3>4, <3>5, <3>9, <4>1, ReportOverflowStack
      <3>10. CASE OverflowReported
        BY <1>1, <3>4, <3>10, OverflowReportedStack
      <3>11. CASE UNCHANGED stack
        BY <1>3, <2>2, <3>11
      <3>12. ~StoreInRing /\ ~Discard
        BY <3>1 DEF StoreInRing, Discard, Buffering
      <3> QED
        BY <2>1, <3>1, <3>6, <3>7, <3>8, <3>9, <3>10, <3>11, <3>12, Dispatch DEF At, SendPcs
    <2> QED
      BY <2>1, <2>3, <2>4
  <1> QED
    BY <1>2, <1>3 DEF HeadSent

LEMMA QueuedStep ==
  ASSUME Typed, Shape, Table, Direct, Holding, Ordered, Queued, Forced, Incoming, Next
  PROVE  Queued'
  <1>1. ring \in Seq(Message) /\ Len(ring) \in Nat /\ pfd \in Seq(Conn) /\ Len(pfd) \in Nat
    BY DEF Typed, TypeOK
  <1>2. \A k \in 1 .. Len(pfd) : pfd[k] \in Conn
    BY <1>1
  <1>3. stack \in Seq(FrameType)
    BY DEF Typed, TypeOK
  <1>4. CASE SendRingbufferNext /\ ret = "OK"
    <2>1. ring # <<>> /\ ring' = Tail(ring)
      <3>1. Len(stack) \in 1 .. Len(stack) /\ stack[Len(stack)].pc = "drained"
        BY <1>3, <1>4, TopFacts DEF SendRingbufferNext
      <3> QED
        BY <1>3, <1>4, <3>1, SendRingbufferNextStack DEF Holding
    <2>2. UNCHANGED <<pfd, delivered>>
      BY <1>4 DEF SendRingbufferNext
    <2>3. \A j \in 1 .. Len(ring') : ring'[j] = ring[j + 1] /\ j + 1 \in 1 .. Len(ring) /\ j + 1 # 1
      BY <1>1, <2>1, OrderTail
    <2> QED
      BY <2>2, <2>3 DEF Queued
  <1>5. CASE ~(SendRingbufferNext /\ ret = "OK")
    <2>1. HeadSent => HeadSent'
      BY <1>5, HeadKept
    <2>2. CASE StoreInRing
      <3>1. ring' = Append(ring, Top.msg) /\ UNCHANGED <<pfd, delivered>>
        BY <2>2 DEF StoreInRing
      <3>2. /\ Len(ring') = Len(ring) + 1 /\ ring'[Len(ring) + 1] = Top.msg
            /\ \A j \in 1 .. Len(ring) : ring'[j] = ring[j]
        BY <1>1, <3>1
      <3>3. Top.msg.kind = "log" => \A k \in 1 .. Len(pfd) : Before(delivered[pfd[k]], Top.msg.n)
        BY <1>1, <2>2, LogStored DEF Ahead
      <3>4. \A j \in 1 .. Len(ring') : j \in 1 .. Len(ring) \/ j = Len(ring) + 1
        BY <1>1, <3>2
      <3> QED
        BY <2>1, <3>1, <3>2, <3>3, <3>4 DEF Queued
    <2>3. CASE ~StoreInRing
      <3>1. UNCHANGED ring
        BY <1>5, <2>3, RingMoves
      <3>2. CASE SendAllMultiple /\ Top.msg.kind # "log"
        <4>1. UNCHANGED pfd
          BY <3>2, DeliveredUpdate
        <4>2. \A k \in 1 .. Len(pfd) : \A n : Before(delivered[pfd[k]], n) => Before(delivered'[pfd[k]], n)
          BY <1>2, <3>2, BeforeKept
        <4> QED
          BY <2>1, <3>1, <4>1, <4>2 DEF Queued
      <3>3. CASE SendAllMultiple /\ Top.msg.kind = "log"
        <4>1. /\ UNCHANGED pfd /\ Top = stack[Len(stack)] /\ Top.idx \in 1 .. Len(pfd) /\ Top.msg \in Message
              /\ Len(stack) \in 1 .. Len(stack) /\ stack # <<>>
          BY <3>3, DeliveredUpdate
        <4>2. CASE ring = <<>>
          BY <3>1, <4>2 DEF Queued
        <4>3. CASE Top.force /\ Top.msg = ring[1] /\ ring # <<>>
          <5>1. CASE pfd[Top.idx] \in broken
            <6>1. UNCHANGED delivered
              BY <3>3, <5>1 DEF SendAllMultiple
            <6> QED
              BY <2>1, <3>1, <4>1, <6>1 DEF Queued
          <5>2. CASE pfd[Top.idx] \notin broken
            <6>1. HeadSent'
              <7> DEFINE f == Goes("loop", Top.idx + 1, TRUE)
              <7>1. Top.idx # 0
                BY <4>1
              <7>2. Replaced(f)
                BY <1>1, <1>3, <3>3, <5>2, <7>1, SendAllMultipleStack
              <7>3. f.force /\ f.sent
                BY <4>3 DEF Goes
              <7> HIDE DEF f
              <7>4. Len(stack) \in 1 .. Len(stack') /\ stack'[Len(stack)] = f
                BY <4>1, <7>2 DEF Replaced
              <7> QED
                BY <7>3, <7>4 DEF HeadSent
            <6>2. ASSUME NEW k \in 1 .. Len(pfd), NEW j \in 1 .. Len(ring), j # 1, ring[j].kind = "log"
                  PROVE  Before(delivered'[pfd[k]], ring[j].n)
              <7>1. Before(delivered[pfd[k]], ring[j].n)
                BY <6>2 DEF Queued
              <7>2. Top.msg.n < ring[j].n
                <8>1. 1 \in 1 .. Len(ring) /\ 1 < j
                  BY <1>1, <6>2
                <8> QED
                  BY <3>3, <4>3, <6>2, <8>1 DEF Ordered, Sorted
              <7>3. delivered[pfd[k]] \in Seq(Message)
                BY <1>2 DEF Typed, TypeOK
              <7>4. \/ delivered'[pfd[k]] = delivered[pfd[k]]
                    \/ delivered'[pfd[k]] = Append(delivered[pfd[k]], Top.msg)
                BY <1>2, <3>3, DeliveredUpdate
              <7> QED
                BY <4>1, <7>1, <7>2, <7>3, <7>4, BeforeAppend
            <6> QED
              BY <3>1, <4>1, <6>1, <6>2 DEF Queued
          <5> QED
            BY <5>1, <5>2
        <4> QED
          BY <3>3, <4>2, <4>3, LogDelivered
      <3>4. CASE UNCHANGED delivered
        <4>1. CASE UNCHANGED pfd
          BY <2>1, <3>1, <3>4, <4>1 DEF Queued
        <4>2. CASE CloseSocket /\ pfd' # pfd
          <5>1. /\ Len(pfd') = Len(pfd) - 1
                /\ \E at \in 1 .. Len(pfd) :
                     /\ pfd[at] = Top.idx
                     /\ \A k \in 1 .. Len(pfd) - 1 : pfd'[k] = IF k < at THEN pfd[k] ELSE pfd[k + 1]
            BY <1>1, <4>2, CloseTable
          <5>2. \A k \in 1 .. Len(pfd') : \E l \in 1 .. Len(pfd) : pfd'[k] = pfd[l]
            BY <1>1, <5>1
          <5> QED
            BY <2>1, <3>1, <3>4, <5>2 DEF Queued
        <4>3. CASE ClientConnect
          <5>1. pfd' = Append(pfd, done.conns + 1) /\ done.conns < limit.conns
            BY <4>3 DEF ClientConnect, RegisterConnection
          <5>2. done.conns \in Nat /\ done.conns + 1 \in Conn
            BY <5>1, ConstAssumption DEF Typed, History, Limit, Conn
          <5>3. delivered[done.conns + 1] = <<>>
            BY <5>2 DEF Table
          <5>4. \A n : Before(<<>>, n)
            BY DEF Before
          <5>5. \A k \in 1 .. Len(pfd') : \/ k \in 1 .. Len(pfd) /\ pfd'[k] = pfd[k]
                                          \/ pfd'[k] = done.conns + 1
            BY <1>1, <5>1
          <5> QED
            BY <2>1, <3>1, <3>4, <5>3, <5>4, <5>5 DEF Queued
        <4> QED
          BY <4>1, <4>2, <4>3, TableChanges
      <3> QED
        BY <3>2, <3>3, <3>4, DeliveredChanges
    <2> QED
      BY <2>2, <2>3
  <1> QED
    BY <1>4, <1>5

\* A call of the sending of the ring that waits keeps what it knows.
LEMMA ForcedWaits ==
  ASSUME Typed, Shape, Holding, Next, NEW i \in 1 .. Len(stack), ForcedFrame(i), stack[i].force,
         i < Len(stack) \/ ~SendAllMultiple,
         NEW f, f = stack[i]
  PROVE  /\ ring' # <<>> /\ ring'[1] = ring[1]
         /\ f.pc = "loop" /\ f.msg.kind = "log" => Ahead(f.idx, f.msg.n)'
  <1>1. stack \in Seq(FrameType) /\ Len(stack) \in Nat /\ stack # <<>>
    BY DEF Typed, TypeOK
  <1>2. ring # <<>> /\ (f.pc = "loop" /\ f.msg.kind = "log" => Ahead(f.idx, f.msg.n))
    BY DEF ForcedFrame
  <1>3. ring \in Seq(Message)
    BY DEF Typed, TypeOK
  <1>4. ring' # <<>> /\ ring'[1] = ring[1]
    <2>1. ~SendRingbufferNext
      <3>1. SendRingbufferNext => Top.pc \in DrainPcs
        BY DEF SendRingbufferNext, At, DrainPcs
      <3> QED
        BY <1>1, <3>1, NoneForced
    <2>2. CASE ring' = Append(ring, Top.msg) /\ Top.msg \in Message
      <3>1. Len(ring) \in Nat /\ Len(ring) >= 1
        BY <1>2, <1>3, EmptySeq
      <3> QED
        BY <1>3, <2>2, <3>1
    <2> QED
      BY <1>2, <2>1, <2>2, RingMoves
  <1>5. SendAllMultiple => Top.msg.kind # "log"
    <2> SUFFICES ASSUME SendAllMultiple PROVE Top.msg.kind # "log"
      OBVIOUS
    <2>1. i < Len(stack) /\ i > 1 /\ Top = stack[Len(stack)] /\ Len(stack) \in 1 .. Len(stack)
      BY <1>1, OneForced, DeliveredUpdate
    <2>2. ~Top.force
      <3>1. \A j \in 1 .. Len(stack) : stack[j].force => j = i
        BY <1>1, OneForced
      <3> QED
        BY <2>1, <3>1
    <2>3. FrameOK(Len(stack))
      BY <2>1 DEF Shape
    <2> QED
      BY <1>1, <2>1, <2>2, <2>3 DEF FrameOK
  <1>6. ~ClientConnect
    BY <1>1 DEF ClientConnect, Idle
  <1>7. f.idx \in Nat
    <2>1. f \in FrameType
      BY <1>1
    <2> QED
      BY <2>1 DEF FrameType
  <1>8. f.pc = "loop" /\ f.msg.kind = "log" => Ahead(f.idx, f.msg.n)'
    BY <1>2, <1>5, <1>6, <1>7, AheadKept
  <1> QED
    BY <1>4, <1>8

\* What Forced says after the step of a frame f.
ForcedAfter(f) ==
  f.force =>
    /\ ring' # <<>> /\ f.msg = ring'[1]
    /\ f.pc = "loop" /\ f.msg.kind = "log" => Ahead(f.idx, f.msg.n)'
    /\ f.pc = "send" => f.idx = 1 /\ ~f.sent

LEMMA ForcedStays ==
  ASSUME Typed, Shape, Holding, Forced, Next, NEW i \in 1 .. Len(stack),
         i < Len(stack) \/ ~SendAllMultiple, NEW f, f = stack[i]
  PROVE  ForcedAfter(f)
  <1>1. ForcedFrame(i)
    BY DEF Forced
  <1>2. CASE stack[i].force
    <2>1. /\ ring' # <<>> /\ ring'[1] = ring[1]
          /\ f.pc = "loop" /\ f.msg.kind = "log" => Ahead(f.idx, f.msg.n)'
      BY <1>1, <1>2, ForcedWaits
    <2> QED
      BY <1>1, <1>2, <2>1 DEF ForcedFrame, ForcedAfter
  <1> QED
    BY <1>2 DEF ForcedAfter

LEMMA ForcedOne ==
  ASSUME NEW i \in 1 .. Len(stack'), NEW f, stack'[i] = f, ForcedAfter(f)
  PROVE  ForcedFrame(i)'
  BY DEF ForcedFrame, ForcedAfter, Ahead

LEMMA ForcedPopped ==
  ASSUME Typed, Shape, Holding, Forced, Next, stack # <<>>, Popped
  PROVE  Forced'
  <1>1. Len(stack) \in Nat /\ Len(stack') = Len(stack) - 1 /\ \A i \in 1 .. Len(stack) - 1 : stack'[i] = stack[i]
    BY DEF Popped, Typed, TypeOK
  <1>2. ASSUME NEW i \in 1 .. Len(stack') PROVE ForcedFrame(i)'
    <2>1. i \in 1 .. Len(stack) /\ i < Len(stack) /\ stack'[i] = stack[i]
      BY <1>1
    <2>2. PICK f : f = stack[i]
      OBVIOUS
    <2>3. ForcedAfter(f)
      BY <2>1, <2>2, ForcedStays
    <2> QED
      BY <2>1, <2>2, <2>3, ForcedOne
  <1> QED
    BY <1>2 DEF Forced

LEMMA ForcedReplaced ==
  ASSUME Typed, Shape, Holding, Forced, Next, stack # <<>>, NEW g, Replaced(g), ForcedAfter(g)
  PROVE  Forced'
  <1>1. Len(stack) \in Nat /\ Len(stack') = Len(stack)
        /\ \A i \in 1 .. Len(stack) : stack'[i] = IF i = Len(stack) THEN g ELSE stack[i]
    BY DEF Replaced, Typed, TypeOK
  <1>2. ASSUME NEW i \in 1 .. Len(stack') PROVE ForcedFrame(i)'
    <2>1. CASE i = Len(stack)
      BY <1>1, <2>1, ForcedOne
    <2>2. CASE i # Len(stack)
      <3>1. i \in 1 .. Len(stack) /\ i < Len(stack) /\ stack'[i] = stack[i]
        BY <1>1, <2>2
      <3>2. PICK f : f = stack[i]
        OBVIOUS
      <3>3. ForcedAfter(f)
        BY <3>1, <3>2, ForcedStays
      <3> QED
        BY <3>1, <3>2, <3>3, ForcedOne
    <2> QED
      BY <2>1, <2>2
  <1> QED
    BY <1>2 DEF Forced

LEMMA ForcedPushed ==
  ASSUME Typed, Shape, Holding, Forced, Next, stack # <<>>, NEW g, NEW h, Pushed(g, h),
         ForcedAfter(g), ForcedAfter(h)
  PROVE  Forced'
  <1>1. Len(stack) \in Nat /\ Len(stack') = Len(stack) + 1
        /\ \A i \in 1 .. Len(stack) + 1 :
             stack'[i] = IF i = Len(stack) + 1 THEN h ELSE IF i = Len(stack) THEN g ELSE stack[i]
    BY DEF Pushed, Typed, TypeOK
  <1>2. ASSUME NEW i \in 1 .. Len(stack') PROVE ForcedFrame(i)'
    <2>1. CASE i \in {Len(stack), Len(stack) + 1}
      <3>1. stack'[i] = g \/ stack'[i] = h
        BY <1>1, <2>1
      <3> QED
        BY <3>1, ForcedOne
    <2>2. CASE i \notin {Len(stack), Len(stack) + 1}
      <3>1. i \in 1 .. Len(stack) /\ i < Len(stack) /\ stack'[i] = stack[i]
        BY <1>1, <2>2
      <3>2. PICK f : f = stack[i]
        OBVIOUS
      <3>3. ForcedAfter(f)
        BY <3>1, <3>2, ForcedStays
      <3> QED
        BY <3>1, <3>2, <3>3, ForcedOne
    <2> QED
      BY <2>1, <2>2
  <1> QED
    BY <1>2 DEF Forced

\* The call of the sending of the ring goes on itself.
LEMMA ForcedMoves ==
  ASSUME Typed, Shape, Table, Holding, Ordered, Queued, Forced, Next, stack # <<>>, Top.force
  PROVE  Forced'
  <1>1. stack \in Seq(FrameType) /\ Len(stack) \in 1 .. Len(stack) /\ Top = stack[Len(stack)]
    BY EmptySeq DEF Typed, TypeOK, Top
  <1>2. Top.pc \in SendPcs
    BY <1>1 DEF Shape, FrameOK
  <1>3. ForcedFrame(Len(stack))
    BY <1>1 DEF Forced
  <1>4. ring # <<>> /\ Top.msg = ring[1]
    BY <1>1, <1>3 DEF ForcedFrame
  <1>5. ring \in Seq(Message) /\ pfd \in Seq(Conn)
    BY DEF Typed, TypeOK
  <1>6. CASE ClientSend
    <2>1. Top.pc = "send" /\ UNCHANGED <<ring, pfd, delivered>>
      BY <1>6 DEF ClientSend, At, daemonVars
    <2>2. Top.idx = 1 /\ ~Top.sent
      BY <1>1, <1>3, <2>1 DEF ForcedFrame
    <2>3. ~HeadSent
      <3>1. \A j \in 1 .. Len(stack) : stack[j].force => j = Len(stack)
        BY <1>1, OneForced
      <3> QED
        BY <1>1, <2>1, <2>2, <3>1 DEF HeadSent, At
    <2>4. ring[1].kind = "log" => Ahead(1, ring[1].n)
      <3>1. 1 \in 1 .. Len(ring)
        BY <1>4, <1>5, EmptySeq
      <3> QED
        BY <2>3, <3>1 DEF Queued, Ahead
    <2>5. PICK f : f = Goes(IF Routed /\ (Top.force \/ state = "SEND_DIRECT") THEN "loop" ELSE "store",
                           Top.idx, Top.sent)
      OBVIOUS
    <2>6. Replaced(f)
      BY <1>1, <1>6, <2>5, ClientSendStack
    <2>7. f.idx = 1 /\ f.msg = ring[1] /\ f.pc # "send"
      BY <1>4, <2>2, <2>5 DEF Goes
    <2>8. ring' # <<>> /\ ring'[1] = ring[1] /\ (ring[1].kind = "log" => Ahead(1, ring[1].n)')
      BY <1>4, <2>1, <2>4 DEF Ahead
    <2>9. ForcedAfter(f)
      BY <2>7, <2>8 DEF ForcedAfter, Ahead
    <2> QED
      BY <2>6, <2>9, ForcedReplaced
  <1>7. CASE SendAllMultiple
    <2>1. Top.pc = "loop" /\ UNCHANGED <<ring, pfd>> /\ Top.idx \in Nat /\ Top.idx # 0
      BY <1>7, DeliveredUpdate
    <2>2. PICK i, n : i = Top.idx /\ n = Top.msg.n
      OBVIOUS
    <2>3. Top.msg.kind = "log" => Ahead(i + 1, n)'
      <3>1. Top.msg.kind = "log" => Ahead(i, n)
        BY <1>1, <1>3, <2>1, <2>2 DEF ForcedFrame
      <3> QED
        BY <1>7, <2>2, <3>1, AheadAdvances
    <2>4. ASSUME NEW f, f.pc = "loop", f.idx = i + 1, f.msg = Top.msg PROVE ForcedAfter(f)
      BY <1>4, <2>1, <2>2, <2>3, <2>4 DEF ForcedAfter, Ahead
    <2>5. CASE pfd[Top.idx] \in broken
      <3>1. PICK f, g : f = Goes("loop", Top.idx + 1, Top.sent) /\ g = Close(pfd[Top.idx])
        OBVIOUS
      <3>2. Pushed(f, g)
        BY <1>1, <1>5, <1>7, <2>1, <2>5, <3>1, SendAllMultipleStack
      <3>3. f.pc = "loop" /\ f.idx = i + 1 /\ f.msg = Top.msg /\ ~g.force
        BY <2>2, <3>1 DEF Goes, Close, Frame
      <3>4. ForcedAfter(f) /\ ForcedAfter(g)
        BY <2>4, <3>3 DEF ForcedAfter
      <3> QED
        BY <3>2, <3>4, ForcedPushed
    <2>6. CASE pfd[Top.idx] \notin broken
      <3>1. PICK f : f = Goes("loop", Top.idx + 1, TRUE)
        OBVIOUS
      <3>2. Replaced(f)
        BY <1>1, <1>5, <1>7, <2>1, <2>6, <3>1, SendAllMultipleStack
      <3>3. f.pc = "loop" /\ f.idx = i + 1 /\ f.msg = Top.msg
        BY <2>2, <3>1 DEF Goes
      <3> QED
        BY <2>4, <3>2, <3>3, ForcedReplaced
    <2> QED
      BY <2>5, <2>6
  <1>8. CASE SendAllMultipleEnd
    <2>1. PICK f : f = Goes("store", Top.idx, Top.sent)
      OBVIOUS
    <2>2. Popped \/ Replaced(f)
      BY <1>1, <1>8, <2>1, SendAllMultipleEndStack
    <2>3. f.pc = "store" /\ f.msg = ring[1] /\ UNCHANGED ring
      BY <1>4, <1>8, <2>1 DEF Goes, SendAllMultipleEnd, daemonVars
    <2>4. ForcedAfter(f)
      BY <1>4, <2>3 DEF ForcedAfter
    <2> QED
      BY <2>2, <2>4, ForcedPopped, ForcedReplaced
  <1>9. CASE ReportOverflow
    <2>1. overflow_counter \in Nat /\ done.reports \in Nat
      BY DEF Typed, TypeOK, History
    <2>2. PICK f, g : /\ f = Goes("reported", Top.idx, Top.sent)
                      /\ g = Send(Overflow(overflow_counter, done.reports + 1), FALSE)
      OBVIOUS
    <2>3. Popped \/ Pushed(f, g)
      BY <1>1, <1>9, <2>1, <2>2, ReportOverflowStack
    <2>4. f.pc = "reported" /\ f.msg = ring[1] /\ ~g.force /\ UNCHANGED ring
      BY <1>4, <1>9, <2>2 DEF Goes, Send, Frame, ReportOverflow
    <2>5. ForcedAfter(f) /\ ForcedAfter(g)
      BY <1>4, <2>4 DEF ForcedAfter
    <2> QED
      BY <2>3, <2>5, ForcedPopped, ForcedPushed
  <1>10. CASE OverflowReported
    BY <1>1, <1>10, ForcedPopped, OverflowReportedStack
  <1>11. ~StoreInRing /\ ~Discard
    BY DEF StoreInRing, Discard, Buffering
  <1>12. CASE UNCHANGED <<daemonVars, stack, ret, delivered, offline, done>>
    BY <1>12 DEF Forced, ForcedFrame, Ahead, daemonVars
  <1> QED
    BY <1>2, <1>6, <1>7, <1>8, <1>9, <1>10, <1>11, <1>12, Dispatch DEF At, SendPcs

LEMMA ForcedStep ==
  ASSUME Typed, Shape, Table, Holding, Ordered, Queued, Forced, Next
  PROVE  Forced'
  <1>1. stack \in Seq(FrameType) /\ StackMove
    BY StackMoves DEF Typed, TypeOK
  <1>2. CASE stack # <<>> /\ Top.force
    BY <1>2, ForcedMoves
  <1>3. CASE stack # <<>> /\ ~Top.force
    <2>1. CASE SendRingbuffer
      <3>1. ring \in Seq(Message)
        BY DEF Typed, TypeOK
      <3>2. PICK f, g : f = Then("drained") /\ g = Send(ring[1], TRUE)
        OBVIOUS
      <3>3. Popped \/ (Pushed(f, g) /\ ring # <<>>)
        BY <1>1, <2>1, <3>1, <3>2, SendRingbufferStack
      <3>4. ~f.force /\ g.msg = ring[1] /\ g.pc = "send" /\ g.idx = 1 /\ ~g.sent /\ UNCHANGED ring
        BY <2>1, <3>2 DEF Then, Send, Frame, SendRingbuffer
      <3>5. ring # <<>> => ForcedAfter(f) /\ ForcedAfter(g)
        BY <3>4 DEF ForcedAfter
      <3> QED
        BY <1>3, <3>3, <3>5, ForcedPopped, ForcedPushed
    <2>2. CASE ~SendRingbuffer
      <3>1. CASE Popped
        BY <1>3, <3>1, ForcedPopped
      <3>2. ASSUME NEW f, Replaced(f), Follows(f) PROVE Forced'
        <4>1. ForcedAfter(f)
          BY <1>3, <3>2 DEF Follows, ForcedAfter
        <4> QED
          BY <1>3, <3>2, <4>1, ForcedReplaced
      <3>3. ASSUME NEW f, NEW g, CallsOn(f, g) PROVE Forced'
        <4>1. Pushed(f, g) /\ Follows(f) /\ Calls(f, g)
          BY <3>3 DEF CallsOn
        <4>2. f.pc # "drained"
          <5> SUFFICES ASSUME f.pc = "drained" PROVE FALSE
            OBVIOUS
          <5>1. Top.pc \in DrainPcs
            BY <4>1 DEF Follows, DrainPcs
          <5>2. SendRingbufferNext \/ UNCHANGED stack
            BY <1>3, <2>2, <5>1, Dispatch DEF At, DrainPcs
          <5>3. SendRingbufferNext => Popped \/ Replaced(Drain)
            BY <1>1, SendRingbufferNextStack
          <5>4. Len(stack') # Len(stack) + 1
            BY <1>1, <5>2, <5>3 DEF Popped, Replaced
          <5> QED
            BY <4>1, <5>4 DEF Pushed
        <4>3. ~f.force /\ ~g.force
          BY <1>3, <4>1, <4>2 DEF Follows, Calls
        <4>4. ForcedAfter(f) /\ ForcedAfter(g)
          BY <4>3 DEF ForcedAfter
        <4> QED
          BY <1>3, <4>1, <4>4, ForcedPushed
      <3>4. CASE UNCHANGED stack
        <4>1. PICK f : f = Top
          OBVIOUS
        <4>2. Replaced(f)
          BY <1>1, <3>4, <4>1 DEF Replaced, Top
        <4>3. ForcedAfter(f)
          BY <1>3, <4>1 DEF ForcedAfter
        <4> QED
          BY <1>3, <4>2, <4>3, ForcedReplaced
      <3> QED
        BY <1>1, <1>3, <3>1, <3>2, <3>3, <3>4 DEF StackMove, Returns, GoesOn, Starts, StartsWith
    <2> QED
      BY <2>1, <2>2
  <1>4. CASE stack = <<>>
    <2>1. \/ UNCHANGED stack
          \/ \E f \in FrameType : Starts(f)
          \/ \E f, g \in FrameType : StartsWith(f, g)
      BY <1>1, <1>4 DEF StackMove, Returns, GoesOn, CallsOn
    <2>2. CASE UNCHANGED stack
      <3>1. 1 .. Len(stack') = {}
        BY <1>4, <2>2
      <3> QED
        BY <3>1 DEF Forced
    <2>3. ASSUME NEW f, Starts(f) PROVE Forced'
      <3>1. Len(stack') = 1 /\ stack'[1] = f /\ ~f.force
        BY <2>3 DEF Starts
      <3>2. \A i \in 1 .. 1 : ~stack'[i].force
        BY <3>1
      <3> QED
        BY <3>1, <3>2 DEF Forced, ForcedFrame
    <2>4. ASSUME NEW f, NEW g, StartsWith(f, g) PROVE Forced'
      <3>1. Len(stack') = 2 /\ stack'[1] = f /\ stack'[2] = g /\ ~f.force /\ ~g.force
        BY <2>4 DEF StartsWith
      <3>2. \A i \in 1 .. 2 : ~stack'[i].force
        BY <3>1
      <3> QED
        BY <3>1, <3>2 DEF Forced, ForcedFrame
    <2> QED
      BY <2>1, <2>2, <2>3, <2>4
  <1> QED
    BY <1>2, <1>3, <1>4

--------------------------------------------------------------------------------
(* The offline trace *)

\* The trace gets new log messages only.
LEMMA TracedLog ==
  ASSUME Typed, Shape, Incoming, Next, offline' # offline
  PROVE  /\ ClientSend /\ stack # <<>> /\ Len(stack) = 1 /\ Top = stack[1] /\ Top.pc = "send"
         /\ Top.msg = Log(done.logs) /\ offline' = Append(offline, done.logs)
  <1>1. stack \in Seq(FrameType)
    BY DEF Typed, TypeOK
  <1>2. ClientSend
    BY OfflineChanges
  <1>3. /\ stack # <<>> /\ Top = stack[Len(stack)] /\ Len(stack) \in 1 .. Len(stack) /\ Top.pc = "send"
    BY <1>1, <1>2, TopFacts DEF ClientSend
  <1>4. offline' = Append(offline, Top.msg.n) /\ ~Top.force /\ Top.msg.kind = "log"
    BY <1>2 DEF ClientSend, Traced
  <1>5. Len(stack) = 1
    <2>1. FrameOK(Len(stack))
      BY <1>3 DEF Shape
    <2> QED
      BY <1>3, <1>4, <2>1 DEF FrameOK
  <1>6. Top.msg = Log(done.logs)
    BY <1>3, <1>4, <1>5 DEF Incoming, IncomingFrame
  <1>7. Top.msg.n = done.logs
    BY <1>6 DEF Log
  <1> QED
    BY <1>2, <1>3, <1>4, <1>5, <1>6, <1>7

LEMMA OfflineOrderStep ==
  ASSUME Typed, Shape, Incoming, OfflineOrder, Next
  PROVE  OfflineOrder'
  <1>1. offline \in Seq(Nat) /\ Len(offline) \in Nat
    BY DEF Typed
  <1>2. done.logs \in Nat /\ done'.logs \in Nat /\ done.logs <= done'.logs
    BY LogsGrow
  <1>3. \A i \in 1 .. Len(offline) : offline[i] \in Nat
    BY <1>1
  <1>4. CASE UNCHANGED offline
    <2>1. \A i \in 1 .. Len(offline) : offline[i] <= done'.logs
      BY <1>2, <1>3 DEF OfflineOrder
    <2>2. ASSUME stack' # <<>>, stack'[1].pc = "send", stack'[1].msg.kind = "log"
          PROVE  \A i \in 1 .. Len(offline) : offline[i] < stack'[1].msg.n
      <3>1. CASE stack = <<>> /\ UserMessageLog /\ stack'[1] = Send(Log(done.logs + 1), FALSE)
        <4>1. stack'[1].msg.n = done.logs + 1
          BY <3>1 DEF Send, Frame, Log
        <4> QED
          BY <1>2, <1>3, <4>1 DEF OfflineOrder
      <3>2. CASE stack # <<>> /\ stack'[1] = stack[1]
        BY <2>2, <3>2 DEF OfflineOrder
      <3>3. CASE /\ stack # <<>> /\ stack[1] = Top /\ Len(stack) = 1 /\ ~stack[1].force
                 /\ \/ ClientSend
                    \/ SendAllMultiple
                    \/ SendAllMultipleEnd
                    \/ ReportOverflow /\ stack'[1].pc = "reported"
        BY <2>2, <3>3, BaseGoesOn
      <3> QED
        BY <2>2, <3>1, <3>2, <3>3, BaseMoves
    <2> QED
      BY <1>4, <2>1, <2>2 DEF OfflineOrder
  <1>5. CASE offline' # offline
    <2>1. /\ ClientSend /\ stack # <<>> /\ Len(stack) = 1 /\ Top = stack[1] /\ Top.pc = "send"
          /\ Top.msg = Log(done.logs) /\ offline' = Append(offline, done.logs)
      BY <1>5, TracedLog
    <2>2. stack'[1].pc # "send"
      BY <2>1, BaseGoesOn
    <2>3. \A i \in 1 .. Len(offline) : offline[i] < done.logs
      <3>1. Top.msg.kind = "log" /\ Top.msg.n = done.logs
        BY <2>1 DEF Log
      <3> QED
        BY <2>1, <3>1 DEF OfflineOrder
    <2>4. /\ Len(offline') = Len(offline) + 1 /\ offline'[Len(offline) + 1] = done.logs
          /\ \A i \in 1 .. Len(offline) : offline'[i] = offline[i]
      BY <1>1, <1>2, <2>1
    <2>5. \A i \in 1 .. Len(offline') : offline'[i] <= done'.logs
      BY <1>1, <1>2, <1>3, <2>3, <2>4
    <2>6. \A i, j \in 1 .. Len(offline') : i < j => offline'[i] < offline'[j]
      BY <1>1, <2>3, <2>4 DEF OfflineOrder
    <2> QED
      BY <2>2, <2>5, <2>6 DEF OfflineOrder
  <1> QED
    BY <1>4, <1>5

\* The sending of the ring ends in one of its own steps.
LEMMA DrainLeft ==
  ASSUME Typed, Shape, Next, InDrain, ~InDrain'
  PROVE  SendRingbuffer \/ SendRingbufferNext
  <1>1. stack \in Seq(FrameType) /\ StackMove /\ stack # <<>>
    <2>1. stack \in Seq(FrameType) /\ StackMove
      BY StackMoves DEF Typed, TypeOK
    <2> QED
      BY <2>1 DEF InDrain
  <1>2. CASE Top.pc \in DrainPcs
    <2>1. UNCHANGED stack => InDrain'
      BY DEF InDrain
    <2> QED
      BY <1>1, <1>2, <2>1, Dispatch DEF At, DrainPcs
  <1>3. CASE Top.pc \notin DrainPcs
    <2>1. ~Popped
      BY <1>1, <1>3, DrainPopped
    <2>2. ASSUME NEW f, Replaced(f), Follows(f) PROVE FALSE
      BY <1>1, <1>3, <2>2, DrainReplaced DEF Follows
    <2>3. ASSUME NEW f, NEW g, Pushed(f, g), Follows(f) PROVE FALSE
      <3>1. Top.pc \notin DrainPcs /\ f.pc \notin DrainPcs
        BY <1>3, <2>3 DEF Follows
      <3>2. PICK i \in 1 .. Len(stack) : stack[i].pc \in DrainPcs
        BY DEF InDrain
      <3>3. i \in 1 .. Len(stack') /\ stack'[i] = stack[i]
        BY <1>1, <2>3, <3>1, <3>2 DEF Pushed, Top
      <3> QED
        BY <3>2, <3>3 DEF InDrain
    <2>4. ~UNCHANGED stack
      BY DEF InDrain
    <2> QED
      BY <1>1, <2>1, <2>2, <2>3, <2>4 DEF StackMove, Returns, GoesOn, CallsOn, Starts, StartsWith
  <1> QED
    BY <1>2, <1>3

\* As long as no log mode message came, the log mode is that of the configuration.
LEMMA ModeKept ==
  ASSUME Typed, Next, done'.modes = 0
  PROVE  done.modes = 0 /\ mode' = mode
  <1>1. done \in History /\ done' \in History
    BY HistoryStep DEF Typed
  <1>2. ASSUME NEW md \in Modes, UserMessageLogMode(md) PROVE FALSE
    <2>1. done' = [done EXCEPT !.modes = @ + 1]
      BY <1>2 DEF UserMessageLogMode
    <2>2. done'.modes = done.modes + 1 /\ done.modes \in Nat
      BY <1>1, <2>1 DEF History
    <2> QED
      BY <2>2
  <1> QED
    BY <1>2, HistoryFields

LEMMA EntersDrain ==
  ASSUME stack \in Seq(FrameType), stack # <<>>, NEW f, NEW g,
         \/ Replaced(f) /\ f.pc \in DrainPcs
         \/ Pushed(f, g) /\ (f.pc \in DrainPcs \/ g.pc \in DrainPcs)
  PROVE  InDrain'
  <1>1. Len(stack) \in Nat /\ Len(stack) \in 1 .. Len(stack)
    BY EmptySeq
  <1>2. CASE Replaced(f) /\ f.pc \in DrainPcs
    <2>1. Len(stack) \in 1 .. Len(stack') /\ stack'[Len(stack)] = f
      BY <1>1, <1>2 DEF Replaced
    <2> QED
      BY <1>2, <2>1 DEF InDrain
  <1>3. CASE Pushed(f, g) /\ f.pc \in DrainPcs
    <2>1. Len(stack) \in 1 .. Len(stack') /\ stack'[Len(stack)] = f
      BY <1>1, <1>3 DEF Pushed
    <2> QED
      BY <1>3, <2>1 DEF InDrain
  <1>4. CASE Pushed(f, g) /\ g.pc \in DrainPcs
    <2>1. Len(stack) + 1 \in 1 .. Len(stack') /\ stack'[Len(stack) + 1] = g
      BY <1>1, <1>4 DEF Pushed
    <2> QED
      BY <1>4, <2>1 DEF InDrain
  <1> QED
    BY <1>2, <1>3, <1>4

\* No event ends while the ring is being sent, if no entry fails.
LEMMA UnroutedState ==
  ASSUME Typed, Shape, Next, ~InDrain => state # "SEND_BUFFER", At("drained") => ret = "OK",
         ~InDrain'
  PROVE  state' # "SEND_BUFFER"
  <1>1. stack \in Seq(FrameType) /\ ring \in Seq(Message)
    BY DEF Typed, TypeOK
  <1>2. Then("drained").pc \in DrainPcs /\ Drain.pc \in DrainPcs
    BY DEF Then, Drain, Frame, DrainPcs
  <1>3. SendRingbuffer => state' = "SEND_DIRECT"
    <2> SUFFICES ASSUME SendRingbuffer, ring # <<>> PROVE FALSE
      BY <1>1, SendRingbufferStack
    <2>1. Pushed(Then("drained"), Send(ring[1], TRUE)) /\ stack # <<>>
      BY <1>1, SendRingbufferStack DEF SendRingbuffer, At, Idle
    <2> QED
      BY <1>1, <1>2, <2>1, EntersDrain
  <1>4. SendRingbufferNext => state' = "SEND_DIRECT"
    <2> SUFFICES ASSUME SendRingbufferNext, state' # "SEND_DIRECT" PROVE FALSE
      OBVIOUS
    <2>1. ret = "OK" /\ stack # <<>>
      BY DEF SendRingbufferNext, At, Idle
    <2>2. Replaced(Drain)
      BY <1>1, <2>1, SendRingbufferNextStack
    <2> QED
      BY <1>1, <1>2, <2>1, <2>2, EntersDrain
  <1>5. ClientConnected => state' = state
    <2> SUFFICES ASSUME ClientConnected, Len(pfd) = 1 PROVE FALSE
      BY <1>1, ClientConnectedStack
    <2>1. Pushed(Then("announce"), Drain) /\ stack # <<>>
      BY <1>1, ClientConnectedStack DEF ClientConnected, At, Idle
    <2> QED
      BY <1>1, <1>2, <2>1, EntersDrain
  <1>6. Discard => state' = "BUFFER_FULL"
    BY DEF Discard
  <1>7. CloseSocket => state' = "BUFFER" \/ state' = state
    BY DEF CloseSocket, LogStateOnClose
  <1>8. state' = state => state' # "SEND_BUFFER" \/ SendRingbuffer \/ SendRingbufferNext
    BY DrainLeft
  <1> QED
    BY <1>3, <1>4, <1>5, <1>6, <1>7, <1>8, StateChanges

LEMMA UnroutedResult ==
  ASSUME Typed, Shape, Next, At("drained") => ret = "OK",
         \A i \in 1 .. Len(stack) : stack[i].force => stack[i].pc # "loop", At("drained")'
  PROVE  ret' = "OK"
  <1>1. stack \in Seq(FrameType) /\ stack' \in Seq(FrameType) /\ StackMove
    BY StackTyped, StackMoves DEF Typed, TypeOK
  <1>2. CASE stack = <<>>
    <2>1. ~UNCHANGED stack
      BY <1>2 DEF At, Idle
    <2>2. ASSUME NEW f, Starts(f) PROVE FALSE
      <3>1. Top' = f /\ f.pc # "drained"
        BY <2>2 DEF Starts, Top
      <3> QED
        BY <3>1 DEF At
    <2>3. ASSUME NEW f, NEW g, StartsWith(f, g) PROVE FALSE
      <3>1. Top' = g /\ g.pc # "drained"
        BY <2>3 DEF StartsWith, Top
      <3> QED
        BY <3>1 DEF At
    <2> QED
      BY <1>1, <1>2, <2>1, <2>2, <2>3 DEF StackMove, Returns, GoesOn, CallsOn
  <1>3. CASE stack # <<>> /\ Popped
    <2>1. Top.force /\ Len(stack') # Len(stack) /\ Len(stack') # Len(stack) + 1
      BY <1>1, <1>3, TopPopped DEF Popped
    <2>2. Top = stack[Len(stack)] /\ Len(stack) \in 1 .. Len(stack)
      BY <1>1, <1>3, EmptySeq DEF Top
    <2>3. Top.pc \in SendPcs \ {"loop"}
      BY <2>1, <2>2 DEF Shape, FrameOK
    <2>4. ~StoreInRing /\ ~Discard
      BY <2>1 DEF StoreInRing, Discard, Buffering
    <2>5. ~ClientSend
      BY <1>1, <2>1, ClientSendStack DEF Replaced
    <2>6. ReportOverflow => ret' = "OK"
      <3>1. overflow_counter \in Nat /\ done.reports \in Nat
        BY DEF Typed, TypeOK, History
      <3> QED
        BY <1>1, <2>1, <3>1, ReportOverflowStack DEF Pushed
    <2>7. OverflowReported => ret' = "OK"
      BY <1>1, OverflowReportedStack
    <2>8. ~UNCHANGED stack
      BY <2>1
    <2> QED
      BY <1>3, <2>3, <2>4, <2>5, <2>6, <2>7, <2>8, Dispatch DEF At, SendPcs
  <1>4. CASE stack # <<>> /\ UNCHANGED stack
    <2>1. At("drained")
      BY <1>4 DEF At, Idle, Top
    <2>2. SendRingbufferNext => Popped \/ Replaced(Drain)
      BY <1>1, SendRingbufferNextStack
    <2>3. Popped => Top.force
      BY <1>1, <1>4, TopPopped
    <2>4. ~Top.force
      <3>1. Top = stack[Len(stack)] /\ Len(stack) \in 1 .. Len(stack)
        BY <1>1, <1>4, EmptySeq DEF Top
      <3> QED
        BY <2>1, <3>1 DEF Shape, FrameOK, At, SendPcs
    <2>5. Replaced(Drain) => Drain.pc = "drained"
      BY <1>1, <1>4, TopReplaced
    <2>6. Drain.pc # "drained"
      BY DEF Drain, Frame
    <2>7. ret' = ret
      BY <1>4, <2>1, <2>2, <2>3, <2>4, <2>5, <2>6, Dispatch DEF At
    <2> QED
      BY <2>1, <2>7
  <1>5. ASSUME NEW f, stack # <<>>, GoesOn(f) PROVE FALSE
    BY <1>1, <1>5, TopReplaced DEF GoesOn
  <1>6. ASSUME NEW f, NEW g, stack # <<>>, CallsOn(f, g) PROVE FALSE
    BY <1>1, <1>6, TopPushed DEF CallsOn
  <1> QED
    BY <1>1, <1>2, <1>3, <1>4, <1>5, <1>6 DEF StackMove, Returns, Starts, StartsWith

\* An entry of the ring does not reach the loop over the clients.
LEMMA UnroutedLoop ==
  ASSUME Typed, Shape, Next, ~Routed,
         \A i \in 1 .. Len(stack) : stack[i].force => stack[i].pc # "loop"
  PROVE  \A i \in 1 .. Len(stack') : stack'[i].force => stack'[i].pc # "loop"
  <1>1. stack \in Seq(FrameType) /\ Len(stack) \in Nat /\ StackMove
    BY StackMoves DEF Typed, TypeOK
  <1>2. ASSUME stack # <<>>, Top.force, Len(stack') >= Len(stack)
        PROVE  stack'[Len(stack)].pc # "loop"
    <2>1. Top = stack[Len(stack)] /\ Len(stack) \in 1 .. Len(stack)
      BY <1>1, <1>2, EmptySeq DEF Top
    <2>2. Top.pc \in SendPcs \ {"loop"}
      BY <1>2, <2>1 DEF Shape, FrameOK
    <2>3. CASE ClientSend
      <3>1. Replaced(Goes("store", Top.idx, Top.sent))
        BY <1>1, <2>3, ClientSendStack
      <3>2. stack'[Len(stack)] = Goes("store", Top.idx, Top.sent)
        BY <2>1, <3>1 DEF Replaced
      <3> QED
        BY <3>2 DEF Goes
    <2>4. ~StoreInRing /\ ~Discard
      BY <1>2 DEF StoreInRing, Discard, Buffering
    <2>5. CASE ReportOverflow
      <3>1. overflow_counter \in Nat /\ done.reports \in Nat
        BY DEF Typed, TypeOK, History
      <3>2. PICK f, g : /\ f = Goes("reported", Top.idx, Top.sent)
                        /\ g = Send(Overflow(overflow_counter, done.reports + 1), FALSE)
        OBVIOUS
      <3>3. Popped \/ Pushed(f, g)
        BY <1>1, <2>5, <3>1, <3>2, ReportOverflowStack
      <3>4. Pushed(f, g)
        BY <1>1, <1>2, <3>3 DEF Popped
      <3>5. stack'[Len(stack)] = f
        BY <2>1, <3>4 DEF Pushed
      <3> QED
        BY <3>2, <3>5 DEF Goes
    <2>6. ~OverflowReported
      BY <1>1, <1>2, OverflowReportedStack DEF Popped
    <2>7. CASE UNCHANGED stack
      BY <2>1, <2>2, <2>7
    <2> QED
      BY <1>2, <2>2, <2>3, <2>4, <2>5, <2>6, <2>7, Dispatch DEF At, SendPcs
  <1> TAKE i \in 1 .. Len(stack')
  <1>3. CASE Returns
    BY <1>1, <1>3 DEF Returns, Popped
  <1>4. ASSUME NEW f, GoesOn(f) PROVE stack'[i].force => stack'[i].pc # "loop"
    <2>1. stack # <<>> /\ Replaced(f) /\ Follows(f)
      BY <1>4 DEF GoesOn
    <2>2. CASE i = Len(stack)
      <3>1. stack'[i] = f
        BY <1>1, <2>1, <2>2 DEF Replaced
      <3> QED
        BY <1>1, <1>2, <2>1, <2>2, <3>1 DEF Replaced, Follows
    <2>3. CASE i # Len(stack)
      BY <1>1, <2>1, <2>3 DEF Replaced
    <2> QED
      BY <2>2, <2>3
  <1>5. ASSUME NEW f, NEW g, CallsOn(f, g) PROVE stack'[i].force => stack'[i].pc # "loop"
    <2>1. stack # <<>> /\ Pushed(f, g) /\ Follows(f) /\ g.pc # "loop"
      BY <1>5 DEF CallsOn
    <2>2. CASE i = Len(stack)
      <3>1. stack'[i] = f /\ Len(stack') >= Len(stack)
        BY <1>1, <2>1, <2>2 DEF Pushed
      <3> QED
        BY <1>2, <2>1, <2>2, <3>1 DEF Follows
    <2>3. CASE i # Len(stack)
      BY <1>1, <2>1, <2>3 DEF Pushed
    <2> QED
      BY <2>2, <2>3
  <1>6. ASSUME NEW f, Starts(f) PROVE stack'[i].force => stack'[i].pc # "loop"
    <2>1. Len(stack') = 1 /\ stack'[1] = f /\ ~f.force
      BY <1>6 DEF Starts
    <2>2. \A k \in 1 .. 1 : ~stack'[k].force
      BY <2>1
    <2> QED
      BY <2>1, <2>2
  <1>7. ASSUME NEW f, NEW g, StartsWith(f, g) PROVE stack'[i].force => stack'[i].pc # "loop"
    <2>1. Len(stack') = 2 /\ stack'[1] = f /\ stack'[2] = g /\ ~f.force /\ ~g.force
      BY <1>7 DEF StartsWith
    <2>2. \A k \in 1 .. 2 : ~stack'[k].force
      BY <2>1
    <2> QED
      BY <2>1, <2>2
  <1>8. CASE UNCHANGED stack
    BY <1>8
  <1> QED
    BY <1>1, <1>3, <1>4, <1>5, <1>6, <1>7, <1>8 DEF StackMove

LEMMA UnroutedStep ==
  ASSUME Typed, Shape, Unrouted, Next
  PROVE  Unrouted'
  <1>1. SUFFICES ASSUME done'.modes = 0, ~Routed'
                 PROVE  /\ ~InDrain' => state' # "SEND_BUFFER"
                        /\ At("drained")' => ret' = "OK"
                        /\ \A i \in 1 .. Len(stack') : stack'[i].force => stack'[i].pc # "loop"
    BY DEF Unrouted
  <1>2. done.modes = 0 /\ ~Routed
    BY <1>1, ModeKept DEF Routed
  <1>3. /\ ~InDrain => state # "SEND_BUFFER"
        /\ At("drained") => ret = "OK"
        /\ \A i \in 1 .. Len(stack) : stack[i].force => stack[i].pc # "loop"
    BY <1>2 DEF Unrouted
  <1> QED
    BY <1>2, <1>3, UnroutedState, UnroutedResult, UnroutedLoop

\* A message is in the trace when the call that got it has begun to send it.
LEMMA TracingStep ==
  ASSUME Typed, Shape, StateInv, Unrouted, Incoming, Tracing, Next
  PROVE  Tracing'
  <1>1. SUFFICES ASSUME done'.modes = 0, mode' \in {"INTERNAL", "BOTH"}, NEW n \in 1 .. done'.logs
                 PROVE  \/ \E i \in 1 .. Len(offline') : offline'[i] = n
                        \/ n = done'.logs /\ stack' # <<>> /\ stack'[1] = Send(Log(n), FALSE)
    BY DEF Tracing
  <1>2. done.modes = 0 /\ mode \in {"INTERNAL", "BOTH"}
    BY <1>1, ModeKept
  <1>3. done.logs \in Nat /\ done'.logs \in Nat /\ n \in Nat
    BY <1>1, LogsGrow
  <1>4. \A i \in 1 .. Len(offline) : i \in 1 .. Len(offline') /\ offline'[i] = offline[i]
    <2>1. CASE offline' # offline
      <3>1. offline' = Append(offline, done.logs) /\ offline \in Seq(Nat)
        BY <2>1, TracedLog DEF Typed
      <3> QED
        BY <1>3, <3>1
    <2> QED
      BY <2>1
  <1>5. CASE UserMessageLog
    <2>1. stack = <<>> /\ stack' = <<Send(Log(done.logs + 1), FALSE)>> /\ done'.logs = done.logs + 1
      BY <1>5, LogsGrow DEF UserMessageLog, Idle
    <2>2. CASE n = done.logs + 1
      BY <2>1, <2>2
    <2>3. CASE n # done.logs + 1
      <3>1. n \in 1 .. done.logs
        BY <1>3, <2>1, <2>3
      <3> QED
        BY <1>2, <1>4, <2>1, <3>1 DEF Tracing
    <2> QED
      BY <2>2, <2>3
  <1>6. CASE ~UserMessageLog
    <2>1. done'.logs = done.logs
      BY <1>6, HistoryFields
    <2>2. CASE \E i \in 1 .. Len(offline) : offline[i] = n
      BY <1>4, <2>2
    <2>3. CASE n = done.logs /\ stack # <<>> /\ stack[1] = Send(Log(n), FALSE)
      <3>1. stack \in Seq(FrameType)
        BY DEF Typed, TypeOK
      <3>2. stack[1].pc = "send" /\ ~stack[1].force /\ stack[1].msg = Log(n) /\ stack[1].msg.kind = "log"
            /\ Log(n).kind = "log" /\ Log(n) # Info
        BY <2>3 DEF Send, Frame, Log, Info
      <3>3. Len(stack) = 1 /\ Top = stack[1] /\ At("send")
        <4>1. 1 \in 1 .. Len(stack) /\ Len(stack) \in Nat
          BY <2>3, <3>1, EmptySeq
        <4>2. FrameOK(1)
          BY <4>1 DEF Shape
        <4>3. ~(1 < Len(stack))
          BY <3>2, <4>2 DEF FrameOK
        <4>4. Len(stack) = 1
          BY <4>1, <4>3
        <4> QED
          BY <2>3, <3>2, <4>4 DEF Top, At, Idle
      <3>4. CASE ClientSend
        <4>1. ~InDrain
          BY <2>3, <3>1, <3>2, AboveBase
        <4>2. state # "SEND_BUFFER"
          <5>1. CASE Routed
            BY <1>2, <4>1, <5>1 DEF StateInv, External, Outside, Buffers
          <5>2. CASE ~Routed
            BY <1>2, <4>1, <5>2 DEF Unrouted
          <5> QED
            BY <5>1, <5>2
        <4>3. Traced(Top)
          BY <1>2, <3>2, <3>3, <4>2 DEF Traced
        <4>4. Top.msg.kind = "log" /\ Top.msg.n = n
          BY <3>2, <3>3 DEF Log
        <4>5. offline' = Append(offline, n) /\ offline \in Seq(Nat)
          BY <3>4, <4>3, <4>4 DEF ClientSend, Typed
        <4>6. Len(offline) + 1 \in 1 .. Len(offline') /\ offline'[Len(offline) + 1] = n
          BY <1>3, <4>5
        <4> QED
          BY <4>6
      <3>5. CASE UNCHANGED stack
        BY <2>1, <2>3, <3>5
      <3> QED
        BY <2>3, <3>3, <3>4, <3>5, Dispatch DEF At
    <2> QED
      BY <1>1, <1>2, <2>1, <2>2, <2>3 DEF Tracing
  <1> QED
    BY <1>5, <1>6

--------------------------------------------------------------------------------
(* What became of each log message *)

\* There never were more clients before than there were at most until now.
LEMMA PeakGrows ==
  ASSUME Typed, Table, Next, done'.peak <= 1
  PROVE  /\ done.peak \in Nat /\ done.peak <= 1 /\ Len(pfd) \in Nat /\ Len(pfd) <= 1
         /\ pfd # <<>> => Len(pfd) = 1
         /\ ClientConnect => pfd = <<>>
  <1>1. done \in History /\ done' \in History
    BY HistoryStep DEF Typed
  <1>2. done.peak \in Nat /\ done'.peak \in Nat
    BY <1>1 DEF History
  <1>3. pfd \in Seq(Conn) /\ Len(pfd) \in Nat
    BY DEF Typed, TypeOK
  <1>4. CASE ClientConnect
    <2>1. PICK x, y : /\ done' = [done EXCEPT !.conns = x, !.peak = y]
                      /\ y = IF Len(pfd') > done.peak THEN Len(pfd') ELSE done.peak
      BY <1>4 DEF ClientConnect
    <2>2. done'.peak = y
      BY <1>1, <2>1 DEF History
    <2>3. pfd' = Append(pfd, done.conns + 1)
      BY <1>4 DEF ClientConnect, RegisterConnection
    <2>4. Len(pfd') = Len(pfd) + 1
      BY <1>3, <2>3
    <2>5. Len(pfd) = 0
      BY <1>2, <1>3, <2>1, <2>2, <2>4
    <2>6. pfd = <<>>
      BY <1>3, <2>5, EmptySeq
    <2> QED
      BY <1>2, <1>3, <2>1, <2>2, <2>4, <2>5, <2>6
  <1>5. CASE ~ClientConnect
    <2>1. done.peak <= 1 /\ Len(pfd) <= 1
      BY <1>2, <1>3, <1>5, HistoryFields DEF Table
    <2>2. pfd # <<>> => Len(pfd) # 0
      BY <1>3, EmptySeq
    <2>3. \A n \in Nat : n <= 1 /\ n # 0 => n = 1
      OBVIOUS
    <2>4. pfd # <<>> => Len(pfd) = 1
      BY <1>3, <2>1, <2>2, <2>3, Zenon
    <2> QED
      BY <1>2, <1>3, <1>5, <2>1, <2>4
  <1> QED
    BY <1>4, <1>5

\* What is on a socket stays there.
LEMMA DeliveredKept ==
  ASSUME Typed, Next, NEW m, Delivered(m)
  PROVE  Delivered(m)'
  <1>1. PICK c \in Conn : \E i \in 1 .. Len(delivered[c]) : delivered[c][i] = m
    BY DEF Delivered
  <1>2. PICK i \in 1 .. Len(delivered[c]) : delivered[c][i] = m
    BY <1>1
  <1>3. delivered[c] \in Seq(Message)
    BY DEF Typed, TypeOK
  <1>4. CASE SendAllMultiple
    <2>1. \/ delivered'[c] = delivered[c]
          \/ delivered'[c] = Append(delivered[c], Top.msg) /\ Top.msg \in Message
      BY <1>4, DeliveredUpdate
    <2>2. i \in 1 .. Len(delivered'[c]) /\ delivered'[c][i] = m
      BY <1>2, <1>3, <2>1
    <2> QED
      BY <2>2 DEF Delivered
  <1>5. CASE UNCHANGED delivered
    BY <1>1, <1>5 DEF Delivered
  <1> QED
    BY <1>4, <1>5, DeliveredChanges

\* A client that takes a message of an application, or a report of lost ones, has it.
LEMMA DeliveredNow ==
  ASSUME Typed, SendAllMultiple, pfd[Top.idx] \notin broken, NEW m, m = Top.msg, m.kind # "info"
  PROVE  Delivered(m)'
  <1>1. PICK c : c = pfd[Top.idx]
    OBVIOUS
  <1>2. c \in Conn /\ m \in Message /\ Top.idx # 0
    BY <1>1, DeliveredUpdate
  <1>3. ConnectionSend(c, Top.msg)
    BY <1>1, <1>2, SendAllMultipleStack DEF Typed, TypeOK
  <1>4. m # Info
    BY DEF Info
  <1>5. delivered' = [delivered EXCEPT ![c] = Append(@, m)]
    BY <1>3, <1>4 DEF ConnectionSend
  <1>6. DOMAIN delivered = Conn /\ delivered[c] \in Seq(Message)
    BY <1>2 DEF Typed, TypeOK
  <1>7. delivered'[c] = Append(delivered[c], m)
    BY <1>2, <1>5, <1>6
  <1>8. Len(delivered[c]) + 1 \in 1 .. Len(delivered'[c]) /\ delivered'[c][Len(delivered[c]) + 1] = m
    BY <1>2, <1>6, <1>7
  <1> QED
    BY <1>2, <1>8 DEF Delivered

\* How the call that sends an entry of the ring comes to its next point.
LEMMA ForcedOrigin ==
  ASSUME Typed, Shape, Next, NEW i \in 1 .. Len(stack'), stack'[i].force
  PROVE  \/ i \in 1 .. Len(stack) /\ stack'[i] = stack[i]
         \/ stack'[i].pc = "send" /\ ~stack'[i].sent
         \/ /\ i = Len(stack) /\ stack # <<>> /\ Top.force /\ stack'[i].msg = Top.msg
            /\ \/ ClientSend /\ stack'[i].sent = Top.sent /\ (Routed => stack'[i].pc = "loop")
               \/ /\ SendAllMultiple /\ stack'[i].pc = "loop"
                  /\ IF pfd[Top.idx] \in broken THEN stack'[i].sent = Top.sent ELSE TRUE
               \/ SendAllMultipleEnd /\ stack'[i].sent = Top.sent /\ Top.sent
               \/ ReportOverflow /\ Top.pc = "store" /\ stack'[i].sent = Top.sent
  <1>1. stack \in Seq(FrameType) /\ Len(stack) \in Nat /\ StackMove /\ pfd \in Seq(Conn)
    BY StackMoves DEF Typed, TypeOK
  <1>2. ASSUME stack # <<>>, Top.force, i = Len(stack), Len(stack') >= Len(stack)
        PROVE  \/ stack'[i] = stack[i]
               \/ /\ stack'[i].msg = Top.msg
                  /\ \/ ClientSend /\ stack'[i].sent = Top.sent /\ (Routed => stack'[i].pc = "loop")
                     \/ /\ SendAllMultiple /\ stack'[i].pc = "loop"
                        /\ IF pfd[Top.idx] \in broken THEN stack'[i].sent = Top.sent ELSE TRUE
                     \/ SendAllMultipleEnd /\ stack'[i].sent = Top.sent /\ Top.sent
                     \/ ReportOverflow /\ Top.pc = "store" /\ stack'[i].sent = Top.sent
    <2>1. Top = stack[Len(stack)] /\ Len(stack) \in 1 .. Len(stack)
      BY <1>1, <1>2, EmptySeq DEF Top
    <2>2. Top.pc \in SendPcs
      BY <1>2, <2>1 DEF Shape, FrameOK
    <2>3. ASSUME NEW f, Replaced(f) PROVE stack'[i] = f
      BY <1>2, <2>1, <2>3 DEF Replaced
    <2>4. ASSUME NEW f, NEW g, Pushed(f, g) PROVE stack'[i] = f
      BY <1>2, <2>1, <2>4 DEF Pushed
    <2>5. ~Popped
      BY <1>1, <1>2 DEF Popped
    <2>6. CASE ClientSend
      <3>1. PICK f : f = Goes(IF Routed /\ (Top.force \/ state = "SEND_DIRECT") THEN "loop" ELSE "store",
                              Top.idx, Top.sent)
        OBVIOUS
      <3>2. Replaced(f)
        BY <1>1, <2>6, <3>1, ClientSendStack
      <3>3. f.msg = Top.msg /\ f.sent = Top.sent /\ (Routed => f.pc = "loop")
        BY <1>2, <3>1 DEF Goes
      <3> QED
        BY <2>3, <2>6, <3>2, <3>3
    <2>7. CASE SendAllMultiple
      <3>1. Top.idx # 0
        BY <2>7, DeliveredUpdate
      <3>2. CASE pfd[Top.idx] \in broken
        <4>1. PICK f, g : f = Goes("loop", Top.idx + 1, Top.sent) /\ g = Close(pfd[Top.idx])
          OBVIOUS
        <4>2. Pushed(f, g)
          BY <1>1, <2>7, <3>1, <3>2, <4>1, SendAllMultipleStack
        <4>3. f.msg = Top.msg /\ f.sent = Top.sent /\ f.pc = "loop"
          BY <4>1 DEF Goes
        <4> QED
          BY <2>4, <2>7, <4>2, <4>3
      <3>3. CASE pfd[Top.idx] \notin broken
        <4>1. PICK f : f = Goes("loop", Top.idx + 1, TRUE)
          OBVIOUS
        <4>2. Replaced(f)
          BY <1>1, <2>7, <3>1, <3>3, <4>1, SendAllMultipleStack
        <4>3. f.msg = Top.msg /\ f.pc = "loop"
          BY <4>1 DEF Goes
        <4> QED
          BY <2>3, <2>7, <3>3, <4>2, <4>3
      <3> QED
        BY <3>2, <3>3
    <2>8. CASE SendAllMultipleEnd
      <3>1. PICK f : f = Goes("store", Top.idx, Top.sent)
        OBVIOUS
      <3>2. Top.sent /\ Replaced(f)
        BY <1>1, <1>2, <2>5, <2>8, <3>1, SendAllMultipleEndStack
      <3>3. f.msg = Top.msg /\ f.sent = Top.sent
        BY <3>1 DEF Goes
      <3> QED
        BY <2>3, <2>8, <3>2, <3>3
    <2>9. CASE ReportOverflow
      <3>1. overflow_counter \in Nat /\ done.reports \in Nat
        BY DEF Typed, TypeOK, History
      <3>2. PICK f, g : /\ f = Goes("reported", Top.idx, Top.sent)
                        /\ g = Send(Overflow(overflow_counter, done.reports + 1), FALSE)
        OBVIOUS
      <3>3. Pushed(f, g)
        BY <1>1, <2>5, <2>9, <3>1, <3>2, ReportOverflowStack
      <3>4. f.msg = Top.msg /\ f.sent = Top.sent /\ Top.pc = "store"
        BY <2>9, <3>2 DEF Goes, ReportOverflow, At
      <3> QED
        BY <2>4, <2>9, <3>3, <3>4
    <2>10. ~OverflowReported
      BY <1>1, <2>5, OverflowReportedStack
    <2>11. ~StoreInRing /\ ~Discard
      BY <1>2 DEF StoreInRing, Discard, Buffering
    <2> QED
      BY <1>2, <2>2, <2>6, <2>7, <2>8, <2>9, <2>10, <2>11, Dispatch DEF At, SendPcs
  <1>3. CASE Returns
    <2>1. i \in 1 .. Len(stack) /\ stack'[i] = stack[i]
      BY <1>1, <1>3 DEF Returns, Popped
    <2> QED
      BY <2>1
  <1>4. ASSUME NEW f, GoesOn(f)
        PROVE  (i \in 1 .. Len(stack) /\ stack'[i] = stack[i])
               \/ (i = Len(stack) /\ stack # <<>> /\ Top.force /\ Len(stack') >= Len(stack))
    <2>1. stack # <<>> /\ Replaced(f) /\ Follows(f)
      BY <1>4 DEF GoesOn
    <2>2. i = Len(stack) => stack'[i] = f
      BY <1>1, <2>1 DEF Replaced
    <2> QED
      BY <1>1, <2>1, <2>2 DEF Replaced, Follows
  <1>5. ASSUME NEW f, NEW g, CallsOn(f, g)
        PROVE  \/ i \in 1 .. Len(stack) /\ stack'[i] = stack[i]
               \/ i = Len(stack) /\ stack # <<>> /\ Top.force /\ Len(stack') >= Len(stack)
               \/ stack'[i].pc = "send" /\ ~stack'[i].sent
    <2>1. stack # <<>> /\ Pushed(f, g) /\ Follows(f)
      BY <1>5 DEF CallsOn
    <2>2. i = Len(stack) => stack'[i] = f
      BY <1>1, <2>1 DEF Pushed
    <2>3. CASE i = Len(stack) + 1
      <3>1. stack'[i] = g
        BY <1>1, <2>1, <2>3 DEF Pushed
      <3>2. g.force
        BY <3>1
      <3>3. f.pc = "drained"
        BY <1>5, <3>2 DEF CallsOn, Calls
      <3>4. Top.pc \in DrainPcs /\ ~UNCHANGED stack
        BY <1>1, <2>1, <3>3 DEF Follows, DrainPcs, Pushed
      <3>5. SendRingbuffer
        <4>1. ~Replaced(Drain) /\ ~Popped
          BY <1>1, <2>1 DEF Replaced, Popped, Pushed
        <4>2. ~SendRingbufferNext
          BY <1>1, <4>1, SendRingbufferNextStack
        <4> QED
          BY <2>1, <3>4, <4>2, Dispatch DEF At, DrainPcs
      <3>6. Pushed(Then("drained"), Send(ring[1], TRUE))
        <4>1. ~Popped /\ ring \in Seq(Message)
          BY <1>1, <2>1 DEF Popped, Pushed, Typed, TypeOK
        <4> QED
          BY <1>1, <3>5, <4>1, SendRingbufferStack
      <3>7. stack'[i] = Send(ring[1], TRUE)
        BY <1>1, <2>3, <3>6 DEF Pushed
      <3> QED
        BY <3>7 DEF Send, Frame
    <2> QED
      BY <1>1, <2>1, <2>2, <2>3 DEF Pushed, Follows
  <1>6. ~\E f \in FrameType : Starts(f)
    <2> SUFFICES ASSUME NEW f, Starts(f) PROVE FALSE
      OBVIOUS
    <2>1. Len(stack') = 1 /\ stack'[1] = f /\ ~f.force
      BY DEF Starts
    <2>2. \A k \in 1 .. 1 : ~stack'[k].force
      BY <2>1
    <2> QED
      BY <2>1, <2>2
  <1>7. ~\E f, g \in FrameType : StartsWith(f, g)
    <2> SUFFICES ASSUME NEW f, NEW g, StartsWith(f, g) PROVE FALSE
      OBVIOUS
    <2>1. Len(stack') = 2 /\ stack'[1] = f /\ stack'[2] = g /\ ~f.force /\ ~g.force
      BY DEF StartsWith
    <2>2. \A k \in 1 .. 2 : ~stack'[k].force
      BY <2>1
    <2> QED
      BY <2>1, <2>2
  <1>8. CASE UNCHANGED stack
    BY <1>8
  <1>9. \/ i \in 1 .. Len(stack) /\ stack'[i] = stack[i]
        \/ i = Len(stack) /\ stack # <<>> /\ Top.force /\ Len(stack') >= Len(stack)
        \/ stack'[i].pc = "send" /\ ~stack'[i].sent
    BY <1>1, <1>3, <1>4, <1>5, <1>6, <1>7, <1>8 DEF StackMove
  <1> QED
    BY <1>2, <1>9

LEMMA SentEntryStep ==
  ASSUME Typed, Shape, Next, Routed, \A i \in 1 .. Len(stack) : SentEntry(i),
         NEW i \in 1 .. Len(stack')
  PROVE  SentEntry(i)'
  <1>1. PICK f : f = stack'[i]
    OBVIOUS
  <1>2. SUFFICES ASSUME f.force, f.msg.kind # "info"
                 PROVE  (f.sent => Delivered(f.msg)') /\ (f.pc \in {"store", "reported"} => f.sent)
    BY <1>1 DEF SentEntry, Delivered
  <1>3. PICK m : m = f.msg
    OBVIOUS
  <1>4. CASE i \in 1 .. Len(stack) /\ f = stack[i]
    <2>1. (f.sent => Delivered(m)) /\ (f.pc \in {"store", "reported"} => f.sent)
      BY <1>2, <1>3, <1>4 DEF SentEntry
    <2>2. f.sent => Delivered(m)'
      BY <2>1, DeliveredKept
    <2> QED
      BY <1>3, <2>1, <2>2 DEF Delivered
  <1>5. CASE f.pc = "send" /\ ~f.sent
    BY <1>5
  <1>6. CASE i = Len(stack) /\ stack # <<>> /\ Top.force /\ f.msg = Top.msg
    <2>1. Top = stack[Len(stack)] /\ Len(stack) \in 1 .. Len(stack)
      <3>1. stack \in Seq(FrameType)
        BY DEF Typed, TypeOK
      <3> QED
        BY <1>6, <3>1, EmptySeq DEF Top
    <2>2. (Top.sent => Delivered(m)) /\ (Top.pc \in {"store", "reported"} => Top.sent)
      BY <1>2, <1>3, <1>6, <2>1 DEF SentEntry
    <2>3. Top.sent => Delivered(m)'
      BY <2>2, DeliveredKept
    <2>4. CASE SendAllMultiple /\ pfd[Top.idx] \notin broken /\ f.pc = "loop"
      <3>1. Delivered(m)'
        BY <1>2, <1>3, <1>6, <2>4, DeliveredNow
      <3> QED
        BY <1>3, <2>4, <3>1 DEF Delivered
    <2>5. CASE /\ f.sent = Top.sent
               /\ f.pc = "loop" \/ Top.sent \/ Top.pc = "store"
      BY <1>3, <2>2, <2>3, <2>5 DEF Delivered
    <2>6. ClientSend => Routed
      OBVIOUS
    <2> QED
      BY <1>1, <1>2, <2>2, <2>3, <2>4, <2>5, <1>4, <1>5, ForcedOrigin
  <1> QED
    BY <1>1, <1>2, <1>4, <1>5, <1>6, ForcedOrigin

\* The head of the ring that is removed after a successful send is on a socket.
LEMMA HeadDeliveredStep ==
  ASSUME Typed, Shape, Forced, Next, \A i \in 1 .. Len(stack) : SentEntry(i), HeadDelivered
  PROVE  HeadDelivered'
  <1>1. stack \in Seq(FrameType) /\ stack' \in Seq(FrameType) /\ StackMove
    BY StackTyped, StackMoves DEF Typed, TypeOK
  <1>2. SUFFICES ASSUME At("drained")', ret' = "OK", ring'[1].kind # "info" PROVE Delivered(ring[1])'
    BY DEF HeadDelivered
  <1>3. PICK m : m = ring[1]
    OBVIOUS
  <1>4. ASSUME ring' = ring, Delivered(m) PROVE Delivered(ring[1])'
    <2>1. Delivered(m)'
      BY <1>4, DeliveredKept
    <2> QED
      BY <1>3, <1>4, <2>1 DEF Delivered
  <1>5. CASE stack = <<>>
    <2>1. ~UNCHANGED stack
      BY <1>2, <1>5 DEF At, Idle
    <2>2. ASSUME NEW f, Starts(f) PROVE FALSE
      <3>1. Top' = f /\ f.pc # "drained"
        BY <2>2 DEF Starts, Top
      <3> QED
        BY <1>2, <3>1 DEF At
    <2>3. ASSUME NEW f, NEW g, StartsWith(f, g) PROVE FALSE
      <3>1. Top' = g /\ g.pc # "drained"
        BY <2>3 DEF StartsWith, Top
      <3> QED
        BY <1>2, <3>1 DEF At
    <2> QED
      BY <1>1, <1>5, <2>1, <2>2, <2>3 DEF StackMove, Returns, GoesOn, CallsOn
  <1>6. CASE stack # <<>> /\ Popped
    <2>1. Top.force /\ Len(stack') # Len(stack) /\ Len(stack') # Len(stack) + 1
      BY <1>1, <1>2, <1>6, TopPopped DEF Popped
    <2>2. Top = stack[Len(stack)] /\ Len(stack) \in 1 .. Len(stack)
      BY <1>1, <1>6, EmptySeq DEF Top
    <2>3. Top.pc \in SendPcs
      BY <2>1, <2>2 DEF Shape, FrameOK
    <2>4. Top.msg = m
      BY <1>3, <2>1, <2>2 DEF Forced, ForcedFrame
    <2>5. Top.pc \in {"store", "reported"} /\ ring' = ring
      <3>1. ~StoreInRing /\ ~Discard
        BY <2>1 DEF StoreInRing, Discard, Buffering
      <3>2. ~ClientSend
        BY <1>1, <2>1, ClientSendStack DEF Replaced
      <3>3. ~SendAllMultiple
        <4>1. SendAllMultiple => Top.idx # 0 /\ pfd \in Seq(Conn)
          BY DeliveredUpdate DEF Typed, TypeOK
        <4> QED
          BY <1>1, <2>1, <4>1, SendAllMultipleStack DEF Replaced, Pushed
      <3>4. ~SendAllMultipleEnd
        BY <1>1, <1>2, <2>1, SendAllMultipleEndStack DEF Replaced
      <3>5. ~UNCHANGED stack
        BY <2>1
      <3>6. ReportOverflow => Top.pc = "store" /\ ring' = ring
        BY DEF ReportOverflow, At
      <3>7. OverflowReported => Top.pc = "reported" /\ ring' = ring
        BY DEF OverflowReported, At
      <3> QED
        BY <1>6, <2>3, <3>1, <3>2, <3>3, <3>4, <3>5, <3>6, <3>7, Dispatch DEF At, SendPcs
    <2>6. Delivered(m)
      <3>1. m.kind # "info"
        BY <1>2, <1>3, <2>5
      <3>2. SentEntry(Len(stack))
        BY <2>2
      <3> QED
        BY <2>1, <2>2, <2>4, <2>5, <3>1, <3>2 DEF SentEntry
    <2> QED
      BY <1>4, <2>5, <2>6
  <1>7. CASE stack # <<>> /\ UNCHANGED stack
    <2>1. At("drained") /\ ~Top.force
      <3>1. At("drained")
        BY <1>2, <1>7 DEF At, Idle, Top
      <3>2. Top = stack[Len(stack)] /\ Len(stack) \in 1 .. Len(stack)
        BY <1>1, <1>7, EmptySeq DEF Top
      <3> QED
        BY <3>1, <3>2 DEF Shape, FrameOK, At, SendPcs
    <2>2. ~SendRingbufferNext
      <3>1. SendRingbufferNext => Popped \/ Replaced(Drain)
        BY <1>1, SendRingbufferNextStack
      <3>2. ~Popped
        BY <1>1, <1>2, <1>7, <2>1, TopPopped
      <3>3. Replaced(Drain) => Drain.pc = "drained"
        BY <1>1, <1>2, <1>7, TopReplaced
      <3>4. Drain.pc # "drained"
        BY DEF Drain, Frame
      <3> QED
        BY <3>1, <3>2, <3>3, <3>4
    <2>3. ret' = ret /\ ring' = ring
      BY <1>7, <2>1, <2>2, Dispatch DEF At, daemonVars
    <2>4. Delivered(m)
      BY <1>2, <1>3, <2>1, <2>3 DEF HeadDelivered
    <2> QED
      BY <1>4, <2>3, <2>4
  <1>8. ASSUME NEW f, stack # <<>>, GoesOn(f) PROVE FALSE
    BY <1>1, <1>2, <1>8, TopReplaced DEF GoesOn
  <1>9. ASSUME NEW f, NEW g, stack # <<>>, CallsOn(f, g) PROVE FALSE
    BY <1>1, <1>2, <1>9, TopPushed DEF CallsOn
  <1> QED
    BY <1>1, <1>5, <1>6, <1>7, <1>8, <1>9 DEF StackMove, Returns, Starts, StartsWith

\* Closing the only client leaves none.
LEMMA OnlyClientCloses ==
  ASSUME Typed, Shape, CloseSocket, Len(pfd) <= 1
  PROVE  pfd # <<>> /\ pfd' = <<>>
  <1>1. pfd \in Seq(Conn) /\ stack \in Seq(FrameType)
    BY DEF Typed, TypeOK
  <1>2. stack # <<>> /\ Top = stack[Len(stack)] /\ Len(stack) \in 1 .. Len(stack) /\ Top.pc = "close"
    BY <1>1, TopFacts DEF CloseSocket
  <1>3. PICK j \in 1 .. Len(pfd) : pfd[j] = Top.idx
    BY <1>2 DEF Shape, FrameOK
  <1>4. Contains(pfd, Top.idx)
    BY <1>1, <1>3 DEF Contains
  <1>5. pfd' = DisableFd(pfd, Top.idx)
    BY DEF CloseSocket, UnregisterConnection
  <1>6. pfd' \in Seq(Conn) /\ Len(pfd') = Len(pfd) - 1 /\ Len(pfd) \in Nat
    BY <1>1, <1>4, <1>5, DisableFdFacts
  <1>7. Len(pfd') = 0 /\ Len(pfd) # 0
    BY <1>1, <1>3, <1>6
  <1> QED
    BY <1>1, <1>6, <1>7, EmptySeq

\* A table that is empty stays so during an event.
LEMMA NoClientComes ==
  ASSUME Typed, Shape, Next, stack # <<>>, pfd = <<>>
  PROVE  pfd' = <<>>
  <1>1. Len(pfd) = 0
    OBVIOUS
  <1>2. ~CloseSocket
    BY <1>1, OnlyClientCloses
  <1>3. ~ClientConnect
    BY DEF ClientConnect, Idle
  <1> QED
    BY <1>2, <1>3, TableChanges

LEMMA SentLogStep ==
  ASSUME Typed, Shape, Incoming, Next, Routed, Outside, SentLog,
         Len(pfd) <= 1, pfd # <<>> => Len(pfd) = 1
  PROVE  SentLog'
  <1>1. PICK f : f = stack'[1]
    OBVIOUS
  <1>2. SUFFICES ASSUME stack' # <<>>, f.msg.kind = "log"
                 PROVE  /\ f.sent /\ f.pc # "reported" => Delivered(f.msg)'
                        /\ f.pc = "store" /\ state' = "SEND_DIRECT" => f.sent
                        /\ f.pc = "loop" =>
                             \/ f.idx = 1 /\ pfd' # <<>> /\ Len(stack') = 1
                             \/ /\ f.idx = 2
                                /\ \/ f.sent
                                   \/ pfd' = <<>>
                                   \/ Len(stack') = 2 /\ stack'[2].pc = "close"
    BY <1>1 DEF SentLog, Delivered
  <1>3. PICK m : m = f.msg
    OBVIOUS
  <1>4. stack \in Seq(FrameType) /\ Len(stack) \in Nat
    BY DEF Typed, TypeOK
  <1>5. CASE UserMessageLog /\ f = Send(Log(done.logs + 1), FALSE)
    <2>1. f.pc = "send" /\ ~f.sent
      BY <1>5 DEF Send, Frame
    <2> QED
      BY <2>1
  <1>6. CASE stack # <<>> /\ f = stack[1] /\ Len(stack) > 1
    <2>1. /\ f.sent /\ f.pc # "reported" => Delivered(m)
          /\ f.pc = "loop" => f.idx = 2 /\ (f.sent \/ pfd = <<>> \/ (Len(stack) = 2 /\ stack[2].pc = "close"))
      BY <1>2, <1>3, <1>6 DEF SentLog
    <2>2. f.sent /\ f.pc # "reported" => Delivered(m)'
      BY <2>1, DeliveredKept
    <2>3. f.pc # "store"
      <3>1. FrameOK(1)
        BY <1>4, <1>6 DEF Shape
      <3> QED
        BY <1>6, <3>1 DEF FrameOK
    <2>4. pfd = <<>> => pfd' = <<>>
      BY <1>6, NoClientComes
    <2>5. ASSUME Len(stack) = 2, stack[2].pc = "close"
          PROVE  pfd' = <<>> \/ (Len(stack') = 2 /\ stack'[2].pc = "close")
      <3>1. At("close")
        BY <1>6, <2>5 DEF At, Idle, Top
      <3>2. CloseSocket \/ UNCHANGED stack
        BY <1>6, <3>1, Dispatch DEF At
      <3> QED
        BY <2>5, <3>2, OnlyClientCloses
    <2> QED
      BY <1>3, <2>1, <2>2, <2>3, <2>4, <2>5 DEF Delivered
  <1>7. CASE stack # <<>> /\ f = stack[1] /\ UNCHANGED <<daemonVars, stack, ret, delivered, offline, done>>
    BY <1>1, <1>2, <1>7 DEF SentLog, Delivered, daemonVars
  <1>8. CASE /\ stack # <<>> /\ stack[1] = Top /\ Len(stack) = 1 /\ f.msg = Top.msg /\ ~Top.force
             /\ ClientSend \/ SendAllMultiple \/ SendAllMultipleEnd
    <2>1. Top.msg.kind = "log" /\ ~InDrain
      BY <1>2, <1>4, <1>8, AboveBase
    <2>2. /\ Top.sent /\ Top.pc # "reported" => Delivered(m)
          /\ Top.pc = "loop" => \/ Top.idx = 1 /\ pfd # <<>>
                                \/ Top.idx = 2 /\ (Top.sent \/ pfd = <<>>)
      BY <1>3, <1>8, <2>1 DEF SentLog
    <2>3. pfd = <<>> => state # "SEND_DIRECT"
      BY <2>1 DEF Outside, Buffers
    <2>4. Top.sent /\ Top.pc # "reported" => Delivered(m)'
      BY <2>2, DeliveredKept
    <2>5. CASE ClientSend
      <3>1. Top.pc = "send" /\ UNCHANGED <<state, pfd>>
        BY <2>5 DEF ClientSend, At, daemonVars
      <3>2. Top.idx = 1
        BY <1>8, <2>1, <3>1 DEF Incoming, IncomingFrame
      <3>3. Len(stack') = 1
        BY <1>4, <1>8, <2>5, ClientSendStack DEF Replaced
      <3>4. /\ f.pc = IF state = "SEND_DIRECT" THEN "loop" ELSE "store"
            /\ f.idx = 1 /\ f.sent = Top.sent
        BY <1>1, <1>8, <2>5, <3>2, BaseGoesOn
      <3> QED
        BY <1>3, <2>3, <2>4, <3>1, <3>3, <3>4 DEF Delivered
    <2>6. CASE SendAllMultiple
      <3>1. Top.pc = "loop" /\ Top.idx \in 1 .. Len(pfd)
        BY <2>6, DeliveredUpdate
      <3>2. Top.idx = 1
        BY <2>2, <3>1
      <3>3. /\ f.pc = "loop" /\ f.idx = 2
            /\ IF pfd[Top.idx] \in broken
               THEN f.sent = Top.sent /\ Len(stack') = 2 /\ stack'[2].pc = "close"
               ELSE f.sent
        BY <1>1, <1>8, <2>6, <3>2, BaseGoesOn
      <3>4. pfd[Top.idx] \notin broken => Delivered(m)'
        BY <1>2, <1>3, <1>8, <2>6, DeliveredNow
      <3> QED
        BY <1>3, <2>4, <3>1, <3>3, <3>4 DEF Delivered
    <2>7. CASE SendAllMultipleEnd
      <3>1. Top.pc = "loop" /\ Top.idx > Len(pfd) /\ UNCHANGED state
        BY <2>7 DEF SendAllMultipleEnd, At, daemonVars
      <3>2. f.pc = "store" /\ f.sent = Top.sent
        BY <1>1, <1>8, <2>7, BaseGoesOn
      <3>3. Top.sent \/ pfd = <<>>
        BY <2>2, <3>1
      <3> QED
        BY <1>3, <2>3, <2>4, <3>1, <3>2, <3>3 DEF Delivered
    <2> QED
      BY <1>8, <2>5, <2>6, <2>7
  <1>9. CASE f.pc = "reported"
    BY <1>9
  <1> QED
    BY <1>1, <1>2, <1>5, <1>6, <1>7, <1>8, <1>9, BaseMoves

\* The call of a new log message keeps it.
LEMMA BaseMessage ==
  ASSUME Typed, Len(stack) = 1, Top = stack[1], ~Top.force,
         ClientSend \/ SendAllMultiple \/ SendAllMultipleEnd
  PROVE  stack' # <<>> /\ stack'[1].msg = Top.msg
  <1>1. stack \in Seq(FrameType) /\ pfd \in Seq(Conn)
    BY DEF Typed, TypeOK
  <1>2. ASSUME NEW f, Replaced(f), f.msg = Top.msg PROVE stack' # <<>> /\ stack'[1].msg = Top.msg
    <2>1. Len(stack') = 1 /\ stack'[1] = f
      BY <1>2 DEF Replaced
    <2> QED
      BY <1>2, <2>1
  <1>3. ASSUME NEW f, NEW g, Pushed(f, g), f.msg = Top.msg PROVE stack' # <<>> /\ stack'[1].msg = Top.msg
    <2>1. Len(stack') = 2 /\ stack'[1] = f
      BY <1>3 DEF Pushed
    <2> QED
      BY <1>3, <2>1
  <1>4. \A pc, idx, sent : Goes(pc, idx, sent).msg = Top.msg
    BY DEF Goes
  <1>5. SendAllMultiple => Top.idx # 0
    BY DeliveredUpdate
  <1> QED
    <2>1. CASE ClientSend
      <3>1. PICK pc : Replaced(Goes(pc, Top.idx, Top.sent))
        BY <1>1, <2>1, ClientSendStack
      <3> QED
        BY <1>2, <1>4, <3>1
    <2>2. CASE SendAllMultiple
      <3>1. PICK f, g, h : /\ f = Goes("loop", Top.idx + 1, Top.sent) /\ g = Close(pfd[Top.idx])
                           /\ h = Goes("loop", Top.idx + 1, TRUE)
        OBVIOUS
      <3>2. Pushed(f, g) \/ Replaced(h)
        BY <1>1, <1>5, <2>2, <3>1, SendAllMultipleStack
      <3>3. f.msg = Top.msg /\ h.msg = Top.msg
        BY <1>4, <3>1
      <3> QED
        BY <1>2, <1>3, <3>2, <3>3
    <2>3. CASE SendAllMultipleEnd
      <3>1. Replaced(Goes("store", Top.idx, Top.sent))
        BY <1>1, <2>3, SendAllMultipleEndStack
      <3> QED
        BY <1>2, <1>4, <3>1
    <2> QED
      BY <2>1, <2>2, <2>3

LEMMA AccountedStep ==
  ASSUME Typed, Shape, Holding, Next, SentLog, HeadDelivered,
         \A n \in 1 .. done.logs : Accounted(n), NEW n \in 1 .. done'.logs
  PROVE  Accounted(n)'
  <1>1. done \in History /\ done.logs \in Nat /\ done'.logs \in Nat /\ n \in Nat
    BY LogsGrow DEF Typed
  <1>2. stack \in Seq(FrameType) /\ Len(stack) \in Nat
    BY DEF Typed, TypeOK
  <1>3. ring \in Seq(Message) /\ Log(n) \in Message
    BY <1>1, MessageTypes DEF Typed, TypeOK
  <1>4. PICK m : m = Log(n)
    OBVIOUS
  <1>5. m.kind = "log" /\ m.n = n
    BY <1>4 DEF Log
  <1>6. ASSUME Delivered(m) PROVE Accounted(n)'
    <2>1. Delivered(m)'
      BY <1>6, DeliveredKept
    <2> QED
      BY <1>4, <2>1 DEF Accounted
  <1>7. CASE UserMessageLog /\ n = done.logs + 1
    <2>1. stack' = <<Send(Log(n), FALSE)>>
      BY <1>7 DEF UserMessageLog
    <2>2. stack' # <<>> /\ stack'[1] = Send(Log(n), FALSE)
      BY <2>1
    <2>3. Send(Log(n), FALSE).pc = "send" /\ Send(Log(n), FALSE).msg = Log(n)
      BY DEF Send, Frame
    <2> QED
      BY <2>2, <2>3 DEF Accounted
  <1>8. CASE n \in 1 .. done.logs
    <2>1. Accounted(n)
      BY <1>8
    <2>2. done.discarded \subseteq done'.discarded /\ (Discard /\ Top.msg = m => n \in done'.discarded)
      <3>1. CASE Discard
        <4>1. PICK x, y : /\ done' = [done EXCEPT !.discards = x, !.discarded = y]
                          /\ y = IF Top.msg.kind = "log" THEN done.discarded \union {Top.msg.n} ELSE done.discarded
          BY <3>1, Zenon DEF Discard
        <4>2. done'.discarded = y
          BY <1>1, <4>1 DEF History
        <4> QED
          BY <1>5, <4>1, <4>2
      <3>2. CASE ~Discard
        BY <3>2, HistoryFields
      <3> QED
        BY <3>1, <3>2
    <2>3. CASE n \in done.discarded
      BY <2>2, <2>3 DEF Accounted
    <2>4. ASSUME NEW i \in 1 .. Len(ring), ring[i] = m PROVE Accounted(n)'
      <3>1. ASSUME NEW k \in 1 .. Len(ring'), ring'[k] = m PROVE Accounted(n)'
        BY <1>4, <3>1 DEF Accounted
      <3>2. CASE UNCHANGED ring
        BY <2>4, <3>1, <3>2
      <3>3. CASE ring' = Append(ring, Top.msg) /\ Top.msg \in Message
        <4>1. i \in 1 .. Len(ring') /\ ring'[i] = m
          BY <1>3, <2>4, <3>3
        <4> QED
          BY <3>1, <4>1
      <3>4. CASE SendRingbufferNext /\ ring # <<>> /\ ring' = Tail(ring) /\ ret = "OK"
        <4>1. CASE i = 1
          <5>1. Delivered(m)
            BY <1>5, <2>4, <3>4, <4>1 DEF HeadDelivered, SendRingbufferNext
          <5> QED
            BY <1>6, <5>1
        <4>2. CASE i # 1
          <5>1. i - 1 \in 1 .. Len(ring') /\ ring'[i - 1] = m
            BY <1>3, <2>4, <3>4, <4>2
          <5> QED
            BY <3>1, <5>1
        <4> QED
          BY <4>1, <4>2
      <3> QED
        BY <3>2, <3>3, <3>4, RingMoves
    <2>5. CASE stack # <<>> /\ stack[1].msg = m /\ stack[1].pc \in {"send", "loop", "store"}
      <3>1. ASSUME stack' # <<>>, stack'[1].msg = m, stack'[1].pc \in {"send", "loop", "store"}
            PROVE  Accounted(n)'
        BY <1>4, <3>1 DEF Accounted
      <3>2. CASE Len(stack) > 1
        <4>1. stack' # <<>> /\ stack'[1] = stack[1]
          BY <3>2, BaseKept, StackMoves
        <4> QED
          BY <2>5, <3>1, <4>1
      <3>3. CASE Len(stack) = 1
        <4>1. Top = stack[1] /\ ~Top.force
          BY <1>2, <1>5, <2>5, <3>3, AboveBase DEF Top
        <4>2. CASE ClientSend \/ SendAllMultiple \/ SendAllMultipleEnd
          <5>1. stack' # <<>> /\ stack'[1].msg = m
            BY <2>5, <3>3, <4>1, <4>2, BaseMessage
          <5>2. stack'[1].pc \in {"loop", "store"}
            BY <3>3, <4>1, <4>2, BaseGoesOn
          <5> QED
            BY <3>1, <5>1, <5>2
        <4>3. CASE StoreInRing
          <5>1. ring' = Append(ring, m)
            BY <2>5, <4>1, <4>3 DEF StoreInRing
          <5>2. Len(ring) + 1 \in 1 .. Len(ring') /\ ring'[Len(ring) + 1] = m
            BY <1>3, <1>4, <5>1
          <5> QED
            BY <1>4, <5>2 DEF Accounted
        <4>4. CASE Discard
          BY <2>2, <2>5, <4>1, <4>4 DEF Accounted
        <4>5. CASE ReportOverflow
          <5>1. Top.pc = "store" /\ state = "SEND_DIRECT"
            BY <4>1, <4>5 DEF ReportOverflow, Buffering, At, Typed, TypeOK
          <5>2. Delivered(m)
            BY <1>5, <2>5, <4>1, <5>1 DEF SentLog
          <5> QED
            BY <1>6, <5>2
        <4>6. CASE UNCHANGED stack
          BY <2>5, <3>1, <4>6
        <4> QED
          BY <2>5, <4>1, <4>2, <4>3, <4>4, <4>5, <4>6, Dispatch DEF At
      <3> QED
        BY <2>5, <3>2, <3>3, StackSizes
    <2> QED
      BY <1>4, <1>6, <2>1, <2>3, <2>4, <2>5 DEF Accounted
  <1>9. (n = done.logs + 1 /\ UserMessageLog) \/ n \in 1 .. done.logs
    <2>1. done'.logs = done.logs \/ (UserMessageLog /\ done'.logs = done.logs + 1)
      BY HistoryFields, LogsGrow
    <2> QED
      BY <1>1, <2>1
  <1> QED
    BY <1>7, <1>8, <1>9

LEMMA LosslessStep ==
  ASSUME Typed, Shape, Table, Holding, StateInv, Forced, Incoming, Lossless, Next
  PROVE  Lossless'
  <1>1. SUFFICES ASSUME External', done'.peak <= 1
                 PROVE  /\ \A n \in 1 .. done'.logs : Accounted(n)'
                        /\ \A i \in 1 .. Len(stack') : SentEntry(i)'
                        /\ SentLog'
                        /\ HeadDelivered'
    BY DEF Lossless
  <1>2. External /\ Routed
    BY <1>1, ModeKept DEF External, Routed
  <1>3. done.peak <= 1 /\ Len(pfd) <= 1 /\ (pfd # <<>> => Len(pfd) = 1)
    BY <1>1, PeakGrows
  <1>4. /\ \A n \in 1 .. done.logs : Accounted(n)
        /\ \A i \in 1 .. Len(stack) : SentEntry(i)
        /\ SentLog
        /\ HeadDelivered
    BY <1>2, <1>3 DEF Lossless
  <1>5. Outside
    BY <1>2 DEF StateInv
  <1>6. \A n \in 1 .. done'.logs : Accounted(n)'
    BY <1>4, AccountedStep
  <1>7. \A i \in 1 .. Len(stack') : SentEntry(i)'
    BY <1>2, <1>4, SentEntryStep
  <1>8. SentLog'
    BY <1>2, <1>3, <1>4, <1>5, SentLogStep
  <1>9. HeadDelivered'
    BY <1>4, HeadDeliveredStep
  <1> QED
    BY <1>6, <1>7, <1>8, <1>9

--------------------------------------------------------------------------------
(* The theorems *)

\* What holds whatever the size of the ring ...
CallInv == Typed /\ Shape /\ Reporting /\ Holding /\ Table /\ Direct /\ Announced
OrderInv == Ordered /\ Queued /\ Forced /\ Incoming /\ OfflineOrder
DaemonInv == CallInv /\ OrderInv /\ Unrouted

\* ... and what needs a ring that takes every message when it is empty.
LossInv == Full /\ StateInv /\ Tracing /\ Lossless

LEMMA InitCall ==
  ASSUME Init
  PROVE  CallInv
  <1>1. limit \in Limit /\ limit.mode \in Modes /\ limit.clients \in Nat
    BY ConstAssumption DEF Init, Limit
  <1>2. ring \in Seq(Message) /\ pfd \in Seq(Conn) /\ stack \in Seq(FrameType) /\ offline \in Seq(Nat)
        /\ Len(pfd) = 0 /\ Len(stack) = 0
    BY DEF Init
  <1>3. RingUsed <= RingMax
    BY ConstAssumption, UsedByEmpty DEF Init, RingUsed
  <1>4. delivered \in [Conn -> Seq(Message)]
    BY DEF Init
  <1>5. done \in History
    BY ConstAssumption DEF Init, History
  <1>6. TypeOK
    BY <1>1, <1>2, <1>3, <1>4 DEF Init, TypeOK
  <1>7. 1 .. Len(stack) = {} /\ 1 .. Len(pfd) = {}
    BY <1>2
  <1>8. Typed
    BY <1>2, <1>5, <1>6, <1>7 DEF Init, Typed
  <1>9. Shape /\ Reporting /\ Holding
    BY <1>7 DEF Shape, Reporting, Holding
  <1>10. Table
    <2>1. done.peak = 0 /\ \A c \in Conn : delivered[c] = <<>>
      BY DEF Init
    <2> QED
      BY <1>2, <1>7, <2>1 DEF Table
  <1>11. Direct /\ Announced
    BY DEF Init, Direct, Announced
  <1> QED
    BY <1>8, <1>9, <1>10, <1>11 DEF CallInv

LEMMA InitOrder ==
  ASSUME Init
  PROVE  OrderInv /\ Unrouted
  <1>1. Len(ring) = 0 /\ Len(pfd) = 0 /\ Len(stack) = 0 /\ Len(offline) = 0 /\ stack = <<>> /\ Idle
    BY DEF Init, Idle
  <1>2. /\ 1 .. Len(stack) = {} /\ 1 .. Len(pfd) = {} /\ 1 .. Len(ring) = {} /\ 1 .. Len(offline) = {}
        /\ \A c \in Conn : 1 .. Len(delivered[c]) = {}
    <2>1. \A c \in Conn : Len(delivered[c]) = 0
      BY DEF Init
    <2> QED
      BY <1>1, <2>1
  <1>3. Ordered
    BY <1>2 DEF Ordered, Sorted, Before
  <1>4. Queued /\ Forced /\ OfflineOrder /\ Incoming
    BY <1>1, <1>2 DEF Queued, Forced, OfflineOrder, Incoming
  <1>5. Unrouted
    BY <1>1, <1>2 DEF Init, Unrouted, At
  <1> QED
    BY <1>3, <1>4, <1>5 DEF OrderInv

LEMMA InitLoss ==
  ASSUME Init
  PROVE  LossInv
  <1>1. Len(stack) = 0 /\ stack = <<>> /\ Idle /\ done.logs = 0 /\ state = "BUFFER" /\ pfd = <<>>
    BY DEF Init, Idle
  <1>2. 1 .. Len(stack) = {} /\ 1 .. done.logs = {}
    BY <1>1
  <1>3. ~InDrain
    BY <1>2 DEF InDrain
  <1>4. Full /\ StateInv
    BY <1>1, <1>3 DEF Full, StateInv, Outside, Inside, Buffers
  <1>5. Tracing /\ Lossless
    BY <1>1, <1>2 DEF Tracing, Lossless, SentLog, HeadDelivered, At
  <1> QED
    BY <1>4, <1>5 DEF LossInv

LEMMA StutterCall ==
  ASSUME CallInv, UNCHANGED vars
  PROVE  CallInv'
  <1>1. UNCHANGED <<state, mode, ring, pfd, connectionState, overflow_counter, overflow_cnt, broken,
                    stack, ret, delivered, offline, limit, done>>
    BY DEF vars, daemonVars
  <1>2. Typed'
    BY <1>1 DEF CallInv, Typed, TypeOK, RingUsed, UsedBy
  <1>3. Shape' /\ Reporting' /\ Holding'
    BY <1>1 DEF CallInv, Shape, FrameOK, Reporting, Holding
  <1>4. Table' /\ Direct' /\ Announced'
    BY <1>1 DEF CallInv, Table, Direct, Announced
  <1> QED
    BY <1>2, <1>3, <1>4 DEF CallInv

LEMMA StutterOrder ==
  ASSUME OrderInv, Unrouted, UNCHANGED vars
  PROVE  OrderInv' /\ Unrouted'
  <1>1. UNCHANGED <<state, mode, ring, pfd, connectionState, overflow_counter, overflow_cnt, broken,
                    stack, ret, delivered, offline, limit, done>>
    BY DEF vars, daemonVars
  <1>2. Ordered' /\ OfflineOrder' /\ Unrouted'
    BY <1>1 DEF OrderInv, Ordered, Sorted, Before, OfflineOrder, Unrouted, InDrain, At, Idle, Top, Routed
  <1>3. Queued' /\ Forced' /\ Incoming'
    BY <1>1 DEF OrderInv, Queued, HeadSent, At, Idle, Top, Before, Forced, ForcedFrame, Ahead, Incoming,
                IncomingFrame
  <1> QED
    BY <1>2, <1>3 DEF OrderInv

LEMMA StutterLoss ==
  ASSUME LossInv, UNCHANGED vars
  PROVE  LossInv'
  <1>1. UNCHANGED <<state, mode, ring, pfd, connectionState, overflow_counter, overflow_cnt, broken,
                    stack, ret, delivered, offline, limit, done>>
    BY DEF vars, daemonVars
  <1>2. Full' /\ Tracing'
    BY <1>1 DEF LossInv, Full, Tracing
  <1>3. StateInv'
    BY <1>1 DEF LossInv, StateInv, External, Routed, Outside, Inside, InsideFrame, InDrain, At, Idle, Top
  <1>4. Lossless'
    BY <1>1 DEF LossInv, Lossless, External, Routed, Accounted, Delivered, SentEntry, SentLog,
                HeadDelivered, At, Idle, Top
  <1> QED
    BY <1>2, <1>3, <1>4 DEF LossInv

LEMMA CallStep ==
  ASSUME CallInv, [Next]_vars
  PROVE  CallInv'
  BY TypedStep, StackMoves, ShapeStep, ReportingStep, HoldingStep, TableStep, DirectStep, AnnouncedStep,
     StutterCall DEF CallInv

LEMMA DaemonStep ==
  ASSUME DaemonInv, [Next]_vars
  PROVE  DaemonInv'
  <1>1. CallInv'
    BY CallStep DEF DaemonInv
  <1>2. CASE Next
    BY <1>1, <1>2, OrderedStep, QueuedStep, ForcedStep, IncomingStep, OfflineOrderStep, UnroutedStep
    DEF DaemonInv, CallInv, OrderInv
  <1>3. CASE UNCHANGED vars
    BY <1>1, <1>3, StutterOrder DEF DaemonInv
  <1> QED
    BY <1>2, <1>3

LEMMA LossStep ==
  ASSUME RingMin >= 2, DaemonInv, LossInv, [Next]_vars
  PROVE  LossInv'
  <1>1. CASE Next
    BY <1>1, FullStep, StateInvStep, TracingStep, LosslessStep
    DEF DaemonInv, CallInv, OrderInv, LossInv
  <1>2. CASE UNCHANGED vars
    BY <1>2, StutterLoss
  <1> QED
    BY <1>1, <1>2

\* dlt_daemon_client.c for every ring, number of clients and history: the variables have their
\* types, the ring keeps within its capacity and sent_message_overflow_cnt is taken once;
\* between events the ring is empty when messages are sent past it, and the applications know
\* of the clients (dlt_daemon_send_ringbuffer_to_client, dlt_daemon_process_client_connect).
THEOREM RingAndClients == Spec => [](TypeOK /\ DirectMeansDrained /\ ClientsAnnounced)
  <1>1. Init => DaemonInv
    BY InitCall, InitOrder DEF DaemonInv
  <1>2. DaemonInv /\ [Next]_vars => DaemonInv'
    BY DaemonStep
  <1>3. DaemonInv => TypeOK /\ DirectMeansDrained /\ ClientsAnnounced
    BY DEF DaemonInv, CallInv, Typed, Direct, DirectMeansDrained, Announced, ClientsAnnounced, Idle
  <1> QED
    BY <1>1, <1>2, <1>3, PTL DEF Spec

\* No client and no offline trace gets a log message twice or after a later one, whatever
\* clients break and however the calls of dlt_daemon_client_send nest.
THEOREM MessagesInOrder == Spec => []InOrder
  <1>1. Init => DaemonInv
    BY InitCall, InitOrder DEF DaemonInv
  <1>2. DaemonInv /\ [Next]_vars => DaemonInv'
    BY DaemonStep
  <1>3. DaemonInv => InOrder
    <2> SUFFICES ASSUME DaemonInv PROVE InOrder
      OBVIOUS
    <2>1. DOMAIN offline = 1 .. Len(offline) /\ \A c \in Conn : DOMAIN delivered[c] = 1 .. Len(delivered[c])
      BY DEF DaemonInv, CallInv, Typed, TypeOK
    <2> QED
      BY <2>1 DEF DaemonInv, OrderInv, Ordered, Sorted, OfflineOrder, InOrder
  <1> QED
    BY <1>1, <1>2, <1>3, PTL DEF Spec

\* When every message fits into the empty ring, the logging state between events agrees with the
\* table of connections, too (dlt_daemon_change_state, dlt_daemon_close_socket).
THEOREM StateAgrees ==
  ASSUME RingMin >= 2
  PROVE  Spec => []StateSound
  <1>1. Init => DaemonInv /\ LossInv
    BY InitCall, InitOrder, InitLoss DEF DaemonInv
  <1>2. (DaemonInv /\ LossInv) /\ [Next]_vars => (DaemonInv /\ LossInv)'
    BY DaemonStep, LossStep
  <1>3. DaemonInv /\ LossInv => StateSound
    <2> SUFFICES ASSUME DaemonInv, LossInv PROVE StateSound
      OBVIOUS
    <2>1. TypeOK /\ DirectMeansDrained /\ ClientsAnnounced
      BY DEF DaemonInv, CallInv, Typed, Direct, DirectMeansDrained, Announced, ClientsAnnounced, Idle
    <2>2. StateMatchesClients
      <3> SUFFICES ASSUME Idle, External PROVE (state = "BUFFER" => pfd = <<>>) /\ (pfd = <<>> => state \in Buffers)
        BY DEF StateMatchesClients, Buffers
      <3>1. ~InDrain
        BY DEF Idle, InDrain
      <3> QED
        BY <3>1 DEF LossInv, StateInv, Outside, Idle
    <2> QED
      BY <2>1, <2>2 DEF StateSound
  <1> QED
    BY <1>1, <1>2, <1>3, PTL DEF Spec

\* Then no log message vanishes in dlt_daemon_client_send either: with external logging and one
\* client at a time it is on a socket, in the ring or counted as lost, and with internal logging
\* it is in the offline trace.
THEOREM MessagesKept ==
  ASSUME RingMin >= 2
  PROVE  Spec => []NothingLost
  <1>1. Init => DaemonInv /\ LossInv
    BY InitCall, InitOrder, InitLoss DEF DaemonInv
  <1>2. (DaemonInv /\ LossInv) /\ [Next]_vars => (DaemonInv /\ LossInv)'
    BY DaemonStep, LossStep
  <1>3. DaemonInv /\ LossInv => NothingLost
    <2> SUFFICES ASSUME DaemonInv, LossInv PROVE NothingLost
      OBVIOUS
    <2>1. ring \in Seq(Message) /\ offline \in Seq(Nat) /\ \A c \in Conn : delivered[c] \in Seq(Message)
      BY DEF DaemonInv, CallInv, Typed, TypeOK
    <2>2. /\ DOMAIN ring = 1 .. Len(ring) /\ DOMAIN offline = 1 .. Len(offline)
          /\ \A c \in Conn : DOMAIN delivered[c] = 1 .. Len(delivered[c])
      BY <2>1
    <2>3. SingleClientLossless
      <3> SUFFICES ASSUME External, done.peak <= 1, Idle, NEW n \in 1 .. done.logs
                   PROVE  \/ n \in done.discarded
                          \/ Log(n) \in Range1(ring)
                          \/ \E c \in Conn : Log(n) \in Range1(delivered[c])
        BY DEF SingleClientLossless, NoSilentLoss
      <3>1. Accounted(n)
        BY DEF LossInv, Lossless
      <3> QED
        BY <2>2, <3>1 DEF Accounted, Delivered, Range1, Idle
    <2>4. OfflineComplete
      BY <2>2 DEF LossInv, Tracing, OfflineComplete, Range1, Idle
    <2> QED
      BY <2>3, <2>4 DEF NothingLost
  <1> QED
    BY <1>1, <1>2, <1>3, PTL DEF Spec

--------------------------------------------------------------------------------
(* The account of lost messages *)

\* The call that sends a new report of lost messages: to dlt_daemon_client_send by itself, or by
\* the handler of an application's overflow message.
ReportFrame(f) == ~f.force /\ f.msg.kind = "overflow"
Reporters == {"reported", "userOverflow"}
Callers ==
  \A i \in 1 .. Len(stack) : ReportFrame(stack[i]) <=> i > 1 /\ stack[i - 1].pc \in Reporters

\* The report at place i met a broken client: the client is about to be closed, or the daemon
\* buffers again and the ring, which was empty, has room for the notices of the close.
Shut(i) ==
  \/ Len(stack) = i + 1 /\ Top.pc = "close" /\ state = "SEND_DIRECT"
  \/ /\ state = "BUFFER" /\ pfd = <<>> /\ RingUsed + Len(stack) <= i + 2
     /\ \A j \in 1 .. Len(stack) : j > i => /\ ~stack[j].force /\ stack[j].msg.kind = "info"
                                            /\ stack[j].pc \in {"send", "store"}

\* The report that is being sent.
ReportTop(f) ==
  \/ f.pc = "send" /\ ~f.sent /\ f.idx = 1
  \/ f.pc = "loop" /\ state = "SEND_DIRECT" /\ f.idx = 1 /\ ~f.sent /\ pfd # <<>>
  \/ f.pc = "loop" /\ state = "SEND_DIRECT" /\ f.idx = 2 /\ f.sent
  \/ f.pc = "store" /\ (f.sent <=> state = "SEND_DIRECT")

\* A report on its way is not among Reports until a client took it; then only reports wait for it.
ReportPlace(i) ==
  LET f == stack[i] IN
  ReportFrame(f) =>
    /\ f.msg.n <= done.reports
    /\ f.sent <=> f.msg \in Reports
    /\ stack[i - 1].pc = "reported" => f.msg.lost = overflow_counter
    /\ stack[i - 1].pc = "userOverflow" => f.msg.lost = 1
    /\ \/ i = Len(stack) /\ ReportTop(f)
       \/ f.pc = "reported" /\ f.sent
       \/ f.pc = "loop" /\ f.idx = 2 /\ ~f.sent /\ Shut(i)

\* An application's report that is neither sent nor counted yet.
Pending == /\ stack # <<>> /\ stack[1].pc = "userOverflow"
           /\ IF Len(stack) = 1 THEN ret # "OK" ELSE ~stack[2].sent
\* A report of overflow_counter that is sent or stored while the counter is not yet reset.
Told == /\ stack # <<>>
        /\ \/ Top.pc = "reported" /\ ret = "OK"
           \/ Len(stack) > 1 /\ stack[Len(stack) - 1].pc = "reported" /\ Top.sent

Balance ==
  done.discards + (IF Told THEN overflow_counter ELSE 0)
    = Cardinality(LossesIn(Reports)) + overflow_counter + (IF Pending THEN 1 ELSE 0)

Numbered == \A m \in Reports : m.n <= done.reports

Counted ==
  External /\ done.peak <= 1 =>
    /\ IsFiniteSet(LossesIn(Reports)) /\ Numbered
    /\ Callers
    /\ \A i \in 1 .. Len(stack) : ReportPlace(i)
    /\ Balance

InRing(m) == \E i \in 1 .. Len(ring) : ring[i] = m

LEMMA ReportsAre ==
  ASSUME ring \in Seq(Message), delivered \in [Conn -> Seq(Message)], NEW m
  PROVE  m \in Reports <=> m.kind = "overflow" /\ (InRing(m) \/ Delivered(m))
  <1>1. DOMAIN ring = 1 .. Len(ring) /\ \A c \in Conn : DOMAIN delivered[c] = 1 .. Len(delivered[c])
    OBVIOUS
  <1>2. m \in Range1(ring) <=> InRing(m)
    BY <1>1 DEF Range1, InRing
  <1>3. m \in UNION {Range1(delivered[c]) : c \in Conn} <=> \E c \in Conn : m \in Range1(delivered[c])
    OBVIOUS
  <1>4. \A c \in Conn : m \in Range1(delivered[c]) <=> \E i \in 1 .. Len(delivered[c]) : delivered[c][i] = m
    BY <1>1 DEF Range1
  <1>5. m \in UNION {Range1(delivered[c]) : c \in Conn} <=> Delivered(m)
    BY <1>3, <1>4 DEF Delivered
  <1> QED
    BY <1>2, <1>5, Zenon DEF Reports

\* The step hands a new report over, to a client or to the ring.
HandsOver == /\ stack # <<>> /\ ReportFrame(Top)
             /\ StoreInRing \/ (SendAllMultiple /\ pfd[Top.idx] \notin broken)

LEMMA RingReports ==
  ASSUME Typed, Holding, HeadDelivered, Next, NEW m, m.kind = "overflow"
  PROVE  /\ InRing(m) => InRing(m)' \/ Delivered(m)
         /\ InRing(m)' => InRing(m) \/ (StoreInRing /\ Top.msg = m)
         /\ StoreInRing /\ Top.msg = m => InRing(m)'
  <1>1. ring \in Seq(Message)
    BY DEF Typed, TypeOK
  <1>2. StoreInRing => ring' = Append(ring, Top.msg)
    BY DEF StoreInRing
  <1>3. CASE UNCHANGED ring
    <2>1. ~StoreInRing
      <3>1. ASSUME StoreInRing PROVE FALSE
        <4>1. Top.msg \in Message
          <5>1. stack \in Seq(FrameType) /\ At("store")
            BY <3>1 DEF Typed, TypeOK, StoreInRing
          <5>2. Top \in FrameType
            BY <5>1, TopFacts
          <5> QED
            BY <5>2 DEF FrameType
        <4>2. Len(ring') = Len(ring) + 1
          BY <1>1, <1>2, <3>1, <4>1
        <4> QED
          BY <1>1, <1>3, <4>2
      <3> QED
        BY <3>1
    <2> QED
      BY <1>3, <2>1 DEF InRing
  <1>4. CASE ring' = Append(ring, Top.msg) /\ Top.msg \in Message /\ StoreInRing
    <2>1. Len(ring') = Len(ring) + 1 /\ (\A i \in 1 .. Len(ring) : ring'[i] = ring[i])
          /\ ring'[Len(ring) + 1] = Top.msg /\ Len(ring) \in Nat
      BY <1>1, <1>4
    <2>2. \A i \in 1 .. Len(ring') : i \in 1 .. Len(ring) \/ i = Len(ring) + 1
      BY <2>1
    <2>3. Len(ring) + 1 \in 1 .. Len(ring') /\ \A i \in 1 .. Len(ring) : i \in 1 .. Len(ring')
      BY <2>1
    <2> QED
      BY <1>4, <2>1, <2>2, <2>3, Zenon DEF InRing
  <1>5. CASE SendRingbufferNext /\ ring # <<>> /\ ring' = Tail(ring) /\ ret = "OK"
    <2>1. ~StoreInRing
      BY <1>5 DEF SendRingbufferNext, StoreInRing, At
    <2>2. Len(ring') = Len(ring) - 1 /\ \A i \in 1 .. Len(ring') : i + 1 \in 1 .. Len(ring) /\ ring'[i] = ring[i + 1]
      BY <1>1, <1>5
    <2>3. InRing(m)' => InRing(m)
      BY <2>2 DEF InRing
    <2>4. ASSUME NEW i \in 1 .. Len(ring), ring[i] = m PROVE InRing(m)' \/ Delivered(m)
      <3>1. CASE i = 1
        BY <1>5, <2>4, <3>1 DEF HeadDelivered, SendRingbufferNext
      <3>2. CASE i # 1
        <4>1. i - 1 \in 1 .. Len(ring') /\ ring'[i - 1] = m
          BY <1>1, <1>5, <2>4, <3>2
        <4> QED
          BY <4>1 DEF InRing
      <3> QED
        BY <3>1, <3>2
    <2> QED
      BY <2>1, <2>3, <2>4 DEF InRing
  <1>6. StoreInRing => Top.msg \in Message
    <2>1. stack \in Seq(FrameType) /\ (StoreInRing => At("store"))
      BY DEF Typed, TypeOK, StoreInRing
    <2>2. StoreInRing => Top \in FrameType
      BY <2>1, TopFacts
    <2> QED
      BY <2>2 DEF FrameType
  <1> QED
    BY <1>2, <1>3, <1>4, <1>5, <1>6, RingMoves

LEMMA DeliveredReports ==
  ASSUME Typed, Next, NEW m, m.kind = "overflow"
  PROVE  /\ Delivered(m) => Delivered(m)'
         /\ Delivered(m)' => Delivered(m) \/ (SendAllMultiple /\ pfd[Top.idx] \notin broken /\ Top.msg = m)
         /\ SendAllMultiple /\ pfd[Top.idx] \notin broken /\ Top.msg = m => Delivered(m)'
  <1>1. Delivered(m) => Delivered(m)'
    BY DeliveredKept
  <1>2. ASSUME SendAllMultiple, pfd[Top.idx] \notin broken, Top.msg = m PROVE Delivered(m)'
    BY <1>2, DeliveredNow
  <1>3. ASSUME Delivered(m)'
        PROVE  Delivered(m) \/ (SendAllMultiple /\ pfd[Top.idx] \notin broken /\ Top.msg = m)
    <2>1. CASE UNCHANGED delivered
      BY <1>3, <2>1 DEF Delivered
    <2>2. CASE SendAllMultiple /\ pfd[Top.idx] \in broken
      <3>1. UNCHANGED delivered
        BY <2>2 DEF SendAllMultiple
      <3> QED
        BY <2>1, <3>1
    <2>3. CASE SendAllMultiple /\ pfd[Top.idx] \notin broken
      <3>5. PICK c \in Conn : \E i \in 1 .. Len(delivered'[c]) : delivered'[c][i] = m
        BY <1>3 DEF Delivered
      <3>1. PICK i \in 1 .. Len(delivered'[c]) : delivered'[c][i] = m
        BY <3>5
      <3>2. delivered[c] \in Seq(Message)
        BY DEF Typed, TypeOK
      <3>3. \/ delivered'[c] = delivered[c]
            \/ delivered'[c] = Append(delivered[c], Top.msg) /\ Top.msg \in Message
        BY <2>3, DeliveredUpdate
      <3>4. Top.msg = m \/ (i \in 1 .. Len(delivered[c]) /\ delivered[c][i] = m)
        BY <3>1, <3>2, <3>3
      <3> QED
        BY <2>3, <3>4 DEF Delivered
    <2> QED
      BY <2>1, <2>2, <2>3, DeliveredChanges
  <1> QED
    BY <1>1, <1>2, <1>3

\* Reports grows by the one that is handed over, and by nothing else.
LEMMA ReportsGo ==
  ASSUME Typed, Typed', Holding, HeadDelivered, Forced, Next
  PROVE  /\ HandsOver => Reports' = Reports \union {Top.msg}
         /\ ~HandsOver => Reports' = Reports
  <1>1. \A m : m \in Reports <=> m.kind = "overflow" /\ (InRing(m) \/ Delivered(m))
    BY ReportsAre DEF Typed, TypeOK
  <1>2. \A m : m \in Reports' <=> m.kind = "overflow" /\ (InRing(m)' \/ Delivered(m)')
    <2> SUFFICES ASSUME NEW m PROVE m \in Reports' <=> m.kind = "overflow" /\ (InRing(m)' \/ Delivered(m)')
      OBVIOUS
    <2>1. PICK r, d : r = ring' /\ d = delivered'
      OBVIOUS
    <2>2. r \in Seq(Message) /\ d \in [Conn -> Seq(Message)]
      BY <2>1 DEF Typed, TypeOK
    <2>3. DOMAIN r = 1 .. Len(r) /\ \A c \in Conn : DOMAIN d[c] = 1 .. Len(d[c])
      BY <2>2
    <2>4. InRing(m)' <=> m \in {r[i] : i \in DOMAIN r}
      BY <2>1, <2>3 DEF InRing
    <2>5. Delivered(m)' <=> m \in UNION {{d[c][i] : i \in DOMAIN d[c]} : c \in Conn}
      <3>1. Delivered(m)' <=> \E c \in Conn : m \in {d[c][i] : i \in DOMAIN d[c]}
        BY <2>1, <2>3 DEF Delivered
      <3> QED
        BY <3>1, Zenon
    <2>6. Reports' = {x \in {r[i] : i \in DOMAIN r} \union UNION {{d[c][i] : i \in DOMAIN d[c]} : c \in Conn} :
                       x.kind = "overflow"}
      BY <2>1 DEF Reports, Range1
    <2> QED
      BY <2>4, <2>5, <2>6, Zenon
  <1>3. ASSUME NEW m \in Reports PROVE m \in Reports'
    BY <1>1, <1>2, <1>3, RingReports, DeliveredReports
  <1>4. ASSUME HandsOver PROVE Top.msg \in Reports'
    <2>1. PICK m : m = Top.msg
      OBVIOUS
    <2>2. m.kind = "overflow" /\ (StoreInRing \/ (SendAllMultiple /\ pfd[Top.idx] \notin broken))
      BY <1>4, <2>1 DEF HandsOver, ReportFrame
    <2>3. InRing(m)' \/ Delivered(m)'
      BY <2>1, <2>2, RingReports, DeliveredReports
    <2> QED
      BY <1>2, <2>1, <2>2, <2>3
  <1>5. ASSUME NEW m \in Reports', m \notin Reports PROVE HandsOver /\ m = Top.msg
    <2>1. m.kind = "overflow" /\ (InRing(m)' \/ Delivered(m)') /\ ~InRing(m) /\ ~Delivered(m)
      BY <1>1, <1>2, <1>5
    <2>2. Top.msg = m /\ (StoreInRing \/ (SendAllMultiple /\ pfd[Top.idx] \notin broken))
      BY <2>1, RingReports, DeliveredReports
    <2>3. stack \in Seq(FrameType) /\ stack # <<>> /\ Top = stack[Len(stack)] /\ Len(stack) \in 1 .. Len(stack)
      <3>1. stack \in Seq(FrameType) /\ (At("store") \/ At("loop"))
        BY <2>2 DEF Typed, TypeOK, StoreInRing, SendAllMultiple
      <3> QED
        BY <3>1, TopFacts
    <2>4. ~Top.force
      <3>1. SUFFICES ASSUME Top.force PROVE FALSE
        OBVIOUS
      <3>2. ring # <<>> /\ Top.msg = ring[1]
        BY <2>3, <3>1 DEF Forced, ForcedFrame
      <3>3. ring \in Seq(Message)
        BY DEF Typed, TypeOK
      <3>4. 1 \in 1 .. Len(ring)
        BY <3>2, <3>3, EmptySeq
      <3>5. InRing(m)
        BY <2>2, <3>2, <3>4 DEF InRing
      <3> QED
        BY <2>1, <3>5
    <2> QED
      BY <2>1, <2>2, <2>3, <2>4 DEF HandsOver, ReportFrame
  <1> QED
    BY <1>3, <1>4, <1>5

LEMMA LossesGrow ==
  ASSUME NEW R, NEW m, m \notin R, m.lost \in Nat, IsFiniteSet(LossesIn(R))
  PROVE  /\ IsFiniteSet(LossesIn(R \union {m}))
         /\ Cardinality(LossesIn(R \union {m})) = Cardinality(LossesIn(R)) + m.lost
  <1>1. PICK L, T : L = LossesIn(R) /\ T = {m} \X (1 .. m.lost)
    OBVIOUS
  <1>2. \A S, x : x \in LossesIn(S) <=> \E y \in S : x \in {y} \X (1 .. y.lost)
    BY Zenon DEF LossesIn
  <1>3. LossesIn(R \union {m}) = L \union T
    <2>1. \A x : x \in LossesIn(R \union {m}) <=> \E y \in R \union {m} : x \in {y} \X (1 .. y.lost)
      BY <1>2, Zenon
    <2>2. \A x : x \in L <=> \E y \in R : x \in {y} \X (1 .. y.lost)
      BY <1>1, <1>2, Zenon
    <2>3. \A x : x \in LossesIn(R \union {m}) <=> x \in L \/ x \in T
      BY <1>1, <2>1, <2>2
    <2> QED
      BY <2>3
  <1>4. L \cap T = {}
    <2> SUFFICES ASSUME NEW x, x \in L, x \in T PROVE FALSE
      OBVIOUS
    <2>1. PICK y \in R : x \in {y} \X (1 .. y.lost)
      BY <1>1, <1>2
    <2>2. x[1] = y /\ x[1] = m
      BY <1>1, <2>1
    <2> QED
      BY <2>2
  <1>5. IsFiniteSet(1 .. m.lost) /\ Cardinality(1 .. m.lost) = m.lost
    <2>1. 1 \in Int /\ m.lost \in Int
      OBVIOUS
    <2>2. /\ IsFiniteSet(1 .. m.lost)
          /\ Cardinality(1 .. m.lost) = IF 1 > m.lost THEN 0 ELSE m.lost - 1 + 1
      BY <2>1, FS_Interval
    <2> QED
      BY <2>2
  <1>6. IsFiniteSet({m}) /\ Cardinality({m}) = 1
    BY FS_Singleton
  <1>7. IsFiniteSet(T) /\ Cardinality(T) = Cardinality({m}) * Cardinality(1 .. m.lost)
    BY <1>1, <1>5, <1>6, FS_Product
  <1>8. Cardinality(T) = m.lost
    BY <1>5, <1>6, <1>7
  <1>9. /\ IsFiniteSet(L \union T)
        /\ Cardinality(L \union T) = Cardinality(L) + Cardinality(T) - Cardinality(L \cap T)
    BY <1>1, <1>7, FS_Union
  <1>10. Cardinality(L \cap T) = 0 /\ Cardinality(L) \in Nat
    BY <1>1, <1>4, FS_EmptySet, FS_CardinalityType
  <1>11. PICK c : c = Cardinality(L)
    OBVIOUS
  <1>12. Cardinality(L \union T) = c + m.lost - 0 /\ c \in Nat
    BY <1>8, <1>9, <1>10, <1>11
  <1>13. Cardinality(L \union T) = c + m.lost
    BY <1>12
  <1> QED
    BY <1>1, <1>3, <1>9, <1>11, <1>13

LEMMA HistoryCounts ==
  ASSUME Typed, Next
  PROVE  /\ done.reports \in Nat /\ done.discards \in Nat
         /\ done'.reports \in Nat /\ done'.reports >= done.reports
         /\ Discard \/ UserMessageOverflow => done'.discards = done.discards + 1
         /\ ~Discard /\ ~UserMessageOverflow => done'.discards = done.discards
  <1>1. done \in History /\ done.reports \in Nat /\ done.discards \in Nat
    BY DEF Typed, History
  <1>2. CASE Discard
    <2>1. PICK y : done' = [done EXCEPT !.discards = @ + 1, !.discarded = y]
      BY <1>2 DEF Discard
    <2> QED
      BY <1>1, <1>2, <2>1 DEF History
  <1>3. CASE ReportOverflow
    <2>1. done' = done \/ done' = [done EXCEPT !.reports = @ + 1]
      BY <1>3 DEF ReportOverflow
    <2>2. ~Discard /\ ~UserMessageOverflow
      BY <1>3 DEF ReportOverflow, Discard, UserMessageOverflow, At
    <2> QED
      BY <1>1, <2>1, <2>2 DEF History
  <1>4. CASE UserMessageLog
    <2>1. done' = [done EXCEPT !.logs = @ + 1]
      BY <1>4 DEF UserMessageLog
    <2>2. ~Discard
      BY <1>4 DEF UserMessageLog, Discard, At
    <2>3. ~UserMessageOverflow
      <3>1. SUFFICES ASSUME UserMessageOverflow PROVE FALSE
        OBVIOUS
      <3>2. Len(stack') = 1
        BY <1>4 DEF UserMessageLog
      <3>3. Len(stack') = 2
        BY <3>1 DEF UserMessageOverflow
      <3> QED
        BY <3>2, <3>3
    <2> QED
      BY <1>1, <2>1, <2>2, <2>3 DEF History
  <1>5. CASE UserMessageOverflow
    <2>1. PICK x : done' = [done EXCEPT !.overflows = x, !.reports = @ + 1, !.discards = @ + 1]
      BY <1>5 DEF UserMessageOverflow
    <2> QED
      BY <1>1, <1>5, <2>1 DEF History
  <1>6. CASE \E md \in Modes : UserMessageLogMode(md)
    <2>1. done' = [done EXCEPT !.modes = @ + 1]
      BY <1>6 DEF UserMessageLogMode
    <2>2. ~Discard /\ stack = <<>> /\ stack' = stack
      BY <1>6 DEF UserMessageLogMode, Discard, At, Idle
    <2>3. ~UserMessageOverflow
      BY <2>2 DEF UserMessageOverflow
    <2> QED
      BY <1>1, <2>1, <2>2, <2>3 DEF History
  <1>7. CASE ClientConnect
    <2>1. PICK x, y : done' = [done EXCEPT !.conns = x, !.peak = y]
      BY <1>7 DEF ClientConnect
    <2>2. ~Discard
      BY <1>7 DEF ClientConnect, Discard, At
    <2>3. ~UserMessageOverflow
      <3>1. SUFFICES ASSUME UserMessageOverflow PROVE FALSE
        OBVIOUS
      <3>2. stack'[1] = Then("connected") /\ stack'[1] = Then("userOverflow")
        BY <1>7, <3>1 DEF UserMessageOverflow, ClientConnect
      <3> QED
        BY <3>2 DEF Then, Frame
    <2> QED
      BY <1>1, <2>1, <2>2, <2>3 DEF History
  <1>8. CASE UNCHANGED done
    <2>1. ~Discard /\ ~UserMessageOverflow
      <3>1. ASSUME Discard PROVE FALSE
        <4>1. PICK y : done' = [done EXCEPT !.discards = @ + 1, !.discarded = y]
          BY <3>1 DEF Discard
        <4>2. done'.discards = done.discards + 1
          BY <1>1, <4>1 DEF History
        <4> QED
          BY <1>1, <1>8, <4>2
      <3>2. ASSUME UserMessageOverflow PROVE FALSE
        <4>1. PICK x : done' = [done EXCEPT !.overflows = x, !.reports = @ + 1, !.discards = @ + 1]
          BY <3>2 DEF UserMessageOverflow
        <4>2. done'.discards = done.discards + 1
          BY <1>1, <4>1 DEF History
        <4> QED
          BY <1>1, <1>8, <4>2
      <3> QED
        BY <3>1, <3>2
    <2> QED
      BY <1>1, <1>8, <2>1
  <1> QED
    BY <1>2, <1>3, <1>4, <1>5, <1>6, <1>7, <1>8, HistoryChanges

\* What a step may rely on.
CountContext ==
  /\ Typed /\ Typed' /\ Shape /\ Reporting /\ Reporting' /\ Holding /\ Direct /\ Forced
  /\ Outside /\ Inside /\ Routed /\ Next
  /\ Len(pfd) <= 1 /\ (pfd # <<>> => Len(pfd) = 1) /\ RingMin >= 2
  /\ HeadDelivered
  /\ IsFiniteSet(LossesIn(Reports)) /\ Numbered /\ Callers
  /\ \A i \in 1 .. Len(stack) : ReportPlace(i)
  /\ Balance

LEMMA TopIs ==
  ASSUME Typed, stack # <<>>
  PROVE  /\ stack \in Seq(FrameType) /\ Len(stack) \in Nat /\ Len(stack) >= 1 /\ Len(stack) \in 1 .. Len(stack)
         /\ Top = stack[Len(stack)] /\ Top \in FrameType
  <1>1. stack \in Seq(FrameType)
    BY DEF Typed, TypeOK
  <1> QED
    BY <1>1, EmptySeq DEF Top

\* The innermost call and those below it.
LEMMA TopReport ==
  ASSUME CountContext, stack # <<>>
  PROVE  /\ ReportFrame(Top) <=> Len(stack) > 1 /\ stack[Len(stack) - 1].pc \in Reporters
         /\ ReportFrame(Top) => ReportPlace(Len(stack))
         /\ Len(stack) > 1 /\ stack[Len(stack) - 1].pc = "reported" => Top.pc # "reported" /\ overflow_cnt = 1
         /\ Len(stack) > 2 /\ stack[Len(stack) - 2].pc = "reported" =>
              ~stack[Len(stack) - 1].sent /\ stack[Len(stack) - 1].pc # "reported"
         /\ Len(stack) > 1 /\ stack[1].pc = "userOverflow" => ReportFrame(stack[2])
         /\ Top.pc = "userOverflow" => Len(stack) = 1
         /\ \A i \in 1 .. Len(stack) : stack[i].pc = "userOverflow" => i = 1
  <1>1. Len(stack) \in Nat /\ Len(stack) \in 1 .. Len(stack) /\ Top = stack[Len(stack)]
    BY TopIs DEF CountContext
  <1>2. Callers /\ Reporting /\ Shape /\ \A i \in 1 .. Len(stack) : ReportPlace(i)
    BY DEF CountContext
  <1>3. ReportFrame(Top) <=> Len(stack) > 1 /\ stack[Len(stack) - 1].pc \in Reporters
    BY <1>1, <1>2 DEF Callers
  <1>4. ASSUME Len(stack) > 1, stack[Len(stack) - 1].pc = "reported"
        PROVE  Top.pc # "reported" /\ overflow_cnt = 1
    <2>1. Len(stack) - 1 \in 1 .. Len(stack) /\ Len(stack) - 1 # Len(stack)
      BY <1>1, <1>4
    <2> QED
      BY <1>1, <1>2, <1>4, <2>1 DEF Reporting
  <1>5. ASSUME Len(stack) > 2, stack[Len(stack) - 2].pc = "reported"
        PROVE  ~stack[Len(stack) - 1].sent /\ stack[Len(stack) - 1].pc # "reported"
    <2>1. PICK i : i = Len(stack) - 1
      OBVIOUS
    <2>2. i \in 1 .. Len(stack) /\ i - 1 \in 1 .. Len(stack) /\ i > 1 /\ i # Len(stack) /\ i - 1 = Len(stack) - 2
          /\ i - 1 # i
      BY <1>1, <1>5, <2>1
    <2>3. stack[i].pc # "reported"
      BY <1>2, <1>5, <2>2 DEF Reporting
    <2>4. ReportFrame(stack[i])
      BY <1>2, <1>5, <2>2 DEF Callers, Reporters
    <2>5. ~stack[i].sent
      BY <1>2, <2>2, <2>3, <2>4 DEF ReportPlace
    <2> QED
      BY <2>1, <2>3, <2>5
  <1>6. ASSUME Len(stack) > 1, stack[1].pc = "userOverflow"
        PROVE  ReportFrame(stack[2])
    <2>1. 2 \in 1 .. Len(stack) /\ 2 > 1 /\ 2 - 1 = 1
      BY <1>1, <1>6
    <2> QED
      BY <1>2, <1>6, <2>1 DEF Callers, Reporters
  <1>7. \A i \in 1 .. Len(stack) : stack[i].pc = "userOverflow" => i = 1
    BY <1>2 DEF Shape, FrameOK, EventPcs
  <1> QED
    BY <1>1, <1>2, <1>3, <1>4, <1>5, <1>6, <1>7

\* Told and Pending after each move of the call stack.
LEMMA PoppedAccount ==
  ASSUME CountContext, stack # <<>>, Popped
  PROVE  /\ Told' <=> Len(stack) > 1 /\ stack[Len(stack) - 1].pc = "reported" /\ ret' = "OK"
         /\ Pending' <=> /\ Len(stack) > 1 /\ stack[1].pc = "userOverflow"
                         /\ IF Len(stack) = 2 THEN ret' # "OK" ELSE ~stack[2].sent
  <1>1. Len(stack) \in Nat /\ Len(stack) >= 1 /\ stack' \in Seq(FrameType)
    BY TopIs DEF CountContext, Typed, TypeOK
  <1>2. Len(stack') = Len(stack) - 1 /\ \A i \in 1 .. Len(stack) - 1 : stack'[i] = stack[i]
    BY DEF Popped
  <1>3. CASE Len(stack) = 1
    <2>1. stack' = <<>>
      BY <1>1, <1>2, <1>3, EmptySeq
    <2> QED
      BY <1>3, <2>1 DEF Told, Pending
  <1>4. CASE Len(stack) = 2
    <2>1. Len(stack') = 1 /\ stack'[1] = stack[1] /\ stack' # <<>>
      BY <1>2, <1>4
    <2> QED
      BY <1>4, <2>1 DEF Told, Pending, Top
  <1>5. CASE Len(stack) > 2
    <2>1. /\ Len(stack') > 1 /\ stack'[1] = stack[1] /\ stack'[2] = stack[2] /\ stack' # <<>>
          /\ stack'[Len(stack')] = stack[Len(stack) - 1] /\ stack'[Len(stack') - 1] = stack[Len(stack) - 2]
      BY <1>1, <1>2, <1>5
    <2>2. stack[Len(stack) - 2].pc = "reported" => ~stack[Len(stack) - 1].sent
      BY <1>5, TopReport
    <2>3. Len(stack) # 2 /\ Len(stack) > 1 /\ Len(stack') # 1
      BY <1>1, <1>2, <1>5
    <2>4. Told' <=> stack[Len(stack) - 1].pc = "reported" /\ ret' = "OK"
      BY <2>1, <2>2 DEF Told, Top
    <2>5. Pending' <=> stack[1].pc = "userOverflow" /\ ~stack[2].sent
      BY <2>1, <2>3 DEF Pending
    <2> QED
      BY <2>3, <2>4, <2>5
  <1>6. \A n \in Nat : n >= 1 => n = 1 \/ n = 2 \/ n > 2
    OBVIOUS
  <1> QED
    BY <1>1, <1>3, <1>4, <1>5, <1>6, Zenon

LEMMA ReplacedAccount ==
  ASSUME CountContext, stack # <<>>, NEW f, Replaced(f), f.pc \notin {"reported", "userOverflow"}
  PROVE  /\ Told' <=> Len(stack) > 1 /\ stack[Len(stack) - 1].pc = "reported" /\ f.sent
         /\ Pending' <=> /\ Len(stack) > 1 /\ stack[1].pc = "userOverflow"
                         /\ IF Len(stack) = 2 THEN ~f.sent ELSE ~stack[2].sent
  <1>1. Len(stack) \in Nat /\ Len(stack) >= 1
    BY TopIs DEF CountContext
  <1>2. /\ Len(stack') = Len(stack)
        /\ \A i \in 1 .. Len(stack) : stack'[i] = IF i = Len(stack) THEN f ELSE stack[i]
    BY DEF Replaced
  <1>3. stack' # <<>> /\ stack'[Len(stack')] = f
    BY <1>1, <1>2
  <1>4. CASE Len(stack) = 1
    <2>1. stack'[1] = f /\ Len(stack') = 1
      BY <1>2, <1>4
    <2> QED
      BY <1>3, <1>4, <2>1 DEF Told, Pending, Top
  <1>5. CASE Len(stack) > 1
    <2>1. /\ stack'[1] = stack[1] /\ stack'[2] = IF Len(stack) = 2 THEN f ELSE stack[2]
          /\ stack'[Len(stack') - 1] = stack[Len(stack) - 1] /\ Len(stack') > 1
      BY <1>1, <1>2, <1>5
    <2> QED
      BY <1>2, <1>3, <1>5, <2>1 DEF Told, Pending, Top
  <1>6. \A n \in Nat : n >= 1 => n = 1 \/ n > 1
    OBVIOUS
  <1> QED
    BY <1>1, <1>4, <1>5, <1>6, Zenon

LEMMA PushedAccount ==
  ASSUME CountContext, stack # <<>>, NEW f, NEW g, Pushed(f, g), g.pc # "reported", ~g.sent,
         f.pc # "userOverflow"
  PROVE  /\ ~(Told')
         /\ Pending' <=> /\ Len(stack) > 1 /\ stack[1].pc = "userOverflow"
                         /\ IF Len(stack) = 2 THEN ~f.sent ELSE ~stack[2].sent
  <1>1. Len(stack) \in Nat /\ Len(stack) >= 1
    BY TopIs DEF CountContext
  <1>2. /\ Len(stack') = Len(stack) + 1
        /\ \A i \in 1 .. Len(stack) + 1 :
             stack'[i] = IF i = Len(stack) + 1 THEN g ELSE IF i = Len(stack) THEN f ELSE stack[i]
    BY DEF Pushed
  <1>3. stack' # <<>> /\ stack'[Len(stack')] = g /\ Len(stack') > 1
    BY <1>1, <1>2
  <1>4. CASE Len(stack) = 1
    <2>1. stack'[1] = f
      BY <1>2, <1>4
    <2> QED
      BY <1>3, <1>4, <2>1 DEF Told, Pending, Top
  <1>5. CASE Len(stack) > 1
    <2>8. \A n \in Nat : n > 1 => 1 \in 1 .. n + 1 /\ 2 \in 1 .. n + 1 /\ 1 # n + 1 /\ 1 # n /\ 2 # n + 1
      OBVIOUS
    <2>3. /\ 1 \in 1 .. Len(stack) + 1 /\ 2 \in 1 .. Len(stack) + 1
          /\ 1 # Len(stack) + 1 /\ 1 # Len(stack) /\ 2 # Len(stack) + 1
      BY <1>1, <1>5, <2>8, Zenon
    <2>4. PICK s : s = stack'
      OBVIOUS
    <2>5. \A i \in 1 .. Len(stack) + 1 :
             s[i] = IF i = Len(stack) + 1 THEN g ELSE IF i = Len(stack) THEN f ELSE stack[i]
      BY <1>2, <2>4
    <2>6. s[1] = stack[1]
      BY <2>3, <2>5
    <2>7. s[2] = IF 2 = Len(stack) THEN f ELSE stack[2]
      BY <2>3, <2>5
    <2>1. stack'[1] = stack[1] /\ stack'[2] = IF Len(stack) = 2 THEN f ELSE stack[2]
      BY <2>4, <2>6, <2>7
    <2>2. Len(stack') # 1
      BY <1>1, <1>2
    <2> QED
      BY <1>3, <1>5, <2>1, <2>2 DEF Told, Pending, Top
  <1>6. \A n \in Nat : n >= 1 => n = 1 \/ n > 1
    OBVIOUS
  <1> QED
    BY <1>1, <1>4, <1>5, <1>6, Zenon

\* Who calls a report, after each move of the call stack.
LEMMA CallersPopped ==
  ASSUME Typed, stack # <<>>, Callers, Popped
  PROVE  Callers'
  <1>1. Len(stack) \in Nat
    BY TopIs
  <1>2. Len(stack') = Len(stack) - 1 /\ \A i \in 1 .. Len(stack) - 1 : stack'[i] = stack[i]
    BY DEF Popped
  <1>3. ASSUME NEW i \in 1 .. Len(stack')
        PROVE  ReportFrame(stack'[i]) <=> i > 1 /\ stack'[i - 1].pc \in Reporters
    <2>1. i \in 1 .. Len(stack) /\ i \in 1 .. Len(stack) - 1 /\ (i > 1 => i - 1 \in 1 .. Len(stack) - 1)
      BY <1>1, <1>2, <1>3
    <2>2. stack'[i] = stack[i] /\ (i > 1 => stack'[i - 1] = stack[i - 1])
      BY <1>2, <2>1
    <2> QED
      BY <2>1, <2>2 DEF Callers
  <1> QED
    BY <1>3 DEF Callers

LEMMA CallersReplaced ==
  ASSUME Typed, stack # <<>>, Callers, NEW f, Replaced(f), ReportFrame(f) <=> ReportFrame(Top)
  PROVE  Callers'
  <1>1. Len(stack) \in Nat /\ Top = stack[Len(stack)]
    BY TopIs
  <1>2. /\ Len(stack') = Len(stack)
        /\ \A i \in 1 .. Len(stack) : stack'[i] = IF i = Len(stack) THEN f ELSE stack[i]
    BY DEF Replaced
  <1>3. ASSUME NEW i \in 1 .. Len(stack')
        PROVE  ReportFrame(stack'[i]) <=> i > 1 /\ stack'[i - 1].pc \in Reporters
    <2>1. i \in 1 .. Len(stack) /\ (i > 1 => i - 1 \in 1 .. Len(stack) /\ i - 1 # Len(stack))
      BY <1>1, <1>2, <1>3
    <2>2. ReportFrame(stack'[i]) <=> ReportFrame(stack[i])
      BY <1>1, <1>2, <2>1
    <2>3. i > 1 => stack'[i - 1] = stack[i - 1]
      BY <1>2, <2>1
    <2> QED
      BY <2>1, <2>2, <2>3 DEF Callers
  <1> QED
    BY <1>3 DEF Callers

LEMMA CallersPushed ==
  ASSUME Typed, stack # <<>>, Callers, NEW f, NEW g, Pushed(f, g),
         ReportFrame(f) <=> ReportFrame(Top), ReportFrame(g) <=> f.pc \in Reporters
  PROVE  Callers'
  <1>1. Len(stack) \in Nat /\ Len(stack) >= 1 /\ Top = stack[Len(stack)]
    BY TopIs
  <1>2. /\ Len(stack') = Len(stack) + 1
        /\ \A i \in 1 .. Len(stack) + 1 :
             stack'[i] = IF i = Len(stack) + 1 THEN g ELSE IF i = Len(stack) THEN f ELSE stack[i]
    BY DEF Pushed
  <1>3. ASSUME NEW i \in 1 .. Len(stack')
        PROVE  ReportFrame(stack'[i]) <=> i > 1 /\ stack'[i - 1].pc \in Reporters
    <2>1. CASE i = Len(stack) + 1
      <3>1. i > 1 /\ i - 1 = Len(stack) /\ Len(stack) \in 1 .. Len(stack) + 1 /\ i \in 1 .. Len(stack) + 1
            /\ Len(stack) # Len(stack) + 1
        BY <1>1, <2>1
      <3>2. stack'[i] = g /\ stack'[i - 1] = f
        BY <1>2, <2>1, <3>1
      <3> QED
        BY <3>1, <3>2
    <2>2. CASE i # Len(stack) + 1
      <3>1. i \in 1 .. Len(stack) /\ i \in 1 .. Len(stack) + 1
            /\ (i > 1 => i - 1 \in 1 .. Len(stack) + 1 /\ i - 1 # Len(stack) /\ i - 1 # Len(stack) + 1)
        BY <1>1, <1>2, <1>3, <2>2
      <3>2. ReportFrame(stack'[i]) <=> ReportFrame(stack[i])
        BY <1>1, <1>2, <2>2, <3>1
      <3>3. i > 1 => stack'[i - 1] = stack[i - 1]
        BY <1>2, <3>1
      <3> QED
        BY <3>1, <3>2, <3>3 DEF Callers
    <2> QED
      BY <2>1, <2>2
  <1> QED
    BY <1>3 DEF Callers

\* The calls that wait are not touched.
LEMMA LowerKept ==
  ASSUME Typed, StackMove, stack # <<>>
  PROVE  /\ Len(stack') >= Len(stack) - 1
         /\ \A i \in 1 .. Len(stack) - 1 : i \in 1 .. Len(stack') /\ stack'[i] = stack[i]
  <1>1. Len(stack) \in Nat /\ Len(stack) >= 1
    BY TopIs
  <1>2. CASE Returns
    BY <1>1, <1>2 DEF Returns, Popped
  <1>3. ASSUME NEW f, Replaced(f)
        PROVE  /\ Len(stack') >= Len(stack) - 1
               /\ \A i \in 1 .. Len(stack) - 1 : i \in 1 .. Len(stack') /\ stack'[i] = stack[i]
    BY <1>1, <1>3 DEF Replaced
  <1>4. ASSUME NEW f, NEW g, Pushed(f, g)
        PROVE  /\ Len(stack') >= Len(stack) - 1
               /\ \A i \in 1 .. Len(stack) - 1 : i \in 1 .. Len(stack') /\ stack'[i] = stack[i]
    BY <1>1, <1>4 DEF Pushed
  <1>5. CASE UNCHANGED stack
    BY <1>1, <1>5
  <1> QED
    BY <1>2, <1>3, <1>4, <1>5 DEF StackMove, GoesOn, CallsOn, Starts, StartsWith

\* A report whose client was closed waits until the notices of the close are in the ring.
LEMMA ShutStep ==
  ASSUME CountContext, stack # <<>>, NEW i \in 1 .. Len(stack) - 1, Shut(i)
  PROVE  Shut(i)' /\ ~HandsOver /\ overflow_counter' = overflow_counter
  <1>1. /\ stack \in Seq(FrameType) /\ Len(stack) \in Nat /\ Len(stack) >= 1 /\ Len(stack) \in 1 .. Len(stack)
        /\ Top = stack[Len(stack)] /\ Top \in FrameType /\ i \in Nat /\ i < Len(stack)
    BY TopIs DEF CountContext
  <1>2. Typed /\ Shape /\ Direct /\ Next /\ Len(pfd) <= 1 /\ ring \in Seq(Message) /\ RingMin \in Nat /\ RingMin >= 2
    BY ConstAssumption DEF CountContext, Typed, TypeOK
  <1>3. CASE UNCHANGED <<daemonVars, stack, ret, delivered, offline, done>>
    <2>1. ~HandsOver
      <3>1. ASSUME StoreInRing PROVE FALSE
        BY <1>1, <1>3, <3>1, StoreInRingStack DEF Popped
      <3>2. ASSUME SendAllMultiple PROVE FALSE
        <4>1. At("loop")
          BY <3>2 DEF SendAllMultiple
        <4> QED
          BY <1>1, <4>1 DEF Shut, At
      <3> QED
        BY <3>1, <3>2 DEF HandsOver
    <2>2. UNCHANGED <<state, ring, pfd, overflow_counter, stack>>
      BY <1>3 DEF daemonVars
    <2> QED
      BY <2>1, <2>2 DEF Shut, Top, RingUsed, UsedBy
  <1>4. CASE Len(stack) = i + 1 /\ Top.pc = "close" /\ state = "SEND_DIRECT" /\ CloseSocket
    <2>1. pfd' = <<>>
      BY <1>2, <1>4, OnlyClientCloses
    <2>2. state' = "BUFFER" /\ ring' = ring /\ overflow_counter' = overflow_counter
      BY <1>4, <2>1 DEF CloseSocket, LogStateOnClose
    <2>3. ring' = <<>>
      BY <1>2, <1>4, <2>2 DEF Direct
    <2>4. RingUsed' = 0
      BY <2>3, UsedByEmpty DEF RingUsed
    <2>5. PICK f : f = Send(Info, FALSE)
      OBVIOUS
    <2>6. Pushed(f, f)
      BY <1>1, <1>4, <2>5, CloseSocketStack
    <2>7. ~f.force /\ f.msg.kind = "info" /\ f.pc = "send"
      BY <2>5 DEF Send, Frame, Info
    <2>8. Len(stack') = i + 2 /\ \A j \in 1 .. Len(stack') : j > i => stack'[j] = f
      BY <1>1, <1>4, <2>6 DEF Pushed
    <2>9. ~HandsOver
      BY <1>4 DEF HandsOver, StoreInRing, SendAllMultiple, At
    <2> QED
      BY <1>1, <2>1, <2>2, <2>4, <2>7, <2>8, <2>9 DEF Shut
  <1>5. CASE /\ state = "BUFFER" /\ pfd = <<>> /\ RingUsed + Len(stack) <= i + 2
             /\ \A j \in 1 .. Len(stack) : j > i => /\ ~stack[j].force /\ stack[j].msg.kind = "info"
                                                    /\ stack[j].pc \in {"send", "store"}
    <2>1. ~Top.force /\ Top.msg.kind = "info" /\ Top.pc \in {"send", "store"} /\ Top.msg \in Message
      BY <1>1, <1>5 DEF FrameType
    <2>2. ~HandsOver
      BY <2>1 DEF HandsOver, ReportFrame
    <2>3. RingUsed \in Nat /\ MsgLen(Top.msg) = 1
      <3>1. RingUsed = Len(ring) + Cardinality(Logs(ring)) /\ IsFiniteSet(Logs(ring))
        BY <1>2, LogsFinite DEF RingUsed, UsedBy, Logs
      <3>2. Cardinality(Logs(ring)) \in Nat /\ Len(ring) \in Nat
        BY <1>2, <3>1, FS_CardinalityType
      <3> QED
        BY <2>1, <3>1, <3>2 DEF MsgLen
    <2>4. Buffering(Top)
      BY <1>5, <2>1 DEF Buffering
    <2>5. CASE ClientSend
      <3>1. UNCHANGED <<state, ring, pfd, overflow_counter>>
        BY <2>5 DEF ClientSend, daemonVars
      <3>2. PICK f : f = Goes("store", Top.idx, Top.sent)
        OBVIOUS
      <3>3. Replaced(f)
        BY <1>1, <1>5, <2>1, <2>5, <3>2, ClientSendStack
      <3>4. f.force = Top.force /\ f.msg = Top.msg /\ f.pc = "store"
        BY <3>2 DEF Goes
      <3>5. Len(stack') = Len(stack) /\ \A j \in 1 .. Len(stack') : stack'[j] = f \/ stack'[j] = stack[j]
        BY <1>1, <3>3 DEF Replaced
      <3>6. \A j \in 1 .. Len(stack') : j > i => /\ ~stack'[j].force /\ stack'[j].msg.kind = "info"
                                                 /\ stack'[j].pc \in {"send", "store"}
        BY <1>5, <2>1, <3>4, <3>5
      <3>7. RingUsed' = RingUsed
        BY <3>1 DEF RingUsed, UsedBy
      <3> QED
        BY <1>5, <2>2, <3>1, <3>5, <3>6, <3>7 DEF Shut
    <2>6. CASE StoreInRing
      <3>1. UNCHANGED <<state, pfd, overflow_counter>> /\ ring' = Append(ring, Top.msg)
        BY <2>6 DEF StoreInRing
      <3>2. Popped
        BY <1>1, <2>6, StoreInRingStack
      <3>3. Len(stack') = Len(stack) - 1 /\ \A j \in 1 .. Len(stack') : stack'[j] = stack[j] /\ j \in 1 .. Len(stack)
        BY <1>1, <3>2 DEF Popped
      <3>4. RingUsed' = RingUsed + 1
        BY <1>2, <2>1, <2>3, <3>1, UsedByAppend DEF RingUsed
      <3>5. RingUsed' + Len(stack') <= i + 2
        BY <1>1, <1>5, <2>3, <3>3, <3>4
      <3> QED
        BY <1>5, <2>2, <3>1, <3>3, <3>5 DEF Shut
    <2>7. ~Discard
      <3>1. RingUsed + MsgLen(Top.msg) <= RingMin
        BY <1>1, <1>2, <1>5, <2>3
      <3> QED
        BY <1>5, <3>1 DEF Discard, MustAccept
    <2>8. ~ReportOverflow
      BY <2>4 DEF ReportOverflow
    <2> QED
      BY <1>2, <1>3, <2>1, <2>5, <2>6, <2>7, <2>8, Dispatch DEF At
  <1>6. Top.pc = "close" => CloseSocket \/ UNCHANGED <<daemonVars, stack, ret, delivered, offline, done>>
    BY <1>2, Dispatch DEF At
  <1> QED
    BY <1>3, <1>4, <1>5, <1>6 DEF Shut

LEMMA ReportsNow ==
  ASSUME CountContext
  PROVE  /\ ~HandsOver => Reports' = Reports
         /\ HandsOver => Reports' = Reports \union {Top.msg} /\ Top.msg.lost \in Nat
         /\ \A m \in Reports : m \in Reports'
         /\ Cardinality(LossesIn(Reports)) \in Nat
  <1>1. /\ HandsOver => Reports' = Reports \union {Top.msg}
        /\ ~HandsOver => Reports' = Reports
    BY ReportsGo DEF CountContext
  <1>2. ASSUME HandsOver PROVE Top.msg.lost \in Nat
    <2>1. Top \in FrameType
      BY <1>2, TopIs DEF CountContext, HandsOver
    <2> QED
      BY <2>1 DEF FrameType, Message
  <1>3. Cardinality(LossesIn(Reports)) \in Nat
    BY FS_CardinalityType DEF CountContext
  <1>4. \A m \in Reports : m \in Reports'
    <2>1. CASE HandsOver
      BY <1>1, <2>1
    <2>2. CASE ~HandsOver
      BY <1>1, <2>2
    <2> QED
      BY <2>1, <2>2
  <1> QED
    BY <1>1, <1>2, <1>3, <1>4

LEMMA LowerPlaces ==
  ASSUME CountContext, stack # <<>>, NEW i \in 1 .. Len(stack) - 1
  PROVE  i \in 1 .. Len(stack') /\ ReportPlace(i)'
  <1>1. Typed /\ Shape /\ Next /\ StackMove /\ Callers /\ Reporting /\ ReportPlace(i) /\ Len(stack) \in Nat
    <2>1. Typed /\ Shape /\ Next /\ Callers /\ Reporting /\ Len(stack) \in Nat
      BY TopIs DEF CountContext
    <2>2. i \in 1 .. Len(stack)
      BY <2>1
    <2> QED
      BY <2>1, <2>2, StackMoves DEF CountContext
  <1>2. \A j \in 1 .. Len(stack) - 1 : j \in 1 .. Len(stack') /\ stack'[j] = stack[j]
    BY <1>1, LowerKept
  <1>3. PICK f : f = stack[i]
    OBVIOUS
  <1>4. i \in 1 .. Len(stack') /\ stack'[i] = f /\ i # Len(stack) /\ i \in 1 .. Len(stack)
    BY <1>1, <1>2, <1>3
  <1>5. SUFFICES ASSUME ReportFrame(f) PROVE ReportPlace(i)'
    BY <1>4 DEF ReportPlace
  <1>6. i > 1 /\ i - 1 \in 1 .. Len(stack) - 1 /\ i - 1 \in 1 .. Len(stack) /\ i - 1 # i
    BY <1>1, <1>3, <1>4, <1>5 DEF Callers
  <1>7. stack'[i - 1] = stack[i - 1]
    BY <1>2, <1>6
  <1>8. /\ f.msg.n <= done.reports
        /\ f.sent <=> f.msg \in Reports
        /\ stack[i - 1].pc = "reported" => f.msg.lost = overflow_counter
        /\ stack[i - 1].pc = "userOverflow" => f.msg.lost = 1
        /\ \/ f.pc = "reported" /\ f.sent
           \/ f.pc = "loop" /\ f.idx = 2 /\ ~f.sent /\ Shut(i)
    BY <1>1, <1>3, <1>4, <1>5 DEF ReportPlace
  <1>9. f.msg.n <= done'.reports
    <2>1. f.msg.n \in Nat
      <3>1. stack \in Seq(FrameType)
        BY <1>1 DEF Typed, TypeOK
      <3>2. f \in FrameType
        BY <1>3, <1>4, <3>1
      <3> QED
        BY <3>2 DEF FrameType, Message
    <2> QED
      BY <1>1, <1>8, <2>1, HistoryCounts
  <1>10. CASE f.pc = "reported" /\ f.sent
    <2>1. stack[i - 1].pc # "reported"
      BY <1>1, <1>3, <1>4, <1>6, <1>10 DEF Reporting
    <2>2. f.msg \in Reports'
      BY <1>8, <1>10, ReportsNow
    <2> QED
      BY <1>4, <1>7, <1>8, <1>9, <1>10, <2>1, <2>2 DEF ReportPlace
  <1>11. CASE f.pc = "loop" /\ f.idx = 2 /\ ~f.sent /\ Shut(i)
    <2>1. Shut(i)' /\ ~HandsOver /\ overflow_counter' = overflow_counter
      BY <1>11, ShutStep
    <2>2. Reports' = Reports
      BY <2>1, ReportsNow
    <2> QED
      BY <1>4, <1>7, <1>8, <1>9, <1>11, <2>1, <2>2 DEF ReportPlace
  <1> QED
    BY <1>8, <1>10, <1>11

\* Told and Pending while a call runs that sends.
LEMMA AccountNow ==
  ASSUME CountContext, stack # <<>>, Top.pc \notin {"reported", "userOverflow"}
  PROVE  /\ Told <=> Len(stack) > 1 /\ stack[Len(stack) - 1].pc = "reported" /\ Top.sent
         /\ Pending <=> /\ Len(stack) > 1 /\ stack[1].pc = "userOverflow"
                        /\ IF Len(stack) = 2 THEN ~Top.sent ELSE ~stack[2].sent
  <1>1. Len(stack) \in Nat /\ Len(stack) >= 1 /\ Top = stack[Len(stack)]
    BY TopIs DEF CountContext
  <1>2. \A n \in Nat : n >= 1 => (n = 1 /\ ~(n > 1)) \/ (n > 1 /\ n # 1)
    OBVIOUS
  <1>3. (Len(stack) = 1 /\ ~(Len(stack) > 1)) \/ (Len(stack) > 1 /\ Len(stack) # 1)
    BY <1>1, <1>2, Zenon
  <1> QED
    BY <1>1, <1>3 DEF Told, Pending

LEMMA SameBalance ==
  ASSUME CountContext, ~HandsOver, ~Discard, ~UserMessageOverflow, overflow_counter' = overflow_counter,
         Told' <=> Told, Pending' <=> Pending
  PROVE  Balance'
  <1>1. done'.discards = done.discards
    BY HistoryCounts DEF CountContext
  <1>2. Reports' = Reports
    BY ReportsNow
  <1>3. Balance
    BY DEF CountContext
  <1>4. PICK l, m : l = Cardinality(LossesIn(Reports)) /\ m = Cardinality(LossesIn(Reports'))
    OBVIOUS
  <1>5. l = m
    BY <1>2, <1>4
  <1> QED
    BY <1>1, <1>3, <1>4, <1>5 DEF Balance

\* What a step has to show: the account, and the innermost calls.
Lands == /\ Callers'
         /\ \A i \in 1 .. Len(stack') : i >= Len(stack) => ReportPlace(i)'
         /\ Balance'

\* A report goes on to another point of dlt_daemon_client_send.
LEMMA ReportGoesOn ==
  ASSUME CountContext, stack # <<>>, ReportFrame(Top), NEW f, NEW k, k = Len(stack),
         Len(stack') >= Len(stack), stack'[Len(stack)] = f, f.msg = Top.msg,
         f.sent <=> f.msg \in Reports', overflow_counter' = overflow_counter,
         \/ Len(stack') = Len(stack) /\ ReportTop(f)'
         \/ f.pc = "reported" /\ f.sent
         \/ f.pc = "loop" /\ f.idx = 2 /\ ~f.sent /\ Shut(k)'
  PROVE  ReportPlace(k)'
  <1>1. Len(stack) \in Nat /\ Len(stack) \in 1 .. Len(stack) /\ Top = stack[Len(stack)] /\ Top \in FrameType
    BY TopIs DEF CountContext
  <1>2. ReportPlace(Len(stack)) /\ Len(stack) > 1
    BY TopReport
  <1>3. Len(stack) - 1 \in 1 .. Len(stack) - 1
    BY <1>1, <1>2
  <1>4. stack'[Len(stack) - 1] = stack[Len(stack) - 1]
    BY <1>3, LowerKept, StackMoves DEF CountContext
  <1>5. f.msg.n <= done'.reports
    <2>1. Top.msg.n <= done.reports /\ Top.msg.n \in Nat
      BY <1>1, <1>2 DEF ReportPlace, FrameType, Message
    <2> QED
      BY <2>1, HistoryCounts DEF CountContext
  <1>6. /\ stack[Len(stack) - 1].pc = "reported" => f.msg.lost = overflow_counter
        /\ stack[Len(stack) - 1].pc = "userOverflow" => f.msg.lost = 1
    BY <1>1, <1>2 DEF ReportPlace
  <1>7. stack'[k] = f /\ stack'[k - 1] = stack[k - 1]
    BY <1>4
  <1>8. \/ k = Len(stack') /\ ReportTop(f)'
        \/ f.pc = "reported" /\ f.sent
        \/ f.pc = "loop" /\ f.idx = 2 /\ ~f.sent /\ Shut(k)'
    OBVIOUS
  <1> QED
    BY <1>5, <1>6, <1>7, <1>8 DEF ReportPlace, ReportTop

LEMMA PoppedLands ==
  ASSUME CountContext, stack # <<>>, Popped, Balance'
  PROVE  Lands
  <1>1. Len(stack) \in Nat /\ Len(stack') = Len(stack) - 1
    BY TopIs DEF CountContext, Popped
  <1>2. Callers'
    BY CallersPopped DEF CountContext
  <1>3. \A i \in 1 .. Len(stack') : ~(i >= Len(stack))
    BY <1>1
  <1> QED
    BY <1>2, <1>3 DEF Lands

LEMMA ReplacedLands ==
  ASSUME CountContext, stack # <<>>, NEW f, Replaced(f), f.msg = Top.msg, f.force <=> Top.force, Balance',
         ReportFrame(Top) => /\ f.sent <=> f.msg \in Reports'
                             /\ overflow_counter' = overflow_counter /\ ReportTop(f)'
  PROVE  Lands
  <1>1. Len(stack) \in Nat /\ Len(stack) >= 1 /\ Len(stack') = Len(stack) /\ stack'[Len(stack)] = f
    BY TopIs DEF CountContext, Replaced
  <1>2. ReportFrame(f) <=> ReportFrame(Top)
    BY DEF ReportFrame
  <1>3. Callers'
    BY <1>2, CallersReplaced DEF CountContext
  <1>4. ASSUME NEW i \in 1 .. Len(stack'), i >= Len(stack) PROVE ReportPlace(i)'
    <2>1. i = Len(stack) /\ stack'[i] = f
      BY <1>1, <1>4
    <2>2. CASE ReportFrame(Top)
      BY <1>1, <2>1, <2>2, ReportGoesOn
    <2>3. CASE ~ReportFrame(Top)
      BY <1>2, <2>1, <2>3 DEF ReportPlace
    <2> QED
      BY <2>2, <2>3
  <1> QED
    BY <1>3, <1>4 DEF Lands

LEMMA PushedLands ==
  ASSUME CountContext, stack # <<>>, NEW f, NEW g, Pushed(f, g), ReportFrame(f) <=> ReportFrame(Top),
         ReportFrame(g) <=> f.pc \in Reporters, Balance',
         \A k : k = Len(stack) /\ ReportFrame(f) => ReportPlace(k)',
         \A k : k = Len(stack) + 1 /\ ReportFrame(g) => ReportPlace(k)'
  PROVE  Lands
  <1>1. /\ Len(stack) \in Nat /\ Len(stack) >= 1 /\ Len(stack') = Len(stack) + 1
        /\ stack'[Len(stack)] = f /\ stack'[Len(stack) + 1] = g
    BY TopIs DEF CountContext, Pushed
  <1>2. Callers'
    BY CallersPushed DEF CountContext
  <1>3. ASSUME NEW i \in 1 .. Len(stack'), i >= Len(stack) PROVE ReportPlace(i)'
    <2>1. i = Len(stack) \/ i = Len(stack) + 1
      BY <1>1, <1>3
    <2>2. CASE i = Len(stack)
      <3>1. CASE ReportFrame(f)
        BY <2>2, <3>1
      <3>2. CASE ~ReportFrame(f)
        BY <1>1, <2>2, <3>2 DEF ReportPlace
      <3> QED
        BY <3>1, <3>2
    <2>3. CASE i = Len(stack) + 1
      <3>1. CASE ReportFrame(g)
        BY <2>3, <3>1
      <3>2. CASE ~ReportFrame(g)
        BY <1>1, <2>3, <3>2 DEF ReportPlace
      <3> QED
        BY <3>1, <3>2
    <2> QED
      BY <2>1, <2>2, <2>3
  <1> QED
    BY <1>2, <1>3 DEF Lands

\* Messages are sent directly only while there is a client.
LEMMA DirectHasClient ==
  ASSUME CountContext, state = "SEND_DIRECT"
  PROVE  pfd # <<>>
  BY DEF CountContext, Outside, Inside, Buffers

\* The report on its way, from its point in dlt_daemon_client_send.
LEMMA ReportNow ==
  ASSUME CountContext, stack # <<>>, ReportFrame(Top)
  PROVE  /\ Top.sent <=> Top.msg \in Reports
         /\ Top.pc = "send" => ~Top.sent /\ Top.idx = 1
         /\ Top.pc = "loop" => \/ state = "SEND_DIRECT" /\ Top.idx = 1 /\ ~Top.sent /\ pfd # <<>>
                               \/ state = "SEND_DIRECT" /\ Top.idx = 2 /\ Top.sent
                               \/ state = "BUFFER" /\ Top.idx = 2 /\ ~Top.sent /\ pfd = <<>> /\ RingUsed <= 2
         /\ Top.pc = "store" => (Top.sent <=> state = "SEND_DIRECT")
         /\ Top.pc = "reported" => Top.sent
         /\ Top.pc \in SendPcs
         /\ Top.msg.lost = IF stack[Len(stack) - 1].pc = "reported" THEN overflow_counter ELSE 1
         /\ stack[Len(stack) - 1].pc = "userOverflow" => Len(stack) = 2
  <1>1. Len(stack) \in Nat /\ Len(stack) \in 1 .. Len(stack) /\ Top = stack[Len(stack)] /\ Top \in FrameType
    BY TopIs DEF CountContext
  <1>2. ReportPlace(Len(stack)) /\ Len(stack) > 1 /\ stack[Len(stack) - 1].pc \in Reporters
    BY TopReport
  <1>3. Top.pc \in SendPcs
    <2>1. Top.msg # Info
      BY DEF ReportFrame, Info
    <2> QED
      BY <1>1, <2>1 DEF CountContext, Shape, FrameOK
  <1>4. /\ Top.sent <=> Top.msg \in Reports
        /\ stack[Len(stack) - 1].pc = "reported" => Top.msg.lost = overflow_counter
        /\ stack[Len(stack) - 1].pc = "userOverflow" => Top.msg.lost = 1
        /\ \/ ReportTop(Top)
           \/ Top.pc = "reported" /\ Top.sent
           \/ Top.pc = "loop" /\ Top.idx = 2 /\ ~Top.sent /\ Shut(Len(stack))
    BY <1>1, <1>2 DEF ReportPlace
  <1>5. ASSUME Shut(Len(stack)) PROVE state = "BUFFER" /\ pfd = <<>> /\ RingUsed <= 2
    <2>1. Len(stack) # Len(stack) + 1 /\ RingUsed \in Int
      <3>1. ring \in Seq(Message)
        BY DEF CountContext, Typed, TypeOK
      <3>2. Len(ring) \in Nat /\ Cardinality(Logs(ring)) \in Nat /\ RingUsed = Len(ring) + Cardinality(Logs(ring))
        BY <3>1, LogsFinite DEF RingUsed, UsedBy, Logs
      <3> QED
        BY <1>1, <3>2
    <2> QED
      BY <1>1, <1>5, <2>1 DEF Shut
  <1>6. stack[Len(stack) - 1].pc = "userOverflow" => Len(stack) = 2
    <2>1. Len(stack) - 1 \in 1 .. Len(stack)
      BY <1>1, <1>2
    <2>2. stack[Len(stack) - 1].pc = "userOverflow" => Len(stack) - 1 = 1
      BY <2>1, TopReport
    <2> QED
      BY <1>1, <2>2
  <1> QED
    BY <1>2, <1>3, <1>4, <1>5, <1>6 DEF ReportTop, Reporters

LEMMA ClientSendLands ==
  ASSUME CountContext, ClientSend
  PROVE  Lands
  <1>1. stack \in Seq(FrameType) /\ stack # <<>> /\ Top.pc = "send" /\ Routed
    BY TopFacts DEF CountContext, Typed, TypeOK, ClientSend
  <1>2. UNCHANGED <<state, pfd, overflow_counter>>
    BY DEF ClientSend, daemonVars
  <1>3. PICK pc : pc = IF Top.force \/ state = "SEND_DIRECT" THEN "loop" ELSE "store"
    OBVIOUS
  <1>4. PICK f : f = Goes(pc, Top.idx, Top.sent)
    OBVIOUS
  <1>5. Replaced(f)
    BY <1>1, <1>3, <1>4, ClientSendStack
  <1>6. f.pc = pc /\ f.msg = Top.msg /\ f.force = Top.force /\ f.sent = Top.sent /\ f.idx = Top.idx
    BY <1>4 DEF Goes
  <1>7. ~HandsOver /\ ~Discard /\ ~UserMessageOverflow
    BY <1>1 DEF HandsOver, StoreInRing, SendAllMultiple, At, Discard, UserMessageOverflow, Idle
  <1>8. (Told' <=> Told) /\ (Pending' <=> Pending)
    BY <1>1, <1>3, <1>5, <1>6, ReplacedAccount, AccountNow
  <1>9. Balance'
    BY <1>2, <1>7, <1>8, SameBalance
  <1>10. ASSUME ReportFrame(Top) PROVE (f.sent <=> f.msg \in Reports') /\ ReportTop(f)'
    <2>1. ~Top.force /\ ~Top.sent /\ Top.idx = 1 /\ Top.msg \notin Reports
      BY <1>1, <1>10, ReportNow DEF ReportFrame
    <2>2. Reports' = Reports
      BY <1>7, ReportsNow
    <2>3. CASE state = "SEND_DIRECT"
      BY <1>2, <1>3, <1>6, <2>1, <2>2, <2>3, DirectHasClient DEF ReportTop
    <2>4. CASE state # "SEND_DIRECT"
      BY <1>2, <1>3, <1>6, <2>1, <2>2, <2>4 DEF ReportTop
    <2> QED
      BY <2>3, <2>4
  <1> QED
    BY <1>1, <1>2, <1>5, <1>6, <1>9, <1>10, ReplacedLands

LEMMA SendAllMultipleEndLands ==
  ASSUME CountContext, SendAllMultipleEnd
  PROVE  Lands
  <1>1. stack \in Seq(FrameType) /\ stack # <<>> /\ Top.pc = "loop" /\ Routed /\ Top.idx > Len(pfd)
    BY TopFacts DEF CountContext, Typed, TypeOK, SendAllMultipleEnd
  <1>2. UNCHANGED <<state, pfd, overflow_counter>>
    BY DEF SendAllMultipleEnd, daemonVars
  <1>7. ~HandsOver /\ ~Discard /\ ~UserMessageOverflow
    <2>1. ~SendAllMultiple
      <3>1. SUFFICES ASSUME SendAllMultiple PROVE FALSE
        OBVIOUS
      <3>2. Top.idx \in 1 .. Len(pfd) /\ Len(pfd) \in Nat
        BY <3>1, DeliveredUpdate DEF CountContext, Typed, TypeOK
      <3> QED
        BY <1>1, <3>2
    <2> QED
      BY <1>1, <2>1 DEF HandsOver, StoreInRing, At, Discard, UserMessageOverflow, Idle
  <1>3. CASE Top.force /\ ~Top.sent
    <2>1. Popped
      BY <1>1, <1>3, SendAllMultipleEndStack
    <2>2. Len(stack) > 1 /\ stack[Len(stack) - 1].pc = "drained" /\ Len(stack) - 1 \in 1 .. Len(stack)
      <3>1. FrameOK(Len(stack)) /\ Len(stack) \in Nat /\ Top = stack[Len(stack)]
        BY <1>1, TopIs DEF CountContext, Shape
      <3>2. Len(stack) > 1 /\ stack[Len(stack) - 1].pc = "drained"
        BY <1>3, <3>1 DEF FrameOK
      <3> QED
        BY <3>1, <3>2
    <2>3. stack[1].pc # "userOverflow"
      <3>1. stack[Len(stack) - 1].pc \in DrainPcs
        BY <2>2 DEF DrainPcs
      <3>2. Len(stack) - 1 = 1 \/ stack[1].pc = "announce"
        BY <1>1, <2>2, <3>1, DrainPlace DEF CountContext
      <3> QED
        BY <2>2, <3>2
    <2>4. ~(Told') /\ ~(Pending')
      BY <1>1, <2>1, <2>2, <2>3, PoppedAccount
    <2>5. ~Told /\ ~Pending
      BY <1>1, <2>2, <2>3, AccountNow
    <2>6. Balance'
      BY <1>2, <1>7, <2>4, <2>5, SameBalance
    <2> QED
      BY <1>1, <2>1, <2>6, PoppedLands
  <1>4. CASE ~(Top.force /\ ~Top.sent)
    <2>1. PICK f : f = Goes("store", Top.idx, Top.sent)
      OBVIOUS
    <2>2. Replaced(f)
      BY <1>1, <1>4, <2>1, SendAllMultipleEndStack
    <2>3. f.pc = "store" /\ f.msg = Top.msg /\ f.force = Top.force /\ f.sent = Top.sent
      BY <2>1 DEF Goes
    <2>4. (Told' <=> Told) /\ (Pending' <=> Pending)
      BY <1>1, <2>2, <2>3, ReplacedAccount, AccountNow
    <2>5. Balance'
      BY <1>2, <1>7, <2>4, SameBalance
    <2>6. ASSUME ReportFrame(Top) PROVE (f.sent <=> f.msg \in Reports') /\ ReportTop(f)'
      <3>1. Reports' = Reports
        BY <1>7, ReportsNow
      <3>2. Top.sent <=> state = "SEND_DIRECT"
        <4>1. pfd # <<>> => Len(pfd) = 1
          BY DEF CountContext
        <4>2. ~(Top.idx = 1 /\ pfd # <<>>)
          BY <1>1, <4>1
        <4> QED
          BY <1>1, <2>6, <4>2, ReportNow
      <3> QED
        BY <1>1, <1>2, <2>3, <2>6, <3>1, <3>2, ReportNow DEF ReportTop
    <2> QED
      BY <1>1, <1>2, <2>2, <2>3, <2>5, <2>6, ReplacedLands
  <1> QED
    BY <1>3, <1>4

\* A call that is not a report leaves the account alone, whatever it returns or remembers.
LEMMA OtherAccount ==
  ASSUME CountContext, stack # <<>>, ~ReportFrame(Top), Top.pc \notin {"reported", "userOverflow"},
         NEW x \in BOOLEAN, NEW y \in BOOLEAN,
         Told' <=> Len(stack) > 1 /\ stack[Len(stack) - 1].pc = "reported" /\ x,
         Pending' <=> /\ Len(stack) > 1 /\ stack[1].pc = "userOverflow"
                      /\ IF Len(stack) = 2 THEN y ELSE ~stack[2].sent
  PROVE  ~Told /\ ~(Told') /\ (Pending' <=> Pending)
  <1>1. ~(Len(stack) > 1 /\ stack[Len(stack) - 1].pc \in Reporters)
    BY TopReport
  <1>2. ~Told /\ ~(Told')
    BY <1>1, AccountNow DEF Reporters
  <1>3. Len(stack) = 2 => stack[Len(stack) - 1] = stack[1] /\ Len(stack) > 1
    OBVIOUS
  <1>4. Len(stack) = 2 => stack[1].pc # "userOverflow"
    BY <1>1, <1>3 DEF Reporters
  <1> QED
    BY <1>2, <1>4, AccountNow

\* A report is handed over: what it tells of is told.
LEMMA HandedAccount ==
  ASSUME CountContext, stack # <<>>, ReportFrame(Top), Top.pc \notin {"reported", "userOverflow"}, ~Top.sent,
         Told' <=> Len(stack) > 1 /\ stack[Len(stack) - 1].pc = "reported",
         Pending' <=> Len(stack) > 2 /\ stack[1].pc = "userOverflow" /\ ~stack[2].sent
  PROVE  /\ ~Told
         /\ stack[Len(stack) - 1].pc = "reported" => Told' /\ (Pending' <=> Pending)
         /\ stack[Len(stack) - 1].pc # "reported" => ~(Told') /\ Pending /\ ~(Pending')
  <1>1. Len(stack) \in Nat /\ Len(stack) > 1 /\ stack[Len(stack) - 1].pc \in Reporters
    BY TopReport, TopIs DEF CountContext
  <1>2. ~Told
    BY AccountNow
  <1>3. Len(stack) = 2 => stack[Len(stack) - 1] = stack[1]
    OBVIOUS
  <1>4. \A n \in Nat : n > 1 => (n = 2 /\ ~(n > 2)) \/ (n > 2 /\ n # 2)
    OBVIOUS
  <1>5. (Len(stack) = 2 /\ ~(Len(stack) > 2)) \/ (Len(stack) > 2 /\ Len(stack) # 2)
    BY <1>1, <1>4, Zenon
  <1>6. ASSUME stack[Len(stack) - 1].pc = "reported" PROVE Told' /\ (Pending' <=> Pending)
    BY <1>1, <1>3, <1>5, <1>6, AccountNow
  <1>7. ASSUME stack[Len(stack) - 1].pc # "reported" PROVE ~(Told') /\ Pending /\ ~(Pending')
    <2>1. stack[Len(stack) - 1].pc = "userOverflow"
      BY <1>1, <1>7 DEF Reporters
    <2>2. Len(stack) = 2
      BY <2>1, ReportNow
    <2> QED
      BY <1>1, <1>3, <1>5, <1>7, <2>1, <2>2, AccountNow
  <1> QED
    BY <1>2, <1>6, <1>7

LEMMA HandedBalance ==
  ASSUME CountContext, HandsOver, ~Top.sent, ~Discard, ~UserMessageOverflow, overflow_counter' = overflow_counter,
         ~Told,
         stack[Len(stack) - 1].pc = "reported" => Told' /\ (Pending' <=> Pending),
         stack[Len(stack) - 1].pc # "reported" => ~(Told') /\ Pending /\ ~(Pending')
  PROVE  Balance'
  <1>1. done'.discards = done.discards /\ done.discards \in Nat /\ overflow_counter \in Nat
    BY HistoryCounts DEF CountContext, Typed, TypeOK
  <1>2. stack # <<>> /\ ReportFrame(Top)
    BY DEF HandsOver
  <1>3. PICK m : m = Top.msg
    OBVIOUS
  <1>4. /\ m \notin Reports /\ m.lost \in Nat /\ Reports' = Reports \union {m}
        /\ m.lost = IF stack[Len(stack) - 1].pc = "reported" THEN overflow_counter ELSE 1
    BY <1>2, <1>3, ReportNow, ReportsNow
  <1>5. PICK l, n : l = Cardinality(LossesIn(Reports)) /\ n = Cardinality(LossesIn(Reports'))
    OBVIOUS
  <1>6. IsFiniteSet(LossesIn(Reports)) /\ Balance
    BY DEF CountContext
  <1>7. Cardinality(LossesIn(Reports \union {m})) = Cardinality(LossesIn(Reports)) + m.lost
    BY <1>4, <1>6, LossesGrow
  <1>8. n = l + m.lost /\ l \in Nat
    BY <1>4, <1>5, <1>7, ReportsNow
  <1>9. done.discards = l + overflow_counter + (IF Pending THEN 1 ELSE 0)
    BY <1>1, <1>5, <1>6 DEF Balance
  <1>10. done'.discards + (IF Told' THEN overflow_counter' ELSE 0)
           = n + overflow_counter' + (IF Pending' THEN 1 ELSE 0)
    <2>1. CASE stack[Len(stack) - 1].pc = "reported"
      BY <1>1, <1>4, <1>8, <1>9, <2>1
    <2>2. CASE stack[Len(stack) - 1].pc # "reported"
      BY <1>1, <1>4, <1>8, <1>9, <2>2
    <2> QED
      BY <2>1, <2>2
  <1> QED
    BY <1>5, <1>10 DEF Balance

LEMMA SendAllMultipleLands ==
  ASSUME CountContext, SendAllMultiple
  PROVE  Lands
  <1>1. stack \in Seq(FrameType) /\ stack # <<>> /\ Top.pc = "loop" /\ Top.idx \in 1 .. Len(pfd) /\ pfd \in Seq(Conn)
    BY DeliveredUpdate DEF CountContext, Typed, TypeOK
  <1>2. UNCHANGED <<state, pfd, overflow_counter>>
    BY DEF SendAllMultiple, daemonVars
  <1>3. ~Discard /\ ~UserMessageOverflow /\ ~StoreInRing
    BY <1>1 DEF StoreInRing, At, Discard, UserMessageOverflow, Idle
  <1>4. Top.idx = 1 /\ Len(pfd) = 1 /\ pfd # <<>>
    <2>1. Len(pfd) <= 1 /\ Len(pfd) \in Nat
      BY <1>1 DEF CountContext
    <2>2. \A n \in Nat : \A i \in 1 .. n : n <= 1 => i = 1 /\ n = 1
      OBVIOUS
    <2>3. Top.idx = 1 /\ Len(pfd) = 1
      BY <1>1, <2>1, <2>2, Zenon
    <2>4. pfd # <<>>
      BY <2>3
    <2> QED
      BY <2>3, <2>4
  <1>5. ReportFrame(Top) => ~Top.sent /\ Top.msg \notin Reports /\ state = "SEND_DIRECT" /\ ~Top.force
    BY <1>1, <1>4, ReportNow DEF ReportFrame
  <1>6. CASE pfd[Top.idx] \in broken
    <2>1. PICK f, g : f = Goes("loop", 2, Top.sent) /\ g = Close(pfd[Top.idx])
      OBVIOUS
    <2>2. Pushed(f, g)
      <3>1. Pushed(Goes("loop", Top.idx + 1, Top.sent), Close(pfd[Top.idx]))
        BY <1>1, <1>4, <1>6, SendAllMultipleStack
      <3>2. Top.idx + 1 = 2
        BY <1>4
      <3> QED
        BY <2>1, <3>1, <3>2
    <2>3. f.pc = "loop" /\ f.msg = Top.msg /\ f.force = Top.force /\ f.sent = Top.sent /\ f.idx = 2
      BY <2>1 DEF Goes
    <2>4. g.pc = "close" /\ ~g.sent /\ ~g.force /\ g.msg.kind = "info"
      BY <2>1 DEF Close, Frame, Info
    <2>5. ~HandsOver
      BY <1>3, <1>6 DEF HandsOver
    <2>6. ~(Told') /\ (Pending' <=> Pending)
      BY <1>1, <2>2, <2>3, <2>4, PushedAccount, AccountNow
    <2>7. ~Told
      <3>1. CASE ReportFrame(Top)
        BY <1>1, <1>5, <3>1, AccountNow
      <3>2. CASE ~ReportFrame(Top)
        BY <1>1, <3>2, AccountNow, TopReport DEF Reporters
      <3> QED
        BY <3>1, <3>2
    <2>8. Balance'
      BY <1>2, <1>3, <2>5, <2>6, <2>7, SameBalance
    <2>9. (ReportFrame(f) <=> ReportFrame(Top)) /\ ~ReportFrame(g) /\ f.pc \notin Reporters
      BY <2>3, <2>4 DEF ReportFrame, Reporters
    <2>10. ASSUME NEW k, k = Len(stack), ReportFrame(f) PROVE ReportPlace(k)'
      <3>1. /\ Len(stack') = k + 1 /\ Len(stack') >= Len(stack) /\ stack'[Len(stack)] = f
            /\ stack'[Len(stack')] = g
        <4>1. Len(stack) \in Nat /\ Len(stack) >= 1
          BY <1>1, TopIs DEF CountContext
        <4> QED
          BY <2>2, <2>10, <4>1 DEF Pushed
      <3>2. Shut(k)'
        BY <1>2, <1>5, <2>4, <2>9, <2>10, <3>1 DEF Shut, Top
      <3>3. Reports' = Reports
        BY <2>5, ReportsNow
      <3>4. f.sent <=> f.msg \in Reports'
        BY <1>5, <2>3, <2>9, <2>10, <3>3
      <3>5. ~f.sent
        BY <1>5, <2>3, <2>9, <2>10
      <3> QED
        BY <1>1, <1>2, <2>3, <2>9, <2>10, <3>1, <3>2, <3>4, <3>5, ReportGoesOn
    <2> QED
      BY <1>1, <2>2, <2>8, <2>9, <2>10, PushedLands
  <1>7. CASE pfd[Top.idx] \notin broken
    <2>1. PICK f : f = Goes("loop", 2, TRUE)
      OBVIOUS
    <2>2. Replaced(f)
      <3>3. Top.idx # 0
        BY <1>4
      <3>1. Replaced(Goes("loop", Top.idx + 1, TRUE))
        BY <1>1, <1>7, <3>3, SendAllMultipleStack, Zenon
      <3>2. Top.idx + 1 = 2
        BY <1>4
      <3> QED
        BY <2>1, <3>1, <3>2
    <2>3. f.pc = "loop" /\ f.msg = Top.msg /\ f.force = Top.force /\ f.sent = TRUE /\ f.idx = 2
      BY <2>1 DEF Goes
    <2>4. /\ Told' <=> Len(stack) > 1 /\ stack[Len(stack) - 1].pc = "reported" /\ TRUE
          /\ Pending' <=> /\ Len(stack) > 1 /\ stack[1].pc = "userOverflow"
                          /\ IF Len(stack) = 2 THEN FALSE ELSE ~stack[2].sent
      BY <1>1, <2>2, <2>3, ReplacedAccount
    <2>5. CASE ReportFrame(Top)
      <3>1. HandsOver
        BY <1>1, <1>7, <2>5 DEF HandsOver
      <3>2. Len(stack) > 1 /\ Len(stack) # 2 <=> Len(stack) > 2
        <4>1. Len(stack) \in Nat
          BY <1>1, TopIs DEF CountContext
        <4>2. \A n \in Nat : n > 1 /\ n # 2 <=> n > 2
          OBVIOUS
        <4> QED
          BY <4>1, <4>2, Zenon
      <3>3. /\ ~Told
            /\ stack[Len(stack) - 1].pc = "reported" => Told' /\ (Pending' <=> Pending)
            /\ stack[Len(stack) - 1].pc # "reported" => ~(Told') /\ Pending /\ ~(Pending')
        BY <1>1, <1>5, <2>4, <2>5, <3>2, HandedAccount
      <3>4. Balance'
        BY <1>2, <1>3, <1>5, <2>5, <3>1, <3>3, HandedBalance
      <3>5. f.sent /\ f.msg \in Reports'
        <4>1. Reports' = Reports \union {Top.msg}
          BY <3>1, ReportsNow
        <4> QED
          BY <2>3, <4>1
      <3>6. ReportTop(f)'
        BY <1>2, <1>5, <2>3, <2>5 DEF ReportTop
      <3> QED
        BY <1>1, <1>2, <2>2, <2>3, <3>4, <3>5, <3>6, ReplacedLands
    <2>6. CASE ~ReportFrame(Top)
      <3>1. ~HandsOver
        BY <2>6 DEF HandsOver
      <3>2. ~Told /\ ~(Told') /\ (Pending' <=> Pending)
        BY <1>1, <2>4, <2>6, OtherAccount
      <3>3. Balance'
        BY <1>2, <1>3, <3>1, <3>2, SameBalance
      <3> QED
        BY <1>1, <2>2, <2>3, <2>6, <3>3, ReplacedLands
    <2> QED
      BY <2>5, <2>6
  <1> QED
    BY <1>6, <1>7

LEMMA StoreInRingLands ==
  ASSUME CountContext, StoreInRing
  PROVE  Lands
  <1>1. stack \in Seq(FrameType) /\ stack # <<>> /\ Top.pc = "store" /\ Len(stack) \in Nat
    BY TopFacts DEF CountContext, Typed, TypeOK, StoreInRing
  <1>2. UNCHANGED <<state, pfd, overflow_counter>> /\ ~Top.force /\ state # "SEND_DIRECT"
    BY DEF StoreInRing, Buffering
  <1>3. ~Discard /\ ~UserMessageOverflow
    <2>1. ASSUME Discard PROVE FALSE
      BY <1>1, <2>1, DiscardStack, StoreInRingStack
    <2> QED
      BY <1>1, <2>1 DEF UserMessageOverflow, Idle
  <1>4. Popped /\ ret' = "OK"
    BY <1>1, StoreInRingStack
  <1>5. /\ Told' <=> Len(stack) > 1 /\ stack[Len(stack) - 1].pc = "reported" /\ TRUE
        /\ Pending' <=> /\ Len(stack) > 1 /\ stack[1].pc = "userOverflow"
                        /\ IF Len(stack) = 2 THEN FALSE ELSE ~stack[2].sent
    BY <1>1, <1>4, PoppedAccount
  <1>6. CASE ReportFrame(Top)
    <2>1. HandsOver
      BY <1>1, <1>6 DEF HandsOver
    <2>8. \A n \in Nat : n > 1 /\ n # 2 <=> n > 2
      OBVIOUS
    <2>2. Len(stack) > 1 /\ Len(stack) # 2 <=> Len(stack) > 2
      BY <1>1, <2>8, Zenon
    <2>3. ~Top.sent
      BY <1>1, <1>2, <1>6, ReportNow
    <2>4. /\ ~Told
          /\ stack[Len(stack) - 1].pc = "reported" => Told' /\ (Pending' <=> Pending)
          /\ stack[Len(stack) - 1].pc # "reported" => ~(Told') /\ Pending /\ ~(Pending')
      BY <1>1, <1>5, <1>6, <2>2, <2>3, HandedAccount
    <2>5. Balance'
      BY <1>2, <1>3, <2>1, <2>3, <2>4, HandedBalance
    <2> QED
      BY <1>1, <1>4, <2>5, PoppedLands
  <1>7. CASE ~ReportFrame(Top)
    <2>1. ~HandsOver
      BY <1>7 DEF HandsOver
    <2>2. ~Told /\ ~(Told') /\ (Pending' <=> Pending)
      BY <1>1, <1>5, <1>7, OtherAccount
    <2>3. Balance'
      BY <1>2, <1>3, <2>1, <2>2, SameBalance
    <2> QED
      BY <1>1, <1>4, <2>3, PoppedLands
  <1> QED
    BY <1>6, <1>7

LEMMA DiscardLands ==
  ASSUME CountContext, Discard
  PROVE  Lands
  <1>1. stack \in Seq(FrameType) /\ stack # <<>> /\ Top.pc = "store" /\ Len(stack) \in Nat
    BY TopFacts DEF CountContext, Typed, TypeOK, Discard
  <1>2. overflow_counter' = overflow_counter + 1
    BY DEF Discard
  <1>3. Popped /\ ret' = "BUFFER_FULL"
    BY <1>1, DiscardStack
  <1>4. ~HandsOver
    <2>1. ASSUME StoreInRing PROVE FALSE
      BY <1>1, <1>3, <2>1, StoreInRingStack
    <2> QED
      BY <1>1, <2>1 DEF HandsOver, SendAllMultiple, At
  <1>5. /\ Told' <=> Len(stack) > 1 /\ stack[Len(stack) - 1].pc = "reported" /\ FALSE
        /\ Pending' <=> /\ Len(stack) > 1 /\ stack[1].pc = "userOverflow"
                        /\ IF Len(stack) = 2 THEN TRUE ELSE ~stack[2].sent
    BY <1>1, <1>3, PoppedAccount
  <1>6. ~Told /\ ~(Told') /\ (Pending' <=> Pending)
    <2>1. CASE ReportFrame(Top)
      <3>1. state # "SEND_DIRECT"
        BY DEF Discard, Buffering
      <3>2. ~Top.sent
        BY <1>1, <2>1, <3>1, ReportNow
      <3> QED
        BY <1>1, <1>5, <3>2, AccountNow
    <2>2. CASE ~ReportFrame(Top)
      BY <1>1, <1>5, <2>2, OtherAccount
    <2> QED
      BY <2>1, <2>2
  <1>7. Balance'
    <2>1. done'.discards = done.discards + 1 /\ done.discards \in Nat /\ overflow_counter \in Nat
      BY HistoryCounts DEF CountContext, Typed, TypeOK
    <2>2. Reports' = Reports
      BY <1>4, ReportsNow
    <2>3. PICK l, n : l = Cardinality(LossesIn(Reports)) /\ n = Cardinality(LossesIn(Reports'))
      OBVIOUS
    <2>4. l = n /\ l \in Nat
      BY <2>2, <2>3, ReportsNow
    <2>5. done.discards = l + overflow_counter + (IF Pending THEN 1 ELSE 0)
      BY <1>6, <2>1, <2>3 DEF CountContext, Balance
    <2>6. done'.discards + 0 = n + overflow_counter' + (IF Pending' THEN 1 ELSE 0)
      BY <1>2, <1>6, <2>1, <2>4, <2>5
    <2> QED
      BY <1>6, <2>3, <2>6 DEF Balance
  <1> QED
    BY <1>1, <1>3, <1>7, PoppedLands

LEMMA ReportOverflowLands ==
  ASSUME CountContext, ReportOverflow
  PROVE  Lands
  <1>1. /\ stack \in Seq(FrameType) /\ stack # <<>> /\ Top.pc = "store" /\ Len(stack) \in Nat /\ Len(stack) >= 1
        /\ overflow_counter \in Nat /\ done.reports \in Nat /\ state \in {"BUFFER", "BUFFER_FULL", "SEND_BUFFER", "SEND_DIRECT"}
    BY TopFacts, HistoryCounts DEF CountContext, Typed, TypeOK, ReportOverflow
  <1>2. UNCHANGED <<state, pfd, overflow_counter>> /\ ~Buffering(Top)
    BY DEF ReportOverflow
  <1>3. ~HandsOver /\ ~Discard /\ ~UserMessageOverflow
    BY <1>1, <1>2 DEF HandsOver, StoreInRing, SendAllMultiple, At, Discard, UserMessageOverflow, Idle
  <1>4. ReportFrame(Top) => Top.sent
    <2>1. ASSUME ReportFrame(Top) PROVE Top.sent
      <3>1. state = "SEND_DIRECT"
        BY <1>1, <1>2, <2>1 DEF Buffering, ReportFrame
      <3> QED
        BY <1>1, <2>1, <3>1, ReportNow
    <2> QED
      BY <2>1
  <1>5. Reports' = Reports
    BY <1>3, ReportsNow
  <1>6. CASE overflow_counter > 0 /\ pfd # <<>> /\ overflow_cnt + 1 < 2
    <2>1. PICK f, g : f = Goes("reported", Top.idx, Top.sent)
                      /\ g = Send(Overflow(overflow_counter, done.reports + 1), FALSE)
      OBVIOUS
    <2>2. Pushed(f, g)
      BY <1>1, <1>6, <2>1, ReportOverflowStack
    <2>3. f.pc = "reported" /\ f.msg = Top.msg /\ f.force = Top.force /\ f.sent = Top.sent
      BY <2>1 DEF Goes
    <2>4. /\ g.pc = "send" /\ ~g.sent /\ ~g.force /\ g.idx = 1 /\ g.msg.kind = "overflow"
          /\ g.msg.n = done.reports + 1 /\ g.msg.lost = overflow_counter
      BY <2>1 DEF Send, Frame, Overflow
    <2>5. overflow_cnt # 1
      BY <1>6
    <2>6. ~(Len(stack) > 1 /\ stack[Len(stack) - 1].pc = "reported")
      BY <1>1, <2>5, TopReport
    <2>7. ~Told /\ ~(Told') /\ (Pending' <=> Pending)
      BY <1>1, <2>2, <2>3, <2>4, <2>6, PushedAccount, AccountNow
    <2>8. Balance'
      BY <1>2, <1>3, <2>7, SameBalance
    <2>9. (ReportFrame(f) <=> ReportFrame(Top)) /\ ReportFrame(g) /\ f.pc \in Reporters
      BY <2>3, <2>4 DEF ReportFrame, Reporters
    <2>10. /\ Len(stack') = Len(stack) + 1 /\ Len(stack') >= Len(stack)
           /\ stack'[Len(stack)] = f /\ stack'[Len(stack) + 1] = g
      BY <1>1, <2>2 DEF Pushed
    <2>11. ASSUME NEW k, k = Len(stack), ReportFrame(f) PROVE ReportPlace(k)'
      <3>1. f.sent
        BY <1>4, <2>3, <2>9, <2>11
      <3>2. f.msg \in Reports'
        BY <1>1, <1>4, <1>5, <2>3, <2>9, <2>11, ReportNow
      <3> QED
        BY <1>1, <1>2, <2>3, <2>9, <2>10, <2>11, <3>1, <3>2, ReportGoesOn
    <2>12. ASSUME NEW k, k = Len(stack) + 1, ReportFrame(g) PROVE ReportPlace(k)'
      <3>1. stack'[k] = g /\ stack'[k - 1] = f /\ k = Len(stack')
        <4>1. k - 1 = Len(stack)
          BY <1>1, <2>12
        <4> QED
          BY <2>10, <2>12, <4>1
      <3>2. done'.reports = done.reports + 1
        <4>1. done' = [done EXCEPT !.reports = @ + 1] /\ done \in History
          BY <1>6 DEF ReportOverflow, CountContext, Typed
        <4> QED
          BY <4>1 DEF History
      <3>3. g.msg \notin Reports'
        <4>1. \A m \in Reports : m.n <= done.reports
          BY DEF CountContext, Numbered
        <4>2. ~(g.msg.n <= done.reports)
          BY <1>1, <2>4
        <4> QED
          BY <1>5, <4>1, <4>2
      <3>4. g.msg.n <= done'.reports
        BY <1>1, <2>4, <3>2
      <3>5. g.msg.lost = overflow_counter'
        BY <1>2, <2>4
      <3>6. ReportTop(g)'
        BY <2>4 DEF ReportTop
      <3> QED
        BY <2>3, <2>4, <3>1, <3>3, <3>4, <3>5, <3>6 DEF ReportPlace, ReportTop
    <2> QED
      BY <1>1, <2>2, <2>8, <2>9, <2>11, <2>12, PushedLands
  <1>7. CASE ~(overflow_counter > 0 /\ pfd # <<>> /\ overflow_cnt + 1 < 2)
    <2>1. Popped /\ ret' = "OK"
      BY <1>1, <1>7, ReportOverflowStack
    <2>2. /\ Told' <=> Len(stack) > 1 /\ stack[Len(stack) - 1].pc = "reported" /\ TRUE
          /\ Pending' <=> /\ Len(stack) > 1 /\ stack[1].pc = "userOverflow"
                          /\ IF Len(stack) = 2 THEN FALSE ELSE ~stack[2].sent
      BY <1>1, <2>1, PoppedAccount
    <2>3. (Told' <=> Told) /\ (Pending' <=> Pending)
      <3>1. CASE ReportFrame(Top)
        BY <1>1, <1>4, <2>2, <3>1, AccountNow
      <3>2. CASE ~ReportFrame(Top)
        BY <1>1, <2>2, <3>2, OtherAccount
      <3> QED
        BY <3>1, <3>2
    <2>4. Balance'
      BY <1>2, <1>3, <2>3, SameBalance
    <2> QED
      BY <1>1, <2>1, <2>4, PoppedLands
  <1> QED
    BY <1>6, <1>7

LEMMA OverflowReportedLands ==
  ASSUME CountContext, OverflowReported
  PROVE  Lands
  <1>1. /\ stack \in Seq(FrameType) /\ stack # <<>> /\ Top.pc = "reported" /\ Len(stack) \in Nat /\ Len(stack) >= 1
        /\ Top = stack[Len(stack)]
    BY TopFacts DEF CountContext, Typed, TypeOK, OverflowReported
  <1>2. ~HandsOver /\ ~Discard /\ ~UserMessageOverflow
    BY <1>1 DEF HandsOver, StoreInRing, SendAllMultiple, At, Discard, UserMessageOverflow, Idle
  <1>3. Popped /\ ret' = "OK"
    BY <1>1, OverflowReportedStack
  <1>4. ~(Len(stack) > 1 /\ stack[Len(stack) - 1].pc = "reported")
    BY <1>1, TopReport
  <1>5. ~(Told') /\ (Told <=> ret = "OK")
    BY <1>1, <1>3, <1>4, PoppedAccount DEF Told
  <1>6. ReportFrame(Top) => Top.sent
    BY <1>1, ReportNow
  <1>7. Pending' <=> Pending
    <2>1. \A n \in Nat : n >= 1 => (n = 1 /\ ~(n > 1) /\ n # 2) \/ (n > 1 /\ n # 1 /\ n = 2) \/ (n > 1 /\ n # 1 /\ n # 2)
      OBVIOUS
    <2>2. CASE Len(stack) = 1 /\ ~(Len(stack) > 1)
      BY <1>1, <1>3, <2>2, PoppedAccount DEF Pending
    <2>3. CASE Len(stack) = 2 /\ Len(stack) > 1 /\ Len(stack) # 1
      <3>1. Top = stack[2]
        BY <1>1, <2>3
      <3>2. stack[1].pc = "userOverflow" => stack[2].sent
        BY <1>6, <2>3, <3>1, TopReport, <1>1
      <3> QED
        BY <1>1, <1>3, <2>3, <3>2, PoppedAccount DEF Pending
    <2>4. CASE Len(stack) > 1 /\ Len(stack) # 1 /\ Len(stack) # 2
      BY <1>1, <1>3, <2>4, PoppedAccount DEF Pending
    <2> QED
      BY <1>1, <2>1, <2>2, <2>3, <2>4, Zenon
  <1>8. CASE ret = "OK"
    <2>1. overflow_counter' = 0
      BY <1>8 DEF OverflowReported
    <2>2. done'.discards = done.discards /\ done.discards \in Nat /\ overflow_counter \in Nat
      BY <1>2, HistoryCounts DEF CountContext, Typed, TypeOK
    <2>3. PICK l, n : l = Cardinality(LossesIn(Reports)) /\ n = Cardinality(LossesIn(Reports'))
      OBVIOUS
    <2>4. l = n /\ l \in Nat
      BY <1>2, <2>3, ReportsNow
    <2>5. done.discards + overflow_counter = l + overflow_counter + (IF Pending THEN 1 ELSE 0)
      BY <1>5, <1>8, <2>3 DEF CountContext, Balance
    <2>6. done'.discards + 0 = n + overflow_counter' + (IF Pending' THEN 1 ELSE 0)
      BY <1>7, <2>1, <2>2, <2>4, <2>5
    <2>7. Balance'
      BY <1>5, <2>3, <2>6 DEF Balance
    <2> QED
      BY <1>1, <1>3, <2>7, PoppedLands
  <1>9. CASE ret # "OK"
    <2>1. overflow_counter' = overflow_counter
      BY <1>9 DEF OverflowReported
    <2>2. Balance'
      BY <1>2, <1>5, <1>7, <1>9, <2>1, SameBalance
    <2> QED
      BY <1>1, <1>3, <2>2, PoppedLands
  <1> QED
    BY <1>8, <1>9

\* The call that runs is not a report, and no application's report is under way below it.
LEMMA NoAccount ==
  ASSUME CountContext, stack # <<>>, Top.msg.kind = "info", Top.pc # "reported",
         stack[1].pc # "userOverflow"
  PROVE  /\ ~Told /\ ~Pending /\ ~ReportFrame(Top)
         /\ ~(Len(stack) > 1 /\ stack[Len(stack) - 1].pc = "reported")
  <1>1. ~ReportFrame(Top)
    BY DEF ReportFrame
  <1>2. ~(Len(stack) > 1 /\ stack[Len(stack) - 1].pc = "reported")
    BY <1>1, TopReport DEF Reporters
  <1> QED
    BY <1>1, <1>2 DEF Told, Pending

LEMMA QuietPop ==
  ASSUME CountContext, stack # <<>>, Top.msg.kind = "info", Top.pc # "reported", stack[1].pc # "userOverflow",
         Popped, ~HandsOver, ~Discard, ~UserMessageOverflow, overflow_counter' = overflow_counter
  PROVE  Lands
  <1>1. /\ ~Told /\ ~Pending /\ ~ReportFrame(Top)
        /\ ~(Len(stack) > 1 /\ stack[Len(stack) - 1].pc = "reported")
    BY NoAccount
  <1>2. ~(Told') /\ ~(Pending')
    BY <1>1, PoppedAccount
  <1>3. Balance'
    BY <1>1, <1>2, SameBalance
  <1> QED
    BY <1>3, PoppedLands

LEMMA QuietPush ==
  ASSUME CountContext, stack # <<>>, Top.msg.kind = "info", Top.pc # "reported",
         NEW f, NEW g, Pushed(f, g), f.pc \notin Reporters, f.msg.kind = "info", g.pc # "reported", ~g.sent,
         ~ReportFrame(g), stack[1].pc # "userOverflow",
         ~HandsOver, ~Discard, ~UserMessageOverflow, overflow_counter' = overflow_counter
  PROVE  Lands
  <1>1. ~Told /\ ~Pending /\ ~ReportFrame(Top)
    BY NoAccount
  <1>2. ~(Told') /\ ~(Pending')
    BY PushedAccount DEF Reporters
  <1>3. Balance'
    BY <1>1, <1>2, SameBalance
  <1>4. ~ReportFrame(f)
    BY DEF ReportFrame
  <1> QED
    BY <1>1, <1>3, <1>4, PushedLands

LEMMA CloseSocketLands ==
  ASSUME CountContext, CloseSocket
  PROVE  Lands
  <1>1. /\ stack \in Seq(FrameType) /\ stack # <<>> /\ Top.pc = "close" /\ Len(stack) \in Nat /\ Len(stack) >= 1
        /\ Top = stack[Len(stack)]
    BY TopFacts DEF CountContext, Typed, TypeOK, CloseSocket
  <1>2. ~HandsOver /\ ~Discard /\ ~UserMessageOverflow
    BY <1>1 DEF HandsOver, StoreInRing, SendAllMultiple, At, Discard, UserMessageOverflow, Idle
  <1>3. overflow_counter' = overflow_counter
    BY DEF CloseSocket
  <1>4. PICK f : f = Send(Info, FALSE)
    OBVIOUS
  <1>5. Pushed(f, f)
    BY <1>1, <1>4, CloseSocketStack
  <1>6. ~f.force /\ f.msg.kind = "info" /\ f.pc = "send" /\ ~f.sent
    BY <1>4 DEF Send, Frame, Info
  <1>7. ~ReportFrame(f) /\ f.pc \notin Reporters
    BY <1>6 DEF ReportFrame, Reporters
  <1>8. Top.msg = Info
    BY <1>1, TopIs DEF CountContext, Shape, FrameOK, SendPcs
  <1>9. ~ReportFrame(Top)
    BY <1>8 DEF ReportFrame, Info
  <1>10. ~(Told') /\ (Pending' <=> Len(stack) > 1 /\ stack[1].pc = "userOverflow"
                                   /\ IF Len(stack) = 2 THEN TRUE ELSE ~stack[2].sent)
    BY <1>1, <1>5, <1>6, PushedAccount
  <1>11. ~Told /\ (Pending' <=> Pending)
    <2>1. Told' <=> Len(stack) > 1 /\ stack[Len(stack) - 1].pc = "reported" /\ FALSE
      BY <1>10
    <2> QED
      BY <1>1, <1>9, <1>10, <2>1, OtherAccount
  <1>12. Balance'
    BY <1>2, <1>3, <1>10, <1>11, SameBalance
  <1> QED
    BY <1>1, <1>5, <1>7, <1>9, <1>12, PushedLands

LEMMA SendRingbufferLands ==
  ASSUME CountContext, SendRingbuffer
  PROVE  Lands
  <1>1. /\ stack \in Seq(FrameType) /\ ring \in Seq(Message) /\ stack # <<>> /\ Top.pc = "drain"
        /\ Len(stack) \in 1 .. Len(stack) /\ Top = stack[Len(stack)]
    BY TopFacts, TopIs DEF CountContext, Typed, TypeOK, SendRingbuffer
  <1>2. ~HandsOver /\ ~Discard /\ ~UserMessageOverflow
    BY <1>1 DEF HandsOver, StoreInRing, SendAllMultiple, At, Discard, UserMessageOverflow, Idle
  <1>3. overflow_counter' = overflow_counter
    BY DEF SendRingbuffer
  <1>4. Top.msg = Info
    BY <1>1 DEF CountContext, Shape, FrameOK, SendPcs
  <1>5. stack[1].pc # "userOverflow"
    <2>1. Len(stack) = 1 \/ stack[1].pc = "announce"
      BY <1>1, DrainPlace DEF CountContext, DrainPcs
    <2> QED
      BY <1>1, <2>1
  <1>6. Top.msg.kind = "info"
    BY <1>4 DEF Info
  <1>7. CASE ring = <<>>
    BY <1>1, <1>2, <1>3, <1>5, <1>6, <1>7, SendRingbufferStack, QuietPop
  <1>8. CASE ring # <<>>
    <2>1. PICK f, g : f = Then("drained") /\ g = Send(ring[1], TRUE)
      OBVIOUS
    <2>2. Pushed(f, g)
      BY <1>1, <1>8, <2>1, SendRingbufferStack
    <2>3. f.pc = "drained" /\ f.msg.kind = "info" /\ g.pc = "send" /\ ~g.sent /\ g.force
      BY <2>1 DEF Then, Send, Frame, Info
    <2>4. f.pc \notin Reporters /\ ~ReportFrame(g)
      BY <2>3 DEF Reporters, ReportFrame
    <2> QED
      BY <1>1, <1>2, <1>3, <1>5, <1>6, <2>2, <2>3, <2>4, QuietPush
  <1> QED
    BY <1>7, <1>8

LEMMA SendRingbufferNextLands ==
  ASSUME CountContext, SendRingbufferNext
  PROVE  Lands
  <1>1. /\ stack \in Seq(FrameType) /\ stack # <<>> /\ Top.pc = "drained"
        /\ Len(stack) \in 1 .. Len(stack) /\ Top = stack[Len(stack)]
    BY TopFacts, TopIs DEF CountContext, Typed, TypeOK, SendRingbufferNext
  <1>2. ~HandsOver /\ ~Discard /\ ~UserMessageOverflow
    BY <1>1 DEF HandsOver, StoreInRing, SendAllMultiple, At, Discard, UserMessageOverflow, Idle
  <1>3. overflow_counter' = overflow_counter
    BY DEF SendRingbufferNext
  <1>4. Top.msg = Info /\ ~Top.force
    BY <1>1 DEF CountContext, Shape, FrameOK, SendPcs
  <1>5. stack[1].pc # "userOverflow"
    <2>1. Len(stack) = 1 \/ stack[1].pc = "announce"
      BY <1>1, DrainPlace DEF CountContext, DrainPcs
    <2> QED
      BY <1>1, <2>1
  <1>6. Top.msg.kind = "info"
    BY <1>4 DEF Info
  <1>7. CASE Popped
    BY <1>1, <1>2, <1>3, <1>5, <1>6, <1>7, QuietPop
  <1>8. CASE Replaced(Drain)
    <2>1. PICK f : f = Drain
      OBVIOUS
    <2>2. f.pc = "drain" /\ f.msg = Top.msg /\ ~f.sent /\ ~f.force
      BY <1>4, <2>1 DEF Drain, Frame
    <2>3. /\ ~Told /\ ~Pending /\ ~ReportFrame(Top)
          /\ ~(Len(stack) > 1 /\ stack[Len(stack) - 1].pc = "reported")
      BY <1>1, <1>5, <1>6, NoAccount
    <2>4. ~(Told') /\ ~(Pending')
      BY <1>1, <1>5, <1>8, <2>1, <2>2, <2>3, ReplacedAccount
    <2>5. Balance'
      BY <1>2, <1>3, <2>3, <2>4, SameBalance
    <2> QED
      BY <1>1, <1>4, <1>8, <2>1, <2>2, <2>3, <2>5, ReplacedLands
  <1> QED
    BY <1>1, <1>7, <1>8, SendRingbufferNextStack

LEMMA ClientConnectedLands ==
  ASSUME CountContext, ClientConnected
  PROVE  Lands
  <1>1. /\ stack \in Seq(FrameType) /\ stack # <<>> /\ Top.pc = "connected"
        /\ Len(stack) \in 1 .. Len(stack) /\ Top = stack[Len(stack)]
    BY TopFacts, TopIs DEF CountContext, Typed, TypeOK, ClientConnected
  <1>2. ~HandsOver /\ ~Discard /\ ~UserMessageOverflow
    BY <1>1 DEF HandsOver, StoreInRing, SendAllMultiple, At, Discard, UserMessageOverflow, Idle
  <1>3. overflow_counter' = overflow_counter
    BY DEF ClientConnected
  <1>4. Top.msg = Info /\ Len(stack) = 1
    BY <1>1 DEF CountContext, Shape, FrameOK, SendPcs, EventPcs
  <1>5. Top.msg.kind = "info" /\ stack[1].pc # "userOverflow"
    BY <1>1, <1>4 DEF Info
  <1>6. CASE Len(pfd) = 1
    <2>1. PICK f, g : f = Then("announce") /\ g = Drain
      OBVIOUS
    <2>2. Pushed(f, g)
      BY <1>1, <1>6, <2>1, ClientConnectedStack
    <2>3. f.pc = "announce" /\ f.msg.kind = "info" /\ g.pc = "drain" /\ ~g.sent /\ g.msg.kind = "info"
      BY <2>1 DEF Then, Drain, Frame, Info
    <2>4. f.pc \notin Reporters /\ ~ReportFrame(g)
      BY <2>3 DEF Reporters, ReportFrame
    <2> QED
      BY <1>1, <1>2, <1>3, <1>5, <2>2, <2>3, <2>4, QuietPush
  <1>7. CASE Len(pfd) # 1
    BY <1>1, <1>2, <1>3, <1>5, <1>7, ClientConnectedStack, QuietPop
  <1> QED
    BY <1>6, <1>7

LEMMA ClientAnnounceLands ==
  ASSUME CountContext, ClientAnnounce
  PROVE  Lands
  <1>1. /\ stack \in Seq(FrameType) /\ stack # <<>> /\ Top.pc = "announce"
        /\ Len(stack) \in 1 .. Len(stack) /\ Top = stack[Len(stack)]
    BY TopFacts, TopIs DEF CountContext, Typed, TypeOK, ClientAnnounce
  <1>2. ~HandsOver /\ ~Discard /\ ~UserMessageOverflow
    BY <1>1 DEF HandsOver, StoreInRing, SendAllMultiple, At, Discard, UserMessageOverflow, Idle
  <1>3. overflow_counter' = overflow_counter
    BY DEF ClientAnnounce
  <1>4. Top.msg = Info /\ Len(stack) = 1
    BY <1>1 DEF CountContext, Shape, FrameOK, SendPcs, EventPcs
  <1>5. Top.msg.kind = "info" /\ stack[1].pc # "userOverflow"
    BY <1>1, <1>4 DEF Info
  <1> QED
    BY <1>1, <1>2, <1>3, <1>5, ClientAnnounceStack, QuietPop

LEMMA UserMessageOverflowEndLands ==
  ASSUME CountContext, UserMessageOverflowEnd
  PROVE  Lands
  <1>1. /\ stack \in Seq(FrameType) /\ stack # <<>> /\ Top.pc = "userOverflow"
        /\ Len(stack) \in 1 .. Len(stack) /\ Top = stack[Len(stack)]
    BY TopFacts, TopIs DEF CountContext, Typed, TypeOK, UserMessageOverflowEnd
  <1>2. ~HandsOver /\ ~Discard /\ ~UserMessageOverflow
    BY <1>1 DEF HandsOver, StoreInRing, SendAllMultiple, At, Discard, UserMessageOverflow, Idle
  <1>3. overflow_counter' = IF ret = "OK" THEN overflow_counter ELSE overflow_counter + 1
    BY DEF UserMessageOverflowEnd
  <1>4. Len(stack) = 1 /\ Popped
    BY <1>1, TopReport, UserMessageOverflowEndStack
  <1>5. ~Told /\ (Pending <=> ret # "OK")
    BY <1>1, <1>4 DEF Told, Pending
  <1>6. ~(Told') /\ ~(Pending')
    BY <1>1, <1>4, PoppedAccount
  <1>7. Balance'
    <2>1. done'.discards = done.discards /\ done.discards \in Nat /\ overflow_counter \in Nat
      BY <1>2, HistoryCounts DEF CountContext, Typed, TypeOK
    <2>2. PICK l, n : l = Cardinality(LossesIn(Reports)) /\ n = Cardinality(LossesIn(Reports'))
      OBVIOUS
    <2>3. l = n /\ l \in Nat
      BY <1>2, <2>2, ReportsNow
    <2>4. done.discards = l + overflow_counter + (IF ret = "OK" THEN 0 ELSE 1)
      BY <1>5, <2>1, <2>2 DEF CountContext, Balance
    <2>5. done'.discards + 0 = n + overflow_counter' + 0
      BY <1>3, <2>1, <2>3, <2>4
    <2> QED
      BY <1>6, <2>2, <2>5 DEF Balance
  <1> QED
    BY <1>1, <1>4, <1>7, PoppedLands

\* A step of the clients, and a stuttering step.
LEMMA AccountUnchanged ==
  ASSUME UNCHANGED <<state, ring, pfd, overflow_counter, stack, ret, delivered, done>>
  PROVE  /\ Reports' = Reports /\ (Numbered' <=> Numbered) /\ (Callers' <=> Callers) /\ (Balance' <=> Balance)
         /\ \A i \in 1 .. Len(stack) : ReportPlace(i)' <=> ReportPlace(i)
  <1>1. Reports' = Reports
    BY DEF Reports, Range1
  <1>2. (Numbered' <=> Numbered) /\ (Callers' <=> Callers)
    BY <1>1 DEF Numbered, Callers
  <1>3. (Told' <=> Told) /\ (Pending' <=> Pending)
    BY DEF Told, Pending, Top
  <1>4. Cardinality(LossesIn(Reports')) = Cardinality(LossesIn(Reports))
    BY <1>1
  <1>5. Balance' <=> Balance
    BY <1>3, <1>4 DEF Balance
  <1>6. ASSUME NEW i \in 1 .. Len(stack) PROVE ReportPlace(i)' <=> ReportPlace(i)
    <2>1. Shut(i)' <=> Shut(i)
      BY DEF Shut, Top, RingUsed, UsedBy
    <2>2. ReportTop(stack[i])' <=> ReportTop(stack[i])
      BY DEF ReportTop
    <2> QED
      BY <1>1, <2>1, <2>2 DEF ReportPlace
  <1> QED
    BY <1>1, <1>2, <1>5, <1>6

\* The events, of which one starts a report.
LEMMA EventLands ==
  ASSUME CountContext, stack = <<>>, ~UserMessageOverflow, overflow_counter' = overflow_counter,
         \/ stack' = <<>>
         \/ \E f : stack' = <<f>> /\ f.pc \notin Reporters /\ ~ReportFrame(f)
         \/ \E f, g : /\ stack' = <<f, g>> /\ f.pc \notin Reporters /\ g.pc \notin Reporters
                      /\ ~ReportFrame(f) /\ ~ReportFrame(g)
  PROVE  Lands
  <1>1. ~HandsOver /\ ~Discard /\ ~Told /\ ~Pending
    BY DEF HandsOver, Discard, At, Idle, Told, Pending
  <1>2. CASE stack' = <<>>
    <2>1. ~(Told') /\ ~(Pending') /\ 1 .. Len(stack') = {}
      BY <1>2 DEF Told, Pending
    <2>2. Balance'
      BY <1>1, <2>1, SameBalance
    <2> QED
      BY <2>1, <2>2 DEF Lands, Callers
  <1>3. ASSUME NEW f, stack' = <<f>>, f.pc \notin Reporters, ~ReportFrame(f) PROVE Lands
    <2>1. Len(stack') = 1 /\ stack'[1] = f
      BY <1>3
    <2>2. ~(Told') /\ ~(Pending')
      BY <1>3, <2>1 DEF Told, Pending, Top, Reporters
    <2>3. Balance'
      BY <1>1, <2>2, SameBalance
    <2>4. \A i \in 1 .. Len(stack') : i = 1
      BY <2>1
    <2>5. Callers' /\ \A i \in 1 .. Len(stack') : ReportPlace(i)'
      BY <1>3, <2>1, <2>4 DEF Callers, ReportPlace
    <2> QED
      BY <2>3, <2>5 DEF Lands
  <1>4. ASSUME NEW f, NEW g, stack' = <<f, g>>, f.pc \notin Reporters, g.pc \notin Reporters,
               ~ReportFrame(f), ~ReportFrame(g)
        PROVE  Lands
    <2>1. Len(stack') = 2 /\ stack'[1] = f /\ stack'[2] = g /\ stack'[Len(stack')] = g /\ stack'[Len(stack') - 1] = f
      BY <1>4
    <2>2. ~(Told') /\ ~(Pending')
      BY <1>4, <2>1 DEF Told, Pending, Top, Reporters
    <2>3. Balance'
      BY <1>1, <2>2, SameBalance
    <2>4. \A i \in 1 .. Len(stack') : i = 1 \/ (i = 2 /\ i - 1 = 1)
      BY <2>1
    <2>5. Callers' /\ \A i \in 1 .. Len(stack') : ReportPlace(i)'
      BY <1>4, <2>1, <2>4 DEF Callers, ReportPlace
    <2> QED
      BY <2>3, <2>5 DEF Lands
  <1> QED
    BY <1>2, <1>3, <1>4

LEMMA UserMessageOverflowLands ==
  ASSUME CountContext, UserMessageOverflow
  PROVE  Lands
  <1>1. stack = <<>> /\ overflow_counter' = overflow_counter /\ overflow_counter \in Nat
    BY DEF UserMessageOverflow, Idle, daemonVars, CountContext, Typed, TypeOK
  <1>2. ~HandsOver /\ ~Told /\ ~Pending
    BY <1>1 DEF HandsOver, Told, Pending
  <1>3. PICK f, g : f = Then("userOverflow") /\ g = Send(Overflow(1, done.reports + 1), FALSE)
    OBVIOUS
  <1>4. stack' = <<f, g>>
    BY <1>3 DEF UserMessageOverflow
  <1>5. f.pc = "userOverflow" /\ ~f.sent /\ f.msg.kind = "info"
    BY <1>3 DEF Then, Frame, Info
  <1>6. /\ g.pc = "send" /\ ~g.sent /\ ~g.force /\ g.idx = 1 /\ g.msg.kind = "overflow"
        /\ g.msg.n = done.reports + 1 /\ g.msg.lost = 1
    BY <1>3 DEF Send, Frame, Overflow
  <1>7. Len(stack') = 2 /\ stack'[1] = f /\ stack'[2] = g /\ stack'[Len(stack')] = g /\ stack'[Len(stack') - 1] = f
    BY <1>4
  <1>8. ~(Told') /\ Pending'
    <2>1. ~(Told')
      BY <1>5, <1>6, <1>7 DEF Told, Top
    <2>2. stack' # <<>> /\ Len(stack') # 1
      BY <1>4
    <2> QED
      BY <1>5, <1>6, <1>7, <2>1, <2>2 DEF Pending
  <1>9. Reports' = Reports
    BY <1>2, ReportsNow
  <1>10. /\ done'.discards = done.discards + 1 /\ done.discards \in Nat
         /\ done.reports \in Nat /\ done'.reports = done.reports + 1
    <2>1. PICK x : done' = [done EXCEPT !.overflows = x, !.reports = @ + 1, !.discards = @ + 1]
      BY DEF UserMessageOverflow
    <2>2. done \in History
      BY DEF CountContext, Typed
    <2> QED
      BY <2>1, <2>2 DEF History
  <1>11. Balance'
    <2>2. PICK l, n : l = Cardinality(LossesIn(Reports)) /\ n = Cardinality(LossesIn(Reports'))
      OBVIOUS
    <2>3. l = n /\ l \in Nat
      BY <1>9, <2>2, ReportsNow
    <2>4. done.discards = l + overflow_counter
      BY <1>1, <1>2, <1>10, <2>2, <2>3 DEF CountContext, Balance
    <2>5. done'.discards + 0 = n + overflow_counter' + 1
      BY <1>1, <1>10, <2>3, <2>4
    <2> QED
      BY <1>8, <2>2, <2>5 DEF Balance
  <1>12. \A i \in 1 .. Len(stack') : i = 1 \/ (i = 2 /\ i - 1 = 1)
    BY <1>7
  <1>13. Callers'
    BY <1>5, <1>6, <1>7, <1>12 DEF Callers, ReportFrame, Reporters
  <1>14. g.msg \notin Reports'
    <2>1. \A m \in Reports : m.n <= done.reports
      BY DEF CountContext, Numbered
    <2>2. ~(g.msg.n <= done.reports)
      BY <1>6, <1>10
    <2> QED
      BY <1>9, <2>1, <2>2
  <1>15. ASSUME NEW i \in 1 .. Len(stack') PROVE ReportPlace(i)'
    <2>1. CASE i = 1
      BY <1>5, <1>7, <2>1 DEF ReportPlace, ReportFrame
    <2>2. CASE i = 2
      <3>1. stack'[i] = g /\ stack'[i - 1] = f /\ i = Len(stack')
        BY <1>7, <1>12, <2>2
      <3>2. g.msg.n <= done'.reports
        BY <1>6, <1>10
      <3> QED
        BY <1>5, <1>6, <1>14, <3>1, <3>2 DEF ReportPlace, ReportTop
    <2> QED
      BY <1>12, <2>1, <2>2
  <1> QED
    BY <1>11, <1>13, <1>15 DEF Lands

LEMMA AllLand ==
  ASSUME CountContext
  PROVE  Lands
  <1>1. Next
    BY DEF CountContext
  <1>2. CASE UNCHANGED <<daemonVars, stack, ret, delivered, offline, done>>
    <2>1. UNCHANGED <<state, ring, pfd, overflow_counter, stack, ret, delivered, done>>
      BY <1>2 DEF daemonVars
    <2>2. Callers' /\ Balance' /\ (\A i \in 1 .. Len(stack) : ReportPlace(i)')
      BY <2>1, AccountUnchanged DEF CountContext
    <2>3. Len(stack') = Len(stack)
      BY <2>1
    <2> QED
      BY <2>2, <2>3 DEF Lands
  <1>3. CASE stack # <<>>
    BY <1>1, <1>2, <1>3, Dispatch, ClientSendLands, SendAllMultipleLands, SendAllMultipleEndLands,
       StoreInRingLands, DiscardLands, ReportOverflowLands, OverflowReportedLands, CloseSocketLands,
       SendRingbufferLands, SendRingbufferNextLands, UserMessageOverflowEndLands, ClientConnectedLands,
       ClientAnnounceLands
  <1>4. CASE stack = <<>>
    <2>1. ~Step /\ ~Exited
      BY <1>4 DEF Step, Exited, At, Idle, ClientSend, SendAllMultiple, SendAllMultipleEnd, StoreInRing, Discard,
                  ReportOverflow, OverflowReported, CloseSocket, SendRingbuffer, SendRingbufferNext,
                  UserMessageOverflowEnd, ClientConnected, ClientAnnounce
    <2>2. CASE UserMessageOverflow
      BY <2>2, UserMessageOverflowLands
    <2>3. CASE ~UserMessageOverflow
      <3>1. CASE UserMessageLog
        <4>1. PICK f : f = Send(Log(done.logs + 1), FALSE)
          OBVIOUS
        <4>2. stack' = <<f>> /\ overflow_counter' = overflow_counter
          BY <3>1, <4>1 DEF UserMessageLog, daemonVars
        <4>3. f.pc \notin Reporters /\ ~ReportFrame(f)
          BY <4>1 DEF Send, Frame, Log, Reporters, ReportFrame
        <4> QED
          BY <1>4, <2>3, <4>2, <4>3, EventLands
      <3>2. CASE \E md \in Modes : UserMessageLogMode(md)
        <4>1. stack' = <<>> /\ overflow_counter' = overflow_counter
          BY <1>4, <3>2 DEF UserMessageLogMode
        <4> QED
          BY <1>4, <2>3, <4>1, EventLands
      <3>3. CASE ClientConnect \/ ClientConnectFails
        <4>1. PICK f, g : f = Then(IF ClientConnect THEN "connected" ELSE "exit") /\ g = Send(Info, FALSE)
          OBVIOUS
        <4>2. stack' = <<f, g>> /\ overflow_counter' = overflow_counter
          BY <3>3, <4>1 DEF ClientConnect, ClientConnectFails, daemonVars
        <4>3. f.pc \notin Reporters /\ ~ReportFrame(f) /\ g.pc \notin Reporters /\ ~ReportFrame(g)
          BY <4>1 DEF Send, Then, Frame, Info, Reporters, ReportFrame
        <4> QED
          BY <1>4, <2>3, <4>2, <4>3, EventLands
      <3>4. ASSUME NEW c \in Conn, ClientMessages(c) PROVE Lands
        <4>1. PICK f : f = Close(c)
          OBVIOUS
        <4>2. stack' = <<f>> /\ overflow_counter' = overflow_counter
          BY <3>4, <4>1 DEF ClientMessages, daemonVars
        <4>3. f.pc \notin Reporters /\ ~ReportFrame(f)
          BY <4>1 DEF Close, Frame, Info, Reporters, ReportFrame
        <4> QED
          BY <1>4, <2>3, <4>2, <4>3, EventLands
      <3>5. CASE OneSTimer
        <4>1. PICK f : f = Drain
          OBVIOUS
        <4>2. (stack' = <<f>> \/ stack' = <<>>) /\ overflow_counter' = overflow_counter
          BY <3>5, <4>1 DEF OneSTimer, daemonVars
        <4>3. f.pc \notin Reporters /\ ~ReportFrame(f)
          BY <4>1 DEF Drain, Frame, Info, Reporters, ReportFrame
        <4> QED
          BY <1>4, <2>3, <4>2, <4>3, EventLands
      <3>6. ASSUME NEW c \in Conn, ClientBreaks(c) PROVE Lands
        <4>1. stack' = <<>> /\ overflow_counter' = overflow_counter
          BY <1>4, <3>6 DEF ClientBreaks, daemonVars
        <4> QED
          BY <1>4, <2>3, <4>1, EventLands
      <3> QED
        BY <1>1, <2>1, <2>3, <3>1, <3>2, <3>3, <3>4, <3>5, <3>6 DEF Next, Event
    <2> QED
      BY <2>2, <2>3
  <1> QED
    BY <1>3, <1>4

LEMMA CountedStep ==
  ASSUME RingMin >= 2, DaemonInv, DaemonInv', LossInv, Counted, Next
  PROVE  Counted'
  <1> SUFFICES ASSUME External', done'.peak <= 1
               PROVE  /\ IsFiniteSet(LossesIn(Reports')) /\ Numbered'
                      /\ Callers'
                      /\ \A i \in 1 .. Len(stack') : ReportPlace(i)'
                      /\ Balance'
    BY DEF Counted
  <1>1. Typed /\ Typed' /\ Shape /\ Reporting /\ Reporting' /\ Holding /\ Direct /\ Forced /\ Table
    BY DEF DaemonInv, CallInv, OrderInv
  <1>2. done'.modes = 0 /\ Routed'
    BY DEF External
  <1>3. done.modes = 0 /\ mode' = mode
    BY <1>1, <1>2, ModeKept
  <1>4. External /\ Routed
    BY <1>2, <1>3 DEF External, Routed
  <1>5. done.peak <= 1 /\ Len(pfd) <= 1 /\ (pfd # <<>> => Len(pfd) = 1)
    BY <1>1, PeakGrows
  <1>6. Outside /\ Inside /\ HeadDelivered
    BY <1>4, <1>5 DEF LossInv, StateInv, Lossless
  <1>7. CountContext
    BY <1>1, <1>4, <1>5, <1>6 DEF CountContext, Counted
  <1>8. Lands
    BY <1>7, AllLand
  <1>9. Callers' /\ Balance'
    BY <1>8 DEF Lands
  <1>10. ASSUME NEW i \in 1 .. Len(stack') PROVE ReportPlace(i)'
    <2>1. CASE i >= Len(stack)
      BY <1>8, <2>1 DEF Lands
    <2>2. CASE ~(i >= Len(stack))
      <3>1. stack \in Seq(FrameType) /\ i \in Nat /\ i >= 1 /\ Len(stack) \in Nat
        BY <1>1 DEF Typed, TypeOK
      <3>2. i \in 1 .. Len(stack) - 1 /\ stack # <<>>
        BY <2>2, <3>1
      <3> QED
        BY <1>7, <3>2, LowerPlaces
    <2> QED
      BY <2>1, <2>2
  <1>11. IsFiniteSet(LossesIn(Reports')) /\ Numbered'
    <2>1. \A m \in Reports : m.n <= done.reports
      BY <1>7 DEF CountContext, Numbered
    <2>2. \A m \in Reports : m.n \in Nat
      <3> SUFFICES ASSUME NEW m \in Reports PROVE m.n \in Nat
        OBVIOUS
      <3>1. InRing(m) \/ Delivered(m)
        BY <1>1, ReportsAre DEF Typed, TypeOK
      <3>2. m \in Message
        BY <1>1, <3>1 DEF InRing, Delivered, Typed, TypeOK
      <3> QED
        BY <3>2 DEF Message
    <2>3. done.reports \in Nat /\ done'.reports \in Nat /\ done'.reports >= done.reports
      BY <1>1, HistoryCounts
    <2>4. \A m \in Reports : m.n <= done'.reports
      BY <2>1, <2>2, <2>3
    <2>5. CASE HandsOver
      <3>1. stack # <<>> /\ ReportFrame(Top)
        BY <2>5 DEF HandsOver
      <3>2. Top \in FrameType /\ Top = stack[Len(stack)] /\ ReportPlace(Len(stack))
        BY <1>1, <1>7, <3>1, TopIs, TopReport
      <3>3. Top.msg.n <= done.reports /\ Top.msg.n \in Nat
        BY <3>1, <3>2 DEF ReportPlace, FrameType, Message
      <3>4. Top.msg.n <= done'.reports
        BY <2>3, <3>3
      <3>5. PICK m : m = Top.msg
        OBVIOUS
      <3>6. Reports' = Reports \union {m} /\ m.lost \in Nat /\ m.n <= done'.reports
        BY <1>7, <2>5, <3>4, <3>5, ReportsNow
      <3>7. IsFiniteSet(LossesIn(Reports))
        BY <1>7 DEF CountContext
      <3>8. IsFiniteSet(LossesIn(Reports \union {m}))
        <4>1. CASE m \in Reports
          <5>1. Reports \union {m} = Reports
            BY <4>1
          <5> QED
            BY <3>7, <5>1
        <4>2. CASE m \notin Reports
          BY <3>6, <3>7, <4>2, LossesGrow
        <4> QED
          BY <4>1, <4>2
      <3> QED
        BY <2>4, <3>6, <3>8 DEF Numbered
    <2>6. CASE ~HandsOver
      <3>1. Reports' = Reports
        BY <1>7, <2>6, ReportsNow
      <3>2. IsFiniteSet(LossesIn(Reports))
        BY <1>7 DEF CountContext
      <3> QED
        BY <2>4, <3>1, <3>2 DEF Numbered
    <2> QED
      BY <2>5, <2>6
  <1> QED
    BY <1>9, <1>10, <1>11

LEMMA StutterCounted ==
  ASSUME Counted, UNCHANGED vars
  PROVE  Counted'
  <1>1. UNCHANGED <<state, ring, pfd, overflow_counter, stack, ret, delivered, done, mode>>
    BY DEF vars, daemonVars
  <1>2. External' <=> External
    BY <1>1 DEF External, Routed
  <1>3. /\ Reports' = Reports /\ (Numbered' <=> Numbered) /\ (Callers' <=> Callers) /\ (Balance' <=> Balance)
        /\ \A i \in 1 .. Len(stack) : ReportPlace(i)' <=> ReportPlace(i)
    BY <1>1, AccountUnchanged
  <1>4. LossesIn(Reports') = LossesIn(Reports) /\ Len(stack') = Len(stack) /\ done'.peak = done.peak
    BY <1>1, <1>3
  <1> QED
    BY <1>2, <1>3, <1>4 DEF Counted

LEMMA InitCounted ==
  ASSUME Init
  PROVE  Counted
  <1>1. ring = <<>> /\ (\A c \in Conn : delivered[c] = <<>>) /\ stack = <<>> /\ done.discards = 0 /\ overflow_counter = 0
    BY DEF Init
  <1>2. Reports = {}
    <2>1. \A m : ~InRing(m) /\ ~Delivered(m)
      BY <1>1 DEF InRing, Delivered
    <2>2. ring \in Seq(Message) /\ delivered \in [Conn -> Seq(Message)]
      BY DEF Init
    <2>3. \A m : m \notin Reports
      BY <2>1, <2>2, ReportsAre
    <2> QED
      BY <2>3
  <1>3. LossesIn(Reports) = {}
    BY <1>2 DEF LossesIn
  <1>4. IsFiniteSet(LossesIn(Reports)) /\ Cardinality(LossesIn(Reports)) = 0
    BY <1>3, FS_EmptySet
  <1>5. ~Told /\ ~Pending /\ 1 .. Len(stack) = {}
    BY <1>1 DEF Told, Pending
  <1>6. Balance
    <2>1. PICK l : l = Cardinality(LossesIn(Reports))
      OBVIOUS
    <2>2. l = 0
      BY <1>4, <2>1
    <2> QED
      BY <1>1, <1>5, <2>1, <2>2 DEF Balance
  <1> QED
    BY <1>2, <1>4, <1>5, <1>6 DEF Counted, Numbered, Callers

LEMMA CountedKept ==
  ASSUME RingMin >= 2, DaemonInv, LossInv, Counted, [Next]_vars
  PROVE  Counted'
  BY DaemonStep, CountedStep, StutterCounted

\* Every message the daemon or an application lost is accounted for once: with external logging
\* and one client at a time, the losses are those that the reports on the sockets and in the ring
\* tell of and those that overflow_counter still counts, although the report is sent by nested
\* calls of dlt_daemon_client_send, may break the client it is sent to, be stored or be discarded
\* itself, and the counter is reset only after it (dlt_daemon_client_send,
\* dlt_daemon_process_user_message_overflow).
THEOREM LossesAreCounted ==
  ASSUME RingMin >= 2
  PROVE  Spec => []LossCounted
  <1>1. Init => DaemonInv /\ LossInv /\ Counted
    BY InitCall, InitOrder, InitLoss, InitCounted DEF DaemonInv
  <1>2. (DaemonInv /\ LossInv /\ Counted) /\ [Next]_vars => (DaemonInv /\ LossInv /\ Counted)'
    BY DaemonStep, LossStep, CountedKept
  <1>3. DaemonInv /\ LossInv /\ Counted => LossCounted
    <2> SUFFICES ASSUME DaemonInv, Counted, Idle, External, done.peak <= 1
                 PROVE  done.discards = Cardinality(LossesIn(Reports)) + overflow_counter
      BY DEF LossCounted
    <2>1. ~Told /\ ~Pending
      BY DEF Told, Pending, Idle
    <2>2. IsFiniteSet(LossesIn(Reports)) /\ Balance
      BY DEF Counted
    <2>3. done.discards \in Nat /\ overflow_counter \in Nat
      BY DEF DaemonInv, CallInv, Typed, TypeOK, History
    <2>4. PICK l : l = Cardinality(LossesIn(Reports))
      OBVIOUS
    <2>5. l \in Nat
      BY <2>2, <2>4, FS_CardinalityType
    <2>6. done.discards + 0 = l + overflow_counter + 0
      BY <2>1, <2>2, <2>4 DEF Balance
    <2>7. done.discards = l + overflow_counter
      BY <2>3, <2>5, <2>6
    <2> QED
      BY <2>4, <2>7
  <1> QED
    BY <1>1, <1>2, <1>3, PTL DEF Spec
================================================================================
