------------------------- MODULE DltNetworkTraceProofs -------------------------
(* TracesExact of DltNetworkTrace holds for all callers, sizes and histories.     *)
EXTENDS DltNetworkTrace, TLAPS

Message == [kind : {"trace", "truncated", "start", "segment", "end"}, trace : Nat, length : Int, count : Nat]
Trace == [header : Nat, payload : Nat, address : Nat, handle : Nat, spoiled : BOOLEAN,
          result : {"none", "ok", "error"}, ended : BOOLEAN]

Typed ==
  /\ netlimit \in NetLimits
  /\ stream \in Seq(Message) /\ traces \in Seq(Trace) /\ queue \in Seq(Nat)
  /\ \A i \in DOMAIN stream : stream[i].trace \in DOMAIN traces
  /\ \A q \in DOMAIN queue : queue[q] \in DOMAIN traces
  /\ callers \in [Callers -> [pc : {"idle", "enqueue"}, trace : Nat]]
  /\ \A c \in Callers : callers[c].pc = "enqueue" => callers[c].trace \in DOMAIN traces
  /\ worker \in [pc : {"idle", "segment", "end"}, trace : Nat, offset : Nat, sequence : Nat]
  /\ worker.pc # "idle" => worker.trace \in DOMAIN traces /\ worker.offset <= traces[worker.trace].payload

\* A trace that was announced waits in one place at most.
Waits(t) ==
  \/ \E c \in Callers : callers[c].pc = "enqueue" /\ callers[c].trace = t
  \/ \E q \in DOMAIN queue : queue[q] = t

Apart ==
  /\ \A c, d \in Callers :
       callers[c].pc = "enqueue" /\ callers[d].pc = "enqueue" /\ callers[c].trace = callers[d].trace => c = d
  /\ \A c \in Callers, q \in DOMAIN queue : callers[c].pc = "enqueue" => callers[c].trace # queue[q]
  /\ \A q, r \in DOMAIN queue : queue[q] = queue[r] => q = r
  /\ worker.pc # "idle" => ~Waits(worker.trace)

Starts(s, t) ==
  /\ stream[s].kind = "start" /\ stream[s].trace = t
  /\ stream[s].length = traces[t].payload /\ stream[s].count = SegmentCount(traces[t].payload)

\* Of a trace that waits, only the start was sent.
FreshTrace(t) ==
  /\ \A i \in DOMAIN stream : stream[i].trace = t => stream[i].kind = "start"
  /\ ~traces[t].spoiled => \E s \in DOMAIN stream : Starts(s, t)

Fresh == \A t \in DOMAIN traces : Waits(t) => FreshTrace(t)

IsSegment(j, t) == stream[j].kind = "segment" /\ stream[j].trace = t

\* The segments of the trace that message s starts are before message e, and are the announced ones.
PutTogether(s, e) ==
  LET t == stream[s].trace
      n == stream[s].count
  IN  /\ \A j \in DOMAIN stream : IsSegment(j, t) =>
           /\ s < j /\ j < e /\ stream[j].count \in 0 .. n - 1 /\ stream[j].length \in 1 .. SegmentSize
           /\ stream[j].length =
                IF stream[j].count = n - 1 THEN stream[s].length - (n - 1) * SegmentSize ELSE SegmentSize
      /\ \A k \in 0 .. n - 1 : \E j \in DOMAIN stream : IsSegment(j, t) /\ stream[j].count = k
      /\ \A i, j \in DOMAIN stream :
           IsSegment(i, t) /\ IsSegment(j, t) /\ i < j => stream[i].count < stream[j].count

\* EndsComplete, for one who knows which trace a message belongs to.
EndsWhole ==
  \A e \in DOMAIN stream :
    LET trace == traces[stream[e].trace] IN
    stream[e].kind = "end" /\ ~trace.spoiled /\ trace.address + trace.payload < AddressSpace =>
      \E s \in 1 .. e - 1 :
        /\ stream[s].kind = "start" /\ stream[s].trace = stream[e].trace /\ stream[s].length = trace.payload
        /\ PutTogether(s, e)

\* Behind a segment of the trace there is no segment of another one.
Clean(t) ==
  \A i, j \in DOMAIN stream :
    i < j /\ IsSegment(i, t) /\ stream[j].kind = "segment" => stream[j].trace = t

Whole(t) == traces[t].address + traces[t].payload < AddressSpace

\* Segment number k of a trace, which message s started.
Piece(s, j, t) ==
  LET n == SegmentCount(traces[t].payload) IN
  /\ s < j /\ stream[j].count \in 0 .. n - 1 /\ stream[j].length \in 1 .. SegmentSize
  /\ stream[j].length =
       IF stream[j].count = n - 1 THEN traces[t].payload - (n - 1) * SegmentSize ELSE SegmentSize

\* The first n segments of a trace were sent.
Partial(s, t, n) ==
  /\ \A j \in DOMAIN stream : IsSegment(j, t) => Piece(s, j, t) /\ stream[j].count < n
  /\ \A k \in 0 .. n - 1 : \E j \in DOMAIN stream : IsSegment(j, t) /\ stream[j].count = k
  /\ \A i, j \in DOMAIN stream :
       IsSegment(i, t) /\ IsSegment(j, t) /\ i < j => stream[i].count < stream[j].count

\* The thread has sent what its offset and its sequence number say; a trace of the full size of its
\* segments is complete when the offset is at the end of the payload.
WorkTrace(t, pc, offset, sequence) ==
  LET p == traces[t].payload IN
  /\ Clean(t)
  /\ \A i \in DOMAIN stream : stream[i].trace = t => stream[i].kind # "end"
  /\ ~traces[t].spoiled /\ Whole(t) =>
       /\ \E s \in DOMAIN stream : Starts(s, t) /\ Partial(s, t, sequence)
       /\ \/ offset = sequence * SegmentSize /\ offset < p /\ pc = "segment"
          \/ offset = p /\ sequence = SegmentCount(p)

Working == worker.pc # "idle" => WorkTrace(worker.trace, worker.pc, worker.offset, worker.sequence)

NetInv == Typed /\ Apart /\ Fresh /\ Working /\ EndsWhole /\ TruncatedFills /\ NotMixed

--------------------------------------------------------------------------------
(* Segments *)

\* The announced number of segments (SegmentCount) is the number that covers the payload.
LEMMA SegmentsCover ==
  ASSUME NEW p \in Nat
  PROVE  /\ SegmentCount(p) \in Nat
         /\ p = 0 => SegmentCount(p) = 0
         /\ p > 0 => /\ SegmentCount(p) >= 1 /\ (SegmentCount(p) - 1) * SegmentSize < p
                     /\ p <= SegmentCount(p) * SegmentSize
  <1> DEFINE q == p \div SegmentSize
             r == p % SegmentSize
  <1>1. SegmentSize \in Nat \ {0}
    BY NetAssumption
  <1>2. q \in Nat /\ r \in Nat /\ r < SegmentSize /\ p = SegmentSize * q + r
    BY <1>1
  <1>3. SegmentCount(p) = IF r = 0 THEN q ELSE q + 1
    BY DEF SegmentCount
  <1> HIDE DEF q, r
  <1>4. SegmentSize * q = q * SegmentSize
    BY <1>1, <1>2
  <1>5. (q + 1) * SegmentSize = q * SegmentSize + SegmentSize /\ (q - 1) * SegmentSize = q * SegmentSize - SegmentSize
    BY <1>1, <1>2
  <1>6. q = 0 => q * SegmentSize = 0
    BY <1>1
  <1>7. q >= 1 => q * SegmentSize >= SegmentSize
    BY <1>1, <1>2
  <1>8. CASE r = 0
    BY <1>1, <1>2, <1>3, <1>4, <1>5, <1>6, <1>7, <1>8
  <1>9. CASE r # 0
    <2>1. SegmentCount(p) = q + 1 /\ SegmentCount(p) - 1 = q /\ p > 0
      BY <1>1, <1>2, <1>3, <1>4, <1>9, <1>6, <1>7
    <2> QED
      BY <1>1, <1>2, <1>4, <1>5, <1>9, <2>1
  <1> QED
    BY <1>8, <1>9

\* The step of the segmenter's loop: which bytes segment q has, and whether it is the last one.
LEMMA SegmentIs ==
  ASSUME NEW p \in Nat, NEW q \in Nat, q * SegmentSize < p
  PROVE  LET n == SegmentCount(p)
             offset == q * SegmentSize
             len == IF offset + SegmentSize > p THEN p - offset ELSE SegmentSize
         IN  /\ n \in Nat /\ q \in 0 .. n - 1 /\ len \in 1 .. SegmentSize
             /\ len = IF q = n - 1 THEN p - (n - 1) * SegmentSize ELSE SegmentSize
             /\ q = n - 1 => offset + len = p
             /\ q # n - 1 => offset + len = (q + 1) * SegmentSize /\ (q + 1) * SegmentSize < p
  <1> DEFINE n == SegmentCount(p)
             S == SegmentSize
  <1>1. S \in Nat \ {0}
    BY NetAssumption
  <1>2. q * S \in Nat /\ (q + 1) * S = q * S + S
    BY <1>1
  <1>3. p > 0
    BY <1>2
  <1>4. n \in Nat /\ n >= 1 /\ (n - 1) * S < p /\ p <= n * S
    BY <1>3, SegmentsCover
  <1> HIDE DEF n
  <1>5. n * S = (n - 1) * S + S /\ (n - 1) * S \in Nat
    BY <1>1, <1>4
  <1>6. q < n
    <2>1. q >= n => q * S >= n * S
      BY <1>1, <1>4
    <2> QED
      BY <1>1, <1>2, <1>4, <1>5, <2>1
  <1>7. CASE q = n - 1
    <2>1. q * S = (n - 1) * S
      BY <1>7
    <2> QED
      BY <1>1, <1>2, <1>4, <1>5, <1>7, <2>1 DEF n
  <1>8. CASE q # n - 1
    <2>1. (q + 1) * S <= (n - 1) * S
      <3>1. q + 1 <= n - 1
        BY <1>4, <1>6, <1>8
      <3> QED
        BY <1>1, <1>4, <3>1
    <2>2. (q + 1) * S < p /\ ~(q * S + S > p)
      BY <1>1, <1>2, <1>4, <1>5, <2>1
    <2> QED
      BY <1>1, <1>2, <1>4, <1>6, <1>8, <2>2 DEF n
  <1> QED
    BY <1>7, <1>8

LEMMA ModBelow ==
  ASSUME NEW x \in Nat, NEW m \in Nat, x < m
  PROVE  x % m = x
  <1> DEFINE q == x \div m
             r == x % m
  <1>1. q \in Nat /\ r \in Nat /\ r < m /\ x = m * q + r
    OBVIOUS
  <1> HIDE DEF q, r
  <1>2. q >= 1 => m * q >= m
    BY <1>1
  <1>3. q = 0 => m * q = 0
    OBVIOUS
  <1>4. r = x
    BY <1>1, <1>2, <1>3
  <1> QED
    BY <1>4 DEF r

--------------------------------------------------------------------------------
(* What is said of the stream, when a message is added and when none is. *)

\* A step changes nothing of the traces that there are but their outcome; what is spoiled stays so.
TracesStay ==
  /\ Len(traces) <= Len(traces')
  /\ \A t \in 1 .. Len(traces) :
       /\ traces'[t].header = traces[t].header /\ traces'[t].payload = traces[t].payload
       /\ traces'[t].address = traces[t].address
       /\ traces[t].spoiled => traces'[t].spoiled

Adds(m) == m \in Message /\ stream' = Append(stream, m)

Quiet(m) == stream' = stream \/ Adds(m)

LEMMA Added ==
  ASSUME Typed, NEW m, Adds(m)
  PROVE  /\ Len(stream) \in Nat /\ Len(stream') = Len(stream) + 1 /\ stream' \in Seq(Message)
         /\ stream'[Len(stream) + 1] = m
         /\ \A i \in 1 .. Len(stream) : stream'[i] = stream[i]
         /\ DOMAIN stream = 1 .. Len(stream) /\ DOMAIN stream' = 1 .. Len(stream) + 1
  BY DEF Typed, Adds

LEMMA SameStream ==
  ASSUME Typed, TracesStay, stream' = stream, EndsWhole, TruncatedFills, NotMixed
  PROVE  EndsWhole' /\ TruncatedFills' /\ NotMixed'
  <1>1. \A i \in DOMAIN stream : stream[i].trace \in 1 .. Len(traces)
    BY DEF Typed
  <1>2. TruncatedFills'
    <2> SUFFICES ASSUME NEW i \in DOMAIN stream, stream[i].kind = "truncated"
                 PROVE  StringSize + RawSize(traces'[stream[i].trace].header) + Uint32Size + RawSize(stream[i].length) = LogBufLen
      BY DEF TruncatedFills
    <2>1. traces'[stream[i].trace].header = traces[stream[i].trace].header
      BY <1>1 DEF TracesStay
    <2> QED
      BY <2>1 DEF TruncatedFills
  <1>3. NotMixed'
    BY DEF NotMixed
  <1>4. EndsWhole'
    <2> SUFFICES ASSUME NEW e \in DOMAIN stream, stream[e].kind = "end",
                        ~traces'[stream[e].trace].spoiled,
                        traces'[stream[e].trace].address + traces'[stream[e].trace].payload < AddressSpace
                 PROVE  \E s \in 1 .. e - 1 :
                          /\ stream[s].kind = "start" /\ stream[s].trace = stream[e].trace
                          /\ stream[s].length = traces'[stream[e].trace].payload
                          /\ PutTogether(s, e)'
      BY DEF EndsWhole
    <2> DEFINE t == stream[e].trace
    <2>1. /\ traces'[t].payload = traces[t].payload /\ traces'[t].address = traces[t].address
          /\ ~traces[t].spoiled
      BY <1>1 DEF TracesStay
    <2>2. PICK s \in 1 .. e - 1 :
            /\ stream[s].kind = "start" /\ stream[s].trace = t /\ stream[s].length = traces[t].payload
            /\ PutTogether(s, e)
      BY <2>1 DEF EndsWhole
    <2>3. PutTogether(s, e)'
      BY <2>2 DEF PutTogether, IsSegment
    <2> QED
      BY <2>1, <2>2, <2>3
  <1> QED
    BY <1>2, <1>3, <1>4

LEMMA AddedTruncated ==
  ASSUME Typed, TracesStay, NEW m, Adds(m), TruncatedFills,
         m.kind = "truncated" =>
           StringSize + RawSize(traces'[m.trace].header) + Uint32Size + RawSize(m.length) = LogBufLen
  PROVE  TruncatedFills'
  <1>1. \A i \in DOMAIN stream : stream[i].trace \in 1 .. Len(traces)
    BY DEF Typed
  <1> SUFFICES ASSUME NEW i \in DOMAIN stream', stream'[i].kind = "truncated"
               PROVE  StringSize + RawSize(traces'[stream'[i].trace].header) + Uint32Size + RawSize(stream'[i].length) = LogBufLen
    BY DEF TruncatedFills
  <1>2. CASE i = Len(stream) + 1
    BY <1>2, Added
  <1>3. CASE i # Len(stream) + 1
    <2>1. i \in DOMAIN stream /\ stream'[i] = stream[i]
      BY <1>3, Added
    <2>2. traces'[stream[i].trace].header = traces[stream[i].trace].header
      BY <1>1, <2>1 DEF TracesStay
    <2> QED
      BY <2>1, <2>2 DEF TruncatedFills
  <1> QED
    BY <1>2, <1>3

LEMMA AddedNotMixed ==
  ASSUME Typed, NEW m, Adds(m), NotMixed, Clean(m.trace)
  PROVE  NotMixed'
  <1> SUFFICES ASSUME NEW i \in DOMAIN stream', NEW j \in DOMAIN stream', NEW k \in DOMAIN stream', i < j, j < k,
                      stream'[i].kind = "segment", stream'[j].kind = "segment",
                      stream'[k].trace = stream'[i].trace
               PROVE  stream'[j].trace = stream'[i].trace
    BY DEF NotMixed
  <1>1. i \in DOMAIN stream /\ j \in DOMAIN stream /\ stream'[i] = stream[i] /\ stream'[j] = stream[j]
    BY Added
  <1>2. CASE k = Len(stream) + 1
    BY <1>1, <1>2, Added DEF Clean, IsSegment
  <1>3. CASE k # Len(stream) + 1
    BY <1>1, <1>3, Added DEF NotMixed
  <1> QED
    BY <1>2, <1>3

\* An end in the stream stays complete when another message follows: it is no segment of that trace.
LEMMA AddedReassembled ==
  ASSUME Typed, NEW m, Adds(m), NEW e \in DOMAIN stream, NEW s \in 1 .. e - 1, PutTogether(s, e),
         ~(m.kind = "segment" /\ m.trace = stream[s].trace)
  PROVE  PutTogether(s, e)'
  <1>0. PICK t, n : t = stream[s].trace /\ n = stream[s].count
    OBVIOUS
  <1>1. s \in DOMAIN stream /\ stream'[s] = stream[s]
    BY Added
  <1>2. \A j \in DOMAIN stream' : IsSegment(j, t)' => j \in DOMAIN stream /\ stream'[j] = stream[j] /\ IsSegment(j, t)
    BY <1>0, <1>1, Added DEF IsSegment
  <1>3. \A j \in DOMAIN stream : j \in DOMAIN stream' /\ stream'[j] = stream[j] /\ (IsSegment(j, t) => IsSegment(j, t)')
    BY Added DEF IsSegment
  <1>4. /\ \A j \in DOMAIN stream : IsSegment(j, t) =>
             /\ s < j /\ j < e /\ stream[j].count \in 0 .. n - 1 /\ stream[j].length \in 1 .. SegmentSize
             /\ stream[j].length =
                  IF stream[j].count = n - 1 THEN stream[s].length - (n - 1) * SegmentSize ELSE SegmentSize
        /\ \A k \in 0 .. n - 1 : \E j \in DOMAIN stream : IsSegment(j, t) /\ stream[j].count = k
        /\ \A i, j \in DOMAIN stream :
             IsSegment(i, t) /\ IsSegment(j, t) /\ i < j => stream[i].count < stream[j].count
    BY <1>0 DEF PutTogether
  <1>5. /\ \A j \in DOMAIN stream' : IsSegment(j, t)' =>
             /\ s < j /\ j < e /\ stream'[j].count \in 0 .. n - 1 /\ stream'[j].length \in 1 .. SegmentSize
             /\ stream'[j].length =
                  IF stream'[j].count = n - 1 THEN stream'[s].length - (n - 1) * SegmentSize ELSE SegmentSize
        /\ \A k \in 0 .. n - 1 : \E j \in DOMAIN stream' : IsSegment(j, t)' /\ stream'[j].count = k
        /\ \A i, j \in DOMAIN stream' :
             IsSegment(i, t)' /\ IsSegment(j, t)' /\ i < j => stream'[i].count < stream'[j].count
    <2>1. \A j \in DOMAIN stream' : IsSegment(j, t)' =>
             /\ s < j /\ j < e /\ stream'[j].count \in 0 .. n - 1 /\ stream'[j].length \in 1 .. SegmentSize
             /\ stream'[j].length =
                  IF stream'[j].count = n - 1 THEN stream'[s].length - (n - 1) * SegmentSize ELSE SegmentSize
      BY <1>1, <1>2, <1>4
    <2>2. \A k \in 0 .. n - 1 : \E j \in DOMAIN stream' : IsSegment(j, t)' /\ stream'[j].count = k
      BY <1>3, <1>4
    <2>3. \A i, j \in DOMAIN stream' :
             IsSegment(i, t)' /\ IsSegment(j, t)' /\ i < j => stream'[i].count < stream'[j].count
      BY <1>2, <1>4
    <2> QED
      BY <2>1, <2>2, <2>3
  <1>6. stream'[s].trace = t /\ stream'[s].count = n
    BY <1>0, <1>1
  <1> QED
    BY <1>5, <1>6 DEF PutTogether, IsSegment

\* The end that follows all segments closes the trace.
LEMMA EndReassembled ==
  ASSUME Typed, NEW m, Adds(m), m.kind = "end", NEW t \in DOMAIN traces, NEW s \in DOMAIN stream,
         Starts(s, t), Partial(s, t, SegmentCount(traces[t].payload)), NEW e, e = Len(stream) + 1
  PROVE  PutTogether(s, e)'
  <1>0. PICK n : n = SegmentCount(traces[t].payload)
    OBVIOUS
  <1>1. stream'[s] = stream[s] /\ stream[s].trace = t /\ stream[s].count = n /\ stream[s].length = traces[t].payload
    BY <1>0, Added DEF Starts
  <1>2. \A j \in DOMAIN stream' :
          IsSegment(j, t)' => j \in DOMAIN stream /\ j < e /\ stream'[j] = stream[j] /\ IsSegment(j, t)
    BY <1>0, Added DEF IsSegment
  <1>3. \A j \in DOMAIN stream : j \in DOMAIN stream' /\ stream'[j] = stream[j] /\ (IsSegment(j, t) => IsSegment(j, t)')
    BY Added DEF IsSegment
  <1>4. /\ \A j \in DOMAIN stream : IsSegment(j, t) =>
             /\ s < j /\ stream[j].count \in 0 .. n - 1 /\ stream[j].length \in 1 .. SegmentSize
             /\ stream[j].length =
                  IF stream[j].count = n - 1 THEN stream[s].length - (n - 1) * SegmentSize ELSE SegmentSize
        /\ \A k \in 0 .. n - 1 : \E j \in DOMAIN stream : IsSegment(j, t) /\ stream[j].count = k
        /\ \A i, j \in DOMAIN stream :
             IsSegment(i, t) /\ IsSegment(j, t) /\ i < j => stream[i].count < stream[j].count
    BY <1>0, <1>1 DEF Partial, Piece
  <1>5. \A j \in DOMAIN stream' : IsSegment(j, t)' =>
           /\ s < j /\ j < e /\ stream'[j].count \in 0 .. n - 1 /\ stream'[j].length \in 1 .. SegmentSize
           /\ stream'[j].length =
                IF stream'[j].count = n - 1 THEN stream'[s].length - (n - 1) * SegmentSize ELSE SegmentSize
    BY <1>1, <1>2, <1>4
  <1>6. \A k \in 0 .. n - 1 : \E j \in DOMAIN stream' : IsSegment(j, t)' /\ stream'[j].count = k
    BY <1>3, <1>4
  <1>7. \A i, j \in DOMAIN stream' :
           IsSegment(i, t)' /\ IsSegment(j, t)' /\ i < j => stream'[i].count < stream'[j].count
    BY <1>2, <1>4
  <1>8. stream'[s].trace = t /\ stream'[s].count = n
    BY <1>1
  <1> QED
    BY <1>5, <1>6, <1>7, <1>8 DEF PutTogether, IsSegment

LEMMA AddedEnds ==
  ASSUME Typed, TracesStay, NEW m, Adds(m), EndsWhole,
         m.kind = "segment" => \A i \in DOMAIN stream : stream[i].trace = m.trace => stream[i].kind # "end",
         m.kind = "end" => m.trace \in DOMAIN traces,
         m.kind = "end" /\ ~traces'[m.trace].spoiled /\ Whole(m.trace) =>
           \E s \in DOMAIN stream : Starts(s, m.trace) /\ Partial(s, m.trace, SegmentCount(traces[m.trace].payload))
  PROVE  EndsWhole'
  <1>1. \A i \in DOMAIN stream : stream[i].trace \in 1 .. Len(traces)
    BY DEF Typed
  <1> SUFFICES ASSUME NEW e \in DOMAIN stream', stream'[e].kind = "end",
                      ~traces'[stream'[e].trace].spoiled,
                      traces'[stream'[e].trace].address + traces'[stream'[e].trace].payload < AddressSpace
               PROVE  \E s \in 1 .. e - 1 :
                        /\ stream'[s].kind = "start" /\ stream'[s].trace = stream'[e].trace
                        /\ stream'[s].length = traces'[stream'[e].trace].payload
                        /\ PutTogether(s, e)'
    BY DEF EndsWhole
  <1>2. PICK t : t = stream'[e].trace
    OBVIOUS
  <1>3. t \in 1 .. Len(traces)
    <2>1. CASE e = Len(stream) + 1
      <3>1. stream'[e] = m
        BY <2>1, Added
      <3>2. m.trace \in DOMAIN traces
        BY <3>1
      <3> QED
        BY <1>2, <3>1, <3>2 DEF Typed
    <2>2. CASE e # Len(stream) + 1
      BY <1>1, <1>2, <2>2, Added
    <2> QED
      BY <2>1, <2>2
  <1>4. traces'[t].payload = traces[t].payload /\ traces'[t].address = traces[t].address /\ ~traces[t].spoiled
    BY <1>2, <1>3 DEF TracesStay
  <1>5. CASE e = Len(stream) + 1
    <2>1. stream'[e] = m /\ m.kind = "end" /\ m.trace = t
      BY <1>2, <1>5, Added
    <2>2. PICK s \in DOMAIN stream : Starts(s, t) /\ Partial(s, t, SegmentCount(traces[t].payload))
      BY <1>2, <1>4, <2>1 DEF Whole
    <2>3. PutTogether(s, e)'
      <3>1. t \in DOMAIN traces
        BY <2>1
      <3> QED
        BY <1>5, <2>1, <2>2, <3>1, EndReassembled
    <2>4. s \in 1 .. e - 1 /\ stream'[s] = stream[s]
      BY <1>5, Added
    <2> QED
      BY <1>2, <1>4, <2>2, <2>3, <2>4 DEF Starts
  <1>6. CASE e # Len(stream) + 1
    <2>1. e \in DOMAIN stream /\ stream'[e] = stream[e]
      BY <1>6, Added
    <2>2. PICK s \in 1 .. e - 1 :
            /\ stream[s].kind = "start" /\ stream[s].trace = t /\ stream[s].length = traces[t].payload
            /\ PutTogether(s, e)
      BY <1>2, <1>4, <2>1 DEF EndsWhole
    <2>3. ~(m.kind = "segment" /\ m.trace = stream[s].trace)
      BY <1>2, <2>1, <2>2
    <2>4. PutTogether(s, e)'
      BY <2>1, <2>2, <2>3, AddedReassembled
    <2>5. stream'[s] = stream[s]
      BY <2>1, Added
    <2> QED
      BY <1>2, <1>4, <2>2, <2>4, <2>5
  <1> QED
    BY <1>5, <1>6

--------------------------------------------------------------------------------
(* Traces that wait, and the one the thread works on. *)

LEMMA FreshStays ==
  ASSUME Typed, TracesStay, NEW m, NEW t \in DOMAIN traces, FreshTrace(t),
         stream' = stream \/ (Adds(m) /\ m.trace # t)
  PROVE  FreshTrace(t)'
  <1>1. \A i \in DOMAIN stream : i \in DOMAIN stream' /\ stream'[i] = stream[i]
    BY Added
  <1>2. \A i \in DOMAIN stream' : stream'[i].trace = t => i \in DOMAIN stream /\ stream'[i] = stream[i]
    BY Added
  <1>3. traces'[t].payload = traces[t].payload /\ (traces[t].spoiled => traces'[t].spoiled)
    <2>1. t \in 1 .. Len(traces)
      BY DEF Typed
    <2> QED
      BY <2>1 DEF TracesStay
  <1>4. ASSUME NEW s \in DOMAIN stream, Starts(s, t) PROVE Starts(s, t)'
    BY <1>1, <1>3, <1>4 DEF Starts
  <1>5. \A i \in DOMAIN stream' : stream'[i].trace = t => stream'[i].kind = "start"
    BY <1>2 DEF FreshTrace
  <1>6. ~traces'[t].spoiled => \E s \in DOMAIN stream' : Starts(s, t)'
    BY <1>1, <1>3, <1>4 DEF FreshTrace
  <1> QED
    BY <1>5, <1>6 DEF FreshTrace

LEMMA WorkStays ==
  ASSUME Typed, TracesStay, NEW m, NEW t \in DOMAIN traces, NEW pc, NEW offset, NEW n, WorkTrace(t, pc, offset, n),
         stream' = stream \/ (Adds(m) /\ m.trace # t /\ m.kind # "segment")
  PROVE  WorkTrace(t, pc, offset, n)'
  <1>1. \A i \in DOMAIN stream : i \in DOMAIN stream' /\ stream'[i] = stream[i]
    BY Added
  <1>2. \A i \in DOMAIN stream' : stream'[i].trace = t \/ stream'[i].kind = "segment" =>
          i \in DOMAIN stream /\ stream'[i] = stream[i]
    BY Added
  <1>3. /\ traces'[t].payload = traces[t].payload /\ traces'[t].address = traces[t].address
        /\ traces[t].spoiled => traces'[t].spoiled
    <2>1. t \in 1 .. Len(traces)
      BY DEF Typed
    <2> QED
      BY <2>1 DEF TracesStay
  <1>4. Clean(t)'
    BY <1>2 DEF WorkTrace, Clean, IsSegment
  <1>5. \A i \in DOMAIN stream' : stream'[i].trace = t => stream'[i].kind # "end"
    BY <1>2 DEF WorkTrace
  <1>6. ASSUME ~traces'[t].spoiled, Whole(t)'
        PROVE  /\ \E s \in DOMAIN stream' : Starts(s, t)' /\ Partial(s, t, n)'
               /\ \/ offset = n * SegmentSize /\ offset < traces'[t].payload /\ pc = "segment"
                  \/ offset = traces'[t].payload /\ n = SegmentCount(traces'[t].payload)
    <2>1. ~traces[t].spoiled /\ Whole(t)
      BY <1>3, <1>6 DEF Whole
    <2>2. PICK s \in DOMAIN stream : Starts(s, t) /\ Partial(s, t, n)
      BY <2>1 DEF WorkTrace
    <2>3. Starts(s, t)'
      BY <1>1, <1>3, <2>2 DEF Starts
    <2>4. \A j \in DOMAIN stream' : IsSegment(j, t)' => j \in DOMAIN stream /\ stream'[j] = stream[j] /\ IsSegment(j, t)
      BY <1>2 DEF IsSegment
    <2>5. \A j \in DOMAIN stream : IsSegment(j, t) => j \in DOMAIN stream' /\ stream'[j] = stream[j] /\ IsSegment(j, t)'
      BY <1>1 DEF IsSegment
    <2>6. \A j \in DOMAIN stream' : IsSegment(j, t)' => Piece(s, j, t)' /\ stream'[j].count < n
      BY <1>3, <2>2, <2>4 DEF Partial, Piece
    <2>7. \A k \in 0 .. n - 1 : \E j \in DOMAIN stream' : IsSegment(j, t)' /\ stream'[j].count = k
      BY <2>2, <2>5 DEF Partial
    <2>8. \A i, j \in DOMAIN stream' :
             IsSegment(i, t)' /\ IsSegment(j, t)' /\ i < j => stream'[i].count < stream'[j].count
      BY <2>2, <2>4 DEF Partial
    <2>9. Partial(s, t, n)'
      BY <2>6, <2>7, <2>8 DEF Partial
    <2>10. \/ offset = n * SegmentSize /\ offset < traces'[t].payload /\ pc = "segment"
           \/ offset = traces'[t].payload /\ n = SegmentCount(traces'[t].payload)
      BY <1>3, <2>1 DEF WorkTrace
    <2> QED
      BY <1>1, <2>3, <2>9, <2>10
  <1> QED
    BY <1>4, <1>5, <1>6 DEF WorkTrace

--------------------------------------------------------------------------------
(* Sending *)

LEMMA SpoilIs ==
  ASSUME NEW ts \in Seq(Trace), NEW t \in 1 .. Len(ts)
  PROVE  /\ Spoil(t, ts) \in Seq(Trace) /\ Len(Spoil(t, ts)) = Len(ts)
         /\ \A u \in 1 .. Len(ts) : u # t => Spoil(t, ts)[u] = ts[u]
         /\ Spoil(t, ts)[t].header = ts[t].header /\ Spoil(t, ts)[t].payload = ts[t].payload
         /\ Spoil(t, ts)[t].address = ts[t].address /\ Spoil(t, ts)[t].spoiled
  <1> DEFINE r == [ts[t] EXCEPT !.spoiled = TRUE]
  <1>1. Spoil(t, ts) = [ts EXCEPT ![t] = r]
    BY DEF Spoil, NoTrace
  <1>2. ts[t] \in Trace
    OBVIOUS
  <1>3. /\ r \in Trace /\ r.header = ts[t].header /\ r.payload = ts[t].payload
        /\ r.address = ts[t].address /\ r.spoiled
    BY <1>2 DEF Trace
  <1> HIDE DEF r
  <1> QED
    BY <1>1, <1>3

\* A message is added, or its trace is spoiled.
LEMMA SendIs ==
  ASSUME NEW t, NEW m, NEW ts, NEW ok, Send(t, m, ts, ok)
  PROVE  \/ stream' = stream /\ traces' = Spoil(t, ts)
         \/ ok /\ stream' = Append(stream, m) /\ traces' = ts
  BY DEF Send

LEMMA SendWithStatus ==
  ASSUME NEW t, NEW m, NEW ts, NEW ok, Send(t, m, ts, ok)
  PROVE  stream' = Append(stream, m) => status
  BY DEF Send

\* The traces get a new one, which may be spoiled already.
Grown(r) ==
  /\ traces' \in Seq(Trace) /\ Len(traces') = Len(traces) + 1
  /\ \A t \in 1 .. Len(traces) : traces'[t] = traces[t]
  /\ LET new == traces'[Len(traces) + 1] IN
     new.header = r.header /\ new.payload = r.payload /\ new.address = r.address

LEMMA GrownIs ==
  ASSUME traces \in Seq(Trace), NEW r \in Trace,
         traces' = Append(traces, r) \/ traces' = Spoil(Len(traces) + 1, Append(traces, r))
  PROVE  /\ Grown(r)
         /\ traces' # Append(traces, r) => traces'[Len(traces) + 1].spoiled
  <1> DEFINE ts == Append(traces, r)
             t == Len(traces) + 1
  <1>1. /\ ts \in Seq(Trace) /\ Len(ts) = t /\ t \in 1 .. Len(ts) /\ ts[t] = r
        /\ \A u \in 1 .. Len(traces) : ts[u] = traces[u] /\ u \in 1 .. Len(ts) /\ u # t
    OBVIOUS
  <1>2. CASE traces' = ts
    BY <1>1, <1>2 DEF Grown
  <1>3. CASE traces' = Spoil(t, ts)
    <2> HIDE DEF ts
    <2>1. /\ Spoil(t, ts) \in Seq(Trace) /\ Len(Spoil(t, ts)) = Len(ts)
          /\ \A u \in 1 .. Len(ts) : u # t => Spoil(t, ts)[u] = ts[u]
          /\ Spoil(t, ts)[t].header = ts[t].header /\ Spoil(t, ts)[t].payload = ts[t].payload
          /\ Spoil(t, ts)[t].address = ts[t].address /\ Spoil(t, ts)[t].spoiled
      BY <1>1, SpoilIs
    <2> QED
      BY <1>1, <1>3, <2>1 DEF Grown
  <1> QED
    BY <1>2, <1>3

--------------------------------------------------------------------------------
(* A call that begins a trace *)

\* What the thread and the traces that wait have is left alone.
LEMMA NewTraceStays ==
  ASSUME NetInv, NEW r \in Trace, Grown(r), NEW m, m.trace = Len(traces) + 1, m.kind \in {"trace", "truncated", "start"},
         Quiet(m),
         m.kind = "truncated" =>
           StringSize + RawSize(traces'[m.trace].header) + Uint32Size + RawSize(m.length) = LogBufLen
  PROVE  /\ TracesStay /\ EndsWhole' /\ TruncatedFills' /\ NotMixed'
         /\ stream' \in Seq(Message) /\ \A i \in DOMAIN stream' : stream'[i].trace \in DOMAIN traces'
         /\ \A t \in DOMAIN traces : t \in DOMAIN traces' /\ (FreshTrace(t) => FreshTrace(t)')
         /\ \A t \in DOMAIN traces : \A pc, offset, n : WorkTrace(t, pc, offset, n) => WorkTrace(t, pc, offset, n)'
  <1>1. Typed /\ traces \in Seq(Trace) /\ Len(traces) \in Nat /\ DOMAIN traces = 1 .. Len(traces)
    BY DEF NetInv, Typed
  <1>2. TracesStay
    BY <1>1 DEF Grown, TracesStay
  <1>3. \A i \in DOMAIN stream : stream[i].trace \in DOMAIN traces /\ stream[i].trace # m.trace
    BY <1>1 DEF Typed
  <1>4. Clean(m.trace)
    BY <1>3 DEF Clean, IsSegment
  <1>5. EndsWhole' /\ TruncatedFills' /\ NotMixed'
    <2>1. CASE stream' = stream
      BY <1>1, <1>2, <2>1, SameStream DEF NetInv
    <2>2. CASE Adds(m)
      <3>1. EndsWhole'
        BY <1>1, <1>2, <2>2, AddedEnds DEF NetInv
      <3>2. TruncatedFills'
        BY <1>1, <1>2, <2>2, AddedTruncated DEF NetInv
      <3>3. NotMixed'
        BY <1>1, <1>4, <2>2, AddedNotMixed DEF NetInv
      <3> QED
        BY <3>1, <3>2, <3>3
    <2> QED
      BY <2>1, <2>2 DEF Quiet
  <1>6. DOMAIN traces' = 1 .. Len(traces) + 1
    BY <1>1 DEF Grown
  <1>7. stream' \in Seq(Message) /\ \A i \in DOMAIN stream' : stream'[i].trace \in DOMAIN traces'
    <2>1. CASE stream' = stream
      BY <1>1, <1>3, <1>6, <2>1 DEF Typed
    <2>2. CASE Adds(m)
      BY <1>1, <1>3, <1>6, <2>2, Added
    <2> QED
      BY <2>1, <2>2 DEF Quiet
  <1>8. \A t \in DOMAIN traces : t \in DOMAIN traces' /\ t # m.trace
    BY <1>1, <1>6
  <1>9. ASSUME NEW t \in DOMAIN traces, FreshTrace(t) PROVE FreshTrace(t)'
    BY <1>1, <1>2, <1>8, <1>9, FreshStays DEF Quiet
  <1>10. ASSUME NEW t \in DOMAIN traces, NEW pc, NEW offset, NEW n, WorkTrace(t, pc, offset, n)
         PROVE  WorkTrace(t, pc, offset, n)'
    BY <1>1, <1>2, <1>8, <1>10, WorkStays DEF Quiet
  <1> QED
    BY <1>2, <1>5, <1>7, <1>8, <1>9, <1>10

\* The call returns without a trace that waits.
LEMMA NewTraceOver ==
  ASSUME NetInv, NEW r \in Trace, Grown(r), NEW m, m.trace = Len(traces) + 1, m.kind \in {"trace", "truncated", "start"},
         Quiet(m),
         m.kind = "truncated" =>
           StringSize + RawSize(traces'[m.trace].header) + Uint32Size + RawSize(m.length) = LogBufLen,
         UNCHANGED <<callers, queue, worker, netlimit>>
  PROVE  NetInv'
  <1>1. /\ TracesStay /\ EndsWhole' /\ TruncatedFills' /\ NotMixed'
        /\ stream' \in Seq(Message) /\ \A i \in DOMAIN stream' : stream'[i].trace \in DOMAIN traces'
        /\ \A t \in DOMAIN traces : t \in DOMAIN traces' /\ (FreshTrace(t) => FreshTrace(t)')
        /\ \A t \in DOMAIN traces : \A pc, offset, n : WorkTrace(t, pc, offset, n) => WorkTrace(t, pc, offset, n)'
    BY NewTraceStays
  <1>2. traces \in Seq(Trace) /\ DOMAIN traces = 1 .. Len(traces) /\ traces' \in Seq(Trace)
    BY DEF NetInv, Typed, Grown
  <1>3. Typed'
    <2>1. worker.pc # "idle" => worker.trace \in DOMAIN traces' /\ worker.offset <= traces'[worker.trace].payload
      BY <1>1, <1>2 DEF NetInv, Typed, TracesStay
    <2> QED
      BY <1>1, <1>2, <2>1 DEF NetInv, Typed
  <1>4. \A t : Waits(t)' <=> Waits(t)
    BY DEF Waits
  <1>5. Apart'
    BY <1>4 DEF NetInv, Apart
  <1>6. \A t : Waits(t) => t \in DOMAIN traces
    BY DEF NetInv, Typed, Waits
  <1>7. Fresh'
    BY <1>1, <1>4, <1>6 DEF NetInv, Fresh
  <1>8. Working'
    <2>1. CASE worker.pc = "idle"
      BY <2>1 DEF Working
    <2>2. CASE worker.pc # "idle"
      <3>1. PICK w : w = worker /\ w = worker'
        OBVIOUS
      <3>2. w.trace \in DOMAIN traces /\ WorkTrace(w.trace, w.pc, w.offset, w.sequence)
        BY <2>2, <3>1 DEF NetInv, Typed, Working
      <3>3. WorkTrace(w.trace, w.pc, w.offset, w.sequence)'
        BY <1>1, <3>2
      <3> QED
        BY <3>1, <3>3 DEF Working, WorkTrace
    <2> QED
      BY <2>1, <2>2
  <1> QED
    BY <1>1, <1>3, <1>5, <1>7, <1>8 DEF NetInv

LEMMA SizesAre ==
  ASSUME NetInv
  PROVE  /\ Headers \subseteq Nat /\ netlimit.payloads \subseteq Nat /\ netlimit.handles \subseteq Nat
         /\ Addresses \subseteq Nat /\ LogBufLen \in Nat
  <1>1. Headers \subseteq Nat /\ Addresses \subseteq 0 .. AddressSpace - 1 /\ AddressSpace \in Nat /\ LogBufLen \in Nat
    BY NetAssumption
  <1>2. netlimit \in NetLimit
    BY NetAssumption DEF NetInv, Typed
  <1>3. netlimit.payloads \subseteq Payloads /\ Payloads \subseteq Nat /\ netlimit.handles \subseteq Nat
    BY <1>2, NetAssumption DEF NetLimit
  <1>4. Addresses \subseteq Nat
    BY <1>1
  <1>5. netlimit.payloads \subseteq Nat
    BY <1>3
  <1> QED
    BY <1>1, <1>3, <1>4, <1>5

\* A message is as long as the function says, and a truncated one uses the message up: the length is
\* kept in 16 bits, as that of the message.
LEMMA TruncatedIs ==
  ASSUME NEW h \in Nat, NEW p \in Nat
  PROVE  /\ dlt_user_trace_network_truncated(h, p) \in Int
         /\ h + p + 2 > LogBufLen /\ dlt_user_trace_network_truncated(h, p) # -1 =>
              StringSize + RawSize(h) + Uint32Size + RawSize(dlt_user_trace_network_truncated(h, p)) = LogBufLen
  <1> DEFINE x == LogBufLen - (StringSize + RawSize(h) + Uint32Size) - 2 - 4
             cut == x % 65536
  <1>1. LogBufLen \in Nat /\ LogBufLen < 65536
    BY NetAssumption
  <1>2. x \in Int /\ x = LogBufLen - 31 - h
    BY <1>1 DEF StringSize, RawSize, Uint32Size
  <1>3. cut \in Nat /\ cut < 65536 /\ (x \in Nat /\ x < 65536 => cut = x)
    <2> DEFINE q == x \div 65536
    <2>1. q \in Int /\ cut \in Nat /\ cut < 65536 /\ x = 65536 * q + cut
      <3> HIDE DEF x
      <3> QED
        BY <1>2
    <2> HIDE DEF x, q, cut
    <2> QED
      BY <2>1
  <1>4. TruncatedLength(h) = cut
    BY DEF TruncatedLength
  <1> HIDE DEF x, cut
  <1>5. CASE h + p + 2 > LogBufLen
    <2>1. dlt_user_trace_network_truncated(h, p) =
            IF StringSize + RawSize(h) + Uint32Size + RawSize(cut) <= LogBufLen THEN cut ELSE -1
      BY <1>4, <1>5 DEF dlt_user_trace_network_truncated
    <2>2. StringSize + RawSize(h) + Uint32Size + RawSize(cut) = 31 + h + cut
      BY <1>3 DEF StringSize, RawSize, Uint32Size
    <2>3. CASE 31 + h + cut <= LogBufLen
      <3>1. x \in Nat /\ x < 65536
        BY <1>1, <1>2, <1>3, <2>3
      <3> QED
        BY <1>1, <1>2, <1>3, <2>1, <2>2, <2>3, <3>1
    <2>4. CASE ~(31 + h + cut <= LogBufLen)
      BY <2>1, <2>2, <2>4
    <2> QED
      BY <2>3, <2>4
  <1>6. CASE ~(h + p + 2 > LogBufLen)
    BY <1>6 DEF dlt_user_trace_network_truncated
  <1> QED
    BY <1>5, <1>6

\* A call that is over at once: the message is sent, or not, and the trace has ended.
LEMMA CallStep ==
  ASSUME NetInv, NEW h \in Headers, NEW p \in netlimit.payloads, NEW ok \in BOOLEAN,
         NEW kind \in {"trace", "truncated"}, kind = "truncated" => h + p + 2 > LogBufLen,
         LET t == Len(traces) + 1
             n == dlt_user_trace_network_truncated(h, p)
             new(r) == Append(traces, [NewTrace(h, p, 0, 0) EXCEPT !.result = r, !.ended = TRUE])
         IN  IF n = -1 /\ status THEN traces' = new("error") /\ UNCHANGED <<stream, netused>>
             ELSE Send(t, [kind |-> kind, trace |-> t, length |-> n, count |-> 0],
                       new(IF ok THEN "ok" ELSE "error"), ok),
         UNCHANGED <<callers, queue, worker, netlimit>>
  PROVE  NetInv'
  <1>1. h \in Nat /\ p \in Nat /\ Len(traces) \in Nat /\ traces \in Seq(Trace)
    BY SizesAre DEF NetInv, Typed
  <1> DEFINE t == Len(traces) + 1
             n == dlt_user_trace_network_truncated(h, p)
             m == [kind |-> kind, trace |-> t, length |-> n, count |-> 0]
  <1>2. n \in Int
    BY <1>1, TruncatedIs
  <1>3. m \in Message /\ m.kind = kind /\ m.trace = t /\ m.length = n
    BY <1>1, <1>2 DEF Message
  <1>4. PICK res \in {"ok", "error"} : LET r == [NewTrace(h, p, 0, 0) EXCEPT !.result = res, !.ended = TRUE] IN
          \/ stream' = stream /\ traces' = Append(traces, r)
          \/ stream' = stream /\ traces' = Spoil(t, Append(traces, r))
          \/ stream' = Append(stream, m) /\ traces' = Append(traces, r) /\ n # -1
    <2>1. CASE n = -1 /\ status
      BY <2>1
    <2>2. CASE ~(n = -1 /\ status)
      <3>1. PICK res \in {"ok", "error"} : res = IF ok THEN "ok" ELSE "error"
        OBVIOUS
      <3>2. Send(t, m, Append(traces, [NewTrace(h, p, 0, 0) EXCEPT !.result = res, !.ended = TRUE]), ok)
        BY <2>2, <3>1
      <3> HIDE DEF m, n, t
      <3>3. stream' = Append(stream, m) => status
        BY <3>2, SendWithStatus
      <3> QED
        BY <2>2, <3>2, <3>3, SendIs
    <2> QED
      BY <2>1, <2>2
  <1>5. PICK r : r = [NewTrace(h, p, 0, 0) EXCEPT !.result = res, !.ended = TRUE]
    OBVIOUS
  <1>6. r \in Trace /\ r.header = h
    BY <1>1, <1>5 DEF NewTrace, Trace
  <1>7. \/ stream' = stream /\ traces' = Append(traces, r)
        \/ stream' = stream /\ traces' = Spoil(t, Append(traces, r))
        \/ stream' = Append(stream, m) /\ traces' = Append(traces, r) /\ n # -1
    BY <1>4, <1>5
  <1> HIDE DEF m, n
  <1>8. Grown(r)
    BY <1>1, <1>6, <1>7, GrownIs
  <1>9. Quiet(m)
    BY <1>3, <1>7 DEF Quiet, Adds
  <1>10. traces'[t].header = h
    BY <1>6, <1>8 DEF Grown
  <1>11. CASE stream' = stream
    <2>1. PICK l : l = [kind |-> "trace", trace |-> t]
      OBVIOUS
    <2>2. l.kind = "trace" /\ l.trace = t /\ Quiet(l)
      BY <1>11, <2>1 DEF Quiet
    <2> QED
      BY <1>6, <1>8, <2>2, NewTraceOver
  <1>12. CASE stream' = Append(stream, m) /\ n # -1
    <2>1. m.kind = "truncated" =>
            StringSize + RawSize(traces'[m.trace].header) + Uint32Size + RawSize(m.length) = LogBufLen
      BY <1>1, <1>3, <1>10, <1>12, TruncatedIs DEF n
    <2> QED
      BY <1>3, <1>6, <1>8, <1>9, <2>1, NewTraceOver
  <1> QED
    BY <1>7, <1>11, <1>12

LEMMA SendAtOnceStep ==
  ASSUME NetInv, NEW c \in Callers, SendAtOnce(c)
  PROVE  NetInv'
  BY CallStep DEF SendAtOnce

LEMMA SendTruncatedStep ==
  ASSUME NetInv, NEW c \in Callers, SendTruncated(c)
  PROVE  NetInv'
  BY CallStep DEF SendTruncated

\* The call has announced its trace, which now waits with its caller.
LEMMA NewTraceWaits ==
  ASSUME NetInv, NEW r \in Trace, Grown(r), NEW m, m.trace = Len(traces) + 1, m.kind = "start", Quiet(m),
         m.length = r.payload, m.count = SegmentCount(r.payload),
         Adds(m) \/ traces'[Len(traces) + 1].spoiled, NEW c \in Callers, callers[c].pc = "idle",
         callers' = [callers EXCEPT ![c] = [pc |-> "enqueue", trace |-> Len(traces) + 1]],
         UNCHANGED <<queue, worker, netlimit>>
  PROVE  NetInv'
  <1>0. PICK new : new = Len(traces) + 1
    OBVIOUS
  <1>1. /\ TracesStay /\ EndsWhole' /\ TruncatedFills' /\ NotMixed'
        /\ stream' \in Seq(Message) /\ \A i \in DOMAIN stream' : stream'[i].trace \in DOMAIN traces'
        /\ \A t \in DOMAIN traces : t \in DOMAIN traces' /\ (FreshTrace(t) => FreshTrace(t)')
        /\ \A t \in DOMAIN traces : \A pc, offset, n : WorkTrace(t, pc, offset, n) => WorkTrace(t, pc, offset, n)'
    BY NewTraceStays
  <1>2. /\ traces \in Seq(Trace) /\ Len(traces) \in Nat /\ DOMAIN traces = 1 .. Len(traces) /\ traces' \in Seq(Trace)
        /\ DOMAIN traces' = 1 .. new /\ new \in Nat /\ new \notin DOMAIN traces /\ new \in DOMAIN traces'
    BY <1>0 DEF NetInv, Typed, Grown
  <1>3. /\ callers' \in [Callers -> [pc : {"idle", "enqueue"}, trace : Nat]]
        /\ callers'[c].pc = "enqueue" /\ callers'[c].trace = new
        /\ \A d \in Callers : d # c => callers'[d] = callers[d]
    BY <1>0, <1>2 DEF NetInv, Typed
  <1>4. Typed'
    <2>1. worker.pc # "idle" => worker.trace \in DOMAIN traces' /\ worker.offset <= traces'[worker.trace].payload
      BY <1>1, <1>2 DEF NetInv, Typed, TracesStay
    <2>2. \A d \in Callers : callers'[d].pc = "enqueue" => callers'[d].trace \in DOMAIN traces'
      BY <1>1, <1>2, <1>3 DEF NetInv, Typed
    <2> QED
      BY <1>1, <1>2, <1>3, <2>1, <2>2 DEF NetInv, Typed
  <1>5. \A t : Waits(t)' => Waits(t) \/ t = new
    BY <1>3 DEF Waits
  <1>6. \A t : Waits(t) => t \in DOMAIN traces
    BY DEF NetInv, Typed, Waits
  <1>7. Apart'
    <2>1. \A d, e \in Callers :
            callers'[d].pc = "enqueue" /\ callers'[e].pc = "enqueue" /\ callers'[d].trace = callers'[e].trace => d = e
      BY <1>2, <1>3 DEF NetInv, Apart, Typed
    <2>2. \A d \in Callers, q \in DOMAIN queue : callers'[d].pc = "enqueue" => callers'[d].trace # queue[q]
      BY <1>2, <1>3 DEF NetInv, Apart, Typed
    <2>3. worker.pc # "idle" => ~Waits(worker.trace)'
      <3>1. worker.pc # "idle" => worker.trace \in DOMAIN traces /\ ~Waits(worker.trace)
        BY DEF NetInv, Typed, Apart
      <3>2. worker.pc # "idle" => worker.trace # new
        BY <1>2, <3>1
      <3>3. PICK t : t = worker.trace /\ t = worker'.trace
        OBVIOUS
      <3>4. worker.pc # "idle" => ~Waits(t)'
        BY <1>5, <3>1, <3>2, <3>3
      <3> QED
        BY <3>3, <3>4 DEF Waits
    <2> QED
      BY <2>1, <2>2, <2>3 DEF NetInv, Apart
  <1>8. FreshTrace(new)'
    <2>1. \A i \in DOMAIN stream : stream[i].trace # new
      BY <1>2 DEF NetInv, Typed
    <2>2. CASE stream' = stream
      <3>1. CASE Adds(m)
        BY <2>2, <3>1, Added DEF NetInv
      <3>2. CASE traces'[new].spoiled
        BY <2>1, <2>2, <3>2 DEF FreshTrace
      <3> QED
        BY <1>0, <3>1, <3>2
    <2>3. CASE Adds(m)
      <3>1. \A i \in DOMAIN stream' : stream'[i].trace = new => stream'[i] = m
        BY <2>1, <2>3, Added DEF NetInv
      <3>2. new \in DOMAIN traces' /\ traces'[new].payload = r.payload
        BY <1>0, <1>2 DEF Grown
      <3>3. PICK k \in DOMAIN stream' : stream'[k] = m
        <4>1. Len(stream) + 1 \in DOMAIN stream' /\ stream'[Len(stream) + 1] = m
          BY <2>3, Added DEF NetInv
        <4> QED
          BY <4>1
      <3>4. Starts(k, new)'
        BY <1>0, <3>2, <3>3 DEF Starts
      <3> QED
        BY <3>1, <3>3, <3>4 DEF FreshTrace
    <2> QED
      BY <2>2, <2>3 DEF Quiet
  <1>9. Fresh'
    <2> SUFFICES ASSUME NEW t \in DOMAIN traces', Waits(t)' PROVE FreshTrace(t)'
      BY DEF Fresh
    <2> QED
      BY <1>1, <1>5, <1>6, <1>8 DEF NetInv, Fresh
  <1>10. Working'
    <2>1. CASE worker.pc = "idle"
      BY <2>1 DEF Working
    <2>2. CASE worker.pc # "idle"
      <3>1. PICK w : w = worker /\ w = worker'
        OBVIOUS
      <3>2. w.trace \in DOMAIN traces /\ WorkTrace(w.trace, w.pc, w.offset, w.sequence)
        BY <2>2, <3>1 DEF NetInv, Typed, Working
      <3>3. WorkTrace(w.trace, w.pc, w.offset, w.sequence)'
        BY <1>1, <3>2
      <3> QED
        BY <3>1, <3>3 DEF Working, WorkTrace
    <2> QED
      BY <2>1, <2>2
  <1> QED
    BY <1>1, <1>4, <1>7, <1>9, <1>10 DEF NetInv

LEMMA StartStep ==
  ASSUME NetInv, NEW c \in Callers, dlt_user_trace_network_segmented_start(c)
  PROVE  NetInv'
  <1>1. PICK h \in Headers, p \in netlimit.payloads, a \in Addresses, id \in netlimit.handles, ok \in BOOLEAN :
          LET t == Len(traces) + 1
              fits == StartSize(h) <= LogBufLen
              new(r) == Append(traces, [NewTrace(h, p, a, id) EXCEPT !.result = r])
          IN  /\ h + p + 2 >= LogBufLen
              /\ IF ~fits /\ status
                 THEN traces' = new("error") /\ UNCHANGED <<stream, netused>>
                 ELSE Send(t, [kind |-> "start", trace |-> t, length |-> p, count |-> SegmentCount(p)],
                           new(IF ok THEN "none" ELSE "error"), ok)
              /\ callers' = [callers EXCEPT ![c] =
                   IF ok /\ (fits \/ ~status) THEN [pc |-> "enqueue", trace |-> t] ELSE @]
    BY DEF dlt_user_trace_network_segmented_start
  <1>2. callers[c].pc = "idle" /\ UNCHANGED <<queue, worker, netlimit>>
    BY DEF dlt_user_trace_network_segmented_start
  <1>3. h \in Nat /\ p \in Nat /\ a \in Nat /\ id \in Nat /\ Len(traces) \in Nat /\ traces \in Seq(Trace)
    BY SizesAre DEF NetInv, Typed
  <1> DEFINE t == Len(traces) + 1
             m == [kind |-> "start", trace |-> t, length |-> p, count |-> SegmentCount(p)]
             new(r) == [NewTrace(h, p, a, id) EXCEPT !.result = r]
             fits == StartSize(h) <= LogBufLen
  <1>4. m \in Message /\ m.kind = "start" /\ m.trace = t /\ m.length = p /\ m.count = SegmentCount(p)
    <2>1. SegmentCount(p) \in Nat
      BY <1>3, SegmentsCover
    <2> QED
      BY <1>3, <2>1 DEF Message
  <1>5. callers \in [Callers -> [pc : {"idle", "enqueue"}, trace : Nat]]
    BY DEF NetInv, Typed
  <1>6. PICK res \in {"none", "error"} :
          /\ \/ stream' = stream /\ traces' = Append(traces, new(res))
             \/ stream' = stream /\ traces' = Spoil(t, Append(traces, new(res)))
             \/ stream' = Append(stream, m) /\ traces' = Append(traces, new(res))
          /\ \/ callers' = callers
             \/ /\ callers' = [callers EXCEPT ![c] = [pc |-> "enqueue", trace |-> t]]
                /\ stream' = Append(stream, m) \/ traces' = Spoil(t, Append(traces, new(res)))
    <2>1. CASE ~fits /\ status
      <3>1. traces' = Append(traces, new("error")) /\ stream' = stream
        BY <1>1, <2>1
      <3>2. callers' = [callers EXCEPT ![c] = callers[c]]
        BY <1>1, <2>1
      <3>3. callers' = callers
        BY <1>5, <3>2
      <3> QED
        BY <3>1, <3>3
    <2>2. CASE ~(~fits /\ status)
      <3>1. PICK res \in {"none", "error"} : res = IF ok THEN "none" ELSE "error"
        OBVIOUS
      <3>2. Send(t, m, Append(traces, new(res)), ok)
        BY <1>1, <2>2, <3>1
      <3>3. callers' = [callers EXCEPT ![c] = [pc |-> "enqueue", trace |-> t]] \/ callers' = callers
        <4>1. CASE ok /\ (fits \/ ~status)
          BY <1>1, <4>1
        <4>2. CASE ~(ok /\ (fits \/ ~status))
          <5>1. callers' = [callers EXCEPT ![c] = callers[c]]
            BY <1>1, <4>2
          <5> QED
            BY <1>5, <5>1
        <4> QED
          BY <4>1, <4>2
      <3> HIDE DEF m, t, fits, new
      <3> QED
        BY <3>2, <3>3, SendIs
    <2> QED
      BY <2>1, <2>2
  <1>7. PICK r : r = new(res)
    OBVIOUS
  <1>8. r \in Trace /\ r.payload = p
    BY <1>3, <1>7 DEF NewTrace, Trace
  <1> HIDE DEF m, new
  <1>9. Grown(r) /\ (traces' # Append(traces, r) => traces'[t].spoiled)
    BY <1>3, <1>6, <1>7, <1>8, GrownIs
  <1>10. Quiet(m)
    BY <1>4, <1>6 DEF Quiet, Adds
  <1>11. CASE callers' = callers
    BY <1>2, <1>4, <1>8, <1>9, <1>10, <1>11, NewTraceOver
  <1>12. CASE /\ callers' = [callers EXCEPT ![c] = [pc |-> "enqueue", trace |-> t]]
              /\ stream' = Append(stream, m) \/ traces' = Spoil(t, Append(traces, new(res)))
    <2>1. Adds(m) \/ traces'[t].spoiled
      <3>1. CASE stream' = Append(stream, m)
        BY <1>4, <3>1 DEF Adds
      <3>2. CASE traces' = Spoil(t, Append(traces, r))
        <4> DEFINE ts == Append(traces, r)
        <4>1. ts \in Seq(Trace) /\ t \in 1 .. Len(ts)
          BY <1>3, <1>8
        <4> HIDE DEF ts
        <4>2. Spoil(t, ts)[t].spoiled
          BY <4>1, SpoilIs
        <4> QED
          BY <3>2, <4>2 DEF ts
      <3> QED
        BY <1>7, <1>12, <3>1, <3>2
    <2> QED
      BY <1>2, <1>4, <1>8, <1>9, <1>10, <1>12, <2>1, NewTraceWaits
  <1> QED
    BY <1>6, <1>11, <1>12

--------------------------------------------------------------------------------
(* Steps that send nothing *)

LEMMA SilentStays ==
  ASSUME NetInv, TracesStay, traces' \in Seq(Trace), stream' = stream
  PROVE  /\ EndsWhole' /\ TruncatedFills' /\ NotMixed'
         /\ \A i \in DOMAIN stream' : stream'[i].trace \in DOMAIN traces'
         /\ \A t \in DOMAIN traces : t \in DOMAIN traces' /\ (FreshTrace(t) => FreshTrace(t)')
         /\ \A t \in DOMAIN traces : \A pc, offset, n : WorkTrace(t, pc, offset, n) => WorkTrace(t, pc, offset, n)'
  <1>1. Typed /\ EndsWhole /\ TruncatedFills /\ NotMixed
    BY DEF NetInv
  <1>2. \A t \in DOMAIN traces : t \in DOMAIN traces'
    BY <1>1 DEF Typed, TracesStay
  <1>3. \A i \in DOMAIN stream' : stream'[i].trace \in DOMAIN traces'
    BY <1>1, <1>2 DEF Typed
  <1>4. EndsWhole' /\ TruncatedFills' /\ NotMixed'
    BY <1>1, SameStream
  <1>5. ASSUME NEW t \in DOMAIN traces, FreshTrace(t) PROVE FreshTrace(t)'
    BY <1>1, <1>5, FreshStays
  <1>6. ASSUME NEW t \in DOMAIN traces, NEW pc, NEW offset, NEW n, WorkTrace(t, pc, offset, n)
        PROVE  WorkTrace(t, pc, offset, n)'
    BY <1>1, <1>6, WorkStays
  <1> QED
    BY <1>2, <1>3, <1>4, <1>5, <1>6

\* The thread goes on with what it had.
LEMMA WorkingStays ==
  ASSUME NetInv, worker' = worker,
         \A t \in DOMAIN traces : \A pc, offset, n : WorkTrace(t, pc, offset, n) => WorkTrace(t, pc, offset, n)'
  PROVE  Working'
  <1>1. CASE worker.pc = "idle"
    BY <1>1 DEF Working
  <1>2. CASE worker.pc # "idle"
    <2>1. PICK w : w = worker /\ w = worker'
      OBVIOUS
    <2>2. w.trace \in DOMAIN traces /\ WorkTrace(w.trace, w.pc, w.offset, w.sequence)
      BY <1>2, <2>1 DEF NetInv, Typed, Working
    <2>3. WorkTrace(w.trace, w.pc, w.offset, w.sequence)'
      BY <2>2
    <2> QED
      BY <2>1, <2>3 DEF Working, WorkTrace
  <1> QED
    BY <1>1, <1>2

LEMMA ResultIs ==
  ASSUME NEW ts \in Seq(Trace), NEW t \in 1 .. Len(ts), NEW res \in {"ok", "error"},
         NEW us, us = [ts EXCEPT ![t].result = res]
  PROVE  /\ us \in Seq(Trace) /\ Len(us) = Len(ts)
         /\ \A u \in 1 .. Len(ts) :
              /\ us[u].header = ts[u].header /\ us[u].payload = ts[u].payload
              /\ us[u].address = ts[u].address /\ us[u].spoiled = ts[u].spoiled
  <1> DEFINE r == [ts[t] EXCEPT !.result = res]
  <1>1. us = [ts EXCEPT ![t] = r]
    OBVIOUS
  <1>2. ts[t] \in Trace
    OBVIOUS
  <1>3. /\ r \in Trace /\ r.header = ts[t].header /\ r.payload = ts[t].payload
        /\ r.address = ts[t].address /\ r.spoiled = ts[t].spoiled
    BY <1>2 DEF Trace
  <1> HIDE DEF r
  <1> QED
    BY <1>1, <1>3

LEMMA EnqueueStep ==
  ASSUME NetInv, NEW c \in Callers, Enqueue(c)
  PROVE  NetInv'
  <1>1. PICK t : t = callers[c].trace
    OBVIOUS
  <1>2. /\ callers[c].pc = "enqueue" /\ callers' = [callers EXCEPT ![c] = [pc |-> "idle", trace |-> NoTrace]]
        /\ UNCHANGED <<worker, stream, netlimit>>
        /\ \/ queue' = Append(queue, t) /\ traces' = [traces EXCEPT ![t].result = "ok"]
           \/ queue' = queue /\ traces' = [Spoil(t, traces) EXCEPT ![t].result = "error"]
    BY <1>1 DEF Enqueue
  <1>3. Typed /\ Apart /\ traces \in Seq(Trace) /\ t \in 1 .. Len(traces) /\ t \in DOMAIN traces /\ Waits(t)
    BY <1>1, <1>2 DEF NetInv, Typed, Waits
  <1>5. traces' \in Seq(Trace) /\ TracesStay
    <2>1. CASE traces' = [traces EXCEPT ![t].result = "ok"]
      <3>1. /\ traces' \in Seq(Trace) /\ Len(traces') = Len(traces)
            /\ \A u \in 1 .. Len(traces) :
                 /\ traces'[u].header = traces[u].header /\ traces'[u].payload = traces[u].payload
                 /\ traces'[u].address = traces[u].address /\ traces'[u].spoiled = traces[u].spoiled
        BY <1>3, <2>1, ResultIs
      <3> QED
        BY <1>3, <3>1 DEF TracesStay
    <2>2. CASE traces' = [Spoil(t, traces) EXCEPT ![t].result = "error"]
      <3>1. PICK ts : ts = Spoil(t, traces)
        OBVIOUS
      <3>2. /\ ts \in Seq(Trace) /\ Len(ts) = Len(traces)
            /\ \A u \in 1 .. Len(traces) : u # t => ts[u] = traces[u]
            /\ ts[t].header = traces[t].header /\ ts[t].payload = traces[t].payload
            /\ ts[t].address = traces[t].address /\ ts[t].spoiled
        BY <1>3, <3>1, SpoilIs
      <3>3. /\ traces' \in Seq(Trace) /\ Len(traces') = Len(ts)
            /\ \A u \in 1 .. Len(ts) :
                 /\ traces'[u].header = ts[u].header /\ traces'[u].payload = ts[u].payload
                 /\ traces'[u].address = ts[u].address /\ traces'[u].spoiled = ts[u].spoiled
        <4>1. t \in 1 .. Len(ts) /\ traces' = [ts EXCEPT ![t].result = "error"]
          BY <1>3, <2>2, <3>1, <3>2
        <4> QED
          BY <3>2, <4>1, ResultIs
      <3> QED
        BY <1>3, <3>2, <3>3 DEF TracesStay
    <2> QED
      BY <1>2, <2>1, <2>2
  <1>6. /\ EndsWhole' /\ TruncatedFills' /\ NotMixed'
        /\ \A i \in DOMAIN stream' : stream'[i].trace \in DOMAIN traces'
        /\ \A u \in DOMAIN traces : u \in DOMAIN traces' /\ (FreshTrace(u) => FreshTrace(u)')
        /\ \A u \in DOMAIN traces : \A pc, offset, n : WorkTrace(u, pc, offset, n) => WorkTrace(u, pc, offset, n)'
    BY <1>2, <1>5, SilentStays
  <1>7. /\ callers' \in [Callers -> [pc : {"idle", "enqueue"}, trace : Nat]] /\ callers'[c].pc = "idle"
        /\ \A d \in Callers : d # c => callers'[d] = callers[d]
    BY <1>2, <1>3 DEF Typed, NoTrace
  <1>8. /\ queue' \in Seq(Nat)
        /\ \A q \in DOMAIN queue' :
             (q \in DOMAIN queue /\ queue'[q] = queue[q]) \/ (q = Len(queue) + 1 /\ q \notin DOMAIN queue /\ queue'[q] = t)
    <2>1. queue \in Seq(Nat) /\ t \in Nat
      BY <1>3 DEF Typed
    <2>2. CASE queue' = queue
      BY <2>1, <2>2
    <2>3. CASE queue' = Append(queue, t)
      BY <2>1, <2>3
    <2> QED
      BY <1>2, <2>2, <2>3
  <1>10. Typed'
    <2>1. worker.pc # "idle" => worker.trace \in DOMAIN traces' /\ worker.offset <= traces'[worker.trace].payload
      <3>1. worker.pc # "idle" => /\ worker.trace \in DOMAIN traces /\ worker.trace \in 1 .. Len(traces)
                                  /\ worker.offset <= traces[worker.trace].payload
        BY <1>3 DEF Typed
      <3> QED
        BY <1>5, <1>6, <3>1 DEF TracesStay
    <2>2. \A q \in DOMAIN queue' : queue'[q] \in DOMAIN traces'
      BY <1>3, <1>6, <1>8 DEF Typed
    <2>3. \A d \in Callers : callers'[d].pc = "enqueue" => callers'[d].trace \in DOMAIN traces'
      BY <1>3, <1>6, <1>7 DEF Typed
    <2> QED
      BY <1>2, <1>3, <1>5, <1>6, <1>7, <1>8, <2>1, <2>2, <2>3 DEF Typed
  <1>11. \A u : Waits(u)' => Waits(u)
    BY <1>3, <1>7, <1>8 DEF Waits
  <1>12. Apart'
    <2>1. \A d, e \in Callers :
            callers'[d].pc = "enqueue" /\ callers'[e].pc = "enqueue" /\ callers'[d].trace = callers'[e].trace => d = e
      BY <1>3, <1>7 DEF Apart
    <2>2. \A d \in Callers, q \in DOMAIN queue' : callers'[d].pc = "enqueue" => callers'[d].trace # queue'[q]
      BY <1>1, <1>2, <1>3, <1>7, <1>8 DEF Apart
    <2>3. \A q, u \in DOMAIN queue' : queue'[q] = queue'[u] => q = u
      BY <1>1, <1>2, <1>3, <1>8 DEF Apart
    <2>4. (worker.pc # "idle" => ~Waits(worker.trace))'
      <3>1. PICK u : u = worker.trace /\ u = worker'.trace
        BY <1>2
      <3>2. worker.pc # "idle" => ~Waits(u)'
        BY <1>3, <1>11, <3>1 DEF Apart
      <3> QED
        BY <1>2, <3>1, <3>2 DEF Waits
    <2> QED
      BY <2>1, <2>2, <2>3, <2>4 DEF Apart
  <1>13. \A u : Waits(u) => u \in DOMAIN traces
    BY <1>3 DEF Typed, Waits
  <1>14. Fresh'
    <2> SUFFICES ASSUME NEW u \in DOMAIN traces', Waits(u)' PROVE FreshTrace(u)'
      BY DEF Fresh
    <2> QED
      BY <1>6, <1>11, <1>13 DEF NetInv, Fresh
  <1>15. Working'
    BY <1>2, <1>6, WorkingStays
  <1> QED
    BY <1>6, <1>10, <1>12, <1>14, <1>15 DEF NetInv

LEMMA ThreadStep ==
  ASSUME NetInv, dlt_user_trace_network_segmented_thread
  PROVE  NetInv'
  <1>1. Typed /\ Apart /\ Fresh /\ queue \in Seq(Nat) /\ traces \in Seq(Trace)
    BY DEF NetInv, Typed
  <1>2. PICK t : t = Head(queue)
    OBVIOUS
  <1>3. /\ queue # <<>> /\ queue' = Tail(queue)
        /\ worker' = [pc |-> "segment", trace |-> t, offset |-> 0, sequence |-> 0]
        /\ UNCHANGED <<callers, stream, traces, netlimit>>
    BY <1>2 DEF dlt_user_trace_network_segmented_thread
  <1>4. /\ 1 \in DOMAIN queue /\ queue[1] = t /\ queue' \in Seq(Nat)
        /\ \A q \in DOMAIN queue' : q + 1 \in DOMAIN queue /\ q + 1 # 1 /\ queue'[q] = queue[q + 1] /\ q \in Nat
    <2>1. Len(queue) \in Nat /\ Len(queue) # 0 /\ DOMAIN queue = 1 .. Len(queue)
      BY <1>1, <1>3
    <2>2. queue' \in Seq(Nat) /\ Len(queue') = Len(queue) - 1 /\ \A q \in 1 .. Len(queue) - 1 : queue'[q] = queue[q + 1]
      BY <1>1, <1>3
    <2> QED
      BY <1>1, <1>2, <1>3, <2>1, <2>2
  <1>5. t \in Nat /\ t \in DOMAIN traces /\ Waits(t)
    BY <1>1, <1>4 DEF Typed, Waits
  <1>6. FreshTrace(t)
    BY <1>1, <1>5 DEF Fresh
  <1>7. worker'.pc = "segment" /\ worker'.trace = t /\ worker'.offset = 0 /\ worker'.sequence = 0
    BY <1>3
  <1>8. traces[t].payload \in Nat
    <2>1. traces[t] \in Trace
      BY <1>1, <1>5
    <2> QED
      BY <2>1 DEF Trace
  <1>9. Typed'
    <2>1. worker' \in [pc : {"idle", "segment", "end"}, trace : Nat, offset : Nat, sequence : Nat]
      BY <1>3, <1>5
    <2>2. worker'.trace \in DOMAIN traces' /\ worker'.offset <= traces'[worker'.trace].payload
      BY <1>3, <1>5, <1>7, <1>8
    <2>3. \A q \in DOMAIN queue' : queue'[q] \in DOMAIN traces'
      BY <1>1, <1>3, <1>4 DEF Typed
    <2> QED
      BY <1>1, <1>3, <1>4, <2>1, <2>2, <2>3 DEF Typed
  <1>10. \A u : Waits(u)' => Waits(u)
    BY <1>3, <1>4 DEF Waits
  <1>11. ~Waits(t)'
    <2>1. \A c \in Callers : ~(callers'[c].pc = "enqueue" /\ callers'[c].trace = t)
      BY <1>1, <1>3, <1>4 DEF Apart
    <2>2. \A q \in DOMAIN queue' : queue'[q] # t
      BY <1>1, <1>4 DEF Apart
    <2> QED
      BY <2>1, <2>2 DEF Waits
  <1>12. Apart'
    <2>1. \A c, d \in Callers :
            callers'[c].pc = "enqueue" /\ callers'[d].pc = "enqueue" /\ callers'[c].trace = callers'[d].trace => c = d
      BY <1>1, <1>3 DEF Apart
    <2>2. \A c \in Callers, q \in DOMAIN queue' : callers'[c].pc = "enqueue" => callers'[c].trace # queue'[q]
      BY <1>1, <1>3, <1>4 DEF Apart
    <2>3. ASSUME NEW q \in DOMAIN queue', NEW r \in DOMAIN queue', queue'[q] = queue'[r] PROVE q = r
      <3>1. q + 1 = r + 1 /\ q \in Nat /\ r \in Nat
        BY <1>1, <1>4, <2>3 DEF Apart
      <3> QED
        BY <3>1
    <2>4. (worker.pc # "idle" => ~Waits(worker.trace))'
      BY <1>7, <1>11 DEF Waits
    <2> QED
      BY <2>1, <2>2, <2>3, <2>4 DEF Apart
  <1>13. Fresh'
    <2> SUFFICES ASSUME NEW u \in DOMAIN traces', Waits(u)' PROVE FreshTrace(u)'
      BY DEF Fresh
    <2>1. FreshTrace(u)
      BY <1>1, <1>3, <1>10 DEF Fresh
    <2> QED
      BY <1>3, <2>1 DEF FreshTrace, Starts
  <1>14. WorkTrace(t, "segment", 0, 0)
    <2>1. Clean(t)
      BY <1>6 DEF FreshTrace, Clean, IsSegment
    <2>2. \A i \in DOMAIN stream : stream[i].trace = t => stream[i].kind # "end"
      BY <1>6 DEF FreshTrace
    <2>3. ASSUME NEW s \in DOMAIN stream PROVE Partial(s, t, 0)
      BY <1>6 DEF FreshTrace, Partial, IsSegment
    <2>4. \/ 0 = 0 * SegmentSize /\ 0 < traces[t].payload
          \/ 0 = traces[t].payload /\ 0 = SegmentCount(traces[t].payload)
      <3>1. SegmentSize \in Nat /\ 0 * SegmentSize = 0
        BY NetAssumption
      <3> QED
        BY <1>8, <3>1, SegmentsCover
    <2> QED
      BY <1>6, <2>1, <2>2, <2>3, <2>4 DEF FreshTrace, WorkTrace
  <1>15. Working'
    <2>1. WorkTrace(t, "segment", 0, 0)'
      BY <1>3, <1>14 DEF WorkTrace, Clean, IsSegment, Whole, Starts, Partial, Piece
    <2> QED
      BY <1>7, <2>1 DEF Working, WorkTrace
  <1>16. EndsWhole' /\ TruncatedFills' /\ NotMixed'
    BY <1>1, <1>3, SilentStays DEF TracesStay, Typed
  <1> QED
    BY <1>9, <1>12, <1>13, <1>15, <1>16 DEF NetInv

LEMMA OtherStep ==
  ASSUME NetInv, UNCHANGED <<callers, queue, worker, stream, traces, netlimit>>
  PROVE  NetInv'
  <1>1. Typed' /\ Apart' /\ Fresh' /\ Working'
    <2>1. Typed'
      BY DEF NetInv, Typed
    <2>2. Apart'
      BY DEF NetInv, Apart, Waits
    <2>3. Fresh'
      BY DEF NetInv, Fresh, FreshTrace, Waits, Starts
    <2>4. Working'
      BY WorkingStays DEF NetInv, WorkTrace, Clean, IsSegment, Whole, Starts, Partial, Piece
    <2> QED
      BY <2>1, <2>2, <2>3, <2>4
  <1>2. EndsWhole' /\ TruncatedFills' /\ NotMixed'
    BY SilentStays DEF NetInv, TracesStay, Typed
  <1> QED
    BY <1>1, <1>2 DEF NetInv

--------------------------------------------------------------------------------
(* The thread sends *)

\* What the other traces rely on, when the thread sends a segment or the end of its trace.
LEMMA ThreadSends ==
  ASSUME NetInv, worker.pc # "idle", traces' \in Seq(Trace), TracesStay, NEW m \in Message, m.trace = worker.trace,
         m.kind = "segment" \/ (m.kind = "end" /\ worker.pc = "end"), Quiet(m),
         UNCHANGED <<callers, queue, netlimit>>
  PROVE  /\ EndsWhole' /\ TruncatedFills' /\ NotMixed' /\ Fresh'
         /\ stream' \in Seq(Message) /\ \A i \in DOMAIN stream' : stream'[i].trace \in DOMAIN traces'
         /\ \A u : Waits(u)' <=> Waits(u)
  <1>1. PICK t : t = worker.trace
    OBVIOUS
  <1>2. /\ Typed /\ t \in DOMAIN traces /\ ~Waits(t) /\ WorkTrace(t, worker.pc, worker.offset, worker.sequence)
        /\ traces \in Seq(Trace)
    BY <1>1 DEF NetInv, Typed, Apart, Working
  <1>3. \A u \in DOMAIN traces : u \in DOMAIN traces'
    BY <1>2 DEF TracesStay
  <1>4. EndsWhole' /\ TruncatedFills' /\ NotMixed'
    <2>1. CASE stream' = stream
      BY <1>2, <2>1, SameStream DEF NetInv
    <2>2. CASE Adds(m)
      <3>1. m.kind = "segment" => \A i \in DOMAIN stream : stream[i].trace = m.trace => stream[i].kind # "end"
        BY <1>1, <1>2 DEF WorkTrace
      <3>2. m.kind = "end" /\ ~traces'[m.trace].spoiled /\ Whole(m.trace) =>
              \E s \in DOMAIN stream : Starts(s, m.trace) /\ Partial(s, m.trace, SegmentCount(traces[m.trace].payload))
        <4>1. t \in 1 .. Len(traces)
          BY <1>2
        <4>2. ~traces'[t].spoiled => ~traces[t].spoiled
          BY <4>1 DEF TracesStay
        <4>3. m.trace = t /\ (m.kind = "end" => worker.pc = "end")
          BY <1>1
        <4> QED
          BY <1>2, <4>2, <4>3 DEF WorkTrace
      <3>3. EndsWhole'
        BY <1>1, <1>2, <2>2, <3>1, <3>2, AddedEnds DEF NetInv
      <3>4. TruncatedFills'
        BY <1>2, <2>2, AddedTruncated DEF NetInv
      <3>5. NotMixed'
        BY <1>1, <1>2, <2>2, AddedNotMixed DEF NetInv, WorkTrace
      <3> QED
        BY <3>3, <3>4, <3>5
    <2> QED
      BY <2>1, <2>2 DEF Quiet
  <1>5. stream' \in Seq(Message) /\ \A i \in DOMAIN stream' : stream'[i].trace \in DOMAIN traces'
    <2>1. CASE stream' = stream
      BY <1>2, <1>3, <2>1 DEF Typed
    <2>2. CASE Adds(m)
      <3>1. \A i \in DOMAIN stream' : stream'[i] = m \/ (i \in DOMAIN stream /\ stream'[i] = stream[i])
        BY <1>2, <2>2, Added
      <3> QED
        BY <1>1, <1>2, <1>3, <2>2, <3>1, Added DEF Typed
    <2> QED
      BY <2>1, <2>2 DEF Quiet
  <1>6. \A u : Waits(u)' <=> Waits(u)
    BY DEF Waits
  <1>7. \A u : Waits(u) => u \in DOMAIN traces /\ u # m.trace
    BY <1>1, <1>2 DEF Waits, Typed
  <1>8. Fresh'
    <2> SUFFICES ASSUME NEW u \in DOMAIN traces', Waits(u)' PROVE FreshTrace(u)'
      BY DEF Fresh
    <2>1. u \in DOMAIN traces /\ u # m.trace /\ FreshTrace(u)
      BY <1>6, <1>7 DEF NetInv, Fresh
    <2> QED
      BY <1>2, <2>1, FreshStays DEF Quiet
  <1> QED
    BY <1>4, <1>5, <1>6, <1>8

\* A segment is added: the order of the segments of this trace and of the others.
LEMMA SegmentClean ==
  ASSUME Typed, NEW m, Quiet(m), NEW t, m.trace = t, m.kind # "end", Clean(t),
         \A i \in DOMAIN stream : stream[i].trace = t => stream[i].kind # "end"
  PROVE  Clean(t)' /\ \A i \in DOMAIN stream' : stream'[i].trace = t => stream'[i].kind # "end"
  <1>1. CASE stream' = stream
    BY <1>1 DEF Clean, IsSegment
  <1>2. CASE Adds(m)
    <2>1. \A i \in DOMAIN stream' : stream'[i] = m \/ (i \in DOMAIN stream /\ stream'[i] = stream[i])
      BY <1>2, Added
    <2>2. \A i, j \in DOMAIN stream' : i < j => i \in DOMAIN stream /\ stream'[i] = stream[i]
      BY <1>2, Added
    <2> QED
      BY <2>1, <2>2 DEF Clean, IsSegment
  <1> QED
    BY <1>1, <1>2 DEF Quiet

\* The next segment follows those that were sent.
LEMMA SegmentPartial ==
  ASSUME Typed, NEW m, Adds(m), traces' = traces, NEW t \in DOMAIN traces, NEW s \in DOMAIN stream, NEW n \in Nat,
         Starts(s, t), Partial(s, t, n), m.kind = "segment", m.trace = t, m.count = n,
         n \in 0 .. SegmentCount(traces[t].payload) - 1, m.length \in 1 .. SegmentSize,
         m.length = IF n = SegmentCount(traces[t].payload) - 1
                      THEN traces[t].payload - (SegmentCount(traces[t].payload) - 1) * SegmentSize ELSE SegmentSize
  PROVE  s \in DOMAIN stream' /\ Starts(s, t)' /\ Partial(s, t, n + 1)'
  <1>1. PICK k : k = Len(stream) + 1
    OBVIOUS
  <1>2. /\ k \in DOMAIN stream' /\ stream'[k] = m /\ s < k
        /\ \A i \in DOMAIN stream : i \in DOMAIN stream' /\ stream'[i] = stream[i] /\ i < k
        /\ \A i \in DOMAIN stream' : i = k \/ (i \in DOMAIN stream /\ stream'[i] = stream[i])
    BY <1>1, Added
  <1>3. s \in DOMAIN stream' /\ Starts(s, t)'
    BY <1>2 DEF Starts
  <1>4. \A i \in DOMAIN stream : IsSegment(i, t)' <=> IsSegment(i, t)
    BY <1>2 DEF IsSegment
  <1>5. IsSegment(k, t)'
    BY <1>2 DEF IsSegment
  <1>6. Piece(s, k, t)'
    BY <1>2 DEF Piece
  <1>7. ASSUME NEW j \in DOMAIN stream', IsSegment(j, t)'
        PROVE  Piece(s, j, t)' /\ stream'[j].count < n + 1
    <2>1. CASE j = k
      BY <1>2, <1>6, <2>1
    <2>2. CASE j # k
      <3>1. j \in DOMAIN stream /\ stream'[j] = stream[j] /\ IsSegment(j, t)
        BY <1>2, <1>4, <1>7, <2>2
      <3>2. Piece(s, j, t) /\ stream[j].count < n /\ stream[j].count \in Nat
        <4>1. stream[j] \in Message
          BY <3>1 DEF Typed
        <4> QED
          BY <3>1, <4>1 DEF Partial, Message
      <3> QED
        BY <3>1, <3>2 DEF Piece
    <2> QED
      BY <2>1, <2>2
  <1>8. ASSUME NEW i \in 0 .. (n + 1) - 1 PROVE \E j \in DOMAIN stream' : IsSegment(j, t)' /\ stream'[j].count = i
    <2>1. CASE i = n
      BY <1>2, <1>5, <2>1
    <2>2. CASE i # n
      <3>1. i \in 0 .. n - 1
        BY <2>2
      <3>2. PICK j \in DOMAIN stream : IsSegment(j, t) /\ stream[j].count = i
        BY <3>1 DEF Partial
      <3> QED
        BY <1>2, <1>4, <3>2
    <2> QED
      BY <2>1, <2>2
  <1>9. ASSUME NEW i \in DOMAIN stream', NEW j \in DOMAIN stream', IsSegment(i, t)', IsSegment(j, t)', i < j
        PROVE  stream'[i].count < stream'[j].count
    <2>1. i \in DOMAIN stream /\ stream'[i] = stream[i] /\ IsSegment(i, t)
      <3>1. i # k
        BY <1>1, <1>9, Added
      <3> QED
        BY <1>2, <1>4, <1>9, <3>1
    <2>2. CASE j = k
      BY <1>2, <2>1, <2>2 DEF Partial
    <2>3. CASE j # k
      BY <1>2, <1>4, <1>9, <2>1, <2>3 DEF Partial
    <2> QED
      BY <2>2, <2>3
  <1> QED
    BY <1>3, <1>7, <1>8, <1>9 DEF Partial

LEMMA SegmentStep ==
  ASSUME NetInv, dlt_user_trace_network_segmented_segment
  PROVE  NetInv'
  <1>1. PICK t, p, offset, n : t = worker.trace /\ p = traces[t].payload /\ offset = worker.offset /\ n = worker.sequence
    OBVIOUS
  <1>2. worker.pc = "segment" /\ UNCHANGED <<callers, queue, netlimit>>
    BY DEF dlt_user_trace_network_segmented_segment
  <1>3. /\ Typed /\ Apart /\ traces \in Seq(Trace) /\ t \in DOMAIN traces /\ t \in 1 .. Len(traces)
        /\ ~Waits(t) /\ WorkTrace(t, "segment", offset, n)
        /\ offset \in Nat /\ n \in Nat /\ t \in Nat /\ offset <= p
        /\ worker \in [pc : {"idle", "segment", "end"}, trace : Nat, offset : Nat, sequence : Nat]
    BY <1>1, <1>2 DEF NetInv, Typed, Apart, Working
  <1>4. p \in Nat /\ traces[t].address \in Nat
    <2>1. traces[t] \in Trace
      BY <1>3
    <2> QED
      BY <1>1, <2>1 DEF Trace
  <1>5. PICK len : len = SegmentLength(t, offset)
    OBVIOUS
  <1>6. SegmentSize \in Nat \ {0} /\ AddressSpace \in Nat
    BY NetAssumption
  <1>7. len \in Nat /\ offset + len <= p /\ len = IF offset + SegmentSize > p THEN p - offset ELSE SegmentSize
    BY <1>1, <1>3, <1>4, <1>5, <1>6 DEF SegmentLength
  <1>8. PICK m : m = [kind |-> "segment", trace |-> t, length |-> len, count |-> n]
    OBVIOUS
  <1>9. m \in Message /\ m.kind = "segment" /\ m.trace = t /\ m.length = len /\ m.count = n
    BY <1>3, <1>7, <1>8 DEF Message
  <1>10. PICK ok \in BOOLEAN, pc \in {"segment", "end"}, o \in {offset, offset + len}, k \in {n, n + 1} :
           /\ worker' = [worker EXCEPT !.sequence = k, !.offset = o, !.pc = pc]
           /\ \/ stream' = stream /\ traces' = traces /\ len = 0 /\ pc = "end" /\ o = offset /\ k = n
              \/ /\ stream' = stream /\ traces' = Spoil(t, traces)
              \/ /\ stream' = Append(stream, m) /\ traces' = traces /\ k = n + 1 /\ o = offset + len /\ len # 0
                 /\ pc = IF offset + len < LoopEnd(t) THEN "segment" ELSE "end"
    <2>1. CASE len = 0
      <3>1. worker' = [worker EXCEPT !.pc = "end"] /\ UNCHANGED <<stream, traces, netused>>
        BY <1>1, <1>5, <2>1 DEF dlt_user_trace_network_segmented_segment
      <3>2. worker' = [worker EXCEPT !.sequence = n, !.offset = offset, !.pc = "end"]
        BY <1>1, <1>3, <3>1
      <3> QED
        BY <2>1, <3>1, <3>2
    <2>2. CASE len # 0
      <3>1. PICK ok \in BOOLEAN :
              /\ Send(t, m, traces, ok)
              /\ worker' = [worker EXCEPT
                   !.sequence = @ + 1,
                   !.offset = IF ok THEN @ + len ELSE @,
                   !.pc = IF ok /\ worker.offset + len < LoopEnd(t) THEN "segment" ELSE "end"]
        BY <1>1, <1>5, <1>8, <2>2 DEF dlt_user_trace_network_segmented_segment
      <3>2. PICK pc \in {"segment", "end"}, o \in {offset, offset + len} :
              /\ pc = IF ok /\ offset + len < LoopEnd(t) THEN "segment" ELSE "end"
              /\ o = IF ok THEN offset + len ELSE offset
        OBVIOUS
      <3>3. worker' = [worker EXCEPT !.sequence = n + 1, !.offset = o, !.pc = pc]
        BY <1>1, <1>3, <3>1, <3>2
      <3>4. \/ stream' = stream /\ traces' = Spoil(t, traces)
            \/ ok /\ stream' = Append(stream, m) /\ traces' = traces
        BY <3>1, SendIs
      <3> QED
        BY <2>2, <3>2, <3>3, <3>4
    <2> QED
      BY <2>1, <2>2
  <1>11. /\ worker' \in [pc : {"idle", "segment", "end"}, trace : Nat, offset : Nat, sequence : Nat]
         /\ worker'.pc = pc /\ worker'.trace = t /\ worker'.offset = o /\ worker'.sequence = k
         /\ pc # "idle" /\ o <= p
    <2>1. o \in Nat /\ o <= p /\ k \in Nat /\ pc \in {"idle", "segment", "end"} /\ pc # "idle"
      BY <1>3, <1>4, <1>7, <1>10
    <2>2. worker' = [worker EXCEPT !.sequence = k, !.offset = o, !.pc = pc]
      BY <1>10
    <2> QED
      BY <1>1, <1>3, <2>1, <2>2
  <1>12. /\ traces' \in Seq(Trace) /\ Len(traces') = Len(traces) /\ TracesStay /\ traces'[t].payload = p
         /\ traces' # traces => traces'[t].spoiled
    <2>1. CASE traces' = traces
      BY <1>1, <1>3, <2>1 DEF TracesStay
    <2>2. CASE traces' = Spoil(t, traces)
      <3>1. /\ Spoil(t, traces) \in Seq(Trace) /\ Len(Spoil(t, traces)) = Len(traces)
            /\ \A u \in 1 .. Len(traces) : u # t => Spoil(t, traces)[u] = traces[u]
            /\ Spoil(t, traces)[t].header = traces[t].header /\ Spoil(t, traces)[t].payload = traces[t].payload
            /\ Spoil(t, traces)[t].address = traces[t].address /\ Spoil(t, traces)[t].spoiled
        BY <1>3, SpoilIs
      <3> QED
        BY <1>1, <1>3, <2>2, <3>1 DEF TracesStay
    <2> QED
      BY <1>10, <2>1, <2>2
  <1>13. Quiet(m)
    BY <1>9, <1>10 DEF Quiet, Adds
  <1>14. /\ EndsWhole' /\ TruncatedFills' /\ NotMixed' /\ Fresh'
         /\ stream' \in Seq(Message) /\ \A i \in DOMAIN stream' : stream'[i].trace \in DOMAIN traces'
         /\ \A u : Waits(u)' <=> Waits(u)
    BY <1>1, <1>2, <1>9, <1>12, <1>13, ThreadSends
  <1>15. Typed'
    <2>1. DOMAIN traces' = DOMAIN traces
      BY <1>3, <1>12
    <2>2. worker'.trace \in DOMAIN traces' /\ worker'.offset <= traces'[worker'.trace].payload
      BY <1>3, <1>11, <1>12, <2>1
    <2> QED
      BY <1>2, <1>3, <1>11, <1>12, <1>14, <2>1, <2>2 DEF Typed
  <1>16. Apart'
    <2>1. (worker.pc # "idle" => ~Waits(worker.trace))'
      <3>1. ~Waits(t)'
        BY <1>3, <1>14
      <3> QED
        BY <1>11, <3>1 DEF Waits
    <2> QED
      BY <1>2, <1>3, <2>1 DEF Apart
  <1>17. Clean(t)' /\ \A i \in DOMAIN stream' : stream'[i].trace = t => stream'[i].kind # "end"
    BY <1>3, <1>9, <1>13, SegmentClean DEF WorkTrace
  <1>18. ASSUME ~traces'[t].spoiled, Whole(t)'
         PROVE  /\ \E s \in DOMAIN stream' : Starts(s, t)' /\ Partial(s, t, k)'
                /\ \/ o = k * SegmentSize /\ o < p /\ pc = "segment"
                   \/ o = p /\ k = SegmentCount(p)
    <2>1. traces' = traces /\ ~traces[t].spoiled /\ Whole(t)
      BY <1>12, <1>18 DEF Whole
    <2>2. PICK s \in DOMAIN stream : Starts(s, t) /\ Partial(s, t, n)
      BY <1>3, <2>1 DEF WorkTrace
    <2>3. (offset = n * SegmentSize /\ offset < p) \/ (offset = p /\ n = SegmentCount(p))
      BY <1>1, <1>3, <2>1 DEF WorkTrace
    <2>4. CASE len = 0
      <3>1. offset = p /\ n = SegmentCount(p)
        BY <1>3, <1>4, <1>6, <1>7, <2>3, <2>4
      <3>2. stream' = stream /\ o = offset /\ k = n
        <4>1. traces' # Spoil(t, traces)
          BY <1>3, <2>1, SpoilIs
        <4> QED
          BY <1>10, <2>4, <4>1
      <3>3. Starts(s, t)' /\ Partial(s, t, k)'
        BY <2>1, <2>2, <3>2 DEF Starts, Partial, Piece, IsSegment
      <3> QED
        BY <3>1, <3>2, <3>3
    <2>5. CASE len # 0
      <3>1. offset = n * SegmentSize /\ n * SegmentSize < p
        BY <1>4, <1>6, <1>7, <2>3, <2>5
      <3>2. /\ stream' = Append(stream, m) /\ k = n + 1 /\ o = offset + len
            /\ pc = IF offset + len < LoopEnd(t) THEN "segment" ELSE "end"
        <4>1. traces' # Spoil(t, traces)
          BY <1>3, <2>1, SpoilIs
        <4> QED
          BY <1>10, <2>5, <4>1
      <3> DEFINE c == SegmentCount(p)
      <3>3. /\ c \in Nat /\ n \in 0 .. c - 1 /\ len \in 1 .. SegmentSize
            /\ len = IF n = c - 1 THEN p - (c - 1) * SegmentSize ELSE SegmentSize
            /\ n = c - 1 => offset + len = p
            /\ n # c - 1 => offset + len = (n + 1) * SegmentSize /\ (n + 1) * SegmentSize < p
        BY <1>3, <1>4, <1>7, <3>1, SegmentIs
      <3>4. LoopEnd(t) = traces[t].address + p
        <4>1. traces[t].address + p \in Nat /\ traces[t].address + p < AddressSpace
          BY <1>1, <1>4, <2>1 DEF Whole
        <4> QED
          BY <1>1, <1>6, <4>1, ModBelow DEF LoopEnd
      <3>5. \E q \in DOMAIN stream' : Starts(q, t)' /\ Partial(q, t, k)'
        <4>1. Adds(m)
          BY <1>9, <3>2 DEF Adds
        <4>2. /\ n \in 0 .. SegmentCount(traces[t].payload) - 1 /\ m.length \in 1 .. SegmentSize
              /\ m.length = IF n = SegmentCount(traces[t].payload) - 1
                              THEN traces[t].payload - (SegmentCount(traces[t].payload) - 1) * SegmentSize ELSE SegmentSize
          BY <1>1, <1>9, <3>3
        <4>3. s \in DOMAIN stream' /\ Starts(s, t)' /\ Partial(s, t, n + 1)'
          BY <1>3, <1>9, <2>1, <2>2, <4>1, <4>2, SegmentPartial
        <4> QED
          BY <3>2, <4>3
      <3> HIDE DEF c
      <3>6. CASE n = c - 1
        <4>1. k = c /\ o = p
          BY <1>3, <3>2, <3>3, <3>6
        <4> QED
          BY <3>5, <4>1 DEF c
      <3>7. CASE n # c - 1
        <4>1. offset + len < LoopEnd(t)
          BY <1>3, <1>4, <1>6, <1>7, <3>3, <3>4, <3>7
        <4> QED
          BY <3>2, <3>3, <3>5, <3>7, <4>1
      <3> QED
        BY <3>6, <3>7
    <2> QED
      BY <2>4, <2>5
  <1>19. WorkTrace(t, pc, o, k)'
    BY <1>12, <1>17, <1>18 DEF WorkTrace
  <1>20. Working'
    BY <1>11, <1>19 DEF Working, WorkTrace
  <1> QED
    BY <1>14, <1>15, <1>16, <1>20 DEF NetInv

LEMMA EndStep ==
  ASSUME NetInv, dlt_user_trace_network_segmented_end
  PROVE  NetInv'
  <1>1. PICK t : t = worker.trace
    OBVIOUS
  <1>2. /\ worker.pc = "end" /\ worker' = [worker EXCEPT !.pc = "idle", !.trace = NoTrace]
        /\ UNCHANGED <<callers, queue, netlimit>>
    BY DEF dlt_user_trace_network_segmented_end
  <1>3. /\ Typed /\ Apart /\ traces \in Seq(Trace) /\ t \in DOMAIN traces /\ t \in 1 .. Len(traces) /\ t \in Nat
        /\ worker \in [pc : {"idle", "segment", "end"}, trace : Nat, offset : Nat, sequence : Nat]
    BY <1>1, <1>2 DEF NetInv, Typed
  <1>4. PICK m : m = [kind |-> "end", trace |-> t, length |-> 0, count |-> 0]
    OBVIOUS
  <1>5. m \in Message /\ m.kind = "end" /\ m.trace = t
    BY <1>3, <1>4 DEF Message
  <1>6. PICK ts : ts = [traces EXCEPT ![t].ended = TRUE]
    OBVIOUS
  <1>7. PICK ok \in BOOLEAN : Send(t, m, ts, ok)
    BY <1>1, <1>4, <1>6 DEF dlt_user_trace_network_segmented_end
  <1>8. /\ ts \in Seq(Trace) /\ Len(ts) = Len(traces)
        /\ \A u \in 1 .. Len(traces) :
             /\ ts[u].header = traces[u].header /\ ts[u].payload = traces[u].payload
             /\ ts[u].address = traces[u].address /\ ts[u].spoiled = traces[u].spoiled
    <2> DEFINE r == [traces[t] EXCEPT !.ended = TRUE]
    <2>1. ts = [traces EXCEPT ![t] = r]
      BY <1>6
    <2>2. traces[t] \in Trace
      BY <1>3
    <2>3. /\ r \in Trace /\ r.header = traces[t].header /\ r.payload = traces[t].payload
          /\ r.address = traces[t].address /\ r.spoiled = traces[t].spoiled
      BY <2>2 DEF Trace
    <2> HIDE DEF r
    <2> QED
      BY <1>3, <2>1, <2>3
  <1>9. traces' \in Seq(Trace) /\ Len(traces') = Len(traces) /\ TracesStay
    <2>1. CASE traces' = ts
      BY <1>3, <1>8, <2>1 DEF TracesStay
    <2>2. CASE traces' = Spoil(t, ts)
      <3>1. t \in 1 .. Len(ts)
        BY <1>3, <1>8
      <3>2. /\ Spoil(t, ts) \in Seq(Trace) /\ Len(Spoil(t, ts)) = Len(ts)
            /\ \A u \in 1 .. Len(ts) : u # t => Spoil(t, ts)[u] = ts[u]
            /\ Spoil(t, ts)[t].header = ts[t].header /\ Spoil(t, ts)[t].payload = ts[t].payload
            /\ Spoil(t, ts)[t].address = ts[t].address /\ Spoil(t, ts)[t].spoiled
        BY <1>8, <3>1, SpoilIs
      <3> QED
        BY <1>3, <1>8, <2>2, <3>2 DEF TracesStay
    <2> QED
      BY <1>7, <2>1, <2>2, SendIs
  <1>10. Quiet(m)
    BY <1>5, <1>7, SendIs DEF Quiet, Adds
  <1>11. /\ EndsWhole' /\ TruncatedFills' /\ NotMixed' /\ Fresh'
         /\ stream' \in Seq(Message) /\ \A i \in DOMAIN stream' : stream'[i].trace \in DOMAIN traces'
    BY <1>1, <1>2, <1>5, <1>9, <1>10, ThreadSends
  <1>12. /\ worker' \in [pc : {"idle", "segment", "end"}, trace : Nat, offset : Nat, sequence : Nat]
         /\ worker'.pc = "idle"
    BY <1>2, <1>3 DEF NoTrace
  <1>13. Typed'
    <2>1. DOMAIN traces' = DOMAIN traces
      BY <1>3, <1>9
    <2> QED
      BY <1>2, <1>3, <1>9, <1>11, <1>12, <2>1 DEF Typed
  <1>14. Apart'
    BY <1>2, <1>3, <1>12 DEF Apart
  <1>15. Working'
    BY <1>12 DEF Working
  <1> QED
    BY <1>11, <1>13, <1>14, <1>15 DEF NetInv

--------------------------------------------------------------------------------
(* The theorem *)

LEMMA NetInvInit == NetInit => NetInv
  <1> SUFFICES ASSUME NetInit PROVE NetInv
    OBVIOUS
  <1>1. /\ netlimit \in NetLimits /\ stream = <<>> /\ traces = <<>> /\ queue = <<>> /\ worker.pc = "idle"
        /\ worker = [pc |-> "idle", trace |-> NoTrace, offset |-> 0, sequence |-> 0]
        /\ callers = [c \in Callers |-> [pc |-> "idle", trace |-> NoTrace]]
    BY DEF NetInit
  <1>2. /\ stream \in Seq(Message) /\ traces \in Seq(Trace) /\ queue \in Seq(Nat)
        /\ DOMAIN stream = {} /\ DOMAIN queue = {}
    BY <1>1
  <1>3. Typed
    BY <1>1, <1>2 DEF Typed, NoTrace
  <1>4. \A c \in Callers : callers[c].pc = "idle"
    BY <1>1
  <1>5. \A t : ~Waits(t)
    BY <1>2, <1>4 DEF Waits
  <1>6. Apart /\ Fresh /\ Working
    BY <1>1, <1>2, <1>4, <1>5 DEF Apart, Fresh, Working
  <1>7. EndsWhole /\ TruncatedFills /\ NotMixed
    BY <1>2 DEF EndsWhole, TruncatedFills, NotMixed
  <1> QED
    BY <1>3, <1>6, <1>7 DEF NetInv

LEMMA NetInvStep == NetInv /\ [NetNext]_netvars => NetInv'
  <1> SUFFICES ASSUME NetInv, [NetNext]_netvars PROVE NetInv'
    OBVIOUS
  <1>1. ASSUME NEW c \in Callers, SendAtOnce(c) PROVE NetInv'
    BY <1>1, SendAtOnceStep
  <1>2. ASSUME NEW c \in Callers, SendTruncated(c) PROVE NetInv'
    BY <1>2, SendTruncatedStep
  <1>3. ASSUME NEW c \in Callers, dlt_user_trace_network_segmented_start(c) PROVE NetInv'
    BY <1>3, StartStep
  <1>4. ASSUME NEW c \in Callers, Enqueue(c) PROVE NetInv'
    BY <1>4, EnqueueStep
  <1>5. CASE dlt_user_trace_network_segmented_thread
    BY <1>5, ThreadStep
  <1>6. CASE dlt_user_trace_network_segmented_segment
    BY <1>6, SegmentStep
  <1>7. CASE dlt_user_trace_network_segmented_end
    BY <1>7, EndStep
  <1>8. CASE SwitchStatus \/ Fill \/ Resend \/ UNCHANGED netvars
    BY <1>8, OtherStep DEF SwitchStatus, Fill, Resend, netvars
  <1> QED
    BY <1>1, <1>2, <1>3, <1>4, <1>5, <1>6, <1>7, <1>8 DEF NetNext, WorkerStep

\* Where no other trace uses the handle between start and end, the segments with the handle are those
\* of the trace.
LEMMA EndsByHandle ==
  ASSUME Typed, EndsWhole
  PROVE  EndsComplete
  <1> SUFFICES ASSUME NEW e \in DOMAIN stream, stream[e].kind = "end", ~traces[stream[e].trace].spoiled,
                      traces[stream[e].trace].address + traces[stream[e].trace].payload < AddressSpace
               PROVE  \E s \in 1 .. e - 1 :
                        /\ stream[s].kind = "start" /\ stream[s].trace = stream[e].trace
                        /\ stream[s].length = traces[stream[e].trace].payload
                        /\ Alone(s, e) => Reassembled(s, e)
    BY DEF EndsComplete
  <1>1. PICK s \in 1 .. e - 1 :
          /\ stream[s].kind = "start" /\ stream[s].trace = stream[e].trace
          /\ stream[s].length = traces[stream[e].trace].payload
          /\ PutTogether(s, e)
    BY DEF EndsWhole
  <1>2. ASSUME Alone(s, e) PROVE Reassembled(s, e)
    <2> DEFINE t == stream[s].trace
    <2>1. Len(stream) \in Nat /\ DOMAIN stream = 1 .. Len(stream) /\ e \in 1 .. Len(stream)
      BY DEF Typed
    <2>2. \A j \in s + 1 .. e - 1 : j \in DOMAIN stream /\ j \in s .. e
      BY <2>1
    <2>3. \A j \in SegmentsOf(s, e) : j \in DOMAIN stream /\ IsSegment(j, t)
      BY <1>1, <1>2, <2>2 DEF Alone, SegmentsOf, Streamed, IsSegment
    <2>4. \A j \in DOMAIN stream : IsSegment(j, t) => j \in s + 1 .. e - 1
      BY <1>1, <2>1 DEF PutTogether
    <2>5. \A j \in DOMAIN stream : IsSegment(j, t) => j \in SegmentsOf(s, e)
      BY <1>1, <2>4 DEF SegmentsOf, IsSegment, Handle
    <2> QED
      BY <1>1, <2>3, <2>5 DEF Reassembled, PutTogether
  <1> QED
    BY <1>1, <1>2

\* Whatever the callers trace, of which sizes, however often messages are refused, the status changes
\* or the queue is full, and whatever the stream handles are: a trace whose end was sent can be put
\* together again where no other trace used its handle meanwhile, a truncated one uses the message up, and the segments of two traces are not mixed (dlt_user_trace_network_segmented,
\* dlt_user_trace_network_segmented_thread, dlt_user_trace_network_truncated).
THEOREM TracesAreExact == NetSpec => []TracesExact
  <1>1. NetInv => TracesExact
    BY EndsByHandle DEF NetInv, TracesExact
  <1> QED
    BY <1>1, NetInvInit, NetInvStep, PTL DEF NetSpec
================================================================================
