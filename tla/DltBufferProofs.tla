---------------------------- MODULE DltBufferProofs ----------------------------
(* The ring buffer of DltBuffer is correct for every capacity, growth step and *)
(* set of messages.                                                            *)
EXTENDS DltBuffer, SequenceTheorems, TLAPS

--------------------------------------------------------------------------------
(* Facts about the operators *)

\* The memory after the two block writes of dlt_buffer_push3 at w.
Written(m, sz, w, hd, h, pl, s) ==
  WriteBlock(WriteBlock(m, sz, w, hd, h), sz, Advance(sz, w, h), pl, s)

\* The cell at distance d from r.
Pos(sz, r, d) == IF r + d < sz THEN r + d ELSE r + d - sz

LEMMA AtIsPos == \A d : At(d) = Pos(size, read, d)
  BY DEF At, Pos

LEMMA AdvanceTwice ==
  ASSUME NEW sz \in Nat, NEW p \in 0 .. sz, NEW a \in Nat, NEW b \in Nat, a + b <= sz
  PROVE  Advance(sz, Advance(sz, p, a), b) = Advance(sz, p, a + b)
  BY DEF Advance

LEMMA PosShift ==
  ASSUME NEW sz \in Nat, NEW p \in 0 .. sz, NEW b \in Nat \ {0}, NEW d \in Nat, d + b < sz
  PROVE  Pos(sz, Advance(sz, p, b), d) = Pos(sz, p, d + b)
  BY DEF Advance, Pos

LEMMA Within ==
  ASSUME NEW a \in Nat, NEW b \in Nat, NEW c \in Nat, NEW u \in Nat, a + b + c <= u
  PROVE  /\ \A k \in 0 .. b - 1 : a + k \in 0 .. u - 1
         /\ \A k \in 0 .. c - 1 : a + b + k \in 0 .. u - 1
  OBVIOUS

\* new is m with header hd and payload pl right behind the u used cells, and wp
\* is the position behind them.
Appended(new, wp, m, sz, r, u, hd, h, pl, s) ==
  /\ \A d \in 0 .. u - 1 : new[Pos(sz, r, d)] = m[Pos(sz, r, d)]
  /\ \A k \in 0 .. h - 1 : new[Pos(sz, r, u + k)] = hd[k]
  /\ \A k \in 0 .. s - 1 : new[Pos(sz, r, u + h + k)] = pl[k]
  /\ wp = Advance(sz, r, u + h + s)

\* The two block writes append the entry and leave the used cells alone.
LEMMA PushCells ==
  ASSUME NEW sz \in Nat, NEW r \in 0 .. sz, NEW u \in Nat, NEW h \in Nat, NEW s \in Nat,
         u + h + s <= sz, NEW m, NEW hd, NEW pl
  PROVE  Appended(Written(m, sz, Advance(sz, r, u), hd, h, pl, s),
                  Advance(sz, Advance(sz, Advance(sz, r, u), h), s),
                  m, sz, r, u, hd, h, pl, s)
<1> DEFINE w == Advance(sz, r, u)
           w2 == Advance(sz, w, h)
           new == WriteBlock(WriteBlock(m, sz, w, hd, h), sz, w2, pl, s)
           pos(d) == IF r + d < sz THEN r + d ELSE r + d - sz
<1>1. w \in 0 .. sz /\ w2 \in 0 .. sz
  BY DEF Advance
<1>2. \A i \in 0 .. sz - 1 :
        new[i] = IF w2 <= i /\ i < w2 + s THEN pl[i - w2]
                 ELSE IF i < w2 + s - sz THEN pl[i + sz - w2]
                 ELSE IF w <= i /\ i < w + h THEN hd[i - w]
                 ELSE IF i < w + h - sz THEN hd[i + sz - w]
                 ELSE m[i]
  BY <1>1 DEF WriteBlock
<1>3. ASSUME NEW d \in 0 .. u - 1 PROVE new[pos(d)] = m[pos(d)]
  <2> pos(d) \in 0 .. sz - 1
    OBVIOUS
  <2> QED BY <1>2 DEF Advance
<1>4. ASSUME NEW k \in 0 .. h - 1 PROVE new[pos(u + k)] = hd[k]
  <2> pos(u + k) \in 0 .. sz - 1
    OBVIOUS
  <2> QED BY <1>2 DEF Advance
<1>5. ASSUME NEW k \in 0 .. s - 1 PROVE new[pos(u + h + k)] = pl[k]
  <2> pos(u + h + k) \in 0 .. sz - 1
    OBVIOUS
  <2> QED BY <1>2 DEF Advance
<1>6. Advance(sz, w2, s) = Advance(sz, r, u + h + s)
  BY DEF Advance
<1> QED BY <1>3, <1>4, <1>5, <1>6 DEF Written, Pos, Appended

\* A block is never empty.
LEMMA BlockLenType == \A m \in Message : BlockLen(m) \in Nat \ {0}
  BY MessageAssumption, SizeAssumption DEF BlockLen

\* What the type of the history gives, and that every entry lies below the used
\* bytes.
LEMMA HistoryFacts ==
  ASSUME queue \in Seq(Message), start \in Seq(Nat), Len(start) = Len(queue) + 1,
         Contiguous
  PROVE  /\ Len(queue) \in Nat
         /\ \A i \in 1 .. Len(queue) : queue[i] \in Message
         /\ \A i \in 1 .. Len(queue) + 1 : start[i] \in Nat
         /\ UsedBytes \in Nat
         /\ \A i \in 1 .. Len(queue) : start[i] + BlockLen(queue[i]) <= UsedBytes
         /\ Len(queue) = 0 => UsedBytes = 0
         /\ Len(queue) > 0 => UsedBytes > 0
<1>1. /\ Len(queue) \in Nat
      /\ \A i \in 1 .. Len(queue) : queue[i] \in Message
      /\ \A i \in 1 .. Len(queue) + 1 : start[i] \in Nat
  OBVIOUS
<1>2. UsedBytes \in Nat
  BY <1>1 DEF UsedBytes
<1>3. \A i \in 1 .. Len(queue) : start[i] + BlockLen(queue[i]) <= UsedBytes
  <2> SUFFICES ASSUME NEW i \in 1 .. Len(queue)
               PROVE  start[i + 1] <= UsedBytes
    BY DEF Contiguous
  <2>1. CASE i = Len(queue)
    BY <2>1, <1>1 DEF UsedBytes
  <2>2. CASE i < Len(queue)
    BY <2>2, <1>1 DEF UsedBytes, Contiguous
  <2> QED BY <2>1, <2>2, <1>1
<1>4. (Len(queue) = 0 => UsedBytes = 0) /\ (Len(queue) > 0 => UsedBytes > 0)
  BY <1>1 DEF UsedBytes, Contiguous
<1> QED BY <1>1, <1>2, <1>3, <1>4

\* Adding an entry adds its bytes to the used bytes, and entries stay apart.
LEMMA EnqueueFacts ==
  ASSUME queue \in Seq(Message), start \in Seq(Nat), Len(start) = Len(queue) + 1,
         Contiguous, NEW m \in Message, Enqueue(m)
  PROVE  /\ queue' \in Seq(Message) /\ start' \in Seq(Nat)
         /\ Len(queue') = Len(queue) + 1
         /\ Len(start') = Len(queue') + 1
         /\ \A i \in 1 .. Len(queue) : queue'[i] = queue[i]
         /\ \A i \in 1 .. Len(queue) + 1 : start'[i] = start[i]
         /\ queue'[Len(queue) + 1] = m
         /\ UsedBytes' = UsedBytes + BlockLen(m)
         /\ Contiguous'
<1> DEFINE n == Len(queue)
<1>0. BlockLen(m) \in Nat \ {0}
  BY BlockLenType
<1>1. n \in Nat /\ UsedBytes \in Nat
      /\ (\A i \in 1 .. n : queue[i] \in Message)
      /\ (\A i \in 1 .. n + 1 : start[i] \in Nat)
  BY HistoryFacts
<1>2. /\ queue' = Append(queue, m)
      /\ start' = Append(start, UsedBytes + BlockLen(m))
  BY DEF Enqueue
<1>3. /\ queue' \in Seq(Message) /\ Len(queue') = n + 1
      /\ \A i \in 1 .. n : queue'[i] = queue[i]
      /\ queue'[n + 1] = m
  BY <1>2
<1>4. /\ start' \in Seq(Nat) /\ Len(start') = n + 2
      /\ \A i \in 1 .. n + 1 : start'[i] = start[i]
      /\ start'[n + 2] = UsedBytes + BlockLen(m)
  BY <1>0, <1>1, <1>2
<1>5. UsedBytes' = UsedBytes + BlockLen(m)
  BY <1>1, <1>3, <1>4 DEF UsedBytes
<1>6. start'[1] = 0
  BY <1>1, <1>4 DEF Contiguous
<1>7. ASSUME NEW i \in 1 .. Len(queue')
      PROVE  start'[i + 1] = start'[i] + BlockLen(queue'[i])
  <2>1. CASE i = n + 1
    BY <2>1, <1>1, <1>3, <1>4 DEF UsedBytes
  <2>2. CASE i \in 1 .. n
    <3>1. i \in 1 .. n + 1 /\ i + 1 \in 1 .. n + 1
      BY <2>2, <1>1
    <3> QED BY <2>2, <3>1, <1>3, <1>4 DEF Contiguous
  <2> QED BY <2>1, <2>2, <1>1, <1>3
<1>8. ASSUME NEW i \in 1 .. Len(queue') + 1, NEW j \in 1 .. Len(queue') + 1, i < j
      PROVE  start'[i] < start'[j]
  <2>1. i \in 1 .. n + 1 /\ start'[i] = start[i] /\ start[i] <= UsedBytes
    BY <1>8, <1>1, <1>3, <1>4 DEF UsedBytes, Contiguous
  <2>2. CASE j = n + 2
    BY <2>1, <2>2, <1>0, <1>1, <1>4
  <2>3. CASE j \in 1 .. n + 1
    BY <2>1, <2>3, <1>1, <1>4, <1>8 DEF Contiguous
  <2> QED BY <2>2, <2>3, <1>1, <1>3
<1>9. Contiguous'
  BY <1>6, <1>7, <1>8 DEF Contiguous, BlockLen
<1> QED BY <1>1, <1>3, <1>4, <1>5, <1>9

\* Removing the oldest entry takes its bytes off the used bytes and moves the
\* others up by as much.
LEMMA DequeueFacts ==
  ASSUME queue \in Seq(Message), start \in Seq(Nat), Len(start) = Len(queue) + 1,
         Contiguous, Len(queue) > 0, Dequeue
  PROVE  /\ queue' = Tail(queue)
         /\ queue' \in Seq(Message) /\ start' \in Seq(Nat)
         /\ Len(queue') = Len(queue) - 1
         /\ Len(start') = Len(queue') + 1
         /\ \A i \in 1 .. Len(queue) - 1 : queue'[i] = queue[i + 1]
         /\ \A i \in 1 .. Len(queue) : start'[i] = start[i + 1] - BlockLen(queue[1])
         /\ \A i \in 1 .. Len(queue) : start[i + 1] >= BlockLen(queue[1])
         /\ UsedBytes' = UsedBytes - BlockLen(queue[1])
         /\ Contiguous'
<1> DEFINE n == Len(queue)
<1>1. n \in Nat \ {0} /\ UsedBytes \in Nat
      /\ (\A i \in 1 .. n : queue[i] \in Message)
      /\ (\A i \in 1 .. n + 1 : start[i] \in Nat)
  BY HistoryFacts
<1>2. start[2] = BlockLen(queue[1]) /\ BlockLen(queue[1]) \in Nat \ {0}
  BY <1>1, BlockLenType DEF Contiguous
<1>3. \A i \in 1 .. n : start[i + 1] >= start[2]
  BY <1>1 DEF Contiguous
<1>4. /\ queue' = Tail(queue)
      /\ start' = [i \in 1 .. n |-> start[i + 1] - start[2]]
  BY <1>1 DEF Dequeue
<1>5. /\ queue' \in Seq(Message) /\ Len(queue') = n - 1
      /\ \A i \in 1 .. n - 1 : queue'[i] = queue[i + 1]
  BY <1>1, <1>4
<1>6. \A i \in 1 .. n : start[i + 1] - start[2] \in Nat
  BY <1>1, <1>3
<1>7. /\ start' \in Seq(Nat) /\ Len(start') = n
      /\ \A i \in 1 .. n : start'[i] = start[i + 1] - start[2]
  <2>1. start' \in [1 .. n -> Nat]
    BY <1>4, <1>6
  <2>2. \A i \in 1 .. n : start'[i] = start[i + 1] - start[2]
    BY <1>4
  <2>3. start' \in Seq(Nat) /\ Len(start') = n
    BY <2>1, <1>1
  <2> QED BY <2>2, <2>3
<1>8. UsedBytes' = UsedBytes - BlockLen(queue[1])
  <2>1. n \in 1 .. n /\ Len(queue') + 1 = n
    BY <1>1, <1>5
  <2> QED BY <2>1, <1>2, <1>7 DEF UsedBytes
<1>9. start'[1] = 0
  BY <1>1, <1>7
<1>10. ASSUME NEW i \in 1 .. Len(queue')
       PROVE  start'[i + 1] = start'[i] + BlockLen(queue'[i])
  <2>1. i \in 1 .. n - 1 /\ i \in 1 .. n /\ i + 1 \in 1 .. n /\ i + 1 + 1 \in 1 .. n + 1
    BY <1>1, <1>5
  <2>2. start[i + 1 + 1] = start[i + 1] + BlockLen(queue[i + 1])
    BY <2>1, <1>1 DEF Contiguous
  <2>3. start'[i] = start[i + 1] - start[2] /\ start'[i + 1] = start[i + 1 + 1] - start[2]
    BY <2>1, <1>1, <1>7
  <2>4. queue'[i] = queue[i + 1] /\ BlockLen(queue[i + 1]) \in Nat
    BY <2>1, <1>1, <1>5, BlockLenType
  <2>5. start[i + 1] \in Nat /\ start[2] \in Nat
    BY <2>1, <1>1, <1>2
  <2> QED BY <2>2, <2>3, <2>4, <2>5
<1>11. ASSUME NEW i \in 1 .. Len(queue') + 1, NEW j \in 1 .. Len(queue') + 1, i < j
       PROVE  start'[i] < start'[j]
  <2>1. /\ i \in 1 .. n /\ i + 1 \in 1 .. n + 1
        /\ j \in 1 .. n /\ j + 1 \in 1 .. n + 1 /\ i + 1 < j + 1
    BY <1>1, <1>5, <1>11
  <2>2. start[i + 1] < start[j + 1]
    BY <2>1, <1>1, <1>11 DEF Contiguous
  <2>3. start[i + 1] \in Nat /\ start[j + 1] \in Nat /\ start[2] \in Nat
    BY <2>1, <1>1, <1>2
  <2>4. start'[i] = start[i + 1] - start[2] /\ start'[j] = start[j + 1] - start[2]
    BY <2>1, <1>7
  <2> QED BY <2>2, <2>3, <2>4
<1>12. Contiguous'
  BY <1>9, <1>10, <1>11 DEF Contiguous, BlockLen
<1> QED BY <1>1, <1>2, <1>3, <1>4, <1>5, <1>7, <1>8, <1>12

--------------------------------------------------------------------------------
(* Types *)

LEMMA CellTypes ==
  /\ \A m \in Message : Header(m) \in [0 .. BlockHeadLen - 1 -> Cell]
  /\ \A m \in Message : Payload(m) \in [0 .. MsgSize[m] - 1 -> Cell]
  /\ Zero \in Cell /\ Junk \in Cell
<1>1. ASSUME NEW m \in Message, NEW k \in 0 .. BlockHeadLen - 1
      PROVE  HeadCell(MsgSize[m], k) \in Cell
  BY DEF HeadCell, Cell, Sizes
<1>2. ASSUME NEW m \in Message, NEW k \in Nat PROVE DataCell(m, k) \in Cell
  BY DEF DataCell, Cell
<1>3. \A m \in Message : MsgSize[m] \in Nat
  BY MessageAssumption
<1>4. Zero \in Cell /\ Junk \in Cell
  BY DEF Cell
<1> QED BY <1>1, <1>2, <1>3, <1>4 DEF Header, Payload

LEMMA ClearedType == \A n \in Nat : Cleared(n) \in [0 .. n - 1 -> Cell]
  BY CellTypes DEF Cleared

LEMMA AdvanceType ==
  ASSUME NEW sz \in Nat, NEW p \in 0 .. sz, NEW n \in Nat, n <= sz
  PROVE  Advance(sz, p, n) \in 0 .. sz
  BY DEF Advance

LEMMA WriteBlockType ==
  ASSUME NEW sz \in Nat, NEW w \in 0 .. sz, NEW n \in Nat, n <= sz,
         NEW m \in [0 .. sz - 1 -> Cell], NEW data \in [0 .. n - 1 -> Cell]
  PROVE  WriteBlock(m, sz, w, data, n) \in [0 .. sz - 1 -> Cell]
  BY DEF WriteBlock

\* dlt_buffer_increase_size keeps the pointers within the larger memory.
LEMMA IncreaseSizeType ==
  ASSUME TypeInv, IncreaseSize
  PROVE  /\ size' \in MinCap .. MaxCap
         /\ mem' \in [0 .. size' - 1 -> Cell]
         /\ write' \in 0 .. size' /\ read' \in 0 .. size'
<1> USE MessageAssumption, SizeAssumption
<1>1. /\ size \in Nat /\ read \in 0 .. size /\ write \in 0 .. size
      /\ mem \in [0 .. size - 1 -> Cell]
      /\ size \in MinCap .. MaxCap
  BY DEF TypeInv, TypeOK, MinCap, MaxCap
<1>2. size' = size + StepSize /\ size' \in MinCap .. MaxCap
  BY <1>1 DEF IncreaseSize, MinCap, MaxCap
<1>3. ASSUME NEW i \in 0 .. size + StepSize - 1 PROVE Relocated[i] \in Cell
  <2>1. CASE read < write
    <3>1. i < write - read => read + i \in 0 .. size - 1
      BY <1>1, <2>1
    <3> QED BY <2>1, <3>1, <1>1, CellTypes DEF Relocated
  <2>2. CASE ~(read < write)
    <3>1. /\ i < size - read => read + i \in 0 .. size - 1
          /\ i >= size - read /\ i < size - read + write => i - (size - read) \in 0 .. size - 1
      BY <1>1, <2>2
    <3>2. \A j \in 0 .. size - 1 : mem[j] \in Cell
      BY <1>1
    <3> QED BY <2>2, <3>1, <3>2, <1>1, CellTypes DEF Relocated
  <2> QED BY <2>1, <2>2
<1>4. mem' \in [0 .. size' - 1 -> Cell]
  <2>1. Relocated = [i \in 0 .. size + StepSize - 1 |-> Relocated[i]]
    BY DEF Relocated
  <2>2. Relocated \in [0 .. size + StepSize - 1 -> Cell]
    BY <2>1, <1>3
  <2>3. mem' = Relocated
    BY DEF IncreaseSize
  <2>4. size' - 1 = size + StepSize - 1
    BY <1>1, <1>2
  <2> QED BY <2>2, <2>3, <2>4, Zenon
<1>5. write' \in 0 .. size' /\ read' \in 0 .. size'
  BY <1>1, <1>2 DEF IncreaseSize
<1> QED BY <1>2, <1>4, <1>5

LEMMA ForgetFacts ==
  ASSUME Forget
  PROVE  /\ queue' \in Seq(Message) /\ start' \in Seq(Nat)
         /\ Len(queue') = 0 /\ Len(start') = 1 /\ start'[1] = 0
         /\ UsedBytes' = 0
         /\ Contiguous'
<1>1. queue' = <<>> /\ start' = <<0>>
  BY DEF Forget
<1>2. /\ queue' \in Seq(Message) /\ start' \in Seq(Nat)
      /\ Len(queue') = 0 /\ Len(start') = 1 /\ start'[1] = 0
  BY <1>1
<1>3. UsedBytes' = 0
  BY <1>2 DEF UsedBytes
<1> QED BY <1>2, <1>3 DEF Contiguous, BlockLen

\* Resetting, minimising or initialising leaves a well-typed empty ring.
LEMMA EmptyRingType ==
  ASSUME TypeInv, NEW n \in MinCap .. MaxCap,
         size' = n, mem' = Cleared(n), write' = 0, read' = 0, count' = 0
  PROVE  /\ size' \in MinCap .. MaxCap
         /\ mem' \in [0 .. size' - 1 -> Cell]
         /\ write' \in 0 .. size' /\ read' \in 0 .. size' /\ count' \in Nat
<1>1. n \in Nat
  BY SizeAssumption DEF MinCap, MaxCap
<1> QED BY <1>1, ClearedType

LEMMA GetTypes ==
  ASSUME TypeInv, NEW data \in BOOLEAN, NEW delete \in BOOLEAN, Get(data, delete)
  PROVE  TypeInv'
<1> USE MessageAssumption, SizeAssumption
<1>0. /\ size \in Nat /\ size \in MinCap .. MaxCap /\ read \in 0 .. size
      /\ write \in 0 .. size /\ count \in Nat /\ MinCap \in MinCap .. MaxCap
      /\ queue \in Seq(Message) /\ start \in Seq(Nat) /\ Len(start) = Len(queue) + 1
      /\ Contiguous /\ alive \in BOOLEAN /\ op = NoMsg
      /\ mem \in [0 .. size - 1 -> Cell]
  BY DEF TypeInv, TypeOK, MinCap, MaxCap, Get
<1>1. CASE alive /\ PointersInRange /\ count > 0 /\ \E s \in Sizes : BlockOk(s)
  <2>1. PICK s \in Sizes : BlockOk(s) /\ GetBlock(s, data, delete)
    BY <1>1 DEF Get
  <2>2. s \in Nat /\ BlockHeadLen + s <= size
    <3>1. \A m \in Message : MsgSize[m] \in Nat
      OBVIOUS
    <3>2. s \in Nat
      BY <3>1 DEF Sizes
    <3> QED BY <2>1, <3>2, <1>0 DEF BlockOk, UsedSize
  <2>3. CASE ~delete
    BY <2>1, <2>3 DEF GetBlock, TypeInv, TypeOK, Contiguous, ring, history, Get, Result, BlockLen
  <2>4. CASE delete
    <3>1. Dequeue
      BY <2>1, <2>4 DEF GetBlock
    <3>2. /\ queue' \in Seq(Message) /\ start' \in Seq(Nat)
          /\ Len(start') = Len(queue') + 1 /\ Contiguous'
      <4>1. CASE queue = <<>>
        BY <4>1, <3>1, <1>0 DEF Dequeue, history, Contiguous, BlockLen
      <4>2. CASE queue # <<>>
        <5>1. Len(queue) > 0
          BY <4>2, <1>0
        <5> QED BY <5>1, <3>1, <1>0, DequeueFacts
      <4> QED BY <4>1, <4>2
    <3>3. /\ size' \in MinCap .. MaxCap
          /\ mem' \in [0 .. size' - 1 -> Cell]
          /\ write' \in 0 .. size' /\ read' \in 0 .. size' /\ count' \in Nat
          /\ alive' = alive
      <4>1. CASE MinimizeSize
        BY <4>1, <1>0, EmptyRingType DEF MinimizeSize
      <4>2. CASE /\ read' = Advance(size, Advance(size, read, BlockHeadLen), s)
                 /\ count' = count - 1
                 /\ UNCHANGED <<alive, size, mem, write>>
        <5>1. read' \in 0 .. size
          BY <4>2, <1>0, <2>2 DEF Advance
        <5> QED BY <5>1, <4>2, <1>0, <1>1
      <4> QED BY <4>1, <4>2, <2>1, <2>4 DEF GetBlock
    <3>4. op' = op /\ res'.ret \in {"OK", "ERROR"}
      BY <2>1 DEF GetBlock, Result, Get
    <3> QED BY <3>2, <3>3, <3>4, <1>0 DEF TypeInv, TypeOK
  <2> QED BY <2>3, <2>4
<1>2. CASE ~(alive /\ PointersInRange /\ count > 0 /\ \E s \in Sizes : BlockOk(s))
  <2>1. GetFailed /\ op' = op
    BY <1>2 DEF Get
  <2>2. res'.ret \in {"OK", "ERROR"}
    BY <2>1 DEF GetFailed, Result
  <2>3. CASE UNCHANGED <<ring, history>>
    BY <2>1, <2>2, <2>3 DEF TypeInv, TypeOK, ring, history, Contiguous, BlockLen
  <2>4. CASE Reset
    <3>1. Forget
      BY <2>4 DEF Reset
    <3>2. /\ size' \in MinCap .. MaxCap
          /\ mem' \in [0 .. size' - 1 -> Cell]
          /\ write' \in 0 .. size' /\ read' \in 0 .. size' /\ count' \in Nat
      BY <2>4, <1>0, EmptyRingType DEF Reset
    <3>3. /\ queue' \in Seq(Message) /\ start' \in Seq(Nat)
          /\ Len(start') = Len(queue') + 1 /\ Contiguous'
      BY <3>1, ForgetFacts
    <3>4. alive' = alive
      BY <2>4 DEF Reset
    <3> QED BY <3>2, <3>3, <3>4, <2>1, <2>2, <1>0 DEF TypeInv, TypeOK
  <2> QED BY <2>1, <2>3, <2>4 DEF GetFailed
<1> QED BY <1>1, <1>2

LEMMA TypeStep == ASSUME TypeInv, [Next]_vars PROVE TypeInv'
<1> USE MessageAssumption, SizeAssumption
<1>0. /\ size \in Nat /\ size \in MinCap .. MaxCap /\ read \in 0 .. size
      /\ write \in 0 .. size /\ count \in Nat /\ MinCap \in MinCap .. MaxCap
      /\ queue \in Seq(Message) /\ start \in Seq(Nat) /\ Len(start) = Len(queue) + 1
      /\ Contiguous /\ alive \in BOOLEAN
      /\ mem \in [0 .. size - 1 -> Cell]
      /\ op \in Message \union {NoMsg}
      /\ res.ret \in {"OK", "ERROR"}
      /\ op # NoMsg => alive
  BY DEF TypeInv, TypeOK, MinCap, MaxCap
<1>1. ASSUME NEW m \in Message, Push3(m) PROVE TypeInv'
  <2>1. alive => PointersInRange
    BY <1>0 DEF PointersInRange
  <2>2. CASE alive
    BY <2>1, <2>2, <1>1 DEF Push3, TypeInv, TypeOK, Contiguous, ring, history, BlockLen
  <2>3. CASE ~alive
    BY <2>3, <1>1 DEF Push3, TypeInv, TypeOK, Contiguous, ring, history, Result, BlockLen
  <2> QED BY <2>2, <2>3
<1>2. CASE Push3Grow
  <2>1. CASE IncreaseSize /\ UNCHANGED <<op, res, history>>
    <3>1. /\ size' \in MinCap .. MaxCap
          /\ mem' \in [0 .. size' - 1 -> Cell]
          /\ write' \in 0 .. size' /\ read' \in 0 .. size'
      BY <2>1, IncreaseSizeType
    <3>2. UNCHANGED <<alive, count, op, res, queue, start>>
      BY <2>1 DEF IncreaseSize, history
    <3> QED BY <3>1, <3>2, <1>0 DEF TypeInv, TypeOK, Contiguous, BlockLen
  <2>2. CASE op' = NoMsg /\ res' = Result("ERROR", <<op>>) /\ UNCHANGED <<ring, history>>
    BY <2>2, <1>0 DEF TypeInv, TypeOK, Contiguous, ring, history, Result, BlockLen
  <2> QED BY <1>2, <2>1, <2>2 DEF Push3Grow
<1>3. CASE Push3Write
  <2> DEFINE w == Advance(size, write, BlockHeadLen)
             m1 == WriteBlock(mem, size, write, Header(op), BlockHeadLen)
  <2>1. op \in Message /\ MsgSize[op] \in Nat
    BY <1>3, <1>0 DEF Push3Write
  <2>2. BlockHeadLen + MsgSize[op] <= size
    BY <1>3, <1>0, <2>1 DEF Push3Write, FreeSize, BlockLen
  <2>3. w \in 0 .. size /\ Advance(size, w, MsgSize[op]) \in 0 .. size
    <3>1. /\ BlockHeadLen \in Nat /\ BlockHeadLen <= size
          /\ MsgSize[op] \in Nat /\ MsgSize[op] <= size
      BY <2>1, <2>2, <1>0
    <3>2. w \in 0 .. size
      BY <3>1, <1>0, AdvanceType
    <3> HIDE DEF w
    <3> QED BY <3>1, <3>2, <1>0, AdvanceType
  <2>4. m1 \in [0 .. size - 1 -> Cell]
    <3>1. BlockHeadLen \in Nat /\ BlockHeadLen <= size
      BY <2>1, <2>2, <1>0
    <3>2. Header(op) \in [0 .. BlockHeadLen - 1 -> Cell]
      BY <2>1, CellTypes
    <3> QED BY <3>1, <3>2, <1>0, WriteBlockType
  <2>5. WriteBlock(m1, size, w, Payload(op), MsgSize[op]) \in [0 .. size - 1 -> Cell]
    <3> HIDE DEF w, m1
    <3>1. MsgSize[op] \in Nat /\ MsgSize[op] <= size
      BY <2>1, <2>2, <1>0
    <3>2. Payload(op) \in [0 .. MsgSize[op] - 1 -> Cell]
      BY <2>1, CellTypes
    <3> QED BY <3>1, <3>2, <2>3, <2>4, <1>0, WriteBlockType
  <2>6. /\ mem' \in [0 .. size - 1 -> Cell] /\ write' \in 0 .. size
        /\ count' \in Nat /\ op' = NoMsg /\ res'.ret \in {"OK", "ERROR"}
        /\ UNCHANGED <<alive, size, read>> /\ Enqueue(op)
    BY <1>3, <2>3, <2>5, <1>0 DEF Push3Write, Result
  <2>7. /\ queue' \in Seq(Message) /\ start' \in Seq(Nat)
        /\ Len(start') = Len(queue') + 1 /\ Contiguous'
    BY <2>1, <2>6, <1>0, EnqueueFacts
  <2> QED BY <2>6, <2>7, <1>0 DEF TypeInv, TypeOK
<1>4. CASE Pull \/ Copy \/ Remove
  BY <1>4, GetTypes DEF Pull, Copy, Remove
<1>5. CASE InitDynamic
  <2>1. CASE res' = Result("ERROR", NoData) /\ UNCHANGED <<ring, history, op>>
    BY <2>1, <1>0 DEF TypeInv, TypeOK, Contiguous, ring, history, Result, BlockLen
  <2>2. CASE /\ alive' = TRUE /\ size' = MinCap /\ mem' = Cleared(MinCap)
             /\ write' = 0 /\ read' = 0 /\ count' = 0
             /\ Forget /\ res' = Result("OK", NoData) /\ op' = op
    <3>1. /\ size' \in MinCap .. MaxCap
          /\ mem' \in [0 .. size' - 1 -> Cell]
          /\ write' \in 0 .. size' /\ read' \in 0 .. size' /\ count' \in Nat
      BY <2>2, <1>0, EmptyRingType
    <3> QED BY <3>1, <2>2, <1>0, ForgetFacts DEF TypeInv, TypeOK, Result
  <2> QED BY <1>5, <2>1, <2>2 DEF InitDynamic
<1>6. CASE FreeDynamic
  <2>1. Forget /\ alive' = FALSE /\ op' = NoMsg /\ res'.ret = "OK"
        /\ UNCHANGED <<size, mem, write, read, count>>
    BY <1>6 DEF FreeDynamic, Result
  <2>2. /\ queue' \in Seq(Message) /\ start' \in Seq(Nat)
        /\ Len(start') = Len(queue') + 1 /\ Contiguous'
    BY <2>1, ForgetFacts
  <2> QED BY <2>1, <2>2, <1>0 DEF TypeInv, TypeOK
<1>7. CASE UNCHANGED vars
  BY <1>7 DEF vars, ring, history, TypeInv, TypeOK, Contiguous, BlockLen
<1> QED BY <1>1, <1>2, <1>3, <1>4, <1>5, <1>6, <1>7 DEF Next

LEMMA TypeInit == Init => TypeInv
<1> SUFFICES ASSUME Init PROVE TypeInv
  OBVIOUS
<1>1. MinCap \in Nat /\ MinCap \in MinCap .. MaxCap
  BY SizeAssumption DEF MinCap, MaxCap
<1>2. mem \in [0 .. size - 1 -> Cell]
  BY <1>1, ClearedType DEF Init
<1>3. queue \in Seq(Message) /\ start \in Seq(Nat) /\ Len(start) = Len(queue) + 1
      /\ Contiguous
  BY DEF Init, Contiguous
<1> QED BY <1>1, <1>2, <1>3 DEF Init, TypeInv, TypeOK, Result

\* For every capacity, growth step and message size (larger than the minimum
\* capacity too) the pointers of the ring stay within its memory, so the
\* "Pointer out of range" checks of dlt_buffer_push3 and dlt_buffer_get never
\* reset it.
THEOREM TypeCorrect == Spec => []TypeOK
<1>1. Init => TypeInv
  BY TypeInit
<1>2. TypeInv /\ [Next]_vars => TypeInv'
  BY TypeStep
<1>3. TypeInv => TypeOK
  BY DEF TypeInv
<1> QED BY <1>1, <1>2, <1>3, PTL DEF Spec

--------------------------------------------------------------------------------
(* The ring keeps its entries *)

\* The sizes that push3 and get compute from the two pointers are exact.
LEMMA RingFacts ==
  ASSUME IInv, alive
  PROVE  /\ size \in Nat \ {0} /\ read \in 0 .. size /\ write \in 0 .. size
         /\ count = Len(queue) /\ Len(queue) \in Nat
         /\ UsedBytes \in Nat /\ UsedBytes <= size
         /\ write = Advance(size, read, UsedBytes)
         /\ FreeSize(size, write, read, count) = size - UsedBytes
         /\ count > 0 => UsedSize(size, write, read) = UsedBytes
         /\ count = 0 => write = read
<1> USE SizeAssumption
<1>1. /\ queue \in Seq(Message) /\ start \in Seq(Nat) /\ Len(start) = Len(queue) + 1
      /\ Contiguous
      /\ size \in Nat \ {0} /\ read \in 0 .. size /\ write \in 0 .. size
  BY DEF IInv, TypeInv, TypeOK, MinCap, MaxCap
<1>2. /\ count = Len(queue) /\ UsedBytes <= size
      /\ write = Advance(size, read, UsedBytes)
  BY DEF IInv, PointersAgree
<1>3. /\ Len(queue) \in Nat /\ UsedBytes \in Nat
      /\ (Len(queue) = 0 => UsedBytes = 0) /\ (Len(queue) > 0 => UsedBytes > 0)
  BY <1>1, HistoryFacts
<1>4. FreeSize(size, write, read, count) = size - UsedBytes
  BY <1>1, <1>2, <1>3 DEF FreeSize, Advance
<1>5. /\ count > 0 => UsedSize(size, write, read) = UsedBytes
      /\ count = 0 => write = read
  BY <1>1, <1>2, <1>3 DEF UsedSize, Advance
<1> QED BY <1>1, <1>2, <1>3, <1>4, <1>5

\* The cells of an entry lie between the pointers.
LEMMA EntryCells ==
  ASSUME IInv, alive, NEW i \in 1 .. Len(queue)
  PROVE  /\ queue[i] \in Message /\ MsgSize[queue[i]] \in Nat
         /\ start[i] \in Nat
         /\ start[i] + BlockHeadLen + MsgSize[queue[i]] <= UsedBytes
         /\ \A k \in 0 .. BlockHeadLen - 1 :
              mem[At(start[i] + k)] = HeadCell(MsgSize[queue[i]], k)
         /\ \A k \in 0 .. MsgSize[queue[i]] - 1 :
              mem[At(start[i] + BlockHeadLen + k)] = DataCell(queue[i], k)
<1> USE SizeAssumption, MessageAssumption
<1>1. /\ queue \in Seq(Message) /\ start \in Seq(Nat) /\ Len(start) = Len(queue) + 1
      /\ Contiguous
  BY DEF IInv, TypeInv, TypeOK
<1>2. /\ queue[i] \in Message /\ start[i] \in Nat
      /\ start[i] + BlockLen(queue[i]) <= UsedBytes /\ UsedBytes \in Nat
  BY <1>1, HistoryFacts
<1>3. MsgSize[queue[i]] \in Nat
  BY <1>2
<1>4. start[i] + BlockHeadLen + MsgSize[queue[i]] <= UsedBytes
  BY <1>2, <1>3 DEF BlockLen
<1>5. /\ \A k \in 0 .. BlockHeadLen - 1 :
           mem[At(start[i] + k)] = HeadCell(MsgSize[queue[i]], k)
      /\ \A k \in 0 .. MsgSize[queue[i]] - 1 :
           mem[At(start[i] + BlockHeadLen + k)] = DataCell(queue[i], k)
  BY DEF IInv, EntriesIntact
<1> QED BY <1>2, <1>3, <1>4, <1>5

\* Writing the new entry leaves the ring consistent.
LEMMA WriteStep ==
  ASSUME IInv, Push3Write, TypeInv'
  PROVE  IInv'
<1> USE SizeAssumption, MessageAssumption
<1> DEFINE u == UsedBytes
           w == Advance(size, write, BlockHeadLen)
<1>1. /\ op \in Message /\ MsgSize[op] \in Nat /\ alive /\ alive'
      /\ queue \in Seq(Message) /\ start \in Seq(Nat) /\ Len(start) = Len(queue) + 1
      /\ Contiguous
  BY DEF Push3Write, IInv, TypeInv, TypeOK
<1>2. /\ size \in Nat \ {0} /\ read \in 0 .. size /\ write = Advance(size, read, u)
      /\ u \in Nat /\ count = Len(queue) /\ Len(queue) \in Nat
      /\ FreeSize(size, write, read, count) = size - u
  BY <1>1, RingFacts
<1>3. u + BlockHeadLen + MsgSize[op] <= size
  BY <1>1, <1>2 DEF Push3Write, BlockLen
<1>4. /\ mem' = WriteBlock(WriteBlock(mem, size, write, Header(op), BlockHeadLen),
                           size, w, Payload(op), MsgSize[op])
      /\ write' = Advance(size, w, MsgSize[op])
      /\ count' = count + 1 /\ Enqueue(op)
      /\ size' = size /\ read' = read
  BY DEF Push3Write
<1>5. /\ \A d \in 0 .. u - 1 : mem'[At(d)] = mem[At(d)]
      /\ \A k \in 0 .. BlockHeadLen - 1 : mem'[At(u + k)] = Header(op)[k]
      /\ \A k \in 0 .. MsgSize[op] - 1 : mem'[At(u + BlockHeadLen + k)] = Payload(op)[k]
      /\ write' = Advance(size, read, u + BlockHeadLen + MsgSize[op])
  <2> HIDE DEF u
  <2>1. BlockHeadLen \in Nat /\ size \in Nat
    BY <1>2
  <2>2. /\ \A d \in 0 .. u - 1 : mem'[Pos(size, read, d)] = mem[Pos(size, read, d)]
        /\ \A k \in 0 .. BlockHeadLen - 1 : mem'[Pos(size, read, u + k)] = Header(op)[k]
        /\ \A k \in 0 .. MsgSize[op] - 1 :
             mem'[Pos(size, read, u + BlockHeadLen + k)] = Payload(op)[k]
        /\ write' = Advance(size, read, u + BlockHeadLen + MsgSize[op])
    <3>1. /\ mem' = Written(mem, size, Advance(size, read, u), Header(op), BlockHeadLen,
                            Payload(op), MsgSize[op])
          /\ write' = Advance(size, Advance(size, Advance(size, read, u), BlockHeadLen),
                               MsgSize[op])
      BY <1>2, <1>4 DEF Written
    <3> DEFINE s == MsgSize[op]
               hd == Header(op)
               pl == Payload(op)
               new == Written(mem, size, Advance(size, read, u), hd, BlockHeadLen, pl, s)
    <3>2. size \in Nat /\ read \in 0 .. size /\ u \in Nat /\ BlockHeadLen \in Nat
          /\ s \in Nat /\ u + BlockHeadLen + s <= size
      BY <2>1, <1>1, <1>2, <1>3
    <3>3. Appended(new, Advance(size, Advance(size, Advance(size, read, u), BlockHeadLen), s),
                   mem, size, read, u, hd, BlockHeadLen, pl, s)
      <4> HIDE DEF s, hd, pl
      <4> QED BY <3>2, PushCells
    <3> QED BY <3>1, <3>3 DEF Appended
  <2> QED BY <2>2, AtIsPos
<1>6. /\ Len(queue') = Len(queue) + 1
      /\ \A i \in 1 .. Len(queue) : queue'[i] = queue[i]
      /\ \A i \in 1 .. Len(queue) + 1 : start'[i] = start[i]
      /\ queue'[Len(queue) + 1] = op
      /\ UsedBytes' = u + BlockLen(op)
  BY <1>1, <1>4, EnqueueFacts
<1>7. UsedBytes' = u + BlockHeadLen + MsgSize[op]
  BY <1>6, <1>1, <1>2 DEF BlockLen
<1>8. PointersAgree'
  <2>1. /\ count' = Len(queue') /\ UsedBytes' <= size'
        /\ write' = Advance(size', read', UsedBytes')
    BY <1>2, <1>3, <1>4, <1>5, <1>6, <1>7 DEF Advance
  <2> QED BY <2>1 DEF PointersAgree, Advance
<1>9. ASSUME NEW i \in 1 .. Len(queue')
      PROVE  /\ \A k \in 0 .. BlockHeadLen - 1 :
                  mem'[At(start'[i] + k)] = HeadCell(MsgSize[queue'[i]], k)
             /\ \A k \in 0 .. MsgSize[queue'[i]] - 1 :
                  mem'[At(start'[i] + BlockHeadLen + k)] = DataCell(queue'[i], k)
  <2>1. CASE i \in 1 .. Len(queue)
    <3> HIDE DEF u
    <3>1. queue'[i] = queue[i] /\ start'[i] = start[i]
      BY <2>1, <1>2, <1>6
    <3>2. /\ start[i] \in Nat /\ MsgSize[queue[i]] \in Nat
          /\ start[i] + BlockHeadLen + MsgSize[queue[i]] <= u
          /\ \A k \in 0 .. BlockHeadLen - 1 :
               mem[At(start[i] + k)] = HeadCell(MsgSize[queue[i]], k)
          /\ \A k \in 0 .. MsgSize[queue[i]] - 1 :
               mem[At(start[i] + BlockHeadLen + k)] = DataCell(queue[i], k)
      BY <2>1, <1>1, EntryCells DEF u
    <3>3. /\ \A k \in 0 .. BlockHeadLen - 1 : start[i] + k \in 0 .. u - 1
          /\ \A k \in 0 .. MsgSize[queue[i]] - 1 :
               start[i] + BlockHeadLen + k \in 0 .. u - 1
      <4>1. /\ start[i] \in Nat /\ MsgSize[queue[i]] \in Nat /\ u \in Nat
            /\ start[i] + BlockHeadLen + MsgSize[queue[i]] <= u
        BY <3>2, <1>2
      <4>2. BlockHeadLen \in Nat
        OBVIOUS
      <4> QED BY <4>1, <4>2, Within
    <3> QED BY <3>1, <3>2, <3>3, <1>5
  <2>2. CASE i = Len(queue) + 1
    <3>1. queue'[i] = op /\ start'[i] = u
      BY <2>2, <1>2, <1>6 DEF UsedBytes
    <3> HIDE DEF u
    <3> QED BY <3>1, <1>5 DEF Header, Payload
  <2> QED BY <2>1, <2>2, <1>2, <1>6
<1>10. EntriesIntact'
  <2>1. \A d : At(d)' = At(d)
    BY <1>4 DEF At
  <2> QED BY <1>9, <2>1, <1>4 DEF EntriesIntact, HeadCell, DataCell, At
<1> QED BY <1>8, <1>10 DEF IInv

\* Growing moves the entries to the front of the larger memory.  This is the
\* step that needs MessagesFit: only a ring with entries grows, because an empty
\* one takes every message.
LEMMA GrowStep ==
  ASSUME MessagesFit, IInv, TypeInv', op \in Message, alive,
         FreeSize(size, write, read, count) < BlockLen(op),
         IncreaseSize, UNCHANGED history
  PROVE  IInv'
<1> USE SizeAssumption, MessageAssumption
<1>1. /\ size \in Nat \ {0} /\ read \in 0 .. size /\ write \in 0 .. size
      /\ UsedBytes \in Nat /\ UsedBytes <= size
      /\ count = Len(queue) /\ Len(queue) \in Nat
      /\ write = Advance(size, read, UsedBytes)
      /\ FreeSize(size, write, read, count) = size - UsedBytes
  BY RingFacts
<1>2. BlockLen(op) <= size /\ BlockLen(op) \in Nat
  <2>1. size \in MinCap .. MaxCap /\ MinCap \in Nat /\ MaxCap \in Nat
    BY DEF IInv, TypeInv, TypeOK, MinCap, MaxCap
  <2>2. BlockLen(op) <= MinCap /\ BlockLen(op) \in Nat
    BY BlockLenType DEF MessagesFit
  <2> QED BY <2>1, <2>2
<1>3. UsedBytes > 0
  BY <1>1, <1>2
<1>4. /\ mem' = Relocated /\ read' = 0 /\ size' = size + StepSize
      /\ write' = (IF read < write THEN write - read ELSE size + write - read)
      /\ alive' = alive /\ count' = count /\ queue' = queue /\ start' = start
  BY DEF IncreaseSize, history
<1>5. UsedBytes' = UsedBytes
  BY <1>4 DEF UsedBytes
<1>6. write' = UsedBytes
  BY <1>1, <1>3, <1>4 DEF Advance
<1>7. PointersAgree'
  <2>1. UsedBytes' <= size' /\ write' = Advance(size', read', UsedBytes')
    BY <1>1, <1>4, <1>5, <1>6 DEF Advance
  <2> QED BY <2>1, <1>1, <1>4 DEF PointersAgree, Advance
<1>8. \A d \in 0 .. UsedBytes - 1 : mem'[d] = mem[At(d)]
  <2> SUFFICES ASSUME NEW d \in 0 .. UsedBytes - 1 PROVE Relocated[d] = mem[At(d)]
    BY <1>4
  <2>1. d \in 0 .. size + StepSize - 1
    BY <1>1
  <2>2. Relocated[d] = IF read < write THEN IF d < write - read THEN mem[read + d] ELSE Junk
                       ELSE IF d < size - read THEN mem[read + d]
                       ELSE IF d < size - read + write THEN mem[d - (size - read)]
                       ELSE Junk
    BY <2>1 DEF Relocated
  <2>3. d - (size - read) = read + d - size
    BY <1>1
  <2> QED BY <2>2, <2>3, <1>1, <1>3 DEF At, Advance
<1>9. \A d \in 0 .. UsedBytes - 1 : Pos(size', read', d) = d
  BY <1>1, <1>4 DEF Pos
<1>10. EntriesIntact'
  <2>1. ASSUME NEW i \in 1 .. Len(queue)
        PROVE  /\ \A k \in 0 .. BlockHeadLen - 1 :
                    mem'[Pos(size', read', start[i] + k)] = HeadCell(MsgSize[queue[i]], k)
               /\ \A k \in 0 .. MsgSize[queue[i]] - 1 :
                    mem'[Pos(size', read', start[i] + BlockHeadLen + k)] = DataCell(queue[i], k)
    <3>1. /\ start[i] \in Nat /\ MsgSize[queue[i]] \in Nat
          /\ start[i] + BlockHeadLen + MsgSize[queue[i]] <= UsedBytes
          /\ \A k \in 0 .. BlockHeadLen - 1 :
               mem[At(start[i] + k)] = HeadCell(MsgSize[queue[i]], k)
          /\ \A k \in 0 .. MsgSize[queue[i]] - 1 :
               mem[At(start[i] + BlockHeadLen + k)] = DataCell(queue[i], k)
      BY EntryCells
    <3>2. /\ \A k \in 0 .. BlockHeadLen - 1 : start[i] + k \in 0 .. UsedBytes - 1
          /\ \A k \in 0 .. MsgSize[queue[i]] - 1 :
               start[i] + BlockHeadLen + k \in 0 .. UsedBytes - 1
      <4>1. BlockHeadLen \in Nat
        OBVIOUS
      <4> QED BY <3>1, <4>1, <1>1, Within
    <3>3. \A d \in 0 .. UsedBytes - 1 : mem'[Pos(size', read', d)] = mem[At(d)]
      BY <1>8, <1>9
    <3> QED BY <3>1, <3>2, <3>3
  <2> QED BY <2>1, <1>4 DEF EntriesIntact, At, Pos, HeadCell, DataCell
<1> QED BY <1>7, <1>10 DEF IInv

\* On a ring with entries, dlt_buffer_get finds the oldest one and nothing else.
LEMMA GetFinds ==
  ASSUME IInv, alive, Len(queue) > 0
  PROVE  /\ MsgSize[queue[1]] \in Sizes
         /\ BlockOk(MsgSize[queue[1]])
         /\ \A s \in Sizes : BlockOk(s) => s = MsgSize[queue[1]]
         /\ ReadBlock(mem, size, Advance(size, read, BlockHeadLen), MsgSize[queue[1]])
              = Payload(queue[1])
<1> USE SizeAssumption, MessageAssumption
<1> DEFINE s1 == MsgSize[queue[1]]
<1>1. /\ size \in Nat \ {0} /\ read \in 0 .. size /\ write \in 0 .. size
      /\ UsedBytes \in Nat /\ UsedBytes <= size
      /\ count = Len(queue) /\ Len(queue) \in Nat
      /\ UsedSize(size, write, read) = UsedBytes
  BY RingFacts
<1>2. 1 \in 1 .. Len(queue) /\ start[1] = 0
  BY <1>1 DEF IInv, TypeInv, Contiguous
<1>3. /\ queue[1] \in Message /\ s1 \in Nat
      /\ start[1] + BlockHeadLen + s1 <= UsedBytes
      /\ \A k \in 0 .. BlockHeadLen - 1 : mem[At(start[1] + k)] = HeadCell(s1, k)
      /\ \A k \in 0 .. s1 - 1 : mem[At(start[1] + BlockHeadLen + k)] = DataCell(queue[1], k)
  BY <1>2, EntryCells
<1> HIDE DEF s1
<1>4. /\ BlockHeadLen + s1 <= UsedBytes
      /\ \A k \in 0 .. BlockHeadLen - 1 : mem[At(k)] = HeadCell(s1, k)
      /\ \A k \in 0 .. s1 - 1 : mem[At(BlockHeadLen + k)] = DataCell(queue[1], k)
  BY <1>2, <1>3
<1>5. \A k \in 0 .. BlockHeadLen - 1 :
        ReadBlock(mem, size, read, BlockHeadLen)[k] = HeadCell(s1, k)
  BY <1>4 DEF ReadBlock, At
<1>6. BlockOk(s1)
  BY <1>1, <1>4, <1>5 DEF BlockOk
<1>7. ASSUME NEW s \in Sizes, BlockOk(s) PROVE s = s1
  <2>1. 0 \in 0 .. BlockHeadLen - 1
    OBVIOUS
  <2>2. HeadCell(s, 0) = HeadCell(s1, 0)
    BY <2>1, <1>5, <1>7 DEF BlockOk
  <2> QED BY <2>2 DEF HeadCell
<1>8. ReadBlock(mem, size, Advance(size, read, BlockHeadLen), s1) = Payload(queue[1])
  <2> DEFINE r == Advance(size, read, BlockHeadLen)
  <2>1. ASSUME NEW k \in 0 .. s1 - 1
        PROVE  (IF r + k < size THEN mem[r + k] ELSE mem[r + k - size]) = DataCell(queue[1], k)
    BY <1>1, <1>3, <1>4 DEF Advance, At
  <2> QED BY <2>1 DEF ReadBlock, Payload, s1
<1> QED BY <1>3, <1>6, <1>7, <1>8 DEF Sizes, s1

\* An empty ring with equal pointers is consistent.
LEMMA EmptyStep ==
  ASSUME IInv, TypeInv', Forget, write' = 0, read' = 0, count' = 0
  PROVE  IInv'
<1>1. UsedBytes' = 0 /\ Len(queue') = 0
  BY ForgetFacts
<1>2. size' \in Nat
  BY SizeAssumption DEF TypeInv, TypeOK, MinCap, MaxCap
<1>3. PointersAgree'
  <2>1. UsedBytes' <= size' /\ write' = Advance(size', read', UsedBytes')
    BY <1>1, <1>2 DEF Advance
  <2> QED BY <2>1, <1>1 DEF PointersAgree, Advance
<1>4. EntriesIntact'
  BY <1>1 DEF EntriesIntact
<1> QED BY <1>3, <1>4 DEF IInv

\* Removing the oldest entry leaves the others where they are.
LEMMA RemoveStep ==
  ASSUME IInv, TypeInv', alive, Len(queue) > 0, Dequeue,
         read' = Advance(size, Advance(size, read, BlockHeadLen), MsgSize[queue[1]]),
         count' = count - 1, UNCHANGED <<alive, size, mem, write>>
  PROVE  IInv'
<1> USE SizeAssumption, MessageAssumption
<1> DEFINE b == BlockLen(queue[1])
<1>1. /\ size \in Nat \ {0} /\ read \in 0 .. size /\ write \in 0 .. size
      /\ UsedBytes \in Nat /\ UsedBytes <= size
      /\ count = Len(queue) /\ Len(queue) \in Nat
      /\ write = Advance(size, read, UsedBytes)
  BY RingFacts
<1>2. /\ queue \in Seq(Message) /\ start \in Seq(Nat) /\ Len(start) = Len(queue) + 1
      /\ Contiguous
  BY DEF IInv, TypeInv, TypeOK
<1>3. /\ Len(queue') = Len(queue) - 1
      /\ \A i \in 1 .. Len(queue) - 1 : queue'[i] = queue[i + 1]
      /\ \A i \in 1 .. Len(queue) : start'[i] = start[i + 1] - b
      /\ \A i \in 1 .. Len(queue) : start[i + 1] >= b
      /\ UsedBytes' = UsedBytes - b
  BY <1>2, DequeueFacts
<1>4. /\ queue[1] \in Message /\ MsgSize[queue[1]] \in Nat
      /\ b = BlockHeadLen + MsgSize[queue[1]] /\ b \in Nat \ {0} /\ b <= UsedBytes
  <2>1. 1 \in 1 .. Len(queue)
    BY <1>1
  <2>2. start[1] + BlockHeadLen + MsgSize[queue[1]] <= UsedBytes /\ start[1] = 0
        /\ queue[1] \in Message /\ MsgSize[queue[1]] \in Nat
    BY <2>1, <1>2, EntryCells DEF Contiguous
  <2> QED BY <2>2 DEF BlockLen
<1> HIDE DEF b
<1>10. b \in Nat \ {0} /\ b \in Nat /\ b <= UsedBytes /\ UsedBytes \in Nat /\ size \in Nat
       /\ UsedBytes <= size /\ read \in 0 .. size
  BY <1>1, <1>4
<1>5. read' = Advance(size, read, b)
  <2> DEFINE s == MsgSize[queue[1]]
  <2>1. /\ BlockHeadLen \in Nat /\ s \in Nat /\ BlockHeadLen + s <= size
        /\ size \in Nat /\ read \in 0 .. size
    BY <1>1, <1>4
  <2>2. Advance(size, Advance(size, read, BlockHeadLen), s)
          = Advance(size, read, BlockHeadLen + s)
    <3> HIDE DEF s
    <3> QED BY <2>1, AdvanceTwice
  <2> QED BY <2>2, <1>4
<1>6. PointersAgree'
  <2>1. UsedBytes' <= size' /\ count' = Len(queue')
    BY <1>1, <1>3, <1>4
  <2>2. UsedBytes - b \in Nat /\ b + (UsedBytes - b) = UsedBytes /\ size \in Nat /\ b \in Nat
    BY <1>10
  <2>3. Advance(size, Advance(size, read, b), UsedBytes - b)
          = Advance(size, read, b + (UsedBytes - b))
    <3> DEFINE v == UsedBytes - b
    <3> HIDE DEF v
    <3>1. v \in Nat /\ b + v <= size /\ size \in Nat /\ b \in Nat /\ read \in 0 .. size
      BY <2>2, <1>1 DEF v
    <3>2. Advance(size, Advance(size, read, b), v) = Advance(size, read, b + v)
      BY <3>1, AdvanceTwice
    <3> QED BY <3>2 DEF v
  <2>4. write' = Advance(size', read', UsedBytes')
    BY <2>2, <2>3, <1>1, <1>3, <1>5
  <2> QED BY <2>1, <2>4 DEF PointersAgree, Advance
<1>7. \A d \in 0 .. UsedBytes - b - 1 : Pos(size, Advance(size, read, b), d) = Pos(size, read, d + b)
  <2> SUFFICES ASSUME NEW d \in 0 .. UsedBytes - b - 1
               PROVE  Pos(size, Advance(size, read, b), d) = Pos(size, read, d + b)
    OBVIOUS
  <2>1. d \in Nat /\ d + b < size
    BY <1>10
  <2> QED BY <2>1, <1>10, PosShift
<1>8. ASSUME NEW i \in 1 .. Len(queue')
      PROVE  /\ \A k \in 0 .. BlockHeadLen - 1 :
                  mem'[Pos(size', read', start'[i] + k)] = HeadCell(MsgSize[queue'[i]], k)
             /\ \A k \in 0 .. MsgSize[queue'[i]] - 1 :
                  mem'[Pos(size', read', start'[i] + BlockHeadLen + k)] = DataCell(queue'[i], k)
  <2>1. i \in 1 .. Len(queue) - 1 /\ i \in 1 .. Len(queue) /\ i + 1 \in 1 .. Len(queue)
    BY <1>1, <1>3
  <2>2. queue'[i] = queue[i + 1] /\ start'[i] = start[i + 1] - b /\ start[i + 1] >= b
    BY <2>1, <1>3
  <2> DEFINE x == start[i + 1]
             y == start'[i]
             s == MsgSize[queue[i + 1]]
  <2>3. /\ x \in Nat /\ s \in Nat /\ x + BlockHeadLen + s <= UsedBytes
        /\ \A k \in 0 .. BlockHeadLen - 1 : mem[Pos(size, read, x + k)] = HeadCell(s, k)
        /\ \A k \in 0 .. s - 1 :
             mem[Pos(size, read, x + BlockHeadLen + k)] = DataCell(queue[i + 1], k)
    BY <2>1, EntryCells, AtIsPos
  <2>4. y = x - b /\ y \in Nat /\ y + BlockHeadLen + s <= UsedBytes - b
    <3>1. b \in Nat /\ UsedBytes \in Nat /\ BlockHeadLen \in Nat /\ y = x - b /\ x >= b
      BY <2>2, <1>1, <1>4
    <3> HIDE DEF x, y, s
    <3> QED BY <3>1, <2>3
  <2> HIDE DEF x, y, s
  <2>5. /\ \A k \in 0 .. BlockHeadLen - 1 :
             y + k \in 0 .. UsedBytes - b - 1 /\ y + k + b = x + k
        /\ \A k \in 0 .. s - 1 :
             /\ y + BlockHeadLen + k \in 0 .. UsedBytes - b - 1
             /\ y + BlockHeadLen + k + b = x + BlockHeadLen + k
    <3>1. BlockHeadLen \in Nat /\ b \in Nat /\ UsedBytes \in Nat
      BY <1>1, <1>4
    <3> QED BY <2>3, <2>4, <3>1
  <2>6. /\ \A k \in 0 .. BlockHeadLen - 1 : mem'[Pos(size', read', y + k)] = HeadCell(s, k)
        /\ \A k \in 0 .. s - 1 :
             mem'[Pos(size', read', y + BlockHeadLen + k)] = DataCell(queue[i + 1], k)
    BY <2>3, <2>5, <1>5, <1>7
  <2> QED BY <2>6, <2>2 DEF y, s
<1>9. EntriesIntact'
  BY <1>8 DEF EntriesIntact, At, Pos, HeadCell, DataCell
<1> QED BY <1>6, <1>9 DEF IInv

LEMMA StutterStep ==
  ASSUME IInv, TypeInv', UNCHANGED <<ring, history>>
  PROVE  IInv'
<1>1. UNCHANGED <<alive, size, mem, write, read, count, queue, start>>
  BY DEF ring, history
<1> QED BY <1>1 DEF IInv, PointersAgree, EntriesIntact, UsedBytes, At, Advance,
                    HeadCell, DataCell

LEMMA GetStep ==
  ASSUME IInv, TypeInv', NEW data \in BOOLEAN, NEW delete \in BOOLEAN, Get(data, delete)
  PROVE  IInv'
<1>1. CASE alive /\ Len(queue) > 0
  <2>1. \E s \in Sizes : BlockOk(s)
    BY <1>1, GetFinds
  <2>2. /\ PointersInRange /\ count > 0
    BY <1>1, RingFacts DEF PointersInRange
  <2>3. GetBlock(MsgSize[queue[1]], data, delete)
    BY <1>1, <2>1, <2>2, GetFinds DEF Get
  <2>4. CASE ~delete
    BY <2>3, <2>4, StutterStep DEF GetBlock
  <2>5. CASE delete
    <3>1. Dequeue
      BY <2>3, <2>5 DEF GetBlock
    <3>2. CASE count = 1 /\ MinimizeSize
      <4>1. /\ queue \in Seq(Message) /\ start \in Seq(Nat) /\ Len(start) = Len(queue) + 1
            /\ Contiguous /\ count = Len(queue)
        BY <1>1 DEF IInv, TypeInv, TypeOK, PointersAgree
      <4>2. Len(queue') = 0 /\ queue' \in Seq(Message)
        <5>1. Len(queue') = Len(queue) - 1 /\ queue' \in Seq(Message)
          BY <3>1, <4>1, <1>1, DequeueFacts
        <5>2. Len(queue) = 1
          BY <3>2, <4>1
        <5> QED BY <5>1, <5>2
      <4>3. queue' = <<>>
        BY <4>2
      <4>4. start' = <<0>>
        <5>1. /\ start' \in Seq(Nat) /\ Len(start') = 1 /\ Contiguous'
          BY <3>1, <3>2, <4>1, <4>2, <1>1, DequeueFacts
        <5>2. start'[1] = 0
          BY <5>1 DEF Contiguous
        <5> QED BY <5>1, <5>2
      <4> QED BY <3>2, <4>3, <4>4, EmptyStep DEF MinimizeSize, Forget
    <3>3. CASE /\ read' = Advance(size, Advance(size, read, BlockHeadLen), MsgSize[queue[1]])
               /\ count' = count - 1
               /\ UNCHANGED <<alive, size, mem, write>>
      BY <3>1, <3>3, <1>1, RemoveStep
    <3> QED BY <2>3, <2>5, <3>2, <3>3 DEF GetBlock
  <2> QED BY <2>4, <2>5
<1>2. CASE ~(alive /\ Len(queue) > 0)
  <2>1. ~alive \/ (PointersInRange /\ count = 0 /\ write = read)
    BY <1>2, RingFacts DEF PointersInRange
  <2>2. GetFailed
    BY <2>1 DEF Get
  <2>3. UNCHANGED <<ring, history>>
    BY <2>1, <2>2 DEF GetFailed
  <2> QED BY <2>3, StutterStep
<1> QED BY <1>1, <1>2

LEMMA SafetyStep ==
  ASSUME MessagesFit, IInv, [Next]_vars
  PROVE  IInv'
<1>0. TypeInv'
  BY TypeStep DEF IInv
<1>1. ASSUME NEW m \in Message, Push3(m) PROVE IInv'
  <2>1. alive => PointersInRange
    BY RingFacts DEF PointersInRange
  <2>2. UNCHANGED <<ring, history>>
    BY <2>1, <1>1 DEF Push3
  <2> QED BY <2>2, <1>0, StutterStep
<1>2. CASE Push3Grow
  <2>1. op \in Message /\ alive
    BY <1>2 DEF Push3Grow, IInv, TypeInv, TypeOK
  <2>2. CASE IncreaseSize /\ UNCHANGED <<op, res, history>>
    BY <2>1, <2>2, <1>0, <1>2, GrowStep DEF Push3Grow
  <2>3. CASE UNCHANGED <<ring, history>>
    BY <2>3, <1>0, StutterStep
  <2> QED BY <1>2, <2>2, <2>3 DEF Push3Grow
<1>3. CASE Push3Write
  BY <1>0, <1>3, WriteStep
<1>4. CASE Pull \/ Copy \/ Remove
  BY <1>0, <1>4, GetStep DEF Pull, Copy, Remove
<1>5. CASE InitDynamic
  <2>1. CASE UNCHANGED <<ring, history>>
    BY <2>1, <1>0, StutterStep
  <2>2. CASE Forget /\ write' = 0 /\ read' = 0 /\ count' = 0
    BY <2>2, <1>0, EmptyStep
  <2> QED BY <1>5, <2>1, <2>2 DEF InitDynamic
<1>6. CASE FreeDynamic
  BY <1>6, <1>0 DEF FreeDynamic, IInv, PointersAgree, EntriesIntact
<1>7. CASE UNCHANGED vars
  BY <1>7, <1>0, StutterStep DEF vars
<1> QED BY <1>1, <1>2, <1>3, <1>4, <1>5, <1>6, <1>7 DEF Next

LEMMA SafetyInit == Init => IInv
<1> SUFFICES ASSUME Init PROVE IInv
  OBVIOUS
<1>1. TypeInv
  BY TypeInit
<1>2. UsedBytes = 0 /\ Len(queue) = 0
  BY DEF Init, UsedBytes
<1>3. size \in Nat
  BY SizeAssumption DEF Init, MinCap
<1>4. PointersAgree /\ EntriesIntact
  BY <1>2, <1>3 DEF Init, PointersAgree, EntriesIntact, Advance
<1> QED BY <1>1, <1>4 DEF IInv

LEMMA Invariance == MessagesFit => (Spec => []IInv)
<1>1. Init => IInv
  BY SafetyInit
<1>2. MessagesFit /\ IInv /\ [Next]_vars => IInv'
  BY SafetyStep
<1>3. SUFFICES ASSUME MessagesFit PROVE Spec => []IInv
  OBVIOUS
<1>4. IInv /\ [Next]_vars => IInv'
  BY <1>2, <1>3
<1> QED BY <1>1, <1>4, PTL DEF Spec

\* For all sizes: the counter of the ring is the number of entries, the write
\* pointer is exactly behind the last one, and an empty ring has equal pointers.
THEOREM PointersCorrect == MessagesFit => (Spec => []PointersAgree)
<1>1. IInv => PointersAgree
  BY DEF IInv
<1> QED BY <1>1, Invariance, PTL

\* For all sizes: growing, wrapping around and later writes never damage an
\* entry that dlt_buffer_push3 accepted.
THEOREM EntriesCorrect == MessagesFit => (Spec => []EntriesIntact)
<1>1. IInv => EntriesIntact
  BY DEF IInv
<1> QED BY <1>1, Invariance, PTL

\* For all sizes: dlt_buffer_get_used_size returns the bytes of the entries.
THEOREM UsedSizeCorrect == MessagesFit => (Spec => []UsedSizeExact)
<1>1. IInv => UsedSizeExact
  <2> SUFFICES ASSUME IInv, alive PROVE GetUsedSize = UsedBytes
    BY DEF UsedSizeExact
  <2>1. /\ count = Len(queue) /\ Len(queue) \in Nat
        /\ count > 0 => UsedSize(size, write, read) = UsedBytes
    BY RingFacts
  <2>2. Len(queue) = 0 => UsedBytes = 0
    BY HistoryFacts DEF IInv, TypeInv, TypeOK
  <2> QED BY <2>1, <2>2 DEF GetUsedSize
<1> QED BY <1>1, Invariance, PTL

--------------------------------------------------------------------------------
(* The ring implements the bounded FIFO queue *)

LEMMA GetRefines ==
  ASSUME IInv, NEW data \in BOOLEAN, NEW delete \in BOOLEAN, Get(data, delete),
         data \/ delete
  PROVE  Fifo!Next
<1>1. CASE alive /\ Len(queue) > 0
  <2>1. \E s \in Sizes : BlockOk(s)
    BY <1>1, GetFinds
  <2>2. /\ PointersInRange /\ count > 0
    BY <1>1, RingFacts DEF PointersInRange
  <2>3. GetBlock(MsgSize[queue[1]], data, delete)
    BY <1>1, <2>1, <2>2, GetFinds DEF Get
  <2>4. /\ queue \in Seq(Message) /\ start \in Seq(Nat) /\ Len(start) = Len(queue) + 1
        /\ Contiguous
    BY DEF IInv, TypeInv, TypeOK
  <2>5. queue # <<>> /\ Head(queue) = queue[1]
    BY <1>1, <2>4
  <2>6. res' = Result("OK", IF data THEN Payload(Head(queue)) ELSE NoData)
    BY <2>3, <2>5, <1>1, GetFinds DEF GetBlock
  <2>7. CASE ~delete
    <3>1. UNCHANGED <<alive, queue, start>>
      BY <2>3, <2>7 DEF GetBlock, ring, history
    <3>2. Fifo!Copy
      BY <3>1, <2>5, <2>6, <2>7, <1>1 DEF Fifo!Copy, Fifo!Result, Result, UsedBytes
    <3> QED BY <3>2 DEF Fifo!Next
  <2>8. CASE delete
    <3>1. Dequeue /\ alive' = alive
      BY <2>3, <2>8 DEF GetBlock, MinimizeSize
    <3>2. queue' = Tail(queue) /\ UsedBytes' = UsedBytes - BlockLen(queue[1])
      BY <3>1, <2>4, <1>1, DequeueFacts
    <3>3. Fifo!Take(data)
      BY <3>1, <3>2, <2>5, <2>6, <1>1 DEF Fifo!Take, Fifo!Result, Result
    <3> QED BY <3>3 DEF Fifo!Next
  <2> QED BY <2>7, <2>8
<1>2. CASE ~(alive /\ Len(queue) > 0)
  <2>1. ~alive \/ (PointersInRange /\ count = 0 /\ write = read)
    BY <1>2, RingFacts DEF PointersInRange
  <2>2. GetFailed
    BY <2>1 DEF Get
  <2>3. UNCHANGED <<alive, queue, start>> /\ res' = Result("ERROR", NoData)
    BY <2>1, <2>2 DEF GetFailed, ring, history
  <2>4. ~alive \/ queue = <<>>
    BY <1>2 DEF IInv, TypeInv, TypeOK
  <2>5. Fifo!Fail
    BY <2>3, <2>4 DEF Fifo!Fail, Fifo!Result, Result, UsedBytes
  <2> QED BY <2>5 DEF Fifo!Next
<1> QED BY <1>1, <1>2

LEMMA RefinementStep ==
  ASSUME IInv, [Next]_vars
  PROVE  [Fifo!Next]_(Fifo!vars)
<1> USE SizeAssumption
<1>1. ASSUME NEW m \in Message, Push3(m) PROVE [Fifo!Next]_(Fifo!vars)
  <2>1. CASE alive
    <3>1. PointersInRange
      BY <2>1, RingFacts DEF PointersInRange
    <3>2. UNCHANGED <<alive, queue, start, res>>
      BY <2>1, <3>1, <1>1 DEF Push3, ring, history
    <3> QED BY <3>2 DEF Fifo!vars, UsedBytes
  <2>2. CASE ~alive
    <3>1. UNCHANGED <<alive, queue, start>> /\ res' = Result("ERROR", <<m>>)
      BY <2>2, <1>1 DEF Push3, ring, history
    <3>2. Fifo!Refuse(m)
      BY <2>2, <3>1 DEF Fifo!Refuse, Fifo!Result, Result, UsedBytes
    <3> QED BY <3>2 DEF Fifo!Next
  <2> QED BY <2>1, <2>2
<1>2. CASE Push3Grow
  <2>1. op \in Message /\ alive
    BY <1>2 DEF Push3Grow, IInv, TypeInv, TypeOK
  <2>2. CASE IncreaseSize /\ UNCHANGED <<op, res, history>>
    BY <2>2 DEF IncreaseSize, history, Fifo!vars, UsedBytes
  <2>3. CASE res' = Result("ERROR", <<op>>) /\ UNCHANGED <<ring, history>>
    <3>1. UsedBytes + BlockLen(op) > MinCap
      <4>1. FreeSize(size, write, read, count) = size - UsedBytes /\ UsedBytes \in Nat
        BY <2>1, RingFacts
      <4>2. FreeSize(size, write, read, count) < BlockLen(op)
        BY <1>2 DEF Push3Grow
      <4>3. size \in MinCap .. MaxCap /\ MinCap \in Nat /\ MaxCap \in Nat
        BY DEF IInv, TypeInv, TypeOK, MinCap, MaxCap
      <4>4. BlockLen(op) \in Nat
        BY <2>1, BlockLenType
      <4> QED BY <4>1, <4>2, <4>3, <4>4
    <3>2. Fifo!Refuse(op)
      BY <3>1, <2>3 DEF Fifo!Refuse, Fifo!Result, Result, ring, history, UsedBytes
    <3> QED BY <3>2, <2>1 DEF Fifo!Next
  <2> QED BY <1>2, <2>2, <2>3 DEF Push3Grow
<1>3. CASE Push3Write
  <2>1. op \in Message /\ alive
    BY <1>3 DEF Push3Write, IInv, TypeInv, TypeOK
  <2>2. UsedBytes + BlockLen(op) <= MaxCap
    <3>1. FreeSize(size, write, read, count) = size - UsedBytes /\ UsedBytes \in Nat
      BY <2>1, RingFacts
    <3>2. FreeSize(size, write, read, count) >= BlockLen(op)
      BY <1>3 DEF Push3Write
    <3>3. size \in MinCap .. MaxCap /\ MinCap \in Nat /\ MaxCap \in Nat
      BY DEF IInv, TypeInv, TypeOK, MinCap, MaxCap
    <3>4. BlockLen(op) \in Nat
      BY <2>1, BlockLenType
    <3> QED BY <3>1, <3>2, <3>3, <3>4
  <2>3. UsedBytes' = UsedBytes + BlockLen(op)
    BY <2>1, <1>3, EnqueueFacts DEF Push3Write, IInv, TypeInv, TypeOK
  <2>4. queue' = Append(queue, op) /\ res' = Result("OK", NoData) /\ alive' = alive
    BY <1>3 DEF Push3Write, Enqueue
  <2>5. Fifo!Accept(op)
    BY <2>1, <2>2, <2>3, <2>4 DEF Fifo!Accept, Fifo!Result, Result
  <2> QED BY <2>1, <2>5 DEF Fifo!Next
<1>4. CASE Pull \/ Copy \/ Remove
  BY <1>4, GetRefines DEF Pull, Copy, Remove
<1>5. CASE InitDynamic
  <2>1. CASE res' = Result("ERROR", NoData) /\ UNCHANGED <<ring, history>>
    <3>1. Fifo!Fail
      BY <2>1, <1>5 DEF InitDynamic, Fifo!Fail, Fifo!Result, Result, ring, history, UsedBytes
    <3> QED BY <3>1 DEF Fifo!Next
  <2>2. CASE alive' = TRUE /\ Forget /\ res' = Result("OK", NoData)
    <3>1. UsedBytes' = 0
      BY <2>2, ForgetFacts
    <3>2. Fifo!Open
      BY <2>2, <3>1, <1>5 DEF InitDynamic, Fifo!Open, Fifo!Result, Result, Forget
    <3> QED BY <3>2 DEF Fifo!Next
  <2> QED BY <1>5, <2>1, <2>2 DEF InitDynamic
<1>6. CASE FreeDynamic
  <2>1. alive /\ alive' = FALSE /\ Forget /\ res' = Result("OK", NoData)
    BY <1>6 DEF FreeDynamic
  <2>2. UsedBytes' = 0
    BY <2>1, ForgetFacts
  <2>3. Fifo!Close
    BY <2>1, <2>2 DEF Fifo!Close, Fifo!Result, Result, Forget
  <2> QED BY <2>3 DEF Fifo!Next
<1>7. CASE UNCHANGED vars
  BY <1>7 DEF vars, ring, history, Fifo!vars, UsedBytes
<1> QED BY <1>1, <1>2, <1>3, <1>4, <1>5, <1>6, <1>7 DEF Next

LEMMA RefinementInit == Init => Fifo!Init
  BY DEF Init, Fifo!Init, Result, Fifo!Result, UsedBytes

\* For every capacity, growth step and set of messages that fit the minimum
\* capacity, the ring buffer is a bounded FIFO queue: what a get returns is
\* byte for byte the oldest accepted message, a push is refused only above the
\* minimum capacity, and no check ever resets the ring.
THEOREM RingIsFifo == MessagesFit => (Spec => RefinesFifo)
<1>1. Init => Fifo!Init
  BY RefinementInit
<1>2. IInv /\ [Next]_vars => [Fifo!Next]_(Fifo!vars)
  BY RefinementStep
<1> QED BY <1>1, <1>2, Invariance, PTL DEF Spec, RefinesFifo, Fifo!Spec
================================================================================
