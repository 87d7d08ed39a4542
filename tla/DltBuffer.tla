------------------------------- MODULE DltBuffer -------------------------------
(* The ring buffer of src/shared/dlt_common.c (functions dlt_buffer_...): the  *)
(* daemon's client ring buffer and the startup buffer of every application.    *)
(*                                                                             *)
(* The memory is modelled byte for byte ("cells"): an entry is a block header  *)
(* of BlockHeadLen cells that carries the payload size, followed by the        *)
(* payload.  Both pointers range over 0..size: a pointer equal to size stands  *)
(* for position 0 of the next turn.  The buffer is used by one thread at a     *)
(* time (the daemon is single threaded, the library holds dlt_mutex), so each  *)
(* call is atomic, except that the growth loop of dlt_buffer_push3 is one step *)
(* per iteration.                                                              *)
EXTENDS Integers, Sequences

CONSTANTS Message,       \* the messages users push
          MsgSize,       \* payload bytes of each message
          HeadLen,       \* sizeof(DltBufferHead)
          BlockHeadLen,  \* sizeof(DltBufferBlockHead)
          MinSize,       \* min_size of the DltBuffer
          MaxSize,       \* max_size
          StepSize,      \* step_size; 0 for a static buffer
          NoMsg          \* no push in progress

ASSUME MessageAssumption == MsgSize \in [Message -> Nat] /\ NoMsg \notin Message

\* The parameter checks of dlt_buffer_init_dynamic (3777-3785, 3809), and the
\* static buffers of dlt_shm.c: min_size = max_size and no growth.
ASSUME SizeAssumption ==
  /\ HeadLen \in Nat /\ BlockHeadLen \in Nat \ {0}
  /\ MinSize \in Nat /\ MaxSize \in Nat /\ StepSize \in Nat
  /\ HeadLen < MinSize
  /\ MinSize <= MaxSize
  /\ StepSize <= MaxSize
  /\ StepSize = 0 => MinSize = MaxSize

VARIABLES alive,   \* buf->shm # NULL
          size,    \* buf->size: bytes available for blocks
          mem,     \* buf->mem
          write,   \* head->write
          read,    \* head->read
          count,   \* head->count
          op,      \* the message of the push3 in progress, or NoMsg
          res,     \* outcome of the last call: the return value, and the data
                   \* read or the message refused
          queue,   \* history: the entries pushed and not yet removed
          start    \* history: distance of each entry, and last of the free
                   \* space, from the oldest entry

ring == <<alive, size, mem, write, read, count>>
history == <<queue, start>>
vars == <<ring, op, res, history>>

--------------------------------------------------------------------------------
(* Cells *)

HeadCell(s, k) == <<"head", s, k>>
DataCell(m, k) == <<"data", m, k>>
Zero == <<"zero", 0, 0>>
Junk == <<"junk", 0, 0>>   \* memory malloc returned and nobody wrote

MinCap == MinSize - HeadLen
MaxCap == MaxSize - HeadLen
Sizes == {MsgSize[m] : m \in Message}
BlockLen(m) == BlockHeadLen + MsgSize[m]
Header(m) == [k \in 0 .. BlockHeadLen - 1 |-> HeadCell(MsgSize[m], k)]
Payload(m) == [k \in 0 .. MsgSize[m] - 1 |-> DataCell(m, k)]
NoData == <<>>
Result(r, d) == [ret |-> r, data |-> d]
Cleared(n) == [i \in 0 .. n - 1 |-> Zero]

\* A pointer moved over n cells.
Advance(sz, p, n) == IF p + n <= sz THEN p + n ELSE p + n - sz

WriteBlock(m, sz, w, data, n) ==
  [i \in 0 .. sz - 1 |-> IF w <= i /\ i < w + n THEN data[i - w]
                         ELSE IF i < w + n - sz THEN data[i + sz - w]
                         ELSE m[i]]

ReadBlock(m, sz, r, n) ==
  [k \in 0 .. n - 1 |-> IF r + k < sz THEN m[r + k] ELSE m[r + k - sz]]

\* Mutant of FreeSize: one cell always stays free.
FreeSizeKeepsGap(sz, w, r, c) ==
  IF r > w THEN r - w - 1 ELSE IF c # 0 /\ w = r THEN 0 ELSE sz - w + r - 1

FreeSize(sz, w, r, c) ==
  IF r > w THEN r - w ELSE IF c # 0 /\ w = r THEN 0 ELSE sz - w + r

\* Mutant of UsedSize: a full ring counts as empty.
UsedSizeFullIsEmpty(sz, w, r) == IF w >= r THEN w - r ELSE sz - r + w

UsedSize(sz, w, r) == IF w > r THEN w - r ELSE sz - r + w

--------------------------------------------------------------------------------
(* History *)

UsedBytes == start[Len(queue) + 1]

Forget == queue' = <<>> /\ start' = <<0>>

Enqueue(m) ==
  /\ queue' = Append(queue, m)
  /\ start' = Append(start, UsedBytes + BlockLen(m))

Dequeue ==
  IF queue = <<>> THEN UNCHANGED history
  ELSE /\ queue' = Tail(queue)
       /\ start' = [i \in 1 .. Len(queue) |-> start[i + 1] - start[2]]

--------------------------------------------------------------------------------
(* Operations *)

Init ==
  /\ alive = TRUE
  /\ size = MinCap
  /\ mem = Cleared(MinCap)
  /\ write = 0 /\ read = 0 /\ count = 0
  /\ op = NoMsg
  /\ res = Result("OK", NoData)
  /\ queue = <<>> /\ start = <<0>>

\* dlt_buffer_init_dynamic on a buffer that was freed; malloc may fail.
InitDynamic ==
  /\ op = NoMsg /\ ~alive /\ StepSize # 0
  /\ \/ /\ alive' = TRUE
        /\ size' = MinCap /\ mem' = Cleared(MinCap)
        /\ write' = 0 /\ read' = 0 /\ count' = 0
        /\ Forget
        /\ res' = Result("OK", NoData)
     \/ /\ res' = Result("ERROR", NoData)
        /\ UNCHANGED <<ring, history>>
  /\ UNCHANGED op

FreeDynamic ==
  /\ op = NoMsg /\ alive /\ StepSize # 0
  /\ alive' = FALSE
  /\ Forget
  /\ res' = Result("OK", NoData)
  /\ UNCHANGED <<size, mem, write, read, count, op>>

Reset ==
  /\ write' = 0 /\ read' = 0 /\ count' = 0
  /\ mem' = Cleared(size)
  /\ Forget
  /\ UNCHANGED <<alive, size>>

PointersInRange == read \in 0 .. size /\ write \in 0 .. size

\* Entry of dlt_buffer_push3: the checks before the growth loop.
Push3(m) ==
  /\ op = NoMsg
  /\ IF alive /\ PointersInRange
     THEN /\ op' = m
          /\ UNCHANGED <<ring, res, history>>
     ELSE /\ res' = Result("ERROR", <<m>>)
          /\ IF alive THEN Reset ELSE UNCHANGED <<ring, history>>
          /\ UNCHANGED op

\* Mutant of Relocated: the wrapped part is not moved.
RelocatedLinear ==
  [i \in 0 .. size + StepSize - 1 |->
     IF i < size - read THEN mem[read + i] ELSE IF i < size THEN mem[i] ELSE Junk]

\* The new memory of dlt_buffer_increase_size.
Relocated ==
  [i \in 0 .. size + StepSize - 1 |->
     IF read < write THEN IF i < write - read THEN mem[read + i] ELSE Junk
     ELSE IF i < size - read THEN mem[read + i]
     ELSE IF i < size - read + write THEN mem[i - (size - read)]
     ELSE Junk]

IncreaseSize ==
  /\ StepSize # 0
  /\ size + HeadLen + StepSize <= MaxSize
  /\ mem' = Relocated
  /\ write' = IF read < write THEN write - read ELSE size + write - read
  /\ read' = 0
  /\ size' = size + StepSize
  /\ UNCHANGED <<alive, count>>

\* One iteration of the growth loop; malloc may fail, and then so does the push.
Push3Grow ==
  /\ op # NoMsg
  /\ FreeSize(size, write, read, count) < BlockLen(op)
  /\ \/ IncreaseSize /\ UNCHANGED <<op, res, history>>
     \/ /\ op' = NoMsg
        /\ res' = Result("ERROR", <<op>>)
        /\ UNCHANGED <<ring, history>>

\* The header, then the payload; the pointer and the counter last.
Push3Write ==
  /\ op # NoMsg
  /\ FreeSize(size, write, read, count) >= BlockLen(op)
  /\ LET w == Advance(size, write, BlockHeadLen)
     IN /\ mem' = WriteBlock(WriteBlock(mem, size, write, Header(op), BlockHeadLen),
                             size, w, Payload(op), MsgSize[op])
        /\ write' = Advance(size, w, MsgSize[op])
  /\ count' = count + 1
  /\ Enqueue(op)
  /\ op' = NoMsg
  /\ res' = Result("OK", NoData)
  /\ UNCHANGED <<alive, size, read>>

\* The block at the read pointer is an intact entry of s payload bytes.
BlockOk(s) ==
  /\ UsedSize(size, write, read) >= BlockHeadLen + s
  /\ \A k \in 0 .. BlockHeadLen - 1 :
       ReadBlock(mem, size, read, BlockHeadLen)[k] = HeadCell(s, k)

\* Mutant of MinimizeSize: the message counter is not reset.
MinimizeSizeKeepsCount ==
  /\ size # MinCap
  /\ size' = MinCap /\ mem' = Cleared(MinCap)
  /\ write' = 0 /\ read' = 0
  /\ UNCHANGED <<alive, count>>

MinimizeSize ==
  /\ size # MinCap
  /\ size' = MinCap /\ mem' = Cleared(MinCap)
  /\ write' = 0 /\ read' = 0 /\ count' = 0
  /\ UNCHANGED alive

\* A get that found an intact block: data tells whether the caller wants the
\* payload, delete whether the entry is removed.
GetBlock(s, data, delete) ==
  LET r == Advance(size, read, BlockHeadLen)
  IN /\ res' = Result("OK", IF data THEN ReadBlock(mem, size, r, s) ELSE NoData)
     /\ IF ~delete
        THEN UNCHANGED <<ring, history>>
        ELSE /\ Dequeue
             /\ \/ count = 1 /\ MinimizeSize
                \/ \* nothing to minimise, or malloc failed
                   /\ read' = Advance(size, r, s)
                   /\ count' = count - 1
                   /\ UNCHANGED <<alive, size, mem, write>>

\* A get that found no entry, or one it cannot trust: then the buffer is reset.
GetFailed ==
  /\ res' = Result("ERROR", NoData)
  /\ IF ~alive \/ (PointersInRange /\ count = 0 /\ write = read)
     THEN UNCHANGED <<ring, history>>
     ELSE Reset

Get(data, delete) ==
  /\ op = NoMsg
  /\ IF alive /\ PointersInRange /\ count > 0 /\ \E s \in Sizes : BlockOk(s)
     THEN \E s \in Sizes : BlockOk(s) /\ GetBlock(s, data, delete)
     ELSE GetFailed
  /\ UNCHANGED op

Pull == Get(TRUE, TRUE)
Copy == Get(TRUE, FALSE)
Remove == Get(FALSE, TRUE)

Next ==
  \/ \E m \in Message : Push3(m)
  \/ Push3Grow
  \/ Push3Write
  \/ Pull
  \/ Copy
  \/ Remove
  \/ InitDynamic
  \/ FreeDynamic

Spec == Init /\ [][Next]_vars

GetUsedSize == IF ~alive \/ count = 0 THEN 0 ELSE UsedSize(size, write, read)
GetMessageCount == IF alive THEN count ELSE 0

--------------------------------------------------------------------------------
(* Properties *)

Cell == ({"head"} \X Sizes \X (0 .. BlockHeadLen - 1))
        \union ({"data"} \X Message \X Nat) \union {Zero, Junk}

\* Types; both pointers stay within the memory that malloc returned, whatever
\* the growth and shrink steps did to it, so the "Pointer out of range" resets
\* of dlt_buffer_push3 and dlt_buffer_get are never taken.
TypeOK ==
  /\ alive \in BOOLEAN
  /\ size \in MinCap .. MaxCap
  /\ mem \in [0 .. size - 1 -> Cell]
  /\ write \in 0 .. size
  /\ read \in 0 .. size
  /\ count \in Nat
  /\ op \in Message \union {NoMsg}
  /\ res.ret \in {"OK", "ERROR"}
  /\ queue \in Seq(Message)
  /\ start \in Seq(Nat) /\ Len(start) = Len(queue) + 1

\* The cell at distance d from the read pointer.
At(d) == IF read + d < size THEN read + d ELSE read + d - size

\* The counter counts the entries, they fill the ring without gaps from the
\* read to the write pointer, and an empty ring has equal pointers (what
\* dlt_buffer_get checks with "SHM should be empty, but is not").
PointersAgree ==
  alive =>
    /\ count = Len(queue)
    /\ UsedBytes <= size
    /\ write = Advance(size, read, UsedBytes)

\* Each entry of the history starts where the one before it ends (and so, for
\* the proofs, behind the end of every earlier one).
Contiguous ==
  /\ start[1] = 0
  /\ \A i \in 1 .. Len(queue) : start[i + 1] = start[i] + BlockLen(queue[i])
  /\ \A i, j \in 1 .. Len(queue) + 1 : i < j => start[i] < start[j]

\* Every entry that was accepted and not removed is intact in memory, header
\* and payload, across wrap-around, growth and the writes of later entries.
EntriesIntact ==
  alive =>
    \A i \in 1 .. Len(queue) :
      /\ \A k \in 0 .. BlockHeadLen - 1 :
           mem[At(start[i] + k)] = HeadCell(MsgSize[queue[i]], k)
      /\ \A k \in 0 .. MsgSize[queue[i]] - 1 :
           mem[At(start[i] + BlockHeadLen + k)] = DataCell(queue[i], k)

\* Inductive whatever the sizes: a push in progress works on an initialised
\* buffer, and the history is well formed.
TypeInv == TypeOK /\ Contiguous /\ (op # NoMsg => alive)

\* Inductive when every message fits the minimum capacity.
IInv == TypeInv /\ PointersAgree /\ EntriesIntact

\* The minimum capacity takes every message (the daemon and the library log
\* messages far smaller than their default minimum sizes).
MessagesFit == \A m \in Message : BlockLen(m) <= MinCap

\* dlt_buffer_get_used_size, which the daemon logs and the library compares with
\* its warning threshold, is the number of bytes the entries occupy.
UsedSizeExact == alive => GetUsedSize = UsedBytes

Fifo == INSTANCE BoundedFifo
          WITH Floor <- MinCap, Ceiling <- MaxCap, open <- alive,
               used <- UsedBytes

\* The ring implements the bounded FIFO queue: what a reader gets back is the
\* payload of the oldest entry, a push fails only above the minimum capacity,
\* a read fails only on an empty buffer, and no reset ever drops an entry.
RefinesFifo == Fifo!Spec
================================================================================
