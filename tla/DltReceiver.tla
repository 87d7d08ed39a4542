------------------------------ MODULE DltReceiver ------------------------------
(* The receive buffer of a connection (dlt_receiver_* in dlt_common.c) and the *)
(* loops that cut messages out of it: user messages in the daemon              *)
(* (dlt_daemon_process_user_messages), DLT messages in the daemon and in the   *)
(* client library (dlt_message_read).                                          *)
(*                                                                             *)
(* A byte is a record: its sender, the number of its message, its position     *)
(* there and the length of the message.  The first byte is the pattern of the  *)
(* header.  All connections of applications share one buffer; "b" is the       *)
(* buffer a receiver works on.                                                 *)
EXTENDS Integers, Sequences, FiniteSets

CONSTANTS HeaderSize          \* sizeof(DltUserHeader), and of the headers of a DLT message

ASSUME HeaderAssumption == HeaderSize \in Nat \ {0}

NoBytes == <<>>
NoByte == [from |-> 0, n |-> 0, pos |-> 0, len |-> 0]

\* The length of a message is in its header.
LengthOf(byte) == byte.len

\* receiver->buf is an offset into the buffer; a backup is a copy of the bytes left over.
NewReceiver == [bytesRcvd |-> 0, buf |-> 0, backup |-> NoBytes]

dlt_receiver_init(size) == [rec |-> NewReceiver, b |-> [k \in 1 .. size |-> NoByte]]

\* Overwrite the buffer from offset "at" on.
Store(b, at, data) ==
  [k \in 1 .. Len(b) |-> IF at < k /\ k <= at + Len(data) THEN data[k - at] ELSE b[k]]

\* How many bytes a read may return, given those that wait.
Room(rec, b, waiting) ==
  LET free == Len(b) - rec.bytesRcvd IN IF Len(waiting) < free THEN Len(waiting) ELSE free

\* Mutant of dlt_receiver_receive: the bytes left over are not put back.
ReceiveWithoutBackup(rec, b, data) ==
  [rec |-> [bytesRcvd |-> rec.bytesRcvd + Len(data), buf |-> 0, backup |-> NoBytes],
   b |-> Store(b, rec.bytesRcvd, data)]

\* What was left over, and behind it what is read; a read of nothing forgets what was left.
dlt_receiver_receive(rec, b, data) ==
  LET kept == IF rec.bytesRcvd > 0 THEN Store(b, 0, rec.backup) ELSE b
      backup == IF rec.bytesRcvd > 0 THEN NoBytes ELSE rec.backup
  IN  [rec |-> [bytesRcvd |-> IF data = <<>> THEN 0 ELSE rec.bytesRcvd + Len(data),
                buf |-> 0, backup |-> backup],
       b |-> Store(kept, rec.bytesRcvd, data)]

dlt_receiver_remove(rec, size) ==
  IF size > rec.bytesRcvd \/ size <= 0
  THEN [rec EXCEPT !.buf = rec.buf + rec.bytesRcvd, !.bytesRcvd = 0]
  ELSE [rec EXCEPT !.buf = rec.buf + size, !.bytesRcvd = rec.bytesRcvd - size]

\* Only what does not lie at the beginning of the buffer is copied.
dlt_receiver_move_to_begin(rec, b) ==
  IF rec.buf # 0 /\ rec.bytesRcvd # 0
  THEN [rec EXCEPT !.backup = SubSeq(b, rec.buf + 1, rec.buf + rec.bytesRcvd)] ELSE rec

dlt_user_check_userheader(b, at) == at + 1 <= Len(b) /\ b[at + 1].pos = 1

--------------------------------------------------------------------------------
(* A loop takes messages as long as whole ones are there.  Its result is the   *)
(* receiver and the messages it took, each a sequence of bytes.                *)

Complete(rec, b) ==
  rec.bytesRcvd >= HeaderSize /\ rec.bytesRcvd >= LengthOf(b[rec.buf + 1])

Message(rec, b) == SubSeq(b, rec.buf + 1, rec.buf + LengthOf(b[rec.buf + 1]))

\* dlt_message_read in a loop: DLT messages from a client or a control application, up to the end
\* or to a message that is not removed, with a number in "stop".  A message has at least one
\* byte, so there are no more than Len(b) rounds.
ReadMessages(rec, b, stop) ==
  LET after[n \in Nat] ==
        IF n = 0 THEN [rec |-> rec, taken |-> <<>>]
        ELSE LET s == after[n - 1]
             IN  IF ~Complete(s.rec, b) \/ b[s.rec.buf + 1].n \in stop THEN s
                 ELSE [rec |-> dlt_receiver_remove(s.rec, LengthOf(b[s.rec.buf + 1])),
                       taken |-> Append(s.taken, Message(s.rec, b))]
  IN  after[Len(b)]

\* Offsets at which the pattern is looked for; the last one may lie too close to the end.
Patterns(rec, b) ==
  {o \in 0 .. rec.bytesRcvd - HeaderSize + 1 : dlt_user_check_userheader(b, rec.buf + o)}

\* User messages: the loop looks for the pattern of the user header, calls the function for
\* the type, and ends when that function fails: the message is not complete, or its type is
\* not supported and only its header is removed.
UserMessage(s, b, unsupported) ==
  LET rec == s.rec
      offset == CHOOSE o \in Patterns(rec, b) : \A p \in Patterns(rec, b) : o <= p
      at == IF offset > 0 THEN dlt_receiver_remove(rec, offset) ELSE rec
      byte == b[at.buf + 1]
  IN  IF rec.bytesRcvd < HeaderSize \/ Patterns(rec, b) = {} THEN [s EXCEPT !.more = FALSE]
      ELSE IF byte.n \in unsupported
           THEN [s EXCEPT !.rec = dlt_receiver_remove(at, HeaderSize), !.more = FALSE]
      ELSE IF ~Complete(at, b) THEN [s EXCEPT !.rec = at, !.more = FALSE]
      ELSE [s EXCEPT !.rec = dlt_receiver_remove(at, LengthOf(byte)), !.taken = Append(@, Message(at, b))]

UserMessages(rec, b, unsupported) ==
  LET after[n \in Nat] ==
        IF n = 0 THEN [rec |-> rec, taken |-> <<>>, more |-> TRUE]
        ELSE IF after[n - 1].more THEN UserMessage(after[n - 1], b, unsupported) ELSE after[n - 1]
  IN  after[Len(b)]
================================================================================
