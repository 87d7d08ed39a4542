------------------------------ MODULE BoundedFifo ------------------------------
(* What the DLT ring buffer promises its users (include/dlt/dlt_common.h,      *)
(* dlt_buffer_push3, dlt_buffer_pull, dlt_buffer_copy, dlt_buffer_remove): a   *)
(* bounded first-in first-out queue of messages that neither loses, reorders,  *)
(* duplicates nor damages an entry it has accepted.  The capacity is only      *)
(* bracketed: a message must be accepted while the queue with the message in   *)
(* it takes at most Floor bytes, and is never accepted beyond Ceiling bytes;   *)
(* in between the outcome depends on the growth step and on malloc.            *)
EXTENDS Integers, Sequences

CONSTANTS Message,      \* the messages that users push
          BlockLen(_),  \* bytes a message occupies in the buffer
          Payload(_),   \* what a reader gets back for a message
          Floor,        \* capacity that is always available
          Ceiling,      \* capacity that is never exceeded
          NoData        \* the reader's buffer when nothing is returned

VARIABLES open,         \* the buffer is initialised
          queue,        \* the accepted messages, oldest first
          used,         \* the bytes they occupy
          res           \* outcome of the last operation: its return value, and
                        \* the data read or the message refused

vars == <<open, queue, used, res>>

Result(r, d) == [ret |-> r, data |-> d]

Init == open = TRUE /\ queue = <<>> /\ used = 0 /\ res = Result("OK", NoData)

Accept(m) ==
  /\ open
  /\ used + BlockLen(m) <= Ceiling
  /\ queue' = Append(queue, m)
  /\ used' = used + BlockLen(m)
  /\ res' = Result("OK", NoData)
  /\ UNCHANGED open

Refuse(m) ==
  /\ ~open \/ used + BlockLen(m) > Floor
  /\ res' = Result("ERROR", <<m>>)
  /\ UNCHANGED <<open, queue, used>>

Copy ==
  /\ open
  /\ queue # <<>>
  /\ res' = Result("OK", Payload(Head(queue)))
  /\ UNCHANGED <<open, queue, used>>

Take(data) ==
  /\ open
  /\ queue # <<>>
  /\ queue' = Tail(queue)
  /\ used' = used - BlockLen(Head(queue))
  /\ res' = Result("OK", IF data THEN Payload(Head(queue)) ELSE NoData)
  /\ UNCHANGED open

\* A read of an empty or closed buffer, or an initialisation without memory.
Fail ==
  /\ ~open \/ queue = <<>>
  /\ res' = Result("ERROR", NoData)
  /\ UNCHANGED <<open, queue, used>>

Open ==
  /\ ~open
  /\ open' = TRUE /\ queue' = <<>> /\ used' = 0
  /\ res' = Result("OK", NoData)

Close ==
  /\ open
  /\ open' = FALSE /\ queue' = <<>> /\ used' = 0
  /\ res' = Result("OK", NoData)

Next ==
  \/ \E m \in Message : Accept(m) \/ Refuse(m)
  \/ Copy
  \/ \E data \in BOOLEAN : Take(data)
  \/ Fail
  \/ Open
  \/ Close

Spec == Init /\ [][Next]_vars
================================================================================
