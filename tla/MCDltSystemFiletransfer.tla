------------------------ MODULE MCDltSystemFiletransfer ------------------------
(* Instances of DltFileTransfer and DltSystemFiletransfer for TLC. *)
EXTENDS DltSystemFiletransfer

TransferShape(len, delete, mayCancel, changes, fulls) ==
  [len |-> len, delete |-> delete, cancel |-> mayCancel, changes |-> changes, fulls |-> fulls]

\* No transfer; lengths below, at and above one, two and three packages, with two changes of the
\* file; a caller that cancels; a full buffer.
XferIdle == TransferShape(0, FALSE, FALSE, 0, 0)
MCTransferLimits ==
  {XferIdle} \cup {TransferShape(len, FALSE, FALSE, 2, 0) : len \in {1, 2, 3, 5}}
  \cup {TransferShape(0, TRUE, FALSE, 1, 1), TransferShape(4, TRUE, FALSE, 1, 1), TransferShape(3, FALSE, TRUE, 1, 0)}

\* With two packages, the second one not full, and with one full package.
MCDumpSize == [d \in {1, 2} |-> 4 - d]

SystemShape(dumps, compress, crashes, fails, leaves, fulls) ==
  [dumps |-> dumps, compress |-> compress, crashes |-> crashes, fails |-> fails, leaves |-> leaves, fulls |-> fulls]

\* No dump; two dumps with a crash or a failing call; one dump and everything that goes wrong.
SystemIdle == SystemShape({}, FALSE, 0, 0, 0, 0)
MCSystemLimits ==
  {SystemIdle, SystemShape({1, 2}, TRUE, 1, 0, 0, 0), SystemShape({1, 2}, FALSE, 0, 1, 0, 0),
   SystemShape({1}, TRUE, 1, 0, 0, 1), SystemShape({1}, TRUE, 2, 1, 0, 0), SystemShape({1}, FALSE, 1, 0, 1, 1)}
================================================================================
