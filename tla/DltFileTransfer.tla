---------------------------- MODULE DltFileTransfer ----------------------------
(* The file transfer of the application library (dlt_filetransfer.c): a file is  *)
(* logged as a header (FLST), packages (FLDA) and an end (FLFI), each with the   *)
(* serial number that stat() gives the path at that moment.  Other processes     *)
(* append to the file, replace or remove it between any two calls.               *)
(*                                                                               *)
(* A serial number is a hash of 16 bits of the inode, the size, the second of    *)
(* the last change and the name, so two versions of a file may have the same     *)
(* one.  A message of the model holds the version that stat() saw; a receiver    *)
(* sees only the serial number of that version.                                  *)
EXTENDS Integers, Sequences

CONSTANTS PackageSize,        \* BUFFER_SIZE
          StdioSize,          \* bytes the C library reads ahead
          TransferLimits      \* shapes of the histories, see TransferLimit

\* Length of the file, whether it is deleted at the end, whether the caller may cancel, how often
\* others change the file and fill the startup buffer.
TransferLimit == [len : Nat, delete : BOOLEAN, cancel : BOOLEAN, changes : Nat, fulls : Nat]

ASSUME TransferAssumption ==
  /\ PackageSize \in Nat \ {0} /\ StdioSize \in Nat \ {0} /\ StdioSize >= PackageSize
  /\ TransferLimits \subseteq TransferLimit

VARIABLES nodes,              \* inodes: [data, ver]
          path,               \* the inode the path leads to, 0 if there is none
          versions,           \* history: what the file held in each version
          serials,            \* history: the serial number of each version
          xfer,               \* the call of dlt_user_log_file_complete
          logs,               \* messages of the transfer
          half,               \* at least half of the startup buffer is free
          cancel,             \* *fileCancelTransferFlag
          xferlimit, xferused

xfervars == <<nodes, path, versions, serials, xfer, logs, half, cancel, xferlimit, xferused>>
envvars == <<nodes, path, versions, serials, half, cancel, xferlimit, xferused>>

NoSerial == 0

\* getFileSerialNumber, getFilesize: of what the path leads to now; the number is serials[version].
getFileSerialNumber == IF path = 0 THEN NoSerial ELSE nodes[path].ver
getFilesize == IF path = 0 THEN 0 ELSE Len(nodes[path].data)
isFile == path # 0

\* Mutant of PackagesOf: one more for the rest, also when there is none.
PackagesOfWithRest(len) == len \div PackageSize + 1

\* dlt_user_log_file_packagesCount of a file of that length.
PackagesOf(len) ==
  IF len < PackageSize THEN 1
  ELSE len \div PackageSize + (IF len % PackageSize = 0 THEN 0 ELSE 1)

dlt_user_log_file_packagesCount == IF isFile THEN PackagesOf(getFilesize) ELSE -1

FLST(serial, size, count) == [kind |-> "FLST", serial |-> serial, size |-> size, count |-> count]
FLDA(serial, n, data) == [kind |-> "FLDA", serial |-> serial, n |-> n, data |-> data]
FLFI(serial) == [kind |-> "FLFI", serial |-> serial]
FLER == [kind |-> "FLER"]

NewCall == [pc |-> "start", serial |-> 0, size |-> 0, node |-> 0, off |-> 0, ahead |-> <<>>, eof |-> FALSE,
          n |-> 0, got |-> <<>>, open |-> FALSE, ret |-> "none"]

Returns(ret) == xfer' = [xfer EXCEPT !.pc = "done", !.ret = ret, !.open = FALSE]
Fails(ret) == Returns(ret) /\ logs' = Append(logs, FLER)

--------------------------------------------------------------------------------
(* dlt_user_log_file_complete, or a program that makes the same calls with a flag *)
(* to cancel them                                                                 *)

dlt_user_log_file_complete ==
  /\ xfer.pc = "start"
  /\ IF isFile THEN xfer' = [xfer EXCEPT !.pc = "serial"] /\ UNCHANGED logs ELSE Fails("complete")
  /\ UNCHANGED envvars

\* dlt_user_log_file_header: three looks at the file.
dlt_user_log_file_header ==
  /\ \/ /\ xfer.pc = "serial"
        /\ IF isFile THEN xfer' = [xfer EXCEPT !.pc = "size", !.serial = getFileSerialNumber] /\ UNCHANGED logs
                     ELSE Fails("header")
     \/ /\ xfer.pc = "size"
        /\ xfer' = [xfer EXCEPT !.pc = "count", !.size = getFilesize]
        /\ UNCHANGED logs
     \/ /\ xfer.pc = "count"
        /\ logs' = Append(logs, FLST(xfer.serial, xfer.size, dlt_user_log_file_packagesCount))
        /\ xfer' = [xfer EXCEPT !.pc = "open"]
  /\ UNCHANGED envvars

\* dlt_user_log_file_data_cancelable for all packages: the file is opened once ...
OpenData ==
  /\ xfer.pc = "open"
  /\ IF isFile THEN xfer' = [xfer EXCEPT !.pc = "loop", !.node = path, !.open = TRUE] /\ UNCHANGED logs
               ELSE Fails("data")
  /\ UNCHANGED envvars

checkUserBufferForFreeSpace == half

Least(a, b) == IF a < b THEN a ELSE b

\* fread: what was read ahead first, then what the inode holds now.
Read ==
  LET data == nodes[xfer.node].data
      more == IF Len(xfer.ahead) >= PackageSize THEN <<>>
              ELSE SubSeq(data, xfer.off + 1, Least(Len(data), xfer.off + StdioSize))
      all == xfer.ahead \o more
  IN  [xfer EXCEPT !.got = SubSeq(all, 1, Least(Len(all), PackageSize)),
                   !.ahead = SubSeq(all, PackageSize + 1, Len(all)),
                   !.off = @ + Len(more), !.eof = Len(all) < PackageSize, !.n = @ + 1]

\* Mutant of AfterRead: an empty package is logged as well.
AfterReadAlways(r) == [r EXCEPT !.pc = "stat"]

\* Nothing more to read is the end of the loop, too.
AfterRead(r) == [r EXCEPT !.pc = IF r.got = <<>> THEN "end" ELSE "stat"]

\* ... each round of the loop reads a package if the startup buffer has room for it ...
ReadPackage ==
  /\ xfer.pc = "loop"
  /\ IF xfer.eof THEN xfer' = [xfer EXCEPT !.pc = "end"]
     ELSE IF ~checkUserBufferForFreeSpace THEN Returns("buffer")
     ELSE xfer' = AfterRead(Read)
  /\ UNCHANGED <<envvars, logs>>

\* ... and logs it with the serial number of now.  A caller that cancels leaves the file open.
LogPackage ==
  /\ xfer.pc = "stat"
  /\ IF getFileSerialNumber = NoSerial THEN Returns("serial") /\ UNCHANGED logs
     ELSE /\ logs' = Append(logs, FLDA(getFileSerialNumber, xfer.n, xfer.got)) \o (IF cancel THEN <<FLER>> ELSE <<>>)
          /\ xfer' = IF cancel THEN [xfer EXCEPT !.pc = "done", !.ret = "cancelled"] ELSE [xfer EXCEPT !.pc = "loop"]
  /\ UNCHANGED envvars

\* dlt_user_log_file_end; the removal is a call of its own.
dlt_user_log_file_end ==
  /\ \/ /\ xfer.pc = "end"
        /\ IF ~isFile THEN Fails("end") /\ UNCHANGED path
           ELSE /\ logs' = Append(logs, FLFI(getFileSerialNumber))
                /\ IF xferlimit.delete THEN xfer' = [xfer EXCEPT !.pc = "remove"] ELSE Returns("ok")
                /\ UNCHANGED path
     \/ /\ xfer.pc = "remove"
        /\ IF isFile THEN path' = 0 /\ Returns("ok") /\ UNCHANGED logs ELSE Fails("remove") /\ UNCHANGED path
  /\ UNCHANGED <<nodes, versions, serials, half, cancel, xferlimit, xferused>>

--------------------------------------------------------------------------------
(* Others *)

Bytes(ver, n) == [k \in 1 .. n |-> <<ver, k>>]

\* Serial numbers that the version ver of the file may get: its own, or that of an earlier version,
\* of the same length and second or by chance.
SerialNumbers(ver) == {ver} \cup {serials[v] : v \in DOMAIN serials}

\* Another process appends to the file, writes it anew in place, replaces or removes it.
FileChanges ==
  /\ xfer.pc # "done" /\ xferused.changes < xferlimit.changes /\ isFile
  /\ xferused' = [xferused EXCEPT !.changes = @ + 1]
  /\ LET ver == Len(versions) + 1
         old == nodes[path].data
     IN  \/ \E data \in {old \o Bytes(ver, 1), Bytes(ver, Len(old)), Bytes(ver, 1)} :
              /\ nodes' = [nodes EXCEPT ![path] = [data |-> data, ver |-> ver]]
              /\ versions' = Append(versions, data) /\ UNCHANGED path
              /\ \E s \in SerialNumbers(ver) : serials' = Append(serials, s)
         \/ /\ nodes' = Append(nodes, [data |-> Bytes(ver, Len(old)), ver |-> ver])
            /\ versions' = Append(versions, Bytes(ver, Len(old))) /\ path' = Len(nodes) + 1
            /\ \E s \in SerialNumbers(ver) : serials' = Append(serials, s)
         \/ path' = 0 /\ UNCHANGED <<nodes, versions, serials>>
  /\ UNCHANGED <<xfer, logs, half, cancel, xferlimit>>

\* The startup buffer fills, and the housekeeper empties it.
BufferMoves ==
  /\ xfer.pc # "done" /\ (half => xferused.fulls < xferlimit.fulls)
  /\ half' = ~half
  /\ xferused' = IF half THEN [xferused EXCEPT !.fulls = @ + 1] ELSE xferused
  /\ UNCHANGED <<nodes, path, versions, serials, xfer, logs, cancel, xferlimit>>

CallerCancels ==
  /\ xferlimit.cancel /\ ~cancel /\ xfer.pc # "done"
  /\ cancel' = TRUE
  /\ UNCHANGED <<nodes, path, versions, serials, xfer, logs, half, xferlimit, xferused>>

XferInit ==
  /\ xferlimit \in TransferLimits
  /\ nodes = <<[data |-> Bytes(1, xferlimit.len), ver |-> 1]>> /\ path = 1
  /\ versions = <<Bytes(1, xferlimit.len)>> /\ serials = <<1>>
  /\ xfer = NewCall /\ logs = <<>> /\ half = TRUE /\ cancel = FALSE
  /\ xferused = [changes |-> 0, fulls |-> 0]

XferNext ==
  \/ dlt_user_log_file_complete \/ dlt_user_log_file_header \/ OpenData \/ ReadPackage \/ LogPackage
  \/ dlt_user_log_file_end
  \/ FileChanges \/ BufferMoves \/ CallerCancels

XferSpec == XferInit /\ [][XferNext]_xfervars

--------------------------------------------------------------------------------
(* Properties *)

\* A receiver has a header, packages and an end that all carry one serial number.
LooksComplete ==
  /\ logs # <<>> /\ logs[Len(logs)].kind = "FLFI"
  /\ \A k \in DOMAIN logs : serials[logs[k].serial] = serials[logs[1].serial]

\* No other version of the file has the serial number of the one that was announced.
Unmistakable == \A v \in DOMAIN versions : serials[v] = serials[logs[1].serial] => v = logs[1].serial

\* Bytes of package k of a file.
PartOf(data, k) == SubSeq(data, (k - 1) * PackageSize + 1, Least(Len(data), k * PackageSize))

\* The messages are the announced packages, in order, and these are the bytes of the announced version
\* from the first to the last and nothing else.  The header of an empty file announces a package
\* that is never sent.
IsVersion ==
  LET version == versions[logs[1].serial]
      n == Len(logs) - 2
  IN  /\ \A k \in 1 .. n : logs[k + 1] = FLDA(logs[1].serial, k, PartOf(version, k))
      /\ Len(version) <= n * PackageSize
      /\ version # <<>> => n = logs[1].count /\ Len(version) = logs[1].size

\* What a receiver puts together is a version of the file, whatever happened to the file meanwhile, if
\* the version has a serial number of its own.
ReceivedIsVersion == LooksComplete /\ Unmistakable => IsVersion

\* A file nobody changes, logged while there is room, arrives.
UnchangedArrives ==
  xfer.ret = "ok" /\ Len(versions) = 1 =>
    \E k \in DOMAIN logs : logs[k].kind = "FLFI" /\ \A i \in 1 .. k : logs[i].serial = 1

\* Whoever changes, truncates or replaces the file while it is logged, a transfer that looks complete
\* to a receiver is one version of the file, byte for byte, unless another version has the same serial
\* number (getFileSerialNumber), and a file left alone is transferred
\* (dlt_user_log_file_data_cancelable, dlt_user_log_file_packagesCount).
TransferExact == ReceivedIsVersion /\ UnchangedArrives
================================================================================
