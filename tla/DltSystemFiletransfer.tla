------------------------- MODULE DltSystemFiletransfer -------------------------
(* The file transfer of dlt-system (dlt-system-filetransfer.c): files that appear *)
(* in a watched directory are moved to .tocompress or .tosend, compressed, logged *)
(* package by package with the application library, and removed.  The process may *)
(* end between any two steps; the next start flushes what it finds on the disk.   *)
EXTENDS DltFileTransfer

CONSTANTS Dumps,              \* files that other programs write into the directory
          DumpSize,           \* DumpSize[d]: its bytes
          SystemLimits        \* shapes of the histories, see SystemLimit

\* Whether files are compressed; how often the process crashes, a call on the disk fails, clients
\* leave, and the startup buffer fills.
SystemLimit == [dumps : SUBSET Dumps, compress : BOOLEAN, crashes : Nat, fails : Nat, leaves : Nat, fulls : Nat]

ASSUME SystemAssumption == DumpSize \in [Dumps -> Nat \ {0}] /\ SystemLimits \subseteq SystemLimit

VARIABLES disk,               \* files: [dump, place, gz, len]
          sys,                \* the process
          inotify,            \* events that were not read yet
          transfers,          \* the messages of all transfers
          sent,               \* how many of them have left the process
          buffer,             \* its startup buffer: "empty", "held", "half" (less than half is free), "full"
          connected,          \* dlt_get_log_state() is 1
          writing,            \* dumps that are still being written
          dumped,             \* history: dumps that were begun
          torn,               \* history: removed before they were compressed as a whole
          hasty,              \* history: moved while they were still being written
          lost,               \* history: a message of their transfer was lost or wrong
          stuck,              \* history: left behind by a call that failed since the last start
          syslimit, sysused

messages == <<transfers, sent, buffer, lost>>
others == <<inotify, connected, writing, dumped, syslimit>>
sysvars == <<disk, sys, messages, others, torn, hasty, stuck, sysused>>

\* A compressed file is shorter than its source, and whole only when gzclose wrote its trailer.
GzLen(len) == len \div 2 + 1

\* A file in the directory counts with the length it will have; how much of it was written shows
\* when it is moved.
Dump(d, place) == [dump |-> d, place |-> place, gz |-> FALSE, len |-> DumpSize[d]]
Gz(d, len) == [dump |-> d, place |-> "send", gz |-> TRUE, len |-> len]
In(place) == {f \in disk : f.place = place}
None == [dump |-> 0, place |-> "none", gz |-> FALSE, len |-> 0]

Down == [pc |-> "down", stage |-> "none", todo |-> {}, cur |-> None, n |-> 0]

\* A call on the disk fails.
Broken == sysused.fails < syslimit.fails /\ sysused' = [sysused EXCEPT !.fails = @ + 1]

--------------------------------------------------------------------------------
(* Flushing what the last life cycle left *)

Scan(stage) == [Down EXCEPT !.pc = "scan", !.stage = stage, !.todo = In(stage)]
Waiting == [Down EXCEPT !.pc = "idle", !.stage = "idle"]

\* The caller of a function that returned goes on: the flush with the next file, the event loop.
Continue(f) ==
  IF sys.stage = "idle" THEN Waiting ELSE [sys EXCEPT !.pc = "scan", !.cur = None, !.n = 0, !.todo = @ \ {f}]

\* The call for f failed: the flush ends, also the parts of it that have not begun.
GiveUp(f) ==
  /\ sys' = Waiting
  /\ stuck' = IF sys.stage = "idle" THEN stuck \cup {f.dump} ELSE stuck \cup {g.dump : g \in disk}

\* The watch is set before the directories are flushed.
init_filetransfer_dirs ==
  /\ sys.pc = "down"
  /\ sys' = Scan("send") /\ inotify' = <<>> /\ stuck' = {}
  /\ UNCHANGED <<disk, messages, connected, writing, dumped, torn, hasty, syslimit, sysused>>

Sending(f) == [sys EXCEPT !.pc = "wait", !.cur = f, !.n = 0]

\* Mutant of flush_dir_send: every file is sent.
SendEverything ==
  /\ sys.pc = "scan" /\ sys.stage = "send"
  /\ \E f \in sys.todo : sys' = Sending(f) /\ UNCHANGED disk
  /\ UNCHANGED <<messages, others, torn, hasty, stuck, sysused>>

\* A compressed file whose source is still there was not finished, and is removed, if possible.
flush_dir_send ==
  /\ sys.pc = "scan" /\ sys.stage = "send"
  /\ \E f \in sys.todo :
       IF f.gz /\ \E g \in In("compress") : g.dump = f.dump
       THEN /\ sys' = Continue(f)
            /\ \/ disk' = disk \ {f} /\ UNCHANGED sysused
               \/ Broken /\ UNCHANGED disk
       ELSE sys' = Sending(f) /\ UNCHANGED <<disk, sysused>>
  /\ UNCHANGED <<messages, others, torn, hasty, stuck>>

flush_dir_compress ==
  /\ sys.pc = "scan" /\ sys.stage = "compress"
  /\ \E f \in sys.todo : sys' = [sys EXCEPT !.pc = "gzopen", !.cur = f]
  /\ UNCHANGED <<disk, messages, others, torn, hasty, stuck, sysused>>

\* A file that appears while the directory is read may be seen or not, and may still be written.
flush_dir_original ==
  /\ sys.pc = "scan" /\ sys.stage = "orig"
  /\ \E f \in In("orig") : sys' = [sys EXCEPT !.pc = "move", !.cur = f]
  /\ UNCHANGED <<disk, messages, others, torn, hasty, stuck, sysused>>

\* Mutant of flush_dir: what waits for its compression is forgotten.
FlushWithoutCompress ==
  /\ sys.pc = "scan" /\ sys.todo = {}
  /\ sys' = CASE sys.stage = "send" -> Scan("orig") [] OTHER -> Waiting
  /\ UNCHANGED <<disk, messages, others, torn, hasty, stuck, sysused>>

\* flush_dir: one directory after the other.
flush_dir ==
  /\ sys.pc = "scan" /\ sys.todo = {}
  /\ sys' = CASE sys.stage = "send" -> Scan("compress") [] sys.stage = "compress" -> Scan("orig") [] OTHER -> Waiting
  /\ UNCHANGED <<disk, messages, others, torn, hasty, stuck, sysused>>

\* process_files: an event; the flush may already have taken its file.
process_files ==
  /\ sys.pc = "idle" /\ inotify # <<>>
  /\ inotify' = Tail(inotify)
  /\ LET there == {f \in In("orig") : f.dump = Head(inotify)} IN
     sys' = IF there = {} THEN Waiting ELSE [sys EXCEPT !.pc = "move", !.cur = CHOOSE f \in there : TRUE]
  /\ UNCHANGED <<disk, messages, connected, writing, dumped, torn, hasty, stuck, syslimit, sysused>>

--------------------------------------------------------------------------------
(* One file *)

\* How much of a file there is: what a program is still writing may have any length.
Written(f) == IF f.dump \in writing THEN 0 .. f.len ELSE {f.len}

\* send_one: the file is moved away from those who may write it again.  A program that still writes it
\* goes on with the moved file, which is left out.
send_one ==
  /\ sys.pc = "move"
  /\ \/ \E len \in Written(sys.cur) :
          LET to == [sys.cur EXCEPT !.place = IF syslimit.compress THEN "compress" ELSE "send", !.len = len] IN
          /\ disk' = (disk \ {sys.cur}) \cup {to}
          /\ sys' = [sys EXCEPT !.pc = IF syslimit.compress THEN "gzopen" ELSE "wait", !.cur = to,
                                !.todo = @ \ {sys.cur}]
          /\ hasty' = hasty \cup ({sys.cur.dump} \cap writing)
          /\ UNCHANGED <<stuck, sysused>>
     \/ Broken /\ GiveUp(sys.cur) /\ UNCHANGED <<disk, hasty>>
  /\ UNCHANGED <<messages, others, torn>>

\* compress_file_to: an old compressed file is truncated ...
gzopen ==
  /\ sys.pc = "gzopen"
  /\ \/ /\ disk' = {f \in disk : ~(f.gz /\ f.dump = sys.cur.dump)} \cup {Gz(sys.cur.dump, 0)}
        /\ sys' = [sys EXCEPT !.pc = "gzwrite"]
        /\ UNCHANGED <<stuck, sysused>>
     \/ Broken /\ GiveUp(sys.cur) /\ UNCHANGED disk
  /\ UNCHANGED <<messages, others, torn, hasty>>

Compressed == CHOOSE f \in disk : f.gz /\ f.dump = sys.cur.dump

\* ... a part of it reaches the disk (or reading fails) ...
gzwrite ==
  /\ sys.pc = "gzwrite"
  /\ \/ /\ \E len \in 0 .. GzLen(sys.cur.len) - 1 : disk' = (disk \ {Compressed}) \cup {Gz(sys.cur.dump, len)}
        /\ sys' = [sys EXCEPT !.pc = "gzremove"]
        /\ UNCHANGED <<stuck, sysused>>
     \/ Broken /\ GiveUp(sys.cur) /\ UNCHANGED disk
  /\ UNCHANGED <<messages, others, torn, hasty>>

\* ... the source is removed, a failure is only logged ...
RemoveSource ==
  /\ sys.pc = "gzremove"
  /\ \/ disk' = disk \ {sys.cur} /\ UNCHANGED <<stuck, sysused>>
     \/ Broken /\ stuck' = stuck \cup {sys.cur.dump} /\ UNCHANGED disk
  /\ sys' = [sys EXCEPT !.pc = "gzclose"]
  /\ UNCHANGED <<messages, others, torn, hasty>>

\* ... and the rest is written; nobody looks at the result.
gzclose ==
  /\ sys.pc = "gzclose"
  /\ LET whole == Gz(sys.cur.dump, GzLen(sys.cur.len)) IN
     \/ /\ disk' = (disk \ {Compressed}) \cup {whole}
        /\ sys' = [sys EXCEPT !.pc = "wait", !.cur = whole, !.todo = @ \ {sys.cur}]
        /\ UNCHANGED <<sysused, torn>>
     \/ /\ Broken /\ torn' = torn \cup {sys.cur.dump} /\ UNCHANGED disk
        /\ sys' = [sys EXCEPT !.pc = "wait", !.cur = Compressed, !.todo = @ \ {sys.cur}]
  /\ UNCHANGED <<messages, others, hasty, stuck>>

\* DLT_LOG: a message is written, or stored in the startup buffer while the daemon does not take it;
\* a full buffer drops it.  The dumps in bad are those of a message that is wrong.
LogMessage(m, bad) ==
  IF buffer = "full" THEN lost' = lost \cup {m.serial.dump} /\ UNCHANGED <<transfers, sent, buffer>>
  ELSE /\ transfers' = Append(transfers, m)
       /\ sent' = IF buffer = "empty" THEN Len(transfers) + 1 ELSE sent
       /\ lost' = lost \cup bad
       /\ UNCHANGED buffer

\* The call for the file failed: it stays where it is, and the caller goes on.
SkipFile == Broken /\ stuck' = stuck \cup {sys.cur.dump} /\ sys' = Continue(sys.cur)

\* send_dumped_file: with a client, the header.  It may fail as a whole, or count no packages; the
\* caller may count none either, and then sends none ...
SendHeader ==
  /\ sys.pc = "wait" /\ connected
  /\ LET count == PackagesOf(sys.cur.len)
         header(c) == FLST(sys.cur, sys.cur.len, c)
     IN  \/ /\ LogMessage(header(count), {}) /\ sys' = [sys EXCEPT !.pc = "package"]
            /\ UNCHANGED <<stuck, sysused>>
         \/ SkipFile /\ UNCHANGED messages
         \/ /\ Broken /\ UNCHANGED stuck
            /\ \/ LogMessage(header(-1), {sys.cur.dump}) /\ sys' = [sys EXCEPT !.pc = "package"]
               \/ LogMessage(header(count), {sys.cur.dump}) /\ sys' = [sys EXCEPT !.pc = "package", !.n = count]
  /\ UNCHANGED <<disk, others, torn, hasty>>

\* dlt_user_log_file_data for one package: the numbers of its bytes.
Package(f, n) == [k \in 1 .. Least(PackageSize, f.len - (n - 1) * PackageSize) |-> (n - 1) * PackageSize + k]

\* dlt_user_check_buffer: at least half of the startup buffer is free.
HalfFree == buffer \in {"empty", "held"}

\* Mutant of SendPackage: a full buffer ends the transfer as if it had been sent.
SendPackageDropping ==
  /\ sys.pc = "package" /\ sys.n < PackagesOf(sys.cur.len)
  /\ IF HalfFree THEN LogMessage(FLDA(sys.cur, sys.n + 1, Package(sys.cur, sys.n + 1)), {}) ELSE UNCHANGED messages
  /\ sys' = [sys EXCEPT !.n = @ + 1]
  /\ UNCHANGED <<disk, others, torn, hasty, stuck, sysused>>

\* ... the packages, each when half of the startup buffer is free; one that fails ends the transfer ...
SendPackage ==
  /\ sys.pc = "package" /\ sys.n < PackagesOf(sys.cur.len) /\ HalfFree
  /\ \/ /\ LogMessage(FLDA(sys.cur, sys.n + 1, Package(sys.cur, sys.n + 1)), {})
        /\ sys' = [sys EXCEPT !.n = @ + 1]
        /\ UNCHANGED <<stuck, sysused>>
     \/ SkipFile /\ UNCHANGED messages
  /\ UNCHANGED <<disk, others, torn, hasty>>

\* ... and the end, with the removal.
SendEnd ==
  /\ sys.pc = "package" /\ sys.n = PackagesOf(sys.cur.len)
  /\ \/ /\ LogMessage(FLFI(sys.cur), {}) /\ disk' = disk \ {sys.cur} /\ sys' = Continue(sys.cur)
        /\ UNCHANGED <<stuck, sysused>>
     \/ SkipFile /\ (LogMessage(FLFI(sys.cur), {}) \/ UNCHANGED messages) /\ UNCHANGED disk
  /\ UNCHANGED <<others, torn, hasty>>

--------------------------------------------------------------------------------
(* Others *)

\* A program creates a file in the directory ...
DumpBegins(d) ==
  /\ d \notin dumped
  /\ disk' = disk \cup {Dump(d, "orig")} /\ dumped' = dumped \cup {d} /\ writing' = writing \cup {d}
  /\ UNCHANGED <<sys, messages, inotify, connected, syslimit, torn, hasty, stuck, sysused>>

\* ... and closes it; the watch does not see it any more if it was moved.
DumpWritten(d) ==
  /\ d \in writing /\ writing' = writing \ {d}
  /\ inotify' = IF sys.pc # "down" /\ Dump(d, "orig") \in disk THEN Append(inotify, d) ELSE inotify
  /\ UNCHANGED <<disk, sys, messages, connected, dumped, syslimit, torn, hasty, stuck, sysused>>

\* The process is killed, and the startup buffer with it, also the end of a dump that was removed.
SystemCrash ==
  /\ sys.pc # "down" /\ sysused.crashes < syslimit.crashes
  /\ sysused' = [sysused EXCEPT !.crashes = @ + 1]
  /\ sys' = Down /\ inotify' = <<>>
  /\ torn' = IF sys.pc = "gzclose" THEN torn \cup {sys.cur.dump} ELSE torn
  /\ LET ends == {i \in sent + 1 .. Len(transfers) : transfers[i].kind = "FLFI"}
     IN  lost' = lost \cup {transfers[i].serial.dump : i \in ends}
  /\ transfers' = SubSeq(transfers, 1, sent) /\ buffer' = "empty"
  /\ UNCHANGED <<disk, sent, connected, writing, dumped, syslimit, hasty, stuck>>

ClientComes ==
  /\ ~connected /\ connected' = TRUE
  /\ UNCHANGED <<disk, sys, messages, inotify, writing, dumped, syslimit, torn, hasty, stuck, sysused>>

ClientLeaves ==
  /\ connected /\ sysused.leaves < syslimit.leaves
  /\ connected' = FALSE /\ sysused' = [sysused EXCEPT !.leaves = @ + 1]
  /\ UNCHANGED <<disk, sys, messages, inotify, writing, dumped, syslimit, torn, hasty, stuck>>

\* The daemon does not take the messages of the process, of which there are others, too.
BufferFills ==
  /\ buffer = "empty" /\ sysused.fulls < syslimit.fulls
  /\ buffer' \in {"held", "half", "full"} /\ sysused' = [sysused EXCEPT !.fulls = @ + 1]
  /\ UNCHANGED <<disk, sys, transfers, sent, lost, others, torn, hasty, stuck>>

\* dlt_user_log_resend_buffer, called while send_dumped_file waits, and by the housekeeper.
BufferEmpties ==
  /\ buffer # "empty" /\ buffer' = "empty" /\ sent' = Len(transfers)
  /\ UNCHANGED <<disk, sys, transfers, lost, others, torn, hasty, stuck, sysused>>

SysInit ==
  /\ syslimit \in SystemLimits
  /\ disk = {} /\ sys = Down /\ inotify = <<>> /\ transfers = <<>> /\ sent = 0
  /\ buffer = "empty" /\ connected = FALSE /\ writing = {}
  /\ dumped = {} /\ torn = {} /\ hasty = {} /\ lost = {} /\ stuck = {}
  /\ sysused = [crashes |-> 0, fails |-> 0, leaves |-> 0, fulls |-> 0]

SysStep ==
  \/ init_filetransfer_dirs \/ flush_dir_send \/ flush_dir_compress \/ flush_dir_original \/ flush_dir \/ process_files
  \/ send_one \/ gzopen \/ gzwrite \/ RemoveSource \/ gzclose \/ SendHeader \/ SendPackage \/ SendEnd

SysNext ==
  \/ SysStep \/ ClientComes \/ ClientLeaves \/ BufferFills \/ BufferEmpties \/ SystemCrash
  \/ \E d \in syslimit.dumps : DumpBegins(d) \/ DumpWritten(d)

SysSpec == SysInit /\ [][SysNext]_sysvars

\* The process is started again and goes on, clients come back, and the housekeeper of the library
\* sends what is buffered.
SysFairness ==
  LET Runs == syslimit.dumps # {}
  IN  WF_sysvars(Runs /\ SysStep) /\ WF_sysvars(Runs /\ ClientComes) /\ WF_sysvars(Runs /\ BufferEmpties)

--------------------------------------------------------------------------------
(* Properties *)

\* m is package k of the count packages of f: all but the last one are full.
IsPackage(m, f, k, count) ==
  /\ m.kind = "FLDA" /\ m.serial = f /\ m.n = k
  /\ Len(m.data) = IF k < count THEN PackageSize ELSE f.len - (k - 1) * PackageSize
  /\ \A b \in 1 .. Len(m.data) : m.data[b] = (k - 1) * PackageSize + b

\* The file that ends at message j of the transfers was received: between its header and its end are
\* all its packages, in order, and nothing else; put together they are its bytes.
Received(j) ==
  LET f == transfers[j].serial IN
  \E i \in 1 .. j - 1 :
    /\ transfers[i].kind = "FLST" /\ transfers[i].serial = f /\ transfers[i].count = j - i - 1
    /\ \A k \in 1 .. j - i - 1 : IsPackage(transfers[i + k], f, k, j - i - 1)

Whole(f) == f.len = IF f.gz THEN GzLen(DumpSize[f.dump]) ELSE DumpSize[f.dump]

\* Wherever the process ends and whichever call fails in the moves, compressions and restarts
\* (send_one, flush_dir), a dump is on the disk as a whole or its messages were received as a whole or
\* are about to be; a file that is sent is whole.  Excepted is a dump
\*  - whose compressed file was not finished when the source had been removed (compress_file_to),
\*  - that was flushed while it was still being written (flush_dir_original),
\*  - whose end was still in the startup buffer when the process was killed, of which a message found
\*    the buffer full, or whose packages could not be counted (send_dumped_file).
DumpsKept ==
  /\ \A d \in dumped \ (torn \cup hasty \cup lost) :
       \/ \E f \in disk : f.dump = d /\ (Whole(f) \/ (sys.pc = "gzclose" /\ sys.cur.dump = d))
       \/ \E j \in DOMAIN transfers :
            transfers[j].kind = "FLFI" /\ transfers[j].serial.dump = d /\ Whole(transfers[j].serial)
  /\ \A j \in DOMAIN transfers :
       transfers[j].kind = "FLFI" =>
         /\ Received(j) \/ transfers[j].serial.dump \in lost
         /\ Whole(transfers[j].serial) \/ transfers[j].serial.dump \in torn \cup hasty

\* Every dump is sent and leaves the disk, also when it was dumped while the process was down,
\* starting or busy; only a call that fails leaves it behind until the next start.  A dump that its
\* program never closes may stay.
DumpsSent == <>[](\A f \in disk : f.dump \in stuck \cup writing)
================================================================================
