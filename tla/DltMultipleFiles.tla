---------------------------- MODULE DltMultipleFiles ---------------------------
(* Files of bounded size in a directory of bounded size                        *)
(* (dlt_multiple_files.c), as the offline trace (dlt_offline_trace.c) and the  *)
(* internal log (dlt_log.c) use them.                                          *)
(*                                                                             *)
(* A record is a number and the sizes of its parts; a file is the sequence of  *)
(* its bytes, each byte the number of its record.  A file is named by its      *)
(* index or, where names hold the time, by the second it was created in.  The  *)
(* process stops and starts again, the clock moves and the directory becomes   *)
(* unusable between any two calls of the system, and a call of write() may     *)
(* fail or write less than it is given.                                        *)
EXTENDS Integers, Sequences, SequencesExt, FiniteSets, FiniteSetsExt

CONSTANTS FilesLimits              \* shapes of the histories, see Limit

\* use: "trace" or "log"; timestamp: names hold the time; dotted: there is a '.' within the path of the
\* directory; fileSize, maxSize: the limits; parts: the sizes of the parts of records; found: files
\* that lie in the directory at the start; how many records are written, how often the process
\* restarts, the clock moves, the directory fails, a write fails; log levels.
Limit == [use : {"trace", "log"}, timestamp : BOOLEAN, dotted : BOOLEAN, fileSize : Nat, maxSize : Nat,
          parts : SUBSET Seq(Nat), found : [SUBSET Nat -> Nat], records : Nat, restarts : Nat, ticks : Nat,
          fails : Nat, shorts : Nat, prios : SUBSET Nat]

NoFile == -1

VARIABLES dir,                \* the directory: name -> [data, mtime]
          usable,             \* the directory exists and may be written
          handle,             \* ohandle: the name of the open file, or Closed
          pos,                \* the offset of the open file
          append,             \* it is opened with O_APPEND
          single,             \* logging_handle: the log without limits, whether it is open and its bytes
          level,              \* logging_level
          clock,              \* the clock, in seconds
          up,                 \* the process runs
          chunks,             \* the parts of the record that are still to be written
          records,            \* history: the bytes of all records, as they were written
          cut,               \* history: the records of which a part was not written
          fileslimit, filesused

filesvars == <<dir, usable, handle, pos, append, single, level, clock, up, chunks, records, cut,
               fileslimit, filesused>>

LOG_DEBUG == 7
LOG_WARNING == 4

--------------------------------------------------------------------------------
(* The functions of dlt_multiple_files.c on a state f of the buffer: its       *)
(* directory, the open file and its offset.                                    *)

F == [dir |-> dir, handle |-> handle, pos |-> pos, append |-> append]

multiple_files_buffer_get_total_size(d) == FoldSet(LAMBDA n, sum : sum + Len(d[n].data), 0, DOMAIN d)

\* The newest file by its name, 0 if there is none: a name is compared by its length and then
\* by its characters, and an index has ten digits.
multiple_files_buffer_storage_dir_info(d) == IF DOMAIN d = {} THEN 0 ELSE Max(DOMAIN d)

\* Mutant of multiple_files_buffer_create_new_file: the index is counted up twice.
CreateSkipping(f) ==
  LET n == IF fileslimit.timestamp THEN clock ELSE multiple_files_buffer_storage_dir_info(f.dir) + 2
  IN  [dir |-> [x \in DOMAIN f.dir \cup {n} |->
                  IF x \in DOMAIN f.dir THEN f.dir[x] ELSE [data |-> <<>>, mtime |-> clock]],
       handle |-> n, pos |-> 0, append |-> FALSE]

\* The file is created, or opened as it is: with names that hold the time it may exist.
multiple_files_buffer_create_new_file(f) ==
  LET n == IF fileslimit.timestamp THEN clock ELSE multiple_files_buffer_storage_dir_info(f.dir) + 1
  IN  IF ~usable THEN [f EXCEPT !.handle = NoFile]
      ELSE [dir |-> [x \in DOMAIN f.dir \cup {n} |->
                       IF x \in DOMAIN f.dir THEN f.dir[x] ELSE [data |-> <<>>, mtime |-> clock]],
            handle |-> n, pos |-> 0, append |-> FALSE]

\* The index that multiple_files_buffer_get_idx_of_log_file finds in the path of a file: what follows
\* the first '.', which is not the index when there is one within the path of the directory.
IndexInPath(n) == IF fileslimit.dotted THEN 0 ELSE n

\* The files that multiple_files_buffer_delete_oldest_file may remove: of several with the
\* oldest time of modification or the smallest index the first that readdir() returns.
Oldest(d) ==
  LET age(n) == IF fileslimit.timestamp THEN d[n].mtime ELSE IndexInPath(n)
  IN  {n \in DOMAIN d : \A m \in DOMAIN d : age(n) <= age(m)}

\* Mutant of multiple_files_buffer_delete_oldest_file: by the time of modification only.
DeleteOldestByTime(d) ==
  {[n \in DOMAIN d \ {o} |-> d[n]] : o \in {n \in DOMAIN d : \A m \in DOMAIN d : d[n].mtime <= d[m].mtime}}

multiple_files_buffer_delete_oldest_file(d) == {[n \in DOMAIN d \ {o} |-> d[n]] : o \in Oldest(d)}

\* Mutant of TooLarge: the new file is not counted.
TooLargeNow(d) == multiple_files_buffer_get_total_size(d) > fileslimit.maxSize

TooLarge(d) == multiple_files_buffer_get_total_size(d) > fileslimit.maxSize - fileslimit.fileSize

\* multiple_files_buffer_check_size: what may be left of the directory.  No file is left to
\* remove when even an empty directory is too large: that is an error, as is one that is unusable.
RECURSIVE multiple_files_buffer_check_size(_)
multiple_files_buffer_check_size(d) ==
  IF ~TooLarge(d) THEN {[ok |-> TRUE, dir |-> d]}
  ELSE IF DOMAIN d = {} THEN {[ok |-> FALSE, dir |-> d]}
  ELSE UNION {multiple_files_buffer_check_size(x) : x \in multiple_files_buffer_delete_oldest_file(d)}

CheckedSize(f) == IF usable THEN multiple_files_buffer_check_size(f.dir) ELSE {[ok |-> FALSE, dir |-> f.dir]}

\* The newest file is opened at its end; its offset is 0 until something is written.
multiple_files_buffer_open_file_for_append(f) ==
  IF DOMAIN f.dir = {} THEN multiple_files_buffer_create_new_file(f)
  ELSE [f EXCEPT !.handle = multiple_files_buffer_storage_dir_info(f.dir), !.pos = 0, !.append = TRUE]

multiple_files_buffer_init(f, appending) ==
  {IF ~c.ok THEN [f EXCEPT !.dir = c.dir]
   ELSE IF ~fileslimit.timestamp /\ appending
        THEN multiple_files_buffer_open_file_for_append([f EXCEPT !.dir = c.dir])
        ELSE multiple_files_buffer_create_new_file([f EXCEPT !.dir = c.dir]) : c \in CheckedSize(f)}

multiple_files_buffer_rotate_file(f, size) ==
  IF f.pos + size < fileslimit.fileSize THEN {f}
  ELSE {IF c.ok THEN multiple_files_buffer_create_new_file([f EXCEPT !.dir = c.dir])
        ELSE [f EXCEPT !.dir = c.dir, !.handle = NoFile] : c \in CheckedSize(f)}

\* Bytes over what lies at offset p.
Overwrite(data, p, bytes) ==
  [i \in 1 .. Max({Len(data), p + Len(bytes)}) |->
     IF p < i /\ i <= p + Len(bytes) THEN bytes[i - p] ELSE data[i]]

\* At the offset, or at the end.
WriteAt(f, bytes) ==
  LET p == IF f.append THEN Len(f.dir[f.handle].data) ELSE f.pos
  IN  [f EXCEPT !.dir[f.handle] = [data |-> Overwrite(@.data, p, bytes), mtime |-> clock],
                !.pos = p + Len(bytes)]

--------------------------------------------------------------------------------
(* The offline trace and the internal log.                                     *)

Set(f) == dir' = f.dir /\ handle' = f.handle /\ pos' = f.pos /\ append' = f.append

RecordBytes(size) == [i \in 1 .. size |-> filesused.records]
Length(parts) == FoldSeq(+, 0, parts)

\* multiple_files_buffer_write_chunk: n bytes of the next part reach the file, and if these are not all the
\* rest of the record is left out.
multiple_files_buffer_write_chunk ==
  /\ up /\ chunks # <<>>
  /\ \E n \in 0 .. Head(chunks) :
       /\ Set(WriteAt(F, RecordBytes(n)))
       /\ records' = records \o RecordBytes(n)
       /\ \/ /\ n = Head(chunks)
             /\ chunks' = Tail(chunks)
             /\ UNCHANGED <<cut, filesused>>
          \/ /\ n < Head(chunks) /\ filesused.shorts < fileslimit.shorts
             /\ filesused' = [filesused EXCEPT !.shorts = @ + 1]
             /\ chunks' = <<>> /\ cut' = cut \cup {filesused.records}
  /\ UNCHANGED <<usable, single, level, clock, up, fileslimit>>

\* dlt_offline_trace_write and multiple_files_buffer_write: the parts of a record go to one file.  Without
\* an open file nothing is written, and that is no error.
Store(parts) ==
  /\ handle # NoFile
  /\ \E f \in multiple_files_buffer_rotate_file(F, Length(parts)) :
       /\ Set(f)
       /\ chunks' = IF f.handle = NoFile THEN <<>> ELSE parts

Call(use) ==
  /\ up /\ fileslimit.use = use /\ chunks = <<>> /\ filesused.records < fileslimit.records
  /\ filesused' = [filesused EXCEPT !.records = @ + 1]

dlt_offline_trace_write(parts) ==
  /\ Call("trace")
  /\ \/ Store(parts)
     \/ handle = NoFile /\ UNCHANGED <<dir, handle, pos, append, chunks>>
  /\ UNCHANGED <<usable, single, level, clock, up, records, cut, fileslimit>>

dlt_is_log_in_multiple_files_active == handle # NoFile

\* A message of the process about itself.
dlt_log(prio, parts) ==
  /\ Call("log")
  /\ \/ /\ level < prio
        /\ UNCHANGED <<dir, handle, pos, append, single, chunks>>
     \/ /\ level >= prio /\ dlt_is_log_in_multiple_files_active
        /\ Store(parts) /\ UNCHANGED single
     \/ /\ level >= prio /\ ~dlt_is_log_in_multiple_files_active
        /\ single' = IF single.open THEN [single EXCEPT !.bytes = @ \o RecordBytes(Length(parts))] ELSE single
        /\ UNCHANGED <<dir, handle, pos, append, chunks>>
  /\ UNCHANGED <<usable, level, clock, up, records, cut, fileslimit>>

dlt_log_set_level(new) ==
  /\ up /\ fileslimit.use = "log" /\ chunks = <<>> /\ new \in fileslimit.prios \cup {LOG_DEBUG + 1}
  /\ level' = IF new > LOG_DEBUG THEN Max({level, LOG_WARNING}) ELSE new
  /\ level' # level
  /\ UNCHANGED <<dir, usable, handle, pos, append, single, clock, up, chunks, records, cut, fileslimit, filesused>>

\* The process starts.  The internal log falls back to a file without limits.
Start ==
  /\ ~up /\ up' = TRUE
  /\ \E f \in multiple_files_buffer_init(F, fileslimit.use = "log") :
       /\ Set(f)
       /\ single' = IF fileslimit.use = "log" /\ f.handle = NoFile /\ usable THEN [single EXCEPT !.open = TRUE] ELSE single
  /\ UNCHANGED <<usable, level, clock, chunks, records, cut, fileslimit, filesused>>

\* It ends: multiple_files_buffer_free, dlt_log_free.  A crash closes the files too, also within a record.
Stop ==
  /\ up /\ up' = FALSE /\ filesused.restarts < fileslimit.restarts
  /\ filesused' = [filesused EXCEPT !.restarts = @ + 1]
  /\ handle' = NoFile /\ pos' = 0 /\ append' = FALSE /\ single' = [single EXCEPT !.open = FALSE]
  /\ chunks' = <<>> /\ cut' = IF chunks = <<>> THEN cut ELSE cut \cup {filesused.records}
  /\ UNCHANGED <<dir, usable, level, clock, records, fileslimit>>

Tick ==
  /\ filesused.ticks < fileslimit.ticks /\ filesused' = [filesused EXCEPT !.ticks = @ + 1]
  /\ clock' = clock + 1
  /\ UNCHANGED <<dir, usable, handle, pos, append, single, level, up, chunks, records, cut, fileslimit>>

\* The directory becomes unusable, and usable again.
Fail ==
  /\ filesused.fails < fileslimit.fails /\ filesused' = [filesused EXCEPT !.fails = @ + 1]
  /\ usable' = ~usable
  /\ UNCHANGED <<dir, handle, pos, append, single, level, clock, up, chunks, records, cut, fileslimit>>

\* Files that lie there hold bytes of no record.
FilesInit ==
  /\ fileslimit \in FilesLimits
  /\ dir = [n \in DOMAIN fileslimit.found |-> [data |-> [i \in 1 .. fileslimit.found[n] |-> 0], mtime |-> n]]
  /\ usable = TRUE /\ handle = NoFile /\ pos = 0 /\ append = FALSE /\ single = [open |-> FALSE, bytes |-> <<>>]
  /\ level = LOG_WARNING + 2 /\ clock = 10 /\ up = FALSE
  /\ chunks = <<>> /\ records = <<>> /\ cut = {}
  /\ filesused = [records |-> 0, restarts |-> 0, ticks |-> 0, fails |-> 0, shorts |-> 0]

FilesNext ==
  \/ Start \/ Stop \/ Tick \/ Fail
  \/ \E parts \in fileslimit.parts : dlt_offline_trace_write(parts)
  \/ \E parts \in fileslimit.parts, prio \in fileslimit.prios : dlt_log(prio, parts)
  \/ multiple_files_buffer_write_chunk
  \/ \E new \in fileslimit.prios \cup {LOG_DEBUG + 1} : dlt_log_set_level(new)

FilesSpec == FilesInit /\ [][FilesNext]_filesvars

--------------------------------------------------------------------------------
(* Properties.                                                                 *)

\* Records are smaller than files, and files than the directory.
Sensible == fileslimit.fileSize <= fileslimit.maxSize /\ \A p \in fileslimit.parts : Length(p) < fileslimit.fileSize

(* Once the process has started, all files together never exceed the limit of  *)
(* the directory, although the newest one grows, a file is opened again after  *)
(* a restart with the offset 0 and larger files of an earlier configuration    *)
(* lie there (multiple_files_buffer_check_size).                               *)
TotalBounded ==
  (Sensible /\ up /\ handle # NoFile) => multiple_files_buffer_get_total_size(dir) <= fileslimit.maxSize

\* The bytes in the files, from the oldest to the newest.
OnDisk == FlattenSeq([k \in 1 .. Cardinality(DOMAIN dir) |-> dir[SetToSortSeq(DOMAIN dir, <)[k]].data])

\* Of the records the newest are in the files, each with all that was written of it, in their order.
NewestFirst ==
  LET own == SelectSeq(OnDisk, LAMBDA b : b # 0)
  IN  /\ IsSuffix(own, records)
      /\ (own # <<>> /\ Len(own) < Len(records)) => records[Len(records) - Len(own)] # own[1]

(* With indexed names the files hold exactly the newest records, in the order  *)
(* they were written, whatever was deleted, after failing writes and after     *)
(* crashes within a record; what is deleted is older than everything that is   *)
(* kept, unless there is a '.' within the path of the directory                *)
(* (multiple_files_buffer_delete_oldest_file,                                  *)
(* multiple_files_buffer_storage_dir_info).                                    *)
NewestKept == ~fileslimit.timestamp /\ ~fileslimit.dotted => NewestFirst

(* A record that is not whole is one whose write failed, or that a crash or    *)
(* the present moment finds half written, and is in one file all the same      *)
(* (dlt_offline_trace_write).                                                  *)
RecordsWhole ==
  ~fileslimit.timestamp =>
    \A n \in DOMAIN dir : \A b \in Range(dir[n].data) \ {0} :
      LET bytes == SelectSeq(dir[n].data, LAMBDA x : x = b)
      IN  /\ bytes = SelectSeq(records, LAMBDA x : x = b)
          /\ \/ b \in cut
             \/ b = filesused.records /\ chunks # <<>>
             \/ \E p \in fileslimit.parts : Len(bytes) = Length(p)

(* The indices of the files follow on each other, also over restarts: a gap    *)
(* would be a file that was deleted out of order.                              *)
Successive ==
  ~fileslimit.timestamp /\ ~fileslimit.dotted => \A n \in DOMAIN dir : n = Max(DOMAIN dir) \/ n + 1 \in DOMAIN dir

(* Files are rotated within their limit and by age, none is skipped, and       *)
(* records are not cut by a rotation (multiple_files_buffer_check_size,        *)
(* multiple_files_buffer_create_new_file).                                     *)
RotationSound == TotalBounded /\ NewestKept /\ RecordsWhole /\ Successive
================================================================================
