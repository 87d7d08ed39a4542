--------------------------- MODULE DltLogstorageFile ---------------------------
(* The files and the cache of one filter of the offline logstorage             *)
(* (dlt_offline_logstorage_behavior.c).  A state "s" holds the file system and *)
(* the filter that is worked on: s.disk gives the inode of each file name,     *)
(* s.inodes the contents of each inode, s.f is the filter, s.ret the result    *)
(* of the last call and s.trail the file systems a power failure inside the    *)
(* running handler may leave behind.                                           *)
(*                                                                             *)
(* A byte is a pair <<message, position>>; the first DLT_ID_SIZE bytes of a    *)
(* message are the pattern the cache is searched for.  A file name is its base *)
(* name, its index and its time stamp.  "u" is the user configuration, "w"     *)
(* the environment: the device is gone, no file can be opened there, a lower   *)
(* descriptor is free when a file is opened, and what a descriptor that was    *)
(* closed stands for.                                                          *)
EXTENDS Integers, FiniteSets, Sequences, SequencesExt

CONSTANT DLT_ID_SIZE          \* length of the pattern that starts a message

ASSUME IdSizeAssumption == DLT_ID_SIZE \in Nat \ {0}

None == [name |-> "none", idx |-> 0, stamp |-> 0]
ZeroByte == <<0, 0>>

\* What config->fd stands for: the file that is open, descriptor 0 (never set), or a
\* number that is not that file's any more.
FdLog == "log"
FdZero == "zero"
FdStale == "stale"

\* A user configuration that was never copied into the handle: no delimiter, no counter.
ZeroUser == [set |-> FALSE, timestamp |-> FALSE, maxcounter |-> 0, optional |-> FALSE]

--------------------------------------------------------------------------------
(* The directory.                                                              *)

Cached(c) == c.sync # {} /\ "on_msg" \notin c.sync

\* A single file whose name may leave out the index: its index is taken as 1.
NoIndex(c, u) == c.num_files = 1 /\ u.optional

\* The name of a file that is created now.
dlt_logstorage_log_file_name(s, u, idx) ==
  [name |-> s.c.file, idx |-> CASE ~u.set -> 0 [] u.set /\ NoIndex(s.c, u) -> 1 [] OTHER -> idx,
   stamp |-> IF u.timestamp THEN Len(s.inodes) + 1 ELSE 0]

Older(a, b) == a.idx < b.idx \/ (a.idx = b.idx /\ a.stamp < b.stamp)

dlt_logstorage_sort_file_name(files) == SortSeq(files, Older)

\* Mutant of dlt_logstorage_rearrange_file_name: the list stays as it was sorted.
KeepSorted(list) == list

\* After a wrap around the list starts behind the first gap.
dlt_logstorage_rearrange_file_name(list) ==
  LET gaps == {p \in 1 .. Len(list) - 1 : list[p + 1].idx - list[p].idx # 1}
  IN  IF list[1].idx # 1 \/ gaps = {} THEN list
      ELSE LET p == CHOOSE q \in gaps : \A r \in gaps : q <= r
           IN  SubSeq(list, p + 1, Len(list)) \o SubSeq(list, 1, p)

\* config->records after a scan of the directory, oldest first.
Arranged(list, u) ==
  IF Len(list) > 1 /\ list[Len(list)].idx = u.maxcounter
  THEN dlt_logstorage_rearrange_file_name(list) ELSE list

dlt_logstorage_storage_dir_info(s, u) ==
  LET names == IF u.set THEN {id \in DOMAIN s.disk : id.name = s.c.file /\ id.idx # 0} ELSE {}
  IN  Arranged(dlt_logstorage_sort_file_name(SetToSeq(names)), u)

SizeOf(s, id) == Len(s.inodes[s.disk[id]])

--------------------------------------------------------------------------------
(* Opening.                                                                    *)

Trail(s) == [s EXCEPT !.trail = Append(@, [disk |-> s.disk, inodes |-> s.inodes])]

Unlink(s, id) ==
  IF id \in DOMAIN s.disk
  THEN Trail([s EXCEPT !.disk = [x \in DOMAIN s.disk \ {id} |-> s.disk[x]]]) ELSE s

\* fopen(..., "w+") of a name that does not exist, or exists and is emptied.
Create(s, id) ==
  IF id \in DOMAIN s.disk THEN Trail([s EXCEPT !.inodes[s.disk[id]] = <<>>])
  ELSE Trail([s EXCEPT !.inodes = Append(@, <<>>),
                       !.disk = [x \in DOMAIN s.disk \union {id} |->
                                   IF x = id THEN Len(s.inodes) + 1 ELSE s.disk[x]]])

dlt_logstorage_close_file(s) == [s EXCEPT !.f.log = 0, !.f.ferror = FALSE]

\* fopen fails: the filter has no file.
NotOpened(s) == [s EXCEPT !.f.log = 0, !.f.working = None, !.ret = -1]

\* fopen(..., "a"), with the descriptor of the file.
Opened(s, id) == [s EXCEPT !.f.log = s.disk[id], !.f.fd = FdLog, !.ret = 0]
dlt_logstorage_open_log_output_file(s, w, id) ==
  IF w.nofile THEN NotOpened(s) ELSE Opened(IF id \in DOMAIN s.disk THEN s ELSE Create(s, id), id)

\* Mutant of RotateTo: the file is opened again whatever its name is, nothing is deleted.
RotateWithoutDelete(s, u, w, list, id, wrap, ret) ==
  LET t == Create(s, id)
  IN  [t EXCEPT !.f.log = t.disk[id], !.f.working = id, !.f.wrap_id = wrap, !.ret = ret]

\* The descriptor of a new file is not stored: it is right only when the file got the number
\* of the one just closed.
Rotated(s, w, id, wrap, ret) ==
  IF w.nofile THEN [NotOpened(s) EXCEPT !.f.wrap_id = wrap]
  ELSE LET t == Create(s, id)
       IN  [t EXCEPT !.f.log = t.disk[id], !.f.working = id, !.f.wrap_id = wrap, !.ret = ret,
                     !.f.fd = IF @ = FdLog /\ w.lower THEN FdStale ELSE @]

\* The newest file is full: a file with the next index replaces the oldest, also when it cannot
\* be opened.  Without an index nothing is deleted but a file of the same name.
RotateTo(s, u, w, list, id, wrap, ret) ==
  LET exists == wrap # 0 /\ id \in DOMAIN s.disk
      count == Len(list) + (IF exists THEN 0 ELSE 1)
      keep(t) == IF count > s.c.num_files /\ ~NoIndex(s.c, u) THEN Unlink(t, Head(list)) ELSE t
  IN  keep(Rotated(IF exists THEN Unlink(s, id) ELSE s, w, id, wrap, ret))

\* Mutant of dlt_logstorage_open_log_file: a file that is exactly full is used again.
OpenFullFile(s, u, w, msg_size, is_sync) ==
  LET list == dlt_logstorage_storage_dir_info(s, u)
      working == IF s.f.wrap_id = 0 \/ s.f.working = None THEN Last(list) ELSE s.f.working
  IN  IF w.gone THEN [s EXCEPT !.ret = -1]
      ELSE IF list = <<>> THEN
        LET id == dlt_logstorage_log_file_name(s, u, 1)
        IN  dlt_logstorage_open_log_output_file([s EXCEPT !.f.working = id], w, id)
      ELSE [dlt_logstorage_open_log_output_file([s EXCEPT !.f.working = working], w, working)
              EXCEPT !.f.offset = SizeOf(s, working)]

\* The file that was written last, if the message (or some of what is synced) fits, or the next.
\* The result is that of stat() for the file that was written last.
OpenWorking(s, u, w, msg_size, is_sync, list, working) ==
  LET there == working \in DOMAIN s.disk
      size == IF there THEN SizeOf(s, working) ELSE s.c.file_size
      fits == IF is_sync THEN size < s.c.file_size ELSE size + msg_size <= s.c.file_size
      wraps == working.idx + 1 > u.maxcounter
      next == dlt_logstorage_log_file_name(s, u, IF wraps THEN 1 ELSE working.idx + 1)
  IN  IF there /\ fits
      THEN [dlt_logstorage_open_log_output_file(s, w, working) EXCEPT !.f.offset = size]
      ELSE IF s.c.overwrite = "discard_new" /\ s.c.num_files = working.idx
           THEN [s EXCEPT !.f.skip = TRUE, !.ret = 0]
      ELSE RotateTo(s, u, w, list, next, s.f.wrap_id + (IF wraps THEN 1 ELSE 0), IF there THEN 0 ELSE -1)

OpenFirst(s, w, id) == dlt_logstorage_open_log_output_file([s EXCEPT !.f.working = id], w, id)

OpenListed(s, u, w, msg_size, is_sync, list) ==
  LET working == IF s.f.wrap_id = 0 \/ s.f.working = None THEN Last(list) ELSE s.f.working
  IN  IF list = <<>> THEN OpenFirst(s, w, dlt_logstorage_log_file_name(s, u, 1))
      ELSE OpenWorking([s EXCEPT !.f.working = working], u, w, msg_size, is_sync, list, working)

dlt_logstorage_open_log_file(s, u, w, msg_size, is_sync) ==
  IF w.gone THEN [s EXCEPT !.ret = -1]
  ELSE OpenListed(s, u, w, msg_size, is_sync, dlt_logstorage_storage_dir_info(s, u))

\* fwrite and fflush to the open file.
dlt_logstorage_write_to_log(s, data) == Trail([s EXCEPT !.inodes[s.f.log] = @ \o data])

--------------------------------------------------------------------------------
(* Sync on every message.                                                      *)

\* "n" is the record of the newest file that all filters with this base name share.
TakeNewest(s, n) == [s EXCEPT !.f.wrap_id = n.wrap_id, !.f.working = n.file]

dlt_logstorage_prepare_on_msg(s, u, w, size, n) ==
  LET stat == IF s.f.fd = FdLog THEN Len(s.inodes[s.f.log]) ELSE 0
      isNewest == IF s.f.log = 0 THEN s.f.wrap_id >= n.wrap_id ELSE s.f.wrap_id > n.wrap_id
      reopen == stat + size > s.c.file_size \/ s.f.working # n.file \/ s.f.wrap_id < n.wrap_id
      close == IF s.f.log = 0 THEN s ELSE dlt_logstorage_close_file(s)
  IN  CASE s.f.log # 0 /\ s.f.fd = FdStale /\ w.bad -> [s EXCEPT !.ret = -1]
        [] s.f.log # 0 /\ ~(s.f.fd = FdStale /\ w.bad) /\ ~reopen -> [s EXCEPT !.ret = 0]
        [] OTHER -> dlt_logstorage_open_log_file(IF isNewest THEN close ELSE TakeNewest(close, n),
                                                 u, w, size, FALSE)

\* A device that is gone takes the data at the flush; ferror tells of it one message later.
dlt_logstorage_write_on_msg(s, u, w, data) ==
  IF w.gone THEN [s EXCEPT !.ret = IF s.f.ferror THEN -1 ELSE 0, !.f.ferror = TRUE]
  ELSE [dlt_logstorage_write_to_log(s, data) EXCEPT !.ret = IF s.f.ferror THEN -1 ELSE 0]

--------------------------------------------------------------------------------
(* The cache.                                                                  *)

CacheSize(c) == IF "specific_size" \in c.sync THEN c.specific_size ELSE c.file_size

EmptyCache(c) == [i \in 1 .. CacheSize(c) |-> ZeroByte]
ZeroFooter == [offset |-> 0, wrap_around_cnt |-> 0, last_sync_offset |-> 0, end_sync_offset |-> 0]

\* The pattern at offset p of the cache.
HeaderAt(cache, p) ==
  /\ p >= 0 /\ p + DLT_ID_SIZE <= Len(cache)
  /\ \A k \in 1 .. DLT_ID_SIZE : cache[p + k] # ZeroByte /\ cache[p + k][2] = k

dlt_logstorage_find_dlt_header(cache, offset, cnt) ==
  LET found == {i \in 0 .. Len(cache) : (cnt < 0 \/ i < cnt) /\ HeaderAt(cache, offset + i)}
  IN  IF found = {} THEN -1 ELSE CHOOSE i \in found : \A j \in found : i <= j

dlt_logstorage_find_last_dlt_header(cache, offset, cnt) ==
  LET found == {i \in 1 .. cnt - (DLT_ID_SIZE - 1) : HeaderAt(cache, offset + i)}
  IN  IF found = {} THEN -1 ELSE CHOOSE i \in found : \A j \in found : j <= i

Piece(s, from, count) == SubSeq(s.f.cache, from + 1, from + count)

Closed(s) == [dlt_logstorage_close_file(s) EXCEPT !.f.offset = 0]

\* Mutant of SyncPart: the file is filled up.
SyncPartAtRemain(s, start, remain) ==
  [state |-> Closed([dlt_logstorage_write_to_log(s, Piece(s, start, remain))
                       EXCEPT !.f.footer.last_sync_offset = start + remain]),
   start |-> start + remain, count |-> remain]

\* The part of a piece that still fits into the newest file, up to a message's start.
PartTo(s, start, remain, first, last) ==
  LET count == last - first
  IN  IF first >= 0 /\ last > first /\ count <= remain
      THEN [state |-> Closed([dlt_logstorage_write_to_log(s, Piece(s, start + first, count))
                                EXCEPT !.f.footer.last_sync_offset = start + count]),
            start |-> start + count, count |-> count]
      ELSE [state |-> Closed(s), start |-> start, count |-> count]

PartFrom(s, start, remain, first) ==
  PartTo(s, start, remain, first,
         dlt_logstorage_find_last_dlt_header(s.f.cache, start + first, remain - first))

SyncPart(s, start, remain) ==
  PartFrom(s, start, remain, dlt_logstorage_find_dlt_header(s.f.cache, start, remain))

\* Mutant of SyncRest: the search starts behind the first message.
SyncRestSkipping(s, u, w, start, end, cnt) ==
  LET first == dlt_logstorage_find_last_dlt_header(s.f.cache, start, end - start)
      count == end - start - first
      t == IF s.f.log = 0 THEN dlt_logstorage_open_log_file(s, u, w, count, FALSE) ELSE s
      done == [dlt_logstorage_write_to_log(t, Piece(t, start + first, count))
                 EXCEPT !.f.footer.last_sync_offset = end, !.f.footer.wrap_around_cnt = 0]
  IN  IF first >= 0 /\ count > 0 /\ t.ret = 0 /\ ~t.f.skip THEN dlt_logstorage_close_file(done)
      ELSE dlt_logstorage_close_file([s EXCEPT !.f.footer.wrap_around_cnt = 0])

\* The rest of the piece, into the file that is open or into one that takes all of it.
RestInto(s, from, end) ==
  dlt_logstorage_close_file(
    IF s.ret # 0 \/ s.f.skip THEN s
    ELSE [dlt_logstorage_write_to_log(s, Piece(s, from, end - from))
            EXCEPT !.f.footer.last_sync_offset = end, !.f.footer.wrap_around_cnt = 0])

RestFrom(s, u, w, start, end, first) ==
  IF first < 0 \/ start + first >= end
  THEN dlt_logstorage_close_file([s EXCEPT !.f.footer.wrap_around_cnt = 0])
  ELSE RestInto(IF s.f.log # 0 THEN s
                ELSE dlt_logstorage_open_log_file(s, u, w, end - start - first, FALSE),
                start + first, end)

SyncRest(s, u, w, start, end, cnt) ==
  RestFrom(s, u, w, start, end, dlt_logstorage_find_dlt_header(s.f.cache, start, cnt))

\* Into the file that was opened for it: what fits there, and the rest into the next.
RestOf(part, u, w, end) == SyncRest(part.state, u, w, part.start, end, part.count)

SyncInto(s, u, w, start, end) ==
  LET remain == s.c.file_size - s.f.offset
  IN  CASE s.ret # 0 -> s
        [] s.ret = 0 /\ s.f.skip -> dlt_logstorage_close_file(s)
        [] s.ret = 0 /\ ~s.f.skip /\ end - start > remain -> RestOf(SyncPart(s, start, remain), u, w, end)
        [] OTHER -> SyncRest(s, u, w, start, end, end - start)

dlt_logstorage_sync_to_file(s, u, w, start, end) ==
  SyncInto(dlt_logstorage_open_log_file(Closed(s), u, w, end - start, TRUE), u, w, start, end)

\* The newest file of this base name is the one to go on with.
dlt_logstorage_prepare_msg_cache(s, u, w, size, n) ==
  LET moved == n.file # None /\ (s.f.working = None \/ s.f.wrap_id # n.wrap_id \/ n.file # s.f.working)
      t == IF moved THEN TakeNewest(s, n) ELSE s
  IN  IF \/ {"specific_size", "file_size"} \subseteq s.c.sync
         \/ "specific_size" \in s.c.sync /\ s.c.specific_size > s.c.file_size
         \/ s.f.cache = <<>> /\ s.cache_used + CacheSize(s.c) > s.cache_max
      THEN [t EXCEPT !.ret = -1]
      ELSE IF s.f.cache # <<>> THEN [t EXCEPT !.ret = 0]
      ELSE [t EXCEPT !.ret = 0, !.f.cache = EmptyCache(s.c), !.f.footer = ZeroFooter,
                     !.cache_used = @ + CacheSize(s.c)]

\* Write to the files what the cache holds and the files do not.
\* After a wrap around the older messages lie behind the newer ones.
SyncPieces(s, u, w, ft) ==
  LET from == IF ft.wrap_around_cnt = 1 /\ ft.offset < ft.last_sync_offset
              THEN ft.last_sync_offset ELSE ft.offset
      wrapped == ft.wrap_around_cnt >= 1
      older == IF wrapped THEN [dlt_logstorage_sync_to_file(s, u, w, from, ft.end_sync_offset)
                                  EXCEPT !.f.footer.last_sync_offset = 0]
               ELSE s
  IN  dlt_logstorage_sync_to_file(older, u, w, IF wrapped THEN 0 ELSE ft.last_sync_offset, ft.offset)

\* A strategy for full caches starts it again, at the end of a file with a new file.
Cleared(s, status) ==
  IF status \notin {"specific_size", "file_size"} THEN [s EXCEPT !.ret = 0]
  ELSE [(IF status = "file_size" THEN Closed(s) ELSE s)
          EXCEPT !.f.cache = EmptyCache(s.c), !.f.footer = ZeroFooter, !.ret = 0]

dlt_logstorage_sync_msg_cache(s, u, w, status) ==
  CASE status \notin s.c.sync -> [s EXCEPT !.ret = 0]
    [] status \in s.c.sync /\ s.f.cache = <<>> -> [s EXCEPT !.ret = -1]
    [] OTHER -> Cleared(SyncPieces(s, u, w, s.f.footer), status)

Put(s, at, data) ==
  [s EXCEPT !.f.cache = [i \in 1 .. Len(s.f.cache) |->
                           IF at < i /\ i <= at + Len(data) THEN data[i - at] ELSE s.f.cache[i]]]

\* A message that does not fit behind the last one starts the cache again: after a sync, or
\* over the oldest messages.  A message that fills the cache exactly counts as a wrap too.
CacheFull(s, u, w) ==
  IF s.c.sync \intersect {"file_size", "specific_size"} # {}
  THEN dlt_logstorage_sync_msg_cache(s, u, w,
         IF "file_size" \in s.c.sync THEN "file_size" ELSE "specific_size")
  ELSE IF s.c.sync \intersect {"demand", "exit"} # {}
       THEN [s EXCEPT !.f.footer.wrap_around_cnt = @ + 1] ELSE s

PutBehind(s, data, ft) ==
  [Put(s, ft.offset, data) EXCEPT
     !.f.footer.offset = ft.offset + Len(data),
     !.f.footer.end_sync_offset = IF ft.wrap_around_cnt < 1 THEN ft.offset + Len(data) ELSE @,
     !.ret = 0]

PutAtStart(s, data) ==
  [Put(s, 0, data) EXCEPT !.f.footer.end_sync_offset = s.f.footer.offset,
                          !.f.footer.offset = Len(data), !.ret = 0]

dlt_logstorage_write_msg_cache(s, u, w, data) ==
  LET remain == CacheSize(s.c) - s.f.footer.offset
  IN  CASE Len(data) < remain -> PutBehind(s, data, s.f.footer)
        [] Len(data) = remain -> [CacheFull(PutBehind(s, data, s.f.footer), u, w) EXCEPT !.ret = 0]
        [] Len(data) > remain /\ Len(data) <= CacheSize(s.c) -> PutAtStart(CacheFull(s, u, w), data)
        [] OTHER -> [s EXCEPT !.ret = -1]
================================================================================
