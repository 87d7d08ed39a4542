------------------------------ MODULE DltFile ------------------------------
(***************************************************************************)
(* Trace files: the filters (dlt_filter_add ..), reading a file message by *)
(* message into an index (dlt_file_read, dlt_file_read_raw) and going back *)
(* to an indexed message (dlt_file_message), dlt_common.c.  dlt-convert,   *)
(* dlt-sortbytimestamp and viewers are built on these calls.               *)
(*                                                                         *)
(* The file is a sequence of cells, each the bytes that are read together: *)
(* "D" a storage header, "L" a serial header, a standard header, an        *)
(* extended header, one cell per unit of payload, and "g" for anything     *)
(* else.  The file may still be growing while it is read.                  *)
(***************************************************************************)
EXTENDS Integers, Sequences, FiniteSets, SequencesExt

CONSTANTS
  FilterMax,     \* DLT_FILTER_MAX
  Int32Max,      \* INT32_MAX, the payload_max of a filter that was loaded
  Files,         \* the shapes of the files, see FileInit
  Filters        \* the filters callers add and delete

VARIABLES
  kind,      \* [items, raw, resync, live, filters]: see FileInit
  visible,   \* how many cells of the file are written so far
  filter,    \* DltFilter: a sequence of filters
  stored,    \* the filter file, or <<>>
  calls,     \* bound: calls on the filter list so far
  asked,     \* ghost: the filters added, loaded and not deleted since
  file       \* DltFile, see Closed

fileVars == <<kind, visible, filter, stored, calls, asked, file>>

-----------------------------------------------------------------------------
(* The contents of a file.                                                  *)

Garbage == [k |-> "g"]
Pattern(raw) == [k |-> IF raw THEN "L" ELSE "D"]

\* The cells of one item: a message [id, ueh, ap, ct, level, size] in the format
\* of the file, or garbage.  A serial header may be missing.
ItemCells(item, raw) ==
  IF item.id = 0 THEN <<Garbage>>
  ELSE (IF item.bare THEN <<>> ELSE <<Pattern(raw)>>)
         \o <<[k |-> "s", id |-> item.id, ueh |-> item.ueh,
               len |-> item.len]>>
         \o (IF item.ueh THEN <<[k |-> "e", ap |-> item.ap, ct |-> item.ct,
                                 level |-> item.level]>> ELSE <<>>)
         \o [n \in 1 .. item.size |-> Garbage]

Content == FlattenSeq([i \in DOMAIN kind.items |-> ItemCells(kind.items[i], kind.raw)])
Disk == SubSeq(Content, 1, visible)

\* The cell after the last one of item i, and the messages of the file.
EndOf(i) ==
  Len(FlattenSeq([j \in 1 .. i |-> ItemCells(kind.items[j], kind.raw)]))
StartOf(i) == EndOf(i) - Len(ItemCells(kind.items[i], kind.raw))
Messages == SelectSeq([i \in DOMAIN kind.items |-> i], LAMBDA i : kind.items[i].id # 0)

-----------------------------------------------------------------------------
(* Filters.  A filter is [ap, ct, level, min, max]; "" is an empty id, 0 any *)
(* level and no limit on the payload.                                       *)

Subsumes(f, g) ==
  /\ f.ap = g.ap /\ f.ct = g.ct
  /\ f.level = g.level \/ f.level = 0
  /\ f.min <= g.min
  /\ f.max >= g.max

dlt_filter_find(fs, g) == {i \in DOMAIN fs : Subsumes(fs[i], g)}

\* Mutant of dlt_filter_add: a filter of any level is found, not only the
\* same level or 0.
AddIgnoringLevel(fs, g) ==
  IF Len(fs) >= FilterMax
       \/ \E i \in DOMAIN fs : fs[i].ap = g.ap /\ fs[i].ct = g.ct
    THEN fs
    ELSE Append(fs, g)

dlt_filter_add(fs, g) ==
  IF Len(fs) >= FilterMax \/ dlt_filter_find(fs, g) # {} THEN fs ELSE Append(fs, g)

\* The first filter of the ids and limits whose level is the one named or 0.
Deletable(fs, g) ==
  {i \in DOMAIN fs : /\ fs[i].ap = g.ap /\ fs[i].ct = g.ct
                     /\ fs[i].level = g.level \/ fs[i].level = 0
                     /\ fs[i].min = g.min /\ fs[i].max = g.max}
dlt_filter_delete(fs, g) ==
  IF Deletable(fs, g) = {} THEN fs
  ELSE LET j == CHOOSE i \in Deletable(fs, g) : \A k \in Deletable(fs, g) : i <= k
       IN RemoveAt(fs, j)

\* Only the ids are saved; "----" stands for an empty one.
dlt_filter_save(fs) == [i \in DOMAIN fs |-> <<fs[i].ap, fs[i].ct>>]
Loaded(ids) == [ap |-> ids[1], ct |-> ids[2], level |-> 0, min |-> 0, max |-> Int32Max]
dlt_filter_load(ids) ==
  FoldLeft(LAMBDA fs, x : dlt_filter_add(fs, Loaded(x)), <<>>, ids)

\* ext is the extended header read for the message, size its payload.
Matches(f, ext, size) ==
  /\ f.ap = "" \/ f.ap = ext.ap
  /\ f.ct = "" \/ f.ct = ext.ct
  /\ f.level = 0 \/ f.level = ext.level
  /\ f.min = 0 \/ f.min <= size
  /\ f.max = 0 \/ f.max >= size

dlt_message_filter_check(fs, ueh, ext, size) ==
  fs = <<>> \/ ~ueh \/ \E i \in DOMAIN fs : Matches(fs[i], ext, size)

-----------------------------------------------------------------------------
(* Reading.  Positions count cells from 0; at is the position of the handle. *)

Closed == [open |-> FALSE, file_position |-> 0, index |-> <<>>, counter_total |-> 0,
           at |-> 0]

Readable(p, n) == p + n <= visible
Cell(p) == Disk[p + 1]

ReadFailed == [ok |-> FALSE]
HeaderRead(p, std) ==
  LET headers == IF std.ueh THEN 1 ELSE 0
  IN IF std.len - 1 - headers < 0 THEN ReadFailed    \* plausibility check
     ELSE [ok |-> TRUE, at |-> p, std |-> std, size |-> std.len - 1 - headers]

\* The first storage header from p on that has a standard header behind it.
dlt_file_read_header(p) ==
  LET found == {q \in p .. visible : Readable(q, 2) /\ Cell(q) = Pattern(FALSE)}
      q     == CHOOSE x \in found : \A y \in found : x <= y
  IN IF found = {} THEN ReadFailed ELSE HeaderRead(q + 2, Cell(q + 1))

\* A serial header is skipped; without one the next is searched (resync) or
\* the standard header is read from the last position.
dlt_file_read_header_raw(p) ==
  LET found == {q \in p .. visible : Readable(q, 1) /\ Cell(q) = Pattern(TRUE)}
      next  == CHOOSE x \in found : \A y \in found : x <= y
      q     == IF Readable(p, 1) /\ Cell(p) = Pattern(TRUE) THEN p + 1
               ELSE IF kind.resync THEN next + 1 ELSE p
  IN IF ~Readable(p, 1) \/ (kind.resync /\ found = {}) \/ ~Readable(q, 1) THEN ReadFailed
     ELSE HeaderRead(q + 1, Cell(q))

NoExt == [ap |-> "", ct |-> "", level |-> 0]
dlt_file_read_header_extended(h) ==
  IF ~h.ok THEN h
  ELSE IF ~h.std.ueh THEN [ok |-> TRUE, at |-> h.at, std |-> h.std, size |-> h.size,
                           ext |-> NoExt]
  ELSE IF ~Readable(h.at, 1) THEN ReadFailed
  ELSE [ok |-> TRUE, at |-> h.at + 1, std |-> h.std, size |-> h.size,
        ext |-> Cell(h.at)]

dlt_file_read_data(h) ==
  IF ~h.ok THEN h
  ELSE IF ~Readable(h.at, h.size) THEN ReadFailed ELSE [h EXCEPT !.at = h.at + h.size]

\* The message entered at file_position, the next one at position next.
Indexed(taken, next) ==
  [file EXCEPT !.index = IF taken THEN Append(file.index, file.file_position)
                         ELSE file.index,
               !.counter_total = file.counter_total + 1,
               !.file_position = next, !.at = next]

\* With a filter the extended header is read and the payload skipped, without
\* one everything behind the standard header is skipped; seeking beyond the
\* end of the file succeeds.
ReadFrom(p) ==
  LET h == dlt_file_read_header(p)
      e == dlt_file_read_header_extended(h)
  IN IF kind.filters > 0
       THEN IF ~e.ok THEN [file EXCEPT !.at = file.file_position]
            ELSE Indexed(dlt_message_filter_check(filter, e.std.ueh, e.ext, e.size),
                         e.at + e.size)
       ELSE IF ~h.ok THEN [file EXCEPT !.at = file.file_position]
            ELSE Indexed(TRUE, h.at + h.size + (IF h.std.ueh THEN 1 ELSE 0))

\* Mutant of dlt_file_read: the handle is not set back to file_position.
ReadFromHandle ==
  /\ file.open /\ ~kind.raw
  /\ file' = ReadFrom(file.at)
  /\ UNCHANGED <<kind, visible, filter, stored, calls, asked>>

dlt_file_read ==
  /\ file.open /\ ~kind.raw
  /\ file' = ReadFrom(file.file_position)
  /\ UNCHANGED <<kind, visible, filter, stored, calls, asked>>

\* Reading a raw file takes the payload too, and fails if it is not there yet.
dlt_file_read_raw ==
  LET e == dlt_file_read_header_extended(dlt_file_read_header_raw(file.file_position))
      d == dlt_file_read_data(e)
  IN /\ file.open /\ kind.raw
     /\ file' = IF d.ok THEN Indexed(TRUE, d.at)
                ELSE [file EXCEPT !.at = file.file_position]
     /\ UNCHANGED <<kind, visible, filter, stored, calls, asked>>

\* What dlt_file_message(i) reads.
MessageAt(i) ==
  dlt_file_read_data(dlt_file_read_header_extended(
    dlt_file_read_header(file.index[i])))

\* Going back to a message leaves the handle behind it.
dlt_file_message ==
  \E i \in DOMAIN file.index :
    LET d == MessageAt(i)
    IN /\ file.open /\ ~kind.raw
       /\ file' = [file EXCEPT !.at = IF d.ok THEN d.at ELSE visible]
       /\ UNCHANGED <<kind, visible, filter, stored, calls, asked>>

-----------------------------------------------------------------------------
(* The callers.                                                             *)

\* Init: the shape of the file: its items, its format (raw: serial headers),
\* resync, whether it grows while it is read, and how many calls on the filter
\* list come before it is opened (0: the file is read without filters).
FileInit ==
  /\ kind \in Files
  /\ visible = IF kind.live THEN 0 ELSE Len(Content)
  /\ filter = <<>> /\ stored = <<>> /\ calls = 0 /\ asked = {}
  /\ file = Closed

FilterStep(fs, as, st) ==
  /\ ~file.open /\ calls < kind.filters
  /\ calls' = calls + 1
  /\ filter' = fs /\ asked' = as /\ stored' = st
  /\ UNCHANGED <<kind, visible, file>>

AddFilter ==
  \E g \in Filters :
    FilterStep(dlt_filter_add(filter, g),
               IF Len(filter) < FilterMax THEN asked \cup {g} ELSE asked, stored)

\* A filter that was asked for and is deleted takes the ones it stood for along.
DeleteFilter ==
  \E g \in Filters :
    /\ Deletable(filter, g) # {}
    /\ LET gone == Range(filter) \ Range(dlt_filter_delete(filter, g))
       IN FilterStep(dlt_filter_delete(filter, g),
                     {a \in asked : \A f \in gone : ~Subsumes(f, a)}, stored)

SaveFilter == FilterStep(filter, asked, dlt_filter_save(filter))

LoadFilter ==
  /\ stored # <<>>
  /\ FilterStep(dlt_filter_load(stored), {Loaded(x) : x \in Range(stored)}, stored)

dlt_file_open ==
  /\ ~file.open
  /\ file' = [Closed EXCEPT !.open = TRUE]
  /\ UNCHANGED <<kind, visible, filter, stored, calls, asked>>

\* The writer of a live file: any number of cells becomes visible.
Grow ==
  /\ visible < Len(Content)
  /\ visible' \in visible + 1 .. Len(Content)
  /\ UNCHANGED <<kind, filter, stored, calls, asked, file>>

FileNext ==
  \/ AddFilter \/ DeleteFilter \/ SaveFilter \/ LoadFilter
  \/ dlt_file_open \/ dlt_file_read \/ dlt_file_read_raw \/ dlt_file_message
  \/ Grow

-----------------------------------------------------------------------------
(* Properties.                                                              *)

\* The messages read so far: those that begin before file_position.
ReadSoFar == SelectSeq(Messages, LAMBDA i : StartOf(i) < file.file_position)
Wanted(item) ==
  kind.filters = 0 \/ ~item.ueh \/ filter = <<>>
  \/ \E i \in DOMAIN filter : Matches(filter[i], item, item.size)

\* However reading and going back alternate and however the file grows
\* meanwhile: every message behind file_position is counted once, the ones
\* the filters let through are in the index in the order of the file, and an
\* index leads to its own message as soon as that is written whole.
IndexExact ==
  file.open =>
    LET wanted == SelectSeq(ReadSoFar, LAMBDA i : Wanted(kind.items[i]))
    IN /\ file.counter_total = Len(ReadSoFar)
       /\ Len(file.index) = Len(wanted)
       /\ ~kind.raw =>
            \A n \in DOMAIN wanted :
              EndOf(wanted[n]) <= visible =>
                /\ MessageAt(n).ok
                /\ MessageAt(n).std.id = kind.items[wanted[n]].id
                /\ MessageAt(n).at = EndOf(wanted[n])

\* The list stands for every filter asked for: a message one of them lets
\* through passes the list, also when the list already held a filter that
\* includes it, and after a save and a load.  Not so for a filter with
\* payload_max 0, which the check takes as no limit and the search as 0.
FiltersStand ==
  \A g \in asked, i \in DOMAIN kind.items :
    LET item == kind.items[i]
    IN (item.id # 0 /\ item.ueh /\ Matches(g, item, item.size))
       => dlt_message_filter_check(filter, TRUE, item, item.size)

\* A reader of a file is shown what its filters ask for (dlt_file_read, dlt_filter_add).
FileExact == IndexExact /\ FiltersStand
=============================================================================
