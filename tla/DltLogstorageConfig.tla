-------------------------- MODULE DltLogstorageConfig --------------------------
(* Reading dlt_logstorage.conf: the parser of configuration files              *)
(* (dlt_config_file_parser.c), line by line, and the filters of a device       *)
(* (dlt_logstorage_store_filters), section by section.                         *)
(*                                                                             *)
(* A line is a section name, a key with its value, or unreadable; comments and *)
(* empty lines are left out.  A section name is a kind ("STORAGE" stands for   *)
(* NON-VERBOSE-STORAGE-FILTER, "CONTROL" for NON-VERBOSE-LOGLEVEL-CTRL) and a  *)
(* number, -1 if it has none, -2 if something else follows the kind.  A value is a record: "n" the number, level or   *)
(* name it spells (-1 if none), "words" the words it contains, "names" the     *)
(* list it spells.  A name of a list is a number whose last digit stands for   *)
(* what follows its first four characters; 0 is the wildcard.                  *)
EXTENDS Integers, Sequences, FiniteSets, SequencesExt

CONSTANTS SectionsMax,        \* DLT_CONFIG_FILE_SECTIONS_MAX
          KeysMax,            \* DLT_CONFIG_FILE_KEYS_MAX
          ConfigFiles         \* the files a device may bring

ASSUME ConfigAssumption == SectionsMax \in Nat \ {0} /\ KeysMax \in Nat \ {0}

VARIABLES
  conffile,     \* the lines of the file
  confpos,      \* the line, then the section, that is next
  confphase,    \* "lines", "sections" or "done"
  sections,     \* DltConfigFile: [kind, no, list] with list a sequence of [key, val]
  secvalid,     \* is_section_valid
  filters,      \* handle->config_list
  newest,       \* handle->newest_file_list
  maintain,     \* handle->maintain_logstorage_loglevel
  valid         \* result so far: -1 nothing stored, 0 stored, 1 an invalid section

confvars == <<conffile, confpos, confphase, sections, secvalid, filters, newest, maintain, valid>>

--------------------------------------------------------------------------------
(* dlt_config_file_parser.c *)

\* A name is stored once, and only so many of them.
dlt_config_file_set_section(line) ==
  /\ Len(sections) < SectionsMax
  /\ \A k \in DOMAIN sections : <<sections[k].kind, sections[k].no>> # <<line.kind, line.no>>

NewSection(line) == [kind |-> line.kind, no |-> line.no, list |-> <<>>]

\* The last of the keys a section has room for is never used.
dlt_config_file_set_section_data(s, line) ==
  IF Len(s.list) + 1 >= KeysMax THEN s
  ELSE [s EXCEPT !.list = Append(@, [key |-> line.key, val |-> line.val])]

\* What a line is: its text was parsed into this record.
dlt_config_file_read_line(line) == line.t


\* dlt_config_file_read_file: one line.  Keys of a section that was refused are skipped.
dlt_config_file_read_file ==
  /\ confphase = "lines" /\ confpos <= Len(conffile)
  /\ LET line == conffile[confpos] IN
     /\ sections' = CASE dlt_config_file_read_line(line) = "section" /\ dlt_config_file_set_section(line) ->
                           Append(sections, NewSection(line))
                      [] dlt_config_file_read_line(line) = "data" /\ secvalid ->
                           [sections EXCEPT ![Len(sections)] = dlt_config_file_set_section_data(@, line)]
                      [] OTHER -> sections
     /\ secvalid' = IF dlt_config_file_read_line(line) = "section" THEN dlt_config_file_set_section(line) ELSE secvalid
  /\ confpos' = confpos + 1
  /\ UNCHANGED <<conffile, confphase, filters, newest, maintain, valid>>

\* dlt_config_file_init returns what it read.
dlt_config_file_init ==
  /\ confphase = "lines" /\ confpos > Len(conffile)
  /\ confphase' = "sections" /\ confpos' = 1
  /\ UNCHANGED <<conffile, sections, secvalid, filters, newest, maintain, valid>>

\* The first entry of a section with that key, or nothing.
dlt_config_file_get_value(s, key) ==
  LET found == SelectSeq(s.list, LAMBDA e : e.key = key)
  IN  IF found = <<>> THEN <<>> ELSE <<found[1].val>>

--------------------------------------------------------------------------------
(* Checks of single values.  Each returns the configuration and whether the    *)
(* value is refused; a refused value makes the section invalid.                *)

\* tmp_data: NULL lists are empty, 0 is no file name and no ECU.
NoConfig ==
  [apids |-> <<>>, ctids |-> <<>>, xapids |-> <<>>, xctids |-> <<>>, log_level |-> 6, reset |-> 0,
   file |-> 0, size |-> 0, num |-> 0, sync |-> {}, overwrite |-> "unset", ecu |-> 0, specific |-> 0,
   gzip |-> "unset", network |-> "off", strategy |-> "unset"]

Checked(c, refused) == [c |-> c, refused |-> refused]

\* Names are cut to four characters.
dlt_logstorage_read_list_of_names(names) == [k \in DOMAIN names |-> names[k] \div 10]

dlt_logstorage_check_apids(c, v) ==
  Checked([c EXCEPT !.apids = dlt_logstorage_read_list_of_names(v.names)], v.names = <<>>)
dlt_logstorage_check_ctids(c, v) ==
  Checked([c EXCEPT !.ctids = dlt_logstorage_read_list_of_names(v.names)], v.names = <<>>)
dlt_logstorage_store_config_excluded_apids(c, v) ==
  Checked([c EXCEPT !.xapids = dlt_logstorage_read_list_of_names(v.names)], v.names = <<>>)
dlt_logstorage_store_config_excluded_ctids(c, v) ==
  Checked([c EXCEPT !.xctids = dlt_logstorage_read_list_of_names(v.names)], v.names = <<>>)

\* The names of the levels are 1 to 6, and for a reset 0 (off) to 6.
dlt_logstorage_check_loglevel(c, v) == Checked([c EXCEPT !.log_level = v.n], v.n \notin 1 .. 6)
dlt_logstorage_check_reset_loglevel(c, v) == Checked([c EXCEPT !.reset = v.n], v.n \notin 0 .. 6)

\* A name must not lead out of the directory.
dlt_logstorage_check_filename(c, v) == Checked([c EXCEPT !.file = v.n], v.n <= 0 \/ ".." \in v.words)

\* Digits, and not 0.
dlt_logstorage_read_number(v) == v.n > 0
dlt_logstorage_check_filesize(c, v) == Checked([c EXCEPT !.size = v.n], ~dlt_logstorage_read_number(v))
dlt_logstorage_check_nofiles(c, v) == Checked([c EXCEPT !.num = v.n], ~dlt_logstorage_read_number(v))
dlt_logstorage_check_specificsize(c, v) == Checked([c EXCEPT !.specific = v.n], ~dlt_logstorage_read_number(v))

CacheStrategies == {"ON_DAEMON_EXIT", "ON_DEMAND", "ON_DEVICE_DISCONNECT", "ON_SPECIFIC_SIZE", "ON_FILE_SIZE"}

\* ON_MSG excludes the others; without a word it knows the check sets ON_MSG and returns 1,
\* which the caller takes for a refusal.
dlt_logstorage_check_sync_strategy(c, v) ==
  LET sync == IF "ON_MSG" \in v.words THEN {"ON_MSG"} ELSE c.sync \union (v.words \intersect CacheStrategies)
  IN  Checked([c EXCEPT !.sync = IF sync = {} THEN {"ON_MSG"} ELSE sync], sync = {})

dlt_logstorage_check_overwrite_strategy(c, v) ==
  IF "DISCARD_OLD" \in v.words THEN Checked([c EXCEPT !.overwrite = "old"], FALSE)
  ELSE IF "DISCARD_NEW" \in v.words THEN Checked([c EXCEPT !.overwrite = "new"], FALSE)
  ELSE Checked([c EXCEPT !.overwrite = "old"], TRUE)

dlt_logstorage_check_disable_network(c, v) ==
  IF "ON" \in v.words THEN Checked([c EXCEPT !.network = "on"], FALSE)
  ELSE Checked([c EXCEPT !.network = "off"], "OFF" \notin v.words)

\* Built without gzip the value is not looked at.
dlt_logstorage_check_gzip_compression(c, v) == Checked([c EXCEPT !.gzip = "off"], FALSE)

dlt_logstorage_check_ecuid(c, v) == Checked([c EXCEPT !.ecu = v.n], v.n <= 0)

--------------------------------------------------------------------------------
(* The keys of a section by its kind, in the order in which they are checked:  *)
(* what checks them, and whether they may be left out.                         *)

Key(name, opt) == [key |-> name, opt |-> opt]

filter_cfg_entries ==
  <<Key("LogAppName", TRUE), Key("ContextName", TRUE), Key("ExcludedLogAppName", TRUE),
    Key("ExcludedContextName", TRUE), Key("LogLevel", FALSE), Key("File", FALSE), Key("FileSize", FALSE),
    Key("NOFiles", FALSE), Key("SyncBehavior", TRUE), Key("OverwriteBehavior", TRUE), Key("EcuID", TRUE),
    Key("SpecificSize", TRUE), Key("GzipCompression", TRUE), Key("DisableNetwork", TRUE)>>

filter_nonverbose_storage_entries ==
  <<Key("File", FALSE), Key("FileSize", FALSE), Key("NOFiles", FALSE), Key("EcuID", FALSE),
    Key("GzipCompression", TRUE)>>

filter_nonverbose_control_entries ==
  <<Key("LogAppName", FALSE), Key("ContextName", FALSE), Key("LogLevel", FALSE), Key("ResetLogLevel", TRUE),
    Key("EcuID", FALSE), Key("GzipCompression", TRUE)>>

\* dlt_logstorage_get_filter_value: the table is chosen by the name of the section.
dlt_logstorage_get_filter_value(kind) ==
  CASE kind = "FILTER" -> filter_cfg_entries
    [] kind = "STORAGE" -> filter_nonverbose_storage_entries
    [] kind = "CONTROL" -> filter_nonverbose_control_entries

dlt_logstorage_check_param(key, c, v) ==
  CASE key = "LogAppName" -> dlt_logstorage_check_apids(c, v)
    [] key = "ContextName" -> dlt_logstorage_check_ctids(c, v)
    [] key = "ExcludedLogAppName" -> dlt_logstorage_store_config_excluded_apids(c, v)
    [] key = "ExcludedContextName" -> dlt_logstorage_store_config_excluded_ctids(c, v)
    [] key = "LogLevel" -> dlt_logstorage_check_loglevel(c, v)
    [] key = "ResetLogLevel" -> dlt_logstorage_check_reset_loglevel(c, v)
    [] key = "File" -> dlt_logstorage_check_filename(c, v)
    [] key = "FileSize" -> dlt_logstorage_check_filesize(c, v)
    [] key = "NOFiles" -> dlt_logstorage_check_nofiles(c, v)
    [] key = "SyncBehavior" -> dlt_logstorage_check_sync_strategy(c, v)
    [] key = "OverwriteBehavior" -> dlt_logstorage_check_overwrite_strategy(c, v)
    [] key = "EcuID" -> dlt_logstorage_check_ecuid(c, v)
    [] key = "SpecificSize" -> dlt_logstorage_check_specificsize(c, v)
    [] key = "GzipCompression" -> dlt_logstorage_check_gzip_compression(c, v)
    [] key = "DisableNetwork" -> dlt_logstorage_check_disable_network(c, v)

\* The values of a section, key after key; the first that is missing or refused ends it.
ReadProperties(s) ==
  FoldLeft(LAMBDA acc, e :
             LET v == dlt_config_file_get_value(s, e.key)
             IN  IF acc.refused THEN acc
                 ELSE IF v = <<>> THEN Checked(acc.c, ~e.opt)
                 ELSE dlt_logstorage_check_param(e.key, acc.c, v[1]),
           Checked(NoConfig, FALSE), dlt_logstorage_get_filter_value(s.kind))

\* Keys need applications and contexts, or an ECU alone; two wildcards count as an ECU alone.
dlt_logstorage_setup_table(c) ==
  LET ecuAlone == c.ecu # 0 /\ \/ c.apids = <<>> /\ c.ctids = <<>>
                               \/ c.apids # <<>> /\ c.ctids # <<>> /\ c.apids[1] = 0 /\ c.ctids[1] = 0
  IN  ecuAlone \/ (c.apids # <<>> /\ c.ctids # <<>>)

\* The result for a section: "stored", "invalid", or "broken" when no keys can be made.
dlt_daemon_offline_setup_filter_properties(s) ==
  LET r == ReadProperties(s)
  IN  IF r.refused \/ (Len(r.c.xapids) > 1 /\ Len(r.c.xctids) > 1) THEN "invalid"
      ELSE IF dlt_logstorage_setup_table(r.c) THEN "stored" ELSE "broken"

\* Messages are written at once, or kept in a cache until a reason to store them.
dlt_logstorage_filter_set_strategy(c) ==
  [c EXCEPT !.strategy = IF c.sync \subseteq {"ON_MSG"} THEN "message" ELSE "cache"]

\* dlt_logstorage_prepare_table: the filter goes to the end of the list, its file name is noted once.
dlt_logstorage_prepare_table(c) ==
  /\ filters' = Append(filters, c)
  /\ newest' = IF c.file = 0 \/ c.file \in ToSet(newest) THEN newest ELSE Append(newest, c.file)

\* The general section: a wrong value means ON.
dlt_daemon_setup_general_properties(s) ==
  LET v == dlt_config_file_get_value(s, "MaintainLogstorageLogLevel")
  IN  IF v = <<>> THEN maintain ELSE IF "OFF" \in v[1].words THEN "off" ELSE "on"

FilterKinds == {"FILTER", "STORAGE", "CONTROL"}

\* One of the three names, and behind it digits or nothing (the last character is not looked at).
dlt_logstorage_validate_filter_name(s) == s.kind \in FilterKinds /\ s.no >= -1

\* dlt_logstorage_store_filters: one section.  An invalid one is skipped, a broken one ends the
\* reading; other sections are ignored.
dlt_logstorage_store_filters ==
  /\ confphase = "sections" /\ confpos <= Len(sections)
  /\ LET s == sections[confpos] IN
     CASE s.kind = "General" ->
            maintain' = dlt_daemon_setup_general_properties(s) /\ UNCHANGED <<filters, newest, valid, confphase>>
       [] s.kind # "General" /\ dlt_logstorage_validate_filter_name(s) ->
            LET r == dlt_daemon_offline_setup_filter_properties(s) IN
            /\ IF r = "stored"
               THEN dlt_logstorage_prepare_table(dlt_logstorage_filter_set_strategy(ReadProperties(s).c))
               ELSE UNCHANGED <<filters, newest>>
            /\ valid' = IF r = "invalid" THEN 1 ELSE IF r = "stored" /\ valid # 1 THEN 0 ELSE valid
            /\ confphase' = IF r = "broken" THEN "done" ELSE confphase
            /\ UNCHANGED maintain
       [] OTHER -> UNCHANGED <<filters, newest, maintain, valid, confphase>>
  /\ confpos' = confpos + 1
  /\ UNCHANGED <<conffile, sections, secvalid>>

StoreEnds ==
  /\ confphase = "sections" /\ confpos > Len(sections)
  /\ confphase' = "done"
  /\ UNCHANGED <<conffile, confpos, sections, secvalid, filters, newest, maintain, valid>>

ConfInit ==
  /\ conffile \in ConfigFiles
  /\ confpos = 1 /\ confphase = "lines" /\ sections = <<>> /\ secvalid = FALSE
  /\ filters = <<>> /\ newest = <<>> /\ maintain = "undefined" /\ valid = -1

ConfNext ==
  \/ dlt_config_file_read_file
  \/ dlt_config_file_init
  \/ dlt_logstorage_store_filters
  \/ StoreEnds

ConfSpec == ConfInit /\ [][ConfNext]_confvars

--------------------------------------------------------------------------------
(* What the file says, without reading it in order.                            *)

NameAt(i) == <<conffile[i].kind, conffile[i].no>>
SectionLines == {i \in DOMAIN conffile : conffile[i].t = "section"}

\* A filter section counts where its name stands first, and when there is room for it.
FilterLines ==
  {i \in SectionLines :
     /\ conffile[i].kind \in FilterKinds /\ conffile[i].no # -2
     /\ \A j \in SectionLines : NameAt(j) = NameAt(i) => i <= j
     /\ Cardinality({NameAt(j) : j \in {k \in SectionLines : k <= i}}) <= SectionsMax}

\* Its lines are those up to the next section, as many as there is room for.
LinesOf(i) ==
  LET lines == {j \in DOMAIN conffile : /\ j > i /\ conffile[j].t = "data"
                                        /\ \A k \in SectionLines : ~(i < k /\ k < j)}
  IN  {j \in lines : Cardinality({k \in lines : k <= j}) < KeysMax}

\* The values the file gives a key of the section at line i: the first one holds.
Given(i, key) ==
  LET lines == {j \in LinesOf(i) : conffile[j].key = key}
  IN  {conffile[j].val : j \in {k \in lines : \A l \in lines : k <= l}}

Required ==
  [FILTER |-> {"LogLevel", "File", "FileSize", "NOFiles"},
   STORAGE |-> {"File", "FileSize", "NOFiles", "EcuID"},
   CONTROL |-> {"LogAppName", "ContextName", "LogLevel", "EcuID"}]
Optional ==
  [FILTER |-> {"LogAppName", "ContextName", "ExcludedLogAppName", "ExcludedContextName", "EcuID",
               "SpecificSize", "SyncBehavior", "OverwriteBehavior", "DisableNetwork"},
   STORAGE |-> {}, CONTROL |-> {"ResetLogLevel"}]
Keys(i) == Required[conffile[i].kind] \union Optional[conffile[i].kind]

Correct(key, v) ==
  /\ key \in {"FileSize", "NOFiles", "SpecificSize", "EcuID", "File"} => v.n > 0
  /\ key = "File" => ".." \notin v.words
  /\ key = "LogLevel" => v.n \in 1 .. 6
  /\ key = "ResetLogLevel" => v.n \in 0 .. 6
  /\ key = "SyncBehavior" => v.words \intersect (CacheStrategies \union {"ON_MSG"}) # {}
  /\ key = "OverwriteBehavior" => v.words \intersect {"DISCARD_OLD", "DISCARD_NEW"} # {}
  /\ key = "DisableNetwork" => v.words \intersect {"ON", "OFF"} # {}

Many(i, key) == \E v \in Given(i, key) : Len(v.names) > 1

\* Everything it needs is there and everything that is there is right.
Valid(i) ==
  /\ \A key \in Required[conffile[i].kind] : Given(i, key) # {}
  /\ \A key \in Keys(i) : \A v \in Given(i, key) : Correct(key, v)
  /\ ~(conffile[i].kind = "FILTER" /\ Many(i, "ExcludedLogAppName") /\ Many(i, "ExcludedContextName"))

\* It says which messages it is for: names of both kinds, or an ECU and no name at all.
Keyed(i) ==
  LET Has(key) == key \in Keys(i) /\ Given(i, key) # {}
  IN  (Has("LogAppName") /\ Has("ContextName")) \/ (Has("EcuID") /\ ~Has("LogAppName") /\ ~Has("ContextName"))

\* The field of the stored filter that holds a key, and what it must be.
Says(c, key, v) ==
  CASE key = "File" -> c.file = v.n
    [] key = "FileSize" -> c.size = v.n
    [] key = "NOFiles" -> c.num = v.n
    [] key = "SpecificSize" -> c.specific = v.n
    [] key = "EcuID" -> c.ecu = v.n
    [] key = "LogLevel" -> c.log_level = v.n
    [] key = "ResetLogLevel" -> c.reset = v.n
    [] key = "LogAppName" -> c.apids = [k \in DOMAIN v.names |-> v.names[k] \div 10]
    [] key = "ContextName" -> c.ctids = [k \in DOMAIN v.names |-> v.names[k] \div 10]
    [] key = "ExcludedLogAppName" -> Len(c.xapids) = Len(v.names)
    [] key = "ExcludedContextName" -> Len(c.xctids) = Len(v.names)
    [] key = "SyncBehavior" ->
           c.sync # {} /\ c.sync \subseteq v.words /\ (c.strategy = "message" <=> "ON_MSG" \in v.words)
    [] key = "OverwriteBehavior" -> c.overwrite = (IF "DISCARD_OLD" \in v.words THEN "old" ELSE "new")
    [] key = "DisableNetwork" -> c.network = (IF "ON" \in v.words THEN "on" ELSE "off")

================================================================================
