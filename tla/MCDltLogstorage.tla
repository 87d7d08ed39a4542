---------------------------- MODULE MCDltLogstorage ----------------------------
(* Instances of DltLogstorage and DltLogstorageConfig for TLC.  Reading a        *)
(* configuration file is one call: in a behaviour either a file is read, or the  *)
(* daemon stores messages with the filters it has read.                          *)
EXTENDS DltLogstorage, MCDltLogstorageConfig, TLC

Id(a, c) == [apid |-> a, ctid |-> c]
MCIds == {Id("A", "C"), Id("A", "D"), Id("B", "C")}

\* A filter that takes everything of application A into files "f".
F == [apids |-> <<"A">>, ctids |-> <<Wild>>, ecuid |-> Empty, log_level |-> 4,
      excluded_apids |-> {}, excluded_ctids |-> {}, file |-> "f", file_size |-> 5,
      num_files |-> 2, specific_size |-> 0, sync |-> {"on_msg"}, overwrite |-> "discard_old"]

Cache(strategy) == [F EXCEPT !.sync = {strategy}]

\* A history on one mount point with one size pair.
S == [conf |-> << <<F>> >>, valid |-> TRUE, timestamp |-> FALSE, optional |-> FALSE, maxcounter |-> 3, cache_max |-> 20,
      internal |-> TRUE, devices |-> 1, sizes |-> {2, 3}, ids |-> {Id("A", "C")}, levels |-> {4},
      kinds |-> {}, msgs |-> 6, reqs |-> 0, restarts |-> 1, regs |-> 0]

\* Levels: filters on two devices with wildcards, lists and another ECU.
LA == [F EXCEPT !.log_level = 3]
LC == [F EXCEPT !.apids = <<Wild>>, !.ctids = <<"C">>, !.log_level = 5, !.file = "g"]
LE == [F EXCEPT !.apids = <<>>, !.ctids = <<>>, !.ecuid = "E", !.log_level = 2, !.file = "h"]
LX == [F EXCEPT !.apids = <<"A", "B">>, !.ctids = <<"C">>, !.ecuid = "X", !.log_level = 6, !.file = "i"]
LS == [F EXCEPT !.apids = <<"A", "B">>, !.ctids = <<"C", "D">>, !.excluded_apids = {"A"},
                !.excluded_ctids = {"D"}, !.log_level = 4, !.file = "j"]

LN == [F EXCEPT !.ctids = <<"C">>, !.ecuid = "E", !.log_level = 2, !.file = Empty]

\* A device whose cache is stored when it is disconnected; a single file without an index.
Disconnects(cache_max) ==
  [S EXCEPT !.conf = << <<[F EXCEPT !.sync = {"disconnect", "file_size"}]>> >>, !.cache_max = cache_max,
            !.kinds = {"connect", "disconnect"}, !.reqs = 3, !.msgs = 4, !.restarts = 0]
Single(stamped) ==
  [S EXCEPT !.conf = << <<[F EXCEPT !.num_files = 1]>> >>, !.optional = TRUE, !.timestamp = stamped,
            !.kinds = {"crash"}, !.msgs = 5]

\* Each strategy with files that wrap around, orderly stops and power failures; two filters
\* that share their files; new messages discarded; descriptors that move; files that cannot be
\* opened; a device that is taken away; devices, their levels and registrations in any order.
LogLimits ==
  {[S EXCEPT !.kinds = {"crash"}],
   [S EXCEPT !.timestamp = TRUE, !.msgs = 5],
   [S EXCEPT !.maxcounter = 4, !.kinds = {"crash"}, !.sizes = {3}, !.msgs = 8, !.restarts = 2],
   [S EXCEPT !.conf = << <<Cache("file_size")>> >>, !.kinds = {"crash"}],
   [S EXCEPT !.conf = << <<[Cache("specific_size") EXCEPT !.specific_size = 4]>> >>, !.kinds = {"crash"}],
   [S EXCEPT !.conf = << <<Cache("demand")>> >>, !.kinds = {"sync", "crash"}, !.reqs = 2],
   [S EXCEPT !.conf = << <<Cache("exit")>> >>],
   [S EXCEPT !.conf = << <<[F EXCEPT !.overwrite = "discard_new"]>> >>, !.msgs = 5],
   [S EXCEPT !.conf = << <<[F EXCEPT !.ctids = <<"C">>], [F EXCEPT !.ctids = <<"D">>]>> >>,
             !.ids = {Id("A", "C"), Id("A", "D")}, !.sizes = {3}, !.restarts = 1],
   [S EXCEPT !.conf = << <<[F EXCEPT !.ctids = <<"C">>], [Cache("file_size") EXCEPT !.ctids = <<"D">>]>> >>,
             !.ids = {Id("A", "C"), Id("A", "D")}, !.sizes = {3}, !.restarts = 0],
   [S EXCEPT !.kinds = {"shift"}, !.msgs = 5, !.restarts = 0],
   [S EXCEPT !.kinds = {"unplug", "sync", "connect", "disconnect"}, !.reqs = 3, !.msgs = 3, !.restarts = 0,
             !.sizes = {3}],
   [S EXCEPT !.kinds = {"nofile"}, !.msgs = 5],
   [S EXCEPT !.conf = << <<Cache("file_size")>> >>, !.kinds = {"nofile"}, !.msgs = 4],
   Single(FALSE), Single(TRUE), Disconnects(20), [Disconnects(7) EXCEPT !.reqs = 2, !.msgs = 3],
   [S EXCEPT !.conf = << <<LA, LN>>, <<LC>> >>, !.devices = 2, !.ids = {Id("A", "C"), Id("B", "C")}, !.levels = {3},
             !.sizes = {3}, !.kinds = {"connect", "disconnect"}, !.reqs = 3, !.msgs = 1, !.restarts = 0, !.regs = 2],
   [S EXCEPT !.conf = << <<LA>>, <<LC, LE>> >>, !.internal = FALSE, !.devices = 2, !.ids = MCIds,
             !.kinds = {"connect", "disconnect"}, !.reqs = 4, !.msgs = 0, !.restarts = 0, !.regs = 2],
   [S EXCEPT !.conf = << <<LX, LS>>, <<LA>> >>, !.devices = 2, !.ids = MCIds, !.levels = {3, 6},
             !.sizes = {3}, !.kinds = {"connect", "disconnect", "sync"}, !.reqs = 2, !.msgs = 2, !.restarts = 0,
             !.regs = 1]}

NoStorage == [S EXCEPT !.msgs = 0, !.restarts = 0]
NoConfigFile == <<>>
MCLogLimits == LogLimits \cup {NoStorage}

\* The instances of the questions that have one shape each.
MCDisconnects == {Disconnects(20)}
MCSingle == {Single(TRUE)}
MCNoStorage == {NoStorage}
MCNoConfigFile == {NoConfigFile}
MCConfigFilesAndNone == MCConfigFiles \cup {NoConfigFile}

MCInit == Init /\ ConfInit /\ (limit = NoStorage <=> conffile # NoConfigFile)

MCNext ==
  \/ limit # NoStorage /\ Next /\ UNCHANGED confvars
  \/ limit = NoStorage /\ ConfNext /\ UNCHANGED vars

MCSpec == MCInit /\ [][MCNext]_<<vars, confvars>>
================================================================================
