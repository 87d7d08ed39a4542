-------------------------- MODULE MCDltMultipleFiles ---------------------------
(* Instances of DltMultipleFiles for TLC.                                      *)
EXTENDS DltMultipleFiles, TLC

S == [use |-> "trace", timestamp |-> FALSE, dotted |-> FALSE, fileSize |-> 4, maxSize |-> 10,
      parts |-> {<<1>>, <<2>>, <<1, 2>>}, found |-> <<>>, records |-> 5, restarts |-> 1, ticks |-> 0,
      fails |-> 0, shorts |-> 0, prios |-> {}]

\* A directory nobody writes to.
FilesIdle == [S EXCEPT !.parts = {}, !.records = 0, !.restarts = 0]

\* The internal log writes a record at once.
Log == [S EXCEPT !.use = "log", !.parts = {<<1>>, <<2>>, <<3>>}]

\* Traces with indices, with writes that fail and in a directory with a '.', and with times, an internal
\* log with its level, files found at the start that are too large, records as large as a file, and a
\* directory that fails.
MCFilesLimits ==
  {S,
   [S EXCEPT !.parts = {<<1, 0, 2>>, <<2>>}, !.shorts = 2, !.records = 4],
   [S EXCEPT !.dotted = TRUE, !.parts = {<<3>>}],
   [S EXCEPT !.timestamp = TRUE, !.ticks = 2, !.records = 4, !.parts = {<<2>>, <<3>>}],
   [Log EXCEPT !.parts = {<<1>>, <<3>>}, !.restarts = 2, !.prios = {6}],
   [Log EXCEPT !.prios = {3, 6}, !.records = 3, !.shorts = 1, !.found = (0 :> 3 @@ 1 :> 6 @@ 2 :> 4)],
   [S EXCEPT !.found = (1 :> 6 @@ 2 :> 4 @@ 3 :> 2), !.fails = 2, !.records = 4],
   [Log EXCEPT !.maxSize = 3, !.fails = 1, !.records = 3, !.prios = {6}],
   [S EXCEPT !.parts = {<<2>>, <<1, 2, 2>>}, !.records = 4, !.ticks = 1]}
================================================================================
