--------------------------- MODULE MCDltTraceLoad ---------------------------
(* Instances of DltTraceLoad for TLC: a window of three slots of two ticks. *)
EXTENDS DltTraceLoad

CONSTANTS t1, t2         \* threads

MCDaemonDefault == [soft |-> 2, hard |-> 3]
MCClientDefault == [soft |-> 1, hard |-> 2]

Line(ap, ct, soft, hard) == [ap |-> ap, ct |-> ct, soft |-> soft, hard |-> hard]

Base ==
  [lines |-> <<>>, order |-> "soft first", ticks |-> 16, steps |-> {0, 2, 5},
   sizes |-> {2, 5}, levels |-> {"info"}, modulus |-> 100, lag |-> 0,
   warn |-> {3}, messages |-> 6,
   contexts |-> {1}, threads |-> {t1}]

\* The window with the default limits, both orders of the warnings.
Window == {[Base EXCEPT !.order = "hard first", !.messages = 4],
           [Base EXCEPT !.messages = 7, !.steps = {0, 3}, !.sizes = {4}]}

\* A hard limit of 0, debug messages, long pauses.
Zero == {[Base EXCEPT !.lines = <<Line(1, 0, 0, 0)>>, !.levels = {"info", "debug"},
                      !.messages = 3, !.steps = {0, 2, 6}, !.contexts = {1, 2}]}

\* Timestamps that wrap, or that arrive late.
Backward == {[Base EXCEPT !.modulus = 8, !.messages = 4, !.ticks = 12],
             [Base EXCEPT !.lag = 2, !.messages = 3, !.ticks = 10, !.warn = {0, 3}]}

\* Files: lines of two applications, with and without contexts, in any order.
FileLines == {Line(1, 0, 1, 4), Line(1, 1, 2, 5), Line(2, 0, 1, 1),
              Line(1, 1, 0, 6), Line(1, 2, 7, 6)}
Files == {[Base EXCEPT !.lines = f, !.messages = 1, !.ticks = 0,
                       !.levels = {"info"}] :
            f \in UNION {[1 .. n -> FileLines] : n \in 0 .. 4}}

\* Two threads, and settings that arrive while they check.
Threads == {[Base EXCEPT !.messages = 3, !.steps = {0, 2}, !.sizes = {2, 5}, !.ticks = 6, !.threads = {t1, t2}]}

\* A process that logs nothing.
LoadIdle == [Base EXCEPT !.messages = 0, !.ticks = 0]

MCLoadLimits == Window \cup Zero \cup Backward \cup Files \cup Threads
FileLimits == {[Base EXCEPT !.messages = 1, !.ticks = 0]}
=============================================================================
