--------------------------- MODULE MCDltDaemonClient ---------------------------
(* Instances of DltDaemonClient for TLC: sets of history shapes.               *)
EXTENDS DltDaemonClient

Shape(md, logs, overflows, conns, clients, modes) ==
  [mode |-> md, logs |-> logs, overflows |-> overflows, conns |-> conns,
   clients |-> clients, modes |-> modes]

\* One client at a time with a ring that overflows; several clients; changes of
\* the log mode; internal and external logging together.
ClientLimits ==
  {Shape("EXTERNAL", 4, 1, 2, 2, 0), Shape("EXTERNAL", 2, 0, 3, 3, 0),
   Shape("EXTERNAL", 2, 1, 2, 2, 1), Shape("INTERNAL", 3, 0, 1, 1, 1),
   Shape("BOTH", 3, 0, 2, 2, 0), Shape("OFF", 3, 0, 1, 1, 1)}

SkipLimits == {Shape("EXTERNAL", 1, 0, 2, 2, 0)}
================================================================================
