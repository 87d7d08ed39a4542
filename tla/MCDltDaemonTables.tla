--------------------------- MODULE MCDltDaemonTables ---------------------------
(* Instances of DltDaemonTables for TLC: sets of history shapes.               *)
EXTENDS DltDaemonTables, TLC

CONSTANTS p1, p2, p3

MCIdLength == (1 :> 2) @@ (2 :> 1)
MCLevels == {-1, 5, 6, 9}
MCStatuses == {-1, 1}
MCAppOf == (p1 :> 1) @@ (p2 :> 1) @@ (p3 :> 2)

\* Values: applications that ask for defaults; a level of their own as well; everything; a store.
D == [own |-> {-1}, levels |-> {6}, statuses |-> {-1}, descs |-> {5}]
E == [own |-> {-1}, levels |-> {6}, statuses |-> {-1}, descs |-> {0}]
L == [own |-> {-1, 6}, levels |-> {-1, 5}, statuses |-> {-1}, descs |-> {5}]
V == [own |-> {-1, 6}, levels |-> {-1, 6, 9}, statuses |-> {-1, 1}, descs |-> {0}]
W == [own |-> {-1}, levels |-> {6}, statuses |-> {-1, 1}, descs |-> {0}]
S == [own |-> {-1}, levels |-> {5, 9}, statuses |-> {1}, descs |-> {0, 5}]

Shape(version, force, ps, kinds, v, msgs, reqs, clients, fs, restarts, fulls) ==
  [version |-> version, force |-> force, procs |-> ps, kinds |-> kinds, own |-> v.own, levels |-> v.levels,
   statuses |-> v.statuses, descs |-> v.descs, msgs |-> msgs, reqs |-> reqs,
   clients |-> clients, files |-> fs, restarts |-> restarts, fulls |-> fulls]

\* Two applications and both protocols; an application whose process is replaced, with
\* clients and files that take descriptors; levels that are set while pipes are full; a
\* forced level; an injection into a pipe without reader, whose number a client or a file gets;
\* and a stored configuration.
TablesLimits ==
  {Shape(1, FALSE, {p1, p3}, {}, D, 5, 0, 0, 0, 0, 0),
   Shape(2, FALSE, {p1, p3}, {}, D, 5, 0, 0, 0, 0, 0),
   Shape(2, FALSE, {p1}, {"set_default_trace_status", "set_all_log_level", "set_all_trace_status",
                          "reset_to_factory_default"}, W, 2, 1, 0, 0, 0, 1),
   Shape(2, FALSE, {p1}, {"injection"}, D, 3, 1, 1, 1, 0, 0),
   Shape(1, FALSE, {p1, p2}, {}, D, 3, 0, 1, 1, 0, 0),
   Shape(1, FALSE, {p1, p2}, {}, L, 3, 0, 0, 0, 0, 1),
   Shape(1, FALSE, {p1}, {}, D, 2, 0, 1, 0, 0, 1),
   Shape(1, FALSE, {p1, p3}, {"set_log_level"}, E, 4, 1, 0, 0, 0, 0),
   Shape(1, FALSE, {p1}, {"set_log_level"}, D, 3, 1, 0, 0, 0, 1),
   Shape(1, FALSE, {p1}, {"set_log_level", "set_trace_status"}, V, 2, 1, 0, 0, 0, 1),
   Shape(1, FALSE, {p1}, {"set_default_log_level", "set_default_trace_status", "set_all_log_level",
                          "set_all_trace_status", "reset_to_factory_default"}, V, 2, 2, 0, 0, 0, 1),
   Shape(1, TRUE, {p1}, {"set_log_level", "set_all_log_level"}, V, 2, 1, 0, 0, 0, 0),
   Shape(1, FALSE, {p1, p3}, {"injection"}, D, 3, 1, 1, 1, 0, 0),
   Shape(1, FALSE, {p1}, {"set_log_level", "store_config"}, S, 2, 2, 0, 0, 1, 0)}
================================================================================
