---------------------------- MODULE MCDltGateway ----------------------------
(* Instances of DltGateway for TLC. *)
EXTENDS DltGateway, TLC

Section(e, connect, timeout, control, periodic) ==
  [ip |-> TRUE, ecu |-> <<e>>, connect |-> connect, timeout |-> <<timeout>>,
   control |-> control, periodic |-> periodic]
Ignored == [Section("E9", <<>>, 0, <<>>, <<>>) EXCEPT !.ip = FALSE]

Shape(sections, downs, resets, changes, logs, demands, forwards, others) ==
  [sections |-> sections, apps |-> {"A", "B"}, downs |-> downs, resets |-> resets,
   changes |-> changes, logs |-> logs, demands |-> demands, forwards |-> forwards,
   others |-> others]

Startup == <<"ON_STARTUP">>
Demand == <<"ON_DEMAND">>

\* Losses and retries with and without a timeout; periodic messages of two
\* intervals; changing applications under periodic and forwarded requests;
\* two nodes, whose lists have an invalid id, and other connections; requests on
\* demand; a reset connection.
MCShapes ==
  {Shape(<<Section("E1", Startup, 0, <<3>>, <<>>)>>, 2, FALSE, 0, 1, 0, 0, 2),
   Shape(<<Section("E1", Startup, 2, <<4, 19>>, <<>>)>>, 2, FALSE, 0, 0, 0, 0, 0),
   Shape(<<Section("E1", <<>>, 0, <<3>>, <<<<3, 2>>, <<19, 3>>>>)>>,
         1, FALSE, 0, 0, 0, 0, 0),
   Shape(<<Section("E1", Startup, 0, <<>>, <<<<3, 1>>>>)>>, 0, FALSE, 2, 0, 0, 1, 0),
   Shape(<<Section("E1", Startup, 0, <<4>>, <<<<99, 1>>, <<3, 1>>>>), Ignored,
           Section("E2", <<"never">>, 0, <<99>>, <<>>)>>, 1, FALSE, 0, 1, 0, 0, 1),
   Shape(<<Section("E1", Demand, 0, <<3>>, <<<<3, 1>>>>)>>, 1, FALSE, 0, 0, 2, 0, 0),
   Shape(<<Section("E1", Startup, 0, <<3>>, <<>>)>>, 1, TRUE, 0, 0, 0, 1, 1)}
=============================================================================
