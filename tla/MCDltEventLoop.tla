---------------------------- MODULE MCDltEventLoop -----------------------------
(* Instances of DltEventLoop for TLC: sets of history shapes.                  *)
EXTENDS DltEventLoop, TLC

MCPeers == 1 .. 3
MCFds == 1 .. 7

Kinds(a, b, c) == <<a, b, c>>
S == [kind |-> Kinds("client", "client", "app"), lengths |-> << <<>>, <<>>, <<2>> >>, size |-> 4,
      unsupported |-> {}, short |-> {}, unsafe |-> {}, slow |-> {}, hangups |-> 1, resets |-> 0, ticks |-> 0, fds |-> 7]

\* Clients, applications and control applications that come and go in one round of the loop;
\* clients reset or slow while others are read; messages cut into reads, messages that do not
\* fit or are not known; control messages that are refused; too few descriptors.
LoopLimits ==
  {[S EXCEPT !.hangups = 2],
   [S EXCEPT !.resets = 2, !.hangups = 0, !.ticks = 1],
   [S EXCEPT !.slow = {1}, !.kind = Kinds("client", "control", "app"), !.lengths = << <<2>>, <<2>>, <<2>> >>],
   [S EXCEPT !.kind = Kinds("none", "none", "app"), !.lengths = << <<>>, <<>>, <<3, 2, 3>> >>, !.size = 5],
   [S EXCEPT !.kind = Kinds("none", "client", "app"), !.lengths = << <<>>, <<>>, <<2, 3, 2>> >>,
             !.unsupported = {2}, !.resets = 1, !.hangups = 0],
   [S EXCEPT !.kind = Kinds("client", "none", "control"), !.lengths = << <<3, 2, 5>>, <<>>, <<2, 3>> >>],
   [S EXCEPT !.kind = Kinds("client", "none", "control"), !.lengths = << <<2>>, <<>>, <<2, 2>> >>,
             !.short = {2}, !.hangups = 0],
   [S EXCEPT !.kind = Kinds("client", "none", "control"), !.lengths = << <<2>>, <<>>, <<2, 2>> >>,
             !.unsafe = {1}, !.hangups = 0],
   [S EXCEPT !.kind = Kinds("client", "app", "app"), !.lengths = << <<>>, <<>>, <<>> >>, !.fds = 6],
   [S EXCEPT !.kind = Kinds("app", "app", "control"), !.lengths = << <<>>, <<>>, <<>> >>, !.hangups = 2]}
================================================================================
