------------------------------- MODULE MCDltUser -------------------------------
(* Instances of DltUser for TLC: sets of history shapes.                       *)
EXTENDS DltUser

CONSTANTS t1, t2

Shape(proto, threads, up, logs, ctxs, daemons, fills, faulty, exits) ==
  [proto |-> proto, threads |-> threads, up |-> up, logs |-> logs, contexts |-> ctxs,
   daemons |-> daemons, fills |-> fills, faulty |-> faulty, exits |-> exits]

\* Two threads, of which one logs while the other registers the application, and a pipe that
\* is full for a while, in both protocols; one thread, a context and a daemon that restarts;
\* an exit with a daemon that comes late, and with writes that fail.
UserLimits == {Shape(2, {t1, t2}, TRUE, 2, 0, 1, 1, FALSE, 0),
               Shape(1, {t1, t2}, TRUE, 3, 0, 1, 1, FALSE, 0),
               Shape(2, {t1}, TRUE, 2, 1, 2, 0, FALSE, 0),
               Shape(1, {t1}, TRUE, 2, 1, 2, 0, FALSE, 0),
               Shape(2, {t1}, FALSE, 1, 0, 1, 1, TRUE, 1),
               Shape(1, {t1}, FALSE, 2, 0, 1, 0, FALSE, 1)}
================================================================================
