-------------------------------- MODULE DltShm ---------------------------------
(* The transport over shared memory (dlt_shm.c, built with DLT_SHM_ENABLE).     *)
(* Applications copy a message into a ring buffer that all of them and the      *)
(* daemon map, under one named semaphore, and write a header into the daemon's  *)
(* FIFO; for every header the daemon empties the buffer, unless its watchdog or *)
(* a message it cannot read ends that.  The ring buffer itself is DltBuffer:    *)
(* here it is a sequence that a caller reads when it gets the semaphore and     *)
(* replaces before it gives it back.                                            *)
EXTENDS Integers, Sequences, FiniteSets

CONSTANTS Apps,               \* processes that log
          Capacity,           \* messages the shared memory holds
          FifoSize,           \* headers the FIFO holds
          ShmLimits           \* shapes of the histories, see ShmLimit

\* Messages of an application; how often the daemon stops, the daemon crashes, an application
\* ends and a message cannot be read; the applications of version 2, which are the ones that
\* resend, and those that start before the daemon.
ShmLimit == [msgs : Nat, stops : Nat, crashes : Nat, kills : Nat, failures : Nat,
             v2 : SUBSET Apps, early : SUBSET Apps]

Nobody == "nobody"
Daemon == "daemon"

ASSUME ShmAssumption ==
  /\ Capacity \in Nat \ {0} /\ FifoSize \in Nat \ {0}
  /\ Nobody \notin Apps /\ Daemon \notin Apps
  /\ ShmLimits \subseteq ShmLimit

Gens == Nat                   \* a segment and a FIFO exist once for each start of a daemon
Unmapped == 0

VARIABLES segs,               \* segs[g]: messages and holder of the semaphore, g-th segment
          name,               \* the segment the name in /dev/shm leads to, Unmapped if none
          server,             \* the daemon: pc, its generation, what it saw in the buffer
          fifo,               \* headers in the FIFO of the daemon that runs
          apps,               \* the applications
          log,                \* history: pushed and taken out, for each segment
          unread,             \* history: places <<segment, n>> of messages the daemon could not
                              \* read, and of messages it threw away without looking at them
          shmlimit, shmused   \* bounds of this history, and what has been used of them

shmvars == <<segs, name, server, fifo, apps, log, unread, shmlimit, shmused>>

NewSegment == [msgs |-> <<>>, sem |-> Nobody]
NewLog == [pushed |-> <<>>, pulled |-> <<>>]

ShmInit ==
  /\ shmlimit \in ShmLimits
  /\ segs = <<NewSegment>>
  /\ name = 1
  /\ server = [pc |-> "poll", gen |-> 1, seen |-> <<>>, yielded |-> FALSE]
  /\ fifo = 0
  /\ apps = [a \in Apps |-> LET first == IF a \in shmlimit.early THEN Unmapped ELSE 1
                            IN  [pc |-> "idle", gen |-> first, map |-> first, sem |-> TRUE,
                                 resend |-> FALSE, kept |-> <<>>, msg |-> <<a, 0>>, seen |-> <<>>]]
  /\ log = <<NewLog>>
  /\ unread = [failed |-> {}, thrown |-> {}]
  /\ shmused = [stops |-> 0, crashes |-> 0, kills |-> 0, failures |-> 0]

--------------------------------------------------------------------------------
(* An application.                                                             *)

\* dlt_user_log_send_log: the messages that were kept go first, in version 2.  Without a
\* connection nothing is pushed.
SendLog(a) ==
  /\ apps[a].pc = "idle" /\ apps[a].msg[2] < shmlimit.msgs
  /\ LET m == <<a, apps[a].msg[2] + 1>>
         resend == apps[a].kept # <<>> /\ apps[a].gen # Unmapped /\ a \in shmlimit.v2
     IN  apps' = [apps EXCEPT ![a] = [@ EXCEPT
                    !.msg = m, !.resend = resend,
                    !.pc = IF apps[a].gen = Unmapped THEN "idle" ELSE "get",
                    !.kept = IF apps[a].gen = Unmapped THEN Append(apps[a].kept, m) ELSE apps[a].kept]]
  /\ UNCHANGED <<unread, segs, name, server, fifo, log, shmlimit, shmused>>

\* The message a push is about.
Current(a) == IF apps[a].resend THEN Head(apps[a].kept) ELSE apps[a].msg

\* Mutant of DLT_SHM_SEM_GET: the semaphore is not waited for.
GetAtOnce(g, who) == segs' = [segs EXCEPT ![g].sem = who]

DLT_SHM_SEM_GET(g, who) ==
  /\ segs[g].sem = Nobody
  /\ segs' = [segs EXCEPT ![g].sem = who]

\* dlt_shm_push waits for the semaphore, ...
PushGet(a) ==
  /\ apps[a].pc = "get" /\ apps[a].map # Unmapped /\ apps[a].sem
  /\ DLT_SHM_SEM_GET(apps[a].map, a)
  /\ apps' = [apps EXCEPT ![a] = [@ EXCEPT !.pc = "push", !.seen = segs[apps[a].map].msgs]]
  /\ UNCHANGED <<unread, name, server, fifo, log, shmlimit, shmused>>

\* ... copies the message behind those it found, if there is room, and posts.
dlt_shm_push(a) ==
  /\ apps[a].pc = "push"
  /\ LET g == apps[a].map
         fits == Len(apps[a].seen) < Capacity
     IN  /\ segs' = [segs EXCEPT ![g] = [msgs |-> IF fits THEN Append(apps[a].seen, Current(a)) ELSE @.msgs,
                                         sem |-> Nobody]]
         /\ log' = [log EXCEPT ![g].pushed = IF fits THEN Append(@, Current(a)) ELSE @]
  /\ apps' = [apps EXCEPT ![a] = [@ EXCEPT !.pc = "header", !.seen = <<>>]]
  /\ UNCHANGED <<unread, name, server, fifo, shmlimit, shmused>>

\* buf->buffer.mem is NULL: the push is refused, and nobody looks at its result.
PushRefused(a) ==
  /\ apps[a].pc = "get" /\ apps[a].map = Unmapped
  /\ apps' = [apps EXCEPT ![a].pc = "header"]
  /\ UNCHANGED <<unread, segs, name, server, fifo, log, shmlimit, shmused>>

\* buf->sem is NULL, and the memory is the old one: waiting for it ends the process.
PushEnds(a) ==
  /\ apps[a].pc = "get" /\ apps[a].map # Unmapped /\ ~apps[a].sem
  /\ apps' = [apps EXCEPT ![a].pc = "dead"]
  /\ UNCHANGED <<unread, segs, name, server, fifo, log, shmlimit, shmused>>

\* The header is written (dlt_user_log_out3).  A message that was kept is done; others and
\* the new one follow.
HeaderWritten(a) ==
  /\ apps[a].pc = "header"
  /\ server.pc # "down" /\ server.gen = apps[a].gen /\ fifo < FifoSize
  /\ fifo' = fifo + 1
  /\ LET kept == IF apps[a].resend THEN Tail(apps[a].kept) ELSE apps[a].kept
     IN  apps' = [apps EXCEPT ![a] = [@ EXCEPT !.kept = kept, !.resend = (kept # <<>>),
                                            !.pc = IF apps[a].resend THEN "get" ELSE "idle"]]
  /\ UNCHANGED <<unread, segs, name, server, log, shmlimit, shmused>>

\* The FIFO is full: the new message is kept, and one that was kept stays.  Both may be in
\* the shared memory already.
HeaderRefused(a) ==
  /\ apps[a].pc = "header"
  /\ server.pc # "down" /\ server.gen = apps[a].gen /\ fifo = FifoSize
  /\ apps' = [apps EXCEPT ![a] = [@ EXCEPT !.pc = "idle", !.kept = Append(apps[a].kept, apps[a].msg)]]
  /\ UNCHANGED <<unread, segs, name, server, fifo, log, shmlimit, shmused>>

\* The daemon that read this FIFO is gone.  The message is kept and the memory stays mapped; only
\* the resending closes the FIFO.
HeaderFails(a) ==
  /\ apps[a].pc = "header"
  /\ server.pc = "down" \/ server.gen # apps[a].gen
  /\ apps' = [apps EXCEPT ![a] = [@ EXCEPT !.pc = "idle", !.kept = Append(apps[a].kept, apps[a].msg),
                                        !.gen = IF apps[a].resend THEN Unmapped ELSE apps[a].gen]]
  /\ UNCHANGED <<unread, segs, name, server, fifo, log, shmlimit, shmused>>

\* dlt_user_log_reattach_to_daemon: the memory is the one the name leads to.  Where it
\* cannot be mapped, the application logs all the same, with the old memory, if it has any, and
\* without a semaphore.
dlt_shm_init_client(a) ==
  /\ apps[a].pc = "idle" /\ apps[a].gen = Unmapped /\ server.pc # "down"
  /\ \/ /\ name # Unmapped
        /\ apps' = [apps EXCEPT ![a] = [@ EXCEPT !.gen = server.gen, !.map = name, !.sem = TRUE]]
     \/ apps' = [apps EXCEPT ![a] = [@ EXCEPT !.gen = server.gen, !.sem = FALSE]]
  /\ UNCHANGED <<unread, segs, name, server, fifo, log, shmlimit, shmused>>

\* dlt_free: an application ends.
dlt_shm_free_client(a) ==
  /\ apps[a].pc = "idle" /\ shmused.kills < shmlimit.kills
  /\ apps' = [apps EXCEPT ![a] = [@ EXCEPT !.pc = "dead", !.map = Unmapped]]
  /\ shmused' = [shmused EXCEPT !.kills = @ + 1]
  /\ UNCHANGED <<unread, segs, name, server, fifo, log, shmlimit>>

Kill(a) ==
  /\ apps[a].pc # "dead" /\ shmused.kills < shmlimit.kills
  /\ apps' = [apps EXCEPT ![a].pc = "dead"]
  /\ shmused' = [shmused EXCEPT !.kills = @ + 1]
  /\ UNCHANGED <<unread, segs, name, server, fifo, log, shmlimit>>

--------------------------------------------------------------------------------
(* The daemon.                                                                 *)

\* dlt_daemon_process_user_message_log: a header has arrived.
ReadHeader ==
  /\ server.pc = "poll" /\ fifo > 0
  /\ fifo' = fifo - 1
  /\ server' = [server EXCEPT !.pc = "get", !.yielded = FALSE]
  /\ UNCHANGED <<segs, name, apps, log, unread, shmlimit, shmused>>

\* Before every message the watchdog may be due, and ends the loop.
WatchdogYields ==
  /\ server.pc = "get"
  /\ server' = [server EXCEPT !.pc = "poll", !.yielded = TRUE]
  /\ UNCHANGED <<segs, name, fifo, apps, log, unread, shmlimit, shmused>>

ServerGet(from, to) ==
  /\ server.pc = from
  /\ DLT_SHM_SEM_GET(server.gen, Daemon)
  /\ server' = [server EXCEPT !.pc = to, !.seen = segs[server.gen].msgs]
  /\ UNCHANGED <<name, fifo, apps, log, unread, shmlimit, shmused>>

PullGet == ServerGet("get", "pull")
RemoveGet == ServerGet("remove", "removing")

\* The first message leaves the buffer, if there is one, and the semaphore is given back.
TakeFirst ==
  LET g == server.gen
      none == server.seen = <<>>
  IN  /\ segs' = [segs EXCEPT ![g] = [msgs |-> IF none THEN server.seen ELSE Tail(server.seen), sem |-> Nobody]]
      /\ log' = [log EXCEPT ![g].pulled = IF none THEN @ ELSE Append(@, Head(server.seen))]

\* The place of the message that leaves.
Taken == <<server.gen, Len(log[server.gen].pulled) + 1>>

\* Mutant of dlt_shm_pull: one message for each header.
PullOne ==
  /\ server.pc = "pull" /\ TakeFirst
  /\ server' = [server EXCEPT !.pc = "poll", !.seen = <<>>]
  /\ UNCHANGED <<name, fifo, apps, unread, shmlimit, shmused>>

\* It pulls until the buffer is empty.  A message dlt_message_read refuses is lost, and the next one
\* is to be removed.
dlt_shm_pull ==
  /\ server.pc = "pull" /\ TakeFirst
  /\ \/ /\ server' = [server EXCEPT !.pc = IF server.seen = <<>> THEN "poll" ELSE "get", !.seen = <<>>]
        /\ UNCHANGED <<unread, shmused>>
     \/ /\ server.seen # <<>> /\ shmused.failures < shmlimit.failures
        /\ server' = [server EXCEPT !.pc = "remove", !.seen = <<>>]
        /\ unread' = [unread EXCEPT !.failed = @ \cup {Taken}]
        /\ shmused' = [shmused EXCEPT !.failures = @ + 1]
  /\ UNCHANGED <<name, fifo, apps, shmlimit>>

\* The message behind one that could not be read is removed, whatever it is, and the loop ends.
dlt_shm_remove ==
  /\ server.pc = "removing" /\ TakeFirst
  /\ server' = [server EXCEPT !.pc = "poll", !.seen = <<>>, !.yielded = TRUE]
  /\ unread' = [unread EXCEPT !.thrown = IF server.seen = <<>> THEN @ ELSE @ \cup {Taken}]
  /\ UNCHANGED <<name, fifo, apps, shmlimit, shmused>>

\* The end of a daemon removes the names; applications keep what they have mapped.
dlt_shm_free_server ==
  /\ server.pc = "poll" /\ shmused.stops < shmlimit.stops
  /\ server' = [server EXCEPT !.pc = "down"]
  /\ name' = Unmapped /\ fifo' = 0
  /\ shmused' = [shmused EXCEPT !.stops = @ + 1]
  /\ UNCHANGED <<unread, segs, apps, log, shmlimit>>

Crash ==
  /\ server.pc # "down" /\ shmused.crashes < shmlimit.crashes
  /\ server' = [server EXCEPT !.pc = "down", !.seen = <<>>]
  /\ fifo' = 0
  /\ shmused' = [shmused EXCEPT !.crashes = @ + 1]
  /\ UNCHANGED <<unread, segs, name, apps, log, shmlimit>>

\* shm_open(O_CREAT | O_EXCL): the name a crashed daemon has left ends the start.
dlt_shm_init_server ==
  /\ server.pc = "down" /\ name = Unmapped
  /\ segs' = Append(segs, NewSegment)
  /\ log' = Append(log, NewLog)
  /\ name' = Len(segs) + 1
  /\ server' = [pc |-> "poll", gen |-> Len(segs) + 1, seen |-> <<>>, yielded |-> FALSE]
  /\ UNCHANGED <<unread, fifo, apps, shmlimit, shmused>>

HeaderStep(a) == HeaderWritten(a) \/ HeaderRefused(a) \/ HeaderFails(a)

AppStep(a) == PushGet(a) \/ dlt_shm_push(a) \/ PushRefused(a) \/ PushEnds(a) \/ HeaderStep(a)

ServerStep == ReadHeader \/ WatchdogYields \/ PullGet \/ dlt_shm_pull \/ RemoveGet \/ dlt_shm_remove

ShmNext ==
  \/ \E a \in Apps : SendLog(a)
  \/ \E a \in Apps : AppStep(a)
  \/ \E a \in Apps : dlt_shm_init_client(a)
  \/ \E a \in Apps : dlt_shm_free_client(a)
  \/ \E a \in Apps : Kill(a)
  \/ ServerStep
  \/ dlt_shm_free_server
  \/ Crash
  \/ dlt_shm_init_server

ShmSpec == ShmInit /\ [][ShmNext]_shmvars

\* The daemon goes on, and so does an application that has begun to log and was not
\* killed: the semaphore is posted by its holder.
ShmFairness ==
  /\ WF_shmvars(ServerStep)
  /\ \A a \in Apps : WF_shmvars(AppStep(a))

--------------------------------------------------------------------------------
(* Properties.                                                                 *)

Ordered == \A g \in DOMAIN segs : log[g].pulled \o segs[g].msgs = log[g].pushed
OneThrown == \A place \in unread.thrown : <<place[1], place[2] - 1>> \in unread.failed

\* Whatever the order of pushes and pulls, no message in the memory is overwritten, lost or
\* read twice: what was taken out and what is still there is what was pushed, in its order.  The one
\* message the daemon throws away unseen is the one behind a message it could not read
\* (dlt_shm_push, dlt_shm_pull, dlt_shm_remove).
ShmIntact == Ordered /\ OneThrown

\* A process that died while it held the semaphore holds it for ever.
Dead(who) == \/ who = Daemon /\ server.pc = "down"
             \/ who \in Apps /\ apps[who].pc = "dead"
Abandoned(g) == segs[g].sem # Nobody /\ Dead(segs[g].sem)

\* The handling of the last header was ended by the watchdog or by a message that could not be
\* read: what is left waits for the next header, whoever writes it.
LeftBehind == fifo = 0 /\ server.pc = "poll" /\ server.yielded

\* The headers in the FIFO are enough: a daemon that goes on running reads every message in
\* its memory once a header is written, also those whose own header was refused or never
\* written, unless a process died inside or the handling of the last header was cut short
\* (dlt_daemon_process_user_message_log).
ShmRead ==
  \A g \in 1 .. 2 :
    (g = server.gen /\ fifo > 0 /\ segs[g].msgs # <<>>) ~>
      \/ server.pc = "down" \/ server.gen # g
      \/ segs[g].msgs = <<>> \/ Abandoned(g) \/ LeftBehind
================================================================================
