--------------------------- MODULE DltTransportProofs ---------------------------
(* No message in the shared memory is overwritten, lost or read twice, for every  *)
(* number of applications, messages, stops, crashes and kills; the trace load     *)
(* control measures exactly, lets no more through than the limit, and accounts    *)
(* for what it drops, for every window, limit, history and order of the warnings. *)
EXTENDS DltShm, DltTraceLoad, SequenceTheorems, FiniteSetTheorems, WellFoundedInduction, TLAPS

Msg == Apps \X Nat
Segment == [msgs : Seq(Msg), sem : Apps \cup {Nobody, Daemon}]
Log == [pushed : Seq(Msg), pulled : Seq(Msg)]
AppState == [pc : {"idle", "get", "push", "header", "dead"}, gen : Nat, map : Nat, sem : BOOLEAN,
             resend : BOOLEAN, kept : Seq(Msg), msg : Msg, seen : Seq(Msg)]
ServerState(n) == [pc : {"poll", "get", "pull", "remove", "removing", "down"}, gen : 1 .. n, seen : Seq(Msg),
                   yielded : BOOLEAN]
Places == Nat \X Nat

\* Types; whoever maps a segment maps one that exists.
ShmTypeOK ==
  /\ segs \in Seq(Segment) /\ log \in Seq(Log) /\ Len(log) = Len(segs)
  /\ name \in 0 .. Len(segs)
  /\ server \in ServerState(Len(segs))
  /\ unread \in [failed : SUBSET Places, thrown : SUBSET Places]
  /\ apps \in [Apps -> AppState]
  /\ \A a \in Apps : apps[a].map \in 0 .. Len(segs) /\ (apps[a].resend => apps[a].kept # <<>>)

\* An application between sem_wait and sem_post holds the semaphore of the segment it maps, and
\* what it read there is still so.
AppInside ==
  \A a \in Apps : apps[a].pc = "push" =>
    /\ apps[a].map # Unmapped
    /\ segs[apps[a].map].sem = a
    /\ segs[apps[a].map].msgs = apps[a].seen

\* The same of the daemon, which uses the segment it created.
ServerInside ==
  server.pc \in {"pull", "removing"} =>
    /\ segs[server.gen].sem = Daemon
    /\ segs[server.gen].msgs = server.seen

\* When it is about to remove a message, the last one it took out could not be read.
RemovesBehind ==
  server.pc \in {"remove", "removing"} => <<server.gen, Len(log[server.gen].pulled)>> \in unread.failed

\* ShmIntact is not inductive: a push or a pull replaces the segment by what it read before, which
\* is right only because nobody else was inside since.
ShmInv == ShmTypeOK /\ AppInside /\ ServerInside /\ RemovesBehind /\ Ordered /\ OneThrown

--------------------------------------------------------------------------------
(* Sequences *)

\* A pushed message comes behind everything that was pushed before.
LEMMA PushKeepsOrder ==
  ASSUME NEW S, NEW s \in Seq(S), NEW t \in Seq(S), NEW m \in S
  PROVE  s \o Append(t, m) = Append(s \o t, m)
  OBVIOUS

\* Moving the head of t to the end of s does not change s \o t.
LEMMA PullKeepsOrder ==
  ASSUME NEW S, NEW s \in Seq(S), NEW t \in Seq(S), t # <<>>
  PROVE  Append(s, Head(t)) \o Tail(t) = s \o t
  OBVIOUS

LEMMA InitShmInv == ShmInit => ShmInv
  <1> SUFFICES ASSUME ShmInit PROVE ShmInv
    OBVIOUS
  <1>1. NewSegment \in Segment /\ NewLog \in Log
    BY DEF NewSegment, NewLog, Segment, Log
  <1>2. ShmTypeOK
    <2>1. server \in ServerState(1) /\ unread \in [failed : SUBSET Places, thrown : SUBSET Places]
      BY DEF ShmInit, ServerState
    <2>2. segs = <<NewSegment>> /\ log = <<NewLog>> /\ Len(segs) = 1 /\ name = 1
      BY DEF ShmInit
    <2>3. segs \in Seq(Segment) /\ log \in Seq(Log) /\ Len(log) = 1
      BY <1>1, <2>2
    <2>4. ASSUME NEW a \in Apps
          PROVE  apps[a] \in AppState /\ apps[a].map \in 0 .. 1 /\ apps[a].resend = FALSE
      BY DEF ShmInit, AppState, Msg, Unmapped
    <2>5. apps \in [Apps -> AppState]
      BY <2>4 DEF ShmInit
    <2>6. \A a \in Apps : apps[a].map \in 0 .. Len(segs) /\ (apps[a].resend => apps[a].kept # <<>>)
      BY <2>2, <2>4
    <2> QED BY <2>1, <2>2, <2>3, <2>5, <2>6 DEF ShmTypeOK
  <1>3. segs[1] = NewSegment /\ log[1] = NewLog /\ DOMAIN segs = {1}
    BY DEF ShmInit
  <1>4. Ordered /\ OneThrown
    <2>1. log[1].pulled \o segs[1].msgs = <<>> \o <<>>
      BY <1>3 DEF NewSegment, NewLog
    <2>2. log[1].pushed = <<>> /\ <<>> \o <<>> = <<>>
      BY <1>3 DEF NewLog
    <2>3. Ordered
      BY <1>3, <2>1, <2>2 DEF Ordered
    <2>4. OneThrown
      BY DEF ShmInit, OneThrown
    <2> QED BY <2>3, <2>4
  <1>5. AppInside /\ ServerInside /\ RemovesBehind
    BY DEF ShmInit, AppInside, ServerInside, RemovesBehind
  <1> QED BY <1>2, <1>4, <1>5 DEF ShmInv

--------------------------------------------------------------------------------
(* Steps *)

\* What the type of the state says of its parts.
LEMMA Parts ==
  ASSUME ShmTypeOK
  PROVE  /\ \A g \in DOMAIN segs :
              /\ g \in DOMAIN log /\ g \in Nat \ {0}
              /\ segs[g].msgs \in Seq(Msg) /\ segs[g] \in Segment /\ log[g] \in Log
              /\ log[g].pushed \in Seq(Msg) /\ log[g].pulled \in Seq(Msg)
         /\ DOMAIN log = DOMAIN segs
         /\ \A a \in Apps : apps[a] \in AppState /\ Current(a) \in Msg
         /\ \A a \in Apps : apps[a].map # Unmapped => apps[a].map \in DOMAIN segs
         /\ server.gen \in DOMAIN segs
<1>1. ASSUME NEW a \in Apps PROVE apps[a] \in AppState /\ Current(a) \in Msg
  <2>1. apps[a] \in AppState /\ (apps[a].resend => apps[a].kept # <<>>)
    BY DEF ShmTypeOK
  <2>2. apps[a].kept \in Seq(Msg) /\ apps[a].msg \in Msg
    BY <2>1 DEF AppState
  <2>3. apps[a].kept # <<>> => Head(apps[a].kept) \in Msg
    BY <2>2
  <2> QED BY <2>1, <2>2, <2>3 DEF Current
<1>2. ASSUME NEW g \in DOMAIN segs
      PROVE  /\ g \in DOMAIN log /\ g \in Nat \ {0}
             /\ segs[g].msgs \in Seq(Msg) /\ segs[g] \in Segment /\ log[g] \in Log
             /\ log[g].pushed \in Seq(Msg) /\ log[g].pulled \in Seq(Msg)
  <2>1. /\ segs \in Seq(Segment) /\ log \in Seq(Log) /\ Len(log) = Len(segs)
    BY DEF ShmTypeOK
  <2>2. g \in 1 .. Len(segs) /\ g \in 1 .. Len(log) /\ DOMAIN log = 1 .. Len(log) /\ Len(segs) \in Nat
    BY <2>1
  <2>3. segs[g] \in Segment /\ log[g] \in Log
    BY <2>1, <2>2
  <2> QED BY <2>2, <2>3 DEF Segment, Log
<1>3. DOMAIN log = DOMAIN segs /\ server.gen \in DOMAIN segs
  BY DEF ShmTypeOK, ServerState
<1>4. \A a \in Apps : apps[a].map # Unmapped => apps[a].map \in DOMAIN segs
  <2>1. DOMAIN segs = 1 .. Len(segs) /\ Len(segs) \in Nat
    BY DEF ShmTypeOK
  <2>2. \A a \in Apps : apps[a].map \in 0 .. Len(segs)
    BY DEF ShmTypeOK
  <2> QED BY <2>1, <2>2 DEF Unmapped
<1> QED BY <1>1, <1>2, <1>3, <1>4

\* An application outside of the semaphore may be in any such state.
Outside(x) == /\ x \in AppState /\ x.pc # "push" /\ x.map \in 0 .. Len(segs)
              /\ x.resend => x.kept # <<>>

\* What the types say of an application.
AppOK(a) ==
  /\ apps[a].pc \in {"idle", "get", "push", "header", "dead"}
  /\ apps[a].gen \in Nat /\ apps[a].map \in 0 .. Len(segs) /\ Len(segs) \in Nat
  /\ apps[a].sem \in BOOLEAN /\ apps[a].resend \in BOOLEAN /\ apps[a].kept \in Seq(Msg)
  /\ apps[a].msg \in Msg /\ apps[a].seen \in Seq(Msg)
  /\ apps[a].resend => apps[a].kept # <<>>
  /\ apps \in [Apps -> AppState] /\ apps[a] \in AppState
  /\ name \in 0 .. Len(segs) /\ server.gen \in Nat

LEMMA AppFacts ==
  ASSUME ShmTypeOK, NEW a \in Apps
  PROVE  AppOK(a)
<1>1. apps[a] \in AppState /\ apps \in [Apps -> AppState] /\ apps[a].map \in 0 .. Len(segs)
  BY DEF ShmTypeOK
<1>2. name \in 0 .. Len(segs) /\ server.gen \in Nat /\ Len(segs) \in Nat /\ (apps[a].resend => apps[a].kept # <<>>)
  BY DEF ShmTypeOK, ServerState
<1> QED BY <1>1, <1>2 DEF AppState, AppOK

\* A step of an application that is outside before and after it.
LEMMA OutsideStep ==
  ASSUME ShmInv, UNCHANGED <<segs, log, name, server, unread>>,
         NEW a \in Apps, NEW x, Outside(x), apps' = [apps EXCEPT ![a] = x]
  PROVE  ShmInv'
<1>1. ShmTypeOK'
  BY DEF ShmTypeOK, Outside, ShmInv
<1>2. AppInside'
  BY DEF ShmTypeOK, AppInside, Outside, ShmInv
<1> QED BY <1>1, <1>2 DEF ServerInside, RemovesBehind, Ordered, OneThrown, ShmInv

LEMMA SendLogStep == ASSUME ShmInv, NEW a \in Apps, SendLog(a) PROVE ShmInv'
<1>0. AppOK(a)
  BY AppFacts DEF ShmInv
<1> DEFINE m == <<a, apps[a].msg[2] + 1>>
           resend == apps[a].kept # <<>> /\ apps[a].gen # Unmapped /\ a \in shmlimit.v2
           pc == IF apps[a].gen = Unmapped THEN "idle" ELSE "get"
           held == IF apps[a].gen = Unmapped THEN Append(apps[a].kept, m) ELSE apps[a].kept
           x == [apps[a] EXCEPT !.msg = m, !.resend = resend, !.pc = pc, !.kept = held]
<1>1. apps' = [apps EXCEPT ![a] = x] /\ UNCHANGED <<segs, log, name, server, unread>>
  BY DEF SendLog
<1>2. m \in Msg /\ pc \in {"idle", "get"} /\ resend \in BOOLEAN
  BY <1>0 DEF AppOK, Msg
<1>3. held \in Seq(Msg) /\ (resend => held # <<>>)
  BY <1>0, <1>2 DEF AppOK
<1> HIDE DEF m, resend, pc, held
<1>4. x \in AppState
  BY <1>0, <1>2, <1>3 DEF AppOK, AppState
<1>5. x.pc # "push" /\ x.map \in 0 .. Len(segs) /\ (x.resend => x.kept # <<>>)
  BY <1>0, <1>2, <1>3 DEF AppOK, AppState
<1> QED BY <1>1, <1>4, <1>5, OutsideStep DEF Outside

LEMMA HeaderWrittenStep == ASSUME ShmInv, NEW a \in Apps, HeaderWritten(a) PROVE ShmInv'
<1>0. AppOK(a)
  BY AppFacts DEF ShmInv
<1> DEFINE rest == IF apps[a].resend THEN Tail(apps[a].kept) ELSE apps[a].kept
           x == [apps[a] EXCEPT !.kept = rest, !.resend = (rest # <<>>),
                                !.pc = IF apps[a].resend THEN "get" ELSE "idle"]
<1>1. apps' = [apps EXCEPT ![a] = x] /\ UNCHANGED <<segs, log, name, server, unread>>
  BY DEF HeaderWritten
<1>2. rest \in Seq(Msg)
  BY <1>0 DEF AppOK
<1> HIDE DEF rest
<1>3. Outside(x)
  BY <1>0, <1>2 DEF AppOK, Outside, AppState
<1> QED BY <1>1, <1>3, OutsideStep

LEMMA HeaderRefusedStep == ASSUME ShmInv, NEW a \in Apps, HeaderRefused(a) PROVE ShmInv'
<1>0. AppOK(a)
  BY AppFacts DEF ShmInv
<1> DEFINE more == Append(apps[a].kept, apps[a].msg)
           x == [apps[a] EXCEPT !.pc = "idle", !.kept = more]
<1>1. apps' = [apps EXCEPT ![a] = x] /\ UNCHANGED <<segs, log, name, server, unread>>
  BY DEF HeaderRefused
<1>2. more \in Seq(Msg) /\ more # <<>>
  BY <1>0 DEF AppOK
<1> HIDE DEF more
<1>3. Outside(x)
  BY <1>0, <1>2 DEF AppOK, Outside, AppState
<1> QED BY <1>1, <1>3, OutsideStep

LEMMA HeaderFailsStep == ASSUME ShmInv, NEW a \in Apps, HeaderFails(a) PROVE ShmInv'
<1>0. AppOK(a)
  BY AppFacts DEF ShmInv
<1> DEFINE more == Append(apps[a].kept, apps[a].msg)
           gen == IF apps[a].resend THEN Unmapped ELSE apps[a].gen
           x == [apps[a] EXCEPT !.pc = "idle", !.kept = more, !.gen = gen]
<1>1. apps' = [apps EXCEPT ![a] = x] /\ UNCHANGED <<segs, log, name, server, unread>>
  BY DEF HeaderFails
<1>2. more \in Seq(Msg) /\ more # <<>> /\ gen \in Nat
  BY <1>0 DEF AppOK, Unmapped
<1> HIDE DEF more, gen
<1>3. Outside(x)
  BY <1>0, <1>2 DEF AppOK, Outside, AppState
<1> QED BY <1>1, <1>3, OutsideStep

LEMMA FreeClientStep == ASSUME ShmInv, NEW a \in Apps, dlt_shm_free_client(a) PROVE ShmInv'
<1>0. AppOK(a)
  BY AppFacts DEF ShmInv
<1> DEFINE x == [apps[a] EXCEPT !.pc = "dead", !.map = Unmapped]
<1>1. apps' = [apps EXCEPT ![a] = x] /\ UNCHANGED <<segs, log, name, server, unread>>
  BY DEF dlt_shm_free_client
<1>2. x \in AppState
  BY <1>0 DEF AppOK, AppState, Unmapped
<1>3. x.pc # "push" /\ x.map \in 0 .. Len(segs) /\ (x.resend => x.kept # <<>>)
  BY <1>0 DEF AppOK, AppState, Unmapped
<1> QED BY <1>1, <1>2, <1>3, OutsideStep DEF Outside

LEMMA InitClientStep == ASSUME ShmInv, NEW a \in Apps, dlt_shm_init_client(a) PROVE ShmInv'
<1>0. AppOK(a)
  BY AppFacts DEF ShmInv
<1>1. PICK seg \in {name, apps[a].map}, sem \in BOOLEAN :
        apps' = [apps EXCEPT ![a] = [apps[a] EXCEPT !.gen = server.gen, !.map = seg, !.sem = sem]]
  <2>1. CASE apps' = [apps EXCEPT ![a] = [@ EXCEPT !.gen = server.gen, !.map = name, !.sem = TRUE]]
    BY <2>1
  <2>2. CASE apps' = [apps EXCEPT ![a] = [@ EXCEPT !.gen = server.gen, !.sem = FALSE]]
    <3> DEFINE same == apps[a].map
               gen == server.gen
    <3>1. [apps[a] EXCEPT !.gen = gen, !.sem = FALSE] = [apps[a] EXCEPT !.gen = gen, !.map = same, !.sem = FALSE]
      BY <1>0 DEF AppOK, AppState
    <3> QED BY <2>2, <3>1
  <2> QED BY <2>1, <2>2 DEF dlt_shm_init_client
<1> DEFINE gen == server.gen
           x == [apps[a] EXCEPT !.gen = gen, !.map = seg, !.sem = sem]
<1>2. apps' = [apps EXCEPT ![a] = x] /\ UNCHANGED <<segs, log, name, server, unread>> /\ apps[a].pc = "idle"
  BY <1>1 DEF dlt_shm_init_client
<1>3. gen \in Nat /\ seg \in Nat /\ seg \in 0 .. Len(segs)
  BY <1>0 DEF AppOK
<1> HIDE DEF gen
<1>4. x \in AppState
  BY <1>0, <1>3 DEF AppOK, AppState
<1>5. x.pc # "push" /\ x.map \in 0 .. Len(segs) /\ (x.resend => x.kept # <<>>)
  BY <1>0, <1>2, <1>3 DEF AppOK, AppState
<1> QED BY <1>2, <1>4, <1>5, OutsideStep DEF Outside

LEMMA PushEndsStep == ASSUME ShmInv, NEW a \in Apps, PushEnds(a) PROVE ShmInv'
<1>0. AppOK(a)
  BY AppFacts DEF ShmInv
<1>1. apps' = [apps EXCEPT ![a] = [apps[a] EXCEPT !.pc = "dead"]] /\ UNCHANGED <<segs, log, name, server, unread>>
  BY DEF PushEnds
<1>2. Outside([apps[a] EXCEPT !.pc = "dead"])
  BY <1>0 DEF AppOK, Outside, AppState
<1> QED BY <1>1, <1>2, OutsideStep

LEMMA PushRefusedStep == ASSUME ShmInv, NEW a \in Apps, PushRefused(a) PROVE ShmInv'
<1>0. AppOK(a)
  BY AppFacts DEF ShmInv
<1>1. apps' = [apps EXCEPT ![a] = [apps[a] EXCEPT !.pc = "header"]] /\ UNCHANGED <<segs, log, name, server, unread>>
  BY DEF PushRefused
<1>2. Outside([apps[a] EXCEPT !.pc = "header"])
  BY <1>0 DEF AppOK, Outside, AppState
<1> QED BY <1>1, <1>2, OutsideStep

LEMMA KillStep == ASSUME ShmInv, NEW a \in Apps, Kill(a) PROVE ShmInv'
<1>0. AppOK(a)
  BY AppFacts DEF ShmInv
<1>1. apps' = [apps EXCEPT ![a] = [apps[a] EXCEPT !.pc = "dead"]] /\ UNCHANGED <<segs, log, name, server, unread>>
  BY DEF Kill
<1>2. Outside([apps[a] EXCEPT !.pc = "dead"])
  BY <1>0 DEF AppOK, Outside, AppState
<1> QED BY <1>1, <1>2, OutsideStep

\* An application gets the semaphore: nobody was inside.
LEMMA PushGetStep == ASSUME ShmInv, NEW a \in Apps, PushGet(a) PROVE ShmInv'
<1>0. AppOK(a)
  BY AppFacts DEF ShmInv
<1> DEFINE g == apps[a].map
           seen == segs[g].msgs
           x == [apps[a] EXCEPT !.pc = "push", !.seen = seen]
           y == [segs[g] EXCEPT !.sem = a]
<1>1. /\ apps' = [apps EXCEPT ![a] = x] /\ segs' = [segs EXCEPT ![g] = y]
      /\ UNCHANGED <<log, name, server, unread>> /\ g # Unmapped /\ segs[g].sem = Nobody
  BY DEF PushGet, DLT_SHM_SEM_GET
<1>2. g \in DOMAIN segs /\ segs[g] \in Segment /\ seen \in Seq(Msg)
  BY <1>1, Parts DEF ShmInv
<1>3. y \in Segment /\ y.sem = a /\ y.msgs = seen
  BY <1>2 DEF Segment
<1>4. x \in AppState /\ x.seen = seen /\ x.map = g /\ x.pc = "push" /\ (x.resend => x.kept # <<>>)
  BY <1>0, <1>2 DEF AppOK, AppState
<1> HIDE DEF x, y, seen, g
<1>5. segs' \in Seq(Segment) /\ Len(segs') = Len(segs) /\ DOMAIN segs' = DOMAIN segs
  BY <1>1, <1>2, <1>3 DEF ShmInv, ShmTypeOK
<1>6. segs'[g] = y /\ \A h \in DOMAIN segs : h # g => segs'[h] = segs[h]
  BY <1>1, <1>2 DEF ShmInv, ShmTypeOK
<1>7. apps'[a] = x /\ \A b \in Apps : b # a => apps'[b] = apps[b]
  BY <1>1, <1>0 DEF AppOK
<1>8. ShmTypeOK'
  BY <1>0, <1>1, <1>4, <1>5, <1>7 DEF ShmInv, ShmTypeOK, AppOK, g
<1>9. AppInside'
  <2> SUFFICES ASSUME NEW b \in Apps, apps'[b].pc = "push"
               PROVE  apps'[b].map # Unmapped /\ segs'[apps'[b].map].sem = b /\ segs'[apps'[b].map].msgs = apps'[b].seen
    BY DEF AppInside
  <2>1. CASE b = a
    BY <2>1, <1>1, <1>3, <1>4, <1>6, <1>7
  <2>2. CASE b # a
    <3>1. apps'[b] = apps[b] /\ apps[b].map # Unmapped /\ segs[apps[b].map].sem = b /\ segs[apps[b].map].msgs = apps[b].seen
      BY <2>2, <1>7 DEF ShmInv, AppInside
    <3>2. apps[b].map # g /\ apps[b].map \in DOMAIN segs
      BY <3>1, <1>1, ShmAssumption, Parts DEF ShmInv
    <3> QED BY <3>1, <3>2, <1>6
  <2> QED BY <2>1, <2>2
<1>10. ServerInside'
  <2>1. server.pc \in {"pull", "removing"} => server.gen # g
    BY <1>1 DEF ShmInv, ServerInside, Nobody, Daemon
  <2>2. server.gen \in DOMAIN segs
    BY Parts DEF ShmInv
  <2> QED BY <2>1, <2>2, <1>1, <1>6 DEF ShmInv, ServerInside
<1>11. Ordered'
  BY <1>1, <1>3, <1>5, <1>6 DEF ShmInv, Ordered, seen
<1>12. RemovesBehind' /\ OneThrown'
  BY <1>1 DEF ShmInv, RemovesBehind, OneThrown
<1> QED BY <1>8, <1>9, <1>10, <1>11, <1>12 DEF ShmInv

\* The holder of the semaphore of g replaces the segment and gives the semaphore back; nobody else
\* is inside.
LEMMA ReplaceSegment ==
  ASSUME ShmInv, NEW g \in DOMAIN segs, NEW y \in Segment, NEW l \in Log,
         segs' = [segs EXCEPT ![g] = y], log' = [log EXCEPT ![g] = l], l.pulled \o y.msgs = l.pushed
  PROVE  /\ segs' \in Seq(Segment) /\ log' \in Seq(Log)
         /\ Len(segs') = Len(segs) /\ Len(log') = Len(segs) /\ DOMAIN segs' = DOMAIN segs
         /\ segs'[g] = y /\ log'[g] = l
         /\ \A h \in DOMAIN segs : h # g => segs'[h] = segs[h]
         /\ Ordered'
<1>1. segs \in Seq(Segment) /\ log \in Seq(Log) /\ Len(log) = Len(segs) /\ DOMAIN log = DOMAIN segs
  BY Parts DEF ShmInv, ShmTypeOK
<1>2. segs' \in Seq(Segment) /\ Len(segs') = Len(segs) /\ DOMAIN segs' = DOMAIN segs
  BY <1>1
<1>3. log' \in Seq(Log) /\ Len(log') = Len(log)
  BY <1>1
<1>4. segs'[g] = y /\ log'[g] = l /\ \A h \in DOMAIN segs : h # g => segs'[h] = segs[h] /\ log'[h] = log[h]
  BY <1>1
<1>5. Ordered'
  BY <1>2, <1>4 DEF ShmInv, Ordered
<1> QED BY <1>1, <1>2, <1>3, <1>4, <1>5

LEMMA PushStep == ASSUME ShmInv, NEW a \in Apps, dlt_shm_push(a) PROVE ShmInv'
<1>0. AppOK(a) /\ Current(a) \in Msg
  BY AppFacts, Parts DEF ShmInv
<1> DEFINE g == apps[a].map
           fits == Len(apps[a].seen) < Capacity
           empty == <<>>
           x == [apps[a] EXCEPT !.pc = "header", !.seen = empty]
           msgs == IF fits THEN Append(apps[a].seen, Current(a)) ELSE segs[g].msgs
           pushed == IF fits THEN Append(log[g].pushed, Current(a)) ELSE log[g].pushed
           y == [msgs |-> msgs, sem |-> Nobody]
           l == [log[g] EXCEPT !.pushed = pushed]
<1>1. /\ apps' = [apps EXCEPT ![a] = x] /\ segs' = [segs EXCEPT ![g] = y] /\ log' = [log EXCEPT ![g] = l]
      /\ UNCHANGED <<name, server, unread>> /\ apps[a].pc = "push"
  BY DEF dlt_shm_push
<1>2. g # Unmapped /\ segs[g].sem = a /\ segs[g].msgs = apps[a].seen
  BY <1>1 DEF ShmInv, AppInside
<1>3. /\ g \in DOMAIN segs /\ log[g] \in Log /\ segs[g].msgs \in Seq(Msg)
      /\ log[g].pushed \in Seq(Msg) /\ log[g].pulled \in Seq(Msg)
      /\ log[g].pulled \o segs[g].msgs = log[g].pushed
  BY <1>2, Parts DEF ShmInv, Ordered
<1>4. msgs \in Seq(Msg) /\ pushed \in Seq(Msg) /\ log[g].pulled \o msgs = pushed
  <2>1. apps[a].seen \in Seq(Msg)
    BY <1>2, <1>3
  <2>2. CASE fits
    <3>1. Append(apps[a].seen, Current(a)) \in Seq(Msg) /\ Append(log[g].pushed, Current(a)) \in Seq(Msg)
      BY <2>1, <1>0, <1>3
    <3>2. log[g].pulled \o Append(apps[a].seen, Current(a)) = Append(log[g].pulled \o apps[a].seen, Current(a))
      <4>1. \A s, t \in Seq(Msg), m \in Msg : s \o Append(t, m) = Append(s \o t, m)
        BY PushKeepsOrder
      <4> HIDE DEF g
      <4> QED BY <4>1, <2>1, <1>0, <1>3
    <3> QED BY <2>2, <3>1, <3>2, <1>2, <1>3
  <2>3. CASE ~fits
    BY <2>3, <1>3
  <2> QED BY <2>2, <2>3
<1> HIDE DEF msgs, pushed
<1>5. y \in Segment /\ y.msgs = msgs
  BY <1>4 DEF Segment
<1>6. l \in Log /\ l.pulled = log[g].pulled /\ l.pushed = pushed
  BY <1>3, <1>4 DEF Log
<1>7. x \in AppState /\ x.map = g /\ x.pc = "header" /\ (x.resend => x.kept # <<>>)
  <2>0. empty \in Seq(Msg)
    OBVIOUS
  <2> HIDE DEF empty
  <2>1. x \in AppState
    BY <1>0, <2>0 DEF AppOK, AppState
  <2>2. x.map = g /\ x.pc = "header" /\ x.resend = apps[a].resend /\ x.kept = apps[a].kept
    BY <1>0 DEF AppOK, AppState
  <2> QED BY <2>1, <2>2, <1>0 DEF AppOK
<1> HIDE DEF x, y, l, g
<1>8. /\ segs' \in Seq(Segment) /\ log' \in Seq(Log)
      /\ Len(segs') = Len(segs) /\ Len(log') = Len(segs) /\ DOMAIN segs' = DOMAIN segs
      /\ log'[g] = l /\ \A h \in DOMAIN segs : h # g => segs'[h] = segs[h]
      /\ Ordered'
  BY <1>1, <1>3, <1>4, <1>5, <1>6, ReplaceSegment
<1>9. apps'[a] = x /\ \A b \in Apps : b # a => apps'[b] = apps[b]
  BY <1>1, <1>0 DEF AppOK
<1>10. ShmTypeOK'
  BY <1>0, <1>1, <1>7, <1>8, <1>9 DEF ShmInv, ShmTypeOK, AppOK, g
<1>11. AppInside'
  <2> SUFFICES ASSUME NEW b \in Apps, apps'[b].pc = "push"
               PROVE  apps'[b].map # Unmapped /\ segs'[apps'[b].map].sem = b /\ segs'[apps'[b].map].msgs = apps'[b].seen
    BY DEF AppInside
  <2>1. b # a
    BY <1>7, <1>9
  <2>2. apps'[b] = apps[b] /\ apps[b].map # Unmapped /\ segs[apps[b].map].sem = b /\ segs[apps[b].map].msgs = apps[b].seen
    BY <2>1, <1>9 DEF ShmInv, AppInside
  <2>3. apps[b].map # g /\ apps[b].map \in DOMAIN segs
    BY <2>1, <2>2, <1>2, Parts DEF ShmInv, g
  <2> QED BY <2>2, <2>3, <1>8
<1>12. ServerInside'
  <2>1. server.pc \in {"pull", "removing"} => server.gen # g
    BY <1>2, ShmAssumption DEF ShmInv, ServerInside, g
  <2>2. server.gen \in DOMAIN segs
    BY Parts DEF ShmInv
  <2> QED BY <2>1, <2>2, <1>1, <1>8 DEF ShmInv, ServerInside
<1>13. RemovesBehind' /\ OneThrown'
  <2>1. log'[server.gen].pulled = log[server.gen].pulled
    <3>1. server.gen \in DOMAIN log /\ log \in Seq(Log)
      BY Parts DEF ShmInv, ShmTypeOK
    <3>2. CASE server.gen = g
      BY <3>2, <1>6, <1>8
    <3>3. CASE server.gen # g
      BY <3>1, <3>3, <1>1
    <3> QED BY <3>2, <3>3
  <2> QED BY <1>1, <2>1 DEF ShmInv, RemovesBehind, OneThrown
<1> QED BY <1>8, <1>10, <1>11, <1>12, <1>13 DEF ShmInv

\* The daemon gets the semaphore, to pull or to remove.
LEMMA ServerGetStep ==
  ASSUME ShmInv, NEW from, NEW to, <<from, to>> \in {<<"get", "pull">>, <<"remove", "removing">>}, ServerGet(from, to)
  PROVE  ShmInv'
<1> DEFINE g == server.gen
           seen == segs[g].msgs
           y == [segs[g] EXCEPT !.sem = Daemon]
<1>1. /\ server' = [server EXCEPT !.pc = to, !.seen = seen] /\ segs' = [segs EXCEPT ![g] = y]
      /\ UNCHANGED <<log, name, apps, unread>> /\ segs[g].sem = Nobody /\ server.pc = from
  BY DEF ServerGet, DLT_SHM_SEM_GET
<1>2. g \in DOMAIN segs /\ segs[g] \in Segment /\ seen \in Seq(Msg) /\ log[g] \in Log
  BY Parts DEF ShmInv
<1>3. y \in Segment /\ y.sem = Daemon /\ y.msgs = seen
  BY <1>2 DEF Segment
<1>4. log' = [log EXCEPT ![g] = log[g]] /\ log[g].pulled \o y.msgs = log[g].pushed
  <2>1. log \in Seq(Log) /\ log' = log
    BY <1>1 DEF ShmInv, ShmTypeOK
  <2>2. log' = [log EXCEPT ![g] = log[g]]
    BY <2>1
  <2>3. log[g].pulled \o seen = log[g].pushed
    BY <1>2 DEF ShmInv, Ordered
  <2> QED BY <2>2, <2>3, <1>3
<1>5. /\ server'.pc = to /\ server'.gen = g /\ server'.seen = seen
      /\ server' \in ServerState(Len(segs))
  <2>1. server \in ServerState(Len(segs)) /\ to \in {"pull", "removing"}
    BY DEF ShmInv, ShmTypeOK
  <2> HIDE DEF seen
  <2> QED BY <1>1, <1>2, <2>1 DEF ServerState
<1> HIDE DEF y, seen, g
<1>6. /\ segs' \in Seq(Segment) /\ log' \in Seq(Log)
      /\ Len(segs') = Len(segs) /\ Len(log') = Len(segs) /\ DOMAIN segs' = DOMAIN segs
      /\ segs'[g] = y /\ \A h \in DOMAIN segs : h # g => segs'[h] = segs[h]
      /\ Ordered'
  BY <1>1, <1>2, <1>3, <1>4, ReplaceSegment
<1>7. ShmTypeOK'
  BY <1>1, <1>5, <1>6 DEF ShmInv, ShmTypeOK
<1>8. AppInside'
  <2> SUFFICES ASSUME NEW b \in Apps, apps[b].pc = "push"
               PROVE  apps[b].map # Unmapped /\ segs'[apps[b].map].sem = b /\ segs'[apps[b].map].msgs = apps[b].seen
    BY <1>1 DEF AppInside
  <2>1. apps[b].map # Unmapped /\ segs[apps[b].map].sem = b /\ segs[apps[b].map].msgs = apps[b].seen
    BY DEF ShmInv, AppInside
  <2>2. apps[b].map # g /\ apps[b].map \in DOMAIN segs
    BY <2>1, <1>1, ShmAssumption, Parts DEF ShmInv
  <2> QED BY <2>1, <2>2, <1>6
<1>9. ServerInside'
  BY <1>3, <1>5, <1>6 DEF ServerInside
<1>10. RemovesBehind' /\ OneThrown'
  BY <1>1, <1>5 DEF ShmInv, RemovesBehind, OneThrown, g
<1> QED BY <1>6, <1>7, <1>8, <1>9, <1>10 DEF ShmInv

\* The first message is taken out, if there is one, and the semaphore is given back.
LEMMA TakeFirstStep ==
  ASSUME ShmInv, server.pc \in {"pull", "removing"}, TakeFirst, UNCHANGED <<name, apps>>,
         server' \in ServerState(Len(segs)), server'.pc \in {"poll", "get", "remove"}, server'.gen = server.gen,
         unread' \in [failed : SUBSET Places, thrown : SUBSET Places]
  PROVE  /\ ShmTypeOK' /\ AppInside' /\ ServerInside' /\ Ordered'
         /\ server.seen # <<>> => Len(log'[server.gen].pulled) = Len(log[server.gen].pulled) + 1
<1> DEFINE g == server.gen
           none == server.seen = <<>>
           msgs == IF none THEN server.seen ELSE Tail(server.seen)
           pulled == IF none THEN log[g].pulled ELSE Append(log[g].pulled, Head(server.seen))
           y == [msgs |-> msgs, sem |-> Nobody]
           l == [log[g] EXCEPT !.pulled = pulled]
<1>1. segs[g].sem = Daemon /\ segs[g].msgs = server.seen
  BY DEF ShmInv, ServerInside
<1>2. /\ g \in DOMAIN segs /\ segs[g] \in Segment /\ log[g] \in Log /\ segs[g].msgs \in Seq(Msg)
      /\ log[g].pushed \in Seq(Msg) /\ log[g].pulled \in Seq(Msg)
      /\ log[g].pulled \o segs[g].msgs = log[g].pushed
      /\ log \in Seq(Log) /\ DOMAIN log = DOMAIN segs
  BY Parts DEF ShmInv, Ordered, ShmTypeOK
<1>3. segs' = [segs EXCEPT ![g] = y] /\ log' = [log EXCEPT ![g] = l]
  BY DEF TakeFirst
<1>4. msgs \in Seq(Msg) /\ pulled \in Seq(Msg) /\ pulled \o msgs = log[g].pushed
      /\ (~none => Len(pulled) = Len(log[g].pulled) + 1)
  <2>1. CASE none
    BY <2>1, <1>1, <1>2
  <2>2. CASE ~none
    <3>1. Tail(server.seen) \in Seq(Msg) /\ Append(log[g].pulled, Head(server.seen)) \in Seq(Msg)
      BY <2>2, <1>1, <1>2
    <3>2. Append(log[g].pulled, Head(server.seen)) \o Tail(server.seen) = log[g].pushed
      <4>1. \A s, t \in Seq(Msg) : t # <<>> => Append(s, Head(t)) \o Tail(t) = s \o t
        BY PullKeepsOrder
      <4> HIDE DEF g
      <4> QED BY <4>1, <2>2, <1>1, <1>2
    <3>3. Len(Append(log[g].pulled, Head(server.seen))) = Len(log[g].pulled) + 1
      BY <1>2
    <3> QED BY <2>2, <3>1, <3>2, <3>3
  <2> QED BY <2>1, <2>2
<1> HIDE DEF msgs, pulled
<1>7. y \in Segment /\ l \in Log /\ l.pulled \o y.msgs = l.pushed /\ l.pulled = pulled
  BY <1>2, <1>4 DEF Segment, Log
<1> HIDE DEF y, l, g
<1>8. /\ segs' \in Seq(Segment) /\ log' \in Seq(Log)
      /\ Len(segs') = Len(segs) /\ Len(log') = Len(segs) /\ DOMAIN segs' = DOMAIN segs
      /\ log'[g] = l /\ \A h \in DOMAIN segs : h # g => segs'[h] = segs[h]
      /\ Ordered'
  BY <1>2, <1>3, <1>7, ReplaceSegment
<1>9. ShmTypeOK'
  BY <1>8 DEF ShmInv, ShmTypeOK
<1>10. AppInside'
  <2> SUFFICES ASSUME NEW b \in Apps, apps[b].pc = "push"
               PROVE  apps[b].map # Unmapped /\ segs'[apps[b].map].sem = b /\ segs'[apps[b].map].msgs = apps[b].seen
    BY DEF AppInside
  <2>1. apps[b].map # Unmapped /\ segs[apps[b].map].sem = b /\ segs[apps[b].map].msgs = apps[b].seen
    BY DEF ShmInv, AppInside
  <2>2. apps[b].map # g /\ apps[b].map \in DOMAIN segs
    BY <2>1, <1>1, ShmAssumption, Parts DEF ShmInv, g
  <2> QED BY <2>1, <2>2, <1>8
<1>11. ServerInside'
  BY DEF ServerInside
<1> QED BY <1>4, <1>7, <1>8, <1>9, <1>10, <1>11 DEF g

\* What the types say of the daemon.
LEMMA ServerFacts ==
  ASSUME ShmInv
  PROVE  /\ server \in ServerState(Len(segs)) /\ server.gen \in Nat /\ server.seen \in Seq(Msg)
         /\ log[server.gen].pulled \in Seq(Msg) /\ Len(log[server.gen].pulled) \in Nat
         /\ unread \in [failed : SUBSET Places, thrown : SUBSET Places]
         /\ Taken \in Places
<1>1. server \in ServerState(Len(segs)) /\ unread \in [failed : SUBSET Places, thrown : SUBSET Places]
  BY DEF ShmInv, ShmTypeOK
<1>2. server.gen \in Nat /\ server.seen \in Seq(Msg)
  BY <1>1 DEF ServerState
<1>3. log[server.gen].pulled \in Seq(Msg)
  BY Parts DEF ShmInv
<1>4. Len(log[server.gen].pulled) \in Nat
  BY <1>3
<1> QED BY <1>1, <1>2, <1>3, <1>4 DEF Taken, Places

\* It takes the first message out, or leaves; a message may be one that cannot be read.
LEMMA PullStep == ASSUME ShmInv, dlt_shm_pull PROVE ShmInv'
<1>0. /\ server \in ServerState(Len(segs)) /\ server.gen \in Nat /\ Taken \in Places
      /\ unread \in [failed : SUBSET Places, thrown : SUBSET Places]
  BY ServerFacts
<1> DEFINE empty == <<>>
<1>1. server.pc = "pull" /\ TakeFirst /\ UNCHANGED <<name, apps>> /\ empty \in Seq(Msg)
  BY DEF dlt_shm_pull
<1>2. CASE /\ server' = [server EXCEPT !.pc = IF server.seen = <<>> THEN "poll" ELSE "get", !.seen = empty]
           /\ UNCHANGED unread
  <2> DEFINE pc == IF server.seen = <<>> THEN "poll" ELSE "get"
  <2>0. server' = [server EXCEPT !.pc = pc, !.seen = empty] /\ pc \in {"poll", "get"}
    BY <1>2
  <2> HIDE DEF empty, pc
  <2>1. server' \in ServerState(Len(segs)) /\ server'.pc \in {"poll", "get"} /\ server'.gen = server.gen
    BY <1>0, <1>1, <2>0 DEF ServerState
  <2>2. ShmTypeOK' /\ AppInside' /\ ServerInside' /\ Ordered'
    BY <1>0, <1>1, <1>2, <2>1, TakeFirstStep
  <2>3. RemovesBehind' /\ OneThrown'
    BY <1>2, <2>1 DEF ShmInv, RemovesBehind, OneThrown
  <2> QED BY <2>2, <2>3 DEF ShmInv
<1>3. CASE /\ server.seen # <<>> /\ server' = [server EXCEPT !.pc = "remove", !.seen = empty]
           /\ unread' = [unread EXCEPT !.failed = @ \cup {Taken}]
  <2>1. server' \in ServerState(Len(segs)) /\ server'.pc = "remove" /\ server'.gen = server.gen
    <3> HIDE DEF empty
    <3> QED BY <1>0, <1>1, <1>3 DEF ServerState
  <2>2. unread' \in [failed : SUBSET Places, thrown : SUBSET Places]
        /\ unread'.failed = unread.failed \cup {Taken} /\ unread'.thrown = unread.thrown
    BY <1>0, <1>3
  <2>3. /\ ShmTypeOK' /\ AppInside' /\ ServerInside' /\ Ordered'
        /\ Len(log'[server.gen].pulled) = Len(log[server.gen].pulled) + 1
    BY <1>1, <1>3, <2>1, <2>2, TakeFirstStep
  <2>4. <<server'.gen, Len(log'[server'.gen].pulled)>> = Taken
    BY <2>1, <2>3 DEF Taken
  <2>5. RemovesBehind'
    BY <2>2, <2>4 DEF RemovesBehind
  <2>6. OneThrown'
    BY <2>2 DEF ShmInv, OneThrown
  <2> QED BY <2>3, <2>5, <2>6 DEF ShmInv
<1> QED BY <1>2, <1>3 DEF dlt_shm_pull

\* It throws the message behind one it could not read away, or finds none.
LEMMA RemoveStep == ASSUME ShmInv, dlt_shm_remove PROVE ShmInv'
<1>0. /\ server \in ServerState(Len(segs)) /\ server.gen \in Nat /\ Taken \in Places
      /\ unread \in [failed : SUBSET Places, thrown : SUBSET Places] /\ Len(log[server.gen].pulled) \in Nat
  BY ServerFacts
<1> DEFINE empty == <<>>
           thrown == IF server.seen = <<>> THEN unread.thrown ELSE unread.thrown \cup {Taken}
<1>1. server.pc = "removing" /\ TakeFirst /\ UNCHANGED <<name, apps>> /\ empty \in Seq(Msg)
      /\ server' = [server EXCEPT !.pc = "poll", !.seen = empty, !.yielded = TRUE]
      /\ unread' = [unread EXCEPT !.thrown = thrown]
  BY DEF dlt_shm_remove
<1>2. thrown \in SUBSET Places
  BY <1>0
<1>3. server' \in ServerState(Len(segs)) /\ server'.pc = "poll" /\ server'.gen = server.gen
  <2> HIDE DEF empty
  <2> QED BY <1>0, <1>1 DEF ServerState
<1>4. unread' \in [failed : SUBSET Places, thrown : SUBSET Places]
      /\ unread'.failed = unread.failed /\ unread'.thrown = thrown
  <2> HIDE DEF thrown
  <2> QED BY <1>0, <1>1, <1>2
<1>5. ShmTypeOK' /\ AppInside' /\ ServerInside' /\ Ordered'
  BY <1>1, <1>3, <1>4, TakeFirstStep
<1>6. RemovesBehind'
  BY <1>3 DEF RemovesBehind
<1>7. OneThrown'
  <2>1. <<server.gen, Len(log[server.gen].pulled)>> \in unread.failed
    BY <1>1 DEF ShmInv, RemovesBehind
  <2>2. Taken[1] = server.gen /\ Taken[2] - 1 = Len(log[server.gen].pulled)
    BY <1>0 DEF Taken
  <2>3. <<Taken[1], Taken[2] - 1>> \in unread.failed
    BY <2>1, <2>2
  <2>4. \A place \in unread.thrown : <<place[1], place[2] - 1>> \in unread.failed
    BY DEF ShmInv, OneThrown
  <2>5. \A place \in thrown : place \in unread.thrown \/ place = Taken
    OBVIOUS
  <2> QED BY <1>4, <2>3, <2>4, <2>5 DEF OneThrown
<1> QED BY <1>5, <1>6, <1>7 DEF ShmInv

\* The daemon outside of the semaphore, its end, and a crash, which leaves everything as it is.
LEMMA ServerOutsideStep ==
  ASSUME ShmInv, ReadHeader \/ WatchdogYields \/ dlt_shm_free_server \/ Crash
  PROVE  ShmInv'
<1>1. UNCHANGED <<segs, log, apps, unread>> /\ name' \in {name, Unmapped}
  BY DEF ReadHeader, WatchdogYields, dlt_shm_free_server, Crash
<1>2. /\ server'.pc \in {"poll", "get", "down"}
      /\ server' \in ServerState(Len(segs))
  <2>1. server \in ServerState(Len(segs))
    BY DEF ShmInv, ShmTypeOK
  <2>2. CASE ReadHeader
    BY <2>1, <2>2 DEF ReadHeader, ServerState
  <2>3. CASE WatchdogYields
    BY <2>1, <2>3 DEF WatchdogYields, ServerState
  <2>4. CASE dlt_shm_free_server
    BY <2>1, <2>4 DEF dlt_shm_free_server, ServerState
  <2>5. CASE Crash
    <3> DEFINE empty == <<>>
    <3>1. server' = [server EXCEPT !.pc = "down", !.seen = empty] /\ empty \in Seq(Msg)
      BY <2>5 DEF Crash
    <3> HIDE DEF empty
    <3> QED BY <2>1, <3>1 DEF ServerState
  <2> QED BY <2>2, <2>3, <2>4, <2>5
<1>3. ShmTypeOK'
  BY <1>1, <1>2 DEF ShmInv, ShmTypeOK, Unmapped
<1> QED BY <1>1, <1>2, <1>3 DEF ShmInv, AppInside, ServerInside, RemovesBehind, Ordered, OneThrown

\* A new daemon makes a new segment; what applications have mapped stays.
LEMMA InitServerStep == ASSUME ShmInv, dlt_shm_init_server PROVE ShmInv'
<1>1. NewSegment \in Segment /\ NewLog \in Log /\ NewLog.pulled \o NewSegment.msgs = NewLog.pushed
  <2>1. NewLog.pulled = <<>> /\ NewLog.pushed = <<>> /\ NewSegment.msgs = <<>> /\ <<>> \o <<>> = <<>>
    BY DEF NewSegment, NewLog
  <2> QED BY <2>1 DEF NewSegment, NewLog, Segment, Log
<1>2. segs \in Seq(Segment) /\ log \in Seq(Log) /\ Len(log) = Len(segs) /\ Len(segs) \in Nat
  BY DEF ShmInv, ShmTypeOK
<1>3. /\ segs' = Append(segs, NewSegment) /\ log' = Append(log, NewLog)
      /\ name' = Len(segs) + 1 /\ UNCHANGED <<apps, unread>>
      /\ server' = [pc |-> "poll", gen |-> Len(segs) + 1, seen |-> <<>>, yielded |-> FALSE]
  BY DEF dlt_shm_init_server
<1>4. /\ segs' \in Seq(Segment) /\ Len(segs') = Len(segs) + 1 /\ log' \in Seq(Log) /\ Len(log') = Len(segs')
      /\ \A g \in 1 .. Len(segs) : segs'[g] = segs[g] /\ log'[g] = log[g]
      /\ segs'[Len(segs) + 1] = NewSegment /\ log'[Len(segs) + 1] = NewLog
      /\ DOMAIN segs' = 1 .. Len(segs) + 1 /\ DOMAIN segs = 1 .. Len(segs)
  BY <1>1, <1>2, <1>3
<1>5. ShmTypeOK'
  <2>1. server' \in ServerState(Len(segs'))
    BY <1>2, <1>3, <1>4 DEF ServerState
  <2> QED BY <1>2, <1>3, <1>4, <2>1 DEF ShmInv, ShmTypeOK
<1>6. AppInside'
  BY <1>3, <1>4, Parts DEF ShmInv, AppInside
<1>7. ServerInside' /\ RemovesBehind' /\ OneThrown'
  BY <1>3 DEF ShmInv, ServerInside, RemovesBehind, OneThrown
<1>8. Ordered'
  <2> SUFFICES ASSUME NEW g \in 1 .. Len(segs) + 1 PROVE log'[g].pulled \o segs'[g].msgs = log'[g].pushed
    BY <1>4 DEF Ordered
  <2>1. CASE g = Len(segs) + 1
    BY <2>1, <1>1, <1>4
  <2>2. CASE g # Len(segs) + 1
    <3>1. g \in 1 .. Len(segs)
      BY <2>2, <1>2
    <3>2. log[g].pulled \o segs[g].msgs = log[g].pushed
      BY <3>1, <1>4 DEF ShmInv, Ordered
    <3> QED BY <3>1, <3>2, <1>4
  <2> QED BY <2>1, <2>2
<1> QED BY <1>5, <1>6, <1>7, <1>8 DEF ShmInv

--------------------------------------------------------------------------------
(* Theorems *)

LEMMA ShmStep == ShmInv /\ [ShmNext]_shmvars => ShmInv'
<1> SUFFICES ASSUME ShmInv, [ShmNext]_shmvars PROVE ShmInv'
  OBVIOUS
<1>1. ASSUME NEW a \in Apps, SendLog(a) PROVE ShmInv'
  BY <1>1, SendLogStep
<1>2. ASSUME NEW a \in Apps, AppStep(a) PROVE ShmInv'
  BY <1>2, PushGetStep, PushStep, PushRefusedStep, PushEndsStep, HeaderWrittenStep, HeaderRefusedStep,
     HeaderFailsStep DEF AppStep, HeaderStep
<1>3. ASSUME NEW a \in Apps, dlt_shm_init_client(a) \/ dlt_shm_free_client(a) \/ Kill(a) PROVE ShmInv'
  BY <1>3, InitClientStep, FreeClientStep, KillStep
<1>4. CASE ServerStep
  BY <1>4, ServerOutsideStep, ServerGetStep, PullStep, RemoveStep DEF ServerStep, PullGet, RemoveGet
<1>5. CASE dlt_shm_free_server \/ Crash \/ dlt_shm_init_server
  BY <1>5, ServerOutsideStep, InitServerStep
<1>6. CASE UNCHANGED shmvars
  BY <1>6 DEF shmvars, ShmInv, ShmTypeOK, AppInside, ServerInside, RemovesBehind, Ordered, OneThrown
<1> QED BY <1>1, <1>2, <1>3, <1>4, <1>5, <1>6 DEF ShmNext

\* What was taken from a segment and what is still in it is what was pushed, in its order, and only the
\* message behind one that could not be read is thrown away: of dlt_shm_push, dlt_shm_pull and
\* dlt_shm_remove under one semaphore, whoever is killed, crashes or starts again.
THEOREM ShmCorrect == ShmSpec => []ShmIntact
<1>1. ShmInv => ShmIntact
  BY DEF ShmInv, ShmIntact
<1> QED BY <1>1, InitShmInv, ShmStep, PTL DEF ShmSpec

--------------------------------------------------------------------------------
(* Trace load control.                                                            *)
(*                                                                                *)
(* Sums: SumOver(f, S) counts units, so that the theorems about finite sets give  *)
(* what is needed of sums without an induction.                                   *)

Counts(f, S) == \A s \in S : f[s] \in Nat

LEMMA UnitsAre ==
  ASSUME NEW f, NEW S, NEW x
  PROVE  x \in Units(f, S) <=> \E s \in S : x \in {s} \X (1 .. f[s])
  BY Zenon DEF Units

LEMMA UnitOf ==
  ASSUME NEW f, NEW s, NEW x
  PROVE  x \in {s} \X (1 .. f[s]) <=> x = <<x[1], x[2]>> /\ x[1] = s /\ x[2] \in 1 .. f[s]
  OBVIOUS

\* A sum of finitely many natural numbers is one.
LEMMA UnitsFinite ==
  ASSUME NEW f, NEW S, IsFiniteSet(S), Counts(f, S)
  PROVE  IsFiniteSet(Units(f, S)) /\ SumOver(f, S) \in Nat
  <1>1. PICK g : g = [s \in S |-> {s} \X (1 .. f[s])]
    OBVIOUS
  <1>2. PICK T : T = {{s} \X (1 .. f[s]) : s \in S}
    OBVIOUS
  <1>3. g \in Surjection(S, T)
    BY <1>1, <1>2 DEF Surjection
  <1>4. IsFiniteSet(T)
    BY <1>3, FS_Surjection
  <1>5. ASSUME NEW t \in T PROVE IsFiniteSet(t)
    <2>1. PICK s \in S : t = {s} \X (1 .. f[s])
      BY <1>2
    <2>2. 1 \in Int /\ f[s] \in Int
      BY DEF Counts
    <2>3. IsFiniteSet(1 .. f[s])
      BY <2>2, FS_Interval
    <2>4. IsFiniteSet({s})
      BY FS_Singleton
    <2> QED
      BY <2>1, <2>3, <2>4, FS_Product
  <1>6. IsFiniteSet(UNION T)
    BY <1>4, <1>5, FS_UNION
  <1>7. IsFiniteSet(Units(f, S))
    BY <1>2, <1>6 DEF Units
  <1> QED
    BY <1>7, FS_CardinalityType DEF SumOver

\* The sum over two disjoint sets.
LEMMA SumSplit ==
  ASSUME NEW f, NEW S, NEW T, IsFiniteSet(S), IsFiniteSet(T), Counts(f, S), Counts(f, T), S \cap T = {}
  PROVE  SumOver(f, S \cup T) = SumOver(f, S) + SumOver(f, T)
  <1>1. Units(f, S \cup T) = Units(f, S) \cup Units(f, T)
    <2>1. ASSUME NEW x PROVE x \in Units(f, S \cup T) <=> x \in Units(f, S) \/ x \in Units(f, T)
      <3>1. x \in Units(f, S \cup T) <=> \E s \in S \cup T : x \in {s} \X (1 .. f[s])
        BY UnitsAre
      <3>2. x \in Units(f, S) <=> \E s \in S : x \in {s} \X (1 .. f[s])
        BY UnitsAre
      <3>3. x \in Units(f, T) <=> \E s \in T : x \in {s} \X (1 .. f[s])
        BY UnitsAre
      <3> QED
        BY <3>1, <3>2, <3>3, Zenon
    <2> QED
      BY <2>1, Zenon
  <1>2. Units(f, S) \cap Units(f, T) = {}
    <2> SUFFICES ASSUME NEW x, x \in Units(f, S), x \in Units(f, T) PROVE FALSE
      OBVIOUS
    <2>1. PICK s \in S : x \in {s} \X (1 .. f[s])
      BY UnitsAre
    <2>2. PICK t \in T : x \in {t} \X (1 .. f[t])
      BY UnitsAre
    <2>3. x[1] = s /\ x[1] = t
      BY <2>1, <2>2, UnitOf
    <2> QED
      BY <2>3
  <1>3. PICK U, V : U = Units(f, S) /\ V = Units(f, T)
    OBVIOUS
  <1>4. IsFiniteSet(U) /\ IsFiniteSet(V) /\ Cardinality(U) \in Nat /\ Cardinality(V) \in Nat
    BY <1>3, UnitsFinite, FS_CardinalityType
  <1>5. Cardinality(U \cup V) = Cardinality(U) + Cardinality(V) - Cardinality(U \cap V)
    BY <1>4, FS_Union
  <1>6. Cardinality(U \cap V) = 0
    BY <1>2, <1>3, FS_EmptySet
  <1>7. Cardinality(U \cup V) = Cardinality(U) + Cardinality(V)
    BY <1>4, <1>5, <1>6
  <1> QED
    BY <1>1, <1>3, <1>7 DEF SumOver

LEMMA SumSame ==
  ASSUME NEW f, NEW g, NEW S, \A s \in S : f[s] = g[s]
  PROVE  SumOver(f, S) = SumOver(g, S)
  <1>1. {{s} \X (1 .. f[s]) : s \in S} = {{s} \X (1 .. g[s]) : s \in S}
    OBVIOUS
  <1> QED
    BY <1>1 DEF SumOver, Units

\* More summands, or larger ones, give no smaller sum.
LEMMA SumGrows ==
  ASSUME NEW f, NEW g, NEW S, NEW T, IsFiniteSet(T), Counts(g, T), S \subseteq T,
         \A s \in S : f[s] \in Nat /\ f[s] <= g[s]
  PROVE  SumOver(f, S) <= SumOver(g, T)
  <1>1. ASSUME NEW x, x \in Units(f, S) PROVE x \in Units(g, T)
    <2>1. PICK s \in S : x \in {s} \X (1 .. f[s])
      BY <1>1, UnitsAre
    <2>2. x = <<x[1], x[2]>> /\ x[1] = s /\ x[2] \in 1 .. f[s]
      BY <2>1, UnitOf
    <2>3. g[s] \in Nat /\ f[s] <= g[s] /\ f[s] \in Nat
      BY DEF Counts
    <2>4. x[2] \in 1 .. g[s]
      BY <2>2, <2>3
    <2>5. s \in T /\ x \in {s} \X (1 .. g[s])
      BY <2>2, <2>4, UnitOf
    <2> QED
      BY <2>5, UnitsAre
  <1>2. PICK U, V : U = Units(f, S) /\ V = Units(g, T)
    OBVIOUS
  <1>3. U \in SUBSET V
    BY <1>1, <1>2
  <1>4. IsFiniteSet(V)
    BY <1>2, UnitsFinite
  <1>5. Cardinality(U) <= Cardinality(V)
    BY <1>3, <1>4, FS_Subset
  <1> QED
    BY <1>2, <1>5 DEF SumOver

LEMMA SumZero ==
  ASSUME NEW f, NEW S, \A s \in S : f[s] = 0
  PROVE  SumOver(f, S) = 0
  <1>1. ASSUME NEW x, x \in Units(f, S) PROVE FALSE
    <2>1. PICK s \in S : x \in {s} \X (1 .. f[s])
      BY <1>1, UnitsAre
    <2>2. x[2] \in 1 .. 0
      BY <2>1, UnitOf
    <2> QED
      BY <2>2
  <1>2. Units(f, S) = {}
    BY <1>1
  <1> QED
    BY <1>2, FS_EmptySet DEF SumOver

LEMMA SumOne ==
  ASSUME NEW f, NEW s, f[s] \in Nat
  PROVE  SumOver(f, {s}) = f[s]
  <1>1. Units(f, {s}) = {s} \X (1 .. f[s])
    <2>1. \A x : x \in Units(f, {s}) <=> x \in {s} \X (1 .. f[s])
      BY UnitsAre
    <2> QED
      BY <2>1
  <1>2. 1 \in Int /\ f[s] \in Int
    OBVIOUS
  <1>3. /\ IsFiniteSet(1 .. f[s])
        /\ Cardinality(1 .. f[s]) = IF 1 > f[s] THEN 0 ELSE f[s] - 1 + 1
    BY <1>2, FS_Interval
  <1>4. Cardinality(1 .. f[s]) = f[s]
    BY <1>3
  <1>5. IsFiniteSet({s}) /\ Cardinality({s}) = 1
    BY FS_Singleton
  <1>6. Cardinality({s} \X (1 .. f[s])) = Cardinality({s}) * Cardinality(1 .. f[s])
    BY <1>3, <1>5, FS_Product
  <1>7. \A n \in Nat : 1 * n = n
    OBVIOUS
  <1>8. Cardinality({s} \X (1 .. f[s])) = f[s]
    BY <1>4, <1>5, <1>6, <1>7
  <1> QED
    BY <1>1, <1>8 DEF SumOver

\* One summand changes.
LEMMA SumChange ==
  ASSUME NEW f, NEW g, NEW S, IsFiniteSet(S), Counts(f, S), Counts(g, S), NEW s \in S,
         \A q \in S : q # s => g[q] = f[q]
  PROVE  SumOver(g, S) = SumOver(f, S) - f[s] + g[s]
  <1>1. PICK R : R = S \ {s}
    OBVIOUS
  <1>2. S = R \cup {s} /\ R \cap {s} = {} /\ Counts(f, R) /\ Counts(g, R) /\ Counts(f, {s}) /\ Counts(g, {s})
    BY <1>1 DEF Counts
  <1>3. IsFiniteSet(R) /\ IsFiniteSet({s})
    BY <1>1, FS_Difference, FS_Singleton
  <1>4. SumOver(f, R \cup {s}) = SumOver(f, R) + SumOver(f, {s})
    BY <1>2, <1>3, SumSplit
  <1>5. SumOver(g, R \cup {s}) = SumOver(g, R) + SumOver(g, {s})
    BY <1>2, <1>3, SumSplit
  <1>6. SumOver(f, R) = SumOver(g, R)
    <2>1. \A q \in R : f[q] = g[q]
      BY <1>1
    <2> QED
      BY <2>1, SumSame
  <1>7. SumOver(f, {s}) = f[s] /\ SumOver(g, {s}) = g[s] /\ f[s] \in Nat /\ g[s] \in Nat
    BY SumOne DEF Counts
  <1>8. SumOver(f, R) \in Nat
    BY <1>2, <1>3, UnitsFinite
  <1> QED
    BY <1>2, <1>4, <1>5, <1>6, <1>7, <1>8

\* A sum does not depend on how its summands are named.
Renames(h, f, S, g, T) ==
  /\ h \in [S -> T]
  /\ \A s, t \in S : h[s] = h[t] => s = t
  /\ \A t \in T : \E s \in S : h[s] = t
  /\ \A s \in S : g[h[s]] = f[s]

LEMMA SumRenamed ==
  ASSUME NEW f, NEW g, NEW S, NEW T, NEW h, IsFiniteSet(S), Counts(f, S), Renames(h, f, S, g, T)
  PROVE  SumOver(g, T) = SumOver(f, S)
  <1> USE DEF Renames
  <1>1. PICK U, V : U = Units(f, S) /\ V = Units(g, T)
    OBVIOUS
  <1>2. PICK b : b = [x \in U |-> <<h[x[1]], x[2]>>]
    OBVIOUS
  <1>3. \A x \in U : x = <<x[1], x[2]>> /\ x[1] \in S /\ x[2] \in 1 .. f[x[1]]
    <2> SUFFICES ASSUME NEW x \in U PROVE x = <<x[1], x[2]>> /\ x[1] \in S /\ x[2] \in 1 .. f[x[1]]
      OBVIOUS
    <2>1. PICK s \in S : x \in {s} \X (1 .. f[s])
      BY <1>1, UnitsAre
    <2> QED
      BY <2>1, UnitOf
  <1>4. ASSUME NEW x \in U PROVE b[x] \in V
    <2>1. x[1] \in S /\ x[2] \in 1 .. f[x[1]] /\ b[x] = <<h[x[1]], x[2]>>
      BY <1>2, <1>3
    <2>2. h[x[1]] \in T /\ g[h[x[1]]] = f[x[1]]
      BY <2>1
    <2>3. b[x] \in {h[x[1]]} \X (1 .. g[h[x[1]]])
      BY <2>1, <2>2
    <2> QED
      BY <1>1, <2>2, <2>3, UnitsAre
  <1>5. ASSUME NEW x \in U, NEW y \in U, b[x] = b[y] PROVE x = y
    <2>1. h[x[1]] = h[y[1]] /\ x[2] = y[2]
      BY <1>2, <1>5
    <2>2. x[1] = y[1]
      BY <1>3, <2>1
    <2> QED
      BY <1>3, <2>1, <2>2
  <1>6. ASSUME NEW y \in V PROVE \E x \in U : b[x] = y
    <2>1. PICK t \in T : y \in {t} \X (1 .. g[t])
      BY <1>1, UnitsAre
    <2>2. y = <<y[1], y[2]>> /\ y[1] = t /\ y[2] \in 1 .. g[t]
      BY <2>1, UnitOf
    <2>3. PICK s \in S : h[s] = t
      OBVIOUS
    <2>4. PICK x : x = <<s, y[2]>>
      OBVIOUS
    <2>5. x \in {s} \X (1 .. f[s])
      BY <2>2, <2>3, <2>4
    <2>6. x \in U
      BY <1>1, <2>5, UnitsAre
    <2>7. b[x] = y
      BY <1>2, <2>2, <2>3, <2>4, <2>6
    <2> QED
      BY <2>6, <2>7
  <1>7. b \in Bijection(U, V)
    <2>1. b \in [U -> V]
      BY <1>2, <1>4
    <2>2. b \in Injection(U, V)
      BY <1>5, <2>1 DEF Injection, IsInjective
    <2>3. b \in Surjection(U, V)
      BY <1>6, <2>1 DEF Surjection
    <2> QED
      BY <2>2, <2>3 DEF Bijection
  <1>8. IsFiniteSet(U)
    BY <1>1, UnitsFinite
  <1>9. ExistsBijection(U, V)
    BY <1>7 DEF ExistsBijection
  <1>10. Cardinality(V) = Cardinality(U)
    BY <1>8, <1>9, FS_Bijection
  <1> QED
    BY <1>1, <1>10 DEF SumOver

--------------------------------------------------------------------------------
(* Time slots and the load *)

LEMMA DivMod ==
  ASSUME NEW x \in Nat, NEW m \in Nat \ {0}
  PROVE  /\ x \div m \in Nat /\ x % m \in Nat /\ x % m < m
         /\ x = m * (x \div m) + (x % m)
  OBVIOUS

\* Two quotients that differ are a whole divisor apart.
LEMMA QuotientsApart ==
  ASSUME NEW m \in Nat \ {0}, NEW p \in Nat, NEW q \in Nat, p < q
  PROVE  m * q >= m * p + m
  <1>1. m * (p + 1) = m * p + m
    OBVIOUS
  <1>2. m * q >= m * (p + 1)
    OBVIOUS
  <1> QED
    BY <1>1, <1>2

LEMMA DivGrows ==
  ASSUME NEW x \in Nat, NEW y \in Nat, NEW m \in Nat \ {0}, x <= y
  PROVE  x \div m <= y \div m
  <1> DEFINE p == x \div m
             q == y \div m
             r == x % m
             t == y % m
  <1>1. p \in Nat /\ r \in Nat /\ r < m /\ x = m * p + r
    BY DivMod
  <1>2. q \in Nat /\ t \in Nat /\ t < m /\ y = m * q + t
    BY DivMod
  <1> HIDE DEF p, q, r, t
  <1>3. q < p => m * p >= m * q + m
    BY <1>1, <1>2, QuotientsApart
  <1>4. m * p \in Nat /\ m * q \in Nat
    BY <1>1, <1>2
  <1>5. p <= q
    <2>1. PICK a, b : a = m * p /\ b = m * q
      OBVIOUS
    <2> QED
      BY <1>1, <1>2, <1>3, <1>4, <2>1
  <1> QED
    BY <1>5 DEF p, q

LEMMA SlotBelow ==
  ASSUME NEW x \in Nat, NEW m \in Nat \ {0}, x < m
  PROVE  x % m = x
  <1> DEFINE q == x \div m
             r == x % m
  <1>1. q \in Nat /\ r \in Nat /\ r < m /\ x = m * q + r
    BY DivMod
  <1> HIDE DEF q, r
  <1>2. q >= 1 => m * q >= m
    BY <1>1
  <1>3. q = 0 => m * q = 0
    OBVIOUS
  <1>4. r = x
    BY <1>1, <1>2, <1>3
  <1> QED
    BY <1>4 DEF r

\* Less than a window apart, two slots use two places of the window.
LEMMA PlacesDiffer ==
  ASSUME NEW a \in Nat, NEW b \in Nat, NEW m \in Nat \ {0}, a < b, b < a + m
  PROVE  a % m # b % m
  <1> DEFINE p == a \div m
             q == b \div m
             r == a % m
             t == b % m
  <1>1. p \in Nat /\ r \in Nat /\ r < m /\ a = m * p + r
    BY DivMod
  <1>2. q \in Nat /\ t \in Nat /\ t < m /\ b = m * q + t
    BY DivMod
  <1> HIDE DEF p, q, r, t
  <1>3. q < p => m * p >= m * q + m
    BY <1>1, <1>2, QuotientsApart
  <1>4. p < q => m * q >= m * p + m
    BY <1>1, <1>2, QuotientsApart
  <1>5. m * p \in Nat /\ m * q \in Nat /\ (p = q => m * p = m * q)
    BY <1>1, <1>2
  <1>6. r # t
    <2>1. PICK u, v : u = m * p /\ v = m * q
      OBVIOUS
    <2> QED
      BY <1>1, <1>2, <1>3, <1>4, <1>5, <2>1
  <1> QED
    BY <1>6 DEF r, t

\* A window apart, they use the same.
LEMMA PlacesAgain ==
  ASSUME NEW a \in Nat, NEW m \in Nat \ {0}
  PROVE  (a + m) % m = a % m
  <1> DEFINE p == a \div m
             q == (a + m) \div m
             r == a % m
             t == (a + m) % m
  <1>1. p \in Nat /\ r \in Nat /\ r < m /\ a = m * p + r
    BY DivMod
  <1>2. q \in Nat /\ t \in Nat /\ t < m /\ a + m = m * q + t
    BY DivMod
  <1> HIDE DEF p, q, r, t
  <1>3. q < p + 1 => m * (p + 1) >= m * q + m
    BY <1>1, <1>2, QuotientsApart
  <1>4. p + 1 < q => m * q >= m * (p + 1) + m
    BY <1>1, <1>2, QuotientsApart
  <1>5. m * p \in Nat /\ m * q \in Nat /\ m * (p + 1) = m * p + m /\ (p + 1 = q => m * (p + 1) = m * q)
    BY <1>1, <1>2
  <1>6. r = t
    <2>1. PICK u, v, w : u = m * p /\ v = m * q /\ w = m * (p + 1)
      OBVIOUS
    <2> QED
      BY <1>1, <1>2, <1>3, <1>4, <1>5, <2>1
  <1> QED
    BY <1>6 DEF r, t

LEMMA WindowTicks == TimestampBasedWindowSize \in Nat \ {0}
  <1>1. \A a, b \in Nat \ {0} : a * b \in Nat \ {0}
    OBVIOUS
  <1> QED
    BY <1>1, LoadAssumption DEF TimestampBasedWindowSize

LEMMA LoadGrows ==
  ASSUME NEW a \in Nat, NEW b \in Nat, a <= b
  PROVE  Load(a) \in Nat /\ Load(b) \in Nat /\ Load(a) <= Load(b)
  <1>1. TimestampResolution \in Nat
    BY LoadAssumption
  <1>2. \A x, y, z \in Nat : x <= y => x * z <= y * z /\ x * z \in Nat
    OBVIOUS
  <1>3. PICK x, y : x = a * TimestampResolution /\ y = b * TimestampResolution
    OBVIOUS
  <1>4. x <= y /\ x \in Nat
    BY <1>1, <1>2, <1>3, Zenon
  <1>5. y \in Nat
    <2>1. b <= b
      OBVIOUS
    <2> QED
      BY <1>1, <1>2, <1>3, <2>1, Zenon
  <1>6. x \div TimestampBasedWindowSize <= y \div TimestampBasedWindowSize
    BY <1>4, <1>5, WindowTicks, DivGrows
  <1>7. x \div TimestampBasedWindowSize \in Nat /\ y \div TimestampBasedWindowSize \in Nat
    BY <1>4, <1>5, WindowTicks, DivMod
  <1> QED
    BY <1>3, <1>6, <1>7 DEF Load

--------------------------------------------------------------------------------
(* The window: place s % WindowSize holds what was counted in slot s, for the     *)
(* slots s of the last WindowSize ones.                                           *)

Near(t, n) == (t - WindowSize + 1 .. t) \cap (0 .. n)

WindowOf(w, ld, t, n) ==
  /\ \A s \in Near(t, n) : w[s % WindowSize] = ld[s]
  /\ \A p \in Slots : (\A s \in Near(t, n) : s % WindowSize # p) => w[p] = 0

\* Every slot has a place in the window.
LEMMA PlaceIs ==
  ASSUME NEW s \in Nat
  PROVE  s % WindowSize \in Slots
  <1>1. WindowSize \in Nat \ {0}
    BY LoadAssumption
  <1>2. s % WindowSize \in Nat /\ s % WindowSize < WindowSize
    BY <1>1, DivMod
  <1> QED
    BY <1>1, <1>2 DEF Slots

LEMMA SlotsFinite == IsFiniteSet(Slots)
  <1>1. 0 \in Int /\ WindowSize - 1 \in Int
    BY LoadAssumption
  <1> QED
    BY <1>1, FS_Interval DEF Slots

LEMMA NearIs ==
  ASSUME NEW t \in Nat, NEW n \in Nat
  PROVE  /\ \A s : s \in Near(t, n) <=> s \in Nat /\ s <= t /\ s <= n /\ t < s + WindowSize
         /\ IsFiniteSet(Near(t, n)) /\ Near(t, n) \subseteq 0 .. n
  <1>1. WindowSize \in Nat \ {0}
    BY LoadAssumption
  <1>2. \A s : s \in Near(t, n) <=> s \in Nat /\ s <= t /\ s <= n /\ t < s + WindowSize
    BY <1>1 DEF Near
  <1>3. Near(t, n) \subseteq 0 .. n
    BY DEF Near
  <1>4. 0 \in Int /\ n \in Int
    OBVIOUS
  <1>5. IsFiniteSet(0 .. n)
    BY <1>4, FS_Interval
  <1>6. IsFiniteSet(Near(t, n))
    BY <1>3, <1>5, FS_Subset
  <1> QED
    BY <1>2, <1>3, <1>6

LEMMA NearIn ==
  ASSUME NEW t \in Nat, NEW n \in Nat, NEW s \in Nat, s <= t, s <= n, t < s + WindowSize
  PROVE  s \in Near(t, n)
  BY NearIs

\* The last WindowSize slots have places of their own.
LEMMA NearPlaces ==
  ASSUME NEW t \in Nat, NEW n \in Nat, NEW a \in Near(t, n), NEW b \in Near(t, n),
         a % WindowSize = b % WindowSize
  PROVE  a = b
  <1>1. WindowSize \in Nat \ {0}
    BY LoadAssumption
  <1>2. a \in Nat /\ a <= t /\ t < a + WindowSize /\ b \in Nat /\ b <= t /\ t < b + WindowSize
    BY NearIs
  <1>3. a < b => b < a + WindowSize
    BY <1>1, <1>2
  <1>4. b < a => a < b + WindowSize
    BY <1>1, <1>2
  <1>5. ~ a < b
    BY <1>1, <1>2, <1>3, PlacesDiffer
  <1>6. ~ b < a
    BY <1>1, <1>2, <1>4, PlacesDiffer
  <1> QED
    BY <1>2, <1>5, <1>6

\* The places of the window together hold what was counted in the last WindowSize slots.
LEMMA WindowTotal ==
  ASSUME NEW n \in Nat, NEW t \in Nat, NEW w \in [Slots -> Nat], NEW ld \in [0 .. n -> Nat],
         WindowOf(w, ld, t, n)
  PROVE  SumOver(w, Slots) = SumOver(ld, Near(t, n))
  <1>1. PICK R : R = Near(t, n)
    OBVIOUS
  <1>2. R \subseteq 0 .. n /\ R \subseteq Nat /\ IsFiniteSet(R)
    BY <1>1, NearIs
  <1>3. PICK h : h = [s \in R |-> s % WindowSize]
    OBVIOUS
  <1>4. PICK T : T = {s % WindowSize : s \in R}
    OBVIOUS
  <1>5. T \subseteq Slots
    BY <1>2, <1>4, PlaceIs
  <1>6. SumOver(w, T) = SumOver(ld, R)
    <2>1. Counts(ld, R)
      BY <1>2 DEF Counts
    <2>2. h \in [R -> T]
      BY <1>3, <1>4
    <2>3. \A s, u \in R : h[s] = h[u] => s = u
      BY <1>1, <1>3, NearPlaces
    <2>4. \A p \in T : \E s \in R : h[s] = p
      BY <1>3, <1>4
    <2>5. \A s \in R : w[h[s]] = ld[s]
      BY <1>1, <1>3 DEF WindowOf
    <2>6. Renames(h, ld, R, w, T)
      BY <2>2, <2>3, <2>4, <2>5 DEF Renames
    <2> QED
      BY <1>2, <2>1, <2>6, SumRenamed
  <1>7. SumOver(w, Slots \ T) = 0
    <2>1. \A p \in Slots \ T : w[p] = 0
      BY <1>1, <1>4 DEF WindowOf
    <2> QED
      BY <2>1, SumZero
  <1>8. SumOver(w, T \cup (Slots \ T)) = SumOver(w, T) + SumOver(w, Slots \ T)
    <2>1. IsFiniteSet(T) /\ IsFiniteSet(Slots \ T)
      BY <1>5, SlotsFinite, FS_Subset, FS_Difference
    <2>2. Counts(w, T) /\ Counts(w, Slots \ T)
      BY <1>5 DEF Counts
    <2>3. T \cap (Slots \ T) = {}
      OBVIOUS
    <2> QED
      BY <2>1, <2>2, <2>3, SumSplit
  <1>9. T \cup (Slots \ T) = Slots
    BY <1>5
  <1>10. SumOver(ld, R) \in Nat
    <2>1. Counts(ld, R)
      BY <1>2 DEF Counts
    <2> QED
      BY <1>2, <2>1, UnitsFinite
  <1>11. SumOver(w, Slots) = SumOver(ld, R) + 0
    BY <1>6, <1>7, <1>8, <1>9, Zenon
  <1>12. \A a \in Nat : a + 0 = a
    OBVIOUS
  <1> QED
    BY <1>1, <1>10, <1>11, <1>12, Zenon

\* The places that dlt_user_cleanup_window clears when time goes on from slot t to slot c.
Passed(t, c) == {(t + k) % WindowSize : k \in 1 .. c - t}
Gone(t, c) == IF c - t >= WindowSize THEN Slots ELSE Passed(t, c)

\* After the cleanup the window is that of the new slot: nothing is cleared too early or too late.
LEMMA WindowCleared ==
  ASSUME NEW n \in Nat, NEW t \in Nat, NEW c \in Nat, t < c, c <= n,
         NEW w \in [Slots -> Nat], NEW ld \in [0 .. n -> Nat], WindowOf(w, ld, t, n),
         \A s \in 0 .. n : s > t => ld[s] = 0,
         NEW v, v = [p \in Slots |-> IF p \in Gone(t, c) THEN 0 ELSE w[p]]
  PROVE  WindowOf(v, ld, c, n)
  <1> DEFINE W == WindowSize
  <1>1. W \in Nat \ {0}
    BY LoadAssumption
  <1>2. ASSUME c - t >= W
        PROVE  WindowOf(v, ld, c, n)
    <2>1. \A p \in Slots : v[p] = 0
      BY <1>2 DEF Gone
    <2>2. ASSUME NEW s \in Near(c, n) PROVE v[s % W] = ld[s]
      <3>1. s \in Nat /\ s <= n /\ s <= c /\ c < s + W
        BY NearIs
      <3>2. s > t /\ s \in 0 .. n
        BY <1>1, <1>2, <3>1
      <3>3. s % W \in Slots
        BY <3>1, PlaceIs
      <3> QED
        BY <2>1, <3>2, <3>3
    <2> QED
      BY <2>1, <2>2 DEF WindowOf
  <1>3. ASSUME c - t < W
        PROVE  WindowOf(v, ld, c, n)
    <2>1. Gone(t, c) = Passed(t, c)
      BY <1>1, <1>3 DEF Gone
    <2>2. ASSUME NEW s \in Near(c, n), s > t PROVE v[s % W] = ld[s]
      <3>1. s \in Nat /\ s <= n /\ s <= c /\ c < s + W
        BY NearIs
      <3>2. PICK k : k = s - t
        OBVIOUS
      <3>3. k \in 1 .. c - t /\ t + k = s
        BY <2>2, <3>1, <3>2
      <3>4. s % W \in Passed(t, c)
        BY <3>3 DEF Passed
      <3>5. s % W \in Slots
        BY <3>1, PlaceIs
      <3>6. ld[s] = 0
        BY <2>2, <3>1
      <3> QED
        BY <2>1, <3>4, <3>5, <3>6
    <2>3. ASSUME NEW s \in Near(c, n), s <= t PROVE v[s % W] = ld[s]
      <3>1. s \in Nat /\ s <= n /\ s <= c /\ c < s + W
        BY NearIs
      <3>2. s \in Near(t, n)
        <4>1. t < s + W
          BY <1>1, <3>1
        <4> QED
          BY <2>3, <3>1, <4>1, NearIn
      <3>3. s % W \notin Passed(t, c)
        <4> SUFFICES ASSUME s % W \in Passed(t, c) PROVE FALSE
          OBVIOUS
        <4>1. PICK k \in 1 .. c - t : s % W = (t + k) % W
          BY DEF Passed
        <4>2. t + k \in Nat /\ s < t + k /\ t + k < s + W
          BY <1>1, <2>3, <3>1, <4>1
        <4> QED
          BY <1>1, <3>1, <4>1, <4>2, PlacesDiffer
      <3>4. s % W \in Slots
        BY <3>1, PlaceIs
      <3> QED
        BY <2>1, <3>2, <3>3, <3>4 DEF WindowOf
    <2>4. ASSUME NEW p \in Slots, \A s \in Near(c, n) : s % W # p PROVE v[p] = 0
      <3>1. CASE p \in Passed(t, c)
        BY <2>1, <3>1
      <3>2. CASE p \notin Passed(t, c)
        <4>1. ASSUME NEW s \in Near(t, n), s % W = p PROVE FALSE
          <5>1. s \in Nat /\ s <= n /\ s <= t /\ t < s + W
            BY NearIs
          <5>2. CASE c < s + W
            <6>1. s <= c
              BY <5>1
            <6>2. s \in Near(c, n)
              BY <5>1, <5>2, <6>1, NearIn
            <6> QED
              BY <2>4, <4>1, <6>2
          <5>3. CASE c >= s + W
            <6>1. PICK k : k = s + W - t
              OBVIOUS
            <6>2. k \in 1 .. c - t /\ t + k = s + W
              BY <1>1, <5>1, <5>3, <6>1
            <6>3. (s + W) % W = p
              BY <1>1, <4>1, <5>1, PlacesAgain
            <6>4. p \in Passed(t, c)
              BY <6>2, <6>3 DEF Passed
            <6> QED
              BY <3>2, <6>4
          <5> QED
            BY <1>1, <5>1, <5>2, <5>3
        <4>2. w[p] = 0
          BY <4>1 DEF WindowOf
        <4> QED
          BY <2>1, <3>2, <4>2
      <3> QED
        BY <3>1, <3>2
    <2>5. \A s \in Near(c, n) : s > t \/ s <= t
      BY NearIs
    <2> QED
      BY <2>2, <2>3, <2>4, <2>5 DEF WindowOf
  <1> QED
    BY <1>1, <1>2, <1>3

\* g is f with x more at q.
Gains(f, g, S, q, x) == g \in [S -> Nat] /\ g[q] = f[q] + x /\ \A s \in S : s # q => g[s] = f[s]

LEMMA WindowRecorded ==
  ASSUME NEW n \in Nat, NEW c \in Nat, c <= n,
         NEW w \in [Slots -> Nat], NEW ld \in [0 .. n -> Nat], WindowOf(w, ld, c, n), NEW x \in Nat,
         NEW v, Gains(w, v, Slots, c % WindowSize, x), NEW le, Gains(ld, le, 0 .. n, c, x)
  PROVE  WindowOf(v, le, c, n)
  <1> USE DEF Gains
  <1>1. c \in Near(c, n)
    <2>1. WindowSize \in Nat \ {0} /\ c < c + WindowSize /\ c <= c
      BY LoadAssumption
    <2> QED
      BY <2>1, NearIs
  <1>2. ASSUME NEW s \in Near(c, n) PROVE v[s % WindowSize] = le[s]
    <2>1. s \in Nat /\ s \in 0 .. n /\ w[s % WindowSize] = ld[s] /\ s % WindowSize \in Slots
      BY NearIs, PlaceIs DEF WindowOf
    <2>2. s # c => s % WindowSize # c % WindowSize
      BY <1>1, NearPlaces
    <2> QED
      BY <2>1, <2>2
  <1>3. ASSUME NEW p \in Slots, \A s \in Near(c, n) : s % WindowSize # p PROVE v[p] = 0
    <2>1. p # c % WindowSize
      BY <1>1, <1>3
    <2>2. w[p] = 0
      BY <1>3 DEF WindowOf
    <2> QED
      BY <2>1, <2>2
  <1> QED
    BY <1>2, <1>3 DEF WindowOf

--------------------------------------------------------------------------------
(* The entry of a context: what each function does to it *)

Stat ==
  [window : [Slots -> Nat], total : Nat, last_abs_slot : Nat, avg : Nat, counter : Nat, bytes : Nat,
   left_soft : Nat, left_hard : Nat, over_soft : BOOLEAN, over_hard : BOOLEAN]

LoadEntry == [ap : Nat, ct : Nat, soft : Nat, hard : Nat, stat : Stat]

Balanced(st) == st.total = SumOver(st.window, Slots)

LEMMA CountDownIs ==
  ASSUME NEW left \in Nat, NEW d \in Nat
  PROVE  /\ CountDown(left, d) \in Nat /\ CountDown(left, d) + d >= left
  BY DEF CountDown

\* A timestamp that went back clears nothing.
LEMMA ElapsedIs ==
  ASSUME NEW st \in Stat, NEW curr \in Nat
  PROVE  ElapsedSlots(st, curr) = IF curr < st.last_abs_slot THEN 0 ELSE curr - st.last_abs_slot
  <1>1. st.last_abs_slot \in Nat /\ TimestampResolution \in Nat \ {0}
    BY LoadAssumption DEF Stat
  <1>2. curr < st.last_abs_slot => ~ TimestampResolution + st.last_abs_slot <= curr
    BY <1>1
  <1> QED
    BY <1>2 DEF ElapsedSlots

\* What dlt_user_cleanup_window leaves of the statistics st, d slots after the last record.
Cleaned(st, curr, d, c) ==
  /\ d \in Nat /\ c \in Stat /\ Balanced(c)
  /\ c.last_abs_slot = st.last_abs_slot /\ c.counter = st.counter
  /\ c.over_hard = st.over_hard
  /\ c.left_hard = CountDown(st.left_hard, d)
  /\ d = 0 => c = st
  /\ d > 0 => /\ d = curr - st.last_abs_slot /\ st.last_abs_slot < curr
              /\ c.window = [p \in Slots |-> IF p \in Gone(st.last_abs_slot, curr) THEN 0 ELSE st.window[p]]

LEMMA CleanupIs ==
  ASSUME NEW st \in Stat, NEW curr \in Nat, Balanced(st),
         NEW d, d = ElapsedSlots(st, curr), NEW c, c = dlt_user_cleanup_window(st, curr)
  PROVE  Cleaned(st, curr, d, c)
  <1>1. /\ st.last_abs_slot \in Nat /\ st.left_hard \in Nat /\ st.left_soft \in Nat /\ st.total \in Nat
        /\ st.window \in [Slots -> Nat]
    BY DEF Stat
  <1>2. d = IF curr < st.last_abs_slot THEN 0 ELSE curr - st.last_abs_slot
    BY ElapsedIs
  <1>3. d \in Nat
    BY <1>1, <1>2
  <1>4. ASSUME d = 0
        PROVE  c = st /\ CountDown(st.left_hard, d) = st.left_hard
    <2>1. c = st
      BY <1>4 DEF dlt_user_cleanup_window
    <2> QED
      BY <1>1, <1>4, <2>1 DEF CountDown
  <1>5. ASSUME d > 0
        PROVE  /\ c \in Stat /\ Balanced(c)
               /\ c.last_abs_slot = st.last_abs_slot /\ c.counter = st.counter
               /\ c.over_hard = st.over_hard
               /\ c.left_hard = CountDown(st.left_hard, d)
               /\ d = curr - st.last_abs_slot /\ st.last_abs_slot < curr
               /\ c.window = [p \in Slots |-> IF p \in Gone(st.last_abs_slot, curr) THEN 0
                                                                                  ELSE st.window[p]]
    <2>1. d = curr - st.last_abs_slot /\ st.last_abs_slot < curr /\ d # 0
      BY <1>1, <1>2, <1>5
    <2>2. PICK G : G = Gone(st.last_abs_slot, curr)
      OBVIOUS
    <2>3. G \subseteq Slots
      <3>1. ASSUME NEW p \in Passed(st.last_abs_slot, curr) PROVE p \in Slots
        <4>1. PICK k \in 1 .. curr - st.last_abs_slot : p = (st.last_abs_slot + k) % WindowSize
          BY DEF Passed
        <4>2. st.last_abs_slot + k \in Nat
          BY <1>1, <4>1
        <4> QED
          BY <4>1, <4>2, PlaceIs
      <3> QED
        BY <2>2, <3>1 DEF Gone
    <2>4. PICK v : v = [p \in Slots |-> IF p \in G THEN 0 ELSE st.window[p]]
      OBVIOUS
    <2>5. PICK a, l, m : /\ a = st.total - SumOver(st.window, G)
                         /\ l = CountDown(st.left_soft, d) /\ m = CountDown(st.left_hard, d)
      OBVIOUS
    <2>6. c = [st EXCEPT !.left_soft = l, !.left_hard = m, !.total = a, !.window = v]
      <3>1. G = IF d >= WindowSize THEN Slots ELSE {(st.last_abs_slot + k) % WindowSize : k \in 1 .. d}
        BY <2>1, <2>2 DEF Gone, Passed
      <3>2. c = [st EXCEPT !.left_soft = CountDown(st.left_soft, d),
                     !.left_hard = CountDown(st.left_hard, d),
                     !.total = st.total - SumOver(st.window, G),
                     !.window = [s \in Slots |-> IF s \in G THEN 0 ELSE st.window[s]]]
        BY <2>1, <3>1, Zenon DEF dlt_user_cleanup_window
      <3> QED
        BY <2>4, <2>5, <3>2
    <2>7. /\ SumOver(st.window, Slots) = SumOver(st.window, G) + SumOver(v, Slots)
          /\ SumOver(st.window, G) \in Nat /\ SumOver(v, Slots) \in Nat
      <3>1. IsFiniteSet(G) /\ IsFiniteSet(Slots) /\ IsFiniteSet(Slots \ G)
        BY <2>3, SlotsFinite, FS_Subset, FS_Difference
      <3>2. Counts(st.window, G) /\ Counts(st.window, Slots \ G) /\ Counts(v, G) /\ Counts(v, Slots \ G) /\ Counts(v, Slots)
        BY <1>1, <2>3, <2>4 DEF Counts
      <3>3. G \cap (Slots \ G) = {} /\ G \cup (Slots \ G) = Slots
        BY <2>3
      <3>4. SumOver(st.window, Slots) = SumOver(st.window, G) + SumOver(st.window, Slots \ G)
        BY <3>1, <3>2, <3>3, SumSplit
      <3>5. SumOver(v, Slots) = SumOver(v, G) + SumOver(v, Slots \ G)
        BY <3>1, <3>2, <3>3, SumSplit
      <3>6. SumOver(v, G) = 0
        <4>1. \A p \in G : v[p] = 0
          BY <2>3, <2>4
        <4> QED
          BY <4>1, SumZero
      <3>7. SumOver(st.window, Slots \ G) = SumOver(v, Slots \ G)
        <4>1. \A p \in Slots \ G : st.window[p] = v[p]
          BY <2>4
        <4> QED
          BY <4>1, SumSame
      <3>8. SumOver(st.window, G) \in Nat /\ SumOver(v, Slots) \in Nat /\ SumOver(v, Slots \ G) \in Nat
        BY <3>1, <3>2, UnitsFinite
      <3> QED
        BY <3>4, <3>5, <3>6, <3>7, <3>8
    <2>8. a = SumOver(v, Slots) /\ a \in Nat
      BY <1>1, <2>5, <2>7 DEF Balanced
    <2>9. l \in Nat /\ m \in Nat
      BY <1>1, <1>3, <2>5, CountDownIs
    <2>10. v \in [Slots -> Nat]
      BY <1>1, <2>4
    <2>11. c \in Stat
      BY <2>6, <2>8, <2>9, <2>10 DEF Stat
    <2>12. /\ c.last_abs_slot = st.last_abs_slot /\ c.counter = st.counter
           /\ c.left_hard = m /\ c.window = v /\ c.total = a
      BY <2>6 DEF Stat
    <2>13. c.over_hard = st.over_hard
      BY <2>6 DEF Stat
    <2> QED
      BY <2>1, <2>2, <2>4, <2>5, <2>8, <2>11, <2>12, <2>13 DEF Balanced
  <1> QED
    BY <1>1, <1>3, <1>4, <1>5 DEF Cleaned

\* The context and the limits of an entry stay what they are.
SameLimit(e, f) == f.ct = e.ct /\ f.soft = e.soft /\ f.hard = e.hard

\* What the soft limit warning leaves alone.
SameHard(st, su) ==
  /\ su.window = st.window /\ su.total = st.total /\ su.last_abs_slot = st.last_abs_slot
  /\ su.counter = st.counter /\ su.left_hard = st.left_hard /\ su.over_hard = st.over_hard

LEMMA SoftWarningIs ==
  ASSUME NEW e \in LoadEntry, NEW r, r = dlt_output_soft_limit_over_warning(e)
  PROVE  /\ r.e \in LoadEntry /\ SameLimit(e, r.e) /\ SameHard(e.stat, r.e.stat)
         /\ r.warns \in BOOLEAN
  <1>1. PICK w : w = (e.stat.over_soft /\ e.stat.left_soft = 0 /\ OverLoad(e, e.soft))
    OBVIOUS
  <1>2. w \in BOOLEAN
    BY <1>1
  <1>3. e.stat \in Stat /\ SoftFrequency \in Nat
    BY LoadAssumption DEF LoadEntry
  <1>4. r.warns = w /\ r.e = IF w THEN [e EXCEPT !.stat.over_soft = FALSE, !.stat.left_soft = SoftFrequency] ELSE e
    BY <1>1 DEF dlt_output_soft_limit_over_warning
  <1>5. PICK su : su = [e.stat EXCEPT !.over_soft = FALSE, !.left_soft = SoftFrequency]
    OBVIOUS
  <1>6. su \in Stat
    BY <1>3, <1>5 DEF Stat
  <1>7. SameHard(e.stat, su)
    BY <1>3, <1>5 DEF Stat, SameHard
  <1>8. w => r.e = [e EXCEPT !.stat = su]
    BY <1>4, <1>5 DEF LoadEntry
  <1>9. CASE w
    <2>1. r.e \in LoadEntry /\ SameLimit(e, r.e) /\ r.e.stat = su
      BY <1>6, <1>8, <1>9 DEF LoadEntry, SameLimit
    <2> QED
      BY <1>2, <1>4, <1>7, <2>1
  <1>10. CASE ~w
    <2>1. r.e = e
      BY <1>4, <1>10
    <2> QED
      BY <1>2, <1>4, <2>1 DEF SameHard, SameLimit
  <1> QED
    BY <1>2, <1>9, <1>10

\* What the hard limit warning does to the statistics.
HardWarned(st, su, warns) ==
  /\ su.window = st.window /\ su.total = st.total /\ su.last_abs_slot = st.last_abs_slot
  /\ warns => st.left_hard = 0 /\ su.left_hard = HardFrequency /\ su.counter = 0 /\ ~ su.over_hard
  /\ ~warns => su.left_hard = st.left_hard /\ su.counter = st.counter /\ su.over_hard = st.over_hard

LEMMA HardWarningIs ==
  ASSUME NEW e \in LoadEntry, NEW r, r = dlt_output_hard_limit_warning(e)
  PROVE  /\ r.e \in LoadEntry /\ SameLimit(e, r.e) /\ HardWarned(e.stat, r.e.stat, r.warns)
         /\ r.warns \in BOOLEAN
  <1>1. PICK w : w = (e.stat.over_hard /\ e.stat.left_hard = 0 /\ OverLoad(e, e.hard))
    OBVIOUS
  <1>2. w \in BOOLEAN
    BY <1>1
  <1>3. e.stat \in Stat /\ HardFrequency \in Nat
    BY LoadAssumption DEF LoadEntry
  <1>4. r.warns = w /\ r.e = IF w THEN [e EXCEPT !.stat.over_hard = FALSE, !.stat.counter = 0, !.stat.bytes = 0,
                                                !.stat.left_hard = HardFrequency] ELSE e
    BY <1>1 DEF dlt_output_hard_limit_warning
  <1>5. PICK su : su = [e.stat EXCEPT !.over_hard = FALSE, !.counter = 0, !.bytes = 0, !.left_hard = HardFrequency]
    OBVIOUS
  <1>6. su \in Stat
    BY <1>3, <1>5 DEF Stat
  <1>7. w => r.e = [e EXCEPT !.stat = su]
    BY <1>4, <1>5 DEF LoadEntry
  <1>8. CASE w
    <2>1. r.e \in LoadEntry /\ SameLimit(e, r.e) /\ r.e.stat = su
      BY <1>6, <1>7, <1>8 DEF LoadEntry, SameLimit
    <2>2. /\ su.window = e.stat.window /\ su.total = e.stat.total /\ su.last_abs_slot = e.stat.last_abs_slot
          /\ su.left_hard = HardFrequency /\ su.counter = 0 /\ ~ su.over_hard
      BY <1>3, <1>5 DEF Stat
    <2>3. e.stat.left_hard = 0
      BY <1>1, <1>8
    <2>4. HardWarned(e.stat, su, w)
      BY <1>8, <2>2, <2>3 DEF HardWarned
    <2> QED
      BY <1>2, <1>4, <2>1, <2>4
  <1>9. CASE ~w
    <2>1. r.e = e
      BY <1>4, <1>9
    <2>2. HardWarned(e.stat, e.stat, w)
      BY <1>9 DEF HardWarned
    <2> QED
      BY <1>2, <1>4, <2>1, <2>2 DEF SameLimit
  <1> QED
    BY <1>2, <1>8, <1>9

\* dlt_switch_slot_if_needed, whichever warning is evaluated first.
LEMMA SwitchIs ==
  ASSUME NEW e \in LoadEntry, NEW curr \in Nat, Balanced(e.stat),
         NEW r, r = dlt_switch_slot_if_needed(e, curr),
         NEW c, c = dlt_user_cleanup_window(e.stat, curr), NEW d, d = ElapsedSlots(e.stat, curr)
  PROVE  /\ r.e \in LoadEntry /\ SameLimit(e, r.e) /\ HardWarned(c, r.e.stat, r.hard)
         /\ r.hard \in BOOLEAN /\ r.soft \in BOOLEAN
         /\ r.hard => d > 0
  <1>1. e.stat \in Stat
    BY DEF LoadEntry
  <1>2. d \in Nat /\ c \in Stat
    BY <1>1, CleanupIs DEF Cleaned
  <1>3. PICK f : f = [e EXCEPT !.stat = c]
    OBVIOUS
  <1>4. f \in LoadEntry /\ SameLimit(e, f) /\ f.stat = c
    BY <1>2, <1>3 DEF LoadEntry, SameLimit
  <1>5. PICK s1, h1 : s1 = dlt_output_soft_limit_over_warning(f) /\ h1 = dlt_output_hard_limit_warning(f)
    OBVIOUS
  <1>6. PICK s2, h2 : s2 = dlt_output_soft_limit_over_warning(h1.e) /\ h2 = dlt_output_hard_limit_warning(s1.e)
    OBVIOUS
  <1>7. r = IF d = 0 THEN [e |-> f, soft |-> FALSE, hard |-> FALSE]
            ELSE IF loadlimit.order = "soft first"
              THEN [e |-> h2.e, soft |-> s1.warns, hard |-> h2.warns]
              ELSE [e |-> s2.e, soft |-> s2.warns, hard |-> h1.warns]
    BY <1>3, <1>5, <1>6, Zenon DEF dlt_switch_slot_if_needed
  <1>8. /\ s1.e \in LoadEntry /\ SameLimit(f, s1.e) /\ SameHard(f.stat, s1.e.stat) /\ s1.warns \in BOOLEAN
        /\ h1.e \in LoadEntry /\ SameLimit(f, h1.e) /\ HardWarned(f.stat, h1.e.stat, h1.warns) /\ h1.warns \in BOOLEAN
    BY <1>4, <1>5, SoftWarningIs, HardWarningIs
  <1>9. /\ s2.e \in LoadEntry /\ SameLimit(h1.e, s2.e) /\ SameHard(h1.e.stat, s2.e.stat) /\ s2.warns \in BOOLEAN
        /\ h2.e \in LoadEntry /\ SameLimit(s1.e, h2.e) /\ HardWarned(s1.e.stat, h2.e.stat, h2.warns) /\ h2.warns \in BOOLEAN
    BY <1>6, <1>8, SoftWarningIs, HardWarningIs
  <1>10. HardWarned(c, h2.e.stat, h2.warns)
    BY <1>4, <1>8, <1>9 DEF SameHard, HardWarned
  <1>11. HardWarned(c, s2.e.stat, h1.warns)
    BY <1>4, <1>8, <1>9 DEF SameHard, HardWarned
  <1>12. CASE d = 0
    <2>1. r.e = f /\ r.soft = FALSE /\ r.hard = FALSE
      BY <1>7, <1>12
    <2>2. HardWarned(c, f.stat, FALSE)
      BY <1>4 DEF HardWarned
    <2> QED
      BY <1>4, <2>1, <2>2
  <1>13. CASE d # 0 /\ loadlimit.order = "soft first"
    <2>1. r = [e |-> h2.e, soft |-> s1.warns, hard |-> h2.warns]
      BY <1>7, <1>13
    <2>2. r.e = h2.e /\ r.soft = s1.warns /\ r.hard = h2.warns
      <3>1. PICK x, y, z : x = h2.e /\ y = s1.warns /\ z = h2.warns
        OBVIOUS
      <3>2. r = [e |-> x, soft |-> y, hard |-> z]
        BY <2>1, <3>1, Zenon
      <3>3. r.e = x /\ r.soft = y /\ r.hard = z
        BY <3>2
      <3> QED
        BY <3>1, <3>3, Zenon
    <2>3. d > 0
      <3>1. \A n \in Nat : n # 0 => n > 0
        OBVIOUS
      <3> QED
        BY <1>2, <1>13, <3>1, Zenon
    <2>4. r.e \in LoadEntry /\ SameLimit(e, r.e) /\ r.hard \in BOOLEAN /\ r.soft \in BOOLEAN
      BY <1>4, <1>8, <1>9, <2>2, Zenon DEF SameLimit
    <2>5. HardWarned(c, r.e.stat, r.hard)
      BY <1>10, <2>2, Zenon
    <2> QED
      BY <2>3, <2>4, <2>5
  <1>14. CASE d # 0 /\ loadlimit.order # "soft first"
    <2>1. r = [e |-> s2.e, soft |-> s2.warns, hard |-> h1.warns]
      BY <1>7, <1>14
    <2>2. r.e = s2.e /\ r.soft = s2.warns /\ r.hard = h1.warns
      <3>1. PICK x, y, z : x = s2.e /\ y = s2.warns /\ z = h1.warns
        OBVIOUS
      <3>2. r = [e |-> x, soft |-> y, hard |-> z]
        BY <2>1, <3>1, Zenon
      <3>3. r.e = x /\ r.soft = y /\ r.hard = z
        BY <3>2
      <3> QED
        BY <3>1, <3>3, Zenon
    <2>3. d > 0
      <3>1. \A n \in Nat : n # 0 => n > 0
        OBVIOUS
      <3> QED
        BY <1>2, <1>14, <3>1, Zenon
    <2>4. r.e \in LoadEntry /\ SameLimit(e, r.e) /\ r.hard \in BOOLEAN /\ r.soft \in BOOLEAN
      BY <1>4, <1>8, <1>9, <2>2, Zenon DEF SameLimit
    <2>5. HardWarned(c, r.e.stat, r.hard)
      BY <1>11, <2>2, Zenon
    <2> QED
      BY <2>3, <2>4, <2>5
  <1> QED
    BY <1>12, <1>13, <1>14

\* dlt_record_trace_load.
LEMMA RecordIs ==
  ASSUME NEW st \in Stat, NEW curr \in Nat, NEW x \in Nat, NEW su, su = dlt_record_trace_load(st, curr, x)
  PROVE  /\ su \in Stat /\ su.window = [st.window EXCEPT ![curr % WindowSize] = @ + x]
         /\ su.total = st.total + x /\ su.last_abs_slot = curr /\ su.avg = Load(su.total)
         /\ su.counter = st.counter /\ su.left_hard = st.left_hard /\ su.over_hard = st.over_hard
  <1>1. PICK p : p = curr % WindowSize
    OBVIOUS
  <1>2. p \in Slots
    BY <1>1, PlaceIs
  <1>3. st.total \in Nat /\ st.window \in [Slots -> Nat]
    BY DEF Stat
  <1>4. PICK n, v, a : n = st.total + x /\ v = [st.window EXCEPT ![p] = @ + x] /\ a = Load(st.total + x)
    OBVIOUS
  <1>5. n \in Nat /\ v \in [Slots -> Nat]
    BY <1>2, <1>3, <1>4
  <1>6. a = Load(n) /\ a \in Nat
    <2>1. n <= n
      BY <1>5
    <2> QED
      BY <1>4, <1>5, <2>1, LoadGrows
  <1>7. su = [st EXCEPT !.window = v, !.total = n, !.last_abs_slot = curr, !.avg = a]
    <2>1. su = [st EXCEPT !.window[p] = @ + x, !.total = @ + x, !.last_abs_slot = curr, !.avg = a]
      BY <1>1, <1>4, Zenon DEF dlt_record_trace_load
    <2> QED
      BY <1>4, <2>1 DEF Stat
  <1>8. su \in Stat
    BY <1>5, <1>6, <1>7 DEF Stat
  <1>9. /\ su.window = v /\ su.total = n /\ su.last_abs_slot = curr /\ su.avg = a
        /\ su.counter = st.counter /\ su.left_hard = st.left_hard
    BY <1>7 DEF Stat
  <1>10. su.over_hard = st.over_hard
    BY <1>7 DEF Stat
  <1> QED
    BY <1>1, <1>4, <1>6, <1>8, <1>9, <1>10

\* dlt_is_over_trace_load_soft_limit.
LEMMA SoftLimitIs ==
  ASSUME NEW e \in LoadEntry, NEW f, f = dlt_is_over_trace_load_soft_limit(e)
  PROVE  f \in LoadEntry /\ SameLimit(e, f) /\ f.stat.avg = e.stat.avg /\ SameHard(e.stat, f.stat)
  <1>1. e.stat \in Stat
    BY DEF LoadEntry
  <1>2. PICK su : su = [e.stat EXCEPT !.over_soft = TRUE]
    OBVIOUS
  <1>3. su \in Stat
    BY <1>1, <1>2 DEF Stat
  <1>4. SameHard(e.stat, su) /\ su.avg = e.stat.avg
    BY <1>1, <1>2 DEF Stat, SameHard
  <1>5. f = [e EXCEPT !.stat = su] \/ f = e
    BY <1>2 DEF dlt_is_over_trace_load_soft_limit, LoadEntry
  <1>6. CASE f = e
    BY <1>6 DEF SameHard, SameLimit
  <1>7. CASE f = [e EXCEPT !.stat = su]
    <2>1. f \in LoadEntry /\ SameLimit(e, f) /\ f.stat = su
      BY <1>3, <1>7 DEF LoadEntry, SameLimit
    <2> QED
      BY <1>4, <2>1
  <1> QED
    BY <1>5, <1>6, <1>7

\* x bytes were added to the window w and to the total t.
Recorded(st, w, t, curr, x) ==
  st.window = [w EXCEPT ![curr % WindowSize] = @ + x] /\ st.total = t + x

HardChecked(e, f, w, t, curr, y) ==
  /\ f \in LoadEntry /\ SameLimit(e, f) /\ f.stat.last_abs_slot = e.stat.last_abs_slot
  /\ f.stat.left_hard = e.stat.left_hard
  /\ ~ IsOverHard(e) => f = e
  /\ IsOverHard(e) => /\ Recorded(f.stat, w, t, curr, y)
                      /\ f.stat.counter = e.stat.counter + 1 /\ f.stat.over_hard

LEMMA HardLimitIs ==
  ASSUME NEW e \in LoadEntry, NEW curr \in Nat, NEW x \in Nat, NEW y \in Nat, NEW w \in [Slots -> Nat],
         NEW t \in Nat, Recorded(e.stat, w, t, curr, x + y),
         NEW f, f = dlt_is_over_trace_load_hard_limit(e, curr, x)
  PROVE  HardChecked(e, f, w, t, curr, y)
  <1> USE DEF HardChecked
  <1>1. e.stat \in Stat
    BY DEF LoadEntry
  <1>2. ASSUME IsOverHard(e)
        PROVE  /\ f \in LoadEntry /\ SameLimit(e, f) /\ f.stat.last_abs_slot = e.stat.last_abs_slot
               /\ f.stat.left_hard = e.stat.left_hard
               /\ Recorded(f.stat, w, t, curr, y)
               /\ f.stat.counter = e.stat.counter + 1 /\ f.stat.over_hard
    <2>1. PICK p : p = curr % WindowSize
      OBVIOUS
    <2>2. p \in Slots
      BY <2>1, PlaceIs
    <2>3. PICK v, k, b, u : v = [w EXCEPT ![p] = @ + y] /\ k = e.stat.counter + 1 /\ b = e.stat.bytes + x /\ u = t + y
      OBVIOUS
    <2>4. v \in [Slots -> Nat] /\ u \in Nat
      BY <2>2, <2>3
    <2>5. k \in Nat /\ b \in Nat
      BY <1>1, <2>3 DEF Stat
    <2>6. [e.stat.window EXCEPT ![p] = @ - x] = v
      <3>1. PICK z : z = e.stat.window
        OBVIOUS
      <3>2. z = [w EXCEPT ![p] = w[p] + (x + y)] /\ v = [w EXCEPT ![p] = w[p] + y] /\ w[p] \in Nat
        BY <2>1, <2>2, <2>3, <3>1 DEF Recorded
      <3>3. z[p] = w[p] + (x + y) /\ z[p] - x = w[p] + y
        BY <2>2, <3>2
      <3>4. [z EXCEPT ![p] = z[p] - x] = v
        BY <2>2, <3>2, <3>3
      <3> QED
        BY <3>1, <3>4
    <2>7. e.stat.total - x = u
      BY <2>3 DEF Recorded
    <2>8. PICK su : su = [e.stat EXCEPT !.over_hard = TRUE, !.counter = k, !.bytes = b, !.window = v, !.total = u]
      OBVIOUS
    <2>9. su \in Stat
      BY <1>1, <2>4, <2>5, <2>8 DEF Stat
    <2>10. f = [e EXCEPT !.stat = [e.stat EXCEPT !.over_hard = TRUE, !.counter = @ + 1, !.bytes = @ + x,
                                                !.window[p] = @ - x, !.total = @ - x]]
      BY <1>2, <2>1, Zenon DEF dlt_is_over_trace_load_hard_limit
    <2>11. f = [e EXCEPT !.stat = su]
      <3>1. PICK g, z : g = e.stat /\ z = e.stat.window
        OBVIOUS
      <3>2. g \in Stat /\ g.window = z /\ [z EXCEPT ![p] = z[p] - x] = v
        BY <1>1, <2>6, <3>1
      <3>3. g.counter + 1 = k /\ g.bytes + x = b /\ g.total - x = u
        BY <2>3, <2>7, <3>1
      <3>4. [g EXCEPT !.over_hard = TRUE, !.counter = @ + 1, !.bytes = @ + x, !.window[p] = @ - x, !.total = @ - x]
             = [g EXCEPT !.over_hard = TRUE, !.counter = k, !.bytes = b, !.window = v, !.total = u]
        BY <3>2, <3>3 DEF Stat
      <3> QED
        BY <2>8, <2>10, <3>1, <3>4
    <2>12. f \in LoadEntry /\ SameLimit(e, f) /\ f.stat = su
      BY <2>9, <2>11 DEF LoadEntry, SameLimit
    <2>13. /\ su.last_abs_slot = e.stat.last_abs_slot /\ su.left_hard = e.stat.left_hard
           /\ su.window = v /\ su.total = u /\ su.counter = k
      BY <1>1, <2>8 DEF Stat
    <2>14. su.over_hard
      BY <1>1, <2>8 DEF Stat
    <2> QED
      BY <2>1, <2>3, <2>12, <2>13, <2>14 DEF Recorded
  <1>3. ~ IsOverHard(e) => f = e
    BY DEF dlt_is_over_trace_load_hard_limit
  <1>4. IsOverHard(e) \in BOOLEAN
    BY DEF IsOverHard
  <1> QED
    BY <1>2, <1>3, <1>4 DEF SameLimit

\* What dlt_check_trace_load does to an entry: k are the statistics after the cleanup, g is what
\* the window gains.
Checked(e, curr, k, d, c, g) ==
  /\ c.e \in LoadEntry /\ SameLimit(e, c.e) /\ c.keep \in BOOLEAN /\ c.hard \in BOOLEAN
  /\ c.warn \in Nat /\ g \in Nat
  /\ Recorded(c.e.stat, k.window, k.total, curr, g)
  /\ c.e.stat.last_abs_slot = curr
  /\ c.keep => Load(c.e.stat.total) <= e.hard
  /\ c.hard => d > 0 /\ k.left_hard = 0 /\ c.e.stat.left_hard = HardFrequency
  /\ ~c.hard => c.e.stat.left_hard = k.left_hard
  /\ c.e.stat.counter = (IF c.hard THEN 0 ELSE k.counter) + (IF c.keep THEN 0 ELSE 1)
  /\ c.e.stat.over_hard <=> ((~c.hard /\ k.over_hard) \/ ~c.keep)

LEMMA CheckIs ==
  ASSUME NEW e \in LoadEntry, NEW curr \in Nat, NEW size \in Nat, NEW sent \in Nat, Balanced(e.stat),
         NEW c, c = dlt_check_trace_load(e, curr, size, sent),
         NEW k, k = dlt_user_cleanup_window(e.stat, curr), NEW d, d = ElapsedSlots(e.stat, curr),
         NEW g, g = c.warn + (IF c.keep THEN size ELSE 0)
  PROVE  Checked(e, curr, k, d, c, g)
  <1>1. e.stat \in Stat
    BY DEF LoadEntry
  <1>2. k \in Stat
    BY <1>1, CleanupIs DEF Cleaned
  <1>3. PICK sw : sw = dlt_switch_slot_if_needed(e, curr)
    OBVIOUS
  <1>4. /\ sw.e \in LoadEntry /\ SameLimit(e, sw.e) /\ HardWarned(k, sw.e.stat, sw.hard)
        /\ sw.hard \in BOOLEAN /\ sw.soft \in BOOLEAN
        /\ sw.hard => d > 0
    BY <1>3, SwitchIs
  <1>5. PICK y : y = (IF sw.soft THEN sent ELSE 0) + (IF sw.hard THEN sent ELSE 0)
    OBVIOUS
  <1>6. y \in Nat /\ size + y \in Nat
    BY <1>5
  <1>7. PICK su : su = dlt_record_trace_load(sw.e.stat, curr, size + y)
    OBVIOUS
  <1>8. sw.e.stat \in Stat
    BY <1>4 DEF LoadEntry
  <1>9. /\ su \in Stat /\ su.window = [sw.e.stat.window EXCEPT ![curr % WindowSize] = @ + (size + y)]
        /\ su.total = sw.e.stat.total + (size + y) /\ su.last_abs_slot = curr /\ su.avg = Load(su.total)
        /\ su.counter = sw.e.stat.counter /\ su.left_hard = sw.e.stat.left_hard /\ su.over_hard = sw.e.stat.over_hard
    BY <1>6, <1>7, <1>8, RecordIs
  <1>10. PICK f : f = [sw.e EXCEPT !.stat = su]
    OBVIOUS
  <1>11. f \in LoadEntry /\ f.stat = su /\ SameLimit(e, f)
    BY <1>4, <1>9, <1>10 DEF LoadEntry, SameLimit
  <1>12. PICK h : h = dlt_is_over_trace_load_soft_limit(f)
    OBVIOUS
  <1>13. h \in LoadEntry /\ SameLimit(f, h) /\ h.stat.avg = f.stat.avg /\ SameHard(f.stat, h.stat)
    BY <1>11, <1>12, SoftLimitIs
  <1>14. PICK o : o = IsOverHard(h)
    OBVIOUS
  <1>15. o \in BOOLEAN
    BY <1>14 DEF IsOverHard
  <1>16. PICK z : z = dlt_is_over_trace_load_hard_limit(h, curr, size)
    OBVIOUS
  <1>17. c = [e |-> z, keep |-> ~o, warn |-> y, hard |-> sw.hard]
    BY <1>3, <1>5, <1>7, <1>10, <1>12, <1>14, <1>16, Zenon DEF dlt_check_trace_load
  <1>18. c.e = z /\ c.keep = ~o /\ c.warn = y /\ c.hard = sw.hard
    <2>1. PICK q, r : q = ~o /\ r = sw.hard
      OBVIOUS
    <2>2. c = [e |-> z, keep |-> q, warn |-> y, hard |-> r]
      BY <1>17, <2>1, Zenon
    <2>3. c.e = z /\ c.keep = q /\ c.warn = y /\ c.hard = r
      BY <2>2
    <2> QED
      BY <2>1, <2>3, Zenon
  <1>19. PICK w, t : w = sw.e.stat.window /\ t = sw.e.stat.total
    OBVIOUS
  <1>20. w \in [Slots -> Nat] /\ t \in Nat /\ w = k.window /\ t = k.total
    BY <1>4, <1>8, <1>19 DEF Stat, HardWarned
  <1>21. Recorded(h.stat, w, t, curr, size + y)
    BY <1>9, <1>11, <1>13, <1>19 DEF SameHard, Recorded
  <1>22. /\ z \in LoadEntry /\ SameLimit(h, z) /\ z.stat.last_abs_slot = h.stat.last_abs_slot
         /\ z.stat.left_hard = h.stat.left_hard
         /\ ~ o => z = h
         /\ o => /\ Recorded(z.stat, w, t, curr, y)
                 /\ z.stat.counter = h.stat.counter + 1 /\ z.stat.over_hard
    <2>1. w \in [Slots -> Nat] /\ t \in Nat /\ y \in Nat /\ h \in LoadEntry
      BY <1>6, <1>13, <1>20
    <2>2. HardChecked(h, z, w, t, curr, y)
      BY <1>16, <1>21, <2>1, HardLimitIs
    <2> QED
      BY <1>14, <2>2, Zenon DEF HardChecked
  <1>23. h.stat.last_abs_slot = curr /\ h.stat.left_hard = sw.e.stat.left_hard /\ h.stat.counter = sw.e.stat.counter
    BY <1>9, <1>11, <1>13 DEF SameHard
  <1>24. h.stat.over_hard = sw.e.stat.over_hard
    BY <1>9, <1>11, <1>13, Zenon DEF SameHard
  <1>25. z \in LoadEntry /\ SameLimit(e, z) /\ z.stat.last_abs_slot = curr
    BY <1>11, <1>13, <1>22, <1>23 DEF SameLimit
  <1>26. ASSUME ~o PROVE g = size + y /\ z = h
    <2>1. c.keep
      BY <1>18, <1>26, Zenon
    <2> QED
      BY <1>6, <1>18, <1>22, <1>26, <2>1
  <1>27. ASSUME o PROVE g = y
    <2>1. ~ c.keep
      BY <1>18, <1>27, Zenon
    <2> QED
      BY <1>6, <1>18, <2>1
  <1>28. g \in Nat /\ Recorded(z.stat, w, t, curr, g)
    BY <1>6, <1>15, <1>21, <1>22, <1>26, <1>27
  <1>29. ASSUME ~o PROVE Load(z.stat.total) <= e.hard
    <2>1. h.stat.avg = Load(h.stat.total)
      BY <1>9, <1>11, <1>13 DEF SameHard
    <2>2. h.stat.avg \in Nat /\ h.hard \in Nat
      BY <1>13 DEF LoadEntry, Stat
    <2>3. ~ h.stat.avg > h.hard
      BY <1>14, <1>29 DEF IsOverHard
    <2> QED
      BY <1>11, <1>13, <1>26, <1>29, <2>1, <2>2, <2>3 DEF SameLimit
  <1>30. /\ sw.hard => d > 0 /\ k.left_hard = 0 /\ z.stat.left_hard = HardFrequency
         /\ ~sw.hard => z.stat.left_hard = k.left_hard
    BY <1>4, <1>22, <1>23 DEF HardWarned
  <1>31. z.stat.counter = (IF sw.hard THEN 0 ELSE k.counter) + (IF ~o THEN 0 ELSE 1)
    <2>1. sw.e.stat.counter = IF sw.hard THEN 0 ELSE k.counter
      BY <1>4 DEF HardWarned
    <2>2. sw.e.stat.counter \in Nat
      BY <1>8 DEF Stat
    <2>3. z.stat.counter = sw.e.stat.counter + (IF ~o THEN 0 ELSE 1)
      BY <1>15, <1>22, <1>23, <2>2
    <2> QED
      BY <2>1, <2>3
  <1>32. z.stat.over_hard <=> ((~sw.hard /\ k.over_hard) \/ o)
    <2>1. sw.e.stat.over_hard <=> (~sw.hard /\ k.over_hard)
      <3>1. sw.e.stat.over_hard \in BOOLEAN /\ k.over_hard \in BOOLEAN
        BY <1>2, <1>8 DEF Stat
      <3> QED
        BY <1>4, <3>1, Zenon DEF HardWarned
    <2> QED
      BY <1>15, <1>22, <1>24, <2>1, Zenon
  <1>33. c.e \in LoadEntry /\ SameLimit(e, c.e) /\ c.e.stat.last_abs_slot = curr
    BY <1>18, <1>25
  <1>34. c.keep \in BOOLEAN /\ c.hard \in BOOLEAN /\ c.warn \in Nat
    BY <1>4, <1>6, <1>15, <1>18
  <1>35. Recorded(c.e.stat, k.window, k.total, curr, g)
    BY <1>18, <1>20, <1>28
  <1>36. c.keep => Load(c.e.stat.total) <= e.hard
    BY <1>18, <1>29, Zenon
  <1>37. /\ c.hard => d > 0 /\ k.left_hard = 0 /\ c.e.stat.left_hard = HardFrequency
         /\ ~c.hard => c.e.stat.left_hard = k.left_hard
    BY <1>18, <1>30, Zenon
  <1>38. c.e.stat.counter = (IF c.hard THEN 0 ELSE k.counter) + (IF c.keep THEN 0 ELSE 1)
    BY <1>18, <1>31, Zenon
  <1>39. c.e.stat.over_hard <=> ((~c.hard /\ k.over_hard) \/ ~c.keep)
    BY <1>18, <1>32, Zenon
  <1> QED
    BY <1>28, <1>33, <1>34, <1>35, <1>36, <1>37, <1>38, <1>39, Zenon DEF Checked

--------------------------------------------------------------------------------
(* The inductive invariant of an entry e with its ghosts: ld what was counted in  *)
(* each slot, kp what was let through, dr what was dropped, rp what was           *)
(* announced, wn the slots of the warnings; n is the last slot of the history,    *)
(* mono says that time only advances in it.                                       *)

\* The ghosts of an entry.
GhostsTyped(ld, kp, dr, rp, wn, n) ==
  ld \in [0 .. n -> Nat] /\ kp \in [0 .. n -> Nat] /\ dr \in Nat /\ rp \in Nat /\ wn \subseteq Nat

DropsOK(st, dr, rp) == dr = rp + st.counter /\ (st.over_hard <=> st.counter > 0)

\* Nothing was counted in slots to come; what was let through was counted, and is bounded.
KeptOK(last, hard, ld, kp, n) ==
  \A s \in 0 .. n : /\ kp[s] <= ld[s] /\ (s > last => ld[s] = 0)
                    /\ Load(SumOver(kp, Near(s, n))) <= hard

\* The pause that is left is what is missing from each earlier warning on.
WarnedOK(st, wn) ==
  /\ \A a \in wn : a <= st.last_abs_slot /\ st.left_hard + st.last_abs_slot >= a + HardFrequency
  /\ \A a, b \in wn : a < b => b - a >= HardFrequency

EntryOK(e, ld, kp, dr, rp, wn, n, mono) ==
  /\ e \in LoadEntry /\ GhostsTyped(ld, kp, dr, rp, wn, n) /\ Balanced(e.stat) /\ DropsOK(e.stat, dr, rp)
  /\ mono => /\ e.stat.last_abs_slot <= n /\ WindowOf(e.stat.window, ld, e.stat.last_abs_slot, n)
             /\ KeptOK(e.stat.last_abs_slot, e.hard, ld, kp, n) /\ WarnedOK(e.stat, wn)

\* What is added to a place is added to the sum.
LEMMA StaysBalanced ==
  ASSUME NEW w \in [Slots -> Nat], NEW v \in [Slots -> Nat], NEW p \in Slots, NEW x \in Nat,
         v[p] = w[p] + x, \A q \in Slots : q # p => v[q] = w[q]
  PROVE  SumOver(v, Slots) = SumOver(w, Slots) + x
  <1>2. Counts(w, Slots) /\ Counts(v, Slots) /\ w[p] \in Nat /\ v[p] = w[p] + x
    BY DEF Counts
  <1>3. \A q \in Slots : q # p => v[q] = w[q]
    OBVIOUS
  <1>4. SumOver(v, Slots) = SumOver(w, Slots) - w[p] + v[p]
    BY <1>2, <1>3, SlotsFinite, SumChange
  <1>5. SumOver(w, Slots) \in Nat
    BY <1>2, SlotsFinite, UnitsFinite
  <1> QED
    BY <1>2, <1>4, <1>5

\* What is let through in slot c does not show in the stretches that end before it, and in those
\* that end later there is no more than in the one that ends with it.
LEMMA KeptStays ==
  ASSUME NEW n \in Nat, NEW c \in 0 .. n, NEW t \in Nat, t <= c, NEW hard \in Nat,
         NEW ld \in [0 .. n -> Nat], NEW kp \in [0 .. n -> Nat],
         NEW le \in [0 .. n -> Nat], NEW ke \in [0 .. n -> Nat],
         \A s \in 0 .. n : s # c => le[s] = ld[s] /\ ke[s] = kp[s],
         KeptOK(t, hard, ld, kp, n), ke[c] <= le[c],
         ke[c] = kp[c] \/ Load(SumOver(le, Near(c, n))) <= hard
  PROVE  KeptOK(c, hard, le, ke, n)
  <1> USE DEF KeptOK
  <1> SUFFICES ASSUME NEW s \in 0 .. n
               PROVE  /\ ke[s] <= le[s] /\ (s > c => le[s] = 0)
                      /\ Load(SumOver(ke, Near(s, n))) <= hard
    OBVIOUS
  <1>1. ke[s] <= le[s] /\ (s > c => le[s] = 0)
    <2>1. kp[s] <= ld[s] /\ (s > t => ld[s] = 0)
      OBVIOUS
    <2>2. CASE s = c
      BY <2>2
    <2>3. CASE s # c
      <3>1. le[s] = ld[s] /\ ke[s] = kp[s]
        BY <2>3
      <3>2. s > c => s > t
        OBVIOUS
      <3> QED
        BY <2>1, <3>1, <3>2, Zenon
    <2> QED
      BY <2>2, <2>3
  <1>2. s \in Nat /\ c \in Nat
    OBVIOUS
  <1>3. IsFiniteSet(Near(s, n)) /\ Near(s, n) \subseteq 0 .. n /\ IsFiniteSet(Near(c, n)) /\ Near(c, n) \subseteq 0 .. n
    BY <1>2, NearIs
  <1>4. ASSUME \A q \in Near(s, n) : ke[q] = kp[q] PROVE Load(SumOver(ke, Near(s, n))) <= hard
    <2>1. SumOver(ke, Near(s, n)) = SumOver(kp, Near(s, n))
      BY <1>4, SumSame
    <2> QED
      BY <2>1
  <1>5. CASE ke[c] = kp[c]
    BY <1>1, <1>3, <1>4, <1>5
  <1>6. CASE s < c
    <2>1. \A q \in Near(s, n) : q # c /\ q \in 0 .. n
      BY <1>2, <1>6, NearIs
    <2> QED
      BY <1>1, <1>4, <2>1
  <1>7. CASE s >= c /\ Load(SumOver(le, Near(c, n))) <= hard
    <2>1. PICK S : S = Near(s, n) \cap Near(c, n)
      OBVIOUS
    <2>2. /\ S \subseteq Near(c, n) /\ S \subseteq Near(s, n)
          /\ S \cap (Near(s, n) \ S) = {} /\ S \cup (Near(s, n) \ S) = Near(s, n)
      BY <2>1
    <2>3. IsFiniteSet(S) /\ IsFiniteSet(Near(s, n) \ S)
      BY <1>3, <2>2, FS_Subset, FS_Difference
    <2>4. Counts(ke, S) /\ Counts(ke, Near(s, n) \ S) /\ Counts(le, Near(c, n)) /\ Counts(ke, Near(s, n))
      BY <1>3, <2>2 DEF Counts
    <2>5. SumOver(ke, S \cup (Near(s, n) \ S)) = SumOver(ke, S) + SumOver(ke, Near(s, n) \ S)
      BY <2>2, <2>3, <2>4, SumSplit
    <2>6. SumOver(ke, Near(s, n) \ S) = 0
      <3>1. ASSUME NEW q \in Near(s, n) \ S PROVE ke[q] = 0
        <4>1. WindowSize \in Nat /\ q \in 0 .. n /\ q \in Nat /\ q <= s /\ s < q + WindowSize /\ q \notin Near(c, n)
          BY <1>2, <1>3, <2>1, NearIs, LoadAssumption
        <4>2. ~ (q <= c /\ c < q + WindowSize)
          BY <1>2, <4>1, NearIs
        <4>3. q > c
          BY <1>2, <1>7, <4>1, <4>2
        <4>4. ke[q] = kp[q] /\ kp[q] <= ld[q] /\ ld[q] = 0 /\ kp[q] \in Nat
          BY <4>1, <4>3
        <4>5. \A x \in Nat : x <= 0 => x = 0
          OBVIOUS
        <4> QED
          BY <4>4, <4>5, Zenon
      <3> QED
        BY <3>1, SumZero
    <2>7. SumOver(ke, S) <= SumOver(le, Near(c, n))
      <3>1. \A q \in S : ke[q] \in Nat /\ ke[q] <= le[q]
        BY <1>3, <2>2
      <3> QED
        BY <1>3, <2>2, <2>4, <3>1, SumGrows
    <2>8. SumOver(ke, S) \in Nat /\ SumOver(le, Near(c, n)) \in Nat
      BY <1>3, <2>3, <2>4, UnitsFinite
    <2>9. SumOver(ke, Near(s, n)) = SumOver(ke, S)
      <3>1. SumOver(ke, Near(s, n)) = SumOver(ke, S) + 0
        BY <2>2, <2>5, <2>6, Zenon
      <3>2. \A x \in Nat : x + 0 = x
        OBVIOUS
      <3> QED
        BY <2>8, <3>1, <3>2, Zenon
    <2>10. PICK a, b : a = SumOver(ke, S) /\ b = SumOver(le, Near(c, n))
      OBVIOUS
    <2>11. Load(a) <= Load(b) /\ Load(a) \in Nat /\ Load(b) \in Nat
      BY <2>7, <2>8, <2>10, LoadGrows
    <2>12. Load(a) <= hard
      BY <1>7, <2>10, <2>11
    <2> QED
      BY <1>1, <2>9, <2>10, <2>12
  <1> QED
    BY <1>2, <1>5, <1>6, <1>7

\* The ghosts after the check of a message.
LoadAfter(c, slot, size, ld, le) == le = [ld EXCEPT ![slot] = @ + c.warn + (IF c.keep THEN size ELSE 0)]
KeptAfter(c, slot, size, kp, ke) == ke = IF c.keep THEN [kp EXCEPT ![slot] = @ + size] ELSE kp
DropsAfter(c, dr, ds) == ds = IF c.keep THEN dr ELSE dr + 1
ReportedAfter(c, e, rp, rs) == rs = IF c.hard THEN rp + e.stat.counter ELSE rp
WarnedAfter(c, slot, wn, wm) == wm = IF c.hard THEN wn \cup {slot} ELSE wn

GhostsAfter(c, e, slot, size, ld, kp, dr, rp, wn, le, ke, ds, rs, wm) ==
  /\ LoadAfter(c, slot, size, ld, le) /\ KeptAfter(c, slot, size, kp, ke) /\ DropsAfter(c, dr, ds)
  /\ ReportedAfter(c, e, rp, rs) /\ WarnedAfter(c, slot, wn, wm)

\* A message is checked: dlt_check_trace_load preserves the invariant of the entry.
LEMMA EntryChecked ==
  ASSUME NEW n \in Nat, NEW mono \in BOOLEAN, NEW e, NEW ld, NEW kp, NEW dr, NEW rp, NEW wn,
         EntryOK(e, ld, kp, dr, rp, wn, n, mono),
         NEW curr \in Nat, NEW slot \in 0 .. n, NEW size \in Nat, NEW sent \in Nat,
         mono => curr = slot /\ e.stat.last_abs_slot <= slot,
         NEW c, c = dlt_check_trace_load(e, curr, size, sent),
         NEW le, NEW ke, NEW ds, NEW rs, NEW wm,
         GhostsAfter(c, e, slot, size, ld, kp, dr, rp, wn, le, ke, ds, rs, wm)
  PROVE  /\ EntryOK(c.e, le, ke, ds, rs, wm, n, mono) /\ SameLimit(e, c.e)
         /\ c.e.stat.last_abs_slot = curr
  <1>0. /\ LoadAfter(c, slot, size, ld, le) /\ KeptAfter(c, slot, size, kp, ke) /\ DropsAfter(c, dr, ds)
        /\ ReportedAfter(c, e, rp, rs) /\ WarnedAfter(c, slot, wn, wm)
    BY DEF GhostsAfter
  <1>1. /\ e \in LoadEntry /\ ld \in [0 .. n -> Nat] /\ kp \in [0 .. n -> Nat] /\ dr \in Nat /\ rp \in Nat
        /\ wn \subseteq Nat /\ Balanced(e.stat) /\ DropsOK(e.stat, dr, rp)
    BY DEF EntryOK, GhostsTyped
  <1>2. e.stat \in Stat
    BY <1>1 DEF LoadEntry
  <1>3. PICK k, d, g, t : /\ k = dlt_user_cleanup_window(e.stat, curr) /\ d = ElapsedSlots(e.stat, curr)
                          /\ g = c.warn + (IF c.keep THEN size ELSE 0) /\ t = e.stat.last_abs_slot
    OBVIOUS
  <1>4. /\ d \in Nat /\ k \in Stat /\ Balanced(k) /\ k.counter = e.stat.counter
        /\ k.left_hard = CountDown(e.stat.left_hard, d)
        /\ d = 0 => k = e.stat
        /\ d > 0 => /\ d = curr - t /\ t < curr
                    /\ k.window = [p \in Slots |-> IF p \in Gone(t, curr) THEN 0 ELSE e.stat.window[p]]
    <2>1. Cleaned(e.stat, curr, d, k)
      BY <1>1, <1>2, <1>3, CleanupIs
    <2> QED
      BY <1>3, <2>1 DEF Cleaned
  <1>5. k.over_hard = e.stat.over_hard
    <2>1. Cleaned(e.stat, curr, d, k)
      BY <1>1, <1>2, <1>3, CleanupIs
    <2> QED
      BY <2>1 DEF Cleaned
  <1>6. /\ c.e \in LoadEntry /\ SameLimit(e, c.e) /\ c.e.hard = e.hard /\ c.keep \in BOOLEAN /\ c.hard \in BOOLEAN
        /\ c.warn \in Nat /\ g \in Nat
        /\ c.e.stat.window = [k.window EXCEPT ![curr % WindowSize] = @ + g]
        /\ c.e.stat.total = k.total + g
        /\ c.e.stat.last_abs_slot = curr
        /\ c.keep => Load(c.e.stat.total) <= e.hard
        /\ c.hard => d > 0 /\ k.left_hard = 0 /\ c.e.stat.left_hard = HardFrequency
        /\ ~c.hard => c.e.stat.left_hard = k.left_hard
        /\ c.e.stat.counter = (IF c.hard THEN 0 ELSE k.counter) + (IF c.keep THEN 0 ELSE 1)
        /\ c.e.stat.over_hard <=> ((~c.hard /\ k.over_hard) \/ ~c.keep)
    <2>1. Checked(e, curr, k, d, c, g)
      BY <1>1, <1>3, CheckIs
    <2> QED
      BY <2>1, Zenon DEF Checked, Recorded, SameLimit
  <1>7. PICK st, w, v, h : st = c.e.stat /\ w = k.window /\ v = c.e.stat.window /\ h = e.hard
    OBVIOUS
  <1>8. st \in Stat /\ w \in [Slots -> Nat] /\ v \in [Slots -> Nat] /\ t \in Nat /\ h \in Nat /\ k.total \in Nat
    BY <1>1, <1>2, <1>3, <1>4, <1>6, <1>7 DEF LoadEntry, Stat
  <1>9. PICK p : p = curr % WindowSize
    OBVIOUS
  <1>10. p \in Slots
    BY <1>9, PlaceIs
  <1>11. v = [w EXCEPT ![p] = @ + g] /\ st.total = k.total + g
    BY <1>6, <1>7, <1>9
  <1>12. Balanced(st)
    <2>1. SumOver(v, Slots) = SumOver(w, Slots) + g
      <3>1. v[p] = w[p] + g /\ \A q \in Slots : q # p => v[q] = w[q]
        BY <1>8, <1>10, <1>11
      <3> QED
        BY <1>6, <1>8, <1>10, <3>1, StaysBalanced
    <2>2. k.total = SumOver(w, Slots)
      BY <1>4, <1>7 DEF Balanced
    <2> QED
      BY <1>7, <1>11, <2>1, <2>2 DEF Balanced
  <1>13. le = [ld EXCEPT ![slot] = ld[slot] + g] /\ ld[slot] \in Nat /\ kp[slot] \in Nat
    <2>1. PICK x : x = IF c.keep THEN size ELSE 0
      OBVIOUS
    <2>2. x \in Nat /\ ld[slot] \in Nat /\ kp[slot] \in Nat
      BY <1>1, <2>1
    <2>3. ld[slot] + c.warn + x = ld[slot] + g
      BY <1>3, <1>6, <2>1, <2>2
    <2>4. le = [ld EXCEPT ![slot] = ld[slot] + c.warn + x]
      BY <1>0, <2>1 DEF LoadAfter
    <2> QED
      BY <2>2, <2>3, <2>4
  <1>14. le \in [0 .. n -> Nat] /\ le[slot] = ld[slot] + g /\ \A s \in 0 .. n : s # slot => le[s] = ld[s]
    <2>1. PICK y : y = ld[slot] + g
      OBVIOUS
    <2>2. y \in Nat /\ le = [ld EXCEPT ![slot] = y]
      BY <1>6, <1>13, <2>1
    <2> QED
      BY <1>1, <2>1, <2>2
  <1>15. /\ ke \in [0 .. n -> Nat] /\ \A s \in 0 .. n : s # slot => ke[s] = kp[s]
         /\ ke[slot] = kp[slot] + (IF c.keep THEN size ELSE 0)
         /\ ~ c.keep => ke = kp
    <2>1. CASE c.keep
      <3>1. ke = [kp EXCEPT ![slot] = @ + size]
        BY <1>0, <2>1 DEF KeptAfter
      <3> QED
        BY <1>1, <1>13, <2>1, <3>1
    <2>2. CASE ~ c.keep
      <3>1. ke = kp
        BY <1>0, <2>2 DEF KeptAfter
      <3>2. kp[slot] + 0 = kp[slot]
        BY <1>13
      <3> QED
        BY <1>1, <2>2, <3>1, <3>2
    <2> QED
      BY <1>6, <2>1, <2>2
  <1>16. ds \in Nat /\ rs \in Nat /\ wm \subseteq Nat
    <2>1. e.stat.counter \in Nat
      BY <1>2 DEF Stat
    <2>2. ds = dr \/ ds = dr + 1
      BY <1>0 DEF DropsAfter
    <2>3. rs = rp \/ rs = rp + e.stat.counter
      BY <1>0 DEF ReportedAfter
    <2>4. wm \subseteq Nat
      BY <1>0, <1>1 DEF WarnedAfter
    <2>5. ds \in Nat
      BY <1>1, <2>2
    <2>6. rs \in Nat
      <3>1. PICK m : m = e.stat.counter
        OBVIOUS
      <3>2. rp \in Nat /\ m \in Nat
        BY <1>1, <2>1, <3>1
      <3> QED
        BY <2>3, <3>1, <3>2
    <2> QED
      BY <2>4, <2>5, <2>6
  <1>17. DropsOK(st, ds, rs)
    <2>1. PICK m, u : m = e.stat.counter /\ u = st.counter
      OBVIOUS
    <2>2. m \in Nat
      BY <1>2, <2>1 DEF Stat
    <2>3. dr = rp + m /\ (e.stat.over_hard <=> m > 0)
      BY <1>1, <2>1 DEF DropsOK
    <2>4. u = (IF c.hard THEN 0 ELSE m) + (IF c.keep THEN 0 ELSE 1)
      BY <1>4, <1>6, <1>7, <2>1
    <2>5. ds = rs + u
      <3>1. rs = IF c.hard THEN rp + m ELSE rp
        BY <1>0, <2>1 DEF ReportedAfter
      <3>2. ASSUME c.keep PROVE ds = rs + u
        <4>1. ds = rp + m
          BY <1>0, <2>3, <3>2 DEF DropsAfter
        <4>2. u = IF c.hard THEN 0 ELSE m
          BY <2>2, <2>4, <3>2
        <4> QED
          BY <1>1, <2>2, <3>1, <4>1, <4>2
      <3>3. ASSUME ~ c.keep PROVE ds = rs + u
        <4>1. ds = rp + m + 1
          BY <1>0, <2>3, <3>3 DEF DropsAfter
        <4>2. u = IF c.hard THEN 1 ELSE m + 1
          BY <2>2, <2>4, <3>3
        <4> QED
          BY <1>1, <2>2, <3>1, <4>1, <4>2
      <3> QED
        BY <3>2, <3>3
    <2>6. u > 0 <=> ((~ c.hard /\ m > 0) \/ ~ c.keep)
      BY <1>6, <2>2, <2>4
    <2>7. st.over_hard <=> ((~c.hard /\ k.over_hard) \/ ~c.keep)
      BY <1>6, <1>7
    <2>8. k.over_hard <=> m > 0
      BY <1>5, <2>3
    <2>9. st.over_hard <=> u > 0
      BY <2>6, <2>7, <2>8, Zenon
    <2> QED
      BY <2>1, <2>5, <2>9 DEF DropsOK
  <1>18. ASSUME mono
         PROVE  /\ st.last_abs_slot <= n /\ WindowOf(st.window, le, st.last_abs_slot, n)
                /\ KeptOK(st.last_abs_slot, h, le, ke, n) /\ WarnedOK(st, wm)
    <2>1. curr = slot /\ t <= curr /\ curr <= n /\ st.last_abs_slot = curr /\ slot \in Nat
      BY <1>3, <1>6, <1>7, <1>18
    <2>2. /\ t <= n /\ WindowOf(e.stat.window, ld, t, n)
          /\ KeptOK(t, h, ld, kp, n) /\ WarnedOK(e.stat, wn)
      BY <1>3, <1>7, <1>18 DEF EntryOK
    <2>3. \A s \in 0 .. n : /\ kp[s] <= ld[s] /\ (s > t => ld[s] = 0)
                            /\ Load(SumOver(kp, Near(s, n))) <= h
      BY <1>3, <2>2 DEF KeptOK
    <2>4. WindowOf(w, ld, curr, n)
      <3>1. CASE d = 0
        <4>1. curr = t
          <5>1. d = IF curr < t THEN 0 ELSE curr - t
            BY <1>2, <1>3, ElapsedIs
          <5> QED
            BY <1>8, <2>1, <3>1, <5>1
        <4>2. w = e.stat.window
          BY <1>4, <1>7, <3>1
        <4> QED
          BY <2>2, <4>1, <4>2
      <3>2. CASE d > 0
        <4>1. PICK y : y = e.stat.window
          OBVIOUS
        <4>2. y \in [Slots -> Nat]
          BY <1>2, <4>1 DEF Stat
        <4>3. t < curr /\ w = [q \in Slots |-> IF q \in Gone(t, curr) THEN 0 ELSE y[q]]
          BY <1>4, <1>7, <3>2, <4>1
        <4>4. \A s \in 0 .. n : s > t => ld[s] = 0
          BY <2>3
        <4>5. WindowOf(y, ld, t, n)
          BY <2>2, <4>1
        <4> QED
          BY <1>1, <1>8, <2>1, <4>2, <4>3, <4>4, <4>5, WindowCleared
      <3> QED
        BY <1>4, <3>1, <3>2
    <2>5. WindowOf(v, le, curr, n)
      <3>1. v[curr % WindowSize] = w[curr % WindowSize] + g
        BY <1>8, <1>9, <1>10, <1>11
      <3>2. \A q \in Slots : q # curr % WindowSize => v[q] = w[q]
        BY <1>8, <1>9, <1>10, <1>11
      <3>3. le[curr] = ld[curr] + g /\ \A s \in 0 .. n : s # curr => le[s] = ld[s]
        BY <1>14, <2>1
      <3> QED
        <4>1. Gains(w, v, Slots, curr % WindowSize, g) /\ Gains(ld, le, 0 .. n, curr, g)
          BY <1>8, <1>14, <3>1, <3>2, <3>3 DEF Gains
        <4> QED
          BY <1>1, <1>6, <1>8, <2>1, <2>4, <4>1, WindowRecorded
    <2>6. KeptOK(slot, h, le, ke, n)
      <3>1. ke[slot] <= le[slot]
        <4>1. kp[slot] <= ld[slot]
          BY <2>3
        <4>2. PICK x : x = IF c.keep THEN size ELSE 0
          OBVIOUS
        <4>3. x \in Nat /\ c.warn \in Nat /\ g = c.warn + x
          BY <1>3, <1>6, <4>2
        <4>4. ke[slot] = kp[slot] + x /\ le[slot] = ld[slot] + g
          BY <1>14, <1>15, <4>2
        <4>5. ld[slot] \in Nat /\ kp[slot] \in Nat
          BY <1>13
        <4> QED
          BY <4>1, <4>3, <4>4, <4>5
      <3>2. c.keep => Load(SumOver(le, Near(slot, n))) <= h
        <4>1. SumOver(v, Slots) = SumOver(le, Near(curr, n))
          BY <1>8, <1>14, <2>5, WindowTotal
        <4>2. st.total = SumOver(v, Slots)
          BY <1>7, <1>12 DEF Balanced
        <4> QED
          BY <1>6, <1>7, <2>1, <4>1, <4>2
      <3>3. ke[slot] = kp[slot] \/ Load(SumOver(le, Near(slot, n))) <= h
        BY <1>6, <1>15, <3>2
      <3>4. \A s \in 0 .. n : s # slot => le[s] = ld[s] /\ ke[s] = kp[s]
        BY <1>14, <1>15
      <3> QED
        <4>1. /\ t <= slot /\ ld \in [0 .. n -> Nat] /\ kp \in [0 .. n -> Nat]
              /\ ke \in [0 .. n -> Nat] /\ le \in [0 .. n -> Nat]
          BY <1>1, <1>14, <1>15, <2>1
        <4> QED
          BY <1>8, <2>2, <3>1, <3>3, <3>4, <4>1, KeptStays
    <2>7. KeptOK(st.last_abs_slot, h, le, ke, n)
      BY <2>1, <2>6
    <2>8. WarnedOK(st, wm)
      <3>1. PICK l, m, H : l = e.stat.left_hard /\ m = k.left_hard /\ H = HardFrequency
        OBVIOUS
      <3>2. l \in Nat /\ m \in Nat /\ H \in Nat /\ m + d >= l
        BY <1>2, <1>4, <3>1, CountDownIs, LoadAssumption DEF Stat
      <3>3. \A a \in wn : a \in Nat /\ a <= t /\ l + t >= a + H
        BY <1>1, <1>3, <2>2, <3>1 DEF WarnedOK
      <3>4. \A a, b \in wn : a < b => b - a >= H
        BY <2>2, <3>1 DEF WarnedOK
      <3>5. d = curr - t
        <4>1. d = IF curr < t THEN 0 ELSE curr - t
          BY <1>2, <1>3, ElapsedIs
        <4> QED
          BY <1>8, <2>1, <4>1
      <3>6. \A a \in wn : a <= curr /\ m + curr >= a + H
        BY <1>8, <2>1, <3>2, <3>3, <3>5
      <3>7. CASE ~ c.hard
        <4>1. wm = wn /\ st.left_hard = m
          BY <1>0, <1>6, <1>7, <3>1, <3>7 DEF WarnedAfter
        <4> QED
          BY <2>1, <3>1, <3>4, <3>6, <4>1 DEF WarnedOK
      <3>8. CASE c.hard
        <4>1. wm = wn \cup {curr} /\ st.left_hard = H /\ m = 0 /\ d > 0
          BY <1>0, <1>6, <1>7, <2>1, <3>1, <3>8 DEF WarnedAfter
        <4>2. \A a \in wn : a < curr /\ curr - a >= H
          BY <1>8, <2>1, <3>2, <3>3, <3>5, <3>6, <4>1
        <4>3. \A a \in wm : a <= curr /\ H + curr >= a + H
          BY <1>16, <2>1, <3>2, <3>3, <4>1, <4>2
        <4>4. \A a, b \in wm : a < b => b - a >= H
          <5> SUFFICES ASSUME NEW a \in wm, NEW b \in wm, a < b PROVE b - a >= H
            OBVIOUS
          <5>1. a \in Nat /\ b \in Nat /\ a <= curr /\ b <= curr
            BY <1>16, <4>3
          <5>2. a # curr
            BY <2>1, <5>1
          <5>3. a \in wn
            BY <4>1, <5>2
          <5>4. b \in wn \/ b = curr
            BY <4>1
          <5> QED
            BY <3>4, <4>2, <5>3, <5>4
        <4> QED
          BY <2>1, <3>1, <4>1, <4>3, <4>4 DEF WarnedOK
      <3> QED
        BY <1>6, <3>7, <3>8
    <2> QED
      BY <1>7, <2>1, <2>5, <2>7, <2>8
  <1>19. GhostsTyped(le, ke, ds, rs, wm, n)
    BY <1>14, <1>15, <1>16 DEF GhostsTyped
  <1> QED
    BY <1>6, <1>7, <1>12, <1>17, <1>18, <1>19 DEF EntryOK

--------------------------------------------------------------------------------
(* The invariant of the specification *)

LastSlot == loadlimit.ticks \div WindowResolution

EntryAt(i) == EntryOK(settings[i], load[i], kept[i], dropped[i], reported[i], warned[i], LastSlot, Monotone(i))

\* settings and the ghosts are functions on the same entries.
SameEntries ==
  /\ settings = [i \in DOMAIN settings |-> settings[i]]
  /\ load = [i \in DOMAIN settings |-> load[i]]
  /\ kept = [i \in DOMAIN settings |-> kept[i]]
  /\ dropped = [i \in DOMAIN settings |-> dropped[i]]
  /\ reported = [i \in DOMAIN settings |-> reported[i]]
  /\ warned = [i \in DOMAIN settings |-> warned[i]]

\* Only the counts of an entry that two threads wrote at once are not known.
EntryFields == {"ap", "ct", "soft", "hard", "stat"}

\* What a thread logs, and when, is known from the lookup to the check.
MsgOK(m) == /\ DOMAIN m = {"pc", "msg", "level", "size", "time", "entry", "stale"}
            /\ m.size \in Nat /\ m.time \in 0 .. loadlimit.ticks
LoggersOK == loggers = [t \in Loggers |-> loggers[t]] /\ \A t \in Loggers : MsgOK(loggers[t])

LoadInv ==
  /\ loadlimit \in LoadLimits /\ now \in 0 .. loadlimit.ticks /\ SameEntries /\ LoggersOK
  /\ \A i \in DOMAIN settings : DOMAIN settings[i] = EntryFields
  /\ \A i \in DOMAIN settings \ spoiled : EntryAt(i)

LEMMA ShapeIs ==
  ASSUME loadlimit \in LoadLimit
  PROVE  /\ loadlimit.ticks \in Nat /\ loadlimit.steps \subseteq Nat /\ loadlimit.sizes \subseteq Nat
         /\ loadlimit.modulus \in Nat \ {0} /\ loadlimit.lag \in Nat /\ loadlimit.warn \subseteq Nat
         /\ LastSlot \in Nat
  <1>1. /\ loadlimit.ticks \in Nat /\ loadlimit.steps \subseteq Nat /\ loadlimit.sizes \subseteq Nat
        /\ loadlimit.modulus \in Nat \ {0} /\ loadlimit.lag \in Nat /\ loadlimit.warn \subseteq Nat
    BY DEF LoadLimit
  <1>2. WindowResolution \in Nat \ {0}
    BY LoadAssumption
  <1>3. LastSlot \in Nat
    BY <1>1, <1>2, DivMod DEF LastSlot
  <1> QED
    BY <1>1, <1>3

LEMMA IdleIs == loadlimit.ticks \in Nat => MsgOK(Idle)
  BY DEF MsgOK, Idle

LEMMA LoadOfNothing == Load(0) = 0
  <1>1. PICK m : m = TimestampBasedWindowSize
    OBVIOUS
  <1>2. m \in Nat \ {0} /\ TimestampResolution \in Nat
    BY <1>1, WindowTicks, LoadAssumption
  <1>3. 0 * TimestampResolution = 0
    BY <1>2
  <1> DEFINE q == 0 \div m
             r == 0 % m
  <1>4. q \in Nat /\ r \in Nat /\ 0 = m * q + r
    BY <1>2, DivMod
  <1> HIDE DEF q, r
  <1>5. q >= 1 => m * q >= m
    BY <1>2, <1>4
  <1>6. q = 0
    BY <1>2, <1>4, <1>5
  <1>7. 0 \div m = 0
    BY <1>6 DEF q
  <1> QED
    BY <1>1, <1>3, <1>7 DEF Load

\* An entry after memset.
LEMMA FreshEntry ==
  ASSUME NEW n \in Nat, NEW mono \in BOOLEAN, NEW ct \in Nat, NEW l, l.soft \in Nat, l.hard \in Nat
  PROVE  /\ EntryOK(Entry(App, ct, l), [s \in 0 .. n |-> 0], [s \in 0 .. n |-> 0], 0, 0, {}, n, mono)
         /\ DOMAIN Entry(App, ct, l) = EntryFields
  <1>1. PICK e, z, ld, h : e = Entry(App, ct, l) /\ z = NewStat /\ ld = [s \in 0 .. n |-> 0] /\ h = l.hard
    OBVIOUS
  <1>2. z \in Stat
    BY <1>1 DEF NewStat, Stat
  <1>3. e \in LoadEntry /\ e.stat = z /\ e.hard = h
    BY <1>1, <1>2 DEF Entry, LoadEntry, App
  <1>4. /\ z.window = [s \in Slots |-> 0] /\ z.total = 0 /\ z.last_abs_slot = 0 /\ z.counter = 0
        /\ z.left_hard = 0
    BY <1>1 DEF NewStat
  <1>5. ~ z.over_hard
    BY <1>1 DEF NewStat
  <1>6. Balanced(z)
    <2>1. \A s \in Slots : z.window[s] = 0
      BY <1>4
    <2>2. SumOver(z.window, Slots) = 0
      BY <2>1, SumZero
    <2> QED
      BY <1>4, <2>2 DEF Balanced
  <1>7. GhostsTyped(ld, ld, 0, 0, {}, n)
    BY <1>1 DEF GhostsTyped
  <1>8. DropsOK(z, 0, 0)
    BY <1>4, <1>5 DEF DropsOK
  <1>9. WindowOf(z.window, ld, 0, n)
    <2>1. \A s \in Near(0, n) : s \in 0 .. n /\ s % WindowSize \in Slots
      BY NearIs, PlaceIs
    <2> QED
      BY <1>1, <1>4, <2>1 DEF WindowOf
  <1>10. KeptOK(0, h, ld, ld, n)
    <2> SUFFICES ASSUME NEW s \in 0 .. n PROVE ld[s] = 0 /\ Load(SumOver(ld, Near(s, n))) <= h
      BY DEF KeptOK
    <2>1. s \in Nat
      OBVIOUS
    <2>2. \A q \in Near(s, n) : ld[q] = 0
      BY <1>1, <2>1, NearIs
    <2>3. SumOver(ld, Near(s, n)) = 0
      BY <2>2, SumZero
    <2>4. h \in Nat
      BY <1>1
    <2> QED
      BY <1>1, <2>3, <2>4, LoadOfNothing
  <1>11. WarnedOK(z, {})
    BY DEF WarnedOK
  <1>12. EntryOK(e, ld, ld, 0, 0, {}, n, mono)
    BY <1>3, <1>4, <1>6, <1>7, <1>8, <1>9, <1>10, <1>11 DEF EntryOK
  <1>13. DOMAIN Entry(App, ct, l) = EntryFields
    BY DEF Entry, EntryFields
  <1> QED
    BY <1>1, <1>12, <1>13

LEMMA LoadInvInit == LoadInit => LoadInv
  <1> SUFFICES ASSUME LoadInit PROVE LoadInv
    OBVIOUS
  <1>1. loadlimit \in LoadLimit /\ loadlimit \in LoadLimits
    BY LoadAssumption DEF LoadInit
  <1>2. ClientDefault.soft \in Nat /\ ClientDefault.hard \in Nat
    BY LoadAssumption DEF Limits
  <1>3. LastSlot \in Nat /\ Monotone(1) \in BOOLEAN /\ loadlimit.ticks \in Nat
    BY <1>1, ShapeIs DEF Monotone
  <1>4. NoLoad = [s \in 0 .. LastSlot |-> 0]
    BY DEF NoLoad, AbsSlots, LastSlot
  <1>5. PICK e : e = Entry(App, 0, ClientDefault)
    OBVIOUS
  <1>6. EntryOK(e, NoLoad, NoLoad, 0, 0, {}, LastSlot, Monotone(1)) /\ DOMAIN e = EntryFields
    BY <1>2, <1>3, <1>4, <1>5, FreshEntry
  <1>7. /\ settings = [i \in 1 .. 1 |-> e] /\ load = [i \in 1 .. 1 |-> NoLoad] /\ kept = [i \in 1 .. 1 |-> NoLoad]
        /\ dropped = [i \in 1 .. 1 |-> 0] /\ reported = [i \in 1 .. 1 |-> 0] /\ warned = [i \in 1 .. 1 |-> {}]
    BY <1>5 DEF LoadInit, Fresh
  <1>8. SameEntries
    BY <1>7 DEF SameEntries
  <1>9. now \in 0 .. loadlimit.ticks
    BY <1>3 DEF LoadInit
  <1>10. ASSUME NEW i \in DOMAIN settings PROVE EntryAt(i) /\ DOMAIN settings[i] = EntryFields
    <2>1. /\ settings[i] = e /\ load[i] = NoLoad /\ kept[i] = NoLoad /\ dropped[i] = 0 /\ reported[i] = 0
          /\ warned[i] = {} /\ i = 1
      BY <1>7
    <2> QED
      BY <1>6, <2>1 DEF EntryAt
  <1>11. LoggersOK
    <2>1. loggers = [t \in Loggers |-> Idle]
      BY DEF LoadInit
    <2> QED
      BY <1>3, <2>1, IdleIs DEF LoggersOK
  <1> QED
    BY <1>1, <1>8, <1>9, <1>10, <1>11 DEF LoadInv

\* The message of the daemon replaces all entries by fresh ones.
LEMMA ReceiveTraceLoadStep == LoadInv /\ ReceiveTraceLoad => LoadInv'
  <1> SUFFICES ASSUME LoadInv, ReceiveTraceLoad PROVE LoadInv'
    OBVIOUS
  <1>1. PICK sent, n : sent = dlt_daemon_user_send_trace_load_config(loadlimit.lines) /\ n = Len(sent)
    OBVIOUS
  <1>2. sent \in Seq([ct : Nat, soft : Nat, hard : Nat]) /\ loadlimit \in LoadLimit
    BY <1>1, LoadAssumption, ConfigAssumption DEF LoadInv
  <1>3. /\ settings' = [i \in 1 .. n |-> Entry(App, sent[i].ct, sent[i])]
        /\ load' = Fresh(n, NoLoad) /\ kept' = Fresh(n, NoLoad) /\ dropped' = Fresh(n, 0)
        /\ reported' = Fresh(n, 0) /\ warned' = Fresh(n, {})
        /\ loadlimit' = loadlimit /\ now' = now
        /\ loggers' = [t \in Loggers |-> [loggers[t] EXCEPT !.stale = (loggers[t].pc = "found")]]
    BY <1>1 DEF ReceiveTraceLoad
  <1>4. LastSlot \in Nat /\ LastSlot' = LastSlot
    BY <1>2, <1>3, ShapeIs DEF LastSlot
  <1>5. NoLoad = [s \in 0 .. LastSlot |-> 0]
    BY DEF NoLoad, AbsSlots, LastSlot
  <1>6. PICK z : z = NoLoad
    OBVIOUS
  <1>7. /\ load' = [i \in 1 .. n |-> z] /\ kept' = [i \in 1 .. n |-> z] /\ dropped' = [i \in 1 .. n |-> 0]
        /\ reported' = [i \in 1 .. n |-> 0] /\ warned' = [i \in 1 .. n |-> {}]
    BY <1>3, <1>6 DEF Fresh
  <1>8. DOMAIN settings' = 1 .. n
    BY <1>3
  <1>9. SameEntries'
    <2>1. settings' = [i \in DOMAIN settings' |-> settings'[i]]
      BY <1>3
    <2> QED
      BY <1>7, <1>8, <2>1 DEF SameEntries
  <1>10. now' \in 0 .. loadlimit'.ticks
    BY <1>3 DEF LoadInv
  <1>11. ASSUME NEW i \in DOMAIN settings' PROVE EntryAt(i)' /\ DOMAIN settings'[i] = EntryFields
    <2>1. PICK l, e : l = sent[i] /\ e = Entry(App, l.ct, l)
      OBVIOUS
    <2>2. i \in 1 .. n
      BY <1>8
    <2>3. l \in [ct : Nat, soft : Nat, hard : Nat]
      <3>1. ASSUME NEW S, NEW s \in Seq(S), NEW j \in 1 .. Len(s) PROVE s[j] \in S
        OBVIOUS
      <3> QED
        BY <1>1, <1>2, <2>1, <2>2, <3>1, Zenon
    <2>4. l.ct \in Nat /\ l.soft \in Nat /\ l.hard \in Nat
      BY <2>3
    <2>5. PICK mono \in BOOLEAN : mono = Monotone(i)'
      BY DEF Monotone
    <2>6. EntryOK(e, z, z, 0, 0, {}, LastSlot, mono) /\ DOMAIN e = EntryFields
      BY <1>4, <1>5, <1>6, <2>1, <2>4, FreshEntry
    <2>7. /\ settings'[i] = e /\ load'[i] = z /\ kept'[i] = z /\ dropped'[i] = 0 /\ reported'[i] = 0
          /\ warned'[i] = {}
      BY <1>3, <1>7, <2>1, <2>2
    <2> QED
      BY <1>4, <2>5, <2>6, <2>7 DEF EntryAt
  <1>12. loadlimit' \in LoadLimits
    BY <1>3 DEF LoadInv
  <1>13. LoggersOK'
    <2>1. ASSUME NEW t \in Loggers PROVE MsgOK(loggers[t])'
      <3>1. MsgOK(loggers[t]) /\ loggers'[t] = [loggers[t] EXCEPT !.stale = (loggers[t].pc = "found")]
        BY <1>3 DEF LoadInv, LoggersOK
      <3> QED
        BY <1>3, <3>1 DEF MsgOK
    <2>2. loggers' = [t \in Loggers |-> loggers'[t]]
      BY <1>3
    <2> QED
      BY <2>1, <2>2 DEF LoggersOK
  <1> QED
    BY <1>9, <1>10, <1>11, <1>12, <1>13 DEF LoadInv

\* g is f but for its value v at i.
ChangesOnly(f, g, D, i, v) == g = [x \in D |-> g[x]] /\ g[i] = v /\ \A j \in D : j # i => g[j] = f[j]

LEMMA ChangedAt ==
  ASSUME NEW D, NEW f, NEW i \in D, NEW v, f = [x \in D |-> f[x]]
  PROVE  ChangesOnly(f, [f EXCEPT ![i] = v], D, i, v)
  <1>1. PICK g : g = [f EXCEPT ![i] = v]
    OBVIOUS
  <1>2. g = [x \in D |-> IF x = i THEN v ELSE f[x]]
    BY <1>1
  <1>3. g[i] = v /\ \A j \in D : j # i => g[j] = f[j]
    BY <1>2
  <1>4. g = [x \in D |-> g[x]]
    BY <1>2
  <1> QED
    BY <1>1, <1>3, <1>4, Zenon DEF ChangesOnly

LEMMA UnchangedAt ==
  ASSUME NEW D, NEW f, NEW i, f = [x \in D |-> f[x]]
  PROVE  ChangesOnly(f, f, D, i, f[i])
  BY Zenon DEF ChangesOnly

LEMMA NowhereAt ==
  ASSUME NEW D, NEW f, NEW i, i \notin D, f = [x \in D |-> f[x]]
  PROVE  \A v : [f EXCEPT ![i] = v] = f
  OBVIOUS

\* The entries ss have the contexts and the limits of tt.
SameLimits(ss, tt) == DOMAIN ss = DOMAIN tt /\ \A i \in DOMAIN tt : SameLimit(tt[i], ss[i])

\* The lookup changes nothing but what the thread knows.
LEMMA SendStep ==
  ASSUME LoadInv, NEW t \in Loggers, dlt_user_log_send_log(t)
  PROVE  LoadInv' /\ SameLimits(settings', settings) /\ loadlimit' = loadlimit /\ told' = told
  <1>1. PICK ct \in loadlimit.contexts, level \in loadlimit.levels, size \in loadlimit.sizes,
             d \in loadlimit.steps, lag \in 0 .. loadlimit.lag :
          /\ t \in loadlimit.threads /\ loggers[t].pc = "idle"
          /\ logged < loadlimit.messages /\ now + d <= loadlimit.ticks
          /\ now' = now + d
          /\ logged' = logged + 1
          /\ loggers' = [loggers EXCEPT ![t] =
               [pc |-> "found", msg |-> logged + 1, level |-> level, size |-> size,
                time |-> IF lag > now + d THEN 0 ELSE now + d - lag,
                entry |-> dlt_find_runtime_trace_load_settings(settings, ct), stale |-> FALSE]]
          /\ UNCHANGED <<loadlimit, settings, told, kept, ghosts, stopped, late, spoiled, freed>>
    BY DEF dlt_user_log_send_log
  <1>2. /\ loadlimit \in LoadLimits /\ loadlimit \in LoadLimit /\ SameEntries /\ now \in 0 .. loadlimit.ticks
        /\ LoggersOK
    BY LoadAssumption DEF LoadInv
  <1>3. loadlimit.ticks \in Nat /\ size \in Nat /\ d \in Nat /\ lag \in Nat
    BY <1>1, <1>2, ShapeIs
  <1>4. PICK time, m : /\ time = IF lag > now + d THEN 0 ELSE now + d - lag
                       /\ m = [pc |-> "found", msg |-> logged + 1, level |-> level, size |-> size, time |-> time,
                               entry |-> dlt_find_runtime_trace_load_settings(settings, ct), stale |-> FALSE]
    OBVIOUS
  <1>5. time \in 0 .. loadlimit.ticks /\ now' \in 0 .. loadlimit.ticks
    BY <1>1, <1>2, <1>3, <1>4
  <1>6. MsgOK(m)
    BY <1>3, <1>4, <1>5 DEF MsgOK
  <1>7. loggers' = [loggers EXCEPT ![t] = m]
    BY <1>1, <1>4
  <1>8. LoggersOK'
    <2>1. ChangesOnly(loggers, loggers', Loggers, t, m)
      BY <1>2, <1>7, ChangedAt DEF LoggersOK
    <2> QED
      BY <1>1, <1>2, <1>6, <2>1 DEF LoggersOK, ChangesOnly, MsgOK
  <1>9. SameEntries' /\ SameLimits(settings', settings)
    BY <1>1, <1>2 DEF SameEntries, ghosts, SameLimits, SameLimit
  <1>10. \A i \in DOMAIN settings' \ spoiled' : EntryAt(i)'
    BY <1>1 DEF LoadInv, EntryAt, ghosts, LastSlot, Monotone
  <1>11. \A i \in DOMAIN settings' : DOMAIN settings'[i] = EntryFields
    BY <1>1 DEF LoadInv
  <1> QED
    BY <1>1, <1>2, <1>5, <1>8, <1>9, <1>10, <1>11 DEF LoadInv

\* A thread that has checked is idle.
LEMMA IdleAgain ==
  ASSUME LoadInv, NEW t \in Loggers, loggers' = [loggers EXCEPT ![t] = Idle], loadlimit' = loadlimit
  PROVE  LoggersOK'
  <1>1. loadlimit.ticks \in Nat /\ LoggersOK
    BY ShapeIs, LoadAssumption DEF LoadInv
  <1>2. MsgOK(Idle)
    BY <1>1, IdleIs
  <1>3. PICK m : m = Idle
    OBVIOUS
  <1>4. ChangesOnly(loggers, loggers', Loggers, t, m)
    BY <1>1, <1>3, ChangedAt DEF LoggersOK
  <1> QED
    BY <1>1, <1>2, <1>3, <1>4 DEF LoggersOK, ChangesOnly, MsgOK

\* Only the statistics of an entry change, and what was known of them is.
LEMMA OnlyStat ==
  ASSUME NEW e, DOMAIN e = EntryFields, NEW st, NEW v, v = [e EXCEPT !.stat = st]
  PROVE  DOMAIN v = EntryFields /\ SameLimit(e, v)
  BY DEF EntryFields, SameLimit

LEMMA StatOfEntry ==
  ASSUME NEW e \in LoadEntry, NEW f, SameLimit(e, f), NEW v, v = [e EXCEPT !.stat = f.stat],
         NEW ld, NEW kp, NEW dr, NEW rp, NEW wn, NEW n, NEW mono, EntryOK(f, ld, kp, dr, rp, wn, n, mono)
  PROVE  EntryOK(v, ld, kp, dr, rp, wn, n, mono)
  <1>1. f.stat \in Stat /\ f.hard = e.hard
    BY DEF EntryOK, LoadEntry, SameLimit
  <1>2. v \in LoadEntry /\ v.stat = f.stat /\ v.hard = f.hard
    BY <1>1 DEF LoadEntry
  <1> QED
    BY <1>2 DEF EntryOK

\* A thread alone with its entry.
LEMMA AloneStep ==
  ASSUME LoadInv, NEW t \in Loggers, CheckAlone(t)
  PROVE  LoadInv' /\ SameLimits(settings', settings) /\ loadlimit' = loadlimit /\ told' = told
  <1>1. /\ loadlimit \in LoadLimits /\ loadlimit \in LoadLimit /\ SameEntries /\ now \in 0 .. loadlimit.ticks
        /\ LoggersOK /\ \A j \in DOMAIN settings \ spoiled : EntryAt(j)
        /\ \A j \in DOMAIN settings : DOMAIN settings[j] = EntryFields
    BY LoadAssumption DEF LoadInv
  <1>2. PICK m : m = loggers[t]
    OBVIOUS
  <1>3. PICK i, size, level, time : i = m.entry /\ size = m.size /\ level = m.level /\ time = m.time
    OBVIOUS
  <1>5. PICK curr, slot : curr = (time % loadlimit.modulus) \div WindowResolution /\ slot = time \div WindowResolution
    OBVIOUS
  <1>4. PICK sent \in loadlimit.warn :
        LET c == dlt_check_trace_load(settings[i], curr, size, sent)
        IN IF Exempt(level)
             THEN UNCHANGED <<settings, kept, ghosts, late>>
             ELSE
               /\ settings' = [settings EXCEPT ![i].stat = c.e.stat]
               /\ load' = [load EXCEPT ![i][slot] =
                             @ + c.warn + (IF c.keep THEN size ELSE 0)]
               /\ kept' = IF c.keep THEN [kept EXCEPT ![i][slot] = @ + size]
                          ELSE kept
               /\ dropped' = IF c.keep THEN dropped
                             ELSE [dropped EXCEPT ![i] = @ + 1]
               /\ reported' = IF c.hard
                    THEN [reported EXCEPT ![i] = @ + settings[i].stat.counter]
                    ELSE reported
               /\ warned' = IF c.hard THEN [warned EXCEPT ![i] = @ \cup {slot}]
                            ELSE warned
               /\ late' = IF slot < settings[i].stat.last_abs_slot THEN late \cup {i} ELSE late
    BY <1>2, <1>3, <1>5, Zenon DEF CheckAlone, Result, CurrSlot, AbsSlot
  <1>6. PICK c :
        /\ c = dlt_check_trace_load(settings[i], curr, size, sent)
        /\ IF Exempt(level)
             THEN UNCHANGED <<settings, kept, ghosts, late>>
             ELSE
               /\ settings' = [settings EXCEPT ![i].stat = c.e.stat]
               /\ load' = [load EXCEPT ![i][slot] =
                             @ + c.warn + (IF c.keep THEN size ELSE 0)]
               /\ kept' = IF c.keep THEN [kept EXCEPT ![i][slot] = @ + size]
                          ELSE kept
               /\ dropped' = IF c.keep THEN dropped
                             ELSE [dropped EXCEPT ![i] = @ + 1]
               /\ reported' = IF c.hard
                    THEN [reported EXCEPT ![i] = @ + settings[i].stat.counter]
                    ELSE reported
               /\ warned' = IF c.hard THEN [warned EXCEPT ![i] = @ \cup {slot}]
                            ELSE warned
               /\ late' = IF slot < settings[i].stat.last_abs_slot THEN late \cup {i} ELSE late
    BY <1>4, Zenon
  <1>7. /\ loggers' = [loggers EXCEPT ![t] = Idle] /\ loadlimit' = loadlimit /\ told' = told /\ now' = now
        /\ spoiled' = spoiled
    BY DEF CheckAlone
  <1>8. /\ loadlimit.ticks \in Nat /\ size \in Nat /\ sent \in Nat /\ time \in 0 .. loadlimit.ticks
        /\ loadlimit.modulus \in Nat \ {0} /\ LastSlot \in Nat /\ WindowResolution \in Nat \ {0}
    BY <1>1, <1>2, <1>3, ShapeIs, LoadAssumption DEF LoggersOK, MsgOK
  <1>9. LastSlot' = LastSlot
    BY <1>7 DEF LastSlot
  <1>10. time \in Nat /\ time <= loadlimit.ticks
    BY <1>8
  <1>11. curr \in Nat /\ slot \in 0 .. LastSlot
    <2>1. time % loadlimit.modulus \in Nat
      BY <1>8, <1>10, DivMod
    <2>2. curr \in Nat /\ slot \in Nat
      BY <1>5, <1>8, <1>10, <2>1, DivMod
    <2>3. slot <= LastSlot
      BY <1>5, <1>8, <1>10, DivGrows DEF LastSlot
    <2> QED
      BY <1>8, <2>2, <2>3
  <1>13. loadlimit.modulus > loadlimit.ticks => curr = slot
    <2> SUFFICES ASSUME loadlimit.modulus > loadlimit.ticks PROVE curr = slot
      OBVIOUS
    <2>3. time < loadlimit.modulus
      BY <1>8, <1>10
    <2>4. time % loadlimit.modulus = time
      BY <1>8, <1>10, <2>3, SlotBelow
    <2> QED
      BY <1>5, <2>4
  <1>14. ASSUME NEW j \in DOMAIN settings \ spoiled,
                settings'[j] = settings[j], load'[j] = load[j], kept'[j] = kept[j], dropped'[j] = dropped[j],
                reported'[j] = reported[j], warned'[j] = warned[j], j \in late' <=> j \in late
         PROVE  EntryAt(j)'
    <2>1. EntryAt(j) /\ Monotone(j)' = Monotone(j)
      BY <1>1, <1>7, <1>14 DEF Monotone
    <2> QED
      BY <1>9, <1>14, <2>1 DEF EntryAt
  <1>15. loadlimit' \in LoadLimits /\ now' \in 0 .. loadlimit'.ticks /\ LoggersOK'
    BY <1>1, <1>7, IdleAgain
  <1>16. ASSUME settings' = settings, load' = load, kept' = kept, dropped' = dropped, reported' = reported, warned' = warned,
                \A j \in DOMAIN settings : j \in late' <=> j \in late
         PROVE  LoadInv' /\ SameLimits(settings', settings)
    <2>1. SameEntries'
      BY <1>1, <1>16 DEF SameEntries
    <2>2. ASSUME NEW j \in DOMAIN settings' \ spoiled' PROVE EntryAt(j)'
      BY <1>7, <1>14, <1>16
    <2>3. SameLimits(settings', settings)
      BY <1>16 DEF SameLimits, SameLimit
    <2> QED
      BY <1>1, <1>15, <1>16, <2>1, <2>2, <2>3 DEF LoadInv
  <1>17. CASE Exempt(level)
    <2>1. UNCHANGED <<settings, load, kept, dropped, reported, warned, late>>
      BY <1>6, <1>17 DEF ghosts
    <2> QED
      BY <1>7, <1>16, <2>1
  <1>18. CASE ~ Exempt(level) /\ i \notin DOMAIN settings
    <2>1. /\ settings' = [settings EXCEPT ![i].stat = c.e.stat]
          /\ load' = [load EXCEPT ![i][slot] = @ + c.warn + (IF c.keep THEN size ELSE 0)]
          /\ kept' = IF c.keep THEN [kept EXCEPT ![i][slot] = @ + size] ELSE kept
          /\ dropped' = IF c.keep THEN dropped ELSE [dropped EXCEPT ![i] = @ + 1]
          /\ reported' = IF c.hard THEN [reported EXCEPT ![i] = @ + settings[i].stat.counter] ELSE reported
          /\ warned' = IF c.hard THEN [warned EXCEPT ![i] = @ \cup {slot}] ELSE warned
          /\ \A j \in DOMAIN settings : j \in late' <=> j \in late
      BY <1>6, <1>18
    <2>2. settings' = settings
      <3>1. settings = [x \in DOMAIN settings |-> settings[x]]
        BY <1>1 DEF SameEntries
      <3>2. \A v : [settings EXCEPT ![i] = v] = settings
        BY <1>18, <3>1, NowhereAt
      <3> QED
        BY <2>1, <3>2, Zenon
    <2>3. load' = load
      <3>1. load = [x \in DOMAIN settings |-> load[x]]
        BY <1>1 DEF SameEntries
      <3>2. \A v : [load EXCEPT ![i] = v] = load
        BY <1>18, <3>1, NowhereAt
      <3> QED
        BY <2>1, <3>2, Zenon
    <2>4. kept' = kept
      <3>1. kept = [x \in DOMAIN settings |-> kept[x]]
        BY <1>1 DEF SameEntries
      <3>2. \A v : [kept EXCEPT ![i] = v] = kept
        BY <1>18, <3>1, NowhereAt
      <3> QED
        BY <2>1, <3>2, Zenon
    <2>5. dropped' = dropped
      <3>1. dropped = [x \in DOMAIN settings |-> dropped[x]]
        BY <1>1 DEF SameEntries
      <3>2. \A v : [dropped EXCEPT ![i] = v] = dropped
        BY <1>18, <3>1, NowhereAt
      <3> QED
        BY <2>1, <3>2, Zenon
    <2>6. reported' = reported
      <3>1. reported = [x \in DOMAIN settings |-> reported[x]]
        BY <1>1 DEF SameEntries
      <3>2. \A v : [reported EXCEPT ![i] = v] = reported
        BY <1>18, <3>1, NowhereAt
      <3> QED
        BY <2>1, <3>2, Zenon
    <2>7. warned' = warned
      <3>1. warned = [x \in DOMAIN settings |-> warned[x]]
        BY <1>1 DEF SameEntries
      <3>2. \A v : [warned EXCEPT ![i] = v] = warned
        BY <1>18, <3>1, NowhereAt
      <3> QED
        BY <2>1, <3>2, Zenon
    <2> QED
      BY <1>7, <1>16, <2>1, <2>2, <2>3, <2>4, <2>5, <2>6, <2>7
  <1>19. CASE ~ Exempt(level) /\ i \in DOMAIN settings
    <2>1. /\ settings' = [settings EXCEPT ![i].stat = c.e.stat]
          /\ load' = [load EXCEPT ![i][slot] = @ + c.warn + (IF c.keep THEN size ELSE 0)]
          /\ kept' = IF c.keep THEN [kept EXCEPT ![i][slot] = @ + size] ELSE kept
          /\ dropped' = IF c.keep THEN dropped ELSE [dropped EXCEPT ![i] = @ + 1]
          /\ reported' = IF c.hard THEN [reported EXCEPT ![i] = @ + settings[i].stat.counter] ELSE reported
          /\ warned' = IF c.hard THEN [warned EXCEPT ![i] = @ \cup {slot}] ELSE warned
          /\ late' = IF slot < settings[i].stat.last_abs_slot THEN late \cup {i} ELSE late
      BY <1>6, <1>19
    <2>2. PICK e, ld, kp, dr, rp, wn :
            /\ e = settings[i] /\ ld = load[i] /\ kp = kept[i] /\ dr = dropped[i] /\ rp = reported[i]
            /\ wn = warned[i]
      OBVIOUS
    <2>3. PICK le, ke, ds, rs, wm, v :
            /\ le = [ld EXCEPT ![slot] = @ + c.warn + (IF c.keep THEN size ELSE 0)]
            /\ ke = IF c.keep THEN [kp EXCEPT ![slot] = @ + size] ELSE kp
            /\ ds = IF c.keep THEN dr ELSE dr + 1
            /\ rs = IF c.hard THEN rp + e.stat.counter ELSE rp
            /\ wm = IF c.hard THEN wn \cup {slot} ELSE wn
            /\ v = [e EXCEPT !.stat = c.e.stat]
      OBVIOUS
    <2>4. GhostsAfter(c, e, slot, size, ld, kp, dr, rp, wn, le, ke, ds, rs, wm)
      BY <2>3, Zenon DEF GhostsAfter, LoadAfter, KeptAfter, DropsAfter, ReportedAfter, WarnedAfter
    <2>5. DOMAIN v = EntryFields /\ SameLimit(e, v)
      BY <1>1, <1>19, <2>2, <2>3, OnlyStat
    <2>7. ASSUME i \notin spoiled PROVE EntryOK(v, le, ke, ds, rs, wm, LastSlot, Monotone(i)')
      <3>1. PICK n, mono : n = LastSlot /\ mono = Monotone(i)'
        OBVIOUS
      <3>2. /\ mono \in BOOLEAN
            /\ mono => Monotone(i) /\ ~ (slot < e.stat.last_abs_slot)
            /\ mono => loadlimit.modulus > loadlimit.ticks
        BY <1>7, <2>1, <2>2, <3>1 DEF Monotone
      <3>3. EntryOK(e, ld, kp, dr, rp, wn, n, Monotone(i))
        BY <1>1, <1>19, <2>2, <2>7, <3>1 DEF EntryAt
      <3>4. EntryOK(e, ld, kp, dr, rp, wn, n, mono) /\ e \in LoadEntry /\ e.stat.last_abs_slot \in Nat
        BY <3>2, <3>3 DEF EntryOK, LoadEntry, Stat
      <3>5. mono => curr = slot /\ e.stat.last_abs_slot <= slot
        BY <1>11, <1>13, <3>2, <3>4
      <3>6. c = dlt_check_trace_load(e, curr, size, sent) /\ n \in Nat /\ slot \in 0 .. n
        BY <1>6, <1>8, <1>11, <2>2, <3>1
      <3>7. EntryOK(c.e, le, ke, ds, rs, wm, n, mono) /\ SameLimit(e, c.e)
        BY <1>8, <1>11, <2>4, <3>2, <3>4, <3>5, <3>6, EntryChecked
      <3>8. PICK f : f = c.e
        OBVIOUS
      <3>9. EntryOK(v, le, ke, ds, rs, wm, n, mono)
        BY <2>3, <3>4, <3>7, <3>8, StatOfEntry
      <3> QED
        BY <3>1, <3>9
    <2> DEFINE D == DOMAIN settings
    <2>8. i \in D
      BY <1>19
    <2>9. ChangesOnly(settings, settings', D, i, v)
      <3>1. settings' = [settings EXCEPT ![i] = v]
        BY <2>1, <2>2, <2>3, Zenon
      <3> QED
        BY <1>1, <2>8, <3>1, ChangedAt DEF SameEntries
    <2>10. ChangesOnly(load, load', D, i, le)
      <3>1. load' = [load EXCEPT ![i] = le]
        BY <2>1, <2>2, <2>3, Zenon
      <3> QED
        BY <1>1, <2>8, <3>1, ChangedAt DEF SameEntries
    <2>11. ChangesOnly(kept, kept', D, i, ke)
      <3>1. kept = [x \in D |-> kept[x]]
        BY <1>1 DEF SameEntries
      <3>2. ASSUME c.keep PROVE ChangesOnly(kept, kept', D, i, ke)
        <4>1. kept' = [kept EXCEPT ![i] = ke]
          BY <2>1, <2>2, <2>3, <3>2, Zenon
        <4> QED
          BY <2>8, <3>1, <4>1, ChangedAt
      <3>3. ASSUME ~ c.keep PROVE ChangesOnly(kept, kept', D, i, ke)
        <4>1. kept' = kept /\ ke = kept[i]
          BY <2>1, <2>2, <2>3, <3>3, Zenon
        <4>2. ChangesOnly(kept, kept, D, i, kept[i])
          BY <3>1, UnchangedAt
        <4> QED
          BY <4>1, <4>2, Zenon
      <3> QED
        BY <3>2, <3>3
    <2>12. ChangesOnly(dropped, dropped', D, i, ds)
      <3>1. dropped = [x \in D |-> dropped[x]]
        BY <1>1 DEF SameEntries
      <3>2. ASSUME ~ c.keep PROVE ChangesOnly(dropped, dropped', D, i, ds)
        <4>1. dropped' = [dropped EXCEPT ![i] = ds]
          BY <2>1, <2>2, <2>3, <3>2, Zenon
        <4> QED
          BY <2>8, <3>1, <4>1, ChangedAt
      <3>3. ASSUME c.keep PROVE ChangesOnly(dropped, dropped', D, i, ds)
        <4>1. dropped' = dropped /\ ds = dropped[i]
          BY <2>1, <2>2, <2>3, <3>3, Zenon
        <4>2. ChangesOnly(dropped, dropped, D, i, dropped[i])
          BY <3>1, UnchangedAt
        <4> QED
          BY <4>1, <4>2, Zenon
      <3> QED
        BY <3>2, <3>3
    <2>13. ChangesOnly(reported, reported', D, i, rs)
      <3>1. reported = [x \in D |-> reported[x]]
        BY <1>1 DEF SameEntries
      <3>2. ASSUME c.hard PROVE ChangesOnly(reported, reported', D, i, rs)
        <4>1. reported' = [reported EXCEPT ![i] = rs]
          BY <2>1, <2>2, <2>3, <3>2, Zenon
        <4> QED
          BY <2>8, <3>1, <4>1, ChangedAt
      <3>3. ASSUME ~ c.hard PROVE ChangesOnly(reported, reported', D, i, rs)
        <4>1. reported' = reported /\ rs = reported[i]
          BY <2>1, <2>2, <2>3, <3>3, Zenon
        <4>2. ChangesOnly(reported, reported, D, i, reported[i])
          BY <3>1, UnchangedAt
        <4> QED
          BY <4>1, <4>2, Zenon
      <3> QED
        BY <3>2, <3>3
    <2>14. ChangesOnly(warned, warned', D, i, wm)
      <3>1. warned = [x \in D |-> warned[x]]
        BY <1>1 DEF SameEntries
      <3>2. ASSUME c.hard PROVE ChangesOnly(warned, warned', D, i, wm)
        <4>1. warned' = [warned EXCEPT ![i] = wm]
          BY <2>1, <2>2, <2>3, <3>2, Zenon
        <4> QED
          BY <2>8, <3>1, <4>1, ChangedAt
      <3>3. ASSUME ~ c.hard PROVE ChangesOnly(warned, warned', D, i, wm)
        <4>1. warned' = warned /\ wm = warned[i]
          BY <2>1, <2>2, <2>3, <3>3, Zenon
        <4>2. ChangesOnly(warned, warned, D, i, warned[i])
          BY <3>1, UnchangedAt
        <4> QED
          BY <4>1, <4>2, Zenon
      <3> QED
        BY <3>2, <3>3
    <2>15. DOMAIN settings' = DOMAIN settings
      BY <2>1
    <2>16. SameEntries'
      BY <2>9, <2>10, <2>11, <2>12, <2>13, <2>14, <2>15 DEF SameEntries, ChangesOnly
    <2>17. ASSUME i \notin spoiled PROVE EntryAt(i)'
      BY <1>9, <2>7, <2>9, <2>10, <2>11, <2>12, <2>13, <2>14, <2>17 DEF ChangesOnly, EntryAt
    <2>18. ASSUME NEW j \in DOMAIN settings \ spoiled, j # i PROVE EntryAt(j)'
      <3>1. j \in late' <=> j \in late
        BY <2>1, <2>18
      <3> QED
        BY <1>14, <2>9, <2>10, <2>11, <2>12, <2>13, <2>14, <2>18, <3>1 DEF ChangesOnly
    <2>19. SameLimits(settings', settings) /\ \A j \in DOMAIN settings' : DOMAIN settings'[j] = EntryFields
      BY <1>1, <2>2, <2>5, <2>9, <2>15 DEF SameLimits, SameLimit, ChangesOnly
    <2>20. LoadInv'
      BY <1>7, <1>15, <2>15, <2>16, <2>17, <2>18, <2>19 DEF LoadInv
    <2> QED
      BY <1>7, <2>19, <2>20
  <1> QED
    BY <1>17, <1>18, <1>19

\* Two threads at once: only the other entries are what they were.
LEMMA TogetherStep ==
  ASSUME LoadInv, NEW t \in Loggers, NEW u \in Loggers, CheckTogether(t, u)
  PROVE  LoadInv' /\ SameLimits(settings', settings) /\ loadlimit' = loadlimit /\ told' = told
  <1>1. /\ loadlimit \in LoadLimits /\ loadlimit \in LoadLimit /\ SameEntries /\ now \in 0 .. loadlimit.ticks
        /\ LoggersOK /\ \A j \in DOMAIN settings \ spoiled : EntryAt(j)
        /\ \A j \in DOMAIN settings : DOMAIN settings[j] = EntryFields
    BY LoadAssumption DEF LoadInv
  <1>2. PICK i, st, kp :
          /\ settings' = [settings EXCEPT ![i].stat = st] /\ kept' = [kept EXCEPT ![i] = kp]
          /\ spoiled' = spoiled \cup {i}
    <2>1. PICK i : i = loggers[t].entry
      OBVIOUS
    <2>2. \E st, kp : settings' = [settings EXCEPT ![i].stat = st] /\ kept' = [kept EXCEPT ![i] = kp]
      BY <2>1, Zenon DEF CheckTogether
    <2>3. spoiled' = spoiled \cup {i}
      BY <2>1, Zenon DEF CheckTogether
    <2> QED
      BY <2>2, <2>3, Zenon
  <1>3. /\ loggers' = [loggers EXCEPT ![t] = Idle, ![u] = Idle]
        /\ loadlimit' = loadlimit /\ told' = told /\ now' = now
        /\ load' = load /\ dropped' = dropped /\ reported' = reported /\ warned' = warned /\ late' = late
    BY DEF CheckTogether, ghosts
  <1>4. LoggersOK'
    <2>1. loadlimit.ticks \in Nat
      BY <1>1, ShapeIs
    <2>2. MsgOK(Idle)
      BY <2>1, IdleIs
    <2>3. PICK m : m = Idle
      OBVIOUS
    <2>4. PICK g : g = [loggers EXCEPT ![t] = m]
      OBVIOUS
    <2>5. ChangesOnly(loggers, g, Loggers, t, m)
      BY <1>1, <2>4, ChangedAt DEF LoggersOK
    <2>6. loggers' = [g EXCEPT ![u] = m] /\ g = [x \in Loggers |-> g[x]]
      BY <1>3, <2>3, <2>4, <2>5, Zenon DEF ChangesOnly
    <2>7. ChangesOnly(g, loggers', Loggers, u, m)
      BY <2>6, ChangedAt
    <2> QED
      BY <1>1, <1>3, <2>2, <2>3, <2>5, <2>7 DEF LoggersOK, ChangesOnly, MsgOK
  <1>5. LastSlot' = LastSlot /\ \A j : Monotone(j)' = Monotone(j)
    BY <1>3 DEF LastSlot, Monotone
  <1>6. PICK v : v = [settings[i] EXCEPT !.stat = st]
    OBVIOUS
  <1>7. settings' = [settings EXCEPT ![i] = v]
    BY <1>2, <1>6, Zenon
  <1> DEFINE D == DOMAIN settings
  <1>8. CASE i \in D
    <2>1. DOMAIN v = EntryFields /\ SameLimit(settings[i], v)
      BY <1>1, <1>6, <1>8, OnlyStat
    <2>2. ChangesOnly(settings, settings', D, i, v)
      BY <1>1, <1>7, <1>8, ChangedAt DEF SameEntries
    <2>3. ChangesOnly(kept, kept', D, i, kp)
      BY <1>1, <1>2, <1>8, ChangedAt DEF SameEntries
    <2>4. DOMAIN settings' = D
      BY <1>7
    <2>5. SameEntries'
      BY <1>1, <1>3, <2>2, <2>3, <2>4 DEF SameEntries, ChangesOnly
    <2>6. SameLimits(settings', settings) /\ \A j \in DOMAIN settings' : DOMAIN settings'[j] = EntryFields
      BY <1>1, <2>1, <2>2, <2>4 DEF SameLimits, SameLimit, ChangesOnly
    <2>7. ASSUME NEW j \in DOMAIN settings' \ spoiled' PROVE EntryAt(j)'
      <3>1. j \in D \ spoiled /\ j # i
        BY <1>2, <2>4
      <3>2. settings'[j] = settings[j] /\ kept'[j] = kept[j] /\ EntryAt(j)
        BY <1>1, <2>2, <2>3, <3>1 DEF ChangesOnly
      <3> QED
        BY <1>3, <1>5, <3>2 DEF EntryAt
    <2> QED
      BY <1>1, <1>3, <1>4, <2>5, <2>6, <2>7 DEF LoadInv
  <1>9. CASE i \notin D
    <2>1. settings' = settings
      <3>1. \A w : [settings EXCEPT ![i] = w] = settings
        BY <1>1, <1>9, NowhereAt DEF SameEntries
      <3> QED
        BY <1>7, <3>1, Zenon
    <2>2. kept' = kept
      <3>1. kept = [x \in D |-> kept[x]]
        BY <1>1 DEF SameEntries
      <3>2. \A w : [kept EXCEPT ![i] = w] = kept
        BY <1>9, <3>1, NowhereAt
      <3> QED
        BY <1>2, <3>2, Zenon
    <2>3. SameEntries' /\ SameLimits(settings', settings)
      BY <1>1, <1>3, <2>1, <2>2 DEF SameEntries, SameLimits, SameLimit
    <2>4. ASSUME NEW j \in DOMAIN settings' \ spoiled' PROVE EntryAt(j)'
      <3>1. EntryAt(j)
        BY <1>1, <1>2, <2>1
      <3> QED
        BY <1>3, <1>5, <2>1, <2>2, <3>1 DEF EntryAt
    <2> QED
      BY <1>1, <1>3, <1>4, <2>1, <2>3, <2>4 DEF LoadInv
  <1> QED
    BY <1>8, <1>9

LEMMA FreedStep ==
  ASSUME LoadInv, NEW t \in Loggers, CheckFreed(t)
  PROVE  LoadInv' /\ SameLimits(settings', settings) /\ loadlimit' = loadlimit /\ told' = told
  <1>1. /\ loggers' = [loggers EXCEPT ![t] = Idle]
        /\ UNCHANGED <<loadlimit, settings, told, now, kept, ghosts, late, spoiled>>
    BY DEF CheckFreed
  <1>2. LoggersOK'
    BY <1>1, IdleAgain
  <1>3. SameEntries' /\ SameLimits(settings', settings)
    BY <1>1 DEF LoadInv, SameEntries, ghosts, SameLimits, SameLimit
  <1>4. \A i \in DOMAIN settings' \ spoiled' : EntryAt(i)'
    BY <1>1 DEF LoadInv, EntryAt, ghosts, LastSlot, Monotone
  <1> QED
    BY <1>1, <1>2, <1>3, <1>4 DEF LoadInv

\* A step of a thread.
Logs(t) == dlt_user_log_send_log(t) \/ CheckAlone(t) \/ (\E u \in Loggers : CheckTogether(t, u)) \/ CheckFreed(t)

LEMMA LogStep ==
  ASSUME LoadInv, NEW t \in Loggers, Logs(t)
  PROVE  LoadInv' /\ SameLimits(settings', settings) /\ loadlimit' = loadlimit /\ told' = told
  BY SendStep, AloneStep, TogetherStep, FreedStep DEF Logs

LEMMA LoadInvStep == LoadInv /\ [LoadNext]_loadvars => LoadInv'
  <1> SUFFICES ASSUME LoadInv, [LoadNext]_loadvars PROVE LoadInv'
    OBVIOUS
  <1>1. CASE ReceiveTraceLoad
    BY <1>1, ReceiveTraceLoadStep
  <1>2. CASE \E t \in Loggers : Logs(t)
    BY <1>2, LogStep
  <1>3. CASE UNCHANGED loadvars
    <2>1. UNCHANGED <<loadlimit, settings, now, loggers, load, kept, dropped, reported, warned, late, spoiled>>
      BY <1>3 DEF loadvars, ghosts
    <2> QED
      BY <2>1 DEF LoadInv, SameEntries, LoggersOK, MsgOK, EntryAt, LastSlot, Monotone
  <1> QED
    BY <1>1, <1>2, <1>3 DEF LoadNext, Logs

\* The invariant implies the properties.
LEMMA LoadInvSuffices == LoadInv => WindowExact /\ KeptBounded /\ DropsAccounted /\ WarningsSpaced
  <1> SUFFICES ASSUME LoadInv PROVE WindowExact /\ KeptBounded /\ DropsAccounted /\ WarningsSpaced
    OBVIOUS
  <1>1. \A s : Recent(s) = Near(s, LastSlot)
    BY DEF Recent, Near, AbsSlots, LastSlot
  <1>2. AbsSlots = 0 .. LastSlot /\ LastSlot \in Nat
    BY ShapeIs, LoadAssumption DEF AbsSlots, LastSlot, LoadInv
  <1>3. \A i \in Intact : EntryOK(settings[i], load[i], kept[i], dropped[i], reported[i], warned[i], LastSlot, Monotone(i))
    BY DEF LoadInv, EntryAt, Intact
  <1>4. WindowExact
    <2> SUFFICES ASSUME NEW i \in Intact
                 PROVE  /\ settings[i].stat.total = SumOver(settings[i].stat.window, Slots)
                        /\ \A s \in Slots : settings[i].stat.window[s] >= 0
                        /\ Monotone(i) => settings[i].stat.total = SumOver(load[i], Recent(settings[i].stat.last_abs_slot))
      BY Zenon DEF WindowExact
    <2>1. PICK st, w, ld, t : /\ st = settings[i].stat /\ w = settings[i].stat.window
                              /\ ld = load[i] /\ t = settings[i].stat.last_abs_slot
      OBVIOUS
    <2>2. st \in Stat /\ Balanced(st) /\ ld \in [0 .. LastSlot -> Nat] /\ (Monotone(i) => WindowOf(w, ld, t, LastSlot))
      BY <1>3, <2>1 DEF EntryOK, LoadEntry, GhostsTyped
    <2>3. w \in [Slots -> Nat] /\ t \in Nat
      BY <2>1, <2>2 DEF Stat
    <2>4. st.total = SumOver(w, Slots)
      BY <2>1, <2>2 DEF Balanced
    <2>5. Monotone(i) => SumOver(w, Slots) = SumOver(ld, Near(t, LastSlot))
      BY <1>2, <2>2, <2>3, WindowTotal
    <2>6. \A s \in Slots : w[s] >= 0
      BY <2>3
    <2> QED
      BY <1>1, <2>1, <2>4, <2>5, <2>6
  <1>5. KeptBounded
    BY <1>1, <1>2, <1>3 DEF KeptBounded, KeepsHardLimit, EntryOK, KeptOK
  <1>6. DropsAccounted
    BY <1>3 DEF DropsAccounted, EntryOK, DropsOK
  <1>7. WarningsSpaced
    BY <1>3 DEF WarningsSpaced, EntryOK, WarnedOK
  <1> QED
    BY <1>4, <1>5, <1>6, <1>7

\* Of an entry that no two threads checked against at once, as long as none checked against a freed one:
\* while time only advances, it lets no more through than its hard limit in any stretch of WindowSize
\* slots, measured over a window that holds exactly what was counted, and its hard limit warnings keep
\* their distance; at any time, also when a timestamp goes back or wraps, the total is the sum of the
\* window and every drop is announced or pending (dlt_check_trace_load).
THEOREM LoadIsLimited == LoadSpec => [](WindowExact /\ KeptBounded /\ DropsAccounted /\ WarningsSpaced)
  BY LoadInvInit, LoadInvStep, LoadInvSuffices, PTL DEF LoadSpec

--------------------------------------------------------------------------------
(* The limits come from the file *)

\* The settings are those of the message, whatever was logged since.
SentConfig == dlt_daemon_user_send_trace_load_config(loadlimit.lines)
FileInv == LoadInv /\ (told => SameLimits(settings, SentConfig))

\* A set of natural numbers has a least element.
LEMMA LeastOf ==
  ASSUME NEW T, T \subseteq Nat, T # {}
  PROVE  \E n \in T : \A m \in T : n <= m
  <1>1. PICK n \in T : \A m \in T : ~ (<<m, n>> \in OpToRel(<, Nat))
    BY NatLessThanWellFounded, WFMin
  <1>2. ASSUME NEW m \in T PROVE n <= m
    <2>1. m \in Nat /\ n \in Nat
      OBVIOUS
    <2>2. m < n => <<m, n>> \in OpToRel(<, Nat)
      BY <2>1, Zenon DEF OpToRel
    <2>3. ~ (m < n)
      BY <1>1, <2>2
    <2> QED
      BY <2>1, <2>3
  <1> QED
    BY <1>2

LEMMA MinIs ==
  ASSUME NEW S, S \subseteq Nat, S # {}
  PROVE  Min(S) \in S
  <1>1. \E x \in S : \A y \in S : x <= y
    BY LeastOf
  <1> QED
    BY <1>1, Zenon DEF Min

LEMMA MaxIs ==
  ASSUME NEW n \in Nat, NEW S, S \subseteq 0 .. n, S # {}
  PROVE  Max(S) \in S
  <1>1. PICK T : T = {n - s : s \in S}
    OBVIOUS
  <1>2. T \subseteq Nat
    BY <1>1
  <1>3. T # {}
    <2>1. PICK s \in S : TRUE
      OBVIOUS
    <2>2. n - s \in T
      BY <1>1
    <2> QED
      BY <2>2
  <1>4. PICK z \in T : \A y \in T : z <= y
    BY <1>2, <1>3, LeastOf
  <1>5. PICK x \in S : z = n - x
    BY <1>1, <1>4
  <1>6. ASSUME NEW y \in S PROVE x >= y
    <2>1. n - y \in T
      BY <1>1
    <2>2. z <= n - y
      BY <1>4, <2>1
    <2>3. x \in Nat /\ y \in Nat
      OBVIOUS
    <2> QED
      BY <1>5, <2>2, <2>3
  <1>7. \E v \in S : \A y \in S : v >= y
    BY <1>6
  <1> QED
    BY <1>7, Zenon DEF Max

\* The lookup only reads the contexts, and what it finds is an entry.
LEMMA LookupIs ==
  ASSUME NEW tt, NEW n \in Nat, DOMAIN tt = 1 .. n, NEW ss, SameLimits(ss, tt), NEW ct
  PROVE  /\ dlt_find_runtime_trace_load_settings(ss, ct) = dlt_find_runtime_trace_load_settings(tt, ct)
         /\ dlt_find_runtime_trace_load_settings(tt, ct) \in 0 .. n
  <1>1. PICK own, any : own = {i \in DOMAIN tt : tt[i].ct = ct} /\ any = {i \in DOMAIN tt : tt[i].ct = 0}
    OBVIOUS
  <1>2. own = {i \in DOMAIN ss : ss[i].ct = ct} /\ any = {i \in DOMAIN ss : ss[i].ct = 0}
    BY <1>1 DEF SameLimits, SameLimit
  <1>3. dlt_find_runtime_trace_load_settings(tt, ct) = IF own # {} THEN Min(own) ELSE IF any # {} THEN Max(any) ELSE 0
    BY <1>1, Zenon DEF dlt_find_runtime_trace_load_settings, Matching
  <1>4. dlt_find_runtime_trace_load_settings(ss, ct) = IF own # {} THEN Min(own) ELSE IF any # {} THEN Max(any) ELSE 0
    BY <1>2, Zenon DEF dlt_find_runtime_trace_load_settings, Matching
  <1>5. own \subseteq 1 .. n /\ any \subseteq 1 .. n /\ own \subseteq Nat /\ any \subseteq 0 .. n
    BY <1>1
  <1>6. own # {} => Min(own) \in own
    BY <1>5, MinIs
  <1>7. any # {} => Max(any) \in any
    BY <1>5, MaxIs
  <1>8. PICK a, b : a = Min(own) /\ b = Max(any)
    OBVIOUS
  <1>9. (own # {} => a \in 0 .. n) /\ (any # {} => b \in 0 .. n) /\ 0 \in 0 .. n
    <2>1. own # {} => a \in 0 .. n
      <3>1. own \subseteq 0 .. n
        BY <1>5
      <3> QED
        BY <1>6, <1>8, <3>1, Zenon
    <2>2. any # {} => b \in 0 .. n
      BY <1>5, <1>7, <1>8, Zenon
    <2> QED
      BY <2>1, <2>2
  <1> QED
    BY <1>3, <1>4, <1>8, <1>9

\* What fits the file still does after messages were logged.
LEMMA FitsStays ==
  ASSUME NEW tt, NEW n \in Nat, DOMAIN tt = 1 .. n, NEW ss, SameLimits(ss, tt), NEW file, FitsFile(tt, file)
  PROVE  FitsFile(ss, file)
  <1> SUFFICES ASSUME NEW ct \in Contexts
               PROVE  LET i == dlt_find_runtime_trace_load_settings(ss, ct)
                      IN i # 0 /\ BestMatch(file, ct) = [soft |-> ss[i].soft, hard |-> ss[i].hard]
    BY Zenon DEF FitsFile
  <1>1. PICK i : i = dlt_find_runtime_trace_load_settings(tt, ct)
    OBVIOUS
  <1>2. i = dlt_find_runtime_trace_load_settings(ss, ct) /\ i \in 0 .. n
    BY <1>1, LookupIs
  <1>3. i # 0 /\ BestMatch(file, ct) = [soft |-> tt[i].soft, hard |-> tt[i].hard]
    BY <1>1, Zenon DEF FitsFile
  <1>4. i \in DOMAIN tt
    BY <1>2, <1>3
  <1>5. ss[i].soft = tt[i].soft /\ ss[i].hard = tt[i].hard
    BY <1>4 DEF SameLimits, SameLimit
  <1>6. [soft |-> tt[i].soft, hard |-> tt[i].hard] = [soft |-> ss[i].soft, hard |-> ss[i].hard]
    BY <1>5
  <1> QED
    BY <1>2, <1>3, <1>6, Zenon

LEMMA FileInvInit == LoadInit => FileInv
  BY LoadInvInit DEF LoadInit, FileInv

\* The message of the daemon sets contexts and limits as sent.
LEMMA ReceivedLimits == LoadInv /\ ReceiveTraceLoad => SameLimits(settings', SentConfig')
  <1> SUFFICES ASSUME LoadInv, ReceiveTraceLoad PROVE SameLimits(settings', SentConfig')
    OBVIOUS
  <1>1. PICK sent, n : sent = SentConfig /\ n = Len(sent)
    OBVIOUS
  <1>2. sent \in Seq([ct : Nat, soft : Nat, hard : Nat])
    BY <1>1, ConfigAssumption DEF LoadInv, SentConfig
  <1>3. settings' = [i \in 1 .. n |-> Entry(App, sent[i].ct, sent[i])] /\ loadlimit' = loadlimit
    BY <1>1 DEF ReceiveTraceLoad, SentConfig
  <1>4. SentConfig' = sent
    BY <1>1, <1>3 DEF SentConfig
  <1>5. DOMAIN sent = 1 .. n
    BY <1>1, <1>2
  <1>6. ASSUME NEW i \in 1 .. n PROVE SameLimit(sent[i], settings'[i])
    <2>1. settings'[i] = Entry(App, sent[i].ct, sent[i])
      BY <1>3
    <2> QED
      BY <2>1 DEF Entry, SameLimit
  <1> QED
    BY <1>3, <1>4, <1>5, <1>6 DEF SameLimits

LEMMA FileInvStep == FileInv /\ [LoadNext]_loadvars => FileInv'
  <1> SUFFICES ASSUME FileInv, [LoadNext]_loadvars PROVE FileInv'
    OBVIOUS
  <1>1. LoadInv /\ LoadInv'
    BY LoadInvStep DEF FileInv
  <1>2. CASE ReceiveTraceLoad
    BY <1>1, <1>2, ReceivedLimits DEF FileInv
  <1>3. CASE \E t \in Loggers : Logs(t)
    <2>1. SameLimits(settings', settings) /\ SentConfig' = SentConfig /\ told' = told
      <3>1. SameLimits(settings', settings) /\ loadlimit' = loadlimit /\ told' = told
        BY <1>1, <1>3, LogStep
      <3> QED
        BY <3>1 DEF SentConfig
    <2>2. told => SameLimits(settings, SentConfig)
      BY DEF FileInv
    <2>3. told' => SameLimits(settings', SentConfig')
      BY <2>1, <2>2 DEF SameLimits, SameLimit
    <2> QED
      BY <1>1, <2>3 DEF FileInv
  <1>4. CASE UNCHANGED loadvars
    <2>1. settings' = settings /\ told' = told /\ SentConfig' = SentConfig
      BY <1>4 DEF loadvars, SentConfig
    <2> QED
      BY <1>1, <2>1 DEF FileInv
  <1> QED
    BY <1>2, <1>3, <1>4 DEF LoadNext, Logs

\* Where the parser of dlt-trace-load.conf and the daemon send, for the files of the histories with the line
\* of an application before those of its contexts, what fits best by the documentation, the contexts are
\* measured against it ever after: no message that is logged, of however many threads, changes what the
\* lookup finds, so that all of LoadLimited holds (dlt_find_runtime_trace_load_settings).
THEOREM LoadLimitedByFile ==
  ASSUME \A l \in LoadLimits : ApplicationFirst(l.lines) =>
           FitsFile(dlt_daemon_user_send_trace_load_config(l.lines), l.lines)
  PROVE  LoadSpec => []LoadLimited
  <1>1. FileInv => LoadLimited
    <2> SUFFICES ASSUME FileInv PROVE LoadLimited
      OBVIOUS
    <2>1. LoadInv
      BY DEF FileInv
    <2>2. WindowExact /\ KeptBounded /\ DropsAccounted /\ WarningsSpaced
      BY <2>1, LoadInvSuffices
    <2>3. LimitsFromFile
      <3> SUFFICES ASSUME told, ApplicationFirst(loadlimit.lines) PROVE FitsFile(settings, loadlimit.lines)
        BY DEF LimitsFromFile
      <3>1. PICK sent, n : sent = SentConfig /\ n = Len(sent)
        OBVIOUS
      <3>2. sent \in Seq([ct : Nat, soft : Nat, hard : Nat]) /\ FitsFile(sent, loadlimit.lines)
        BY <2>1, <3>1, ConfigAssumption DEF LoadInv, SentConfig
      <3>3. DOMAIN sent = 1 .. n /\ n \in Nat
        BY <3>1, <3>2
      <3>4. SameLimits(settings, sent)
        BY <3>1 DEF FileInv
      <3> QED
        BY <3>2, <3>3, <3>4, FitsStays
    <2> QED
      BY <2>2, <2>3 DEF LoadLimited
  <1> QED
    BY <1>1, FileInvInit, FileInvStep, PTL DEF LoadSpec
================================================================================
