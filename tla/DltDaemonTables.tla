---------------------------- MODULE DltDaemonTables ----------------------------
(* The tables of applications and contexts of the daemon (dlt_daemon_common.c) *)
(* with everything that changes them: the messages of applications that come   *)
(* and go (dlt-daemon.c), the control requests of clients                      *)
(* (dlt_daemon_client.c), the descriptors of the applications' pipes, and the  *)
(* configuration stored for the next start.  The default build: named pipes,   *)
(* one ECU, no levels per application in the configuration.                    *)
(*                                                                             *)
(* A handler runs to its end before the next event, so a handler is a function *)
(* from the daemon's state (the record "daemon") to the next one, and a loop   *)
(* over a table is a fold.  Ids are numbers in the order of memcmp; a          *)
(* description is its length; a pipe is the process that reads it.             *)
EXTENDS Integers, FiniteSets, Sequences, SequencesExt

CONSTANTS AppIds, CtxIds,     \* application and context ids
          IdLength,           \* length of an id, the first key of protocol 2
          Pids,               \* processes
          AppOf,              \* the application id each process registers
          Levels, Statuses,   \* log levels and trace statuses that are requested
          Descs,              \* lengths of descriptions
          ContextLogLevel, ContextTraceStatus,     \* dlt.conf
          MaxFd,              \* descriptors DLT_FD_MINIMUM .. MaxFd exist
          Limits              \* shapes of the histories, see Limit

DLT_LOG_DEFAULT == -1
DLT_LOG_VERBOSE == 6
DLT_TRACE_STATUS_ON == 1
DLT_FD_INIT == -1
DLT_FD_MINIMUM == 3

\* Version of the protocol, ForceContextLogLevelAndTraceStatus, the processes that run,
\* the requests clients send, the levels that are registered and those that are requested, and bounds:
\* messages of applications, requests, connections of clients, files the daemon opens,
\* restarts of the daemon, and moments a pipe is full.
Limit == [version : {1, 2}, force : BOOLEAN, procs : SUBSET Pids, kinds : SUBSET STRING,
          own : SUBSET Levels, levels : SUBSET Levels, statuses : SUBSET Statuses,
          descs : SUBSET Descs,
          msgs : Nat, reqs : Nat, clients : Nat, files : Nat, restarts : Nat, fulls : Nat]

ASSUME ConstAssumption ==
  /\ AppIds \subseteq Nat /\ CtxIds \subseteq Nat
  /\ IdLength \in [AppIds \union CtxIds -> Nat]
  /\ AppOf \in [Pids -> AppIds]
  /\ Levels \subseteq -1 .. 255 /\ Statuses \subseteq {-1, 0, 1} /\ Descs \subseteq Nat
  /\ ContextLogLevel \in 0 .. DLT_LOG_VERBOSE /\ ContextTraceStatus \in {0, 1}
  /\ MaxFd \in Nat /\ MaxFd >= DLT_FD_MINIMUM
  /\ Limits \subseteq Limit

Fds == DLT_FD_MINIMUM .. MaxFd
Free == "free"
Client == "client"
File == "file"
NoPid == 0
Untold == <<-2, -2>>

VARIABLES daemon,             \* the DltDaemon structure, its descriptors, and what
                              \* the applications were told
          procs,              \* "off" (not in this history), "alive" or "dead"
          files,              \* runtime_application_cfg and runtime_context_cfg
          answer,             \* the answers to the last request
          stored,             \* history: the tables of the last complete store
          limit,              \* the member of Limits this history obeys
          used                \* what has been used of its bounds

vars == <<daemon, procs, files, answer, stored, limit, used>>

--------------------------------------------------------------------------------
(* Order and search.                                                           *)

dlt_daemon_cmp_apid(a, b) == a.apid < b.apid

dlt_daemon_cmp_apid_v2(a, b) ==
  \/ IdLength[a.apid] < IdLength[b.apid]
  \/ IdLength[a.apid] = IdLength[b.apid] /\ a.apid < b.apid

dlt_daemon_cmp_apid_ctid(a, b) ==
  \/ dlt_daemon_cmp_apid(a, b)
  \/ a.apid = b.apid /\ a.ctid < b.ctid

dlt_daemon_cmp_apid_ctid_v2(a, b) ==
  \/ dlt_daemon_cmp_apid_v2(a, b)
  \/ /\ a.apid = b.apid
     /\ \/ IdLength[a.ctid] < IdLength[b.ctid]
        \/ IdLength[a.ctid] = IdLength[b.ctid] /\ a.ctid < b.ctid

SortApps(d, s) ==
  IF d.version = 1 THEN SortSeq(s, dlt_daemon_cmp_apid) ELSE SortSeq(s, dlt_daemon_cmp_apid_v2)

SortCtxs(d, s) ==
  IF d.version = 1 THEN SortSeq(s, dlt_daemon_cmp_apid_ctid)
                   ELSE SortSeq(s, dlt_daemon_cmp_apid_ctid_v2)

\* bsearch on a table sorted by the order it is searched with; 0 is the null pointer.
dlt_daemon_application_find(d, apid) == SelectInSeq(d.apps, LAMBDA a : a.apid = apid)

dlt_daemon_context_find(d, apid, ctid) ==
  SelectInSeq(d.ctxs, LAMBDA c : c.apid = apid /\ c.ctid = ctid)

\* offset_base: the contexts of application i start after those of the applications
\* before it.
OffsetBase(d, i) == FoldLeft(LAMBDA n, a : n + a.num_contexts, 0, SubSeq(d.apps, 1, i - 1))

\* The indices of the contexts the daemon takes for those of application i.
ContextsOf(d, i) == [j \in 1 .. d.apps[i].num_contexts |-> OffsetBase(d, i) + j]

--------------------------------------------------------------------------------
(* Descriptors.  "w" is the world as a handler finds it: the processes that    *)
(* live, those whose pipe is full, and whether errno holds an old EPIPE.       *)

FreeFds(d) == {n \in Fds : d.fds[n] = Free}
LowestFree(d) == CHOOSE n \in FreeFds(d) : \A m \in FreeFds(d) : n <= m

\* open(O_WRONLY | O_NONBLOCK) of the pipe of a process: it needs a reader.
CanOpen(d, w, pid) == pid \in w.alive /\ FreeFds(d) # {}

Invalidated(s, fd) ==
  FoldLeft(LAMBDA t, e : Append(t, IF e.user_handle = fd THEN [e EXCEPT !.user_handle = DLT_FD_INIT]
                                                         ELSE e), <<>>, s)

dlt_daemon_applications_invalidate_fd(d, fd) ==
  [d EXCEPT !.apps = Invalidated(d.apps, fd)]

dlt_daemon_contexts_invalidate_fd(d, fd) ==
  [d EXCEPT !.ctxs = Invalidated(d.ctxs, fd)]

\* What is meant for process "pid" goes to a descriptor that is something else by now.
Strays(d, fd, pid) == IF d.fds[fd] = pid THEN d ELSE [d EXCEPT !.strayed = @ \union {fd}]

Close(d, fd, pid) ==
  LET d1 == IF d.fds[fd] = Free THEN d ELSE Strays(d, fd, pid)
  IN  [d1 EXCEPT !.fds[fd] = Free]

\* Mutant of dlt_daemon_application_reset_user_handle: the pipe is not closed.
ResetWithoutClose(d, i) ==
  IF d.apps[i].user_handle = DLT_FD_INIT THEN d
  ELSE [dlt_daemon_contexts_invalidate_fd(d, d.apps[i].user_handle) EXCEPT
          !.apps[i].user_handle = DLT_FD_INIT, !.apps[i].owns_user_handle = FALSE]

dlt_daemon_application_reset_user_handle(d, i) ==
  LET app == d.apps[i]
      d1 == dlt_daemon_contexts_invalidate_fd(d, app.user_handle)
      d2 == IF app.owns_user_handle THEN Close(d1, app.user_handle, app.pid) ELSE d1
  IN  IF app.user_handle = DLT_FD_INIT THEN d
      ELSE [d2 EXCEPT !.apps[i].user_handle = DLT_FD_INIT,
                      !.apps[i].owns_user_handle = FALSE]

\* What writing to a descriptor gives: dlt_user_log_out2_with_timeout and
\* dlt_user_log_out3_with_timeout.  A pipe that stays full for the timeout and a
\* descriptor that is closed are plain errors without errno, a pipe whose reader
\* has died is EPIPE.  Descriptor 0 is /dev/null.
dlt_user_log_out_with_timeout(d, w, fd) ==
  CASE fd = DLT_FD_INIT -> "error"
    [] fd = 0 -> "ok"
    [] OTHER -> CASE d.fds[fd] = Free -> "error"
                  [] d.fds[fd] \in {Client, File} -> "ok"
                  [] d.fds[fd] \in w.full -> "error"
                  [] d.fds[fd] \in w.alive -> "ok"
                  [] OTHER -> "pipe"

--------------------------------------------------------------------------------
(* What the applications are told.                                             *)

\* dlt_user_log_check_user_message in the application: a level for a position it knows
\* replaces its own.
Receive(d, fd, pid, pos, levels) ==
  LET q == d.fds[fd]
      d1 == Strays(d, fd, pid)
  IN  IF q \in Pids THEN [d1 EXCEPT !.told[q][pos] = IF @ = Untold THEN @ ELSE levels] ELSE d1

\* The level and status in force for a context (no storage device is attached).
Effective(d, c) ==
  << IF c.log_level = DLT_LOG_DEFAULT THEN d.default_log_level ELSE c.log_level,
     IF c.trace_status = DLT_LOG_DEFAULT THEN d.default_trace_status ELSE c.trace_status >>

\* "missed" are the contexts whose application did not get the last change.
dlt_daemon_user_send_log_level(d, w, i) ==
  LET c == d.ctxs[i]
      a == dlt_daemon_application_find(d, c.apid)
      key == <<c.apid, c.ctid>>
  IN  CASE dlt_user_log_out_with_timeout(d, w, c.user_handle) = "ok" ->
             [d |-> [Receive(d, c.user_handle, d.apps[a].pid, c.log_level_pos, Effective(d, c))
                       EXCEPT !.missed = @ \ {key}],
              ok |-> TRUE]
        [] dlt_user_log_out_with_timeout(d, w, c.user_handle) = "pipe" ->
             [d |-> dlt_daemon_application_reset_user_handle(d, a), ok |-> FALSE]
        [] OTHER -> [d |-> d, ok |-> FALSE]

\* The same where nobody restores the table when it fails.
SendAnyway(d, w, i) ==
  LET r == dlt_daemon_user_send_log_level(d, w, i) IN
  IF r.ok THEN r.d
  ELSE [r.d EXCEPT !.missed = @ \union {<<d.ctxs[i].apid, d.ctxs[i].ctid>>}]

\* errno is not cleared before, so a plain error may look like EPIPE ("stale").
dlt_daemon_user_send_log_state(d, w, i) ==
  LET app == d.apps[i]
      out == dlt_user_log_out_with_timeout(d, w, app.user_handle)
  IN  CASE out = "ok" ->
             IF d.fds[app.user_handle] = app.pid
             THEN [d EXCEPT !.log_state[app.pid] = d.connectionState]
             ELSE Strays(d, app.user_handle, app.pid)
        [] out = "pipe" \/ (out = "error" /\ w.stale) ->
             dlt_daemon_application_reset_user_handle(d, i)
        [] OTHER -> IF app.pid \in Pids THEN [d EXCEPT !.log_state[app.pid] = -2] ELSE d

dlt_daemon_user_send_all_log_state(d, w) ==
  FoldLeft(LAMBDA e, i : IF e.apps[i].user_handle >= DLT_FD_MINIMUM
                         THEN dlt_daemon_user_send_log_state(e, w, i) ELSE e,
           d, [i \in DOMAIN d.apps |-> i])

\* Mutant of dlt_daemon_user_send_default_update: contexts with a level of their own are
\* left out, whatever their trace status.
UpdateLevelDefaultsOnly(d, w) ==
  FoldLeft(LAMBDA e, i : IF /\ e.ctxs[i].user_handle >= DLT_FD_MINIMUM
                            /\ e.ctxs[i].log_level = DLT_LOG_DEFAULT
                         THEN SendAnyway(e, w, i) ELSE e,
           d, [i \in DOMAIN d.ctxs |-> i])

dlt_daemon_user_send_default_update(d, w) ==
  FoldLeft(LAMBDA e, i : IF /\ e.ctxs[i].user_handle >= DLT_FD_MINIMUM
                            /\ \/ e.ctxs[i].log_level = DLT_LOG_DEFAULT
                               \/ e.ctxs[i].trace_status = DLT_LOG_DEFAULT
                         THEN SendAnyway(e, w, i) ELSE e,
           d, [i \in DOMAIN d.ctxs |-> i])

\* dlt_daemon_user_send_all_log_level_update and .._trace_status_update
SendAllUpdate(d, w, field, value) ==
  FoldLeft(LAMBDA e, i : IF e.ctxs[i].user_handle >= DLT_FD_MINIMUM
                         THEN SendAnyway([e EXCEPT !.ctxs[i][field] = value], w, i) ELSE e,
           d, [i \in DOMAIN d.ctxs |-> i])

dlt_daemon_user_send_all_log_level_update(d, w, log_level) ==
  SendAllUpdate(d, w, "log_level",
                IF d.force_ll_ts /\ log_level > ContextLogLevel THEN ContextLogLevel
                                                                ELSE log_level)

dlt_daemon_user_send_all_trace_status_update(d, w, trace_status) ==
  SendAllUpdate(d, w, "trace_status", trace_status)

--------------------------------------------------------------------------------
(* The tables.                                                                 *)

NewApplication(apid) ==
  [apid |-> apid, pid |-> NoPid, desc |-> 0, num_contexts |-> 0,
   user_handle |-> DLT_FD_INIT, owns_user_handle |-> FALSE]

\* Mutant of OpenUserPipe: an old use of the descriptor is not made invalid.
OpenWithoutInvalidate(d, w, i, pid) ==
  LET fd == IF CanOpen(d, w, pid) THEN LowestFree(d) ELSE DLT_FD_INIT
      d1 == IF fd = DLT_FD_INIT THEN d ELSE [d EXCEPT !.fds[fd] = pid]
  IN  [d1 EXCEPT !.apps[i].user_handle = fd,
                 !.apps[i].owns_user_handle = fd # DLT_FD_INIT,
                 !.apps[i].pid = pid]

OpenUserPipe(d, w, i, pid) ==
  LET fd == IF CanOpen(d, w, pid) THEN LowestFree(d) ELSE DLT_FD_INIT
      d1 == IF fd = DLT_FD_INIT THEN d ELSE [d EXCEPT !.fds[fd] = pid]
      d2 == dlt_daemon_contexts_invalidate_fd(dlt_daemon_applications_invalidate_fd(d1, fd), fd)
  IN  [d2 EXCEPT !.apps[i].user_handle = fd,
                 !.apps[i].owns_user_handle = fd # DLT_FD_INIT,
                 !.apps[i].pid = pid]

dlt_daemon_application_add(d, w, apid, pid, desc) ==
  LET old == dlt_daemon_application_find(d, apid)
      i == IF old = 0 THEN Len(d.apps) + 1 ELSE old
      d1 == IF old = 0 THEN [d EXCEPT !.apps = Append(@, NewApplication(apid))] ELSE d
      d2 == [d1 EXCEPT !.apps[i].desc = desc]
      d3 == IF d2.apps[i].pid = pid THEN d2
            ELSE [dlt_daemon_application_reset_user_handle(d2, i) EXCEPT !.apps[i].pid = NoPid]
      d4 == IF d3.apps[i].user_handle = DLT_FD_INIT /\ pid # NoPid
            THEN OpenUserPipe(d3, w, i, pid) ELSE d3
  IN  IF old = 0 THEN [d4 EXCEPT !.apps = SortApps(d, d4.apps)] ELSE d4

dlt_daemon_application_del(d, i) ==
  [dlt_daemon_application_reset_user_handle(d, i) EXCEPT !.apps = RemoveAt(@, i)]

\* ForceContextLogLevelAndTraceStatus caps what a context registers with.
Forced(d, value, default) == IF d.force_ll_ts /\ value > default THEN default ELSE value

\* "by" is history: the process that registered the context.
dlt_daemon_context_add(d, c) ==
  LET a == dlt_daemon_application_find(d, c.apid)
      old == dlt_daemon_context_find(d, c.apid, c.ctid)
      keep == old # 0 /\ d.runtime_context_cfg_loaded
      new == [c EXCEPT
        !.log_level = IF keep THEN d.ctxs[old].log_level
                              ELSE Forced(d, @, d.default_log_level),
        !.trace_status = IF keep THEN d.ctxs[old].trace_status
                                 ELSE Forced(d, @, d.default_trace_status),
        !.predefined = c.user_handle = 0]
      valid == /\ c.log_level \in DLT_LOG_DEFAULT .. DLT_LOG_VERBOSE
               /\ c.trace_status \in DLT_LOG_DEFAULT .. DLT_TRACE_STATUS_ON
               /\ a # 0
  IN  [ok |-> valid,
       d |-> CASE ~valid -> d
               [] old # 0 -> [d EXCEPT !.ctxs[old] = new]
               [] OTHER -> [d EXCEPT !.ctxs = SortCtxs(d, Append(d.ctxs, new)),
                                     !.apps[a].num_contexts = @ + 1]]

\* Mutant of dlt_daemon_context_del: the application still counts the context.
ContextDelUncounted(d, k) == [d EXCEPT !.ctxs = RemoveAt(@, k)]

dlt_daemon_context_del(d, k) ==
  LET a == dlt_daemon_application_find(d, d.ctxs[k].apid)
      d1 == [d EXCEPT !.ctxs = RemoveAt(@, k)]
  IN  IF a = 0 THEN d1 ELSE [d1 EXCEPT !.apps[a].num_contexts = @ - 1]

--------------------------------------------------------------------------------
(* Messages of applications.                                                   *)

dlt_daemon_process_user_message_register_application(d, w, apid, pid, desc) ==
  LET d1 == dlt_daemon_application_add(d, w, apid, pid, desc)
  IN  dlt_daemon_user_send_log_state(d1, w, dlt_daemon_application_find(d1, apid))

\* The application is only told when it asked for a default.  Where its own level is not
\* the one the table keeps, it does not get to know.
dlt_daemon_process_user_message_register_context(d, w, pid, c) ==
  LET a == dlt_daemon_application_find(d, c.apid)
      r == dlt_daemon_context_add(d, [c EXCEPT !.user_handle = d.apps[a].user_handle])
      i == dlt_daemon_context_find(r.d, c.apid, c.ctid)
      asks == c.log_level = DLT_LOG_DEFAULT \/ c.trace_status = DLT_LOG_DEFAULT
      key == <<c.apid, c.ctid>>
      overridden == d.force_ll_ts \/ d.runtime_context_cfg_loaded
      d1 == [r.d EXCEPT !.missed = IF overridden THEN @ \union {key} ELSE @ \ {key}]
  IN  CASE a = 0 \/ ~r.ok -> d
        [] asks /\ r.d.ctxs[i].user_handle >= DLT_FD_MINIMUM -> SendAnyway(d1, w, i)
        [] OTHER -> d1

dlt_daemon_process_user_message_unregister_application(d, apid) ==
  LET i == dlt_daemon_application_find(d, apid)
      d1 == FoldRight(LAMBDA k, e : dlt_daemon_context_del(e, k), ContextsOf(d, i), d)
  IN  IF i = 0 THEN d ELSE dlt_daemon_application_del(d1, i)

\* A context of the stored configuration stays until its application goes.
dlt_daemon_process_user_message_unregister_context(d, apid, ctid) ==
  LET k == dlt_daemon_context_find(d, apid, ctid)
  IN  IF k # 0 /\ ~d.ctxs[k].predefined THEN dlt_daemon_context_del(d, k) ELSE d

\* The application has changed its own levels already, so it misses the restored ones.
SetBoth(d, w, k, log_level, trace_status) ==
  LET old == d.ctxs[k]
      d1 == [d EXCEPT !.ctxs[k].log_level = log_level, !.ctxs[k].trace_status = trace_status]
      r == dlt_daemon_user_send_log_level(d1, w, k)
  IN  CASE old.user_handle < DLT_FD_MINIMUM -> d1
        [] r.ok -> r.d
        [] OTHER -> [r.d EXCEPT !.ctxs[k].log_level = old.log_level,
                                !.ctxs[k].trace_status = old.trace_status,
                                !.missed = @ \union {<<old.apid, old.ctid>>}]

dlt_daemon_process_user_message_set_app_ll_ts(d, w, apid, log_level, trace_status) ==
  LET i == dlt_daemon_application_find(d, apid)
  IN  IF i = 0 THEN d
      ELSE FoldLeft(LAMBDA e, k : SetBoth(e, w, k, log_level, trace_status), d, ContextsOf(d, i))

--------------------------------------------------------------------------------
(* Control requests.  A value of a request is an unsigned byte; an answer is   *)
(* "ok" or "error", one for each context a request is about.                   *)

Int8(x) == IF x > 127 THEN x - 256 ELSE x
UInt8(x) == IF x < 0 THEN x + 256 ELSE x

getStatus(request, context) == IF request <= context THEN Int8(request) ELSE context

\* dlt_daemon_send_log_level and dlt_daemon_send_trace_status: the table only keeps what
\* the application was told.
SendField(d, w, k, field, value) ==
  LET r == dlt_daemon_user_send_log_level([d EXCEPT !.ctxs[k][field] = value], w, k)
  IN  CASE d.ctxs[k].user_handle < DLT_FD_MINIMUM -> [d |-> d, answers |-> <<"error">>]
        [] r.ok -> [d |-> r.d, answers |-> <<"ok">>]
        [] OTHER -> [d |-> [r.d EXCEPT !.ctxs[k][field] = d.ctxs[k][field]],
                     answers |-> <<"error">>]

dlt_daemon_send_log_level(d, w, k, value) == SendField(d, w, k, "log_level", value)

dlt_daemon_send_trace_status(d, w, k, value) == SendField(d, w, k, "trace_status", value)

\* A pattern matches the ids from lo to hi: one id, or those with a common prefix.  The
\* table is sorted by application, so the loop ends at the first application beyond.
FindMultiple(d, Send(_, _), by, lo, hi) ==
  LET step(r, k) ==
        LET id == d.ctxs[k][by]
            one == Send(r.d, k)
        IN  CASE r.stop -> r
              [] id \in lo .. hi -> [d |-> one.d, answers |-> r.answers \o one.answers,
                                     stop |-> FALSE]
              [] id > hi /\ by = "apid" -> [r EXCEPT !.stop = TRUE]
              [] OTHER -> r
      end == FoldLeft(step, [d |-> d, answers |-> <<>>, stop |-> FALSE],
                      [k \in DOMAIN d.ctxs |-> k])
  IN  [d |-> end.d, answers |-> end.answers]

dlt_daemon_find_multiple_context_and_send_log_level(d, w, by, lo, hi, value) ==
  FindMultiple(d, LAMBDA e, k : dlt_daemon_send_log_level(e, w, k, value), by, lo, hi)

dlt_daemon_find_multiple_context_and_send_trace_status(d, w, by, lo, hi, value) ==
  FindMultiple(d, LAMBDA e, k : dlt_daemon_send_trace_status(e, w, k, value), by, lo, hi)

dlt_daemon_control_set_log_level(d, w, req) ==
  LET value == IF d.force_ll_ts THEN getStatus(req.value, ContextLogLevel) ELSE Int8(req.value)
      k == dlt_daemon_context_find(d, req.lo, req.ctid)
  IN  CASE req.by # "both" ->
             dlt_daemon_find_multiple_context_and_send_log_level(d, w, req.by, req.lo, req.hi, value)
        [] k # 0 -> dlt_daemon_send_log_level(d, w, k, value)
        [] OTHER -> [d |-> d, answers |-> <<"error">>]

dlt_daemon_control_set_trace_status(d, w, req) ==
  LET value == IF d.force_ll_ts THEN getStatus(req.value, ContextTraceStatus) ELSE Int8(req.value)
      k == dlt_daemon_context_find(d, req.lo, req.ctid)
  IN  CASE req.by # "both" ->
             dlt_daemon_find_multiple_context_and_send_trace_status(d, w, req.by, req.lo, req.hi, value)
        [] k # 0 -> dlt_daemon_send_trace_status(d, w, k, value)
        [] OTHER -> [d |-> d, answers |-> <<"error">>]

Done(d) == [d |-> d, answers |-> <<"ok">>]
Refused(d) == [d |-> d, answers |-> <<"error">>]

dlt_daemon_control_set_default_log_level(d, w, req) ==
  IF req.value > DLT_LOG_VERBOSE THEN Refused(d)
  ELSE Done(dlt_daemon_user_send_default_update(
         [d EXCEPT !.default_log_level =
            IF d.force_ll_ts THEN getStatus(req.value, ContextLogLevel) ELSE req.value], w))

dlt_daemon_control_set_default_trace_status(d, w, req) ==
  IF req.value > DLT_TRACE_STATUS_ON THEN Refused(d)
  ELSE Done(dlt_daemon_user_send_default_update(
         [d EXCEPT !.default_trace_status =
            IF d.force_ll_ts THEN getStatus(req.value, ContextTraceStatus) ELSE req.value], w))

dlt_daemon_control_set_all_log_level(d, w, req) ==
  IF req.value > DLT_LOG_VERBOSE /\ req.value # 255 THEN Refused(d)
  ELSE Done(dlt_daemon_user_send_all_log_level_update(d, w, Int8(req.value)))

dlt_daemon_control_set_all_trace_status(d, w, req) ==
  IF req.value > DLT_TRACE_STATUS_ON /\ req.value # 255 THEN Refused(d)
  ELSE Done(dlt_daemon_user_send_all_trace_status_update(d, w,
              IF d.force_ll_ts THEN getStatus(req.value, ContextTraceStatus)
                               ELSE Int8(req.value)))

\* The level of an injection's context is not concerned.  A pipe without reader is closed
\* on behalf of this context alone: its application and the other contexts keep the number,
\* which is "abandoned" from then on.
dlt_daemon_control_callsw_cinjection(d, w, req) ==
  LET k == dlt_daemon_context_find(d, req.lo, req.ctid)
      c == d.ctxs[k]
      out == dlt_user_log_out_with_timeout(d, w, c.user_handle)
      pid == d.apps[dlt_daemon_application_find(d, c.apid)].pid
  IN  CASE k = 0 \/ out = "error" -> Refused(d)
        [] k # 0 /\ out = "pipe" ->
             Refused([Close(d, c.user_handle, pid) EXCEPT
                        !.ctxs[k].user_handle = DLT_FD_INIT,
                        !.abandoned = @ \union {c.user_handle}])
        [] OTHER -> Done(IF c.user_handle = 0 THEN d ELSE Strays(d, c.user_handle, pid))

--------------------------------------------------------------------------------
(* GET_LOG_INFO: the size of the answer is computed first, then it is filled   *)
(* in.  0 stands for an id the request leaves out.                             *)

LogInfoRequest == [apid : AppIds \union {0}, ctid : CtxIds \union {0}, options : 3 .. 7]

\* num_applications and num_contexts
NumApplications(d, req) ==
  CASE req.apid = 0 -> Len(d.apps)
    [] dlt_daemon_application_find(d, req.apid) # 0 -> 1
    [] OTHER -> 0

NumContexts(d, req) ==
  LET i == dlt_daemon_application_find(d, req.apid) IN
  CASE req.apid = 0 -> Len(d.ctxs)
    [] i = 0 -> 0
    [] i # 0 /\ req.ctid # 0 -> IF dlt_daemon_context_find(d, req.apid, req.ctid) = 0 THEN 0 ELSE 1
    [] OTHER -> d.apps[i].num_contexts

\* Mutant of SizeOfContext: mode 7 has no trace status.
SizeWithoutStatus(req) == 4 + (IF req.options \in {4, 6, 7} THEN 1 ELSE 0)
                            + (IF req.options \in {5, 6} THEN 1 ELSE 0)

SizeOfContext(req) == 4 + (IF req.options \in {4, 6, 7} THEN 1 ELSE 0)
                        + (IF req.options \in {5, 6, 7} THEN 1 ELSE 0)

Sum(s) == FoldLeft(LAMBDA m, n : m + n, 0, s)

\* Mode 7: the descriptions, each with a length of two bytes.
SizeOfDescriptions(d, req) ==
  LET i == dlt_daemon_application_find(d, req.apid)
      k == dlt_daemon_context_find(d, req.apid, req.ctid)
      ctx == CASE req.apid = 0 -> [j \in DOMAIN d.ctxs |-> j]
               [] i = 0 -> <<>>
               [] i # 0 /\ req.ctid # 0 -> IF k = 0 THEN <<>> ELSE <<k>>
               [] OTHER -> ContextsOf(d, i)
      app == CASE req.apid = 0 -> [j \in DOMAIN d.apps |-> j]
               [] i = 0 -> <<>>
               [] OTHER -> <<i>>
  IN  Sum([j \in DOMAIN ctx |-> 2 + d.ctxs[ctx[j]].desc])
        + Sum([j \in DOMAIN app |-> 2 + d.apps[app[j]].desc])

\* The service id, the status, the closing string, the number of applications, and then
\* every application with its contexts.
LogInfoDataSize(d, req) ==
  4 + 1 + 4 + 2 + NumApplications(d, req) * (4 + 2) + NumContexts(d, req) * SizeOfContext(req)
    + (IF req.options = 7 THEN SizeOfDescriptions(d, req) ELSE 0)

\* One application of the answer: the number of contexts it announces and the contexts it
\* lists.
LogInfoOf(d, req, i) ==
  LET count == IF req.apid # 0 THEN NumContexts(d, req) ELSE d.apps[i].num_contexts
      found == dlt_daemon_context_find(d, req.apid, req.ctid)
      index(j) == IF count = 1 /\ req.apid # 0 /\ req.ctid # 0 THEN found
                  ELSE OffsetBase(d, i) + j
  IN  [apid |-> d.apps[i].apid, count |-> count,
       ctxs |-> SelectSeq([j \in 1 .. count |-> index(j)],
                          LAMBDA k : req.ctid = 0 \/ d.ctxs[k].ctid = req.ctid)]

dlt_daemon_control_get_log_info(d, req) ==
  [n \in 1 .. NumApplications(d, req) |->
     LogInfoOf(d, req, IF req.apid # 0 THEN dlt_daemon_application_find(d, req.apid) ELSE n)]

\* Where the closing string ends.
LogInfoFilled(d, req) ==
  LET list == dlt_daemon_control_get_log_info(d, req)
      level == IF req.options \in {4, 6, 7} THEN 1 ELSE 0
      status == IF req.options \in {5, 6, 7} THEN 1 ELSE 0
      text(n) == IF req.options = 7 THEN 2 + n ELSE 0
      size(e) == 4 + 2 + Sum([j \in DOMAIN e.ctxs |->
                                4 + level + status + text(d.ctxs[e.ctxs[j]].desc)])
                   + text(d.apps[dlt_daemon_application_find(d, e.apid)].desc)
  IN  4 + 1 + (IF list = <<>> THEN 0 ELSE 2) + Sum([n \in DOMAIN list |-> size(list[n])]) + 4

--------------------------------------------------------------------------------
(* The stored configuration.  A line is an application or a context; an empty  *)
(* description is read back as the line feed that follows it.                  *)

AppLine(a) == [apid |-> a.apid, desc |-> a.desc]

CtxLine(c) == [apid |-> c.apid, ctid |-> c.ctid, log_level |-> c.log_level,
               trace_status |-> c.trace_status, desc |-> c.desc]

NoFile == [there |-> FALSE, lines |-> <<>>]

\* A table without entries leaves the file of an earlier store.
dlt_daemon_applications_save(d, f) ==
  IF d.apps = <<>> THEN f
  ELSE [there |-> TRUE, lines |-> [i \in DOMAIN d.apps |-> AppLine(d.apps[i])]]

\* Mutant of dlt_daemon_contexts_save: the last context is not written.
SaveAllButLast(d, f) ==
  IF d.ctxs = <<>> THEN f
  ELSE [there |-> TRUE, lines |-> [i \in 1 .. Len(d.ctxs) - 1 |-> CtxLine(d.ctxs[i])]]

dlt_daemon_contexts_save(d, f) ==
  IF d.ctxs = <<>> THEN f
  ELSE [there |-> TRUE, lines |-> [i \in DOMAIN d.ctxs |-> CtxLine(d.ctxs[i])]]

LoadDesc(n) == IF n = 0 THEN 1 ELSE n

dlt_daemon_applications_load(d, w, f) ==
  FoldLeft(LAMBDA e, a : dlt_daemon_application_add(e, w, a.apid, NoPid, LoadDesc(a.desc)),
           d, f.lines)

\* The first line that is not accepted ends the load.
dlt_daemon_contexts_load(d, f) ==
  FoldLeft(LAMBDA r, l :
             IF ~r.ok THEN r
             ELSE dlt_daemon_context_add(r.d,
                    [apid |-> l.apid, ctid |-> l.ctid, log_level |-> l.log_level,
                     trace_status |-> l.trace_status, log_level_pos |-> 0, user_handle |-> 0,
                     predefined |-> TRUE, desc |-> LoadDesc(l.desc), by |-> NoPid]),
           [d |-> d, ok |-> TRUE], f.lines)

\* A daemon that starts (main): the tables come from the files; what the applications
\* know is not the daemon's.
Start(version, force, w, fs, told, log_state) ==
  LET d0 == [version |-> version, force_ll_ts |-> force, apps |-> <<>>, ctxs |-> <<>>,
             default_log_level |-> ContextLogLevel, default_trace_status |-> ContextTraceStatus,
             runtime_context_cfg_loaded |-> FALSE, connectionState |-> 0,
             fds |-> [n \in Fds |-> Free], told |-> told, log_state |-> log_state,
             missed |-> {}, strayed |-> {}, abandoned |-> {}]
      d1 == dlt_daemon_applications_load(d0, w, fs.apps)
      r == dlt_daemon_contexts_load(d1, fs.ctxs)
  IN  CASE ~fs.apps.there -> d0
        [] ~fs.ctxs.there -> d1
        [] OTHER -> [r.d EXCEPT !.runtime_context_cfg_loaded = r.ok]

dlt_daemon_control_reset_to_factory_default(d, w) ==
  dlt_daemon_user_send_default_update(
    [d EXCEPT !.default_log_level = ContextLogLevel, !.default_trace_status = ContextTraceStatus],
    w)

--------------------------------------------------------------------------------
(* Protocol version 2.  The code has a copy of every handler for ids that      *)
(* carry their length.  Where a copy differs in the form of the ids only, and  *)
(* in the order of the tables that follows from it, the operator of version 1  *)
(* is its meaning.                                                             *)

dlt_daemon_application_find_v2(d, apid) == dlt_daemon_application_find(d, apid)

dlt_daemon_context_find_v2(d, apid, ctid) == dlt_daemon_context_find(d, apid, ctid)

dlt_daemon_applications_invalidate_fd_v2(d, fd) == dlt_daemon_applications_invalidate_fd(d, fd)

dlt_daemon_contexts_invalidate_fd_v2(d, fd) == dlt_daemon_contexts_invalidate_fd(d, fd)

dlt_daemon_application_reset_user_handle_v2(d, i) ==
  dlt_daemon_application_reset_user_handle(d, i)

dlt_daemon_application_add_v2(d, w, apid, pid, desc) ==
  dlt_daemon_application_add(d, w, apid, pid, desc)

dlt_daemon_application_del_v2(d, i) ==
  [dlt_daemon_application_reset_user_handle_v2(d, i) EXCEPT !.apps = RemoveAt(@, i)]

dlt_daemon_context_add_v2(d, c) == dlt_daemon_context_add(d, c)

dlt_daemon_context_del_v2(d, k) == dlt_daemon_context_del(d, k)

dlt_daemon_user_send_log_level_v2(d, w, i) == SendAnyway(d, w, i)

dlt_daemon_user_send_log_state_v2(d, w, i) == dlt_daemon_user_send_log_state(d, w, i)

dlt_daemon_user_send_all_log_state_v2(d, w) == dlt_daemon_user_send_all_log_state(d, w)

dlt_daemon_user_send_default_update_v2(d, w) == dlt_daemon_user_send_default_update(d, w)

dlt_daemon_user_send_all_log_level_update_v2(d, w, log_level) ==
  dlt_daemon_user_send_all_log_level_update(d, w, log_level)

dlt_daemon_user_send_all_trace_status_update_v2(d, w, trace_status) ==
  dlt_daemon_user_send_all_trace_status_update(d, w, trace_status)

dlt_daemon_control_reset_to_factory_default_v2(d, w) ==
  dlt_daemon_user_send_default_update_v2(
    [d EXCEPT !.default_log_level = ContextLogLevel, !.default_trace_status = ContextTraceStatus],
    w)

SendAllLogState(d, w) ==
  IF d.version = 1 THEN dlt_daemon_user_send_all_log_state(d, w)
                   ELSE dlt_daemon_user_send_all_log_state_v2(d, w)

RegisterApplicationV2(d, w, apid, pid, desc) ==
  LET d1 == dlt_daemon_application_add_v2(d, w, apid, pid, desc)
  IN  dlt_daemon_user_send_log_state_v2(d1, w, dlt_daemon_application_find_v2(d1, apid))

RegisterContextV2(d, w, pid, c) ==
  LET a == dlt_daemon_application_find_v2(d, c.apid)
      r == dlt_daemon_context_add_v2(d, [c EXCEPT !.user_handle = d.apps[a].user_handle])
      i == dlt_daemon_context_find_v2(r.d, c.apid, c.ctid)
      asks == c.log_level = DLT_LOG_DEFAULT \/ c.trace_status = DLT_LOG_DEFAULT
      key == <<c.apid, c.ctid>>
      d1 == [r.d EXCEPT !.missed = IF d.force_ll_ts THEN @ \union {key} ELSE @ \ {key}]
  IN  CASE a = 0 \/ ~r.ok -> d
        [] asks /\ r.d.ctxs[i].user_handle >= DLT_FD_MINIMUM ->
             dlt_daemon_user_send_log_level_v2(d1, w, i)
        [] OTHER -> d1

UnregisterApplicationV2(d, apid) ==
  LET i == dlt_daemon_application_find_v2(d, apid)
      d1 == FoldRight(LAMBDA k, e : dlt_daemon_context_del_v2(e, k), ContextsOf(d, i), d)
  IN  IF i = 0 THEN d ELSE dlt_daemon_application_del_v2(d1, i)

\* The ids of the message are not kept (the pointers for them stay NULL), so no context is
\* found and the table keeps it.
UnregisterContextV2(d, apid, ctid) == d

dlt_daemon_control_set_all_log_level_v2(d, w, req) ==
  IF req.value > DLT_LOG_VERBOSE /\ req.value # 255 THEN Refused(d)
  ELSE Done(dlt_daemon_user_send_all_log_level_update_v2(d, w, Int8(req.value)))

dlt_daemon_control_set_default_trace_status_v2(d, w, req) ==
  IF req.value > DLT_TRACE_STATUS_ON THEN Refused(d)
  ELSE Done(dlt_daemon_user_send_default_update_v2(
         [d EXCEPT !.default_trace_status =
            IF d.force_ll_ts THEN getStatus(req.value, ContextTraceStatus) ELSE req.value], w))

dlt_daemon_control_set_all_trace_status_v2(d, w, req) ==
  IF req.value > DLT_TRACE_STATUS_ON /\ req.value # 255 THEN Refused(d)
  ELSE Done(dlt_daemon_user_send_all_trace_status_update_v2(d, w,
              IF d.force_ll_ts THEN getStatus(req.value, ContextTraceStatus)
                               ELSE Int8(req.value)))

\* The ids of an injection are not kept either: no context is found.
dlt_daemon_control_callsw_cinjection_v2(d, w, req) == Refused(d)

--------------------------------------------------------------------------------
(* Actions.                                                                    *)

Alive == {p \in Pids : procs[p] = "alive"}

\* At most one pipe is full, and errno may hold an old EPIPE then.
Worlds ==
  {[alive |-> Alive, full |-> {}, stale |-> FALSE]} \union
  (IF used.fulls < limit.fulls
   THEN {[alive |-> Alive, full |-> {p}, stale |-> b] : p \in Alive, b \in BOOLEAN} ELSE {})

NoAnswer == [req |-> [kind |-> "none", by |-> "both", lo |-> 0, hi |-> 0, ctid |-> 0, value |-> 0],
             answers |-> <<>>]

Use(w, what) ==
  used' = [used EXCEPT ![what] = @ + 1, !.fulls = @ + Cardinality(w.full)]

Init ==
  /\ limit \in Limits
  /\ procs = [p \in Pids |-> IF p \in limit.procs THEN "alive" ELSE "off"]
  /\ files = [apps |-> NoFile, ctxs |-> NoFile]
  /\ daemon = Start(limit.version, limit.force, [alive |-> {}, full |-> {}, stale |-> FALSE],
                    files, [p \in Pids |-> [c \in CtxIds |-> Untold]], [p \in Pids |-> -2])
  /\ answer = NoAnswer
  /\ stored = [complete |-> FALSE, apps |-> <<>>, ctxs |-> <<>>]
  /\ used = [msgs |-> 0, reqs |-> 0, clients |-> 0, files |-> 0, restarts |-> 0, fulls |-> 0]

ProcDie(p) ==
  /\ procs[p] = "alive"
  /\ procs' = [procs EXCEPT ![p] = "dead"]
  /\ UNCHANGED <<daemon, files, answer, stored, limit, used>>

\* A message in the daemon's pipe is handled; its sender may have died meanwhile.
Message(p) ==
  /\ procs[p] # "off"
  /\ used.msgs < limit.msgs
  /\ UNCHANGED <<procs, files, answer, stored, limit>>

RegisterApplication(p) ==
  /\ Message(p)
  /\ \E w \in Worlds, desc \in limit.descs :
       /\ Use(w, "msgs")
       /\ daemon' = IF limit.version = 1
                    THEN dlt_daemon_process_user_message_register_application(daemon, w, AppOf[p], p, desc)
                    ELSE RegisterApplicationV2(daemon, w, AppOf[p], p, desc)

\* Until the daemon answers, the process uses the level it registered.
RegisterContext(p) ==
  /\ Message(p)
  /\ \E w \in Worlds, ctid \in CtxIds, ll \in limit.own, ts \in limit.statuses,
        desc \in limit.descs :
       /\ Use(w, "msgs")
       /\ LET d == [daemon EXCEPT !.told[p][ctid] = <<ll, ts>>]
              c == [apid |-> AppOf[p], ctid |-> ctid, log_level |-> ll, trace_status |-> ts,
                    log_level_pos |-> ctid, user_handle |-> DLT_FD_INIT, predefined |-> FALSE,
                    desc |-> desc, by |-> p]
          IN  daemon' = IF limit.version = 1
                        THEN dlt_daemon_process_user_message_register_context(d, w, p, c)
                        ELSE RegisterContextV2(d, w, p, c)

UnregisterContext(p) ==
  /\ Message(p)
  /\ \E w \in Worlds, ctid \in CtxIds :
       /\ w.full = {} /\ Use(w, "msgs")
       /\ LET d == [daemon EXCEPT !.told[p][ctid] = Untold] IN
          daemon' = IF limit.version = 1
                    THEN dlt_daemon_process_user_message_unregister_context(d, AppOf[p], ctid)
                    ELSE UnregisterContextV2(d, AppOf[p], ctid)

UnregisterApplication(p) ==
  /\ Message(p)
  /\ \E w \in Worlds :
       /\ w.full = {} /\ Use(w, "msgs")
       /\ LET d == [daemon EXCEPT !.told[p] = [c \in CtxIds |-> Untold]] IN
          daemon' = IF limit.version = 1
                    THEN dlt_daemon_process_user_message_unregister_application(d, AppOf[p])
                    ELSE UnregisterApplicationV2(d, AppOf[p])

\* dlt_set_application_ll_ts_limit changes the levels in the application first.
SetAppLevel(p) ==
  /\ Message(p)
  /\ limit.version = 1
  /\ \E w \in Worlds, ll \in limit.own, ts \in limit.statuses :
       /\ Use(w, "msgs")
       /\ daemon' = dlt_daemon_process_user_message_set_app_ll_ts(
                      [daemon EXCEPT !.told[p] = [c \in CtxIds |->
                         IF daemon.told[p][c] = Untold THEN Untold ELSE <<ll, ts>>]],
                      w, AppOf[p], ll, ts)

\* The requests a client can send for a context, and those about all of them.
Requests(kind) ==
  LET value == IF kind \in {"set_trace_status", "set_all_trace_status", "set_default_trace_status"}
               THEN {UInt8(x) : x \in limit.statuses} ELSE {UInt8(x) : x \in limit.levels}
      req(by, lo, hi, c, v) == [kind |-> kind, by |-> by, lo |-> lo, hi |-> hi, ctid |-> c, value |-> v]
  IN  CASE kind \in {"set_log_level", "set_trace_status"} ->
             {req("both", a, a, c, v) : a \in AppIds, c \in CtxIds, v \in value}
               \union {req("apid", a[1], a[2], 0, v) : a \in {x \in AppIds \X AppIds : x[1] <= x[2]}, v \in value}
               \union {req("ctid", c[1], c[2], 0, v) : c \in {x \in CtxIds \X CtxIds : x[1] <= x[2]}, v \in value}
        [] kind = "injection" -> {req("both", a, a, c, 0) : a \in AppIds, c \in CtxIds}
        [] OTHER -> {req("both", 0, 0, 0, v) : v \in value}

dlt_daemon_client_process_control(d, w, req) ==
  CASE req.kind = "set_log_level" -> dlt_daemon_control_set_log_level(d, w, req)
    [] req.kind = "set_trace_status" -> dlt_daemon_control_set_trace_status(d, w, req)
    [] req.kind = "set_default_log_level" -> dlt_daemon_control_set_default_log_level(d, w, req)
    [] req.kind = "set_default_trace_status" -> dlt_daemon_control_set_default_trace_status(d, w, req)
    [] req.kind = "set_all_log_level" -> dlt_daemon_control_set_all_log_level(d, w, req)
    [] req.kind = "set_all_trace_status" -> dlt_daemon_control_set_all_trace_status(d, w, req)
    [] OTHER -> dlt_daemon_control_callsw_cinjection(d, w, req)

\* Of version 2: the requests that name single contexts end in a null pointer and are not
\* modelled, and SET_DEFAULT_LOG_LEVEL sends messages of version 1.
dlt_daemon_client_process_control_v2(d, w, req) ==
  CASE req.kind = "set_default_trace_status" -> dlt_daemon_control_set_default_trace_status_v2(d, w, req)
    [] req.kind = "set_all_log_level" -> dlt_daemon_control_set_all_log_level_v2(d, w, req)
    [] req.kind = "set_all_trace_status" -> dlt_daemon_control_set_all_trace_status_v2(d, w, req)
    [] OTHER -> dlt_daemon_control_callsw_cinjection_v2(d, w, req)

Request ==
  /\ used.reqs < limit.reqs
  /\ \E kind \in limit.kinds \ {"store_config", "reset_to_factory_default"} :
       \E req \in Requests(kind), w \in Worlds :
         LET r == IF limit.version = 1 THEN dlt_daemon_client_process_control(daemon, w, req)
                                       ELSE dlt_daemon_client_process_control_v2(daemon, w, req) IN
         /\ daemon' = r.d
         /\ answer' = [req |-> req, answers |-> r.answers]
         /\ Use(w, "reqs")
  /\ UNCHANGED <<procs, files, stored, limit>>

StoreConfig ==
  /\ used.reqs < limit.reqs /\ "store_config" \in limit.kinds
  /\ files' = [apps |-> dlt_daemon_applications_save(daemon, files.apps),
               ctxs |-> dlt_daemon_contexts_save(daemon, files.ctxs)]
  /\ stored' = [complete |-> TRUE,
                apps |-> [i \in DOMAIN daemon.apps |-> AppLine(daemon.apps[i])],
                ctxs |-> [i \in DOMAIN daemon.ctxs |-> CtxLine(daemon.ctxs[i])]]
  /\ answer' = [NoAnswer EXCEPT !.req.kind = "store_config", !.answers = <<"ok">>]
  /\ used' = [used EXCEPT !.reqs = @ + 1]
  /\ UNCHANGED <<daemon, procs, limit>>

ResetToFactoryDefault ==
  /\ used.reqs < limit.reqs /\ "reset_to_factory_default" \in limit.kinds
  /\ \E w \in Worlds :
       /\ daemon' = IF limit.version = 1
                    THEN dlt_daemon_control_reset_to_factory_default(daemon, w)
                    ELSE dlt_daemon_control_reset_to_factory_default_v2(daemon, w)
       /\ Use(w, "reqs")
  /\ files' = [apps |-> NoFile, ctxs |-> NoFile]
  /\ stored' = [complete |-> TRUE, apps |-> <<>>, ctxs |-> <<>>]
  /\ answer' = [NoAnswer EXCEPT !.req.kind = "reset_to_factory_default", !.answers = <<"ok">>]
  /\ UNCHANGED <<procs, limit>>

Restarted(fs) ==
  /\ used.restarts < limit.restarts
  /\ daemon' = Start(limit.version, limit.force, [alive |-> Alive, full |-> {}, stale |-> FALSE],
                     fs, daemon.told, daemon.log_state)
  /\ used' = [used EXCEPT !.restarts = @ + 1]
  /\ answer' = NoAnswer
  /\ UNCHANGED <<procs, limit>>

Restart == Restarted(files) /\ UNCHANGED <<files, stored>>

\* The daemon dies while it stores: a file is written only in part.
StoreCrash ==
  /\ used.reqs < limit.reqs /\ "store_config" \in limit.kinds
  /\ LET a == dlt_daemon_applications_save(daemon, files.apps)
         c == dlt_daemon_contexts_save(daemon, files.ctxs)
         part(f, n) == [f EXCEPT !.lines = SubSeq(@, 1, n)]
     IN  \/ \E n \in 0 .. Len(a.lines) :
              daemon.apps # <<>> /\ files' = [files EXCEPT !.apps = part(a, n)]
         \/ \E n \in 0 .. Len(c.lines) :
              daemon.ctxs # <<>> /\ files' = [apps |-> a, ctxs |-> part(c, n)]
  /\ stored' = [stored EXCEPT !.complete = FALSE]
  /\ Restarted(files')

\* A client gets the lowest free descriptor, whoever had it before.  The first client is
\* announced to the applications.
dlt_daemon_process_client_connect ==
  /\ used.clients < limit.clients /\ FreeFds(daemon) # {}
  /\ \E w \in Worlds :
       LET fd == LowestFree(daemon)
           d0 == [daemon EXCEPT !.fds[fd] = Client]
           d1 == IF limit.version = 1
                 THEN dlt_daemon_contexts_invalidate_fd(
                        dlt_daemon_applications_invalidate_fd(d0, fd), fd)
                 ELSE dlt_daemon_contexts_invalidate_fd_v2(
                        dlt_daemon_applications_invalidate_fd_v2(d0, fd), fd)
       IN  /\ daemon' = IF \A n \in Fds : daemon.fds[n] # Client
                        THEN SendAllLogState([d1 EXCEPT !.connectionState = 1], w)
                        ELSE d1
           /\ Use(w, "clients")
  /\ UNCHANGED <<procs, files, answer, stored, limit>>

dlt_daemon_close_socket ==
  \E n \in Fds, w \in Worlds :
    /\ daemon.fds[n] = Client
    /\ LET d1 == [daemon EXCEPT !.fds[n] = Free] IN
       daemon' = IF \A m \in Fds : d1.fds[m] # Client
                 THEN SendAllLogState([d1 EXCEPT !.connectionState = 0], w)
                 ELSE d1
    /\ used' = [used EXCEPT !.fulls = @ + Cardinality(w.full)]
    /\ UNCHANGED <<procs, files, answer, stored, limit>>

\* The daemon opens a file of its own: a log file, an offline trace.
OpenFile ==
  /\ used.files < limit.files /\ FreeFds(daemon) # {}
  /\ daemon' = [daemon EXCEPT !.fds[LowestFree(daemon)] = File]
  /\ used' = [used EXCEPT !.files = @ + 1]
  /\ UNCHANGED <<procs, files, answer, stored, limit>>

Next ==
  \/ \E p \in Pids : ProcDie(p)
  \/ \E p \in Pids : RegisterApplication(p)
  \/ \E p \in Pids : RegisterContext(p)
  \/ \E p \in Pids : UnregisterContext(p)
  \/ \E p \in Pids : UnregisterApplication(p)
  \/ \E p \in Pids : SetAppLevel(p)
  \/ Request
  \/ StoreConfig
  \/ ResetToFactoryDefault
  \/ Restart
  \/ StoreCrash
  \/ dlt_daemon_process_client_connect
  \/ dlt_daemon_close_socket
  \/ OpenFile

Spec == Init /\ [][Next]_vars

--------------------------------------------------------------------------------
(* Properties.                                                                 *)

Sorted(s, Before(_, _)) == \A i, j \in DOMAIN s : i < j => Before(s[i], s[j])

\* The contexts of an application are found by adding up the contexts of the applications
\* before it.  That is right because both tables are sorted by the same key, without
\* duplicates, and num_contexts counts, after any sequence of registrations,
\* unregistrations, loads and restarts.
TablesConsistent ==
  /\ IF daemon.version = 1
     THEN Sorted(daemon.apps, dlt_daemon_cmp_apid) /\ Sorted(daemon.ctxs, dlt_daemon_cmp_apid_ctid)
     ELSE Sorted(daemon.apps, dlt_daemon_cmp_apid_v2) /\ Sorted(daemon.ctxs, dlt_daemon_cmp_apid_ctid_v2)
  /\ \A i \in DOMAIN daemon.apps :
       {ContextsOf(daemon, i)[j] : j \in 1 .. daemon.apps[i].num_contexts}
         = {k \in DOMAIN daemon.ctxs : daemon.ctxs[k].apid = daemon.apps[i].apid}
  /\ \A k \in DOMAIN daemon.ctxs : dlt_daemon_application_find(daemon, daemon.ctxs[k].apid) # 0

\* As long as no injection has closed a pipe behind the application's back, a handle of an
\* application is open to the process that registered it, the contexts use no other, and
\* no pipe stays open without an owner.
HandlesSound ==
  "injection" \notin limit.kinds =>
    /\ \A i \in DOMAIN daemon.apps :
         daemon.apps[i].user_handle # DLT_FD_INIT =>
           /\ daemon.fds[daemon.apps[i].user_handle] = daemon.apps[i].pid
           /\ daemon.apps[i].owns_user_handle
    /\ \A k \in DOMAIN daemon.ctxs :
         daemon.ctxs[k].user_handle >= DLT_FD_MINIMUM =>
           \E i \in DOMAIN daemon.apps : /\ daemon.apps[i].apid = daemon.ctxs[k].apid
                                         /\ daemon.apps[i].user_handle = daemon.ctxs[k].user_handle
    /\ \A n \in Fds : daemon.fds[n] \in Pids =>
         \E i \in DOMAIN daemon.apps : daemon.apps[i].user_handle = n

\* No message for an application is written to a descriptor of something else, and none
\* is closed: "This prevents sending messages to wrong file descriptor"
\* (dlt_daemon_application_add, dlt_daemon_process_client_connect).  The exception: a number
\* that a failed injection closed (dlt_daemon_control_callsw_cinjection) and that a file of
\* the daemon got, because nothing invalidates numbers when a file is opened.
NothingStrays ==
  /\ daemon.strayed \subseteq daemon.abandoned
  /\ daemon.strayed # {} => used.files > 0

\* An application that lives and is connected uses the level and the status in force for
\* its contexts, unless an update failed or its registration was overridden silently.
LevelsKnown ==
  \A k \in DOMAIN daemon.ctxs :
    LET c == daemon.ctxs[k] IN
    /\ c.user_handle >= DLT_FD_MINIMUM
    /\ c.by \in Alive /\ daemon.fds[c.user_handle] = c.by
    /\ daemon.told[c.by][c.log_level_pos] # Untold
    /\ <<c.apid, c.ctid>> \notin daemon.missed
    => daemon.told[c.by][c.log_level_pos] = Effective(daemon, c)

\* The answer to GET_LOG_INFO fits the memory computed for it; it announces and lists the
\* contexts of each application, and them only.  (A request for a context id of every
\* application announces all contexts and lists those with the id.)
LogInfoFits(req, filled, size) ==
  /\ filled <= size
  /\ ~(req.apid = 0 /\ req.ctid # 0) /\ NumApplications(daemon, req) # 0 => filled = size

LogInfoLists(req, list) ==
  \A n \in DOMAIN list :
    LET e == list[n] IN
    /\ e.count = Len(e.ctxs)
    /\ ToSet(e.ctxs) = {k \in DOMAIN daemon.ctxs : /\ daemon.ctxs[k].apid = e.apid
                                                  /\ req.ctid \in {0, daemon.ctxs[k].ctid}}

\* What is listed depends on the ids, the layout of an entry on the mode: all ids in mode 7,
\* and all modes without ids.
LogInfoExact ==
  \A req \in {q \in LogInfoRequest : q.options = 7 \/ (q.apid = 0 /\ q.ctid = 0)} :
    /\ LogInfoFits(req, LogInfoFilled(daemon, req), LogInfoDataSize(daemon, req))
    /\ (req.apid # 0 \/ req.ctid = 0) =>
         LogInfoLists(req, dlt_daemon_control_get_log_info(daemon, req))

\* The tables agree with each other, with the open pipes, with what is reported of them, and no
\* message went to a wrong descriptor (dlt_daemon_application_add, dlt_daemon_context_del,
\* dlt_daemon_control_get_log_info).
TablesSound == TablesConsistent /\ HandlesSound /\ NothingStrays /\ LogInfoExact

\* Contexts and levels that were stored are back after a restart: STORE_CONFIG stores
\* "currently registered application ids and context ids as well as currently set log
\* levels and trace statuses" (dlt_design_specification.md).  A level no context may
\* register with, which SET_LOG_LEVEL accepts, ends the load, and a forced level is capped.
ConfigSurvives ==
  [][used'.restarts > used.restarts /\ stored.complete /\ stored'.complete
     /\ ~limit.force /\ stored.ctxs # <<>>
     /\ (\A j \in DOMAIN stored.ctxs :
           stored.ctxs[j].log_level \in DLT_LOG_DEFAULT .. DLT_LOG_VERBOSE)
     => /\ daemon'.runtime_context_cfg_loaded
        /\ Len(daemon'.ctxs) = Len(stored.ctxs)
        /\ \A j \in DOMAIN stored.ctxs :
             CtxLine(daemon'.ctxs[j]) = [stored.ctxs[j] EXCEPT !.desc = LoadDesc(@)]]_vars
================================================================================
