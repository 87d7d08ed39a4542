----------------------------- MODULE DltGateway -----------------------------
(***************************************************************************)
(* The gateway of the daemon (dlt_gateway.c): connections to passive       *)
(* nodes, retried by a timer, control messages sent when a connection is   *)
(* made and periodically, the answers that keep the tables of passive      *)
(* applications, and requests of clients to connect, disconnect or forward *)
(* a control message.  The client library (dlt_client.c) makes the         *)
(* connections.                                                            *)
(*                                                                         *)
(* A descriptor is a number, the lowest free one when it is opened, so a   *)
(* number that was kept too long may name another connection.  Messages    *)
(* arrive whole: framing is the subject of DltReceiver.                    *)
(***************************************************************************)
EXTENDS Integers, Sequences, FiniteSets, SequencesExt

CONSTANTS
  ReconnectMax,   \* DLT_GATEWAY_RECONNECT_MAX
  Fds,            \* the descriptors left for connections, 1 .. n
  PendingMax,     \* bound: requests a node has not read
  LogMax,         \* bound: messages in a socket that are not read
  Shapes          \* what happens to the gateway, see Init

VARIABLES
  plan,        \* [sections, apps, downs, resets, changes, logs, demands,
               \*  forwards, others]: the shape; see Init
  cons,        \* gateway.connections
  files,       \* fd -> [node, state, in] of the open descriptors
  registered,  \* the descriptors in the event handler
  node,        \* the passive nodes: [up, apps, asked]
  table,       \* node -> the applications the daemon has of it
  fails,       \* ghost: failed attempts in a row, per node
  gaveup,      \* ghost: fails when the gateway gave the node up, or 0
  gap,         \* ghost: node -> control message -> [ticks, last]
  tick         \* changes when the timer fires

vars == <<plan, cons, files, registered, node, table, fails, gaveup, gap, tick>>

GET_LOG_INFO == 3
GET_DEFAULT_LOG_LEVEL == 4
GET_SOFTWARE_VERSION == 19
SET_LOG_LEVEL == 1
LAST_ENTRY == 22      \* DLT_SERVICE_ID_LAST_ENTRY is above every service used

-----------------------------------------------------------------------------
(* Configuration.  A section is a record of values, <<>> when the key is    *)
(* missing; an invalid value is kept out by its check.                      *)

NewMessage(id, type, interval) ==
  [id |-> id, type |-> type, interval |-> interval, req |-> FALSE]

\* The index of the first id that is not a service, or 0.
FirstInvalid(ids) ==
  LET bad == {i \in DOMAIN ids : ids[i] \notin SET_LOG_LEVEL .. LAST_ENTRY - 1}
  IN IF bad = {} THEN 0 ELSE CHOOSE i \in bad : \A j \in bad : i <= j

\* An invalid id ends the list; the entries before it are lost, since the
\* pointer is left on the last one.
dlt_gateway_check_control_messages(ids) ==
  LET bad == FirstInvalid(ids)
      all == [i \in DOMAIN ids |-> NewMessage(ids[i], "ON_STARTUP", -1)]
  IN IF bad = 0 THEN all ELSE <<all[bad]>>

\* The first entry of an id, or 0.
EntryWith(msgs, id) ==
  LET ks == {k \in DOMAIN msgs : msgs[k].id = id}
  IN IF ks = {} THEN 0 ELSE CHOOSE k \in ks : \A j \in ks : k <= j

\* An id that is already in the list becomes BOTH, another is appended; an
\* invalid one is entered, ends the list, and leaves the pointer on its entry.
dlt_gateway_check_periodic_control_messages(msgs, periodic) ==
  LET bad == FirstInvalid([i \in DOMAIN periodic |-> periodic[i][1]])
      all == FoldLeft(LAMBDA acc, p :
               LET k == EntryWith(acc, p[1]) IN
               IF k # 0 THEN [acc EXCEPT ![k].type = "BOTH", ![k].interval = p[2]]
               ELSE Append(acc, NewMessage(p[1], "PERIODIC", p[2])),
             msgs, SubSeq(periodic, 1, IF bad = 0 THEN Len(periodic) ELSE bad))
  IN IF bad = 0 THEN all ELSE SubSeq(all, EntryWith(all, periodic[bad][1]), Len(all))

dlt_gateway_check_connect_trigger(v) ==
  IF v = <<>> THEN "ON_STARTUP"
  ELSE IF v[1] \in {"ON_STARTUP", "ON_DEMAND"} THEN v[1] ELSE "UNDEFINED"

\* The connection a section describes.  Without ip address, ecu or timeout the
\* section is ignored and its entry stays as allocated: all zero.
Unused == [status |-> "UNINITIALIZED", ecu |-> "", trigger |-> "ON_STARTUP",
           timeout |-> 0, msgs |-> <<>>, sock |-> 0, timeout_cnt |-> 0,
           reconnect_cnt |-> 0, sendtime |-> 0, sendtime_cnt |-> 0, level |-> 0]
dlt_gateway_store_connection(s) ==
  [Unused EXCEPT
     !.status = "INITIALIZED", !.ecu = s.ecu[1], !.sock = -1,
     !.trigger = dlt_gateway_check_connect_trigger(s.connect),
     !.timeout = s.timeout[1],
     !.msgs = dlt_gateway_check_periodic_control_messages(
                dlt_gateway_check_control_messages(s.control), s.periodic)]

\* The valid sections fill the array from the front.
dlt_gateway_configure(sections) ==
  LET valid == SelectSeq(sections, LAMBDA s : s.ip /\ s.ecu # <<>> /\ s.timeout # <<>>)
  IN [i \in DOMAIN sections |->
        IF i <= Len(valid) THEN dlt_gateway_store_connection(valid[i]) ELSE Unused]

ConIds == DOMAIN cons
Nodes == DOMAIN plan.sections

-----------------------------------------------------------------------------
(* Descriptors and the event handler.  w is the part of the state a handler *)
(* changes: [cons, files, registered, node, gap, fails, gaveup].            *)

World == [cons |-> cons, files |-> files, registered |-> registered, node |-> node,
          gap |-> gap, fails |-> fails, gaveup |-> gaveup]

Become(w) ==
  /\ cons' = w.cons /\ files' = w.files /\ registered' = w.registered
  /\ node' = w.node /\ gap' = w.gap /\ fails' = w.fails /\ gaveup' = w.gaveup

FreeFds(w) == Fds \ DOMAIN w.files
LowestFree(w) == CHOOSE f \in FreeFds(w) : \A g \in FreeFds(w) : f <= g

Opened(w, fd, n) ==
  [w EXCEPT !.files = [f \in DOMAIN w.files \cup {fd} |->
                         IF f = fd THEN [node |-> n, state |-> "open", in |-> <<>>]
                         ELSE w.files[f]]]

\* Closing the descriptor drops what was not read; the node notices.
Closed(w, fd) ==
  [w EXCEPT !.files = [f \in DOMAIN w.files \ {fd} |-> w.files[f]],
            !.registered = w.registered \ {fd},
            !.node = [n \in DOMAIN w.node |->
                        IF w.files[fd].node = n /\ w.files[fd].state = "open"
                          THEN [w.node[n] EXCEPT !.asked = <<>>] ELSE w.node[n]]]

dlt_event_handler_unregister_connection(w, fd) ==
  IF fd \in w.registered THEN Closed(w, fd) ELSE w

\* dlt_client_connect over TCP: a failed attempt leaves the number of the
\* socket it closed in the client.
dlt_client_connect(w, i) ==
  IF FreeFds(w) = {} THEN [ok |-> FALSE, w |-> [w EXCEPT !.cons[i].sock = -1]]
  ELSE LET fd == LowestFree(w)
           v  == [w EXCEPT !.cons[i].sock = fd]
       IN IF w.cons[i].status # "UNINITIALIZED" /\ w.node[i].up
            THEN [ok |-> TRUE, w |-> Opened(v, fd, i)]
            ELSE [ok |-> FALSE, w |-> v]

\* A descriptor that is registered already is left alone; one that is closed
\* fails (setsockopt).
dlt_connection_create(w, fd) ==
  IF fd < 0 \/ fd \in w.registered THEN [ok |-> TRUE, w |-> w]
  ELSE IF fd \in DOMAIN w.files
    THEN [ok |-> TRUE, w |-> [w EXCEPT !.registered = w.registered \cup {fd}]]
  ELSE [ok |-> FALSE, w |-> w]

-----------------------------------------------------------------------------
(* Control messages to a node.                                              *)

\* A request written to a descriptor: it reaches the node behind it, if any.
dlt_client_send_ctrl_msg(w, fd, request) ==
  IF fd \notin DOMAIN w.files THEN [ok |-> FALSE, w |-> w]
  ELSE LET n == w.files[fd].node
       IN [ok |-> TRUE,
           w |-> IF n # 0 /\ w.files[fd].state = "open"
                   THEN [w EXCEPT !.node[n].asked = Append(@, request)] ELSE w]

\* The requests the gateway makes of its own accord: everything.
Request(id) == [id |-> id, app |-> "*"]

Due(con, m) ==
  /\ m.id # 0
  /\ con.sendtime_cnt > 0 =>
       /\ m.interval > 0
       /\ m.type \in {"PERIODIC", "BOTH"} => (con.sendtime_cnt - 1) % m.interval = 0

dlt_gateway_send_control_message(w, i, k) ==
  LET con == w.cons[i]
      m   == con.msgs[k]
  IN IF ~Due(con, m) THEN [ok |-> FALSE, w |-> w]
     ELSE IF m.id \in {GET_LOG_INFO, GET_DEFAULT_LOG_LEVEL, GET_SOFTWARE_VERSION}
       THEN dlt_client_send_ctrl_msg(w, con.sock, Request(m.id))
     ELSE [ok |-> m.id # SET_LOG_LEVEL, w |-> w]     \* no data; others are skipped

\* Sends the messages of the types, in order; one that was sent is requested.
SendAll(w, i, types) ==
  FoldLeft(LAMBDA v, k :
             IF v.cons[i].msgs[k].type \notin types THEN v
             ELSE LET r == dlt_gateway_send_control_message(v, i, k)
                  IN IF r.ok THEN [r.w EXCEPT !.cons[i].msgs[k].req = TRUE] ELSE r.w,
           w, [k \in DOMAIN w.cons[i].msgs |-> k])

\* Mutant of Sendtime: the longest interval instead of the product.
LongestInterval(msgs) ==
  FoldLeft(LAMBDA t, m : IF m.interval > t THEN m.interval ELSE t, 1, msgs)

\* The period after which all intervals are due together: their product.
Sendtime(msgs) ==
  FoldLeft(LAMBDA t, m : IF m.type \in {"PERIODIC", "BOTH"} /\ m.interval > 0
                           THEN t * m.interval ELSE t, 1, msgs)

NoGap(msgs) == [k \in DOMAIN msgs |-> [ticks |-> 0, last |-> 0]]

\* A connection that stands: registered, and asked what is asked on startup.
dlt_gateway_add_to_event_loop(w, i) ==
  LET con == w.cons[i]
      v   == [w EXCEPT !.cons[i] = [con EXCEPT !.status = "CONNECTED",
                 !.reconnect_cnt = 0, !.timeout_cnt = 0, !.sendtime_cnt = 0],
                !.fails[i] = 0, !.gap[i] = NoGap(con.msgs)]
      c   == dlt_connection_create(v, con.sock)
      s   == SendAll(c.w, i, {"ON_STARTUP", "BOTH"})
      t   == Sendtime(con.msgs)
  IN IF ~c.ok THEN c
     ELSE [ok |-> TRUE,
           w |-> [s EXCEPT !.cons[i].sendtime = t, !.cons[i].sendtime_cnt = t]]

-----------------------------------------------------------------------------
(* The timer.                                                               *)

\* Mutant of ConnectFailed: the last retry is not made.
ConnectFailedEarly(w, i) ==
  LET con == w.cons[i]
      n   == con.timeout_cnt + 1
      out == con.timeout > 0 /\ n >= con.timeout
      f   == IF con.timeout > 0 THEN w.fails[i] + 1 ELSE 0
  IN [w EXCEPT !.cons[i].timeout_cnt = IF con.timeout > 0 THEN n ELSE 0,
               !.cons[i].trigger = IF out THEN "DISABLED" ELSE con.trigger,
               !.fails[i] = f, !.gaveup[i] = IF out THEN f ELSE w.gaveup[i]]

\* A failed attempt.  timeout_cnt is only read when a timeout is configured.
ConnectFailed(w, i) ==
  LET con == w.cons[i]
      n   == con.timeout_cnt + 1
      out == con.timeout > 0 /\ n > con.timeout
      f   == IF con.timeout > 0 THEN w.fails[i] + 1 ELSE 0
  IN [w EXCEPT !.cons[i].timeout_cnt = IF con.timeout > 0 THEN n ELSE 0,
               !.cons[i].trigger = IF out THEN "DISABLED" ELSE con.trigger,
               !.fails[i] = f, !.gaveup[i] = IF out THEN f ELSE w.gaveup[i]]

\* Ghost: per periodic message the ticks since it was sent, and the last gap.
Count(before, w, i) ==
  [w EXCEPT !.gap[i] = [k \in DOMAIN w.cons[i].msgs |->
     LET g == before.gap[i][k]
     IN IF Due(before.cons[i], before.cons[i].msgs[k])
          THEN [ticks |-> 0, last |-> g.ticks + 1]
          ELSE [g EXCEPT !.ticks =
                  IF before.cons[i].msgs[k].interval > 0 THEN g.ticks + 1 ELSE 0]]]

Periodic(w, i) ==
  LET c == dlt_connection_create(w, w.cons[i].sock)
      s == Count(w, SendAll(c.w, i, {"PERIODIC", "BOTH"}), i)
      n == IF s.cons[i].sendtime_cnt > 0 THEN s.cons[i].sendtime_cnt - 1 ELSE 0
  IN IF ~c.ok THEN c
     ELSE [ok |-> TRUE,
           w |-> [s EXCEPT !.cons[i].sendtime_cnt =
                             IF n = 0 THEN s.cons[i].sendtime ELSE n]]

EstablishOne(w, i) ==
  LET con == w.cons[i]
      r   == dlt_client_connect(w, i)
  IN IF con.status # "CONNECTED" /\ con.trigger \notin {"ON_DEMAND", "DISABLED"}
       THEN IF r.ok THEN dlt_gateway_add_to_event_loop(r.w, i)
            ELSE [ok |-> TRUE, w |-> ConnectFailed(r.w, i)]
     ELSE IF con.status = "CONNECTED" /\ con.trigger # "DISABLED" THEN Periodic(w, i)
     ELSE [ok |-> TRUE, w |-> w]

\* The first connection that cannot be registered ends the round.
dlt_gateway_establish_connections(w) ==
  FoldLeft(LAMBDA r, i : IF r.ok THEN EstablishOne(r.w, i) ELSE r,
           [ok |-> TRUE, w |-> w], [i \in DOMAIN w.cons |-> i])

\* The first round is made before the timer runs, whatever comes of it.
dlt_gateway_init(w) == dlt_gateway_establish_connections(w).w

TimerFires ==
  /\ \A n \in Nodes : Len(node[n].asked) < PendingMax
  /\ tick' = ~tick

dlt_gateway_process_gateway_timer ==
  /\ TimerFires
  /\ Become(dlt_gateway_establish_connections(World).w)
  /\ UNCHANGED <<plan, table>>

-----------------------------------------------------------------------------
(* Messages of a passive node.                                              *)

\* The connection of a descriptor: the first that claims it.
ConOf(fd) ==
  LET mine == {i \in ConIds : cons[i].status = "CONNECTED" /\ cons[i].sock = fd}
  IN IF mine = {} THEN 0 ELSE CHOOSE i \in mine : \A j \in mine : i <= j

\* Mutant of dlt_gateway_parse_get_log_info: the old list is never removed.
ParseAddingOnly(t, requested, apps) == t \cup apps

\* An answer to the gateway's own request replaces the list, others add to it.
dlt_gateway_parse_get_log_info(t, requested, apps) ==
  IF requested THEN apps ELSE t \cup apps

dlt_gateway_parse_get_default_log_level(con, level) == [con EXCEPT !.level = level]

\* One message: a foreign ecu ends the connection for good.
Process(r, i, fd, msg) ==
  LET con == r.w.cons[i]
      k   == EntryWith(con.msgs, GET_LOG_INFO)
  IN IF msg.ecu # con.ecu
       THEN [r EXCEPT !.w = dlt_event_handler_unregister_connection(
               [r.w EXCEPT !.cons[i].status = "DISCONNECTED",
                           !.cons[i].trigger = "DISABLED"], fd)]
     ELSE IF msg.id = GET_LOG_INFO /\ k # 0
       THEN [w |-> [r.w EXCEPT !.cons[i].msgs[k].req = FALSE],
             table |-> [r.table EXCEPT ![i] =
                dlt_gateway_parse_get_log_info(@, con.msgs[k].req, msg.apps)]]
     ELSE IF msg.id = GET_DEFAULT_LOG_LEVEL
       THEN [r EXCEPT !.w.cons[i] = dlt_gateway_parse_get_default_log_level(con, 4)]
     ELSE r

\* Mutant of Lost: the connection is closed, its status is kept.
LostUnnoticed(w, i, fd) ==
  IF w.cons[i].reconnect_cnt < ReconnectMax
    THEN [w EXCEPT !.cons[i].reconnect_cnt = @ + 1, !.cons[i].timeout_cnt = 0,
                   !.fails[i] = 0]
    ELSE dlt_event_handler_unregister_connection(w, fd)

\* The first loss is only noted; the second read that finds the end closes.
Lost(w, i, fd) ==
  IF w.cons[i].reconnect_cnt < ReconnectMax
    THEN [w EXCEPT !.cons[i].reconnect_cnt = @ + 1, !.cons[i].timeout_cnt = 0,
                   !.fails[i] = 0]
    ELSE dlt_event_handler_unregister_connection(
           [w EXCEPT !.cons[i].status = "DISCONNECTED"], fd)

\* The event handler calls this for a readable descriptor without error.
dlt_gateway_process_passive_node_messages(fd) ==
  LET i  == ConOf(fd)
      in == files[fd].in
  IN /\ fd \in registered /\ files[fd].node # 0 /\ files[fd].state # "reset"
     /\ i # 0
     /\ \/ /\ in # <<>>
           /\ \E n \in 1 .. Len(in) :
                LET read == [World EXCEPT !.files[fd].in = SubSeq(in, n + 1, Len(in))]
                    r    == FoldLeft(LAMBDA a, m : Process(a, i, fd, m),
                                     [w |-> read, table |-> table], SubSeq(in, 1, n))
                IN Become(r.w) /\ table' = r.table
        \/ /\ in = <<>> /\ files[fd].state = "fin"
           /\ Become(Lost(World, i, fd))
           /\ UNCHANGED table
     /\ UNCHANGED <<plan, tick>>

\* The event handler closes a descriptor that reports an error; the gateway is
\* not told.
Rejected(fd) ==
  /\ fd \in registered /\ files[fd].state = "reset"
  /\ Become(dlt_event_handler_unregister_connection(World, fd))
  /\ UNCHANGED <<plan, table, tick>>

-----------------------------------------------------------------------------
(* Requests of clients.                                                     *)

dlt_gateway_process_on_demand_request ==
  \E i \in ConIds, connect \in BOOLEAN :
    LET r == dlt_client_connect(World, i)
    IN /\ plan.demands > 0
       /\ plan' = [plan EXCEPT !.demands = @ - 1]
       /\ IF connect
            THEN /\ cons[i].status # "CONNECTED"
                 /\ Become(IF r.ok THEN dlt_gateway_add_to_event_loop(r.w, i).w ELSE r.w)
            ELSE Become(dlt_event_handler_unregister_connection(
                   [World EXCEPT !.cons[i].status = "DISCONNECTED",
                                 !.cons[i].trigger = "ON_DEMAND"], cons[i].sock))
       /\ UNCHANGED <<table, tick>>

\* A client's request for one application of a node.  It fails when the node is
\* not connected, or when the number of its socket is not open any more.
dlt_gateway_forward_control_message ==
  \E i \in ConIds, a \in plan.apps :
    /\ plan.forwards > 0
    /\ plan' = [plan EXCEPT !.forwards = @ - 1]
    /\ \A n \in Nodes : Len(node[n].asked) < PendingMax
    /\ Become(IF cons[i].status # "CONNECTED" THEN World
              ELSE dlt_client_send_ctrl_msg(World, cons[i].sock, [id |-> GET_LOG_INFO, app |-> a]).w)
    /\ UNCHANGED <<table, tick>>

-----------------------------------------------------------------------------
(* The passive nodes, and other descriptors of the daemon (external).       *)

Link(n) == {fd \in DOMAIN files : files[fd].node = n /\ files[fd].state = "open"}
Ecu(n) == cons[n].ecu

NodeAnswer(n) ==
  \E fd \in Link(n) :
    LET q == Head(node[n].asked)
        answer == [id |-> q.id, ecu |-> Ecu(n),
                   apps |-> IF q.app = "*" THEN node[n].apps
                            ELSE node[n].apps \cap {q.app}]
    IN /\ node[n].asked # <<>> /\ Len(files[fd].in) < LogMax
       /\ node' = [node EXCEPT ![n].asked = Tail(@)]
       /\ files' = [files EXCEPT ![fd].in = Append(@, answer)]
       /\ UNCHANGED <<plan, cons, registered, table, fails, gaveup, gap, tick>>

\* A log message; one of another ecu if the node is not the expected one.
NodeLog(n) ==
  \E fd \in Link(n), ecu \in {Ecu(n), "other"} :
    /\ plan.logs > 0 /\ Len(files[fd].in) < LogMax
    /\ plan' = [plan EXCEPT !.logs = @ - 1]
    /\ files' = [files EXCEPT ![fd].in = Append(@, [id |-> 0, ecu |-> ecu, apps |-> {}])]
    /\ UNCHANGED <<cons, registered, node, table, fails, gaveup, gap, tick>>

NodeChange(n) ==
  /\ plan.changes > 0 /\ node[n].up
  /\ plan' = [plan EXCEPT !.changes = @ - 1]
  /\ \E a \in plan.apps :
       node' = [node EXCEPT ![n].apps = IF a \in @ THEN @ \ {a} ELSE @ \cup {a}]
  /\ UNCHANGED <<cons, files, registered, table, fails, gaveup, gap, tick>>

\* A node that stops closes its connection, or resets it.
NodeDown(n) ==
  /\ plan.downs > 0 /\ node[n].up
  /\ plan' = [plan EXCEPT !.downs = @ - 1]
  /\ node' = [node EXCEPT ![n].up = FALSE, ![n].asked = <<>>]
  /\ \E how \in {"fin"} \cup (IF plan.resets THEN {"reset"} ELSE {}) :
       files' = [fd \in DOMAIN files |->
                   IF fd \in Link(n) THEN [files[fd] EXCEPT !.state = how] ELSE files[fd]]
  /\ UNCHANGED <<cons, registered, table, fails, gaveup, gap, tick>>

NodeUp(n) ==
  /\ ~node[n].up
  /\ node' = [node EXCEPT ![n].up = TRUE]
  /\ UNCHANGED <<plan, cons, files, registered, table, fails, gaveup, gap, tick>>

\* Another connection of the daemon takes the lowest descriptor.
OtherOpens ==
  /\ plan.others > 0 /\ FreeFds(World) # {}
  /\ plan' = [plan EXCEPT !.others = @ - 1]
  /\ LET w == Opened(World, LowestFree(World), 0)
     IN Become([w EXCEPT !.registered = w.registered \cup {LowestFree(World)}])
  /\ UNCHANGED <<table, tick>>

-----------------------------------------------------------------------------
\* Init: the sections of the configuration file, the applications of the nodes,
\* and how often a node stops (with resets or not), its applications change,
\* it logs, clients send requests, and other connections are made.
Init ==
  /\ plan \in Shapes
  /\ \E nodes \in [Nodes -> [up : BOOLEAN, apps : {{}, plan.apps}, asked : {<<>>}]] :
       LET c == dlt_gateway_configure(plan.sections)
           w == dlt_gateway_init(
                  [cons |-> c, files |-> <<>>, registered |-> {}, node |-> nodes,
                   gap |-> [i \in DOMAIN c |-> NoGap(c[i].msgs)],
                   fails |-> [i \in DOMAIN c |-> 0], gaveup |-> [i \in DOMAIN c |-> 0]])
       IN /\ cons = w.cons /\ files = w.files /\ registered = w.registered
          /\ node = w.node /\ gap = w.gap /\ fails = w.fails /\ gaveup = w.gaveup
  /\ table = [n \in Nodes |-> {}] /\ tick = FALSE

Next ==
  \/ dlt_gateway_process_gateway_timer
  \/ \E fd \in DOMAIN files :
       dlt_gateway_process_passive_node_messages(fd) \/ Rejected(fd)
  \/ dlt_gateway_process_on_demand_request
  \/ dlt_gateway_forward_control_message
  \/ \E n \in Nodes : \/ NodeAnswer(n) \/ NodeLog(n) \/ NodeChange(n)
                      \/ NodeDown(n) \/ NodeUp(n)
  \/ OtherOpens

\* The timer fires again and again, the event loop serves every descriptor
\* that is ready, and a node answers what it is asked.
Fairness ==
  /\ WF_tick(TimerFires)
  /\ \A fd \in Fds :
       WF_vars(fd \in DOMAIN files /\ (dlt_gateway_process_passive_node_messages(fd)
                                         \/ Rejected(fd)))
  /\ \A n \in 1 .. 2 : WF_vars(n \in Nodes /\ NodeAnswer(n))

Spec == Init /\ [][Next]_vars /\ Fairness

-----------------------------------------------------------------------------
(* Properties.                                                              *)

\* A periodic control message is sent every interval timer ticks of a
\* connection, whatever the other intervals are.
PeriodicExact ==
  \A i \in ConIds : \A k \in DOMAIN cons[i].msgs :
    LET m == cons[i].msgs[k]
    IN m.interval > 0 =>
         /\ gap[i][k].ticks < m.interval
         /\ gap[i][k].last \in {0, m.interval}

\* The gateway gives a node up after Timeout failed retries in a row, neither
\* earlier, for failures of an earlier connection, nor later.
GivesUpOnTime ==
  \A i \in ConIds : gaveup[i] # 0 => gaveup[i] = cons[i].timeout + 1

\* What counts ticks counts them exactly (dlt_gateway_process_gateway_timer).
TimersExact == PeriodicExact /\ GivesUpOnTime

\* The connection of node i stands on both sides.
Linked(i) ==
  /\ i \in Nodes
  /\ cons[i].status = "CONNECTED" /\ cons[i].sock \in registered
  /\ files[cons[i].sock].node = i /\ files[cons[i].sock].state = "open"

\* A node that is up and stays up is connected again, whenever and however
\* often it was lost, if no timeout is configured, nobody disabled it and no
\* connection ended with an error: the event handler closes such a one without
\* telling the gateway, which goes on taking it for connected.
Reconnects ==
  \A i \in 1 .. 2 :
    <>[](i \in Nodes /\ cons[i].status # "UNINITIALIZED" /\ cons[i].timeout = 0
           /\ cons[i].trigger = "ON_STARTUP" /\ node[i].up /\ ~plan.resets)
      => <>[](Linked(i))

\* With a periodic GET_LOG_INFO the daemon's table of a connected node becomes
\* the node's: late answers and answers to clients leave nothing behind.
TablesConverge ==
  \A i \in 1 .. 2 :
    <>[](/\ Linked(i) /\ cons[i].trigger # "DISABLED"
         /\ \E k \in DOMAIN cons[i].msgs :
              cons[i].msgs[k].id = GET_LOG_INFO /\ cons[i].msgs[k].interval > 0)
      => <>[](i \in Nodes /\ table[i] = node[i].apps)
=============================================================================
