----------------------------- MODULE DltEventLoop ------------------------------
(* The event loop of the daemon (dlt_daemon_event_handler.c,                   *)
(* dlt_daemon_connection.c and the callbacks in dlt-daemon.c): the table that  *)
(* is given to poll(), the list of connections, and the callbacks that accept, *)
(* read and close connections while the loop walks over the table.             *)
(*                                                                             *)
(* Peers (clients, control applications, applications) connect, write, hang up *)
(* and are reset between any two steps.  A step of the loop is one entry of    *)
(* the table: the whole callback.                                              *)
EXTENDS DltReceiver, SequencesExt, FiniteSetsExt

CONSTANTS Peers,              \* numbers of peers, at least 1
          Fds,                \* file descriptors the daemon may have
          DLT_EV_BASE_FD,     \* size of the table at the start
          Limits              \* shapes of the histories, see Limit

\* kind: what each peer is; lengths: of the messages it writes; size: of a receive buffer;
\* unsupported: numbers of messages of applications with a type the daemon does not know;
\* short, unsafe: numbers of messages of control applications that hold no service id, and whose
\* mount point is refused;
\* slow: clients that may stop reading; how often peers hang up or are reset; timer ticks.
Limit == [kind : [Peers -> {"client", "control", "app", "none"}], lengths : [Peers -> Seq(Nat)],
          size : Nat, unsupported : SUBSET Nat, short : SUBSET Nat, unsafe : SUBSET Nat, slow : SUBSET Peers, hangups : Nat,
          resets : Nat, ticks : Nat, fds : Nat]

ASSUME ConstAssumption ==
  /\ Peers \subseteq Nat \ {0} /\ IsFiniteSet(Peers)
  /\ IsFiniteSet(Fds) /\ 1 .. 4 \subseteq Fds /\ Fds \subseteq Nat \ {0}
  /\ DLT_EV_BASE_FD \in Nat \ {0}
  /\ Limits \subseteq Limit

VARIABLES ev,                 \* pEvent: the table, its entries in use, the connections; the counter
          shared,             \* app_recv_buffer, one for all applications
          sock,               \* the kernel: what is behind each descriptor, see below
          at,                 \* 0: before poll(), else the next entry the loop looks at
          peer,               \* the state of each peer
          ticked,             \* the one second timer expired
          running,            \* "yes", or why the loop ended or never goes on
          blocked,            \* a callback waits for a descriptor that has nothing
          taken,              \* history: the messages taken from each peer
          limit, used

vars == <<ev, shared, sock, at, peer, ticked, running, blocked, taken, limit, used>>

\* Behind a descriptor: a peer, a listening socket, the timer, nothing.
NoSock == 0
Listens == [client |-> -1, control |-> -2, app |-> -3]
Timer == -4

--------------------------------------------------------------------------------
(* The table of poll() and the list of connections.                            *)

POLLIN == "in"
POLLERR == "err"

init_poll_fd == [fd |-> -1, revents |-> {}]

\* dlt_daemon_prepare_event_handling
EmptyHandler == [pfd |-> [i \in 1 .. DLT_EV_BASE_FD |-> init_poll_fd], nfds |-> 0,
                 connections |-> <<>>, client_connections |-> 0, next_id |-> 1]

dlt_event_handler_enable_fd(e, fd) ==
  LET grown == IF Len(e.pfd) <= e.nfds THEN e.pfd \o [i \in 1 .. Len(e.pfd) |-> init_poll_fd] ELSE e.pfd
  IN  [e EXCEPT !.pfd = [grown EXCEPT ![e.nfds + 1].fd = fd], !.nfds = @ + 1]

\* How many of the first i entries watch fd: so far the later ones are moved down.
Hits(e, fd, i) == Cardinality({k \in 1 .. i : e.pfd[k].fd = fd})

\* Mutant of Compressed: an entry that became free keeps what it held.
CompressedNotReset(e, fd, i) ==
  LET h == Hits(e, fd, i) IN IF h > 0 /\ i <= e.nfds - h THEN e.pfd[i + h] ELSE e.pfd[i]

\* Entry i of the compressed table.
Compressed(e, fd, i) ==
  LET h == Hits(e, fd, i)
  IN  IF i > e.nfds \/ h = 0 THEN e.pfd[i]
      ELSE IF i <= e.nfds - h THEN e.pfd[i + h] ELSE init_poll_fd

dlt_event_handler_disable_fd(e, fd) ==
  [e EXCEPT !.pfd = [i \in DOMAIN e.pfd |-> Compressed(e, fd, i)], !.nfds = @ - Hits(e, fd, e.nfds)]

\* The position of a connection in the list, 0 if there is none.
dlt_event_handler_find_connection(e, fd) == SelectInSeq(e.connections, LAMBDA c : c.fd = fd)

dlt_connection_check_activate(e, k, activate) ==
  LET c == e.connections[k]
  IN  CASE c.active /\ ~activate ->
             [dlt_event_handler_disable_fd(e, c.fd) EXCEPT !.connections[k].active = FALSE]
        [] ~c.active /\ activate ->
             [dlt_event_handler_enable_fd(e, c.fd) EXCEPT !.connections[k].active = TRUE]
        [] OTHER -> e

IsClient(type) == type = "client"

dlt_event_handler_register_connection(e, c) ==
  LET added == [e EXCEPT !.connections = Append(@, [c EXCEPT !.active = FALSE]),
                         !.client_connections = @ + (IF IsClient(c.type) THEN 1 ELSE 0)]
  IN  dlt_connection_check_activate(added, Len(added.connections), TRUE)

\* Mutant of dlt_event_handler_unregister_connection: the counter of clients is left.
UnregisterUncounted(e, fd) ==
  LET k == dlt_event_handler_find_connection(e, fd)
  IN  IF k = 0 THEN e
      ELSE [dlt_connection_check_activate(e, k, FALSE) EXCEPT !.connections = RemoveAt(@, k)]

dlt_event_handler_unregister_connection(e, fd) ==
  LET k == dlt_event_handler_find_connection(e, fd)
      counted == IF IsClient(e.connections[k].type)
                 THEN [e EXCEPT !.client_connections = Max({@ - 1, 0})] ELSE e
  IN  IF k = 0 THEN e
      ELSE [dlt_connection_check_activate(counted, k, FALSE) EXCEPT !.connections = RemoveAt(@, k)]

\* A connection for a descriptor that has none.
dlt_connection_create(e, fd, type, size) ==
  IF dlt_event_handler_find_connection(e, fd) # 0 THEN e
  ELSE dlt_event_handler_register_connection(
         [e EXCEPT !.next_id = @ + 1],
         [fd |-> fd, type |-> type, id |-> e.next_id, active |-> TRUE,
          rec |-> NewReceiver, own |-> dlt_receiver_init(size).b])

--------------------------------------------------------------------------------
(* The state a callback works on is a record w of the variables it may change. *)

W == [ev |-> ev, shared |-> shared, sock |-> sock, peer |-> peer, taken |-> taken]

\* dlt_connection_destroy closes the descriptor.
Unregister(w, fd) ==
  LET p == w.sock[fd]
  IN  [w EXCEPT !.ev = dlt_event_handler_unregister_connection(w.ev, fd),
                !.sock[fd] = NoSock,
                !.peer = IF p > 0 THEN [@ EXCEPT ![p].state = "closed"] ELSE @]

\* The clients that a message to all may fail to reach.
Broken(w) ==
  {p \in Peers : /\ limit.kind[p] = "client" /\ w.peer[p].state = "open"
                 /\ w.peer[p].hung \/ w.peer[p].reset \/ p \in limit.slow}

\* One more client of one of the states in S is closed.
OneClosed(S) == UNION {{Unregister(w, fd) : fd \in {x \in Fds : w.sock[x] \in Broken(w)}} : w \in S}

\* The states after n clients were closed.
Closed(w) == LET after[n \in Nat] == IF n = 0 THEN {w} ELSE OneClosed(after[n - 1]) IN after

\* dlt_daemon_client_send_all_multiple: clients that cannot be sent to are closed, which sends
\* to all that remain.  A send to a client that is gone fails or not.
Broadcasts(w) == UNION {Closed(w)[n] : n \in 0 .. Cardinality(Broken(w))}

\* Its last part is a message to all.
dlt_daemon_close_socket(w, fd) == Broadcasts(Unregister(w, fd))

\* accept() gives the lowest free descriptor.
FreeFds(w) == {fd \in Fds : w.sock[fd] = NoSock /\ fd <= limit.fds}
Queued(w, type) == {p \in Peers : limit.kind[p] = type /\ w.peer[p].state = "queued"}

Accepted(w, type, p) ==
  LET fd == Min(FreeFds(w))
  IN  [w EXCEPT !.ev = dlt_connection_create(w.ev, fd, type, limit.size),
                !.sock[fd] = p, !.peer[p].state = "open"]

\* What a callback makes of w: the states it may leave, and whether the loop goes on.
Goes(S) == {[w |-> w, running |-> "yes"] : w \in S}
Ends(S, why) == {[w |-> w, running |-> why] : w \in S}

\* A new client is told, all are told of it, and the ring buffer is sent to all.
Accepting(w, type) ==
  LET taken_in == {Accepted(w, type, p) : p \in Queued(w, type)}
  IN  IF FreeFds(w) = {} THEN Ends({w}, "accept")
      ELSE Goes(IF type = "client" THEN UNION {Broadcasts(x) : x \in taken_in} ELSE taken_in)

dlt_daemon_process_client_connect(w) == Accepting(w, "client")
dlt_daemon_process_control_connect(w) == Accepting(w, "control")
dlt_daemon_process_app_connect(w) == Accepting(w, "app")

\* What recv() may return: nothing after a hangup, an error or without room.
Reads(w, p, rec, b) ==
  LET bytes == w.peer[p].out
  IN  IF w.peer[p].reset \/ Room(rec, b, bytes) = 0 THEN {<<>>}
      ELSE {SubSeq(bytes, 1, n) : n \in 1 .. Room(rec, b, bytes)}

\* The receiver r and the buffer b of connection k after a callback that took messages.
Received(w, k, p, data, rec, b, messages) ==
  LET fd == w.ev.connections[k].fd
  IN  [w EXCEPT !.ev.connections[k].rec = dlt_receiver_move_to_begin(rec, b),
                !.ev.connections[k].own = IF w.ev.connections[k].type = "app" THEN @ ELSE b,
                !.shared = IF w.ev.connections[k].type = "app" THEN b ELSE @,
                !.peer[p].out = SubSeq(@, Len(data) + 1, Len(@)),
                !.taken[p] = @ \o messages]

\* Messages of a client or a control application, up to one that is refused.
Messages(w, k, p, data, refused) ==
  LET c == w.ev.connections[k]
      r == dlt_receiver_receive(c.rec, c.own, data)
      m == ReadMessages(r.rec, r.b, refused)
  IN  Received(w, k, p, data, m.rec, r.b, m.taken)

\* Mutant of dlt_daemon_process_client_messages: only an error closes the connection.
ClientHangupIgnored(w, k, p) ==
  LET c == w.ev.connections[k]
  IN  Goes(UNION {IF w.peer[p].reset THEN dlt_daemon_close_socket(w, c.fd)
                  ELSE {Messages(w, k, p, data, {})} : data \in Reads(w, p, c.rec, c.own)})

dlt_daemon_process_client_messages(w, k, p) ==
  LET c == w.ev.connections[k]
  IN  Goes(UNION {IF data = <<>> THEN dlt_daemon_close_socket(Messages(w, k, p, data, {}), c.fd)
                  ELSE {Messages(w, k, p, data, {})} : data \in Reads(w, p, c.rec, c.own)})

\* Protocol 1 refuses a message: one that is too short ends the loop of the daemon, one that
\* cannot be made secure is read again and again.
Control(x, k) ==
  LET c == x.ev.connections[k]
  IN  IF ~Complete(c.rec, c.own) THEN Goes({x})
      ELSE Ends({x}, IF c.own[c.rec.buf + 1].n \in limit.unsafe THEN "endless" ELSE "refused")

dlt_daemon_process_control_messages(w, k, p) ==
  LET c == w.ev.connections[k]
      refused == limit.short \cup limit.unsafe
  IN  UNION {IF data = <<>> THEN Ends(dlt_daemon_close_socket(w, c.fd), "control")
             ELSE Control(Messages(w, k, p, data, refused), k) : data \in Reads(w, p, c.rec, c.own)}

\* Log messages go to all clients, whose connections may be closed by that.
dlt_daemon_process_user_messages(w, k, p) ==
  LET c == w.ev.connections[k]
      Took(data) ==
        LET r == dlt_receiver_receive(c.rec, w.shared, data)
            m == UserMessages(r.rec, r.b, limit.unsupported)
            x == Received(w, k, p, data, m.rec, r.b, m.taken)
        IN  IF m.taken = <<>> THEN {x} ELSE Broadcasts(x)
  IN  Goes(UNION {IF data = <<>> THEN dlt_daemon_close_socket(w, c.fd) ELSE Took(data)
                  : data \in Reads(w, p, c.rec, w.shared)})

\* The timer is read; timing packets go to all.
dlt_daemon_process_one_s_timer(w) == Goes(Broadcasts(w))

--------------------------------------------------------------------------------
(* The loop.                                                                   *)

\* A descriptor that poll() reports, and what it reports.
Waits(p) == peer[p].state = "open" /\ (peer[p].out # <<>> \/ peer[p].hung \/ peer[p].reset)

Ready(fd) ==
  \/ \E p \in Peers : sock[fd] = p /\ Waits(p)
  \/ \E type \in DOMAIN Listens : sock[fd] = Listens[type] /\ Queued(W, type) # {}
  \/ sock[fd] = Timer /\ ticked

Revents(fd) ==
  (IF Ready(fd) THEN {POLLIN} ELSE {})
    \cup (IF \E p \in Peers : sock[fd] = p /\ peer[p].reset THEN {POLLERR} ELSE {})

Goon == UNCHANGED <<limit, used>>

\* poll() returns because a descriptor is ready; a return by the timeout changes nothing.
Poll ==
  /\ running = "yes" /\ ~blocked /\ at = 0
  /\ \E i \in 1 .. ev.nfds : Revents(ev.pfd[i].fd) # {}
  /\ ev' = [ev EXCEPT !.pfd = [i \in DOMAIN ev.pfd |->
                IF i <= ev.nfds THEN [ev.pfd[i] EXCEPT !.revents = Revents(ev.pfd[i].fd)] ELSE ev.pfd[i]]]
  /\ at' = 1
  /\ UNCHANGED <<shared, sock, peer, ticked, running, blocked, taken>> /\ Goon

Callback(w, fd, k) ==
  LET c == w.ev.connections[k]
  IN  CASE c.type = "client_connect" -> dlt_daemon_process_client_connect(w)
        [] c.type = "control_connect" -> dlt_daemon_process_control_connect(w)
        [] c.type = "app_connect" -> dlt_daemon_process_app_connect(w)
        [] c.type = "one_s_timer" -> dlt_daemon_process_one_s_timer(w)
        [] c.type = "client" -> dlt_daemon_process_client_messages(w, k, sock[fd])
        [] c.type = "control" -> dlt_daemon_process_control_messages(w, k, sock[fd])
        [] c.type = "app" -> dlt_daemon_process_user_messages(w, k, sock[fd])

\* An entry that poll() reported an error for.
Rejected(w, fd, k) ==
  IF w.ev.connections[k].type = "client" THEN Goes(dlt_daemon_close_socket(w, fd))
  ELSE Goes({Unregister(w, fd)})

\* One entry of the table in dlt_daemon_handle_event.
Entry ==
  LET i == at
      fd == ev.pfd[i].fd
      k == dlt_event_handler_find_connection(ev, fd)
  IN  /\ running = "yes" /\ ~blocked /\ i \in 1 .. ev.nfds
      /\ \/ /\ ev.pfd[i].revents = {}
            /\ at' = i + 1 /\ UNCHANGED <<ev, shared, sock, peer, ticked, running, blocked, taken>>
         \/ /\ ev.pfd[i].revents # {} /\ k = 0
            /\ ev' = dlt_event_handler_disable_fd(ev, fd)
            /\ at' = i + 1 /\ UNCHANGED <<shared, sock, peer, ticked, running, blocked, taken>>
         \/ /\ ev.pfd[i].revents # {} /\ k # 0
            /\ POLLERR \notin ev.pfd[i].revents /\ ~Ready(fd)
            /\ blocked' = TRUE /\ UNCHANGED <<ev, shared, sock, at, peer, ticked, running, taken>>
         \/ /\ ev.pfd[i].revents # {} /\ k # 0
            /\ POLLERR \in ev.pfd[i].revents \/ Ready(fd)
            /\ \E r \in IF POLLERR \in ev.pfd[i].revents THEN Rejected(W, fd, k) ELSE Callback(W, fd, k) :
                 /\ ev' = r.w.ev /\ shared' = r.w.shared /\ sock' = r.w.sock /\ peer' = r.w.peer
                 /\ taken' = r.w.taken /\ running' = r.running
            /\ at' = i + 1 /\ ticked' = (ticked /\ sock[fd] # Timer) /\ UNCHANGED blocked
      /\ Goon

\* The end of the table: the next call of dlt_daemon_handle_event.
Return ==
  /\ running = "yes" /\ ~blocked /\ at > ev.nfds
  /\ at' = 0
  /\ UNCHANGED <<ev, shared, sock, peer, ticked, running, blocked, taken>> /\ Goon

--------------------------------------------------------------------------------
(* The peers and the timer.                                                    *)

Env(name) == running = "yes" /\ UNCHANGED <<ev, shared, sock, at, running, blocked, taken, limit>>

Connect(p) ==
  /\ limit.kind[p] # "none" /\ peer[p].state = "idle"
  /\ peer' = [peer EXCEPT ![p].state = "queued"] /\ UNCHANGED <<used, ticked>> /\ Env("connect")

Bytes(p, n) == [pos \in 1 .. limit.lengths[p][n] |-> [from |-> p, n |-> n, pos |-> pos, len |-> limit.lengths[p][n]]]

Write(p) ==
  LET n == peer[p].sent + 1
  IN  /\ peer[p].state \in {"queued", "open"} /\ ~peer[p].hung /\ ~peer[p].reset
      /\ n \in DOMAIN limit.lengths[p]
      /\ peer' = [peer EXCEPT ![p].out = @ \o Bytes(p, n), ![p].sent = n]
      /\ UNCHANGED <<used, ticked>> /\ Env("write")

Hangup(p) ==
  /\ peer[p].state \in {"queued", "open"} /\ ~peer[p].hung /\ ~peer[p].reset
  /\ used.hangups < limit.hangups /\ used' = [used EXCEPT !.hangups = @ + 1]
  /\ peer' = [peer EXCEPT ![p].hung = TRUE] /\ UNCHANGED ticked /\ Env("hangup")

\* A reset discards what was not read.
Reset(p) ==
  /\ peer[p].state = "open" /\ ~peer[p].reset
  /\ used.resets < limit.resets /\ used' = [used EXCEPT !.resets = @ + 1]
  /\ peer' = [peer EXCEPT ![p].reset = TRUE, ![p].out = <<>>] /\ UNCHANGED ticked /\ Env("reset")

Tick ==
  /\ used.ticks < limit.ticks /\ used' = [used EXCEPT !.ticks = @ + 1]
  /\ ticked' = TRUE /\ UNCHANGED peer /\ Env("tick")

\* dlt_daemon_local_connection_init, dlt_daemon_init: listening sockets and the timer.
InitialHandler ==
  LET c1 == dlt_connection_create(EmptyHandler, 1, "app_connect", 0)
      c2 == dlt_connection_create(c1, 2, "client_connect", 0)
      c3 == dlt_connection_create(c2, 3, "control_connect", 0)
  IN  dlt_connection_create(c3, 4, "one_s_timer", 0)

Init ==
  /\ limit \in Limits
  /\ ev = InitialHandler
  /\ shared = dlt_receiver_init(limit.size).b
  /\ sock = [fd \in Fds |-> CASE fd = 1 -> Listens.app [] fd = 2 -> Listens.client
                           [] fd = 3 -> Listens.control [] fd = 4 -> Timer [] OTHER -> NoSock]
  /\ at = 0 /\ ticked = FALSE /\ running = "yes" /\ blocked = FALSE
  /\ peer = [p \in Peers |-> [state |-> "idle", out |-> <<>>, hung |-> FALSE, reset |-> FALSE, sent |-> 0]]
  /\ taken = [p \in Peers |-> <<>>]
  /\ used = [hangups |-> 0, resets |-> 0, ticks |-> 0]

Next ==
  \/ Poll \/ Entry \/ Return \/ Tick
  \/ \E p \in Peers : Connect(p) \/ Write(p) \/ Hangup(p) \/ Reset(p)

\* The thread of the daemon has a step: poll() returns, or the loop is in the table.  Only
\* its steps change "at", so this is the fairness of the steps Poll, Entry and Return.
Moves ==
  /\ running = "yes" /\ ~blocked
  /\ at = 0 => \E i \in 1 .. ev.nfds : Revents(ev.pfd[i].fd) # {}
  /\ \E n \in 0 .. Len(ev.pfd) + 1 : n # at /\ at' = n

Spec == Init /\ [][Next]_vars /\ WF_at(Moves)

--------------------------------------------------------------------------------
(* Properties.                                                                 *)

Conns == {ev.connections[k] : k \in DOMAIN ev.connections}

(* After any mixture of accepting, closing and growing while the loop walks    *)
(* over it, the table of poll() holds each connection exactly once, the        *)
(* connections are the descriptors that are open, and the counter of clients   *)
(* is their number                                                             *)
(* (dlt_event_handler_enable_fd, dlt_event_handler_disable_fd,                 *)
(* dlt_event_handler_register_connection,                                      *)
(* dlt_event_handler_unregister_connection).                                   *)
TableExact ==
  /\ ev.nfds = Len(ev.connections)
  /\ {ev.pfd[i].fd : i \in 1 .. ev.nfds} = {c.fd : c \in Conns}
  /\ {c.fd : c \in Conns} = {fd \in Fds : sock[fd] # NoSock}
  /\ \A c \in Conns : c.active
  /\ ev.client_connections = Cardinality({c \in Conns : IsClient(c.type)})

(* The daemon has one thread: no callback reads from a descriptor that has     *)
(* nothing to read.  An event that poll() reported is handled for the peer it  *)
(* was reported for, even when callbacks before it closed connections, the     *)
(* table was compressed and a new connection got the number of a closed one.   *)
NeverBlocks == ~blocked

(* The loop walks over a table that its callbacks change, and stays sound.     *)
(* A callback that never returns because it reads the same refused message     *)
(* again and again is not this: see Served.                                    *)
LoopSound == TableExact /\ NeverBlocks

\* The messages peer p wrote, as sequences of bytes.
Written(p) == [n \in 1 .. peer[p].sent |-> Bytes(p, n)]
Alone(p) == limit.kind[p] # "app" \/ \A q \in Peers \ {p} : limit.kind[q] # "app"
Supported(p) == SelectSeq(Written(p), LAMBDA m : limit.kind[p] # "app" \/ m[1].n \notin limit.unsupported)

(* However the bytes of a peer are cut into reads, the messages taken from it  *)
(* are the ones it wrote, whole and in order; none is skipped, and none comes  *)
(* from bytes of another peer (dlt_receiver_receive,                           *)
(* dlt_receiver_move_to_begin, dlt_daemon_process_user_messages).              *)
(* Applications that share app_recv_buffer are excepted: the beginning of a    *)
(* message at the beginning of that buffer is not kept.                        *)
StreamsIntact == \A p \in Peers : Alone(p) => IsPrefix(taken[p], Supported(p))

(* A control application that goes away ends its connection, not the loop: "the *)
(* connection is destroyed if a hangup occurs" (dlt_daemon_handle_event).      *)
HangupSurvived == running # "control"

\* What may stop the daemon: a control application went away, wrote a message that does not fit
\* into its buffer or that is refused; or there is no descriptor for a peer that connects.
Stopped ==
  \/ running = "accept" /\ FreeFds(W) = {}
  \/ running # "yes" /\ \E p \in Peers : /\ limit.kind[p] = "control"
                                         /\ \/ peer[p].hung \/ peer[p].reset
                                            \/ \E n \in 1 .. peer[p].sent :
                                                 \/ limit.lengths[p][n] > limit.size
                                                 \/ n \in limit.short \cup limit.unsafe

(* Every peer that connects, writes or goes away is served, whatever the       *)
(* others do and although callbacks skip entries of the table they compress.   *)
(* The daemon stops serving for no other reason than these: accept() finds no  *)
(* descriptor, a control application went away, or with protocol 1 it wrote a  *)
(* message without a service id (the loop ends: dlt_daemon_client_process_     *)
(* control returns -1) or with a mount point that is refused (the callback     *)
(* never returns: "continue" without dlt_receiver_remove).                     *)
Served ==
  \A p \in Peers : (peer[p].state = "queued" \/ Waits(p)) ~> ((~Waits(p) /\ peer[p].state # "queued") \/ Stopped)
================================================================================
