------------------------------- MODULE DltClient -------------------------------
(* The client library (dlt_client.c): connecting in the four modes, the main   *)
(* loop that hands messages to a callback, control requests and their reading  *)
(* by the daemon, the answer to GET_LOG_INFO and its parsing, and cleanup.     *)
(*                                                                             *)
(* A version is 1 or 2 (the twins ..._v2).  A byte of the stream is the record *)
(* of DltReceiver: "from" says whether it belongs to a serial header, to a     *)
(* message or to noise on the line.                                            *)
EXTENDS DltReceiver, SequencesExt

CONSTANTS SerialSize,         \* sizeof(dltSerialHeader)
          ReceiveBufSize,     \* DLT_RECEIVE_BUFSIZE
          ClientShapes        \* what a behaviour is about: see ClientShape in the model

ASSUME ClientAssumption ==
  /\ SerialSize \in 1 .. HeaderSize       \* both are 4
  /\ ReceiveBufSize \in Nat

VARIABLES
  cshape,       \* the stream of the daemon, the requests of the program, the daemon's table
  client,       \* DltClient
  fds,          \* descriptors that are open
  heap,         \* memory the client structure owns: strings and buffers
  stream,       \* bytes on their way to the client
  due,          \* messages whose bytes have all arrived on this connection (history)
  delivered,    \* messages the callback was given
  requests,     \* control requests that were written and not yet read by the daemon
  requested,    \* requests the program made and the library sent (history)
  understood,   \* what the daemon read them as
  loginfo       \* the result of parsing the answer to GET_LOG_INFO

cvars == <<cshape, client, fds, heap, stream, due, delivered, requests, requested, understood, loginfo>>

Serial == 1
Body == 2
Noise == 3

--------------------------------------------------------------------------------
(* Connecting *)

Fresh == [phase |-> "init", sock |-> -1, mode |-> "tcp", strings |-> 0, buffer |-> FALSE,
          rec |-> NewReceiver, buf |-> <<>>]

\* Before dlt_client_init nothing of the structure is valid.
Unset == [Fresh EXCEPT !.phase = "unset"]

dlt_client_init ==
  /\ client.phase = "unset"
  /\ client' = Fresh
  /\ UNCHANGED <<cshape, fds, heap, stream, due, delivered, requests, requested, understood, loginfo>>

\* dlt_client_set_mode with the address of that mode, duplicated: server, device or path; a
\* multicast client may name its interface as well.
dlt_client_set(mode, strings) ==
  /\ client.phase = "init"
  /\ client' = [client EXCEPT !.phase = "set", !.mode = mode, !.strings = strings]
  /\ heap' = heap + strings
  /\ UNCHANGED <<cshape, fds, stream, due, delivered, requests, requested, understood, loginfo>>

NewFd == CHOOSE f \in 3 .. 3 + Cardinality(fds) : f \notin fds

\* The result of the calls before the receiver: the descriptor client->sock holds, whether it
\* is open and whether the connection stands.
Attempt(sock, open, ok) == [sock |-> sock, open |-> open, ok |-> ok]

\* Every address of the name in turn.  An address whose socket cannot be connected is closed,
\* and its number stays in client->sock; a socket that cannot be created leaves -1.
dlt_client_connect_tcp ==
  {Attempt(client.sock, FALSE, FALSE),      \* getaddrinfo
   Attempt(-1, FALSE, FALSE),               \* socket
   Attempt(NewFd, FALSE, FALSE),            \* connect, poll or fcntl: closed
   Attempt(NewFd, TRUE, TRUE)}

\* A device that is none or cannot be set up stays open.
dlt_client_connect_serial ==
  {Attempt(-1, FALSE, FALSE), Attempt(NewFd, TRUE, FALSE), Attempt(NewFd, TRUE, TRUE)}

\* A socket that cannot be connected stays open.
dlt_client_connect_unix ==
  {Attempt(-1, FALSE, FALSE), Attempt(NewFd, TRUE, FALSE), Attempt(NewFd, TRUE, TRUE)}

\* So does one that cannot be bound or that cannot join one of the groups.
dlt_client_connect_multicast ==
  {Attempt(-1, FALSE, FALSE), Attempt(NewFd, TRUE, FALSE), Attempt(NewFd, TRUE, TRUE)}

Attempts ==
  CASE client.mode = "tcp" -> dlt_client_connect_tcp
    [] client.mode = "serial" -> dlt_client_connect_serial
    [] client.mode = "unix" -> dlt_client_connect_unix
    [] client.mode = "udp" -> dlt_client_connect_multicast

\* The gateway, which connects by TCP, tries again with the same structure: the buffer of an
\* earlier connection is used again, with the count of the bytes it holds.
dlt_client_connect ==
  /\ client.phase = "set" \/ (client.phase = "failed" /\ client.mode = "tcp")
  /\ \E a \in Attempts, memory \in BOOLEAN :
       /\ fds' = IF a.open THEN fds \union {a.sock} ELSE fds
       /\ IF a.ok /\ (memory \/ client.buffer)
          THEN /\ client' = [client EXCEPT !.phase = "connected", !.sock = a.sock, !.buffer = TRUE,
                      !.rec = IF client.buffer THEN [client.rec EXCEPT !.buf = 0] ELSE NewReceiver,
                      !.buf = IF client.buffer THEN @ ELSE [k \in 1 .. ReceiveBufSize |-> NoByte]]
               /\ heap' = IF client.buffer THEN heap ELSE heap + 1
          ELSE /\ client' = [client EXCEPT !.phase = IF a.open THEN "open" ELSE "failed",
                                           !.sock = a.sock]
               /\ UNCHANGED heap
  /\ UNCHANGED <<cshape, stream, due, delivered, requests, requested, understood, loginfo>>

\* Mutant of dlt_client_cleanup: the socket of a client that never connected is forgotten.
CleanupConnectedOnly ==
  /\ client.phase # "unset"
  /\ fds' = IF client.buffer THEN fds \ {client.sock} ELSE fds
  /\ heap' = heap - client.strings - (IF client.buffer THEN 1 ELSE 0)
  /\ client' = Unset
  /\ stream' = <<>> /\ due' = <<>> /\ delivered' = <<>>
  /\ UNCHANGED <<cshape, requests, requested, understood, loginfo>>

\* The descriptor is closed, the receiver's buffer and the addresses are freed; the peer
\* notices, and what was on its way is gone.
dlt_client_cleanup ==
  /\ client.phase # "unset"
  /\ fds' = fds \ {client.sock}
  /\ heap' = heap - client.strings - (IF client.buffer THEN 1 ELSE 0)
  /\ client' = Unset
  /\ stream' = <<>> /\ due' = <<>> /\ delivered' = <<>>
  /\ UNCHANGED <<cshape, requests, requested, understood, loginfo>>

--------------------------------------------------------------------------------
(* The main loop *)

IsSerial(b, at) ==
  at + SerialSize <= Len(b) /\ \A k \in 1 .. SerialSize : b[at + k].from = Serial /\ b[at + k].pos = k

\* dlt_message_read: a serial header at the beginning, or the next one when it resynchronises;
\* then the headers and the length they hold.
dlt_message_read(rec, b, resync) ==
  LET offsets == {o \in 0 .. rec.bytesRcvd - SerialSize : IsSerial(b, rec.buf + o)}
      found == IF resync THEN offsets # {} ELSE 0 \in offsets
      offset == IF ~found THEN (IF resync THEN rec.bytesRcvd - SerialSize + 1 ELSE 0)
                ELSE CHOOSE o \in offsets : \A p \in offsets : o <= p
      skip == offset + (IF found THEN SerialSize ELSE 0)
      first == rec.buf + skip + 1
      ok == /\ rec.bytesRcvd >= SerialSize
            /\ rec.bytesRcvd - skip >= HeaderSize
            /\ rec.bytesRcvd - skip >= LengthOf(b[first])
  IN  [ok |-> ok, serial |-> found, at |-> first]

\* The twin looks for a storage header first, which no connection carries, and counts the
\* lengths of the headers of version 2.
dlt_message_read_v2(rec, b, resync) == dlt_message_read(rec, b, resync)

\* Mutant of RemoveMessage: the serial header stays in the buffer.
RemoveWithoutSerial(rec, b, m) == dlt_receiver_remove(rec, LengthOf(b[m.at]))

\* The message and its serial header are removed, from the beginning of the buffer: bytes that
\* were skipped to find it are not counted, so that many bytes of it stay.
RemoveMessage(rec, b, m) ==
  dlt_receiver_remove(rec, LengthOf(b[m.at]) + (IF m.serial THEN SerialSize ELSE 0))

\* Between two reads the callback is given every whole message.
RECURSIVE TakeMessages(_, _, _, _, _)
TakeMessages(ver, rec, b, resync, taken) ==
  LET m == IF ver = 1 THEN dlt_message_read(rec, b, resync) ELSE dlt_message_read_v2(rec, b, resync)
  IN  IF ~m.ok THEN [rec |-> dlt_receiver_move_to_begin(rec, b), taken |-> taken]
      ELSE TakeMessages(ver, RemoveMessage(rec, b, m), b, resync,
                        Append(taken, SubSeq(b, m.at, m.at + LengthOf(b[m.at]) - 1)))

\* Numbers of the messages whose last byte is among "bytes".
Ends(bytes) ==
  LET last == SelectSeq(bytes, LAMBDA x : x.from = Body /\ x.pos = x.len)
  IN  [k \in DOMAIN last |-> last[k].n]

\* A message is whole when its bytes are the ones of one message in order.
NumberOf(message) ==
  IF \A k \in DOMAIN message : /\ message[k].from = Body
                               /\ message[k].n = message[1].n
                               /\ message[k].pos = k
                               /\ message[k].len = Len(message)
  THEN message[1].n ELSE 0

\* A datagram holds one message.
Datagram == CHOOSE n \in DOMAIN stream :
  /\ stream[n].from = Body /\ stream[n].pos = stream[n].len
  /\ \A m \in 1 .. n - 1 : ~(stream[m].from = Body /\ stream[m].pos = stream[m].len)

\* dlt_client_main_loop: one turn.  The daemon's bytes arrive in pieces of any size; datagrams
\* arrive as they were sent.
dlt_client_main_loop ==
  /\ client.phase = "connected"
  /\ stream # <<>>
  /\ \E n \in 1 .. Room(client.rec, client.buf, stream) :
       /\ client.mode = "udp" => n = Datagram
       /\ LET data == SubSeq(stream, 1, n)
              r == dlt_receiver_receive(client.rec, client.buf, data)
              t == TakeMessages(cshape.ver, r.rec, r.b, cshape.resync, <<>>)
          IN  /\ client' = [client EXCEPT !.rec = t.rec, !.buf = r.b]
              /\ stream' = SubSeq(stream, n + 1, Len(stream))
              /\ due' = due \o Ends(data)
              /\ delivered' = delivered \o [k \in DOMAIN t.taken |-> NumberOf(t.taken[k])]
  /\ UNCHANGED <<cshape, fds, heap, requests, requested, understood, loginfo>>

\* Or they do not arrive.
DatagramLost ==
  /\ client.phase = "connected" /\ client.mode = "udp" /\ stream # <<>>
  /\ stream' = SubSeq(stream, Datagram + 1, Len(stream))
  /\ UNCHANGED <<cshape, client, fds, heap, due, delivered, requests, requested, understood, loginfo>>

\* The connection ends: the read returns nothing, the bytes of a message that is not whole are
\* forgotten and the loop returns.
ConnectionEnds ==
  /\ client.phase = "connected"
  /\ client' = [client EXCEPT !.phase = "returned",
                              !.rec = dlt_receiver_receive(client.rec, client.buf, <<>>).rec]
  /\ stream' = <<>>
  /\ UNCHANGED <<cshape, fds, heap, due, delivered, requests, requested, understood, loginfo>>

\* The event loop of the gateway closes the socket of such a connection.
EventLoopCloses ==
  /\ client.phase = "returned" /\ client.mode = "tcp"
  /\ fds' = fds \ {client.sock}
  /\ client' = [client EXCEPT !.phase = "failed"]
  /\ due' = <<>> /\ delivered' = <<>>
  /\ UNCHANGED <<cshape, heap, stream, requests, requested, understood, loginfo>>

\* The daemon writes to the new connection.
DaemonWrites ==
  /\ client.phase = "connected" /\ stream = <<>> /\ due = <<>>
  /\ cshape.stream # <<>>
  /\ stream' = cshape.stream
  /\ UNCHANGED <<cshape, client, fds, heap, due, delivered, requests, requested, understood, loginfo>>

--------------------------------------------------------------------------------
(* Control requests.  A payload is a sequence of cells; a field of a packed    *)
(* structure is w cells of one value.                                          *)

Field(v, w) == [k \in 1 .. w |-> [v |-> v, k |-> k]]
Remo == 1000                        \* the four bytes "remo"
Uninitialised == [v |-> -1, k |-> 0]

\* An identifier of version 2 has a length of its own; 0 is the empty one.
IdLen(id) == IF id = 0 THEN 0 ELSE 2
Id2(id) == Field(IdLen(id), 1) \o Field(id, IdLen(id))

\* Mutant of LevelOfContext: the context goes before the application.
LevelOfContextSwapped(ver, service, r) ==
  IF ver = 1 THEN Field(service, 4) \o Field(r.ctid, 4) \o Field(r.apid, 4) \o Field(r.val, 1) \o Field(Remo, 4)
  ELSE Field(service, 4) \o Id2(r.apid) \o Id2(r.ctid) \o Field(r.val, 1) \o Field(Remo, 4)

\* dlt_client_send_log_level(_v2), and the layout of dlt_client_send_trace_status.
LevelOfContext(ver, service, r) ==
  IF ver = 1 THEN Field(service, 4) \o Field(r.apid, 4) \o Field(r.ctid, 4) \o Field(r.val, 1) \o Field(Remo, 4)
  ELSE Field(service, 4) \o Id2(r.apid) \o Id2(r.ctid) \o Field(r.val, 1) \o Field(Remo, 4)

\* In version 2 the last field is written over the first.
dlt_client_send_trace_status(ver, service, r) ==
  LET layout == LevelOfContext(ver, service, r)
      n == Len(layout)
  IN  IF ver = 1 THEN layout
      ELSE [k \in 1 .. n |-> IF k <= 4 THEN Field(Remo, 4)[k] ELSE IF k > n - 4 THEN Uninitialised ELSE layout[k]]

dlt_client_get_log_info(ver, service, r) ==
  IF ver = 1 THEN Field(service, 4) \o Field(r.val, 1) \o Field(r.apid, 4) \o Field(r.ctid, 4) \o Field(Remo, 4)
  ELSE Field(service, 4) \o Field(r.val, 1) \o Id2(r.apid) \o Id2(r.ctid) \o Field(Remo, 4)

\* dlt_client_send_default_log_level, ..._all_log_level and ..._default_trace_status.
LevelOnly(service, r) == Field(service, 4) \o Field(r.val, 1) \o Field(Remo, 4)

dlt_client_send_all_trace_status(service, r) == Field(service, 4) \o Field(r.val, 1) \o Field(Remo, 4)

dlt_client_send_timing_pakets(service, r) == Field(service, 4) \o Field(r.val, 1)

\* dlt_client_get_default_log_level and dlt_client_get_software_version.
GetService(service) == Field(service, 4)

\* dlt_client_send_store_config and dlt_client_send_reset_to_factory_default.
ServiceOnly(service) == Field(service, 4)

\* The service, the length and the data.
dlt_client_send_inject_msg(service, r) == Field(service, 4) \o Field(r.val, 4) \o Field(r.apid, r.val)

SET_LOG_LEVEL == 1
SET_TRACE_STATUS == 2
GET_LOG_INFO == 3
LevelServices == {17, 18, 3848, 3849}     \* default level and status, all levels, all status
SET_ALL_TRACE_STATUS == 3849
SET_TIMING_PACKETS == 11
GetServices == {4, 19}              \* default level, software version
PlainServices == {5, 6} \union GetServices   \* store, reset
INJECTION_MIN == 4095

Payload(ver, r) ==
  CASE r.service = SET_LOG_LEVEL -> LevelOfContext(ver, r.service, r)
    [] r.service = SET_TRACE_STATUS -> dlt_client_send_trace_status(ver, r.service, r)
    [] r.service = GET_LOG_INFO -> dlt_client_get_log_info(ver, r.service, r)
    [] r.service = SET_ALL_TRACE_STATUS -> dlt_client_send_all_trace_status(r.service, r)
    [] r.service \in LevelServices \ {SET_ALL_TRACE_STATUS} -> LevelOnly(r.service, r)
    [] r.service = SET_TIMING_PACKETS -> dlt_client_send_timing_pakets(r.service, r)
    [] r.service \in GetServices -> GetService(r.service)
    [] r.service \in PlainServices \ GetServices -> ServiceOnly(r.service)
    [] r.service >= INJECTION_MIN -> dlt_client_send_inject_msg(r.service, r)

\* Headers and payload are written one after the other.  A socket that is not connected to
\* one peer, or a peer that is gone, makes it fail.
Send(r) ==
  /\ client.phase \in {"connected", "returned"}
  /\ Len(requested) < Len(cshape.requests)
  /\ r = cshape.requests[Len(requested) + 1]
  /\ client.mode # "udp"
  /\ requests' = Append(requests, Payload(cshape.ver, r))
  /\ requested' = Append(requested, r)
  /\ UNCHANGED <<cshape, client, fds, heap, stream, due, delivered, understood, loginfo>>

\* The versions differ in the headers they compose.
dlt_client_send_ctrl_msg(r) == cshape.ver = 1 /\ Send(r)
dlt_client_send_ctrl_msg_v2(r) == cshape.ver = 2 /\ Send(r)

--------------------------------------------------------------------------------
(* The daemon's reading of a request.                                          *)

Get(p, at, w) ==
  IF at + w <= Len(p) /\ \A k \in 1 .. w : p[at + k] = [v |-> p[at + 1].v, k |-> k]
  THEN (IF w = 0 THEN 0 ELSE p[at + 1].v) ELSE -1

Unknown == -2                       \* an identifier that was sent and not read
NotRead == [service |-> 0, apid |-> 0, ctid |-> 0, val |-> 0]

\* dlt_daemon_control_set_log_level and ..._trace_status: packed structures in version 1.  In
\* version 2 the identifiers have nowhere to go, and are not modelled.
ReadLevelOfContext(ver, p) ==
  IF ver = 1 /\ Len(p) >= 17
  THEN [service |-> Get(p, 0, 4), apid |-> Get(p, 4, 4), ctid |-> Get(p, 8, 4), val |-> Get(p, 12, 1)]
  ELSE [NotRead EXCEPT !.service = Get(p, 0, 4)]

\* dlt_daemon_control_get_log_info and its twin, which reads the lengths of the identifiers and
\* has no memory for the identifiers themselves.
ReadLogInfo(ver, p) ==
  IF ver = 1
  THEN IF Len(p) < 17 THEN NotRead
       ELSE [service |-> Get(p, 0, 4), val |-> Get(p, 4, 1), apid |-> Get(p, 5, 4), ctid |-> Get(p, 9, 4)]
  ELSE LET alen == Get(p, 5, 1)
           clen == Get(p, 6 + alen, 1)
       IN  IF Len(p) < 11 THEN NotRead
           ELSE [service |-> Get(p, 0, 4), val |-> Get(p, 4, 1),
                 apid |-> IF alen = 0 THEN 0 ELSE Unknown, ctid |-> IF clen = 0 THEN 0 ELSE Unknown]

ReadLevel(p) ==
  IF Len(p) < 9 THEN NotRead ELSE [NotRead EXCEPT !.service = Get(p, 0, 4), !.val = Get(p, 4, 1)]

ReadTiming(p) ==
  IF Len(p) < 5 THEN NotRead ELSE [NotRead EXCEPT !.service = Get(p, 0, 4), !.val = Get(p, 4, 1)]

\* dlt_daemon_control_callsw_cinjection: the length must not exceed what was received.
ReadInjection(p) ==
  LET n == Get(p, 4, 4)
  IN  IF Len(p) < 8 \/ n < 0 \/ n > Len(p) - 8 THEN [NotRead EXCEPT !.service = Get(p, 0, 4)]
      ELSE [service |-> Get(p, 0, 4), val |-> n, apid |-> Get(p, 8, n), ctid |-> 0]

\* dlt_daemon_client_process_control(_v2): the service is in the first four bytes.  "remo" read
\* as a number is beyond the injection limit.
dlt_daemon_client_process_control(ver, p) ==
  LET id == Get(p, 0, 4)
  IN  CASE id \in {SET_LOG_LEVEL, SET_TRACE_STATUS} -> ReadLevelOfContext(ver, p)
        [] id = GET_LOG_INFO -> ReadLogInfo(ver, p)
        [] id \in LevelServices -> ReadLevel(p)
        [] id = SET_TIMING_PACKETS -> ReadTiming(p)
        [] id \in PlainServices -> [NotRead EXCEPT !.service = id]
        [] id >= INJECTION_MIN \/ id = Remo -> ReadInjection(p)

--------------------------------------------------------------------------------
(* The answer to GET_LOG_INFO.  An application of the daemon's table is        *)
(* [apid, desc, ctxs], a context [ctid, ll, ts, desc]; identifiers are small   *)
(* numbers, descriptions sequences of bytes.                                   *)

Word(n) == <<n % 256, n \div 256>>
Signed(byte) == IF byte > 127 THEN byte - 256 ELSE byte
WriteId(ver, id) == IF ver = 1 THEN <<id, 0, 0, 0>> ELSE <<2, id, 0>>
WriteText(s) == Word(Len(s)) \o s
WithLevel == {4, 6, 7}
WithStatus == {5, 6, 7}

WriteContext(ver, options, c) ==
  WriteId(ver, c.ctid)
  \o (IF options \in WithLevel THEN <<c.ll % 256>> ELSE <<>>)
  \o (IF options \in WithStatus THEN <<c.ts % 256>> ELSE <<>>)
  \o (IF options = 7 THEN WriteText(c.desc) ELSE <<>>)

\* num_applications: the one that was named, or all.
Applications(req, table) ==
  IF req.apid = 0 THEN table ELSE SelectSeq(table, LAMBDA app : app.apid = req.apid)

\* The contexts of an application that are written: all, or the one that was named.
Contexts(req, app) ==
  IF req.ctid = 0 THEN app.ctxs ELSE SelectSeq(app.ctxs, LAMBDA c : c.ctid = req.ctid)

\* count_con_ids: without an application id every context is counted, also when a context was
\* named and the others are not written.
ContextCount(req, app) == IF req.apid # 0 THEN Len(Contexts(req, app)) ELSE Len(app.ctxs)

WriteApplication(ver, req, app) ==
  LET ctxs == Contexts(req, app)
  IN  WriteId(ver, app.apid) \o Word(ContextCount(req, app))
      \o FlattenSeq([k \in DOMAIN ctxs |-> WriteContext(ver, req.val, ctxs[k])])
      \o (IF req.val = 7 THEN WriteText(app.desc) ELSE <<>>)

\* The status byte, 8 when no context matches, and behind it the bytes that the text shows as
\* pairs of hexadecimal digits: the applications, also the ones without contexts, and "remo".
dlt_daemon_control_get_log_info_answer(ver, req, table) ==
  LET apps == Applications(req, table)
  IN  [status |-> IF \E k \in DOMAIN apps : ContextCount(req, apps[k]) # 0 THEN req.val ELSE 8,
       bytes |-> (IF apps = <<>> THEN <<>>
                  ELSE Word(Len(apps))
                       \o FlattenSeq([k \in DOMAIN apps |-> WriteApplication(ver, req, apps[k])]))
                 \o <<114, 101, 109, 111>>]

\* The readers advance in the text; "rp" is their position, in bytes.  A number of entries or bytes
\* beyond the text takes the reader out of it, what it finds there is not modelled.
At(bytes, k) == IF k \in DOMAIN bytes THEN bytes[k] ELSE 0
dlt_getloginfo_conv_ascii_to_uint16_t(bytes, rp) == At(bytes, rp) + 256 * At(bytes, rp + 1)
dlt_getloginfo_conv_ascii_to_int16_t(bytes, rp) == Signed(At(bytes, rp))
dlt_getloginfo_conv_ascii_to_uint8_t(bytes, rp) == At(bytes, rp)
dlt_getloginfo_conv_ascii_to_id(bytes, rp, len) == [k \in 1 .. len |-> At(bytes, rp + k - 1)]
Within(bytes, n) == IF n > Len(bytes) THEN 0 ELSE n

\* An identifier: four bytes, or in version 2 a length and as many bytes.
ParseId(ver, bytes, rp) ==
  LET len == IF ver = 1 THEN 4 ELSE dlt_getloginfo_conv_ascii_to_uint8_t(bytes, rp)
      at == IF ver = 1 THEN rp ELSE rp + 1
  IN  [id |-> IF len = 0 THEN 0 ELSE dlt_getloginfo_conv_ascii_to_id(bytes, at, len)[1], rp |-> at + len]

ParseText(bytes, rp) ==
  LET len == Within(bytes, dlt_getloginfo_conv_ascii_to_uint16_t(bytes, rp))
  IN  [text |-> dlt_getloginfo_conv_ascii_to_id(bytes, rp + 2, len), rp |-> rp + 2 + len]

\* Mutant of ParseContext: a level is read as an unsigned number.
ParseContextUnsigned(ver, status, bytes, s) ==
  LET id == ParseId(ver, bytes, s.rp)
      afterLevel == IF status \in WithLevel THEN id.rp + 1 ELSE id.rp
      afterStatus == IF status \in WithStatus THEN afterLevel + 1 ELSE afterLevel
      text == IF status = 7 THEN ParseText(bytes, afterStatus) ELSE [text |-> <<>>, rp |-> afterStatus]
  IN  [rp |-> text.rp,
       list |-> Append(s.list,
          [ctid |-> id.id,
           ll |-> IF status \in WithLevel THEN At(bytes, id.rp) ELSE 0,
           ts |-> IF status \in WithStatus THEN At(bytes, afterLevel) ELSE 0,
           desc |-> text.text])]

\* Fields the status does not announce stay as calloc left them.
ParseContext(ver, status, bytes, s) ==
  LET id == ParseId(ver, bytes, s.rp)
      afterLevel == IF status \in WithLevel THEN id.rp + 1 ELSE id.rp
      afterStatus == IF status \in WithStatus THEN afterLevel + 1 ELSE afterLevel
      text == IF status = 7 THEN ParseText(bytes, afterStatus) ELSE [text |-> <<>>, rp |-> afterStatus]
  IN  [rp |-> text.rp,
       list |-> Append(s.list,
          [ctid |-> id.id,
           ll |-> IF status \in WithLevel THEN dlt_getloginfo_conv_ascii_to_int16_t(bytes, id.rp) ELSE 0,
           ts |-> IF status \in WithStatus THEN dlt_getloginfo_conv_ascii_to_int16_t(bytes, afterLevel) ELSE 0,
           desc |-> text.text])]

ParseApplication(ver, status, bytes, s) ==
  LET id == ParseId(ver, bytes, s.rp)
      count == Within(bytes, dlt_getloginfo_conv_ascii_to_uint16_t(bytes, id.rp))
      ctxs == FoldLeft(LAMBDA acc, k : ParseContext(ver, status, bytes, acc),
                       [rp |-> id.rp + 2, list |-> <<>>], [k \in 1 .. count |-> k])
      text == IF status = 7 THEN ParseText(bytes, ctxs.rp) ELSE [text |-> <<>>, rp |-> ctxs.rp]
  IN  [rp |-> text.rp, list |-> Append(s.list, [apid |-> id.id, desc |-> text.text, ctxs |-> ctxs.list])]

\* The status stands in the text as two hexadecimal digits, which are read as decimal ones.
dlt_set_loginfo_parse_service_id(answer) ==
  LET high == answer.status \div 16
      low == answer.status % 16
  IN  IF high > 9 THEN 0 ELSE IF low > 9 THEN high ELSE 10 * high + low

\* dlt_client_parse_get_log_info_resp_text(_v2): a status outside 3 .. 7 is refused.
dlt_client_parse_get_log_info_resp_text(ver, answer) ==
  LET status == dlt_set_loginfo_parse_service_id(answer)
      count == Within(answer.bytes, dlt_getloginfo_conv_ascii_to_uint16_t(answer.bytes, 1))
  IN  IF status \notin 3 .. 7 THEN <<>>
      ELSE FoldLeft(LAMBDA acc, k : ParseApplication(ver, status, answer.bytes, acc),
                    [rp |-> 3, list |-> <<>>], [k \in 1 .. count |-> k]).list

--------------------------------------------------------------------------------

\* The daemon reads the next request; a request for the log info is answered and the client
\* parses the answer, and frees what it parsed before (dlt_client_cleanup_get_log_info).
DaemonReads ==
  /\ requests # <<>>
  /\ LET d == dlt_daemon_client_process_control(cshape.ver, Head(requests))
     IN  /\ understood' = Append(understood, d)
         /\ loginfo' = IF d.service = GET_LOG_INFO /\ d.val \in 3 .. 7
                       THEN dlt_client_parse_get_log_info_resp_text(cshape.ver,
                              dlt_daemon_control_get_log_info_answer(cshape.ver, d, cshape.table))
                       ELSE loginfo
  /\ requests' = Tail(requests)
  /\ UNCHANGED <<cshape, client, fds, heap, stream, due, delivered, requested>>

ClientInit ==
  /\ cshape \in ClientShapes
  /\ client = Unset
  /\ fds = {} /\ heap = 0
  /\ stream = <<>> /\ due = <<>> /\ delivered = <<>>
  /\ requests = <<>> /\ requested = <<>> /\ understood = <<>> /\ loginfo = <<>>

ClientNext ==
  \/ dlt_client_init
  \/ \E mode \in cshape.modes, interface \in {0, 1} :
       (interface = 1 => mode = "udp") /\ dlt_client_set(mode, 1 + interface)
  \/ dlt_client_connect
  \/ DaemonWrites
  \/ dlt_client_main_loop
  \/ DatagramLost
  \/ ConnectionEnds
  \/ EventLoopCloses
  \/ \E k \in DOMAIN cshape.requests :
       \/ dlt_client_send_ctrl_msg(cshape.requests[k])
       \/ dlt_client_send_ctrl_msg_v2(cshape.requests[k])
  \/ DaemonReads
  \/ dlt_client_cleanup

ClientSpec == ClientInit /\ [][ClientNext]_cvars

--------------------------------------------------------------------------------

\* After dlt_client_cleanup no descriptor is open and nothing is allocated, however far the
\* connecting came (dlt_client_connect returns in many places, dlt_client_cleanup releases).
CleanupReleases == client.phase = "unset" => fds = {} /\ heap = 0

\* The callback is given every message whose bytes have arrived, once, whole and in order:
\* however the stream is cut (dlt_client_main_loop over dlt_receiver_*), with serial headers or
\* without, and behind noise that is shorter than a message.
DeliveredExact == delivered = due

\* What the daemon reads is what the program requested: service, identifiers and value.  Requests of
\* version 2 that carry identifiers are left out, the daemon has no memory to read them into.
NamesIds(r) == r.service \in {SET_LOG_LEVEL, SET_TRACE_STATUS} \/ (r.service = GET_LOG_INFO /\ (r.apid # 0 \/ r.ctid # 0))

RequestsUnderstood ==
  \A k \in DOMAIN understood : cshape.ver = 1 \/ ~NamesIds(requested[k]) => understood[k] = requested[k]

\* The parsed answer shows the applications and contexts that were asked for, in the detail that
\* was asked for, and nothing when no context is among them; the last request for it is the last
\* one understood (dlt_daemon_control_get_log_info, dlt_client_parse_get_log_info_resp_text).  Two
\* requests are left out: a context without its application, where the answer announces contexts it
\* does not list, and identifiers in version 2.
Shown(r, app) ==
  [app EXCEPT !.desc = IF r.val = 7 THEN app.desc ELSE <<>>,
              !.ctxs = LET asked == SelectSeq(app.ctxs, LAMBDA c : r.ctid \in {0, c.ctid})
                       IN  [k \in DOMAIN asked |->
                 [asked[k] EXCEPT !.ll = IF r.val \in WithLevel THEN @ ELSE 0,
                                  !.ts = IF r.val \in WithStatus THEN @ ELSE 0,
                                  !.desc = IF r.val = 7 THEN @ ELSE <<>>]]]

LogInfoParsed ==
  LET infos == {k \in DOMAIN understood : requested[k].service = GET_LOG_INFO}
      r == requested[CHOOSE k \in infos : \A m \in infos : m <= k]
      asked == SelectSeq(cshape.table, LAMBDA app : r.apid \in {0, app.apid})
      shown == [k \in DOMAIN asked |-> Shown(r, asked[k])]
  IN  infos # {} /\ (r.apid # 0 \/ r.ctid = 0) /\ (cshape.ver = 1 \/ ~NamesIds(r)) =>
        loginfo = IF \E k \in DOMAIN shown : shown[k].ctxs # <<>> THEN shown ELSE <<>>

\* A program and the daemon understand each other, in both directions and in both versions
\* (dlt_client_main_loop, dlt_client_send_ctrl_msg, dlt_client_parse_get_log_info_resp_text), and a
\* program that cleans up leaves nothing behind (dlt_client_cleanup).
ClientExact == DeliveredExact /\ RequestsUnderstood /\ LogInfoParsed /\ CleanupReleases
================================================================================
