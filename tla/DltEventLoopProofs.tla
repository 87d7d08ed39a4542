-------------------------- MODULE DltEventLoopProofs ---------------------------
(* LoopSound of DltEventLoop holds for all peers, descriptors and histories.   *)
EXTENDS DltEventLoop, FiniteSetTheorems, WellFoundedInduction, TLAPS

Types == {"app_connect", "client_connect", "control_connect", "one_s_timer", "client", "control", "app"}
Row == [fd : Int, revents : SUBSET {POLLIN, POLLERR}]

\* The fields of the records, whatever is in them.
StateShape(w) ==
  w = [ev |-> w.ev, shared |-> w.shared, sock |-> w.sock, peer |-> w.peer, taken |-> w.taken]
HandlerShape(e) ==
  e = [pfd |-> e.pfd, nfds |-> e.nfds, connections |-> e.connections,
       client_connections |-> e.client_connections, next_id |-> e.next_id]
ConnShape(c) ==
  c = [fd |-> c.fd, type |-> c.type, id |-> c.id, active |-> c.active, rec |-> c.rec, own |-> c.own]
IsSeq(s) == \E S : s \in Seq(S)

PeerShape(p) ==
  /\ p = [state |-> p.state, out |-> p.out, hung |-> p.hung, reset |-> p.reset, sent |-> p.sent]
  /\ IsSeq(p.out)

ConnSound(c) == ConnShape(c) /\ c.fd \in Fds /\ c.type \in Types /\ c.active = TRUE

\* The list of connections: each has a descriptor of its own.
Conn(l) ==
  /\ IsSeq(l)
  /\ \A i \in 1 .. Len(l) : ConnSound(l[i])
  /\ \A i, j \in 1 .. Len(l) : l[i].fd = l[j].fd => i = j

\* The rows of the table in use are the connections, in the same order; the others report nothing.
Rows(pfd, n, l) ==
  /\ pfd \in Seq(Row) /\ Len(pfd) > 0
  /\ n = Len(l) /\ n <= Len(pfd)
  /\ \A i \in 1 .. n : pfd[i].fd = l[i].fd
  /\ \A i \in n + 1 .. Len(pfd) : pfd[i].revents = {}

ClientFds(l) == {fd \in Fds : \E i \in 1 .. Len(l) : l[i].fd = fd /\ l[i].type = "client"}

Lined(e) == HandlerShape(e) /\ Conn(e.connections) /\ Rows(e.pfd, e.nfds, e.connections)

Table(e) ==
  /\ Lined(e)
  /\ e.client_connections = Cardinality(ClientFds(e.connections))

\* What is behind the descriptor of a connection.
Faces(c, s, pr) ==
  \/ c.type = "app_connect" /\ s[c.fd] = Listens.app
  \/ c.type = "client_connect" /\ s[c.fd] = Listens.client
  \/ c.type = "control_connect" /\ s[c.fd] = Listens.control
  \/ c.type = "one_s_timer" /\ s[c.fd] = Timer
  \/ c.type \in {"client", "control", "app"} /\ s[c.fd] \in Peers /\ pr[s[c.fd]].state = "open"

\* The open descriptors are those of the connections, and nothing is behind two of them.
Sockets(l, s, pr) ==
  /\ s \in [Fds -> Int]
  /\ pr = [p \in Peers |-> pr[p]] /\ \A p \in Peers : PeerShape(pr[p])
  /\ \A fd \in Fds : s[fd] # NoSock => \E i \in 1 .. Len(l) : l[i].fd = fd
  /\ \A i \in 1 .. Len(l) : Faces(l[i], s, pr)
  /\ \A x, y \in Fds : s[x] = s[y] /\ s[x] # NoSock => x = y

\* Ready of a state that a callback works on.
ReadyIn(s, pr, kind, tk, fd) ==
  \/ \E p \in Peers : s[fd] = p /\ pr[p].state = "open" /\ (pr[p].out # <<>> \/ pr[p].hung \/ pr[p].reset)
  \/ \E type \in {"client", "control", "app"} :
       s[fd] = Listens[type] /\ \E p \in Peers : kind[p] = type /\ pr[p].state = "queued"
  \/ s[fd] = Timer /\ tk

\* The rows from n on report an error or what is still to be handled.
Pending(pfd, n, s, pr, kind, tk, last) ==
  \A i \in n .. last : pfd[i].revents # {} => POLLERR \in pfd[i].revents \/ ReadyIn(s, pr, kind, tk, pfd[i].fd)

Good(w) == StateShape(w) /\ Table(w.ev) /\ Sockets(w.ev.connections, w.sock, w.peer)
Left(w, n, tk) == Pending(w.ev.pfd, n, w.sock, w.peer, limit.kind, tk, w.ev.nfds)

LoopInv ==
  /\ at \in Nat /\ blocked = FALSE /\ limit \in Limits /\ Good(W)
  /\ at # 0 => Left(W, at, ticked)

--------------------------------------------------------------------------------
(* Naturals.                                                                   *)

\* A set of natural numbers has a least element.
LEMMA LeastOf ==
  ASSUME NEW T, T \subseteq Nat, T # {}
  PROVE  \E n \in T : \A m \in T : n <= m
  <1>1. PICK n \in T : \A m \in T : ~ (<<m, n>> \in OpToRel(<, Nat))
    BY NatLessThanWellFounded, WFMin
  <1>2. ASSUME NEW m \in T PROVE n <= m
    <2>1. m \in Nat /\ n \in Nat
      OBVIOUS
    <2>2. m < n => <<m, n>> \in OpToRel(<, Nat)
      BY <2>1, Zenon DEF OpToRel
    <2>3. ~ (m < n)
      BY <1>1, <2>2
    <2> QED
      BY <2>1, <2>3
  <1> QED
    BY <1>2

\* Induction, for a set of natural numbers.
LEMMA Inductive ==
  ASSUME NEW T, 0 \in T, \A n \in Nat : n \in T => n + 1 \in T
  PROVE  Nat \subseteq T
  <1> SUFFICES ASSUME Nat \ T # {} PROVE FALSE
    OBVIOUS
  <1>1. PICK n \in Nat \ T : \A m \in Nat \ T : n <= m
    BY LeastOf
  <1>2. n - 1 \in Nat /\ ~ (n <= n - 1) /\ n = (n - 1) + 1
    OBVIOUS
  <1> QED
    BY <1>1, <1>2

\* Min of FiniteSetsExt is such an element.
LEMMA MinIn ==
  ASSUME NEW T, T \subseteq Nat, T # {}
  PROVE  Min(T) \in T
  BY LeastOf DEF Min

LEMMA MinOne == ASSUME NEW k \in Nat PROVE Min({k}) = k
  BY MinIn

LEMMA MaxOf == ASSUME NEW k \in Nat PROVE Max({k, 0}) = k
  <1>1. \E x \in {k, 0} : \A y \in {k, 0} : x >= y
    OBVIOUS
  <1>2. Max({k, 0}) \in {k, 0} /\ \A y \in {k, 0} : Max({k, 0}) >= y
    BY <1>1 DEF Max
  <1> QED
    BY <1>2

--------------------------------------------------------------------------------
(* Removing connection k.                                                      *)

\* The place in a longer list.
From(i, k) == IF i < k THEN i ELSE i + 1

\* A connection is found at its own place in the list.
LEMMA FindsIt ==
  ASSUME NEW e, Conn(e.connections), NEW k \in 1 .. Len(e.connections)
  PROVE  dlt_event_handler_find_connection(e, e.connections[k].fd) = k
  <1>1. {i \in 1 .. Len(e.connections) : e.connections[i].fd = e.connections[k].fd} = {k}
    BY DEF Conn
  <1>2. k \in Nat
    BY DEF Conn, IsSeq
  <1> QED
    BY <1>1, <1>2, MinOne DEF dlt_event_handler_find_connection, SelectInSeq

\* A descriptor without a connection is not found.
LEMMA FindsNone ==
  ASSUME NEW e, NEW fd, \A i \in 1 .. Len(e.connections) : e.connections[i].fd # fd
  PROVE  dlt_event_handler_find_connection(e, fd) = 0
  BY DEF dlt_event_handler_find_connection, SelectInSeq

\* A descriptor is in one row of the table.
LEMMA HitsOnce ==
  ASSUME NEW e, Lined(e), NEW k \in 1 .. e.nfds, NEW i \in 0 .. e.nfds
  PROVE  Hits(e, e.connections[k].fd, i) = IF k <= i THEN 1 ELSE 0
  <1>1. e.nfds \in Nat /\ e.nfds = Len(e.connections)
    BY DEF Lined, Rows, Conn, IsSeq
  <1>2. \A j \in 1 .. e.nfds : e.pfd[j].fd = e.connections[k].fd <=> j = k
    BY <1>1 DEF Lined, Rows, Conn
  <1>3. {j \in 1 .. i : e.pfd[j].fd = e.connections[k].fd} = IF k <= i THEN {k} ELSE {}
    BY <1>1, <1>2
  <1> QED
    BY <1>3, FS_Singleton, FS_EmptySet DEF Hits

\* The rows behind row k move down by one, and the last one is reset.
DisabledRow(e, k, i) ==
  IF i < k \/ i > e.nfds THEN e.pfd[i] ELSE IF i < e.nfds THEN e.pfd[i + 1] ELSE init_poll_fd

\* dlt_event_handler_disable_fd in terms of the row that goes.
LEMMA Disables ==
  ASSUME NEW e, Lined(e), NEW k \in 1 .. e.nfds
  PROVE  dlt_event_handler_disable_fd(e, e.connections[k].fd) =
           [e EXCEPT !.pfd = [i \in DOMAIN e.pfd |-> DisabledRow(e, k, i)], !.nfds = e.nfds - 1]
  <1> DEFINE fd == e.connections[k].fd
  <1>1. e.nfds \in Nat /\ e.pfd \in Seq(Row) /\ e.nfds <= Len(e.pfd) /\ k \in Nat
    BY DEF Lined, Rows, Conn, IsSeq
  <1>2. ASSUME NEW i \in DOMAIN e.pfd PROVE Compressed(e, fd, i) = DisabledRow(e, k, i)
    <2>1. i \in Nat /\ i >= 1
      BY <1>1
    <2>2. CASE i > e.nfds
      BY <1>1, <2>1, <2>2 DEF Compressed, DisabledRow
    <2>3. CASE i <= e.nfds
      <3>1. Hits(e, fd, i) = IF k <= i THEN 1 ELSE 0
        BY <1>1, <2>1, <2>3, HitsOnce
      <3> QED
        BY <1>1, <2>1, <2>3, <3>1 DEF Compressed, DisabledRow
    <2> QED
      BY <1>1, <2>1, <2>2, <2>3
  <1>3. Hits(e, fd, e.nfds) = 1
    BY <1>1, HitsOnce
  <1>4. HandlerShape(e)
    BY DEF Lined
  <1> HIDE DEF fd
  <1>5. [i \in DOMAIN e.pfd |-> Compressed(e, fd, i)] = [i \in DOMAIN e.pfd |-> DisabledRow(e, k, i)]
    BY <1>2
  <1>6. dlt_event_handler_disable_fd(e, fd) =
          [e EXCEPT !.pfd = [i \in DOMAIN e.pfd |-> DisabledRow(e, k, i)], !.nfds = e.nfds - 1]
    BY <1>3, <1>4, <1>5 DEF dlt_event_handler_disable_fd, HandlerShape
  <1> QED
    BY <1>6 DEF fd

\* The rows that it leaves.
LEMMA RowsDisabled ==
  ASSUME NEW e, Lined(e), NEW k \in 1 .. e.nfds, NEW pfd, pfd = [i \in DOMAIN e.pfd |-> DisabledRow(e, k, i)]
  PROVE  /\ pfd \in Seq(Row) /\ Len(pfd) = Len(e.pfd)
         /\ \A i \in 1 .. e.nfds - 1 : pfd[i] = e.pfd[From(i, k)]
         /\ \A i \in e.nfds .. Len(pfd) : pfd[i].revents = {}
  <1>1. e.nfds \in Nat /\ e.pfd \in Seq(Row) /\ e.nfds <= Len(e.pfd) /\ k \in Nat
        /\ \A i \in e.nfds + 1 .. Len(e.pfd) : e.pfd[i].revents = {}
    BY DEF Lined, Rows, Conn, IsSeq
  <1>2. init_poll_fd \in Row /\ init_poll_fd.revents = {}
    BY DEF init_poll_fd, Row
  <1>3. \A i \in DOMAIN e.pfd : DisabledRow(e, k, i) \in Row
    BY <1>1, <1>2 DEF DisabledRow
  <1>4. pfd \in Seq(Row) /\ Len(pfd) = Len(e.pfd) /\ DOMAIN pfd = 1 .. Len(e.pfd)
    BY <1>1, <1>3
  <1>5. \A i \in 1 .. e.nfds - 1 : pfd[i] = e.pfd[From(i, k)]
    BY <1>1, <1>4 DEF DisabledRow, From
  <1>6. \A i \in e.nfds .. Len(pfd) : pfd[i].revents = {}
    BY <1>1, <1>2, <1>4 DEF DisabledRow
  <1> QED
    BY <1>4, <1>5, <1>6

\* List m is list l without connection k.
Without(l, m, k) ==
  /\ Len(m) = Len(l) - 1
  /\ \A i \in 1 .. Len(m) : m[i] = l[From(i, k)]

Concat(a, b, c) ==
  /\ Len(c) = Len(a) + Len(b)
  /\ \A i \in 1 .. Len(a) : c[i] = a[i]
  /\ \A i \in 1 .. Len(b) : c[Len(a) + i] = b[i]

LEMMA JoinedIs ==
  ASSUME NEW S, NEW a \in Seq(S), NEW b \in Seq(S)
  PROVE  a \o b \in Seq(S) /\ Concat(a, b, a \o b)
  BY DEF Concat

\* The two pieces that RemoveAt puts together.
LEMMA PiecesAre ==
  ASSUME NEW S, NEW o \in Seq(S), NEW k \in 1 .. Len(o)
  PROVE  /\ SubSeq(o, 1, k - 1) \in Seq(S) /\ Len(SubSeq(o, 1, k - 1)) = k - 1
         /\ \A i \in 1 .. k - 1 : SubSeq(o, 1, k - 1)[i] = o[i]
         /\ SubSeq(o, k + 1, Len(o)) \in Seq(S) /\ Len(SubSeq(o, k + 1, Len(o))) = Len(o) - k
         /\ \A i \in 1 .. Len(o) - k : SubSeq(o, k + 1, Len(o))[i] = o[k + i]
  OBVIOUS

\* What RemoveAt leaves, element by element.
LEMMA RemovedAt ==
  ASSUME NEW S, NEW o \in Seq(S), NEW k \in 1 .. Len(o)
  PROVE  /\ RemoveAt(o, k) \in Seq(S) /\ Len(RemoveAt(o, k)) = Len(o) - 1
         /\ \A i \in 1 .. Len(o) - 1 : RemoveAt(o, k)[i] = o[From(i, k)]
  <1>1. PICK a \in Seq(S) : a = SubSeq(o, 1, k - 1)
    BY PiecesAre
  <1>2. PICK b \in Seq(S) : b = SubSeq(o, k + 1, Len(o))
    BY PiecesAre
  <1>3. Len(a) = k - 1 /\ \A i \in 1 .. k - 1 : a[i] = o[i]
    BY <1>1, PiecesAre
  <1>4. Len(b) = Len(o) - k /\ \A i \in 1 .. Len(o) - k : b[i] = o[k + i]
    BY <1>2, PiecesAre
  <1>5. PICK m : m = a \o b
    OBVIOUS
  <1>6. RemoveAt(o, k) = m
    BY <1>1, <1>2, <1>5 DEF RemoveAt
  <1>7. m \in Seq(S) /\ Len(m) = Len(a) + Len(b)
        /\ (\A i \in 1 .. Len(a) : m[i] = a[i]) /\ (\A i \in 1 .. Len(b) : m[Len(a) + i] = b[i])
    BY <1>5, JoinedIs DEF Concat
  <1>8. Len(o) \in Nat /\ k \in Nat /\ 1 <= k /\ k <= Len(o)
    OBVIOUS
  <1>9. Len(m) = Len(o) - 1
    BY <1>3, <1>4, <1>7, <1>8
  <1>10. ASSUME NEW i \in 1 .. Len(o) - 1 PROVE m[i] = o[From(i, k)]
    <2>1. CASE i < k
      <3>1. i \in 1 .. Len(a) /\ i \in 1 .. k - 1
        BY <1>3, <1>8, <2>1
      <3>2. m[i] = o[i]
        BY <1>3, <1>7, <3>1
      <3> QED
        BY <2>1, <3>2 DEF From
    <2>2. CASE i >= k
      <3>1. PICK j \in 1 .. Len(o) - k : j = i - (k - 1)
        BY <1>8, <2>2
      <3>2. j \in 1 .. Len(b) /\ Len(a) + j = i /\ k + j = i + 1
        BY <1>3, <1>4, <1>8, <3>1
      <3>3. m[Len(a) + j] = b[j] /\ b[j] = o[k + j]
        BY <1>4, <1>7, <3>1, <3>2
      <3>4. m[i] = o[i + 1]
        BY <3>2, <3>3
      <3> QED
        BY <1>8, <2>2, <3>4 DEF From
    <2> QED
      BY <1>8, <2>1, <2>2
  <1> QED
    BY <1>6, <1>7, <1>9, <1>10

\* What dlt_event_handler_unregister_connection makes of the list.
Removal(l, k) == RemoveAt([l EXCEPT ![k].active = FALSE], k)

\* The list without one connection is a list of connections.
LEMMA ListShrinks ==
  ASSUME NEW l, Conn(l), NEW k \in 1 .. Len(l), NEW m, m = Removal(l, k)
  PROVE  Conn(m) /\ Without(l, m, k)
  <1>1. PICK S : l \in Seq(S)
    BY DEF Conn, IsSeq
  <1>2. PICK c : c = [l[k] EXCEPT !.active = FALSE]
    OBVIOUS
  <1>3. PICK T : T = S \cup {c}
    OBVIOUS
  <1>4. PICK o : o = [l EXCEPT ![k] = c]
    OBVIOUS
  <1>5. o \in Seq(T) /\ Len(o) = Len(l) /\ \A i \in 1 .. Len(l) : i # k => o[i] = l[i]
    BY <1>1, <1>3, <1>4
  <1>6. Len(l) \in Nat /\ k \in 1 .. Len(o)
    BY <1>1, <1>5
  <1>7. m = RemoveAt(o, k)
    BY <1>2, <1>4 DEF Removal
  <1>8. m \in Seq(T) /\ Len(m) = Len(o) - 1 /\ \A i \in 1 .. Len(o) - 1 : m[i] = o[From(i, k)]
    BY <1>5, <1>6, <1>7, RemovedAt
  <1>9. \A i \in 1 .. Len(m) : From(i, k) \in 1 .. Len(l) /\ From(i, k) # k
    BY <1>5, <1>6, <1>8 DEF From
  <1>10. Len(m) = Len(l) - 1 /\ \A i \in 1 .. Len(m) : m[i] = l[From(i, k)]
    BY <1>5, <1>8, <1>9
  <1>11. \A i, j \in 1 .. Len(m) : From(i, k) = From(j, k) => i = j
    BY <1>6, <1>10 DEF From
  <1>12. IsSeq(m)
    BY <1>8 DEF IsSeq
  <1>13. \A i \in 1 .. Len(m) : ConnSound(m[i])
    BY <1>9, <1>10 DEF Conn
  <1>14. ASSUME NEW i \in 1 .. Len(m), NEW j \in 1 .. Len(m), m[i].fd = m[j].fd PROVE i = j
    <2>1. l[From(i, k)].fd = l[From(j, k)].fd
      BY <1>10, <1>14
    <2> QED
      BY <1>9, <1>11, <2>1 DEF Conn
  <1> QED
    BY <1>10, <1>12, <1>13, <1>14 DEF Conn, Without

\* One client less, if a client was removed.
LEMMA WithoutClient ==
  ASSUME NEW l, Conn(l), NEW k \in 1 .. Len(l), NEW m, Without(l, m, k)
  PROVE  ClientFds(m) = ClientFds(l) \ (IF l[k].type = "client" THEN {l[k].fd} ELSE {})
  <1>1. Len(l) \in Nat /\ k \in Nat
    BY DEF Conn, IsSeq
  <1>2. \A i \in 1 .. Len(m) : From(i, k) \in 1 .. Len(l) /\ From(i, k) # k
    BY <1>1 DEF From, Without
  <1>3. \A j \in 1 .. Len(l) : j # k => \E i \in 1 .. Len(m) : From(i, k) = j
    <2> SUFFICES ASSUME NEW j \in 1 .. Len(l), j # k PROVE \E i \in 1 .. Len(m) : From(i, k) = j
      OBVIOUS
    <2>1. CASE j < k
      <3>1. j \in 1 .. Len(m) /\ From(j, k) = j
        BY <1>1, <2>1 DEF From, Without
      <3> QED
        BY <3>1
    <2>2. CASE j > k
      <3>1. j - 1 \in 1 .. Len(m) /\ From(j - 1, k) = j
        BY <1>1, <2>2 DEF From, Without
      <3> QED
        BY <3>1
    <2> QED
      BY <1>1, <2>1, <2>2
  <1>4. ASSUME NEW fd \in ClientFds(m) PROVE fd \in ClientFds(l) /\ fd # l[k].fd
    <2>1. PICK i \in 1 .. Len(m) : m[i].fd = fd /\ m[i].type = "client"
      BY DEF ClientFds
    <2>2. l[From(i, k)].fd = fd /\ l[From(i, k)].type = "client"
      BY <2>1 DEF Without
    <2> QED
      BY <1>2, <2>2 DEF ClientFds, Conn
  <1>5. ASSUME NEW fd \in ClientFds(l), fd # l[k].fd \/ l[k].type # "client" PROVE fd \in ClientFds(m)
    <2>1. PICK j \in 1 .. Len(l) : l[j].fd = fd /\ l[j].type = "client"
      BY DEF ClientFds
    <2>2. PICK i \in 1 .. Len(m) : From(i, k) = j
      BY <1>3, <1>5, <2>1
    <2>3. m[i].fd = fd /\ m[i].type = "client"
      BY <2>1, <2>2 DEF Without
    <2> QED
      BY <2>3 DEF ClientFds
  <1> QED
    BY <1>4, <1>5

LEMMA ClientsFinite == ASSUME NEW l PROVE IsFiniteSet(ClientFds(l)) /\ Cardinality(ClientFds(l)) \in Nat
  <1>1. ClientFds(l) \subseteq Fds /\ IsFiniteSet(Fds)
    BY ConstAssumption DEF ClientFds
  <1> QED
    BY <1>1, FS_Subset, FS_CardinalityType

\* What dlt_event_handler_unregister_connection leaves of a table.
Shrunk(e, x, k) ==
  /\ x.nfds = e.nfds - 1 /\ Without(e.connections, x.connections, k)
  /\ \A i \in 1 .. x.nfds : x.pfd[i] = e.pfd[From(i, k)]

LEMMA ListSet ==
  ASSUME NEW y, HandlerShape(y), NEW g
  PROVE  [y EXCEPT !.connections = g] =
           [pfd |-> y.pfd, nfds |-> y.nfds, connections |-> g, client_connections |-> y.client_connections,
            next_id |-> y.next_id]
  BY DEF HandlerShape

LEMMA CountSet ==
  ASSUME NEW y, HandlerShape(y), NEW g, NEW h
  PROVE  [y EXCEPT !.connections = g, !.client_connections = h] =
           [pfd |-> y.pfd, nfds |-> y.nfds, connections |-> g, client_connections |-> h, next_id |-> y.next_id]
  <1>1. PICK z : z = [y EXCEPT !.connections = g]
    OBVIOUS
  <1>2. z = [pfd |-> y.pfd, nfds |-> y.nfds, connections |-> g, client_connections |-> y.client_connections,
             next_id |-> y.next_id]
    BY <1>1 DEF HandlerShape
  <1>3. [y EXCEPT !.connections = g, !.client_connections = h] = [z EXCEPT !.client_connections = h]
    BY <1>1
  <1> QED
    BY <1>2, <1>3

\* Clearing "active" of one connection.
LEMMA ActiveSet ==
  ASSUME NEW c, ConnShape(c), NEW z
  PROVE  [c EXCEPT !.active = z] =
           [fd |-> c.fd, type |-> c.type, id |-> c.id, active |-> z, rec |-> c.rec, own |-> c.own]
  BY DEF ConnShape

\* dlt_event_handler_unregister_connection keeps table and list in step.
LEMMA Unregisters ==
  ASSUME NEW e, Table(e), NEW k \in 1 .. e.nfds, NEW x,
         x = dlt_event_handler_unregister_connection(e, e.connections[k].fd)
  PROVE  Table(x) /\ Shrunk(e, x, k)
  <1> DEFINE fd == e.connections[k].fd
  <1>1. e.nfds = Len(e.connections) /\ e.nfds \in Nat /\ k \in Nat /\ k # 0 /\ Conn(e.connections) /\ HandlerShape(e)
    BY DEF Table, Lined, Rows, Conn, IsSeq
  <1>2. dlt_event_handler_find_connection(e, fd) = k
    BY <1>1, FindsIt
  <1>3. PICK n : n = IF e.connections[k].type = "client" THEN Max({e.client_connections - 1, 0}) ELSE e.client_connections
    OBVIOUS
  <1>4. PICK d : d = [e EXCEPT !.client_connections = n]
    OBVIOUS
  <1>5. d.pfd = e.pfd /\ d.nfds = e.nfds /\ d.connections = e.connections /\ d.client_connections = n /\ HandlerShape(d)
    BY <1>1, <1>4 DEF HandlerShape
  <1>6. x = [dlt_connection_check_activate(d, k, FALSE) EXCEPT !.connections = RemoveAt(@, k)]
    <2>1. CASE e.connections[k].type = "client"
      <3>1. d = [e EXCEPT !.client_connections = Max({@ - 1, 0})]
        BY <1>1, <1>3, <1>4, <2>1 DEF HandlerShape
      <3> QED
        BY <1>1, <1>2, <2>1, <3>1 DEF dlt_event_handler_unregister_connection, IsClient
    <2>2. CASE e.connections[k].type # "client"
      <3>1. d = e
        BY <1>1, <1>3, <1>4, <2>2 DEF HandlerShape
      <3> QED
        BY <1>1, <1>2, <2>2, <3>1 DEF dlt_event_handler_unregister_connection, IsClient
    <2> QED
      BY <2>1, <2>2
  <1>7. PICK pfd : pfd = [i \in DOMAIN e.pfd |-> DisabledRow(e, k, i)]
    OBVIOUS
  <1>8. Lined(d)
    BY <1>5 DEF Table, Lined
  <1>9. pfd = [i \in DOMAIN d.pfd |-> DisabledRow(d, k, i)]
    BY <1>5, <1>7 DEF DisabledRow
  <1>10. dlt_event_handler_disable_fd(d, d.connections[k].fd) = [d EXCEPT !.pfd = pfd, !.nfds = e.nfds - 1]
    <2>1. k \in 1 .. d.nfds
      BY <1>5
    <2> QED
      BY <1>5, <1>8, <1>9, <2>1, Disables
  <1>11. d.connections[k].active = TRUE
    BY <1>1, <1>5 DEF Conn, ConnSound
  <1>12. dlt_connection_check_activate(d, k, FALSE) =
           [dlt_event_handler_disable_fd(d, d.connections[k].fd) EXCEPT !.connections[k].active = FALSE]
    BY <1>11 DEF dlt_connection_check_activate
  <1>13. PICK m : m = Removal(e.connections, k)
    OBVIOUS
  <1>14. x = [pfd |-> pfd, nfds |-> e.nfds - 1, connections |-> m, client_connections |-> n, next_id |-> e.next_id]
    <2>1. PICK y : y = [d EXCEPT !.pfd = pfd, !.nfds = e.nfds - 1]
      OBVIOUS
    <2>2. y = [pfd |-> pfd, nfds |-> e.nfds - 1, connections |-> e.connections, client_connections |-> n,
               next_id |-> e.next_id]
      BY <1>1, <1>4, <2>1 DEF HandlerShape
    <2>3. PICK l : l = [e.connections EXCEPT ![k].active = FALSE]
      OBVIOUS
    <2>4. [y EXCEPT !.connections[k].active = FALSE] =
            [pfd |-> pfd, nfds |-> e.nfds - 1, connections |-> l, client_connections |-> n, next_id |-> e.next_id]
      <3>1. [y EXCEPT !.connections[k].active = FALSE] = [y EXCEPT !.connections = l]
        BY <2>2, <2>3
      <3>2. HandlerShape(y)
        BY <2>2 DEF HandlerShape
      <3> QED
        BY <2>2, <3>1, <3>2, ListSet
    <2>5. m = RemoveAt(l, k)
      BY <1>13, <2>3 DEF Removal
    <2>6. x = [[y EXCEPT !.connections[k].active = FALSE] EXCEPT !.connections = RemoveAt(@, k)]
      BY <1>6, <1>10, <1>12, <2>1
    <2> QED
      <3>1. PICK z : z = [y EXCEPT !.connections[k].active = FALSE]
        OBVIOUS
      <3>2. HandlerShape(z) /\ z.connections = l /\ z.pfd = pfd /\ z.nfds = e.nfds - 1 /\ z.client_connections = n
            /\ z.next_id = e.next_id
        BY <2>4, <3>1 DEF HandlerShape
      <3>3. x = [z EXCEPT !.connections = m]
        BY <2>5, <2>6, <3>1, <3>2 DEF HandlerShape
      <3> QED
        BY <3>2, <3>3, ListSet
  <1>15. Conn(m) /\ Without(e.connections, m, k)
    BY <1>1, <1>13, ListShrinks
  <1>16. /\ pfd \in Seq(Row) /\ Len(pfd) = Len(e.pfd)
         /\ \A i \in 1 .. e.nfds - 1 : pfd[i] = e.pfd[From(i, k)]
         /\ \A i \in e.nfds .. Len(pfd) : pfd[i].revents = {}
    BY <1>7, RowsDisabled DEF Table
  <1>17. Rows(pfd, e.nfds - 1, m)
    <2>1. \A i \in 1 .. e.nfds - 1 : From(i, k) \in 1 .. e.nfds
      BY <1>1 DEF From
    <2>2. \A i \in 1 .. e.nfds - 1 : pfd[i].fd = m[i].fd
      BY <1>1, <1>15, <1>16, <2>1 DEF Without, Table, Lined, Rows
    <2>3. Len(e.pfd) > 0 /\ e.nfds <= Len(e.pfd) /\ Len(e.pfd) \in Nat
      BY DEF Table, Lined, Rows
    <2> QED
      BY <1>1, <1>15, <1>16, <2>2, <2>3 DEF Rows, Without
  <1>18. n = Cardinality(ClientFds(m))
    <2>1. e.client_connections = Cardinality(ClientFds(e.connections))
      BY DEF Table
    <2>2. CASE e.connections[k].type = "client"
      <3>1. fd \in ClientFds(e.connections) /\ ClientFds(m) = ClientFds(e.connections) \ {fd}
        <4>1. ClientFds(m) = ClientFds(e.connections) \ {fd}
          BY <1>1, <1>15, <2>2, WithoutClient
        <4>2. fd \in Fds /\ k \in 1 .. Len(e.connections)
          BY <1>1 DEF Conn, ConnSound
        <4> QED
          BY <2>2, <4>1, <4>2 DEF ClientFds
      <3>2. Cardinality(ClientFds(m)) = Cardinality(ClientFds(e.connections)) - 1
        <4>1. PICK C : C = ClientFds(e.connections)
          OBVIOUS
        <4>2. IsFiniteSet(C)
          BY <4>1, ClientsFinite
        <4>3. Cardinality(C \ {fd}) = Cardinality(C) - 1
          BY <3>1, <4>1, <4>2, FS_RemoveElement
        <4> QED
          BY <3>1, <4>1, <4>3
      <3>3. Cardinality(ClientFds(m)) \in Nat
        BY ClientsFinite
      <3> QED
        BY <1>3, <2>1, <2>2, <3>2, <3>3, MaxOf
    <2>3. CASE e.connections[k].type # "client"
      <3>1. ClientFds(m) = ClientFds(e.connections)
        BY <1>1, <1>15, <2>3, WithoutClient
      <3> QED
        BY <1>3, <2>1, <2>3, <3>1
    <2> QED
      BY <2>2, <2>3
  <1>19. x.pfd = pfd /\ x.nfds = e.nfds - 1 /\ x.connections = m /\ x.client_connections = n /\ HandlerShape(x)
    BY <1>14 DEF HandlerShape
  <1> HIDE DEF fd
  <1>20. Table(x)
    BY <1>15, <1>17, <1>18, <1>19 DEF Table, Lined
  <1>21. Shrunk(e, x, k)
    BY <1>15, <1>16, <1>19 DEF Shrunk
  <1> QED
    BY <1>20, <1>21

--------------------------------------------------------------------------------
(* Closing a descriptor.                                                       *)

\* What may be behind a descriptor is told apart by its number.
LEMMA Numbers ==
  /\ Listens.client = -1 /\ Listens.control = -2 /\ Listens.app = -3 /\ Timer = -4 /\ NoSock = 0
  /\ Listens["client"] = -1 /\ Listens["control"] = -2 /\ Listens["app"] = -3
  /\ \A p \in Peers : p \in Nat /\ p > 0
  BY ConstAssumption DEF Listens, Timer, NoSock

\* What is left behind the descriptors and of the peers when fd is closed.
Shut(s, pr, fd, s2, pr2) ==
  /\ s2 = [s EXCEPT ![fd] = NoSock]
  /\ pr2 = IF s[fd] > 0 THEN [pr EXCEPT ![s[fd]].state = "closed"] ELSE pr

WasShut(s, pr, fd, s2, pr2) ==
  /\ fd \in Fds /\ s[fd] # NoSock
  /\ s2 \in [Fds -> Int] /\ s2[fd] = NoSock /\ \A x \in Fds : x # fd => s2[x] = s[x]
  /\ pr2 = [p \in Peers |-> pr2[p]] /\ \A p \in Peers : PeerShape(pr2[p])
  /\ \A p \in Peers : p # s[fd] => pr2[p] = pr[p]
  /\ s[fd] \in Peers => pr[s[fd]].state = "open"

\* Closing a descriptor: nothing is behind it, and only its peer changes.
LEMMA ShutIs ==
  ASSUME NEW l, NEW s, NEW pr, Sockets(l, s, pr), Conn(l), NEW k \in 1 .. Len(l),
         NEW s2, NEW pr2, Shut(s, pr, l[k].fd, s2, pr2)
  PROVE  WasShut(s, pr, l[k].fd, s2, pr2)
  <1>1. PICK fd \in Fds : fd = l[k].fd
    BY DEF Conn, ConnSound
  <1>2. Faces(l[k], s, pr) /\ s \in [Fds -> Int] /\ pr = [p \in Peers |-> pr[p]] /\ \A p \in Peers : PeerShape(pr[p])
    BY DEF Sockets
  <1>3. s[fd] # 0 /\ (s[fd] > 0 => s[fd] \in Peers) /\ (s[fd] \in Peers => s[fd] > 0 /\ pr[s[fd]].state = "open")
    BY <1>1, <1>2, Numbers DEF Faces
  <1>4. s2 \in [Fds -> Int] /\ s2[fd] = NoSock /\ \A x \in Fds : x # fd => s2[x] = s[x]
    BY <1>1, <1>2, Numbers DEF Shut
  <1>5. CASE s[fd] > 0
    <2>1. PICK q \in Peers : q = s[fd]
      BY <1>3, <1>5
    <2>2. PICK c : c = [pr[q] EXCEPT !.state = "closed"]
      OBVIOUS
    <2>3. pr2 = [pr EXCEPT ![q] = c] /\ PeerShape(c)
      BY <1>1, <1>2, <1>5, <2>1, <2>2 DEF Shut, PeerShape
    <2>4. pr2 = [p \in Peers |-> pr2[p]] /\ pr2[q] = c /\ \A p \in Peers : p # q => pr2[p] = pr[p]
      BY <1>2, <2>3
    <2>5. \A p \in Peers : PeerShape(pr2[p])
      BY <1>2, <2>3, <2>4
    <2> QED
      BY <1>1, <1>3, <1>4, <2>1, <2>4, <2>5, Numbers DEF WasShut
  <1>6. CASE ~ (s[fd] > 0)
    <2>1. pr2 = pr
      BY <1>1, <1>6 DEF Shut
    <2> QED
      BY <1>1, <1>2, <1>3, <1>4, <2>1, Numbers DEF WasShut
  <1> QED
    BY <1>5, <1>6

\* What is behind other descriptors stays.
LEMMA FacesSame ==
  ASSUME NEW c, NEW s, NEW pr, NEW s2, NEW pr2, Faces(c, s, pr), s2[c.fd] = s[c.fd],
         s[c.fd] \in Peers => pr2[s[c.fd]].state = pr[s[c.fd]].state
  PROVE  Faces(c, s2, pr2)
  BY DEF Faces

\* The open descriptors are those of the remaining connections.
LEMMA SocketsShut ==
  ASSUME NEW l, NEW m, Conn(l), NEW k \in 1 .. Len(l), Without(l, m, k),
         NEW s, NEW pr, Sockets(l, s, pr), NEW s2, NEW pr2, Shut(s, pr, l[k].fd, s2, pr2)
  PROVE  Sockets(m, s2, pr2)
  <1>0. WasShut(s, pr, l[k].fd, s2, pr2)
    BY ShutIs
  <1>1. PICK fd \in Fds : fd = l[k].fd /\ WasShut(s, pr, fd, s2, pr2)
    <2>1. l[k].fd \in Fds
      BY <1>0 DEF WasShut
    <2> QED
      BY <1>0, <2>1
  <1>2. /\ s[fd] # NoSock
        /\ s2 \in [Fds -> Int] /\ s2[fd] = NoSock /\ \A x \in Fds : x # fd => s2[x] = s[x]
        /\ pr2 = [p \in Peers |-> pr2[p]] /\ \A p \in Peers : PeerShape(pr2[p])
        /\ \A p \in Peers : p # s[fd] => pr2[p] = pr[p]
    BY <1>1 DEF WasShut
  <1>3. Len(l) \in Nat /\ k \in Nat /\ Len(m) = Len(l) - 1
    BY DEF Conn, IsSeq, Without
  <1>4. \A i \in 1 .. Len(m) : From(i, k) \in 1 .. Len(l) /\ From(i, k) # k
    BY <1>3 DEF From
  <1>5. ASSUME NEW i \in 1 .. Len(m) PROVE Faces(m[i], s2, pr2)
    <2>1. PICK j \in 1 .. Len(l) : j = From(i, k)
      BY <1>4
    <2>2. m[i] = l[j] /\ j # k /\ l[j].fd \in Fds /\ l[j].fd # fd
      BY <1>1, <1>4, <2>1 DEF Without, Conn, ConnSound
    <2>3. Faces(l[j], s, pr) /\ s2[l[j].fd] = s[l[j].fd]
      BY <1>2, <2>2 DEF Sockets
    <2>4. s[l[j].fd] # s[fd]
      BY <1>2, <2>2 DEF Sockets
    <2> QED
      BY <1>2, <2>2, <2>3, <2>4, FacesSame
  <1>6. ASSUME NEW x \in Fds, s2[x] # NoSock PROVE \E i \in 1 .. Len(m) : m[i].fd = x
    <2>1. x # fd /\ s[x] # NoSock
      BY <1>2, <1>6
    <2>2. PICK j \in 1 .. Len(l) : l[j].fd = x
      BY <2>1 DEF Sockets
    <2>3. j # k
      BY <1>1, <2>1, <2>2
    <2>4. PICK i \in 1 .. Len(m) : From(i, k) = j
      <3>1. CASE j < k
        <4>1. j \in 1 .. Len(m) /\ From(j, k) = j
          BY <1>3, <3>1 DEF From
        <4> QED
          BY <4>1
      <3>2. CASE j > k
        <4>1. j - 1 \in 1 .. Len(m) /\ From(j - 1, k) = j
          BY <1>3, <3>2 DEF From
        <4> QED
          BY <4>1
      <3> QED
        BY <1>3, <2>3, <3>1, <3>2
    <2> QED
      BY <2>2, <2>4 DEF Without
  <1>7. ASSUME NEW x \in Fds, NEW y \in Fds, s2[x] = s2[y], s2[x] # NoSock PROVE x = y
    <2>1. s[x] = s[y] /\ s[x] # NoSock
      BY <1>2, <1>7
    <2> QED
      BY <2>1 DEF Sockets
  <1> QED
    BY <1>2, <1>5, <1>6, <1>7 DEF Sockets

\* A descriptor stays ready when another one is closed.
LEMMA ReadyShut ==
  ASSUME NEW l, NEW s, NEW pr, Sockets(l, s, pr), Conn(l), NEW k \in 1 .. Len(l),
         NEW s2, NEW pr2, Shut(s, pr, l[k].fd, s2, pr2), NEW x \in Fds, x # l[k].fd,
         NEW kind, NEW tk, ReadyIn(s, pr, kind, tk, x)
  PROVE  ReadyIn(s2, pr2, kind, tk, x)
  <1>0. WasShut(s, pr, l[k].fd, s2, pr2)
    BY ShutIs
  <1>1. PICK fd \in Fds : fd = l[k].fd /\ WasShut(s, pr, fd, s2, pr2)
    <2>1. l[k].fd \in Fds
      BY <1>0 DEF WasShut
    <2> QED
      BY <1>0, <2>1
  <1>2. /\ s[fd] # NoSock /\ s2[x] = s[x]
        /\ \A p \in Peers : p # s[fd] => pr2[p] = pr[p]
        /\ s[fd] \in Peers => pr[s[fd]].state = "open"
    BY <1>1 DEF WasShut
  <1>3. CASE \E p \in Peers : s[x] = p /\ pr[p].state = "open" /\ (pr[p].out # <<>> \/ pr[p].hung \/ pr[p].reset)
    <2>1. PICK p \in Peers : s[x] = p /\ pr[p].state = "open" /\ (pr[p].out # <<>> \/ pr[p].hung \/ pr[p].reset)
      BY <1>3
    <2>2. p # s[fd]
      BY <1>1, <1>2, <2>1 DEF Sockets
    <2>3. pr2[p] = pr[p]
      BY <1>2, <2>2
    <2> QED
      BY <1>2, <2>1, <2>3 DEF ReadyIn
  <1>4. CASE \E type \in {"client", "control", "app"} :
               s[x] = Listens[type] /\ \E p \in Peers : kind[p] = type /\ pr[p].state = "queued"
    <2>1. PICK type \in {"client", "control", "app"} :
            s[x] = Listens[type] /\ \E p \in Peers : kind[p] = type /\ pr[p].state = "queued"
      BY <1>4
    <2>2. PICK p \in Peers : kind[p] = type /\ pr[p].state = "queued"
      BY <2>1
    <2>3. pr2[p] = pr[p]
      BY <1>2, <2>2
    <2> QED
      BY <1>2, <2>1, <2>2, <2>3 DEF ReadyIn
  <1>5. CASE s[x] = Timer /\ tk
    BY <1>2, <1>5 DEF ReadyIn
  <1> QED
    BY <1>3, <1>4, <1>5 DEF ReadyIn

\* Closing one connection leaves a sound state, with the rows behind it still pending.
LEMMA UnregisterGood ==
  ASSUME NEW w, Good(w), NEW fd \in Fds, w.sock[fd] # NoSock, NEW x, x = Unregister(w, fd)
  PROVE  Good(x) /\ \A n \in Nat : \A tk : n > 0 /\ Left(w, n, tk) => Left(x, n, tk)
  <1>1. StateShape(w) /\ Table(w.ev) /\ Sockets(w.ev.connections, w.sock, w.peer)
    BY DEF Good
  <1>2. PICK l : l = w.ev.connections
    OBVIOUS
  <1>3. Conn(l) /\ w.ev.nfds = Len(l) /\ Len(l) \in Nat /\ Sockets(l, w.sock, w.peer)
    BY <1>1, <1>2 DEF Table, Lined, Rows, Conn, IsSeq
  <1>4. PICK k \in 1 .. Len(l) : l[k].fd = fd
    BY <1>3 DEF Sockets
  <1>5. /\ x.ev = dlt_event_handler_unregister_connection(w.ev, fd)
        /\ Shut(w.sock, w.peer, fd, x.sock, x.peer) /\ StateShape(x)
    BY <1>1 DEF Unregister, StateShape, Shut
  <1>6. Table(x.ev) /\ Shrunk(w.ev, x.ev, k)
    BY <1>1, <1>2, <1>3, <1>4, <1>5, Unregisters
  <1>7. Sockets(x.ev.connections, x.sock, x.peer)
    <2>1. Without(l, x.ev.connections, k)
      BY <1>2, <1>6 DEF Shrunk
    <2> QED
      BY <1>3, <1>4, <1>5, <2>1, SocketsShut
  <1>8. Good(x)
    BY <1>5, <1>6, <1>7 DEF Good
  <1>9. ASSUME NEW n \in Nat, NEW tk, n > 0, Left(w, n, tk) PROVE Left(x, n, tk)
    <2> SUFFICES ASSUME NEW i \in n .. x.ev.nfds, x.ev.pfd[i].revents # {}
                 PROVE  POLLERR \in x.ev.pfd[i].revents
                        \/ ReadyIn(x.sock, x.peer, limit.kind, tk, x.ev.pfd[i].fd)
      BY DEF Left, Pending
    <2>1. x.ev.nfds = Len(l) - 1 /\ k \in Nat
      BY <1>3, <1>6 DEF Shrunk
    <2>2. PICK j \in 1 .. Len(l) : j = From(i, k)
      BY <1>3, <1>9, <2>1 DEF From
    <2>3. j # k /\ j \in n .. w.ev.nfds
      BY <1>3, <1>9, <2>1, <2>2 DEF From
    <2>4. x.ev.pfd[i] = w.ev.pfd[j]
      BY <1>3, <1>6, <1>9, <2>1, <2>2 DEF Shrunk
    <2>5. w.ev.pfd[j].fd = l[j].fd
      BY <1>1, <1>2, <1>3, <2>2 DEF Table, Lined, Rows
    <2>6. l[j].fd \in Fds /\ l[j].fd # l[k].fd
      BY <1>3, <2>3 DEF Conn, ConnSound
    <2>7. POLLERR \in w.ev.pfd[j].revents \/ ReadyIn(w.sock, w.peer, limit.kind, tk, l[j].fd)
      BY <1>9, <2>3, <2>4, <2>5 DEF Left, Pending
    <2>8. ReadyIn(w.sock, w.peer, limit.kind, tk, l[j].fd) => ReadyIn(x.sock, x.peer, limit.kind, tk, l[j].fd)
      BY <1>3, <1>4, <1>5, <2>6, ReadyShut
    <2> QED
      BY <2>4, <2>5, <2>7, <2>8
  <1> QED
    BY <1>8, <1>9

--------------------------------------------------------------------------------
(* Closing the clients that cannot be sent to.                                 *)

\* The first n values of Closed(w).
Run(g, n, w) == g = [i \in 0 .. n |-> IF i = 0 THEN {w} ELSE OneClosed(g[i - 1])]

Steps(g, n, w) == g[0] = {w} /\ \A i \in 1 .. n : g[i] = OneClosed(g[i - 1])

LEMMA RunIs ==
  ASSUME NEW w, NEW n \in Nat, NEW g, Run(g, n, w)
  PROVE  Steps(g, n, w)
  BY DEF Run, Steps

\* The states after n closed clients exist as a function for each n.
LEMMA RunExists == ASSUME NEW w PROVE \A n \in Nat : \E g : Run(g, n, w)
  <1> DEFINE T == {n \in Nat : \E g : Run(g, n, w)}
  <1>1. 0 \in T
    <2>1. PICK g : g = [i \in 0 .. 0 |-> {w}]
      OBVIOUS
    <2>2. Run(g, 0, w)
      BY <2>1 DEF Run
    <2> QED
      BY <2>2
  <1>2. ASSUME NEW n \in Nat, n \in T PROVE n + 1 \in T
    <2>1. PICK g : Run(g, n, w)
      BY <1>2
    <2>2. PICK h : h = [i \in 0 .. n + 1 |-> IF i = n + 1 THEN OneClosed(g[n]) ELSE g[i]]
      OBVIOUS
    <2>3. ASSUME NEW i \in 0 .. n + 1 PROVE h[i] = IF i = 0 THEN {w} ELSE OneClosed(h[i - 1])
      <3>1. g[0] = {w} /\ \A j \in 1 .. n : g[j] = OneClosed(g[j - 1])
        <4>1. Steps(g, n, w)
          BY <2>1, RunIs
        <4> QED
          BY <4>1 DEF Steps
      <3>2. CASE i = 0
        BY <2>2, <3>1, <3>2
      <3>3. CASE i \in 1 .. n
        <4>1. h[i] = g[i] /\ h[i - 1] = g[i - 1]
          BY <2>2, <3>3
        <4> QED
          BY <3>1, <3>3, <4>1
      <3>4. CASE i = n + 1
        <4>1. h[i] = OneClosed(g[n]) /\ h[i - 1] = g[n]
          BY <2>2, <3>4
        <4> QED
          BY <3>4, <4>1
      <3> QED
        BY <3>2, <3>3, <3>4
    <2>4. h = [i \in 0 .. n + 1 |-> h[i]]
      BY <2>2
    <2>5. [i \in 0 .. n + 1 |-> h[i]] = [i \in 0 .. n + 1 |-> IF i = 0 THEN {w} ELSE OneClosed(h[i - 1])]
      BY <2>3
    <2>6. Run(h, n + 1, w)
      BY <2>4, <2>5 DEF Run
    <2> QED
      BY <2>6
  <1> HIDE DEF T
  <1>3. Nat \subseteq T
    BY <1>1, <1>2, Inductive
  <1> QED
    BY <1>3 DEF T

\* Two such functions agree.
LEMMA RunSame ==
  ASSUME NEW w, NEW n \in Nat, NEW m \in Nat, NEW g, NEW h, Run(g, n, w), Run(h, m, w)
  PROVE  \A i \in Nat : i <= n /\ i <= m => g[i] = h[i]
  <1> DEFINE T == {i \in Nat : i <= n /\ i <= m => g[i] = h[i]}
  <1>0. Steps(g, n, w) /\ Steps(h, m, w)
    BY RunIs
  <1>1. 0 \in T
    BY <1>0 DEF Steps
  <1>2. ASSUME NEW i \in Nat, i \in T PROVE i + 1 \in T
    <2> SUFFICES ASSUME i + 1 <= n, i + 1 <= m PROVE g[i + 1] = h[i + 1]
      OBVIOUS
    <2>1. g[i] = h[i]
      BY <1>2
    <2>2. g[i + 1] = OneClosed(g[i])
      <3>1. i + 1 \in 1 .. n /\ (i + 1) - 1 = i
        OBVIOUS
      <3>2. \A j \in 1 .. n : g[j] = OneClosed(g[j - 1])
        BY <1>0 DEF Steps
      <3> QED
        BY <3>1, <3>2
    <2>3. h[i + 1] = OneClosed(h[i])
      <3>1. i + 1 \in 1 .. m /\ (i + 1) - 1 = i
        OBVIOUS
      <3>2. \A j \in 1 .. m : h[j] = OneClosed(h[j - 1])
        BY <1>0 DEF Steps
      <3> QED
        BY <3>1, <3>2
    <2> QED
      BY <2>1, <2>2, <2>3
  <1> HIDE DEF T
  <1>3. Nat \subseteq T
    BY <1>1, <1>2, Inductive
  <1> QED
    BY <1>3 DEF T

\* The recursive definition has a solution, so it is one.
LEMMA ClosedIs ==
  ASSUME NEW w
  PROVE  Closed(w)[0] = {w} /\ \A n \in Nat : Closed(w)[n + 1] = OneClosed(Closed(w)[n])
  <1> DEFINE Solves(f) == f = [n \in Nat |-> IF n = 0 THEN {w} ELSE OneClosed(f[n - 1])]
  <1>1. PICK f : f = [n \in Nat |-> (CHOOSE g : Run(g, n, w))[n]]
    OBVIOUS
  <1>2. \A n \in Nat : Run(CHOOSE g : Run(g, n, w), n, w)
    BY RunExists
  <1>3. ASSUME NEW n \in Nat PROVE f[n] = IF n = 0 THEN {w} ELSE OneClosed(f[n - 1])
    <2>1. PICK g : g = CHOOSE x : Run(x, n, w)
      OBVIOUS
    <2>2. Run(g, n, w) /\ f[n] = g[n]
      BY <1>1, <1>2, <2>1
    <2>3. CASE n = 0
      <3>1. Steps(g, n, w)
        BY <2>2, RunIs
      <3> QED
        BY <2>2, <2>3, <3>1 DEF Steps
    <2>4. CASE n # 0
      <3>1. n - 1 \in Nat /\ n \in 1 .. n
        BY <2>4
      <3>2. PICK h : h = CHOOSE x : Run(x, n - 1, w)
        OBVIOUS
      <3>3. Run(h, n - 1, w) /\ f[n - 1] = h[n - 1]
        BY <1>1, <1>2, <3>1, <3>2
      <3>4. g[n - 1] = h[n - 1]
        <4>1. PICK j \in Nat : j = n - 1
          BY <3>1
        <4>2. Run(h, j, w) /\ j <= n
          BY <3>3, <4>1
        <4>3. \A i \in Nat : i <= n /\ i <= j => g[i] = h[i]
          BY <2>2, <4>2, RunSame
        <4> QED
          BY <4>1, <4>2, <4>3
      <3>5. g[n] = OneClosed(g[n - 1])
        <4>1. \A j \in 1 .. n : g[j] = OneClosed(g[j - 1])
          <5>1. Steps(g, n, w)
            BY <2>2, RunIs
          <5> QED
            BY <5>1 DEF Steps
        <4> QED
          BY <3>1, <4>1
      <3> QED
        BY <2>2, <2>4, <3>3, <3>4, <3>5
    <2> QED
      BY <2>3, <2>4
  <1>4. f = [n \in Nat |-> f[n]]
    BY <1>1
  <1>5. [n \in Nat |-> f[n]] = [n \in Nat |-> IF n = 0 THEN {w} ELSE OneClosed(f[n - 1])]
    BY <1>3
  <1>6. \E x : Solves(x)
    BY <1>4, <1>5
  <1>7. Closed(w) = CHOOSE x : Solves(x)
    BY DEF Closed
  <1>8. PICK c : c = Closed(w)
    OBVIOUS
  <1>9. Solves(c)
    BY <1>6, <1>7, <1>8
  <1>10. c[0] = {w}
    BY <1>9
  <1>11. ASSUME NEW n \in Nat PROVE c[n + 1] = OneClosed(c[n])
    <2>1. n + 1 \in Nat /\ n + 1 # 0 /\ (n + 1) - 1 = n
      OBVIOUS
    <2> QED
      BY <1>9, <2>1
  <1> QED
    BY <1>8, <1>10, <1>11

\* What holds of a state and is kept by each close holds of every state that sending to all leaves.
LEMMA BroadcastGood ==
  ASSUME NEW w, Good(w), NEW n \in Nat, n > 0, NEW tk, Left(w, n, tk), NEW x \in Broadcasts(w)
  PROVE  Good(x) /\ Left(x, n, tk)
  <1> DEFINE T == {i \in Nat : \A y \in Closed(w)[i] : Good(y) /\ Left(y, n, tk)}
  <1>1. 0 \in T
    BY ClosedIs
  <1>2. ASSUME NEW i \in Nat, i \in T PROVE i + 1 \in T
    <2> SUFFICES ASSUME NEW y \in Closed(w)[i + 1] PROVE Good(y) /\ Left(y, n, tk)
      OBVIOUS
    <2>1. y \in OneClosed(Closed(w)[i])
      BY ClosedIs
    <2>2. PICK v \in Closed(w)[i] : \E fd \in Fds : v.sock[fd] \in Broken(v) /\ y = Unregister(v, fd)
      BY <2>1 DEF OneClosed
    <2>3. PICK fd \in Fds : v.sock[fd] \in Broken(v) /\ y = Unregister(v, fd)
      BY <2>2
    <2>4. Good(v) /\ Left(v, n, tk)
      BY <1>2
    <2>5. v.sock[fd] # NoSock
      BY <2>3, Numbers DEF Broken
    <2> QED
      BY <2>3, <2>4, <2>5, UnregisterGood
  <1> HIDE DEF T
  <1>3. Nat \subseteq T
    BY <1>1, <1>2, Inductive
  <1>4. PICK i \in 0 .. Cardinality(Broken(w)) : x \in Closed(w)[i]
    BY DEF Broadcasts
  <1>5. i \in Nat
    OBVIOUS
  <1> QED
    BY <1>3, <1>4, <1>5 DEF T

--------------------------------------------------------------------------------
(* Adding a connection.                                                        *)

\* Table q is table p with row n + 1 for fd.
OneMore(p, n, fd, q) ==
  /\ q \in Seq(Row) /\ n + 1 <= Len(q)
  /\ \A i \in 1 .. n : q[i] = p[i]
  /\ q[n + 1].fd = fd
  /\ \A i \in n + 1 .. Len(q) : q[i].revents = {}

LEMMA FillRows ==
  ASSUME NEW n \in Nat
  PROVE  [i \in 1 .. n |-> init_poll_fd] \in Seq(Row) /\ Len([i \in 1 .. n |-> init_poll_fd]) = n
         /\ \A i \in 1 .. n : [j \in 1 .. n |-> init_poll_fd][i].revents = {}
  <1>1. init_poll_fd \in Row /\ init_poll_fd.revents = {}
    BY DEF init_poll_fd, Row
  <1> QED
    BY <1>1

\* The row behind the ones in use gets a descriptor.
LEMMA RowSet ==
  ASSUME NEW p \in Seq(Row), NEW n \in Nat, n + 1 <= Len(p), NEW fd \in Int, NEW q, q = [p EXCEPT ![n + 1].fd = fd],
         \A i \in n + 1 .. Len(p) : p[i].revents = {}
  PROVE  OneMore(p, n, fd, q) /\ Len(q) = Len(p)
  <1>1. n + 1 \in 1 .. Len(p) /\ Len(p) \in Nat
    OBVIOUS
  <1>2. PICK r \in Row : r = p[n + 1]
    BY <1>1
  <1>3. PICK t : t = [r EXCEPT !.fd = fd]
    OBVIOUS
  <1>4. t \in Row /\ t.fd = fd /\ t.revents = r.revents
    BY <1>3 DEF Row
  <1>5. q = [p EXCEPT ![n + 1] = t]
    BY <1>2, <1>3
  <1>6. q \in Seq(Row) /\ Len(q) = Len(p) /\ q[n + 1] = t /\ \A i \in 1 .. Len(p) : i # n + 1 => q[i] = p[i]
    BY <1>1, <1>4, <1>5
  <1>7. \A i \in 1 .. n : q[i] = p[i]
    BY <1>1, <1>6
  <1>8. ASSUME NEW i \in n + 1 .. Len(q) PROVE q[i].revents = {}
    <2>1. i \in n + 1 .. Len(p) /\ i \in 1 .. Len(p)
      BY <1>6
    <2>2. p[i].revents = {}
      BY <2>1
    <2>3. CASE i = n + 1
      BY <1>2, <1>4, <1>6, <2>2, <2>3
    <2>4. CASE i # n + 1
      BY <1>6, <2>1, <2>2, <2>4
    <2> QED
      BY <2>3, <2>4
  <1> QED
    BY <1>4, <1>6, <1>7, <1>8 DEF OneMore

\* dlt_event_handler_enable_fd, with or without growing the table.
LEMMA Enables ==
  ASSUME NEW e, HandlerShape(e), NEW fd \in Int, e.pfd \in Seq(Row), Len(e.pfd) > 0, e.nfds \in Nat, e.nfds <= Len(e.pfd),
         \A i \in e.nfds + 1 .. Len(e.pfd) : e.pfd[i].revents = {}
  PROVE  \E q : /\ dlt_event_handler_enable_fd(e, fd) = [e EXCEPT !.pfd = q, !.nfds = e.nfds + 1]
                /\ OneMore(e.pfd, e.nfds, fd, q) /\ Len(q) >= Len(e.pfd)
  <1>1. PICK p : p = e.pfd
    OBVIOUS
  <1>2. PICK n \in Nat : n = e.nfds
    OBVIOUS
  <1>3. PICK m \in Nat : m = Len(p)
    BY <1>1
  <1>4. PICK f : f = [i \in 1 .. m |-> init_poll_fd]
    OBVIOUS
  <1>5. PICK g : g = IF m <= n THEN p \o f ELSE p
    OBVIOUS
  <1>6. f \in Seq(Row) /\ Len(f) = m /\ \A i \in 1 .. m : f[i].revents = {}
    BY <1>4, FillRows
  <1>7. /\ g \in Seq(Row) /\ n + 1 <= Len(g) /\ Len(g) >= m
        /\ \A i \in 1 .. n : g[i] = p[i]
        /\ \A i \in n + 1 .. Len(g) : g[i].revents = {}
    <2>1. CASE m <= n
      <3>1. n = m /\ m > 0 /\ p \in Seq(Row) /\ Len(p) = m
        BY <1>1, <1>2, <1>3, <2>1
      <3>2. g = p \o f
        BY <1>5, <2>1
      <3>3. /\ g \in Seq(Row) /\ Len(g) = Len(p) + Len(f)
            /\ (\A i \in 1 .. Len(p) : g[i] = p[i]) /\ (\A i \in 1 .. Len(f) : g[Len(p) + i] = f[i])
        <4>1. g \in Seq(Row) /\ Concat(p, f, g)
          BY <1>6, <3>1, <3>2, JoinedIs
        <4> QED
          BY <4>1 DEF Concat
      <3>4. Len(g) = m + m /\ (\A i \in 1 .. m : g[i] = p[i]) /\ (\A i \in 1 .. m : g[m + i] = f[i])
        BY <1>6, <3>1, <3>3
      <3>5. ASSUME NEW i \in n + 1 .. Len(g) PROVE g[i].revents = {}
        <4>1. PICK j \in 1 .. m : j = i - m
          BY <1>3, <3>1, <3>4
        <4>2. m + j = i
          BY <1>3, <3>4, <4>1
        <4> QED
          BY <1>6, <3>4, <4>2
      <3> QED
        <4>1. n + 1 <= Len(g) /\ Len(g) >= m
          BY <1>3, <3>1, <3>4
        <4> QED
          BY <3>1, <3>3, <3>4, <3>5, <4>1
    <2>2. CASE ~ (m <= n)
      <3>1. g = p
        BY <1>5, <2>2
      <3> QED
        BY <1>1, <1>2, <1>3, <2>2, <3>1
    <2> QED
      BY <2>1, <2>2
  <1>8. PICK q : q = [g EXCEPT ![n + 1].fd = fd]
    OBVIOUS
  <1>9. OneMore(g, n, fd, q) /\ Len(q) = Len(g)
    BY <1>7, <1>8, RowSet
  <1>10. OneMore(p, n, fd, q) /\ Len(q) >= m
    BY <1>7, <1>9 DEF OneMore
  <1>11. dlt_event_handler_enable_fd(e, fd) = [e EXCEPT !.pfd = q, !.nfds = n + 1]
    BY <1>1, <1>2, <1>3, <1>4, <1>5, <1>8 DEF dlt_event_handler_enable_fd, HandlerShape
  <1> QED
    BY <1>1, <1>2, <1>3, <1>10, <1>11

\* What dlt_connection_create makes of a table.
Grown(e, x, fd, type) ==
  /\ x.nfds = e.nfds + 1
  /\ \A i \in 1 .. e.nfds : x.connections[i] = e.connections[i] /\ x.pfd[i] = e.pfd[i]
  /\ x.connections[x.nfds].fd = fd /\ x.connections[x.nfds].type = type
  /\ x.pfd[x.nfds].revents = {}

ListAdded(l, c, m) ==
  /\ Conn(m) /\ Len(m) = Len(l) + 1 /\ m[Len(m)] = c /\ \A i \in 1 .. Len(l) : m[i] = l[i]
  /\ ClientFds(m) = ClientFds(l) \cup (IF c.type = "client" THEN {c.fd} ELSE {})

\* The list with one more connection is a list of connections.
LEMMA ListGrows ==
  ASSUME NEW l, Conn(l), NEW c, ConnSound(c), \A i \in 1 .. Len(l) : l[i].fd # c.fd, NEW m, m = Append(l, c)
  PROVE  ListAdded(l, c, m)
  <1>1. PICK S : l \in Seq(S)
    BY DEF Conn, IsSeq
  <1>2. PICK T : T = S \cup {c}
    OBVIOUS
  <1>3. l \in Seq(T) /\ c \in T
    BY <1>1, <1>2
  <1>4. m \in Seq(T) /\ Len(m) = Len(l) + 1 /\ m[Len(m)] = c /\ \A i \in 1 .. Len(l) : m[i] = l[i]
    BY <1>3
  <1>5. Len(l) \in Nat /\ \A i \in 1 .. Len(m) : i \in 1 .. Len(l) \/ i = Len(m)
    BY <1>1, <1>4
  <1>6. \A i \in 1 .. Len(m) : ConnSound(m[i])
    BY <1>4, <1>5 DEF Conn
  <1>7. \A i, j \in 1 .. Len(m) : m[i].fd = m[j].fd => i = j
    BY <1>4, <1>5 DEF Conn
  <1>8. Conn(m)
    BY <1>4, <1>6, <1>7 DEF Conn, IsSeq
  <1>9. c.fd \in Fds
    BY DEF ConnSound
  <1>10. Len(m) \in 1 .. Len(m) /\ \A i \in 1 .. Len(l) : i \in 1 .. Len(m)
    BY <1>4, <1>5
  <1>11. \A fd \in ClientFds(m) : fd \in ClientFds(l) \/ (c.type = "client" /\ fd = c.fd)
    BY <1>4, <1>5 DEF ClientFds
  <1>12. \A fd \in ClientFds(l) : fd \in ClientFds(m)
    BY <1>4, <1>10 DEF ClientFds
  <1>13. c.type = "client" => c.fd \in ClientFds(m)
    BY <1>4, <1>9, <1>10 DEF ClientFds
  <1>14. ClientFds(m) = ClientFds(l) \cup (IF c.type = "client" THEN {c.fd} ELSE {})
    BY <1>11, <1>12, <1>13
  <1> QED
    BY <1>4, <1>8, <1>14 DEF ListAdded

\* dlt_connection_create keeps table and list in step.
LEMMA Creates ==
  ASSUME NEW e, Table(e), NEW fd \in Fds, \A i \in 1 .. e.nfds : e.connections[i].fd # fd,
         NEW type \in Types, NEW size, NEW x, x = dlt_connection_create(e, fd, type, size)
  PROVE  Table(x) /\ Grown(e, x, fd, type)
  <1>1. /\ HandlerShape(e) /\ Conn(e.connections) /\ e.nfds = Len(e.connections) /\ e.nfds \in Nat
        /\ e.pfd \in Seq(Row) /\ Len(e.pfd) > 0 /\ Len(e.pfd) \in Nat /\ e.nfds <= Len(e.pfd)
        /\ \A i \in e.nfds + 1 .. Len(e.pfd) : e.pfd[i].revents = {}
        /\ \A i \in 1 .. e.nfds : e.pfd[i].fd = e.connections[i].fd
    <2>1. HandlerShape(e) /\ Conn(e.connections) /\ Rows(e.pfd, e.nfds, e.connections)
      BY DEF Table, Lined
    <2>2. PICK S : e.connections \in Seq(S)
      BY <2>1 DEF Conn, IsSeq
    <2>3. Len(e.connections) \in Nat
      BY <2>2
    <2> QED
      BY <2>1, <2>3 DEF Rows
  <1>2. dlt_event_handler_find_connection(e, fd) = 0
    BY <1>1, FindsNone
  <1>3. PICK own : own = dlt_receiver_init(size).b
    OBVIOUS
  <1>4. PICK c : c = [fd |-> fd, type |-> type, id |-> e.next_id, active |-> TRUE, rec |-> NewReceiver, own |-> own]
    OBVIOUS
  <1>5. PICK c0 : c0 = [fd |-> fd, type |-> type, id |-> e.next_id, active |-> FALSE, rec |-> NewReceiver, own |-> own]
    OBVIOUS
  <1>6. /\ ConnSound(c) /\ c.fd = fd /\ c.type = type
        /\ c0 = [c EXCEPT !.active = FALSE] /\ c = [c0 EXCEPT !.active = TRUE]
        /\ c0.fd = fd /\ c0.active = FALSE
    <2>1. c.fd = fd /\ c.type = type /\ c0.fd = fd
      BY <1>4, <1>5
    <2>2. c0.active = FALSE /\ c.active = TRUE
      BY <1>4, <1>5
    <2>0. c.id = e.next_id /\ c0.id = e.next_id /\ c.rec = NewReceiver /\ c0.rec = NewReceiver
          /\ c.own = own /\ c0.own = own /\ c0.type = type
      BY <1>4, <1>5
    <2>5. ConnShape(c) /\ ConnShape(c0)
      BY <1>4, <1>5, <2>0, <2>1, <2>2 DEF ConnShape
    <2>3. c0 = [c EXCEPT !.active = FALSE]
      <3>1. c0 = [fd |-> c.fd, type |-> c.type, id |-> c.id, active |-> FALSE, rec |-> c.rec, own |-> c.own]
        BY <1>5, <2>0, <2>1
      <3> QED
        BY <2>5, <3>1, ActiveSet
    <2>4. c = [c0 EXCEPT !.active = TRUE]
      <3>1. c = [fd |-> c0.fd, type |-> c0.type, id |-> c0.id, active |-> TRUE, rec |-> c0.rec, own |-> c0.own]
        BY <1>4, <2>0, <2>1
      <3> QED
        BY <2>5, <3>1, ActiveSet
    <2> QED
      BY <2>1, <2>2, <2>3, <2>4, <2>5 DEF ConnSound
  <1>7. PICK l : l = e.connections
    OBVIOUS
  <1>8. PICK k \in Nat : k = Len(l) + 1
    BY <1>1, <1>7
  <1>9. PICK S : l \in Seq(S)
    BY <1>1, <1>7 DEF Conn, IsSeq
  <1>10. PICK m0 : m0 = Append(l, c0)
    OBVIOUS
  <1>11. PICK m : m = Append(l, c)
    OBVIOUS
  <1>12. Len(m0) = k /\ m0[k] = c0 /\ m = [m0 EXCEPT ![k] = c]
    <2>1. PICK T : T = S \cup {c} \cup {c0}
      OBVIOUS
    <2>2. l \in Seq(T) /\ c \in T /\ c0 \in T
      BY <1>9, <2>1
    <2>3. m0 \in Seq(T) /\ Len(m0) = k /\ m0[k] = c0 /\ \A i \in 1 .. Len(l) : m0[i] = l[i]
      BY <1>8, <1>10, <2>2
    <2>4. m \in Seq(T) /\ Len(m) = k /\ m[k] = c /\ \A i \in 1 .. Len(l) : m[i] = l[i]
      BY <1>8, <1>11, <2>2
    <2>5. PICK o : o = [m0 EXCEPT ![k] = c]
      OBVIOUS
    <2>6. DOMAIN m0 = 1 .. k /\ DOMAIN m = 1 .. k /\ Len(l) \in Nat /\ k = Len(l) + 1
      BY <1>1, <1>7, <1>8, <2>3, <2>4
    <2>7. DOMAIN o = 1 .. k /\ o[k] = c /\ \A i \in 1 .. k : i # k => o[i] = m0[i]
      BY <2>5, <2>6
    <2>8. ASSUME NEW i \in 1 .. k PROVE m[i] = o[i]
      <3>1. CASE i = k
        BY <2>4, <2>7, <3>1
      <3>2. CASE i # k
        <4>1. i \in 1 .. Len(l)
          BY <2>6, <3>2
        <4>2. o[i] = m0[i] /\ m0[i] = l[i] /\ m[i] = l[i]
          BY <2>3, <2>4, <2>7, <3>2, <4>1
        <4> QED
          BY <4>2
      <3> QED
        BY <3>1, <3>2
    <2>9. o \in Seq(T) /\ Len(o) = k
      BY <2>2, <2>3, <2>5, <2>6
    <2>10. m = o
      BY <2>4, <2>8, <2>9
    <2> QED
      BY <2>3, <2>5, <2>10
  <1>13. PICK n : n = e.client_connections + (IF type = "client" THEN 1 ELSE 0)
    OBVIOUS
  <1>14. PICK d : d = [pfd |-> e.pfd, nfds |-> e.nfds, connections |-> m0, client_connections |-> n,
                       next_id |-> e.next_id + 1]
    OBVIOUS
  <1>15. HandlerShape(d) /\ d.pfd = e.pfd /\ d.nfds = e.nfds /\ d.connections = m0
    BY <1>14 DEF HandlerShape
  <1>16. PICK e1 : e1 = [e EXCEPT !.next_id = @ + 1]
    OBVIOUS
  <1>17. e1 = [pfd |-> e.pfd, nfds |-> e.nfds, connections |-> l, client_connections |-> e.client_connections,
               next_id |-> e.next_id + 1]
    BY <1>1, <1>7, <1>16 DEF HandlerShape
  <1>18. d = [e1 EXCEPT !.connections = Append(@, [c EXCEPT !.active = FALSE]),
                        !.client_connections = @ + (IF IsClient(c.type) THEN 1 ELSE 0)]
    <2>1. PICK a : a = Append(l, [c EXCEPT !.active = FALSE])
      OBVIOUS
    <2>2. PICK b : b = e.client_connections + (IF IsClient(c.type) THEN 1 ELSE 0)
      OBVIOUS
    <2>3. a = m0 /\ b = n
      BY <1>6, <1>10, <1>13, <2>1, <2>2 DEF IsClient
    <2>4. [e1 EXCEPT !.connections = a, !.client_connections = b] = d
      <3>1. HandlerShape(e1) /\ e1.pfd = e.pfd /\ e1.nfds = e.nfds /\ e1.next_id = e.next_id + 1
        BY <1>17 DEF HandlerShape
      <3> QED
        <4>1. [e1 EXCEPT !.connections = a, !.client_connections = b] =
                [pfd |-> e1.pfd, nfds |-> e1.nfds, connections |-> a, client_connections |-> b, next_id |-> e1.next_id]
          BY <3>1, CountSet
        <4> QED
          BY <1>14, <2>3, <3>1, <4>1
    <2>5. e1.connections = l /\ e1.client_connections = e.client_connections
      BY <1>17
    <2> QED
      BY <2>1, <2>2, <2>4, <2>5
  <1>19. x = dlt_event_handler_register_connection(e1, c)
    BY <1>2, <1>3, <1>4, <1>16 DEF dlt_connection_create
  <1>20. x = dlt_connection_check_activate(d, k, TRUE)
    BY <1>12, <1>15, <1>18, <1>19 DEF dlt_event_handler_register_connection
  <1>21. x = [dlt_event_handler_enable_fd(d, fd) EXCEPT !.connections[k].active = TRUE]
    BY <1>6, <1>12, <1>15, <1>20 DEF dlt_connection_check_activate
  <1>22. PICK q : /\ dlt_event_handler_enable_fd(d, fd) = [d EXCEPT !.pfd = q, !.nfds = d.nfds + 1]
                  /\ OneMore(d.pfd, d.nfds, fd, q) /\ Len(q) >= Len(d.pfd)
    <2>1. fd \in Int
      BY ConstAssumption
    <2> QED
      BY <1>1, <1>15, <2>1, Enables
  <1>23. PICK y : y = [d EXCEPT !.pfd = q, !.nfds = d.nfds + 1]
    OBVIOUS
  <1>24. HandlerShape(y) /\ y.pfd = q /\ y.nfds = e.nfds + 1 /\ y.connections = m0 /\ y.client_connections = n
    BY <1>14, <1>15, <1>23 DEF HandlerShape
  <1>25. x = [y EXCEPT !.connections = m]
    <2>1. x = [y EXCEPT !.connections[k].active = TRUE]
      BY <1>21, <1>22, <1>23
    <2>2. m = [m0 EXCEPT ![k].active = TRUE]
      BY <1>6, <1>12
    <2> QED
      BY <1>24, <2>1, <2>2
  <1>26. HandlerShape(x) /\ x.pfd = q /\ x.nfds = e.nfds + 1 /\ x.connections = m /\ x.client_connections = n
    <2>1. x = [pfd |-> y.pfd, nfds |-> y.nfds, connections |-> m, client_connections |-> y.client_connections,
               next_id |-> y.next_id]
      BY <1>24, <1>25, ListSet
    <2> QED
      BY <1>24, <2>1 DEF HandlerShape
  <1>27. /\ Conn(m) /\ Len(m) = Len(l) + 1 /\ m[Len(m)] = c /\ \A i \in 1 .. Len(l) : m[i] = l[i]
         /\ ClientFds(m) = ClientFds(l) \cup (IF type = "client" THEN {fd} ELSE {})
    <2>1. \A i \in 1 .. Len(l) : l[i].fd # c.fd
      BY <1>1, <1>6, <1>7
    <2>2. Conn(l) /\ ConnSound(c)
      BY <1>1, <1>6, <1>7
    <2>3. ListAdded(l, c, m)
      BY <1>11, <2>1, <2>2, ListGrows
    <2> QED
      BY <1>6, <2>3 DEF ListAdded
  <1>28. n = Cardinality(ClientFds(m))
    <2>1. e.client_connections = Cardinality(ClientFds(l)) /\ Cardinality(ClientFds(l)) \in Nat /\ IsFiniteSet(ClientFds(l))
      BY <1>7, ClientsFinite DEF Table
    <2>2. CASE type = "client"
      <3>1. fd \notin ClientFds(l)
        BY <1>1, <1>7 DEF ClientFds
      <3>2. Cardinality(ClientFds(l) \cup {fd}) = Cardinality(ClientFds(l)) + 1
        BY <2>1, <3>1, FS_AddElement
      <3> QED
        BY <1>13, <1>27, <2>1, <2>2, <3>2
    <2>3. CASE type # "client"
      <3>1. ClientFds(m) = ClientFds(l)
        BY <1>27, <2>3
      <3> QED
        BY <1>13, <2>1, <2>3, <3>1
    <2> QED
      BY <2>2, <2>3
  <1>29. /\ q \in Seq(Row) /\ e.nfds + 1 <= Len(q) /\ Len(q) > 0
         /\ \A i \in 1 .. e.nfds : q[i] = e.pfd[i]
         /\ q[e.nfds + 1].fd = fd
         /\ \A i \in e.nfds + 1 .. Len(q) : q[i].revents = {}
    BY <1>1, <1>15, <1>22 DEF OneMore
  <1>30. Len(l) = e.nfds /\ Len(m) = e.nfds + 1 /\ m[e.nfds + 1].fd = fd /\ m[e.nfds + 1].type = type
    BY <1>1, <1>6, <1>7, <1>27
  <1>31. \A i \in 1 .. e.nfds + 1 : q[i].fd = m[i].fd
    <2> SUFFICES ASSUME NEW i \in 1 .. e.nfds + 1 PROVE q[i].fd = m[i].fd
      OBVIOUS
    <2>1. CASE i \in 1 .. e.nfds
      BY <1>1, <1>7, <1>27, <1>29, <1>30, <2>1
    <2>2. CASE i = e.nfds + 1
      BY <1>29, <1>30, <2>2
    <2> QED
      BY <1>1, <2>1, <2>2
  <1>32. \A i \in (e.nfds + 1) + 1 .. Len(q) : q[i].revents = {}
    BY <1>1, <1>29
  <1>33. Rows(q, e.nfds + 1, m)
    BY <1>29, <1>30, <1>31, <1>32 DEF Rows
  <1>34. Table(x)
    BY <1>26, <1>27, <1>28, <1>33 DEF Table, Lined
  <1>35. Grown(e, x, fd, type)
    <2>1. q[e.nfds + 1].revents = {}
      BY <1>1, <1>29
    <2> QED
      BY <1>7, <1>26, <1>27, <1>29, <1>30, <2>1 DEF Grown
  <1> QED
    BY <1>34, <1>35

--------------------------------------------------------------------------------
(* Accepting and receiving.                                                    *)

Waiting(pr, kind, type) == \E p \in Peers : kind[p] = type /\ pr[p].state = "queued"

\* Readiness depends on what is behind the descriptor only.
LEMMA ReadySame ==
  ASSUME NEW s, NEW pr, NEW s2, NEW pr2, NEW kind, NEW tk, NEW tk2, NEW x, ReadyIn(s, pr, kind, tk, x),
         s2[x] = s[x], s[x] \in Peers => pr2[s[x]] = pr[s[x]],
         \A type \in {"client", "control", "app"} :
           s[x] = Listens[type] /\ Waiting(pr, kind, type) => Waiting(pr2, kind, type),
         s[x] = Timer /\ tk => tk2
  PROVE  ReadyIn(s2, pr2, kind, tk2, x)
  <1>1. CASE \E p \in Peers : s[x] = p /\ pr[p].state = "open" /\ (pr[p].out # <<>> \/ pr[p].hung \/ pr[p].reset)
    <2>1. PICK p \in Peers : s[x] = p /\ pr[p].state = "open" /\ (pr[p].out # <<>> \/ pr[p].hung \/ pr[p].reset)
      BY <1>1
    <2>2. pr2[p] = pr[p]
      BY <2>1
    <2> QED
      BY <2>1, <2>2 DEF ReadyIn
  <1>2. CASE \E type \in {"client", "control", "app"} : s[x] = Listens[type] /\ Waiting(pr, kind, type)
    <2>1. PICK type \in {"client", "control", "app"} : s[x] = Listens[type] /\ Waiting(pr, kind, type)
      BY <1>2
    <2>2. Waiting(pr2, kind, type)
      BY <2>1
    <2> QED
      BY <2>1, <2>2 DEF ReadyIn, Waiting
  <1>3. CASE s[x] = Timer /\ tk
    BY <1>3 DEF ReadyIn
  <1> QED
    BY <1>1, <1>2, <1>3 DEF ReadyIn, Waiting

\* The rows from n on are of other descriptors than those behind which "what" is.
Others(w, n, what) == \A i \in n .. w.ev.nfds : w.sock[w.ev.pfd[i].fd] # what

\* Row i is that of connection i.
LEMMA RowFds ==
  ASSUME NEW e, Table(e), NEW i \in 1 .. e.nfds
  PROVE  e.pfd[i].fd = e.connections[i].fd /\ e.pfd[i].fd \in Fds
  BY DEF Table, Lined, Rows, Conn, ConnSound

\* One peer changes.
LEMMA PeersSet ==
  ASSUME NEW pr, pr = [q \in Peers |-> pr[q]], \A q \in Peers : PeerShape(pr[q]), NEW p \in Peers,
         NEW c, PeerShape(c), NEW pr2, pr2 = [pr EXCEPT ![p] = c]
  PROVE  /\ pr2 = [q \in Peers |-> pr2[q]] /\ \A q \in Peers : PeerShape(pr2[q])
         /\ pr2[p] = c /\ \A q \in Peers : q # p => pr2[q] = pr[q]
  <1>1. pr2[p] = c /\ \A q \in Peers : q # p => pr2[q] = pr[q]
    OBVIOUS
  <1>2. pr2 = [q \in Peers |-> pr2[q]]
    OBVIOUS
  <1> QED
    BY <1>1, <1>2

\* Accepting a peer leaves a sound state; only the listening socket may have nothing left.
LEMMA AcceptedGood ==
  ASSUME NEW w, Good(w), FreeFds(w) # {}, NEW type \in {"client", "control", "app"}, NEW p \in Queued(w, type),
         NEW x, x = Accepted(w, type, p)
  PROVE  /\ Good(x)
         /\ \A n \in Nat : \A tk : n > 0 /\ Left(w, n, tk) /\ Others(w, n, Listens[type]) => Left(x, n, tk)
  <1>1. PICK fd : fd = Min(FreeFds(w))
    OBVIOUS
  <1>2. fd \in Fds /\ w.sock[fd] = NoSock
    <2>1. FreeFds(w) \subseteq Nat
      BY ConstAssumption DEF FreeFds
    <2>2. fd \in FreeFds(w)
      BY <1>1, <2>1, MinIn
    <2> QED
      BY <2>2 DEF FreeFds
  <1>3. StateShape(w) /\ Table(w.ev) /\ Sockets(w.ev.connections, w.sock, w.peer)
    BY DEF Good
  <1>4. p \in Peers /\ w.peer[p].state = "queued"
    BY DEF Queued
  <1>5. PICK l : l = w.ev.connections
    OBVIOUS
  <1>6. PICK s : s = w.sock
    OBVIOUS
  <1>7. PICK pr : pr = w.peer
    OBVIOUS
  <1>8. Conn(l) /\ w.ev.nfds = Len(l) /\ Len(l) \in Nat /\ Sockets(l, s, pr) /\ s[fd] = NoSock /\ pr[p].state = "queued"
    BY <1>2, <1>3, <1>4, <1>5, <1>6, <1>7 DEF Table, Lined, Rows, Conn, IsSeq
  <1>9. \A i \in 1 .. Len(l) : Faces(l[i], s, pr) /\ s[l[i].fd] # NoSock /\ l[i].fd # fd /\ s[l[i].fd] # p
    <2> SUFFICES ASSUME NEW i \in 1 .. Len(l)
                 PROVE  Faces(l[i], s, pr) /\ s[l[i].fd] # NoSock /\ l[i].fd # fd /\ s[l[i].fd] # p
      OBVIOUS
    <2>1. Faces(l[i], s, pr)
      BY <1>8 DEF Sockets
    <2>2. s[l[i].fd] # NoSock /\ s[l[i].fd] # p
      BY <1>4, <1>8, <2>1, Numbers DEF Faces
    <2> QED
      BY <1>8, <2>1, <2>2
  <1>10. PICK c : c = [pr[p] EXCEPT !.state = "open"]
    OBVIOUS
  <1>11. pr = [q \in Peers |-> pr[q]] /\ (\A q \in Peers : PeerShape(pr[q])) /\ s \in [Fds -> Int]
    BY <1>8 DEF Sockets
  <1>12. PeerShape(c) /\ c.state = "open"
    BY <1>4, <1>10, <1>11 DEF PeerShape
  <1>13. x.ev = dlt_connection_create(w.ev, fd, type, limit.size) /\ x.sock = [s EXCEPT ![fd] = p]
         /\ x.peer = [pr EXCEPT ![p] = c] /\ StateShape(x)
    BY <1>1, <1>3, <1>6, <1>7, <1>10 DEF Accepted, StateShape
  <1>14. Table(x.ev) /\ Grown(w.ev, x.ev, fd, type)
    <2>1. \A i \in 1 .. w.ev.nfds : w.ev.connections[i].fd # fd
      BY <1>5, <1>8, <1>9
    <2>2. type \in Types
      BY DEF Types
    <2> QED
      BY <1>2, <1>3, <1>13, <2>1, <2>2, Creates
  <1>15. PICK s2 : s2 = x.sock
    OBVIOUS
  <1>16. PICK pr2 : pr2 = x.peer
    OBVIOUS
  <1>17. PICK m : m = x.ev.connections
    OBVIOUS
  <1>18. s2 \in [Fds -> Int] /\ s2[fd] = p /\ \A y \in Fds : y # fd => s2[y] = s[y]
    BY <1>2, <1>4, <1>11, <1>13, <1>15, Numbers
  <1>19. /\ pr2 = [q \in Peers |-> pr2[q]] /\ \A q \in Peers : PeerShape(pr2[q])
         /\ pr2[p] = c /\ \A q \in Peers : q # p => pr2[q] = pr[q]
    BY <1>4, <1>11, <1>12, <1>13, <1>16, PeersSet
  <1>20. /\ x.ev.nfds = Len(l) + 1 /\ Len(m) = Len(l) + 1 /\ m[Len(l) + 1].fd = fd /\ m[Len(l) + 1].type = type
         /\ \A i \in 1 .. Len(l) : m[i] = l[i] /\ x.ev.pfd[i] = w.ev.pfd[i]
         /\ x.ev.pfd[Len(l) + 1].revents = {}
    BY <1>5, <1>8, <1>14, <1>17 DEF Grown, Table, Lined, Rows
  <1>21. \A i \in 1 .. Len(m) : i \in 1 .. Len(l) \/ i = Len(l) + 1
    BY <1>8, <1>20
  <1>22. \A i \in 1 .. Len(l) : l[i].fd \in Fds
    BY <1>8 DEF Conn, ConnSound
  <1>23. ASSUME NEW i \in 1 .. Len(m) PROVE Faces(m[i], s2, pr2)
    <2>1. CASE i \in 1 .. Len(l)
      <3>1. m[i] = l[i] /\ s2[l[i].fd] = s[l[i].fd]
        BY <1>9, <1>18, <1>20, <1>22, <2>1
      <3>2. Faces(l[i], s, pr) /\ (s[l[i].fd] \in Peers => pr2[s[l[i].fd]].state = pr[s[l[i].fd]].state)
        BY <1>9, <1>19, <2>1
      <3> QED
        BY <3>1, <3>2, FacesSame
    <2>2. CASE i = Len(l) + 1
      <3>1. m[i].fd = fd /\ m[i].type = type
        BY <1>20, <2>2
      <3> QED
        BY <1>4, <1>12, <1>18, <1>19, <3>1 DEF Faces
    <2> QED
      BY <1>21, <2>1, <2>2
  <1>24. ASSUME NEW y \in Fds, s2[y] # NoSock PROVE \E i \in 1 .. Len(m) : m[i].fd = y
    <2>1. CASE y = fd
      <3>1. Len(l) + 1 \in 1 .. Len(m)
        BY <1>8, <1>20
      <3> QED
        BY <1>20, <2>1, <3>1
    <2>2. CASE y # fd
      <3>1. PICK i \in 1 .. Len(l) : l[i].fd = y
        BY <1>8, <1>18, <1>24, <2>2 DEF Sockets
      <3>2. i \in 1 .. Len(m)
        BY <1>8, <1>20
      <3> QED
        BY <1>20, <3>1, <3>2
    <2> QED
      BY <2>1, <2>2
  <1>25. \A y \in Fds : s[y] # p
    BY <1>4, <1>8, <1>9, Numbers DEF Sockets
  <1>26. ASSUME NEW y \in Fds, NEW z \in Fds, s2[y] = s2[z], s2[y] # NoSock PROVE y = z
    <2>1. CASE y # fd /\ z # fd
      <3>1. s[y] = s[z] /\ s[y] # NoSock
        BY <1>18, <1>26, <2>1
      <3> QED
        BY <1>8, <3>1 DEF Sockets
    <2>2. CASE y = fd \/ z = fd
      BY <1>18, <1>25, <1>26, <2>2
    <2> QED
      BY <2>1, <2>2
  <1>27. Sockets(m, s2, pr2)
    BY <1>18, <1>19, <1>23, <1>24, <1>26 DEF Sockets
  <1>28. Good(x)
    BY <1>13, <1>14, <1>15, <1>16, <1>17, <1>27 DEF Good
  <1>29. ASSUME NEW n \in Nat, NEW tk, n > 0, Left(w, n, tk), Others(w, n, Listens[type]) PROVE Left(x, n, tk)
    <2> SUFFICES ASSUME NEW i \in n .. x.ev.nfds, x.ev.pfd[i].revents # {}
                 PROVE  POLLERR \in x.ev.pfd[i].revents \/ ReadyIn(s2, pr2, limit.kind, tk, x.ev.pfd[i].fd)
      BY <1>15, <1>16 DEF Left, Pending
    <2>1. i \in 1 .. Len(l) /\ i \in n .. w.ev.nfds
      <3>1. i \in Nat /\ i >= n /\ i <= Len(l) + 1 /\ i # Len(l) + 1
        BY <1>8, <1>20, <1>29
      <3> QED
        BY <1>8, <1>29, <3>1
    <2>2. PICK y : y = w.ev.pfd[i].fd
      OBVIOUS
    <2>3. y = l[i].fd /\ y \in Fds /\ x.ev.pfd[i] = w.ev.pfd[i]
      BY <1>3, <1>5, <1>8, <1>20, <2>1, <2>2, RowFds
    <2>4. POLLERR \in w.ev.pfd[i].revents \/ ReadyIn(s, pr, limit.kind, tk, y)
      BY <1>6, <1>7, <1>29, <2>1, <2>2, <2>3 DEF Left, Pending
    <2>5. s2[y] = s[y] /\ (s[y] \in Peers => pr2[s[y]] = pr[s[y]])
      BY <1>9, <1>18, <1>19, <2>1, <2>3
    <2>6. s[y] # Listens[type]
      BY <1>6, <1>29, <2>1, <2>2 DEF Others
    <2>7. ASSUME NEW other \in {"client", "control", "app"}, s[y] = Listens[other], Waiting(pr, limit.kind, other)
          PROVE  Waiting(pr2, limit.kind, other)
      <3>1. other # type
        BY <2>6, <2>7
      <3>2. PICK q \in Peers : limit.kind[q] = other /\ pr[q].state = "queued"
        BY <2>7 DEF Waiting
      <3>3. limit.kind[p] = type
        BY DEF Queued
      <3>4. pr2[q] = pr[q]
        BY <1>19, <3>1, <3>2, <3>3
      <3> QED
        BY <3>2, <3>4 DEF Waiting
    <2>8. ReadyIn(s, pr, limit.kind, tk, y) => ReadyIn(s2, pr2, limit.kind, tk, y)
      BY <2>5, <2>7, ReadySame
    <2> QED
      BY <2>2, <2>3, <2>4, <2>8
  <1> QED
    BY <1>28, <1>29

SameList(l, m) ==
  /\ Conn(m) /\ Len(m) = Len(l) /\ ClientFds(m) = ClientFds(l)
  /\ \A i \in 1 .. Len(l) : m[i].fd = l[i].fd /\ m[i].type = l[i].type

\* A connection may change what is not its descriptor or type.
LEMMA ListKept ==
  ASSUME NEW l, Conn(l), NEW k \in 1 .. Len(l), NEW c, ConnSound(c), c.fd = l[k].fd, c.type = l[k].type,
         NEW m, m = [l EXCEPT ![k] = c]
  PROVE  SameList(l, m)
  <1>1. PICK S : l \in Seq(S)
    BY DEF Conn, IsSeq
  <1>2. PICK T : T = S \cup {c}
    OBVIOUS
  <1>3. l \in Seq(T) /\ c \in T
    BY <1>1, <1>2
  <1>4. m \in Seq(T) /\ Len(m) = Len(l) /\ m[k] = c /\ \A i \in 1 .. Len(l) : i # k => m[i] = l[i]
    BY <1>3
  <1>5. \A i \in 1 .. Len(l) : m[i].fd = l[i].fd /\ m[i].type = l[i].type
    BY <1>4
  <1>6. \A i \in 1 .. Len(m) : ConnSound(m[i])
    BY <1>4 DEF Conn
  <1>7. \A i, j \in 1 .. Len(m) : m[i].fd = m[j].fd => i = j
    BY <1>4, <1>5 DEF Conn
  <1>8. Conn(m)
    BY <1>4, <1>6, <1>7 DEF Conn, IsSeq
  <1>9. ClientFds(m) = ClientFds(l)
    BY <1>4, <1>5 DEF ClientFds
  <1> QED
    BY <1>4, <1>5, <1>8, <1>9 DEF SameList

\* Connection k is that of peer p.
Serves(w, k, p) == k \in 1 .. w.ev.nfds /\ p \in Peers /\ p = w.sock[w.ev.connections[k].fd]

\* State x is sound when the rows behind it are not those of p.
SoundBut(w, x, p) ==
  /\ Good(x) /\ x.sock = w.sock
  /\ \A n \in Nat : \A tk : n > 0 /\ Left(w, n, tk) /\ Others(w, n, p) => Left(x, n, tk)

\* What is left of a stream is a sequence.
LEMMA TailIsSeq == ASSUME NEW s, IsSeq(s), NEW m \in Nat, m > 0 PROVE IsSeq(SubSeq(s, m, Len(s)))
  <1>1. PICK S : s \in Seq(S)
    BY DEF IsSeq
  <1>2. Len(s) \in Nat
    BY <1>1
  <1>3. CASE m <= Len(s)
    <2>1. SubSeq(s, m, Len(s)) \in Seq(S)
      BY <1>1, <1>2, <1>3
    <2> QED
      BY <2>1 DEF IsSeq
  <1>4. CASE m > Len(s)
    <2>1. SubSeq(s, m, Len(s)) = << >>
      BY <1>1, <1>2, <1>4
    <2>2. << >> \in Seq(S)
      OBVIOUS
    <2> QED
      BY <2>1, <2>2 DEF IsSeq
  <1> QED
    BY <1>2, <1>3, <1>4

\* Reading from a peer leaves a sound state; only this peer may have nothing left.
LEMMA ReceivedGood ==
  ASSUME NEW w, Good(w), NEW k, NEW p, Serves(w, k, p),
         NEW data, Len(data) \in Nat, NEW rec, NEW b, NEW messages, NEW x, x = Received(w, k, p, data, rec, b, messages)
  PROVE  SoundBut(w, x, p)
  <1>0. k \in 1 .. w.ev.nfds /\ p \in Peers /\ p = w.sock[w.ev.connections[k].fd]
    BY DEF Serves
  <1>1. StateShape(w) /\ Table(w.ev) /\ Sockets(w.ev.connections, w.sock, w.peer)
    BY DEF Good
  <1>2. PICK l : l = w.ev.connections
    OBVIOUS
  <1>3. PICK s : s = w.sock
    OBVIOUS
  <1>4. PICK pr : pr = w.peer
    OBVIOUS
  <1>5. /\ Conn(l) /\ w.ev.nfds = Len(l) /\ Len(l) \in Nat /\ Sockets(l, s, pr) /\ k \in 1 .. Len(l)
        /\ HandlerShape(w.ev) /\ Rows(w.ev.pfd, w.ev.nfds, l) /\ w.ev.client_connections = Cardinality(ClientFds(l))
    BY <1>0, <1>1, <1>2, <1>3, <1>4 DEF Table, Lined, Rows, Conn, IsSeq
  <1>6. PICK c1 : c1 = [l[k] EXCEPT !.rec = dlt_receiver_move_to_begin(rec, b)]
    OBVIOUS
  <1>7. PICK c : c = [c1 EXCEPT !.own = IF l[k].type = "app" THEN @ ELSE b]
    OBVIOUS
  <1>8. ConnSound(l[k])
    BY <1>5 DEF Conn
  <1>9. ConnShape(c1) /\ c1.fd = l[k].fd /\ c1.type = l[k].type /\ c1.active = l[k].active
    BY <1>6, <1>8 DEF ConnSound, ConnShape
  <1>10. ConnShape(c) /\ c.fd = l[k].fd /\ c.type = l[k].type /\ c.active = l[k].active
    BY <1>7, <1>9 DEF ConnShape
  <1>11. ConnSound(c)
    BY <1>8, <1>10 DEF ConnSound
  <1>12. PICK m : m = [l EXCEPT ![k] = c]
    OBVIOUS
  <1>13. /\ Conn(m) /\ Len(m) = Len(l) /\ ClientFds(m) = ClientFds(l)
         /\ \A i \in 1 .. Len(l) : m[i].fd = l[i].fd /\ m[i].type = l[i].type
    <2>1. SameList(l, m)
      BY <1>5, <1>10, <1>11, <1>12, ListKept
    <2> QED
      BY <2>1 DEF SameList
  <1>14. PICK c2 : c2 = [pr[p] EXCEPT !.out = SubSeq(@, Len(data) + 1, Len(@))]
    OBVIOUS
  <1>15. pr = [q \in Peers |-> pr[q]] /\ \A q \in Peers : PeerShape(pr[q])
    BY <1>5 DEF Sockets
  <1>16. PeerShape(c2) /\ c2.state = pr[p].state
    <2>1. PICK o : o = SubSeq(pr[p].out, Len(data) + 1, Len(pr[p].out))
      OBVIOUS
    <2>2. PICK y : y = pr[p]
      OBVIOUS
    <2>3. PeerShape(y) /\ c2 = [y EXCEPT !.out = o]
      BY <1>0, <1>14, <1>15, <2>1, <2>2
    <2>4. IsSeq(o)
      <3>1. IsSeq(y.out) /\ o = SubSeq(y.out, Len(data) + 1, Len(y.out))
        BY <2>1, <2>2, <2>3 DEF PeerShape
      <3>2. Len(data) + 1 \in Nat /\ Len(data) + 1 > 0
        OBVIOUS
      <3> QED
        BY <3>1, <3>2, TailIsSeq
    <2>5. PeerShape(c2) /\ c2.state = y.state
      BY <2>3, <2>4 DEF PeerShape
    <2> QED
      BY <2>2, <2>5
  <1>17. x.ev = [w.ev EXCEPT !.connections = m] /\ x.sock = s /\ x.peer = [pr EXCEPT ![p] = c2] /\ StateShape(x)
    <2>1. x.sock = s /\ x.peer = [pr EXCEPT ![p] = c2] /\ StateShape(x)
      BY <1>1, <1>3, <1>4, <1>14 DEF Received, StateShape
    <2>2. x.ev = [[w.ev EXCEPT !.connections[k].rec = dlt_receiver_move_to_begin(rec, b)]
                    EXCEPT !.connections[k].own = IF w.ev.connections[k].type = "app" THEN @ ELSE b]
      BY <1>1 DEF Received, StateShape
    <2>3. PICK m1 : m1 = [l EXCEPT ![k] = c1]
      OBVIOUS
    <2>4. PICK e1 : e1 = [w.ev EXCEPT !.connections[k].rec = dlt_receiver_move_to_begin(rec, b)]
      OBVIOUS
    <2>5. e1 = [w.ev EXCEPT !.connections = m1]
      BY <1>2, <1>6, <2>3, <2>4
    <2>6. PICK S : l \in Seq(S)
      BY <1>5 DEF Conn, IsSeq
    <2>7. m1[k] = c1 /\ [m1 EXCEPT ![k] = c] = m
      <3>1. PICK T : T = S \cup {c} \cup {c1}
        OBVIOUS
      <3>2. l \in Seq(T) /\ c \in T /\ c1 \in T
        BY <2>6, <3>1
      <3>3. m1 \in Seq(T) /\ m1[k] = c1 /\ Len(m1) = Len(l) /\ \A i \in 1 .. Len(l) : i # k => m1[i] = l[i]
        BY <1>5, <2>3, <3>2
      <3>4. m \in Seq(T) /\ m[k] = c /\ Len(m) = Len(l) /\ \A i \in 1 .. Len(l) : i # k => m[i] = l[i]
        BY <1>5, <1>12, <3>2
      <3>5. PICK o : o = [m1 EXCEPT ![k] = c]
        OBVIOUS
      <3>6. o \in Seq(T) /\ o[k] = c /\ Len(o) = Len(l) /\ \A i \in 1 .. Len(l) : i # k => o[i] = m1[i]
        BY <1>5, <3>2, <3>3, <3>5
      <3>7. \A i \in 1 .. Len(l) : o[i] = m[i]
        BY <3>3, <3>4, <3>6
      <3>8. o = m
        BY <3>4, <3>6, <3>7
      <3> QED
        BY <3>3, <3>5, <3>8
    <2>8. HandlerShape(e1) /\ e1.connections = m1
      BY <1>5, <2>5 DEF HandlerShape
    <2>9. x.ev = [e1 EXCEPT !.connections[k].own = IF l[k].type = "app" THEN @ ELSE b]
      BY <1>2, <2>2, <2>4
    <2>10. x.ev = [e1 EXCEPT !.connections = m]
      BY <1>7, <2>7, <2>8, <2>9
    <2>11. [e1 EXCEPT !.connections = m] = [w.ev EXCEPT !.connections = m]
      BY <1>5, <2>5 DEF HandlerShape
    <2> QED
      BY <2>1, <2>10, <2>11
  <1>18. HandlerShape(x.ev) /\ x.ev.pfd = w.ev.pfd /\ x.ev.nfds = w.ev.nfds /\ x.ev.connections = m
         /\ x.ev.client_connections = w.ev.client_connections
    BY <1>5, <1>17 DEF HandlerShape
  <1>19. Table(x.ev)
    <2>1. Rows(x.ev.pfd, x.ev.nfds, m)
      <3>1. PICK q : q = w.ev.pfd
        OBVIOUS
      <3>2. PICK n : n = w.ev.nfds
        OBVIOUS
      <3>3. Rows(q, n, l) /\ n = Len(l)
        BY <1>5, <3>1, <3>2
      <3>4. Rows(q, n, m)
        <4>1. /\ q \in Seq(Row) /\ Len(q) > 0 /\ n = Len(m) /\ n <= Len(q)
              /\ \A i \in n + 1 .. Len(q) : q[i].revents = {}
          BY <1>13, <3>3 DEF Rows
        <4>2. \A i \in 1 .. n : q[i].fd = l[i].fd
          BY <3>3 DEF Rows
        <4>3. \A i \in 1 .. n : m[i].fd = l[i].fd
          BY <1>13, <3>3
        <4>4. \A i \in 1 .. n : q[i].fd = m[i].fd
          BY <4>2, <4>3
        <4> QED
          BY <4>1, <4>4 DEF Rows
      <3> QED
        BY <1>18, <3>1, <3>2, <3>4
    <2> QED
      BY <1>5, <1>13, <1>18, <2>1 DEF Table, Lined
  <1>20. PICK pr2 : pr2 = x.peer
    OBVIOUS
  <1>21. /\ pr2 = [q \in Peers |-> pr2[q]] /\ \A q \in Peers : PeerShape(pr2[q])
         /\ pr2[p] = c2 /\ \A q \in Peers : q # p => pr2[q] = pr[q]
    BY <1>0, <1>15, <1>16, <1>17, <1>20, PeersSet
  <1>22. \A q \in Peers : pr2[q].state = pr[q].state
    BY <1>16, <1>21
  <1>23. ASSUME NEW i \in 1 .. Len(m) PROVE Faces(m[i], s, pr2)
    <2>1. m[i].fd = l[i].fd /\ m[i].type = l[i].type /\ Faces(l[i], s, pr)
      BY <1>5, <1>13 DEF Sockets
    <2> QED
      BY <1>22, <2>1 DEF Faces
  <1>24. Sockets(m, s, pr2)
    <2>1. s \in [Fds -> Int] /\ \A y, z \in Fds : s[y] = s[z] /\ s[y] # NoSock => y = z
      BY <1>5 DEF Sockets
    <2>2. \A y \in Fds : s[y] # NoSock => \E i \in 1 .. Len(m) : m[i].fd = y
      BY <1>5, <1>13 DEF Sockets
    <2> QED
      BY <1>21, <1>23, <2>1, <2>2 DEF Sockets
  <1>25. Good(x)
    BY <1>17, <1>18, <1>19, <1>20, <1>24 DEF Good
  <1>26. ASSUME NEW n \in Nat, NEW tk, n > 0, Left(w, n, tk), Others(w, n, p) PROVE Left(x, n, tk)
    <2> SUFFICES ASSUME NEW i \in n .. w.ev.nfds, w.ev.pfd[i].revents # {}
                 PROVE  POLLERR \in w.ev.pfd[i].revents \/ ReadyIn(s, pr2, limit.kind, tk, w.ev.pfd[i].fd)
      BY <1>17, <1>18, <1>20 DEF Left, Pending
    <2>1. PICK y : y = w.ev.pfd[i].fd
      OBVIOUS
    <2>2. POLLERR \in w.ev.pfd[i].revents \/ ReadyIn(s, pr, limit.kind, tk, y)
      BY <1>3, <1>4, <1>26, <2>1 DEF Left, Pending
    <2>3. s[y] # p
      BY <1>3, <1>26, <2>1 DEF Others
    <2>4. s[y] \in Peers => pr2[s[y]] = pr[s[y]]
      BY <1>21, <2>3
    <2>5. \A other \in {"client", "control", "app"} : Waiting(pr, limit.kind, other) => Waiting(pr2, limit.kind, other)
      BY <1>22 DEF Waiting
    <2>6. ReadyIn(s, pr, limit.kind, tk, y) => ReadyIn(s, pr2, limit.kind, tk, y)
      BY <2>4, <2>5, ReadySame
    <2> QED
      BY <2>1, <2>2, <2>6
  <1> QED
    BY <1>3, <1>17, <1>25, <1>26 DEF SoundBut

--------------------------------------------------------------------------------
(* The callbacks.                                                              *)

Fine(w, n, tk) == Good(w) /\ Left(w, n, tk)

\* The record that a callback works on is the state.
LEMMA StateIs ==
  /\ StateShape(W) /\ W.ev = ev /\ W.shared = shared /\ W.sock = sock /\ W.peer = peer /\ W.taken = taken
  BY DEF W, StateShape

\* Ready, of the state.
LEMMA ReadyIs == ASSUME NEW fd PROVE Ready(fd) <=> ReadyIn(sock, peer, limit.kind, ticked, fd)
  <1>1. DOMAIN Listens = {"client", "control", "app"}
    BY DEF Listens
  <1>2. \A type : Queued(W, type) # {} <=> \E p \in Peers : limit.kind[p] = type /\ peer[p].state = "queued"
    BY StateIs DEF Queued
  <1> QED
    BY <1>1, <1>2 DEF Ready, Waits, ReadyIn

\* Entry n of the table is looked at; tk is what the timer is, and tk2 what it is afterwards.
OnRow(w, n, fd, tk, tk2) ==
  /\ Good(w) /\ n \in 1 .. w.ev.nfds /\ Left(w, n, tk) /\ fd = w.ev.pfd[n].fd
  /\ w.sock[fd] # Timer /\ tk => tk2

\* It is that of connection n; what is behind it is not behind a later one.
BehindRow(w, n, fd, tk2) ==
  /\ fd \in Fds /\ fd = w.ev.connections[n].fd /\ w.sock[fd] # NoSock
  /\ Faces(w.ev.connections[n], w.sock, w.peer)
  /\ Others(w, n + 1, w.sock[fd]) /\ Left(w, n + 1, tk2)
  /\ w.ev.nfds = Len(w.ev.connections) /\ w.ev.nfds \in Nat

LEMMA NextRow ==
  ASSUME NEW w, NEW n, NEW tk, NEW tk2, NEW fd, OnRow(w, n, fd, tk, tk2)
  PROVE  BehindRow(w, n, fd, tk2)
  <1>0. Good(w) /\ n \in 1 .. w.ev.nfds /\ Left(w, n, tk) /\ fd = w.ev.pfd[n].fd
    BY DEF OnRow
  <1>1. StateShape(w) /\ Table(w.ev) /\ Sockets(w.ev.connections, w.sock, w.peer)
    BY <1>0 DEF Good
  <1>2. w.ev.nfds = Len(w.ev.connections) /\ w.ev.nfds \in Nat
    BY <1>1 DEF Table, Lined, Rows, Conn, IsSeq
  <1>3. fd \in Fds /\ fd = w.ev.connections[n].fd
    BY <1>0, <1>1, RowFds
  <1>4. Faces(w.ev.connections[n], w.sock, w.peer)
    BY <1>0, <1>1, <1>2 DEF Sockets
  <1>5. w.sock[fd] # NoSock
    <2>1. w.sock[fd] \in Peers \/ w.sock[fd] \in {-1, -2, -3, -4}
      BY <1>3, <1>4, Numbers DEF Faces
    <2> QED
      BY <2>1, Numbers
  <1>6. ASSUME NEW i \in n + 1 .. w.ev.nfds PROVE w.sock[w.ev.pfd[i].fd] # w.sock[fd]
    <2>1. i \in 1 .. w.ev.nfds /\ i # n
      BY <1>0, <1>2
    <2>2. w.ev.pfd[i].fd = w.ev.connections[i].fd /\ w.ev.pfd[i].fd \in Fds
      BY <1>1, <2>1, RowFds
    <2>3. w.ev.connections[i].fd # w.ev.connections[n].fd
      BY <1>0, <1>1, <1>2, <2>1 DEF Table, Lined, Conn
    <2>4. \A y, z \in Fds : w.sock[y] = w.sock[z] /\ w.sock[y] # NoSock => y = z
      BY <1>1 DEF Sockets
    <2> QED
      BY <1>3, <1>5, <2>2, <2>3, <2>4
  <1>7. Others(w, n + 1, w.sock[fd])
    BY <1>6 DEF Others
  <1>8. ASSUME NEW i \in n + 1 .. w.ev.nfds, w.ev.pfd[i].revents # {}
        PROVE  POLLERR \in w.ev.pfd[i].revents \/ ReadyIn(w.sock, w.peer, limit.kind, tk2, w.ev.pfd[i].fd)
    <2>1. i \in n .. w.ev.nfds
      BY <1>0, <1>2
    <2>2. PICK y : y = w.ev.pfd[i].fd
      OBVIOUS
    <2>3. POLLERR \in w.ev.pfd[i].revents \/ ReadyIn(w.sock, w.peer, limit.kind, tk, y)
      BY <1>0, <1>8, <2>1, <2>2 DEF Left, Pending
    <2>4. w.sock[y] # w.sock[fd]
      BY <1>6, <2>2
    <2>5. w.sock[y] = Timer /\ tk => tk2
      BY <2>4 DEF OnRow
    <2>6. ReadyIn(w.sock, w.peer, limit.kind, tk, y) => ReadyIn(w.sock, w.peer, limit.kind, tk2, y)
      BY <2>5 DEF ReadyIn
    <2> QED
      BY <2>2, <2>3, <2>6
  <1>9. Left(w, n + 1, tk2)
    BY <1>8 DEF Left, Pending
  <1> QED
    BY <1>2, <1>3, <1>4, <1>5, <1>7, <1>9 DEF BehindRow

\* A result of a callback is one of its states.
LEMMA ResultOf ==
  ASSUME NEW S, NEW r
  PROVE  (r \in Goes(S) => r.w \in S) /\ \A why : r \in Ends(S, why) => r.w \in S
  BY DEF Goes, Ends

LEMMA BroadcastFine ==
  ASSUME NEW w, NEW n \in Nat, n > 0, NEW tk, Fine(w, n, tk), NEW x \in Broadcasts(w)
  PROVE  Fine(x, n, tk)
  BY BroadcastGood DEF Fine

LEMMA CloseFine ==
  ASSUME NEW w, NEW n \in Nat, n > 0, NEW tk, Fine(w, n, tk), NEW fd \in Fds, w.sock[fd] # NoSock,
         NEW x \in dlt_daemon_close_socket(w, fd)
  PROVE  Fine(x, n, tk)
  <1>1. PICK y : y = Unregister(w, fd)
    OBVIOUS
  <1>2. Fine(y, n, tk)
    BY <1>1, UnregisterGood DEF Fine
  <1>3. x \in Broadcasts(y)
    BY <1>1 DEF dlt_daemon_close_socket
  <1> QED
    BY <1>2, <1>3, BroadcastFine

LEMMA AcceptingFine ==
  ASSUME NEW w, NEW n \in Nat, n > 0, NEW tk, Fine(w, n, tk), NEW type \in {"client", "control", "app"},
         Others(w, n, Listens[type]), NEW r \in Accepting(w, type)
  PROVE  Fine(r.w, n, tk)
  <1>1. CASE FreeFds(w) = {}
    <2>1. r \in Ends({w}, "accept")
      BY <1>1, Zenon DEF Accepting
    <2>2. r.w \in {w}
      BY <2>1, ResultOf
    <2> QED
      BY <2>2
  <1>2. CASE FreeFds(w) # {}
    <2>1. ASSUME NEW p \in Queued(w, type), NEW x, x = Accepted(w, type, p) PROVE Fine(x, n, tk)
      BY <1>2, <2>1, AcceptedGood DEF Fine
    <2>2. PICK U : U = {Accepted(w, type, p) : p \in Queued(w, type)}
      OBVIOUS
    <2>3. \A x \in U : Fine(x, n, tk)
      BY <2>1, <2>2
    <2>4. r.w \in (IF type = "client" THEN UNION {Broadcasts(x) : x \in U} ELSE U)
      BY <1>2, <2>2, ResultOf DEF Accepting
    <2>5. CASE type = "client"
      <3>1. PICK x \in U : r.w \in Broadcasts(x)
        BY <2>4, <2>5
      <3> QED
        BY <2>3, <3>1, BroadcastFine
    <2>6. CASE type # "client"
      BY <2>3, <2>4, <2>6
    <2> QED
      BY <2>5, <2>6
  <1> QED
    BY <1>1, <1>2

\* A connection whose messages are read: n is the entry behind it.
Reading(w, n, tk, k, p) ==
  /\ n \in Nat /\ n > 0 /\ Fine(w, n, tk) /\ Serves(w, k, p) /\ Others(w, n, p)
  /\ w.ev.connections[k].fd \in Fds /\ w.sock[w.ev.connections[k].fd] # NoSock

\* recv() returns a number of bytes.
LEMMA ReadLength ==
  ASSUME NEW w, NEW n, NEW tk, NEW k, NEW p, Reading(w, n, tk, k, p), NEW rec, NEW b, NEW data \in Reads(w, p, rec, b)
  PROVE  Len(data) \in Nat
  <1>1. p \in Peers /\ Sockets(w.ev.connections, w.sock, w.peer)
    BY DEF Reading, Serves, Fine, Good
  <1>2. PICK S : w.peer[p].out \in Seq(S)
    BY <1>1 DEF Sockets, PeerShape, IsSeq
  <1>3. PICK s \in Seq(S) : s = w.peer[p].out
    BY <1>2
  <1>4. data = <<>> \/ \E i \in 1 .. Room(rec, b, s) : data = SubSeq(s, 1, i)
    BY <1>3 DEF Reads
  <1>5. CASE data = <<>>
    BY <1>5
  <1>6. CASE \E i \in 1 .. Room(rec, b, s) : data = SubSeq(s, 1, i)
    <2>1. PICK i \in 1 .. Room(rec, b, s) : data = SubSeq(s, 1, i)
      BY <1>6
    <2>2. i \in Nat
      OBVIOUS
    <2> QED
      BY <2>1, <2>2
  <1> QED
    BY <1>4, <1>5, <1>6

LEMMA ReceivedFine ==
  ASSUME NEW w, NEW n, NEW tk, NEW k, NEW p, Reading(w, n, tk, k, p),
         NEW data, Len(data) \in Nat, NEW rec, NEW b, NEW messages, NEW x, x = Received(w, k, p, data, rec, b, messages)
  PROVE  Fine(x, n, tk) /\ x.sock = w.sock
  <1>1. n \in Nat /\ n > 0 /\ Good(w) /\ Left(w, n, tk) /\ Serves(w, k, p) /\ Others(w, n, p)
    BY DEF Reading, Fine
  <1>2. SoundBut(w, x, p)
    BY <1>1, ReceivedGood
  <1> QED
    BY <1>1, <1>2 DEF SoundBut, Fine

LEMMA MessagesFine ==
  ASSUME NEW w, NEW n, NEW tk, NEW k, NEW p, Reading(w, n, tk, k, p), NEW data, Len(data) \in Nat,
         NEW refused, NEW x, x = Messages(w, k, p, data, refused)
  PROVE  Fine(x, n, tk) /\ x.sock = w.sock
  <1>1. PICK y : y = dlt_receiver_receive(w.ev.connections[k].rec, w.ev.connections[k].own, data)
    OBVIOUS
  <1>2. PICK m : m = ReadMessages(y.rec, y.b, refused)
    OBVIOUS
  <1>3. x = Received(w, k, p, data, m.rec, y.b, m.taken)
    BY <1>1, <1>2, Zenon DEF Messages
  <1> QED
    BY <1>3, ReceivedFine

LEMMA ClientFine ==
  ASSUME NEW w, NEW n, NEW tk, NEW k, NEW p, Reading(w, n, tk, k, p), NEW r \in dlt_daemon_process_client_messages(w, k, p)
  PROVE  Fine(r.w, n, tk)
  <1>1. PICK fd \in Fds : fd = w.ev.connections[k].fd /\ w.sock[fd] # NoSock
    BY DEF Reading
  <1>2. PICK data : /\ Len(data) \in Nat
                    /\ r.w \in (IF data = <<>> THEN dlt_daemon_close_socket(Messages(w, k, p, data, {}), fd)
                                ELSE {Messages(w, k, p, data, {})})
    <2>1. PICK D : D = Reads(w, p, w.ev.connections[k].rec, w.ev.connections[k].own)
      OBVIOUS
    <2>2. PICK S : S = UNION {IF data = <<>> THEN dlt_daemon_close_socket(Messages(w, k, p, data, {}), fd)
                              ELSE {Messages(w, k, p, data, {})} : data \in D}
      OBVIOUS
    <2>3. r \in Goes(S)
      BY <1>1, <2>1, <2>2, Zenon DEF dlt_daemon_process_client_messages
    <2>4. r.w \in S
      BY <2>3, ResultOf
    <2>5. \A data \in D : Len(data) \in Nat
      BY <2>1, ReadLength
    <2> QED
      BY <2>2, <2>4, <2>5
  <1>3. PICK x : x = Messages(w, k, p, data, {})
    OBVIOUS
  <1>4. Fine(x, n, tk) /\ x.sock[fd] # NoSock /\ n \in Nat /\ n > 0
    BY <1>1, <1>2, <1>3, MessagesFine DEF Reading
  <1>5. r.w = x \/ r.w \in dlt_daemon_close_socket(x, fd)
    BY <1>2, <1>3
  <1> QED
    BY <1>4, <1>5, CloseFine

LEMMA ControlFine ==
  ASSUME NEW w, NEW n, NEW tk, NEW k, NEW p, Reading(w, n, tk, k, p), NEW r \in dlt_daemon_process_control_messages(w, k, p)
  PROVE  Fine(r.w, n, tk)
  <1>1. PICK fd \in Fds : fd = w.ev.connections[k].fd /\ w.sock[fd] # NoSock
    BY DEF Reading
  <1> DEFINE refused == limit.short \cup limit.unsafe
  <1>2. PICK data : /\ Len(data) \in Nat
                    /\ r \in (IF data = <<>> THEN Ends(dlt_daemon_close_socket(w, fd), "control")
                              ELSE Control(Messages(w, k, p, data, refused), k))
    <2>1. PICK D : D = Reads(w, p, w.ev.connections[k].rec, w.ev.connections[k].own)
      OBVIOUS
    <2>2. r \in UNION {IF data = <<>> THEN Ends(dlt_daemon_close_socket(w, fd), "control")
                       ELSE Control(Messages(w, k, p, data, refused), k) : data \in D}
      BY <1>1, <2>1, Zenon DEF dlt_daemon_process_control_messages
    <2>3. \A data \in D : Len(data) \in Nat
      BY <2>1, ReadLength
    <2> QED
      BY <2>2, <2>3
  <1>3. PICK x : x = Messages(w, k, p, data, refused)
    OBVIOUS
  <1>4. Fine(x, n, tk) /\ Fine(w, n, tk) /\ n \in Nat /\ n > 0
    BY <1>2, <1>3, MessagesFine DEF Reading
  <1>5. r.w \in {x} \/ r.w \in dlt_daemon_close_socket(w, fd)
    <2>1. CASE r \in Control(x, k)
      BY <2>1, ResultOf DEF Control
    <2>2. CASE r \in Ends(dlt_daemon_close_socket(w, fd), "control")
      BY <2>2, ResultOf
    <2> QED
      BY <1>2, <1>3, <2>1, <2>2
  <1> QED
    BY <1>1, <1>4, <1>5, CloseFine

LEMMA UserFine ==
  ASSUME NEW w, NEW n, NEW tk, NEW k, NEW p, Reading(w, n, tk, k, p), NEW r \in dlt_daemon_process_user_messages(w, k, p)
  PROVE  Fine(r.w, n, tk)
  <1>1. PICK fd \in Fds : fd = w.ev.connections[k].fd /\ w.sock[fd] # NoSock
    BY DEF Reading
  <1>2. \/ r.w \in dlt_daemon_close_socket(w, fd)
        \/ \E data, rec, b, messages : Len(data) \in Nat /\ r.w \in {Received(w, k, p, data, rec, b, messages)}
                                               \cup Broadcasts(Received(w, k, p, data, rec, b, messages))
    <2>1. PICK c : c = w.ev.connections[k]
      OBVIOUS
    <2> DEFINE y(data) == dlt_receiver_receive(c.rec, w.shared, data)
               m(data) == UserMessages(y(data).rec, y(data).b, limit.unsupported)
               x(data) == Received(w, k, p, data, m(data).rec, y(data).b, m(data).taken)
               S == UNION {IF data = <<>> THEN dlt_daemon_close_socket(w, fd)
                           ELSE IF m(data).taken = <<>> THEN {x(data)} ELSE Broadcasts(x(data))
                           : data \in Reads(w, p, c.rec, w.shared)}
    <2>2. r \in Goes(S)
      BY <1>1, <2>1, Zenon DEF dlt_daemon_process_user_messages
    <2> HIDE DEF S
    <2>3. r.w \in S
      BY <2>2, ResultOf
    <2>4. PICK data \in Reads(w, p, c.rec, w.shared) :
            r.w \in (IF data = <<>> THEN dlt_daemon_close_socket(w, fd)
                     ELSE IF m(data).taken = <<>> THEN {x(data)} ELSE Broadcasts(x(data)))
      <3> HIDE DEF x, m, y
      <3> QED
        BY <2>3 DEF S
    <2>5. Len(data) \in Nat
      BY ReadLength
    <2>6. r.w \in dlt_daemon_close_socket(w, fd) \/ r.w \in {x(data)} \cup Broadcasts(x(data))
      <3> HIDE DEF x, m, y
      <3> QED
        BY <2>4
    <2> QED
      BY <2>5, <2>6
  <1>3. ASSUME NEW data, Len(data) \in Nat, NEW rec, NEW b, NEW messages, NEW x, x = Received(w, k, p, data, rec, b, messages)
        PROVE  Fine(x, n, tk)
    BY <1>3, ReceivedFine
  <1>4. CASE r.w \in dlt_daemon_close_socket(w, fd)
    BY <1>1, <1>4, CloseFine DEF Reading
  <1>5. CASE \E data, rec, b, messages : Len(data) \in Nat /\ r.w \in {Received(w, k, p, data, rec, b, messages)}
                                               \cup Broadcasts(Received(w, k, p, data, rec, b, messages))
    <2>1. PICK data, rec, b, messages : Len(data) \in Nat /\ r.w \in {Received(w, k, p, data, rec, b, messages)}
                                               \cup Broadcasts(Received(w, k, p, data, rec, b, messages))
      BY <1>5
    <2>2. PICK x : x = Received(w, k, p, data, rec, b, messages)
      OBVIOUS
    <2>3. Fine(x, n, tk) /\ n \in Nat /\ n > 0
      BY <1>3, <2>1, <2>2 DEF Reading
    <2>4. r.w = x \/ r.w \in Broadcasts(x)
      BY <2>1, <2>2
    <2> QED
      BY <2>3, <2>4, BroadcastFine
  <1> QED
    BY <1>2, <1>4, <1>5

AtRow(i, fd, tk) == OnRow(W, i, fd, ticked, tk)

\* What is known of the row that the loop looks at.
LEMMA RowFacts ==
  ASSUME NEW i, NEW fd, NEW tk, AtRow(i, fd, tk)
  PROVE  /\ i \in Nat /\ i + 1 \in Nat /\ i + 1 > 0 /\ i # 0
         /\ fd \in Fds /\ fd = ev.connections[i].fd /\ sock[fd] # NoSock
         /\ Faces(ev.connections[i], sock, peer) /\ Others(W, i + 1, sock[fd]) /\ Fine(W, i + 1, tk)
         /\ dlt_event_handler_find_connection(ev, fd) = i
  <1>1. Good(W) /\ i \in 1 .. W.ev.nfds
    BY DEF AtRow, OnRow
  <1>2. /\ fd \in Fds /\ fd = W.ev.connections[i].fd /\ W.sock[fd] # NoSock
        /\ Faces(W.ev.connections[i], W.sock, W.peer)
        /\ Others(W, i + 1, W.sock[fd]) /\ Left(W, i + 1, tk)
        /\ W.ev.nfds = Len(W.ev.connections) /\ W.ev.nfds \in Nat
    BY NextRow DEF AtRow, BehindRow
  <1>3. Conn(W.ev.connections)
    BY <1>1 DEF Good, Table, Lined
  <1>4. i \in 1 .. Len(W.ev.connections) /\ i \in Nat /\ i # 0
    BY <1>1, <1>2
  <1>5. dlt_event_handler_find_connection(W.ev, W.ev.connections[i].fd) = i
    BY <1>3, <1>4, FindsIt
  <1> QED
    BY <1>1, <1>2, <1>4, <1>5, StateIs DEF Fine

\* Each callback leaves a sound state from the next row on.
LEMMA CallbackFine ==
  ASSUME NEW i, NEW fd, NEW tk, AtRow(i, fd, tk), NEW r \in Callback(W, fd, i)
  PROVE  Fine(r.w, i + 1, tk)
  <1>1. PICK c : c = ev.connections[i]
    OBVIOUS
  <1>2. PICK n : n = i + 1
    OBVIOUS
  <1>3. /\ n \in Nat /\ n > 0 /\ fd \in Fds /\ fd = c.fd /\ sock[fd] # NoSock
        /\ Faces(c, sock, peer) /\ Others(W, n, sock[fd]) /\ Fine(W, n, tk)
    BY <1>1, <1>2, RowFacts
  <1>4. c = W.ev.connections[i]
    BY <1>1, StateIs
  <1>5. /\ Listens.client = Listens["client"] /\ Listens.control = Listens["control"] /\ Listens.app = Listens["app"]
    BY DEF Listens
  <1>6. CASE c.type = "app_connect" /\ sock[fd] = Listens.app
    <2>1. r \in Accepting(W, "app")
      BY <1>4, <1>6 DEF Callback, dlt_daemon_process_app_connect
    <2> QED
      BY <1>2, <1>3, <1>5, <1>6, <2>1, AcceptingFine
  <1>7. CASE c.type = "client_connect" /\ sock[fd] = Listens.client
    <2>1. r \in Accepting(W, "client")
      BY <1>4, <1>7 DEF Callback, dlt_daemon_process_client_connect
    <2> QED
      BY <1>2, <1>3, <1>5, <1>7, <2>1, AcceptingFine
  <1>8. CASE c.type = "control_connect" /\ sock[fd] = Listens.control
    <2>1. r \in Accepting(W, "control")
      BY <1>4, <1>8 DEF Callback, dlt_daemon_process_control_connect
    <2> QED
      BY <1>2, <1>3, <1>5, <1>8, <2>1, AcceptingFine
  <1>9. CASE c.type = "one_s_timer" /\ sock[fd] = Timer
    <2>1. r \in Goes(Broadcasts(W))
      BY <1>4, <1>9 DEF Callback, dlt_daemon_process_one_s_timer
    <2>2. r.w \in Broadcasts(W)
      BY <2>1, ResultOf
    <2> QED
      BY <1>2, <1>3, <2>2, BroadcastFine
  <1>10. CASE c.type \in {"client", "control", "app"} /\ sock[fd] \in Peers
    <2>1. PICK p \in Peers : p = sock[fd]
      BY <1>10
    <2>2. Reading(W, n, tk, i, p)
      <3>1. i \in 1 .. W.ev.nfds
        BY StateIs DEF AtRow, OnRow
      <3>2. Serves(W, i, p)
        BY <1>3, <1>4, <2>1, <3>1, StateIs DEF Serves
      <3> QED
        BY <1>3, <1>4, <2>1, <3>2, StateIs DEF Reading
    <2>3. CASE c.type = "client"
      <3>1. r \in dlt_daemon_process_client_messages(W, i, p)
        BY <1>4, <2>1, <2>3 DEF Callback
      <3> QED
        BY <1>2, <2>2, <3>1, ClientFine
    <2>4. CASE c.type = "control"
      <3>1. r \in dlt_daemon_process_control_messages(W, i, p)
        BY <1>4, <2>1, <2>4 DEF Callback
      <3> QED
        BY <1>2, <2>2, <3>1, ControlFine
    <2>5. CASE c.type = "app"
      <3>1. r \in dlt_daemon_process_user_messages(W, i, p)
        BY <1>4, <2>1, <2>5 DEF Callback
      <3> QED
        BY <1>2, <2>2, <3>1, UserFine
    <2> QED
      BY <1>10, <2>3, <2>4, <2>5
  <1> QED
    BY <1>3, <1>6, <1>7, <1>8, <1>9, <1>10 DEF Faces

\* So does an entry with an error.
LEMMA RejectedFine ==
  ASSUME NEW i, NEW fd, NEW tk, AtRow(i, fd, tk), NEW r \in Rejected(W, fd, i)
  PROVE  Fine(r.w, i + 1, tk)
  <1>1. PICK n : n = i + 1
    OBVIOUS
  <1>2. n \in Nat /\ n > 0 /\ fd \in Fds /\ sock[fd] # NoSock /\ Fine(W, n, tk)
    BY <1>1, RowFacts
  <1>3. PICK x : x = Unregister(W, fd)
    OBVIOUS
  <1>4. Fine(x, n, tk)
    BY <1>2, <1>3, UnregisterGood, StateIs DEF Fine
  <1>5. r \in Goes(dlt_daemon_close_socket(W, fd)) \/ r \in Goes({x})
    BY <1>3 DEF Rejected
  <1>6. r.w \in dlt_daemon_close_socket(W, fd) \/ r.w \in {x}
    BY <1>5, ResultOf
  <1> QED
    BY <1>1, <1>2, <1>4, <1>6, CloseFine, StateIs

--------------------------------------------------------------------------------
(* The steps.                                                                  *)

\* The state that a step leaves is x, and the loop goes on at row n.
Leaves(x, n) ==
  /\ ev' = x.ev /\ shared' = x.shared /\ sock' = x.sock /\ peer' = x.peer /\ taken' = x.taken
  /\ at' = n /\ n \in Nat /\ blocked' = blocked /\ limit' = limit

\* Such a state, with the loop at the next row, satisfies the invariant.
LEMMA LeavesInv ==
  ASSUME LoopInv, NEW x, NEW n, Leaves(x, n), Good(x), n # 0 => Left(x, n, ticked')
  PROVE  LoopInv'
  <1>1. StateShape(x)
    BY DEF Good
  <1>2. W' = x
    BY <1>1 DEF W, Leaves, StateShape
  <1>3. at' \in Nat /\ blocked' = FALSE /\ (limit \in Limits)'
    BY DEF LoopInv, Leaves
  <1>4. Good(W)'
    BY <1>2 DEF Good
  <1>5. ASSUME at' # 0 PROVE Left(W, at, ticked)'
    BY <1>2, <1>5 DEF Left, Leaves
  <1> QED
    BY <1>3, <1>4, <1>5 DEF LoopInv

\* One row: its connection is found, and it has something to read or an error.
LEMMA EntryKeeps == LoopInv /\ Entry => LoopInv'
  <1> SUFFICES ASSUME LoopInv, Entry PROVE LoopInv'
    OBVIOUS
  <1>1. PICK i : i = at
    OBVIOUS
  <1>2. PICK fd : fd = ev.pfd[i].fd
    OBVIOUS
  <1>3. PICK k : k = dlt_event_handler_find_connection(ev, fd)
    OBVIOUS
  <1>4. i \in 1 .. ev.nfds /\ limit' = limit
    BY <1>1 DEF Entry, Goon
  <1>5. at \in Nat /\ blocked = FALSE /\ limit \in Limits /\ Good(W) /\ (at # 0 => Left(W, at, ticked))
    BY DEF LoopInv
  <1>6. i # 0 /\ i \in Nat /\ i + 1 \in Nat /\ i + 1 # 0
    BY <1>1, <1>4, <1>5
  <1>7. Left(W, i, ticked)
    BY <1>1, <1>5, <1>6
  <1>8. ASSUME NEW tk, sock[fd] # Timer /\ ticked => tk PROVE AtRow(i, fd, tk)
    BY <1>2, <1>4, <1>5, <1>7, <1>8, StateIs DEF AtRow, OnRow
  <1>9. k = i /\ Fine(W, i + 1, ticked)
    <2>1. AtRow(i, fd, ticked)
      BY <1>8
    <2> QED
      BY <1>3, <2>1, RowFacts
  <1>10. CASE /\ ev.pfd[i].revents = {}
              /\ at' = i + 1 /\ UNCHANGED <<ev, shared, sock, peer, ticked, running, blocked, taken>>
    <2>1. Leaves(W, i + 1)
      BY <1>4, <1>6, <1>10, StateIs DEF Leaves
    <2>2. Good(W) /\ Left(W, i + 1, ticked')
      BY <1>9, <1>10 DEF Fine
    <2> QED
      BY <2>1, <2>2, LeavesInv
  <1>11. CASE ev.pfd[i].revents # {} /\ k = 0
    BY <1>6, <1>9, <1>11
  <1>12. CASE ev.pfd[i].revents # {} /\ POLLERR \notin ev.pfd[i].revents /\ ~Ready(fd)
    <2>1. i \in i .. ev.nfds
      BY <1>4, <1>6
    <2>2. POLLERR \in ev.pfd[i].revents \/ ReadyIn(sock, peer, limit.kind, ticked, fd)
      BY <1>2, <1>7, <1>12, <2>1, StateIs DEF Left, Pending
    <2> QED
      BY <1>12, <2>2, ReadyIs
  <1>13. CASE /\ ev.pfd[i].revents # {} /\ k # 0
              /\ POLLERR \in ev.pfd[i].revents \/ Ready(fd)
              /\ \E r \in IF POLLERR \in ev.pfd[i].revents THEN Rejected(W, fd, k) ELSE Callback(W, fd, k) :
                   /\ ev' = r.w.ev /\ shared' = r.w.shared /\ sock' = r.w.sock /\ peer' = r.w.peer
                   /\ taken' = r.w.taken /\ running' = r.running
              /\ at' = i + 1 /\ ticked' = (ticked /\ sock[fd] # Timer) /\ UNCHANGED blocked
    <2>1. sock[fd] # Timer /\ ticked => ticked'
      BY <1>13, Zenon
    <2>2. AtRow(i, fd, ticked')
      BY <1>8, <2>1
    <2>3. PICK r : /\ r \in Rejected(W, fd, i) \/ r \in Callback(W, fd, i)
                   /\ ev' = r.w.ev /\ shared' = r.w.shared /\ sock' = r.w.sock /\ peer' = r.w.peer
                   /\ taken' = r.w.taken
      BY <1>9, <1>13
    <2>4. PICK x : x = r.w
      OBVIOUS
    <2>5. Fine(x, i + 1, ticked')
      BY <2>2, <2>3, <2>4, CallbackFine, RejectedFine
    <2>6. Leaves(x, i + 1)
      BY <1>4, <1>6, <1>13, <2>3, <2>4 DEF Leaves
    <2> QED
      BY <2>5, <2>6, LeavesInv DEF Fine
  <1> QED
    BY <1>1, <1>2, <1>3, <1>10, <1>11, <1>12, <1>13, Zenon DEF Entry

LEMMA ReturnKeeps == LoopInv /\ Return => LoopInv'
  <1> SUFFICES ASSUME LoopInv, Return PROVE LoopInv'
    OBVIOUS
  <1>1. Leaves(W, 0)
    BY StateIs DEF Return, Leaves, Goon
  <1>2. Good(W)
    BY DEF LoopInv
  <1> QED
    BY <1>1, <1>2, LeavesInv

\* poll() reports an error or a descriptor that is ready.
LEMMA Reported == ASSUME NEW fd PROVE Revents(fd) \in SUBSET {POLLIN, POLLERR} /\ (Revents(fd) # {} => POLLERR \in Revents(fd) \/ Ready(fd))
  BY DEF Revents

\* What poll() reports is written to the rows in use.
PollRow(p, n, i) == IF i <= n THEN [p[i] EXCEPT !.revents = Revents(p[i].fd)] ELSE p[i]

LEMMA RowsPolled ==
  ASSUME NEW p, NEW n, NEW l, Rows(p, n, l), Conn(l), NEW q, q = [i \in DOMAIN p |-> PollRow(p, n, i)]
  PROVE  Rows(q, n, l) /\ \A i \in 1 .. n : q[i].fd = p[i].fd /\ q[i].revents = Revents(p[i].fd)
  <1>1. /\ p \in Seq(Row) /\ Len(p) > 0 /\ n = Len(l) /\ n <= Len(p) /\ n \in Nat
        /\ (\A i \in 1 .. n : p[i].fd = l[i].fd) /\ \A i \in n + 1 .. Len(p) : p[i].revents = {}
    BY DEF Rows, Conn, IsSeq
  <1>2. ASSUME NEW i \in 1 .. Len(p)
        PROVE  /\ PollRow(p, n, i) \in Row /\ PollRow(p, n, i).fd = p[i].fd
               /\ PollRow(p, n, i).revents = IF i <= n THEN Revents(p[i].fd) ELSE p[i].revents
    <2>1. p[i] \in Row
      BY <1>1
    <2>2. PICK R : R = Revents(p[i].fd)
      OBVIOUS
    <2>3. R \in SUBSET {POLLIN, POLLERR}
      BY <2>2, Reported
    <2>4. PollRow(p, n, i) = IF i <= n THEN [p[i] EXCEPT !.revents = R] ELSE p[i]
      BY <2>2 DEF PollRow
    <2>5. PICK r \in Row : r = p[i]
      BY <2>1
    <2>6. [r EXCEPT !.revents = R] \in Row /\ [r EXCEPT !.revents = R].fd = r.fd /\ [r EXCEPT !.revents = R].revents = R
      BY <2>3 DEF Row
    <2> QED
      BY <2>2, <2>4, <2>5, <2>6
  <1>3. q \in Seq(Row) /\ Len(q) = Len(p) /\ \A i \in 1 .. Len(p) : q[i] = PollRow(p, n, i)
    <2>1. DOMAIN p = 1 .. Len(p) /\ Len(p) \in Nat
      BY <1>1
    <2>2. \A i \in 1 .. Len(p) : PollRow(p, n, i) \in Row
      BY <1>2
    <2> QED
      BY <2>1, <2>2
  <1>4. \A i \in 1 .. Len(p) : q[i].fd = p[i].fd /\ q[i].revents = IF i <= n THEN Revents(p[i].fd) ELSE p[i].revents
    BY <1>2, <1>3
  <1>5. \A i \in 1 .. n : i \in 1 .. Len(p) /\ i <= n
    BY <1>1
  <1>6. \A i \in n + 1 .. Len(q) : i \in 1 .. Len(p) /\ ~ (i <= n) /\ i \in n + 1 .. Len(p)
    BY <1>1, <1>3
  <1>7. \A i \in 1 .. n : q[i].fd = l[i].fd
    BY <1>1, <1>4, <1>5
  <1>8. ASSUME NEW i \in n + 1 .. Len(q) PROVE q[i].revents = {}
    <2>1. i \in 1 .. Len(p) /\ ~ (i <= n) /\ p[i].revents = {}
      BY <1>1, <1>6
    <2> QED
      BY <1>4, <2>1
  <1>9. Rows(q, n, l)
    BY <1>1, <1>3, <1>7, <1>8 DEF Rows
  <1> QED
    BY <1>4, <1>5, <1>9

\* After poll() every row that reports is pending.
LEMMA PollKeeps == LoopInv /\ Poll => LoopInv'
  <1> SUFFICES ASSUME LoopInv, Poll PROVE LoopInv'
    OBVIOUS
  <1>1. PICK q : q = [i \in DOMAIN ev.pfd |-> PollRow(ev.pfd, ev.nfds, i)]
    OBVIOUS
  <1>2. PICK e : e = [ev EXCEPT !.pfd = q]
    OBVIOUS
  <1>3. ev' = e
    BY <1>1, <1>2 DEF Poll, PollRow
  <1>4. PICK x : x = [ev |-> e, shared |-> shared, sock |-> sock, peer |-> peer, taken |-> taken]
    OBVIOUS
  <1>5. StateShape(x) /\ x.ev = e /\ x.shared = shared /\ x.sock = sock /\ x.peer = peer /\ x.taken = taken
    BY <1>4 DEF StateShape
  <1>6. Leaves(x, 1) /\ ticked' = ticked
    BY <1>3, <1>5 DEF Leaves, Poll, Goon
  <1>7. Table(ev) /\ Sockets(ev.connections, sock, peer)
    BY StateIs DEF LoopInv, Good
  <1>8. HandlerShape(ev) /\ Conn(ev.connections) /\ Rows(ev.pfd, ev.nfds, ev.connections)
    BY <1>7 DEF Table, Lined
  <1>9. HandlerShape(e) /\ e.pfd = q /\ e.nfds = ev.nfds /\ e.connections = ev.connections
        /\ e.client_connections = ev.client_connections
    BY <1>2, <1>8 DEF HandlerShape
  <1>10. PICK n : n = ev.nfds
    OBVIOUS
  <1>11. PICK l : l = ev.connections
    OBVIOUS
  <1>12. PICK p : p = ev.pfd
    OBVIOUS
  <1>13. Rows(q, n, l) /\ \A i \in 1 .. n : q[i].fd = p[i].fd /\ q[i].revents = Revents(p[i].fd)
    BY <1>1, <1>8, <1>10, <1>11, <1>12, RowsPolled
  <1>14. Table(e)
    BY <1>7, <1>8, <1>9, <1>10, <1>11, <1>13 DEF Table, Lined
  <1>15. Good(x)
    BY <1>5, <1>7, <1>9, <1>14 DEF Good
  <1>16. ASSUME NEW i \in 1 .. n, q[i].revents # {}
         PROVE  POLLERR \in q[i].revents \/ ReadyIn(sock, peer, limit.kind, ticked, q[i].fd)
    <2>1. PICK fd : fd = p[i].fd
      OBVIOUS
    <2>2. q[i].fd = fd /\ q[i].revents = Revents(fd)
      BY <1>13, <2>1
    <2>3. POLLERR \in Revents(fd) \/ Ready(fd)
      BY <1>16, <2>2, Reported
    <2> QED
      BY <2>2, <2>3, ReadyIs
  <1>17. Left(x, 1, ticked)
    BY <1>5, <1>9, <1>10, <1>16 DEF Left, Pending
  <1> QED
    BY <1>6, <1>15, <1>17, LeavesInv

\* A peer moves: what waited still waits.
PeerKeeps(c, d) ==
  /\ PeerShape(d)
  /\ c.state = "open" => d.state = "open"
  /\ c.state = "queued" => d.state = "queued"
  /\ c.out # <<>> \/ c.hung \/ c.reset => d.out # <<>> \/ d.hung \/ d.reset

Quiet == UNCHANGED <<ev, shared, sock, at, blocked, taken, limit>>

\* Peers only make more descriptors ready.
LEMMA PeersMove ==
  ASSUME LoopInv, Quiet, peer' = [p \in Peers |-> peer'[p]], \A p \in Peers : PeerKeeps(peer[p], peer'[p]), ticked => ticked'
  PROVE  LoopInv'
  <1>1. PICK pr : pr = peer'
    OBVIOUS
  <1>2. pr = [p \in Peers |-> pr[p]] /\ \A p \in Peers : PeerKeeps(peer[p], pr[p])
    BY <1>1
  <1>3. PICK x : x = [ev |-> ev, shared |-> shared, sock |-> sock, peer |-> pr, taken |-> taken]
    OBVIOUS
  <1>4. StateShape(x) /\ x.ev = ev /\ x.shared = shared /\ x.sock = sock /\ x.peer = pr /\ x.taken = taken
    BY <1>3 DEF StateShape
  <1>5. Leaves(x, at)
    BY <1>1, <1>4 DEF Leaves, Quiet, LoopInv
  <1>6. PICK l : l = ev.connections
    OBVIOUS
  <1>7. Table(ev) /\ Sockets(l, sock, peer)
    BY <1>6, StateIs DEF LoopInv, Good
  <1>8. ASSUME NEW i \in 1 .. Len(l) PROVE Faces(l[i], sock, pr)
    <2>1. PICK c : c = l[i]
      OBVIOUS
    <2>2. Faces(c, sock, peer)
      BY <1>7, <2>1 DEF Sockets
    <2>3. sock[c.fd] \in Peers /\ peer[sock[c.fd]].state = "open" => pr[sock[c.fd]].state = "open"
      BY <1>2 DEF PeerKeeps
    <2>4. Faces(c, sock, pr)
      BY <2>2, <2>3 DEF Faces
    <2> QED
      BY <2>1, <2>4
  <1>9. Sockets(l, sock, pr)
    <2>1. \A p \in Peers : PeerShape(pr[p])
      BY <1>2 DEF PeerKeeps
    <2>2. /\ sock \in [Fds -> Int] /\ \A fd \in Fds : sock[fd] # NoSock => \E i \in 1 .. Len(l) : l[i].fd = fd
          /\ \A y, z \in Fds : sock[y] = sock[z] /\ sock[y] # NoSock => y = z
      BY <1>7 DEF Sockets
    <2> QED
      BY <1>2, <1>8, <2>1, <2>2 DEF Sockets
  <1>10. Good(x)
    BY <1>4, <1>6, <1>7, <1>9 DEF Good
  <1>11. ASSUME NEW fd, ReadyIn(sock, peer, limit.kind, ticked, fd) PROVE ReadyIn(sock, pr, limit.kind, ticked', fd)
    <2>1. CASE \E p \in Peers : sock[fd] = p /\ peer[p].state = "open" /\ (peer[p].out # <<>> \/ peer[p].hung \/ peer[p].reset)
      <3>1. PICK p \in Peers : sock[fd] = p /\ peer[p].state = "open" /\ (peer[p].out # <<>> \/ peer[p].hung \/ peer[p].reset)
        BY <2>1
      <3>2. pr[p].state = "open" /\ (pr[p].out # <<>> \/ pr[p].hung \/ pr[p].reset)
        BY <1>2, <3>1 DEF PeerKeeps
      <3> QED
        BY <3>1, <3>2 DEF ReadyIn
    <2>2. CASE \E type \in {"client", "control", "app"} :
                 sock[fd] = Listens[type] /\ \E p \in Peers : limit.kind[p] = type /\ peer[p].state = "queued"
      <3>1. PICK type \in {"client", "control", "app"}, p \in Peers :
              sock[fd] = Listens[type] /\ limit.kind[p] = type /\ peer[p].state = "queued"
        BY <2>2
      <3>2. pr[p].state = "queued"
        BY <1>2, <3>1 DEF PeerKeeps
      <3> QED
        BY <3>1, <3>2 DEF ReadyIn
    <2>3. CASE sock[fd] = Timer /\ ticked
      BY <2>3 DEF ReadyIn
    <2> QED
      BY <1>11, <2>1, <2>2, <2>3 DEF ReadyIn
  <1>12. ASSUME at # 0 PROVE Left(x, at, ticked')
    <2>1. Left(W, at, ticked)
      BY <1>12 DEF LoopInv
    <2>2. \A i \in at .. ev.nfds : ev.pfd[i].revents # {} =>
            POLLERR \in ev.pfd[i].revents \/ ReadyIn(sock, peer, limit.kind, ticked, ev.pfd[i].fd)
      BY <2>1, StateIs DEF Left, Pending
    <2>3. \A i \in at .. ev.nfds : ev.pfd[i].revents # {} =>
            POLLERR \in ev.pfd[i].revents \/ ReadyIn(sock, pr, limit.kind, ticked', ev.pfd[i].fd)
      BY <1>11, <2>2
    <2> QED
      BY <1>4, <2>3 DEF Left, Pending
  <1> QED
    BY <1>5, <1>10, <1>12, LeavesInv

LEMMA PeerShapes == ASSUME LoopInv PROVE peer = [p \in Peers |-> peer[p]] /\ \A p \in Peers : PeerShape(peer[p])
  BY StateIs DEF LoopInv, Good, Sockets

LEMMA PeerMoves ==
  ASSUME LoopInv, Quiet, NEW p \in Peers, NEW d, PeerKeeps(peer[p], d), peer' = [peer EXCEPT ![p] = d], ticked' = ticked
  PROVE  LoopInv'
  <1>1. peer = [q \in Peers |-> peer[q]] /\ \A q \in Peers : PeerShape(peer[q])
    BY PeerShapes
  <1>2. PeerShape(d)
    BY DEF PeerKeeps
  <1>3. PICK pr : pr = peer'
    OBVIOUS
  <1>4. /\ pr = [q \in Peers |-> pr[q]] /\ \A q \in Peers : PeerShape(pr[q])
        /\ pr[p] = d /\ \A q \in Peers : q # p => pr[q] = peer[q]
    BY <1>1, <1>2, <1>3, PeersSet
  <1>5. ASSUME NEW q \in Peers PROVE PeerKeeps(peer[q], pr[q])
    <2>1. CASE q = p
      BY <1>4, <2>1
    <2>2. CASE q # p
      BY <1>4, <2>2 DEF PeerKeeps
    <2> QED
      BY <2>1, <2>2
  <1> QED
    BY <1>3, <1>4, <1>5, PeersMove

LEMMA TickKeeps == LoopInv /\ Tick => LoopInv'
  <1> SUFFICES ASSUME LoopInv, Tick PROVE LoopInv'
    OBVIOUS
  <1>1. Quiet /\ peer' = peer /\ (ticked => ticked')
    BY DEF Tick, Env, Quiet
  <1>2. peer = [q \in Peers |-> peer[q]] /\ \A q \in Peers : PeerShape(peer[q])
    BY PeerShapes
  <1>3. \A q \in Peers : PeerKeeps(peer[q], peer'[q])
    BY <1>1, <1>2 DEF PeerKeeps
  <1>4. peer' = [q \in Peers |-> peer'[q]]
    BY <1>1, <1>2
  <1> QED
    BY <1>1, <1>3, <1>4, PeersMove

LEMMA ConnectKeeps == ASSUME LoopInv, NEW p \in Peers, Connect(p) PROVE LoopInv'
  <1>1. PICK d : d = [peer[p] EXCEPT !.state = "queued"]
    OBVIOUS
  <1>2. Quiet /\ ticked' = ticked /\ peer' = [peer EXCEPT ![p] = d] /\ peer[p].state = "idle"
    BY <1>1 DEF Connect, Env, Quiet
  <1>3. PICK c : c = peer[p]
    OBVIOUS
  <1>4. PeerShape(c) /\ d = [c EXCEPT !.state = "queued"] /\ c.state = "idle"
    BY <1>1, <1>2, <1>3, PeerShapes
  <1>5. PeerShape(d) /\ d.state = "queued" /\ d.out = c.out /\ (c.hung => d.hung) /\ (c.reset => d.reset)
    BY <1>4 DEF PeerShape
  <1>6. PeerKeeps(c, d)
    BY <1>4, <1>5 DEF PeerKeeps
  <1> QED
    BY <1>2, <1>3, <1>6, PeerMoves

LEMMA HangupKeeps == ASSUME LoopInv, NEW p \in Peers, Hangup(p) PROVE LoopInv'
  <1>1. PICK d : d = [peer[p] EXCEPT !.hung = TRUE]
    OBVIOUS
  <1>2. Quiet /\ ticked' = ticked /\ peer' = [peer EXCEPT ![p] = d]
    BY <1>1 DEF Hangup, Env, Quiet
  <1>3. PICK c : c = peer[p]
    OBVIOUS
  <1>4. PeerShape(c) /\ d = [c EXCEPT !.hung = TRUE]
    BY <1>1, <1>3, PeerShapes
  <1>5. PeerShape(d) /\ d.state = c.state /\ d.hung = TRUE
    BY <1>4 DEF PeerShape
  <1>6. PeerKeeps(c, d)
    BY <1>4, <1>5 DEF PeerKeeps
  <1> QED
    BY <1>2, <1>3, <1>6, PeerMoves

\* Two fields of one entry.
LEMMA TwoSet ==
  ASSUME NEW pr, pr = [q \in Peers |-> pr[q]], NEW p \in Peers, NEW c, NEW d
  PROVE  [[pr EXCEPT ![p] = c] EXCEPT ![p] = d] = [pr EXCEPT ![p] = d]
  OBVIOUS

LEMMA ResetKeeps == ASSUME LoopInv, NEW p \in Peers, Reset(p) PROVE LoopInv'
  <1>1. PICK c : c = peer[p]
    OBVIOUS
  <1>2. PICK e : e = [c EXCEPT !.reset = TRUE]
    OBVIOUS
  <1>3. PICK d : d = [e EXCEPT !.out = <<>>]
    OBVIOUS
  <1>4. peer = [q \in Peers |-> peer[q]] /\ PeerShape(c)
    BY <1>1, PeerShapes
  <1>5. Quiet /\ ticked' = ticked /\ peer' = [peer EXCEPT ![p].reset = TRUE, ![p].out = <<>>]
    BY DEF Reset, Env, Quiet
  <1>6. PICK pr : pr = [peer EXCEPT ![p] = e]
    OBVIOUS
  <1>7. pr = [peer EXCEPT ![p].reset = TRUE] /\ pr[p] = e
    BY <1>1, <1>2, <1>4, <1>6
  <1>8. peer' = [pr EXCEPT ![p].out = <<>>]
    BY <1>5, <1>7
  <1>9. peer' = [pr EXCEPT ![p] = d]
    BY <1>3, <1>7, <1>8
  <1>10. peer' = [peer EXCEPT ![p] = d]
    BY <1>4, <1>6, <1>9, TwoSet
  <1>11. e.state = c.state /\ e.reset = TRUE /\ PeerShape(e)
    BY <1>2, <1>4 DEF PeerShape
  <1>12. IsSeq(<<>>)
    <2>1. <<>> \in Seq({0})
      OBVIOUS
    <2> QED
      BY <2>1 DEF IsSeq
  <1>13. d.state = c.state /\ d.reset = TRUE /\ PeerShape(d)
    BY <1>3, <1>11, <1>12 DEF PeerShape
  <1>14. PeerKeeps(c, d)
    BY <1>13 DEF PeerKeeps
  <1> QED
    BY <1>1, <1>5, <1>10, <1>14, PeerMoves

\* More bytes.
LEMMA JoinedSeq ==
  ASSUME NEW s, IsSeq(s), NEW t, IsSeq(t)
  PROVE  IsSeq(s \o t) /\ (s # <<>> => s \o t # <<>>)
  <1>1. PICK S : s \in Seq(S)
    BY DEF IsSeq
  <1>2. PICK T : t \in Seq(T)
    BY DEF IsSeq
  <1>3. PICK U : U = S \cup T
    OBVIOUS
  <1>4. s \in Seq(U) /\ t \in Seq(U)
    BY <1>1, <1>2, <1>3
  <1>5. PICK o : o = s \o t
    OBVIOUS
  <1>6. o \in Seq(U) /\ Len(o) = Len(s) + Len(t)
    BY <1>4, <1>5
  <1>7. s # <<>> => Len(s) > 0 /\ Len(s) \in Nat /\ Len(t) \in Nat
    BY <1>4
  <1>8. s # <<>> => o # <<>>
    BY <1>6, <1>7
  <1> QED
    BY <1>5, <1>6, <1>8 DEF IsSeq

\* A message is a sequence of bytes.
LEMMA BytesSeq == ASSUME LoopInv, NEW p \in Peers, NEW n \in DOMAIN limit.lengths[p] PROVE IsSeq(Bytes(p, n))
  <1>1. limit \in Limit
    BY ConstAssumption DEF LoopInv
  <1>2. limit.lengths[p] \in Seq(Nat)
    BY <1>1 DEF Limit
  <1>3. PICK k \in Nat : k = limit.lengths[p][n]
    BY <1>2
  <1>4. PICK T : T = {[from |-> p, n |-> n, pos |-> pos, len |-> k] : pos \in 1 .. k}
    OBVIOUS
  <1>5. Bytes(p, n) = [pos \in 1 .. k |-> [from |-> p, n |-> n, pos |-> pos, len |-> k]]
    BY <1>3 DEF Bytes
  <1>6. PICK f : f = Bytes(p, n)
    OBVIOUS
  <1>7. f \in [1 .. k -> T]
    BY <1>4, <1>5, <1>6
  <1>8. f \in Seq(T)
    BY <1>3, <1>7
  <1> QED
    BY <1>6, <1>8 DEF IsSeq

LEMMA WriteKeeps == ASSUME LoopInv, NEW p \in Peers, Write(p) PROVE LoopInv'
  <1>1. PICK c : c = peer[p]
    OBVIOUS
  <1>2. PICK n : n = peer[p].sent + 1
    OBVIOUS
  <1>3. PICK o : o = c.out \o Bytes(p, n)
    OBVIOUS
  <1>4. PICK e : e = [c EXCEPT !.out = o]
    OBVIOUS
  <1>5. PICK d : d = [e EXCEPT !.sent = n]
    OBVIOUS
  <1>6. peer = [q \in Peers |-> peer[q]] /\ PeerShape(c)
    BY <1>1, PeerShapes
  <1>7. /\ Quiet /\ ticked' = ticked /\ n \in DOMAIN limit.lengths[p]
        /\ peer' = [peer EXCEPT ![p].out = @ \o Bytes(p, n), ![p].sent = n]
    BY <1>2 DEF Write, Env, Quiet
  <1>8. PICK pr : pr = [peer EXCEPT ![p] = e]
    OBVIOUS
  <1>9. pr = [peer EXCEPT ![p].out = @ \o Bytes(p, n)] /\ pr[p] = e
    BY <1>1, <1>3, <1>4, <1>6, <1>8
  <1>10. peer' = [pr EXCEPT ![p].sent = n]
    BY <1>7, <1>9
  <1>11. peer' = [pr EXCEPT ![p] = d]
    BY <1>5, <1>9, <1>10
  <1>12. peer' = [peer EXCEPT ![p] = d]
    BY <1>6, <1>8, <1>11, TwoSet
  <1>13. IsSeq(c.out) /\ IsSeq(Bytes(p, n))
    BY <1>6, <1>7, BytesSeq DEF PeerShape
  <1>14. IsSeq(o) /\ (c.out # <<>> => o # <<>>)
    BY <1>3, <1>13, JoinedSeq
  <1>15. PeerShape(e) /\ e.out = o /\ e.state = c.state /\ e.hung = c.hung /\ e.reset = c.reset
    BY <1>4, <1>6, <1>14 DEF PeerShape
  <1>16. PeerShape(d) /\ d.out = o /\ d.state = c.state /\ d.hung = c.hung /\ d.reset = c.reset
    BY <1>5, <1>15 DEF PeerShape
  <1>17. PeerKeeps(c, d)
    BY <1>14, <1>16 DEF PeerKeeps
  <1> QED
    BY <1>1, <1>7, <1>12, <1>17, PeerMoves

\* The table before any connection.
LEMMA EmptyTable == Table(EmptyHandler) /\ EmptyHandler.nfds = 0
  <1>1. PICK e : e = EmptyHandler
    OBVIOUS
  <1>2. PICK q : q = [i \in 1 .. DLT_EV_BASE_FD |-> init_poll_fd]
    OBVIOUS
  <1>3. HandlerShape(e) /\ e.pfd = q /\ e.nfds = 0 /\ e.connections = <<>> /\ e.client_connections = 0
    BY <1>1, <1>2 DEF EmptyHandler, HandlerShape
  <1>4. DLT_EV_BASE_FD \in Nat /\ DLT_EV_BASE_FD > 0
    BY ConstAssumption
  <1>5. q \in Seq(Row) /\ Len(q) = DLT_EV_BASE_FD /\ \A i \in 1 .. Len(q) : q[i].revents = {}
    BY <1>2, <1>4, FillRows
  <1>6. Conn(<<>>)
    <2>1. <<>> \in Seq({0}) /\ Len(<<>>) = 0
      OBVIOUS
    <2> QED
      BY <2>1 DEF Conn, IsSeq
  <1>7. Rows(q, 0, <<>>)
    BY <1>4, <1>5 DEF Rows
  <1>8. ClientFds(<<>>) = {}
    BY DEF ClientFds
  <1>9. Cardinality(ClientFds(<<>>)) = 0
    BY <1>8, FS_EmptySet
  <1> QED
    BY <1>1, <1>3, <1>6, <1>7, <1>9 DEF Table, Lined

\* The table with the listening sockets and the timer.
LEMMA InitialTable ==
  /\ Table(InitialHandler) /\ Len(InitialHandler.connections) = 4
  /\ InitialHandler.connections[1].fd = 1 /\ InitialHandler.connections[1].type = "app_connect"
  /\ InitialHandler.connections[2].fd = 2 /\ InitialHandler.connections[2].type = "client_connect"
  /\ InitialHandler.connections[3].fd = 3 /\ InitialHandler.connections[3].type = "control_connect"
  /\ InitialHandler.connections[4].fd = 4 /\ InitialHandler.connections[4].type = "one_s_timer"
  <1>1. PICK e0 : e0 = EmptyHandler
    OBVIOUS
  <1>2. PICK e1 : e1 = dlt_connection_create(e0, 1, "app_connect", 0)
    OBVIOUS
  <1>3. PICK e2 : e2 = dlt_connection_create(e1, 2, "client_connect", 0)
    OBVIOUS
  <1>4. PICK e3 : e3 = dlt_connection_create(e2, 3, "control_connect", 0)
    OBVIOUS
  <1>5. PICK e4 : e4 = dlt_connection_create(e3, 4, "one_s_timer", 0)
    OBVIOUS
  <1>6. e4 = InitialHandler
    BY <1>1, <1>2, <1>3, <1>4, <1>5, Zenon DEF InitialHandler
  <1>7. 1 \in Fds /\ 2 \in Fds /\ 3 \in Fds /\ 4 \in Fds
    BY ConstAssumption
  <1>8. Table(e0) /\ e0.nfds = 0
    BY <1>1, EmptyTable
  <1>9. Table(e1) /\ Grown(e0, e1, 1, "app_connect")
    <2>1. \A i \in 1 .. e0.nfds : e0.connections[i].fd # 1
      BY <1>8
    <2>2. "app_connect" \in Types
      BY DEF Types
    <2> QED
      BY <1>2, <1>7, <1>8, <2>1, <2>2, Creates
  <1>10. e1.nfds = 1 /\ e1.connections[1].fd = 1 /\ e1.connections[1].type = "app_connect"
    BY <1>8, <1>9 DEF Grown
  <1>11. Table(e2) /\ Grown(e1, e2, 2, "client_connect")
    <2>1. \A i \in 1 .. e1.nfds : e1.connections[i].fd # 2
      BY <1>10
    <2>2. "client_connect" \in Types
      BY DEF Types
    <2> QED
      BY <1>3, <1>7, <1>9, <2>1, <2>2, Creates
  <1>12. /\ e2.nfds = 2 /\ e2.connections[1] = e1.connections[1]
         /\ e2.connections[2].fd = 2 /\ e2.connections[2].type = "client_connect"
    BY <1>10, <1>11 DEF Grown
  <1>13. Table(e3) /\ Grown(e2, e3, 3, "control_connect")
    <2>1. \A i \in 1 .. e2.nfds : i = 1 \/ i = 2
      BY <1>12
    <2>2. \A i \in 1 .. e2.nfds : e2.connections[i].fd # 3
      BY <1>10, <1>12, <2>1
    <2>3. "control_connect" \in Types
      BY DEF Types
    <2> QED
      BY <1>4, <1>7, <1>11, <2>2, <2>3, Creates
  <1>14. /\ e3.nfds = 3 /\ e3.connections[1] = e2.connections[1] /\ e3.connections[2] = e2.connections[2]
         /\ e3.connections[3].fd = 3 /\ e3.connections[3].type = "control_connect"
    BY <1>12, <1>13 DEF Grown
  <1>15. Table(e4) /\ Grown(e3, e4, 4, "one_s_timer")
    <2>1. \A i \in 1 .. e3.nfds : i = 1 \/ i = 2 \/ i = 3
      BY <1>14
    <2>2. \A i \in 1 .. e3.nfds : e3.connections[i].fd # 4
      BY <1>10, <1>12, <1>14, <2>1
    <2>3. "one_s_timer" \in Types
      BY DEF Types
    <2> QED
      BY <1>5, <1>7, <1>13, <2>2, <2>3, Creates
  <1>16. /\ e4.nfds = 4 /\ e4.connections[1] = e3.connections[1] /\ e4.connections[2] = e3.connections[2]
         /\ e4.connections[3] = e3.connections[3]
         /\ e4.connections[4].fd = 4 /\ e4.connections[4].type = "one_s_timer"
    BY <1>14, <1>15 DEF Grown
  <1>17. Len(e4.connections) = 4
    BY <1>15, <1>16 DEF Table, Lined, Rows
  <1> QED
    BY <1>6, <1>10, <1>12, <1>14, <1>15, <1>16, <1>17

LEMMA InitInv == Init => LoopInv
  <1> SUFFICES ASSUME Init PROVE LoopInv
    OBVIOUS
  <1>1. PICK l : l = ev.connections
    OBVIOUS
  <1>2. /\ Table(ev) /\ Len(l) = 4
        /\ l[1].fd = 1 /\ l[1].type = "app_connect" /\ l[2].fd = 2 /\ l[2].type = "client_connect"
        /\ l[3].fd = 3 /\ l[3].type = "control_connect" /\ l[4].fd = 4 /\ l[4].type = "one_s_timer"
    BY <1>1, InitialTable DEF Init
  <1>3. 1 \in Fds /\ 2 \in Fds /\ 3 \in Fds /\ 4 \in Fds /\ Fds \subseteq Int
    BY ConstAssumption
  <1>4. /\ sock = [fd \in Fds |-> CASE fd = 1 -> -3 [] fd = 2 -> -1 [] fd = 3 -> -2 [] fd = 4 -> -4 [] OTHER -> 0]
    BY Numbers DEF Init
  <1>5. sock \in [Fds -> Int] /\ sock[1] = -3 /\ sock[2] = -1 /\ sock[3] = -2 /\ sock[4] = -4
        /\ \A fd \in Fds : fd \notin {1, 2, 3, 4} => sock[fd] = 0
    BY <1>3, <1>4
  <1>6. \A p \in Peers : PeerShape(peer[p])
    <2>1. <<>> \in Seq({0})
      OBVIOUS
    <2>2. IsSeq(<<>>)
      BY <2>1 DEF IsSeq
    <2>3. PICK c : c = [state |-> "idle", out |-> <<>>, hung |-> FALSE, reset |-> FALSE, sent |-> 0]
      OBVIOUS
    <2>4. PeerShape(c)
      BY <2>2, <2>3 DEF PeerShape
    <2>5. \A p \in Peers : peer[p] = c
      BY <2>3 DEF Init
    <2> QED
      BY <2>4, <2>5
  <1>7. peer = [p \in Peers |-> peer[p]]
    BY DEF Init
  <1>8. Faces(l[1], sock, peer) /\ Faces(l[2], sock, peer) /\ Faces(l[3], sock, peer) /\ Faces(l[4], sock, peer)
    BY <1>2, <1>5, Numbers DEF Faces
  <1>9. \A i \in 1 .. Len(l) : i = 1 \/ i = 2 \/ i = 3 \/ i = 4
    BY <1>2
  <1>10. 1 \in 1 .. Len(l) /\ 2 \in 1 .. Len(l) /\ 3 \in 1 .. Len(l) /\ 4 \in 1 .. Len(l)
    BY <1>2
  <1>11. ASSUME NEW fd \in Fds, sock[fd] # NoSock PROVE \E i \in 1 .. Len(l) : l[i].fd = fd
    <2>1. fd = 1 \/ fd = 2 \/ fd = 3 \/ fd = 4
      BY <1>5, <1>11, Numbers
    <2> QED
      BY <1>2, <1>10, <2>1
  <1>12. \A y, z \in Fds : sock[y] = sock[z] /\ sock[y] # NoSock => y = z
    BY <1>5, Numbers
  <1>13. \A i \in 1 .. Len(l) : Faces(l[i], sock, peer)
    BY <1>8, <1>9
  <1>14. Sockets(l, sock, peer)
    BY <1>5, <1>6, <1>7, <1>11, <1>12, <1>13 DEF Sockets
  <1>15. Good(W)
    BY <1>1, <1>2, <1>14, StateIs DEF Good
  <1>16. at = 0 /\ blocked = FALSE /\ limit \in Limits
    BY DEF Init
  <1> QED
    BY <1>15, <1>16 DEF LoopInv

LEMMA NextKeeps == LoopInv /\ [Next]_vars => LoopInv'
  <1> SUFFICES ASSUME LoopInv, [Next]_vars PROVE LoopInv'
    OBVIOUS
  <1>1. CASE Poll
    BY <1>1, PollKeeps
  <1>2. CASE Entry
    BY <1>2, EntryKeeps
  <1>3. CASE Return
    BY <1>3, ReturnKeeps
  <1>4. CASE Tick
    BY <1>4, TickKeeps
  <1>5. ASSUME NEW p \in Peers, Connect(p) \/ Write(p) \/ Hangup(p) \/ Reset(p) PROVE LoopInv'
    BY <1>5, ConnectKeeps, WriteKeeps, HangupKeeps, ResetKeeps
  <1>6. CASE UNCHANGED vars
    <2>1. Quiet /\ peer' = peer /\ ticked' = ticked
      BY <1>6 DEF vars, Quiet
    <2>2. Leaves(W, at)
      BY <2>1, StateIs DEF Leaves, Quiet, LoopInv
    <2>3. Good(W) /\ (at # 0 => Left(W, at, ticked'))
      BY <2>1 DEF LoopInv
    <2> QED
      BY <2>2, <2>3, LeavesInv
  <1> QED
    BY <1>1, <1>2, <1>3, <1>4, <1>5, <1>6 DEF Next

\* The clients of the list and their descriptors are as many.
LEMMA ClientCount ==
  ASSUME NEW l, Conn(l), NEW S, S = {c \in {l[k] : k \in 1 .. Len(l)} : c.type = "client"}
  PROVE  Cardinality(S) = Cardinality(ClientFds(l))
  <1>1. PICK T : T = ClientFds(l)
    OBVIOUS
  <1>2. IsFiniteSet(T)
    BY <1>1, ClientsFinite
  <1>3. \A c \in S : c.type = "client" /\ \E k \in 1 .. Len(l) : c = l[k]
    OBVIOUS
  <1>4. ASSUME NEW c \in S PROVE c.fd \in T
    <2>1. PICK k \in 1 .. Len(l) : c = l[k] /\ c.type = "client"
      BY <1>3
    <2>2. c.fd \in Fds
      BY <2>1 DEF Conn, ConnSound
    <2> QED
      BY <1>1, <2>1, <2>2 DEF ClientFds
  <1>5. ASSUME NEW c \in S, NEW d \in S, c.fd = d.fd PROVE c = d
    <2>1. PICK k \in 1 .. Len(l) : c = l[k]
      BY <1>3
    <2>2. PICK j \in 1 .. Len(l) : d = l[j]
      BY <1>3
    <2>3. k = j
      BY <1>5, <2>1, <2>2 DEF Conn
    <2> QED
      BY <2>1, <2>2, <2>3
  <1>6. ASSUME NEW fd \in T PROVE \E c \in S : c.fd = fd
    <2>1. PICK k \in 1 .. Len(l) : l[k].fd = fd /\ l[k].type = "client"
      BY <1>1 DEF ClientFds
    <2>2. l[k] \in S
      BY <2>1
    <2> QED
      BY <2>1, <2>2
  <1>7. PICK f : f = [c \in S |-> c.fd]
    OBVIOUS
  <1>8. f \in [S -> T] /\ \A c \in S : f[c] = c.fd
    BY <1>4, <1>7
  <1>9. f \in Injection(S, T)
    BY <1>5, <1>8 DEF Injection, IsInjective
  <1>10. f \in Surjection(S, T)
    BY <1>6, <1>8 DEF Surjection
  <1> QED
    BY <1>1, <1>2, <1>9, <1>10, FS_Injection

LEMMA LoopInvSound == LoopInv => LoopSound
  <1> SUFFICES ASSUME LoopInv PROVE LoopSound
    OBVIOUS
  <1>1. PICK l : l = ev.connections
    OBVIOUS
  <1>2. Table(ev) /\ Sockets(l, sock, peer) /\ blocked = FALSE
    BY <1>1, StateIs DEF LoopInv, Good
  <1>3. /\ Conn(l) /\ ev.nfds = Len(l) /\ Len(l) \in Nat /\ (\A i \in 1 .. Len(l) : ev.pfd[i].fd = l[i].fd)
        /\ ev.client_connections = Cardinality(ClientFds(l))
    BY <1>1, <1>2 DEF Table, Lined, Rows, Conn, IsSeq
  <1>4. Conns = {l[k] : k \in 1 .. Len(l)}
    <2>1. DOMAIN l = 1 .. Len(l)
      BY <1>3 DEF Conn, IsSeq
    <2> QED
      BY <1>1, <2>1 DEF Conns
  <1>5. {ev.pfd[i].fd : i \in 1 .. ev.nfds} = {c.fd : c \in Conns}
    BY <1>3, <1>4
  <1>6. {c.fd : c \in Conns} = {fd \in Fds : sock[fd] # NoSock}
    <2>1. ASSUME NEW i \in 1 .. Len(l) PROVE l[i].fd \in Fds /\ sock[l[i].fd] # NoSock
      <3>1. Faces(l[i], sock, peer) /\ ConnSound(l[i])
        BY <1>2, <1>3 DEF Sockets, Conn
      <3>2. sock[l[i].fd] \in Peers \/ sock[l[i].fd] \in {-1, -2, -3, -4}
        BY <3>1, Numbers DEF Faces
      <3> QED
        BY <3>1, <3>2, Numbers DEF ConnSound
    <2>2. \A fd \in Fds : sock[fd] # NoSock => \E i \in 1 .. Len(l) : l[i].fd = fd
      BY <1>2 DEF Sockets
    <2> QED
      BY <1>4, <2>1, <2>2
  <1>7. \A c \in Conns : c.active = TRUE
    BY <1>3, <1>4 DEF Conn, ConnSound
  <1>8. ev.client_connections = Cardinality({c \in Conns : IsClient(c.type)})
    <2>1. PICK S : S = {c \in {l[k] : k \in 1 .. Len(l)} : c.type = "client"}
      OBVIOUS
    <2>2. {c \in Conns : IsClient(c.type)} = S
      BY <1>4, <2>1 DEF IsClient
    <2>3. Cardinality(S) = Cardinality(ClientFds(l))
      BY <1>3, <2>1, ClientCount
    <2> QED
      BY <1>3, <2>2, <2>3
  <1>9. TableExact
    BY <1>1, <1>3, <1>5, <1>6, <1>7, <1>8 DEF TableExact
  <1> QED
    BY <1>2, <1>9 DEF LoopSound, NeverBlocks

(* Whatever the peers do while the loop walks over the table, and whatever its *)
(* callbacks accept and close on the way, the table of poll() holds each       *)
(* connection once, the connections are the open descriptors, the counter of   *)
(* clients is their number, and no callback reads from a descriptor that has   *)
(* nothing to read (dlt_daemon_handle_event, dlt_event_handler_enable_fd,      *)
(* dlt_event_handler_disable_fd, dlt_event_handler_unregister_connection).     *)
THEOREM LoopIsSound == Spec => []LoopSound
  <1>1. Spec => []LoopInv
    BY InitInv, NextKeeps, PTL DEF Spec
  <1> QED
    BY <1>1, LoopInvSound, PTL
================================================================================
