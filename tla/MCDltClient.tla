------------------------------ MODULE MCDltClient ------------------------------
(* Instances of DltClient for TLC. *)
EXTENDS DltClient

\* A message of the stream as bytes, with or without its serial header.
MessageBytes(n, len, serial) ==
  (IF serial THEN [k \in 1 .. SerialSize |-> [from |-> Serial, n |-> n, pos |-> k, len |-> 0]] ELSE <<>>)
  \o [k \in 1 .. len |-> [from |-> Body, n |-> n, pos |-> k, len |-> len]]
NoiseBytes(len) == [k \in 1 .. len |-> [from |-> Noise, n |-> 0, pos |-> k, len |-> 0]]

StreamOf(lens, serial, noise) ==
  NoiseBytes(noise) \o FlattenSeq([k \in DOMAIN lens |-> MessageBytes(k, lens[k], serial)])

ClientShape(ver, modes, str, resync, reqs, table) ==
  [ver |-> ver, modes |-> modes, stream |-> str, resync |-> resync, requests |-> reqs, table |-> table]

Request(service, apid, ctid, val) == [service |-> service, apid |-> apid, ctid |-> ctid, val |-> val]

\* A table with a level that is negative on the wire, a context without description and an
\* application without contexts.
TwoApps == <<[apid |-> 1, desc |-> <<9, 8>>,
              ctxs |-> <<[ctid |-> 3, ll |-> -1, ts |-> -1, desc |-> <<7>>], [ctid |-> 4, ll |-> 4, ts |-> 1, desc |-> <<>>]>>],
             [apid |-> 2, desc |-> <<>>, ctxs |-> <<>>]>>

\* No application, one that has no contexts, and these.
Tables == {<<>>, SubSeq(TwoApps, 2, 2), TwoApps}

\* Two requests of a program: every service, the information in every detail.
Singles == {Request(SET_LOG_LEVEL, 1, 3, 4), Request(SET_TRACE_STATUS, 1, 3, 1),
            Request(SET_TIMING_PACKETS, 0, 0, 1), Request(4096, 5, 0, 2), Request(4095, 0, 0, 0)}
           \union {Request(s, 0, 0, 2) : s \in LevelServices} \union {Request(s, 0, 0, 0) : s \in PlainServices}
Infos == {Request(GET_LOG_INFO, a, c, o) : a \in 0 .. 3, c \in {0, 3, 4}, o \in 3 .. 7}

\* A context alone makes the daemon of version 2 compare with a null pointer.
InfosV2 == {r \in Infos : r.apid # 0 \/ r.ctid = 0}

\* A program that never connects.
ClientIdle == ClientShape(1, {}, <<>>, FALSE, <<>>, <<>>)

MCClientShapes ==
  {ClientShape(1, {"tcp", "serial", "unix", "udp"}, StreamOf(lens, serial, 0), FALSE, <<>>, <<>>) :
     lens \in {<<2, 4>>, <<3, 2, 3>>}, serial \in BOOLEAN}
  \union {ClientShape(2, {"serial"}, StreamOf(<<3, 2, 4>>, TRUE, noise), TRUE, <<>>, <<>>) : noise \in 1 .. 3}
  \union {ClientShape(ver, {"tcp", "unix"}, <<>>, FALSE, <<r1, r2>>, TwoApps) :
            ver \in {1, 2}, r1 \in Singles, r2 \in {Request(GET_LOG_INFO, 0, 0, 7), Request(17, 0, 0, 6)}}
  \union {ClientShape(1, {"tcp"}, <<>>, FALSE, <<r1>>, t) : r1 \in Infos, t \in Tables}
  \union {ClientShape(2, {"tcp"}, <<>>, FALSE, <<r1>>, t) : r1 \in InfosV2, t \in Tables}
================================================================================
