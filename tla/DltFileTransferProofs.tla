------------------------- MODULE DltFileTransferProofs -------------------------
(* TransferExact of DltFileTransfer holds for all files, package sizes and         *)
(* histories of changes.                                                           *)
EXTENDS DltFileTransfer, TLAPS

Byte == Nat \X Nat
File == Seq(Byte)
Message ==
  [kind : {"FLST"}, serial : Nat, size : Nat, count : Int]
  \cup [kind : {"FLDA"}, serial : Nat, n : Nat, data : File]
  \cup [kind : {"FLFI"}, serial : Nat] \cup [kind : {"FLER"}]
Call ==
  [pc : {"start", "serial", "size", "count", "open", "loop", "stat", "end", "remove", "done"},
   serial : Nat, size : Nat, node : Nat, off : Nat, ahead : File, eof : BOOLEAN, n : Nat, got : File,
   open : BOOLEAN,
   ret : {"none", "complete", "header", "data", "buffer", "serial", "cancelled", "end", "remove", "ok"}]

Typed ==
  /\ nodes \in Seq([data : File, ver : Nat]) /\ path \in 0 .. Len(nodes) /\ versions \in Seq(File)
  /\ xfer \in Call /\ logs \in Seq(Message)

\* Serial numbers that were logged are those of versions.
Known == \A k \in DOMAIN logs : logs[k].kind # "FLER" => logs[k].serial \in DOMAIN versions

\* There is no error before the end.
Clean == logs # <<>> /\ logs[Len(logs)].kind = "FLFI" => \A k \in DOMAIN logs : logs[k].kind # "FLER"

\* An inode holds the version it is marked with.
Versioned ==
  /\ \A i \in DOMAIN nodes : nodes[i].ver \in DOMAIN versions /\ nodes[i].data = versions[nodes[i].ver]
  /\ xfer.pc \in {"size", "count", "open", "loop", "stat", "end"} => xfer.serial \in DOMAIN versions
  /\ xfer.pc \in {"loop", "stat", "end"} => xfer.node \in DOMAIN nodes

\* What was logged, as far as the place in the code tells.
Logged ==
  /\ xfer.pc \in {"start", "serial", "size", "count"} => logs = <<>>
  /\ xfer.pc \in {"open", "loop", "stat", "end"} =>
       /\ logs # <<>> /\ logs[1].serial = xfer.serial
       /\ \A k \in DOMAIN logs : logs[k].kind \in {"FLST", "FLDA"}
  /\ xfer.pc = "remove" \/ xfer.ret = "ok" => logs # <<>> /\ logs[Len(logs)].kind = "FLFI"
  /\ xfer.pc # "done" => xfer.ret = "none"

\* Nothing was read before the file is opened.
Unread ==
  xfer.pc \in {"start", "serial", "size", "count", "open"} =>
    xfer.off = 0 /\ xfer.ahead = <<>> /\ xfer.n = 0 /\ ~xfer.eof

\* The path still leads to the version that the header was made of.
Current == path # 0 /\ nodes[path].ver = xfer.serial

Alike == \A k \in DOMAIN logs : logs[k].serial = xfer.serial

\* The file as it was when the header was made.
Original == versions[xfer.serial]

\* The header and the first m packages of the file.
Begun(m) ==
  /\ Len(logs) = m + 1
  /\ logs[1] = FLST(xfer.serial, Len(Original), PackagesOf(Len(Original)))
  /\ \A k \in 1 .. m : logs[k + 1] = FLDA(xfer.serial, k, PartOf(Original, k))

\* The bytes of g are those of v behind byte c.
LiesIn(g, v, c) == c + Len(g) <= Len(v) /\ \A i \in 1 .. Len(g) : g[i] = v[c + i]

\* n packages were read and the next bytes are those read ahead.
Position(n) ==
  /\ xfer.node = path
  /\ xfer.off = Least(Len(Original), n * PackageSize) + Len(xfer.ahead)
  /\ LiesIn(xfer.ahead, Original, Least(Len(Original), n * PackageSize))
  /\ xfer.eof <=> n * PackageSize > Len(Original)

\* As long as nobody changed the file, the messages are its packages.
Proceeds ==
  Current =>
    /\ xfer.pc = "count" => xfer.size = Len(Original)
    /\ xfer.pc = "open" => Begun(0)
    /\ xfer.pc = "loop" /\ Alike =>
         /\ Begun(xfer.n) /\ Position(xfer.n)
         /\ xfer.n > 0 => (xfer.n - 1) * PackageSize < Len(Original)
    /\ xfer.pc = "stat" /\ Alike =>
         /\ xfer.n > 0 /\ Begun(xfer.n - 1) /\ Position(xfer.n)
         /\ (xfer.n - 1) * PackageSize < Len(Original)
         /\ xfer.got = PartOf(Original, xfer.n)
    /\ xfer.pc = "end" /\ Alike =>
         \E m \in Nat :
           /\ Begun(m) /\ Len(Original) <= m * PackageSize
           /\ m > 0 => (m - 1) * PackageSize < Len(Original)

\* All messages are about one version, and so these are its bytes.
SameVersion ==
  /\ logs # <<>> /\ logs[Len(logs)].kind = "FLFI"
  /\ \A k \in DOMAIN logs : logs[k].serial = logs[1].serial
VersionReceived == SameVersion => IsVersion

XferInv == Typed /\ Known /\ Clean /\ Versioned /\ Logged /\ Unread /\ Proceeds /\ VersionReceived

--------------------------------------------------------------------------------
(* Packages *)

\* dlt_user_log_file_packagesCount announces as many packages as cover the file.
LEMMA PackagesCover ==
  ASSUME NEW len \in Nat, len > 0, NEW m \in Nat, m > 0,
         (m - 1) * PackageSize < len, len <= m * PackageSize
  PROVE  PackagesOf(len) = m
  <1> DEFINE P == PackageSize
             q == len \div P
             r == len % P
  <1>1. P \in Nat \ {0}
    BY TransferAssumption
  <1>2. q \in Nat /\ r \in Nat /\ r < P /\ len = P * q + r
    BY <1>1
  <1>3. PackagesOf(len) = IF len < P THEN 1 ELSE q + (IF r = 0 THEN 0 ELSE 1)
    BY DEF PackagesOf
  <1> HIDE DEF q, r, P
  <1>4. P * q = q * P /\ (q + 1) * P = q * P + P /\ (m - 1) * P = m * P - P /\ m * P \in Nat /\ q * P \in Nat
    BY <1>1, <1>2
  <1>5. (m - 1) * P < len /\ len <= m * P
    BY DEF P
  <1>6. q <= m
    <2>1. q > m => q * P >= (m + 1) * P /\ (m + 1) * P = m * P + P
      BY <1>1, <1>2
    <2> QED
      BY <1>1, <1>2, <1>4, <1>5, <2>1
  <1>7. q >= m - 1
    <2>1. q < m - 1 => (q + 1) * P <= (m - 1) * P
      BY <1>1, <1>2
    <2> QED
      BY <1>1, <1>2, <1>4, <1>5, <2>1
  <1>8. len < P => m = 1
    <2>1. m >= 2 => (m - 1) * P >= P
      BY <1>1
    <2> QED
      BY <1>1, <1>5, <2>1
  <1>9. len >= P => q >= 1
    <2>1. q = 0 => q * P = 0
      BY <1>1
    <2> QED
      BY <1>1, <1>2, <1>4, <2>1
  <1>10. q = m => q * P = m * P
    OBVIOUS
  <1>11. q = m - 1 => q * P = (m - 1) * P
    OBVIOUS
  <1>12. CASE q = m
    BY <1>1, <1>2, <1>3, <1>4, <1>5, <1>8, <1>10, <1>12
  <1>13. CASE q = m - 1
    <2>1. r > 0
      BY <1>1, <1>2, <1>4, <1>5, <1>11, <1>13
    <2> QED
      BY <1>1, <1>2, <1>3, <1>8, <1>13, <2>1
  <1> QED
    BY <1>2, <1>6, <1>7, <1>12, <1>13

LEMMA EmptyFile ==
  /\ <<>> \in File /\ Len(<<>>) = 0
  /\ \A g \in File : Len(g) \in Nat /\ (g = <<>> <=> Len(g) = 0)
  BY DEF File

LEMMA BytesTyped == \A v, n \in Nat : Bytes(v, n) \in File
  BY DEF Bytes, File, Byte

LEMMA Appended ==
  ASSUME NEW l \in Seq(Message), NEW m \in Message
  PROVE  /\ Append(l, m) \in Seq(Message) /\ Append(l, m) # <<>>
         /\ Len(Append(l, m)) = Len(l) + 1 /\ Append(l, m)[Len(Append(l, m))] = m
         /\ \A k \in DOMAIN l : k \in DOMAIN Append(l, m) /\ Append(l, m)[k] = l[k]
         /\ \A k \in DOMAIN Append(l, m) : k \in DOMAIN l \/ Append(l, m)[k] = m
  OBVIOUS

LEMMA PieceOf ==
  ASSUME NEW v \in File, NEW a \in Nat, NEW b \in Nat, a <= b, b <= Len(v)
  PROVE  SubSeq(v, a + 1, b) \in File /\ Len(SubSeq(v, a + 1, b)) = b - a /\ LiesIn(SubSeq(v, a + 1, b), v, a)
  BY DEF File, LiesIn

\* What lies in a file lies where the file lies in another one.
LEMMA LiesWithin ==
  ASSUME NEW g \in File, NEW h \in File, NEW v \in File, NEW a \in Nat, NEW c \in Nat,
         LiesIn(g, h, a), LiesIn(h, v, c)
  PROVE  LiesIn(g, v, c + a)
  <1>1. Len(g) \in Nat /\ Len(h) \in Nat /\ Len(v) \in Nat
    BY EmptyFile
  <1>2. a + Len(g) <= Len(h) /\ c + Len(h) <= Len(v)
    BY DEF LiesIn
  <1>3. ASSUME NEW i \in 1 .. Len(g) PROVE g[i] = v[c + a + i]
    <2>1. g[i] = h[a + i] /\ a + i \in 1 .. Len(h)
      BY <1>1, <1>2 DEF LiesIn
    <2>2. h[a + i] = v[c + (a + i)] /\ c + (a + i) = c + a + i
      BY <1>1, <2>1 DEF LiesIn
    <2> QED
      BY <2>1, <2>2
  <1>4. c + a + Len(g) <= Len(v)
    BY <1>1, <1>2
  <1> QED
    BY <1>3, <1>4 DEF LiesIn

LEMMA SamePiece ==
  ASSUME NEW v \in File, NEW c \in Nat, NEW g \in File, NEW h \in File,
         LiesIn(g, v, c), LiesIn(h, v, c), Len(g) = Len(h)
  PROVE  g = h
  <1>1. \A i \in 1 .. Len(g) : g[i] = h[i]
    BY DEF LiesIn
  <1> QED
    BY <1>1 DEF File

\* Two pieces of a file that follow each other.
LEMMA LiesJoined ==
  ASSUME NEW v \in File, NEW c \in Nat, NEW g \in File, NEW h \in File,
         LiesIn(g, v, c), LiesIn(h, v, c + Len(g))
  PROVE  g \o h \in File /\ Len(g \o h) = Len(g) + Len(h) /\ LiesIn(g \o h, v, c)
  <1>1. Len(g) \in Nat /\ Len(h) \in Nat /\ Len(v) \in Nat
    BY EmptyFile
  <1> DEFINE all == g \o h
  <1>2. /\ all \in File /\ Len(all) = Len(g) + Len(h)
        /\ \A i \in 1 .. Len(all) : all[i] = IF i <= Len(g) THEN g[i] ELSE h[i - Len(g)]
    BY DEF File
  <1> HIDE DEF all
  <1>3. ASSUME NEW i \in 1 .. Len(all) PROVE all[i] = v[c + i]
    <2>1. CASE i <= Len(g)
      BY <1>1, <1>2, <2>1 DEF LiesIn
    <2>2. CASE i > Len(g)
      <3>1. i - Len(g) \in 1 .. Len(h) /\ all[i] = h[i - Len(g)] /\ c + Len(g) + (i - Len(g)) = c + i
        BY <1>1, <1>2, <2>2
      <3> QED
        BY <3>1 DEF LiesIn
    <2> QED
      BY <1>1, <1>2, <2>1, <2>2
  <1>4. c + Len(all) <= Len(v)
    BY <1>1, <1>2 DEF LiesIn
  <1> QED
    BY <1>2, <1>3, <1>4 DEF all, LiesIn

\* What fread reads of a file with these bytes, what it returns and what it keeps of all it has.
Refill(data, ahead, off) ==
  IF Len(ahead) >= PackageSize THEN <<>> ELSE SubSeq(data, off + 1, Least(Len(data), off + StdioSize))
AllOf(data, ahead, off) == ahead \o Refill(data, ahead, off)
FirstOf(all) == SubSeq(all, 1, Least(Len(all), PackageSize))
RestOf(all) == SubSeq(all, PackageSize + 1, Len(all))

\* All that fread has lies behind the c bytes read before, and is less than a package only at the end.
Filled(v, ahead, off, c) ==
  /\ Refill(v, ahead, off) \in File /\ AllOf(v, ahead, off) \in File
  /\ off + Len(Refill(v, ahead, off)) = c + Len(AllOf(v, ahead, off))
  /\ LiesIn(AllOf(v, ahead, off), v, c)
  /\ Len(AllOf(v, ahead, off)) < PackageSize => c + Len(AllOf(v, ahead, off)) = Len(v)

\* fread fills its buffer when it holds less than a package, with what the file has (Read).
LEMMA ReadAhead ==
  ASSUME NEW v \in File, NEW ahead \in File, NEW c \in Nat, LiesIn(ahead, v, c), NEW off, off = c + Len(ahead)
  PROVE  Filled(v, ahead, off, c)
  <1>1. PackageSize \in Nat /\ PackageSize > 0 /\ StdioSize \in Nat /\ StdioSize >= PackageSize
    BY TransferAssumption
  <1>2. Len(v) \in Nat /\ Len(ahead) \in Nat /\ off \in Nat /\ off <= Len(v)
    BY EmptyFile DEF LiesIn
  <1> DEFINE b == Least(Len(v), off + StdioSize)
             some == SubSeq(v, off + 1, b)
             more == Refill(v, ahead, off)
  <1>3. b \in Nat /\ off <= b /\ b <= Len(v) /\ (b = Len(v) \/ b = off + StdioSize)
    BY <1>1, <1>2 DEF Least
  <1>4. more = IF Len(ahead) >= PackageSize THEN <<>> ELSE some
    BY DEF Refill
  <1> HIDE DEF b, more
  <1>5. some \in File /\ Len(some) = b - off /\ LiesIn(some, v, off)
    BY <1>2, <1>3, PieceOf
  <1> HIDE DEF some
  <1>6. LiesIn(<<>>, v, off)
    BY <1>2, EmptyFile DEF LiesIn
  <1>7. /\ more \in File /\ LiesIn(more, v, off) /\ Len(more) \in Nat
        /\ Len(ahead) >= PackageSize => Len(more) = 0
        /\ Len(ahead) < PackageSize => Len(more) = b - off
    <2>1. CASE Len(ahead) >= PackageSize
      <3>1. more = <<>>
        BY <1>4, <2>1
      <3> QED
        BY <1>1, <1>2, <1>6, <2>1, <3>1, EmptyFile
    <2>2. CASE ~(Len(ahead) >= PackageSize)
      <3>1. more = some
        BY <1>4, <2>2
      <3> QED
        BY <1>1, <1>2, <1>3, <1>5, <2>2, <3>1
    <2> QED
      BY <2>1, <2>2
  <1> DEFINE all == AllOf(v, ahead, off)
  <1>8. all \in File /\ Len(all) = Len(ahead) + Len(more) /\ LiesIn(all, v, c)
    <2>1. ahead \o more \in File /\ Len(ahead \o more) = Len(ahead) + Len(more) /\ LiesIn(ahead \o more, v, c)
      BY <1>7, LiesJoined
    <2> QED
      BY <2>1 DEF AllOf, more
  <1> HIDE DEF all
  <1>9. off + Len(more) = c + Len(all) /\ (Len(all) < PackageSize => c + Len(all) = Len(v))
    <2>1. PICK l, m, n, h \in Nat : l = Len(all) /\ m = Len(more) /\ n = Len(v) /\ h = Len(ahead)
      BY <1>2, <1>7, <1>8, EmptyFile
    <2>2. l = h + m /\ off = c + h
      BY <1>8, <2>1
    <2>3. h >= PackageSize \/ m = b - off
      BY <1>1, <1>7, <2>1
    <2>4. b = n \/ b = off + StdioSize
      BY <1>3, <2>1
    <2>5. off + m = c + l /\ (l < PackageSize => c + l = n)
      BY <1>1, <1>3, <2>2, <2>3, <2>4
    <2> QED
      BY <2>1, <2>5
  <1> QED
    BY <1>7, <1>8, <1>9 DEF more, all, Filled

\* The package, the bytes read ahead and the end of the file, if c bytes were read of a file that
\* holds v and the buffer of fread has the bytes "all" behind them (Read).
LEMMA PackageIs ==
  ASSUME NEW v \in File, NEW all \in File, NEW c \in Nat, LiesIn(all, v, c),
         Len(all) < PackageSize => c + Len(all) = Len(v)
  PROVE  /\ Len(all) < PackageSize <=> c + PackageSize > Len(v)
         /\ FirstOf(all) = SubSeq(v, c + 1, Least(Len(v), c + PackageSize))
         /\ FirstOf(all) = <<>> <=> c = Len(v)
         /\ c + Len(all) = Least(Len(v), c + PackageSize) + Len(RestOf(all))
         /\ LiesIn(RestOf(all), v, Least(Len(v), c + PackageSize))
  <1> DEFINE got == FirstOf(all)
             rest == RestOf(all)
             b == Least(Len(all), PackageSize)
             e == Least(Len(v), c + PackageSize)
             g == SubSeq(v, c + 1, e)
  <1>1. PackageSize \in Nat /\ PackageSize > 0
    BY TransferAssumption
  <1>2. Len(v) \in Nat /\ Len(all) \in Nat /\ c + Len(all) <= Len(v)
    BY EmptyFile DEF LiesIn
  <1>3. Len(all) < PackageSize <=> c + PackageSize > Len(v)
    BY <1>1, <1>2
  <1>4. b \in Nat /\ b <= Len(all) /\ e \in Nat /\ e = c + b /\ e <= Len(v) /\ (b = 0 <=> c = Len(v))
    BY <1>1, <1>2, <1>3 DEF Least
  <1>5. Len(all) < PackageSize => b = Len(all)
    BY <1>1, <1>2 DEF Least
  <1>6. Len(all) >= PackageSize => b = PackageSize
    BY <1>1, <1>2 DEF Least
  <1>7. 1 = 0 + 1 /\ 0 \in Nat
    OBVIOUS
  <1> HIDE DEF b, e, got, rest
  <1>8. got \in File /\ Len(got) = b /\ LiesIn(got, v, c)
    <2>1. SubSeq(all, 0 + 1, b) \in File /\ Len(SubSeq(all, 0 + 1, b)) = b - 0 /\ LiesIn(SubSeq(all, 0 + 1, b), all, 0)
      <3>1. 0 <= b
        BY <1>4
      <3> QED
        BY <1>4, <1>7, <3>1, PieceOf
    <2>2. got \in File /\ Len(got) = b /\ LiesIn(got, all, 0)
      BY <1>4, <1>7, <2>1 DEF got, FirstOf, b
    <2>3. LiesIn(got, v, c + 0) /\ c + 0 = c
      BY <1>7, <2>2, LiesWithin
    <2> QED
      BY <2>2, <2>3
  <1>9. g \in File /\ Len(g) = b /\ LiesIn(g, v, c)
    <2>1. c <= e /\ e - c = b
      BY <1>4
    <2> QED
      BY <1>4, <2>1, PieceOf
  <1> HIDE DEF g
  <1>10. got = g
    BY <1>8, <1>9, SamePiece
  <1>11. got = <<>> <=> c = Len(v)
    BY <1>4, <1>8, EmptyFile
  <1>12. rest \in File /\ c + Len(all) = e + Len(rest) /\ LiesIn(rest, v, e)
    <2>1. CASE Len(all) < PackageSize
      <3>1. rest = <<>>
        BY <1>1, <1>2, <2>1 DEF File, rest, RestOf
      <3>2. rest \in File /\ Len(rest) = 0
        BY <3>1, EmptyFile
      <3> QED
        BY <1>2, <1>4, <1>5, <2>1, <3>2 DEF LiesIn
    <2>2. CASE Len(all) >= PackageSize
      <3>1. rest \in File /\ Len(rest) = Len(all) - PackageSize /\ LiesIn(rest, all, PackageSize)
        BY <1>1, <1>2, <2>2, PieceOf DEF rest, RestOf
      <3>2. LiesIn(rest, v, c + PackageSize)
        BY <1>1, <3>1, LiesWithin
      <3>3. e = c + PackageSize
        BY <1>4, <1>6, <2>2
      <3> QED
        BY <1>1, <1>2, <3>1, <3>2, <3>3
    <2> QED
      BY <1>1, <1>2, <2>1, <2>2
  <1> QED
    BY <1>3, <1>8, <1>10, <1>11, <1>12 DEF g, e, got, rest

--------------------------------------------------------------------------------
(* Messages *)

LEMMA MessagesAre ==
  /\ \A v, z \in Nat, c \in Int :
       FLST(v, z, c) \in Message /\ FLST(v, z, c).kind = "FLST" /\ FLST(v, z, c).serial = v
  /\ \A v, n \in Nat, d \in File :
       FLDA(v, n, d) \in Message /\ FLDA(v, n, d).kind = "FLDA" /\ FLDA(v, n, d).serial = v
  /\ \A v \in Nat : FLFI(v) \in Message /\ FLFI(v).kind = "FLFI" /\ FLFI(v).serial = v
  /\ FLER \in Message /\ FLER.kind = "FLER"
  BY DEF Message, FLST, FLDA, FLFI, FLER

\* A message that is not an end leaves the receiver without one.
LEMMA AppendOther ==
  ASSUME Typed, Known, NEW m \in Message, m.kind # "FLFI",
         m.kind # "FLER" => m.serial \in DOMAIN versions,
         logs' = Append(logs, m), versions' = versions
  PROVE  logs' \in Seq(Message) /\ Known' /\ Clean' /\ VersionReceived'
  <1>1. logs \in Seq(Message)
    BY DEF Typed
  <1>2. logs' \in Seq(Message) /\ Len(logs') = Len(logs) + 1 /\ logs'[Len(logs')] = m
    BY <1>1
  <1>3. Known'
    <2>1. ASSUME NEW k \in DOMAIN logs', logs'[k].kind # "FLER" PROVE logs'[k].serial \in DOMAIN versions
      <3>1. CASE k \in DOMAIN logs
        BY <1>1, <2>1, <3>1 DEF Known
      <3>2. CASE k \notin DOMAIN logs
        <4>1. logs'[k] = m
          BY <1>1, <2>1, <3>2
        <4> QED
          BY <2>1, <4>1
      <3> QED
        BY <3>1, <3>2
    <2> QED
      BY <2>1 DEF Known
  <1>4. logs'[Len(logs')].kind # "FLFI"
    BY <1>2
  <1> QED
    BY <1>2, <1>3, <1>4 DEF Clean, VersionReceived, SameVersion

\* What a receiver has stays a version of the file when versions are added.
LEMMA ReceivedStays ==
  ASSUME Typed, Known, Clean, VersionReceived, logs' = logs,
         versions' \in Seq(File), Len(versions) <= Len(versions'),
         \A i \in DOMAIN versions : versions'[i] = versions[i]
  PROVE  Known' /\ Clean' /\ VersionReceived'
  <1>1. versions \in Seq(File) /\ logs \in Seq(Message)
    BY DEF Typed
  <1>2. DOMAIN versions \subseteq DOMAIN versions'
    BY <1>1
  <1>3. Known' /\ Clean'
    BY <1>2 DEF Known, Clean
  <1>4. ASSUME SameVersion PROVE VersionReceived'
    <2>1. 1 \in DOMAIN logs
      BY <1>1, <1>4 DEF SameVersion
    <2>2. logs[1].serial \in DOMAIN versions
      BY <1>4, <2>1 DEF SameVersion, Clean, Known
    <2>3. versions'[logs[1].serial] = versions[logs[1].serial]
      BY <2>2
    <2> QED
      BY <1>4, <2>3 DEF VersionReceived, IsVersion
  <1>5. SameVersion' <=> SameVersion
    BY DEF SameVersion
  <1> QED
    BY <1>3, <1>4, <1>5 DEF VersionReceived, IsVersion

--------------------------------------------------------------------------------
(* Steps *)

\* A call that ends without success.
LEMMA EndedStep ==
  ASSUME XferInv, UNCHANGED <<nodes, path, versions>>, xfer' \in Call, xfer'.pc = "done", xfer'.ret # "ok",
         logs' \in Seq(Message), Known', Clean', VersionReceived'
  PROVE  XferInv'
  <1>1. Typed'
    BY DEF XferInv, Typed
  <1>2. Versioned' /\ Logged' /\ Unread' /\ Proceeds'
    BY DEF XferInv, Versioned, Logged, Unread, Proceeds
  <1> QED
    BY <1>1, <1>2 DEF XferInv

Failures == {"complete", "header", "data", "buffer", "serial", "cancelled", "end", "remove"}

LEMMA ReturnsStep ==
  ASSUME XferInv, UNCHANGED <<nodes, path, versions, logs>>, NEW ret \in Failures, Returns(ret)
  PROVE  XferInv'
  <1>1. xfer \in Call /\ versions \in Seq(File) /\ logs \in Seq(Message)
    BY DEF XferInv, Typed
  <1>2. xfer' \in Call /\ xfer'.pc = "done" /\ xfer'.ret # "ok"
    BY <1>1 DEF Returns, Call, Failures
  <1>3. Known' /\ Clean' /\ VersionReceived'
    BY <1>1, ReceivedStays DEF XferInv
  <1> QED
    BY <1>1, <1>2, <1>3, EndedStep

LEMMA FailsStep ==
  ASSUME XferInv, UNCHANGED <<nodes, path, versions>>, NEW ret \in Failures, Fails(ret)
  PROVE  XferInv'
  <1>1. xfer \in Call
    BY DEF XferInv, Typed
  <1>2. xfer' \in Call /\ xfer'.pc = "done" /\ xfer'.ret # "ok"
    BY <1>1 DEF Fails, Returns, Call, Failures
  <1>3. logs' \in Seq(Message) /\ Known' /\ Clean' /\ VersionReceived'
    BY MessagesAre, AppendOther DEF XferInv, Fails
  <1> QED
    BY <1>2, <1>3, EndedStep

\* The path leads to a version of the file.
LEMMA SerialIs ==
  ASSUME XferInv, isFile
  PROVE  /\ getFileSerialNumber = nodes[path].ver /\ getFileSerialNumber \in DOMAIN versions
         /\ getFileSerialNumber \in Nat /\ getFileSerialNumber # NoSerial
         /\ getFilesize = Len(versions[getFileSerialNumber]) /\ getFilesize \in Nat
         /\ path \in DOMAIN nodes /\ nodes[path].data = versions[getFileSerialNumber]
         /\ versions[getFileSerialNumber] \in File
  <1>1. nodes \in Seq([data : File, ver : Nat]) /\ path \in 0 .. Len(nodes) /\ versions \in Seq(File)
    BY DEF XferInv, Typed
  <1>2. path \in DOMAIN nodes
    BY <1>1 DEF isFile
  <1>3. nodes[path].ver \in DOMAIN versions /\ nodes[path].data = versions[nodes[path].ver] /\ nodes[path].ver \in Nat
    BY <1>1, <1>2 DEF XferInv, Versioned
  <1>4. versions[nodes[path].ver] \in File
    BY <1>1, <1>3
  <1>5. nodes[path].ver # 0
    BY <1>1, <1>3
  <1>6. getFileSerialNumber = nodes[path].ver /\ getFilesize = Len(nodes[path].data)
    BY DEF isFile, getFileSerialNumber, getFilesize
  <1> QED
    BY <1>2, <1>3, <1>4, <1>5, <1>6, EmptyFile DEF NoSerial

LEMMA StartStep == XferInv /\ dlt_user_log_file_complete => XferInv'
  <1> SUFFICES ASSUME XferInv, dlt_user_log_file_complete PROVE XferInv'
    OBVIOUS
  <1>1. UNCHANGED <<nodes, path, versions>> /\ xfer.pc = "start"
    BY DEF dlt_user_log_file_complete, envvars
  <1>2. CASE ~isFile
    <2>1. Fails("complete") /\ "complete" \in Failures
      BY <1>2 DEF dlt_user_log_file_complete, Failures
    <2> QED
      BY <1>1, <2>1, FailsStep
  <1>3. CASE isFile
    <2>1. xfer' = [xfer EXCEPT !.pc = "serial"] /\ logs' = logs
      BY <1>3 DEF dlt_user_log_file_complete
    <2>2. xfer \in Call
      BY DEF XferInv, Typed
    <2>3. /\ xfer' \in Call /\ xfer'.pc = "serial" /\ xfer'.ret = xfer.ret
          /\ xfer'.off = xfer.off /\ xfer'.ahead = xfer.ahead /\ xfer'.n = xfer.n /\ xfer'.eof = xfer.eof
      BY <2>1, <2>2 DEF Call
    <2>4. Typed'
      BY <1>1, <2>1, <2>3 DEF XferInv, Typed
    <2>5. Known' /\ Clean' /\ VersionReceived'
      BY <1>1, <2>1, ReceivedStays DEF XferInv, Typed
    <2>6. Versioned' /\ Logged' /\ Unread' /\ Proceeds'
      BY <1>1, <2>1, <2>3 DEF XferInv, Versioned, Logged, Unread, Proceeds
    <2> QED
      BY <2>4, <2>5, <2>6 DEF XferInv
  <1> QED
    BY <1>2, <1>3

\* A step of the call that logs nothing.
LEMMA MovesStep ==
  ASSUME XferInv, UNCHANGED <<nodes, path, versions, logs>>, xfer' \in Call
  PROVE  Typed' /\ Known' /\ Clean' /\ VersionReceived'
  <1>1. Typed'
    BY DEF XferInv, Typed
  <1>2. Known' /\ Clean' /\ VersionReceived'
    BY ReceivedStays DEF XferInv, Typed
  <1> QED
    BY <1>1, <1>2

LEMMA CountIs == ASSUME XferInv PROVE dlt_user_log_file_packagesCount \in Int
  <1>1. PackageSize \in Nat \ {0}
    BY TransferAssumption
  <1>2. CASE isFile
    <2>1. getFilesize \in Nat
      BY <1>2, SerialIs
    <2>2. getFilesize \div PackageSize \in Nat
      BY <1>1, <2>1
    <2>3. PackagesOf(getFilesize) \in Int
      BY <2>2 DEF PackagesOf
    <2> QED
      BY <1>2, <2>3 DEF dlt_user_log_file_packagesCount
  <1>3. CASE ~isFile
    BY <1>3 DEF dlt_user_log_file_packagesCount
  <1> QED
    BY <1>2, <1>3

LEMMA HeaderStep == XferInv /\ dlt_user_log_file_header => XferInv'
  <1> SUFFICES ASSUME XferInv, dlt_user_log_file_header PROVE XferInv'
    OBVIOUS
  <1>1. UNCHANGED <<nodes, path, versions>>
    BY DEF dlt_user_log_file_header, envvars
  <1>2. xfer \in Call /\ logs \in Seq(Message) /\ versions \in Seq(File)
    BY DEF XferInv, Typed
  <1>3. CASE xfer.pc = "serial" /\ ~isFile
    <2>1. Fails("header") /\ "header" \in Failures
      BY <1>3 DEF dlt_user_log_file_header, Failures
    <2> QED
      BY <1>1, <2>1, FailsStep
  <1>4. CASE xfer.pc = "serial" /\ isFile
    <2>1. xfer' = [xfer EXCEPT !.pc = "size", !.serial = getFileSerialNumber] /\ logs' = logs
      BY <1>4 DEF dlt_user_log_file_header
    <2>2. getFileSerialNumber \in Nat /\ getFileSerialNumber \in DOMAIN versions
      BY <1>4, SerialIs
    <2>3. /\ xfer' \in Call /\ xfer'.pc = "size" /\ xfer'.ret = xfer.ret /\ xfer'.serial \in DOMAIN versions
          /\ xfer'.off = xfer.off /\ xfer'.ahead = xfer.ahead /\ xfer'.n = xfer.n /\ xfer'.eof = xfer.eof
      BY <1>2, <2>1, <2>2 DEF Call
    <2>4. Typed' /\ Known' /\ Clean' /\ VersionReceived'
      BY <1>1, <2>1, <2>3, MovesStep
    <2>5. Versioned' /\ Logged' /\ Unread' /\ Proceeds'
      BY <1>1, <1>4, <2>1, <2>3 DEF XferInv, Versioned, Logged, Unread, Proceeds
    <2> QED
      BY <2>4, <2>5 DEF XferInv
  <1>5. CASE xfer.pc = "size"
    <2>1. xfer' = [xfer EXCEPT !.pc = "count", !.size = getFilesize] /\ logs' = logs
      BY <1>5 DEF dlt_user_log_file_header
    <2>2. getFilesize \in Nat
      <3>1. CASE isFile
        BY <3>1, SerialIs
      <3>2. CASE ~isFile
        BY <3>2 DEF getFilesize, isFile
      <3> QED
        BY <3>1, <3>2
    <2>3. /\ xfer' \in Call /\ xfer'.pc = "count" /\ xfer'.ret = xfer.ret /\ xfer'.serial = xfer.serial
          /\ xfer'.size = getFilesize
          /\ xfer'.off = xfer.off /\ xfer'.ahead = xfer.ahead /\ xfer'.n = xfer.n /\ xfer'.eof = xfer.eof
      BY <1>2, <2>1, <2>2 DEF Call
    <2>4. Typed' /\ Known' /\ Clean' /\ VersionReceived'
      BY <1>1, <2>1, <2>3, MovesStep
    <2>5. Versioned' /\ Logged' /\ Unread'
      BY <1>1, <1>5, <2>1, <2>3 DEF XferInv, Versioned, Logged, Unread
    <2>6. ASSUME Current' PROVE xfer'.size = Len(Original')
      <3>1. isFile /\ nodes[path].ver = xfer.serial
        BY <1>1, <2>3, <2>6 DEF Current, isFile
      <3>2. getFilesize = Len(versions[xfer.serial])
        BY <3>1, SerialIs
      <3> QED
        BY <1>1, <2>3, <3>2 DEF Original
    <2>7. Proceeds'
      BY <2>3, <2>6 DEF Proceeds
    <2> QED
      BY <2>4, <2>5, <2>7 DEF XferInv
  <1>6. CASE xfer.pc = "count"
    <2> DEFINE m == FLST(xfer.serial, xfer.size, dlt_user_log_file_packagesCount)
    <2>1. logs' = Append(logs, m) /\ xfer' = [xfer EXCEPT !.pc = "open"] /\ logs = <<>>
      BY <1>6 DEF dlt_user_log_file_header, XferInv, Logged
    <2>2. xfer.serial \in Nat /\ xfer.size \in Nat /\ xfer.serial \in DOMAIN versions
      BY <1>2, <1>6 DEF Call, XferInv, Versioned
    <2>3. m \in Message /\ m.kind = "FLST" /\ m.serial = xfer.serial
      BY <2>2, CountIs, MessagesAre
    <2>4. /\ xfer' \in Call /\ xfer'.pc = "open" /\ xfer'.ret = xfer.ret /\ xfer'.serial = xfer.serial
          /\ xfer'.off = xfer.off /\ xfer'.ahead = xfer.ahead /\ xfer'.n = xfer.n /\ xfer'.eof = xfer.eof
      BY <1>2, <2>1 DEF Call
    <2>5. ASSUME Current' PROVE m = FLST(xfer.serial, Len(Original), PackagesOf(Len(Original)))
      <3>1. isFile /\ nodes[path].ver = xfer.serial /\ Current
        BY <1>1, <2>4, <2>5 DEF Current, isFile
      <3>2. getFilesize = Len(Original)
        BY <3>1, SerialIs DEF Original
      <3>3. xfer.size = Len(Original)
        BY <1>6, <3>1 DEF XferInv, Proceeds
      <3> QED
        BY <3>1, <3>2, <3>3 DEF dlt_user_log_file_packagesCount
    <2> HIDE DEF m
    <2>6. logs' \in Seq(Message) /\ Known' /\ Clean' /\ VersionReceived'
      BY <1>1, <2>1, <2>2, <2>3, AppendOther DEF XferInv
    <2>7. Typed'
      BY <1>1, <2>4, <2>6 DEF XferInv, Typed
    <2>8. Len(logs') = 1 /\ logs'[1] = m /\ DOMAIN logs' = {1} /\ logs' # <<>>
      BY <2>1
    <2>9. Versioned' /\ Logged' /\ Unread'
      BY <1>1, <1>6, <2>2, <2>3, <2>4, <2>8 DEF XferInv, Versioned, Logged, Unread
    <2>10. Proceeds'
      <3>1. Original' = Original
        BY <1>1, <2>4 DEF Original
      <3>2. ASSUME Current' PROVE Begun(0)'
        BY <2>4, <2>5, <2>8, <3>1, <3>2 DEF Begun
      <3> QED
        BY <2>4, <3>2 DEF Proceeds
    <2> QED
      BY <2>6, <2>7, <2>9, <2>10 DEF XferInv
  <1> QED
    BY <1>3, <1>4, <1>5, <1>6 DEF dlt_user_log_file_header

LEMMA OpenStep == XferInv /\ OpenData => XferInv'
  <1> SUFFICES ASSUME XferInv, OpenData PROVE XferInv'
    OBVIOUS
  <1>1. UNCHANGED <<nodes, path, versions>> /\ xfer.pc = "open"
    BY DEF OpenData, envvars
  <1>2. CASE ~isFile
    <2>1. Fails("data") /\ "data" \in Failures
      BY <1>2 DEF OpenData, Failures
    <2> QED
      BY <1>1, <2>1, FailsStep
  <1>3. CASE isFile
    <2>1. xfer' = [xfer EXCEPT !.pc = "loop", !.node = path, !.open = TRUE] /\ logs' = logs
      BY <1>3 DEF OpenData
    <2>2. xfer \in Call /\ versions \in Seq(File)
      BY DEF XferInv, Typed
    <2>3. path \in DOMAIN nodes /\ path \in Nat
      BY <1>3, SerialIs DEF XferInv, Typed
    <2>4. /\ xfer' \in Call /\ xfer'.pc = "loop" /\ xfer'.ret = xfer.ret /\ xfer'.serial = xfer.serial
          /\ xfer'.node = path
          /\ xfer'.off = xfer.off /\ xfer'.ahead = xfer.ahead /\ xfer'.n = xfer.n /\ xfer'.eof = xfer.eof
      BY <2>1, <2>2, <2>3 DEF Call
    <2>5. Typed' /\ Known' /\ Clean' /\ VersionReceived'
      BY <1>1, <2>1, <2>4, MovesStep
    <2>6. Versioned' /\ Logged' /\ Unread'
      BY <1>1, <2>1, <2>3, <2>4 DEF XferInv, Versioned, Logged, Unread
    <2>7. Original' = Original
      BY <1>1, <2>4 DEF Original
    <2>8. ASSUME Current' PROVE Begun(0)' /\ Position(0)'
      <3>1. Current
        BY <1>1, <2>4, <2>8 DEF Current
      <3>2. Begun(0)
        BY <1>1, <3>1 DEF XferInv, Proceeds
      <3>3. Original \in File /\ Len(Original) \in Nat
        BY <1>3, <3>1, SerialIs, EmptyFile DEF Current, Original
      <3>4. 0 * PackageSize = 0 /\ Least(Len(Original), 0) = 0
        BY <3>3, TransferAssumption DEF Least
      <3>5. xfer.off = 0 /\ xfer.ahead = <<>> /\ xfer.n = 0 /\ ~xfer.eof
        BY <1>1 DEF XferInv, Unread
      <3>6. LiesIn(<<>>, Original, 0)
        BY <3>3, EmptyFile DEF LiesIn
      <3>7. Begun(0)'
        BY <2>1, <2>4, <2>7, <3>2 DEF Begun
      <3>8. Position(0)'
        BY <1>1, <2>4, <2>7, <3>3, <3>4, <3>5, <3>6, EmptyFile DEF Position
      <3> QED
        BY <3>7, <3>8
    <2>9. xfer'.n = 0
      BY <1>1, <2>4 DEF XferInv, Unread
    <2>10. Proceeds'
      BY <2>4, <2>8, <2>9 DEF Proceeds
    <2> QED
      BY <2>5, <2>6, <2>10 DEF XferInv
  <1> QED
    BY <1>2, <1>3

LEMMA SomePiece == \A v \in File : \A a \in Nat, b \in Nat : a >= 1 /\ b <= Len(v) => SubSeq(v, a, b) \in File
  BY DEF File

LEMMA Joined == \A g, h \in File : g \o h \in File
  BY DEF File

LEMMA PiecesTyped ==
  /\ \A all \in File : FirstOf(all) \in File /\ RestOf(all) \in File
  /\ \A data, ahead \in File : \A off \in Nat : Refill(data, ahead, off) \in File /\ AllOf(data, ahead, off) \in File
  <1>1. PackageSize \in Nat /\ PackageSize > 0 /\ StdioSize \in Nat
    BY TransferAssumption
  <1>2. ASSUME NEW all \in File PROVE FirstOf(all) \in File /\ RestOf(all) \in File
    <2> DEFINE e == Least(Len(all), PackageSize)
    <2>1. Len(all) \in Nat
      BY EmptyFile
    <2>2. /\ e \in Nat /\ e <= Len(all) /\ 1 \in Nat /\ 1 >= 1
          /\ PackageSize + 1 \in Nat /\ PackageSize + 1 >= 1 /\ Len(all) <= Len(all)
      BY <1>1, <2>1 DEF Least
    <2> HIDE DEF e
    <2>3. SubSeq(all, 1, e) \in File /\ SubSeq(all, PackageSize + 1, Len(all)) \in File
      BY <2>1, <2>2, SomePiece
    <2> QED
      BY <2>3 DEF FirstOf, RestOf, e
  <1>3. ASSUME NEW data \in File, NEW ahead \in File, NEW off \in Nat
        PROVE  Refill(data, ahead, off) \in File /\ AllOf(data, ahead, off) \in File
    <2> DEFINE b == Least(Len(data), off + StdioSize)
    <2>1. Len(data) \in Nat
      BY EmptyFile
    <2>2. b \in Nat /\ b <= Len(data) /\ off + 1 \in Nat /\ off + 1 >= 1
      BY <1>1, <2>1 DEF Least
    <2>3. Refill(data, ahead, off) = IF Len(ahead) >= PackageSize THEN <<>> ELSE SubSeq(data, off + 1, b)
      BY DEF Refill
    <2> HIDE DEF b
    <2>4. SubSeq(data, off + 1, b) \in File
      BY <2>1, <2>2, SomePiece
    <2>5. Refill(data, ahead, off) \in File
      BY <2>3, <2>4, EmptyFile
    <2> QED
      BY <2>5, Joined DEF AllOf
  <1> QED
    BY <1>2, <1>3

\* The call after fread.
Has(x, r, g, a, o, e, n) ==
  /\ x \in Call /\ x.pc = r.pc /\ x.ret = r.ret /\ x.serial = r.serial /\ x.node = r.node
  /\ x.n = n /\ x.got = g /\ x.ahead = a /\ x.off = o /\ x.eof = e

LEMMA CallReads ==
  ASSUME NEW r \in Call, NEW g \in File, NEW a \in File, NEW o \in Nat, NEW e \in BOOLEAN, NEW n \in Nat
  PROVE  Has([r EXCEPT !.got = g, !.ahead = a, !.off = o, !.eof = e, !.n = n], r, g, a, o, e, n)
  BY DEF Call, Has

\* What fread makes of the call, whatever the file is.
LEMMA FreadIs ==
  ASSUME XferInv, xfer.pc = "loop", NEW data, data = nodes[xfer.node].data
  PROVE  /\ Read \in Call /\ Read.pc = xfer.pc /\ Read.ret = xfer.ret /\ Read.serial = xfer.serial
         /\ Read.node = xfer.node /\ Read.n = xfer.n + 1
         /\ Read.got = FirstOf(AllOf(data, xfer.ahead, xfer.off))
         /\ Read.ahead = RestOf(AllOf(data, xfer.ahead, xfer.off))
         /\ Read.off = xfer.off + Len(Refill(data, xfer.ahead, xfer.off))
         /\ Read.eof <=> Len(AllOf(data, xfer.ahead, xfer.off)) < PackageSize
  <1>1. PackageSize \in Nat
    BY TransferAssumption
  <1>2. xfer \in Call /\ versions \in Seq(File)
    BY DEF XferInv, Typed
  <1>3. xfer.ahead \in File /\ xfer.off \in Nat /\ xfer.n \in Nat
    BY <1>2 DEF Call
  <1>4. data \in File
    <2>1. xfer.node \in DOMAIN nodes
      BY DEF XferInv, Versioned
    <2>2. nodes[xfer.node].ver \in DOMAIN versions /\ data = versions[nodes[xfer.node].ver]
      BY <2>1 DEF XferInv, Versioned
    <2> QED
      BY <1>2, <2>2
  <1>5. PICK more, all, g, a, o, n :
          /\ more = Refill(data, xfer.ahead, xfer.off) /\ all = AllOf(data, xfer.ahead, xfer.off)
          /\ g = FirstOf(all) /\ a = RestOf(all) /\ o = xfer.off + Len(more) /\ n = xfer.n + 1
    OBVIOUS
  <1>6. Read = [xfer EXCEPT !.got = g, !.ahead = a, !.off = o, !.eof = Len(all) < PackageSize, !.n = n]
    BY <1>5 DEF Read, FirstOf, RestOf, AllOf, Refill
  <1>7. more \in File /\ all \in File
    BY <1>3, <1>4, <1>5, PiecesTyped
  <1>8. g \in File /\ a \in File /\ Len(more) \in Nat /\ Len(all) \in Nat
    BY <1>5, <1>7, PiecesTyped, EmptyFile
  <1>9. o \in Nat /\ n \in Nat
    BY <1>3, <1>5, <1>8
  <1>10. CASE Len(all) < PackageSize
    <2>0. (Len(all) < PackageSize) = TRUE
      BY <1>10
    <2>1. Read = [xfer EXCEPT !.got = g, !.ahead = a, !.off = o, !.eof = TRUE, !.n = n]
      BY <1>6, <2>0, Zenon
    <2>2. Has([xfer EXCEPT !.got = g, !.ahead = a, !.off = o, !.eof = TRUE, !.n = n], xfer, g, a, o, TRUE, n)
      BY <1>2, <1>8, <1>9, CallReads
    <2>3. Has(Read, xfer, g, a, o, TRUE, n)
      BY <2>1, <2>2
    <2> QED
      BY <1>5, <1>10, <2>3 DEF Has
  <1>11. CASE ~(Len(all) < PackageSize)
    <2>0. (Len(all) < PackageSize) = FALSE
      BY <1>11
    <2>1. Read = [xfer EXCEPT !.got = g, !.ahead = a, !.off = o, !.eof = FALSE, !.n = n]
      BY <1>6, <2>0, Zenon
    <2>2. Has([xfer EXCEPT !.got = g, !.ahead = a, !.off = o, !.eof = FALSE, !.n = n], xfer, g, a, o, FALSE, n)
      BY <1>2, <1>8, <1>9, CallReads
    <2>3. Has(Read, xfer, g, a, o, FALSE, n)
      BY <2>1, <2>2
    <2> QED
      BY <1>5, <1>11, <2>3 DEF Has
  <1> QED
    BY <1>10, <1>11

\* The position in a file that nobody changed, before and after a package was read.
LEMMA PositionIs ==
  ASSUME XferInv, xfer.pc = "loop", Current, Position(xfer.n), ~xfer.eof
  PROVE  /\ Original \in File /\ Len(Original) \in Nat /\ xfer.n * PackageSize <= Len(Original)
         /\ Read.got = PartOf(Original, xfer.n + 1)
         /\ Read.got = <<>> <=> xfer.n * PackageSize = Len(Original)
         /\ Read.off = Least(Len(Original), (xfer.n + 1) * PackageSize) + Len(Read.ahead)
         /\ LiesIn(Read.ahead, Original, Least(Len(Original), (xfer.n + 1) * PackageSize))
         /\ Read.eof <=> (xfer.n + 1) * PackageSize > Len(Original)
  <1>1. PackageSize \in Nat /\ PackageSize > 0
    BY TransferAssumption
  <1>2. xfer \in Call
    BY DEF XferInv, Typed
  <1>3. PICK v, ahead, off, c :
          v = Original /\ ahead = xfer.ahead /\ off = xfer.off /\ c = xfer.n * PackageSize
    OBVIOUS
  <1>4. ahead \in File /\ off \in Nat /\ xfer.n \in Nat
    BY <1>2, <1>3 DEF Call
  <1>5. v \in File /\ Len(v) \in Nat /\ nodes[path].data = v
    BY <1>3, SerialIs, EmptyFile DEF Current, isFile, Original
  <1>6. c \in Nat /\ c + PackageSize = (xfer.n + 1) * PackageSize /\ xfer.n + 1 - 1 = xfer.n
    BY <1>1, <1>3, <1>4
  <1>7. c <= Len(v)
    BY <1>3, <1>5, <1>6 DEF Position
  <1>8. Least(Len(v), c) = c
    BY <1>5, <1>6, <1>7 DEF Least
  <1>9. off = c + Len(ahead) /\ LiesIn(ahead, v, c) /\ xfer.node = path
    BY <1>3, <1>8 DEF Position
  <1> DEFINE more == Refill(v, ahead, off)
             all == AllOf(v, ahead, off)
  <1>10. /\ Read.got = FirstOf(all) /\ Read.ahead = RestOf(all)
         /\ Read.off = off + Len(more) /\ (Read.eof <=> Len(all) < PackageSize)
    BY <1>3, <1>5, <1>9, FreadIs
  <1>11. /\ all \in File /\ off + Len(more) = c + Len(all) /\ LiesIn(all, v, c)
         /\ Len(all) < PackageSize => c + Len(all) = Len(v)
    <2>1. Filled(v, ahead, off, c)
      BY <1>4, <1>5, <1>6, <1>9, ReadAhead
    <2> QED
      BY <2>1 DEF Filled
  <1> HIDE DEF more, all
  <1>12. /\ Len(all) < PackageSize <=> c + PackageSize > Len(v)
         /\ FirstOf(all) = SubSeq(v, c + 1, Least(Len(v), c + PackageSize))
         /\ FirstOf(all) = <<>> <=> c = Len(v)
         /\ c + Len(all) = Least(Len(v), c + PackageSize) + Len(RestOf(all))
         /\ LiesIn(RestOf(all), v, Least(Len(v), c + PackageSize))
    BY <1>5, <1>6, <1>11, PackageIs
  <1>13. Read.got = PartOf(Original, xfer.n + 1)
    <2>1. ((xfer.n + 1) - 1) * PackageSize = c
      BY <1>3, <1>4, <1>6
    <2>2. PartOf(v, xfer.n + 1) = SubSeq(v, c + 1, Least(Len(v), c + PackageSize))
      BY <1>6, <2>1, Zenon DEF PartOf
    <2> QED
      BY <1>3, <1>10, <1>12, <2>2, Zenon
  <1> QED
    BY <1>3, <1>5, <1>6, <1>7, <1>10, <1>11, <1>12, <1>13

\* What was logged is what was logged before, as far as the file and the messages did not change.
LEMMA BegunSame ==
  ASSUME logs' = logs, Original' = Original, xfer'.serial = xfer.serial, NEW n \in Nat, Begun(n)
  PROVE  Begun(n)'
  BY DEF Begun

LEMMA ReadStep == XferInv /\ ReadPackage => XferInv'
  <1> SUFFICES ASSUME XferInv, ReadPackage PROVE XferInv'
    OBVIOUS
  <1>1. UNCHANGED <<nodes, path, versions, logs>> /\ xfer.pc = "loop"
    BY DEF ReadPackage, envvars
  <1>2. xfer \in Call
    BY DEF XferInv, Typed
  <1>3. PICK n \in Nat : n = xfer.n
    BY <1>2 DEF Call
  <1>4. PackageSize \in Nat /\ n * PackageSize \in Nat
    BY <1>3, TransferAssumption
  <1>5. ASSUME Current, Alike
        PROVE  /\ Begun(n) /\ Position(n) /\ (n > 0 => (n - 1) * PackageSize < Len(Original))
               /\ Len(Original) \in Nat
    <2>1. Begun(n) /\ Position(n) /\ (n > 0 => (n - 1) * PackageSize < Len(Original))
      BY <1>1, <1>3, <1>5 DEF XferInv, Proceeds
    <2>2. Len(Original) \in Nat
      BY <1>5, SerialIs, EmptyFile DEF Current, isFile, Original
    <2> QED
      BY <2>1, <2>2
  <1>6. CASE xfer.eof
    <2>1. xfer' = [xfer EXCEPT !.pc = "end"]
      BY <1>6 DEF ReadPackage
    <2>2. /\ xfer' \in Call /\ xfer'.pc = "end" /\ xfer'.ret = xfer.ret /\ xfer'.serial = xfer.serial
          /\ xfer'.node = xfer.node
      BY <1>2, <2>1 DEF Call
    <2>3. Typed' /\ Known' /\ Clean' /\ VersionReceived'
      BY <1>1, <2>2, MovesStep
    <2>4. Versioned' /\ Logged' /\ Unread'
      BY <1>1, <2>2 DEF XferInv, Versioned, Logged, Unread
    <2>5. Original' = Original
      BY <1>1, <2>2 DEF Original
    <2>6. ASSUME Current', Alike'
          PROVE  /\ Begun(n)' /\ Len(Original') <= n * PackageSize
                 /\ n > 0 => (n - 1) * PackageSize < Len(Original')
      <3>1. Current /\ Alike
        BY <1>1, <2>2, <2>6 DEF Current, Alike
      <3>2. n * PackageSize > Len(Original)
        BY <1>5, <1>6, <3>1 DEF Position
      <3>3. Begun(n)'
        BY <1>1, <1>5, <2>2, <2>5, <3>1, BegunSame
      <3> QED
        BY <1>4, <1>5, <2>5, <3>1, <3>2, <3>3
    <2>7. Proceeds'
      BY <2>2, <2>6 DEF Proceeds
    <2> QED
      BY <2>3, <2>4, <2>7 DEF XferInv
  <1>7. CASE ~xfer.eof /\ ~half
    <2>1. Returns("buffer") /\ "buffer" \in Failures
      BY <1>7 DEF ReadPackage, checkUserBufferForFreeSpace, Failures
    <2> QED
      BY <1>1, <2>1, ReturnsStep
  <1>8. CASE ~xfer.eof /\ half
    <2>1. xfer' = AfterRead(Read)
      BY <1>8 DEF ReadPackage, checkUserBufferForFreeSpace
    <2>2. /\ Read \in Call /\ Read.ret = xfer.ret /\ Read.serial = xfer.serial
          /\ Read.node = xfer.node /\ Read.n = n + 1
      BY <1>1, <1>3, FreadIs
    <2>3. PICK r \in Call : r = Read
      BY <2>2
    <2>4. /\ xfer' \in Call /\ xfer'.pc = (IF r.got = <<>> THEN "end" ELSE "stat") /\ xfer'.ret = r.ret
          /\ xfer'.serial = r.serial /\ xfer'.node = r.node /\ xfer'.n = r.n /\ xfer'.got = r.got
          /\ xfer'.ahead = r.ahead /\ xfer'.off = r.off /\ xfer'.eof = r.eof
      <3>1. xfer' = [r EXCEPT !.pc = IF r.got = <<>> THEN "end" ELSE "stat"]
        BY <2>1, <2>3 DEF AfterRead
      <3> QED
        BY <2>3, <3>1 DEF Call
    <2>5. /\ xfer'.ret = xfer.ret /\ xfer'.serial = xfer.serial /\ xfer'.node = xfer.node /\ xfer'.n = n + 1
          /\ xfer'.pc \in {"end", "stat"} /\ (xfer'.pc = "end" <=> xfer'.got = <<>>)
      BY <2>2, <2>3, <2>4
    <2>6. Typed' /\ Known' /\ Clean' /\ VersionReceived'
      BY <1>1, <2>4, MovesStep
    <2>7. Versioned' /\ Logged' /\ Unread'
      BY <1>1, <2>5 DEF XferInv, Versioned, Logged, Unread
    <2>8. Original' = Original
      BY <1>1, <2>5 DEF Original
    <2>9. ASSUME Current', Alike'
          PROVE  /\ Begun(n)' /\ Position(n + 1)' /\ n * PackageSize <= Len(Original)
                 /\ xfer'.got = PartOf(Original, n + 1)
                 /\ xfer'.got = <<>> <=> n * PackageSize = Len(Original)
                 /\ n > 0 => (n - 1) * PackageSize < Len(Original)
                 /\ Len(Original) \in Nat
      <3>1. Current /\ Alike
        BY <1>1, <2>5, <2>9 DEF Current, Alike
      <3>2. /\ n * PackageSize <= Len(Original)
            /\ r.got = PartOf(Original, n + 1)
            /\ r.got = <<>> <=> n * PackageSize = Len(Original)
            /\ r.off = Least(Len(Original), (n + 1) * PackageSize) + Len(r.ahead)
            /\ LiesIn(r.ahead, Original, Least(Len(Original), (n + 1) * PackageSize))
            /\ r.eof <=> (n + 1) * PackageSize > Len(Original)
        BY <1>1, <1>3, <1>5, <1>8, <2>3, <3>1, PositionIs
      <3>3. Begun(n)'
        BY <1>1, <1>5, <2>5, <2>8, <3>1, BegunSame
      <3>4. xfer'.node = path'
        BY <1>1, <1>5, <2>5, <3>1 DEF Position
      <3>5. Position(n + 1)'
        BY <2>4, <2>8, <3>2, <3>4 DEF Position
      <3> QED
        BY <1>5, <2>4, <3>1, <3>2, <3>3, <3>5
    <2>10. CASE xfer'.pc = "end"
      <3>1. ASSUME Current', Alike'
            PROVE  /\ Begun(n)' /\ Len(Original') <= n * PackageSize
                   /\ n > 0 => (n - 1) * PackageSize < Len(Original')
        BY <1>4, <2>5, <2>8, <2>9, <2>10, <3>1
      <3>2. Proceeds'
        BY <2>10, <3>1 DEF Proceeds
      <3> QED
        BY <2>6, <2>7, <3>2 DEF XferInv
    <2>11. CASE xfer'.pc = "stat"
      <3>1. n + 1 > 0 /\ n + 1 - 1 = n
        OBVIOUS
      <3>2. ASSUME Current', Alike'
            PROVE  /\ xfer'.n > 0 /\ Begun(n)' /\ Position(n + 1)'
                   /\ n * PackageSize < Len(Original') /\ xfer'.got = PartOf(Original', n + 1)
        <4>1. /\ Begun(n)' /\ Position(n + 1)' /\ n * PackageSize <= Len(Original)
              /\ xfer'.got = PartOf(Original, n + 1)
              /\ xfer'.got = <<>> <=> n * PackageSize = Len(Original)
              /\ Len(Original) \in Nat
          BY <2>9, <3>2
        <4>2. xfer'.got # <<>> /\ xfer'.n > 0
          BY <2>5, <2>11, <3>1
        <4>3. n * PackageSize < Len(Original)
          BY <1>4, <4>1, <4>2
        <4> QED
          BY <2>8, <4>1, <4>2, <4>3
      <3>3. ASSUME Current', Alike'
            PROVE  /\ Begun(xfer.n - 1)' /\ Position(xfer.n)'
                   /\ (xfer'.n - 1) * PackageSize < Len(Original') /\ xfer'.got = PartOf(Original', xfer'.n)
        <4>1. PICK k : k = n + 1
          OBVIOUS
        <4>2. xfer'.n = k /\ xfer'.n - 1 = n /\ k = n + 1
          BY <2>5, <3>1, <4>1
        <4> QED
          BY <3>2, <3>3, <4>2
      <3>4. Proceeds'
        BY <2>11, <3>2, <3>3 DEF Proceeds
      <3> QED
        BY <2>6, <2>7, <3>4 DEF XferInv
    <2> QED
      BY <2>5, <2>10, <2>11
  <1> QED
    BY <1>6, <1>7, <1>8

LEMMA LogStep == XferInv /\ LogPackage => XferInv'
  <1> SUFFICES ASSUME XferInv, LogPackage PROVE XferInv'
    OBVIOUS
  <1>1. UNCHANGED <<nodes, path, versions>> /\ xfer.pc = "stat"
    BY DEF LogPackage, envvars
  <1>2. xfer \in Call /\ logs \in Seq(Message) /\ versions \in Seq(File)
    BY DEF XferInv, Typed
  <1>3. CASE getFileSerialNumber = NoSerial
    <2>1. Returns("serial") /\ logs' = logs /\ "serial" \in Failures
      BY <1>3 DEF LogPackage, Failures
    <2> QED
      BY <1>1, <2>1, ReturnsStep
  <1>4. CASE getFileSerialNumber # NoSerial
    <2>1. isFile
      BY <1>4 DEF getFileSerialNumber, isFile
    <2>2. PICK s \in Nat, n \in Nat, got \in File : s = getFileSerialNumber /\ n = xfer.n /\ got = xfer.got
      BY <1>2, <2>1, SerialIs DEF Call
    <2>3. s \in DOMAIN versions /\ s = nodes[path].ver
      BY <2>1, <2>2, SerialIs
    <2> DEFINE m == FLDA(s, n, got)
    <2>4. m \in Message /\ m.kind = "FLDA" /\ m.serial = s
      BY MessagesAre
    <2>5. CASE cancel
      <3> DEFINE l == Append(logs, m)
      <3>1. logs' = l \o <<FLER>> /\ xfer' = [xfer EXCEPT !.pc = "done", !.ret = "cancelled"]
        BY <1>4, <2>2, <2>5 DEF LogPackage
      <3> HIDE DEF m
      <3>2. l \in Seq(Message)
        BY <1>2, <2>4
      <3>3. /\ logs' \in Seq(Message) /\ Len(logs') = Len(logs) + 2 /\ logs'[Len(logs')] = FLER
            /\ \A k \in DOMAIN logs' : IF k \in DOMAIN logs THEN logs'[k] = logs[k] ELSE logs'[k] \in {m, FLER}
        BY <1>2, <2>4, <3>1, <3>2, MessagesAre
      <3>4. Known'
        <4>1. ASSUME NEW k \in DOMAIN logs', logs'[k].kind # "FLER" PROVE logs'[k].serial \in DOMAIN versions
          <5>1. CASE k \in DOMAIN logs
            BY <3>3, <4>1, <5>1 DEF XferInv, Known
          <5>2. CASE k \notin DOMAIN logs
            <6>1. logs'[k] = m
              BY <3>3, <4>1, <5>2, MessagesAre
            <6> QED
              BY <2>3, <2>4, <6>1
          <5> QED
            BY <5>1, <5>2
        <4> QED
          BY <1>1, <4>1 DEF Known
      <3>5. Clean' /\ VersionReceived'
        <4>1. logs'[Len(logs')].kind # "FLFI"
          BY <3>3, MessagesAre
        <4> QED
          BY <4>1 DEF Clean, VersionReceived, SameVersion
      <3>6. xfer' \in Call /\ xfer'.pc = "done" /\ xfer'.ret # "ok"
        BY <1>2, <3>1 DEF Call
      <3> QED
        BY <1>1, <3>3, <3>4, <3>5, <3>6, EndedStep
    <2>6. CASE ~cancel
      <3>1. logs' = Append(logs, m) \o <<>> /\ xfer' = [xfer EXCEPT !.pc = "loop"]
        BY <1>4, <2>2, <2>6 DEF LogPackage
      <3> HIDE DEF m
      <3>2. logs' = Append(logs, m)
        <4>1. Append(logs, m) \in Seq(Message)
          BY <1>2, <2>4
        <4> QED
          BY <3>1, <4>1
      <3>3. logs' \in Seq(Message) /\ Known' /\ Clean' /\ VersionReceived'
        BY <1>1, <2>3, <2>4, <3>2, AppendOther DEF XferInv
      <3>4. /\ xfer' \in Call /\ xfer'.pc = "loop" /\ xfer'.ret = xfer.ret /\ xfer'.serial = xfer.serial
            /\ xfer'.node = xfer.node /\ xfer'.n = n /\ xfer'.off = xfer.off /\ xfer'.ahead = xfer.ahead
            /\ xfer'.eof = xfer.eof
        BY <1>2, <2>2, <3>1 DEF Call
      <3>5. Typed'
        BY <1>1, <3>3, <3>4 DEF XferInv, Typed
      <3>6. /\ Len(logs') = Len(logs) + 1 /\ logs'[Len(logs) + 1] = m /\ logs' # <<>>
            /\ \A k \in DOMAIN logs : k \in DOMAIN logs' /\ logs'[k] = logs[k]
            /\ \A k \in DOMAIN logs' : k \in DOMAIN logs \/ logs'[k] = m
        BY <1>2, <2>4, <3>2
      <3>7. logs # <<>> /\ 1 \in DOMAIN logs /\ Len(logs) \in Nat /\ Len(logs) >= 1
        BY <1>1, <1>2 DEF XferInv, Logged
      <3>8. Versioned' /\ Unread'
        BY <1>1, <3>4 DEF XferInv, Versioned, Unread
      <3>9. Logged'
        <4>1. logs'[1].serial = xfer'.serial
          BY <1>1, <3>4, <3>6, <3>7 DEF XferInv, Logged
        <4>2. \A k \in DOMAIN logs' : logs'[k].kind \in {"FLST", "FLDA"}
          BY <1>1, <2>4, <3>6 DEF XferInv, Logged
        <4>3. xfer'.ret = "none"
          BY <1>1, <3>4 DEF XferInv, Logged
        <4> QED
          BY <3>4, <3>6, <4>1, <4>2, <4>3 DEF Logged
      <3>10. Original' = Original
        BY <1>1, <3>4 DEF Original
      <3>11. ASSUME Current', Alike'
             PROVE  Begun(n)' /\ Position(n)' /\ (n > 0 => (n - 1) * PackageSize < Len(Original'))
        <4>1. Current
          BY <1>1, <3>4, <3>11 DEF Current
        <4>2. Alike
          BY <3>4, <3>6, <3>11 DEF Alike
        <4>3. /\ n > 0 /\ Begun(n - 1) /\ Position(n)
              /\ (n - 1) * PackageSize < Len(Original)
              /\ got = PartOf(Original, n)
          BY <1>1, <2>2, <4>1, <4>2 DEF XferInv, Proceeds
        <4>4. s = xfer.serial
          BY <2>3, <4>1 DEF Current
        <4>5. Len(logs) = n
          BY <4>3 DEF Begun
        <4>6. \A k \in 1 .. n : logs'[k + 1] = FLDA(xfer.serial, k, PartOf(Original, k))
          <5> SUFFICES ASSUME NEW k \in 1 .. n PROVE logs'[k + 1] = FLDA(xfer.serial, k, PartOf(Original, k))
            OBVIOUS
          <5>1. CASE k = n
            BY <3>6, <4>3, <4>4, <4>5, <5>1 DEF m
          <5>2. CASE k # n
            <6>1. k \in 1 .. n - 1 /\ k + 1 \in DOMAIN logs
              BY <1>2, <4>5, <5>2
            <6> QED
              BY <3>6, <4>3, <6>1 DEF Begun
          <5> QED
            BY <5>1, <5>2
        <4>7. Len(logs') = n + 1 /\ logs'[1] = logs[1]
          BY <3>6, <3>7, <4>5
        <4>8. Begun(n)'
          BY <3>4, <3>10, <4>3, <4>6, <4>7 DEF Begun
        <4>9. Position(n)'
          BY <1>1, <3>4, <3>10, <4>3 DEF Position
        <4> QED
          BY <3>10, <4>3, <4>8, <4>9
      <3>12. Proceeds'
        <4>1. ASSUME Current', Alike'
              PROVE  /\ Begun(xfer.n)' /\ Position(xfer.n)'
                     /\ xfer'.n > 0 => (xfer'.n - 1) * PackageSize < Len(Original')
          BY <3>4, <3>11, <4>1
        <4> QED
          BY <3>4, <4>1 DEF Proceeds
      <3> QED
        BY <3>3, <3>5, <3>8, <3>9, <3>12 DEF XferInv
    <2> QED
      BY <2>5, <2>6
  <1> QED
    BY <1>3, <1>4

LEMMA EndStep == XferInv /\ dlt_user_log_file_end => XferInv'
  <1> SUFFICES ASSUME XferInv, dlt_user_log_file_end PROVE XferInv'
    OBVIOUS
  <1>1. UNCHANGED <<nodes, versions>>
    BY DEF dlt_user_log_file_end
  <1>2. xfer \in Call /\ logs \in Seq(Message) /\ versions \in Seq(File) /\ path \in 0 .. Len(nodes)
        /\ nodes \in Seq([data : File, ver : Nat])
    BY DEF XferInv, Typed
  <1>3. CASE xfer.pc = "end" /\ ~isFile
    <2>1. Fails("end") /\ path' = path /\ "end" \in Failures
      BY <1>3 DEF dlt_user_log_file_end, Failures
    <2> QED
      BY <1>1, <2>1, FailsStep
  <1>4. CASE xfer.pc = "remove" /\ ~isFile
    <2>1. Fails("remove") /\ path' = path /\ "remove" \in Failures
      BY <1>4 DEF dlt_user_log_file_end, Failures
    <2> QED
      BY <1>1, <2>1, FailsStep
  <1>5. CASE xfer.pc = "remove" /\ isFile
    <2>1. path' = 0 /\ Returns("ok") /\ logs' = logs
      BY <1>5 DEF dlt_user_log_file_end
    <2>2. xfer' \in Call /\ xfer'.pc = "done"
      BY <1>2, <2>1 DEF Returns, Call
    <2>3. Typed'
      BY <1>1, <1>2, <2>1, <2>2 DEF XferInv, Typed
    <2>4. Known' /\ Clean' /\ VersionReceived'
      BY <1>1, <1>2, <2>1, ReceivedStays DEF XferInv
    <2>5. Versioned' /\ Unread' /\ Proceeds' /\ Logged'
      BY <1>1, <1>5, <2>1, <2>2 DEF XferInv, Versioned, Unread, Proceeds, Logged
    <2> QED
      BY <2>3, <2>4, <2>5 DEF XferInv
  <1>6. CASE xfer.pc = "end" /\ isFile
    <2>1. PICK s \in Nat : s = getFileSerialNumber
      BY <1>6, SerialIs
    <2>2. s \in DOMAIN versions /\ s = nodes[path].ver
      BY <1>6, <2>1, SerialIs
    <2> DEFINE m == FLFI(s)
    <2>3. m \in Message /\ m.kind = "FLFI" /\ m.serial = s
      BY MessagesAre
    <2>4. /\ logs' = Append(logs, m) /\ path' = path
          /\ xfer' = [xfer EXCEPT !.pc = "remove"] \/ Returns("ok")
      BY <1>6, <2>1 DEF dlt_user_log_file_end
    <2> HIDE DEF m
    <2>5. xfer' \in Call /\ xfer'.pc \in {"remove", "done"} /\ (xfer'.pc = "remove" => xfer'.ret = xfer.ret)
      BY <1>2, <2>4 DEF Returns, Call
    <2>6. /\ logs' \in Seq(Message) /\ Len(logs') = Len(logs) + 1 /\ logs'[Len(logs')] = m /\ logs' # <<>>
          /\ \A k \in DOMAIN logs : k \in DOMAIN logs' /\ logs'[k] = logs[k]
          /\ \A k \in DOMAIN logs' : k \in DOMAIN logs \/ logs'[k] = m
      <3>1. logs' = Append(logs, m)
        BY <2>4
      <3> QED
        BY <1>2, <2>3, <3>1, Appended
    <2>7. logs # <<>> /\ 1 \in DOMAIN logs /\ logs[1].serial = xfer.serial /\ Len(logs) \in Nat
      BY <1>2, <1>6 DEF XferInv, Logged
    <2>8. Typed'
      BY <1>1, <2>4, <2>5, <2>6 DEF XferInv, Typed
    <2>9. \A k \in DOMAIN logs : logs[k].kind # "FLER"
      BY <1>6 DEF XferInv, Logged
    <2>10. Known' /\ Clean'
      BY <1>1, <2>2, <2>3, <2>6, <2>9 DEF XferInv, Known, Clean
    <2>11. Versioned' /\ Unread' /\ Proceeds'
      BY <1>1, <2>4, <2>5 DEF XferInv, Versioned, Unread, Proceeds
    <2>12. Logged'
      <3>1. logs' # <<>> /\ logs'[Len(logs')].kind = "FLFI"
        BY <2>3, <2>6
      <3>2. xfer.ret = "none"
        BY <1>6 DEF XferInv, Logged
      <3> QED
        BY <2>5, <3>1, <3>2 DEF Logged
    <2>13. ASSUME SameVersion' PROVE VersionReceived'
      <3>1. logs'[1].serial = xfer.serial /\ logs'[1] = logs[1]
        BY <2>6, <2>7
      <3>2. Alike
        BY <2>6, <2>13, <3>1 DEF SameVersion, Alike
      <3>3. Current
        <4>1. Len(logs') \in DOMAIN logs'
          BY <2>6, <2>7
        <4>2. m.serial = xfer.serial
          BY <2>6, <2>13, <3>1, <4>1 DEF SameVersion
        <4> QED
          BY <1>6, <2>2, <2>3, <4>2 DEF Current, isFile
      <3>4. PICK k \in Nat : /\ Begun(k) /\ Len(Original) <= k * PackageSize
                             /\ k > 0 => (k - 1) * PackageSize < Len(Original)
        BY <1>6, <3>2, <3>3 DEF XferInv, Proceeds
      <3>5. PICK v \in File : v = Original /\ v = versions[xfer.serial]
        BY <1>6, <3>3, SerialIs DEF Current, isFile, Original
      <3>6. Len(logs') - 2 = k
        BY <2>6, <2>7, <3>4 DEF Begun
      <3>7. ASSUME NEW i \in 1 .. k PROVE logs'[i + 1] = FLDA(xfer.serial, i, PartOf(v, i))
        <4>1. i + 1 \in DOMAIN logs
          BY <1>2, <3>4 DEF Begun
        <4> QED
          BY <2>6, <3>4, <3>5, <4>1 DEF Begun
      <3>8. logs[1].count = PackagesOf(Len(v)) /\ logs[1].size = Len(v)
        BY <3>4, <3>5 DEF Begun, FLST
      <3>9. ASSUME v # <<>> PROVE k = PackagesOf(Len(v))
        <4>1. Len(v) \in Nat /\ Len(v) > 0
          BY <3>9, EmptyFile
        <4>2. k > 0
          <5>1. k = 0 => k * PackageSize = 0
            BY TransferAssumption
          <5> QED
            BY <3>4, <3>5, <4>1, <5>1
        <4> QED
          BY <3>4, <3>5, <4>1, <4>2, PackagesCover
      <3>10. versions'[logs'[1].serial] = v
        BY <1>1, <3>1, <3>5
      <3> QED
        BY <3>1, <3>4, <3>5, <3>6, <3>7, <3>8, <3>9, <3>10 DEF VersionReceived, IsVersion
    <2>14. VersionReceived'
      BY <2>13 DEF VersionReceived, IsVersion
    <2> QED
      BY <2>8, <2>10, <2>11, <2>12, <2>14 DEF XferInv
  <1> QED
    BY <1>3, <1>4, <1>5, <1>6 DEF dlt_user_log_file_end

\* Who changes the file gives it a version that no message of the call carries.
LEMMA ChangedStep ==
  ASSUME XferInv, xfer' = xfer, logs' = logs, Typed',
         \A i \in DOMAIN nodes' : nodes'[i].ver \in DOMAIN versions' /\ nodes'[i].data = versions'[nodes'[i].ver],
         DOMAIN nodes \subseteq DOMAIN nodes', Len(versions) <= Len(versions'),
         \A i \in DOMAIN versions : versions'[i] = versions[i],
         path' = 0 \/ nodes'[path'].ver = Len(versions) + 1
  PROVE  XferInv'
  <1>1. versions \in Seq(File) /\ versions' \in Seq(File)
    BY DEF XferInv, Typed
  <1>2. Known' /\ Clean' /\ VersionReceived'
    BY <1>1, ReceivedStays DEF XferInv
  <1>3. DOMAIN versions \subseteq DOMAIN versions' /\ Len(versions) + 1 \notin DOMAIN versions
    BY <1>1
  <1>4. Versioned'
    BY <1>3 DEF XferInv, Versioned
  <1>5. Logged' /\ Unread'
    BY DEF XferInv, Logged, Unread
  <1>6. ASSUME xfer.pc \in {"size", "count", "open", "loop", "stat", "end"} PROVE ~Current'
    BY <1>3, <1>6 DEF XferInv, Versioned, Current
  <1>7. Proceeds'
    BY <1>6 DEF Proceeds
  <1> QED
    BY <1>2, <1>4, <1>5, <1>7 DEF XferInv

LEMMA ChangeStep == XferInv /\ FileChanges => XferInv'
  <1> SUFFICES ASSUME XferInv, FileChanges PROVE XferInv'
    OBVIOUS
  <1>1. isFile /\ xfer' = xfer /\ logs' = logs
    BY DEF FileChanges
  <1>2. xfer \in Call /\ logs \in Seq(Message) /\ versions \in Seq(File) /\ path \in 0 .. Len(nodes)
        /\ nodes \in Seq([data : File, ver : Nat])
    BY DEF XferInv, Typed
  <1>3. path \in DOMAIN nodes /\ nodes[path].data \in File
    BY <1>1, SerialIs
  <1>4. \A v, n \in Nat : Bytes(v, n) \in File
    BY BytesTyped
  <1>5. PICK old \in File : old = nodes[path].data
    BY <1>3
  <1>6. PICK ver \in Nat : ver = Len(versions) + 1
    BY <1>2
  <1>7. \A i \in DOMAIN nodes : nodes[i].ver \in DOMAIN versions /\ nodes[i].data = versions[nodes[i].ver]
    BY DEF XferInv, Versioned
  <1>8. ASSUME NEW data \in File, versions' = Append(versions, data)
        PROVE  /\ versions' \in Seq(File) /\ Len(versions) <= Len(versions') /\ ver \in DOMAIN versions'
               /\ versions'[ver] = data /\ DOMAIN versions \subseteq DOMAIN versions'
               /\ \A i \in DOMAIN versions : versions'[i] = versions[i]
    BY <1>2, <1>6, <1>8
  <1>9. ASSUME NEW data \in File, versions' = Append(versions, data), path' = path,
               nodes' = [nodes EXCEPT ![path] = [data |-> data, ver |-> ver]]
        PROVE  XferInv'
    <2>1. PICK x \in [data : File, ver : Nat] : x = [data |-> data, ver |-> ver]
      OBVIOUS
    <2>2. x.data = data /\ x.ver = ver
      BY <2>1
    <2>3. nodes' = [nodes EXCEPT ![path] = x]
      BY <1>9, <2>1
    <2>4. /\ nodes' \in Seq([data : File, ver : Nat]) /\ Len(nodes') = Len(nodes) /\ DOMAIN nodes' = DOMAIN nodes
          /\ nodes'[path] = x /\ \A i \in DOMAIN nodes : i # path => nodes'[i] = nodes[i]
      BY <1>2, <1>3, <2>3
    <2>5. Typed'
      BY <1>1, <1>2, <1>8, <1>9, <2>4 DEF Typed
    <2>6. \A i \in DOMAIN nodes' : nodes'[i].ver \in DOMAIN versions' /\ nodes'[i].data = versions'[nodes'[i].ver]
      <3> SUFFICES ASSUME NEW i \in DOMAIN nodes'
                   PROVE  nodes'[i].ver \in DOMAIN versions' /\ nodes'[i].data = versions'[nodes'[i].ver]
        OBVIOUS
      <3>1. CASE i = path
        BY <1>8, <1>9, <2>2, <2>4, <3>1
      <3>2. CASE i # path
        <4>1. nodes'[i] = nodes[i] /\ nodes[i].ver \in DOMAIN versions /\ nodes[i].data = versions[nodes[i].ver]
          BY <1>7, <2>4, <3>2
        <4> QED
          BY <1>8, <1>9, <4>1
      <3> QED
        BY <3>1, <3>2
    <2>7. nodes'[path'].ver = Len(versions) + 1
      BY <1>6, <1>9, <2>2, <2>4
    <2> QED
      BY <1>1, <1>8, <1>9, <2>4, <2>5, <2>6, <2>7, ChangedStep
  <1>10. ASSUME NEW data \in File, versions' = Append(versions, data), path' = Len(nodes) + 1,
                nodes' = Append(nodes, [data |-> data, ver |-> ver])
         PROVE  XferInv'
    <2>1. PICK x \in [data : File, ver : Nat] : x = [data |-> data, ver |-> ver]
      OBVIOUS
    <2>2. x.data = data /\ x.ver = ver
      BY <2>1
    <2>3. nodes' = Append(nodes, x)
      BY <1>10, <2>1
    <2>4. /\ nodes' \in Seq([data : File, ver : Nat]) /\ Len(nodes') = Len(nodes) + 1
          /\ DOMAIN nodes \subseteq DOMAIN nodes'
          /\ nodes'[Len(nodes) + 1] = x /\ \A i \in DOMAIN nodes : nodes'[i] = nodes[i]
          /\ \A i \in DOMAIN nodes' : i = Len(nodes) + 1 \/ i \in DOMAIN nodes
          /\ Len(nodes) + 1 \in 0 .. Len(nodes')
      BY <1>2, <2>3
    <2>5. Typed'
      BY <1>1, <1>2, <1>8, <1>10, <2>4 DEF Typed
    <2>6. \A i \in DOMAIN nodes' : nodes'[i].ver \in DOMAIN versions' /\ nodes'[i].data = versions'[nodes'[i].ver]
      <3> SUFFICES ASSUME NEW i \in DOMAIN nodes'
                   PROVE  nodes'[i].ver \in DOMAIN versions' /\ nodes'[i].data = versions'[nodes'[i].ver]
        OBVIOUS
      <3>1. CASE i = Len(nodes) + 1
        BY <1>8, <1>10, <2>2, <2>4, <3>1
      <3>2. CASE i \in DOMAIN nodes
        <4>1. nodes'[i] = nodes[i] /\ nodes[i].ver \in DOMAIN versions /\ nodes[i].data = versions[nodes[i].ver]
          BY <1>7, <2>4, <3>2
        <4> QED
          BY <1>8, <1>10, <4>1
      <3> QED
        BY <2>4, <3>1, <3>2
    <2>7. nodes'[path'].ver = Len(versions) + 1
      BY <1>6, <1>10, <2>2, <2>4
    <2> QED
      BY <1>1, <1>8, <1>10, <2>4, <2>5, <2>6, <2>7, ChangedStep
  <1>11. ASSUME path' = 0, UNCHANGED <<nodes, versions>> PROVE XferInv'
    <2>1. Typed'
      BY <1>1, <1>2, <1>11 DEF Typed
    <2> QED
      BY <1>1, <1>2, <1>7, <1>11, <2>1, ChangedStep
  <1>12. old \o Bytes(ver, 1) \in File /\ Bytes(ver, Len(old)) \in File /\ Bytes(ver, 1) \in File
    BY <1>4, Joined, EmptyFile
  <1>13. \/ \E data \in {old \o Bytes(ver, 1), Bytes(ver, Len(old)), Bytes(ver, 1)} :
               /\ nodes' = [nodes EXCEPT ![path] = [data |-> data, ver |-> ver]]
               /\ versions' = Append(versions, data) /\ path' = path
         \/ /\ nodes' = Append(nodes, [data |-> Bytes(ver, Len(old)), ver |-> ver])
            /\ versions' = Append(versions, Bytes(ver, Len(old))) /\ path' = Len(nodes) + 1
         \/ path' = 0 /\ UNCHANGED <<nodes, versions>>
    <2>1. UNCHANGED <<nodes, versions, serials>> => UNCHANGED <<nodes, versions>>
      OBVIOUS
    <2> QED
      BY <1>5, <1>6, <2>1 DEF FileChanges
  <1> QED
    BY <1>9, <1>10, <1>11, <1>12, <1>13

\* The rest of the world does not touch the file.
LEMMA OtherStep ==
  ASSUME XferInv, UNCHANGED <<nodes, path, versions, xfer, logs>>
  PROVE  XferInv'
  <1>1. Typed' /\ Known' /\ Clean' /\ VersionReceived'
    BY MovesStep DEF XferInv, Typed
  <1>2. Versioned' /\ Logged' /\ Unread'
    BY DEF XferInv, Versioned, Logged, Unread
  <1>3. Proceeds'
    BY DEF XferInv, Proceeds, Current, Alike, Original, Begun, Position
  <1> QED
    BY <1>1, <1>2, <1>3 DEF XferInv

LEMMA FirstState == XferInit => XferInv
  <1> SUFFICES ASSUME XferInit PROVE XferInv
    OBVIOUS
  <1>1. xferlimit.len \in Nat
    BY TransferAssumption DEF XferInit, TransferLimit
  <1>2. PICK d \in File : d = Bytes(1, xferlimit.len)
    BY <1>1, BytesTyped
  <1>3. /\ nodes = <<[data |-> d, ver |-> 1]>> /\ path = 1 /\ versions = <<d>> /\ xfer = NewCall /\ logs = <<>>
    BY <1>2 DEF XferInit
  <1>4. xfer \in Call /\ xfer.pc = "start" /\ xfer.ret = "none" /\ xfer.off = 0 /\ xfer.ahead = <<>>
        /\ xfer.n = 0 /\ ~xfer.eof
    BY <1>3, EmptyFile DEF NewCall, Call
  <1>5. PICK x \in [data : File, ver : Nat] : x = [data |-> d, ver |-> 1]
    OBVIOUS
  <1>6. x.data = d /\ x.ver = 1 /\ nodes = <<x>>
    BY <1>3, <1>5
  <1>7. Typed
    BY <1>3, <1>4, <1>6 DEF Typed
  <1>8. Known /\ Clean /\ VersionReceived
    BY <1>3 DEF Known, Clean, VersionReceived, SameVersion
  <1>9. Versioned /\ Logged /\ Unread /\ Proceeds
    BY <1>3, <1>4, <1>6 DEF Versioned, Logged, Unread, Proceeds
  <1> QED
    BY <1>7, <1>8, <1>9 DEF XferInv

LEMMA NextStep == XferInv /\ [XferNext]_xfervars => XferInv'
  <1> SUFFICES ASSUME XferInv, [XferNext]_xfervars PROVE XferInv'
    OBVIOUS
  <1>1. CASE BufferMoves \/ CallerCancels \/ UNCHANGED xfervars
    BY <1>1, OtherStep DEF BufferMoves, CallerCancels, xfervars
  <1> QED
    BY <1>1, StartStep, HeaderStep, OpenStep, ReadStep, LogStep, EndStep, ChangeStep DEF XferNext

\* The messages of a successful call carry serial numbers of versions, so of the only one there is.
LEMMA ArrivesIfUnchanged == XferInv => UnchangedArrives
  <1> SUFFICES ASSUME XferInv, xfer.ret = "ok", Len(versions) = 1
               PROVE  \E k \in DOMAIN logs : logs[k].kind = "FLFI" /\ \A i \in 1 .. k : logs[i].serial = 1
    BY DEF UnchangedArrives
  <1>1. logs \in Seq(Message) /\ versions \in Seq(File)
    BY DEF XferInv, Typed
  <1>2. logs # <<>> /\ logs[Len(logs)].kind = "FLFI"
    BY DEF XferInv, Logged
  <1>3. Len(logs) \in DOMAIN logs /\ 1 .. Len(logs) = DOMAIN logs /\ DOMAIN versions = {1}
    BY <1>1, <1>2
  <1>4. \A i \in DOMAIN logs : logs[i].serial = 1
    BY <1>2, <1>3 DEF XferInv, Known, Clean
  <1> QED
    BY <1>2, <1>3, <1>4

\* What looks complete is about one version, if no other one has its serial number.
LEMMA NumbersTell == XferInv => ReceivedIsVersion
  <1> SUFFICES ASSUME XferInv, LooksComplete, Unmistakable PROVE IsVersion
    BY DEF ReceivedIsVersion
  <1>1. \A k \in DOMAIN logs : logs[k].serial \in DOMAIN versions
    BY DEF XferInv, Known, Clean, LooksComplete
  <1>2. \A k \in DOMAIN logs : logs[k].serial = logs[1].serial
    BY <1>1 DEF LooksComplete, Unmistakable
  <1> QED
    BY <1>2 DEF XferInv, VersionReceived, SameVersion, LooksComplete

\* However other processes append to the file, replace or remove it while it is logged, what looks
\* complete to a receiver is one version of the file, byte for byte, unless another version has the
\* same serial number, and a file left alone arrives: for all lengths, package sizes and stdio buffers
\* of at least a package (dlt_user_log_file_complete).
THEOREM TransfersAreExact == XferSpec => []TransferExact
  <1>1. XferInit => XferInv
    BY FirstState
  <1>2. XferInv /\ [XferNext]_xfervars => XferInv'
    BY NextStep
  <1>3. XferInv => TransferExact
    BY ArrivesIfUnchanged, NumbersTell DEF TransferExact
  <1> QED
    BY <1>1, <1>2, <1>3, PTL DEF XferSpec
================================================================================
