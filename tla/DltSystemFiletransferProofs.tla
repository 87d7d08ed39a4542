---------------------- MODULE DltSystemFiletransferProofs ----------------------
(* Dumps that dlt-system takes, compresses, sends and removes are not lost, for   *)
(* any number of dumps, sizes, crashes and failing calls.                         *)
EXTENDS DltSystemFiletransfer, SequenceTheorems, TLAPS

File == [dump : Dumps, place : {"orig", "compress", "send"}, gz : BOOLEAN, len : Nat]
Sent == [kind : {"FLST"}, serial : File, size : Nat, count : Int]
        \cup [kind : {"FLDA"}, serial : File, n : Nat, data : Seq(Nat)]
        \cup [kind : {"FLFI"}, serial : File]
Pcs == {"down", "idle", "scan", "move", "gzopen", "gzwrite", "gzremove", "gzclose", "wait", "package"}

Typed ==
  /\ syslimit \in SystemLimits
  /\ disk \subseteq File
  /\ transfers \in Seq(Sent) /\ sent \in 0 .. Len(transfers)
  /\ dumped \subseteq Dumps
  /\ sys \in [pc : Pcs, stage : {"none", "idle", "send", "compress", "orig"}, todo : SUBSET File,
              cur : File \cup {None}, n : Nat]

\* The file is whole, or was moved while it was being written.
Sound(f) == Whole(f) \/ f.dump \in hasty

\* Its source is still there.
HasSource(d) == \E g \in disk : g.place = "compress" /\ g.dump = d

\* Only compressed files may be shorter than they should be, and a dump has one of them at most.
Stored ==
  /\ \A f \in disk : f.dump \in dumped /\ (f.gz => f.place = "send") /\ (~f.gz => Sound(f))
  /\ \A f, g \in disk : f.gz /\ g.gz /\ f.dump = g.dump => f = g

\* The file the process is busy with is there.
Current ==
  /\ sys.pc \in {"move", "gzopen", "gzwrite", "gzremove", "gzclose", "wait", "package"} => sys.cur \in File
  /\ sys.pc = "move" => sys.cur \in disk /\ sys.cur.place = "orig"
  /\ sys.pc \in {"gzopen", "gzwrite", "gzremove", "gzclose"} =>
       sys.cur.place = "compress" /\ ~sys.cur.gz /\ Sound(sys.cur)
  /\ sys.pc \in {"gzopen", "gzwrite", "gzremove"} => sys.cur \in disk
  /\ sys.pc \in {"gzwrite", "gzremove", "gzclose"} => \E g \in disk : g.gz /\ g.dump = sys.cur.dump
  /\ sys.pc \in {"wait", "package"} =>
       sys.cur \in disk /\ sys.cur.place = "send" /\ (Sound(sys.cur) \/ sys.cur.dump \in torn)

\* What a directory still has to be flushed of is there.
Flushing ==
  /\ sys.pc = "idle" => sys.stage = "idle"
  /\ sys.pc = "move" => sys.stage \in {"idle", "orig"}
  /\ sys.stage = "send" => sys.pc \in {"scan", "wait", "package"}
  /\ sys.stage \in {"send", "compress"} =>
       \A f \in sys.todo : /\ f.place = sys.stage
                           /\ f \in disk \/ (sys.pc = "gzclose" /\ f = sys.cur)

\* A compressed file that is not whole has its source, unless it is about to be completed, or torn.
Sourced ==
  \A f \in disk : f.gz /\ ~Sound(f) =>
    f.dump \in torn \/ HasSource(f.dump) \/ (sys.pc = "gzclose" /\ sys.cur.dump = f.dump)

\* The header and the first n packages of the transfer in progress are the last messages.
Progress ==
  /\ sys.pc # "package" => sys.n = 0
  /\ sys.pc = "package" => sys.n <= PackagesOf(sys.cur.len)
  /\ sys.pc = "package" /\ sys.cur.dump \notin lost =>
       /\ sys.n + 1 <= Len(transfers)
       /\ transfers[Len(transfers) - sys.n] = FLST(sys.cur, sys.cur.len, PackagesOf(sys.cur.len))
       /\ \A k \in 1 .. sys.n : transfers[Len(transfers) - sys.n + k] = FLDA(sys.cur, k, Package(sys.cur, k))

\* The two parts of DumpsKept.
Kept ==
  \A d \in dumped \ (torn \cup lost) :
    \/ \E f \in disk : f.dump = d /\ (Sound(f) \/ (sys.pc = "gzclose" /\ sys.cur.dump = d))
    \/ \E j \in DOMAIN transfers :
         transfers[j].kind = "FLFI" /\ transfers[j].serial.dump = d /\ Sound(transfers[j].serial)
Arrived ==
  \A j \in DOMAIN transfers :
    transfers[j].kind = "FLFI" =>
      /\ Received(j) \/ transfers[j].serial.dump \in lost
      /\ Sound(transfers[j].serial) \/ transfers[j].serial.dump \in torn

SysInv == Typed /\ Stored /\ Current /\ Flushing /\ Sourced /\ Progress /\ Kept /\ Arrived

--------------------------------------------------------------------------------
(* Files and packages *)

LEMMA FilesAre ==
  /\ \A d \in Dumps : /\ Dump(d, "orig") \in File /\ Whole(Dump(d, "orig"))
                      /\ Dump(d, "orig").dump = d /\ Dump(d, "orig").place = "orig" /\ Dump(d, "orig").gz = FALSE
  /\ \A d \in Dumps, l \in Nat :
       /\ Gz(d, l) \in File /\ (l = GzLen(DumpSize[d]) => Whole(Gz(d, l)))
       /\ Gz(d, l).dump = d /\ Gz(d, l).place = "send" /\ Gz(d, l).gz = TRUE /\ Gz(d, l).len = l
  /\ \A l \in Nat : GzLen(l) \in Nat \ {0}
  /\ None \notin File
  <1>1. \A d \in Dumps : DumpSize[d] \in Nat \ {0}
    BY SystemAssumption
  <1>2. \A l \in Nat : GzLen(l) \in Nat \ {0}
    BY DEF GzLen
  <1>3. None \notin File
    BY DEF None, File
  <1>4. ASSUME NEW d \in Dumps
        PROVE  /\ Dump(d, "orig") \in File /\ Whole(Dump(d, "orig"))
               /\ Dump(d, "orig").dump = d /\ Dump(d, "orig").place = "orig" /\ Dump(d, "orig").gz = FALSE
    BY <1>1 DEF Dump, File, Whole
  <1>5. ASSUME NEW d \in Dumps, NEW l \in Nat
        PROVE  /\ Gz(d, l) \in File /\ (l = GzLen(DumpSize[d]) => Whole(Gz(d, l)))
               /\ Gz(d, l).dump = d /\ Gz(d, l).place = "send" /\ Gz(d, l).gz = TRUE /\ Gz(d, l).len = l
    BY DEF Gz, File, Whole
  <1> QED
    BY <1>2, <1>3, <1>4, <1>5

\* The packages of a file cover it, and all but the last one are full.
LEMMA PackagesCover ==
  ASSUME NEW len \in Nat
  PROVE  /\ PackagesOf(len) \in Nat \ {0}
         /\ (PackagesOf(len) - 1) * PackageSize <= len
         /\ len <= PackagesOf(len) * PackageSize
  <1> DEFINE q == len \div PackageSize
             r == len % PackageSize
  <1>1. PackageSize \in Nat \ {0}
    BY TransferAssumption
  <1>2. q \in Nat /\ r \in Nat /\ len = PackageSize * q + r /\ r < PackageSize
    BY <1>1
  <1> HIDE DEF q, r
  <1>3. PackagesOf(len) = IF len < PackageSize THEN 1 ELSE q + (IF r = 0 THEN 0 ELSE 1)
    BY DEF PackagesOf, q, r
  <1>4. CASE len < PackageSize
    BY <1>1, <1>3, <1>4
  <1>5. CASE ~(len < PackageSize) /\ r = 0
    <2>1. PackagesOf(len) = q /\ len = PackageSize * q
      BY <1>1, <1>2, <1>3, <1>5
    <2>2. q # 0
      BY <1>1, <2>1, <1>5
    <2>3. (q - 1) * PackageSize = q * PackageSize - PackageSize
      BY <1>1, <1>2
    <2> QED
      BY <1>1, <1>2, <2>1, <2>2, <2>3
  <1>6. CASE ~(len < PackageSize) /\ r # 0
    <2>1. PackagesOf(len) = q + 1
      BY <1>2, <1>3, <1>6
    <2>2. (q + 1) * PackageSize = q * PackageSize + PackageSize
      BY <1>1, <1>2
    <2> QED
      BY <1>1, <1>2, <2>1, <2>2
  <1> QED
    BY <1>4, <1>5, <1>6

\* What a package holds.
LEMMA PackageIs ==
  ASSUME NEW f \in File, NEW k \in 1 .. PackagesOf(f.len)
  PROVE  /\ Package(f, k) \in Seq(Nat)
         /\ Len(Package(f, k)) = IF k < PackagesOf(f.len) THEN PackageSize ELSE f.len - (k - 1) * PackageSize
         /\ \A b \in 1 .. Len(Package(f, k)) : Package(f, k)[b] = (k - 1) * PackageSize + b
  <1> DEFINE c == PackagesOf(f.len)
             rest == f.len - (k - 1) * PackageSize
  <1>1. PackageSize \in Nat \ {0} /\ f.len \in Nat
    BY TransferAssumption DEF File
  <1>2. c \in Nat \ {0} /\ (c - 1) * PackageSize <= f.len /\ f.len <= c * PackageSize
    BY <1>1, PackagesCover
  <1>3. (k - 1) * PackageSize \in Nat
    BY <1>1, <1>2
  <1>4. CASE k < c
    <2>1. k * PackageSize <= (c - 1) * PackageSize
      BY <1>1, <1>2, <1>4
    <2>2. k * PackageSize = (k - 1) * PackageSize + PackageSize
      BY <1>1, <1>2
    <2>3. rest >= PackageSize
      BY <1>1, <1>2, <1>3, <2>1, <2>2
    <2>4. Least(PackageSize, rest) = PackageSize
      BY <1>1, <1>3, <2>3 DEF Least
    <2>5. Package(f, k) = [b \in 1 .. PackageSize |-> (k - 1) * PackageSize + b]
      BY <2>4 DEF Package
    <2> HIDE DEF rest
    <2>6. Package(f, k) \in Seq(Nat) /\ Len(Package(f, k)) = PackageSize
      BY <1>1, <1>3, <2>5
    <2> QED
      BY <1>1, <1>4, <2>5, <2>6
  <1>5. CASE k = c
    <2>1. c * PackageSize = (c - 1) * PackageSize + PackageSize
      BY <1>1, <1>2
    <2>2. rest \in Nat /\ rest <= PackageSize
      BY <1>1, <1>2, <1>3, <1>5, <2>1
    <2>3. Least(PackageSize, rest) = rest
      BY <1>1, <2>2 DEF Least
    <2>4. Package(f, k) = [b \in 1 .. rest |-> (k - 1) * PackageSize + b]
      BY <2>3 DEF Package
    <2>5. Package(f, k) \in Seq(Nat) /\ Len(Package(f, k)) = rest
      <3> HIDE DEF rest
      <3> QED
        BY <1>3, <2>2, <2>4
    <2>6. Len(Package(f, k)) = f.len - (k - 1) * PackageSize /\ ~(k < PackagesOf(f.len))
      BY <1>2, <1>5, <2>5
    <2>7. ASSUME NEW b \in 1 .. Len(Package(f, k)) PROVE Package(f, k)[b] = (k - 1) * PackageSize + b
      <3> HIDE DEF rest
      <3> QED
        BY <2>4, <2>5
    <2> QED
      BY <2>5, <2>6, <2>7
  <1> QED
    BY <1>2, <1>4, <1>5

--------------------------------------------------------------------------------
(* The messages *)

LEMMA MessagesAre ==
  /\ \A f \in File, s \in Nat, c \in Int :
       /\ FLST(f, s, c) \in Sent /\ FLST(f, s, c).kind = "FLST" /\ FLST(f, s, c).serial = f
       /\ FLST(f, s, c).count = c
  /\ \A f \in File, n \in Nat, data \in Seq(Nat) :
       /\ FLDA(f, n, data) \in Sent /\ FLDA(f, n, data).kind = "FLDA" /\ FLDA(f, n, data).serial = f
       /\ FLDA(f, n, data).n = n /\ FLDA(f, n, data).data = data
  /\ \A f \in File : FLFI(f) \in Sent /\ FLFI(f).kind = "FLFI" /\ FLFI(f).serial = f
  BY DEF FLST, FLDA, FLFI, Sent

\* Whether a file was received depends on the messages up to its end.
LEMMA ReceivedBefore ==
  ASSUME NEW j \in Nat, \A i \in 1 .. j : transfers'[i] = transfers[i], Received(j), j > 0
  PROVE  Received(j)'
  <1>1. transfers'[j] = transfers[j]
    OBVIOUS
  <1>2. PICK i \in 1 .. j - 1 :
          /\ transfers[i].kind = "FLST" /\ transfers[i].serial = transfers[j].serial /\ transfers[i].count = j - i - 1
          /\ \A k \in 1 .. j - i - 1 : IsPackage(transfers[i + k], transfers[j].serial, k, j - i - 1)
    BY DEF Received
  <1>3. transfers'[i] = transfers[i] /\ \A k \in 1 .. j - i - 1 : transfers'[i + k] = transfers[i + k]
    OBVIOUS
  <1> QED
    BY <1>1, <1>2, <1>3 DEF Received

\* What arrived stays when a further message is sent.
LEMMA ArrivedAppend ==
  ASSUME transfers \in Seq(Sent), NEW m \in Sent, transfers' = Append(transfers, m), Arrived,
         torn \subseteq torn', lost \subseteq lost', hasty \subseteq hasty', NEW last, last = Len(transfers) + 1,
         m.kind = "FLFI" => /\ Received(last)' \/ m.serial.dump \in lost'
                            /\ Whole(m.serial) \/ m.serial.dump \in hasty' \cup torn'
  PROVE  Arrived'
  <1> SUFFICES ASSUME NEW j \in DOMAIN transfers', transfers'[j].kind = "FLFI"
               PROVE  /\ Received(j)' \/ transfers'[j].serial.dump \in lost'
                      /\ Sound(transfers[j].serial)' \/ transfers'[j].serial.dump \in torn'
    BY DEF Arrived, Sound
  <1>1. /\ DOMAIN transfers' = 1 .. Len(transfers) + 1 /\ transfers'[Len(transfers) + 1] = m
        /\ \A i \in 1 .. Len(transfers) : transfers'[i] = transfers[i]
        /\ Len(transfers) \in Nat /\ DOMAIN transfers = 1 .. Len(transfers)
    OBVIOUS
  <1>2. CASE j = Len(transfers) + 1
    BY <1>1, <1>2 DEF Sound
  <1>3. CASE j \in 1 .. Len(transfers)
    <2>1. transfers'[j] = transfers[j]
      BY <1>1, <1>3
    <2>2. /\ Received(j) \/ transfers[j].serial.dump \in lost
          /\ Sound(transfers[j].serial) \/ transfers[j].serial.dump \in torn
      BY <1>1, <1>3, <2>1 DEF Arrived
    <2>3. \A i \in 1 .. j : transfers'[i] = transfers[i]
      BY <1>1, <1>3
    <2>4. Received(j) => Received(j)'
      BY <1>1, <1>3, <2>3, ReceivedBefore
    <2> QED
      BY <2>1, <2>2, <2>4 DEF Sound
  <1> QED
    BY <1>1, <1>2, <1>3

LEMMA ArrivedSame ==
  ASSUME transfers' = transfers, Arrived, torn \subseteq torn', lost \subseteq lost', hasty \subseteq hasty'
  PROVE  Arrived'
  <1>1. \A j \in DOMAIN transfers : Received(j) => Received(j)'
    BY DEF Received
  <1> QED
    BY <1>1 DEF Arrived, Sound

\* The dumps are kept when no whole file goes, except one that is not needed any more.
LEMMA KeptSame ==
  ASSUME transfers' = transfers, dumped' = dumped, Kept, torn \subseteq torn', lost \subseteq lost', hasty \subseteq hasty',
         \A f \in disk : Sound(f) => f \in disk' \/ f.dump \in lost' \/ \E g \in disk' : g.dump = f.dump /\ Sound(g)',
         sys.pc # "gzclose"
  PROVE  Kept'
  <1> SUFFICES ASSUME NEW d \in dumped \ (torn' \cup lost')
               PROVE  \/ \E f \in disk' : f.dump = d /\ Sound(f)'
                      \/ \E j \in DOMAIN transfers' :
                           transfers'[j].kind = "FLFI" /\ transfers'[j].serial.dump = d /\ Sound(transfers[j].serial)'
    BY DEF Kept, Sound
  <1>1. \A f \in disk : Sound(f) => Sound(f)'
    BY DEF Sound
  <1>2. \A j \in DOMAIN transfers : Sound(transfers[j].serial) => Sound(transfers[j].serial)'
    BY DEF Sound
  <1> QED
    BY <1>1, <1>2 DEF Kept

--------------------------------------------------------------------------------
(* Steps *)

LEMMA OthersStep ==
  ASSUME SysInv, sent' \in 0 .. Len(transfers),
         UNCHANGED <<disk, sys, transfers, lost, dumped, torn, hasty, syslimit>>
  PROVE  SysInv'
  <1>1. Typed' /\ Stored' /\ Current' /\ Flushing' /\ Sourced' /\ Progress'
    BY DEF SysInv, Typed, Stored, Current, Flushing, Sourced, HasSource, Progress, Sound
  <1>2. Kept'
    BY DEF SysInv, Kept, Sound
  <1>3. Arrived'
    BY ArrivedSame DEF SysInv
  <1> QED
    BY <1>1, <1>2, <1>3 DEF SysInv

LEMMA InitDirsStep ==
  ASSUME SysInv, init_filetransfer_dirs
  PROVE  SysInv'
  <1>1. Typed'
    BY FilesAre DEF SysInv, init_filetransfer_dirs, messages, others, Scan, In, Down, Typed, Pcs
  <1>2. Stored'
    BY FilesAre DEF SysInv, init_filetransfer_dirs, messages, others, Scan, In, Down, Typed, Stored, Sound
  <1>3. Current'
    BY FilesAre DEF SysInv, init_filetransfer_dirs, messages, others, Scan, In, Down, Typed, Current, Sound
  <1>4. Flushing'
    BY FilesAre DEF SysInv, init_filetransfer_dirs, messages, others, Scan, In, Down, Typed, Flushing, Current
  <1>5. Sourced'
    BY FilesAre DEF SysInv, init_filetransfer_dirs, messages, others, Scan, In, Down, Typed, Sourced, HasSource, Sound
  <1>6. Progress'
    BY FilesAre DEF SysInv, init_filetransfer_dirs, messages, others, Scan, In, Down, Typed, Progress
  <1>7. Kept'
    BY KeptSame, FilesAre DEF SysInv, init_filetransfer_dirs, messages, others, Scan, In, Down, Typed
  <1>8. Arrived'
    BY ArrivedSame DEF SysInv, init_filetransfer_dirs, messages, others, Scan, In, Down
  <1> QED
    BY <1>1, <1>2, <1>3, <1>4, <1>5, <1>6, <1>7, <1>8 DEF SysInv

LEMMA FlushDirStep ==
  ASSUME SysInv, flush_dir
  PROVE  SysInv'
  <1>1. Typed'
    BY FilesAre DEF SysInv, flush_dir, messages, others, Scan, In, Down, Waiting, Typed, Pcs
  <1>2. Stored'
    BY FilesAre DEF SysInv, flush_dir, messages, others, Scan, In, Down, Waiting, Typed, Stored, Sound
  <1>3. Current'
    BY FilesAre DEF SysInv, flush_dir, messages, others, Scan, In, Down, Waiting, Typed, Current, Sound
  <1>4. Flushing'
    BY FilesAre DEF SysInv, flush_dir, messages, others, Scan, In, Down, Waiting, Typed, Flushing, Current
  <1>5. Sourced'
    BY FilesAre DEF SysInv, flush_dir, messages, others, Scan, In, Down, Waiting, Typed, Sourced, HasSource, Sound
  <1>6. Progress'
    BY FilesAre DEF SysInv, flush_dir, messages, others, Scan, In, Down, Waiting, Typed, Progress
  <1>7. Kept'
    BY KeptSame, FilesAre DEF SysInv, flush_dir, messages, others, Scan, In, Down, Waiting, Typed
  <1>8. Arrived'
    BY ArrivedSame DEF SysInv, flush_dir, messages, others, Scan, In, Down, Waiting
  <1> QED
    BY <1>1, <1>2, <1>3, <1>4, <1>5, <1>6, <1>7, <1>8 DEF SysInv

LEMMA FlushCompressStep ==
  ASSUME SysInv, flush_dir_compress
  PROVE  SysInv'
  <1>0. PICK f \in sys.todo : sys' = [sys EXCEPT !.pc = "gzopen", !.cur = f]
    BY DEF flush_dir_compress, messages, others
  <1>9. /\ f \in File /\ f \in disk /\ f.place = "compress" /\ sys.pc = "scan" /\ sys.stage = "compress"
        /\ UNCHANGED <<disk, transfers, sent, lost, dumped, torn, hasty, syslimit>>
    BY DEF flush_dir_compress, messages, others, SysInv, Typed, Flushing
  <1>10. ~f.gz /\ Sound(f)
    BY <1>9 DEF SysInv, Stored
  <1>11. /\ sys'.pc = "gzopen" /\ sys'.cur = f /\ sys'.stage = sys.stage /\ sys'.todo = sys.todo /\ sys'.n = sys.n
         /\ sys' \in [pc : Pcs, stage : {"none", "idle", "send", "compress", "orig"}, todo : SUBSET File,
                       cur : File \cup {None}, n : Nat]
    BY <1>9, <1>0 DEF SysInv, Typed, Pcs
  <1>1. Typed'
    BY <1>9, <1>10, <1>11, FilesAre DEF SysInv, Typed, Pcs
  <1>2. Stored'
    BY <1>9, <1>10, <1>11, FilesAre DEF SysInv, Typed, Stored, Sound
  <1>3. Current'
    BY <1>9, <1>10, <1>11, FilesAre DEF SysInv, Typed, Current, Sound
  <1>4. Flushing'
    BY <1>9, <1>10, <1>11, FilesAre DEF SysInv, Typed, Flushing, Current
  <1>5. Sourced'
    BY <1>9, <1>10, <1>11, FilesAre DEF SysInv, Typed, Sourced, HasSource, Sound
  <1>6. Progress'
    BY <1>9, <1>10, <1>11, FilesAre DEF SysInv, Typed, Progress
  <1>7. Kept'
    BY <1>9, <1>10, <1>11, KeptSame, FilesAre DEF SysInv, Typed
  <1>8. Arrived'
    BY <1>9, <1>10, <1>11, ArrivedSame DEF SysInv
  <1> QED
    BY <1>1, <1>2, <1>3, <1>4, <1>5, <1>6, <1>7, <1>8 DEF SysInv

LEMMA FlushOriginalStep ==
  ASSUME SysInv, flush_dir_original
  PROVE  SysInv'
  <1>0. PICK f \in In("orig") : sys' = [sys EXCEPT !.pc = "move", !.cur = f]
    BY DEF flush_dir_original, messages, others
  <1>9. /\ f \in File /\ f \in disk /\ f.place = "orig" /\ sys.pc = "scan" /\ sys.stage = "orig"
        /\ UNCHANGED <<disk, transfers, sent, lost, dumped, torn, hasty, syslimit>>
    BY DEF flush_dir_original, messages, others, SysInv, Typed, In
  <1>11. /\ sys'.pc = "move" /\ sys'.cur = f /\ sys'.stage = sys.stage /\ sys'.todo = sys.todo /\ sys'.n = sys.n
         /\ sys' \in [pc : Pcs, stage : {"none", "idle", "send", "compress", "orig"}, todo : SUBSET File,
                       cur : File \cup {None}, n : Nat]
    BY <1>9, <1>0 DEF SysInv, Typed, Pcs
  <1>1. Typed'
    BY <1>9, <1>11, FilesAre DEF SysInv, Typed, Pcs
  <1>2. Stored'
    BY <1>9, <1>11, FilesAre DEF SysInv, Typed, Stored, Sound
  <1>3. Current'
    BY <1>9, <1>11, FilesAre DEF SysInv, Typed, Current, Sound
  <1>4. Flushing'
    BY <1>9, <1>11, FilesAre DEF SysInv, Typed, Flushing, Current
  <1>5. Sourced'
    BY <1>9, <1>11, FilesAre DEF SysInv, Typed, Sourced, HasSource, Sound
  <1>6. Progress'
    BY <1>9, <1>11, FilesAre DEF SysInv, Typed, Progress
  <1>7. Kept'
    BY <1>9, <1>11, KeptSame, FilesAre DEF SysInv, Typed
  <1>8. Arrived'
    BY <1>9, <1>11, ArrivedSame DEF SysInv
  <1> QED
    BY <1>1, <1>2, <1>3, <1>4, <1>5, <1>6, <1>7, <1>8 DEF SysInv

LEMMA ProcessFilesStep ==
  ASSUME SysInv, process_files
  PROVE  SysInv'
  <1>0. \/ sys' = Waiting
        \/ \E f \in In("orig") : sys' = [sys EXCEPT !.pc = "move", !.cur = f]
    BY DEF process_files, messages, others
  <1>9. sys.pc = "idle" /\ UNCHANGED <<disk, transfers, sent, lost, dumped, torn, hasty, syslimit>>
    BY DEF process_files, messages, others
  <1>11. /\ sys' \in [pc : Pcs, stage : {"none", "idle", "send", "compress", "orig"}, todo : SUBSET File,
                       cur : File \cup {None}, n : Nat]
         /\ sys'.stage \in {"idle", "orig"} /\ sys'.n = 0
         /\ \/ sys'.pc = "idle" /\ sys'.stage = "idle"
            \/ sys'.pc = "move" /\ sys'.cur \in disk /\ sys'.cur \in File /\ sys'.cur.place = "orig"
    <2>1. CASE sys' = Waiting
      BY <2>1 DEF Waiting, Down, Pcs
    <2>2. CASE \E f \in In("orig") : sys' = [sys EXCEPT !.pc = "move", !.cur = f]
      <3>1. PICK f \in In("orig") : sys' = [sys EXCEPT !.pc = "move", !.cur = f]
        BY <2>2
      <3>2. f \in File /\ f \in disk /\ f.place = "orig"
        BY DEF In, SysInv, Typed
      <3>3. sys.stage \in {"idle", "orig"}
        BY <1>9 DEF SysInv, Flushing
      <3> QED
        BY <1>9, <3>1, <3>2, <3>3 DEF SysInv, Typed, Pcs, Progress
    <2> QED
      BY <1>0, <2>1, <2>2
  <1>1. Typed'
    BY <1>9, <1>11, FilesAre DEF SysInv, Typed, Pcs
  <1>2. Stored'
    BY <1>9, <1>11, FilesAre DEF SysInv, Typed, Stored, Sound
  <1>3. Current'
    BY <1>9, <1>11, FilesAre DEF SysInv, Typed, Current, Sound
  <1>4. Flushing'
    BY <1>9, <1>11, FilesAre DEF SysInv, Typed, Flushing, Current
  <1>5. Sourced'
    BY <1>9, <1>11, FilesAre DEF SysInv, Typed, Sourced, HasSource, Sound
  <1>6. Progress'
    BY <1>9, <1>11, FilesAre DEF SysInv, Typed, Progress
  <1>7. Kept'
    BY <1>9, <1>11, KeptSame, FilesAre DEF SysInv, Typed
  <1>8. Arrived'
    BY <1>9, <1>11, ArrivedSame DEF SysInv
  <1> QED
    BY <1>1, <1>2, <1>3, <1>4, <1>5, <1>6, <1>7, <1>8 DEF SysInv

LEMMA CrashStep ==
  ASSUME SysInv, SystemCrash
  PROVE  SysInv'
  <1>0. /\ sys' = Down /\ UNCHANGED <<disk, sent, dumped, hasty, syslimit>>
        /\ torn' = IF sys.pc = "gzclose" THEN torn \cup {sys.cur.dump} ELSE torn
        /\ transfers' = SubSeq(transfers, 1, sent)
        /\ lost' = lost \cup {transfers[k].serial.dump : k \in {i \in sent + 1 .. Len(transfers) : transfers[i].kind = "FLFI"}}
    BY DEF SystemCrash
  <1>9. /\ sys'.pc = "down" /\ sys'.stage = "none" /\ sys'.n = 0
        /\ sys' \in [pc : Pcs, stage : {"none", "idle", "send", "compress", "orig"}, todo : SUBSET File,
                      cur : File \cup {None}, n : Nat]
        /\ torn \subseteq torn' /\ (sys.pc = "gzclose" => sys.cur.dump \in torn')
    BY <1>0 DEF Down, Pcs
  <1>10. transfers \in Seq(Sent) /\ sent \in 0 .. Len(transfers) /\ Len(transfers) \in Nat
    BY DEF SysInv, Typed
  <1>11. /\ transfers' \in Seq(Sent) /\ Len(transfers') = sent /\ DOMAIN transfers' = 1 .. sent
         /\ \A i \in 1 .. sent : transfers'[i] = transfers[i] /\ i \in DOMAIN transfers
    BY <1>0, <1>10
  <1>12. /\ lost \subseteq lost'
         /\ \A j \in DOMAIN transfers :
              transfers[j].kind = "FLFI" => j \in 1 .. sent \/ transfers[j].serial.dump \in lost'
    BY <1>0, <1>10
  <1>1. Typed'
    <2>1. sent \in 0 .. sent /\ disk' = disk /\ dumped' = dumped /\ syslimit' = syslimit /\ sent' = sent
      BY <1>0, <1>10
    <2> QED
      BY <1>9, <1>11, <2>1 DEF SysInv, Typed
  <1>2. Stored'
    BY <1>0, <1>9, FilesAre DEF SysInv, Typed, Stored, Sound
  <1>3. Current'
    BY <1>0, <1>9, FilesAre DEF SysInv, Typed, Current, Sound
  <1>4. Flushing'
    BY <1>0, <1>9, FilesAre DEF SysInv, Typed, Flushing, Current
  <1>5. Sourced'
    BY <1>0, <1>9, FilesAre DEF SysInv, Typed, Sourced, HasSource, Sound
  <1>6. Progress'
    BY <1>0, <1>9, FilesAre DEF SysInv, Typed, Progress
  <1>7. Kept'
    <2> SUFFICES ASSUME NEW d \in dumped \ (torn' \cup lost')
                 PROVE  \/ \E f \in disk : f.dump = d /\ Sound(f)
                        \/ \E j \in DOMAIN transfers' :
                             transfers'[j].kind = "FLFI" /\ transfers'[j].serial.dump = d /\ Sound(transfers[j].serial)'
      BY <1>0 DEF Kept, Sound
    <2>1. d \in dumped \ (torn \cup lost) /\ (sys.pc = "gzclose" => sys.cur.dump # d)
      BY <1>9, <1>12
    <2>2. CASE \E f \in disk : f.dump = d /\ Sound(f)
      BY <2>2
    <2>3. CASE \E j \in DOMAIN transfers :
                 transfers[j].kind = "FLFI" /\ transfers[j].serial.dump = d /\ Sound(transfers[j].serial)
      <3>1. PICK j \in DOMAIN transfers :
                 transfers[j].kind = "FLFI" /\ transfers[j].serial.dump = d /\ Sound(transfers[j].serial)
        BY <2>3
      <3>2. j \in 1 .. sent
        BY <1>12, <3>1
      <3>3. j \in DOMAIN transfers' /\ transfers'[j] = transfers[j] /\ Sound(transfers[j].serial)'
        BY <1>0, <1>11, <3>1, <3>2 DEF Sound
      <3> QED
        BY <3>1, <3>3
    <2> QED
      BY <2>1, <2>2, <2>3 DEF SysInv, Kept
  <1>8. Arrived'
    <2> SUFFICES ASSUME NEW j \in DOMAIN transfers', transfers'[j].kind = "FLFI"
                 PROVE  /\ Received(j)' \/ transfers'[j].serial.dump \in lost'
                        /\ Sound(transfers[j].serial)' \/ transfers'[j].serial.dump \in torn'
      BY DEF Arrived
    <2>1. j \in DOMAIN transfers /\ transfers'[j] = transfers[j] /\ j \in Nat /\ j > 0
      BY <1>10, <1>11
    <2>2. \A i \in 1 .. j : transfers'[i] = transfers[i]
      BY <1>10, <1>11
    <2>3. Received(j) => Received(j)'
      BY <2>1, <2>2, ReceivedBefore
    <2> QED
      BY <1>0, <1>9, <1>12, <2>1, <2>3 DEF SysInv, Arrived, Sound
  <1> QED
    BY <1>1, <1>2, <1>3, <1>4, <1>5, <1>6, <1>7, <1>8 DEF SysInv

LEMMA DumpBeginsStep ==
  ASSUME SysInv, NEW d \in syslimit.dumps, DumpBegins(d)
  PROVE  SysInv'
  <1>0. /\ disk' = disk \cup {Dump(d, "orig")} /\ dumped' = dumped \cup {d}
        /\ UNCHANGED <<sys, transfers, sent, lost, torn, hasty, syslimit>>
    BY DEF DumpBegins, messages
  <1>9. d \in Dumps
    BY SystemAssumption DEF SysInv, Typed, SystemLimit
  <1>10. /\ Dump(d, "orig") \in File /\ Sound(Dump(d, "orig")) /\ Dump(d, "orig").dump = d
         /\ ~Dump(d, "orig").gz
    BY <1>9, FilesAre DEF Sound
  <1>1. Typed'
    BY <1>0, <1>9, <1>10 DEF SysInv, Typed, Pcs
  <1>2. Stored'
    BY <1>0, <1>9, <1>10 DEF SysInv, Typed, Stored, Sound
  <1>3. Current'
    BY <1>0, <1>9, <1>10 DEF SysInv, Typed, Current, Sound
  <1>4. Flushing'
    BY <1>0, <1>9, <1>10 DEF SysInv, Typed, Flushing, Current
  <1>5. Sourced'
    BY <1>0, <1>9, <1>10 DEF SysInv, Typed, Sourced, HasSource, Sound
  <1>6. Progress'
    BY <1>0, <1>9, <1>10 DEF SysInv, Typed, Progress
  <1>7. Kept'
    <2> SUFFICES ASSUME NEW e \in dumped' \ (torn \cup lost)
                 PROVE  \/ \E f \in disk' : f.dump = e /\ (Sound(f) \/ (sys.pc = "gzclose" /\ sys.cur.dump = e))
                        \/ \E j \in DOMAIN transfers :
                             transfers[j].kind = "FLFI" /\ transfers[j].serial.dump = e /\ Sound(transfers[j].serial)
      BY <1>0 DEF Kept, Sound
    <2>1. CASE e = d
      BY <1>0, <1>9, <1>10, <2>1
    <2>2. CASE e # d
      BY <1>0, <1>9, <1>10, <2>2 DEF SysInv, Kept
    <2> QED
      BY <2>1, <2>2
  <1>8. Arrived'
    BY <1>0, <1>9, <1>10, ArrivedSame DEF SysInv
  <1> QED
    BY <1>1, <1>2, <1>3, <1>4, <1>5, <1>6, <1>7, <1>8 DEF SysInv

\* The caller goes on, after a removal or not.
LEMMA ContinueStep ==
  ASSUME SysInv, NEW f \in File, sys.pc \in {"scan", "wait", "package"}, sys' = Continue(f),
         disk' = disk \/ (disk' = disk \ {f} /\ f.place = "send"),
         UNCHANGED <<dumped, torn, hasty, syslimit>>, Typed', Kept', Arrived'
  PROVE  SysInv'
  <1>9. \/ sys'.pc = "idle" /\ sys'.stage = "idle" /\ sys'.n = 0
        \/ sys'.n = 0 /\ sys'.pc = "scan" /\ sys'.stage = sys.stage /\ sys'.todo = sys.todo \ {f}
    BY DEF Continue, Waiting, Down, SysInv, Typed
  <1>10. disk' \subseteq disk /\ \A g \in disk : g # f => g \in disk'
    OBVIOUS
  <1>11. \A d : HasSource(d) => HasSource(d)'
    BY DEF HasSource
  <1>1. Typed'
    OBVIOUS
  <1>2. Stored'
    BY <1>9, <1>10, FilesAre DEF SysInv, Typed, Stored, Sound
  <1>3. Current'
    BY <1>9, <1>10, FilesAre DEF SysInv, Typed, Current, Sound
  <1>4. Flushing'
    BY <1>9, <1>10, FilesAre DEF SysInv, Typed, Flushing, Current
  <1>5. Sourced'
    <2> SUFFICES ASSUME NEW g \in disk', g.gz, ~Sound(g)
                 PROVE  g.dump \in torn \/ HasSource(g.dump)'
      BY DEF Sourced, Sound
    <2> QED
      BY <1>10, <1>11 DEF SysInv, Sourced, Typed, File
  <1>6. Progress'
    BY <1>9, <1>10, FilesAre DEF SysInv, Typed, Progress
  <1>7. Kept'
    OBVIOUS
  <1>8. Arrived'
    OBVIOUS
  <1> QED
    BY <1>1, <1>2, <1>3, <1>4, <1>5, <1>6, <1>7, <1>8 DEF SysInv

\* The flush ends, or the call for an event.
LEMMA GiveUpStep ==
  ASSUME SysInv, sys.pc # "gzclose", sys' = Waiting, UNCHANGED <<disk, transfers, sent, lost, dumped, torn, hasty, syslimit>>
  PROVE  SysInv'
  <1>0. /\ sys'.pc = "idle" /\ sys'.stage = "idle" /\ sys'.n = 0
        /\ sys' \in [pc : Pcs, stage : {"none", "idle", "send", "compress", "orig"}, todo : SUBSET File,
                      cur : File \cup {None}, n : Nat]
    BY DEF Waiting, Down, Pcs
  <1>1. Typed'
    BY <1>0, FilesAre DEF SysInv, Typed, Pcs
  <1>2. Stored'
    BY <1>0, FilesAre DEF SysInv, Typed, Stored, Sound
  <1>3. Current'
    BY <1>0, FilesAre DEF SysInv, Typed, Current, Sound
  <1>4. Flushing'
    BY <1>0, FilesAre DEF SysInv, Typed, Flushing, Current
  <1>5. Sourced'
    BY <1>0, FilesAre DEF SysInv, Typed, Sourced, HasSource, Sound
  <1>6. Progress'
    BY <1>0, FilesAre DEF SysInv, Typed, Progress
  <1>7. Kept'
    BY <1>0, KeptSame DEF SysInv
  <1>8. Arrived'
    BY <1>0, ArrivedSame DEF SysInv
  <1> QED
    BY <1>1, <1>2, <1>3, <1>4, <1>5, <1>6, <1>7, <1>8 DEF SysInv

LEMMA ContinueTyped ==
  ASSUME Typed, NEW f, sys' = Continue(f)
  PROVE  sys' \in [pc : Pcs, stage : {"none", "idle", "send", "compress", "orig"}, todo : SUBSET File,
                   cur : File \cup {None}, n : Nat]
  <1>1. CASE sys.stage = "idle"
    BY <1>1 DEF Continue, Waiting, Down, Pcs
  <1>2. CASE sys.stage # "idle"
    BY <1>2 DEF Continue, Typed, Pcs
  <1> QED
    BY <1>1, <1>2

LEMMA FlushSendStep ==
  ASSUME SysInv, flush_dir_send
  PROVE  SysInv'
  <1>0. PICK f \in sys.todo :
          IF f.gz /\ \E g \in In("compress") : g.dump = f.dump
          THEN sys' = Continue(f) /\ (disk' = disk \ {f} \/ disk' = disk)
          ELSE sys' = Sending(f) /\ disk' = disk
    BY DEF flush_dir_send, messages, others
  <1>1. /\ sys.pc = "scan" /\ sys.stage = "send" /\ f \in File /\ f \in disk /\ f.place = "send"
        /\ UNCHANGED <<transfers, sent, lost, dumped, torn, hasty, syslimit>>
    BY DEF flush_dir_send, messages, others, SysInv, Typed, Flushing
  <1>2. CASE f.gz /\ \E g \in In("compress") : g.dump = f.dump
    <2>1. sys' = Continue(f) /\ (disk' = disk \ {f} \/ disk' = disk)
      BY <1>0, <1>2
    <2>2. PICK g \in disk : g.place = "compress" /\ g.dump = f.dump
      BY <1>2 DEF In
    <2>3. g \in File /\ Sound(g) /\ g # f
      BY <1>1, <2>2 DEF SysInv, Typed, Stored, Whole
    <2>4. \A h \in disk : Sound(h) => h \in disk' \/ \E e \in disk' : e.dump = h.dump /\ Sound(e)'
      BY <1>1, <2>1, <2>2, <2>3 DEF Sound
    <2>5. Kept'
      BY <1>1, <2>4, KeptSame DEF SysInv
    <2>6. Arrived'
      BY <1>1, ArrivedSame DEF SysInv
    <2>7. Typed'
      BY <1>1, <2>1, ContinueTyped DEF SysInv, Typed
    <2> QED
      BY <1>1, <2>1, <2>5, <2>6, <2>7, ContinueStep
  <1>3. CASE ~(f.gz /\ \E g \in In("compress") : g.dump = f.dump)
    <2>1. sys' = Sending(f) /\ disk' = disk
      BY <1>0, <1>3
    <2>2. /\ sys'.pc = "wait" /\ sys'.n = 0 /\ sys'.cur = f /\ sys'.stage = sys.stage /\ sys'.todo = sys.todo
          /\ sys' \in [pc : Pcs, stage : {"none", "idle", "send", "compress", "orig"}, todo : SUBSET File,
                        cur : File \cup {None}, n : Nat]
      BY <1>1, <2>1 DEF Sending, SysInv, Typed, Pcs
    <2>3. Sound(f) \/ f.dump \in torn
      <3>1. CASE f.gz
        <4>1. f.dump \in Dumps
          BY <1>1 DEF File
        <4>2. ~HasSource(f.dump)
          BY <1>3, <3>1, <4>1 DEF In, HasSource
        <4> QED
          BY <1>1, <3>1, <4>2 DEF SysInv, Sourced
      <3>2. CASE ~f.gz
        BY <1>1, <3>2 DEF SysInv, Stored, Whole
      <3> QED
        BY <3>1, <3>2
    <2>4. Typed' /\ Stored' /\ Flushing' /\ Sourced' /\ Progress'
      BY <1>1, <2>1, <2>2 DEF SysInv, Typed, Stored, Flushing, Sourced, HasSource, Progress, Sound
    <2>5. Current'
      BY <1>1, <2>1, <2>2, <2>3 DEF Current, Sound
    <2>6. Kept'
      BY <1>1, <2>1, KeptSame DEF SysInv
    <2>7. Arrived'
      BY <1>1, ArrivedSame DEF SysInv
    <2> QED
      BY <2>4, <2>5, <2>6, <2>7 DEF SysInv
  <1> QED
    BY <1>2, <1>3

LEMMA SendOneStep ==
  ASSUME SysInv, send_one
  PROVE  SysInv'
  <1>0. /\ sys.pc = "move" /\ sys.stage \in {"idle", "orig"} /\ sys.n = 0
        /\ sys.cur \in File /\ sys.cur \in disk /\ sys.cur.place = "orig" /\ sys.cur.dump \in Dumps
        /\ UNCHANGED <<transfers, sent, lost, dumped, torn, syslimit>>
    BY DEF send_one, messages, others, SysInv, Current, Flushing, Progress, File
  <1>1. CASE sys' = Waiting /\ disk' = disk /\ hasty' = hasty
    BY <1>0, <1>1, GiveUpStep
  <1>2. ASSUME NEW len \in Written(sys.cur), NEW to,
               to = [sys.cur EXCEPT !.place = IF syslimit.compress THEN "compress" ELSE "send", !.len = len],
               disk' = (disk \ {sys.cur}) \cup {to},
               sys' = [sys EXCEPT !.pc = IF syslimit.compress THEN "gzopen" ELSE "wait", !.cur = to,
                                  !.todo = @ \ {sys.cur}],
               hasty' = hasty \cup ({sys.cur.dump} \cap writing)
        PROVE  SysInv'
    <2>1. PICK p \in {"compress", "send"} :
            to = [sys.cur EXCEPT !.place = p, !.len = len] /\ sys'.pc = IF p = "compress" THEN "gzopen" ELSE "wait"
      <3>1. CASE syslimit.compress
        BY <1>2, <3>1 DEF SysInv, Typed
      <3>2. CASE ~syslimit.compress
        BY <1>2, <3>2 DEF SysInv, Typed
      <3> QED
        BY <3>1, <3>2
    <2>2. /\ len \in Nat /\ (sys.cur.dump \in writing \/ len = sys.cur.len) /\ ~sys.cur.gz /\ Sound(sys.cur)
      <3>1. ~sys.cur.gz /\ Sound(sys.cur) /\ sys.cur.len \in Nat
        BY <1>0 DEF SysInv, Stored, File
      <3> QED
        BY <1>2, <3>1 DEF Written
    <2>3. /\ to \in File /\ to.dump = sys.cur.dump /\ to.place = p /\ ~to.gz /\ to.len = len
      BY <1>0, <2>1, <2>2 DEF File
    <2>4. Sound(to)'
      BY <1>2, <2>2, <2>3 DEF Sound, Whole
    <2>5. \A f : Sound(f) => Sound(f)'
      BY <1>2 DEF Sound
    <2>6. /\ sys'.cur = to /\ sys'.stage = sys.stage /\ sys'.n = 0
          /\ sys' \in [pc : Pcs, stage : {"none", "idle", "send", "compress", "orig"}, todo : SUBSET File,
                        cur : File \cup {None}, n : Nat]
      BY <1>0, <1>2, <2>1, <2>3 DEF SysInv, Typed, Pcs
    <2>7. Typed' /\ Stored'
      BY <1>0, <1>2, <2>3, <2>4, <2>5, <2>6 DEF SysInv, Typed, Stored
    <2>8. Current' /\ Flushing' /\ Progress'
      BY <1>0, <1>2, <2>1, <2>3, <2>4, <2>6 DEF Current, Flushing, Progress
    <2>9. Sourced'
      <3> SUFFICES ASSUME NEW g \in disk', g.gz, ~Sound(g)'
                   PROVE  g.dump \in torn \/ HasSource(g.dump)'
        BY <1>0 DEF Sourced
      <3>1. g \in disk /\ ~Sound(g)
        BY <1>2, <2>3, <2>5
      <3>2. HasSource(g.dump) => HasSource(g.dump)'
        BY <1>0, <1>2 DEF HasSource
      <3> QED
        BY <1>0, <3>1, <3>2 DEF SysInv, Sourced
    <2>10. Kept'
      BY <1>0, <1>2, <2>3, <2>4, KeptSame DEF SysInv
    <2>11. Arrived'
      BY <1>0, <1>2, ArrivedSame DEF SysInv
    <2> QED
      BY <2>7, <2>8, <2>9, <2>10, <2>11 DEF SysInv
  <1> QED
    BY <1>1, <1>2 DEF send_one, GiveUp

\* Where a file is being compressed.
LEMMA Compressing ==
  ASSUME SysInv, sys.pc \in {"gzopen", "gzwrite", "gzremove", "gzclose"}
  PROVE  /\ sys.cur \in File /\ sys.cur.dump \in Dumps /\ sys.cur.len \in Nat
         /\ sys.cur.place = "compress" /\ ~sys.cur.gz /\ Sound(sys.cur) /\ sys.stage # "send" /\ sys.n = 0
         /\ sys.pc # "gzclose" => sys.cur \in disk
         /\ sys.pc # "gzopen" => /\ Compressed \in disk /\ Compressed.gz /\ Compressed.dump = sys.cur.dump
                                 /\ \A f \in disk : f.gz /\ f.dump = sys.cur.dump => f = Compressed
  <1>1. /\ sys.cur \in File /\ sys.cur.place = "compress" /\ ~sys.cur.gz /\ Sound(sys.cur)
        /\ sys.stage # "send" /\ sys.n = 0
    BY DEF SysInv, Current, Flushing, Progress
  <1>2. sys.cur.dump \in Dumps /\ sys.cur.len \in Nat
    BY <1>1 DEF File
  <1>5. sys.pc # "gzclose" => sys.cur \in disk
    BY DEF SysInv, Current
  <1>6. ASSUME sys.pc # "gzopen"
        PROVE  /\ Compressed \in disk /\ Compressed.gz /\ Compressed.dump = sys.cur.dump
               /\ \A f \in disk : f.gz /\ f.dump = sys.cur.dump => f = Compressed
    <2>1. \E f \in disk : f.gz /\ f.dump = sys.cur.dump
      BY <1>6 DEF SysInv, Current
    <2>2. Compressed \in disk /\ Compressed.gz /\ Compressed.dump = sys.cur.dump
      BY <2>1 DEF Compressed
    <2> QED
      BY <2>2 DEF SysInv, Stored
  <1> QED
    BY <1>1, <1>2, <1>5, <1>6

LEMMA GzOpenStep ==
  ASSUME SysInv, gzopen
  PROVE  SysInv'
  <1> DEFINE d == sys.cur.dump
  <1>0. sys.pc = "gzopen" /\ UNCHANGED <<transfers, sent, lost, dumped, torn, hasty, syslimit>>
    BY DEF gzopen, messages, others
  <1>3. /\ sys.cur \in File /\ d \in Dumps /\ sys.cur.len \in Nat /\ sys.cur \in disk
        /\ sys.cur.place = "compress" /\ ~sys.cur.gz /\ Sound(sys.cur) /\ sys.stage # "send" /\ sys.n = 0
    BY <1>0, Compressing
  <1>1. CASE sys' = Waiting /\ disk' = disk
    BY <1>0, <1>1, GiveUpStep
  <1>2. CASE /\ disk' = {f \in disk : ~(f.gz /\ f.dump = d)} \cup {Gz(d, 0)}
             /\ sys' = [sys EXCEPT !.pc = "gzwrite"]
    <2>1. Gz(d, 0) \in File /\ Gz(d, 0).dump = d /\ Gz(d, 0).gz /\ Gz(d, 0).place = "send"
      BY <1>3, FilesAre
    <2>2. /\ sys'.pc = "gzwrite" /\ sys'.cur = sys.cur /\ sys'.stage = sys.stage /\ sys'.n = 0 /\ sys'.todo = sys.todo
          /\ sys' \in [pc : Pcs, stage : {"none", "idle", "send", "compress", "orig"}, todo : SUBSET File,
                        cur : File \cup {None}, n : Nat]
      BY <1>2, <1>3 DEF SysInv, Typed, Pcs
    <2>3. sys.cur \in disk' /\ Gz(d, 0) \in disk'
      BY <1>2, <1>3
    <2>4. Typed' /\ Stored'
      BY <1>0, <1>2, <1>3, <2>1, <2>2 DEF SysInv, Typed, Stored, Sound
    <2>5. Current' /\ Progress'
      BY <1>0, <1>3, <2>1, <2>2, <2>3 DEF Current, Progress, Sound
    <2>6. Flushing'
      <3>1. ASSUME NEW f \in sys.todo, sys.stage = "compress" PROVE f.place = "compress" /\ f \in disk'
        <4>1. f.place = "compress" /\ f \in disk
          BY <1>0, <3>1 DEF SysInv, Flushing
        <4>2. ~f.gz
          BY <4>1 DEF SysInv, Stored
        <4> QED
          BY <1>2, <4>1, <4>2
      <3> QED
        BY <1>3, <2>2, <3>1 DEF Flushing
    <2>7. Sourced'
      <3> SUFFICES ASSUME NEW g \in disk', g.gz, ~Sound(g)
                   PROVE  g.dump \in torn \/ HasSource(g.dump)'
        BY <1>0 DEF Sourced, Sound
      <3>1. CASE g = Gz(d, 0)
        BY <1>3, <2>1, <2>3, <3>1 DEF HasSource
      <3>2. CASE g # Gz(d, 0)
        <4>1. g \in disk /\ g.dump \in Dumps
          BY <1>2, <3>2 DEF SysInv, Typed, File
        <4>2. HasSource(g.dump) => HasSource(g.dump)'
          BY <1>2 DEF SysInv, Stored, HasSource
        <4> QED
          BY <1>0, <4>1, <4>2 DEF SysInv, Sourced
      <3> QED
        BY <3>1, <3>2
    <2>8. Kept'
      <3>1. \A f \in disk : Sound(f) => f \in disk' \/ \E g \in disk' : g.dump = f.dump /\ Sound(g)'
        BY <1>0, <1>2, <1>3, <2>3 DEF Sound
      <3> QED
        BY <1>0, <3>1, KeptSame DEF SysInv
    <2>9. Arrived'
      BY <1>0, ArrivedSame DEF SysInv
    <2> QED
      BY <2>4, <2>5, <2>6, <2>7, <2>8, <2>9 DEF SysInv
  <1> QED
    BY <1>1, <1>2 DEF gzopen, messages, others, GiveUp

\* A compressed file is replaced by one of another length.
LEMMA Rewritten ==
  ASSUME SysInv, sys.pc \in {"gzwrite", "gzclose"}, NEW len \in Nat,
         disk' = (disk \ {Compressed}) \cup {Gz(sys.cur.dump, len)}
  PROVE  /\ disk' \subseteq File
         /\ Gz(sys.cur.dump, len) \in File /\ Gz(sys.cur.dump, len).dump = sys.cur.dump
         /\ Gz(sys.cur.dump, len).gz /\ Gz(sys.cur.dump, len).place = "send"
         /\ \A f \in disk' : f.dump \in dumped /\ (f.gz => f.place = "send") /\ (~f.gz => Sound(f))
         /\ \A f, g \in disk' : f.gz /\ g.gz /\ f.dump = g.dump => f = g
         /\ \A f \in disk : ~f.gz \/ f.dump # sys.cur.dump => f \in disk'
         /\ \A f \in disk' : f \in disk \/ f = Gz(sys.cur.dump, len)
         /\ \A f \in disk' : f.gz /\ f.dump = sys.cur.dump => f = Gz(sys.cur.dump, len)
  <1> DEFINE d == sys.cur.dump
  <1>1. /\ d \in Dumps /\ Compressed \in disk /\ Compressed.gz /\ Compressed.dump = d
        /\ \A f \in disk : f.gz /\ f.dump = d => f = Compressed
    BY Compressing
  <1>2. Gz(d, len) \in File /\ Gz(d, len).dump = d /\ Gz(d, len).gz /\ Gz(d, len).place = "send"
    BY <1>1, FilesAre
  <1>3. disk' \subseteq File
    BY <1>2 DEF SysInv, Typed
  <1>4. \A f \in disk' : f.dump \in dumped /\ (f.gz => f.place = "send") /\ (~f.gz => Sound(f))
    BY <1>1, <1>2 DEF SysInv, Stored
  <1>5. \A f \in disk' : f.gz /\ f.dump = d => f = Gz(d, len)
    BY <1>1
  <1>6. \A f, g \in disk' : f.gz /\ g.gz /\ f.dump = g.dump => f = g
    BY <1>1, <1>2, <1>5 DEF SysInv, Stored
  <1> QED
    BY <1>1, <1>2, <1>3, <1>4, <1>5, <1>6

LEMMA GzWriteStep ==
  ASSUME SysInv, gzwrite
  PROVE  SysInv'
  <1> DEFINE d == sys.cur.dump
  <1>0. sys.pc = "gzwrite" /\ UNCHANGED <<transfers, sent, lost, dumped, torn, hasty, syslimit>>
    BY DEF gzwrite, messages, others
  <1>3. /\ sys.cur \in File /\ d \in Dumps /\ sys.cur.len \in Nat /\ sys.cur \in disk
        /\ sys.cur.place = "compress" /\ ~sys.cur.gz /\ Sound(sys.cur) /\ sys.stage # "send" /\ sys.n = 0
    BY <1>0, Compressing
  <1>1. CASE sys' = Waiting /\ disk' = disk
    BY <1>0, <1>1, GiveUpStep
  <1>2. ASSUME NEW len \in 0 .. GzLen(sys.cur.len) - 1, disk' = (disk \ {Compressed}) \cup {Gz(d, len)},
               sys' = [sys EXCEPT !.pc = "gzremove"]
        PROVE  SysInv'
    <2>0. len \in Nat
      BY <1>3, FilesAre
    <2>1. /\ disk' \subseteq File
          /\ Gz(d, len) \in File /\ Gz(d, len).dump = d /\ Gz(d, len).gz /\ Gz(d, len).place = "send"
          /\ \A f \in disk' : f.dump \in dumped /\ (f.gz => f.place = "send") /\ (~f.gz => Sound(f))
          /\ \A f, g \in disk' : f.gz /\ g.gz /\ f.dump = g.dump => f = g
          /\ \A f \in disk : ~f.gz \/ f.dump # d => f \in disk'
          /\ \A f \in disk' : f \in disk \/ f = Gz(d, len)
      BY <1>0, <1>2, <2>0, Rewritten
    <2>2. /\ sys'.pc = "gzremove" /\ sys'.cur = sys.cur /\ sys'.stage = sys.stage /\ sys'.n = 0 /\ sys'.todo = sys.todo
          /\ sys' \in [pc : Pcs, stage : {"none", "idle", "send", "compress", "orig"}, todo : SUBSET File,
                        cur : File \cup {None}, n : Nat]
      BY <1>2, <1>3 DEF SysInv, Typed, Pcs
    <2>3. sys.cur \in disk' /\ Gz(d, len) \in disk'
      BY <1>2, <1>3, <2>1
    <2>4. Typed' /\ Stored'
      BY <1>0, <2>1, <2>2 DEF SysInv, Typed, Stored, Sound
    <2>5. Current' /\ Progress'
      BY <1>0, <1>3, <2>1, <2>2, <2>3 DEF Current, Progress, Sound
    <2>6. Flushing'
      <3>1. ASSUME NEW f \in sys.todo, sys.stage = "compress" PROVE f.place = "compress" /\ f \in disk'
        <4>1. f.place = "compress" /\ f \in disk
          BY <1>0, <3>1 DEF SysInv, Flushing
        <4>2. ~f.gz
          BY <4>1 DEF SysInv, Stored
        <4> QED
          BY <2>1, <4>1, <4>2
      <3> QED
        BY <1>3, <2>2, <3>1 DEF Flushing
    <2>7. Sourced'
      <3> SUFFICES ASSUME NEW g \in disk', g.gz, ~Sound(g)
                   PROVE  g.dump \in torn \/ HasSource(g.dump)'
        BY <1>0 DEF Sourced, Sound
      <3>1. CASE g = Gz(d, len)
        BY <1>3, <2>1, <2>3, <3>1 DEF HasSource
      <3>2. CASE g # Gz(d, len)
        <4>1. g \in disk /\ g.dump \in Dumps
          BY <2>1, <3>2 DEF SysInv, Typed, File
        <4>2. HasSource(g.dump) => HasSource(g.dump)'
          BY <2>1 DEF SysInv, Stored, HasSource
        <4> QED
          BY <1>0, <4>1, <4>2 DEF SysInv, Sourced
      <3> QED
        BY <3>1, <3>2
    <2>8. Kept'
      <3>1. \A f \in disk : Sound(f) => f \in disk' \/ \E g \in disk' : g.dump = f.dump /\ Sound(g)'
        BY <1>0, <1>3, <2>1, <2>3 DEF Sound
      <3> QED
        BY <1>0, <3>1, KeptSame DEF SysInv
    <2>9. Arrived'
      BY <1>0, ArrivedSame DEF SysInv
    <2> QED
      BY <2>4, <2>5, <2>6, <2>7, <2>8, <2>9 DEF SysInv
  <1> QED
    BY <1>1, <1>2 DEF gzwrite, messages, others, GiveUp

LEMMA RemoveSourceStep ==
  ASSUME SysInv, RemoveSource
  PROVE  SysInv'
  <1> DEFINE d == sys.cur.dump
  <1>0. /\ sys.pc = "gzremove" /\ sys' = [sys EXCEPT !.pc = "gzclose"]
        /\ UNCHANGED <<transfers, sent, lost, dumped, torn, hasty, syslimit>>
    BY DEF RemoveSource, messages, others
  <1>1. /\ sys.cur \in File /\ d \in Dumps /\ sys.cur.len \in Nat /\ sys.cur \in disk
        /\ sys.cur.place = "compress" /\ ~sys.cur.gz /\ Sound(sys.cur) /\ sys.stage # "send" /\ sys.n = 0
        /\ Compressed \in disk /\ Compressed.gz /\ Compressed.dump = d
    BY <1>0, Compressing
  <1>2. disk' = disk \ {sys.cur} \/ disk' = disk
    BY <1>1 DEF RemoveSource, messages, others
  <1>3. disk' \subseteq disk /\ Compressed \in disk' /\ \A f \in disk : f # sys.cur => f \in disk'
    BY <1>1, <1>2
  <1>4. /\ sys'.pc = "gzclose" /\ sys'.cur = sys.cur /\ sys'.stage = sys.stage /\ sys'.n = 0 /\ sys'.todo = sys.todo
        /\ sys' \in [pc : Pcs, stage : {"none", "idle", "send", "compress", "orig"}, todo : SUBSET File,
                      cur : File \cup {None}, n : Nat]
    BY <1>0, <1>1 DEF SysInv, Typed, Pcs
  <1>5. Typed' /\ Stored'
    BY <1>0, <1>3, <1>4 DEF SysInv, Typed, Stored, Sound
  <1>6. Current' /\ Progress'
    BY <1>0, <1>1, <1>3, <1>4 DEF Current, Progress, Sound
  <1>7. Flushing'
    BY <1>0, <1>1, <1>3, <1>4 DEF SysInv, Flushing
  <1>8. Sourced'
    <2> SUFFICES ASSUME NEW g \in disk', g.gz, ~Sound(g), g.dump # d
                 PROVE  g.dump \in torn \/ HasSource(g.dump)'
      BY <1>0, <1>4 DEF Sourced, Sound
    <2>1. g \in disk /\ g.dump \in Dumps
      BY <1>3 DEF SysInv, Typed, File
    <2>2. HasSource(g.dump) => HasSource(g.dump)'
      BY <1>3 DEF HasSource
    <2> QED
      BY <1>0, <1>3, <2>1, <2>2 DEF SysInv, Sourced
  <1>9. Kept'
    <2> SUFFICES ASSUME NEW e \in dumped \ (torn \cup lost)
                 PROVE  \/ \E f \in disk' : f.dump = e /\ (Sound(f) \/ d = e)
                        \/ \E j \in DOMAIN transfers :
                             transfers[j].kind = "FLFI" /\ transfers[j].serial.dump = e /\ Sound(transfers[j].serial)
      BY <1>0, <1>4 DEF Kept, Sound
    <2>1. CASE e = d
      BY <1>1, <1>3, <2>1
    <2>2. CASE e # d
      BY <1>0, <1>3, <2>2 DEF SysInv, Kept
    <2> QED
      BY <2>1, <2>2
  <1>10. Arrived'
    BY <1>0, ArrivedSame DEF SysInv
  <1> QED
    BY <1>5, <1>6, <1>7, <1>8, <1>9, <1>10 DEF SysInv

LEMMA GzCloseStep ==
  ASSUME SysInv, gzclose
  PROVE  SysInv'
  <1> DEFINE d == sys.cur.dump
  <1>0. sys.pc = "gzclose" /\ UNCHANGED <<transfers, sent, lost, dumped, hasty, syslimit>>
    BY DEF gzclose, messages, others
  <1>1. /\ sys.cur \in File /\ d \in Dumps /\ sys.cur.place = "compress" /\ ~sys.cur.gz
        /\ sys.stage # "send" /\ sys.n = 0 /\ Sound(sys.cur) /\ sys.cur.len \in Nat
        /\ Compressed \in disk /\ Compressed.gz /\ Compressed.dump = d
    BY <1>0, Compressing
  <1> DEFINE l == GzLen(sys.cur.len)
  <1>2. l \in Nat /\ Sound(Gz(d, l))
    <2>1. l \in Nat
      BY <1>1, FilesAre
    <2>2. d \in hasty \/ sys.cur.len = DumpSize[d]
      BY <1>1 DEF Sound, Whole
    <2> QED
      BY <1>1, <2>1, <2>2, FilesAre DEF Sound
  <1> HIDE DEF l
  <1>3. PICK c :
          /\ c \in File /\ c \in disk' /\ c.dump = d /\ c.gz /\ c.place = "send"
          /\ sys' = [sys EXCEPT !.pc = "wait", !.cur = c, !.todo = @ \ {sys.cur}]
          /\ torn \subseteq torn' /\ (Sound(c) \/ d \in torn')
          /\ disk' \subseteq File
          /\ \A f \in disk' : f.dump \in dumped /\ (f.gz => f.place = "send") /\ (~f.gz => Sound(f))
          /\ \A f, g \in disk' : f.gz /\ g.gz /\ f.dump = g.dump => f = g
          /\ \A f \in disk : ~f.gz \/ f.dump # d => f \in disk'
          /\ \A f \in disk' : f # c => f \in disk
    <2>1. CASE /\ disk' = (disk \ {Compressed}) \cup {Gz(d, l)} /\ torn' = torn
               /\ sys' = [sys EXCEPT !.pc = "wait", !.cur = Gz(d, l), !.todo = @ \ {sys.cur}]
      <3> DEFINE c == Gz(d, l)
      <3>1. /\ c \in File /\ c.dump = d /\ c.gz /\ c.place = "send" /\ disk' \subseteq File
            /\ \A f \in disk' : f.dump \in dumped /\ (f.gz => f.place = "send") /\ (~f.gz => Sound(f))
            /\ \A f, g \in disk' : f.gz /\ g.gz /\ f.dump = g.dump => f = g
            /\ \A f \in disk : ~f.gz \/ f.dump # d => f \in disk'
            /\ \A f \in disk' : f \in disk \/ f = c
        BY <1>0, <1>2, <2>1, Rewritten
      <3>2. c \in disk' /\ Sound(c)
        BY <1>2, <2>1
      <3> QED
        BY <2>1, <3>1, <3>2
    <2>2. CASE /\ torn' = torn \cup {d} /\ disk' = disk
               /\ sys' = [sys EXCEPT !.pc = "wait", !.cur = Compressed, !.todo = @ \ {sys.cur}]
      <3>1. Compressed \in File /\ Compressed.place = "send"
        BY <1>1 DEF SysInv, Typed, Stored, Sound
      <3> QED
        BY <1>1, <2>2, <3>1 DEF SysInv, Typed, Stored, Sound
    <2> QED
      BY <2>1, <2>2 DEF gzclose, l
  <1>4. /\ sys'.pc = "wait" /\ sys'.cur = c /\ sys'.stage = sys.stage /\ sys'.n = 0 /\ sys'.todo = sys.todo \ {sys.cur}
        /\ sys' \in [pc : Pcs, stage : {"none", "idle", "send", "compress", "orig"}, todo : SUBSET File,
                      cur : File \cup {None}, n : Nat]
    BY <1>1, <1>3 DEF SysInv, Typed, Pcs
  <1>5. Typed' /\ Stored'
    BY <1>0, <1>3, <1>4 DEF SysInv, Typed, Stored, Sound
  <1>6. Current' /\ Progress'
    BY <1>0, <1>3, <1>4 DEF Current, Progress, Sound
  <1>7. Flushing'
    <2>1. ASSUME NEW f \in sys.todo, f # sys.cur, sys.stage = "compress" PROVE f.place = "compress" /\ f \in disk'
      <3>1. f.place = "compress" /\ f \in disk
        BY <1>0, <2>1 DEF SysInv, Flushing
      <3>2. ~f.gz
        BY <3>1 DEF SysInv, Stored
      <3> QED
        BY <1>3, <3>1, <3>2
    <2> QED
      BY <1>1, <1>4, <2>1 DEF Flushing
  <1>8. Sourced'
    <2> SUFFICES ASSUME NEW g \in disk', g.gz, ~Sound(g)
                 PROVE  g.dump \in torn' \/ HasSource(g.dump)'
      BY <1>0 DEF Sourced, Sound
    <2>1. CASE g = c
      BY <1>3, <2>1
    <2>2. CASE g # c
      <3>1. g \in disk /\ g.dump \in Dumps /\ g.dump # d
        BY <1>3, <2>2 DEF File
      <3>2. HasSource(g.dump) => HasSource(g.dump)'
        BY <1>3 DEF SysInv, Stored, HasSource
      <3> QED
        BY <1>0, <1>3, <3>1, <3>2 DEF SysInv, Sourced
    <2> QED
      BY <2>1, <2>2
  <1>9. Kept'
    <2> SUFFICES ASSUME NEW e \in dumped \ (torn' \cup lost)
                 PROVE  \/ \E f \in disk' : f.dump = e /\ Sound(f)
                        \/ \E j \in DOMAIN transfers :
                             transfers[j].kind = "FLFI" /\ transfers[j].serial.dump = e /\ Sound(transfers[j].serial)
      BY <1>0 DEF Kept, Sound
    <2>1. CASE e = d
      BY <1>3, <2>1
    <2>2. CASE e # d
      BY <1>0, <1>3, <2>2 DEF SysInv, Kept
    <2> QED
      BY <2>1, <2>2
  <1>10. Arrived'
    BY <1>0, <1>3, ArrivedSame DEF SysInv
  <1> QED
    BY <1>5, <1>6, <1>7, <1>8, <1>9, <1>10 DEF SysInv

\* A message behind which the dumps are as before.
LEMMA KeptAppend ==
  ASSUME Typed, Kept, NEW m \in Sent, transfers' = Append(transfers, m), UNCHANGED <<dumped, torn, hasty>>,
         lost \subseteq lost', sys.pc # "gzclose",
         \A f \in disk : Sound(f) => f \in disk' \/ (m.kind = "FLFI" /\ m.serial = f)
  PROVE  Kept'
  <1> SUFFICES ASSUME NEW d \in dumped \ (torn \cup lost)
               PROVE  \/ \E f \in disk' : f.dump = d /\ Sound(f)
                      \/ \E j \in DOMAIN transfers' :
                           transfers'[j].kind = "FLFI" /\ transfers'[j].serial.dump = d /\ Sound(transfers'[j].serial)
    BY DEF Kept, Sound
  <1>1. /\ DOMAIN transfers' = 1 .. Len(transfers) + 1 /\ transfers'[Len(transfers) + 1] = m
        /\ \A i \in 1 .. Len(transfers) : transfers'[i] = transfers[i]
        /\ Len(transfers) \in Nat /\ DOMAIN transfers = 1 .. Len(transfers)
    BY DEF Typed
  <1>2. Len(transfers) + 1 \in DOMAIN transfers' /\ \A j \in DOMAIN transfers : j \in DOMAIN transfers'
    BY <1>1
  <1>3. CASE \E f \in disk : f.dump = d /\ Sound(f)
    BY <1>1, <1>2, <1>3
  <1>4. CASE \E j \in DOMAIN transfers :
               transfers[j].kind = "FLFI" /\ transfers[j].serial.dump = d /\ Sound(transfers[j].serial)
    BY <1>1, <1>2, <1>4
  <1> QED
    BY <1>3, <1>4 DEF Kept

\* A message is dropped, and counts as lost, or follows the others.
LEMMA MessageIs ==
  ASSUME Typed, NEW m \in Sent, NEW bad, LogMessage(m, bad)
  PROVE  /\ transfers' \in Seq(Sent) /\ sent' \in 0 .. Len(transfers') /\ lost \subseteq lost'
         /\ \/ transfers' = transfers /\ m.serial.dump \in lost'
            \/ transfers' = Append(transfers, m) /\ lost' = lost \cup bad
         /\ buffer # "full" => transfers' = Append(transfers, m)
  <1>1. transfers \in Seq(Sent) /\ sent \in 0 .. Len(transfers)
    BY DEF Typed
  <1>2. CASE buffer = "full"
    BY <1>1, <1>2 DEF LogMessage
  <1>3. CASE buffer # "full"
    <2>1. /\ transfers' = Append(transfers, m) /\ lost' = lost \cup bad
          /\ sent' = IF buffer = "empty" THEN Len(transfers) + 1 ELSE sent
      BY <1>3 DEF LogMessage
    <2>2. transfers' \in Seq(Sent) /\ Len(transfers') = Len(transfers) + 1 /\ Len(transfers) \in Nat
      BY <1>1, <2>1
    <2> QED
      BY <1>1, <1>3, <2>1, <2>2
  <1> QED
    BY <1>2, <1>3

\* A call for the file fails and nothing is logged.
LEMMA SkipStep ==
  ASSUME SysInv, sys.pc \in {"wait", "package"}, sys' = Continue(sys.cur),
         UNCHANGED <<disk, transfers, sent, lost, dumped, torn, hasty, syslimit>>
  PROVE  SysInv'
  <1>1. sys.cur \in File
    BY DEF SysInv, Current
  <1>2. Typed'
    BY ContinueTyped DEF SysInv, Typed
  <1>3. Kept'
    BY KeptSame DEF SysInv
  <1>4. Arrived'
    BY ArrivedSame DEF SysInv
  <1> QED
    BY <1>1, <1>2, <1>3, <1>4, ContinueStep

LEMMA SendHeaderStep ==
  ASSUME SysInv, SendHeader
  PROVE  SysInv'
  <1> DEFINE f == sys.cur
             count == PackagesOf(f.len)
  <1>0. sys.pc = "wait" /\ UNCHANGED <<disk, dumped, torn, hasty, syslimit>>
    BY DEF SendHeader, others
  <1>1. f \in File /\ f.len \in Nat /\ sys.n = 0
    BY <1>0 DEF SysInv, Current, Progress, File
  <1>2. count \in Nat
    BY <1>1, PackagesCover
  <1>3. CASE sys' = Continue(f) /\ UNCHANGED <<transfers, sent, lost>>
    BY <1>0, <1>3, SkipStep
  <1>4. ASSUME NEW c \in Int, NEW bad, NEW n \in 0 .. count, LogMessage(FLST(f, f.len, c), bad),
               sys' = [sys EXCEPT !.pc = "package", !.n = n],
               f.dump \in bad \/ (n = 0 /\ c = count)
        PROVE  SysInv'
    <2> DEFINE m == FLST(f, f.len, c)
    <2>1. m \in Sent /\ m.kind = "FLST" /\ m.serial = f
      BY <1>1, <1>4, MessagesAre
    <2>2. /\ transfers' \in Seq(Sent) /\ sent' \in 0 .. Len(transfers') /\ lost \subseteq lost'
          /\ \/ transfers' = transfers /\ f.dump \in lost'
             \/ transfers' = Append(transfers, m) /\ lost' = lost \cup bad
      <3>1. LogMessage(m, bad) /\ Typed
        BY <1>4 DEF SysInv
      <3> HIDE DEF m
      <3> QED
        BY <2>1, <3>1, MessageIs
    <2>3. /\ sys'.pc = "package" /\ sys'.cur = f /\ sys'.stage = sys.stage /\ sys'.n = n /\ sys'.todo = sys.todo
          /\ sys' \in [pc : Pcs, stage : {"none", "idle", "send", "compress", "orig"}, todo : SUBSET File,
                        cur : File \cup {None}, n : Nat]
      <3>1. n \in Nat
        BY <1>2
      <3>2. sys \in [pc : Pcs, stage : {"none", "idle", "send", "compress", "orig"}, todo : SUBSET File,
                     cur : File \cup {None}, n : Nat]
        BY DEF SysInv, Typed
      <3> QED
        BY <1>4, <3>1, <3>2 DEF Pcs
    <2>4. Typed'
      BY <1>0, <2>2, <2>3 DEF SysInv, Typed
    <2>5. Stored' /\ Current' /\ Flushing' /\ Sourced'
      BY <1>0, <1>1, <2>3 DEF SysInv, Stored, Current, Flushing, Sourced, HasSource, Sound
    <2>6. Progress'
      <3>1. n <= count
        BY <1>2
      <3>2. ASSUME f.dump \notin lost'
            PROVE  /\ n = 0 /\ Len(transfers') \in Nat /\ Len(transfers') >= 1
                   /\ transfers'[Len(transfers')] = FLST(f, f.len, count)
        <4>1. transfers' = Append(transfers, m) /\ n = 0 /\ c = count
          BY <1>4, <2>2, <3>2
        <4>2. Len(transfers) \in Nat /\ Len(transfers') = Len(transfers) + 1 /\ transfers'[Len(transfers) + 1] = m
          <5> HIDE DEF m
          <5> QED
            BY <2>1, <4>1 DEF SysInv, Typed
        <4> QED
          BY <4>1, <4>2
      <3> HIDE DEF count, m
      <3>3. f.dump \notin lost' => /\ n + 1 <= Len(transfers') /\ Len(transfers') - n = Len(transfers')
                                  /\ \A k \in 1 .. n : FALSE
        BY <3>2
      <3> QED
        BY <2>3, <3>1, <3>2, <3>3 DEF Progress, count
    <2> HIDE DEF m
    <2>7. Kept'
      <3>1. CASE transfers' = transfers
        BY <1>0, <2>2, <3>1, KeptSame DEF SysInv
      <3>2. CASE transfers' = Append(transfers, m)
        BY <1>0, <2>1, <2>2, <3>2, KeptAppend DEF SysInv
      <3> QED
        BY <2>2, <3>1, <3>2
    <2>8. Arrived'
      <3>1. CASE transfers' = transfers
        BY <1>0, <2>2, <3>1, ArrivedSame DEF SysInv
      <3>2. CASE transfers' = Append(transfers, m)
        BY <1>0, <2>1, <2>2, <3>2, ArrivedAppend DEF SysInv, Typed
      <3> QED
        BY <2>2, <3>1, <3>2
    <2> QED
      BY <2>4, <2>5, <2>6, <2>7, <2>8 DEF SysInv
  <1>5. sys.n = 0 /\ 0 \in 0 .. count /\ count \in 0 .. count /\ -1 \in Int /\ count \in Int /\ f.dump \in {f.dump}
    BY <1>1, <1>2
  <1>6. [sys EXCEPT !.pc = "package"] = [sys EXCEPT !.pc = "package", !.n = 0]
    BY <1>5 DEF SysInv, Typed
  <1>7. \/ sys' = Continue(f) /\ UNCHANGED <<transfers, sent, lost>>
        \/ LogMessage(FLST(f, f.len, count), {}) /\ sys' = [sys EXCEPT !.pc = "package"]
        \/ LogMessage(FLST(f, f.len, -1), {f.dump}) /\ sys' = [sys EXCEPT !.pc = "package"]
        \/ LogMessage(FLST(f, f.len, count), {f.dump}) /\ sys' = [sys EXCEPT !.pc = "package", !.n = count]
    BY DEF SendHeader, SkipFile, messages
  <1> HIDE DEF f, count
  <1> QED
    BY <1>3, <1>4, <1>5, <1>6, <1>7

LEMMA SendPackageStep ==
  ASSUME SysInv, SendPackage
  PROVE  SysInv'
  <1> DEFINE n == sys.n + 1
             m == FLDA(sys.cur, n, Package(sys.cur, n))
  <1>0. sys.pc = "package" /\ sys.n < PackagesOf(sys.cur.len) /\ buffer # "full"
        /\ UNCHANGED <<disk, dumped, torn, hasty, syslimit>>
    BY DEF SendPackage, HalfFree, others
  <1>1. sys.cur \in File /\ sys.cur.len \in Nat /\ sys.n \in Nat
    BY <1>0 DEF SysInv, Typed, Current, File
  <1>2. PackagesOf(sys.cur.len) \in Nat
    BY <1>1, PackagesCover
  <1>3. CASE sys' = Continue(sys.cur) /\ UNCHANGED <<transfers, sent, lost>>
    BY <1>0, <1>3, SkipStep
  <1>4. CASE LogMessage(m, {}) /\ sys' = [sys EXCEPT !.n = @ + 1]
    <2>1. n \in 1 .. PackagesOf(sys.cur.len) /\ n \in Nat
      BY <1>0, <1>1, <1>2
    <2>2. Package(sys.cur, n) \in Seq(Nat)
      BY <1>1, <2>1, PackageIs
    <2>3. m \in Sent /\ m.kind = "FLDA"
      BY <1>1, <2>1, <2>2, MessagesAre
    <2>9. /\ transfers' = Append(transfers, m) /\ transfers' \in Seq(Sent) /\ sent' \in 0 .. Len(transfers')
          /\ lost' = lost
      <3>1. LogMessage(m, {}) /\ Typed
        BY <1>4 DEF SysInv
      <3> HIDE DEF m, n
      <3>2. transfers' = Append(transfers, m) /\ transfers' \in Seq(Sent) /\ sent' \in 0 .. Len(transfers')
        BY <1>0, <2>3, <3>1, MessageIs
      <3>3. lost' = lost
        BY <1>0, <3>1 DEF LogMessage
      <3> QED
        BY <3>2, <3>3
    <2>4. /\ sys'.pc = "package" /\ sys'.cur = sys.cur /\ sys'.stage = sys.stage /\ sys'.n = n /\ sys'.todo = sys.todo
          /\ sys' \in [pc : Pcs, stage : {"none", "idle", "send", "compress", "orig"}, todo : SUBSET File,
                        cur : File \cup {None}, n : Nat]
      <3>1. sys \in [pc : Pcs, stage : {"none", "idle", "send", "compress", "orig"}, todo : SUBSET File,
                      cur : File \cup {None}, n : Nat]
        BY DEF SysInv, Typed
      <3>2. sys' = [sys EXCEPT !.n = n] /\ n \in Nat
        BY <1>1, <1>4
      <3> HIDE DEF m, n
      <3> QED
        BY <1>0, <3>1, <3>2
    <2> HIDE DEF m
    <2>5. Typed' /\ Stored' /\ Current' /\ Flushing' /\ Sourced'
      <3> HIDE DEF n
      <3>1. Typed'
        BY <1>0, <2>4, <2>9 DEF SysInv, Typed
      <3>2. Stored' /\ Current' /\ Flushing' /\ Sourced'
        BY <1>0, <1>1, <2>4 DEF SysInv, Stored, Current, Flushing, Sourced, HasSource, Sound
      <3> QED
        BY <3>1, <3>2
    <2>6. Progress'
      <3>1. PICK len \in Nat : len = Len(transfers)
        BY DEF SysInv, Typed
      <3>2. Len(transfers') = len + 1 /\ transfers'[len + 1] = m /\ \A i \in 1 .. len : transfers'[i] = transfers[i]
        BY <2>3, <2>9, <3>1 DEF SysInv, Typed
      <3>3. ASSUME sys.cur.dump \notin lost
            PROVE  /\ n + 1 <= len + 1 /\ transfers'[len + 1 - n] = FLST(sys.cur, sys.cur.len, PackagesOf(sys.cur.len))
                   /\ \A k \in 1 .. n : transfers'[len + 1 - n + k] = FLDA(sys.cur, k, Package(sys.cur, k))
        <4>1. /\ sys.n + 1 <= len /\ transfers[len - sys.n] = FLST(sys.cur, sys.cur.len, PackagesOf(sys.cur.len))
              /\ \A k \in 1 .. sys.n : transfers[len - sys.n + k] = FLDA(sys.cur, k, Package(sys.cur, k))
          BY <1>0, <3>1, <3>3 DEF SysInv, Progress
        <4>2. len + 1 - n = len - sys.n /\ len - sys.n \in 1 .. len
          BY <1>1, <4>1
        <4>3. transfers'[len + 1 - n] = FLST(sys.cur, sys.cur.len, PackagesOf(sys.cur.len))
          BY <3>2, <4>1, <4>2
        <4>4. ASSUME NEW k \in 1 .. n PROVE transfers'[len + 1 - n + k] = FLDA(sys.cur, k, Package(sys.cur, k))
          <5>1. CASE k = n
            <6>1. len + 1 - n + n = len + 1
              BY <1>1
            <6> QED
              BY <3>2, <5>1, <6>1 DEF m
          <5>2. CASE k # n
            <6>1. k \in 1 .. sys.n /\ len + 1 - n + k = len - sys.n + k /\ len - sys.n + k \in 1 .. len
              BY <1>1, <4>1, <5>2
            <6> QED
              BY <3>2, <4>1, <6>1
          <5> QED
            BY <5>1, <5>2
        <4>5. n + 1 <= len + 1
          BY <1>1, <4>1
        <4> QED
          BY <4>3, <4>4, <4>5
      <3>4. n <= PackagesOf(sys.cur.len)
        BY <1>1, <1>2, <2>1
      <3> HIDE DEF n
      <3>5. ASSUME sys'.cur.dump \notin lost'
            PROVE  /\ n + 1 <= Len(transfers')
                   /\ transfers'[Len(transfers') - n] = FLST(sys.cur, sys.cur.len, PackagesOf(sys.cur.len))
                   /\ \A k \in 1 .. n : transfers'[Len(transfers') - n + k] = FLDA(sys.cur, k, Package(sys.cur, k))
        BY <2>4, <2>9, <3>2, <3>3, <3>5
      <3> QED
        BY <2>4, <3>4, <3>5 DEF Progress
    <2>7. Kept'
      BY <1>0, <2>3, <2>9, KeptAppend DEF SysInv
    <2>8. Arrived'
      BY <1>0, <2>3, <2>9, ArrivedAppend DEF SysInv, Typed
    <2> QED
      BY <2>5, <2>6, <2>7, <2>8 DEF SysInv
  <1> QED
    BY <1>3, <1>4 DEF SendPackage, SkipFile, messages

\* With the end of it, the file that was in progress was received.
LEMMA EndReceived ==
  ASSUME SysInv, sys.pc = "package", sys.cur \in File, sys.cur.dump \notin lost, NEW n \in Nat,
         n = PackagesOf(sys.cur.len), sys.n = n, transfers' = Append(transfers, FLFI(sys.cur)),
         NEW len \in Nat, len = Len(transfers)
  PROVE  Received(len + 1)'
  <1> DEFINE f == sys.cur
             m == FLFI(f)
  <1>9. f \in File /\ f.len \in Nat
    BY DEF File
  <1>10. m \in Sent /\ m.serial = f
    BY <1>9, MessagesAre
  <1> HIDE DEF m
  <1>1. transfers'[len + 1] = m /\ \A i \in 1 .. len : transfers'[i] = transfers[i]
    BY <1>10 DEF SysInv, Typed, m
  <1>2. /\ n + 1 <= len /\ transfers[len - n] = FLST(f, f.len, n)
        /\ \A k \in 1 .. n : transfers[len - n + k] = FLDA(f, k, Package(f, k))
    BY DEF SysInv, Progress
  <1> DEFINE i == len - n
  <1>3. i \in 1 .. len /\ i \in 1 .. len + 1 - 1 /\ len + 1 - i - 1 = n
    BY <1>2
  <1>4. transfers'[i].kind = "FLST" /\ transfers'[i].serial = f /\ transfers'[i].count = n
    <2>1. transfers'[i] = FLST(f, f.len, n) /\ n \in Int
      BY <1>1, <1>2, <1>3
    <2> QED
      BY <1>9, <2>1, MessagesAre
  <1>5. ASSUME NEW k \in 1 .. n PROVE IsPackage(transfers'[i + k], f, k, n)
    <2>1. i + k \in 1 .. len
      BY <1>2
    <2>2. transfers'[i + k] = FLDA(f, k, Package(f, k))
      BY <1>1, <1>2, <2>1
    <2> DEFINE p == Package(f, k)
    <2>3. /\ p \in Seq(Nat) /\ Len(p) = IF k < n THEN PackageSize ELSE f.len - (k - 1) * PackageSize
          /\ \A b \in 1 .. Len(p) : p[b] = (k - 1) * PackageSize + b
      BY <1>9, PackageIs
    <2> HIDE DEF p
    <2>4. k \in Nat
      OBVIOUS
    <2>5. LET q == transfers'[i + k] IN q.kind = "FLDA" /\ q.serial = f /\ q.n = k /\ q.data = p
      BY <1>9, <2>2, <2>3, <2>4, MessagesAre DEF p
    <2> QED
      BY <2>3, <2>5, Zenon DEF IsPackage
  <1>6. transfers'[len + 1].serial = f
    BY <1>10, <1>1
  <1> HIDE DEF i, f
  <1> DEFINE e == len + 1
             g == transfers'[e].serial
  <1>7. i \in 1 .. e - 1 /\ g = f /\ e - i - 1 = n
    BY <1>3, <1>6
  <1>8. /\ transfers'[i].kind = "FLST" /\ transfers'[i].serial = g /\ transfers'[i].count = e - i - 1
        /\ \A k \in 1 .. e - i - 1 : IsPackage(transfers'[i + k], g, k, e - i - 1)
    <2> HIDE DEF e, g
    <2> QED
      BY <1>4, <1>5, <1>7, Zenon
  <1> QED
    BY <1>7, <1>8, Zenon DEF Received

LEMMA SendEndStep ==
  ASSUME SysInv, SendEnd
  PROVE  SysInv'
  <1> DEFINE m == FLFI(sys.cur)
             f == sys.cur
             n == PackagesOf(f.len)
  <1>0. sys.pc = "package" /\ sys.n = n /\ sys' = Continue(f) /\ UNCHANGED <<dumped, torn, hasty, syslimit>>
    BY DEF SendEnd, SkipFile, others
  <1>1. f \in File /\ f.len \in Nat /\ f \in disk /\ f.place = "send" /\ (Sound(f) \/ f.dump \in torn)
    BY <1>0 DEF SysInv, Current, File
  <1>2. n \in Nat
    BY <1>1, PackagesCover
  <1>3. m \in Sent /\ m.kind = "FLFI" /\ m.serial = f
    BY <1>1, MessagesAre
  <1>4. CASE disk' = disk /\ UNCHANGED <<transfers, sent, lost>>
    BY <1>0, <1>4, SkipStep
  <1>5. CASE LogMessage(m, {}) /\ (disk' = disk \ {f} \/ disk' = disk)
    <2> HIDE DEF m
    <2>1. /\ transfers' \in Seq(Sent) /\ sent' \in 0 .. Len(transfers') /\ lost \subseteq lost'
          /\ \/ transfers' = transfers /\ f.dump \in lost'
             \/ transfers' = Append(transfers, m) /\ lost' = lost
      <3>1. LogMessage(m, {}) /\ Typed
        BY <1>5 DEF SysInv
      <3>2. lost \cup {} = lost
        OBVIOUS
      <3> HIDE DEF f, n
      <3> QED
        BY <1>3, <3>1, <3>2, MessageIs
    <2>2. Typed'
      BY <1>0, <1>5, <2>1, ContinueTyped DEF SysInv, Typed
    <2>3. Kept'
      <3>1. CASE transfers' = transfers /\ f.dump \in lost'
        BY <1>0, <1>5, <2>1, <3>1, KeptSame DEF SysInv
      <3>2. CASE transfers' = Append(transfers, m)
        BY <1>0, <1>3, <1>5, <2>1, <3>2, KeptAppend DEF SysInv
      <3> QED
        BY <2>1, <3>1, <3>2
    <2>4. Arrived'
      <3>1. CASE transfers' = transfers
        BY <1>0, <2>1, <3>1, ArrivedSame DEF SysInv
      <3>2. CASE transfers' = Append(transfers, m)
        <4>1. PICK len \in Nat : len = Len(transfers)
          BY DEF SysInv, Typed
        <4>2. ASSUME f.dump \notin lost PROVE Received(len + 1)'
          BY <1>0, <1>1, <1>2, <1>3, <3>2, <4>1, <4>2, EndReceived DEF m
        <4>3. Received(len + 1)' \/ f.dump \in lost'
          BY <2>1, <4>2
        <4>4. Whole(f) \/ f.dump \in hasty' \cup torn'
          BY <1>0, <1>1 DEF Sound
        <4> QED
          BY <1>0, <1>3, <2>1, <3>2, <4>1, <4>3, <4>4, ArrivedAppend DEF SysInv, Typed
      <3> QED
        BY <2>1, <3>1, <3>2
    <2> QED
      BY <1>0, <1>1, <1>5, <2>2, <2>3, <2>4, ContinueStep
  <1> HIDE DEF m, f
  <1> QED
    BY <1>4, <1>5 DEF SendEnd, messages, m, f

--------------------------------------------------------------------------------

LEMMA SysInvInit == SysInit => SysInv
  <1> SUFFICES ASSUME SysInit PROVE SysInv
    OBVIOUS
  <1>1. Down.pc = "down" /\ Down.stage = "none" /\ Down.n = 0 /\ Down.todo = {} /\ Down.cur = None
    BY DEF Down
  <1>2. sys \in [pc : Pcs, stage : {"none", "idle", "send", "compress", "orig"}, todo : SUBSET File,
                 cur : File \cup {None}, n : Nat]
    BY DEF SysInit, Down, Pcs
  <1>3. Typed /\ Stored /\ Current /\ Flushing /\ Sourced /\ Progress
    BY <1>1, <1>2 DEF SysInit, Typed, Stored, Current, Flushing, Sourced, Progress
  <1>4. Kept /\ Arrived
    BY DEF SysInit, Kept, Arrived
  <1> QED
    BY <1>3, <1>4 DEF SysInv

LEMMA SysInvStep == SysInv /\ [SysNext]_sysvars => SysInv'
  <1> SUFFICES ASSUME SysInv, [SysNext]_sysvars PROVE SysInv'
    OBVIOUS
  <1>1. CASE SysStep
    BY <1>1, InitDirsStep, FlushSendStep, FlushCompressStep, FlushOriginalStep, FlushDirStep, ProcessFilesStep,
       SendOneStep, GzOpenStep, GzWriteStep, RemoveSourceStep, GzCloseStep, SendHeaderStep, SendPackageStep, SendEndStep
       DEF SysStep
  <1>2. sent \in 0 .. Len(transfers) /\ Len(transfers) \in 0 .. Len(transfers)
    BY DEF SysInv, Typed
  <1>3. CASE ClientComes \/ ClientLeaves \/ BufferFills \/ BufferEmpties \/ UNCHANGED sysvars
    BY <1>3, <1>2, OthersStep DEF ClientComes, ClientLeaves, BufferFills, BufferEmpties, sysvars, messages, others
  <1>4. CASE SystemCrash
    BY <1>4, CrashStep
  <1>5. CASE \E d \in syslimit.dumps : DumpBegins(d) \/ DumpWritten(d)
    <2>1. ASSUME NEW d \in syslimit.dumps, DumpWritten(d) PROVE SysInv'
      BY <2>1, <1>2, OthersStep DEF DumpWritten, messages
    <2> QED
      BY <1>5, <2>1, DumpBeginsStep
  <1> QED
    BY <1>1, <1>3, <1>4, <1>5 DEF SysNext

(******************************************************************************)
(* Theorem.  For any number and sizes of dumps, and wherever dlt-system       *)
(* crashes, a call on the disk fails, clients leave or the startup buffer     *)
(* fills: a dump is on the disk as a whole, or its messages were all given to *)
(* the library and none of them was lost, and these are header, packages and  *)
(* end of a whole file.  Excepted are dumps whose compressed file was not     *)
(* finished when its source had been removed (compress_file_to), that were    *)
(* moved while their program still wrote them (flush_dir_original), and of    *)
(* which a message was lost with the startup buffer of a killed process or to *)
(* a full one, or whose packages could not be counted (send_dumped_file).     *)
(******************************************************************************)
THEOREM DumpsAreKept == SysSpec => []DumpsKept
  <1>1. SysInit => SysInv
    BY SysInvInit
  <1>2. SysInv /\ [SysNext]_sysvars => SysInv'
    BY SysInvStep
  <1>3. SysInv => DumpsKept
    BY DEF SysInv, Kept, Arrived, Sound, DumpsKept
  <1> QED
    BY <1>1, <1>2, <1>3, PTL DEF SysSpec
================================================================================
