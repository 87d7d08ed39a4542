----------------------------- MODULE DltLogstorage -----------------------------
(* The offline logstorage of the daemon (dlt_offline_logstorage.c,             *)
(* dlt_daemon_offline_logstorage.c and the control request in                  *)
(* dlt_daemon_client.c): devices that are connected and removed, the filters   *)
(* their configuration files define, the log levels these filters ask of the   *)
(* applications, and every message on its way into the cache and the files of  *)
(* each filter it matches (DltLogstorageFile).                                 *)
(*                                                                             *)
(* The daemon's part is a record; a handler runs to its end and is a function  *)
(* on it.  A power failure may come inside a handler: "trail" holds the file   *)
(* systems it passed through.                                                  *)
EXTENDS DltLogstorageFile, FiniteSetsExt

CONSTANTS Ids,                \* context ids: records [apid, ctid]
          OwnEcu,             \* the ECU of the daemon
          MAX_ERRORS,         \* DLT_OFFLINE_LOGSTORAGE_MAX_ERRORS
          Limits              \* shapes of the histories, see Limit

Wild == ".*"
Empty == ""
NoLevel == -1
AllMounts == 0

SyncStrategies == {"on_msg", "exit", "demand", "disconnect", "specific_size", "file_size"}

\* A filter section of dlt_logstorage.conf.  Without a file it is for levels only
\* (NON-VERBOSE-LOGLEVEL-CTRL).
Filter == [apids : Seq(STRING), ctids : Seq(STRING), ecuid : STRING, log_level : 1 .. 6,
           excluded_apids : SUBSET STRING, excluded_ctids : SUBSET STRING,
           file : STRING, file_size : Nat \ {0}, num_files : Nat \ {0}, specific_size : Nat,
           sync : SUBSET SyncStrategies, overwrite : {"discard_old", "discard_new"}]

\* The configuration of each mount point, whether its file is read without complaint, the
\* naming of files, the memory for caches, OfflineLogstorageDirPath (mount point 1), what
\* may happen, and bounds: messages, requests, restarts, registrations.
Limit == [conf : Seq(Seq(Filter)), valid : BOOLEAN, timestamp : BOOLEAN, optional : BOOLEAN,
          maxcounter : Nat,
          cache_max : Nat, internal : BOOLEAN, devices : Nat,
          sizes : SUBSET Nat, ids : SUBSET Ids, levels : SUBSET (1 .. 6),
          kinds : SUBSET STRING, msgs : Nat, reqs : Nat, restarts : Nat, regs : Nat]

ASSUME ConstAssumption ==
  /\ MAX_ERRORS \in Nat \ {0}
  /\ \A i \in Ids : DOMAIN i = {"apid", "ctid"}
  /\ \A l \in Limits : l \in Limit

VARIABLES daemon,             \* the devices, the levels of the contexts and the file system
          gone,               \* mount points whose device was taken away
          answer,             \* the answer to the last request
          sent, taken,        \* history: the messages, and those each filter was given
          limit, used         \* the shape of this history and what is used of its bounds

vars == <<daemon, gone, answer, sent, taken, limit, used>>

Mounts == DOMAIN limit.conf
UserConfig == [set |-> TRUE, timestamp |-> limit.timestamp, maxcounter |-> limit.maxcounter,
               optional |-> limit.optional]

NewFilter == [log |-> 0, fd |-> FdZero, ferror |-> FALSE, offset |-> 0, working |-> None,
              wrap_id |-> 0, skip |-> FALSE, cache |-> <<>>, footer |-> ZeroFooter]

NewHandle == [connected |-> FALSE, configured |-> FALSE, mount |-> 0, write_errors |-> 0,
              prepare_errors |-> 0, user |-> ZeroUser, filters |-> <<>>, newest |-> <<>>]

NewDaemon(disk, inodes) ==
  [handles |-> [i \in 1 .. limit.devices |-> NewHandle], levels |-> <<>>, cache_used |-> 0,
   disk |-> disk, inodes |-> inodes, trail |-> <<>>, removed |-> FALSE]

ConfOf(h) == limit.conf[h.mount]

--------------------------------------------------------------------------------
(* Filters.                                                                    *)

\* The keys of a filter; an empty list of ids stands for an entry that is not given.
dlt_logstorage_create_keys(c) ==
  IF c.ecuid # Empty /\ ((c.apids = <<>> /\ c.ctids = <<>>)
                         \/ (c.apids # <<>> /\ c.ctids # <<>> /\ Head(c.apids) = Wild
                             /\ Head(c.ctids) = Wild))
  THEN <<(<<c.ecuid, Empty, Empty>>)>>
  ELSE FlattenSeq([i \in 1 .. Len(c.apids) |->
         [j \in 1 .. Len(c.ctids) |->
            CASE c.apids[i] = Wild -> <<c.ecuid, Empty, c.ctids[j]>>
              [] c.apids[i] # Wild /\ c.ctids[j] = Wild -> <<c.ecuid, c.apids[i], Empty>>
              [] OTHER -> <<c.ecuid, c.apids[i], c.ctids[j]>>]])

\* The filters of a device that have a key, in the order of the list.
dlt_logstorage_list_find(key, h) ==
  SelectSeq([i \in 1 .. Len(h.filters) |-> i],
            LAMBDA i : Contains(dlt_logstorage_create_keys(ConfOf(h)[i]), key))

PossibleKeys(apid, ctid, ecuid) ==
  << <<Empty, apid, Empty>>, <<Empty, Empty, ctid>>, <<Empty, apid, ctid>>,
     <<ecuid, apid, ctid>>, <<ecuid, apid, Empty>>, <<ecuid, Empty, ctid>>,
     <<ecuid, Empty, Empty>> >>

Ready(h) == h.connected /\ h.configured

\* The search ends when as many filters are found as the device has.
dlt_logstorage_get_config(h, apid, ctid) ==
  IF ~Ready(h) THEN <<>>
  ELSE FoldLeft(LAMBDA found, key :
                  IF Len(found) = Len(h.filters) /\ found # <<>> THEN found
                  ELSE found \o dlt_logstorage_list_find(key, h),
                <<>>, PossibleKeys(apid, ctid, OwnEcu))

dlt_logstorage_check_excluded_ids(id, excluded) == id \in excluded

\* The filters that take a message.
dlt_logstorage_filter(h, m) ==
  SelectSeq(dlt_logstorage_get_config(h, m.apid, m.ctid),
    LAMBDA i :
      LET c == ConfOf(h)[i]
          apid == dlt_logstorage_check_excluded_ids(m.apid, c.excluded_apids)
          ctid == dlt_logstorage_check_excluded_ids(m.ctid, c.excluded_ctids)
      IN  /\ m.level <= c.log_level
          /\ c.ecuid \in {Empty, OwnEcu}
          /\ ~ (IF c.excluded_apids # {} /\ c.excluded_ctids # {} THEN apid /\ ctid
                ELSE apid \/ ctid))

--------------------------------------------------------------------------------
(* Log levels that devices ask for.  d.levels gives storage_log_level of the   *)
(* contexts that are registered.                                               *)

dlt_daemon_logstorage_send_log_level(d, ctx, level) ==
  [d EXCEPT !.levels[ctx] = Max({level, d.levels[ctx]})]

dlt_daemon_logstorage_reset_log_level(d, ctx) == [d EXCEPT !.levels[ctx] = NoLevel]

SetLevel(d, ctx, level) ==
  IF level > 0 THEN dlt_daemon_logstorage_send_log_level(d, ctx, level)
               ELSE dlt_daemon_logstorage_reset_log_level(d, ctx)

Registered(d) == SetToSeq(DOMAIN d.levels)

dlt_logstorage_update_all_contexts(d, apid, ctid, level) ==
  FoldLeft(LAMBDA e, ctx : IF apid \in {Wild, ctx.apid} /\ ctid \in {Wild, ctx.ctid}
                           THEN SetLevel(e, ctx, level) ELSE e, d, Registered(d))

dlt_logstorage_update_context(d, apid, ctid, level) ==
  LET ctx == [apid |-> apid, ctid |-> ctid]
  IN  IF ctx \in DOMAIN d.levels THEN SetLevel(d, ctx, level) ELSE d

\* An id that the key leaves open is a wildcard, an ECU that it leaves open is the own one.
dlt_logstorage_split_key(key) ==
  [ecuid |-> IF key[1] = Empty THEN OwnEcu ELSE key[1],
   apid |-> IF key[2] = Empty THEN Wild ELSE key[2],
   ctid |-> IF key[3] = Empty THEN Wild ELSE key[3]]

dlt_logstorage_update_context_loglevel(d, key, level) ==
  LET k == dlt_logstorage_split_key(key)
  IN  CASE k.ecuid # OwnEcu -> d
        [] k.ecuid = OwnEcu /\ (k.apid = Wild \/ k.ctid = Wild) ->
             dlt_logstorage_update_all_contexts(d, k.apid, k.ctid, level)
        [] OTHER -> dlt_logstorage_update_context(d, k.apid, k.ctid, level)

dlt_logstorage_get_loglevel_by_key(h, key) ==
  Max({0} \union {ConfOf(h)[i].log_level : i \in ToSet(dlt_logstorage_list_find(key, h))})

KeysOf(h) == FlattenSeq([i \in 1 .. Len(h.filters) |-> dlt_logstorage_create_keys(ConfOf(h)[i])])

dlt_daemon_logstorage_update_application_loglevel(d, i) ==
  LET h == d.handles[i]
  IN  IF ~Ready(h) THEN d
      ELSE FoldLeft(LAMBDA e, key : dlt_logstorage_update_context_loglevel(e, key,
                                      dlt_logstorage_get_loglevel_by_key(h, key)),
                    d, KeysOf(h))

\* Mutant of dlt_daemon_logstorage_reset_application_loglevel: the other devices are
\* not asked again.
ResetWithoutUpdate(d, i) ==
  IF ~Ready(d.handles[i]) THEN d
  ELSE FoldLeft(LAMBDA e, key : dlt_logstorage_update_context_loglevel(e, key, NoLevel),
                d, KeysOf(d.handles[i]))

\* The levels of this device are dropped, those of the other devices set again.
dlt_daemon_logstorage_reset_application_loglevel(d, i) ==
  LET reset == FoldLeft(LAMBDA e, key : dlt_logstorage_update_context_loglevel(e, key, NoLevel),
                        d, KeysOf(d.handles[i]))
  IN  IF ~Ready(d.handles[i]) THEN d
      ELSE FoldLeft(LAMBDA e, j : IF j # i /\ e.handles[j].configured
                                  THEN dlt_daemon_logstorage_update_application_loglevel(e, j) ELSE e,
                    reset, [j \in 1 .. Len(d.handles) |-> j])

\* The highest level of the filters of a device, but the first one without a file ends the
\* search and gives its own level.
LevelOf(h, ctx, level) ==
  FoldLeft(LAMBDA r, i : CASE r.found -> r
                           [] ~r.found /\ ConfOf(h)[i].file = Empty -> [found |-> TRUE, level |-> ConfOf(h)[i].log_level]
                           [] OTHER -> [r EXCEPT !.level = Max({@, ConfOf(h)[i].log_level})],
           [found |-> FALSE, level |-> level], dlt_logstorage_get_config(h, ctx.apid, ctx.ctid)).level

\* The level a context gets when it registers.
dlt_daemon_logstorage_get_loglevel(d, ctx) ==
  FoldLeft(LAMBDA level, h : IF h.configured THEN LevelOf(h, ctx, level) ELSE level, NoLevel, d.handles)

--------------------------------------------------------------------------------
(* Messages and devices.                                                       *)

\* The filter j of device i as DltLogstorageFile sees it, and back.
Enter(d, i, j) ==
  [disk |-> d.disk, inodes |-> d.inodes, trail |-> d.trail, cache_used |-> d.cache_used,
   cache_max |-> limit.cache_max, c |-> ConfOf(d.handles[i])[j],
   f |-> d.handles[i].filters[j], ret |-> 0]

Leave(d, s, i, j) ==
  [d EXCEPT !.disk = s.disk, !.inodes = s.inodes, !.trail = s.trail, !.cache_used = s.cache_used,
            !.handles[i].filters[j] = s.f]

World(d, i, w) == [gone |-> d.handles[i].mount \in gone, lower |-> w.lower, bad |-> w.bad, nofile |-> w.nofile]

Prepare(s, u, w, size, n) ==
  IF Cached(s.c) THEN dlt_logstorage_prepare_msg_cache(s, u, w, size, n)
                 ELSE dlt_logstorage_prepare_on_msg(s, u, w, size, n)

Write(s, u, w, data) ==
  IF Cached(s.c) THEN dlt_logstorage_write_msg_cache(s, u, w, data)
                 ELSE dlt_logstorage_write_on_msg(s, u, w, data)

SyncFilter(s, u, w, status) ==
  IF Cached(s.c) THEN dlt_logstorage_sync_msg_cache(s, u, w, status) ELSE s

\* The newest file is told to the other filters with this base name: after the preparation,
\* or with a cache after the write, which may have made a sync.
TellNewest(d, i, j) ==
  LET h == d.handles[i]
      f == h.filters[j]
  IN  IF f.working = None THEN d
      ELSE [d EXCEPT !.handles[i].newest[ConfOf(h)[j].file] =
                        [file |-> f.working, wrap_id |-> f.wrap_id]]

Bytes(m) == [k \in 1 .. m.size |-> <<m.n, k>>]

\* What is left of a write: an error, or a newer file that is told.
Written(d, i, j, s) ==
  CASE s.ret # 0 -> [Leave(d, s, i, j) EXCEPT !.handles[i].write_errors = @ + 1]
    [] s.ret = 0 /\ Cached(s.c) -> TellNewest(Leave(d, s, i, j), i, j)
    [] OTHER -> Leave(d, s, i, j)

WritePrepared(d, i, w, m, j, s) ==
  CASE s.ret # 0 -> [Leave(d, s, i, j) EXCEPT
                       !.handles[i].prepare_errors = @ + 1,
                       !.handles[i].filters[j].skip = d.handles[i].prepare_errors + 1 >= MAX_ERRORS]
    [] s.ret = 0 /\ s.f.skip -> Leave(d, s, i, j)
    [] OTHER -> Written(IF Cached(s.c) THEN Leave(d, s, i, j) ELSE TellNewest(Leave(d, s, i, j), i, j),
                        i, j, Write(s, UserConfig, World(d, i, w), Bytes(m)))

\* One filter of the loop in dlt_logstorage_write.
WriteToFilter(d, i, w, m, j) ==
  LET h == d.handles[i]
  IN  IF ConfOf(h)[j].file = Empty \/ h.filters[j].skip THEN d
      ELSE WritePrepared(d, i, w, m, j, Prepare(Enter(d, i, j), UserConfig, World(d, i, w), m.size,
                                                h.newest[ConfOf(h)[j].file]))

\* dlt_logstorage_free: what the reason of the disconnect lets be synced is synced.
dlt_logstorage_list_destroy(d, i, reason, w) ==
  FoldLeft(LAMBDA e, j : Leave(e, SyncFilter(Enter(e, i, j), e.handles[i].user, World(e, i, w), reason),
                               i, j),
           d, [j \in 1 .. Len(d.handles[i].filters) |-> j])

\* Mutant of dlt_logstorage_device_disconnected: the caches are not synced.
DisconnectWithoutSync(d, i, reason, w) ==
  [d EXCEPT !.handles[i] = [NewHandle EXCEPT !.prepare_errors = d.handles[i].prepare_errors,
                                             !.user = d.handles[i].user]]

dlt_logstorage_device_disconnected(d, i, reason, w) ==
  LET e == IF d.handles[i].configured THEN dlt_logstorage_list_destroy(d, i, reason, w) ELSE d
  IN  [e EXCEPT !.handles[i] = [NewHandle EXCEPT !.prepare_errors = d.handles[i].prepare_errors,
                                                 !.user = d.handles[i].user]]

\* dlt_logstorage_write on one device; too many errors remove it.
DeviceWritten(d, before, i, w) ==
  IF /\ d.handles[i].write_errors > before
     /\ d.handles[i].write_errors >= MAX_ERRORS
  THEN [dlt_logstorage_device_disconnected(d, i, "disconnect", w) EXCEPT !.removed = TRUE] ELSE d

WriteToDevice(d, i, w, m) ==
  DeviceWritten(FoldLeft(LAMBDA x, j : WriteToFilter(x, i, w, m, j), d, dlt_logstorage_filter(d.handles[i], m)),
                d.handles[i].write_errors, i, w)

dlt_daemon_logstorage_write(d, w, m) ==
  FoldLeft(LAMBDA e, i : IF e.handles[i].configured THEN WriteToDevice(e, i, w, m) ELSE e,
           d, [i \in 1 .. Len(d.handles) |-> i])

\* dlt_logstorage_store_filters: the sections of the file become the list of filters.
dlt_logstorage_load_config(d, i) ==
  LET h == d.handles[i]
      conf == ConfOf(h)
  IN  IF h.mount \in gone THEN d
      ELSE [d EXCEPT !.handles[i].configured = TRUE,
                     !.handles[i].filters = [j \in 1 .. Len(conf) |-> NewFilter],
                     !.handles[i].newest =
                        [name \in {conf[j].file : j \in DOMAIN conf} \ {Empty} |-> [file |-> None, wrap_id |-> 0]]]

dlt_logstorage_device_connected(d, i, mount, w) ==
  LET e == IF d.handles[i].connected THEN dlt_logstorage_device_disconnected(d, i, "disconnect", w) ELSE d
  IN  dlt_logstorage_load_config([e EXCEPT !.handles[i].mount = mount, !.handles[i].connected = TRUE], i)

dlt_logstorage_sync_caches(d, i, w) ==
  LET e == [d EXCEPT !.handles[i].user = UserConfig]
  IN  FoldLeft(LAMBDA x, j : Leave(x, SyncFilter(Enter(x, i, j), UserConfig, World(x, i, w), "demand"),
                                   i, j),
               e, [j \in 1 .. Len(e.handles[i].filters) |-> j])

\* The device of a mount point, or one that is not connected: its path is empty and every
\* path starts with it.
dlt_daemon_logstorage_get_device(d, mount) ==
  SelectInSeq(d.handles, LAMBDA h : h.mount \in {0, mount})

dlt_daemon_logstorage_sync_cache(d, mount, w) ==
  IF mount # AllMounts
  THEN LET i == dlt_daemon_logstorage_get_device(d, mount)
       IN  IF i = 0 THEN d ELSE dlt_logstorage_sync_caches(d, i, w)
  ELSE FoldLeft(LAMBDA e, i : IF e.handles[i].connected THEN dlt_logstorage_sync_caches(e, i, w) ELSE e,
                d, [i \in 1 .. Len(d.handles) |-> i])

dlt_daemon_logstorage_cleanup(d, w) ==
  FoldLeft(LAMBDA e, i :
             IF e.handles[i].connected
             THEN dlt_logstorage_device_disconnected([e EXCEPT !.handles[i].user = UserConfig], i, "exit", w)
             ELSE e,
           d, [i \in 1 .. Len(d.handles) |-> i])

--------------------------------------------------------------------------------
(* The control request DLT_SERVICE_ID_OFFLINE_LOGSTORAGE.                      *)

\* The device a request is about: the one with this mount point, or the first free one.
\* The mount point of a sync request is not looked at here.
DeviceIndex(d, kind, mount) ==
  LET same == SelectInSeq(d.handles, LAMBDA h : kind # "sync" /\ h.mount = mount)
  IN  IF same # 0 THEN same ELSE SelectInSeq(d.handles, LAMBDA h : ~h.connected)

\* stat() of every mount point up to the device that is looked for.
Unreadable(d, kind, mount) ==
  LET upto == IF DeviceIndex(d, kind, mount) # 0 /\ kind # "sync"
                 /\ d.handles[DeviceIndex(d, kind, mount)].mount = mount
              THEN DeviceIndex(d, kind, mount) ELSE Len(d.handles)
  IN  \/ kind # "sync" /\ mount \in gone
      \/ \E i \in 1 .. upto : d.handles[i].mount \in gone

Reply(d, text) == [daemon |-> d, answer |-> text]

\* A device whose file was read without complaint asks for its levels.
ConnectReply(d, i) ==
  CASE ~d.handles[i].configured -> Reply(d, "error")
    [] d.handles[i].configured /\ ~limit.valid -> Reply(d, "warning")
    [] OTHER -> Reply(dlt_daemon_logstorage_update_application_loglevel(d, i), "ok")

dlt_daemon_control_service_logstorage(d, kind, mount, w) ==
  LET i == DeviceIndex(d, kind, mount)
  IN  CASE Unreadable(d, kind, mount) -> Reply(d, "error")
        [] ~Unreadable(d, kind, mount) /\ i = 0 /\ ~(kind = "sync" /\ mount = AllMounts) ->
             Reply(d, "error")
        [] ~Unreadable(d, kind, mount) /\ i # 0 /\ kind = "connect" ->
             ConnectReply(dlt_logstorage_device_connected(d, i, mount, w), i)
        [] ~Unreadable(d, kind, mount) /\ i # 0 /\ kind = "disconnect" ->
             Reply(dlt_logstorage_device_disconnected(
                     dlt_daemon_logstorage_reset_application_loglevel(d, i), i, "disconnect", w), "ok")
        [] OTHER -> Reply(dlt_daemon_logstorage_sync_cache(d, mount, w),
                          IF mount # AllMounts /\ dlt_daemon_logstorage_get_device(d, mount) = 0
                          THEN "error" ELSE "ok")

--------------------------------------------------------------------------------
(* The specification.                                                          *)

Quiet == [lower |-> FALSE, bad |-> TRUE, nofile |-> FALSE]
Worlds == {w \in [lower : BOOLEAN, bad : BOOLEAN, nofile : BOOLEAN] :
             /\ "shift" \in limit.kinds \/ (w.lower = Quiet.lower /\ w.bad = Quiet.bad)
             /\ "nofile" \in limit.kinds \/ ~w.nofile}

Running == used.running
Use(what) == used' = [used EXCEPT ![what] = @ + 1]

\* dlt_daemon_logstorage_setup_internal_storage when the daemon starts.
InternalStorage(d) ==
  IF ~d.handles[1].configured THEN d ELSE dlt_daemon_logstorage_update_application_loglevel(d, 1)
Started(disk, inodes) ==
  IF ~limit.internal THEN NewDaemon(disk, inodes)
  ELSE InternalStorage(dlt_logstorage_device_connected(NewDaemon(disk, inodes), 1, 1, Quiet))

Init ==
  /\ limit \in Limits
  /\ gone = {}
  /\ daemon = Started(<<>>, <<>>)
  /\ answer = "none"
  /\ taken = [m \in Mounts |-> [j \in DOMAIN limit.conf[m] |-> <<>>]]
  /\ sent = <<>>
  /\ used = [reqs |-> 0, restarts |-> 0, regs |-> 0, crashes |-> 0, unplugs |-> 0, running |-> TRUE]

\* A handler begins: nothing a power failure may leave behind but its own file systems.
Fresh(d) == [d EXCEPT !.trail = <<>>]

\* History: the filters of ready devices that match the message and did not refuse it.
Taking(d, e, m) ==
  [mt \in Mounts |-> [j \in DOMAIN limit.conf[mt] |->
     IF \E i \in DOMAIN d.handles : /\ d.handles[i].mount = mt /\ Ready(d.handles[i])
                                    /\ limit.conf[mt][j].file # Empty
                                    /\ Contains(dlt_logstorage_filter(d.handles[i], m), j)
                                    /\ d.handles[i].prepare_errors = e.handles[i].prepare_errors
                                    /\ (d.handles[i].filters[j].skip
                                        => limit.conf[mt][j].overwrite = "discard_new")
     THEN Append(taken[mt][j], m.n) ELSE taken[mt][j]]]

Log(id, level, size) ==
  LET m == [n |-> Len(sent) + 1, apid |-> id.apid, ctid |-> id.ctid, level |-> level, size |-> size]
  IN  /\ Running /\ Len(sent) < limit.msgs
      /\ \E w \in Worlds : daemon' = dlt_daemon_logstorage_write(Fresh(daemon), w, m)
      /\ taken' = Taking(daemon, daemon', m)
      /\ sent' = Append(sent, m)
      /\ UNCHANGED <<gone, answer, limit, used>>

Answered(r) == daemon' = r.daemon /\ answer' = r.answer

Request(kind, mount) ==
  /\ Running /\ kind \in limit.kinds /\ used.reqs < limit.reqs
  /\ kind = "sync" \/ mount # AllMounts
  /\ \E w \in Worlds :
       Answered(dlt_daemon_control_service_logstorage(Fresh(daemon), kind, mount, w))
  /\ Use("reqs")
  /\ UNCHANGED <<gone, sent, taken, limit>>

\* A context registers (dlt_daemon_process_user_message_register_context).
Register(id) ==
  /\ Running /\ used.regs < limit.regs
  /\ daemon' = [Fresh(daemon) EXCEPT !.levels = [c \in DOMAIN daemon.levels \union {id} |->
                  IF c = id THEN dlt_daemon_logstorage_get_loglevel(daemon, id) ELSE daemon.levels[c]]]
  /\ Use("regs")
  /\ UNCHANGED <<gone, answer, sent, taken, limit>>

\* The device is taken away without a request, or put back.
Unplug(mount) ==
  /\ "unplug" \in limit.kinds /\ used.reqs < limit.reqs
  /\ gone' = IF mount \in gone THEN gone \ {mount} ELSE gone \union {mount}
  /\ used' = [used EXCEPT !.reqs = @ + 1, !.unplugs = @ + 1]
  /\ UNCHANGED <<daemon, answer, sent, taken, limit>>

Stopped(d) == NewDaemon(d.disk, d.inodes)

\* dlt_daemon_exit: the daemon stops after it has synced what is to be synced.
Exit ==
  /\ Running /\ used.restarts < limit.restarts
  /\ daemon' = Stopped(dlt_daemon_logstorage_cleanup(Fresh(daemon), Quiet))
  /\ used' = [used EXCEPT !.restarts = @ + 1, !.running = FALSE]
  /\ UNCHANGED <<gone, answer, sent, taken, limit>>

\* A power failure, possibly inside the handler that ran last; the message it was about to
\* write is not counted as taken.
Crash ==
  /\ Running /\ "crash" \in limit.kinds /\ used.restarts < limit.restarts
  /\ \E left \in ToSet(daemon.trail) \union {[disk |-> daemon.disk, inodes |-> daemon.inodes]} :
       /\ daemon' = NewDaemon(left.disk, left.inodes)
       /\ taken' = [mt \in Mounts |-> [j \in DOMAIN taken[mt] |->
                      SelectSeq(taken[mt][j], LAMBDA n :
                        \/ n < Len(sent) \/ left.inodes = daemon.inodes
                        \/ \E b \in ToSet(left.inodes) : Contains(b, <<n, 1>>))]]
  /\ used' = [used EXCEPT !.restarts = @ + 1, !.crashes = @ + 1, !.running = FALSE]
  /\ UNCHANGED <<gone, answer, sent, limit>>

Restart ==
  /\ ~Running
  /\ daemon' = Started(daemon.disk, daemon.inodes)
  /\ used' = [used EXCEPT !.running = TRUE]
  /\ UNCHANGED <<gone, answer, sent, taken, limit>>

Next ==
  \/ \E id \in limit.ids, level \in limit.levels, size \in limit.sizes : Log(id, level, size)
  \/ \E kind \in {"connect", "disconnect", "sync"}, mount \in {AllMounts} \union Mounts : Request(kind, mount)
  \/ \E id \in limit.ids : Register(id)
  \/ \E mount \in Mounts : Unplug(mount)
  \/ Exit \/ Crash \/ Restart

Spec == Init /\ [][Next]_vars

--------------------------------------------------------------------------------
(* Properties.                                                                 *)

\* The files of filter j at a mount point, oldest first, and what is in them.
FilesOf(mount, j) ==
  dlt_logstorage_storage_dir_info([disk |-> daemon.disk, c |-> limit.conf[mount][j]], UserConfig)

Contents(id) == daemon.inodes[daemon.disk[id]]
Stored(mount, j) == FlattenSeq([k \in 1 .. Len(FilesOf(mount, j)) |-> Contents(FilesOf(mount, j)[k])])

\* The messages in a sequence of bytes.
MessagesIn(bytes) ==
  LET starts == SelectSeq(bytes, LAMBDA b : b[2] = 1) IN [k \in 1 .. Len(starts) |-> starts[k][1]]

\* A reader of a file finds whole messages, one behind the other: a cache is written in
\* pieces that begin and end at a message, and a file is left at such a place, also when
\* power fails between the pieces (dlt_logstorage_sync_to_file).
FilesWhole ==
  \A id \in DOMAIN daemon.disk :
    LET b == Contents(id)
    IN  \A i \in 1 .. Len(b) :
          /\ b[i] # ZeroByte
          /\ b[i][2] = 1 \/ (i > 1 /\ b[i - 1] = <<b[i][1], b[i][2] - 1>>)
          /\ b[i][2] = sent[b[i][1]].size \/ (i < Len(b) /\ b[i + 1] = <<b[i][1], b[i][2] + 1>>)

\* The strategies under which a cache is written when it is full, or at once.
WritesAll(c) == ~Cached(c) \/ c.sync \intersect {"specific_size", "file_size"} # {}

\* The indices leave a gap behind the newest file, by which it is told after a restart.
GapLeft(c) == limit.maxcounter > c.num_files + used.crashes

\* No message of a filter is stored twice and none before an older one, over all its files
\* and over restarts (dlt_logstorage_rearrange_file_name after the index started again),
\* but with a cache that is written over, see dlt_logstorage_write_msg_cache.
StoredInOrder ==
  \A mt \in Mounts : \A j \in DOMAIN limit.conf[mt] :
    LET c == limit.conf[mt][j]
        stored == SelectSeq(MessagesIn(Stored(mt, j)), LAMBDA n : Contains(taken[mt][j], n))
    IN  (GapLeft(c) /\ WritesAll(c))
        => \A k \in 1 .. Len(stored) - 1 : stored[k] < stored[k + 1]

\* The messages in the cache of a filter that no file has.
Pending(mt, j) ==
  UNION {LET f == daemon.handles[i].filters[j]
         IN  {f.cache[k][1] : k \in 1 .. f.footer.offset} :
         i \in {n \in DOMAIN daemon.handles : Ready(daemon.handles[n]) /\ daemon.handles[n].mount = mt}}

\* Only a full set of files costs a message: what is stored, and behind it what is cached, is
\* the end of what the filter took, or with discard_new the beginning; and all of it while
\* fewer than num_files files are there.  A power failure costs no message but the one it
\* interrupts (dlt_logstorage_write, dlt_logstorage_open_log_file, dlt_logstorage_sync_msg_cache).
\* Where files cannot be opened, the oldest file goes for one that is not there, and a cache is
\* started again although it was not stored.
NewestKept ==
  \A mt \in Mounts : \A j \in DOMAIN limit.conf[mt] :
    LET c == limit.conf[mt][j]
        stored == MessagesIn(Stored(mt, j)) \o
                  (IF Cached(c) THEN SetToSortSeq(Pending(mt, j), <) ELSE <<>>)
        mine == taken[mt][j]
        old == c.overwrite = "discard_old"
        opens == "nofile" \notin limit.kinds
    IN  (/\ GapLeft(c) /\ used.unplugs = 0 /\ (old \/ used.restarts = 0)
         /\ \A k \in DOMAIN limit.conf[mt] : k # j => limit.conf[mt][k].file # c.file
         /\ ~Cached(c) \/ (WritesAll(c) /\ opens /\ used.reqs = 0 /\ used.restarts = 0))
        => /\ \E from \in 0 .. Len(mine) : \E to \in from .. Len(mine) :
                /\ stored = SubSeq(mine, from + 1, to)
                /\ old => to = Len(mine)
                /\ ~old => from = 0
           /\ opens /\ Len(FilesOf(mt, j)) < c.num_files => stored = mine

\* Sync on demand that is answered with ok, an orderly stop, and a request to disconnect the device.
Synced(mt, c) ==
  \/ "demand" \in c.sync /\ used'.reqs > used.reqs /\ answer' = "ok"
     /\ limit.kinds \intersect {"connect", "disconnect", "unplug"} = {}
  \/ "exit" \in c.sync /\ Running /\ ~Running' /\ used'.crashes = used.crashes
  \/ "disconnect" \in c.sync /\ used'.reqs > used.reqs
     /\ \E i \in DOMAIN daemon.handles : /\ Ready(daemon.handles[i]) /\ daemon.handles[i].mount = mt
                                         /\ ~daemon'.handles[i].connected

\* The messages of a filter in any file with its name, one without an index too.
OnDevice(c) ==
  UNION {ToSet(MessagesIn(Contents(id))) : id \in {x \in DOMAIN daemon.disk : x.name = c.file}}

\* Each of these reasons leaves the newest message that a filter with that strategy took in its
\* files (dlt_daemon_logstorage_sync_cache, dlt_daemon_logstorage_cleanup,
\* dlt_logstorage_device_disconnected).  A cache that is full is written without a request:
\* see NewestKept.
SyncStoresNewest ==
  \A mt \in Mounts : \A j \in DOMAIN limit.conf[mt] :
    LET c == limit.conf[mt][j]
    IN  Synced(mt, c) /\ Pending(mt, j) # {} => Last(taken[mt][j]) \in OnDevice(c)'

\* A filter has at most num_files files, and one more for each power failure between the
\* creation of a file and the removal of the oldest (dlt_logstorage_open_log_file); but a single
\* file without an index and with a time stamp is never removed.
FilesBounded ==
  \A mt \in Mounts : \A j \in DOMAIN limit.conf[mt] :
    LET c == limit.conf[mt][j]
    IN  \/ Len(FilesOf(mt, j)) <= c.num_files + used.crashes
        \/ NoIndex(c, UserConfig) /\ limit.timestamp

\* No step lets a file grow beyond file_size but two kinds of writes: those of a filter that does
\* not know the descriptor of its file, and those to the file without an index into which the
\* cache goes when a device is disconnected (dlt_logstorage_prepare_on_msg,
\* dlt_logstorage_sync_to_file, dlt_logstorage_device_disconnected).
GrowsWithin ==
  \A mt \in Mounts : \A j \in DOMAIN limit.conf[mt] :
    \A id \in {x \in DOMAIN daemon'.disk : x.name = limit.conf[mt][j].file} :
      LET n == daemon'.disk[id]
          before == IF n \in DOMAIN daemon.inodes THEN Len(daemon.inodes[n]) ELSE 0
      IN  \/ Len(daemon'.inodes[n]) <= Max({before, limit.conf[mt][j].file_size})
          \/ \E i \in DOMAIN daemon'.handles : \E k \in DOMAIN daemon'.handles[i].filters :
               LET f == daemon'.handles[i].filters[k] IN f.log = n /\ f.fd # FdLog
          \/ id.idx = 0 /\ "disconnect" \in limit.conf[mt][j].sync

\* The filter is for a context: an id that it leaves open or gives as a wildcard is any id.
For(c, ctx) ==
  /\ c.ecuid \in {Empty, OwnEcu}
  /\ \/ c.ecuid # Empty /\ c.apids = <<>> /\ c.ctids = <<>>
     \/ ToSet(c.apids) \intersect {Wild, ctx.apid} # {} /\ ToSet(c.ctids) \intersect {Wild, ctx.ctid} # {}

\* What the ready devices ask for is what each context has been told: the highest level of
\* the filters for it (a device connected, taken away and connected again, in any order with
\* registrations).  Where one of them has no file the level is that of some filter for the
\* context: which one depends on whether it registered before the device was connected
\* (dlt_daemon_logstorage_get_loglevel, dlt_daemon_logstorage_update_application_loglevel).
LevelsExact ==
  (Running /\ limit.valid /\ ~daemon.removed)
  => \A ctx \in DOMAIN daemon.levels :
       LET ready == {daemon.handles[i] : i \in {k \in DOMAIN daemon.handles : Ready(daemon.handles[k])}}
           asking == {c \in UNION {ToSet(ConfOf(h)) : h \in ready} : For(c, ctx)}
           levels == {c.log_level : c \in asking}
       IN  IF \E c \in asking : c.file = Empty THEN daemon.levels[ctx] \in levels
           ELSE daemon.levels[ctx] = Max({NoLevel} \union levels)

\* What is on the device is whole, ordered, the newest and not too much of it, and applications
\* know the levels that the filters of the devices ask for (dlt_logstorage_write,
\* dlt_daemon_logstorage_update_application_loglevel).
StorageSound == FilesWhole /\ StoredInOrder /\ NewestKept /\ FilesBounded /\ LevelsExact

\* A demand, the end of the daemon and a disconnect store the cache of the filters that ask for
\* it, and no step makes a file larger than allowed but those GrowsWithin names
\* (dlt_logstorage_sync_msg_cache, dlt_logstorage_open_log_file).
StorageSteps == [][SyncStoresNewest /\ GrowsWithin]_vars
================================================================================
