---------------------------- MODULE MCDltTransport -----------------------------
(* Instances of DltShm, DltNetworkTrace, DltTraceLoad, DltMultipleFiles,         *)
(* DltFileTransfer and DltSystemFiletransfer for TLC.  They do not interact: in  *)
(* a behaviour one of them runs and the others stay as they are.                 *)
EXTENDS DltShm, DltNetworkTrace, MCDltTraceLoad, MCDltMultipleFiles, MCDltSystemFiletransfer

CONSTANTS a1, a2

ShmShape(msgs, stops, crashes, kills, failures, v2, early) ==
  [msgs |-> msgs, stops |-> stops, crashes |-> crashes, kills |-> kills, failures |-> failures,
   v2 |-> v2, early |-> early]
NetShape(ps, ids, n, refusals, switches, fills, opens) ==
  [payloads |-> ps, handles |-> ids, traces |-> n, refusals |-> refusals, switches |-> switches, fills |-> fills, opens |-> opens]

\* A FIFO that fills up, with messages that cannot be read; a daemon that is replaced, and an
\* application that was there before it; a crash and a kill.
MCShmLimits == {ShmShape(0, 0, 0, 0, 0, {}, {}), ShmShape(2, 0, 0, 0, 1, {}, {}), ShmShape(2, 1, 0, 0, 0, {a1}, {a2}),
                ShmShape(1, 0, 1, 1, 0, {a1}, {})}

\* Two traces, whose handles may be equal; three, so that the queue is full; refusals; the trace status.
MCNetLimits == {NetShape({}, {}, 0, 0, 0, 0, 0), NetShape({48, 49}, {1}, 2, 0, 0, 1, 1),
                NetShape({48}, {1}, 3, 0, 0, 0, 0), NetShape({36, 48, 49}, {1, 2}, 2, 1, 0, 0, 0),
                NetShape({36, 40, 48, 49}, {1}, 1, 1, 1, 1, 0)}

\* 48 bytes are three segments, 49 are four; 36 fit a message; 40 do not, and are not segmented;
\* a header of 6 leaves no room for a start.
MCHeaders == {1, 6}
MCPayloads == {36, 40, 48, 49}
MCAddresses == {100, 980}

MCLoadLimitsWithIdle == MCLoadLimits \cup {LoadIdle}
MCFilesLimitsWithIdle == MCFilesLimits \cup {FilesIdle}

BusyAmong(parts) == {part \in parts :
                       CASE part = "shm"   -> shmlimit.msgs > 0
                         [] part = "net"   -> netlimit.traces > 0
                         [] part = "load"  -> loadlimit.messages > 0
                         [] part = "files" -> fileslimit.records > 0
                         [] part = "xfer"  -> xferlimit # XferIdle
                         [] part = "sys"   -> syslimit # SystemIdle}
Busy == BusyAmong({"shm", "net", "load", "files", "xfer", "sys"})
One(parts) == Cardinality(BusyAmong(parts)) <= 1

TransportInit ==
  /\ ShmInit /\ NetInit /\ One({"shm", "net"})
  /\ LoadInit /\ One({"shm", "net", "load"})
  /\ FilesInit /\ One({"shm", "net", "load", "files"})
  /\ XferInit /\ One({"shm", "net", "load", "files", "xfer"})
  /\ SysInit /\ Cardinality(Busy) = 1

TransportNext ==
  \/ Busy = {"shm"} /\ ShmNext /\ UNCHANGED <<netvars, loadvars, filesvars, xfervars, sysvars>>
  \/ Busy = {"net"} /\ NetNext /\ UNCHANGED <<shmvars, loadvars, filesvars, xfervars, sysvars>>
  \/ Busy = {"load"} /\ LoadNext /\ UNCHANGED <<shmvars, netvars, filesvars, xfervars, sysvars>>
  \/ Busy = {"files"} /\ FilesNext /\ UNCHANGED <<shmvars, netvars, loadvars, xfervars, sysvars>>
  \/ Busy = {"xfer"} /\ XferNext /\ UNCHANGED <<shmvars, netvars, loadvars, filesvars, sysvars>>
  \/ Busy = {"sys"} /\ SysNext /\ UNCHANGED <<shmvars, netvars, loadvars, filesvars, xfervars>>

TransportSpec ==
  /\ TransportInit /\ [][TransportNext]_<<shmvars, netvars, loadvars, filesvars, xfervars, sysvars>>
  /\ ShmFairness /\ NetFairness /\ SysFairness
================================================================================
