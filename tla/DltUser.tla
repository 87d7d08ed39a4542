-------------------------------- MODULE DltUser --------------------------------
(* The application library (src/lib/dlt_user.c) on its way to the daemon, in   *)
(* the default build with a named pipe: logging and registration by several    *)
(* threads, the startup buffer with its overflow counter, the housekeeper      *)
(* thread that reattaches to a restarted daemon and resends the buffer, and    *)
(* the atexit handler.                                                         *)
(*                                                                             *)
(* Both generations of the interface are modelled.  They differ in two ways    *)
(* that matter: the functions of protocol 1 hold dlt_mutex while they send a   *)
(* log message, those of protocol 2 do not; and dlt_user_log_resend_buffer     *)
(* resends nothing for an application of protocol 1.                           *)
(*                                                                             *)
(* Every process runs one function at a time; "pc" is the point it has reached *)
(* and "back" where it goes on when a helper (out3, error handling, resend)    *)
(* returns.  A step is what happens between two points at which another thread *)
(* can be seen: dlt_log_handle is written by the housekeeper without the mutex.*)
EXTENDS Integers, FiniteSets, Sequences

CONSTANTS Threads,            \* threads of the application
          BufMin, BufMax,     \* capacity of startup_buffer, in messages
          MaxDaemons,         \* bound of limit.daemons
          Limits              \* shapes of the histories, see Limit

Housekeeper == "housekeeper"
Exit == "exit"
Nobody == "nobody"

\* The protocol, the threads that log, whether the daemon runs at first, and bounds:
\* log messages, contexts, daemon processes one after the other, moments when the pipe takes
\* nothing, whether a write then fails with another error than EAGAIN, and the calls of exit().
Limit == [proto : {1, 2}, threads : SUBSET Threads, up : BOOLEAN, logs : Nat, contexts : Nat,
          daemons : 1 .. MaxDaemons, fills : Nat, faulty : BOOLEAN, exits : {0, 1}]

ASSUME ConstAssumption ==
  /\ BufMin \in Nat \ {0} /\ BufMax \in Nat /\ BufMin <= BufMax
  /\ MaxDaemons \in Nat \ {0}
  /\ Threads \cap {Housekeeper, Exit, Nobody} = {}
  /\ Limits \subseteq Limit

Proc == Threads \union {Housekeeper, Exit}

VARIABLES appID,              \* an application id is stored
          handle,             \* dlt_log_handle: 0 for -1, or the daemon process
                              \* whose pipe it is open to
          buffer,             \* startup_buffer
          size,               \* its present capacity
          overflow_counter,   \* dlt_user.overflow_counter
          contexts,           \* dlt_user.dlt_ll_ts_num_entries
          mutex,              \* owner of dlt_mutex
          freeing,            \* dlt_user_freeing
          proc,               \* the processes
          daemon,             \* the running daemon process, or 0
          full,               \* the daemon's pipe takes nothing
          received,           \* what each daemon process's pipe accepted
          limit,              \* the member of Limits this history obeys
          done                \* history: what has happened so far

libVars == <<appID, handle, buffer, size, overflow_counter, contexts, freeing>>
envVars == <<daemon, full, limit>>
vars == <<libVars, mutex, proc, envVars, received, done>>

--------------------------------------------------------------------------------
(* Messages, processes and the pipe *)

Msg(kind, n, from, lost) == [kind |-> kind, n |-> n, from |-> from, lost |-> lost]
Log(n, t) == Msg("log", n, t, 0)
Application == Msg("app", 0, Nobody, 0)
IsLog(m) == m.kind = "log"
LogNumbers(s) == {s[i].n : i \in {j \in DOMAIN s : IsLog(s[j])}}
Unregister == Msg("unregister", 0, Nobody, 0)
Context(n) == Msg("context", n, Nobody, 0)

\* dlt_user_log_send_overflow: for protocol 1 the counter is written to a
\* structure that is not the one sent.
OverflowReport(k) == Msg("overflow", 0, Nobody, IF limit.proto = 2 THEN k ELSE 0)

\* pc, the message, a counter (entries to resend, the next context, or the value
\* of overflow_counter that was read), the results of the write and of the error
\* handling, where to go on after these two, and after an overflow report or
\* after resending.
Frame(pc, m, back, then) ==
  [pc |-> pc, msg |-> m, cnt |-> 0, ret |-> "OK", err |-> "OK",
   back |-> back, then |-> then]
NoMsg == Msg("none", 0, Nobody, 0)
Rest == Frame("idle", NoMsg, "idle", "idle")
\* Top of the housekeeper's loop: the messages of the daemon, which change no state
\* modelled here, and the sleep.
Poll == Frame("attach", NoMsg, "poll", "poll")

At(p, pc) == proc[p].pc = pc
Become(p, f) == proc' = [proc EXCEPT ![p] = f]
\* p goes on at pc; at the end of a function its locals are gone.
Goto(p, f, pc) ==
  Become(p, IF pc = "idle" THEN Rest ELSE IF pc = "poll" THEN Poll ELSE [f EXCEPT !.pc = pc])
\* p may take dlt_mutex, or already has it: the mutex is recursive.
MayLock(p) == mutex \in {Nobody, p}

\* dlt_user_log_out2 and dlt_user_log_out3 on the pipe of process h; a pipe whose
\* reader died stays broken because the next daemon makes a new one.
LogOut(h) == IF h = 0 THEN "ERROR"
             ELSE IF h # daemon THEN "PIPE_ERROR"
             ELSE IF full THEN (IF limit.faulty THEN "ERROR" ELSE "PIPE_FULL") ELSE "OK"
Written(h, m) == received' = IF LogOut(h) = "OK"
                             THEN [received EXCEPT ![h] = Append(@, m)] ELSE received

Init ==
  /\ limit \in Limits
  /\ daemon = (IF limit.up THEN 1 ELSE 0) /\ full = FALSE
  /\ appID = FALSE /\ handle = daemon
  /\ buffer = <<>> /\ size = BufMin /\ overflow_counter = 0
  /\ contexts = 0 /\ mutex = Nobody /\ freeing = FALSE
  /\ proc = [p \in Proc |-> IF p = Housekeeper THEN Poll ELSE Rest]
  /\ received = [d \in 1 .. MaxDaemons |-> <<>>]
  /\ done = [logs |-> 0, fills |-> 0, daemons |-> daemon, attached |-> 0,
             loggers |-> {}, discarded |-> {}, registered |-> FALSE, early |-> {},
             refused |-> {}, warned |-> FALSE, lost |-> {}, overlooked |-> {}]

--------------------------------------------------------------------------------
(* dlt_user_log_out_error_handling: the message goes to the startup buffer *)

\* Mutant of Overlooked: the result of the write does not matter.
OverlookedErrors(p) == IsLog(proc[p].msg) /\ appID

\* The application id is read again before a log message is stored: one that was not written
\* because there was none, and finds one now, is neither stored nor counted.
Overlooked(p) == IsLog(proc[p].msg) /\ proc[p].ret = "OK" /\ appID

SkipStore(p) ==
  /\ At(p, "check") /\ Overlooked(p)
  /\ Goto(p, proc[p], proc[p].back)
  /\ done' = [done EXCEPT !.overlooked = @ \union {proc[p].msg}]
  /\ UNCHANGED <<libVars, mutex, envVars, received>>

\* dlt_buffer_check_size: its result becomes the caller's although the push that
\* follows may grow nothing and succeed.
CheckSize(p) ==
  /\ At(p, "check") /\ ~Overlooked(p) /\ MayLock(p)
  /\ Become(p, [proc[p] EXCEPT !.pc = "store",
                               !.err = IF size + 1 > BufMax THEN "ERROR" ELSE "OK"])
  /\ UNCHANGED <<libVars, mutex, envVars, received, done>>

\* Mutant of Fits: the limit of the buffer is not tested.
FitsAlways == TRUE

\* dlt_buffer_push3 grows the buffer up to BufMax, or fails.
Fits == Len(buffer) < BufMax

Store(p) ==
  /\ At(p, "store") /\ MayLock(p)
  /\ LET fits == Fits
         f == proc[p]
     IN /\ buffer' = IF fits THEN Append(buffer, f.msg) ELSE buffer
        /\ size' = IF fits /\ Len(buffer) = size THEN size + 1 ELSE size
        /\ Goto(p, IF fits THEN f ELSE [f EXCEPT !.err = "BUFFER_FULL"], f.back)
        /\ done' = IF ~fits /\ f.msg.kind = "context"
                   THEN [done EXCEPT !.refused = @ \union {f.msg.n}] ELSE done
  /\ UNCHANGED <<appID, handle, overflow_counter, contexts, freeing, mutex, envVars, received>>

\* Mutant of Sent: the result of the write is ignored.
SentAnyway(sends, ret) == sends

\* What was written without an error is not stored.
Sent(sends, ret) == sends /\ ret = "OK"

\* The write every sending function tries before: with an application id, and for
\* a log message only if resending the buffer went well.
Output(p) ==
  /\ At(p, "out")
  /\ LET f == proc[p]
         sends == f.ret = "OK" /\ appID
         ret == IF sends THEN LogOut(handle) ELSE f.ret
     IN /\ IF sends THEN Written(handle, f.msg) ELSE UNCHANGED received
        /\ IF Sent(sends, ret)
           THEN Goto(p, f, f.back)
           ELSE Become(p, [f EXCEPT !.pc = "check", !.ret = ret])
  /\ UNCHANGED <<libVars, mutex, envVars, done>>

--------------------------------------------------------------------------------
(* dlt_user_log_resend_buffer *)

\* n entries are left to resend.
ResendLoop(p, n) ==
  IF n = 0 THEN Goto(p, [proc[p] EXCEPT !.ret = "OK"], proc[p].then)
  ELSE Become(p, [proc[p] EXCEPT !.pc = "resendLoop", !.cnt = n])

\* The number of entries is read once; without an application id, or for
\* protocol 1, nothing is resent.
ResendBuffer(p) ==
  /\ At(p, "resend") /\ MayLock(p)
  /\ ResendLoop(p, IF appID /\ limit.proto = 2 THEN Len(buffer) ELSE 0)
  /\ UNCHANGED <<libVars, mutex, envVars, received, done>>

\* Mutant of RemoveSent: the entry stays.
RemoveNothing == UNCHANGED <<buffer, size>>

\* dlt_buffer_remove of the entry that was sent
RemoveSent ==
  /\ buffer' = Tail(buffer)
  /\ size' = IF Len(buffer) = 1 THEN BufMin ELSE size

\* Mutant of CloseBroken: the handle stays.
CloseNothing(ret) == UNCHANGED handle

\* A broken pipe is closed.
CloseBroken(ret) == handle' = IF ret = "PIPE_ERROR" THEN 0 ELSE handle

\* One entry is copied, written and removed under the mutex; a failed write ends
\* the loop, and a broken pipe is closed.
ResendEntry(p) ==
  /\ At(p, "resendLoop") /\ MayLock(p)
  /\ IF buffer = <<>>
     THEN /\ ResendLoop(p, proc[p].cnt - 1)
          /\ UNCHANGED <<buffer, size, handle, received>>
     ELSE LET ret == LogOut(handle)
          IN /\ Written(handle, Head(buffer))
             /\ IF ret = "OK"
                THEN /\ RemoveSent
                     /\ ResendLoop(p, proc[p].cnt - 1)
                     /\ UNCHANGED handle
                ELSE /\ UNCHANGED <<buffer, size>>
                     /\ CloseBroken(ret)
                     /\ Goto(p, [proc[p] EXCEPT !.ret = ret], proc[p].then)
  /\ UNCHANGED <<appID, overflow_counter, contexts, freeing, mutex, envVars, done>>

--------------------------------------------------------------------------------
(* dlt_user_log_send_log, dlt_user_log_send_log_v2 *)

Exiting == ~At(Exit, "idle")
MayCall(t) == t \in limit.threads /\ At(t, "idle") /\ ~Exiting

LogStart(t) ==
  /\ MayCall(t) /\ done.logs < limit.logs
  /\ IF limit.proto = 1 THEN mutex = Nobody /\ mutex' = t ELSE UNCHANGED mutex
  /\ Become(t, Frame("overflow", Log(done.logs + 1, t), "logged", "old"))
  /\ done' = [done EXCEPT !.logs = @ + 1, !.loggers = @ \union {t},
                          !.early = IF appID THEN @ ELSE @ \union {"log"}]
  /\ UNCHANGED <<libVars, envVars, received>>

\* Mutant of Reported: the result of the report is ignored.
ReportedAlways(ret) == TRUE
Reported(ret) == ret = "OK"

\* A pending overflow is reported; only then the counter is cleared.
SendOverflow(p) ==
  /\ At(p, "overflow")
  /\ IF overflow_counter > 0 /\ appID
     THEN /\ Written(handle, OverflowReport(overflow_counter))
          /\ Goto(p, proc[p], IF Reported(LogOut(handle)) THEN "reset" ELSE proc[p].then)
     ELSE Goto(p, proc[p], proc[p].then) /\ UNCHANGED received
  /\ UNCHANGED <<libVars, mutex, envVars, done>>

ResetOverflow(p) ==
  /\ At(p, "reset")
  /\ overflow_counter' = 0
  /\ Goto(p, proc[p], proc[p].then)
  /\ UNCHANGED <<appID, handle, buffer, size, contexts, freeing, mutex, envVars, received, done>>

\* Mutant of LogOld: the buffer is left to the housekeeper.
LogOldLast(t) ==
  /\ At(t, "old")
  /\ Become(t, [proc[t] EXCEPT !.pc = "out"])
  /\ UNCHANGED <<libVars, mutex, envVars, received, done>>

\* Old entries first.
LogOld(t) ==
  /\ At(t, "old")
  /\ Become(t, IF handle # 0 /\ appID
               THEN [proc[t] EXCEPT !.pc = "resend", !.then = "out"]
               ELSE [proc[t] EXCEPT !.pc = "out"])
  /\ UNCHANGED <<libVars, mutex, envVars, received, done>>

\* The outcome of the error handling: a full buffer is counted (read here, written
\* by LogCounted), and only an error that is not BUFFER_FULL closes a broken pipe.
LogEnd(t) ==
  /\ At(t, "logged")
  /\ LET f == proc[t]
     IN IF f.err = "BUFFER_FULL"
        THEN /\ Become(t, [f EXCEPT !.pc = "counted", !.cnt = overflow_counter])
             /\ UNCHANGED <<handle, mutex>>
        ELSE /\ Become(t, Rest)
             /\ handle' = IF f.err = "ERROR" /\ f.ret = "PIPE_ERROR" THEN 0 ELSE handle
             /\ mutex' = IF mutex = t THEN Nobody ELSE mutex
  /\ UNCHANGED <<appID, buffer, size, overflow_counter, contexts, freeing, envVars, received, done>>

LogCounted(t) ==
  /\ At(t, "counted")
  /\ overflow_counter' = proc[t].cnt + 1
  /\ done' = [done EXCEPT !.discarded = @ \union {proc[t].msg.n}]
  /\ Become(t, Rest)
  /\ mutex' = IF mutex = t THEN Nobody ELSE mutex
  /\ UNCHANGED <<appID, handle, buffer, size, contexts, freeing, envVars, received>>

--------------------------------------------------------------------------------
(* dlt_register_app, dlt_register_context and their protocol 2 forms *)

RegisterApp(t) ==
  /\ MayCall(t) /\ ~appID /\ MayLock(t)
  /\ appID' = TRUE
  /\ Become(t, Frame("out", Application, "registered", "idle"))
  /\ UNCHANGED <<handle, buffer, size, overflow_counter, contexts, freeing, mutex, envVars,
                 received, done>>

RegisterAppEnd(t) ==
  /\ At(t, "registered")
  /\ Goto(t, proc[t], IF proc[t].err = "OK" /\ handle # 0 THEN "resend" ELSE "idle")
  /\ done' = [done EXCEPT !.registered = TRUE]
  /\ UNCHANGED <<libVars, mutex, envVars, received>>

\* The context gets the next entry of dlt_ll_ts, then the daemon is told.
RegisterContext(t) ==
  /\ MayCall(t) /\ contexts < limit.contexts /\ MayLock(t)
  /\ contexts' = contexts + 1
  /\ done' = IF done.registered THEN done ELSE [done EXCEPT !.early = @ \union {"context"}]
  /\ Become(t, Frame("out", Context(contexts'), "idle", "idle"))
  /\ UNCHANGED <<appID, handle, buffer, size, overflow_counter, freeing, mutex, envVars, received>>

--------------------------------------------------------------------------------
(* dlt_user_housekeeperthread_function, dlt_user_log_reattach_to_daemon *)

\* Where a process goes on after reattaching.
AfterAttach(p) == IF p = Exit THEN "exitAttached" ELSE "attached"

Reattach(p) ==
  /\ At(p, "attach")
  /\ IF freeing \/ handle # 0
     THEN Goto(p, proc[p], AfterAttach(p)) /\ UNCHANGED handle
     ELSE Goto(p, proc[p], "open") /\ handle' = 0
  /\ UNCHANGED <<appID, buffer, size, overflow_counter, contexts, freeing, mutex,
                 envVars, received, done>>

\* open() of the daemon's pipe, and the application registered again.
ReattachOpen(p) ==
  /\ At(p, "open")
  /\ IF daemon = 0
     THEN Goto(p, proc[p], AfterAttach(p)) /\ UNCHANGED <<handle, done>>
     ELSE /\ handle' = daemon
          /\ done' = [done EXCEPT !.attached = daemon]
          /\ Become(p, [proc[p] EXCEPT !.pc = IF appID THEN "out" ELSE "context", !.cnt = 1,
                          !.msg = Application, !.ret = "OK", !.err = "OK", !.back = "context"])
  /\ UNCHANGED <<appID, buffer, size, overflow_counter, contexts, freeing, mutex, envVars, received>>

\* Mutant of AllContexts: the last context is forgotten.
AllContextsButOne(n) == n >= contexts

\* The loop over dlt_ll_ts has passed its last entry.
AllContexts(n) == n > contexts

\* The next context is registered again, unless the buffer was full before.
ReattachContext(p) ==
  /\ At(p, "context") /\ MayLock(p)
  /\ LET f == proc[p]
     IN IF f.err = "BUFFER_FULL" \/ AllContexts(f.cnt) \/ ~appID
        THEN Goto(p, f, AfterAttach(p))
        ELSE Become(p, [f EXCEPT !.pc = "out", !.cnt = @ + 1, !.msg = Context(f.cnt),
                                 !.ret = "OK", !.err = "OK"])
  /\ UNCHANGED <<libVars, mutex, envVars, received, done>>

HousekeeperResend ==
  /\ At(Housekeeper, "attached")
  /\ Goto(Housekeeper, proc[Housekeeper], IF handle # 0 THEN "resend" ELSE "poll")
  /\ UNCHANGED <<libVars, mutex, envVars, received, done>>

--------------------------------------------------------------------------------
(* dlt_user_atexit_handler, for an application whose threads have ended *)

\* dlt_user_atexit_blow_out_user_buffer
ExitStart ==
  /\ limit.exits = 1 /\ ~Exiting /\ \A t \in Threads : At(t, "idle")
  /\ MayLock(Exit)
  /\ Become(Exit, Frame(IF buffer = <<>> THEN "unregister" ELSE "blowOut", NoMsg,
                        "cleared", "exitResent"))
  /\ UNCHANGED <<libVars, mutex, envVars, received, done>>

BlowOut ==
  /\ At(Exit, "blowOut")
  /\ Goto(Exit, proc[Exit], IF handle = 0 THEN "attach" ELSE "exitResend")
  /\ UNCHANGED <<libVars, mutex, envVars, received, done>>

\* Mutant of LeftOver: a finished flush is taken for a complete one.
LeftOverIgnored == FALSE

\* The number of messages that stay in the buffer is not 0.
LeftOver == buffer # <<>>

\* The timeout: what is left in the buffer is reported as lost.
BlowOutTimeout ==
  /\ At(Exit, "blowOut") /\ MayLock(Exit)
  /\ done' = [done EXCEPT !.warned = LeftOver]
  /\ Goto(Exit, proc[Exit], "unregister")
  /\ UNCHANGED <<libVars, mutex, envVars, received>>

BlowOutOverflow ==
  /\ At(Exit, "exitAttached")
  /\ Become(Exit, [proc[Exit] EXCEPT !.pc = IF handle # 0 THEN "overflow" ELSE "exitResend",
                                     !.then = "exitResend"])
  /\ UNCHANGED <<libVars, mutex, envVars, received, done>>

BlowOutResend ==
  /\ At(Exit, "exitResend")
  /\ Become(Exit, [proc[Exit] EXCEPT !.pc = IF handle # 0 THEN "resend" ELSE "blowOut",
                                     !.then = "exitResent"])
  /\ UNCHANGED <<libVars, mutex, envVars, received, done>>

BlowOutEnd ==
  /\ At(Exit, "exitResent") /\ MayLock(Exit)
  /\ IF proc[Exit].ret = "OK"
     THEN /\ done' = [done EXCEPT !.warned = LeftOver]
          /\ Goto(Exit, proc[Exit], "unregister")
     ELSE Goto(Exit, proc[Exit], "blowOut") /\ UNCHANGED done
  /\ UNCHANGED <<libVars, mutex, envVars, received>>

\* dlt_unregister_app_util(false), the protocol 1 form for both protocols.
ExitUnregister ==
  /\ At(Exit, "unregister")
  /\ Become(Exit, IF appID /\ limit.proto = 1
                  THEN Frame("out", Unregister, "cleared", "cleared")
                  ELSE Frame("cleared", NoMsg, "cleared", "cleared"))
  /\ UNCHANGED <<libVars, mutex, envVars, received, done>>

\* The application id is cleared.
ExitClear ==
  /\ At(Exit, "cleared") /\ MayLock(Exit)
  /\ appID' = (appID /\ limit.proto = 2)
  /\ Goto(Exit, proc[Exit], "freeing")
  /\ UNCHANGED <<handle, buffer, size, overflow_counter, contexts, freeing, mutex, envVars,
                 received, done>>

\* dlt_free says that it begins ...
FreeStart ==
  /\ At(Exit, "freeing")
  /\ freeing' = TRUE
  /\ Goto(Exit, proc[Exit], "free")
  /\ UNCHANGED <<appID, handle, buffer, size, overflow_counter, contexts, mutex, envVars,
                 received, done>>

\* ... takes the mutex and cancels the housekeeper (dlt_stop_threads) ...
FreeLock ==
  /\ At(Exit, "free") /\ mutex = Nobody
  /\ mutex' = Exit
  /\ Goto(Exit, proc[Exit], "join")
  /\ UNCHANGED <<libVars, envVars, received, done>>

\* ... which ends it at its next cancellation point: poll, sleep, open or write.
HousekeeperCancelled ==
  /\ At(Exit, "join")
  /\ \/ At(Housekeeper, "attach") \/ At(Housekeeper, "open")
     \/ At(Housekeeper, "out") /\ handle # 0
  /\ Become(Housekeeper, Rest)
  /\ UNCHANGED <<libVars, mutex, envVars, received, done>>

\* ... and frees everything once the housekeeper has ended.
FreeJoined ==
  /\ At(Exit, "join") /\ At(Housekeeper, "idle")
  /\ handle' = 0 /\ buffer' = <<>> /\ size' = BufMin /\ contexts' = 0 /\ mutex' = Nobody
  /\ freeing' = FALSE
  /\ done' = [done EXCEPT !.lost = LogNumbers(buffer)]
  /\ Goto(Exit, proc[Exit], "exited")
  /\ UNCHANGED <<appID, overflow_counter, envVars, received>>

--------------------------------------------------------------------------------
(* The environment: daemon processes, and other applications that fill the pipe *)

DaemonStarts ==
  /\ daemon = 0 /\ done.daemons < limit.daemons
  /\ daemon' = done.daemons + 1 /\ full' = FALSE
  /\ done' = [done EXCEPT !.daemons = daemon']
  /\ UNCHANGED <<libVars, mutex, proc, limit, received>>

DaemonStops ==
  /\ daemon # 0 /\ done.daemons < limit.daemons
  /\ daemon' = 0 /\ full' = FALSE
  /\ UNCHANGED <<libVars, mutex, proc, limit, received, done>>

PipeFills ==
  /\ daemon # 0 /\ ~full /\ done.fills < limit.fills
  /\ full' = TRUE
  /\ done' = [done EXCEPT !.fills = @ + 1]
  /\ UNCHANGED <<libVars, mutex, proc, daemon, limit, received>>

DaemonReads ==
  /\ full /\ full' = FALSE
  /\ UNCHANGED <<libVars, mutex, proc, daemon, limit, received, done>>

Send(p) ==
  \/ Output(p) \/ SkipStore(p) \/ CheckSize(p) \/ Store(p)
  \/ ResendBuffer(p) \/ ResendEntry(p)
  \/ SendOverflow(p) \/ ResetOverflow(p)

ThreadStep(t) ==
  Send(t) \/ LogOld(t) \/ LogEnd(t) \/ LogCounted(t) \/ RegisterAppEnd(t)

AttachStep(p) == Reattach(p) \/ ReattachOpen(p) \/ ReattachContext(p)

HousekeeperStep ==
  Send(Housekeeper) \/ AttachStep(Housekeeper) \/ HousekeeperResend

ExitStep ==
  \/ Send(Exit) \/ AttachStep(Exit)
  \/ BlowOut \/ BlowOutTimeout \/ BlowOutOverflow \/ BlowOutResend \/ BlowOutEnd
  \/ ExitUnregister \/ ExitClear \/ FreeStart \/ FreeLock \/ FreeJoined

Call(t) == LogStart(t) \/ RegisterApp(t) \/ RegisterContext(t)

Next ==
  \/ \E t \in Threads : Call(t) \/ ThreadStep(t)
  \/ HousekeeperStep \/ HousekeeperCancelled
  \/ ExitStart \/ ExitStep
  \/ DaemonStarts \/ DaemonStops \/ PipeFills \/ DaemonReads

Spec == Init /\ [][Next]_vars

\* Threads run; one that waits for the mutex gets it when it is free again and
\* again; a cancelled thread ends at its cancellation point; the time of the atexit
\* handler runs out; the daemon reads.
FairSpec ==
  /\ Spec
  /\ \A t \in Threads : SF_vars(ThreadStep(t))
  /\ SF_vars(HousekeeperStep)
  /\ SF_vars(ExitStep)
  /\ SF_vars(BlowOutTimeout)
  /\ WF_vars(HousekeeperCancelled)
  /\ WF_vars(DaemonReads)

--------------------------------------------------------------------------------
(* Properties *)

\* What the pipe of a daemon accepted; what waits in the buffer has no daemon yet.
Held(d) == IF d = 0 THEN buffer ELSE received[d]
Quiet == \A t \in Threads : At(t, "idle")
Message == [kind : {"none", "log", "app", "unregister", "context", "overflow"},
            n : Nat, from : Threads \union {Nobody}, lost : Nat]

\* Types of the variables; the startup buffer keeps within its configured limit.
TypeOK ==
  /\ appID \in BOOLEAN /\ freeing \in BOOLEAN /\ full \in BOOLEAN
  /\ handle \in 0 .. MaxDaemons /\ daemon \in 0 .. MaxDaemons
  /\ buffer \in Seq(Message) /\ size \in BufMin .. BufMax /\ Len(buffer) <= size
  /\ overflow_counter \in Nat /\ contexts \in Nat
  /\ mutex \in Proc \union {Nobody}
  /\ \A p \in Proc : proc[p].msg \in Message /\ proc[p].cnt \in Nat
  /\ received \in [1 .. MaxDaemons -> Seq(Message)]

\* A log message is handed over at most once (dlt_user_log_resend_buffer), whatever
\* threads resend the buffer at the same time and whatever daemon is running: it is
\* never in the buffer and in a pipe, or in two places of the pipes.
NoDuplicate ==
  \A d, e \in 0 .. MaxDaemons : \A i \in DOMAIN Held(d), j \in DOMAIN Held(e) :
    IsLog(Held(d)[i]) /\ IsLog(Held(e)[j]) /\ Held(d)[i].n = Held(e)[j].n => d = e /\ i = j

\* A log call that ended (dlt_user_log_send_log) has left its message in a pipe, in
\* the buffer, counted as discarded, lost at exit, or was overlooked.
NoSilentLoss ==
  Quiet => \A n \in 1 .. done.logs :
             \/ \E d \in 0 .. MaxDaemons : n \in LogNumbers(Held(d))
             \/ n \in done.discarded \union done.lost
             \/ \E m \in done.overlooked : m.n = n

\* dlt_user_log_send_log reads the application id under the mutex that dlt_register_app holds
\* and overlooks nothing; dlt_user_log_send_log_v2 does not, and overlooks at most one message
\* of a thread, the one it is about to store when dlt_register_app_v2 sets the id.
OverlooksOne ==
  /\ limit.proto = 1 => done.overlooked = {}
  /\ \A m, k \in done.overlooked : m.from = k.from => m = k

\* Log messages that dlt_free drops with the buffer were reported by the warning of
\* dlt_user_atexit_handler.
ExitReportsLoss == done.lost # {} => done.warned

\* As long as the library has not reattached, and if nothing was logged before the
\* application was registered, a thread's messages reach the pipes in the order of its
\* calls although older ones wait in the buffer, which other threads and the
\* housekeeper resend.
ThreadOrder ==
  done.attached = 0 /\ "log" \notin done.early =>
    \A d, e \in 1 .. MaxDaemons : \A i \in DOMAIN received[d], j \in DOMAIN received[e] :
      LET m == received[d][i]
          later == received[e][j]
      IN (d < e \/ (d = e /\ i < j)) /\ IsLog(m) /\ IsLog(later) /\ m.from = later.from
           => m.n < later.n

\* What threads log is handed over once, and each thread's in the order of its calls.
HandedOver == TypeOK /\ NoDuplicate /\ ThreadOrder

\* No log message is lost without a count or the warning at exit, but for one of each thread
\* that logs while an application of protocol 2 is registered.
LossReported == NoSilentLoss /\ OverlooksOne /\ ExitReportsLoss

\* A member for each loss that the overflow reports in the pipes announce: the report's
\* place and a number.
Announced(pipes) ==
  UNION {UNION {{<<d, i>>} \X (1 .. pipes[d][i].lost) :
                  i \in {j \in DOMAIN pipes[d] : pipes[d][j].kind = "overflow"}} :
           d \in DOMAIN pipes}

\* Every discarded message is counted in overflow_counter or was reported to a daemon
\* (dlt_user_log_send_overflow).
OverflowAccounted ==
  Quiet /\ ~At(Exit, "reset") =>
    Cardinality(done.discarded) = overflow_counter + Cardinality(Announced(received))

\* ... which holds for protocol 2 as long as one thread logs.
OverflowAccountedV2 ==
  limit.proto = 2 /\ Cardinality(done.loggers) <= 1 => OverflowAccounted

\* Whenever the housekeeper has finished a round (dlt_user_log_reattach_to_daemon), the
\* daemon the library is attached to has been told of every context, or will be from the
\* buffer, after the application it belongs to.  Excepted are contexts registered before
\* the application, contexts that a full buffer refused, and pipes that were full.
ContextsKnown ==
  /\ Quiet /\ At(Housekeeper, "attach") /\ ~Exiting
  /\ handle = daemon /\ daemon # 0 /\ done.registered
  /\ done.fills = 0 /\ "context" \notin done.early
  => LET told == received[daemon] \o buffer
     IN \A n \in (1 .. contexts) \ done.refused :
          \E i, j \in DOMAIN told : i < j /\ told[i] = Application /\ told[j] = Context(n)

\* When a daemon stays and the application is registered and does not exit, the
\* startup buffer is emptied (dlt_user_housekeeperthread_function).
Resent == <>[](daemon # 0 /\ appID /\ ~Exiting) => <>[](buffer = <<>>)

\* ... which holds for protocol 2: there the buffer is resent, and a broken pipe is
\* closed so that the housekeeper attaches to the new daemon.
ResentV2 == limit.proto = 2 => Resent
================================================================================
