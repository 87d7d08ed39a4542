----------------------------- MODULE DltUserProofs -----------------------------
(* What becomes of the log messages of an application, for every number of        *)
(* threads, messages, daemon processes and any capacity of the startup buffer.    *)
EXTENDS DltUser, SequenceTheorems, FiniteSetTheorems, TLAPS

Pcs == {"idle", "poll", "overflow", "reset", "old", "resend", "resendLoop", "out", "check", "store",
        "logged", "counted", "registered", "attach", "open", "context", "attached", "exitAttached",
        "blowOut", "exitResend", "exitResent", "unregister", "cleared", "freeing", "free", "join",
        "exited"}
Results == {"OK", "ERROR", "PIPE_ERROR", "PIPE_FULL", "BUFFER_FULL"}
FrameSet == [pc : Pcs, msg : Message, cnt : Nat, ret : Results, err : Results, back : Pcs, then : Pcs]
History == [logs : Nat, fills : Nat, daemons : 0 .. MaxDaemons, attached : 0 .. MaxDaemons,
            loggers : SUBSET Threads, discarded : SUBSET Nat, registered : BOOLEAN,
            early : SUBSET {"log", "context"}, refused : SUBSET Nat, warned : BOOLEAN,
            lost : SUBSET Nat, overlooked : SUBSET Message]

\* Types, of the frames and the history variables too.
Typed ==
  /\ TypeOK
  /\ proc \in [Proc -> FrameSet]
  /\ limit \in Limits
  /\ done \in History

\* The log message of f is neither in a pipe nor in the buffer: it is on its way there, or
\* about to be counted.
Loose(f) == /\ f.msg.kind = "log"
            /\ f.pc # "logged" \/ f.err = "BUFFER_FULL"

\* Where a thread can be: in a log call ...
LogCall(t, f) ==
  /\ f.msg.from = t
  /\ f.back = "logged"
  /\ f.pc \in {"overflow", "reset", "old", "resend", "resendLoop", "out", "check", "store",
               "logged", "counted"}
  /\ f.pc \in {"overflow", "reset"} => f.then = "old"
  /\ f.pc \in {"resend", "resendLoop"} => f.then = "out"
  /\ f.pc \notin {"store", "logged", "counted"} => f.err = "OK"
  /\ f.pc = "store" => f.err # "BUFFER_FULL"
\* ... or in none.
OtherCall(f) ==
  /\ f.back \in {"registered", "idle"} /\ f.then = "idle"
  /\ f.pc \in {"idle", "out", "check", "store", "registered", "resend", "resendLoop"}
ThreadFrame(t, f) == IF f.msg.kind = "log" THEN LogCall(t, f) ELSE OtherCall(f)
ThreadFrames ==
  \A t \in Threads : /\ ThreadFrame(t, proc[t])
                     /\ proc[t].msg.kind = "log" => proc[t].msg.n \in 1 .. done.logs

\* The other processes handle no log message except those they resend.
OtherFrames ==
  /\ \A p \in {Housekeeper, Exit} : proc[p].msg.kind # "log"
  /\ \A p \in Proc : /\ proc[p].pc = "resendLoop" => proc[p].cnt # 0 /\ limit.proto = 2
                     /\ proc[p].back # "resendLoop" /\ proc[p].then # "resendLoop"

\* The atexit handler: its helpers return to where they were called, and it begins when all
\* threads have ended.
ExitPlace(f) ==
  /\ f.pc \in {"idle", "blowOut", "attach", "open", "context", "exitAttached", "overflow", "reset",
               "exitResend", "resend", "resendLoop", "exitResent", "out", "check", "store",
               "unregister", "cleared", "freeing", "free", "join", "exited"}
  /\ f.pc \in {"overflow", "reset"} => f.then = "exitResend"
  /\ f.pc \in {"resend", "resendLoop"} => f.then = "exitResent"
  /\ f.pc \in {"out", "check", "store"} => f.back \in {"context", "cleared"}
  /\ f.pc = "context" => f.back = "context"
ExitFrame ==
  /\ ExitPlace(proc[Exit])
  /\ Exiting => \A t \in Threads : At(t, "idle")

\* The atexit handler has given up on the startup buffer.
GaveUp(f) ==
  \/ f.pc \in {"unregister", "cleared", "freeing", "free", "join", "exited"}
  \/ f.pc \in {"out", "check", "store"} /\ f.back = "cleared"
Flushed == GaveUp(proc[Exit])

\* A log message that is left then was reported.
Warned ==
  /\ Flushed /\ LogNumbers(buffer) # {} => done.warned
  /\ done.lost # {} => done.warned
  /\ ~At(Exit, "exited") => done.lost = {}

--------------------------------------------------------------------------------
(* Where the log messages are: in box d is what the pipe of daemon d accepted, in box 0 the       *)
(* startup buffer.                                                                                *)

Boxes == 0 .. MaxDaemons
held == [d \in Boxes |-> Held(d)]

In(h, n) == \E d \in Boxes : \E i \in 1 .. Len(h[d]) : h[d][i].kind = "log" /\ h[d][i].n = n

Distinct(h) ==
  \A d, e \in Boxes : \A i \in 1 .. Len(h[d]), j \in 1 .. Len(h[e]) :
    h[d][i].kind = "log" /\ h[e][j].kind = "log" /\ h[d][i].n = h[e][j].n => d = e /\ i = j

\* No message is on its way twice, or there already.
Unique ==
  /\ Distinct(held)
  /\ \A d \in Boxes : \A i \in 1 .. Len(held[d]) : held[d][i].kind = "log" => held[d][i].n <= done.logs
  /\ \A t \in Threads : Loose(proc[t]) => ~In(held, proc[t].msg.n)
  /\ \A t, u \in Threads : Loose(proc[t]) /\ Loose(proc[u]) /\ proc[t].msg.n = proc[u].msg.n => t = u

\* Every message is somewhere.
Kept ==
  \A n \in 1 .. done.logs :
    \/ In(held, n) \/ n \in done.discarded \/ n \in done.lost
    \/ \E m \in done.overlooked : m.n = n
    \/ \E t \in Threads : Loose(proc[t]) /\ proc[t].msg.n = n

\* A log message at the place where it is overlooked if the application id is set.
Waiting(f) == f.msg.kind = "log" /\ f.pc = "check" /\ f.ret = "OK"

\* With protocol 1 a log call holds the mutex and the id is not set meanwhile; with protocol 2
\* no message of a thread waits any more once one of it was overlooked.
Overlooks ==
  /\ limit.proto = 1 =>
       /\ done.overlooked = {}
       /\ \A t \in Threads : /\ proc[t].msg.kind = "log" => mutex = t
                             /\ Waiting(proc[t]) => ~appID
  /\ \A m \in done.overlooked : appID /\ m.from \in Threads /\ ~Waiting(proc[m.from])
  /\ \A m, k \in done.overlooked : m.from = k.from => m = k

--------------------------------------------------------------------------------
(* The order of a thread's messages *)

Earlier(m, k) == m.kind = "log" /\ k.kind = "log" /\ m.from = k.from => m.n < k.n
InTurn(s) == \A i, j \in 1 .. Len(s) : i < j => Earlier(s[i], s[j])
Precedes(r, s) == \A i \in 1 .. Len(r), j \in 1 .. Len(s) : Earlier(r[i], s[j])

\* A message on its way is the last one of its thread.
Newest ==
  \A t \in Threads : Loose(proc[t]) =>
    \A d \in Boxes : \A i \in 1 .. Len(held[d]) : Earlier(held[d][i], proc[t].msg)

\* The library has not reattached, and all messages were logged by a registered application.
Attached == done.attached = 0 /\ "log" \notin done.early

\* Then there is only one pipe, and the buffer comes after it, unless it is never resent.
Line ==
  Attached =>
    /\ handle \in {0, 1}
    /\ \A d \in Boxes \ {0, 1} : held[d] = <<>>
    /\ InTurn(received[1])
    /\ limit.proto = 2 => InTurn(buffer) /\ Precedes(received[1], buffer)

\* Where thread t's messages can be in the buffer while it logs.
Ahead ==
  Attached =>
    \A t \in Threads : Loose(proc[t]) =>
      /\ appID
      /\ limit.proto = 2 => \A i \in 1 .. Len(buffer) : buffer[i].kind = "log" /\ buffer[i].from = t =>
           /\ proc[t].pc = "resendLoop" => i <= proc[t].cnt
           /\ proc[t].pc = "out" /\ proc[t].ret = "OK" => handle = 0

UserInv ==
  /\ Typed /\ ThreadFrames /\ OtherFrames /\ ExitFrame /\ Warned /\ Unique /\ Kept /\ Newest /\ Line /\ Ahead
  /\ Overlooks

--------------------------------------------------------------------------------
(* Frames *)

\* Where Goto leads.
After(f, pc) == IF pc = "idle" THEN Rest ELSE IF pc = "poll" THEN Poll ELSE [f EXCEPT !.pc = pc]

\* Only p goes on.
Moves(p) == /\ proc' \in [Proc -> FrameSet]
            /\ \A q \in Proc : q # p => proc'[q] = proc[q]

\* g is f gone on at pc: the same call with the same locals, or the end of it.
GoesOn(f, g, pc) ==
  /\ pc = "idle" => g = Rest
  /\ pc = "poll" => g = Poll
  /\ pc \notin {"idle", "poll"} =>
       /\ g.pc = pc /\ g.msg = f.msg /\ g.cnt = f.cnt /\ g.ret = f.ret /\ g.err = f.err
       /\ g.back = f.back /\ g.then = f.then

LEMMA MessageTypes ==
  /\ \A n \in Nat, t \in Threads : Log(n, t) \in Message
  /\ \A n \in Nat : Context(n) \in Message
  /\ Application \in Message /\ Unregister \in Message /\ NoMsg \in Message
  BY DEF Message, Log, Context, Application, Unregister, NoMsg, Msg, Nobody

LEMMA PcsAre ==
  /\ "idle" \in Pcs /\ "poll" \in Pcs /\ "overflow" \in Pcs /\ "reset" \in Pcs /\ "old" \in Pcs
  /\ "resend" \in Pcs /\ "resendLoop" \in Pcs /\ "out" \in Pcs /\ "check" \in Pcs
  /\ "store" \in Pcs /\ "logged" \in Pcs /\ "counted" \in Pcs /\ "registered" \in Pcs
  /\ "attach" \in Pcs /\ "open" \in Pcs /\ "context" \in Pcs /\ "attached" \in Pcs
  /\ "exitAttached" \in Pcs /\ "blowOut" \in Pcs /\ "exitResend" \in Pcs
  /\ "exitResent" \in Pcs /\ "unregister" \in Pcs /\ "cleared" \in Pcs /\ "freeing" \in Pcs
  /\ "free" \in Pcs /\ "join" \in Pcs /\ "exited" \in Pcs
  BY DEF Pcs

LEMMA ResultsAre ==
  /\ "OK" \in Results /\ "ERROR" \in Results /\ "PIPE_ERROR" \in Results
  /\ "PIPE_FULL" \in Results /\ "BUFFER_FULL" \in Results
  BY DEF Results

LEMMA FrameTypes ==
  /\ \A pc, back, then \in Pcs, m \in Message : Frame(pc, m, back, then) \in FrameSet
  /\ Rest \in FrameSet /\ Poll \in FrameSet
  <1>1. \A pc, back, then \in Pcs, m \in Message : Frame(pc, m, back, then) \in FrameSet
    BY ResultsAre DEF Frame, FrameSet
  <1>2. Rest \in FrameSet /\ Poll \in FrameSet
    BY <1>1, PcsAre, MessageTypes DEF Rest, Poll
  <1> QED BY <1>1, <1>2

LEMMA RestFields ==
  /\ Rest.pc = "idle" /\ Rest.msg.kind = "none" /\ Rest.back = "idle" /\ Rest.then = "idle"
  /\ Poll.pc = "attach" /\ Poll.msg.kind = "none"
  BY DEF Rest, Poll, Frame, NoMsg, Msg

\* A frame that goes on keeps its locals.
LEMMA AfterFrame ==
  ASSUME NEW f \in FrameSet, NEW pc \in Pcs
  PROVE  After(f, pc) \in FrameSet /\ GoesOn(f, After(f, pc), pc)
  <1>1. [f EXCEPT !.pc = pc] \in FrameSet
    BY DEF FrameSet
  <1>2. pc \notin {"idle", "poll"} => After(f, pc) = [f EXCEPT !.pc = pc]
    BY DEF After
  <1>3. LET g == [f EXCEPT !.pc = pc] IN
              /\ g.pc = pc /\ g.msg = f.msg /\ g.cnt = f.cnt /\ g.ret = f.ret /\ g.err = f.err
              /\ g.back = f.back /\ g.then = f.then
    BY DEF FrameSet
  <1>4. pc = "idle" => After(f, pc) = Rest
    BY DEF After
  <1>5. pc = "poll" => After(f, pc) = Poll
    BY DEF After
  <1> QED
    BY <1>1, <1>2, <1>3, <1>4, <1>5, FrameTypes DEF GoesOn

LEMMA BecomeMoves ==
  ASSUME proc \in [Proc -> FrameSet], NEW p \in Proc, NEW g \in FrameSet, Become(p, g)
  PROVE  Moves(p) /\ proc'[p] = g
  BY DEF Become, Moves

LEMMA GotoMoves ==
  ASSUME proc \in [Proc -> FrameSet], NEW p \in Proc, NEW f \in FrameSet, NEW pc \in Pcs, Goto(p, f, pc)
  PROVE  Moves(p) /\ GoesOn(f, proc'[p], pc)
  <1>1. Become(p, After(f, pc))
    BY DEF Goto, After
  <1> QED
    BY <1>1, AfterFrame, BecomeMoves

--------------------------------------------------------------------------------
(* How the steps of a process go on *)

Frames == proc \in [Proc -> FrameSet]
FieldTypes(f) == f.pc \in Pcs /\ f.msg \in Message /\ f.cnt \in Nat /\ f.ret \in Results /\ f.err \in Results
                 /\ f.back \in Pcs /\ f.then \in Pcs

LEMMA FrameFields ==
  ASSUME NEW f \in FrameSet
  PROVE  FieldTypes(f)
  BY DEF FrameSet, FieldTypes

LEMMA CheckSizeMoves ==
  ASSUME Frames, NEW p \in Proc, CheckSize(p)
  PROVE  /\ Moves(p) /\ proc[p].pc = "check"
         /\ LET f == proc[p] g == proc'[p] IN
            /\ g.pc = "store" /\ g.msg = f.msg /\ g.ret = f.ret /\ g.cnt = f.cnt
            /\ g.err \in {"OK", "ERROR"} /\ g.back = f.back /\ g.then = f.then
  <1>1. PICK e : e = IF size + 1 > BufMax THEN "ERROR" ELSE "OK"
    OBVIOUS
  <1>2. e \in {"OK", "ERROR"}
    BY <1>1
  <1>3. proc[p] \in FrameSet
    BY DEF Frames
  <1>4. PICK g : g = [proc[p] EXCEPT !.pc = "store", !.err = e]
    OBVIOUS
  <1>5. g \in FrameSet
    BY <1>2, <1>3, <1>4, PcsAre, ResultsAre DEF FrameSet
  <1>6. /\ g.pc = "store" /\ g.msg = proc[p].msg /\ g.ret = proc[p].ret /\ g.cnt = proc[p].cnt
        /\ g.err = e /\ g.back = proc[p].back /\ g.then = proc[p].then
    BY <1>3, <1>4 DEF FrameSet
  <1>7. Become(p, g)
    BY <1>1, <1>4 DEF CheckSize
  <1> QED
    BY <1>2, <1>5, <1>6, <1>7, BecomeMoves DEF CheckSize, At, Frames

LEMMA SkipStoreMoves ==
  ASSUME Frames, NEW p \in Proc, SkipStore(p)
  PROVE  /\ Moves(p) /\ proc[p].pc = "check" /\ proc[p].msg.kind = "log" /\ proc[p].ret = "OK" /\ appID
         /\ GoesOn(proc[p], proc'[p], proc[p].back)
  <1>1. proc[p] \in FrameSet
    BY DEF Frames
  <1>2. proc[p].back \in Pcs
    BY <1>1, FrameFields DEF FieldTypes
  <1> QED
    BY <1>1, <1>2, GotoMoves DEF SkipStore, Overlooked, IsLog, At, Frames

LEMMA StoreMoves ==
  ASSUME Frames, NEW p \in Proc, Store(p)
  PROVE  /\ Moves(p) /\ proc[p].pc = "store"
         /\ Fits => GoesOn(proc[p], proc'[p], proc[p].back)
         /\ ~Fits => GoesOn([proc[p] EXCEPT !.err = "BUFFER_FULL"], proc'[p], proc[p].back)
  <1>1. proc[p] \in FrameSet
    BY DEF Frames
  <1>2. [proc[p] EXCEPT !.err = "BUFFER_FULL"] \in FrameSet
    BY <1>1, ResultsAre DEF FrameSet
  <1>3. proc[p].back \in Pcs
    BY <1>1, FrameFields DEF FieldTypes
  <1>4. CASE Fits
    <2>1. Goto(p, proc[p], proc[p].back)
      BY <1>4 DEF Store
    <2> QED
      BY <1>1, <1>3, <1>4, <2>1, GotoMoves DEF Store, At, Frames
  <1>5. CASE ~Fits
    <2>1. Goto(p, [proc[p] EXCEPT !.err = "BUFFER_FULL"], proc[p].back)
      BY <1>5 DEF Store
    <2> QED
      BY <1>2, <1>3, <1>5, <2>1, GotoMoves DEF Store, At, Frames
  <1> QED
    BY <1>4, <1>5

\* The fields of a frame with one changed.
LEMMA ErrField ==
  ASSUME NEW f \in FrameSet, NEW e \in Results
  PROVE  LET g == [f EXCEPT !.err = e] IN
         /\ g \in FrameSet /\ g.pc = f.pc /\ g.msg = f.msg /\ g.cnt = f.cnt /\ g.ret = f.ret
         /\ g.err = e /\ g.back = f.back /\ g.then = f.then
  BY DEF FrameSet

LEMMA RetField ==
  ASSUME NEW f \in FrameSet, NEW e \in Results
  PROVE  LET g == [f EXCEPT !.ret = e] IN
         /\ g \in FrameSet /\ g.pc = f.pc /\ g.msg = f.msg /\ g.cnt = f.cnt /\ g.ret = e
         /\ g.err = f.err /\ g.back = f.back /\ g.then = f.then
  BY DEF FrameSet

LEMMA LogOutResult ==
  ASSUME NEW h
  PROVE  LogOut(h) \in Results /\ LogOut(h) # "BUFFER_FULL" /\ (LogOut(h) = "OK" => h = daemon /\ h # 0)
  BY DEF LogOut, Results

\* Whether Output writes its message.
Wrote(p) == proc[p].ret = "OK" /\ appID /\ LogOut(handle) = "OK"

LEMMA OutputMoves ==
  ASSUME Frames, NEW p \in Proc, Output(p)
  PROVE  /\ Moves(p) /\ proc[p].pc = "out"
         /\ Wrote(p) => GoesOn(proc[p], proc'[p], proc[p].back)
         /\ ~Wrote(p) => LET f == proc[p] g == proc'[p] IN
              /\ g.pc = "check" /\ g.msg = f.msg /\ g.cnt = f.cnt /\ g.err = f.err
              /\ g.back = f.back /\ g.then = f.then /\ (g.ret = "OK" => ~appID)
         /\ Wrote(p) => received' = [received EXCEPT ![handle] = Append(received[handle], proc[p].msg)]
         /\ ~Wrote(p) => received' = received
  <1>1. proc[p] \in FrameSet
    BY DEF Frames
  <1>2. FieldTypes(proc[p])
    BY <1>1, FrameFields
  <1>3. PICK ret : ret = IF proc[p].ret = "OK" /\ appID THEN LogOut(handle) ELSE proc[p].ret
    OBVIOUS
  <1>4. ret \in Results
    BY <1>2, <1>3, LogOutResult DEF FieldTypes
  <1>5. Sent(proc[p].ret = "OK" /\ appID, ret) <=> Wrote(p)
    BY <1>3 DEF Sent, Wrote
  <1>6. CASE Wrote(p)
    <2>1. Goto(p, proc[p], proc[p].back)
      BY <1>3, <1>5, <1>6 DEF Output
    <2>2. received' = [received EXCEPT ![handle] = Append(received[handle], proc[p].msg)]
      BY <1>6 DEF Output, Wrote, Written
    <2> QED
      BY <1>1, <1>2, <1>6, <2>1, <2>2, GotoMoves DEF FieldTypes, Output, At, Frames
  <1>7. CASE ~Wrote(p)
    <2>1. PICK g : g = [proc[p] EXCEPT !.pc = "check", !.ret = ret]
      OBVIOUS
    <2>2. Become(p, g)
      BY <1>3, <1>5, <1>7, <2>1 DEF Output
    <2>3. g \in FrameSet
      BY <1>1, <1>4, <2>1, PcsAre DEF FrameSet
    <2>4. /\ g.pc = "check" /\ g.msg = proc[p].msg /\ g.cnt = proc[p].cnt /\ g.err = proc[p].err
          /\ g.back = proc[p].back /\ g.then = proc[p].then /\ g.ret = ret
      BY <1>1, <2>1 DEF FrameSet
    <2>5. received' = received
      BY <1>7 DEF Output, Wrote, Written
    <2>6. ret = "OK" => ~appID
      BY <1>3, <1>7 DEF Wrote
    <2> QED
      BY <1>7, <2>2, <2>3, <2>4, <2>5, <2>6, BecomeMoves DEF Output, At, Frames
  <1> QED
    BY <1>6, <1>7

\* The loop over the entries goes on with n of them, or returns.
Loops(f, g, n) ==
  /\ n = 0 => GoesOn([f EXCEPT !.ret = "OK"], g, f.then)
  /\ n # 0 => /\ g.pc = "resendLoop" /\ g.cnt = n /\ g.msg = f.msg /\ g.ret = f.ret /\ g.err = f.err
              /\ g.back = f.back /\ g.then = f.then

LEMMA ResendLoopMoves ==
  ASSUME Frames, NEW p \in Proc, NEW n \in Nat, ResendLoop(p, n)
  PROVE  Moves(p) /\ Loops(proc[p], proc'[p], n)
  <1>1. proc[p] \in FrameSet
    BY DEF Frames
  <1>2. CASE n = 0
    <2>1. Goto(p, [proc[p] EXCEPT !.ret = "OK"], proc[p].then)
      BY <1>2 DEF ResendLoop
    <2>2. [proc[p] EXCEPT !.ret = "OK"] \in FrameSet /\ proc[p].then \in Pcs
      BY <1>1, RetField, ResultsAre, FrameFields DEF FieldTypes
    <2> QED
      BY <1>2, <2>1, <2>2, GotoMoves DEF Frames, Loops
  <1>3. CASE n # 0
    <2>1. PICK g : g = [proc[p] EXCEPT !.pc = "resendLoop", !.cnt = n]
      OBVIOUS
    <2>2. Become(p, g)
      BY <1>3, <2>1 DEF ResendLoop
    <2>3. g \in FrameSet
      BY <1>1, <2>1, PcsAre DEF FrameSet
    <2>4. /\ g.pc = "resendLoop" /\ g.cnt = n /\ g.msg = proc[p].msg /\ g.ret = proc[p].ret
          /\ g.err = proc[p].err /\ g.back = proc[p].back /\ g.then = proc[p].then
      BY <1>1, <2>1 DEF FrameSet
    <2> QED
      BY <1>3, <2>2, <2>3, <2>4, BecomeMoves DEF Frames, Loops
  <1> QED
    BY <1>2, <1>3

LEMMA ResendBufferMoves ==
  ASSUME Frames, NEW p \in Proc, ResendBuffer(p), Len(buffer) \in Nat
  PROVE  /\ Moves(p) /\ proc[p].pc = "resend"
         /\ Loops(proc[p], proc'[p], IF appID /\ limit.proto = 2 THEN Len(buffer) ELSE 0)
  <1>1. (IF appID /\ limit.proto = 2 THEN Len(buffer) ELSE 0) \in Nat
    OBVIOUS
  <1> QED
    BY <1>1, ResendLoopMoves DEF ResendBuffer, At

\* Whether ResendEntry moves an entry of the buffer to the pipe.
Resends == buffer # <<>> /\ LogOut(handle) = "OK"

LEMMA ResendEntryMoves ==
  ASSUME Frames, NEW p \in Proc, ResendEntry(p), proc[p].cnt # 0
  PROVE  /\ Moves(p) /\ proc[p].pc = "resendLoop"
         /\ buffer = <<>> \/ Resends => Loops(proc[p], proc'[p], proc[p].cnt - 1)
         /\ ~(buffer = <<>> \/ Resends) =>
              GoesOn([proc[p] EXCEPT !.ret = LogOut(handle)], proc'[p], proc[p].then)
         /\ Resends => /\ buffer' = Tail(buffer)
                       /\ size' = IF Len(buffer) = 1 THEN BufMin ELSE size
                       /\ received' = [received EXCEPT ![handle] = Append(received[handle], Head(buffer))]
         /\ ~Resends => UNCHANGED <<buffer, size, received>>
         /\ handle' \in {0, handle}
  <1>1. proc[p] \in FrameSet
    BY DEF Frames
  <1>2. proc[p].cnt - 1 \in Nat
    BY <1>1, FrameFields DEF FieldTypes
  <1>3. CASE buffer = <<>>
    <2>1. ResendLoop(p, proc[p].cnt - 1)
      BY <1>3 DEF ResendEntry
    <2> QED
      BY <1>2, <1>3, <2>1, ResendLoopMoves DEF ResendEntry, At, Resends
  <1>4. CASE Resends
    <2>1. ResendLoop(p, proc[p].cnt - 1)
      BY <1>4 DEF ResendEntry, Resends
    <2>2. /\ RemoveSent /\ handle' = handle
          /\ received' = [received EXCEPT ![handle] = Append(received[handle], Head(buffer))]
      BY <1>4 DEF ResendEntry, Resends, Written
    <2> QED
      BY <1>2, <1>4, <2>1, <2>2, ResendLoopMoves DEF ResendEntry, At, RemoveSent
  <1>5. CASE buffer # <<>> /\ LogOut(handle) # "OK"
    <2>1. Goto(p, [proc[p] EXCEPT !.ret = LogOut(handle)], proc[p].then)
      BY <1>5 DEF ResendEntry
    <2>2. [proc[p] EXCEPT !.ret = LogOut(handle)] \in FrameSet /\ proc[p].then \in Pcs
      BY <1>1, RetField, LogOutResult, FrameFields DEF FieldTypes
    <2>3. UNCHANGED <<buffer, size>> /\ received' = received /\ handle' \in {0, handle}
      BY <1>5 DEF ResendEntry, Written, CloseBroken
    <2> QED
      BY <1>5, <2>1, <2>2, <2>3, GotoMoves DEF ResendEntry, At, Frames, Resends
  <1> QED
    BY <1>3, <1>4, <1>5 DEF Resends

\* Whether SendOverflow writes a report.
Reports == overflow_counter > 0 /\ appID /\ LogOut(handle) = "OK"

LEMMA SendOverflowMoves ==
  ASSUME Frames, NEW p \in Proc, SendOverflow(p)
  PROVE  /\ Moves(p) /\ proc[p].pc = "overflow"
         /\ Reports => /\ GoesOn(proc[p], proc'[p], "reset")
                       /\ received' = [received EXCEPT ![handle] =
                            Append(received[handle], OverflowReport(overflow_counter))]
         /\ ~Reports => GoesOn(proc[p], proc'[p], proc[p].then) /\ received' = received
  <1>1. proc[p] \in FrameSet
    BY DEF Frames
  <1>2. proc[p].then \in Pcs
    BY <1>1, FrameFields DEF FieldTypes
  <1>3. CASE Reports
    <2>1. Goto(p, proc[p], "reset")
      BY <1>3 DEF SendOverflow, Reports, Reported
    <2>2. received' = [received EXCEPT ![handle] =
            Append(received[handle], OverflowReport(overflow_counter))]
      BY <1>3 DEF SendOverflow, Reports, Written
    <2> QED
      BY <1>1, <1>3, <2>1, <2>2, PcsAre, GotoMoves DEF SendOverflow, At, Frames
  <1>4. CASE ~Reports
    <2>1. Goto(p, proc[p], proc[p].then)
      BY <1>4 DEF SendOverflow, Reports, Reported
    <2>2. received' = received
      BY <1>4 DEF SendOverflow, Reports, Written
    <2> QED
      BY <1>1, <1>2, <1>4, <2>1, <2>2, GotoMoves DEF SendOverflow, At, Frames
  <1> QED
    BY <1>3, <1>4

LEMMA ResetOverflowMoves ==
  ASSUME Frames, NEW p \in Proc, ResetOverflow(p)
  PROVE  Moves(p) /\ proc[p].pc = "reset" /\ GoesOn(proc[p], proc'[p], proc[p].then)
  <1>1. proc[p] \in FrameSet /\ proc[p].then \in Pcs
    BY FrameFields DEF Frames, FieldTypes
  <1> QED
    BY <1>1, GotoMoves DEF ResetOverflow, At, Frames

\* The processes that are threads are no others.
LEMMA ThreadProcs ==
  ASSUME NEW t \in Threads
  PROVE  t \in Proc /\ t # Housekeeper /\ t # Exit /\ t # Nobody
  BY ConstAssumption DEF Proc

LEMMA OtherProcs == Housekeeper \in Proc /\ Exit \in Proc /\ Housekeeper # Exit
  BY DEF Proc, Housekeeper, Exit

LEMMA LogStartMoves ==
  ASSUME Frames, NEW t \in Threads, LogStart(t), done.logs \in Nat
  PROVE  /\ Moves(t) /\ proc[t].pc = "idle"
         /\ LET g == proc'[t] IN
            /\ g.pc = "overflow" /\ g.msg = Log(done.logs + 1, t) /\ g.err = "OK" /\ g.ret = "OK"
            /\ g.back = "logged" /\ g.then = "old"
  <1>1. Log(done.logs + 1, t) \in Message
    BY MessageTypes
  <1>2. PICK g : g = Frame("overflow", Log(done.logs + 1, t), "logged", "old")
    OBVIOUS
  <1>3. g \in FrameSet
    BY <1>1, <1>2, FrameTypes, PcsAre
  <1>7. /\ g.pc = "overflow" /\ g.msg = Log(done.logs + 1, t) /\ g.ret = "OK"
        /\ g.err = "OK" /\ g.back = "logged" /\ g.then = "old"
    BY <1>2 DEF Frame
  <1>4. Become(t, g)
    BY <1>2 DEF LogStart
  <1>5. Moves(t) /\ proc'[t] = g
    BY <1>3, <1>4, ThreadProcs, BecomeMoves DEF Frames
  <1>6. proc[t].pc = "idle"
    BY DEF LogStart, MayCall, At
  <1> QED
    BY <1>7, <1>5, <1>6

LEMMA LogOldMoves ==
  ASSUME Frames, NEW t \in Threads, LogOld(t)
  PROVE  /\ Moves(t) /\ proc[t].pc = "old"
         /\ LET f == proc[t] g == proc'[t] IN
            /\ g.msg = f.msg /\ g.cnt = f.cnt /\ g.ret = f.ret /\ g.err = f.err /\ g.back = f.back
            /\ \/ g.pc = "resend" /\ g.then = "out"
               \/ g.pc = "out" /\ g.then = f.then /\ ~(handle # 0 /\ appID)
  <1>1. proc[t] \in FrameSet /\ t \in Proc
    BY ThreadProcs DEF Frames
  <1>2. CASE handle # 0 /\ appID
    <2>1. PICK g : g = [proc[t] EXCEPT !.pc = "resend", !.then = "out"]
      OBVIOUS
    <2>2. g \in FrameSet /\ Become(t, g)
      BY <1>1, <1>2, <2>1, PcsAre DEF LogOld, FrameSet
    <2>3. /\ g.pc = "resend" /\ g.then = "out" /\ g.msg = proc[t].msg /\ g.cnt = proc[t].cnt
          /\ g.ret = proc[t].ret /\ g.err = proc[t].err /\ g.back = proc[t].back
      BY <1>1, <2>1 DEF FrameSet
    <2>4. Moves(t) /\ proc'[t] = g
      BY <1>1, <2>2, BecomeMoves DEF Frames
    <2>5. proc[t].pc = "old"
      BY DEF LogOld, At
    <2> QED
      BY <2>3, <2>4, <2>5
  <1>3. CASE ~(handle # 0 /\ appID)
    <2>1. PICK g : g = [proc[t] EXCEPT !.pc = "out"]
      OBVIOUS
    <2>2. g \in FrameSet /\ Become(t, g)
      BY <1>1, <1>3, <2>1, PcsAre DEF LogOld, FrameSet
    <2>3. /\ g.pc = "out" /\ g.then = proc[t].then /\ g.msg = proc[t].msg /\ g.cnt = proc[t].cnt
          /\ g.ret = proc[t].ret /\ g.err = proc[t].err /\ g.back = proc[t].back
      BY <1>1, <2>1 DEF FrameSet
    <2> QED
      BY <1>1, <1>3, <2>2, <2>3, BecomeMoves DEF Frames, LogOld, At
  <1> QED
    BY <1>2, <1>3

LEMMA LogEndMoves ==
  ASSUME Frames, NEW t \in Threads, LogEnd(t), overflow_counter \in Nat
  PROVE  /\ Moves(t) /\ proc[t].pc = "logged" /\ handle' \in {0, handle}
         /\ proc[t].err # "BUFFER_FULL" => proc'[t] = Rest
         /\ proc[t].err = "BUFFER_FULL" =>
              LET f == proc[t] g == proc'[t] IN
              /\ g.pc = "counted" /\ g.msg = f.msg /\ g.cnt = overflow_counter /\ g.ret = f.ret
              /\ g.err = f.err /\ g.back = f.back /\ g.then = f.then
  <1>1. proc[t] \in FrameSet /\ t \in Proc
    BY ThreadProcs DEF Frames
  <1>2. CASE proc[t].err # "BUFFER_FULL"
    <2>1. Become(t, Rest) /\ handle' \in {0, handle}
      BY <1>2 DEF LogEnd
    <2> QED
      BY <1>1, <1>2, <2>1, FrameTypes, BecomeMoves DEF Frames, LogEnd, At
  <1>3. CASE proc[t].err = "BUFFER_FULL"
    <2>1. PICK g : g = [proc[t] EXCEPT !.pc = "counted", !.cnt = overflow_counter]
      OBVIOUS
    <2>2. g \in FrameSet
      BY <1>1, <2>1, PcsAre DEF FrameSet
    <2>3. Become(t, g) /\ handle' = handle
      BY <1>3, <2>1 DEF LogEnd
    <2>4. /\ g.pc = "counted" /\ g.msg = proc[t].msg /\ g.cnt = overflow_counter /\ g.ret = proc[t].ret
          /\ g.err = proc[t].err /\ g.back = proc[t].back /\ g.then = proc[t].then
      BY <1>1, <2>1 DEF FrameSet
    <2> QED
      BY <1>1, <1>3, <2>2, <2>3, <2>4, BecomeMoves DEF Frames, LogEnd, At
  <1> QED
    BY <1>2, <1>3

LEMMA LogCountedMoves ==
  ASSUME Frames, NEW t \in Threads, LogCounted(t)
  PROVE  Moves(t) /\ proc[t].pc = "counted" /\ proc'[t] = Rest
  BY ThreadProcs, FrameTypes, BecomeMoves DEF Frames, LogCounted, At

LEMMA RegisterMoves ==
  ASSUME Frames, NEW t \in Threads, RegisterApp(t) \/ RegisterContext(t), contexts \in Nat
  PROVE  /\ Moves(t) /\ proc[t].pc = "idle"
         /\ LET g == proc'[t] IN
            /\ g.pc = "out" /\ g.msg.kind \in {"app", "context"} /\ g.back \in {"registered", "idle"}
            /\ g.then = "idle"
  <1>1. t \in Proc
    BY ThreadProcs
  <1>2. CASE RegisterApp(t)
    <2>1. Become(t, Frame("out", Application, "registered", "idle"))
      BY <1>2 DEF RegisterApp
    <2>2. Application \in Message /\ Application.kind = "app"
      BY MessageTypes DEF Application, Msg
    <2>3. PICK g : g = Frame("out", Application, "registered", "idle")
      OBVIOUS
    <2>4. g \in FrameSet
      BY <2>2, <2>3, FrameTypes, PcsAre
    <2>7. g.pc = "out" /\ g.msg = Application /\ g.back = "registered" /\ g.then = "idle"
      BY <2>3 DEF Frame
    <2>5. Moves(t) /\ proc'[t] = g
      BY <1>1, <2>1, <2>3, <2>4, BecomeMoves DEF Frames
    <2>6. proc[t].pc = "idle"
      BY <1>2 DEF RegisterApp, MayCall, At
    <2> QED
      BY <2>2, <2>7, <2>5, <2>6
  <1>3. CASE RegisterContext(t)
    <2>1. Become(t, Frame("out", Context(contexts + 1), "idle", "idle"))
      BY <1>3 DEF RegisterContext
    <2>2. Context(contexts + 1) \in Message /\ Context(contexts + 1).kind = "context"
      BY MessageTypes DEF Context, Msg
    <2>3. PICK g : g = Frame("out", Context(contexts + 1), "idle", "idle")
      OBVIOUS
    <2>4. g \in FrameSet
      BY <2>2, <2>3, FrameTypes, PcsAre
    <2>7. g.pc = "out" /\ g.msg = Context(contexts + 1) /\ g.back = "idle" /\ g.then = "idle"
      BY <2>3 DEF Frame
    <2>5. Moves(t) /\ proc'[t] = g
      BY <1>1, <2>1, <2>3, <2>4, BecomeMoves DEF Frames
    <2>6. proc[t].pc = "idle"
      BY <1>3 DEF RegisterContext, MayCall, At
    <2> QED
      BY <2>2, <2>7, <2>5, <2>6
  <1> QED
    BY <1>2, <1>3

LEMMA RegisterAppEndMoves ==
  ASSUME Frames, NEW t \in Threads, RegisterAppEnd(t)
  PROVE  /\ Moves(t) /\ proc[t].pc = "registered"
         /\ GoesOn(proc[t], proc'[t], "resend") \/ GoesOn(proc[t], proc'[t], "idle")
  BY ThreadProcs, PcsAre, GotoMoves DEF Frames, RegisterAppEnd, At

LEMMA AttachPc ==
  ASSUME NEW p
  PROVE  AfterAttach(p) \in {"attached", "exitAttached"} /\ AfterAttach(p) \in Pcs /\ AfterAttach(Exit) = "exitAttached"
  BY PcsAre DEF AfterAttach

LEMMA ReattachMoves ==
  ASSUME Frames, NEW p \in Proc, Reattach(p)
  PROVE  /\ Moves(p) /\ proc[p].pc = "attach" /\ handle' \in {0, handle}
         /\ GoesOn(proc[p], proc'[p], AfterAttach(p)) \/ GoesOn(proc[p], proc'[p], "open")
  <1>1. proc[p] \in FrameSet
    BY DEF Frames
  <1>2. CASE freeing \/ handle # 0
    <2>1. Goto(p, proc[p], AfterAttach(p)) /\ handle' = handle
      BY <1>2 DEF Reattach
    <2> QED
      BY <1>1, <2>1, AttachPc, GotoMoves DEF Frames, Reattach, At
  <1>3. CASE ~(freeing \/ handle # 0)
    <2>1. Goto(p, proc[p], "open") /\ handle' = 0
      BY <1>3 DEF Reattach
    <2> QED
      BY <1>1, <2>1, PcsAre, GotoMoves DEF Frames, Reattach, At
  <1> QED
    BY <1>2, <1>3

LEMMA ReattachOpenMoves ==
  ASSUME Frames, NEW p \in Proc, ReattachOpen(p)
  PROVE  /\ Moves(p) /\ proc[p].pc = "open"
         /\ daemon = 0 => /\ GoesOn(proc[p], proc'[p], AfterAttach(p))
                          /\ UNCHANGED <<handle, done>>
         /\ daemon # 0 =>
              /\ handle' = daemon /\ done' = [done EXCEPT !.attached = daemon]
              /\ LET f == proc[p] g == proc'[p] IN
                 /\ g.pc \in {"out", "context"} /\ g.msg.kind = "app" /\ g.back = "context" /\ g.then = f.then
  <1>1. proc[p] \in FrameSet
    BY DEF Frames
  <1>2. CASE daemon = 0
    <2>1. Goto(p, proc[p], AfterAttach(p)) /\ UNCHANGED <<handle, done>>
      BY <1>2 DEF ReattachOpen
    <2> QED
      BY <1>1, <1>2, <2>1, AttachPc, GotoMoves DEF Frames, ReattachOpen, At
  <1>3. CASE daemon # 0
    <2>1. PICK pc : pc = IF appID THEN "out" ELSE "context"
      OBVIOUS
    <2>2. PICK g : g = [proc[p] EXCEPT !.pc = pc, !.cnt = 1, !.msg = Application, !.ret = "OK", !.err = "OK",
                                       !.back = "context"]
      OBVIOUS
    <2>3. Become(p, g) /\ handle' = daemon /\ done' = [done EXCEPT !.attached = daemon]
      BY <1>3, <2>1, <2>2 DEF ReattachOpen
    <2>4. pc \in Pcs /\ pc \in {"out", "context"} /\ "context" \in Pcs /\ "OK" \in Results /\ Application \in Message
      BY <2>1, PcsAre, ResultsAre, MessageTypes
    <2>5. g \in FrameSet
      BY <1>1, <2>2, <2>4 DEF FrameSet
    <2>6. g.pc = pc /\ g.msg = Application /\ g.back = "context" /\ g.then = proc[p].then
      BY <1>1, <2>2 DEF FrameSet
    <2>7. Application.kind = "app"
      BY DEF Application, Msg
    <2>8. Moves(p) /\ proc'[p] = g
      BY <2>3, <2>5, BecomeMoves DEF Frames
    <2>9. proc[p].pc = "open"
      BY DEF ReattachOpen, At
    <2> QED
      BY <1>3, <2>3, <2>4, <2>6, <2>7, <2>8, <2>9
  <1> QED
    BY <1>2, <1>3

LEMMA ReattachContextMoves ==
  ASSUME Frames, NEW p \in Proc, ReattachContext(p)
  PROVE  /\ Moves(p) /\ proc[p].pc = "context"
         /\ \/ GoesOn(proc[p], proc'[p], AfterAttach(p))
            \/ LET f == proc[p] g == proc'[p] IN
               g.pc = "out" /\ g.msg.kind = "context" /\ g.back = f.back /\ g.then = f.then
  <1>1. proc[p] \in FrameSet
    BY DEF Frames
  <1>2. CASE proc[p].err = "BUFFER_FULL" \/ AllContexts(proc[p].cnt) \/ ~appID
    <2>1. Goto(p, proc[p], AfterAttach(p))
      BY <1>2 DEF ReattachContext
    <2> QED
      BY <1>1, <2>1, AttachPc, GotoMoves DEF Frames, ReattachContext, At
  <1>3. CASE ~(proc[p].err = "BUFFER_FULL" \/ AllContexts(proc[p].cnt) \/ ~appID)
    <2>1. PICK g : g = [proc[p] EXCEPT !.pc = "out", !.cnt = proc[p].cnt + 1, !.msg = Context(proc[p].cnt),
                                       !.ret = "OK", !.err = "OK"]
      OBVIOUS
    <2>2. Become(p, g)
      BY <1>3, <2>1 DEF ReattachContext
    <2>3. proc[p].cnt \in Nat
      BY <1>1 DEF FrameSet
    <2>4. PICK c : c = Context(proc[p].cnt)
      OBVIOUS
    <2>5. c \in Message /\ c.kind = "context"
      BY <2>3, <2>4, MessageTypes DEF Context, Msg
    <2>6. PICK k : k = proc[p].cnt + 1
      OBVIOUS
    <2>7. k \in Nat
      BY <2>3, <2>6
    <2>8. g = [proc[p] EXCEPT !.pc = "out", !.cnt = k, !.msg = c, !.ret = "OK", !.err = "OK"]
      BY <2>1, <2>4, <2>6
    <2>9. "out" \in Pcs /\ "OK" \in Results
      BY PcsAre, ResultsAre
    <2>10. g \in FrameSet
      BY <1>1, <2>5, <2>7, <2>8, <2>9 DEF FrameSet
    <2>11. g.pc = "out" /\ g.msg = c /\ g.back = proc[p].back /\ g.then = proc[p].then
      BY <1>1, <2>8 DEF FrameSet
    <2>12. Moves(p) /\ proc'[p] = g
      BY <2>2, <2>10, BecomeMoves DEF Frames
    <2>13. proc[p].pc = "context"
      BY DEF ReattachContext, At
    <2> QED
      BY <2>5, <2>11, <2>12, <2>13
  <1> QED
    BY <1>2, <1>3

LEMMA HousekeeperMoves ==
  ASSUME Frames, HousekeeperResend \/ HousekeeperCancelled
  PROVE  /\ Moves(Housekeeper)
         /\ \/ GoesOn(proc[Housekeeper], proc'[Housekeeper], "resend") \/ proc'[Housekeeper] \in {Rest, Poll}
  <1>1. proc[Housekeeper] \in FrameSet
    BY OtherProcs DEF Frames
  <1>2. CASE HousekeeperResend
    <2>1. Goto(Housekeeper, proc[Housekeeper], IF handle # 0 THEN "resend" ELSE "poll")
      BY <1>2 DEF HousekeeperResend
    <2>2. CASE handle # 0
      BY <1>1, <2>1, <2>2, OtherProcs, PcsAre, GotoMoves DEF Frames
    <2>3. CASE handle = 0
      <3>1. Moves(Housekeeper) /\ GoesOn(proc[Housekeeper], proc'[Housekeeper], "poll")
        BY <1>1, <2>1, <2>3, OtherProcs, PcsAre, GotoMoves DEF Frames
      <3> QED
        BY <3>1 DEF GoesOn
    <2> QED
      BY <2>2, <2>3
  <1>3. CASE HousekeeperCancelled
    BY <1>3, OtherProcs, FrameTypes, BecomeMoves DEF Frames, HousekeeperCancelled
  <1> QED
    BY <1>2, <1>3

\* The steps of the atexit handler that call no helper: those before it gives up on the buffer ...
Flushing == ExitStart \/ BlowOut \/ BlowOutTimeout \/ BlowOutOverflow \/ BlowOutResend \/ BlowOutEnd
\* ... and those after.
Ending == ExitUnregister \/ ExitClear \/ FreeStart \/ FreeLock \/ FreeJoined

LEMMA FlushingMoves ==
  ASSUME Frames, Flushing
  PROVE  /\ Moves(Exit)
         /\ LET f == proc[Exit] g == proc'[Exit] IN
            /\ g.msg = f.msg \/ g.msg.kind = "none"
            /\ g.back \in {f.back, "cleared"}
            /\ g.then \in {f.then, "exitResent", "exitResend", "cleared"}
            /\ \/ f.pc = "idle" /\ g.pc = "unregister" /\ buffer = <<>> /\ done' = done
               \/ f.pc = "idle" /\ g.pc = "blowOut" /\ done' = done
               \/ /\ f.pc \in {"blowOut", "exitAttached", "exitResend", "exitResent"} /\ done' = done
                  /\ \/ g.pc \in {"blowOut", "attach", "exitResend"}
                     \/ g.pc = "overflow" /\ g.then = "exitResend"
                     \/ g.pc = "resend" /\ g.then = "exitResent"
               \/ /\ f.pc \in {"blowOut", "exitResent"} /\ g.pc = "unregister"
                  /\ done' = [done EXCEPT !.warned = LeftOver]
  <1>1. proc[Exit] \in FrameSet /\ Exit \in Proc
    BY OtherProcs DEF Frames
  <1>2. CASE ExitStart
    <2>1. PICK pc : pc = IF buffer = <<>> THEN "unregister" ELSE "blowOut"
      OBVIOUS
    <2>2. pc \in Pcs
      BY <2>1, PcsAre
    <2>3. PICK g : g = Frame(pc, NoMsg, "cleared", "exitResent")
      OBVIOUS
    <2>4. g \in FrameSet
      BY <2>2, <2>3, FrameTypes, MessageTypes, PcsAre
    <2>5. g.pc = pc /\ g.msg.kind = "none" /\ g.back = "cleared" /\ g.then = "exitResent"
      BY <2>3 DEF Frame, NoMsg, Msg
    <2>6. Become(Exit, g)
      BY <1>2, <2>1, <2>3 DEF ExitStart
    <2>7. Moves(Exit) /\ proc'[Exit] = g
      BY <1>1, <2>4, <2>6, BecomeMoves DEF Frames
    <2>8. proc[Exit].pc = "idle" /\ done' = done
      BY <1>2 DEF ExitStart, Exiting, At
    <2> QED
      BY <2>1, <2>5, <2>7, <2>8
  <1>3. CASE BlowOut
    <2>1. PICK pc : pc = IF handle = 0 THEN "attach" ELSE "exitResend"
      OBVIOUS
    <2>2. pc \in Pcs
      BY <2>1, PcsAre
    <2>3. Goto(Exit, proc[Exit], pc)
      BY <1>3, <2>1 DEF BlowOut
    <2>4. Moves(Exit) /\ GoesOn(proc[Exit], proc'[Exit], pc)
      BY <1>1, <2>2, <2>3, GotoMoves DEF Frames
    <2>5. proc[Exit].pc = "blowOut" /\ done' = done
      BY <1>3 DEF BlowOut, At
    <2> QED
      BY <2>1, <2>4, <2>5 DEF GoesOn
  <1>4. CASE BlowOutTimeout
    <2>1. Goto(Exit, proc[Exit], "unregister")
      BY <1>4 DEF BlowOutTimeout
    <2>2. Moves(Exit) /\ GoesOn(proc[Exit], proc'[Exit], "unregister")
      BY <1>1, <2>1, PcsAre, GotoMoves DEF Frames
    <2>3. proc[Exit].pc = "blowOut" /\ done' = [done EXCEPT !.warned = LeftOver]
      BY <1>4 DEF BlowOutTimeout, At
    <2> QED
      BY <2>2, <2>3 DEF GoesOn
  <1>5. CASE BlowOutOverflow
    <2>1. PICK pc : pc = IF handle # 0 THEN "overflow" ELSE "exitResend"
      OBVIOUS
    <2>2. PICK g : g = [proc[Exit] EXCEPT !.pc = pc, !.then = "exitResend"]
      OBVIOUS
    <2>3. Become(Exit, g)
      BY <1>5, <2>1, <2>2 DEF BlowOutOverflow
    <2>4. pc \in Pcs /\ "exitResend" \in Pcs
      BY <2>1, PcsAre
    <2>5. g \in FrameSet
      BY <1>1, <2>2, <2>4 DEF FrameSet
    <2>6. g.pc = pc /\ g.msg = proc[Exit].msg /\ g.then = "exitResend" /\ g.back = proc[Exit].back
      BY <1>1, <2>2 DEF FrameSet
    <2>7. Moves(Exit) /\ proc'[Exit] = g
      BY <1>1, <2>3, <2>5, BecomeMoves DEF Frames
    <2>8. proc[Exit].pc = "exitAttached" /\ done' = done
      BY <1>5 DEF BlowOutOverflow, At
    <2> QED
      BY <2>1, <2>6, <2>7, <2>8
  <1>6. CASE BlowOutResend
    <2>1. PICK pc : pc = IF handle # 0 THEN "resend" ELSE "blowOut"
      OBVIOUS
    <2>2. PICK g : g = [proc[Exit] EXCEPT !.pc = pc, !.then = "exitResent"]
      OBVIOUS
    <2>3. Become(Exit, g)
      BY <1>6, <2>1, <2>2 DEF BlowOutResend
    <2>4. pc \in Pcs /\ "exitResent" \in Pcs
      BY <2>1, PcsAre
    <2>5. g \in FrameSet
      BY <1>1, <2>2, <2>4 DEF FrameSet
    <2>6. g.pc = pc /\ g.msg = proc[Exit].msg /\ g.then = "exitResent" /\ g.back = proc[Exit].back
      BY <1>1, <2>2 DEF FrameSet
    <2>7. Moves(Exit) /\ proc'[Exit] = g
      BY <1>1, <2>3, <2>5, BecomeMoves DEF Frames
    <2>8. proc[Exit].pc = "exitResend" /\ done' = done
      BY <1>6 DEF BlowOutResend, At
    <2> QED
      BY <2>1, <2>6, <2>7, <2>8
  <1>7. CASE BlowOutEnd
    <2>1. proc[Exit].pc = "exitResent"
      BY <1>7 DEF BlowOutEnd, At
    <2>2. CASE proc[Exit].ret = "OK"
      <3>1. Goto(Exit, proc[Exit], "unregister") /\ done' = [done EXCEPT !.warned = LeftOver]
        BY <1>7, <2>2 DEF BlowOutEnd
      <3>2. Moves(Exit) /\ GoesOn(proc[Exit], proc'[Exit], "unregister")
        BY <1>1, <3>1, PcsAre, GotoMoves DEF Frames
      <3> QED
        BY <2>1, <3>1, <3>2 DEF GoesOn
    <2>3. CASE proc[Exit].ret # "OK"
      <3>1. Goto(Exit, proc[Exit], "blowOut") /\ done' = done
        BY <1>7, <2>3 DEF BlowOutEnd
      <3>2. Moves(Exit) /\ GoesOn(proc[Exit], proc'[Exit], "blowOut")
        BY <1>1, <3>1, PcsAre, GotoMoves DEF Frames
      <3> QED
        BY <2>1, <3>1, <3>2 DEF GoesOn
    <2> QED
      BY <2>2, <2>3
  <1> QED
    BY <1>2, <1>3, <1>4, <1>5, <1>6, <1>7 DEF Flushing

LEMMA EndingMoves ==
  ASSUME Frames, Ending
  PROVE  /\ Moves(Exit)
         /\ LET f == proc[Exit] g == proc'[Exit] IN
            /\ g.msg = f.msg \/ g.msg.kind \in {"none", "unregister"}
            /\ g.back \in {f.back, "cleared"}
            /\ g.then \in {f.then, "exitResent", "exitResend", "cleared"}
            /\ \/ ~FreeJoined /\ done' = done /\ buffer' = buffer
               \/ FreeJoined /\ g.pc = "exited"
            /\ f.pc \in {"unregister", "cleared", "freeing", "free", "join"}
            /\ \/ g.pc \in {"cleared", "freeing", "free", "join", "exited"}
               \/ g.pc = "out" /\ g.back = "cleared"
  <1>1. proc[Exit] \in FrameSet /\ Exit \in Proc
    BY OtherProcs DEF Frames
  <1>2. CASE ExitUnregister
    <2>1. NoMsg.kind = "none" /\ Unregister.kind = "unregister"
      BY DEF NoMsg, Unregister, Msg
    <2>2. PICK g : g = IF appID /\ limit.proto = 1 THEN Frame("out", Unregister, "cleared", "cleared")
                       ELSE Frame("cleared", NoMsg, "cleared", "cleared")
      OBVIOUS
    <2>3. g \in FrameSet
      BY <2>2, FrameTypes, MessageTypes, PcsAre
    <2>4. /\ g.pc \in {"out", "cleared"} /\ g.back = "cleared" /\ g.then = "cleared"
          /\ g.msg \in {NoMsg, Unregister}
      BY <2>2 DEF Frame
    <2>5. Become(Exit, g)
      BY <1>2, <2>2 DEF ExitUnregister
    <2>6. Moves(Exit) /\ proc'[Exit] = g
      BY <1>1, <2>3, <2>5, BecomeMoves DEF Frames
    <2>7. proc[Exit].pc = "unregister" /\ done' = done /\ buffer' = buffer
      BY <1>2 DEF ExitUnregister, At, libVars
    <2>8. ~FreeJoined
      BY <2>7 DEF FreeJoined, At
    <2> QED
      BY <2>1, <2>4, <2>6, <2>7, <2>8
  <1>3. CASE ExitClear
    <2>1. Goto(Exit, proc[Exit], "freeing") /\ proc[Exit].pc = "cleared" /\ done' = done /\ buffer' = buffer
      BY <1>3 DEF ExitClear, At
    <2>2. Moves(Exit) /\ GoesOn(proc[Exit], proc'[Exit], "freeing")
      BY <1>1, <2>1, PcsAre, GotoMoves DEF Frames
    <2>3. ~FreeJoined
      BY <2>1 DEF FreeJoined, At
    <2> QED
      BY <2>1, <2>2, <2>3 DEF GoesOn
  <1>4. CASE FreeStart
    <2>1. Goto(Exit, proc[Exit], "free") /\ proc[Exit].pc = "freeing" /\ done' = done /\ buffer' = buffer
      BY <1>4 DEF FreeStart, At
    <2>2. Moves(Exit) /\ GoesOn(proc[Exit], proc'[Exit], "free")
      BY <1>1, <2>1, PcsAre, GotoMoves DEF Frames
    <2>3. ~FreeJoined
      BY <2>1 DEF FreeJoined, At
    <2> QED
      BY <2>1, <2>2, <2>3 DEF GoesOn
  <1>5. CASE FreeLock
    <2>1. Goto(Exit, proc[Exit], "join") /\ proc[Exit].pc = "free" /\ done' = done /\ buffer' = buffer
      BY <1>5 DEF FreeLock, At, libVars
    <2>2. Moves(Exit) /\ GoesOn(proc[Exit], proc'[Exit], "join")
      BY <1>1, <2>1, PcsAre, GotoMoves DEF Frames
    <2>3. ~FreeJoined
      BY <2>1 DEF FreeJoined, At
    <2> QED
      BY <2>1, <2>2, <2>3 DEF GoesOn
  <1>6. CASE FreeJoined
    <2>1. Goto(Exit, proc[Exit], "exited") /\ proc[Exit].pc = "join"
      BY <1>6 DEF FreeJoined, At
    <2>2. Moves(Exit) /\ GoesOn(proc[Exit], proc'[Exit], "exited")
      BY <1>1, <2>1, PcsAre, GotoMoves DEF Frames
    <2> QED
      BY <1>6, <2>1, <2>2 DEF GoesOn
  <1> QED
    BY <1>2, <1>3, <1>4, <1>5, <1>6 DEF Ending

--------------------------------------------------------------------------------
(* Which steps change what *)

Environment == DaemonStarts \/ DaemonStops \/ PipeFills \/ DaemonReads

\* The steps by what can be said of them together.
LEMMA Steps ==
  ASSUME Next
  PROVE  \/ \E p \in Proc : Send(p)
         \/ \E t \in Threads : LogStart(t) \/ LogOld(t) \/ LogEnd(t) \/ LogCounted(t)
         \/ \E t \in Threads : RegisterApp(t) \/ RegisterContext(t) \/ RegisterAppEnd(t)
         \/ \E p \in {Housekeeper, Exit} : AttachStep(p)
         \/ HousekeeperResend \/ HousekeeperCancelled
         \/ Flushing \/ Ending \/ Environment
  BY ThreadProcs, OtherProcs DEF Next, Call, ThreadStep, HousekeeperStep, ExitStep, Flushing, Ending, Environment

LEMMA BufferChanges ==
  ASSUME Next
  PROVE  UNCHANGED <<buffer, size>> \/ (\E p \in Proc : Store(p) \/ ResendEntry(p)) \/ FreeJoined
  <1>1. ASSUME NEW p \in Proc, Send(p), ~Store(p), ~ResendEntry(p)
        PROVE  UNCHANGED <<buffer, size>>
    BY <1>1 DEF Send, Output, SkipStore, CheckSize, ResendBuffer, SendOverflow, ResetOverflow, libVars
  <1>2. ASSUME NEW t \in Threads, LogStart(t) \/ LogOld(t) \/ LogEnd(t) \/ LogCounted(t)
        PROVE  UNCHANGED <<buffer, size>>
    BY <1>2 DEF LogStart, LogOld, LogEnd, LogCounted, libVars
  <1>3. ASSUME NEW t \in Threads, RegisterApp(t) \/ RegisterContext(t) \/ RegisterAppEnd(t)
        PROVE  UNCHANGED <<buffer, size>>
    BY <1>3 DEF RegisterApp, RegisterContext, RegisterAppEnd, libVars
  <1>4. ASSUME NEW p \in {Housekeeper, Exit}, AttachStep(p)
        PROVE  UNCHANGED <<buffer, size>>
    BY <1>4 DEF AttachStep, Reattach, ReattachOpen, ReattachContext, libVars
  <1>5. CASE HousekeeperResend \/ HousekeeperCancelled
    BY <1>5 DEF HousekeeperResend, HousekeeperCancelled, libVars
  <1>6. CASE Flushing
    BY <1>6 DEF Flushing, ExitStart, BlowOut, BlowOutTimeout, BlowOutOverflow, BlowOutResend, BlowOutEnd, libVars
  <1>7. CASE Ending
    BY <1>7 DEF Ending, ExitUnregister, ExitClear, FreeStart, FreeLock, libVars
  <1>8. CASE Environment
    BY <1>8 DEF Environment, DaemonStarts, DaemonStops, PipeFills, DaemonReads, libVars
  <1> QED
    BY <1>1, <1>2, <1>3, <1>4, <1>5, <1>6, <1>7, <1>8, Steps

LEMMA ReceivedChanges ==
  ASSUME Next
  PROVE  UNCHANGED received \/ \E p \in Proc : Output(p) \/ ResendEntry(p) \/ SendOverflow(p)
  <1>1. ASSUME NEW p \in Proc, Send(p), ~Output(p), ~ResendEntry(p), ~SendOverflow(p)
        PROVE  UNCHANGED received
    BY <1>1 DEF Send, Store, SkipStore, CheckSize, ResendBuffer, ResetOverflow
  <1>2. ASSUME NEW t \in Threads, LogStart(t) \/ LogOld(t) \/ LogEnd(t) \/ LogCounted(t)
        PROVE  UNCHANGED received
    BY <1>2 DEF LogStart, LogOld, LogEnd, LogCounted
  <1>3. ASSUME NEW t \in Threads, RegisterApp(t) \/ RegisterContext(t) \/ RegisterAppEnd(t)
        PROVE  UNCHANGED received
    BY <1>3 DEF RegisterApp, RegisterContext, RegisterAppEnd
  <1>4. ASSUME NEW p \in {Housekeeper, Exit}, AttachStep(p)
        PROVE  UNCHANGED received
    BY <1>4 DEF AttachStep, Reattach, ReattachOpen, ReattachContext
  <1>5. CASE HousekeeperResend \/ HousekeeperCancelled
    BY <1>5 DEF HousekeeperResend, HousekeeperCancelled
  <1>6. CASE Flushing
    BY <1>6 DEF Flushing, ExitStart, BlowOut, BlowOutTimeout, BlowOutOverflow, BlowOutResend, BlowOutEnd
  <1>7. CASE Ending
    BY <1>7 DEF Ending, ExitUnregister, ExitClear, FreeStart, FreeLock, FreeJoined
  <1>8. CASE Environment
    BY <1>8 DEF Environment, DaemonStarts, DaemonStops, PipeFills, DaemonReads
  <1> QED
    BY <1>1, <1>2, <1>3, <1>4, <1>5, <1>6, <1>7, <1>8, Steps

\* The next daemon is within the bound of the history.
LEMMA DaemonBound ==
  ASSUME Typed, done.daemons < limit.daemons
  PROVE  done.daemons + 1 \in 1 .. MaxDaemons
  <1>1. limit.daemons \in 1 .. MaxDaemons
    BY ConstAssumption DEF Typed, Limit
  <1>2. done.daemons \in 0 .. MaxDaemons
    BY DEF Typed, History
  <1> QED
    BY <1>1, <1>2, ConstAssumption

LEMMA ThreadCounts ==
  ASSUME Typed, NEW t \in Threads
  PROVE  proc[t].cnt \in Nat
  BY ThreadProcs DEF Typed, TypeOK

LEMMA FlagTypes ==
  ASSUME TypeOK, Next
  PROVE  appID' \in BOOLEAN /\ freeing' \in BOOLEAN /\ full' \in BOOLEAN
  <1>1. ASSUME NEW p \in Proc, Send(p)
        PROVE  appID' \in BOOLEAN /\ freeing' \in BOOLEAN /\ full' \in BOOLEAN
    BY <1>1 DEF Send, Output, SkipStore, CheckSize, Store, ResendBuffer, ResendEntry, SendOverflow, ResetOverflow, TypeOK, libVars, envVars
  <1>2. ASSUME NEW t \in Threads, LogStart(t) \/ LogOld(t) \/ LogEnd(t) \/ LogCounted(t)
        PROVE  appID' \in BOOLEAN /\ freeing' \in BOOLEAN /\ full' \in BOOLEAN
    BY <1>2 DEF LogStart, LogOld, LogEnd, LogCounted, TypeOK, libVars, envVars
  <1>3. ASSUME NEW t \in Threads, RegisterApp(t) \/ RegisterContext(t) \/ RegisterAppEnd(t)
        PROVE  appID' \in BOOLEAN /\ freeing' \in BOOLEAN /\ full' \in BOOLEAN
    BY <1>3 DEF RegisterApp, RegisterContext, RegisterAppEnd, TypeOK, libVars, envVars
  <1>4. ASSUME NEW p \in {Housekeeper, Exit}, AttachStep(p)
        PROVE  appID' \in BOOLEAN /\ freeing' \in BOOLEAN /\ full' \in BOOLEAN
    BY <1>4 DEF AttachStep, Reattach, ReattachOpen, ReattachContext, TypeOK, libVars, envVars
  <1>5. CASE HousekeeperResend \/ HousekeeperCancelled
    BY <1>5 DEF HousekeeperResend, HousekeeperCancelled, TypeOK, libVars, envVars
  <1>6. CASE Flushing
    BY <1>6 DEF Flushing, ExitStart, BlowOut, BlowOutTimeout, BlowOutOverflow, BlowOutResend, BlowOutEnd, TypeOK, libVars, envVars
  <1>7. CASE Ending
    BY <1>7 DEF Ending, ExitUnregister, ExitClear, FreeStart, FreeLock, FreeJoined, TypeOK, libVars, envVars
  <1>8. CASE Environment
    BY <1>8 DEF Environment, DaemonStarts, DaemonStops, PipeFills, DaemonReads, TypeOK, libVars, envVars
  <1> QED
    BY <1>1, <1>2, <1>3, <1>4, <1>5, <1>6, <1>7, <1>8, Steps

LEMMA HandleChanges ==
  ASSUME Next
  PROVE  handle' \in {0, handle, daemon}
  <1>1. ASSUME NEW p \in Proc, Send(p)
        PROVE  handle' \in {0, handle, daemon}
    BY <1>1 DEF Send, Output, SkipStore, CheckSize, Store, ResendBuffer, ResendEntry, SendOverflow, ResetOverflow, libVars, CloseBroken
  <1>2. ASSUME NEW t \in Threads, LogStart(t) \/ LogOld(t) \/ LogEnd(t) \/ LogCounted(t)
        PROVE  handle' \in {0, handle, daemon}
    BY <1>2 DEF LogStart, LogOld, LogEnd, LogCounted, libVars
  <1>3. ASSUME NEW t \in Threads, RegisterApp(t) \/ RegisterContext(t) \/ RegisterAppEnd(t)
        PROVE  handle' \in {0, handle, daemon}
    BY <1>3 DEF RegisterApp, RegisterContext, RegisterAppEnd, libVars
  <1>4. ASSUME NEW p \in {Housekeeper, Exit}, AttachStep(p)
        PROVE  handle' \in {0, handle, daemon}
    BY <1>4 DEF AttachStep, Reattach, ReattachOpen, ReattachContext, libVars
  <1>5. CASE HousekeeperResend \/ HousekeeperCancelled
    BY <1>5 DEF HousekeeperResend, HousekeeperCancelled, libVars
  <1>6. CASE Flushing
    BY <1>6 DEF Flushing, ExitStart, BlowOut, BlowOutTimeout, BlowOutOverflow, BlowOutResend, BlowOutEnd, libVars
  <1>7. CASE Ending
    BY <1>7 DEF Ending, ExitUnregister, ExitClear, FreeStart, FreeLock, FreeJoined, libVars
  <1>8. CASE Environment
    BY <1>8 DEF Environment, DaemonStarts, DaemonStops, PipeFills, DaemonReads, libVars
  <1> QED
    BY <1>1, <1>2, <1>3, <1>4, <1>5, <1>6, <1>7, <1>8, Steps

LEMMA DaemonChanges ==
  ASSUME Next
  PROVE  daemon' \in {0, daemon} \/ DaemonStarts
  <1>1. ASSUME NEW p \in Proc, Send(p)
        PROVE  daemon' \in {0, daemon} \/ DaemonStarts
    BY <1>1 DEF Send, Output, SkipStore, CheckSize, Store, ResendBuffer, ResendEntry, SendOverflow, ResetOverflow, envVars
  <1>2. ASSUME NEW t \in Threads, LogStart(t) \/ LogOld(t) \/ LogEnd(t) \/ LogCounted(t)
        PROVE  daemon' \in {0, daemon} \/ DaemonStarts
    BY <1>2 DEF LogStart, LogOld, LogEnd, LogCounted, envVars
  <1>3. ASSUME NEW t \in Threads, RegisterApp(t) \/ RegisterContext(t) \/ RegisterAppEnd(t)
        PROVE  daemon' \in {0, daemon} \/ DaemonStarts
    BY <1>3 DEF RegisterApp, RegisterContext, RegisterAppEnd, envVars
  <1>4. ASSUME NEW p \in {Housekeeper, Exit}, AttachStep(p)
        PROVE  daemon' \in {0, daemon} \/ DaemonStarts
    BY <1>4 DEF AttachStep, Reattach, ReattachOpen, ReattachContext, envVars
  <1>5. CASE HousekeeperResend \/ HousekeeperCancelled
    BY <1>5 DEF HousekeeperResend, HousekeeperCancelled, envVars
  <1>6. CASE Flushing
    BY <1>6 DEF Flushing, ExitStart, BlowOut, BlowOutTimeout, BlowOutOverflow, BlowOutResend, BlowOutEnd, envVars
  <1>7. CASE Ending
    BY <1>7 DEF Ending, ExitUnregister, ExitClear, FreeStart, FreeLock, FreeJoined, envVars
  <1>8. CASE Environment
    BY <1>8 DEF Environment, DaemonStops, PipeFills, DaemonReads, envVars
  <1> QED
    BY <1>1, <1>2, <1>3, <1>4, <1>5, <1>6, <1>7, <1>8, Steps

LEMMA HandleTypes ==
  ASSUME Typed, Next
  PROVE  handle' \in 0 .. MaxDaemons /\ daemon' \in 0 .. MaxDaemons
  <1>1. 0 \in 0 .. MaxDaemons /\ handle \in 0 .. MaxDaemons /\ daemon \in 0 .. MaxDaemons
    BY ConstAssumption DEF Typed, TypeOK
  <1>2. handle' \in 0 .. MaxDaemons
    BY <1>1, HandleChanges
  <1>3. DaemonStarts => daemon' \in 0 .. MaxDaemons
    BY DaemonBound DEF DaemonStarts
  <1> QED
    BY <1>1, <1>2, <1>3, DaemonChanges

LEMMA CounterTypes ==
  ASSUME Typed, Next
  PROVE  overflow_counter' \in Nat /\ contexts' \in Nat
  <1>1. ASSUME NEW p \in Proc, Send(p)
        PROVE  overflow_counter' \in Nat /\ contexts' \in Nat
    BY <1>1 DEF Send, Output, SkipStore, CheckSize, Store, ResendBuffer, ResendEntry, SendOverflow, ResetOverflow, Typed, TypeOK, libVars
  <1>2. ASSUME NEW t \in Threads, LogStart(t) \/ LogOld(t) \/ LogEnd(t) \/ LogCounted(t)
        PROVE  overflow_counter' \in Nat /\ contexts' \in Nat
    BY <1>2, ThreadCounts DEF LogStart, LogOld, LogEnd, LogCounted, Typed, TypeOK, libVars
  <1>3. ASSUME NEW t \in Threads, RegisterApp(t) \/ RegisterContext(t) \/ RegisterAppEnd(t)
        PROVE  overflow_counter' \in Nat /\ contexts' \in Nat
    BY <1>3 DEF RegisterApp, RegisterContext, RegisterAppEnd, Typed, TypeOK, libVars
  <1>4. ASSUME NEW p \in {Housekeeper, Exit}, AttachStep(p)
        PROVE  overflow_counter' \in Nat /\ contexts' \in Nat
    BY <1>4 DEF AttachStep, Reattach, ReattachOpen, ReattachContext, Typed, TypeOK, libVars
  <1>5. CASE HousekeeperResend \/ HousekeeperCancelled
    BY <1>5 DEF HousekeeperResend, HousekeeperCancelled, Typed, TypeOK, libVars
  <1>6. CASE Flushing
    BY <1>6 DEF Flushing, ExitStart, BlowOut, BlowOutTimeout, BlowOutOverflow, BlowOutResend, BlowOutEnd, Typed, TypeOK, libVars
  <1>7. CASE Ending
    BY <1>7 DEF Ending, ExitUnregister, ExitClear, FreeStart, FreeLock, FreeJoined, Typed, TypeOK, libVars
  <1>8. CASE Environment
    BY <1>8 DEF Environment, DaemonStarts, DaemonStops, PipeFills, DaemonReads, Typed, TypeOK, libVars
  <1> QED
    BY <1>1, <1>2, <1>3, <1>4, <1>5, <1>6, <1>7, <1>8, Steps

LEMMA MutexType ==
  ASSUME TypeOK, Next
  PROVE  mutex' \in Proc \union {Nobody}
  <1>1. ASSUME NEW p \in Proc, Send(p)
        PROVE  mutex' \in Proc \union {Nobody}
    BY <1>1 DEF Send, Output, SkipStore, CheckSize, Store, ResendBuffer, ResendEntry, SendOverflow, ResetOverflow, TypeOK
  <1>2. ASSUME NEW t \in Threads, LogStart(t) \/ LogOld(t) \/ LogEnd(t) \/ LogCounted(t)
        PROVE  mutex' \in Proc \union {Nobody}
    BY <1>2, ThreadProcs DEF LogStart, LogOld, LogEnd, LogCounted, TypeOK
  <1>3. ASSUME NEW t \in Threads, RegisterApp(t) \/ RegisterContext(t) \/ RegisterAppEnd(t)
        PROVE  mutex' \in Proc \union {Nobody}
    BY <1>3 DEF RegisterApp, RegisterContext, RegisterAppEnd, TypeOK
  <1>4. ASSUME NEW p \in {Housekeeper, Exit}, AttachStep(p)
        PROVE  mutex' \in Proc \union {Nobody}
    BY <1>4 DEF AttachStep, Reattach, ReattachOpen, ReattachContext, TypeOK
  <1>5. CASE HousekeeperResend \/ HousekeeperCancelled
    BY <1>5 DEF HousekeeperResend, HousekeeperCancelled, TypeOK
  <1>6. CASE Flushing
    BY <1>6 DEF Flushing, ExitStart, BlowOut, BlowOutTimeout, BlowOutOverflow, BlowOutResend, BlowOutEnd, TypeOK
  <1>7. CASE Ending
    BY <1>7, OtherProcs DEF Ending, ExitUnregister, ExitClear, FreeStart, FreeLock, FreeJoined, TypeOK
  <1>8. CASE Environment
    BY <1>8 DEF Environment, DaemonStarts, DaemonStops, PipeFills, DaemonReads, TypeOK
  <1> QED
    BY <1>1, <1>2, <1>3, <1>4, <1>5, <1>6, <1>7, <1>8, Steps

LEMMA LimitStays ==
  ASSUME Next
  PROVE  limit' = limit
  <1>1. ASSUME NEW p \in Proc, Send(p)
        PROVE  limit' = limit
    BY <1>1 DEF Send, Output, SkipStore, CheckSize, Store, ResendBuffer, ResendEntry, SendOverflow, ResetOverflow, envVars
  <1>2. ASSUME NEW t \in Threads, LogStart(t) \/ LogOld(t) \/ LogEnd(t) \/ LogCounted(t)
        PROVE  limit' = limit
    BY <1>2 DEF LogStart, LogOld, LogEnd, LogCounted, envVars
  <1>3. ASSUME NEW t \in Threads, RegisterApp(t) \/ RegisterContext(t) \/ RegisterAppEnd(t)
        PROVE  limit' = limit
    BY <1>3 DEF RegisterApp, RegisterContext, RegisterAppEnd, envVars
  <1>4. ASSUME NEW p \in {Housekeeper, Exit}, AttachStep(p)
        PROVE  limit' = limit
    BY <1>4 DEF AttachStep, Reattach, ReattachOpen, ReattachContext, envVars
  <1>5. CASE HousekeeperResend \/ HousekeeperCancelled
    BY <1>5 DEF HousekeeperResend, HousekeeperCancelled, envVars
  <1>6. CASE Flushing
    BY <1>6 DEF Flushing, ExitStart, BlowOut, BlowOutTimeout, BlowOutOverflow, BlowOutResend, BlowOutEnd, envVars
  <1>7. CASE Ending
    BY <1>7 DEF Ending, ExitUnregister, ExitClear, FreeStart, FreeLock, FreeJoined, envVars
  <1>8. CASE Environment
    BY <1>8 DEF Environment, DaemonStarts, DaemonStops, PipeFills, DaemonReads, envVars
  <1> QED
    BY <1>1, <1>2, <1>3, <1>4, <1>5, <1>6, <1>7, <1>8, Steps

LEMMA DoneChanges ==
  ASSUME Next
  PROVE  \/ done' = done \/ (\E q \in Proc : SkipStore(q) \/ Store(q) \/ ReattachOpen(q))
         \/ (\E u \in Threads : LogStart(u) \/ LogCounted(u) \/ RegisterAppEnd(u) \/ RegisterContext(u))
         \/ BlowOutTimeout \/ BlowOutEnd \/ FreeJoined \/ DaemonStarts \/ PipeFills
  <1>1. ASSUME NEW p \in Proc, Send(p)
        PROVE  \/ done' = done \/ (\E q \in Proc : SkipStore(q) \/ Store(q) \/ ReattachOpen(q))
         \/ (\E u \in Threads : LogStart(u) \/ LogCounted(u) \/ RegisterAppEnd(u) \/ RegisterContext(u))
         \/ BlowOutTimeout \/ BlowOutEnd \/ FreeJoined \/ DaemonStarts \/ PipeFills
    BY <1>1 DEF Send, Output, CheckSize, ResendBuffer, ResendEntry, SendOverflow, ResetOverflow
  <1>2. ASSUME NEW t \in Threads, LogStart(t) \/ LogOld(t) \/ LogEnd(t) \/ LogCounted(t)
        PROVE  \/ done' = done \/ (\E q \in Proc : SkipStore(q) \/ Store(q) \/ ReattachOpen(q))
         \/ (\E u \in Threads : LogStart(u) \/ LogCounted(u) \/ RegisterAppEnd(u) \/ RegisterContext(u))
         \/ BlowOutTimeout \/ BlowOutEnd \/ FreeJoined \/ DaemonStarts \/ PipeFills
    BY <1>2 DEF LogOld, LogEnd
  <1>3. ASSUME NEW t \in Threads, RegisterApp(t) \/ RegisterContext(t) \/ RegisterAppEnd(t)
        PROVE  \/ done' = done \/ (\E q \in Proc : SkipStore(q) \/ Store(q) \/ ReattachOpen(q))
         \/ (\E u \in Threads : LogStart(u) \/ LogCounted(u) \/ RegisterAppEnd(u) \/ RegisterContext(u))
         \/ BlowOutTimeout \/ BlowOutEnd \/ FreeJoined \/ DaemonStarts \/ PipeFills
    BY <1>3 DEF RegisterApp
  <1>4. ASSUME NEW p \in {Housekeeper, Exit}, AttachStep(p)
        PROVE  \/ done' = done \/ (\E q \in Proc : SkipStore(q) \/ Store(q) \/ ReattachOpen(q))
         \/ (\E u \in Threads : LogStart(u) \/ LogCounted(u) \/ RegisterAppEnd(u) \/ RegisterContext(u))
         \/ BlowOutTimeout \/ BlowOutEnd \/ FreeJoined \/ DaemonStarts \/ PipeFills
    BY <1>4, OtherProcs DEF AttachStep, Reattach, ReattachContext
  <1>5. CASE HousekeeperResend \/ HousekeeperCancelled
    BY <1>5 DEF HousekeeperResend, HousekeeperCancelled
  <1>6. CASE Flushing
    BY <1>6 DEF Flushing, ExitStart, BlowOut, BlowOutOverflow, BlowOutResend
  <1>7. CASE Ending
    BY <1>7 DEF Ending, ExitUnregister, ExitClear, FreeStart, FreeLock
  <1>8. CASE Environment
    BY <1>8 DEF Environment, DaemonStops, DaemonReads
  <1> QED
    BY <1>1, <1>2, <1>3, <1>4, <1>5, <1>6, <1>7, <1>8, Steps


\* Who moves in a step, if anybody.
LEMMA Movers ==
  ASSUME Typed, OtherFrames, Next
  PROVE  \/ proc' = proc
         \/ \E p \in Proc : Send(p) /\ Moves(p)
         \/ \E t \in Threads : (LogStart(t) \/ LogOld(t) \/ LogEnd(t) \/ LogCounted(t)) /\ Moves(t)
         \/ \E t \in Threads : (RegisterApp(t) \/ RegisterContext(t) \/ RegisterAppEnd(t)) /\ Moves(t)
         \/ \E p \in {Housekeeper, Exit} : AttachStep(p) /\ Moves(p)
         \/ (HousekeeperResend \/ HousekeeperCancelled) /\ Moves(Housekeeper)
         \/ (Flushing \/ Ending) /\ Moves(Exit)
  <1>1. Frames /\ Len(buffer) \in Nat /\ done.logs \in Nat /\ overflow_counter \in Nat /\ contexts \in Nat
    BY DEF Typed, TypeOK, Frames, History
  <1>2. ASSUME NEW p \in Proc, Send(p)
        PROVE  Moves(p)
    <2>1. proc[p].pc = "resendLoop" => proc[p].cnt # 0
      BY DEF OtherFrames
    <2> QED
      BY <1>1, <1>2, <2>1, OutputMoves, SkipStoreMoves, CheckSizeMoves, StoreMoves, ResendBufferMoves,
         ResendEntryMoves, SendOverflowMoves, ResetOverflowMoves DEF Send, ResendEntry, At
  <1>3. ASSUME NEW t \in Threads, LogStart(t) \/ LogOld(t) \/ LogEnd(t) \/ LogCounted(t)
        PROVE  Moves(t)
    BY <1>1, <1>3, LogStartMoves, LogOldMoves, LogEndMoves, LogCountedMoves
  <1>4. ASSUME NEW t \in Threads, RegisterApp(t) \/ RegisterContext(t) \/ RegisterAppEnd(t)
        PROVE  Moves(t)
    BY <1>1, <1>4, RegisterMoves, RegisterAppEndMoves
  <1>5. ASSUME NEW p \in {Housekeeper, Exit}, AttachStep(p)
        PROVE  Moves(p)
    BY <1>1, <1>5, OtherProcs, ReattachMoves, ReattachOpenMoves, ReattachContextMoves DEF AttachStep
  <1>6. CASE HousekeeperResend \/ HousekeeperCancelled
    BY <1>1, <1>6, HousekeeperMoves
  <1>7. CASE Flushing
    BY <1>1, <1>7, FlushingMoves
  <1>8. CASE Ending
    BY <1>1, <1>8, EndingMoves
  <1>9. CASE Environment
    BY <1>9 DEF Environment, DaemonStarts, DaemonStops, PipeFills, DaemonReads
  <1> QED
    BY <1>2, <1>3, <1>4, <1>5, <1>6, <1>7, <1>8, <1>9, Steps

LEMMA FramesStep ==
  ASSUME Typed, OtherFrames, Next
  PROVE  Frames'
  <1>1. Frames
    BY DEF Typed, Frames
  <1> QED
    BY <1>1, Movers DEF Moves, Frames

LEMMA BufferType ==
  ASSUME Typed, OtherFrames, Next
  PROVE  buffer' \in Seq(Message) /\ size' \in BufMin .. BufMax /\ Len(buffer') <= size'
  <1>1. buffer \in Seq(Message) /\ size \in BufMin .. BufMax /\ Len(buffer) <= size
    BY DEF Typed, TypeOK
  <1>2. ASSUME NEW p \in Proc, Store(p)
        PROVE  buffer' \in Seq(Message) /\ size' \in BufMin .. BufMax /\ Len(buffer') <= size'
    <2>1. PICK m : m = proc[p].msg
      OBVIOUS
    <2>2. m \in Message
      BY <2>1 DEF Typed, TypeOK
    <2>3. CASE Fits
      <3>1. buffer' = Append(buffer, m) /\ size' = IF Len(buffer) = size THEN size + 1 ELSE size
        BY <1>2, <2>1, <2>3 DEF Store
      <3>2. Len(buffer) < BufMax
        BY <2>3 DEF Fits
      <3> QED
        BY <1>1, <2>2, <3>1, <3>2, ConstAssumption
    <2>4. CASE ~Fits
      BY <1>1, <1>2, <2>4 DEF Store
    <2> QED
      BY <2>3, <2>4
  <1>3. ASSUME NEW p \in Proc, ResendEntry(p)
        PROVE  buffer' \in Seq(Message) /\ size' \in BufMin .. BufMax /\ Len(buffer') <= size'
    <2>1. proc[p].cnt # 0
      BY <1>3 DEF OtherFrames, ResendEntry, At
    <2>2. CASE Resends
      <3>1. buffer' = Tail(buffer) /\ size' = IF Len(buffer) = 1 THEN BufMin ELSE size
        BY <1>3, <2>1, <2>2, ResendEntryMoves DEF Typed, Frames
      <3>2. buffer # <<>>
        BY <2>2 DEF Resends
      <3>3. Tail(buffer) \in Seq(Message) /\ Len(Tail(buffer)) = Len(buffer) - 1
        BY <1>1, <3>2, HeadTailProperties
      <3>4. PICK n \in Nat : n = Len(buffer)
        BY <1>1
      <3>5. size' \in BufMin .. BufMax /\ n - 1 <= size'
        <4>1. size \in BufMin .. BufMax /\ n <= size /\ size' = IF n = 1 THEN BufMin ELSE size
          BY <1>1, <3>1, <3>4
        <4>2. CASE n = 1
          BY <4>1, <4>2, ConstAssumption
        <4>3. CASE n # 1
          BY <4>1, <4>3, ConstAssumption
        <4> QED
          BY <4>2, <4>3
      <3> QED
        BY <3>1, <3>3, <3>4, <3>5
    <2>3. CASE ~Resends
      BY <1>1, <1>3, <2>1, <2>3, ResendEntryMoves DEF Typed, Frames
    <2> QED
      BY <2>2, <2>3
  <1>4. CASE FreeJoined
    <2>1. buffer' = <<>> /\ size' = BufMin
      BY <1>4 DEF FreeJoined
    <2> QED
      BY <2>1, ConstAssumption
  <1> QED
    BY <1>1, <1>2, <1>3, <1>4, BufferChanges

LEMMA ReceivedType ==
  ASSUME Typed, OtherFrames, Next
  PROVE  received' \in [1 .. MaxDaemons -> Seq(Message)]
  <1>1. received \in [1 .. MaxDaemons -> Seq(Message)]
    BY DEF Typed, TypeOK
  <1>2. ASSUME NEW m \in Message, NEW h, received' = [received EXCEPT ![h] = Append(received[h], m)]
        PROVE  received' \in [1 .. MaxDaemons -> Seq(Message)]
    <2>1. h \in 1 .. MaxDaemons => Append(received[h], m) \in Seq(Message)
      BY <1>1
    <2> QED
      BY <1>1, <1>2, <2>1
  <1>3. ASSUME NEW p \in Proc, Output(p)
        PROVE  received' \in [1 .. MaxDaemons -> Seq(Message)]
    <2>1. proc[p].msg \in Message
      BY DEF Typed, TypeOK
    <2> QED
      BY <1>1, <1>2, <1>3, <2>1, OutputMoves DEF Typed, Frames
  <1>4. ASSUME NEW p \in Proc, ResendEntry(p)
        PROVE  received' \in [1 .. MaxDaemons -> Seq(Message)]
    <2>1. proc[p].cnt # 0
      BY <1>4 DEF OtherFrames, ResendEntry, At
    <2>2. Resends => Head(buffer) \in Message
      BY DEF Typed, TypeOK, Resends
    <2> QED
      BY <1>1, <1>2, <1>4, <2>1, <2>2, ResendEntryMoves DEF Typed, Frames
  <1>5. ASSUME NEW p \in Proc, SendOverflow(p)
        PROVE  received' \in [1 .. MaxDaemons -> Seq(Message)]
    <2>1. OverflowReport(overflow_counter) \in Message
      BY DEF Typed, TypeOK, OverflowReport, Msg, Message
    <2> QED
      BY <1>1, <1>2, <1>5, <2>1, SendOverflowMoves DEF Typed, Frames
  <1> QED
    BY <1>1, <1>3, <1>4, <1>5, ReceivedChanges

\* What the history says about log messages stays.
Unlogged == /\ done'.logs = done.logs /\ done'.discarded = done.discarded /\ done'.lost = done.lost
            /\ done'.attached = done.attached /\ done'.warned = done.warned
            /\ "log" \in done'.early <=> "log" \in done.early

LEMMA HistoryFields ==
  ASSUME NEW h \in History
  PROVE  /\ h.logs \in Nat /\ h.fills \in Nat /\ h.daemons \in 0 .. MaxDaemons /\ h.attached \in 0 .. MaxDaemons
         /\ h.discarded \in SUBSET Nat /\ h.lost \in SUBSET Nat /\ h.refused \in SUBSET Nat
         /\ h.early \in SUBSET {"log", "context"} /\ h.warned \in BOOLEAN /\ h.loggers \in SUBSET Threads
  BY DEF History

LEMMA DoneQuiet ==
  ASSUME Typed,
         \/ done' = done \/ DaemonStarts \/ PipeFills
         \/ \E p \in Proc : SkipStore(p) \/ Store(p)
         \/ \E t \in Threads : RegisterAppEnd(t) \/ RegisterContext(t)
  PROVE  done' \in History /\ Unlogged
  <1>1. done \in History
    BY DEF Typed
  <1>2. CASE done' = done
    BY <1>1, <1>2 DEF Unlogged
  <1>3. CASE DaemonStarts
    <2>1. PICK d : d = done.daemons + 1
      OBVIOUS
    <2>2. d \in 0 .. MaxDaemons
      BY <1>3, <2>1, DaemonBound DEF DaemonStarts
    <2>3. done' = [done EXCEPT !.daemons = d]
      BY <1>3, <2>1 DEF DaemonStarts
    <2> QED
      BY <1>1, <2>2, <2>3 DEF History, Unlogged
  <1>4. CASE PipeFills
    <2>1. PICK d : d = done.fills + 1
      OBVIOUS
    <2>2. d \in Nat
      BY <1>1, <2>1, HistoryFields
    <2>3. done' = [done EXCEPT !.fills = d]
      BY <1>4, <2>1 DEF PipeFills
    <2> QED
      BY <1>1, <2>2, <2>3 DEF History, Unlogged
  <1>5. ASSUME NEW p \in Proc, Store(p) PROVE done' \in History /\ Unlogged
    <2>1. PICK r : r = done.refused \union {proc[p].msg.n}
      OBVIOUS
    <2>2. proc[p].msg.n \in Nat
      BY DEF Typed, TypeOK, Message
    <2>3. r \in SUBSET Nat
      BY <1>1, <2>1, <2>2, HistoryFields
    <2>4. done' = done \/ done' = [done EXCEPT !.refused = r]
      BY <1>5, <2>1 DEF Store
    <2> QED
      BY <1>1, <2>3, <2>4 DEF History, Unlogged
  <1>6. ASSUME NEW t \in Threads, RegisterAppEnd(t) PROVE done' \in History /\ Unlogged
    <2>1. done' = [done EXCEPT !.registered = TRUE]
      BY <1>6 DEF RegisterAppEnd
    <2> QED
      BY <1>1, <2>1 DEF History, Unlogged
  <1>7. ASSUME NEW t \in Threads, RegisterContext(t) PROVE done' \in History /\ Unlogged
    <2>1. PICK r : r = done.early \union {"context"}
      OBVIOUS
    <2>2. r \in SUBSET {"log", "context"} /\ ("log" \in r <=> "log" \in done.early)
      BY <1>1, <2>1, HistoryFields
    <2>3. done' = done \/ done' = [done EXCEPT !.early = r]
      BY <1>7, <2>1 DEF RegisterContext
    <2> QED
      BY <1>1, <2>2, <2>3 DEF History, Unlogged
  <1>8. ASSUME NEW p \in Proc, SkipStore(p) PROVE done' \in History /\ Unlogged
    <2>1. PICK r : r = done.overlooked \union {proc[p].msg}
      OBVIOUS
    <2>2. r \in SUBSET Message
      BY <1>1, <2>1 DEF Typed, TypeOK, History
    <2>3. done' = [done EXCEPT !.overlooked = r]
      BY <1>8, <2>1 DEF SkipStore
    <2> QED
      BY <1>1, <2>2, <2>3 DEF History, Unlogged
  <1> QED
    BY <1>2, <1>3, <1>4, <1>5, <1>6, <1>7, <1>8

LEMMA DoneLogStart ==
  ASSUME Typed, NEW t \in Threads, LogStart(t)
  PROVE  /\ done' \in History /\ done'.logs = done.logs + 1 /\ done'.discarded = done.discarded
         /\ done'.lost = done.lost /\ done'.attached = done.attached /\ done'.warned = done.warned
         /\ "log" \notin done'.early => "log" \notin done.early /\ appID
  <1>1. done \in History
    BY DEF Typed
  <1>2. PICK n : n = done.logs + 1
    OBVIOUS
  <1>3. PICK l : l = done.loggers \union {t}
    OBVIOUS
  <1>4. PICK e : e = IF appID THEN done.early ELSE done.early \union {"log"}
    OBVIOUS
  <1>5. n \in Nat /\ l \in SUBSET Threads /\ e \in SUBSET {"log", "context"}
    BY <1>1, <1>2, <1>3, <1>4, HistoryFields
  <1>6. "log" \notin e => "log" \notin done.early /\ appID
    BY <1>4
  <1>7. done' = [done EXCEPT !.logs = n, !.loggers = l, !.early = e]
    BY <1>2, <1>3, <1>4 DEF LogStart
  <1>8. done' \in History
    BY <1>1, <1>5, <1>7 DEF History
  <1>9. /\ done'.logs = n /\ done'.early = e /\ done'.discarded = done.discarded
        /\ done'.lost = done.lost /\ done'.attached = done.attached /\ done'.warned = done.warned
    BY <1>1, <1>7 DEF History
  <1> QED
    BY <1>2, <1>6, <1>8, <1>9

LEMMA DoneLogCounted ==
  ASSUME Typed, NEW t \in Threads, LogCounted(t)
  PROVE  /\ done' \in History /\ done'.logs = done.logs /\ done'.lost = done.lost
         /\ done'.discarded = done.discarded \union {proc[t].msg.n}
         /\ done'.attached = done.attached /\ done'.warned = done.warned /\ done'.early = done.early
  <1>1. done \in History
    BY DEF Typed
  <1>2. PICK r : r = done.discarded \union {proc[t].msg.n}
    OBVIOUS
  <1>3. proc[t].msg.n \in Nat
    BY ThreadProcs DEF Typed, TypeOK, Message
  <1>4. r \in SUBSET Nat
    BY <1>1, <1>2, <1>3, HistoryFields
  <1>5. done' = [done EXCEPT !.discarded = r]
    BY <1>2 DEF LogCounted
  <1> QED
    BY <1>1, <1>2, <1>4, <1>5 DEF History

LEMMA DoneAttached ==
  ASSUME Typed, NEW p \in Proc, ReattachOpen(p)
  PROVE  /\ done' \in History /\ done'.logs = done.logs /\ done'.lost = done.lost
         /\ done'.discarded = done.discarded /\ done'.warned = done.warned /\ done'.early = done.early
         /\ daemon = 0 => done' = done
         /\ daemon # 0 => done'.attached = daemon
  <1>1. done \in History /\ daemon \in 0 .. MaxDaemons
    BY DEF Typed, TypeOK
  <1>2. (daemon = 0 /\ done' = done) \/ (daemon # 0 /\ done' = [done EXCEPT !.attached = daemon])
    BY DEF ReattachOpen
  <1> QED
    BY <1>1, <1>2 DEF History

LEMMA DoneWarned ==
  ASSUME Typed, BlowOutTimeout \/ BlowOutEnd
  PROVE  /\ done' \in History /\ done'.logs = done.logs /\ done'.lost = done.lost
         /\ done'.discarded = done.discarded /\ done'.attached = done.attached /\ done'.early = done.early
         /\ done' = done \/ done'.warned = LeftOver
  <1>1. done \in History
    BY DEF Typed
  <1>2. LeftOver \in BOOLEAN
    BY DEF LeftOver
  <1>3. done' = done \/ done' = [done EXCEPT !.warned = LeftOver]
    BY DEF BlowOutTimeout, BlowOutEnd
  <1>4. CASE done' = done
    BY <1>1, <1>4
  <1>5. CASE done' = [done EXCEPT !.warned = LeftOver]
    <2>1. PICK w \in BOOLEAN : w = LeftOver
      BY <1>2
    <2>2. done' = [done EXCEPT !.warned = w]
      BY <1>5, <2>1
    <2>3. done' \in History
      BY <1>1, <2>2 DEF History
    <2>4. /\ done'.logs = done.logs /\ done'.lost = done.lost /\ done'.warned = w
          /\ done'.discarded = done.discarded /\ done'.attached = done.attached /\ done'.early = done.early
      BY <1>1, <2>2 DEF History
    <2> QED
      BY <2>1, <2>3, <2>4
  <1> QED
    BY <1>3, <1>4, <1>5

LEMMA LogNumbersType ==
  ASSUME NEW s \in Seq(Message)
  PROVE  /\ LogNumbers(s) \in SUBSET Nat
         /\ \A n : n \in LogNumbers(s) <=> \E i \in 1 .. Len(s) : s[i].kind = "log" /\ s[i].n = n
  <1>1. DOMAIN s = 1 .. Len(s) /\ \A i \in 1 .. Len(s) : s[i] \in Message
    OBVIOUS
  <1>2. \A n : n \in LogNumbers(s) <=> \E i \in 1 .. Len(s) : s[i].kind = "log" /\ s[i].n = n
    BY <1>1 DEF LogNumbers, IsLog
  <1>3. \A i \in 1 .. Len(s) : s[i].n \in Nat
    BY <1>1 DEF Message
  <1> QED
    BY <1>2, <1>3

LEMMA DoneFreed ==
  ASSUME Typed, FreeJoined
  PROVE  /\ done' \in History /\ done'.logs = done.logs /\ done'.lost = LogNumbers(buffer)
         /\ done'.discarded = done.discarded /\ done'.attached = done.attached /\ done'.early = done.early
         /\ done'.warned = done.warned
  <1>1. done \in History
    BY DEF Typed
  <1>2. PICK l : l = LogNumbers(buffer)
    OBVIOUS
  <1>3. l \in SUBSET Nat
    BY <1>2, LogNumbersType DEF Typed, TypeOK
  <1>4. done' = [done EXCEPT !.lost = l]
    BY <1>2 DEF FreeJoined
  <1> QED
    BY <1>1, <1>2, <1>3, <1>4 DEF History

LEMMA TypedStep ==
  ASSUME Typed, OtherFrames, Next
  PROVE  Typed'
  <1>1. done' \in History
    BY DoneChanges, DoneQuiet, DoneLogStart, DoneLogCounted, DoneAttached, DoneWarned, DoneFreed
  <1>2. limit' \in Limits
    BY LimitStays DEF Typed
  <1>3. proc' \in [Proc -> FrameSet]
    BY FramesStep DEF Frames
  <1>4. \A p \in Proc : proc'[p].msg \in Message /\ proc'[p].cnt \in Nat
    BY <1>3 DEF FrameSet
  <1>5. TypeOK'
    <2>1. TypeOK
      BY DEF Typed
    <2> QED
      BY <1>4, <2>1, FlagTypes, HandleTypes, CounterTypes, MutexType, BufferType, ReceivedType DEF TypeOK
  <1> QED
    BY <1>1, <1>2, <1>3, <1>5 DEF Typed

--------------------------------------------------------------------------------
(* Where the processes are *)

\* A thread inside one of the helpers, or at the end of one.
LEMMA ThreadSends ==
  ASSUME Frames, Len(buffer) \in Nat, NEW t \in Threads, ThreadFrame(t, proc[t]), Send(t),
         proc[t].pc = "resendLoop" => proc[t].cnt # 0
  PROVE  ThreadFrame(t, proc'[t]) /\ (proc'[t].msg = proc[t].msg \/ proc'[t].msg.kind # "log")
  <1>1. t \in Proc /\ proc[t] \in FrameSet
    BY ThreadProcs DEF Frames
  <1>2. CASE Output(t)
    <2>1. CASE Wrote(t)
      BY <1>1, <1>2, <2>1, OutputMoves, RestFields DEF ThreadFrame, LogCall, OtherCall, GoesOn
    <2>2. CASE ~Wrote(t)
      BY <1>1, <1>2, <2>2, OutputMoves DEF ThreadFrame, LogCall, OtherCall
    <2> QED
      BY <2>1, <2>2
  <1>3. CASE CheckSize(t)
    BY <1>1, <1>3, CheckSizeMoves DEF ThreadFrame, LogCall, OtherCall
  <1>4. CASE Store(t)
    <2>1. CASE Fits
      BY <1>1, <1>4, <2>1, StoreMoves, RestFields DEF ThreadFrame, LogCall, OtherCall, GoesOn
    <2>2. CASE ~Fits
      <3>1. PICK f : f = [proc[t] EXCEPT !.err = "BUFFER_FULL"]
        OBVIOUS
      <3>2. /\ f.pc = proc[t].pc /\ f.msg = proc[t].msg /\ f.ret = proc[t].ret
            /\ f.err = "BUFFER_FULL" /\ f.back = proc[t].back /\ f.then = proc[t].then
        BY <1>1, <3>1, ErrField, ResultsAre
      <3>3. proc[t].pc = "store" /\ GoesOn(f, proc'[t], proc[t].back)
        BY <1>1, <1>4, <2>2, <3>1, StoreMoves
      <3> QED
        BY <3>2, <3>3, RestFields DEF ThreadFrame, LogCall, OtherCall, GoesOn
    <2> QED
      BY <2>1, <2>2
  <1>5. ASSUME NEW n, Loops(proc[t], proc'[t], n), proc[t].pc \in {"resend", "resendLoop"}
        PROVE  ThreadFrame(t, proc'[t]) /\ (proc'[t].msg = proc[t].msg \/ proc'[t].msg.kind # "log")
    <2>1. CASE n # 0
      BY <1>5, <2>1 DEF Loops, ThreadFrame, LogCall, OtherCall
    <2>2. CASE n = 0
      <3>1. PICK f : f = [proc[t] EXCEPT !.ret = "OK"]
        OBVIOUS
      <3>2. /\ f.pc = proc[t].pc /\ f.msg = proc[t].msg /\ f.err = proc[t].err
            /\ f.back = proc[t].back /\ f.then = proc[t].then
        BY <1>1, <3>1, RetField, ResultsAre
      <3>3. GoesOn(f, proc'[t], proc[t].then)
        BY <1>5, <2>2, <3>1 DEF Loops
      <3> QED
        BY <1>5, <3>2, <3>3, RestFields DEF ThreadFrame, LogCall, OtherCall, GoesOn
    <2> QED
      BY <2>1, <2>2
  <1>6. CASE ResendBuffer(t)
    BY <1>1, <1>5, <1>6, ResendBufferMoves
  <1>7. CASE ResendEntry(t)
    <2>1. proc[t].pc = "resendLoop" /\ proc[t].cnt # 0
      BY <1>7 DEF ResendEntry, At
    <2>2. CASE buffer = <<>> \/ Resends
      BY <1>1, <1>5, <1>7, <2>1, <2>2, ResendEntryMoves
    <2>3. CASE ~(buffer = <<>> \/ Resends)
      <3>1. PICK f : f = [proc[t] EXCEPT !.ret = LogOut(handle)]
        OBVIOUS
      <3>2. /\ f.pc = proc[t].pc /\ f.msg = proc[t].msg /\ f.err = proc[t].err
            /\ f.back = proc[t].back /\ f.then = proc[t].then
        BY <1>1, <3>1, RetField, LogOutResult
      <3>3. GoesOn(f, proc'[t], proc[t].then)
        BY <1>1, <1>7, <2>1, <2>3, <3>1, ResendEntryMoves
      <3> QED
        BY <2>1, <3>2, <3>3, RestFields DEF ThreadFrame, LogCall, OtherCall, GoesOn
    <2> QED
      BY <2>2, <2>3
  <1>8. CASE SendOverflow(t)
    BY <1>1, <1>8, SendOverflowMoves, RestFields DEF ThreadFrame, LogCall, OtherCall, GoesOn
  <1>9. CASE ResetOverflow(t)
    BY <1>1, <1>9, ResetOverflowMoves, RestFields DEF ThreadFrame, LogCall, OtherCall, GoesOn
  <1>10. CASE SkipStore(t)
    BY <1>1, <1>10, SkipStoreMoves DEF ThreadFrame, LogCall, GoesOn
  <1> QED
    BY <1>2, <1>3, <1>4, <1>6, <1>7, <1>8, <1>9, <1>10 DEF Send

\* The log call itself.
LEMMA ThreadLogs ==
  ASSUME Frames, overflow_counter \in Nat, NEW t \in Threads, ThreadFrame(t, proc[t]),
         LogOld(t) \/ LogEnd(t) \/ LogCounted(t)
  PROVE  ThreadFrame(t, proc'[t]) /\ (proc'[t].msg = proc[t].msg \/ proc'[t].msg.kind # "log")
  <1>1. CASE LogOld(t)
    BY <1>1, LogOldMoves DEF ThreadFrame, LogCall, OtherCall
  <1>2. CASE LogEnd(t)
    BY <1>2, LogEndMoves, RestFields DEF ThreadFrame, LogCall, OtherCall
  <1>3. CASE LogCounted(t)
    BY <1>3, LogCountedMoves, RestFields DEF ThreadFrame, LogCall, OtherCall
  <1> QED
    BY <1>1, <1>2, <1>3

LEMMA ThreadRegisters ==
  ASSUME Frames, contexts \in Nat, NEW t \in Threads, ThreadFrame(t, proc[t]),
         RegisterApp(t) \/ RegisterContext(t) \/ RegisterAppEnd(t)
  PROVE  ThreadFrame(t, proc'[t]) /\ proc'[t].msg.kind # "log" /\ proc[t].msg.kind # "log"
  <1>1. CASE RegisterApp(t) \/ RegisterContext(t)
    BY <1>1, RegisterMoves DEF ThreadFrame, LogCall, OtherCall
  <1>2. CASE RegisterAppEnd(t)
    BY <1>2, RegisterAppEndMoves, RestFields DEF ThreadFrame, LogCall, OtherCall, GoesOn
  <1> QED
    BY <1>1, <1>2

LEMMA ThreadStarts ==
  ASSUME Frames, done.logs \in Nat, NEW t \in Threads, LogStart(t)
  PROVE  /\ ThreadFrame(t, proc'[t]) /\ proc'[t].msg.kind = "log" /\ proc'[t].msg.n = done.logs + 1
         /\ proc'[t].msg.from = t
  <1>1. PICK m : m = Log(done.logs + 1, t)
    OBVIOUS
  <1>2. m.kind = "log" /\ m.n = done.logs + 1 /\ m.from = t
    BY <1>1 DEF Log, Msg
  <1> QED
    BY <1>1, <1>2, LogStartMoves DEF ThreadFrame, LogCall

LEMMA LogsGrow ==
  ASSUME Typed, Next
  PROVE  done'.logs = done.logs \/ ((\E t \in Threads : LogStart(t)) /\ done'.logs = done.logs + 1)
  BY DoneChanges, DoneQuiet, DoneLogStart, DoneLogCounted, DoneAttached, DoneWarned, DoneFreed DEF Unlogged

\* The steps a thread itself takes.
LEMMA ThreadTurns ==
  ASSUME Typed, OtherFrames, Next, NEW t \in Threads
  PROVE  \/ proc'[t] = proc[t]
         \/ Moves(t) /\ (Send(t) \/ LogStart(t) \/ LogOld(t) \/ LogEnd(t) \/ LogCounted(t))
         \/ Moves(t) /\ (RegisterApp(t) \/ RegisterContext(t) \/ RegisterAppEnd(t))
  <1>1. t \in Proc /\ t # Housekeeper /\ t # Exit
    BY ThreadProcs
  <1> QED
    BY <1>1, Movers DEF Moves

LEMMA ThreadFramesStep ==
  ASSUME Typed, OtherFrames, ThreadFrames, Next
  PROVE  ThreadFrames'
  <1> SUFFICES ASSUME NEW t \in Threads
               PROVE  /\ ThreadFrame(t, proc'[t])
                      /\ proc'[t].msg.kind = "log" => proc'[t].msg.n \in 1 .. done'.logs
    BY DEF ThreadFrames, ThreadFrame, LogCall, OtherCall
  <1>1. Frames /\ Len(buffer) \in Nat /\ done.logs \in Nat /\ overflow_counter \in Nat /\ contexts \in Nat
    BY DEF Typed, TypeOK, Frames, History
  <1>2. ThreadFrame(t, proc[t]) /\ (proc[t].msg.kind = "log" => proc[t].msg.n \in 1 .. done.logs)
    BY DEF ThreadFrames, ThreadFrame, LogCall, OtherCall
  <1>3. done'.logs \in {done.logs, done.logs + 1}
    BY LogsGrow
  <1>4. 1 .. done.logs \subseteq 1 .. done'.logs
    BY <1>1, <1>3
  <1>5. CASE proc'[t] = proc[t]
    BY <1>2, <1>4, <1>5
  <1>6. CASE Send(t)
    <2>1. proc[t].pc = "resendLoop" => proc[t].cnt # 0
      BY ThreadProcs DEF OtherFrames
    <2> QED
      BY <1>1, <1>2, <1>4, <1>6, <2>1, ThreadSends
  <1>7. CASE LogOld(t) \/ LogEnd(t) \/ LogCounted(t)
    BY <1>1, <1>2, <1>4, <1>7, ThreadLogs
  <1>8. CASE LogStart(t)
    <2>1. done'.logs = done.logs + 1
      BY <1>8, DoneLogStart
    <2> QED
      BY <1>1, <1>8, <2>1, ThreadStarts
  <1>9. CASE RegisterApp(t) \/ RegisterContext(t) \/ RegisterAppEnd(t)
    BY <1>1, <1>2, <1>9, ThreadRegisters
  <1> QED
    BY <1>5, <1>6, <1>7, <1>8, <1>9, ThreadTurns

\* A process in a helper keeps its return places and enters the loop over the buffer only with
\* entries to resend.
Places(f) == f.back # "resendLoop" /\ f.then # "resendLoop"
Looping(f) == f.pc = "resendLoop" => f.cnt # 0 /\ limit.proto = 2

LEMMA RestPlaces == Places(Rest) /\ Places(Poll) /\ Looping(Rest) /\ Looping(Poll)
  BY DEF Places, Looping, Rest, Poll, Frame

LEMMA GoesOnPlaces ==
  ASSUME NEW f, NEW g, NEW pc, GoesOn(f, g, pc), Places(f), pc # "resendLoop"
  PROVE  /\ Places(g) /\ Looping(g)
         /\ g.msg = f.msg \/ g.msg.kind = "none"
  <1>1. CASE pc \in {"idle", "poll"}
    BY <1>1, RestPlaces, RestFields DEF GoesOn
  <1>2. CASE pc \notin {"idle", "poll"}
    BY <1>2 DEF GoesOn, Places, Looping
  <1> QED
    BY <1>1, <1>2

LEMMA LoopsPlaces ==
  ASSUME NEW f \in FrameSet, NEW g, NEW n, Loops(f, g, n), Places(f), limit.proto = 2 \/ n = 0
  PROVE  /\ Places(g) /\ Looping(g)
         /\ g.msg = f.msg \/ g.msg.kind = "none"
  <1>1. CASE n = 0
    <2>1. PICK e : e = [f EXCEPT !.ret = "OK"]
      OBVIOUS
    <2>2. e.back = f.back /\ e.then = f.then /\ e.msg = f.msg
      BY <2>1, RetField, ResultsAre
    <2>3. GoesOn(e, g, f.then)
      BY <1>1, <2>1 DEF Loops
    <2>4. Places(e) /\ f.then # "resendLoop"
      BY <2>2 DEF Places
    <2> QED
      BY <2>2, <2>3, <2>4, GoesOnPlaces
  <1>2. CASE n # 0
    BY <1>2 DEF Loops, Places, Looping
  <1> QED
    BY <1>1, <1>2

LEMMA SendPlaces ==
  ASSUME Frames, Len(buffer) \in Nat, NEW p \in Proc, Places(proc[p]), Looping(proc[p]), Send(p)
  PROVE  /\ Places(proc'[p]) /\ Looping(proc'[p])
         /\ proc'[p].msg = proc[p].msg \/ proc'[p].msg.kind = "none"
  <1>1. proc[p] \in FrameSet /\ proc[p].back # "resendLoop" /\ proc[p].then # "resendLoop"
    BY DEF Frames, Places
  <1>2. CASE Output(p)
    <2>1. CASE Wrote(p)
      BY <1>1, <1>2, <2>1, OutputMoves, GoesOnPlaces
    <2>2. CASE ~Wrote(p)
      BY <1>1, <1>2, <2>2, OutputMoves DEF Places, Looping
    <2> QED
      BY <2>1, <2>2
  <1>3. CASE CheckSize(p)
    BY <1>1, <1>3, CheckSizeMoves DEF Places, Looping
  <1>4. CASE Store(p)
    <2>1. CASE Fits
      BY <1>1, <1>4, <2>1, StoreMoves, GoesOnPlaces
    <2>2. CASE ~Fits
      <3>1. PICK e : e = [proc[p] EXCEPT !.err = "BUFFER_FULL"]
        OBVIOUS
      <3>2. e.back = proc[p].back /\ e.then = proc[p].then /\ e.msg = proc[p].msg
        BY <1>1, <3>1, ErrField, ResultsAre
      <3>3. GoesOn(e, proc'[p], proc[p].back)
        BY <1>4, <2>2, <3>1, StoreMoves
      <3>4. Places(e)
        BY <1>1, <3>2 DEF Places
      <3> QED
        BY <1>1, <3>2, <3>3, <3>4, GoesOnPlaces
    <2> QED
      BY <2>1, <2>2
  <1>5. CASE ResendBuffer(p)
    <2>1. PICK n : n = IF appID /\ limit.proto = 2 THEN Len(buffer) ELSE 0
      OBVIOUS
    <2>2. Loops(proc[p], proc'[p], n) /\ (limit.proto = 2 \/ n = 0)
      BY <1>5, <2>1, ResendBufferMoves
    <2> QED
      BY <1>1, <2>2, LoopsPlaces
  <1>6. CASE ResendEntry(p)
    <2>1. proc[p].cnt # 0 /\ limit.proto = 2
      BY <1>6 DEF ResendEntry, At, Looping
    <2>2. CASE buffer = <<>> \/ Resends
      BY <1>1, <1>6, <2>1, <2>2, ResendEntryMoves, LoopsPlaces
    <2>3. CASE ~(buffer = <<>> \/ Resends)
      <3>1. PICK e : e = [proc[p] EXCEPT !.ret = LogOut(handle)]
        OBVIOUS
      <3>2. e.back = proc[p].back /\ e.then = proc[p].then /\ e.msg = proc[p].msg
        BY <1>1, <3>1, RetField, LogOutResult
      <3>3. GoesOn(e, proc'[p], proc[p].then)
        BY <1>6, <2>1, <2>3, <3>1, ResendEntryMoves
      <3>4. Places(e)
        BY <1>1, <3>2 DEF Places
      <3> QED
        BY <1>1, <3>2, <3>3, <3>4, GoesOnPlaces
    <2> QED
      BY <2>2, <2>3
  <1>7. CASE SendOverflow(p)
    BY <1>1, <1>7, SendOverflowMoves, GoesOnPlaces
  <1>8. CASE ResetOverflow(p)
    BY <1>1, <1>8, ResetOverflowMoves, GoesOnPlaces
  <1>9. CASE SkipStore(p)
    BY <1>1, <1>9, SkipStoreMoves, GoesOnPlaces
  <1> QED
    BY <1>2, <1>3, <1>4, <1>5, <1>6, <1>7, <1>8, <1>9 DEF Send

LEMMA OtherFramesStep ==
  ASSUME Typed, OtherFrames, ThreadFrames, Next
  PROVE  OtherFrames'
  <1>1. Frames /\ Len(buffer) \in Nat /\ done.logs \in Nat /\ overflow_counter \in Nat /\ contexts \in Nat
    BY DEF Typed, TypeOK, Frames, History
  <1>2. limit' = limit
    BY LimitStays
  <1>3. \A p \in Proc : Places(proc[p]) /\ Looping(proc[p])
    BY DEF OtherFrames, Places, Looping
  <1>4. \A p \in {Housekeeper, Exit} : p \in Proc /\ proc[p].msg.kind # "log"
    BY OtherProcs DEF OtherFrames
  <1> SUFFICES ASSUME NEW p \in Proc
               PROVE  /\ Places(proc'[p]) /\ Looping(proc'[p])
                      /\ p \in {Housekeeper, Exit} => proc'[p].msg.kind # "log"
    BY <1>2, OtherProcs DEF OtherFrames, Places, Looping
  <1>5. CASE proc'[p] = proc[p]
    BY <1>3, <1>4, <1>5
  <1>6. CASE Send(p)
    BY <1>1, <1>3, <1>4, <1>6, SendPlaces
  <1>7. ASSUME p \in Threads, LogStart(p) \/ LogOld(p) \/ LogEnd(p) \/ LogCounted(p)
        PROVE  Places(proc'[p]) /\ Looping(proc'[p])
    <2>1. Places(proc[p])
      BY <1>3
    <2> QED
      BY <1>1, <1>7, <2>1, RestPlaces, LogStartMoves, LogOldMoves, LogEndMoves, LogCountedMoves DEF Places, Looping
  <1>8. ASSUME p \in Threads, RegisterApp(p) \/ RegisterContext(p) \/ RegisterAppEnd(p)
        PROVE  Places(proc'[p]) /\ Looping(proc'[p])
    <2>1. CASE RegisterApp(p) \/ RegisterContext(p)
      BY <1>1, <1>8, <2>1, RegisterMoves DEF Places, Looping
    <2>2. CASE RegisterAppEnd(p)
      BY <1>1, <1>3, <1>8, <2>2, RegisterAppEndMoves, GoesOnPlaces
    <2> QED
      BY <1>8, <2>1, <2>2
  <1>9. ASSUME p \in {Housekeeper, Exit}, AttachStep(p)
        PROVE  Places(proc'[p]) /\ Looping(proc'[p]) /\ proc'[p].msg.kind # "log"
    <2>1. Places(proc[p]) /\ proc[p].msg.kind # "log" /\ AfterAttach(p) # "resendLoop"
      BY <1>3, <1>4, <1>9, AttachPc
    <2>2. CASE Reattach(p)
      BY <1>1, <2>1, <2>2, ReattachMoves, GoesOnPlaces
    <2>3. CASE ReattachOpen(p)
      <3>1. CASE daemon = 0
        BY <1>1, <2>1, <2>3, <3>1, ReattachOpenMoves, GoesOnPlaces
      <3>2. CASE daemon # 0
        BY <1>1, <2>1, <2>3, <3>2, ReattachOpenMoves DEF Places, Looping
      <3> QED
        BY <3>1, <3>2
    <2>4. CASE ReattachContext(p)
      <3>1. CASE GoesOn(proc[p], proc'[p], AfterAttach(p))
        BY <2>1, <3>1, GoesOnPlaces
      <3>2. CASE ~GoesOn(proc[p], proc'[p], AfterAttach(p))
        BY <1>1, <2>1, <2>4, <3>2, ReattachContextMoves DEF Places, Looping
      <3> QED
        BY <3>1, <3>2
    <2> QED
      BY <1>9, <2>2, <2>3, <2>4 DEF AttachStep
  <1>10. ASSUME p = Housekeeper, HousekeeperResend \/ HousekeeperCancelled
         PROVE  Places(proc'[p]) /\ Looping(proc'[p]) /\ proc'[p].msg.kind # "log"
    <2>1. Places(proc[p]) /\ proc[p].msg.kind # "log"
      BY <1>3, <1>4, <1>10
    <2> QED
      BY <1>1, <1>10, <2>1, HousekeeperMoves, GoesOnPlaces, RestPlaces, RestFields
  <1>11. ASSUME p = Exit, Flushing \/ Ending
         PROVE  Places(proc'[p]) /\ Looping(proc'[p]) /\ proc'[p].msg.kind # "log"
    <2>1. Places(proc[p]) /\ proc[p].msg.kind # "log"
      BY <1>3, <1>4, <1>11
    <2>2. CASE Flushing
      BY <1>1, <1>11, <2>1, <2>2, FlushingMoves DEF Places, Looping
    <2>3. CASE Ending
      BY <1>1, <1>11, <2>1, <2>3, EndingMoves DEF Places, Looping
    <2> QED
      BY <1>11, <2>2, <2>3
  <1> QED
    <2>1. p \in Threads => p \notin {Housekeeper, Exit}
      BY ThreadProcs
    <2> QED
      BY <1>5, <1>6, <1>7, <1>8, <1>9, <1>10, <1>11, <2>1, Movers DEF Moves

\* Inside a helper the atexit handler neither ends nor gives up.
LEMMA ExitSends ==
  ASSUME Frames, Len(buffer) \in Nat, ExitPlace(proc[Exit]), Send(Exit),
         proc[Exit].pc = "resendLoop" => proc[Exit].cnt # 0, proc[Exit].msg.kind # "log"
  PROVE  LET g == proc'[Exit] IN
         /\ ExitPlace(g) /\ proc[Exit].pc # "idle" /\ g.pc \notin {"idle", "exited"}
         /\ proc[Exit].pc # "exited"
         /\ GaveUp(g) <=> GaveUp(proc[Exit])
  <1>1. Exit \in Proc /\ proc[Exit] \in FrameSet
    BY OtherProcs DEF Frames
  <1>2. CASE Output(Exit)
    <2>1. CASE Wrote(Exit)
      <3>1. proc[Exit].pc = "out" /\ GoesOn(proc[Exit], proc'[Exit], proc[Exit].back)
        BY <1>1, <1>2, <2>1, OutputMoves
      <3> QED
        BY <3>1 DEF ExitPlace, GaveUp, GoesOn
    <2>2. CASE ~Wrote(Exit)
      <3>1. proc[Exit].pc = "out" /\ proc'[Exit].pc = "check" /\ proc'[Exit].back = proc[Exit].back
        BY <1>1, <1>2, <2>2, OutputMoves
      <3> QED
        BY <3>1 DEF ExitPlace, GaveUp
    <2> QED
      BY <2>1, <2>2
  <1>3. CASE CheckSize(Exit)
    BY <1>1, <1>3, CheckSizeMoves DEF ExitPlace, GaveUp
  <1>4. CASE Store(Exit)
    <2>1. CASE Fits
      <3>1. proc[Exit].pc = "store" /\ GoesOn(proc[Exit], proc'[Exit], proc[Exit].back)
        BY <1>1, <1>4, <2>1, StoreMoves
      <3> QED
        BY <3>1 DEF ExitPlace, GaveUp, GoesOn
    <2>2. CASE ~Fits
      <3>1. PICK f : f = [proc[Exit] EXCEPT !.err = "BUFFER_FULL"]
        OBVIOUS
      <3>2. f.back = proc[Exit].back /\ f.then = proc[Exit].then
        BY <1>1, <3>1, ErrField, ResultsAre
      <3>3. proc[Exit].pc = "store" /\ GoesOn(f, proc'[Exit], proc[Exit].back)
        BY <1>1, <1>4, <2>2, <3>1, StoreMoves
      <3> QED
        BY <3>2, <3>3 DEF ExitPlace, GaveUp, GoesOn
    <2> QED
      BY <2>1, <2>2
  <1>5. ASSUME NEW n, Loops(proc[Exit], proc'[Exit], n), proc[Exit].pc \in {"resend", "resendLoop"}
        PROVE  LET g == proc'[Exit] IN
               /\ ExitPlace(g) /\ g.pc \notin {"idle", "exited"}
               /\ GaveUp(g) <=> GaveUp(proc[Exit])
    <2>1. CASE n # 0
      BY <1>5, <2>1 DEF Loops, ExitPlace, GaveUp
    <2>2. CASE n = 0
      <3>1. PICK f : f = [proc[Exit] EXCEPT !.ret = "OK"]
        OBVIOUS
      <3>2. f.pc = proc[Exit].pc /\ f.back = proc[Exit].back /\ f.then = proc[Exit].then
        BY <1>1, <3>1, RetField, ResultsAre
      <3>3. GoesOn(f, proc'[Exit], proc[Exit].then)
        BY <1>5, <2>2, <3>1 DEF Loops
      <3> QED
        BY <1>5, <3>2, <3>3 DEF ExitPlace, GaveUp, GoesOn
    <2> QED
      BY <2>1, <2>2
  <1>6. CASE ResendBuffer(Exit)
    <2>1. /\ proc[Exit].pc = "resend"
          /\ Loops(proc[Exit], proc'[Exit], IF appID /\ limit.proto = 2 THEN Len(buffer) ELSE 0)
      BY <1>1, <1>6, ResendBufferMoves
    <2> QED
      BY <1>5, <2>1
  <1>7. CASE ResendEntry(Exit)
    <2>1. proc[Exit].pc = "resendLoop" /\ proc[Exit].cnt # 0
      BY <1>7 DEF ResendEntry, At
    <2>2. CASE buffer = <<>> \/ Resends
      BY <1>1, <1>5, <1>7, <2>1, <2>2, ResendEntryMoves
    <2>3. CASE ~(buffer = <<>> \/ Resends)
      <3>1. PICK f : f = [proc[Exit] EXCEPT !.ret = LogOut(handle)]
        OBVIOUS
      <3>2. f.pc = proc[Exit].pc /\ f.back = proc[Exit].back /\ f.then = proc[Exit].then
        BY <1>1, <3>1, RetField, LogOutResult
      <3>3. GoesOn(f, proc'[Exit], proc[Exit].then)
        BY <1>1, <1>7, <2>1, <2>3, <3>1, ResendEntryMoves
      <3> QED
        BY <2>1, <3>2, <3>3 DEF ExitPlace, GaveUp, GoesOn
    <2> QED
      BY <2>1, <2>2, <2>3
  <1>8. CASE SendOverflow(Exit)
    BY <1>1, <1>8, SendOverflowMoves DEF ExitPlace, GaveUp, GoesOn
  <1>9. CASE ResetOverflow(Exit)
    BY <1>1, <1>9, ResetOverflowMoves DEF ExitPlace, GaveUp, GoesOn
  <1>10. CASE SkipStore(Exit)
    BY <1>10 DEF SkipStore, Overlooked, IsLog
  <1> QED
    BY <1>2, <1>3, <1>4, <1>6, <1>7, <1>8, <1>9, <1>10 DEF Send

LEMMA ExitAttaches ==
  ASSUME Frames, ExitPlace(proc[Exit]), AttachStep(Exit)
  PROVE  LET g == proc'[Exit] IN
         /\ ExitPlace(g) /\ g.pc \notin {"idle", "exited"} /\ ~GaveUp(g)
         /\ proc[Exit].pc \in {"attach", "open", "context"}
  <1>1. Exit \in Proc /\ AfterAttach(Exit) = "exitAttached"
    BY OtherProcs, AttachPc
  <1>2. CASE Reattach(Exit)
    BY <1>1, <1>2, ReattachMoves DEF ExitPlace, GaveUp, GoesOn
  <1>3. CASE ReattachOpen(Exit)
    BY <1>1, <1>3, ReattachOpenMoves DEF ExitPlace, GaveUp, GoesOn
  <1>4. CASE ReattachContext(Exit)
    BY <1>1, <1>4, ReattachContextMoves DEF ExitPlace, GaveUp, GoesOn
  <1> QED
    BY <1>2, <1>3, <1>4 DEF AttachStep

\* The steps the atexit handler itself takes.
LEMMA ExitTurns ==
  ASSUME Typed, OtherFrames, Next
  PROVE  proc'[Exit] = proc[Exit] \/ Send(Exit) \/ AttachStep(Exit) \/ Flushing \/ Ending
  <1>1. Exit \in Proc /\ Exit # Housekeeper /\ \A t \in Threads : t # Exit
    BY OtherProcs, ThreadProcs
  <1> QED
    BY <1>1, Movers DEF Moves

\* How the handler's place changes, and when it gives up.
LEMMA ExitGoes ==
  ASSUME Typed, OtherFrames, ExitFrame, Next
  PROVE  /\ ExitPlace(proc'[Exit])
         /\ Exiting => Exiting'
         /\ Exiting' /\ ~Exiting => ExitStart
         /\ Flushed' /\ ~Flushed => \/ ExitStart /\ buffer = <<>>
                                    \/ (BlowOutTimeout \/ BlowOutEnd) /\ done'.warned = LeftOver
         /\ Flushed => Flushed'
         /\ At(Exit, "exited") => proc'[Exit] = proc[Exit]
         /\ At(Exit, "exited")' => At(Exit, "exited") \/ FreeJoined
  <1>1. Frames /\ Len(buffer) \in Nat /\ ExitPlace(proc[Exit])
    BY DEF Typed, TypeOK, Frames, ExitFrame
  <1>2. CASE proc'[Exit] = proc[Exit]
    BY <1>1, <1>2 DEF Exiting, Flushed, At
  <1>3. CASE Send(Exit)
    <2>1. (proc[Exit].pc = "resendLoop" => proc[Exit].cnt # 0) /\ proc[Exit].msg.kind # "log"
      BY OtherProcs DEF OtherFrames
    <2> QED
      BY <1>1, <1>3, <2>1, ExitSends DEF Exiting, Flushed, At
  <1>4. CASE AttachStep(Exit)
    <2>1. /\ ExitPlace(proc'[Exit]) /\ proc'[Exit].pc \notin {"idle", "exited"} /\ ~GaveUp(proc'[Exit])
          /\ proc[Exit].pc \in {"attach", "open", "context"}
      BY <1>1, <1>4, ExitAttaches
    <2>2. ~GaveUp(proc[Exit])
      BY <2>1 DEF GaveUp
    <2> QED
      BY <2>1, <2>2 DEF Exiting, Flushed, At
  <1>5. CASE Flushing
    <2> DEFINE f == proc[Exit]
               g == proc'[Exit]
    <2>1. /\ \/ f.pc = "idle" /\ g.pc = "unregister" /\ buffer = <<>> /\ done' = done
             \/ f.pc = "idle" /\ g.pc = "blowOut" /\ done' = done
             \/ /\ f.pc \in {"blowOut", "exitAttached", "exitResend", "exitResent"} /\ done' = done
                /\ \/ g.pc \in {"blowOut", "attach", "exitResend"}
                   \/ g.pc = "overflow" /\ g.then = "exitResend"
                   \/ g.pc = "resend" /\ g.then = "exitResent"
             \/ /\ f.pc \in {"blowOut", "exitResent"} /\ g.pc = "unregister"
                /\ done' = [done EXCEPT !.warned = LeftOver]
      BY <1>1, <1>5, FlushingMoves
    <2>2. f.pc = "idle" => ExitStart
      BY <1>5 DEF Flushing, BlowOut, BlowOutTimeout, BlowOutOverflow, BlowOutResend, BlowOutEnd, At
    <2>3. f.pc # "idle" /\ g.pc = "unregister" => BlowOutTimeout \/ BlowOutEnd
      <3>1. ~BlowOut \/ g.pc # "unregister"
        <4>1. ASSUME BlowOut PROVE g.pc \in {"attach", "exitResend"}
          <5>1. PICK pc : pc = IF handle = 0 THEN "attach" ELSE "exitResend"
            OBVIOUS
          <5>2. pc \in Pcs /\ Goto(Exit, proc[Exit], pc)
            BY <4>1, <5>1, PcsAre DEF BlowOut
          <5>3. GoesOn(proc[Exit], g, pc)
            BY <1>1, <5>2, OtherProcs, GotoMoves DEF Frames
          <5> QED
            BY <5>1, <5>3 DEF GoesOn
        <4> QED
          BY <4>1
      <3>2. f.pc # "idle" => ~ExitStart
        BY DEF ExitStart, Exiting, At
      <3>3. BlowOutOverflow => f.pc = "exitAttached"
        BY DEF BlowOutOverflow, At
      <3>4. BlowOutResend => f.pc = "exitResend"
        BY DEF BlowOutResend, At
      <3> QED
        BY <1>5, <2>1, <3>1, <3>2, <3>3, <3>4 DEF Flushing
    <2>4. done' = [done EXCEPT !.warned = LeftOver] => done'.warned = LeftOver
      BY DEF Typed, History
    <2>5. ExitPlace(g) /\ ~GaveUp(f) /\ g.pc \notin {"idle", "exited"} /\ f.pc # "exited"
      BY <2>1 DEF ExitPlace, GaveUp
    <2>6. GaveUp(g) => g.pc = "unregister"
      BY <2>1 DEF GaveUp
    <2> HIDE DEF f, g
    <2>7. Exiting <=> f.pc # "idle"
      BY DEF Exiting, At, f
    <2>8. Exiting' <=> g.pc # "idle"
      BY DEF Exiting, At, g
    <2>9. Flushed' /\ ~Flushed => \/ ExitStart /\ buffer = <<>>
                                  \/ (BlowOutTimeout \/ BlowOutEnd) /\ done'.warned = LeftOver
      BY <2>1, <2>2, <2>3, <2>4, <2>6 DEF Flushed, g
    <2>10. ~Flushed /\ ~At(Exit, "exited") /\ ~At(Exit, "exited")'
      BY <2>5 DEF Flushed, f, g, At
    <2> QED
      BY <2>2, <2>5, <2>7, <2>8, <2>9, <2>10 DEF g
  <1>6. CASE Ending
    <2>1. /\ proc[Exit].pc \in {"unregister", "cleared", "freeing", "free", "join"}
          /\ \/ proc'[Exit].pc \in {"cleared", "freeing", "free", "join", "exited"}
             \/ proc'[Exit].pc = "out" /\ proc'[Exit].back = "cleared"
      BY <1>1, <1>6, EndingMoves
    <2>2. GaveUp(proc[Exit]) /\ GaveUp(proc'[Exit]) /\ ExitPlace(proc'[Exit])
      BY <2>1 DEF GaveUp, ExitPlace
    <2>3. proc'[Exit].pc = "exited" => FreeJoined
      <3>1. CASE ExitUnregister
        <4>1. PICK h : h = IF appID /\ limit.proto = 1 THEN Frame("out", Unregister, "cleared", "cleared")
                           ELSE Frame("cleared", NoMsg, "cleared", "cleared")
          OBVIOUS
        <4>2. h.pc # "exited"
          BY <4>1 DEF Frame
        <4>3. proc'[Exit] = h
          BY <1>1, <3>1, <4>1, OtherProcs DEF ExitUnregister, Become, Frames
        <4> QED
          BY <4>2, <4>3
      <3>2. ASSUME NEW pc \in Pcs, Goto(Exit, proc[Exit], pc), pc \notin {"exited", "idle", "poll"}
            PROVE  proc'[Exit].pc # "exited"
        BY <1>1, <3>2, OtherProcs, GotoMoves DEF Frames, GoesOn
      <3>3. CASE ExitClear \/ FreeStart \/ FreeLock
        BY <3>2, <3>3, PcsAre DEF ExitClear, FreeStart, FreeLock
      <3> QED
        BY <1>6, <3>1, <3>3 DEF Ending
    <2> QED
      BY <2>1, <2>2, <2>3 DEF Exiting, Flushed, At
  <1> QED
    BY <1>2, <1>3, <1>4, <1>5, <1>6, ExitTurns

LEMMA ThreadsRest ==
  ASSUME Typed, OtherFrames, Next, NEW t \in Threads, At(t, "idle"), Exiting
  PROVE  proc'[t] = proc[t]
  <1>1. ~Send(t)
    BY DEF Send, Output, SkipStore, CheckSize, Store, ResendBuffer, ResendEntry, SendOverflow, ResetOverflow, At
  <1>2. ~LogStart(t) /\ ~LogOld(t) /\ ~LogEnd(t) /\ ~LogCounted(t)
    BY DEF LogStart, LogOld, LogEnd, LogCounted, MayCall, At
  <1>3. ~RegisterApp(t) /\ ~RegisterContext(t) /\ ~RegisterAppEnd(t)
    BY DEF RegisterApp, RegisterContext, RegisterAppEnd, MayCall, At
  <1> QED
    BY <1>1, <1>2, <1>3, ThreadTurns

LEMMA ExitFrameStep ==
  ASSUME Typed, OtherFrames, ExitFrame, Next
  PROVE  ExitFrame'
  <1>1. ExitPlace(proc'[Exit])
    BY ExitGoes
  <1>2. ASSUME Exiting', NEW t \in Threads PROVE proc'[t].pc = "idle"
    <2>1. CASE Exiting
      <3>1. At(t, "idle")
        BY <2>1 DEF ExitFrame
      <3>2. proc'[t] = proc[t]
        BY <2>1, <3>1, ThreadsRest
      <3> QED
        BY <3>1, <3>2 DEF At
    <2>2. CASE ~Exiting
      <3>1. ExitStart
        BY <1>2, <2>2, ExitGoes
      <3>2. Moves(Exit)
        BY <3>1, FlushingMoves DEF Flushing, Typed, Frames
      <3> QED
        BY <3>1, <3>2, ThreadProcs DEF ExitStart, At, Moves
    <2> QED
      BY <2>1, <2>2
  <1>3. (\A t \in Threads : At(t, "idle"))' <=> \A t \in Threads : proc'[t].pc = "idle"
    BY DEF At
  <1> QED
    BY <1>1, <1>2, <1>3 DEF ExitFrame, ExitPlace

--------------------------------------------------------------------------------
(* What is left at exit was reported *)

\* The entries of a sequence that got longer or lost its first entry.
LEMMA AppendEntries ==
  ASSUME NEW S, NEW s \in Seq(S), NEW m \in S
  PROVE  /\ Append(s, m) \in Seq(S) /\ Len(Append(s, m)) = Len(s) + 1
         /\ \A i \in 1 .. Len(s) : Append(s, m)[i] = s[i]
         /\ Append(s, m)[Len(s) + 1] = m
  OBVIOUS

LEMMA TailEntries ==
  ASSUME NEW S, NEW s \in Seq(S), s # <<>>
  PROVE  /\ Tail(s) \in Seq(S) /\ Len(Tail(s)) = Len(s) - 1 /\ Len(s) # 0 /\ Len(s) \in Nat
         /\ \A i \in 1 .. Len(s) - 1 : Tail(s)[i] = s[i + 1]
         /\ Head(s) = s[1] /\ Head(s) \in S
  OBVIOUS

\* How the buffer changes.
LEMMA BufferGoes ==
  ASSUME Typed, OtherFrames, Next
  PROVE  \/ buffer' = buffer
         \/ \E p \in Proc : Store(p) /\ Fits /\ buffer' = Append(buffer, proc[p].msg)
         \/ \E p \in Proc : ResendEntry(p) /\ Resends /\ buffer' = Tail(buffer)
         \/ FreeJoined /\ buffer' = <<>>
  <1>1. ASSUME NEW p \in Proc, Store(p)
        PROVE  buffer' = buffer \/ (Fits /\ buffer' = Append(buffer, proc[p].msg))
    BY <1>1 DEF Store
  <1>2. ASSUME NEW p \in Proc, ResendEntry(p)
        PROVE  buffer' = buffer \/ (Resends /\ buffer' = Tail(buffer))
    <2>1. Frames /\ proc[p].cnt # 0
      BY <1>2 DEF Typed, Frames, OtherFrames, ResendEntry, At
    <2> QED
      BY <1>2, <2>1, ResendEntryMoves
  <1>3. FreeJoined => buffer' = <<>>
    BY DEF FreeJoined
  <1> QED
    BY <1>1, <1>2, <1>3, BufferChanges

\* While the handler runs no log message comes into the buffer.
LEMMA NothingNew ==
  ASSUME Typed, OtherFrames, ExitFrame, ThreadFrames, Next, Exiting
  PROVE  LogNumbers(buffer') \subseteq LogNumbers(buffer)
  <1>1. buffer \in Seq(Message)
    BY DEF Typed, TypeOK
  <1>2. ASSUME NEW p \in Proc, Store(p), Fits, buffer' = Append(buffer, proc[p].msg)
        PROVE  LogNumbers(buffer') \subseteq LogNumbers(buffer)
    <2>1. p \notin Threads
      BY <1>2 DEF ExitFrame, Store, At
    <2>2. proc[p].msg.kind # "log" /\ proc[p].msg \in Message
      BY <2>1 DEF Proc, OtherFrames, Typed, TypeOK
    <2>3. PICK m : m = proc[p].msg
      OBVIOUS
    <2>4. /\ Append(buffer, m) \in Seq(Message) /\ Len(Append(buffer, m)) = Len(buffer) + 1
          /\ \A i \in 1 .. Len(buffer) : Append(buffer, m)[i] = buffer[i]
          /\ Append(buffer, m)[Len(buffer) + 1] = m
      BY <1>1, <2>2, <2>3, AppendEntries
    <2>5. ASSUME NEW n \in LogNumbers(Append(buffer, m)) PROVE n \in LogNumbers(buffer)
      <3>5. PICK s \in Seq(Message) : s = Append(buffer, m)
        BY <2>4
      <3>6. \E i \in 1 .. Len(s) : s[i].kind = "log" /\ s[i].n = n
        BY <2>5, <3>5, LogNumbersType, Zenon
      <3>1. PICK i \in 1 .. Len(buffer) + 1 : Append(buffer, m)[i].kind = "log" /\ Append(buffer, m)[i].n = n
        BY <2>4, <3>5, <3>6
      <3>2. i # Len(buffer) + 1
        BY <2>2, <2>3, <2>4, <3>1
      <3>3. i \in 1 .. Len(buffer)
        BY <1>1, <3>2
      <3>4. buffer[i].kind = "log" /\ buffer[i].n = n
        BY <2>4, <3>1, <3>3
      <3> QED
        BY <1>1, <3>3, <3>4, LogNumbersType, Zenon
    <2> QED
      BY <1>2, <2>3, <2>5
  <1>3. ASSUME buffer # <<>>, buffer' = Tail(buffer)
        PROVE  LogNumbers(buffer') \subseteq LogNumbers(buffer)
    <2>1. /\ Tail(buffer) \in Seq(Message) /\ Len(Tail(buffer)) = Len(buffer) - 1
          /\ \A i \in 1 .. Len(buffer) - 1 : Tail(buffer)[i] = buffer[i + 1]
      BY <1>1, <1>3, TailEntries
    <2>2. ASSUME NEW n \in LogNumbers(Tail(buffer)) PROVE n \in LogNumbers(buffer)
      <3>5. PICK s \in Seq(Message) : s = Tail(buffer)
        BY <2>1
      <3>6. \E i \in 1 .. Len(s) : s[i].kind = "log" /\ s[i].n = n
        BY <2>2, <3>5, LogNumbersType, Zenon
      <3>1. PICK i \in 1 .. Len(buffer) - 1 : Tail(buffer)[i].kind = "log" /\ Tail(buffer)[i].n = n
        BY <2>1, <3>5, <3>6
      <3>2. i + 1 \in 1 .. Len(buffer)
        BY <1>1
      <3>3. buffer[i + 1].kind = "log" /\ buffer[i + 1].n = n
        BY <2>1, <3>1
      <3>4. \E j \in 1 .. Len(buffer) : buffer[j].kind = "log" /\ buffer[j].n = n
        BY <3>2, <3>3, Zenon
      <3> QED
        BY <1>1, <3>4, LogNumbersType, Zenon
    <2> QED
      BY <1>3, <2>2
  <1>4. LogNumbers(<<>>) = {}
    BY DEF LogNumbers
  <1> QED
    BY <1>2, <1>3, <1>4, BufferGoes DEF Resends

LEMMA WarnedStep ==
  ASSUME Typed, OtherFrames, ExitFrame, ThreadFrames, Warned, Next
  PROVE  Warned'
  <1>1. Flushed => Exiting
    BY DEF Flushed, GaveUp, Exiting, At
  <1>2. (BlowOutTimeout \/ BlowOutEnd) => ~Flushed /\ ~At(Exit, "exited") /\ buffer' = buffer
    BY DEF BlowOutTimeout, BlowOutEnd, Flushed, GaveUp, At, libVars
  <1>3. FreeJoined => Flushed /\ ~At(Exit, "exited")
    BY DEF FreeJoined, Flushed, GaveUp, At
  <1>4. done'.warned = done.warned \/ BlowOutTimeout \/ BlowOutEnd
    BY DoneChanges, DoneQuiet, DoneLogStart, DoneLogCounted, DoneAttached, DoneFreed DEF Unlogged
  <1>5. done'.lost = done.lost \/ FreeJoined
    BY DoneChanges, DoneQuiet, DoneLogStart, DoneLogCounted, DoneAttached, DoneWarned DEF Unlogged
  <1>6. Flushed' /\ LogNumbers(buffer') # {} => done'.warned
    <2>1. CASE Flushed
      <3>1. LogNumbers(buffer') \subseteq LogNumbers(buffer)
        BY <1>1, <2>1, NothingNew
      <3>2. done'.warned = done.warned
        BY <1>2, <1>4, <2>1
      <3> QED
        BY <2>1, <3>1, <3>2 DEF Warned
    <2>2. CASE ~Flushed /\ Flushed'
      <3>1. LogNumbers(<<>>) = {}
        BY DEF LogNumbers
      <3>2. CASE ExitStart /\ buffer = <<>>
        <4>1. buffer' = <<>>
          BY <3>2 DEF ExitStart, libVars
        <4> QED
          BY <3>1, <4>1
      <3>3. CASE (BlowOutTimeout \/ BlowOutEnd) /\ done'.warned = LeftOver
        BY <1>2, <3>1, <3>3 DEF LeftOver
      <3> QED
        BY <2>2, <3>2, <3>3, ExitGoes
    <2> QED
      BY <2>1, <2>2
  <1>7. done'.lost # {} => done'.warned
    <2>1. CASE FreeJoined
      BY <1>3, <2>1, DoneFreed DEF Warned
    <2>2. CASE ~FreeJoined
      <3>1. CASE BlowOutTimeout \/ BlowOutEnd
        BY <1>2, <1>5, <2>2, <3>1 DEF Warned
      <3>2. CASE ~(BlowOutTimeout \/ BlowOutEnd)
        BY <1>4, <1>5, <2>2, <3>2 DEF Warned
      <3> QED
        BY <3>1, <3>2
    <2> QED
      BY <2>1, <2>2
  <1>8. ~At(Exit, "exited")' => done'.lost = {}
    <2>1. ASSUME ~At(Exit, "exited")' PROVE ~At(Exit, "exited") /\ ~FreeJoined
      <3>1. FreeJoined => At(Exit, "exited")'
        BY EndingMoves DEF Ending, Typed, Frames, At
      <3>2. At(Exit, "exited") => At(Exit, "exited")'
        BY ExitGoes DEF At
      <3> QED
        BY <2>1, <3>1, <3>2
    <2> QED
      BY <1>5, <2>1 DEF Warned
  <1> QED
    BY <1>6, <1>7, <1>8 DEF Warned

--------------------------------------------------------------------------------
(* How the boxes change *)

\* m comes into box d; the first entry of the buffer goes to box d; the buffer is emptied.
Adds(h, k, d, m) == k[d] = Append(h[d], m) /\ \A e \in Boxes : e # d => k[e] = h[e]
Passes(h, k, d) == /\ h[0] # <<>> /\ k[0] = Tail(h[0]) /\ k[d] = Append(h[d], Head(h[0]))
                   /\ \A e \in Boxes : e # d /\ e # 0 => k[e] = h[e]
Clears(h, k) == k[0] = <<>> /\ \A e \in Boxes : e # 0 => k[e] = h[e]

\* p puts its message into box d.
Took(p, d) == \/ Output(p) /\ Wrote(p) /\ d = handle
              \/ Store(p) /\ Fits /\ d = 0

LEMMA BoxesAre == 0 \in Boxes /\ \A d \in Boxes : d # 0 => d \in 1 .. MaxDaemons
  BY ConstAssumption DEF Boxes

LEMMA HeldIs ==
  ASSUME Typed
  PROVE  /\ held \in [Boxes -> Seq(Message)] /\ held[0] = buffer
         /\ \A d \in Boxes : d # 0 => held[d] = received[d]
  <1>1. buffer \in Seq(Message) /\ \A d \in Boxes : d # 0 => received[d] \in Seq(Message)
    BY BoxesAre DEF Typed, TypeOK
  <1> QED
    BY <1>1, BoxesAre DEF held, Held

LEMMA HeldNext ==
  ASSUME Typed'
  PROVE  /\ held' \in [Boxes -> Seq(Message)] /\ held'[0] = buffer'
         /\ \A d \in Boxes : d # 0 => held'[d] = received'[d]
  <1>1. buffer' \in Seq(Message) /\ \A d \in Boxes : d # 0 => received'[d] \in Seq(Message)
    BY BoxesAre DEF Typed, TypeOK
  <1> QED
    BY <1>1, BoxesAre DEF held, Held, Boxes

LEMMA BufferKept ==
  ASSUME NEW p \in Proc, Output(p) \/ SendOverflow(p)
  PROVE  buffer' = buffer
  BY DEF Output, SendOverflow, libVars

LEMMA TookAdds ==
  ASSUME Typed, OtherFrames, Next, NEW p \in Proc, NEW d \in Boxes, Took(p, d)
  PROVE  Adds(held, held', d, proc[p].msg)
  <1>1. Typed'
    BY TypedStep
  <1>2. /\ held \in [Boxes -> Seq(Message)] /\ held[0] = buffer
        /\ \A e \in Boxes : e # 0 => held[e] = received[e]
    BY HeldIs
  <1>3. /\ held' \in [Boxes -> Seq(Message)] /\ held'[0] = buffer'
        /\ \A e \in Boxes : e # 0 => held'[e] = received'[e]
    BY <1>1, HeldNext
  <1>4. handle \in Boxes /\ Frames
    BY DEF Typed, TypeOK, Boxes, Frames
  <1>5. received \in [1 .. MaxDaemons -> Seq(Message)]
    BY DEF Typed, TypeOK
  <1>6. LogOut(handle) = "OK" => handle # 0
    BY LogOutResult
  <1>7. ASSUME NEW m, handle # 0, buffer' = buffer,
               received' = [received EXCEPT ![handle] = Append(received[handle], m)]
        PROVE  Adds(held, held', handle, m)
    <2>1. received'[handle] = Append(received[handle], m)
      BY <1>4, <1>5, <1>7, BoxesAre
    <2>2. \A e \in 1 .. MaxDaemons : e # handle => received'[e] = received[e]
      BY <1>5, <1>7
    <2> QED
      BY <1>2, <1>3, <1>4, <1>7, <2>1, <2>2, BoxesAre DEF Adds
  <1>8. ASSUME Output(p), Wrote(p)
        PROVE  Adds(held, held', handle, proc[p].msg)
    BY <1>4, <1>6, <1>7, <1>8, OutputMoves, BufferKept DEF Wrote
  <1>9. ASSUME Store(p), Fits
        PROVE  Adds(held, held', 0, proc[p].msg)
    <2>1. buffer' = Append(buffer, proc[p].msg) /\ received' = received
      BY <1>9 DEF Store
    <2> QED
      BY <1>2, <1>3, <1>9, <2>1, BoxesAre DEF Adds
  <1> QED
    BY <1>8, <1>9 DEF Took

LEMMA HeldGoes ==
  ASSUME Typed, OtherFrames, Next
  PROVE  \/ held' = held
         \/ \E p \in Proc, d \in Boxes : Took(p, d) /\ Adds(held, held', d, proc[p].msg)
         \/ \E m \in Message : m.kind = "overflow" /\ handle \in Boxes /\ handle # 0 /\ Adds(held, held', handle, m)
         \/ (\E p \in Proc : ResendEntry(p)) /\ Resends /\ handle \in Boxes /\ handle # 0 /\ Passes(held, held', handle)
         \/ FreeJoined /\ Clears(held, held')
  <1>1. Typed'
    BY TypedStep
  <1>2. /\ held \in [Boxes -> Seq(Message)] /\ held[0] = buffer
        /\ \A d \in Boxes : d # 0 => held[d] = received[d]
    BY HeldIs
  <1>3. /\ held' \in [Boxes -> Seq(Message)] /\ held'[0] = buffer'
        /\ \A d \in Boxes : d # 0 => held'[d] = received'[d]
    BY <1>1, HeldNext
  <1>4. handle \in Boxes /\ Frames
    BY DEF Typed, TypeOK, Boxes, Frames
  <1>5. received \in [1 .. MaxDaemons -> Seq(Message)]
    BY DEF Typed, TypeOK
  <1>6. LogOut(handle) = "OK" => handle # 0
    BY LogOutResult
  <1>7. ASSUME NEW m, handle # 0, buffer' = buffer,
               received' = [received EXCEPT ![handle] = Append(received[handle], m)]
        PROVE  Adds(held, held', handle, m)
    <2>1. received'[handle] = Append(received[handle], m)
      BY <1>4, <1>5, <1>7, BoxesAre
    <2>2. \A e \in 1 .. MaxDaemons : e # handle => received'[e] = received[e]
      BY <1>5, <1>7
    <2> QED
      BY <1>2, <1>3, <1>4, <1>7, <2>1, <2>2, BoxesAre DEF Adds
  <1>8. ASSUME NEW p \in Proc, Output(p), Wrote(p)
        PROVE  Took(p, handle) /\ Adds(held, held', handle, proc[p].msg)
    BY <1>4, <1>8, TookAdds DEF Took
  <1>9. ASSUME NEW p \in Proc, Store(p), Fits
        PROVE  Took(p, 0) /\ Adds(held, held', 0, proc[p].msg)
    BY <1>9, TookAdds, BoxesAre DEF Took
  <1>10. ASSUME NEW p \in Proc, SendOverflow(p), Reports
         PROVE  \E m \in Message : m.kind = "overflow" /\ handle # 0 /\ Adds(held, held', handle, m)
    <2>1. PICK m : m = OverflowReport(overflow_counter)
      OBVIOUS
    <2>2. m \in Message /\ m.kind = "overflow"
      BY <2>1 DEF Typed, TypeOK, OverflowReport, Msg, Message
    <2>3. received' = [received EXCEPT ![handle] = Append(received[handle], m)] /\ buffer' = buffer
      BY <1>4, <1>10, <2>1, SendOverflowMoves, BufferKept
    <2> QED
      BY <1>6, <1>7, <1>10, <2>2, <2>3 DEF Reports
  <1>11. ASSUME NEW p \in Proc, ResendEntry(p), Resends
         PROVE  handle # 0 /\ Passes(held, held', handle)
    <2>1. proc[p].cnt # 0
      BY <1>11 DEF OtherFrames, ResendEntry, At
    <2>2. /\ buffer' = Tail(buffer)
          /\ received' = [received EXCEPT ![handle] = Append(received[handle], Head(buffer))]
      BY <1>4, <1>11, <2>1, ResendEntryMoves
    <2>3. handle # 0 /\ buffer # <<>>
      BY <1>6, <1>11 DEF Resends
    <2>4. received'[handle] = Append(received[handle], Head(buffer))
      BY <1>4, <1>5, <2>2, <2>3, BoxesAre
    <2>5. \A e \in 1 .. MaxDaemons : e # handle => received'[e] = received[e]
      BY <1>5, <2>2
    <2> QED
      BY <1>2, <1>3, <1>4, <2>2, <2>3, <2>4, <2>5, BoxesAre DEF Passes
  <1>12. CASE FreeJoined
    <2>1. buffer' = <<>> /\ received' = received
      BY <1>12 DEF FreeJoined
    <2> QED
      BY <1>2, <1>3, <1>12, <2>1, BoxesAre DEF Clears
  <1>13. ASSUME buffer' = buffer, received' = received PROVE held' = held
    <2>1. \A d \in Boxes : held'[d] = held[d]
      BY <1>2, <1>3, <1>13
    <2> QED
      BY <1>2, <1>3, <2>1
  <1>14. ASSUME NEW p \in Proc, Output(p), ~Wrote(p) PROVE buffer' = buffer /\ received' = received
    BY <1>4, <1>14, OutputMoves, BufferKept
  <1>15. ASSUME NEW p \in Proc, Store(p), ~Fits PROVE buffer' = buffer /\ received' = received
    BY <1>15 DEF Store
  <1>16. ASSUME NEW p \in Proc, SendOverflow(p), ~Reports PROVE buffer' = buffer /\ received' = received
    BY <1>4, <1>16, SendOverflowMoves, BufferKept
  <1>17. ASSUME NEW p \in Proc, ResendEntry(p), ~Resends PROVE buffer' = buffer /\ received' = received
    <2>1. proc[p].cnt # 0
      BY <1>17 DEF OtherFrames, ResendEntry, At
    <2> QED
      BY <1>4, <1>17, <2>1, ResendEntryMoves
  <1>18. \/ buffer' = buffer /\ received' = received
         \/ (\E p \in Proc : Output(p) \/ Store(p) \/ SendOverflow(p) \/ ResendEntry(p))
         \/ FreeJoined
    BY BufferChanges, ReceivedChanges
  <1>19. CASE \E p \in Proc : Output(p) \/ Store(p) \/ SendOverflow(p) \/ ResendEntry(p)
    <2>1. PICK p \in Proc : Output(p) \/ Store(p) \/ SendOverflow(p) \/ ResendEntry(p)
      BY <1>19
    <2>2. CASE Output(p)
      BY <1>4, <1>8, <1>13, <1>14, <2>2
    <2>3. CASE Store(p)
      BY <1>9, <1>13, <1>15, <2>3, BoxesAre
    <2>4. CASE SendOverflow(p)
      BY <1>4, <1>10, <1>13, <1>16, <2>4
    <2>5. CASE ResendEntry(p)
      BY <1>4, <1>11, <1>13, <1>17, <2>5
    <2> QED
      BY <2>1, <2>2, <2>3, <2>4, <2>5
  <1> QED
    BY <1>12, <1>13, <1>18, <1>19

\* Where the entries of the boxes come from.
AddedEntries(h, k, d, m) ==
  /\ \A e \in Boxes : \A i \in 1 .. Len(k[e]) :
       \/ i \in 1 .. Len(h[e]) /\ k[e][i] = h[e][i]
       \/ e = d /\ i = Len(h[d]) + 1 /\ k[e][i] = m
  /\ \A e \in Boxes : \A i \in 1 .. Len(h[e]) : i \in 1 .. Len(k[e]) /\ k[e][i] = h[e][i]
  /\ Len(h[d]) + 1 \in 1 .. Len(k[d]) /\ k[d][Len(h[d]) + 1] = m
PassedEntries(h, k, d) ==
  /\ \A e \in Boxes : \A i \in 1 .. Len(k[e]) :
       \/ e # 0 /\ i \in 1 .. Len(h[e]) /\ k[e][i] = h[e][i]
       \/ e = 0 /\ i + 1 \in 1 .. Len(h[0]) /\ k[e][i] = h[0][i + 1]
       \/ e = d /\ i = Len(h[d]) + 1 /\ k[e][i] = h[0][1] /\ 1 \in 1 .. Len(h[0])
  /\ \A e \in Boxes : \A i \in 1 .. Len(h[e]) :
       \/ e # 0 /\ i \in 1 .. Len(k[e]) /\ k[e][i] = h[e][i]
       \/ e = 0 /\ i - 1 \in 1 .. Len(k[0]) /\ k[0][i - 1] = h[e][i]
       \/ e = 0 /\ Len(h[d]) + 1 \in 1 .. Len(k[d]) /\ k[d][Len(h[d]) + 1] = h[e][i]
ClearedEntries(h, k) ==
  /\ \A e \in Boxes : \A i \in 1 .. Len(k[e]) : e # 0 /\ i \in 1 .. Len(h[e]) /\ k[e][i] = h[e][i]
  /\ \A e \in Boxes : \A i \in 1 .. Len(h[e]) : e # 0 => i \in 1 .. Len(k[e]) /\ k[e][i] = h[e][i]

LEMMA EntriesAdded ==
  ASSUME NEW h \in [Boxes -> Seq(Message)], NEW k \in [Boxes -> Seq(Message)], NEW d \in Boxes, NEW m \in Message,
         Adds(h, k, d, m)
  PROVE  AddedEntries(h, k, d, m)
  <1>1. h[d] \in Seq(Message)
    OBVIOUS
  <1>2. /\ Len(k[d]) = Len(h[d]) + 1 /\ Len(h[d]) \in Nat
        /\ \A i \in 1 .. Len(h[d]) : k[d][i] = h[d][i]
        /\ k[d][Len(h[d]) + 1] = m
    <2>1. PICK s \in Seq(Message) : s = h[d]
      BY <1>1
    <2> QED
      BY <2>1, AppendEntries DEF Adds
  <1>3. \A e \in Boxes : e # d => k[e] = h[e]
    BY DEF Adds
  <1>4. \A e \in Boxes : Len(h[e]) \in Nat
    OBVIOUS
  <1>5. ASSUME NEW e \in Boxes, NEW i \in 1 .. Len(k[e])
        PROVE  \/ i \in 1 .. Len(h[e]) /\ k[e][i] = h[e][i]
               \/ e = d /\ i = Len(h[d]) + 1 /\ k[e][i] = m
    <2>1. CASE e = d
      <3>1. i \in 1 .. Len(h[d]) \/ i = Len(h[d]) + 1
        BY <1>2, <1>5, <2>1
      <3> QED
        BY <1>2, <2>1, <3>1
    <2>2. CASE e # d
      BY <1>3, <1>5, <2>2
    <2> QED
      BY <2>1, <2>2
  <1>6. ASSUME NEW e \in Boxes, NEW i \in 1 .. Len(h[e])
        PROVE  i \in 1 .. Len(k[e]) /\ k[e][i] = h[e][i]
    BY <1>2, <1>3, <1>6
  <1> QED
    BY <1>2, <1>5, <1>6 DEF AddedEntries

LEMMA EntriesPassed ==
  ASSUME NEW h \in [Boxes -> Seq(Message)], NEW k \in [Boxes -> Seq(Message)], NEW d \in Boxes, d # 0,
         Passes(h, k, d)
  PROVE  PassedEntries(h, k, d)
  <1>1. 0 \in Boxes
    BY BoxesAre
  <1>2. PICK b \in Seq(Message) : b = h[0]
    BY <1>1
  <1>3. b # <<>> /\ k[0] = Tail(b) /\ k[d] = Append(h[d], Head(b)) /\ \A e \in Boxes : e # d /\ e # 0 => k[e] = h[e]
    BY <1>2 DEF Passes
  <1>4. /\ Len(k[0]) = Len(b) - 1 /\ Len(b) # 0 /\ Len(b) \in Nat
        /\ \A i \in 1 .. Len(b) - 1 : k[0][i] = b[i + 1]
        /\ Head(b) = b[1] /\ Head(b) \in Message
    BY <1>3, TailEntries
  <1>5. PICK r \in Seq(Message) : r = h[d]
    OBVIOUS
  <1>6. /\ Len(k[d]) = Len(r) + 1 /\ Len(r) \in Nat
        /\ \A i \in 1 .. Len(r) : k[d][i] = r[i]
        /\ k[d][Len(r) + 1] = b[1]
    BY <1>3, <1>4, <1>5, AppendEntries
  <1>7. ASSUME NEW e \in Boxes, NEW i \in 1 .. Len(k[e])
        PROVE \/ e # 0 /\ i \in 1 .. Len(h[e]) /\ k[e][i] = h[e][i]
              \/ e = 0 /\ i + 1 \in 1 .. Len(b) /\ k[e][i] = b[i + 1]
              \/ e = d /\ i = Len(h[d]) + 1 /\ k[e][i] = b[1] /\ 1 \in 1 .. Len(b)
    <2>1. CASE e = 0
      BY <1>4, <1>7, <2>1
    <2>2. CASE e = d
      <3>1. i \in 1 .. Len(r) \/ i = Len(r) + 1
        BY <1>6, <1>7, <2>2
      <3> QED
        BY <1>4, <1>5, <1>6, <2>2, <3>1
    <2>3. CASE e # 0 /\ e # d
      BY <1>3, <1>7, <2>3
    <2> QED
      BY <2>1, <2>2, <2>3
  <1>8. ASSUME NEW e \in Boxes, NEW i \in 1 .. Len(h[e])
        PROVE \/ e # 0 /\ i \in 1 .. Len(k[e]) /\ k[e][i] = h[e][i]
              \/ e = 0 /\ i - 1 \in 1 .. Len(k[0]) /\ k[0][i - 1] = h[e][i]
              \/ e = 0 /\ Len(h[d]) + 1 \in 1 .. Len(k[d]) /\ k[d][Len(h[d]) + 1] = h[e][i]
    <2>1. CASE e = 0
      <3>1. i = 1 \/ i - 1 \in 1 .. Len(b) - 1
        BY <1>2, <1>4, <1>8, <2>1
      <3>2. CASE i = 1
        BY <1>2, <1>5, <1>6, <2>1, <3>2
      <3>3. CASE i - 1 \in 1 .. Len(b) - 1
        <4>1. k[0][i - 1] = b[(i - 1) + 1]
          BY <1>4, <3>3
        <4>2. (i - 1) + 1 = i
          BY <3>3
        <4> QED
          BY <1>2, <1>4, <2>1, <3>3, <4>1, <4>2
      <3> QED
        BY <3>1, <3>2, <3>3
    <2>2. CASE e = d
      BY <1>5, <1>6, <1>8, <2>2
    <2>3. CASE e # 0 /\ e # d
      BY <1>3, <1>8, <2>3
    <2> QED
      BY <2>1, <2>2, <2>3
  <1> QED
    BY <1>2, <1>7, <1>8 DEF PassedEntries

LEMMA EntriesCleared ==
  ASSUME NEW h \in [Boxes -> Seq(Message)], NEW k \in [Boxes -> Seq(Message)], Clears(h, k)
  PROVE  ClearedEntries(h, k)
  <1>1. k[0] = <<>> /\ \A e \in Boxes : e # 0 => k[e] = h[e]
    BY DEF Clears
  <1>2. 1 .. Len(<<>>) = {}
    OBVIOUS
  <1> QED
    BY <1>1, <1>2 DEF ClearedEntries

--------------------------------------------------------------------------------
(* A message is in one place *)

LEMMA SamePlace ==
  ASSUME NEW h, Distinct(h), NEW x \in Boxes, NEW z \in Boxes, NEW v \in 1 .. Len(h[x]), NEW w \in 1 .. Len(h[z]),
         h[x][v].kind = "log", h[z][w].kind = "log", h[x][v].n = h[z][w].n
  PROVE  x = z /\ v = w
  BY Zenon DEF Distinct

LEMMA AddedIn ==
  ASSUME NEW h \in [Boxes -> Seq(Message)], NEW k \in [Boxes -> Seq(Message)], NEW d \in Boxes, NEW m \in Message,
         Adds(h, k, d, m)
  PROVE  \A n : In(k, n) <=> (In(h, n) \/ (m.kind = "log" /\ m.n = n))
  <1>0. AddedEntries(h, k, d, m)
    BY EntriesAdded
  <1>1. ASSUME NEW n, In(k, n) PROVE In(h, n) \/ (m.kind = "log" /\ m.n = n)
    <2>1. PICK e \in Boxes : \E i \in 1 .. Len(k[e]) : k[e][i].kind = "log" /\ k[e][i].n = n
      BY <1>1 DEF In
    <2>2. PICK i \in 1 .. Len(k[e]) : k[e][i].kind = "log" /\ k[e][i].n = n
      BY <2>1
    <2>3. (i \in 1 .. Len(h[e]) /\ k[e][i] = h[e][i]) \/ k[e][i] = m
      BY <1>0 DEF AddedEntries
    <2> QED
      BY <2>2, <2>3, Zenon DEF In
  <1>2. ASSUME NEW n, In(h, n) PROVE In(k, n)
    <2>1. PICK e \in Boxes : \E i \in 1 .. Len(h[e]) : h[e][i].kind = "log" /\ h[e][i].n = n
      BY <1>2 DEF In
    <2>2. PICK i \in 1 .. Len(h[e]) : h[e][i].kind = "log" /\ h[e][i].n = n
      BY <2>1
    <2>3. i \in 1 .. Len(k[e]) /\ k[e][i] = h[e][i]
      BY <1>0 DEF AddedEntries
    <2> QED
      BY <2>2, <2>3, Zenon DEF In
  <1>3. m.kind = "log" => In(k, m.n)
    <2>1. PICK i \in 1 .. Len(k[d]) : k[d][i] = m
      BY <1>0 DEF AddedEntries
    <2> QED
      BY <2>1, Zenon DEF In
  <1> QED
    BY <1>1, <1>2, <1>3

LEMMA AddedDistinct ==
  ASSUME NEW h \in [Boxes -> Seq(Message)], NEW k \in [Boxes -> Seq(Message)], NEW d \in Boxes, NEW m \in Message,
         Adds(h, k, d, m), Distinct(h), m.kind = "log" => ~In(h, m.n)
  PROVE  Distinct(k)
  <1> SUFFICES ASSUME NEW c \in Boxes, NEW e \in Boxes, NEW i \in 1 .. Len(k[c]), NEW j \in 1 .. Len(k[e]),
                      k[c][i].kind = "log", k[e][j].kind = "log", k[c][i].n = k[e][j].n
               PROVE  c = e /\ i = j
    BY DEF Distinct
  <1>0. AddedEntries(h, k, d, m)
    BY EntriesAdded
  <1>1. \/ i \in 1 .. Len(h[c]) /\ k[c][i] = h[c][i]
        \/ c = d /\ i = Len(h[d]) + 1 /\ k[c][i] = m
    BY <1>0 DEF AddedEntries
  <1>2. \/ j \in 1 .. Len(h[e]) /\ k[e][j] = h[e][j]
        \/ e = d /\ j = Len(h[d]) + 1 /\ k[e][j] = m
    BY <1>0 DEF AddedEntries
  <1>3. CASE i \in 1 .. Len(h[c]) /\ k[c][i] = h[c][i] /\ j \in 1 .. Len(h[e]) /\ k[e][j] = h[e][j]
    <2>1. h[c][i].kind = "log" /\ h[e][j].kind = "log" /\ h[c][i].n = h[e][j].n
      BY <1>3
    <2> QED
      BY <1>3, <2>1, Zenon DEF Distinct
  <1>4. CASE i \in 1 .. Len(h[c]) /\ k[c][i] = h[c][i] /\ k[e][j] = m
    BY <1>4, Zenon DEF In
  <1>5. CASE j \in 1 .. Len(h[e]) /\ k[e][j] = h[e][j] /\ k[c][i] = m
    BY <1>5, Zenon DEF In
  <1> QED
    BY <1>1, <1>2, <1>3, <1>4, <1>5

LEMMA PassedIn ==
  ASSUME NEW h \in [Boxes -> Seq(Message)], NEW k \in [Boxes -> Seq(Message)], NEW d \in Boxes, d # 0,
         Passes(h, k, d)
  PROVE  \A n : In(k, n) <=> In(h, n)
  <1>0. 0 \in Boxes
    BY BoxesAre
  <1>9. PassedEntries(h, k, d)
    BY EntriesPassed
  <1>1. ASSUME NEW n, In(k, n) PROVE In(h, n)
    <2>1. PICK e \in Boxes : \E i \in 1 .. Len(k[e]) : k[e][i].kind = "log" /\ k[e][i].n = n
      BY <1>1 DEF In
    <2>2. PICK i \in 1 .. Len(k[e]) : k[e][i].kind = "log" /\ k[e][i].n = n
      BY <2>1
    <2>3. \/ e # 0 /\ i \in 1 .. Len(h[e]) /\ k[e][i] = h[e][i]
          \/ e = 0 /\ i + 1 \in 1 .. Len(h[0]) /\ k[e][i] = h[0][i + 1]
          \/ e = d /\ i = Len(h[d]) + 1 /\ k[e][i] = h[0][1] /\ 1 \in 1 .. Len(h[0])
      BY <1>9 DEF PassedEntries
    <2> QED
      BY <1>0, <2>2, <2>3, Zenon DEF In
  <1>2. ASSUME NEW n, In(h, n) PROVE In(k, n)
    <2>1. PICK e \in Boxes : \E i \in 1 .. Len(h[e]) : h[e][i].kind = "log" /\ h[e][i].n = n
      BY <1>2 DEF In
    <2>2. PICK i \in 1 .. Len(h[e]) : h[e][i].kind = "log" /\ h[e][i].n = n
      BY <2>1
    <2>3. \/ e # 0 /\ i \in 1 .. Len(k[e]) /\ k[e][i] = h[e][i]
          \/ e = 0 /\ i - 1 \in 1 .. Len(k[0]) /\ k[0][i - 1] = h[e][i]
          \/ e = 0 /\ Len(h[d]) + 1 \in 1 .. Len(k[d]) /\ k[d][Len(h[d]) + 1] = h[e][i]
      BY <1>9 DEF PassedEntries
    <2> QED
      BY <1>0, <2>2, <2>3, Zenon DEF In
  <1> QED
    BY <1>1, <1>2

LEMMA PassedDistinct ==
  ASSUME NEW h \in [Boxes -> Seq(Message)], NEW k \in [Boxes -> Seq(Message)], NEW d \in Boxes, d # 0,
         Passes(h, k, d), Distinct(h)
  PROVE  Distinct(k)
  <1> SUFFICES ASSUME NEW c \in Boxes, NEW e \in Boxes, NEW i \in 1 .. Len(k[c]), NEW j \in 1 .. Len(k[e]),
                      k[c][i].kind = "log", k[e][j].kind = "log", k[c][i].n = k[e][j].n
               PROVE  c = e /\ i = j
    BY DEF Distinct
  <1>0. 0 \in Boxes
    BY BoxesAre
  <1>13. PassedEntries(h, k, d)
    BY EntriesPassed
  <1> DEFINE Stays(x, y) == x # 0 /\ y \in 1 .. Len(h[x]) /\ k[x][y] = h[x][y]
             Nears(x, y) == x = 0 /\ y + 1 \in 1 .. Len(h[0]) /\ k[x][y] = h[0][y + 1]
             Leaves(x, y) == x = d /\ y = Len(h[d]) + 1 /\ k[x][y] = h[0][1] /\ 1 \in 1 .. Len(h[0])
  <1>1. Stays(c, i) \/ Nears(c, i) \/ Leaves(c, i)
    BY <1>13 DEF PassedEntries
  <1>2. Stays(e, j) \/ Nears(e, j) \/ Leaves(e, j)
    BY <1>13 DEF PassedEntries
  <1>3. CASE Stays(c, i) /\ Stays(e, j)
    <2>1. i \in 1 .. Len(h[c]) /\ j \in 1 .. Len(h[e]) /\ k[c][i] = h[c][i] /\ k[e][j] = h[e][j]
      BY <1>3
    <2>2. h[c][i].kind = "log" /\ h[e][j].kind = "log" /\ h[c][i].n = h[e][j].n
      BY <2>1
    <2>3. \A q \in 1 .. Len(h[c]), s \in 1 .. Len(h[e]) :
            h[c][q].kind = "log" /\ h[e][s].kind = "log" /\ h[c][q].n = h[e][s].n => c = e /\ q = s
      BY <1>0 DEF Distinct
    <2>4. c = e /\ i = j
      BY <2>1, <2>2, <2>3, Zenon
    <2> QED
      BY <1>3, <2>4
  <1>4. CASE Stays(c, i) /\ Nears(e, j)
    <2>1. i \in 1 .. Len(h[c]) /\ j + 1 \in 1 .. Len(h[0]) /\ k[c][i] = h[c][i] /\ k[e][j] = h[0][j + 1]
      BY <1>4
    <2>2. h[c][i].kind = "log" /\ h[0][j + 1].kind = "log" /\ h[c][i].n = h[0][j + 1].n
      BY <2>1
    <2>3. \A q \in 1 .. Len(h[c]), s \in 1 .. Len(h[0]) :
            h[c][q].kind = "log" /\ h[0][s].kind = "log" /\ h[c][q].n = h[0][s].n => c = 0 /\ q = s
      BY <1>0 DEF Distinct
    <2>4. c = 0 /\ i = j + 1
      BY <2>1, <2>2, <2>3, Zenon
    <2> QED
      BY <1>4, <2>4
  <1>5. CASE Stays(c, i) /\ Leaves(e, j)
    <2>1. i \in 1 .. Len(h[c]) /\ 1 \in 1 .. Len(h[0]) /\ k[c][i] = h[c][i] /\ k[e][j] = h[0][1]
      BY <1>5
    <2>2. h[c][i].kind = "log" /\ h[0][1].kind = "log" /\ h[c][i].n = h[0][1].n
      BY <2>1
    <2>3. \A q \in 1 .. Len(h[c]), s \in 1 .. Len(h[0]) :
            h[c][q].kind = "log" /\ h[0][s].kind = "log" /\ h[c][q].n = h[0][s].n => c = 0 /\ q = s
      BY <1>0 DEF Distinct
    <2>4. c = 0 /\ i = 1
      BY <2>1, <2>2, <2>3, Zenon
    <2> QED
      BY <1>5, <2>4
  <1>6. CASE Nears(c, i) /\ Stays(e, j)
    <2>1. i + 1 \in 1 .. Len(h[0]) /\ j \in 1 .. Len(h[e]) /\ k[c][i] = h[0][i + 1] /\ k[e][j] = h[e][j]
      BY <1>6
    <2>2. h[0][i + 1].kind = "log" /\ h[e][j].kind = "log" /\ h[0][i + 1].n = h[e][j].n
      BY <2>1
    <2>3. \A q \in 1 .. Len(h[0]), s \in 1 .. Len(h[e]) :
            h[0][q].kind = "log" /\ h[e][s].kind = "log" /\ h[0][q].n = h[e][s].n => 0 = e /\ q = s
      BY <1>0 DEF Distinct
    <2>4. 0 = e /\ i + 1 = j
      BY <2>1, <2>2, <2>3, Zenon
    <2> QED
      BY <1>6, <2>4
  <1>7. CASE Nears(c, i) /\ Nears(e, j)
    <2>1. i + 1 \in 1 .. Len(h[0]) /\ j + 1 \in 1 .. Len(h[0]) /\ k[c][i] = h[0][i + 1] /\ k[e][j] = h[0][j + 1]
      BY <1>7
    <2>2. h[0][i + 1].kind = "log" /\ h[0][j + 1].kind = "log" /\ h[0][i + 1].n = h[0][j + 1].n
      BY <2>1
    <2>3. \A q \in 1 .. Len(h[0]), s \in 1 .. Len(h[0]) :
            h[0][q].kind = "log" /\ h[0][s].kind = "log" /\ h[0][q].n = h[0][s].n => 0 = 0 /\ q = s
      BY <1>0 DEF Distinct
    <2>4. 0 = 0 /\ i + 1 = j + 1
      BY <2>1, <2>2, <2>3, Zenon
    <2> QED
      BY <1>7, <2>4
  <1>8. CASE Nears(c, i) /\ Leaves(e, j)
    <2>1. i + 1 \in 1 .. Len(h[0]) /\ 1 \in 1 .. Len(h[0]) /\ k[c][i] = h[0][i + 1] /\ k[e][j] = h[0][1]
      BY <1>8
    <2>2. h[0][i + 1].kind = "log" /\ h[0][1].kind = "log" /\ h[0][i + 1].n = h[0][1].n
      BY <2>1
    <2>3. \A q \in 1 .. Len(h[0]), s \in 1 .. Len(h[0]) :
            h[0][q].kind = "log" /\ h[0][s].kind = "log" /\ h[0][q].n = h[0][s].n => 0 = 0 /\ q = s
      BY <1>0 DEF Distinct
    <2>4. 0 = 0 /\ i + 1 = 1
      BY <2>1, <2>2, <2>3, Zenon
    <2> QED
      BY <1>8, <2>4
  <1>9. CASE Leaves(c, i) /\ Stays(e, j)
    <2>1. 1 \in 1 .. Len(h[0]) /\ j \in 1 .. Len(h[e]) /\ k[c][i] = h[0][1] /\ k[e][j] = h[e][j]
      BY <1>9
    <2>2. h[0][1].kind = "log" /\ h[e][j].kind = "log" /\ h[0][1].n = h[e][j].n
      BY <2>1
    <2>3. \A q \in 1 .. Len(h[0]), s \in 1 .. Len(h[e]) :
            h[0][q].kind = "log" /\ h[e][s].kind = "log" /\ h[0][q].n = h[e][s].n => 0 = e /\ q = s
      BY <1>0 DEF Distinct
    <2>4. 0 = e /\ 1 = j
      BY <2>1, <2>2, <2>3, Zenon
    <2> QED
      BY <1>9, <2>4
  <1>10. CASE Leaves(c, i) /\ Nears(e, j)
    <2>1. 1 \in 1 .. Len(h[0]) /\ j + 1 \in 1 .. Len(h[0]) /\ k[c][i] = h[0][1] /\ k[e][j] = h[0][j + 1]
      BY <1>10
    <2>2. h[0][1].kind = "log" /\ h[0][j + 1].kind = "log" /\ h[0][1].n = h[0][j + 1].n
      BY <2>1
    <2>3. \A q \in 1 .. Len(h[0]), s \in 1 .. Len(h[0]) :
            h[0][q].kind = "log" /\ h[0][s].kind = "log" /\ h[0][q].n = h[0][s].n => 0 = 0 /\ q = s
      BY <1>0 DEF Distinct
    <2>4. 0 = 0 /\ 1 = j + 1
      BY <2>1, <2>2, <2>3, Zenon
    <2> QED
      BY <1>10, <2>4
  <1>11. CASE Leaves(c, i) /\ Leaves(e, j)
    BY <1>11
  <1> QED
    BY <1>1, <1>2, <1>3, <1>4, <1>5, <1>6, <1>7, <1>8, <1>9, <1>10, <1>11

LEMMA ClearedDistinct ==
  ASSUME NEW h \in [Boxes -> Seq(Message)], NEW k \in [Boxes -> Seq(Message)], Clears(h, k)
  PROVE  /\ \A n : In(k, n) => In(h, n)
         /\ Distinct(h) => Distinct(k)
         /\ \A n : In(h, n) => In(k, n) \/ \E i \in 1 .. Len(h[0]) : h[0][i].kind = "log" /\ h[0][i].n = n
  <1>0. ClearedEntries(h, k)
    BY EntriesCleared
  <1>4. \A e \in Boxes : \A i \in 1 .. Len(k[e]) : i \in 1 .. Len(h[e]) /\ k[e][i] = h[e][i]
    BY <1>0 DEF ClearedEntries
  <1>1. ASSUME NEW n, In(k, n) PROVE In(h, n)
    <2>1. PICK e \in Boxes : \E i \in 1 .. Len(k[e]) : k[e][i].kind = "log" /\ k[e][i].n = n
      BY <1>1 DEF In
    <2>2. PICK i \in 1 .. Len(k[e]) : k[e][i].kind = "log" /\ k[e][i].n = n
      BY <2>1
    <2>3. i \in 1 .. Len(h[e]) /\ k[e][i] = h[e][i]
      BY <1>4
    <2> QED
      BY <2>2, <2>3, Zenon DEF In
  <1>2. ASSUME Distinct(h) PROVE Distinct(k)
    <2> SUFFICES ASSUME NEW c \in Boxes, NEW e \in Boxes, NEW i \in 1 .. Len(k[c]), NEW j \in 1 .. Len(k[e]),
                        k[c][i].kind = "log", k[e][j].kind = "log", k[c][i].n = k[e][j].n
                 PROVE  c = e /\ i = j
      BY DEF Distinct
    <2>1. i \in 1 .. Len(h[c]) /\ j \in 1 .. Len(h[e]) /\ k[c][i] = h[c][i] /\ k[e][j] = h[e][j]
      BY <1>4
    <2>2. h[c][i].kind = "log" /\ h[e][j].kind = "log" /\ h[c][i].n = h[e][j].n
      BY <2>1
    <2> QED
      BY <1>2, <2>1, <2>2, Zenon DEF Distinct
  <1>3. ASSUME NEW n, In(h, n), ~\E i \in 1 .. Len(h[0]) : h[0][i].kind = "log" /\ h[0][i].n = n
        PROVE  In(k, n)
    <2>1. PICK e \in Boxes : \E i \in 1 .. Len(h[e]) : h[e][i].kind = "log" /\ h[e][i].n = n
      BY <1>3 DEF In
    <2>2. PICK i \in 1 .. Len(h[e]) : h[e][i].kind = "log" /\ h[e][i].n = n
      BY <2>1
    <2>3. e # 0
      BY <1>3, <2>2
    <2>4. i \in 1 .. Len(k[e]) /\ k[e][i] = h[e][i]
      BY <1>0, <2>3 DEF ClearedEntries
    <2> QED
      BY <2>2, <2>4, Zenon DEF In
  <1> QED
    BY <1>1, <1>2, <1>3

--------------------------------------------------------------------------------
(* Messages on their way *)

Taken(t) == \E d \in Boxes : Took(t, d)

LEMMA TakenLoose ==
  ASSUME Frames, NEW t \in Threads, ThreadFrame(t, proc[t]), Taken(t)
  PROVE  ~Loose(proc'[t]) /\ (proc[t].msg.kind = "log" => Loose(proc[t]) /\ proc[t].msg.from = t)
  <1>1. t \in Proc
    BY ThreadProcs
  <1>2. CASE Output(t) /\ Wrote(t)
    BY <1>1, <1>2, OutputMoves, RestFields DEF ThreadFrame, LogCall, OtherCall, GoesOn, Loose
  <1>3. CASE Store(t) /\ Fits
    BY <1>1, <1>3, StoreMoves, RestFields DEF ThreadFrame, LogCall, OtherCall, GoesOn, Loose
  <1> QED
    BY <1>2, <1>3 DEF Taken, Took

LEMMA SendLoose ==
  ASSUME Frames, Len(buffer) \in Nat, handle \in Boxes, NEW t \in Threads, ThreadFrame(t, proc[t]), Send(t),
         proc[t].pc = "resendLoop" => proc[t].cnt # 0
  PROVE  /\ Loose(proc'[t]) => Loose(proc[t]) /\ proc'[t].msg = proc[t].msg
         /\ Loose(proc[t]) => (Loose(proc'[t]) /\ proc'[t].msg = proc[t].msg) \/ Taken(t) \/ SkipStore(t)
  <1>1. t \in Proc /\ proc[t] \in FrameSet
    BY ThreadProcs DEF Frames
  <1>2. CASE Output(t)
    <2>1. CASE Wrote(t)
      BY <1>1, <1>2, <2>1, TakenLoose DEF Taken, Took
    <2>2. CASE ~Wrote(t)
      BY <1>1, <1>2, <2>2, OutputMoves DEF ThreadFrame, LogCall, Loose
    <2> QED
      BY <2>1, <2>2
  <1>3. CASE CheckSize(t)
    BY <1>1, <1>3, CheckSizeMoves DEF Loose
  <1>4. CASE Store(t)
    <2>1. CASE Fits
      BY <1>1, <1>4, <2>1, TakenLoose, BoxesAre DEF Taken, Took
    <2>2. CASE ~Fits
      <3>1. PICK f : f = [proc[t] EXCEPT !.err = "BUFFER_FULL"]
        OBVIOUS
      <3>2. f.msg = proc[t].msg /\ f.err = "BUFFER_FULL"
        BY <1>1, <3>1, ErrField, ResultsAre
      <3>3. proc[t].pc = "store" /\ GoesOn(f, proc'[t], proc[t].back)
        BY <1>1, <1>4, <2>2, <3>1, StoreMoves
      <3> QED
        BY <3>2, <3>3, RestFields DEF ThreadFrame, LogCall, OtherCall, GoesOn, Loose
    <2> QED
      BY <2>1, <2>2
  <1>5. ASSUME NEW n, Loops(proc[t], proc'[t], n), proc[t].pc \in {"resend", "resendLoop"}
        PROVE  (Loose(proc'[t]) <=> Loose(proc[t])) /\ (Loose(proc[t]) => proc'[t].msg = proc[t].msg)
    <2>1. CASE n # 0
      BY <1>5, <2>1 DEF Loops, Loose
    <2>2. CASE n = 0
      <3>1. PICK f : f = [proc[t] EXCEPT !.ret = "OK"]
        OBVIOUS
      <3>2. f.pc = proc[t].pc /\ f.msg = proc[t].msg /\ f.err = proc[t].err
        BY <1>1, <3>1, RetField, ResultsAre
      <3>3. GoesOn(f, proc'[t], proc[t].then)
        BY <1>5, <2>2, <3>1 DEF Loops
      <3> QED
        BY <1>5, <3>2, <3>3, RestFields DEF ThreadFrame, LogCall, OtherCall, GoesOn, Loose
    <2> QED
      BY <2>1, <2>2
  <1>6. CASE ResendBuffer(t)
    BY <1>1, <1>5, <1>6, ResendBufferMoves
  <1>7. CASE ResendEntry(t)
    <2>1. proc[t].pc = "resendLoop" /\ proc[t].cnt # 0
      BY <1>7 DEF ResendEntry, At
    <2>2. CASE buffer = <<>> \/ Resends
      BY <1>1, <1>5, <1>7, <2>1, <2>2, ResendEntryMoves
    <2>3. CASE ~(buffer = <<>> \/ Resends)
      <3>1. PICK f : f = [proc[t] EXCEPT !.ret = LogOut(handle)]
        OBVIOUS
      <3>2. f.pc = proc[t].pc /\ f.msg = proc[t].msg /\ f.err = proc[t].err
        BY <1>1, <3>1, RetField, LogOutResult
      <3>3. GoesOn(f, proc'[t], proc[t].then)
        BY <1>1, <1>7, <2>1, <2>3, <3>1, ResendEntryMoves
      <3> QED
        BY <2>1, <3>2, <3>3, RestFields DEF ThreadFrame, LogCall, OtherCall, GoesOn, Loose
    <2> QED
      BY <2>2, <2>3
  <1>8. CASE SendOverflow(t)
    BY <1>1, <1>8, SendOverflowMoves, RestFields DEF ThreadFrame, LogCall, OtherCall, GoesOn, Loose
  <1>9. CASE ResetOverflow(t)
    BY <1>1, <1>9, ResetOverflowMoves, RestFields DEF ThreadFrame, LogCall, OtherCall, GoesOn, Loose
  <1>10. CASE SkipStore(t)
    BY <1>1, <1>10, SkipStoreMoves DEF ThreadFrame, LogCall, GoesOn, Loose
  <1> QED
    BY <1>2, <1>3, <1>4, <1>6, <1>7, <1>8, <1>9, <1>10 DEF Send

LEMMA LooseGoes ==
  ASSUME Typed, OtherFrames, ThreadFrames, Next, NEW t \in Threads
  PROVE  /\ Loose(proc'[t]) =>
              \/ Loose(proc[t]) /\ proc'[t].msg = proc[t].msg /\ proc[t].msg.from = t /\ ~Taken(t)
              \/ LogStart(t) /\ proc'[t].msg.n = done.logs + 1 /\ proc'[t].msg.from = t
         /\ Loose(proc[t]) => \/ Loose(proc'[t]) /\ proc'[t].msg = proc[t].msg
                              \/ Taken(t) \/ LogCounted(t) \/ SkipStore(t)
  <1>1. Frames /\ Len(buffer) \in Nat /\ done.logs \in Nat /\ overflow_counter \in Nat /\ contexts \in Nat
    BY DEF Typed, TypeOK, Frames, History
  <1>2. ThreadFrame(t, proc[t]) /\ handle \in Boxes
    BY DEF ThreadFrames, ThreadFrame, LogCall, OtherCall, Typed, TypeOK, Boxes
  <1>3. Loose(proc'[t]) => ~Taken(t)
    BY <1>1, <1>2, TakenLoose
  <1>4. Loose(proc[t]) => proc[t].msg.from = t
    BY <1>2 DEF Loose, ThreadFrame, LogCall
  <1>5. CASE proc'[t] = proc[t]
    BY <1>3, <1>4, <1>5
  <1>6. CASE Send(t)
    <2>1. proc[t].pc = "resendLoop" => proc[t].cnt # 0
      BY ThreadProcs DEF OtherFrames
    <2> QED
      BY <1>1, <1>2, <1>3, <1>4, <1>6, <2>1, SendLoose
  <1>7. CASE LogStart(t)
    <2>1. proc[t].pc = "idle"
      BY <1>1, <1>7, LogStartMoves
    <2>2. ~Loose(proc[t])
      BY <1>2, <2>1 DEF Loose, ThreadFrame, LogCall
    <2> QED
      BY <1>1, <1>7, <2>2, ThreadStarts
  <1>8. CASE LogOld(t)
    <2>1. Loose(proc'[t]) <=> Loose(proc[t])
      BY <1>1, <1>8, LogOldMoves DEF Loose
    <2> QED
      BY <1>1, <1>3, <1>4, <1>8, <2>1, LogOldMoves
  <1>9. CASE LogEnd(t)
    <2>1. CASE proc[t].err # "BUFFER_FULL"
      BY <1>1, <1>9, <2>1, LogEndMoves, RestFields DEF Loose
    <2>2. CASE proc[t].err = "BUFFER_FULL"
      <3>1. proc'[t].msg = proc[t].msg /\ proc'[t].err = proc[t].err
        BY <1>1, <1>9, <2>2, LogEndMoves
      <3> QED
        BY <1>3, <1>4, <2>2, <3>1 DEF Loose
    <2> QED
      BY <2>1, <2>2
  <1>10. CASE LogCounted(t)
    BY <1>1, <1>10, LogCountedMoves, RestFields DEF Loose
  <1>11. CASE RegisterApp(t) \/ RegisterContext(t) \/ RegisterAppEnd(t)
    BY <1>1, <1>2, <1>11, ThreadRegisters DEF Loose
  <1> QED
    BY <1>5, <1>6, <1>7, <1>8, <1>9, <1>10, <1>11, ThreadTurns

\* What a step does to the places of the log messages.
LEMMA PlacesGo ==
  ASSUME Typed, OtherFrames, Next
  PROVE  /\ \A n : In(held', n) => \/ In(held, n)
                                   \/ \E p \in Proc : Taken(p) /\ proc[p].msg.kind = "log" /\ proc[p].msg.n = n
         /\ \A n : In(held, n) => In(held', n) \/ (FreeJoined /\ n \in LogNumbers(buffer))
         /\ \A p \in Proc : Taken(p) /\ proc[p].msg.kind = "log" => In(held', proc[p].msg.n)
  <1>1. held \in [Boxes -> Seq(Message)] /\ held[0] = buffer
    BY HeldIs
  <1>2. held' \in [Boxes -> Seq(Message)]
    BY TypedStep, HeldNext
  <1>3. \A p \in Proc : proc[p].msg \in Message
    BY DEF Typed, TypeOK
  <1>4. buffer \in Seq(Message)
    BY DEF Typed, TypeOK
  <1>5. ASSUME NEW p \in Proc, Taken(p), proc[p].msg.kind = "log" PROVE In(held', proc[p].msg.n)
    <2>1. PICK d \in Boxes : Took(p, d)
      BY <1>5 DEF Taken
    <2>2. Adds(held, held', d, proc[p].msg)
      BY <2>1, TookAdds
    <2>3. PICK m \in Message : m = proc[p].msg
      BY <1>3
    <2>5. Adds(held, held', d, m)
      BY <2>2, <2>3
    <2>4. \A n : In(held', n) <=> (In(held, n) \/ (m.kind = "log" /\ m.n = n))
      BY <1>1, <1>2, <2>5, AddedIn
    <2> QED
      BY <1>5, <2>3, <2>4
  <1>6. CASE held' = held
    BY <1>5, <1>6
  <1>7. ASSUME NEW p \in Proc, NEW d \in Boxes, Took(p, d), Adds(held, held', d, proc[p].msg)
        PROVE  \A n : /\ In(held', n) => In(held, n) \/ (proc[p].msg.kind = "log" /\ proc[p].msg.n = n)
                      /\ In(held, n) => In(held', n)
    <2>1. PICK m \in Message : m = proc[p].msg
      BY <1>3
    <2>3. Adds(held, held', d, m)
      BY <1>7, <2>1
    <2>2. \A n : In(held', n) <=> (In(held, n) \/ (m.kind = "log" /\ m.n = n))
      BY <1>1, <1>2, <2>3, AddedIn
    <2> QED
      BY <2>1, <2>2
  <1>8. ASSUME NEW m \in Message, m.kind = "overflow", handle \in Boxes, Adds(held, held', handle, m)
        PROVE  \A n : In(held', n) <=> In(held, n)
    BY <1>1, <1>2, <1>8, AddedIn
  <1>9. ASSUME handle \in Boxes, handle # 0, Passes(held, held', handle)
        PROVE  \A n : In(held', n) <=> In(held, n)
    BY <1>1, <1>2, <1>9, PassedIn
  <1>10. ASSUME Clears(held, held')
         PROVE  \A n : /\ In(held', n) => In(held, n)
                       /\ In(held, n) => In(held', n) \/ n \in LogNumbers(buffer)
    <2>1. /\ \A n : In(held', n) => In(held, n)
          /\ \A n : In(held, n) => In(held', n) \/ \E i \in 1 .. Len(held[0]) : held[0][i].kind = "log" /\ held[0][i].n = n
      BY <1>1, <1>2, <1>10, ClearedDistinct
    <2>2. \A n : n \in LogNumbers(buffer) <=> \E i \in 1 .. Len(buffer) : buffer[i].kind = "log" /\ buffer[i].n = n
      BY <1>4, LogNumbersType
    <2> QED
      BY <1>1, <2>1, <2>2
  <1>11. ASSUME NEW n, In(held', n)
         PROVE  \/ In(held, n)
                \/ \E p \in Proc : Taken(p) /\ proc[p].msg.kind = "log" /\ proc[p].msg.n = n
    BY <1>6, <1>7, <1>8, <1>9, <1>10, <1>11, HeldGoes DEF Taken
  <1>12. ASSUME NEW n, In(held, n) PROVE In(held', n) \/ (FreeJoined /\ n \in LogNumbers(buffer))
    BY <1>6, <1>7, <1>8, <1>9, <1>10, <1>12, HeldGoes
  <1> QED
    BY <1>5, <1>11, <1>12

\* Only threads log.
LEMMA TakenByThread ==
  ASSUME Typed, OtherFrames, ThreadFrames, NEW p \in Proc, Taken(p), proc[p].msg.kind = "log"
  PROVE  /\ p \in Threads /\ Loose(proc[p]) /\ ~Loose(proc'[p]) /\ proc[p].msg.from = p
         /\ proc[p].msg.n \in 1 .. done.logs
  <1>1. p \in Threads
    BY DEF Proc, OtherFrames
  <1>2. ThreadFrame(p, proc[p]) /\ proc[p].msg.n \in 1 .. done.logs
    BY <1>1 DEF ThreadFrames, ThreadFrame, LogCall, OtherCall
  <1>3. Frames
    BY DEF Typed, Frames
  <1> QED
    BY <1>1, <1>2, <1>3, TakenLoose

LEMMA DistinctStep ==
  ASSUME Typed, OtherFrames, ThreadFrames, Unique, Next
  PROVE  Distinct(held')
  <1>1. held \in [Boxes -> Seq(Message)] /\ Distinct(held)
    BY HeldIs DEF Unique
  <1>2. held' \in [Boxes -> Seq(Message)]
    BY TypedStep, HeldNext
  <1>3. \A p \in Proc : proc[p].msg \in Message
    BY DEF Typed, TypeOK
  <1>4. ASSUME NEW p \in Proc, NEW d \in Boxes, Took(p, d), Adds(held, held', d, proc[p].msg)
        PROVE  Distinct(held')
    <2>1. proc[p].msg.kind = "log" => ~In(held, proc[p].msg.n)
      BY <1>4, TakenByThread DEF Taken, Unique
    <2> QED
      BY <1>1, <1>2, <1>3, <1>4, <2>1, AddedDistinct
  <1>5. ASSUME NEW m \in Message, m.kind = "overflow", handle \in Boxes, Adds(held, held', handle, m)
        PROVE  Distinct(held')
    BY <1>1, <1>2, <1>5, AddedDistinct
  <1>6. ASSUME handle \in Boxes, handle # 0, Passes(held, held', handle)
        PROVE  Distinct(held')
    BY <1>1, <1>2, <1>6, PassedDistinct
  <1>7. ASSUME Clears(held, held') PROVE Distinct(held')
    BY <1>1, <1>2, <1>7, ClearedDistinct
  <1> QED
    BY <1>1, <1>4, <1>5, <1>6, <1>7, HeldGoes

LEMMA UniqueStep ==
  ASSUME Typed, OtherFrames, ThreadFrames, Unique, Next
  PROVE  Unique'
  <1>1. Distinct(held')
    BY DistinctStep
  <1>2. done.logs \in Nat /\ done'.logs \in Nat /\ done'.logs >= done.logs
    BY LogsGrow DEF Typed, History
  <1>3. \A n : In(held, n) => n <= done.logs
    BY DEF Unique, In
  <1>4. ASSUME NEW n, In(held', n) PROVE n <= done.logs
    <2>1. CASE In(held, n)
      BY <1>3, <2>1
    <2>2. CASE ~In(held, n)
      <3>1. PICK p \in Proc : Taken(p) /\ proc[p].msg.kind = "log" /\ proc[p].msg.n = n
        BY <1>4, <2>2, PlacesGo
      <3>2. n \in 1 .. done.logs
        BY <3>1, TakenByThread
      <3> QED
        BY <1>2, <3>2
    <2> QED
      BY <2>1, <2>2
  <1>5. ASSUME NEW d \in Boxes, NEW i \in 1 .. Len(held'[d]), held'[d][i].kind = "log"
        PROVE  held'[d][i].n <= done'.logs
    <2>1. In(held', held'[d][i].n)
      BY <1>5, Zenon DEF In
    <2>2. held'[d][i].n \in Nat
      <3>1. held' \in [Boxes -> Seq(Message)]
        BY TypedStep, HeldNext
      <3>2. held'[d][i] \in Message
        BY <3>1
      <3> QED
        BY <3>2 DEF Message
    <2> QED
      BY <1>2, <1>4, <2>1, <2>2
  <1>6. ASSUME NEW t \in Threads, Loose(proc'[t]) PROVE ~In(held', proc'[t].msg.n)
    <2>1. SUFFICES ASSUME In(held', proc'[t].msg.n) PROVE FALSE
      OBVIOUS
    <2>2. CASE LogStart(t) /\ proc'[t].msg.n = done.logs + 1
      BY <1>2, <1>4, <2>1, <2>2
    <2>3. CASE Loose(proc[t]) /\ proc'[t].msg = proc[t].msg /\ ~Taken(t)
      <3>1. ~In(held, proc[t].msg.n)
        BY <2>3 DEF Unique
      <3>2. PICK p \in Proc : Taken(p) /\ proc[p].msg.kind = "log" /\ proc[p].msg.n = proc[t].msg.n
        BY <2>1, <2>3, <3>1, PlacesGo
      <3>3. p \in Threads /\ Loose(proc[p])
        BY <3>2, TakenByThread
      <3>4. p = t
        BY <2>3, <3>2, <3>3 DEF Unique
      <3> QED
        BY <2>3, <3>2, <3>4
    <2> QED
      BY <1>6, <2>2, <2>3, LooseGoes
  <1>7. ASSUME NEW t \in Threads, NEW u \in Threads, Loose(proc'[t]), Loose(proc'[u]),
               proc'[t].msg.n = proc'[u].msg.n
        PROVE  t = u
    <2>1. \A v \in Threads : Loose(proc'[v]) =>
             \/ Loose(proc[v]) /\ proc'[v].msg = proc[v].msg /\ proc[v].msg.n <= done.logs
             \/ LogStart(v) /\ proc'[v].msg.n = done.logs + 1
      <3>1. \A v \in Threads : Loose(proc[v]) => proc[v].msg.n <= done.logs
        BY <1>2 DEF ThreadFrames, Loose
      <3> QED
        BY <3>1, LooseGoes
    <2>2. ASSUME LogStart(t), LogStart(u) PROVE t = u
      <3>1. Moves(t) /\ proc'[t].pc = "overflow" /\ proc[u].pc = "idle" /\ proc'[u].pc = "overflow"
        BY <1>2, <2>2, LogStartMoves DEF Typed, Frames
      <3> QED
        BY <3>1, ThreadProcs DEF Moves
    <2>3. CASE Loose(proc[t]) /\ Loose(proc[u]) /\ proc'[t].msg = proc[t].msg /\ proc'[u].msg = proc[u].msg
      BY <1>7, <2>3 DEF Unique
    <2> QED
      BY <1>2, <1>7, <2>1, <2>2, <2>3
  <1>8. /\ \A d \in Boxes : \A i \in 1 .. Len(held'[d]) : held'[d][i].kind = "log" => held'[d][i].n <= done'.logs
        /\ \A t \in Threads : Loose(proc'[t]) => ~In(held', proc'[t].msg.n)
        /\ \A t, u \in Threads : Loose(proc'[t]) /\ Loose(proc'[u]) /\ proc'[t].msg.n = proc'[u].msg.n => t = u
    BY <1>5, <1>6, <1>7
  <1> QED
    BY <1>1, <1>8 DEF Unique, Distinct, In, Loose

--------------------------------------------------------------------------------
(* No message is lost silently *)

LEMMA HistoryGoes ==
  ASSUME Typed, Next
  PROVE  /\ done.discarded \subseteq done'.discarded
         /\ \A t \in Threads : LogCounted(t) => proc[t].msg.n \in done'.discarded
         /\ FreeJoined => done'.lost = LogNumbers(buffer)
         /\ ~FreeJoined => done'.lost = done.lost
  <1>1. done.discarded \subseteq done'.discarded
    BY DoneChanges, DoneQuiet, DoneLogStart, DoneLogCounted, DoneAttached, DoneWarned, DoneFreed DEF Unlogged
  <1>2. \A t \in Threads : LogCounted(t) => proc[t].msg.n \in done'.discarded
    BY DoneLogCounted
  <1>3. ~FreeJoined => done'.lost = done.lost
    BY DoneChanges, DoneQuiet, DoneLogStart, DoneLogCounted, DoneAttached, DoneWarned DEF Unlogged
  <1> QED
    BY <1>1, <1>2, <1>3, DoneFreed

LEMMA OverlookedGoes ==
  ASSUME Typed, Next
  PROVE  \/ done'.overlooked = done.overlooked
         \/ \E p \in Proc : SkipStore(p) /\ done'.overlooked = done.overlooked \union {proc[p].msg}
  <1>1. done \in History
    BY DEF Typed
  <1>2. ASSUME NEW p \in Proc, SkipStore(p)
        PROVE  done'.overlooked = done.overlooked \union {proc[p].msg}
    <2>1. PICK r : r = done.overlooked \union {proc[p].msg}
      OBVIOUS
    <2>2. done' = [done EXCEPT !.overlooked = r]
      BY <1>2, <2>1 DEF SkipStore
    <2> QED
      BY <1>1, <2>1, <2>2 DEF History
  <1>3. ASSUME NEW p \in Proc, Store(p) \/ ReattachOpen(p)
        PROVE  done'.overlooked = done.overlooked
    <2>1. PICK r : r = done.refused \union {proc[p].msg.n}
      OBVIOUS
    <2>2. done' = done \/ done' = [done EXCEPT !.refused = r] \/ done' = [done EXCEPT !.attached = daemon]
      BY <1>3, <2>1 DEF Store, ReattachOpen
    <2> QED
      BY <1>1, <2>2 DEF History
  <1>4. ASSUME NEW t \in Threads, LogStart(t)
        PROVE  done'.overlooked = done.overlooked
    <2>1. PICK e : e = IF appID THEN done.early ELSE done.early \union {"log"}
      OBVIOUS
    <2>2. PICK l : l = done.loggers \union {t}
      OBVIOUS
    <2>3. PICK n : n = done.logs + 1
      OBVIOUS
    <2>4. done' = [done EXCEPT !.logs = n, !.loggers = l, !.early = e]
      BY <1>4, <2>1, <2>2, <2>3 DEF LogStart
    <2> QED
      BY <1>1, <2>4 DEF History
  <1>5. ASSUME NEW t \in Threads, LogCounted(t) \/ RegisterAppEnd(t) \/ RegisterContext(t)
        PROVE  done'.overlooked = done.overlooked
    <2>1. PICK r : r = done.discarded \union {proc[t].msg.n}
      OBVIOUS
    <2>2. PICK e : e = done.early \union {"context"}
      OBVIOUS
    <2>3. \/ done' = done \/ done' = [done EXCEPT !.discarded = r] \/ done' = [done EXCEPT !.registered = TRUE]
          \/ done' = [done EXCEPT !.early = e]
      BY <1>5, <2>1, <2>2 DEF LogCounted, RegisterAppEnd, RegisterContext
    <2> QED
      BY <1>1, <2>3 DEF History
  <1>6. ASSUME BlowOutTimeout \/ BlowOutEnd \/ FreeJoined \/ DaemonStarts \/ PipeFills
        PROVE  done'.overlooked = done.overlooked
    <2>1. PICK w : w = LeftOver
      OBVIOUS
    <2>2. PICK l : l = LogNumbers(buffer)
      OBVIOUS
    <2>3. PICK d : d = daemon'
      OBVIOUS
    <2>4. PICK f : f = done.fills + 1
      OBVIOUS
    <2>5. \/ done' = done \/ done' = [done EXCEPT !.warned = w] \/ done' = [done EXCEPT !.lost = l]
          \/ done' = [done EXCEPT !.daemons = d] \/ done' = [done EXCEPT !.fills = f]
      BY <1>6, <2>1, <2>2, <2>3, <2>4 DEF BlowOutTimeout, BlowOutEnd, FreeJoined, DaemonStarts, PipeFills
    <2> QED
      BY <1>1, <2>5 DEF History
  <1> QED
    BY <1>2, <1>3, <1>4, <1>5, <1>6, DoneChanges

LEMMA SkippedKept ==
  ASSUME Typed, NEW p \in Proc, SkipStore(p)
  PROVE  proc[p].msg \in done'.overlooked
  <1>1. done \in History
    BY DEF Typed
  <1>2. PICK r : r = done.overlooked \union {proc[p].msg}
    OBVIOUS
  <1>3. done' = [done EXCEPT !.overlooked = r]
    BY <1>2 DEF SkipStore
  <1> QED
    BY <1>1, <1>2, <1>3 DEF History

LEMMA KeptStep ==
  ASSUME Typed, OtherFrames, ThreadFrames, Warned, Kept, Next
  PROVE  Kept'
  <1> SUFFICES ASSUME NEW n \in 1 .. done'.logs
               PROVE  \/ In(held', n) \/ n \in done'.discarded \/ n \in done'.lost
                      \/ \E m \in done'.overlooked : m.n = n
                      \/ \E t \in Threads : Loose(proc'[t]) /\ proc'[t].msg.n = n
    BY DEF Kept, In, Loose
  <1>1. done.logs \in Nat /\ Frames
    BY DEF Typed, History, Frames
  <1>2. CASE n \in 1 .. done.logs
    <2>1. CASE In(held, n)
      BY <2>1, PlacesGo, HistoryGoes
    <2>2. CASE n \in done.discarded
      BY <2>2, HistoryGoes
    <2>3. CASE n \in done.lost
      <3>1. FreeJoined => done.lost = {}
        BY DEF Warned, FreeJoined, At
      <3> QED
        BY <2>3, <3>1, HistoryGoes
    <2>4. ASSUME NEW t \in Threads, Loose(proc[t]), proc[t].msg.n = n
          PROVE  \/ In(held', n) \/ n \in done'.discarded
                 \/ \E m \in done'.overlooked : m.n = n
                 \/ \E u \in Threads : Loose(proc'[u]) /\ proc'[u].msg.n = n
      <3>1. CASE Loose(proc'[t]) /\ proc'[t].msg = proc[t].msg
        BY <2>4, <3>1
      <3>2. CASE Taken(t)
        BY <2>4, <3>2, PlacesGo, ThreadProcs DEF Loose
      <3>3. CASE LogCounted(t)
        BY <2>4, <3>3, HistoryGoes
      <3>4. CASE SkipStore(t)
        <4>1. proc[t].msg \in done'.overlooked
          BY <3>4, ThreadProcs, SkippedKept
        <4> QED
          BY <2>4, <4>1
      <3> QED
        BY <2>4, <3>1, <3>2, <3>3, <3>4, LooseGoes
    <2>5. CASE \E m \in done.overlooked : m.n = n
      BY <2>5, OverlookedGoes
    <2> QED
      BY <1>2, <2>1, <2>2, <2>3, <2>4, <2>5 DEF Kept
  <1>3. CASE n \notin 1 .. done.logs
    <2>1. PICK t \in Threads : LogStart(t) /\ n = done.logs + 1
      BY <1>1, <1>3, LogsGrow
    <2>2. proc'[t].msg.kind = "log" /\ proc'[t].msg.n = done.logs + 1
      BY <1>1, <2>1, ThreadStarts
    <2>3. proc'[t].pc = "overflow"
      BY <1>1, <2>1, LogStartMoves
    <2> QED
      BY <2>1, <2>2, <2>3 DEF Loose
  <1> QED
    BY <1>2, <1>3

--------------------------------------------------------------------------------
(* The order of a thread's messages *)

\* Every entry of the boxes was there or is the message that was taken, or no log message.
LEMMA EntriesGo ==
  ASSUME Typed, OtherFrames, Next, NEW d \in Boxes, NEW i \in 1 .. Len(held'[d])
  PROVE  \/ held'[d][i].kind # "log"
         \/ \E e \in Boxes : \E j \in 1 .. Len(held[e]) : held'[d][i] = held[e][j]
         \/ \E p \in Proc : Taken(p) /\ proc[p].msg.kind = "log" /\ held'[d][i] = proc[p].msg
  <1>1. held \in [Boxes -> Seq(Message)]
    BY HeldIs
  <1>2. held' \in [Boxes -> Seq(Message)]
    BY TypedStep, HeldNext
  <1>3. \A p \in Proc : proc[p].msg \in Message
    BY DEF Typed, TypeOK
  <1>4. ASSUME NEW m \in Message, NEW e \in Boxes, Adds(held, held', e, m)
        PROVE  held'[d][i] = m \/ \E c \in Boxes : \E j \in 1 .. Len(held[c]) : held'[d][i] = held[c][j]
    <2>1. AddedEntries(held, held', e, m)
      BY <1>1, <1>2, <1>4, EntriesAdded
    <2>2. \A x \in Boxes : \A y \in 1 .. Len(held'[x]) : held'[x][y] = m \/ (y \in 1 .. Len(held[x]) /\ held'[x][y] = held[x][y])
      BY <2>1 DEF AddedEntries
    <2> QED
      BY <2>2
  <1>5. ASSUME NEW p \in Proc, NEW e \in Boxes, Took(p, e), Adds(held, held', e, proc[p].msg)
        PROVE  \/ held'[d][i].kind # "log"
               \/ \E c \in Boxes : \E j \in 1 .. Len(held[c]) : held'[d][i] = held[c][j]
               \/ \E q \in Proc : Taken(q) /\ proc[q].msg.kind = "log" /\ held'[d][i] = proc[q].msg
    BY <1>3, <1>4, <1>5 DEF Taken
  <1>6. ASSUME NEW m \in Message, m.kind = "overflow", handle \in Boxes, Adds(held, held', handle, m)
        PROVE  \/ held'[d][i].kind # "log"
               \/ \E c \in Boxes : \E j \in 1 .. Len(held[c]) : held'[d][i] = held[c][j]
    BY <1>4, <1>6
  <1>7. ASSUME handle \in Boxes, handle # 0, Passes(held, held', handle)
        PROVE  \E c \in Boxes : \E j \in 1 .. Len(held[c]) : held'[d][i] = held[c][j]
    <2>1. PassedEntries(held, held', handle)
      BY <1>1, <1>2, <1>7, EntriesPassed
    <2>2. \/ d # 0 /\ i \in 1 .. Len(held[d]) /\ held'[d][i] = held[d][i]
          \/ i + 1 \in 1 .. Len(held[0]) /\ held'[d][i] = held[0][i + 1]
          \/ held'[d][i] = held[0][1] /\ 1 \in 1 .. Len(held[0])
      BY <2>1 DEF PassedEntries
    <2> QED
      BY <2>2, BoxesAre
  <1>8. ASSUME Clears(held, held')
        PROVE  \E c \in Boxes : \E j \in 1 .. Len(held[c]) : held'[d][i] = held[c][j]
    <2>1. ClearedEntries(held, held')
      BY <1>1, <1>2, <1>8, EntriesCleared
    <2> QED
      BY <2>1 DEF ClearedEntries
  <1>9. CASE held' = held
    BY <1>9
  <1> QED
    BY <1>5, <1>6, <1>7, <1>8, <1>9, HeldGoes

LEMMA NewestStep ==
  ASSUME Typed, OtherFrames, ThreadFrames, Unique, Newest, Next
  PROVE  Newest'
  <1> SUFFICES ASSUME NEW t \in Threads, Loose(proc'[t]), NEW d \in Boxes, NEW i \in 1 .. Len(held'[d])
               PROVE  Earlier(held'[d][i], proc'[t].msg)
    BY DEF Newest, Earlier, Loose
  <1>1. done.logs \in Nat
    BY DEF Typed, History
  <1>2. CASE held'[d][i].kind # "log"
    BY <1>2 DEF Earlier
  <1>3. ASSUME NEW e \in Boxes, NEW j \in 1 .. Len(held[e]), held'[d][i] = held[e][j]
        PROVE  Earlier(held'[d][i], proc'[t].msg)
    <2>1. CASE Loose(proc[t]) /\ proc'[t].msg = proc[t].msg
      BY <1>3, <2>1 DEF Newest
    <2>2. CASE LogStart(t) /\ proc'[t].msg.n = done.logs + 1
      <3>1. held[e][j].kind = "log" => held[e][j].n <= done.logs
        BY DEF Unique
      <3>2. held[e][j].n \in Nat
        <4>1. held \in [Boxes -> Seq(Message)]
          BY HeldIs
        <4>2. held[e][j] \in Message
          BY <4>1
        <4> QED
          BY <4>2 DEF Message
      <3> QED
        BY <1>1, <1>3, <2>2, <3>1, <3>2 DEF Earlier
    <2> QED
      BY <2>1, <2>2, LooseGoes
  <1>4. ASSUME NEW p \in Proc, Taken(p), proc[p].msg.kind = "log", held'[d][i] = proc[p].msg
        PROVE  Earlier(held'[d][i], proc'[t].msg)
    <2>1. p \in Threads /\ ~Loose(proc'[p]) /\ proc[p].msg.from = p
      BY <1>4, TakenByThread
    <2>2. proc'[t].msg.from = t
      BY LooseGoes
    <2>3. p # t
      BY <2>1
    <2> QED
      BY <1>4, <2>1, <2>2, <2>3 DEF Earlier
  <1> QED
    BY <1>2, <1>3, <1>4, EntriesGo

LEMMA AppendInTurn ==
  ASSUME NEW s \in Seq(Message), NEW m \in Message, InTurn(s), \A i \in 1 .. Len(s) : Earlier(s[i], m)
  PROVE  InTurn(Append(s, m))
  <1>1. PICK r \in Seq(Message) : r = Append(s, m)
    BY AppendEntries
  <1>2. /\ Len(r) = Len(s) + 1 /\ Len(s) \in Nat
        /\ \A i \in 1 .. Len(s) : r[i] = s[i]
        /\ r[Len(s) + 1] = m
    BY <1>1, AppendEntries
  <1>3. ASSUME NEW i \in 1 .. Len(r), NEW j \in 1 .. Len(r), i < j PROVE Earlier(r[i], r[j])
    <2>1. i \in 1 .. Len(s) /\ (j \in 1 .. Len(s) \/ j = Len(s) + 1)
      BY <1>2, <1>3
    <2>2. CASE j \in 1 .. Len(s)
      <3>1. Earlier(s[i], s[j])
        BY <1>3, <2>1, <2>2 DEF InTurn
      <3> QED
        BY <1>2, <2>1, <2>2, <3>1
    <2>3. CASE j = Len(s) + 1
      BY <1>2, <2>1, <2>3
    <2> QED
      BY <2>1, <2>2, <2>3
  <1> QED
    BY <1>1, <1>3 DEF InTurn

LEMMA TailInTurn ==
  ASSUME NEW s \in Seq(Message), s # <<>>, InTurn(s)
  PROVE  InTurn(Tail(s)) /\ \A j \in 1 .. Len(Tail(s)) : Earlier(Head(s), Tail(s)[j])
  <1>1. PICK r \in Seq(Message) : r = Tail(s)
    BY TailEntries
  <1>2. /\ Len(r) = Len(s) - 1 /\ Len(s) # 0 /\ Len(s) \in Nat
        /\ \A i \in 1 .. Len(s) - 1 : r[i] = s[i + 1]
        /\ Head(s) = s[1]
    BY <1>1, TailEntries
  <1>3. ASSUME NEW i \in 1 .. Len(r), NEW j \in 1 .. Len(r), i < j PROVE Earlier(r[i], r[j])
    <2>1. i + 1 \in 1 .. Len(s) /\ j + 1 \in 1 .. Len(s) /\ i + 1 < j + 1 /\ r[i] = s[i + 1] /\ r[j] = s[j + 1]
      BY <1>2, <1>3
    <2>2. Earlier(s[i + 1], s[j + 1])
      BY <2>1 DEF InTurn
    <2> QED
      BY <2>1, <2>2
  <1>4. ASSUME NEW j \in 1 .. Len(r) PROVE Earlier(s[1], r[j])
    <2>1. 1 \in 1 .. Len(s) /\ j + 1 \in 1 .. Len(s) /\ 1 < j + 1 /\ r[j] = s[j + 1]
      BY <1>2, <1>4
    <2>2. Earlier(s[1], s[j + 1])
      BY <2>1 DEF InTurn
    <2> QED
      BY <2>1, <2>2
  <1> QED
    BY <1>1, <1>2, <1>3, <1>4 DEF InTurn

LEMMA AppendPrecedes ==
  ASSUME NEW r \in Seq(Message), NEW s \in Seq(Message), NEW m \in Message, Precedes(r, s)
  PROVE  /\ (\A j \in 1 .. Len(s) : Earlier(m, s[j])) => Precedes(Append(r, m), s)
         /\ (\A i \in 1 .. Len(r) : Earlier(r[i], m)) => Precedes(r, Append(s, m))
  <1>1. ASSUME \A j \in 1 .. Len(s) : Earlier(m, s[j]) PROVE Precedes(Append(r, m), s)
    <2>1. PICK k \in Seq(Message) : k = Append(r, m)
      BY AppendEntries
    <2>2. /\ Len(k) = Len(r) + 1 /\ Len(r) \in Nat
          /\ \A i \in 1 .. Len(r) : k[i] = r[i]
          /\ k[Len(r) + 1] = m
      BY <2>1, AppendEntries
    <2>3. ASSUME NEW i \in 1 .. Len(k), NEW j \in 1 .. Len(s) PROVE Earlier(k[i], s[j])
      <3>1. (i \in 1 .. Len(r) /\ k[i] = r[i]) \/ k[i] = m
        BY <2>2, <2>3
      <3> QED
        BY <1>1, <3>1 DEF Precedes
    <2> QED
      BY <2>1, <2>3 DEF Precedes
  <1>2. ASSUME \A i \in 1 .. Len(r) : Earlier(r[i], m) PROVE Precedes(r, Append(s, m))
    <2>1. PICK k \in Seq(Message) : k = Append(s, m)
      BY AppendEntries
    <2>2. /\ Len(k) = Len(s) + 1 /\ Len(s) \in Nat
          /\ \A i \in 1 .. Len(s) : k[i] = s[i]
          /\ k[Len(s) + 1] = m
      BY <2>1, AppendEntries
    <2>3. ASSUME NEW i \in 1 .. Len(r), NEW j \in 1 .. Len(k) PROVE Earlier(r[i], k[j])
      <3>1. (j \in 1 .. Len(s) /\ k[j] = s[j]) \/ k[j] = m
        BY <2>2, <2>3
      <3> QED
        BY <1>2, <3>1 DEF Precedes
    <2> QED
      BY <2>1, <2>3 DEF Precedes
  <1> QED
    BY <1>1, <1>2

LEMMA TailPrecedes ==
  ASSUME NEW r \in Seq(Message), NEW s \in Seq(Message), s # <<>>, Precedes(r, s)
  PROVE  Precedes(r, Tail(s)) /\ \A i \in 1 .. Len(r) : Earlier(r[i], Head(s))
  <1>1. PICK k \in Seq(Message) : k = Tail(s)
    BY TailEntries
  <1>2. /\ Len(k) = Len(s) - 1 /\ Len(s) # 0 /\ Len(s) \in Nat
        /\ \A i \in 1 .. Len(s) - 1 : k[i] = s[i + 1]
        /\ Head(s) = s[1]
    BY <1>1, TailEntries
  <1>3. ASSUME NEW i \in 1 .. Len(r), NEW j \in 1 .. Len(k) PROVE Earlier(r[i], k[j])
    <2>1. j + 1 \in 1 .. Len(s) /\ k[j] = s[j + 1]
      BY <1>2, <1>3
    <2> QED
      BY <2>1 DEF Precedes
  <1>4. ASSUME NEW i \in 1 .. Len(r) PROVE Earlier(r[i], s[1])
    <2>1. 1 \in 1 .. Len(s)
      BY <1>2
    <2> QED
      BY <2>1 DEF Precedes
  <1> QED
    BY <1>1, <1>2, <1>3, <1>4 DEF Precedes

\* The order in the boxes: one pipe, and for protocol 2 the buffer after it.
Lined(h) == /\ \A d \in Boxes : d \notin {0, 1} => h[d] = <<>>
            /\ InTurn(h[1])
            /\ limit.proto = 2 => InTurn(h[0]) /\ Precedes(h[1], h[0])

LEMMA OneIsBox == 0 \in Boxes /\ 1 \in Boxes /\ 0 # 1
  BY ConstAssumption DEF Boxes

LEMMA AddedLined ==
  ASSUME NEW h \in [Boxes -> Seq(Message)], NEW k \in [Boxes -> Seq(Message)], NEW d \in {0, 1}, NEW m \in Message,
         Adds(h, k, d, m), Lined(h),
         \A e \in Boxes : \A i \in 1 .. Len(h[e]) : Earlier(h[e][i], m),
         d = 1 /\ limit.proto = 2 => \A j \in 1 .. Len(h[0]) : Earlier(m, h[0][j])
  PROVE  Lined(k)
  <1>1. PICK b \in Seq(Message) : b = h[0]
    BY OneIsBox
  <1>2. PICK r \in Seq(Message) : r = h[1]
    BY OneIsBox
  <1>3. (\A i \in 1 .. Len(b) : Earlier(b[i], m)) /\ (\A i \in 1 .. Len(r) : Earlier(r[i], m))
    BY <1>1, <1>2, OneIsBox
  <1>4. \A e \in Boxes : e \notin {0, 1} => k[e] = <<>>
    BY DEF Adds, Lined
  <1>5. InTurn(r) /\ (limit.proto = 2 => InTurn(b) /\ Precedes(r, b))
    BY <1>1, <1>2 DEF Lined
  <1>6. CASE d = 0
    <2>1. k[0] = Append(b, m) /\ k[1] = r
      BY <1>1, <1>2, <1>6, OneIsBox DEF Adds
    <2> QED
      BY <1>3, <1>4, <1>5, <2>1, AppendInTurn, AppendPrecedes DEF Lined
  <1>7. CASE d = 1
    <2>1. k[1] = Append(r, m) /\ k[0] = b
      BY <1>1, <1>2, <1>7, OneIsBox DEF Adds
    <2>2. limit.proto = 2 => \A j \in 1 .. Len(b) : Earlier(m, b[j])
      BY <1>1, <1>7
    <2> QED
      BY <1>3, <1>4, <1>5, <2>1, <2>2, AppendInTurn, AppendPrecedes DEF Lined
  <1> QED
    BY <1>6, <1>7

LEMMA PassedLined ==
  ASSUME NEW h \in [Boxes -> Seq(Message)], NEW k \in [Boxes -> Seq(Message)], Passes(h, k, 1), Lined(h),
         limit.proto = 2
  PROVE  Lined(k)
  <1>1. PICK b \in Seq(Message) : b = h[0]
    BY OneIsBox
  <1>2. PICK r \in Seq(Message) : r = h[1]
    BY OneIsBox
  <1>3. InTurn(r) /\ InTurn(b) /\ Precedes(r, b)
    BY <1>1, <1>2 DEF Lined
  <1>4. b # <<>> /\ k[0] = Tail(b) /\ k[1] = Append(r, Head(b))
    BY <1>1, <1>2 DEF Passes
  <1>5. \A e \in Boxes : e \notin {0, 1} => k[e] = <<>>
    BY DEF Passes, Lined
  <1>6. PICK m \in Message : m = Head(b)
    BY <1>4, TailEntries
  <1>7. PICK c \in Seq(Message) : c = Tail(b)
    BY <1>4, TailEntries
  <1>8. InTurn(c) /\ \A j \in 1 .. Len(c) : Earlier(m, c[j])
    BY <1>3, <1>4, <1>6, <1>7, TailInTurn
  <1>9. Precedes(r, c) /\ \A i \in 1 .. Len(r) : Earlier(r[i], m)
    BY <1>3, <1>4, <1>6, <1>7, TailPrecedes
  <1>10. InTurn(Append(r, m))
    BY <1>3, <1>9, AppendInTurn
  <1>11. Precedes(Append(r, m), c)
    BY <1>8, <1>9, AppendPrecedes
  <1> QED
    BY <1>4, <1>5, <1>6, <1>7, <1>8, <1>10, <1>11 DEF Lined

LEMMA ClearedLined ==
  ASSUME NEW h, NEW k, Clears(h, k), Lined(h)
  PROVE  Lined(k)
  <1>1. k[0] = <<>> /\ k[1] = h[1]
    BY OneIsBox DEF Clears
  <1>2. InTurn(<<>>) /\ Precedes(h[1], <<>>)
    BY DEF InTurn, Precedes
  <1>3. \A e \in Boxes : e \notin {0, 1} => k[e] = <<>>
    BY DEF Clears, Lined
  <1> QED
    BY <1>1, <1>2, <1>3 DEF Lined

LEMMA HandleGoes ==
  ASSUME Next
  PROVE  handle' \in {0, handle} \/ \E q \in Proc : ReattachOpen(q) /\ daemon # 0
  <1>1. ASSUME NEW p \in Proc, Send(p)
        PROVE  handle' \in {0, handle} \/ \E q \in Proc : ReattachOpen(q) /\ daemon # 0
    BY <1>1 DEF Send, Output, SkipStore, CheckSize, Store, ResendBuffer, ResendEntry, SendOverflow, ResetOverflow, libVars, CloseBroken
  <1>2. ASSUME NEW t \in Threads, LogStart(t) \/ LogOld(t) \/ LogEnd(t) \/ LogCounted(t)
        PROVE  handle' \in {0, handle} \/ \E q \in Proc : ReattachOpen(q) /\ daemon # 0
    BY <1>2 DEF LogStart, LogOld, LogEnd, LogCounted, libVars, CloseBroken
  <1>3. ASSUME NEW t \in Threads, RegisterApp(t) \/ RegisterContext(t) \/ RegisterAppEnd(t)
        PROVE  handle' \in {0, handle} \/ \E q \in Proc : ReattachOpen(q) /\ daemon # 0
    BY <1>3 DEF RegisterApp, RegisterContext, RegisterAppEnd, libVars, CloseBroken
  <1>4. ASSUME NEW p \in {Housekeeper, Exit}, AttachStep(p)
        PROVE  handle' \in {0, handle} \/ \E q \in Proc : ReattachOpen(q) /\ daemon # 0
    BY <1>4, OtherProcs DEF AttachStep, Reattach, ReattachOpen, ReattachContext, libVars, CloseBroken
  <1>5. CASE HousekeeperResend \/ HousekeeperCancelled
    BY <1>5 DEF HousekeeperResend, HousekeeperCancelled, libVars, CloseBroken
  <1>6. CASE Flushing
    BY <1>6 DEF Flushing, ExitStart, BlowOut, BlowOutTimeout, BlowOutOverflow, BlowOutResend, BlowOutEnd, libVars, CloseBroken
  <1>7. CASE Ending
    BY <1>7 DEF Ending, ExitUnregister, ExitClear, FreeStart, FreeLock, FreeJoined, libVars, CloseBroken
  <1>8. CASE Environment
    BY <1>8 DEF Environment, DaemonStarts, DaemonStops, PipeFills, DaemonReads, libVars, CloseBroken
  <1> QED
    BY <1>1, <1>2, <1>3, <1>4, <1>5, <1>6, <1>7, <1>8, Steps

LEMMA AppIDSet ==
  ASSUME Next
  PROVE  appID' = appID \/ ExitClear \/ \E t \in Threads : RegisterApp(t)
  <1>1. ASSUME NEW p \in Proc, Send(p)
        PROVE  appID' = appID
    BY <1>1 DEF Send, Output, SkipStore, CheckSize, Store, ResendBuffer, ResendEntry, SendOverflow, ResetOverflow, libVars
  <1>2. ASSUME NEW t \in Threads, LogStart(t) \/ LogOld(t) \/ LogEnd(t) \/ LogCounted(t)
        PROVE  appID' = appID
    BY <1>2 DEF LogStart, LogOld, LogEnd, LogCounted, libVars
  <1>3. ASSUME NEW t \in Threads, RegisterContext(t) \/ RegisterAppEnd(t)
        PROVE  appID' = appID
    BY <1>3 DEF RegisterContext, RegisterAppEnd, libVars
  <1>4. ASSUME NEW p \in {Housekeeper, Exit}, AttachStep(p)
        PROVE  appID' = appID
    BY <1>4 DEF AttachStep, Reattach, ReattachOpen, ReattachContext, libVars
  <1>5. CASE HousekeeperResend \/ HousekeeperCancelled
    BY <1>5 DEF HousekeeperResend, HousekeeperCancelled, libVars
  <1>6. CASE Flushing
    BY <1>6 DEF Flushing, ExitStart, BlowOut, BlowOutTimeout, BlowOutOverflow, BlowOutResend, BlowOutEnd, libVars
  <1>7. CASE Ending
    BY <1>7 DEF Ending, ExitUnregister, FreeStart, FreeLock, FreeJoined, libVars
  <1>8. CASE Environment
    BY <1>8 DEF Environment, DaemonStarts, DaemonStops, PipeFills, DaemonReads, libVars
  <1> QED
    BY <1>1, <1>2, <1>3, <1>4, <1>5, <1>6, <1>7, <1>8, Steps

LEMMA AppIDGoes ==
  ASSUME Next
  PROVE  appID' = appID \/ appID' = TRUE \/ ExitClear
  <1>1. ASSUME NEW p \in Proc, Send(p)
        PROVE  appID' = appID \/ appID' = TRUE \/ ExitClear
    BY <1>1 DEF Send, Output, SkipStore, CheckSize, Store, ResendBuffer, ResendEntry, SendOverflow, ResetOverflow, libVars
  <1>2. ASSUME NEW t \in Threads, LogStart(t) \/ LogOld(t) \/ LogEnd(t) \/ LogCounted(t)
        PROVE  appID' = appID \/ appID' = TRUE \/ ExitClear
    BY <1>2 DEF LogStart, LogOld, LogEnd, LogCounted, libVars
  <1>3. ASSUME NEW t \in Threads, RegisterApp(t) \/ RegisterContext(t) \/ RegisterAppEnd(t)
        PROVE  appID' = appID \/ appID' = TRUE \/ ExitClear
    BY <1>3 DEF RegisterApp, RegisterContext, RegisterAppEnd, libVars
  <1>4. ASSUME NEW p \in {Housekeeper, Exit}, AttachStep(p)
        PROVE  appID' = appID \/ appID' = TRUE \/ ExitClear
    BY <1>4 DEF AttachStep, Reattach, ReattachOpen, ReattachContext, libVars
  <1>5. CASE HousekeeperResend \/ HousekeeperCancelled
    BY <1>5 DEF HousekeeperResend, HousekeeperCancelled, libVars
  <1>6. CASE Flushing
    BY <1>6 DEF Flushing, ExitStart, BlowOut, BlowOutTimeout, BlowOutOverflow, BlowOutResend, BlowOutEnd, libVars
  <1>7. CASE Ending
    BY <1>7 DEF Ending, ExitUnregister, FreeStart, FreeLock, FreeJoined, libVars
  <1>8. CASE Environment
    BY <1>8 DEF Environment, DaemonStarts, DaemonStops, PipeFills, DaemonReads, libVars
  <1> QED
    BY <1>1, <1>2, <1>3, <1>4, <1>5, <1>6, <1>7, <1>8, Steps


\* The premise of the order stays true only while nothing of it happens.
LEMMA AttachedBefore ==
  ASSUME Typed, Next, Attached'
  PROVE  Attached /\ handle' \in {0, handle}
  <1>1. done'.attached = 0 /\ "log" \notin done'.early
    BY DEF Attached
  <1>2. ASSUME NEW p \in Proc, ReattachOpen(p), daemon # 0 PROVE FALSE
    BY <1>1, <1>2, DoneAttached
  <1>3. done.attached = 0 /\ "log" \notin done.early
    BY <1>1, <1>2, DoneChanges, DoneQuiet, DoneLogStart, DoneLogCounted, DoneAttached, DoneWarned, DoneFreed DEF Unlogged
  <1> QED
    BY <1>2, <1>3, HandleGoes DEF Attached

LEMMA LineStep ==
  ASSUME Typed, OtherFrames, ThreadFrames, Newest, Line, Ahead, Next
  PROVE  Line'
  <1> SUFFICES ASSUME Attached'
               PROVE  handle' \in {0, 1} /\ Lined(held')
    <2>1. Typed'
      BY TypedStep
    <2>2. held'[0] = buffer' /\ held'[1] = received'[1]
      BY <2>1, HeldNext, OneIsBox
    <2>3. limit' = limit
      BY LimitStays
    <2> QED
      BY <2>2, <2>3 DEF Line, Lined, InTurn, Precedes, Earlier
  <1>1. Attached /\ handle' \in {0, handle}
    BY AttachedBefore
  <1>2. held \in [Boxes -> Seq(Message)] /\ held[0] = buffer /\ held[1] = received[1]
    BY HeldIs, OneIsBox
  <1>3. held' \in [Boxes -> Seq(Message)]
    BY TypedStep, HeldNext
  <1>4. handle \in {0, 1} /\ Lined(held)
    BY <1>1, <1>2 DEF Line, Lined
  <1>5. ASSUME NEW p \in Proc, NEW d \in Boxes, Took(p, d), Adds(held, held', d, proc[p].msg)
        PROVE  Lined(held')
    <2>1. d \in {0, 1} /\ Taken(p)
      BY <1>4, <1>5 DEF Took, Taken
    <2>2. PICK m \in Message : m = proc[p].msg
      BY DEF Typed, TypeOK
    <2>3. \A e \in Boxes : \A i \in 1 .. Len(held[e]) : Earlier(held[e][i], m)
      <3>1. CASE m.kind = "log"
        BY <2>1, <2>2, <3>1, TakenByThread DEF Newest
      <3>2. CASE m.kind # "log"
        BY <3>2 DEF Earlier
      <3> QED
        BY <3>1, <3>2
    <2>4. ASSUME d = 1, limit.proto = 2, NEW j \in 1 .. Len(held[0]) PROVE Earlier(m, held[0][j])
      <3>1. CASE m.kind # "log"
        BY <3>1 DEF Earlier
      <3>2. CASE m.kind = "log"
        <4>1. p \in Threads /\ Loose(proc[p]) /\ m.from = p
          BY <2>1, <2>2, <3>2, TakenByThread
        <4>2. Output(p) /\ Wrote(p) /\ handle = 1
          BY <1>5, <2>4 DEF Took
        <4>3. proc[p].pc = "out" /\ proc[p].ret = "OK"
          BY <4>2 DEF Output, At, Wrote
        <4>4. ~(buffer[j].kind = "log" /\ buffer[j].from = p)
          BY <1>1, <1>2, <2>4, <4>1, <4>2, <4>3 DEF Ahead
        <4> QED
          BY <1>2, <4>1, <4>4 DEF Earlier
      <3> QED
        BY <3>1, <3>2
    <2>5. Adds(held, held', d, m)
      BY <1>5, <2>2
    <2> QED
      BY <1>2, <1>3, <1>4, <2>1, <2>3, <2>4, <2>5, AddedLined
  <1>6. ASSUME NEW m \in Message, m.kind = "overflow", handle \in Boxes, Adds(held, held', handle, m)
        PROVE  Lined(held')
    <2>1. /\ \A e \in Boxes : \A i \in 1 .. Len(held[e]) : Earlier(held[e][i], m)
          /\ \A j \in 1 .. Len(held[0]) : Earlier(m, held[0][j])
      BY <1>6 DEF Earlier
    <2> QED
      BY <1>2, <1>3, <1>4, <1>6, <2>1, AddedLined
  <1>7. ASSUME NEW p \in Proc, ResendEntry(p), handle # 0, Passes(held, held', handle)
        PROVE  Lined(held')
    <2>1. handle = 1 /\ limit.proto = 2
      BY <1>4, <1>7 DEF OtherFrames, ResendEntry, At
    <2> QED
      BY <1>2, <1>3, <1>4, <1>7, <2>1, PassedLined
  <1>8. ASSUME Clears(held, held') PROVE Lined(held')
    BY <1>4, <1>8, ClearedLined
  <1>9. Lined(held')
    BY <1>4, <1>5, <1>6, <1>7, <1>8, HeldGoes
  <1> QED
    BY <1>1, <1>4, <1>9

\* Where the entries of the buffer were while t still has its message.
LEMMA BufferEntriesGo ==
  ASSUME Typed, OtherFrames, ThreadFrames, Next, NEW t \in Threads, Loose(proc'[t]),
         NEW i \in 1 .. Len(buffer'), buffer'[i].kind = "log", buffer'[i].from = t
  PROVE  \E j \in 1 .. Len(buffer) : /\ j \in {i, i + 1} /\ buffer'[i] = buffer[j]
                                     /\ ResendEntry(t) /\ Resends => j = i + 1
  <1>1. buffer \in Seq(Message)
    BY DEF Typed, TypeOK
  <1>2. ASSUME NEW p \in Proc, Store(p), Fits, buffer' = Append(buffer, proc[p].msg)
        PROVE  i \in 1 .. Len(buffer) /\ buffer'[i] = buffer[i]
    <2>1. PICK m \in Message : m = proc[p].msg
      BY DEF Typed, TypeOK
    <2>2. /\ Len(buffer') = Len(buffer) + 1 /\ \A j \in 1 .. Len(buffer) : buffer'[j] = buffer[j]
          /\ buffer'[Len(buffer) + 1] = m
      BY <1>1, <1>2, <2>1, AppendEntries
    <2>3. i # Len(buffer) + 1
      <3>1. SUFFICES ASSUME i = Len(buffer) + 1 PROVE FALSE
        OBVIOUS
      <3>2. m.kind = "log" /\ m.from = t
        BY <2>2, <3>1
      <3>3. Taken(p)
        BY <1>2, BoxesAre DEF Taken, Took
      <3>4. ~Loose(proc'[p]) /\ m.from = p
        BY <2>1, <3>2, <3>3, TakenByThread
      <3> QED
        BY <3>2, <3>4
    <2>4. Len(buffer) \in Nat
      BY <1>1
    <2>5. i \in 1 .. Len(buffer)
      BY <2>2, <2>3, <2>4
    <2> QED
      BY <2>2, <2>5
  <1>3. ASSUME buffer # <<>>, buffer' = Tail(buffer)
        PROVE  i + 1 \in 1 .. Len(buffer) /\ buffer'[i] = buffer[i + 1]
    <2>1. /\ Len(buffer') = Len(buffer) - 1 /\ Len(buffer) \in Nat
          /\ \A j \in 1 .. Len(buffer) - 1 : buffer'[j] = buffer[j + 1]
      BY <1>1, <1>3, TailEntries
    <2> QED
      BY <2>1
  <1>4. buffer' # <<>>
    OBVIOUS
  <1>5. \/ i \in 1 .. Len(buffer) /\ buffer'[i] = buffer[i]
        \/ i + 1 \in 1 .. Len(buffer) /\ buffer'[i] = buffer[i + 1]
    BY <1>2, <1>3, <1>4, BufferGoes DEF Resends
  <1>6. CASE ResendEntry(t) /\ Resends
    <2>1. proc[t].cnt # 0 /\ Frames /\ t \in Proc
      BY <1>6, ThreadProcs DEF OtherFrames, Typed, Frames, ResendEntry, At
    <2>2. buffer' = Tail(buffer) /\ buffer # <<>>
      BY <1>6, <2>1, ResendEntryMoves DEF Resends
    <2> QED
      BY <1>3, <2>2
  <1>7. CASE ~(ResendEntry(t) /\ Resends)
    BY <1>5, <1>7
  <1> QED
    BY <1>6, <1>7

\* How a thread with a message comes to resending the buffer and to writing the message.
LEMMA LogCallGoes ==
  ASSUME Typed, OtherFrames, ThreadFrames, Next, NEW t \in Threads, Loose(proc[t]), Loose(proc'[t])
  PROVE  LET f == proc[t] g == proc'[t] IN
         /\ g.pc = "resendLoop" =>
              \/ g = f
              \/ buffer' = buffer /\ g.cnt = Len(buffer)
              \/ ResendEntry(t) /\ (Resends \/ buffer = <<>>) /\ f.pc = "resendLoop" /\ g.cnt = f.cnt - 1
         /\ g.pc = "out" /\ g.ret = "OK" =>
              \/ g = f
              \/ handle' = handle /\ (handle = 0 \/ ~appID)
              \/ buffer' = buffer /\ (Len(buffer) = 0 \/ ~appID \/ limit.proto # 2)
              \/ ResendEntry(t) /\ (Resends \/ buffer = <<>>) /\ f.pc = "resendLoop" /\ f.cnt = 1
  <1>1. Frames /\ Len(buffer) \in Nat /\ done.logs \in Nat /\ overflow_counter \in Nat /\ contexts \in Nat
    BY DEF Typed, TypeOK, Frames, History
  <1>2. t \in Proc /\ proc[t] \in FrameSet /\ proc[t].cnt \in Nat
    BY <1>1, ThreadProcs, FrameFields DEF Frames, FieldTypes
  <1>3. LogCall(t, proc[t]) /\ proc[t].msg.kind = "log"
    BY DEF ThreadFrames, ThreadFrame, LogCall, OtherCall, Loose
  <1>4. LogCall(t, proc'[t]) /\ proc'[t].msg.kind = "log"
    BY ThreadFramesStep DEF ThreadFrames, ThreadFrame, LogCall, OtherCall, Loose
  <1>5. CASE proc'[t] = proc[t]
    BY <1>5
  <1>6. CASE Output(t)
    <2>1. CASE Wrote(t)
      BY <1>1, <1>2, <1>3, <1>6, <2>1, OutputMoves DEF LogCall, GoesOn
    <2>2. CASE ~Wrote(t)
      BY <1>1, <1>2, <1>6, <2>2, OutputMoves
    <2> QED
      BY <2>1, <2>2
  <1>7. CASE CheckSize(t)
    BY <1>1, <1>2, <1>7, CheckSizeMoves
  <1>8. CASE Store(t)
    <2>1. CASE Fits
      BY <1>1, <1>2, <1>3, <1>8, <2>1, StoreMoves DEF LogCall, GoesOn
    <2>2. CASE ~Fits
      BY <1>1, <1>2, <1>3, <1>8, <2>2, StoreMoves DEF LogCall, GoesOn
    <2> QED
      BY <2>1, <2>2
  <1>9. CASE ResendBuffer(t)
    <2>1. buffer' = buffer /\ proc[t].pc = "resend"
      BY <1>9 DEF ResendBuffer, libVars, At
    <2>2. PICK n : n = IF appID /\ limit.proto = 2 THEN Len(buffer) ELSE 0
      OBVIOUS
    <2>3. Loops(proc[t], proc'[t], n)
      BY <1>1, <1>2, <1>9, <2>2, ResendBufferMoves
    <2>4. CASE n # 0
      <3>1. proc'[t].pc = "resendLoop" /\ proc'[t].cnt = n
        BY <2>3, <2>4 DEF Loops
      <3> QED
        BY <2>1, <2>2, <2>4, <3>1
    <2>5. CASE n = 0
      <3>1. Len(buffer) = 0 \/ ~appID \/ limit.proto # 2
        BY <2>2, <2>5
      <3>2. GoesOn([proc[t] EXCEPT !.ret = "OK"], proc'[t], "out")
        BY <1>3, <2>1, <2>3, <2>5 DEF Loops, LogCall
      <3>3. proc'[t].pc = "out"
        BY <3>2 DEF GoesOn
      <3> QED
        BY <2>1, <3>1, <3>3
    <2> QED
      BY <2>4, <2>5
  <1>10. CASE ResendEntry(t)
    <2>1. proc[t].pc = "resendLoop" /\ proc[t].cnt # 0
      BY <1>2, <1>10 DEF ResendEntry, At, OtherFrames
    <2>2. CASE buffer = <<>> \/ Resends
      <3>1. PICK n : n = proc[t].cnt - 1
        OBVIOUS
      <3>2. Loops(proc[t], proc'[t], n)
        BY <1>1, <1>2, <1>10, <2>1, <2>2, <3>1, ResendEntryMoves
      <3>3. CASE n # 0
        <4>1. proc'[t].pc = "resendLoop" /\ proc'[t].cnt = n
          BY <3>2, <3>3 DEF Loops
        <4> QED
          BY <1>10, <2>1, <2>2, <3>1, <4>1
      <3>4. CASE n = 0
        <4>1. proc[t].cnt = 1
          BY <1>2, <3>1, <3>4
        <4>2. GoesOn([proc[t] EXCEPT !.ret = "OK"], proc'[t], "out")
          BY <1>3, <2>1, <3>2, <3>4 DEF Loops, LogCall
        <4>3. proc'[t].pc = "out"
          BY <4>2 DEF GoesOn
        <4> QED
          BY <1>10, <2>1, <2>2, <4>1, <4>3
      <3> QED
        BY <3>3, <3>4
    <2>3. CASE ~(buffer = <<>> \/ Resends)
      <3>1. PICK f : f = [proc[t] EXCEPT !.ret = LogOut(handle)]
        OBVIOUS
      <3>2. f.ret = LogOut(handle)
        BY <1>2, <3>1, RetField, LogOutResult
      <3>3. GoesOn(f, proc'[t], "out")
        BY <1>1, <1>2, <1>3, <1>10, <2>1, <2>3, <3>1, ResendEntryMoves DEF LogCall
      <3>4. proc'[t].pc = "out" /\ proc'[t].ret = LogOut(handle)
        BY <3>2, <3>3 DEF GoesOn
      <3>5. LogOut(handle) # "OK"
        BY <2>3 DEF Resends
      <3> QED
        BY <3>4, <3>5
    <2> QED
      BY <2>2, <2>3
  <1>11. CASE SendOverflow(t)
    <2>1. GoesOn(proc[t], proc'[t], "reset") \/ GoesOn(proc[t], proc'[t], "old")
      BY <1>1, <1>2, <1>3, <1>11, SendOverflowMoves DEF LogCall
    <2> QED
      BY <2>1 DEF GoesOn
  <1>12. CASE ResetOverflow(t)
    <2>1. GoesOn(proc[t], proc'[t], "old")
      BY <1>1, <1>2, <1>3, <1>12, ResetOverflowMoves DEF LogCall
    <2> QED
      BY <2>1 DEF GoesOn
  <1>13. CASE LogOld(t)
    <2>1. handle' = handle
      BY <1>13 DEF LogOld, libVars
    <2>2. \/ proc'[t].pc = "resend"
          \/ proc'[t].pc = "out" /\ ~(handle # 0 /\ appID)
      BY <1>1, <1>13, LogOldMoves
    <2> QED
      BY <2>1, <2>2
  <1>14. CASE LogEnd(t)
    BY <1>1, <1>14, LogEndMoves, RestFields
  <1>15. CASE LogCounted(t)
    BY <1>1, <1>15, LogCountedMoves, RestFields
  <1>16. CASE LogStart(t)
    BY <1>1, <1>16, LogStartMoves
  <1>17. CASE RegisterApp(t) \/ RegisterContext(t) \/ RegisterAppEnd(t)
    <2>1. proc'[t].msg.kind # "log"
      BY <1>1, <1>3, <1>17, ThreadRegisters DEF ThreadFrame
    <2> QED
      BY <1>4, <2>1
  <1>18. CASE SkipStore(t)
    BY <1>1, <1>2, <1>3, <1>18, SkipStoreMoves DEF LogCall, GoesOn
  <1> QED
    BY <1>5, <1>6, <1>7, <1>8, <1>9, <1>10, <1>11, <1>12, <1>13, <1>14, <1>15, <1>16, <1>17, <1>18, ThreadTurns
       DEF Send

\* A new log call has no business with the buffer yet.
LEMMA LogCallStarts ==
  ASSUME Typed, NEW t \in Threads, LogStart(t), Attached'
  PROVE  appID' /\ proc'[t].pc = "overflow"
  <1>1. done.logs \in Nat /\ Frames
    BY DEF Typed, History, Frames
  <1>2. appID
    BY DoneLogStart DEF Attached
  <1>3. appID' = appID
    BY DEF LogStart, libVars
  <1> QED
    BY <1>1, <1>2, <1>3, LogStartMoves

LEMMA AheadStep ==
  ASSUME Typed, OtherFrames, ThreadFrames, ExitFrame, Ahead, Next
  PROVE  Ahead'
  <1> SUFFICES ASSUME Attached', NEW t \in Threads, Loose(proc'[t])
               PROVE  /\ appID'
                      /\ limit.proto = 2 =>
                           \A i \in 1 .. Len(buffer') : buffer'[i].kind = "log" /\ buffer'[i].from = t =>
                             /\ proc'[t].pc = "resendLoop" => i <= proc'[t].cnt
                             /\ proc'[t].pc = "out" /\ proc'[t].ret = "OK" => handle' = 0
    BY LimitStays DEF Ahead, Loose
  <1>1. Attached /\ handle' \in {0, handle}
    BY AttachedBefore
  <1>2. CASE LogStart(t)
    BY <1>2, LogCallStarts
  <1>3. CASE Loose(proc[t])
    <2>1. /\ appID
          /\ limit.proto = 2 => \A i \in 1 .. Len(buffer) : buffer[i].kind = "log" /\ buffer[i].from = t =>
               /\ proc[t].pc = "resendLoop" => i <= proc[t].cnt
               /\ proc[t].pc = "out" /\ proc[t].ret = "OK" => handle = 0
      BY <1>1, <1>3 DEF Ahead
    <2>2. ~ExitClear
      <3>1. proc[t].pc # "idle"
        BY <1>3 DEF ThreadFrames, ThreadFrame, LogCall, Loose
      <3> QED
        BY <3>1 DEF ExitClear, ExitFrame, Exiting, At
    <2>3. appID'
      BY <2>1, <2>2, AppIDGoes
    <2>4. ASSUME limit.proto = 2, NEW i \in 1 .. Len(buffer'), buffer'[i].kind = "log", buffer'[i].from = t
          PROVE  /\ proc'[t].pc = "resendLoop" => i <= proc'[t].cnt
                 /\ proc'[t].pc = "out" /\ proc'[t].ret = "OK" => handle' = 0
      <3>1. PICK j \in 1 .. Len(buffer) : /\ j \in {i, i + 1} /\ buffer'[i] = buffer[j]
                                          /\ ResendEntry(t) /\ Resends => j = i + 1
        BY <2>4, BufferEntriesGo
      <3>7. buffer[j].kind = "log" /\ buffer[j].from = t
        BY <2>4, <3>1
      <3>2. /\ proc[t].pc = "resendLoop" => j <= proc[t].cnt
            /\ proc[t].pc = "out" /\ proc[t].ret = "OK" => handle = 0
        BY <2>1, <2>4, <3>7, Zenon
      <3>8. Len(buffer) \in Nat /\ proc[t].cnt \in Nat
        BY ThreadCounts DEF Typed, TypeOK
      <3>3. /\ i \in Nat /\ j \in Nat /\ i >= 1 /\ i <= j /\ j <= Len(buffer) /\ Len(buffer) # 0
            /\ proc[t].cnt \in Nat /\ Len(buffer) \in Nat
        <4>1. PICK n \in Nat : n = Len(buffer)
          BY <3>8
        <4>2. j \in 1 .. n /\ i \in 1 .. Len(buffer') /\ j \in {i, i + 1}
          BY <3>1, <4>1
        <4>3. i \in Nat /\ j \in Nat /\ i >= 1 /\ i <= j /\ j <= n /\ n # 0
          BY <4>2
        <4> QED
          BY <3>8, <4>1, <4>3
      <3>6. buffer # <<>>
        BY <3>3
      <3>4. ASSUME proc'[t].pc = "resendLoop" PROVE i <= proc'[t].cnt
        <4>1. CASE proc'[t] = proc[t]
          BY <3>2, <3>3, <3>4, <4>1
        <4>2. CASE buffer' = buffer /\ proc'[t].cnt = Len(buffer)
          BY <3>3, <4>2
        <4>3. CASE ResendEntry(t) /\ (Resends \/ buffer = <<>>) /\ proc[t].pc = "resendLoop" /\ proc'[t].cnt = proc[t].cnt - 1
          <5>1. j = i + 1 /\ j <= proc[t].cnt
            BY <3>1, <3>2, <3>6, <4>3, Zenon
          <5> QED
            BY <3>3, <4>3, <5>1
        <4> QED
          BY <1>3, <3>4, <4>1, <4>2, <4>3, LogCallGoes
      <3>5. ASSUME proc'[t].pc = "out", proc'[t].ret = "OK" PROVE handle' = 0
        <4>1. CASE proc'[t] = proc[t]
          BY <1>1, <3>2, <3>5, <4>1
        <4>2. CASE handle' = handle /\ (handle = 0 \/ ~appID)
          BY <2>1, <4>2
        <4>3. CASE buffer' = buffer /\ (Len(buffer) = 0 \/ ~appID \/ limit.proto # 2)
          BY <2>1, <2>4, <3>3, <4>3
        <4>4. CASE ResendEntry(t) /\ (Resends \/ buffer = <<>>) /\ proc[t].pc = "resendLoop" /\ proc[t].cnt = 1
          <5>1. j = i + 1 /\ j <= 1
            BY <3>1, <3>2, <3>6, <4>4, Zenon
          <5> QED
            BY <3>3, <5>1
        <4> QED
          BY <1>3, <3>5, <4>1, <4>2, <4>3, <4>4, LogCallGoes
      <3> QED
        BY <3>4, <3>5
    <2> QED
      BY <2>3, <2>4
  <1> QED
    BY <1>2, <1>3, LooseGoes

--------------------------------------------------------------------------------
(* Messages that are overlooked *)

\* A message comes to the place where it may be overlooked when there is no application id.
LEMMA WaitingGoes ==
  ASSUME Typed, OtherFrames, ThreadFrames, Next, NEW t \in Threads, Waiting(proc'[t])
  PROVE  \/ Waiting(proc[t]) /\ proc'[t] = proc[t]
         \/ Output(t) /\ ~appID /\ proc[t].msg.kind = "log"
  <1>1. Frames /\ Len(buffer) \in Nat /\ done.logs \in Nat /\ overflow_counter \in Nat /\ contexts \in Nat
    BY DEF Typed, TypeOK, Frames, History
  <1>2. t \in Proc /\ proc[t] \in FrameSet /\ ThreadFrame(t, proc[t])
    BY <1>1, ThreadProcs DEF Frames, ThreadFrames
  <1>3. proc'[t].pc = "check" /\ proc'[t].msg.kind = "log" /\ proc'[t].ret = "OK"
    BY DEF Waiting
  <1>4. CASE proc'[t] = proc[t]
    BY <1>4
  <1>5. CASE Send(t)
    <2>1. proc[t].pc = "resendLoop" => proc[t].cnt # 0
      BY <1>2 DEF OtherFrames
    <2>2. LogCall(t, proc[t]) /\ proc[t].msg.kind = "log"
      BY <1>1, <1>2, <1>3, <1>5, <2>1, ThreadSends DEF ThreadFrame
    <2>3. CASE Output(t)
      <3>1. ~Wrote(t)
        BY <1>1, <1>2, <1>3, <2>2, <2>3, OutputMoves DEF GoesOn, LogCall
      <3> QED
        BY <1>1, <1>2, <1>3, <2>2, <2>3, <3>1, OutputMoves
    <2>4. CASE SkipStore(t)
      BY <1>1, <1>2, <1>3, <2>2, <2>4, SkipStoreMoves DEF GoesOn, LogCall
    <2>5. CASE CheckSize(t)
      BY <1>1, <1>2, <1>3, <2>5, CheckSizeMoves
    <2>6. CASE Store(t)
      BY <1>1, <1>2, <1>3, <2>2, <2>6, StoreMoves DEF GoesOn, LogCall
    <2>7. ASSUME NEW n, Loops(proc[t], proc'[t], n), proc[t].pc \in {"resend", "resendLoop"}
          PROVE  FALSE
      BY <1>3, <2>2, <2>7 DEF Loops, GoesOn, LogCall
    <2>8. CASE ResendBuffer(t)
      BY <1>1, <1>2, <2>7, <2>8, ResendBufferMoves
    <2>9. CASE ResendEntry(t)
      <3>1. proc[t].pc = "resendLoop" /\ proc[t].cnt # 0
        BY <2>1, <2>9 DEF ResendEntry, At
      <3>2. CASE buffer = <<>> \/ Resends
        BY <1>1, <1>2, <2>7, <2>9, <3>1, <3>2, ResendEntryMoves
      <3>3. CASE ~(buffer = <<>> \/ Resends)
        BY <1>1, <1>2, <1>3, <2>2, <2>9, <3>1, <3>3, ResendEntryMoves DEF GoesOn, LogCall
      <3> QED
        BY <3>2, <3>3
    <2>10. CASE SendOverflow(t)
      BY <1>1, <1>2, <1>3, <2>2, <2>10, SendOverflowMoves DEF GoesOn, LogCall
    <2>11. CASE ResetOverflow(t)
      BY <1>1, <1>2, <1>3, <2>2, <2>11, ResetOverflowMoves DEF GoesOn, LogCall
    <2> QED
      BY <1>5, <2>3, <2>4, <2>5, <2>6, <2>8, <2>9, <2>10, <2>11 DEF Send
  <1>6. CASE LogStart(t)
    BY <1>1, <1>3, <1>6, LogStartMoves
  <1>7. CASE LogOld(t)
    BY <1>1, <1>3, <1>7, LogOldMoves
  <1>8. CASE LogEnd(t)
    BY <1>1, <1>3, <1>8, LogEndMoves, RestFields
  <1>9. CASE LogCounted(t)
    BY <1>1, <1>3, <1>9, LogCountedMoves, RestFields
  <1>10. CASE RegisterApp(t) \/ RegisterContext(t) \/ RegisterAppEnd(t)
    BY <1>1, <1>2, <1>3, <1>10, ThreadRegisters
  <1> QED
    BY <1>4, <1>5, <1>6, <1>7, <1>8, <1>9, <1>10, ThreadTurns

\* A log call goes on or begins.
LEMMA LogCallBefore ==
  ASSUME Typed, OtherFrames, ThreadFrames, Next, NEW t \in Threads, proc'[t].msg.kind = "log"
  PROVE  proc[t].msg.kind = "log" \/ LogStart(t)
  <1>1. Frames /\ Len(buffer) \in Nat /\ done.logs \in Nat /\ overflow_counter \in Nat /\ contexts \in Nat
    BY DEF Typed, TypeOK, Frames, History
  <1>2. t \in Proc /\ ThreadFrame(t, proc[t]) /\ (proc[t].pc = "resendLoop" => proc[t].cnt # 0)
    BY ThreadProcs DEF ThreadFrames, OtherFrames
  <1>3. CASE Send(t)
    BY <1>1, <1>2, <1>3, ThreadSends
  <1>4. CASE LogOld(t) \/ LogEnd(t) \/ LogCounted(t)
    BY <1>1, <1>4, LogOldMoves, LogEndMoves, LogCountedMoves, RestFields
  <1>5. CASE RegisterApp(t) \/ RegisterContext(t) \/ RegisterAppEnd(t)
    BY <1>1, <1>2, <1>5, ThreadRegisters
  <1> QED
    BY <1>3, <1>4, <1>5, ThreadTurns

LEMMA MutexGoes ==
  ASSUME Next
  PROVE  \/ mutex' = mutex
         \/ mutex = Nobody
         \/ \E u \in Threads : mutex = u /\ (LogEnd(u) \/ LogCounted(u)) /\ proc' = [proc EXCEPT ![u] = Rest]
         \/ FreeJoined
  <1>1. ASSUME NEW p \in Proc, Send(p)
        PROVE  mutex' = mutex
    BY <1>1 DEF Send, Output, SkipStore, CheckSize, Store, ResendBuffer, ResendEntry, SendOverflow, ResetOverflow
  <1>2. ASSUME NEW t \in Threads, LogStart(t) \/ LogOld(t)
        PROVE  mutex' = mutex \/ mutex = Nobody
    BY <1>2 DEF LogStart, LogOld
  <1>3. ASSUME NEW t \in Threads, LogEnd(t) \/ LogCounted(t)
        PROVE  mutex' = mutex \/ (mutex = t /\ proc' = [proc EXCEPT ![t] = Rest])
    BY <1>3 DEF LogEnd, LogCounted, Become
  <1>4. ASSUME NEW t \in Threads, RegisterApp(t) \/ RegisterContext(t) \/ RegisterAppEnd(t)
        PROVE  mutex' = mutex
    BY <1>4 DEF RegisterApp, RegisterContext, RegisterAppEnd
  <1>5. ASSUME NEW p \in {Housekeeper, Exit}, AttachStep(p)
        PROVE  mutex' = mutex
    BY <1>5 DEF AttachStep, Reattach, ReattachOpen, ReattachContext
  <1>6. CASE HousekeeperResend \/ HousekeeperCancelled
    BY <1>6 DEF HousekeeperResend, HousekeeperCancelled
  <1>7. CASE Flushing
    BY <1>7 DEF Flushing, ExitStart, BlowOut, BlowOutTimeout, BlowOutOverflow, BlowOutResend, BlowOutEnd
  <1>8. CASE Ending
    BY <1>8 DEF Ending, ExitUnregister, ExitClear, FreeStart, FreeLock
  <1>9. CASE Environment
    BY <1>9 DEF Environment, DaemonStarts, DaemonStops, PipeFills, DaemonReads
  <1> QED
    BY <1>1, <1>2, <1>3, <1>4, <1>5, <1>6, <1>7, <1>8, <1>9, Steps

LEMMA OverlooksStep ==
  ASSUME Typed, OtherFrames, ThreadFrames, ExitFrame, Overlooks, Next
  PROVE  Overlooks'
  <1>1. Frames /\ done.logs \in Nat /\ limit' = limit /\ limit.proto \in {1, 2}
    BY LimitStays, ConstAssumption DEF Typed, TypeOK, Frames, History, Limit
  <1>2. \A t \in Threads : proc[t].msg.kind = "log" => proc[t].pc # "idle" /\ proc[t].msg.from = t
    BY DEF ThreadFrames, ThreadFrame, LogCall
  <1>3. ASSUME NEW t \in Threads, limit.proto = 1, proc'[t].msg.kind = "log"
        PROVE  mutex' = t
    <2>1. CASE LogStart(t)
      BY <1>3, <2>1 DEF LogStart
    <2>2. CASE ~LogStart(t)
      <3>1. proc[t].msg.kind = "log" /\ mutex = t
        BY <1>3, <2>2, LogCallBefore DEF Overlooks
      <3>2. ~FreeJoined
        BY <1>2, <3>1 DEF FreeJoined, ExitFrame, Exiting, At
      <3>3. proc' # [proc EXCEPT ![t] = Rest]
        BY <1>1, <1>3, ThreadProcs, RestFields DEF Frames
      <3> QED
        BY <3>1, <3>2, <3>3, ThreadProcs, MutexGoes
    <2> QED
      BY <2>1, <2>2
  <1>4. ASSUME NEW t \in Threads, limit.proto = 1, Waiting(proc'[t])
        PROVE  ~appID'
    <2>1. CASE Output(t) /\ ~appID
      BY <2>1 DEF Output, libVars
    <2>2. CASE Waiting(proc[t]) /\ proc'[t] = proc[t]
      <3>1. ~appID /\ mutex = t /\ proc[t].pc = "check"
        BY <1>4, <2>2 DEF Overlooks, Waiting
      <3>2. ASSUME NEW u \in Threads, RegisterApp(u) PROVE FALSE
        BY <3>1, <3>2, ThreadProcs DEF RegisterApp, MayLock, MayCall, At
      <3>3. ~ExitClear
        BY <1>2, <2>2 DEF ExitClear, ExitFrame, Exiting, At, Waiting
      <3> QED
        BY <3>1, <3>2, <3>3, AppIDSet
    <2> QED
      BY <1>4, <2>1, <2>2, WaitingGoes
  <1>5. ASSUME NEW p \in Proc, SkipStore(p)
        PROVE  /\ p \in Threads /\ proc[p].msg.from = p /\ limit.proto = 2 /\ Waiting(proc[p])
               /\ ~Waiting(proc'[p]) /\ appID' = appID /\ appID /\ Moves(p)
    <2>1. /\ Moves(p) /\ proc[p].pc = "check" /\ proc[p].msg.kind = "log" /\ proc[p].ret = "OK" /\ appID
          /\ GoesOn(proc[p], proc'[p], proc[p].back)
      BY <1>1, <1>5, SkipStoreMoves
    <2>2. p \in Threads
      BY <2>1 DEF OtherFrames, Proc
    <2>3. proc[p].msg.from = p /\ proc[p].back = "logged"
      BY <2>1, <2>2 DEF ThreadFrames, ThreadFrame, LogCall
    <2>4. proc'[p].pc = "logged"
      BY <2>1, <2>3 DEF GoesOn
    <2>5. limit.proto = 2
      BY <1>1, <2>1, <2>2 DEF Overlooks, Waiting
    <2> QED
      BY <1>5, <2>1, <2>2, <2>3, <2>4, <2>5 DEF SkipStore, libVars, Waiting
  <1>6. ASSUME NEW m \in done.overlooked
        PROVE  appID' /\ m.from \in Threads /\ ~Waiting(proc'[m.from])
    <2>1. appID /\ m.from \in Threads /\ ~Waiting(proc[m.from]) /\ limit.proto = 2
      BY <1>1, <1>6 DEF Overlooks
    <2>2. ~Waiting(proc'[m.from])
      BY <2>1, WaitingGoes
    <2>3. ASSUME NEW u \in Threads, RegisterApp(u) PROVE appID'
      BY <2>3 DEF RegisterApp
    <2>4. ExitClear => appID'
      BY <2>1 DEF ExitClear
    <2> QED
      BY <2>1, <2>2, <2>3, <2>4, AppIDSet
  <1>7. limit'.proto = 1 => done'.overlooked = {}
    <2>1. limit.proto = 1 => done.overlooked = {}
      BY DEF Overlooks
    <2> QED
      BY <1>1, <1>5, <2>1, OverlookedGoes
  <1>8. \A m \in done'.overlooked : appID' /\ m.from \in Threads /\ ~Waiting(proc'[m.from])
    <2>1. CASE done'.overlooked = done.overlooked
      BY <1>6, <2>1
    <2>2. ASSUME NEW p \in Proc, SkipStore(p), done'.overlooked = done.overlooked \union {proc[p].msg}
          PROVE  \A m \in done'.overlooked : appID' /\ m.from \in Threads /\ ~Waiting(proc'[m.from])
      BY <1>5, <1>6, <2>2
    <2> QED
      BY <2>1, <2>2, OverlookedGoes
  <1>9. \A m, k \in done'.overlooked : m.from = k.from => m = k
    <2>1. CASE done'.overlooked = done.overlooked
      BY <2>1 DEF Overlooks
    <2>2. ASSUME NEW p \in Proc, SkipStore(p), done'.overlooked = done.overlooked \union {proc[p].msg}
          PROVE  \A m, k \in done'.overlooked : m.from = k.from => m = k
      <3>1. \A m \in done.overlooked : m.from # p
        BY <1>5, <2>2 DEF Overlooks
      <3> QED
        BY <1>5, <2>2, <3>1 DEF Overlooks
    <2> QED
      BY <2>1, <2>2, OverlookedGoes
  <1>10. limit'.proto = 1 => \A t \in Threads : /\ proc'[t].msg.kind = "log" => mutex' = t
                                                /\ Waiting(proc'[t]) => ~appID'
    BY <1>1, <1>3, <1>4
  <1> QED
    BY <1>7, <1>8, <1>9, <1>10 DEF Overlooks, Waiting

--------------------------------------------------------------------------------
(* The invariant *)

LEMMA InitFrames ==
  ASSUME Init
  PROVE  /\ Frames /\ \A p \in Proc : proc[p] \in {Rest, Poll}
         /\ \A t \in Threads : proc[t] = Rest
         /\ proc[Exit] = Rest
  <1>1. proc = [p \in Proc |-> IF p = Housekeeper THEN Poll ELSE Rest]
    BY DEF Init
  <1>2. \A p \in Proc : proc[p] = IF p = Housekeeper THEN Poll ELSE Rest
    BY <1>1
  <1>3. Frames
    BY <1>1, FrameTypes DEF Frames
  <1> QED
    BY <1>2, <1>3, ThreadProcs, OtherProcs

LEMMA InitTyped ==
  ASSUME Init
  PROVE  Typed
  <1>1. limit \in Limits /\ daemon \in {0, 1}
    BY DEF Init
  <1>2. daemon \in 0 .. MaxDaemons /\ 0 \in 0 .. MaxDaemons
    BY <1>1, ConstAssumption
  <1>3. done \in History
    <2>1. done = [logs |-> 0, fills |-> 0, daemons |-> daemon, attached |-> 0,
                  loggers |-> {}, discarded |-> {}, registered |-> FALSE, early |-> {},
                  refused |-> {}, warned |-> FALSE, lost |-> {}, overlooked |-> {}]
      BY DEF Init
    <2> QED
      BY <1>2, <2>1 DEF History
  <1>4. Frames
    BY InitFrames
  <1>5. \A p \in Proc : proc[p].msg \in Message /\ proc[p].cnt \in Nat
    BY <1>4 DEF Frames, FrameSet
  <1>6. received \in [1 .. MaxDaemons -> Seq(Message)]
    BY DEF Init
  <1>7. /\ appID \in BOOLEAN /\ freeing \in BOOLEAN /\ full \in BOOLEAN
        /\ handle = daemon /\ buffer = <<>> /\ size = BufMin /\ overflow_counter = 0 /\ contexts = 0
        /\ mutex = Nobody
    BY DEF Init
  <1>8. buffer \in Seq(Message) /\ Len(buffer) = 0
    BY <1>7
  <1>9. size \in BufMin .. BufMax /\ Len(buffer) <= size
    BY <1>7, <1>8, ConstAssumption
  <1>10. TypeOK
    BY <1>2, <1>5, <1>6, <1>7, <1>8, <1>9 DEF TypeOK
  <1> QED
    BY <1>1, <1>3, <1>4, <1>10 DEF Typed, Frames

LEMMA InitEmpty ==
  ASSUME Init
  PROVE  \A d \in Boxes : held[d] = <<>> /\ 1 .. Len(held[d]) = {}
  <1>1. buffer = <<>> /\ \A d \in 1 .. MaxDaemons : received[d] = <<>>
    BY DEF Init
  <1>2. \A d \in Boxes : held[d] = <<>>
    BY <1>1, BoxesAre, HeldIs, InitTyped
  <1> QED
    BY <1>2

LEMMA InitInv ==
  ASSUME Init
  PROVE  UserInv
  <1>1. Typed
    BY InitTyped
  <1>2. \A t \in Threads : proc[t] = Rest
    BY InitFrames
  <1>3. ThreadFrames
    BY <1>2, RestFields DEF ThreadFrames, ThreadFrame, OtherCall
  <1>4. OtherFrames
    <2>1. \A p \in Proc : proc[p] \in {Rest, Poll}
      BY InitFrames
    <2>2. /\ Rest.msg.kind # "log" /\ Poll.msg.kind # "log" /\ Rest.pc # "resendLoop" /\ Poll.pc # "resendLoop"
          /\ Rest.back # "resendLoop" /\ Rest.then # "resendLoop" /\ Poll.back # "resendLoop" /\ Poll.then # "resendLoop"
      BY DEF Rest, Poll, Frame, NoMsg, Msg
    <2> QED
      BY <2>1, <2>2, OtherProcs DEF OtherFrames
  <1>5. ExitFrame
    <2>1. proc[Exit] = Rest
      BY InitFrames
    <2> QED
      BY <2>1, RestFields DEF ExitFrame, ExitPlace, Exiting, At
  <1>6. done.logs = 0 /\ done.lost = {} /\ buffer = <<>> /\ done.attached = 0
    BY DEF Init
  <1>7. Warned
    <2>1. LogNumbers(<<>>) = {}
      BY DEF LogNumbers
    <2> QED
      BY <1>6, <2>1 DEF Warned
  <1>8. \A t \in Threads : ~Loose(proc[t])
    BY <1>2, RestFields DEF Loose
  <1>9. \A d \in Boxes : held[d] = <<>> /\ 1 .. Len(held[d]) = {}
    BY InitEmpty
  <1>10. Unique
    BY <1>8, <1>9 DEF Unique, Distinct
  <1>11. Kept
    BY <1>6 DEF Kept
  <1>12. Newest
    BY <1>8 DEF Newest
  <1>13. Line
    <2>1. handle \in {0, 1}
      BY DEF Init
    <2>2. received[1] = <<>> /\ 1 .. Len(received[1]) = {} /\ 1 .. Len(buffer) = {}
      BY <1>1, <1>6, <1>9, HeldIs, OneIsBox
    <2> QED
      BY <1>9, <2>1, <2>2 DEF Line, InTurn, Precedes
  <1>14. Ahead
    BY <1>8 DEF Ahead
  <1>15. Overlooks
    BY <1>2, RestFields DEF Init, Overlooks, Waiting
  <1> QED
    BY <1>1, <1>3, <1>4, <1>5, <1>7, <1>10, <1>11, <1>12, <1>13, <1>14, <1>15 DEF UserInv

LEMMA InvStep ==
  ASSUME UserInv, [Next]_vars
  PROVE  UserInv'
  <1>1. CASE Next
    BY <1>1, TypedStep, ThreadFramesStep, OtherFramesStep, ExitFrameStep, WarnedStep, UniqueStep, KeptStep,
       NewestStep, LineStep, AheadStep, OverlooksStep DEF UserInv
  <1>2. CASE UNCHANGED vars
    <2>1. /\ appID' = appID /\ handle' = handle /\ buffer' = buffer /\ size' = size
          /\ overflow_counter' = overflow_counter /\ contexts' = contexts /\ freeing' = freeing
          /\ mutex' = mutex /\ proc' = proc /\ daemon' = daemon /\ full' = full /\ limit' = limit
          /\ received' = received /\ done' = done
      BY <1>2 DEF vars, libVars, envVars
    <2>2. held' = held
      BY <2>1 DEF held, Held
    <2>3. Typed'
      BY <2>1 DEF UserInv, Typed, TypeOK
    <2>4. ThreadFrames' /\ OtherFrames'
      BY <2>1 DEF UserInv, ThreadFrames, OtherFrames, ThreadFrame, LogCall, OtherCall
    <2>5. ExitFrame' /\ Warned'
      BY <2>1 DEF UserInv, ExitFrame, ExitPlace, Exiting, At, Warned, Flushed, GaveUp
    <2>6. Unique' /\ Kept'
      BY <2>1, <2>2 DEF UserInv, Unique, Distinct, In, Loose, Kept
    <2>7. Newest'
      BY <2>1, <2>2 DEF UserInv, Newest, Loose, Earlier
    <2>8. Line'
      BY <2>1, <2>2 DEF UserInv, Line, Attached, InTurn, Precedes, Earlier
    <2>9. Ahead'
      BY <2>1 DEF UserInv, Ahead, Attached, Loose
    <2>10. Overlooks'
      BY <2>1 DEF UserInv, Overlooks, Waiting
    <2> QED
      BY <2>3, <2>4, <2>5, <2>6, <2>7, <2>8, <2>9, <2>10 DEF UserInv
  <1> QED
    BY <1>1, <1>2

(***************************************************************************)
(* Theorem.  Whatever the threads, the housekeeper, the atexit handler     *)
(* and the daemons do, and wherever they are interrupted: each process is  *)
(* at a place where its call can be; each log message is at one place      *)
(* only, in a thread's call, the startup buffer or the pipe of one daemon, *)
(* unless it was discarded and counted or dropped at exit; and until the   *)
(* library reattaches the messages of a thread lie in the order of its     *)
(* calls (dlt_user_log_send_log, dlt_user_log_resend_buffer).              *)
(***************************************************************************)
THEOREM UserInvariant == Spec => []UserInv
  <1>1. Init => UserInv
    BY InitInv
  <1>2. UserInv /\ [Next]_vars => UserInv'
    BY InvStep
  <1> QED
    BY <1>1, <1>2, PTL DEF Spec

LEMMA InvHandedOver ==
  ASSUME UserInv
  PROVE  HandedOver
  <1>1. Typed /\ Unique /\ Line
    BY DEF UserInv
  <1>2. /\ held \in [Boxes -> Seq(Message)] /\ held[0] = buffer
        /\ \A d \in Boxes : d # 0 => held[d] = received[d]
    BY <1>1, HeldIs
  <1>3. \A d \in Boxes : Held(d) = held[d] /\ DOMAIN Held(d) = 1 .. Len(held[d])
    <2>1. \A d \in Boxes : Held(d) = held[d]
      BY DEF held
    <2>2. \A d \in Boxes : DOMAIN held[d] = 1 .. Len(held[d])
      BY <1>2
    <2> QED
      BY <2>1, <2>2
  <1>4. NoDuplicate
    <2> SUFFICES ASSUME NEW d \in Boxes, NEW e \in Boxes, NEW i \in DOMAIN Held(d), NEW j \in DOMAIN Held(e),
                        IsLog(Held(d)[i]), IsLog(Held(e)[j]), Held(d)[i].n = Held(e)[j].n
                 PROVE  d = e /\ i = j
      BY DEF NoDuplicate, Boxes
    <2>1. i \in 1 .. Len(held[d]) /\ j \in 1 .. Len(held[e]) /\ Held(d) = held[d] /\ Held(e) = held[e]
      BY <1>3
    <2>2. held[d][i].kind = "log" /\ held[e][j].kind = "log" /\ held[d][i].n = held[e][j].n
      BY <2>1 DEF IsLog
    <2>3. Distinct(held)
      BY <1>1 DEF Unique
    <2> QED
      BY <2>1, <2>2, <2>3, SamePlace
  <1>5. ThreadOrder
    <2> SUFFICES ASSUME done.attached = 0, "log" \notin done.early,
                        NEW d \in 1 .. MaxDaemons, NEW e \in 1 .. MaxDaemons,
                        NEW i \in DOMAIN received[d], NEW j \in DOMAIN received[e],
                        d < e \/ (d = e /\ i < j), IsLog(received[d][i]), IsLog(received[e][j]),
                        received[d][i].from = received[e][j].from
                 PROVE  received[d][i].n < received[e][j].n
      BY DEF ThreadOrder
    <2>1. d \in Boxes /\ e \in Boxes /\ d # 0 /\ e # 0
      BY ConstAssumption DEF Boxes
    <2>2. held[d] = received[d] /\ held[e] = received[e]
      BY <1>2, <2>1
    <2>3. i \in 1 .. Len(received[d]) /\ j \in 1 .. Len(received[e])
      BY <1>2, <2>1, <2>2
    <2>4. d = 1 /\ e = 1
      <3>1. \A c \in Boxes \ {0, 1} : held[c] = <<>>
        BY <1>1 DEF Line, Attached
      <3>2. DOMAIN <<>> = {}
        OBVIOUS
      <3> QED
        BY <2>1, <2>2, <3>1, <3>2
    <2>5. InTurn(received[1]) /\ i < j
      BY <1>1, <2>4 DEF Line, Attached
    <2> QED
      BY <2>3, <2>4, <2>5 DEF InTurn, Earlier, IsLog
  <1> QED
    BY <1>1, <1>4, <1>5 DEF HandedOver, Typed

LEMMA InvLossReported ==
  ASSUME UserInv
  PROVE  LossReported
  <1>1. Typed /\ ThreadFrames /\ Warned /\ Kept /\ Overlooks
    BY DEF UserInv
  <1>2. ExitReportsLoss
    BY <1>1 DEF Warned, ExitReportsLoss
  <1>3. ASSUME Quiet, NEW n \in 1 .. done.logs
        PROVE  \/ (\E d \in 0 .. MaxDaemons : n \in LogNumbers(Held(d))) \/ n \in done.discarded \union done.lost
               \/ \E m \in done.overlooked : m.n = n
    <2>1. \A t \in Threads : ~Loose(proc[t])
      BY <1>1, <1>3 DEF Quiet, At, ThreadFrames, ThreadFrame, LogCall, Loose
    <2>2. CASE In(held, n)
      <3>1. PICK d \in Boxes : \E i \in 1 .. Len(held[d]) : held[d][i].kind = "log" /\ held[d][i].n = n
        BY <2>2 DEF In
      <3>2. held[d] \in Seq(Message) /\ held[d] = Held(d)
        BY <1>1, HeldIs DEF held
      <3>3. n \in LogNumbers(held[d])
        BY <3>1, <3>2, LogNumbersType
      <3> QED
        BY <3>2, <3>3 DEF Boxes
    <2> QED
      BY <1>1, <1>3, <2>1, <2>2 DEF Kept
  <1> QED
    BY <1>1, <1>2, <1>3 DEF LossReported, NoSilentLoss, OverlooksOne, Overlooks

\* What several threads log, dlt_user_log_send_log and its protocol 2 form, is handed to the
\* daemons once, although threads, the housekeeper and the atexit handler resend the startup
\* buffer (dlt_user_log_resend_buffer) at the same time, and a thread's messages in the order of
\* its calls as long as the library has not reattached; the buffer keeps within its limit.
THEOREM LogsHandedOver == Spec => []HandedOver
  <1>1. UserInv => HandedOver
    BY InvHandedOver
  <1> QED
    BY <1>1, UserInvariant, PTL

\* Whenever no call is under way, every message that was logged is in a pipe, in the buffer,
\* counted as discarded, was dropped by dlt_free, or overlooked by dlt_user_log_send_log_v2; what
\* dlt_free drops was reported by the warning of dlt_user_atexit_handler, and of a thread at most
\* one message is overlooked, none with protocol 1.
THEOREM LossIsReported == Spec => []LossReported
  <1>1. UserInv => LossReported
    BY InvLossReported
  <1> QED
    BY <1>1, UserInvariant, PTL

--------------------------------------------------------------------------------
(* What the daemon knows of the application and its contexts *)

\* The application lives, its pipe was never full, and it registered no context before itself.
Orderly == ~Exiting /\ done.fills = 0 /\ "context" \notin done.early

\* The handle belongs to the running daemon.
Linked == handle = daemon /\ daemon # 0

\* A handle never belongs to a daemon that has yet to start.
Daemons == /\ handle <= done.daemons /\ daemon <= done.daemons
           /\ full => done.fills > 0

\* The call of dlt_register_app under way.
Registering(f) == f.pc = "registered" \/ (f.back = "registered" /\ f.pc \in {"out", "check", "store"})
Registrations ==
  ~Exiting =>
    /\ done.registered => appID
    /\ \A t \in Threads : Registering(proc[t]) =>
         /\ appID /\ ~done.registered /\ proc[t].msg = Application
         /\ proc[t].pc = "out" => proc[t].ret = "OK"
    /\ \A t, u \in Threads : Registering(proc[t]) /\ Registering(proc[u]) => t = u
    /\ "context" \notin done.early /\ ~done.registered => contexts = 0

\* Where the housekeeper can be while it reattaches.
Attaching(f) ==
  /\ f.pc \in {"attach", "open", "out", "check", "store", "context", "attached", "resend", "resendLoop"}
  /\ f.then = "poll"
  /\ f.pc \in {"out", "check", "store", "context"} => f.back = "context" /\ f.cnt >= 1
  /\ f.pc = "out" => f.ret = "OK" /\ f.err = "OK"
  /\ f.pc = "out" => IF f.cnt = 1 THEN f.msg = Application ELSE f.msg = Context(f.cnt - 1)
\* It stores a registration only when the pipe broke, and then the handle is closed and opened
\* again before the library is linked.
Attachment ==
  ~Exiting =>
    LET f == proc[Housekeeper] IN
    /\ Attaching(f)
    /\ f.pc = "out" => appID
    /\ f.pc = "open" => handle = 0
    /\ f.pc \in {"check", "store"} \/ (f.pc = "context" /\ f.err = "BUFFER_FULL")
         => done.fills > 0 \/ ~Linked

\* Context n was registered with the daemon after the application, or will be from the buffer.
Known(n) ==
  \E i \in 1 .. Len(received[daemon]) :
    /\ received[daemon][i] = Application
    /\ \/ \E j \in 1 .. Len(received[daemon]) : i < j /\ received[daemon][j] = Context(n)
       \/ \E j \in 1 .. Len(buffer) : buffer[j] = Context(n)
\* A thread is about to register context n, or the housekeeper has still to do it again.
Flying(f, n) == f.pc \in {"out", "check", "store"} /\ f.msg = Context(n)
Awaiting(f, n) == \/ f.pc = "out" /\ f.cnt <= n + 1
                  \/ f.pc = "context" /\ f.cnt <= n

ApplicationTold ==
  appID => \/ \E i \in 1 .. Len(received[daemon]) : received[daemon][i] = Application
           \/ proc[Housekeeper].pc = "out" /\ proc[Housekeeper].cnt = 1
           \/ \E t \in Threads : Registering(proc[t]) /\ proc[t].pc = "out"
ContextsTold ==
  \A n \in (1 .. contexts) \ done.refused :
    \/ Known(n) \/ (\E t \in Threads : Flying(proc[t], n)) \/ Awaiting(proc[Housekeeper], n)

KnownInv ==
  /\ Daemons /\ Registrations /\ Attachment
  /\ Orderly /\ Linked => ApplicationTold /\ ContextsTold

--------------------------------------------------------------------------------
(* The history and the links between the library and the daemons *)

\* The fields of the history that tell of registrations and daemons.
Steady == /\ done'.daemons = done.daemons /\ done'.fills = done.fills /\ done'.refused = done.refused
          /\ done'.registered = done.registered /\ done'.early = done.early

LEMMA SteadyHistory ==
  ASSUME Typed,
         \/ done' = done \/ (\E p \in Proc : SkipStore(p) \/ ReattachOpen(p)) \/ (\E t \in Threads : LogCounted(t))
         \/ BlowOutTimeout \/ BlowOutEnd \/ FreeJoined
  PROVE  Steady
  <1>1. done \in History
    BY DEF Typed
  <1>2. CASE done' = done
    BY <1>2 DEF Steady
  <1>3. ASSUME NEW p \in Proc, ReattachOpen(p) PROVE Steady
    <2>1. done' = done \/ done' = [done EXCEPT !.attached = daemon]
      BY <1>3 DEF ReattachOpen
    <2> QED
      BY <1>1, <2>1 DEF History, Steady
  <1>4. ASSUME NEW t \in Threads, LogCounted(t) PROVE Steady
    <2>1. PICK r : r = done.discarded \union {proc[t].msg.n}
      OBVIOUS
    <2>2. done' = [done EXCEPT !.discarded = r]
      BY <1>4, <2>1 DEF LogCounted
    <2> QED
      BY <1>1, <2>2 DEF History, Steady
  <1>5. CASE BlowOutTimeout \/ BlowOutEnd
    <2>1. PICK w : w = LeftOver
      OBVIOUS
    <2>2. done' = done \/ done' = [done EXCEPT !.warned = w]
      BY <1>5, <2>1 DEF BlowOutTimeout, BlowOutEnd
    <2> QED
      BY <1>1, <2>2 DEF History, Steady
  <1>6. CASE FreeJoined
    <2>1. PICK l : l = LogNumbers(buffer)
      OBVIOUS
    <2>2. done' = [done EXCEPT !.lost = l]
      BY <1>6, <2>1 DEF FreeJoined
    <2> QED
      BY <1>1, <2>2 DEF History, Steady
  <1>7. ASSUME NEW p \in Proc, SkipStore(p) PROVE Steady
    <2>1. PICK r : r = done.overlooked \union {proc[p].msg}
      OBVIOUS
    <2>2. done' = [done EXCEPT !.overlooked = r]
      BY <1>7, <2>1 DEF SkipStore
    <2> QED
      BY <1>1, <2>2 DEF History, Steady
  <1> QED
    BY <1>2, <1>3, <1>4, <1>5, <1>6, <1>7

\* How these fields change.
Records ==
  /\ done'.daemons = done.daemons \/ (DaemonStarts /\ done'.daemons = done.daemons + 1)
  /\ done.fills <= done'.fills /\ (PipeFills => done'.fills > 0)
  /\ done'.registered = done.registered \/ (\E t \in Threads : RegisterAppEnd(t) /\ done'.registered = TRUE)
  /\ "context" \in done.early => "context" \in done'.early
  /\ done.refused \subseteq done'.refused

LEMMA HistoryRecords ==
  ASSUME Typed, Next
  PROVE  /\ Records
         /\ \A t \in Threads : RegisterContext(t) /\ ~done.registered => "context" \in done'.early
         /\ \A p \in Proc : Store(p) /\ ~Fits /\ proc[p].msg.kind = "context" => proc[p].msg.n \in done'.refused
  <1>1. done \in History /\ done.fills \in Nat /\ done.daemons \in Nat
    BY HistoryFields DEF Typed
  <1>2. ASSUME Steady PROVE Records
    <2>1. ~PipeFills
      <3>1. ASSUME PipeFills PROVE done'.fills = done.fills + 1
        BY <1>1, <3>1 DEF PipeFills, History
      <3> QED
        BY <1>1, <1>2, <3>1 DEF Steady
    <2> QED
      BY <1>1, <1>2, <2>1 DEF Steady, Records
  <1>3. ASSUME NEW p \in Proc, Store(p) PROVE Records
    <2>1. PICK r : r = done.refused \union {proc[p].msg.n}
      OBVIOUS
    <2>2. done' = done \/ done' = [done EXCEPT !.refused = r]
      BY <1>3, <2>1 DEF Store
    <2>3. /\ done'.daemons = done.daemons /\ done'.fills = done.fills
          /\ done'.registered = done.registered /\ done'.early = done.early /\ done.refused \subseteq done'.refused
      BY <1>1, <2>1, <2>2 DEF History
    <2>4. ~PipeFills
      <3>1. ASSUME PipeFills PROVE done'.fills = done.fills + 1
        BY <1>1, <3>1 DEF PipeFills, History
      <3> QED
        BY <1>1, <2>3, <3>1
    <2> QED
      BY <1>1, <2>3, <2>4 DEF Records
  <1>4. ASSUME NEW p \in Proc, Store(p), ~Fits, proc[p].msg.kind = "context"
        PROVE  proc[p].msg.n \in done'.refused
    <2>1. PICK r : r = done.refused \union {proc[p].msg.n}
      OBVIOUS
    <2>2. done' = [done EXCEPT !.refused = r]
      BY <1>4, <2>1 DEF Store
    <2>3. done'.refused = r
      BY <1>1, <2>2 DEF History
    <2> QED
      BY <2>1, <2>3
  <1>5. ASSUME NEW t \in Threads, LogStart(t) PROVE Records
    <2>1. PICK n : n = done.logs + 1
      OBVIOUS
    <2>2. PICK l : l = done.loggers \union {t}
      OBVIOUS
    <2>3. PICK e : e = IF appID THEN done.early ELSE done.early \union {"log"}
      OBVIOUS
    <2>4. done' = [done EXCEPT !.logs = n, !.loggers = l, !.early = e]
      BY <1>5, <2>1, <2>2, <2>3 DEF LogStart
    <2>5. /\ done'.daemons = done.daemons /\ done'.fills = done.fills
          /\ done'.registered = done.registered /\ done'.early = e /\ done'.refused = done.refused
      BY <1>1, <2>4 DEF History
    <2>6. ~PipeFills
      <3>1. ASSUME PipeFills PROVE done'.fills = done.fills + 1
        BY <1>1, <3>1 DEF PipeFills, History
      <3> QED
        BY <1>1, <2>5, <3>1
    <2> QED
      BY <1>1, <2>3, <2>5, <2>6 DEF Records
  <1>6. ASSUME NEW t \in Threads, RegisterAppEnd(t) PROVE Records
    <2>1. done' = [done EXCEPT !.registered = TRUE]
      BY <1>6 DEF RegisterAppEnd
    <2>2. /\ done'.daemons = done.daemons /\ done'.fills = done.fills
          /\ done'.registered = TRUE /\ done'.early = done.early /\ done'.refused = done.refused
      BY <1>1, <2>1 DEF History
    <2>3. ~PipeFills
      <3>1. ASSUME PipeFills PROVE done'.fills = done.fills + 1
        BY <1>1, <3>1 DEF PipeFills, History
      <3> QED
        BY <1>1, <2>2, <3>1
    <2> QED
      BY <1>1, <1>6, <2>2, <2>3 DEF Records
  <1>7. ASSUME NEW t \in Threads, RegisterContext(t)
        PROVE  Records /\ (~done.registered => "context" \in done'.early)
    <2>1. PICK e : e = done.early \union {"context"}
      OBVIOUS
    <2>2. (done.registered /\ done' = done) \/ (~done.registered /\ done' = [done EXCEPT !.early = e])
      BY <1>7, <2>1 DEF RegisterContext
    <2>3. CASE ~done.registered /\ done' = [done EXCEPT !.early = e]
      <3>1. /\ done'.daemons = done.daemons /\ done'.fills = done.fills
            /\ done'.registered = done.registered /\ done'.early = e /\ done'.refused = done.refused
        BY <1>1, <2>3 DEF History
      <3>2. ~PipeFills
        <4>1. ASSUME PipeFills PROVE done'.fills = done.fills + 1
          BY <1>1, <4>1 DEF PipeFills, History
        <4> QED
          BY <1>1, <3>1, <4>1
      <3> QED
        BY <1>1, <2>1, <3>1, <3>2 DEF Records
    <2>4. CASE done.registered /\ done' = done
      BY <1>2, <2>4 DEF Steady
    <2> QED
      BY <2>2, <2>3, <2>4
  <1>8. ASSUME DaemonStarts PROVE Records
    <2>1. PICK d : d = done.daemons + 1
      OBVIOUS
    <2>2. done' = [done EXCEPT !.daemons = d]
      BY <1>8, <2>1 DEF DaemonStarts
    <2>3. /\ done'.daemons = d /\ done'.fills = done.fills
          /\ done'.registered = done.registered /\ done'.early = done.early /\ done'.refused = done.refused
      BY <1>1, <2>2 DEF History
    <2>4. ~PipeFills
      <3>1. ASSUME PipeFills PROVE done'.fills = done.fills + 1
        BY <1>1, <3>1 DEF PipeFills, History
      <3> QED
        BY <1>1, <2>3, <3>1
    <2> QED
      BY <1>1, <1>8, <2>1, <2>3, <2>4 DEF Records
  <1>9. ASSUME PipeFills PROVE Records
    <2>1. PICK d : d = done.fills + 1
      OBVIOUS
    <2>2. done' = [done EXCEPT !.fills = d]
      BY <1>9, <2>1 DEF PipeFills
    <2>3. /\ done'.daemons = done.daemons /\ done'.fills = d
          /\ done'.registered = done.registered /\ done'.early = done.early /\ done'.refused = done.refused
      BY <1>1, <2>2 DEF History
    <2> QED
      BY <1>1, <2>1, <2>3 DEF Records
  <1>10. Records
    BY <1>2, <1>3, <1>5, <1>6, <1>7, <1>8, <1>9, DoneChanges, SteadyHistory
  <1> QED
    BY <1>4, <1>7, <1>10

\* A pipe is full only after it was filled.
LEMMA FullGoes ==
  ASSUME Next
  PROVE  full' = full \/ full' = FALSE \/ PipeFills
  <1>1. ASSUME NEW p \in Proc, Send(p)
        PROVE  full' = full
    BY <1>1 DEF Send, Output, SkipStore, CheckSize, Store, ResendBuffer, ResendEntry, SendOverflow, ResetOverflow, envVars
  <1>2. ASSUME NEW t \in Threads, LogStart(t) \/ LogOld(t) \/ LogEnd(t) \/ LogCounted(t)
        PROVE  full' = full
    BY <1>2 DEF LogStart, LogOld, LogEnd, LogCounted, envVars
  <1>3. ASSUME NEW t \in Threads, RegisterApp(t) \/ RegisterContext(t) \/ RegisterAppEnd(t)
        PROVE  full' = full
    BY <1>3 DEF RegisterApp, RegisterContext, RegisterAppEnd, envVars
  <1>4. ASSUME NEW p \in {Housekeeper, Exit}, AttachStep(p)
        PROVE  full' = full
    BY <1>4 DEF AttachStep, Reattach, ReattachOpen, ReattachContext, envVars
  <1>5. CASE HousekeeperResend \/ HousekeeperCancelled
    BY <1>5 DEF HousekeeperResend, HousekeeperCancelled, envVars
  <1>6. CASE Flushing
    BY <1>6 DEF Flushing, ExitStart, BlowOut, BlowOutTimeout, BlowOutOverflow, BlowOutResend, BlowOutEnd, envVars
  <1>7. CASE Ending
    BY <1>7 DEF Ending, ExitUnregister, ExitClear, FreeStart, FreeLock, FreeJoined, envVars
  <1>8. CASE Environment
    BY <1>8 DEF Environment, DaemonStarts, DaemonStops, DaemonReads
  <1> QED
    BY <1>1, <1>2, <1>3, <1>4, <1>5, <1>6, <1>7, <1>8, Steps

LEMMA DaemonsStep ==
  ASSUME Typed, Daemons, Next
  PROVE  Daemons'
  <1>1. /\ handle \in Nat /\ daemon \in Nat /\ done.daemons \in Nat /\ done.fills \in Nat
        /\ full \in BOOLEAN
    BY ConstAssumption, HistoryFields DEF Typed, TypeOK
  <1>2. Records
    BY HistoryRecords
  <1>3. done.daemons <= done'.daemons /\ done'.daemons \in Nat
    BY <1>1, <1>2 DEF Records
  <1>4. handle' <= done'.daemons
    BY <1>1, <1>3, HandleChanges DEF Daemons
  <1>5. daemon' <= done'.daemons
    <2>1. CASE DaemonStarts
      <3>1. daemon' = done.daemons + 1
        BY <2>1 DEF DaemonStarts
      <3>2. done'.daemons = daemon'
        <4>1. done \in History
          BY DEF Typed
        <4>2. PICK d : d = daemon'
          OBVIOUS
        <4>3. done' = [done EXCEPT !.daemons = d]
          BY <2>1, <4>2 DEF DaemonStarts
        <4> QED
          BY <4>1, <4>2, <4>3 DEF History
      <3> QED
        BY <1>1, <3>1, <3>2
    <2>2. CASE daemon' \in {0, daemon}
      BY <1>1, <1>3, <2>2 DEF Daemons
    <2> QED
      BY <2>1, <2>2, DaemonChanges
  <1>6. full' => done'.fills > 0
    <2>1. done.fills <= done'.fills
      BY <1>2 DEF Records
    <2>2. CASE PipeFills
      BY <1>2, <2>2 DEF Records
    <2>3. CASE full' = full
      <3>1. ASSUME full PROVE done'.fills > 0
        <4>1. done.fills > 0
          BY <3>1 DEF Daemons
        <4>2. done'.fills \in Nat
          BY HistoryFields, DoneChanges, DoneQuiet, DoneLogStart, DoneLogCounted, DoneAttached, DoneWarned, DoneFreed
        <4> QED
          BY <1>1, <2>1, <4>1, <4>2
      <3> QED
        BY <2>3, <3>1
    <2> QED
      BY <2>2, <2>3, FullGoes
  <1> QED
    BY <1>4, <1>5, <1>6 DEF Daemons

--------------------------------------------------------------------------------
(* The steps before exit *)

LEMMA RegistrationFields ==
  /\ Application.kind = "app" /\ \A n : Context(n).kind = "context" /\ Context(n).n = n
  /\ Rest.ret = "OK" /\ Rest.err = "OK" /\ Rest.msg = NoMsg /\ NoMsg.kind = "none"
  /\ Poll.pc = "attach" /\ Poll.back = "poll" /\ Poll.then = "poll" /\ Poll.msg = NoMsg
  BY DEF Application, Context, Msg, Rest, Poll, Frame, NoMsg

\* As long as the application does not exit the atexit handler takes no step, and only the
\* housekeeper opens the pipe.
LEMMA BeforeExit ==
  ASSUME Typed, OtherFrames, ThreadFrames, ExitFrame, Next, ~Exiting'
  PROVE  /\ ~Exiting /\ ~FreeJoined /\ ~ExitClear /\ ~HousekeeperCancelled
         /\ ~Flushing /\ ~Ending /\ ~Send(Exit) /\ ~AttachStep(Exit)
         /\ appID => appID'
         /\ \A q \in Proc : ReattachOpen(q) => q = Housekeeper
  <1>1. ~Exiting /\ proc[Exit].pc = "idle"
    BY ExitGoes DEF Exiting, At
  <1>2. ~Ending /\ ~HousekeeperCancelled
    BY <1>1 DEF Ending, ExitUnregister, ExitClear, FreeStart, FreeLock, FreeJoined, HousekeeperCancelled, At
  <1>3. ~BlowOut /\ ~BlowOutTimeout /\ ~BlowOutOverflow /\ ~BlowOutResend /\ ~BlowOutEnd
    BY <1>1 DEF BlowOut, BlowOutTimeout, BlowOutOverflow, BlowOutResend, BlowOutEnd, At
  <1>4. ~ExitStart
    <2>1. ASSUME ExitStart PROVE FALSE
      <3>1. Frames
        BY DEF Typed, Frames
      <3>2. proc'[Exit].pc \in {"unregister", "blowOut"}
        <4>1. PICK pc : pc = IF buffer = <<>> THEN "unregister" ELSE "blowOut"
          OBVIOUS
        <4>2. PICK g : g = Frame(pc, NoMsg, "cleared", "exitResent")
          OBVIOUS
        <4>3. g \in FrameSet /\ g.pc = pc /\ pc \in {"unregister", "blowOut"}
          <5>1. pc \in {"unregister", "blowOut"} /\ pc \in Pcs
            BY <4>1, PcsAre
          <5>2. g \in FrameSet
            BY <4>2, <5>1, FrameTypes, PcsAre, MessageTypes
          <5> QED
            BY <4>2, <5>1, <5>2 DEF Frame
        <4>4. Become(Exit, g)
          BY <2>1, <4>1, <4>2 DEF ExitStart
        <4> QED
          BY <3>1, <4>3, <4>4, OtherProcs, BecomeMoves DEF Frames
      <3> QED
        BY <3>2 DEF Exiting, At
    <2> QED
      BY <2>1
  <1>5. ~Send(Exit)
    BY <1>1 DEF Send, Output, SkipStore, CheckSize, Store, ResendBuffer, ResendEntry, SendOverflow, ResetOverflow, At
  <1>6. ~AttachStep(Exit)
    BY <1>1 DEF AttachStep, Reattach, ReattachOpen, ReattachContext, At
  <1>7. ~FreeJoined /\ ~ExitClear
    BY <1>2 DEF Ending
  <1>8. ASSUME NEW q \in Proc, ReattachOpen(q) PROVE q = Housekeeper
    <2>1. proc[q].pc = "open"
      BY <1>8 DEF ReattachOpen, At
    <2>2. q \notin Threads
      BY <2>1 DEF ThreadFrames, ThreadFrame, LogCall, OtherCall
    <2> QED
      BY <1>1, <2>1, <2>2 DEF Proc
  <1>9. appID => appID'
    BY <1>7, AppIDGoes
  <1> QED
    BY <1>1, <1>2, <1>3, <1>4, <1>5, <1>6, <1>7, <1>8, <1>9 DEF Flushing

\* Once the link to a daemon is lost only opening the pipe restores it.
LEMMA LinkGoes ==
  ASSUME Typed, OtherFrames, ThreadFrames, ExitFrame, Daemons, Next, ~Exiting', Linked'
  PROVE  \/ Linked /\ handle' = handle /\ daemon' = daemon
         \/ ReattachOpen(Housekeeper) /\ daemon # 0
  <1>1. /\ handle \in Nat /\ daemon \in Nat /\ done.daemons \in Nat
    BY ConstAssumption, HistoryFields DEF Typed, TypeOK
  <1>2. CASE DaemonStarts
    <2>1. handle' = handle /\ daemon' = done.daemons + 1
      BY <1>2 DEF DaemonStarts, libVars
    <2>2. handle' = daemon'
      BY DEF Linked
    <2>3. handle <= done.daemons
      BY DEF Daemons
    <2> QED
      BY <1>1, <2>1, <2>2, <2>3
  <1>3. CASE daemon' \in {0, daemon}
    <2>1. daemon' = daemon /\ daemon # 0 /\ handle' = daemon
      BY <1>3 DEF Linked
    <2>2. CASE handle' \in {0, handle}
      BY <2>1, <2>2 DEF Linked
    <2>3. CASE \E q \in Proc : ReattachOpen(q) /\ daemon # 0
      BY <2>3, BeforeExit
    <2> QED
      BY <2>2, <2>3, HandleGoes
  <1> QED
    BY <1>2, <1>3, DaemonChanges

\* The steps of the housekeeper before exit.
LEMMA HousekeeperTurns ==
  ASSUME Typed, OtherFrames, ThreadFrames, ExitFrame, Next, ~Exiting'
  PROVE  \/ proc'[Housekeeper] = proc[Housekeeper]
         \/ Send(Housekeeper) \/ AttachStep(Housekeeper) \/ HousekeeperResend
  <1>1. Housekeeper \in Proc /\ Housekeeper # Exit /\ \A t \in Threads : t # Housekeeper
    BY OtherProcs, ThreadProcs
  <1> QED
    BY <1>1, BeforeExit, Movers DEF Moves

--------------------------------------------------------------------------------
(* The threads that register *)

LEMMA RegisterAppFrame ==
  ASSUME Frames, NEW t \in Threads, RegisterApp(t)
  PROVE  LET g == proc'[t] IN
         g.pc = "out" /\ g.msg = Application /\ g.back = "registered" /\ g.then = "idle" /\ g.ret = "OK"
  <1>1. t \in Proc
    BY ThreadProcs
  <1>2. PICK g : g = Frame("out", Application, "registered", "idle")
    OBVIOUS
  <1>3. g \in FrameSet
    BY <1>2, MessageTypes, FrameTypes, PcsAre
  <1>4. g.pc = "out" /\ g.msg = Application /\ g.back = "registered" /\ g.then = "idle" /\ g.ret = "OK"
    BY <1>2 DEF Frame
  <1>5. Become(t, g)
    BY <1>2 DEF RegisterApp
  <1> QED
    BY <1>1, <1>3, <1>4, <1>5, BecomeMoves DEF Frames

LEMMA RegisterContextFrame ==
  ASSUME Frames, NEW t \in Threads, RegisterContext(t), contexts \in Nat
  PROVE  LET g == proc'[t] IN
         g.pc = "out" /\ g.msg = Context(contexts + 1) /\ g.back = "idle" /\ g.then = "idle" /\ g.ret = "OK"
  <1>1. t \in Proc
    BY ThreadProcs
  <1>2. PICK c : c = Context(contexts + 1)
    OBVIOUS
  <1>3. c \in Message
    BY <1>2, MessageTypes
  <1>4. PICK g : g = Frame("out", c, "idle", "idle")
    OBVIOUS
  <1>5. g \in FrameSet
    BY <1>3, <1>4, FrameTypes, PcsAre
  <1>6. g.pc = "out" /\ g.msg = c /\ g.back = "idle" /\ g.then = "idle" /\ g.ret = "OK"
    BY <1>4 DEF Frame
  <1>7. Become(t, g)
    BY <1>2, <1>4 DEF RegisterContext
  <1> QED
    BY <1>1, <1>2, <1>5, <1>6, <1>7, BecomeMoves DEF Frames

\* A thread in the helpers: it goes on with its registration, which it has put into the pipe or
\* the buffer when it leaves them.
LEMMA SendRegisters ==
  ASSUME Frames, Len(buffer) \in Nat, NEW t \in Threads, ThreadFrame(t, proc[t]), Send(t),
         proc[t].pc = "resendLoop" => proc[t].cnt # 0
  PROVE  LET f == proc[t] g == proc'[t] IN
         /\ Registering(g) => Registering(f) /\ g.msg = f.msg /\ g.pc # "out"
         /\ Registering(f) /\ f.pc = "out" /\ f.msg = Application => Took(t, handle) \/ ~Wrote(t)
         /\ \A n : Flying(f, n) => Flying(g, n) \/ (Output(t) /\ Wrote(t)) \/ Store(t)
  <1>1. t \in Proc /\ proc[t] \in FrameSet
    BY ThreadProcs DEF Frames
  <1>2. \A n : Flying(proc[t], n) => proc[t].pc \in {"out", "check", "store"} /\ proc[t].msg = Context(n)
    BY DEF Flying
  <1>3. CASE Output(t)
    <2>1. CASE Wrote(t)
      BY <1>1, <1>3, <2>1, OutputMoves, RestFields DEF ThreadFrame, LogCall, OtherCall, GoesOn, Registering, Took
    <2>2. CASE ~Wrote(t)
      BY <1>1, <1>2, <1>3, <2>2, OutputMoves DEF ThreadFrame, LogCall, OtherCall, Registering, Flying
    <2> QED
      BY <2>1, <2>2
  <1>4. CASE CheckSize(t)
    BY <1>1, <1>2, <1>4, CheckSizeMoves DEF ThreadFrame, LogCall, OtherCall, Registering, Flying
  <1>5. CASE Store(t)
    <2>1. PICK f : f = IF Fits THEN proc[t] ELSE [proc[t] EXCEPT !.err = "BUFFER_FULL"]
      OBVIOUS
    <2>2. f.pc = proc[t].pc /\ f.msg = proc[t].msg /\ f.back = proc[t].back
      BY <1>1, <2>1, ErrField, ResultsAre
    <2>3. proc[t].pc = "store" /\ GoesOn(f, proc'[t], proc[t].back)
      BY <1>1, <1>5, <2>1, StoreMoves
    <2> QED
      BY <1>5, <2>2, <2>3, RestFields DEF ThreadFrame, LogCall, OtherCall, GoesOn, Registering
  <1>6. ASSUME NEW n, Loops(proc[t], proc'[t], n), proc[t].pc \in {"resend", "resendLoop"}
        PROVE  ~Registering(proc'[t])
    <2>1. CASE n # 0
      BY <1>6, <2>1 DEF Loops, Registering
    <2>2. CASE n = 0
      <3>1. PICK f : f = [proc[t] EXCEPT !.ret = "OK"]
        OBVIOUS
      <3>2. f.back = proc[t].back
        BY <1>1, <3>1, RetField, ResultsAre
      <3>3. GoesOn(f, proc'[t], proc[t].then)
        BY <1>6, <2>2, <3>1 DEF Loops
      <3> QED
        BY <1>6, <3>2, <3>3, RestFields DEF ThreadFrame, LogCall, OtherCall, GoesOn, Registering
    <2> QED
      BY <2>1, <2>2
  <1>7. CASE ResendBuffer(t)
    <2>1. proc[t].pc = "resend"
      BY <1>1, <1>7, ResendBufferMoves
    <2> QED
      BY <1>1, <1>6, <1>7, <2>1, ResendBufferMoves DEF Registering, Flying
  <1>8. CASE ResendEntry(t)
    <2>1. proc[t].pc = "resendLoop" /\ proc[t].cnt # 0
      BY <1>8 DEF ResendEntry, At
    <2>2. CASE buffer = <<>> \/ Resends
      BY <1>1, <1>6, <1>8, <2>1, <2>2, ResendEntryMoves DEF Registering, Flying
    <2>3. CASE ~(buffer = <<>> \/ Resends)
      <3>1. PICK f : f = [proc[t] EXCEPT !.ret = LogOut(handle)]
        OBVIOUS
      <3>2. f.back = proc[t].back
        BY <1>1, <3>1, RetField, LogOutResult
      <3>3. GoesOn(f, proc'[t], proc[t].then)
        BY <1>1, <1>8, <2>1, <2>3, <3>1, ResendEntryMoves
      <3> QED
        BY <2>1, <3>2, <3>3, RestFields DEF ThreadFrame, LogCall, OtherCall, GoesOn, Registering, Flying
    <2> QED
      BY <2>2, <2>3
  <1>9. CASE SendOverflow(t)
    BY <1>1, <1>9, SendOverflowMoves, RestFields DEF ThreadFrame, LogCall, OtherCall, GoesOn, Registering, Flying
  <1>10. CASE ResetOverflow(t)
    BY <1>1, <1>10, ResetOverflowMoves, RestFields DEF ThreadFrame, LogCall, OtherCall, GoesOn, Registering, Flying
  <1>11. CASE SkipStore(t)
    <2>1. ~Registering(proc[t]) /\ proc[t].msg.kind = "log"
      BY <1>1, <1>11, SkipStoreMoves DEF ThreadFrame, LogCall, Registering
    <2>2. \A n : Context(n).kind # "log"
      BY DEF Context, Msg
    <2>3. \A n : ~Flying(proc[t], n)
      BY <1>2, <2>1, <2>2
    <2> QED
      BY <1>1, <1>11, <2>1, <2>3, SkipStoreMoves DEF ThreadFrame, LogCall, Registering, GoesOn
  <1> QED
    BY <1>3, <1>4, <1>5, <1>7, <1>8, <1>9, <1>10, <1>11 DEF Send

\* How a registration by a thread goes on.
LEMMA RegisteringGoes ==
  ASSUME Typed, OtherFrames, ThreadFrames, Next, NEW t \in Threads, Registering(proc'[t])
  PROVE  \/ RegisterApp(t) /\ proc'[t].pc = "out" /\ proc'[t].msg = Application /\ proc'[t].ret = "OK"
         \/ proc'[t] = proc[t]
         \/ Registering(proc[t]) /\ ~RegisterAppEnd(t) /\ proc'[t].msg = proc[t].msg /\ proc'[t].pc # "out"
  <1>1. /\ Frames /\ Len(buffer) \in Nat /\ done.logs \in Nat /\ overflow_counter \in Nat /\ contexts \in Nat
        /\ t \in Proc /\ ThreadFrame(t, proc[t]) /\ (proc[t].pc = "resendLoop" => proc[t].cnt # 0)
    BY ThreadProcs DEF Typed, TypeOK, Frames, History, ThreadFrames, OtherFrames
  <1>2. CASE Send(t)
    <2>1. ~RegisterAppEnd(t)
      BY <1>2 DEF RegisterAppEnd, Send, Output, SkipStore, CheckSize, Store, ResendBuffer, ResendEntry, SendOverflow,
         ResetOverflow, At
    <2> QED
      BY <1>1, <1>2, <2>1, SendRegisters
  <1>3. CASE LogStart(t)
    BY <1>1, <1>3, LogStartMoves DEF Registering
  <1>4. CASE LogOld(t)
    BY <1>1, <1>4, LogOldMoves DEF Registering, ThreadFrame, LogCall, OtherCall
  <1>5. CASE LogEnd(t)
    BY <1>1, <1>5, LogEndMoves, RestFields DEF Registering, ThreadFrame, LogCall, OtherCall
  <1>6. CASE LogCounted(t)
    BY <1>1, <1>6, LogCountedMoves, RestFields DEF Registering
  <1>7. CASE RegisterApp(t)
    BY <1>1, <1>7, RegisterAppFrame
  <1>8. CASE RegisterContext(t)
    BY <1>1, <1>8, RegisterContextFrame DEF Registering
  <1>9. CASE RegisterAppEnd(t)
    BY <1>1, <1>9, RegisterAppEndMoves, RestFields DEF Registering, GoesOn
  <1> QED
    BY <1>2, <1>3, <1>4, <1>5, <1>6, <1>7, <1>8, <1>9, ThreadTurns

LEMMA FlyingGoes ==
  ASSUME Typed, OtherFrames, ThreadFrames, Next, NEW t \in Threads, NEW n, Flying(proc[t], n)
  PROVE  Flying(proc'[t], n) \/ (Output(t) /\ Wrote(t)) \/ Store(t)
  <1>1. /\ Frames /\ Len(buffer) \in Nat
        /\ t \in Proc /\ ThreadFrame(t, proc[t]) /\ (proc[t].pc = "resendLoop" => proc[t].cnt # 0)
    BY ThreadProcs DEF Typed, TypeOK, Frames, ThreadFrames, OtherFrames
  <1>2. CASE Send(t)
    BY <1>1, <1>2, SendRegisters
  <1>3. proc[t].pc \in {"out", "check", "store"}
    BY DEF Flying
  <1>4. ~LogStart(t) /\ ~LogOld(t) /\ ~LogEnd(t) /\ ~LogCounted(t)
    BY <1>3 DEF LogStart, LogOld, LogEnd, LogCounted, MayCall, At
  <1>5. ~RegisterApp(t) /\ ~RegisterContext(t) /\ ~RegisterAppEnd(t)
    BY <1>3 DEF RegisterApp, RegisterContext, RegisterAppEnd, MayCall, At
  <1> QED
    BY <1>2, <1>4, <1>5, ThreadTurns

LEMMA ContextsGo ==
  ASSUME Next
  PROVE  contexts' = contexts \/ FreeJoined \/ \E t \in Threads : RegisterContext(t) /\ contexts' = contexts + 1
  <1>1. ASSUME NEW p \in Proc, Send(p)
        PROVE  contexts' = contexts
    BY <1>1 DEF Send, Output, SkipStore, CheckSize, Store, ResendBuffer, ResendEntry, SendOverflow, ResetOverflow, libVars
  <1>2. ASSUME NEW t \in Threads, LogStart(t) \/ LogOld(t) \/ LogEnd(t) \/ LogCounted(t)
        PROVE  contexts' = contexts
    BY <1>2 DEF LogStart, LogOld, LogEnd, LogCounted, libVars
  <1>3. ASSUME NEW t \in Threads, RegisterApp(t) \/ RegisterContext(t) \/ RegisterAppEnd(t)
        PROVE  contexts' = contexts \/ (RegisterContext(t) /\ contexts' = contexts + 1)
    BY <1>3 DEF RegisterApp, RegisterContext, RegisterAppEnd, libVars
  <1>4. ASSUME NEW p \in {Housekeeper, Exit}, AttachStep(p)
        PROVE  contexts' = contexts
    BY <1>4 DEF AttachStep, Reattach, ReattachOpen, ReattachContext, libVars
  <1>5. CASE HousekeeperResend \/ HousekeeperCancelled
    BY <1>5 DEF HousekeeperResend, HousekeeperCancelled, libVars
  <1>6. CASE Flushing
    BY <1>6 DEF Flushing, ExitStart, BlowOut, BlowOutTimeout, BlowOutOverflow, BlowOutResend, BlowOutEnd, libVars
  <1>7. CASE Ending
    BY <1>7 DEF Ending, ExitUnregister, ExitClear, FreeStart, FreeLock, libVars
  <1>8. CASE Environment
    BY <1>8 DEF Environment, DaemonStarts, DaemonStops, PipeFills, DaemonReads, libVars
  <1> QED
    BY <1>1, <1>2, <1>3, <1>4, <1>5, <1>6, <1>7, <1>8, Steps

LEMMA RegisteringEnds ==
  ASSUME Frames, NEW t \in Threads, RegisterAppEnd(t)
  PROVE  Registering(proc[t]) /\ ~Registering(proc'[t])
  BY RegisterAppEndMoves, RestFields DEF Registering, GoesOn

LEMMA RegistrationsStep ==
  ASSUME Typed, OtherFrames, ThreadFrames, ExitFrame, Registrations, Next
  PROVE  Registrations'
  <1> SUFFICES ASSUME ~Exiting'
               PROVE  /\ done'.registered => appID'
                      /\ \A t \in Threads : Registering(proc'[t]) =>
                           /\ appID' /\ ~done'.registered /\ proc'[t].msg = Application
                           /\ proc'[t].pc = "out" => proc'[t].ret = "OK"
                      /\ \A t, u \in Threads : Registering(proc'[t]) /\ Registering(proc'[u]) => t = u
                      /\ "context" \notin done'.early /\ ~done'.registered => contexts' = 0
    BY DEF Registrations, Registering
  <1>1. ~Exiting /\ (appID => appID') /\ ~FreeJoined
    BY BeforeExit
  <1>2. /\ done.registered => appID
        /\ \A t \in Threads : Registering(proc[t]) =>
             /\ appID /\ ~done.registered /\ proc[t].msg = Application
             /\ proc[t].pc = "out" => proc[t].ret = "OK"
        /\ \A t, u \in Threads : Registering(proc[t]) /\ Registering(proc[u]) => t = u
        /\ "context" \notin done.early /\ ~done.registered => contexts = 0
    BY <1>1 DEF Registrations
  <1>3. /\ Records /\ Frames /\ contexts \in Nat
        /\ \A t \in Threads : RegisterContext(t) /\ ~done.registered => "context" \in done'.early
    BY HistoryRecords DEF Typed, TypeOK, Frames
  <1>4. done.registered \in BOOLEAN
    BY DEF Typed, History
  <1>5. ASSUME NEW t \in Threads, RegisterApp(t)
        PROVE  ~appID /\ appID' /\ done' = done /\ Moves(t)
    BY <1>3, <1>5, RegisterMoves DEF RegisterApp
  <1>6. done'.registered => appID'
    <2>1. CASE done'.registered = done.registered
      BY <1>1, <1>2, <2>1
    <2>2. ASSUME NEW t \in Threads, RegisterAppEnd(t) PROVE appID'
      BY <1>1, <1>2, <1>3, <2>2, RegisteringEnds
    <2> QED
      BY <1>3, <2>1, <2>2 DEF Records
  <1>7. ASSUME NEW t \in Threads, Registering(proc[t]), ~RegisterAppEnd(t)
        PROVE  appID' /\ ~done'.registered
    <2>1. \A u \in Threads : ~RegisterAppEnd(u)
      BY <1>2, <1>3, <1>7, RegisteringEnds
    <2>2. done'.registered = done.registered
      BY <1>3, <2>1 DEF Records
    <2> QED
      BY <1>1, <1>2, <1>7, <2>2
  <1>8. ASSUME NEW t \in Threads, Registering(proc'[t])
        PROVE  /\ appID' /\ ~done'.registered /\ proc'[t].msg = Application
               /\ proc'[t].pc = "out" => proc'[t].ret = "OK"
    <2>1. ~RegisterAppEnd(t)
      BY <1>3, <1>8, RegisteringEnds
    <2>2. CASE RegisterApp(t) /\ proc'[t].pc = "out" /\ proc'[t].msg = Application /\ proc'[t].ret = "OK"
      BY <1>2, <1>5, <2>2
    <2>3. CASE proc'[t] = proc[t]
      BY <1>2, <1>7, <1>8, <2>1, <2>3
    <2>4. CASE Registering(proc[t]) /\ proc'[t].msg = proc[t].msg /\ proc'[t].pc # "out"
      BY <1>2, <1>7, <2>1, <2>4
    <2> QED
      BY <1>8, <2>2, <2>3, <2>4, RegisteringGoes
  <1>9. ASSUME NEW t \in Threads, NEW u \in Threads, Registering(proc'[t]), Registering(proc'[u])
        PROVE  t = u
    <2>1. ASSUME NEW a \in Threads, NEW b \in Threads, RegisterApp(a), Registering(proc'[b])
          PROVE  a = b
      <3>1. ASSUME a # b PROVE FALSE
        <4>1. proc'[b] = proc[b]
          BY <1>5, <2>1, <3>1, ThreadProcs DEF Moves
        <4> QED
          BY <1>2, <1>5, <2>1, <4>1
      <3> QED
        BY <3>1
    <2>2. CASE RegisterApp(t) \/ RegisterApp(u)
      BY <1>9, <2>1, <2>2
    <2>3. CASE ~RegisterApp(t) /\ ~RegisterApp(u)
      <3>1. Registering(proc[t])
        BY <1>9, <2>3, RegisteringGoes
      <3>2. Registering(proc[u])
        BY <1>9, <2>3, RegisteringGoes
      <3> QED
        BY <1>2, <3>1, <3>2
    <2> QED
      BY <2>2, <2>3
  <1>10. ASSUME "context" \notin done'.early, ~done'.registered
         PROVE  contexts' = 0
    <2>1. "context" \notin done.early /\ ~done.registered
      BY <1>3, <1>4, <1>10 DEF Records
    <2>2. \A t \in Threads : ~RegisterContext(t)
      BY <1>3, <1>10, <2>1
    <2> QED
      BY <1>1, <1>2, <2>1, <2>2, ContextsGo
  <1> QED
    BY <1>6, <1>8, <1>9, <1>10

--------------------------------------------------------------------------------
(* The housekeeper *)

LEMMA ReattachOpenFrame ==
  ASSUME Frames, ReattachOpen(Housekeeper), daemon # 0
  PROVE  LET f == proc[Housekeeper] g == proc'[Housekeeper] IN
         /\ g.pc = (IF appID THEN "out" ELSE "context") /\ g.msg = Application /\ g.cnt = 1
         /\ g.ret = "OK" /\ g.err = "OK" /\ g.back = "context" /\ g.then = f.then
         /\ Moves(Housekeeper) /\ handle' = daemon
  <1>1. proc[Housekeeper] \in FrameSet /\ Housekeeper \in Proc
    BY OtherProcs DEF Frames
  <1>2. PICK pc : pc = IF appID THEN "out" ELSE "context"
    OBVIOUS
  <1>3. PICK g : g = [proc[Housekeeper] EXCEPT !.pc = pc, !.cnt = 1, !.msg = Application, !.ret = "OK", !.err = "OK",
                                               !.back = "context"]
    OBVIOUS
  <1>4. Become(Housekeeper, g) /\ handle' = daemon
    BY <1>2, <1>3 DEF ReattachOpen
  <1>5. pc \in Pcs /\ "context" \in Pcs /\ "OK" \in Results /\ Application \in Message
    BY <1>2, PcsAre, ResultsAre, MessageTypes
  <1>6. g \in FrameSet
    BY <1>1, <1>3, <1>5 DEF FrameSet
  <1>7. /\ g.pc = pc /\ g.msg = Application /\ g.cnt = 1 /\ g.ret = "OK" /\ g.err = "OK" /\ g.back = "context"
        /\ g.then = proc[Housekeeper].then
    BY <1>1, <1>3 DEF FrameSet
  <1>8. Moves(Housekeeper) /\ proc'[Housekeeper] = g
    BY <1>1, <1>4, <1>6, BecomeMoves DEF Frames
  <1> QED
    BY <1>2, <1>4, <1>7, <1>8

LEMMA ReattachContextFrame ==
  ASSUME Frames, ReattachContext(Housekeeper)
  PROVE  LET f == proc[Housekeeper] g == proc'[Housekeeper] IN
         /\ f.err = "BUFFER_FULL" \/ f.cnt > contexts \/ ~appID => GoesOn(f, g, "attached")
         /\ ~(f.err = "BUFFER_FULL" \/ f.cnt > contexts \/ ~appID) =>
              /\ g.pc = "out" /\ g.cnt = f.cnt + 1 /\ g.msg = Context(f.cnt)
              /\ g.ret = "OK" /\ g.err = "OK" /\ g.back = f.back /\ g.then = f.then
  <1>1. proc[Housekeeper] \in FrameSet /\ Housekeeper \in Proc
    BY OtherProcs DEF Frames
  <1>2. AfterAttach(Housekeeper) = "attached" /\ "attached" \in Pcs
    BY OtherProcs, PcsAre DEF AfterAttach
  <1>3. CASE proc[Housekeeper].err = "BUFFER_FULL" \/ proc[Housekeeper].cnt > contexts \/ ~appID
    <2>1. Goto(Housekeeper, proc[Housekeeper], "attached")
      BY <1>2, <1>3 DEF ReattachContext, AllContexts
    <2> QED
      BY <1>1, <1>2, <1>3, <2>1, GotoMoves DEF Frames
  <1>4. CASE ~(proc[Housekeeper].err = "BUFFER_FULL" \/ proc[Housekeeper].cnt > contexts \/ ~appID)
    <2>1. PICK c : c = Context(proc[Housekeeper].cnt)
      OBVIOUS
    <2>2. PICK k : k = proc[Housekeeper].cnt + 1
      OBVIOUS
    <2>3. proc[Housekeeper].cnt \in Nat
      BY <1>1, FrameFields DEF FieldTypes
    <2>4. c \in Message /\ k \in Nat /\ "out" \in Pcs /\ "OK" \in Results
      BY <2>1, <2>2, <2>3, MessageTypes, PcsAre, ResultsAre
    <2>5. PICK g : g = [proc[Housekeeper] EXCEPT !.pc = "out", !.cnt = k, !.msg = c, !.ret = "OK", !.err = "OK"]
      OBVIOUS
    <2>6. Become(Housekeeper, g)
      BY <1>4, <2>1, <2>2, <2>5 DEF ReattachContext, AllContexts
    <2>7. g \in FrameSet
      BY <1>1, <2>4, <2>5 DEF FrameSet
    <2>8. /\ g.pc = "out" /\ g.msg = c /\ g.cnt = k /\ g.ret = "OK" /\ g.err = "OK"
          /\ g.back = proc[Housekeeper].back /\ g.then = proc[Housekeeper].then
      BY <1>1, <2>5 DEF FrameSet
    <2>9. proc'[Housekeeper] = g
      BY <1>1, <2>6, <2>7, BecomeMoves DEF Frames
    <2> QED
      BY <1>4, <2>1, <2>2, <2>8, <2>9
  <1> QED
    BY <1>3, <1>4

LEMMA HousekeeperResendFrame ==
  ASSUME Frames, HousekeeperResend
  PROVE  /\ proc[Housekeeper].pc = "attached"
         /\ GoesOn(proc[Housekeeper], proc'[Housekeeper], "resend") \/ proc'[Housekeeper] = Poll
  <1>1. proc[Housekeeper] \in FrameSet /\ Housekeeper \in Proc
    BY OtherProcs DEF Frames
  <1>2. proc[Housekeeper].pc = "attached"
    BY DEF HousekeeperResend, At
  <1>3. CASE handle # 0
    <2>1. Goto(Housekeeper, proc[Housekeeper], "resend")
      BY <1>3 DEF HousekeeperResend
    <2> QED
      BY <1>1, <1>2, <2>1, PcsAre, GotoMoves DEF Frames
  <1>4. CASE handle = 0
    <2>1. Goto(Housekeeper, proc[Housekeeper], "poll")
      BY <1>4 DEF HousekeeperResend
    <2>2. GoesOn(proc[Housekeeper], proc'[Housekeeper], "poll")
      BY <1>1, <2>1, PcsAre, GotoMoves DEF Frames
    <2> QED
      BY <1>2, <2>2 DEF GoesOn
  <1> QED
    BY <1>3, <1>4

\* The housekeeper in the helpers.
LEMMA HousekeeperSends ==
  ASSUME Frames, Len(buffer) \in Nat, Attaching(proc[Housekeeper]), Send(Housekeeper),
         proc[Housekeeper].pc = "resendLoop" => proc[Housekeeper].cnt # 0,
         proc[Housekeeper].msg.kind # "log"
  PROVE  LET f == proc[Housekeeper] g == proc'[Housekeeper] IN
         /\ Attaching(g) /\ g.pc \notin {"open", "out"} /\ f.pc \notin {"open", "context"}
         /\ g.pc \in {"check", "store"} =>
              f.pc \in {"check", "store"} \/ (Output(Housekeeper) /\ ~Wrote(Housekeeper))
         /\ g.pc = "context" => f.pc = "store" \/ g.err = "OK"
         /\ f.pc = "out" => Output(Housekeeper)
         /\ f.pc = "out" /\ Wrote(Housekeeper) => g.pc = "context" /\ g.cnt = f.cnt
  <1>1. Housekeeper \in Proc /\ proc[Housekeeper] \in FrameSet
    BY OtherProcs DEF Frames
  <1>2. /\ Poll.pc = "attach" /\ Poll.then = "poll"
    BY RegistrationFields
  <1>3. CASE Output(Housekeeper)
    <2>1. proc[Housekeeper].pc = "out" /\ proc[Housekeeper].back = "context"
      BY <1>1, <1>3, OutputMoves DEF Attaching
    <2>2. CASE Wrote(Housekeeper)
      <3>1. GoesOn(proc[Housekeeper], proc'[Housekeeper], "context")
        BY <1>1, <1>3, <2>1, <2>2, OutputMoves
      <3> QED
        BY <1>3, <2>1, <3>1 DEF Attaching, GoesOn
    <2>3. CASE ~Wrote(Housekeeper)
      BY <1>1, <1>3, <2>1, <2>3, OutputMoves DEF Attaching
    <2> QED
      BY <2>2, <2>3
  <1>4. CASE CheckSize(Housekeeper)
    BY <1>1, <1>4, CheckSizeMoves DEF Attaching
  <1>5. CASE Store(Housekeeper)
    <2>1. PICK f : f = IF Fits THEN proc[Housekeeper] ELSE [proc[Housekeeper] EXCEPT !.err = "BUFFER_FULL"]
      OBVIOUS
    <2>2. /\ f.pc = proc[Housekeeper].pc /\ f.msg = proc[Housekeeper].msg /\ f.back = proc[Housekeeper].back
          /\ f.cnt = proc[Housekeeper].cnt /\ f.then = proc[Housekeeper].then
      BY <1>1, <2>1, ErrField, ResultsAre
    <2>3. proc[Housekeeper].pc = "store" /\ GoesOn(f, proc'[Housekeeper], proc[Housekeeper].back)
      BY <1>1, <1>5, <2>1, StoreMoves
    <2> QED
      BY <2>2, <2>3 DEF Attaching, GoesOn
  <1>6. ASSUME NEW n, Loops(proc[Housekeeper], proc'[Housekeeper], n),
               proc[Housekeeper].pc \in {"resend", "resendLoop"}
        PROVE  Attaching(proc'[Housekeeper]) /\ proc'[Housekeeper].pc \in {"attach", "resendLoop"}
    <2>1. CASE n # 0
      BY <1>6, <2>1 DEF Loops, Attaching
    <2>2. CASE n = 0
      <3>1. proc'[Housekeeper] = Poll
        BY <1>6, <2>2 DEF Loops, GoesOn, Attaching
      <3> QED
        BY <1>2, <3>1 DEF Attaching
    <2> QED
      BY <2>1, <2>2
  <1>7. CASE ResendBuffer(Housekeeper)
    <2>1. proc[Housekeeper].pc = "resend"
      BY <1>1, <1>7, ResendBufferMoves
    <2> QED
      BY <1>1, <1>6, <1>7, <2>1, ResendBufferMoves
  <1>8. CASE ResendEntry(Housekeeper)
    <2>1. proc[Housekeeper].pc = "resendLoop" /\ proc[Housekeeper].cnt # 0
      BY <1>8 DEF ResendEntry, At
    <2>2. CASE buffer = <<>> \/ Resends
      BY <1>1, <1>6, <1>8, <2>1, <2>2, ResendEntryMoves
    <2>3. CASE ~(buffer = <<>> \/ Resends)
      <3>1. proc'[Housekeeper] = Poll
        BY <1>1, <1>8, <2>1, <2>3, ResendEntryMoves DEF GoesOn, Attaching
      <3> QED
        BY <1>2, <2>1, <3>1 DEF Attaching
    <2> QED
      BY <2>2, <2>3
  <1>9. ~SendOverflow(Housekeeper) /\ ~ResetOverflow(Housekeeper)
    BY DEF SendOverflow, ResetOverflow, At, Attaching
  <1>10. ~SkipStore(Housekeeper)
    BY DEF SkipStore, Overlooked, IsLog
  <1> QED
    BY <1>3, <1>4, <1>5, <1>7, <1>8, <1>9, <1>10 DEF Send

\* What the housekeeper writes while the library is linked is accepted.
LEMMA LinkedWrites ==
  ASSUME Typed, Daemons, Linked, done.fills = 0
  PROVE  LogOut(handle) = "OK"
  <1>1. ~full
    BY HistoryFields DEF Daemons
  <1> QED
    BY <1>1 DEF LogOut, Linked

LEMMA AttachmentStep ==
  ASSUME Typed, OtherFrames, ThreadFrames, ExitFrame, Daemons, Attachment, Next
  PROVE  Attachment'
  <1> DEFINE f == proc[Housekeeper]
             g == proc'[Housekeeper]
             Stored(h) == h.pc \in {"check", "store"} \/ (h.pc = "context" /\ h.err = "BUFFER_FULL")
  <1> SUFFICES ASSUME ~Exiting'
               PROVE  /\ Attaching(g)
                      /\ g.pc = "out" => appID'
                      /\ g.pc = "open" => handle' = 0
                      /\ Stored(g) => done'.fills > 0 \/ ~(Linked')
    BY DEF Attachment, Attaching
  <1>1. ~Exiting /\ (appID => appID')
    BY BeforeExit
  <1>2. /\ Attaching(f)
        /\ f.pc = "out" => appID
        /\ f.pc = "open" => handle = 0
        /\ Stored(f) => done.fills > 0 \/ ~Linked
    BY <1>1 DEF Attachment
  <1>3. Frames /\ Len(buffer) \in Nat /\ done.fills \in Nat /\ Housekeeper \in Proc
    BY OtherProcs, HistoryFields DEF Typed, TypeOK, Frames
  <1>4. done'.fills \in Nat /\ done.fills <= done'.fills
    BY HistoryRecords, HistoryFields, TypedStep DEF Typed, Records
  <1>5. ASSUME done.fills > 0 \/ ~Linked, f.pc # "open"
        PROVE  done'.fills > 0 \/ ~(Linked')
    <2>1. CASE done.fills > 0
      BY <1>3, <1>4, <2>1
    <2>2. CASE ~Linked
      <3>1. ~ReattachOpen(Housekeeper)
        BY <1>5 DEF ReattachOpen, At
      <3> QED
        BY <2>2, <3>1, LinkGoes
    <2> QED
      BY <1>5, <2>1, <2>2
  <1>6. f.pc \in {"check", "store", "context"} => f.pc # "open"
    OBVIOUS
  <1>7. CASE g = f
    <2>1. f.pc = "open" => handle' = 0
      <3>1. ASSUME f.pc = "open" PROVE ~(ReattachOpen(Housekeeper) /\ daemon # 0)
        <4>1. ASSUME ReattachOpen(Housekeeper), daemon # 0 PROVE FALSE
          BY <1>3, <1>7, <3>1, <4>1, ReattachOpenFrame
        <4> QED
          BY <4>1
      <3> QED
        BY <1>2, <3>1, HandleGoes, BeforeExit
    <2> QED
      BY <1>1, <1>2, <1>5, <1>6, <1>7, <2>1
  <1>8. CASE Send(Housekeeper)
    <2>1. (f.pc = "resendLoop" => f.cnt # 0) /\ f.msg.kind # "log"
      BY <1>3 DEF OtherFrames
    <2>2. /\ Attaching(g) /\ g.pc \notin {"open", "out"} /\ f.pc \notin {"open", "context"}
          /\ g.pc \in {"check", "store"} => f.pc \in {"check", "store"} \/ (Output(Housekeeper) /\ ~Wrote(Housekeeper))
          /\ g.pc = "context" => f.pc = "store" \/ g.err = "OK"
      BY <1>2, <1>3, <1>8, <2>1, HousekeeperSends
    <2>3. ASSUME Output(Housekeeper), ~Wrote(Housekeeper)
          PROVE  done.fills > 0 \/ ~Linked
      <3>1. f.pc = "out"
        BY <2>3 DEF Output, At
      <3>2. LogOut(handle) # "OK"
        BY <1>2, <2>3, <3>1 DEF Wrote, Attaching
      <3> QED
        BY <1>3, <3>2, LinkedWrites
    <2>4. Stored(g) => f.pc \in {"check", "store"} \/ (Output(Housekeeper) /\ ~Wrote(Housekeeper))
      BY <2>2
    <2> QED
      BY <1>2, <1>5, <2>2, <2>3, <2>4
  <1>9. CASE Reattach(Housekeeper)
    <2>1. f.pc = "attach"
      BY <1>9 DEF Reattach, At
    <2>2. AfterAttach(Housekeeper) = "attached"
      BY OtherProcs DEF AfterAttach
    <2>3. f \in FrameSet
      BY <1>3 DEF Frames
    <2>4. CASE freeing \/ handle # 0
      <3>1. Goto(Housekeeper, f, "attached")
        BY <1>9, <2>2, <2>4 DEF Reattach
      <3>2. GoesOn(f, g, "attached")
        BY <1>3, <2>3, <3>1, PcsAre, GotoMoves DEF Frames
      <3> QED
        BY <1>2, <3>2 DEF GoesOn, Attaching
    <2>5. CASE ~(freeing \/ handle # 0)
      <3>1. Goto(Housekeeper, f, "open") /\ handle' = 0
        BY <1>9, <2>5 DEF Reattach
      <3>2. GoesOn(f, g, "open")
        BY <1>3, <2>3, <3>1, PcsAre, GotoMoves DEF Frames
      <3> QED
        BY <1>2, <3>1, <3>2 DEF GoesOn, Attaching
    <2> QED
      BY <2>4, <2>5
  <1>10. CASE ReattachOpen(Housekeeper)
    <2>1. AfterAttach(Housekeeper) = "attached"
      BY OtherProcs DEF AfterAttach
    <2>2. CASE daemon = 0
      <3>1. GoesOn(f, g, "attached")
        BY <1>3, <1>10, <2>1, <2>2, ReattachOpenMoves
      <3> QED
        BY <1>2, <3>1 DEF GoesOn, Attaching
    <2>3. CASE daemon # 0
      <3>1. /\ g.pc = (IF appID THEN "out" ELSE "context") /\ g.msg = Application /\ g.cnt = 1
            /\ g.ret = "OK" /\ g.err = "OK" /\ g.back = "context" /\ g.then = f.then
        BY <1>3, <1>10, <2>3, ReattachOpenFrame
      <3> QED
        BY <1>1, <1>2, <3>1 DEF Attaching
    <2> QED
      BY <2>2, <2>3
  <1>11. CASE ReattachContext(Housekeeper)
    <2>1. f.pc = "context"
      BY <1>11 DEF ReattachContext, At
    <2>2. CASE f.err = "BUFFER_FULL" \/ f.cnt > contexts \/ ~appID
      <3>1. GoesOn(f, g, "attached")
        BY <1>3, <1>11, <2>2, ReattachContextFrame
      <3> QED
        BY <1>2, <3>1 DEF GoesOn, Attaching
    <2>3. CASE ~(f.err = "BUFFER_FULL" \/ f.cnt > contexts \/ ~appID)
      <3>1. /\ g.pc = "out" /\ g.cnt = f.cnt + 1 /\ g.msg = Context(f.cnt)
            /\ g.ret = "OK" /\ g.err = "OK" /\ g.back = f.back /\ g.then = f.then
        BY <1>3, <1>11, <2>3, ReattachContextFrame
      <3>2. f.cnt \in Nat /\ f.cnt >= 1 /\ f.back = "context" /\ f.then = "poll"
        BY <1>2, <1>3, <2>1, FrameFields DEF Attaching, Frames, FieldTypes
      <3>3. g.cnt - 1 = f.cnt /\ g.cnt # 1 /\ g.cnt >= 1
        BY <3>1, <3>2
      <3>4. Attaching(g)
        BY <3>1, <3>2, <3>3 DEF Attaching
      <3> QED
        BY <1>1, <2>3, <3>1, <3>4
    <2> QED
      BY <2>2, <2>3
  <1>12. CASE HousekeeperResend
    <2>1. f.pc = "attached" /\ (GoesOn(f, g, "resend") \/ g = Poll)
      BY <1>3, <1>12, HousekeeperResendFrame
    <2>2. Poll.pc = "attach" /\ Poll.then = "poll"
      BY RegistrationFields
    <2> QED
      BY <1>2, <2>1, <2>2 DEF GoesOn, Attaching
  <1> QED
    BY <1>7, <1>8, <1>9, <1>10, <1>11, <1>12, HousekeeperTurns DEF AttachStep

--------------------------------------------------------------------------------
(* What the daemon was told *)

\* Message m is new in the pipe of daemon d.
Arrived(d, m) == \E k \in 1 .. Len(received'[d]) : Len(received[d]) < k /\ received'[d][k] = m
Waits(m) == \E k \in 1 .. Len(buffer) : buffer[k] = m

\* Before exit the pipe of the daemon the library is linked to only gets longer, and what leaves
\* the buffer arrives there.
LEMMA TellingGrows ==
  ASSUME Typed, OtherFrames, Next, ~FreeJoined, Linked, NEW d, d = daemon
  PROVE  /\ \A i \in 1 .. Len(received[d]) : i \in 1 .. Len(received'[d]) /\ received'[d][i] = received[d][i]
         /\ \A m : Waits(m) => Waits(m)' \/ Arrived(d, m)
         /\ \A p \in Proc : Output(p) /\ Wrote(p) => Arrived(d, proc[p].msg)
         /\ \A p \in Proc : Store(p) /\ Fits => \E k \in 1 .. Len(buffer') : buffer'[k] = proc[p].msg
  <1>1. /\ held \in [Boxes -> Seq(Message)] /\ held[0] = buffer
        /\ \A e \in Boxes : e # 0 => held[e] = received[e]
    BY HeldIs
  <1>2. /\ held' \in [Boxes -> Seq(Message)] /\ held'[0] = buffer'
        /\ \A e \in Boxes : e # 0 => held'[e] = received'[e]
    BY TypedStep, HeldNext
  <1>3. d \in Boxes /\ d # 0 /\ 0 \in Boxes /\ handle = d
    BY BoxesAre DEF Typed, TypeOK, Linked, Boxes
  <1>4. held[d] = received[d] /\ held'[d] = received'[d] /\ Len(held[d]) \in Nat
    BY <1>1, <1>2, <1>3
  <1>5. \A p \in Proc : proc[p].msg \in Message
    BY DEF Typed, TypeOK
  <1>6. PICK h : h = held
    OBVIOUS
  <1>7. PICK k : k = held'
    OBVIOUS
  <1>8. h \in [Boxes -> Seq(Message)] /\ k \in [Boxes -> Seq(Message)]
    BY <1>1, <1>2, <1>6, <1>7
  <1> DEFINE Longer == \A i \in 1 .. Len(h[d]) : i \in 1 .. Len(k[d]) /\ k[d][i] = h[d][i]
             New(m) == \E j \in 1 .. Len(k[d]) : Len(h[d]) < j /\ k[d][j] = m
             Left == \A j \in 1 .. Len(h[0]) : (\E l \in 1 .. Len(k[0]) : k[0][l] = h[0][j]) \/ New(h[0][j])
  <1>9. ASSUME NEW m \in Message, NEW e \in Boxes, Adds(h, k, e, m)
        PROVE  /\ Longer /\ Left /\ (e = d => New(m))
               /\ e = 0 => \E l \in 1 .. Len(k[0]) : k[0][l] = m
    <2>1. AddedEntries(h, k, e, m)
      BY <1>8, <1>9, EntriesAdded
    <2>2. \A c \in Boxes : \A i \in 1 .. Len(h[c]) : i \in 1 .. Len(k[c]) /\ k[c][i] = h[c][i]
      BY <2>1 DEF AddedEntries
    <2>3. Len(h[e]) + 1 \in 1 .. Len(k[e]) /\ k[e][Len(h[e]) + 1] = m
      BY <2>1 DEF AddedEntries
    <2>4. Longer /\ Left
      BY <1>3, <2>2
    <2>5. ASSUME e = d PROVE New(m)
      <3>1. Len(h[d]) < Len(h[d]) + 1
        BY <1>4, <1>6
      <3> QED
        BY <2>3, <2>5, <3>1
    <2> QED
      BY <2>3, <2>4, <2>5
  <1>10. ASSUME Passes(h, k, d)
         PROVE  Longer /\ Left
    <2>1. PassedEntries(h, k, d)
      BY <1>3, <1>8, <1>10, EntriesPassed
    <2>2. \A e \in Boxes : \A i \in 1 .. Len(h[e]) :
            \/ e # 0 /\ i \in 1 .. Len(k[e]) /\ k[e][i] = h[e][i]
            \/ e = 0 /\ i - 1 \in 1 .. Len(k[0]) /\ k[0][i - 1] = h[e][i]
            \/ e = 0 /\ Len(h[d]) + 1 \in 1 .. Len(k[d]) /\ k[d][Len(h[d]) + 1] = h[e][i]
      BY <2>1 DEF PassedEntries
    <2>3. Longer
      BY <1>3, <2>2
    <2>4. ASSUME NEW j \in 1 .. Len(h[0])
          PROVE  (\E l \in 1 .. Len(k[0]) : k[0][l] = h[0][j]) \/ New(h[0][j])
      <3>1. CASE j - 1 \in 1 .. Len(k[0]) /\ k[0][j - 1] = h[0][j]
        BY <3>1
      <3>2. CASE Len(h[d]) + 1 \in 1 .. Len(k[d]) /\ k[d][Len(h[d]) + 1] = h[0][j]
        <4>1. Len(h[d]) < Len(h[d]) + 1
          BY <1>4, <1>6
        <4> QED
          BY <3>2, <4>1
      <3> QED
        BY <1>3, <2>2, <2>4, <3>1, <3>2
    <2> QED
      BY <2>3, <2>4
  <1>11. Longer /\ Left
    <2>1. CASE h = k
      BY <2>1
    <2>2. CASE \E p \in Proc, e \in Boxes : Took(p, e) /\ Adds(h, k, e, proc[p].msg)
      BY <1>5, <1>9, <2>2
    <2>3. CASE \E m \in Message : m.kind = "overflow" /\ handle \in Boxes /\ handle # 0 /\ Adds(h, k, handle, m)
      BY <1>9, <2>3
    <2>4. CASE Passes(h, k, handle)
      BY <1>3, <1>10, <2>4
    <2> QED
      BY <1>6, <1>7, <2>1, <2>2, <2>3, <2>4, HeldGoes
  <1>12. ASSUME NEW p \in Proc, Output(p), Wrote(p) PROVE New(proc[p].msg)
    <2>1. Adds(h, k, d, proc[p].msg)
      BY <1>3, <1>6, <1>7, <1>12, TookAdds DEF Took
    <2> QED
      BY <1>3, <1>5, <1>9, <2>1
  <1>13. ASSUME NEW p \in Proc, Store(p), Fits PROVE \E l \in 1 .. Len(k[0]) : k[0][l] = proc[p].msg
    <2>1. Adds(h, k, 0, proc[p].msg)
      BY <1>3, <1>6, <1>7, <1>13, TookAdds DEF Took
    <2> QED
      BY <1>3, <1>5, <1>9, <2>1
  <1>14. h[d] = received[d] /\ k[d] = received'[d] /\ h[0] = buffer /\ k[0] = buffer'
    BY <1>1, <1>2, <1>4, <1>6, <1>7
  <1>15. \A m : New(m) <=> Arrived(d, m)
    BY <1>14 DEF Arrived
  <1>16. ASSUME NEW m, Waits(m) PROVE Waits(m)' \/ Arrived(d, m)
    <2>1. PICK j \in 1 .. Len(h[0]) : h[0][j] = m
      BY <1>14, <1>16 DEF Waits
    <2>2. (\E l \in 1 .. Len(k[0]) : k[0][l] = m) \/ New(m)
      BY <1>11, <2>1
    <2>3. CASE \E l \in 1 .. Len(k[0]) : k[0][l] = m
      <3>1. \E l \in 1 .. Len(buffer') : buffer'[l] = m
        BY <1>14, <2>3
      <3> QED
        BY <3>1 DEF Waits
    <2> QED
      BY <1>15, <2>2, <2>3
  <1> QED
    BY <1>11, <1>12, <1>13, <1>14, <1>15, <1>16

\* A daemon that knows the application and is told of context n knows it.
LEMMA NowKnown ==
  ASSUME NEW n, NEW d, d = daemon, daemon' = daemon, Len(received[d]) \in Nat,
         \A i \in 1 .. Len(received[d]) : i \in 1 .. Len(received'[d]) /\ received'[d][i] = received[d][i],
         \E i \in 1 .. Len(received[d]) : received[d][i] = Application,
         Arrived(d, Context(n)) \/ \E k \in 1 .. Len(buffer') : buffer'[k] = Context(n)
  PROVE  Known(n)'
  <1>1. PICK i \in 1 .. Len(received[d]) : received[d][i] = Application
    OBVIOUS
  <1>2. i \in 1 .. Len(received'[d]) /\ received'[d][i] = Application
    BY <1>1
  <1>3. CASE Arrived(d, Context(n))
    <2>1. PICK k \in 1 .. Len(received'[d]) : Len(received[d]) < k /\ received'[d][k] = Context(n)
      BY <1>3 DEF Arrived
    <2>2. i < k
      BY <2>1
    <2> QED
      BY <1>2, <2>1, <2>2 DEF Known
  <1>4. CASE \E k \in 1 .. Len(buffer') : buffer'[k] = Context(n)
    BY <1>2, <1>4 DEF Known
  <1> QED
    BY <1>3, <1>4

LEMMA KnownStays ==
  ASSUME NEW n, NEW d, d = daemon, daemon' = daemon, Len(received[d]) \in Nat, Known(n),
         \A i \in 1 .. Len(received[d]) : i \in 1 .. Len(received'[d]) /\ received'[d][i] = received[d][i],
         \A m : Waits(m) => Waits(m)' \/ Arrived(d, m)
  PROVE  Known(n)'
  <1>1. PICK i \in 1 .. Len(received[d]) :
          /\ received[d][i] = Application
          /\ \/ \E j \in 1 .. Len(received[d]) : i < j /\ received[d][j] = Context(n)
             \/ \E j \in 1 .. Len(buffer) : buffer[j] = Context(n)
    BY DEF Known
  <1>2. CASE \E j \in 1 .. Len(received[d]) : i < j /\ received[d][j] = Context(n)
    <2>1. PICK j \in 1 .. Len(received[d]) : i < j /\ received[d][j] = Context(n)
      BY <1>2
    <2>2. /\ i \in 1 .. Len(received'[d]) /\ received'[d][i] = Application
          /\ j \in 1 .. Len(received'[d]) /\ received'[d][j] = Context(n)
      BY <1>1, <2>1
    <2> QED
      BY <2>1, <2>2 DEF Known
  <1>3. CASE \E j \in 1 .. Len(buffer) : buffer[j] = Context(n)
    <2>1. Arrived(d, Context(n)) \/ \E k \in 1 .. Len(buffer') : buffer'[k] = Context(n)
      BY <1>3 DEF Waits
    <2> QED
      BY <1>1, <2>1, NowKnown
  <1> QED
    BY <1>1, <1>2, <1>3

\* A linked library whose application is registered has told the daemon so, or the housekeeper
\* is about to.
LEMMA ApplicationKnown ==
  ASSUME Typed, Registrations, Orderly, ApplicationTold, NEW n \in 1 .. contexts
  PROVE  /\ appID
         /\ \/ \E i \in 1 .. Len(received[daemon]) : received[daemon][i] = Application
            \/ proc[Housekeeper].pc = "out" /\ proc[Housekeeper].cnt = 1
  <1>1. contexts \in Nat /\ contexts # 0
    BY DEF Typed, TypeOK
  <1>2. done.registered
    BY <1>1 DEF Registrations, Orderly
  <1>3. appID /\ \A t \in Threads : ~Registering(proc[t])
    BY <1>2 DEF Registrations, Orderly
  <1> QED
    BY <1>3 DEF ApplicationTold

LEMMA OrderlyBefore ==
  ASSUME Typed, OtherFrames, ThreadFrames, ExitFrame, Next, Orderly'
  PROVE  Orderly
  <1>1. ~Exiting' /\ done'.fills = 0 /\ "context" \notin done'.early
    BY DEF Orderly
  <1>2. Records /\ done.fills \in Nat
    BY HistoryRecords, HistoryFields DEF Typed
  <1>3. done.fills = 0 /\ "context" \notin done.early
    BY <1>1, <1>2 DEF Records
  <1> QED
    BY <1>1, <1>3, BeforeExit DEF Orderly

\* A thread about to write writes, or stays where it is.
LEMMA WritesOrStays ==
  ASSUME Typed, OtherFrames, Next, NEW t \in Threads, proc[t].pc = "out"
  PROVE  proc'[t] = proc[t] \/ Output(t)
  <1>1. Send(t) => Output(t)
    BY DEF Send, SkipStore, CheckSize, Store, ResendBuffer, ResendEntry, SendOverflow, ResetOverflow, At
  <1>2. ~LogStart(t) /\ ~LogOld(t) /\ ~LogEnd(t) /\ ~LogCounted(t)
    BY DEF LogStart, LogOld, LogEnd, LogCounted, MayCall, At
  <1>3. ~RegisterApp(t) /\ ~RegisterContext(t) /\ ~RegisterAppEnd(t)
    BY DEF RegisterApp, RegisterContext, RegisterAppEnd, MayCall, At
  <1> QED
    BY <1>1, <1>2, <1>3, ThreadTurns

\* The housekeeper about to register again, while the library is linked.
LEMMA HousekeeperTells ==
  ASSUME Typed, OtherFrames, ThreadFrames, ExitFrame, Daemons, Attachment, Next, Orderly, ~Exiting', Linked
  PROVE  LET f == proc[Housekeeper] g == proc'[Housekeeper] IN
         /\ f.pc = "out" =>
              \/ g = f
              \/ Output(Housekeeper) /\ Wrote(Housekeeper) /\ g.pc = "context" /\ g.cnt = f.cnt
         /\ f.pc = "context" /\ appID /\ f.cnt <= contexts =>
              \/ g = f
              \/ g.pc = "out" /\ g.cnt = f.cnt + 1
  <1>1. Frames /\ Len(buffer) \in Nat /\ Housekeeper \in Proc /\ contexts \in Nat /\ proc[Housekeeper].cnt \in Nat
    BY OtherProcs DEF Typed, TypeOK, Frames
  <1>2. /\ Attaching(proc[Housekeeper])
        /\ proc[Housekeeper].pc = "out" => appID
        /\ proc[Housekeeper].pc = "context" => proc[Housekeeper].err # "BUFFER_FULL"
    BY DEF Attachment, Orderly
  <1>3. ASSUME proc[Housekeeper].pc = "out", proc'[Housekeeper] # proc[Housekeeper]
        PROVE  /\ Output(Housekeeper) /\ Wrote(Housekeeper)
               /\ proc'[Housekeeper].pc = "context" /\ proc'[Housekeeper].cnt = proc[Housekeeper].cnt
    <2>1. ~AttachStep(Housekeeper) /\ ~HousekeeperResend
      BY <1>3 DEF AttachStep, Reattach, ReattachOpen, ReattachContext, HousekeeperResend, At
    <2>2. Send(Housekeeper)
      BY <1>3, <2>1, HousekeeperTurns
    <2>3. proc[Housekeeper].ret = "OK" /\ appID
      BY <1>2, <1>3 DEF Attaching
    <2>4. LogOut(handle) = "OK"
      BY LinkedWrites DEF Orderly
    <2>5. Wrote(Housekeeper)
      BY <2>3, <2>4 DEF Wrote
    <2>6. proc[Housekeeper].msg.kind # "log"
      BY DEF OtherFrames
    <2> QED
      BY <1>1, <1>2, <1>3, <2>2, <2>5, <2>6, HousekeeperSends
  <1>4. ASSUME proc[Housekeeper].pc = "context", appID, proc[Housekeeper].cnt <= contexts,
               proc'[Housekeeper] # proc[Housekeeper]
        PROVE  proc'[Housekeeper].pc = "out" /\ proc'[Housekeeper].cnt = proc[Housekeeper].cnt + 1
    <2>1. ~Send(Housekeeper) /\ ~Reattach(Housekeeper) /\ ~ReattachOpen(Housekeeper) /\ ~HousekeeperResend
      BY <1>4 DEF Send, Output, SkipStore, CheckSize, Store, ResendBuffer, ResendEntry, SendOverflow, ResetOverflow,
         Reattach, ReattachOpen, HousekeeperResend, At
    <2>2. ReattachContext(Housekeeper)
      BY <1>4, <2>1, HousekeeperTurns DEF AttachStep
    <2>3. ~(proc[Housekeeper].err = "BUFFER_FULL" \/ proc[Housekeeper].cnt > contexts \/ ~appID)
      BY <1>1, <1>2, <1>4
    <2> QED
      BY <1>1, <2>2, <2>3, ReattachContextFrame
  <1> QED
    BY <1>3, <1>4

LEMMA ToldStep ==
  ASSUME Typed, OtherFrames, ThreadFrames, ExitFrame, KnownInv, Next, Orderly', Linked'
  PROVE  ApplicationTold' /\ ContextsTold'
  <1>1. Orderly /\ ~Exiting' /\ done'.fills = 0
    BY OrderlyBefore DEF Orderly
  <1>2. Daemons /\ Registrations /\ Attachment
    BY DEF KnownInv
  <1>3. ~FreeJoined /\ ~ExitClear /\ (appID => appID')
    BY <1>1, BeforeExit
  <1>4. /\ Frames /\ contexts \in Nat /\ Housekeeper \in Proc /\ proc[Housekeeper].cnt \in Nat
        /\ \A t \in Threads : t \in Proc
    BY OtherProcs, ThreadProcs DEF Typed, TypeOK, Frames
  <1> DEFINE f == proc[Housekeeper]
             g == proc'[Housekeeper]
  <1>5. CASE ReattachOpen(Housekeeper) /\ daemon # 0
    <2>1. appID' = appID /\ contexts' = contexts
      BY <1>5 DEF ReattachOpen
    <2>2. g.pc = (IF appID THEN "out" ELSE "context") /\ g.cnt = 1
      BY <1>4, <1>5, ReattachOpenFrame
    <2>3. ApplicationTold'
      BY <2>1, <2>2 DEF ApplicationTold
    <2>4. ASSUME NEW n \in 1 .. contexts PROVE Awaiting(g, n)
      <3>1. done.registered
        BY <1>1, <1>2, <1>4, <2>4 DEF Registrations, Orderly
      <3>2. appID
        BY <1>1, <1>2, <3>1 DEF Registrations, Orderly
      <3> QED
        BY <2>2, <2>4, <3>2 DEF Awaiting
    <2>5. \A n : Awaiting(g, n) => Awaiting(proc[Housekeeper], n)'
      BY DEF Awaiting
    <2> QED
      BY <2>1, <2>3, <2>4, <2>5 DEF ContextsTold
  <1>6. CASE Linked /\ handle' = handle /\ daemon' = daemon
    <2>1. ApplicationTold /\ ContextsTold
      BY <1>1, <1>6 DEF KnownInv
    <2>2. PICK d : d = daemon
      OBVIOUS
    <2>3. Len(received[d]) \in Nat
      <3>1. d \in 1 .. MaxDaemons
        BY <1>6, <2>2, ConstAssumption DEF Typed, TypeOK, Linked
      <3> QED
        BY <3>1 DEF Typed, TypeOK
    <2>4. /\ \A i \in 1 .. Len(received[d]) : i \in 1 .. Len(received'[d]) /\ received'[d][i] = received[d][i]
          /\ \A m : Waits(m) => Waits(m)' \/ Arrived(d, m)
          /\ \A p \in Proc : Output(p) /\ Wrote(p) => Arrived(d, proc[p].msg)
          /\ \A p \in Proc : Store(p) /\ Fits => \E k \in 1 .. Len(buffer') : buffer'[k] = proc[p].msg
      BY <1>3, <1>6, <2>2, TellingGrows
    <2>5. /\ f.pc = "out" => g = f \/ (Output(Housekeeper) /\ Wrote(Housekeeper) /\ g.pc = "context" /\ g.cnt = f.cnt)
          /\ f.pc = "context" /\ appID /\ f.cnt <= contexts => g = f \/ (g.pc = "out" /\ g.cnt = f.cnt + 1)
      BY <1>1, <1>2, <1>6, HousekeeperTells
    <2>6. Attaching(f)
      BY <1>1, <1>2 DEF Attachment, Orderly
    <2>7. Arrived(d, Application) => \E i \in 1 .. Len(received'[d]) : received'[d][i] = Application
      BY DEF Arrived
    <2>8. ASSUME appID'
          PROVE  \/ \E i \in 1 .. Len(received'[d]) : received'[d][i] = Application
                 \/ g.pc = "out" /\ g.cnt = 1
                 \/ \E t \in Threads : Registering(proc'[t]) /\ proc'[t].pc = "out"
      <3>1. CASE ~appID
        <4>1. PICK t \in Threads : RegisterApp(t)
          BY <1>3, <2>8, <3>1, AppIDSet
        <4>2. proc'[t].pc = "out" /\ proc'[t].back = "registered"
          BY <1>4, <4>1, RegisterAppFrame
        <4> QED
          BY <4>2 DEF Registering
      <3>2. CASE \E i \in 1 .. Len(received[d]) : received[d][i] = Application
        BY <2>4, <3>2
      <3>3. CASE f.pc = "out" /\ f.cnt = 1
        <4>1. f.msg = Application
          BY <2>6, <3>3 DEF Attaching
        <4>2. CASE g = f
          BY <3>3, <4>2
        <4>3. CASE Output(Housekeeper) /\ Wrote(Housekeeper)
          BY <1>4, <2>4, <2>7, <4>1, <4>3
        <4> QED
          BY <2>5, <3>3, <4>2, <4>3
      <3>4. ASSUME appID, NEW t \in Threads, Registering(proc[t]), proc[t].pc = "out"
            PROVE  \/ \E i \in 1 .. Len(received'[d]) : received'[d][i] = Application
                   \/ Registering(proc'[t]) /\ proc'[t].pc = "out"
        <4>1. proc[t].msg = Application /\ proc[t].ret = "OK"
          BY <1>1, <1>2, <3>4 DEF Registrations, Orderly
        <4>2. LogOut(handle) = "OK"
          BY <1>1, <1>2, <1>6, LinkedWrites DEF Orderly
        <4>3. Wrote(t)
          BY <3>4, <4>1, <4>2 DEF Wrote
        <4>4. CASE proc'[t] = proc[t]
          BY <3>4, <4>4
        <4>5. CASE Output(t)
          BY <1>4, <2>4, <2>7, <4>1, <4>3, <4>5
        <4> QED
          BY <3>4, <4>4, <4>5, WritesOrStays
      <3> QED
        BY <2>1, <2>2, <3>1, <3>2, <3>3, <3>4 DEF ApplicationTold
    <2>9. ApplicationTold'
      <3>1. (\E t \in Threads : Registering(proc'[t]) /\ proc'[t].pc = "out")
              => (\E t \in Threads : Registering(proc[t]) /\ proc[t].pc = "out")'
        BY DEF Registering
      <3>2. received'[d] = received[daemon]'
        BY <1>6, <2>2
      <3> QED
        BY <2>8, <3>1, <3>2 DEF ApplicationTold
    <2>10. ASSUME NEW n \in (1 .. contexts') \ done'.refused
           PROVE  Known(n)' \/ (\E t \in Threads : Flying(proc'[t], n)) \/ Awaiting(g, n)
      <3>1. CASE n \notin 1 .. contexts
        <4>1. PICK t \in Threads : RegisterContext(t) /\ contexts' = contexts + 1
          BY <1>3, <2>10, <3>1, ContextsGo
        <4>2. n = contexts + 1
          BY <1>4, <2>10, <3>1, <4>1
        <4>3. proc'[t].pc = "out" /\ proc'[t].msg = Context(contexts + 1)
          BY <1>4, <4>1, RegisterContextFrame
        <4> QED
          BY <4>2, <4>3 DEF Flying
      <3>2. CASE n \in 1 .. contexts
        <4>1. n \notin done.refused
          BY <2>10, HistoryRecords DEF Records
        <4>2. /\ appID
              /\ (\E i \in 1 .. Len(received[d]) : received[d][i] = Application) \/ (f.pc = "out" /\ f.cnt = 1)
          BY <1>1, <1>2, <2>1, <2>2, <3>2, ApplicationKnown
        <4>3. CASE Awaiting(f, n)
          <5>1. CASE g = f
            BY <4>3, <5>1
          <5>2. CASE f.pc = "out" /\ f.cnt <= n + 1 /\ g # f
            <6>1. Output(Housekeeper) /\ Wrote(Housekeeper) /\ g.pc = "context" /\ g.cnt = f.cnt
              BY <2>5, <5>2
            <6>2. CASE f.cnt <= n
              BY <6>1, <6>2 DEF Awaiting
            <6>3. CASE f.cnt = n + 1
              <7>1. f.cnt # 1 /\ f.cnt - 1 = n
                BY <3>2, <6>3
              <7>2. f.msg = Context(n)
                BY <2>6, <5>2, <7>1 DEF Attaching
              <7>3. Arrived(d, Context(n))
                BY <1>4, <2>4, <6>1, <7>2
              <7> QED
                BY <1>6, <2>2, <2>3, <2>4, <4>2, <7>1, <7>3, NowKnown
            <6> QED
              BY <1>4, <3>2, <5>2, <6>2, <6>3
          <5>3. CASE f.pc = "context" /\ f.cnt <= n /\ g # f
            <6>1. f.cnt <= contexts
              BY <1>4, <3>2, <5>3
            <6>2. g.pc = "out" /\ g.cnt = f.cnt + 1
              BY <2>5, <4>2, <5>3, <6>1
            <6>3. g.cnt <= n + 1
              BY <1>4, <3>2, <5>3, <6>2
            <6> QED
              BY <6>2, <6>3 DEF Awaiting
          <5> QED
            BY <4>3, <5>1, <5>2, <5>3 DEF Awaiting
        <4>4. CASE Known(n)
          BY <1>6, <2>2, <2>3, <2>4, <4>4, KnownStays
        <4>5. ASSUME NEW t \in Threads, Flying(proc[t], n), ~Awaiting(f, n)
              PROVE  Known(n)' \/ Flying(proc'[t], n)
          <5>1. proc[t].msg = Context(n)
            BY <4>5 DEF Flying
          <5>2. \E i \in 1 .. Len(received[d]) : received[d][i] = Application
            BY <3>2, <4>2, <4>5 DEF Awaiting
          <5>3. CASE Output(t) /\ Wrote(t)
            <6>1. Arrived(d, Context(n))
              BY <1>4, <2>4, <5>1, <5>3
            <6> QED
              BY <1>6, <2>2, <2>3, <2>4, <5>2, <6>1, NowKnown
          <5>4. CASE Store(t) /\ Fits
            <6>1. \E k \in 1 .. Len(buffer') : buffer'[k] = Context(n)
              BY <1>4, <2>4, <5>1, <5>4
            <6> QED
              BY <1>6, <2>2, <2>3, <2>4, <5>2, <6>1, NowKnown
          <5>5. CASE Store(t) /\ ~Fits
            <6>1. proc[t].msg.kind = "context" /\ proc[t].msg.n = n
              BY <5>1, RegistrationFields
            <6>2. n \in done'.refused
              BY <1>4, <5>5, <6>1, HistoryRecords
            <6> QED
              BY <2>10, <6>2
          <5> QED
            BY <4>5, <5>3, <5>4, <5>5, FlyingGoes
        <4> QED
          BY <2>1, <3>2, <4>1, <4>3, <4>4, <4>5 DEF ContextsTold
      <3> QED
        BY <3>1, <3>2
    <2>11. /\ \A n : Awaiting(g, n) => Awaiting(proc[Housekeeper], n)'
           /\ \A n : (\E t \in Threads : Flying(proc'[t], n)) => (\E t \in Threads : Flying(proc[t], n))'
      BY DEF Awaiting, Flying
    <2>12. ContextsTold'
      BY <2>10, <2>11 DEF ContextsTold
    <2> QED
      BY <2>9, <2>12
  <1> QED
    BY <1>1, <1>2, <1>5, <1>6, LinkGoes

LEMMA InitKnown ==
  ASSUME Init
  PROVE  KnownInv
  <1>1. limit \in Limits /\ limit \in Limit
    BY ConstAssumption DEF Init
  <1>2. /\ daemon \in {0, 1} /\ handle = daemon /\ full = FALSE /\ appID = FALSE /\ contexts = 0
        /\ done.daemons = daemon /\ done.registered = FALSE
    BY DEF Init
  <1>3. /\ \A t \in Threads : proc[t] = Rest
        /\ proc[Housekeeper] = Poll
    BY ThreadProcs, OtherProcs DEF Init
  <1>4. Daemons
    BY <1>2 DEF Daemons
  <1>5. Registrations
    <2>1. \A t \in Threads : ~Registering(proc[t])
      BY <1>3, RestFields DEF Registering
    <2> QED
      BY <1>2, <2>1 DEF Registrations
  <1>6. Attachment
    <2>1. Poll.pc = "attach" /\ Poll.then = "poll"
      BY RegistrationFields
    <2>2. Attaching(proc[Housekeeper])
      BY <1>3, <2>1 DEF Attaching
    <2> QED
      BY <1>3, <2>1, <2>2 DEF Attachment
  <1>7. ApplicationTold /\ ContextsTold
    BY <1>2 DEF ApplicationTold, ContextsTold
  <1> QED
    BY <1>4, <1>5, <1>6, <1>7 DEF KnownInv

LEMMA KnownStep ==
  ASSUME UserInv, KnownInv, [Next]_vars
  PROVE  KnownInv'
  <1>1. CASE Next
    <2>1. Typed /\ OtherFrames /\ ThreadFrames /\ ExitFrame /\ Daemons /\ Registrations /\ Attachment
      BY DEF UserInv, KnownInv
    <2>2. Daemons' /\ Registrations' /\ Attachment'
      BY <1>1, <2>1, DaemonsStep, RegistrationsStep, AttachmentStep
    <2>3. ASSUME Orderly', Linked' PROVE ApplicationTold' /\ ContextsTold'
      BY <1>1, <2>1, <2>3, ToldStep
    <2> QED
      BY <2>2, <2>3 DEF KnownInv
  <1>2. CASE UNCHANGED vars
    <2>1. /\ appID' = appID /\ handle' = handle /\ buffer' = buffer /\ contexts' = contexts
          /\ proc' = proc /\ daemon' = daemon /\ full' = full /\ received' = received /\ done' = done
      BY <1>2 DEF vars, libVars, envVars
    <2>2. Daemons' /\ Registrations'
      BY <2>1 DEF KnownInv, Daemons, Registrations, Exiting, At, Registering
    <2>3. Attachment'
      BY <2>1 DEF KnownInv, Attachment, Attaching, Exiting, At, Linked
    <2>4. Orderly' /\ Linked' => Orderly /\ Linked
      BY <2>1 DEF Orderly, Linked, Exiting, At
    <2>5. ApplicationTold => ApplicationTold'
      BY <2>1 DEF ApplicationTold, Registering
    <2>6. ContextsTold => ContextsTold'
      BY <2>1 DEF ContextsTold, Known, Flying, Awaiting
    <2> QED
      BY <2>2, <2>3, <2>4, <2>5, <2>6 DEF KnownInv
  <1> QED
    BY <1>1, <1>2

LEMMA InvContextsKnown ==
  ASSUME UserInv, KnownInv
  PROVE  ContextsKnown
  <1> SUFFICES ASSUME Quiet, At(Housekeeper, "attach"), ~Exiting, handle = daemon, daemon # 0,
                      done.fills = 0, "context" \notin done.early,
                      NEW n \in (1 .. contexts) \ done.refused
               PROVE  LET told == received[daemon] \o buffer IN
                      \E i, j \in DOMAIN told : i < j /\ told[i] = Application /\ told[j] = Context(n)
    BY DEF ContextsKnown
  <1>1. ContextsTold
    BY DEF KnownInv, Orderly, Linked
  <1>2. \A t \in Threads : ~Flying(proc[t], n)
    BY DEF Quiet, At, Flying
  <1>3. ~Awaiting(proc[Housekeeper], n)
    BY DEF At, Awaiting
  <1>4. Known(n)
    BY <1>1, <1>2, <1>3 DEF ContextsTold
  <1>5. daemon \in 1 .. MaxDaemons /\ buffer \in Seq(Message)
    BY ConstAssumption DEF UserInv, Typed, TypeOK
  <1>6. PICK r \in Seq(Message) : r = received[daemon]
    BY <1>5 DEF UserInv, Typed, TypeOK
  <1>7. PICK i \in 1 .. Len(r) :
          /\ r[i] = Application
          /\ \/ \E j \in 1 .. Len(r) : i < j /\ r[j] = Context(n)
             \/ \E j \in 1 .. Len(buffer) : buffer[j] = Context(n)
    BY <1>4, <1>6 DEF Known
  <1>8. PICK told : told = r \o buffer
    OBVIOUS
  <1>9. /\ DOMAIN told = 1 .. Len(r) + Len(buffer) /\ Len(r) \in Nat /\ Len(buffer) \in Nat
        /\ \A k \in 1 .. Len(r) : told[k] = r[k]
        /\ \A k \in 1 .. Len(buffer) : told[Len(r) + k] = buffer[k]
    BY <1>5, <1>8
  <1>10. i \in DOMAIN told /\ told[i] = Application
    BY <1>7, <1>9
  <1>11. \E j \in DOMAIN told : i < j /\ told[j] = Context(n)
    <2>1. CASE \E j \in 1 .. Len(r) : i < j /\ r[j] = Context(n)
      <3>1. PICK j \in 1 .. Len(r) : i < j /\ r[j] = Context(n)
        BY <2>1
      <3>2. j \in DOMAIN told /\ told[j] = Context(n)
        BY <1>9, <3>1
      <3> QED
        BY <3>1, <3>2
    <2>2. CASE \E j \in 1 .. Len(buffer) : buffer[j] = Context(n)
      <3>1. PICK j \in 1 .. Len(buffer) : buffer[j] = Context(n)
        BY <2>2
      <3>2. Len(r) + j \in DOMAIN told /\ told[Len(r) + j] = Context(n) /\ i < Len(r) + j
        BY <1>9, <3>1
      <3> QED
        BY <3>2
    <2> QED
      BY <1>7, <2>1, <2>2
  <1> QED
    BY <1>6, <1>8, <1>10, <1>11

(***************************************************************************)
(* Theorem.  Whenever the housekeeper has finished a round and no call is  *)
(* under way (dlt_user_log_reattach_to_daemon), the daemon the library is  *)
(* attached to has been told of the application and after it of every      *)
(* context, or will be from the buffer, however often daemons were         *)
(* restarted and whatever a thread registered or closed while the          *)
(* housekeeper was registering everything again.  Excepted are contexts    *)
(* registered before the application or refused by a full buffer, and      *)
(* pipes that were full.                                                   *)
(***************************************************************************)
THEOREM ContextsStayKnown == Spec => []ContextsKnown
  <1>1. Init => KnownInv
    BY InitKnown
  <1>2. UserInv /\ KnownInv /\ [Next]_vars => KnownInv'
    BY KnownStep
  <1>3. UserInv /\ KnownInv => ContextsKnown
    BY InvContextsKnown
  <1> QED
    BY <1>1, <1>2, <1>3, UserInvariant, PTL DEF Spec

--------------------------------------------------------------------------------
(* The account of discarded messages: with protocol 2 and one logging thread *)

\* The places where a process handles overflow_counter.
CountPcs == {"overflow", "reset", "counted"}
\* A helper returns to none of them, and only SendOverflow makes an overflow report.
Plain(f) == f.back \notin CountPcs /\ f.then \notin CountPcs /\ f.msg.kind # "overflow"
Carriers ==
  /\ \A p \in Proc : Plain(proc[p])
  /\ \A i \in 1 .. Len(buffer) : buffer[i].kind # "overflow"
  /\ proc[Housekeeper].pc \notin CountPcs

Loggers ==
  /\ IsFiniteSet(done.loggers)
  /\ \A t \in Threads : Loose(proc[t]) => t \in done.loggers

\* A message that is discarded was logged, and is on its way no more.
Discarded ==
  /\ done.discarded \subseteq 1 .. done.logs
  /\ \A t \in Threads : Loose(proc[t]) => proc[t].msg.n \notin done.discarded

\* One thread logs, with protocol 2.
Lone == limit.proto = 2 /\ Cardinality(done.loggers) <= 1

\* Between its report and its reset, the counter is part of what was announced; and nobody
\* changes it while a thread adds to what it read.
Announcing == \E p \in Proc : proc[p].pc = "reset"
Balance ==
  /\ \A t \in Threads : proc[t].pc = "counted" => proc[t].cnt = overflow_counter
  /\ Announcing => Cardinality(done.discarded) = Cardinality(Announced(received))
  /\ ~Announcing => Cardinality(done.discarded) = overflow_counter + Cardinality(Announced(received))

AccountInv ==
  /\ Carriers /\ Loggers /\ Discarded
  /\ IsFiniteSet(Announced(received))
  /\ Lone => Balance

\* The members of Announced.
LEMMA AnnouncedAre ==
  ASSUME NEW r \in [1 .. MaxDaemons -> Seq(Message)], NEW x
  PROVE  x \in Announced(r) <=>
           \E d \in 1 .. MaxDaemons : \E i \in 1 .. Len(r[d]) :
             r[d][i].kind = "overflow" /\ \E k \in 1 .. r[d][i].lost : x = <<<<d, i>>, k>>
  <1>1. DOMAIN r = 1 .. MaxDaemons /\ \A d \in 1 .. MaxDaemons : DOMAIN r[d] = 1 .. Len(r[d])
    OBVIOUS
  <1>2. ASSUME x \in Announced(r)
        PROVE  \E d \in 1 .. MaxDaemons : \E i \in 1 .. Len(r[d]) :
                 r[d][i].kind = "overflow" /\ \E k \in 1 .. r[d][i].lost : x = <<<<d, i>>, k>>
    <2>1. PICK d \in DOMAIN r : x \in UNION {{<<d, i>>} \X (1 .. r[d][i].lost) :
                                          i \in {j \in DOMAIN r[d] : r[d][j].kind = "overflow"}}
      BY <1>2, Zenon DEF Announced
    <2>2. PICK i \in {j \in DOMAIN r[d] : r[d][j].kind = "overflow"} : x \in {<<d, i>>} \X (1 .. r[d][i].lost)
      BY <2>1, Zenon
    <2>3. PICK k \in 1 .. r[d][i].lost : x = <<<<d, i>>, k>>
      BY <2>2
    <2>4. d \in 1 .. MaxDaemons /\ i \in 1 .. Len(r[d]) /\ r[d][i].kind = "overflow"
      BY <1>1, <2>1, <2>2
    <2> QED
      BY <2>3, <2>4
  <1>3. ASSUME NEW d \in 1 .. MaxDaemons, NEW i \in 1 .. Len(r[d]), r[d][i].kind = "overflow",
               NEW k \in 1 .. r[d][i].lost, x = <<<<d, i>>, k>>
        PROVE  x \in Announced(r)
    <2>1. d \in DOMAIN r /\ i \in {j \in DOMAIN r[d] : r[d][j].kind = "overflow"}
      BY <1>1, <1>3
    <2>2. x \in {<<d, i>>} \X (1 .. r[d][i].lost)
      BY <1>3
    <2>3. x \in UNION {{<<d, q>>} \X (1 .. r[d][q].lost) : q \in {j \in DOMAIN r[d] : r[d][j].kind = "overflow"}}
      BY <2>1, <2>2, Zenon
    <2>4. UNION {{<<d, q>>} \X (1 .. r[d][q].lost) : q \in {j \in DOMAIN r[d] : r[d][j].kind = "overflow"}}
            \in {UNION {{<<e, q>>} \X (1 .. r[e][q].lost) : q \in {j \in DOMAIN r[e] : r[e][j].kind = "overflow"}} :
                   e \in DOMAIN r}
      BY <2>1, Zenon
    <2> QED
      BY <2>3, <2>4, Zenon DEF Announced
  <1> QED
    BY <1>2, <1>3

\* Pipe h took m.
Takes(r, s, h, m) == s = [r EXCEPT ![h] = Append(r[h], m)]

\* A report adds what it announces, another message nothing.
LEMMA AnnouncedAdds ==
  ASSUME NEW r \in [1 .. MaxDaemons -> Seq(Message)], NEW h \in 1 .. MaxDaemons, NEW m \in Message,
         NEW s, Takes(r, s, h, m), IsFiniteSet(Announced(r))
  PROVE  /\ IsFiniteSet(Announced(s))
         /\ m.kind # "overflow" => Announced(s) = Announced(r)
         /\ m.kind = "overflow" => Cardinality(Announced(s)) = Cardinality(Announced(r)) + m.lost
  <1>1. s \in [1 .. MaxDaemons -> Seq(Message)] /\ \A d \in 1 .. MaxDaemons : d # h => s[d] = r[d]
    BY DEF Takes
  <1>2. r[h] \in Seq(Message) /\ s[h] = Append(r[h], m)
    BY DEF Takes
  <1>3. /\ Len(r[h]) \in Nat /\ Len(s[h]) = Len(r[h]) + 1 /\ s[h][Len(r[h]) + 1] = m
        /\ \A i \in 1 .. Len(r[h]) : s[h][i] = r[h][i]
    BY <1>2
  <1>4. PICK n : n = Len(r[h]) + 1
    OBVIOUS
  <1>5. PICK T : T = {<<h, n>>} \X (1 .. m.lost)
    OBVIOUS
  <1>6. m.lost \in Nat
    BY DEF Message
  <1>7. \A x : x \in Announced(r) <=>
           \E d \in 1 .. MaxDaemons : \E i \in 1 .. Len(r[d]) :
             r[d][i].kind = "overflow" /\ \E k \in 1 .. r[d][i].lost : x = <<<<d, i>>, k>>
    BY AnnouncedAre
  <1>8. \A x : x \in Announced(s) <=>
           \E d \in 1 .. MaxDaemons : \E i \in 1 .. Len(s[d]) :
             s[d][i].kind = "overflow" /\ \E k \in 1 .. s[d][i].lost : x = <<<<d, i>>, k>>
    BY <1>1, AnnouncedAre
  <1>9. ASSUME NEW x, x \in Announced(r)
        PROVE  x \in Announced(s) /\ x \notin T
    <2>1. PICK d \in 1 .. MaxDaemons : \E i \in 1 .. Len(r[d]) :
             r[d][i].kind = "overflow" /\ \E k \in 1 .. r[d][i].lost : x = <<<<d, i>>, k>>
      BY <1>7, <1>9
    <2>2. PICK i \in 1 .. Len(r[d]) : r[d][i].kind = "overflow" /\ \E k \in 1 .. r[d][i].lost : x = <<<<d, i>>, k>>
      BY <2>1
    <2>3. PICK k \in 1 .. r[d][i].lost : x = <<<<d, i>>, k>>
      BY <2>2
    <2>4. i \in 1 .. Len(s[d]) /\ s[d][i] = r[d][i]
      BY <1>1, <1>3
    <2>5. x \in Announced(s)
      BY <1>8, <2>2, <2>3, <2>4
    <2>6. ~(d = h /\ i = n)
      BY <1>3, <1>4
    <2> QED
      BY <1>5, <2>3, <2>5, <2>6
  <1>10. ASSUME NEW x, x \in Announced(s), x \notin Announced(r)
         PROVE  m.kind = "overflow" /\ x \in T
    <2>1. PICK d \in 1 .. MaxDaemons : \E i \in 1 .. Len(s[d]) :
             s[d][i].kind = "overflow" /\ \E k \in 1 .. s[d][i].lost : x = <<<<d, i>>, k>>
      BY <1>8, <1>10
    <2>2. PICK i \in 1 .. Len(s[d]) : s[d][i].kind = "overflow" /\ \E k \in 1 .. s[d][i].lost : x = <<<<d, i>>, k>>
      BY <2>1
    <2>3. PICK k \in 1 .. s[d][i].lost : x = <<<<d, i>>, k>>
      BY <2>2
    <2>4. ~(i \in 1 .. Len(r[d]) /\ s[d][i] = r[d][i])
      BY <1>7, <1>10, <2>2, <2>3
    <2>5. d = h
      BY <1>1, <2>4
    <2>6. i = n
      BY <1>3, <1>4, <2>4, <2>5
    <2>7. s[d][i] = m
      BY <1>3, <1>4, <2>5, <2>6
    <2> QED
      BY <1>5, <2>2, <2>3, <2>5, <2>6, <2>7
  <1>11. ASSUME m.kind = "overflow", NEW x \in T
         PROVE  x \in Announced(s)
    <2>1. PICK k \in 1 .. m.lost : x = <<<<h, n>>, k>>
      BY <1>5, <1>11
    <2>2. n \in 1 .. Len(s[h]) /\ s[h][n] = m
      BY <1>3, <1>4
    <2> QED
      BY <1>8, <1>11, <2>1, <2>2
  <1>12. CASE m.kind # "overflow"
    BY <1>9, <1>10, <1>12
  <1>13. CASE m.kind = "overflow"
    <2>1. Announced(s) = Announced(r) \cup T /\ Announced(r) \cap T = {}
      BY <1>9, <1>10, <1>11, <1>13
    <2>2. IsFiniteSet(1 .. m.lost) /\ Cardinality(1 .. m.lost) = m.lost
      <3>1. /\ IsFiniteSet(1 .. m.lost)
            /\ Cardinality(1 .. m.lost) = IF 1 > m.lost THEN 0 ELSE m.lost - 1 + 1
        <4>1. 1 \in Int /\ m.lost \in Int
          BY <1>6
        <4> QED
          BY <4>1, FS_Interval
      <3> QED
        BY <1>6, <3>1
    <2>3. IsFiniteSet({<<h, n>>}) /\ Cardinality({<<h, n>>}) = 1
      BY FS_Singleton
    <2>4. IsFiniteSet(T) /\ Cardinality(T) = Cardinality({<<h, n>>}) * Cardinality(1 .. m.lost)
      BY <1>5, <2>2, <2>3, FS_Product
    <2>5. Cardinality(T) = m.lost
      BY <1>6, <2>2, <2>3, <2>4
    <2>6. /\ IsFiniteSet(Announced(r) \cup T)
          /\ Cardinality(Announced(r) \cup T) =
               Cardinality(Announced(r)) + Cardinality(T) - Cardinality(Announced(r) \cap T)
      BY <2>4, FS_Union
    <2>7. Cardinality(Announced(r) \cap T) = 0 /\ Cardinality(Announced(r)) \in Nat
      BY <2>1, FS_EmptySet, FS_CardinalityType
    <2>8. PICK c : c = Cardinality(Announced(r))
      OBVIOUS
    <2>9. Cardinality(Announced(r) \cup T) = c + m.lost - 0 /\ c \in Nat
      BY <2>5, <2>6, <2>7, <2>8
    <2>10. Cardinality(Announced(r) \cup T) = c + m.lost
      BY <1>6, <2>9
    <2> QED
      BY <1>13, <2>1, <2>6, <2>8, <2>10
  <1> QED
    BY <1>12, <1>13

LEMMA PlainRest ==
  /\ Plain(Rest) /\ Plain(Poll) /\ Rest.pc \notin CountPcs /\ Poll.pc \notin CountPcs
  BY DEF Plain, CountPcs, Rest, Poll, Frame, NoMsg, Msg

LEMMA GoesOnPlain ==
  ASSUME NEW f, NEW g, NEW pc, GoesOn(f, g, pc), Plain(f)
  PROVE  Plain(g) /\ (pc \notin CountPcs => g.pc \notin CountPcs)
  <1>1. CASE pc \in {"idle", "poll"}
    BY <1>1, PlainRest DEF GoesOn
  <1>2. CASE pc \notin {"idle", "poll"}
    BY <1>2 DEF GoesOn, Plain
  <1> QED
    BY <1>1, <1>2

LEMMA LoopsPlain ==
  ASSUME NEW f \in FrameSet, NEW g, NEW n, Loops(f, g, n), Plain(f)
  PROVE  Plain(g) /\ g.pc \notin CountPcs
  <1>1. CASE n = 0
    <2>1. PICK e : e = [f EXCEPT !.ret = "OK"]
      OBVIOUS
    <2>2. e.back = f.back /\ e.then = f.then /\ e.msg = f.msg
      BY <2>1, RetField, ResultsAre
    <2>3. GoesOn(e, g, f.then)
      BY <1>1, <2>1 DEF Loops
    <2>4. Plain(e) /\ f.then \notin CountPcs
      BY <2>2 DEF Plain
    <2> QED
      BY <2>3, <2>4, GoesOnPlain
  <1>2. CASE n # 0
    BY <1>2 DEF Loops, Plain, CountPcs
  <1> QED
    BY <1>1, <1>2

\* A helper reaches such a place only by a report that the pipe took.
LEMMA SendPlain ==
  ASSUME Frames, Len(buffer) \in Nat, NEW p \in Proc, Plain(proc[p]), Looping(proc[p]), Send(p)
  PROVE  /\ Plain(proc'[p])
         /\ proc'[p].pc \in CountPcs => proc'[p].pc = "reset" /\ SendOverflow(p) /\ Reports
         /\ proc[p].pc = "reset" => ResetOverflow(p)
         /\ proc[p].pc # "counted"
  <1>1. proc[p] \in FrameSet /\ proc[p].back \notin CountPcs /\ proc[p].then \notin CountPcs
    BY DEF Frames, Plain
  <1>2. CASE Output(p)
    <2>1. proc[p].pc = "out"
      BY <1>2, OutputMoves
    <2>2. Plain(proc'[p]) /\ proc'[p].pc \notin CountPcs
      <3>1. CASE Wrote(p)
        BY <1>1, <1>2, <3>1, OutputMoves, GoesOnPlain
      <3>2. CASE ~Wrote(p)
        BY <1>1, <1>2, <3>2, OutputMoves DEF Plain, CountPcs
      <3> QED
        BY <3>1, <3>2
    <2> QED
      BY <2>1, <2>2
  <1>3. CASE CheckSize(p)
    BY <1>1, <1>3, CheckSizeMoves DEF Plain, CountPcs
  <1>4. CASE Store(p)
    <2>1. proc[p].pc = "store"
      BY <1>4, StoreMoves
    <2>2. CASE Fits
      BY <1>1, <1>4, <2>1, <2>2, StoreMoves, GoesOnPlain
    <2>3. CASE ~Fits
      <3>1. PICK e : e = [proc[p] EXCEPT !.err = "BUFFER_FULL"]
        OBVIOUS
      <3>2. e.back = proc[p].back /\ e.then = proc[p].then /\ e.msg = proc[p].msg
        BY <1>1, <3>1, ErrField, ResultsAre
      <3>3. GoesOn(e, proc'[p], proc[p].back)
        BY <1>4, <2>3, <3>1, StoreMoves
      <3>4. Plain(e)
        BY <3>2 DEF Plain
      <3> QED
        BY <1>1, <2>1, <3>3, <3>4, GoesOnPlain
    <2> QED
      BY <2>2, <2>3
  <1>5. CASE ResendBuffer(p)
    <2>1. proc[p].pc = "resend"
      BY <1>5 DEF ResendBuffer, At
    <2>2. PICK n : n = IF appID /\ limit.proto = 2 THEN Len(buffer) ELSE 0
      OBVIOUS
    <2>3. Loops(proc[p], proc'[p], n)
      BY <1>5, <2>2, ResendBufferMoves
    <2> QED
      BY <1>1, <2>1, <2>3, LoopsPlain
  <1>6. CASE ResendEntry(p)
    <2>1. proc[p].cnt # 0 /\ proc[p].pc = "resendLoop"
      BY <1>6 DEF ResendEntry, At, Looping
    <2>2. CASE buffer = <<>> \/ Resends
      <3>1. Loops(proc[p], proc'[p], proc[p].cnt - 1)
        BY <1>6, <2>1, <2>2, ResendEntryMoves
      <3> QED
        BY <1>1, <2>1, <3>1, LoopsPlain
    <2>3. CASE ~(buffer = <<>> \/ Resends)
      <3>1. PICK e : e = [proc[p] EXCEPT !.ret = LogOut(handle)]
        OBVIOUS
      <3>2. e.back = proc[p].back /\ e.then = proc[p].then /\ e.msg = proc[p].msg
        BY <1>1, <3>1, RetField, LogOutResult
      <3>3. GoesOn(e, proc'[p], proc[p].then)
        BY <1>6, <2>1, <2>3, <3>1, ResendEntryMoves
      <3>4. Plain(e)
        BY <3>2 DEF Plain
      <3> QED
        BY <1>1, <2>1, <3>3, <3>4, GoesOnPlain
    <2> QED
      BY <2>2, <2>3
  <1>7. CASE SendOverflow(p)
    <2>1. proc[p].pc = "overflow"
      BY <1>7, SendOverflowMoves
    <2>2. CASE Reports
      <3>1. GoesOn(proc[p], proc'[p], "reset")
        BY <1>7, <2>2, SendOverflowMoves
      <3>2. proc'[p].pc = "reset"
        BY <3>1 DEF GoesOn
      <3> QED
        BY <1>7, <2>1, <2>2, <3>1, <3>2, GoesOnPlain
    <2>3. CASE ~Reports
      BY <1>1, <1>7, <2>1, <2>3, SendOverflowMoves, GoesOnPlain
    <2> QED
      BY <2>2, <2>3
  <1>8. CASE ResetOverflow(p)
    BY <1>1, <1>8, ResetOverflowMoves, GoesOnPlain
  <1>9. CASE SkipStore(p)
    BY <1>1, <1>9, SkipStoreMoves, GoesOnPlain
  <1> QED
    BY <1>2, <1>3, <1>4, <1>5, <1>6, <1>7, <1>8, <1>9 DEF Send

\* Who comes to such a place, and who leaves it.
LEMMA CountingGoes ==
  ASSUME UserInv, Carriers, Next, NEW p \in Proc
  PROVE  /\ Plain(proc'[p])
         /\ p = Housekeeper => proc'[p].pc \notin CountPcs
         /\ proc'[p].pc = "reset" => proc'[p] = proc[p] \/ (SendOverflow(p) /\ Reports)
         /\ proc'[p].pc = "counted" => proc'[p] = proc[p] \/ proc'[p].cnt = overflow_counter
         /\ proc[p].pc = "reset" => proc'[p] = proc[p] \/ ResetOverflow(p)
         /\ proc[p].pc = "counted" => proc'[p] = proc[p] \/ (p \in Threads /\ LogCounted(p))
  <1>0. Typed /\ OtherFrames /\ ThreadFrames
    BY DEF UserInv
  <1>1. Frames /\ Len(buffer) \in Nat /\ done.logs \in Nat /\ overflow_counter \in Nat /\ contexts \in Nat
    BY <1>0 DEF Typed, TypeOK, Frames, History
  <1>2. Plain(proc[p]) /\ Looping(proc[p]) /\ proc[Housekeeper].pc \notin CountPcs
    BY <1>0 DEF Carriers, OtherFrames, Looping
  <1>3. "reset" \in CountPcs /\ "counted" \in CountPcs /\ "overflow" \in CountPcs
    BY DEF CountPcs
  <1>4. CASE proc'[p] = proc[p]
    BY <1>2, <1>4
  <1>5. CASE Send(p)
    <2>1. /\ Plain(proc'[p])
          /\ proc'[p].pc \in CountPcs => proc'[p].pc = "reset" /\ SendOverflow(p) /\ Reports
          /\ proc[p].pc = "reset" => ResetOverflow(p)
          /\ proc[p].pc # "counted"
      BY <1>1, <1>2, <1>5, SendPlain
    <2>2. SendOverflow(p) => proc[p].pc \in CountPcs
      BY DEF SendOverflow, At, CountPcs
    <2> QED
      BY <1>2, <1>3, <2>1, <2>2
  <1>6. CASE p \in Threads /\ (LogStart(p) \/ LogOld(p) \/ LogEnd(p) \/ LogCounted(p))
    <2>1. p # Housekeeper
      BY <1>6, ThreadProcs
    <2>2. CASE LogStart(p)
      <3>1. PICK m : m = Log(done.logs + 1, p)
        OBVIOUS
      <3>2. m.kind = "log"
        BY <3>1 DEF Log, Msg
      <3> QED
        BY <1>1, <1>6, <2>1, <2>2, <3>1, <3>2, LogStartMoves DEF Plain, CountPcs
    <2>3. CASE LogOld(p)
      BY <1>1, <1>2, <1>6, <2>1, <2>3, LogOldMoves DEF Plain, CountPcs
    <2>4. CASE LogEnd(p)
      <3>1. CASE proc[p].err = "BUFFER_FULL"
        BY <1>1, <1>2, <1>6, <2>1, <2>4, <3>1, LogEndMoves DEF Plain, CountPcs
      <3>2. CASE proc[p].err # "BUFFER_FULL"
        <4>1. proc'[p] = Rest /\ proc[p].pc = "logged"
          BY <1>1, <1>6, <2>4, <3>2, LogEndMoves
        <4> QED
          BY <1>3, <2>1, <4>1, PlainRest
      <3> QED
        BY <3>1, <3>2
    <2>5. CASE LogCounted(p)
      <3>1. proc'[p] = Rest /\ proc[p].pc = "counted"
        BY <1>1, <1>6, <2>5, LogCountedMoves
      <3> QED
        BY <1>3, <1>6, <2>1, <2>5, <3>1, PlainRest
    <2> QED
      BY <1>6, <2>2, <2>3, <2>4, <2>5
  <1>7. CASE p \in Threads /\ (RegisterApp(p) \/ RegisterContext(p) \/ RegisterAppEnd(p))
    <2>1. p # Housekeeper
      BY <1>7, ThreadProcs
    <2>2. CASE RegisterApp(p) \/ RegisterContext(p)
      BY <1>1, <1>7, <2>1, <2>2, RegisterMoves DEF Plain, CountPcs
    <2>3. CASE RegisterAppEnd(p)
      <3>1. proc[p].pc = "registered" /\ (GoesOn(proc[p], proc'[p], "resend") \/ GoesOn(proc[p], proc'[p], "idle"))
        BY <1>1, <1>7, <2>3, RegisterAppEndMoves
      <3>2. "resend" \notin CountPcs /\ "idle" \notin CountPcs
        BY DEF CountPcs
      <3>3. Plain(proc'[p]) /\ proc'[p].pc \notin CountPcs
        BY <1>2, <3>1, <3>2, GoesOnPlain
      <3> QED
        BY <1>3, <2>1, <3>1, <3>3
    <2> QED
      BY <1>7, <2>2, <2>3
  <1>8. CASE p \in {Housekeeper, Exit} /\ AttachStep(p)
    <2>1. AfterAttach(p) \notin CountPcs /\ "open" \notin CountPcs
      BY AttachPc DEF CountPcs
    <2>2. Plain(proc'[p]) /\ proc'[p].pc \notin CountPcs
      <3>1. CASE Reattach(p)
        BY <1>1, <1>2, <2>1, <3>1, ReattachMoves, GoesOnPlain
      <3>2. CASE ReattachOpen(p)
        <4>1. CASE daemon = 0
          BY <1>1, <1>2, <2>1, <3>2, <4>1, ReattachOpenMoves, GoesOnPlain
        <4>2. CASE daemon # 0
          BY <1>1, <1>2, <3>2, <4>2, ReattachOpenMoves DEF Plain, CountPcs
        <4> QED
          BY <4>1, <4>2
      <3>3. CASE ReattachContext(p)
        <4>1. CASE GoesOn(proc[p], proc'[p], AfterAttach(p))
          BY <1>2, <2>1, <4>1, GoesOnPlain
        <4>2. CASE ~GoesOn(proc[p], proc'[p], AfterAttach(p))
          BY <1>1, <1>2, <3>3, <4>2, ReattachContextMoves DEF Plain, CountPcs
        <4> QED
          BY <4>1, <4>2
      <3> QED
        BY <1>8, <3>1, <3>2, <3>3 DEF AttachStep
    <2>3. proc[p].pc \in {"attach", "open", "context"}
      BY <1>8 DEF AttachStep, Reattach, ReattachOpen, ReattachContext, At
    <2> QED
      BY <1>3, <2>2, <2>3
  <1>9. CASE p = Housekeeper /\ (HousekeeperResend \/ HousekeeperCancelled)
    <2>1. Plain(proc'[p]) /\ proc'[p].pc \notin CountPcs
      <3>1. "resend" \notin CountPcs
        BY DEF CountPcs
      <3> QED
        BY <1>1, <1>2, <1>9, <3>1, HousekeeperMoves, GoesOnPlain, PlainRest
    <2> QED
      BY <1>2, <1>3, <1>9, <2>1
  <1>10. CASE p = Exit /\ (Flushing \/ Ending)
    <2>1. p # Housekeeper
      BY <1>10, OtherProcs
    <2>2. CASE Flushing
      BY <1>1, <1>2, <1>10, <2>1, <2>2, FlushingMoves DEF Plain, CountPcs
    <2>3. CASE Ending
      BY <1>1, <1>2, <1>10, <2>1, <2>3, EndingMoves DEF Plain, CountPcs
    <2> QED
      BY <1>10, <2>2, <2>3
  <1> QED
    BY <1>0, <1>4, <1>5, <1>6, <1>7, <1>8, <1>9, <1>10, Movers DEF Moves

LEMMA LoggersGo ==
  ASSUME Typed, Next
  PROVE  /\ \A t \in Threads : LogStart(t) => done'.loggers = done.loggers \union {t}
         /\ (\E t \in Threads : LogStart(t)) \/ done'.loggers = done.loggers
  <1>1. done \in History
    BY DEF Typed
  <1>2. ASSUME NEW t \in Threads, LogStart(t)
        PROVE  done'.loggers = done.loggers \union {t}
    <2>1. PICK e : e = IF appID THEN done.early ELSE done.early \union {"log"}
      OBVIOUS
    <2>2. PICK l : l = done.loggers \union {t}
      OBVIOUS
    <2>3. PICK n : n = done.logs + 1
      OBVIOUS
    <2>4. done' = [done EXCEPT !.logs = n, !.loggers = l, !.early = e]
      BY <1>2, <2>1, <2>2, <2>3 DEF LogStart
    <2> QED
      BY <1>1, <2>2, <2>4 DEF History
  <1>3. ASSUME NEW p \in Proc, SkipStore(p) \/ Store(p) \/ ReattachOpen(p)
        PROVE  done'.loggers = done.loggers
    <2>1. PICK r : r = done.refused \union {proc[p].msg.n}
      OBVIOUS
    <2>2. PICK o : o = done.overlooked \union {proc[p].msg}
      OBVIOUS
    <2>3. \/ done' = done \/ done' = [done EXCEPT !.refused = r] \/ done' = [done EXCEPT !.attached = daemon]
          \/ done' = [done EXCEPT !.overlooked = o]
      BY <1>3, <2>1, <2>2 DEF SkipStore, Store, ReattachOpen
    <2> QED
      BY <1>1, <2>3 DEF History
  <1>4. ASSUME NEW t \in Threads, LogCounted(t) \/ RegisterAppEnd(t) \/ RegisterContext(t)
        PROVE  done'.loggers = done.loggers
    <2>1. PICK r : r = done.discarded \union {proc[t].msg.n}
      OBVIOUS
    <2>2. PICK e : e = done.early \union {"context"}
      OBVIOUS
    <2>3. \/ done' = done \/ done' = [done EXCEPT !.discarded = r] \/ done' = [done EXCEPT !.registered = TRUE]
          \/ done' = [done EXCEPT !.early = e]
      BY <1>4, <2>1, <2>2 DEF LogCounted, RegisterAppEnd, RegisterContext
    <2> QED
      BY <1>1, <2>3 DEF History
  <1>5. ASSUME BlowOutTimeout \/ BlowOutEnd \/ FreeJoined \/ DaemonStarts \/ PipeFills
        PROVE  done'.loggers = done.loggers
    <2>1. PICK w : w = LeftOver
      OBVIOUS
    <2>2. PICK l : l = LogNumbers(buffer)
      OBVIOUS
    <2>3. PICK d : d = daemon'
      OBVIOUS
    <2>4. PICK f : f = done.fills + 1
      OBVIOUS
    <2>5. \/ done' = done \/ done' = [done EXCEPT !.warned = w] \/ done' = [done EXCEPT !.lost = l]
          \/ done' = [done EXCEPT !.daemons = d] \/ done' = [done EXCEPT !.fills = f]
      BY <1>5, <2>1, <2>2, <2>3, <2>4 DEF BlowOutTimeout, BlowOutEnd, FreeJoined, DaemonStarts, PipeFills
    <2> QED
      BY <1>1, <2>5 DEF History
  <1> QED
    BY <1>2, <1>3, <1>4, <1>5, DoneChanges

LEMMA DiscardedGoes ==
  ASSUME Typed, Next
  PROVE  /\ \A t \in Threads : LogCounted(t) => done'.discarded = done.discarded \union {proc[t].msg.n}
         /\ (\E t \in Threads : LogCounted(t)) \/ done'.discarded = done.discarded
         /\ done'.logs \in Nat /\ done'.logs >= done.logs
  <1>1. (\E t \in Threads : LogCounted(t)) \/ done'.discarded = done.discarded
    BY DoneChanges, DoneQuiet, DoneLogStart, DoneAttached, DoneWarned, DoneFreed DEF Unlogged
  <1>2. done.logs \in Nat
    BY HistoryFields DEF Typed
  <1>3. done'.logs = done.logs \/ done'.logs = done.logs + 1
    BY DoneChanges, DoneQuiet, DoneLogStart, DoneLogCounted, DoneAttached, DoneWarned, DoneFreed DEF Unlogged
  <1> QED
    BY <1>1, <1>2, <1>3, DoneLogCounted

LEMMA CounterGoes ==
  ASSUME Next
  PROVE  \/ overflow_counter' = overflow_counter
         \/ \E p \in Proc : ResetOverflow(p)
         \/ \E t \in Threads : LogCounted(t)
  <1>1. ASSUME NEW p \in Proc, Send(p), ~ResetOverflow(p)
        PROVE  overflow_counter' = overflow_counter
    BY <1>1 DEF Send, Output, SkipStore, CheckSize, Store, ResendBuffer, ResendEntry, SendOverflow, libVars
  <1>2. ASSUME NEW t \in Threads, LogStart(t) \/ LogOld(t) \/ LogEnd(t)
        PROVE  overflow_counter' = overflow_counter
    BY <1>2 DEF LogStart, LogOld, LogEnd, libVars
  <1>3. ASSUME NEW t \in Threads, RegisterApp(t) \/ RegisterContext(t) \/ RegisterAppEnd(t)
        PROVE  overflow_counter' = overflow_counter
    BY <1>3 DEF RegisterApp, RegisterContext, RegisterAppEnd, libVars
  <1>4. ASSUME NEW p \in {Housekeeper, Exit}, AttachStep(p)
        PROVE  overflow_counter' = overflow_counter
    BY <1>4 DEF AttachStep, Reattach, ReattachOpen, ReattachContext, libVars
  <1>5. CASE HousekeeperResend \/ HousekeeperCancelled
    BY <1>5 DEF HousekeeperResend, HousekeeperCancelled, libVars
  <1>6. CASE Flushing
    BY <1>6 DEF Flushing, ExitStart, BlowOut, BlowOutTimeout, BlowOutOverflow, BlowOutResend, BlowOutEnd, libVars
  <1>7. CASE Ending
    BY <1>7 DEF Ending, ExitUnregister, ExitClear, FreeStart, FreeLock, FreeJoined, libVars
  <1>8. CASE Environment
    BY <1>8 DEF Environment, DaemonStarts, DaemonStops, PipeFills, DaemonReads, libVars
  <1> QED
    BY <1>1, <1>2, <1>3, <1>4, <1>5, <1>6, <1>7, <1>8, Steps

LEMMA CarriersStep ==
  ASSUME UserInv, Carriers, Next
  PROVE  Carriers'
  <1>1. \A p \in Proc : Plain(proc'[p]) /\ (p = Housekeeper => proc'[p].pc \notin CountPcs)
    BY CountingGoes
  <1>2. \A i \in 1 .. Len(buffer') : buffer'[i].kind # "overflow"
    <2>1. Typed /\ OtherFrames /\ buffer \in Seq(Message) /\ \A p \in Proc : proc[p].msg \in Message
      BY DEF UserInv, Typed, TypeOK
    <2>2. \A i \in 1 .. Len(buffer) : buffer[i].kind # "overflow"
      BY DEF Carriers
    <2>3. ASSUME NEW p \in Proc, buffer' = Append(buffer, proc[p].msg)
          PROVE  \A i \in 1 .. Len(buffer') : buffer'[i].kind # "overflow"
      <3>1. PICK m \in Message : m = proc[p].msg
        BY <2>1
      <3>2. m.kind # "overflow"
        BY <3>1 DEF Carriers, Plain
      <3>3. /\ Len(Append(buffer, m)) = Len(buffer) + 1
            /\ \A i \in 1 .. Len(buffer) : Append(buffer, m)[i] = buffer[i]
            /\ Append(buffer, m)[Len(buffer) + 1] = m
        BY <2>1, AppendEntries
      <3>4. Len(buffer) \in Nat
        BY <2>1
      <3>5. ASSUME NEW i \in 1 .. Len(buffer) + 1 PROVE Append(buffer, m)[i].kind # "overflow"
        <4>1. i \in 1 .. Len(buffer) \/ i = Len(buffer) + 1
          BY <3>4
        <4> QED
          BY <2>2, <3>2, <3>3, <4>1
      <3> QED
        BY <2>3, <3>1, <3>3, <3>5
    <2>4. ASSUME buffer # <<>>, buffer' = Tail(buffer)
          PROVE  \A i \in 1 .. Len(buffer') : buffer'[i].kind # "overflow"
      <3>1. /\ Len(Tail(buffer)) = Len(buffer) - 1 /\ Len(buffer) \in Nat
            /\ \A i \in 1 .. Len(buffer) - 1 : Tail(buffer)[i] = buffer[i + 1]
        BY <2>1, <2>4, TailEntries
      <3>2. \A i \in 1 .. Len(buffer) - 1 : i + 1 \in 1 .. Len(buffer)
        BY <3>1
      <3> QED
        BY <2>2, <2>4, <3>1, <3>2
    <2>5. ASSUME buffer' = <<>> PROVE \A i \in 1 .. Len(buffer') : buffer'[i].kind # "overflow"
      BY <2>5
    <2>6. buffer' = buffer => \A i \in 1 .. Len(buffer') : buffer'[i].kind # "overflow"
      BY <2>2
    <2> QED
      BY <2>1, <2>3, <2>4, <2>5, <2>6, BufferGoes DEF Resends
  <1> QED
    BY <1>1, <1>2, OtherProcs DEF Carriers, Plain

LEMMA LoggersStep ==
  ASSUME UserInv, Loggers, Next
  PROVE  Loggers' /\ (Cardinality(done'.loggers) <= 1 => Cardinality(done.loggers) <= 1)
  <1>1. Typed /\ OtherFrames /\ ThreadFrames
    BY DEF UserInv
  <1>2. done.loggers \subseteq done'.loggers /\ IsFiniteSet(done'.loggers)
    <2>1. ASSUME NEW t \in Threads, LogStart(t)
          PROVE  done.loggers \subseteq done'.loggers /\ IsFiniteSet(done'.loggers)
      <3>1. done'.loggers = done.loggers \cup {t}
        BY <1>1, <2>1, LoggersGo
      <3>2. IsFiniteSet(done.loggers \cup {t})
        BY FS_AddElement DEF Loggers
      <3> QED
        BY <3>1, <3>2
    <2> QED
      BY <1>1, <2>1, LoggersGo DEF Loggers
  <1>3. ASSUME NEW t \in Threads, Loose(proc'[t]) PROVE t \in done'.loggers
    <2>1. Loose(proc[t]) \/ LogStart(t)
      BY <1>1, <1>3, LooseGoes
    <2>2. CASE Loose(proc[t])
      BY <1>2, <2>2 DEF Loggers
    <2>3. CASE LogStart(t)
      BY <1>1, <2>3, LoggersGo
    <2> QED
      BY <2>1, <2>2, <2>3
  <1>4. Cardinality(done.loggers) <= Cardinality(done'.loggers)
    BY <1>2, FS_Subset
  <1>5. Cardinality(done.loggers) \in Nat /\ Cardinality(done'.loggers) \in Nat
    BY <1>2, FS_CardinalityType DEF Loggers
  <1>6. Loggers'
    BY <1>2, <1>3 DEF Loggers, Loose
  <1> QED
    BY <1>4, <1>5, <1>6

LEMMA DiscardedStep ==
  ASSUME UserInv, Discarded, Next
  PROVE  Discarded'
  <1>1. Typed /\ OtherFrames /\ ThreadFrames /\ Unique /\ done.logs \in Nat
    BY HistoryFields DEF UserInv, Typed
  <1>2. /\ \A t \in Threads : LogCounted(t) => done'.discarded = done.discarded \union {proc[t].msg.n}
        /\ (\E t \in Threads : LogCounted(t)) \/ done'.discarded = done.discarded
        /\ done'.logs \in Nat /\ done'.logs >= done.logs
    BY <1>1, DiscardedGoes
  <1>3. \A t \in Threads : LogCounted(t) => Loose(proc[t]) /\ proc[t].msg.n \in 1 .. done.logs /\ proc'[t] = Rest
    <2> SUFFICES ASSUME NEW t \in Threads, LogCounted(t)
                 PROVE  Loose(proc[t]) /\ proc[t].msg.n \in 1 .. done.logs /\ proc'[t] = Rest
      OBVIOUS
    <2>1. proc[t].pc = "counted" /\ proc'[t] = Rest
      BY <1>1, LogCountedMoves DEF Typed, Frames
    <2>2. proc[t].msg.kind = "log"
      BY <1>1, <2>1 DEF ThreadFrames, ThreadFrame, OtherCall
    <2> QED
      BY <1>1, <2>1, <2>2 DEF Loose, ThreadFrames
  <1>4. done'.discarded \subseteq 1 .. done'.logs
    BY <1>1, <1>2, <1>3 DEF Discarded
  <1>5. ASSUME NEW t \in Threads, Loose(proc'[t]) PROVE proc'[t].msg.n \notin done'.discarded
    <2>1. CASE Loose(proc[t]) /\ proc'[t].msg = proc[t].msg
      <3>1. proc[t].msg.n \notin done.discarded
        BY <2>1 DEF Discarded
      <3>2. ASSUME NEW u \in Threads, LogCounted(u) PROVE proc[t].msg.n # proc[u].msg.n
        <4>1. u # t
          BY <1>3, <1>5, <3>2, RestFields DEF Loose
        <4> QED
          BY <1>1, <1>3, <2>1, <3>2, <4>1 DEF Unique
      <3> QED
        BY <1>2, <2>1, <3>1, <3>2
    <2>2. CASE LogStart(t) /\ proc'[t].msg.n = done.logs + 1
      <3>1. done'.discarded = done.discarded
        BY <1>1, <2>2, DoneLogStart
      <3>2. done.logs + 1 \notin 1 .. done.logs
        BY <1>1
      <3> QED
        BY <2>2, <3>1, <3>2 DEF Discarded
    <2> QED
      BY <1>1, <1>5, <2>1, <2>2, LooseGoes
  <1> QED
    BY <1>4, <1>5 DEF Discarded, Loose

\* With one logging thread, one process at most is at such a place.
LEMMA OneCounts ==
  ASSUME UserInv, Carriers, Loggers, Lone, NEW p \in Proc, NEW q \in Proc,
         proc[p].pc \in CountPcs, proc[q].pc \in CountPcs
  PROVE  p = q
  <1>1. ThreadFrames /\ ExitFrame
    BY DEF UserInv
  <1>2. p # Housekeeper /\ q # Housekeeper
    BY DEF Carriers
  <1>3. ASSUME NEW t \in Threads, proc[t].pc \in CountPcs
        PROVE  t \in done.loggers /\ proc[t].pc # "idle"
    <2>1. Loose(proc[t])
      BY <1>1, <1>3 DEF ThreadFrames, ThreadFrame, OtherCall, CountPcs, Loose
    <2> QED
      BY <1>3, <2>1 DEF Loggers, CountPcs
  <1>4. proc[Exit].pc \in CountPcs => \A t \in Threads : proc[t].pc \notin CountPcs
    BY <1>1 DEF ExitFrame, Exiting, At, CountPcs
  <1>5. (p \in Threads \/ p = Exit) /\ (q \in Threads \/ q = Exit)
    BY <1>2 DEF Proc
  <1>6. ASSUME p \in Threads, q \in Threads, p # q PROVE FALSE
    <2>1. p \in done.loggers /\ q \in done.loggers
      BY <1>3, <1>6
    <2>2. IsFiniteSet({p}) /\ Cardinality({p}) = 1
      BY FS_Singleton
    <2>3. IsFiniteSet({p} \cup {q}) /\ Cardinality({p} \cup {q}) = IF q \in {p} THEN Cardinality({p}) ELSE Cardinality({p}) + 1
      BY <2>2, FS_AddElement
    <2>4. Cardinality({p} \cup {q}) = 2
      BY <1>6, <2>2, <2>3
    <2>5. ({p} \cup {q}) \in SUBSET done.loggers
      BY <2>1
    <2>6. IsFiniteSet(done.loggers) /\ Cardinality(done.loggers) <= 1
      BY DEF Loggers, Lone
    <2>7. Cardinality({p} \cup {q}) <= Cardinality(done.loggers)
      BY <2>5, <2>6, FS_Subset
    <2>8. Cardinality(done.loggers) \in Nat
      BY <2>6, FS_CardinalityType
    <2> QED
      BY <2>4, <2>6, <2>7, <2>8
  <1> QED
    BY <1>4, <1>5, <1>6

\* What a step adds to the losses announced.
LEMMA AnnouncedGoes ==
  ASSUME UserInv, Carriers, IsFiniteSet(Announced(received)), Next
  PROVE  /\ IsFiniteSet(Announced(received'))
         /\ \/ Announced(received') = Announced(received)
            \/ \E p \in Proc : SendOverflow(p) /\ Reports
         /\ \A p \in Proc : SendOverflow(p) /\ Reports /\ limit.proto = 2 =>
              Cardinality(Announced(received')) = Cardinality(Announced(received)) + overflow_counter
  <1>1. Typed /\ OtherFrames /\ Frames
    BY DEF UserInv, Typed, Frames
  <1>2. received \in [1 .. MaxDaemons -> Seq(Message)] /\ buffer \in Seq(Message) /\ overflow_counter \in Nat
    BY <1>1 DEF Typed, TypeOK
  <1>3. \A p \in Proc : proc[p].msg \in Message /\ proc[p].msg.kind # "overflow"
    BY <1>1 DEF Typed, TypeOK, Carriers, Plain
  <1>4. LogOut(handle) = "OK" => handle \in 1 .. MaxDaemons
    BY <1>1, LogOutResult DEF Typed, TypeOK
  <1>5. ASSUME NEW p \in Proc, SendOverflow(p), Reports
        PROVE  /\ IsFiniteSet(Announced(received'))
               /\ limit.proto = 2 =>
                    Cardinality(Announced(received')) = Cardinality(Announced(received)) + overflow_counter
    <2>1. PICK m : m = OverflowReport(overflow_counter)
      OBVIOUS
    <2>2. /\ m \in Message /\ m.kind = "overflow" /\ (limit.proto = 2 => m.lost = overflow_counter)
      BY <1>2, <2>1 DEF OverflowReport, Msg, Message, Nobody
    <2>3. received' = [received EXCEPT ![handle] = Append(received[handle], m)]
      BY <1>1, <1>5, <2>1, SendOverflowMoves
    <2>4. handle \in 1 .. MaxDaemons
      BY <1>4, <1>5 DEF Reports
    <2>5. PICK s : s = received'
      OBVIOUS
    <2>6. Takes(received, s, handle, m)
      BY <2>3, <2>5 DEF Takes
    <2>7. IsFiniteSet(Announced(s)) /\ Cardinality(Announced(s)) = Cardinality(Announced(received)) + m.lost
      BY <1>2, <2>2, <2>4, <2>6, AnnouncedAdds
    <2> QED
      BY <2>2, <2>5, <2>7
  <1>6. ASSUME NEW p \in Proc, Output(p)
        PROVE  Announced(received') = Announced(received)
    <2>1. CASE Wrote(p)
      <3>1. handle \in 1 .. MaxDaemons
        BY <1>4, <2>1 DEF Wrote
      <3>2. received' = [received EXCEPT ![handle] = Append(received[handle], proc[p].msg)]
        BY <1>1, <1>6, <2>1, OutputMoves
      <3>3. PICK s : s = received'
        OBVIOUS
      <3>4. Takes(received, s, handle, proc[p].msg)
        BY <3>2, <3>3 DEF Takes
      <3>5. Announced(s) = Announced(received)
        BY <1>2, <1>3, <3>1, <3>4, AnnouncedAdds
      <3> QED
        BY <3>3, <3>5
    <2>2. CASE ~Wrote(p)
      BY <1>1, <1>6, <2>2, OutputMoves
    <2> QED
      BY <2>1, <2>2
  <1>7. ASSUME NEW p \in Proc, ResendEntry(p)
        PROVE  Announced(received') = Announced(received)
    <2>0. proc[p].cnt # 0
      BY <1>1, <1>7 DEF OtherFrames, ResendEntry, At
    <2>1. CASE Resends
      <3>1. handle \in 1 .. MaxDaemons /\ buffer # <<>>
        BY <1>4, <2>1 DEF Resends
      <3>2. received' = [received EXCEPT ![handle] = Append(received[handle], Head(buffer))]
        BY <1>1, <1>7, <2>0, <2>1, ResendEntryMoves
      <3>3. Head(buffer) = buffer[1] /\ Head(buffer) \in Message /\ Len(buffer) # 0 /\ Len(buffer) \in Nat
        BY <1>2, <3>1, TailEntries
      <3>4. 1 \in 1 .. Len(buffer)
        BY <3>3
      <3>5. Head(buffer).kind # "overflow"
        BY <3>3, <3>4 DEF Carriers
      <3>6. PICK s : s = received'
        OBVIOUS
      <3>7. Takes(received, s, handle, Head(buffer))
        BY <3>2, <3>6 DEF Takes
      <3>8. Announced(s) = Announced(received)
        BY <1>2, <3>1, <3>3, <3>5, <3>7, AnnouncedAdds
      <3> QED
        BY <3>6, <3>8
    <2>2. CASE ~Resends
      BY <1>1, <1>7, <2>0, <2>2, ResendEntryMoves
    <2> QED
      BY <2>1, <2>2
  <1>8. ASSUME NEW p \in Proc, SendOverflow(p), ~Reports
        PROVE  Announced(received') = Announced(received)
    BY <1>1, <1>8, SendOverflowMoves
  <1>9. \/ Announced(received') = Announced(received)
        \/ \E p \in Proc : SendOverflow(p) /\ Reports
    BY <1>6, <1>7, <1>8, ReceivedChanges
  <1>10. IsFiniteSet(Announced(received'))
    BY <1>5, <1>9
  <1> QED
    BY <1>5, <1>9, <1>10

LEMMA BalanceStep ==
  ASSUME UserInv, Carriers, Loggers, Discarded, IsFiniteSet(Announced(received)), Lone, Balance, Next
  PROVE  Balance'
  <1>1. Typed /\ Frames /\ ThreadFrames /\ overflow_counter \in Nat /\ done.logs \in Nat
    BY HistoryFields DEF UserInv, Typed, TypeOK, Frames
  <1>2. "reset" \in CountPcs /\ "counted" \in CountPcs /\ "overflow" \in CountPcs
    BY DEF CountPcs
  <1>3. PICK a : a = Cardinality(Announced(received))
    OBVIOUS
  <1>4. PICK c : c = Cardinality(done.discarded)
    OBVIOUS
  <1>5. IsFiniteSet(done.discarded)
    <2>1. 1 \in Int /\ done.logs \in Int
      BY <1>1
    <2>2. IsFiniteSet(1 .. done.logs)
      BY <2>1, FS_Interval
    <2> QED
      BY <2>2, FS_Subset DEF Discarded
  <1>6. a \in Nat /\ c \in Nat
    BY <1>3, <1>4, <1>5, FS_CardinalityType
  <1>7. (Announcing => c = a) /\ (~Announcing => c = overflow_counter + a)
    BY <1>3, <1>4 DEF Balance
  <1>8. \A p \in Proc :
          /\ proc'[p].pc = "reset" => proc'[p] = proc[p] \/ (SendOverflow(p) /\ Reports)
          /\ proc'[p].pc = "counted" => proc'[p] = proc[p] \/ proc'[p].cnt = overflow_counter
          /\ proc[p].pc = "reset" => proc'[p] = proc[p] \/ ResetOverflow(p)
          /\ proc[p].pc = "counted" => proc'[p] = proc[p] \/ (p \in Threads /\ LogCounted(p))
    BY CountingGoes
  <1>9. \A p, q \in Proc : proc[p].pc \in CountPcs /\ proc[q].pc \in CountPcs => p = q
    BY OneCounts
  <1>10. \A t \in Threads : t \in Proc
    BY ThreadProcs
  <1>11. \A p \in Proc : SendOverflow(p) => proc[p].pc = "overflow"
    BY DEF SendOverflow, At
  <1>12. Announcing' <=> \E p \in Proc : proc'[p].pc = "reset"
    BY DEF Announcing
  <1>13. ASSUME NEW p \in Proc, ResetOverflow(p)
         PROVE  Balance'
    <2>1. proc[p].pc = "reset" /\ overflow_counter' = 0 /\ received' = received /\ done' = done
      BY <1>13 DEF ResetOverflow, At
    <2>2. Moves(p) /\ GoesOn(proc[p], proc'[p], proc[p].then)
      BY <1>1, <1>13, ResetOverflowMoves
    <2>3. Plain(proc[p]) /\ proc'[p].pc \notin CountPcs
      BY <2>2, GoesOnPlain DEF Carriers, Plain
    <2>4. \A q \in Proc : proc'[q].pc \notin CountPcs
      BY <1>2, <1>9, <2>1, <2>2, <2>3 DEF Moves
    <2>5. ~Announcing' /\ \A t \in Threads : proc'[t].pc # "counted"
      BY <1>2, <1>10, <1>12, <2>4
    <2>6. Announcing
      BY <2>1 DEF Announcing
    <2>7. c = 0 + a
      BY <1>6, <1>7, <2>6
    <2> QED
      BY <1>3, <1>4, <2>1, <2>5, <2>7 DEF Balance
  <1>14. ASSUME NEW t \in Threads, LogCounted(t)
         PROVE  Balance'
    <2>1. proc[t].pc = "counted" /\ overflow_counter' = proc[t].cnt + 1 /\ received' = received
      BY <1>14 DEF LogCounted, At
    <2>2. Moves(t) /\ proc'[t] = Rest /\ Rest.pc \notin CountPcs
      BY <1>1, <1>14, LogCountedMoves, PlainRest
    <2>3. \A q \in Proc : proc'[q].pc \notin CountPcs
      BY <1>2, <1>9, <1>10, <2>1, <2>2 DEF Moves
    <2>4. ~Announcing' /\ \A u \in Threads : proc'[u].pc # "counted"
      BY <1>2, <1>10, <1>12, <2>3
    <2>5. ~Announcing
      <3>1. ASSUME NEW q \in Proc, proc[q].pc = "reset" PROVE FALSE
        BY <1>2, <1>9, <1>10, <2>1, <3>1
      <3> QED
        BY <3>1 DEF Announcing
    <2>6. proc[t].cnt = overflow_counter
      BY <2>1 DEF Balance
    <2>7. Loose(proc[t])
      BY <1>1, <2>1 DEF ThreadFrames, ThreadFrame, OtherCall, Loose
    <2>8. proc[t].msg.n \notin done.discarded /\ done'.discarded = done.discarded \cup {proc[t].msg.n}
      BY <1>1, <1>14, <2>7, DiscardedGoes DEF Discarded
    <2>9. Cardinality(done.discarded \cup {proc[t].msg.n}) = c + 1
      BY <1>4, <1>5, <2>8, FS_AddElement
    <2>10. Cardinality(done'.discarded) = overflow_counter' + a
      BY <1>1, <1>6, <1>7, <2>1, <2>5, <2>6, <2>8, <2>9
    <2> QED
      BY <1>3, <2>1, <2>4, <2>10 DEF Balance
  <1>15. ASSUME NEW p \in Proc, SendOverflow(p), Reports
         PROVE  Balance'
    <2>1. proc[p].pc = "overflow" /\ done' = done /\ overflow_counter' = overflow_counter
      BY <1>15 DEF SendOverflow, At, libVars
    <2>2. Moves(p) /\ GoesOn(proc[p], proc'[p], "reset")
      BY <1>1, <1>15, SendOverflowMoves
    <2>3. proc'[p].pc = "reset"
      BY <2>2 DEF GoesOn
    <2>4. Announcing'
      BY <1>12, <2>3
    <2>5. ~Announcing
      <3>1. ASSUME NEW q \in Proc, proc[q].pc = "reset" PROVE FALSE
        BY <1>2, <1>9, <2>1, <3>1
      <3> QED
        BY <3>1 DEF Announcing
    <2>6. Cardinality(Announced(received')) = a + overflow_counter
      BY <1>3, <1>15, AnnouncedGoes DEF Lone
    <2>7. \A t \in Threads : proc'[t].pc # "counted"
      <3>1. ASSUME NEW t \in Threads, proc'[t].pc = "counted" PROVE FALSE
        <4>1. t # p
          BY <2>3, <3>1
        <4>2. proc[t].pc = "counted"
          BY <1>10, <2>2, <3>1, <4>1 DEF Moves
        <4> QED
          BY <1>2, <1>9, <1>10, <2>1, <4>1, <4>2
      <3> QED
        BY <3>1
    <2>8. Cardinality(done'.discarded) = Cardinality(Announced(received'))
      BY <1>1, <1>4, <1>6, <1>7, <2>1, <2>5, <2>6
    <2> QED
      BY <2>4, <2>7, <2>8 DEF Balance
  <1>16. ASSUME \A p \in Proc : ~ResetOverflow(p) /\ ~(SendOverflow(p) /\ Reports),
                \A t \in Threads : ~LogCounted(t)
         PROVE  Balance'
    <2>1. overflow_counter' = overflow_counter /\ done'.discarded = done.discarded
      BY <1>1, <1>16, CounterGoes, DiscardedGoes
    <2>2. Announced(received') = Announced(received)
      BY <1>16, AnnouncedGoes
    <2>3. Announcing' <=> Announcing
      BY <1>8, <1>12, <1>16 DEF Announcing
    <2>4. \A t \in Threads : proc'[t].pc = "counted" => proc'[t].cnt = overflow_counter
      BY <1>8, <1>10 DEF Balance
    <2> QED
      BY <1>3, <1>4, <1>7, <2>1, <2>2, <2>3, <2>4 DEF Balance
  <1> QED
    BY <1>13, <1>14, <1>15, <1>16

LEMMA InitAccount ==
  ASSUME Init
  PROVE  AccountInv
  <1>1. \A p \in Proc : proc[p] \in {Rest, Poll}
    BY InitFrames
  <1>2. \A p \in Proc : Plain(proc[p]) /\ proc[p].pc \notin CountPcs
    BY <1>1, PlainRest
  <1>3. /\ buffer = <<>> /\ overflow_counter = 0 /\ done.loggers = {} /\ done.discarded = {} /\ done.logs = 0
        /\ received = [d \in 1 .. MaxDaemons |-> <<>>]
    BY DEF Init
  <1>4. Carriers
    BY <1>2, <1>3, OtherProcs DEF Carriers
  <1>5. Loggers /\ Discarded
    <2>1. \A t \in Threads : ~Loose(proc[t])
      BY InitFrames, RestFields DEF Loose
    <2> QED
      BY <1>3, <2>1, FS_EmptySet DEF Loggers, Discarded
  <1>6. Announced(received) = {}
    <2>1. received \in [1 .. MaxDaemons -> Seq(Message)] /\ \A d \in 1 .. MaxDaemons : 1 .. Len(received[d]) = {}
      BY <1>3
    <2>2. ASSUME NEW x \in Announced(received) PROVE FALSE
      BY <2>1, <2>2, AnnouncedAre
    <2> QED
      BY <2>2
  <1>7. Balance
    <2>1. ~Announcing /\ \A t \in Threads : proc[t].pc # "counted"
      BY <1>2, ThreadProcs DEF Announcing, CountPcs
    <2>2. Cardinality({}) = 0
      BY FS_EmptySet
    <2>3. Cardinality(done.discarded) = 0 /\ Cardinality(Announced(received)) = 0
      BY <1>3, <1>6, <2>2
    <2>4. overflow_counter + Cardinality(Announced(received)) = 0
      BY <1>3, <2>3
    <2> QED
      BY <2>1, <2>3, <2>4 DEF Balance
  <1> QED
    BY <1>4, <1>5, <1>6, <1>7, FS_EmptySet DEF AccountInv

LEMMA AccountStep ==
  ASSUME UserInv, AccountInv, [Next]_vars
  PROVE  AccountInv'
  <1>1. Carriers /\ Loggers /\ Discarded /\ IsFiniteSet(Announced(received)) /\ (Lone => Balance)
    BY DEF AccountInv
  <1>2. CASE Next
    <2>1. Carriers' /\ Loggers' /\ Discarded'
      BY <1>1, <1>2, CarriersStep, LoggersStep, DiscardedStep
    <2>2. IsFiniteSet(Announced(received'))
      BY <1>1, <1>2, AnnouncedGoes
    <2>3. ASSUME Lone' PROVE Balance'
      <3>1. limit' = limit
        BY <1>2, LimitStays DEF UserInv
      <3>2. Cardinality(done'.loggers) <= 1
        BY <2>3 DEF Lone
      <3>3. Lone
        BY <1>1, <1>2, <2>3, <3>1, <3>2, LoggersStep DEF Lone
      <3> QED
        BY <1>1, <1>2, <3>3, BalanceStep
    <2> QED
      BY <2>1, <2>2, <2>3 DEF AccountInv
  <1>3. CASE UNCHANGED vars
    <2>1. /\ buffer' = buffer /\ overflow_counter' = overflow_counter /\ proc' = proc /\ limit' = limit
          /\ received' = received /\ done' = done
      BY <1>3 DEF vars, libVars, envVars
    <2>2. Carriers' /\ Loggers' /\ Discarded'
      BY <1>1, <2>1 DEF Carriers, Plain, Loggers, Discarded, Loose
    <2>3. Lone' => Balance'
      BY <1>1, <2>1 DEF Lone, Balance, Announcing
    <2> QED
      BY <1>1, <2>1, <2>2, <2>3 DEF AccountInv
  <1> QED
    BY <1>2, <1>3

LEMMA InvOverflowAccounted ==
  ASSUME UserInv, AccountInv
  PROVE  OverflowAccountedV2
  <1> SUFFICES ASSUME limit.proto = 2, Cardinality(done.loggers) <= 1, Quiet, ~At(Exit, "reset")
               PROVE  Cardinality(done.discarded) = overflow_counter + Cardinality(Announced(received))
    BY DEF OverflowAccountedV2, OverflowAccounted
  <1>1. Balance
    BY DEF AccountInv, Lone
  <1>2. ~Announcing
    <2>1. proc[Housekeeper].pc # "reset"
      BY DEF AccountInv, Carriers, CountPcs
    <2>2. \A t \in Threads : proc[t].pc # "reset"
      BY DEF Quiet, At
    <2>3. proc[Exit].pc # "reset"
      BY DEF At
    <2> QED
      BY <2>1, <2>2, <2>3 DEF Announcing, Proc
  <1> QED
    BY <1>1, <1>2 DEF Balance

(***************************************************************************)
(* Theorem.  With protocol 2 and one logging thread, the account of        *)
(* discarded messages is exact: whatever the housekeeper resends meanwhile, *)
(* whatever daemons come and go, and also when the atexit handler sends    *)
(* the last report, every discarded message is in overflow_counter or in   *)
(* one report that a pipe accepted, never in both                          *)
(* (dlt_user_log_send_overflow, dlt_user_log_send_log_v2).                 *)
(***************************************************************************)
THEOREM OverflowsAreAccounted == Spec => []OverflowAccountedV2
  <1>1. Init => AccountInv
    BY InitAccount
  <1>2. UserInv /\ AccountInv /\ [Next]_vars => AccountInv'
    BY AccountStep
  <1>3. UserInv /\ AccountInv => OverflowAccountedV2
    BY InvOverflowAccounted
  <1> QED
    BY <1>1, <1>2, <1>3, UserInvariant, PTL DEF Spec
================================================================================
