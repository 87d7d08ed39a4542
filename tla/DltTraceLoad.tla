---------------------------- MODULE DltTraceLoad ----------------------------
(***************************************************************************)
(* Trace load control (DLT_TRACE_LOAD_CTRL_ENABLE): the byte rate of an    *)
(* application is measured over a sliding window of time slots; above the  *)
(* soft limit a warning is logged, above the hard limit messages are       *)
(* dropped.  The limits come from dlt-trace-load.conf: the daemon parses   *)
(* the file, gives an application its entries when it registers and sends  *)
(* them to it.  dlt_user.c measures before it sends, dlt-daemon.c measures *)
(* again.                                                                  *)
(*                                                                         *)
(* Modelled: dlt_check_trace_load and all it calls (dlt_common.c), the     *)
(* lookup of the settings, the parser of the file, the settings of an      *)
(* application, the message that replaces them in the library, and the     *)
(* check in the daemon.  Version 1 of the protocol looks the settings up   *)
(* under a lock and checks without one: threads that check at once write   *)
(* one entry together, and the housekeeper frees entries that are used.    *)
(* An application id is a number, a context id too, 0 where an entry is    *)
(* for the whole application; time is counted in timestamp ticks and wraps *)
(* at Modulus as the 32-bit field does.                                    *)
(***************************************************************************)
EXTENDS Integers, Sequences, FiniteSets, FiniteSetsExt, SequencesExt, TLC

CONSTANTS
  WindowSize,            \* DLT_TRACE_LOAD_WINDOW_SIZE, slots of the window
  WindowResolution,      \* DLT_TRACE_LOAD_WINDOW_RESOLUTION, ticks of a slot
  TimestampResolution,   \* DLT_TIMESTAMP_RESOLUTION, ticks of a second
  SoftFrequency,         \* DLT_SOFT_LIMIT_WARN_FREQUENCY, in slots
  HardFrequency,         \* DLT_HARD_LIMIT_WARN_FREQUENCY, in slots
  DaemonDefault,         \* [soft, hard]: DLT_TRACE_LOAD_DAEMON_*_LIMIT_DEFAULT
  ClientDefault,         \* [soft, hard]: DLT_TRACE_LOAD_CLIENT_*_LIMIT_DEFAULT
  Contexts,              \* context ids that log, numbers above 0
  Loggers,               \* threads that log
  LoadLimits                 \* the shapes of the histories explored, see LoadInit

App == 1                 \* the application that is followed

\* Limits in bytes per second, a line of the file, and the shape of a history, see LoadInit.
Limits == [soft : Nat, hard : Nat]
FileLine == [ap : Nat, ct : Nat, soft : Nat, hard : Nat]
LoadLimit ==
  [lines : Seq(FileLine), order : {"soft first", "hard first"}, ticks : Nat, steps : SUBSET Nat,
   sizes : SUBSET Nat, levels : SUBSET {"info", "debug"}, modulus : Nat \ {0}, lag : Nat,
   warn : SUBSET Nat, messages : Nat, contexts : SUBSET Nat, threads : SUBSET Loggers]

ASSUME LoadAssumption ==
  /\ WindowSize \in Nat \ {0} /\ WindowResolution \in Nat \ {0} /\ TimestampResolution \in Nat \ {0}
  /\ SoftFrequency \in Nat /\ HardFrequency \in Nat
  /\ DaemonDefault \in Limits /\ ClientDefault \in Limits
  /\ LoadLimits \subseteq LoadLimit

VARIABLES
  loadlimit,  \* the shape of this history
  settings,   \* trace_load_settings of the library: a sequence of entries
  told,       \* the TRACE_LOAD message of the daemon was received
  now,        \* ticks since start; the timestamp is now % modulus
  logged,     \* messages logged so far
  loggers,    \* the threads: the message, its timestamp and the entry it was given
  load,       \* ghost: [entry -> [slot -> bytes counted]]
  kept,       \* ghost: [entry -> [slot -> bytes of the messages let through]]
  dropped,    \* ghost: [entry -> messages dropped]
  reported,   \* ghost: [entry -> drops announced in warnings]
  warned,     \* ghost: [entry -> slots of its hard limit warnings]
  stopped,    \* ghost: messages the library let through and the daemon dropped
  late,       \* ghost: entries a message came to with an older time than one before
  spoiled,    \* ghost: entries that two threads wrote at once
  freed       \* ghost: an entry was written that had been freed

ghosts == <<load, dropped, reported, warned>>
loadvars == <<loadlimit, settings, told, now, logged, loggers, kept, ghosts, stopped,
              late, spoiled, freed>>

TimestampBasedWindowSize == WindowSize * WindowResolution

Slots == 0 .. WindowSize - 1

\* The sum of the natural numbers f[s] for s in S: the number of their units.
Units(f, S) == UNION {{s} \X (1 .. f[s]) : s \in S}
SumOver(f, S) == Cardinality(Units(f, S))

\* DltTraceLoadStat after memset; last_slot is last_abs_slot % WindowSize.
NewStat ==
  [window |-> [s \in Slots |-> 0], total |-> 0, last_abs_slot |-> 0, avg |-> 0,
   counter |-> 0, bytes |-> 0, left_soft |-> 0, left_hard |-> 0,
   over_soft |-> FALSE, over_hard |-> FALSE]

Entry(ap, ct, l) ==
  [ap |-> ap, ct |-> ct, soft |-> l.soft, hard |-> l.hard, stat |-> NewStat]

Load(bytes) == (bytes * TimestampResolution) \div TimestampBasedWindowSize

-----------------------------------------------------------------------------
(* The sliding window.                                                     *)

\* The warnings read the average of the last record and the bytes dropped.
OverLoad(e, max) == e.stat.avg + Load(e.stat.bytes) > max

dlt_output_soft_limit_over_warning(e) ==
  LET warns == e.stat.over_soft /\ e.stat.left_soft = 0 /\ OverLoad(e, e.soft)
  IN [warns |-> warns,
      e |-> IF warns THEN [e EXCEPT !.stat.over_soft = FALSE,
                                    !.stat.left_soft = SoftFrequency]
                     ELSE e]

\* Mutant of dlt_output_hard_limit_warning: the counter is not reset, so that
\* its drops are announced again.
HardWarningKeepsCounter(e) ==
  LET warns == e.stat.over_hard /\ e.stat.left_hard = 0 /\ OverLoad(e, e.hard)
  IN [warns |-> warns,
      e |-> IF warns THEN [e EXCEPT !.stat.over_hard = FALSE, !.stat.bytes = 0,
                                    !.stat.left_hard = HardFrequency]
                     ELSE e]

\* Mutant of CountDown: the pause between warnings ends at the next slot.
CountDownToZero(left, elapsed) == 0

dlt_output_hard_limit_warning(e) ==
  LET warns == e.stat.over_hard /\ e.stat.left_hard = 0 /\ OverLoad(e, e.hard)
  IN [warns |-> warns,
      e |-> IF warns THEN [e EXCEPT !.stat.over_hard = FALSE,
                                    !.stat.counter = 0, !.stat.bytes = 0,
                                    !.stat.left_hard = HardFrequency]
                     ELSE e]

\* A timestamp that went back is taken for a rollover of the counter; the
\* test that follows compares a time with a slot number and never holds.
ElapsedSlots(st, curr) ==
  IF curr < st.last_abs_slot
    THEN LET next == TimestampResolution + st.last_abs_slot
         IN IF next <= curr THEN (curr - next) \div TimestampResolution + 1 ELSE 0
    ELSE curr - st.last_abs_slot

CountDown(left, elapsed) == IF left > elapsed THEN left - elapsed ELSE 0

\* Mutant of dlt_user_cleanup_window: the loop ends one slot early, so that
\* the bytes of a slot used one window ago stay in the total.
CleanupAllButCurrent(st, curr) ==
  LET elapsed == ElapsedSlots(st, curr)
      dead    == {(st.last_abs_slot + k) % WindowSize : k \in 1 .. elapsed - 1}
      all     == elapsed >= WindowSize
      gone    == IF all THEN Slots ELSE dead
  IN IF elapsed = 0 THEN st
     ELSE [st EXCEPT !.left_soft = CountDown(st.left_soft, elapsed),
                     !.left_hard = CountDown(st.left_hard, elapsed),
                     !.total = st.total - SumOver(st.window, gone),
                     !.window = [s \in Slots |-> IF s \in gone THEN 0
                                                               ELSE st.window[s]]]

dlt_user_cleanup_window(st, curr) ==
  LET elapsed == ElapsedSlots(st, curr)
      dead    == {(st.last_abs_slot + k) % WindowSize : k \in 1 .. elapsed}
      gone    == IF elapsed >= WindowSize THEN Slots ELSE dead
  IN IF elapsed = 0 THEN st
     ELSE [st EXCEPT !.left_soft = CountDown(st.left_soft, elapsed),
                     !.left_hard = CountDown(st.left_hard, elapsed),
                     !.total = st.total - SumOver(st.window, gone),
                     !.window = [s \in Slots |-> IF s \in gone THEN 0
                                                               ELSE st.window[s]]]

\* The two warnings are operands of one addition, which the compiler may
\* evaluate in either order: the hard limit warning resets the bytes that the
\* soft limit warning reads.  The result says which were given.
dlt_switch_slot_if_needed(e, curr) ==
  LET clean    == [e EXCEPT !.stat = dlt_user_cleanup_window(e.stat, curr)]
      soft1    == dlt_output_soft_limit_over_warning(clean)
      hard2    == dlt_output_hard_limit_warning(soft1.e)
      hard1    == dlt_output_hard_limit_warning(clean)
      soft2    == dlt_output_soft_limit_over_warning(hard1.e)
  IN IF ElapsedSlots(e.stat, curr) = 0
       THEN [e |-> clean, soft |-> FALSE, hard |-> FALSE]
       ELSE IF loadlimit.order = "soft first"
         THEN [e |-> hard2.e, soft |-> soft1.warns, hard |-> hard2.warns]
         ELSE [e |-> soft2.e, soft |-> soft2.warns, hard |-> hard1.warns]

dlt_record_trace_load(st, curr, size) ==
  [st EXCEPT !.window[curr % WindowSize] = @ + size,
             !.total = @ + size,
             !.last_abs_slot = curr,
             !.avg = Load(st.total + size)]

dlt_is_over_trace_load_soft_limit(e) ==
  IF e.stat.avg > e.soft \/ e.soft = 0
    THEN [e EXCEPT !.stat.over_soft = TRUE] ELSE e

\* Mutant of IsOverHard: the limit is only exceeded by a whole byte per second.
IsOverHardLate(e) == e.stat.avg > e.hard + 1 \/ e.hard = 0

IsOverHard(e) == e.stat.avg > e.hard \/ e.hard = 0

dlt_is_over_trace_load_hard_limit(e, curr, size) ==
  IF IsOverHard(e)
    THEN [e EXCEPT !.stat = [e.stat EXCEPT !.over_hard = TRUE,
                                           !.counter = @ + 1,
                                           !.bytes = @ + size,
                                           !.window[curr % WindowSize] = @ - size,
                                           !.total = @ - size]]
    ELSE e

Exempt(level) == level = "debug"     \* DLT_LOG_DEBUG and DLT_LOG_VERBOSE

\* The check of one message against an entry; warn is what the warnings that
\* are due return each, 0 where sending failed.
dlt_check_trace_load(e, curr, size, sent) ==
  LET sw   == dlt_switch_slot_if_needed(e, curr)
      warn == (IF sw.soft THEN sent ELSE 0) + (IF sw.hard THEN sent ELSE 0)
      rec  == dlt_is_over_trace_load_soft_limit(
                [sw.e EXCEPT !.stat =
                   dlt_record_trace_load(sw.e.stat, curr, size + warn)])
  IN [e |-> dlt_is_over_trace_load_hard_limit(rec, curr, size),
      keep |-> ~IsOverHard(rec), warn |-> warn, hard |-> sw.hard]

-----------------------------------------------------------------------------
(* The settings: the file, the entries of an application, the lookup.      *)

Matching(ss, P(_)) == {i \in DOMAIN ss : P(ss[i])}

\* dlt_find_runtime_trace_load_settings: the index of the entry of a context,
\* of the application where it has none, 0 where there is neither.  All
\* entries of the array are of one application.
dlt_find_runtime_trace_load_settings(ss, ct) ==
  LET own  == Matching(ss, LAMBDA e : e.ct = ct)
      apps == Matching(ss, LAMBDA e : e.ct = 0)
  IN IF own # {} THEN Min(own) ELSE IF apps # {} THEN Max(apps) ELSE 0

dlt_daemon_compare_trace_load_settings(s1, s2) ==
  s1.ap < s2.ap \/ (s1.ap = s2.ap /\ s1.ct < s2.ct)

\* The scan ends at the first entry of another application after a match.
dlt_daemon_find_preconfigured_trace_load_settings(pre, ap, ct) ==
  LET fits(e) == e.ap = ap /\ (ct = 0 \/ e.ct = ct)
      first   == Matching(pre, fits)
      other   == {i \in Matching(pre, LAMBDA e : e.ap # ap) :
                    first # {} /\ i > Min(first)}
      seen    == IF other = {} THEN pre ELSE SubSeq(pre, 1, Min(other) - 1)
  IN SortSeq(SelectSeq(seen, fits), dlt_daemon_compare_trace_load_settings)

\* Mutant of AddLine: no search for an earlier entry, the last line wins.
AddEveryLine(pre, line) ==
  IF line.soft > line.hard THEN pre
  ELSE <<Entry(line.ap, line.ct, line)>> \o pre

\* One line of the file is appended unless it is malformed, its soft limit is
\* above its hard limit, or the search finds an entry already.
AddLine(pre, line) ==
  IF line.soft > line.hard
     \/ dlt_daemon_find_preconfigured_trace_load_settings(pre, line.ap, line.ct)
          # <<>>
    THEN pre ELSE Append(pre, Entry(line.ap, line.ct, line))

trace_load_config_file_parser(lines) ==
  SortSeq(FoldLeft(AddLine, <<>>, lines), dlt_daemon_compare_trace_load_settings)

\* The part of dlt_daemon_application_add about trace load.
ApplicationSettings(pre, ap) ==
  LET found == dlt_daemon_find_preconfigured_trace_load_settings(pre, ap, 0)
  IN IF dlt_find_runtime_trace_load_settings(found, 0) # 0 THEN found
     ELSE SortSeq(Append(found, Entry(ap, 0, DaemonDefault)),
                  dlt_daemon_compare_trace_load_settings)

\* dlt_daemon_user_send_trace_load_config: context id and limits of each entry.
dlt_daemon_user_send_trace_load_config(lines) ==
  [i \in DOMAIN ApplicationSettings(trace_load_config_file_parser(lines), App) |->
     LET e == ApplicationSettings(trace_load_config_file_parser(lines), App)[i]
     IN [ct |-> e.ct, soft |-> e.soft, hard |-> e.hard]]

\* The fields of the message are of the type uint32_t.
ASSUME ConfigAssumption ==
  \A l \in LoadLimits :
    dlt_daemon_user_send_trace_load_config(l.lines) \in Seq([ct : Nat, soft : Nat, hard : Nat])

-----------------------------------------------------------------------------
(* The library and the daemon.                                             *)

AbsSlots == 0 .. (loadlimit.ticks \div WindowResolution)
NoLoad == [s \in AbsSlots |-> 0]
Fresh(n, v) == [i \in 1 .. n |-> v]
Idle == [pc |-> "idle", msg |-> 0, level |-> "debug", size |-> 0, time |-> 0,
         entry |-> 0, stale |-> FALSE]

\* LoadInit: the shape names the file (lines), the order of the warnings, the
\* ticks a history lasts, the steps time takes, the sizes logged, the modulus
\* of the timestamp, how far a timestamp may lag, the contexts that log, the
\* number of messages, and the threads.
LoadInit ==
  /\ loadlimit \in LoadLimits
  /\ settings = <<Entry(App, 0, ClientDefault)>>
  /\ told = FALSE
  /\ now = 0
  /\ logged = 0
  /\ loggers = [t \in Loggers |-> Idle]
  /\ load = Fresh(1, NoLoad)
  /\ kept = Fresh(1, NoLoad)
  /\ dropped = Fresh(1, 0)
  /\ reported = Fresh(1, 0)
  /\ warned = Fresh(1, {})
  /\ stopped = {} /\ late = {} /\ spoiled = {} /\ freed = FALSE

\* The TRACE_LOAD message replaces all entries; their windows start empty.
\* Threads that have looked an entry up keep a pointer to what is freed.
ReceiveTraceLoad ==
  LET sent == dlt_daemon_user_send_trace_load_config(loadlimit.lines)
      n    == Len(sent)
  IN /\ ~told
     /\ told' = TRUE
     /\ settings' = [i \in 1 .. n |-> Entry(App, sent[i].ct, sent[i])]
     /\ loggers' = [t \in Loggers |-> [loggers[t] EXCEPT !.stale = (loggers[t].pc = "found")]]
     /\ load' = Fresh(n, NoLoad)
     /\ kept' = Fresh(n, NoLoad)
     /\ dropped' = Fresh(n, 0)
     /\ reported' = Fresh(n, 0)
     /\ warned' = Fresh(n, {})
     /\ late' = {} /\ spoiled' = {}
     /\ UNCHANGED <<loadlimit, now, logged, stopped, freed>>

\* The settings pointer of a context in the daemon is set to NULL when the
\* context is added and nowhere else.
ContextSettings == 0

\* trace_load_keep_message of the daemon, of a message of a known application:
\* dlt_check_trace_load drops what has no settings and is not exempt.
trace_load_keep_message(level) == Exempt(level) \/ ContextSettings # 0

\* d ticks after the last one, a thread logs a message of a context with a level and a size, whose
\* timestamp was taken lag ticks before, and looks up its entry under trace_load_rw_lock.
dlt_user_log_send_log(t) ==
  \E ct \in loadlimit.contexts, level \in loadlimit.levels, size \in loadlimit.sizes,
     d \in loadlimit.steps, lag \in 0 .. loadlimit.lag :
    /\ t \in loadlimit.threads /\ loggers[t].pc = "idle"
    /\ logged < loadlimit.messages /\ now + d <= loadlimit.ticks
    /\ now' = now + d
    /\ logged' = logged + 1
    /\ loggers' = [loggers EXCEPT ![t] =
         [pc |-> "found", msg |-> logged + 1, level |-> level, size |-> size,
          time |-> IF lag > now + d THEN 0 ELSE now + d - lag,
          entry |-> dlt_find_runtime_trace_load_settings(settings, ct), stale |-> FALSE]]
    /\ UNCHANGED <<loadlimit, settings, told, kept, ghosts, stopped, late, spoiled, freed>>

CurrSlot(m) == (m.time % loadlimit.modulus) \div WindowResolution
AbsSlot(m) == m.time \div WindowResolution
Result(m, sent) == dlt_check_trace_load(settings[m.entry], CurrSlot(m), m.size, sent)

\* The message of a thread leaves for the daemon, or not, and the daemon may stop it.
Stops(m, keep) ==
  IF (Exempt(m.level) \/ keep) /\ ~trace_load_keep_message(m.level) THEN {m.msg} ELSE {}

\* The entry is checked without a lock, here by one thread alone.  A message that is exempt
\* is let through before the entry is looked at.
CheckAlone(t) ==
  \E sent \in loadlimit.warn :
    LET m    == loggers[t]
        i    == m.entry
        slot == AbsSlot(m)
        c    == Result(m, sent)
    IN /\ m.pc = "found" /\ (Exempt(m.level) \/ ~m.stale)
       /\ IF Exempt(m.level)
            THEN /\ stopped' = stopped \cup Stops(m, TRUE)
                 /\ UNCHANGED <<settings, kept, ghosts, late>>
            ELSE
              /\ settings' = [settings EXCEPT ![i].stat = c.e.stat]
              /\ load' = [load EXCEPT ![i][slot] =
                            @ + c.warn + (IF c.keep THEN m.size ELSE 0)]
              /\ kept' = IF c.keep THEN [kept EXCEPT ![i][slot] = @ + m.size]
                         ELSE kept
              /\ dropped' = IF c.keep THEN dropped
                            ELSE [dropped EXCEPT ![i] = @ + 1]
              /\ reported' = IF c.hard
                   THEN [reported EXCEPT ![i] = @ + settings[i].stat.counter]
                   ELSE reported
              /\ warned' = IF c.hard THEN [warned EXCEPT ![i] = @ \cup {slot}]
                           ELSE warned
              /\ late' = IF slot < settings[i].stat.last_abs_slot
                           THEN late \cup {i} ELSE late
              /\ stopped' = stopped \cup Stops(m, c.keep)
       /\ loggers' = [loggers EXCEPT ![t] = Idle]
       /\ UNCHANGED <<loadlimit, told, now, logged, spoiled, freed>>

\* Two threads check against one entry at once, a data race: each decides on what it read, and what
\* the second writes stays.
CheckTogether(t, u) ==
  \E sent1, sent2 \in loadlimit.warn :
    LET m1 == loggers[t]
        m2 == loggers[u]
        i  == m1.entry
        c1 == Result(m1, sent1)
        c2 == Result(m2, sent2)
        passed(s) == (IF c1.keep /\ s = AbsSlot(m1) THEN m1.size ELSE 0)
                       + (IF c2.keep /\ s = AbsSlot(m2) THEN m2.size ELSE 0)
    IN /\ t # u /\ m1.pc = "found" /\ m2.pc = "found" /\ m1.entry = m2.entry
       /\ ~Exempt(m1.level) /\ ~Exempt(m2.level) /\ ~m1.stale /\ ~m2.stale
       /\ settings' = [settings EXCEPT ![i].stat = c2.e.stat]
       /\ kept' = [kept EXCEPT ![i] = [s \in AbsSlots |-> kept[i][s] + passed(s)]]
       /\ spoiled' = spoiled \cup {i}
       /\ loggers' = [loggers EXCEPT ![t] = Idle, ![u] = Idle]
       /\ stopped' = stopped \cup Stops(m1, c1.keep) \cup Stops(m2, c2.keep)
       /\ UNCHANGED <<loadlimit, told, now, logged, ghosts, late, freed>>

\* The entry has been freed since it was looked up: what the check finds there and destroys is not
\* followed.
CheckFreed(t) ==
  /\ loggers[t].pc = "found" /\ loggers[t].stale /\ ~Exempt(loggers[t].level)
  /\ freed' = TRUE
  /\ loggers' = [loggers EXCEPT ![t] = Idle]
  /\ UNCHANGED <<loadlimit, settings, told, now, logged, kept, ghosts, stopped, late, spoiled>>

LoadNext ==
  \/ ReceiveTraceLoad
  \/ \E t \in Loggers : dlt_user_log_send_log(t)
  \/ \E t \in Loggers : CheckAlone(t)
  \/ \E t, u \in Loggers : CheckTogether(t, u)
  \/ \E t \in Loggers : CheckFreed(t)

LoadSpec == LoadInit /\ [][LoadNext]_loadvars

-----------------------------------------------------------------------------
(* Properties.  They are about entries that no two threads wrote at once,   *)
(* while nothing was written that had been freed.                          *)

Intact == IF freed THEN {} ELSE DOMAIN settings \ spoiled

\* Time only advances for an entry: the counter does not wrap, and the messages come in the
\* order of their timestamps.
Monotone(i) == loadlimit.modulus > loadlimit.ticks /\ i \notin late
Recent(s) == (s - WindowSize + 1 .. s) \cap AbsSlots

\* The running total of dlt_user_cleanup_window and dlt_record_trace_load is
\* the sum of the slots of the window at any time, a timestamp that goes back
\* or wraps included, and while time only advances it is what was counted in
\* the last WindowSize slots: no slot is cleared twice, late or not at all.
WindowExact ==
  \A i \in Intact :
    LET st == settings[i].stat
    IN /\ st.total = SumOver(st.window, Slots)
       /\ \A s \in Slots : st.window[s] >= 0
       /\ Monotone(i) => st.total = SumOver(load[i], Recent(st.last_abs_slot))

\* An entry lets through less than (hard limit + 1) bytes per second in
\* every stretch of WindowSize slots.
KeepsHardLimit(i) == \A s \in AbsSlots : Load(SumOver(kept[i], Recent(s))) <= settings[i].hard

\* While time only advances an entry keeps to its hard limit, whatever the order
\* of sizes, pauses and warnings (dlt_is_over_trace_load_hard_limit).
KeptBounded == \A i \in Intact : Monotone(i) => KeepsHardLimit(i)

\* Every dropped message is counted until a hard limit warning announces it,
\* and announced once: dropped = announced + pending.
DropsAccounted ==
  \A i \in Intact :
    /\ dropped[i] = reported[i] + settings[i].stat.counter
    /\ settings[i].stat.over_hard <=> settings[i].stat.counter > 0

\* Two hard limit warnings of an entry are at least HardFrequency slots apart
\* while time only advances (slot_left_hard_limit_warn counts slots, and the
\* slots without any message count).
WarningsSpaced ==
  \A i \in Intact : Monotone(i) =>
    \A a, b \in warned[i] : a < b => b - a >= HardFrequency

\* The reference of the file, doc/dlt_trace_limit.md: the first well-formed line of
\* the context, else the first of the application, else the default of the daemon.
Sound(l) == l.ap = App /\ l.soft <= l.hard
BestMatch(file, ct) ==
  LET lines == SelectSeq(file, Sound)
      own   == Matching(lines, LAMBDA l : l.ct = ct)
      apps  == Matching(lines, LAMBDA l : l.ct = 0)
      best  == IF own # {} THEN own ELSE apps
  IN IF best = {} THEN DaemonDefault
     ELSE [soft |-> lines[Min(best)].soft, hard |-> lines[Min(best)].hard]

FitsFile(ss, file) ==
  \A ct \in Contexts :
    LET i == dlt_find_runtime_trace_load_settings(ss, ct)
    IN i # 0 /\ BestMatch(file, ct) = [soft |-> ss[i].soft, hard |-> ss[i].hard]

\* The line of the application stands before the lines of its contexts.  Where one of them comes
\* first, the search of the parser finds it and the line of the application is left out.
ApplicationFirst(file) ==
  LET lines == SelectSeq(file, Sound)
  IN \A i \in DOMAIN lines : lines[i].ct = 0 =>
       \E j \in 1 .. i : lines[j].ct = 0 /\ \A k \in 1 .. j - 1 : lines[k].ct = 0

\* Once the message of the daemon was received, every context is measured
\* against the line of dlt-trace-load.conf that fits it best, through the
\* parser, the sorting, the defaults and the lookup, provided a line of an
\* application stands before those of its contexts, which doc/dlt_trace_limit.md:16
\* does not ask for.
LimitsFromFile ==
  told /\ ~freed /\ ApplicationFirst(loadlimit.lines) => FitsFile(settings, loadlimit.lines)

\* No entry lets through more than the hard limit its file gives it, measured
\* over a window that holds exactly what was counted (dlt_check_trace_load), and
\* every drop is announced once and not too often (dlt_output_hard_limit_warning),
\* as long as no two threads check against the entry at once and none against an
\* entry that the housekeeper has freed (dlt_user_log_send_log).
LoadLimited == WindowExact /\ KeptBounded /\ LimitsFromFile /\ DropsAccounted /\ WarningsSpaced

\* doc/dlt_trace_limit.md: the check in the daemon only limits clients that
\* exceed the limits; a message that the library let through is not dropped.
DaemonKeeps == told => stopped = {}
=============================================================================
