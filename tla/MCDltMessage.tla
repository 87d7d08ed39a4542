---------------------------- MODULE MCDltMessage ----------------------------
(* Instances of DltMessage, DltFile, DltClient and DltEnvLL for TLC: a        *)
(* behaviour is one of them, the others are idle.                             *)
EXTENDS DltMessage, DltFile, MCDltClient, MCDltEnvLL, TLC

Call(op, data) ==
  [op |-> op, data |-> data, format |-> "dec", attr |-> FALSE, name |-> <<>>,
   unit |-> <<>>, column |-> 1, null |-> FALSE, constant |-> FALSE]
Attr(c, name, unit) == [c EXCEPT !.attr = TRUE, !.name = name, !.unit = unit]
Fmt(c, f) == [c EXCEPT !.format = f]

W2 == <<1, 2>>
W4 == <<1, 2, 3, 4>>
W8 == <<1, 2, 3, 4, 5, 6, 7, 8>>

Numbers ==
  {Call("uint", <<7>>), Call("uint", W2), Attr(Call("uint", W4), <<110>>, <<117>>),
   Call("sint", W8), Attr(Call("sint", W2), <<>>, <<117, 118>>),
   Call("floa", W4), Attr(Call("floa", W8), <<110>>, <<>>),
   Call("bool", <<1>>), Attr(Call("bool", <<0>>), <<110>>, <<>>)}
Formatted == {Fmt(Call("uint", <<7>>), "hex"), Fmt(Call("uint", W2), "bin"),
              Fmt(Call("uint", W4), "hex"), Fmt(Call("uint", W8), "hex"),
              Fmt(Call("uint", W4), "bin")}
Texts ==
  {Call("strg", <<97, 98, 99, 100>>), Attr(Call("strg", <<97>>), <<110, 111>>, <<>>),
   Call("strg", <<>>), [Call("strg", <<99>>) EXCEPT !.constant = TRUE],
   Call("utf8", <<97, 195, 169, 98, 226, 130, 172, 99, 240, 159, 152, 128, 97>>),
   Attr(Call("utf8", <<240, 159, 152, 128, 226, 130, 172, 195, 169>>), <<110>>, <<>>)}
Raws == {Call("rawd", <<9, 8, 7>>), Fmt(Call("rawd", W4), "hex"),
         Attr(Fmt(Call("rawd", <<5>>), "bin"), <<110>>, <<>>)}

Quick ==
  {<<c>> : c \in {Call("strg", <<97, 98, 99, 100>>), Call("sint", W4), Call("uint", W4),
                  Call("rawd", <<9, 8, 7>>)}}
  \cup {<<Call("strg", <<97, 98, 99, 100>>), c>> : c \in {Call("sint", W4), Call("uint", W4)}}

Shape(len, msbf, id, from, writes, m, switches) ==
  [len |-> len, msbf |-> msbf, id |-> id, calls |-> from, quick |-> Quick,
   writes |-> writes,
   mode |-> m, switches |-> switches]

MCLogs ==
  {Shape(len, b, 0, Numbers \cup Texts \cup Raws, 2, 1, FALSE) :
     len \in {40, 64}, b \in BOOLEAN}
  \cup {Shape(30, FALSE, 0, Formatted \cup Texts, 3, 1, FALSE)}
  \cup {Shape(len, b, 0, Texts \cup {Call("bool", <<1>>)}, 3, 0, FALSE) :
          len \in 12 .. 34, b \in BOOLEAN}
  \cup {Shape(len, b, id, Numbers \cup Texts, 2, 0, FALSE) :
          len \in {3, 4, 12, 24}, b \in BOOLEAN, id \in {0, 66051}}
  \cup {Shape(40, FALSE, 0, Texts \cup Numbers, 2, 1, TRUE)}

MCTruncated == <<46, 60>>

Msg(id, ap, ct, level, size) ==
  [id |-> id, bare |-> FALSE, ueh |-> TRUE, ap |-> ap, ct |-> ct, level |-> level,
   size |-> size, len |-> size + 2]
Plain(id, size) == [Msg(id, "", "", 0, size) EXCEPT !.ueh = FALSE, !.len = size + 1]
Junk == [Msg(0, "", "", 0, 0) EXCEPT !.ueh = FALSE]
Bare(item) == [item EXCEPT !.bare = TRUE]

Trace == <<Junk, Msg(1, "A", "X", 3, 1), Plain(2, 0), Junk, Junk, Msg(3, "A", "Y", 4, 2),
           Msg(4, "B", "X", 3, 0)>>
RawTrace == <<Msg(1, "A", "X", 3, 1), Msg(2, "A", "Y", 4, 2), Plain(3, 0)>>

File(items, raw, resync, live, filters) ==
  [items |-> items, raw |-> raw, resync |-> resync, live |-> live, filters |-> filters]
MCFiles ==
  {File(Trace, FALSE, FALSE, TRUE, 0), File(Trace, FALSE, FALSE, TRUE, 2),
   File(Trace, FALSE, FALSE, FALSE, 4)}
  \cup {File(RawTrace, TRUE, TRUE, TRUE, 0),
        File(<<Junk>> \o RawTrace, TRUE, TRUE, TRUE, 0),
        File([i \in 1 .. 3 |-> IF i # 2 THEN Bare(RawTrace[i]) ELSE RawTrace[i]],
             TRUE, FALSE, TRUE, 0)}

Filter(ap, ct, level, min, max) ==
  [ap |-> ap, ct |-> ct, level |-> level, min |-> min, max |-> max]
MCFilters ==
  {Filter("A", "", 0, 0, 9), Filter("A", "", 3, 0, 9), Filter("A", "X", 4, 0, 9),
   Filter("A", "Y", 0, 2, 9), Filter("A", "Y", 4, 0, 1), Filter("", "X", 0, 0, 9)}

MCClientShapesWithIdle == MCClientShapes \cup {ClientIdle}

MCEnvTextsWithNone == MCEnvTexts \cup {NoText}

IdleShape == [idle |-> TRUE]
IdleMessage == shape = IdleShape /\ mode = 0 /\ log = NoLog /\ accepted = <<>> /\ message = NoMessage
IdleKind == File(<<>>, FALSE, FALSE, FALSE, 0)
IdleFile ==
  /\ kind = IdleKind
  /\ visible = 0 /\ filter = <<>> /\ stored = <<>> /\ calls = 0 /\ asked = {}
  /\ file = Closed

MCInit ==
  /\ ClientInit /\ EnvInit
  /\ \/ MessageInit /\ IdleFile /\ cshape = ClientIdle /\ envtext = NoText
     \/ IdleMessage /\ FileInit /\ cshape = ClientIdle /\ envtext = NoText
     \/ IdleMessage /\ IdleFile /\ cshape # ClientIdle /\ envtext = NoText
     \/ IdleMessage /\ IdleFile /\ cshape = ClientIdle

MCNext ==
  \/ shape # IdleShape /\ MessageNext /\ UNCHANGED <<fileVars, cvars, envllvars>>
  \/ kind # IdleKind /\ FileNext /\ UNCHANGED <<messageVars, cvars, envllvars>>
  \/ cshape # ClientIdle /\ ClientNext /\ UNCHANGED <<messageVars, fileVars, envllvars>>
  \/ /\ shape = IdleShape /\ kind = IdleKind /\ cshape = ClientIdle
     /\ EnvNext /\ UNCHANGED <<messageVars, fileVars, cvars>>

MCSpec == MCInit /\ [][MCNext]_<<messageVars, fileVars, cvars, envllvars>>
=============================================================================
