------------------------------ MODULE MCDltEnvLL -------------------------------
(* Instances of DltEnvLL for TLC. *)
EXTENDS DltEnvLL

Level(t, n) == [t |-> t, n |-> n]
EnvItem(ap, ct, level) == [ap |-> ap, ct |-> ct, level |-> level]

\* Items of every kind of match, and items that are refused at each of their fields.
EnvMatches == {EnvItem(ap, ct, Level("number", 2 * ap + ct)) : ap \in {0, 1}, ct \in {0, 1}} \cup {EnvItem(1, 2, Level("number", 6))}
EnvRefused == {EnvItem(-1, 1, Level("number", 4)), EnvItem(1, -1, Level("number", 4)), EnvItem(1, 1, Level("bad", 0)),
            EnvItem(0, 1, Level("word", 5)), EnvItem(0, 0, Level("minus", 0))}

\* Without the variable.
NoText == <<>>
MCEnvTexts ==
  {<<a, b, c>> : a \in EnvMatches, b \in EnvMatches, c \in EnvMatches}
  \cup {<<a, b, c>> : a \in EnvMatches, b \in EnvRefused, c \in EnvMatches} \cup {<<b>> : b \in EnvMatches \cup EnvRefused}

MCEnvContexts == {[ap |-> 1, ct |-> 1], [ap |-> 1, ct |-> 3], [ap |-> 2, ct |-> 1]}
================================================================================
