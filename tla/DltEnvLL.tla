------------------------------- MODULE DltEnvLL --------------------------------
(* Initial log levels from DLT_INITIAL_LOG_LEVEL (dlt_env_ll.c): the text         *)
(* "app:ctx:level;app:ctx:level..." is parsed when the library starts, and every  *)
(* context that is registered afterwards is looked up in the result.              *)
(*                                                                                *)
(* A field is what its characters are to the parser: identifiers are numbers, 0   *)
(* for none and -n for n without a colon behind its four characters; a level is   *)
(* [t, n], t one of "number", "word", "minus" (a '-' without the 1) and "bad", n  *)
(* the value that is stored before the reading ends.                              *)
EXTENDS Integers, Sequences, SequencesExt

CONSTANTS SetIncrease,        \* DLT_ENV_LL_SET_INCREASE
          EnvTexts,           \* the texts: sequences of [ap, ct, level]
          EnvContexts         \* what is registered: [ap, ct]

ASSUME EnvAssumption == SetIncrease \in Nat \ {0}

VARIABLES envtext,            \* the text
          envpos,             \* the item that is read next
          envphase,           \* "init", "items" or "parsed"
          llset,              \* dlt_user.initial_ll_set: [items, size, null]
          looked              \* contexts and the levels they were given

envllvars == <<envtext, envpos, envphase, llset, looked>>

NotSet == -2                  \* DLT_USER_LOG_LEVEL_NOT_SET

Item(ap, ct, ll) == [ap |-> ap, ct |-> ct, ll |-> ll]
NoSet == [items |-> <<>>, size |-> 0, null |-> TRUE]

\* dlt_env_init_ll_set
dlt_env_init_ll_set ==
  /\ envphase = "init"
  /\ llset' = [items |-> <<>>, size |-> SetIncrease, null |-> FALSE]
  /\ envphase' = "items"
  /\ UNCHANGED <<envtext, envpos, looked>>

\* dlt_env_extract_id: a field that does not end with a colon in time is an error; the characters
\* up to there are kept.
dlt_env_extract_id(field) == field >= 0

\* dlt_env_helper_to_lower, dlt_env_extract_symbolic_ll: a word is read together with the
\* semicolon behind it, so another item behind it is an error.
dlt_env_extract_symbolic_ll(level, last) == level.t = "word" /\ last

\* dlt_env_extract_ll: whether the level is accepted; a lone '-' is, and leaves the level 0.
dlt_env_extract_ll(level, last) == level.t \in {"number", "minus"} \/ dlt_env_extract_symbolic_ll(level, last)

IdOf(field) == IF field < 0 THEN -field ELSE field

\* dlt_env_extract_ll_item: the item as far as it was read, the rest is 0.
dlt_env_extract_ll_item(text) ==
  IF ~dlt_env_extract_id(text.ap) THEN Item(IdOf(text.ap), 0, 0)
  ELSE IF ~dlt_env_extract_id(text.ct) THEN Item(text.ap, IdOf(text.ct), 0)
  ELSE Item(text.ap, text.ct, text.level.n)

Accepted(text, last) ==
  dlt_env_extract_id(text.ap) /\ dlt_env_extract_id(text.ct) /\ dlt_env_extract_ll(text.level, last)

Full == Len(llset.items) = llset.size

\* Mutant of dlt_env_increase_ll_set: the items are not copied.
IncreaseWithoutCopy == [llset EXCEPT !.size = @ + SetIncrease, !.items = <<>>]

dlt_env_increase_ll_set == [llset EXCEPT !.size = @ + SetIncrease]

\* dlt_env_extract_ll_set: an item is counted before it is read, so one that is refused, and ends
\* the reading, stays in the set.
dlt_env_extract_ll_set ==
  /\ envphase = "items" /\ envpos <= Len(envtext)
  /\ LET set == IF Full THEN dlt_env_increase_ll_set ELSE llset
         last == envpos = Len(envtext)
     IN  /\ llset' = [set EXCEPT !.items = Append(@, dlt_env_extract_ll_item(envtext[envpos]))]
         /\ envphase' = IF last \/ ~Accepted(envtext[envpos], last) THEN "parsed" ELSE "items"
  /\ envpos' = envpos + 1
  /\ UNCHANGED <<envtext, looked>>

\* The memory of a larger set is missing: the pointer is lost, the number of items is not.
IncreaseFails ==
  /\ envphase = "items" /\ envpos <= Len(envtext) /\ Full
  /\ llset' = [llset EXCEPT !.null = TRUE]
  /\ envphase' = "parsed"
  /\ UNCHANGED <<envtext, envpos, looked>>

\* dlt_env_ids_match: identifiers of four characters.
dlt_env_ids_match(a, b) == a = b


dlt_env_ll_item_get_matching_prio(item, c) ==
  IF item.ap = 0 THEN IF item.ct = 0 THEN 1 ELSE IF dlt_env_ids_match(item.ct, c.ct) THEN 2 ELSE 0
  ELSE IF ~dlt_env_ids_match(item.ap, c.ap) THEN 0
  ELSE IF item.ct = 0 THEN 3 ELSE IF dlt_env_ids_match(item.ct, c.ct) THEN 4 ELSE 0

\* dlt_env_ll_item_get_matching_prio_v2: the identifiers of version 2 are never filled in, and the
\* missing ones match everything.
dlt_env_ll_item_get_matching_prio_v2(item, c) == 1

\* The item with the highest priority, the first of several.
Best(prios) ==
  FoldLeft(LAMBDA best, i : IF prios[i] > (IF best = 0 THEN 0 ELSE prios[best]) THEN i ELSE best, 0,
           [i \in 1 .. Len(prios) |-> i])

Adjusted(prios, ll) == IF Best(prios) = 0 THEN ll ELSE llset.items[Best(prios)].ll

dlt_env_adjust_ll_from_env(c, ll) ==
  Adjusted([i \in DOMAIN llset.items |-> dlt_env_ll_item_get_matching_prio(llset.items[i], c)], ll)

dlt_env_adjust_ll_from_env_v2(c, ll) ==
  Adjusted([i \in DOMAIN llset.items |-> dlt_env_ll_item_get_matching_prio_v2(llset.items[i], c)], ll)

\* A context is registered; with a lost set this would end the process.
RegisterWithEnv(c, ver) ==
  /\ envphase = "parsed" /\ ~llset.null /\ ~\E r \in looked : r.c = c /\ r.ver = ver
  /\ looked' = looked \cup {[c |-> c, ver |-> ver,
                 ll |-> IF ver = 1 THEN dlt_env_adjust_ll_from_env(c, NotSet) ELSE dlt_env_adjust_ll_from_env_v2(c, NotSet)]}
  /\ UNCHANGED <<envtext, envpos, envphase, llset>>

\* dlt_env_free_ll_set, when the library is left.
dlt_env_free_ll_set ==
  /\ envphase = "parsed" /\ llset # NoSet
  /\ llset' = NoSet
  /\ UNCHANGED <<envtext, envpos, envphase, looked>>

EnvInit ==
  /\ envtext \in EnvTexts /\ envpos = 1 /\ envphase = IF envtext = <<>> THEN "parsed" ELSE "init"
  /\ llset = NoSet /\ looked = {}

EnvNext ==
  \/ dlt_env_init_ll_set \/ dlt_env_extract_ll_set \/ IncreaseFails \/ dlt_env_free_ll_set
  \/ \E c \in EnvContexts, ver \in {1, 2} : RegisterWithEnv(c, ver)

EnvSpec == EnvInit /\ [][EnvNext]_envllvars

--------------------------------------------------------------------------------
(* Properties *)

\* The grammar of the text (dlt_env_ll.c:32-36): ll_item ::= apid:ctid:ll, with a level -1 .. 6 or its
\* name; every item of an ll_set counts.
WellFormed(item) == item.ap >= 0 /\ item.ct >= 0 /\ item.level.t \in {"number", "word"}

\* Where the reading ends before the text does: at an item that is not of the grammar, unless it is
\* only a '-' without its 1, and behind the name of a level.
ReadingEnds(i) == \/ envtext[i].ap < 0 \/ envtext[i].ct < 0 \/ envtext[i].level.t = "bad"
                  \/ envtext[i].level.t = "word"
Reached == {i \in DOMAIN envtext : \A j \in 1 .. i - 1 : ~ReadingEnds(j)}

Names(item, c) == item.ap \in {0, c.ap} /\ item.ct \in {0, c.ct}

\* a names its context more exactly than b.
MoreExact(a, b) ==
  \/ a.ap # 0 /\ b.ap = 0
  \/ (a.ap # 0 <=> b.ap # 0) /\ a.ct # 0 /\ b.ct = 0

\* ll is the level of the item among "items" that names c most exactly, the application before the
\* context and the first of equal ones; with none of them it is what the program or the daemon says.
LevelAmong(items, c, ll) ==
  LET fits == {i \in items : WellFormed(envtext[i]) /\ Names(envtext[i], c)}
  IN  IF fits = {} THEN ll = NotSet
      ELSE \E i \in fits : /\ ll = envtext[i].level.n
                           /\ \A j \in fits : ~MoreExact(envtext[j], envtext[i])
                           /\ \A j \in fits : j < i => MoreExact(envtext[i], envtext[j])

\* An item that is not of the grammar stays in the set, as far as it was read, and may name c.
Spoiled(c) == \E i \in Reached : ~WellFormed(envtext[i]) /\ IdOf(envtext[i].ap) \in {0, c.ap}

================================================================================
