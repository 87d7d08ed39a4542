------------------------- MODULE MCDltLogstorageConfig -------------------------
(* Instances of DltLogstorageConfig for TLC. *)
EXTENDS DltLogstorageConfig

Sec(kind, no) == [t |-> "section", kind |-> kind, no |-> no]
Bad == [t |-> "bad"]
Entry(key, n, words, names) == [t |-> "data", key |-> key, val |-> [n |-> n, words |-> words, names |-> names]]
Num(key, n) == Entry(key, n, {}, <<>>)
Word(key, words) == Entry(key, -1, words, <<>>)
List(key, names) == Entry(key, -1, {}, names)

\* The required keys of a section, with file f.
FilterKeys(f) == <<Num("LogLevel", 4), Num("File", f), Num("FileSize", 3), Num("NOFiles", 2)>>
Names == <<List("LogAppName", <<10, 21>>), List("ContextName", <<30>>)>>
Ecu == <<Num("EcuID", 7)>>

Bodies ==
  {FilterKeys(1) \o Names, FilterKeys(2) \o Ecu,
   FilterKeys(1) \o <<List("LogAppName", <<10>>)>>,              \* no contexts: no keys
   FilterKeys(2) \o Names \o Ecu \o <<Num("FileSize", 9)>>,      \* a key given twice
   <<Num("File", 1), Num("FileSize", 3), Num("NOFiles", 2)>> \o Names, \* a key is missing
   FilterKeys(3) \o Names \o <<Word("SyncBehavior", {"ON_DEMAND", "ON_FILE_SIZE"}), Word("OverwriteBehavior", {"DISCARD_NEW"})>>}

Extras ==
  {<<Word("SyncBehavior", {"ON_MSG", "ON_DEMAND"})>>, <<Word("SyncBehavior", {"ALWAYS"})>>,
   <<Word("OverwriteBehavior", {"KEEP"})>>, <<Word("DisableNetwork", {"ON"})>>, <<Word("DisableNetwork", {"OFF"})>>,
   <<Num("SpecificSize", 0)>>, <<Num("SpecificSize", 5)>>,
   <<List("ExcludedLogAppName", <<10, 20>>), List("ExcludedContextName", <<30>>)>>,
   <<List("ExcludedLogAppName", <<10, 20>>), List("ExcludedContextName", <<30, 40>>)>>,
   <<Num("LogLevel", 9), Bad>>, <<Word("GzipCompression", {"ON"})>>}

StorageBody == <<Num("File", 4), Num("FileSize", 3), Num("NOFiles", 2)>> \o Ecu
ControlBody == Names \o <<Num("LogLevel", 4)>> \o Ecu
General(words) == <<Sec("General", -1), Word("MaintainLogstorageLogLevel", words)>>

\* Two filter sections of any bodies, the second under its own name or under the first's; one
\* section with an extra line; sections of every kind, too many of them, and unknown ones.
MCConfigFiles ==
  {<<Sec("FILTER", 1)>> \o b1 \o <<Sec("FILTER", n)>> \o b2 : b1 \in Bodies, b2 \in Bodies, n \in {1, 2, -1, -2}}
  \union {<<Sec("FILTER", 1)>> \o FilterKeys(1) \o Names \o e : e \in Extras}
  \union {<<Sec("FILTER", 1)>> \o <<Num("File", 1), Entry("File", 1, {".."}, <<>>)>>,
          <<Sec("FILTER", 1), Num("LogLevel", 9)>> \o FilterKeys(1) \o Names \o <<Sec("STORAGE", 1)>> \o StorageBody,
          <<Sec("FILTER", 1), Entry("File", 1, {".."}, <<>>)>> \o FilterKeys(1) \o Ecu,
          <<Num("File", 3)>> \o General({"OFF"}) \o <<Sec("STORAGE", 1)>> \o StorageBody
            \o <<Sec("CONTROL", 1)>> \o ControlBody \o <<Num("ResetLogLevel", 0)>>,
          <<Sec("Other", 1)>> \o FilterKeys(1) \o <<Sec("CONTROL", 1)>> \o ControlBody
            \o <<Num("ResetLogLevel", -1)>> \o General({"MAYBE"})}
  \union {General({"ON"}) \o <<Sec("STORAGE", 1)>> \o StorageBody \o <<Sec("FILTER", 1)>> \o b \o <<Sec("FILTER", 2)>>
            \o FilterKeys(2) \o Ecu : b \in Bodies}
================================================================================
