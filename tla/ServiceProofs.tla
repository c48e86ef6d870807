---------------------------- MODULE ServiceProofs ----------------------------
(***************************************************************************)
(* Theorems about the small services, for any number of overlapping        *)
(* requests: what users entered is kept by the services that hold one      *)
(* table each, and what the read cache, the peer aggregates, the alerts,   *)
(* the macro task and the scrapers derive from stored or fetched data is   *)
(* exact.                                                                  *)
(***************************************************************************)
EXTENDS MCServices, FoldFacts

-----------------------------------------------------------------------------
(* Notifications *)

Settings == [pc : {"settings"}, loaded : [NtfKinds -> BOOLEAN], kind : NtfKinds, on : BOOLEAN]

NtfTypeOK ==
    /\ prefs \in [NtfKinds -> BOOLEAN] /\ toggled \in [NtfKinds -> BOOLEAN]
    /\ mixed \in BOOLEAN
    /\ ntf \in [NtfRequests -> {NtfIdle} \cup Settings]

\* Until two overlap, a settings request is alone and has loaded what is stored.
SettingsAlone ==
    ~mixed => \A r \in NtfRequests : ntf[r].pc # "idle" =>
        /\ ntf[r].loaded = prefs
        /\ \A q \in NtfRequests : ntf[q].pc # "idle" => q = r

NtfInv == NtfTypeOK /\ SettingsAlone /\ SwitchesKept

LEMMA InitNtf == NtfInit => NtfInv
  <1> SUFFICES ASSUME NtfInit PROVE NtfInv
    OBVIOUS
  <1>1. \A r \in NtfRequests : ntf[r] = NtfIdle /\ ntf[r].pc = "idle"
    BY DEF NtfInit, NtfIdle
  <1>2. NtfTypeOK
    BY DEF NtfInit, NtfTypeOK
  <1> QED BY <1>1, <1>2 DEF NtfInit, NtfInv, SettingsAlone, SwitchesKept

\* A request ends; the switches are as before.
LEMMA EndNtf ==
    ASSUME NtfInv, NEW r \in NtfRequests, ntf' = [ntf EXCEPT ![r] = NtfIdle],
           UNCHANGED <<prefs, toggled, mixed>>
    PROVE  NtfInv'
  BY DEF NtfInv, NtfTypeOK, SettingsAlone, SwitchesKept, NtfIdle

LEMMA UpdateNtf ==
    ASSUME NtfInv, NEW r \in NtfRequests, NEW kind \in NtfKinds, NEW on \in BOOLEAN,
           update_me(r, kind, on)
    PROVE  NtfInv'
  <1> DEFINE x == [pc |-> "settings", loaded |-> prefs, kind |-> kind, on |-> on]
  <1>1. x \in Settings /\ x.pc # "idle" /\ x.loaded = prefs
    BY DEF Settings, NtfInv, NtfTypeOK
  <1>2. ntf' = [ntf EXCEPT ![r] = x] /\ UNCHANGED <<prefs, toggled>>
    BY DEF update_me
  <1>3. mixed' = (mixed \/ \E q \in NtfRequests : ntf[q].pc # "idle")
    BY DEF update_me
  <1> HIDE DEF x
  <1>4. NtfTypeOK'
    BY <1>1, <1>2, <1>3 DEF NtfInv, NtfTypeOK
  <1>5. (SettingsAlone /\ SwitchesKept)'
    BY <1>1, <1>2, <1>3 DEF NtfInv, NtfTypeOK, SettingsAlone, SwitchesKept
  <1> QED BY <1>4, <1>5 DEF NtfInv

\* The merge changes the one switch; without a change there is no UPDATE.
LEMMA CommitNtf ==
    ASSUME NtfInv, NEW r \in NtfRequests, SettingsCommit(r)
    PROVE  NtfInv'
  <1> DEFINE new == Merge(ntf[r].loaded, ntf[r].kind, ntf[r].on)
  <1>1. /\ ntf[r].pc = "settings" /\ UNCHANGED mixed
        /\ prefs' = IF new # ntf[r].loaded THEN new ELSE prefs
        /\ toggled' = [toggled EXCEPT ![ntf[r].kind] = ntf[r].on]
        /\ ntf' = [ntf EXCEPT ![r] = NtfIdle]
    BY DEF SettingsCommit
  <1>2. ntf[r] \in Settings
    BY <1>1 DEF NtfInv, NtfTypeOK, NtfIdle
  <1>3. ntf[r].loaded \in [NtfKinds -> BOOLEAN] /\ ntf[r].kind \in NtfKinds /\ ntf[r].on \in BOOLEAN
    BY <1>2 DEF Settings
  <1>4. new \in [NtfKinds -> BOOLEAN]
    BY <1>3 DEF Merge
  <1>5. NtfTypeOK'
    BY <1>1, <1>3, <1>4 DEF NtfInv, NtfTypeOK
  <1>6. ~mixed => prefs' = toggled'
    <2> SUFFICES ASSUME ~mixed PROVE prefs' = toggled'
      OBVIOUS
    <2>1. ntf[r].loaded = prefs /\ prefs = toggled
      BY <1>1 DEF NtfInv, SettingsAlone, SwitchesKept
    <2>2. prefs' = new
      BY <1>1, <2>1
    <2> QED BY <1>1, <2>1, <2>2 DEF Merge
  <1>7. ~mixed => \A q \in NtfRequests : ntf'[q].pc = "idle"
    BY <1>1 DEF NtfInv, NtfTypeOK, SettingsAlone, NtfIdle
  <1> QED BY <1>1, <1>5, <1>6, <1>7 DEF NtfInv, SettingsAlone, SwitchesKept

LEMMA NextNtf == NtfInv /\ [NtfNext]_ntfVars => NtfInv'
  <1> SUFFICES ASSUME NtfInv, [NtfNext]_ntfVars PROVE NtfInv'
    OBVIOUS
  <1>1. ASSUME NEW r \in NtfRequests, NtfCrash(r)
        PROVE  NtfInv'
    BY <1>1, EndNtf DEF NtfCrash
  <1>2. CASE UNCHANGED <<prefs, toggled, mixed, ntf>>
    BY <1>2 DEF NtfInv, NtfTypeOK, SettingsAlone, SwitchesKept
  <1>3. ASSUME NEW id, NEW kind, send(id, kind)
        PROVE  NtfInv'
    BY <1>2, <1>3 DEF send
  <1>4. CASE NotificationRoutes
    BY <1>2, <1>4 DEF NotificationRoutes, mark_read, mark_all_read
  <1> QED BY <1>1, <1>2, <1>3, <1>4, UpdateNtf, CommitNtf DEF NtfNext, ntfVars

-----------------------------------------------------------------------------
(* Purification *)

Marking == [pc : {"update", "report", "insert"}, loaded : [present : BOOLEAN, dividends : Nat, marked : BOOLEAN],
            donated : BOOLEAN, line : Nat]

PurTypeOK ==
    /\ dividends \in Nat /\ told \in BOOLEAN /\ crossed \in BOOLEAN
    /\ record \in [present : BOOLEAN, dividends : Nat, marked : BOOLEAN]
    /\ pur \in [PurRequests -> {PurIdle} \cup Marking]

\* A mark that updates has seen the row; one that inserts has read a real amount.
MarkSees ==
    \A r \in PurRequests :
        /\ pur[r].pc = "update" => record.present
        /\ pur[r].pc = "insert" => pur[r].line \in 1 .. dividends

\* Until two marks overlap, one is alone and the row is as it has loaded it.
MarkAlone ==
    ~crossed => \A r \in PurRequests : pur[r].pc # "idle" =>
        /\ pur[r].pc = "update" => pur[r].loaded = record
        /\ pur[r].pc # "update" => ~record.present
        /\ \A q \in PurRequests : pur[q].pc # "idle" => q = r

PurInv == PurTypeOK /\ MarkSees /\ MarkAlone /\ MarksKept

LEMMA InitPur == PurInit => PurInv
  <1> SUFFICES ASSUME PurInit PROVE PurInv
    OBVIOUS
  <1>1. \A r \in PurRequests : pur[r].pc = "idle"
    BY DEF PurInit, PurIdle
  <1>2. PurTypeOK /\ ~record.present
    BY DEF PurInit, PurTypeOK, NoRecord
  <1> QED BY <1>1, <1>2 DEF PurInv, MarkSees, MarkAlone, MarksKept

LEMMA EndPur ==
    ASSUME PurInv, NEW r \in PurRequests, pur' = [pur EXCEPT ![r] = PurIdle],
           UNCHANGED <<dividends, record, told, crossed>>
    PROVE  PurInv'
  <1>1. PurTypeOK'
    BY DEF PurInv, PurTypeOK
  <1>2. \A q \in PurRequests : pur'[q].pc # "idle" => q # r /\ pur'[q] = pur[q]
    BY DEF PurInv, PurTypeOK, PurIdle
  <1>3. \A q \in PurRequests : pur'[q].pc = pur[q].pc \/ pur'[q].pc = "idle"
    BY DEF PurInv, PurTypeOK, PurIdle
  <1>4. (MarkSees /\ MarkAlone /\ MarksKept)'
    BY <1>2, <1>3 DEF PurInv, MarkSees, MarkAlone, MarksKept
  <1> QED BY <1>1, <1>4 DEF PurInv

LEMMA DividendPur == PurInv /\ Dividend => PurInv'
  BY DEF Dividend, PurInv, PurTypeOK, MarkSees, MarkAlone, MarksKept

LEMMA MarkPur ==
    ASSUME PurInv, NEW r \in PurRequests, NEW donated \in BOOLEAN, mark_donated(r, donated)
    PROVE  PurInv'
  <1> DEFINE x == [pc |-> IF record.present THEN "update" ELSE "report",
                   loaded |-> record, donated |-> donated, line |-> 0]
  <1>1. /\ x \in Marking /\ x.pc # "idle" /\ x.pc # "insert" /\ x.loaded = record
        /\ x.pc = "update" <=> record.present
    BY DEF Marking, PurInv, PurTypeOK
  <1>2. /\ pur' = [pur EXCEPT ![r] = x] /\ UNCHANGED <<dividends, record, told>>
        /\ crossed' = (crossed \/ \E q \in PurRequests : pur[q].pc # "idle")
    BY DEF mark_donated
  <1> HIDE DEF x
  <1>3. PurTypeOK'
    BY <1>1, <1>2 DEF PurInv, PurTypeOK
  <1>4. (MarkSees /\ MarkAlone /\ MarksKept)'
    BY <1>1, <1>2 DEF PurInv, PurTypeOK, MarkSees, MarkAlone, MarksKept
  <1> QED BY <1>3, <1>4 DEF PurInv

\* A line of the report is an amount received.
LEMMA ReportPur ==
    ASSUME PurInv, NEW r \in PurRequests, MarkReport(r)
    PROVE  PurInv'
  <1>1. pur[r].pc = "report" /\ UNCHANGED <<dividends, record, crossed>>
    BY DEF MarkReport
  <1>2. ASSUME pur' = [pur EXCEPT ![r] = PurIdle], told' = pur[r].donated
        PROVE  PurInv'
    <2>1. pur[r] \in Marking /\ pur[r].donated \in BOOLEAN
      BY <1>1 DEF PurInv, PurTypeOK, PurIdle, Marking
    <2>2. PurTypeOK'
      BY <1>1, <1>2, <2>1 DEF PurInv, PurTypeOK
    <2>3. \A q \in PurRequests : pur'[q].pc # "idle" => q # r /\ pur'[q] = pur[q]
      BY <1>2 DEF PurInv, PurTypeOK, PurIdle
    <2>4. \A q \in PurRequests : pur'[q].pc = pur[q].pc \/ pur'[q].pc = "idle"
      BY <1>2 DEF PurInv, PurTypeOK, PurIdle
    <2>5. ~crossed => ~record.present
      BY <1>1 DEF PurInv, MarkAlone
    <2>6. (MarkSees /\ MarkAlone /\ MarksKept)'
      BY <1>1, <2>3, <2>4, <2>5 DEF PurInv, MarkSees, MarkAlone, MarksKept
    <2> QED BY <2>2, <2>6 DEF PurInv
  <1>3. ASSUME NEW ln \in report, UNCHANGED told,
               pur' = [pur EXCEPT ![r].pc = "insert", ![r].line = ln.dividends]
        PROVE  PurInv'
    <2>1. ln.dividends = dividends /\ dividends \in 1 .. dividends
      BY DEF report, compute_report, PurInv, PurTypeOK
    <2>2. pur[r] \in Marking
      BY <1>1 DEF PurInv, PurTypeOK, PurIdle
    <2> DEFINE x == [pur[r] EXCEPT !.pc = "insert", !.line = ln.dividends]
    <2>3. pur' = [pur EXCEPT ![r] = x]
      BY <1>3 DEF PurInv, PurTypeOK
    <2>4. x \in Marking /\ x.pc = "insert" /\ x.line = dividends
      BY <2>1, <2>2 DEF Marking, PurInv, PurTypeOK
    <2> HIDE DEF x
    <2>5. PurTypeOK'
      BY <1>1, <1>3, <2>3, <2>4 DEF PurInv, PurTypeOK
    <2>6. (MarkSees /\ MarkAlone /\ MarksKept)'
      BY <1>1, <1>3, <2>1, <2>3, <2>4 DEF PurInv, PurTypeOK, MarkSees, MarkAlone, MarksKept
    <2> QED BY <2>5, <2>6 DEF PurInv
  <1> QED BY <1>2, <1>3 DEF MarkReport

LEMMA WritePur ==
    ASSUME PurInv, NEW r \in PurRequests, MarkUpdate(r) \/ MarkInsert(r)
    PROVE  PurInv'
  <1>1. /\ pur[r].pc \in {"update", "insert"} /\ pur' = [pur EXCEPT ![r] = PurIdle]
        /\ told' = pur[r].donated /\ UNCHANGED <<dividends, crossed>>
    BY DEF MarkUpdate, MarkInsert
  <1>2. pur[r] \in Marking
    BY <1>1 DEF PurInv, PurTypeOK, PurIdle
  <1>3. pur[r].donated \in BOOLEAN /\ pur[r].line \in Nat
    BY <1>2 DEF Marking
  <1>4. /\ record' \in [present : BOOLEAN, dividends : Nat, marked : BOOLEAN]
        /\ record'.present = TRUE /\ record'.dividends \in 1 .. dividends
        /\ ~crossed => record'.marked = pur[r].donated
    <2>1. CASE MarkUpdate(r)
      <3>1. record.present = TRUE /\ record.dividends \in 1 .. dividends /\ pur[r].pc = "update"
        BY <2>1 DEF MarkUpdate, PurInv, PurTypeOK, MarkSees, MarksKept
      <3>2. ~crossed => pur[r].loaded = record
        BY <3>1 DEF PurInv, MarkAlone
      <3> QED BY <1>3, <2>1, <3>1, <3>2 DEF MarkUpdate, PurInv, PurTypeOK
    <2>2. CASE MarkInsert(r)
      <3>1. pur[r].line \in 1 .. dividends /\ (~crossed => ~record.present)
        BY <2>2 DEF MarkInsert, PurInv, MarkSees, MarkAlone
      <3>2. CASE record.present
        BY <2>2, <3>1, <3>2 DEF MarkInsert, PurInv, PurTypeOK, MarksKept
      <3>3. CASE ~record.present
        BY <1>3, <2>2, <3>1, <3>3 DEF MarkInsert
      <3> QED BY <3>2, <3>3
    <2> QED BY <2>1, <2>2
  <1>5. PurTypeOK'
    BY <1>1, <1>3, <1>4 DEF PurInv, PurTypeOK
  <1>6. \A q \in PurRequests : pur'[q].pc # "idle" => q # r /\ pur'[q] = pur[q]
    BY <1>1 DEF PurInv, PurTypeOK, PurIdle
  <1>7. ~crossed => \A q \in PurRequests : pur'[q].pc = "idle"
    BY <1>1, <1>6 DEF PurInv, MarkAlone
  <1>8. (MarkSees /\ MarkAlone /\ MarksKept)'
    BY <1>1, <1>4, <1>6, <1>7 DEF PurInv, MarkSees, MarkAlone, MarksKept
  <1> QED BY <1>5, <1>8 DEF PurInv

LEMMA NextPur == PurInv /\ [PurNext]_purVars => PurInv'
  <1> SUFFICES ASSUME PurInv, [PurNext]_purVars PROVE PurInv'
    OBVIOUS
  <1>1. ASSUME NEW r \in PurRequests, PurCrash(r)
        PROVE  PurInv'
    BY <1>1, EndPur DEF PurCrash
  <1>2. CASE UNCHANGED purVars
    BY <1>2 DEF PurInv, PurTypeOK, MarkSees, MarkAlone, MarksKept, purVars
  <1> QED BY <1>1, <1>2, DividendPur, MarkPur, ReportPur, WritePur DEF PurNext, PurificationRoutes

-----------------------------------------------------------------------------
(* Strategies *)

StrRow == [id : StrIds, user : StrUsers, forks : Int, is_public : BOOLEAN,
           forked_from : StrIds \cup {0}, rules : [by : StrUsers, text : StrTexts]]
Forking == [pc : {"insert"}, id : StrIds, user : StrUsers, source : StrRow]

StrTypeOK == strategies \subseteq StrRow /\ str \in [StrRequests -> {StrIdle} \cup Forking]

\* What is public has been released; so are the rules of a fork under way.
PublicReleased == \A s \in strategies : s.is_public => s.rules \in released
ForkReleased == \A r \in StrRequests : str[r].pc = "insert" => str[r].source.rules \in released

StrInv == StrTypeOK /\ PublicReleased /\ ForkReleased /\ RulesWerePublic

LEMMA InitStr == StrInit => StrInv
  <1> SUFFICES ASSUME StrInit PROVE StrInv
    OBVIOUS
  <1>1. \A r \in StrRequests : str[r].pc = "idle"
    BY DEF StrInit, StrIdle
  <1>2. StrTypeOK
    BY DEF StrInit, StrTypeOK
  <1> QED BY <1>1, <1>2 DEF StrInit, StrInv, PublicReleased, ForkReleased, RulesWerePublic

\* The rows are replaced by ones that are known, and released only grows.
LEMMA RowsStr ==
    ASSUME StrInv, strategies' \subseteq StrRow,
           released \subseteq released', UNCHANGED str,
           \A s \in strategies' :
               /\ s.is_public => s.rules \in released'
               /\ s.rules.by # s.user => s.rules \in released'
    PROVE  StrInv'
  BY DEF StrInv, StrTypeOK, PublicReleased, ForkReleased, RulesWerePublic

LEMMA CreateStr ==
    ASSUME StrInv, NEW id \in StrIds, NEW user \in StrUsers, NEW public \in BOOLEAN,
           NEW rules \in Written(user), create_strategy(id, user, 0, public, rules)
    PROVE  StrInv'
  <1> DEFINE x == [id |-> id, user |-> user, forks |-> 0, is_public |-> public, forked_from |-> 0, rules |-> rules]
  <1>0. rules \in [by : StrUsers, text : StrTexts] /\ rules.by = user
    BY DEF Written
  <1>1. x \in StrRow /\ x.rules.by = x.user
    BY <1>0 DEF StrRow
  <1>2. /\ strategies' = strategies \cup {x} /\ UNCHANGED str
        /\ released' = released \cup PublicRules(strategies')
    BY DEF create_strategy
  <1> HIDE DEF x
  <1>3. \A s \in strategies' : s.is_public => s.rules \in released'
    BY <1>2 DEF PublicRules
  <1> QED BY <1>1, <1>2, <1>3, RowsStr DEF StrInv, StrTypeOK, RulesWerePublic

LEMMA UpdateStr ==
    ASSUME StrInv, NEW t \in strategies, NEW forks \in 0 .. MaxForks, NEW public \in BOOLEAN,
           NEW rules \in {t.rules} \cup Written(t.user), update_strategy(t, forks, public, rules)
    PROVE  StrInv'
  <1> DEFINE x == [t EXCEPT !.forks = forks, !.is_public = public, !.rules = rules]
  <1>0. t \in StrRow /\ forks \in Int
    BY StrAssumption DEF StrInv, StrTypeOK
  <1>a. /\ rules \in [by : StrUsers, text : StrTexts]
        /\ rules = t.rules \/ rules.by = t.user
    BY <1>0 DEF StrRow, Written
  <1>1. x \in StrRow /\ x.rules = rules /\ x.user = t.user
    BY <1>0, <1>a DEF StrRow
  <1>b. x.rules.by # x.user => x.rules \in released
    BY <1>1, <1>a DEF StrInv, RulesWerePublic
  <1>2. /\ strategies' = (strategies \ {t}) \cup {x} /\ UNCHANGED str
        /\ released' = released \cup PublicRules(strategies')
    BY DEF update_strategy
  <1> HIDE DEF x
  <1>3. \A s \in strategies' : s.is_public => s.rules \in released'
    BY <1>2 DEF PublicRules
  <1> QED BY <1>1, <1>b, <1>2, <1>3, RowsStr DEF StrInv, StrTypeOK, RulesWerePublic

LEMMA DeleteStr ==
    ASSUME StrInv, NEW t \in strategies, delete_strategy(t)
    PROVE  StrInv'
  <1>1. ASSUME NEW s \in strategies'
        PROVE  /\ s \in StrRow
               /\ \E u \in strategies : s.user = u.user /\ s.rules = u.rules /\ s.is_public = u.is_public
    <2>1. PICK u \in strategies : s = IF u.forked_from = t.id THEN [u EXCEPT !.forked_from = 0] ELSE u
      BY <1>1 DEF delete_strategy
    <2> QED BY <2>1 DEF StrInv, StrTypeOK, StrRow
  <1>2. UNCHANGED <<released, str>>
    BY DEF delete_strategy
  <1> QED BY <1>1, <1>2, RowsStr DEF StrInv, PublicReleased, RulesWerePublic

\* Only what is public is loaded, and its rules have been released.
LEMMA ForkStr ==
    ASSUME StrInv, NEW r \in StrRequests, NEW id \in StrIds, NEW user \in StrUsers,
           NEW source \in strategies, fork(r, id, user, source)
    PROVE  StrInv'
  <1> DEFINE x == [pc |-> "insert", id |-> id, user |-> user, source |-> source]
  <1>1. x \in Forking /\ x.source = source
    BY DEF Forking, StrInv, StrTypeOK
  <1>2. source.rules \in released
    BY DEF fork, list_public, StrInv, PublicReleased, RulesWerePublic
  <1>3. str' = [str EXCEPT ![r] = x] /\ UNCHANGED <<strategies, released>>
    BY DEF fork
  <1> HIDE DEF x
  <1> QED BY <1>1, <1>2, <1>3 DEF StrInv, StrTypeOK, PublicReleased, ForkReleased, RulesWerePublic

LEMMA EndStr ==
    ASSUME StrInv, NEW r \in StrRequests, str' = [str EXCEPT ![r] = StrIdle],
           UNCHANGED <<strategies, released>>
    PROVE  StrInv'
  BY DEF StrInv, StrTypeOK, PublicReleased, ForkReleased, RulesWerePublic, StrIdle

LEMMA ForkCommitStr ==
    ASSUME StrInv, NEW r \in StrRequests, ForkCommit(r)
    PROVE  StrInv'
  <1>1. CASE UNCHANGED strategies
    BY <1>1, EndStr DEF ForkCommit
  <1> DEFINE source == str[r].source
             x == [id |-> str[r].id, user |-> str[r].user, forks |-> source.forks + 1,
                   is_public |-> FALSE, forked_from |-> source.id, rules |-> source.rules]
  <1>2. CASE strategies' = strategies \cup {x}
    <2>1. str[r].pc = "insert" /\ str' = [str EXCEPT ![r] = StrIdle] /\ UNCHANGED released
      BY DEF ForkCommit
    <2>2. str[r] \in Forking
      BY <2>1 DEF StrInv, StrTypeOK, StrIdle
    <2>3. x \in StrRow /\ ~x.is_public /\ x.rules = source.rules
      BY <2>2 DEF Forking, StrRow
    <2>4. x.rules \in released
      BY <2>1, <2>3 DEF StrInv, ForkReleased
    <2> HIDE DEF x
    <2> QED BY <1>2, <2>1, <2>3, <2>4
            DEF StrInv, StrTypeOK, PublicReleased, ForkReleased, RulesWerePublic, StrIdle
  <1> QED BY <1>1, <1>2 DEF ForkCommit

LEMMA NextStr == StrInv /\ [StrNext]_strVars => StrInv'
  <1> SUFFICES ASSUME StrInv, [StrNext]_strVars PROVE StrInv'
    OBVIOUS
  <1>1. ASSUME NEW r \in StrRequests, StrCrash(r)
        PROVE  StrInv'
    BY <1>1, EndStr DEF StrCrash
  <1>2. ASSUME NEW r \in StrRequests, StrategyRoutes(r)
        PROVE  StrInv'
    BY <1>2, CreateStr, ForkStr, DeleteStr, UpdateStr DEF StrategyRoutes
  <1>3. CASE UNCHANGED strVars
    BY <1>3 DEF StrInv, StrTypeOK, PublicReleased, ForkReleased, RulesWerePublic, strVars
  <1> QED BY <1>1, <1>2, <1>3, ForkCommitStr DEF StrNext

-----------------------------------------------------------------------------
(* Lessons and quizzes *)

ProgressRow == [present : BOOLEAN, score : Int, completed : BOOLEAN]
Submission == [pc : {"store"}, loaded : ProgressRow, score : Nat]
OtherLrn == {LrnIdle, [pc |-> "seed"], [pc |-> "start"]}

LrnTypeOK ==
    /\ progress \in ProgressRow /\ graded \subseteq Nat /\ overlapped \in BOOLEAN
    /\ lrn \in [LrnRequests -> OtherLrn \cup Submission]

\* No score without a submission.
ScoreGraded ==
    /\ graded = {} => progress.score = NoScore
    /\ ~progress.present => graded = {} /\ ~progress.completed

\* What a submission has loaded is not ahead of the row, and is the row if
\* nothing overlapped.
SubmissionSees ==
    \A r \in LrnRequests : lrn[r].pc = "store" =>
        /\ lrn[r].loaded.completed => progress.completed
        /\ lrn[r].loaded.present => progress.present
        /\ lrn[r].loaded.score # NoScore => graded # {}
        /\ ~overlapped => /\ lrn[r].loaded.present => lrn[r].loaded = progress
                          /\ \A q \in LrnRequests : lrn[q].pc = "store" => q = r

LrnInv == LrnTypeOK /\ ScoreGraded /\ SubmissionSees /\ QuizRecord

LEMMA NoScoreIsInt == NoScore \in Int
  BY DEF NoScore

LEMMA InitLrn == LrnInit => LrnInv
  <1> SUFFICES ASSUME LrnInit PROVE LrnInv
    OBVIOUS
  <1>1. \A r \in LrnRequests : lrn[r] = LrnIdle /\ lrn[r].pc = "idle"
    BY DEF LrnInit, LrnIdle
  <1>2. /\ progress \in ProgressRow /\ progress.score = NoScore /\ progress.completed = FALSE
        /\ graded = {} /\ overlapped = FALSE
    BY NoScoreIsInt DEF LrnInit, ProgressRow, NoProgress
  <1>3. lrn \in [LrnRequests -> OtherLrn \cup Submission]
    BY DEF LrnInit, OtherLrn
  <1> QED BY <1>1, <1>2, <1>3 DEF LrnInv, LrnTypeOK, ScoreGraded, SubmissionSees, QuizRecord

LEMMA GradeIsNat ==
    ASSUME NEW answers \in {0, Questions}, NEW correct \in 0 .. answers
    PROVE  grade_attempt(correct, answers) \in Nat
  <1>1. CASE Questions = 0 \/ answers # Questions
    BY <1>1 DEF grade_attempt
  <1>2. CASE ~(Questions = 0 \/ answers # Questions)
    <2>1. Questions \in Nat /\ Questions > 0 /\ 100 * correct \in Nat
      BY <1>2, LrnAssumption
    <2>2. (100 * correct) \div Questions \in Nat
      BY <2>1
    <2> QED BY <1>2, <2>2 DEF grade_attempt
  <1> QED BY <1>1, <1>2

\* A handler ends or turns to something else than a submission.
LEMMA OtherStepLrn ==
    ASSUME LrnInv, NEW r \in LrnRequests, NEW x \in OtherLrn, lrn' = [lrn EXCEPT ![r] = x],
           UNCHANGED <<progress, graded, overlapped>>
    PROVE  LrnInv'
  <1>1. x.pc # "store"
    BY DEF OtherLrn, LrnIdle
  <1> QED BY <1>1 DEF LrnInv, LrnTypeOK, ScoreGraded, SubmissionSees, QuizRecord

LEMMA StartLrn ==
    ASSUME LrnInv, NEW r \in LrnRequests, StartCommit(r)
    PROVE  LrnInv'
  <1>1. lrn' = [lrn EXCEPT ![r] = LrnIdle] /\ UNCHANGED <<graded, overlapped>>
    BY DEF StartCommit, LrnEnd
  <1>2. CASE progress.present
    BY <1>1, <1>2, OtherStepLrn DEF StartCommit, OtherLrn
  <1>3. CASE ~progress.present
    <2>1. /\ progress' \in ProgressRow /\ progress'.present = TRUE
          /\ progress'.completed = FALSE /\ progress'.score = NoScore
      BY <1>3, NoScoreIsInt DEF StartCommit, NoProgress, ProgressRow
    <2>2. graded = {} /\ ~progress.completed
      BY <1>3 DEF LrnInv, ScoreGraded
    <2>3. \A q \in LrnRequests : lrn'[q].pc = "store" => q # r /\ lrn'[q] = lrn[q]
      BY <1>1 DEF LrnInv, LrnTypeOK, LrnIdle
    <2>4. LrnTypeOK'
      BY <1>1, <2>1 DEF LrnInv, LrnTypeOK, OtherLrn
    <2>5. (ScoreGraded /\ QuizRecord)'
      BY <1>1, <2>1, <2>2 DEF ScoreGraded, QuizRecord
    <2>6. SubmissionSees'
      BY <1>1, <1>3, <2>1, <2>2, <2>3 DEF LrnInv, SubmissionSees
    <2> QED BY <2>4, <2>5, <2>6 DEF LrnInv
  <1> QED BY <1>2, <1>3

LEMMA SubmitLrn ==
    ASSUME LrnInv, NEW r \in LrnRequests, NEW answers \in {0, Questions},
           NEW correct \in 0 .. answers, submit_quiz(r, correct, answers)
    PROVE  LrnInv'
  <1> DEFINE x == [pc |-> "store", loaded |-> progress, score |-> grade_attempt(correct, answers)]
  <1>1. x \in Submission /\ x.pc = "store" /\ x.loaded = progress
    BY GradeIsNat DEF Submission, LrnInv, LrnTypeOK
  <1>2. /\ lrn' = [lrn EXCEPT ![r] = x] /\ UNCHANGED <<progress, graded>>
        /\ overlapped' = (overlapped \/ \E q \in LrnRequests : lrn[q].pc = "store")
    BY DEF submit_quiz
  <1> HIDE DEF x
  <1>3. LrnTypeOK'
    BY <1>1, <1>2 DEF LrnInv, LrnTypeOK
  <1>4. (ScoreGraded /\ QuizRecord)'
    BY <1>2 DEF LrnInv, ScoreGraded, QuizRecord
  <1>5. SubmissionSees'
    BY <1>1, <1>2 DEF LrnInv, LrnTypeOK, ScoreGraded, SubmissionSees
  <1> QED BY <1>3, <1>4, <1>5 DEF LrnInv

LEMMA SubmitCommitLrn ==
    ASSUME LrnInv, NEW r \in LrnRequests, SubmitCommit(r)
    PROVE  LrnInv'
  <1> DEFINE score == lrn[r].score
             loaded == lrn[r].loaded
             lost == ~loaded.present /\ progress.present
  <1>1. lrn[r].pc = "store" /\ lrn' = [lrn EXCEPT ![r] = LrnIdle] /\ UNCHANGED overlapped
    BY DEF SubmitCommit, LrnEnd
  <1>2. CASE lost
    BY <1>1, <1>2, OtherStepLrn DEF SubmitCommit, OtherLrn
  <1>3. CASE ~lost
    <2>1. lrn[r] \in Submission
      BY <1>1 DEF LrnInv, LrnTypeOK, OtherLrn, LrnIdle
    <2>2. score \in Nat /\ loaded \in ProgressRow
      BY <2>1 DEF Submission
    <2>3. graded' = graded \cup {score}
      BY <1>3 DEF SubmitCommit
    <2>4. /\ loaded.completed => progress.completed
          /\ loaded.present <=> progress.present
          /\ ~overlapped /\ loaded.present => loaded = progress
      BY <1>1, <1>3 DEF LrnInv, SubmissionSees
    <2>5. /\ progress' \in ProgressRow /\ progress'.present = TRUE
          /\ progress'.completed = (progress.completed \/ Passing(score))
      <3>1. CASE ~loaded.present
        BY <1>3, <2>2, <2>4, <3>1 DEF SubmitCommit, LrnInv, ScoreGraded, ProgressRow, Passing
      <3>2. CASE loaded.present
        <4>1. progress' = Stored(loaded, progress, score) /\ progress \in ProgressRow /\ progress.present = TRUE
          BY <1>3, <2>4, <3>2 DEF SubmitCommit, LrnInv, LrnTypeOK, ProgressRow
        <4> DEFINE best == IF loaded.score = NoScore \/ score > loaded.score THEN score ELSE progress.score
                   done == progress.completed \/ (Passing(score) /\ ~loaded.completed)
        <4>0. best \in Int /\ done \in BOOLEAN
          BY <2>2, <4>1 DEF ProgressRow
        <4>a. progress' = [progress EXCEPT !.score = best, !.completed = done]
          BY <4>1 DEF Stored, ProgressRow
        <4> HIDE DEF best, done
        <4>b. progress'.completed = done /\ progress' \in ProgressRow /\ progress'.present = TRUE
          BY <4>0, <4>1, <4>a DEF ProgressRow
        <4>2. /\ progress'.completed = (progress.completed \/ (Passing(score) /\ ~loaded.completed))
              /\ progress' \in ProgressRow /\ progress'.present = TRUE
          BY <4>b DEF done
        <4> QED BY <2>4, <4>2 DEF Passing, ProgressRow
      <3> QED BY <3>1, <3>2
    <2>6. ~overlapped => progress'.score \in graded' /\ \A s \in graded' : s <= progress'.score
      <3> SUFFICES ASSUME ~overlapped
                   PROVE  progress'.score \in graded' /\ \A s \in graded' : s <= progress'.score
        OBVIOUS
      <3>1. CASE ~loaded.present
        <4>1. graded = {} /\ progress'.score = score
          BY <1>3, <2>4, <3>1 DEF SubmitCommit, LrnInv, ScoreGraded
        <4> QED BY <2>2, <2>3, <4>1
      <3>2. CASE loaded.present
        <4>1. progress' = Stored(progress, progress, score) /\ progress \in ProgressRow
          BY <1>3, <2>4, <3>2 DEF SubmitCommit, LrnInv, LrnTypeOK
        <4>2. progress'.score = IF progress.score = NoScore \/ score > progress.score THEN score ELSE progress.score
          BY <4>1 DEF Stored, ProgressRow
        <4>3. /\ graded = {} => progress.score = -1 /\ graded \subseteq Nat
              /\ graded # {} => progress.score \in graded /\ \A s \in graded : s <= progress.score
          BY DEF LrnInv, LrnTypeOK, ScoreGraded, QuizRecord, NoScore
        <4>4. progress.score \in Int /\ graded \subseteq Nat
          BY <4>1 DEF ProgressRow, LrnInv, LrnTypeOK
        <4>5. CASE graded = {}
          BY <2>2, <2>3, <4>2, <4>3, <4>5 DEF NoScore
        <4>6. CASE graded # {}
          BY <2>2, <2>3, <4>2, <4>3, <4>4, <4>6 DEF NoScore
        <4> QED BY <4>5, <4>6
      <3> QED BY <3>1, <3>2
    <2>a. progress'.score \in graded'
      <3>1. CASE ~loaded.present
        BY <1>3, <2>3, <2>4, <3>1 DEF SubmitCommit
      <3>2. CASE loaded.present
        <4>1. progress' = Stored(loaded, progress, score) /\ progress \in ProgressRow
          BY <1>3, <2>4, <3>2 DEF SubmitCommit, LrnInv, LrnTypeOK
        <4>2. progress'.score = IF loaded.score = NoScore \/ score > loaded.score THEN score ELSE progress.score
          BY <4>1 DEF Stored, ProgressRow
        <4>3. loaded.score # NoScore => progress.score \in graded
          BY <1>1 DEF LrnInv, SubmissionSees, QuizRecord
        <4> QED BY <2>3, <4>2, <4>3
      <3> QED BY <3>1, <3>2
    <2>7. \A q \in LrnRequests : lrn'[q].pc = "store" => q # r /\ lrn'[q] = lrn[q]
      BY <1>1 DEF LrnInv, LrnTypeOK, LrnIdle
    <2> HIDE DEF score, loaded
    <2>8. LrnTypeOK'
      BY <1>1, <2>2, <2>3, <2>5 DEF LrnInv, LrnTypeOK, OtherLrn
    <2>9. (ScoreGraded /\ QuizRecord)'
      <3>1. graded' # {} /\ ((\E s \in graded' : Passing(s)) <=> ((\E s \in graded : Passing(s)) \/ Passing(score)))
        BY <2>3
      <3>2. progress.completed <=> \E s \in graded : Passing(s)
        BY DEF LrnInv, QuizRecord
      <3> QED BY <1>1, <2>5, <2>6, <2>a, <3>1, <3>2 DEF ScoreGraded, QuizRecord
    <2>10. SubmissionSees'
      BY <1>1, <2>3, <2>4, <2>5, <2>7 DEF LrnInv, SubmissionSees
    <2> QED BY <2>8, <2>9, <2>10 DEF LrnInv
  <1> QED BY <1>2, <1>3

LEMMA NextLrn == LrnInv /\ [LrnNext]_lrnVars => LrnInv'
  <1> SUFFICES ASSUME LrnInv, [LrnNext]_lrnVars PROVE LrnInv'
    OBVIOUS
  <1>1. ASSUME NEW r \in LrnRequests,
               seed_curriculum(r) \/ get_with_progress(r) \/ SeedCommit(r) \/ LrnCrash(r)
        PROVE  LrnInv'
    BY <1>1, OtherStepLrn DEF seed_curriculum, get_with_progress, SeedCommit, LrnCrash, LrnEnd, OtherLrn
  <1>2. CASE UNCHANGED lrnVars
    BY <1>2 DEF LrnInv, LrnTypeOK, ScoreGraded, SubmissionSees, QuizRecord, lrnVars
  <1> QED BY <1>1, <1>2, StartLrn, SubmitLrn, SubmitCommitLrn DEF LrnNext, LrnRoutes

-----------------------------------------------------------------------------
(* Prices and corporate actions *)

ActionFields == {"action_type", "ex_date", "num", "den", "amount"}

\* Rows have their columns, those that are about to be written too.
BarColumns == \A d \in DOMAIN bars : "adjusted" \in DOMAIN bars[d]
ActionColumns ==
    \A k \in DOMAIN actions :
        DOMAIN actions[k] = ActionFields /\ actions[k]["action_type"] = k
FetchedColumns ==
    /\ prc = [t \in PrcTasks |-> prc[t]]
    /\ \A t \in PrcTasks : prc[t].pc = "actions" =>
          \A k \in DOMAIN prc[t].page :
              DOMAIN prc[t].page[k] = ActionFields /\ prc[t].page[k]["action_type"] = k

PrcInv == BarColumns /\ ActionColumns /\ FetchedColumns

LEMMA InitPrc == PrcInit => PrcInv
  <1> SUFFICES ASSUME PrcInit PROVE PrcInv
    OBVIOUS
  <1>1. \A t \in PrcTasks : prc[t].pc = "idle"
    BY DEF PrcInit, PrcIdle
  <1> QED BY <1>1 DEF PrcInit, PrcInv, BarColumns, ActionColumns, FetchedColumns

\* A task goes on with something else than actions to store.
LEMMA GotoPrc ==
    ASSUME FetchedColumns, NEW t \in PrcTasks, NEW x, x.pc # "actions", PrcGoto(t, x)
    PROVE  FetchedColumns'
  BY DEF FetchedColumns, PrcGoto

LEMMA IdleIsNotActions == PrcIdle.pc # "actions"
  BY DEF PrcIdle

\* The clamp: an adjusted close is at least a paisa.
LEMMA AdjustedIsNotNull ==
    ASSUME NEW prices, NEW events, NEW d \in DOMAIN compute_adjusted_prices(prices, events)
    PROVE  compute_adjusted_prices(prices, events)[d] # Null
  <1>1. \A num, den : ClampAndRound(num, den) # Null
    BY DEF ClampAndRound, MinPrice, Null
  <1>2. d \in DOMAIN prices
    BY DEF compute_adjusted_prices
  <1> QED BY <1>1, <1>2 DEF compute_adjusted_prices

LEMMA UpsertBars ==
    ASSUME PrcInv, NEW t \in PrcTasks, _upsert_rows(t)
    PROVE  DetailsKept /\ PrcInv'
  <1> DEFINE d == prc[t].date
             old == IF d \in DOMAIN bars THEN bars[d].adjusted ELSE Null
             x == [close |-> prc[t].close, adjusted |-> old]
  <1>1. x.adjusted = old /\ "adjusted" \in DOMAIN x
    OBVIOUS
  <1>2. bars' = Upserted(bars, d, x) /\ PrcGoto(t, PrcIdle) /\ actions' = actions
    BY DEF _upsert_rows
  <1> HIDE DEF x
  <1>3. /\ DOMAIN bars' = {d} \cup DOMAIN bars /\ bars'[d] = x
        /\ \A e \in DOMAIN bars \ {d} : bars'[e] = bars[e]
    BY <1>2 DEF Upserted
  <1>4. FetchedColumns'
    BY <1>2, GotoPrc, IdleIsNotActions DEF PrcInv
  <1>5. BarColumns' /\ ActionColumns'
    BY <1>1, <1>2, <1>3 DEF PrcInv, BarColumns, ActionColumns
  <1>6. DetailsKept
    BY <1>1, <1>2, <1>3 DEF DetailsKept
  <1> QED BY <1>4, <1>5, <1>6 DEF PrcInv

LEMMA BackfillBars ==
    ASSUME PrcInv, NEW t \in PrcTasks, BackfillInsert(t)
    PROVE  DetailsKept /\ PrcInv'
  <1> DEFINE x(d) == [close |-> prc[t].rows[d], adjusted |-> Null]
  <1>1. \A d : "adjusted" \in DOMAIN x(d)
    OBVIOUS
  <1>2. /\ bars' = [d \in DOMAIN bars \cup PrcDates |-> IF d \in DOMAIN bars THEN bars[d] ELSE x(d)]
        /\ PrcGoto(t, PrcIdle) /\ actions' = actions
    BY DEF BackfillInsert
  <1> HIDE DEF x
  <1>3. /\ DOMAIN bars' = DOMAIN bars \cup PrcDates
        /\ \A e \in DOMAIN bars : bars'[e] = bars[e]
        /\ \A e \in PrcDates \ DOMAIN bars : bars'[e] = x(e)
    BY <1>2
  <1>4. FetchedColumns'
    BY <1>2, GotoPrc, IdleIsNotActions DEF PrcInv
  <1>5. BarColumns' /\ ActionColumns'
    BY <1>1, <1>2, <1>3 DEF PrcInv, BarColumns, ActionColumns
  <1>6. DetailsKept
    BY <1>2, <1>3 DEF DetailsKept
  <1> QED BY <1>4, <1>5, <1>6 DEF PrcInv

LEMMA WriteBars ==
    ASSUME PrcInv, NEW t \in PrcTasks, _write_adjusted_prices(t)
    PROVE  DetailsKept /\ PrcInv'
  <1> DEFINE new == compute_adjusted_prices(prc[t].prices, prc[t].events)
  <1>1. \A d \in DOMAIN new : new[d] # Null
    BY AdjustedIsNotNull
  <1>2. /\ bars' = [d \in DOMAIN bars |->
                      IF d \in DOMAIN new THEN [bars[d] EXCEPT !.adjusted = new[d]] ELSE bars[d]]
        /\ PrcGoto(t, PrcIdle) /\ actions' = actions
    BY DEF _write_adjusted_prices
  <1> HIDE DEF new
  <1>3. FetchedColumns'
    BY <1>2, GotoPrc, IdleIsNotActions DEF PrcInv
  <1>4. \A d \in DOMAIN bars :
           /\ "adjusted" \in DOMAIN bars'[d]
           /\ bars'[d].adjusted = IF d \in DOMAIN new THEN new[d] ELSE bars[d].adjusted
    BY <1>2 DEF PrcInv, BarColumns
  <1>5. DOMAIN bars' = DOMAIN bars
    BY <1>2
  <1>6. BarColumns' /\ ActionColumns'
    BY <1>2, <1>4, <1>5 DEF PrcInv, BarColumns, ActionColumns
  <1>7. DetailsKept
    BY <1>1, <1>2, <1>4, <1>5 DEF DetailsKept
  <1> QED BY <1>3, <1>6, <1>7 DEF PrcInv

\* COALESCE: a column changes only to what the announcement says, and it does
\* when the announcement says something.
LEMMA UpsertedAction ==
    ASSUME ActionColumns, NEW k, NEW row, DOMAIN row = ActionFields, row["action_type"] = k
    PROVE  /\ DOMAIN _upsert_action(row) = ActionFields /\ _upsert_action(row)["action_type"] = k
           /\ \A f \in ActionFields \ {"action_type"} :
                 /\ row[f] # Null => _upsert_action(row)[f] = row[f]
                 /\ k \in DOMAIN actions /\ row[f] = Null => _upsert_action(row)[f] = actions[k][f]
  <1>0. row.action_type = k /\ "action_type" \in ActionFields
    BY DEF ActionFields
  <1>1. CASE k \notin DOMAIN actions
    BY <1>0, <1>1 DEF _upsert_action
  <1>2. CASE k \in DOMAIN actions
    <2>1. _upsert_action(row) =
            [f \in ActionFields |-> IF f = "action_type" THEN k ELSE Coalesce(row[f], actions[k][f])]
      BY <1>0, <1>2 DEF _upsert_action
    <2> QED BY <1>0, <1>2, <2>1 DEF Coalesce
  <1> QED BY <1>1, <1>2

LEMMA CommitActionsPrc ==
    ASSUME PrcInv, NEW t \in PrcTasks, CommitActions(t)
    PROVE  DetailsKept /\ PrcInv'
  <1> DEFINE page == prc[t].page
             new(k) == _upsert_action(page[k])
  <1>1. prc[t].pc = "actions" /\ PrcGoto(t, PrcIdle) /\ bars' = bars
    BY DEF CommitActions
  <1>2. FetchedColumns' /\ BarColumns'
    BY <1>1, GotoPrc, IdleIsNotActions DEF PrcInv, BarColumns
  <1>3. CASE actions' = actions
    BY <1>1, <1>2, <1>3 DEF PrcInv, ActionColumns, DetailsKept
  <1>4. CASE actions' = [k \in DOMAIN actions \cup DOMAIN page |->
                            IF k \in DOMAIN page THEN new(k) ELSE actions[k]]
    <2>1. \A k \in DOMAIN page : DOMAIN page[k] = ActionFields /\ page[k]["action_type"] = k
      BY <1>1 DEF PrcInv, FetchedColumns
    <2>2. ASSUME NEW k \in DOMAIN page
          PROVE  /\ DOMAIN new(k) = ActionFields /\ new(k)["action_type"] = k
                 /\ \A f \in ActionFields \ {"action_type"} :
                       /\ page[k][f] # Null => new(k)[f] = page[k][f]
                       /\ k \in DOMAIN actions /\ page[k][f] = Null => new(k)[f] = actions[k][f]
      BY <2>1, UpsertedAction DEF PrcInv
    <2> HIDE DEF new
    <2>3. /\ DOMAIN actions' = DOMAIN actions \cup DOMAIN page
          /\ \A k \in DOMAIN page : actions'[k] = new(k)
          /\ \A j \in DOMAIN actions \ DOMAIN page : actions'[j] = actions[j]
      BY <1>4
    <2>4. ActionColumns'
      BY <2>2, <2>3 DEF PrcInv, ActionColumns
    <2>5. ASSUME NEW j \in DOMAIN actions, NEW f \in DOMAIN actions[j], actions[j][f] # actions'[j][f]
          PROVE  f # "action_type" /\ actions'[j][f] # Null
      <3>1. f \in ActionFields /\ actions[j]["action_type"] = j
        BY <2>5 DEF PrcInv, ActionColumns
      <3>2. j \in DOMAIN page /\ actions'[j] = new(j)
        BY <2>3, <2>5
      <3>3. f # "action_type"
        BY <2>2, <2>5, <3>1, <3>2
      <3> QED BY <2>2, <2>5, <3>1, <3>2, <3>3
    <2>6. PageStored(page)
      BY <2>1, <2>2, <2>3 DEF PageStored
    <2> QED BY <1>1, <1>2, <2>3, <2>4, <2>5, <2>6 DEF PrcInv, DetailsKept
  <1> QED BY <1>3, <1>4 DEF CommitActions

\* What PUCARS says has the columns of the table.
LEMMA AnnouncedColumns ==
    ASSUME NEW k, NEW row \in Announced(k)
    PROVE  DOMAIN row = ActionFields /\ row["action_type"] = k
  BY DEF Announced, ActionFields

LEMMA IngestActionsPrc ==
    ASSUME PrcInv, NEW t \in PrcTasks, ingest_corporate_actions(t)
    PROVE  DetailsKept /\ PrcInv'
  <1>2. PICK page \in Pages : /\ \A k \in DOMAIN page : page[k] \in Announced(k)
                             /\ PrcGoto(t, [pc |-> "actions", page |-> page])
    BY DEF ingest_corporate_actions
  <1>3. UNCHANGED <<bars, actions>>
    BY DEF ingest_corporate_actions
  <1>4. FetchedColumns'
    BY <1>2, AnnouncedColumns DEF PrcInv, FetchedColumns, PrcGoto
  <1> QED BY <1>3, <1>4 DEF PrcInv, BarColumns, ActionColumns, DetailsKept

LEMMA NextPrc == PrcInv /\ [PrcNext]_prcVars => DetailsKept /\ PrcInv'
  <1> SUFFICES ASSUME PrcInv, [PrcNext]_prcVars PROVE DetailsKept /\ PrcInv'
    OBVIOUS
  <1>1. ASSUME NEW t \in PrcTasks, NEW x, x.pc # "actions", PrcGoto(t, x), UNCHANGED <<bars, actions>>
        PROVE  DetailsKept /\ PrcInv'
    BY <1>1, GotoPrc DEF PrcInv, BarColumns, ActionColumns, DetailsKept
  <1>2. ASSUME NEW t \in PrcTasks,
               \/ ingest_eod_ohlcv(t) \/ backfill_ohlcv(t) \/ recompute_adjusted_prices(t)
               \/ FetchEvents(t) \/ PrcCrash(t)
        PROVE  DetailsKept /\ PrcInv'
    <2>1. UNCHANGED <<bars, actions>>
      BY <1>2 DEF ingest_eod_ohlcv, backfill_ohlcv, recompute_adjusted_prices, FetchEvents, PrcCrash
    <2>2. \E x : x.pc # "actions" /\ PrcGoto(t, x)
      BY <1>2, IdleIsNotActions
         DEF ingest_eod_ohlcv, backfill_ohlcv, recompute_adjusted_prices, FetchEvents, PrcCrash
    <2> QED BY <1>1, <2>1, <2>2
  <1>3. CASE UNCHANGED prcVars
    BY <1>3 DEF PrcInv, BarColumns, ActionColumns, FetchedColumns, DetailsKept, prcVars
  <1> QED BY <1>2, <1>3, UpsertBars, BackfillBars, WriteBars, CommitActionsPrc, IngestActionsPrc
          DEF PrcNext, PrcStep, RecomputeStep

-----------------------------------------------------------------------------
(* The watchlist *)

\* The sequences of a finite set go through all of it, once.
LEMMA SeqsOfSet ==
    ASSUME NEW S, IsFiniteSet(S), NEW q \in SetToSeqs(S)
    PROVE  /\ DOMAIN q = 1 .. Len(q) /\ Len(q) \in Nat
           /\ ToSet(q) = S
           /\ \A i, j \in 1 .. Len(q) : i # j => q[i] # q[j]
  <1> DEFINE n == Cardinality(S)
  <1>1. n \in Nat
    BY FS_CardinalityType
  <1>2. q \in [1 .. n -> S] /\ \A i, j \in 1 .. n : i # j => q[i] # q[j]
    BY DEF SetToSeqs
  <1>3. q \in Injection(1 .. n, S)
    BY <1>2 DEF Injection, IsInjective
  <1>4. Cardinality(1 .. n) = n
    BY <1>1, FS_Interval
  <1>5. q \in Surjection(1 .. n, S)
    BY <1>3, <1>4, FS_Injection
  <1>6. \A s \in S : \E i \in 1 .. n : q[i] = s
    BY <1>5 DEF Surjection
  <1> HIDE DEF n
  <1>7. q \in Seq(S) /\ Len(q) = n
    BY <1>1, <1>2
  <1> QED BY <1>1, <1>2, <1>6, <1>7 DEF ToSet

-----------------------------------------------------------------------------
\* Stored or loaded rows: numbered symbols, with a highest number.
Rows(f) ==
    /\ DOMAIN f \subseteq WlSymbols
    /\ f \in [DOMAIN f -> Nat]
    /\ \E n \in Nat : \A s \in DOMAIN f : f[s] <= n

\* A reorder writes a numbering of what it has loaded.
Reordering(x) ==
    /\ Rows(x.loaded)
    /\ x.wanted \in Seq(DOMAIN x.loaded)
    /\ \E rest \in RestOrders(x.loaded, x.wanted) : x.orders = Numbered(x.wanted, rest)

WlTypeOK ==
    /\ Rows(watchlist)
    /\ wlAlone \in [WlRequests -> BOOLEAN]
    /\ wl = [r \in WlRequests |-> wl[r]]
    /\ \A r \in WlRequests :
         \/ wl[r].pc = "idle"
         \/ wl[r].pc = "insert" /\ wl[r].symbol \in WlSymbols /\ wl[r].order \in Nat
         \/ wl[r].pc = "renumber" /\ Reordering(wl[r])

\* A handler that is alone has loaded what is stored.
AloneSees ==
    \A r \in WlRequests : wlAlone[r] =>
        /\ wl[r].pc = "renumber" => wl[r].loaded = watchlist
        /\ \A q \in WlRequests : wl[q].pc # "idle" => q = r

WlInv == WlTypeOK /\ AloneSees

LEMMA MaxSortIsNat ==
    ASSUME NEW f, Rows(f)
    PROVE  MaxSort(f) \in Nat
  <1>1. CASE DOMAIN f = {}
    BY <1>1 DEF MaxSort
  <1>2. CASE DOMAIN f # {}
    <2> DEFINE S == {f[s] : s \in DOMAIN f}
    <2>1. S \subseteq Nat /\ S # {} /\ \E n \in Nat : \A s \in S : s <= n
      BY <1>2 DEF Rows
    <2>2. \E m \in S : \A s \in S : s <= m
      BY <2>1, BoundedHasMax
    <2>3. \E n \in S : \A s \in DOMAIN f : f[s] <= n
      BY <2>2
    <2>4. MaxSort(f) = CHOOSE n \in S : \A s \in DOMAIN f : f[s] <= n
      BY <1>2 DEF MaxSort
    <2>5. MaxSort(f) \in S
      BY <2>3, <2>4
    <2> QED BY <2>1, <2>5
  <1> QED BY <1>1, <1>2

(***************************************************************************)
(* The numbering of a reorder: the symbols asked for at their places, the  *)
(* rest at theirs behind them.                                             *)
(***************************************************************************)
Places(f, wanted, rest) ==
    LET num == Numbered(wanted, rest)
    IN  /\ DOMAIN num = DOMAIN f
        /\ Len(wanted) \in Nat /\ Len(rest) \in Nat /\ DOMAIN wanted = 1 .. Len(wanted)
        /\ ToSet(wanted) \subseteq DOMAIN f
        /\ \A s \in ToSet(wanted) :
             num[s] \in 1 .. Len(wanted) /\ wanted[num[s]] = s /\ num[s] = LastPlace(wanted, s)
        /\ \A s \in DOMAIN f \ ToSet(wanted) : \E i \in 1 .. Len(rest) : num[s] = Len(wanted) + i /\ rest[i] = s
        /\ \A i, j \in 1 .. Len(rest) : i < j => f[rest[i]] <= f[rest[j]]

\* A symbol of the request has a last place in it.
LEMMA LastPlaceExists ==
    ASSUME NEW S, NEW wanted \in Seq(S), NEW s \in ToSet(wanted)
    PROVE  LastPlace(wanted, s) \in 1 .. Len(wanted) /\ wanted[LastPlace(wanted, s)] = s
  <1> DEFINE at == {i \in DOMAIN wanted : wanted[i] = s}
  <1>1. DOMAIN wanted = 1 .. Len(wanted) /\ Len(wanted) \in Nat
    OBVIOUS
  <1>2. at \subseteq Nat /\ at # {} /\ \E n \in Nat : \A i \in at : i <= n
    BY <1>1 DEF ToSet
  <1>3. \E i \in at : \A j \in at : j <= i
    BY <1>2, BoundedHasMax
  <1>4. \E i \in DOMAIN wanted : wanted[i] = s /\ \A j \in DOMAIN wanted : wanted[j] = s => j <= i
    BY <1>3
  <1>5. LastPlace(wanted, s) \in DOMAIN wanted /\ wanted[LastPlace(wanted, s)] = s
    BY <1>4 DEF LastPlace
  <1> QED BY <1>1, <1>5

LEMMA NumberedPlaces ==
    ASSUME NEW f, Rows(f), NEW wanted \in Seq(DOMAIN f), NEW rest \in RestOrders(f, wanted)
    PROVE  Places(f, wanted, rest)
  <1> DEFINE num == Numbered(wanted, rest)
             some == ToSet(wanted)
  <1>1. IsFiniteSet(DOMAIN f)
    BY WlAssumption, FS_Subset DEF Rows
  <1>2. IsFiniteSet(DOMAIN f \ some)
    BY <1>1, FS_Subset
  <1>3. DOMAIN wanted = 1 .. Len(wanted) /\ Len(wanted) \in Nat /\ some \subseteq DOMAIN f
    BY DEF ToSet
  <1>4. rest \in SetToSeqs(DOMAIN f \ some) /\ \A i, j \in DOMAIN rest : i < j => f[rest[i]] <= f[rest[j]]
    BY DEF RestOrders
  <1>5. /\ DOMAIN rest = 1 .. Len(rest) /\ Len(rest) \in Nat /\ ToSet(rest) = DOMAIN f \ some
        /\ \A i, j \in 1 .. Len(rest) : i # j => rest[i] # rest[j]
    BY <1>2, <1>4, SeqsOfSet
  <1>6. DOMAIN num = DOMAIN f
    BY <1>3, <1>5 DEF Numbered
  <1>7. ASSUME NEW s \in some
        PROVE  num[s] \in 1 .. Len(wanted) /\ wanted[num[s]] = s /\ num[s] = LastPlace(wanted, s)
    <2>1. num[s] = LastPlace(wanted, s)
      BY <1>3, <1>6 DEF Numbered
    <2> QED BY <2>1, LastPlaceExists
  <1>9. ASSUME NEW s \in DOMAIN f \ some
        PROVE  \E i \in 1 .. Len(rest) : num[s] = Len(wanted) + i /\ rest[i] = s
    <2>1. num[s] = Len(wanted) + CHOOSE i \in DOMAIN rest : rest[i] = s
      BY <1>3, <1>5, <1>6 DEF Numbered
    <2>2. \E i \in DOMAIN rest : rest[i] = s
      BY <1>5 DEF ToSet
    <2> QED BY <1>5, <2>1, <2>2
  <1> QED BY <1>3, <1>4, <1>5, <1>6, <1>7, <1>9 DEF Places

\* A numbering is a set of rows again.
LEMMA NumberedRows ==
    ASSUME NEW x, Reordering(x)
    PROVE  DOMAIN x.orders = DOMAIN x.loaded /\ Rows(x.orders)
  <1>2. PICK rest \in RestOrders(x.loaded, x.wanted) : x.orders = Numbered(x.wanted, rest)
    BY DEF Reordering
  <1> DEFINE n == Len(x.wanted)
             m == Len(rest)
             f == x.loaded
             q == x.wanted
  <1>a. /\ Rows(f) /\ q \in Seq(DOMAIN f)
        /\ rest \in RestOrders(f, q) /\ x.orders = Numbered(q, rest)
        /\ f = x.loaded /\ q = x.wanted
    BY <1>2 DEF Reordering
  <1> HIDE DEF f, q
  <1>3. /\ DOMAIN x.orders = DOMAIN x.loaded /\ n \in Nat /\ m \in Nat
        /\ \A s \in ToSet(q) : x.orders[s] \in 1 .. n
        /\ \A s \in DOMAIN x.loaded \ ToSet(q) : \E i \in 1 .. m : x.orders[s] = n + i
    <2>1. /\ DOMAIN Numbered(q, rest) = DOMAIN f /\ Len(q) \in Nat /\ Len(rest) \in Nat
          /\ \A s \in ToSet(q) : Numbered(q, rest)[s] \in 1 .. Len(q)
          /\ \A s \in DOMAIN f \ ToSet(q) : \E i \in 1 .. Len(rest) : Numbered(q, rest)[s] = Len(q) + i
      <3>1. Places(f, q, rest)
        BY <1>a, NumberedPlaces
      <3> QED BY <3>1 DEF Places
    <2> QED BY <1>a, <2>1
  <1> HIDE DEF n, m
  <1>4. \A s \in DOMAIN x.orders : x.orders[s] \in Nat /\ x.orders[s] <= n + m
    BY <1>3
  <1>5. x.orders = [s \in DOMAIN x.orders |-> x.orders[s]]
    BY <1>2 DEF Numbered
  <1> QED BY <1>3, <1>4, <1>5 DEF Rows, Reordering

LEMMA InitWl == WlInit => WlInv
  <1> SUFFICES ASSUME WlInit PROVE WlInv
    OBVIOUS
  <1>1. \A r \in WlRequests : wl[r].pc = "idle" /\ wlAlone[r] = FALSE
    BY DEF WlInit, WlIdle
  <1>2. DOMAIN watchlist = {} /\ watchlist = [s \in DOMAIN watchlist |-> watchlist[s]]
    BY DEF WlInit
  <1>3. Rows(watchlist)
    BY <1>2 DEF Rows
  <1> QED BY <1>1, <1>3 DEF WlInit, WlInv, WlTypeOK, AloneSees

\* Another handler starts: it is alone, or nobody is.
LEMMA StartWl ==
    ASSUME WlInv, NEW r \in WlRequests, NEW x, WlStart(r, x),
           \/ x.pc = "insert" /\ x.symbol \in WlSymbols /\ x.order \in Nat
           \/ x.pc = "renumber" /\ Reordering(x) /\ x.loaded = watchlist
    PROVE  WlInv'
  <1>1. /\ wl' = [wl EXCEPT ![r] = x] /\ watchlist' = watchlist
        /\ wlAlone' = [q \in WlRequests |-> q = r /\ \A p \in WlRequests : wl[p].pc = "idle"]
    BY DEF WlStart
  <1>2. wl'[r] = x /\ \A q \in WlRequests \ {r} : wl'[q] = wl[q]
    BY <1>1 DEF WlInv, WlTypeOK
  <1>3. WlTypeOK'
    BY <1>1, <1>2 DEF WlInv, WlTypeOK, Rows, Reordering
  <1>4. ASSUME NEW q \in WlRequests, wlAlone'[q]
        PROVE  /\ wl'[q].pc = "renumber" => wl'[q].loaded = watchlist'
               /\ \A p \in WlRequests : wl'[p].pc # "idle" => p = q
    <2>1. q = r /\ \A p \in WlRequests : wl[p].pc = "idle"
      BY <1>1, <1>4
    <2>2. \A p \in WlRequests \ {r} : wl'[p].pc = "idle"
      BY <1>2, <2>1
    <2>3. wl'[q].pc = "renumber" => wl'[q].loaded = watchlist'
      BY <1>1, <1>2, <2>1
    <2> QED BY <2>1, <2>2, <2>3
  <1>5. AloneSees'
    BY <1>4 DEF AloneSees
  <1> QED BY <1>3, <1>5 DEF WlInv

\* A handler writes and ends: no other was alone.
LEMMA EndWl ==
    ASSUME WlInv, NEW r \in WlRequests, wl[r].pc # "idle", WlEnd(r), Rows(watchlist')
    PROVE  WlInv'
  <1>1. /\ wl' = [wl EXCEPT ![r] = WlIdle] /\ wlAlone' = [wlAlone EXCEPT ![r] = FALSE]
    BY DEF WlEnd
  <1>2. wl'[r].pc = "idle" /\ \A q \in WlRequests \ {r} : wl'[q] = wl[q]
    BY <1>1 DEF WlInv, WlTypeOK, WlIdle
  <1>3. \A q \in WlRequests : wlAlone'[q] = FALSE
    BY <1>1 DEF WlInv, WlTypeOK, AloneSees
  <1>4. WlTypeOK'
    BY <1>1, <1>2 DEF WlInv, WlTypeOK, Reordering
  <1>5. AloneSees'
    BY <1>3 DEF AloneSees
  <1> QED BY <1>4, <1>5 DEF WlInv

LEMMA AddWl ==
    ASSUME WlInv, NEW r \in WlRequests, NEW symbol \in WlSymbols, add(r, symbol)
    PROVE  WlInv'
  <1> DEFINE x == [pc |-> "insert", symbol |-> symbol, order |-> MaxSort(watchlist) + 1, at |-> wlClock']
  <1>1. WlStart(r, x)
    BY DEF add
  <1>2. MaxSort(watchlist) \in Nat
    BY MaxSortIsNat DEF WlInv, WlTypeOK
  <1>3. x.pc = "insert" /\ x.symbol \in WlSymbols /\ x.order \in Nat
    BY <1>2
  <1> HIDE DEF x
  <1> QED BY <1>1, <1>3, StartWl

LEMMA ReorderWl ==
    ASSUME WlInv, NEW r \in WlRequests, NEW n \in 0 .. MaxAsked,
           NEW wanted \in [1 .. n -> WlSymbols], reorder(r, wanted)
    PROVE  WlInv'
  <1>1. PICK rest \in RestOrders(watchlist, wanted) :
            WlStart(r, [pc |-> "renumber", loaded |-> watchlist, wanted |-> wanted,
                        orders |-> Numbered(wanted, rest)])
    BY DEF reorder
  <1> DEFINE x == [pc |-> "renumber", loaded |-> watchlist, wanted |-> wanted,
                   orders |-> Numbered(wanted, rest)]
  <1>2. WlStart(r, x)
    BY <1>1
  <1>3. /\ x.pc = "renumber" /\ x.loaded = watchlist /\ x.wanted = wanted
        /\ x.orders = Numbered(wanted, rest)
    OBVIOUS
  <1> HIDE DEF x
  <1>4. n \in Nat /\ wanted \in Seq(WlSymbols) /\ Len(wanted) = n
    BY WlAssumption
  <1>5. wanted \in Seq(DOMAIN watchlist)
    BY <1>4 DEF reorder, ToSet
  <1>6. Reordering(x)
    BY <1>1, <1>3, <1>5 DEF Reordering, WlInv, WlTypeOK
  <1> QED BY <1>2, <1>3, <1>6, StartWl

LEMMA AddCommitWl ==
    ASSUME WlInv, NEW r \in WlRequests, AddCommit(r)
    PROVE  WlInv'
  <1>1. wl[r].pc = "insert" /\ WlEnd(r)
    BY DEF AddCommit
  <1>2. wl[r].symbol \in WlSymbols /\ wl[r].order \in Nat
    BY <1>1 DEF WlInv, WlTypeOK
  <1>3. PICK n \in Nat : \A s \in DOMAIN watchlist : watchlist[s] <= n
    BY DEF WlInv, WlTypeOK, Rows
  <1>4. Rows(watchlist')
    <2>1. CASE is_watching(wl[r].symbol)
      BY <2>1 DEF AddCommit, WlInv, WlTypeOK
    <2>2. CASE ~is_watching(wl[r].symbol)
      <3> DEFINE t == wl[r].symbol
      <3>1. watchlist' = [s \in DOMAIN watchlist \cup {t} |-> IF s = t THEN wl[r].order ELSE watchlist[s]]
        BY <2>2 DEF AddCommit, With
      <3>2. \A s \in DOMAIN watchlist' : watchlist'[s] \in Nat /\ watchlist'[s] <= n + wl[r].order
        BY <1>2, <1>3, <3>1 DEF WlInv, WlTypeOK, Rows
      <3> QED BY <1>2, <3>1, <3>2 DEF WlInv, WlTypeOK, Rows
    <2> QED BY <2>1, <2>2
  <1> QED BY <1>1, <1>4, EndWl

LEMMA RemoveWl ==
    ASSUME WlInv, NEW symbol \in WlSymbols, remove(symbol)
    PROVE  WlInv'
  <1>1. Rows(watchlist')
    BY DEF remove, WlInv, WlTypeOK, Rows
  <1>2. wl' = wl /\ wlAlone' = [r \in WlRequests |-> FALSE]
    BY DEF remove
  <1> QED BY <1>1, <1>2 DEF WlInv, WlTypeOK, AloneSees, Reordering

\* What a reorder writes is a set of rows, whatever happened since it loaded.
LEMMA ReorderCommitWl ==
    ASSUME WlInv, NEW r \in WlRequests, ReorderCommit(r)
    PROVE  WlInv'
  <1>1. wl[r].pc = "renumber" /\ WlEnd(r)
    BY DEF ReorderCommit
  <1>2. Reordering(wl[r])
    BY <1>1 DEF WlInv, WlTypeOK
  <1> DEFINE orders == wl[r].orders
             loaded == wl[r].loaded
  <1>3. DOMAIN orders = DOMAIN loaded /\ Rows(orders)
    BY <1>2, NumberedRows
  <1>4. Rows(watchlist)
    BY DEF WlInv, WlTypeOK
  <1>5. PICK n \in Nat, m \in Nat : /\ \A s \in DOMAIN watchlist : watchlist[s] <= n
                                  /\ \A s \in DOMAIN orders : orders[s] <= m
    BY <1>3, <1>4 DEF Rows
  <1>6. Rows(watchlist')
    <2>1. CASE watchlist' = watchlist
      BY <1>4, <2>1
    <2>2. CASE watchlist' = Renumbered(r)
      <3>1. watchlist' = [s \in DOMAIN watchlist |->
                             IF s \in DOMAIN loaded /\ orders[s] # loaded[s] THEN orders[s] ELSE watchlist[s]]
        BY <2>2 DEF Renumbered
      <3> HIDE DEF orders, loaded
      <3>2. \A s \in DOMAIN watchlist' : watchlist'[s] \in Nat /\ watchlist'[s] <= n + m
        BY <1>3, <1>4, <1>5, <3>1 DEF Rows
      <3>3. DOMAIN watchlist' = DOMAIN watchlist /\ n + m \in Nat
        BY <3>1
      <3>4. watchlist' \in [DOMAIN watchlist' -> Nat]
        BY <3>1, <3>2
      <3> QED BY <1>4, <3>2, <3>3, <3>4 DEF Rows
    <2> QED BY <2>1, <2>2 DEF ReorderCommit
  <1> QED BY <1>1, <1>6, EndWl

LEMMA NextWl == WlInv /\ [WlNext]_wlVars => WlInv'
  <1> SUFFICES ASSUME WlInv, [WlNext]_wlVars PROVE WlInv'
    OBVIOUS
  <1>1. ASSUME NEW r \in WlRequests, WlCrash(r)
        PROVE  WlInv'
    BY <1>1, EndWl DEF WlCrash, WlInv, WlTypeOK, Rows
  <1>2. CASE UNCHANGED wlVars
    BY <1>2 DEF WlInv, WlTypeOK, AloneSees, Rows, Reordering, wlVars
  <1> QED BY <1>1, <1>2, AddWl, ReorderWl, AddCommitWl, ReorderCommitWl, RemoveWl DEF WlNext, WlRoutes

\* The numbers of a reorder, as the user asked for them.
LEMMA NumberedRepairs ==
    ASSUME NEW f, Rows(f), NEW wanted \in Seq(DOMAIN f),
           NEW rest \in RestOrders(f, wanted), NEW g, g = Numbered(wanted, rest)
    PROVE  /\ DOMAIN g = DOMAIN f
           /\ \A s, t \in DOMAIN g : s # t => g[s] # g[t]
           /\ \A s, t \in ToSet(wanted) : LastPlace(wanted, s) < LastPlace(wanted, t) => g[s] < g[t]
           /\ \A s \in ToSet(wanted), t \in DOMAIN g \ ToSet(wanted) : g[s] < g[t]
           /\ \A s, t \in DOMAIN g \ ToSet(wanted) : f[s] < f[t] => g[s] < g[t]
  <1> DEFINE n == Len(wanted)
             m == Len(rest)
             some == ToSet(wanted)
  <1>1. Places(f, wanted, rest)
    BY NumberedPlaces
  <1>2. /\ DOMAIN g = DOMAIN f /\ n \in Nat /\ m \in Nat /\ some \subseteq DOMAIN f
        /\ \A s \in some : g[s] \in 1 .. n /\ wanted[g[s]] = s /\ g[s] = LastPlace(wanted, s)
        /\ \A i, j \in 1 .. m : i < j => f[rest[i]] <= f[rest[j]]
    BY <1>1 DEF Places
  <1>3. \A s \in DOMAIN f \ some : \E i \in 1 .. m : g[s] = n + i /\ rest[i] = s
    BY <1>1 DEF Places
  <1> HIDE DEF n, m, some
  <1>4. \A s \in some, t \in DOMAIN f \ some : g[s] < g[t]
    BY <1>2, <1>3
  <1>5. ASSUME NEW s \in DOMAIN f, NEW t \in DOMAIN f, s # t
        PROVE  g[s] # g[t]
    <2>1. CASE s \in some /\ t \in some
      BY <1>2, <1>5, <2>1
    <2>2. CASE s \notin some /\ t \notin some
      <3>1. PICK i \in 1 .. m : g[s] = n + i /\ rest[i] = s
        BY <1>3, <2>2
      <3>2. PICK j \in 1 .. m : g[t] = n + j /\ rest[j] = t
        BY <1>3, <2>2
      <3> QED BY <1>2, <1>5, <3>1, <3>2
    <2>3. CASE s \in some /\ t \notin some
      <3>1. g[s] \in 1 .. n /\ \E i \in 1 .. m : g[t] = n + i
        BY <1>2, <1>3, <2>3
      <3> QED BY <1>2, <3>1
    <2>4. CASE s \notin some /\ t \in some
      <3>1. g[t] \in 1 .. n /\ \E i \in 1 .. m : g[s] = n + i
        BY <1>2, <1>3, <2>4
      <3> QED BY <1>2, <3>1
    <2> QED BY <2>1, <2>2, <2>3, <2>4
  <1>6. ASSUME NEW s \in DOMAIN f \ some, NEW t \in DOMAIN f \ some, f[s] < f[t]
        PROVE  g[s] < g[t]
    <2>1. PICK i \in 1 .. m : g[s] = n + i /\ rest[i] = s
      BY <1>3
    <2>2. PICK j \in 1 .. m : g[t] = n + j /\ rest[j] = t
      BY <1>3
    <2>3. f[s] \in Nat /\ f[t] \in Nat
      BY DEF Rows
    <2>4. i \in Int /\ j \in Int /\ ~(j < i) /\ i # j
      BY <1>2, <1>6, <2>1, <2>2, <2>3
    <2> QED BY <1>2, <2>1, <2>2, <2>4
  <1>7. \A s, t \in some : LastPlace(wanted, s) < LastPlace(wanted, t) => g[s] < g[t]
    BY <1>2
  <1>8. some = ToSet(wanted)
    BY DEF some
  <1> QED BY <1>2, <1>4, <1>5, <1>6, <1>7, <1>8

\* What ReorderRepairs asks of the step in which a reorder that was alone commits.
Repairs(r) ==
    LET wanted == wl[r].wanted
        rest == DOMAIN watchlist' \ ToSet(wanted)
        Before(s, t) == ShownBefore(watchlist, added_at, s, t)
        After(s, t) == ShownBefore(watchlist', added_at', s, t)
    IN  /\ \A s, t \in DOMAIN watchlist' : s # t => watchlist'[s] # watchlist'[t]
        /\ \A s, t \in ToSet(wanted) : LastPlace(wanted, s) < LastPlace(wanted, t) => After(s, t)
        /\ \A s \in ToSet(wanted), t \in rest : After(s, t)
        /\ \A s, t \in rest : Before(s, t) /\ watchlist[s] # watchlist[t] => After(s, t)

\* One step: a reorder that is alone writes the numbering of the stored rows.
LEMMA AloneRepairs ==
    ASSUME WlInv, NEW r \in WlRequests, wlAlone[r], ReorderCommit(r)
    PROVE  Repairs(r)
  <1> DEFINE wanted == wl[r].wanted
             orders == wl[r].orders
  <1>1. wl[r].pc = "renumber"
    BY DEF ReorderCommit
  <1>2. wl[r].loaded = watchlist /\ Reordering(wl[r])
    BY <1>1 DEF WlInv, WlTypeOK, AloneSees
  <1>3. wanted \in Seq(DOMAIN watchlist)
    BY <1>2 DEF Reordering
  <1>4. PICK rest \in RestOrders(watchlist, wanted) : orders = Numbered(wanted, rest)
    BY <1>2 DEF Reordering
  <1>5. Rows(watchlist)
    BY DEF WlInv, WlTypeOK
  <1>6. watchlist' = Renumbered(r)
    BY <1>2 DEF ReorderCommit, is_watching
  <1>7. watchlist' = [s \in DOMAIN watchlist |-> orders[s]]
    BY <1>2, <1>6 DEF Renumbered
  <1>8. orders = [s \in DOMAIN orders |-> orders[s]]
    BY <1>4 DEF Numbered
  <1> HIDE DEF wanted, orders
  <1>9. /\ DOMAIN orders = DOMAIN watchlist
        /\ \A s, t \in DOMAIN orders : s # t => orders[s] # orders[t]
        /\ \A s, t \in ToSet(wanted) : LastPlace(wanted, s) < LastPlace(wanted, t) => orders[s] < orders[t]
        /\ \A s \in ToSet(wanted), t \in DOMAIN orders \ ToSet(wanted) : orders[s] < orders[t]
        /\ \A s, t \in DOMAIN orders \ ToSet(wanted) : watchlist[s] < watchlist[t] => orders[s] < orders[t]
    BY <1>3, <1>4, <1>5, NumberedRepairs
  <1>10. watchlist' = orders
    BY <1>7, <1>8, <1>9
  <1>11. wanted = wl[r].wanted
    BY DEF wanted
  <1> QED BY <1>9, <1>10, <1>11 DEF ShownBefore, Repairs

(***************************************************************************)
(* ReorderRepairs, for any set of symbols and any number of handlers: a    *)
(* reorder during which no other handler of WatchlistService runs leaves   *)
(* distinct numbers, the symbols asked for in front, and the rest as it    *)
(* was up to rows that shared a number.                                    *)
(***************************************************************************)
THEOREM WatchlistRepaired == WlSpec => ReorderRepairs
  <1>1. WlInv /\ [WlNext]_wlVars => WlInv'
    BY NextWl
  <1>2. WlInv => \A r \in WlRequests : wlAlone[r] /\ ReorderCommit(r) => Repairs(r)
    BY AloneRepairs
  <1>3. WlInv => [\A r \in WlRequests : wlAlone[r] /\ ReorderCommit(r) => Repairs(r)]_wlVars
    BY <1>2
  <1>4. [][\A r \in WlRequests : wlAlone[r] /\ ReorderCommit(r) => Repairs(r)]_wlVars => ReorderRepairs
    BY PTL DEF ReorderRepairs, Repairs
  <1> QED BY <1>1, <1>3, <1>4, InitWl, PTL DEF WlSpec

-----------------------------------------------------------------------------
(* The services together: a step of one leaves the tables of the others. *)

RecordsInv == NtfInv /\ PurInv /\ StrInv /\ LrnInv /\ PrcInv

LEMMA RecordSteps ==
    [SvcNext]_svcVars =>
        /\ [NtfNext]_ntfVars /\ [PurNext]_purVars /\ [StrNext]_strVars
        /\ [LrnNext]_lrnVars /\ [PrcNext]_prcVars
  BY DEF SvcNext, Rest, svcVars

(***************************************************************************)
(* RecordsKept, for any number of handlers and tasks of every service and  *)
(* any values.  Completion, forked rules, recorded amounts and corporate   *)
(* actions under any overlap; switches, donation marks and the best score  *)
(* up to the first overlap of two requests that write them.                *)
(***************************************************************************)
THEOREM RecordsAreKept == SvcSpec => RecordsKept
  <1>1. SvcInit => RecordsInv
    BY InitNtf, InitPur, InitStr, InitLrn, InitPrc DEF SvcInit, RecordsInv
  <1>2. RecordsInv /\ [SvcNext]_svcVars => RecordsInv' /\ DetailsKept
    BY RecordSteps, NextNtf, NextPur, NextStr, NextLrn, NextPrc DEF RecordsInv
  <1>3. RecordsInv' => (SwitchesKept /\ MarksKept /\ RulesWerePublic /\ QuizRecord)'
    BY DEF RecordsInv, NtfInv, PurInv, StrInv, LrnInv
  <1> QED BY <1>1, <1>2, <1>3, PTL DEF SvcSpec, RecordsKept

-----------------------------------------------------------------------------
(* The read cache *)

Versions == DOMAIN replaced

\* The versions are counted; the newest is not replaced, the others were.
VersionsCounted ==
    \E k \in Nat :
        /\ replaced \in [0 .. k -> Nat]
        /\ replaced[k] = Never
        /\ \A v \in 0 .. k : v < k => replaced[v] <= now

LookupOK(x) ==
    \/ x.pc = "idle"
    \/ /\ x.pc \in {"load", "set"} /\ x.since \in Nat
       /\ x.since <= now /\ now <= x.since + MaxLoad
       /\ x.pc = "set" => /\ x.version \in Versions /\ x.version # Absent
                          /\ x.since <= replaced[x.version]

CchTypeOK ==
    /\ now \in Nat /\ now <= MaxTime
    /\ cch = [r \in CchRequests |-> cch[r]]
    /\ \A r \in CchRequests : LookupOK(cch[r])

\* An entry outlives its row by a lifetime and a load at most.
EntryFresh ==
    /\ entry.expires \in Nat /\ entry.version \in Versions
    /\ entry.version = Absent => entry.expires = 0
    /\ entry.expires > 0 => /\ entry.expires <= replaced[entry.version] + Ttl + MaxLoad
                           /\ entry.expires <= now + Ttl

ServedOK == served.version \in Versions /\ served.at \in Nat /\ served.at <= now

CchInv == VersionsCounted /\ CchTypeOK /\ EntryFresh /\ ServedOK /\ CacheFresh

LEMMA CurrentIsLast ==
    ASSUME NEW k \in Nat, DOMAIN replaced = 0 .. k
    PROVE  Current = k
  <1>1. k \in DOMAIN replaced /\ k + 1 \notin DOMAIN replaced
    OBVIOUS
  <1>2. \A v \in DOMAIN replaced : v + 1 \notin DOMAIN replaced => v = k
    OBVIOUS
  <1> QED BY <1>1, <1>2 DEF Current

LEMMA InitCch == CchInit => CchInv
  <1> SUFFICES ASSUME CchInit PROVE CchInv
    OBVIOUS
  <1>1. MaxTime \in Nat /\ Ttl \in Nat /\ MaxLoad \in Nat
    BY CacheAssumption
  <1>2. replaced \in [0 .. 0 -> Nat] /\ replaced[0] = Never /\ DOMAIN replaced = {0} /\ Never \in Nat
    BY <1>1 DEF CchInit, Never, Absent
  <1>3. VersionsCounted
    BY <1>2 DEF VersionsCounted
  <1>4. \A r \in CchRequests : cch[r].pc = "idle"
    BY DEF CchInit, CchIdle
  <1>5. CchTypeOK
    BY <1>1, <1>4 DEF CchInit, CchTypeOK, LookupOK
  <1>6. EntryFresh
    BY <1>1, <1>2 DEF CchInit, EntryFresh, NoEntry, Absent, Versions
  <1>7. ServedOK
    BY <1>2 DEF CchInit, ServedOK, Absent, Versions
  <1>8. CacheFresh
    BY <1>1, <1>2 DEF CchInit, CacheFresh, Absent, Never
  <1> QED BY <1>3, <1>5, <1>6, <1>7, <1>8 DEF CchInv

LEMMA TickCch == CchInv /\ Tick => CchInv'
  <1> SUFFICES ASSUME CchInv, Tick PROVE CchInv'
    OBVIOUS
  <1>1. /\ now' = now + 1 /\ now < MaxTime /\ UNCHANGED <<replaced, entry, cch, served>>
        /\ \A r \in CchRequests : cch[r].pc # "idle" => now - cch[r].since < MaxLoad
    BY DEF Tick
  <1>2. /\ MaxTime \in Nat /\ Ttl \in Nat /\ MaxLoad \in Nat /\ now \in Nat
    BY CacheAssumption DEF CchInv, CchTypeOK
  <1>3. VersionsCounted'
    BY <1>1, <1>2 DEF CchInv, VersionsCounted, Never
  <1>4. CchTypeOK'
    <2>1. ASSUME NEW r \in CchRequests PROVE LookupOK(cch[r])'
      BY <1>1, <1>2 DEF CchInv, CchTypeOK, LookupOK, Versions
    <2> QED BY <1>1, <1>2, <2>1 DEF CchInv, CchTypeOK
  <1>5. (EntryFresh /\ ServedOK /\ CacheFresh)'
    BY <1>1, <1>2 DEF CchInv, EntryFresh, ServedOK, CacheFresh, Versions
  <1> QED BY <1>3, <1>4, <1>5 DEF CchInv

\* A change replaces the newest version now, after all that was served.
LEMMA RowChangesCch == CchInv /\ RowChanges => CchInv'
  <1> SUFFICES ASSUME CchInv, RowChanges PROVE CchInv'
    OBVIOUS
  <1>1. PICK k \in Nat : /\ replaced \in [0 .. k -> Nat] /\ replaced[k] = Never
                         /\ \A v \in 0 .. k : v < k => replaced[v] <= now
    BY DEF CchInv, VersionsCounted
  <1>2. Current = k
    BY <1>1, CurrentIsLast
  <1>3. MaxTime \in Nat /\ Ttl \in Nat /\ MaxLoad \in Nat /\ now \in Nat /\ now <= MaxTime
    BY CacheAssumption DEF CchInv, CchTypeOK
  <1>4. replaced' = [v \in 0 .. k + 1 |-> IF v = k THEN now ELSE IF v > k THEN Never ELSE replaced[v]]
    BY <1>2 DEF RowChanges
  <1>5. UNCHANGED <<now, entry, cch, served>>
    BY DEF RowChanges
  <1>6. /\ DOMAIN replaced' = 0 .. k + 1 /\ replaced'[k] = now /\ replaced'[k + 1] = Never
        /\ \A v \in 0 .. k : v < k => replaced'[v] = replaced[v]
    BY <1>4
  <1>7. Never \in Nat /\ now < Never
    BY <1>3 DEF Never
  <1>8. replaced' \in [0 .. k + 1 -> Nat]
    BY <1>1, <1>3, <1>4, <1>7
  <1>9. VersionsCounted'
    <2>1. \A v \in 0 .. k + 1 : v < k + 1 => replaced'[v] <= now'
      BY <1>1, <1>3, <1>5, <1>6
    <2> QED BY <1>5, <1>6, <1>8, <2>1 DEF VersionsCounted, Never
  <1>10. \A v \in Versions : v \in Versions' /\ (replaced'[v] = replaced[v] \/ replaced'[v] = now)
    BY <1>1, <1>6 DEF Versions
  <1>11. \A v \in Versions : replaced[v] \in Nat /\ replaced'[v] \in Nat
    BY <1>1, <1>6, <1>8 DEF Versions
  <1>12. CchTypeOK'
    <2>1. ASSUME NEW r \in CchRequests PROVE LookupOK(cch[r])'
      <3>1. LookupOK(cch[r])
        BY DEF CchInv, CchTypeOK
      <3> QED BY <1>3, <1>5, <1>10, <1>11, <3>1 DEF LookupOK
    <2> QED BY <1>5, <2>1 DEF CchInv, CchTypeOK
  <1>13. (EntryFresh /\ ServedOK /\ CacheFresh)'
    BY <1>3, <1>5, <1>10, <1>11 DEF CchInv, EntryFresh, ServedOK, CacheFresh
  <1> QED BY <1>9, <1>12, <1>13 DEF CchInv

LEMMA CacheGetCch ==
    ASSUME CchInv, NEW r \in CchRequests, cache_get(r)
    PROVE  CchInv'
  <1>1. UNCHANGED <<now, replaced, entry>>
    BY DEF cache_get
  <1>2. MaxTime \in Nat /\ Ttl \in Nat /\ MaxLoad \in Nat /\ now \in Nat
    BY CacheAssumption DEF CchInv, CchTypeOK
  <1>3. \A v \in Versions : replaced[v] \in Nat
    BY DEF CchInv, VersionsCounted, Versions
  <1>4. VersionsCounted' /\ EntryFresh'
    BY <1>1 DEF CchInv, VersionsCounted, EntryFresh, Versions, Never
  <1>5. CASE now < entry.expires
    <2>1. served' = [version |-> entry.version, at |-> now] /\ cch' = cch
      BY <1>5 DEF cache_get
    <2>2. CchTypeOK'
      BY <1>1, <2>1 DEF CchInv, CchTypeOK, LookupOK, Versions
    <2>3. /\ entry.version \in Versions /\ entry.version # Absent /\ entry.expires \in Nat
          /\ entry.expires <= replaced[entry.version] + Ttl + MaxLoad
      BY <1>2, <1>5 DEF CchInv, EntryFresh
    <2>4. served'.version = entry.version /\ served'.at = now
      BY <2>1
    <2>5. replaced[entry.version] + Ttl + MaxLoad >= now
      BY <1>2, <1>3, <1>5, <2>3
    <2>6. ServedOK' /\ CacheFresh'
      BY <1>1, <1>2, <2>3, <2>4, <2>5 DEF ServedOK, CacheFresh, Versions
    <2> QED BY <1>4, <2>2, <2>6 DEF CchInv
  <1>6. CASE ~(now < entry.expires)
    <2> DEFINE x == [pc |-> "load", since |-> now]
    <2>1. cch' = [cch EXCEPT ![r] = x] /\ served' = served
      BY <1>6 DEF cache_get
    <2>2. x.pc = "load" /\ x.since = now
      OBVIOUS
    <2> HIDE DEF x
    <2>3. LookupOK(x)
      BY <1>2, <2>2 DEF LookupOK
    <2>4. CchTypeOK'
      BY <1>1, <2>1, <2>3 DEF CchInv, CchTypeOK, LookupOK, Versions
    <2>5. ServedOK' /\ CacheFresh'
      BY <1>1, <2>1 DEF CchInv, ServedOK, CacheFresh, Versions
    <2> QED BY <1>4, <2>4, <2>5 DEF CchInv
  <1> QED BY <1>5, <1>6

\* The loader reads the newest version, which nothing has replaced.
LEMMA CachedCch ==
    ASSUME CchInv, NEW r \in CchRequests, cached(r)
    PROVE  CchInv'
  <1>1. cch[r].pc = "load" /\ UNCHANGED <<now, replaced, entry>>
    BY DEF cached
  <1>2. MaxTime \in Nat /\ Ttl \in Nat /\ MaxLoad \in Nat /\ now \in Nat /\ now <= MaxTime
    BY CacheAssumption DEF CchInv, CchTypeOK
  <1>3. PICK k \in Nat : replaced \in [0 .. k -> Nat] /\ replaced[k] = Never
    BY DEF CchInv, VersionsCounted
  <1>4. Current = k
    BY <1>3, CurrentIsLast
  <1>5. VersionsCounted' /\ EntryFresh'
    BY <1>1 DEF CchInv, VersionsCounted, EntryFresh, Versions, Never
  <1>6. CASE k = Absent
    <2>1. served' = [version |-> Absent, at |-> now] /\ cch' = [cch EXCEPT ![r] = CchIdle]
      BY <1>4, <1>6 DEF cached
    <2>2. served'.version = Absent /\ served'.at = now
      BY <2>1
    <2>3. LookupOK(CchIdle)
      BY DEF LookupOK, CchIdle
    <2>4. CchTypeOK'
      BY <1>1, <2>1, <2>3 DEF CchInv, CchTypeOK, LookupOK, Versions
    <2>5. ServedOK' /\ CacheFresh'
      BY <1>1, <1>2, <1>3, <1>6, <2>2 DEF ServedOK, CacheFresh, Versions, Never
    <2> QED BY <1>5, <2>4, <2>5 DEF CchInv
  <1>7. CASE k # Absent
    <2> DEFINE x == [pc |-> "set", since |-> cch[r].since, version |-> Current]
    <2>1. cch' = [cch EXCEPT ![r] = x] /\ served' = served
      BY <1>4, <1>7 DEF cached
    <2>2. x.pc = "set" /\ x.since = cch[r].since /\ x.version = k
      BY <1>4
    <2>3. cch[r].since \in Nat /\ cch[r].since <= now /\ now <= cch[r].since + MaxLoad
      BY <1>1 DEF CchInv, CchTypeOK, LookupOK
    <2> HIDE DEF x
    <2>4. LookupOK(x)
      BY <1>2, <1>3, <1>7, <2>2, <2>3 DEF LookupOK, Versions, Never
    <2>5. CchTypeOK'
      BY <1>1, <2>1, <2>4 DEF CchInv, CchTypeOK, LookupOK, Versions
    <2>6. ServedOK' /\ CacheFresh'
      BY <1>1, <2>1 DEF CchInv, ServedOK, CacheFresh, Versions
    <2> QED BY <1>5, <2>5, <2>6 DEF CchInv
  <1> QED BY <1>6, <1>7

\* What is set was current when its load began, a load ago at most.
LEMMA CacheSetCch ==
    ASSUME CchInv, NEW r \in CchRequests, cache_set(r)
    PROVE  CchInv'
  <1> DEFINE v == cch[r].version
  <1>1. /\ cch[r].pc = "set" /\ UNCHANGED <<now, replaced>> /\ cch' = [cch EXCEPT ![r] = CchIdle]
        /\ entry' = [version |-> v, expires |-> now + Ttl]
        /\ served' = [version |-> v, at |-> now]
    BY DEF cache_set
  <1>2. MaxTime \in Nat /\ Ttl \in Nat /\ MaxLoad \in Nat /\ now \in Nat
    BY CacheAssumption DEF CchInv, CchTypeOK
  <1>3. /\ cch[r].since \in Nat /\ now <= cch[r].since + MaxLoad
        /\ v \in Versions /\ v # Absent /\ cch[r].since <= replaced[v]
    BY <1>1 DEF CchInv, CchTypeOK, LookupOK
  <1>4. replaced[v] \in Nat
    BY <1>3 DEF CchInv, VersionsCounted, Versions
  <1>5. entry'.version = v /\ entry'.expires = now + Ttl /\ served'.version = v /\ served'.at = now
    BY <1>1
  <1>6. VersionsCounted'
    BY <1>1 DEF CchInv, VersionsCounted, Never
  <1>7. LookupOK(CchIdle)
    BY DEF LookupOK, CchIdle
  <1> HIDE DEF v
  <1>8. CchTypeOK'
    BY <1>1, <1>7 DEF CchInv, CchTypeOK, LookupOK, Versions
  <1>9. (EntryFresh /\ ServedOK /\ CacheFresh)'
    BY <1>1, <1>2, <1>3, <1>4, <1>5 DEF EntryFresh, ServedOK, CacheFresh, Versions
  <1> QED BY <1>6, <1>8, <1>9 DEF CchInv

LEMMA NextCch == CchInv /\ [CchNext]_cchVars => CchInv'
  <1> SUFFICES ASSUME CchInv, [CchNext]_cchVars PROVE CchInv'
    OBVIOUS
  <1>1. ASSUME NEW r \in CchRequests, CchCrash(r)
        PROVE  CchInv'
    <2>1. LookupOK(CchIdle)
      BY DEF LookupOK, CchIdle
    <2> QED BY <1>1, <2>1 DEF CchCrash, CchInv, CchTypeOK, LookupOK, Versions, VersionsCounted,
                              EntryFresh, ServedOK, CacheFresh, Never
  <1>2. CASE UNCHANGED cchVars
    BY <1>2 DEF cchVars, CchInv, CchTypeOK, LookupOK, Versions, VersionsCounted,
                EntryFresh, ServedOK, CacheFresh, Never
  <1> QED BY <1>1, <1>2, TickCch, RowChangesCch, CacheGetCch, CachedCch, CacheSetCch DEF CchNext

-----------------------------------------------------------------------------
(* Peer aggregates *)

Sized == {"<100K", "100K-500K"}
Sample == [user : Members, bucket : Sized \cup {"unknown"}, ytd : BOOLEAN, sectors : BOOLEAN, changed : BOOLEAN]

\* What has been read of a user, in the order of the SELECTs.
AggStates ==
    [pc : {"summarise"}, users : SUBSET Members, left : SUBSET Members, samples : SUBSET Sample]
    \cup [pc : {"jan1"}, users : SUBSET Members, left : SUBSET Members, samples : SUBSET Sample,
          user : Members, bucket : Sized, changed : BOOLEAN]
    \cup [pc : {"holdings"}, users : SUBSET Members, left : SUBSET Members, samples : SUBSET Sample,
          user : Members, bucket : Sized, changed : BOOLEAN, ytd : BOOLEAN]

\* Only a user with holdings has sectors or a return; one without sectors then traded meanwhile.
SampleOK(s) ==
    /\ s.sectors \/ s.ytd => s.bucket # "unknown"
    /\ s.bucket # "unknown" => s.sectors \/ s.changed

\* One sample per user who had opted in and is not still to come.
SamplesOK ==
    agg.pc # "idle" =>
        /\ agg \in AggStates
        /\ IsFiniteSet(agg.samples) /\ agg.left \subseteq agg.users
        /\ \A s \in agg.samples : s.user \in agg.users \ agg.left /\ SampleOK(s)
        /\ \A s, t \in agg.samples : s.user = t.user => s = t

\* The user being read has no sample yet; he still holds something, or traded meanwhile.
BeingRead ==
    agg.pc \in {"jan1", "holdings"} =>
        /\ agg.user \in agg.users \ agg.left
        /\ \A s \in agg.samples : s.user # agg.user
        /\ worth[agg.user] > 0 \/ agg.changed

RowAnonymous(b) ==
    /\ peers[b].sample_count = Cardinality(peers[b].users)
    /\ peers[b].sample_count >= MinSamples
    /\ peers[b].consented
    /\ peers[b].sector_allocation \/ peers[b].median_ytd_return => b # "unknown"
    /\ b # "unknown" => peers[b].sector_allocation \/ peers[b].changed

PeerInv ==
    /\ shares \subseteq Members /\ worth \in [Members -> Nat]
    /\ SamplesOK /\ BeingRead
    /\ \A b \in DOMAIN peers : RowAnonymous(b)

\* A panel looks up a bucket of users with holdings.
LEMMA PeersFromRows == PeerInv => PeersAnonymous
  <1> SUFFICES ASSUME PeerInv PROVE PeersAnonymous
    OBVIOUS
  <1>1. ASSUME NEW u \in Members, panel(u) = "shown" PROVE peers[size_bucket(worth[u])].changed
    <2>1. size_bucket(worth[u]) # "unknown"
      BY DEF size_bucket
    <2>2. size_bucket(worth[u]) \in DOMAIN peers /\ ~peers[size_bucket(worth[u])].sector_allocation
      BY <1>1 DEF panel
    <2> QED BY <2>1, <2>2 DEF PeerInv, RowAnonymous
  <1> QED BY <1>1 DEF PeersAnonymous, PeerInv, RowAnonymous

LEMMA InitPeer == PeerInit => PeerInv
  <1> SUFFICES ASSUME PeerInit PROVE PeerInv
    OBVIOUS
  <1>1. agg.pc = "idle"
    BY DEF PeerInit, AggIdle
  <1> QED BY <1>1 DEF PeerInit, PeerInv, SamplesOK, BeingRead

LEMMA LoadSamples == PeerInv /\ _load_samples => PeerInv'
  <1> SUFFICES ASSUME PeerInv, _load_samples PROVE PeerInv'
    OBVIOUS
  <1>1. /\ agg' = [pc |-> "summarise", users |-> shares, left |-> shares, samples |-> {}]
        /\ UNCHANGED <<shares, worth, peers>>
    BY DEF _load_samples
  <1>2. agg'.pc = "summarise" /\ agg'.samples = {} /\ agg'.users = shares /\ agg'.left = shares
    BY <1>1
  <1>3. agg' \in AggStates
    BY <1>1 DEF PeerInv, AggStates
  <1>4. IsFiniteSet({})
    BY FS_EmptySet
  <1>5. SamplesOK' /\ BeingRead'
    BY <1>2, <1>3, <1>4 DEF SamplesOK, BeingRead
  <1> QED BY <1>1, <1>5 DEF PeerInv, RowAnonymous

\* The run as it stands, by its stage.
LEMMA AggStage ==
    ASSUME PeerInv
    PROVE  /\ agg.pc = "summarise" =>
                agg \in [pc : {"summarise"}, users : SUBSET Members, left : SUBSET Members, samples : SUBSET Sample]
           /\ agg.pc = "jan1" =>
                agg \in [pc : {"jan1"}, users : SUBSET Members, left : SUBSET Members, samples : SUBSET Sample,
                         user : Members, bucket : Sized, changed : BOOLEAN]
           /\ agg.pc = "holdings" =>
                agg \in [pc : {"holdings"}, users : SUBSET Members, left : SUBSET Members, samples : SUBSET Sample,
                         user : Members, bucket : Sized, changed : BOOLEAN, ytd : BOOLEAN]
  <1>1. agg.pc # "idle" => agg \in AggStates
    BY DEF PeerInv, SamplesOK
  <1> QED BY <1>1 DEF AggStates

\* A sample more, of a user who is not to come and has none.
LEMMA SampleMore ==
    ASSUME PeerInv, agg.pc # "idle", NEW x \in Sample, SampleOK(x),
           x.user \in agg.users, \A s \in agg.samples : s.user # x.user,
           agg' \in AggStates, agg'.pc = "summarise", agg'.users = agg.users, agg'.left = agg.left \ {x.user},
           agg'.samples = agg.samples \cup {x}, UNCHANGED <<shares, worth, peers>>
    PROVE  PeerInv'
  <1>1. /\ IsFiniteSet(agg.samples) /\ agg.left \subseteq agg.users
        /\ \A s \in agg.samples : s.user \in agg.users \ agg.left /\ SampleOK(s)
        /\ \A s, t \in agg.samples : s.user = t.user => s = t
    BY DEF PeerInv, SamplesOK
  <1>2. IsFiniteSet(agg'.samples)
    BY <1>1, FS_AddElement
  <1>3. \A s \in agg'.samples : s.user \in agg'.users \ agg'.left /\ SampleOK(s)
    BY <1>1
  <1>4. \A s, t \in agg'.samples : s.user = t.user => s = t
    BY <1>1
  <1>5. SamplesOK'
    BY <1>1, <1>2, <1>3, <1>4 DEF SamplesOK, SampleOK
  <1>6. BeingRead'
    BY DEF BeingRead
  <1> QED BY <1>5, <1>6 DEF PeerInv, RowAnonymous

\* The run goes on with the samples it has.
LEMMA SamplesKept ==
    ASSUME PeerInv, agg.pc # "idle", agg' \in AggStates, agg'.users = agg.users,
           agg'.left \subseteq agg.left, agg'.samples = agg.samples
    PROVE  SamplesOK'
  <1>1. /\ IsFiniteSet(agg.samples) /\ agg.left \subseteq agg.users
        /\ \A s \in agg.samples : s.user \in agg.users \ agg.left /\ SampleOK(s)
        /\ \A s, t \in agg.samples : s.user = t.user => s = t
    BY DEF PeerInv, SamplesOK
  <1> QED BY <1>1 DEF SamplesOK, SampleOK

\* The first SELECT about a user.
LEMMA Summarise ==
    ASSUME PeerInv, NEW u \in Members, _summarise_portfolio(u)
    PROVE  PeerInv'
  <1> DEFINE b == _size_bucket(worth[u])
  <1>1. agg.pc = "summarise" /\ u \in agg.left /\ UNCHANGED <<shares, worth, peers>>
    BY DEF _summarise_portfolio
  <1>2. agg \in [pc : {"summarise"}, users : SUBSET Members, left : SUBSET Members, samples : SUBSET Sample]
    BY <1>1, AggStage
  <1>3. /\ agg.left \subseteq agg.users
        /\ \A s \in agg.samples : s.user \in agg.users \ agg.left
    BY <1>1 DEF PeerInv, SamplesOK
  <1>4. worth[u] \in Nat
    BY DEF PeerInv
  <1>5. CASE worth[u] > 0
    <2> DEFINE x == [pc |-> "jan1", users |-> agg.users, left |-> agg.left \ {u}, samples |-> agg.samples,
                     user |-> u, bucket |-> b, changed |-> FALSE]
    <2>1. agg' = x
      BY <1>5 DEF _summarise_portfolio
    <2>2. b \in Sized
      BY <1>4, <1>5 DEF _size_bucket, size_bucket, Sized
    <2> HIDE DEF b
    <2>3. agg' \in AggStates
      BY <1>2, <2>1, <2>2 DEF AggStates
    <2>4. /\ agg'.pc = "jan1" /\ agg'.users = agg.users /\ agg'.left = agg.left \ {u}
          /\ agg'.samples = agg.samples /\ agg'.user = u
      BY <2>1
    <2>5. SamplesOK'
      BY <1>1, <2>3, <2>4, SamplesKept
    <2>6. BeingRead'
      BY <1>1, <1>3, <1>5, <2>4 DEF BeingRead
    <2> QED BY <1>1, <2>5, <2>6 DEF PeerInv, RowAnonymous
  <1>6. CASE ~(worth[u] > 0)
    <2> DEFINE x == [user |-> u, bucket |-> b, ytd |-> FALSE, sectors |-> FALSE, changed |-> FALSE]
    <2>1. agg' = [agg EXCEPT !.left = agg.left \ {u}, !.samples = agg.samples \cup {x}]
      BY <1>2, <1>6 DEF _summarise_portfolio
    <2>2. b = "unknown"
      BY <1>4, <1>6 DEF _size_bucket
    <2>3. x \in Sample /\ SampleOK(x) /\ x.user = u
      BY <2>2 DEF Sample, SampleOK
    <2> HIDE DEF x
    <2>4. agg' \in [pc : {"summarise"}, users : SUBSET Members, left : SUBSET Members, samples : SUBSET Sample]
      BY <1>2, <2>1, <2>3
    <2>5. agg' \in AggStates
      BY <2>4 DEF AggStates
    <2>6. /\ agg'.pc = "summarise" /\ agg'.users = agg.users /\ agg'.left = agg.left \ {u}
          /\ agg'.samples = agg.samples \cup {x}
      BY <1>2, <2>1
    <2> QED BY <1>1, <1>3, <2>3, <2>5, <2>6, SampleMore
  <1> QED BY <1>5, <1>6

\* The second.
LEMMA January == PeerInv /\ JanuaryValue => PeerInv'
  <1> SUFFICES ASSUME PeerInv, JanuaryValue PROVE PeerInv'
    OBVIOUS
  <1> DEFINE known == worth[agg.user] > 0
  <1>1. /\ agg.pc = "jan1" /\ UNCHANGED <<shares, worth, peers>>
        /\ agg' = [pc |-> "holdings", users |-> agg.users, left |-> agg.left, samples |-> agg.samples,
                   user |-> agg.user, bucket |-> agg.bucket, changed |-> agg.changed, ytd |-> known]
    BY DEF JanuaryValue
  <1>2. agg \in [pc : {"jan1"}, users : SUBSET Members, left : SUBSET Members, samples : SUBSET Sample,
                 user : Members, bucket : Sized, changed : BOOLEAN]
    BY <1>1, AggStage
  <1>3. known \in BOOLEAN
    BY <1>2 DEF PeerInv
  <1>4. /\ agg.user \in agg.users \ agg.left /\ \A s \in agg.samples : s.user # agg.user
        /\ worth[agg.user] > 0 \/ agg.changed
    BY <1>1 DEF PeerInv, BeingRead
  <1> HIDE DEF known
  <1>5. agg' \in AggStates
    BY <1>1, <1>2, <1>3 DEF AggStates
  <1>6. /\ agg'.pc = "holdings" /\ agg'.users = agg.users /\ agg'.left = agg.left
        /\ agg'.samples = agg.samples /\ agg'.user = agg.user /\ agg'.changed = agg.changed
    BY <1>1
  <1>7. SamplesOK'
    BY <1>1, <1>5, <1>6, SamplesKept
  <1>8. BeingRead'
    BY <1>1, <1>4, <1>6 DEF BeingRead
  <1> QED BY <1>1, <1>7, <1>8 DEF PeerInv, RowAnonymous

\* The third, and the sample of the user.
LEMMA HoldingsPeer == PeerInv /\ Holdings => PeerInv'
  <1> SUFFICES ASSUME PeerInv, Holdings PROVE PeerInv'
    OBVIOUS
  <1> DEFINE held == worth[agg.user] > 0
             x == [user |-> agg.user, bucket |-> agg.bucket, ytd |-> agg.ytd, sectors |-> held,
                   changed |-> agg.changed]
  <1>1. /\ agg.pc = "holdings" /\ UNCHANGED <<shares, worth, peers>>
        /\ agg' = [pc |-> "summarise", users |-> agg.users, left |-> agg.left, samples |-> agg.samples \cup {x}]
    BY DEF Holdings
  <1>2. agg \in [pc : {"holdings"}, users : SUBSET Members, left : SUBSET Members, samples : SUBSET Sample,
                 user : Members, bucket : Sized, changed : BOOLEAN, ytd : BOOLEAN]
    BY <1>1, AggStage
  <1>3. held \in BOOLEAN
    BY <1>2 DEF PeerInv
  <1>4. /\ agg.user \in agg.users \ agg.left /\ \A s \in agg.samples : s.user # agg.user
        /\ held \/ agg.changed
    BY <1>1 DEF PeerInv, BeingRead
  <1> HIDE DEF held
  <1>5. x \in Sample /\ x.user = agg.user
    BY <1>2, <1>3 DEF Sample, Sized
  <1>6. SampleOK(x)
    <2>1. x.bucket # "unknown" /\ (x.sectors <=> held) /\ (x.changed <=> agg.changed)
      BY <1>2, <1>3 DEF Sized
    <2> QED BY <1>4, <2>1 DEF SampleOK
  <1> HIDE DEF x
  <1>7. agg' \in AggStates
    BY <1>1, <1>2, <1>5 DEF AggStates
  <1>8. /\ agg'.pc = "summarise" /\ agg'.users = agg.users /\ agg'.left = agg.left
        /\ agg'.samples = agg.samples \cup {x}
    BY <1>1
  <1>9. agg.left = agg.left \ {x.user}
    BY <1>4, <1>5
  <1> QED BY <1>1, <1>4, <1>5, <1>6, <1>7, <1>8, <1>9, SampleMore

\* A user trades, perhaps the one being read.
LEMMA TradesPeer ==
    ASSUME PeerInv, NEW u \in Members, NEW value \in Worths, PortfolioChanges(u, value)
    PROVE  PeerInv'
  <1>1. /\ worth' = [worth EXCEPT ![u] = value] /\ UNCHANGED <<shares, peers>>
        /\ agg' = IF agg.pc \in {"jan1", "holdings"} /\ agg.user = u THEN [agg EXCEPT !.changed = TRUE] ELSE agg
    BY DEF PortfolioChanges
  <1>2. worth' \in [Members -> Nat] /\ \A w \in Members \ {u} : worth'[w] = worth[w]
    BY <1>1, PeerAssumption DEF PeerInv
  <1>3. CASE agg.pc \in {"jan1", "holdings"} /\ agg.user = u
    <2>1. agg' = [agg EXCEPT !.changed = TRUE]
      BY <1>1, <1>3
    <2>2. /\ agg' \in AggStates /\ agg'.pc = agg.pc /\ agg'.users = agg.users /\ agg'.left = agg.left
          /\ agg'.samples = agg.samples /\ agg'.user = agg.user /\ agg'.changed = TRUE
      <3>1. CASE agg.pc = "jan1"
        BY <2>1, <3>1, AggStage DEF AggStates
      <3>2. CASE agg.pc = "holdings"
        BY <2>1, <3>2, AggStage DEF AggStates
      <3> QED BY <1>3, <3>1, <3>2
    <2>3. SamplesOK'
      BY <1>3, <2>2, SamplesKept
    <2>4. BeingRead'
      BY <1>3, <2>2 DEF PeerInv, BeingRead
    <2> QED BY <1>1, <1>2, <2>3, <2>4 DEF PeerInv, RowAnonymous
  <1>4. CASE ~(agg.pc \in {"jan1", "holdings"} /\ agg.user = u)
    <2>1. agg' = agg
      BY <1>1, <1>4
    <2>2. SamplesOK'
      BY <2>1 DEF PeerInv, SamplesOK, SampleOK
    <2>3. agg.pc \in {"jan1", "holdings"} => agg.user \in Members \ {u}
      BY <1>4, AggStage
    <2>4. BeingRead'
      BY <1>2, <2>1, <2>3 DEF PeerInv, BeingRead
    <2> QED BY <1>1, <1>2, <2>2, <2>4 DEF PeerInv, RowAnonymous
  <1> QED BY <1>3, <1>4

\* A bucket's samples are as many as their users.
LEMMA SampledUsers ==
    ASSUME PeerInv, agg.pc = "summarise", NEW b
    PROVE  Cardinality({s.user : s \in Grouped(b)}) = Cardinality(Grouped(b))
  <1> DEFINE G == Grouped(b)
             U == {s.user : s \in G}
             f == [s \in G |-> s.user]
  <1>1. G \subseteq agg.samples /\ IsFiniteSet(G)
    BY FS_Subset DEF Grouped, PeerInv, SamplesOK
  <1>2. \A s, t \in G : s.user = t.user => s = t
    BY <1>1 DEF PeerInv, SamplesOK
  <1> HIDE DEF G
  <1>3. f \in Bijection(G, U)
    <2>1. f \in [G -> U]
      OBVIOUS
    <2>2. \A s, t \in G : f[s] = f[t] => s = t
      BY <1>2
    <2>3. \A w \in U : \E s \in G : f[s] = w
      OBVIOUS
    <2> HIDE DEF f, U
    <2> QED BY <2>1, <2>2, <2>3 DEF Bijection, Injection, Surjection, IsInjective
  <1>4. ExistsBijection(G, U)
    BY <1>3 DEF ExistsBijection
  <1> HIDE DEF f, U
  <1>5. Cardinality(U) = Cardinality(G)
    BY <1>1, <1>4, FS_Bijection
  <1> QED BY <1>5 DEF G, U

LEMMA Aggregate == PeerInv /\ run_aggregation => PeerInv'
  <1> SUFFICES ASSUME PeerInv, run_aggregation PROVE PeerInv'
    OBVIOUS
  <1>1. /\ agg.pc = "summarise" /\ agg' = AggIdle /\ UNCHANGED <<shares, worth>>
        /\ peers' = [b \in Published \cup DOMAIN peers |->
                        IF b \in Published THEN _aggregate_bucket(b) ELSE peers[b]]
    BY DEF run_aggregation
  <1>2. ASSUME NEW b \in Published PROVE RowAnonymous(b)'
    <2> DEFINE row == _aggregate_bucket(b)
    <2>1. /\ row.sample_count = Cardinality(Grouped(b))
          /\ row.users = {s.user : s \in Grouped(b)}
          /\ row.consented = ({s.user : s \in Grouped(b)} \subseteq agg.users)
          /\ row.sector_allocation = (\E s \in Grouped(b) : s.sectors)
          /\ row.median_ytd_return = (\E s \in Grouped(b) : s.ytd)
          /\ row.changed = (\A s \in Grouped(b) : s.changed)
      BY DEF _aggregate_bucket
    <2> HIDE DEF row
    <2>2. peers'[b] = row
      BY <1>1 DEF row
    <2>3. PICK t \in agg.samples : t.bucket = b /\ Cardinality(Grouped(b)) >= MinSamples
      BY DEF Published
    <2>4. t \in Grouped(b) /\ \A s \in Grouped(b) : s \in agg.samples /\ s.bucket = b
      BY <2>3 DEF Grouped
    <2>5. \A s \in agg.samples :
            /\ s.user \in agg.users
            /\ s.sectors \/ s.ytd => s.bucket # "unknown"
            /\ s.bucket # "unknown" => s.sectors \/ s.changed
      BY <1>1 DEF PeerInv, SamplesOK, SampleOK
    <2>6. Cardinality({s.user : s \in Grouped(b)}) = Cardinality(Grouped(b))
      BY <1>1, SampledUsers
    <2>7. /\ row.consented
          /\ row.sector_allocation \/ row.median_ytd_return => b # "unknown"
          /\ b # "unknown" => row.sector_allocation \/ row.changed
      BY <2>1, <2>4, <2>5
    <2>8. row.sample_count = Cardinality(row.users) /\ row.sample_count >= MinSamples
      BY <2>1, <2>3, <2>6
    <2> QED BY <2>2, <2>7, <2>8 DEF RowAnonymous
  <1>3. ASSUME NEW b \in DOMAIN peers, b \notin Published PROVE RowAnonymous(b)'
    BY <1>1, <1>3 DEF PeerInv, RowAnonymous
  <1>4. agg'.pc = "idle" /\ DOMAIN peers' = Published \cup DOMAIN peers
    BY <1>1 DEF AggIdle
  <1> QED BY <1>1, <1>2, <1>3, <1>4 DEF PeerInv, SamplesOK, BeingRead

LEMMA NextPeer == PeerInv /\ [PeerNext]_peerVars => PeerInv'
  <1> SUFFICES ASSUME PeerInv, [PeerNext]_peerVars PROVE PeerInv'
    OBVIOUS
  <1>1. ASSUME NEW u \in Members, share_anonymously(u)
        PROVE  PeerInv'
    BY <1>1 DEF share_anonymously, PeerInv, SamplesOK, SampleOK, BeingRead, RowAnonymous
  <1>3. CASE AggCrash
    <2>1. agg'.pc = "idle" /\ UNCHANGED <<shares, worth, peers>>
      BY <1>3 DEF AggCrash, AggIdle
    <2> QED BY <2>1 DEF PeerInv, SamplesOK, BeingRead, RowAnonymous
  <1>4. CASE UNCHANGED peerVars
    BY <1>4 DEF peerVars, PeerInv, SamplesOK, SampleOK, BeingRead, RowAnonymous
  <1> QED BY <1>1, <1>3, <1>4, LoadSamples, Summarise, January, HoldingsPeer, TradesPeer, Aggregate DEF PeerNext

-----------------------------------------------------------------------------
(* Alerts *)

\* What a stored or pending row says is so of its bar.
AlertOK(a) ==
    /\ a.type = "pump" => 20000 * (a.bar.open - a.bar.close) <= a.bar.open
    /\ a.type = "dump" => a.bar.close < a.bar.open
    /\ a.context => a.severity # "high"
    /\ a.severity = "low" => a.context /\ a.bar.close # a.bar.open
    /\ a.day < a.date => a.gap

AlrtInv ==
    /\ days \in Seq(DayBars) /\ Len(days) >= 1
    /\ alrt = [r \in AlrtRequests |-> alrt[r]]
    /\ \A r \in AlrtRequests : alrt[r].pc = "insert" => AlertOK(alrt[r].row)
    /\ AlertsSound

LEMMA InitAlrt == AlrtInit => AlrtInv
  <1> SUFFICES ASSUME AlrtInit PROVE AlrtInv
    OBVIOUS
  <1>1. PICK bar \in DayBars : days = [d \in 1 .. VolumeDays + 1 |-> bar]
    BY DEF AlrtInit
  <1>2. VolumeDays + 1 \in Nat /\ VolumeDays + 1 >= 1
    BY VolumeAssumption
  <1>3. days \in Seq(DayBars) /\ Len(days) = VolumeDays + 1
    BY <1>1, <1>2
  <1>4. \A r \in AlrtRequests : alrt[r].pc = "idle"
    BY DEF AlrtInit, AlrtIdle
  <1> QED BY <1>2, <1>3, <1>4 DEF AlrtInit, AlrtInv, AlertsSound

LEMMA BarsAlrt == AlrtInv /\ (BarArrives \/ BarCorrected) => AlrtInv'
  <1> SUFFICES ASSUME AlrtInv, BarArrives \/ BarCorrected PROVE AlrtInv'
    OBVIOUS
  <1>1. days' \in Seq(DayBars) /\ Len(days') >= 1
    <2>1. ASSUME NEW bar \in DayBars, days' = Append(days, bar)
          PROVE  days' \in Seq(DayBars) /\ Len(days') >= 1
      BY <2>1 DEF AlrtInv
    <2>2. ASSUME NEW bar \in DayBars, days' = [days EXCEPT ![Len(days)] = bar]
          PROVE  days' \in Seq(DayBars) /\ Len(days') >= 1
      BY <2>2 DEF AlrtInv
    <2> QED BY <2>1, <2>2 DEF BarArrives, BarCorrected
  <1>2. UNCHANGED <<alerts, flagged, alrt>>
    BY DEF BarArrives, BarCorrected
  <1> QED BY <1>1, <1>2 DEF AlrtInv, AlertOK, AlertsSound

\* The newest complete day: every later one has a missing price.
LEMMA NewestComplete ==
    ASSUME AlrtInv, Cardinality(Complete) >= VolumeDays + 2
    PROVE  /\ Max(Complete) \in Complete
           /\ Max(Complete) < Len(days) => ~days[Len(days)].complete
  <1>1. Complete # {}
    BY VolumeAssumption, FS_EmptySet
  <1>2. Complete \subseteq 1 .. Len(days) /\ Len(days) \in Nat /\ DOMAIN days = 1 .. Len(days)
    BY DEF Complete, AlrtInv
  <1>3. Complete \subseteq Nat /\ \A d \in Complete : d <= Len(days)
    BY <1>2
  <1>4. \E m \in Complete : \A d \in Complete : d <= m
    BY <1>1, <1>2, <1>3, BoundedHasMax
  <1>5. \E m \in Complete : \A d \in Complete : m >= d
    BY <1>3, <1>4
  <1>6. Max(Complete) \in Complete /\ \A d \in Complete : Max(Complete) >= d
    BY <1>5 DEF Max
  <1>7. Len(days) \in DOMAIN days
    BY <1>2 DEF AlrtInv
  <1>8. days[Len(days)].complete => Len(days) \in Complete
    BY <1>7 DEF Complete
  <1> DEFINE m == Max(Complete)
  <1>9. m \in Nat /\ (days[Len(days)].complete => m >= Len(days))
    BY <1>3, <1>6, <1>8
  <1> HIDE DEF m
  <1>10. m < Len(days) => ~days[Len(days)].complete
    BY <1>2, <1>9
  <1> QED BY <1>6, <1>10 DEF m

\* The rule: open and close differ by its three percent, in its direction.
LEMMA RuleDirection ==
    ASSUME NEW bar \in DayBars, NEW volumes
    PROVE  LET rule == detect_rule(bar, volumes)
           IN  /\ rule \in {"none", "pump", "dump"}
               /\ rule = "pump" => bar.close > bar.open
               /\ rule = "dump" => bar.close < bar.open
  <1>1. bar.open \in Nat /\ bar.close \in Nat
    BY AlrtAssumption
  <1> QED BY <1>1 DEF detect_rule

LEMMA EvaluateAlrt ==
    ASSUME AlrtInv, NEW r \in AlrtRequests, NEW context \in BOOLEAN, NEW strongPulse \in BOOLEAN,
           evaluate_today(r, context, strongPulse)
    PROVE  AlrtInv'
  <1> DEFINE newest == Max(Complete)
             bar == days[newest]
             rule == detect_rule(bar, MapThenSumSet(LAMBDA d : days[d].volume, Baseline(newest)))
             severity == escalate_severity(rule # "none", bar.score, context, strongPulse)
             type == IF rule # "none" THEN rule ELSE IF price_change_pct_sign(bar) >= 0 THEN "pump" ELSE "dump"
             row == [date |-> Len(days), day |-> newest, severity |-> severity, type |-> type,
                     context |-> context, bar |-> bar, gap |-> ~days[Len(days)].complete]
             x == [pc |-> "insert", rule |-> rule, row |-> row]
  <1>1. /\ Cardinality(Complete) >= VolumeDays + 2 /\ UNCHANGED <<days, alerts, flagged>>
        /\ IF WorthStoring(rule, bar.score, severity) THEN alrt' = [alrt EXCEPT ![r] = x] ELSE UNCHANGED alrt
    BY DEF evaluate_today
  <1>2. newest \in Complete /\ (newest < Len(days) => ~days[Len(days)].complete)
    BY <1>1, NewestComplete
  <1>3. bar \in DayBars
    BY <1>2 DEF Complete, AlrtInv
  <1>4. bar.open \in Nat /\ bar.close \in Nat /\ bar.score \in Nat
    BY <1>3, AlrtAssumption
  <1> HIDE DEF newest, bar
  <1>5. rule \in {"none", "pump", "dump"} /\ (rule = "pump" => bar.close > bar.open) /\ (rule = "dump" => bar.close < bar.open)
    BY <1>3, RuleDirection
  <1> HIDE DEF rule
  <1>6. /\ context => severity # "high"
        /\ WorthStoring(rule, bar.score, severity) /\ severity = "low" => context /\ rule # "none"
    BY DEF escalate_severity, WorthStoring
  <1> HIDE DEF severity
  <1>7. /\ type = "pump" => 20000 * (bar.open - bar.close) <= bar.open
        /\ type = "dump" => bar.close < bar.open
    BY <1>4, <1>5 DEF price_change_pct_sign
  <1>8. /\ row.type = type /\ row.bar = bar /\ row.context = context /\ row.severity = severity
        /\ row.day = newest /\ row.date = Len(days) /\ row.gap = ~days[Len(days)].complete
    OBVIOUS
  <1>9. x.row = row
    OBVIOUS
  <1> HIDE DEF type, row, x
  <1>10. WorthStoring(rule, bar.score, severity) => AlertOK(row)
    <2>1. rule # "none" => bar.close # bar.open
      BY <1>4, <1>5
    <2> DEFINE little(b) == 20000 * (b.open - b.close) <= b.open
    <2>2. type = "pump" => little(bar)
      BY <1>7
    <2>3. row.type = "pump" => little(row.bar)
      BY <1>8, <2>2
    <2>4. (row.type = "dump" => row.bar.close < row.bar.open)
      BY <1>7, <1>8
    <2>5. WorthStoring(rule, bar.score, severity) =>
            /\ row.context => row.severity # "high"
            /\ row.severity = "low" => row.context /\ row.bar.close # row.bar.open
            /\ row.day < row.date => row.gap
      BY <1>2, <1>6, <1>8, <2>1
    <2> QED BY <2>3, <2>4, <2>5 DEF AlertOK
  <1>11. \A q \in AlrtRequests : alrt'[q].pc = "insert" => AlertOK(alrt'[q].row)
    BY <1>1, <1>9, <1>10 DEF AlrtInv
  <1>12. alrt' = [q \in AlrtRequests |-> alrt'[q]]
    BY <1>1 DEF AlrtInv
  <1> QED BY <1>1, <1>11, <1>12 DEF AlrtInv, AlertOK, AlertsSound

\* The date is unique; whoever comes second answers with the row of the first.
LEMMA InsertAlrt ==
    ASSUME AlrtInv, NEW r \in AlrtRequests, InsertAlert(r)
    PROVE  AlrtInv'
  <1> DEFINE row == alrt[r].row
  <1>1. /\ alrt[r].pc = "insert" /\ alrt' = [alrt EXCEPT ![r] = AlrtIdle] /\ days' = days
        /\ alerts' = IF \E a \in alerts : a.date = row.date THEN alerts ELSE alerts \cup {row}
        /\ flagged' = flagged \/ flagged' = flagged \cup {row.date}
    BY DEF InsertAlert
  <1>2. AlertOK(row)
    BY <1>1 DEF AlrtInv
  <1> HIDE DEF row
  <1>3. \A a \in alerts' : AlertOK(a)
    BY <1>1, <1>2 DEF AlrtInv, AlertsSound, AlertOK
  <1>4. \A a, b \in alerts' : a.date = b.date => a = b
    BY <1>1 DEF AlrtInv, AlertsSound
  <1>5. flagged' \subseteq {a.date : a \in alerts'}
    BY <1>1 DEF AlrtInv, AlertsSound
  <1>6. AlertsSound'
    BY <1>3, <1>4, <1>5 DEF AlertsSound, AlertOK
  <1>7. \A q \in AlrtRequests : alrt'[q].pc = "insert" => alrt'[q] = alrt[q]
    BY <1>1 DEF AlrtInv, AlrtIdle
  <1>8. alrt' = [q \in AlrtRequests |-> alrt'[q]]
    BY <1>1 DEF AlrtInv
  <1> QED BY <1>1, <1>6, <1>7, <1>8 DEF AlrtInv, AlertOK

LEMMA NextAlrt == AlrtInv /\ [AlrtNext]_alrtVars => AlrtInv'
  <1> SUFFICES ASSUME AlrtInv, [AlrtNext]_alrtVars PROVE AlrtInv'
    OBVIOUS
  <1>1. ASSUME NEW r \in AlrtRequests, AlrtCrash(r)
        PROVE  AlrtInv'
    <2>1. UNCHANGED <<days, alerts, flagged>> /\ alrt' = [alrt EXCEPT ![r] = AlrtIdle]
      BY <1>1 DEF AlrtCrash
    <2>2. \A q \in AlrtRequests : alrt'[q].pc = "insert" => alrt'[q] = alrt[q]
      BY <2>1 DEF AlrtInv, AlrtIdle
    <2>3. alrt' = [q \in AlrtRequests |-> alrt'[q]]
      BY <2>1 DEF AlrtInv
    <2> QED BY <2>1, <2>2, <2>3 DEF AlrtInv, AlertOK, AlertsSound
  <1>2. CASE UNCHANGED alrtVars
    BY <1>2 DEF alrtVars, AlrtInv, AlertOK, AlertsSound
  <1> QED BY <1>1, <1>2, BarsAlrt, EvaluateAlrt, InsertAlrt DEF AlrtNext

-----------------------------------------------------------------------------
(* Macro indicators *)

Observation == [indicator : {"kibor", "forex", "sbp_policy_rate"}, date : Int, value : MacValues]
PageRow == [date : Int, value : MacValues, clean : BOOLEAN]

LEMMA SeqMonotonic ==
    ASSUME NEW S, NEW T, S \subseteq T, NEW q \in Seq(S)
    PROVE  q \in Seq(T)
  <1>1. q \in [1 .. Len(q) -> S] /\ Len(q) \in Nat
    OBVIOUS
  <1>2. q \in [1 .. Len(q) -> T]
    BY <1>1
  <1> QED BY <1>1, <1>2

LEMMA SeqElements ==
    ASSUME NEW S, NEW q \in Seq(S)
    PROVE  Range(q) \subseteq S
  <1>1. q \in [1 .. Len(q) -> S]
    OBVIOUS
  <1> QED BY <1>1 DEF Range

\* The rows of a page have been shown for their dates.
PageShown(page) ==
    /\ pages[page] \in Seq(PageRow)
    /\ \A i \in DOMAIN pages[page] : Point(page, pages[page][i].date, pages[page][i].value) \in shown

MacPages ==
    /\ pages \in [kibor : Seq(PageRow), forex : Seq(PageRow), policy : MacValues]
    /\ PageShown("kibor") /\ PageShown("forex")
    /\ Point("sbp_policy_rate", day, pages.policy) \in shown

MacTask ==
    [pc : {"idle", "policy", "dated", "forex", "upsert"}, read : Seq(shown), points : Seq(Datable),
     written : Seq(Datable), aborted : BOOLEAN]

\* The page of the policy rate on its way is of today or of the day before.
PageRead ==
    mac.pc = "dated" =>
        \E v \in MacValues, d \in {day - 1, day} : mac.read = <<Point("sbp_policy_rate", d, v)>>

MacTypeOK == day \in Int /\ shown \subseteq Observation /\ mac \in MacTask /\ PageRead

MacInv == MacTypeOK /\ MacPages /\ MacroExact

LEMMA PointFields ==
    ASSUME NEW i, NEW d, NEW v
    PROVE  Point(i, d, v).indicator = i /\ Point(i, d, v).date = d /\ Point(i, d, v).value = v
  BY DEF Point

LEMMA InitMac == MacInit => MacInv
  <1> SUFFICES ASSUME MacInit PROVE MacInv
    OBVIOUS
  <1>1. PICK v \in MacValues : pages = [kibor |-> <<>>, forex |-> <<>>, policy |-> v]
    BY DEF MacInit
  <1>2. pages.kibor = <<>> /\ pages.forex = <<>> /\ pages.policy = v
    BY <1>1
  <1>3. MacPages
    BY <1>1, <1>2 DEF MacInit, MacPages, PageShown
  <1>4. MacTypeOK
    BY <1>2 DEF MacInit, MacTypeOK, MacTask, PageRead, MacIdle, Observation, Point
  <1>5. MacroExact
    BY DEF MacInit, MacroExact
  <1> QED BY <1>3, <1>4, <1>5 DEF MacInv

\* The bank shows more: what was fetched and stored stays among it.
LEMMA ShownGrows ==
    ASSUME MacInv, day' \in Int, shown \subseteq shown', shown' \subseteq Observation, MacPages', PageRead',
           UNCHANGED <<macro, mac>>
    PROVE  MacInv'
  <1>1. mac \in MacTask /\ Datable \subseteq Datable'
    BY DEF MacInv, MacTypeOK, Datable, Point
  <1>2. mac.points \in Seq(Datable) /\ mac.written \in Seq(Datable) /\ mac.read \in Seq(shown)
    BY <1>1 DEF MacTask
  <1>3. mac.points \in Seq(Datable') /\ mac.written \in Seq(Datable') /\ mac.read \in Seq(shown')
    BY <1>1, <1>2, SeqMonotonic
  <1>4. mac' \in MacTask'
    <2> DEFINE F == Datable'
               N == shown'
               G == Datable
               O == shown
    <2>1. mac \in [pc : {"idle", "policy", "dated", "forex", "upsert"}, read : Seq(O), points : Seq(G),
                   written : Seq(G), aborted : BOOLEAN]
      BY <1>1 DEF MacTask
    <2>2. mac.points \in Seq(F) /\ mac.written \in Seq(F) /\ mac.read \in Seq(N)
      BY <1>3
    <2> HIDE DEF F, N, G, O
    <2>3. mac' \in [pc : {"idle", "policy", "dated", "forex", "upsert"}, read : Seq(N), points : Seq(F),
                    written : Seq(F), aborted : BOOLEAN]
      BY <2>1, <2>2
    <2> QED BY <2>3 DEF MacTask, F, N
  <1>5. MacroExact'
    BY <1>1 DEF MacInv, MacroExact, Point
  <1> QED BY <1>4, <1>5 DEF MacInv, MacTypeOK

\* A row more on one page.
LEMMA PageGrows ==
    ASSUME MacInv, NEW page \in {"kibor", "forex"}, NEW row \in PageRow,
           NEW old, old = pages[page], NEW older, older = old \/ (old # <<>> /\ older = Tail(old)),
           NEW top, top = IF older = <<>> THEN <<row>> ELSE <<row, older[1]>>
    PROVE  /\ top \in Seq(PageRow)
           /\ \A i \in DOMAIN top :
                top[i] = row \/ Point(page, top[i].date, top[i].value) \in shown
  <1>1. old \in Seq(PageRow) /\ \A i \in 1 .. Len(old) : Point(page, old[i].date, old[i].value) \in shown
    BY DEF MacInv, MacPages, PageShown
  <1>2. older \in Seq(PageRow) /\ \A i \in 1 .. Len(older) : Point(page, older[i].date, older[i].value) \in shown
    <2>1. CASE older = old
      BY <1>1, <2>1
    <2>2. CASE old # <<>> /\ older = Tail(old)
      <3>1. /\ older \in Seq(PageRow) /\ Len(older) = Len(old) - 1
            /\ \A i \in 1 .. Len(older) : older[i] = old[i + 1] /\ i + 1 \in 1 .. Len(old)
        BY <1>1, <2>2
      <3> QED BY <1>1, <3>1
    <2> QED BY <2>1, <2>2
  <1>3. CASE older = <<>>
    BY <1>3
  <1>4. CASE older # <<>>
    <2>1. 1 \in 1 .. Len(older) /\ older[1] \in PageRow /\ Point(page, older[1].date, older[1].value) \in shown
      BY <1>2, <1>4
    <2>2. top = <<row, older[1]>>
      BY <1>4
    <2> QED BY <2>1, <2>2
  <1> QED BY <1>3, <1>4

LEMMA PublishMac == MacInv /\ Publish => MacInv'
  <1> SUFFICES ASSUME MacInv, Publish PROVE MacInv'
    OBVIOUS
  <1>1. PICK page \in {"kibor", "forex"}, value \in MacValues, clean \in BOOLEAN :
          LET row == [date |-> day, value |-> value, clean |-> clean]
              old == pages[page]
              older == IF old # <<>> /\ old[1].date = day THEN Tail(old) ELSE old
          IN  /\ pages' = [pages EXCEPT ![page] = IF older = <<>> THEN <<row>> ELSE <<row, older[1]>>]
              /\ shown' = shown \cup {Point(page, day, value)}
              /\ UNCHANGED <<day, macro, mac>>
    BY DEF Publish
  <1> DEFINE row == [date |-> day, value |-> value, clean |-> clean]
             old == pages[page]
             older == IF old # <<>> /\ old[1].date = day THEN Tail(old) ELSE old
             top == IF older = <<>> THEN <<row>> ELSE <<row, older[1]>>
  <1>2. /\ pages' = [pages EXCEPT ![page] = top] /\ shown' = shown \cup {Point(page, day, value)}
        /\ UNCHANGED <<day, macro, mac>>
    BY <1>1
  <1>3. row \in PageRow /\ row.date = day /\ row.value = value
    BY DEF PageRow, MacInv, MacTypeOK
  <1>4. older = old \/ (old # <<>> /\ older = Tail(old))
    OBVIOUS
  <1> HIDE DEF row, older
  <1>5. top \in Seq(PageRow) /\ \A i \in DOMAIN top : top[i] = row \/ Point(page, top[i].date, top[i].value) \in shown
    BY <1>3, <1>4, PageGrows
  <1> HIDE DEF old, top
  <1>6. \A i \in DOMAIN top : Point(page, top[i].date, top[i].value) \in shown'
    BY <1>2, <1>3, <1>5
  <1>7. pages \in [kibor : Seq(PageRow), forex : Seq(PageRow), policy : MacValues]
    BY DEF MacInv, MacPages
  <1>8. /\ pages' \in [kibor : Seq(PageRow), forex : Seq(PageRow), policy : MacValues]
        /\ pages'.policy = pages.policy /\ pages'[page] = top
        /\ page = "kibor" => pages'["forex"] = pages["forex"]
        /\ page = "forex" => pages'["kibor"] = pages["kibor"]
    BY <1>2, <1>5, <1>7
  <1>9. PageShown("kibor")' /\ PageShown("forex")'
    BY <1>2, <1>5, <1>6, <1>8 DEF MacInv, MacPages, PageShown
  <1>10. Point("sbp_policy_rate", day, pages.policy)' \in shown'
    <2>1. Point("sbp_policy_rate", day, pages.policy) \in shown
      BY DEF MacInv, MacPages
    <2> QED BY <1>2, <1>8, <2>1 DEF Point
  <1>11. MacPages'
    BY <1>8, <1>9, <1>10 DEF MacPages
  <1>12. shown' \subseteq Observation /\ day' \in Int
    BY <1>2 DEF MacInv, MacTypeOK, Observation, Point
  <1>13. PageRead'
    BY <1>2 DEF MacInv, MacTypeOK, PageRead, Point
  <1> QED BY <1>2, <1>11, <1>12, <1>13, ShownGrows

LEMMA PolicyMac == MacInv /\ (PolicyChanges \/ Midnight) => MacInv'
  <1> SUFFICES ASSUME MacInv, PolicyChanges \/ Midnight PROVE MacInv'
    OBVIOUS
  <1>1. /\ pages \in [kibor : Seq(PageRow), forex : Seq(PageRow), policy : MacValues]
        /\ day \in Int /\ shown \subseteq Observation
    BY DEF MacInv, MacTypeOK, MacPages
  <1>2. /\ day' \in Int /\ UNCHANGED <<macro, mac>>
        /\ pages' \in [kibor : Seq(PageRow), forex : Seq(PageRow), policy : MacValues]
        /\ pages'["kibor"] = pages["kibor"] /\ pages'["forex"] = pages["forex"]
        /\ shown' = shown \cup {Point("sbp_policy_rate", day', pages'.policy)}
    <2>1. CASE PolicyChanges
      BY <1>1, <2>1 DEF PolicyChanges
    <2>2. CASE Midnight
      BY <1>1, <2>2 DEF Midnight
    <2> QED BY <2>1, <2>2
  <1>3. PageShown("kibor")' /\ PageShown("forex")'
    BY <1>2 DEF MacInv, MacPages, PageShown
  <1>4. Point("sbp_policy_rate", day, pages.policy)' \in shown'
    BY <1>2 DEF Point
  <1>5. MacPages'
    BY <1>2, <1>3, <1>4 DEF MacPages
  <1>6. pages'.policy \in MacValues
    BY <1>2
  <1>7. shown' \subseteq Observation
    BY <1>1, <1>2, <1>6 DEF Observation, Point
  <1>8. PageRead'
    <2>1. CASE PolicyChanges
      BY <2>1 DEF PolicyChanges, MacInv, MacTypeOK, PageRead, Point
    <2>2. CASE Midnight /\ mac.pc = "dated"
      <3>1. PICK v \in MacValues, d \in {day - 1, day} : mac.read = <<Point("sbp_policy_rate", d, v)>>
        BY <2>2 DEF MacInv, MacTypeOK, PageRead
      <3>2. mac.read[1].date = d
        BY <3>1 DEF Point
      <3>3. d = day /\ day' = day + 1 /\ mac' = mac
        BY <2>2, <3>2 DEF Midnight
      <3>4. d \in {day' - 1, day'} /\ mac'.read = <<Point("sbp_policy_rate", d, v)>>
        BY <1>1, <3>1, <3>3
      <3> QED BY <3>4 DEF PageRead, Point
    <2>3. CASE Midnight /\ mac.pc # "dated"
      BY <2>3 DEF Midnight, PageRead
    <2> QED BY <2>1, <2>2, <2>3
  <1> QED BY <1>2, <1>5, <1>7, <1>8, ShownGrows

\* The task changes only what it holds, and that may be stored.
LEMMA TaskMac ==
    ASSUME MacInv, UNCHANGED <<day, pages, shown, macro>>, mac' \in MacTask, PageRead'
    PROVE  MacInv'
  <1>1. MacTask' = MacTask
    BY DEF MacTask, Datable, Point
  <1>2. MacTypeOK'
    BY <1>1 DEF MacInv, MacTypeOK
  <1> QED BY <1>2 DEF MacInv, MacPages, PageShown, MacroExact, Datable, Point

\* Points that were shown may be stored.
LEMMA ShownFits == MacInv => shown \subseteq Datable
  BY DEF Datable

\* The first clean row is a row of the page.
LEMMA ParsedShown ==
    ASSUME MacInv
    PROVE  /\ _parse_kibor(pages.kibor) \in Seq(shown)
           /\ _parse(pages.forex) \in Seq(shown)
  <1>1. PageShown("kibor") /\ PageShown("forex")
    BY DEF MacInv, MacPages
  <1>2. _parse_kibor(pages.kibor) \in Seq(shown)
    <2> DEFINE rows == pages["kibor"]
    <2>1. rows \in Seq(PageRow) /\ \A i \in 1 .. Len(rows) : Point("kibor", rows[i].date, rows[i].value) \in shown
      BY <1>1 DEF PageShown
    <2>2. rows # <<>> => 1 \in 1 .. Len(rows)
      BY <2>1
    <2> HIDE DEF rows
    <2>3. _parse_kibor(rows) \in Seq(shown)
      BY <2>1, <2>2 DEF _parse_kibor
    <2> QED BY <2>3 DEF rows
  <1>4. _parse(pages.forex) \in Seq(shown)
    <2> DEFINE rows == pages["forex"]
               clean == {i \in DOMAIN rows : rows[i].clean}
    <2>1. rows \in Seq(PageRow) /\ \A i \in 1 .. Len(rows) : Point("forex", rows[i].date, rows[i].value) \in shown
      BY <1>1 DEF PageShown
    <2>2. CASE clean = {}
      BY <2>2 DEF _parse
    <2>3. CASE clean # {}
      <3>1. clean \subseteq Nat /\ clean \subseteq 1 .. Len(rows)
        BY <2>1
      <3>2. Min(clean) \in clean
        BY <2>3, <3>1, NatSetHasMin DEF Min
      <3>3. Min(clean) \in 1 .. Len(rows)
        BY <3>1, <3>2
      <3>4. _parse(rows) = <<Point("forex", rows[Min(clean)].date, rows[Min(clean)].value)>>
        BY <2>3 DEF _parse
      <3>5. Point("forex", rows[Min(clean)].date, rows[Min(clean)].value) \in shown
        BY <2>1, <3>3
      <3> DEFINE pt == Point("forex", rows[Min(clean)].date, rows[Min(clean)].value)
      <3>6. pt \in shown /\ _parse(pages.forex) = <<pt>>
        BY <3>4, <3>5
      <3> HIDE DEF pt
      <3>7. <<pt>> \in Seq(shown)
        BY <3>6
      <3> QED BY <3>6, <3>7
    <2> QED BY <2>2, <2>3
  <1> QED BY <1>2, <1>4

\* A rate dated when its page arrives: of that day or of the day before.
LEMMA DatedFits ==
    ASSUME MacInv, mac.pc = "dated"
    PROVE  _fetch_policy_rate(mac.read[1]) \in Seq(Datable)
  <1>1. PICK v \in MacValues, d \in {day - 1, day} : mac.read = <<Point("sbp_policy_rate", d, v)>>
    BY DEF MacInv, MacTypeOK, PageRead
  <1> DEFINE pt == Point("sbp_policy_rate", day, v)
             was == Point("sbp_policy_rate", d, v)
  <1>2. _fetch_policy_rate(mac.read[1]) = <<pt>>
    BY <1>1, PointFields DEF _fetch_policy_rate
  <1>3. was \in shown
    <2>1. mac \in MacTask
      BY DEF MacInv, MacTypeOK
    <2>2. mac.read \in Seq(shown)
      BY <2>1 DEF MacTask
    <2>3. mac.read = <<was>>
      BY <1>1
    <2> HIDE DEF was
    <2>4. mac.read[1] = was /\ Len(mac.read) = 1
      BY <2>3
    <2> QED BY <2>2, <2>4
  <1>4. day \in Int /\ was.indicator = "sbp_policy_rate" /\ was.date = d /\ was.value = v
    BY PointFields DEF MacInv, MacTypeOK
  <1>5. pt = was \/ pt = Point(was.indicator, was.date + 1, was.value)
    BY <1>4 DEF Point
  <1>6. pt \in Datable
    <2> HIDE DEF pt, was
    <2> QED BY <1>3, <1>4, <1>5 DEF Datable
  <1> HIDE DEF pt
  <1>7. <<pt>> \in Seq(Datable)
    BY <1>6
  <1> QED BY <1>2, <1>7

LEMMA FetchMac ==
    ASSUME MacInv, NEW fails \in BOOLEAN, mac.pc \in {"idle", "policy", "dated", "forex"}, fetch_today_points(fails)
    PROVE  MacInv'
  <1> DEFINE F == Datable
             O == shown
             pt == Point("sbp_policy_rate", day, pages.policy)
  <1>1. mac \in [pc : {"idle", "policy", "dated", "forex", "upsert"}, read : Seq(O), points : Seq(F),
                 written : Seq(F), aborted : BOOLEAN]
    BY DEF MacInv, MacTypeOK, MacTask
  <1>2. /\ Obtained(_parse_kibor(pages.kibor), fails) \in Seq(F)
        /\ Obtained(_parse(pages.forex), fails) \in Seq(F)
    BY ParsedShown, ShownFits, SeqMonotonic DEF Obtained
  <1>3. UNCHANGED <<day, pages, shown, macro>>
    BY DEF fetch_today_points
  <1>4. pt \in O /\ pages.policy \in MacValues
    BY DEF MacInv, MacPages
  <1>5. mac' \in [pc : {"idle", "policy", "dated", "forex", "upsert"}, read : Seq(O), points : Seq(F),
                  written : Seq(F), aborted : BOOLEAN] /\ PageRead'
    <2>1. CASE mac.pc = "idle"
      <3>1. mac' = [mac EXCEPT !.pc = "policy", !.points = Obtained(_parse_kibor(pages.kibor), fails)]
        BY <2>1 DEF fetch_today_points
      <3> HIDE DEF F, O
      <3> QED BY <1>1, <1>2, <3>1 DEF PageRead
    <2>2. CASE mac.pc = "policy" /\ fails
      <3>1. mac' = [mac EXCEPT !.pc = "forex"]
        BY <2>2 DEF fetch_today_points
      <3> HIDE DEF F, O
      <3> QED BY <1>1, <3>1 DEF PageRead
    <2>3. CASE mac.pc = "policy" /\ ~fails
      <3>1. mac' = [mac EXCEPT !.pc = "dated", !.read = <<pt>>]
        BY <2>3 DEF fetch_today_points
      <3>2. mac'.pc = "dated" /\ mac'.read = <<pt>>
        BY <1>1, <3>1
      <3>3. PageRead'
        BY <1>3, <1>4, <3>2 DEF PageRead, Point
      <3> HIDE DEF F, O, pt
      <3>4. <<pt>> \in Seq(O)
        BY <1>4
      <3>5. mac' \in [pc : {"idle", "policy", "dated", "forex", "upsert"}, read : Seq(O), points : Seq(F),
                      written : Seq(F), aborted : BOOLEAN]
        BY <1>1, <3>1, <3>4
      <3> QED BY <3>3, <3>5
    <2>4. CASE mac.pc = "dated"
      <3> DEFINE more == Obtained(_fetch_policy_rate(mac.read[1]), fails)
      <3>1. mac' = [mac EXCEPT !.pc = "forex", !.read = <<>>, !.points = mac.points \o more]
        BY <1>1, <2>4 DEF fetch_today_points
      <3>2. more \in Seq(F)
        BY <2>4, DatedFits DEF Obtained
      <3> HIDE DEF F, O, more
      <3>3. mac.points \o more \in Seq(F) /\ <<>> \in Seq(O)
        BY <1>1, <3>2
      <3>4. mac' \in [pc : {"idle", "policy", "dated", "forex", "upsert"}, read : Seq(O), points : Seq(F),
                      written : Seq(F), aborted : BOOLEAN] /\ mac'.pc # "dated"
        BY <1>1, <3>1, <3>3
      <3> QED BY <3>4 DEF PageRead
    <2>5. CASE mac.pc = "forex"
      <3> DEFINE more == Obtained(_parse(pages.forex), fails)
      <3>1. mac' = [mac EXCEPT !.pc = "upsert", !.points = mac.points \o more]
        BY <1>1, <2>5 DEF fetch_today_points
      <3>2. more \in Seq(F)
        BY <1>2
      <3> HIDE DEF F, O, more
      <3>3. mac.points \o more \in Seq(F) /\ <<>> \in Seq(O)
        BY <1>1, <3>2
      <3>4. mac' \in [pc : {"idle", "policy", "dated", "forex", "upsert"}, read : Seq(O), points : Seq(F),
                      written : Seq(F), aborted : BOOLEAN] /\ mac'.pc # "dated"
        BY <1>1, <3>1, <3>3
      <3> QED BY <3>4 DEF PageRead
    <2> QED BY <2>1, <2>2, <2>3, <2>4, <2>5
  <1>6. mac' \in MacTask /\ PageRead'
    BY <1>5 DEF MacTask
  <1> QED BY <1>3, <1>6, TaskMac

LEMMA UpsertMac ==
    ASSUME MacInv, NEW fails \in BOOLEAN, _upsert_point(fails)
    PROVE  MacInv'
  <1> DEFINE F == Datable
             O == shown
  <1>1. mac \in [pc : {"idle", "policy", "dated", "forex", "upsert"}, read : Seq(O), points : Seq(F),
                 written : Seq(F), aborted : BOOLEAN]
    BY DEF MacInv, MacTypeOK, MacTask
  <1>2. mac.points # <<>> /\ mac.pc = "upsert" /\ UNCHANGED <<day, pages, shown, macro>>
    BY DEF _upsert_point
  <1> HIDE DEF F, O
  <1>3. /\ Tail(mac.points) \in Seq(F) /\ Head(mac.points) \in F
        /\ Append(mac.written, Head(mac.points)) \in Seq(F)
    BY <1>1, <1>2
  <1>4. mac' = [mac EXCEPT !.points = Tail(mac.points), !.aborted = fails \/ mac.aborted,
                  !.written = IF fails \/ mac.aborted THEN mac.written ELSE Append(mac.written, Head(mac.points))]
    BY <1>1 DEF _upsert_point
  <1>5. mac' \in [pc : {"idle", "policy", "dated", "forex", "upsert"}, read : Seq(O), points : Seq(F),
                  written : Seq(F), aborted : BOOLEAN]
    BY <1>1, <1>3, <1>4
  <1>6. mac'.pc = "upsert"
    BY <1>1, <1>2, <1>4
  <1>7. mac' \in MacTask /\ PageRead'
    BY <1>5, <1>6 DEF MacTask, PageRead, F, O
  <1> QED BY <1>2, <1>7, TaskMac

LEMMA DatableType == MacInv => Datable \subseteq Observation
  <1> SUFFICES ASSUME MacInv, NEW p \in Datable PROVE p \in Observation
    OBVIOUS
  <1>1. shown \subseteq Observation
    BY DEF MacInv, MacTypeOK
  <1>2. CASE p \in shown
    BY <1>1, <1>2
  <1>3. CASE p \notin shown
    <2>1. PICK q \in shown : q.indicator = "sbp_policy_rate" /\ p = Point(q.indicator, q.date + 1, q.value)
      BY <1>3 DEF Datable
    <2>2. q \in Observation
      BY <1>1
    <2> QED BY <2>1, <2>2 DEF Observation, Point
  <1> QED BY <1>2, <1>3

\* A task that has ended.
LEMMA IdleTask ==
    mac' = MacIdle => mac' \in MacTask /\ mac' \in MacTask' /\ PageRead'
  BY DEF MacIdle, MacTask, PageRead

\* Every row of the commit is a point that was written.
LEMMA RunMac == MacInv /\ _run => MacInv'
  <1> SUFFICES ASSUME MacInv, _run PROVE MacInv'
    OBVIOUS
  <1> DEFINE R == Range(mac.written)
             keys == {<<p.indicator, p.date>> : p \in R}
             value(k) == (CHOOSE p \in R : <<p.indicator, p.date>> = k).value
  <1>1. /\ mac' = MacIdle /\ UNCHANGED <<day, pages, shown>>
        /\ macro' = IF mac.aborted THEN macro
                    ELSE [k \in DOMAIN macro \cup keys |-> IF k \in keys THEN value(k) ELSE macro[k]]
    BY DEF _run
  <1>2. R \subseteq Datable
    <2>1. mac.written \in Seq(Datable)
      BY DEF MacInv, MacTypeOK, MacTask
    <2> QED BY <2>1, SeqElements
  <1> HIDE DEF R
  <1>3. ASSUME NEW k \in keys PROVE Point(k[1], k[2], value(k)) \in Datable
    <2> DEFINE p == CHOOSE p \in R : <<p.indicator, p.date>> = k
    <2>1. p \in R /\ <<p.indicator, p.date>> = k
      OBVIOUS
    <2>2. p \in Observation /\ p \in Datable
      BY <1>2, <2>1, DatableType
    <2> HIDE DEF p
    <2>3. k[1] = p.indicator /\ k[2] = p.date
      BY <2>1
    <2>4. Point(p.indicator, p.date, p.value) = p
      BY <2>2 DEF Point, Observation
    <2>5. value(k) = p.value
      BY DEF p
    <2> QED BY <2>2, <2>3, <2>4, <2>5
  <1> HIDE DEF keys, value
  <1>4. \A k \in DOMAIN macro : Point(k[1], k[2], macro[k]) \in Datable
    BY DEF MacInv, MacroExact
  <1>5. MacroExact'
    <2>1. \A k \in DOMAIN macro' : Point(k[1], k[2], macro'[k]) \in Datable
      <3>1. CASE mac.aborted
        BY <1>1, <1>4, <3>1
      <3>2. CASE ~mac.aborted
        BY <1>1, <1>3, <1>4, <3>2
      <3> QED BY <3>1, <3>2
    <2>2. Datable' = Datable
      BY <1>1 DEF Datable, Point
    <2>3. {Point(k[1], k[2], macro'[k]) : k \in DOMAIN macro'} \subseteq Datable'
      BY <2>1, <2>2
    <2> QED BY <2>3 DEF MacroExact, Point
  <1>6. mac' \in MacTask' /\ PageRead'
    BY <1>1, IdleTask
  <1> QED BY <1>1, <1>5, <1>6 DEF MacInv, MacTypeOK, MacPages, PageShown, Point

LEMMA NextMac == MacInv /\ [MacNext]_macVars => MacInv'
  <1> SUFFICES ASSUME MacInv, [MacNext]_macVars PROVE MacInv'
    OBVIOUS
  <1>1. CASE MacCrash
    BY <1>1, IdleTask, TaskMac DEF MacCrash
  <1>2. CASE UNCHANGED macVars
    BY <1>2, TaskMac DEF macVars, MacInv, MacTypeOK, PageRead
  <1> QED BY <1>1, <1>2, PublishMac, PolicyMac, FetchMac, UpsertMac, RunMac DEF MacNext

-----------------------------------------------------------------------------
(* The services together *)

DerivedInv == AlrtInv /\ PeerInv /\ CchInv /\ MacInv

LEMMA DerivedSteps ==
    [SvcNext]_svcVars =>
        [AlrtNext]_alrtVars /\ [PeerNext]_peerVars /\ [CchNext]_cchVars /\ [MacNext]_macVars
  BY DEF SvcNext, Rest, svcVars

(***************************************************************************)
(* DerivedDataExact, for any number of requests and users, any bars, rates *)
(* and lifetimes: alerts speak of their day's bar, peer rows of enough     *)
(* users who agreed, answers from the cache of a row that was current a    *)
(* lifetime and a load ago at most, macro points of what the bank showed.  *)
(***************************************************************************)
THEOREM DerivedDataIsExact == SvcSpec => []DerivedDataExact
  <1>1. SvcInit => DerivedInv
    BY InitAlrt, InitPeer, InitCch, InitMac DEF SvcInit, DerivedInv
  <1>2. DerivedInv /\ [SvcNext]_svcVars => DerivedInv'
    BY DerivedSteps, NextAlrt, NextPeer, NextCch, NextMac DEF DerivedInv
  <1>3. DerivedInv => DerivedDataExact
    BY PeersFromRows DEF DerivedInv, DerivedDataExact, AlrtInv, CchInv, MacInv
  <1> QED BY <1>1, <1>2, <1>3, PTL DEF SvcSpec

-----------------------------------------------------------------------------
(* The scrapers *)

DpsFetch ==
    [pc : {"post", "backoff", "returned", "raised"}, from : Int, to : Int, start : Nat \ {0},
     attempt : Nat, rows : [Days -> Int], due : SUBSET Days]

\* Before start every row DPS gave is held once; from start on there is none.
RowsHeld(rows, due, start) ==
    \A d \in Days : (d \in due => d < start) /\ rows[d] = IF d \in due THEN 1 ELSE 0

\* A fetch in progress has a chunk to ask for, and holds the rows before it.
FetchHolds ==
    dps # DpsIdle =>
        /\ dps \in DpsFetch
        /\ RowsHeld(dps.rows, dps.due, dps.start)
        /\ dps.pc \in {"post", "backoff"} => dps.start <= dps.to

\* A readable date decides the key, whatever the window.
DatedOnce ==
    /\ stored \in [Announcements -> SUBSET {_parse_table_row(a, f) : a \in Announcements, f \in Int}]
    /\ \A a \in Announcements : a.date # Unreadable => stored[a] \subseteq {_parse_table_row(a, 0)}

ScrInv == today \in Nat /\ FetchHolds /\ DatedOnce

LEMMA DivisionFacts ==
    ASSUME NEW a \in Nat, NEW m \in Nat \ {0}
    PROVE  a \div m \in Nat /\ a < (a \div m + 1) * m
  OBVIOUS

\* The chunk asked for is not empty and ends within the range.
LEMMA ChunkNotEmpty ==
    ASSUME NEW d \in Nat \ {0}, NEW to \in Int, d <= to
    PROVE  ChunkEnd(d, to) \in Nat /\ d <= ChunkEnd(d, to)
  <1>1. d - 1 \in Nat /\ MonthLength \in Nat \ {0}
    BY ScrAssumption
  <1>2. (d - 1) \div MonthLength \in Nat /\ d - 1 < ((d - 1) \div MonthLength + 1) * MonthLength
    BY <1>1, DivisionFacts
  <1> DEFINE month_end == ((d - 1) \div MonthLength + 1) * MonthLength
  <1>3. month_end \in Nat /\ d <= month_end
    BY <1>1, <1>2
  <1>4. ChunkEnd(d, to) = IF month_end < to THEN month_end ELSE to
    BY DEF ChunkEnd
  <1> HIDE DEF month_end
  <1> QED BY <1>3, <1>4

LEMMA InitScr == ScrInit => ScrInv
  BY DEF ScrInit, ScrInv, FetchHolds, DatedOnce

LEMMA FetchScr ==
    ASSUME ScrInv, NEW from \in Days, NEW to \in Days, fetch_ohlcv_range(from, to)
    PROVE  ScrInv'
  <1>1. from \in Nat \ {0} /\ to \in Int /\ from <= to /\ UNCHANGED <<today, stored>>
    BY ScrAssumption DEF fetch_ohlcv_range, Days
  <1>2. /\ dps' \in DpsFetch /\ dps'.start <= dps'.to
        /\ dps'.rows = [d \in Days |-> 0] /\ dps'.due = {}
    BY <1>1 DEF fetch_ohlcv_range, DpsFetch
  <1>3. RowsHeld(dps.rows, dps.due, dps.start)'
    BY <1>2 DEF RowsHeld
  <1> QED BY <1>1, <1>2, <1>3 DEF ScrInv, FetchHolds, DatedOnce

\* The rows of a chunk come behind those already held.
LEMMA ChunkHeld ==
    ASSUME ScrInv, dps.pc = "post", UNCHANGED <<today, stored>>,
           NEW more \in SUBSET Days,
           \A d \in more : dps.start <= d /\ d <= ChunkEnd(dps.start, dps.to),
           NextChunk(ChunkEnd(dps.start, dps.to), [d \in Days |-> dps.rows[d] + IF d \in more THEN 1 ELSE 0],
                     dps.due \cup more)
    PROVE  ScrInv'
  <1> DEFINE end == ChunkEnd(dps.start, dps.to)
             rows == [d \in Days |-> dps.rows[d] + IF d \in more THEN 1 ELSE 0]
             due == dps.due \cup more
  <1>1. dps \in DpsFetch /\ RowsHeld(dps.rows, dps.due, dps.start) /\ dps.start <= dps.to
    BY DEF ScrInv, FetchHolds, DpsIdle
  <1>2. end \in Nat /\ dps.start <= end /\ dps.start \in Nat \ {0} /\ dps.to \in Int
    BY <1>1, ChunkNotEmpty DEF DpsFetch
  <1>3. \A d \in Days : d \in Int /\ dps.rows[d] \in Int
    <2>1. \A d \in Days : d \in Int
      BY ScrAssumption DEF Days
    <2> QED BY <1>1, <2>1 DEF DpsFetch
  <1>4. rows \in [Days -> Int] /\ due \in SUBSET Days
    BY <1>1, <1>3 DEF DpsFetch
  <1>5. RowsHeld(rows, due, end + 1)
    <2> SUFFICES ASSUME NEW d \in Days
                 PROVE  (d \in due => d < end + 1) /\ rows[d] = IF d \in due THEN 1 ELSE 0
      BY DEF RowsHeld
    <2>1. (d \in dps.due => d < dps.start) /\ dps.rows[d] = IF d \in dps.due THEN 1 ELSE 0
      BY <1>1 DEF RowsHeld
    <2>2. (d \in more => dps.start <= d /\ d <= end) /\ d \in Int
      BY <1>3
    <2>3. rows[d] = dps.rows[d] + IF d \in more THEN 1 ELSE 0
      OBVIOUS
    <2>4. d \in due <=> d \in dps.due \/ d \in more
      OBVIOUS
    <2> HIDE DEF end, rows, due
    <2> QED BY <1>2, <2>1, <2>2, <2>3, <2>4
  <1>6. dps' = [dps EXCEPT !.pc = IF end + 1 <= dps.to THEN "post" ELSE "returned",
                           !.start = end + 1, !.attempt = 1, !.rows = rows, !.due = due]
    BY DEF NextChunk
  <1> HIDE DEF end, rows, due
  <1>7. /\ dps' \in DpsFetch /\ dps'.rows = rows /\ dps'.due = due /\ dps'.start = end + 1
        /\ dps'.pc \in {"post", "backoff"} => dps'.start <= dps'.to
    <2> DEFINE at == IF end + 1 <= dps.to THEN "post" ELSE "returned"
    <2>1. /\ at \in {"post", "backoff", "returned", "raised"}
          /\ at \in {"post", "backoff"} => end + 1 <= dps.to
      OBVIOUS
    <2>2. end + 1 \in Nat \ {0} /\ 1 \in Nat
      BY <1>2
    <2>3. dps' = [dps EXCEPT !.pc = at, !.start = end + 1, !.attempt = 1, !.rows = rows, !.due = due]
      BY <1>6
    <2> HIDE DEF at
    <2>4. dps' \in DpsFetch
      BY <1>1, <1>4, <2>1, <2>2, <2>3 DEF DpsFetch
    <2>5. /\ dps'.rows = rows /\ dps'.due = due /\ dps'.start = end + 1 /\ dps'.pc = at
          /\ dps'.to = dps.to
      BY <1>1, <2>3 DEF DpsFetch
    <2> QED BY <2>1, <2>4, <2>5
  <1>8. RowsHeld(dps.rows, dps.due, dps.start)'
    BY <1>5, <1>7 DEF RowsHeld
  <1> QED BY <1>7, <1>8 DEF ScrInv, FetchHolds, DatedOnce

LEMMA AnsweredScr == ScrInv /\ PostAnswered => ScrInv'
  <1> SUFFICES ASSUME ScrInv, PostAnswered PROVE ScrInv'
    OBVIOUS
  <1> DEFINE end == ChunkEnd(dps.start, dps.to)
             near == {d \in Days : dps.start - 1 <= d /\ d <= end + 1}
             answer(good, bad) == {[day |-> d, valid |-> TRUE] : d \in good}
                                  \cup {[day |-> d, valid |-> FALSE] : d \in bad}
             kept(good, bad) == _parse_and_validate(answer(good, bad), dps.start, end)
  <1>1. PICK good \in SUBSET near, bad \in SUBSET near :
            NextChunk(end, [d \in Days |-> dps.rows[d] + IF d \in kept(good, bad) THEN 1 ELSE 0],
                      dps.due \cup (good \cap (dps.start .. end)))
    BY DEF PostAnswered
  <1>2. kept(good, bad) = good \cap (dps.start .. end)
    <2>1. \A rows, from, to : _parse_and_validate(rows, from, to)
                                = {row.day : row \in {r \in rows : r.day \in from .. to /\ r.valid}}
      BY DEF _parse_and_validate, _validate_row
    <2> DEFINE window == dps.start .. end
               rows == answer(good, bad)
    <2>2. ASSUME NEW d \in good \cap window PROVE d \in {row.day : row \in {r \in rows : r.day \in window /\ r.valid}}
      <3>1. [day |-> d, valid |-> TRUE] \in {r \in rows : r.day \in window /\ r.valid}
        BY <2>2
      <3> QED BY <3>1
    <2>3. ASSUME NEW row \in rows, row.day \in window, row.valid PROVE row.day \in good \cap window
      BY <2>3
    <2> QED BY <2>1, <2>2, <2>3
  <1>3. dps.pc = "post" /\ UNCHANGED <<today, stored>>
    BY DEF PostAnswered
  <1>4. dps \in DpsFetch /\ dps.start \in Nat \ {0} /\ dps.to \in Int /\ dps.start <= dps.to
    BY <1>3 DEF ScrInv, FetchHolds, DpsIdle, DpsFetch
  <1>5. end \in Nat
    BY <1>4, ChunkNotEmpty
  <1>6. good \cap (dps.start .. end) \in SUBSET Days
    OBVIOUS
  <1>7. \A d \in good \cap (dps.start .. end) : dps.start <= d /\ d <= end
    BY <1>4, <1>5
  <1> HIDE DEF near, kept
  <1> QED BY <1>1, <1>2, <1>3, <1>6, <1>7, ChunkHeld

LEMMA NothingScr == ScrInv /\ PostNothing => ScrInv'
  <1> SUFFICES ASSUME ScrInv, PostNothing PROVE ScrInv'
    OBVIOUS
  <1>1. dps.pc = "post" /\ UNCHANGED <<today, stored>>
    BY DEF PostNothing
  <1>2. dps.rows \in [Days -> Int]
    BY <1>1 DEF ScrInv, FetchHolds, DpsIdle, DpsFetch
  <1> DEFINE more == {}
  <1>3. dps.rows = [d \in Days |-> dps.rows[d] + IF d \in more THEN 1 ELSE 0]
    BY <1>2
  <1>4. dps.due = dps.due \cup more /\ more \in SUBSET Days /\ \A d : d \notin more
    OBVIOUS
  <1>5. NextChunk(ChunkEnd(dps.start, dps.to), [d \in Days |-> dps.rows[d] + IF d \in more THEN 1 ELSE 0],
                  dps.due \cup more)
    BY <1>3, <1>4 DEF PostNothing
  <1> HIDE DEF more
  <1> QED BY <1>1, <1>4, <1>5, ChunkHeld

\* Retries and refusals leave the rows alone.
LEMMA RetryScr == ScrInv /\ (PostRefused \/ PostFailed \/ RetryPost) => ScrInv'
  <1> SUFFICES ASSUME ScrInv, PostRefused \/ PostFailed \/ RetryPost PROVE ScrInv'
    OBVIOUS
  <1>1. dps.pc \in {"post", "backoff"} /\ UNCHANGED <<today, stored>>
    BY DEF PostRefused, PostFailed, RetryPost
  <1>2. dps \in DpsFetch /\ RowsHeld(dps.rows, dps.due, dps.start) /\ dps.start <= dps.to
    BY <1>1 DEF ScrInv, FetchHolds, DpsIdle
  <1>3. /\ dps' \in DpsFetch /\ dps'.rows = dps.rows /\ dps'.due = dps.due
        /\ dps'.start = dps.start /\ dps'.to = dps.to
    <2>1. CASE PostRefused \/ PostFailed
      <3>1. PICK at \in {"raised", "backoff"} : dps' = [dps EXCEPT !.pc = at]
        BY <2>1 DEF PostRefused, PostFailed
      <3> QED BY <1>2, <3>1 DEF DpsFetch
    <2>2. CASE RetryPost
      <3>1. dps' = [dps EXCEPT !.pc = "post", !.attempt = dps.attempt + 1] /\ dps.attempt + 1 \in Nat
        BY <1>2, <2>2 DEF RetryPost, DpsFetch
      <3> QED BY <1>2, <3>1 DEF DpsFetch
    <2> QED BY <2>1, <2>2
  <1>4. RowsHeld(dps.rows, dps.due, dps.start)' /\ dps'.start <= dps'.to
    BY <1>2, <1>3 DEF RowsHeld
  <1> QED BY <1>1, <1>3, <1>4 DEF ScrInv, FetchHolds, DatedOnce

LEMMA IngestScr == ScrInv /\ IngestAnnouncements => ScrInv'
  <1> SUFFICES ASSUME ScrInv, IngestAnnouncements PROVE ScrInv'
    OBVIOUS
  <1> DEFINE from == today - Lookback
             page == {a \in fetch_announcements(from, today) : _map_category(a) # "none"}
  <1>1. /\ stored' = [a \in Announcements |->
                        IF a \in page THEN stored[a] \cup {_parse_table_row(a, from)} ELSE stored[a]]
        /\ UNCHANGED <<dps, today>>
    BY DEF IngestAnnouncements
  <1>2. from \in Int
    BY ScrAssumption DEF ScrInv
  <1>3. \A a \in Announcements : a.date # Unreadable => _parse_table_row(a, from) = _parse_table_row(a, 0)
    BY DEF _parse_table_row
  <1> HIDE DEF from, page
  <1>4. DatedOnce'
    BY <1>1, <1>2, <1>3 DEF ScrInv, DatedOnce
  <1> QED BY <1>1, <1>4 DEF ScrInv, FetchHolds

LEMMA NextScr == ScrInv /\ [ScrNext]_scrVars => ScrInv'
  <1> SUFFICES ASSUME ScrInv, [ScrNext]_scrVars PROVE ScrInv'
    OBVIOUS
  <1>1. CASE Elapse \/ FetchDone \/ NextDay \/ UNCHANGED scrVars
    <2>1. today' \in Nat /\ (dps' = dps \/ dps' = DpsIdle) /\ UNCHANGED stored
      BY <1>1 DEF ScrInv, Elapse, FetchDone, NextDay, scrVars
    <2> QED BY <2>1 DEF ScrInv, FetchHolds, DatedOnce
  <1> QED BY <1>1, FetchScr, AnsweredScr, NothingScr, RetryScr, IngestScr DEF ScrNext, _rate_limited_post

(***************************************************************************)
(* ScrapesExact, for every range of days, month length, number of retries  *)
(* and set of announcements: what fetch_ohlcv_range returns holds each     *)
(* valid row of a chunk once, and a dated announcement has one key.        *)
(***************************************************************************)
THEOREM ScrapesAreExact == ScrSpec => []ScrapesExact
  <1>1. ScrInv => ScrapesExact
    <2> SUFFICES ASSUME ScrInv PROVE ScrapesExact
      OBVIOUS
    <2>1. dps.pc = "returned" => \A d \in Days : dps.rows[d] = IF d \in dps.due THEN 1 ELSE 0
      BY DEF ScrInv, FetchHolds, DpsIdle, RowsHeld
    <2>2. ASSUME NEW a \in Announcements, a.date # Unreadable PROVE Cardinality(stored[a]) <= 1
      <3> DEFINE one == {_parse_table_row(a, 0)}
      <3>1. IsFiniteSet(one) /\ Cardinality(one) = 1
        BY FS_Singleton
      <3>2. stored[a] \subseteq one
        BY <2>2 DEF ScrInv, DatedOnce
      <3>3. Cardinality(stored[a]) <= Cardinality(one) /\ Cardinality(stored[a]) \in Nat
        BY <3>1, <3>2, FS_Subset, FS_CardinalityType
      <3> QED BY <3>1, <3>3
    <2> QED BY <2>1, <2>2 DEF ScrapesExact
  <1> QED BY <1>1, InitScr, NextScr, PTL DEF ScrSpec
==============================================================================
