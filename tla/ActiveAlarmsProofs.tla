------------------------- MODULE ActiveAlarmsProofs -------------------------
(***************************************************************************)
(* Proofs about ActiveAlarms, for every number of alarms and page size.    *)
(* The ranks count the alarms raised before each (RankInv); that the lines *)
(* drawn are the list needs, besides, that an alarm below the lines of a   *)
(* page is never raised (Undrawn).                                         *)
(***************************************************************************)
EXTENDS ActiveAlarms, FiniteSetTheorems, TLAPS

\* The invariant of the proofs: the types that the ranks need, and the ranks.
RankTypes ==
  /\ status \in [Alarms -> BOOLEAN]
  /\ checked \in [Alarms -> BOOLEAN]
  /\ index \in [Alarms -> Nat]
  /\ totalActiveAlarm \in Nat
  /\ scan \in 0..NAlarms

RankInv == RankTypes /\ RanksExact

\* There are finitely many alarms, NAlarms of them.
LEMMA AlarmsFinite == IsFiniteSet(Alarms) /\ Cardinality(Alarms) = NAlarms
<1>1. NAlarms \in Nat /\ NAlarms >= 1
  BY AlarmsAssumption
<1>2. 0 \in Int /\ NAlarms - 1 \in Int
  BY <1>1
<1>3. /\ IsFiniteSet(0..(NAlarms - 1))
      /\ Cardinality(0..(NAlarms - 1))
           = IF 0 > NAlarms - 1 THEN 0 ELSE (NAlarms - 1) - 0 + 1
  BY <1>2, FS_Interval, Zenon
<1> QED BY <1>1, <1>3 DEF Alarms

\* Nothing is raised initially.
LEMMA InitRanks == Init => RankInv
<1> SUFFICES ASSUME Init PROVE RankInv
  OBVIOUS
<1>1. Active = {}
  BY DEF Init, Active
<1>2. Cardinality(Active) = 0
  BY <1>1, FS_EmptySet
<1>3. RankTypes
  BY AlarmsAssumption DEF Init, RankTypes
<1> QED BY <1>2, <1>3 DEF Init, RankInv, RanksExact

\* A new alarm takes rank 1 and every listed one moves back by one.
LEMMA RaiseRanks ==
  ASSUME RankInv, NEW i \in Alarms, Raise(i)
  PROVE  RanksExact'
<1> USE DEF RankInv, RankTypes
<1>1. i \notin Active /\ index[i] = 0
  BY DEF Raise, RanksExact, Active
<1>2. Active' = Active \union {i}
  BY DEF Raise, Active
<1>3. IsFiniteSet(Active)
  BY AlarmsFinite, FS_Subset DEF Active
<1>4. Cardinality(Active') = Cardinality(Active) + 1
  BY <1>1, <1>2, <1>3, FS_AddElement
<1>5. \A j \in Alarms :
        index'[j] = IF j = i THEN 1
                    ELSE IF index[j] # 0 THEN index[j] + 1 ELSE 0
  BY DEF Raise
<1>6. totalActiveAlarm' = totalActiveAlarm + 1
  BY DEF Raise
<1>7. totalActiveAlarm' = Cardinality(Active')
  BY <1>4, <1>6 DEF RanksExact
<1>8. \A j \in Alarms : checked'[j] <=> index'[j] # 0
  BY <1>5 DEF Raise, RanksExact
<1>9. \A j \in Alarms : index'[j] <= totalActiveAlarm'
  BY <1>5, <1>6 DEF RanksExact
<1>10. \A j, k \in Alarms : index'[j] = index'[k] /\ index'[j] # 0 => j = k
  BY <1>5 DEF RanksExact
<1>11. \A n \in 1..totalActiveAlarm' : \E j \in Alarms : index'[j] = n
  <2> SUFFICES ASSUME NEW n \in 1..totalActiveAlarm'
               PROVE  \E j \in Alarms : index'[j] = n
    OBVIOUS
  <2>1. CASE n = 1
    BY <1>5, <2>1
  <2>2. CASE n # 1
    <3>1. n - 1 \in 1..totalActiveAlarm
      BY <1>6, <2>2
    <3>2. PICK j \in Alarms : index[j] = n - 1
      BY <3>1 DEF RanksExact
    <3>3. j # i /\ index'[j] = n
      BY <1>1, <1>5, <2>2, <3>1, <3>2
    <3> QED BY <3>3
  <2> QED BY <2>1, <2>2
<1> QED BY <1>7, <1>8, <1>9, <1>10, <1>11 DEF RanksExact

\* An alarm that is over leaves the list and those behind it move up.
LEMMA ClearRanks ==
  ASSUME RankInv, NEW i \in Alarms, Clear(i)
  PROVE  RanksExact' /\ totalActiveAlarm' \in Nat
<1> USE DEF RankInv, RankTypes
<1>1. i \in Active /\ index[i] # 0 /\ index[i] <= totalActiveAlarm
  BY DEF Clear, RanksExact, Active
<1>2. Active' = Active \ {i}
  BY DEF Clear, Active
<1>3. IsFiniteSet(Active)
  BY AlarmsFinite, FS_Subset DEF Active
<1>4. Cardinality(Active') = Cardinality(Active) - 1
  BY <1>1, <1>2, <1>3, FS_RemoveElement
<1>5. \A j \in Alarms :
        index'[j] = IF j = i THEN 0
                    ELSE IF index[j] > index[i] THEN index[j] - 1
                    ELSE index[j]
  BY DEF Clear
<1>6. totalActiveAlarm' = totalActiveAlarm - 1 /\ totalActiveAlarm' \in Nat
  BY <1>1 DEF Clear
<1>7. totalActiveAlarm' = Cardinality(Active')
  BY <1>4, <1>6 DEF RanksExact
<1>8. \A j \in Alarms : checked'[j] <=> index'[j] # 0
  BY <1>1, <1>5 DEF Clear, RanksExact
<1>9. \A j \in Alarms : index'[j] <= totalActiveAlarm'
  BY <1>1, <1>5, <1>6 DEF RanksExact
<1>10. \A j, k \in Alarms : index'[j] = index'[k] /\ index'[j] # 0 => j = k
  BY <1>1, <1>5 DEF RanksExact
<1>11. \A n \in 1..totalActiveAlarm' : \E j \in Alarms : index'[j] = n
  <2> SUFFICES ASSUME NEW n \in 1..totalActiveAlarm'
               PROVE  \E j \in Alarms : index'[j] = n
    OBVIOUS
  <2> DEFINE m == IF n < index[i] THEN n ELSE n + 1
  <2>1. m \in 1..totalActiveAlarm /\ m # index[i]
    BY <1>1, <1>6
  <2>2. PICK j \in Alarms : index[j] = m
    BY <2>1 DEF RanksExact
  <2>3. index'[j] = n
    BY <1>1, <1>5, <2>1, <2>2
  <2> QED BY <2>3
<1> QED BY <1>6, <1>7, <1>8, <1>9, <1>10, <1>11 DEF RanksExact

\* The ranks survive every step.
LEMMA NextRanks == RankInv /\ [Next]_vars => RankInv'
<1> SUFFICES ASSUME RankInv, [Next]_vars PROVE RankInv'
  OBVIOUS
<1> USE DEF RankInv
<1>1. ASSUME UNCHANGED alarms PROVE RanksExact'
  BY <1>1 DEF alarms, RanksExact, Active
<1>2. CASE Menu_Scane
  <2>1. UNCHANGED alarms /\ UNCHANGED status /\ scan' = 0
    BY <1>2 DEF Menu_Scane
  <2> QED BY <1>1, <2>1, AlarmsAssumption DEF RankTypes, alarms
<1>3. CASE Active_Alarm_Scane
  <2>1. scan \in Alarms /\ scan' \in 0..NAlarms /\ UNCHANGED status
    BY <1>3, AlarmsAssumption DEF Active_Alarm_Scane, Alarms
  <2>2. CASE Raise(scan)
    <3>1. RanksExact'
      BY <2>1, <2>2, RaiseRanks
    <3>2. index' \in [Alarms -> Nat] /\ totalActiveAlarm' \in Nat
      BY <2>2 DEF Raise, RankTypes
    <3>3. checked' \in [Alarms -> BOOLEAN]
      BY <2>1, <2>2 DEF Raise, RankTypes
    <3> QED BY <2>1, <3>1, <3>2, <3>3 DEF RankTypes
  <2>3. CASE Clear(scan)
    <3>1. RanksExact' /\ totalActiveAlarm' \in Nat
      BY <2>1, <2>3, ClearRanks
    <3>2. index' \in [Alarms -> Nat]
      BY <2>1, <2>3 DEF Clear, RankTypes
    <3>3. checked' \in [Alarms -> BOOLEAN]
      BY <2>1, <2>3 DEF Clear, RankTypes
    <3> QED BY <2>1, <3>1, <3>2, <3>3 DEF RankTypes
  <2>4. CASE PassBy(scan)
    BY <1>1, <2>1, <2>4 DEF PassBy, RankTypes, alarms
  <2> QED BY <1>3, <2>2, <2>3, <2>4 DEF Active_Alarm_Scane
<1>4. CASE ACS_AccessCheck
  BY <1>1, <1>4 DEF ACS_AccessCheck, RankTypes, alarms
<1>5. CASE \E i \in Raisable : UpdateInfo(i)
  <2>1. PICK i \in Raisable : UpdateInfo(i)
    BY <1>5
  <2>2. i \in Alarms
    BY AlarmsAssumption DEF Alarms
  <2>3. status' \in [Alarms -> BOOLEAN]
    BY <2>1, <2>2 DEF UpdateInfo, RankTypes
  <2> QED BY <1>1, <2>1, <2>3 DEF UpdateInfo, RankTypes, alarms
<1>6. CASE UNCHANGED vars
  BY <1>1, <1>6 DEF vars, RankTypes, alarms
<1> QED BY <1>2, <1>3, <1>4, <1>5, <1>6 DEF Next

\* RanksExact: for any number of alarms, raised and cleared in any order, the
\* ranks number the listed alarms from 1 without gaps or doubles after every
\* step of Active_Alarm_Scane (menu.c:132-159).
THEOREM RanksAlwaysExact == Spec => []RanksExact
<1>1. Spec => []RankInv
  BY InitRanks, NextRanks, PTL DEF Spec
<1> QED BY <1>1, PTL DEF RankInv
-----------------------------------------------------------------------------
(***************************************************************************)
(* Types.                                                                  *)
(***************************************************************************)

\* The quotient and the remainder that the page number is computed with.
LEMMA Division ==
  ASSUME NEW a \in Nat, NEW p \in Nat, p > 0
  PROVE  /\ a \div p \in Nat /\ a % p \in 0..(p - 1)
         /\ a = p * (a \div p) + (a % p)
OBVIOUS

\* The page number is that of an existing page, one that existed, or -1.
LEMMA PagesBound ==
  ASSUME totalActiveAlarm \in 0..NAlarms
  PROVE  Pages \in 0..MaxPages
<1> DEFINE t == totalActiveAlarm
           p == PageSize
           q == t \div p
           m == (NAlarms + p - 1) \div p
<1>1. t \in Nat /\ p \in Nat /\ p > 0 /\ NAlarms \in Nat /\ t <= NAlarms
  BY AlarmsAssumption
<1>2. /\ q \in Nat /\ t % p \in 0..(p - 1)
      /\ t = p * q + (t % p)
  BY <1>1, Division
<1>3. /\ m \in Nat /\ (NAlarms + p - 1) % p \in 0..(p - 1)
      /\ NAlarms + p - 1 = p * m + ((NAlarms + p - 1) % p)
  BY <1>1, Division
<1> HIDE DEF t, p, q, m
<1>4. p * m >= NAlarms
  BY <1>1, <1>3
<1>5. p * q <= p * m
  BY <1>1, <1>2, <1>3, <1>4
<1>6. q <= m
  BY <1>1, <1>2, <1>3, <1>5
<1>7. t % p # 0 => p * q < p * m
  BY <1>1, <1>2, <1>3, <1>4
<1>8. t % p # 0 => q < m
  BY <1>1, <1>2, <1>3, <1>7
<1>9. q \in 0..m /\ (t % p # 0 => q + 1 \in 0..m)
  BY <1>2, <1>3, <1>6, <1>8
<1> QED BY <1>9 DEF Pages, MaxPages, t, p, q, m

\* There is a first page even if it stays empty.
LEMMA FirstPage == MaxPages >= 1 /\ MaxPages \in Nat
<1> DEFINE p == PageSize
           m == (NAlarms + p - 1) \div p
<1>1. p \in Nat /\ p > 0 /\ NAlarms \in Nat /\ NAlarms >= 1
  BY AlarmsAssumption
<1>2. /\ m \in Nat /\ (NAlarms + p - 1) % p \in 0..(p - 1)
      /\ NAlarms + p - 1 = p * m + ((NAlarms + p - 1) % p)
  BY <1>1, Division
<1> HIDE DEF p, m
<1>3. p * m >= 1
  BY <1>1, <1>2
<1>4. m # 0
  BY <1>1, <1>2, <1>3
<1> QED BY <1>2, <1>4 DEF MaxPages, p, m

\* No more alarms are listed than there are.
LEMMA TotalBound == RankInv => totalActiveAlarm \in 0..NAlarms
<1> SUFFICES ASSUME RankInv PROVE totalActiveAlarm \in 0..NAlarms
  OBVIOUS
<1>1. Cardinality(Active) <= Cardinality(Alarms)
  BY AlarmsFinite, FS_Subset DEF Active
<1> QED BY <1>1, AlarmsFinite, AlarmsAssumption DEF RankInv, RankTypes, RanksExact

\* The variables of the page.
PageTypes ==
  /\ onPage \in BOOLEAN /\ refesh \in BOOLEAN
  /\ alarmPageIndex \in -1..(MaxPages - 1)
  /\ DOMAIN screen = Lines

\* The first page is selected, another menu is shown.
LEMMA InitPage == Init => PageTypes
<1> SUFFICES ASSUME Init PROVE PageTypes
  OBVIOUS
<1>1. alarmPageIndex \in -1..(MaxPages - 1)
  BY FirstPage DEF Init
<1>2. onPage \in BOOLEAN /\ refesh \in BOOLEAN
  BY Zenon DEF Init
<1> QED BY <1>1, <1>2 DEF Init, Other, PageTypes

\* No step takes them out of their ranges.
LEMMA NextPage == RankInv /\ PageTypes /\ [Next]_vars => PageTypes'
<1> SUFFICES ASSUME RankInv, PageTypes, [Next]_vars PROVE PageTypes'
  OBVIOUS
<1>1. CASE Menu_Scane /\ onPage
  <2>1. DOMAIN screen' = Lines
    BY <1>1 DEF Menu_Scane, Display_Active_Alarm, OtherMenu, NoKey, EnterKey,
       UpKey, DownKey, EscKey, Draw, Drawn, Notice, PageTypes
  <2>2. onPage' \in BOOLEAN /\ refesh' \in BOOLEAN
    BY <1>1, Zenon DEF Menu_Scane, Display_Active_Alarm, OtherMenu, NoKey,
       EnterKey, UpKey, DownKey, EscKey, PageTypes
  <2>3. Pages \in 0..MaxPages /\ MaxPages \in Nat /\ MaxPages >= 1
    BY TotalBound, PagesBound, FirstPage
  <2>4. alarmPageIndex \in -1..(MaxPages - 1)
    BY DEF PageTypes
  <2>5. alarmPageIndex' \in -1..(MaxPages - 1)
    <3>1. CASE UpKey
      BY <2>3, <2>4, <3>1 DEF UpKey
    <3>2. CASE DownKey
      BY <2>3, <2>4, <3>2 DEF DownKey
    <3>3. CASE NoKey \/ EnterKey \/ EscKey
      BY <2>4, <3>3 DEF NoKey, EnterKey, EscKey
    <3> QED BY <1>1, <3>1, <3>2, <3>3
            DEF Menu_Scane, Display_Active_Alarm, OtherMenu
  <2> QED BY <2>1, <2>2, <2>5 DEF PageTypes
<1>2. CASE Menu_Scane /\ ~onPage
  BY <1>2 DEF Menu_Scane, Display_Active_Alarm, OtherMenu, Other, PageTypes
<1>3. CASE Active_Alarm_Scane
  BY <1>3 DEF Active_Alarm_Scane, Raise, Clear, PassBy, PageTypes, page
<1>4. CASE ACS_AccessCheck
  BY <1>4 DEF ACS_AccessCheck, PageTypes, page
<1>5. CASE \E i \in Raisable : UpdateInfo(i)
  BY <1>5 DEF UpdateInfo, PageTypes, page
<1>6. CASE UNCHANGED vars
  BY <1>6 DEF vars, PageTypes, page
<1> QED BY <1>1, <1>2, <1>3, <1>4, <1>5, <1>6 DEF Next

\* TypeOK: with any number of alarms and any page size the counters of the
\* list and the page number stay in their ranges.
THEOREM TypeCorrect == Spec => []TypeOK
<1>1. Init => PageTypes
  BY InitPage
<1>2. RankInv /\ PageTypes => TypeOK
  BY TotalBound DEF TypeOK, RankInv, RankTypes, PageTypes
<1> QED BY InitRanks, NextRanks, NextPage, <1>1, <1>2, PTL DEF Spec

\* Every page up to the last one has an alarm.
LEMMA PagesReached ==
  ASSUME totalActiveAlarm \in Nat, totalActiveAlarm > 0,
         NEW n \in 0..(Pages - 1)
  PROVE  PageSize * n < totalActiveAlarm
<1> DEFINE t == totalActiveAlarm
           p == PageSize
           q == t \div p
<1>1. p \in Nat /\ p > 0 /\ t \in Nat /\ t > 0
  BY AlarmsAssumption
<1>2. /\ q \in Nat /\ t % p \in 0..(p - 1)
      /\ t = p * q + (t % p)
  BY <1>1, Division
<1>3. Pages = IF t % p = 0 THEN q ELSE q + 1
  BY DEF Pages
<1> HIDE DEF t, p, q
<1>4. n \in Nat /\ (t % p = 0 => n <= q - 1) /\ n <= q
  BY <1>2, <1>3
<1>5. p * n <= p * q
  BY <1>1, <1>2, <1>4
<1>6. CASE t % p = 0
  <2>1. n + 1 <= q
    BY <1>2, <1>4, <1>6
  <2>2. p * (n + 1) <= p * q
    BY <1>1, <1>2, <1>4, <2>1
  <2>3. p * (n + 1) = p * n + p
    BY <1>1, <1>4
  <2> QED BY <1>1, <1>2, <1>4, <1>6, <2>2, <2>3 DEF t, p
<1>7. CASE t % p # 0
  BY <1>1, <1>2, <1>4, <1>5, <1>7 DEF t, p
<1> QED BY <1>6, <1>7

\* DownShowsAlarms: whatever the list has become since the page number was
\* set, and for any page size, "down" leads to a page with alarms.
THEOREM DownFindsAlarms == Spec => DownShowsAlarms
<1>1. ASSUME RankInv, PageTypes, Menu_Scane, onPage, DownKey,
             totalActiveAlarm > 0
      PROVE  alarmPageIndex' >= 0 /\ PageSize * alarmPageIndex' < totalActiveAlarm
  <2>1. Pages \in 0..MaxPages /\ MaxPages \in Nat /\ totalActiveAlarm \in Nat
    BY <1>1, TotalBound, PagesBound, FirstPage
  <2>2. alarmPageIndex \in -1..(MaxPages - 1)
    BY <1>1 DEF PageTypes
  <2>3. \/ alarmPageIndex' = 0
        \/ alarmPageIndex' \in 0..(Pages - 1)
    BY <1>1, <2>1, <2>2 DEF DownKey
  <2>4. CASE alarmPageIndex' = 0
    BY <1>1, <2>1, <2>4, AlarmsAssumption
  <2>5. CASE alarmPageIndex' \in 0..(Pages - 1)
    <3>1. \A n \in 0..(Pages - 1) : PageSize * n < totalActiveAlarm
      BY <1>1, <2>1, PagesReached
    <3> QED BY <2>1, <2>5, <3>1
  <2> QED BY <2>3, <2>4, <2>5
<1>2. RankInv /\ PageTypes /\ [Next]_vars
        => [Menu_Scane /\ onPage /\ DownKey /\ totalActiveAlarm > 0
              => alarmPageIndex' >= 0 /\ PageSize * alarmPageIndex' < totalActiveAlarm
           ]_vars
  BY <1>1
<1>3. Init => PageTypes
  BY InitPage
<1> QED BY InitRanks, NextRanks, NextPage, <1>2, <1>3, PTL
        DEF Spec, DownShowsAlarms

-----------------------------------------------------------------------------
(***************************************************************************)
(* The scan lists what it passed.                                          *)
(***************************************************************************)
PassedListed == \A i \in 0..(scan - 1) : BetweenScans \/ (status[i] <=> checked[i])

\* The alarms that a scan has passed stay as it left them: the statuses do not
\* change before its end.
LEMMA NextPassed ==
  RankInv /\ PassedListed /\ [Next]_vars =>
    /\ PassedListed'
    /\ scan < NAlarms =>
         (\A i \in 0..scan : status[i] <=> checked'[i]) \/ UNCHANGED vars
<1> SUFFICES ASSUME RankInv, PassedListed, [Next]_vars
             PROVE  /\ PassedListed'
                    /\ scan < NAlarms =>
                         \/ \A i \in 0..scan : status[i] <=> checked'[i]
                         \/ UNCHANGED vars
  OBVIOUS
<1> USE DEF RankInv, RankTypes, BetweenScans
<1>0. NAlarms \in Nat /\ Alarms = 0..(NAlarms - 1)
  BY AlarmsAssumption DEF Alarms
<1>1. CASE Menu_Scane
  <2>1. scan = NAlarms /\ scan' = 0
    BY <1>1 DEF Menu_Scane
  <2> QED BY <1>0, <2>1 DEF PassedListed
<1>2. CASE Active_Alarm_Scane
  <2>1. /\ scan \in 0..(NAlarms - 1) /\ scan' = scan + 1
        /\ status' = status
    BY <1>0, <1>2 DEF Active_Alarm_Scane
  <2>2. status[scan] <=> checked'[scan]
    BY <1>0, <1>2, <2>1
       DEF Active_Alarm_Scane, Raise, Clear, PassBy, alarms
  <2>3. \A i \in 0..(scan - 1) : checked'[i] = checked[i]
    BY <1>0, <1>2, <2>1
       DEF Active_Alarm_Scane, Raise, Clear, PassBy, alarms
  <2>4. \A i \in 0..(scan - 1) : status[i] <=> checked[i]
    BY <2>1 DEF PassedListed
  <2>5. \A i \in 0..scan : status[i] <=> checked'[i]
    <3> SUFFICES ASSUME NEW i \in 0..scan PROVE status[i] <=> checked'[i]
      OBVIOUS
    <3>1. i = scan \/ i \in 0..(scan - 1)
      BY <2>1
    <3> QED BY <2>2, <2>3, <2>4, <3>1
  <2>6. scan' - 1 = scan
    BY <2>1
  <2>7. PassedListed'
    BY <2>1, <2>5, <2>6 DEF PassedListed
  <2> QED BY <2>5, <2>7
<1>3. CASE ACS_AccessCheck
  BY <1>0, <1>3 DEF ACS_AccessCheck, PassedListed, alarms
<1>4. CASE \E i \in Raisable : UpdateInfo(i)
  BY <1>0, <1>4 DEF UpdateInfo, PassedListed, alarms
<1>5. CASE UNCHANGED vars
  BY <1>5 DEF PassedListed, vars, alarms
<1> QED BY <1>1, <1>2, <1>3, <1>4, <1>5 DEF Next

\* ScanListsAll: a scan misses no condition and lists none that is over, for
\* any number of alarms.
THEOREM ScanMissesNothing == Spec => ScanListsAll
<1>1. Init => PassedListed
  BY DEF Init, PassedListed, BetweenScans
<1>2. ASSUME RankInv, PassedListed, RankInv', [Next]_vars
      PROVE  [scan < NAlarms =>
                \A i \in 0..scan : status[i] <=> index'[i] # 0]_vars
  <2>1. CASE UNCHANGED vars
    BY <2>1
  <2>2. CASE ~UNCHANGED vars
    <3>1. SUFFICES ASSUME scan < NAlarms, NEW i \in 0..scan
                   PROVE  status[i] <=> index'[i] # 0
      OBVIOUS
    <3>2. status[i] <=> checked'[i]
      BY <1>2, <2>2, <3>1, NextPassed
    <3>3. i \in Alarms
      BY <1>2, <3>1, AlarmsAssumption DEF Alarms, RankInv, RankTypes
    <3>4. checked'[i] <=> index'[i] # 0
      BY <1>2, <3>3 DEF RankInv, RanksExact
    <3> QED BY <3>2, <3>4
  <2> QED BY <2>1, <2>2
<1>3. RankInv /\ PassedListed /\ [Next]_vars => PassedListed'
  BY NextPassed
<1> QED BY InitRanks, NextRanks, <1>1, <1>2, <1>3, PTL DEF Spec, ScanListsAll

\* Nothing is out of the operator's sight.
THEOREM NothingIsHidden == Spec => NothingHidden
BY ScanMissesNothing, DownFindsAlarms, PTL DEF NothingHidden
-----------------------------------------------------------------------------
(***************************************************************************)
(* The page shows the list.                                                *)
(***************************************************************************)

\* Quotient and remainder are unique.
LEMMA DivisionUnique ==
  ASSUME NEW p \in Nat, p > 0, NEW q \in Nat, NEW r \in 0..(p - 1), NEW a \in Nat, a = p * q + r
  PROVE  a \div p = q /\ a % p = r
<1> DEFINE d == a \div p
           m == a % p
<1>1. d \in Nat /\ m \in 0..(p - 1) /\ a = p * d + m
  BY Division
<1> HIDE DEF d, m
<1>2. ~(q + 1 <= d)
  <2> SUFFICES ASSUME q + 1 <= d PROVE FALSE
    OBVIOUS
  <2>1. p * (q + 1) <= p * d
    BY <1>1
  <2>2. p * (q + 1) = p * q + p
    OBVIOUS
  <2>3. p * q \in Nat /\ p * d \in Nat
    BY <1>1
  <2> QED BY <1>1, <2>1, <2>2, <2>3
<1>3. ~(d + 1 <= q)
  <2> SUFFICES ASSUME d + 1 <= q PROVE FALSE
    OBVIOUS
  <2>1. p * (d + 1) <= p * q
    BY <1>1
  <2>2. p * (d + 1) = p * d + p
    BY <1>1
  <2>3. p * q \in Nat /\ p * d \in Nat
    BY <1>1
  <2> QED BY <1>1, <2>1, <2>2, <2>3
<1>4. d = q
  BY <1>1, <1>2, <1>3
<1>5. m = r
  <2>1. p * d = p * q /\ p * q \in Nat
    BY <1>4
  <2> QED BY <1>1, <2>1
<1> QED BY <1>4, <1>5 DEF d, m

\* The page and the line that a rank is drawn on are those of its number.
LEMMA LineOfRank ==
  ASSUME NEW x \in Nat, x > 0, NEW P \in Int, NEW l \in Lines
  PROVE  (x - 1) \div PageSize = P /\ Line(x) = l <=> x = PageSize * P + (l - 1)
<1> DEFINE p == PageSize
           q == (x - 1) \div p
           r == (x - 1) % p
<1>1. p \in Nat /\ p > 0 /\ x - 1 \in Nat /\ l \in Int /\ l - 1 \in 1..p
  BY AlarmsAssumption DEF Lines
<1>2. q \in Nat /\ r \in 0..(p - 1) /\ x - 1 = p * q + r
  BY <1>1, Division
<1>3. Line(x) = IF x % p # 0 THEN (x % p) + 1 ELSE p + 1
  BY DEF Line
<1> HIDE DEF p, q, r
<1>4. Line(x) = r + 2
  <2>1. CASE r < p - 1
    <3>1. x = p * q + (r + 1) /\ r + 1 \in 0..(p - 1)
      BY <1>1, <1>2, <2>1
    <3>2. x % p = r + 1
      BY <1>1, <1>2, <3>1, DivisionUnique
    <3> QED BY <1>2, <1>3, <3>2
  <2>2. CASE r = p - 1
    <3>1. p * (q + 1) = p * q + p
      BY <1>1, <1>2
    <3>2. x = p * (q + 1) + 0 /\ q + 1 \in Nat /\ 0 \in 0..(p - 1)
      BY <1>1, <1>2, <2>2, <3>1
    <3>3. x % p = 0
      BY <1>1, <3>2, DivisionUnique
    <3> QED BY <1>1, <1>3, <2>2, <3>3
  <2> QED BY <1>1, <1>2, <2>1, <2>2
<1>5. x = p * q + (r + 1)
  BY <1>1, <1>2
<1>6. ASSUME q = P, r + 2 = l PROVE x = p * P + (l - 1)
  BY <1>1, <1>2, <1>5, <1>6
<1>7. ASSUME x = p * P + (l - 1) PROVE q = P /\ r + 2 = l
  <2> DEFINE s == l - 2
  <2>1. s \in 0..(p - 1)
    BY <1>1
  <2>2. x - 1 = p * P + s
    <3>1. p * P \in Int
      BY <1>1
    <3> QED BY <1>1, <1>7, <3>1
  <2> HIDE DEF s
  <2>3. P \in Nat
    <3> SUFFICES ASSUME P + 1 <= 0 PROVE FALSE
      OBVIOUS
    <3>1. p * (P + 1) <= 0 /\ p * (P + 1) = p * P + p /\ p * P \in Int
      BY <1>1
    <3> QED BY <1>1, <2>1, <2>2, <3>1
  <2>4. (x - 1) \div p = P /\ (x - 1) % p = s
    BY <1>1, <2>1, <2>2, <2>3, DivisionUnique
  <2> QED BY <1>1, <2>4 DEF q, r, s
<1> QED BY <1>4, <1>6, <1>7 DEF p, q

\* The alarms that the page does not draw are never raised.
Undrawn == \A i \in Alarms : i >= Displayed => ~status[i] /\ ~checked[i]

\* What the page draws is the list.
LEMMA DrawnIsWanted ==
  ASSUME RankInv, PageTypes, Undrawn
  PROVE  Drawn = Wanted
<1> USE DEF RankInv, RankTypes
<1>1. ASSUME NEW l \in Lines, NEW n, n = PageSize * alarmPageIndex + (l - 1)
      PROVE  OnLine(l) = {i \in Alarms : index[i] = n /\ n > 0}
  <2>1. alarmPageIndex \in Int /\ n \in Int /\ Displayed \in 1..NAlarms /\ NAlarms \in Nat
    BY <1>1, AlarmsAssumption DEF PageTypes, Lines
  <2>2. \A i \in Alarms : index[i] > 0 => i \in 0..(Displayed - 1)
    BY <2>1 DEF RanksExact, Undrawn, Alarms
  <2>3. 0..(Displayed - 1) \subseteq Alarms
    BY <2>1 DEF Alarms
  <2>4. \A i \in Alarms : index[i] > 0 =>
          ((index[i] - 1) \div PageSize = alarmPageIndex /\ Line(index[i]) = l <=> index[i] = n)
    BY <1>1, <2>1, LineOfRank
  <2> QED BY <2>2, <2>3, <2>4 DEF OnLine
<1>2. ASSUME NEW l \in Lines, NEW n, n = PageSize * alarmPageIndex + (l - 1)
      PROVE  (IF OnLine(l) = {} THEN Blank
              ELSE CHOOSE i \in OnLine(l) : \A j \in OnLine(l) : j <= i)
               = IF \E i \in Alarms : index[i] = n /\ n > 0
                   THEN CHOOSE i \in Alarms : index[i] = n ELSE Blank
  <2>1. OnLine(l) = {i \in Alarms : index[i] = n /\ n > 0}
    BY <1>1, <1>2
  <2>2. CASE ~\E i \in Alarms : index[i] = n /\ n > 0
    BY <2>1, <2>2
  <2>3. CASE \E i \in Alarms : index[i] = n /\ n > 0
    <3>1. PICK a \in Alarms : index[a] = n /\ n > 0
      BY <2>3
    <3>2. \A i \in Alarms : index[i] = n => i = a
      BY <3>1 DEF RanksExact
    <3>3. OnLine(l) = {a}
      BY <2>1, <3>1, <3>2
    <3>4. a <= a
      BY <3>1, AlarmsAssumption DEF Alarms
    <3> DEFINE S == OnLine(l)
    <3>5. (CHOOSE i \in S : \A j \in S : j <= i) = a
      <4>1. S = {a}
        BY <3>3
      <4> HIDE DEF S
      <4> QED BY <3>4, <4>1
    <3>6. (CHOOSE i \in Alarms : index[i] = n) = a
      BY <3>1, <3>2
    <3>7. OnLine(l) # {}
      BY <3>3
    <3>8. (IF OnLine(l) = {} THEN Blank
           ELSE CHOOSE i \in OnLine(l) : \A j \in OnLine(l) : j <= i) = a
      BY <3>5, <3>7, Zenon DEF S
    <3>9. (IF \E i \in Alarms : index[i] = n /\ n > 0
             THEN CHOOSE i \in Alarms : index[i] = n ELSE Blank) = a
      BY <2>3, <3>6, Zenon
    <3> QED BY <3>8, <3>9, Zenon
  <2> QED BY <2>2, <2>3
<1>3. \A l \in Lines :
        (IF OnLine(l) = {} THEN Blank
         ELSE CHOOSE i \in OnLine(l) : \A j \in OnLine(l) : j <= i)
          = LET n == PageSize * alarmPageIndex + (l - 1) IN
            IF \E i \in Alarms : index[i] = n /\ n > 0
              THEN CHOOSE i \in Alarms : index[i] = n ELSE Blank
  BY <1>2
<1> QED BY <1>3, Zenon DEF Drawn, Wanted

LEMMA NextUndrawn == RankInv /\ Undrawn /\ [Next]_vars => Undrawn'
<1> SUFFICES ASSUME RankInv, Undrawn, [Next]_vars PROVE Undrawn'
  OBVIOUS
<1> USE DEF RankInv, RankTypes
<1>1. CASE \E i \in Raisable : UpdateInfo(i)
  <2>1. PICK i \in Raisable : UpdateInfo(i)
    BY <1>1
  <2>2. i \in Alarms /\ ~(i >= Displayed)
    BY AlarmsAssumption DEF Alarms
  <2>3. \A j \in Alarms : j # i => status'[j] = status[j]
    BY <2>1, <2>2 DEF UpdateInfo
  <2>4. checked' = checked
    BY <2>1 DEF UpdateInfo, alarms
  <2> QED BY <2>2, <2>3, <2>4 DEF Undrawn
<1>2. CASE Active_Alarm_Scane
  <2>1. scan \in Alarms /\ status' = status
    BY <1>2 DEF Active_Alarm_Scane
  <2>2. \A j \in Alarms : j # scan => checked'[j] = checked[j]
    BY <1>2, <2>1 DEF Active_Alarm_Scane, Raise, Clear, PassBy, alarms
  <2>3. checked'[scan] => status[scan] \/ checked[scan]
    BY <1>2, <2>1 DEF Active_Alarm_Scane, Raise, Clear, PassBy, alarms
  <2> QED BY <2>1, <2>2, <2>3 DEF Undrawn
<1>3. CASE Menu_Scane \/ ACS_AccessCheck \/ UNCHANGED vars
  BY <1>3 DEF Menu_Scane, ACS_AccessCheck, vars, alarms, Undrawn
<1> QED BY <1>1, <1>2, <1>3 DEF Next

\* What is shown stays what is wanted: a key that turns the page and a change
\* of the list have the display drawn again.
LEMMA NextShows ==
  RankInv /\ PageTypes /\ Undrawn /\ PageShowsList /\ [Next]_vars => PageShowsList'
<1> SUFFICES ASSUME RankInv, PageTypes, Undrawn, PageShowsList, [Next]_vars,
                    onPage', ~refesh'
             PROVE  screen' = Wanted'
  BY DEF PageShowsList
<1>1. ASSUME UNCHANGED <<alarms, alarmPageIndex>> PROVE Wanted' = Wanted
  BY <1>1 DEF alarms, Wanted
<1>2. CASE Menu_Scane /\ onPage
  <2>1. NoKey
    BY <1>2 DEF Menu_Scane, Display_Active_Alarm, OtherMenu, EnterKey, UpKey, DownKey, EscKey
  <2>2. Wanted' = Wanted
    BY <1>1, <1>2, <2>1 DEF Menu_Scane, NoKey
  <2>3. CASE refesh
    BY <2>1, <2>2, <2>3, DrawnIsWanted DEF NoKey, Draw
  <2>4. CASE ~refesh
    BY <1>2, <2>1, <2>2, <2>4 DEF NoKey, Draw, PageShowsList
  <2> QED BY <2>3, <2>4
<1>3. CASE Menu_Scane /\ ~onPage
  BY <1>3 DEF Menu_Scane, Display_Active_Alarm, OtherMenu
<1>4. CASE Active_Alarm_Scane
  <2>1. PassBy(scan) /\ UNCHANGED page
    BY <1>4 DEF Active_Alarm_Scane, Raise, Clear
  <2> QED BY <1>1, <2>1 DEF PassBy, page, PageShowsList
<1>5. CASE ACS_AccessCheck
  BY <1>5 DEF ACS_AccessCheck
<1>6. CASE (\E i \in Raisable : UpdateInfo(i)) \/ UNCHANGED vars
  <2>1. UNCHANGED <<alarms, page, refesh>>
    BY <1>6 DEF UpdateInfo, vars
  <2> QED BY <1>1, <2>1 DEF page, PageShowsList
<1> QED BY <1>2, <1>3, <1>4, <1>5, <1>6 DEF Next

\* DisplayExact: for any number of alarms and any page size, what the page
\* shows once it is drawn is the current list, in the order of the ranks
\* (menu.c:132-159 and 670-696).
THEOREM DisplayIsExact == Spec => []DisplayExact
<1>1. Init => Undrawn /\ PageShowsList
  BY DEF Init, Undrawn, PageShowsList
<1>2. Spec => [](RankInv /\ PageTypes /\ Undrawn /\ PageShowsList)
  BY InitRanks, NextRanks, InitPage, NextPage, NextUndrawn, NextShows, <1>1, PTL DEF Spec
<1> QED BY <1>2, PTL DEF RankInv, DisplayExact
-----------------------------------------------------------------------------
(***************************************************************************)
(* The ranks implement AlarmList.                                          *)
(***************************************************************************)
AtRank(n) == CHOOSE i \in Alarms : index[i] = n

\* Each rank up to the total has its alarm, and an alarm its rank.
LEMMA RankToAlarm ==
  ASSUME RankInv
  PROVE  /\ \A n \in 1..totalActiveAlarm :
              AtRank(n) \in Alarms /\ index[AtRank(n)] = n
         /\ \A i \in Alarms : index[i] # 0 => AtRank(index[i]) = i
BY DEF RankInv, RankTypes, RanksExact, AtRank

\* Raising alarm i puts it in front of the list.
LEMMA RaiseIsPush ==
  ASSUME RankInv, RankInv', NEW i \in Alarms, Raise(i)
  PROVE  List!Push(i)
<1> USE DEF RankInv, RankTypes
<1>1. /\ totalActiveAlarm' = totalActiveAlarm + 1
      /\ index[i] = 0
      /\ \A j \in Alarms :
           index'[j] = IF j = i THEN 1
                       ELSE IF index[j] # 0 THEN index[j] + 1 ELSE 0
  BY DEF Raise, RanksExact
<1>2. ~List!Listed(i)
  <2> SUFFICES ASSUME NEW n \in 1..totalActiveAlarm, AtRank(n) = i
               PROVE  FALSE
    BY DEF List!Listed, AtRank
  <2> QED BY <1>1, RankToAlarm
<1>3. \A n \in 1..totalActiveAlarm' :
        AtRank(n)' = IF n = 1 THEN i ELSE AtRank(n - 1)
  <2> SUFFICES ASSUME NEW n \in 1..totalActiveAlarm'
               PROVE  AtRank(n)' = IF n = 1 THEN i ELSE AtRank(n - 1)
    OBVIOUS
  <2>1. \A j \in Alarms : index'[j] # 0 /\ index'[j] = n => AtRank(n)' = j
    BY DEF RanksExact, AtRank
  <2>2. CASE n = 1
    BY <1>1, <2>1, <2>2
  <2>3. CASE n # 1
    <3>1. n - 1 \in 1..totalActiveAlarm
      BY <1>1, <2>3
    <3>2. AtRank(n - 1) \in Alarms /\ index[AtRank(n - 1)] = n - 1
      BY <3>1, RankToAlarm
    <3>3. index'[AtRank(n - 1)] = n /\ n # 0
      BY <1>1, <3>1, <3>2
    <3> QED BY <2>1, <2>3, <3>2, <3>3
  <2> QED BY <2>2, <2>3
<1>4. \A n \in 1..totalActiveAlarm + 1 :
        n # 1 => n - 1 \in 1..totalActiveAlarm
  OBVIOUS
<1> QED BY <1>1, <1>2, <1>3, <1>4 DEF List!Push, AtRank

\* Clearing alarm i removes it from its place.
LEMMA ClearIsRemove ==
  ASSUME RankInv, RankInv', NEW i \in Alarms, Clear(i), NEW k, k = index[i]
  PROVE  k \in 1..totalActiveAlarm /\ List!Remove(k)
<1> USE DEF RankInv, RankTypes
<1>1. /\ totalActiveAlarm' = totalActiveAlarm - 1
      /\ index[i] \in 1..totalActiveAlarm
      /\ \A j \in Alarms :
           index'[j] = IF j = i THEN 0
                       ELSE IF index[j] > index[i] THEN index[j] - 1
                       ELSE index[j]
  BY DEF Clear, RanksExact
<1>2. \A n \in 1..totalActiveAlarm' :
        AtRank(n)' = IF n < index[i] THEN AtRank(n) ELSE AtRank(n + 1)
  <2> SUFFICES ASSUME NEW n \in 1..totalActiveAlarm'
               PROVE  AtRank(n)'
                        = IF n < index[i] THEN AtRank(n) ELSE AtRank(n + 1)
    OBVIOUS
  <2>1. \A j \in Alarms : index'[j] # 0 /\ index'[j] = n => AtRank(n)' = j
    BY DEF RanksExact, AtRank
  <2> DEFINE m == IF n < index[i] THEN n ELSE n + 1
  <2>2. m \in 1..totalActiveAlarm /\ m # index[i] /\ n # 0
    BY <1>1
  <2>3. AtRank(m) \in Alarms /\ index[AtRank(m)] = m
    BY <2>2, RankToAlarm
  <2>4. index'[AtRank(m)] = n
    BY <1>1, <2>2, <2>3
  <2>5. AtRank(n)' = AtRank(m)
    BY <2>1, <2>2, <2>3, <2>4
  <2> QED BY <2>5
<1> DEFINE at == [n \in 1..totalActiveAlarm |-> AtRank(n)]
<1>3. \A n \in 1..totalActiveAlarm - 1 : at[n] = AtRank(n) /\ at[n + 1] = AtRank(n + 1)
  BY <1>1
<1>4. at' = [n \in 1..totalActiveAlarm - 1 |->
               IF n < k THEN at[n] ELSE at[n + 1]]
  BY <1>1, <1>2, <1>3
<1> QED BY <1>1, <1>4 DEF List!Remove, AtRank

\* IsAlarmList: for any number of alarms, the rank arithmetic of
\* Active_Alarm_Scane keeps a list with the newest alarm in front.
THEOREM RanksAreAList == Spec => IsAlarmList
<1>1. Init => List!ListInit
  <2> SUFFICES ASSUME Init PROVE List!ListInit
    OBVIOUS
  <2>1. totalActiveAlarm = 0 /\ 1..totalActiveAlarm = {} /\ 1..0 = {}
    BY DEF Init
  <2> QED BY <2>1 DEF List!ListInit
<1>2. RankInv /\ RankInv' /\ [Next]_vars
        => [List!ListNext]_(List!listVars)
  <2> SUFFICES ASSUME RankInv, RankInv', [Next]_vars
               PROVE  [List!ListNext]_(List!listVars)
    OBVIOUS
  <2>1. ASSUME UNCHANGED alarms PROVE UNCHANGED List!listVars
    BY <2>1 DEF alarms, List!listVars
  <2>2. CASE Active_Alarm_Scane
    <3>1. PICK i \in Alarms : Raise(i) \/ Clear(i) \/ PassBy(i)
      BY <2>2 DEF Active_Alarm_Scane
    <3>2. CASE Raise(i)
      BY <3>1, <3>2, RaiseIsPush DEF List!ListNext
    <3>3. CASE Clear(i)
      <4>1. PICK k : k = index[i]
        OBVIOUS
      <4>2. k \in 1..totalActiveAlarm /\ List!Remove(k)
        BY <3>3, <4>1, ClearIsRemove
      <4> QED BY <4>2 DEF List!ListNext
    <3>4. CASE PassBy(i)
      BY <2>1, <3>4 DEF PassBy
    <3> QED BY <3>1, <3>2, <3>3, <3>4
  <2>3. CASE ~Active_Alarm_Scane
    <3>1. UNCHANGED alarms
      BY <2>3 DEF Next, Menu_Scane, ACS_AccessCheck, UpdateInfo, vars
    <3> QED BY <2>1, <3>1
  <2> QED BY <2>2, <2>3
<1> QED BY <1>1, <1>2, InitRanks, NextRanks, PTL
        DEF Spec, IsAlarmList, List!ListSpec
=============================================================================
