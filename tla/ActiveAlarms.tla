---------------------------- MODULE ActiveAlarms ----------------------------
(***************************************************************************)
(* The list of active alarms and the page that shows it (menu.c), both run *)
(* by the user interface task, hello_task.  One turn of the task handles   *)
(* the page and then scans the alarms.  hello_task runs above the other    *)
(* task that changes a status, so statuses change between scans only.      *)
(*                                                                         *)
(* A definition marked "Slip" is a wrong variant of the one that follows;  *)
(* no action uses it.  It shows that a property would notice the slip.     *)
(***************************************************************************)
EXTENDS Integers, FiniteSets

CONSTANTS
  NAlarms,    \* ACTIVE_ALARM_NUMBER, 18
  Displayed,     \* the page draws the alarms below this number, 17
  Raisable,   \* the alarms whose status the program sets
  PageSize    \* the alarms on a page, 7

Alarms   == 0..(NAlarms - 1)
MaxPages == (NAlarms + PageSize - 1) \div PageSize

ASSUME AlarmsAssumption ==
  /\ NAlarms \in 1..127 /\ Displayed \in 1..NAlarms
  /\ PageSize \in Nat \ {0}
  /\ Raisable \subseteq 0..(Displayed - 1)

VARIABLES
  status,    \* sActive_Alarm[i].status: the condition holds
  checked,   \* sActive_Alarm[i].checked: the scan has listed it
  index,     \* sActive_Alarm[i].index: its rank in the list, 0 if not listed
  totalActiveAlarm,
  scan,      \* the next alarm to scan; NAlarms between two scans
  onPage,    \* the display is at the page of active alarms
  alarmPageIndex,
  refesh,    \* the display has to be drawn again
  screen     \* what its lines show

alarms == <<checked, index, totalActiveAlarm>>
page   == <<onPage, alarmPageIndex, screen>>
vars   == <<status, alarms, scan, page, refesh>>

Lines  == 2..(PageSize + 1)
Blank  == -1
Notice == [l \in Lines |-> -2]   \* "Don't have Active Alarm"
Other  == [l \in Lines |-> -3]   \* another menu
BetweenScans == scan = NAlarms

Init ==
  /\ status = [i \in Alarms |-> FALSE]
  /\ checked = [i \in Alarms |-> FALSE]
  /\ index = [i \in Alarms |-> 0]
  /\ totalActiveAlarm = 0
  /\ scan = NAlarms
  /\ onPage = FALSE /\ alarmPageIndex = 0 /\ refesh = FALSE
  /\ screen = Other
-----------------------------------------------------------------------------
(***************************************************************************)
(* UpdateInfo and rs485_task: a condition appears or disappears.           *)
(***************************************************************************)
UpdateInfo(i) ==
  /\ BetweenScans
  /\ status' = [status EXCEPT ![i] = ~@]
  /\ UNCHANGED <<alarms, scan, page, refesh>>
-----------------------------------------------------------------------------
(***************************************************************************)
(* Active_Alarm_Scane, one alarm a step.                                   *)
(***************************************************************************)

\* Slip: the new alarm goes to the end of the list.
RaiseAtEnd(i) ==
  /\ status[i] /\ ~checked[i]
  /\ totalActiveAlarm' = totalActiveAlarm + 1
  /\ index' = [index EXCEPT ![i] = totalActiveAlarm + 1]
  /\ checked' = [checked EXCEPT ![i] = TRUE]
  /\ refesh' = TRUE

Raise(i) ==
  /\ status[i] /\ ~checked[i]
  /\ totalActiveAlarm' = totalActiveAlarm + 1
  /\ index' = [j \in Alarms |-> IF j = i THEN 1
                                ELSE IF index[j] # 0 THEN index[j] + 1 ELSE 0]
  /\ checked' = [checked EXCEPT ![i] = TRUE]
  /\ refesh' = TRUE

\* Slip: the display is not drawn again.
ClearWithoutRefresh(i) ==
  /\ ~status[i] /\ checked[i]
  /\ index' = [j \in Alarms |-> IF j = i THEN 0
                                ELSE IF index[j] > index[i] THEN index[j] - 1
                                ELSE index[j]]
  /\ totalActiveAlarm' = totalActiveAlarm - 1
  /\ checked' = [checked EXCEPT ![i] = FALSE]
  /\ refesh' = refesh

Clear(i) ==
  /\ ~status[i] /\ checked[i]
  /\ index' = [j \in Alarms |-> IF j = i THEN 0
                                ELSE IF index[j] > index[i] THEN index[j] - 1
                                ELSE index[j]]
  /\ totalActiveAlarm' = totalActiveAlarm - 1
  /\ checked' = [checked EXCEPT ![i] = FALSE]
  /\ refesh' = TRUE

\* Slip: an alarm that is over is passed by.
PassByStatus(i) ==
  /\ status[i] = checked[i] \/ ~status[i]
  /\ UNCHANGED <<alarms, refesh>>

PassBy(i) ==
  /\ status[i] = checked[i]
  /\ UNCHANGED <<alarms, refesh>>

Active_Alarm_Scane ==
  /\ scan \in Alarms
  /\ Raise(scan) \/ Clear(scan) \/ PassBy(scan)
  /\ scan' = scan + 1
  /\ UNCHANGED <<status, page>>
-----------------------------------------------------------------------------
(***************************************************************************)
(* Display_Active_Alarm.  The page number is not adjusted when the list    *)
(* changes, nor when the page is entered.                                  *)
(***************************************************************************)
Pages == IF totalActiveAlarm % PageSize = 0
           THEN totalActiveAlarm \div PageSize
           ELSE totalActiveAlarm \div PageSize + 1

\* The line of the alarm of rank n on its page.
Line(n) == IF n % PageSize # 0 THEN (n % PageSize) + 1 ELSE PageSize + 1

OnLine(l) ==
  {i \in 0..(Displayed - 1) : /\ index[i] > 0
                           /\ (index[i] - 1) \div PageSize = alarmPageIndex
                           /\ Line(index[i]) = l}

\* Of two alarms written to one line the second stays.
Drawn ==
  IF totalActiveAlarm = 0 THEN Notice
  ELSE [l \in Lines |->
          IF OnLine(l) = {} THEN Blank
          ELSE CHOOSE i \in OnLine(l) : \A j \in OnLine(l) : j <= i]

Draw == screen' = IF refesh THEN Drawn ELSE screen

NoKey ==
  /\ Draw /\ refesh' = FALSE
  /\ UNCHANGED <<onPage, alarmPageIndex>>

EnterKey ==
  /\ Draw /\ refesh' = TRUE
  /\ UNCHANGED <<onPage, alarmPageIndex>>

UpKey ==
  /\ Draw /\ refesh' = TRUE
  /\ alarmPageIndex' = IF alarmPageIndex - 1 < 0 THEN Pages - 1
                       ELSE alarmPageIndex - 1
  /\ UNCHANGED onPage

\* Slip: the page number is not limited.
DownKeyUnlimited ==
  /\ Draw /\ refesh' = TRUE
  /\ alarmPageIndex' = alarmPageIndex + 1
  /\ UNCHANGED onPage

DownKey ==
  /\ Draw /\ refesh' = TRUE
  /\ alarmPageIndex' = IF alarmPageIndex + 1 > Pages - 1 THEN 0
                       ELSE alarmPageIndex + 1
  /\ UNCHANGED onPage

EscKey ==
  /\ Draw /\ refesh' = TRUE
  /\ onPage' = FALSE
  /\ UNCHANGED alarmPageIndex

Display_Active_Alarm ==
  /\ onPage
  /\ NoKey \/ EnterKey \/ UpKey \/ DownKey \/ EscKey

\* Another menu draws itself, or the user goes to the page of active alarms.
OtherMenu ==
  /\ ~onPage
  /\ screen' \in {screen, Other}
  /\ refesh' \in BOOLEAN
  /\ onPage' \in {FALSE, refesh'}
  /\ UNCHANGED alarmPageIndex

Menu_Scane ==
  /\ BetweenScans
  /\ Display_Active_Alarm \/ OtherMenu
  /\ scan' = 0
  /\ UNCHANGED <<status, alarms>>

\* A card at the reader has the display drawn again.
ACS_AccessCheck ==
  /\ BetweenScans
  /\ refesh' = TRUE
  /\ UNCHANGED <<status, alarms, scan, page>>

Next ==
  \/ Menu_Scane
  \/ Active_Alarm_Scane
  \/ ACS_AccessCheck
  \/ \E i \in Raisable : UpdateInfo(i)

Spec == Init /\ [][Next]_vars
-----------------------------------------------------------------------------
(***************************************************************************)
(* Properties.                                                             *)
(***************************************************************************)
Active == {i \in Alarms : checked[i]}

\* Every variable keeps its type; the page number stays in the range that
\* totalActiveAlarm allows, and is -1 when "up" is pressed on an empty list.
TypeOK ==
  /\ status \in [Alarms -> BOOLEAN]
  /\ checked \in [Alarms -> BOOLEAN]
  /\ index \in [Alarms -> Nat]
  /\ totalActiveAlarm \in 0..NAlarms
  /\ scan \in 0..NAlarms
  /\ onPage \in BOOLEAN /\ refesh \in BOOLEAN
  /\ alarmPageIndex \in -1..(MaxPages - 1)
  /\ DOMAIN screen = Lines

\* The ranks number the listed alarms from 1 without gaps and without
\* doubles, and there are totalActiveAlarm of them, in every step of a scan
\* that shifts the ranks in place.
RanksExact ==
  /\ totalActiveAlarm = Cardinality(Active)
  /\ \A i \in Alarms : checked[i] <=> index[i] # 0
  /\ \A i \in Alarms : index[i] <= totalActiveAlarm
  /\ \A i, j \in Alarms : index[i] = index[j] /\ index[i] # 0 => i = j
  /\ \A n \in 1..totalActiveAlarm : \E i \in Alarms : index[i] = n

\* When a scan has passed an alarm, the alarm is listed exactly if its
\* condition holds, and so are those passed before it, whatever was raised and
\* cleared on the way.
ScanListsAll ==
  [][scan < NAlarms =>
       \A i \in 0..scan : status[i] <=> index'[i] # 0]_vars

\* What the page is meant to show: the listed alarms in the order of their
\* ranks, PageSize of them to a page.
Wanted ==
  IF totalActiveAlarm = 0 THEN Notice
  ELSE [l \in Lines |->
          LET n == PageSize * alarmPageIndex + (l - 1) IN
          IF \E i \in Alarms : index[i] = n /\ n > 0
            THEN CHOOSE i \in Alarms : index[i] = n ELSE Blank]

\* Whenever nothing is waiting to be drawn, the page shows the current list:
\* no change of the list, of the page number or of the menu goes unnoticed.
PageShowsList == onPage /\ ~refesh => screen = Wanted

\* What is shown is right: the ranks, which are shifted in place, and the page
\* that is drawn from them.
DisplayExact == RanksExact /\ PageShowsList

\* Pressing "down" leads to a page with alarms as long as there are some, also
\* from a page that the list no longer reaches and from page -1.
DownShowsAlarms ==
  [][Menu_Scane /\ onPage /\ DownKey /\ totalActiveAlarm > 0
       => alarmPageIndex' >= 0 /\ PageSize * alarmPageIndex' < totalActiveAlarm
    ]_vars

\* No alarm is out of the operator's sight: the scan lists it, and "down" gets
\* to the pages that show it.
NothingHidden == ScanListsAll /\ DownShowsAlarms

\* The ranks implement a list with the newest alarm in front.
List == INSTANCE AlarmList WITH
          size <- totalActiveAlarm,
          at   <- [n \in 1..totalActiveAlarm |->
                     CHOOSE i \in Alarms : index[i] = n]
IsAlarmList == List!ListSpec
=============================================================================
