------------------------ MODULE AccessControlProofs -------------------------
(***************************************************************************)
(* Proofs about AccessPanel, for any number of users and cards of any      *)
(* length, and about UserTable, for numbers of any length.                 *)
(***************************************************************************)
EXTENDS AccessPanel, UserTable, TLAPS

(***************************************************************************)
(* AccessPanel.  The index is shared by all pages, so that an index that   *)
(* fits its page needs two facts besides: previousIndex is a row of the    *)
(* directory that Back returns to (WayBack), and no row is open on a page  *)
(* without rows or on one that is still to be drawn (Closed).  For the     *)
(* framing of the numbers see the section on the interrupt.                *)
(***************************************************************************)

Below == (Directories \cup Lists \cup Reports) \ {"main"}

\* What Back and the pages that reset the index rely on.
WayBack ==
  /\ page \in Below => previousIndex \in 0..Len(SubMenu[Parent[page]]) - 1
  /\ page \in {"main", "normal"} => previousIndex \in 0..3
  /\ page = "settingConfirm" => index = 0 /\ previousIndex = 0
  /\ page = "atsSetting" /\ init = 1 => index = 0

\* Only the pages with rows leave a row open, and none that is still to be drawn.
Closed == page \notin Lists \ {"userInfo"} \/ init = 1 => ajustValue = 0

ControlTypes ==
  /\ page \in Pages /\ index \in (0..12) \cup Users /\ previousIndex \in 0..5
  /\ ajustValue \in 0..1 /\ init \in 0..1 /\ mTempVal \in Switches

ControlInv == ControlTypes /\ SelectionFits /\ WayBack /\ Closed

-----------------------------------------------------------------------------
\* The tables: how many pages are below each directory, and which.
LEMMA Tables ==
  /\ Len(SubMenu["main"]) = 4 /\ Len(SubMenu["sysLog"]) = 2
  /\ Len(SubMenu["sysSetting"]) = 6 /\ Len(SubMenu["accesSetting"]) = 2
  /\ Len(SubMenu["networkConfig"]) = 3
  /\ \A d \in Directories : DOMAIN SubMenu[d] = 1..Len(SubMenu[d])
<1>1. /\ Len(SubMenu["main"]) = 4 /\ DOMAIN SubMenu["main"] = 1..4
      /\ Len(SubMenu["sysLog"]) = 2 /\ DOMAIN SubMenu["sysLog"] = 1..2
  BY DEF SubMenu
<1>2. Len(SubMenu["sysSetting"]) = 6 /\ DOMAIN SubMenu["sysSetting"] = 1..6
  BY DEF SubMenu
<1>3. /\ Len(SubMenu["accesSetting"]) = 2 /\ DOMAIN SubMenu["accesSetting"] = 1..2
      /\ Len(SubMenu["networkConfig"]) = 3 /\ DOMAIN SubMenu["networkConfig"] = 1..3
  BY DEF SubMenu
<1> QED BY <1>1, <1>2, <1>3 DEF Directories

\* The directory that a page is below.
Above(p) ==
  CASE p \in {"activeAlarm", "sysMonitor", "sysLog", "sysSetting"} -> "main"
    [] p \in {"operationLogs", "atsLogs"} -> "sysLog"
    [] p \in {"alarmSetting", "atsSetting", "accesSetting", "networkConfig",
              "datetimeConfig", "deviceInfo"} -> "sysSetting"
    [] p \in {"userId", "aircon"} -> "accesSetting"
    [] OTHER -> "networkConfig"

LEMMA EntryAbove ==
  \A d \in Directories : \A i \in DOMAIN SubMenu[d] :
    SubMenu[d][i] \in Below /\ Above(SubMenu[d][i]) = d
<1> SUFFICES ASSUME NEW d \in Directories, NEW i \in DOMAIN SubMenu[d]
             PROVE  SubMenu[d][i] \in Below /\ Above(SubMenu[d][i]) = d
  OBVIOUS
<1>1. CASE d = "main"
  BY <1>1 DEF SubMenu, Below, Directories, Lists, Reports, Above
<1>2. CASE d = "sysLog"
  BY <1>2 DEF SubMenu, Below, Directories, Lists, Reports, Above
<1>3. CASE d = "sysSetting"
  BY <1>3 DEF SubMenu, Below, Directories, Lists, Reports, Above
<1>4. CASE d = "accesSetting"
  BY <1>4 DEF SubMenu, Below, Directories, Lists, Reports, Above
<1>5. CASE d = "networkConfig"
  BY <1>5 DEF SubMenu, Below, Directories, Lists, Reports, Above
<1> QED BY <1>1, <1>2, <1>3, <1>4, <1>5 DEF Directories

LEMMA AboveEntry ==
  \A p \in Below : Above(p) \in Directories /\ \E i \in DOMAIN SubMenu[Above(p)] : SubMenu[Above(p)][i] = p
<1>1. /\ SubMenu["main"][1] = "activeAlarm" /\ SubMenu["main"][2] = "sysMonitor"
      /\ SubMenu["main"][3] = "sysLog" /\ SubMenu["main"][4] = "sysSetting"
      /\ SubMenu["sysLog"][1] = "operationLogs" /\ SubMenu["sysLog"][2] = "atsLogs"
  BY DEF SubMenu
<1>2. /\ SubMenu["sysSetting"][1] = "alarmSetting" /\ SubMenu["sysSetting"][2] = "atsSetting"
      /\ SubMenu["sysSetting"][3] = "accesSetting" /\ SubMenu["sysSetting"][4] = "networkConfig"
      /\ SubMenu["sysSetting"][5] = "datetimeConfig" /\ SubMenu["sysSetting"][6] = "deviceInfo"
  BY DEF SubMenu
<1>3. /\ SubMenu["accesSetting"][1] = "userId" /\ SubMenu["accesSetting"][2] = "aircon"
      /\ SubMenu["networkConfig"][1] = "deviceAddress" /\ SubMenu["networkConfig"][2] = "serverAddress"
      /\ SubMenu["networkConfig"][3] = "userInfo"
  BY DEF SubMenu
<1>4. \A p \in Below : Above(p) \in Directories
  BY DEF Below, Directories, Lists, Reports, Above
<1>5. SUFFICES ASSUME NEW p \in Below
               PROVE  \E i \in 1..Len(SubMenu[Above(p)]) : SubMenu[Above(p)][i] = p
  BY <1>4, Tables
<1>6. CASE p \in {"activeAlarm", "sysMonitor", "sysLog", "sysSetting"}
  BY <1>1, <1>6, Tables DEF Above
<1>7. CASE p \in {"operationLogs", "atsLogs"}
  BY <1>1, <1>7, Tables DEF Above
<1>8. CASE p \in {"alarmSetting", "atsSetting", "accesSetting", "networkConfig",
                  "datetimeConfig", "deviceInfo"}
  BY <1>2, <1>8, Tables DEF Above
<1>9. CASE p \in {"userId", "aircon"}
  BY <1>3, <1>9, Tables DEF Above
<1>10. CASE p \in {"deviceAddress", "serverAddress", "userInfo"}
  BY <1>3, <1>10, Tables DEF Above
<1> QED BY <1>6, <1>7, <1>8, <1>9, <1>10 DEF Below, Directories, Lists, Reports

\* The code's parentIndex, which the model finds in the table of pages.
LEMMA ParentIs == \A p \in Below : Parent[p] = Above(p)
<1> SUFFICES ASSUME NEW p \in Below PROVE Parent[p] = Above(p)
  OBVIOUS
<1> DEFINE P(d) == \E i \in DOMAIN SubMenu[d] : SubMenu[d][i] = p
<1>1. Parent[p] = CHOOSE d \in Directories : P(d)
  BY DEF Parent, Below
<1>2. Above(p) \in Directories /\ P(Above(p))
  BY AboveEntry
<1>3. \A d \in Directories : P(d) => d = Above(p)
  BY EntryAbove
<1> HIDE DEF P
<1> QED BY <1>1, <1>2, <1>3
-----------------------------------------------------------------------------
LEMMA Kinds ==
  /\ Directories \subseteq Pages /\ Below \subseteq Pages
  /\ Below = ((Directories \ {"main"}) \cup Lists) \cup Reports
  /\ \A p \in Pages : p \in Below \/ p \in {"main", "normal", "settingConfirm"}
  /\ \A p \in Below : p # "main" /\ p # "normal" /\ p # "settingConfirm"
  /\ \A d \in Directories : d \notin Lists /\ d \notin Reports /\ d # "normal" /\ d # "settingConfirm"
  /\ \A p \in Reports : p \notin Lists
  /\ \A p \in Lists : p \in Below /\ p \notin Directories
BY DEF Directories, Below, Lists, Reports, Pages

LEMMA Sizes ==
  /\ \A d \in Directories : Len(SubMenu[d]) \in 2..6
  /\ \A p \in Lists : Rows[p] \in Nat \ {0} /\ (Rows[p] <= 13 \/ Rows[p] = NUsers)
  /\ Rows["atsSetting"] = 11 /\ Rows["userId"] = NUsers /\ NUsers \in Nat \ {0}
BY Tables, PanelAssumption DEF Directories, Lists, Rows

LEMMA Modulo == \A n \in Nat \ {0} : \A i \in Int : i % n \in 0..n - 1
OBVIOUS

LEMMA Small == \A n \in 2..6 : 0 \in 0..n - 1 /\ \A i \in 0..n - 1 : i \in 0..12 /\ i \in 0..5
OBVIOUS

\* Select keeps the row within those of the page.
LEMMA Selected ==
  ASSUME ControlInv, ControlTypes', Select(index'), UNCHANGED mTempVal,
         page \in Directories => index' \in 0..Len(SubMenu[page]) - 1,
         page \in Lists => index' \in 0..Rows[page] - 1,
         page = "atsSetting" => init = 0 /\ ~AtsHidden(index'),
         page # "settingConfirm"
  PROVE  ControlInv'
BY DEF ControlInv, SelectionFits, WayBack, Closed, Select, AtsHidden

\* A way to another page.
LEMMA Reached ==
  ASSUME ControlTypes', Goto(page', index', previousIndex'), ajustValue' = 0,
         page' \in Directories => index' \in 0..Len(SubMenu[page']) - 1,
         page' \in Lists => index' = 0,
         page' \in Below => previousIndex' \in 0..Len(SubMenu[Parent[page']]) - 1,
         page' \in {"main", "normal"} => previousIndex' \in 0..3,
         page' = "settingConfirm" => index' = 0 /\ previousIndex' = 0
  PROVE  ControlInv'
<1>1. SelectionFits'
  BY Sizes, Kinds DEF SelectionFits, Goto, ControlTypes
<1>2. WayBack' /\ Closed'
  BY Kinds DEF WayBack, Closed, Goto, Lists
<1> QED BY <1>1, <1>2 DEF ControlInv
LEMMA ControlInit == Init => ControlInv
<1> SUFFICES ASSUME Init PROVE ControlInv
  OBVIOUS
<1>1. ControlTypes
  BY DEF Init, ControlTypes, Pages, Unread, Switches
<1>2. SelectionFits /\ WayBack /\ Closed
  BY Kinds DEF Init, SelectionFits, WayBack, Closed, Directories, Lists
<1> QED BY <1>1, <1>2 DEF ControlInv

\* A step of the check, of UpdateInfo or of the interrupt is none of the menu's.
LEMMA ControlSame ==
  ASSUME ControlInv, UNCHANGED <<control, mTempVal>>
  PROVE  ControlInv'
BY DEF ControlInv, ControlTypes, SelectionFits, WayBack, Closed, AtsHidden, control

LEMMA Begun == ControlInv /\ BeginPage => ControlInv'
<1> SUFFICES ASSUME ControlInv, BeginPage PROVE ControlInv'
  OBVIOUS
<1>1. /\ UNCHANGED <<page, index, previousIndex, ajustValue>> /\ init = 1 /\ init' = 0
      /\ mTempVal' \in Switches
  BY DEF BeginPage, Unread, Switches
<1>2. SelectionFits'
  BY <1>1 DEF ControlInv, SelectionFits, WayBack, AtsHidden
<1>3. ControlTypes' /\ WayBack' /\ Closed'
  BY <1>1 DEF ControlInv, ControlTypes, WayBack, Closed
<1> QED BY <1>2, <1>3 DEF ControlInv

\* From a page back to the directory it is below, at the row it was entered from.
LEMMA ParentReached ==
  ASSUME ControlInv, page \in Below,
         page' = Parent[page], index' = previousIndex, init' = 1, ajustValue' = 0,
         previousIndex' = 0 \/ (Parent[page] = "main" /\ previousIndex' = previousIndex),
         UNCHANGED mTempVal
  PROVE  ControlInv'
<1>1. Parent[page] \in Directories
  BY ParentIs, AboveEntry
<1>2. index' \in 0..Len(SubMenu[page']) - 1
  BY DEF ControlInv, WayBack
<1>3. Parent[page] = "main" => previousIndex \in 0..3
  <2> SUFFICES ASSUME Parent[page] = "main" PROVE previousIndex \in 0..3
    OBVIOUS
  <2>1. previousIndex \in 0..Len(SubMenu["main"]) - 1
    BY DEF ControlInv, WayBack
  <2>2. Len(SubMenu["main"]) - 1 = 3
    BY Tables
  <2> QED BY <2>1, <2>2
<1>4. previousIndex' \in 0..3 /\ (page' # "main" => previousIndex' = 0)
  BY <1>3
<1>5. Len(SubMenu[page']) \in 2..6
  BY <1>1, Sizes
<1>6. page' \in Pages /\ page' \notin Lists /\ page' # "settingConfirm"
  BY <1>1, Kinds
<1>7. index' \in 0..12 /\ previousIndex' \in 0..5
  <2>1. index' \in 0..12
    BY <1>2, <1>5, Small
  <2> QED BY <1>4, <2>1
<1>8. ControlTypes'
  BY <1>6, <1>7 DEF ControlInv, ControlTypes
<1>9. page' \in Below => previousIndex' \in 0..Len(SubMenu[Parent[page']]) - 1
  <2> SUFFICES ASSUME page' \in Below PROVE previousIndex' \in 0..Len(SubMenu[Parent[page']]) - 1
    OBVIOUS
  <2>1. page' # "main" /\ Parent[page'] \in Directories
    BY Kinds, ParentIs, AboveEntry
  <2>2. Len(SubMenu[Parent[page']]) \in 2..6
    BY <2>1, Sizes
  <2> QED BY <1>4, <2>1, <2>2, Small
<1>10. Goto(page', index', previousIndex')
  BY DEF Goto
<1> QED BY <1>2, <1>4, <1>6, <1>8, <1>9, <1>10, Reached

LEMMA DirectorySteps ==
  ASSUME ControlInv, NEW d \in Directories,
         DirectoryMove(d) \/ DirectoryEnter(d) \/ DirectoryLeave(d)
  PROVE  ControlInv'
<1> DEFINE n == Len(SubMenu[d])
<1>1. page = d /\ init = 0 /\ mTempVal' = mTempVal /\ index \in 0..n - 1 /\ n \in 2..6
  BY Sizes DEF DirectoryMove, DirectoryEnter, DirectoryLeave, Key, ControlInv, SelectionFits
<1>2. ajustValue = 0
  BY <1>1, Kinds DEF ControlInv, Closed
<1>3. CASE DirectoryMove(d)
  <2>1. index' = (index + 1) % n \/ index' = (index - 1) % n
    BY <1>3 DEF DirectoryMove, Select
  <2>2. UNCHANGED <<page, previousIndex, ajustValue, init>>
    BY <1>3 DEF DirectoryMove, Select
  <2>3. index' \in 0..n - 1
    <3> HIDE DEF n
    <3>1. n \in Nat \ {0} /\ index + 1 \in Int /\ index - 1 \in Int
      BY <1>1
    <3> QED BY <3>1, <2>1, Modulo
  <2>4. page \notin Lists /\ page # "settingConfirm" /\ page # "atsSetting"
    BY <1>1, Kinds DEF Lists
  <2>5. index' \in 0..12
    <3> HIDE DEF n
    <3> QED BY <1>1, <2>3, Small
  <2>6. ControlTypes'
    BY <1>1, <2>2, <2>5 DEF ControlInv, ControlTypes
  <2>7. Select(index')
    BY <2>2 DEF Select
  <2> QED BY <1>1, <2>3, <2>4, <2>6, <2>7, Selected
<1>4. CASE DirectoryEnter(d)
  <2>1. /\ page' = SubMenu[d][index + 1] /\ index' = 0 /\ previousIndex' = index
        /\ init' = 1 /\ ajustValue' = 0
    BY <1>2, <1>4 DEF DirectoryEnter, Goto
  <2>2. index + 1 \in DOMAIN SubMenu[d]
    BY <1>1, Tables
  <2>3. page' \in Below /\ Parent[page'] = d
    BY <2>1, <2>2, EntryAbove, ParentIs
  <2>4. page' \in Pages /\ page' \notin {"main", "normal", "settingConfirm"}
    BY <2>3, Kinds
  <2>5. previousIndex' \in 0..5 /\ index' \in 0..12
    <3> HIDE DEF n
    <3> QED BY <1>1, <2>1, Small
  <2>6. ControlTypes'
    BY <1>1, <2>1, <2>4, <2>5 DEF ControlInv, ControlTypes
  <2>7. Goto(page', index', previousIndex')
    BY <2>1 DEF Goto
  <2>8. page' \in Directories => index' \in 0..Len(SubMenu[page']) - 1
    BY <2>1, Sizes, Small
  <2>9. page' \in Below => previousIndex' \in 0..Len(SubMenu[Parent[page']]) - 1
    BY <1>1, <2>1, <2>3
  <2> QED BY <2>1, <2>4, <2>6, <2>7, <2>8, <2>9, Reached
<1>5. CASE DirectoryLeave(d)
  <2>1. CASE d = "main"
    <3>1. /\ page' = "normal" /\ index' = previousIndex /\ previousIndex' = 0
          /\ Goto(page', index', previousIndex') /\ ajustValue' = 0
      BY <1>2, <1>5, <2>1 DEF DirectoryLeave, Goto
    <3>2. ControlTypes'
      BY <1>1, <1>2, <3>1 DEF ControlInv, ControlTypes, Goto, Pages
    <3> QED BY <3>1, <3>2, Kinds, Reached
  <2>2. CASE d # "main"
    <3>1. /\ page' = Parent[d] /\ index' = previousIndex /\ previousIndex' = 0
          /\ init' = 1 /\ ajustValue' = 0
      BY <1>2, <1>5, <2>2 DEF DirectoryLeave, Goto
    <3>2. d \in Below
      BY <2>2, Kinds
    <3>3. page \in Below /\ page' = Parent[page] /\ UNCHANGED mTempVal
      BY <1>1, <3>1, <3>2
    <3> QED BY <3>1, <3>3, ParentReached
  <2> QED BY <2>1, <2>2
<1> QED BY <1>3, <1>4, <1>5

\* Up and down on the page of the transfer switch come to a row it shows.
LEMMA AtsMoves ==
  ASSUME mTempVal \in Switches, NEW i \in 0..10, ~AtsHidden(i)
  PROVE  /\ AtsUp(i) \in 0..10 /\ ~AtsHidden(AtsUp(i))
         /\ AtsDown(i) \in 0..10 /\ ~AtsHidden(AtsDown(i))
<1>1. /\ mTempVal.reset = 0 \/ mTempVal.reset = 1
      /\ mTempVal.night = 0 \/ mTempVal.night = 1
  BY DEF Switches
<1>2. AtsUp(i) \in 0..10 /\ ~AtsHidden(AtsUp(i))
  BY <1>1 DEF AtsUp, AtsHidden
<1>3. AtsDown(i) \in 0..10 /\ ~AtsHidden(AtsDown(i))
  BY <1>1 DEF AtsDown, AtsHidden
<1> QED BY <1>2, <1>3

LEMMA RowTypes ==
  \A p \in Lists : \A i \in 0..Rows[p] - 1 : i \in (0..12) \cup Users
<1> SUFFICES ASSUME NEW p \in Lists, NEW i \in 0..Rows[p] - 1
             PROVE  i \in (0..12) \cup Users
  OBVIOUS
<1> DEFINE r == Rows[p]
<1>1. r \in Nat /\ (r <= 13 \/ r = NUsers) /\ i \in 0..r - 1
  BY Sizes
<1> HIDE DEF r
<1> QED BY <1>1 DEF Users

LEMMA ListMoveSteps ==
  ASSUME ControlInv, NEW p \in Lists, ListMove(p)
  PROVE  ControlInv'
<1>1. page = p /\ init = 0 /\ mTempVal' = mTempVal /\ index \in 0..Rows[p] - 1
  BY DEF ListMove, Key, ControlInv, SelectionFits
<1>2. UNCHANGED <<page, previousIndex, ajustValue, init>> /\ Select(index')
  BY DEF ListMove, Select
<1>3. CASE p = "atsSetting"
  <2>1. index \in 0..10 /\ mTempVal \in Switches /\ ~AtsHidden(index)
    <3>1. Rows["atsSetting"] - 1 = 10
      BY Sizes
    <3> QED BY <1>1, <1>3, <3>1 DEF ControlInv, SelectionFits, ControlTypes
  <2>2. index' = AtsUp(index) \/ index' = AtsDown(index)
    BY <1>3 DEF ListMove, Select
  <2>3. index' \in 0..10 /\ ~AtsHidden(index')
    BY <2>1, <2>2, AtsMoves
  <2>4. index' \in 0..Rows[p] - 1
    BY <1>3, <2>3, Sizes
  <2>5. ControlTypes'
    BY <1>1, <1>2, <2>3 DEF ControlInv, ControlTypes
  <2> QED BY <1>1, <1>2, <1>3, <2>3, <2>4, <2>5, Selected, Kinds
<1>4. CASE p # "atsSetting"
  <2> DEFINE r == Rows[p]
  <2>1. index' = (index + 1) % r \/ index' = (index - 1) % r
    BY <1>4 DEF ListMove, Select
  <2>2. r \in Nat \ {0} /\ index \in 0..r - 1
    BY <1>1, Sizes
  <2>3. index' \in 0..r - 1
    <3> HIDE DEF r
    <3>1. index + 1 \in Int /\ index - 1 \in Int
      BY <2>2
    <3> QED BY <2>1, <2>2, <3>1, Modulo
  <2>4. ControlTypes'
    BY <1>1, <1>2, <2>3, RowTypes DEF ControlInv, ControlTypes
  <2> QED BY <1>1, <1>2, <1>4, <2>3, <2>4, Selected, Kinds
<1> QED BY <1>3, <1>4

\* A switch is changed in a row that no switch hides.
LEMMA AdjustSteps ==
  ASSUME ControlInv, NEW p \in Lists, Adjust(p)
  PROVE  ControlInv'
<1>1. /\ UNCHANGED <<page, index, previousIndex, ajustValue, init>>
      /\ page = p /\ init = 0 /\ mTempVal \in Switches
  BY DEF Adjust, control, Key, ControlInv, ControlTypes
<1>2. CASE p = "atsSetting" /\ index \in {2, 6, 9}
  <2>1. mTempVal' \in Switches
    <3>1. CASE index = 2
      BY <1>1, <1>2, <3>1 DEF Adjust, Switches
    <3>2. CASE index = 6
      BY <1>1, <1>2, <3>2 DEF Adjust, Switches
    <3>3. CASE index = 9
      <4>1. PICK d \in {1, 2} : mTempVal' = [mTempVal EXCEPT !.dcLow = (@ + d) % 3]
        BY <1>2, <3>3 DEF Adjust
      <4>2. mTempVal.dcLow \in 0..2 /\ (mTempVal.dcLow + d) % 3 \in 0..2
        BY <1>1 DEF Switches
      <4> QED BY <1>1, <4>1, <4>2 DEF Switches
    <3> QED BY <1>2, <3>1, <3>2, <3>3
  <2>2. ~AtsHidden(index)'
    BY <1>1, <1>2 DEF AtsHidden
  <2>3. SelectionFits'
    BY <1>1, <2>2 DEF ControlInv, SelectionFits
  <2>4. ControlTypes' /\ WayBack' /\ Closed'
    BY <1>1, <2>1 DEF ControlInv, ControlTypes, WayBack, Closed
  <2> QED BY <2>3, <2>4 DEF ControlInv
<1>3. CASE ~(p = "atsSetting" /\ index \in {2, 6, 9})
  <2>1. UNCHANGED mTempVal
    BY <1>3 DEF Adjust
  <2> QED BY <1>1, <2>1, ControlSame DEF control
<1> QED BY <1>2, <1>3

LEMMA OpenSteps ==
  ASSUME ControlInv, page \in Lists, page # "userInfo", init = 0, ajustValue' \in 0..1,
         UNCHANGED <<page, index, previousIndex, init, mTempVal>>
  PROVE  ControlInv'
BY DEF ControlInv, ControlTypes, SelectionFits, WayBack, Closed, AtsHidden

LEMMA ListSteps ==
  ASSUME ControlInv, NEW p \in Lists,
         ListMove(p) \/ Adjust(p) \/ OpenOrStore(p) \/ ListLeave(p)
  PROVE  ControlInv'
<1>1. CASE OpenOrStore(p)
  <2>1. ajustValue' \in 0..1
    BY <1>1 DEF OpenOrStore, ControlInv, ControlTypes
  <2> QED BY <1>1, <2>1, OpenSteps DEF OpenOrStore, Key
<1>2. CASE ListLeave(p)
  <2>1. page = p /\ ajustValue' = 0 /\ UNCHANGED mTempVal /\ init' = 1
    BY <1>2 DEF ListLeave, Key, Goto
  <2>2. CASE p = "deviceAddress"
    <3>1. /\ page' = "settingConfirm" /\ index' = 0 /\ previousIndex' = 0
          /\ Goto(page', index', previousIndex')
      BY <1>2, <2>2 DEF ListLeave, Goto
    <3>2. ControlTypes'
      BY <2>1, <3>1 DEF ControlInv, ControlTypes, Pages
    <3> QED BY <2>1, <3>1, <3>2, Kinds, Reached
  <2>3. CASE p # "deviceAddress"
    <3>1. page' = Parent[page] /\ index' = previousIndex /\ previousIndex' = 0
      BY <1>2, <2>1, <2>3 DEF ListLeave, Goto
    <3>2. page \in Below
      BY <2>1, Kinds
    <3> QED BY <2>1, <3>1, <3>2, ParentReached
  <2> QED BY <2>2, <2>3
<1> QED BY <1>1, <1>2, ListMoveSteps, AdjustSteps

LEMMA ReportSteps ==
  ASSUME ControlInv, NEW p \in Reports, ReportLeave(p)
  PROVE  ControlInv'
<1>1. page = p /\ UNCHANGED mTempVal /\ init' = 1 /\ page' = Parent[page] /\ index' = previousIndex
  BY DEF ReportLeave, Key, Goto
<1>2. page \in Below /\ ajustValue = 0
  BY <1>1, Kinds DEF ControlInv, Closed
<1>3. ajustValue' = 0
  BY <1>2 DEF ReportLeave
<1>4. previousIndex' = 0 \/ (Parent[page] = "main" /\ previousIndex' = previousIndex)
  BY <1>1, <1>2, ParentIs DEF ReportLeave, Goto, Above
<1> QED BY <1>1, <1>2, <1>3, <1>4, ParentReached

LEMMA StartSteps == ControlInv /\ StartMenu => ControlInv'
<1> SUFFICES ASSUME ControlInv, StartMenu PROVE ControlInv'
  OBVIOUS
<1>1. /\ page = "normal" /\ page' = "main" /\ index' = 0 /\ previousIndex' = previousIndex
      /\ init' = 1 /\ ajustValue' = ajustValue /\ mTempVal' = mTempVal
      /\ Goto(page', index', previousIndex')
  BY DEF StartMenu, Key, Goto
<1>2. ajustValue' = 0 /\ previousIndex' \in 0..3
  BY <1>1, Kinds DEF ControlInv, Closed, WayBack, Lists
<1>3. ControlTypes'
  BY <1>1, <1>2 DEF ControlInv, ControlTypes, Pages, Directories
<1>4. page' \in Directories => index' \in 0..Len(SubMenu[page']) - 1
  BY <1>1, Sizes, Small
<1> QED BY <1>1, <1>2, <1>3, <1>4, Kinds, Reached

LEMMA ConfirmSteps == ControlInv /\ ConfirmLeave => ControlInv'
<1> SUFFICES ASSUME ControlInv, ConfirmLeave PROVE ControlInv'
  OBVIOUS
<1>1. page = "settingConfirm" /\ index = 0 /\ previousIndex = 0 /\ ajustValue = 0
  BY DEF ConfirmLeave, Key, ControlInv, WayBack, Closed, Lists
<1>2. /\ page' = "networkConfig" /\ index' = 0 /\ previousIndex' = 0 /\ ajustValue' = 0
      /\ init' = 1 /\ mTempVal' = mTempVal /\ Goto(page', index', previousIndex')
  BY <1>1 DEF ConfirmLeave, Goto
<1>3. ControlTypes'
  BY <1>2 DEF ControlInv, ControlTypes, Pages, Directories
<1>4. page' \in Directories => index' \in 0..Len(SubMenu[page']) - 1
  BY <1>2, Sizes, Small
<1>5. previousIndex' \in 0..Len(SubMenu[Parent[page']]) - 1
  <2>1. Parent[page'] \in Directories
    BY <1>2, ParentIs, AboveEntry DEF Below, Directories
  <2> QED BY <1>2, <2>1, Sizes, Small
<1> QED BY <1>2, <1>3, <1>4, <1>5, Reached DEF Lists

LEMMA UserSteps ==
  ASSUME ControlInv, UserErase \/ UserOpen \/ UserStore \/ UserLeave
  PROVE  ControlInv'
<1>1. CASE UserErase
  BY <1>1, ControlSame DEF UserErase
<1>2. CASE UserOpen
  BY <1>2, OpenSteps DEF UserOpen, Key, Lists
<1>3. CASE UserStore
  BY <1>3, OpenSteps DEF UserStore, Key, Lists
<1>4. CASE UserLeave
  <2>1. /\ page \in Below /\ page' = Parent[page] /\ index' = previousIndex /\ previousIndex' = 0
        /\ init' = 1 /\ ajustValue' = 0 /\ UNCHANGED mTempVal
    BY <1>4 DEF UserLeave, Key, Goto, Below, Lists
  <2> QED BY <2>1, ParentReached
<1> QED BY <1>1, <1>2, <1>3, <1>4

LEMMA ControlStep == ControlInv /\ [Next]_vars => ControlInv'
<1> SUFFICES ASSUME ControlInv, [Next]_vars PROVE ControlInv'
  OBVIOUS
<1>1. CASE Menu_Scane
  <2>1. CASE NoKey
    BY <2>1, ControlSame DEF NoKey
  <2> QED BY <1>1, <2>1, Begun, StartSteps, ConfirmSteps, DirectorySteps, ReportSteps,
             ListSteps, UserSteps DEF Menu_Scane
<1>2. CASE ACS_AccessCheck \/ UpdateInfo \/ RS4852_UART_IRQHandler \/ UNCHANGED vars
  <2>1. UNCHANGED <<control, mTempVal>>
    BY <1>2 DEF ACS_AccessCheck, TakeNumber, NoNumber, Enable, ResetCount, UpdateInfo,
                RS4852_UART_IRQHandler, vars
  <2> QED BY <2>1, ControlSame
<1> QED BY <1>1, <1>2 DEF Next
-----------------------------------------------------------------------------
(***************************************************************************)
(* Learning a card: unless the page of users was left with a row open, the *)
(* flag is set exactly while a row is open.                                *)
(***************************************************************************)
LearnTypes == learnUID \in 0..1 /\ TempUserID \in [Users -> Contents] /\ strayed \in BOOLEAN

Learning ==
  /\ (learnUID = 1) <=> (page = "userId" /\ ajustValue = 1)
  /\ learnUID = 1 => index \in Users
  /\ \A u \in Users : TempUserID[u] # "early"
  /\ page = "userId" /\ init = 0 =>
       \A u \in Users : TempUserID[u] # "stored" => u = index /\ ajustValue = 1

LEMMA LearnsOr ==
  /\ LearnsForOpenRow <=> (strayed \/ Learning)
  /\ LearnsForOpenRow' <=> (strayed' \/ Learning')
BY DEF LearnsForOpenRow, Learning

LEMMA LearnTypesStep == ControlInv /\ LearnTypes /\ [Next]_vars => LearnTypes'
<1> SUFFICES ASSUME ControlInv, LearnTypes, [Next]_vars PROVE LearnTypes'
  OBVIOUS
<1>1. learnUID' \in 0..1
  BY DEF LearnTypes, Next, Menu_Scane, BeginPage, NoKey, StartMenu, ConfirmLeave, DirectoryMove,
         DirectoryEnter, DirectoryLeave, ReportLeave, ListMove, Adjust, OpenOrStore, ListLeave,
         UserErase, UserOpen, UserStore, UserLeave, ACS_AccessCheck, TakeNumber, NoNumber, Enable,
         ResetCount, UpdateInfo, RS4852_UART_IRQHandler, learn, vars
<1>2. TempUserID' \in [Users -> Contents]
  BY DEF LearnTypes, Next, Menu_Scane, BeginPage, NoKey, StartMenu, ConfirmLeave, DirectoryMove,
         DirectoryEnter, DirectoryLeave, ReportLeave, ListMove, Adjust, OpenOrStore, ListLeave,
         UserErase, UserOpen, UserStore, UserLeave, ACS_AccessCheck, TakeNumber, NoNumber, Enable,
         ResetCount, UpdateInfo, RS4852_UART_IRQHandler, learn, vars, Learn, Contents
<1>3. strayed' \in BOOLEAN
  BY DEF LearnTypes, Next, Menu_Scane, BeginPage, NoKey, StartMenu, ConfirmLeave, DirectoryMove,
         DirectoryEnter, DirectoryLeave, ReportLeave, ListMove, Adjust, OpenOrStore, ListLeave,
         UserErase, UserOpen, UserStore, UserLeave, ACS_AccessCheck, TakeNumber, NoNumber, Enable,
         ResetCount, UpdateInfo, RS4852_UART_IRQHandler, learn, vars
<1> QED BY <1>1, <1>2, <1>3 DEF LearnTypes

\* The steps of the menu on other pages, and those that come to a page.
LEMMA LearnElsewhere ==
  ASSUME ControlInv', LearnsForOpenRow, UNCHANGED learn, page # "userId",
         page' = page \/ init' = 1
  PROVE  LearnsForOpenRow'
<1>1. CASE strayed
  BY <1>1 DEF learn, LearnsForOpenRow
<1>2. CASE Learning
  <2>1. learnUID' # 1 /\ TempUserID' = TempUserID
    BY <1>2 DEF learn, Learning
  <2>2. page' = "userId" => init' = 1 /\ ajustValue' = 0
    BY DEF ControlInv, Closed
  <2>3. Learning'
    BY <1>2, <2>1, <2>2 DEF Learning
  <2> QED BY <2>3, LearnsOr
<1> QED BY <1>1, <1>2, LearnsOr

LEMMA LearnBegins ==
  ASSUME ControlInv, LearnsForOpenRow, BeginPage
  PROVE  LearnsForOpenRow'
<1>1. /\ UNCHANGED <<page, index, ajustValue, learnUID>> /\ ajustValue = 0
  BY DEF BeginPage, ControlInv, Closed
<1>2. CASE page # "userId"
  <2>1. strayed' = strayed /\ TempUserID' = TempUserID
    BY <1>2 DEF BeginPage
  <2>2. Learning => Learning'
    BY <1>1, <1>2, <2>1 DEF Learning
  <2> QED BY <2>1, <2>2, LearnsOr DEF LearnsForOpenRow
<1>3. CASE page = "userId"
  <2>1. TempUserID' = [u \in Users |-> "stored"] /\ strayed' = (strayed /\ learnUID = 1)
    BY <1>3 DEF BeginPage
  <2>2. CASE learnUID = 1
    <3>1. ~Learning
      BY <1>1, <2>2 DEF Learning
    <3> QED BY <2>1, <2>2, <3>1, LearnsOr DEF LearnsForOpenRow
  <2>3. CASE learnUID # 1
    <3>1. Learning'
      BY <1>1, <2>1, <2>3 DEF Learning
    <3> QED BY <3>1, LearnsOr
  <2> QED BY <2>2, <2>3
<1> QED BY <1>2, <1>3

LEMMA LearnUserSteps ==
  ASSUME ControlInv, LearnTypes, LearnsForOpenRow,
         UserErase \/ UserOpen \/ UserStore \/ UserLeave \/ ListMove("userId")
  PROVE  LearnsForOpenRow'
<1>1. page = "userId" /\ init = 0 /\ index \in Users /\ ajustValue \in 0..1
  <2>1. page = "userId" /\ init = 0
    BY DEF UserErase, UserOpen, UserStore, UserLeave, ListMove, Key
  <2>2. Rows["userId"] = NUsers /\ "userId" \in Lists
    BY Sizes DEF Lists
  <2> QED BY <2>1, <2>2 DEF ControlInv, ControlTypes, SelectionFits, Users
<1>2. CASE strayed
  <2>1. strayed'
    BY <1>2 DEF UserErase, UserOpen, UserStore, UserLeave, ListMove, learn
  <2> QED BY <2>1, LearnsOr DEF LearnsForOpenRow
<1>3. CASE Learning
  <2>1. CASE UserErase
    <3>1. /\ ajustValue = 1 /\ TempUserID' = [TempUserID EXCEPT ![index] = "blank"]
          /\ UNCHANGED <<page, index, ajustValue, init, learnUID>>
      BY <2>1 DEF UserErase, Key, control
    <3>2. \A u \in Users : TempUserID'[u] = IF u = index THEN "blank" ELSE TempUserID[u]
      BY <1>1, <3>1 DEF LearnTypes
    <3>3. Learning'
      BY <1>1, <1>3, <3>1, <3>2 DEF Learning
    <3> QED BY <3>3, LearnsOr
  <2>2. CASE UserOpen
    <3>1. /\ ajustValue = 0 /\ ajustValue' = 1 /\ learnUID' = 1
          /\ UNCHANGED <<page, index, init, TempUserID>>
      BY <2>2 DEF UserOpen
    <3>2. Learning'
      BY <1>1, <1>3, <3>1 DEF Learning
    <3> QED BY <3>2, LearnsOr
  <2>3. CASE UserStore
    <3>1. /\ TempUserID' = [TempUserID EXCEPT ![index] = "stored"]
          /\ ajustValue' = 0 /\ learnUID' = 0 /\ UNCHANGED <<page, index, init>>
      BY <2>3 DEF UserStore
    <3>2. \A u \in Users : TempUserID'[u] = IF u = index THEN "stored" ELSE TempUserID[u]
      BY <1>1, <3>1 DEF LearnTypes
    <3>3. Learning'
      BY <1>1, <1>3, <3>1, <3>2 DEF Learning
    <3> QED BY <3>3, LearnsOr
  <2>4. CASE UserLeave
    <3>1. /\ page' = Parent["userId"] /\ ajustValue' = 0 /\ UNCHANGED <<learnUID, TempUserID>>
          /\ strayed' = (strayed \/ learnUID = 1)
      BY <2>4 DEF UserLeave, Goto
    <3>2. page' # "userId"
      BY <3>1, ParentIs, AboveEntry DEF Below, Lists, Directories
    <3>3. CASE learnUID = 1
      BY <3>1, <3>3, LearnsOr DEF LearnsForOpenRow
    <3>4. CASE learnUID # 1
      <4>1. Learning'
        BY <1>3, <3>1, <3>2, <3>4 DEF Learning
      <4> QED BY <4>1, LearnsOr
    <3> QED BY <3>3, <3>4
  <2>5. CASE ListMove("userId")
    <3>1. ajustValue = 0 /\ UNCHANGED <<page, ajustValue, init, learnUID, TempUserID>>
      BY <2>5 DEF ListMove, Select, learn
    <3>2. Learning'
      BY <1>3, <3>1 DEF Learning
    <3> QED BY <3>2, LearnsOr
  <2> QED BY <2>1, <2>2, <2>3, <2>4, <2>5
<1> QED BY <1>2, <1>3, LearnsOr

LEMMA LearnTake ==
  ASSUME ControlInv, LearnTypes, LearnsForOpenRow, TakeNumber
  PROVE  LearnsForOpenRow'
<1>1. UNCHANGED <<page, index, ajustValue, init, learnUID, strayed>>
  BY DEF TakeNumber, control
<1>2. CASE learnUID # 1
  BY <1>1, <1>2 DEF TakeNumber, LearnsForOpenRow
<1>3. CASE learnUID = 1 /\ strayed
  BY <1>1, <1>3 DEF LearnsForOpenRow
<1>4. CASE learnUID = 1 /\ Learning
  <2>1. \A u \in Users : TempUserID'[u] = IF u = index THEN "learned" ELSE TempUserID[u]
    BY <1>4 DEF TakeNumber, Learn, Learning
  <2>2. Learning'
    BY <1>1, <1>4, <2>1 DEF Learning
  <2> QED BY <2>2, LearnsOr
<1> QED BY <1>2, <1>3, <1>4, LearnsOr

LEMMA LearnStep ==
  ASSUME ControlInv, ControlInv', LearnTypes, LearnsForOpenRow, [Next]_vars
  PROVE  LearnsForOpenRow'
<1>1. CASE UNCHANGED <<page, index, ajustValue, init>> /\ UNCHANGED learn
  BY <1>1 DEF LearnsForOpenRow, learn
<1>2. CASE \E d \in Directories : DirectoryMove(d) \/ DirectoryEnter(d) \/ DirectoryLeave(d)
  <2>1. page \in Directories /\ UNCHANGED learn /\ (page' = page \/ init' = 1)
    BY <1>2 DEF DirectoryMove, DirectoryEnter, DirectoryLeave, Key, Goto, Select
  <2> QED BY <2>1, LearnElsewhere DEF Directories
<1>3. CASE StartMenu \/ ConfirmLeave \/ \E p \in Reports : ReportLeave(p)
  <2>1. page \in Reports \cup {"normal", "settingConfirm"} /\ UNCHANGED learn /\ init' = 1
    BY <1>3 DEF StartMenu, ConfirmLeave, ReportLeave, Key, Goto
  <2> QED BY <2>1, LearnElsewhere DEF Reports
<1>4. CASE \E p \in Lists \ {"userId"} :
             ListMove(p) \/ Adjust(p) \/ OpenOrStore(p) \/ ListLeave(p)
  <2>1. page # "userId" /\ UNCHANGED learn /\ (page' = page \/ init' = 1)
    BY <1>4 DEF ListMove, Adjust, OpenOrStore, ListLeave, Key, Goto, Select, control
  <2> QED BY <2>1, LearnElsewhere
<1>5. CASE ListMove("userId") \/ UserErase \/ UserOpen \/ UserStore \/ UserLeave
  BY <1>5, LearnUserSteps
<1>6. CASE Adjust("userId") \/ OpenOrStore("userId") \/ ListLeave("userId")
  BY <1>6 DEF Adjust, OpenOrStore, ListLeave
<1>7. CASE BeginPage
  BY <1>7, LearnBegins
<1>8. CASE NoKey \/ NoNumber \/ Enable \/ ResetCount \/ UpdateInfo \/ RS4852_UART_IRQHandler
           \/ UNCHANGED vars
  BY <1>1, <1>8 DEF NoKey, NoNumber, Enable, ResetCount, UpdateInfo, RS4852_UART_IRQHandler,
                    control, vars
<1>9. CASE TakeNumber
  BY <1>9, LearnTake
<1> QED BY <1>2, <1>3, <1>4, <1>5, <1>6, <1>7, <1>8, <1>9 DEF Next, Menu_Scane, ACS_AccessCheck
-----------------------------------------------------------------------------
(***************************************************************************)
(* The interrupt of the reader and the turn of hello_task that empties its *)
(* buffer.  Phases counts the bytes modulo the length of a card, over lost *)
(* ones too; Framed says that those in the buffer follow each other.       *)
(***************************************************************************)
ReaderTypes ==
  /\ turn \in {"menu", "check", "enable", "count", "update"}
  /\ newCardDetect \in 0..1
  /\ u8MosbusEn \in {0, 2} /\ u8BuffRead \in Seq(Stream)
  /\ Len(u8BuffRead) \in 0..CardLen + 1
  /\ next \in Stream
  /\ lost \in 0..CardLen - 1 /\ shift \in 0..CardLen - 1

\* Where the next byte stands in its card, and when a number waits.
Phases ==
  /\ next % CardLen = (lost + Len(u8BuffRead)) % CardLen
  /\ turn = "enable" => u8MosbusEn = 2
  /\ turn = "count" => u8MosbusEn = 0 /\ Len(u8BuffRead) \in {CardLen, CardLen + 1}
  /\ turn # "count" => (u8MosbusEn = 2 => Len(u8BuffRead) = CardLen)
  /\ turn # "count" => (u8MosbusEn = 0 => Len(u8BuffRead) < CardLen /\ lost = shift)

\* What is in the buffer, unless it is about to be emptied.
Framed ==
  turn # "count" =>
    /\ u8BuffRead # <<>> => u8BuffRead[1] % CardLen = shift
    /\ \A i \in 2..Len(u8BuffRead) : u8BuffRead[i] = (u8BuffRead[i - 1] + 1) % (2 * CardLen)
    /\ u8MosbusEn = 0 /\ u8BuffRead # <<>> =>
         next = (u8BuffRead[Len(u8BuffRead)] + 1) % (2 * CardLen)

ReaderInv == ReaderTypes /\ Phases /\ Framed

\* The number of a byte within its card, as the stream goes on and as the
\* count of lost bytes does.
LEMMA Advance ==
  ASSUME NEW C \in Nat \ {0}, NEW x \in 0..2 * C - 1, NEW y \in Nat, x % C = y % C, y < 2 * C
  PROVE  /\ (x + 1) % (2 * C) \in 0..2 * C - 1
         /\ ((x + 1) % (2 * C)) % C = (y + 1) % C
<1> DEFINE z == (x + 1) % (2 * C)
<1>1. z = IF x + 1 = 2 * C THEN 0 ELSE x + 1
  <2> DEFINE D == 2 * C
  <2>1. D \in Nat \ {0} /\ x \in 0..D - 1
    OBVIOUS
  <2> HIDE DEF D
  <2>2. (x + 1) % D = IF x + 1 = D THEN 0 ELSE x + 1
    BY <2>1
  <2> QED BY <2>2 DEF D
<1>2. z \in 0..2 * C - 1
  BY <1>1
<1>3. z % C = (x + 1) % C
  BY <1>1
<1>4. (x + 1) % C = (y + 1) % C
  <2>1. x = y \/ x = y + C \/ x = y - C
    OBVIOUS
  <2> QED BY <2>1
<1> QED BY <1>2, <1>3, <1>4

LEMMA Remainders ==
  \A C \in Nat \ {0} : \A l \in 0..C - 1 :
    /\ (l + 1) % C \in 0..C - 1
    /\ (l + C) % C = l /\ l % C = l
    /\ (((l + 1) % C) + C) % C = (l + C + 1) % C
    /\ (l + C + 1 - C) % C = (l + C + 1) % C
OBVIOUS

LEMMA ReaderInit == Init => ReaderInv
<1> SUFFICES ASSUME Init PROVE ReaderInv
  OBVIOUS
<1>1. 0 \in 0..CardLen - 1 /\ 0 \in 0..2 * CardLen - 1 /\ CardLen \in Nat \ {0, 1}
  BY PanelAssumption
<1>2. ReaderTypes
  BY <1>1 DEF Init, ReaderTypes, Stream
<1>3. Phases /\ Framed
  BY <1>1 DEF Init, Phases, Framed
<1> QED BY <1>2, <1>3 DEF ReaderInv

LEMMA ReaderMoves ==
  ASSUME ReaderInv, UNCHANGED reader, newCardDetect' \in 0..1,
         \/ turn \in {"menu", "check"} /\ turn' \in {"check", "update"}
         \/ turn = "check" /\ u8MosbusEn = 2 /\ turn' = "enable"
         \/ turn = "update" /\ turn' = "menu"
         \/ turn' = turn
  PROVE  ReaderInv'
<1>1. ReaderTypes' /\ Phases'
  BY DEF ReaderInv, ReaderTypes, Phases, reader
<1>2. Framed'
  BY DEF ReaderInv, Framed, reader
<1> QED BY <1>1, <1>2 DEF ReaderInv

LEMMA ReaderEnable == ReaderInv /\ Enable => ReaderInv'
<1> SUFFICES ASSUME ReaderInv, Enable PROVE ReaderInv'
  OBVIOUS
<1>1. Len(u8BuffRead) = CardLen
  BY DEF Enable, ReaderInv, Phases
<1>2. ReaderTypes' /\ Phases'
  BY <1>1 DEF Enable, ReaderInv, ReaderTypes, Phases
<1>3. Framed'
  BY DEF Enable, Framed
<1> QED BY <1>2, <1>3 DEF ReaderInv

LEMMA ReaderReset == ReaderInv /\ ResetCount => ReaderInv'
<1> SUFFICES ASSUME ReaderInv, ResetCount PROVE ReaderInv'
  OBVIOUS
<1> DEFINE n == Len(u8BuffRead)
           C == CardLen
<1>1. /\ u8BuffRead' = <<>> /\ lost' = (lost + n - C) % C /\ shift' = lost' /\ turn' = "update"
      /\ UNCHANGED <<newCardDetect, u8MosbusEn, next>>
  BY DEF ResetCount
<1>2. /\ C \in Nat \ {0} /\ u8MosbusEn = 0 /\ n \in {C, C + 1} /\ next % C = (lost + n) % C
      /\ lost \in 0..C - 1
  BY PanelAssumption DEF ResetCount, ReaderInv, Phases, ReaderTypes
<1>3. lost' \in 0..C - 1 /\ next % C = lost' /\ lost' % C = lost'
  <2> HIDE DEF n, C
  <2>1. CASE n = C
    <3>1. lost + n - C = lost
      BY <1>2, <2>1
    <3>2. lost' = lost % C /\ next % C = (lost + C) % C
      BY <1>1, <1>2, <2>1, <3>1
    <3> QED BY <1>2, <3>2, Remainders
  <2>2. CASE n = C + 1
    <3>1. lost + n = lost + C + 1 /\ lost + n - C = lost + C + 1 - C /\ lost + n - C = lost + 1
      BY <1>2, <2>2
    <3>2. lost' = (lost + 1) % C /\ lost' = next % C
      BY <1>1, <1>2, <3>1, Remainders
    <3>3. lost' \in 0..C - 1
      BY <1>2, <3>2, Remainders
    <3> QED BY <1>2, <3>2, <3>3, Remainders
  <2> QED BY <1>2, <2>1, <2>2
<1>4. Len(u8BuffRead') = 0
  BY <1>1
<1>5. ReaderTypes'
  BY <1>1, <1>2, <1>3, <1>4 DEF ReaderInv, ReaderTypes
<1>6. Phases'
  <2>1. next' % CardLen = (lost' + Len(u8BuffRead')) % CardLen
    BY <1>1, <1>3, <1>4
  <2> QED BY <1>1, <1>2, <1>4, <2>1 DEF Phases
<1>7. Framed'
  BY <1>1, <1>4 DEF Framed
<1> QED BY <1>5, <1>6, <1>7 DEF ReaderInv

\* The interrupt: a byte that goes into the buffer, and one that is lost.
LEMMA ReaderReceive == ReaderInv /\ RS4852_UART_IRQHandler => ReaderInv'
<1> SUFFICES ASSUME ReaderInv, RS4852_UART_IRQHandler PROVE ReaderInv'
  OBVIOUS
<1> DEFINE n == Len(u8BuffRead)
           C == CardLen
<1>1. /\ n \in 0..C /\ next' = (next + 1) % (2 * C) /\ Receive
      /\ UNCHANGED <<shift, turn, newCardDetect>>
  BY DEF RS4852_UART_IRQHandler, ReaderInv, ReaderTypes
<1>2. /\ C \in Nat \ {0, 1} /\ next \in 0..2 * C - 1 /\ lost \in 0..C - 1 /\ shift \in 0..C - 1
      /\ next % C = (lost + n) % C
  BY PanelAssumption DEF ReaderInv, ReaderTypes, Phases, Stream
<1>3. next' \in 0..2 * C - 1 /\ next' % C = (lost + n + 1) % C
  <2> HIDE DEF n, C
  <2> DEFINE y == lost + n
  <2>1. C \in Nat \ {0} /\ y \in Nat /\ y < 2 * C /\ next % C = y % C
    BY <1>1, <1>2
  <2> HIDE DEF y
  <2>2. next' \in 0..2 * C - 1 /\ next' % C = (y + 1) % C
    BY <1>1, <1>2, <2>1, Advance
  <2> QED BY <2>2 DEF y
<1>4. CASE u8MosbusEn = 0
  <2>1. /\ u8BuffRead' = Append(u8BuffRead, next) /\ lost' = lost
        /\ u8MosbusEn' = IF Len(u8BuffRead') = CardLen THEN 2 ELSE 0
    BY <1>1, <1>4 DEF Receive
  <2>2. /\ Len(u8BuffRead') = n + 1 /\ u8BuffRead' \in Seq(Stream)
        /\ \A i \in 1..n + 1 : u8BuffRead'[i] = IF i = n + 1 THEN next ELSE u8BuffRead[i]
    BY <1>2, <2>1 DEF ReaderInv, ReaderTypes, Stream
  <2>3. ReaderTypes'
    BY <1>1, <1>2, <1>3, <2>1, <2>2 DEF ReaderInv, ReaderTypes, Stream
  <2>4. Phases'
    <3>1. next' % CardLen = (lost' + Len(u8BuffRead')) % CardLen
      <4>1. lost' + Len(u8BuffRead') = lost + n + 1
        BY <1>1, <1>2, <2>1, <2>2
      <4> QED BY <1>3, <4>1
    <3>2. turn' # "enable"
      BY <1>1, <1>4 DEF ReaderInv, Phases
    <3>3. turn' = "count" => u8MosbusEn' = 0 /\ Len(u8BuffRead') \in {CardLen, CardLen + 1}
      BY <1>1, <1>2, <2>1, <2>2 DEF ReaderInv, Phases
    <3>4. turn' # "count" => n < CardLen /\ lost = shift
      BY <1>1, <1>4 DEF ReaderInv, Phases
    <3>5. turn' # "count" => (u8MosbusEn' = 2 => Len(u8BuffRead') = CardLen)
      BY <2>1
    <3>6. turn' # "count" => (u8MosbusEn' = 0 => Len(u8BuffRead') < CardLen /\ lost' = shift')
      BY <1>1, <1>2, <2>1, <2>2, <3>4
    <3> QED BY <3>1, <3>2, <3>3, <3>5, <3>6 DEF Phases
  <2>5. Framed'
    <3> SUFFICES ASSUME turn' # "count"
                 PROVE  /\ u8BuffRead'[1] % CardLen = shift'
                        /\ \A i \in 2..n + 1 : u8BuffRead'[i] = (u8BuffRead'[i - 1] + 1) % (2 * CardLen)
                        /\ next' = (u8BuffRead'[n + 1] + 1) % (2 * CardLen)
      BY <2>2 DEF Framed
    <3>1. turn # "count" /\ lost = shift
      BY <1>1, <1>4 DEF ReaderInv, Phases
    <3>2. u8BuffRead'[1] % CardLen = shift'
      <4>1. CASE n = 0
        <5>1. u8BuffRead'[1] = next /\ next % C = lost % C
          BY <1>2, <2>2, <4>1
        <5>2. lost % C = lost
          <6> HIDE DEF C
          <6> QED BY <1>2, Remainders
        <5> QED BY <1>1, <3>1, <5>1, <5>2
      <4>2. CASE n # 0
        <5>1. u8BuffRead'[1] = u8BuffRead[1] /\ u8BuffRead # <<>>
          BY <1>1, <2>2, <4>2
        <5> QED BY <1>1, <3>1, <5>1 DEF ReaderInv, Framed
      <4> QED BY <4>1, <4>2
    <3>3. ASSUME NEW i \in 2..n + 1
          PROVE  u8BuffRead'[i] = (u8BuffRead'[i - 1] + 1) % (2 * CardLen)
      <4>1. i - 1 \in 1..n /\ u8BuffRead'[i - 1] = u8BuffRead[i - 1]
        BY <1>1, <2>2
      <4>2. CASE i = n + 1
        <5>1. u8BuffRead'[i] = next /\ u8BuffRead # <<>> /\ i - 1 = n
          BY <1>1, <2>2, <4>1, <4>2
        <5> QED BY <1>4, <3>1, <4>1, <5>1 DEF ReaderInv, Framed
      <4>3. CASE i # n + 1
        <5>1. u8BuffRead'[i] = u8BuffRead[i] /\ i \in 2..n
          BY <1>1, <2>2, <4>3
        <5> QED BY <3>1, <4>1, <5>1 DEF ReaderInv, Framed
      <4> QED BY <4>2, <4>3
    <3>4. next' = (u8BuffRead'[n + 1] + 1) % (2 * CardLen)
      BY <1>1, <2>2
    <3> QED BY <3>2, <3>3, <3>4
  <2> QED BY <2>3, <2>4, <2>5 DEF ReaderInv
<1>5. CASE u8MosbusEn # 0
  <2>1. lost' = (lost + 1) % C /\ UNCHANGED <<u8BuffRead, u8MosbusEn>>
    BY <1>1, <1>5 DEF Receive
  <2>2. u8MosbusEn = 2 /\ turn # "count" /\ n = C
    BY <1>5 DEF ReaderInv, ReaderTypes, Phases
  <2>3. lost' \in 0..C - 1 /\ next' % C = (lost' + C) % C
    <3> HIDE DEF n, C
    <3> QED BY <1>2, <1>3, <2>1, <2>2, Remainders
  <2>4. ReaderTypes'
    BY <1>1, <1>3, <2>1, <2>3 DEF ReaderInv, ReaderTypes, Stream
  <2>5. Phases'
    BY <1>1, <2>1, <2>2, <2>3 DEF ReaderInv, Phases
  <2>6. Framed'
    BY <1>1, <2>1, <2>2 DEF ReaderInv, Framed
  <2> QED BY <2>4, <2>5, <2>6 DEF ReaderInv
<1> QED BY <1>4, <1>5

LEMMA ReaderStep == ReaderInv /\ [Next]_vars => ReaderInv'
<1> SUFFICES ASSUME ReaderInv, [Next]_vars PROVE ReaderInv'
  OBVIOUS
<1>1. CASE Menu_Scane
  <2>1. Scanned
    BY <1>1 DEF Menu_Scane, BeginPage, NoKey, StartMenu, ConfirmLeave, DirectoryMove, DirectoryEnter,
                DirectoryLeave, ReportLeave, ListMove, Adjust, OpenOrStore, ListLeave, UserErase,
                UserOpen, UserStore, UserLeave, Key
  <2> QED BY <2>1, ReaderMoves DEF Scanned, ReaderInv, ReaderTypes
<1>2. CASE TakeNumber
  BY <1>2, ReaderMoves DEF TakeNumber, ReaderInv, ReaderTypes
<1>3. CASE NoNumber
  BY <1>3, ReaderMoves DEF NoNumber, ReaderInv, ReaderTypes
<1>4. CASE UpdateInfo
  BY <1>4, ReaderMoves DEF UpdateInfo
<1>5. CASE UNCHANGED vars
  BY <1>5, ReaderMoves DEF vars, ReaderInv, ReaderTypes
<1> QED BY <1>1, <1>2, <1>3, <1>4, <1>5, ReaderEnable, ReaderReset, ReaderReceive
        DEF Next, ACS_AccessCheck
-----------------------------------------------------------------------------
PanelInv == ControlInv /\ LearnTypes /\ LearnsForOpenRow /\ ReaderInv

LEMMA PanelInduction == Spec => []PanelInv
<1>1. Init => PanelInv
  <2> SUFFICES ASSUME Init PROVE PanelInv
    OBVIOUS
  <2>1. LearnTypes
    <3>1. strayed \in BOOLEAN
      BY DEF Init
    <3>2. learnUID \in 0..1 /\ TempUserID \in [Users -> Contents]
      BY DEF Init, Contents
    <3> QED BY <3>1, <3>2 DEF LearnTypes
  <2>2. Learning
    BY DEF Init, Learning
  <2> QED BY <2>1, <2>2, LearnsOr, ControlInit, ReaderInit DEF PanelInv
<1>2. PanelInv /\ [Next]_vars => PanelInv'
  BY ControlStep, LearnTypesStep, LearnStep, ReaderStep DEF PanelInv
<1> QED BY <1>1, <1>2, PTL DEF Spec

\* Every variable keeps its type (menu.c, access_control.c, rs485.c), for any
\* number of users and any length of a card's number; the buffer of the reader
\* is never filled beyond one byte more than a number.
THEOREM TypeCorrect == Spec => []TypeOK
<1>1. PanelInv => TypeOK
  BY DEF PanelInv, ControlInv, ControlTypes, LearnTypes, ReaderInv, ReaderTypes, TypeOK
<1> QED BY <1>1, PanelInduction, PTL

\* Whatever keys are pressed, the selected row is one that its page has and
\* shows (menu.c:575-649, 1072-1139).
THEOREM SelectionAlwaysFits == Spec => []SelectionFits
<1>1. PanelInv => SelectionFits
  BY DEF PanelInv, ControlInv
<1> QED BY <1>1, PanelInduction, PTL

\* Cards are learned for the row that is open on the page of users and for no
\* other, unless the page was left with a row open (menu.c:2301-2371,
\* access_control.c:70-88).
THEOREM LearningIsForOpenRow == Spec => []LearnsForOpenRow
<1>1. PanelInv => LearnsForOpenRow
  BY DEF PanelInv
<1> QED BY <1>1, PanelInduction, PTL

\* A number that waits is made of successive bytes, and begins where a card
\* begins exactly if the bytes lost before it are whole cards, for any length
\* of a number (rs485.c:141-146, access_control.c:89-90).
THEOREM NumbersAreFramed == Spec => []NumbersFramed
<1>1. PanelInv => NumbersFramed
  <2> SUFFICES ASSUME ReaderInv, u8MosbusEn = 2 PROVE NumbersFramed
    BY DEF PanelInv, NumbersFramed
  <2>1. turn # "count" /\ Len(u8BuffRead) = CardLen
    BY DEF ReaderInv, Phases
  <2>2. u8BuffRead # <<>>
    BY <2>1, PanelAssumption
  <2> QED BY <2>1, <2>2 DEF ReaderInv, Framed, NumbersFramed
<1> QED BY <1>1, PanelInduction, PTL

-----------------------------------------------------------------------------
(***************************************************************************)
(* UserTable.  RowIsAsEntered speaks of a row that nobody stores.  What    *)
(* the steps keep is what each task has done of its store so far: as long  *)
(* as a copy is not disturbed only one task stores (OneStores), and the    *)
(* bytes before the one it is at are those of its number (MemoryInv,       *)
(* EepromInv).                                                             *)
(***************************************************************************)
OneStores ==
  disturbed # Copies =>
    /\ helloPc = "save" => agentPc = "idle" /\ mqttPc = "idle"
    /\ agentPc # "idle" => mqttPc = "idle"

MemoryInv ==
  "memory" \notin disturbed =>
    /\ agentPc \in {"idle", "lock", "write", "release"} =>
         u8UserID = All(entered["memory"])
    /\ agentPc # "idle" => entered["memory"] = agentNumber
    /\ agentPc = "fill" => \A j \in Bytes : j < agentByte => configAccessIdCard[j] = agentNumber
    /\ agentPc \notin {"idle", "fill"} => configAccessIdCard = All(agentNumber)
    /\ agentPc \in {"load", "store"} => \A j \in Bytes : j < agentByte => u8UserID[j] = agentNumber
    /\ agentPc = "store" => agentLoaded = agentNumber

EepromInv ==
  "eeprom" \notin disturbed =>
    /\ helloPc # "save" /\ agentPc = "idle" /\ mqttPc = "idle" => eeprom = All(entered["eeprom"])
    /\ helloPc = "save" =>
         /\ entered["eeprom"] = helloNumber
         /\ \A j \in Bytes : j < helloByte => eeprom[j] = helloNumber
    /\ agentPc # "idle" =>
         /\ "memory" \notin disturbed /\ entered["eeprom"] = agentNumber
         /\ agentPc \in {"lock", "write", "release"} =>
              \A j \in Bytes : j < agentByte => eeprom[j] = agentNumber
         /\ agentPc = "release" => eeprom[agentByte] = agentNumber
    /\ mqttPc # "idle" =>
         /\ entered["eeprom"] = mqttNumber
         /\ \A j \in Bytes : j < mqttByte => eeprom[j] = mqttNumber
         /\ mqttPc = "release" => eeprom[mqttByte] = mqttNumber

RowInv == OneStores /\ MemoryInv /\ EepromInv
-----------------------------------------------------------------------------
LEMMA ByteRange ==
  /\ 1 \in Bytes
  /\ \A j \in Bytes : NextByte(j) \in Bytes
  /\ \A j \in Bytes : j < NumberLen => NextByte(j) = j + 1
  /\ \A j \in Bytes : ~(j < NumberLen) => NextByte(j) = 1 /\ j = NumberLen
  /\ \A j \in Bytes : ~(j < 1)
  /\ \A j, k \in Bytes : j < k + 1 => j < k \/ j = k
  /\ \A j \in Bytes : j < NumberLen \/ j = NumberLen
BY UserTableAssumption DEF Bytes, NextByte

LEMMA ValueRange ==
  /\ Zero \in Values /\ Numbers \subseteq Values
  /\ \A n \in Values : All(n) \in [Bytes -> Values]
  /\ \A n : \A j \in Bytes : All(n)[j] = n
  /\ \A n \in Values : \A j : Until(j, n) \in Values
BY DEF Values, All, Until

\* A row whose bytes are all of one number is that number's.
LEMMA RowIsAll ==
  ASSUME NEW row \in [Bytes -> Values], NEW n, \A j \in Bytes : row[j] = n
  PROVE  row = All(n)
BY DEF All

LEMMA InitInv == TableInit => TableTypeOK /\ RowInv
BY ByteRange, ValueRange DEF TableInit, TableTypeOK, RowInv, OneStores, MemoryInv, EepromInv, Copies

-----------------------------------------------------------------------------
(***************************************************************************)
(* Types.                                                                  *)
(***************************************************************************)
LEMMA BeginTypes ==
  ASSUME NEW n \in Values, NEW cs, NEW alone, TableTypeOK, Begin(n, cs, alone)
  PROVE  entered' \in [Copies -> Values] /\ disturbed' \subseteq Copies
BY DEF TableTypeOK, Begin

LEMMA TypeStep == TableTypeOK /\ [TableNext]_tableVars => TableTypeOK'
<1> SUFFICES ASSUME TableTypeOK, [TableNext]_tableVars PROVE TableTypeOK'
  OBVIOUS
<1> USE ByteRange, ValueRange DEF copies, hello, agent, mqtt, history
<1>1. ASSUME NEW n \in Numbers, MenuStore(n) PROVE TableTypeOK'
  <2>1. entered' \in [Copies -> Values] /\ disturbed' \subseteq Copies
    BY <1>1, BeginTypes DEF MenuStore
  <2> QED BY <1>1, <2>1 DEF MenuStore, TableTypeOK
<1>2. CASE MenuSave
  BY <1>2 DEF MenuSave, TableTypeOK
<1>3. CASE UpdateEntry
  BY <1>3 DEF UpdateEntry, TableTypeOK
<1>4. ASSUME NEW n \in Numbers, AgentStart(n) PROVE TableTypeOK'
  <2>1. entered' \in [Copies -> Values] /\ disturbed' \subseteq Copies
    BY <1>4, BeginTypes DEF AgentStart
  <2> QED BY <1>4, <2>1 DEF AgentStart, TableTypeOK
<1>5. CASE AgentFill
  BY <1>5 DEF AgentFill, TableTypeOK
<1>6. CASE AgentLoad
  BY <1>6 DEF AgentLoad, TableTypeOK
<1>7. CASE AgentStore
  BY <1>7 DEF AgentStore, TableTypeOK
<1>8. CASE AgentLock
  BY <1>8 DEF AgentLock, TableTypeOK
<1>9. CASE AgentWrite
  BY <1>9 DEF AgentWrite, TableTypeOK
<1>10. CASE AgentRelease
  BY <1>10 DEF AgentRelease, TableTypeOK
<1>11. ASSUME NEW n \in Numbers, MqttStart(n) PROVE TableTypeOK'
  <2>1. entered' \in [Copies -> Values] /\ disturbed' \subseteq Copies
    BY <1>11, BeginTypes DEF MqttStart
  <2> QED BY <1>11, <2>1 DEF MqttStart, TableTypeOK
<1>12. CASE MqttLock
  BY <1>12 DEF MqttLock, TableTypeOK
<1>13. CASE MqttWrite
  BY <1>13 DEF MqttWrite, TableTypeOK
<1>14. CASE MqttRelease
  BY <1>14 DEF MqttRelease, TableTypeOK
<1>15. CASE Restart
  BY <1>15 DEF Restart, TableTypeOK, Copies
<1>16. CASE UNCHANGED tableVars
  BY <1>16 DEF tableVars, TableTypeOK
<1> QED BY <1>1, <1>2, <1>3, <1>4, <1>5, <1>6, <1>7, <1>8, <1>9, <1>10, <1>11, <1>12,
           <1>13, <1>14, <1>15, <1>16 DEF TableNext, Hello, Agent, Mqtt

\* Every variable keeps its type, and the lock is held by the task that is about
\* to write or to release it (the bytes of ACS_SaveUserID and of the commands).
THEOREM TableTypeCorrect == TableSpec => []TableTypeOK
BY InitInv, TypeStep, PTL DEF TableSpec
-----------------------------------------------------------------------------
(***************************************************************************)
(* The stores.                                                             *)
(***************************************************************************)
LEMMA RowStep == TableTypeOK /\ RowInv /\ [TableNext]_tableVars => RowInv'
<1> SUFFICES ASSUME TableTypeOK, RowInv, [TableNext]_tableVars PROVE RowInv'
  OBVIOUS
<1> USE ByteRange, ValueRange
    DEF TableTypeOK, RowInv, OneStores, MemoryInv, EepromInv, Copies, copies, hello, agent, mqtt, history
<1>1. ASSUME NEW n \in Numbers, MenuStore(n) PROVE RowInv'
  BY <1>1 DEF MenuStore, Begin
<1>2. CASE MenuSave
  <2>1. CASE "eeprom" \in disturbed
    BY <1>2, <2>1 DEF MenuSave
  <2>2. CASE "eeprom" \notin disturbed
    <3>1. agentPc = "idle" /\ mqttPc = "idle" /\ entered["eeprom"] = helloNumber
      BY <1>2, <2>2 DEF MenuSave
    <3>2. \A j \in Bytes : j < helloByte \/ j = helloByte => eeprom'[j] = helloNumber
      BY <1>2, <2>2 DEF MenuSave
    <3>3. CASE helloByte < NumberLen
      BY <1>2, <3>1, <3>2, <3>3 DEF MenuSave, Until
    <3>4. CASE ~(helloByte < NumberLen)
      <4>1. \A j \in Bytes : eeprom'[j] = helloNumber
        BY <3>2, <3>4
      <4>2. eeprom' = All(helloNumber)
        BY <1>2, <4>1, RowIsAll DEF MenuSave
      <4> QED BY <1>2, <3>1, <3>4, <4>2 DEF MenuSave
    <3> QED BY <3>3, <3>4
  <2> QED BY <2>1, <2>2
<1>3. CASE UpdateEntry
  BY <1>3 DEF UpdateEntry
<1>4. ASSUME NEW n \in Numbers, AgentStart(n) PROVE RowInv'
  BY <1>4 DEF AgentStart, Begin
<1>5. CASE AgentFill
  <2>1. CASE "memory" \in disturbed
    BY <1>5, <2>1 DEF AgentFill
  <2>2. CASE "memory" \notin disturbed
    <3>1. \A j \in Bytes : j < agentByte \/ j = agentByte => configAccessIdCard'[j] = agentNumber
      BY <1>5, <2>2 DEF AgentFill
    <3>2. CASE agentByte < NumberLen
      BY <1>5, <2>2, <3>1, <3>2 DEF AgentFill
    <3>3. CASE ~(agentByte < NumberLen)
      <4>1. \A j \in Bytes : configAccessIdCard'[j] = agentNumber
        BY <3>1, <3>3
      <4>2. configAccessIdCard' = All(agentNumber)
        BY <1>5, <4>1, RowIsAll DEF AgentFill
      <4> QED BY <1>5, <2>2, <3>3, <4>2 DEF AgentFill
    <3> QED BY <3>2, <3>3
  <2> QED BY <2>1, <2>2
<1>6. CASE AgentLoad
  BY <1>6 DEF AgentLoad
<1>7. CASE AgentStore
  <2>1. CASE "memory" \in disturbed
    BY <1>7, <2>1 DEF AgentStore
  <2>2. CASE "memory" \notin disturbed
    <3>1. \A j \in Bytes : j < agentByte \/ j = agentByte => u8UserID'[j] = agentNumber
      BY <1>7, <2>2 DEF AgentStore
    <3>2. CASE agentByte < NumberLen
      BY <1>7, <2>2, <3>1, <3>2 DEF AgentStore
    <3>3. CASE ~(agentByte < NumberLen)
      <4>1. \A j \in Bytes : u8UserID'[j] = agentNumber
        BY <3>1, <3>3
      <4>2. u8UserID' = All(agentNumber)
        BY <1>7, <4>1, RowIsAll DEF AgentStore
      <4> QED BY <1>7, <2>2, <3>3, <4>2 DEF AgentStore
    <3> QED BY <3>2, <3>3
  <2> QED BY <2>1, <2>2
<1>8. CASE AgentLock
  BY <1>8 DEF AgentLock
<1>9. CASE AgentWrite
  BY <1>9 DEF AgentWrite
<1>10. CASE AgentRelease
  <2>1. CASE "eeprom" \in disturbed
    <3>1. OneStores'
      BY <1>10 DEF AgentRelease
    <3>2. MemoryInv'
      <4>1. CASE agentByte < NumberLen
        BY <1>10, <4>1 DEF AgentRelease, Until
      <4>2. CASE ~(agentByte < NumberLen)
        BY <1>10, <4>2 DEF AgentRelease
      <4> QED BY <4>1, <4>2
    <3>3. EepromInv'
      BY <1>10, <2>1 DEF AgentRelease
    <3> QED BY <3>1, <3>2, <3>3
  <2>2. CASE "eeprom" \notin disturbed
    <3>1. helloPc # "save" /\ mqttPc = "idle" /\ entered["eeprom"] = agentNumber
      BY <1>10, <2>2 DEF AgentRelease
    <3>2. \A j \in Bytes : j < agentByte \/ j = agentByte => eeprom[j] = agentNumber
      BY <1>10, <2>2 DEF AgentRelease
    <3>3. CASE agentByte < NumberLen
      BY <1>10, <2>2, <3>1, <3>2, <3>3 DEF AgentRelease, Until
    <3>4. CASE ~(agentByte < NumberLen)
      <4>1. \A j \in Bytes : eeprom[j] = agentNumber
        BY <3>2, <3>4
      <4>2. eeprom = All(agentNumber)
        BY <4>1, RowIsAll
      <4> QED BY <1>10, <2>2, <3>1, <3>4, <4>2 DEF AgentRelease
    <3> QED BY <3>3, <3>4
  <2> QED BY <2>1, <2>2
<1>11. ASSUME NEW n \in Numbers, MqttStart(n) PROVE RowInv'
  BY <1>11 DEF MqttStart, Begin
<1>12. CASE MqttLock
  BY <1>12 DEF MqttLock
<1>13. CASE MqttWrite
  BY <1>13 DEF MqttWrite
<1>14. CASE MqttRelease
  <2>1. CASE "eeprom" \in disturbed
    BY <1>14, <2>1 DEF MqttRelease
  <2>2. CASE "eeprom" \notin disturbed
    <3>1. helloPc # "save" /\ agentPc = "idle" /\ entered["eeprom"] = mqttNumber
      BY <1>14, <2>2 DEF MqttRelease
    <3>2. \A j \in Bytes : j < mqttByte \/ j = mqttByte => eeprom[j] = mqttNumber
      BY <1>14, <2>2 DEF MqttRelease
    <3>3. CASE mqttByte < NumberLen
      BY <1>14, <2>2, <3>1, <3>2, <3>3 DEF MqttRelease, Until
    <3>4. CASE ~(mqttByte < NumberLen)
      <4>1. \A j \in Bytes : eeprom[j] = mqttNumber
        BY <3>2, <3>4
      <4>2. eeprom = All(mqttNumber)
        BY <4>1, RowIsAll
      <4> QED BY <1>14, <2>2, <3>1, <3>4, <4>2 DEF MqttRelease
    <3> QED BY <3>3, <3>4
  <2> QED BY <2>1, <2>2
<1>15. CASE Restart
  BY <1>15 DEF Restart
<1>16. CASE UNCHANGED tableVars
  BY <1>16 DEF tableVars
<1> QED BY <1>1, <1>2, <1>3, <1>4, <1>5, <1>6, <1>7, <1>8, <1>9, <1>10, <1>11, <1>12,
           <1>13, <1>14, <1>15, <1>16 DEF TableNext, Hello, Agent, Mqtt

\* A row that nobody stores is the number that was entered last, in memory and
\* in the EEPROM, unless its last store was disturbed.
THEOREM RowHoldsWhatWasEntered == TableSpec => []RowIsAsEntered
<1>1. TableTypeOK /\ RowInv => RowIsAsEntered
  BY DEF RowInv, MemoryInv, EepromInv, RowIsAsEntered
<1> QED BY <1>1, InitInv, TypeStep, RowStep, PTL DEF TableSpec
=============================================================================
