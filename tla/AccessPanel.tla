---------------------------- MODULE AccessPanel ----------------------------
(***************************************************************************)
(* The panel at the door: the menu with its keys (menu.c) and the card     *)
(* reader, whose interrupt (rs485.c) fills a buffer that ACS_AccessCheck   *)
(* empties.  A card opens the door, or is learned on the page of users.    *)
(*                                                                         *)
(* Menu and check are parts of one turn of hello_task, the task of the     *)
(* highest priority: only the interrupt can come between two of its steps. *)
(* Three things of a turn are not here: the alarms (ActiveAlarms), what    *)
(* the pages store (Settings, UserTable), and how the door answers         *)
(* (DoorLock).                                                             *)
(*                                                                         *)
(* The bytes of the reader are numbered through two cards and from 0 on    *)
(* again, so that a number with a byte of another card, or with a byte out *)
(* of place, is not taken for the number of a card.                        *)
(*                                                                         *)
(* A definition marked "Slip" is a wrong variant of the one that follows;  *)
(* no action uses it.  It shows that a property would notice the slip.     *)
(***************************************************************************)
EXTENDS Integers, Sequences

CONSTANTS
  NUsers,   \* the rows of TempUserID, 5
  CardLen   \* the bytes of a card's number, 8

ASSUME PanelAssumption ==
  /\ NUsers \in Nat \ {0}
  /\ CardLen \in Nat \ {0, 1}

\* sMenu_Object: the pages below each directory, by subMenuIndex.
SubMenu == [
  main          |-> <<"activeAlarm", "sysMonitor", "sysLog", "sysSetting">>,
  sysLog        |-> <<"operationLogs", "atsLogs">>,
  sysSetting    |-> <<"alarmSetting", "atsSetting", "accesSetting",
                      "networkConfig", "datetimeConfig", "deviceInfo">>,
  accesSetting  |-> <<"userId", "aircon">>,
  networkConfig |-> <<"deviceAddress", "serverAddress", "userInfo">>]

Directories == {"main", "sysLog", "sysSetting", "accesSetting", "networkConfig"}

\* The pages with rows to select, and how many.
Rows == [
  alarmSetting   |-> 6,  atsSetting    |-> 11, deviceAddress |-> 13,
  serverAddress  |-> 5,  userInfo      |-> 5,  datetimeConfig |-> 6,
  aircon         |-> 6,  userId        |-> NUsers]

Lists   == {"alarmSetting", "atsSetting", "deviceAddress", "serverAddress",
            "userInfo", "datetimeConfig", "aircon", "userId"}
Reports == {"activeAlarm", "sysMonitor", "operationLogs", "atsLogs", "deviceInfo"}

\* "normal" is mode 0, the display outside the menu.
Pages == Directories \cup Lists \cup Reports \cup {"normal", "settingConfirm"}

\* sMenu_Object's parentIndex and subMenuIndex.
Parent == [p \in (Directories \cup Lists \cup Reports) \ {"main"} |->
             CHOOSE d \in Directories : \E i \in DOMAIN SubMenu[d] : SubMenu[d][i] = p]
RowIn  == [p \in (Directories \cup Lists \cup Reports) \ {"main"} |->
             (CHOOSE i \in DOMAIN SubMenu[Parent[p]] : SubMenu[Parent[p]][i] = p) - 1]

Users == 0..NUsers - 1
\* The switches on the page of the transfer switch that hide rows.
Switches == [reset : 0..1, night : 0..1, dcLow : 0..2]
\* What other pages keep in mTempVal_u16 is not told apart.
Unread == [reset |-> 0, night |-> 0, dcLow |-> 0]
\* What a row of TempUserID holds: what is stored, nothing (0xFF), or a card
\* that was learned while the row was open, or while it was not.
Contents == {"stored", "blank", "learned", "early"}
Stream   == 0..2 * CardLen - 1

VARIABLES
  \* sMenu_Control
  page, index, previousIndex, ajustValue, init, learnUID,
  mTempVal,      \* the switches on the page of the transfer switch
  TempUserID,
  turn,          \* where hello_task is
  newCardDetect,
  \* the reader
  u8MosbusEn, u8BuffRead,
  next,          \* the next byte of the stream
  \* history
  strayed,       \* the page was left while learning, and not begun afresh since
  lost,          \* the bytes that did not get into a number, modulo CardLen
  shift          \* lost, when the buffer was last empty

control == <<page, index, previousIndex, ajustValue, init>>
reader  == <<u8MosbusEn, u8BuffRead, next, lost, shift>>
learn   == <<learnUID, TempUserID, strayed>>
vars    == <<control, learn, mTempVal, turn, newCardDetect, reader>>

Init ==
  /\ page = "normal" /\ index = 0 /\ previousIndex = 0
  /\ ajustValue = 0 /\ init = 1 /\ learnUID = 0
  /\ mTempVal = Unread
  /\ TempUserID = [u \in Users |-> "stored"]
  /\ turn = "menu" /\ newCardDetect = 0
  /\ u8MosbusEn = 0 /\ u8BuffRead = <<>> /\ next = 0
  /\ strayed = FALSE /\ lost = 0 /\ shift = 0
-----------------------------------------------------------------------------
(***************************************************************************)
(* The interrupt: a byte of a card.  A card may be shown at any time.      *)
(***************************************************************************)
\* Slip: the interrupt does not look whether a number waits.
ReceiveUnguarded ==
  /\ u8BuffRead' = Append(u8BuffRead, next)
  /\ u8MosbusEn' = IF Len(u8BuffRead') = CardLen THEN 2 ELSE u8MosbusEn
  /\ UNCHANGED lost

Receive ==
  IF u8MosbusEn = 0
  THEN /\ u8BuffRead' = Append(u8BuffRead, next)
       /\ u8MosbusEn' = IF Len(u8BuffRead') = CardLen THEN 2 ELSE 0
       /\ UNCHANGED lost
  ELSE /\ lost' = (lost + 1) % CardLen
       /\ UNCHANGED <<u8BuffRead, u8MosbusEn>>

\* Between the check's two stores there is time for one byte at most.
RS4852_UART_IRQHandler ==
  /\ Len(u8BuffRead) <= CardLen
  /\ Receive
  /\ next' = (next + 1) % (2 * CardLen)
  /\ UNCHANGED <<shift, control, learn, mTempVal, turn, newCardDetect>>
-----------------------------------------------------------------------------
(***************************************************************************)
(* ACS_AccessCheck.                                                        *)
(***************************************************************************)
\* A row of another page may lie beyond the table: what is written then is
\* not TempUserID.
Learn ==
  TempUserID' = [u \in Users |->
    IF u # index THEN TempUserID[u]
    ELSE IF page = "userId" /\ ajustValue = 1 THEN "learned" ELSE "early"]

TakeNumber ==
  /\ turn = "check" /\ u8MosbusEn = 2
  /\ IF learnUID = 1 THEN Learn /\ UNCHANGED newCardDetect
     ELSE newCardDetect' = 1 /\ UNCHANGED TempUserID
  /\ turn' = "enable"
  /\ UNCHANGED <<control, learnUID, strayed, mTempVal, reader>>

NoNumber ==
  /\ turn = "check" /\ u8MosbusEn = 0
  /\ turn' = "update"
  /\ UNCHANGED <<control, learn, mTempVal, newCardDetect, reader>>

Enable ==
  /\ turn = "enable"
  /\ u8MosbusEn' = 0
  /\ turn' = "count"
  /\ UNCHANGED <<control, learn, mTempVal, newCardDetect, u8BuffRead, next, lost, shift>>

\* A byte that has arrived since Enable is forgotten.
ResetCount ==
  /\ turn = "count"
  /\ u8BuffRead' = <<>>
  /\ lost' = (lost + Len(u8BuffRead) - CardLen) % CardLen
  /\ shift' = lost'
  /\ turn' = "update"
  /\ UNCHANGED <<control, learn, mTempVal, newCardDetect, u8MosbusEn, next>>

ACS_AccessCheck == TakeNumber \/ NoNumber \/ Enable \/ ResetCount

\* The end of the turn: the door answers a card, see DoorLock.
UpdateInfo ==
  /\ turn = "update"
  /\ newCardDetect' = 0
  /\ turn' = "menu"
  /\ UNCHANGED <<control, learn, mTempVal, reader>>
-----------------------------------------------------------------------------
(***************************************************************************)
(* Menu_Scane.  The first look at a page loads what it shows; a key is     *)
(* reported at the earliest ten turns later.                               *)
(***************************************************************************)
Scanned == turn = "menu" /\ turn' = "check" /\ UNCHANGED <<newCardDetect, reader>>

BeginPage ==
  /\ Scanned /\ init = 1
  /\ init' = 0
  /\ mTempVal' \in IF page = "atsSetting" THEN Switches ELSE {Unread}
  /\ IF page = "userId"
     THEN /\ TempUserID' = [u \in Users |-> "stored"]
          /\ strayed' = (strayed /\ learnUID = 1)
     ELSE UNCHANGED <<TempUserID, strayed>>
  /\ UNCHANGED <<page, index, previousIndex, ajustValue, learnUID>>

NoKey ==
  /\ Scanned /\ init = 0
  /\ UNCHANGED <<control, learn, mTempVal>>

Key(p) == Scanned /\ init = 0 /\ page = p
\* To a page, with a row selected and a row to come back to.
Goto(p, i, previous) ==
  page' = p /\ index' = i /\ previousIndex' = previous /\ init' = 1
Select(i) == index' = i /\ UNCHANGED <<page, previousIndex, ajustValue, init>>

StartMenu ==
  /\ Key("normal")
  /\ Goto("main", 0, previousIndex)
  /\ UNCHANGED <<ajustValue, learn, mTempVal>>

\* Display_Menu_Directory
DirectoryMove(d) ==
  /\ Key(d)
  /\ LET n == Len(SubMenu[d])
     IN  Select((index + 1) % n) \/ Select((index - 1) % n)
  /\ UNCHANGED <<learn, mTempVal>>

DirectoryEnter(d) ==
  /\ Key(d)
  /\ Goto(SubMenu[d][index + 1], 0, index)
  /\ UNCHANGED <<ajustValue, learn, mTempVal>>

DirectoryLeave(d) ==
  /\ Key(d)
  /\ Goto(IF d = "main" THEN "normal" ELSE Parent[d], previousIndex, 0)
  /\ UNCHANGED <<ajustValue, learn, mTempVal>>

\* The pages that only show something.  Two of them keep previousIndex.
ReportLeave(p) ==
  /\ Key(p)
  /\ IF p \in {"activeAlarm", "sysMonitor"}
     THEN Goto(Parent[p], previousIndex, previousIndex) /\ UNCHANGED ajustValue
     ELSE Goto(Parent[p], previousIndex, 0) /\ ajustValue' = 0
  /\ UNCHANGED <<learn, mTempVal>>

\* The page of the transfer switch passes over the rows that a switch hides.
AtsHidden(i) ==
  \/ i = 3 /\ mTempVal.reset = 0
  \/ i \in {7, 8} /\ mTempVal.night = 0
  \/ i = 10 /\ mTempVal.dcLow # 2

AtsUp(i) ==
  CASE i = 0 -> IF mTempVal.dcLow = 2 THEN 10 ELSE 9
    [] i = 9 -> IF mTempVal.night = 1 THEN 8 ELSE 6
    [] i = 4 -> IF mTempVal.reset = 1 THEN 3 ELSE 2
    [] OTHER -> i - 1

\* Slip: the way down does not end.
AtsDownOn(i) ==
  CASE i = 2 -> IF mTempVal.reset = 1 THEN 3 ELSE 4
    [] i = 6 -> IF mTempVal.night = 1 THEN 7 ELSE 9
    [] i = 9 -> IF mTempVal.dcLow = 2 THEN 10 ELSE 0
    [] OTHER -> i + 1

AtsDown(i) ==
  CASE i = 2 -> IF mTempVal.reset = 1 THEN 3 ELSE 4
    [] i = 6 -> IF mTempVal.night = 1 THEN 7 ELSE 9
    [] i = 9 -> IF mTempVal.dcLow = 2 THEN 10 ELSE 0
    [] i = 10 -> 0
    [] OTHER -> i + 1

ListMove(p) ==
  /\ Key(p) /\ ajustValue = 0
  /\ IF p = "atsSetting" THEN Select(AtsUp(index)) \/ Select(AtsDown(index))
     ELSE Select((index + 1) % Rows[p]) \/ Select((index - 1) % Rows[p])
  /\ UNCHANGED <<learn, mTempVal>>

\* Up and down in an open row change its value: here, a switch.
Adjust(p) ==
  /\ Key(p) /\ ajustValue = 1 /\ p # "userId"
  /\ IF p = "atsSetting" /\ index \in {2, 6, 9}
     THEN mTempVal' \in CASE index = 2 -> {[mTempVal EXCEPT !.reset = 1 - @]}
                          [] index = 6 -> {[mTempVal EXCEPT !.night = 1 - @]}
                          [] OTHER -> {[mTempVal EXCEPT !.dcLow = (@ + d) % 3] : d \in {1, 2}}
     ELSE UNCHANGED mTempVal
  /\ UNCHANGED <<control, learn>>

\* ENTER opens a row, and once more stores it.
OpenOrStore(p) ==
  /\ Key(p) /\ p \notin {"userId", "userInfo"}
  /\ ajustValue' = 1 - ajustValue
  /\ UNCHANGED <<page, index, previousIndex, init, learn, mTempVal>>

\* Slip: the row to come back to is not reset.
ListLeaveKeeps(p) ==
  /\ Key(p) /\ p # "userId"
  /\ IF p = "deviceAddress" THEN Goto("settingConfirm", 0, 0)
     ELSE Goto(Parent[p], previousIndex, previousIndex)
  /\ ajustValue' = 0
  /\ UNCHANGED <<learn, mTempVal>>

ListLeave(p) ==
  /\ Key(p) /\ p # "userId"
  /\ IF p = "deviceAddress" THEN Goto("settingConfirm", 0, 0)
     ELSE Goto(Parent[p], previousIndex, 0)
  /\ ajustValue' = 0
  /\ UNCHANGED <<learn, mTempVal>>

\* Display_Setting_Confirm leaves index and previousIndex alone.
ConfirmLeave ==
  /\ Key("settingConfirm")
  /\ Goto("networkConfig", index, previousIndex)
  /\ UNCHANGED <<ajustValue, learn, mTempVal>>
-----------------------------------------------------------------------------
(***************************************************************************)
(* The page of users, Display_User_ID_Setting.                             *)
(***************************************************************************)
UserErase ==
  /\ Key("userId") /\ ajustValue = 1
  /\ TempUserID' = [TempUserID EXCEPT ![index] = "blank"]
  /\ UNCHANGED <<control, learnUID, strayed, mTempVal>>

UserOpen ==
  /\ Key("userId") /\ ajustValue = 0
  /\ ajustValue' = 1 /\ learnUID' = 1
  /\ UNCHANGED <<page, index, previousIndex, init, TempUserID, strayed, mTempVal>>

\* Slip: the row is stored, and cards are learned on.
UserStoreLearning ==
  /\ Key("userId") /\ ajustValue = 1
  /\ TempUserID' = [TempUserID EXCEPT ![index] = "stored"]
  /\ ajustValue' = 0
  /\ UNCHANGED <<page, index, previousIndex, init, learnUID, strayed, mTempVal>>

UserStore ==
  /\ Key("userId") /\ ajustValue = 1
  /\ TempUserID' = [TempUserID EXCEPT ![index] = "stored"]
  /\ ajustValue' = 0 /\ learnUID' = 0
  /\ UNCHANGED <<page, index, previousIndex, init, strayed, mTempVal>>

\* learnUID is not reset.
UserLeave ==
  /\ Key("userId")
  /\ Goto(Parent["userId"], previousIndex, 0)
  /\ ajustValue' = 0
  /\ strayed' = (strayed \/ learnUID = 1)
  /\ UNCHANGED <<learnUID, TempUserID, mTempVal>>

Menu_Scane ==
  \/ BeginPage \/ NoKey \/ StartMenu \/ ConfirmLeave
  \/ \E d \in Directories : DirectoryMove(d) \/ DirectoryEnter(d) \/ DirectoryLeave(d)
  \/ \E p \in Reports : ReportLeave(p)
  \/ \E p \in Lists : ListMove(p) \/ Adjust(p) \/ OpenOrStore(p) \/ ListLeave(p)
  \/ UserErase \/ UserOpen \/ UserStore \/ UserLeave

Next == Menu_Scane \/ ACS_AccessCheck \/ UpdateInfo \/ RS4852_UART_IRQHandler

Spec == Init /\ [][Next]_vars
-----------------------------------------------------------------------------
(***************************************************************************)
(* Properties.                                                             *)
(***************************************************************************)
\* The types.
TypeOK ==
  /\ page \in Pages /\ index \in (0..12) \cup Users /\ previousIndex \in 0..5
  /\ ajustValue \in 0..1 /\ init \in 0..1 /\ learnUID \in 0..1
  /\ mTempVal \in Switches
  /\ TempUserID \in [Users -> Contents]
  /\ turn \in {"menu", "check", "enable", "count", "update"}
  /\ newCardDetect \in 0..1
  /\ u8MosbusEn \in {0, 2} /\ u8BuffRead \in Seq(Stream)
  /\ Len(u8BuffRead) \in 0..CardLen + 1
  /\ next \in Stream /\ strayed \in BOOLEAN 
  /\ lost \in 0..CardLen - 1 /\ shift \in 0..CardLen - 1

\* The row that is selected is one of the page's, and one that the page shows,
\* by whatever way the page was reached: every page shares index with the
\* others, and only one row to come back to is kept for three levels of menus
\* (menu.c:575-649 and each page's ESC, 1072-1139 for the rows passed over).
SelectionFits ==
  /\ page \in Directories => index \in 0..Len(SubMenu[page]) - 1
  /\ page \in Lists => index \in 0..Rows[page] - 1
  /\ page = "atsSetting" /\ init = 0 => ~AtsHidden(index)

\* Cards are learned, and withheld from the door, only for a row that is open
\* on the page of users, and a row is open only while cards are learned for
\* it.  A row never holds a card that was shown before it was opened.  The one
\* exception: the page was left by ESC with a row open (menu.c:2363-2371 does
\* not reset learnUID), until it is begun again with learning ended.
LearnsForOpenRow ==
  \/ strayed
  \/ /\ (learnUID = 1) <=> (page = "userId" /\ ajustValue = 1)
     /\ learnUID = 1 => index \in Users
     /\ \A u \in Users : TempUserID[u] # "early"
     /\ page = "userId" /\ init = 0 =>
          \A u \in Users : TempUserID[u] # "stored" => u = index /\ ajustValue = 1

\* A number that waits to be taken is made of successive bytes, and begins with
\* the first byte of a card exactly if the bytes lost before it are whole cards
\* (rs485.c:141-146 and access_control.c:89-90).  A byte is lost while a
\* number waits, or between the check's two stores; the framing never
\* recovers from it by itself.
NumbersFramed ==
  u8MosbusEn = 2 =>
    /\ Len(u8BuffRead) = CardLen
    /\ u8BuffRead[1] % CardLen = shift
    /\ \A i \in 2..CardLen : u8BuffRead[i] = (u8BuffRead[i - 1] + 1) % (2 * CardLen)
=============================================================================
