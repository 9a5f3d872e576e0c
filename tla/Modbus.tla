------------------------------- MODULE Modbus -------------------------------
(***************************************************************************)
(* The RS-485 bus: the polling task (rs485_task of user_task.c), the       *)
(* Modbus master and its receive interrupt (rs485.c), and the tasks that   *)
(* enter settings for it to forward (menu.c, mqtt_json_parse.c,            *)
(* private_mib_impl.c).                                                    *)
(*                                                                         *)
(* A frame is received as a whole: what the interrupt does with one that   *)
(* starts or ends in the wrong place is a choice over what can be left in  *)
(* the buffer.  The CRC is taken to find every damaged frame.              *)
(*                                                                         *)
(* A definition marked "Slip" is a wrong variant of the one that follows;  *)
(* no action uses it.  It shows that a property would notice the slip.     *)
(***************************************************************************)
EXTENDS Naturals

CONSTANTS
  AtsSettings, AirconSettings,  \* the settings forwarded to each module
  Values,        \* the values a setting can take
  Fitted,        \* the modules present on the bus
  Late,          \* the modules that can answer after the 200 ticks of a wait
  Writers,       \* the remote agents that enter settings
  Limit,         \* the 5 unanswered polls that raise the alarm
  CounterMod     \* the no-response counters count modulo this (uint8_t)

Slaves   == {"ats", "door", "aircon"}
Settings == AtsSettings \union AirconSettings

\* The registers polled from each module (Read_Holding_Regs_Query).
Count == [s \in Slaves |-> CASE s = "ats"    -> 33
                             [] s = "door"   -> 5
                             [] s = "aircon" -> 12]

ASSUME ModbusAssumption ==
  /\ AtsSettings \intersect AirconSettings = {}
  /\ "none" \notin Settings /\ "clock" \notin Settings
  /\ Values \subseteq Nat /\ Values # {}
  /\ Fitted \subseteq Slaves
  /\ Late \subseteq Slaves
  /\ Limit \in Nat \ {0}
  /\ CounterMod \in Nat \ {0}

Owner(k) == IF k \in AtsSettings THEN "ats" ELSE "aircon"

\* What a module sends back.  Only the answer to a poll carries registers.
ReadAnswer(s) == [slave |-> s, kind |-> "read", count |-> Count[s]]
Echo(s, kind) == [slave |-> s, kind |-> kind, count |-> 0]
Frames == {ReadAnswer(s) : s \in Slaves}
            \union {Echo(s, kind) : s \in Slaves, kind \in {"write", "time"}}
Damaged == [slave |-> "none", kind |-> "bad", count |-> 0]
Nothing == [slave |-> "none", kind |-> "none", count |-> 0]

Steps == {"WAIT_MODE", "READ_ATS", "WAIT_ATS", "READ_DOOR", "WAIT_DOOR",
          "READ_AIR", "WAIT_AIR", "WAIT_WRITE", "WAIT_TIME_ATS",
          "WAIT_TIME_AIRCON"}

VARIABLES
  \* the bus
  alive,        \* the modules that work
  air,          \* the answers that have not reached the master yet
  reg,          \* the modules' copies of the settings
  \* sMenu_Variable
  changedVal,   \* the setting to forward, "clock" or "none"
  value,        \* the settings
  entering,     \* per writer, the entry whose value is not stored yet
  \* Modbus
  runningStep, u8MosbusEn, u8SlaveID,
  u8BuffRead,   \* what is in the buffer once u8MosbusEn is 2
  numberReg,    \* u8NumberRegHigh, u8NumberRegLow
  noRespond, error,
  inDelay,      \* the task is in the delay inside a case of its switch
  recorded,     \* per module, whose frame its record was last filled from
  \* history
  answered,     \* the module asked last has answered
  afterClock,   \* no answer was examined since the clock was sent
  raced         \* settings whose entry met one of the races listed below

bus     == <<alive, air, reg>>
entry   == <<value, entering>>
polling == <<noRespond, error>>
busVars    == <<bus, changedVal, entry, runningStep, u8MosbusEn, u8BuffRead,
             u8SlaveID, numberReg, polling, inDelay, recorded, answered,
             afterClock, raced>>

Polled == {"ats", "aircon"}
Idle   == [k |-> "none", v |-> 0]

BusInit ==
  /\ alive \in SUBSET Fitted
  /\ air = {}
  /\ value \in [Settings -> Values]
  /\ reg = value
  /\ changedVal = "none"
  /\ entering = [w \in Writers |-> Idle]
  /\ runningStep = "WAIT_MODE" /\ inDelay = FALSE
  /\ u8MosbusEn = 0 /\ u8BuffRead = Nothing
  /\ u8SlaveID = "none" /\ numberReg = 0
  /\ noRespond = [s \in Polled |-> 0] /\ error = [s \in Polled |-> FALSE]
  /\ recorded = [s \in Polled |-> "none"]
  /\ answered = FALSE /\ afterClock = FALSE /\ raced = {}
-----------------------------------------------------------------------------
(***************************************************************************)
(* The master's queries.  The buffer and its state u8MosbusEn are not      *)
(* reset by any of them.                                                   *)
(***************************************************************************)
Send(s, answer) ==
  /\ u8SlaveID' = s
  /\ air' = IF s \in alive THEN air \union {answer} ELSE air
  /\ answered' = FALSE

Read_Holding_Regs_Query(s) ==
  /\ Send(s, ReadAnswer(s))
  /\ numberReg' = Count[s]
  /\ UNCHANGED reg

\* The two bytes of the value take the place of the register count.
Write_Single_Reg(k) ==
  /\ Send(Owner(k), Echo(Owner(k), "write"))
  /\ numberReg' = value[k]
  /\ reg' = IF Owner(k) \in alive THEN [reg EXCEPT ![k] = value[k]] ELSE reg

Write_Time_Reg(s) ==
  /\ Send(s, Echo(s, "time"))
  /\ afterClock' = TRUE
  /\ UNCHANGED <<numberReg, reg>>
-----------------------------------------------------------------------------
(***************************************************************************)
(* RS4851_Check_Respond_Data.  Of a poll's answer only the length is       *)
(* compared with the query; of any other frame nothing is.                 *)
(***************************************************************************)

\* Slip: the length is not compared.
AcceptedAnyLength == u8MosbusEn = 2 /\ u8BuffRead.kind # "bad"

Accepted ==
  /\ u8MosbusEn = 2
  /\ u8BuffRead.kind # "bad"
  /\ u8BuffRead.kind = "read" => u8BuffRead.count = numberReg

\* Slip: a frame that is turned down stays in the buffer.
CheckKeepsRejected ==
  /\ u8MosbusEn' = IF Accepted THEN 0 ELSE u8MosbusEn
  /\ u8BuffRead' = IF Accepted THEN Nothing ELSE u8BuffRead
  /\ recorded' = IF Accepted /\ u8BuffRead.kind = "read" /\ u8SlaveID \in Polled
                   THEN [recorded EXCEPT ![u8SlaveID] = u8BuffRead.slave]
                   ELSE recorded
  /\ afterClock' = FALSE

\* The data go to the record of the module asked last.
Check ==
  /\ u8MosbusEn' = 0
  /\ u8BuffRead' = Nothing
  /\ recorded' = IF Accepted /\ u8BuffRead.kind = "read" /\ u8SlaveID \in Polled
                   THEN [recorded EXCEPT ![u8SlaveID] = u8BuffRead.slave]
                   ELSE recorded
  /\ afterClock' = FALSE
-----------------------------------------------------------------------------
(***************************************************************************)
(* rs485_task.  Each turn starts after a delay of 200 ticks, long enough   *)
(* for the answer of every module that is not in Late.                     *)
(***************************************************************************)
Waited == \A f \in air : f.slave \in Late

\* A setting to forward goes before the step the polling has reached.
ForwardSetting ==
  /\ ~inDelay /\ Waited
  /\ changedVal \in Settings
  /\ Write_Single_Reg(changedVal)
  /\ runningStep' = "WAIT_WRITE" /\ inDelay' = TRUE
  /\ UNCHANGED <<alive, changedVal, entry, u8MosbusEn, u8BuffRead, polling,
                 recorded, afterClock, raced>>

ForwardClock ==
  /\ ~inDelay /\ Waited
  /\ changedVal = "clock"
  /\ Write_Time_Reg("ats")
  /\ runningStep' = "WAIT_TIME_ATS" /\ inDelay' = TRUE
  /\ UNCHANGED <<alive, changedVal, entry, u8MosbusEn, u8BuffRead, polling,
                 recorded, raced>>

Polling == ~inDelay /\ Waited /\ changedVal = "none"

Poll(s, from, to) ==
  /\ Polling
  /\ runningStep = from /\ runningStep' = to
  /\ Read_Holding_Regs_Query(s)
  /\ UNCHANGED <<alive, changedVal, entry, u8MosbusEn, u8BuffRead, polling,
                 inDelay, recorded, afterClock, raced>>

READ_ATS_STATUS == Poll("ats", "READ_ATS", "WAIT_ATS")
READ_DOOR       == Poll("door", "READ_DOOR", "WAIT_DOOR")
READ_AIR_COND   == Poll("aircon", "READ_AIR", "WAIT_AIR")

\* Slip: reaching the limit restarts the count without the alarm.
CountPollRestarts(s) ==
  IF Accepted
    THEN /\ noRespond' = [noRespond EXCEPT ![s] = 0]
         /\ error' = [error EXCEPT ![s] = FALSE]
    ELSE LET n == noRespond[s] + 1 IN
         /\ noRespond' = [noRespond EXCEPT ![s] = IF n >= Limit THEN 0 ELSE n]
         /\ error' = error

\* Slip: a counter that does not wrap.
CountPollNoWrap(s) ==
  IF Accepted
    THEN /\ noRespond' = [noRespond EXCEPT ![s] = 0]
         /\ error' = [error EXCEPT ![s] = FALSE]
    ELSE LET n == noRespond[s] + 1 IN
         /\ noRespond' = [noRespond EXCEPT ![s] = n]
         /\ error' = [error EXCEPT ![s] = @ \/ n >= Limit]

\* The count goes on past the limit and wraps; the alarm stays.
CountPoll(s) ==
  IF Accepted
    THEN /\ noRespond' = [noRespond EXCEPT ![s] = 0]
         /\ error' = [error EXCEPT ![s] = FALSE]
    ELSE LET n == (noRespond[s] + 1) % CounterMod IN
         /\ noRespond' = [noRespond EXCEPT ![s] = n]
         /\ error' = [error EXCEPT ![s] = @ \/ n >= Limit]

Examine(s, from, to) ==
  /\ Polling
  /\ runningStep = from /\ runningStep' = to
  /\ Check
  /\ CountPoll(s)
  /\ UNCHANGED <<bus, changedVal, entry, u8SlaveID, numberReg, inDelay,
                 answered, raced>>

WAIT_ATS_RESPOND      == Examine("ats", "WAIT_ATS", "READ_DOOR")
WAIT_AIR_COND_RESPOND == Examine("aircon", "WAIT_AIR", "READ_ATS")

\* The door module's answer is not examined.  Its counter is left out: the
\* flag it raises is read nowhere.
WAIT_DOOR_RESPOND ==
  /\ Polling
  /\ runningStep = "WAIT_DOOR" /\ runningStep' = "READ_AIR"
  /\ UNCHANGED <<bus, changedVal, entry, u8MosbusEn, u8BuffRead, u8SlaveID,
                 numberReg, polling, inDelay, recorded, answered, afterClock,
                 raced>>

\* The cases that begin with a delay of their own.
EnterDelay ==
  /\ Polling
  /\ runningStep \in {"WAIT_MODE", "WAIT_WRITE", "WAIT_TIME_ATS",
                      "WAIT_TIME_AIRCON"}
  /\ inDelay' = TRUE
  /\ UNCHANGED <<bus, changedVal, entry, runningStep, u8MosbusEn, u8BuffRead,
                 u8SlaveID, numberReg, polling, recorded, answered, afterClock,
                 raced>>

AfterDelay(from, to) ==
  /\ inDelay /\ Waited
  /\ runningStep = from /\ runningStep' = to
  /\ inDelay' = FALSE
  /\ UNCHANGED <<alive, entry, polling>>

EndOfWait ==
  /\ \/ AfterDelay("WAIT_MODE", "READ_ATS")
     \/ AfterDelay("WAIT_TIME_AIRCON", "READ_ATS")
  /\ UNCHANGED <<air, reg, changedVal, u8MosbusEn, u8BuffRead, u8SlaveID,
                 numberReg, recorded, answered, afterClock, raced>>

\* The frame in the buffer need not be the echo of the write just sent.
Doubtful == Accepted /\ (u8BuffRead.kind # "write" \/ u8BuffRead.slave \in Late)

\* Slip: the setting is dropped after one attempt.
EndOfWriteOnce ==
  /\ AfterDelay("WAIT_WRITE", "READ_ATS")
  /\ Check
  /\ changedVal' = "none"
  /\ raced' = IF Doubtful THEN raced \union ({changedVal} \intersect Settings)
              ELSE raced
  /\ UNCHANGED <<air, reg, u8SlaveID, numberReg, answered>>

\* An accepted frame acknowledges whatever changedVal is by now.  One that is
\* not the echo of this write acknowledges a write that may not have been heard.
EndOfWrite ==
  /\ AfterDelay("WAIT_WRITE", "READ_ATS")
  /\ Check
  /\ changedVal' = IF Accepted THEN "none" ELSE changedVal
  /\ raced' = IF Doubtful THEN raced \union ({changedVal} \intersect Settings)
              ELSE raced
  /\ UNCHANGED <<air, reg, u8SlaveID, numberReg, answered>>

\* The clock goes to the air conditioner next; no answer is examined.
EndOfTimeAts ==
  /\ AfterDelay("WAIT_TIME_ATS", "WAIT_TIME_AIRCON")
  /\ Write_Time_Reg("aircon")
  /\ changedVal' = "none"
  /\ UNCHANGED <<u8MosbusEn, u8BuffRead, recorded, raced>>

rs485_task ==
  \/ ForwardSetting \/ ForwardClock
  \/ READ_ATS_STATUS \/ READ_DOOR \/ READ_AIR_COND
  \/ WAIT_ATS_RESPOND \/ WAIT_DOOR_RESPOND \/ WAIT_AIR_COND_RESPOND
  \/ EnterDelay \/ EndOfWait \/ EndOfWrite \/ EndOfTimeAts
-----------------------------------------------------------------------------
(***************************************************************************)
(* RS4851_UART_IRQHandler: an answer arrives.                              *)
(***************************************************************************)
Receive(en, frame) ==
  /\ u8MosbusEn' = en
  /\ u8BuffRead' = IF en = 2 THEN frame ELSE Nothing

\* With u8MosbusEn = 2 the bytes are dropped.  With 0 a frame that starts with
\* the address asked last is stored, and inside any other one a byte equal to
\* that address may start a frame that never was.  With 1 the bytes go behind
\* what is there already, or to the start if a query has reset the pointer.
RS4851_UART_IRQHandler ==
  \E f \in air :
    /\ air' = air \ {f}
    /\ answered' = (answered \/ f.slave = u8SlaveID)
    /\ \/ u8MosbusEn = 2 /\ UNCHANGED <<u8MosbusEn, u8BuffRead>>
       \/ u8MosbusEn = 0 /\ f.slave = u8SlaveID /\ Receive(2, f)
       \/ u8MosbusEn = 0 /\ f.slave # u8SlaveID
            /\ \E en \in 0..2 : Receive(en, Damaged)
       \/ u8MosbusEn = 1 /\ \E en \in 0..2 : Receive(en, Damaged)
       \/ u8MosbusEn = 1 /\ Receive(2, f)
    /\ UNCHANGED <<alive, reg, changedVal, entry, runningStep, u8SlaveID,
                   numberReg, polling, inDelay, recorded, afterClock, raced>>

\* A module that stops, and two answers at the same time, leave nothing or
\* noise in place of an answer.
Damage ==
  \E f \in air :
    /\ f.slave \notin alive \/ air # {f}
    /\ air' = air \ {f}
    /\ \/ UNCHANGED <<u8MosbusEn, u8BuffRead>>
       \/ u8MosbusEn # 2 /\ \E en \in 0..2 : Receive(en, Damaged)
    /\ UNCHANGED <<alive, reg, changedVal, entry, runningStep, u8SlaveID,
                   numberReg, polling, inDelay, recorded, answered,
                   afterClock, raced>>

Fail ==
  /\ \E s \in Fitted :
       alive' = IF s \in alive THEN alive \ {s} ELSE alive \union {s}
  /\ UNCHANGED <<air, reg, changedVal, entry, runningStep, u8MosbusEn,
                 u8BuffRead, u8SlaveID, numberReg, polling, inDelay, recorded,
                 answered, afterClock, raced>>
-----------------------------------------------------------------------------
(***************************************************************************)
(* The entry of settings.  The menu runs above the polling task, so its    *)
(* two assignments cannot be split; the MQTT handler and the SNMP agent do *)
(* not, and they set changedVal before the value.                          *)
(***************************************************************************)
Untouched == UNCHANGED <<bus, runningStep, u8MosbusEn, u8BuffRead, u8SlaveID,
                         numberReg, polling, inDelay, recorded, answered,
                         afterClock>>

\* The task is between sending a setting or the clock and clearing changedVal.
Clearing == inDelay /\ runningStep \in {"WAIT_WRITE", "WAIT_TIME_ATS"}

\* The races of an entry: it overtakes the setting still to be forwarded, or
\* falls into the wait after which changedVal is cleared.
Enter(k) ==
  /\ changedVal' = k
  /\ raced' = (raced \ {k})
               \union (({changedVal} \intersect Settings) \ {k})
               \union (IF Clearing THEN {k} ELSE {})
  /\ Untouched

MenuSetting(k, v) ==
  /\ Enter(k)
  /\ value' = [value EXCEPT ![k] = v]
  /\ UNCHANGED entering

RemoteFlag(w, k, v) ==
  /\ entering[w] = Idle
  /\ Enter(k)
  /\ entering' = [entering EXCEPT ![w] = [k |-> k, v |-> v]]
  /\ UNCHANGED value

\* ... and the third one: the setting was forwarded before its value is stored.
RemoteStore(w) ==
  /\ entering[w] # Idle
  /\ LET e == entering[w] IN
       /\ value' = [value EXCEPT ![e.k] = e.v]
       /\ raced' = IF changedVal # e.k \/ Clearing
                     THEN raced \union {e.k} ELSE raced
  /\ entering' = [entering EXCEPT ![w] = Idle]
  /\ UNCHANGED changedVal
  /\ Untouched

SetClock ==
  /\ changedVal' = "clock"
  /\ raced' = raced \union ({changedVal} \intersect Settings)
  /\ UNCHANGED entry
  /\ Untouched

EnterSetting ==
  \/ \E k \in Settings, v \in Values : MenuSetting(k, v)
  \/ \E w \in Writers, k \in AirconSettings, v \in Values : RemoteFlag(w, k, v)
  \/ \E w \in Writers : RemoteStore(w)
  \/ SetClock

BusNext ==
  rs485_task \/ RS4851_UART_IRQHandler \/ Damage \/ Fail \/ EnterSetting

\* The task ends every turn with a delay, never waits for anything else, and
\* an answer on the line arrives.
BusFairness == WF_busVars(rs485_task) /\ WF_busVars(RS4851_UART_IRQHandler)

BusSpec     == BusInit /\ [][BusNext]_busVars
BusFairSpec == BusSpec /\ BusFairness
-----------------------------------------------------------------------------
(***************************************************************************)
(* Properties.                                                             *)
(***************************************************************************)
Entries == {Idle} \union [k : Settings, v : Values]

\* Every variable keeps its type; the no-response counters stay below their
\* modulus.
BusTypeOK ==
  /\ alive \subseteq Fitted
  /\ air \subseteq Frames
  /\ reg \in [Settings -> Values] /\ value \in [Settings -> Values]
  /\ changedVal \in Settings \union {"none", "clock"}
  /\ entering \in [Writers -> Entries]
  /\ runningStep \in Steps
  /\ u8MosbusEn \in 0..2
  /\ u8BuffRead \in Frames \union {Damaged, Nothing}
  /\ u8SlaveID \in Slaves \union {"none"}
  /\ numberReg \in Nat
  /\ noRespond \in [Polled -> 0..(CounterMod - 1)]
  /\ error \in [Polled -> BOOLEAN]
  /\ inDelay \in BOOLEAN /\ answered \in BOOLEAN /\ afterClock \in BOOLEAN
  /\ recorded \in [Polled -> Slaves \union {"none"}]
  /\ raced \subseteq Settings

\* A record is filled from its own module's frames, however late, damaged or
\* displaced by a write the answers are; the only exception is a module whose
\* poll length is also a value somebody can set, since a write keeps its
\* value where the length of the answer is compared (rs485.c:169-170).
RecordedFromOwner ==
  \A s \in Polled :
    recorded[s] \in {"none", s} \union {t \in Slaves : Count[t] \in Values}

\* With modules that answer in time, a poll is counted as unanswered only if
\* the module did not answer, or if its answer found the buffer full: after the
\* clock was sent, or, at the air conditioner, behind the answer of a door
\* module, which no case of the task examines (user_task.c:335-350, 378-388).
Missed(s) ==
  /\ noRespond'[s] = (noRespond[s] + 1) % CounterMod
  /\ error'[s] \/ ~error[s]
NoFalseMiss ==
  [][\A s \in Polled :
       Missed(s) => \/ ~answered
                    \/ afterClock
                    \/ s = "aircon" /\ "door" \in Fitted]_busVars

\* A setting that its module does not have is still to be forwarded or met one
\* of the races marked by raced, whichever modules fail or answer late.
SettingKept ==
  \A k \in Settings :
    value[k] # reg[k] => changedVal = k \/ k \in raced

\* A setting does not stay pending for ever if its module works, whatever
\* answer is in the buffer when it is forwarded.
WriteAcknowledged ==
  \A k \in Settings :
    <>[](Owner(k) \in alive) => (changedVal = k ~> changedVal # k)

\* The alarm of a module that stops answering is raised and stays, also when
\* its counter wraps, once no setting keeps the task from polling.
DeadModuleNoticed ==
  \A s \in Polled :
    <>[](s \notin alive /\ changedVal = "none") => <>[]error[s]

\* Neither the settings nor the polling is ever stuck: a setting gets to a
\* module that works, and one that does not work is found out.
NeverStuck == WriteAcknowledged /\ DeadModuleNoticed
=============================================================================
