----------------------------- MODULE UserTable -----------------------------
(***************************************************************************)
(* One row of the table of users and its three copies: in memory, where    *)
(* ACS_FindUserID looks a card up, in the entry of the MIB, and in the     *)
(* EEPROM, from which it is read at start-up.  Three tasks write it: the   *)
(* menu (Display_User_ID_Setting), the SNMP agent                          *)
(* (privateMibSetConfigAccessIdEntry) and the handler of MQTT commands     *)
(* (mqtt_json_parse_configure_card_id).                                    *)
(*                                                                         *)
(* hello_task, with the menu and UpdateInfo, has priority 4, the agent 1   *)
(* and the handler that of the idle task.  A task runs on while those      *)
(* above it wait: for their next turn or request, or for the I2C lock.     *)
(* ACS_SaveUserID takes the lock once a byte and suspends the scheduler    *)
(* while it writes, so that writing a byte is one step.                    *)
(*                                                                         *)
(* A byte is represented by the number it belongs to.                      *)
(*                                                                         *)
(* A definition marked "Slip" is a wrong variant of the one that follows;  *)
(* no action uses it.  It shows that a property would notice the slip.     *)
(***************************************************************************)
EXTENDS Naturals

CONSTANTS
  NumberLen, \* the bytes of a number, 8
  Numbers,   \* the numbers that are entered
  Zero       \* the bytes of a row that was never set

ASSUME UserTableAssumption ==
  /\ NumberLen \in Nat \ {0}
  /\ Zero \notin Numbers

Bytes == 1..NumberLen
Values == Numbers \cup {Zero}
All(n) == [j \in Bytes |-> n]

VARIABLES
  u8UserID,              \* sMenu_Variable.u8UserID[i]
  configAccessIdCard,    \* the entry of the MIB
  eeprom,
  i2cLock,               \* "free", or the task that holds it
  \* the tasks: pc, the byte they are at, and the number they store
  helloPc, helloByte, helloNumber,
  agentPc, agentByte, agentNumber, agentLoaded,
  mqttPc, mqttByte, mqttNumber,
  \* history
  entered,    \* per copy, the number that was stored into it last
  disturbed   \* the copies whose last store was disturbed

copies  == <<u8UserID, configAccessIdCard, eeprom>>
hello   == <<helloPc, helloByte, helloNumber>>
agent   == <<agentPc, agentByte, agentNumber, agentLoaded>>
mqtt    == <<mqttPc, mqttByte, mqttNumber>>
history == <<entered, disturbed>>
tableVars == <<copies, i2cLock, hello, agent, mqtt, history>>

Copies == {"memory", "eeprom"}

TableInit ==
  /\ u8UserID = All(Zero) /\ configAccessIdCard = All(Zero) /\ eeprom = All(Zero)
  /\ i2cLock = "free"
  /\ helloPc = "idle" /\ helloByte = 1 /\ helloNumber = Zero
  /\ agentPc = "idle" /\ agentByte = 1 /\ agentNumber = Zero /\ agentLoaded = Zero
  /\ mqttPc = "idle" /\ mqttByte = 1 /\ mqttNumber = Zero
  /\ entered = [c \in Copies |-> Zero] /\ disturbed = {}

\* Who may run: a task waits between its turns, and for the lock.
HelloWaits == helloPc = "idle" \/ i2cLock # "free"
AgentWaits == agentPc = "idle" \/ (agentPc = "lock" /\ i2cLock # "free")
AgentRuns  == HelloWaits
MqttRuns   == HelloWaits /\ AgentWaits

\* A store of n into the copies cs begins; others are under way or not.
Begin(n, cs, alone) ==
  /\ entered' = [c \in Copies |-> IF c \in cs THEN n ELSE entered[c]]
  /\ disturbed' = IF alone THEN disturbed \ cs ELSE Copies

NextByte(j) == IF j < NumberLen THEN j + 1 ELSE 1
\* A task forgets the number with its last byte.
Until(j, n) == IF j < NumberLen THEN n ELSE Zero
-----------------------------------------------------------------------------
(***************************************************************************)
(* hello_task: the menu stores a row, and each turn ends with UpdateInfo.  *)
(***************************************************************************)
MenuStore(n) ==
  /\ helloPc = "idle"
  /\ u8UserID' = All(n)
  /\ helloPc' = "save" /\ helloByte' = 1 /\ helloNumber' = n
  /\ Begin(n, Copies, agentPc = "idle" /\ mqttPc = "idle")
  /\ UNCHANGED <<configAccessIdCard, eeprom, i2cLock, agent, mqtt>>

\* Slip: the last byte is not written.
MenuSaveShort ==
  /\ helloPc = "save" /\ i2cLock = "free"
  /\ eeprom' = IF helloByte < NumberLen THEN [eeprom EXCEPT ![helloByte] = helloNumber] ELSE eeprom
  /\ helloByte' = NextByte(helloByte)
  /\ helloPc' = IF helloByte < NumberLen THEN "save" ELSE "update"
  /\ helloNumber' = Until(helloByte, helloNumber)
  /\ UNCHANGED <<u8UserID, configAccessIdCard, i2cLock, agent, mqtt, history>>

MenuSave ==
  /\ helloPc = "save" /\ i2cLock = "free"
  /\ eeprom' = [eeprom EXCEPT ![helloByte] = helloNumber]
  /\ helloByte' = NextByte(helloByte)
  /\ helloPc' = IF helloByte < NumberLen THEN "save" ELSE "update"
  /\ helloNumber' = Until(helloByte, helloNumber)
  /\ UNCHANGED <<u8UserID, configAccessIdCard, i2cLock, agent, mqtt, history>>

\* UpdateInfo makes the entry of the MIB anew from memory.  An agent that is about to
\* copy from it, or has not copied all of it, is disturbed.
UpdateEntry ==
  /\ helloPc \in {"idle", "update"}
  /\ configAccessIdCard' = u8UserID
  /\ helloPc' = "idle"
  /\ disturbed' = IF agentPc \in {"fill", "load", "store"} THEN Copies ELSE disturbed
  /\ UNCHANGED <<u8UserID, eeprom, i2cLock, helloByte, helloNumber, agent, mqtt, entered>>

Hello == (\E n \in Numbers : MenuStore(n)) \/ MenuSave \/ UpdateEntry
-----------------------------------------------------------------------------
(***************************************************************************)
(* privateMibSetConfigAccessIdEntry: the value is copied into the entry,   *)
(* from there into memory, and from there into the EEPROM.                 *)
(***************************************************************************)
AgentStart(n) ==
  /\ agentPc = "idle" /\ AgentRuns
  /\ configAccessIdCard' = All(Zero)
  /\ agentPc' = "fill" /\ agentByte' = 1 /\ agentNumber' = n
  /\ Begin(n, Copies, helloPc = "idle" /\ mqttPc = "idle")
  /\ UNCHANGED <<u8UserID, eeprom, i2cLock, hello, agentLoaded, mqtt>>

AgentFill ==
  /\ agentPc = "fill" /\ AgentRuns
  /\ configAccessIdCard' = [configAccessIdCard EXCEPT ![agentByte] = agentNumber]
  /\ agentByte' = NextByte(agentByte)
  /\ agentPc' = IF agentByte < NumberLen THEN "fill" ELSE "load"
  /\ UNCHANGED <<u8UserID, eeprom, i2cLock, hello, agentNumber, agentLoaded, mqtt, history>>

AgentLoad ==
  /\ agentPc = "load" /\ AgentRuns
  /\ agentLoaded' = configAccessIdCard[agentByte]
  /\ agentPc' = "store"
  /\ UNCHANGED <<copies, i2cLock, hello, agentByte, agentNumber, mqtt, history>>

AgentStore ==
  /\ agentPc = "store" /\ AgentRuns
  /\ u8UserID' = [u8UserID EXCEPT ![agentByte] = agentLoaded]
  /\ agentByte' = NextByte(agentByte) /\ agentLoaded' = Zero
  /\ agentPc' = IF agentByte < NumberLen THEN "load" ELSE "lock"
  /\ UNCHANGED <<configAccessIdCard, eeprom, i2cLock, hello, agentNumber, mqtt, history>>

AgentLock ==
  /\ agentPc = "lock" /\ AgentRuns /\ i2cLock = "free"
  /\ i2cLock' = "agent"
  /\ agentPc' = "write"
  /\ UNCHANGED <<copies, hello, agentByte, agentNumber, agentLoaded, mqtt, history>>

AgentWrite ==
  /\ agentPc = "write" /\ AgentRuns
  /\ eeprom' = [eeprom EXCEPT ![agentByte] = configAccessIdCard[agentByte]]
  /\ agentPc' = "release"
  /\ UNCHANGED <<u8UserID, configAccessIdCard, i2cLock, hello, agentByte, agentNumber, agentLoaded, mqtt, history>>

\* Slip: the lock is released after the last byte only by the next store.
AgentReleaseKeeps ==
  /\ agentPc = "release" /\ AgentRuns
  /\ i2cLock' = IF agentByte < NumberLen THEN "free" ELSE i2cLock
  /\ agentByte' = NextByte(agentByte) /\ agentNumber' = Until(agentByte, agentNumber)
  /\ agentPc' = IF agentByte < NumberLen THEN "lock" ELSE "idle"
  /\ UNCHANGED <<copies, hello, agentLoaded, mqtt, history>>

AgentRelease ==
  /\ agentPc = "release" /\ AgentRuns
  /\ i2cLock' = "free"
  /\ agentByte' = NextByte(agentByte) /\ agentNumber' = Until(agentByte, agentNumber)
  /\ agentPc' = IF agentByte < NumberLen THEN "lock" ELSE "idle"
  /\ UNCHANGED <<copies, hello, agentLoaded, mqtt, history>>

Agent ==
  \/ AgentFill \/ AgentLoad \/ AgentStore \/ AgentLock \/ AgentWrite \/ AgentRelease
-----------------------------------------------------------------------------
(***************************************************************************)
(* mqtt_json_parse_configure_card_id: only the EEPROM is written, memory   *)
(* follows at the next start.                                              *)
(***************************************************************************)
MqttStart(n) ==
  /\ mqttPc = "idle" /\ MqttRuns
  /\ mqttPc' = "lock" /\ mqttByte' = 1 /\ mqttNumber' = n
  /\ Begin(n, {"eeprom"}, helloPc = "idle" /\ agentPc = "idle")
  /\ UNCHANGED <<copies, i2cLock, hello, agent>>

MqttLock ==
  /\ mqttPc = "lock" /\ MqttRuns /\ i2cLock = "free"
  /\ i2cLock' = "mqtt"
  /\ mqttPc' = "write"
  /\ UNCHANGED <<copies, hello, agent, mqttByte, mqttNumber, history>>

MqttWrite ==
  /\ mqttPc = "write" /\ MqttRuns
  /\ eeprom' = [eeprom EXCEPT ![mqttByte] = mqttNumber]
  /\ mqttPc' = "release"
  /\ UNCHANGED <<u8UserID, configAccessIdCard, i2cLock, hello, agent, mqttByte, mqttNumber, history>>

MqttRelease ==
  /\ mqttPc = "release" /\ MqttRuns
  /\ i2cLock' = "free"
  /\ mqttByte' = NextByte(mqttByte) /\ mqttNumber' = Until(mqttByte, mqttNumber)
  /\ mqttPc' = IF mqttByte < NumberLen THEN "lock" ELSE "idle"
  /\ UNCHANGED <<copies, hello, agent, history>>

Mqtt == MqttLock \/ MqttWrite \/ MqttRelease

\* The power fails and comes back: Init_All_Variable reads the row.
Restart ==
  /\ u8UserID' = eeprom /\ configAccessIdCard' = All(Zero)
  /\ i2cLock' = "free"
  /\ helloPc' = "idle" /\ helloByte' = 1 /\ helloNumber' = Zero
  /\ agentPc' = "idle" /\ agentByte' = 1 /\ agentNumber' = Zero /\ agentLoaded' = Zero
  /\ mqttPc' = "idle" /\ mqttByte' = 1 /\ mqttNumber' = Zero
  /\ entered' = [c \in Copies |-> entered["eeprom"]]
  /\ disturbed' = IF "eeprom" \in disturbed \/ helloPc = "save"
                     \/ agentPc # "idle" \/ mqttPc # "idle"
                  THEN Copies ELSE {}
  /\ UNCHANGED eeprom

TableNext ==
  \/ Hello
  \/ (\E n \in Numbers : AgentStart(n)) \/ Agent
  \/ (\E n \in Numbers : MqttStart(n)) \/ Mqtt
  \/ Restart

TableSpec == TableInit /\ [][TableNext]_tableVars

\* Nobody waits for ever: a task that may run does, and those above it block
\* at the end of each turn.
TableFairSpec ==
  /\ TableSpec
  /\ WF_tableVars(MenuSave) /\ WF_tableVars(helloPc = "update" /\ UpdateEntry)
  /\ SF_tableVars(Agent) /\ SF_tableVars(Mqtt)
-----------------------------------------------------------------------------
(***************************************************************************)
(* Properties.                                                             *)
(***************************************************************************)
\* The types; the lock is held by the task that is about to write or release.
TableTypeOK ==
  /\ u8UserID \in [Bytes -> Values] /\ configAccessIdCard \in [Bytes -> Values]
  /\ eeprom \in [Bytes -> Values]
  /\ helloPc \in {"idle", "save", "update"} /\ helloByte \in Bytes /\ helloNumber \in Values
  /\ agentPc \in {"idle", "fill", "load", "store", "lock", "write", "release"}
  /\ agentByte \in Bytes /\ agentNumber \in Values /\ agentLoaded \in Values
  /\ mqttPc \in {"idle", "lock", "write", "release"}
  /\ mqttByte \in Bytes /\ mqttNumber \in Values
  /\ i2cLock \in {"free", "agent", "mqtt"}
  /\ (i2cLock = "agent") <=> (agentPc \in {"write", "release"})
  /\ (i2cLock = "mqtt") <=> (mqttPc \in {"write", "release"})
  /\ entered \in [Copies -> Values] /\ disturbed \subseteq Copies

\* When nobody is storing it, a row holds every byte of the number that was
\* entered last, in memory (where a remote command arrives with the next start
\* only) and in the EEPROM.  The exceptions are the stores that begin while
\* another is under way, that UpdateInfo meets before the agent has copied the
\* entry it refreshes (private_mib_impl.c:1366-1372 and 1911-1918), or that the
\* power cuts short; the next undisturbed store makes the row good.
RowIsAsEntered ==
  helloPc # "save" /\ agentPc = "idle" /\ mqttPc = "idle" =>
    /\ "memory" \in disturbed \/ u8UserID = All(entered["memory"])
    /\ "eeprom" \in disturbed \/ eeprom = All(entered["eeprom"])

\* Every store comes to its end, although the menu, at the highest priority,
\* waits for a lock that tasks of lower priority hold, with others in between.
StoresEnd ==
  /\ helloPc = "save" ~> helloPc # "save"
  /\ agentPc # "idle" ~> agentPc = "idle"
  /\ mqttPc # "idle" ~> mqttPc = "idle"
=============================================================================
