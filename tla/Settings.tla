------------------------------ MODULE Settings ------------------------------
(***************************************************************************)
(* The settings in memory (sMenu_Variable) and in the EEPROM: the start-up *)
(* that reads them or, the first time, writes the defaults                 *)
(* (Init_All_Variable), and the three tasks that change them: the menu in  *)
(* hello_task, the SNMP agent, and the handler of MQTT commands, in the    *)
(* order of their priorities.  The power may fail at any time.             *)
(*                                                                         *)
(* The menu takes the I2C lock and suspends the scheduler for each word,   *)
(* so that a word is one step.  The agent, and the handler for the air     *)
(* conditioner, do neither: their transfer can be cut by that of a task    *)
(* above them, and it is then open whether the EEPROM gets the word.       *)
(*                                                                         *)
(* Four words stand for all: the battery's threshold, a temperature of the *)
(* air conditioner, and two words of the address.  A word of the address   *)
(* is represented by the address it belongs to.  "names" stands for what   *)
(* the first start writes after the flag and no later start repairs: the   *)
(* device's name and the users.                                            *)
(*                                                                         *)
(* A definition marked "Slip" is a wrong variant of the one that follows;  *)
(* no action uses it.  It shows that a property would notice the slip.     *)
(***************************************************************************)
EXTENDS Naturals, Sequences

CONSTANTS
  Values,    \* the values in range
  Default,   \* one of them
  Wrong,     \* a value out of range
  Blank,     \* what a new EEPROM holds, out of range too
  Groups     \* the groups of words: a behaviour changes those of one group

ASSUME SettingsAssumption ==
  /\ Default \in Values
  /\ Wrong \notin Values /\ Blank \notin Values /\ Wrong # Blank

Single  == {"battery", "aircon"}
Address == {"ip1", "ip2"}
Words   == Single \cup Address
ASSUME GroupsAssumption == Groups \subseteq SUBSET Words
Stored  == Values \cup {Wrong, Blank}

\* Slip: the flag is left out.
FirstWritesNoFlag == <<"battery", "ip1", "ip2", "aircon", "names">>

\* The order in which the first start writes.
FirstWrites == <<"battery", "ip1", "ip2", "aircon", "flag", "names">>
\* The order in which every start reads.
Reads == <<"battery", "ip1", "ip2", "aircon">>
Set == Default   \* EEPROM_WRITE_FLAG, and names that were written

VARIABLES
  group,           \* the group of this behaviour
  eeprom,
  memory,
  battery2,        \* u16BattThresVolt[1], which is not in the EEPROM
  boot, at,        \* the phase of the start-up, and how far it is
  i2cLock,         \* "free", or "mqtt" while the handler holds it
  helloPc,         \* the word the menu stores, "read" for the bus, or "idle"
  staged,          \* sEthernetSetting_temp
  unlocked,        \* per task, its unlocked store: the word, and the value once
                   \* the transfer has begun
  mqttPc,          \* the locked command of the handler
  mqttAddress,
  \* history
  cut,             \* per task, something came between its reading memory and
                   \* the end of its transfer
  unsure,          \* the words whose last store was cut, or was not of memory
  unchecked,       \* the words in memory that are out of range, stored so by a
                   \* task that does not check them
  mixed,           \* the words of the address are from two stores: "yes", "no",
                   \* or "storing", until the store under way ends
  ran,             \* the start-up has once come to its end
  lostNames        \* the power failed between the flag and the names

stores  == <<eeprom, memory, battery2>>
booting == <<boot, at>>
hello   == <<helloPc, staged>>
mqtt    == <<mqttPc, mqttAddress>>
doubts  == <<unsure, unchecked>>
others  == <<ran, lostNames>>
vars    == <<group, stores, booting, i2cLock, hello, unlocked, mqtt, cut, doubts, mixed, others>>

Agents == {"agent", "mqtt"}
Whole(v) == [w \in Address |-> v]
None   == [word |-> "none", value |-> Blank]

Idle ==
  /\ i2cLock = "free" /\ helloPc = "idle" /\ staged = Whole(Blank)
  /\ unlocked = [a \in Agents |-> None]
  /\ mqttPc = "idle" /\ mqttAddress = Blank
  /\ cut = [a \in Agents |-> FALSE]

Init ==
  /\ group \in Groups
  /\ eeprom = [w \in Words \cup {"flag", "names"} |-> Blank]
  /\ memory = [w \in Words |-> Blank]
  /\ battery2 = Wrong
  /\ boot = "flag" /\ at = 1
  /\ Idle
  /\ unsure = {} /\ unchecked = {} /\ mixed = "no" /\ ran = FALSE /\ lostNames = FALSE
-----------------------------------------------------------------------------
(***************************************************************************)
(* Init_All_Variable, before the scheduler starts.                         *)
(***************************************************************************)
ReadFlag ==
  /\ boot = "flag"
  /\ boot' = IF eeprom["flag"] = Set THEN "read" ELSE "write"
  /\ UNCHANGED <<stores, at, i2cLock, hello, unlocked, mqtt, cut, doubts, mixed, others>>

\* Default, and what follows it.
WriteFirst ==
  /\ boot = "write"
  /\ eeprom' = [eeprom EXCEPT ![FirstWrites[at]] = Default]
  /\ memory' = [w \in Words |-> IF w = FirstWrites[at] THEN Default ELSE memory[w]]
  /\ IF at < Len(FirstWrites) THEN boot' = boot /\ at' = at + 1
     ELSE boot' = "read" /\ at' = 1
  /\ UNCHANGED <<battery2, i2cLock, hello, unlocked, mqtt, cut, doubts, mixed, others>>

\* Slip: a value out of range is replaced in memory only.
ReadMemoryOnly(w) ==
  /\ memory' = [memory EXCEPT ![w] = IF eeprom[w] \in Values THEN eeprom[w] ELSE Default]
  /\ UNCHANGED eeprom

ReadMemory(w) ==
  LET v == IF eeprom[w] \in Values THEN eeprom[w] ELSE Default
  IN  /\ memory' = [memory EXCEPT ![w] = v]
      /\ eeprom' = [eeprom EXCEPT ![w] = v]

ReadAll ==
  /\ boot = "read"
  /\ ReadMemory(Reads[at])
  /\ IF at < Len(Reads)
     THEN boot' = boot /\ at' = at + 1 /\ UNCHANGED <<unsure, ran>>
     ELSE boot' = "run" /\ at' = 1 /\ unsure' = {} /\ ran' = TRUE
  /\ UNCHANGED <<battery2, i2cLock, hello, unlocked, mqtt, cut, unchecked, mixed, lostNames>>

StartUp == ReadFlag \/ WriteFirst \/ ReadAll

PowerFails ==
  /\ boot' = "flag" /\ at' = 1
  /\ memory' = [w \in Words |-> Blank] /\ battery2' = Wrong
  /\ i2cLock' = "free" /\ helloPc' = "idle" /\ staged' = Whole(Blank)
  /\ unlocked' = [a \in Agents |-> None]
  /\ mqttPc' = "idle" /\ mqttAddress' = Blank
  /\ cut' = [a \in Agents |-> FALSE]
  /\ unchecked' = {}
  /\ mixed' = IF mixed # "no" \/ helloPc = "ip2" THEN "yes" ELSE "no"
  /\ lostNames' = (lostNames \/ (eeprom["flag"] = Set /\ eeprom["names"] = Blank))
  /\ UNCHANGED <<eeprom, unsure, ran>>
-----------------------------------------------------------------------------
(***************************************************************************)
(* Who may run.  A task waits between its turns or requests, and for the   *)
(* lock; in a transfer it counts the time and does not wait.               *)
(***************************************************************************)
Running    == boot = "run"
HelloWaits == helloPc = "idle" \/ i2cLock # "free"
AgentRuns  == Running /\ HelloWaits
MqttRuns   == AgentRuns /\ unlocked["agent"] = None
Runs(a)    == IF a = "agent" THEN AgentRuns ELSE MqttRuns

\* The transfers that a transfer of task t, or a store to a word of ws, cuts.
Cuts(t, ws) ==
  cut' = [a \in Agents |->
    \/ cut[a]
    \/ /\ a # t /\ unlocked[a].value # Blank
       /\ t # "none" \/ unlocked[a].word \in ws]
-----------------------------------------------------------------------------
(***************************************************************************)
(* hello_task: the menu, and the transfers that only read.                 *)
(***************************************************************************)
\* ENTER on an open row: the word is stored, and then waits for the lock.
MenuStore(w, v) ==
  /\ Running /\ helloPc = "idle"
  /\ memory' = [memory EXCEPT ![w] = v]
  /\ helloPc' = w
  /\ unchecked' = unchecked \ {w}
  /\ Cuts("none", {w})
  /\ UNCHANGED <<eeprom, battery2, booting, i2cLock, staged, unlocked, mqtt, unsure, mixed, others>>

\* The page of the address is begun: it is copied, and then edited.  A new
\* address, or the copy of what the page found.
OpenAddress ==
  /\ Running /\ helloPc = "idle" /\ Address \subseteq group
  /\ staged' \in {Whole(v) : v \in Values} \cup {[w \in Address |-> memory[w]]}
  /\ UNCHANGED <<stores, booting, i2cLock, helloPc, unlocked, mqtt, cut, doubts, mixed, others>>

\* ENTER on the page that asks for a confirmation.
Display_Setting_Confirm ==
  /\ Running /\ helloPc = "idle" /\ staged # Whole(Blank)
  /\ memory' = [memory EXCEPT !["ip1"] = staged["ip1"]]
  /\ helloPc' = "ip1"
  /\ mixed' = IF \/ i2cLock = "mqtt" /\ mqttPc = "address"
                 \/ staged["ip1"] # staged["ip2"]
              THEN "yes" ELSE IF mixed = "yes" THEN "storing" ELSE mixed
  /\ UNCHANGED <<eeprom, battery2, booting, i2cLock, staged, unlocked, mqtt, cut, doubts, others>>

\* Slip: the store of the address ends with its first word.
MenuWriteOnce(w) ==
  /\ helloPc = w /\ i2cLock = "free"
  /\ eeprom' = [eeprom EXCEPT ![w] = memory[w]]
  /\ Cuts("hello", {w})
  /\ unsure' = unsure \ {w}
  /\ helloPc' = "idle"
  /\ staged' = IF w \in Address THEN Whole(Blank) ELSE staged
  /\ UNCHANGED <<memory, battery2, booting, i2cLock, unlocked, mqtt, unchecked, mixed, others>>

\* The locked write.  After the first word of the address the next is stored.
MenuWrite(w) ==
  /\ helloPc = w /\ i2cLock = "free"
  /\ eeprom' = [eeprom EXCEPT ![w] = memory[w]]
  /\ Cuts("hello", {w})
  /\ unsure' = unsure \ {w}
  /\ helloPc' = IF w = "ip1" THEN "ip2" ELSE "idle"
  /\ IF w = "ip1" THEN memory' = [memory EXCEPT !["ip2"] = staged["ip2"]] ELSE UNCHANGED memory
  /\ IF w = "ip2"
     THEN staged' = Whole(Blank) /\ mixed' = IF mixed = "storing" THEN "no" ELSE mixed
     ELSE UNCHANGED <<staged, mixed>>
  /\ UNCHANGED <<battery2, booting, i2cLock, unlocked, mqtt, unchecked, others>>

\* The sensor and the clock are read with the lock; the clock is set without.
BusWait ==
  /\ Running /\ helloPc = "idle"
  /\ helloPc' = "read"
  /\ UNCHANGED <<stores, booting, i2cLock, staged, unlocked, mqtt, cut, doubts, mixed, others>>

BusRead ==
  /\ helloPc = "read" /\ i2cLock = "free"
  /\ helloPc' = "idle"
  /\ Cuts("hello", {})
  /\ UNCHANGED <<stores, booting, i2cLock, staged, unlocked, mqtt, doubts, mixed, others>>

SetTime ==
  /\ Running /\ helloPc = "idle"
  /\ Cuts("hello", {})
  /\ UNCHANGED <<stores, booting, i2cLock, hello, unlocked, mqtt, doubts, mixed, others>>

Hello ==
  \/ \E w \in Single \cap group, v \in Values : MenuStore(w, v)
  \/ OpenAddress \/ Display_Setting_Confirm
  \/ \E w \in Words : MenuWrite(w)
  \/ BusWait \/ BusRead \/ SetTime
-----------------------------------------------------------------------------
(***************************************************************************)
(* The unlocked stores: of the agent, and of the handler for the air       *)
(* conditioner.  The value is not checked.                                 *)
(***************************************************************************)
StoreUnchecked(w, v) ==
  /\ memory' = [memory EXCEPT ![w] = v]
  /\ unchecked' = IF v \in Values THEN unchecked \ {w} ELSE unchecked \cup {w}

UnlockedStore(a, w, v) ==
  /\ Runs(a) /\ unlocked[a] = None
  /\ a = "mqtt" => mqttPc = "idle" /\ w = "aircon"
  /\ StoreUnchecked(w, v)
  /\ unlocked' = [unlocked EXCEPT ![a] = [word |-> w, value |-> Blank]]
  /\ Cuts("none", {w})
  /\ UNCHANGED <<eeprom, battery2, booting, i2cLock, hello, mqtt, unsure, mixed, others>>

UnlockedBegin(a) ==
  /\ Runs(a)
  /\ unlocked[a] # None /\ unlocked[a].value = Blank
  /\ unlocked' = [unlocked EXCEPT ![a].value = memory[unlocked[a].word]]
  /\ cut' = [b \in Agents |-> b # a /\ (cut[b] \/ unlocked[b].value # Blank)]
  /\ UNCHANGED <<stores, booting, i2cLock, hello, mqtt, doubts, mixed, others>>

\* A transfer that was cut may have been lost.
UnlockedEnd(a) ==
  /\ Runs(a)
  /\ unlocked[a].value # Blank
  /\ LET w == unlocked[a].word
     IN  /\ \/ eeprom' = [eeprom EXCEPT ![w] = unlocked[a].value]
            \/ cut[a] /\ UNCHANGED eeprom
         /\ unsure' = IF cut[a] THEN unsure \cup {w} ELSE unsure \ {w}
  /\ unlocked' = [unlocked EXCEPT ![a] = None]
  /\ cut' = [cut EXCEPT ![a] = FALSE]
  /\ UNCHANGED <<memory, battery2, booting, i2cLock, hello, mqtt, unchecked, mixed, others>>

Unlocked(a) ==
  \/ \E w \in Single \cap group, v \in Values \cup {Wrong} : UnlockedStore(a, w, v)
  \/ UnlockedBegin(a) \/ UnlockedEnd(a)
-----------------------------------------------------------------------------
(***************************************************************************)
(* The locked commands of the handler: the battery's threshold, by the     *)
(* number of the battery, and the address.  Between taking the lock and    *)
(* suspending the scheduler the handler can be preempted.                  *)
(***************************************************************************)
MqttBattery(i, v) ==
  /\ MqttRuns /\ mqttPc = "idle" /\ unlocked["mqtt"] = None
  /\ IF i = 1 THEN StoreUnchecked("battery", v) /\ UNCHANGED battery2
     ELSE battery2' = v /\ UNCHANGED <<memory, unchecked>>
  /\ mqttPc' = IF i = 1 THEN "battery1" ELSE "battery2"
  /\ UNCHANGED <<eeprom, booting, i2cLock, hello, unlocked, mqttAddress, cut, unsure, mixed, others>>

MqttSetAddress(v) ==
  /\ MqttRuns /\ mqttPc = "idle" /\ unlocked["mqtt"] = None
  /\ mqttPc' = "address" /\ mqttAddress' = v
  /\ UNCHANGED <<stores, booting, i2cLock, hello, unlocked, cut, doubts, mixed, others>>

MqttLock ==
  /\ MqttRuns /\ mqttPc \in {"battery1", "battery2", "address"} /\ i2cLock = "free"
  /\ i2cLock' = "mqtt"
  /\ UNCHANGED <<stores, booting, hello, unlocked, mqtt, cut, doubts, mixed, others>>

\* What is written is the element after the one that was set: the second
\* threshold, or a temperature, which is in range by itself.
MqttWriteBattery ==
  /\ MqttRuns /\ i2cLock = "mqtt" /\ mqttPc \in {"battery1", "battery2"}
  /\ eeprom' \in IF mqttPc = "battery1" THEN {[eeprom EXCEPT !["battery"] = battery2]}
                 ELSE {[eeprom EXCEPT !["battery"] = v] : v \in Values \cup {Wrong}}
  /\ mqttPc' = "release"
  /\ unsure' = unsure \cup {"battery"}
  /\ UNCHANGED <<memory, battery2, booting, i2cLock, hello, unlocked, mqttAddress, cut, unchecked, mixed, others>>

\* All words are written, and read back into memory.
MqttWriteAddress ==
  /\ MqttRuns /\ i2cLock = "mqtt" /\ mqttPc = "address"
  /\ eeprom' = [w \in DOMAIN eeprom |-> IF w \in Address THEN mqttAddress ELSE eeprom[w]]
  /\ memory' = [w \in Words |-> IF w \in Address THEN mqttAddress ELSE memory[w]]
  /\ mqttPc' = "release" /\ mqttAddress' = Blank
  /\ mixed' = IF helloPc = "ip1" THEN mixed ELSE "no"
  /\ UNCHANGED <<battery2, booting, i2cLock, hello, unlocked, cut, doubts, others>>

\* Slip: the lock is not given back.
MqttReleaseKeeps ==
  /\ MqttRuns /\ mqttPc = "release"
  /\ mqttPc' = "idle"
  /\ UNCHANGED <<stores, booting, i2cLock, hello, unlocked, mqttAddress, cut, doubts, mixed, others>>

MqttRelease ==
  /\ MqttRuns /\ mqttPc = "release"
  /\ i2cLock' = "free" /\ mqttPc' = "idle"
  /\ UNCHANGED <<stores, booting, hello, unlocked, mqttAddress, cut, doubts, mixed, others>>

Mqtt ==
  \/ "battery" \in group /\ \E v \in Values \cup {Wrong} : MqttBattery(1, v) \/ MqttBattery(2, v)
  \/ Address \subseteq group /\ \E v \in Values : MqttSetAddress(v)
  \/ MqttLock \/ MqttWriteBattery \/ MqttWriteAddress \/ MqttRelease

Next ==
  /\ StartUp \/ PowerFails \/ Hello \/ (\E a \in Agents : Unlocked(a)) \/ Mqtt
  /\ UNCHANGED group

Spec == Init /\ [][Next]_vars
-----------------------------------------------------------------------------
(***************************************************************************)
(* Properties.                                                             *)
(***************************************************************************)
\* The types; before the start-up has ended nothing but it runs, and the lock
\* is held by the command under way.
TypeOK ==
  /\ eeprom \in [Words \cup {"flag", "names"} -> Stored]
  /\ memory \in [Words -> Stored] /\ battery2 \in Values \cup {Wrong}
  /\ boot \in {"flag", "write", "read", "run"} /\ at \in 1..Len(FirstWrites)
  /\ i2cLock \in {"free", "mqtt"}
  /\ helloPc \in Words \cup {"idle", "read"}
  /\ staged \in [Address -> Values \cup {Blank}]
  /\ unlocked \in [Agents -> [word : Single \cup {"none"}, value : Stored]]
  /\ mqttPc \in {"idle", "battery1", "battery2", "address", "release"}
  /\ mqttAddress \in Values \cup {Blank}
  /\ cut \in [Agents -> BOOLEAN] /\ unsure \subseteq Words /\ unchecked \subseteq Single
  /\ mixed \in {"yes", "no", "storing"} /\ ran \in BOOLEAN /\ lostNames \in BOOLEAN
  /\ boot # "run" => Idle
  /\ i2cLock = "mqtt" => mqttPc # "idle"

Storing(w) ==
  \/ helloPc = w
  \/ \E a \in Agents : unlocked[a].word = w
  \/ w = "battery" /\ mqttPc \in {"battery1", "battery2"}

\* A setting in force is the one that the EEPROM holds, as soon as nobody is
\* storing it; so the next start will have it if it is in range, and replaces it
\* by the default if it is not (ReadMemory).  The exceptions: an unlocked store that something came
\* between (private_mib_impl.c:835 and 984, mqtt_json_parse.c:183), and the
\* battery's threshold, of which mqtt_json_parse.c:133 writes another element
\* than the one it has set.
MemoryIsStored ==
  boot = "run" =>
    \A w \in Words : Storing(w) \/ w \in unsure \/ memory[w] = eeprom[w]

\* A setting in force is in range.  The exceptions: a value that is stored
\* without a check (private_mib_impl.c:834 and 983, mqtt_json_parse.c:130 and
\* 182) is in force, in range or not, until the next store or the next start.
MemoryInRange ==
  boot = "run" => \A w \in Words : memory[w] \in Values \/ w \in unchecked

\* The words of the address belong together, in memory and in the EEPROM,
\* although the menu stores them one by one and takes the lock anew for each.
\* The exceptions: the handler of a command has the lock, but has not written
\* yet, when the operator confirms; and a power failure between the words.
AddressWhole ==
  boot = "run" /\ helloPc \notin Address =>
    mixed = "yes" \/ (memory["ip1"] = memory["ip2"] /\ eeprom["ip1"] = eeprom["ip2"])

\* Whenever the tasks run, nothing that a new EEPROM holds is left, neither in
\* force nor in the EEPROM, however often the power failed before.  The one
\* exception: the names, if it failed on the first start after the flag was
\* written, which is before they are (menu.c:2663-2685).
KnownAfterStart ==
  boot = "run" =>
    /\ \A w \in Words : memory[w] # Blank /\ eeprom[w] # Blank
    /\ eeprom["names"] = Set \/ lostNames
    /\ eeprom["flag"] = Set

\* What the tasks work with is stored, in range, and has been read or set, but
\* for the exceptions of the three parts.
MemoryRight == MemoryIsStored /\ MemoryInRange /\ KnownAfterStart

\* Once a device has run, no start changes a word of its EEPROM that is in
\* range, however often the power fails while it starts.
SettingsSurvive ==
  [][ran /\ boot # "run" =>
       \A w \in Words : eeprom[w] \in Values => eeprom'[w] = eeprom[w]]_vars
=============================================================================
