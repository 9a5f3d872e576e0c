--------------------------- MODULE SettingsProofs ---------------------------
(***************************************************************************)
(* Proofs about Settings, for any values in range.                         *)
(*                                                                         *)
(* The properties compare memory with the EEPROM while the tasks run.      *)
(* They are inductive only with what the start-up has done at each of its  *)
(* steps (BootInv), with what is in the EEPROM before and after the flag   *)
(* (FlagInv), and with what an unlocked transfer carries while nothing     *)
(* has come in between (TransferInv).  The words of the address agree      *)
(* between two stores; AddressInv also says which of them the start-up or  *)
(* the menu has stored in the middle of one.                               *)
(***************************************************************************)
EXTENDS Settings, TLAPS

ReadUpTo == {Reads[i] : i \in 1..at - 1}

\* The words that the start-up has read agree and are in range.
BootInv ==
  /\ boot = "flag" => at = 1
  /\ boot = "read" => at \in 1..Len(Reads)
  /\ boot = "read" => \A w \in ReadUpTo : eeprom[w] \in Values /\ memory[w] = eeprom[w]
  /\ boot = "write" => ~ran

\* What is in the EEPROM once the flag says that it is initialised.
FlagInv ==
  /\ eeprom["flag"] \in {Set, Blank}
  /\ eeprom["names"] \in {Set, Blank}
  /\ eeprom["flag"] = Blank => boot \in {"flag", "write"} /\ ~ran
  /\ boot = "write" => (eeprom["flag"] = Set <=> at = Len(FirstWrites))
  /\ eeprom["flag"] = Set /\ eeprom["names"] = Blank =>
       lostNames \/ (boot = "write" /\ at = Len(FirstWrites))

\* While the tasks run no word is blank, and the address is in range.
RunInv ==
  boot = "run" =>
    /\ \A w \in Words : memory[w] # Blank /\ eeprom[w] # Blank
    /\ \A w \in Address : memory[w] \in Values
    /\ staged = Whole(Blank) \/ staged \in [Address -> Values]
    /\ helloPc \in Address => staged \in [Address -> Values]
    /\ mqttPc = "address" => mqttAddress \in Values

\* An unlocked transfer that nothing has come in between carries the memory.
TransferInv ==
  \A a \in Agents :
    /\ unlocked[a] # None => unlocked[a].word \in Single
    /\ unlocked[a].value # Blank /\ ~cut[a] =>
         unlocked[a].value = memory[unlocked[a].word]

Tasks == Hello \/ (\E a \in Agents : Unlocked(a)) \/ Mqtt

Inv == TypeOK /\ BootInv /\ FlagInv /\ RunInv /\ TransferInv /\ MemoryIsStored
-----------------------------------------------------------------------------
LEMMA Orders ==
  /\ Len(Reads) = 4 /\ Len(FirstWrites) = 6
  /\ Reads[1] = "battery" /\ Reads[2] = "ip1" /\ Reads[3] = "ip2" /\ Reads[4] = "aircon"
  /\ FirstWrites[1] = "battery" /\ FirstWrites[2] = "ip1" /\ FirstWrites[3] = "ip2"
  /\ FirstWrites[4] = "aircon" /\ FirstWrites[5] = "flag" /\ FirstWrites[6] = "names"
BY DEF Reads, FirstWrites

LEMMA Ranges ==
  /\ Words = {"battery", "aircon", "ip1", "ip2"}
  /\ Default \in Values /\ Blank \notin Values /\ Wrong \notin Values /\ Wrong # Blank
  /\ Set = Default
BY SettingsAssumption DEF Words, Single, Address, Set

\* The tasks run only after the start-up, and leave alone what is its own.
LEMMA TasksRun ==
  TypeOK /\ Tasks =>
    /\ boot = "run"
    /\ UNCHANGED <<boot, at, ran, lostNames>>
    /\ eeprom'["flag"] = eeprom["flag"] /\ eeprom'["names"] = eeprom["names"]
<1> SUFFICES ASSUME TypeOK, Tasks
    PROVE  /\ boot = "run" /\ UNCHANGED <<boot, at, ran, lostNames>>
           /\ eeprom'["flag"] = eeprom["flag"] /\ eeprom'["names"] = eeprom["names"]
  OBVIOUS
<1>1. eeprom = [w \in Words \cup {"flag", "names"} |-> eeprom[w]]
  BY DEF TypeOK
<1>2. boot # "run" => Idle
  BY DEF TypeOK
<1> USE DEF booting, others, doubts, stores, Running, AgentRuns, MqttRuns
<1>3. CASE Hello
  <2>1. ASSUME NEW w \in Words, MenuWrite(w)
        PROVE  /\ boot = "run" /\ UNCHANGED <<boot, at, ran, lostNames>>
               /\ eeprom'["flag"] = eeprom["flag"] /\ eeprom'["names"] = eeprom["names"]
    BY <2>1, <1>1, <1>2, Ranges DEF MenuWrite, Idle
  <2>2. CASE BusWait \/ BusRead \/ SetTime \/ OpenAddress \/ Display_Setting_Confirm
    BY <2>2, <1>2 DEF BusWait, BusRead, SetTime, OpenAddress, Display_Setting_Confirm, Idle
  <2>3. CASE \E w \in Single \cap group, v \in Values : MenuStore(w, v)
    BY <2>3 DEF MenuStore
  <2> QED BY <1>3, <2>1, <2>2, <2>3 DEF Hello
<1>4. ASSUME NEW a \in Agents, Unlocked(a)
      PROVE  /\ boot = "run" /\ UNCHANGED <<boot, at, ran, lostNames>>
             /\ eeprom'["flag"] = eeprom["flag"] /\ eeprom'["names"] = eeprom["names"]
  <2>1. Runs(a)
    BY <1>4 DEF Unlocked, UnlockedStore, UnlockedBegin, UnlockedEnd
  <2>2. boot = "run"
    BY <2>1 DEF Runs
  <2>3. CASE UnlockedEnd(a)
    <3>1. unlocked[a].word \in Single \cup {"none"}
      BY DEF TypeOK
    <3> QED BY <2>2, <2>3, <3>1, <1>1, Ranges DEF UnlockedEnd, Single
  <2>4. CASE ~UnlockedEnd(a)
    BY <1>4, <2>2, <2>4 DEF Unlocked, UnlockedStore, UnlockedBegin
  <2> QED BY <2>3, <2>4
<1>5. CASE Mqtt
  BY <1>5, <1>1, Ranges DEF Mqtt, MqttBattery, MqttSetAddress, MqttLock, MqttWriteBattery,
     MqttWriteAddress, MqttRelease, Address
<1> QED BY <1>3, <1>4, <1>5 DEF Tasks

\* Only words that are stored without a check are recorded as such.
LEMMA UncheckedWords ==
  TypeOK /\ (StartUp \/ PowerFails \/ Tasks) => unchecked' \subseteq Single
<1> SUFFICES ASSUME TypeOK, StartUp \/ PowerFails \/ Tasks PROVE unchecked' \subseteq Single
  OBVIOUS
<1> USE DEF doubts
<1>0. unchecked \subseteq Single
  BY DEF TypeOK
<1>1. CASE StartUp
  BY <1>0, <1>1 DEF StartUp, ReadFlag, WriteFirst, ReadAll
<1>2. CASE PowerFails
  BY <1>2 DEF PowerFails
<1>3. CASE Hello
  BY <1>0, <1>3 DEF Hello, MenuStore, OpenAddress, Display_Setting_Confirm, MenuWrite, BusWait,
     BusRead, SetTime
<1>4. ASSUME NEW a \in Agents, Unlocked(a) PROVE unchecked' \subseteq Single
  <2>1. ASSUME NEW w \in Single, NEW v \in Values \cup {Wrong}, UnlockedStore(a, w, v)
        PROVE  unchecked' \subseteq Single
    BY <1>0, <2>1 DEF UnlockedStore, StoreUnchecked
  <2>2. CASE UnlockedBegin(a) \/ UnlockedEnd(a)
    BY <1>0, <2>2 DEF UnlockedBegin, UnlockedEnd
  <2> QED BY <1>4, <2>1, <2>2 DEF Unlocked
<1>5. CASE Mqtt
  <2>1. ASSUME NEW i \in {1, 2}, NEW v \in Values \cup {Wrong}, MqttBattery(i, v)
        PROVE  unchecked' \subseteq Single
    BY <1>0, <2>1 DEF MqttBattery, StoreUnchecked, Single
  <2>2. ASSUME NEW v \in Values, MqttSetAddress(v) PROVE unchecked' \subseteq Single
    BY <1>0, <2>2 DEF MqttSetAddress
  <2>3. CASE MqttLock \/ MqttWriteBattery \/ MqttWriteAddress \/ MqttRelease
    BY <1>0, <2>3 DEF MqttLock, MqttWriteBattery, MqttWriteAddress, MqttRelease
  <2> QED BY <1>5, <2>1, <2>2, <2>3 DEF Mqtt
<1> QED BY <1>1, <1>2, <1>3, <1>4, <1>5 DEF Tasks
-----------------------------------------------------------------------------
(***************************************************************************)
(* The start-up and the power failure.                                     *)
(***************************************************************************)
LEMMA InitInv == Init => Inv
<1> SUFFICES ASSUME Init PROVE Inv
  OBVIOUS
<1> USE Ranges DEF Init, Idle, None, Whole
<1>1. TypeOK
  <2>1. eeprom \in [Words \cup {"flag", "names"} -> Stored] /\ memory \in [Words -> Stored]
    BY DEF Stored
  <2>2. staged \in [Address -> Values \cup {Blank}]
    OBVIOUS
  <2>3. /\ unlocked \in [Agents -> [word : Single \cup {"none"}, value : Stored]]
        /\ cut \in [Agents -> BOOLEAN]
    BY DEF Stored
  <2>4. /\ Idle /\ boot = "flag" /\ at = 1 /\ i2cLock = "free" /\ battery2 = Wrong
        /\ helloPc = "idle" /\ mqttPc = "idle" /\ mqttAddress = Blank
        /\ unsure = {} /\ unchecked = {} /\ mixed = "no"
    OBVIOUS
  <2>5. ran \in BOOLEAN /\ lostNames \in BOOLEAN
    BY Zenon
  <2> HIDE DEF Init, Idle, None, Whole
  <2> QED BY <2>1, <2>2, <2>3, <2>4, <2>5, Orders DEF TypeOK
<1>2. BootInv /\ FlagInv /\ RunInv /\ TransferInv /\ MemoryIsStored
  BY Orders DEF BootInv, FlagInv, RunInv, TransferInv, MemoryIsStored, Agents
<1> QED BY <1>1, <1>2 DEF Inv

LEMMA PowerStep == Inv /\ PowerFails => Inv'
<1> SUFFICES ASSUME Inv, PowerFails PROVE Inv'
  OBVIOUS
<1> USE Ranges DEF Inv, PowerFails, Idle, None, Whole
<1>1. TypeOK'
  <2>1. memory' \in [Words -> Stored]
    BY DEF Stored
  <2>2. /\ eeprom' \in [Words \cup {"flag", "names"} -> Stored] /\ unsure' \subseteq Words
        /\ ran' \in BOOLEAN /\ lostNames' \in BOOLEAN /\ mixed' \in {"yes", "no", "storing"}
    BY DEF TypeOK
  <2>3. unlocked' \in [Agents -> [word : Single \cup {"none"}, value : Stored]]
    BY DEF Stored
  <2>4. Idle'
    OBVIOUS
  <2>5. unchecked' \subseteq Single
    OBVIOUS
  <2> QED BY <2>1, <2>2, <2>3, <2>4, <2>5, Orders DEF TypeOK
<1>2. BootInv'
  BY DEF BootInv
<1>3. FlagInv'
  BY DEF FlagInv
<1>4. RunInv' /\ TransferInv' /\ MemoryIsStored'
  BY DEF RunInv, TransferInv, MemoryIsStored, Agents
<1> QED BY <1>1, <1>2, <1>3, <1>4

LEMMA StartStep == Inv /\ StartUp => Inv'
<1> SUFFICES ASSUME Inv, StartUp PROVE Inv'
  OBVIOUS
<1> USE Ranges DEF Inv, stores, hello, mqtt, others, booting, doubts
<1>1. boot # "run" /\ Idle
  BY DEF StartUp, ReadFlag, WriteFirst, ReadAll, TypeOK
<1>u. unchecked' \subseteq Single
  BY UncheckedWords
<1>2. Idle'
  BY <1>1 DEF StartUp, ReadFlag, WriteFirst, ReadAll, Idle
<1>3. TransferInv'
  BY <1>2 DEF Idle, TransferInv, None, Agents
<1>4. CASE ReadFlag
  <2>1. TypeOK'
    BY <1>u, <1>2, <1>4 DEF ReadFlag, TypeOK
  <2>2. BootInv' /\ FlagInv'
    BY <1>4, Orders DEF ReadFlag, BootInv, FlagInv, ReadUpTo
  <2>3. RunInv' /\ MemoryIsStored'
    BY <1>4 DEF ReadFlag, RunInv, MemoryIsStored
  <2> QED BY <1>3, <2>1, <2>2, <2>3
<1>5. CASE WriteFirst
  <2>1. /\ at \in 1..6 /\ FirstWrites[at] \in Words \cup {"flag", "names"}
        /\ (FirstWrites[at] = "flag") <=> (at = 5)
        /\ (FirstWrites[at] = "names") <=> (at = 6)
    BY Orders DEF TypeOK
  <2>2. Default \in Stored
    BY DEF Stored
  <2>3. eeprom' \in [Words \cup {"flag", "names"} -> Stored] /\ memory' \in [Words -> Stored]
    BY <1>5, <2>1, <2>2 DEF WriteFirst, TypeOK
  <2>4. /\ at < 6 => boot' = "write" /\ at' = at + 1
        /\ at = 6 => boot' = "read" /\ at' = 1
    BY <1>5, <2>1, Orders DEF WriteFirst
  <2>5. TypeOK'
    BY <1>u, <1>2, <1>5, <2>1, <2>3, <2>4, Orders DEF WriteFirst, TypeOK
  <2>6. BootInv'
    BY <1>5, <2>1, <2>4, Orders DEF WriteFirst, BootInv, ReadUpTo
  <2>7. FlagInv'
    <3>1. /\ eeprom'["flag"] = IF at = 5 THEN Set ELSE eeprom["flag"]
          /\ eeprom'["names"] = IF at = 6 THEN Set ELSE eeprom["names"]
      BY <1>5, <2>1 DEF WriteFirst, TypeOK
    <3> QED BY <1>5, <2>1, <2>4, <3>1, Orders DEF WriteFirst, FlagInv, BootInv
  <2>8. RunInv' /\ MemoryIsStored'
    BY <2>1, <2>4 DEF RunInv, MemoryIsStored
  <2> QED BY <1>3, <2>5, <2>6, <2>7, <2>8
<1>6. CASE ReadAll
  <2> DEFINE w == Reads[at]
  <2>1. at \in 1..4 /\ w \in Words
    BY <1>6, Orders DEF ReadAll, BootInv
  <2>2. PICK v \in Values : /\ memory' = [memory EXCEPT ![w] = v]
                            /\ eeprom' = [eeprom EXCEPT ![w] = v]
    BY <1>6 DEF ReadAll, ReadMemory
  <2>3. v \in Stored
    BY DEF Stored
  <2>4. eeprom' \in [Words \cup {"flag", "names"} -> Stored] /\ memory' \in [Words -> Stored]
    BY <2>1, <2>2, <2>3 DEF TypeOK
  <2>5. /\ at < 4 => boot' = "read" /\ at' = at + 1 /\ unsure' = unsure
        /\ at = 4 => boot' = "run" /\ at' = 1 /\ unsure' = {}
    BY <1>6, <2>1, Orders DEF ReadAll
  <2>6. TypeOK'
    <3>1. at = 4 \/ at < 4
      BY <2>1
    <3>2. boot' \in {"read", "run"} /\ at' \in 1..6
      BY <2>1, <2>5, <3>1
    <3>3. unsure \subseteq Words
      BY DEF TypeOK
    <3>4. unsure' \subseteq Words
      BY <2>5, <3>1, <3>3
    <3>5. ran' \in BOOLEAN
      BY <1>6, Zenon DEF ReadAll, TypeOK
    <3>6. UNCHANGED <<battery2, i2cLock, hello, unlocked, mqtt, cut, mixed, lostNames>>
      BY <1>6 DEF ReadAll
    <3> QED BY <1>u, <1>2, <2>4, <3>2, <3>4, <3>5, <3>6, Orders DEF TypeOK
  <2>7. \A u \in {Reads[i] : i \in 1..at} : eeprom'[u] \in Values /\ memory'[u] = eeprom'[u]
    <3> SUFFICES ASSUME NEW i \in 1..at
                 PROVE  eeprom'[Reads[i]] \in Values /\ memory'[Reads[i]] = eeprom'[Reads[i]]
      OBVIOUS
    <3>1. Reads[i] \in Words
      BY <2>1, Orders
    <3>2. CASE Reads[i] = w
      BY <2>1, <2>2, <3>2 DEF TypeOK
    <3>3. CASE Reads[i] # w
      <4>1. i \in 1..at - 1
        BY <2>1, <3>3
      <4>2. eeprom[Reads[i]] \in Values /\ memory[Reads[i]] = eeprom[Reads[i]]
        BY <1>6, <4>1 DEF ReadAll, BootInv, ReadUpTo
      <4> QED BY <2>1, <2>2, <3>1, <3>3, <4>2 DEF TypeOK
    <3> QED BY <3>2, <3>3
  <2>8. BootInv'
    BY <2>1, <2>5, <2>7, Orders DEF BootInv, ReadUpTo
  <2>9. FlagInv'
    <3>1. eeprom'["flag"] = eeprom["flag"] /\ eeprom'["names"] = eeprom["names"]
      BY <2>1, <2>2 DEF TypeOK
    <3>2. boot = "read" /\ boot' \in {"read", "run"} /\ lostNames' = lostNames
      BY <1>6, <2>1, <2>5 DEF ReadAll
    <3> QED BY <3>1, <3>2 DEF FlagInv
  <2>10. at = 4 => \A u \in Words : eeprom'[u] \in Values /\ memory'[u] = eeprom'[u]
    BY <2>7, Orders
  <2>11. RunInv' /\ MemoryIsStored'
    BY <1>2, <2>1, <2>5, <2>10 DEF RunInv, MemoryIsStored, Idle, Address
  <2> QED BY <1>3, <2>6, <2>8, <2>9, <2>11
<1> QED BY <1>4, <1>5, <1>6 DEF StartUp
-----------------------------------------------------------------------------
(***************************************************************************)
(* The tasks: hello_task.                                                  *)
(***************************************************************************)
\* What no task changes, and what only the start-up and the power failure do.
LEMMA TasksKeep == Inv /\ Tasks => BootInv' /\ FlagInv' /\ (boot' = "run")
<1> SUFFICES ASSUME Inv, Tasks PROVE BootInv' /\ FlagInv' /\ (boot' = "run")
  OBVIOUS
<1>1. /\ boot = "run" /\ UNCHANGED <<boot, at, ran, lostNames>>
      /\ eeprom'["flag"] = eeprom["flag"] /\ eeprom'["names"] = eeprom["names"]
  BY TasksRun DEF Inv
<1> QED BY <1>1 DEF Inv, BootInv, FlagInv

LEMMA CutType ==
  ASSUME NEW t, NEW ws, TypeOK, Cuts(t, ws)
  PROVE  /\ cut' \in [Agents -> BOOLEAN]
         /\ \A a \in Agents : ~cut'[a] =>
              /\ ~cut[a]
              /\ a # t /\ unlocked[a].value # Blank => t = "none" /\ unlocked[a].word \notin ws
BY Zenon DEF Cuts

LEMMA HelloStep == Inv /\ Hello => Inv'
<1> SUFFICES ASSUME Inv, Hello PROVE Inv'
  OBVIOUS
<1> USE Ranges DEF Inv, stores, mqtt, others, booting, doubts
<1>0. BootInv' /\ FlagInv' /\ boot = "run" /\ boot' = "run"
  BY TasksKeep, TasksRun DEF Tasks
<1>a. at' = at /\ ran' = ran /\ lostNames' = lostNames /\ unchecked' \subseteq Single
  BY TasksRun, UncheckedWords DEF Tasks
<1>1. ASSUME NEW w \in Single \cap group, NEW v \in Values, MenuStore(w, v) PROVE Inv'
  <2>1. w \in Words /\ v \in Stored /\ v # Blank /\ w \notin Address
    BY DEF Stored, Single, Address
  <2>2. /\ helloPc = "idle" /\ memory' = [memory EXCEPT ![w] = v] /\ helloPc' = w
        /\ UNCHANGED <<eeprom, battery2, i2cLock, staged, unlocked, mqttPc, mqttAddress, unsure, mixed>>
    BY <1>1 DEF MenuStore
  <2>3. /\ cut' \in [Agents -> BOOLEAN]
        /\ \A a \in Agents : ~cut'[a] =>
             ~cut[a] /\ (unlocked[a].value # Blank => unlocked[a].word # w)
    BY <1>1, CutType DEF MenuStore, Agents
  <2>4. TypeOK'
    BY <1>0, <1>a, <2>1, <2>2, <2>3 DEF TypeOK
  <2>5. RunInv'
    BY <1>0, <2>1, <2>2 DEF RunInv, TypeOK
  <2>6. TransferInv'
    BY <2>1, <2>2, <2>3 DEF TransferInv, TypeOK, Single
  <2>7. MemoryIsStored'
    BY <1>0, <2>1, <2>2 DEF MemoryIsStored, Storing, TypeOK
  <2> QED BY <1>0, <2>4, <2>5, <2>6, <2>7
<1>2. CASE OpenAddress
  <2>1. /\ staged' \in [Address -> Values]
        /\ UNCHANGED <<eeprom, memory, battery2, i2cLock, helloPc, unlocked, mqttPc, mqttAddress, cut, unsure, mixed>>
    BY <1>0, <1>2 DEF OpenAddress, Whole, RunInv
  <2>2. TypeOK'
    BY <1>0, <1>a, <2>1 DEF TypeOK
  <2>3. RunInv' /\ TransferInv'
    BY <1>0, <2>1 DEF RunInv, TransferInv
  <2>4. MemoryIsStored'
    BY <1>0, <2>1 DEF MemoryIsStored, Storing
  <2> QED BY <1>0, <2>2, <2>3, <2>4
<1>3. CASE Display_Setting_Confirm
  <2>1. /\ helloPc = "idle" /\ staged \in [Address -> Values]
        /\ memory' = [memory EXCEPT !["ip1"] = staged["ip1"]] /\ helloPc' = "ip1"
        /\ UNCHANGED <<eeprom, battery2, i2cLock, staged, unlocked, mqttPc, mqttAddress, cut, unsure>>
    BY <1>0, <1>3 DEF Display_Setting_Confirm, RunInv
  <2>2. staged["ip1"] \in Values /\ staged["ip1"] \in Stored
    BY <2>1 DEF Stored, Address
  <2>3. mixed' \in {"yes", "no", "storing"}
    BY <1>3 DEF Display_Setting_Confirm, TypeOK
  <2>4. TypeOK'
    BY <1>0, <1>a, <2>1, <2>2, <2>3 DEF TypeOK
  <2>5. RunInv'
    BY <1>0, <2>1, <2>2 DEF RunInv, TypeOK
  <2>6. TransferInv'
    BY <2>1 DEF TransferInv, TypeOK, Single, None
  <2>7. MemoryIsStored'
    BY <1>0, <2>1 DEF MemoryIsStored, Storing, TypeOK
  <2> QED BY <1>0, <2>4, <2>5, <2>6, <2>7
<1>4. ASSUME NEW w \in Words, MenuWrite(w) PROVE Inv'
  <2>1. /\ helloPc = w /\ eeprom' = [eeprom EXCEPT ![w] = memory[w]]
        /\ unsure' = unsure \ {w} /\ helloPc' = IF w = "ip1" THEN "ip2" ELSE "idle"
        /\ memory' = IF w = "ip1" THEN [memory EXCEPT !["ip2"] = staged["ip2"]] ELSE memory
        /\ staged' = IF w = "ip2" THEN Whole(Blank) ELSE staged
        /\ UNCHANGED <<battery2, i2cLock, unlocked, mqttPc, mqttAddress>>
    BY <1>4 DEF MenuWrite
  <2>2. /\ cut' \in [Agents -> BOOLEAN]
        /\ \A a \in Agents : ~cut'[a] => ~cut[a] /\ unlocked[a].value = Blank
    BY <1>4, CutType DEF MenuWrite, Agents
  <2>3. mixed' \in {"yes", "no", "storing"}
    BY <1>4 DEF MenuWrite, TypeOK
  <2>4. w = "ip1" => staged \in [Address -> Values] /\ staged["ip2"] \in Values
    BY <1>0, <2>1 DEF RunInv, Address
  <2>5. memory' \in [Words -> Stored]
    BY <2>1, <2>4 DEF TypeOK, Stored
  <2>6. eeprom' \in [Words \cup {"flag", "names"} -> Stored]
    BY <2>1 DEF TypeOK
  <2>7. staged' \in [Address -> Values \cup {Blank}]
    BY <2>1 DEF TypeOK, Whole
  <2>8. TypeOK'
    BY <1>0, <1>a, <2>1, <2>2, <2>3, <2>5, <2>6, <2>7 DEF TypeOK
  <2>9. RunInv'
    BY <1>0, <2>1, <2>4 DEF RunInv, TypeOK, Address
  <2>10. TransferInv'
    BY <2>1, <2>2 DEF TransferInv
  <2>11. MemoryIsStored'
    BY <1>0, <2>1 DEF MemoryIsStored, Storing, TypeOK
  <2> QED BY <1>0, <2>8, <2>9, <2>10, <2>11
<1>5. CASE BusWait \/ BusRead \/ SetTime
  <2>1. /\ helloPc \in {"idle", "read"} /\ helloPc' \in {"idle", "read"}
        /\ UNCHANGED <<eeprom, memory, battery2, i2cLock, staged, unlocked, mqttPc, mqttAddress, unsure, mixed>>
    BY <1>5 DEF BusWait, BusRead, SetTime, hello
  <2>2. /\ cut' \in [Agents -> BOOLEAN]
        /\ \A a \in Agents : ~cut'[a] => ~cut[a]
    BY <1>5, CutType DEF BusWait, BusRead, SetTime, TypeOK
  <2>3. TypeOK'
    BY <1>0, <1>a, <2>1, <2>2 DEF TypeOK
  <2>4. RunInv' /\ TransferInv'
    BY <1>0, <2>1, <2>2 DEF RunInv, TransferInv, Address
  <2>5. MemoryIsStored'
    BY <1>0, <2>1 DEF MemoryIsStored, Storing
  <2> QED BY <1>0, <2>3, <2>4, <2>5
<1> QED BY <1>1, <1>2, <1>3, <1>4, <1>5 DEF Hello
-----------------------------------------------------------------------------
(***************************************************************************)
(* The tasks: the unlocked stores and the handler's locked commands.       *)
(***************************************************************************)
LEMMA UnlockedStep == ASSUME NEW a \in Agents PROVE Inv /\ Unlocked(a) => Inv'
<1> SUFFICES ASSUME Inv, Unlocked(a) PROVE Inv'
  OBVIOUS
<1> USE Ranges DEF Inv, stores, mqtt, hello, others, booting, doubts
<1>0. BootInv' /\ FlagInv' /\ boot = "run" /\ boot' = "run"
  BY TasksKeep, TasksRun DEF Tasks
<1>a. at' = at /\ ran' = ran /\ lostNames' = lostNames /\ unchecked' \subseteq Single
  BY TasksRun, UncheckedWords DEF Tasks
<1>1. ASSUME NEW w \in Single, NEW v \in Values \cup {Wrong}, UnlockedStore(a, w, v) PROVE Inv'
  <2>1. w \in Words /\ v \in Stored /\ v # Blank /\ w \notin Address
    BY DEF Stored, Single, Address
  <2>2. /\ unlocked[a] = None /\ memory' = [memory EXCEPT ![w] = v]
        /\ unlocked' = [unlocked EXCEPT ![a] = [word |-> w, value |-> Blank]]
        /\ UNCHANGED <<eeprom, battery2, i2cLock, helloPc, staged, mqttPc, mqttAddress, unsure, mixed>>
    BY <1>1 DEF UnlockedStore, StoreUnchecked
  <2>3. /\ cut' \in [Agents -> BOOLEAN]
        /\ \A b \in Agents : ~cut'[b] =>
             ~cut[b] /\ (unlocked[b].value # Blank => unlocked[b].word # w)
    BY <1>1, CutType DEF UnlockedStore, Agents
  <2>4. Blank \in Stored
    BY DEF Stored
  <2>5. unlocked' \in [Agents -> [word : Single \cup {"none"}, value : Stored]]
    BY <2>2, <2>4 DEF TypeOK
  <2>6. TypeOK'
    BY <1>0, <1>a, <2>1, <2>2, <2>3, <2>5 DEF TypeOK
  <2>7. RunInv'
    BY <1>0, <2>1, <2>2 DEF RunInv, TypeOK
  <2>8. TransferInv'
    BY <2>1, <2>2, <2>3 DEF TransferInv, TypeOK, Single, None
  <2>9. MemoryIsStored'
    <3>1. unlocked[a].word = "none" /\ "none" \notin Words
      BY <2>2 DEF None
    <3>2. \A u \in Words : Storing(u) => Storing(u)'
      BY <2>2, <3>1 DEF Storing, TypeOK
    <3>3. Storing(w)'
      BY <2>2 DEF Storing, TypeOK
    <3> QED BY <1>0, <2>1, <2>2, <3>2, <3>3 DEF MemoryIsStored, TypeOK
  <2> QED BY <1>0, <2>6, <2>7, <2>8, <2>9
<1>2. CASE UnlockedBegin(a)
  <2>1. /\ unlocked[a] # None /\ unlocked[a].word \in Single
        /\ unlocked' = [unlocked EXCEPT ![a].value = memory[unlocked[a].word]]
        /\ UNCHANGED <<eeprom, memory, battery2, i2cLock, helloPc, staged, mqttPc, mqttAddress, unsure, mixed>>
    BY <1>2 DEF UnlockedBegin, TransferInv
  <2>2. /\ cut' \in [Agents -> BOOLEAN]
        /\ \A b \in Agents : b # a /\ ~cut'[b] => ~cut[b]
    BY <1>2, Zenon DEF UnlockedBegin
  <2>3. memory[unlocked[a].word] \in Stored
    BY <2>1 DEF TypeOK, Single
  <2>4. unlocked' \in [Agents -> [word : Single \cup {"none"}, value : Stored]]
    BY <2>1, <2>3 DEF TypeOK
  <2>5. \A b \in Agents : /\ unlocked'[b].word = unlocked[b].word
                          /\ b # a => unlocked'[b] = unlocked[b]
    BY <2>1 DEF TypeOK
  <2>6. unlocked'[a].value = memory[unlocked[a].word]
    BY <2>1 DEF TypeOK
  <2>7. TypeOK'
    BY <1>0, <1>a, <2>1, <2>2, <2>4 DEF TypeOK
  <2>8. RunInv'
    BY <1>0, <2>1 DEF RunInv
  <2>9. TransferInv'
    BY <2>1, <2>2, <2>5, <2>6 DEF TransferInv
  <2>10. MemoryIsStored'
    BY <1>0, <2>1, <2>5 DEF MemoryIsStored, Storing
  <2> QED BY <1>0, <2>7, <2>8, <2>9, <2>10
<1>3. CASE UnlockedEnd(a)
  <2> DEFINE w == unlocked[a].word
  <2>1. unlocked[a].value # Blank /\ w \in Single
    BY <1>3 DEF UnlockedEnd, TransferInv, None
  <2>2. w \in Words /\ w \notin Address
    BY <2>1 DEF Single, Address
  <2>3. /\ unlocked' = [unlocked EXCEPT ![a] = None] /\ cut' = [cut EXCEPT ![a] = FALSE]
        /\ UNCHANGED <<memory, battery2, i2cLock, helloPc, staged, mqttPc, mqttAddress, mixed>>
    BY <1>3 DEF UnlockedEnd
  <2>4. /\ \/ eeprom' = [eeprom EXCEPT ![w] = unlocked[a].value]
           \/ cut[a] /\ eeprom' = eeprom
        /\ unsure' = IF cut[a] THEN unsure \cup {w} ELSE unsure \ {w}
    BY <1>3 DEF UnlockedEnd
  <2>5. unlocked[a].value \in Stored /\ None \in [word : Single \cup {"none"}, value : Stored]
    BY DEF TypeOK, None, Stored
  <2>6. /\ eeprom' \in [Words \cup {"flag", "names"} -> Stored] /\ unsure' \subseteq Words
        /\ unlocked' \in [Agents -> [word : Single \cup {"none"}, value : Stored]]
        /\ cut' \in [Agents -> BOOLEAN]
    BY <2>2, <2>3, <2>4, <2>5 DEF TypeOK
  <2>7. TypeOK'
    BY <1>0, <1>a, <2>3, <2>6 DEF TypeOK
  <2>8. RunInv'
    BY <1>0, <2>1, <2>2, <2>3, <2>4 DEF RunInv, TypeOK
  <2>9. TransferInv'
    BY <2>3 DEF TransferInv, TypeOK, None
  <2>10. MemoryIsStored'
    <3> SUFFICES ASSUME NEW u \in Words, ~Storing(u)', u \notin unsure'
                 PROVE  memory'[u] = eeprom'[u]
      BY DEF MemoryIsStored
    <3>1. CASE u = w
      <4>1. ~cut[a] /\ memory[w] = unlocked[a].value
        BY <2>1, <2>4, <3>1 DEF TransferInv
      <4> QED BY <2>2, <2>3, <2>4, <3>1, <4>1 DEF TypeOK
    <3>2. CASE u # w
      <4>1. ~Storing(u) /\ u \notin unsure
        BY <2>3, <2>4, <3>2 DEF Storing, TypeOK
      <4>2. eeprom'[u] = eeprom[u]
        BY <2>2, <2>4, <3>2 DEF TypeOK
      <4> QED BY <1>0, <2>3, <4>1, <4>2 DEF MemoryIsStored
    <3> QED BY <3>1, <3>2
  <2> QED BY <1>0, <2>7, <2>8, <2>9, <2>10
<1> QED BY <1>1, <1>2, <1>3 DEF Unlocked

LEMMA MqttStep == Inv /\ Mqtt => Inv'
<1> SUFFICES ASSUME Inv, Mqtt PROVE Inv'
  OBVIOUS
<1> USE Ranges DEF Inv, stores, hello, others, booting, doubts
<1>0. BootInv' /\ FlagInv' /\ boot = "run" /\ boot' = "run"
  BY TasksKeep, TasksRun DEF Tasks
<1>a. at' = at /\ ran' = ran /\ lostNames' = lostNames /\ unchecked' \subseteq Single
  BY TasksRun, UncheckedWords DEF Tasks
<1>b. UNCHANGED <<helloPc, staged, unlocked, cut>>
  BY DEF Mqtt, MqttBattery, MqttSetAddress, MqttLock, MqttWriteBattery, MqttWriteAddress, MqttRelease
<1>1. ASSUME NEW i \in {1, 2}, NEW v \in Values \cup {Wrong}, MqttBattery(i, v) PROVE Inv'
  <2>1. /\ unlocked["mqtt"] = None /\ unlocked["agent"] = None
        /\ mqttPc' \in {"battery1", "battery2"}
        /\ battery2' \in Values \cup {Wrong}
        /\ memory' = [memory EXCEPT !["battery"] = v] \/ memory' = memory
        /\ UNCHANGED <<eeprom, i2cLock, mqttAddress, unsure, mixed>>
    BY <1>1 DEF MqttBattery, StoreUnchecked, MqttRuns, TypeOK
  <2>2. v \in Stored /\ v # Blank /\ "battery" \notin Address
    BY DEF Stored, Address
  <2>3. memory' \in [Words -> Stored]
    BY <2>1, <2>2 DEF TypeOK
  <2>4. TypeOK'
    BY <1>0, <1>a, <1>b, <2>1, <2>3 DEF TypeOK
  <2>5. RunInv'
    <3>1. /\ \A u \in Words : memory'[u] # Blank /\ eeprom'[u] # Blank
          /\ \A u \in Address : memory'[u] \in Values
      BY <1>0, <2>1, <2>2 DEF RunInv, TypeOK, Address
    <3> QED BY <1>0, <1>b, <2>1, <3>1 DEF RunInv
  <2>6. TransferInv'
    BY <1>b, <2>1 DEF TransferInv, Agents, None
  <2>7. MemoryIsStored'
    BY <1>0, <1>b, <1>1, <2>1 DEF MqttBattery, StoreUnchecked, MemoryIsStored, Storing, TypeOK
  <2> QED BY <1>0, <2>4, <2>5, <2>6, <2>7
<1>2. ASSUME NEW v \in Values, MqttSetAddress(v) PROVE Inv'
  <2>1. /\ mqttPc = "idle" /\ mqttPc' = "address" /\ mqttAddress' = v
        /\ UNCHANGED <<eeprom, memory, battery2, i2cLock, unsure, mixed>>
    BY <1>2 DEF MqttSetAddress
  <2>2. TypeOK'
    BY <1>0, <1>a, <1>b, <2>1 DEF TypeOK
  <2>3. RunInv' /\ TransferInv' /\ MemoryIsStored'
    BY <1>0, <1>b, <2>1 DEF RunInv, TransferInv, MemoryIsStored, Storing
  <2> QED BY <1>0, <2>2, <2>3
<1>3. CASE MqttLock \/ MqttRelease
  <2>1. /\ mqttPc' = mqttPc \/ (mqttPc = "release" /\ mqttPc' = "idle")
        /\ i2cLock' \in {"free", "mqtt"} /\ (i2cLock' = "mqtt" => mqttPc' # "idle")
        /\ UNCHANGED <<eeprom, memory, battery2, mqttAddress, unsure, mixed>>
    BY <1>3 DEF MqttLock, MqttRelease, mqtt
  <2>2. TypeOK'
    BY <1>0, <1>a, <1>b, <2>1 DEF TypeOK
  <2>3. RunInv' /\ TransferInv' /\ MemoryIsStored'
    BY <1>0, <1>b, <2>1 DEF RunInv, TransferInv, MemoryIsStored, Storing
  <2> QED BY <1>0, <2>2, <2>3
<1>4. CASE MqttWriteBattery
  <2>1. PICK v \in Values \cup {Wrong} : eeprom' = [eeprom EXCEPT !["battery"] = v]
    BY <1>4 DEF MqttWriteBattery, TypeOK
  <2>2. /\ mqttPc' = "release" /\ unsure' = unsure \cup {"battery"}
        /\ UNCHANGED <<memory, battery2, i2cLock, mqttAddress, mixed>>
    BY <1>4 DEF MqttWriteBattery
  <2>3. v \in Stored /\ v # Blank
    BY DEF Stored
  <2>4. TypeOK'
    BY <1>0, <1>a, <1>b, <2>1, <2>2, <2>3 DEF TypeOK
  <2>5. RunInv' /\ TransferInv'
    BY <1>0, <1>b, <2>1, <2>2, <2>3 DEF RunInv, TransferInv, TypeOK
  <2>6. MemoryIsStored'
    BY <1>0, <1>b, <2>1, <2>2 DEF MemoryIsStored, Storing, TypeOK
  <2> QED BY <1>0, <2>4, <2>5, <2>6
<1>5. CASE MqttWriteAddress
  <2>1. /\ mqttPc = "address" /\ mqttPc' = "release" /\ mqttAddress' = Blank
        /\ mqttAddress \in Values
        /\ \A u \in Words : /\ eeprom'[u] = IF u \in Address THEN mqttAddress ELSE eeprom[u]
                            /\ memory'[u] = IF u \in Address THEN mqttAddress ELSE memory[u]
        /\ UNCHANGED <<battery2, i2cLock, unsure>>
    BY <1>0, <1>5 DEF MqttWriteAddress, TypeOK, RunInv
  <2>2. eeprom' \in [Words \cup {"flag", "names"} -> Stored] /\ memory' \in [Words -> Stored]
    BY <1>5, <2>1 DEF MqttWriteAddress, TypeOK, Stored
  <2>3. mixed' \in {"yes", "no", "storing"}
    BY <1>5 DEF MqttWriteAddress, TypeOK
  <2>4. TypeOK'
    BY <1>0, <1>a, <1>b, <2>1, <2>2, <2>3 DEF TypeOK
  <2>5. RunInv'
    <3>1. /\ \A u \in Words : memory'[u] # Blank /\ eeprom'[u] # Blank
          /\ \A u \in Address : memory'[u] \in Values
      BY <1>0, <2>1 DEF RunInv, Address
    <3> QED BY <1>0, <1>b, <2>1, <3>1 DEF RunInv
  <2>6. TransferInv'
    <3>1. \A u \in Single : memory'[u] = memory[u]
      BY <2>1 DEF Single, Address
    <3> QED BY <1>b, <3>1 DEF TransferInv, None
  <2>7. MemoryIsStored'
    BY <1>0, <1>b, <2>1 DEF MemoryIsStored, Storing, Address
  <2> QED BY <1>0, <2>4, <2>5, <2>6, <2>7
<1> QED BY <1>1, <1>2, <1>3, <1>4, <1>5 DEF Mqtt

LEMMA Invariance == Spec => []Inv
<1>1. Inv /\ [Next]_vars => Inv'
  <2> SUFFICES ASSUME Inv, [Next]_vars PROVE Inv'
    OBVIOUS
  <2>1. CASE UNCHANGED vars
    BY <2>1 DEF vars, stores, booting, hello, mqtt, others, doubts, Inv, TypeOK, BootInv, FlagInv, RunInv,
       TransferInv, MemoryIsStored, Storing, ReadUpTo, Idle
  <2> QED BY <2>1, StartStep, PowerStep, HelloStep, UnlockedStep, MqttStep DEF Next
<1> QED BY InitInv, <1>1, PTL DEF Spec

-----------------------------------------------------------------------------
(***************************************************************************)
(* The address: its words are stored one by one.                           *)
(***************************************************************************)
Agree(f) == f["ip1"] = f["ip2"]

\* Between two stores the words agree.  In the middle of the menu's store the
\* rest of it is still in staged, and the handler cannot have the lock.
AddressInv ==
  /\ eeprom["flag"] = Set => \A w \in Address : eeprom[w] \in Values
  /\ boot = "write" /\ at > 2 => eeprom["ip1"] = Default
  /\ boot = "write" /\ at > 3 => eeprom["ip2"] = Default
  /\ eeprom["flag"] = Set /\ mixed = "no" /\ helloPc # "ip2" => Agree(eeprom)
  /\ mixed = "storing" => helloPc \in Address
  /\ boot = "run" /\ mixed = "no" /\ helloPc \notin Address => Agree(memory)
  /\ helloPc = "ip1" /\ mixed # "yes" =>
       Agree(staged) /\ memory["ip1"] = staged["ip1"] /\ ~(i2cLock = "mqtt" /\ mqttPc = "address")
  /\ helloPc = "ip2" => i2cLock = "free"
  /\ helloPc = "ip2" /\ mixed # "yes" =>
       Agree(staged) /\ Agree(memory) /\ eeprom["ip1"] = memory["ip1"]

LEMMA AddressInit == Init => AddressInv
BY Ranges DEF Init, Idle, AddressInv, Agree, Whole, Address

LEMMA AddressPower == Inv /\ AddressInv /\ PowerFails => AddressInv'
<1> SUFFICES ASSUME Inv, AddressInv, PowerFails PROVE AddressInv'
  OBVIOUS
<1>1. /\ helloPc' = "idle" /\ boot' = "flag" /\ eeprom' = eeprom /\ mixed' \in {"yes", "no"}
      /\ mixed' = "no" => mixed = "no" /\ helloPc # "ip2"
  BY DEF PowerFails
<1> QED BY <1>1 DEF AddressInv, Address

LEMMA AddressStart == Inv /\ AddressInv /\ StartUp => AddressInv'
<1> SUFFICES ASSUME Inv, AddressInv, StartUp PROVE AddressInv'
  OBVIOUS
<1> USE Ranges DEF Inv
<1>1. boot # "run" /\ Idle /\ mixed' = mixed /\ helloPc' = helloPc /\ helloPc = "idle"
  BY DEF StartUp, ReadFlag, WriteFirst, ReadAll, TypeOK, Idle, hello
<1>2. mixed # "storing"
  BY <1>1 DEF AddressInv, Address
<1>3. CASE ReadFlag
  <2>1. eeprom' = eeprom /\ boot' \in {"read", "write"} /\ at' = 1
    BY <1>3 DEF ReadFlag, stores, BootInv
  <2> QED BY <1>1, <1>2, <2>1 DEF AddressInv
<1>4. CASE WriteFirst
  <2>1. /\ at \in 1..6 /\ eeprom' = [eeprom EXCEPT ![FirstWrites[at]] = Default]
        /\ at < 6 => boot' = "write" /\ at' = at + 1
        /\ at = 6 => boot' = "read" /\ at' = 1
    BY <1>4, Orders DEF WriteFirst, TypeOK
  <2>2. boot = "write" /\ (eeprom["flag"] = Set <=> at = 6)
    BY <1>4, Orders DEF WriteFirst, FlagInv
  <2>3. /\ eeprom'["ip1"] = IF at = 2 THEN Default ELSE eeprom["ip1"]
        /\ eeprom'["ip2"] = IF at = 3 THEN Default ELSE eeprom["ip2"]
        /\ eeprom'["flag"] = IF at = 5 THEN Default ELSE eeprom["flag"]
    BY <2>1, Orders DEF TypeOK
  <2>4. /\ at' > 2 => eeprom'["ip1"] = Default
        /\ at' > 3 => eeprom'["ip2"] = Default
    BY <2>1, <2>2, <2>3 DEF AddressInv
  <2>5. eeprom'["flag"] = Set => eeprom'["ip1"] = Default /\ eeprom'["ip2"] = Default
    BY <2>1, <2>2, <2>3 DEF AddressInv
  <2>6. boot' # "run"
    BY <2>1
  <2> QED BY <1>1, <1>2, <2>4, <2>5, <2>6 DEF AddressInv, Agree, Address
<1>5. CASE ReadAll
  <2>1. boot = "read" /\ eeprom["flag"] = Set /\ at \in 1..4
    BY <1>5, Orders DEF ReadAll, FlagInv, BootInv
  <2>2. eeprom["ip1"] \in Values /\ eeprom["ip2"] \in Values
    BY <2>1 DEF AddressInv, Address
  <2>3. eeprom'["ip1"] = eeprom["ip1"] /\ eeprom'["ip2"] = eeprom["ip2"]
    BY <1>5, <2>1, <2>2, Orders DEF ReadAll, ReadMemory, TypeOK
  <2>4. boot' \in {"read", "run"}
    BY <1>5, <2>1 DEF ReadAll
  <2>5. boot' = "run" => Agree(memory') \/ mixed # "no"
    <3> SUFFICES ASSUME boot' = "run", mixed = "no" PROVE Agree(memory')
      OBVIOUS
    <3>1. unsure' = {}
      BY <1>5, <2>1, Orders DEF ReadAll
    <3>2. ~Storing("ip1")' /\ ~Storing("ip2")'
      BY <1>1, <1>5 DEF ReadAll, Storing, hello, mqtt, Idle, None
    <3>3. memory'["ip1"] = eeprom'["ip1"] /\ memory'["ip2"] = eeprom'["ip2"]
      BY <3>1, <3>2, StartStep DEF MemoryIsStored
    <3> QED BY <1>1, <2>1, <2>3, <3>3 DEF AddressInv, Agree
  <2> QED BY <1>1, <1>2, <2>1, <2>2, <2>3, <2>4, <2>5 DEF AddressInv, Agree, Address
<1> QED BY <1>3, <1>4, <1>5 DEF StartUp

\* A step that leaves the words of the address and their store alone.
LEMMA AddressApart ==
  ASSUME Inv, AddressInv, boot = "run", boot' = "run", mixed' = mixed, staged' = staged,
         eeprom'["flag"] = eeprom["flag"],
         \A w \in Address : eeprom'[w] = eeprom[w] /\ memory'[w] = memory[w],
         helloPc' = helloPc \/ (helloPc \notin Address /\ helloPc' \notin Address),
         \/ i2cLock' = i2cLock /\ (mqttPc' = mqttPc \/ mqttPc' # "address")
         \/ i2cLock' = "free"
         \/ helloPc' \notin Address
  PROVE  AddressInv'
BY DEF AddressInv, Agree, Address

LEMMA AddressHello == Inv /\ AddressInv /\ Hello => AddressInv'
<1> SUFFICES ASSUME Inv, AddressInv, Hello PROVE AddressInv'
  OBVIOUS
<1> USE Ranges DEF Inv, mqtt, stores, booting
<1>0. boot = "run" /\ boot' = "run" /\ eeprom'["flag"] = eeprom["flag"] /\ eeprom["flag"] = Set
  BY TasksRun DEF Tasks, FlagInv
<1>1. ASSUME NEW w \in Single \cap group, NEW v \in Values, MenuStore(w, v) PROVE AddressInv'
  <2>1. w \in Words /\ w \notin Address
    BY DEF Single, Address
  <2>2. /\ helloPc = "idle" /\ helloPc' = w /\ memory' = [memory EXCEPT ![w] = v]
        /\ UNCHANGED <<eeprom, i2cLock, mqttPc, staged, mixed>>
    BY <1>1 DEF MenuStore
  <2>3. \A u \in Address : memory'[u] = memory[u]
    BY <2>1, <2>2 DEF TypeOK, Address
  <2>4. helloPc \notin Address /\ helloPc' \notin Address
    BY <2>1, <2>2 DEF Address
  <2> QED BY <1>0, <2>2, <2>3, <2>4, AddressApart
<1>2. CASE OpenAddress
  BY <1>0, <1>2 DEF OpenAddress, AddressInv, Address
<1>3. CASE Display_Setting_Confirm
  <2>1. /\ helloPc = "idle" /\ helloPc' = "ip1" /\ memory' = [memory EXCEPT !["ip1"] = staged["ip1"]]
        /\ UNCHANGED <<eeprom, staged, i2cLock, mqttPc>>
    BY <1>3 DEF Display_Setting_Confirm
  <2>2. memory'["ip1"] = staged["ip1"]
    BY <2>1 DEF TypeOK
  <2>3. /\ mixed' # "yes" => /\ ~(i2cLock = "mqtt" /\ mqttPc = "address")
                             /\ staged["ip1"] = staged["ip2"]
        /\ mixed' = "no" => mixed = "no"
    BY <1>3 DEF Display_Setting_Confirm
  <2> QED BY <1>0, <2>1, <2>2, <2>3 DEF AddressInv, Agree, Address
<1>4. ASSUME NEW w \in Words, MenuWrite(w) PROVE AddressInv'
  <2>1. /\ helloPc = w /\ eeprom' = [eeprom EXCEPT ![w] = memory[w]] /\ i2cLock = "free"
        /\ helloPc' = IF w = "ip1" THEN "ip2" ELSE "idle"
        /\ memory' = IF w = "ip1" THEN [memory EXCEPT !["ip2"] = staged["ip2"]] ELSE memory
        /\ w # "ip2" => staged' = staged /\ mixed' = mixed
        /\ w = "ip2" => mixed' = IF mixed = "storing" THEN "no" ELSE mixed
        /\ UNCHANGED <<i2cLock, mqttPc>>
    BY <1>4 DEF MenuWrite
  <2>2. memory[w] \in Values \/ w \notin Address
    BY <1>0 DEF RunInv
  <2>3. CASE w \notin Address
    <3>1. helloPc \notin Address /\ helloPc' \notin Address /\ staged' = staged /\ mixed' = mixed
      BY <2>1, <2>3 DEF Address
    <3>2. \A u \in Address : eeprom'[u] = eeprom[u] /\ memory'[u] = memory[u]
      BY <2>1, <2>3 DEF TypeOK, Address
    <3> QED BY <1>0, <2>1, <3>1, <3>2, AddressApart
  <2>4. CASE w = "ip1"
    <3>1. /\ eeprom'["ip1"] = memory["ip1"] /\ eeprom'["ip2"] = eeprom["ip2"]
          /\ memory'["ip1"] = memory["ip1"] /\ memory'["ip2"] = staged["ip2"]
          /\ memory["ip1"] \in Values /\ helloPc = "ip1" /\ helloPc' = "ip2"
      BY <2>1, <2>2, <2>4 DEF TypeOK, Address
    <3>2. eeprom'["ip2"] \in Values
      BY <1>0, <3>1 DEF AddressInv, Address
    <3>3. mixed' # "yes" => Agree(staged) /\ memory["ip1"] = staged["ip1"]
      BY <2>1, <2>4, <3>1 DEF AddressInv
    <3> QED BY <1>0, <2>1, <2>4, <3>1, <3>2, <3>3 DEF AddressInv, Agree, Address
  <2>5. CASE w = "ip2"
    <3>1. /\ eeprom'["ip2"] = memory["ip2"] /\ eeprom'["ip1"] = eeprom["ip1"] /\ memory' = memory
          /\ memory["ip2"] \in Values /\ helloPc = "ip2" /\ helloPc' = "idle"
      BY <2>1, <2>2, <2>5 DEF TypeOK, Address
    <3>2. eeprom'["ip1"] \in Values
      BY <1>0, <3>1 DEF AddressInv, Address
    <3>3. mixed' \in {"yes", "no"} /\ (mixed' = "no" => mixed # "yes")
      BY <2>1, <2>5 DEF TypeOK
    <3>4. mixed' = "no" => Agree(memory') /\ Agree(eeprom')
      BY <3>1, <3>3 DEF AddressInv, Agree
    <3> QED BY <1>0, <3>1, <3>2, <3>3, <3>4 DEF AddressInv, Address
  <2> QED BY <2>3, <2>4, <2>5 DEF Address
<1>5. CASE BusWait \/ BusRead \/ SetTime
  <2>1. /\ helloPc \in {"idle", "read"} /\ helloPc' \in {"idle", "read"}
        /\ UNCHANGED <<eeprom, memory, i2cLock, staged, mqttPc, mixed>>
    BY <1>5 DEF BusWait, BusRead, SetTime, hello
  <2> QED BY <1>0, <2>1, AddressApart DEF Address
<1> QED BY <1>1, <1>2, <1>3, <1>4, <1>5 DEF Hello

LEMMA AddressUnlocked ==
  ASSUME NEW a \in Agents
  PROVE  Inv /\ AddressInv /\ Unlocked(a) => AddressInv'
<1> SUFFICES ASSUME Inv, AddressInv, Unlocked(a) PROVE AddressInv'
  OBVIOUS
<1>0. boot = "run" /\ boot' = "run" /\ eeprom'["flag"] = eeprom["flag"]
  BY TasksRun DEF Tasks, Inv
<1>1. UNCHANGED <<helloPc, staged, i2cLock, mqttPc, mixed>>
  BY DEF Unlocked, UnlockedStore, UnlockedBegin, UnlockedEnd, StoreUnchecked, hello, mqtt
<1>2. \A u \in Address : eeprom'[u] = eeprom[u] /\ memory'[u] = memory[u]
  <2>1. ASSUME NEW w \in Single, NEW v \in Values \cup {Wrong}, UnlockedStore(a, w, v)
        PROVE  \A u \in Address : eeprom'[u] = eeprom[u] /\ memory'[u] = memory[u]
    BY <2>1, Ranges DEF UnlockedStore, StoreUnchecked, Inv, TypeOK, Single, Address
  <2>2. CASE UnlockedBegin(a)
    BY <2>2 DEF UnlockedBegin, stores
  <2>3. CASE UnlockedEnd(a)
    <3>1. unlocked[a].word \in Single \cup {"none"}
      BY DEF Inv, TypeOK
    <3> QED BY <2>3, <3>1, Ranges DEF UnlockedEnd, Inv, TypeOK, Single, Address
  <2> QED BY <2>1, <2>2, <2>3 DEF Unlocked
<1> QED BY <1>0, <1>1, <1>2, AddressApart

LEMMA AddressMqtt == Inv /\ AddressInv /\ Mqtt => AddressInv'
<1> SUFFICES ASSUME Inv, AddressInv, Mqtt PROVE AddressInv'
  OBVIOUS
<1> USE Ranges DEF Inv, stores, hello
<1>0. boot = "run" /\ boot' = "run" /\ eeprom'["flag"] = eeprom["flag"]
  BY TasksRun DEF Tasks
<1>1. UNCHANGED <<helloPc, staged>> /\ (helloPc = "idle" \/ i2cLock # "free")
  BY DEF Mqtt, MqttBattery, MqttSetAddress, MqttLock, MqttWriteBattery, MqttWriteAddress, MqttRelease,
         MqttRuns, AgentRuns, HelloWaits
<1>2. helloPc # "ip2"
  BY <1>1 DEF AddressInv
<1>3. ASSUME NEW i \in {1, 2}, NEW v \in Values \cup {Wrong}, MqttBattery(i, v) PROVE AddressInv'
  <2>1. /\ mqttPc' \in {"battery1", "battery2"} /\ UNCHANGED <<eeprom, i2cLock, mixed>>
        /\ memory' = [memory EXCEPT !["battery"] = v] \/ memory' = memory
    BY <1>3 DEF MqttBattery, StoreUnchecked
  <2>2. \A u \in Address : memory'[u] = memory[u]
    BY <2>1 DEF TypeOK, Address
  <2> QED BY <1>0, <1>1, <2>1, <2>2, AddressApart
<1>4. ASSUME NEW v \in Values, MqttSetAddress(v) PROVE AddressInv'
  <2>1. mqttPc = "idle" /\ UNCHANGED <<eeprom, memory, i2cLock, mixed>>
    BY <1>4 DEF MqttSetAddress
  <2>2. i2cLock = "free"
    BY <2>1 DEF TypeOK
  <2> QED BY <1>0, <1>1, <2>1, <2>2, AddressApart
<1>5. CASE MqttLock
  <2>1. i2cLock = "free" /\ UNCHANGED <<eeprom, memory, mqttPc, mixed>>
    BY <1>5 DEF MqttLock, mqtt
  <2>2. helloPc' \notin Address
    BY <1>1, <2>1 DEF Address
  <2> QED BY <1>0, <1>1, <2>1, <2>2, AddressApart
<1>6. CASE MqttRelease
  <2>1. i2cLock' = "free" /\ UNCHANGED <<eeprom, memory, mixed>>
    BY <1>6 DEF MqttRelease
  <2> QED BY <1>0, <1>1, <2>1, AddressApart
<1>7. CASE MqttWriteBattery
  <2>1. /\ mqttPc' = "release" /\ UNCHANGED <<memory, i2cLock, mixed>>
        /\ \E v \in Values \cup {Wrong} : eeprom' = [eeprom EXCEPT !["battery"] = v]
    BY <1>7 DEF MqttWriteBattery, TypeOK
  <2>2. \A u \in Address : eeprom'[u] = eeprom[u]
    BY <2>1 DEF TypeOK, Address
  <2> QED BY <1>0, <1>1, <2>1, <2>2, AddressApart
<1>8. CASE MqttWriteAddress
  <2>1. /\ i2cLock = "mqtt" /\ mqttPc = "address" /\ mqttPc' = "release" /\ i2cLock' = i2cLock
        /\ mixed' = IF helloPc = "ip1" THEN mixed ELSE "no"
        /\ mqttAddress \in Values
    BY <1>0, <1>8 DEF MqttWriteAddress, RunInv
  <2>3. \A u \in Address : eeprom'[u] = mqttAddress /\ memory'[u] = mqttAddress
    <3>1. DOMAIN eeprom = Words \cup {"flag", "names"}
      BY DEF TypeOK
    <3> QED BY <1>8, <3>1 DEF MqttWriteAddress, Address
  <2>2. helloPc = "ip1" => mixed = "yes"
    BY <2>1 DEF AddressInv
  <2> QED BY <1>0, <1>1, <1>2, <2>1, <2>2, <2>3 DEF AddressInv, Agree, Address
<1> QED BY <1>3, <1>4, <1>5, <1>6, <1>7, <1>8 DEF Mqtt

LEMMA AddressInvariance == Spec => []AddressInv
<1>1. Inv /\ AddressInv /\ [Next]_vars => AddressInv'
  <2> SUFFICES ASSUME Inv, AddressInv, [Next]_vars PROVE AddressInv'
    OBVIOUS
  <2>1. CASE UNCHANGED vars
    BY <2>1 DEF vars, stores, booting, hello, mqtt, AddressInv, Agree
  <2> QED BY <2>1, AddressStart, AddressPower, AddressHello, AddressUnlocked, AddressMqtt DEF Next
<1> QED BY AddressInit, <1>1, Invariance, PTL DEF Spec

-----------------------------------------------------------------------------
(***************************************************************************)
(* The range of what is in force.                                          *)
(***************************************************************************)
\* A start leaves nothing out of range, and after it only a store without a
\* check does: the menu's values and the addresses are checked.
LEMMA RangeStep == Inv /\ MemoryInRange /\ Next => MemoryInRange'
<1> SUFFICES ASSUME Inv, MemoryInRange, Next, boot' = "run", NEW u \in Words
             PROVE  memory'[u] \in Values \/ u \in unchecked'
  BY DEF MemoryInRange
<1> USE Ranges DEF Inv, stores, doubts
<1>1. CASE StartUp
  <2>1. ReadAll /\ at = 4
    BY <1>1, Orders DEF StartUp, ReadFlag, WriteFirst, ReadAll, BootInv
  <2>2. PICK v \in Values : memory' = [memory EXCEPT !["aircon"] = v]
    BY <2>1, Orders DEF ReadAll, ReadMemory
  <2>3. \A i \in 1..3 : memory[Reads[i]] \in Values
    BY <2>1 DEF ReadAll, BootInv, ReadUpTo
  <2>4. memory["battery"] \in Values /\ memory["ip1"] \in Values /\ memory["ip2"] \in Values
    BY <2>3, Orders
  <2> QED BY <2>2, <2>4 DEF TypeOK
<1>2. CASE PowerFails
  BY <1>2 DEF PowerFails
<1>3. CASE Tasks
  <2>0. boot = "run" /\ (memory[u] \in Values \/ u \in unchecked)
    BY <1>3, TasksRun DEF MemoryInRange
  <2>1. CASE memory' = memory /\ unchecked' = unchecked
    BY <2>0, <2>1
  <2>2. ASSUME NEW w \in Words, NEW v \in Values,
               memory' = [memory EXCEPT ![w] = v], unchecked' \in {unchecked, unchecked \ {w}}
        PROVE  memory'[u] \in Values \/ u \in unchecked'
    BY <2>0, <2>2 DEF TypeOK
  <2>3. ASSUME NEW w \in Words, NEW v, StoreUnchecked(w, v)
        PROVE  memory'[u] \in Values \/ u \in unchecked'
    BY <2>0, <2>3 DEF StoreUnchecked, TypeOK
  <2>4. CASE Hello
    <3>1. ASSUME NEW w \in Single \cap group, NEW v \in Values, MenuStore(w, v)
          PROVE  memory'[u] \in Values \/ u \in unchecked'
      BY <2>2, <3>1 DEF MenuStore, Single
    <3>2. CASE Display_Setting_Confirm
      <4>1. staged["ip1"] \in Values
        BY <2>0, <3>2 DEF Display_Setting_Confirm, RunInv, Address
      <4> QED BY <2>2, <3>2, <4>1 DEF Display_Setting_Confirm
    <3>3. ASSUME NEW w \in Words, MenuWrite(w)
          PROVE  memory'[u] \in Values \/ u \in unchecked'
      <4>1. CASE w = "ip1"
        <5>1. staged["ip2"] \in Values
          BY <2>0, <3>3, <4>1 DEF MenuWrite, RunInv, Address
        <5> QED BY <2>2, <3>3, <4>1, <5>1 DEF MenuWrite
      <4>2. CASE w # "ip1"
        BY <2>1, <3>3, <4>2 DEF MenuWrite
      <4> QED BY <4>1, <4>2
    <3>4. CASE OpenAddress \/ BusWait \/ BusRead \/ SetTime
      BY <2>1, <3>4 DEF OpenAddress, BusWait, BusRead, SetTime
    <3> QED BY <2>4, <3>1, <3>2, <3>3, <3>4 DEF Hello
  <2>5. ASSUME NEW a \in Agents, Unlocked(a)
        PROVE  memory'[u] \in Values \/ u \in unchecked'
    <3>1. ASSUME NEW w \in Single, NEW v \in Values \cup {Wrong}, UnlockedStore(a, w, v)
          PROVE  memory'[u] \in Values \/ u \in unchecked'
      BY <2>3, <3>1 DEF UnlockedStore, Single
    <3>2. CASE UnlockedBegin(a) \/ UnlockedEnd(a)
      BY <2>1, <3>2 DEF UnlockedBegin, UnlockedEnd
    <3> QED BY <2>5, <3>1, <3>2 DEF Unlocked
  <2>6. CASE Mqtt
    <3>1. ASSUME NEW i \in {1, 2}, NEW v \in Values \cup {Wrong}, MqttBattery(i, v)
          PROVE  memory'[u] \in Values \/ u \in unchecked'
      BY <2>1, <2>3, <3>1 DEF MqttBattery
    <3>2. CASE MqttWriteAddress
      <4>1. mqttAddress \in Values
        BY <2>0, <3>2 DEF MqttWriteAddress, RunInv
      <4> QED BY <2>0, <3>2, <4>1 DEF MqttWriteAddress
    <3>3. ASSUME NEW v \in Values, MqttSetAddress(v)
          PROVE  memory'[u] \in Values \/ u \in unchecked'
      BY <2>1, <3>3 DEF MqttSetAddress
    <3>4. CASE MqttLock \/ MqttWriteBattery \/ MqttRelease
      BY <2>1, <3>4 DEF MqttLock, MqttWriteBattery, MqttRelease
    <3> QED BY <2>6, <3>1, <3>2, <3>3, <3>4 DEF Mqtt
  <2> QED BY <1>3, <2>4, <2>5, <2>6 DEF Tasks
<1> QED BY <1>1, <1>2, <1>3 DEF Next, Tasks

LEMMA RangeInvariance == Spec => []MemoryInRange
<1>1. Init => MemoryInRange
  BY DEF Init, MemoryInRange
<1>2. Inv /\ MemoryInRange /\ [Next]_vars => MemoryInRange'
  <2> SUFFICES ASSUME Inv, MemoryInRange, UNCHANGED vars PROVE MemoryInRange'
    BY RangeStep
  <2> QED BY DEF vars, stores, booting, doubts, MemoryInRange
<1> QED BY <1>1, <1>2, Invariance, PTL DEF Spec
-----------------------------------------------------------------------------
\* The types; before the start-up has ended no task runs.
THEOREM TypeCorrect == Spec => []TypeOK
BY Invariance, PTL DEF Inv

\* What is in force is what the EEPROM holds, is in range unless its last store
\* was one of those that do not check it, and nothing blank is left by any number
\* of failed starts (Init_All_Variable and the stores of the three tasks), but for
\* the exceptions that the parts list.
THEOREM MemoryIsRight == Spec => []MemoryRight
<1>1. Inv => MemoryIsStored /\ KnownAfterStart
  BY Ranges DEF Inv, KnownAfterStart, FlagInv, RunInv
<1> QED BY <1>1, Invariance, RangeInvariance, PTL DEF MemoryRight

\* The words of the address are those of one address, in memory and in the
\* EEPROM, whatever the menu, the handler of commands and the power do between
\* their stores, but for the exceptions recorded by mixed (Display_Setting_Confirm
\* and mqtt_json_parse_config_device_ip).
THEOREM AddressStaysWhole == Spec => []AddressWhole
<1>1. Inv /\ AddressInv => AddressWhole
  <2> SUFFICES ASSUME Inv, AddressInv, boot = "run", helloPc \notin Address, mixed # "yes"
               PROVE  Agree(memory) /\ Agree(eeprom)
    BY DEF AddressWhole, Agree
  <2>1. mixed = "no" /\ helloPc # "ip2"
    BY DEF Inv, TypeOK, AddressInv, Address
  <2>2. eeprom["flag"] = Set
    BY DEF Inv, FlagInv
  <2> QED BY <2>1, <2>2 DEF AddressInv
<1> QED BY <1>1, Invariance, AddressInvariance, PTL

\* A start changes nothing in range, however often the power fails in it.
THEOREM StartsLoseNothing == Spec => SettingsSurvive
<1>1. ASSUME Inv, Next, ran, boot # "run", NEW w \in Words, eeprom[w] \in Values
      PROVE  eeprom'[w] = eeprom[w]
  <2>1. ~Tasks
    BY <1>1, TasksRun DEF Inv
  <2>2. CASE PowerFails
    BY <2>2 DEF PowerFails
  <2>3. CASE ReadFlag
    BY <2>3 DEF ReadFlag, stores
  <2>4. CASE WriteFirst
    BY <1>1, <2>4 DEF WriteFirst, Inv, BootInv
  <2>5. CASE ReadAll
    BY <1>1, <2>5 DEF ReadAll, ReadMemory, Inv, TypeOK
  <2> QED BY <1>1, <2>1, <2>2, <2>3, <2>4, <2>5 DEF Next, Tasks, StartUp
<1>2. Inv /\ [Next]_vars =>
        [ran /\ boot # "run" => \A w \in Words : eeprom[w] \in Values => eeprom'[w] = eeprom[w]]_vars
  BY <1>1
<1> QED BY <1>2, Invariance, PTL DEF SettingsSurvive, Spec
=============================================================================
