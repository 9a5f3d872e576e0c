# A verification project for the FRDM-K66F site monitor

The firmware watches an unattended site: it reads sensors, a transfer switch and
an air conditioner, raises alarms, lets people in by card, and reports over
MQTT and SNMP through Ethernet or, when that fails, through a GPRS modem.  The
application is C on FreeRTOS with the CycloneTCP stack.  These TLA+ modules
model its own logic; the vendored code (`tcp stack/`, `rtos/`, `devices/`,
`CMSIS/`, `cJSON-1.7.7/`, `iar/`) is taken from how the application uses it.

Contents: 1 the system, 2 the modules and how they correspond to the code,
3 the runs, 4 fairness, 5 the proofs, 6 findings, 7 what is not modelled,
8 the plan.

## 1. The system

### Scheduling

| Task | Priority | Code |
|---|---|---|
| `hello_task`: menu, cards, alarms, display | 4 | `user_task.c`, `menu.c` |
| FreeRTOS timer task: `SwTimerCallback`, `snmpConnectIncreaseTick` | 2 | `user_task.c` |
| connection manager, modem, MQTT client, trap sender, SNMP agent, IO, ADC, RS-485, firmware download | 1 (`OS_TASK_PRIORITY_NORMAL`) | |
| MQTT command handler, MQTT periodic task | idle | `mqtt_client/app_mqtt_client.c` |

The scheduler is preemptive without time slicing.  A task that was preempted by
a higher one is not necessarily the next of its priority to run, and several
calls in the middle of a turn block.  So two tasks of equal priority can
interleave between any two accesses to a shared variable, and a task of a higher
priority can do a whole turn between two accesses of a lower one, but not the
other way round.  The models follow that: an access to a shared variable is a
step of its own wherever another task can come in between, and a task that
nobody modelled can interrupt is one step.  Nearly all of the shared state has
no lock at all.

### Parts

**Connection manager** (`snmpConnect_manager.c`).  State: `status`,
`activeNetInterface`, `pingTick`, `pingRetry`.  Once a second it decides, from the
PHY link, a ping every `PING_SEND_PERIOD` ticks and the modem's report, which
interface is the uplink, and commands the modem.  Read by the MQTT client, the
trap sender and the download.  Hard: the branches write three shared variables
one after the other in different orders.  Correct if status, interface and
command agree between turns, GPRS is taken up and given up "make before break",
and the uplink ends up on the path that works.

**Modem interface** (`modem_interface.c`, `modem.c`).  State: `setState` (written by
the manager), `currentState` (read by it), retry and ping counters, the power of
the modem, the PPP session.  Dials with retries, supervises the session with
pings, hangs up.  Hard: an order that arrives in the middle of a dialling
attempt or of the seconds it takes to hang up.  Correct if the state it reports
is the real one, no attempt starts over a live session and an unwanted modem
ends up switched off.

**RS-485 master** (`rs485.c`, `rs485_task` of `user_task.c`).  State: `runningStep`, the
receive buffer and its state `u8MosbusEn`, the last query, the no-response
counters; `sMenu_Variable` with `changedVal` and the values, which the menu, the
MQTT handler and the SNMP agent write.  Polls the transfer switch, the door
module and the air conditioner in turn and forwards settings and the clock.
Hard: answers that are late, damaged or missing; a setting entered while another
one is forwarded; a buffer that nobody empties.  Correct if data are recorded for
the module they came from, a dead module (and only a dead one) is reported, and
a setting that was entered reaches its module.

**Active alarms** (`menu.c`, `Active_Alarm_Scane`, `Display_Active_Alarm`).  State: per
alarm `status`, `checked` and a rank `index`, their number, the page and the
`refesh` flag.  Ranks are shifted in place when an alarm comes or goes.  Correct if
they are always a newest-first list and the page shows the current one.

**MQTT client** (`mqtt_client/app_mqtt_client.c`).  State: `mqttConnectionState`,
`mqttClientContext`, the two queues of 8 messages.  A client task connects,
receives through the library's callback and publishes; a handler executes the
commands; a periodic task and the download publish events.  Hard: sessions that
end anywhere, uplinks that change between two looks, full queues in both
directions at once.  Correct if every command is handled once and in order, the
client always comes back, and nothing is published over an old interface.

**Firmware update** (`ftp.c`, `internal_flash.c`).  State: `firmwareInfo`, the read and write
buffers, the image and information areas of the flash.  A command starts a task
that fetches a file block by block, programs it, and writes a key that makes
the bootloader install it.  Hard: cut connections, refused programming, power
failures and a second command.  Correct if the key is there only over a
complete image.

**Door lock** (`user_task.c` `SwTimerCallback`, `private_mib_impl.c` `UpdateInfo` and
`privateMibSetAccessoriesGroup`).  State: `doorStatus`, `doorOpenTimeCount`, the
relay.  A card opens the door for `DOOR_OPEN_TIME` seconds, the timer locks it, a
manager may open or lock it.  Hard: three tasks of three priorities move status
and relay in two steps.  Correct if no order of them leaves the door open.

**Card reader and users** (`access_control.c`, the ISR in `rs485.c`, the pages of
`menu.c`, setters of `private_mib_impl.c` and `mqtt_json_parse.c`).  State: the reader's byte
counter and enable flag, `learnUID`, the row that is open; the table of five users in
memory, in the MIB and in the EEPROM.  Hard: the interrupt and the check reset the
same two variables; one menu page leaves `learnUID` behind; a number is copied byte by
byte between three places by three tasks.  Correct if a number that is taken is
the number of a card, cards are learned only where the operator wants it, and a
stored row is one that somebody entered.

**Settings store and I2C lock** (`menu.c` `Init_All_Variable`, `i2c_lock.c`, `eeprom_rtc.c`).  The
EEPROM holds every setting; a flag says it was initialised.  Three tasks write
it, with and without the lock.  Hard: power failures between writes, transfers
cut by those of a task above, an address written word by word.  Correct if what
is in force is stored and in range, and nothing stored is lost.

**SNMP traps** (`snmp_client.c`).  State: old and new value of each alarm, the period, the
uplink of the moment.  Hard: the value is read for the test, for the trap and
to be stored as old, with `UpdateInfo` in between; traps are not acknowledged.  Correct
if the server is wrong about an alarm for a while only.

**Remote commands** (`mqtt_client/mqtt_json_parse.c`, `mqtt_json_make.c`).  Dispatch of configure, control
and firmware messages; sets thresholds, addresses, cards and the air
conditioner's settings, each in memory, EEPROM and MIB.  Correct if these agree.

**SNMP agent** (`private_mib_impl.c`).  The getters and setters of the private MIB, and
`UpdateInfo`, which evaluates the alarms from the sensors in `hello_task`.

**Inputs, analogue values and timers** (`user_task.c`, `am2320.c`).  Debounced inputs, averaged
analogue values, the tick hook.

**Menu and display** (`menu.c`, `lm2068.c`).  A tree of pages that share `index` and
`previousIndex`.  Correct if the row selected is one the page has.

**Start-up and Ethernet set-up** (`app_init.c`, `app_ethernet.c`), **serial driver and debug output**,
**hardware configuration**, **vendored code**: see section 7.

### How they interact

    timer ─tick→ connection manager ─setState→ modem ─currentState→ manager
                    │ activeNetInterface, status
                    ├→ MQTT client ⇄ queues ⇄ command handler, periodic task
                    ├→ trap sender              │ changedVal, thresholds, cards
                    └→ download ← firmware_update
    menu, command handler, SNMP agent ─changedVal, value→ RS-485 master
    menu, command handler, SNMP agent ─I2C lock, or not→ EEPROM ─start→ memory
    RS-485 master, IO, ADC ─→ UpdateInfo ─status→ active alarms, traps
    card reader ─→ check ─┬→ UpdateInfo ─┐   page of users → TempUserID → users
                          └→ learnUID    │
    timer ───────────────────────────────┼→ doorStatus, relay
    SNMP agent ──────────────────────────┘

## 2. The modules

Names of variables and actions are those of the source.  In every module a
definition marked "Slip" is a wrong variant of the one that follows it; no
action uses it; it is there to show that a property would notice the slip.

| Module | What it is |
|---|---|
| `Uplink` | abstract: what the connection manager promises the tasks that send |
| `Connectivity` | manager, modem task and tick, in their shared-memory steps; implements `Uplink` |
| `ConnectivityProofs` | theorems about `Connectivity` |
| `AlarmList` | abstract: a newest-first list of alarms |
| `ActiveAlarms` | the scan, the page and its keys; implements `AlarmList` |
| `ActiveAlarmsProofs` | theorems about `ActiveAlarms` |
| `Modbus` | the RS-485 master with the entry of settings |
| `MqttClient` | client task, callback, handler, publishers; instantiates `Uplink` as its environment |
| `MqttClientProofs` | theorems about `MqttClient` |
| `MCMqttClient` | bursts of events for TLC |
| `FirmwareUpdate` | command, download task, flash, restarts |
| `FirmwareUpdateProofs` | theorems about `FirmwareUpdate` |
| `MCFirmwareUpdate` | files for TLC |
| `DoorLock` | card, timer and agent at the lock |
| `UserTaskProofs` | theorems about `DoorLock` and `Modbus`, the tick and the task of `user_task.c` |
| `AccessPanel` | every page and key of the menu, and the card reader with its interrupt |
| `UserTable` | one row of the table of users, its three copies and three writers |
| `AccessControlProofs` | theorems about `AccessPanel` and `UserTable` |
| `Settings` | start-up, the writers of settings, the I2C lock, power failures |
| `SettingsProofs` | theorems about `Settings` |
| `TrapSender` | the trap task between `UpdateInfo`, the uplink and the server; instantiates `Uplink` |
| `TrapSenderProofs` | theorems about `TrapSender` |

A module of proofs that is about two components extends both; the names of `Modbus` and
`UserTable` that would clash there have a prefix (`BusInit`, `TableInit`, `UpdateEntry` for the part of
`UpdateInfo` that makes an entry, ...).

`MqttClient` and `TrapSender` compose with `Connectivity` through `Uplink`: their environment moves
the uplink as `Uplink` allows, and `Connectivity` is checked, and proved, to implement
`Uplink`.

### Connectivity

A turn of the manager is `MgrCheck` (the tick, the link), `MgrPing` (a blocking
ping), `MgrSwitch` (the branch for its status), `MgrAgain` (the second call of
`ModemInterfaceGetState` in one branch) and one `MgrWrite` per shared write.  The
constants `LinkDown`, `EthLost`, `GprsToEth`, ... are the writes of the branches in the
code's order.  A turn of the modem task is a walk through `MdmLoop`, the dialling
loop (`modemTurnOn`, `modemInit`, `modemConnect`, `MdmTried`), `MdmDialled`, `MdmSecond`,
`ModemInterfaceDisconnect`, `MdmHungUp`, `MdmWatch` and `MdmPing`.  The AT dialogue and the PPP
negotiation are one step each, which succeeds exactly if the mobile network
carries; what they do to power and session on each error path is kept.  The
world moves the cable, the server and the mobile network at any time.

### Modbus

`rs485_task` has one action per case of the switch, split where a case has a delay of
its own (`inDelay`).  `RS4851_UART_IRQHandler` receives a frame as a whole; with the buffer in
the middle of a frame, or a frame of another module, what is left is a choice
over every state the byte-wise code can end in.  `Accepted` is
`RS4851_Check_Respond_Data`: it compares the length of a poll's answer with the
register count of the last query, whose bytes a write uses for its value.  Entry
of a setting is one step at the menu (priority above the polling task) and two
for the agents (`RemoteFlag`, `RemoteStore`: `changedVal` first).  The history
variable `raced` marks a setting whose entry met one of the three races that lose it:
overtaken by a second entry, entered between sending and acknowledging the
first, or forwarded before its value was stored.  With a module that answers late there
is a fourth: the echo of an earlier write acknowledges a later one.

### ActiveAlarms

`Active_Alarm_Scane` is one alarm a step, with `Raise`, `Clear` and `PassBy` for the three ways
through its body; `Menu_Scane` is one turn of the page with its five keys; conditions
change between scans only, since `hello_task` runs above the other writer.  `screen` is
what each line shows, with the code's overwriting of lines.

### MqttClient

Program points of the client task are its calls that wait.  A command is a
number; executing it is one step.  `Receive` is enabled in every library call that
waits, so that the callback interrupts the handshake and a publish too; with a
message longer than the queue's places it returns at once (`ReceiveTooLong`).  `Queued` and
`NotQueued` are the two outcomes of a queue operation with a timeout.  `lost` collects
what is dropped, by the branch that drops it.

### FirmwareUpdate

A block has two units (1024 bytes in the code) and the image area two blocks
(960 KB).  `ftpReadFile` returns a piece of any length; `Fill`, `Flush`, `Last` are the three parts of
the loop's body; `Check`, `Report`, `WriteKey`, `hal_system_reset` its end.  A flash cell holds a byte
of a named file, so that mixed images are told apart.  Programming changes
only erased cells.  `Restart` may happen in any state.

### DoorLock

`hello_task` cannot be interrupted by the other two, so a card is one step (`Grant`, `Deny`).
The timer callback can be interrupted by a card, and the agent by both; their
loads and stores are steps of their own, and where the compiler may load a
variable once or twice (`TickDecrement`, `SetLocks`, `SetOpens`) both are allowed.

### AccessPanel

A turn of `hello_task` is `Menu_Scane`, then `ACS_AccessCheck`, then `UpdateInfo`; only the interrupt comes
in between, so that `Menu_Scane` is one step and the check is three (`TakeNumber`, `Enable`,
`ResetCount`: its two stores are apart).  `SubMenu` is the table `sMenu_Object`, `Rows` the number
of rows each page counts round.  Each page's loading, keys and way out are the
actions `BeginPage` to `UserLeave`; the values edited on a page are left out but for three
switches of the transfer switch's page, which hide rows.  A byte of the reader is its
place in an endless stream of cards, counted through two cards: a number whose
bytes do not follow each other, or that begins in the middle of a card, can be told.

### UserTable

A byte stands for the number it belongs to.  `MenuStore` fills the row in memory at
once and saves it byte by byte (`MenuSave`: with the lock taken and the scheduler
suspended, so one step a byte).  The SNMP agent fills the entry of the MIB, copies
it to memory, reading and writing apart (`AgentLoad`, `AgentStore`), and saves from the
entry (`AgentLock`, `AgentWrite`, `AgentRelease`); the handler writes the EEPROM only.  A task runs only while
those above it wait: `AgentRuns`, `MqttRuns`.  `disturbed` marks the copies whose last store overlapped
another, was refreshed by `UpdateInfo` half way, or was cut by the power.

### Settings

`Init_All_Variable` is `ReadFlag`, one `WriteFirst` per item in the code's order and one `ReadAll` per word.
Four words stand for all settings, one for each way to store them.  The menu
stores a word with the lock and the scheduler suspended: one step (`MenuWrite`).  The
agent, and the handler for the air conditioner, do neither, so their transfer
has a begin and an end, and what a task above does on the bus in between may
cost the word (`cut`).  The page of the address copies it when it is begun
(`OpenAddress`) and stores it word by word when confirmed (`Display_Setting_Confirm`); the remote command writes
it as a whole.  Since each write that takes the lock also suspends the scheduler,
and the handler with the lock may be preempted before it does, what the lock
adds is only that others wait for it; it is while the menu waits that addresses
can mix.

### TrapSender

`UpdateInfo` can come between any two steps of the task.  `LookEthernet` and `LookModem` are the two reads of
the uplink that choose the context of a turn.  Per alarm the task compares
(`Compare`), reads the objects of the trap (`Read`, `ReadCard`), hands it over (`Deliver`) and stores the
value as old (`Store`).  From time to time it sends all plain alarms in one trap
(`ReadAll`, `DeliverAll`), which leaves the old values alone.  A trap over the uplink of the moment
arrives unless the network loses it; over an interface that is no longer the
uplink it may.  `missed` marks the alarms about which the server may be left wrong,
by the step that causes it.

## 3. The runs

Deadlock is checked in every run.

| Run | Bounds | States | Shows |
|---|---|---|---|
| `connectivity` | period 0, ping every 2 turns, 2 dials, 1 retry, 1 lost ping | 375 136 | the tasks agree, implement `Uplink` and settle on what works |
| `modbus_live` | transfer switch and air conditioner, one setting, limit 2, counter mod 3 | 658 228 | a miss has a reason; settings arrive, dead modules are noticed |
| `modbus_settings` | one setting of the air conditioner, menu and one handler, values 12 and 20, a door module, late answers of the air conditioner, limit 1 | 619 344 | the listed races are the only ones that lose a setting, the listed coincidence the only one that fills a foreign record |
| `active_alarms` | 6 alarms, 4 raisable, pages of 2 | 394 924 | ranks, page and keys |
| `mqtt` | queues of 1, 2 commands, one event of each publisher at a time | 153 132 | one place per command, order, connection and interface; reconnection, no command waits for ever |
| `firmware_single` | 7 files, one task | 123 500 | key and report only over a complete image |
| `firmware_overlap` | 2 files, two tasks | violation | two downloads break that |
| `door_lock` | `DOOR_OPEN_TIME` = 5, requests 0, 1, 2 and 257 | 31 457 | open times; the only two ways to leave the door open |
| `access_panel` | 2 users, numbers of 2 bytes | 714 480 | rows exist, cards are learned where wanted, numbers are framed |
| `user_table` | numbers of 2 bytes, 2 numbers | 76 257 | the listed overlaps are the only ones that mix a row; every store ends |
| `settings` | 2 values in range, 1 out of range, words two or three at a time | 928 549 | memory and EEPROM agree and are in range, starts lose nothing |
| `traps` | 1 plain alarm and access, 1 user, 2 cards, period 1 | 525 816 | when the server may be wrong, and that it learns in the end |

Most properties are conjunctions of named parts that belong together
(`Agreement`, `NothingHidden`, `NeverStuck`, ...); each part is stated above its definition.

Why the bounds are enough.

- Counters are compared with one limit each, so a limit of 1 or 2 takes every
  branch on both sides of it; `pingTick` is capped just above the value it is
  compared with.  `DOOR_OPEN_TIME` is the code's.
- `CounterMod` = 3 lets the no-response counter wrap with the alarm raised, as the
  8-bit counter does after 256 polls; the properties of `modbus_settings` do not depend
  on the counters, and `CounterMod` = 1 leaves them out.  Its two values are one that
  equals the register count of the air conditioner (12), where a write can be
  taken for a poll, and one that equals none.
  A door module, whose answers are never examined, and an air conditioner that answers
  in time or late leave the buffer full, empty or with a foreign frame at every step.
- Queues of one place are full after one message, and events overflow them
  while the client is away.  Two commands are enough for one to overtake the
  other.
- Files below, at and above the size of the image area, announced longer and
  shorter than they are, one unit and one whole area long: every alignment of
  the last block.
- Four raisable alarms over two pages of two give full, half full and vanished
  pages; two alarms of the table that are never raised stand for the unused ones.
- Two bytes are the least that a number can be mixed of, and a card's second byte
  tells a shifted frame from a whole one.  Every page is there with its real number
  of rows but for the users; the tree of pages is the code's.
- The agent stores the low byte of any integer, and the code compares it with 0 and 1
  only: 2 stands for all other bytes, and 257 for the integers of more than one byte.
- Two numbers, or addresses, tell whose bytes they are.  The words of `Settings` meet only
  through the lock, the bus and the flag; a behaviour changes two kinds of them at
  a time (`Groups`), and every pair of kinds is taken.
- Alarms are handled one after the other and differ only in the access alarm, so one
  plain alarm and that one make every pair of neighbours but two plain ones,
  which are alike.  Two cards, one of a user, give both outcomes.

What the properties say is stated above each of them in the modules.  The ones
that took the most to hold:

- `UplinkRefined`: no order of the manager's writes shows a direct change from
  Ethernet to GPRS, or an order to hang up before Ethernet is published.
- `ModemStateIsReal`: each of the paths out of a dialling attempt leaves power and
  session as `currentState` says.
- `SettingKept`, `RecordedFromOwner`: stated with their exact exceptions; these are weaknesses of the
  code that its comments do not rule out.  A lost setting needs one of the
  races that `raced` lists; a record from a foreign module needs a value that equals
  the length of that module's answer.
- `OnceInOrder`: over two queues, three tasks, dropped sessions and resets every
  command is in one place, and neither commands nor answers overtake.
- `KeyMeansImage`, `FlashAsReported`: with one download, whatever is cut short.  After a
  file that fills the image area a block is written into the information area;
  it is always blank, so that the key can still be written there.  `Surplus` is the
  exact exception: the loop compares nothing with the end of the area, and a
  file longer than announced and than the area leaves its data there, over
  which no later key can be written.
- `OpenIsLimited`, `LocksInTime`: an open door is about to be locked unless an agent's request
  was overtaken, or was neither 0 nor 1 (`LeftOpen`); and in time unless such a request came
  since the card (`suspended`).
- `SelectionFits`: `index` survives every way from page to page within the rows of the page
  it arrives at, and never rests on a row that the page hides.
- `RowIsAsEntered`, `MemoryRight`, `AddressWhole`, `NothingForgotten`, `TrapIsOneCard`: stated with their exact exceptions, each a
  place in the code where two tasks meet (section 6).
- `EventuallyReported`: losses do not add up, because the periodic trap does not look at what is
  taken for handled.

## 4. Fairness

- `connectivity`: weak fairness of the manager, the tick and the modem task.  Each
  turn ends with a delay, every wait in a turn has a timeout, the timer task
  is above both.  None for the world: the properties assume a path that works
  from some time on.
- `modbus_live`: weak fairness of the polling task, which waits only for delays,
  and of the interrupt: an answer on the line arrives.
- `mqtt`: weak fairness of client task and handler, which wait for queues and the
  network with timeouts; strong fairness of `ConnectionLost` (the client sends at least every
  30 s and TCP gives up in the end) and of `Receive` (what has arrived is read; the
  library polls in every call that waits).
- `firmware_single`: weak fairness of the download: reads and connections have timeouts.
- `door_lock`: weak fairness of the timer callback, started every second; strong
  fairness of the agent's remaining steps, which are disabled while the timer
  runs but which the tasks above, all of which block, cannot hold up for ever.
- `user_table`: weak fairness of the menu's store and of `UpdateInfo`, at the highest
  priority; strong fairness of agent and handler, as for the door.  A new store or
  request is never assumed to come.
- `traps`: weak fairness of the trap task, which waits only for its delay, and of
  the timer.  None for alarms, cards, uplink and network.

## 5. The proofs

All constants are arbitrary within the named assumptions of the modules
(`ConnectivityAssumption`, `AlarmsAssumption`, `ModbusAssumption`, `MqttAssumption`, `DoorAssumption`, `FirmwareAssumption`,
`PanelAssumption`, `UserTableAssumption`, `SettingsAssumption`, `GroupsAssumption`, `TrapAssumption`), which say no more than that
counters and periods are naturals, limits are positive, the alarms fit the 8-bit
ranks of the code, a setting belongs to one module, the number of a card has two
bytes at least, default values are in range and the values of an empty row or
EEPROM are none that is entered.  Nothing else is assumed, except where said.

**Connectivity** (`ConnectivityProofs`).  The safety properties speak of the shared
variables between two turns and are not inductive: they say nothing of the
states half way through a branch.  `IInv` adds that.  `SettledInv`, `DropInv` and
`WriteInv` list, for each rest `todo` of a branch, what the writes before it have
done to status, interface and command; `ModemInv` says for each program point of
the modem task what power, session and reported state are.  One case of
`SettledInv` is there for the start only: before the first order to dial the modem is
untouched.  `Inductive` shows `IInv` to be inductive, one lemma per actor (`WriteStep`,
`BranchStep`, `TickStep`, `ModemStep`, `WorldStep`); `TypeCorrect`, `ManagerAgrees` (`Agreement`) and
`ModemIsAsReported` (`ModemStateIsReal`) follow from it.  `Refinement` (`UplinkRefined`) maps every write of the
manager to a step of `Uplink` or a stutter, using `WriteInv` to know which; every other
action leaves both variables alone.

**ActiveAlarms** (`ActiveAlarmsProofs`).  `RankInv` is `RanksExact` with the types it needs; it is
inductive because each scanned alarm is one step (`RanksAlwaysExact`).  The lemmas `RaiseRanks` and
`ClearRanks` show the two in-place shifts to renumber without gap or double; they are
where cardinalities of the listed alarms are counted.  `TypeCorrect` needs it, since the page
number is bounded by the number of pages (`PagesBound`: the rounded-up quotient is
monotone).  `NothingIsHidden` (`NothingHidden`) is `ScanMissesNothing` and `DownFindsAlarms`.  The first uses the invariant that the
alarms already passed are listed exactly if their condition holds; the second is
arithmetic on the page number, from -1 to the last page.  `RanksAreAList` (`IsAlarmList`) shows `Raise` to be
`Push` and `Clear` to be `Remove` of `AlarmList`, under the mapping from a place to the alarm of that rank,
which is a function only because of `RanksExact`.  `DisplayIsExact` (`DisplayExact`) is about the lines of the page, which
the code draws by looking for each alarm at the line of its rank, and the list of
ranks by looking for each line at its alarm.  The two agree (`DrawnIsWanted`) since an
alarm that has no line on any page is never raised (`Undrawn`).

**Modbus** (`UserTaskProofs`), for all settings and values, any writers, and whichever modules
are fitted or answer late.  `SettingKept` says nothing of a setting on its way.  What the
steps keep is `BusInv`: a case cut by a delay is one of four (`StepInv`), an answer is
checked against the query of its step (`QueryInv`), and an answer that can confirm a
write is there only while the write of the setting in `changedVal` waits for it, and
then the module has that setting, unless its entry met a race (`WriteInv`).
`SettingsAreForwarded` (`SettingKept`) follows, for a late answer counts as a race; `RecordsAreOwn` (`RecordedFromOwner`) is the same
induction.  `NoMissWithoutReason` (`NoFalseMiss`) needs a second one: `PollInv` says that the bus and the
buffer are empty when a poll begins (`Silent`), so that what is there when it is
examined is the answer of the module asked (`Asked`), and `CountInv` that a count at the
limit has raised the alarm.  It assumes that modules answer in time (`Late = {}`: a late answer
is a reason for a miss) and that the limit is below the range of the counters (5 below
256 in the code).

**MqttClient** (`MqttClientProofs`), for queues of any size, any number of commands and bursts of any
length.  `ClientInv` says for each program point of the client task what the state is, who
holds a message and whether the connection is open; `TypeCorrect` and `ClientStaysConsistent` (`ClientConsistent`) follow.
`AtMostOnceInOrder` (`OnceInOrder`) counts the places of a command, which is a sum of cardinalities and not
inductive: that a command moved to a queue is not in it twice needs the order.  So
`OrderInv` is about sets.  From the broker to the handler, and from the handler to the
broker, what is further on its way was sent earlier (`Ordered`), so that the places are
disjoint (`Apart`); together with what is lost they are the commands sent (`Counted`); and in
each queue the numbers rise (`Queues`), so that none is there twice.  `OnePlace` counts at the end.

**DoorLock** (`UserTaskProofs`).  `TypeCorrect` shows in particular that the count never
wraps, although the timer decrements a value it has loaded before a card
replaced it.  `NotLockedEarly` (`KeepsOpen`) and `NotOpenLonger` (`OpenBounded`) come from two invariants on
ticks passed plus count remaining, `Lower` and `Upper`, one bound for each program
point of the callback.  `OpenDoorIsTimed` (`OpenIsTimed`) needs `AgentInv`: an agent that was not overtaken
knows `doorStatus`.  `OpenDoorIsLimited` (`OpenIsLimited`) joins the two.  Nothing is assumed about requests: a value other
than 0 and 1 is one of the exceptions in `LeftOpen`, and suspends `Upper` until the next card.

**FirmwareUpdate** (`FirmwareUpdateProofs`), for every block and image size, all files and
pieces of any length, assuming `~Overlap`: with a second download the properties
are false (section 6).  None of them is inductive.  `Inv` adds that one task runs
(`One`), that it is about the file in `firmwareInfo` (`Fetching`), and the loop invariant:
the flash holds the file below `flashAddr` (`Written`), the write buffer the file from
there on and otherwise 0xFF (`Buffered`), and `totalRead` is where the buffer ends.  The one
subtle part is `totalWrite`: equal to `flashAddr` until the block written when `totalRead` is the
announced size, and from then on never again equal to that size unless the
file is complete.  `Filled`, `FlushSums` and `LastSums` are the arithmetic of the buffer,
`WriteKeeps` says what a block may do to the information area (a block that begins in
it is blank or carries a file longer than the area), and there is one lemma
per step.  `TypeCorrect`, `KeyIsForImage` (`KeyMeansImage`) and `FlashIsAsReported` (`FlashAsReported`) follow.

**AccessPanel** (`AccessControlProofs`), for any number of users and cards of any length from two bytes on.
`SelectionFits` is inductive only with where Back leads: `previousIndex` is a row of the directory above
(`WayBack`, over the tables `SubMenu` and `Parent`, `EntryAbove`), and no row is open on a page without
rows or one still to be drawn (`Closed`); `ControlInv` joins them, and `SelectionAlwaysFits` follows.  For
`LearningIsForOpenRow` (`LearnsForOpenRow`) the flag is set exactly while a row is open (`Learning`).  `NumbersAreFramed` (`NumbersFramed`)
is about counting modulo the length of a number: `Phases` says where in its card the next
byte stands, given the bytes in the buffer and those lost, at each of the three
steps of the check, and `Framed` that the bytes in the buffer follow each other.  `Advance`
and `Remainders` are the arithmetic.

**UserTable** (`AccessControlProofs`), for numbers of any length, the code's eight bytes
included.  `RowIsAsEntered` speaks of a row at rest.  `RowInv` says what a store has done so far:
while a copy is undisturbed only one task stores (`OneStores`), and the bytes before
the one it is at are those of its number (`MemoryInv`, `EepromInv`), for the agent in each of the three
places it copies through.  `RowHoldsWhatWasEntered` follows when the last byte is written
(`RowIsAll`).  `StoresEnd` is liveness and stays with TLC.

**Settings** (`SettingsProofs`), for all values in and out of range.  `Inv` joins what the start has
read and written at each of its steps (`BootInv`), what an EEPROM with and without its
flag holds (`FlagInv`), that nothing blank is left when the tasks run (`RunInv`), and
that an unlocked transfer carries the value in memory as long as nothing cut it
(`TransferInv`).  `RangeStep` adds that a start leaves nothing in force that is out of range, and
after it only a store without a check does, which `unchecked` records.  `MemoryIsRight` (`MemoryRight`) is these
together; `StartsLoseNothing` (`SettingsSurvive`) is an action property that
needs `FlagInv`: an EEPROM that has run has its flag, and `BootInv`: the start changes only
what is out of range.  `AddressStaysWhole` (`AddressWhole`) adds `AddressInv`: between two stores the words of the
address agree; within one of the menu its first word is stored, the rest still as
entered, and the handler does not have the lock, unless `mixed` says so.

**TrapSender** (`TrapSenderProofs`), for every number of alarms, users and cards.  `ChangesReported` compares what
the server was told with the alarm of now; alarms come and go, so it is not
inductive.  What the steps keep is `ToldOld`: the server was told the value that the task
takes for handled, unless the alarm is in the trap under way or marked as missed.
An alarm with another value is then pending.  `ReadingInv` and `PacketInv` follow a trap through
the program points, and `MarkInv` counts cards modulo two, which is all the mark in the MIB
tells.  `CardInv` does the same for user and number of a card (`TrapTellsOneCard`).

**Model-checked only.**  Every invariant, action property and refinement that a passing run checks
is proved.  What stays with TLC is liveness, which is beyond the prover: `Settles`, the two
`NeverStuck`, `UpdateEnds`, `LocksUnlessLeftOpen` (the other half of `LocksInTime`, `KeepsOpen`, is `NotLockedEarly`), `StoresEnd` and
`EventuallyReported`.

## 6. Findings

*Two downloads at once* (run `firmware_overlap`).  `FTP_StartFirmwareUpdate` does not look for a running
download.  The two share file information, write buffer and flash; a task
that ends sets the announced size to 0, which a second one that wrote nothing
takes for complete, and writes the key over an erased image.

The following are not runs of their own.  Each is an exact exception in a
property that holds, and the run shows that there is no other.

- *A door left open* (`OpenIsLimited`).  The SNMP agent stores `doorStatus` = 0 and moves the relay afterwards
  (`private_mib_impl.c` 974).  A refused card, or the timer, in between sets `doorStatus` to 1; then the agent
  opens the door, and the timer never looks at it again.
- *A request other than 0 and 1* (`OpenIsLimited`, `LocksUnlessLeftOpen`).  The setter stores the low byte of whatever
  integer it is sent (`private_mib_impl.c` 967) and moves the relay for 1 and 0 only.  At an
  open door a 2 moves no relay and stops the timer, which counts only while
  `doorStatus` is 0: the door stays open until the next card or request.  In this and the case
  above the code contradicts the comment "check if door is not locked then lock the
  door after delay time" (`user_task.c` 579).
- *Answers get lost* (`OnceInOrder` counts them).  The protocol description (line 6) says the
  device responds to every configure and control packet.  Answers share the
  queue of the events: `mqttPublishMsg` drops one after 100 ticks of a full queue, and
  `mqttClientTask` drops one whose publish fails.
- *An air conditioner that never answers* (`NoFalseMiss`).  The door module's answer is waited for and
  not examined (`user_task.c` 335-350), so that it stays in the buffer, and the interrupt drops
  the answer of the air conditioner that follows: with a door module on the bus that
  answers, every poll of the air conditioner counts as missed.
- *An echo of another write* (`SettingKept`).  An answer to a write is checked for module and
  length only: a late one of an earlier write acknowledges the next, and the
  later setting is lost if the module did not get it.
- *Lost settings* (`SettingKept`), *one false miss* after a clock write (`NoFalseMiss`), *records filled from a
  foreign answer* (`RecordedFromOwner`), *data in the information area* after a file longer than
  announced (`FlashAsReported`), *a blank page of alarms* until the next key (`NothingHidden` says that
  a key helps).
- *A card reader that stays out of step* (`NumbersFramed`).  A byte lost while a number waits, or
  between the two stores of the check, shifts all numbers after it: nothing looks
  for the beginning of a card.
- *A door that takes no card* (`LearnsForOpenRow`).  ESC on the page of users with a row open leaves
  `learnUID` set (`menu.c` 2363-2371): cards are learned, not answered, until the page is
  opened again and a row stored.
- *Mixed card numbers* (`RowIsAsEntered`).  The agent copies a new number out of the entry of the MIB
  that `UpdateInfo` refreshes from memory; when that comes in between, old bytes are
  stored for new ones.
- *Values out of range* (`MemoryInRange`).  The agent's setters and the remote commands check no range
  (`private_mib_impl.c` 834 and 983, `mqtt_json_parse.c` 130 and 182).  Such a value is in force and in the EEPROM,
  until the next start finds it there and replaces it by the default without a word.
- *The wrong element* (`MemoryIsStored`).  `mqtt_json_parse.c` 133 writes, after setting a threshold of a battery, the
  element behind the one it has set: the new value is gone after the next start.
- *Unlocked transfers* (`MemoryIsStored`).  The agent and one command write to the EEPROM without the
  lock; a transfer of a task above in between can cost the word.
- *The flag before the names* (`KnownAfterStart`).  A power failure on the first start between the two
  leaves a device that takes the rest of the EEPROM for initialised.
- *A mixed address* (`AddressWhole`).  The menu stores an address word by word; when the operator
  confirms while a remote command has the lock, it waits after its first word.
- *A change that its own trap does not tell* (`ChangesReported`).  `SnmpSendTrapType2` stores the alarm's value of then,
  not the one it has sent.  For the plain alarms the periodic trap makes it good
  (`EventuallyReported`); the access alarm is not in it.  The user and number in the trap of a card can
  be of two cards (`TrapIsOneCard`).

Seen while reading, and outside what is modelled: the default of one of the
generator's times (`_GEN_MAX_RUNTIME`, 4) is below its own lower bound (5); the trap of the access alarm
has the specific code (9) of another trap.

## 7. What is not modelled

- *Remote commands and SNMP setters* beyond one for each way to store a value: the
  others differ in the word, its bounds and its place only.  The remote control commands (door,
  alarm, fan, air conditioner) only print what they received
  (`mqtt_json_parse.c` 393-466).
- *Values of the menu pages*: what up and down do to the value of an open row, but for
  the switches that hide rows.  The air conditioner's page keeps its two
  temperatures apart (`menu.c` 2376-2383); that is left out with them.
- *Input filter and averaging*: counters over samples with one writer each; planned.
- *The bytes of a Modbus frame* (received as a whole), the text of messages, AT commands and
  FTP dialogue: one step each with the outcomes they can have.
- *The five periodic traps of measured values*: they keep no state.
- The AM2320 protocol, the LCD driver, drawing other than the page of alarms,
  serial driver, pictures and fonts, register settings: arithmetic on inputs or pure
  I/O without a state that others depend on.
- Start-up (`main.c`, `app_init.c`, `app_ethernet.c`): runs once before the tasks; its result is
  the `Init` of the modules.
- Vendored code, except as environment: the library's connection and callback in
  `MqttClient`, flash and FTP server in `FirmwareUpdate`.  It is more than nine tenths of
  the repository's lines, none of it written for this device.

## 8. The plan

Done: the uplink and everything that hangs on it (MQTT, download, traps), the RS-485
bus, the alarms, the door, the reader with the menu, the table of users and the
settings; proofs of every safety property of each.

Next, in this order:

1. `Receiver`: the byte-wise interrupt of `rs485.c`, shown to leave only what `Modbus` allows
   (refinement of `RS4851_UART_IRQHandler`), with the bound on its write index.
2. The input filter of `user_task.c`.
3. The safety part of what the liveness properties rest on: which step leads on from
   each state that waits.
