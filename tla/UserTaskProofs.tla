--------------------------- MODULE UserTaskProofs ---------------------------
(***************************************************************************)
(* Proofs about the two components that the tick and the task of           *)
(* user_task.c run: DoorLock, for every time that a card opens the door    *)
(* for, and Modbus, for all settings, writers and modules on the bus.      *)
(***************************************************************************)
EXTENDS DoorLock, Modbus, TLAPS

(***************************************************************************)
(* DoorLock.  Nothing is assumed about what a manager asks for.            *)
(***************************************************************************)

OpenByCard == relay = "open" /\ opener = "card"

\* What the agent knows about doorStatus while nobody overtakes it.
AgentInv ==
  agentPc # "idle" /\ ~overtaken
    => /\ doorStatus = agentValue
       /\ agentPc = "opens" => agentValue # 1
       /\ agentPc = "open" => agentValue = 0

\* The door is open for the count that remains, and no longer ...
CountsDown ==
  /\ timerPc \in {"idle", "count", "decrement"} => doorStatus = 0
  /\ timerPc = "idle"      => ticks + doorOpenTimeCount <= DOOR_OPEN_TIME
  /\ timerPc = "count"     => ticks + doorOpenTimeCount <= DOOR_OPEN_TIME + 1
  /\ timerPc = "decrement" => /\ ticks + doorOpenTimeCount <= DOOR_OPEN_TIME + 1
                              /\ ticks + timerCount <= DOOR_OPEN_TIME + 1
  /\ timerPc \in {"status", "relay"} => ticks <= DOOR_OPEN_TIME + 1

\* ... unless the agent is about to lock it (or has suspended the count).
Locking ==
  /\ timerPc = "idle" /\ doorStatus = 1
  /\ agentPc \in {"locks", "lock"}
  /\ agentPc = "locks" => agentValue = 1

Upper == OpenByCard /\ ~suspended => CountsDown \/ Locking

\* The count that remains after a card that no callback got in the way of is
\* not less than what is missing.
Lower ==
  OpenByCard /\ clean =>
    /\ timerPc = "idle"      => ticks + doorOpenTimeCount >= DOOR_OPEN_TIME
    /\ timerPc = "count"     => ticks + doorOpenTimeCount >= DOOR_OPEN_TIME + 1
    /\ timerPc = "decrement" => /\ ticks + doorOpenTimeCount >= DOOR_OPEN_TIME + 1
                                /\ ticks + timerCount >= DOOR_OPEN_TIME + 1
    /\ timerPc \in {"status", "relay"} => ticks >= DOOR_OPEN_TIME + 1
-----------------------------------------------------------------------------
\* The types hold initially and every step keeps them, whatever the agent is
\* asked for.
LEMMA TypeInit == Init => TypeOK
<1> SUFFICES ASSUME Init PROVE TypeOK
  OBVIOUS
<1>1. DOOR_OPEN_TIME \in Nat
  BY DoorAssumption
<1>2. 0 \in 0..DOOR_OPEN_TIME /\ 0 \in 0..TickCap /\ 0 \in 0..(Byte - 1)
  BY <1>1 DEF TickCap, Byte
<1> QED BY <1>2 DEF Init, TypeOK

LEMMA TypeStep == TypeOK /\ [Next]_vars => TypeOK'
<1> SUFFICES ASSUME TypeOK, [Next]_vars PROVE TypeOK'
  OBVIOUS
<1> USE DoorAssumption DEF TypeOK, Byte
<1>1. CASE Grant
  <2>1. clean' \in BOOLEAN /\ overtaken' \in BOOLEAN /\ suspended' \in BOOLEAN
    BY <1>1, Zenon DEF Grant, Overtake
  <2> QED BY <1>1, <2>1 DEF Grant, timer, agent, TickCap
<1>2. CASE Deny
  BY <1>2 DEF Deny, Overtake, timer, agent, TickCap
<1>3. CASE Tick
  BY <1>3 DEF Tick, door, agent, TickCap
<1>4. CASE TickCount
  BY <1>4 DEF TickCount, door, agent, history, TickCap
<1>5. CASE TickDecrement
  <2>1. PICK n \in {timerCount, doorOpenTimeCount} : doorOpenTimeCount' = n - 1
    BY <1>5 DEF TickDecrement
  <2>2. n \in 1..DOOR_OPEN_TIME
    BY <1>5 DEF TickDecrement
  <2>3. doorOpenTimeCount' \in 0..DOOR_OPEN_TIME
    BY <2>1, <2>2
  <2> QED BY <1>5, <2>3 DEF TickDecrement, agent, history, TickCap
<1>6. CASE TickStatus
  BY <1>6 DEF TickStatus, Overtake, agent, TickCap
<1>7. CASE TickRelay
  BY <1>7 DEF TickRelay, Overtake, agent, TickCap
<1>8. CASE SetDoorStatus
  <2>1. PICK v \in Requests : agentValue' = v % Byte
    BY <1>8 DEF SetDoorStatus
  <2>2. v \in Int
    BY DoorAssumption
  <2>3. agentValue' \in 0..(Byte - 1) /\ doorStatus' \in 0..(Byte - 1)
    BY <1>8, <2>1, <2>2 DEF SetDoorStatus
  <2>4. suspended' \in BOOLEAN
    BY <1>8, Zenon DEF SetDoorStatus
  <2> QED BY <1>8, <2>3, <2>4 DEF SetDoorStatus, timer, TickCap
<1>9. CASE SetLocks
  BY <1>9 DEF SetLocks, door, timer, history, TickCap
<1>10. CASE SetOpens
  BY <1>10 DEF SetOpens, door, timer, history, TickCap
<1>11. CASE SetLock
  BY <1>11 DEF SetLock, timer, history, TickCap
<1>12. CASE SetOpen
  BY <1>12 DEF SetOpen, timer, TickCap
<1>13. CASE UNCHANGED vars
  BY <1>13 DEF vars, door, timer, agent, history, TickCap
<1> QED
  BY <1>1, <1>2, <1>3, <1>4, <1>5, <1>6, <1>7, <1>8, <1>9, <1>10, <1>11, <1>12,
     <1>13
  DEF Next, UpdateInfo, SwTimerCallback, privateMibSetAccessoriesGroup

\* All variables keep their types and the count stays in its range, for every
\* DOOR_OPEN_TIME and every request.
THEOREM TypeCorrect == Spec => []TypeOK
BY TypeInit, TypeStep, PTL DEF Spec
-----------------------------------------------------------------------------
\* Every step keeps the lower bound on what remains.
LEMMA LowerStep == TypeOK /\ Lower /\ [Next]_vars => Lower'
<1> SUFFICES ASSUME TypeOK, Lower, [Next]_vars PROVE Lower'
  OBVIOUS
<1> USE DoorAssumption DEF TypeOK, Lower, OpenByCard, TickCap
<1>1. CASE Grant
  <2>1. clean' => timerPc = "idle"
    BY <1>1, Zenon DEF Grant
  <2>2. timerPc' = timerPc /\ ticks' = 0 /\ doorOpenTimeCount' = DOOR_OPEN_TIME
    BY <1>1 DEF Grant, timer
  <2>3. clean' => timerPc' = "idle" /\ ticks' + doorOpenTimeCount' >= DOOR_OPEN_TIME
    BY <2>1, <2>2
  <2> QED BY <2>3
<1>2. CASE Deny
  BY <1>2 DEF Deny
<1>3. CASE Tick
  BY <1>3 DEF Tick, door, agent
<1>4. CASE TickCount
  BY <1>4 DEF TickCount, door, agent, history
<1>5. CASE TickDecrement
  <2>1. PICK n \in {timerCount, doorOpenTimeCount} : doorOpenTimeCount' = n - 1
    BY <1>5 DEF TickDecrement
  <2>2. OpenByCard' /\ clean' => ticks + n >= DOOR_OPEN_TIME + 1
    BY <1>5, <2>1 DEF TickDecrement, history
  <2>3. OpenByCard' /\ clean' => ticks' + doorOpenTimeCount' >= DOOR_OPEN_TIME
    BY <1>5, <2>1, <2>2 DEF TickDecrement, history
  <2>4. timerPc' = "idle"
    BY <1>5 DEF TickDecrement
  <2> QED BY <2>3, <2>4
<1>6. CASE TickStatus
  BY <1>6 DEF TickStatus, agent
<1>7. CASE TickRelay
  BY <1>7 DEF TickRelay
<1>8. CASE SetDoorStatus
  BY <1>8 DEF SetDoorStatus, timer
<1>9. CASE SetLocks
  BY <1>9 DEF SetLocks, door, timer, history
<1>10. CASE SetOpens
  BY <1>10 DEF SetOpens, door, timer, history
<1>11. CASE SetLock
  BY <1>11 DEF SetLock
<1>12. CASE SetOpen
  BY <1>12 DEF SetOpen
<1>13. CASE UNCHANGED vars
  BY <1>13 DEF vars, door, timer, agent, history
<1> QED
  BY <1>1, <1>2, <1>3, <1>4, <1>5, <1>6, <1>7, <1>8, <1>9, <1>10, <1>11, <1>12,
     <1>13
  DEF Next, UpdateInfo, SwTimerCallback, privateMibSetAccessoriesGroup

\* The timer never locks a door early that a card has opened undisturbed,
\* whatever the agent is asked for meanwhile.
THEOREM NotLockedEarly == Spec => KeepsOpen
<1> DEFINE A == relay = "open" /\ relay' = "locked" /\ timerPc = "relay"
                  /\ opener = "card" /\ clean
                => ticks > DOOR_OPEN_TIME
<1>1. Init => Lower
  BY DEF Init, Lower, OpenByCard
<1>2. TypeOK /\ Lower => A
  BY DoorAssumption DEF TypeOK, Lower, OpenByCard, TickCap
<1> QED BY <1>1, <1>2, TypeInit, TypeStep, LowerStep, PTL DEF Spec, KeepsOpen
-----------------------------------------------------------------------------
\* Every step keeps what the agent knows.
LEMMA AgentStep == TypeOK /\ AgentInv /\ [Next]_vars => AgentInv'
<1> SUFFICES ASSUME TypeOK, AgentInv, [Next]_vars PROVE AgentInv'
  OBVIOUS
<1> USE DEF TypeOK, AgentInv
<1>1. CASE UpdateInfo
  BY <1>1 DEF UpdateInfo, Grant, Deny, Overtake, agent
<1>2. CASE Tick \/ TickCount \/ TickDecrement
  BY <1>2 DEF Tick, TickCount, TickDecrement, door, agent, history
<1>3. CASE TickStatus \/ TickRelay
  BY <1>3 DEF TickStatus, TickRelay, Overtake, agent
<1>4. CASE SetDoorStatus
  BY <1>4 DEF SetDoorStatus
<1>5. CASE SetLocks
  BY <1>5 DEF SetLocks, Compared, door, history
<1>6. CASE SetOpens
  BY <1>6 DEF SetOpens, Compared, door, history
<1>7. CASE SetLock \/ SetOpen
  BY <1>7 DEF SetLock, SetOpen
<1>8. CASE UNCHANGED vars
  BY <1>8 DEF vars, door, agent, history
<1> QED
  BY <1>1, <1>2, <1>3, <1>4, <1>5, <1>6, <1>7, <1>8
  DEF Next, SwTimerCallback, privateMibSetAccessoriesGroup

\* Every step keeps an open door one that will be locked.
LEMMA TimedStep ==
  TypeOK /\ AgentInv /\ OpenIsTimed /\ [Next]_vars => OpenIsTimed'
<1> SUFFICES ASSUME TypeOK, AgentInv, OpenIsTimed, [Next]_vars
             PROVE  OpenIsTimed'
  OBVIOUS
<1> USE DEF TypeOK, AgentInv, OpenIsTimed, LeftOpen
<1>1. CASE UpdateInfo
  BY <1>1 DEF UpdateInfo, Grant, Deny
<1>2. CASE Tick \/ TickCount \/ TickDecrement
  BY <1>2 DEF Tick, TickCount, TickDecrement, door, agent, history
<1>3. CASE TickStatus \/ TickRelay
  BY <1>3 DEF TickStatus, TickRelay
<1>4. CASE SetDoorStatus
  BY <1>4 DEF SetDoorStatus
<1>5. CASE SetLocks
  BY <1>5 DEF SetLocks, door, timer, history
<1>6. CASE SetOpens
  BY <1>6 DEF SetOpens, Compared, door, timer, history
<1>7. CASE SetLock \/ SetOpen
  BY <1>7 DEF SetLock, SetOpen, timer
<1>8. CASE UNCHANGED vars
  BY <1>8 DEF vars, door, timer, agent, history
<1> QED
  BY <1>1, <1>2, <1>3, <1>4, <1>5, <1>6, <1>7, <1>8
  DEF Next, SwTimerCallback, privateMibSetAccessoriesGroup

\* The only ways to leave the door open with nobody to lock it are to overtake a
\* request of the agent and to send it a value other than 0 and 1.
THEOREM OpenDoorIsTimed ==
  Spec => []OpenIsTimed
<1>1. Init => AgentInv /\ OpenIsTimed
  BY DEF Init, AgentInv, OpenIsTimed, LeftOpen
<1>2. TypeOK /\ AgentInv /\ [Next]_vars => AgentInv'
  BY AgentStep
<1>3. TypeOK /\ AgentInv /\ OpenIsTimed /\ [Next]_vars => OpenIsTimed'
  BY TimedStep
<1> QED BY <1>1, <1>2, <1>3, TypeInit, TypeStep, PTL DEF Spec
-----------------------------------------------------------------------------
\* Every step keeps the upper bound on what remains.
LEMMA UpperStep == TypeOK /\ Upper /\ [Next]_vars => Upper'
<1> SUFFICES ASSUME TypeOK, Upper, [Next]_vars PROVE Upper'
  OBVIOUS
<1> USE DoorAssumption DEF TypeOK, Upper, OpenByCard, CountsDown, Locking, TickCap
<1>1. CASE Grant
  BY <1>1 DEF Grant, timer, agent
<1>2. CASE Deny
  BY <1>2 DEF Deny
<1>3. CASE Tick
  BY <1>3 DEF Tick, door, agent
<1>4. CASE TickCount
  BY <1>4 DEF TickCount, door, agent, history
<1>5. CASE TickDecrement
  BY <1>5 DEF TickDecrement, agent, history
<1>6. CASE TickStatus
  BY <1>6 DEF TickStatus, agent
<1>7. CASE TickRelay
  BY <1>7 DEF TickRelay
<1>8. CASE SetDoorStatus
  BY <1>8 DEF SetDoorStatus, timer
<1>9. CASE SetLocks
  BY <1>9 DEF SetLocks, Compared, door, timer, history
<1>10. CASE SetOpens
  BY <1>10 DEF SetOpens, Compared, door, timer, history
<1>11. CASE SetLock
  BY <1>11 DEF SetLock
<1>12. CASE SetOpen
  BY <1>12 DEF SetOpen
<1>13. CASE UNCHANGED vars
  BY <1>13 DEF vars, door, timer, agent, history
<1> QED
  BY <1>1, <1>2, <1>3, <1>4, <1>5, <1>6, <1>7, <1>8, <1>9, <1>10, <1>11, <1>12,
     <1>13
  DEF Next, UpdateInfo, SwTimerCallback, privateMibSetAccessoriesGroup

\* A door opened by a card is open for DOOR_OPEN_TIME ticks at the most, and
\* the one that locks it, unless such a value suspends the count.
THEOREM NotOpenLonger ==
  Spec => []OpenBounded
<1>1. Init => Upper
  BY DEF Init, Upper, OpenByCard
<1>2. TypeOK /\ Upper /\ [Next]_vars => Upper'
  BY UpperStep
<1>3. TypeOK /\ Upper => OpenBounded
  BY DoorAssumption
  DEF TypeOK, Upper, OpenByCard, CountsDown, Locking, OpenBounded, TickCap
<1> QED BY <1>1, <1>2, <1>3, TypeInit, TypeStep, PTL DEF Spec

\* Both together: an open door is going to be locked, and in time, but
\* for the listed exceptions, whatever a manager asks for.
THEOREM OpenDoorIsLimited ==
  Spec => []OpenIsLimited
BY OpenDoorIsTimed, NotOpenLonger, PTL DEF OpenIsLimited

-----------------------------------------------------------------------------
(***************************************************************************)
(* Modbus.  StepInv says what each runningStep knows of the buffer,        *)
(* QueryInv what can be in the air for the module asked last, and WriteInv *)
(* that a setting differs from its module's copy only while its write is   *)
(* under way or its entry met a race.  For the alarms, PollInv follows a   *)
(* poll from its query to the counter, and CountInv bounds the counters.   *)
(***************************************************************************)

\* The frames, and the registers polled from each module.
LEMMA FrameFacts ==
  /\ Count["ats"] = 33 /\ Count["door"] = 5 /\ Count["aircon"] = 12
  /\ \A s \in Slaves : Count[s] \in Nat /\ ReadAnswer(s) \in Frames
  /\ \A s \in Slaves : Echo(s, "write") \in Frames /\ Echo(s, "time") \in Frames
  /\ \A f \in Frames :
       f.slave \in Slaves /\ f.kind \in {"read", "write", "time"}
  /\ \A f \in Frames : f.kind = "read" => f.count = Count[f.slave]
  /\ Damaged.kind = "bad" /\ Nothing.kind = "none"
  /\ Damaged.slave = "none" /\ Nothing.slave = "none"
<1>1. Count["ats"] = 33 /\ Count["door"] = 5 /\ Count["aircon"] = 12
  BY DEF Count, Slaves
<1>2. \A s \in Slaves : Count[s] \in Nat /\ ReadAnswer(s) \in Frames
  BY <1>1 DEF Slaves, Frames
<1>3. \A s \in Slaves : Echo(s, "write") \in Frames /\ Echo(s, "time") \in Frames
  BY DEF Frames
<1>4. ASSUME NEW f \in Frames
      PROVE  /\ f.slave \in Slaves /\ f.kind \in {"read", "write", "time"}
             /\ f.kind = "read" => f.count = Count[f.slave]
  <2>1. CASE \E s \in Slaves : f = ReadAnswer(s)
    BY <2>1 DEF ReadAnswer
  <2>2. CASE \E s \in Slaves, kind \in {"write", "time"} : f = Echo(s, kind)
    BY <2>2 DEF Echo
  <2> QED BY <2>1, <2>2 DEF Frames
<1>5. /\ Damaged.kind = "bad" /\ Nothing.kind = "none"
      /\ Damaged.slave = "none" /\ Nothing.slave = "none"
  BY DEF Damaged, Nothing
<1> QED BY <1>1, <1>2, <1>3, <1>4, <1>5

\* A setting belongs to one of the modules that are polled.
LEMMA OwnerPolled == \A k : Owner(k) \in Polled /\ Owner(k) \in Slaves
BY DEF Owner, Polled, Slaves

LEMMA BusTypeInit == BusInit => BusTypeOK
<1> SUFFICES ASSUME BusInit PROVE BusTypeOK
  OBVIOUS
<1>1. "none" \notin Settings /\ CounterMod \in Nat \ {0}
  BY ModbusAssumption
<1>2. /\ alive \subseteq Fitted /\ air = {}
      /\ value \in [Settings -> Values] /\ reg = value
      /\ changedVal = "none" /\ entering = [w \in Writers |-> Idle]
      /\ runningStep = "WAIT_MODE" /\ u8MosbusEn = 0 /\ u8BuffRead = Nothing
      /\ u8SlaveID = "none" /\ numberReg = 0
      /\ noRespond = [s \in Polled |-> 0] /\ recorded = [s \in Polled |-> "none"]
      /\ raced = {}
  BY DEF BusInit
<1>3. error \in [Polled -> BOOLEAN] /\ inDelay \in BOOLEAN
      /\ answered \in BOOLEAN /\ afterClock \in BOOLEAN
  BY DEF BusInit
<1>4. noRespond \in [Polled -> 0..(CounterMod - 1)]
  BY <1>1, <1>2
<1>5. entering \in [Writers -> Entries]
  BY <1>2 DEF Entries
<1> QED BY <1>2, <1>3, <1>4, <1>5 DEF BusTypeOK, Steps

\* What the check of the buffer leaves.
LEMMA CheckTypes ==
  ASSUME BusTypeOK, Check
  PROVE  /\ u8MosbusEn' = 0 /\ u8BuffRead' = Nothing /\ afterClock' = FALSE
         /\ recorded' \in [Polled -> Slaves \union {"none"}]
<1>1. u8BuffRead.slave \in Slaves \union {"none"}
  BY FrameFacts DEF BusTypeOK
<1>2. recorded' \in [Polled -> Slaves \union {"none"}]
  BY <1>1 DEF BusTypeOK, Check
<1> QED BY <1>2 DEF Check

\* What a query leaves.
LEMMA SendTypes ==
  ASSUME BusTypeOK, NEW s \in Slaves, NEW f \in Frames, Send(s, f)
  PROVE  u8SlaveID' \in Slaves \union {"none"} /\ air' \subseteq Frames /\ answered' \in BOOLEAN
<1>1. u8SlaveID' \in Slaves \union {"none"} /\ air' \subseteq Frames
  BY DEF BusTypeOK, Send
<1> QED BY <1>1 DEF Send

LEMMA BusTypeTask == BusTypeOK /\ rs485_task => BusTypeOK'
<1> SUFFICES ASSUME BusTypeOK, rs485_task PROVE BusTypeOK'
  OBVIOUS
<1>1. CASE ForwardSetting
  <2>1. changedVal \in Settings /\ Write_Single_Reg(changedVal)
    BY <1>1 DEF ForwardSetting
  <2>2. u8SlaveID' \in Slaves \union {"none"} /\ air' \subseteq Frames /\ answered' \in BOOLEAN
    BY <2>1, FrameFacts, OwnerPolled, SendTypes DEF Write_Single_Reg
  <2>3. numberReg' \in Nat /\ reg' \in [Settings -> Values]
    BY <2>1, ModbusAssumption DEF Write_Single_Reg, BusTypeOK
  <2> QED BY <1>1, <2>2, <2>3 DEF ForwardSetting, BusTypeOK, Steps, entry, polling
<1>2. CASE ForwardClock
  <2>1. Write_Time_Reg("ats") /\ "ats" \in Slaves
    BY <1>2 DEF ForwardClock, Slaves
  <2>2. u8SlaveID' \in Slaves \union {"none"} /\ air' \subseteq Frames /\ answered' \in BOOLEAN
    BY <2>1, FrameFacts, SendTypes DEF Write_Time_Reg
  <2> QED BY <1>2, <2>1, <2>2 DEF ForwardClock, Write_Time_Reg, BusTypeOK, Steps, entry, polling
<1>3. ASSUME NEW s \in Slaves, NEW from, NEW to \in Steps, Poll(s, from, to) PROVE BusTypeOK'
  <2>1. Read_Holding_Regs_Query(s)
    BY <1>3 DEF Poll
  <2>2. u8SlaveID' \in Slaves \union {"none"} /\ air' \subseteq Frames /\ answered' \in BOOLEAN
    BY <2>1, FrameFacts, SendTypes DEF Read_Holding_Regs_Query
  <2>3. numberReg' \in Nat /\ reg' = reg
    BY <2>1, FrameFacts DEF Read_Holding_Regs_Query
  <2> QED BY <1>3, <2>2, <2>3 DEF Poll, BusTypeOK, entry, polling
<1>4. CASE READ_ATS_STATUS \/ READ_DOOR \/ READ_AIR_COND
  BY <1>3, <1>4 DEF READ_ATS_STATUS, READ_DOOR, READ_AIR_COND, Slaves, Steps
<1>5. ASSUME NEW s \in Polled, NEW from, NEW to \in Steps, Examine(s, from, to) PROVE BusTypeOK'
  <2>1. noRespond' \in [Polled -> 0..(CounterMod - 1)]
    <3>1. CounterMod \in Nat /\ CounterMod > 0
      BY ModbusAssumption
    <3>2. \A n \in Nat : n % CounterMod \in 0..(CounterMod - 1)
      BY <3>1
    <3>3. noRespond[s] + 1 \in Nat
      BY <1>5, <3>1 DEF BusTypeOK
    <3> QED BY <1>5, <3>1, <3>2, <3>3 DEF Examine, CountPoll, BusTypeOK
  <2>2. error' \in [Polled -> BOOLEAN]
    <3>1. CASE Accepted
      BY <1>5, <3>1 DEF Examine, CountPoll, BusTypeOK
    <3>2. CASE ~Accepted
      <4> DEFINE n == (noRespond[s] + 1) % CounterMod
      <4>1. error' = [error EXCEPT ![s] = @ \/ n >= Limit]
        BY <1>5, <3>2 DEF Examine, CountPoll
      <4> DEFINE b == error[s] \/ n >= Limit
      <4>2. b \in BOOLEAN /\ error \in [Polled -> BOOLEAN]
        BY DEF BusTypeOK
      <4>3. error' = [error EXCEPT ![s] = b]
        BY <4>1, Zenon
      <4> HIDE DEF b
      <4> QED BY <4>2, <4>3
    <3> QED BY <3>1, <3>2
  <2>3. Check
    BY <1>5 DEF Examine
  <2>4. /\ u8MosbusEn' \in 0..2 /\ u8BuffRead' \in Frames \union {Damaged, Nothing}
        /\ afterClock' \in BOOLEAN /\ recorded' \in [Polled -> Slaves \union {"none"}]
    BY <2>3, CheckTypes
  <2> QED BY <1>5, <2>1, <2>2, <2>4 DEF Examine, BusTypeOK, bus, entry
<1>6. CASE WAIT_ATS_RESPOND \/ WAIT_AIR_COND_RESPOND
  BY <1>5, <1>6 DEF WAIT_ATS_RESPOND, WAIT_AIR_COND_RESPOND, Polled, Steps
<1>7. CASE WAIT_DOOR_RESPOND \/ EnterDelay
  BY <1>7 DEF WAIT_DOOR_RESPOND, EnterDelay, BusTypeOK, Steps, bus, entry, polling
<1>8. CASE EndOfWait
  BY <1>8 DEF EndOfWait, AfterDelay, BusTypeOK, Steps, entry, polling
<1>9. CASE EndOfWrite
  <2>1. Check /\ AfterDelay("WAIT_WRITE", "READ_ATS") /\ UNCHANGED <<air, reg, u8SlaveID, numberReg, answered>>
    BY <1>9 DEF EndOfWrite
  <2>2. changedVal' \in Settings \union {"none", "clock"} /\ raced' \subseteq Settings
    BY <1>9 DEF EndOfWrite, BusTypeOK
  <2>3. /\ UNCHANGED <<alive, entry, polling>> /\ runningStep' \in Steps /\ inDelay' \in BOOLEAN
        /\ u8MosbusEn' = 0 /\ u8BuffRead' = Nothing /\ afterClock' \in BOOLEAN
    BY <2>1, CheckTypes DEF AfterDelay, Steps
  <2>4. recorded' \in [Polled -> Slaves \union {"none"}]
    BY <2>1, CheckTypes
  <2> QED BY <2>1, <2>2, <2>3, <2>4 DEF BusTypeOK, entry, polling
<1>10. CASE EndOfTimeAts
  <2>1. Write_Time_Reg("aircon") /\ "aircon" \in Slaves
    BY <1>10 DEF EndOfTimeAts, Slaves
  <2>2. u8SlaveID' \in Slaves \union {"none"} /\ air' \subseteq Frames /\ answered' \in BOOLEAN
    BY <2>1, FrameFacts, SendTypes DEF Write_Time_Reg
  <2> QED BY <1>10, <2>1, <2>2 DEF EndOfTimeAts, AfterDelay, Write_Time_Reg, BusTypeOK, Steps, entry, polling
<1> QED BY <1>1, <1>2, <1>4, <1>6, <1>7, <1>8, <1>9, <1>10 DEF rs485_task

\* What arrives: the frame, or what is left of it.
LEMMA ArrivalTypes ==
  ASSUME BusTypeOK, NEW f \in Frames, NEW en \in 0..2, Receive(en, f) \/ Receive(en, Damaged)
  PROVE  u8MosbusEn' \in 0..2 /\ u8BuffRead' \in Frames \union {Damaged, Nothing}
BY DEF Receive

LEMMA BusTypeRest ==
  BusTypeOK /\ (RS4851_UART_IRQHandler \/ Damage \/ Fail \/ EnterSetting) => BusTypeOK'
<1> SUFFICES ASSUME BusTypeOK, RS4851_UART_IRQHandler \/ Damage \/ Fail \/ EnterSetting
             PROVE  BusTypeOK'
  OBVIOUS
<1>1. CASE RS4851_UART_IRQHandler
  <2>1. PICK f \in air :
          /\ air' = air \ {f}
          /\ answered' = (answered \/ f.slave = u8SlaveID)
          /\ \/ u8MosbusEn = 2 /\ UNCHANGED <<u8MosbusEn, u8BuffRead>>
             \/ \E en \in 0..2 : Receive(en, f) \/ Receive(en, Damaged)
          /\ UNCHANGED <<alive, reg, changedVal, entry, runningStep, u8SlaveID,
                         numberReg, polling, inDelay, recorded, afterClock, raced>>
    BY <1>1 DEF RS4851_UART_IRQHandler
  <2>2. f \in Frames
    BY DEF BusTypeOK
  <2>3. u8MosbusEn' \in 0..2 /\ u8BuffRead' \in Frames \union {Damaged, Nothing}
    BY <2>1, <2>2, ArrivalTypes DEF BusTypeOK
  <2>4. answered' \in BOOLEAN
    BY <2>1
  <2> QED BY <2>1, <2>3, <2>4 DEF BusTypeOK, entry, polling
<1>2. CASE Damage
  <2>1. PICK f \in air :
          /\ air' = air \ {f}
          /\ \/ UNCHANGED <<u8MosbusEn, u8BuffRead>>
             \/ \E en \in 0..2 : Receive(en, Damaged)
          /\ UNCHANGED <<alive, reg, changedVal, entry, runningStep, u8SlaveID,
                         numberReg, polling, inDelay, recorded, answered,
                         afterClock, raced>>
    BY <1>2 DEF Damage
  <2>2. u8MosbusEn' \in 0..2 /\ u8BuffRead' \in Frames \union {Damaged, Nothing}
    BY <2>1 DEF BusTypeOK, Receive
  <2> QED BY <2>1, <2>2 DEF BusTypeOK, entry, polling
<1>3. CASE Fail
  BY <1>3 DEF Fail, BusTypeOK, entry, polling
<1>4. CASE \E k \in Settings, v \in Values : MenuSetting(k, v)
  BY <1>4 DEF MenuSetting, Enter, Untouched, BusTypeOK, bus, polling
<1>5. CASE \E w \in Writers, k \in AirconSettings, v \in Values : RemoteFlag(w, k, v)
  <2>1. PICK w \in Writers, k \in AirconSettings, v \in Values : RemoteFlag(w, k, v)
    BY <1>5
  <2>2. [k |-> k, v |-> v] \in Entries /\ k \in Settings
    BY DEF Entries, Settings
  <2>3. entering' \in [Writers -> Entries]
    BY <2>1, <2>2 DEF RemoteFlag, BusTypeOK
  <2> QED BY <2>1, <2>2, <2>3 DEF RemoteFlag, Enter, Untouched, BusTypeOK, bus, polling
<1>6. CASE \E w \in Writers : RemoteStore(w)
  <2>1. PICK w \in Writers : RemoteStore(w)
    BY <1>6
  <2>2. entering[w] \in [k : Settings, v : Values]
    BY <2>1 DEF RemoteStore, BusTypeOK, Entries
  <2>3. Idle \in Entries
    BY DEF Entries
  <2>4. value' \in [Settings -> Values] /\ raced' \subseteq Settings
    BY <2>1, <2>2 DEF RemoteStore, BusTypeOK
  <2> QED BY <2>1, <2>3, <2>4 DEF RemoteStore, Untouched, BusTypeOK, bus, polling
<1>7. CASE SetClock
  BY <1>7 DEF SetClock, Untouched, BusTypeOK, bus, entry, polling
<1> QED BY <1>1, <1>2, <1>3, <1>4, <1>5, <1>6, <1>7 DEF EnterSetting

\* BusTypeOK: for every set of settings, values, fitted and late modules the
\* variables of the bus keep their types, and the counters of unanswered polls
\* stay below the modulus they wrap at (user_task.c:316-370).
THEOREM BusTypeCorrect == BusSpec => []BusTypeOK
<1>1. BusTypeOK /\ UNCHANGED busVars => BusTypeOK'
  BY DEF BusTypeOK, busVars, bus, entry, polling
<1> QED BY <1>1, BusTypeInit, BusTypeTask, BusTypeRest, PTL DEF BusSpec, BusNext

-----------------------------------------------------------------------------
\* Some steps are the two halves of a case that begins with a delay.
StepInv ==
  /\ inDelay => runningStep \in {"WAIT_MODE", "WAIT_WRITE", "WAIT_TIME_ATS", "WAIT_TIME_AIRCON"}
  /\ runningStep \in {"WAIT_WRITE", "WAIT_TIME_ATS"} => inDelay

\* Where the buffer is checked, the query it is checked against is known.
QueryInv ==
  /\ runningStep = "WAIT_ATS" => u8SlaveID = "ats" /\ numberReg = Count["ats"]
  /\ runningStep = "WAIT_AIR" => u8SlaveID = "aircon" /\ numberReg = Count["aircon"]
  /\ runningStep = "WAIT_WRITE" => numberReg \in Values

\* The answer to a write of a module that answers in time.
Confirms(f) == f.kind = "write" /\ f.slave \notin Late

\* Such an answer is there only while the write waits for it, and if nothing
\* raced with the setting then the module has it.
WriteInv ==
  /\ \A f \in air \union {u8BuffRead} :
       Confirms(f) => /\ runningStep = "WAIT_WRITE"
                      /\ changedVal \in Settings \ raced => reg[changedVal] = value[changedVal]
  /\ runningStep = "WAIT_TIME_ATS" /\ changedVal \in Settings => changedVal \in raced

BusInv == BusTypeOK /\ StepInv /\ QueryInv /\ WriteInv /\ SettingKept /\ RecordedFromOwner

LEMMA BusInvInit == BusInit => BusInv
<1> SUFFICES ASSUME BusInit PROVE BusInv
  OBVIOUS
<1>1. BusTypeOK
  BY BusTypeInit
<1>2. StepInv /\ QueryInv
  BY DEF BusInit, StepInv, QueryInv
<1>3. WriteInv
  BY FrameFacts, ModbusAssumption DEF BusInit, WriteInv, Confirms
<1>4. SettingKept
  BY DEF BusInit, SettingKept
<1>5. RecordedFromOwner
  BY DEF BusInit, RecordedFromOwner
<1> QED BY <1>1, <1>2, <1>3, <1>4, <1>5 DEF BusInv

\* A check records a frame only where its length fits the query.
LEMMA CheckRecords ==
  ASSUME BusTypeOK, RecordedFromOwner, Check,
         \/ u8SlaveID \in Slaves /\ numberReg = Count[u8SlaveID]
         \/ numberReg \in Values
  PROVE  RecordedFromOwner'
<1> SUFFICES ASSUME NEW s \in Polled
             PROVE  recorded'[s] \in {"none", s} \union {t \in Slaves : Count[t] \in Values}
  BY DEF RecordedFromOwner
<1>1. CASE recorded'[s] = recorded[s]
  BY <1>1 DEF RecordedFromOwner
<1>2. CASE recorded'[s] # recorded[s]
  <2>1. /\ Accepted /\ u8BuffRead.kind = "read" /\ u8SlaveID = s
        /\ recorded'[s] = u8BuffRead.slave
    BY <1>2 DEF Check, BusTypeOK
  <2>2. u8BuffRead \in Frames
    BY <2>1, FrameFacts DEF BusTypeOK
  <2>3. u8BuffRead.slave \in Slaves /\ Count[u8BuffRead.slave] = numberReg
    BY <2>1, <2>2, FrameFacts DEF Accepted
  <2>4. \A t, u \in Slaves : Count[t] = Count[u] => t = u
    BY FrameFacts DEF Slaves
  <2> QED BY <2>1, <2>3, <2>4
<1> QED BY <1>1, <1>2

\* What a query leaves, where the buffer and the settings stay as they are.
LEMMA SendKeeps ==
  ASSUME BusTypeOK, WriteInv, runningStep # "WAIT_WRITE", NEW s, NEW f, ~Confirms(f),
         Send(s, f), u8BuffRead' = u8BuffRead
  PROVE  \A g \in air' \union {u8BuffRead'} : ~Confirms(g)
<1>1. air' \subseteq air \union {f}
  BY DEF Send
<1> QED BY <1>1 DEF WriteInv

LEMMA BusInvTask == BusInv /\ rs485_task => (StepInv /\ QueryInv /\ WriteInv)'
<1> SUFFICES ASSUME BusInv, rs485_task PROVE (StepInv /\ QueryInv /\ WriteInv)'
  OBVIOUS
<1> USE DEF BusInv
<1>0. "clock" \notin Settings /\ "none" \notin Settings
  BY ModbusAssumption
<1>a. \A s : ~Confirms(ReadAnswer(s)) /\ ~Confirms(Echo(s, "time"))
  BY DEF ReadAnswer, Echo, Confirms
<1>1. CASE ForwardSetting
  <2>1. /\ changedVal \in Settings /\ Write_Single_Reg(changedVal)
        /\ ~inDelay /\ runningStep' = "WAIT_WRITE" /\ inDelay' = TRUE
        /\ UNCHANGED <<changedVal, value, u8BuffRead, raced>>
    BY <1>1 DEF ForwardSetting, entry
  <2>2. \A f \in air \union {u8BuffRead} : ~Confirms(f)
    BY <2>1 DEF WriteInv, StepInv
  <2>3. numberReg' \in Values
    BY <2>1 DEF Write_Single_Reg, BusTypeOK
  <2>4. ASSUME NEW f \in air' \union {u8BuffRead'}, Confirms(f)
        PROVE  reg'[changedVal] = value[changedVal]
    <3>1. f \notin air \union {u8BuffRead}
      BY <2>2, <2>4
    <3>2. Owner(changedVal) \in alive
      BY <2>1, <2>4, <3>1 DEF Write_Single_Reg, Send
    <3> QED BY <2>1, <3>2 DEF Write_Single_Reg, BusTypeOK
  <2> QED BY <2>1, <2>3, <2>4 DEF StepInv, QueryInv, WriteInv
<1>2. CASE ForwardClock
  <2>1. /\ changedVal = "clock" /\ Send("ats", Echo("ats", "time"))
        /\ ~inDelay /\ runningStep' = "WAIT_TIME_ATS" /\ inDelay' = TRUE
        /\ UNCHANGED <<changedVal, u8BuffRead>>
    BY <1>2 DEF ForwardClock, Write_Time_Reg
  <2>2. \A f \in air' \union {u8BuffRead'} : ~Confirms(f)
    BY <2>1, <1>a, SendKeeps DEF StepInv
  <2> QED BY <1>0, <2>1, <2>2 DEF StepInv, QueryInv, WriteInv
<1>3. ASSUME NEW s \in Slaves, NEW from, NEW to \in {"WAIT_ATS", "WAIT_DOOR", "WAIT_AIR"},
             to = "WAIT_ATS" => s = "ats", to = "WAIT_AIR" => s = "aircon",
             Poll(s, from, to)
      PROVE  (StepInv /\ QueryInv /\ WriteInv)'
  <2>1. /\ Send(s, ReadAnswer(s)) /\ numberReg' = Count[s] /\ u8SlaveID' = s
        /\ ~inDelay /\ runningStep' = to /\ inDelay' = inDelay
        /\ UNCHANGED <<changedVal, u8BuffRead>>
    BY <1>3 DEF Poll, Polling, Read_Holding_Regs_Query, Send
  <2>2. \A f \in air' \union {u8BuffRead'} : ~Confirms(f)
    BY <2>1, <1>a, SendKeeps DEF StepInv
  <2> QED BY <1>3, <2>1, <2>2 DEF StepInv, QueryInv, WriteInv
<1>4. CASE READ_ATS_STATUS \/ READ_DOOR \/ READ_AIR_COND
  BY <1>3, <1>4 DEF READ_ATS_STATUS, READ_DOOR, READ_AIR_COND, Slaves
<1>5. ASSUME runningStep # "WAIT_WRITE",
             runningStep' \notin {"WAIT_ATS", "WAIT_AIR", "WAIT_WRITE", "WAIT_TIME_ATS"},
             air' = air, u8BuffRead' \in {u8BuffRead, Nothing}, ~inDelay'
      PROVE  (StepInv /\ QueryInv /\ WriteInv)'
  <2>1. ~Confirms(Nothing)
    BY FrameFacts DEF Confirms
  <2> QED BY <1>5, <2>1 DEF StepInv, QueryInv, WriteInv
<1>6. CASE WAIT_ATS_RESPOND \/ WAIT_AIR_COND_RESPOND
  <2>1. /\ runningStep \in {"WAIT_ATS", "WAIT_AIR"} /\ runningStep' \in {"READ_DOOR", "READ_ATS"}
        /\ air' = air /\ u8BuffRead' = Nothing /\ ~inDelay'
    BY <1>6 DEF WAIT_ATS_RESPOND, WAIT_AIR_COND_RESPOND, Examine, Polling, Check, bus
  <2> QED BY <1>5, <2>1
<1>7. CASE WAIT_DOOR_RESPOND
  <2>1. /\ runningStep = "WAIT_DOOR" /\ runningStep' = "READ_AIR"
        /\ air' = air /\ u8BuffRead' = u8BuffRead /\ ~inDelay'
    BY <1>7 DEF WAIT_DOOR_RESPOND, Polling, bus
  <2> QED BY <1>5, <2>1
<1>8. CASE EnterDelay
  BY <1>8 DEF EnterDelay, Polling, StepInv, QueryInv, WriteInv, bus, entry
<1>9. CASE EndOfWait
  <2>1. /\ runningStep \in {"WAIT_MODE", "WAIT_TIME_AIRCON"} /\ runningStep' = "READ_ATS"
        /\ air' = air /\ u8BuffRead' = u8BuffRead /\ ~inDelay'
    BY <1>9 DEF EndOfWait, AfterDelay
  <2> QED BY <1>5, <2>1
<1>10. CASE EndOfWrite
  <2>1. /\ Waited /\ runningStep' = "READ_ATS" /\ air' = air /\ u8BuffRead' = Nothing /\ ~inDelay'
    BY <1>10 DEF EndOfWrite, AfterDelay, Check
  <2>2. \A f \in air' \union {u8BuffRead'} : ~Confirms(f)
    BY <2>1, FrameFacts DEF Confirms, Waited
  <2> QED BY <2>1, <2>2 DEF StepInv, QueryInv, WriteInv
<1>11. CASE EndOfTimeAts
  <2>1. /\ Send("aircon", Echo("aircon", "time")) /\ u8BuffRead' = u8BuffRead
        /\ runningStep = "WAIT_TIME_ATS" /\ runningStep' = "WAIT_TIME_AIRCON" /\ ~inDelay'
    BY <1>11 DEF EndOfTimeAts, AfterDelay, Write_Time_Reg
  <2>2. \A f \in air' \union {u8BuffRead'} : ~Confirms(f)
    BY <2>1, <1>a, SendKeeps
  <2> QED BY <2>1, <2>2 DEF StepInv, QueryInv, WriteInv
<1> QED BY <1>1, <1>2, <1>4, <1>6, <1>7, <1>8, <1>9, <1>10, <1>11 DEF rs485_task

\* The two properties, over the steps of the polling task.
LEMMA KeptByTask == BusInv /\ rs485_task => SettingKept'
<1> SUFFICES ASSUME BusInv, rs485_task PROVE SettingKept'
  OBVIOUS
<1> USE DEF BusInv
<1>1. CASE ForwardSetting
  <2>1. /\ changedVal' = changedVal /\ value' = value /\ raced' = raced
        /\ \A k \in Settings : reg'[k] \in {reg[k], value[k]}
    BY <1>1 DEF ForwardSetting, Write_Single_Reg, entry, BusTypeOK
  <2> QED BY <2>1 DEF SettingKept
<1>2. CASE EndOfWrite
  <2>1. /\ UNCHANGED <<reg, value>> /\ raced \subseteq raced' /\ runningStep = "WAIT_WRITE"
        /\ changedVal' = IF Accepted THEN "none" ELSE changedVal
    BY <1>2 DEF EndOfWrite, AfterDelay, entry
  <2>2. CASE ~Accepted
    BY <2>1, <2>2 DEF SettingKept
  <2>3. CASE Doubtful
    BY <1>2, <2>1, <2>3 DEF EndOfWrite, SettingKept
  <2>4. CASE Accepted /\ ~Doubtful
    <3>1. Confirms(u8BuffRead)
      BY <2>4 DEF Doubtful, Confirms
    <3>2. changedVal \in Settings \ raced => reg[changedVal] = value[changedVal]
      BY <3>1 DEF WriteInv
    <3> QED BY <2>1, <2>4, <3>2 DEF SettingKept
  <2> QED BY <2>2, <2>3, <2>4
<1>3. CASE EndOfTimeAts
  <2>1. /\ UNCHANGED <<reg, value, raced>> /\ runningStep = "WAIT_TIME_ATS"
    BY <1>3 DEF EndOfTimeAts, AfterDelay, Write_Time_Reg, entry
  <2> QED BY <2>1 DEF SettingKept, WriteInv
<1>4. ASSUME UNCHANGED <<reg, value, raced, changedVal>> PROVE SettingKept'
  BY <1>4 DEF SettingKept
<1>5. CASE ForwardClock \/ READ_ATS_STATUS \/ READ_DOOR \/ READ_AIR_COND
  BY <1>4, <1>5 DEF ForwardClock, READ_ATS_STATUS, READ_DOOR, READ_AIR_COND, Poll,
     Write_Time_Reg, Read_Holding_Regs_Query, entry
<1>6. CASE WAIT_ATS_RESPOND \/ WAIT_DOOR_RESPOND \/ WAIT_AIR_COND_RESPOND \/ EnterDelay \/ EndOfWait
  BY <1>4, <1>6 DEF WAIT_ATS_RESPOND, WAIT_DOOR_RESPOND, WAIT_AIR_COND_RESPOND, Examine,
     EnterDelay, EndOfWait, AfterDelay, bus, entry
<1> QED BY <1>1, <1>2, <1>3, <1>5, <1>6 DEF rs485_task

LEMMA RecordedByTask == BusInv /\ rs485_task => RecordedFromOwner'
<1> SUFFICES ASSUME BusInv, rs485_task PROVE RecordedFromOwner'
  OBVIOUS
<1> USE DEF BusInv
<1>1. CASE WAIT_ATS_RESPOND \/ WAIT_AIR_COND_RESPOND
  BY <1>1, CheckRecords DEF WAIT_ATS_RESPOND, WAIT_AIR_COND_RESPOND, Examine, QueryInv, Slaves
<1>2. CASE EndOfWrite
  BY <1>2, CheckRecords DEF EndOfWrite, AfterDelay, QueryInv
<1>3. CASE ForwardSetting \/ ForwardClock \/ READ_ATS_STATUS \/ READ_DOOR \/ READ_AIR_COND
  BY <1>3 DEF ForwardSetting, ForwardClock, READ_ATS_STATUS, READ_DOOR, READ_AIR_COND, Poll,
     RecordedFromOwner
<1>4. CASE WAIT_DOOR_RESPOND \/ EnterDelay \/ EndOfWait \/ EndOfTimeAts
  BY <1>4 DEF WAIT_DOOR_RESPOND, EnterDelay, EndOfWait, EndOfTimeAts, RecordedFromOwner
<1> QED BY <1>1, <1>2, <1>3, <1>4 DEF rs485_task

\* An entry of a setting: what it overtakes is marked.
LEMMA EntryKeeps ==
  ASSUME BusTypeOK, StepInv, QueryInv, WriteInv, SettingKept, RecordedFromOwner, EnterSetting
  PROVE  (StepInv /\ QueryInv /\ WriteInv /\ SettingKept /\ RecordedFromOwner)'
<1>0. "clock" \notin Settings /\ "none" \notin Settings
  BY ModbusAssumption
<1>1. Clearing <=> runningStep \in {"WAIT_WRITE", "WAIT_TIME_ATS"}
  BY DEF Clearing, StepInv
<1>2. Untouched
  BY DEF EnterSetting, MenuSetting, RemoteFlag, RemoteStore, SetClock, Enter
<1>3. (StepInv /\ QueryInv /\ RecordedFromOwner)'
  BY <1>2 DEF Untouched, StepInv, QueryInv, RecordedFromOwner
<1>4. UNCHANGED <<air, u8BuffRead, runningStep, reg>>
  BY <1>2 DEF Untouched, bus
<1>5. ASSUME NEW k \in Settings, Enter(k),
             \A j \in Settings : j # k => value'[j] = value[j]
      PROVE  (WriteInv /\ SettingKept)'
  <2>1. changedVal' = k /\ (Clearing => k \in raced')
    BY <1>5 DEF Enter
  <2>2. \A j \in Settings : j # k /\ (j = changedVal \/ j \in raced) => j \in raced'
    BY <1>5 DEF Enter
  <2> QED BY <1>1, <1>4, <1>5, <2>1, <2>2 DEF WriteInv, SettingKept
<1>6. ASSUME NEW k \in Settings, NEW v \in Values, MenuSetting(k, v)
      PROVE  (WriteInv /\ SettingKept)'
  BY <1>5, <1>6 DEF MenuSetting, BusTypeOK
<1>7. ASSUME NEW w \in Writers, NEW k \in AirconSettings, NEW v \in Values, RemoteFlag(w, k, v)
      PROVE  (WriteInv /\ SettingKept)'
  BY <1>5, <1>7 DEF RemoteFlag, Settings
<1>8. ASSUME NEW w \in Writers, RemoteStore(w) PROVE (WriteInv /\ SettingKept)'
  <2> DEFINE k == entering[w].k
  <2>1. k \in Settings
    BY <1>8 DEF RemoteStore, BusTypeOK, Entries
  <2>2. /\ changedVal' = changedVal /\ raced \subseteq raced'
        /\ changedVal # k \/ Clearing => k \in raced'
    BY <1>8 DEF RemoteStore
  <2>3. \A j \in Settings : j # k => value'[j] = value[j]
    BY <1>8 DEF RemoteStore, BusTypeOK
  <2> HIDE DEF k
  <2> QED BY <1>1, <1>4, <2>1, <2>2, <2>3 DEF WriteInv, SettingKept
<1>9. ASSUME SetClock PROVE (WriteInv /\ SettingKept)'
  BY <1>0, <1>4, <1>9 DEF SetClock, entry, WriteInv, SettingKept
<1> QED BY <1>3, <1>6, <1>7, <1>8, <1>9 DEF EnterSetting

LEMMA BusInvRest ==
  BusInv /\ (RS4851_UART_IRQHandler \/ Damage \/ Fail \/ EnterSetting) => BusInv'
<1> SUFFICES ASSUME BusInv, RS4851_UART_IRQHandler \/ Damage \/ Fail \/ EnterSetting
             PROVE  BusInv'
  OBVIOUS
<1>1. BusTypeOK'
  BY BusTypeRest DEF BusInv
<1>2. CASE EnterSetting
  BY <1>1, <1>2, EntryKeeps DEF BusInv
<1>3. CASE RS4851_UART_IRQHandler \/ Damage \/ Fail
  <2>1. /\ UNCHANGED <<reg, changedVal, entry, runningStep, u8SlaveID, numberReg, inDelay,
                       recorded, raced>>
        /\ air' \subseteq air
    BY <1>3 DEF RS4851_UART_IRQHandler, Damage, Fail
  <2>2. u8BuffRead' \in air \union {u8BuffRead, Damaged, Nothing}
    BY <1>3 DEF RS4851_UART_IRQHandler, Damage, Fail, Receive
  <2>3. ~Confirms(Damaged) /\ ~Confirms(Nothing)
    BY FrameFacts DEF Confirms
  <2>4. WriteInv'
    BY <2>1, <2>2, <2>3 DEF WriteInv, entry, BusInv
  <2>5. (StepInv /\ QueryInv /\ SettingKept /\ RecordedFromOwner)'
    BY <2>1 DEF StepInv, QueryInv, SettingKept, RecordedFromOwner, entry, BusInv
  <2> QED BY <1>1, <2>4, <2>5 DEF BusInv
<1> QED BY <1>2, <1>3

LEMMA BusInvariance == BusSpec => []BusInv
<1>1. BusInv /\ UNCHANGED busVars => BusInv'
  <2> SUFFICES ASSUME BusInv, UNCHANGED busVars PROVE BusInv'
    OBVIOUS
  <2>1. UNCHANGED <<alive, air, reg, changedVal, value, entering, runningStep, u8MosbusEn,
                    u8BuffRead, u8SlaveID, numberReg, noRespond, error, inDelay, recorded,
                    answered, afterClock, raced>>
    BY DEF busVars, bus, entry, polling
  <2>2. BusTypeOK'
    BY <2>1 DEF BusInv, BusTypeOK
  <2> QED BY <2>1, <2>2 DEF BusInv, StepInv, QueryInv, WriteInv, SettingKept, RecordedFromOwner
<1>2. BusInv /\ rs485_task => BusInv'
  BY BusTypeTask, BusInvTask, KeptByTask, RecordedByTask DEF BusInv
<1> QED BY <1>1, <1>2, BusInvInit, BusInvRest, PTL DEF BusSpec, BusNext

\* SettingKept: for any settings and values, whatever module is absent, fails
\* or answers late, a setting that its module does not have is still to be
\* forwarded or met a race marked by raced (user_task.c:213-286 and 371-384,
\* and the entries in menu.c and mqtt_json_parse.c).
THEOREM SettingsAreForwarded == BusSpec => []SettingKept
BY BusInvariance, PTL DEF BusInv

\* RecordedFromOwner: whatever is left in the buffer, a record is filled from
\* its own module's answers, or from those of a module whose number of
\* registers somebody entered as a value (rs485.c:151-217).
THEOREM RecordsAreOwn == BusSpec => []RecordedFromOwner
BY BusInvariance, PTL DEF BusInv

-----------------------------------------------------------------------------
\* Nothing is on the line and the buffer is free.
Silent == u8MosbusEn = 0 /\ air = {}

\* The module asked has the line and the buffer to itself.
Asked(s) ==
  /\ u8SlaveID = s /\ numberReg = Count[s]
  /\ air \subseteq {ReadAnswer(s)}
  /\ air # {} => ~answered /\ u8MosbusEn = 0
  /\ answered => u8MosbusEn = 2 /\ u8BuffRead = ReadAnswer(s)

\* So it is at every poll that is examined, but for the first one after the
\* clock was sent, and the poll of the air conditioner if there is a door module.
PollInv ==
  /\ runningStep \in {"WAIT_TIME_ATS", "WAIT_TIME_AIRCON"} => afterClock
  /\ ~afterClock =>
       /\ runningStep \in {"WAIT_MODE", "READ_ATS", "READ_DOOR"} => Silent
       /\ runningStep = "WAIT_ATS" => Asked("ats")
       /\ "door" \notin Fitted /\ runningStep \in {"WAIT_DOOR", "READ_AIR"} => Silent
       /\ "door" \notin Fitted /\ runningStep = "WAIT_AIR" => Asked("aircon")

\* A count past the limit has raised the alarm.
CountInv == \A s \in Polled : noRespond[s] >= Limit => error[s]

LEMMA PollInit == BusInit => PollInv /\ CountInv
<1>1. Limit \in Nat /\ Limit > 0
  BY ModbusAssumption
<1> QED BY <1>1 DEF BusInit, PollInv, CountInv, Silent

LEMMA PollTask ==
  ASSUME Late = {}, BusTypeOK, StepInv, PollInv, rs485_task
  PROVE  PollInv'
<1>0. Waited => air = {}
  BY DEF Waited
<1>1. CASE ForwardSetting \/ ForwardClock
  BY <1>1 DEF ForwardSetting, ForwardClock, Write_Time_Reg, PollInv
<1>2. ASSUME NEW s, NEW from, NEW to, Poll(s, from, to)
      PROVE  /\ runningStep = from /\ runningStep' = to /\ afterClock' = afterClock
             /\ u8SlaveID' = s /\ numberReg' = Count[s] /\ ~answered'
             /\ air' \subseteq {ReadAnswer(s)} /\ (s \notin alive => air' = {})
             /\ UNCHANGED <<u8MosbusEn, u8BuffRead>>
  BY <1>0, <1>2 DEF Poll, Polling, Read_Holding_Regs_Query, Send
<1>3. CASE READ_ATS_STATUS
  BY <1>2, <1>3 DEF READ_ATS_STATUS, PollInv, Silent, Asked
<1>4. CASE READ_DOOR
  BY <1>2, <1>4 DEF READ_DOOR, PollInv, Silent, BusTypeOK
<1>5. CASE READ_AIR_COND
  BY <1>2, <1>5 DEF READ_AIR_COND, PollInv, Silent, Asked
<1>6. CASE WAIT_ATS_RESPOND \/ WAIT_AIR_COND_RESPOND
  <2>1. Waited /\ runningStep' \in {"READ_DOOR", "READ_ATS"} /\ air' = air /\ u8MosbusEn' = 0
    BY <1>6 DEF WAIT_ATS_RESPOND, WAIT_AIR_COND_RESPOND, Examine, Polling, Check, bus
  <2> QED BY <1>0, <2>1 DEF PollInv, Silent
<1>7. CASE WAIT_DOOR_RESPOND \/ EnterDelay
  BY <1>7 DEF WAIT_DOOR_RESPOND, EnterDelay, PollInv, Silent, Asked, bus
<1>8. CASE EndOfWait
  BY <1>8 DEF EndOfWait, AfterDelay, PollInv, Silent
<1>9. CASE EndOfWrite
  <2>1. Waited /\ runningStep' = "READ_ATS" /\ air' = air /\ u8MosbusEn' = 0
    BY <1>9 DEF EndOfWrite, AfterDelay, Check
  <2> QED BY <1>0, <2>1 DEF PollInv, Silent
<1>10. CASE EndOfTimeAts
  BY <1>10 DEF EndOfTimeAts, AfterDelay, Write_Time_Reg, PollInv
<1> QED BY <1>1, <1>3, <1>4, <1>5, <1>6, <1>7, <1>8, <1>9, <1>10 DEF rs485_task

\* The answer that arrives is the one that was asked for.
LEMMA PollArrival ==
  ASSUME PollInv, RS4851_UART_IRQHandler \/ Damage \/ Fail \/ EnterSetting
  PROVE  PollInv'
<1>1. UNCHANGED <<runningStep, u8SlaveID, numberReg, afterClock>>
  BY DEF RS4851_UART_IRQHandler, Damage, Fail, EnterSetting, MenuSetting, RemoteFlag,
     RemoteStore, SetClock, Enter, Untouched
<1>2. ASSUME Silent PROVE Silent'
  BY <1>2 DEF RS4851_UART_IRQHandler, Damage, Fail, EnterSetting, MenuSetting, RemoteFlag,
     RemoteStore, SetClock, Enter, Untouched, bus, Silent
<1>3. ASSUME NEW s, Asked(s) PROVE Asked(s)'
  <2>1. CASE RS4851_UART_IRQHandler
    <3>1. air = {ReadAnswer(s)} /\ ReadAnswer(s).slave = u8SlaveID /\ u8MosbusEn = 0
      BY <1>3, <2>1 DEF RS4851_UART_IRQHandler, Asked, ReadAnswer
    <3> QED BY <1>1, <1>3, <2>1, <3>1 DEF RS4851_UART_IRQHandler, Receive, Asked
  <2>2. CASE Damage
    BY <1>1, <1>3, <2>2 DEF Damage, Asked
  <2>3. CASE Fail \/ EnterSetting
    <3>1. UNCHANGED <<air, answered, u8MosbusEn, u8BuffRead>>
      BY <2>3 DEF Fail, EnterSetting, MenuSetting, RemoteFlag, RemoteStore, SetClock, Enter,
         Untouched, bus
    <3> QED BY <1>1, <1>3, <3>1 DEF Asked
  <2> QED BY <2>1, <2>2, <2>3
<1> QED BY <1>1, <1>2, <1>3 DEF PollInv

\* What the examination of an answer does to the count and the alarm.
LEMMA CountStep ==
  ASSUME BusTypeOK, CountInv, [BusNext]_busVars
  PROVE  /\ CountInv'
         /\ \A s \in Polled :
              \/ noRespond'[s] = noRespond[s] /\ error'[s] = error[s]
              \/ noRespond'[s] = 0 /\ ~error'[s] /\ Accepted
              \/ /\ ~Accepted /\ s = "ats" /\ WAIT_ATS_RESPOND
              \/ /\ ~Accepted /\ s = "aircon" /\ WAIT_AIR_COND_RESPOND
<1>0. Limit \in Nat /\ Limit > 0
  BY ModbusAssumption
<1>1. ASSUME NEW s \in Polled, NEW from, NEW to, Examine(s, from, to)
      PROVE  /\ CountInv'
             /\ \A t \in Polled \ {s} : noRespond'[t] = noRespond[t] /\ error'[t] = error[t]
             /\ Accepted => noRespond'[s] = 0 /\ ~error'[s]
  <2>1. CASE Accepted
    BY <1>0, <1>1, <2>1 DEF Examine, CountPoll, BusTypeOK, CountInv
  <2>2. CASE ~Accepted
    <3> DEFINE n == (noRespond[s] + 1) % CounterMod
    <3>1. noRespond' = [noRespond EXCEPT ![s] = n] /\ error' = [error EXCEPT ![s] = @ \/ n >= Limit]
      BY <1>1, <2>2 DEF Examine, CountPoll
    <3> HIDE DEF n
    <3>2. noRespond'[s] = n /\ \A t \in Polled \ {s} : noRespond'[t] = noRespond[t]
      BY <3>1 DEF BusTypeOK
    <3>3. \A t \in Polled \ {s} : error'[t] = error[t]
      BY <3>1 DEF BusTypeOK
    <3>4. n >= Limit => error'[s]
      <4> DEFINE b == error[s] \/ n >= Limit
      <4>1. error' = [error EXCEPT ![s] = b]
        BY <3>1, Zenon
      <4> HIDE DEF b
      <4>2. error'[s] = b
        BY <4>1 DEF BusTypeOK
      <4> QED BY <4>2 DEF b
    <3> QED BY <2>2, <3>2, <3>3, <3>4 DEF CountInv
  <2> QED BY <2>1, <2>2
<1>2. CASE WAIT_ATS_RESPOND
  BY <1>1, <1>2 DEF WAIT_ATS_RESPOND, Polled
<1>3. CASE WAIT_AIR_COND_RESPOND
  BY <1>1, <1>3 DEF WAIT_AIR_COND_RESPOND, Polled
<1>4. ASSUME UNCHANGED polling
      PROVE  CountInv' /\ \A s \in Polled : noRespond'[s] = noRespond[s] /\ error'[s] = error[s]
  BY <1>4 DEF polling, CountInv
<1>5. CASE ForwardSetting \/ ForwardClock \/ READ_ATS_STATUS \/ READ_DOOR \/ READ_AIR_COND
  BY <1>4, <1>5 DEF ForwardSetting, ForwardClock, READ_ATS_STATUS, READ_DOOR, READ_AIR_COND, Poll
<1>6. CASE WAIT_DOOR_RESPOND \/ EnterDelay \/ EndOfWait \/ EndOfWrite \/ EndOfTimeAts
  BY <1>4, <1>6 DEF WAIT_DOOR_RESPOND, EnterDelay, EndOfWait, EndOfWrite, EndOfTimeAts, AfterDelay
<1>7. CASE RS4851_UART_IRQHandler \/ Damage \/ Fail \/ EnterSetting \/ UNCHANGED busVars
  BY <1>4, <1>7 DEF RS4851_UART_IRQHandler, Damage, Fail, EnterSetting, MenuSetting, RemoteFlag,
     RemoteStore, SetClock, Enter, Untouched, busVars
<1> QED BY <1>2, <1>3, <1>4, <1>5, <1>6, <1>7 DEF BusNext, rs485_task

\* NoFalseMiss: with modules that all answer in time, and a limit that the
\* counter reaches, a poll is not counted as unanswered when it was answered,
\* but for the two cases in which the buffer was full (user_task.c:316-370).
THEOREM NoMissWithoutReason ==
  ASSUME Late = {}, Limit < CounterMod
  PROVE  BusSpec => NoFalseMiss
<1>1. ASSUME BusInv, PollInv, CountInv, [BusNext]_busVars, NEW s \in Polled, Missed(s)
      PROVE  ~answered \/ afterClock \/ (s = "aircon" /\ "door" \in Fitted)
  <2>1. /\ Limit \in Nat \ {0} /\ CounterMod \in Nat /\ CounterMod > 1
        /\ noRespond[s] \in 0..(CounterMod - 1)
    BY <1>1, ModbusAssumption DEF BusInv, BusTypeOK
  <2>2. CASE noRespond'[s] = noRespond[s] /\ error'[s] = error[s]
    <3>1. \A n \in 0..(CounterMod - 1) : (n + 1) % CounterMod # n
      BY <2>1
    <3> QED BY <1>1, <2>1, <2>2, <3>1 DEF Missed
  <2>3. CASE noRespond'[s] = 0 /\ ~error'[s] /\ Accepted
    <3>1. noRespond[s] = CounterMod - 1
      BY <1>1, <2>1, <2>3 DEF Missed
    <3>2. noRespond[s] >= Limit
      BY <2>1, <3>1
    <3> QED BY <1>1, <2>3, <3>2 DEF CountInv, Missed
  <2>4. CASE ~Accepted /\ s = "ats" /\ WAIT_ATS_RESPOND
    <3>1. ~afterClock /\ answered => Accepted
      BY <1>1, <2>4, FrameFacts
         DEF WAIT_ATS_RESPOND, Examine, PollInv, Asked, Accepted, ReadAnswer
    <3> QED BY <2>4, <3>1
  <2>5. CASE ~Accepted /\ s = "aircon" /\ WAIT_AIR_COND_RESPOND
    <3>1. ~afterClock /\ answered /\ "door" \notin Fitted => Accepted
      BY <1>1, <2>5, FrameFacts
         DEF WAIT_AIR_COND_RESPOND, Examine, PollInv, Asked, Accepted, ReadAnswer
    <3> QED BY <2>5, <3>1
  <2> QED BY <1>1, <2>2, <2>3, <2>4, <2>5, CountStep DEF BusInv
<1>2. BusInv /\ PollInv /\ CountInv /\ [BusNext]_busVars => PollInv' /\ CountInv'
  <2> SUFFICES ASSUME BusInv, PollInv, CountInv, [BusNext]_busVars PROVE PollInv' /\ CountInv'
    OBVIOUS
  <2>1. CASE UNCHANGED busVars
    <3>1. UNCHANGED <<air, runningStep, u8MosbusEn, u8BuffRead, u8SlaveID, numberReg, answered,
                      afterClock, noRespond, error>>
      BY <2>1 DEF busVars, bus, polling
    <3> QED BY <3>1 DEF PollInv, Silent, Asked, CountInv
  <2> QED BY <2>1, PollTask, PollArrival, CountStep DEF BusNext, BusInv
<1>3. BusSpec => [](PollInv /\ CountInv)
  BY <1>2, PollInit, BusInvariance, PTL DEF BusSpec
<1>4. BusInv /\ PollInv /\ CountInv /\ [BusNext]_busVars =>
        [\A s \in Polled :
           Missed(s) => \/ ~answered
                        \/ afterClock
                        \/ s = "aircon" /\ "door" \in Fitted]_busVars
  BY <1>1
<1> QED BY <1>3, <1>4, BusInvariance, PTL DEF BusSpec, NoFalseMiss
=============================================================================
