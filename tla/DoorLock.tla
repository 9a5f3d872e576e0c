------------------------------ MODULE DoorLock ------------------------------
(***************************************************************************)
(* The door and the three tasks that move its lock without one lock among  *)
(* them: the user interface, after a card (UpdateInfo), the timer, which   *)
(* locks the door again (SwTimerCallback), and the SNMP agent              *)
(* (privateMibSetAccessoriesGroup).                                        *)
(*                                                                         *)
(* The user interface has priority 4, the timer 2 and the agent 1.  So the *)
(* first is never interrupted by the others and is one step, while each of *)
(* the others can be interrupted between any two accesses by those above.  *)
(*                                                                         *)
(* A definition marked "Slip" is a wrong variant of the one that follows;  *)
(* no action uses it.  It shows that a property would notice the slip.     *)
(***************************************************************************)
EXTENDS Integers

CONSTANTS
  DOOR_OPEN_TIME,  \* the ticks that a card opens the door for
  Requests         \* the values of doorStatus that a manager sends: any integers

ASSUME DoorAssumption ==
  /\ DOOR_OPEN_TIME \in Nat \ {0}
  /\ Requests \subseteq Int

VARIABLES
  doorStatus,         \* privateMibBase.accessoriesGroup.doorStatus
  relay,              \* IO_OPENDOOR_MCU: _ON locks the door, _OFF opens it
  doorOpenTimeCount,
  timerPc, timerCount,      \* the callback, and the count it has loaded
  agentPc, agentValue,      \* the agent, and the value it has stored
  \* history
  opener,      \* who moved the relay to "open" last
  ticks,       \* the callbacks begun since the last card, up to TickCap
  clean,       \* no callback was running when that card was read
  overtaken,   \* others set status or relay during the agent's last request
  suspended    \* since that card the agent has stored neither 0 nor 1

door    == <<doorStatus, relay, doorOpenTimeCount>>
timer   == <<timerPc, timerCount>>
agent   == <<agentPc, agentValue>>
history == <<opener, ticks, clean, overtaken, suspended>>
vars    == <<door, timer, agent, history>>

\* A bound on the history, above the ticks that matter.
TickCap == DOOR_OPEN_TIME + 2

\* doorStatus is a uint8_t, of which an integer keeps the low byte.
Byte == 256

\* privateMibBase is zeroed and the output is 0, so the first tick locks.
Init ==
  /\ doorStatus = 0 /\ relay = "open" /\ doorOpenTimeCount = 0
  /\ timerPc = "idle" /\ timerCount = 0
  /\ agentPc = "idle" /\ agentValue = 0
  /\ opener = "start" /\ ticks = 0 /\ clean = TRUE
  /\ overtaken = FALSE /\ suspended = FALSE

Overtake == overtaken' = (agentPc # "idle")
-----------------------------------------------------------------------------
(***************************************************************************)
(* UpdateInfo: a card was read, and ACS_AccessCheck has found its user or  *)
(* not.                                                                    *)
(***************************************************************************)
\* Slip: the count of an earlier card goes on.
GrantKeepsCount ==
  /\ doorStatus' = 0 /\ relay' = "open"
  /\ opener' = "card" /\ ticks' = 0 /\ clean' = (timerPc = "idle")
  /\ suspended' = FALSE
  /\ Overtake
  /\ UNCHANGED <<doorOpenTimeCount, timer, agent>>

Grant ==
  /\ doorStatus' = 0 /\ relay' = "open"
  /\ doorOpenTimeCount' = DOOR_OPEN_TIME
  /\ opener' = "card" /\ ticks' = 0 /\ clean' = (timerPc = "idle")
  /\ suspended' = FALSE
  /\ Overtake
  /\ UNCHANGED <<timer, agent>>

Deny ==
  /\ doorStatus' = 1 /\ relay' = "locked"
  /\ Overtake
  /\ UNCHANGED <<doorOpenTimeCount, timer, agent, opener, ticks, clean,
                 suspended>>

UpdateInfo == Grant \/ Deny
-----------------------------------------------------------------------------
(***************************************************************************)
(* SwTimerCallback, once a second.                                         *)
(***************************************************************************)
Tick ==
  /\ timerPc = "idle"
  /\ timerPc' = IF doorStatus = 0 THEN "count" ELSE "idle"
  /\ ticks' = IF ticks < TickCap THEN ticks + 1 ELSE ticks
  /\ UNCHANGED <<door, timerCount, agent, opener, clean, overtaken, suspended>>

\* Slip: the count is not compared with 0.
TickCountUnguarded ==
  /\ timerPc = "count"
  /\ timerPc' = "decrement"
  /\ timerCount' = doorOpenTimeCount
  /\ UNCHANGED <<door, agent, history>>

TickCount ==
  /\ timerPc = "count"
  /\ timerPc' = IF doorOpenTimeCount > 0 THEN "decrement" ELSE "status"
  /\ timerCount' = doorOpenTimeCount
  /\ UNCHANGED <<door, agent, history>>

\* The value decremented is the one compared, or loaded once more.
TickDecrement ==
  /\ timerPc = "decrement"
  /\ \E n \in {timerCount, doorOpenTimeCount} : doorOpenTimeCount' = n - 1
  /\ timerPc' = "idle"
  /\ UNCHANGED <<doorStatus, relay, timerCount, agent, history>>

TickStatus ==
  /\ timerPc = "status"
  /\ doorStatus' = 1
  /\ timerPc' = "relay"
  /\ Overtake
  /\ UNCHANGED <<relay, doorOpenTimeCount, timerCount, agent, opener, ticks,
                 clean, suspended>>

\* Slip: the status is set, the relay is not.
TickRelayForgotten ==
  /\ timerPc = "relay"
  /\ timerPc' = "idle"
  /\ UNCHANGED <<door, timerCount, agent, history>>

TickRelay ==
  /\ timerPc = "relay"
  /\ relay' = "locked"
  /\ timerPc' = "idle"
  /\ Overtake
  /\ UNCHANGED <<doorStatus, doorOpenTimeCount, timerCount, agent, opener,
                 ticks, clean, suspended>>

SwTimerCallback ==
  Tick \/ TickCount \/ TickDecrement \/ TickStatus \/ TickRelay
-----------------------------------------------------------------------------
(***************************************************************************)
(* privateMibSetAccessoriesGroup, object doorStatus.  It runs only while   *)
(* the timer does not.  After the store each of the two comparisons may    *)
(* use the value just stored or load doorStatus again.  The low byte of    *)
(* any integer is stored; one that is neither 0 nor 1 moves no relay, and  *)
(* the timer counts no more.                                               *)
(***************************************************************************)
SetDoorStatus ==
  /\ agentPc = "idle" /\ timerPc = "idle"
  /\ \E v \in Requests : agentValue' = v % Byte
  /\ doorStatus' = agentValue'
  /\ agentPc' = "locks"
  /\ overtaken' = FALSE
  /\ suspended' = (suspended \/ doorStatus' \notin {0, 1})
  /\ UNCHANGED <<relay, doorOpenTimeCount, timer, opener, ticks, clean>>

Compared == {agentValue, doorStatus}

SetLocks ==
  /\ agentPc = "locks" /\ timerPc = "idle"
  /\ \E v \in Compared : agentPc' = IF v = 1 THEN "lock" ELSE "opens"
  /\ UNCHANGED <<door, timer, agentValue, history>>

SetOpens ==
  /\ agentPc = "opens" /\ timerPc = "idle"
  /\ \E v \in Compared : agentPc' = IF v = 0 THEN "open" ELSE "idle"
  /\ UNCHANGED <<door, timer, agentValue, history>>

SetLock ==
  /\ agentPc = "lock" /\ timerPc = "idle"
  /\ relay' = "locked"
  /\ agentPc' = "idle"
  /\ UNCHANGED <<doorStatus, doorOpenTimeCount, timer, agentValue, history>>

SetOpen ==
  /\ agentPc = "open" /\ timerPc = "idle"
  /\ relay' = "open" /\ opener' = "agent"
  /\ agentPc' = "idle"
  /\ UNCHANGED <<doorStatus, doorOpenTimeCount, timer, agentValue, ticks, clean,
                 overtaken, suspended>>

privateMibSetAccessoriesGroup ==
  SetDoorStatus \/ SetLocks \/ SetOpens \/ SetLock \/ SetOpen
-----------------------------------------------------------------------------
Next == UpdateInfo \/ SwTimerCallback \/ privateMibSetAccessoriesGroup

\* The timer runs every second, and a request that the agent has begun is
\* finished: the tasks above it block.
Fairness ==
  /\ WF_vars(SwTimerCallback)
  /\ SF_vars(SetLocks) /\ SF_vars(SetOpens) /\ SF_vars(SetLock) /\ SF_vars(SetOpen)

Spec     == Init /\ [][Next]_vars
FairSpec == Spec /\ Fairness
-----------------------------------------------------------------------------
(***************************************************************************)
(* Properties.                                                             *)
(***************************************************************************)
\* Every variable keeps its type; the count never leaves 0..DOOR_OPEN_TIME
\* although two tasks write it (it would wrap and keep the door open).
TypeOK ==
  /\ doorStatus \in 0..(Byte - 1)
  /\ relay \in {"open", "locked"}
  /\ doorOpenTimeCount \in 0..DOOR_OPEN_TIME
  /\ timerPc \in {"idle", "count", "decrement", "status", "relay"}
  /\ timerCount \in 0..DOOR_OPEN_TIME
  /\ timerPc = "decrement" => timerCount > 0 /\ doorOpenTimeCount > 0
  /\ agentPc \in {"idle", "locks", "lock", "opens", "open"}
  /\ agentValue \in 0..(Byte - 1)
  /\ opener \in {"start", "card", "agent"}
  /\ ticks \in 0..TickCap
  /\ clean \in BOOLEAN /\ overtaken \in BOOLEAN /\ suspended \in BOOLEAN

\* The two ways to leave the door open with nobody to lock it: a request that
\* others overtook between its store and its relay, and a request that was
\* neither 0 nor 1, whose value doorStatus has kept.
LeftOpen == overtaken \/ doorStatus \notin {0, 1}

\* An open door is one that the timer is going to lock (doorStatus is 0), or
\* somebody is about to move the relay, or it was left open in one of these two
\* ways: no other order of the three tasks' steps leaves it open.
OpenIsTimed ==
  relay = "open" /\ doorStatus # 0
    => timerPc = "relay" \/ agentPc # "idle" \/ LeftOpen

\* A door opened by a card does not stay open longer than DOOR_OPEN_TIME
\* ticks and the one that locks it, whenever the card is read, unless the agent
\* has stored a value other than 0 and 1 since, which suspends the count (a
\* 0 sent later resumes it).
OpenBounded ==
  relay = "open" /\ opener = "card" /\ agentPc = "idle" /\ ~suspended
    => ticks <= DOOR_OPEN_TIME \/ (timerPc # "idle" /\ ticks = DOOR_OPEN_TIME + 1)

\* An open door is going to be locked, and in time, but for these exceptions.
OpenIsLimited == OpenIsTimed /\ OpenBounded

\* The timer does not lock a door before DOOR_OPEN_TIME ticks have passed since
\* the last card, unless the callback was already running when it was read.
KeepsOpen ==
  [][ relay = "open" /\ relay' = "locked" /\ timerPc = "relay"
        /\ opener = "card" /\ clean
      => ticks > DOOR_OPEN_TIME ]_vars

\* "check if door is not locked then lock the door after delay time"
\* (user_task.c:579): once nobody comes or asks any more the door ends up
\* locked.  The code keeps this but for the two ways of LeftOpen: the check is
\* of doorStatus = 0, and the door may be open while it is something else.
Quiet == <>[][~Grant /\ ~SetDoorStatus]_vars
LocksUnlessLeftOpen == Quiet => <>[](relay = "locked" \/ LeftOpen)

\* The timer locks an open door, never too early, and always but for LeftOpen.
LocksInTime == KeepsOpen /\ LocksUnlessLeftOpen
=============================================================================
