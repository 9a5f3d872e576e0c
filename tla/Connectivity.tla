---------------------------- MODULE Connectivity ----------------------------
(***************************************************************************)
(* The connection manager task (snmpConnect_manager.c), the modem task     *)
(* (modem_interface.c, modem.c) and the one-second timer that drives the   *)
(* manager's ping period.                                                  *)
(*                                                                         *)
(* The tasks share activeNetInterface, the manager's status, its pingTick, *)
(* and the modem's setState and currentState, all without a lock.  A task  *)
(* can be preempted between any two of its accesses, so every access to a  *)
(* shared variable is a step of its own.                                   *)
(*                                                                         *)
(* A definition marked "Slip" is a wrong variant of the one that follows;  *)
(* no action uses it.  It shows that a property would notice the slip.     *)
(***************************************************************************)
EXTENDS Naturals, Sequences

CONSTANTS
  PingSendPeriod,  \* PING_SEND_PERIOD: the manager pings above this many ticks
  PppPingPeriod,   \* PPP_PING_PERIOD: modem loop turns between two PPP pings
  DialRetries,     \* the 5 of ModemInterfaceConnect
  PingRetryMax,    \* the 1 of "pingRetry > 1"
  PingLostMax      \* the 3 of "pingLostCount > 3"

ASSUME ConnectivityAssumption ==
  /\ PingSendPeriod \in Nat
  /\ PppPingPeriod \in Nat \ {0}
  /\ DialRetries \in Nat \ {0}
  /\ PingRetryMax \in Nat
  /\ PingLostMax \in Nat

VARIABLES
  \* the world
  linkState,           \* Ethernet PHY link, kept by the NIC driver
  lan,                 \* the server answers pings sent through Ethernet
  cell,                \* the modem answers and the mobile network carries
  \* the manager's shared state
  status, activeNetInterface, pingTick,
  \* the manager's local state
  mgrPc, pingOk, pingRequested, pingRetry,
  todo,                \* the shared writes the chosen branch still has to do
  \* the modem's shared state
  setState, currentState,
  \* the modem's local state
  mdmPc, nRetry, dialError, pingCount, pingLostCount,
  power, session       \* modem powered; PPP session open

world   == <<linkState, lan, cell>>
mgrOwn  == <<mgrPc, pingOk, pingRequested, pingRetry, todo>>
mgr     == <<status, activeNetInterface, mgrOwn>>
hw      == <<power, session>>
mdmOwn  == <<mdmPc, nRetry, dialError, pingCount, pingLostCount>>
mdm     == <<currentState, mdmOwn, hw>>
vars    == <<world, mgr, pingTick, setState, mdm>>

Statuses    == {"ETHERNET_CONNECTED", "GPRS_CONNECTED", "DISCONNECTED"}
Interfaces  == {"none", "eth0", "ppp0"}
ModemStates == {"DISCONNECTED", "CONNECTED"}

\* pingTick is only compared with the period: it is capped just above it.
TickCap == PingSendPeriod + 1
-----------------------------------------------------------------------------
(***************************************************************************)
(* The shared writes of each branch of the manager, in the code's order.   *)
(***************************************************************************)
Write(x, v) == [var |-> x, val |-> v]

\* Slips: a branch that forgets one of its writes, or swaps two of them.
GprsToEthForgetsModem ==
  << Write("status", "ETHERNET_CONNECTED"), Write("active", "eth0") >>
EthUpHangsUpFirst ==
  << Write("set", "DISCONNECTED"), Write("active", "eth0"),
     Write("status", "ETHERNET_CONNECTED") >>

LinkDown  == << Write("active", "none"), Write("status", "DISCONNECTED"),
                Write("set", "CONNECTED") >>
EthLost   == << Write("status", "DISCONNECTED"), Write("active", "none"),
                Write("set", "CONNECTED") >>
GprsToEth == << Write("status", "ETHERNET_CONNECTED"), Write("active", "eth0"),
                Write("set", "DISCONNECTED") >>
GprsLost  == << Write("status", "DISCONNECTED"), Write("active", "none"),
                Write("set", "CONNECTED") >>
EthUp     == << Write("active", "eth0"), Write("status", "ETHERNET_CONNECTED"),
                Write("set", "DISCONNECTED") >>
Dial      == << Write("set", "CONNECTED") >>
GprsUp    == << Write("status", "GPRS_CONNECTED"), Write("active", "ppp0") >>

Init ==
  /\ linkState \in BOOLEAN /\ lan \in BOOLEAN /\ cell \in BOOLEAN
  /\ status = "DISCONNECTED"
  /\ activeNetInterface = "none"
  /\ pingTick = PingSendPeriod
  /\ mgrPc = "loop" /\ pingOk \in BOOLEAN  \* "status" is not initialised
  /\ pingRequested = FALSE /\ pingRetry = 0 /\ todo = << >>
  /\ setState = "DISCONNECTED" /\ currentState = "DISCONNECTED"
  /\ mdmPc = "loop" /\ nRetry = 0 /\ dialError = TRUE
  /\ pingCount = 0 /\ pingLostCount = 0
  /\ power = FALSE /\ session = FALSE
-----------------------------------------------------------------------------
(***************************************************************************)
(* The manager.                                                            *)
(***************************************************************************)

\* A branch with no shared write goes straight to the delay; the others
\* carry out their writes first, from program point pc.
Goto(pc, plan) ==
  /\ mgrPc' = pc
  /\ todo' = plan

EndOfTurn ==
  /\ Goto("loop", << >>)
  /\ pingRequested' = FALSE

MgrCheck ==
  /\ mgrPc = "loop"
  /\ IF pingTick > PingSendPeriod
       THEN IF linkState
              THEN Goto("ping", << >>)
              ELSE IF status = "ETHERNET_CONNECTED"
                     THEN Goto("drop", LinkDown)
                     ELSE Goto("switch", << >>)
       ELSE Goto("switch", << >>)
  /\ UNCHANGED <<world, status, activeNetInterface, pingTick, setState, mdm,
                 pingOk, pingRequested, pingRetry>>

\* The blocking ping answers or times out; only then is the tick cleared.
MgrPing ==
  /\ mgrPc = "ping"
  /\ pingOk' = (linkState /\ lan)
  /\ pingTick' = 0
  /\ pingRequested' = TRUE
  /\ Goto("switch", << >>)
  /\ UNCHANGED <<world, status, activeNetInterface, setState, mdm, pingRetry>>

SwitchEthernet ==
  /\ status = "ETHERNET_CONNECTED"
  /\ IF pingRequested /\ ~pingOk
       THEN IF pingRetry > PingRetryMax
              THEN /\ pingRetry' = 0
                   /\ Goto("write", EthLost)
                   /\ pingRequested' = FALSE
              ELSE pingRetry' = pingRetry + 1 /\ EndOfTurn
       ELSE UNCHANGED pingRetry /\ EndOfTurn

\* Slip: the branch looks at the ping answer only.
SwitchGprsIgnoresModem ==
  /\ status = "GPRS_CONNECTED"
  /\ IF pingRequested /\ pingOk
       THEN Goto("write", GprsToEth) /\ pingRequested' = FALSE
       ELSE EndOfTurn
  /\ UNCHANGED pingRetry

SwitchGprs ==
  /\ status = "GPRS_CONNECTED"
  /\ IF pingRequested /\ pingOk
       THEN Goto("write", GprsToEth) /\ pingRequested' = FALSE
       ELSE IF currentState = "DISCONNECTED"
              THEN Goto("write", GprsLost) /\ UNCHANGED pingRequested
              ELSE EndOfTurn
  /\ UNCHANGED pingRetry

SwitchDisconnected ==
  /\ status = "DISCONNECTED"
  /\ IF pingRequested /\ pingOk
       THEN Goto("write", EthUp)
       ELSE IF currentState = "DISCONNECTED"
              THEN Goto("write", Dial)
              ELSE Goto("again", << >>)
  /\ UNCHANGED <<pingRequested, pingRetry>>

MgrSwitch ==
  /\ mgrPc = "switch"
  /\ SwitchEthernet \/ SwitchGprs \/ SwitchDisconnected
  /\ UNCHANGED <<world, status, activeNetInterface, pingTick, setState, mdm,
                 pingOk>>

\* The second call of ModemInterfaceGetState in the DISCONNECTED branch.
MgrAgain ==
  /\ mgrPc = "again"
  /\ IF currentState = "CONNECTED"
       THEN Goto("write", GprsUp) /\ UNCHANGED pingRequested
       ELSE EndOfTurn
  /\ UNCHANGED <<world, status, activeNetInterface, pingTick, setState, mdm,
                 pingOk, pingRetry>>

\* One shared write.  After the last one of the link-down branch the task
\* goes on to the switch, after that of any other branch to the delay.
MgrWrite ==
  /\ mgrPc \in {"drop", "write"}
  /\ LET w == Head(todo) IN
       /\ status' = IF w.var = "status" THEN w.val ELSE status
       /\ activeNetInterface' =
            IF w.var = "active" THEN w.val ELSE activeNetInterface
       /\ setState' = IF w.var = "set" THEN w.val ELSE setState
  /\ todo' = Tail(todo)
  /\ IF Len(todo) > 1
       THEN UNCHANGED <<mgrPc, pingRequested>>
       ELSE IF mgrPc = "drop"
              THEN mgrPc' = "switch" /\ UNCHANGED pingRequested
              ELSE mgrPc' = "loop" /\ pingRequested' = FALSE
  /\ UNCHANGED <<world, pingTick, mdm, pingOk, pingRetry>>

Manager == MgrCheck \/ MgrPing \/ MgrSwitch \/ MgrAgain \/ MgrWrite

\* The one-second software timer.
snmpConnectIncreaseTick ==
  /\ pingTick < TickCap
  /\ pingTick' = pingTick + 1
  /\ UNCHANGED <<world, mgr, setState, mdm>>
-----------------------------------------------------------------------------
(***************************************************************************)
(* The modem task.                                                         *)
(***************************************************************************)
MdmGoto(from, to) == mdmPc = from /\ mdmPc' = to

MdmElsewhere == UNCHANGED <<world, mgr, pingTick, setState>>

\* First test of the loop: dial when asked to and not connected.
MdmLoop ==
  /\ IF setState = "CONNECTED" /\ currentState = "DISCONNECTED"
       THEN /\ MdmGoto("loop", "turnOn")
            /\ nRetry' = DialRetries
            /\ dialError' = TRUE
       ELSE MdmGoto("loop", "second") /\ UNCHANGED <<nRetry, dialError>>
  /\ MdmElsewhere
  /\ UNCHANGED <<currentState, pingCount, pingLostCount, hw>>

modemTurnOn ==
  /\ MdmGoto("turnOn", "init")
  /\ nRetry' = nRetry - 1
  /\ power' = TRUE
  /\ MdmElsewhere
  /\ UNCHANGED <<currentState, dialError, pingCount, pingLostCount, session>>

\* The AT dialogue.  On an error the modem is switched off again.
modemInit ==
  /\ IF cell
       THEN MdmGoto("init", "connect") /\ UNCHANGED <<dialError, power>>
       ELSE MdmGoto("init", "tried") /\ dialError' = TRUE /\ power' = FALSE
  /\ MdmElsewhere
  /\ UNCHANGED <<currentState, nRetry, pingCount, pingLostCount, session>>

\* Slip: the error path closes the session but leaves the modem powered.
modemConnectLeavesPower ==
  /\ MdmGoto("connect", "tried")
  /\ dialError' = ~cell
  /\ session' = cell
  /\ UNCHANGED power
  /\ MdmElsewhere
  /\ UNCHANGED <<currentState, nRetry, pingCount, pingLostCount>>

\* Dialling and PPP negotiation.  On an error the session is closed and the
\* modem switched off.
modemConnect ==
  /\ MdmGoto("connect", "tried")
  /\ dialError' = ~cell
  /\ session' = cell
  /\ power' = cell
  /\ MdmElsewhere
  /\ UNCHANGED <<currentState, nRetry, pingCount, pingLostCount>>

\* Slip: the attempts are not limited.
MdmTriedForever ==
  /\ IF setState # "DISCONNECTED" /\ dialError
       THEN MdmGoto("tried", "turnOn")
       ELSE MdmGoto("tried", "dialled")
  /\ MdmElsewhere
  /\ UNCHANGED <<currentState, nRetry, dialError, pingCount, pingLostCount, hw>>

\* End of an attempt: give up when asked to hang up, else try again while
\* there was an error and retries are left.
MdmTried ==
  /\ IF setState # "DISCONNECTED" /\ dialError /\ nRetry > 0
       THEN MdmGoto("tried", "turnOn")
       ELSE MdmGoto("tried", "dialled")
  /\ MdmElsewhere
  /\ UNCHANGED <<currentState, nRetry, dialError, pingCount, pingLostCount, hw>>

MdmDialled ==
  /\ MdmGoto("dialled", "second")
  /\ currentState' = IF dialError THEN currentState ELSE "CONNECTED"
  /\ MdmElsewhere
  /\ UNCHANGED <<nRetry, dialError, pingCount, pingLostCount, hw>>

\* Second test of the loop: hang up when asked to and connected.
MdmSecond ==
  /\ IF setState = "DISCONNECTED" /\ currentState = "CONNECTED"
       THEN MdmGoto("second", "hangUp")
       ELSE MdmGoto("second", "watch")
  /\ MdmElsewhere
  /\ UNCHANGED <<currentState, nRetry, dialError, pingCount, pingLostCount, hw>>

\* ModemInterfaceDisconnect takes seconds before currentState follows.
ModemInterfaceDisconnect ==
  /\ MdmGoto("hangUp", "hungUp") \/ MdmGoto("lost", "dropped")
  /\ session' = FALSE
  /\ power' = FALSE
  /\ MdmElsewhere
  /\ UNCHANGED <<currentState, nRetry, dialError, pingCount, pingLostCount>>

MdmHungUp ==
  /\ \/ MdmGoto("hungUp", "watch") /\ UNCHANGED pingCount
     \/ MdmGoto("dropped", "loop") /\ pingCount' = 0
  /\ currentState' = "DISCONNECTED"
  /\ MdmElsewhere
  /\ UNCHANGED <<nRetry, dialError, pingLostCount, hw>>

MdmWatch ==
  /\ IF currentState = "CONNECTED"
       THEN /\ pingCount' = pingCount + 1
            /\ MdmGoto("watch",
                       IF pingCount + 1 >= PppPingPeriod THEN "ping" ELSE "loop")
       ELSE MdmGoto("watch", "loop") /\ UNCHANGED pingCount
  /\ MdmElsewhere
  /\ UNCHANGED <<currentState, nRetry, dialError, pingLostCount, hw>>

MdmPing ==
  /\ IF cell /\ session
       THEN /\ MdmGoto("ping", "loop")
            /\ pingLostCount' = 0
            /\ pingCount' = 0
       ELSE IF pingLostCount + 1 > PingLostMax
              THEN /\ MdmGoto("ping", "lost")
                   /\ pingLostCount' = 0
                   /\ UNCHANGED pingCount
              ELSE /\ MdmGoto("ping", "loop")
                   /\ pingLostCount' = pingLostCount + 1
                   /\ pingCount' = 0
  /\ MdmElsewhere
  /\ UNCHANGED <<currentState, nRetry, dialError, hw>>

Modem ==
  \/ MdmLoop \/ modemTurnOn \/ modemInit \/ modemConnect \/ MdmTried
  \/ MdmDialled \/ MdmSecond \/ ModemInterfaceDisconnect \/ MdmHungUp
  \/ MdmWatch \/ MdmPing
-----------------------------------------------------------------------------
(***************************************************************************)
(* The world: the cable, the server, and the mobile network come and go; a *)
(* session can be lost while the network is away.                          *)
(***************************************************************************)
World ==
  /\ \/ linkState' = ~linkState /\ UNCHANGED <<lan, cell, session>>
     \/ lan' = ~lan /\ UNCHANGED <<linkState, cell, session>>
     \/ cell' = ~cell /\ UNCHANGED <<linkState, lan, session>>
     \/ ~cell /\ session /\ session' = FALSE /\ UNCHANGED world
  /\ UNCHANGED <<mgr, pingTick, setState, currentState, mdmOwn, power>>

Next == Manager \/ snmpConnectIncreaseTick \/ Modem \/ World

\* Both tasks end every turn with a delay and every wait inside a turn has a
\* time-out, so neither is starved; the timer task has a higher priority.
Fairness ==
  /\ WF_vars(Manager)
  /\ WF_vars(snmpConnectIncreaseTick)
  /\ WF_vars(Modem)

Spec == Init /\ [][Next]_vars
FairSpec == Spec /\ Fairness
-----------------------------------------------------------------------------
(***************************************************************************)
(* Properties.                                                             *)
(***************************************************************************)
FlagsOK ==
  /\ linkState \in BOOLEAN /\ lan \in BOOLEAN /\ cell \in BOOLEAN
  /\ pingOk \in BOOLEAN /\ pingRequested \in BOOLEAN
  /\ dialError \in BOOLEAN
  /\ power \in BOOLEAN /\ session \in BOOLEAN

NamesOK ==
  /\ status \in Statuses
  /\ activeNetInterface \in Interfaces
  /\ mgrPc \in {"loop", "ping", "drop", "switch", "again", "write"}
  /\ setState \in ModemStates /\ currentState \in ModemStates
  /\ mdmPc \in {"loop", "turnOn", "init", "connect", "tried", "dialled",
                "second", "hangUp", "hungUp", "watch", "ping", "lost",
                "dropped"}

CountersOK ==
  /\ pingTick \in 0..TickCap
  /\ pingRetry \in 0..(PingRetryMax + 1)
  /\ nRetry \in 0..DialRetries
  /\ pingCount \in 0..PppPingPeriod
  /\ pingLostCount \in 0..PingLostMax

\* Every variable keeps its type, and the tick, retry and loss counters of
\* both tasks stay within the bounds at which the code compares them.
TypeOK == FlagsOK /\ NamesOK /\ CountersOK

InterfaceOf(st) == CASE st = "ETHERNET_CONNECTED" -> "eth0"
                     [] st = "GPRS_CONNECTED"     -> "ppp0"
                     [] st = "DISCONNECTED"       -> "none"

\* Between two turns of the manager, the status read by the trap sender
\* (snmpConnectCheckStatus) and the interface read by the MQTT client
\* (interfaceManagerGetActiveInterface) tell the same story, however the
\* branches order their unlocked writes.
StatusMatchesInterface ==
  mgrPc \notin {"drop", "write"} => activeNetInterface = InterfaceOf(status)

\* Between two turns of the manager the command given to the modem fits the
\* published uplink: never told to hang up while GPRS is published, never
\* told to dial while Ethernet is.
CommandMatchesUplink ==
  mgrPc \notin {"drop", "write"} =>
    /\ activeNetInterface = "ppp0" => setState = "CONNECTED"
    /\ activeNetInterface = "eth0" => setState = "DISCONNECTED"

\* What the manager publishes and what it asks for agree, although it writes
\* the three variables one by one without its mutex.
Agreement == StatusMatchesInterface /\ CommandMatchesUplink

\* Whatever the path out of a dialling attempt, a modem task that is back at
\* the top of its loop and reports DISCONNECTED has closed the session and
\* switched the modem off; one that reports CONNECTED left it switched on.
ReportedStateIsReal ==
  mdmPc \in {"loop", "watch", "ping"} =>
    /\ currentState = "DISCONNECTED" => ~power /\ ~session
    /\ currentState = "CONNECTED" => power

\* The dialling loop, its early break and its two tests on setState never
\* start a second dial over a live session.
NoDialOverSession ==
  mdmPc \in {"turnOn", "init", "connect"} =>
    ~session /\ currentState = "DISCONNECTED"

\* What the modem task reports, and acts on, is what the modem does.
ModemStateIsReal == ReportedStateIsReal /\ NoDialOverSession

\* The manager implements Uplink: no direct change from Ethernet to GPRS, and
\* the modem is told to hang up only after Ethernet has been published.
Up == INSTANCE Uplink
UplinkRefined == Up!UplinkSpec

\* A good Ethernet path ends up as the published uplink, and stays it,
\* whatever the modem is doing at that time.
EthernetPreferred ==
  <>[](linkState /\ lan) => <>[](activeNetInterface = "eth0")

\* With Ethernet unusable (cable out or server silent) and the mobile network
\* usable for good, GPRS ends up as the uplink and stays it.
GprsFallback ==
  <>[](~(linkState /\ lan) /\ cell) => <>[](activeNetInterface = "ppp0")

\* GPRS may be published over a modem that is being torn down, as currentState
\* follows seconds after the session is closed; such a stale uplink goes away.
StaleGprsWithdrawn ==
  (activeNetInterface = "ppp0" /\ ~session)
    ~> (activeNetInterface # "ppp0" \/ session)

\* A modem that is no longer wanted ends up switched off, also when the order
\* to hang up arrives in the middle of a dialling attempt.
UnwantedModemOff ==
  (setState = "DISCONNECTED" /\ power) ~> (setState = "CONNECTED" \/ ~power)

\* The two tasks settle on the path that works: they fail over and come back,
\* and neither a stale uplink nor an unwanted modem stays.
Settles ==
  EthernetPreferred /\ GprsFallback /\ StaleGprsWithdrawn /\ UnwantedModemOff
-----------------------------------------------------------------------------
(***************************************************************************)
(* The inductive invariant: what the remaining writes of the manager have  *)
(* already done, and what the modem task has done at each of its program   *)
(* points.                                                                 *)
(***************************************************************************)
Settled == mgrPc \notin {"drop", "write"}

State(st, itf, set) ==
  /\ status = st
  /\ activeNetInterface = itf
  /\ setState \in set

\* Nothing is left to write, and the three shared variables agree.  Before
\* the first Dial the modem has not been touched.
SettledInv ==
  /\ todo = << >>
  /\ \/ State("ETHERNET_CONNECTED", "eth0", {"DISCONNECTED"})
     \/ State("GPRS_CONNECTED", "ppp0", {"CONNECTED"})
     \/ State("DISCONNECTED", "none", {"CONNECTED"})
     \/ /\ State("DISCONNECTED", "none", {"DISCONNECTED"})
        /\ currentState = "DISCONNECTED"
        /\ mdmPc \in {"loop", "second", "watch"}

DropInv ==
  \/ todo = LinkDown /\ State("ETHERNET_CONNECTED", "eth0", {"DISCONNECTED"})
  \/ /\ todo = << Write("status", "DISCONNECTED"), Write("set", "CONNECTED") >>
     /\ State("ETHERNET_CONNECTED", "none", {"DISCONNECTED"})
  \/ /\ todo = << Write("set", "CONNECTED") >>
     /\ State("DISCONNECTED", "none", ModemStates)

WriteInv ==
  \/ todo = EthLost /\ State("ETHERNET_CONNECTED", "eth0", {"DISCONNECTED"})
  \/ todo = GprsLost /\ State("GPRS_CONNECTED", "ppp0", {"CONNECTED"})
  \/ /\ todo = << Write("active", "none"), Write("set", "CONNECTED") >>
     /\ \/ State("DISCONNECTED", "eth0", {"DISCONNECTED"})
        \/ State("DISCONNECTED", "ppp0", {"CONNECTED"})
  \/ /\ todo = << Write("set", "CONNECTED") >>
     /\ State("DISCONNECTED", "none", ModemStates)
  \/ todo = GprsToEth /\ State("GPRS_CONNECTED", "ppp0", {"CONNECTED"})
  \/ /\ todo = << Write("active", "eth0"), Write("set", "DISCONNECTED") >>
     /\ State("ETHERNET_CONNECTED", "ppp0", {"CONNECTED"})
  \/ todo = EthUp /\ State("DISCONNECTED", "none", ModemStates)
  \/ /\ todo = << Write("status", "ETHERNET_CONNECTED"),
                  Write("set", "DISCONNECTED") >>
     /\ State("DISCONNECTED", "eth0", ModemStates)
  \/ /\ todo = << Write("set", "DISCONNECTED") >>
     /\ State("ETHERNET_CONNECTED", "eth0", ModemStates)
  \/ todo = GprsUp /\ State("DISCONNECTED", "none", {"CONNECTED"})
  \/ /\ todo = << Write("active", "ppp0") >>
     /\ State("GPRS_CONNECTED", "none", {"CONNECTED"})

ManagerInv ==
  /\ Settled => SettledInv
  /\ mgrPc = "drop" => DropInv
  /\ mgrPc = "write" => WriteInv
  /\ mgrPc = "again" => status = "DISCONNECTED" /\ setState = "CONNECTED"

ModemInv ==
  /\ mdmPc \in {"loop", "second", "watch", "ping"} =>
       IF currentState = "CONNECTED" THEN power ELSE ~power /\ ~session
  /\ mdmPc \in {"turnOn", "init", "connect", "tried", "dialled"} =>
       currentState = "DISCONNECTED"
  /\ mdmPc = "turnOn" => nRetry > 0 /\ ~session
  /\ mdmPc \in {"init", "connect"} => power /\ ~session
  /\ mdmPc \in {"tried", "dialled"} =>
       IF dialError THEN ~power /\ ~session ELSE power
  /\ mdmPc \in {"ping", "hangUp", "lost", "hungUp", "dropped"} =>
       currentState = "CONNECTED"
  /\ mdmPc \in {"hungUp", "dropped"} => ~power /\ ~session
  /\ mdmPc \in {"loop", "second", "turnOn", "init", "connect", "tried",
                "dialled", "hangUp", "hungUp", "watch"} =>
       pingCount < PppPingPeriod

\* The inductive invariant behind the theorems about the manager's unlocked
\* writes (snmpConnect_manager.c) and the modem's reported state.
IInv == TypeOK /\ ManagerInv /\ ModemInv
=============================================================================
