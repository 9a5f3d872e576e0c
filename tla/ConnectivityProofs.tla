------------------------- MODULE ConnectivityProofs -------------------------
(***************************************************************************)
(* Proofs about Connectivity, for every value of its constants: IInv is    *)
(* inductive, it implies the safety invariants that TLC checks on small    *)
(* instances, and the manager's steps implement Uplink.                    *)
(***************************************************************************)
EXTENDS Connectivity, TLAPS

\* The write lists are walked from the head; these are their remainders.
LEMMA Walk ==
  /\ Tail(LinkDown) = << Write("status", "DISCONNECTED"),
                         Write("set", "CONNECTED") >>
  /\ Tail(EthLost) = << Write("active", "none"), Write("set", "CONNECTED") >>
  /\ Tail(GprsLost) = << Write("active", "none"), Write("set", "CONNECTED") >>
  /\ Tail(GprsToEth) = << Write("active", "eth0"),
                          Write("set", "DISCONNECTED") >>
  /\ Tail(EthUp) = << Write("status", "ETHERNET_CONNECTED"),
                      Write("set", "DISCONNECTED") >>
  /\ Tail(GprsUp) = << Write("active", "ppp0") >>
BY DEF LinkDown, EthLost, GprsLost, GprsToEth, EthUp, GprsUp

\* IInv holds initially: no task has run, the modem is off.
LEMMA InitInv == Init => IInv
<1> SUFFICES ASSUME Init PROVE IInv
  OBVIOUS
<1>1. FlagsOK
  BY Zenon DEF Init, FlagsOK
<1>2. NamesOK
  BY DEF Init, NamesOK, Statuses, Interfaces, ModemStates
<1>3. CountersOK
  BY ConnectivityAssumption DEF Init, CountersOK, TickCap
<1>4. ManagerInv
  BY DEF Init, ManagerInv, SettledInv, Settled, State
<1>5. ModemInv
  BY ConnectivityAssumption DEF Init, ModemInv
<1> QED BY <1>1, <1>2, <1>3, <1>4, <1>5 DEF IInv, TypeOK

\* A step of the manager or of the timer leaves the modem's state alone.
LEMMA ModemUntouched ==
  ASSUME ModemInv, UNCHANGED mdm
  PROVE  ModemInv'
BY DEF ModemInv, mdm, mdmOwn, hw
-----------------------------------------------------------------------------
(***************************************************************************)
(* Steps of the manager.                                                   *)
(***************************************************************************)

\* The manager keeps the Boolean variables Boolean.
LEMMA ManagerFlags ==
  ASSUME FlagsOK, Manager
  PROVE  FlagsOK'
<1>1. UNCHANGED <<world, hw, dialError>>
  BY DEF Manager, MgrCheck, MgrPing, MgrSwitch, MgrAgain, MgrWrite, mdm, mdmOwn
<1>2. pingOk' \in BOOLEAN
  BY DEF FlagsOK, Manager, MgrCheck, MgrPing, MgrSwitch, MgrAgain, MgrWrite
<1>3. pingRequested' \in BOOLEAN
  BY DEF FlagsOK, Manager, MgrCheck, MgrPing, MgrSwitch, MgrAgain, MgrWrite,
         SwitchEthernet, SwitchGprs, SwitchDisconnected, EndOfTurn
<1> QED BY <1>1, <1>2, <1>3, Zenon DEF FlagsOK, world, hw

\* The manager keeps its counters, and leaves the modem's alone.
LEMMA ManagerCounters ==
  ASSUME CountersOK, Manager
  PROVE  CountersOK'
<1>1. UNCHANGED <<nRetry, pingCount, pingLostCount>>
  BY DEF Manager, MgrCheck, MgrPing, MgrSwitch, MgrAgain, MgrWrite, mdm, mdmOwn
<1>2. pingTick' \in 0..TickCap
  BY ConnectivityAssumption
     DEF CountersOK, TickCap, Manager, MgrCheck, MgrPing, MgrSwitch, MgrAgain,
         MgrWrite
<1>3. pingRetry' \in 0..(PingRetryMax + 1)
  BY ConnectivityAssumption
     DEF CountersOK, Manager, MgrCheck, MgrPing, MgrSwitch, MgrAgain, MgrWrite,
         SwitchEthernet, SwitchGprs, SwitchDisconnected
<1> QED BY <1>1, <1>2, <1>3 DEF CountersOK

\* One shared write takes the remaining writes to the next remainder.
LEMMA WriteStep ==
  ASSUME NamesOK, ManagerInv, MgrWrite
  PROVE  NamesOK' /\ ManagerInv'
<1>1. UNCHANGED <<currentState, mdmPc>>
  BY DEF MgrWrite, mdm, mdmOwn
<1>2. CASE mgrPc = "drop"
  <2>1. DropInv
    BY <1>2 DEF ManagerInv
  <2>2. ManagerInv'
    <3>1. CASE todo = LinkDown
      <4>1. todo' = Tail(LinkDown) /\ mgrPc' = "drop"
        BY <1>2, <3>1 DEF MgrWrite, LinkDown
      <4>2. State("ETHERNET_CONNECTED", "none", {"DISCONNECTED"})'
        BY <2>1, <3>1 DEF DropInv, State, MgrWrite, LinkDown, Write
      <4> QED BY <4>1, <4>2, Walk DEF ManagerInv, Settled, DropInv, State
    <3>2. CASE todo = << Write("status", "DISCONNECTED"),
                         Write("set", "CONNECTED") >>
      <4>1. todo' = << Write("set", "CONNECTED") >> /\ mgrPc' = "drop"
        BY <1>2, <3>2 DEF MgrWrite
      <4>2. State("DISCONNECTED", "none", ModemStates)'
        BY <2>1, <3>2 DEF DropInv, State, MgrWrite, LinkDown, Write, ModemStates
      <4> QED BY <4>1, <4>2 DEF ManagerInv, Settled, DropInv, State
    <3>3. CASE todo = << Write("set", "CONNECTED") >>
      <4>1. todo' = << >> /\ mgrPc' = "switch"
        BY <1>2, <3>3 DEF MgrWrite
      <4>2. State("DISCONNECTED", "none", {"CONNECTED"})'
        BY <2>1, <3>3 DEF DropInv, State, MgrWrite, LinkDown, Write
      <4> QED BY <4>1, <4>2 DEF ManagerInv, Settled, SettledInv, State
    <3> QED BY <2>1, <3>1, <3>2, <3>3 DEF DropInv
  <2>3. status' \in Statuses /\ activeNetInterface' \in Interfaces
          /\ setState' \in ModemStates
    BY <2>1 DEF DropInv, State, MgrWrite, LinkDown, Write, Statuses,
                Interfaces, ModemStates
  <2>4. mgrPc' \in {"drop", "switch"}
    BY <1>2 DEF MgrWrite
  <2> QED BY <1>1, <2>2, <2>3, <2>4 DEF NamesOK
<1>3. CASE mgrPc = "write"
  <2>1. WriteInv
    BY <1>3 DEF ManagerInv
  <2>2. ManagerInv'
    <3>1. CASE todo = EthLost
      <4>1. todo' = Tail(EthLost) /\ mgrPc' = "write"
        BY <1>3, <3>1 DEF MgrWrite, EthLost
      <4>2. (State("DISCONNECTED", "eth0", {"DISCONNECTED"})
              \/ State("DISCONNECTED", "ppp0", {"CONNECTED"}))'
        BY <2>1, <3>1 DEF WriteInv, State, MgrWrite, Write, ModemStates,
           EthLost, GprsLost, GprsToEth, EthUp, GprsUp
      <4> QED BY <4>1, <4>2, Walk DEF ManagerInv, Settled, WriteInv, State
    <3>2. CASE todo = << Write("active", "none"), Write("set", "CONNECTED") >>
      <4>1. todo' = << Write("set", "CONNECTED") >> /\ mgrPc' = "write"
        BY <1>3, <3>2 DEF MgrWrite
      <4>2. (State("DISCONNECTED", "none", ModemStates))'
        BY <2>1, <3>2 DEF WriteInv, State, MgrWrite, Write, ModemStates,
           EthLost, GprsLost, GprsToEth, EthUp, GprsUp
      <4> QED BY <4>1, <4>2, Walk DEF ManagerInv, Settled, WriteInv, State
    <3>3. CASE todo = << Write("set", "CONNECTED") >>
      <4>1. todo' = << >> /\ mgrPc' = "loop"
        BY <1>3, <3>3 DEF MgrWrite
      <4>2. (State("DISCONNECTED", "none", {"CONNECTED"}))'
        BY <2>1, <3>3 DEF WriteInv, State, MgrWrite, Write, ModemStates,
           EthLost, GprsLost, GprsToEth, EthUp, GprsUp
      <4> QED BY <4>1, <4>2, Walk DEF ManagerInv, Settled, SettledInv, State
    <3>4. CASE todo = GprsToEth
      <4>1. todo' = Tail(GprsToEth) /\ mgrPc' = "write"
        BY <1>3, <3>4 DEF MgrWrite, GprsToEth
      <4>2. (State("ETHERNET_CONNECTED", "ppp0", {"CONNECTED"}))'
        BY <2>1, <3>4 DEF WriteInv, State, MgrWrite, Write, ModemStates,
           EthLost, GprsLost, GprsToEth, EthUp, GprsUp
      <4> QED BY <4>1, <4>2, Walk DEF ManagerInv, Settled, WriteInv, State
    <3>5. CASE todo = << Write("active", "eth0"),
                         Write("set", "DISCONNECTED") >>
      <4>1. todo' = << Write("set", "DISCONNECTED") >> /\ mgrPc' = "write"
        BY <1>3, <3>5 DEF MgrWrite
      <4>2. (State("ETHERNET_CONNECTED", "eth0", ModemStates))'
        BY <2>1, <3>5 DEF WriteInv, State, MgrWrite, Write, ModemStates,
           EthLost, GprsLost, GprsToEth, EthUp, GprsUp
      <4> QED BY <4>1, <4>2, Walk DEF ManagerInv, Settled, WriteInv, State
    <3>6. CASE todo = EthUp
      <4>1. todo' = Tail(EthUp) /\ mgrPc' = "write"
        BY <1>3, <3>6 DEF MgrWrite, EthUp
      <4>2. (State("DISCONNECTED", "eth0", ModemStates))'
        BY <2>1, <3>6 DEF WriteInv, State, MgrWrite, Write, ModemStates,
           EthLost, GprsLost, GprsToEth, EthUp, GprsUp
      <4> QED BY <4>1, <4>2, Walk DEF ManagerInv, Settled, WriteInv, State
    <3>7. CASE todo = << Write("status", "ETHERNET_CONNECTED"),
                         Write("set", "DISCONNECTED") >>
      <4>1. todo' = << Write("set", "DISCONNECTED") >> /\ mgrPc' = "write"
        BY <1>3, <3>7 DEF MgrWrite
      <4>2. (State("ETHERNET_CONNECTED", "eth0", ModemStates))'
        BY <2>1, <3>7 DEF WriteInv, State, MgrWrite, Write, ModemStates,
           EthLost, GprsLost, GprsToEth, EthUp, GprsUp
      <4> QED BY <4>1, <4>2, Walk DEF ManagerInv, Settled, WriteInv, State
    <3>8. CASE todo = << Write("set", "DISCONNECTED") >>
      <4>1. todo' = << >> /\ mgrPc' = "loop"
        BY <1>3, <3>8 DEF MgrWrite
      <4>2. (State("ETHERNET_CONNECTED", "eth0", {"DISCONNECTED"}))'
        BY <2>1, <3>8 DEF WriteInv, State, MgrWrite, Write, ModemStates,
           EthLost, GprsLost, GprsToEth, EthUp, GprsUp
      <4> QED BY <4>1, <4>2, Walk DEF ManagerInv, Settled, SettledInv, State
    <3>9. CASE todo = GprsUp
      <4>1. todo' = Tail(GprsUp) /\ mgrPc' = "write"
        BY <1>3, <3>9 DEF MgrWrite, GprsUp
      <4>2. (State("GPRS_CONNECTED", "none", {"CONNECTED"}))'
        BY <2>1, <3>9 DEF WriteInv, State, MgrWrite, Write, ModemStates,
           EthLost, GprsLost, GprsToEth, EthUp, GprsUp
      <4> QED BY <4>1, <4>2, Walk DEF ManagerInv, Settled, WriteInv, State
    <3>10. CASE todo = << Write("active", "ppp0") >>
      <4>1. todo' = << >> /\ mgrPc' = "loop"
        BY <1>3, <3>10 DEF MgrWrite
      <4>2. (State("GPRS_CONNECTED", "ppp0", {"CONNECTED"}))'
        BY <2>1, <3>10 DEF WriteInv, State, MgrWrite, Write, ModemStates,
           EthLost, GprsLost, GprsToEth, EthUp, GprsUp
      <4> QED BY <4>1, <4>2, Walk DEF ManagerInv, Settled, SettledInv, State
    <3> QED BY <2>1, <3>1, <3>2, <3>3, <3>4, <3>5, <3>6, <3>7, <3>8, <3>9, <3>10
            DEF WriteInv, EthLost, GprsLost
  <2>3. status' \in Statuses /\ activeNetInterface' \in Interfaces
          /\ setState' \in ModemStates
    BY <2>1 DEF WriteInv, State, MgrWrite, EthLost, GprsLost, GprsToEth, EthUp,
                GprsUp, Write, Statuses, Interfaces, ModemStates
  <2>4. mgrPc' \in {"write", "loop"}
    BY <1>3 DEF MgrWrite
  <2> QED BY <1>1, <2>2, <2>3, <2>4 DEF NamesOK
<1> QED BY <1>2, <1>3 DEF MgrWrite

\* The steps that only choose a branch leave the shared variables alone and
\* start that branch's writes from a settled state.
LEMMA BranchStep ==
  ASSUME NamesOK, ManagerInv, MgrCheck \/ MgrPing \/ MgrSwitch \/ MgrAgain
  PROVE  NamesOK' /\ ManagerInv'
<1>1. UNCHANGED <<status, activeNetInterface, setState, currentState, mdmPc>>
  BY DEF MgrCheck, MgrPing, MgrSwitch, MgrAgain, mdm, mdmOwn
<1>2. mgrPc' \in {"loop", "ping", "drop", "switch", "again", "write"}
  BY DEF MgrCheck, MgrPing, MgrSwitch, MgrAgain, SwitchEthernet, SwitchGprs,
         SwitchDisconnected, EndOfTurn, Goto
<1>3. NamesOK'
  BY <1>1, <1>2 DEF NamesOK
<1> SUFFICES ManagerInv'
  BY <1>3
<1>4. Settled /\ SettledInv
  BY DEF ManagerInv, Settled, MgrCheck, MgrPing, MgrSwitch, MgrAgain
<1>5. CASE MgrCheck
  <2>1. mgrPc' = "drop" => todo' = LinkDown /\ status = "ETHERNET_CONNECTED"
    BY <1>5 DEF MgrCheck, Goto
  <2>2. mgrPc' # "drop" => mgrPc' \in {"ping", "switch"} /\ todo' = << >>
    BY <1>5 DEF MgrCheck, Goto
  <2> QED BY <1>1, <1>4, <2>1, <2>2
          DEF ManagerInv, Settled, SettledInv, DropInv, State
<1>6. CASE MgrPing
  BY <1>1, <1>4, <1>6
     DEF ManagerInv, Settled, SettledInv, State, MgrPing, Goto
<1>7. CASE MgrSwitch
  <2>1. CASE SwitchEthernet
    BY <1>1, <1>4, <2>1
       DEF ManagerInv, Settled, SettledInv, WriteInv, State, SwitchEthernet,
           EndOfTurn, Goto
  <2>2. CASE SwitchGprs
    BY <1>1, <1>4, <2>2
       DEF ManagerInv, Settled, SettledInv, WriteInv, State, SwitchGprs,
           EndOfTurn, Goto
  <2>3. CASE SwitchDisconnected
    <3>1. State("DISCONNECTED", "none", ModemStates)
      BY <1>4, <2>3 DEF SettledInv, State, SwitchDisconnected, ModemStates
    <3>2. currentState # "DISCONNECTED" => setState = "CONNECTED"
      BY <1>4, <2>3 DEF SettledInv, State, SwitchDisconnected
    <3>3. \/ mgrPc' = "write" /\ (todo' = EthUp \/ todo' = Dial)
          \/ mgrPc' = "again" /\ todo' = << >>
             /\ currentState # "DISCONNECTED"
      BY <2>3 DEF SwitchDisconnected, Goto
    <3> QED BY <1>1, <1>4, <3>1, <3>2, <3>3
            DEF ManagerInv, Settled, SettledInv, WriteInv, State, Dial
  <2> QED BY <1>7, <2>1, <2>2, <2>3 DEF MgrSwitch
<1>8. CASE MgrAgain
  <2>1. State("DISCONNECTED", "none", {"CONNECTED"})
    BY <1>4, <1>8 DEF MgrAgain, ManagerInv, SettledInv, State
  <2>2. \/ mgrPc' = "write" /\ todo' = GprsUp
        \/ mgrPc' = "loop" /\ todo' = << >>
    BY <1>8 DEF MgrAgain, EndOfTurn, Goto
  <2> QED BY <1>1, <2>1, <2>2
          DEF ManagerInv, Settled, SettledInv, WriteInv, State
<1> QED BY <1>5, <1>6, <1>7, <1>8

\* A whole step of the manager preserves the inductive invariant.
LEMMA ManagerStep ==
  ASSUME IInv, Manager
  PROVE  IInv'
<1>1. ModemInv'
  BY ModemUntouched
     DEF IInv, Manager, MgrCheck, MgrPing, MgrSwitch, MgrAgain, MgrWrite
<1>2. NamesOK' /\ ManagerInv'
  BY BranchStep, WriteStep DEF IInv, TypeOK, Manager
<1> QED BY <1>1, <1>2, ManagerFlags, ManagerCounters DEF IInv, TypeOK
-----------------------------------------------------------------------------
(***************************************************************************)
(* Steps of the timer, the modem task and the world.                       *)
(***************************************************************************)

\* The timer only counts, and stops counting at the cap.
LEMMA TickStep ==
  ASSUME IInv, snmpConnectIncreaseTick
  PROVE  IInv'
<1>1. UNCHANGED <<world, mgr, setState, mdm>>
  BY DEF snmpConnectIncreaseTick
<1>2. pingTick' \in 0..TickCap
  BY ConnectivityAssumption
     DEF IInv, TypeOK, CountersOK, snmpConnectIncreaseTick, TickCap
<1>3. FlagsOK'
  BY <1>1, Zenon DEF IInv, TypeOK, FlagsOK, world, mgr, mgrOwn, mdm, mdmOwn, hw
<1>4. NamesOK'
  BY <1>1 DEF IInv, TypeOK, NamesOK, mgr, mgrOwn, mdm, mdmOwn
<1>5. CountersOK'
  BY <1>1, <1>2 DEF IInv, TypeOK, CountersOK, mgr, mgrOwn, mdm, mdmOwn
<1>6. ManagerInv'
  BY <1>1 DEF IInv, ManagerInv, Settled, SettledInv, DropInv, WriteInv, State,
              mgr, mgrOwn, mdm, mdmOwn
<1>7. ModemInv'
  BY <1>1, ModemUntouched DEF IInv
<1> QED BY <1>3, <1>4, <1>5, <1>6, <1>7 DEF IInv, TypeOK

\* Before the first Dial the modem task only turns round its loop.
LEMMA ManagerUntouched ==
  ASSUME ManagerInv, UNCHANGED <<mgr, setState>>,
         /\ setState = "DISCONNECTED"
         /\ currentState = "DISCONNECTED"
         /\ mdmPc \in {"loop", "second", "watch"}
         => /\ currentState' = "DISCONNECTED"
            /\ mdmPc' \in {"loop", "second", "watch"}
  PROVE  ManagerInv'
BY DEF ManagerInv, mgr, mgrOwn, Settled, SettledInv, DropInv, WriteInv, State

\* A step of the modem task preserves the inductive invariant.
LEMMA ModemStep ==
  ASSUME IInv, Modem
  PROVE  IInv'
<1> USE DEF MdmGoto
<1>1. UNCHANGED <<world, mgr, pingTick, setState>>
  BY DEF Modem, MdmLoop, modemTurnOn, modemInit, modemConnect, MdmTried,
         MdmDialled, MdmSecond, ModemInterfaceDisconnect, MdmHungUp, MdmWatch,
         MdmPing, MdmElsewhere
<1>2. ManagerInv'
  <2>1. /\ setState = "DISCONNECTED" /\ currentState = "DISCONNECTED"
        /\ mdmPc \in {"loop", "second", "watch"}
        => /\ currentState' = "DISCONNECTED"
           /\ mdmPc' \in {"loop", "second", "watch"}
    BY DEF Modem, MdmLoop, modemTurnOn, modemInit, modemConnect, MdmTried,
           MdmDialled, MdmSecond, ModemInterfaceDisconnect, MdmHungUp, MdmWatch,
           MdmPing
  <2> QED BY <1>1, <2>1, ManagerUntouched DEF IInv
<1>3. FlagsOK'
  <2>1. dialError' \in BOOLEAN
    BY DEF IInv, TypeOK, FlagsOK, Modem, MdmLoop, modemTurnOn, modemInit,
           modemConnect, MdmTried, MdmDialled, MdmSecond,
           ModemInterfaceDisconnect, MdmHungUp, MdmWatch, MdmPing
  <2>2. power' \in BOOLEAN /\ session' \in BOOLEAN
    BY DEF IInv, TypeOK, FlagsOK, Modem, MdmLoop, modemTurnOn, modemInit,
           modemConnect, MdmTried, MdmDialled, MdmSecond,
           ModemInterfaceDisconnect, MdmHungUp, MdmWatch, MdmPing, hw
  <2> QED BY <1>1, <2>1, <2>2, Zenon
          DEF IInv, TypeOK, FlagsOK, world, mgr, mgrOwn
<1>4. NamesOK'
  <2>1. mdmPc' \in {"loop", "turnOn", "init", "connect", "tried", "dialled",
                    "second", "hangUp", "hungUp", "watch", "ping", "lost",
                    "dropped"}
    BY DEF Modem, MdmLoop, modemTurnOn, modemInit, modemConnect, MdmTried,
           MdmDialled, MdmSecond, ModemInterfaceDisconnect, MdmHungUp, MdmWatch,
           MdmPing
  <2>2. currentState' \in ModemStates
    BY DEF IInv, TypeOK, NamesOK, ModemStates, Modem, MdmLoop, modemTurnOn,
           modemInit, modemConnect, MdmTried, MdmDialled, MdmSecond,
           ModemInterfaceDisconnect, MdmHungUp, MdmWatch, MdmPing
  <2> QED BY <1>1, <2>1, <2>2 DEF IInv, TypeOK, NamesOK, mgr, mgrOwn
<1>5. CountersOK'
  BY <1>1, ConnectivityAssumption
     DEF IInv, TypeOK, CountersOK, ModemInv, Modem, MdmLoop, modemTurnOn,
         modemInit, modemConnect, MdmTried, MdmDialled, MdmSecond,
         ModemInterfaceDisconnect, MdmHungUp, MdmWatch, MdmPing, mgr, mgrOwn
<1>6. ModemInv'
  <2>1. CASE MdmLoop
    BY <2>1, ConnectivityAssumption
       DEF IInv, TypeOK, CountersOK, NamesOK, ModemStates, ModemInv, hw,
           MdmLoop
  <2>2. CASE modemTurnOn
    BY <2>2, ConnectivityAssumption
       DEF IInv, TypeOK, CountersOK, NamesOK, ModemStates, ModemInv, hw,
           modemTurnOn
  <2>3. CASE modemInit
    BY <2>3, ConnectivityAssumption
       DEF IInv, TypeOK, CountersOK, NamesOK, ModemStates, ModemInv, hw,
           modemInit
  <2>4. CASE modemConnect
    BY <2>4, ConnectivityAssumption
       DEF IInv, TypeOK, CountersOK, NamesOK, ModemStates, ModemInv, hw,
           modemConnect
  <2>5. CASE MdmTried
    BY <2>5, ConnectivityAssumption
       DEF IInv, TypeOK, CountersOK, NamesOK, ModemStates, ModemInv, hw,
           MdmTried
  <2>6. CASE MdmDialled
    BY <2>6, ConnectivityAssumption
       DEF IInv, TypeOK, CountersOK, NamesOK, ModemStates, ModemInv, hw,
           MdmDialled
  <2>7. CASE MdmSecond
    BY <2>7, ConnectivityAssumption
       DEF IInv, TypeOK, CountersOK, NamesOK, ModemStates, ModemInv, hw,
           MdmSecond
  <2>8. CASE ModemInterfaceDisconnect
    BY <2>8, ConnectivityAssumption
       DEF IInv, TypeOK, CountersOK, NamesOK, ModemStates, ModemInv, hw,
           ModemInterfaceDisconnect
  <2>9. CASE MdmHungUp
    BY <2>9, ConnectivityAssumption
       DEF IInv, TypeOK, CountersOK, NamesOK, ModemStates, ModemInv, hw,
           MdmHungUp
  <2>10. CASE MdmWatch
    BY <2>10, ConnectivityAssumption
       DEF IInv, TypeOK, CountersOK, NamesOK, ModemStates, ModemInv, hw,
           MdmWatch
  <2>11. CASE MdmPing
    BY <2>11, ConnectivityAssumption
       DEF IInv, TypeOK, CountersOK, NamesOK, ModemStates, ModemInv, hw,
           MdmPing
  <2> QED BY <2>1, <2>2, <2>3, <2>4, <2>5, <2>6, <2>7, <2>8, <2>9, <2>10, <2>11
          DEF Modem
<1> QED BY <1>2, <1>3, <1>4, <1>5, <1>6 DEF IInv, TypeOK

\* The world changes what the tasks observe, never what they keep; it can
\* close a session but not open one.
LEMMA WorldStep ==
  ASSUME IInv, World
  PROVE  IInv'
<1>1. UNCHANGED <<mgr, pingTick, setState, currentState, mdmOwn, power>>
  BY DEF World
<1>2. FlagsOK'
  <2>1. linkState' \in BOOLEAN /\ lan' \in BOOLEAN /\ cell' \in BOOLEAN
    BY DEF World, world, IInv, TypeOK, FlagsOK
  <2>2. session' \in BOOLEAN
    BY DEF World, IInv, TypeOK, FlagsOK
  <2> QED BY <1>1, <2>1, <2>2, Zenon
          DEF IInv, TypeOK, FlagsOK, mgr, mgrOwn, mdmOwn
<1>3. NamesOK'
  BY <1>1 DEF IInv, TypeOK, NamesOK, mgr, mgrOwn, mdmOwn
<1>4. CountersOK'
  BY <1>1 DEF IInv, TypeOK, CountersOK, mgr, mgrOwn, mdmOwn
<1>5. ManagerInv'
  BY <1>1, ManagerUntouched DEF IInv, mdmOwn
<1>6. ModemInv'
  <2>1. session' = session \/ session' = FALSE
    BY DEF World
  <2> QED BY <1>1, <2>1 DEF IInv, ModemInv, mdmOwn
<1> QED BY <1>2, <1>3, <1>4, <1>5, <1>6 DEF IInv, TypeOK

\* A stuttering step preserves the inductive invariant.
LEMMA StutterStep ==
  ASSUME IInv, UNCHANGED vars
  PROVE  IInv'
<1>1. FlagsOK'
  BY Zenon DEF IInv, TypeOK, FlagsOK, vars, world, mgr, mgrOwn, mdm, mdmOwn, hw
<1>2. NamesOK'
  BY DEF IInv, TypeOK, NamesOK, vars, mgr, mgrOwn, mdm, mdmOwn
<1>3. CountersOK'
  BY DEF IInv, TypeOK, CountersOK, vars, mgr, mgrOwn, mdm, mdmOwn
<1>4. ManagerInv'
  BY ManagerUntouched DEF IInv, vars, mdm, mdmOwn
<1>5. ModemInv'
  BY ModemUntouched DEF IInv, vars
<1> QED BY <1>1, <1>2, <1>3, <1>4, <1>5 DEF IInv, TypeOK

\* IInv is an invariant: every interleaving of the two tasks, the timer and
\* the world keeps it.
THEOREM Inductive == Spec => []IInv
<1>1. Init => IInv
  BY InitInv
<1>2. IInv /\ [Next]_vars => IInv'
  BY ManagerStep, TickStep, ModemStep, WorldStep, StutterStep DEF Next
<1> QED BY <1>1, <1>2, PTL DEF Spec
-----------------------------------------------------------------------------
(***************************************************************************)
(* What IInv gives.                                                        *)
(***************************************************************************)

\* Type correctness, with the bounds of the counters of both tasks.
THEOREM TypeCorrect == Spec => []TypeOK
<1>1. IInv => TypeOK
  BY DEF IInv
<1> QED BY <1>1, Inductive, PTL

\* Status, interface and command to the modem agree whenever the manager is not
\* in the middle of a branch (snmpConnectCheckStatus and
\* interfaceManagerGetActiveInterface).
THEOREM ManagerAgrees == Spec => []Agreement
<1>1. IInv => StatusMatchesInterface
  BY DEF IInv, ManagerInv, Settled, SettledInv, State, StatusMatchesInterface,
         InterfaceOf
<1>2. IInv => CommandMatchesUplink
  BY DEF IInv, ManagerInv, Settled, SettledInv, State, CommandMatchesUplink
<1>3. IInv => Agreement
  BY <1>1, <1>2 DEF Agreement
<1> QED BY <1>3, Inductive, PTL

\* At the top of the modem task's loop the reported state is the real one, and
\* no dialling attempt starts over a live session, however many retries.
THEOREM ModemIsAsReported == Spec => []ModemStateIsReal
<1>1. IInv => ReportedStateIsReal
  BY DEF IInv, ModemInv, ReportedStateIsReal
<1>2. IInv => NoDialOverSession
  BY DEF IInv, ModemInv, NoDialOverSession
<1>3. IInv => ModemStateIsReal
  BY <1>1, <1>2 DEF ModemStateIsReal
<1> QED BY <1>3, Inductive, PTL
-----------------------------------------------------------------------------
(***************************************************************************)
(* The manager implements Uplink.                                          *)
(***************************************************************************)

\* Every shared write of the manager is a step of Uplink or repeats a value.
LEMMA WriteRefines ==
  ASSUME IInv, MgrWrite
  PROVE  [Up!UplinkNext]_(Up!upVars)
<1> USE DEF Up!UplinkNext, Up!upVars, Up!Interfaces, Up!Attach, Up!Withdraw,
            Up!TakeOver, Up!AskDial, Up!AskHangUp
<1>1. CASE mgrPc = "drop"
  <2>1. DropInv
    BY <1>1 DEF IInv, ManagerInv
  <2> QED BY <2>1 DEF DropInv, State, MgrWrite, LinkDown, Write, ModemStates
<1>2. CASE mgrPc = "write"
  <2>1. WriteInv
    BY <1>2 DEF IInv, ManagerInv
  <2> QED BY <2>1 DEF WriteInv, State, MgrWrite, EthLost, GprsLost, GprsToEth,
                      EthUp, GprsUp, Write, ModemStates
<1> QED BY <1>1, <1>2 DEF MgrWrite

\* The manager implements Uplink: each step of the tasks is a step of the
\* abstract uplink or leaves it alone (the writes of snmpConnect_manager.c).
THEOREM Refinement == Spec => UplinkRefined
<1>1. Init => Up!UplinkInit
  BY DEF Init, Up!UplinkInit
<1>2. IInv /\ [Next]_vars => [Up!UplinkNext]_(Up!upVars)
  <2> SUFFICES ASSUME IInv, [Next]_vars
               PROVE  [Up!UplinkNext]_(Up!upVars)
    OBVIOUS
  <2>1. CASE MgrWrite
    BY <2>1, WriteRefines
  <2>2. CASE ~MgrWrite
    <3>1. UNCHANGED <<activeNetInterface, setState>>
      BY <2>2 DEF Next, Manager, MgrCheck, MgrPing, MgrSwitch, MgrAgain,
                  snmpConnectIncreaseTick, Modem, MdmLoop, modemTurnOn,
                  modemInit, modemConnect, MdmTried, MdmDialled, MdmSecond,
                  ModemInterfaceDisconnect, MdmHungUp, MdmWatch, MdmPing,
                  MdmElsewhere, World, vars, mgr
    <3> QED BY <3>1 DEF Up!upVars
  <2> QED BY <2>1, <2>2
<1> QED BY <1>1, <1>2, Inductive, PTL
        DEF Spec, UplinkRefined, Up!UplinkSpec
=============================================================================
