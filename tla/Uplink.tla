------------------------------- MODULE Uplink -------------------------------
(***************************************************************************)
(* What the connection manager promises to the tasks that send data (the   *)
(* MQTT client, the SNMP trap sender, the firmware download): one published*)
(* uplink, and a modem that is switched "make before break".  The detailed *)
(* module Connectivity implements this one.                                *)
(***************************************************************************)
EXTENDS Naturals

VARIABLES
  activeNetInterface,  \* the published uplink: "none", "eth0" or "ppp0"
  setState             \* the state the modem task is asked to reach

Interfaces  == {"none", "eth0", "ppp0"}
ModemStates == {"DISCONNECTED", "CONNECTED"}

upVars == <<activeNetInterface, setState>>

UplinkTypeOK ==
  /\ activeNetInterface \in Interfaces
  /\ setState \in ModemStates

UplinkInit ==
  /\ activeNetInterface = "none"
  /\ setState = "DISCONNECTED"

\* An interface comes up while nothing was published.
Attach(i) ==
  /\ activeNetInterface = "none"
  /\ i \in {"eth0", "ppp0"}
  /\ i = "ppp0" => setState = "CONNECTED"
  /\ activeNetInterface' = i
  /\ UNCHANGED setState

\* The published interface is withdrawn.
Withdraw ==
  /\ activeNetInterface # "none"
  /\ activeNetInterface' = "none"
  /\ UNCHANGED setState

\* Ethernet takes over from GPRS without a gap: the only direct change.
TakeOver ==
  /\ activeNetInterface = "ppp0"
  /\ activeNetInterface' = "eth0"
  /\ UNCHANGED setState

\* The modem is asked to dial only when Ethernet is not published ...
AskDial ==
  /\ activeNetInterface # "eth0"
  /\ setState' = "CONNECTED"
  /\ UNCHANGED activeNetInterface

\* ... and to hang up only once Ethernet is.
AskHangUp ==
  /\ activeNetInterface = "eth0"
  /\ setState' = "DISCONNECTED"
  /\ UNCHANGED activeNetInterface

UplinkNext ==
  \/ \E i \in Interfaces : Attach(i)
  \/ Withdraw
  \/ TakeOver
  \/ AskDial
  \/ AskHangUp

UplinkSpec == UplinkInit /\ [][UplinkNext]_upVars
=============================================================================
