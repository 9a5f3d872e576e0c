----------------------------- MODULE TrapSender -----------------------------
(***************************************************************************)
(* The task that sends SNMP traps (snmp_client.c).  Once per turn it       *)
(* compares every alarm with the value that it handled last and sends a    *)
(* trap for each that differs; from time to time it sends all the alarms   *)
(* in one trap.  A trap is not acknowledged and its result is ignored, so  *)
(* the question is what the server can be left believing.                  *)
(*                                                                         *)
(* hello_task, of the highest priority, updates the alarms (UpdateInfo)    *)
(* between any two steps of this task.  The published uplink is what       *)
(* Uplink promises.                                                        *)
(*                                                                         *)
(* The alarms are numbered in the order of their traps; the last is the    *)
(* access alarm, which shows the user whose card was read and flips a mark *)
(* with every card.                                                        *)
(*                                                                         *)
(* A definition marked "Slip" is a wrong variant of the one that follows;  *)
(* no action uses it.  It shows that a property would notice the slip.     *)
(***************************************************************************)
EXTENDS Naturals

CONSTANTS
  NPlain,       \* the alarms other than access, 9
  NUsers,       \* the users with a card, 5
  NCards,       \* the cards there are: 1..NUsers belong to the users
  Period        \* the seconds between two traps with all the alarms, 30

ASSUME TrapAssumption ==
  /\ NPlain \in Nat \ {0}
  /\ NUsers \in Nat /\ NCards \in Nat /\ NUsers <= NCards
  /\ Period \in Nat

Plain  == 1..NPlain
Access == NPlain + 1
Alarms == 1..Access
Cards  == 1..NCards

\* ACS_FindUserID; 0 stands for a card that is refused.
UserOf(card) == IF card \in 1..NUsers THEN card ELSE 0

VARIABLES
  activeNetInterface,  \* the uplink, see Uplink
  lossy,       \* the network may lose a trap
  \* privateMibBase
  value,       \* alarmGroup: the plain alarms; for access the user
  mark,        \* bit 8 of alarmAccessAlarms
  card,        \* siteInfoAccessId
  \* the trap task
  old, oldMark,           \* alarmGroup's ..._old
  trapStatus_TimePeriod,  \* counted up to Period
  pc, at,      \* the step of the task and the alarm it is about
  context,     \* the interface of the chosen SnmpAgentContext
  packet,      \* what the trap being built says of each alarm ...
  packetCard,  \* ... and of the card
  \* the server
  told, toldCard,
  \* history
  reading,     \* the alarms that were read for a trap not yet dealt with
  missed,      \* the alarms of which the server may be left a wrong view
  odd          \* the cards handled since oldMark was stored are odd in number

base    == <<value, mark, card>>
handled == <<old, oldMark>>
trap    == <<packet, packetCard>>
place   == <<pc, at, context>>
server  == <<told, toldCard>>
history == <<reading, missed, odd>>
vars    == <<activeNetInterface, lossy, base, handled, trapStatus_TimePeriod,
             place, trap, server, history>>

\* Whether the modem is wanted makes no difference here: it always is.
Up == INSTANCE Uplink WITH setState <- "CONNECTED"

Blank == [a \in Alarms |-> 0]

Init ==
  /\ activeNetInterface = "none"
  /\ lossy \in BOOLEAN
  /\ value = Blank /\ mark = FALSE /\ card = 0
  /\ old = Blank /\ oldMark = FALSE
  /\ trapStatus_TimePeriod = 0
  /\ pc = "wait" /\ at = 1 /\ context = "none"
  /\ packet = Blank /\ packetCard = 0
  /\ told = Blank /\ toldCard = 0
  /\ reading = {} /\ missed = {} /\ odd = FALSE
-----------------------------------------------------------------------------
(***************************************************************************)
(* hello_task: UpdateInfo sets the plain alarms from the inputs, and the   *)
(* access alarm when there is a new card.  It does so in one step as no    *)
(* other task can come in between.                                         *)
(***************************************************************************)
Changed(new) == {a \in Alarms : new[a] # value[a]}

NoCard ==
  /\ \E new \in [Plain -> {0, 1}] :
       value' = [a \in Alarms |-> IF a = Access THEN value[a] ELSE new[a]]
  /\ missed' = missed \cup (Changed(value') \cap reading)
  /\ UNCHANGED <<mark, card, odd>>

\* Slip: a card is only noted when it belongs to a user.
CardOfUser(c) ==
  /\ value' = [value EXCEPT ![Access] = UserOf(c)]
  /\ mark' = ~mark
  /\ card' = IF UserOf(c) # 0 THEN c ELSE card
  /\ missed' = missed \cup ({Access} \cap reading)
  /\ odd' = ~odd

NewCard(c) ==
  /\ value' = [value EXCEPT ![Access] = UserOf(c)]
  /\ mark' = ~mark
  /\ card' = c
  /\ missed' = missed \cup ({Access} \cap reading)
  /\ odd' = ~odd

UpdateInfo ==
  /\ \/ NoCard
     \/ \E c \in Cards : NewCard(c)
  /\ UNCHANGED <<activeNetInterface, lossy, handled, trapStatus_TimePeriod,
                 place, trap, server, reading>>

\* SwTimerCallback, once a second.
SwTimerCallback ==
  /\ trapStatus_TimePeriod < Period
  /\ trapStatus_TimePeriod' = trapStatus_TimePeriod + 1
  /\ UNCHANGED <<activeNetInterface, lossy, base, handled, place, trap, server,
                 history>>
-----------------------------------------------------------------------------
(***************************************************************************)
(* The trap task: SnmpSendAlarmTrap.                                       *)
(***************************************************************************)
Goto(l) == pc' = l /\ UNCHANGED <<at, context>>
Begin(l, i) == pc' = l /\ at' = 1 /\ context' = i
End(l) == Begin(l, "none")

\* The context for all the traps of this turn: the uplink is looked at once for
\* Ethernet, and once more for the modem.
LookEthernet ==
  /\ pc = "wait"
  /\ IF activeNetInterface = "eth0" THEN Begin("compare", "eth0") ELSE End("look")
  /\ UNCHANGED <<handled, trap, server, trapStatus_TimePeriod, history>>

\* Slip: without an uplink every alarm counts as handled.
LookAndForget ==
  /\ pc = "look"
  /\ IF activeNetInterface = "ppp0"
       THEN /\ Begin("compare", "ppp0")
            /\ UNCHANGED handled
       ELSE /\ End("period")
            /\ old' = value /\ oldMark' = mark
  /\ UNCHANGED <<trap, server, trapStatus_TimePeriod, history>>

\* Slip: what is not Ethernet is the modem.
LookRegardless ==
  /\ pc = "look"
  /\ Begin("compare", activeNetInterface)
  /\ UNCHANGED <<handled, trap, server, trapStatus_TimePeriod, history>>

LookModem ==
  /\ pc = "look"
  /\ IF activeNetInterface = "ppp0" THEN Begin("compare", "ppp0") ELSE End("period")
  /\ UNCHANGED <<handled, trap, server, trapStatus_TimePeriod, history>>

Advance ==
  IF at < Access
    THEN pc' = "compare" /\ at' = at + 1 /\ UNCHANGED context
    ELSE End("period")

\* SnmpSendTrapType2: the test.
Pending(a) ==
  \/ value[a] # old[a]
  \/ a = Access /\ mark # oldMark

Compare ==
  /\ pc = "compare"
  /\ IF Pending(at) THEN Goto("read") ELSE Advance
  /\ UNCHANGED <<handled, trap, server, trapStatus_TimePeriod, history>>

\* snmpAgentSendTrap: the objects are read one after the other.  The getter of
\* the access alarm hides the mark.
Read ==
  /\ pc = "read"
  /\ packet' = [packet EXCEPT ![at] = value[at]]
  /\ Goto(IF at = Access THEN "readCard" ELSE "deliver")
  /\ reading' = {at} /\ missed' = missed \ {at}
  /\ UNCHANGED <<packetCard, handled, server, trapStatus_TimePeriod, odd>>

ReadCard ==
  /\ pc = "readCard"
  /\ packetCard' = card
  /\ Goto("deliver")
  /\ UNCHANGED <<packet, handled, server, trapStatus_TimePeriod, history>>

\* The trap leaves by the chosen interface.  It arrives when that is the uplink
\* and the network is good; else it may.
Arrives ==
  /\ told' = [a \in Alarms |-> IF a \in reading THEN packet[a] ELSE told[a]]
  /\ toldCard' = IF Access \in reading THEN packetCard ELSE toldCard

IsLost ==
  /\ lossy \/ context # activeNetInterface
  /\ UNCHANGED server

ClearPacket == packet' = Blank /\ packetCard' = 0

Deliver ==
  /\ pc = "deliver"
  /\ \/ Arrives /\ UNCHANGED missed
     \/ IsLost /\ missed' = missed \cup reading
  /\ ClearPacket
  /\ Goto("store")
  /\ UNCHANGED <<handled, trapStatus_TimePeriod, reading, odd>>

\* SnmpSendTrapType2: the value of now is the one that was handled.
Store ==
  /\ pc = "store"
  /\ old' = [old EXCEPT ![at] = value[at]]
  /\ oldMark' = IF at = Access THEN mark ELSE oldMark
  /\ odd' = (odd /\ at # Access)
  /\ reading' = {}
  /\ Advance
  /\ UNCHANGED <<trap, server, trapStatus_TimePeriod, missed>>
-----------------------------------------------------------------------------
(***************************************************************************)
(* The trap task: the trap with all the plain alarms, which looks at the   *)
(* uplink again.  The five traps that are sent before it are of measured   *)
(* values and settings.                                                    *)
(***************************************************************************)
\* Slip: the trap always leaves by the modem.
LookAgainPpp ==
  /\ pc = "period"
  /\ IF trapStatus_TimePeriod < Period THEN End("wait")
     ELSE IF activeNetInterface # "none" THEN Begin("readAll", "ppp0")
     ELSE End("lookAgain")
  /\ UNCHANGED <<handled, trap, server, trapStatus_TimePeriod, history>>

LookAgainEthernet ==
  /\ pc = "period"
  /\ IF trapStatus_TimePeriod < Period THEN End("wait")
     ELSE IF activeNetInterface = "eth0" THEN Begin("readAll", "eth0")
     ELSE End("lookAgain")
  /\ UNCHANGED <<handled, trap, server, trapStatus_TimePeriod, history>>

LookAgainModem ==
  /\ pc = "lookAgain"
  /\ IF activeNetInterface = "ppp0" THEN Begin("readAll", "ppp0") ELSE End("wait")
  /\ UNCHANGED <<handled, trap, server, trapStatus_TimePeriod, history>>

ReadAll ==
  /\ pc = "readAll"
  /\ packet' = [packet EXCEPT ![at] = value[at]]
  /\ IF at < NPlain THEN pc' = "readAll" /\ at' = at + 1
                    ELSE pc' = "deliverAll" /\ at' = 1
  /\ reading' = reading \cup {at} /\ missed' = missed \ {at}
  /\ UNCHANGED <<context, packetCard, handled, server, trapStatus_TimePeriod, odd>>

\* An alarm whose own trap is still pending may change back before that trap:
\* then there is none.
DeliverAll ==
  /\ pc = "deliverAll"
  /\ \/ Arrives /\ missed' = missed \cup {a \in reading : Pending(a)}
     \/ IsLost /\ missed' = missed \cup reading
  /\ ClearPacket
  /\ trapStatus_TimePeriod' = 0
  /\ reading' = {}
  /\ End("wait")
  /\ UNCHANGED <<handled, odd>>

SnmpSendTrapTask ==
  /\ \/ LookEthernet \/ LookModem
     \/ Compare \/ Read \/ ReadCard \/ Deliver \/ Store
     \/ LookAgainEthernet \/ LookAgainModem \/ ReadAll \/ DeliverAll
  /\ UNCHANGED <<activeNetInterface, lossy, base>>
-----------------------------------------------------------------------------
(***************************************************************************)
(* The world: the uplink, the network beyond it, and the restart, after    *)
(* which no alarm is set and none has been handled.                        *)
(***************************************************************************)
UplinkChanges ==
  /\ Up!UplinkNext
  /\ UNCHANGED <<lossy, base, handled, trapStatus_TimePeriod, place,
                 trap, server, history>>

NetworkChanges ==
  /\ lossy' = ~lossy
  /\ UNCHANGED <<activeNetInterface, base, handled, trapStatus_TimePeriod, place,
                 trap, server, history>>

Restart ==
  /\ activeNetInterface' = "none"
  /\ value' = Blank /\ mark' = FALSE /\ card' = 0
  /\ old' = Blank /\ oldMark' = FALSE
  /\ trapStatus_TimePeriod' = 0
  /\ End("wait")
  /\ ClearPacket
  /\ reading' = {} /\ odd' = FALSE
  /\ missed' = missed \cup reading \cup {a \in Alarms : told[a] # 0}
  /\ UNCHANGED <<lossy, server>>

Next ==
  \/ UpdateInfo
  \/ SwTimerCallback
  \/ SnmpSendTrapTask
  \/ UplinkChanges
  \/ NetworkChanges
  \/ Restart

Spec == Init /\ [][Next]_vars

\* The trap task runs again and again, and so does the timer: neither waits for
\* anything but time.
FairSpec ==
  /\ Spec
  /\ WF_vars(SnmpSendTrapTask)
  /\ WF_vars(SwTimerCallback)
-----------------------------------------------------------------------------
\* A trap is only built for an uplink that was there.
TypeOK ==
  /\ Up!UplinkTypeOK
  /\ lossy \in BOOLEAN
  /\ value \in [Alarms -> Nat] /\ old \in [Alarms -> Nat]
  /\ told \in [Alarms -> Nat] /\ packet \in [Alarms -> Nat]
  /\ mark \in BOOLEAN /\ oldMark \in BOOLEAN
  /\ {card, packetCard, toldCard} \subseteq 0..NCards
  /\ trapStatus_TimePeriod \in 0..Period
  /\ pc \in {"wait", "compare", "read", "readCard", "deliver", "store", "period",
             "readAll", "deliverAll", "look", "lookAgain"}
  /\ at \in Alarms /\ context \in Up!Interfaces
  /\ pc \in {"wait", "look", "period", "lookAgain"} <=> context = "none"
  /\ reading \subseteq Alarms /\ missed \subseteq Alarms /\ odd \in BOOLEAN

\* The server is wrong about an alarm only while a trap is pending or being
\* sent, or when the last trap was lost, when the alarm changed between the
\* reading of its value and the storing of it (snmp_client.c:57-64), or when
\* the device restarted.  In particular no change is forgotten while there is
\* no uplink.
ChangesReported ==
  \A a \in Alarms :
    told[a] = value[a] \/ Pending(a) \/ a \in reading \cup missed

\* A card is not taken for the one before it, even when the same user comes
\* twice: a trap is pending, unless an even number of cards with one outcome
\* came between two looks of the task (private_mib_impl.c:1893-1905).
CardsNoticed ==
  odd => Pending(Access)

\* Nothing that happened is forgotten: neither the change of an alarm nor a card.
NothingForgotten ==
  /\ ChangesReported
  /\ CardsNoticed

\* The user and the number that a trap names are of one card, although they are
\* read one after the other: unless the next card came in between.
TrapIsOneCard ==
  told[Access] = UserOf(toldCard) \/ Access \in reading \cup missed

\* Whatever was lost, the server learns the state of an alarm that stays, over
\* an uplink that stays and from a device that does: by the trap with all the
\* alarms, if by no other.
EventuallyReported ==
  <>[][~Restart]_vars =>
    \A a \in Plain, x \in {0, 1}, i \in {"eth0", "ppp0"} :
      <>[](value[a] = x /\ activeNetInterface = i /\ ~lossy) => <>[](told[a] = x)
=============================================================================
