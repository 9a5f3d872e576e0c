-------------------------- MODULE TrapSenderProofs --------------------------
(***************************************************************************)
(* Proofs about TrapSender, for every number of alarms, users and cards    *)
(* and every period.                                                       *)
(*                                                                         *)
(* ChangesReported is not inductive: it compares what the server was told  *)
(* with the alarm of now, and an alarm can change back.  What the steps    *)
(* keep is stronger: the server was told the value that the task takes for *)
(* handled.  An alarm that has another value is then pending.              *)
(***************************************************************************)
EXTENDS TrapSender, TLAPS

\* The alarms that are sure to be told right by the trap under way.
Sure == reading \ missed

ToldOld ==
  \A a \in Alarms : told[a] = old[a] \/ a \in reading \cup missed

\* Which alarms the trap under way is about.
ReadingInv ==
  /\ pc \in {"wait", "look", "compare", "read", "period", "lookAgain"} => reading = {}
  /\ pc \in {"readCard", "deliver", "store"} => reading = {at}
  /\ pc \in {"readAll", "deliverAll"} => reading \subseteq Plain
  /\ pc = "readCard" => at = Access
  /\ pc = "readAll" => at \in Plain

\* What it says of them is so, and once it has arrived the server knows it.
PacketInv ==
  \A a \in Sure :
    /\ pc \in {"readCard", "deliver", "readAll", "deliverAll"} => packet[a] = value[a]
    /\ pc = "store" => told[a] = value[a]

\* The mark differs exactly while an odd number of cards is to be reported.
MarkInv == odd <=> (mark # oldMark)

\* The user and the number of the last card, in the MIB, in the trap and at
\* the server.
CardInv ==
  /\ value[Access] = UserOf(card)
  /\ Access \in Sure =>
       /\ pc = "deliver" => packetCard = card
       /\ pc = "store" => toldCard = card
  /\ Access \notin reading \cup missed => told[Access] = UserOf(toldCard)
-----------------------------------------------------------------------------
\* The sets the indices come from.
LEMMA Ranges ==
  /\ Access \in Alarms /\ Plain \subseteq Alarms /\ Access \notin Plain
  /\ 1 \in Alarms /\ 1 \in Plain
  /\ \A a \in Alarms : a \in Plain \/ a = Access
  /\ \A a \in Alarms : a < Access => a + 1 \in Alarms
  /\ \A a \in Plain : a < NPlain => a + 1 \in Plain
  /\ \A c \in 0..NCards : UserOf(c) \in Nat
  /\ 0 \in 0..NCards /\ UserOf(0) = 0
BY TrapAssumption DEF Access, Alarms, Plain, UserOf

-----------------------------------------------------------------------------
(***************************************************************************)
(* Types.                                                                  *)
(***************************************************************************)
LEMMA TypeInit == Init => TypeOK
<1> SUFFICES ASSUME Init PROVE TypeOK
  OBVIOUS
<1>1. Blank \in [Alarms -> Nat]
  BY DEF Blank
<1>2. 0 \in 0..NCards /\ 0 \in 0..Period /\ 1 \in Alarms
  BY Ranges, TrapAssumption
<1>3. lossy \in BOOLEAN
  BY Zenon DEF Init
<1>4. Up!UplinkTypeOK
  BY DEF Init, Up!UplinkTypeOK, Up!Interfaces, Up!ModemStates
<1> QED BY <1>1, <1>2, <1>3, <1>4 DEF Init, TypeOK, Up!Interfaces

LEMMA TypeUpdate == TypeOK /\ UpdateInfo => TypeOK'
<1> SUFFICES ASSUME TypeOK, UpdateInfo PROVE TypeOK'
  OBVIOUS
<1> USE DEF TypeOK, history, handled, place, trap, server, Up!UplinkTypeOK
<1>1. CASE NoCard
  BY <1>1, Ranges DEF NoCard, UpdateInfo
<1>2. ASSUME NEW c \in Cards, NewCard(c) PROVE TypeOK'
  <2>1. c \in 0..NCards
    BY DEF Cards
  <2>2. UserOf(c) \in Nat
    BY <2>1, Ranges
  <2>3. value' \in [Alarms -> Nat]
    BY <1>2, <2>2 DEF NewCard
  <2>4. card' \in 0..NCards /\ mark' \in BOOLEAN /\ odd' \in BOOLEAN
        /\ missed' \subseteq Alarms
    BY <1>2, <2>1, Ranges DEF NewCard
  <2> QED BY <2>3, <2>4 DEF UpdateInfo
<1> QED BY <1>1, <1>2 DEF UpdateInfo

LEMMA TypeTask == TypeOK /\ SnmpSendTrapTask => TypeOK'
<1> SUFFICES ASSUME TypeOK, SnmpSendTrapTask PROVE TypeOK'
  OBVIOUS
<1> USE Ranges
    DEF TypeOK, base, history, handled, place, trap, server, SnmpSendTrapTask,
        Up!UplinkTypeOK, Up!Interfaces, Up!ModemStates, Goto, Begin, End, Advance, ClearPacket, Blank
<1>1. CASE LookEthernet
  BY <1>1 DEF LookEthernet
<1>2. CASE LookModem
  BY <1>2 DEF LookModem
<1>3. CASE Compare
  BY <1>3 DEF Compare
<1>4. CASE Read
  BY <1>4 DEF Read
<1>5. CASE ReadCard
  BY <1>5 DEF ReadCard
<1>6. CASE Deliver
  BY <1>6 DEF Deliver, Arrives, IsLost
<1>7. CASE Store
  BY <1>7 DEF Store
<1>8. CASE LookAgainEthernet
  BY <1>8 DEF LookAgainEthernet
<1>9. CASE LookAgainModem
  BY <1>9 DEF LookAgainModem
<1>10. CASE ReadAll
  <2>1. packet' \in [Alarms -> Nat] /\ reading' \subseteq Alarms /\ missed' \subseteq Alarms
    BY <1>10 DEF ReadAll
  <2>2. at' \in Alarms /\ pc' \in {"readAll", "deliverAll"} /\ context' = context
    <3>1. at < NPlain => at + 1 \in Alarms
      BY TrapAssumption DEF Alarms, Access
    <3> QED BY <1>10, <3>1 DEF ReadAll
  <2> QED BY <1>10, <2>1, <2>2 DEF ReadAll
<1>11. CASE DeliverAll
  <2>1. told' \in [Alarms -> Nat] /\ toldCard' \in 0..NCards
    BY <1>11 DEF DeliverAll, Arrives, IsLost
  <2>2. missed' \subseteq Alarms /\ reading' = {}
    BY <1>11 DEF DeliverAll
  <2>3. 0 \in 0..Period
    BY TrapAssumption
  <2> QED BY <1>11, <2>1, <2>2, <2>3 DEF DeliverAll
<1> QED BY <1>1, <1>2, <1>3, <1>4, <1>5, <1>6, <1>7, <1>8, <1>9, <1>10, <1>11

LEMMA TypeStep == TypeOK /\ [Next]_vars => TypeOK'
<1> SUFFICES ASSUME TypeOK, [Next]_vars PROVE TypeOK'
  OBVIOUS
<1> USE DEF TypeOK, base, history, handled, place, trap, server
<1>1. CASE SwTimerCallback
  <2>1. trapStatus_TimePeriod' \in 0..Period
    BY <1>1, TrapAssumption DEF SwTimerCallback
  <2> QED BY <1>1, <2>1 DEF SwTimerCallback, Up!UplinkTypeOK
<1>2. CASE UplinkChanges
  <2>1. activeNetInterface' \in Up!Interfaces
    BY <1>2 DEF UplinkChanges, Up!UplinkNext, Up!Attach, Up!Withdraw,
           Up!TakeOver, Up!AskDial, Up!AskHangUp, Up!UplinkTypeOK, Up!Interfaces
  <2> QED BY <1>2, <2>1 DEF UplinkChanges, Up!UplinkTypeOK
<1>3. CASE NetworkChanges
  <2>1. lossy' \in BOOLEAN
    BY <1>3, Zenon DEF NetworkChanges
  <2> QED BY <1>3, <2>1 DEF NetworkChanges, Up!UplinkTypeOK
<1>4. CASE Restart
  <2>1. Blank \in [Alarms -> Nat] /\ 0 \in 0..Period
    BY TrapAssumption DEF Blank
  <2>2. missed' \subseteq Alarms
    BY <1>4 DEF Restart
  <2>3. Up!UplinkTypeOK' /\ context' \in Up!Interfaces
    BY <1>4 DEF Restart, End, Begin, Up!UplinkTypeOK, Up!Interfaces
  <2>4. lossy' \in BOOLEAN /\ mark' \in BOOLEAN /\ oldMark' \in BOOLEAN /\ odd' \in BOOLEAN
    BY <1>4 DEF Restart
  <2> QED BY <1>4, <2>1, <2>2, <2>3, <2>4, Ranges DEF Restart, End, Begin, ClearPacket
<1>5. CASE UNCHANGED vars
  BY <1>5 DEF vars, Up!UplinkTypeOK
<1> QED BY <1>1, <1>2, <1>3, <1>4, <1>5, TypeUpdate, TypeTask DEF Next

\* Every variable keeps its type; a trap is only built for an uplink that was
\* there (SnmpSendAlarmTrap's choice of the context).
THEOREM TypeCorrect == Spec => []TypeOK
BY TypeInit, TypeStep, PTL DEF Spec
-----------------------------------------------------------------------------
(***************************************************************************)
(* The trap under way.                                                     *)
(***************************************************************************)
TrapInv == ReadingInv /\ PacketInv /\ ToldOld /\ MarkInv /\ CardInv

LEMMA InvInit == Init => TrapInv
BY Ranges DEF Init, Blank, TrapInv, ReadingInv, PacketInv, Sure, ToldOld, MarkInv, CardInv

\* An alarm that changes while a trap about it is under way is missed.
LEMMA InvUpdate == TypeOK /\ TrapInv /\ UpdateInfo => TrapInv'
<1> SUFFICES ASSUME TypeOK, TrapInv, UpdateInfo PROVE TrapInv'
  OBVIOUS
<1> USE DEF TypeOK, TrapInv, handled, place, trap, server, Sure
<1>1. ReadingInv'
  BY DEF UpdateInfo, ReadingInv
<1>2. \A a \in Alarms : value'[a] = value[a] \/ a \notin reading' \/ a \in missed'
  <2>1. CASE NoCard
    BY <2>1 DEF UpdateInfo, NoCard, Changed
  <2>2. ASSUME NEW c \in Cards, NewCard(c)
        PROVE  \A a \in Alarms : value'[a] = value[a] \/ a \notin reading' \/ a \in missed'
    BY <2>2 DEF UpdateInfo, NewCard
  <2> QED BY <2>1, <2>2 DEF UpdateInfo
<1>3. missed \subseteq missed'
  BY DEF UpdateInfo, NoCard, NewCard
<1>4. PacketInv'
  BY <1>2, <1>3 DEF UpdateInfo, PacketInv
<1>5. ToldOld'
  BY <1>3 DEF UpdateInfo, ToldOld
<1>6. MarkInv'
  <2>1. CASE NoCard
    BY <2>1 DEF UpdateInfo, NoCard, MarkInv
  <2>2. ASSUME NEW c \in Cards, NewCard(c) PROVE MarkInv'
    <3>1. /\ mark \in BOOLEAN /\ oldMark \in BOOLEAN /\ odd \in BOOLEAN
          /\ mark' = ~mark /\ odd' = ~odd /\ oldMark' = oldMark
      BY <2>2 DEF UpdateInfo, NewCard
    <3>2. CASE mark = oldMark
      BY <3>1, <3>2, Zenon DEF MarkInv
    <3>3. CASE mark # oldMark
      BY <3>1, <3>3, Zenon DEF MarkInv
    <3> QED BY <3>2, <3>3
  <2> QED BY <2>1, <2>2 DEF UpdateInfo
<1>7. CardInv'
  <2>1. CASE NoCard
    BY <2>1, <1>3, Ranges DEF UpdateInfo, NoCard, CardInv
  <2>2. ASSUME NEW c \in Cards, NewCard(c) PROVE CardInv'
    BY <2>2, Ranges DEF UpdateInfo, NewCard, CardInv
  <2> QED BY <2>1, <2>2 DEF UpdateInfo
<1> QED BY <1>1, <1>4, <1>5, <1>6, <1>7

\* A trap that arrives tells of each of its alarms what was read, one that is
\* lost leaves all of them missed.
LEMMA DeliverKeeps == TypeOK /\ TrapInv /\ Deliver /\ UNCHANGED base => TrapInv'
<1> SUFFICES ASSUME TypeOK, TrapInv, Deliver, UNCHANGED base PROVE TrapInv'
  OBVIOUS
<1>1. /\ pc = "deliver" /\ pc' = "store" /\ at' = at
      /\ UNCHANGED <<value, mark, card, old, oldMark, reading, odd>>
  BY DEF Deliver, Goto, base, handled
<1>2. at \in Alarms /\ reading = {at}
  BY <1>1 DEF TypeOK, TrapInv, ReadingInv
<1>3. ReadingInv'
  BY <1>1, <1>2 DEF ReadingInv
<1>4. MarkInv'
  BY <1>1 DEF TrapInv, MarkInv
<1>5. CASE Arrives /\ UNCHANGED missed
  <2>1. /\ \A a \in Alarms : told'[a] = IF a \in reading THEN packet[a] ELSE told[a]
        /\ toldCard' = IF Access \in reading THEN packetCard ELSE toldCard
        /\ missed' = missed
    BY <1>5 DEF Arrives
  <2>2. PacketInv'
    BY <2>1, <1>1, <1>2 DEF TrapInv, PacketInv, Sure
  <2>3. ToldOld'
    BY <2>1, <1>1, <1>2 DEF TrapInv, ToldOld
  <2>4. CardInv'
    BY <2>1, <1>1, <1>2, Ranges DEF TrapInv, CardInv, Sure
  <2> QED BY <1>3, <1>4, <2>2, <2>3, <2>4 DEF TrapInv
<1>6. CASE IsLost /\ missed' = missed \cup reading
  <2>1. told' = told /\ toldCard' = toldCard /\ missed' = missed \cup reading
    BY <1>6 DEF IsLost, server
  <2>2. PacketInv'
    BY <2>1, <1>1 DEF PacketInv, Sure
  <2>3. ToldOld'
    BY <2>1, <1>1 DEF TrapInv, ToldOld
  <2>4. CardInv'
    BY <2>1, <1>1 DEF TrapInv, CardInv, Sure
  <2> QED BY <1>3, <1>4, <2>2, <2>3, <2>4 DEF TrapInv
<1> QED BY <1>5, <1>6 DEF Deliver

LEMMA DeliverAllKeeps == TypeOK /\ TrapInv /\ DeliverAll /\ UNCHANGED base => TrapInv'
<1> SUFFICES ASSUME TypeOK, TrapInv, DeliverAll, UNCHANGED base PROVE TrapInv'
  OBVIOUS
<1>1. /\ pc = "deliverAll" /\ pc' = "wait" /\ reading' = {}
      /\ UNCHANGED <<value, mark, card, old, oldMark, odd>>
  BY DEF DeliverAll, End, Begin, base, handled
<1>2. reading \subseteq Plain
  BY <1>1 DEF TrapInv, ReadingInv
<1>3. ReadingInv' /\ PacketInv'
  BY <1>1 DEF ReadingInv, PacketInv, Sure
<1>4. MarkInv'
  BY <1>1 DEF TrapInv, MarkInv
<1>5. CASE Arrives /\ missed' = missed \cup {a \in reading : Pending(a)}
  <2>1. /\ \A a \in Alarms : told'[a] = IF a \in reading THEN packet[a] ELSE told[a]
        /\ toldCard' = toldCard
    BY <1>2, <1>5, Ranges DEF Arrives
  <2>2. ToldOld'
    <3> SUFFICES ASSUME NEW a \in Alarms PROVE told'[a] = old'[a] \/ a \in reading' \cup missed'
      BY DEF ToldOld
    <3>1. CASE a \in reading /\ ~Pending(a) /\ a \notin missed
      <4>1. packet[a] = value[a]
        BY <1>1, <3>1 DEF TrapInv, PacketInv, Sure
      <4>2. value[a] = old[a]
        BY <3>1 DEF Pending
      <4> QED BY <1>1, <2>1, <3>1, <4>1, <4>2
    <3>2. CASE a \in missed \/ (a \in reading /\ Pending(a))
      BY <1>5, <3>2
    <3>3. CASE a \notin reading
      BY <1>1, <1>5, <2>1, <3>3 DEF TrapInv, ToldOld
    <3> QED BY <3>1, <3>2, <3>3
  <2>3. CardInv'
    BY <2>1, <1>1, <1>2, <1>5, Ranges DEF TrapInv, CardInv, Sure
  <2> QED BY <1>3, <1>4, <2>2, <2>3 DEF TrapInv
<1>6. CASE IsLost /\ missed' = missed \cup reading
  <2>1. told' = told /\ toldCard' = toldCard /\ missed' = missed \cup reading
    BY <1>6 DEF IsLost, server
  <2>2. ToldOld'
    BY <2>1, <1>1 DEF TrapInv, ToldOld
  <2>3. CardInv'
    BY <2>1, <1>1 DEF TrapInv, CardInv, Sure
  <2> QED BY <1>3, <1>4, <2>2, <2>3 DEF TrapInv
<1> QED BY <1>5, <1>6 DEF DeliverAll

LEMMA InvTask == TypeOK /\ TrapInv /\ SnmpSendTrapTask => TrapInv'
<1> SUFFICES ASSUME TypeOK, TrapInv, SnmpSendTrapTask PROVE TrapInv'
  OBVIOUS
<1> USE Ranges
    DEF TypeOK, TrapInv, base, history, handled, place, trap, server, Sure,
        Goto, Begin, End, Advance, ClearPacket, Blank,
        ReadingInv, PacketInv, ToldOld, MarkInv, CardInv
<1>0. UNCHANGED <<value, mark, card>>
  BY DEF SnmpSendTrapTask, base
<1>1. CASE LookEthernet
  BY <1>0, <1>1 DEF LookEthernet
<1>2. CASE LookModem
  BY <1>0, <1>2 DEF LookModem
<1>3. CASE Compare
  BY <1>0, <1>3 DEF Compare
<1>4. CASE Read
  BY <1>0, <1>4 DEF Read
<1>5. CASE ReadCard
  BY <1>0, <1>5 DEF ReadCard
<1>6. CASE Deliver
  BY <1>0, <1>6, DeliverKeeps
<1>7. CASE Store
  BY <1>0, <1>7 DEF Store
<1>8. CASE LookAgainEthernet
  BY <1>0, <1>8 DEF LookAgainEthernet
<1>9. CASE LookAgainModem
  BY <1>0, <1>9 DEF LookAgainModem
<1>10. CASE ReadAll
  BY <1>0, <1>10 DEF ReadAll
<1>11. CASE DeliverAll
  BY <1>0, <1>11, DeliverAllKeeps
<1> QED BY <1>1, <1>2, <1>3, <1>4, <1>5, <1>6, <1>7, <1>8, <1>9, <1>10, <1>11
        DEF SnmpSendTrapTask

LEMMA InvStep == TypeOK /\ TrapInv /\ [Next]_vars => TrapInv'
<1> SUFFICES ASSUME TypeOK, TrapInv, [Next]_vars PROVE TrapInv'
  OBVIOUS
<1> USE DEF TypeOK, TrapInv, base, history, handled, place, trap, server, Sure,
            ReadingInv, PacketInv, ToldOld, MarkInv, CardInv
<1>1. CASE SwTimerCallback
  BY <1>1 DEF SwTimerCallback
<1>2. CASE UplinkChanges
  BY <1>2 DEF UplinkChanges
<1>3. CASE NetworkChanges
  BY <1>3 DEF NetworkChanges
<1>4. CASE Restart
  BY <1>4, Ranges DEF Restart, End, Begin, ClearPacket, Blank
<1>5. CASE UNCHANGED vars
  BY <1>5 DEF vars
<1> QED BY <1>1, <1>2, <1>3, <1>4, <1>5, InvUpdate, InvTask DEF Next

LEMMA Invariance == Spec => [](TypeOK /\ TrapInv)
BY TypeInit, TypeStep, InvInit, InvStep, PTL DEF Spec

\* The server is wrong about an alarm only while a trap is pending or under
\* way, or in the cases that missed lists, and no card is taken for the one
\* before it (SnmpSendTrapType2).
THEOREM NothingIsForgotten == Spec => []NothingForgotten
<1>1. TypeOK /\ TrapInv => NothingForgotten
  BY Ranges DEF TypeOK, TrapInv, ToldOld, MarkInv, NothingForgotten, ChangesReported,
                CardsNoticed, Pending
<1> QED BY <1>1, Invariance, PTL

\* The user and the number in the trap of a card are of one card (the two
\* objects that snmpAgentSendTrap reads one after the other).
THEOREM TrapTellsOneCard == Spec => []TrapIsOneCard
<1>1. TypeOK /\ TrapInv => TrapIsOneCard
  BY DEF TrapInv, CardInv, TrapIsOneCard
<1> QED BY <1>1, Invariance, PTL
=============================================================================
