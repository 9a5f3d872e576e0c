-------------------------- MODULE MqttClientProofs --------------------------
(***************************************************************************)
(* Proofs about MqttClient, for queues of any size, any number of commands *)
(* and bursts of any length: the types (TypeCorrect), what the client      *)
(* believes of its session (ClientStaysConsistent), and that commands are  *)
(* executed and answered at most once and in order (AtMostOnceInOrder).    *)
(*                                                                         *)
(* ClientInv says what each program point of the client task knows.  For   *)
(* the order, OrderInv keeps the places a command can be in apart: along   *)
(* its way from the broker the places hold falling numbers, no queue holds *)
(* a number twice, and together they hold the numbers 1 to sent.           *)
(***************************************************************************)
EXTENDS MqttClient, FiniteSetTheorems, TLAPS

\* The queues, as sequences.
LEMMA HeadTail ==
  ASSUME NEW S, NEW q \in Seq(S), q # << >>
  PROVE  /\ Head(q) \in S /\ Tail(q) \in Seq(S) /\ Len(Tail(q)) = Len(q) - 1
         /\ Len(q) \in Nat /\ Len(q) > 0 /\ Head(q) = q[1]
         /\ \A i \in 1..Len(q) - 1 : Tail(q)[i] = q[i + 1]
OBVIOUS

LEMMA Appended ==
  ASSUME NEW S, NEW q \in Seq(S), NEW m \in S
  PROVE  /\ Append(q, m) \in Seq(S) /\ Len(Append(q, m)) = Len(q) + 1 /\ Len(q) \in Nat
         /\ \A i \in 1..Len(q) : Append(q, m)[i] = q[i]
         /\ Append(q, m)[Len(q) + 1] = m
OBVIOUS

LEMMA EmptyQueue ==
  ASSUME NEW S PROVE << >> \in Seq(S) /\ Len(<< >>) = 0 /\ Answers(<< >>) = {}
BY DEF Answers

LEMMA NoEventCommand ==
  Event \notin Commands /\ Event \in Messages /\ Commands \subseteq Messages
BY MqttAssumption DEF Event, Commands, Messages

LEMMA AnswersAreCommands ==
  /\ \A q \in Seq(Messages) : Answers(q) \subseteq Commands
  /\ \A q \in Seq(Commands) : Answers(q) \subseteq Commands
BY NoEventCommand DEF Answers, Messages

-----------------------------------------------------------------------------
\* What the program points of the client task say of its state.
ClientInv ==
  /\ pc \in {"interface", "connect"} => mqttConnectionState = "CONNECTING"
  /\ Handshake => mqttConnectionState = "CONNECTING"
  /\ pc \in {"loop", "compare"} => mqttConnectionState # "CONNECTING"
  /\ pc \in {"take", "publish"} => mqttConnectionState = "CONNECTED"
  /\ pc = "callback" /\ return \in {"take", "publish"} => mqttConnectionState = "CONNECTED"
  /\ pc = "callback" => inHand \in Commands
  /\ pc # "callback" => inHand = Event
  /\ pc = "publish" \/ (pc = "callback" /\ return = "publish") \/ message = Event
  /\ open <=> mqttConnectionState = "CONNECTED" \/ Handshake
  /\ alive => open
  /\ ~open => wire = << >>
  /\ open \/ pc = "connect" => interface \in seen

Inv == TypeOK /\ ClientInv

LEMMA InvInit == Init => Inv
<1> SUFFICES ASSUME Init PROVE Inv
  OBVIOUS
<1>1. Up!UplinkTypeOK
  BY DEF Init, Up!UplinkTypeOK, Up!Interfaces, Up!ModemStates
<1>2. TypeOK
  <2>1. /\ << >> \in Seq(Commands) /\ << >> \in Seq(Messages) /\ Len(<< >>) <= QueueSize
        /\ 0 \in 0..MaxCommands /\ \A p \in Publishers : 0 \in 0..Burst[p]
    BY MqttAssumption, EmptyQueue
  <2>2. inHand \in Messages /\ message \in Messages /\ handler \in Messages
    BY NoEventCommand DEF Init, Event
  <2> QED BY <1>1, <2>1, <2>2 DEF Init, TypeOK, Up!Interfaces
<1>3. ClientInv
  BY DEF Init, ClientInv, Handshake
<1> QED BY <1>2, <1>3 DEF Inv

\* The steps of the client task on its way to a connection.
LEMMA InvConnecting ==
  Inv /\ (Connect \/ ChooseInterface \/ mqttClientConnect \/ Online) => Inv'
<1> SUFFICES ASSUME Inv, Connect \/ ChooseInterface \/ mqttClientConnect \/ Online PROVE Inv'
  OBVIOUS
<1> USE DEF Inv, Goto
<1>1. CASE Connect
  <2>1. TypeOK'
    BY <1>1 DEF Connect, TypeOK, world, queues, others, history, uplink, Up!UplinkTypeOK
  <2>2. ClientInv'
    BY <1>1 DEF Connect, ClientInv, Handshake, world, TypeOK
  <2> QED BY <2>1, <2>2
<1>2. CASE ChooseInterface
  <2>1. TypeOK'
    BY <1>2 DEF ChooseInterface, TypeOK, world, queues, others, history, uplink, Up!UplinkTypeOK
  <2>2. ClientInv'
    BY <1>2 DEF ChooseInterface, ClientInv, Handshake, world, TypeOK
  <2> QED BY <2>1, <2>2
<1>3. CASE mqttClientConnect
  <2>1. TypeOK'
    BY <1>3, EmptyQueue DEF mqttClientConnect, TypeOK, queues, others, history, uplink, Up!UplinkTypeOK
  <2>2. ClientInv'
    BY <1>3 DEF mqttClientConnect, ClientInv, Handshake, TypeOK
  <2> QED BY <2>1, <2>2
<1>4. CASE Online
  <2>1. TypeOK'
    BY <1>4 DEF Online, TypeOK, world, queues, others, history, uplink, Up!UplinkTypeOK
  <2>2. ClientInv'
    BY <1>4 DEF Online, ClientInv, Handshake, world, TypeOK
  <2> QED BY <2>1, <2>2
<1> QED BY <1>1, <1>2, <1>3, <1>4

\* The steps that close the connection.
LEMMA InvClosing ==
  Inv /\ (ConnectFails \/ ConnectionLost \/ PublishFails \/ CompareInterface) => Inv'
<1> SUFFICES ASSUME Inv, ConnectFails \/ ConnectionLost \/ PublishFails \/ CompareInterface
             PROVE  Inv'
  OBVIOUS
<1> USE DEF Inv, Goto
<1>0. /\ Answers(wire) \subseteq Commands /\ {message} \ {Event} \subseteq Commands
      /\ << >> \in Seq(Commands)
  BY AnswersAreCommands, EmptyQueue DEF TypeOK, Messages
<1>1. CASE ConnectFails
  <2>1. TypeOK'
    BY <1>0, <1>1 DEF ConnectFails, Close, TypeOK, queues, others, uplink, Up!UplinkTypeOK
  <2>2. ClientInv'
    BY <1>1 DEF ConnectFails, Close, ClientInv, Handshake, TypeOK
  <2> QED BY <2>1, <2>2
<1>2. CASE ConnectionLost
  <2>1. TypeOK'
    BY <1>0, <1>2 DEF ConnectionLost, Close, TypeOK, queues, others, uplink, Up!UplinkTypeOK
  <2>2. ClientInv'
    BY <1>2 DEF ConnectionLost, Close, ClientInv, Handshake, TypeOK
  <2> QED BY <2>1, <2>2
<1>3. CASE PublishFails
  <2>1. answered' \subseteq Commands /\ lost' \subseteq Commands
    BY <1>0, <1>3 DEF PublishFails, TypeOK
  <2>2. TypeOK'
    BY <1>0, <1>3, <2>1, NoEventCommand
       DEF PublishFails, Close, TypeOK, queues, others, uplink, Up!UplinkTypeOK
  <2>3. ClientInv'
    BY <1>3 DEF PublishFails, Close, ClientInv, Handshake, TypeOK
  <2> QED BY <2>2, <2>3
<1>4. CASE CompareInterface
  <2>1. activeNetInterface \in Up!Interfaces
    BY DEF TypeOK, Up!UplinkTypeOK
  <2>2. TypeOK'
    BY <1>0, <1>4, <2>1 DEF CompareInterface, Close, TypeOK, queues, others, uplink, Up!UplinkTypeOK
  <2>3. ClientInv'
    BY <1>4 DEF CompareInterface, Close, ClientInv, Handshake, TypeOK
  <2> QED BY <2>2, <2>3
<1> QED BY <1>1, <1>2, <1>3, <1>4

\* The steps of the client task on an open connection.
LEMMA InvConnected ==
  Inv /\ (Receive \/ mqttPublishCallback \/ CallbackTimeout \/ ReceiveTooLong \/ NoEvent
            \/ NothingToPublish \/ Take \/ mqttClientPublish) => Inv'
<1> SUFFICES ASSUME Inv, Receive \/ mqttPublishCallback \/ CallbackTimeout \/ ReceiveTooLong
                           \/ NoEvent \/ NothingToPublish \/ Take \/ mqttClientPublish
             PROVE  Inv'
  OBVIOUS
<1> USE DEF Inv, Goto
<1>1. CASE Receive
  <2>1. inHand' \in Commands /\ wire' \in Seq(Commands)
    BY <1>1, HeadTail DEF Receive, TypeOK
  <2>2. TypeOK'
    BY <1>1, <2>1, NoEventCommand DEF Receive, TypeOK, queues, others, history, uplink, Up!UplinkTypeOK
  <2>3. ClientInv'
    BY <1>1, <2>1 DEF Receive, ClientInv, Handshake, TypeOK
  <2> QED BY <2>2, <2>3
<1>2. CASE mqttPublishCallback
  <2>1. inHand \in Commands
    BY <1>2 DEF mqttPublishCallback, ClientInv
  <2>2. mqttRcvQueue' \in Seq(Commands) /\ Len(mqttRcvQueue') <= QueueSize
    BY <1>2, <2>1, Appended, MqttAssumption DEF mqttPublishCallback, TypeOK
  <2>3. TypeOK'
    BY <1>2, <2>2, NoEventCommand
       DEF mqttPublishCallback, TypeOK, world, others, history, uplink, Up!UplinkTypeOK
  <2>4. ClientInv'
    BY <1>2 DEF mqttPublishCallback, ClientInv, Handshake, TypeOK, world
  <2> QED BY <2>3, <2>4
<1>3. CASE CallbackTimeout
  <2>1. inHand \in Commands
    BY <1>3 DEF CallbackTimeout, ClientInv
  <2>2. TypeOK'
    BY <1>3, <2>1, NoEventCommand
       DEF CallbackTimeout, TypeOK, world, queues, others, uplink, Up!UplinkTypeOK
  <2>3. ClientInv'
    BY <1>3 DEF CallbackTimeout, ClientInv, Handshake, TypeOK, world
  <2> QED BY <2>2, <2>3
<1>4. CASE NoEvent
  <2>1. TypeOK'
    BY <1>4 DEF NoEvent, TypeOK, world, queues, others, history, uplink, Up!UplinkTypeOK
  <2>2. ClientInv'
    BY <1>4 DEF NoEvent, ClientInv, Handshake, TypeOK, world
  <2> QED BY <2>1, <2>2
<1>5. CASE NothingToPublish
  <2>1. TypeOK'
    BY <1>5 DEF NothingToPublish, TypeOK, world, queues, others, history, uplink, Up!UplinkTypeOK
  <2>2. ClientInv'
    BY <1>5 DEF NothingToPublish, ClientInv, Handshake, TypeOK, world
  <2> QED BY <2>1, <2>2
<1>6. CASE Take
  <2>1. /\ message' \in Messages /\ mqttPubQueue' \in Seq(Messages)
        /\ Len(mqttPubQueue') <= QueueSize
    BY <1>6, HeadTail, MqttAssumption DEF Take, TypeOK
  <2>2. TypeOK'
    BY <1>6, <2>1 DEF Take, TypeOK, world, others, history, uplink, Up!UplinkTypeOK
  <2>3. ClientInv'
    BY <1>6 DEF Take, ClientInv, Handshake, TypeOK, world
  <2> QED BY <2>2, <2>3
<1>7. CASE mqttClientPublish
  <2>1. answered' \subseteq Commands
    BY <1>7 DEF mqttClientPublish, TypeOK, Messages
  <2>2. TypeOK'
    BY <1>7, <2>1, NoEventCommand
       DEF mqttClientPublish, TypeOK, world, queues, others, uplink, Up!UplinkTypeOK
  <2>3. ClientInv'
    BY <1>7 DEF mqttClientPublish, ClientInv, Handshake, TypeOK, world
  <2> QED BY <2>2, <2>3
<1>8. CASE ReceiveTooLong
  <2>1. Head(wire) \in Commands /\ wire' \in Seq(Commands)
    BY <1>8, HeadTail DEF ReceiveTooLong, TypeOK
  <2>2. TypeOK'
    BY <1>8, <2>1 DEF ReceiveTooLong, TypeOK, queues, others, uplink, Up!UplinkTypeOK
  <2>3. ClientInv'
    BY <1>8 DEF ReceiveTooLong, ClientInv, Handshake, TypeOK
  <2> QED BY <2>2, <2>3
<1> QED BY <1>1, <1>2, <1>3, <1>4, <1>5, <1>6, <1>7, <1>8

\* The queue of answers and events, after mqttPublishMsg.
LEMMA PublishMsgTypes ==
  ASSUME TypeOK, NEW m \in Messages, mqttPublishMsg(m)
  PROVE  /\ mqttPubQueue' \in Seq(Messages) /\ Len(mqttPubQueue') <= QueueSize
         /\ lost' \subseteq Commands
<1>1. CASE Queued(m)
  BY <1>1, Appended, MqttAssumption DEF Queued, TypeOK
<1>2. CASE NotQueued(m)
  BY <1>2 DEF NotQueued, TypeOK, Messages
<1> QED BY <1>1, <1>2 DEF mqttPublishMsg

LEMMA InvOthers ==
  Inv /\ (mqttMsgHandleTask \/ Publishing \/ World \/ Restart) => Inv'
<1> SUFFICES ASSUME Inv, mqttMsgHandleTask \/ Publishing \/ World \/ Restart PROVE Inv'
  OBVIOUS
<1> USE DEF Inv
<1>0. ASSUME UNCHANGED <<alive, wire, client, seen>> PROVE ClientInv'
  BY <1>0 DEF client, ClientInv, Handshake
<1>1. CASE HandleCommand
  <2>1. handler' \in Commands /\ mqttRcvQueue' \in Seq(Commands) /\ Len(mqttRcvQueue') <= QueueSize
    BY <1>1, HeadTail, MqttAssumption DEF HandleCommand, TypeOK
  <2>2. TypeOK'
    BY <1>1, <2>1, NoEventCommand
       DEF HandleCommand, TypeOK, world, client, uplink, Up!UplinkTypeOK
  <2> QED BY <1>0, <1>1, <2>2 DEF HandleCommand, world
<1>2. CASE Respond
  <2>1. mqttPublishMsg(handler) /\ handler \in Messages
    BY <1>2 DEF Respond, TypeOK
  <2>2. TypeOK'
    BY <1>2, <2>1, PublishMsgTypes, NoEventCommand
       DEF Respond, TypeOK, world, client, uplink, Up!UplinkTypeOK, Event
  <2> QED BY <1>0, <1>2, <2>2 DEF Respond, world
<1>3. CASE hal_system_reset
  <2>1. /\ Answers(wire) \subseteq Commands /\ Answers(mqttRcvQueue) \subseteq Commands
        /\ Answers(mqttPubQueue) \subseteq Commands
        /\ {inHand, message, handler} \ {Event} \subseteq Commands
    BY AnswersAreCommands DEF TypeOK, Messages
  <2>2. \A p \in Publishers : 0 \in 0..Burst[p]
    BY MqttAssumption
  <2>3. /\ << >> \in Seq(Commands) /\ << >> \in Seq(Messages) /\ Len(<< >>) <= QueueSize
        /\ 0 \in Messages
    BY EmptyQueue, MqttAssumption, NoEventCommand DEF Event
  <2>4. TypeOK'
    BY <1>3, <2>1, <2>2, <2>3, NoEventCommand
       DEF hal_system_reset, TypeOK, Up!UplinkTypeOK, Up!Interfaces
  <2>5. ClientInv'
    BY <1>3 DEF hal_system_reset, ClientInv, Handshake
  <2> QED BY <2>4, <2>5
<1>4. ASSUME NEW p \in Publishers, StartBurst(p) PROVE Inv'
  <2>1. \A r \in Publishers : left'[r] \in 0..Burst[r]
    BY <1>4, MqttAssumption DEF StartBurst, TypeOK
  <2>2. TypeOK'
    BY <1>4, <2>1 DEF StartBurst, TypeOK, world, client, queues, history, uplink, Up!UplinkTypeOK
  <2> QED BY <1>0, <1>4, <2>2 DEF StartBurst, world
<1>5. ASSUME NEW p \in Publishers, PublishEvent(p) PROVE Inv'
  <2>1. \A r \in Publishers : left'[r] \in 0..Burst[r]
    BY <1>5, MqttAssumption DEF PublishEvent, TypeOK
  <2>2. TypeOK'
    BY <1>5, <2>1, PublishMsgTypes, NoEventCommand
       DEF PublishEvent, TypeOK, world, client, uplink, Up!UplinkTypeOK
  <2> QED BY <1>0, <1>5, <2>2 DEF PublishEvent, world
<1>6. CASE BrokerSends
  <2>1. sent' \in Commands /\ sent' \in 0..MaxCommands
    BY <1>6, MqttAssumption DEF BrokerSends, TypeOK, Commands
  <2>2. wire' \in Seq(Commands)
    BY <1>6, <2>1, Appended DEF BrokerSends, TypeOK
  <2>3. TypeOK'
    BY <1>6, <2>1, <2>2
       DEF BrokerSends, TypeOK, client, queues, others, history, uplink, Up!UplinkTypeOK
  <2>4. ClientInv'
    BY <1>6 DEF BrokerSends, client, ClientInv, Handshake
  <2> QED BY <2>3, <2>4
<1>7. CASE BrokerFlips
  <2>1. TypeOK'
    BY <1>7 DEF BrokerFlips, TypeOK, client, queues, others, history, uplink, Up!UplinkTypeOK
  <2>2. ClientInv'
    BY <1>7 DEF BrokerFlips, client, ClientInv, Handshake
  <2> QED BY <2>1, <2>2
<1>8. CASE UplinkChanges
  <2>1. activeNetInterface' \in Up!Interfaces
    BY <1>8 DEF UplinkChanges, Up!UplinkNext, Up!Attach, Up!Withdraw, Up!TakeOver, Up!AskDial,
       Up!AskHangUp, Up!Interfaces, TypeOK, Up!UplinkTypeOK
  <2>2. TypeOK'
    BY <1>8, <2>1
       DEF UplinkChanges, TypeOK, client, queues, others, history, Up!UplinkTypeOK, Up!ModemStates
  <2>3. ClientInv'
    BY <1>8 DEF UplinkChanges, client, ClientInv, Handshake
  <2> QED BY <2>2, <2>3
<1> QED BY <1>1, <1>2, <1>3, <1>4, <1>5, <1>6, <1>7, <1>8
        DEF mqttMsgHandleTask, ResetCommand, Publishing, World, Restart

LEMMA InvStep == Inv /\ [Next]_vars => Inv'
<1>1. Inv /\ UNCHANGED vars => Inv'
  BY DEF vars, world, client, queues, others, history, Inv, TypeOK, ClientInv, Handshake,
     Up!UplinkTypeOK
<1> QED BY <1>1, InvConnecting, InvClosing, InvConnected, InvOthers DEF Next, mqttClientTask

LEMMA Invariance == Spec => []Inv
BY InvInit, InvStep, PTL DEF Spec

\* TypeOK: for queues of any length, any number of commands and any bursts the
\* variables keep their types and the queues their size (app_mqtt_client.c).
THEOREM TypeCorrect == Spec => []TypeOK
BY Invariance, PTL DEF Inv

\* ClientConsistent: whatever fails while the client connects, receives or
\* publishes, its state matches the library's connection, and it publishes only
\* over an uplink it has seen since it last looked (app_mqtt_client.c).
THEOREM ClientStaysConsistent == Spec => []ClientConsistent
<1>1. Inv => ClientConsistent
  BY DEF Inv, ClientInv, ClientConsistent, StateMatchesConnection, PublishesOnRecentUplink, Handshake
<1> QED BY <1>1, Invariance, PTL

-----------------------------------------------------------------------------
(***************************************************************************)
(* A command at most once and in order.  InOnePlace counts; the proof is   *)
(* about the sets of commands in each place, which the order keeps apart.  *)
(***************************************************************************)
Held(m)     == {m} \ {Event}
Below(S, T) == \A c \in S, d \in T : c < d

Increasing(q) ==
  \A i, j \in 1..Len(q) : i < j /\ q[i] # Event /\ q[j] # Event => q[i] < q[j]

\* On their way to the handler, and from there to the broker.
OnWire     == Answers(wire)
InCallback == Held(inHand)
Received   == Answers(mqttRcvQueue)
InAnswer   == Held(handler)
ToPublish  == Answers(mqttPubQueue)
InPublish  == Held(message)

\* What was sent earlier is further on its way, on both sides of the handler.
Ordered ==
  /\ Below(executed, Received \union InCallback \union OnWire)
  /\ Below(Received, InCallback \union OnWire) /\ Below(InCallback, OnWire)
  /\ InAnswer \union ToPublish \union InPublish \union answered \subseteq executed
  /\ executed \subseteq 1..sent
  /\ Below(answered, InPublish \union ToPublish \union InAnswer)
  /\ Below(InPublish, ToPublish \union InAnswer) /\ Below(ToPublish, InAnswer)

\* A command that was sent is somewhere, and a lost one nowhere else.
Counted ==
  LET kept == Received \union InCallback \union OnWire \union InAnswer \union ToPublish
                \union InPublish \union answered
  IN lost \intersect kept = {} /\ lost \union kept = 1..sent

Queues == Increasing(wire) /\ Increasing(mqttRcvQueue) /\ Increasing(mqttPubQueue)

OrderInv == Ordered /\ Counted /\ Queues

LEMMA QueueAppend ==
  ASSUME NEW q \in Seq(Messages), NEW m \in Messages
  PROVE  /\ Answers(Append(q, m)) = Answers(q) \union Held(m)
         /\ Increasing(q) /\ Below(Answers(q), Held(m)) => Increasing(Append(q, m))
<1> DEFINE p == Append(q, m)
<1>1. /\ Len(p) = Len(q) + 1 /\ Len(q) \in Nat /\ p[Len(q) + 1] = m
      /\ \A i \in 1..Len(q) : p[i] = q[i]
  BY Appended
<1> HIDE DEF p
<1>2. Answers(p) = Answers(q) \union Held(m)
  <2>1. ASSUME NEW i \in 1..Len(p) PROVE p[i] = m \/ \E j \in 1..Len(q) : p[i] = q[j]
    <3>1. i = Len(q) + 1 \/ i \in 1..Len(q)
      BY <1>1
    <3> QED BY <1>1, <3>1
  <2>2. Len(q) + 1 \in 1..Len(p) /\ \A j \in 1..Len(q) : j \in 1..Len(p)
    BY <1>1
  <2>3. ASSUME NEW c PROVE c \in Answers(p) <=> c \in Answers(q) \union Held(m)
    <3>1. ASSUME c \in Answers(p) PROVE c \in Answers(q) \union Held(m)
      BY <2>1, <3>1 DEF Answers, Held
    <3>2. ASSUME c \in Answers(q) PROVE c \in Answers(p)
      BY <1>1, <2>2, <3>2 DEF Answers
    <3>3. ASSUME c \in Held(m) PROVE c \in Answers(p)
      BY <1>1, <2>2, <3>3 DEF Answers, Held
    <3> QED BY <3>1, <3>2, <3>3
  <2> QED BY <2>3
<1>3. ASSUME Increasing(q), Below(Answers(q), Held(m)) PROVE Increasing(p)
  <2> SUFFICES ASSUME NEW i \in 1..Len(p), NEW j \in 1..Len(p), i < j, p[i] # Event, p[j] # Event
               PROVE  p[i] < p[j]
    BY DEF Increasing
  <2>1. i \in 1..Len(q) /\ p[i] = q[i]
    BY <1>1
  <2>2. CASE j \in 1..Len(q)
    BY <1>1, <1>3, <2>1, <2>2 DEF Increasing
  <2>3. CASE j \notin 1..Len(q)
    <3>1. p[j] = m
      BY <1>1, <2>3
    <3> QED BY <1>3, <2>1, <3>1 DEF Below, Answers, Held
  <2> QED BY <2>2, <2>3
<1> QED BY <1>2, <1>3 DEF p

LEMMA QueueTail ==
  ASSUME NEW q \in Seq(Messages), q # << >>, Increasing(q)
  PROVE  /\ Answers(q) = Held(Head(q)) \union Answers(Tail(q))
         /\ Increasing(Tail(q)) /\ Below(Held(Head(q)), Answers(Tail(q)))
<1> DEFINE t == Tail(q)
<1>1. /\ Len(t) = Len(q) - 1 /\ Len(q) \in Nat /\ Len(q) > 0 /\ Head(q) = q[1]
      /\ \A i \in 1..Len(q) - 1 : t[i] = q[i + 1]
  BY HeadTail
<1> HIDE DEF t
<1>2. \A i \in 1..Len(t) : i + 1 \in 1..Len(q) /\ t[i] = q[i + 1]
  BY <1>1
<1>3. ASSUME NEW i \in 1..Len(q) PROVE q[i] = Head(q) \/ \E j \in 1..Len(t) : q[i] = t[j]
  <2>1. CASE i = 1
    BY <1>1, <2>1
  <2>2. CASE i # 1
    <3>1. i - 1 \in 1..Len(t) /\ q[i] = t[i - 1]
      BY <1>1, <1>2, <2>2
    <3> QED BY <3>1
  <2> QED BY <2>1, <2>2
<1>4. Answers(q) = Held(Head(q)) \union Answers(t)
  <2>1. 1 \in 1..Len(q)
    BY <1>1
  <2> QED BY <1>1, <1>2, <1>3, <2>1 DEF Answers, Held
<1>5. Increasing(t)
  BY <1>1, <1>2 DEF Increasing
<1>6. Below(Held(Head(q)), Answers(t))
  <2> SUFFICES ASSUME NEW i \in 1..Len(t), t[i] # Event, Head(q) # Event PROVE Head(q) < t[i]
    BY DEF Below, Held, Answers
  <2>1. 1 \in 1..Len(q) /\ i + 1 \in 1..Len(q) /\ 1 < i + 1
    BY <1>1
  <2> QED BY <1>1, <1>2, <2>1 DEF Increasing
<1> QED BY <1>4, <1>5, <1>6 DEF t

LEMMA QueueEmpty == Answers(<< >>) = {} /\ Increasing(<< >>)
BY EmptyQueue DEF Increasing

\* An increasing queue holds a command at most once.
LEMMA TimesOne ==
  ASSUME NEW q \in Seq(Messages), Increasing(q), NEW c \in Commands
  PROVE  Times(c, q) = One(c \in Answers(q))
<1> DEFINE S == {i \in 1..Len(q) : q[i] = c}
<1>0. c # Event /\ c \in Nat /\ Len(q) \in Nat
  BY NoEventCommand, MqttAssumption DEF Commands
<1>1. CASE c \in Answers(q)
  <2>1. PICK i \in 1..Len(q) : q[i] = c
    BY <1>1 DEF Answers
  <2>2. \A j \in 1..Len(q) : q[j] = c => j = i
    <3> SUFFICES ASSUME NEW j \in 1..Len(q), q[j] = c, j # i PROVE FALSE
      OBVIOUS
    <3>1. i < j \/ j < i
      BY <1>0
    <3> QED BY <1>0, <2>1, <3>1 DEF Increasing
  <2>3. S = {i}
    BY <2>1, <2>2
  <2>4. Cardinality(S) = 1
    BY <2>3, FS_Singleton
  <2> QED BY <1>1, <2>4 DEF Times, One
<1>2. CASE c \notin Answers(q)
  <2>1. S = {}
    BY <1>0, <1>2 DEF Answers
  <2>2. Cardinality(S) = 0
    BY <2>1, FS_EmptySet
  <2> QED BY <1>2, <2>2 DEF Times, One
<1> QED BY <1>1, <1>2

LEMMA CommandQueues == Seq(Commands) \subseteq Seq(Messages)
BY NoEventCommand

\* The places are apart, so that a command is counted once.
LEMMA OnePlace == Inv /\ OrderInv => InOnePlace
<1> SUFFICES ASSUME Inv, OrderInv, NEW c \in 1..sent PROVE Places(c) = 1
  BY DEF InOnePlace
<1>1. c \in Commands /\ c # Event /\ c \in Nat
  BY MqttAssumption, NoEventCommand DEF Inv, TypeOK, Commands
<1>2. /\ Times(c, wire) = One(c \in OnWire) /\ Times(c, mqttRcvQueue) = One(c \in Received)
      /\ Times(c, mqttPubQueue) = One(c \in ToPublish)
  BY <1>1, TimesOne, CommandQueues
     DEF Inv, TypeOK, OrderInv, Queues, OnWire, Received, ToPublish
<1>3. /\ (inHand = c <=> c \in InCallback) /\ (handler = c <=> c \in InAnswer)
      /\ (message = c <=> c \in InPublish)
  BY <1>1 DEF InCallback, InAnswer, InPublish, Held
<1>4. \/ c \in OnWire \/ c \in InCallback \/ c \in Received \/ c \in InAnswer
      \/ c \in ToPublish \/ c \in InPublish \/ c \in answered \/ c \in lost
  BY DEF OrderInv, Counted
<1>5. c \in OnWire => c \notin InCallback \union Received \union executed \union lost
  BY <1>1 DEF OrderInv, Ordered, Counted, Below
<1>6. c \in InCallback => c \notin Received \union executed \union lost
  BY <1>1 DEF OrderInv, Ordered, Counted, Below
<1>7. c \in Received => c \notin executed \union lost
  BY <1>1 DEF OrderInv, Ordered, Counted, Below
<1>8. c \in InAnswer => c \notin ToPublish \union InPublish \union answered \union lost
  BY <1>1 DEF OrderInv, Ordered, Counted, Below
<1>9. c \in ToPublish => c \notin InPublish \union answered \union lost
  BY <1>1 DEF OrderInv, Ordered, Counted, Below
<1>10. c \in InPublish => c \notin answered \union lost
  BY <1>1 DEF OrderInv, Ordered, Counted, Below
<1>11. c \in answered => c \notin lost
  BY DEF OrderInv, Counted
<1>12. c \in InAnswer \union ToPublish \union InPublish \union answered => c \in executed
  BY DEF OrderInv, Ordered
<1>13. Places(c) = One(c \in OnWire) + One(c \in InCallback) + One(c \in Received)
                     + One(c \in InAnswer) + One(c \in ToPublish) + One(c \in InPublish)
                     + One(c \in answered) + One(c \in lost)
  BY <1>2, <1>3 DEF Places, One
<1> QED BY <1>4, <1>5, <1>6, <1>7, <1>8, <1>9, <1>10, <1>11, <1>12, <1>13 DEF One

\* What does not change in a place keeps it in order.
LEMMA PlacesUnchanged ==
  /\ wire' = wire => OnWire' = OnWire /\ Increasing(wire') = Increasing(wire)
  /\ inHand' = inHand => InCallback' = InCallback
  /\ mqttRcvQueue' = mqttRcvQueue =>
       Received' = Received /\ Increasing(mqttRcvQueue') = Increasing(mqttRcvQueue)
  /\ handler' = handler => InAnswer' = InAnswer
  /\ mqttPubQueue' = mqttPubQueue =>
       ToPublish' = ToPublish /\ Increasing(mqttPubQueue') = Increasing(mqttPubQueue)
  /\ message' = message => InPublish' = InPublish
BY DEF OnWire, InCallback, Received, InAnswer, ToPublish, InPublish

\* Commands are only dropped: they are counted as lost, and the rest stays in order.
LEMMA Dropping ==
  ASSUME OrderInv, Queues',
         NEW X, lost' = lost \union X,
         X \subseteq Received \union InCallback \union OnWire \union InAnswer \union ToPublish
                       \union InPublish,
         Received' = Received \ X, InCallback' = InCallback \ X, OnWire' = OnWire \ X,
         InAnswer' = InAnswer \ X, ToPublish' = ToPublish \ X, InPublish' = InPublish \ X,
         executed' = executed, answered' = answered, sent' = sent
  PROVE  OrderInv'
<1>1. sent' = sent
  OBVIOUS
<1>2. X \intersect answered = {}
  BY DEF OrderInv, Ordered, Below, Counted
<1>3. Ordered'
  BY DEF OrderInv, Ordered, Below
<1>4. Counted'
  BY <1>2 DEF OrderInv, Counted
<1> QED BY <1>3, <1>4 DEF OrderInv

LEMMA Apart ==
  ASSUME Inv, OrderInv
  PROVE  /\ OnWire \intersect (InCallback \union Received \union executed) = {}
         /\ InCallback \intersect (Received \union executed) = {}
         /\ Received \intersect executed = {}
         /\ InAnswer \intersect (ToPublish \union InPublish \union answered) = {}
         /\ ToPublish \intersect (InPublish \union answered) = {}
         /\ InPublish \intersect answered = {}
         /\ InAnswer \union ToPublish \union InPublish \union answered \subseteq executed
<1>1. \A c \in OnWire \union InCallback \union Received \union executed : c \in Nat
  <2>1. OnWire \union InCallback \union Received \union executed \subseteq Commands
    BY AnswersAreCommands DEF Inv, TypeOK, OnWire, InCallback, Received, Held, Messages
  <2> QED BY <2>1, MqttAssumption DEF Commands
<1> QED BY <1>1 DEF OrderInv, Ordered, Below

LEMMA OrderInit == Init => OrderInv
<1> SUFFICES ASSUME Init PROVE OrderInv
  OBVIOUS
<1>1. /\ OnWire = {} /\ InCallback = {} /\ Received = {} /\ InAnswer = {} /\ ToPublish = {}
      /\ InPublish = {} /\ executed = {} /\ answered = {} /\ lost = {} /\ sent = 0 /\ Queues
  BY QueueEmpty DEF Init, OnWire, InCallback, Received, InAnswer, ToPublish, InPublish, Held,
     Event, Queues
<1> QED BY <1>1 DEF OrderInv, Ordered, Below, Counted

\* The connection is closed: what the client has not read is lost.
LEMMA OrderClosing ==
  ASSUME Inv, OrderInv, ConnectFails \/ ConnectionLost \/ CompareInterface
  PROVE  OrderInv'
<1>0. UNCHANGED <<inHand, mqttRcvQueue, handler, mqttPubQueue, message, executed, answered, sent>>
  BY DEF ConnectFails, ConnectionLost, CompareInterface, queues, others
<1>1. CASE wire' = << >> /\ lost' = lost \union Answers(wire)
  <2>1. OnWire' = {} /\ Increasing(wire') /\ lost' = lost \union OnWire
    BY <1>1, QueueEmpty DEF OnWire
  <2>2. Queues'
    BY <1>0, <2>1, PlacesUnchanged DEF Queues, OrderInv
  <2> QED BY <1>0, <2>1, <2>2, PlacesUnchanged, Apart, Dropping
<1>2. CASE wire' = wire /\ lost' = lost
  BY <1>0, <1>2, PlacesUnchanged DEF OrderInv, Ordered, Counted, Queues
<1> QED BY <1>1, <1>2 DEF ConnectFails, ConnectionLost, CompareInterface, Close

\* A message that was not acknowledged arrived or is lost.
LEMMA OrderPublishFails ==
  ASSUME Inv, OrderInv, PublishFails
  PROVE  OrderInv'
<1>0. /\ UNCHANGED <<inHand, mqttRcvQueue, handler, mqttPubQueue, executed, sent>>
      /\ wire' = << >> /\ message' = Event
  BY DEF PublishFails, Close, queues, others
<1>1. OnWire' = {} /\ Increasing(wire') /\ InPublish' = {}
  BY <1>0, QueueEmpty DEF OnWire, InPublish, Held
<1>2. Queues'
  BY <1>0, <1>1, PlacesUnchanged DEF Queues, OrderInv
<1>3. CASE answered' = answered /\ lost' = lost \union Answers(wire) \union ({message} \ {Event})
  <2>1. lost' = lost \union (OnWire \union InPublish)
    BY <1>3 DEF OnWire, InPublish, Held
  <2>2. /\ InCallback' = InCallback /\ Received' = Received /\ InAnswer' = InAnswer
        /\ ToPublish' = ToPublish
    BY <1>0, PlacesUnchanged
  <2> DEFINE X == OnWire \union InPublish
  <2>3. /\ Received' = Received \ X /\ InCallback' = InCallback \ X
        /\ InAnswer' = InAnswer \ X /\ ToPublish' = ToPublish \ X
    BY <2>2, Apart
  <2>4. OnWire' = OnWire \ X /\ InPublish' = InPublish \ X
    BY <1>1
  <2> QED BY <1>0, <1>2, <1>3, <2>1, <2>3, <2>4, Dropping
<1>4. CASE /\ answered' = answered \union ({message} \ {Event})
           /\ lost' = lost \union Answers(wire)
  <2>1. answered' = answered \union InPublish /\ lost' = lost \union OnWire
    BY <1>4 DEF OnWire, InPublish, Held
  <2>2. /\ InCallback' = InCallback /\ Received' = Received /\ InAnswer' = InAnswer
        /\ ToPublish' = ToPublish /\ executed' = executed /\ sent' = sent
    BY <1>0, PlacesUnchanged
  <2>3. Ordered'
    BY <1>1, <2>1, <2>2 DEF OrderInv, Ordered, Below
  <2>4. Counted'
    BY <1>1, <2>1, <2>2, Apart DEF OrderInv, Counted
  <2> QED BY <1>2, <2>3, <2>4 DEF OrderInv
<1>5. PICK arrived \in BOOLEAN :
        /\ answered' = IF arrived THEN answered \union ({message} \ {Event}) ELSE answered
        /\ lost' = lost \union Answers(wire)
                    \union (IF arrived THEN {} ELSE {message} \ {Event})
  BY Zenon DEF PublishFails
<1>6. CASE arrived
  BY <1>4, <1>5, <1>6
<1>7. CASE ~arrived
  BY <1>3, <1>5, <1>7
<1> QED BY <1>6, <1>7

\* The steps of the client that move a command on.
LEMMA OrderMoves ==
  ASSUME Inv, OrderInv, Receive \/ mqttPublishCallback \/ CallbackTimeout
                         \/ ReceiveTooLong \/ Take \/ mqttClientPublish
  PROVE  OrderInv'
<1>1. CASE Receive
  <2>1. /\ wire # << >> /\ inHand' = Head(wire) /\ wire' = Tail(wire) /\ inHand = Event
        /\ UNCHANGED <<mqttRcvQueue, handler, mqttPubQueue, message, executed, answered, lost, sent>>
    BY <1>1 DEF Receive, queues, others, history, Inv, ClientInv
  <2>2. wire \in Seq(Messages) /\ Increasing(wire)
    BY CommandQueues DEF Inv, TypeOK, OrderInv, Queues
  <2>3. /\ OnWire = InCallback' \union OnWire' /\ Increasing(wire') /\ InCallback = {}
        /\ Below(InCallback', OnWire')
    BY <2>1, <2>2, QueueTail DEF OnWire, InCallback, Held
  <2>4. /\ Received' = Received /\ InAnswer' = InAnswer /\ ToPublish' = ToPublish
        /\ InPublish' = InPublish
    BY <2>1, PlacesUnchanged
  <2>5. Ordered' /\ Counted'
    BY <2>1, <2>3, <2>4 DEF OrderInv, Ordered, Below, Counted
  <2> QED BY <2>1, <2>3, <2>5, PlacesUnchanged DEF OrderInv, Queues
<1>2. CASE mqttPublishCallback
  <2>1. /\ mqttRcvQueue' = Append(mqttRcvQueue, inHand) /\ inHand' = Event
        /\ UNCHANGED <<wire, handler, mqttPubQueue, message, executed, answered, lost, sent>>
    BY <1>2 DEF mqttPublishCallback, world, others, history
  <2>2. mqttRcvQueue \in Seq(Messages) /\ inHand \in Messages /\ Increasing(mqttRcvQueue)
        /\ Below(Answers(mqttRcvQueue), Held(inHand))
    BY CommandQueues DEF Inv, TypeOK, OrderInv, Queues, Ordered, Received, InCallback, Below
  <2>3. Received' = Received \union InCallback /\ InCallback' = {} /\ Increasing(mqttRcvQueue')
    BY <2>1, <2>2, QueueAppend DEF Received, InCallback, Held
  <2>4. /\ OnWire' = OnWire /\ InAnswer' = InAnswer /\ ToPublish' = ToPublish
        /\ InPublish' = InPublish
    BY <2>1, PlacesUnchanged
  <2>5. Ordered' /\ Counted'
    BY <2>1, <2>3, <2>4 DEF OrderInv, Ordered, Below, Counted
  <2> QED BY <2>1, <2>3, <2>5, PlacesUnchanged DEF OrderInv, Queues
<1>3. CASE CallbackTimeout
  <2>1. /\ lost' = lost \union {inHand} /\ inHand' = Event /\ inHand \in Commands
        /\ UNCHANGED <<wire, mqttRcvQueue, handler, mqttPubQueue, message, executed, answered, sent>>
    BY <1>3 DEF CallbackTimeout, world, queues, others, Inv, ClientInv
  <2>2. InCallback = {inHand} /\ InCallback' = {}
    BY <2>1, NoEventCommand DEF InCallback, Held
  <2>3. Queues'
    BY <2>1, PlacesUnchanged DEF Queues, OrderInv
  <2> QED BY <2>1, <2>2, <2>3, PlacesUnchanged, Apart, Dropping
<1>4. CASE Take
  <2>1. /\ mqttPubQueue # << >> /\ message' = Head(mqttPubQueue)
        /\ mqttPubQueue' = Tail(mqttPubQueue) /\ message = Event
        /\ UNCHANGED <<wire, inHand, mqttRcvQueue, handler, executed, answered, lost, sent>>
    BY <1>4 DEF Take, world, others, history, Inv, ClientInv
  <2>2. mqttPubQueue \in Seq(Messages) /\ Increasing(mqttPubQueue)
    BY DEF Inv, TypeOK, OrderInv, Queues
  <2>3. /\ ToPublish = InPublish' \union ToPublish' /\ Increasing(mqttPubQueue')
        /\ InPublish = {} /\ Below(InPublish', ToPublish')
    BY <2>1, <2>2, QueueTail DEF ToPublish, InPublish, Held
  <2>4. /\ OnWire' = OnWire /\ InCallback' = InCallback /\ Received' = Received
        /\ InAnswer' = InAnswer
    BY <2>1, PlacesUnchanged
  <2>5. Ordered' /\ Counted'
    BY <2>1, <2>3, <2>4 DEF OrderInv, Ordered, Below, Counted
  <2> QED BY <2>1, <2>3, <2>5, PlacesUnchanged DEF OrderInv, Queues
<1>5. CASE mqttClientPublish
  <2>1. /\ answered' = answered \union InPublish /\ message' = Event
        /\ UNCHANGED <<wire, inHand, mqttRcvQueue, handler, mqttPubQueue, executed, lost, sent>>
    BY <1>5 DEF mqttClientPublish, world, queues, others, InPublish, Held
  <2>2. InPublish' = {}
    BY <2>1 DEF InPublish, Held
  <2>3. /\ OnWire' = OnWire /\ InCallback' = InCallback /\ Received' = Received
        /\ InAnswer' = InAnswer /\ ToPublish' = ToPublish
    BY <2>1, PlacesUnchanged
  <2>4. Ordered' /\ Counted'
    BY <2>1, <2>2, <2>3 DEF OrderInv, Ordered, Below, Counted
  <2> QED BY <2>1, <2>4, PlacesUnchanged DEF OrderInv, Queues
<1>6. CASE ReceiveTooLong
  <2>1. /\ wire # << >> /\ wire' = Tail(wire) /\ lost' = lost \union {Head(wire)}
        /\ UNCHANGED <<inHand, mqttRcvQueue, handler, mqttPubQueue, message, executed, answered, sent>>
    BY <1>6 DEF ReceiveTooLong, queues, others
  <2>2. wire \in Seq(Messages) /\ Increasing(wire) /\ Head(wire) \in Commands
    BY <2>1, CommandQueues, HeadTail DEF Inv, TypeOK, OrderInv, Queues
  <2>3. /\ OnWire = Held(Head(wire)) \union OnWire' /\ Increasing(wire')
        /\ Below(Held(Head(wire)), OnWire')
    BY <2>1, <2>2, QueueTail DEF OnWire
  <2>4. Held(Head(wire)) = {Head(wire)}
    BY <2>2, NoEventCommand DEF Held
  <2>5. /\ InCallback' = InCallback /\ Received' = Received /\ InAnswer' = InAnswer
        /\ ToPublish' = ToPublish /\ InPublish' = InPublish
    BY <2>1, PlacesUnchanged
  <2>6. Ordered' /\ Counted'
    BY <2>1, <2>3, <2>4, <2>5 DEF OrderInv, Ordered, Below, Counted
  <2> QED BY <2>1, <2>3, <2>6, PlacesUnchanged DEF OrderInv, Queues
<1> QED BY <1>1, <1>2, <1>3, <1>4, <1>5, <1>6

\* The handler executes what it takes and answers it once.
LEMMA OrderHandler ==
  ASSUME Inv, OrderInv, HandleCommand \/ Respond
  PROVE  OrderInv'
<1>1. CASE HandleCommand
  <2>1. /\ mqttRcvQueue # << >> /\ handler' = Head(mqttRcvQueue)
        /\ mqttRcvQueue' = Tail(mqttRcvQueue) /\ executed' = executed \union {handler'}
        /\ handler = Event
        /\ UNCHANGED <<wire, inHand, mqttPubQueue, message, answered, lost, sent>>
    BY <1>1 DEF HandleCommand, world, client, Event
  <2>2. mqttRcvQueue \in Seq(Messages) /\ Increasing(mqttRcvQueue)
        /\ handler' \in Commands
    BY <2>1, CommandQueues, HeadTail DEF Inv, TypeOK, OrderInv, Queues
  <2>3. /\ Received = InAnswer' \union Received' /\ Increasing(mqttRcvQueue')
        /\ InAnswer = {} /\ Below(InAnswer', Received')
    BY <2>1, <2>2, QueueTail DEF Received, InAnswer, Held
  <2>4. executed' = executed \union InAnswer'
    BY <2>1, <2>2, NoEventCommand DEF InAnswer, Held
  <2>5. /\ OnWire' = OnWire /\ InCallback' = InCallback /\ ToPublish' = ToPublish
        /\ InPublish' = InPublish
    BY <2>1, PlacesUnchanged
  <2>6. Counted'
    BY <2>1, <2>3, <2>5 DEF OrderInv, Counted
  <2>7. executed' \subseteq 1..sent'
    BY <2>1, <2>3, <2>4 DEF OrderInv, Ordered, Counted
  <2>8. Ordered'
    BY <2>1, <2>3, <2>4, <2>5, <2>7 DEF OrderInv, Ordered, Below
  <2> QED BY <2>1, <2>3, <2>6, <2>8, PlacesUnchanged DEF OrderInv, Queues
<1>2. CASE Respond
  <2>1. /\ mqttPublishMsg(handler) /\ handler' = Event /\ handler \in Messages
        /\ UNCHANGED <<wire, inHand, mqttRcvQueue, message, executed, answered, sent>>
    BY <1>2 DEF Respond, world, client, Event, Inv, TypeOK
  <2>2. InAnswer' = {}
    BY <2>1 DEF InAnswer, Held
  <2>3. CASE Queued(handler)
    <3>1. mqttPubQueue' = Append(mqttPubQueue, handler) /\ lost' = lost
      BY <2>3 DEF Queued
    <3>2. mqttPubQueue \in Seq(Messages) /\ Increasing(mqttPubQueue)
          /\ Below(Answers(mqttPubQueue), Held(handler))
      BY DEF Inv, TypeOK, OrderInv, Queues, Ordered, ToPublish, InAnswer
    <3>3. ToPublish' = ToPublish \union InAnswer /\ Increasing(mqttPubQueue')
      BY <2>1, <3>1, <3>2, QueueAppend DEF ToPublish, InAnswer
    <3>4. /\ OnWire' = OnWire /\ InCallback' = InCallback /\ Received' = Received
          /\ InPublish' = InPublish
      BY <2>1, PlacesUnchanged
    <3>5. Ordered' /\ Counted'
      BY <2>1, <2>2, <3>1, <3>3, <3>4 DEF OrderInv, Ordered, Below, Counted
    <3> QED BY <2>1, <3>3, <3>5, PlacesUnchanged DEF OrderInv, Queues
  <2>4. CASE NotQueued(handler)
    <3>1. mqttPubQueue' = mqttPubQueue /\ lost' = lost \union InAnswer
      BY <2>4 DEF NotQueued, InAnswer, Held
    <3>2. Queues'
      BY <2>1, <3>1, PlacesUnchanged DEF Queues, OrderInv
    <3> QED BY <2>1, <2>2, <3>1, <3>2, PlacesUnchanged, Apart, Dropping
  <2> QED BY <2>1, <2>3, <2>4 DEF mqttPublishMsg
<1> QED BY <1>1, <1>2

\* Events take room in the queue and no place among the commands.
LEMMA OrderEvent ==
  ASSUME Inv, OrderInv, NEW p \in Publishers, PublishEvent(p)
  PROVE  OrderInv'
<1>1. /\ mqttPublishMsg(Event)
      /\ UNCHANGED <<wire, inHand, mqttRcvQueue, handler, message, executed, answered, sent>>
  BY DEF PublishEvent, world, client
<1>2. Held(Event) = {}
  BY DEF Held
<1>3. CASE Queued(Event)
  <2>1. mqttPubQueue' = Append(mqttPubQueue, Event) /\ lost' = lost
    BY <1>3 DEF Queued
  <2>2. mqttPubQueue \in Seq(Messages) /\ Event \in Messages /\ Increasing(mqttPubQueue)
        /\ Below(Answers(mqttPubQueue), Held(Event))
    BY <1>2, NoEventCommand DEF Inv, TypeOK, OrderInv, Queues, Below
  <2>3. ToPublish' = ToPublish /\ Increasing(mqttPubQueue')
    BY <1>2, <2>1, <2>2, QueueAppend DEF ToPublish
  <2> QED BY <1>1, <2>1, <2>3, PlacesUnchanged DEF OrderInv, Ordered, Counted, Queues
<1>4. CASE NotQueued(Event)
  <2>1. mqttPubQueue' = mqttPubQueue /\ lost' = lost
    BY <1>4 DEF NotQueued
  <2> QED BY <1>1, <2>1, PlacesUnchanged DEF OrderInv, Ordered, Counted, Queues
<1> QED BY <1>1, <1>3, <1>4 DEF mqttPublishMsg

\* A reset loses all that is under way.
LEMMA OrderReset ==
  ASSUME Inv, OrderInv, hal_system_reset
  PROVE  OrderInv'
<1>1. /\ wire' = << >> /\ mqttRcvQueue' = << >> /\ mqttPubQueue' = << >>
      /\ inHand' = Event /\ message' = Event /\ handler' = Event
      /\ lost' = lost \union Answers(wire) \union Answers(mqttRcvQueue)
                   \union Answers(mqttPubQueue) \union ({inHand, message, handler} \ {Event})
      /\ UNCHANGED <<sent, executed, answered>>
  BY DEF hal_system_reset, Event
<1>2. /\ OnWire' = {} /\ Received' = {} /\ ToPublish' = {} /\ Queues'
      /\ InCallback' = {} /\ InPublish' = {} /\ InAnswer' = {}
  BY <1>1, QueueEmpty DEF OnWire, Received, ToPublish, Queues, InCallback, InPublish, InAnswer, Held
<1>3. lost' = lost \union (Received \union InCallback \union OnWire \union InAnswer
                             \union ToPublish \union InPublish)
  BY <1>1 DEF OnWire, Received, ToPublish, InCallback, InPublish, InAnswer, Held
<1> QED BY <1>1, <1>2, <1>3, Dropping

LEMMA OrderSend ==
  ASSUME Inv, OrderInv, BrokerSends
  PROVE  OrderInv'
<1>1. /\ sent' = sent + 1 /\ sent \in Nat /\ wire' = Append(wire, sent + 1)
      /\ UNCHANGED <<inHand, mqttRcvQueue, handler, mqttPubQueue, message, executed, answered, lost>>
  BY MqttAssumption DEF BrokerSends, client, queues, others, history, Inv, TypeOK
<1>2. sent + 1 \in Commands
  BY <1>1, MqttAssumption DEF BrokerSends, Commands
<1>3. wire \in Seq(Messages) /\ Increasing(wire) /\ Held(sent + 1) = {sent + 1}
  BY <1>2, NoEventCommand, CommandQueues DEF Inv, TypeOK, OrderInv, Queues, Held
<1>4. /\ Received \union InCallback \union OnWire \union InAnswer \union ToPublish
           \union InPublish \union answered \union lost = 1..sent
      /\ \A c \in 1..sent : c \in Nat /\ c < sent + 1
  BY <1>1 DEF OrderInv, Counted
<1>5. Below(Answers(wire), Held(sent + 1))
  BY <1>3, <1>4 DEF Below, OnWire
<1>6. OnWire' = OnWire \union {sent + 1} /\ Increasing(wire')
  BY <1>1, <1>2, <1>3, <1>5, QueueAppend, NoEventCommand DEF OnWire
<1>7. /\ InCallback' = InCallback /\ Received' = Received /\ InAnswer' = InAnswer
      /\ ToPublish' = ToPublish /\ InPublish' = InPublish
  BY <1>1, PlacesUnchanged
<1>8. 1..sent' = (1..sent) \union {sent + 1} /\ sent + 1 \notin 1..sent
  BY <1>1
<1>9. Counted'
  BY <1>1, <1>4, <1>6, <1>7, <1>8 DEF OrderInv, Counted
<1>10. Ordered'
  BY <1>1, <1>4, <1>6, <1>7, <1>8 DEF OrderInv, Ordered, Below
<1> QED BY <1>1, <1>6, <1>9, <1>10, PlacesUnchanged DEF OrderInv, Queues

LEMMA OrderStep == Inv /\ OrderInv /\ [Next]_vars => OrderInv'
<1> SUFFICES ASSUME Inv, OrderInv, [Next]_vars PROVE OrderInv'
  OBVIOUS
<1>1. ASSUME UNCHANGED <<wire, inHand, mqttRcvQueue, handler, mqttPubQueue, message, executed,
                         answered, lost, sent>>
      PROVE  OrderInv'
  BY <1>1, PlacesUnchanged DEF OrderInv, Ordered, Counted, Queues
<1>2. CASE Connect \/ ChooseInterface \/ Online \/ NoEvent \/ NothingToPublish
  BY <1>1, <1>2 DEF Connect, ChooseInterface, Online, NoEvent, NothingToPublish, world, queues,
     others, history
<1>3. CASE mqttClientConnect
  <2>1. wire = << >>
    BY <1>3 DEF mqttClientConnect, Inv, ClientInv, Handshake
  <2> QED BY <1>1, <1>3, <2>1 DEF mqttClientConnect, queues, others, history
<1>4. CASE UNCHANGED vars \/ BrokerFlips \/ UplinkChanges \/ \E p \in Publishers : StartBurst(p)
  BY <1>1, <1>4 DEF vars, world, client, queues, others, history, BrokerFlips, UplinkChanges,
     StartBurst
<1> QED BY <1>2, <1>3, <1>4, OrderClosing, OrderPublishFails, OrderMoves, OrderHandler,
           OrderEvent, OrderReset, OrderSend
        DEF Next, mqttClientTask, mqttMsgHandleTask, Publishing, World, Restart, ResetCommand

\* Nothing but a received command is executed, and nothing but the message in
\* the client's hand is answered.
LEMMA WhatIsExecuted ==
  ASSUME Inv, Next
  PROVE  executed' = executed \/ executed' \ executed \subseteq Received
<1>1. CASE HandleCommand
  <2>1. /\ mqttRcvQueue # << >> /\ handler' = Head(mqttRcvQueue)
        /\ executed' = executed \union {handler'}
    BY <1>1 DEF HandleCommand
  <2>2. mqttRcvQueue \in Seq(Commands)
    BY DEF Inv, TypeOK
  <2>3. /\ Len(mqttRcvQueue) \in Nat /\ 1 \in 1..Len(mqttRcvQueue)
        /\ handler' = mqttRcvQueue[1] /\ handler' \in Commands
    BY <2>1, <2>2
  <2>4. handler' \in Received
    BY <2>3, NoEventCommand DEF Received, Answers
  <2> QED BY <2>1, <2>4
<1>2. CASE mqttClientTask \/ Publishing \/ World \/ hal_system_reset \/ Respond
  BY <1>2 DEF mqttClientTask, Publishing, World, hal_system_reset, Respond, Connect,
     ChooseInterface, mqttClientConnect, Online, ConnectFails, Receive, mqttPublishCallback,
     CallbackTimeout, ReceiveTooLong, NoEvent, ConnectionLost, NothingToPublish, Take, mqttClientPublish,
     PublishFails, CompareInterface, StartBurst, PublishEvent, BrokerSends, BrokerFlips,
     UplinkChanges, history
<1> QED BY <1>1, <1>2 DEF Next, mqttMsgHandleTask, Restart, ResetCommand

LEMMA WhatIsAnswered ==
  ASSUME Inv, Next
  PROVE  answered' = answered \/ answered' \ answered \subseteq InPublish
<1>1. CASE mqttClientPublish
  BY <1>1 DEF mqttClientPublish, InPublish, Held
<1>2. CASE PublishFails
  <2>1. \/ answered' = answered
        \/ answered' = answered \union ({message} \ {Event})
    BY <1>2, Zenon DEF PublishFails
  <2> QED BY <2>1 DEF InPublish, Held
<1>3. CASE mqttMsgHandleTask \/ Publishing \/ World \/ hal_system_reset
  BY <1>3 DEF mqttMsgHandleTask, Publishing, World, hal_system_reset, ResetCommand, HandleCommand,
     Respond, StartBurst, PublishEvent, BrokerSends, BrokerFlips, UplinkChanges, history
<1>4. CASE \/ Connect \/ ChooseInterface \/ mqttClientConnect \/ Online \/ ConnectFails
           \/ Receive \/ mqttPublishCallback \/ CallbackTimeout \/ ReceiveTooLong \/ NoEvent
           \/ ConnectionLost \/ NothingToPublish \/ Take \/ CompareInterface
  BY <1>4 DEF Connect, ChooseInterface, mqttClientConnect, Online, ConnectFails, Receive,
     mqttPublishCallback, CallbackTimeout, ReceiveTooLong, NoEvent, ConnectionLost, NothingToPublish, Take,
     CompareInterface, history
<1> QED BY <1>1, <1>2, <1>3, <1>4 DEF Next, mqttClientTask, Restart

\* OnceInOrder: for queues of any length and any number of commands, over lost
\* connections, full queues and resets, every command is in one place, and
\* commands are executed, and answers arrive, in the order in which they were
\* sent (app_mqtt_client.c, mqtt_json_parse.c).
THEOREM AtMostOnceInOrder == Spec => OnceInOrder
<1>1. Inv /\ OrderInv /\ [Next]_vars
        => [After(executed', executed) /\ After(answered', answered)]_vars
  <2> SUFFICES ASSUME Inv, OrderInv, Next
               PROVE  After(executed', executed) /\ After(answered', answered)
    OBVIOUS
  <2>1. \A c \in Received, d \in executed : c > d
    <3> SUFFICES ASSUME NEW c \in Received, NEW d \in executed PROVE c > d
      OBVIOUS
    <3>1. c \in Nat /\ d \in Nat
      BY AnswersAreCommands, MqttAssumption DEF Inv, TypeOK, Received, Commands
    <3> QED BY <3>1 DEF OrderInv, Ordered, Below
  <2>2. \A c \in InPublish, d \in answered : c > d
    <3> SUFFICES ASSUME NEW c \in InPublish, NEW d \in answered PROVE c > d
      OBVIOUS
    <3>1. c \in Nat /\ d \in Nat
      BY MqttAssumption DEF Inv, TypeOK, InPublish, Held, Messages, Commands, Event
    <3> QED BY <3>1 DEF OrderInv, Ordered, Below
  <2> QED BY <2>1, <2>2, WhatIsExecuted, WhatIsAnswered DEF After
<1>2. Spec => []OrderInv
  BY OrderInit, OrderStep, Invariance, PTL DEF Spec
<1>3. Spec => []InOnePlace
  BY <1>2, Invariance, OnePlace, PTL
<1>4. /\ InOnePlace' /\ [After(executed', executed) /\ After(answered', answered)]_vars
      => [InOnePlace' /\ After(executed', executed) /\ After(answered', answered)]_vars
  OBVIOUS
<1> QED BY <1>1, <1>2, <1>3, <1>4, Invariance, PTL DEF Spec, OnceInOrder
=============================================================================
