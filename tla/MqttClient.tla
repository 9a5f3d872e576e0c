----------------------------- MODULE MqttClient -----------------------------
(***************************************************************************)
(* The MQTT client (app_mqtt_client.c): the client task with the callback  *)
(* it is called back in, the task that handles received commands, and the  *)
(* tasks that publish events.  The published uplink is what Uplink         *)
(* promises; the broker and the library are modelled from their use.       *)
(*                                                                         *)
(* The commands that the broker sends are numbered in their order.  What a *)
(* command does is not modelled here: it is executed and answered, or it   *)
(* resets the device.                                                      *)
(*                                                                         *)
(* A definition marked "Slip" is a wrong variant of the one that follows;  *)
(* no action uses it.  It shows that a property would notice the slip.     *)
(***************************************************************************)
EXTENDS Integers, Sequences, FiniteSets

CONSTANTS
  QueueSize,    \* MQTT_CLIENT_QUEUE_SIZE, 8
  MaxCommands,  \* the commands the broker sends: a bound of the model
  Burst         \* the events that a publisher queues in a row

Publishers == {"periodic", "ftp"}
Commands   == 1..MaxCommands
Event      == 0     \* stands for every event

ASSUME MqttAssumption ==
  /\ QueueSize \in Nat \ {0}
  /\ MaxCommands \in Nat
  /\ Burst \in [Publishers -> Nat]

VARIABLES
  activeNetInterface,   \* the uplink, see Uplink
  \* the broker and the way to it
  brokerUp,     \* the broker can be reached
  sent,         \* the last command it has sent
  wire,         \* the commands that the client has not read yet
  alive,        \* the session of the client works
  \* the client task
  pc, return,   \* return: where the callback goes back to
  mqttConnectionState,
  interface,    \* mqttClientContext.interface
  open,         \* the library's connection is open
  inHand,       \* the command in the callback, or the message to publish
  message,
  \* the queues and the other tasks
  mqttRcvQueue, mqttPubQueue,
  handler,      \* the command being answered, 0 if it waits for one
  left,         \* per publisher, the events still to queue
  \* history
  executed, answered,   \* commands executed but for resets; answers that arrived
  lost,                 \* commands and answers that were dropped
  seen                  \* the uplinks since the interface was last read

world    == <<brokerUp, sent, wire, alive>>
uplink   == activeNetInterface
client   == <<pc, return, mqttConnectionState, interface, open, inHand, message>>
queues   == <<mqttRcvQueue, mqttPubQueue>>
others   == <<handler, left>>
history  == <<executed, answered, lost>>
vars     == <<activeNetInterface, world, client, queues, others, history, seen>>

\* Whether the modem is wanted makes no difference here: it always is.
Up == INSTANCE Uplink WITH setState <- "CONNECTED"

Init ==
  /\ activeNetInterface = "none"
  /\ brokerUp \in BOOLEAN /\ alive = FALSE
  /\ sent = 0 /\ wire = << >>
  /\ pc = "loop" /\ return = "take"
  /\ mqttConnectionState = "NOT_CONNECTED"
  /\ interface = "none" /\ open = FALSE
  /\ inHand = Event /\ message = Event
  /\ mqttRcvQueue = << >> /\ mqttPubQueue = << >>
  /\ handler = 0 /\ left = [p \in Publishers |-> 0]
  /\ executed = {} /\ answered = {} /\ lost = {}
  /\ seen = {activeNetInterface}

Answers(q) == {q[i] : i \in 1..Len(q)} \ {Event}
-----------------------------------------------------------------------------
(***************************************************************************)
(* The client task.                                                        *)
(***************************************************************************)
Goto(l) == pc' = l

\* mqttClientClose.  What the client has not read is gone: the session is not
\* resumed, and neither are its commands.
Close ==
  /\ open' = FALSE /\ alive' = FALSE
  /\ wire' = << >>

\* The first look at the uplink, and the delay of 5 s if there is none.
Connect ==
  /\ pc = "loop" /\ mqttConnectionState = "NOT_CONNECTED"
  /\ IF activeNetInterface # "none"
       THEN mqttConnectionState' = "CONNECTING" /\ Goto("interface")
       ELSE UNCHANGED <<mqttConnectionState, pc>>
  /\ UNCHANGED <<uplink, world, return, interface, open, inHand, message,
                 queues, others, history, seen>>

\* The second look is the one that mqttConnect gets: the uplink may be gone,
\* and a client without an interface uses the default one.
ChooseInterface ==
  /\ pc = "interface"
  /\ interface' = activeNetInterface
  /\ seen' = {activeNetInterface}
  /\ Goto("connect")
  /\ UNCHANGED <<uplink, world, return, mqttConnectionState, open, inHand,
                 message, queues, others, history>>

\* mqttClientInit forgets the old connection, mqttClientConnect makes one.
mqttClientConnect ==
  /\ pc = "connect" /\ brokerUp
  /\ open' = TRUE /\ alive' = TRUE /\ wire' = << >>
  /\ Goto("online")
  /\ UNCHANGED <<uplink, brokerUp, sent, return, mqttConnectionState,
                 interface, inHand, message, queues, others, history, seen>>

\* Subscribed, and the message that tells it is online is out.
Online ==
  /\ pc = "online" /\ alive
  /\ mqttConnectionState' = "CONNECTED"
  /\ Goto("loop")
  /\ UNCHANGED <<uplink, world, return, interface, open, inHand, message,
                 queues, others, history, seen>>

\* Slip: the state is left at CONNECTING.
ConnectFailsForgetsState ==
  /\ \/ pc = "connect" /\ (~brokerUp \/ interface # activeNetInterface)
     \/ pc = "online" /\ ~alive
  /\ Close
  /\ lost' = lost \union Answers(wire)
  /\ Goto("loop")
  /\ UNCHANGED <<uplink, brokerUp, sent, return, mqttConnectionState,
                 interface, inHand, message, queues, others, executed,
                 answered, seen>>

ConnectFails ==
  /\ \/ pc = "connect" /\ (~brokerUp \/ interface # activeNetInterface)
     \/ pc = "online" /\ ~alive
  /\ Close
  /\ lost' = lost \union Answers(wire)
  /\ mqttConnectionState' = "NOT_CONNECTED"
  /\ Goto("loop")
  /\ UNCHANGED <<uplink, brokerUp, sent, return, interface, inHand, message,
                 queues, others, executed, answered, seen>>

\* The library calls back in every call of its own that waits: while it looks
\* for events, and while it waits for an acknowledgement.
Receive ==
  /\ \/ pc = "loop" /\ mqttConnectionState # "NOT_CONNECTED" /\ return' = "take"
     \/ pc \in {"online", "publish"} /\ return' = pc
  /\ open /\ wire # << >>
  /\ inHand' = Head(wire) /\ wire' = Tail(wire)
  /\ Goto("callback")
  /\ UNCHANGED <<uplink, brokerUp, sent, alive, mqttConnectionState, interface,
                 open, message, queues, others, history, seen>>

mqttPublishCallback ==
  /\ pc = "callback"
  /\ Len(mqttRcvQueue) < QueueSize
  /\ mqttRcvQueue' = Append(mqttRcvQueue, inHand)
  /\ inHand' = Event
  /\ Goto(return) /\ return' = "take"
  /\ UNCHANGED <<uplink, world, mqttConnectionState, interface, open,
                 message, mqttPubQueue, others, history, seen>>

\* The queue stays full for 100 ticks: the command is dropped, and the library
\* acknowledges it all the same.
CallbackTimeout ==
  /\ pc = "callback"
  /\ Len(mqttRcvQueue) = QueueSize
  /\ lost' = lost \union {inHand}
  /\ inHand' = Event
  /\ Goto(return) /\ return' = "take"
  /\ UNCHANGED <<uplink, world, mqttConnectionState, interface, open,
                 message, queues, others, executed, answered, seen>>

\* The callback of a message that is too long for the queue returns at once:
\* this command is dropped and acknowledged, too.
ReceiveTooLong ==
  /\ \/ pc = "loop" /\ mqttConnectionState # "NOT_CONNECTED" /\ Goto("take")
     \/ pc \in {"online", "publish"} /\ Goto(pc)
  /\ open /\ wire # << >>
  /\ wire' = Tail(wire)
  /\ lost' = lost \union {Head(wire)}
  /\ UNCHANGED <<uplink, brokerUp, sent, alive, return, mqttConnectionState,
                 interface, open, inHand, message, queues, others, executed,
                 answered, seen>>

\* Nothing to read in 10 ms; a connection that was closed gives no events.
NoEvent ==
  /\ pc = "loop" /\ mqttConnectionState # "NOT_CONNECTED"
  /\ Goto("take")
  /\ UNCHANGED <<uplink, world, return, mqttConnectionState, interface, open,
                 inHand, message, queues, others, history, seen>>

ConnectionLost ==
  /\ pc = "loop" /\ mqttConnectionState # "NOT_CONNECTED"
  /\ open /\ ~alive
  /\ Close
  /\ lost' = lost \union Answers(wire)
  /\ mqttConnectionState' = "NOT_CONNECTED"
  /\ Goto("compare")
  /\ UNCHANGED <<uplink, brokerUp, sent, return, interface, inHand, message,
                 queues, others, executed, answered, seen>>

NothingToPublish ==
  /\ pc = "take" /\ mqttPubQueue = << >>
  /\ Goto("compare")
  /\ UNCHANGED <<uplink, world, return, mqttConnectionState, interface, open,
                 inHand, message, queues, others, history, seen>>

Take ==
  /\ pc = "take" /\ mqttPubQueue # << >>
  /\ message' = Head(mqttPubQueue) /\ mqttPubQueue' = Tail(mqttPubQueue)
  /\ Goto("publish")
  /\ UNCHANGED <<uplink, world, return, mqttConnectionState, interface, open,
                 inHand, mqttRcvQueue, others, history, seen>>

mqttClientPublish ==
  /\ pc = "publish" /\ open /\ alive
  /\ answered' = answered \union ({message} \ {Event})
  /\ message' = Event
  /\ Goto("compare")
  /\ UNCHANGED <<uplink, world, return, mqttConnectionState, interface, open,
                 inHand, queues, others, executed, lost, seen>>

\* Slip: the message goes back to the queue.
PublishFailsRequeues ==
  /\ pc = "publish" /\ (~open \/ ~alive)
  /\ \E arrived \in BOOLEAN :
       /\ arrived => open
       /\ answered' = IF arrived THEN answered \union ({message} \ {Event})
                      ELSE answered
       /\ lost' = lost \union Answers(wire)
  /\ Close
  /\ mqttPubQueue' = Append(mqttPubQueue, message)
  /\ mqttConnectionState' = "NOT_CONNECTED"
  /\ message' = Event
  /\ Goto("compare")
  /\ UNCHANGED <<uplink, brokerUp, sent, return, interface, inHand,
                 mqttRcvQueue, others, executed, seen>>

\* No acknowledgement: the message may have arrived; it is not kept.
PublishFails ==
  /\ pc = "publish" /\ (~open \/ ~alive)
  /\ \E arrived \in BOOLEAN :
       /\ arrived => open
       /\ answered' = IF arrived THEN answered \union ({message} \ {Event})
                      ELSE answered
       /\ lost' = lost \union Answers(wire)
                   \union (IF arrived THEN {} ELSE {message} \ {Event})
  /\ Close
  /\ mqttConnectionState' = "NOT_CONNECTED"
  /\ message' = Event
  /\ Goto("compare")
  /\ UNCHANGED <<uplink, brokerUp, sent, return, interface, inHand, queues,
                 others, executed, seen>>

\* Slip: the uplink is compared and nothing is done.
CompareOnly ==
  /\ pc = "compare"
  /\ seen' = {activeNetInterface}
  /\ Goto("loop")
  /\ UNCHANGED <<uplink, world, mqttConnectionState, open, lost, return,
                 interface, inHand, message, queues, others, executed,
                 answered>>

\* "check if network interface changed then close for fast recovery"
CompareInterface ==
  /\ pc = "compare"
  /\ seen' = {activeNetInterface}
  /\ IF interface # activeNetInterface
       THEN /\ Close
            /\ lost' = lost \union Answers(wire)
            /\ mqttConnectionState' = "NOT_CONNECTED"
       ELSE UNCHANGED <<open, alive, wire, lost, mqttConnectionState>>
  /\ Goto("loop")
  /\ UNCHANGED <<uplink, brokerUp, sent, return, interface, inHand, message,
                 queues, others, executed, answered>>

mqttClientTask ==
  \/ Connect \/ ChooseInterface \/ mqttClientConnect \/ Online \/ ConnectFails
  \/ Receive \/ mqttPublishCallback \/ CallbackTimeout \/ ReceiveTooLong
  \/ NoEvent \/ ConnectionLost
  \/ NothingToPublish \/ Take \/ mqttClientPublish \/ PublishFails
  \/ CompareInterface
-----------------------------------------------------------------------------
(***************************************************************************)
(* mqttPublishMsg, and the tasks that call it.                             *)
(***************************************************************************)
\* Slip: the queue takes one more than it has room for.
QueuedAnyway(m) ==
  /\ Len(mqttPubQueue) <= QueueSize
  /\ mqttPubQueue' = Append(mqttPubQueue, m)
  /\ UNCHANGED lost

Queued(m) ==
  /\ Len(mqttPubQueue) < QueueSize
  /\ mqttPubQueue' = Append(mqttPubQueue, m)
  /\ UNCHANGED lost

\* The queue stays full for 100 ticks.
NotQueued(m) ==
  /\ Len(mqttPubQueue) = QueueSize
  /\ lost' = lost \union ({m} \ {Event})
  /\ UNCHANGED mqttPubQueue

mqttPublishMsg(m) == Queued(m) \/ NotQueued(m)

\* mqttMsgHandleTask takes a command and mqtt_json_parse_message executes it.
HandleCommand ==
  /\ handler = 0 /\ mqttRcvQueue # << >>
  /\ handler' = Head(mqttRcvQueue)
  /\ mqttRcvQueue' = Tail(mqttRcvQueue)
  /\ executed' = executed \union {handler'}
  /\ UNCHANGED <<uplink, world, client, mqttPubQueue, left, answered, lost, seen>>

Respond ==
  /\ handler # 0
  /\ mqttPublishMsg(handler)
  /\ handler' = 0
  /\ UNCHANGED <<uplink, world, client, mqttRcvQueue, left, executed, answered,
                 seen>>

\* Everything in memory is lost, the uplink with it.
hal_system_reset ==
  /\ activeNetInterface' = "none"
  /\ pc' = "loop" /\ return' = "take"
  /\ mqttConnectionState' = "NOT_CONNECTED"
  /\ interface' = "none" /\ open' = FALSE
  /\ inHand' = Event /\ message' = Event
  /\ mqttRcvQueue' = << >> /\ mqttPubQueue' = << >>
  /\ handler' = 0 /\ left' = [p \in Publishers |-> 0]
  /\ alive' = FALSE /\ wire' = << >>
  /\ lost' = lost \union Answers(wire) \union Answers(mqttRcvQueue)
      \union Answers(mqttPubQueue) \union ({inHand, message, handler} \ {Event})
  /\ seen' = {activeNetInterface'}
  /\ UNCHANGED <<brokerUp, sent, executed, answered>>

\* The command "reset" ...
ResetCommand == handler = 0 /\ mqttRcvQueue # << >> /\ hal_system_reset

\* ... and the end of a firmware download, or a power failure.
Restart == hal_system_reset

\* A burst of the periodic task starts only while the client is connected; the
\* firmware download reports at any time.
StartBurst(p) ==
  /\ left[p] = 0
  /\ p = "periodic" => mqttConnectionState = "CONNECTED"
  /\ left' = [left EXCEPT ![p] = Burst[p]]
  /\ UNCHANGED <<uplink, world, client, queues, handler, history, seen>>

PublishEvent(p) ==
  /\ left[p] > 0
  /\ mqttPublishMsg(Event)
  /\ left' = [left EXCEPT ![p] = @ - 1]
  /\ UNCHANGED <<uplink, world, client, mqttRcvQueue, handler, executed,
                 answered, seen>>

mqttMsgHandleTask == HandleCommand \/ Respond \/ ResetCommand
-----------------------------------------------------------------------------
(***************************************************************************)
(* The world: the broker sends commands and comes and goes; the uplink     *)
(* changes as Uplink allows, and sessions end with it or without.          *)
(***************************************************************************)
BrokerSends ==
  /\ alive /\ sent < MaxCommands
  /\ sent' = sent + 1 /\ wire' = Append(wire, sent')
  /\ UNCHANGED <<uplink, brokerUp, alive, client, queues, others, history, seen>>

BrokerFlips ==
  /\ brokerUp' = ~brokerUp
  /\ alive' = (alive /\ brokerUp')
  /\ UNCHANGED <<uplink, sent, wire, client, queues, others, history, seen>>

UplinkChanges ==
  /\ Up!UplinkNext
  /\ \/ alive' = alive
     \/ alive' = FALSE /\ activeNetInterface' # activeNetInterface
  /\ seen' = seen \union {activeNetInterface'}
  /\ UNCHANGED <<brokerUp, sent, wire, client, queues, others, history>>

World == BrokerSends \/ BrokerFlips \/ UplinkChanges

Publishing == \E p \in Publishers : StartBurst(p) \/ PublishEvent(p)

Next == mqttClientTask \/ mqttMsgHandleTask \/ Publishing \/ World \/ Restart

\* The client task and the handler run: each waits for nothing but a queue or
\* the network, and for both with a timeout.  A dead session is noticed: the
\* client sends something at least every 30 s, and TCP gives up in the end.
\* What has arrived is read.
Fairness ==
  /\ WF_vars(mqttClientTask) /\ WF_vars(mqttMsgHandleTask)
  /\ SF_vars(ConnectionLost) /\ SF_vars(Receive)

Spec     == Init /\ [][Next]_vars
FairSpec == Spec /\ Fairness
-----------------------------------------------------------------------------
(***************************************************************************)
(* Properties.                                                             *)
(***************************************************************************)
Messages == Commands \union {Event}

\* Every variable keeps its type; the queues keep their size.
TypeOK ==
  /\ Up!UplinkTypeOK
  /\ brokerUp \in BOOLEAN /\ alive \in BOOLEAN /\ open \in BOOLEAN
  /\ sent \in 0..MaxCommands
  /\ wire \in Seq(Commands)
  /\ pc \in {"loop", "interface", "connect", "online", "callback", "take",
             "publish", "compare"}
  /\ return \in {"take", "online", "publish"}
  /\ mqttConnectionState \in {"NOT_CONNECTED", "CONNECTING", "CONNECTED"}
  /\ interface \in Up!Interfaces
  /\ inHand \in Messages /\ message \in Messages /\ handler \in Messages
  /\ mqttRcvQueue \in Seq(Commands) /\ Len(mqttRcvQueue) <= QueueSize
  /\ mqttPubQueue \in Seq(Messages) /\ Len(mqttPubQueue) <= QueueSize
  /\ \A p \in Publishers : left[p] \in 0..Burst[p]
  /\ executed \subseteq Commands /\ answered \subseteq Commands
  /\ lost \subseteq Commands
  /\ seen \subseteq Up!Interfaces

\* Where a command, or its answer, is.
Times(c, q) == Cardinality({i \in 1..Len(q) : q[i] = c})
One(b) == IF b THEN 1 ELSE 0
Places(c) ==
  Times(c, wire) + One(inHand = c) + Times(c, mqttRcvQueue) + One(handler = c)
    + Times(c, mqttPubQueue) + One(message = c)
    + One(c \in answered) + One(c \in lost)

\* A command that the broker has sent is in one place at any time, and its
\* answer replaces it: nothing is executed or answered twice, and what is
\* dropped is dropped by one of the branches that count it as lost.
InOnePlace == \A c \in 1..sent : Places(c) = 1

\* Commands are executed and answers arrive in the order in which the commands
\* were sent, over lost connections, full queues and resets.
After(new, old) == \A c \in new \ old, d \in old : c > d

\* At most once and in order, whatever is dropped on the way: no step puts a
\* command in a second place, loses track of it, or overtakes another.
OnceInOrder ==
  [][InOnePlace' /\ After(executed', executed) /\ After(answered', answered)]_vars

\* The state that the tasks read and the library's connection agree: a session
\* is never forgotten while it is open (its socket would leak with the next
\* mqttClientInit), and nothing is published on one that is closed.
Handshake == pc = "online" \/ (pc = "callback" /\ return = "online")
StateMatchesConnection ==
  /\ open <=> mqttConnectionState = "CONNECTED" \/ Handshake
  /\ pc = "publish" => open

\* A message goes out only over an uplink that was published since the client
\* last looked at it: the client never stays on an interface that was withdrawn
\* for longer than one turn of its loop.
PublishesOnRecentUplink == pc = "publish" => interface \in seen

\* What the client believes of its session and of its interface is so.
ClientConsistent == StateMatchesConnection /\ PublishesOnRecentUplink

\* With a broker that can be reached over an uplink that stays, the client ends
\* up connected over that uplink.
Reconnects ==
  \A i \in {"eth0", "ppp0"} :
    <>[](brokerUp /\ activeNetInterface = i)
      => <>[](alive /\ mqttConnectionState = "CONNECTED" /\ interface = i)

\* A command that the broker has sent is handled or known to be lost: its
\* answer gets into the queue or is dropped, also while the broker is away and
\* nobody takes messages from the queue.
CommandsHandled ==
  \A c \in Commands :
    c <= sent ~> c \in answered \union lost \union Answers(mqttPubQueue)
                        \union {message}

\* The client never gets stuck: it comes back after every failure, and its two
\* bounded queues do not block each other.
NeverStuck == Reconnects /\ CommandsHandled
=============================================================================
