--------------------------- MODULE AlertDelivery ---------------------------
(***************************************************************************)
(* Alert delivery in communication-service: KafkaConsumerService takes the *)
(* messages of alerts.generated one at a time, AlertDispatcherService      *)
(* tries each channel of the payload in turn (IN_APP through the WebSocket *)
(* gateway, VOICE through ElevenLabs) and KafkaProducerService publishes a *)
(* receipt to alerts.delivered.                                            *)
(*                                                                         *)
(* Kafka is external: a partition per RM, a producer that is not           *)
(* idempotent, and a consumer group whose committed offset survives the    *)
(* service.  What was fetched and not committed is delivered again after a *)
(* crash, and after the group has expelled the consumer, as it does when   *)
(* the session times out in a long handler or the group rebalances.        *)
(***************************************************************************)
EXTENDS Integers, Sequences, FiniteSets

CONSTANTS
    RMs,          \* rm_id values: partition keys and WebSocket rooms
    Sockets,      \* Socket.IO connections
    AlertIds,
    Absent,       \* a payload field that is undefined
    Payloads,     \* the payloads a producer may send, without their alert_id
    Trouble,      \* which failures the run allows
    Retries,      \* how often KafkaJS sends again within one send (retry.retries)
    MaxRestarts,  \* bound on the crashes of the service and the expulsions of its consumer
    MaxJoins      \* bound on the socket connections made

Severities == {"critical", "high", "medium", "low"}
Channels   == {"IN_APP", "VOICE"}

\* Nothing in the code names a channel twice in one list, nor is there a nameless RM.
ASSUME PayloadAssumption == \A p \in Payloads :
    p.severity \in Severities /\ p.rm_name \in {Absent, "name"}
    /\ \/ p.channels = Absent
       \/ /\ p.channels \in Seq(Channels)
          /\ \A i, k \in DOMAIN p.channels : p.channels[i] = p.channels[k] => i = k
ASSUME RMAssumption == Absent \notin RMs
ASSUME TroubleAssumption == Trouble \subseteq {"crash", "kafka", "voice", "init"}
ASSUME MaxAssumption == Retries \in Nat /\ MaxRestarts \in Nat /\ MaxJoins \in Nat

VARIABLES
    topic,      \* alerts.generated: the messages of each partition
    sends,      \* history: per alert, the appends not acknowledged, and is one acknowledged
    committed,  \* the consumer group's committed offset, NoOffset before the first
    consumer,   \* KafkaConsumerService: "down", "running" or "failed"
    member,     \* does the group still count the consumer as its member
    producer,   \* KafkaProducerService.connected: "down", "up" or "failed"
    position,   \* the next offset the running consumer fetches
    resolved,   \* has this consumer resolved a message of the partition
    job,        \* the message in eachMessage, or NoJob
    room,       \* the RM whose room a socket has joined, or Absent
    joins,      \* socket connections made so far
    crashes,    \* crashes so far
    rejoins,    \* returns to the group so far
    shown,      \* history: new_alert events a connected socket got, in order
    called,     \* history: voice calls placed for an alert, in order
    receipts,   \* alerts.delivered
    handled     \* history: offsets whose handler ran to its end, per partition

log     == <<topic, sends>>
kafka   == <<log, committed, receipts>>
service == <<consumer, member, producer, position, resolved, job>>
clients == <<room, joins, shown>>
past    == <<crashes, rejoins>>
dvars   == <<kafka, service, clients, past, called, handled>>

\* A message of alerts.generated: what a payload says, about one alert.
Message == {[alert_id |-> id, severity |-> p.severity, channels |-> p.channels,
             rm_name |-> p.rm_name] : id \in AlertIds, p \in Payloads}

\* The incarnation of the consumer: what it fetches it fetches once.
Epoch == crashes + rejoins
Event == [alert: AlertIds, offset: Nat, epoch: Nat]

NoJob    == [rm |-> Absent]
NoOffset == 0
\* Offsets count from 1; a committed offset is the next one to read.
End(rm)  == Len(topic[rm]) + 1

DeliveryInit ==
    /\ topic = [rm \in RMs |-> <<>>]
    /\ sends = [id \in AlertIds |-> [lost |-> 0, acked |-> FALSE]]
    /\ committed = [rm \in RMs |-> NoOffset]
    /\ consumer = "down"
    /\ member = FALSE
    /\ producer = "down"
    /\ position = [rm \in RMs |-> NoOffset]
    /\ resolved = [rm \in RMs |-> FALSE]
    /\ job = NoJob
    /\ room = [s \in Sockets |-> Absent]
    /\ joins = 0
    /\ crashes = 0
    /\ rejoins = 0
    /\ shown = [s \in Sockets |-> <<>>]
    /\ called = [id \in AlertIds |-> <<>>]
    /\ receipts = {}
    /\ handled = [rm \in RMs |-> {}]
-----------------------------------------------------------------------------
(* Startup: the module's onModuleInit hooks run concurrently. *)

\* Mutant: the group's committed offset is ignored.
Seek_atEnd == position' = [rm \in RMs |-> End(rm)]

\* With no committed offset the group starts at the end (fromBeginning: false).
Seek == position' = [rm \in RMs |-> IF committed[rm] = NoOffset THEN End(rm) ELSE committed[rm]]

\* connect, subscribe, run.
StartConsumer ==
    /\ consumer = "down"
    /\ consumer' = "running"
    /\ member' = TRUE
    /\ Seek
    /\ UNCHANGED <<kafka, producer, resolved, job, clients, past, called, handled>>

\* Any error is logged: the service runs on without a consumer.
StartConsumerFails ==
    /\ consumer = "down"
    /\ "init" \in Trouble
    /\ consumer' = "failed"
    /\ UNCHANGED <<kafka, member, producer, position, resolved, job, clients, past, called, handled>>

StartProducer ==
    /\ producer = "down"
    /\ \/ producer' = "up"
       \/ "init" \in Trouble /\ producer' = "failed"
    /\ UNCHANGED <<kafka, consumer, member, position, resolved, job, clients, past, called, handled>>
-----------------------------------------------------------------------------
(* eachMessage *)

\* The handler starts on the next message: handleAlertGenerated and dispatch up
\* to the first channel; `payload.channels ?? []`.
Fetch(rm) ==
    /\ consumer = "running"
    /\ job = NoJob
    /\ position[rm] < End(rm)
    /\ LET m == topic[rm][position[rm]]
       IN  job' = [rm |-> rm, offset |-> position[rm], msg |-> m, done |-> <<>>,
                   todo |-> IF m.channels = Absent THEN <<>> ELSE m.channels]
    /\ UNCHANGED <<kafka, consumer, member, producer, position, resolved, clients, past, called, handled>>

EventNow == [alert |-> job.msg.alert_id, offset |-> job.offset, epoch |-> Epoch]

Next1(done) == job' = [job EXCEPT !.todo = Tail(@), !.done = @ \o done]

\* Mutant: the event is emitted to every socket, not to the room.
DeliverInApp_toAll ==
    /\ job # NoJob /\ job.todo # <<>> /\ Head(job.todo) = "IN_APP"
    /\ shown' = [s \in Sockets |-> IF room[s] # Absent
                                   THEN Append(shown[s], EventNow) ELSE shown[s]]
    /\ Next1(<<"IN_APP">>)
    /\ UNCHANGED <<kafka, consumer, member, producer, position, resolved, room, joins, past, called, handled>>

\* IN_APP: emit to the room; whoever has joined gets the event, nobody waits.
DeliverInApp ==
    /\ job # NoJob /\ job.todo # <<>> /\ Head(job.todo) = "IN_APP"
    /\ shown' = [s \in Sockets |-> IF room[s] = job.rm
                                   THEN Append(shown[s], EventNow) ELSE shown[s]]
    /\ Next1(<<"IN_APP">>)
    /\ UNCHANGED <<kafka, consumer, member, producer, position, resolved, room, joins, past, called, handled>>

Qualifies(m) == m.severity \in {"critical", "high"}

\* VOICE below high is skipped; formatVoice throws when rm_name is undefined, and
\* the dispatcher goes on with the next channel.
SkipVoice ==
    /\ job # NoJob /\ job.todo # <<>> /\ Head(job.todo) = "VOICE"
    /\ ~Qualifies(job.msg) \/ job.msg.rm_name = Absent
    /\ Next1(<<>>)
    /\ UNCHANGED <<kafka, consumer, member, producer, position, resolved, clients, past, called, handled>>

\* initiateCall returns in the same way when the call is placed, when the HTTP
\* request fails and when no API key is configured.  Its axios.post has no
\* timeout, so it may also never return.
DeliverVoice ==
    /\ job # NoJob /\ job.todo # <<>> /\ Head(job.todo) = "VOICE"
    /\ Qualifies(job.msg) /\ job.msg.rm_name # Absent
    /\ \/ called' = [called EXCEPT ![job.msg.alert_id] = Append(@, EventNow)]
       \/ "voice" \in Trouble /\ UNCHANGED called
    /\ Next1(<<"VOICE">>)
    /\ UNCHANGED <<kafka, consumer, member, producer, position, resolved, clients, past, handled>>

\* Mutant: a send error is rethrown, so KafkaJS runs the handler again.
PublishReceipt_rethrows ==
    /\ job # NoJob /\ job.todo = <<>>
    /\ job' = NoJob
    /\ \/ /\ receipts' = receipts \cup {[alert_id |-> job.msg.alert_id, channels |-> job.done]}
          /\ position' = [position EXCEPT ![job.rm] = @ + 1]
          /\ resolved' = [resolved EXCEPT ![job.rm] = TRUE]
          /\ handled' = [handled EXCEPT ![job.rm] = @ \cup {job.offset}]
       \/ "kafka" \in Trouble /\ UNCHANGED <<receipts, position, resolved, handled>>
    /\ UNCHANGED <<log, committed, consumer, member, producer, clients, past, called>>

\* Mutant: no receipt when no channel delivered.
PublishReceipt_onlyIfDelivered ==
    /\ job # NoJob /\ job.todo = <<>>
    /\ receipts' = IF job.done = <<>> THEN receipts
                   ELSE receipts \cup {[alert_id |-> job.msg.alert_id, channels |-> job.done]}
    /\ position' = [position EXCEPT ![job.rm] = @ + 1]
    /\ resolved' = [resolved EXCEPT ![job.rm] = TRUE]
    /\ handled' = [handled EXCEPT ![job.rm] = @ \cup {job.offset}]
    /\ job' = NoJob
    /\ UNCHANGED <<log, committed, consumer, member, producer, clients, past, called>>

\* The receipt, and the end of the handler.  publish returns at once when the
\* producer never connected and swallows a send error.
PublishReceipt ==
    /\ job # NoJob /\ job.todo = <<>>
    /\ \/ /\ producer = "up"
          /\ receipts' = receipts \cup {[alert_id |-> job.msg.alert_id, channels |-> job.done]}
       \/ /\ producer # "up" \/ "kafka" \in Trouble
          /\ UNCHANGED receipts
    /\ position' = [position EXCEPT ![job.rm] = @ + 1]
    /\ resolved' = [resolved EXCEPT ![job.rm] = TRUE]
    /\ handled' = [handled EXCEPT ![job.rm] = @ \cup {job.offset}]
    /\ job' = NoJob
    /\ UNCHANGED <<log, committed, consumer, member, producer, clients, past, called>>

\* Mutant: what was fetched is committed, handled or not.
Commit_eager(rm) ==
    /\ resolved[rm]
    /\ committed[rm] # End(rm)
    /\ committed' = [committed EXCEPT ![rm] = End(rm)]
    /\ UNCHANGED <<log, receipts, service, clients, past, called, handled>>

\* Autocommit of resolved offsets, some time after the handler ended; the group
\* refuses it of a consumer it has expelled.
Commit(rm) ==
    /\ resolved[rm]
    /\ member
    /\ committed[rm] # position[rm]
    /\ committed' = [committed EXCEPT ![rm] = position[rm]]
    /\ UNCHANGED <<log, receipts, service, clients, past, called, handled>>
-----------------------------------------------------------------------------
(* Environment *)

\* A producer sends an alert until an append is acknowledged or it gives up; an
\* append whose acknowledgement is lost is followed by the same message again.
Produce(rm) ==
    \E m \in Message :
        /\ ~sends[m.alert_id].acked
        /\ \A r \in RMs : \A i \in DOMAIN topic[r] :
              topic[r][i].alert_id = m.alert_id => r = rm /\ topic[r][i] = m
        /\ topic' = [topic EXCEPT ![rm] = Append(@, m)]
        /\ \/ sends' = [sends EXCEPT ![m.alert_id].acked = TRUE]
           \/ /\ sends[m.alert_id].lost < Retries
              /\ sends' = [sends EXCEPT ![m.alert_id].lost = @ + 1]
        /\ UNCHANGED <<committed, receipts, service, clients, past, called, handled>>

\* The group counts the consumer out: no heartbeat for a session timeout, as when
\* a handler waits longer than that, or a rebalance.  The handler runs on.
Expel ==
    /\ consumer = "running"
    /\ member
    /\ Epoch < MaxRestarts
    /\ member' = FALSE
    /\ UNCHANGED <<kafka, consumer, producer, position, resolved, job, clients, past, called, handled>>

\* Between two handlers a heartbeat tells: KafkaJS joins again, forgets what it had
\* resolved and reads on from the committed offset.
Rejoin ==
    /\ consumer = "running"
    /\ ~member
    /\ job = NoJob
    /\ member' = TRUE
    /\ rejoins' = rejoins + 1
    /\ resolved' = [rm \in RMs |-> FALSE]
    /\ Seek
    /\ UNCHANGED <<kafka, consumer, producer, job, clients, crashes, called, handled>>

\* handleConnection joins the room named by the rm_id query parameter; without
\* one the socket is disconnected.
Connect(s, rm) ==
    /\ room[s] = Absent
    /\ joins < MaxJoins
    /\ joins' = joins + 1
    /\ room' = [room EXCEPT ![s] = rm]
    /\ shown' = [shown EXCEPT ![s] = <<>>]
    /\ UNCHANGED <<kafka, service, past, called, handled>>

Disconnect(s) ==
    /\ room[s] # Absent
    /\ room' = [room EXCEPT ![s] = Absent]
    /\ shown' = [shown EXCEPT ![s] = <<>>]
    /\ UNCHANGED <<kafka, service, joins, past, called, handled>>

\* The process dies and restarts: rooms, the flag and the handler are gone.
CrashService ==
    /\ "crash" \in Trouble
    /\ Epoch < MaxRestarts
    /\ crashes' = crashes + 1
    /\ consumer' = "down"
    /\ member' = FALSE
    /\ producer' = "down"
    /\ position' = [rm \in RMs |-> NoOffset]
    /\ resolved' = [rm \in RMs |-> FALSE]
    /\ job' = NoJob
    /\ room' = [s \in Sockets |-> Absent]
    /\ shown' = [s \in Sockets |-> <<>>]
    /\ UNCHANGED <<kafka, joins, rejoins, called, handled>>

Handle ==
    \/ \E rm \in RMs : Fetch(rm)
    \/ DeliverInApp
    \/ SkipVoice
    \/ DeliverVoice
    \/ PublishReceipt

ServiceStep ==
    \/ StartConsumer
    \/ StartConsumerFails
    \/ StartProducer
    \/ Handle
    \/ \E rm \in RMs : Commit(rm)
    \/ Expel
    \/ Rejoin
    \/ \E s \in Sockets, rm \in RMs : Connect(s, rm)
    \/ \E s \in Sockets : Disconnect(s)
    \/ CrashService

DeliveryNext == ServiceStep \/ \E rm \in RMs : Produce(rm)

DeliverySpec == DeliveryInit /\ [][DeliveryNext]_dvars

\* A voice call whose request is under way.
Calling == job # NoJob /\ job.todo # <<>> /\ Head(job.todo) = "VOICE"
           /\ Qualifies(job.msg) /\ job.msg.rm_name # Absent

\* The startup hooks run, KafkaJS keeps fetching, committing, sending heartbeats
\* and rejoining, and its sends time out.  Nothing is assumed of a voice call.
DeliveryFairness ==
    /\ WF_dvars(StartConsumer) /\ WF_dvars(StartProducer) /\ WF_dvars(Rejoin)
    /\ WF_dvars(DeliverInApp \/ SkipVoice \/ PublishReceipt)
    /\ \A rm \in RMs : WF_dvars(Fetch(rm)) /\ WF_dvars(Commit(rm))

FairDeliverySpec == DeliverySpec /\ DeliveryFairness
-----------------------------------------------------------------------------
\* No message is lost by a crash or an expulsion: once the group has a committed
\* offset it never passes a message whose handler has not run to its end.
NothingSkipped ==
    [][\A rm \in RMs : committed[rm] # NoOffset =>
          \A o \in committed[rm]..(committed'[rm] - 1) : o \in handled[rm]]_dvars

\* The RM's telephone rings again for an alert only for another copy of its
\* message, or because a crash or an expulsion made the consumer start anew.
RepeatedCallsNeedRedelivery ==
    \A id \in AlertIds : \A i, j \in DOMAIN called[id] : called[id][i] = called[id][j] => i = j

\* What a connected socket sees is its own RM's alerts, in the order of the
\* partition and each message once, until an expelled consumer rejoins: from
\* there on alerts may come again, in order among themselves.
SocketSeesOrderedAlerts ==
    \A s \in Sockets : room[s] # Absent =>
        /\ \A i \in DOMAIN shown[s] :
              /\ shown[s][i].offset \in DOMAIN topic[room[s]]
              /\ topic[room[s]][shown[s][i].offset].alert_id = shown[s][i].alert
        /\ \A i, j \in DOMAIN shown[s] :
              i < j /\ shown[s][i].epoch = shown[s][j].epoch => shown[s][i].offset < shown[s][j].offset

LastOffset == Cardinality(AlertIds) * (Retries + 1)

\* Once the group has a committed offset, every message from there on is dealt
\* with in the end, crashes and expulsions notwithstanding, unless the consumer's
\* startup fails, after which the service runs on without one, or a voice call
\* hangs for ever.
EveryMessageHandled ==
    []<>~Calling =>
        \A rm \in RMs : \A o \in 1..LastOffset :
            (committed[rm] # NoOffset /\ o \in committed[rm]..Len(topic[rm]))
                ~> (o \in handled[rm] \/ consumer = "failed")
=============================================================================
