--------------------------- MODULE AlertPipeline ---------------------------
(***************************************************************************)
(* core-api's alert engine and communication-service's delivery, joined by *)
(* the Kafka topic alerts.generated: AlertEngine appends to the topic that *)
(* AlertDelivery consumes.  The two services run and crash independently.  *)
(***************************************************************************)
EXTENDS AlertEngine

CONSTANTS
    Sockets, Trouble, MaxRestarts, MaxJoins,
    RuleChannels  \* [Rules -> channels]: rule.channels of the AlertRule

VARIABLES committed, consumer, member, producer, position, resolved, job, room, joins,
          crashes, rejoins, shown, called, receipts, handled

\* What publishAlert puts in a payload, by severity: no channels, no rm_name.
PublishedPayloads == {[severity |-> Severity[r], channels |-> Absent, rm_name |-> Absent] : r \in Rules}

D == INSTANCE AlertDelivery WITH Payloads <- PublishedPayloads

delivery     == <<committed, consumer, member, producer, position, resolved, job, room, joins,
                  crashes, rejoins, shown, called, receipts, handled>>
pipelineVars == <<vars, delivery>>

PipelineInit == Init /\ D!DeliveryInit

EngineStep  == Next /\ UNCHANGED delivery
ServiceStep == D!ServiceStep /\ UNCHANGED vars

PipelineNext == EngineStep \/ ServiceStep

PipelineSpec == PipelineInit /\ [][PipelineNext]_pipelineVars

FairPipelineSpec ==
    /\ PipelineSpec
    /\ \A e \in Evals : WF_pipelineVars(Step(e) /\ UNCHANGED delivery)
    /\ D!DeliveryFairness
-----------------------------------------------------------------------------
\* The engine is a producer such as AlertDelivery expects: what it appends to a
\* partition is about an alert that no partition has seen, or is the message of
\* that alert again, sent once more because no append of it was acknowledged.  So
\* all that is shown of AlertDelivery holds behind the engine.
ImplementsDelivery == D!DeliverySpec

ReceiptsFor(id) == {r \in receipts : r.alert_id = id}

\* While both services are up an alert that is raised gets its receipt.
RaisedGetsReceipt ==
    \A id \in AlertIds :
        (consumer = "running" /\ producer = "up" /\ \E e \in Evals : draft[e] = id)
            ~> ReceiptsFor(id) # {}

\* "Dispatch an alert to all requested channels": the receipt of an alert lists
\* IN_APP if the rule asks for it.
DispatchedAsRequested ==
    \A r \in receipts : \A a \in ledger :
        a.id = r.alert_id /\ (\E i \in DOMAIN RuleChannels[a.rule] : RuleChannels[a.rule][i] = "IN_APP")
            => \E i \in DOMAIN r.channels : r.channels[i] = "IN_APP"
=============================================================================
