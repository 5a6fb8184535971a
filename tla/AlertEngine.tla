---------------------------- MODULE AlertEngine ----------------------------
(***************************************************************************)
(* Alert generation in core-api: AlertEngineService.evaluateRule and its   *)
(* callers, the Redis cooldown keys it consults, the alerts it persists in *)
(* MongoDB and the messages it publishes to Kafka (alerts.generated).      *)
(*                                                                         *)
(* An evaluator e \in Evals is one HTTP request or job running             *)
(* evaluateProofOfConcept, evaluateIdleCashAlerts or                       *)
(* evaluateMaturityAlerts.  Node interleaves them at every await, so each  *)
(* await is one action here.                                               *)
(***************************************************************************)
EXTENDS Integers, Sequences, FiniteSets

CONSTANTS
    Rules,          \* rule_id values
    Clients,        \* client_id values
    RMs,            \* rm_id values
    AlertIds,       \* UUIDs randomUUID() may return
    Evals,          \* evaluations that can be in flight together
    RmOf,           \* [Clients -> RMs]: the RM a client belongs to
    Cooldown,       \* [Rules -> Nat]: rule.cooldown_hours
    Severity,       \* [Rules -> Severities]: rule.severity
    PocRules,       \* POC_RULES, in order
    ServiceRules,   \* rules evaluated alone (idle cash, maturity proceeds)
    Faults,         \* which failures the run allows
    Retries,        \* how often KafkaJS sends again within one send (retry.retries)
    MaxCandidates,  \* bound on the length of a candidate list
    MaxEvaluations, \* bound on the evaluations started
    MaxTime,        \* bound on the clock
    Absent          \* a field the producer leaves out (JavaScript undefined)

Severities == {"critical", "high", "medium", "low"}
Keys == Rules \X Clients

ASSUME RmOfAssumption     == RmOf \in [Clients -> RMs]
ASSUME CooldownAssumption == Cooldown \in [Rules -> Nat]
ASSUME SeverityAssumption == Severity \in [Rules -> Severities]
ASSUME PocAssumption      == PocRules \in Seq(Rules) /\ ServiceRules \subseteq Rules
ASSUME FaultAssumption    == Faults \subseteq {"redis", "mongo", "lost", "kafka", "crash"}
ASSUME BoundAssumption    == Retries \in Nat /\ MaxCandidates \in Nat /\ MaxEvaluations \in Nat /\ MaxTime \in Nat

VARIABLES
    now,        \* the clock, in the unit of cooldown_hours
    docs,       \* the alerts collection: status of each alert_id
    ledger,     \* history: every alert ever persisted, with its creation time
    cooldown,   \* Redis: time at which cooldown:{rule}:{client} expires
    lapsed,     \* history: keys whose check-then-set was disturbed
    topic,      \* Kafka alerts.generated, one partition per RM
    sends,      \* history: per alert, the appends not acknowledged, and is one acknowledged
    listCache,  \* Redis: what alerts:rm:{rm} holds
    started,    \* evaluations started so far
    pc,         \* the await each evaluation is at
    owner,      \* the RM an evaluation runs for
    agenda,     \* the rules still to evaluate, the current one first
    todo,       \* the candidates still to process, the current one first
    draft,      \* the alert just persisted and not yet published
    touched     \* affectedRmIds: has this rule raised an alert for the RM

store == <<docs, ledger, cooldown, lapsed, topic, sends, listCache>>
local == <<pc, owner, agenda, todo, draft, touched>>
vars  == <<now, store, started, local>>

Statuses == {"ABSENT", "NEW", "ACKNOWLEDGED", "ACTED_ON"}
Raised   == [id: AlertIds, rule: Rules, client: Clients, at: Nat]
Payload  == [alert_id: AlertIds, severity: Severities, channels: {Absent}, rm_name: {Absent}]
NoList   == [items |-> {}, filter |-> "none"]
PCs      == {"idle", "find", "check", "create", "setcd", "publish"}

KeyOf(a)  == <<a.rule, a.client>>
RuleOf(e) == Head(agenda[e])
Key(e)    == <<Head(agenda[e]), Head(todo[e])>>
UsedIds   == {a.id : a \in ledger}

\* The lists of candidates the rules can return for an RM; the dividend query returns a
\* row per holding and the concentration rule one per breach, so a client may occur twice.
CandidateLists(rm) ==
    {s \in UNION {[1..n -> Clients] : n \in 0..MaxCandidates} :
        \A i \in DOMAIN s : RmOf[s[i]] = rm}

Init ==
    /\ now = 0
    /\ docs = [id \in AlertIds |-> "ABSENT"]
    /\ ledger = {}
    /\ cooldown = [k \in Keys |-> 0]
    /\ lapsed = {}
    /\ topic = [rm \in RMs |-> <<>>]
    /\ sends = [id \in AlertIds |-> [lost |-> 0, acked |-> FALSE]]
    /\ listCache = [rm \in RMs |-> NoList]
    /\ started = 0
    /\ pc = [e \in Evals |-> "idle"]
    /\ owner = [e \in Evals |-> Absent]
    /\ agenda = [e \in Evals |-> <<>>]
    /\ todo = [e \in Evals |-> <<>>]
    /\ draft = [e \in Evals |-> Absent]
    /\ touched = [e \in Evals |-> FALSE]
-----------------------------------------------------------------------------
(* Starting an evaluation *)

Begin(e, rm, rules) ==
    /\ pc[e] = "idle"
    /\ started < MaxEvaluations
    /\ started' = started + 1
    /\ pc' = [pc EXCEPT ![e] = "find"]
    /\ owner' = [owner EXCEPT ![e] = rm]
    /\ agenda' = [agenda EXCEPT ![e] = rules]
    /\ UNCHANGED <<now, store, todo, draft, touched>>

\* POST /alerts/evaluate: the three proof-of-concept rules one after another.
EvaluateProofOfConcept(e, rm) == Begin(e, rm, PocRules)

\* evaluateIdleCashAlerts / evaluateMaturityAlerts: a single rule.
EvaluateOneRule(e, rm, r) == Begin(e, rm, <<r>>)

\* The rule's query finds nobody, or throws: on to the next rule.
NoCandidates(e) ==
    /\ pc[e] = "find"
    /\ agenda[e] # <<>>
    /\ agenda' = [agenda EXCEPT ![e] = Tail(@)]
    /\ UNCHANGED <<now, store, started, pc, owner, todo, draft, touched>>

\* The rule's query answers with candidates and evaluateRule enters its loop.
CandidatesFound(e) ==
    /\ pc[e] = "find"
    /\ agenda[e] # <<>>
    /\ \E list \in CandidateLists(owner[e]) \ {<<>>} : todo' = [todo EXCEPT ![e] = list]
    /\ pc' = [pc EXCEPT ![e] = "check"]
    /\ UNCHANGED <<now, store, started, owner, agenda, draft, touched>>

Finish(e) ==
    /\ pc[e] = "find"
    /\ agenda[e] = <<>>
    /\ pc' = [pc EXCEPT ![e] = "idle"]
    /\ owner' = [owner EXCEPT ![e] = Absent]
    /\ UNCHANGED <<now, store, started, agenda, todo, draft, touched>>
-----------------------------------------------------------------------------
(* evaluateRule, one await per action *)

\* Mutant: a key is taken for gone in the last hour of its life.
OnCooldown_lastHourIgnored(k) == cooldown[k] > now + 1

OnCooldown(k) == cooldown[k] > now

\* The evaluation has passed a cooldown check and not yet set the key.
InWindow(e)    == pc[e] \in {"create", "setcd"}

Skip(e) ==
    /\ todo' = [todo EXCEPT ![e] = Tail(@)]
    /\ pc' = [pc EXCEPT ![e] = "check"]

\* Mutant: no `continue` after a cooldown hit.
CheckHit_fallsThrough(e) ==
    /\ pc[e] = "check"
    /\ todo[e] # <<>>
    /\ OnCooldown(Key(e))
    /\ pc' = [pc EXCEPT ![e] = "create"]
    /\ UNCHANGED <<now, store, started, owner, agenda, todo, draft, touched>>

\* (a) the key is there: skip this candidate.
CheckHit(e) ==
    /\ pc[e] = "check"
    /\ todo[e] # <<>>
    /\ OnCooldown(Key(e))
    /\ Skip(e)
    /\ UNCHANGED <<now, store, started, owner, agenda, draft, touched>>

\* Mutant: a Redis error on the check skips the candidate.
CheckPass_failsClosed(e) ==
    /\ pc[e] = "check"
    /\ todo[e] # <<>>
    /\ \/ ~OnCooldown(Key(e)) /\ pc' = [pc EXCEPT ![e] = "create"] /\ UNCHANGED todo
       \/ "redis" \in Faults /\ Skip(e)
    /\ UNCHANGED <<now, store, started, owner, agenda, draft, touched>>

\* (a) no key, or CacheService.get caught a Redis error and answered null.
\* History: the check lapses when it passes in spite of a live key, or while
\* another evaluation is between its own check and set for the same key.
CheckPass(e) ==
    /\ pc[e] = "check"
    /\ todo[e] # <<>>
    /\ ~OnCooldown(Key(e)) \/ "redis" \in Faults
    /\ pc' = [pc EXCEPT ![e] = "create"]
    /\ lapsed' = IF OnCooldown(Key(e)) \/ \E f \in Evals : InWindow(f) /\ Key(f) = Key(e)
                 THEN lapsed \cup {Key(e)} ELSE lapsed
    /\ UNCHANGED <<now, docs, ledger, cooldown, topic, sends, listCache, started>>
    /\ UNCHANGED <<owner, agenda, todo, draft, touched>>

\* The document createAlert saves, under a fresh UUID.
Persist(e, id) ==
    /\ docs' = [docs EXCEPT ![id] = "NEW"]
    /\ ledger' = ledger \cup {[id |-> id, rule |-> RuleOf(e),
                               client |-> Head(todo[e]), at |-> now]}

\* (c) AlertsService.createAlert saves the document.
CreateAlert(e) ==
    /\ pc[e] = "create"
    /\ \E id \in AlertIds \ UsedIds :
          /\ Persist(e, id)
          /\ draft' = [draft EXCEPT ![e] = id]
    /\ pc' = [pc EXCEPT ![e] = "setcd"]
    /\ UNCHANGED <<now, cooldown, lapsed, topic, sends, listCache, started>>
    /\ UNCHANGED <<owner, agenda, todo, touched>>

\* Mutant: the cooldown key is set in a `finally`, even if the save threw.
CreateFails_setsCooldown(e) ==
    /\ pc[e] = "create"
    /\ "mongo" \in Faults
    /\ cooldown' = [cooldown EXCEPT ![Key(e)] = now + Cooldown[RuleOf(e)]]
    /\ Skip(e)
    /\ UNCHANGED <<now, docs, ledger, lapsed, topic, sends, listCache, started>>
    /\ UNCHANGED <<owner, agenda, draft, touched>>

\* (c) the save throws: log and go on with the next candidate.
CreateFails(e) ==
    /\ pc[e] = "create"
    /\ "mongo" \in Faults
    /\ Skip(e)
    /\ UNCHANGED <<now, store, started, owner, agenda, draft, touched>>

\* (c) the document is saved but the answer is lost: save throws all the same, and
\* the alert stays without cooldown key and message.
CreateLost(e) ==
    /\ pc[e] = "create"
    /\ "lost" \in Faults
    /\ \E id \in AlertIds \ UsedIds : Persist(e, id)
    /\ lapsed' = lapsed \cup {Key(e)}
    /\ Skip(e)
    /\ UNCHANGED <<now, cooldown, topic, sends, listCache, started, owner, agenda, draft, touched>>

\* (d) SETEX of the cooldown key; CacheService.set swallows a Redis error.
SetCooldown(e) ==
    /\ pc[e] = "setcd"
    /\ cooldown' = [cooldown EXCEPT ![Key(e)] = now + Cooldown[RuleOf(e)]]
    /\ pc' = [pc EXCEPT ![e] = "publish"]
    /\ UNCHANGED <<now, docs, ledger, lapsed, topic, sends, listCache, started>>
    /\ UNCHANGED <<owner, agenda, todo, draft, touched>>

\* Mutant: CacheService.set rethrows, so the catch of the loop skips the rest.
SetCooldownFails_throws(e) ==
    /\ pc[e] = "setcd"
    /\ "redis" \in Faults
    /\ lapsed' = lapsed \cup {Key(e)}
    /\ Skip(e)
    /\ draft' = [draft EXCEPT ![e] = Absent]
    /\ UNCHANGED <<now, docs, ledger, cooldown, topic, sends, listCache, started>>
    /\ UNCHANGED <<owner, agenda, touched>>

SetCooldownFails(e) ==
    /\ pc[e] = "setcd"
    /\ "redis" \in Faults
    /\ lapsed' = lapsed \cup {Key(e)}
    /\ pc' = [pc EXCEPT ![e] = "publish"]
    /\ UNCHANGED <<now, docs, ledger, cooldown, topic, sends, listCache, started>>
    /\ UNCHANGED <<owner, agenda, todo, draft, touched>>

\* What publishAlert puts in the message: it sends neither the rule's channels
\* nor the RM's name.
Message(id, r) == [alert_id |-> id, severity |-> Severity[r],
                   channels |-> Absent, rm_name |-> Absent]

\* Bookkeeping of a created alert, and on to the next candidate.
Raise(e) ==
    /\ touched' = [touched EXCEPT ![e] = TRUE]
    /\ draft' = [draft EXCEPT ![e] = Absent]
    /\ Skip(e)

Send(e) == topic' = [topic EXCEPT ![owner[e]] = Append(@, Message(draft[e], RuleOf(e)))]

\* The producer is not idempotent: when the broker has appended the message and its
\* acknowledgement is lost, KafkaJS sends again within the same send.
PublishUnacked(e) ==
    /\ pc[e] = "publish"
    /\ sends[draft[e]].lost < Retries
    /\ Send(e)
    /\ sends' = [sends EXCEPT ![draft[e]].lost = @ + 1]
    /\ UNCHANGED <<now, docs, ledger, cooldown, lapsed, listCache, started, local>>

\* Mutant: the alert is published again by its caller.
Published_again(e) ==
    /\ pc[e] = "publish"
    /\ Send(e)
    /\ sends' = [sends EXCEPT ![draft[e]].acked = TRUE]
    /\ Raise(e) \/ UNCHANGED <<touched, draft, todo, pc>>
    /\ UNCHANGED <<now, docs, ledger, cooldown, lapsed, listCache, started>>
    /\ UNCHANGED <<owner, agenda>>

\* (e) KafkaService.publish: the message is appended and acknowledged.
Published(e) ==
    /\ pc[e] = "publish"
    /\ Send(e)
    /\ sends' = [sends EXCEPT ![draft[e]].acked = TRUE]
    /\ Raise(e)
    /\ UNCHANGED <<now, docs, ledger, cooldown, lapsed, listCache, started>>
    /\ UNCHANGED <<owner, agenda>>

\* The send fails, or every attempt went unacknowledged; publish swallows it.
PublishSkipped(e) ==
    /\ pc[e] = "publish"
    /\ "kafka" \in Faults
    /\ Raise(e)
    /\ UNCHANGED <<now, store, started, owner, agenda>>

\* Mutant: the caller evaluates the same rule again instead of the next one.
InvalidateLists_sameRule(e) ==
    /\ pc[e] = "check"
    /\ todo[e] = <<>>
    /\ listCache' = IF touched[e] THEN [listCache EXCEPT ![owner[e]] = NoList] ELSE listCache
    /\ touched' = [touched EXCEPT ![e] = FALSE]
    /\ pc' = [pc EXCEPT ![e] = "find"]
    /\ UNCHANGED <<now, docs, ledger, cooldown, lapsed, topic, sends, started>>
    /\ UNCHANGED <<owner, agenda, todo, draft>>

\* After the loop: drop the alert list of the RM that got a new alert (DEL may
\* fail and is swallowed), then the caller's next rule.
InvalidateLists(e) ==
    /\ pc[e] = "check"
    /\ todo[e] = <<>>
    /\ \/ listCache' = IF touched[e] THEN [listCache EXCEPT ![owner[e]] = NoList]
                                     ELSE listCache
       \/ "redis" \in Faults /\ UNCHANGED listCache
    /\ agenda' = [agenda EXCEPT ![e] = Tail(@)]
    /\ touched' = [touched EXCEPT ![e] = FALSE]
    /\ pc' = [pc EXCEPT ![e] = "find"]
    /\ UNCHANGED <<now, docs, ledger, cooldown, lapsed, topic, sends, started>>
    /\ UNCHANGED <<owner, todo, draft>>
-----------------------------------------------------------------------------
(* Environment *)

Tick ==
    /\ now < MaxTime
    /\ now' = now + 1
    /\ UNCHANGED <<store, started, local>>

\* The core-api process dies: every evaluation in flight is gone, MongoDB,
\* Redis and Kafka keep what they have.
Crash ==
    /\ "crash" \in Faults
    /\ lapsed' = lapsed \cup {Key(e) : e \in {f \in Evals : pc[f] = "setcd"}}
    /\ pc' = [e \in Evals |-> "idle"]
    /\ agenda' = [e \in Evals |-> <<>>]
    /\ todo' = [e \in Evals |-> <<>>]
    /\ owner' = [e \in Evals |-> Absent]
    /\ draft' = [e \in Evals |-> Absent]
    /\ touched' = [e \in Evals |-> FALSE]
    /\ UNCHANGED <<now, docs, ledger, cooldown, topic, sends, listCache, started>>

Step(e) ==
    \/ NoCandidates(e)
    \/ CandidatesFound(e)
    \/ Finish(e)
    \/ CheckHit(e)
    \/ CheckPass(e)
    \/ CreateAlert(e)
    \/ CreateFails(e)
    \/ CreateLost(e)
    \/ SetCooldown(e)
    \/ SetCooldownFails(e)
    \/ PublishUnacked(e)
    \/ Published(e)
    \/ PublishSkipped(e)
    \/ InvalidateLists(e)

Start(e) == \E rm \in RMs : \/ EvaluateProofOfConcept(e, rm)
                            \/ \E r \in ServiceRules : EvaluateOneRule(e, rm, r)

Next ==
    \/ \E e \in Evals : Start(e) \/ Step(e)
    \/ Tick
    \/ Crash

Spec == Init /\ [][Next]_vars

-----------------------------------------------------------------------------
(* What it is checked against *)

\* Every variable has its type.
TypeOK ==
    /\ now \in Nat
    /\ docs \in [AlertIds -> Statuses]
    /\ ledger \subseteq Raised
    /\ cooldown \in [Keys -> Nat]
    /\ lapsed \subseteq Keys
    /\ topic \in [RMs -> Seq(Payload)]
    /\ sends \in [AlertIds -> [lost: Nat, acked: BOOLEAN]]
    /\ started \in Nat
    /\ pc \in [Evals -> PCs]
    /\ owner \in [Evals -> RMs \cup {Absent}]
    /\ agenda \in [Evals -> Seq(Rules)]
    /\ todo \in [Evals -> Seq(Clients)]
    /\ draft \in [Evals -> AlertIds \cup {Absent}]
    /\ touched \in [Evals -> BOOLEAN]

\* Two alerts of one rule for one client are a cooldown apart.
Apart(a, b) == \/ a.at + Cooldown[a.rule] <= b.at
               \/ b.at + Cooldown[b.rule] <= a.at

\* Well-formed locals: a step that looks at the current rule, candidate or draft
\* finds one.
LocalsOK ==
    \A e \in Evals :
        /\ pc[e] # "idle" => owner[e] \in RMs
        /\ pc[e] \in {"check", "create", "setcd", "publish"} => agenda[e] # <<>>
        /\ pc[e] \in {"create", "setcd", "publish"} => todo[e] # <<>>
        /\ pc[e] \in {"setcd", "publish"} => draft[e] \in AlertIds

\* What keeps duplicates apart on a key that has not lapsed: an alert is covered
\* by a cooldown key that outlasts it or by an evaluation about to set one, an
\* evaluation about to create finds every earlier alert cooled down, and no two
\* evaluations are between check and set together.
Covered(a) ==
    \/ a.at + Cooldown[a.rule] <= cooldown[KeyOf(a)]
    \/ \E e \in Evals : pc[e] = "setcd" /\ Key(e) = KeyOf(a)
LedgerPast   == \A a \in ledger : a.at <= now
LedgerCovered == \A a \in ledger : KeyOf(a) \in lapsed \/ Covered(a)
CreateIsDue  == \A e \in Evals : pc[e] = "create" =>
                    \/ Key(e) \in lapsed
                    \/ \A a \in ledger : KeyOf(a) = Key(e) => a.at + Cooldown[a.rule] <= now
OneInWindow  == \A e, f \in Evals :
                    e # f /\ InWindow(e) /\ InWindow(f) /\ Key(e) = Key(f) => Key(f) \in lapsed

\* The cooldown does its job: no client gets the same rule's alert twice within
\* cooldown_hours, whatever evaluations run (alert-engine.service.ts:174-229).
NoDuplicateAlert ==
    \A a, b \in ledger : a # b /\ KeyOf(a) = KeyOf(b) => Apart(a, b)

\* The only ways to a duplicate: a Redis error on the check or on the set, a
\* crash between save and set, a save that throws although it took effect, or an
\* evaluation that passes its check while another is between its check and its
\* set for the same key.
NoDuplicateUnlessLapsed ==
    \A a, b \in ledger :
        a # b /\ KeyOf(a) = KeyOf(b) /\ KeyOf(a) \notin lapsed => Apart(a, b)

\* The inductive strengthening of NoDuplicateUnlessLapsed.
CooldownInv ==
    /\ TypeOK
    /\ LocalsOK
    /\ LedgerPast
    /\ LedgerCovered
    /\ CreateIsDue
    /\ OneInWindow
    /\ NoDuplicateUnlessLapsed

\* A client is suppressed only on account of an alert: a live cooldown key means
\* that an alert for that rule and client was persisted before the key was set.
NoUnfoundedCooldown ==
    \A k \in Keys : OnCooldown(k) =>
        \E a \in ledger : KeyOf(a) = k /\ a.at + Cooldown[a.rule] <= cooldown[k]

Messages == UNION {{<<rm, i>> : i \in DOMAIN topic[rm]} : rm \in RMs}
IdAt(m)  == topic[m[1]][m[2]].alert_id

\* An alert is announced only after it is persisted, to the partition of its
\* client's RM, and twice only when an acknowledgement of its one send was lost:
\* no overlap of evaluations, failure or crash of core-api repeats it.
PublishedOnce ==
    /\ \A m, n \in Messages : IdAt(m) = IdAt(n) =>
          m = n \/ (m[1] = n[1] /\ sends[IdAt(m)].lost > 0)
    /\ \A m \in Messages : \E a \in ledger : a.id = IdAt(m) /\ RmOf[a.client] = m[1]

\* The engine implements the cooldown promise of AlertPromise: the Redis keys, the
\* program counters and the retries are an implementation of it.
Promise == INSTANCE AlertPromise
ImplementsPromise == Promise!PromiseSpec

\* Every evaluation comes to an end.
EvaluationEnds == \A e \in Evals : pc[e] # "idle" ~> pc[e] = "idle"

\* Without a Mongo failure every candidate of an evaluation ends up covered: the
\* rule has an alert for the client, raised now or still cooling down.
CandidateCovered ==
    \A e \in Evals, r \in Rules, c \in Clients :
        (pc[e] = "check" /\ RuleOf(e) = r /\ \E i \in DOMAIN todo[e] : todo[e][i] = c)
            ~> (\E a \in ledger : KeyOf(a) = <<r, c>>)

\* Without a Kafka failure every persisted alert is announced.
PersistedIsPublished ==
    \A id \in AlertIds :
        id \in UsedIds ~> (\E m \in Messages : IdAt(m) = id)
=============================================================================
