----------------------------- MODULE AlertInbox -----------------------------
(***************************************************************************)
(* The RM's side of the alerts collection: AlertsService.getAlertsForRM,   *)
(* acknowledgeAlert and actOnAlert, run as HTTP requests that interleave   *)
(* with each other, with the evaluations of AlertEngine and with MongoDB's *)
(* TTL monitor, which deletes a document once its expires_at has passed.   *)
(***************************************************************************)
EXTENDS AlertEngine

CONSTANTS
    Requests,     \* requests that can be in flight together
    MaxRequests,  \* bound on the requests started
    ShortLife,    \* lifetime of critical and high alerts (24 h)
    LongLife      \* lifetime of the others (168 h)

ASSUME LifeAssumption == ShortLife \in Nat /\ LongLife \in Nat

VARIABLES
    asked,   \* requests started so far
    rpc,     \* the await each request is at
    params,  \* what it was asked: kind, rm, alert or filter
    seen,    \* the page a list request read
    answer   \* what it answered

request   == <<asked, rpc, params, seen, answer>>
inboxVars == <<vars, request>>

Filters  == {"all"} \cup (Statuses \ {"ABSENT"})
NoParams    == [kind |-> "none"]
Answers  == {"none", "ok", "notFound", "denied", "updateFailed"}

\* The record of a persisted alert; one document per alert_id (unique index).
RecordOf(id) == CHOOSE a \in ledger : a.id = id
OwnerOf(id)  == RmOf[RecordOf(id).client]

\* computeExpiry: critical and high alerts live 24 h, the others 7 days.
Lifetime(sev) == IF sev \in {"critical", "high"} THEN ShortLife ELSE LongLife
ExpiresAt(id) == RecordOf(id).at + Lifetime(Severity[RecordOf(id).rule])

InboxInit ==
    /\ Init
    /\ asked = 0
    /\ rpc = [q \in Requests |-> "idle"]
    /\ params = [q \in Requests |-> NoParams]
    /\ seen = [q \in Requests |-> {}]
    /\ answer = [q \in Requests |-> "none"]
-----------------------------------------------------------------------------
\* A request arrives: GET /alerts, PATCH :id/acknowledge or PATCH :id/act.  A
\* mutation names an alert that exists or once existed.
Ask(q, j) ==
    /\ rpc[q] = "idle"
    /\ asked < MaxRequests
    /\ asked' = asked + 1
    /\ params' = [params EXCEPT ![q] = j]
    /\ rpc' = [rpc EXCEPT ![q] = IF j.kind = "list" THEN "list" ELSE "find"]
    /\ answer' = [answer EXCEPT ![q] = "none"]
    /\ UNCHANGED <<vars, seen>>

Arrive(q) ==
    \E rm \in RMs :
        \/ \E f \in Filters : Ask(q, [kind |-> "list", rm |-> rm, on |-> f])
        \/ \E k \in {"ACKNOWLEDGED", "ACTED_ON"}, id \in UsedIds :
               Ask(q, [kind |-> k, rm |-> rm, on |-> id])

Reply(q, a) ==
    /\ answer' = [answer EXCEPT ![q] = a]
    /\ rpc' = [rpc EXCEPT ![q] = "idle"]

\* The alerts of an RM that match a filter, with their current status.
Page(rm, f) == {<<id, docs[id]>> : id \in {i \in UsedIds :
                   docs[i] # "ABSENT" /\ OwnerOf(i) = rm /\ f \in {"all", docs[i]}}}

\* getAlertsForRM always reads MongoDB.  The page is answered at once and then
\* written to Redis in the background.
ReadList(q) ==
    /\ rpc[q] = "list"
    /\ seen' = [seen EXCEPT ![q] = Page(params[q].rm, params[q].on)]
    /\ rpc' = [rpc EXCEPT ![q] = "warm"]
    /\ UNCHANGED <<vars, asked, params, answer>>

\* The fire-and-forget SETEX under alerts:rm:{rm}, whatever the query was.
WarmList(q) ==
    /\ rpc[q] = "warm"
    /\ \/ listCache' = [listCache EXCEPT ![params[q].rm] =
                            [items |-> seen[q], filter |-> params[q].on]]
       \/ "redis" \in Faults /\ UNCHANGED listCache
    /\ seen' = [seen EXCEPT ![q] = {}]
    /\ Reply(q, "ok")
    /\ UNCHANGED <<now, docs, ledger, cooldown, lapsed, topic, sends, started, local>>
    /\ UNCHANGED <<asked, params>>

\* findAndVerifyOwnership: 404, 403 or go on.
FindAndVerify(q) ==
    /\ rpc[q] = "find"
    /\ IF docs[params[q].on] = "ABSENT" THEN Reply(q, "notFound")
       ELSE IF OwnerOf(params[q].on) # params[q].rm THEN Reply(q, "denied")
       ELSE rpc' = [rpc EXCEPT ![q] = "update"] /\ UNCHANGED answer
    /\ UNCHANGED <<vars, asked, params, seen>>

\* Mutant: the update upserts.
Update_upserts(q) ==
    /\ rpc[q] = "update"
    /\ docs' = [docs EXCEPT ![params[q].on] = params[q].kind]
    /\ rpc' = [rpc EXCEPT ![q] = "drop"]
    /\ UNCHANGED <<now, ledger, cooldown, lapsed, topic, sends, listCache, started, local>>
    /\ UNCHANGED <<asked, params, seen, answer>>

\* findOneAndUpdate by alert_id alone: no condition on the status it replaces,
\* and null when the document has been deleted since.
Update(q) ==
    /\ rpc[q] = "update"
    /\ IF docs[params[q].on] = "ABSENT"
       THEN Reply(q, "updateFailed") /\ UNCHANGED docs
       ELSE /\ docs' = [docs EXCEPT ![params[q].on] = params[q].kind]
            /\ rpc' = [rpc EXCEPT ![q] = "drop"]
            /\ UNCHANGED answer
    /\ UNCHANGED <<now, ledger, cooldown, lapsed, topic, sends, listCache, started, local>>
    /\ UNCHANGED <<asked, params, seen>>

DropList(q) ==
    /\ rpc[q] = "drop"
    /\ \/ listCache' = [listCache EXCEPT ![params[q].rm] = NoList]
       \/ "redis" \in Faults /\ UNCHANGED listCache
    /\ Reply(q, "ok")
    /\ UNCHANGED <<now, docs, ledger, cooldown, lapsed, topic, sends, started, local>>
    /\ UNCHANGED <<asked, params, seen>>

\* Mutant: the TTL index is on created_at.
MongoExpire_onCreatedAt(id) ==
    /\ docs[id] # "ABSENT"
    /\ now >= RecordOf(id).at
    /\ docs' = [docs EXCEPT ![id] = "ABSENT"]
    /\ UNCHANGED <<now, ledger, cooldown, lapsed, topic, sends, listCache, started, local>>
    /\ UNCHANGED request

\* MongoDB's TTL monitor (index expires: 0) deletes some time after expires_at.
MongoExpire(id) ==
    /\ docs[id] # "ABSENT"
    /\ now >= ExpiresAt(id)
    /\ docs' = [docs EXCEPT ![id] = "ABSENT"]
    /\ UNCHANGED <<now, ledger, cooldown, lapsed, topic, sends, listCache, started, local>>
    /\ UNCHANGED request

\* The 300 s TTL of a cached list, shorter than one unit of the clock.
ListExpires(rm) ==
    /\ listCache[rm] # NoList
    /\ listCache' = [listCache EXCEPT ![rm] = NoList]
    /\ UNCHANGED <<now, docs, ledger, cooldown, lapsed, topic, sends, started, local>>
    /\ UNCHANGED request

\* The process dies with its requests as well.
InboxCrash ==
    /\ Crash
    /\ rpc' = [q \in Requests |-> "idle"]
    /\ seen' = [q \in Requests |-> {}]
    /\ UNCHANGED <<asked, params, answer>>

RequestStep(q) ==
    \/ ReadList(q)
    \/ WarmList(q)
    \/ FindAndVerify(q)
    \/ Update(q)
    \/ DropList(q)

InboxNext ==
    \/ (\E e \in Evals : Start(e) \/ Step(e)) /\ UNCHANGED request
    \/ Tick /\ UNCHANGED request
    \/ \E q \in Requests : Arrive(q) \/ RequestStep(q)
    \/ \E id \in UsedIds : MongoExpire(id)
    \/ \E rm \in RMs : ListExpires(rm)
    \/ InboxCrash

InboxSpec == InboxInit /\ [][InboxNext]_inboxVars
-----------------------------------------------------------------------------
\* A persisted document changes only when its own RM's request updates it, and
\* disappears only past its expires_at; once gone it never comes back, though
\* the update runs after an await and no longer checks anything.
OnlyTheOwnerChangesIt ==
    [][\A id \in UsedIds : docs'[id] # docs[id] =>
          \/ docs[id] # "ABSENT" /\ docs'[id] = "ABSENT" /\ now >= ExpiresAt(id)
          \/ /\ docs[id] # "ABSENT" /\ docs'[id] # "ABSENT"
             /\ \E q \in Requests : /\ rpc[q] = "update" /\ params[q].on = id
                                    /\ params[q].rm = OwnerOf(id)]_inboxVars

\* A request on a known alert is told "not found" or "update failed" only if the
\* alert has outlived its expires_at.
MissingOnlyIfExpired ==
    \A q \in Requests :
        answer[q] \in {"notFound", "updateFailed"} =>
            docs[params[q].on] = "ABSENT" /\ now >= ExpiresAt(params[q].on)
=============================================================================
