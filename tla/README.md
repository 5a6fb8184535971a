# RM Buddy: TLA+ models, checks and proofs

This directory holds a formal model of RM Buddy: TLA+ modules translated from the TypeScript
and Python sources, TLC configurations that check them on small instances, and TLAPS proofs
of the results that matter for every size of the system. `PROJECT.json` maps each definition
to the lines it models; paths below are relative to `src/apps/`.

    tlc -workers 2 -config session.cfg MCSessionStore     # check one run
    tlapm SessionStoreProofs.tla                          # check the proofs of one module

## 1. The system

RM Buddy is an assistant for relationship managers (RMs): it watches their clients' data,
raises alerts, delivers them in the browser or by a voice call, shows lists, scores and a
daily briefing, and answers questions through agents.

| Component | State it keeps | Operations | Talks to |
|---|---|---|---|
| **core-api: alerts** (`core-api/src/modules/alerts`) | MongoDB `alerts` (TTL index on `expires_at`), Redis `cooldown:{rule}:{client}` and `alerts:rm:{rm}` | evaluate rules, list, acknowledge, act | Kafka `alerts.generated` |
| **communication-service** | Kafka group offsets, Socket.IO rooms, the producer's `connected` flag | consume, dispatch per channel, publish receipts, join/leave rooms | Kafka `alerts.delivered`, ElevenLabs, browsers |
| **auth-service** | MongoDB `rm_sessions` (TTL index), Redis `session:{id}`; a static role table | validate token, create / get / invalidate session | gateway |
| **gateway** | rate-limit counters | rate limit, forward auth (5 s timeout), proxy (180 s for the agents) | auth-service, core-api, agents |
| **core-api: crm-sync** | MongoDB mirror of CRM data with checksums, cron at 02:00 | fullSync, syncForRM, writeBack (CRM first, then MongoDB) | CRM, cache |
| **core-api: dashboard, briefing, actions, performance, engagement** | MongoDB collections, cached answers | lists with filters, sorts and limits; scores, ranks, percentiles, streaks | MongoDB, cache |
| **core-api: cache** | Redis, one or two keys per screen | get, set, readThrough | all modules |
| **core-api: search** | Redis hash `lookup:rm:{rm}:clients` | find a client by name, rebuild the hash, answer a question in words | MongoDB text index |
| **agent-orchestrator** (Python) | MongoDB `agent_sessions` (TTL index on `expires_at`), `conversation_summaries`, `rm_facts`, Redis `session:{id}` | chat, list and delete conversations, supervisor graph with guardrails | core-api, LLM proxy |
| **frontend-web** | Zustand stores (auth, chat) | chat panel, sidebar of conversations, dashboards | gateway, WebSocket |
| **litellm-proxy, deployment, shared/types** | configuration | none | |

`AlertsModule` and `CrmSyncModule` are commented out in `core-api/src/app.module.ts:14-18,
51-52`: the models describe the modules as written and tested, for the day they are switched
on again.

What is hard, per component, and what makes it correct:

- *Alert engine.* A cooldown is a Redis key read before the alert is saved and set after,
  with an `await` in between: overlapping evaluations, a Redis error that reads as "no key",
  a crash or a lost answer between save and set. Correct when duplicates have no other
  cause, when nobody is suppressed without an alert, when an alert is announced only after
  it is stored, and twice only if Kafka's acknowledgement was lost, and when one failing
  rule or candidate stops nothing else.
- *Alert rules.* Date windows across the end of a year and 29 February, and a cooldown per
  client that must be shorter than the window of the rule. Correct when nothing due is
  missed because of a cooldown.
- *Alert inbox.* Ownership is checked on a document read before the update; the TTL monitor
  deletes in between. Correct when only the owner's request changes a document, a deleted
  one never comes back, and "not found" is told only of an expired alert.
- *Delivery.* At-least-once consumption with swallowed errors: a message comes again after a
  crash, after the group has expelled the consumer in a long handler or a rebalance, and
  when the producer sent it twice; the voice call has no timeout. Correct when no message is
  skipped, repetition has no other cause, a socket sees its own RM's alerts in order, and
  every message is handled in the end, unless a call never returns.
- *Pipeline.* Producer and consumer disagree on the payload's fields. Correct when the
  engine is a producer such as the consumer assumes.
- *Sessions.* Two stores and a read-through that writes back what it read. Correct when
  Redis never knows more than MongoDB, a live session is found through any Redis failure,
  and an invalidated one stays over unless its invalidation was overtaken or half of it
  failed: the errors of both stores are swallowed.
- *CRM sync.* A write-back is done in the CRM before MongoDB, while a sync upserts pages it
  fetched earlier. The CRM lists a client under several RMs; it drops, adds and hands over
  records while a sync pages through them by offset, and of three collections only the first
  page is ever asked for. Correct when the mirror is never ahead, a clean completion event
  can be believed, and a confirmed write-back stays.
- *Screens.* Every screen has its own list of statuses, its own sort, limit and rounding.
  Correct when the screens do not contradict each other and do not cut off what is urgent.
- *Caches in front of them.* One or two keys with nothing but a TTL to end them. Correct
  when the age of an answer is bounded and the briefing stays the same.
- *Client lookup.* A hash nothing is removed from, while the sync renames and moves clients;
  three queries that each match in their own way, and each are blind to something. Correct
  when whoever is found is the RM's and bears or bore the name, or matches it when nobody
  has that very name.
- *Conversation.* The answer goes out before the exchange is stored, the proxy gives up
  before the orchestrator does, a copy is written back over a newer append, the RM moves on
  or deletes meanwhile, MongoDB removes the document an hour after its first message, and a
  summary is kept apart from it. Correct when the history is in order, the copy current, a
  deletion final and the panel one conversation.

The full list, at the line where each bites, is under `hazards` in `PROJECT.json`.

## 2. Modules

| Module | Models | Source |
|---|---|---|
| `AlertEngine` | one HTTP request or job running the rules; one action per `await` of `evaluateRule` | `alert-engine.service.ts`, `alerts.service.ts`, `cache.service.ts`, `kafka.service.ts` |
| `AlertPromise` | what cooldowns promise, with no Redis and no program counters | abstract specification |
| `AlertRules` | every rule as a predicate of a client's data and the time, evaluated daily | `modules/alerts/rules` |
| `AlertInbox` | EXTENDS AlertEngine with list, acknowledge and act requests, and the TTL index | `alerts.service.ts`, `alerts.controller.ts`, `alert.model.ts` |
| `AlertDelivery` | Kafka consumer, dispatcher, rooms, voice, receipts | `communication-service/src/modules` |
| `AlertPipeline` | EXTENDS AlertEngine and INSTANCEs AlertDelivery on the shared `topic` | both services |
| `SessionStore` | `createSession`, `getSession`, `invalidateSession` | `auth-service/src/modules/session`, `sso` |
| `CrmSync` | `fullSync`, `syncForRM`, `writeBack` with the five entity loops | `crm-sync.service.ts`, `crm-api.client.ts` |
| `RmScreens` | what each screen computes from the collections at the moment of the request | `dashboard`, `briefing`, `actions`, `performance`, `engagement` |
| `RmQuestions` | EXTENDS RmScreens with the questions in words | `query-engine.service.ts` |
| `ReadCache` | concurrent requests through the keys of each screen | `cache.service.ts` and the five services |
| `ClientLookup` | the lookup of a client by name, with its Redis hash | `search.service.ts` |
| `Conversation` | the chat from the panel through the gateway to the orchestrator and back | `frontend-web`, `gateway`, `agent-orchestrator` |
| `AlertProofs` | proofs about `AlertEngine`, `AlertInbox` and `AlertPipeline` | |
| `AlertEndsProofs` | proofs about `AlertRules` and `AlertDelivery` | |
| `RmScreensProofs` | proofs about `RmScreens` and `RmQuestions` | |
| `ReadCacheProofs`, `SessionStoreProofs`, `CrmSyncProofs`, `ConversationProofs`, `ClientLookupProofs` | proofs about the module of that name | |
| `MC*` | instances: constant values, symmetry sets, sets of situations | |

### AlertEngine

An evaluation `e` is at the await `pc[e]`: `find` (the rule's query), `check` (Redis GET of
the cooldown key), `create` (save in MongoDB), `setcd` (SETEX), `publish` (Kafka).
`agenda[e]` are the rules still to evaluate and `todo[e]` the candidates left in the loop.
The failures are actions of their own, with what the code does about each:
`CacheService.get` answers null on an error, so `CheckPass` may ignore a live key; `set`
swallows its error (`SetCooldownFails`); a throwing save is logged and the loop goes on,
whether the document was stored (`CreateLost`) or not (`CreateFails`);
`KafkaService.publish` swallows everything (`PublishSkipped`); a throwing query only ends
its rule (`NoCandidates`); `Crash` ends all evaluations. The producer of
`kafka.module.ts:41` is not idempotent: an append whose acknowledgement is lost
(`PublishUnacked`) is sent again by KafkaJS within the one `send`, up to `Retries` times,
and is on the topic once more; so an alert may be on the topic before `Published` appends
it, and also when `PublishSkipped` gives up. The clock's unit is that of `cooldown_hours`.

Two history variables carry what the code does not store: `ledger` (every alert ever saved,
with its time) and `lapsed` (the keys whose check-then-set was disturbed); `sends` counts
the appends of each alert. A rule's query is abstracted to the candidate lists it can
return; the dividend query yields a row per holding and the concentration rule one per
breach, so a list may name a client twice.

### AlertRules

Time is counted in half days, dates are days of a leap year. Each `<rule>Due` is the rule's
query over what the mirror holds of a client; `EvaluateAll` is one daily evaluation under
the cooldown of each rule and client, without the races and failures AlertEngine has. The
calendar is the one `Date` computes with between 1901 and 2099, when every fourth year is a
leap year: `CasesAssumption` keeps what is asked of it within a hundred years of day 0.
`MaturityDue` is FALSE: the query asks for a `maturity_date` that the strict schema of a
holding (`portfolio.model.ts:14-30`) does not keep, so it finds nothing. A birthday is due
on the three days before it and at the midnight that begins it: at any later time of the day
itself `birthday.rule.ts` already looks for next year's.

### AlertInbox

A request is at `rpc[q]`: `list`, `warm`, `find`, `update` or `drop`. `Update` is the
unconditional `findOneAndUpdate` of the code, after an await. `WarmList` is the
fire-and-forget write of whatever page was read; the HTTP answer does not wait for it, so
`rpc[q]` stays "warm" while the reply is already out.

### AlertDelivery

Kafka is external: partitions, a committed offset per partition that outlives the service,
autocommit of resolved offsets, redelivery of what was not committed, and a start at the end
of the log when the group has no offset (`fromBeginning: false`). `Expel` is the group
counting the consumer out, when a handler keeps it from its heartbeats for a session timeout
or in a rebalance: the handler runs on, `Commit` is refused, and `Rejoin` reads on from the
committed offset (`Seek`). An `Epoch` is the time between two such starts, by a crash or a
return. `DeliverVoice` may never happen: its request has no timeout (`Calling`). `job` is
the message in `eachMessage`, its channels consumed one by one; each channel's failure is
caught, so the receipt is always attempted. The handler of `alerts.delivered` only logs and
is left out.

### AlertPipeline

The engine's `topic` is the one delivery consumes; `Produce` of AlertDelivery, which may
append one message again, is implemented by the engine's `Published` and `PublishUnacked`.

### SessionStore

A call is at `pc[p]`: `persist`, `setex` (create), `lookUp`, `find`, `hydrate` (get),
`evict`, `mark` (invalidate). `copy[p]` is what it read or built and is about to write to
Redis. `closed` are the sessions an invalidation has been answered for. A `Cached` entry has
its own TTL, `until`, apart from the session's `expires`. `raced` is history: sessions an
active copy of which was cached or on its way to Redis at the mark, or of whose invalidation
a Redis or MongoDB error, swallowed both, left half. `invalidateSession` has no caller in
production code; its tests and its contract are the reference.

### CrmSync

A record is its version. A job (`full`, `login`) is at `jpc[j]`; under one RM it runs a
`loop[<<j, e>>]` per entity, in parallel: a page fetched from the CRM, upserted record by
record, then the next page; of meetings, leads and pipeline only the first, since those
loops never look at `hasMore`. `lists` is what the CRM lists under each RM, and a record may
be under several, as CL004 and CL005 are under RM001 and RM002
(`crm-api.client.ts:331-342`). `CrmEdit` is somebody changing, adding, handing over or
deleting a record there. A listing keeps the CRM's order: `Places` are where its records
stand, `Rank` numbers them, and `Page` is the slice by offset that `paginate` takes. A sync
deletes nothing. A write-back `wb[w]` is at the CRM, at MongoDB or done. History: `raced`,
records written back while an older copy was on its way; `touched`, records changed while
the full sync ran; `missed`, those that slid past its page when one before them was dropped,
or lay beyond the one page.

### RmScreens and RmQuestions

No program counters: a screen is an operator over the collections, and the actions are what
changes the collections (alerts closed, meetings completed, proposals sent, clients called,
a login, time). `Best(S, n, <)` is "sort and limit". Each sort has its own order because
each has its own bugs: strings as strings (`Alphabetical`), newest first, oldest first.
Rounding is `Rounded`, in tenths or thousandths. A question is its kind, its parameter and
whether it opens with a word the last pattern catches; `Intent` is the first pattern that
matches. A dimension of the standing averages two metrics, or one with itself, weighs the
mean and cuts it off at 100 percent, the RM's own from rounded percentiles and the peers'
from exact ones; a day scores for its actions with or without a session. `WellFormed` says
what documents a collection may hold, a tier no score knows ("BLACK", which the seed data
have) among them; a collection is a function from document numbers, so that sums are over
finite sets, and ties of a sort, which MongoDB breaks as it likes, go to the lowest number.

### ReadCache

A behaviour is about one screen. A request has a leg on each path of the screen and moves
along its keys, outermost first: `get`, inner `get`, `fetch`, `set` back outwards. Values
carry the figure they were computed from and their age; `settled` is the time since the
figure last changed. `Stays(w, i)` is how much older a value can get in the key at place `i`
of path `w`.

### ClientLookup

A request is at `call[q].pc`: `hget`, `resolve`, `text`, `regex`, `fuzzy`, `hset`, `expire`,
or `scan`, `hsetall` for a rebuild. A client is a name, a sequence of letters, and the words
under which the text index has the mail address and the PAN, so that the queries find
different things. $text takes words: a `Score` sums them over the three fields by the
index's weights 10, 3 and 1 (`init-text-indexes.js:5-8`), and stop words count for nothing.
$regex takes the name as it comes: a full stop is any letter, and what it finds for a name
with another special letter is left open. The similarity compares at most `FuzzyLimit`
clients, whichever MongoDB returns. `bore` is history: the names each client had with each
RM.

### Conversation

A question `c` is at `asked[c]` for the browser and at `pc[c]` for the orchestrator (`get`,
`find`, `setex`, `run`, then `pushUser`, `dropUser`, `pushAnswer`, `pushOnly`, `dropLast`:
each message is pushed to MongoDB and the cached copy dropped); `reply[c]` is the HTTP
answer under way. A session's document is `stored[s]` in MongoDB and `cached[s]` in Redis.
`ExpireStored` is MongoDB's TTL index on `expires_at` (`init-memory-indexes.js:15`), which
only the message that creates the document sets: an hour later it goes, whatever has been
said since. `Remember` is the background hook of `chat.py:139-148`: it may keep a summary
and facts (`remembered`), which nothing deletes. The supervisor's answer is one step:
guardrails, classification by patterns, what is fetched and what is told of it.

## 3. Runs

| Run | Checks | Bounds and why they suffice |
|---|---|---|
| `engine_faults` | `NoDuplicateUnlessLapsed`, `NoUnfoundedCooldown`, `PublishedOnce`, refinement `ImplementsPromise` | 1 rule, 1 client (keys are independent), 2 overlapping of 3 evaluations, up to 2 candidates each (the same client twice), clock to 2 with a cooldown of 2, so that a key is live, at its boundary and gone, all five kinds of failure, one append sent again. A third evaluation starts after the first two are over and after the cooldown may have ended. |
| `inbox_races` | `MissingOnlyIfExpired`, `OnlyTheOwnerChangesIt` | 2 requests of 2 RMs, one alert, crash, a lifetime of 1 within a clock of 2: find, delete, update in every order. |
| `delivery` | `RepeatedCallsNeedRedelivery`, `SocketSeesOrderedAlerts`, `NothingSkipped`, `EveryMessageHandled` | 2 RMs, 1 alert that may be appended twice, two payloads (complete, voice below its severity), two crashes or expulsions in any mix, a socket that reconnects. The properties compare two messages of one partition, and two appends of one alert are the hardest such pair; a partition of each RM tells whose socket sees what. |
| `pipeline_live` | refinement `ImplementsDelivery`, `RaisedGetsReceipt`, `EvaluationEnds`, `CandidateCovered`, `PersistedIsPublished` | 1 client of 1 RM (another pair shares nothing with it but the consumer), 2 overlapping evaluations that may raise an alert each, one of them appended twice, Redis errors. No MongoDB or Kafka error: either may legitimately leave a candidate without alert or an alert without message. |
| `pipeline_channels` (violation) | `DispatchedAsRequested` | no failure |
| `session` | `CacheIsBacked`, `NotFoundOnlyIfExpired`, `InvalidatedUnlessRaced` | 2 sessions, 3 concurrent of 4 calls (create, read, invalidate, and read or invalidate again), TTL 1, clock to 2, Redis and MongoDB errors, crashes. |
| `alert_rules` | `AnnouncedInTime`, `FoundByTheCalendar` | Clients on the edges of each rule (`MCCases`): the end of a year, of February and of March in plain and leap years, orders 30 days old, tenures around 4 to 7 and 18 years, a third 1 March in a leap year. 28 half days: longer than the 24 to 72 hours of the two cooldowns `AnnouncedInTime` is about and than the windows those must fit into (the last meetings lie 12 to 15 days before the run). The monthly cooldowns (720 hours, 60 half days) do not run out in it; no property depends on it. |
| `crm_sync` | `NeverAhead`, `CleanSyncIsFresh`, `ConfirmedStaysUnlessRaced`, `FullSyncEnds` | 2 RMs, two clients of whom one is listed under both and not mirrored yet, two leads of one RM, pages of 1, one sync of each kind, one write-back, one change in the CRM: the first client is deleted, which moves the second to the page already read, or the second is handed over; CRM and MongoDB errors, crashes. Two records of one entity make two pages, so a write-back can fall between them; the second lead is on the page never asked for; the entities' loops interleave. Not reached in these bounds: a record the CRM adds while a sync runs, which the theorems cover. |
| `rm_screens` | `AlertsOnScreens`, `BriefingKeepsCritical`, `StandingAgrees`, `StreakMatchesTrend`, `PeriodsAddUp`, `AnswersAddUp`, `AgeingNeverDemotes` | Situations that each vary one group of data around its edges (`MCSituations`) with the rest empty: the screens read the groups independently but for the briefing, whose situations mix them. Up to 4 peers with every pair of figures of 0 to 2; tiers in capitals, in small letters and one no score knows; days with actions and no session. The limits of the code (5, 10, 20...) are lowered to 1, 2 and 3 so that a list overflows; a year of three months; steps of 8 and 24 hours over two days. |
| `read_cache` | `BriefingFixedUnlessExcused`, `AnswersAgeBounded`, `ImpossiblePercentileFades` | Each screen alone, 2 requests at once (1 for the strengths, each of whose requests reads two keys side by side), TTLs scaled down in the order of the code's, clock to 4: an entry is filled, refilled from an older inner entry and over. Redis and MongoDB errors, eviction, crash. |
| `client_lookup` | `RightClient`, `FoundIfThere` | 2 clients who may be any of 4 persons, 2 RMs, 2 calls, one rename or move, one error or crash, a limit of 1 for the last query; two names of the same words, one with a word more that his mail address scores for, one of a special letter and a stop word whose PAN is a word of the others. |
| `conversation` | `TranscriptInOrder`, `CopyIsCurrent`, `DeletedStaysDeleted`, `PanelIsOneConversation` | 2 questions, 2 conversations, 1 deletion, 1 failure of any kind anywhere or removal of a document by its age: two questions in one conversation, in two, across a deletion, with a proxy timeout and an answer that comes after it. |

Deadlock is not checked: each run bounds the evaluations, requests, messages, calls,
changes, failures and clock ticks it starts, and really stops when they are used up. What
must not get stuck is stated as liveness. Every property of a passing run has a mutant, an
operator named `<Definition>_<defect>` just before the definition it would replace, under
which TLC finds the property violated.

Symmetry is used only for sets of values the specification treats alike, and in no run that
checks liveness. `engine_faults`, `inbox_races` and `read_cache` check action properties
under symmetry: each is a property of single steps and itself symmetric.

### Fairness

`FairDeliverySpec`: weak fairness of the two startup hooks and of the consumer loop (fetch,
in-app channel, receipt, commit, return to the group), not of the voice call:
`voice.service.ts:96-101` gives axios no timeout and axios has none of its own, so
`EveryMessageHandled` is about behaviours in which no call hangs for ever. None of
producers, sockets, expulsions or crashes. `FairPipelineSpec` adds weak fairness of each
evaluation's steps, and `CrmSpec` has weak fairness of each sync's steps. Node's event loop
runs the continuation of every settled promise; the MongoDB, Redis and Kafka clients settle
theirs by an answer or a timeout. `crm-api.client.ts` answers from data of its own; the HTTP
client it is to be replaced by needs a timeout for `FullSyncEnds` to stay true. Nothing fair
is assumed of new requests, write-backs, the clock, failures or crashes.

### Excuses

Several invariants say "unless": `NoDuplicateUnlessLapsed`, `ConfirmedStaysUnlessRaced`,
`InvalidatedUnlessRaced`, `BriefingFixedUnlessExcused`. The excuse is a history variable set
by the very steps that do the damage, so that each property says exactly what has to go
wrong first. What they excuse can happen without any failure:

- two overlapping evaluations both pass the check and both save, though README.md:337
  promises a cooldown "to avoid duplicate alerts";
- a page fetched before a write-back is upserted after it and undoes it in the mirror until
  the next sync;
- a session read before its mark is cached as active again after its invalidation (and a
  MongoDB error in the mark, swallowed at `session.service.ts:215-217`, leaves it active
  though its invalidation was answered);
- two requests that both miss the key of the briefing compute it twice, and the RM may see
  one version and then the other, though briefing.service.ts:344-348 calls generation
  idempotent for the day.

### Where code and documents disagree

`pipeline_channels` shows one: the payload core-api sends has no `channels`, which the
consumer's type requires, so nothing is dispatched on any channel.

Seen while modelling, without a run:

*Alerts.* A filtered page is cached under the key of the unfiltered list
(`alerts.service.ts:119`, against :93-94), though nothing reads it back. The
proof-of-concept idle-cash rule and the service's have different ids, hence different
cooldown keys for one condition. No maturity is ever announced: the rule queries
`holdings.maturity_date` (`maturity-proceeds.rule.ts:77`), which the strict schema of a
holding drops (`portfolio.model.ts:14-30`). A birthday of today is due at midnight only,
although `birthday.rule.ts:27` says "inclusive of today" and :174-179 words a message for
it; likewise 31 March. `FoundByTheCalendar` therefore says nothing of the day itself. A
concentrated stock hides a concentrated sector (`concentration-risk.rule.ts:76`). On a 29
February `setFullYear` takes the day three years ago to be 1 March
(`beneficiary-updates.rule.ts:64-70`), so the "3+ years" of an account opened on a 1 March
are counted a day early; the attempt to prove `FoundByTheCalendar` without that exception
brought it up. One alert may be on the topic twice, since the producer is not idempotent.

*Delivery.* A failed voice call and an emit to an empty room are both listed as delivered in
the receipt (`alert-dispatcher.service.ts:55`). The receipt producer, once its first connect
failed, never connects again, though it logs "until reconnect"
(`kafka-producer.service.ts:42, 64`).

*Sessions.* `GET /auth/session/:id` documents 404 for an expired session
(`sso.controller.ts:112`) but returns an expired or invalidated one with 200. A rehydrated
session gets a full Redis TTL whatever is left of it.

*CRM sync.* The checksum of a mirrored document never equals that of the CRM's record
(`crm-sync.service.ts:352-357`), so no record is ever skipped as :74-75 promises. An error
while listing the active RMs ends in a clean completion event. An RM without mirrored
clients is never synced. A write-back invalidates a key no screen reads. None of the three
operations has a production caller.

*Screens.* Alerts in status NEW are on no dashboard list and "pending" ones in no briefing;
no briefing item is ever labelled critical; briefing meetings have no status filter; the
rank by meetings is inverted against `daily-activity.dto.ts:37` ("1 = most meetings"), and
no property states it either way; meetings are listed oldest first, so stale ones crowd out
today's; tiers in mixed case fall to the default weight, and the tier questions do not count
them though the dashboard lists them; the seed data have a tier BLACK that no score and no
question knows; the rank in a dimension compares the RM's rounded score with the peers'
exact ones, so it can be one more than there are peers (`performance.dto.ts:56` calls it
1-based among them); `aum_start` is always 0, so `aum_growth` is the whole book and its
percentage 0. Percentiles are rounded to tenths, so in a team of more than 1001 the RM just
below the middle is told to be above it (the proof of `StandingAgrees` needs this bound, and
no smaller one would do).

*Caches.* Ranked actions "cached for 15 minutes" may be 30 minutes old; a section emptied by
an error is cached for the day; a percentile above 100 is possible when its two figures come
from two caches.

*Search.* Questions about idle cash always find none (`query-engine.service.ts:213` filters
on a field clients do not have); alert counts are those of the truncated list; AGGREGATE_AVG
is never parsed. The text indexes $text needs are created by
`deployment/mongo/init-text-indexes.js`, unless the one `client.model.ts:72` declares on the
name alone was there first, for a collection has one. "Pending" and "active" alerts are
asked for in a status nothing writes (`query-engine.service.ts:184`). A client with a part
of the name whose mail address has the words, too, can be answered in place of the bearer of
the very name. A name with special letters goes into a regular expression as it is
(`search.service.ts:193`), and beyond 200 clients the last query does not see them all
(:383). The hash never loses a name and each EXPIRE renews all of it; a cut between HSET and
EXPIRE leaves it without a TTL.

*Gateway.* One rate limiter is mounted globally and per route and keyed by IP before
authentication, though `rate-limiter.ts:13-14` says each relationship manager has an
independent quota.

*Chat.* A past conversation is never loaded, because ids made by the browser begin with
"sess-" (`useChat.ts:136`, `RMCompanionPanel.tsx:183-192`). A failed first question leaves
no active conversation, so a retry opens another. A session re-created by an assistant
message has no RM and is not listed. A live conversation is removed an hour after its first
message, since `expires_at` is set on insert only (`session_manager.py:106-110`) and
`init-memory-indexes.js:15` makes it a TTL index. The summary and the facts of a
conversation stay after its deletion (`post_conversation.py:104-135` against
`sessions.py:97-110`), and `context_builder.py:105-137` loads them again. The loaded context
never reaches a prompt (`supervisor.py:395-490`). Widgets are kept when the output guard
replaces the text.

## 4. Proofs

The theorems hold for any number of rules, clients, evaluations, requests, messages,
sessions, calls and documents, and any set of modelled failures; they assume only the named
ASSUMEs of the modules and what a theorem itself states. The ASSUMEs say that cooldowns,
lifetimes, TTLs and limits are naturals, that the two keys of the strengths have the one TTL
the code gives both, that failures come from the listed ones, that a payload names no
channel twice, that the CRM has an order it lists records in and listed at the start what
was mirrored then, that nobody asks for the empty name, that a client has one PAN, that
documents have the fields and types the code writes, that the months cover the clock and the
dates lie within a century of day 0, and that the values standing for "nobody" and "nothing"
are no RM, session or record.

### AlertProofs

AlertEngine:
- `TypeCorrect`: `TypeOK` and `LocalsOK` (the step at hand finds its rule, candidate or
  draft).
- `NoDuplicates`: `NoDuplicateUnlessLapsed`. It is not inductive: nothing in it ties the
  ledger to the Redis keys. `CooldownInv` adds that every alert is covered by a key that
  outlasts it or an evaluation about to set one (`LedgerCovered`), that an evaluation about
  to save finds all earlier alerts cooled down (`CreateIsDue`), and that no two evaluations
  are between check and set for one unlapsed key (`OneInWindow`).
- `NoDuplicatesAlone`: with one evaluation at a time and only MongoDB and Kafka errors
  nothing ever lapses, so `NoDuplicateAlert` holds outright.
- `SuppressionFounded`: `NoUnfoundedCooldown`, from the invariant that an evaluation at
  `setcd` has its alert in the ledger.
- `EngineKeepsPromise`: the engine refines `AlertPromise`; `CreateIsDue` is what makes
  `CreateAlert` a legal `RaiseAlert`.
- `AnnouncedOnce`: `PublishedOnce`. An alert is on the topic after it is stored, on its RM's
  partition only, and twice only after a lost acknowledgement. `DraftParts` says that an
  alert yet to be announced is in the ledger under the RM of the evaluation that holds it,
  that no other evaluation holds it, and that what is on the topic of it are the appends of
  this one send; `OwnTodo`, that a loop works on candidates of its own RM.

AlertInbox. `InboxInv` adds to the types that an alert_id has one record (`OneRecord`), that
what is gone has expired (`GoneExpired`), and that a request about to update passed the
ownership check for that very alert and one told "missing" is about an alert that is gone
(`RequestsOK`).
- `OwnerAlone` (`OnlyTheOwnerChangesIt`) and `MissingIsExpired` (`MissingOnlyIfExpired`)
  follow. The check stays valid across the await because the owner of a record never
  changes, and a deletion cannot be undone because the update does not upsert.

AlertPipeline:
- `EngineIsProducer`: the pipeline refines AlertDelivery (`ImplementsDelivery`):
  `DraftParts` of the engine says that every message is one of a fresh alert or the same
  message of an unacknowledged one again.

### AlertEndsProofs

AlertDelivery:
- `NoneSkipped` (`NothingSkipped`) from `PassedIsHandled`: what a running consumer has
  passed since the committed offset it has handled.
- `RepeatedCallsExplained` (`RepeatedCallsNeedRedelivery`) and `SocketsInOrder`
  (`SocketSeesOrderedAlerts`). Neither property mentions the consumer, so both need to know
  where it is. `JobInv`: an alert has one partition, and the message at hand lists each
  channel once, which is what `PayloadAssumption` asks of payloads. `CallInv`: a call of
  this epoch was made for a message the consumer has passed (`Passed`), and it does not come
  back in the epoch. `ShownInv`: the same of what a socket saw, in the order of offsets; a
  socket's room is that of one RM because `Absent` is none.

AlertRules. Lemmas about the calendar first: a day lies in exactly one year (`YearOfIs`) and
has exactly one date (`DateOfIs`, `DateIs`), the next occurrence of a date is the first of
its days ahead (`NextIs`), and three years ago on the calendar is three anniversaries
(`ThreeAnniversaries`), for every day and each of the four places of the leap year.
- `WindowsAreRight` (`FoundByTheCalendar`) follows from them alone.
- `WatchedInTime` (`AnnouncedInTime`) needs `RulesInv`. `EvaluatedDaily`: every whole day of
  the run has seen an evaluation, at midnight or at noon, and what was due then is announced
  (`AlertedAt`). That an evaluation which finds a key has nothing to announce is
  `CoolFounded`: a key is that of the latest alert and ends its rule's cooldown after it,
  within the window. Each of the two watches is then the evaluation of one day.

### SessionStoreProofs

One inductive invariant, `SessionInv`, gives four theorems.
- `SessionTypeCorrect`.
- `SessionOver` (`InvalidatedUnlessRaced`): every write of an active copy comes from a call
  that carried it at the mark, which put the session into `raced`, as does a mark that
  failed; `closed` is what the theorem is about.
- `SessionBacked` (`CacheIsBacked`) needs `Backed`, which relates what calls carry to the
  document they read, and `Alone`: until its document is written a session belongs to its
  `createSession`, so no write changes an expires_at.
- `SessionFound` (`NotFoundOnlyIfExpired`) needs `DeletedLate` besides.

### CrmSyncProofs

Two lemmas carry all of it: what a step may put on its way to MongoDB (`CarriedStep`) and
where what it stores there comes from (`StoresStep`).
- `CrmIsAhead` (`NeverAhead`) and `ConfirmedStays` (`ConfirmedStaysUnlessRaced`) hold of
  `MirrorInv`: neither MongoDB nor anything on its way there is ahead of the CRM, and
  nothing older than what was written back is on its way unless the record raced. It speaks
  of `Done`, which has a write-back from the moment MongoDB has it, before it is confirmed.
- `CleanSyncs` (`CleanSyncIsFresh`): a full sync that counts no error leaves every record
  listed under the RMs it covers as the CRM has it, unless it was touched or missed.
  `RunningInv`: until it ends, what is on its way of an untouched record is the CRM's
  version. `CoveredInv`: each record of a covered RM neither touched nor missed is fresh, or
  the RM is still on the agenda, or the record is `Coming`: on the page at hand, or `Ahead`
  at a rank beyond it. `Ranked` and `ListedRecords` say that ranks number the places of a
  listing, so that the next page takes up exactly the ranks that follow (`FetchBrings`), and
  the last page leaves none.

### ConversationProofs

The four properties hold of one invariant, `ConversationInv`. Its parts build on one
another: `Numbered` (questions and sessions are numbered as they come, so the next one is
new to the panel, the list, MongoDB and a deletion) is needed by all others.
- `PanelShowsOneConversation` (`PanelIsOneConversation`) from `Together`: the one question
  waited for belongs to the conversation on the panel.
- `CopiesCurrent` (`CopyIsCurrent`) from `CarriedIsCurrent`: what a question read from
  MongoDB and has still to put into Redis is current, or its session is `overtaken`, by an
  append, a deletion or the TTL index.
- `DeletionsStay` (`DeletedStaysDeleted`) from `Removed`, which follows a deletion through
  its two steps and says who could still write to the session or remember it. What was
  remembered before stays: the theorem says that nothing is added.
- `TranscriptsInOrder` (`TranscriptInOrder`) from `Exchanges`: what each stage of a question
  has stored, that a stored message belongs to a question that did not fail, and that of two
  questions of an uncrowded conversation the first is over.

### ClientLookupProofs

Lemmas about the three queries first. A client who bears the very name asked for is among
the hits of $text, if it has a word that is no stop word (`TextHitsTheName`), of $regex, if
it has no special letter (`RegexHitsTheName`), and of the similarity, if compared
(`FuzzyHitsTheName`). `TheNameWins` is the arithmetic of the text index: whoever scores at
least as much as the bearer of the name has the same words in the name, or part of them
there and some in the mail address or the PAN (`Confusable`), for `NameByWords` bounds what
a part of the name scores and `NameByOthers` what the other two fields do. `LookupInv` has
two parts besides the types: `Founded`, the hash of an RM has only names its client bore
with this RM, and `RequestOK`, what each stage of a request counts on.
- `LookupIsRight` (`RightClient`): what the hash or a query found is still what the client
  bore or matched when it is answered or written into the hash.
- `LookupFinds` (`FoundIfThere`): a query is passed without a hit only if nobody had the
  name throughout the request, or the query failed or was blind to it.

### ReadCacheProofs

`CacheInv` has, besides the types of stores and requests, one part for each theorem.
- `AgesAddUp` (`AnswersAgeBounded`) from `AgesOK`: the age of a value is accounted for by
  the keys it was in, each for its TTL, and by the requests that moved it.
- `PercentileFades` (`ImpossiblePercentileFades`) from `FreshOK`: what is younger than the
  last change is the figure itself, so two figures that contradict each other are not both
  from after it. That they fade together is where the common TTL of the two keys is needed.
- `BriefingStays` (`BriefingFixedUnlessExcused`) from `FixedOK`: until something excuses a
  change, all that was shown or is about to be is what the outer key holds, and the key
  still holds it for the whole of its TTL.

### RmScreensProofs

A screen is computed from the collections at one moment, so the inductive invariant is
`ScreensTypeOK` alone (`TypeInvariant`), and each property is a fact about any state of
these types. What these facts rest on are lemmas about the operators: sums over finite sets,
by induction over subsets written as the least counterexample, since an induction rule
cannot be instantiated here; the first n of a sort (`FirstIs`), which says that what is left
out comes after each of those shown; roundings; and days in months.
- `ScreensShowAlerts` (`AlertsOnScreens`), `CriticalComesFirst` (`BriefingKeepsCritical`):
  what a limited list leaves out, and to whom it gives way.
- `WaitingMovesUp` (`AgeingNeverDemotes`): the scores only grow with the age.
- `StandingIsOne` (`StandingAgrees`), for teams of up to 1001 and each of the four mixes of
  metrics, weight and cut. The bound is exact: with 1002 the rounding to tenths of a percent
  separates the percentile from the median.
- `CardMatchesChart` (`StreakMatchesTrend`), `MonthsMakeTheYear` (`PeriodsAddUp`),
  `QuestionsAgree` (`AnswersAddUp`): two ways to count the same things give the same.

### Not proved

Liveness (`EveryMessageHandled`, `RaisedGetsReceipt`, `EvaluationEnds`, `CandidateCovered`,
`PersistedIsPublished`, `FullSyncEnds`) is out of TLAPS's reach and stays with TLC. Every
invariant and every action property a passing run checks is proved.

## 5. Not modelled, and the plan

Not modelled:
- rbac (a static table), the repositories, guards and `rm` module (thin wrappers without
  state), health checks, logging, configuration, deployment;
- the gateway's rate limiter: a third-party counter, of which the code only chooses the
  numbers;
- `GET /search` and the client, portfolio, lead and holdings views, which return documents
  as they are;
- the nightly batch, the action guard, the streaming chat route and `save_session`: nothing
  calls them;
- prompts, the wording of answers and language model output: a model's answer is any answer;
- React components that only present.

Assumed: the services run in UTC; MongoDB operations on one document are atomic; Redis
commands are atomic.

Planned, in this order:
1. Two clients of the gateway's limiter in one office.
2. The remaining views: client, portfolio, leads and holdings.
3. AlertRules with the failures of AlertEngine: what an evaluation that fails on one day
   still announces in time on the next.
