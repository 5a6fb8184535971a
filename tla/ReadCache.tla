----------------------------- MODULE ReadCache -----------------------------
(***************************************************************************)
(* The caches of core-api in front of its screens (see RmScreens).  A      *)
(* screen reads through one or two Redis keys, each with its own TTL and   *)
(* nothing but the TTL to end it, and the strengths screen through two     *)
(* keys at a time.  Several requests for one screen run at once; Redis and *)
(* MongoDB calls may fail, Redis may forget a key, core-api may crash.     *)
(*                                                                         *)
(* The screens share no key, so a behaviour is about one of them, for one  *)
(* RM and one day.  The queries of one fetch are one read of the database. *)
(***************************************************************************)
EXTENDS Integers, FiniteSets, Sequences

CONSTANTS
    Readers,   \* the requests
    AtOnce,    \* bound: how many of them run at the same time, by screen
    Ttl,       \* [Keys -> units of time]
    Span,      \* bound: how long a request may take
    Horizon,   \* bound: the time since the last change is counted up to here
    Faults,    \* what may go wrong: a subset of {"redis", "mongo", "forget", "crash"}
    Figures,   \* the values of the RM's figure among the peers
    Others,    \* the other RMs of the branch: a function to their figures
    None       \* no value

Keys == {"daily:activity", "actions", "actions:ranked", "briefing", "briefing:ranked",
         "engagement", "perf:metrics", "perf:peer"}

\* A figure and the time since it was read; sections that could not be read have none.
Values == [age : Nat, figure : Figures \cup {None}]
Slots  == [value : Values, left : Nat \ {0}]

ASSUME CacheAssumption ==
    /\ Ttl \in [Keys -> Nat \ {0}]
    /\ Ttl["perf:metrics"] = Ttl["perf:peer"]
    /\ None \notin Values \cup Slots
    /\ \A s \in DOMAIN AtOnce : AtOnce[s] \in Nat \ {0}
    /\ Span \in Nat \ {0} /\ Horizon \in Nat
    /\ Figures \subseteq Int /\ DOMAIN Others # {} /\ IsFiniteSet(DOMAIN Others)

VARIABLES
    screen,   \* the screen this behaviour is about
    store,    \* store[k]: the value Redis holds under k, and the time left to it, or None
    legs,     \* legs[p]: where request p is on each path of the screen; empty when idle
    running,  \* running[p]: for how long
    figure,   \* what the screen shows: the RM's figure in the database
    settled,  \* history: for how long it has not changed, as far as strengths are shown
    shown,    \* history: the ranked briefings handed out, until excused
    excused   \* history: something happened that lets the briefing change

history == <<settled, shown, excused>>
cvars   == <<screen, store, legs, running, figure, history>>

\* The paths of a screen, outermost key first.
Paths == [activity   |-> {<<"daily:activity">>},
          actions    |-> {<<"actions:ranked", "actions">>},
          briefing   |-> {<<"briefing:ranked", "briefing">>},
          engagement |-> {<<"engagement">>},
          strengths  |-> {<<"perf:metrics">>, <<"perf:peer">>}]

\* The keys read with readThrough; the others with get and set.
ReadThrough == {"daily:activity", "actions", "engagement"}
\* The fetches that answer a database error with empty sections.
Swallows    == {"briefing", "engagement"}
-----------------------------------------------------------------------------
CacheInit ==
    /\ screen \in DOMAIN Paths
    /\ store = [k \in Keys |-> None]
    /\ legs = [p \in Readers |-> <<>>]
    /\ running = [p \in Readers |-> 0]
    /\ figure \in Figures
    /\ settled = Horizon /\ shown = {} /\ excused = FALSE

Idle(p) == legs[p] = <<>>
Key(p, w) == w[legs[p][w].depth]
At(p, w, pc) == ~Idle(p) /\ w \in DOMAIN legs[p] /\ legs[p][w].pc = pc
Move(p, w, leg) == legs' = [legs EXCEPT ![p][w] = leg]

\* Only the outer key decides whether the briefing may change.
Excuse(k) ==
    IF k = "briefing:ranked" THEN excused' = TRUE /\ shown' = {} ELSE UNCHANGED <<excused, shown>>

\* A value goes up the path: into the next key outwards, or to the caller.
Upwards(depth, v) ==
    [pc |-> IF depth = 0 THEN "done" ELSE "set", depth |-> depth, value |-> v, bypass |-> FALSE]

Begin(p) ==
    /\ Idle(p)
    /\ Cardinality({q \in Readers : ~Idle(q)}) < AtOnce[screen]
    /\ legs' = [legs EXCEPT ![p] =
          [w \in Paths[screen] |-> [pc |-> "get", depth |-> 1, value |-> None, bypass |-> FALSE]]]
    /\ UNCHANGED <<screen, store, running, figure, history>>

\* A miss goes inwards to the next key, and from the last one to MongoDB.
Missed(w, leg) ==
    IF leg.depth < Len(w) THEN [leg EXCEPT !.depth = @ + 1] ELSE [leg EXCEPT !.pc = "fetch"]

\* Mutant: a hit renews the TTL.
Get_renews(p, w) ==
    /\ At(p, w, "get")
    /\ IF store[Key(p, w)] # None
       THEN /\ Move(p, w, Upwards(legs[p][w].depth - 1, store[Key(p, w)].value))
            /\ store' = [store EXCEPT ![Key(p, w)].left = Ttl[Key(p, w)]]
       ELSE Move(p, w, Missed(w, legs[p][w])) /\ UNCHANGED store
    /\ UNCHANGED <<screen, running, figure, history>>

\* redis.get
Get(p, w) ==
    /\ At(p, w, "get")
    /\ Move(p, w, IF store[Key(p, w)] # None
                  THEN Upwards(legs[p][w].depth - 1, store[Key(p, w)].value)
                  ELSE Missed(w, legs[p][w]))
    /\ UNCHANGED <<screen, store, running, figure, history>>

\* get takes an error for a miss; readThrough fetches and does not store the result.
GetFails(p, w) ==
    /\ "redis" \in Faults /\ At(p, w, "get")
    /\ Move(p, w, IF Key(p, w) \in ReadThrough THEN [legs[p][w] EXCEPT !.pc = "fetch", !.bypass = TRUE]
                                               ELSE Missed(w, legs[p][w]))
    /\ Excuse(Key(p, w))
    /\ UNCHANGED <<screen, store, running, figure, settled>>

Fetched(w, leg, content) ==
    Upwards(IF leg.bypass THEN Len(w) - 1 ELSE Len(w), [age |-> 0, figure |-> content])

\* The MongoDB queries behind the innermost key.
Fetch(p, w) ==
    /\ At(p, w, "fetch")
    /\ Move(p, w, Fetched(w, legs[p][w], figure))
    /\ UNCHANGED <<screen, store, running, figure, history>>

\* A section that cannot be read is empty; readThrough tries the fetch once more,
\* without storing; otherwise the request ends in an error.
FetchFails(p, w) ==
    /\ "mongo" \in Faults /\ At(p, w, "fetch")
    /\ Move(p, w, IF w[Len(w)] \in Swallows THEN Fetched(w, legs[p][w], None)
                  ELSE IF w[Len(w)] \in ReadThrough /\ ~legs[p][w].bypass THEN [legs[p][w] EXCEPT !.bypass = TRUE]
                  ELSE [legs[p][w] EXCEPT !.pc = "failed"])
    /\ UNCHANGED <<screen, store, running, figure, history>>

\* Mutant: every key gets the TTL of the innermost one.
Set_innerTtl(p, w) ==
    /\ At(p, w, "set")
    /\ store' = [store EXCEPT ![Key(p, w)] = [value |-> legs[p][w].value, left |-> Ttl[w[Len(w)]]]]
    /\ IF store[Key(p, w)] # None THEN Excuse(Key(p, w)) ELSE UNCHANGED <<excused, shown>>
    /\ Move(p, w, Upwards(legs[p][w].depth - 1, legs[p][w].value))
    /\ UNCHANGED <<screen, running, figure, settled>>

\* redis.setex, whoever has stored something meanwhile.
Set(p, w) ==
    /\ At(p, w, "set")
    /\ store' = [store EXCEPT ![Key(p, w)] = [value |-> legs[p][w].value, left |-> Ttl[Key(p, w)]]]
    /\ IF store[Key(p, w)] # None THEN Excuse(Key(p, w)) ELSE UNCHANGED <<excused, shown>>
    /\ Move(p, w, Upwards(legs[p][w].depth - 1, legs[p][w].value))
    /\ UNCHANGED <<screen, running, figure, settled>>

\* set swallows the error.
SetFails(p, w) ==
    /\ "redis" \in Faults /\ At(p, w, "set")
    /\ Excuse(Key(p, w))
    /\ Move(p, w, Upwards(legs[p][w].depth - 1, legs[p][w].value))
    /\ UNCHANGED <<screen, store, running, figure, settled>>

\* Mutant: the RM counts as a peer below itself.
Percentile_self(own, among) ==
    LET below == Cardinality({r \in DOMAIN Others : Others[r] < own}) + (IF among <= own THEN 1 ELSE 0)
    IN (100 * below) \div Cardinality(DOMAIN Others)

\* identifyStrengths: the RM's figure from one key among the branch's figures,
\* the RM's own included, from the other.
Percentile(own, among) ==
    LET below == Cardinality({r \in DOMAIN Others : Others[r] < own}) + (IF among < own THEN 1 ELSE 0)
    IN (100 * below) \div Cardinality(DOMAIN Others)

\* The request is answered when every leg is; one that failed makes it an error.
Ended(p)    == ~Idle(p) /\ \A w \in DOMAIN legs[p] : legs[p][w].pc \in {"done", "failed"}
Answered(p) == Ended(p) /\ \A w \in DOMAIN legs[p] : legs[p][w].pc = "done"
Answer(p)   == [w \in DOMAIN legs[p] |-> legs[p][w].value]

Respond(p) ==
    /\ Ended(p)
    /\ shown' = IF screen = "briefing" /\ Answered(p) /\ ~excused
                THEN shown \cup {Answer(p)[w].figure : w \in DOMAIN legs[p]} ELSE shown
    /\ legs' = [legs EXCEPT ![p] = <<>>]
    /\ running' = [running EXCEPT ![p] = 0]
    /\ UNCHANGED <<screen, store, figure, settled, excused>>
-----------------------------------------------------------------------------
\* A sync brings another figure of the RM, of those that the screen shows.
Change ==
    /\ screen \in {"briefing", "strengths"}
    /\ \E f \in Figures \ {figure} : figure' = f
    /\ settled' = IF screen = "strengths" THEN 0 ELSE settled
    /\ UNCHANGED <<screen, store, legs, running, shown, excused>>

Older(v) == IF v = None THEN None ELSE [v EXCEPT !.age = @ + 1]

\* Time passes, as long as no request has been running for Span; keys expire.
PassTime ==
    /\ \A p \in Readers : running[p] < Span
    /\ store' = [k \in Keys |->
          IF store[k] = None \/ store[k].left = 1 THEN None
          ELSE [value |-> Older(store[k].value), left |-> store[k].left - 1]]
    /\ legs' = [p \in Readers |-> [w \in DOMAIN legs[p] |-> [legs[p][w] EXCEPT !.value = Older(@)]]]
    /\ running' = [p \in Readers |-> IF Idle(p) THEN 0 ELSE running[p] + 1]
    /\ settled' = IF settled < Horizon THEN settled + 1 ELSE settled
    /\ LET c == store["briefing:ranked"]
       IN IF c # None /\ c.left = 1 /\ c.value.age + 1 >= Ttl["briefing:ranked"]
          THEN Excuse("briefing:ranked") ELSE UNCHANGED <<excused, shown>>
    /\ UNCHANGED <<screen, figure>>

Forget(k) ==
    /\ "forget" \in Faults /\ store[k] # None
    /\ store' = [store EXCEPT ![k] = None]
    /\ Excuse(k)
    /\ UNCHANGED <<screen, legs, running, figure, settled>>

\* core-api dies and is restarted: the requests are lost.
CacheCrash ==
    /\ "crash" \in Faults /\ \E p \in Readers : ~Idle(p)
    /\ legs' = [p \in Readers |-> <<>>]
    /\ running' = [p \in Readers |-> 0]
    /\ UNCHANGED <<screen, store, figure, history>>

LegStep(p, w) == Get(p, w) \/ GetFails(p, w) \/ Fetch(p, w) \/ FetchFails(p, w) \/ Set(p, w) \/ SetFails(p, w)
Serve(p) == (\E w \in Paths[screen] : LegStep(p, w)) \/ Respond(p)

CacheNext ==
    \/ \E p \in Readers : Begin(p) \/ Serve(p)
    \/ Change
    \/ PassTime
    \/ \E k \in Keys : Forget(k)
    \/ CacheCrash

CacheSpec == CacheInit /\ [][CacheNext]_cvars
-----------------------------------------------------------------------------
\* The age of what a screen shows adds up along its path: every key keeps a value for
\* its TTL, counted from when the slowest request stored it, and the outer key may be
\* filled from the inner one just before that expires.
Stays(w, i) == IF i \in DOMAIN w THEN Ttl[w[i]] + Span - 1 ELSE 0
AnswersAgeBounded == [][\A p \in Readers : Answered(p) /\ Respond(p) =>
    \A w \in Paths[screen] : Answer(p)[w].age <= Span + Stays(w, 1) + Stays(w, 2)]_cvars

\* "Same briefing_id and ranked result is returned for the same rmId+date": the day's
\* briefing changes only after a Redis error, an evicted or expired key, or two first
\* requests at the same time.
BriefingFixedUnlessExcused == Cardinality(shown) <= 1

\* A percentile above 100 comes from two keys filled at different times, and is gone
\* when both have been filled after the last change of the figure.
ImpossiblePercentileFades == [][\A p \in Readers : Answered(p) /\ Respond(p) /\ screen = "strengths" =>
    LET own   == Answer(p)[<<"perf:metrics">>].figure
        among == Answer(p)[<<"perf:peer">>].figure
    IN Percentile(own, among) > 100 => settled < Ttl["perf:peer"] + 2 * Span]_cvars
=============================================================================
