---------------------------- MODULE SessionStore ----------------------------
(***************************************************************************)
(* Sessions in auth-service: SessionService.createSession, getSession and  *)
(* invalidateSession over MongoDB (rm_sessions, with a TTL index) and the  *)
(* Redis keys session:{id}.  A call p \in Calls runs one of the three;     *)
(* calls interleave at every await.                                        *)
(***************************************************************************)
EXTENDS Integers

CONSTANTS
    Sessions,   \* UUIDs a session may get
    Calls,      \* calls that can be in flight together
    Faults,     \* which failures the run allows
    TTL,        \* SESSION_TTL, of a session and of its Redis key
    MaxCalls,   \* bound on the calls started
    MaxTime,    \* bound on the clock
    Absent      \* no session

ASSUME TTLAssumption == TTL \in Nat /\ MaxCalls \in Nat /\ MaxTime \in Nat
ASSUME SessionFaultAssumption == Faults \subseteq {"redis", "mongo", "crash"}

VARIABLES
    now,      \* the clock
    record,   \* MongoDB: status and expires_at of each session
    cache,    \* Redis: the session data under its key, and when the key expires
    known,    \* session ids that have been returned to a caller
    started,  \* calls started so far
    pc,       \* the await each call is at
    target,   \* the session the call is about
    copy,     \* the session data the call is about to write
    answer,   \* what the call returned
    closed,   \* history: sessions an invalidation has been answered for
    raced     \* history: sessions whose last invalidation failed or was overtaken

svars == <<now, record, cache, known, started, pc, target, copy, answer, closed, raced>>

Status  == {"none", "active", "expired", "deleted"}
Record  == [status: Status, expires: Nat]
Entry   == [status: Status, expires: Nat, until: Nat]
NoDoc   == [status |-> "none", expires |-> 0]
NoEntry == [status |-> "none", expires |-> 0, until |-> 0]
SPCs    == {"idle", "persist", "setex", "lookUp", "find", "hydrate", "evict", "mark"}
Replies == Status \cup {"error", "created", "null", "nullOnError", "done"}

Stored(s)       == record[s].status \in {"active", "expired"}
Cached(s)       == cache[s].status # "none" /\ cache[s].until > now
CachedActive(s) == Cached(s) /\ cache[s].status = "active"
Carrying(s)     == \E p \in Calls : /\ pc[p] \in {"setex", "hydrate"} /\ target[p] = s
                                    /\ copy[p].status = "active"
Fresh(s)        == record[s] = NoDoc /\ \A p \in Calls : target[p] # s

SessionInit ==
    /\ now = 0
    /\ record = [s \in Sessions |-> NoDoc]
    /\ cache = [s \in Sessions |-> NoEntry]
    /\ known = {}
    /\ started = 0
    /\ pc = [p \in Calls |-> "idle"]
    /\ target = [p \in Calls |-> Absent]
    /\ copy = [p \in Calls |-> NoDoc]
    /\ answer = [p \in Calls |-> "none"]
    /\ closed = {}
    /\ raced = {}
-----------------------------------------------------------------------------
StartCall(p, s, first, data) ==
    /\ pc[p] = "idle"
    /\ started < MaxCalls
    /\ started' = started + 1
    /\ target' = [target EXCEPT ![p] = s]
    /\ pc' = [pc EXCEPT ![p] = first]
    /\ copy' = [copy EXCEPT ![p] = data]
    /\ answer' = [answer EXCEPT ![p] = "none"]
    /\ UNCHANGED <<now, record, cache, known, closed, raced>>

\* POST /auth/session/create with a valid token: a fresh UUID.
CreateSession(p) == \E s \in Sessions :
    Fresh(s) /\ StartCall(p, s, "persist", [status |-> "active", expires |-> now + TTL])

\* GET /auth/session/:sessionId.
GetSession(p) == \E s \in known : StartCall(p, s, "lookUp", NoDoc)

InvalidateSession(p) == \E s \in known : StartCall(p, s, "evict", NoDoc)

Return(p, a) ==
    /\ pc' = [pc EXCEPT ![p] = "idle"]
    /\ answer' = [answer EXCEPT ![p] = a]

GoOn(p, next) ==
    /\ pc' = [pc EXCEPT ![p] = next]
    /\ UNCHANGED answer
-----------------------------------------------------------------------------
(* createSession *)

Persist(p) ==
    /\ pc[p] = "persist"
    /\ record' = [record EXCEPT ![target[p]] = copy[p]]
    /\ GoOn(p, "setex")
    /\ UNCHANGED <<now, cache, known, started, target, copy, closed, raced>>

\* Mutant: the error of create is swallowed like that of setex.
PersistFails_goesOn(p) ==
    /\ pc[p] = "persist"
    /\ "mongo" \in Faults
    /\ record' = [record EXCEPT ![target[p]] = copy[p]] \/ UNCHANGED record
    /\ GoOn(p, "setex")
    /\ UNCHANGED <<now, cache, known, started, target, copy, closed, raced>>

\* create throws, whether or not the document has been written: 500.
PersistFails(p) ==
    /\ pc[p] = "persist"
    /\ "mongo" \in Faults
    /\ record' = [record EXCEPT ![target[p]] = copy[p]] \/ UNCHANGED record
    /\ Return(p, "error")
    /\ UNCHANGED <<now, cache, known, started, target, copy, closed, raced>>

\* SETEX of the call's data with the full TTL; an error is swallowed.
Write(p) ==
    \/ cache' = [cache EXCEPT ![target[p]] =
                    [status |-> copy[p].status, expires |-> copy[p].expires, until |-> now + TTL]]
    \/ "redis" \in Faults /\ UNCHANGED cache

CacheSession(p) ==
    /\ pc[p] = "setex"
    /\ Write(p)
    /\ known' = known \cup {target[p]}
    /\ Return(p, "created")
    /\ UNCHANGED <<now, record, started, target, copy, closed, raced>>
-----------------------------------------------------------------------------
(* getSession *)

\* A hit is returned as it is, whatever its status and expires_at.
LookUpHit(p) ==
    /\ pc[p] = "lookUp"
    /\ Cached(target[p])
    /\ Return(p, cache[target[p]].status)
    /\ UNCHANGED <<now, record, cache, known, started, target, copy, closed, raced>>

LookUpMiss(p) ==
    /\ pc[p] = "lookUp"
    /\ ~Cached(target[p]) \/ "redis" \in Faults
    /\ GoOn(p, "find")
    /\ UNCHANGED <<now, record, cache, known, started, target, copy, closed, raced>>

\* findOne by session_id alone: no condition on the status or on expires_at.
Find(p) ==
    /\ pc[p] = "find"
    /\ \/ /\ Stored(target[p])
          /\ copy' = [copy EXCEPT ![p] = record[target[p]]]
          /\ GoOn(p, "hydrate")
       \/ /\ ~Stored(target[p])
          /\ Return(p, "null")
          /\ UNCHANGED copy
    /\ UNCHANGED <<now, record, cache, known, started, target, closed, raced>>

\* The error is logged and null returned: the caller sees the same 404.
FindFails(p) ==
    /\ pc[p] = "find"
    /\ "mongo" \in Faults
    /\ Return(p, "nullOnError")
    /\ UNCHANGED <<now, record, cache, known, started, target, copy, closed, raced>>

\* Mutant: the status written back is the literal 'active'.
Hydrate_asActive(p) ==
    /\ pc[p] = "hydrate"
    /\ cache' = [cache EXCEPT ![target[p]] =
                    [status |-> "active", expires |-> copy[p].expires, until |-> now + TTL]]
    /\ Return(p, "active")
    /\ UNCHANGED <<now, record, known, started, target, copy, closed, raced>>

Hydrate(p) ==
    /\ pc[p] = "hydrate"
    /\ Write(p)
    /\ Return(p, copy[p].status)
    /\ UNCHANGED <<now, record, known, started, target, copy, closed, raced>>
-----------------------------------------------------------------------------
(* invalidateSession *)

\* DEL.  History: a session that is not active in MongoDB and not being read is
\* over for good once its key is gone.
Evict(p) ==
    /\ pc[p] = "evict"
    /\ \/ /\ cache' = [cache EXCEPT ![target[p]] = NoEntry]
          /\ raced' = IF record[target[p]].status # "active" /\ ~Carrying(target[p])
                      THEN raced \ {target[p]} ELSE raced
       \/ "redis" \in Faults /\ UNCHANGED <<cache, raced>>
    /\ GoOn(p, "mark")
    /\ UNCHANGED <<now, record, known, started, target, copy, closed>>

\* updateOne by session_id; nothing happens when the document is gone, and an
\* error is swallowed, whether or not the update has been applied.  History: the
\* mark is missing, or too late for what is cached or being carried there.
Mark(p) ==
    /\ pc[p] = "mark"
    /\ \/ Stored(target[p]) /\ record' = [record EXCEPT ![target[p]].status = "expired"]
       \/ (~Stored(target[p]) \/ "mongo" \in Faults) /\ UNCHANGED record
    /\ closed' = closed \cup {target[p]}
    /\ raced' = IF \/ record'[target[p]].status = "active"
                   \/ CachedActive(target[p]) \/ Carrying(target[p])
                THEN raced \cup {target[p]} ELSE raced
    /\ Return(p, "done")
    /\ UNCHANGED <<now, cache, known, started, target, copy>>
-----------------------------------------------------------------------------
(* Environment *)

STick ==
    /\ now < MaxTime
    /\ now' = now + 1
    /\ UNCHANGED <<record, cache, known, started, pc, target, copy, answer, closed, raced>>

\* Mutant: the TTL index is on created_at_ts.
Purge_onCreatedAt(s) ==
    /\ Stored(s)
    /\ now >= record[s].expires - TTL
    /\ record' = [record EXCEPT ![s].status = "deleted"]
    /\ UNCHANGED <<now, cache, known, started, pc, target, copy, answer, closed, raced>>

\* MongoDB's TTL monitor deletes some time after expires_at.
Purge(s) ==
    /\ Stored(s)
    /\ now >= record[s].expires
    /\ record' = [record EXCEPT ![s].status = "deleted"]
    /\ UNCHANGED <<now, cache, known, started, pc, target, copy, answer, closed, raced>>

\* Redis restarts without its keys, or evicts one.
Forget(s) ==
    /\ "redis" \in Faults
    /\ Cached(s)
    /\ cache' = [cache EXCEPT ![s] = NoEntry]
    /\ UNCHANGED <<now, record, known, started, pc, target, copy, answer, closed, raced>>

SCrash ==
    /\ "crash" \in Faults
    /\ pc' = [p \in Calls |-> "idle"]
    /\ answer' = [p \in Calls |-> "none"]
    /\ UNCHANGED <<now, record, cache, known, started, target, copy, closed, raced>>

CallStep(p) ==
    \/ Persist(p)
    \/ PersistFails(p)
    \/ CacheSession(p)
    \/ LookUpHit(p)
    \/ LookUpMiss(p)
    \/ Find(p)
    \/ FindFails(p)
    \/ Hydrate(p)
    \/ Evict(p)
    \/ Mark(p)

SessionNext ==
    \/ \E p \in Calls : CreateSession(p) \/ GetSession(p) \/ InvalidateSession(p) \/ CallStep(p)
    \/ \E s \in Sessions : Purge(s) \/ Forget(s)
    \/ STick
    \/ SCrash

SessionSpec == SessionInit /\ [][SessionNext]_svars
-----------------------------------------------------------------------------
\* Every variable has its type.
SessionTypeOK ==
    /\ now \in Nat
    /\ record \in [Sessions -> Record]
    /\ cache \in [Sessions -> Entry]
    /\ known \subseteq Sessions
    /\ started \in Nat
    /\ pc \in [Calls -> SPCs]
    /\ target \in [Calls -> Sessions \cup {Absent}]
    /\ copy \in [Calls -> Record]
    /\ answer \in [Calls -> Replies]
    /\ closed \subseteq Sessions
    /\ raced \subseteq Sessions

\* MongoDB is written first and is the source of truth: what Redis holds, and
\* every session id a caller has been given, is a session MongoDB has stored,
\* with the same expires_at, though its document may be gone by now.
CacheIsBacked ==
    /\ \A s \in Sessions : cache[s].status # "none" =>
          record[s].status # "none" /\ cache[s].expires = record[s].expires
    /\ \A s \in known : record[s].status # "none"

\* A caller that holds a session id is told "not found" only when the session has
\* outlived its expires_at, or when MongoDB failed; a Redis error never does it.
NotFoundOnlyIfExpired ==
    \A p \in Calls : answer[p] = "null" => now >= record[target[p]].expires

\* Once invalidateSession has answered, the session is active neither in MongoDB
\* nor in Redis, and no call is about to write it back, with three excuses, kept in
\* raced: updateOne failed and left the document active (swallowed), the eviction
\* failed (swallowed too), or a reader had loaded the session before the mark and
\* writes it back after the eviction.  Invalidating again, once nobody is reading
\* and MongoDB has the mark, ends it.
InvalidatedUnlessRaced ==
    \A s \in closed \ raced :
        record[s].status # "active" /\ ~CachedActive(s) /\ ~Carrying(s)
=============================================================================
