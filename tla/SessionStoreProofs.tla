------------------------- MODULE SessionStoreProofs -------------------------
(* Proofs about SessionStore, for every value of its constants. *)
EXTENDS SessionStore, TLAPS

\* A call that is somewhere is about a session; one that creates carries an
\* active one.
Targeted == \A p \in Calls :
    /\ pc[p] # "idle" => target[p] \in Sessions
    /\ pc[p] \in {"persist", "setex"} => copy[p].status = "active"

\* What the calls of getSession and invalidateSession are about has been stored,
\* and what a call carries has the expires_at of the document.
Backed ==
    /\ CacheIsBacked
    /\ \A p \in Calls :
        /\ pc[p] \in {"setex", "lookUp", "find", "hydrate", "evict", "mark"} =>
              record[target[p]].status # "none"
        /\ pc[p] \in {"setex", "hydrate"} => copy[p].expires = record[target[p]].expires

\* Until its document is written, a session belongs to its createSession alone.
Alone ==
    \A p, q \in Calls : pc[p] = "persist" =>
        /\ record[target[p]] = NoDoc
        /\ target[q] = target[p] => q = p

\* What has been invalidated had been stored.
ClosedStored == \A s \in closed : record[s].status # "none"

\* A document is deleted only past its expires_at.
DeletedLate == \A s \in Sessions : record[s].status = "deleted" => now >= record[s].expires

\* An answer is about a session.
Answered == \A p \in Calls : answer[p] = "null" =>
    target[p] \in Sessions /\ record[target[p]].status # "none"

SessionInv ==
    SessionTypeOK /\ Targeted /\ Backed /\ Alone /\ ClosedStored /\ DeletedLate /\ Answered
    /\ NotFoundOnlyIfExpired /\ InvalidatedUnlessRaced

\* SessionInv holds initially: there is no session and no call.
LEMMA SessionInitInv == SessionInit => SessionInv
BY TTLAssumption DEF SessionInit, SessionInv, SessionTypeOK, Targeted, Backed, CacheIsBacked, Alone,
   ClosedStored, DeletedLate, Answered, NotFoundOnlyIfExpired, InvalidatedUnlessRaced, NoDoc, NoEntry,
   Record, Entry, Status, SPCs, Replies, CachedActive, Cached, Carrying

\* Typing, and every call has its session.
LEMMA SessionTypeStep ==
    SessionTypeOK /\ Targeted /\ [SessionNext]_svars => SessionTypeOK' /\ Targeted'
<1> SUFFICES ASSUME SessionTypeOK, Targeted, [SessionNext]_svars
             PROVE  SessionTypeOK' /\ Targeted'
  OBVIOUS
<1> USE TTLAssumption DEF SessionTypeOK, Targeted, SPCs, Replies
<1>1. ASSUME NEW p \in Calls, NEW s \in Sessions, NEW first \in SPCs, NEW data \in Record,
             first \in {"persist", "setex"} => data.status = "active",
             StartCall(p, s, first, data)
      PROVE  SessionTypeOK' /\ Targeted'
  <2>1. SessionTypeOK'
    <3>1. target' \in [Calls -> Sessions \cup {Absent}] /\ pc' \in [Calls -> SPCs]
          /\ copy' \in [Calls -> Record] /\ started' \in Nat
      BY <1>1 DEF StartCall
    <3>2. answer' \in [Calls -> Replies]
      BY <1>1 DEF StartCall, Status
    <3> QED
      BY <1>1, <3>1, <3>2 DEF StartCall
  <2>2. ASSUME NEW q \in Calls
        PROVE  /\ pc'[q] # "idle" => target'[q] \in Sessions
               /\ pc'[q] \in {"persist", "setex"} => copy'[q].status = "active"
    <3>1. CASE q = p
      BY <1>1, <3>1 DEF StartCall
    <3>2. CASE q # p
      BY <1>1, <3>2 DEF StartCall
    <3> QED
      BY <3>1, <3>2
  <2> QED
    BY <2>1, <2>2
<1>2. NoDoc \in Record /\ NoEntry \in Entry
      /\ [status |-> "active", expires |-> now + TTL] \in Record
  BY DEF NoDoc, NoEntry, Record, Entry, Status
<1>3. ASSUME NEW p \in Calls, CreateSession(p) \/ GetSession(p) \/ InvalidateSession(p)
      PROVE  SessionTypeOK' /\ Targeted'
  BY <1>1, <1>2, <1>3 DEF CreateSession, GetSession, InvalidateSession
<1>4. ASSUME NEW p \in Calls, Persist(p) \/ PersistFails(p) PROVE SessionTypeOK' /\ Targeted'
  BY <1>4 DEF Persist, PersistFails, GoOn, Return
<1>5. ASSUME NEW p \in Calls, CacheSession(p) \/ Hydrate(p) PROVE SessionTypeOK' /\ Targeted'
  <2>1. [status |-> copy[p].status, expires |-> copy[p].expires, until |-> now + TTL] \in Entry
    BY DEF Record, Entry
  <2>2. target[p] \in Sessions
    BY <1>5 DEF CacheSession, Hydrate
  <2>3. cache' \in [Sessions -> Entry]
    BY <1>5, <2>1, <2>2 DEF CacheSession, Hydrate, Write
  <2>4. CASE CacheSession(p)
    BY <2>2, <2>3, <2>4 DEF CacheSession, Return
  <2>5. CASE Hydrate(p)
    <3>1. copy[p].status \in Replies
      BY DEF Record, Status
    <3> QED
      BY <2>2, <2>3, <2>5, <3>1 DEF Hydrate, Return
  <2> QED
    BY <1>5, <2>4, <2>5
<1>6. ASSUME NEW p \in Calls, LookUpHit(p) PROVE SessionTypeOK' /\ Targeted'
  <2>1. cache[target[p]].status \in Replies
    BY <1>6 DEF LookUpHit, Entry
  <2> QED
    BY <1>6, <2>1 DEF LookUpHit, Return
<1>7. ASSUME NEW p \in Calls, LookUpMiss(p) \/ Find(p) \/ FindFails(p)
      PROVE  SessionTypeOK' /\ Targeted'
  BY <1>7 DEF LookUpMiss, Find, FindFails, GoOn, Return
<1>8. ASSUME NEW p \in Calls, Evict(p) PROVE SessionTypeOK' /\ Targeted'
  BY <1>2, <1>8 DEF Evict, GoOn
<1>9. ASSUME NEW p \in Calls, Mark(p) PROVE SessionTypeOK' /\ Targeted'
  <2>1. target[p] \in Sessions
    BY <1>9 DEF Mark
  <2>2. record' \in [Sessions -> Record] /\ raced' \subseteq Sessions
    BY <1>9, <2>1 DEF Mark, Record, Status
  <2> QED
    BY <1>9, <2>2 DEF Mark, Return
<1>10. ASSUME NEW s \in Sessions, Purge(s) PROVE SessionTypeOK' /\ Targeted'
  <2>1. record' \in [Sessions -> Record]
    BY <1>10 DEF Purge, Record, Status
  <2> QED
    BY <1>10, <2>1 DEF Purge
<1>11. ASSUME NEW s \in Sessions, Forget(s) PROVE SessionTypeOK' /\ Targeted'
  BY <1>2, <1>11 DEF Forget
<1>12. CASE STick
  BY <1>12 DEF STick
<1>13. CASE SCrash
  BY <1>13 DEF SCrash, Status
<1>14. CASE UNCHANGED svars
  BY <1>14 DEF svars
<1> QED
  BY <1>3, <1>4, <1>5, <1>6, <1>7, <1>8, <1>9, <1>10, <1>11, <1>12, <1>13, <1>14
     DEF SessionNext, CallStep

\* A session that is not raced stays over: every write of an active copy to Redis
\* comes from a call that was carrying it already.
LEMMA OverStep ==
    ASSUME SessionTypeOK, Targeted, Alone, ClosedStored, InvalidatedUnlessRaced, [SessionNext]_svars
    PROVE  InvalidatedUnlessRaced'
<1> USE DEF InvalidatedUnlessRaced, CachedActive, Cached, Carrying, SessionTypeOK
<1>1. ASSUME NEW p \in Calls, NEW s \in Sessions, NEW data, StartCall(p, s, "lookUp", data)
                                                    \/ StartCall(p, s, "evict", data)
                                                    \/ StartCall(p, s, "persist", data)
      PROVE  InvalidatedUnlessRaced'
  BY <1>1 DEF StartCall
<1>2. ASSUME NEW p \in Calls, CreateSession(p) \/ GetSession(p) \/ InvalidateSession(p)
      PROVE  InvalidatedUnlessRaced'
  BY <1>1, <1>2 DEF CreateSession, GetSession, InvalidateSession
<1>3. ASSUME NEW p \in Calls, pc[p] = "persist" PROVE target[p] \notin closed
  BY <1>3 DEF Alone, ClosedStored, NoDoc
<1>31. ASSUME NEW p \in Calls, Persist(p) PROVE InvalidatedUnlessRaced'
  <2>1. target[p] \notin closed
    BY <1>3, <1>31 DEF Persist
  <2>2. \A s \in Sessions : s # target[p] => record'[s] = record[s]
    BY <1>31 DEF Persist
  <2>3. \A s \in closed : Carrying(s)' => Carrying(s)
    BY <1>31, <2>1 DEF Persist, GoOn
  <2> QED
    BY <1>31, <2>1, <2>2, <2>3 DEF Persist
<1>4. ASSUME NEW p \in Calls, PersistFails(p) PROVE InvalidatedUnlessRaced'
  <2>1. target[p] \notin closed
    BY <1>3, <1>4 DEF PersistFails
  <2>2. \A s \in Sessions : s # target[p] => record'[s] = record[s]
    BY <1>4 DEF PersistFails
  <2>3. \A s \in closed : Carrying(s)' => Carrying(s)
    BY <1>4 DEF PersistFails, Return
  <2> QED
    BY <1>4, <2>1, <2>2, <2>3 DEF PersistFails
<1>5. ASSUME NEW p \in Calls, pc[p] \in {"setex", "hydrate"}, Write(p),
             pc'[p] = "idle", \A q \in Calls : q # p => pc'[q] = pc[q],
             UNCHANGED <<now, record, target, copy, closed, raced>>
      PROVE  InvalidatedUnlessRaced'
  <2> SUFFICES ASSUME NEW s \in closed \ raced
               PROVE  record[s].status # "active" /\ ~CachedActive(s)' /\ ~Carrying(s)'
    BY <1>5
  <2>1. record[s].status # "active" /\ ~CachedActive(s) /\ ~Carrying(s)
    OBVIOUS
  <2>2. ~Carrying(s)'
    BY <1>5, <2>1
  <2>3. CASE target[p] = s
    <3>1. copy[p].status # "active"
      BY <1>5, <2>1, <2>3
    <3> QED
      BY <1>5, <2>1, <2>2, <2>3, <3>1 DEF Write
  <2>4. CASE target[p] # s
    BY <1>5, <2>1, <2>2, <2>4 DEF Write
  <2> QED
    BY <2>3, <2>4
<1>6. ASSUME NEW p \in Calls, CacheSession(p) \/ Hydrate(p) PROVE InvalidatedUnlessRaced'
  BY <1>5, <1>6 DEF CacheSession, Hydrate, Return
<1>7. ASSUME NEW p \in Calls, LookUpHit(p) \/ LookUpMiss(p) \/ FindFails(p)
      PROVE  InvalidatedUnlessRaced'
  BY <1>7 DEF LookUpHit, LookUpMiss, FindFails, GoOn, Return
<1>8. ASSUME NEW p \in Calls, Find(p) PROVE InvalidatedUnlessRaced'
  BY <1>8 DEF Find, GoOn, Return
<1>9. ASSUME NEW p \in Calls, Evict(p) PROVE InvalidatedUnlessRaced'
  <2>1. CASE UNCHANGED <<cache, raced>>
    BY <1>9, <2>1 DEF Evict, GoOn
  <2>2. CASE /\ cache' = [cache EXCEPT ![target[p]] = NoEntry]
             /\ raced' = IF record[target[p]].status # "active" /\ ~Carrying(target[p])
                         THEN raced \ {target[p]} ELSE raced
    BY <1>9, <2>2 DEF Evict, GoOn, NoEntry
  <2> QED
    BY <1>9, <2>1, <2>2 DEF Evict
<1>10. ASSUME NEW p \in Calls, Mark(p) PROVE InvalidatedUnlessRaced'
  <2> SUFFICES ASSUME NEW s \in closed' \ raced'
               PROVE  record'[s].status # "active" /\ ~CachedActive(s)' /\ ~Carrying(s)'
    OBVIOUS
  <2>1. target[p] \in Sessions
    BY <1>10 DEF Mark, Targeted
  <2>2. CachedActive(s)' = CachedActive(s) /\ (Carrying(s)' => Carrying(s))
    BY <1>10 DEF Mark, Return
  <2>3. CASE s = target[p]
    BY <1>10, <2>1, <2>2, <2>3 DEF Mark
  <2>4. CASE s # target[p]
    <3>1. s \in closed /\ s \notin raced /\ record'[s] = record[s]
      BY <1>10, <2>1, <2>4 DEF Mark
    <3> QED
      BY <2>2, <3>1
  <2> QED
    BY <2>3, <2>4
<1>11. ASSUME NEW s \in Sessions, Purge(s) \/ Forget(s) PROVE InvalidatedUnlessRaced'
  <2>1. CASE Purge(s)
    <3>1. \A u \in Sessions : record'[u].status = "active" => record[u].status = "active"
      BY <2>1 DEF Purge, Record
    <3> QED
      BY <2>1, <3>1 DEF Purge
  <2>2. CASE Forget(s)
    BY <2>2 DEF Forget, NoEntry
  <2> QED
    BY <1>11, <2>1, <2>2
<1>12. CASE STick
  <2>1. \A s \in Sessions : cache[s].until \in Nat
    BY DEF Entry
  <2> QED
    BY <1>12, <2>1 DEF STick
<1>13. CASE SCrash
  BY <1>13 DEF SCrash
<1>14. CASE UNCHANGED svars
  BY <1>14 DEF svars
<1> QED
  BY <1>2, <1>31, <1>4, <1>6, <1>7, <1>8, <1>9, <1>10, <1>11, <1>12, <1>13, <1>14
     DEF SessionNext, CallStep

\* What is stored keeps its expires_at, whatever happens to it; it is deleted
\* only past that; and time does not go back.
LEMMA RecordStep ==
    ASSUME SessionTypeOK, Targeted, Backed, Alone, DeletedLate, [SessionNext]_svars
    PROVE  /\ \A s \in Sessions : record[s].status # "none" =>
                 record'[s].status # "none" /\ record'[s].expires = record[s].expires
           /\ DeletedLate'
           /\ now' >= now
<1> DEFINE Kept == \A s \in Sessions : record[s].status # "none" =>
                 record'[s].status # "none" /\ record'[s].expires = record[s].expires
<1> USE DEF SessionTypeOK, DeletedLate
<1>1. \A s \in Sessions : record[s].expires \in Nat
  BY DEF Record
<1>2. ASSUME NEW p \in Calls, pc[p] = "persist", UNCHANGED now,
             record' = [record EXCEPT ![target[p]] = copy[p]]
      PROVE  Kept /\ DeletedLate' /\ now' >= now
  <2>1. /\ target[p] \in Sessions
        /\ record[target[p]] = NoDoc
        /\ copy[p].status = "active"
    BY <1>2 DEF Targeted, Alone
  <2> QED
    BY <1>2, <2>1 DEF NoDoc
<1>3. ASSUME NEW p \in Calls, Persist(p) \/ PersistFails(p)
      PROVE  Kept /\ DeletedLate' /\ now' >= now
  BY <1>2, <1>3 DEF Persist, PersistFails
<1>4. ASSUME NEW p \in Calls, Mark(p) PROVE Kept /\ DeletedLate' /\ now' >= now
  <2>1. target[p] \in Sessions
    BY <1>4 DEF Mark, Targeted
  <2>2. CASE Stored(target[p]) /\ record' = [record EXCEPT ![target[p]].status = "expired"]
    <3>1. \A s \in Sessions : /\ record'[s].expires = record[s].expires
                             /\ record'[s].status \in {record[s].status, "expired"}
      BY <2>1, <2>2 DEF Record
    <3> QED
      BY <1>4, <3>1, <1>1 DEF Mark
  <2>3. CASE UNCHANGED record
    BY <1>4, <2>3, <1>1 DEF Mark
  <2> QED
    BY <1>4, <2>2, <2>3 DEF Mark
<1>5. ASSUME NEW s \in Sessions, Purge(s) PROVE Kept /\ DeletedLate' /\ now' >= now
  BY <1>5 DEF Purge, Record, Stored
<1>6. CASE STick
  BY <1>1, <1>6 DEF STick
<1>7. ASSUME UNCHANGED <<now, record>> PROVE Kept /\ DeletedLate' /\ now' >= now
  BY <1>7
<1>8. ASSUME NEW p \in Calls, \/ CreateSession(p) \/ GetSession(p) \/ InvalidateSession(p)
                              \/ CacheSession(p) \/ LookUpHit(p) \/ LookUpMiss(p)
                              \/ Find(p) \/ FindFails(p) \/ Hydrate(p) \/ Evict(p)
      PROVE  UNCHANGED <<now, record>>
  BY <1>8 DEF CreateSession, GetSession, InvalidateSession, StartCall, CacheSession, LookUpHit,
     LookUpMiss, Find, FindFails, Hydrate, Evict
<1>9. ASSUME NEW s \in Sessions, Forget(s) \/ SCrash \/ UNCHANGED svars
      PROVE  UNCHANGED <<now, record>>
  BY <1>9 DEF Forget, SCrash, svars
<1>10. SCrash \/ UNCHANGED svars => UNCHANGED <<now, record>>
  BY DEF SCrash, svars
<1> QED
  BY <1>3, <1>4, <1>5, <1>6, <1>7, <1>8, <1>9, <1>10 DEF SessionNext, CallStep

\* Nobody else gets at a session before its document is written: a fresh id is
\* not a target, and the other calls are about sessions that have been stored.
LEMMA AloneStep ==
    ASSUME SessionTypeOK, Targeted, Backed, Alone, [SessionNext]_svars
    PROVE  Alone'
<1> USE DEF SessionTypeOK, Alone
<1>1. ASSUME UNCHANGED target,
             \A q \in Calls : pc'[q] = "persist" =>
                 pc[q] = "persist" /\ record'[target[q]] = record[target[q]]
      PROVE  Alone'
  BY <1>1
<1>2. ASSUME NEW p \in Calls, CreateSession(p) PROVE Alone'
  <2>1. PICK s \in Sessions : Fresh(s) /\ StartCall(p, s, "persist", [status |-> "active", expires |-> now + TTL])
    BY <1>2 DEF CreateSession
  <2>2. /\ record[s] = NoDoc /\ UNCHANGED record
        /\ target'[p] = s
        /\ \A q \in Calls : target[q] # s
        /\ \A q \in Calls : q # p => target'[q] = target[q] /\ pc'[q] = pc[q]
    BY <2>1 DEF Fresh, StartCall
  <2> QED
    BY <2>2
<1>3. ASSUME NEW p \in Calls, GetSession(p) \/ InvalidateSession(p) PROVE Alone'
  <2>1. PICK s \in known : StartCall(p, s, "lookUp", NoDoc) \/ StartCall(p, s, "evict", NoDoc)
    BY <1>3 DEF GetSession, InvalidateSession
  <2>2. /\ record[s] # NoDoc /\ UNCHANGED record
        /\ target'[p] = s /\ pc'[p] # "persist"
        /\ \A q \in Calls : q # p => target'[q] = target[q] /\ pc'[q] = pc[q]
    BY <2>1 DEF Backed, CacheIsBacked, StartCall, NoDoc
  <2> QED
    BY <2>2
<1>4. ASSUME NEW p \in Calls, Persist(p) \/ PersistFails(p) PROVE Alone'
  <2>1. pc[p] = "persist" /\ pc'[p] # "persist" /\ UNCHANGED target
        /\ (record' = [record EXCEPT ![target[p]] = copy[p]] \/ UNCHANGED record)
        /\ \A q \in Calls : q # p => pc'[q] = pc[q]
    BY <1>4 DEF Persist, PersistFails, GoOn, Return
  <2>2. \A q \in Calls : pc[q] = "persist" /\ q # p => target[q] # target[p] /\ target[q] \in Sessions
    BY <2>1 DEF Targeted
  <2>3. \A q \in Calls : pc[q] = "persist" /\ q # p => record'[target[q]] = record[target[q]]
    BY <2>1, <2>2
  <2> QED
    BY <1>1, <2>1, <2>3
<1>5. ASSUME NEW s \in Sessions, Stored(s), UNCHANGED target,
             NEW doc, record' = [record EXCEPT ![s] = doc],
             \A q \in Calls : pc'[q] = "persist" => pc[q] = "persist"
      PROVE  Alone'
  BY <1>1, <1>5 DEF Stored, NoDoc, Targeted
<1>6. ASSUME NEW p \in Calls, Mark(p) PROVE Alone'
  <2>1. target[p] \in Sessions
    BY <1>6 DEF Mark, Targeted
  <2>2. UNCHANGED target /\ \A q \in Calls : pc'[q] = "persist" => pc[q] = "persist"
    BY <1>6 DEF Mark, Return
  <2>3. CASE Stored(target[p]) /\ record' = [record EXCEPT ![target[p]].status = "expired"]
    BY <1>5, <2>1, <2>2, <2>3
  <2>4. CASE UNCHANGED record
    BY <1>1, <2>2, <2>4
  <2> QED
    BY <1>6, <2>3, <2>4 DEF Mark
<1>7. ASSUME NEW s \in Sessions, Purge(s) PROVE Alone'
  BY <1>5, <1>7 DEF Purge
<1>8. ASSUME NEW p \in Calls, \/ CacheSession(p) \/ LookUpHit(p) \/ LookUpMiss(p) \/ Find(p)
                              \/ FindFails(p) \/ Hydrate(p) \/ Evict(p)
      PROVE  Alone'
  BY <1>1, <1>8 DEF CacheSession, LookUpHit, LookUpMiss, Find, FindFails, Hydrate, Evict, GoOn, Return
<1>9. ASSUME NEW s \in Sessions, Forget(s) PROVE Alone'
  BY <1>1, <1>9 DEF Forget
<1>10. CASE STick \/ SCrash \/ UNCHANGED svars
  BY <1>1, <1>10 DEF STick, SCrash, svars
<1> QED
  BY <1>2, <1>3, <1>4, <1>6, <1>7, <1>8, <1>9, <1>10 DEF SessionNext, CallStep

\* What Redis, the callers and the calls hold of a session stays backed.
LEMMA BackedStep ==
    ASSUME SessionTypeOK, Targeted, Backed, Alone, DeletedLate, [SessionNext]_svars
    PROVE  Backed'
<1> DEFINE Kept == \A s \in Sessions : record[s].status # "none" =>
                 record'[s].status # "none" /\ record'[s].expires = record[s].expires
           Reading == {"lookUp", "find", "hydrate", "evict", "mark"}
<1>0. Kept
  BY RecordStep
<1> USE DEF SessionTypeOK, Backed, CacheIsBacked
<1>1. ASSUME UNCHANGED <<target, copy>>,
             \A s \in Sessions : cache'[s].status # "none" => cache'[s].expires = record[s].expires
                                                               /\ record[s].status # "none",
             \A s \in known' : record[s].status # "none",
             known' \subseteq Sessions,
             \A q \in Calls : pc'[q] = pc[q] \/ pc'[q] = "idle"
                              \/ (pc[q] \in Reading /\ pc'[q] \in Reading \ {"hydrate"})
      PROVE  Backed'
  BY <1>0, <1>1 DEF Targeted
<1>2. ASSUME NEW p \in Calls, NEW s \in Sessions, NEW first, NEW data, StartCall(p, s, first, data),
             \/ first = "persist"
             \/ first \in {"lookUp", "evict"} /\ s \in known
      PROVE  Backed'
  <2>1. UNCHANGED <<cache, known>>
    BY <1>2 DEF StartCall
  <2>2. CacheIsBacked'
    BY <1>0, <2>1
  <2>3. ASSUME NEW q \in Calls, q # p
        PROVE  /\ pc'[q] = pc[q] /\ target'[q] = target[q] /\ copy'[q] = copy[q]
               /\ pc[q] # "idle" => target[q] \in Sessions
    BY <1>2, <2>3 DEF StartCall, Targeted
  <2>4. pc'[p] = first /\ target'[p] = s
    BY <1>2 DEF StartCall
  <2> QED
    BY <1>0, <1>2, <2>2, <2>3, <2>4
<1>3. ASSUME NEW p \in Calls, CreateSession(p) \/ GetSession(p) \/ InvalidateSession(p)
      PROVE  Backed'
  BY <1>2, <1>3 DEF CreateSession, GetSession, InvalidateSession
<1>4. ASSUME NEW p \in Calls, Persist(p) PROVE Backed'
  <2>1. target[p] \in Sessions /\ copy[p].status = "active"
    BY <1>4 DEF Persist, Targeted
  <2>2. /\ UNCHANGED <<cache, known, target, copy>>
        /\ record'[target[p]] = copy[p]
        /\ \A q \in Calls : q # p => pc'[q] = pc[q]
    BY <1>4, <2>1 DEF Persist, GoOn
  <2>3. CacheIsBacked'
    BY <1>0, <2>2
  <2> QED
    BY <1>0, <2>1, <2>2, <2>3 DEF Targeted
<1>5. ASSUME NEW p \in Calls, PersistFails(p) PROVE Backed'
  BY <1>1, <1>5 DEF PersistFails, Return
<1>6. ASSUME NEW p \in Calls, pc[p] \in {"setex", "hydrate"}, Write(p)
      PROVE  /\ target[p] \in Sessions /\ record[target[p]].status # "none"
             /\ \A s \in Sessions : cache'[s].status # "none" =>
                    cache'[s].expires = record[s].expires /\ record[s].status # "none"
  BY <1>6 DEF Write, Targeted
<1>7. ASSUME NEW p \in Calls, CacheSession(p) \/ Hydrate(p) PROVE Backed'
  BY <1>1, <1>6, <1>7 DEF CacheSession, Hydrate, Return
<1>8. ASSUME NEW p \in Calls, LookUpHit(p) \/ LookUpMiss(p) \/ FindFails(p) PROVE Backed'
  BY <1>1, <1>8 DEF LookUpHit, LookUpMiss, FindFails, GoOn, Return
<1>9. ASSUME NEW p \in Calls, Find(p) PROVE Backed'
  <2>1. UNCHANGED <<cache, known, target, record>> /\ target[p] \in Sessions
    BY <1>9 DEF Find, Targeted
  <2>2. \/ pc'[p] = "hydrate" /\ copy'[p] = record[target[p]]
        \/ pc'[p] = "idle"
    BY <1>9 DEF Find, GoOn, Return
  <2>3. \A q \in Calls : q # p => pc'[q] = pc[q] /\ copy'[q] = copy[q]
    BY <1>9 DEF Find, GoOn, Return
  <2>4. record[target[p]].status # "none"
    BY <1>9 DEF Find
  <2> QED
    BY <2>1, <2>2, <2>3, <2>4
<1>10. ASSUME NEW p \in Calls, Evict(p) PROVE Backed'
  <2>1. \A s \in Sessions : cache'[s].status # "none" => cache'[s] = cache[s]
    BY <1>10 DEF Evict, NoEntry
  <2> QED
    BY <1>1, <1>10, <2>1 DEF Evict, GoOn
<1>11. ASSUME NEW p \in Calls, Mark(p) PROVE Backed'
  BY <1>1, <1>11 DEF Mark, Return
<1>12. ASSUME NEW s \in Sessions, Purge(s) PROVE Backed'
  BY <1>1, <1>12 DEF Purge
<1>13. ASSUME NEW s \in Sessions, Forget(s) PROVE Backed'
  BY <1>1, <1>13 DEF Forget, NoEntry
<1>14. CASE STick \/ SCrash \/ UNCHANGED svars
  BY <1>1, <1>14 DEF STick, SCrash, svars
<1> QED
  BY <1>3, <1>4, <1>5, <1>7, <1>8, <1>9, <1>10, <1>11, <1>12, <1>13, <1>14 DEF SessionNext, CallStep

\* "null" is answered only by Find, for a document deleted past its expires_at,
\* and the answer is cleared when the call takes up another session.
LEMMA AnsweredStep ==
    ASSUME SessionTypeOK, Targeted, Backed, Alone, DeletedLate, Answered, NotFoundOnlyIfExpired,
           [SessionNext]_svars
    PROVE  Answered' /\ NotFoundOnlyIfExpired'
<1> DEFINE Late(p) == /\ target[p] \in Sessions /\ record[target[p]].status # "none"
                      /\ now >= record[target[p]].expires
<1> USE DEF SessionTypeOK
<1>1. \A p \in Calls : answer[p] = "null" => Late(p)
  BY DEF Answered, NotFoundOnlyIfExpired
<1>2. ASSUME \A p \in Calls : answer'[p] = "null" => Late(p) /\ target'[p] = target[p]
      PROVE  Answered' /\ NotFoundOnlyIfExpired'
  <2>1. now' \in Nat /\ \A s \in Sessions : record[s].expires \in Nat
    BY SessionTypeStep DEF Record
  <2> QED
    BY <1>2, <2>1, RecordStep DEF Answered, NotFoundOnlyIfExpired
<1>3. ASSUME NEW p \in Calls, CreateSession(p) \/ GetSession(p) \/ InvalidateSession(p)
      PROVE  \A q \in Calls : answer'[q] = "null" => Late(q) /\ target'[q] = target[q]
  BY <1>1, <1>3 DEF CreateSession, GetSession, InvalidateSession, StartCall
<1>4. ASSUME NEW p \in Calls, Find(p)
      PROVE  \A q \in Calls : answer'[q] = "null" => Late(q) /\ target'[q] = target[q]
  <2>1. CASE Stored(target[p]) /\ GoOn(p, "hydrate")
    BY <1>1, <1>4, <2>1 DEF Find, GoOn
  <2>2. CASE ~Stored(target[p]) /\ Return(p, "null")
    <3>1. /\ target[p] \in Sessions
          /\ record[target[p]].status # "none"
      BY <1>4 DEF Find, Backed, Targeted
    <3>2. record[target[p]].status = "deleted"
      BY <2>2, <3>1 DEF Stored, Record, Status
    <3>3. Late(p)
      BY <3>1, <3>2 DEF DeletedLate
    <3> QED
      BY <1>1, <1>4, <2>2, <3>3 DEF Find, Return
  <2> QED
    BY <1>4, <2>1, <2>2 DEF Find
<1>5. ASSUME NEW p \in Calls, CacheSession(p) \/ PersistFails(p) \/ FindFails(p) \/ Mark(p)
      PROVE  \A q \in Calls : answer'[q] = "null" => Late(q) /\ target'[q] = target[q]
  BY <1>1, <1>5 DEF CacheSession, PersistFails, FindFails, Mark, Return
<1>6. ASSUME NEW p \in Calls, LookUpHit(p) \/ Hydrate(p)
      PROVE  \A q \in Calls : answer'[q] = "null" => Late(q) /\ target'[q] = target[q]
  <2>1. target[p] \in Sessions
    BY <1>6 DEF LookUpHit, Hydrate, Targeted
  <2>2. cache[target[p]].status # "null" /\ copy[p].status # "null"
    BY <2>1 DEF Entry, Record, Status
  <2> QED
    BY <1>1, <1>6, <2>2 DEF LookUpHit, Hydrate, Return
<1>7. ASSUME NEW p \in Calls, Persist(p) \/ LookUpMiss(p) \/ Evict(p)
      PROVE  \A q \in Calls : answer'[q] = "null" => Late(q) /\ target'[q] = target[q]
  BY <1>1, <1>7 DEF Persist, LookUpMiss, Evict, GoOn
<1>8. ASSUME NEW s \in Sessions, Purge(s) \/ Forget(s)
      PROVE  \A q \in Calls : answer'[q] = "null" => Late(q) /\ target'[q] = target[q]
  BY <1>1, <1>8 DEF Purge, Forget
<1>9. ASSUME STick \/ SCrash \/ UNCHANGED svars
      PROVE  \A q \in Calls : answer'[q] = "null" => Late(q) /\ target'[q] = target[q]
  BY <1>1, <1>9 DEF STick, SCrash, svars
<1> QED
  BY <1>2, <1>3, <1>4, <1>5, <1>6, <1>7, <1>8, <1>9 DEF SessionNext, CallStep

\* Only stored sessions are invalidated, and what is stored stays so.
LEMMA ClosedStep ==
    ASSUME SessionTypeOK, Targeted, Backed, Alone, DeletedLate, ClosedStored, [SessionNext]_svars
    PROVE  ClosedStored'
<1> USE DEF SessionTypeOK, ClosedStored
<1>1. \A s \in Sessions : record[s].status # "none" => record'[s].status # "none"
  BY RecordStep
<1>2. ASSUME NEW p \in Calls, Mark(p) PROVE ClosedStored'
  <2>1. target[p] \in Sessions /\ record[target[p]].status # "none"
    BY <1>2 DEF Mark, Targeted, Backed
  <2> QED
    BY <1>1, <1>2, <2>1 DEF Mark
<1>3. ASSUME UNCHANGED closed PROVE ClosedStored'
  BY <1>1, <1>3
<1>4. ASSUME NEW p \in Calls, \/ CreateSession(p) \/ GetSession(p) \/ InvalidateSession(p)
                              \/ Persist(p) \/ PersistFails(p) \/ CacheSession(p)
                              \/ LookUpHit(p) \/ LookUpMiss(p) \/ Find(p) \/ FindFails(p)
                              \/ Hydrate(p) \/ Evict(p)
      PROVE  UNCHANGED closed
  BY <1>4 DEF CreateSession, GetSession, InvalidateSession, StartCall, Persist, PersistFails,
     CacheSession, LookUpHit, LookUpMiss, Find, FindFails, Hydrate, Evict
<1>5. ASSUME NEW s \in Sessions, Purge(s) \/ Forget(s) PROVE UNCHANGED closed
  BY <1>5 DEF Purge, Forget
<1>6. STick \/ SCrash \/ UNCHANGED svars => UNCHANGED closed
  BY DEF STick, SCrash, svars
<1> QED
  BY <1>2, <1>3, <1>4, <1>5, <1>6 DEF SessionNext, CallStep

\* Every step keeps the whole invariant.
LEMMA SessionStep == SessionInv /\ [SessionNext]_svars => SessionInv'
<1> SUFFICES ASSUME SessionInv, [SessionNext]_svars PROVE SessionInv'
  OBVIOUS
<1> USE DEF SessionInv
<1>1. SessionTypeOK' /\ Targeted'
  BY SessionTypeStep
<1>2. Backed' /\ Alone' /\ DeletedLate' /\ ClosedStored'
  BY BackedStep, AloneStep, RecordStep, ClosedStep
<1>3. Answered' /\ NotFoundOnlyIfExpired' /\ InvalidatedUnlessRaced'
  BY AnsweredStep, OverStep
<1> QED
  BY <1>1, <1>2, <1>3

\* The invariant holds throughout.
LEMMA SessionAlways == SessionSpec => []SessionInv
BY SessionInitInv, SessionStep, PTL DEF SessionSpec

\* Every reachable state of the store is well typed.
THEOREM SessionTypeCorrect == SessionSpec => []SessionTypeOK
<1>1. SessionInv => SessionTypeOK
  BY DEF SessionInv
<1> QED
  BY <1>1, SessionAlways, PTL

\* A session whose invalidation has been answered is over in both stores, unless
\* one of its two writes failed or a reader overtook it.
THEOREM SessionOver == SessionSpec => []InvalidatedUnlessRaced
<1>1. SessionInv => InvalidatedUnlessRaced
  BY DEF SessionInv
<1> QED
  BY <1>1, SessionAlways, PTL

\* What Redis holds of a session is what MongoDB has stored of it.
THEOREM SessionBacked == SessionSpec => []CacheIsBacked
<1>1. SessionInv => CacheIsBacked
  BY DEF SessionInv, Backed
<1> QED
  BY <1>1, SessionAlways, PTL

\* A live session is never reported as not found, unless MongoDB failed.
THEOREM SessionFound == SessionSpec => []NotFoundOnlyIfExpired
<1>1. SessionInv => NotFoundOnlyIfExpired
  BY DEF SessionInv
<1> QED
  BY <1>1, SessionAlways, PTL
=============================================================================
