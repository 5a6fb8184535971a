------------------------------- MODULE CrmSync -------------------------------
(***************************************************************************)
(* CrmSyncService in core-api: the nightly fullSync, the syncForRM of a    *)
(* login and writeBack, over the CRM (external) and its mirror in MongoDB. *)
(* A record is known by its version, the last change written to it; the    *)
(* CRM may list it under several RMs (its two first do share clients).     *)
(* Under each RM the entities are synced by loops that run in parallel.    *)
(* A sync deletes nothing: what the CRM drops stays in the mirror.         *)
(*                                                                         *)
(* Left out because nothing reads them: the keys crm:sync:last_run and     *)
(* crm:sync:rm:{rm}:last_sync (clients and portfolios ignore changedSince),*)
(* the lists syncForRM warms and the key dashboard:rm:{rm} that writeBack  *)
(* drops.                                                                  *)
(***************************************************************************)
EXTENDS Integers, Sequences, SequencesExt

CONSTANTS
    RMs,
    Records,     \* ids of the records the CRM may come to hold
    Entity,      \* Entity[r]: the collection of record r
    Listing,     \* Listing[rm]: what the CRM lists under each RM at the start
    Held,        \* Held[r]: the RM of its document at the start, from an import that stamped
                 \* nothing; "none" when there is no document
    CrmOrder,    \* the records in the order in which the CRM lists them
    WriteBacks,  \* writeBack calls
    Logins,      \* the RMs who log in
    Changes,     \* what others do in the CRM: a record and the RMs it is listed under from then on
    Synced,      \* the entities an instance looks at
    PageSize,    \* 100 in the code
    Faults,      \* which failures the run allows
    MaxEdits,    \* bound on the number of Changes
    MaxSyncs     \* bound on the syncs started, of each kind

Entities == {"clients", "portfolios", "meetings", "leads", "pipeline"}
Jobs     == {"full", "login"}
Paged    == {"clients", "portfolios"}   \* of the others only the first page is asked for
EntitiesOf(j) == IF j = "full" THEN Synced ELSE Synced \cap Paged

ASSUME CrmAssumption ==
    /\ Synced \subseteq Entities /\ Entity \in [Records -> Synced]
    /\ RMs \cap {"off", "none"} = {} /\ "none" \notin Records
    /\ Listing \in [RMs -> SUBSET Records] /\ Held \in [Records -> RMs \cup {"none"}]
    /\ \A r \in Records : Held[r] # "none" => \E rm \in RMs : r \in Listing[rm]
    /\ CrmOrder \in Seq(Records) /\ \A r \in Records : \E i \in DOMAIN CrmOrder : CrmOrder[i] = r
    /\ Logins \subseteq RMs /\ Changes \subseteq [rec : Records, to : SUBSET RMs]
    /\ PageSize \in Nat \ {0} /\ MaxEdits \in Nat /\ MaxSyncs \in Nat
    /\ Faults \subseteq {"crm", "mongo", "redis", "crash"}

VARIABLES
    crm,        \* the last version of each record in the CRM, 0 when there was none
    lists,      \* what the CRM lists under each RM; a deleted record is listed nowhere
    mirror,     \* its document in MongoDB: version, rm_id; stamped: by a sync or write-back
    status,     \* Redis crm:sync:status
    jpc,        \* where each job is
    agenda,     \* RMs a job has still to sync
    covered,    \* RMs the full sync set out to sync
    failed,     \* the full sync has counted errors
    loop,       \* per job and entity: the page being worked off
    wb,         \* the write-backs
    confirmed,  \* history: record and version of every write-back that succeeded
    raced,      \* history: records written back while an older copy was on its way
    touched,    \* history: records changed since the full sync began, or being written then
    missed,     \* history: records that slid past the full sync's page, or lay beyond the first
    edits, syncs

cvars == <<crm, lists, mirror, status, jpc, agenda, covered, failed, loop, wb,
           confirmed, raced, touched, missed, edits, syncs>>

NoDoc   == [ver |-> 0, rm |-> "none", stamped |-> FALSE]
LoopOff == [pc |-> "off", page |-> 0, todo |-> <<>>, more |-> FALSE]
Kinds   == {"CREATE_MEETING", "UPDATE_LEAD", "CREATE_PIPELINE"}
Target  == [CREATE_MEETING |-> "meetings", UPDATE_LEAD |-> "leads", CREATE_PIPELINE |-> "pipeline"]
NoWriteBack == [pc |-> "new", kind |-> "none", rec |-> "none", rm |-> "none", ver |-> 0]

\* The items a loop or a write-back has read or agreed with the CRM and not yet stored.
Carried == (UNION {ToSet(loop[l].todo) : l \in Jobs \X Synced})
           \cup {[rec |-> wb[w].rec, ver |-> wb[w].ver] : w \in {x \in WriteBacks : wb[x].pc = "mongo"}}
CarriedOlder(r, v) == \E i \in Carried : i.rec = r /\ i.ver < v
Pending == {i.rec : i \in Carried} \cup {wb[w].rec : w \in {x \in WriteBacks : wb[x].pc = "crm"}}
Resting(j) == \A e \in Synced : loop[<<j, e>>].pc = "off"

Upsert(r, v, rm) == mirror' = [mirror EXCEPT ![r] = [ver |-> v, rm |-> rm, stamped |-> TRUE]]
ListedBy(r) == {rm \in RMs : r \in lists[rm]}

CrmInit ==
    /\ crm = [r \in Records |-> IF \E rm \in RMs : r \in Listing[rm] THEN 1 ELSE 0]
    /\ lists = Listing
    /\ mirror = [r \in Records |->
                   [ver |-> IF Held[r] = "none" THEN 0 ELSE 1, rm |-> Held[r], stamped |-> FALSE]]
    /\ status = "none"
    /\ jpc = [j \in Jobs |-> "idle"]
    /\ agenda = [j \in Jobs |-> {}]
    /\ covered = {}
    /\ failed = FALSE
    /\ loop = [l \in Jobs \X Synced |-> LoopOff]
    /\ wb = [w \in WriteBacks |-> NoWriteBack]
    /\ confirmed = {} /\ raced = {} /\ touched = {} /\ missed = {}
    /\ edits = 0
    /\ syncs = [j \in Jobs |-> 0]
-----------------------------------------------------------------------------
(* The jobs *)

SetStatus(s) == status' = s \/ ("redis" \in Faults /\ UNCHANGED status)

\* The cron job starts fullSync.  Whatever is on its way to MongoDB now may land later.
StartFullSync ==
    /\ jpc["full"] = "idle" /\ syncs["full"] < MaxSyncs
    /\ syncs' = [syncs EXCEPT !["full"] = @ + 1]
    /\ SetStatus("running")
    /\ jpc' = [jpc EXCEPT !["full"] = "distinct"]
    /\ failed' = FALSE
    /\ touched' = Pending /\ missed' = {}
    /\ UNCHANGED <<crm, lists, mirror, agenda, covered, loop, wb, confirmed, raced, edits>>

\* getActiveRMIds: the RMs of the clients in MongoDB; an error yields no RM at all.
GetActiveRMIds ==
    /\ jpc["full"] = "distinct"
    /\ \E ids \in {{mirror[r].rm : r \in {x \in Records : Entity[x] = "clients"}} \ {"none"}}
                  \cup (IF "mongo" \in Faults THEN {{}} ELSE {}) :
          /\ agenda' = [agenda EXCEPT !["full"] = ids]
          /\ covered' = ids
    /\ jpc' = [jpc EXCEPT !["full"] = "sync"]
    /\ UNCHANGED <<crm, lists, mirror, status, failed, loop, wb, confirmed, raced, touched, missed, edits, syncs>>

\* A login calls syncForRM for one RM.
StartLoginSync(rm) ==
    /\ jpc["login"] = "idle" /\ syncs["login"] < MaxSyncs
    /\ syncs' = [syncs EXCEPT !["login"] = @ + 1]
    /\ jpc' = [jpc EXCEPT !["login"] = "sync"]
    /\ agenda' = [agenda EXCEPT !["login"] = {rm}]
    /\ UNCHANGED <<crm, lists, mirror, status, covered, failed, loop, wb, confirmed, raced, touched, missed, edits>>

\* Promise.all over the entity loops of the next RM, once those of the last are over.
SyncRM(j, rm) ==
    /\ jpc[j] = "sync" /\ Resting(j)
    /\ rm \in agenda[j]
    /\ agenda' = [agenda EXCEPT ![j] = @ \ {rm}]
    /\ loop' = [l \in Jobs \X Synced |->
                  IF l[1] = j /\ l[2] \in EntitiesOf(j)
                  THEN [pc |-> rm, page |-> 1, todo |-> <<>>, more |-> TRUE] ELSE loop[l]]
    /\ UNCHANGED <<crm, lists, mirror, status, jpc, covered, failed, wb, confirmed, raced, touched, missed, edits, syncs>>

\* The event crm.sync.completed tells rm_count and total_errors; a Kafka error is logged.
PublishCompleted ==
    /\ jpc["full"] = "sync" /\ Resting("full") /\ agenda["full"] = {}
    /\ jpc' = [jpc EXCEPT !["full"] = "status"]
    /\ UNCHANGED <<crm, lists, mirror, status, agenda, covered, failed, loop, wb, confirmed, raced, touched, missed, edits, syncs>>

FinishFullSync ==
    /\ jpc["full"] = "status"
    /\ SetStatus("idle")
    /\ jpc' = [jpc EXCEPT !["full"] = "idle"]
    /\ UNCHANGED <<crm, lists, mirror, agenda, covered, failed, loop, wb, confirmed, raced, touched, missed, edits, syncs>>

FinishLoginSync ==
    /\ jpc["login"] = "sync" /\ Resting("login") /\ agenda["login"] = {}
    /\ jpc' = [jpc EXCEPT !["login"] = "idle"]
    /\ UNCHANGED <<crm, lists, mirror, status, agenda, covered, failed, loop, wb, confirmed, raced, touched, missed, edits, syncs>>
-----------------------------------------------------------------------------
(* One entity loop; loop[<<j, e>>].pc is the RM it works for *)

\* The places in CrmOrder of the records of an entity in a listing, the records there in
\* that order, and a page of them.
Places(listing, e) == {i \in DOMAIN CrmOrder : CrmOrder[i] \in listing /\ Entity[CrmOrder[i]] = e}
Rank(i, places) == Cardinality({k \in places : k <= i})
Listed(listing, e) == LET places == Places(listing, e) IN
    [n \in 1 .. Cardinality(places) |-> CrmOrder[CHOOSE i \in places : Rank(i, places) = n]]
Least(a, b)   == IF a < b THEN a ELSE b
Page(list, start) == [n \in 1 .. Least(PageSize, Len(list) - start) |->
                         [rec |-> list[start + n], ver |-> crm[list[start + n]]]]
EndIfDone(l)  == IF l.todo = <<>> /\ ~l.more THEN LoopOff ELSE l
Read(l)       == (l.page - 1) * PageSize

\* What the full sync's loop has still to fetch, if those are the lists.
Ahead(ls, e) == LET l == loop[<<"full", e>>] IN
    IF ~l.more THEN {}
    ELSE {CrmOrder[i] : i \in {k \in Places(ls[l.pc], e) : Rank(k, Places(ls[l.pc], e)) > Read(l)}}

\* Mutant: hasMore is off by one and the last page is missed.
FetchPage_offByOne(j, e) == LET l == loop[<<j, e>>] IN
    /\ l.pc \in RMs /\ l.todo = <<>> /\ l.more
    /\ LET list == Listed(lists[l.pc], e)
           end  == Read(l) + PageSize
       IN /\ loop' = [loop EXCEPT ![<<j, e>>] = EndIfDone(
                [pc |-> l.pc, page |-> l.page + 1, todo |-> Page(list, Read(l)),
                 more |-> e \in Paged /\ end + 1 < Len(list)])]
          /\ missed' = IF j = "full" /\ e \notin Paged
                       THEN missed \cup {list[n] : n \in end + 1 .. Len(list)} ELSE missed
    /\ UNCHANGED <<crm, lists, mirror, status, jpc, agenda, covered, failed, wb, confirmed, raced, touched, edits, syncs>>

\* getClients(rm, page), ...: the CRM's current list from (page - 1) * limit on.  The
\* calls for meetings, leads and pipeline take no page, and hasMore is not looked at.
FetchPage(j, e) == LET l == loop[<<j, e>>] IN
    /\ l.pc \in RMs /\ l.todo = <<>> /\ l.more
    /\ LET list == Listed(lists[l.pc], e)
           end  == Read(l) + PageSize
       IN /\ loop' = [loop EXCEPT ![<<j, e>>] = EndIfDone(
                [pc |-> l.pc, page |-> l.page + 1, todo |-> Page(list, Read(l)),
                 more |-> e \in Paged /\ end < Len(list)])]
          /\ missed' = IF j = "full" /\ e \notin Paged
                       THEN missed \cup {list[n] : n \in end + 1 .. Len(list)} ELSE missed
    /\ UNCHANGED <<crm, lists, mirror, status, jpc, agenda, covered, failed, wb, confirmed, raced, touched, edits, syncs>>

\* Mutant: the error leaves the loop's promise pending.
FetchFails_neverSettles(j, e) ==
    /\ "crm" \in Faults
    /\ loop[<<j, e>>].pc \in RMs /\ loop[<<j, e>>].todo = <<>> /\ loop[<<j, e>>].more
    /\ failed' = (failed \/ j = "full")
    /\ loop' = [loop EXCEPT ![<<j, e>>].more = FALSE]
    /\ UNCHANGED <<crm, lists, mirror, status, jpc, agenda, covered, wb, confirmed, raced, touched, missed, edits, syncs>>

\* The error ends this entity, for this RM, and counts one.
FetchFails(j, e) ==
    /\ "crm" \in Faults
    /\ loop[<<j, e>>].pc \in RMs /\ loop[<<j, e>>].todo = <<>> /\ loop[<<j, e>>].more
    /\ failed' = (failed \/ j = "full")
    /\ loop' = [loop EXCEPT ![<<j, e>>] = LoopOff]
    /\ UNCHANGED <<crm, lists, mirror, status, jpc, agenda, covered, wb, confirmed, raced, touched, missed, edits, syncs>>

\* The checksums agree only on a document that has no crm_last_synced.
Unchanged(i, rm) == mirror[i.rec] = [ver |-> i.ver, rm |-> rm, stamped |-> FALSE]

\* findOne, compare, then skip or upsert: what is stored does not depend on what
\* happens between the two calls, since the upsert sets every field.
StoreRecord(j, e) == LET l == loop[<<j, e>>] IN
    /\ l.pc \in RMs /\ l.todo # <<>>
    /\ IF Unchanged(Head(l.todo), l.pc) THEN UNCHANGED mirror
       ELSE Upsert(Head(l.todo).rec, Head(l.todo).ver, l.pc)
    /\ loop' = [loop EXCEPT ![<<j, e>>] = EndIfDone([l EXCEPT !.todo = Tail(@)])]
    /\ UNCHANGED <<crm, lists, status, jpc, agenda, covered, failed, wb, confirmed, raced, touched, missed, edits, syncs>>

\* The record is counted as an error and the loop goes on to the next.
StoreFails(j, e) == LET l == loop[<<j, e>>] IN
    /\ "mongo" \in Faults
    /\ l.pc \in RMs /\ l.todo # <<>>
    /\ loop' = [loop EXCEPT ![<<j, e>>] = EndIfDone([l EXCEPT !.todo = Tail(@)])]
    /\ failed' = (failed \/ j = "full")
    /\ UNCHANGED <<crm, lists, mirror, status, jpc, agenda, covered, wb, confirmed, raced, touched, missed, edits, syncs>>
-----------------------------------------------------------------------------
(* writeBack *)

Goto(w, pc) == wb' = [wb EXCEPT ![w].pc = pc]

\* A creation gets an id nobody else has.
Unused(r) == crm[r] = 0 /\ mirror[r] = NoDoc /\ \A w \in WriteBacks : wb[w].rec # r

\* There is no API to create pipeline records in the CRM; UPDATE_LEAD names no RM.
StartWriteBack(w, k, r, rm) ==
    /\ wb[w].pc = "new"
    /\ Entity[r] = Target[k]
    /\ rm = "none" <=> k = "UPDATE_LEAD"
    /\ IF k = "UPDATE_LEAD" THEN crm[r] > 0 ELSE Unused(r)
    /\ wb' = [wb EXCEPT ![w] = [pc |-> IF k = "CREATE_PIPELINE" THEN "mongo" ELSE "crm",
                                kind |-> k, rec |-> r, rm |-> rm, ver |-> 1]]
    /\ touched' = touched \cup {r}
    /\ UNCHANGED <<crm, lists, mirror, status, jpc, agenda, covered, failed, loop, confirmed, raced, missed, edits, syncs>>

\* UPDATE_LEAD without a lead_id.
RejectWriteBack(w) ==
    /\ wb[w].pc = "new"
    /\ Goto(w, "failure")
    /\ UNCHANGED <<crm, lists, mirror, status, jpc, agenda, covered, failed, loop, confirmed, raced, touched, missed, edits, syncs>>

\* The lead was deleted in the CRM.
Refused(w) == wb[w].kind = "UPDATE_LEAD" /\ ListedBy(wb[w].rec) = {}

\* The CRM has the change; a new meeting is listed under its RM.
Apply(w) == LET r == wb[w].rec IN
    /\ ~Refused(w)
    /\ crm' = [crm EXCEPT ![r] = @ + 1]
    /\ lists' = [rm \in RMs |-> IF rm = wb[w].rm THEN lists[rm] \cup {r} ELSE lists[rm]]
    /\ touched' = touched \cup {r}

\* createMeeting or updateLead succeeds.
CrmAccepts(w) ==
    /\ wb[w].pc = "crm"
    /\ Apply(w)
    /\ wb' = [wb EXCEPT ![w].pc = "mongo", ![w].ver = crm[wb[w].rec] + 1]
    /\ UNCHANGED <<mirror, status, jpc, agenda, covered, failed, loop, confirmed, raced, missed, edits, syncs>>

\* Mutant: success: false is not looked at.
CrmFails_goesOn(w) ==
    /\ wb[w].pc = "crm"
    /\ "crm" \in Faults \/ Refused(w)
    /\ wb' = [wb EXCEPT ![w].pc = "mongo", ![w].ver = crm[wb[w].rec] + 1]
    /\ UNCHANGED <<crm, lists, mirror, status, jpc, agenda, covered, failed, loop, confirmed, raced, touched, missed, edits, syncs>>

\* It answers success: false or throws; in the latter case it may have been applied.
CrmFails(w) ==
    /\ wb[w].pc = "crm"
    /\ "crm" \in Faults \/ Refused(w)
    /\ UNCHANGED <<crm, lists, touched>> \/ Apply(w)
    /\ Goto(w, "failure")
    /\ UNCHANGED <<mirror, status, jpc, agenda, covered, failed, loop, confirmed, raced, missed, edits, syncs>>

StoreWriteBack(w) == LET r == wb[w].rec IN
    /\ wb[w].pc = "mongo"
    /\ Upsert(r, wb[w].ver, IF wb[w].rm = "none" THEN mirror[r].rm ELSE wb[w].rm)
    /\ raced' = IF CarriedOlder(r, wb[w].ver) THEN raced \cup {r} ELSE raced
    /\ Goto(w, "announce")
    /\ UNCHANGED <<crm, lists, status, jpc, agenda, covered, failed, loop, confirmed, touched, missed, edits, syncs>>

\* Mutant: the failed upsert is logged and the call goes on.
StoreWriteBackFails_goesOn(w) ==
    /\ "mongo" \in Faults
    /\ wb[w].pc = "mongo"
    /\ Goto(w, "announce")
    /\ UNCHANGED <<crm, lists, mirror, status, jpc, agenda, covered, failed, loop, confirmed, raced, touched, missed, edits, syncs>>

\* The error is caught and success: false returned, although the CRM has the record.
StoreWriteBackFails(w) ==
    /\ "mongo" \in Faults
    /\ wb[w].pc = "mongo"
    /\ Goto(w, "failure")
    /\ UNCHANGED <<crm, lists, mirror, status, jpc, agenda, covered, failed, loop, confirmed, raced, touched, missed, edits, syncs>>

\* invalidate and _publishAuditEvent swallow their errors.
Announce(w) ==
    /\ wb[w].pc = "announce"
    /\ Goto(w, "success")
    /\ confirmed' = confirmed \cup {[rec |-> wb[w].rec, ver |-> wb[w].ver]}
    /\ UNCHANGED <<crm, lists, mirror, status, jpc, agenda, covered, failed, loop, raced, touched, missed, edits, syncs>>
-----------------------------------------------------------------------------
(* Environment *)

\* Somebody adds, changes, hands over or deletes a record in the CRM itself: from then on
\* it is listed under the RMs of to.  Where it leaves a listing, those behind it move up,
\* and one may cross from the full sync's next page to the one it has read.
CrmEdit(r, to) ==
    /\ edits < MaxEdits
    /\ edits' = edits + 1
    /\ ListedBy(r) # {} \/ (to # {} /\ Unused(r))
    /\ crm' = [crm EXCEPT ![r] = @ + 1]
    /\ lists' = [rm \in RMs |-> IF rm \in to THEN lists[rm] \cup {r} ELSE lists[rm] \ {r}]
    /\ touched' = touched \cup {r}
    /\ missed' = missed \cup (Ahead(lists, Entity[r]) \ Ahead(lists', Entity[r]))
    /\ UNCHANGED <<mirror, status, jpc, agenda, covered, failed, loop, wb, confirmed, raced, syncs>>

CrmCrash ==
    /\ "crash" \in Faults
    /\ jpc' = [j \in Jobs |-> "idle"]
    /\ loop' = [l \in Jobs \X Synced |-> LoopOff]
    /\ wb' = [w \in WriteBacks |-> IF wb[w].pc \in {"crm", "mongo", "announce"}
                                   THEN [wb[w] EXCEPT !.pc = "failure"] ELSE wb[w]]
    /\ UNCHANGED <<crm, lists, mirror, status, agenda, covered, failed, confirmed, raced, touched, missed, edits, syncs>>

LoopStep(j, e) == FetchPage(j, e) \/ FetchFails(j, e) \/ StoreRecord(j, e) \/ StoreFails(j, e)

JobStep(j) ==
    \/ \E rm \in RMs : SyncRM(j, rm)
    \/ j = "full" /\ (GetActiveRMIds \/ PublishCompleted \/ FinishFullSync)
    \/ j = "login" /\ FinishLoginSync

SyncStep == \E j \in Jobs : JobStep(j) \/ \E e \in Synced : LoopStep(j, e)

WriteBackStep(w) ==
    RejectWriteBack(w) \/ CrmAccepts(w) \/ CrmFails(w) \/ StoreWriteBack(w) \/ StoreWriteBackFails(w) \/ Announce(w)

CrmNext ==
    \/ StartFullSync
    \/ \E rm \in Logins : StartLoginSync(rm)
    \/ SyncStep
    \/ \E w \in WriteBacks : WriteBackStep(w) \/ \E k \in Kinds, r \in Records, rm \in RMs \cup {"none"} :
                                                     StartWriteBack(w, k, r, rm)
    \/ \E c \in Changes : CrmEdit(c.rec, c.to)
    \/ CrmCrash

\* Node goes on with some promise that can make progress; each is settled in the end.
CrmSpec == CrmInit /\ [][CrmNext]_cvars /\ WF_cvars(SyncStep)
-----------------------------------------------------------------------------
\* The CRM is asked first: MongoDB never holds a version of a record that the CRM
\* does not have, nor is one on its way there.  Only pipeline records start out here.
NeverAhead ==
    /\ \A r \in Records : Entity[r] # "pipeline" => mirror[r].ver <= crm[r]
    /\ \A i \in Carried : Entity[i.rec] # "pipeline" => i.ver <= crm[i.rec]

\* How far a completion event without errors can be believed, for the RMs it covers:
\* MongoDB then has the CRM's version of every record listed under them, but of those
\* changed since the sync began or being written when it began, and of those the sync was
\* never shown: a record dropped from the part of a listing already read moves another out
\* of sight of the pages still to be read, and of meetings, leads and pipeline there is
\* only ever the first page.
CleanSyncIsFresh ==
    jpc["full"] = "status" /\ ~failed =>
        \A rm \in covered : \A r \in lists[rm] \ (touched \cup missed) : mirror[r].ver = crm[r]

\* What writeBack reported as done is in the CRM and in MongoDB, and stays in
\* MongoDB unless an older copy was on its way there while it was written.
ConfirmedStaysUnlessRaced ==
    \A i \in confirmed :
        /\ mirror[i.rec].ver > 0
        /\ Entity[i.rec] # "pipeline" => crm[i.rec] >= i.ver
        /\ i.rec \notin raced => mirror[i.rec].ver >= i.ver

\* However many records, pages and calls fail, a full sync ends.
FullSyncEnds == jpc["full"] # "idle" ~> jpc["full"] = "idle"
=============================================================================
