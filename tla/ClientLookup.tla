---------------------------- MODULE ClientLookup ----------------------------
(***************************************************************************)
(* GET /search/client and POST /search/rebuild-index of core-api's         *)
(* SearchService: a client is looked up by name in a Redis hash of the RM  *)
(* (lookup:rm:{rm}:clients, name to client_id) and, failing that, in       *)
(* MongoDB by $text, by regular expression and by similarity; whoever is   *)
(* found is added to the hash.  Nothing removes a name from the hash,      *)
(* while the sync renames clients and moves them to other RMs.             *)
(*                                                                         *)
(* A name is a sequence of letters, lower-case and trimmed; a word stands  *)
(* for its stem.  A client's mail and pan are the words under which the    *)
(* text index has them: none of either where the index that ClientSchema   *)
(* declares, on client_name alone, was there before init-text-indexes.js,  *)
(* for a collection has one text index.  The hash of the PANs is written   *)
(* after that of the names and read by nobody; it is left out.             *)
(***************************************************************************)
EXTENDS Integers, FiniteSets, FiniteSetsExt, Sequences, SequencesExt

CONSTANTS
    Clients, RMs,
    Persons,     \* what the CRM may say of a client: name, mail, pan
    Asks,        \* what is asked for: names, also words of a mail address or a PAN
    StopWords,   \* the words the text index leaves out
    Special,     \* the letters a regular expression gives a meaning, but the full stop
    FuzzyLimit,  \* the clients the last query compares, 200 in the code
    Calls,       \* the requests that may be under way
    MaxCalls,    \* bound on the requests made
    MaxChanges,  \* bound on the changes the sync brings
    MaxFaults    \* bound on the Redis errors, MongoDB errors and crashes

Blank  == "_"
Stop   == "."
Nobody == "nobody"
Names  == {p.name : p \in Persons}

ASSUME LookupAssumption ==
    /\ {FuzzyLimit, MaxCalls, MaxChanges, MaxFaults} \subseteq Nat
    /\ Nobody \notin Clients
    /\ Names \cup Asks \subseteq Seq(STRING) /\ <<>> \notin Asks
    /\ \A p \in Persons : /\ DOMAIN p = {"name", "mail", "pan"}
                          /\ IsFiniteSet(p.mail) /\ IsFiniteSet(p.pan) /\ Cardinality(p.pan) <= 1

VARIABLES
    doc,     \* doc[c]: the client in MongoDB
    hash,    \* hash[r]: pairs <<name, client>>, one per name
    mortal,  \* mortal[r]: the hash has a time to live
    call,    \* call[q]: a request
    bore,    \* history: the <<RM, name>> pairs each client ever had
    made, changes, faults

lvars == <<doc, hash, mortal, call, bore, made, changes, faults>>

NoDoc == [id |-> Nobody, rm |-> Nobody, who |-> Nobody]
Idle == [pc |-> "done", rm |-> Nobody, ask |-> <<>>, hit |-> Nobody, best |-> NoDoc,
         list |-> {}, failed |-> {}, there |-> {}]
-----------------------------------------------------------------------------
(* What the three queries match *)

Delimiters == {Blank, Stop} \cup Special

\* The longest stretches without a delimiter.
Words(n) ==
    {SubSeq(n, w[1], w[2]) : w \in {p \in (1 .. Len(n)) \X (1 .. Len(n)) :
        /\ p[1] <= p[2] /\ \A k \in p[1] .. p[2] : n[k] \notin Delimiters
        /\ p[1] = 1 \/ n[p[1] - 1] \in Delimiters
        /\ p[2] = Len(n) \/ n[p[2] + 1] \in Delimiters}} \ StopWords

Common(ask, words) == Cardinality(Words(ask) \cap words)

ByName(ask, p)   == Common(ask, Words(p.name)) > 0
ByOthers(ask, p) == Common(ask, p.mail) + Common(ask, p.pan) > 0

\* The textScore: of each word in common half the weight of the field, and as much again
\* shared among the words of the field; a tenth more where the field is that word alone.
\* A Field is over 20 times the Size of it, and a Score over 20 times the product.
Size(words) == IF words = {} THEN 1 ELSE Cardinality(words)
Field(ask, weight, words) ==
    weight * Common(ask, words) * (Size(words) + 1) * (IF Size(words) = 1 THEN 11 ELSE 10)
Score(ask, p) ==
    Field(ask, 10, Words(p.name)) * Size(p.mail)
        + (Field(ask, 3, p.mail) + Field(ask, 1, p.pan) * Size(p.mail)) * Size(Words(p.name))
Outscores(ask, p, o) ==
    Score(ask, p) * (Size(Words(o.name)) * Size(o.mail))
        > Score(ask, o) * (Size(Words(p.name)) * Size(p.mail))

\* $regex takes the name as it is: a full stop stands for any letter.  What the other special
\* letters make it match is left open.
Plain(ask) == ToSet(ask) \cap Special = {}
Fits(n, ask) ==
    \E i \in 0 .. Len(n) - Len(ask) : \A k \in 1 .. Len(ask) : ask[k] \in {Stop, n[i + k]}

Includes(n, part) == \E i \in 0 .. Len(n) - Len(part) : SubSeq(n, i + 1, i + Len(part)) = part

\* fuzzyScore, in percent
Similarity(ask, n) ==
    IF Includes(n, ask) \/ Includes(ask, n) THEN 95
    ELSE (100 * Cardinality(ToSet(ask) \cap ToSet(n)))
            \div Max({Cardinality(ToSet(ask)), Cardinality(ToSet(n))})

ClientsOf(r) == {c \in Clients : doc[c].rm = r}

TextHits(r, ask)  == {c \in ClientsOf(r) : ByName(ask, doc[c].who) \/ ByOthers(ask, doc[c].who)}
RegexHits(r, ask) == {c \in ClientsOf(r) : Fits(doc[c].who.name, ask)}
FuzzyHits(seen, ask) == {c \in seen : Similarity(ask, doc[c].who.name) >= 70}
-----------------------------------------------------------------------------
LookupInit ==
    /\ doc \in [Clients -> [rm : RMs, who : Persons]]
    /\ hash = [r \in RMs |-> {}]
    /\ mortal = [r \in RMs |-> FALSE]
    /\ call = [q \in Calls |-> Idle]
    /\ bore = [c \in Clients |-> {<<doc[c].rm, doc[c].who.name>>}]
    /\ made = 0 /\ changes = 0 /\ faults = 0

Goto(q, pc) == call' = [call EXCEPT ![q].pc = pc]
Snapshot(c) == [id |-> c, rm |-> doc[c].rm, who |-> doc[c].who]
Fault == faults < MaxFaults /\ faults' = faults + 1
Stored == UNCHANGED <<doc, hash, mortal, bore, made, changes>>

Begin(q, r, n, pc) ==
    /\ call[q].pc = "done" /\ made < MaxCalls
    /\ call' = [call EXCEPT ![q] = [Idle EXCEPT !.pc = pc, !.rm = r, !.ask = n,
                                    !.there = {c \in ClientsOf(r) : doc[c].who.name = n}]]
    /\ made' = made + 1
    /\ UNCHANGED <<doc, hash, mortal, bore, changes, faults>>

FindClientByName(q) == \E r \in RMs, n \in Asks : Begin(q, r, n, "hget")
BuildLookupMaps(q)  == \E r \in RMs : Begin(q, r, <<>>, "scan")

HGet(q) ==
    /\ call[q].pc = "hget"
    /\ LET found == {e \in hash[call[q].rm] : e[1] = call[q].ask} IN
       IF found = {} THEN Goto(q, "text")
       ELSE \E e \in found : call' = [call EXCEPT ![q].pc = "resolve", ![q].hit = e[2]]
    /\ Stored /\ UNCHANGED faults

\* Mutant: an entry that leads nowhere is taken for the answer.
Resolve_trusted(q) ==
    /\ call[q].pc = "resolve"
    /\ IF doc[call[q].hit].rm = call[q].rm
       THEN call' = [call EXCEPT ![q].pc = "done", ![q].best = Snapshot(call[q].hit)]
       ELSE Goto(q, "done")
    /\ Stored /\ UNCHANGED faults

Resolve(q) ==
    /\ call[q].pc = "resolve"
    /\ IF doc[call[q].hit].rm = call[q].rm
       THEN call' = [call EXCEPT ![q].pc = "done", ![q].best = Snapshot(call[q].hit)]
       ELSE Goto(q, "text")
    /\ Stored /\ UNCHANGED faults

\* Whoever a query finds is added to the hash.
Found(q, c) == call' = [call EXCEPT ![q].pc = "hset", ![q].best = Snapshot(c)]

\* The first of the hits, sorted by their textScore.
TextSearch(q) ==
    /\ call[q].pc = "text"
    /\ LET ask  == call[q].ask
           hits == TextHits(call[q].rm, ask) IN
       \/ hits = {} /\ Goto(q, "regex")
       \/ \E c \in hits : /\ \A d \in hits : ~Outscores(ask, doc[d].who, doc[c].who)
                         /\ Found(q, c)
    /\ Stored /\ UNCHANGED faults

\* Any client that matches; a pattern that is no regular expression finds nobody.
RegexSearch(q) ==
    /\ call[q].pc = "regex"
    /\ \E hits \in SUBSET ClientsOf(call[q].rm) :
          /\ Plain(call[q].ask) => hits = RegexHits(call[q].rm, call[q].ask)
          /\ \/ hits = {} /\ Goto(q, "fuzzy")
             \/ \E c \in hits : Found(q, c)
    /\ Stored /\ UNCHANGED faults

\* Of the RM's clients as many as the limit allows are compared; which is up to MongoDB.
FuzzySearch(q) ==
    /\ call[q].pc = "fuzzy"
    /\ \E seen \in SUBSET ClientsOf(call[q].rm) :
          /\ \/ Cardinality(seen) = FuzzyLimit
             \/ seen = ClientsOf(call[q].rm) /\ Cardinality(seen) <= FuzzyLimit
          /\ LET ask  == call[q].ask
                 hits == FuzzyHits(seen, ask)
                 Near(c) == Similarity(ask, doc[c].who.name)
             IN \/ /\ hits = {}
                   /\ call' = [call EXCEPT ![q].pc = "done", ![q].failed =
                         @ \cup IF seen = ClientsOf(call[q].rm) THEN {} ELSE {"fuzzy"}]
                \/ \E c \in hits : (\A d \in hits : Near(d) <= Near(c)) /\ Found(q, c)
    /\ Stored /\ UNCHANGED faults

\* Each error is logged and the next stage tried; the first two share one catch.
StageFails(q) ==
    /\ Fault
    /\ \E step \in {<<"hget", "text">>, <<"resolve", "text">>, <<"text", "regex">>,
                    <<"regex", "fuzzy">>, <<"fuzzy", "done">>} :
          /\ call[q].pc = step[1]
          /\ call' = [call EXCEPT ![q].pc = step[2], ![q].failed = @ \cup {step[1]}]
    /\ Stored

\* HSET gives a key that did not exist no time to live, and leaves an existing one its own.
Put(r, entries) ==
    /\ hash' = [hash EXCEPT ![r] = {e \in @ : \A f \in entries : e[1] # f[1]} \cup entries]
    /\ mortal' = [mortal EXCEPT ![r] = @ /\ hash[r] # {}]

\* Mutant: the client is entered under the name that was asked for.
HSet_asAsked(q) ==
    /\ call[q].pc = "hset"
    /\ Put(call[q].rm, {<<call[q].ask, call[q].best.id>>})
    /\ Goto(q, "expire")
    /\ UNCHANGED <<doc, bore, made, changes, faults>>

HSet(q) ==
    /\ call[q].pc = "hset"
    /\ Put(call[q].rm, {<<call[q].best.who.name, call[q].best.id>>})
    /\ Goto(q, "expire")
    /\ UNCHANGED <<doc, bore, made, changes, faults>>

\* The RM's clients as one query returns them; without any, nothing is written.
Scan(q) ==
    /\ call[q].pc = "scan"
    /\ call' = [call EXCEPT ![q].list = {Snapshot(c) : c \in ClientsOf(call[q].rm)},
                            ![q].pc = IF ClientsOf(call[q].rm) = {} THEN "done" ELSE "hsetall"]
    /\ Stored /\ UNCHANGED faults

\* Of clients with the same name the last one listed stays.
HSetAll(q) ==
    /\ call[q].pc = "hsetall"
    /\ LET named == {s.who.name : s \in call[q].list} IN
       \E last \in [named -> call[q].list] :
          /\ \A n \in named : last[n].who.name = n
          /\ Put(call[q].rm, {<<n, last[n].id>> : n \in named})
    /\ call' = [call EXCEPT ![q].pc = "expire", ![q].list = {}]
    /\ UNCHANGED <<doc, bore, made, changes, faults>>

Expire(q) ==
    /\ call[q].pc = "expire"
    /\ mortal' = [mortal EXCEPT ![call[q].rm] = hash[call[q].rm] # {}]
    /\ Goto(q, "done")
    /\ UNCHANGED <<doc, hash, bore, made, changes, faults>>

\* A lookup answers all the same; a rebuild, and its scan, end in an error.
WriteFails(q) ==
    /\ Fault
    /\ call[q].pc \in {"hset", "expire", "scan", "hsetall"}
    /\ Goto(q, "done")
    /\ Stored
-----------------------------------------------------------------------------
(* Around the service *)

\* The sync stores a client as the CRM has him now, perhaps renamed or with another RM.
SyncClient(c) ==
    /\ changes < MaxChanges /\ changes' = changes + 1
    /\ \E d \in [rm : RMs, who : Persons] :
          /\ d # doc[c]
          /\ doc' = [doc EXCEPT ![c] = d]
          /\ bore' = [bore EXCEPT ![c] = @ \cup {<<d.rm, d.who.name>>}]
          /\ call' = [q \in Calls |-> [call[q] EXCEPT !.there =
                IF d.rm = call[q].rm /\ d.who.name = call[q].ask THEN @ ELSE @ \ {c}]]
    /\ UNCHANGED <<hash, mortal, made, faults>>

\* The time to live runs out: an hour after the last EXPIRE, whatever was read meanwhile.
HashExpires(r) ==
    /\ mortal[r]
    /\ hash' = [hash EXCEPT ![r] = {}]
    /\ mortal' = [mortal EXCEPT ![r] = FALSE]
    /\ UNCHANGED <<doc, call, bore, made, changes, faults>>

LookupCrash ==
    /\ Fault
    /\ \E q \in Calls : call[q].pc # "done"
    /\ call' = [q \in Calls |-> Idle]
    /\ Stored

LookupNext ==
    \/ \E q \in Calls :
          \/ FindClientByName(q) \/ BuildLookupMaps(q)
          \/ HGet(q) \/ Resolve(q) \/ TextSearch(q) \/ RegexSearch(q) \/ FuzzySearch(q)
          \/ HSet(q) \/ Scan(q) \/ HSetAll(q) \/ Expire(q)
          \/ StageFails(q) \/ WriteFails(q)
    \/ \E c \in Clients : SyncClient(c)
    \/ \E r \in RMs : HashExpires(r)
    \/ LookupCrash

LookupSpec == LookupInit /\ [][LookupNext]_lvars
-----------------------------------------------------------------------------
Answered(q) == call[q].pc \in {"done", "hset", "expire"} /\ call[q].best # NoDoc
Missed(q)   == call[q].pc = "done" /\ call[q].ask # <<>> /\ call[q].best = NoDoc

\* Why a query answers with somebody.
Matches(ask, p) ==
    \/ ByName(ask, p) \/ ByOthers(ask, p) \/ Fits(p.name, ask) \/ ~Plain(ask)
    \/ Similarity(ask, p.name) >= 70

\* Where the text search may name him although somebody else bears the very name: it is
\* blind to the order of the words and to stop words, and adds what the mail address or
\* the PAN scores to a part of the name.
Confusable(ask, p) ==
    Words(ask) \in {{}, Words(p.name)} \/ (ByName(ask, p) /\ ByOthers(ask, p))

\* However old the hash is, whoever is answered with was a client of the asking RM when
\* read, and bears the name asked for, or bore it with this RM once, or matches it; one
\* who merely matches is named only where nobody had that very name throughout the
\* request, or the text search failed or cannot tell the two apart.
RightClient == \A q \in Calls : Answered(q) =>
    LET best == call[q].best IN
    /\ best.rm = call[q].rm
    /\ \/ <<call[q].rm, call[q].ask>> \in bore[best.id]
       \/ /\ Matches(call[q].ask, best.who)
          /\ \/ call[q].there = {}
             \/ "text" \in call[q].failed
             \/ Confusable(call[q].ask, best.who)

\* A client who had the name throughout the request is missed, whatever the hash says and
\* whoever is renamed meanwhile, only if each of the three queries had its own reason: an
\* error or nothing but stop words, an error or special letters, an error or more clients
\* than the last one compares.
FoundIfThere == \A q \in Calls : Missed(q) =>
    \/ call[q].there = {}
    \/ /\ "text" \in call[q].failed \/ Words(call[q].ask) = {}
       /\ "regex" \in call[q].failed \/ ~Plain(call[q].ask)
       /\ "fuzzy" \in call[q].failed
=============================================================================
