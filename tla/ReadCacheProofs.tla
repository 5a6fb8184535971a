--------------------------- MODULE ReadCacheProofs ---------------------------
(***************************************************************************)
(* Proofs about ReadCache, for any TTLs, any number of requests at a time, *)
(* any figures and any of the modelled failures.                           *)
(***************************************************************************)
EXTENDS ReadCache, FiniteSetTheorems, TLAPS

\* A path has one or two keys.
LEMMA PathParts ==
    ASSUME NEW s \in DOMAIN Paths, NEW w \in Paths[s]
    PROVE  Len(w) \in {1, 2} /\ DOMAIN w = 1 .. Len(w) /\ \A i \in DOMAIN w : i \in 1 .. 2 /\ w[i] \in Keys
<1>1. \/ \E k \in Keys : w = <<k>>
      \/ \E k, l \in Keys : w = <<k, l>>
  BY DEF Paths, Keys
<1> HIDE DEF Keys
<1>2. ASSUME NEW k \in Keys, w = <<k>>
      PROVE  Len(w) \in {1, 2} /\ DOMAIN w = 1 .. Len(w) /\ \A i \in DOMAIN w : i \in 1 .. 2 /\ w[i] \in Keys
  BY <1>2
<1>3. ASSUME NEW k \in Keys, NEW l \in Keys, w = <<k, l>>
      PROVE  Len(w) \in {1, 2} /\ DOMAIN w = 1 .. Len(w) /\ \A i \in DOMAIN w : i \in 1 .. 2 /\ w[i] \in Keys
  BY <1>3
<1> QED
  BY <1>1, <1>2, <1>3

\* No key is on two paths of a screen, or twice on one.
LEMMA OnePlace ==
    ASSUME NEW s \in DOMAIN Paths, NEW w \in Paths[s], NEW v \in Paths[s],
           NEW i \in DOMAIN w, NEW j \in DOMAIN v, w[i] = v[j]
    PROVE  w = v /\ i = j
BY DEF Paths, Keys

LEMMA PathsExist ==
    ASSUME NEW s \in DOMAIN Paths
    PROVE  Paths[s] # {}
<1>1. /\ <<"daily:activity">> \in Paths["activity"] /\ <<"engagement">> \in Paths["engagement"]
      /\ <<"actions:ranked", "actions">> \in Paths["actions"]
      /\ <<"briefing:ranked", "briefing">> \in Paths["briefing"]
      /\ <<"perf:peer">> \in Paths["strengths"]
  BY DEF Paths
<1>2. s \in {"activity", "actions", "briefing", "engagement", "strengths"}
  BY DEF Paths
<1> QED
  BY <1>1, <1>2

-----------------------------------------------------------------------------
(* The invariant *)

Leg == [pc : {"get", "fetch", "set", "done", "failed"}, depth : 0 .. 2,
        value : Values \cup {None}, bypass : BOOLEAN]

\* The values the variables range over.
TypeOK ==
    /\ screen \in DOMAIN Paths
    /\ store \in [Keys -> Slots \cup {None}]
    /\ legs \in [Readers -> {<<>>} \cup [Paths[screen] -> Leg]]
    /\ running \in [Readers -> 0 .. Span]
    /\ figure \in Figures
    /\ settled \in Nat
    /\ excused \in BOOLEAN

\* A leg that reads or writes a key has a place on its path, and one that has a value to
\* hand on is on its way outwards.
OnPath(w, leg) ==
    /\ leg.depth <= Len(w)
    /\ leg.pc \in {"get", "set"} => leg.depth \in DOMAIN w
    /\ leg.pc \in {"set", "done"} => leg.value \in Values
    /\ leg.pc = "done" => leg.depth = 0
LegsOK == \A p \in Readers : \A w \in DOMAIN legs[p] : OnPath(w, legs[p][w])

Carries(p, w) == w \in DOMAIN legs[p] /\ legs[p][w].pc \in {"set", "done"}

\* Up to which age a value may get in the keys from place i inwards.
Within(w, i) == IF i = 1 THEN Stays(w, 1) + Stays(w, 2) ELSE IF i = 2 THEN Stays(w, 2) ELSE 0

\* No value is older than the keys it was in and the requests that moved it account for.
AgesOK ==
    /\ \A w \in Paths[screen] : \A i \in DOMAIN w : LET c == store[w[i]] IN
          c # None => /\ c.left \in 1 .. Ttl[w[i]]
                      /\ c.value.age <= Within(w, i + 1) + Span + Ttl[w[i]] - c.left
    /\ \A p \in Readers : Idle(p) => running[p] = 0
    /\ \A p \in Readers : \A w \in Paths[screen] :
          Carries(p, w) => legs[p][w].value.age <= running[p] + Within(w, legs[p][w].depth + 1)

\* What is younger than the last change of the figure is the figure.
Current(v) == v.figure \in Figures /\ (v.age < settled => v.figure = figure)
FreshOK ==
    screen = "strengths" =>
        /\ \A w \in Paths[screen] : \A i \in DOMAIN w : store[w[i]] # None => Current(store[w[i]].value)
        /\ \A p \in Readers : \A w \in Paths[screen] : Carries(p, w) => Current(legs[p][w].value)

\* Until the briefing may change, all that is answered and about to be answered is what
\* the outer key holds, and the key holds it for the whole of its TTL.
Ranked == "briefing:ranked"
Arrived(p, w) == w \in DOMAIN legs[p] /\ legs[p][w].pc = "done"
FixedOK ==
    /\ screen # "briefing" \/ excused => shown = {}
    /\ screen = "briefing" /\ ~excused =>
        /\ store[Ranked] = None =>
              shown = {} /\ \A p \in Readers : \A w \in Paths[screen] : ~Arrived(p, w)
        /\ store[Ranked] # None =>
              /\ shown \subseteq {store[Ranked].value.figure}
              /\ store[Ranked].value.age + store[Ranked].left >= Ttl[Ranked]
              /\ \A p \in Readers : \A w \in Paths[screen] :
                    Arrived(p, w) => legs[p][w].value.figure = store[Ranked].value.figure

CacheInv == TypeOK /\ LegsOK /\ AgesOK /\ FreshOK /\ FixedOK

LEMMA Assumed ==
    /\ Ttl \in [Keys -> Nat \ {0}] /\ Span \in Nat \ {0} /\ Horizon \in Nat
    /\ None \notin Values /\ None \notin Slots
BY CacheAssumption

\* Initially there is nothing to say.
LEMMA CacheInvInit == CacheInit => CacheInv
<1> SUFFICES ASSUME CacheInit PROVE CacheInv
  OBVIOUS
<1>1. TypeOK
  <2>1. store \in [Keys -> Slots \cup {None}] /\ running \in [Readers -> 0 .. Span]
    BY Assumed DEF CacheInit
  <2>2. legs \in [Readers -> {<<>>} \cup [Paths[screen] -> Leg]]
    BY DEF CacheInit
  <2> QED
    BY <2>1, <2>2, Assumed DEF CacheInit, TypeOK
<1>2. \A p \in Readers : legs[p] = <<>> /\ DOMAIN legs[p] = {}
  BY DEF CacheInit
<1>3. \A k \in Keys : store[k] = None
  BY DEF CacheInit
<1>4. LegsOK
  BY <1>2 DEF LegsOK
<1>5. AgesOK
  <2>1. \A w \in Paths[screen] : \A i \in DOMAIN w : store[w[i]] = None
    BY <1>1, <1>3, PathParts DEF TypeOK
  <2> QED
    BY <1>2, <2>1 DEF AgesOK, Carries, CacheInit
<1>6. FreshOK
  <2>1. \A w \in Paths[screen] : \A i \in DOMAIN w : store[w[i]] = None
    BY <1>1, <1>3, PathParts DEF TypeOK
  <2> QED
    BY <1>2, <2>1 DEF FreshOK, Carries
<1>7. FixedOK
  BY <1>2, <1>3 DEF FixedOK, Arrived, CacheInit, Ranked, Keys
<1> QED
  BY <1>1, <1>4, <1>5, <1>6, <1>7 DEF CacheInv

-----------------------------------------------------------------------------
(* The steps of a leg *)

\* What a leg hands on it has found, fetched or had before.
Handed(p, w, v, d) ==
    \/ d + 1 \in DOMAIN w /\ store[w[d + 1]] # None /\ v = store[w[d + 1]].value
       /\ legs[p][w].pc = "get" /\ legs[p][w].depth = d + 1
    \/ /\ legs[p][w].pc = "fetch" /\ d \in {Len(w) - 1, Len(w)} /\ v \in Values /\ v.age = 0
       /\ d = Len(w) - 1 => legs[p][w].bypass
       /\ v.figure # figure => w[Len(w)] \in Swallows
    \/ legs[p][w].pc = "set" /\ legs[p][w].depth = d + 1 /\ v = legs[p][w].value

\* Only a leg that hands on a value stores it.
Stored(p, w) ==
    \/ UNCHANGED store
    \/ /\ legs[p][w].pc = "set"
       /\ store' = [store EXCEPT ![w[legs[p][w].depth]] =
                      [value |-> legs[p][w].value, left |-> Ttl[w[legs[p][w].depth]]]]

LEMMA UpwardsIs ==
    ASSUME NEW d, NEW v
    PROVE  /\ Upwards(d, v).depth = d /\ Upwards(d, v).value = v
           /\ Upwards(d, v).pc = IF d = 0 THEN "done" ELSE "set"
           /\ (d \in 0 .. 2 /\ v \in Values => Upwards(d, v) \in Leg)
BY DEF Upwards, Leg

\* One leg moves; it stays on its path, and what it hands on comes from somewhere.
LEMMA LegMoves ==
    ASSUME CacheInv, NEW p \in Readers, NEW w \in Paths[screen], LegStep(p, w)
    PROVE  /\ w \in DOMAIN legs[p] /\ ~Idle(p) /\ legs[p] \in [Paths[screen] -> Leg]
           /\ \E leg \in Leg :
                /\ legs' = [legs EXCEPT ![p] = [@ EXCEPT ![w] = leg]]
                /\ OnPath(w, leg)
                /\ leg.pc \in {"set", "done"} => Handed(p, w, leg.value, leg.depth)
           /\ Stored(p, w)
           /\ UNCHANGED <<screen, running, figure, settled>>
<1> DEFINE l == legs[p][w]
           Goal(leg) == /\ leg \in Leg /\ legs' = [legs EXCEPT ![p] = [@ EXCEPT ![w] = leg]]
                        /\ OnPath(w, leg)
                        /\ leg.pc \in {"set", "done"} => Handed(p, w, leg.value, leg.depth)
<1>1. w \in DOMAIN legs[p] /\ ~Idle(p) /\ l.pc \in {"get", "fetch", "set"} /\ UNCHANGED <<screen, running, figure, settled>>
  BY DEF LegStep, Get, GetFails, Fetch, FetchFails, Set, SetFails, At, history
<1>2. legs[p] \in [Paths[screen] -> Leg]
  BY <1>1 DEF CacheInv, TypeOK, Idle
<1>3. l \in Leg /\ OnPath(w, l)
  BY <1>1, <1>2 DEF CacheInv, LegsOK
<1>4. Len(w) \in {1, 2} /\ DOMAIN w = 1 .. Len(w) /\ \A i \in DOMAIN w : w[i] \in Keys
  BY PathParts DEF CacheInv, TypeOK
<1>5. Key(p, w) = w[l.depth]
  BY DEF Key
<1>6. \A k \in Keys : store[k] # None => store[k].value \in Values
  BY DEF CacheInv, TypeOK, Slots
<1>7. Stored(p, w)
  BY <1>1, <1>5 DEF LegStep, Get, GetFails, Fetch, FetchFails, Set, SetFails, At, Stored
<1>8. \E leg : Goal(leg)
  <2>1. CASE Get(p, w) /\ store[Key(p, w)] # None
    <3> DEFINE k == Upwards(l.depth - 1, store[Key(p, w)].value)
    <3>1. l.pc = "get" /\ l.depth \in DOMAIN w /\ l.depth - 1 \in 0 .. 2
      BY <2>1, <1>3, <1>4 DEF Get, At, OnPath, Leg
    <3>2. legs' = [legs EXCEPT ![p] = [@ EXCEPT ![w] = k]]
      BY <2>1, <1>2 DEF Get, Move
    <3>3. k \in Leg /\ k.depth = l.depth - 1 /\ k.value = store[w[l.depth]].value
          /\ k.value \in Values /\ (k.pc = "done" => k.depth = 0) /\ k.pc # "get" /\ (k.pc = "set" => k.depth # 0)
      <4>1. store[w[l.depth]].value \in Values
        BY <3>1, <2>1, <1>4, <1>5, <1>6
      <4> QED
        BY <3>1, <4>1, <1>5, UpwardsIs
    <3> HIDE DEF k
    <3>4. OnPath(w, k)
      BY <3>1, <3>3, <1>4 DEF OnPath, Leg
    <3>5. Handed(p, w, k.value, k.depth)
      BY <3>1, <3>3, <2>1, <1>4, <1>5 DEF Handed
    <3> QED
      BY <3>2, <3>3, <3>4, <3>5
  <2>2. CASE (Get(p, w) \/ GetFails(p, w)) /\ legs' = [legs EXCEPT ![p][w] = Missed(w, l)]
    <3> DEFINE k == Missed(w, l)
    <3>1. l.pc = "get" /\ l.depth \in DOMAIN w
      BY <2>2, <1>3 DEF Get, GetFails, At, OnPath
    <3>2. legs' = [legs EXCEPT ![p] = [@ EXCEPT ![w] = k]]
      BY <2>2, <1>2
    <3>3. k \in Leg /\ OnPath(w, k) /\ k.pc \in {"get", "fetch"}
      <4>1. CASE l.depth < Len(w)
        <5>1. k = [l EXCEPT !.depth = l.depth + 1]
          BY <4>1 DEF Missed
        <5>2. l.depth + 1 \in 0 .. 2 /\ l.depth + 1 \in DOMAIN w
          <6> DEFINE n == l.depth
          <6>1. n \in 1 .. Len(w) /\ n < Len(w) /\ DOMAIN w = 1 .. Len(w) /\ (Len(w) = 1 \/ Len(w) = 2)
            BY <3>1, <1>4, <4>1
          <6> HIDE DEF n
          <6>2. n + 1 \in 0 .. 2 /\ n + 1 \in DOMAIN w
            BY <6>1
          <6> QED
            BY <6>2 DEF n
        <5> HIDE DEF k
        <5> QED
          BY <5>1, <5>2, <3>1, <1>3, <1>4 DEF Leg, OnPath
      <4>2. CASE ~(l.depth < Len(w))
        BY <4>2, <3>1, <1>3, <1>4 DEF Missed, Leg, OnPath
      <4> QED
        BY <4>1, <4>2
    <3> QED
      BY <3>2, <3>3
  <2>3. CASE GetFails(p, w) /\ legs' = [legs EXCEPT ![p][w] = [l EXCEPT !.pc = "fetch", !.bypass = TRUE]]
    <3> DEFINE k == [l EXCEPT !.pc = "fetch", !.bypass = TRUE]
    <3>1. legs' = [legs EXCEPT ![p] = [@ EXCEPT ![w] = k]]
      BY <2>3, <1>2
    <3>2. k \in Leg /\ OnPath(w, k) /\ k.pc = "fetch"
      BY <1>3, <1>4 DEF Leg, OnPath
    <3> QED
      BY <3>1, <3>2
  <2>4. ASSUME NEW f \in Figures \cup {None}, l.pc = "fetch", legs' = [legs EXCEPT ![p][w] = Fetched(w, l, f)],
               f # figure => w[Len(w)] \in Swallows
        PROVE  \E leg : Goal(leg)
    <3> DEFINE v == [age |-> 0, figure |-> f]
               d == IF l.bypass THEN Len(w) - 1 ELSE Len(w)
               k == Upwards(d, v)
    <3>1. legs' = [legs EXCEPT ![p] = [@ EXCEPT ![w] = k]]
      BY <2>4, <1>2 DEF Fetched
    <3>2. v \in Values /\ v.age = 0 /\ v.figure = f
      BY DEF Values
    <3>3. d \in 0 .. 2 /\ d \in {Len(w) - 1, Len(w)} /\ (d = Len(w) - 1 => l.bypass)
      <4>1. CASE l.bypass
        BY <4>1, <1>4
      <4>2. CASE ~l.bypass
        <5>1. d = Len(w)
          BY <4>2
        <5>2. Len(w) = 1 \/ Len(w) = 2
          BY <1>4
        <5> HIDE DEF d
        <5> QED
          BY <5>1, <5>2
      <4> QED
        BY <4>1, <4>2
    <3> HIDE DEF v, d
    <3>4. k \in Leg /\ k.depth = d /\ k.value = v /\ k.pc # "get" /\ (k.pc = "done" => d = 0) /\ (k.pc = "set" => d # 0)
      BY <3>2, <3>3, UpwardsIs
    <3> HIDE DEF k
    <3>5. OnPath(w, k)
      BY <3>2, <3>3, <3>4, <1>4 DEF OnPath
    <3>6. Handed(p, w, k.value, k.depth)
      BY <3>2, <3>3, <3>4, <2>4 DEF Handed
    <3> QED
      BY <3>1, <3>4, <3>5, <3>6
  <2>5. CASE FetchFails(p, w) /\ \E b \in BOOLEAN : legs' = [legs EXCEPT ![p][w] = [l EXCEPT !.bypass = TRUE]]
                                                   \/ legs' = [legs EXCEPT ![p][w] = [l EXCEPT !.pc = "failed"]]
    <3>1. PICK k \in {[l EXCEPT !.bypass = TRUE], [l EXCEPT !.pc = "failed"]} :
             legs' = [legs EXCEPT ![p] = [@ EXCEPT ![w] = k]]
      BY <2>5, <1>2
    <3>2. l.pc = "fetch"
      BY <2>5 DEF FetchFails, At
    <3>3. k \in Leg /\ OnPath(w, k) /\ k.pc \in {"fetch", "failed"}
      BY <1>3, <3>2 DEF Leg, OnPath
    <3> QED
      BY <3>1, <3>3
  <2>6. CASE Set(p, w) \/ SetFails(p, w)
    <3> DEFINE k == Upwards(l.depth - 1, l.value)
    <3>1. l.pc = "set" /\ l.depth \in DOMAIN w /\ l.depth - 1 \in 0 .. 2 /\ l.value \in Values
      BY <2>6, <1>3, <1>4 DEF Set, SetFails, At, OnPath, Leg
    <3>2. legs' = [legs EXCEPT ![p] = [@ EXCEPT ![w] = k]]
      BY <2>6, <1>2 DEF Set, SetFails, Move
    <3>3. k \in Leg /\ k.depth = l.depth - 1 /\ k.value = l.value
          /\ (k.pc = "done" => k.depth = 0) /\ k.pc # "get" /\ (k.pc = "set" => k.depth # 0)
      BY <3>1, UpwardsIs
    <3> HIDE DEF k
    <3>4. OnPath(w, k)
      BY <3>1, <3>3, <1>4 DEF OnPath, Leg
    <3>5. Handed(p, w, k.value, k.depth)
      BY <3>1, <3>3, <1>4 DEF Handed
    <3> QED
      BY <3>2, <3>3, <3>4, <3>5
  <2>7. CASE Get(p, w)
    BY <2>1, <2>2, <2>7 DEF Get, Move
  <2>8. CASE GetFails(p, w)
    BY <2>2, <2>3, <2>8 DEF GetFails, Move
  <2>9. CASE Fetch(p, w)
    BY <2>4, <2>9 DEF Fetch, Move, CacheInv, TypeOK, At
  <2>10. CASE FetchFails(p, w)
    <3>1. CASE w[Len(w)] \in Swallows
      BY <2>4, <2>10, <3>1 DEF FetchFails, Move, At
    <3>2. CASE w[Len(w)] \notin Swallows
      BY <2>5, <2>10, <3>2 DEF FetchFails, Move
    <3> QED
      BY <3>1, <3>2
  <2> QED
    BY <2>6, <2>7, <2>8, <2>9, <2>10 DEF LegStep
<1> QED
  BY <1>1, <1>2, <1>7, <1>8

\* What the outer key decides, it decides for the history alone.
LEMMA ExcuseIs ==
    ASSUME NEW k, Excuse(k), excused \in BOOLEAN
    PROVE  /\ excused' \in BOOLEAN
           /\ \/ UNCHANGED <<excused, shown>> /\ k # Ranked
              \/ excused' = TRUE /\ shown' = {} /\ k = Ranked
BY DEF Excuse, Ranked

\* What one leg does leaves all others alone.
LEMMA OtherLegs ==
    ASSUME NEW p, NEW w, NEW leg, legs \in [Readers -> {<<>>} \cup [Paths[screen] -> Leg]],
           p \in Readers, legs[p] \in [Paths[screen] -> Leg], w \in Paths[screen], leg \in Leg,
           legs' = [legs EXCEPT ![p] = [@ EXCEPT ![w] = leg]]
    PROVE  /\ legs' \in [Readers -> {<<>>} \cup [Paths[screen] -> Leg]]
           /\ legs'[p][w] = leg
           /\ \A q \in Readers : DOMAIN legs'[q] = DOMAIN legs[q] /\ (Idle(q)' <=> Idle(q))
           /\ \A q \in Readers : \A v \in DOMAIN legs[q] :
                 q # p \/ v # w => legs'[q][v] = legs[q][v]
<1> DEFINE f == [legs[p] EXCEPT ![w] = leg]
<1>1. f \in [Paths[screen] -> Leg] /\ f[w] = leg /\ \A v \in Paths[screen] : v # w => f[v] = legs[p][v]
  OBVIOUS
<1>2. legs' = [legs EXCEPT ![p] = f]
  OBVIOUS
<1> HIDE DEF f
<1>3. legs'[p] = f /\ \A q \in Readers : q # p => legs'[q] = legs[q]
  BY <1>2
<1>4. DOMAIN f = Paths[screen] /\ DOMAIN legs[p] = Paths[screen]
  BY <1>1
<1>5. legs[p] # <<>> /\ f # <<>>
  BY <1>4
<1>6. legs' \in [Readers -> {<<>>} \cup [Paths[screen] -> Leg]]
  BY <1>1, <1>2
<1> QED
  BY <1>1, <1>3, <1>4, <1>5, <1>6 DEF Idle

LEMMA TypeStep == CacheInv /\ [CacheNext]_cvars => TypeOK' /\ LegsOK'
<1> SUFFICES ASSUME CacheInv, [CacheNext]_cvars
             PROVE  TypeOK' /\ LegsOK'
  OBVIOUS
<1>0. TypeOK /\ LegsOK
  BY DEF CacheInv
<1>1. ASSUME NEW p \in Readers, Begin(p)
      PROVE  TypeOK' /\ LegsOK'
  <2> DEFINE leg == [pc |-> "get", depth |-> 1, value |-> None, bypass |-> FALSE]
  <2>1. leg \in Leg
    BY DEF Leg
  <2>2. \A w \in Paths[screen] : OnPath(w, leg)
    BY <1>0, PathParts DEF OnPath, TypeOK
  <2>3. legs' = [legs EXCEPT ![p] = [w \in Paths[screen] |-> leg]] /\ UNCHANGED <<screen, store, running, figure, settled, excused>>
    BY <1>1 DEF Begin, history
  <2> HIDE DEF leg
  <2>4. legs' \in [Readers -> {<<>>} \cup [Paths[screen] -> Leg]]
    BY <1>0, <2>1, <2>3 DEF TypeOK
  <2>5. TypeOK'
    BY <1>0, <2>3, <2>4 DEF TypeOK
  <2>6. ASSUME NEW q \in Readers, NEW w \in DOMAIN legs'[q]
        PROVE  OnPath(w, legs'[q][w])
    <3>1. CASE q = p
      BY <3>1, <2>2, <2>3, <2>6, <1>0 DEF TypeOK
    <3>2. CASE q # p
      BY <3>2, <2>3, <2>6, <1>0 DEF TypeOK, LegsOK
    <3> QED
      BY <3>1, <3>2
  <2> QED
    BY <2>5, <2>6 DEF LegsOK, OnPath
<1>2. ASSUME NEW p \in Readers, NEW w \in Paths[screen], LegStep(p, w)
      PROVE  TypeOK' /\ LegsOK'
  <2>1. PICK leg \in Leg : /\ legs' = [legs EXCEPT ![p] = [@ EXCEPT ![w] = leg]]
                           /\ OnPath(w, leg)
    BY <1>2, LegMoves
  <2>2. Stored(p, w) /\ UNCHANGED <<screen, running, figure, settled>> /\ legs[p] \in [Paths[screen] -> Leg]
    BY <1>2, LegMoves
  <2>3. /\ legs' \in [Readers -> {<<>>} \cup [Paths[screen] -> Leg]]
        /\ legs'[p][w] = leg
        /\ \A q \in Readers : DOMAIN legs'[q] = DOMAIN legs[q]
        /\ \A q \in Readers : \A v \in DOMAIN legs[q] : q # p \/ v # w => legs'[q][v] = legs[q][v]
    BY <1>0, <2>1, <2>2, OtherLegs DEF TypeOK
  <2>4. store' \in [Keys -> Slots \cup {None}]
    <3>1. CASE UNCHANGED store
      BY <3>1, <1>0 DEF TypeOK
    <3>2. CASE legs[p][w].pc = "set" /\ store' = [store EXCEPT ![w[legs[p][w].depth]] =
                      [value |-> legs[p][w].value, left |-> Ttl[w[legs[p][w].depth]]]]
      <4> DEFINE k == w[legs[p][w].depth]
                 c == [value |-> legs[p][w].value, left |-> Ttl[k]]
      <4>1. legs[p][w].value \in Values /\ legs[p][w].depth \in DOMAIN w
        BY <1>0, <2>2, <3>2 DEF LegsOK, OnPath
      <4>2. k \in Keys
        BY <4>1, <1>0, PathParts DEF TypeOK
      <4>3. c \in Slots
        BY <4>1, <4>2, Assumed DEF Slots
      <4> HIDE DEF c
      <4>4. store' = [store EXCEPT ![k] = c]
        BY <3>2 DEF c
      <4> QED
        BY <4>2, <4>3, <4>4, <1>0 DEF TypeOK
    <3> QED
      BY <3>1, <3>2, <2>2 DEF Stored
  <2>5. excused' \in BOOLEAN
    BY <1>0, <1>2, ExcuseIs DEF LegStep, Get, GetFails, Fetch, FetchFails, Set, SetFails, history, TypeOK
  <2>6. TypeOK'
    BY <1>0, <2>2, <2>3, <2>4, <2>5 DEF TypeOK
  <2>7. LegsOK'
    <3>1. \A q \in Readers : \A v \in DOMAIN legs'[q] : OnPath(v, legs'[q][v])
      BY <1>0, <2>1, <2>3 DEF LegsOK
    <3> QED
      BY <3>1 DEF LegsOK, OnPath
  <2> QED
    BY <2>6, <2>7
<1>3. ASSUME NEW p \in Readers, Respond(p)
      PROVE  TypeOK' /\ LegsOK'
  <2>1. legs' = [legs EXCEPT ![p] = <<>>] /\ running' = [running EXCEPT ![p] = 0]
        /\ UNCHANGED <<screen, store, figure, settled, excused>>
    BY <1>3 DEF Respond
  <2>2. TypeOK'
    BY <1>0, <2>1, Assumed DEF TypeOK
  <2>3. \A q \in Readers : legs'[q] = legs[q] \/ legs'[q] = <<>>
    BY <1>0, <2>1 DEF TypeOK
  <2>4. \A q \in Readers : \A v \in DOMAIN legs'[q] : OnPath(v, legs'[q][v])
    BY <1>0, <2>3 DEF LegsOK
  <2> QED
    BY <2>2, <2>4 DEF LegsOK, OnPath
<1>4. CASE Change
  <2>1. figure' \in Figures /\ settled' \in Nat /\ UNCHANGED <<screen, store, legs, running, excused>>
    BY <1>0, <1>4 DEF Change, TypeOK
  <2>2. TypeOK'
    BY <1>0, <2>1 DEF TypeOK
  <2> QED
    BY <1>0, <2>1, <2>2 DEF LegsOK, OnPath
<1>5. CASE PassTime
  <2>1. \A v \in Values : Older(v) \in Values /\ Older(v).age = v.age + 1 /\ Older(v).figure = v.figure
    BY Assumed DEF Older, Values
  <2>2. Older(None) = None
    BY DEF Older
  <2>3. store' \in [Keys -> Slots \cup {None}]
    <3>1. ASSUME NEW k \in Keys
          PROVE  (IF store[k] = None \/ store[k].left = 1 THEN None
                  ELSE [value |-> Older(store[k].value), left |-> store[k].left - 1]) \in Slots \cup {None}
      <4>1. CASE store[k] = None \/ store[k].left = 1
        BY <4>1
      <4>2. CASE ~(store[k] = None \/ store[k].left = 1)
        <5>1. store[k] \in Slots
          BY <4>2, <1>0 DEF TypeOK
        <5> QED
          BY <5>1, <2>1, <4>2 DEF Slots
      <4> QED
        BY <4>1, <4>2
    <3> QED
      BY <3>1, <1>5 DEF PassTime
  <2>4. legs' = [p \in Readers |-> [w \in DOMAIN legs[p] |-> [legs[p][w] EXCEPT !.value = Older(legs[p][w].value)]]]
    BY <1>5 DEF PassTime
  <2>5. ASSUME NEW p \in Readers
        PROVE  /\ legs'[p] \in {<<>>} \cup [Paths[screen] -> Leg]
               /\ \A w \in DOMAIN legs'[p] : OnPath(w, legs'[p][w])
    <3>1. CASE legs[p] = <<>>
      <4>1. legs'[p] = [w \in {} |-> [legs[p][w] EXCEPT !.value = Older(legs[p][w].value)]]
        BY <2>4, <3>1
      <4>2. legs'[p] = <<>>
        BY <4>1
      <4> QED
        BY <4>2
    <3>2. CASE legs[p] \in [Paths[screen] -> Leg]
      <4>1. ASSUME NEW w \in Paths[screen]
            PROVE  /\ [legs[p][w] EXCEPT !.value = Older(legs[p][w].value)] \in Leg
                   /\ OnPath(w, [legs[p][w] EXCEPT !.value = Older(legs[p][w].value)])
        <5>1. legs[p][w] \in Leg /\ OnPath(w, legs[p][w])
          BY <1>0, <3>2 DEF LegsOK
        <5>2. Older(legs[p][w].value) \in Values \cup {None}
          BY <2>1, <2>2, <5>1 DEF Leg
        <5>3. legs[p][w].value \in Values => Older(legs[p][w].value) \in Values
          BY <2>1
        <5> QED
          BY <5>1, <5>2, <5>3 DEF Leg, OnPath
      <4>2. legs'[p] = [w \in Paths[screen] |-> [legs[p][w] EXCEPT !.value = Older(legs[p][w].value)]]
        BY <2>4, <3>2
      <4> QED
        BY <4>1, <4>2
    <3> QED
      BY <3>1, <3>2, <1>0 DEF TypeOK
  <2>6. legs' \in [Readers -> {<<>>} \cup [Paths[screen] -> Leg]]
    <3>1. DOMAIN legs' = Readers /\ legs' = [p \in Readers |-> legs'[p]]
      BY <2>4
    <3> QED
      BY <3>1, <2>5
  <2>7. \A p \in Readers : running'[p] \in 0 .. Span
    BY <1>0, <1>5, Assumed DEF PassTime, TypeOK
  <2>8. running' \in [Readers -> 0 .. Span]
    BY <2>7, <1>5 DEF PassTime
  <2>9. settled' \in Nat /\ excused' \in BOOLEAN /\ UNCHANGED <<screen, figure>>
    <3>1. settled' \in Nat /\ UNCHANGED <<screen, figure>>
      BY <1>0, <1>5 DEF PassTime, TypeOK
    <3>2. Excuse("briefing:ranked") \/ UNCHANGED <<excused, shown>>
      BY <1>5 DEF PassTime
    <3> QED
      BY <1>0, <3>1, <3>2, ExcuseIs DEF TypeOK
  <2>10. TypeOK'
    BY <1>0, <2>3, <2>6, <2>8, <2>9 DEF TypeOK
  <2> QED
    BY <2>5, <2>10 DEF LegsOK, OnPath
<1>6. ASSUME NEW k \in Keys, Forget(k)
      PROVE  TypeOK' /\ LegsOK'
  <2>1. store' = [store EXCEPT ![k] = None] /\ UNCHANGED <<screen, legs, running, figure, settled>> /\ excused' \in BOOLEAN
    BY <1>0, <1>6, ExcuseIs DEF Forget, TypeOK
  <2>2. TypeOK'
    BY <1>0, <2>1 DEF TypeOK
  <2> QED
    BY <1>0, <2>1, <2>2 DEF LegsOK, OnPath
<1>7. CASE CacheCrash
  <2>1. legs' = [p \in Readers |-> <<>>] /\ running' = [p \in Readers |-> 0]
        /\ UNCHANGED <<screen, store, figure, settled, excused>>
    BY <1>7 DEF CacheCrash, history
  <2>2. TypeOK'
    BY <1>0, <2>1, Assumed DEF TypeOK
  <2> QED
    BY <2>1, <2>2 DEF LegsOK
<1>8. CASE UNCHANGED cvars
  BY <1>0, <1>8 DEF cvars, history, TypeOK, LegsOK, OnPath, Stored
<1> QED
  BY <1>1, <1>2, <1>3, <1>4, <1>5, <1>6, <1>7, <1>8 DEF CacheNext, Serve

-----------------------------------------------------------------------------
(* Ages *)

\* What a key adds to the age of the values within.
LEMMA WithinAdds ==
    ASSUME NEW s \in DOMAIN Paths, NEW w \in Paths[s]
    PROVE  /\ \A i \in 1 .. 3 : Within(w, i) \in Nat
           /\ \A i \in DOMAIN w : Within(w, i) = Within(w, i + 1) + Ttl[w[i]] + Span - 1
           /\ \A i \in DOMAIN w : Ttl[w[i]] \in Nat \ {0}
           /\ Within(w, Len(w)) \in Nat /\ Within(w, Len(w) + 1) = 0
<1>1. Len(w) \in {1, 2} /\ DOMAIN w = 1 .. Len(w) /\ \A i \in DOMAIN w : w[i] \in Keys
  BY PathParts
<1>2. \A i \in DOMAIN w : Ttl[w[i]] \in Nat \ {0}
  BY <1>1, Assumed
<1>3. CASE Len(w) = 1
  <2>1. Stays(w, 1) = Ttl[w[1]] + Span - 1 /\ Stays(w, 2) = 0 /\ Stays(w, 1) \in Nat
    BY <1>1, <1>2, <1>3, Assumed DEF Stays
  <2> QED
    BY <1>1, <1>2, <1>3, <2>1 DEF Within
<1>4. CASE Len(w) = 2
  <2>1. /\ Stays(w, 1) = Ttl[w[1]] + Span - 1 /\ Stays(w, 2) = Ttl[w[2]] + Span - 1
        /\ Stays(w, 1) \in Nat /\ Stays(w, 2) \in Nat
    BY <1>1, <1>2, <1>4, Assumed DEF Stays
  <2>2. Within(w, 1) = Stays(w, 1) + Stays(w, 2) /\ Within(w, 2) = Stays(w, 2) /\ Within(w, 3) = 0
    BY DEF Within
  <2> HIDE DEF Within
  <2>3. \A i \in 1 .. 3 : Within(w, i) \in Nat
    BY <2>1, <2>2
  <2>4. \A i \in DOMAIN w : i = 1 \/ i = 2
    BY <1>1, <1>4
  <2>5. \A i \in DOMAIN w : Within(w, i) = Within(w, i + 1) + Ttl[w[i]] + Span - 1
    <3>1. Within(w, 1) = Within(w, 1 + 1) + Ttl[w[1]] + Span - 1
      BY <1>1, <1>2, <1>4, <2>1, <2>2, Assumed
    <3>2. Within(w, 2) = Within(w, 2 + 1) + Ttl[w[2]] + Span - 1
      BY <1>1, <1>2, <1>4, <2>1, <2>2, Assumed
    <3> QED
      BY <3>1, <3>2, <2>4
  <2> QED
    BY <1>2, <1>4, <2>1, <2>2, <2>3, <2>5
<1> QED
  BY <1>1, <1>3, <1>4

LEMMA AgesStep == CacheInv /\ [CacheNext]_cvars => AgesOK'
<1> SUFFICES ASSUME CacheInv, [CacheNext]_cvars
             PROVE  AgesOK'
  OBVIOUS
<1>0. TypeOK /\ LegsOK /\ AgesOK /\ TypeOK' /\ LegsOK'
  BY TypeStep DEF CacheInv
<1> DEFINE SlotAged(w, i) ==
      store[w[i]] # None =>
          /\ store[w[i]].left \in 1 .. Ttl[w[i]]
          /\ store[w[i]].value.age <= Within(w, i + 1) + Span + Ttl[w[i]] - store[w[i]].left
           LegAged(p, w) == Carries(p, w) => legs[p][w].value.age <= running[p] + Within(w, legs[p][w].depth + 1)
<1>a. ASSUME \A w \in Paths[screen]' : \A i \in DOMAIN w : SlotAged(w, i)',
             \A p \in Readers : Idle(p)' => running'[p] = 0,
             \A p \in Readers : \A w \in Paths[screen]' : LegAged(p, w)'
      PROVE  AgesOK'
  BY <1>a DEF AgesOK
<1>b. /\ \A w \in Paths[screen] : \A i \in DOMAIN w : SlotAged(w, i)
      /\ \A p \in Readers : Idle(p) => running[p] = 0
      /\ \A p \in Readers : \A w \in Paths[screen] : LegAged(p, w)
  BY <1>0 DEF AgesOK
<1>1. ASSUME NEW p \in Readers, Begin(p)
      PROVE  AgesOK'
  <2>1. legs' = [legs EXCEPT ![p] = [w \in Paths[screen] |-> [pc |-> "get", depth |-> 1, value |-> None, bypass |-> FALSE]]]
        /\ UNCHANGED <<screen, store, running, figure, settled, excused>> /\ Idle(p)
    BY <1>1 DEF Begin, history
  <2>2. \A q \in Readers : q # p => legs'[q] = legs[q]
    BY <2>1, <1>0 DEF TypeOK
  <2>3. \A w \in Paths[screen] : ~Carries(p, w)'
    BY <2>1, <1>0 DEF TypeOK, Carries
  <2>4. \A q \in Readers : Idle(q)' => running'[q] = 0
    BY <2>1, <2>2, <1>b DEF Idle
  <2>5. \A w \in Paths[screen]' : \A i \in DOMAIN w : SlotAged(w, i)'
    BY <2>1, <1>b
  <2>6. \A q \in Readers : \A w \in Paths[screen]' : LegAged(q, w)'
    BY <2>1, <2>2, <2>3, <1>b DEF Carries
  <2> QED
    BY <2>4, <2>5, <2>6, <1>a
<1>2. ASSUME NEW p \in Readers, NEW w \in Paths[screen], LegStep(p, w)
      PROVE  AgesOK'
  <2>1. PICK leg \in Leg : /\ legs' = [legs EXCEPT ![p] = [@ EXCEPT ![w] = leg]]
                           /\ OnPath(w, leg)
                           /\ leg.pc \in {"set", "done"} => Handed(p, w, leg.value, leg.depth)
    BY <1>2, LegMoves
  <2>2. Stored(p, w) /\ UNCHANGED <<screen, running, figure, settled>>
        /\ legs[p] \in [Paths[screen] -> Leg] /\ ~Idle(p)
    BY <1>2, LegMoves
  <2>3. /\ legs'[p][w] = leg
        /\ \A q \in Readers : DOMAIN legs'[q] = DOMAIN legs[q] /\ (Idle(q)' <=> Idle(q))
        /\ \A q \in Readers : \A v \in DOMAIN legs[q] : q # p \/ v # w => legs'[q][v] = legs[q][v]
    BY <1>0, <2>1, <2>2, OtherLegs DEF TypeOK
  <2>4. running[p] \in 0 .. Span /\ running[p] \in Nat /\ Span \in Nat
    BY <1>0, Assumed DEF TypeOK
  <2>5. /\ \A i \in 1 .. 3 : Within(w, i) \in Nat
        /\ \A i \in DOMAIN w : Within(w, i) = Within(w, i + 1) + Ttl[w[i]] + Span - 1
        /\ \A i \in DOMAIN w : Ttl[w[i]] \in Nat \ {0}
        /\ Within(w, Len(w)) \in Nat /\ Within(w, Len(w) + 1) = 0
    BY <1>0, WithinAdds DEF TypeOK
  <2>6. leg.pc \in {"set", "done"} => leg.value.age <= running[p] + Within(w, leg.depth + 1)
    <3> SUFFICES ASSUME leg.pc \in {"set", "done"}
                 PROVE  leg.value.age <= running[p] + Within(w, leg.depth + 1)
      OBVIOUS
    <3>0. leg.depth \in 0 .. 2 /\ leg.value \in Values
      BY <2>1 DEF OnPath, Leg
    <3>1. CASE leg.depth + 1 \in DOMAIN w /\ store[w[leg.depth + 1]] # None /\ leg.value = store[w[leg.depth + 1]].value
      <4> DEFINE i == leg.depth + 1
                 c == store[w[i]]
      <4>1. c.left \in 1 .. Ttl[w[i]] /\ c.value.age <= Within(w, i + 1) + Span + Ttl[w[i]] - c.left
        BY <3>1, <1>b
      <4>2. Within(w, i) = Within(w, i + 1) + Ttl[w[i]] + Span - 1 /\ Ttl[w[i]] \in Nat \ {0}
        BY <2>5, <3>1
      <4>3. i \in 1 .. 3 /\ i + 1 \in 1 .. 3
        <5>1. i \in 1 .. 2
          BY <3>1, PathParts, <1>0 DEF TypeOK
        <5> HIDE DEF i
        <5> QED
          BY <5>1
      <4>4. Within(w, i) \in Nat /\ Within(w, i + 1) \in Nat
        BY <4>3, <2>5
      <4>5. c.value.age \in Nat /\ leg.value.age = c.value.age
        BY <3>0, <3>1 DEF Values
      <4> HIDE DEF i, c
      <4>6. c.value.age <= running[p] + Within(w, i)
        BY <4>1, <4>2, <4>4, <4>5, <2>4
      <4> QED
        BY <4>5, <4>6 DEF i
    <3>2. CASE leg.depth \in {Len(w) - 1, Len(w)} /\ leg.value.age = 0
      <4>1. leg.depth + 1 \in {Len(w), Len(w) + 1}
        BY <3>0, <3>2, PathParts, <1>0 DEF TypeOK
      <4> QED
        BY <4>1, <3>2, <2>4, <2>5
    <3>3. CASE legs[p][w].pc = "set" /\ legs[p][w].depth = leg.depth + 1 /\ leg.value = legs[p][w].value
      <4> DEFINE i == leg.depth + 1
      <4>1. leg.value.age <= running[p] + Within(w, i + 1)
        BY <3>3, <1>b, <2>2 DEF Carries
      <4>2. i \in DOMAIN w
        BY <3>3, <1>0, <2>2 DEF LegsOK, OnPath
      <4>3. Within(w, i) = Within(w, i + 1) + Ttl[w[i]] + Span - 1 /\ Ttl[w[i]] \in Nat \ {0}
        BY <2>5, <4>2
      <4>4. Within(w, i) \in Nat /\ Within(w, i + 1) \in Nat
        <5>1. i \in 1 .. 2
          BY <4>2, PathParts, <1>0 DEF TypeOK
        <5> HIDE DEF i
        <5>2. i \in 1 .. 3 /\ i + 1 \in 1 .. 3
          BY <5>1
        <5> QED
          BY <5>2, <2>5
      <4>5. leg.value.age \in Nat
        BY <3>0 DEF Values
      <4> HIDE DEF i
      <4>6. leg.value.age <= running[p] + Within(w, i)
        BY <4>1, <4>3, <4>4, <4>5, <2>4, Assumed
      <4> QED
        BY <4>6 DEF i
    <3> QED
      BY <2>1, <3>1, <3>2, <3>3 DEF Handed
  <2>7. \A v \in Paths[screen]' : \A i \in DOMAIN v : SlotAged(v, i)'
    <3>1. CASE UNCHANGED store
      BY <3>1, <2>2, <1>b
    <3>2. CASE legs[p][w].pc = "set" /\ store' = [store EXCEPT ![w[legs[p][w].depth]] =
                      [value |-> legs[p][w].value, left |-> Ttl[w[legs[p][w].depth]]]]
      <4> DEFINE d == legs[p][w].depth
                 c == [value |-> legs[p][w].value, left |-> Ttl[w[d]]]
      <4>1. d \in DOMAIN w /\ legs[p][w].value \in Values
        BY <3>2, <1>0, <2>2 DEF LegsOK, OnPath
      <4>2. w[d] \in Keys /\ d + 1 \in 1 .. 3
        <5>1. w[d] \in Keys /\ d \in 1 .. 2
          BY <4>1, PathParts, <1>0 DEF TypeOK
        <5> HIDE DEF d
        <5> QED
          BY <5>1
      <4>3. c.value.age <= running[p] + Within(w, d + 1)
        BY <3>2, <1>b, <2>2 DEF Carries
      <4>4. c.left = Ttl[w[d]] /\ c.left \in Nat \ {0} /\ c.value.age \in Nat /\ Within(w, d + 1) \in Nat
        BY <4>1, <4>2, <2>5, Assumed DEF Values
      <4> HIDE DEF c, d
      <4>5. c.left \in 1 .. Ttl[w[d]] /\ c.value.age <= Within(w, d + 1) + Span + Ttl[w[d]] - c.left
        BY <4>3, <4>4, <2>4
      <4>6. store' = [store EXCEPT ![w[d]] = c]
        BY <3>2 DEF c, d
      <4>7. ASSUME NEW v \in Paths[screen], NEW i \in DOMAIN v
            PROVE  SlotAged(v, i)'
        <5>1. CASE v[i] = w[d]
          <6>1. v = w /\ i = d
            BY <5>1, <4>1, OnePlace, <1>0 DEF TypeOK
          <6>2. store'[w[d]] = c
            BY <4>2, <4>6, <1>0 DEF TypeOK
          <6> QED
            BY <6>1, <6>2, <4>5
        <5>2. CASE v[i] # w[d]
          <6>1. v[i] \in Keys
            BY PathParts, <1>0 DEF TypeOK
          <6>2. store'[v[i]] = store[v[i]]
            BY <5>2, <6>1, <4>6, <1>0 DEF TypeOK
          <6> QED
            BY <6>2, <1>b
        <5> QED
          BY <5>1, <5>2
      <4> QED
        BY <4>7, <2>2
    <3> QED
      BY <3>1, <3>2, <2>2 DEF Stored
  <2>8. \A q \in Readers : Idle(q)' => running'[q] = 0
    BY <2>2, <2>3, <1>b
  <2>9. ASSUME NEW q \in Readers, NEW v \in Paths[screen]
        PROVE  LegAged(q, v)'
    <3>1. CASE q = p /\ v = w
      BY <3>1, <2>2, <2>3, <2>6 DEF Carries
    <3>2. CASE ~(q = p /\ v = w)
      <4>1. v \in DOMAIN legs[q] => legs'[q][v] = legs[q][v]
        BY <3>2, <2>3
      <4> QED
        BY <4>1, <2>2, <2>3, <1>b DEF Carries
    <3> QED
      BY <3>1, <3>2
  <2> QED
    BY <2>2, <2>7, <2>8, <2>9, <1>a
<1>3. ASSUME NEW p \in Readers, Respond(p)
      PROVE  AgesOK'
  <2>1. legs' = [legs EXCEPT ![p] = <<>>] /\ running' = [running EXCEPT ![p] = 0]
        /\ UNCHANGED <<screen, store, figure, settled, excused>>
    BY <1>3 DEF Respond
  <2>2. \A q \in Readers : q # p => legs'[q] = legs[q] /\ running'[q] = running[q]
    BY <2>1, <1>0 DEF TypeOK
  <2>3. DOMAIN legs'[p] = {} /\ running'[p] = 0
    BY <2>1, <1>0 DEF TypeOK
  <2>4. \A q \in Readers : Idle(q)' => running'[q] = 0
    BY <2>2, <2>3, <1>b DEF Idle
  <2>5. \A w \in Paths[screen]' : \A i \in DOMAIN w : SlotAged(w, i)'
    BY <2>1, <1>b
  <2>6. \A q \in Readers : \A w \in Paths[screen]' : LegAged(q, w)'
    BY <2>1, <2>2, <2>3, <1>b DEF Carries
  <2> QED
    BY <2>4, <2>5, <2>6, <1>a
<1>4. CASE Change
  BY <1>4, <1>a, <1>b DEF Change, Carries, Idle
<1>5. CASE PassTime
  <2>1. \A v \in Values : Older(v) \in Values /\ Older(v).age = v.age + 1 /\ v.age \in Nat
    BY Assumed DEF Older, Values
  <2>2. ASSUME NEW w \in Paths[screen], NEW i \in DOMAIN w
        PROVE  SlotAged(w, i)'
    <3> DEFINE c == store[w[i]]
    <3>1. w[i] \in Keys /\ i + 1 \in 1 .. 3
      BY PathParts, <1>0 DEF TypeOK
    <3>2. CASE c = None \/ c.left = 1
      BY <3>1, <3>2, <1>5 DEF PassTime
    <3>3. CASE ~(c = None \/ c.left = 1)
      <4>1. store'[w[i]] = [value |-> Older(c.value), left |-> c.left - 1]
        BY <3>1, <3>3, <1>5 DEF PassTime
      <4>2. c.value \in Values /\ c.left \in Nat \ {0}
        BY <3>1, <3>3, <1>0 DEF TypeOK, Slots
      <4>3. c.left \in 1 .. Ttl[w[i]] /\ c.value.age <= Within(w, i + 1) + Span + Ttl[w[i]] - c.left
        BY <3>3, <1>b
      <4>4. Within(w, i + 1) \in Nat /\ Ttl[w[i]] \in Nat
        BY <3>1, WithinAdds, <1>0 DEF TypeOK
      <4>5. store'[w[i]].left = c.left - 1 /\ store'[w[i]].value.age = c.value.age + 1 /\ c.value.age \in Nat
        BY <4>1, <4>2, <2>1
      <4>6. c.left # 1
        BY <3>3
      <4> HIDE DEF c
      <4>7. /\ c.left - 1 \in 1 .. Ttl[w[i]]
            /\ c.value.age + 1 <= Within(w, i + 1) + Span + Ttl[w[i]] - (c.left - 1)
        BY <4>2, <4>3, <4>4, <4>5, <4>6, Assumed
      <4> QED
        BY <4>5, <4>7
    <3> QED
      BY <3>2, <3>3
  <2>3. ASSUME NEW p \in Readers
        PROVE  /\ Idle(p)' => running'[p] = 0
               /\ \A w \in Paths[screen] : LegAged(p, w)'
    <3>1. running'[p] = IF Idle(p) THEN 0 ELSE running[p] + 1
      BY <1>5 DEF PassTime
    <3>2. legs'[p] = [w \in DOMAIN legs[p] |-> [legs[p][w] EXCEPT !.value = Older(legs[p][w].value)]]
      BY <1>5 DEF PassTime
    <3>3. CASE legs[p] = <<>>
      <4>1. DOMAIN legs'[p] = {}
        BY <3>2, <3>3
      <4> QED
        BY <4>1, <3>1, <3>3 DEF Idle, Carries
    <3>4. CASE legs[p] \in [Paths[screen] -> Leg]
      <4>1. ~Idle(p)' /\ ~Idle(p)
        BY <3>2, <3>4, PathsExist, <1>0 DEF Idle, TypeOK
      <4>2. ASSUME NEW w \in Paths[screen], Carries(p, w)'
            PROVE  LegAged(p, w)'
        <5>1. legs[p][w] \in Leg /\ OnPath(w, legs[p][w])
          BY <3>4, <1>0 DEF LegsOK
        <5>2. legs'[p][w] = [legs[p][w] EXCEPT !.value = Older(legs[p][w].value)]
          BY <3>2, <3>4
        <5>3. legs'[p][w].pc = legs[p][w].pc /\ legs'[p][w].depth = legs[p][w].depth
              /\ legs'[p][w].value = Older(legs[p][w].value)
          BY <5>1, <5>2 DEF Leg
        <5>4. legs[p][w].value \in Values /\ Carries(p, w)
          BY <4>2, <5>1, <5>3, <3>4 DEF Carries, OnPath
        <5>5. legs[p][w].value.age <= running[p] + Within(w, legs[p][w].depth + 1)
          BY <5>4, <1>b
        <5>6. Within(w, legs[p][w].depth + 1) \in Nat /\ running[p] \in Nat
          <6>1. legs[p][w].depth + 1 \in 1 .. 3
            BY <5>1 DEF Leg
          <6> QED
            BY <6>1, WithinAdds, <1>0 DEF TypeOK
        <5>7. legs'[p][w].value.age = legs[p][w].value.age + 1 /\ legs[p][w].value.age \in Nat
          BY <5>3, <5>4, <2>1
        <5>8. legs'[p][w].value.age <= running'[p] + Within(w, legs'[p][w].depth + 1)
          BY <5>3, <5>5, <5>6, <5>7, <3>1, <4>1
        <5> QED
          BY <5>8
      <4> QED
        BY <4>1, <4>2
    <3> QED
      BY <3>3, <3>4, <1>0 DEF TypeOK
  <2>4. screen' = screen
    BY <1>5 DEF PassTime
  <2> QED
    BY <2>2, <2>3, <2>4, <1>a
<1>6. ASSUME NEW k \in Keys, Forget(k)
      PROVE  AgesOK'
  <2>1. store' = [store EXCEPT ![k] = None] /\ UNCHANGED <<screen, legs, running, figure, settled>>
    BY <1>6 DEF Forget
  <2>2. \A w \in Paths[screen]' : \A i \in DOMAIN w : SlotAged(w, i)'
    <3>1. \A w \in Paths[screen] : \A i \in DOMAIN w : w[i] \in Keys
      BY PathParts, <1>0 DEF TypeOK
    <3>2. \A j \in Keys : store'[j] = store[j] \/ store'[j] = None
      BY <2>1, <1>0 DEF TypeOK
    <3> QED
      BY <3>1, <3>2, <2>1, <1>b
  <2> QED
    BY <2>1, <2>2, <1>a, <1>b DEF Carries, Idle
<1>7. CASE CacheCrash
  <2>1. legs' = [p \in Readers |-> <<>>] /\ running' = [p \in Readers |-> 0]
        /\ UNCHANGED <<screen, store, figure, settled, excused>>
    BY <1>7 DEF CacheCrash, history
  <2>2. \A p \in Readers : DOMAIN legs'[p] = {} /\ running'[p] = 0
    BY <2>1
  <2>3. \A w \in Paths[screen]' : \A i \in DOMAIN w : SlotAged(w, i)'
    BY <2>1, <1>b
  <2>4. \A p \in Readers : \A w \in Paths[screen]' : LegAged(p, w)'
    BY <2>2 DEF Carries
  <2> QED
    BY <2>2, <2>3, <2>4, <1>a
<1>8. CASE UNCHANGED cvars
  BY <1>8, <1>a, <1>b DEF cvars, history, Carries, Idle
<1> QED
  BY <1>1, <1>2, <1>3, <1>4, <1>5, <1>6, <1>7, <1>8 DEF CacheNext, Serve

-----------------------------------------------------------------------------
(* The figure *)

LEMMA StrengthsRead ==
    ASSUME NEW w \in Paths["strengths"]
    PROVE  w[Len(w)] \notin Swallows
<1>1. w = <<"perf:metrics">> \/ w = <<"perf:peer">>
  BY DEF Paths
<1>2. CASE w = <<"perf:metrics">>
  BY <1>2 DEF Swallows
<1>3. CASE w = <<"perf:peer">>
  BY <1>3 DEF Swallows
<1> QED
  BY <1>1, <1>2, <1>3

\* A behaviour is about one screen.
LEMMA ScreenStays == [CacheNext]_cvars => screen' = screen
<1>1. ASSUME NEW p, NEW w, LegStep(p, w)
      PROVE  screen' = screen
  BY <1>1 DEF LegStep, Get, GetFails, Fetch, FetchFails, Set, SetFails
<1>2. ASSUME NEW p, Begin(p) \/ Respond(p)
      PROVE  screen' = screen
  BY <1>2 DEF Begin, Respond
<1>3. ASSUME NEW k, Forget(k)
      PROVE  screen' = screen
  BY <1>3 DEF Forget
<1>4. Change \/ PassTime \/ CacheCrash \/ UNCHANGED cvars => screen' = screen
  BY DEF Change, PassTime, CacheCrash, cvars
<1> QED
  BY <1>1, <1>2, <1>3, <1>4 DEF CacheNext, Serve

LEMMA FreshStep == CacheInv /\ [CacheNext]_cvars => FreshOK'
<1> SUFFICES ASSUME CacheInv, [CacheNext]_cvars, screen' = "strengths"
             PROVE  /\ \A w \in Paths[screen]' : \A i \in DOMAIN w : store'[w[i]] # None => Current(store[w[i]].value)'
                    /\ \A p \in Readers : \A w \in Paths[screen]' : Carries(p, w)' => Current(legs[p][w].value)'
  BY DEF FreshOK
<1>0. TypeOK /\ LegsOK
  BY DEF CacheInv
<1>1. screen = "strengths"
  BY ScreenStays
<1>2. /\ \A w \in Paths[screen] : \A i \in DOMAIN w : store[w[i]] # None => Current(store[w[i]].value)
      /\ \A p \in Readers : \A w \in Paths[screen] : Carries(p, w) => Current(legs[p][w].value)
  BY <1>1 DEF CacheInv, FreshOK
<1> DEFINE Goal ==
      /\ \A w \in Paths[screen]' : \A i \in DOMAIN w : store'[w[i]] # None => Current(store[w[i]].value)'
      /\ \A p \in Readers : \A w \in Paths[screen]' : Carries(p, w)' => Current(legs[p][w].value)'
<1>3. ASSUME NEW p \in Readers, Begin(p)
      PROVE  Goal
  <2>1. legs' = [legs EXCEPT ![p] = [w \in Paths[screen] |-> [pc |-> "get", depth |-> 1, value |-> None, bypass |-> FALSE]]]
        /\ UNCHANGED <<screen, store, running, figure, settled>> /\ Idle(p)
    BY <1>3 DEF Begin, history
  <2>2. \A q \in Readers : q # p => legs'[q] = legs[q]
    BY <2>1, <1>0 DEF TypeOK
  <2>3. \A w \in Paths[screen] : ~Carries(p, w)'
    BY <2>1, <1>0 DEF TypeOK, Carries
  <2> QED
    BY <2>1, <2>2, <2>3, <1>2 DEF Carries, Current
<1>4. ASSUME NEW p \in Readers, NEW w \in Paths[screen], LegStep(p, w)
      PROVE  Goal
  <2>1. PICK leg \in Leg : /\ legs' = [legs EXCEPT ![p] = [@ EXCEPT ![w] = leg]]
                           /\ OnPath(w, leg)
                           /\ leg.pc \in {"set", "done"} => Handed(p, w, leg.value, leg.depth)
    BY <1>4, LegMoves
  <2>2. Stored(p, w) /\ UNCHANGED <<screen, running, figure, settled>>
        /\ legs[p] \in [Paths[screen] -> Leg] /\ ~Idle(p)
    BY <1>4, LegMoves
  <2>3. /\ legs'[p][w] = leg
        /\ \A q \in Readers : DOMAIN legs'[q] = DOMAIN legs[q] /\ (Idle(q)' <=> Idle(q))
        /\ \A q \in Readers : \A v \in DOMAIN legs[q] : q # p \/ v # w => legs'[q][v] = legs[q][v]
    BY <1>0, <2>1, <2>2, OtherLegs DEF TypeOK
  <2>4. legs[p][w].pc = "set" => Current(legs[p][w].value)
    BY <1>2, <2>2 DEF Carries
  <2>5. leg.pc \in {"set", "done"} => Current(leg.value)
    <3>1. CASE leg.depth + 1 \in DOMAIN w /\ store[w[leg.depth + 1]] # None /\ leg.value = store[w[leg.depth + 1]].value
      BY <3>1, <1>2
    <3>2. CASE leg.value \in Values /\ (leg.value.figure # figure => w[Len(w)] \in Swallows)
      BY <3>2, <1>0, <1>1, StrengthsRead DEF Current, TypeOK
    <3>3. CASE legs[p][w].pc = "set" /\ leg.value = legs[p][w].value
      BY <3>3, <2>4
    <3> QED
      BY <2>1, <3>1, <3>2, <3>3 DEF Handed
  <2>6. \A v \in Paths[screen] : \A i \in DOMAIN v : store'[v[i]] # None => Current(store'[v[i]].value)
    <3>1. CASE UNCHANGED store
      BY <3>1, <1>2
    <3>2. CASE legs[p][w].pc = "set" /\ store' = [store EXCEPT ![w[legs[p][w].depth]] =
                      [value |-> legs[p][w].value, left |-> Ttl[w[legs[p][w].depth]]]]
      <4>1. \A k \in Keys : store'[k] = store[k] \/ store'[k].value = legs[p][w].value
        BY <3>2, <1>0 DEF TypeOK
      <4>2. \A v \in Paths[screen] : \A i \in DOMAIN v : v[i] \in Keys
        BY PathParts, <1>0 DEF TypeOK
      <4> QED
        BY <4>1, <4>2, <3>2, <2>4, <1>2
    <3> QED
      BY <3>1, <3>2, <2>2 DEF Stored
  <2>7. ASSUME NEW q \in Readers, NEW v \in Paths[screen], Carries(q, v)'
        PROVE  Current(legs'[q][v].value)
    <3>1. CASE q = p /\ v = w
      BY <3>1, <2>3, <2>5, <2>7 DEF Carries
    <3>2. CASE ~(q = p /\ v = w)
      BY <3>2, <2>3, <2>7, <1>2 DEF Carries
    <3> QED
      BY <3>1, <3>2
  <2>8. \A v : Current(v)' <=> v.figure \in Figures /\ (v.age < settled' => v.figure = figure')
    BY DEF Current
  <2> QED
    BY <2>2, <2>6, <2>7 DEF Current
<1>5. ASSUME NEW p \in Readers, Respond(p)
      PROVE  Goal
  <2>1. legs' = [legs EXCEPT ![p] = <<>>] /\ UNCHANGED <<screen, store, figure, settled>>
    BY <1>5 DEF Respond
  <2>2. \A q \in Readers : q # p => legs'[q] = legs[q]
    BY <2>1, <1>0 DEF TypeOK
  <2>3. DOMAIN legs'[p] = {}
    BY <2>1, <1>0 DEF TypeOK
  <2> QED
    BY <2>1, <2>2, <2>3, <1>2 DEF Carries, Current
<1>6. CASE Change
  <2>1. UNCHANGED <<screen, store, legs>> /\ settled' = 0
    BY <1>6, <1>1 DEF Change
  <2>2. ASSUME NEW v \in Values, Current(v)
        PROVE  v.figure \in Figures /\ ~(v.age < settled')
    BY <2>1, <2>2 DEF Current, Values
  <2>3. \A w \in Paths[screen] : \A i \in DOMAIN w : store[w[i]] # None => store[w[i]].value \in Values
    BY PathParts, <1>0 DEF TypeOK, Slots
  <2>4. \A p \in Readers : \A w \in Paths[screen] : Carries(p, w) => legs[p][w].value \in Values
    BY <1>0 DEF LegsOK, OnPath, Carries
  <2> QED
    BY <2>1, <2>2, <2>3, <2>4, <1>2 DEF Current, Carries
<1>7. CASE PassTime
  <2>1. UNCHANGED <<screen, figure>> /\ settled' \in {settled, settled + 1} /\ settled \in Nat
    BY <1>7, <1>0 DEF PassTime, TypeOK
  <2>2. ASSUME NEW v \in Values, Current(v)
        PROVE  Older(v).figure \in Figures /\ (Older(v).age < settled' => Older(v).figure = figure')
    <3>1. Older(v).figure = v.figure /\ Older(v).age = v.age + 1 /\ v.age \in Nat
      BY Assumed DEF Older, Values
    <3> QED
      BY <2>1, <2>2, <3>1 DEF Current
  <2>3. ASSUME NEW w \in Paths[screen], NEW i \in DOMAIN w, store'[w[i]] # None
        PROVE  store[w[i]] # None /\ store[w[i]].value \in Values /\ store'[w[i]].value = Older(store[w[i]].value)
    <3>1. w[i] \in Keys
      BY PathParts, <1>0 DEF TypeOK
    <3>2. store[w[i]] # None /\ store'[w[i]].value = Older(store[w[i]].value)
      BY <2>3, <3>1, <1>7 DEF PassTime
    <3> QED
      BY <3>1, <3>2, <1>0 DEF TypeOK, Slots
  <2>4. ASSUME NEW p \in Readers, NEW w \in Paths[screen], Carries(p, w)'
        PROVE  Carries(p, w) /\ legs[p][w].value \in Values /\ legs'[p][w].value = Older(legs[p][w].value)
    <3>1. legs'[p] = [v \in DOMAIN legs[p] |-> [legs[p][v] EXCEPT !.value = Older(legs[p][v].value)]]
      BY <1>7 DEF PassTime
    <3>2. w \in DOMAIN legs[p]
      BY <2>4, <3>1 DEF Carries
    <3>3. legs[p][w] \in Leg
      BY <3>2, <1>0 DEF TypeOK
    <3>4. legs'[p][w].pc = legs[p][w].pc /\ legs'[p][w].value = Older(legs[p][w].value)
      BY <3>1, <3>2, <3>3 DEF Leg
    <3> QED
      BY <2>4, <3>2, <3>4, <1>0 DEF Carries, LegsOK, OnPath
  <2> QED
    BY <2>1, <2>2, <2>3, <2>4, <1>2 DEF Current
<1>8. ASSUME NEW k \in Keys, Forget(k)
      PROVE  Goal
  <2>1. \A j \in Keys : store'[j] = store[j] \/ store'[j] = None
    BY <1>8, <1>0 DEF Forget, TypeOK
  <2>2. \A w \in Paths[screen] : \A i \in DOMAIN w : w[i] \in Keys
    BY PathParts, <1>0 DEF TypeOK
  <2> QED
    BY <2>1, <2>2, <1>2, <1>8 DEF Forget, Carries, Current
<1>9. CASE CacheCrash
  <2>1. legs' = [p \in Readers |-> <<>>] /\ UNCHANGED <<screen, store, figure, settled>>
    BY <1>9 DEF CacheCrash, history
  <2>2. \A p \in Readers : DOMAIN legs'[p] = {}
    BY <2>1
  <2> QED
    BY <2>1, <2>2, <1>2 DEF Carries, Current
<1>10. CASE UNCHANGED cvars
  BY <1>10, <1>2 DEF cvars, history, Carries, Current
<1> QED
  BY <1>3, <1>4, <1>5, <1>6, <1>7, <1>8, <1>9, <1>10 DEF CacheNext, Serve

-----------------------------------------------------------------------------
(* The briefing of the day *)

LEMMA RankedPath ==
    ASSUME NEW w \in Paths["briefing"]
    PROVE  /\ w[1] = Ranked /\ w[2] # Ranked /\ w[2] \in Keys /\ Len(w) = 2 /\ DOMAIN w = 1 .. 2
           /\ Ranked \in Keys /\ Paths["briefing"] = {w}
<1>1. w = <<"briefing:ranked", "briefing">>
  BY DEF Paths
<1> QED
  BY <1>1 DEF Ranked, Keys, Paths

\* A step of a leg that does not excuse the briefing stores it only under a free outer key.
LEMMA BriefingLeg ==
    ASSUME CacheInv, screen = "briefing", NEW p \in Readers, NEW w \in Paths[screen], LegStep(p, w), ~excused'
    PROVE  /\ ~excused /\ UNCHANGED shown
           /\ IF legs[p][w].pc = "set" /\ legs[p][w].depth = 1
              THEN store[Ranked] = None /\ store'[Ranked] = [value |-> legs[p][w].value, left |-> Ttl[Ranked]]
              ELSE store'[Ranked] = store[Ranked]
<1> DEFINE l == legs[p][w]
<1>0. TypeOK /\ LegsOK
  BY DEF CacheInv
<1>1. w[1] = Ranked /\ w[2] # Ranked /\ w[2] \in Keys /\ DOMAIN w = 1 .. 2 /\ Ranked \in Keys
  BY RankedPath
<1>2. w \in DOMAIN legs[p] /\ OnPath(w, l)
  BY <1>0, LegMoves DEF LegsOK
<1>3. Key(p, w) = w[l.depth]
  BY DEF Key
<1>4. l.pc \in {"get", "set"} => (Key(p, w) = Ranked <=> l.depth = 1) /\ Key(p, w) \in Keys
  BY <1>1, <1>2, <1>3 DEF OnPath
<1>5. \A k : Excuse(k) => k # Ranked /\ UNCHANGED <<excused, shown>>
  BY <1>0, ExcuseIs DEF TypeOK
<1>6. CASE Get(p, w)
  BY <1>6 DEF Get, At, history
<1>7. CASE GetFails(p, w)
  BY <1>7, <1>5 DEF GetFails, At
<1>8. CASE Fetch(p, w)
  BY <1>8 DEF Fetch, At, history
<1>9. CASE FetchFails(p, w)
  BY <1>9 DEF FetchFails, At, history
<1>10. CASE SetFails(p, w)
  <2>1. l.pc = "set" /\ Key(p, w) # Ranked /\ UNCHANGED <<store, excused, shown>>
    BY <1>10, <1>5 DEF SetFails, At
  <2> QED
    BY <2>1, <1>4
<1>11. CASE Set(p, w)
  <2>1. /\ l.pc = "set"
        /\ store' = [store EXCEPT ![Key(p, w)] = [value |-> l.value, left |-> Ttl[Key(p, w)]]]
        /\ UNCHANGED <<excused, shown>>
        /\ store[Key(p, w)] # None => Key(p, w) # Ranked
    BY <1>11, <1>5 DEF Set, At
  <2>2. CASE l.depth = 1
    <3>1. Key(p, w) = Ranked
      BY <1>4, <2>1, <2>2
    <3> QED
      BY <3>1, <2>1, <2>2, <1>0, <1>1 DEF TypeOK
  <2>3. CASE l.depth # 1
    <3>1. Key(p, w) # Ranked
      BY <1>4, <2>1, <2>3
    <3> QED
      BY <3>1, <2>1, <2>3, <1>0, <1>1 DEF TypeOK
  <2> QED
    BY <2>2, <2>3
<1> QED
  BY <1>6, <1>7, <1>8, <1>9, <1>10, <1>11 DEF LegStep

LEMMA FixedStep == CacheInv /\ [CacheNext]_cvars => FixedOK'
<1> SUFFICES ASSUME CacheInv, [CacheNext]_cvars
             PROVE  FixedOK'
  OBVIOUS
<1>0. TypeOK /\ LegsOK /\ FixedOK /\ screen' = screen
  BY ScreenStays DEF CacheInv
<1> DEFINE Held ==
              /\ store[Ranked] = None =>
                    shown = {} /\ \A p \in Readers : \A w \in Paths["briefing"] : ~Arrived(p, w)
              /\ store[Ranked] # None =>
                    /\ shown \subseteq {store[Ranked].value.figure}
                    /\ store[Ranked].value.age + store[Ranked].left >= Ttl[Ranked]
                    /\ \A p \in Readers : \A w \in Paths["briefing"] :
                          Arrived(p, w) => legs[p][w].value.figure = store[Ranked].value.figure
<1>a. ASSUME screen # "briefing" \/ excused' => shown' = {},
             screen = "briefing" /\ ~excused' => Held'
      PROVE  FixedOK'
  BY <1>0, <1>a DEF FixedOK
<1>b. /\ screen # "briefing" \/ excused => shown = {}
      /\ screen = "briefing" /\ ~excused => Held
  BY <1>0 DEF FixedOK
<1> HIDE DEF Held
<1>c. Ranked \in Keys
  BY DEF Ranked, Keys
<1>1. ASSUME NEW p \in Readers, Begin(p)
      PROVE  FixedOK'
  <2>1. legs' = [legs EXCEPT ![p] = [w \in Paths[screen] |-> [pc |-> "get", depth |-> 1, value |-> None, bypass |-> FALSE]]]
        /\ UNCHANGED <<screen, store, excused, shown>>
    BY <1>1 DEF Begin, history
  <2>2. \A q \in Readers : q # p => legs'[q] = legs[q]
    BY <2>1, <1>0 DEF TypeOK
  <2>3. \A w : ~Arrived(p, w)'
    BY <2>1, <1>0 DEF TypeOK, Arrived
  <2>4. Held => Held'
    BY <2>1, <2>2, <2>3 DEF Held, Arrived
  <2> QED
    BY <2>1, <2>4, <1>a, <1>b
<1>2. ASSUME NEW p \in Readers, NEW w \in Paths[screen], LegStep(p, w)
      PROVE  FixedOK'
  <2>1. screen # "briefing" \/ excused' => shown' = {}
    BY <1>0, <1>2, <1>b, ExcuseIs DEF LegStep, Get, GetFails, Fetch, FetchFails, Set, SetFails, history, TypeOK
  <2>2. ASSUME screen = "briefing", ~excused'
        PROVE  Held'
    <3>1. /\ ~excused /\ UNCHANGED shown
          /\ IF legs[p][w].pc = "set" /\ legs[p][w].depth = 1
             THEN store[Ranked] = None /\ store'[Ranked] = [value |-> legs[p][w].value, left |-> Ttl[Ranked]]
             ELSE store'[Ranked] = store[Ranked]
      BY <1>2, <2>2, BriefingLeg
    <3>2. w[1] = Ranked /\ Len(w) = 2 /\ DOMAIN w = 1 .. 2 /\ Paths["briefing"] = {w}
      BY <2>2, RankedPath
    <3>3. PICK leg \in Leg : /\ legs' = [legs EXCEPT ![p] = [@ EXCEPT ![w] = leg]]
                             /\ OnPath(w, leg)
                             /\ leg.pc \in {"set", "done"} => Handed(p, w, leg.value, leg.depth)
      BY <1>2, LegMoves
    <3>4. legs[p] \in [Paths[screen] -> Leg]
      BY <1>2, LegMoves
    <3>5. /\ legs'[p][w] = leg
          /\ \A q \in Readers : DOMAIN legs'[q] = DOMAIN legs[q]
          /\ \A q \in Readers : q # p => \A v \in DOMAIN legs[q] : legs'[q][v] = legs[q][v]
      BY <1>0, <3>3, <3>4, OtherLegs DEF TypeOK
    <3>6. Held
      BY <1>b, <2>2, <3>1
    <3>7. ASSUME leg.pc = "done"
          PROVE  \/ store[Ranked] # None /\ leg.value = store[Ranked].value /\ legs[p][w].pc = "get"
                 \/ legs[p][w].pc = "set" /\ legs[p][w].depth = 1 /\ leg.value = legs[p][w].value
      <4>1. leg.depth = 0
        BY <3>3, <3>7 DEF OnPath
      <4> QED
        BY <3>2, <3>3, <3>7, <4>1 DEF Handed
    <3>8. CASE legs[p][w].pc = "set" /\ legs[p][w].depth = 1
      <4> DEFINE c == [value |-> legs[p][w].value, left |-> Ttl[Ranked]]
      <4>1. store[Ranked] = None /\ store'[Ranked] = c
        BY <3>1, <3>8
      <4>2. legs[p][w].value \in Values
        BY <3>4, <3>8, <1>0 DEF LegsOK, OnPath
      <4>3. c \in Slots /\ c.value = legs[p][w].value /\ c.left = Ttl[Ranked] /\ c.value.age \in Nat /\ Ttl[Ranked] \in Nat
        BY <4>2, <1>c, Assumed DEF Slots, Values
      <4> HIDE DEF c
      <4>4. shown' = {} /\ \A q \in Readers : ~Arrived(q, w)
        BY <3>1, <3>2, <3>6, <4>1 DEF Held
      <4>5. \A q \in Readers : Arrived(q, w)' => q = p
        BY <3>5, <4>4 DEF Arrived
      <4>6. Arrived(p, w)' => legs'[p][w].value.figure = c.value.figure
        BY <3>5, <3>7, <3>8, <4>3 DEF Arrived
      <4>7. store'[Ranked] # None /\ store'[Ranked].value.age + store'[Ranked].left >= Ttl[Ranked]
        BY <4>1, <4>3, Assumed
      <4> QED
        BY <3>2, <4>1, <4>4, <4>5, <4>6, <4>7 DEF Held
    <3>9. CASE ~(legs[p][w].pc = "set" /\ legs[p][w].depth = 1)
      <4>1. store'[Ranked] = store[Ranked]
        BY <3>1, <3>9
      <4>2. leg.pc = "done" => store[Ranked] # None /\ leg.value = store[Ranked].value
        BY <3>7, <3>9
      <4>3. \A q \in Readers : Arrived(q, w)' => IF q = p THEN leg.pc = "done" ELSE Arrived(q, w) /\ legs'[q][w] = legs[q][w]
        BY <3>5 DEF Arrived
      <4> QED
        BY <3>1, <3>2, <3>5, <3>6, <4>1, <4>2, <4>3 DEF Held
    <3> QED
      BY <3>8, <3>9
  <2> QED
    BY <2>1, <2>2, <1>a
<1>3. ASSUME NEW p \in Readers, Respond(p)
      PROVE  FixedOK'
  <2>1. legs' = [legs EXCEPT ![p] = <<>>] /\ UNCHANGED <<screen, store, excused>>
        /\ shown' = (IF screen = "briefing" /\ Answered(p) /\ ~excused
                     THEN shown \cup {Answer(p)[w].figure : w \in DOMAIN legs[p]} ELSE shown)
    BY <1>3 DEF Respond
  <2>2. screen # "briefing" \/ excused' => shown' = {}
    BY <2>1, <1>b
  <2>3. ASSUME screen = "briefing", ~excused'
        PROVE  Held'
    <3>1. Held
      BY <2>1, <2>3, <1>b
    <3>2. \A q \in Readers : \A w : Arrived(q, w)' => Arrived(q, w) /\ legs'[q][w] = legs[q][w]
      BY <2>1, <1>0 DEF TypeOK, Arrived
    <3>3. ASSUME Answered(p)
          PROVE  store[Ranked] # None /\ {Answer(p)[w].figure : w \in DOMAIN legs[p]} \subseteq {store[Ranked].value.figure}
      <4>1. DOMAIN legs[p] = Paths["briefing"] /\ \A w \in DOMAIN legs[p] : Arrived(p, w) /\ Answer(p)[w] = legs[p][w].value
        BY <3>3, <2>3, <1>0 DEF Answered, Ended, Idle, TypeOK, Arrived, Answer
      <4>2. PICK w \in Paths["briefing"] : TRUE
        BY <1>0, <2>3, PathsExist DEF TypeOK
      <4>3. store[Ranked] # None
        BY <4>1, <4>2, <3>1 DEF Held
      <4> QED
        BY <4>1, <4>3, <3>1 DEF Held
    <3>4. store[Ranked] = None => shown' = {}
      BY <2>1, <3>1, <3>3 DEF Held
    <3>5. store[Ranked] # None => shown' \subseteq {store[Ranked].value.figure}
      BY <2>1, <3>1, <3>3 DEF Held
    <3>6. store' = store
      BY <2>1
    <3>7. CASE store[Ranked] = None
      BY <3>1, <3>2, <3>4, <3>6, <3>7 DEF Held
    <3>8. CASE store[Ranked] # None
      BY <3>1, <3>2, <3>5, <3>6, <3>8 DEF Held
    <3> QED
      BY <3>7, <3>8
  <2> QED
    BY <2>2, <2>3, <1>a
<1>4. CASE Change
  <2>1. UNCHANGED <<screen, store, legs, shown, excused>>
    BY <1>4 DEF Change
  <2> QED
    BY <2>1, <1>a, <1>b DEF Held, Arrived
<1>5. CASE PassTime
  <2> DEFINE c == store[Ranked]
  <2>0. Excuse("briefing:ranked") \/ UNCHANGED <<excused, shown>>
    BY <1>5 DEF PassTime
  <2>1. screen # "briefing" \/ excused' => shown' = {}
    BY <2>0, <1>0, <1>b, ExcuseIs DEF TypeOK
  <2>2. ASSUME screen = "briefing", ~excused'
        PROVE  Held'
    <3>1. ~excused /\ UNCHANGED shown /\ ~(c # None /\ c.left = 1 /\ c.value.age + 1 >= Ttl[Ranked])
      BY <2>2, <1>5, <1>0, ExcuseIs DEF PassTime, Ranked, TypeOK
    <3>2. Held
      BY <1>b, <2>2, <3>1
    <3>3. \A v \in Values : Older(v).figure = v.figure /\ Older(v).age = v.age + 1 /\ v.age \in Nat
      BY Assumed DEF Older, Values
    <3>4. ASSUME NEW q \in Readers, NEW w, Arrived(q, w)'
          PROVE  Arrived(q, w) /\ legs'[q][w].value.figure = legs[q][w].value.figure
      <4>1. legs'[q] = [v \in DOMAIN legs[q] |-> [legs[q][v] EXCEPT !.value = Older(legs[q][v].value)]]
        BY <1>5 DEF PassTime
      <4>2. w \in DOMAIN legs[q]
        BY <3>4, <4>1 DEF Arrived
      <4>3. legs[q][w] \in Leg
        BY <4>2, <1>0 DEF TypeOK
      <4>4. legs'[q][w].pc = legs[q][w].pc /\ legs'[q][w].value = Older(legs[q][w].value)
        BY <4>1, <4>2, <4>3 DEF Leg
      <4>5. legs[q][w].value \in Values
        BY <3>4, <4>2, <4>4, <1>0 DEF Arrived, LegsOK, OnPath
      <4> QED
        BY <3>3, <3>4, <4>2, <4>4, <4>5 DEF Arrived
    <3>5. CASE c = None
      <4>1. store'[Ranked] = None
        BY <3>5, <1>c, <1>5 DEF PassTime
      <4> QED
        BY <3>1, <3>2, <3>4, <3>5, <4>1 DEF Held
    <3>6. CASE c # None
      <4>1. c \in Slots
        BY <3>6, <1>0, <1>c DEF TypeOK
      <4>2. c.left \in Nat \ {0} /\ c.value \in Values /\ c.value.age \in Nat /\ Ttl[Ranked] \in Nat
        BY <4>1, <1>c, Assumed DEF Slots, Values
      <4>3. c.value.age + c.left >= Ttl[Ranked]
        BY <3>2, <3>6 DEF Held
      <4>4. c.left # 1
        BY <3>1, <3>6, <4>2, <4>3
      <4>5. store'[Ranked] = [value |-> Older(c.value), left |-> c.left - 1]
        BY <3>6, <4>4, <1>c, <1>5 DEF PassTime
      <4>6. store'[Ranked].value.figure = c.value.figure /\ store'[Ranked].value.age = c.value.age + 1
            /\ store'[Ranked].left = c.left - 1
        BY <4>2, <4>5, <3>3
      <4>7. store'[Ranked] # None
        <5>1. store'[Ranked] \in Slots
          BY <4>2, <4>4, <4>5, Assumed DEF Slots, Values, Older
        <5> QED
          BY <5>1, Assumed
      <4>8. store'[Ranked].value.age + store'[Ranked].left >= Ttl[Ranked]
        BY <4>2, <4>3, <4>6
      <4> QED
        BY <3>1, <3>2, <3>4, <3>6, <4>6, <4>7, <4>8 DEF Held
    <3> QED
      BY <3>5, <3>6
  <2> QED
    BY <2>1, <2>2, <1>a
<1>6. ASSUME NEW k \in Keys, Forget(k)
      PROVE  FixedOK'
  <2>1. store' = [store EXCEPT ![k] = None] /\ UNCHANGED <<screen, legs>> /\ Excuse(k)
    BY <1>6 DEF Forget
  <2>2. \/ UNCHANGED <<excused, shown>> /\ k # Ranked
        \/ excused' = TRUE /\ shown' = {}
    BY <2>1, <1>0, ExcuseIs DEF TypeOK
  <2>3. k # Ranked => store'[Ranked] = store[Ranked]
    BY <2>1, <1>0, <1>c DEF TypeOK
  <2>4. UNCHANGED <<excused, shown>> /\ k # Ranked /\ Held => Held'
    BY <2>1, <2>3 DEF Held, Arrived
  <2> QED
    BY <2>2, <2>4, <1>a, <1>b
<1>7. CASE CacheCrash
  <2>1. legs' = [p \in Readers |-> <<>>] /\ UNCHANGED <<screen, store, excused, shown>>
    BY <1>7 DEF CacheCrash, history
  <2>2. \A p \in Readers : \A w : ~Arrived(p, w)'
    BY <2>1 DEF Arrived
  <2>3. Held => Held'
    BY <2>1, <2>2 DEF Held
  <2> QED
    BY <2>1, <2>3, <1>a, <1>b
<1>8. CASE UNCHANGED cvars
  BY <1>8, <1>a, <1>b DEF cvars, history, Held, Arrived
<1> QED
  BY <1>1, <1>2, <1>3, <1>4, <1>5, <1>6, <1>7, <1>8 DEF CacheNext, Serve

-----------------------------------------------------------------------------
(* The theorems *)

LEMMA CacheInvariant == CacheSpec => []CacheInv
<1>1. CacheInv /\ [CacheNext]_cvars => CacheInv'
  BY TypeStep, AgesStep, FreshStep, FixedStep DEF CacheInv
<1> QED
  BY CacheInvInit, <1>1, PTL DEF CacheSpec

\* The day's briefing changes only after a Redis error, an evicted or expired key, or two
\* first requests at once: whatever is shown is what the outer key holds.
THEOREM BriefingStays == CacheSpec => []BriefingFixedUnlessExcused
<1>1. CacheInv => BriefingFixedUnlessExcused
  <2> SUFFICES ASSUME CacheInv
               PROVE  Cardinality(shown) <= 1
    BY DEF BriefingFixedUnlessExcused
  <2>1. PICK v : shown \subseteq {v}
    BY DEF CacheInv, FixedOK
  <2>2. shown = {} \/ shown = {v}
    BY <2>1
  <2>3. Cardinality({}) = 0 /\ Cardinality({v}) = 1
    BY FS_EmptySet, FS_Singleton
  <2> QED
    BY <2>2, <2>3
<1> QED
  BY CacheInvariant, <1>1, PTL

\* What an answered request shows has come out of its legs.
LEMMA AnswersAreCarried ==
    ASSUME CacheInv, NEW p \in Readers, Answered(p), NEW w \in Paths[screen]
    PROVE  /\ Carries(p, w) /\ Answer(p)[w] = legs[p][w].value /\ legs[p][w].depth = 0
           /\ Answer(p)[w] \in Values /\ Answer(p)[w].age <= Span + Within(w, 1)
           /\ Within(w, 1) \in Nat
<1>1. legs[p] \in [Paths[screen] -> Leg] /\ w \in DOMAIN legs[p] /\ legs[p][w].pc = "done"
  BY DEF CacheInv, TypeOK, Answered, Ended, Idle
<1>2. OnPath(w, legs[p][w])
  BY <1>1 DEF CacheInv, LegsOK
<1>3. Carries(p, w) /\ Answer(p)[w] = legs[p][w].value /\ legs[p][w].depth = 0 /\ legs[p][w].value \in Values
  BY <1>1, <1>2 DEF Carries, Answer, OnPath
<1>4. legs[p][w].value.age <= running[p] + Within(w, 1)
  BY <1>3 DEF CacheInv, AgesOK
<1>5. running[p] \in 0 .. Span /\ Within(w, 1) \in Nat /\ legs[p][w].value.age \in Nat
  BY <1>3, WithinAdds DEF CacheInv, TypeOK, Values
<1> QED
  BY <1>3, <1>4, <1>5, Assumed

\* How old the figures on a screen may be is what the TTLs on its path add up to.
THEOREM AgesAddUp == CacheSpec => AnswersAgeBounded
<1> DEFINE A == \A p \in Readers : Answered(p) /\ Respond(p) =>
                  \A w \in Paths[screen] : Answer(p)[w].age <= Span + Stays(w, 1) + Stays(w, 2)
<1>1. CacheInv => A
  <2> SUFFICES ASSUME CacheInv, NEW p \in Readers, Answered(p), NEW w \in Paths[screen]
               PROVE  Answer(p)[w].age <= Span + Stays(w, 1) + Stays(w, 2)
    OBVIOUS
  <2>1. Answer(p)[w].age <= Span + Within(w, 1) /\ Answer(p)[w] \in Values
    BY AnswersAreCarried
  <2>2. Len(w) \in {1, 2} /\ DOMAIN w = 1 .. Len(w) /\ \A i \in DOMAIN w : w[i] \in Keys
    BY PathParts DEF CacheInv, TypeOK
  <2>3. Stays(w, 1) \in Nat /\ Stays(w, 2) \in Nat
    BY <2>2, Assumed DEF Stays
  <2> QED
    BY <2>1, <2>3, Assumed DEF Within, Values
<1>2. CacheInv /\ [CacheNext]_cvars => [A]_cvars
  BY <1>1
<1> QED
  BY CacheInvariant, <1>2, PTL DEF CacheSpec, AnswersAgeBounded

\* Nobody has more peers below than there are.
LEMMA PercentileOfOwn ==
    ASSUME NEW f \in Int
    PROVE  ~(Percentile(f, f) > 100)
<1> DEFINE B == {r \in DOMAIN Others : Others[r] < f}
           n == Cardinality(DOMAIN Others)
           b == Cardinality(B)
<1>1. IsFiniteSet(DOMAIN Others) /\ DOMAIN Others # {}
  BY CacheAssumption
<1>2. B \subseteq DOMAIN Others
  OBVIOUS
<1>3. n \in Nat /\ b \in Nat /\ b <= n
  BY <1>1, <1>2, FS_Subset, FS_CardinalityType
<1>4. n # 0
  BY <1>1, FS_EmptySet
<1>5. Percentile(f, f) = (100 * (b + 0)) \div n
  BY DEF Percentile
<1> HIDE DEF n, b
<1>6. ASSUME NEW q \in Int, q = (100 * b) \div n
      PROVE  q <= 100
  <2>1. n * q <= 100 * b
    BY <1>3, <1>4, <1>6
  <2>2. SUFFICES ASSUME q >= 101 PROVE FALSE
    OBVIOUS
  <2>3. n * q >= n * 101
    BY <1>3, <2>2
  <2> QED
    BY <1>3, <1>4, <2>1, <2>3
<1>7. (100 * b) \div n \in Int
  BY <1>3, <1>4
<1> QED
  BY <1>3, <1>5, <1>6, <1>7

\* An RM is above all of the branch, itself included, only as long as one of the two keys
\* still holds a figure from before the last change.
THEOREM PercentileFades == CacheSpec => ImpossiblePercentileFades
<1> DEFINE A == \A p \in Readers : Answered(p) /\ Respond(p) /\ screen = "strengths" =>
                  LET own   == Answer(p)[<<"perf:metrics">>].figure
                      among == Answer(p)[<<"perf:peer">>].figure
                  IN Percentile(own, among) > 100 => settled < Ttl["perf:peer"] + 2 * Span
<1>1. CacheInv => A
  <2> SUFFICES ASSUME CacheInv, NEW p \in Readers, Answered(p), screen = "strengths",
                      ~(settled < Ttl["perf:peer"] + 2 * Span)
               PROVE  ~(Percentile(Answer(p)[<<"perf:metrics">>].figure, Answer(p)[<<"perf:peer">>].figure) > 100)
    OBVIOUS
  <2> DEFINE m == <<"perf:metrics">>
             b == <<"perf:peer">>
  <2>1. m \in Paths[screen] /\ b \in Paths[screen]
    BY DEF Paths
  <2>2. ASSUME NEW w \in {m, b}
        PROVE  Answer(p)[w].figure = figure
    <3>0. w \in Paths[screen]
      BY <2>1
    <3>1. /\ Carries(p, w) /\ Answer(p)[w] = legs[p][w].value
          /\ Answer(p)[w] \in Values /\ Answer(p)[w].age <= Span + Within(w, 1)
      BY <3>0, AnswersAreCarried
    <3>2. Within(w, 1) = Ttl["perf:peer"] + Span - 1
      <4>1. Len(w) = 1 /\ DOMAIN w = 1 .. 1 /\ w[1] \in {"perf:metrics", "perf:peer"}
        OBVIOUS
      <4>2. Ttl[w[1]] = Ttl["perf:peer"] /\ Ttl["perf:peer"] \in Nat
        BY <4>1, CacheAssumption DEF Keys
      <4>3. Stays(w, 1) = Ttl[w[1]] + Span - 1 /\ Stays(w, 2) = 0
        BY <4>1 DEF Stays
      <4> QED
        BY <4>2, <4>3, Assumed DEF Within
    <3>3. Ttl["perf:peer"] \in Nat /\ settled \in Nat /\ Answer(p)[w].age \in Nat
      BY <3>1, Assumed DEF CacheInv, TypeOK, Keys, Values
    <3>4. Answer(p)[w].age < settled
      BY <3>1, <3>2, <3>3, Assumed
    <3>5. Current(legs[p][w].value)
      BY <3>0, <3>1 DEF CacheInv, FreshOK
    <3> QED
      BY <3>1, <3>4, <3>5 DEF Current
  <2>3. figure \in Int
    BY CacheAssumption DEF CacheInv, TypeOK
  <2>4. Answer(p)[m].figure = figure /\ Answer(p)[b].figure = figure
    BY <2>2
  <2> HIDE DEF m, b
  <2>5. ~(Percentile(Answer(p)[m].figure, Answer(p)[b].figure) > 100)
    BY <2>3, <2>4, PercentileOfOwn
  <2> QED
    BY <2>5 DEF m, b
<1>2. CacheInv /\ [CacheNext]_cvars => [A]_cvars
  BY <1>1
<1> QED
  BY CacheInvariant, <1>2, PTL DEF CacheSpec, ImpossiblePercentileFades
=============================================================================
