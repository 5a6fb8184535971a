--------------------------- MODULE CrmSyncProofs ---------------------------
(***************************************************************************)
(* Proofs about CrmSync, for any number of RMs, records, pages, logins and *)
(* write-backs, and any faults.  Two facts carry them: what a step may put *)
(* on its way to MongoDB (CarriedStep) and where what is stored there came *)
(* from (StoresStep).  For CleanSyncIsFresh a place in the CRM's listing   *)
(* has a rank, and a page of the listing is an interval of ranks.          *)
(***************************************************************************)
EXTENDS CrmSync, FiniteSetTheorems, TLAPS

\* A record and its version, as a page, a write-back or a confirmation holds it.
Item == [rec : Records, ver : Nat]

\* A document of MongoDB.
Doc == [ver : Nat, rm : RMs \cup {"none"}, stamped : BOOLEAN]

\* The values the variables range over; and a write-back under way is of a record, which
\* has its first version in MongoDB alone if it is of the pipeline.
TypeOK ==
    /\ crm \in [Records -> Nat]
    /\ lists \in [RMs -> SUBSET Records]
    /\ \A rm \in RMs : \A r \in lists[rm] : crm[r] > 0
    /\ mirror \in [Records -> Doc]
    /\ jpc \in [Jobs -> {"idle", "distinct", "sync", "status"}]
    /\ agenda \in [Jobs -> SUBSET RMs] /\ covered \subseteq RMs
    /\ loop \in [Jobs \X Synced -> [pc : RMs \cup {"off"}, page : Nat, todo : Seq(Item), more : BOOLEAN]]
    /\ \A l \in Jobs \X Synced : loop[l].pc \in RMs => loop[l].page > 0
    /\ wb \in [WriteBacks -> [pc : {"new", "crm", "mongo", "announce", "success", "failure"},
                              kind : Kinds \cup {"none"}, rec : Records \cup {"none"},
                              rm : RMs \cup {"none"}, ver : Nat]]
    /\ \A w \in WriteBacks : wb[w].pc \in {"crm", "mongo", "announce"} =>
          /\ wb[w].rec \in Records /\ wb[w].ver > 0
          /\ Entity[wb[w].rec] = "pipeline" => wb[w].pc # "crm" /\ wb[w].ver = 1
    /\ confirmed \subseteq Item

\* Ranks number the elements of a finite set of integers.
LEMMA Ranked ==
    ASSUME NEW S \in SUBSET Int, IsFiniteSet(S)
    PROVE  /\ Cardinality(S) \in Nat
           /\ \A i \in S : Rank(i, S) \in 1 .. Cardinality(S)
           /\ \A i, j \in S : i < j => Rank(i, S) < Rank(j, S)
           /\ \A n \in 1 .. Cardinality(S) : \E i \in S : Rank(i, S) = n
<1> DEFINE T == 1 .. Cardinality(S)
           f == [i \in S |-> Rank(i, S)]
           Upto(i) == {k \in S : k <= i}
<1>1. Cardinality(S) \in Nat
  BY FS_CardinalityType
<1>2. ASSUME NEW i \in S PROVE IsFiniteSet(Upto(i)) /\ Cardinality(Upto(i)) \in 1 .. Cardinality(S)
  <2>1. Upto(i) \in SUBSET S /\ Upto(i) # {}
    OBVIOUS
  <2>2. IsFiniteSet(Upto(i)) /\ Cardinality(Upto(i)) <= Cardinality(S)
    BY <2>1, FS_Subset
  <2>3. Cardinality(Upto(i)) \in Nat
    BY <2>2, FS_CardinalityType
  <2>4. Cardinality(Upto(i)) # 0
    BY <2>1, <2>2, FS_EmptySet
  <2> QED
    BY <1>1, <2>2, <2>3, <2>4
<1>3. ASSUME NEW i \in S, NEW j \in S, i < j PROVE Cardinality(Upto(i)) < Cardinality(Upto(j))
  <2>0. \A k \in S : k <= i => k <= j
    BY <1>3
  <2>1. Upto(i) \in SUBSET Upto(j)
    BY <2>0
  <2>3. j \in Upto(j) /\ j \notin Upto(i)
    BY <1>3
  <2>2. Cardinality(Upto(i)) <= Cardinality(Upto(j)) /\ Cardinality(Upto(i)) # Cardinality(Upto(j))
    BY <1>2, <2>1, <2>3, FS_Subset
  <2> QED
    BY <1>2, <2>2
<1>4. \A i \in S : f[i] = Cardinality(Upto(i))
  BY DEF Rank
<1> HIDE DEF Upto
<1>5. f \in [S -> T]
  BY <1>2, <1>4
<1>6. ASSUME NEW i \in S, NEW j \in S, f[i] = f[j] PROVE i = j
  BY <1>2, <1>3, <1>4, <1>6
<1>7. f \in Injection(S, T)
  BY ONLY <1>5, <1>6 DEF Injection, IsInjective
<1>8. IsFiniteSet(T) /\ Cardinality(T) = Cardinality(S)
  BY <1>1, FS_Interval
<1>9. f \in Surjection(S, T)
  BY <1>7, <1>8, FS_Injection
<1>10. \A n \in T : \E i \in S : f[i] = n
  BY ONLY <1>9 DEF Surjection
<1> QED
  BY <1>1, <1>2, <1>3, <1>4, <1>10

\* The records of an entity in a listing, each at its rank.
LEMMA ListedRecords ==
    ASSUME NEW listing \in SUBSET Records, NEW e
    PROVE  LET places == Places(listing, e)
               list == Listed(listing, e)
           IN /\ IsFiniteSet(places) /\ places \subseteq DOMAIN CrmOrder
              /\ list \in Seq(Records) /\ Len(list) \in Nat /\ DOMAIN list = 1 .. Len(list)
              /\ Len(list) = Cardinality(places)
              /\ \A n \in 1 .. Len(list) : list[n] \in listing
              /\ \A i \in places : Rank(i, places) \in 1 .. Len(list) /\ list[Rank(i, places)] = CrmOrder[i]
<1> DEFINE places == Places(listing, e)
           list == Listed(listing, e)
           n == Cardinality(places)
<1>1. CrmOrder \in Seq(Records) /\ DOMAIN CrmOrder = 1 .. Len(CrmOrder) /\ Len(CrmOrder) \in Nat
  BY CrmAssumption
<1>2. places \in SUBSET DOMAIN CrmOrder /\ places \in SUBSET Int
  BY <1>1 DEF Places
<1>3. IsFiniteSet(places)
  <2>1. IsFiniteSet(1 .. Len(CrmOrder))
    BY <1>1, FS_Interval
  <2> QED
    BY <1>1, <1>2, <2>1, FS_Subset
<1>4. \A i \in places : CrmOrder[i] \in listing
  BY <1>1 DEF Places
<1>5. list = [k \in 1 .. n |-> CrmOrder[CHOOSE i \in places : Rank(i, places) = k]]
  BY DEF Listed
<1> HIDE DEF places, list
<1>6. /\ n \in Nat
      /\ \A i \in places : Rank(i, places) \in 1 .. n
      /\ \A i, j \in places : i < j => Rank(i, places) < Rank(j, places)
      /\ \A k \in 1 .. n : \E i \in places : Rank(i, places) = k
  BY <1>2, <1>3, Ranked
<1> HIDE DEF n
<1>7. ASSUME NEW k \in 1 .. n PROVE list[k] \in listing
  <2>1. (CHOOSE i \in places : Rank(i, places) = k) \in places
    BY <1>6
  <2> QED
    BY <1>4, <1>5, <2>1
<1>8. ASSUME NEW i \in places PROVE list[Rank(i, places)] = CrmOrder[i]
  <2> DEFINE r == Rank(i, places)
             c == CHOOSE j \in places : Rank(j, places) = r
  <2>1. c \in places /\ Rank(c, places) = r
    OBVIOUS
  <2>2. c \in Int /\ i \in Int /\ r \in 1 .. n
    BY <1>2, <1>6, <2>1
  <2>3. list[r] = CrmOrder[c]
    BY <1>5, <2>2
  <2> HIDE DEF c, r
  <2>4. ~(c < i) /\ ~(i < c)
    BY <1>6, <2>1, <2>2 DEF r
  <2>5. c = i
    BY <2>2, <2>4
  <2> QED
    BY <2>3, <2>5 DEF r
<1>9. list \in Seq(Records) /\ Len(list) = n /\ DOMAIN list = 1 .. n
  <2>1. \A k \in 1 .. n : list[k] \in Records
    BY <1>7
  <2> DEFINE F(k) == CrmOrder[CHOOSE i \in places : Rank(i, places) = k]
  <2>2. list = [k \in 1 .. n |-> F(k)] /\ n \in Nat
    BY <1>5, <1>6
  <2> HIDE DEF F
  <2>3. list \in [1 .. n -> Records]
    BY <2>1, <2>2
  <2>4. list \in Seq(Records) /\ Len(list) = n
    BY ONLY <2>2, <2>3
  <2> QED
    BY <2>3, <2>4
<1> QED
  BY <1>2, <1>3, <1>6, <1>7, <1>8, <1>9 DEF places, list, n

\* A page of it: items of the CRM's own versions.
LEMMA PageOfItems ==
    ASSUME TypeOK, NEW list \in Seq(Records), NEW start \in Nat
    PROVE  LET page == Page(list, start) IN
           /\ page \in Seq(Item)
           /\ \A k \in DOMAIN page : /\ k \in Nat /\ start + k \in 1 .. Len(list)
                                     /\ page[k] = [rec |-> list[start + k], ver |-> crm[list[start + k]]]
           /\ \A k \in 1 .. PageSize : start + k <= Len(list) => k \in DOMAIN page
<1> DEFINE page == Page(list, start)
           m == Least(PageSize, Len(list) - start)
           size == IF m < 0 THEN 0 ELSE m
<1>1. m \in Int /\ m <= PageSize /\ m <= Len(list) - start /\ (m = PageSize \/ m = Len(list) - start)
  BY CrmAssumption DEF Least
<1>2. page = [k \in 1 .. m |-> [rec |-> list[start + k], ver |-> crm[list[start + k]]]]
  BY DEF Page
<1> HIDE DEF page, m
<1>3. 1 .. m = 1 .. size /\ size \in Nat
  BY <1>1
<1>4. ASSUME NEW k \in 1 .. m
      PROVE  /\ k \in Nat /\ start + k \in 1 .. Len(list)
             /\ [rec |-> list[start + k], ver |-> crm[list[start + k]]] \in Item
  <2>1. k \in Nat /\ start + k \in 1 .. Len(list)
    <3>1. Len(list) \in Nat
      OBVIOUS
    <3> QED
      BY <1>1, <1>4, <3>1
  <2>2. list[start + k] \in Records
    BY <2>1
  <2>3. crm[list[start + k]] \in Nat
    BY <2>2 DEF TypeOK
  <2> QED
    BY ONLY <2>1, <2>2, <2>3 DEF Item
<1>5. page \in Seq(Item) /\ DOMAIN page = 1 .. m
  <2>1. page \in [1 .. size -> Item]
    BY <1>2, <1>3, <1>4
  <2> QED
    BY <1>2, <1>3, <2>1
<1>6. \A k \in 1 .. PageSize : start + k <= Len(list) => k \in 1 .. m
  BY <1>1
<1> QED
  BY <1>2, <1>4, <1>5, <1>6 DEF page

\* What a page and a write-back under way hold.
LEMMA CarriedItems ==
    ASSUME TypeOK
    PROVE  /\ \A i : i \in Carried <=>
                 \/ \E l \in Jobs \X Synced : i \in ToSet(loop[l].todo)
                 \/ \E w \in WriteBacks : wb[w].pc = "mongo" /\ i = [rec |-> wb[w].rec, ver |-> wb[w].ver]
           /\ Carried \subseteq Item
<1>1. \A i : i \in Carried <=>
         \/ \E l \in Jobs \X Synced : i \in ToSet(loop[l].todo)
         \/ \E w \in WriteBacks : wb[w].pc = "mongo" /\ i = [rec |-> wb[w].rec, ver |-> wb[w].ver]
  <2> DEFINE pages == UNION {ToSet(loop[l].todo) : l \in Jobs \X Synced}
             calls == {[rec |-> wb[w].rec, ver |-> wb[w].ver] : w \in {x \in WriteBacks : wb[x].pc = "mongo"}}
  <2>1. Carried = pages \cup calls
    BY Zenon DEF Carried
  <2>2. \A i : i \in calls <=> \E w \in WriteBacks : wb[w].pc = "mongo" /\ i = [rec |-> wb[w].rec, ver |-> wb[w].ver]
    OBVIOUS
  <2>3. \A i : i \in pages <=> \E l \in Jobs \X Synced : i \in ToSet(loop[l].todo)
    OBVIOUS
  <2> HIDE DEF pages, calls
  <2> QED
    BY ONLY <2>1, <2>2, <2>3
<1>2. \A l \in Jobs \X Synced : ToSet(loop[l].todo) \subseteq Item
  BY DEF TypeOK, ToSet
<1>3. \A w \in WriteBacks : wb[w].pc = "mongo" => [rec |-> wb[w].rec, ver |-> wb[w].ver] \in Item
  BY DEF TypeOK, Item
<1> QED
  BY <1>1, <1>2, <1>3

\* A sequence that is not empty.
LEMMA HeadAndTail ==
    ASSUME NEW S, NEW s \in Seq(S), s # <<>>
    PROVE  /\ Head(s) \in S /\ Tail(s) \in Seq(S)
           /\ ToSet(s) = {Head(s)} \cup ToSet(Tail(s))
<1>1. Head(s) \in S /\ Tail(s) \in Seq(S) /\ Len(s) \in Nat /\ Len(s) > 0
  OBVIOUS
<1>2. Head(s) = s[1] /\ Len(Tail(s)) = Len(s) - 1 /\ \A i \in 1 .. Len(s) - 1 : Tail(s)[i] = s[i + 1]
  OBVIOUS
<1>3. ASSUME NEW x \in ToSet(s) PROVE x \in {Head(s)} \cup ToSet(Tail(s))
  <2>1. PICK i \in 1 .. Len(s) : x = s[i]
    BY <1>3 DEF ToSet
  <2>2. CASE i = 1
    BY <1>2, <2>1, <2>2
  <2>3. CASE i # 1
    <3>1. i - 1 \in 1 .. Len(s) - 1 /\ Tail(s)[i - 1] = x /\ DOMAIN Tail(s) = 1 .. Len(s) - 1
      BY <1>1, <1>2, <2>1, <2>3
    <3> QED
      BY <3>1 DEF ToSet
  <2> QED
    BY <2>2, <2>3
<1>4. ASSUME NEW x \in ToSet(Tail(s)) PROVE x \in ToSet(s)
  <2>1. PICK i \in 1 .. Len(s) - 1 : x = Tail(s)[i]
    BY <1>1, <1>2, <1>4 DEF ToSet
  <2>2. x = s[i + 1] /\ i + 1 \in DOMAIN s
    BY <1>1, <1>2, <2>1
  <2> QED
    BY <2>2 DEF ToSet
<1>5. Head(s) \in ToSet(s)
  BY <1>1, <1>2 DEF ToSet
<1> QED
  BY <1>3, <1>4, <1>5

\* What a loop may do to its page, in each of its steps.
LEMMA FetchPageStep ==
    ASSUME TypeOK, NEW j \in Jobs, NEW e \in Synced, FetchPage(j, e)
    PROVE  \E next \in [pc : RMs \cup {"off"}, page : Nat, todo : Seq(Item), more : BOOLEAN] :
              /\ loop' = [loop EXCEPT ![<<j, e>>] = next]
              /\ next.pc \in RMs => next.page > 0
              /\ \A i \in ToSet(next.todo) : i.rec \in Records /\ i.ver = crm[i.rec] /\ i.ver > 0
<1> DEFINE l == loop[<<j, e>>]
           list == Listed(lists[l.pc], e)
           start == Read(l)
           page == Page(list, start)
           full == [pc |-> l.pc, page |-> l.page + 1, todo |-> page,
                    more |-> e \in Paged /\ start + PageSize < Len(list)]
           next == EndIfDone(full)
<1>1. l.pc \in RMs /\ l.page \in Nat /\ l.page > 0
  BY DEF TypeOK, FetchPage
<1>2. PageSize \in Nat
  BY CrmAssumption
<1>3. start \in Nat
  BY <1>1, <1>2 DEF Read
<1>4. list \in Seq(Records) /\ \A n \in 1 .. Len(list) : list[n] \in Records /\ crm[list[n]] > 0
  <2>1. lists[l.pc] \in SUBSET Records /\ \A r \in lists[l.pc] : crm[r] > 0
    BY <1>1 DEF TypeOK
  <2> QED
    BY <2>1, ListedRecords
<1>5. loop' = [loop EXCEPT ![<<j, e>>] = next]
  BY DEF FetchPage
<1> HIDE DEF list, start
<1>6. /\ page \in Seq(Item)
      /\ \A k \in DOMAIN page : /\ k \in Nat /\ start + k \in 1 .. Len(list)
                                /\ page[k] = [rec |-> list[start + k], ver |-> crm[list[start + k]]]
  BY <1>2, <1>3, <1>4, PageOfItems
<1> HIDE DEF page
<1>7. \A i \in ToSet(page) : i.rec \in Records /\ i.ver = crm[i.rec] /\ i.ver > 0
  BY <1>4, <1>6 DEF ToSet
<1>8. full \in [pc : RMs \cup {"off"}, page : Nat, todo : Seq(Item), more : BOOLEAN]
  BY <1>1, <1>2, <1>3, <1>6
<1>9. next = full \/ next = LoopOff
  BY DEF EndIfDone
<1>10. /\ LoopOff \in [pc : RMs \cup {"off"}, page : Nat, todo : Seq(Item), more : BOOLEAN]
       /\ LoopOff.pc = "off" /\ ToSet(LoopOff.todo) = {}
  BY DEF LoopOff, ToSet
<1> HIDE DEF next
<1>11. full.page > 0 /\ full.todo = page
  BY <1>1
<1> HIDE DEF full
<1> QED
  BY <1>5, <1>7, <1>8, <1>9, <1>10, <1>11, CrmAssumption

\* A step of a loop replaces its page by the rest of it, by nothing, or by the next one.
LEMMA StoreStep ==
    ASSUME TypeOK, NEW j \in Jobs, NEW e \in Synced, StoreRecord(j, e) \/ StoreFails(j, e) \/ FetchFails(j, e)
    PROVE  \E next \in [pc : RMs \cup {"off"}, page : Nat, todo : Seq(Item), more : BOOLEAN] :
              /\ loop' = [loop EXCEPT ![<<j, e>>] = next]
              /\ next.pc \in RMs => next.page > 0
              /\ ToSet(next.todo) \subseteq ToSet(loop[<<j, e>>].todo)
<1> DEFINE l == loop[<<j, e>>]
           rest == [l EXCEPT !.todo = Tail(@)]
<1>1. /\ l \in [pc : RMs \cup {"off"}, page : Nat, todo : Seq(Item), more : BOOLEAN]
      /\ l.pc \in RMs => l.page > 0
  BY DEF TypeOK
<1>2. /\ LoopOff \in [pc : RMs \cup {"off"}, page : Nat, todo : Seq(Item), more : BOOLEAN]
      /\ LoopOff.pc = "off" /\ LoopOff.todo = <<>>
  BY DEF LoopOff
<1>3. ToSet(<<>>) = {}
  BY DEF ToSet
<1>4. CASE loop' = [loop EXCEPT ![<<j, e>>] = LoopOff]
  BY <1>2, <1>3, <1>4, CrmAssumption
<1>5. CASE l.todo # <<>> /\ loop' = [loop EXCEPT ![<<j, e>>] = rest]
  <2>1. Tail(l.todo) \in Seq(Item) /\ ToSet(Tail(l.todo)) \subseteq ToSet(l.todo)
    BY <1>1, <1>5, HeadAndTail
  <2> HIDE DEF l
  <2>2. rest \in [pc : RMs \cup {"off"}, page : Nat, todo : Seq(Item), more : BOOLEAN]
        /\ rest.pc = l.pc /\ rest.page = l.page /\ rest.todo = Tail(l.todo)
    BY <1>1, <2>1
  <2> QED
    BY <1>1, <1>5, <2>1, <2>2 DEF l
<1> QED
  BY <1>4, <1>5 DEF StoreRecord, StoreFails, FetchFails, EndIfDone

\* The types hold initially.
LEMMA TypeInit == CrmInit => TypeOK
<1> SUFFICES ASSUME CrmInit PROVE TypeOK
  OBVIOUS
<1> USE DEF CrmInit, LoopOff, NoWriteBack
<1>1. loop \in [Jobs \X Synced -> [pc : RMs \cup {"off"}, page : Nat, todo : Seq(Item), more : BOOLEAN]]
  OBVIOUS
<1>2. \A l \in Jobs \X Synced : loop[l].pc \in RMs => loop[l].page > 0
  BY CrmAssumption
<1>3. /\ crm \in [Records -> Nat] /\ lists \in [RMs -> SUBSET Records]
      /\ \A rm \in RMs : \A r \in lists[rm] : crm[r] > 0
  BY CrmAssumption
<1>5. mirror \in [Records -> Doc]
  BY CrmAssumption DEF Doc
<1>4. /\ wb \in [WriteBacks -> [pc : {"new", "crm", "mongo", "announce", "success", "failure"},
                              kind : Kinds \cup {"none"}, rec : Records \cup {"none"},
                              rm : RMs \cup {"none"}, ver : Nat]]
      /\ \A w \in WriteBacks : wb[w].pc = "new"
  OBVIOUS
<1> QED
  BY <1>1, <1>2, <1>3, <1>4, <1>5 DEF TypeOK

\* The types are preserved.
LEMMA TypeStep == TypeOK /\ [CrmNext]_cvars => TypeOK'
<1> SUFFICES ASSUME TypeOK, [CrmNext]_cvars PROVE TypeOK'
  OBVIOUS
<1> DEFINE Loop == [pc : RMs \cup {"off"}, page : Nat, todo : Seq(Item), more : BOOLEAN]
           Call == [pc : {"new", "crm", "mongo", "announce", "success", "failure"},
                    kind : Kinds \cup {"none"}, rec : Records \cup {"none"},
                              rm : RMs \cup {"none"}, ver : Nat]
           Calls(b) == /\ b \in [WriteBacks -> Call]
                       /\ \A w \in WriteBacks : b[w].pc \in {"crm", "mongo", "announce"} =>
                             /\ b[w].rec \in Records /\ b[w].ver > 0
                             /\ Entity[b[w].rec] = "pipeline" => b[w].pc # "crm" /\ b[w].ver = 1
           Books(c, ls) == /\ c \in [Records -> Nat] /\ ls \in [RMs -> SUBSET Records]
                           /\ \A rm \in RMs : \A r \in ls[rm] : c[r] > 0
           Loops(f) == /\ f \in [Jobs \X Synced -> Loop]
                       /\ \A l \in Jobs \X Synced : f[l].pc \in RMs => f[l].page > 0
<1>0. Loops(loop) /\ Calls(wb) /\ Books(crm, lists)
  BY DEF TypeOK
<1>a. ASSUME Loops(loop'), Calls(wb'), Books(crm', lists'),
             mirror' \in [Records -> Doc],
             jpc' \in [Jobs -> {"idle", "distinct", "sync", "status"}],
             agenda' \in [Jobs -> SUBSET RMs] /\ covered' \subseteq RMs, confirmed' \subseteq Item
      PROVE  TypeOK'
  BY <1>a DEF TypeOK
<1>b. /\ crm \in [Records -> Nat] /\ mirror \in [Records -> Doc]
      /\ jpc \in [Jobs -> {"idle", "distinct", "sync", "status"}]
      /\ agenda \in [Jobs -> SUBSET RMs] /\ covered \subseteq RMs /\ confirmed \subseteq Item
      /\ lists \in [RMs -> SUBSET Records]
  BY DEF TypeOK
<1>c. ASSUME NEW x \in Records, crm' = [crm EXCEPT ![x] = @ + 1], lists' \in [RMs -> SUBSET Records],
             \A rm \in RMs : lists'[rm] \subseteq lists[rm] \cup {x}
      PROVE  Books(crm', lists')
  BY <1>0, <1>b, <1>c
<1> HIDE DEF Loops, Calls, Books
<1>1. CASE UNCHANGED cvars
  BY <1>0, <1>1, <1>a, <1>b DEF cvars
<1>2. CASE StartFullSync
  BY <1>0, <1>2, <1>a, <1>b DEF StartFullSync, Jobs
<1>3. ASSUME NEW rm \in RMs, StartLoginSync(rm) PROVE TypeOK'
  BY <1>0, <1>3, <1>a, <1>b DEF StartLoginSync, Jobs
<1>4. ASSUME NEW j \in Jobs, NEW rm \in RMs, SyncRM(j, rm) PROVE TypeOK'
  <2>1. Loops(loop')
    BY <1>0, <1>4 DEF Loops, SyncRM
  <2> QED
    BY <1>0, <1>4, <1>a, <1>b, <2>1 DEF SyncRM
<1>5. CASE GetActiveRMIds
  <2>1. \A r \in Records : mirror[r].rm \in RMs \cup {"none"}
    BY <1>b DEF Doc
  <2>2. covered' \subseteq RMs /\ agenda' = [agenda EXCEPT !["full"] = covered']
    BY <1>5, <2>1 DEF GetActiveRMIds
  <2> QED
    BY <1>0, <1>5, <1>a, <1>b, <2>2 DEF GetActiveRMIds
<1>6. CASE PublishCompleted \/ FinishFullSync \/ FinishLoginSync
  BY <1>0, <1>6, <1>a, <1>b DEF PublishCompleted, FinishFullSync, FinishLoginSync
<1>7. ASSUME NEW j \in Jobs, NEW e \in Synced, LoopStep(j, e) PROVE TypeOK'
  <2>1. PICK next \in Loop : loop' = [loop EXCEPT ![<<j, e>>] = next] /\ (next.pc \in RMs => next.page > 0)
    BY <1>7, FetchPageStep, StoreStep DEF LoopStep
  <2>2. Loops(loop')
    BY <1>0, <2>1 DEF Loops
  <2>3. UNCHANGED <<crm, lists, jpc, agenda, covered, wb, confirmed>>
    BY <1>7 DEF LoopStep, FetchPage, FetchFails, StoreRecord, StoreFails
  <2>4. mirror' \in [Records -> Doc]
    <3>1. CASE UNCHANGED mirror
      BY <1>b, <3>1
    <3>2. CASE StoreRecord(j, e)
      <4>1. loop[<<j, e>>].todo \in Seq(Item) /\ loop[<<j, e>>].todo # <<>>
        BY <3>2 DEF TypeOK, StoreRecord
      <4>2. Head(loop[<<j, e>>].todo) \in Item
        BY <4>1, HeadAndTail
      <4> DEFINE i == Head(loop[<<j, e>>].todo)
      <4>3. \/ UNCHANGED mirror
            \/ mirror' = [mirror EXCEPT ![i.rec] = [ver |-> i.ver, rm |-> loop[<<j, e>>].pc, stamped |-> TRUE]]
        BY <3>2 DEF StoreRecord, Upsert
      <4>6. loop[<<j, e>>].pc \in RMs
        BY <3>2 DEF StoreRecord
      <4>4. i \in Item
        BY <4>2
      <4> HIDE DEF i
      <4>5. i.rec \in Records /\ [ver |-> i.ver, rm |-> loop[<<j, e>>].pc, stamped |-> TRUE] \in Doc
        BY ONLY <4>4, <4>6 DEF Item, Doc
      <4> QED
        BY ONLY <1>b, <4>3, <4>5
    <3> QED
      BY <1>7, <3>1, <3>2 DEF LoopStep, FetchPage, FetchFails, StoreFails
  <2> QED
    BY <1>0, <1>a, <1>b, <2>2, <2>3, <2>4
<1>8. ASSUME NEW w \in WriteBacks, NEW k \in Kinds, NEW r \in Records, NEW rm \in RMs \cup {"none"},
             StartWriteBack(w, k, r, rm)
      PROVE  TypeOK'
  <2>0. Entity[r] = "pipeline" <=> k = "CREATE_PIPELINE"
    BY <1>8 DEF StartWriteBack, Kinds, Target
  <2>1. Calls(wb')
    <3> DEFINE call == [pc |-> IF k = "CREATE_PIPELINE" THEN "mongo" ELSE "crm", kind |-> k, rec |-> r,
                        rm |-> rm, ver |-> 1]
    <3>1. call \in Call /\ call.rec = r /\ call.ver = 1 /\ (k = "CREATE_PIPELINE" => call.pc = "mongo")
      OBVIOUS
    <3>2. wb' = [wb EXCEPT ![w] = call]
      BY <1>8 DEF StartWriteBack
    <3> HIDE DEF call
    <3> QED
      BY <1>0, <2>0, <3>1, <3>2 DEF Calls
  <2> QED
    BY <1>0, <1>8, <1>a, <1>b, <2>1 DEF StartWriteBack
<1>9. ASSUME NEW w \in WriteBacks, wb' = [wb EXCEPT ![w].pc = "failure"] PROVE Calls(wb')
  BY <1>0, <1>9 DEF Calls
<1>10. ASSUME NEW w \in WriteBacks, wb[w].rec \in Records, Apply(w) PROVE Books(crm', lists')
  BY <1>b, <1>c, <1>10 DEF Apply
<1>11. ASSUME NEW w \in WriteBacks, RejectWriteBack(w) \/ StoreWriteBackFails(w) PROVE TypeOK'
  BY <1>0, <1>9, <1>11, <1>a, <1>b DEF RejectWriteBack, StoreWriteBackFails, Goto
<1>12. ASSUME NEW w \in WriteBacks, CrmAccepts(w) PROVE TypeOK'
  <2>1. wb[w].rec \in Records /\ crm[wb[w].rec] \in Nat
    BY <1>0, <1>12, <1>b DEF Calls, CrmAccepts
  <2>2. Calls(wb')
    <3> DEFINE b == wb[w]
               v == crm[b.rec] + 1
               changed == [[b EXCEPT !.pc = "mongo"] EXCEPT !.ver = v]
               one == [wb EXCEPT ![w] = [b EXCEPT !.pc = "mongo"]]
    <3>1. b \in Call /\ b.rec \in Records /\ Entity[b.rec] # "pipeline" /\ v \in Nat /\ v > 0
      BY <1>0, <1>12, <2>1 DEF Calls, CrmAccepts
    <3>2. wb \in [WriteBacks -> Call] /\ b = wb[w]
      BY <1>0 DEF Calls
    <3>3. wb' = [one EXCEPT ![w] = [one[w] EXCEPT !.ver = v]]
      BY <1>12 DEF CrmAccepts
    <3> HIDE DEF b, v
    <3>4. one[w] = [b EXCEPT !.pc = "mongo"] /\ DOMAIN one = WriteBacks /\ \A x \in WriteBacks \ {w} : one[x] = wb[x]
      BY ONLY <3>2
    <3> HIDE DEF one
    <3>5. wb' = [wb EXCEPT ![w] = changed]
      BY ONLY <3>2, <3>3, <3>4
    <3> DEFINE half == [b EXCEPT !.pc = "mongo"]
    <3>6. half \in Call /\ half.rec = b.rec
      BY ONLY <3>1
    <3> HIDE DEF half
    <3>7. [half EXCEPT !.ver = v] \in Call /\ [half EXCEPT !.ver = v].rec = b.rec /\ [half EXCEPT !.ver = v].ver = v
      BY ONLY <3>1, <3>6
    <3>8. changed \in Call /\ changed.rec = b.rec /\ changed.ver = v
      BY ONLY <3>7 DEF half
    <3> HIDE DEF changed
    <3> QED
      BY <1>0, <3>1, <3>5, <3>8 DEF Calls
  <2> QED
    BY <1>0, <1>10, <1>12, <1>a, <1>b, <2>1, <2>2 DEF CrmAccepts
<1>13. ASSUME NEW w \in WriteBacks, CrmFails(w) PROVE TypeOK'
  <2>1. wb[w].rec \in Records
    BY <1>0, <1>13 DEF Calls, CrmFails
  <2>2. Books(crm', lists')
    <3>1. CASE UNCHANGED <<crm, lists, touched>>
      BY <1>0, <3>1
    <3> QED
      BY <1>10, <1>13, <2>1, <3>1 DEF CrmFails
  <2> QED
    BY <1>0, <1>9, <1>13, <1>a, <1>b, <2>2 DEF CrmFails, Goto
<1>14. ASSUME NEW w \in WriteBacks, StoreWriteBack(w) PROVE TypeOK'
  <2>1. Calls(wb')
    BY <1>0, <1>14 DEF Calls, StoreWriteBack, Goto
  <2>2. wb[w].ver \in Nat /\ wb[w].rm \in RMs \cup {"none"} /\ wb[w].rec \in Records
    BY <1>0, <1>14 DEF Calls, StoreWriteBack
  <2>3. (IF wb[w].rm = "none" THEN mirror[wb[w].rec].rm ELSE wb[w].rm) \in RMs \cup {"none"}
    BY <1>b, <2>2 DEF Doc
  <2>4. mirror' \in [Records -> Doc]
    BY <1>14, <1>b, <2>2, <2>3 DEF StoreWriteBack, Upsert, Doc
  <2> QED
    BY <1>0, <1>14, <1>a, <1>b, <2>1, <2>4 DEF StoreWriteBack
<1>15. ASSUME NEW w \in WriteBacks, Announce(w) PROVE TypeOK'
  <2>1. Calls(wb')
    BY <1>0, <1>15 DEF Calls, Announce, Goto
  <2>2. [rec |-> wb[w].rec, ver |-> wb[w].ver] \in Item
    BY <1>0, <1>15 DEF Calls, Announce, Item
  <2> QED
    BY <1>0, <1>15, <1>a, <1>b, <2>1, <2>2 DEF Announce
<1>16. ASSUME NEW r \in Records, NEW to \in SUBSET RMs, CrmEdit(r, to) PROVE TypeOK'
  <2>1. /\ crm' = [crm EXCEPT ![r] = @ + 1]
        /\ lists' = [rm \in RMs |-> IF rm \in to THEN lists[rm] \cup {r} ELSE lists[rm] \ {r}]
    BY <1>16 DEF CrmEdit
  <2>2. Books(crm', lists')
    BY <1>b, <1>c, <2>1
  <2> QED
    BY <1>0, <1>16, <1>a, <1>b, <2>2 DEF CrmEdit
<1>17. CASE CrmCrash
  <2>1. Loops(loop')
    BY <1>17, CrmAssumption DEF Loops, CrmCrash, LoopOff
  <2>2. Calls(wb')
    BY <1>0, <1>17 DEF Calls, CrmCrash
  <2> QED
    BY <1>0, <1>17, <1>a, <1>b, <2>1, <2>2 DEF CrmCrash
<1>18. Logins \subseteq RMs /\ \A c \in Changes : c.rec \in Records /\ c.to \in SUBSET RMs
  BY CrmAssumption
<1> QED
  BY <1>1, <1>2, <1>3, <1>4, <1>5, <1>6, <1>7, <1>8, <1>11, <1>12, <1>13, <1>14, <1>15, <1>16, <1>17, <1>18
  DEF CrmNext, SyncStep, JobStep, WriteBackStep

\* What may come to be on its way to MongoDB in a step: the CRM's version of a record, or a
\* new one of the pipeline.
Fresh(i) ==
    \/ i.rec \in Records /\ i.ver = crm'[i.rec] /\ i.ver > 0
    \/ i.rec \in touched' /\ Entity[i.rec] = "pipeline" /\ i.ver = 1

\* What a step puts on its way to MongoDB is fresh; the rest was on its way before.
LEMMA CarriedStep == TypeOK /\ [CrmNext]_cvars => \A i \in Carried' : i \in Carried \/ Fresh(i)
<1> SUFFICES ASSUME TypeOK, [CrmNext]_cvars PROVE \A i \in Carried' : i \in Carried \/ Fresh(i)
  OBVIOUS
<1> DEFINE Kept(l) == \A i \in ToSet(loop'[l].todo) : i \in ToSet(loop[l].todo) \/ Fresh(i)
           Same(w) == \/ wb[w].pc = "mongo" /\ wb'[w].rec = wb[w].rec /\ wb'[w].ver = wb[w].ver
                      \/ Fresh([rec |-> wb'[w].rec, ver |-> wb'[w].ver])
           Goal == \A i \in Carried' : i \in Carried \/ Fresh(i)
<1>t. TypeOK'
  BY TypeStep
<1>a. ASSUME \A l \in Jobs \X Synced : Kept(l), \A w \in WriteBacks : wb'[w].pc = "mongo" => Same(w)
      PROVE  Goal
  <2> SUFFICES ASSUME NEW i \in Carried' PROVE i \in Carried \/ Fresh(i)
    OBVIOUS
  <2>1. \/ \E l \in Jobs \X Synced : i \in ToSet(loop'[l].todo)
        \/ \E w \in WriteBacks : wb'[w].pc = "mongo" /\ i = [rec |-> wb'[w].rec, ver |-> wb'[w].ver]
    <3> DEFINE pages == UNION {ToSet(loop'[l].todo) : l \in Jobs \X Synced}
               calls == {[rec |-> wb'[w].rec, ver |-> wb'[w].ver] : w \in {x \in WriteBacks : wb'[x].pc = "mongo"}}
    <3>1. Carried' = pages \cup calls
      BY Zenon DEF Carried
    <3>2. i \in calls => \E w \in WriteBacks : wb'[w].pc = "mongo" /\ i = [rec |-> wb'[w].rec, ver |-> wb'[w].ver]
      OBVIOUS
    <3>3. i \in pages => \E l \in Jobs \X Synced : i \in ToSet(loop'[l].todo)
      OBVIOUS
    <3> HIDE DEF pages, calls
    <3> QED
      BY <3>1, <3>2, <3>3
  <2>2. CASE \E l \in Jobs \X Synced : i \in ToSet(loop'[l].todo)
    BY <1>a, <2>2, CarriedItems
  <2>3. CASE \E w \in WriteBacks : wb'[w].pc = "mongo" /\ i = [rec |-> wb'[w].rec, ver |-> wb'[w].ver]
    BY <1>a, <2>3, CarriedItems
  <2> QED
    BY <2>1, <2>2, <2>3
<1>b. ASSUME UNCHANGED wb PROVE \A w \in WriteBacks : wb'[w].pc = "mongo" => Same(w)
  BY <1>b
<1>c. ASSUME UNCHANGED loop PROVE \A l \in Jobs \X Synced : Kept(l)
  BY <1>c
<1>d. ASSUME NEW w \in WriteBacks, UNCHANGED loop, \A x \in WriteBacks \ {w} : wb'[x] = wb[x],
             wb'[w].pc = "mongo" => Same(w)
      PROVE  Goal
  BY <1>a, <1>c, <1>d
<1>e. LoopOff.todo = <<>> /\ ToSet(<<>>) = {}
  BY DEF LoopOff, ToSet
<1>w. wb \in [WriteBacks -> [pc : {"new", "crm", "mongo", "announce", "success", "failure"},
                              kind : Kinds \cup {"none"}, rec : Records \cup {"none"},
                              rm : RMs \cup {"none"}, ver : Nat]]
  BY DEF TypeOK
<1> HIDE DEF Kept, Same, Goal
<1>1. CASE UNCHANGED <<loop, wb>>
  <2>1. UNCHANGED loop /\ UNCHANGED wb
    BY <1>1
  <2>2. \A l \in Jobs \X Synced : Kept(l)
    BY <1>c, <2>1
  <2>3. \A w \in WriteBacks : wb'[w].pc = "mongo" => Same(w)
    BY <1>b, <2>1
  <2> QED
    BY <1>a, <2>2, <2>3 DEF Goal
<1>2. ASSUME NEW j \in Jobs, NEW rm \in RMs, SyncRM(j, rm) PROVE Goal
  <2>1. \A l \in Jobs \X Synced : loop'[l].todo \in {<<>>, loop[l].todo}
    BY <1>2 DEF SyncRM
  <2> QED
    BY <1>2, <1>a, <1>b, <1>e, <2>1 DEF SyncRM, Kept
<1>3. ASSUME NEW j \in Jobs, NEW e \in Synced, LoopStep(j, e) PROVE Goal
  <2>1. \E next \in [pc : RMs \cup {"off"}, page : Nat, todo : Seq(Item), more : BOOLEAN] :
          /\ loop' = [loop EXCEPT ![<<j, e>>] = next]
          /\ \A i \in ToSet(next.todo) : i \in ToSet(loop[<<j, e>>].todo)
                                         \/ (i.rec \in Records /\ i.ver = crm[i.rec] /\ i.ver > 0)
    <3>1. CASE FetchPage(j, e)
      BY <3>1, FetchPageStep
    <3>2. CASE StoreRecord(j, e) \/ StoreFails(j, e) \/ FetchFails(j, e)
      BY <3>2, StoreStep
    <3> QED
      BY <1>3, <3>1, <3>2 DEF LoopStep
  <2>2. UNCHANGED <<crm, wb>>
    BY <1>3 DEF LoopStep, FetchPage, FetchFails, StoreRecord, StoreFails
  <2>3. \A l \in Jobs \X Synced : Kept(l)
    <3>1. PICK next : /\ loop' = [loop EXCEPT ![<<j, e>>] = next]
                      /\ \A i \in ToSet(next.todo) : i \in ToSet(loop[<<j, e>>].todo)
                                         \/ (i.rec \in Records /\ i.ver = crm[i.rec] /\ i.ver > 0)
      BY <2>1
    <3>2. loop'[<<j, e>>] = next /\ \A l \in (Jobs \X Synced) \ {<<j, e>>} : loop'[l] = loop[l]
      BY <3>1 DEF TypeOK
    <3> QED
      BY ONLY <2>2, <3>1, <3>2 DEF Kept, Fresh
  <2> QED
    BY <1>a, <1>b, <2>2, <2>3
<1>4. ASSUME NEW w \in WriteBacks, NEW k \in Kinds, NEW r \in Records, NEW rm \in RMs \cup {"none"},
             StartWriteBack(w, k, r, rm)
      PROVE  Goal
  <2>1. /\ UNCHANGED loop /\ \A x \in WriteBacks \ {w} : wb'[x] = wb[x]
        /\ wb'[w].pc = "mongo" => wb'[w].rec = r /\ wb'[w].ver = 1 /\ Entity[r] = "pipeline" /\ r \in touched'
    <3> DEFINE call == [pc |-> IF k = "CREATE_PIPELINE" THEN "mongo" ELSE "crm", kind |-> k, rec |-> r, rm |-> rm, ver |-> 1]
    <3>1. call.rec = r /\ call.ver = 1 /\ (call.pc = "mongo" => k = "CREATE_PIPELINE")
      OBVIOUS
    <3>2. wb' = [wb EXCEPT ![w] = call] /\ UNCHANGED loop /\ r \in touched' /\ Entity[r] = Target[k]
      BY <1>4 DEF StartWriteBack
    <3>3. k = "CREATE_PIPELINE" => Target[k] = "pipeline"
      BY DEF Target
    <3> HIDE DEF call
    <3>4. wb'[w] = call /\ \A x \in WriteBacks \ {w} : wb'[x] = wb[x]
      BY <1>w, <3>2
    <3> QED
      BY <3>1, <3>2, <3>3, <3>4
  <2>2. wb'[w].pc = "mongo" => Same(w)
    BY <2>1 DEF Same, Fresh
  <2> QED
    BY <1>d, <2>1, <2>2
<1>5. ASSUME NEW w \in WriteBacks, CrmAccepts(w) PROVE Goal
  <2>1. /\ UNCHANGED loop /\ \A x \in WriteBacks \ {w} : wb'[x] = wb[x]
        /\ wb'[w].rec = wb[w].rec /\ wb'[w].ver = crm[wb[w].rec] + 1
        /\ crm' = [crm EXCEPT ![wb[w].rec] = @ + 1]
    BY <1>5, <1>w DEF CrmAccepts, Apply
  <2>2. wb[w].rec \in Records /\ crm \in [Records -> Nat]
    BY <1>5 DEF CrmAccepts, TypeOK
  <2>3. crm'[wb[w].rec] = crm[wb[w].rec] + 1 /\ crm[wb[w].rec] + 1 > 0
    BY ONLY <2>1, <2>2
  <2>4. Same(w)
    BY ONLY <2>1, <2>2, <2>3 DEF Same, Fresh
  <2> QED
    BY <1>d, <2>1, <2>4
<1>6. ASSUME NEW w \in WriteBacks, \/ RejectWriteBack(w) \/ CrmFails(w) \/ StoreWriteBack(w)
                                 \/ StoreWriteBackFails(w) \/ Announce(w)
      PROVE  Goal
  <2>1. /\ UNCHANGED loop
        /\ \E pc \in {"failure", "announce", "success"} : wb' = [wb EXCEPT ![w] = [@ EXCEPT !.pc = pc]]
    BY <1>6 DEF RejectWriteBack, CrmFails, StoreWriteBack, StoreWriteBackFails, Announce, Goto
  <2>2. wb'[w].pc # "mongo" /\ \A x \in WriteBacks \ {w} : wb'[x] = wb[x]
    BY <1>w, <2>1
  <2> QED
    BY <1>d, <2>1, <2>2
<1>7. CASE CrmCrash
  <2>1. \A l \in Jobs \X Synced : loop'[l].todo = <<>>
    BY <1>7, <1>e DEF CrmCrash
  <2>2. \A x \in WriteBacks : wb'[x].pc # "mongo"
    BY <1>7, <1>w DEF CrmCrash
  <2>3. \A l \in Jobs \X Synced : Kept(l)
    BY <1>e, <2>1 DEF Kept
  <2>4. \A w \in WriteBacks : wb'[w].pc = "mongo" => Same(w)
    BY <2>2
  <2> QED
    BY <1>a, <2>3, <2>4 DEF Goal
<1>8. CASE \/ UNCHANGED cvars \/ StartFullSync \/ GetActiveRMIds \/ PublishCompleted \/ FinishFullSync
           \/ FinishLoginSync \/ (\E rm \in Logins : StartLoginSync(rm)) \/ (\E c \in Changes : CrmEdit(c.rec, c.to))
  BY <1>1, <1>8 DEF cvars, StartFullSync, GetActiveRMIds, PublishCompleted, FinishFullSync, FinishLoginSync,
                    StartLoginSync, CrmEdit
<1> QED
  BY <1>2, <1>3, <1>4, <1>5, <1>6, <1>7, <1>8 DEF CrmNext, SyncStep, JobStep, WriteBackStep, Goal

\* Nothing is taken back in the CRM; and MongoDB gets what was on its way there.
LEMMA StoresStep ==
    TypeOK /\ [CrmNext]_cvars => \A r \in Records :
        /\ crm'[r] >= crm[r] /\ (crm'[r] # crm[r] => r \in touched')
        /\ mirror'[r] = mirror[r] \/ \E i \in Carried : i.rec = r /\ mirror'[r].ver = i.ver
<1> SUFFICES ASSUME TypeOK, [CrmNext]_cvars, NEW r \in Records
             PROVE  /\ crm'[r] >= crm[r] /\ (crm'[r] # crm[r] => r \in touched')
                    /\ mirror'[r] = mirror[r] \/ \E i \in Carried : i.rec = r /\ mirror'[r].ver = i.ver
  OBVIOUS
<1> DEFINE Stored == mirror'[r] = mirror[r] \/ \E i \in Carried : i.rec = r /\ mirror'[r].ver = i.ver
           Grown == crm'[r] >= crm[r] /\ (crm'[r] # crm[r] => r \in touched')
<1>0. crm[r] \in Nat /\ crm \in [Records -> Nat]
  BY DEF TypeOK
<1>1. ASSUME NEW i \in Carried, NEW rm, Upsert(i.rec, i.ver, rm) PROVE Stored
  <2>1. i.rec \in Records /\ mirror \in [Records -> Doc]
    BY CarriedItems DEF Item, TypeOK
  <2>2. mirror' = [mirror EXCEPT ![i.rec] = [ver |-> i.ver, rm |-> rm, stamped |-> TRUE]]
    BY <1>1 DEF Upsert
  <2>3. i.rec # r => mirror'[r] = mirror[r]
    BY ONLY <2>1, <2>2
  <2>4. i.rec = r => mirror'[r].ver = i.ver
    BY ONLY <2>1, <2>2
  <2> QED
    BY <2>3, <2>4
<1>2. ASSUME NEW x \in Records, crm' = [crm EXCEPT ![x] = @ + 1], touched' = touched \cup {x} PROVE Grown
  BY <1>0, <1>2
<1> HIDE DEF Stored, Grown
<1>3. UNCHANGED mirror => Stored
  BY DEF Stored
<1>4. UNCHANGED crm => Grown
  BY <1>0 DEF Grown
<1>5. ASSUME NEW j \in Jobs, NEW e \in Synced, StoreRecord(j, e) PROVE Stored
  <2> DEFINE i == Head(loop[<<j, e>>].todo)
  <2>1. loop[<<j, e>>].todo \in Seq(Item) /\ loop[<<j, e>>].todo # <<>> /\ <<j, e>> \in Jobs \X Synced
    BY <1>5 DEF StoreRecord, TypeOK
  <2>2. i \in ToSet(loop[<<j, e>>].todo)
    BY <2>1, HeadAndTail
  <2>3. i \in Carried
    BY <2>1, <2>2, CarriedItems
  <2>4. UNCHANGED mirror \/ Upsert(i.rec, i.ver, loop[<<j, e>>].pc)
    BY <1>5 DEF StoreRecord
  <2> QED
    BY <1>1, <1>3, <2>3, <2>4
<1>6. ASSUME NEW w \in WriteBacks, StoreWriteBack(w) PROVE Stored
  <2>1. [rec |-> wb[w].rec, ver |-> wb[w].ver] \in Carried
    BY <1>6, CarriedItems DEF StoreWriteBack
  <2> QED
    BY <1>1, <1>6, <2>1 DEF StoreWriteBack
<1>7. ASSUME NEW w \in WriteBacks, CrmAccepts(w) \/ CrmFails(w) PROVE Grown
  <2>1. wb[w].rec \in Records
    BY <1>7 DEF CrmAccepts, CrmFails, TypeOK
  <2> QED
    BY <1>2, <1>4, <1>7, <2>1 DEF CrmAccepts, CrmFails, Apply
<1>8. ASSUME NEW c \in Changes, CrmEdit(c.rec, c.to) PROVE Grown
  <2>1. c.rec \in Records
    BY CrmAssumption
  <2> QED
    BY <1>2, <1>8, <2>1 DEF CrmEdit
<1>9. Stored
  <2>1. ASSUME NEW j \in Jobs, JobStep(j) \/ \E e \in Synced : LoopStep(j, e) PROVE Stored
    <3>1. (\E e \in Synced : StoreRecord(j, e)) \/ UNCHANGED mirror
      BY <2>1 DEF JobStep, LoopStep, SyncRM, GetActiveRMIds, PublishCompleted, FinishFullSync, FinishLoginSync,
                  FetchPage, FetchFails, StoreFails
    <3> QED
      BY <1>3, <1>5, <3>1
  <2>2. ASSUME NEW w \in WriteBacks, WriteBackStep(w) PROVE Stored
    BY <1>3, <1>6, <2>2 DEF WriteBackStep, RejectWriteBack, CrmAccepts, CrmFails, StoreWriteBackFails, Announce
  <2>3. CASE \/ StartFullSync \/ (\E rm \in Logins : StartLoginSync(rm)) \/ (\E c \in Changes : CrmEdit(c.rec, c.to)) \/ CrmCrash
             \/ (\E w \in WriteBacks, k \in Kinds, x \in Records, rm \in RMs \cup {"none"} : StartWriteBack(w, k, x, rm)) \/ UNCHANGED cvars
    <3>1. UNCHANGED mirror
      BY <2>3 DEF StartFullSync, StartLoginSync, CrmEdit, CrmCrash, StartWriteBack, cvars
    <3> QED
      BY <1>3, <3>1
  <2> QED
    BY <2>1, <2>2, <2>3 DEF CrmNext, SyncStep
<1>10. Grown
  <2>1. ASSUME NEW j \in Jobs, JobStep(j) \/ \E e \in Synced : LoopStep(j, e) PROVE Grown
    <3>1. UNCHANGED crm
      BY <2>1 DEF JobStep, LoopStep, SyncRM, GetActiveRMIds, PublishCompleted, FinishFullSync, FinishLoginSync,
                  FetchPage, FetchFails, StoreFails, StoreRecord
    <3> QED
      BY <1>4, <3>1
  <2>2. ASSUME NEW w \in WriteBacks, WriteBackStep(w) PROVE Grown
    BY <1>4, <1>7, <2>2 DEF WriteBackStep, RejectWriteBack, StoreWriteBack, StoreWriteBackFails, Announce
  <2>3. CASE \/ StartFullSync \/ (\E rm \in Logins : StartLoginSync(rm)) \/ CrmCrash \/ UNCHANGED cvars
             \/ (\E w \in WriteBacks, k \in Kinds, x \in Records, rm \in RMs \cup {"none"} : StartWriteBack(w, k, x, rm))
    <3>1. UNCHANGED crm
      BY <2>3 DEF StartFullSync, StartLoginSync, CrmCrash, StartWriteBack, cvars
    <3> QED
      BY <1>4, <3>1
  <2> QED
    BY <1>8, <2>1, <2>2, <2>3 DEF CrmNext, SyncStep
<1> QED
  BY <1>9, <1>10 DEF Stored, Grown

\* The service's own calls only add to the CRM's lists; and whatever is added was touched.
LEMMA ListsStep ==
    TypeOK /\ [CrmNext]_cvars =>
        /\ (\A rm \in RMs : lists[rm] \subseteq lists'[rm]) \/ \E c \in Changes : CrmEdit(c.rec, c.to)
        /\ \A rm \in RMs : \A r \in lists'[rm] \ lists[rm] : r \in touched'
<1> DEFINE More == \A rm \in RMs : lists[rm] \subseteq lists'[rm]
           Told == \A rm \in RMs : \A r \in lists'[rm] \ lists[rm] : r \in touched'
<1> SUFFICES ASSUME TypeOK, [CrmNext]_cvars
             PROVE  (More \/ \E c \in Changes : CrmEdit(c.rec, c.to)) /\ Told
  OBVIOUS
<1>1. UNCHANGED lists => More /\ Told
  OBVIOUS
<1>2. ASSUME NEW w \in WriteBacks, Apply(w) PROVE More /\ Told
  BY <1>2 DEF Apply
<1>3. ASSUME NEW c \in Changes, CrmEdit(c.rec, c.to) PROVE Told
  BY <1>3 DEF CrmEdit
<1> HIDE DEF More, Told
<1>4. ASSUME NEW w \in WriteBacks, WriteBackStep(w) PROVE More /\ Told
  BY <1>1, <1>2, <1>4 DEF WriteBackStep, RejectWriteBack, CrmAccepts, CrmFails, StoreWriteBack, StoreWriteBackFails,
                          Announce
<1>5. ASSUME NEW j \in Jobs, NEW e \in Synced, LoopStep(j, e) PROVE More /\ Told
  BY <1>1, <1>5 DEF LoopStep, FetchPage, FetchFails, StoreRecord, StoreFails
<1>6. ASSUME NEW j \in Jobs, JobStep(j) PROVE More /\ Told
  BY <1>1, <1>6 DEF JobStep, SyncRM, GetActiveRMIds, PublishCompleted, FinishFullSync, FinishLoginSync
<1>7. CASE \/ StartFullSync \/ (\E rm \in Logins : StartLoginSync(rm)) \/ CrmCrash \/ UNCHANGED cvars
           \/ (\E w \in WriteBacks, k \in Kinds, x \in Records, rm \in RMs \cup {"none"} : StartWriteBack(w, k, x, rm))
  BY <1>1, <1>7 DEF StartFullSync, StartLoginSync, CrmCrash, StartWriteBack, cvars
<1> QED
  BY <1>3, <1>4, <1>5, <1>6, <1>7 DEF CrmNext, SyncStep

\* The record and version of every write-back that reached MongoDB.
Done == confirmed \cup {[rec |-> wb[w].rec, ver |-> wb[w].ver] : w \in {x \in WriteBacks : wb[x].pc = "announce"}}

\* Neither MongoDB nor what is on its way there is ahead of the CRM; and what was written
\* back stays unless it was raced, for nothing older is on its way.
MirrorInv ==
    /\ \A i \in Carried : i.ver > 0 /\ (Entity[i.rec] # "pipeline" => i.ver <= crm[i.rec])
    /\ \A r \in Records : Entity[r] # "pipeline" => mirror[r].ver <= crm[r]
    /\ \A i \in Done :
          /\ i \in Item /\ mirror[i.rec].ver > 0
          /\ IF Entity[i.rec] = "pipeline" THEN i.ver = 1 ELSE i.ver <= crm[i.rec]
          /\ i.rec \notin raced => /\ mirror[i.rec].ver >= i.ver
                                 /\ \A c \in Carried : c.rec = i.rec => c.ver >= i.ver

\* A write-back joins Done when it is stored in MongoDB.
LEMMA DoneStep ==
    TypeOK /\ [CrmNext]_cvars =>
        /\ raced \subseteq raced'
        /\ \A i \in Done' : i \in Done \/ \E w \in WriteBacks : StoreWriteBack(w) /\ i = [rec |-> wb[w].rec, ver |-> wb[w].ver]
<1> SUFFICES ASSUME TypeOK, [CrmNext]_cvars
             PROVE  /\ raced \subseteq raced'
                    /\ \A i \in Done' : i \in Done \/ \E w \in WriteBacks :
                          StoreWriteBack(w) /\ i = [rec |-> wb[w].rec, ver |-> wb[w].ver]
  OBVIOUS
<1> DEFINE Goal == \A i \in Done' : i \in Done \/ \E w \in WriteBacks :
                       StoreWriteBack(w) /\ i = [rec |-> wb[w].rec, ver |-> wb[w].ver]
           New(x) == StoreWriteBack(x) /\ wb'[x].rec = wb[x].rec /\ wb'[x].ver = wb[x].ver
           Old(x) == wb[x].pc = "announce" /\ wb'[x].rec = wb[x].rec /\ wb'[x].ver = wb[x].ver
<1>w. wb \in [WriteBacks -> [pc : {"new", "crm", "mongo", "announce", "success", "failure"},
                              kind : Kinds \cup {"none"}, rec : Records \cup {"none"},
                              rm : RMs \cup {"none"}, ver : Nat]]
  BY DEF TypeOK
<1>d. /\ \A i : i \in Done <=> i \in confirmed \/ \E w \in WriteBacks :
                wb[w].pc = "announce" /\ i = [rec |-> wb[w].rec, ver |-> wb[w].ver]
      /\ \A i : i \in Done' <=> i \in confirmed' \/ \E w \in WriteBacks :
                wb'[w].pc = "announce" /\ i = [rec |-> wb'[w].rec, ver |-> wb'[w].ver]
  BY DEF Done
<1>a. ASSUME UNCHANGED confirmed, \A x \in WriteBacks : wb'[x].pc = "announce" => Old(x) \/ New(x)
      PROVE  Goal
  BY <1>a, <1>d
<1>b. ASSUME NEW w \in WriteBacks, NEW call, wb' = [wb EXCEPT ![w] = call]
      PROVE  wb'[w] = call /\ \A x \in WriteBacks \ {w} : wb'[x] = wb[x]
  BY <1>w, <1>b
<1> HIDE DEF Goal
<1>1. ASSUME NEW w \in WriteBacks, StoreWriteBack(w) PROVE Goal
  <2>1. wb' = [wb EXCEPT ![w] = [wb[w] EXCEPT !.pc = "announce"]] /\ UNCHANGED confirmed
    BY <1>1 DEF StoreWriteBack, Goto
  <2>2. New(w)
    BY <1>1, <1>b, <1>w, <2>1
  <2> QED
    BY <1>a, <1>b, <2>1, <2>2
<1>2. ASSUME NEW w \in WriteBacks, Announce(w) PROVE Goal
  <2>1. /\ wb' = [wb EXCEPT ![w] = [wb[w] EXCEPT !.pc = "success"]] /\ wb[w].pc = "announce"
        /\ confirmed' = confirmed \cup {[rec |-> wb[w].rec, ver |-> wb[w].ver]}
    BY <1>2 DEF Announce, Goto
  <2>2. wb'[w].pc = "success" /\ \A x \in WriteBacks \ {w} : wb'[x] = wb[x]
    BY <1>b, <1>w, <2>1
  <2> QED
    BY ONLY <1>d, <2>1, <2>2 DEF Goal
<1>3. ASSUME NEW w \in WriteBacks, NEW call, wb' = [wb EXCEPT ![w] = call], call.pc # "announce", UNCHANGED confirmed
      PROVE  Goal
  BY <1>a, <1>b, <1>3
<1>4. ASSUME NEW w \in WriteBacks, RejectWriteBack(w) \/ CrmFails(w) \/ StoreWriteBackFails(w) PROVE Goal
  <2>1. wb' = [wb EXCEPT ![w] = [wb[w] EXCEPT !.pc = "failure"]] /\ UNCHANGED confirmed
    BY <1>4 DEF RejectWriteBack, CrmFails, StoreWriteBackFails, Goto
  <2>2. [wb[w] EXCEPT !.pc = "failure"].pc # "announce"
    BY <1>w
  <2> QED
    BY <1>3, <2>1, <2>2
<1>5. ASSUME NEW w \in WriteBacks, CrmAccepts(w) PROVE Goal
  <2>1. wb'[w].pc = "mongo" /\ (\A x \in WriteBacks \ {w} : wb'[x] = wb[x]) /\ UNCHANGED confirmed
    BY <1>5, <1>w DEF CrmAccepts
  <2> QED
    BY <1>a, <2>1
<1>6. ASSUME NEW w \in WriteBacks, NEW k \in Kinds, NEW r \in Records, NEW rm \in RMs \cup {"none"},
             StartWriteBack(w, k, r, rm)
      PROVE  Goal
  <2> DEFINE call == [pc |-> IF k = "CREATE_PIPELINE" THEN "mongo" ELSE "crm", kind |-> k, rec |-> r, rm |-> rm, ver |-> 1]
  <2>1. call.pc # "announce"
    OBVIOUS
  <2>2. wb' = [wb EXCEPT ![w] = call] /\ UNCHANGED confirmed
    BY <1>6 DEF StartWriteBack
  <2> HIDE DEF call
  <2> QED
    BY <1>3, <2>1, <2>2
<1>7. ASSUME CrmCrash PROVE Goal
  <2>1. \A x \in WriteBacks : wb'[x].pc # "announce"
    BY <1>7, <1>w DEF CrmCrash
  <2>2. UNCHANGED confirmed
    BY <1>7 DEF CrmCrash
  <2>3. \A x \in WriteBacks : wb'[x].pc = "announce" => Old(x) \/ New(x)
    BY <2>1
  <2> HIDE DEF Old, New
  <2> QED
    BY ONLY <1>a, <2>2, <2>3
<1>8. ASSUME UNCHANGED wb, UNCHANGED confirmed PROVE Goal
  BY <1>a, <1>8
<1>9. ASSUME NEW j \in Jobs, NEW e \in Synced, LoopStep(j, e) PROVE Goal
  BY <1>8, <1>9 DEF LoopStep, FetchPage, FetchFails, StoreRecord, StoreFails
<1>10. ASSUME NEW j \in Jobs, JobStep(j) PROVE Goal
  BY <1>8, <1>10 DEF JobStep, SyncRM, GetActiveRMIds, PublishCompleted, FinishFullSync, FinishLoginSync
<1>11. CASE \/ StartFullSync \/ (\E rm \in Logins : StartLoginSync(rm)) \/ (\E c \in Changes : CrmEdit(c.rec, c.to))
            \/ UNCHANGED cvars
  BY <1>8, <1>11 DEF StartFullSync, StartLoginSync, CrmEdit, cvars, Goal
<1>12. Goal
  BY <1>1, <1>2, <1>4, <1>5, <1>6, <1>7, <1>9, <1>10, <1>11 DEF CrmNext, SyncStep, WriteBackStep, Goal
<1>13. raced \subseteq raced'
  <2>1. ASSUME NEW w \in WriteBacks, WriteBackStep(w) PROVE raced \subseteq raced'
    BY <2>1 DEF WriteBackStep, RejectWriteBack, CrmAccepts, CrmFails, StoreWriteBack, StoreWriteBackFails, Announce
  <2>2. ASSUME NEW j \in Jobs, NEW e \in Synced, JobStep(j) \/ LoopStep(j, e) PROVE UNCHANGED raced
    BY <2>2 DEF JobStep, SyncRM, GetActiveRMIds, PublishCompleted, FinishFullSync, FinishLoginSync,
                LoopStep, FetchPage, FetchFails, StoreRecord, StoreFails
  <2>3. ASSUME NEW j \in Jobs, JobStep(j) PROVE UNCHANGED raced
    BY <2>3 DEF JobStep, SyncRM, GetActiveRMIds, PublishCompleted, FinishFullSync, FinishLoginSync
  <2>4. CASE \/ StartFullSync \/ (\E rm \in Logins : StartLoginSync(rm)) \/ (\E c \in Changes : CrmEdit(c.rec, c.to))
             \/ (\E w \in WriteBacks, k \in Kinds, x \in Records, rm \in RMs \cup {"none"} : StartWriteBack(w, k, x, rm)) \/ CrmCrash \/ UNCHANGED cvars
    BY <2>4 DEF StartFullSync, StartLoginSync, CrmEdit, StartWriteBack, CrmCrash, cvars
  <2> QED
    BY <2>1, <2>2, <2>3, <2>4 DEF CrmNext, SyncStep
<1> QED
  BY <1>12, <1>13 DEF Goal

\* MirrorInv holds initially.
LEMMA MirrorInit == CrmInit => MirrorInv
<1> SUFFICES ASSUME CrmInit PROVE MirrorInv
  OBVIOUS
<1>1. TypeOK
  BY TypeInit
<1>2. \A l \in Jobs \X Synced : ToSet(loop[l].todo) = {}
  BY DEF CrmInit, LoopOff, ToSet
<1>3. \A w \in WriteBacks : wb[w].pc = "new"
  BY DEF CrmInit, NoWriteBack
<1>4. Carried = {}
  BY <1>1, <1>2, <1>3, CarriedItems
<1>5. Done = {}
  BY <1>3 DEF Done, CrmInit
<1>6. \A r \in Records : mirror[r].ver <= crm[r]
  BY CrmAssumption DEF CrmInit
<1> QED
  BY <1>4, <1>5, <1>6 DEF MirrorInv

\* MirrorInv is preserved.
LEMMA MirrorStep == TypeOK /\ MirrorInv /\ [CrmNext]_cvars => MirrorInv'
<1> SUFFICES ASSUME TypeOK, MirrorInv, [CrmNext]_cvars PROVE MirrorInv'
  OBVIOUS
<1>1. \A r \in Records :
        /\ crm[r] \in Nat /\ crm'[r] \in Nat /\ mirror[r].ver \in Nat /\ crm'[r] >= crm[r]
        /\ mirror'[r] = mirror[r] \/ \E i \in Carried : i.rec = r /\ mirror'[r].ver = i.ver
  BY TypeStep, StoresStep DEF TypeOK, Doc
<1>2. /\ \A i \in Carried : /\ i.rec \in Records /\ i.ver \in Nat /\ i.ver > 0
                            /\ Entity[i.rec] # "pipeline" => i.ver <= crm[i.rec]
      /\ \A r \in Records : Entity[r] # "pipeline" => mirror[r].ver <= crm[r]
  BY CarriedItems DEF Item, MirrorInv
<1>3. \A i \in Carried' : i \in Carried \/ Fresh(i)
  BY CarriedStep
<1>4. ASSUME NEW i \in Carried' PROVE i.ver > 0 /\ (Entity[i.rec] # "pipeline" => i.ver <= crm'[i.rec])
  <2>1. CASE i \in Carried
    <3>1. i.rec \in Records /\ i.ver \in Nat /\ i.ver > 0 /\ (Entity[i.rec] # "pipeline" => i.ver <= crm[i.rec])
      BY ONLY <1>2, <2>1
    <3>2. crm[i.rec] \in Nat /\ crm'[i.rec] \in Nat /\ crm'[i.rec] >= crm[i.rec]
      BY <1>1, <3>1
    <3> QED
      BY ONLY <3>1, <3>2
  <2>2. CASE Fresh(i)
    <3>1. i.rec \in Records => crm'[i.rec] \in Nat
      BY <1>1
    <3> QED
      BY ONLY <2>2, <3>1 DEF Fresh
  <2> QED
    BY <1>3, <2>1, <2>2
<1>5. ASSUME NEW r \in Records, Entity[r] # "pipeline" PROVE mirror'[r].ver <= crm'[r]
  <2>1. mirror[r].ver <= crm[r]
    BY ONLY <1>2, <1>5
  <2>2. \A i \in Carried : i.rec = r => i.ver \in Nat /\ i.ver <= crm[r]
    BY ONLY <1>2, <1>5
  <2>a. /\ crm[r] \in Nat /\ crm'[r] \in Nat /\ mirror[r].ver \in Nat /\ crm'[r] >= crm[r]
        /\ mirror'[r] = mirror[r] \/ \E i \in Carried : i.rec = r /\ mirror'[r].ver = i.ver
    BY ONLY <1>1
  <2>3. mirror'[r].ver \in Nat /\ mirror'[r].ver <= crm[r]
    <3>1. CASE mirror'[r] = mirror[r]
      BY ONLY <2>1, <2>a, <3>1
    <3>2. CASE \E i \in Carried : i.rec = r /\ mirror'[r].ver = i.ver
      BY ONLY <2>2, <3>2
    <3> QED
      BY ONLY <2>a, <3>1, <3>2
  <2>4. crm[r] \in Nat /\ crm'[r] \in Nat /\ crm'[r] >= crm[r]
    BY ONLY <2>a
  <2> QED
    BY ONLY <2>3, <2>4
<1>6. ASSUME NEW i \in Done'
      PROVE  /\ i \in Item /\ mirror'[i.rec].ver > 0
             /\ IF Entity[i.rec] = "pipeline" THEN i.ver = 1 ELSE i.ver <= crm'[i.rec]
             /\ i.rec \notin raced' => /\ mirror'[i.rec].ver >= i.ver
                                     /\ \A c \in Carried : c.rec = i.rec => c.ver >= i.ver
  <2>1. CASE i \in Done
    <3>1. /\ i \in Item /\ mirror[i.rec].ver > 0
          /\ IF Entity[i.rec] = "pipeline" THEN i.ver = 1 ELSE i.ver <= crm[i.rec]
          /\ i.rec \notin raced => /\ mirror[i.rec].ver >= i.ver
                                 /\ \A c \in Carried : c.rec = i.rec => c.ver >= i.ver
      BY ONLY MirrorInv, <2>1 DEF MirrorInv
    <3>2. i.rec \in Records /\ i.ver \in Nat
      BY ONLY <3>1 DEF Item
    <3>3. i.rec \notin raced' => i.rec \notin raced
      BY DoneStep
    <3>4. /\ crm[i.rec] \in Nat /\ crm'[i.rec] \in Nat /\ mirror[i.rec].ver \in Nat /\ crm'[i.rec] >= crm[i.rec]
          /\ mirror'[i.rec] = mirror[i.rec] \/ \E c \in Carried : c.rec = i.rec /\ mirror'[i.rec].ver = c.ver
      BY ONLY <1>1, <3>2
    <3>5. \A c \in Carried : c.ver \in Nat /\ c.ver > 0
      BY ONLY <1>2
    <3>6. Entity[i.rec] # "pipeline" => i.ver <= crm'[i.rec]
      BY ONLY <3>1, <3>2, <3>4
    <3>7. mirror'[i.rec].ver > 0 /\ (i.rec \notin raced => mirror'[i.rec].ver >= i.ver)
      <4>1. CASE mirror'[i.rec] = mirror[i.rec]
        BY ONLY <3>1, <4>1
      <4>2. ASSUME NEW c \in Carried, c.rec = i.rec, mirror'[i.rec].ver = c.ver
            PROVE  mirror'[i.rec].ver > 0 /\ (i.rec \notin raced => mirror'[i.rec].ver >= i.ver)
        BY ONLY <3>1, <3>5, <4>2
      <4> QED
        BY ONLY <3>4, <4>1, <4>2
    <3> QED
      BY ONLY <3>1, <3>3, <3>6, <3>7
  <2>2. CASE i \notin Done
    <3>1. PICK w \in WriteBacks : StoreWriteBack(w) /\ i = [rec |-> wb[w].rec, ver |-> wb[w].ver]
      BY <2>2, DoneStep
    <3>2. i \in Carried
      BY <3>1, CarriedItems DEF StoreWriteBack
    <3>3. i \in Item
      BY <3>2, CarriedItems
    <3>4. Entity[i.rec] = "pipeline" => i.ver = 1
      <4>1. wb[w].pc = "mongo" /\ i.rec = wb[w].rec /\ i.ver = wb[w].ver
        BY <3>1 DEF StoreWriteBack
      <4> QED
        BY <4>1 DEF TypeOK
    <3>5. mirror'[i.rec].ver = i.ver
      <4>1. \E rm : mirror' = [mirror EXCEPT ![i.rec] = [ver |-> i.ver, rm |-> rm, stamped |-> TRUE]]
        BY <3>1 DEF StoreWriteBack, Upsert
      <4> QED
        BY <3>3, <4>1 DEF Item, TypeOK
    <3>6. i.rec \notin raced' => \A c \in Carried : c.rec = i.rec => ~(c.ver < i.ver)
      BY <3>1 DEF StoreWriteBack, CarriedOlder
    <3>7. i.rec \in Records /\ i.ver \in Nat
      BY ONLY <3>3 DEF Item
    <3>8. i.ver > 0 /\ (Entity[i.rec] # "pipeline" => i.ver <= crm[i.rec])
      BY ONLY <1>2, <3>2
    <3>9. crm[i.rec] \in Nat /\ crm'[i.rec] \in Nat /\ crm'[i.rec] >= crm[i.rec]
      BY ONLY <1>1, <3>7
    <3>10. \A c \in Carried : c.ver \in Nat
      BY ONLY <1>2
    <3>11. IF Entity[i.rec] = "pipeline" THEN i.ver = 1 ELSE i.ver <= crm'[i.rec]
      BY ONLY <3>4, <3>7, <3>8, <3>9
    <3>12. i.rec \notin raced' => \A c \in Carried : c.rec = i.rec => c.ver >= i.ver
      BY ONLY <3>6, <3>7, <3>10
    <3> QED
      BY ONLY <3>3, <3>5, <3>7, <3>8, <3>11, <3>12
  <2> QED
    BY <2>1, <2>2
<1>7. ASSUME NEW i \in Done', i.rec \notin raced', NEW c \in Carried', c.rec = i.rec PROVE c.ver >= i.ver
  <2>1. i.rec \in Records /\ i.ver \in Nat
    BY <1>6 DEF Item
  <2>2. CASE c \in Carried
    BY <1>6, <1>7, <2>2
  <2>3. CASE Fresh(c)
    BY <1>1, <1>6, <1>7, <2>1, <2>3 DEF Fresh
  <2> QED
    BY <1>3, <2>2, <2>3
<1> QED
  BY <1>4, <1>5, <1>6, <1>7 DEF MirrorInv

\* MirrorInv holds of every behaviour.
LEMMA MirrorInvariant == CrmSpec => [](TypeOK /\ MirrorInv)
<1>1. CrmInit => TypeOK /\ MirrorInv
  BY TypeInit, MirrorInit
<1>2. TypeOK /\ MirrorInv /\ [CrmNext]_cvars => TypeOK' /\ MirrorInv'
  BY TypeStep, MirrorStep
<1> QED
  BY <1>1, <1>2, PTL DEF CrmSpec

\* The CRM is asked first: for any number of records, syncs and write-backs, no version is in
\* MongoDB or on its way there that the CRM does not have, but of a pipeline record.
THEOREM CrmIsAhead == CrmSpec => []NeverAhead
<1>1. MirrorInv => NeverAhead
  BY DEF MirrorInv, NeverAhead
<1> QED
  BY <1>1, MirrorInvariant, PTL

\* What writeBack reported as done stays done, whatever page arrives later, unless an older
\* copy was on its way to MongoDB while it was written.
THEOREM ConfirmedStays == CrmSpec => []ConfirmedStaysUnlessRaced
<1>1. TypeOK /\ MirrorInv => ConfirmedStaysUnlessRaced
  <2> SUFFICES ASSUME TypeOK, MirrorInv, NEW i \in confirmed
               PROVE  /\ mirror[i.rec].ver > 0
                      /\ Entity[i.rec] # "pipeline" => crm[i.rec] >= i.ver
                      /\ i.rec \notin raced => mirror[i.rec].ver >= i.ver
    BY DEF ConfirmedStaysUnlessRaced
  <2>1. i \in Done /\ i.rec \in Records /\ i.ver \in Nat
    BY DEF Done, TypeOK, Item
  <2>2. crm[i.rec] \in Nat
    BY <2>1 DEF TypeOK
  <2> QED
    BY <2>1, <2>2 DEF MirrorInv
<1> QED
  BY <1>1, MirrorInvariant, PTL

\* A page on its way holds the CRM's version of a record the full sync may be believed for.
RunningInv ==
    jpc["full"] # "idle" =>
        /\ \A i \in Carried : i.rec \notin touched => i.ver = crm[i.rec]
        /\ \A w \in WriteBacks : wb[w].pc \in {"crm", "mongo"} => wb[w].rec \in touched

\* The full sync's loop for an RM holds a record, or has it on a page it has still to fetch.
Coming(rm, r) == LET l == loop[<<"full", Entity[r]>>] IN
    /\ l.pc = rm
    /\ [rec |-> r, ver |-> crm[r]] \in ToSet(l.todo) \/ r \in Ahead(lists, Entity[r])

\* What a full sync without errors still owes of the records it covers is on its way.
CoveredInv ==
    jpc["full"] \in {"sync", "status"} /\ ~failed =>
        \A rm \in covered : \A r \in lists[rm] \ (touched \cup missed) :
            \/ mirror[r].ver = crm[r]
            \/ jpc["full"] = "sync" /\ (rm \in agenda["full"] \/ Coming(rm, r))

\* While a full sync runs no record is forgotten that was touched; and where it stands.
LEMMA FullSyncFrame ==
    TypeOK /\ [CrmNext]_cvars =>
        \/ StartFullSync
        \/ /\ touched \subseteq touched' /\ missed \subseteq missed'
           /\ jpc'["full"] # "idle" => jpc["full"] # "idle"
           /\ failed => failed'
           /\ GetActiveRMIds \/ /\ covered' = covered
                                /\ jpc'["full"] \in {"sync", "status"} => jpc["full"] \in {"sync", "status"}
<1> SUFFICES ASSUME TypeOK, [CrmNext]_cvars, ~StartFullSync
             PROVE  /\ touched \subseteq touched' /\ missed \subseteq missed'
                    /\ jpc'["full"] # "idle" => jpc["full"] # "idle"
                    /\ failed => failed'
                    /\ GetActiveRMIds \/ /\ covered' = covered
                                         /\ jpc'["full"] \in {"sync", "status"} => jpc["full"] \in {"sync", "status"}
  OBVIOUS
<1> DEFINE Goal == /\ touched \subseteq touched' /\ missed \subseteq missed'
                   /\ jpc'["full"] # "idle" => jpc["full"] # "idle"
                   /\ failed => failed'
                   /\ GetActiveRMIds \/ /\ covered' = covered
                                        /\ jpc'["full"] \in {"sync", "status"} => jpc["full"] \in {"sync", "status"}
<1>0. jpc \in [Jobs -> {"idle", "distinct", "sync", "status"}] /\ "full" \in Jobs
  BY DEF TypeOK, Jobs
<1>1. ASSUME NEW w \in WriteBacks, WriteBackStep(w) PROVE Goal
  BY <1>1 DEF WriteBackStep, RejectWriteBack, CrmAccepts, CrmFails, StoreWriteBack, StoreWriteBackFails, Announce, Apply
<1>2. ASSUME NEW j \in Jobs, NEW e \in Synced, LoopStep(j, e) PROVE Goal
  <2>1. UNCHANGED <<touched, jpc, covered>>
    BY <1>2 DEF LoopStep, FetchPage, FetchFails, StoreRecord, StoreFails
  <2>2. (failed => failed') /\ missed \subseteq missed'
    <3>1. CASE FetchPage(j, e)
      BY <3>1 DEF FetchPage
    <3>2. CASE FetchFails(j, e)
      BY <3>2 DEF FetchFails
    <3>3. CASE StoreRecord(j, e)
      BY <3>3 DEF StoreRecord
    <3>4. CASE StoreFails(j, e)
      BY <3>4 DEF StoreFails
    <3> QED
      BY <1>2, <3>1, <3>2, <3>3, <3>4 DEF LoopStep
  <2>3. touched' = touched /\ jpc' = jpc /\ covered' = covered
    BY ONLY <2>1
  <2>4. touched \subseteq touched' /\ jpc'["full"] = jpc["full"]
    BY ONLY <2>3
  <2> QED
    BY ONLY <2>2, <2>3, <2>4
<1>3. ASSUME NEW j \in Jobs, JobStep(j) PROVE Goal
  <2>1. CASE GetActiveRMIds
    BY <1>0, <2>1 DEF GetActiveRMIds
  <2>2. ASSUME NEW rm \in RMs, SyncRM(j, rm) PROVE Goal
    BY <2>2 DEF SyncRM
  <2>3. CASE PublishCompleted \/ FinishFullSync
    BY <1>0, <2>3 DEF PublishCompleted, FinishFullSync
  <2>4. CASE FinishLoginSync
    BY <1>0, <2>4 DEF FinishLoginSync
  <2> QED
    BY <1>3, <2>1, <2>2, <2>3, <2>4 DEF JobStep
<1>4. ASSUME \/ (\E rm \in Logins : StartLoginSync(rm)) \/ (\E c \in Changes : CrmEdit(c.rec, c.to))
             \/ (\E w \in WriteBacks, k \in Kinds, x \in Records, rm \in RMs \cup {"none"} : StartWriteBack(w, k, x, rm)) \/ CrmCrash \/ UNCHANGED cvars
      PROVE  Goal
  BY <1>0, <1>4 DEF StartLoginSync, CrmEdit, StartWriteBack, CrmCrash, cvars
<1> HIDE DEF Goal
<1>5. Goal
  BY <1>1, <1>2, <1>3, <1>4 DEF CrmNext, SyncStep
<1> QED
  BY <1>5 DEF Goal

\* A write-back under way was under way before, or its record is touched by the step.
LEMMA CallStep ==
    TypeOK /\ [CrmNext]_cvars => \A w \in WriteBacks : wb'[w].pc \in {"crm", "mongo"} =>
        wb'[w].rec \in touched' \/ (wb[w].pc \in {"crm", "mongo"} /\ wb'[w].rec = wb[w].rec)
<1> SUFFICES ASSUME TypeOK, [CrmNext]_cvars
             PROVE  \A w \in WriteBacks : wb'[w].pc \in {"crm", "mongo"} =>
                        wb'[w].rec \in touched' \/ (wb[w].pc \in {"crm", "mongo"} /\ wb'[w].rec = wb[w].rec)
  OBVIOUS
<1> DEFINE Ok(w) == wb'[w].pc \in {"crm", "mongo"} =>
                       wb'[w].rec \in touched' \/ (wb[w].pc \in {"crm", "mongo"} /\ wb'[w].rec = wb[w].rec)
           Goal == \A w \in WriteBacks : Ok(w)
<1>w. wb \in [WriteBacks -> [pc : {"new", "crm", "mongo", "announce", "success", "failure"},
                              kind : Kinds \cup {"none"}, rec : Records \cup {"none"},
                              rm : RMs \cup {"none"}, ver : Nat]]
  BY DEF TypeOK
<1>a. \A w \in WriteBacks : wb'[w] = wb[w] => Ok(w)
  OBVIOUS
<1>1. ASSUME NEW w \in WriteBacks, NEW k \in Kinds, NEW r \in Records, NEW rm \in RMs \cup {"none"},
             StartWriteBack(w, k, r, rm)
      PROVE  Goal
  <2>1. wb'[w].rec = r /\ r \in touched' /\ \A x \in WriteBacks \ {w} : wb'[x] = wb[x]
    BY <1>1, <1>w DEF StartWriteBack
  <2> QED
    BY <1>a, <2>1
<1>2. ASSUME NEW w \in WriteBacks, CrmAccepts(w) PROVE Goal
  <2>1. wb'[w].rec = wb[w].rec /\ wb[w].rec \in touched' /\ \A x \in WriteBacks \ {w} : wb'[x] = wb[x]
    BY <1>2, <1>w DEF CrmAccepts, Apply
  <2> QED
    BY <1>a, <2>1
<1>3. ASSUME NEW w \in WriteBacks, \/ RejectWriteBack(w) \/ CrmFails(w) \/ StoreWriteBack(w)
                                   \/ StoreWriteBackFails(w) \/ Announce(w)
      PROVE  Goal
  <2>1. \E pc \in {"failure", "announce", "success"} : wb' = [wb EXCEPT ![w] = [@ EXCEPT !.pc = pc]]
    BY <1>3 DEF RejectWriteBack, CrmFails, StoreWriteBack, StoreWriteBackFails, Announce, Goto
  <2>2. wb'[w].pc \notin {"crm", "mongo"} /\ \A x \in WriteBacks \ {w} : wb'[x] = wb[x]
    BY <1>w, <2>1
  <2> QED
    BY <1>a, <2>2
<1>4. ASSUME CrmCrash PROVE Goal
  <2>1. \A x \in WriteBacks : wb'[x].pc \notin {"crm", "mongo"}
    BY <1>4, <1>w DEF CrmCrash
  <2> QED
    BY <2>1
<1>5. ASSUME UNCHANGED wb PROVE Goal
  BY <1>5, <1>a
<1> HIDE DEF Goal, Ok
<1>6. ASSUME NEW j \in Jobs, NEW e \in Synced, LoopStep(j, e) PROVE Goal
  BY <1>5, <1>6 DEF LoopStep, FetchPage, FetchFails, StoreRecord, StoreFails
<1>7. ASSUME NEW j \in Jobs, JobStep(j) PROVE Goal
  BY <1>5, <1>7 DEF JobStep, SyncRM, GetActiveRMIds, PublishCompleted, FinishFullSync, FinishLoginSync
<1>8. ASSUME \/ StartFullSync \/ (\E rm \in Logins : StartLoginSync(rm)) \/ (\E c \in Changes : CrmEdit(c.rec, c.to))
             \/ UNCHANGED cvars
      PROVE Goal
  BY <1>5, <1>8 DEF StartFullSync, StartLoginSync, CrmEdit, cvars
<1>9. Goal
  BY <1>1, <1>2, <1>3, <1>4, <1>6, <1>7, <1>8 DEF CrmNext, SyncStep, WriteBackStep
<1> QED
  BY <1>9 DEF Goal, Ok

\* RunningInv is preserved.
LEMMA RunningStep == TypeOK /\ RunningInv /\ [CrmNext]_cvars => RunningInv'
<1> SUFFICES ASSUME TypeOK, RunningInv, [CrmNext]_cvars, jpc'["full"] # "idle"
             PROVE  /\ \A i \in Carried' : i.rec \notin touched' => i.ver = crm'[i.rec]
                    /\ \A w \in WriteBacks : wb'[w].pc \in {"crm", "mongo"} => wb'[w].rec \in touched'
  BY DEF RunningInv
<1>1. \A i \in Carried' : i \in Carried \/ i.rec \in touched' \/ i.ver = crm'[i.rec]
  BY CarriedStep DEF Fresh
<1>2. \A i \in Carried : i.rec \in Records /\ (i.rec \notin touched' => crm'[i.rec] = crm[i.rec])
  BY CarriedItems, StoresStep DEF Item
<1>3. \A w \in WriteBacks : wb'[w].pc \in {"crm", "mongo"} =>
          wb'[w].rec \in touched' \/ (wb[w].pc \in {"crm", "mongo"} /\ wb'[w].rec = wb[w].rec)
  BY CallStep
<1>4. CASE StartFullSync
  <2>1. touched' = Pending
    BY <1>4 DEF StartFullSync
  <2>2. \A i \in Carried : i.rec \in touched'
    BY ONLY <2>1 DEF Pending
  <2>3. \A w \in WriteBacks : wb[w].pc = "crm" => wb[w].rec \in touched'
    BY ONLY <2>1 DEF Pending
  <2>4. \A w \in WriteBacks : wb[w].pc = "mongo" => [rec |-> wb[w].rec, ver |-> wb[w].ver] \in Carried
    BY CarriedItems
  <2>5. \A w \in WriteBacks : wb[w].pc = "mongo" => wb[w].rec \in touched'
    BY ONLY <2>2, <2>4
  <2> QED
    BY ONLY <1>1, <1>3, <2>2, <2>3, <2>5
<1>5. CASE touched \subseteq touched' /\ jpc["full"] # "idle"
  BY ONLY <1>1, <1>2, <1>3, <1>5, RunningInv DEF RunningInv
<1> QED
  BY <1>4, <1>5, FullSyncFrame

\* What a loop of the full sync has still to fetch, place by place.
LEMMA AheadPlaces ==
    ASSUME NEW ls, NEW e, NEW r
    PROVE  LET l == loop[<<"full", e>>] IN
           r \in Ahead(ls, e) <=>
              l.more /\ \E i \in Places(ls[l.pc], e) : CrmOrder[i] = r /\ Rank(i, Places(ls[l.pc], e)) > Read(l)
  BY DEF Ahead

\* A page fetched by the full sync's own loop holds what it had still to come, or leaves it;
\* where there is but one page it may be missed.
LEMMA FetchBrings ==
    ASSUME TypeOK, NEW rm \in RMs, NEW r \in Records, Coming(rm, r), FetchPage("full", Entity[r])
    PROVE  Coming(rm, r)' \/ r \in missed'
<1> DEFINE e == Entity[r]
           l == loop[<<"full", e>>]
           listing == lists[rm]
           places == Places(listing, e)
           list == Listed(listing, e)
           start == Read(l)
           page == Page(list, start)
           more == e \in Paged /\ start + PageSize < Len(list)
           full == [pc |-> rm, page |-> l.page + 1, todo |-> page, more |-> more]
<1>0. e \in Synced /\ <<"full", e>> \in Jobs \X Synced /\ listing \in SUBSET Records
  BY CrmAssumption DEF Jobs, TypeOK
<1>1. l.pc = rm /\ l.page \in Nat /\ l.page > 0 /\ l.todo = <<>>
  BY <1>0 DEF TypeOK, FetchPage, Coming
<1>2. PageSize \in Nat
  BY CrmAssumption
<1>3. start \in Nat
  BY <1>1, <1>2 DEF Read
<1>4. PICK i \in places : CrmOrder[i] = r /\ Rank(i, places) > start
  <2>1. r \in Ahead(lists, e)
    BY <1>1 DEF Coming, ToSet
  <2> QED
    BY <1>1, <2>1, AheadPlaces
<1>5. /\ list \in Seq(Records) /\ Len(list) \in Nat
      /\ Rank(i, places) \in 1 .. Len(list) /\ list[Rank(i, places)] = r
  <2>1. /\ list \in Seq(Records) /\ Len(list) \in Nat
        /\ \A k \in places : Rank(k, places) \in 1 .. Len(list) /\ list[Rank(k, places)] = CrmOrder[k]
    BY <1>0, ListedRecords
  <2> HIDE DEF list, places
  <2> QED
    BY <1>4, <2>1
<1>6. loop' = [loop EXCEPT ![<<"full", e>>] = EndIfDone(full)] /\ UNCHANGED <<crm, lists>>
  BY <1>1 DEF FetchPage
<1>a. e \notin Paged => missed' = missed \cup {list[n] : n \in start + PageSize + 1 .. Len(list)}
  BY <1>1 DEF FetchPage
<1>7. UNCHANGED places
  BY <1>6 DEF Places
<1> DEFINE n == Rank(i, places)
<1> HIDE DEF start, list, places
<1>8. n \in Nat /\ n > start /\ n <= Len(list)
  BY <1>4, <1>5
<1>9. CASE n <= start + PageSize
  <2>1. n - start \in 1 .. PageSize /\ start + (n - start) = n
    BY <1>2, <1>3, <1>8, <1>9
  <2>b. list[n] = r
    BY <1>5
  <2> HIDE DEF n
  <2>a. /\ \A k \in DOMAIN page : /\ k \in Nat /\ start + k \in 1 .. Len(list)
                                  /\ page[k] = [rec |-> list[start + k], ver |-> crm[list[start + k]]]
        /\ \A k \in 1 .. PageSize : start + k <= Len(list) => k \in DOMAIN page
    BY ONLY TypeOK, <1>3, <1>5, PageOfItems
  <2> HIDE DEF page
  <2>2. n - start \in DOMAIN page /\ page[n - start] = [rec |-> list[n], ver |-> crm[list[n]]]
    BY ONLY <1>8, <2>1, <2>a
  <2>3. [rec |-> r, ver |-> crm[r]] \in ToSet(page)
    BY ONLY <2>2, <2>b DEF ToSet
  <2>4. page # <<>>
    BY ONLY <2>3 DEF ToSet
  <2> HIDE DEF page, more
  <2>5. full.pc = rm /\ full.todo = page
    BY <1>1
  <2>6. EndIfDone(full) = full
    BY <2>4, <2>5 DEF EndIfDone
  <2>7. loop'[<<"full", e>>] = full
    BY <1>0, <1>6, <2>6 DEF TypeOK
  <2>8. [rec |-> r, ver |-> crm'[r]] \in ToSet(loop'[<<"full", e>>].todo) /\ loop'[<<"full", e>>].pc = rm
    BY ONLY <1>6, <2>3, <2>5, <2>7
  <2> QED
    BY <2>8 DEF Coming
<1>10. CASE ~(n <= start + PageSize) /\ e \in Paged
  <2>1. more
    BY <1>2, <1>3, <1>5, <1>8, <1>10
  <2> HIDE DEF page, more
  <2>2. full.pc = rm /\ full.more /\ full.page = l.page + 1
    BY <1>1, <2>1
  <2>3. EndIfDone(full) = full
    BY <2>2 DEF EndIfDone
  <2>4. loop'[<<"full", e>>] = full
    BY <1>0, <1>6, <2>3 DEF TypeOK
  <2>5. Read(full) = start + PageSize
    BY <1>1, <1>2, <2>2 DEF start, Read
  <2>6. n > Read(full)
    BY <1>2, <1>3, <1>8, <1>10, <2>5
  <2>7. places' = places /\ i \in places /\ CrmOrder[i] = r
    BY <1>4, <1>7
  <2>8. loop'[<<"full", e>>].pc = rm /\ loop'[<<"full", e>>].more
        /\ \E k \in places' : CrmOrder[k] = r /\ Rank(k, places') > Read(loop'[<<"full", e>>])
    BY ONLY <2>2, <2>4, <2>6, <2>7 DEF n
  <2>9. r \in Ahead(lists, e)'
    BY <2>8 DEF Ahead, Read, places
  <2> QED
    BY <2>8, <2>9 DEF Coming
<1>11. CASE ~(n <= start + PageSize) /\ e \notin Paged
  <2>1. n \in start + PageSize + 1 .. Len(list)
    BY <1>2, <1>3, <1>5, <1>8, <1>11
  <2> QED
    BY <1>5, <1>a, <1>11, <2>1
<1> QED
  BY <1>9, <1>10, <1>11

\* A record stored is in MongoDB; the others of the page are still on it.
LEMMA StoreBrings ==
    ASSUME TypeOK, NEW rm \in RMs, NEW r \in Records, Coming(rm, r), StoreRecord("full", Entity[r])
    PROVE  mirror'[r].ver = crm[r] \/ Coming(rm, r)'
<1> DEFINE e == Entity[r]
           l == loop[<<"full", e>>]
           it == [rec |-> r, ver |-> crm[r]]
           rest == [l EXCEPT !.todo = Tail(@)]
<1>0. e \in Synced /\ <<"full", e>> \in Jobs \X Synced
  BY CrmAssumption DEF Jobs
<1>1. l \in [pc : RMs \cup {"off"}, page : Nat, todo : Seq(Item), more : BOOLEAN] /\ l.todo # <<>> /\ l.pc = rm
  BY <1>0 DEF TypeOK, StoreRecord, Coming
<1>2. Head(l.todo) \in Item /\ Tail(l.todo) \in Seq(Item) /\ ToSet(l.todo) = {Head(l.todo)} \cup ToSet(Tail(l.todo))
  BY <1>1, HeadAndTail
<1>3. loop' = [loop EXCEPT ![<<"full", e>>] = EndIfDone(rest)] /\ UNCHANGED <<crm, lists>>
  BY DEF StoreRecord
<1>5. rest.pc = l.pc /\ rest.page = l.page /\ rest.more = l.more /\ rest.todo = Tail(l.todo)
  BY <1>1
<1>6. CASE Head(l.todo) = it
  <2>1. (Unchanged(it, rm) /\ UNCHANGED mirror) \/ Upsert(r, crm[r], rm)
    BY <1>1, <1>6 DEF StoreRecord
  <2>2. CASE Unchanged(it, rm) /\ UNCHANGED mirror
    BY <2>2 DEF Unchanged
  <2>3. CASE Upsert(r, crm[r], rm)
    BY <2>3 DEF Upsert, TypeOK
  <2> QED
    BY <2>1, <2>2, <2>3
<1>7. CASE it \in ToSet(Tail(l.todo))
  <2>1. Tail(l.todo) # <<>>
    BY ONLY <1>7 DEF ToSet
  <2>2. loop'[<<"full", e>>] = rest
    BY <1>0, <1>3, <1>5, <2>1 DEF TypeOK, EndIfDone
  <2>3. [rec |-> r, ver |-> crm'[r]] \in ToSet(loop'[<<"full", e>>].todo) /\ loop'[<<"full", e>>].pc = rm
    BY <1>1, <1>3, <1>5, <1>7, <2>2
  <2> QED
    BY <2>3 DEF Coming
<1>8. CASE it \notin ToSet(l.todo)
  <2>1. r \in Ahead(lists, e) /\ l.more
    BY <1>8, AheadPlaces DEF Coming
  <2>2. loop'[<<"full", e>>] = rest
    BY <1>0, <1>3, <1>5, <2>1 DEF TypeOK, EndIfDone
  <2>3. Ahead(lists, e)' = Ahead(lists, e)
    <3>1. loop'[<<"full", e>>].more = l.more /\ loop'[<<"full", e>>].pc = l.pc
          /\ loop'[<<"full", e>>].page = l.page /\ lists' = lists
      BY <1>3, <1>5, <2>2
    <3> HIDE DEF l, e
    <3> QED
      BY ONLY <3>1 DEF Ahead, Read, l
  <2> QED
    BY <1>1, <1>5, <2>1, <2>2, <2>3 DEF Coming
<1> QED
  BY <1>2, <1>6, <1>7, <1>8

\* The more records a listing has, the higher the rank of each.
LEMMA RankGrows ==
    ASSUME NEW small \in SUBSET Records, NEW large \in SUBSET Records, small \subseteq large, NEW e,
           NEW i \in Places(small, e)
    PROVE  /\ i \in Places(large, e)
           /\ Rank(i, Places(small, e)) \in Nat /\ Rank(i, Places(large, e)) \in Nat
           /\ Rank(i, Places(small, e)) <= Rank(i, Places(large, e))
<1> DEFINE before == {k \in Places(small, e) : k <= i}
           after == {k \in Places(large, e) : k <= i}
<1>1. CrmOrder \in Seq(Records) /\ DOMAIN CrmOrder = 1 .. Len(CrmOrder) /\ Len(CrmOrder) \in Nat
  BY CrmAssumption
<1>2. Places(small, e) \subseteq Places(large, e) /\ Places(large, e) \subseteq 1 .. Len(CrmOrder)
  BY <1>1 DEF Places
<1>3. before \in SUBSET after /\ after \in SUBSET (1 .. Len(CrmOrder))
  BY <1>2
<1>4. IsFiniteSet(1 .. Len(CrmOrder))
  BY ONLY <1>1, FS_Interval
<1>5. IsFiniteSet(after)
  BY <1>3, <1>4, FS_Subset
<1>6. IsFiniteSet(before) /\ Cardinality(before) <= Cardinality(after)
  BY <1>3, <1>5, FS_Subset
<1>7. Cardinality(before) \in Nat /\ Cardinality(after) \in Nat
  BY <1>5, <1>6, FS_CardinalityType
<1>8. Rank(i, Places(small, e)) = Cardinality(before) /\ Rank(i, Places(large, e)) = Cardinality(after)
  BY DEF Rank
<1> QED
  BY ONLY <1>2, <1>6, <1>7, <1>8

\* What others do leaves a record to come, or it is missed: where the lists only grow its rank
\* does, and where they do not what falls back behind the page is written down.
LEMMA ComingKept ==
    ASSUME TypeOK, [CrmNext]_cvars, NEW rm \in RMs, NEW r \in Records, crm'[r] = crm[r], Coming(rm, r),
           loop'[<<"full", Entity[r]>>] = loop[<<"full", Entity[r]>>]
    PROVE  Coming(rm, r)' \/ r \in missed'
<1> DEFINE e == Entity[r]
           l == loop[<<"full", e>>]
<1>0. lists[rm] \in SUBSET Records /\ lists'[rm] \in SUBSET Records
  BY TypeStep DEF TypeOK
<1>1. CASE [rec |-> r, ver |-> crm[r]] \in ToSet(l.todo)
  BY <1>1 DEF Coming
<1>2. CASE r \in Ahead(lists, e) /\ lists[rm] \subseteq lists'[rm]
  <2>1. l.pc = rm /\ l.page \in Nat /\ l.page - 1 \in Int /\ PageSize \in Nat
    BY CrmAssumption DEF TypeOK, Coming, Jobs
  <2>2. l.more /\ \E i \in Places(lists[rm], e) : CrmOrder[i] = r /\ Rank(i, Places(lists[rm], e)) > Read(l)
    BY <1>2, <2>1, AheadPlaces
  <2>3. PICK i \in Places(lists[rm], e) : CrmOrder[i] = r /\ Rank(i, Places(lists[rm], e)) > Read(l)
    BY <2>2
  <2>4. Read(l) \in Int
    BY <2>1 DEF Read
  <2>5. /\ i \in Places(lists'[rm], e)
        /\ Rank(i, Places(lists[rm], e)) \in Nat /\ Rank(i, Places(lists'[rm], e)) \in Nat
        /\ Rank(i, Places(lists[rm], e)) <= Rank(i, Places(lists'[rm], e))
    BY <1>0, <1>2, RankGrows
  <2>6. Rank(i, Places(lists'[rm], e)) > Read(l)
    BY ONLY <2>3, <2>4, <2>5
  <2>7. r \in Ahead(lists, e)'
    BY <2>1, <2>2, <2>3, <2>5, <2>6 DEF Ahead, Read
  <2> QED
    BY <2>1, <2>7 DEF Coming
<1>3. ASSUME NEW c \in Changes, CrmEdit(c.rec, c.to), r \in Ahead(lists, e) PROVE Coming(rm, r)' \/ r \in missed'
  <2>1. /\ UNCHANGED loop /\ missed' = missed \cup (Ahead(lists, Entity[c.rec]) \ Ahead(lists', Entity[c.rec]))
        /\ lists' = [x \in RMs |-> IF x \in c.to THEN lists[x] \cup {c.rec} ELSE lists[x] \ {c.rec}]
    BY <1>3 DEF CrmEdit
  <2>2. l.pc = rm
    BY DEF Coming
  <2>3. Ahead(lists, e)' = Ahead(lists', e)
    BY <2>1 DEF Ahead, Read
  <2>4. CASE Entity[c.rec] = e
    <3>1. r \in Ahead(lists', e) \/ r \in missed'
      BY <1>3, <2>1, <2>4
    <3> QED
      BY <2>2, <2>3, <3>1 DEF Coming
  <2>5. CASE Entity[c.rec] # e
    <3>1. \A x \in Records : Entity[x] = e => (x \in lists'[rm] <=> x \in lists[rm])
      BY <2>1, <2>5
    <3>2. \A i \in DOMAIN CrmOrder : CrmOrder[i] \in Records
      BY CrmAssumption
    <3>3. Places(lists'[rm], e) = Places(lists[rm], e)
      BY <1>0, <3>1, <3>2 DEF Places
    <3>4. Ahead(lists', e) = Ahead(lists, e)
      BY <2>2, <3>3 DEF Ahead
    <3> QED
      BY <1>3, <2>2, <2>3, <3>4 DEF Coming
  <2> QED
    BY <2>4, <2>5
<1> QED
  BY <1>1, <1>2, <1>3, ListsStep DEF Coming

\* What the full sync owes of a record under an RM before a step that leaves the record alone,
\* it owes or has paid after it.
LEMMA OwedStep ==
    ASSUME TypeOK, RunningInv, [CrmNext]_cvars, ~StartFullSync, ~GetActiveRMIds,
           NEW rm \in RMs, NEW r \in lists[rm], crm'[r] = crm[r], r \notin touched, r \notin missed',
           jpc["full"] \in {"sync", "status"}, jpc'["full"] \in {"sync", "status"}, ~failed',
           mirror[r].ver = crm[r] \/ (jpc["full"] = "sync" /\ (rm \in agenda["full"] \/ Coming(rm, r)))
    PROVE  mirror'[r].ver = crm'[r] \/ (jpc'["full"] = "sync" /\ (rm \in agenda'["full"] \/ Coming(rm, r)'))
<1> DEFINE e == Entity[r]
           Goal == mirror'[r].ver = crm'[r] \/ (jpc'["full"] = "sync" /\ (rm \in agenda'["full"] \/ Coming(rm, r)'))
           l == loop[<<"full", e>>]
<1>r. r \in Records
  BY DEF TypeOK
<1>0. /\ e \in Synced /\ <<"full", e>> \in Jobs \X Synced /\ rm # "off"
      /\ jpc \in [Jobs -> {"idle", "distinct", "sync", "status"}] /\ "full" \in Jobs
      /\ agenda \in [Jobs -> SUBSET RMs]
  BY <1>r, CrmAssumption DEF Jobs, TypeOK
<1>1. CASE mirror[r].ver = crm[r]
  <2>1. \A i \in Carried : i.rec = r => i.ver = crm[r]
    BY DEF RunningInv
  <2>2. mirror'[r] = mirror[r] \/ \E i \in Carried : i.rec = r /\ mirror'[r].ver = i.ver
    BY <1>r, StoresStep
  <2> QED
    BY ONLY <1>1, <2>1, <2>2, crm'[r] = crm[r]
<1>2. ASSUME jpc["full"] = "sync", rm \in agenda["full"] \/ Coming(rm, r) PROVE Goal
  <2>a. ASSUME UNCHANGED <<jpc, agenda>>, loop'[<<"full", e>>] = l PROVE Goal
    BY <1>r, <1>2, <2>a, ComingKept
  <2>b. ASSUME UNCHANGED jpc, rm \in agenda'["full"] PROVE Goal
    BY <1>2, <2>b
  <2>c. ASSUME UNCHANGED jpc, Coming(rm, r)' PROVE Goal
    BY <1>2, <2>c
  <2>d. ASSUME UNCHANGED jpc, mirror'[r].ver = crm'[r] PROVE Goal
    BY <2>d
  <2>e. Resting("full") => ~Coming(rm, r)
    BY <1>0 DEF Resting, Coming
  <2> HIDE DEF Goal
  <2>1. ASSUME NEW m \in RMs, SyncRM("full", m) PROVE Goal
    <3>1. ~Coming(rm, r) /\ rm \in agenda["full"] /\ UNCHANGED <<jpc, lists>>
      BY <1>2, <2>1, <2>e DEF SyncRM
    <3>2. CASE rm # m
      <4>1. rm \in agenda'["full"]
        BY <1>0, <2>1, <3>1, <3>2 DEF SyncRM
      <4> QED
        BY <2>b, <3>1, <4>1
    <3>3. CASE rm = m
      <4>1. loop'[<<"full", e>>] = [pc |-> m, page |-> 1, todo |-> <<>>, more |-> TRUE]
        BY <1>0, <2>1 DEF SyncRM, EntitiesOf
      <4>2. CrmOrder \in Seq(Records) /\ \E i \in DOMAIN CrmOrder : CrmOrder[i] = r
        BY <1>r, CrmAssumption
      <4>3. PICK i \in Places(lists[rm], e) : CrmOrder[i] = r
        BY <4>2 DEF Places
      <4>4. Rank(i, Places(lists[rm], e)) \in Nat /\ Rank(i, Places(lists[rm], e)) > 0
        <5>1. lists[rm] \in SUBSET Records
          BY DEF TypeOK
        <5>2. /\ \A k \in Places(lists[rm], e) : Rank(k, Places(lists[rm], e)) \in 1 .. Len(Listed(lists[rm], e))
              /\ Len(Listed(lists[rm], e)) \in Nat
          BY <5>1, ListedRecords
        <5> QED
          BY <4>3, <5>2
      <4>5. PageSize \in Nat
        BY CrmAssumption
      <4>6. Read(loop'[<<"full", e>>]) = 0
        BY <4>1, <4>5 DEF Read
      <4>7. loop'[<<"full", e>>].pc = rm /\ loop'[<<"full", e>>].more
        BY <3>3, <4>1
      <4>8. Rank(i, Places(lists[rm], e)) > Read(loop'[<<"full", e>>])
        BY ONLY <4>4, <4>6
      <4>9. r \in Ahead(lists, e)'
        BY <3>1, <4>3, <4>7, <4>8 DEF Ahead, Read
      <4>10. Coming(rm, r)'
        BY <4>7, <4>9 DEF Coming
      <4> QED
        BY <2>c, <3>1, <4>10
    <3> QED
      BY <3>2, <3>3
  <2>2. ASSUME NEW m \in RMs, SyncRM("login", m) PROVE Goal
    <3>1. loop'[<<"full", e>>] = l /\ UNCHANGED jpc /\ agenda'["full"] = agenda["full"]
      BY <1>0, <2>2 DEF SyncRM
    <3> QED
      BY <1>r, <1>2, <2>b, <2>c, <3>1, ComingKept
  <2>3. ASSUME PublishCompleted PROVE Goal
    BY <1>2, <2>3, <2>e DEF PublishCompleted
  <2>4. ASSUME FinishFullSync PROVE Goal
    BY <1>2, <2>4 DEF FinishFullSync
  <2>5. ASSUME FinishLoginSync PROVE Goal
    <3>1. UNCHANGED <<loop, agenda>> /\ jpc'["full"] = jpc["full"]
      BY <1>0, <2>5 DEF FinishLoginSync
    <3> QED
      BY <1>r, <1>2, <3>1, ComingKept DEF Goal
  <2>6. ASSUME NEW m \in Logins, StartLoginSync(m) PROVE Goal
    <3>1. UNCHANGED loop /\ jpc'["full"] = jpc["full"] /\ agenda'["full"] = agenda["full"]
      BY <1>0, <2>6 DEF StartLoginSync
    <3> QED
      BY <1>r, <1>2, <3>1, ComingKept DEF Goal
  <2>7. ASSUME CrmCrash PROVE Goal
    BY <2>7, <1>0 DEF CrmCrash
  <2>8. ASSUME NEW j \in Jobs, NEW x \in Synced, LoopStep(j, x), <<j, x>> # <<"full", e>> PROVE Goal
    <3>1. \E next : loop' = [loop EXCEPT ![<<j, x>>] = next]
      BY <2>8 DEF LoopStep, FetchPage, FetchFails, StoreRecord, StoreFails
    <3>2. loop'[<<"full", e>>] = l
      BY <1>0, <2>8, <3>1 DEF TypeOK
    <3>3. UNCHANGED <<jpc, agenda>>
      BY <2>8 DEF LoopStep, FetchPage, FetchFails, StoreRecord, StoreFails
    <3> QED
      BY <2>a, <3>2, <3>3
  <2>9. ASSUME LoopStep("full", e) PROVE Goal
    <3>1. UNCHANGED <<jpc, agenda>>
      BY <2>9 DEF LoopStep, FetchPage, FetchFails, StoreRecord, StoreFails
    <3>2. CASE rm \in agenda["full"]
      BY <2>b, <3>1, <3>2
    <3>3. CASE Coming(rm, r) /\ FetchPage("full", e)
      BY <1>r, <2>c, <3>1, <3>3, FetchBrings
    <3>4. CASE Coming(rm, r) /\ StoreRecord("full", e)
      BY <1>r, <2>c, <2>d, <3>1, <3>4, StoreBrings
    <3>5. CASE FetchFails("full", e) \/ StoreFails("full", e)
      BY <3>5 DEF FetchFails, StoreFails
    <3> QED
      BY <1>2, <2>9, <3>2, <3>3, <3>4, <3>5 DEF LoopStep
  <2>10. ASSUME NEW w \in WriteBacks, WriteBackStep(w) PROVE Goal
    <3>1. UNCHANGED <<jpc, agenda, loop>>
      BY <2>10 DEF WriteBackStep, RejectWriteBack, CrmAccepts, CrmFails, StoreWriteBack, StoreWriteBackFails, Announce
    <3> QED
      BY <2>a, <3>1
  <2>11. ASSUME \/ (\E c \in Changes : CrmEdit(c.rec, c.to)) \/ UNCHANGED cvars
                \/ (\E w \in WriteBacks, k \in Kinds, x \in Records, m \in RMs \cup {"none"} : StartWriteBack(w, k, x, m))
         PROVE  Goal
    <3>1. UNCHANGED <<jpc, agenda, loop>>
      BY <2>11 DEF CrmEdit, StartWriteBack, cvars
    <3> QED
      BY <2>a, <3>1
  <2>12. ASSUME NEW j \in Jobs, JobStep(j) PROVE Goal
    <3>1. j = "full" \/ j = "login"
      BY DEF Jobs
    <3> QED
      BY <2>1, <2>2, <2>3, <2>4, <2>5, <2>12, <3>1 DEF JobStep
  <2>13. ASSUME NEW j \in Jobs, NEW x \in Synced, LoopStep(j, x) PROVE Goal
    BY <2>8, <2>9, <2>13
  <2> QED
    BY <2>6, <2>7, <2>10, <2>11, <2>12, <2>13 DEF CrmNext, SyncStep
<1> QED
  BY <1>1, <1>2

\* CoveredInv is preserved.
LEMMA CoveredStep == TypeOK /\ RunningInv /\ CoveredInv /\ [CrmNext]_cvars => CoveredInv'
<1> SUFFICES ASSUME TypeOK, RunningInv, CoveredInv, [CrmNext]_cvars,
                    jpc'["full"] \in {"sync", "status"}, ~failed',
                    NEW rm \in covered', NEW r \in lists'[rm], r \notin touched', r \notin missed'
             PROVE  mirror'[r].ver = crm'[r] \/ (jpc'["full"] = "sync" /\ (rm \in agenda'["full"] \/ Coming(rm, r)'))
  BY DEF CoveredInv
<1>0. jpc \in [Jobs -> {"idle", "distinct", "sync", "status"}] /\ "full" \in Jobs /\ agenda \in [Jobs -> SUBSET RMs]
  BY DEF TypeOK, Jobs
<1>r. rm \in RMs /\ r \in Records /\ r \in lists[rm]
  <2>1. rm \in RMs /\ r \in Records
    BY TypeStep DEF TypeOK
  <2> QED
    BY <2>1, ListsStep
<1>1. CASE StartFullSync
  BY <1>0, <1>1 DEF StartFullSync
<1>2. CASE GetActiveRMIds
  BY <1>0, <1>2 DEF GetActiveRMIds
<1>3. CASE ~StartFullSync /\ ~GetActiveRMIds
  <2>1. /\ touched \subseteq touched' /\ missed \subseteq missed' /\ ~failed /\ covered' = covered
        /\ jpc["full"] \in {"sync", "status"}
    BY <1>3, FullSyncFrame
  <2>2. crm'[r] = crm[r] /\ r \notin touched /\ r \notin missed
    BY <1>r, <2>1, StoresStep
  <2>3. mirror[r].ver = crm[r] \/ (jpc["full"] = "sync" /\ (rm \in agenda["full"] \/ Coming(rm, r)))
    BY <1>r, <2>1, <2>2 DEF CoveredInv
  <2> QED
    BY <1>3, <1>r, <2>1, <2>2, <2>3, OwedStep
<1> QED
  BY <1>1, <1>2, <1>3

\* A full sync that counted no error can be believed but of what was touched or missed: for any
\* number of records, pages and RMs, whatever logins and write-backs ran beside it, and
\* whatever others changed, handed over or deleted in the CRM.
THEOREM CleanSyncs == CrmSpec => []CleanSyncIsFresh
<1> DEFINE Inv == TypeOK /\ RunningInv /\ CoveredInv
<1>1. CrmInit => Inv
  <2> SUFFICES ASSUME CrmInit PROVE RunningInv /\ CoveredInv
    BY TypeInit
  <2>1. jpc["full"] = "idle"
    BY DEF CrmInit, Jobs
  <2> QED
    BY <2>1 DEF RunningInv, CoveredInv
<1>2. Inv /\ [CrmNext]_cvars => Inv'
  BY TypeStep, RunningStep, CoveredStep
<1>3. Inv => CleanSyncIsFresh
  BY DEF CoveredInv, CleanSyncIsFresh
<1> HIDE DEF Inv
<1> QED
  BY <1>1, <1>2, <1>3, PTL DEF CrmSpec
=============================================================================
