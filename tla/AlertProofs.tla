----------------------------- MODULE AlertProofs -----------------------------
(***************************************************************************)
(* Proofs about AlertEngine, about AlertInbox, and about AlertPipeline,    *)
(* where the engine is a producer such as AlertDelivery assumes, for every *)
(* value of their constants.  All three rest on the types of the engine.   *)
(***************************************************************************)
EXTENDS AlertInbox, AlertPipeline, TLAPS

-----------------------------------------------------------------------------
(* AlertEngine *)

\* A candidate list is a sequence of clients.
LEMMA CandidateListIsSeq ==
    ASSUME NEW rm, NEW s \in CandidateLists(rm)
    PROVE  s \in Seq(Clients)
BY DEF CandidateLists

\* While a candidate is being processed its cooldown key is a key.
LEMMA KeyIsKey ==
    ASSUME TypeOK, NEW e \in Evals, agenda[e] # <<>>, todo[e] # <<>>
    PROVE  RuleOf(e) \in Rules /\ Head(todo[e]) \in Clients /\ Key(e) \in Keys
BY DEF TypeOK, RuleOf, Key, Keys

\* Every initial state is well typed.
LEMMA TypeInit == Init => TypeOK /\ LocalsOK
BY DEF Init, TypeOK, LocalsOK, Statuses, Keys, PCs

\* The type invariant and the well-formedness of the locals are inductive.
LEMMA TypeStep == TypeOK /\ LocalsOK /\ [Next]_vars => TypeOK' /\ LocalsOK'
<1> SUFFICES ASSUME TypeOK, LocalsOK, [Next]_vars PROVE TypeOK' /\ LocalsOK'
  OBVIOUS
<1> USE DEF TypeOK, LocalsOK, PCs, store, local
<1>1. ASSUME NEW e \in Evals, NEW rm \in RMs, EvaluateProofOfConcept(e, rm)
      PROVE  TypeOK' /\ LocalsOK'
  BY <1>1, PocAssumption DEF EvaluateProofOfConcept, Begin
<1>2. ASSUME NEW e \in Evals, NEW rm \in RMs, NEW r \in ServiceRules, EvaluateOneRule(e, rm, r)
      PROVE  TypeOK' /\ LocalsOK'
  BY <1>2, PocAssumption DEF EvaluateOneRule, Begin
<1>3. ASSUME NEW e \in Evals, NoCandidates(e) PROVE TypeOK' /\ LocalsOK'
  BY <1>3 DEF NoCandidates
<1>4. ASSUME NEW e \in Evals, CandidatesFound(e) PROVE TypeOK' /\ LocalsOK'
  <2>1. PICK list \in CandidateLists(owner[e]) : todo' = [todo EXCEPT ![e] = list] /\ list # <<>>
    BY <1>4 DEF CandidatesFound
  <2>2. list \in Seq(Clients)
    BY CandidateListIsSeq
  <2> QED
    BY <1>4, <2>1, <2>2 DEF CandidatesFound
<1>5. ASSUME NEW e \in Evals, Finish(e) PROVE TypeOK' /\ LocalsOK'
  BY <1>5 DEF Finish
<1>6. ASSUME NEW e \in Evals, CheckHit(e) PROVE TypeOK' /\ LocalsOK'
  BY <1>6 DEF CheckHit, Skip
<1>7. ASSUME NEW e \in Evals, CheckPass(e) PROVE TypeOK' /\ LocalsOK'
  <2>1. agenda[e] # <<>> /\ todo[e] # <<>>
    BY <1>7 DEF CheckPass
  <2>2. lapsed' \subseteq Keys
    BY <1>7, <2>1, KeyIsKey DEF CheckPass
  <2> QED
    BY <1>7, <2>1, <2>2 DEF CheckPass
<1>8. ASSUME NEW e \in Evals, CreateAlert(e) PROVE TypeOK' /\ LocalsOK'
  BY <1>8 DEF CreateAlert, Persist, RuleOf, Raised, Statuses
<1>18. ASSUME NEW e \in Evals, CreateLost(e) PROVE TypeOK' /\ LocalsOK'
  <2>1. PICK id \in AlertIds : Persist(e, id)
    BY <1>18 DEF CreateLost
  <2>2. pc[e] = "create" /\ agenda[e] # <<>> /\ todo[e] # <<>>
    BY <1>18 DEF CreateLost
  <2>3. ledger' \subseteq Raised /\ docs' \in [AlertIds -> Statuses]
    BY <2>1, <2>2, KeyIsKey DEF Persist, Raised, Statuses
  <2>4. lapsed' \subseteq Keys
    BY <1>18, <2>2, KeyIsKey DEF CreateLost
  <2> QED
    BY <1>18, <2>2, <2>3, <2>4 DEF CreateLost, Skip
<1>9. ASSUME NEW e \in Evals, CreateFails(e) PROVE TypeOK' /\ LocalsOK'
  BY <1>9 DEF CreateFails, Skip
<1>10. ASSUME NEW e \in Evals, SetCooldown(e) PROVE TypeOK' /\ LocalsOK'
  <2>1. agenda[e] # <<>> /\ todo[e] # <<>>
    BY <1>10 DEF SetCooldown
  <2>2. cooldown' \in [Keys -> Nat]
    <3>1. now + Cooldown[RuleOf(e)] \in Nat
      BY <2>1, KeyIsKey, CooldownAssumption DEF TypeOK
    <3> QED
      BY <1>10, <3>1 DEF SetCooldown
  <2> QED
    BY <1>10, <2>2 DEF SetCooldown
<1>11. ASSUME NEW e \in Evals, SetCooldownFails(e) PROVE TypeOK' /\ LocalsOK'
  BY <1>11 DEF SetCooldownFails, Key, Keys
<1>12. ASSUME NEW e \in Evals, Published(e) PROVE TypeOK' /\ LocalsOK'
  <2>1. agenda[e] # <<>> /\ todo[e] # <<>> /\ draft[e] \in AlertIds /\ owner[e] \in RMs
    BY <1>12 DEF Published
  <2>2. Message(draft[e], RuleOf(e)) \in Payload
    BY <2>1, KeyIsKey, SeverityAssumption DEF Message, Payload
  <2>3. topic' \in [RMs -> Seq(Payload)]
    BY <1>12, <2>1, <2>2 DEF Published, Send
  <2>4. sends' \in [AlertIds -> [lost: Nat, acked: BOOLEAN]]
    BY <1>12, <2>1 DEF Published
  <2> QED
    BY <1>12, <2>1, <2>3, <2>4 DEF Published, Raise, Skip
<1>19. ASSUME NEW e \in Evals, PublishUnacked(e) PROVE TypeOK' /\ LocalsOK'
  <2>1. agenda[e] # <<>> /\ todo[e] # <<>> /\ draft[e] \in AlertIds /\ owner[e] \in RMs
    BY <1>19 DEF PublishUnacked
  <2>2. Message(draft[e], RuleOf(e)) \in Payload
    BY <2>1, KeyIsKey, SeverityAssumption DEF Message, Payload
  <2>3. topic' \in [RMs -> Seq(Payload)]
    BY <1>19, <2>1, <2>2 DEF PublishUnacked, Send
  <2>4. sends' \in [AlertIds -> [lost: Nat, acked: BOOLEAN]]
    <3> DEFINE x == sends[draft[e]]
    <3>1. x \in [lost: Nat, acked: BOOLEAN]
      BY <2>1
    <3>3. sends' = [sends EXCEPT ![draft[e]] = [x EXCEPT !.lost = @ + 1]]
      BY <1>19 DEF PublishUnacked
    <3> HIDE DEF x
    <3>4. x.lost + 1 \in Nat
      BY <3>1
    <3>2. [x EXCEPT !.lost = @ + 1] \in [lost: Nat, acked: BOOLEAN]
      BY ONLY <3>1, <3>4
    <3> QED
      BY <3>2, <3>3
  <2> QED
    BY <1>19, <2>3, <2>4 DEF PublishUnacked
<1>13. ASSUME NEW e \in Evals, PublishSkipped(e) PROVE TypeOK' /\ LocalsOK'
  BY <1>13 DEF PublishSkipped, Raise, Skip
<1>14. ASSUME NEW e \in Evals, InvalidateLists(e) PROVE TypeOK' /\ LocalsOK'
  BY <1>14 DEF InvalidateLists
<1>15. CASE Tick
  BY <1>15 DEF Tick
<1>16. CASE Crash
  BY <1>16 DEF Crash, Key, Keys
<1>17. CASE UNCHANGED vars
  BY <1>17 DEF vars
<1> QED
  BY <1>1, <1>2, <1>3, <1>5, <1>6, <1>7, <1>8, <1>9, <1>10, <1>11, <1>12, <1>13,
     <1>14, <1>15, <1>16, <1>17, <1>18, <1>19, <1>4 DEF Next, Start, Step

\* Every reachable state of the engine is well typed.
THEOREM TypeCorrect == Spec => [](TypeOK /\ LocalsOK)
BY TypeInit, TypeStep, PTL DEF Spec
-----------------------------------------------------------------------------
(* Duplicates *)

CooldownParts == LedgerPast /\ LedgerCovered /\ CreateIsDue /\ OneInWindow
                 /\ NoDuplicateUnlessLapsed

\* The cooldown of an alert's rule, and its key, are what they should be.
LEMMA LedgerTypes ==
    ASSUME TypeOK, NEW a \in ledger
    PROVE  /\ a.rule \in Rules /\ a.client \in Clients /\ a.at \in Nat
           /\ KeyOf(a) \in Keys /\ Cooldown[a.rule] \in Nat
BY CooldownAssumption DEF TypeOK, Raised, KeyOf, Keys

\* A step that raises no alert and sets no key, takes no evaluation into the
\* window, and takes one out of "setcd" only by a lapse, disturbs nothing.
LEMMA QuietStep ==
    ASSUME TypeOK, TypeOK', CooldownParts,
           now' >= now, UNCHANGED <<ledger, cooldown>>, lapsed \subseteq lapsed',
           \A e \in Evals : InWindow(e)' => pc'[e] = pc[e] /\ Key(e)' = Key(e),
           \A e \in Evals : pc[e] = "setcd" =>
               \/ pc'[e] = "setcd" /\ Key(e)' = Key(e)
               \/ Key(e) \in lapsed'
    PROVE  CooldownParts'
<1> USE DEF CooldownParts
<1>1. LedgerPast'
  BY LedgerTypes DEF LedgerPast, TypeOK
<1>2. LedgerCovered'
  BY DEF LedgerCovered, Covered, KeyOf
<1>3. CreateIsDue'
  <2> SUFFICES ASSUME NEW e \in Evals, pc'[e] = "create", Key(e)' \notin lapsed',
                      NEW a \in ledger, KeyOf(a) = Key(e)'
               PROVE  a.at + Cooldown[a.rule] <= now'
    BY DEF CreateIsDue, KeyOf
  <2>1. pc[e] = "create" /\ Key(e)' = Key(e)
    BY DEF InWindow
  <2>2. a.at + Cooldown[a.rule] <= now
    BY <2>1 DEF CreateIsDue
  <2> QED
    BY <2>2, LedgerTypes DEF TypeOK
<1>4. OneInWindow'
  BY DEF OneInWindow, InWindow
<1>5. NoDuplicateUnlessLapsed'
  BY DEF NoDuplicateUnlessLapsed, Apart, KeyOf
<1> QED
  BY <1>1, <1>2, <1>3, <1>4, <1>5

\* Passing the check: whatever was raised for the key has cooled down, or the
\* key has lapsed.
LEMMA PassStep ==
    ASSUME TypeOK, LocalsOK, CooldownParts, NEW e \in Evals, CheckPass(e)
    PROVE  CooldownParts'
<1> USE DEF CooldownParts
<1>1. /\ pc[e] = "check" /\ pc' = [pc EXCEPT ![e] = "create"]
      /\ UNCHANGED <<now, ledger, cooldown, agenda, todo>>
      /\ lapsed \subseteq lapsed'
      /\ agenda[e] # <<>> /\ todo[e] # <<>>
  BY DEF CheckPass, LocalsOK
<1>2. \A f \in Evals : Key(f)' = Key(f)
  BY <1>1 DEF Key
<1>3. \/ Key(e) \in lapsed'
      \/ ~OnCooldown(Key(e)) /\ \A f \in Evals : ~(InWindow(f) /\ Key(f) = Key(e))
  BY DEF CheckPass
<1>4. LedgerPast'
  BY <1>1 DEF LedgerPast
<1>5. LedgerCovered'
  BY <1>1, <1>2 DEF LedgerCovered, Covered, KeyOf, TypeOK
<1>6. CreateIsDue'
  <2> SUFFICES ASSUME NEW f \in Evals, pc'[f] = "create", Key(f) \notin lapsed',
                      NEW a \in ledger, KeyOf(a) = Key(f)
               PROVE  a.at + Cooldown[a.rule] <= now
    BY <1>1, <1>2 DEF CreateIsDue, KeyOf
  <2>1. CASE f = e
    <3>1. ~OnCooldown(KeyOf(a)) /\ KeyOf(a) \notin lapsed
      BY <1>1, <1>3, <2>1
    <3>2. \A g \in Evals : ~(pc[g] = "setcd" /\ Key(g) = KeyOf(a))
      BY <1>3, <2>1 DEF InWindow
    <3>3. a.at + Cooldown[a.rule] <= cooldown[KeyOf(a)]
      BY <3>1, <3>2 DEF LedgerCovered, Covered
    <3> QED
      BY <3>1, <3>3, LedgerTypes DEF OnCooldown, TypeOK
  <2>2. CASE f # e
    BY <1>1, <2>2 DEF CreateIsDue, TypeOK
  <2> QED
    BY <2>1, <2>2
<1>7. OneInWindow'
  BY <1>1, <1>2, <1>3 DEF OneInWindow, InWindow, TypeOK
<1>8. NoDuplicateUnlessLapsed'
  BY <1>1 DEF NoDuplicateUnlessLapsed, Apart, KeyOf
<1> QED
  BY <1>4, <1>5, <1>6, <1>7, <1>8

\* Persisting: everything raised before for the key has cooled down, so the new
\* alert is apart from it, and the evaluation itself now covers it.
LEMMA CreateStep ==
    ASSUME TypeOK, LocalsOK, CooldownParts, NEW e \in Evals, CreateAlert(e)
    PROVE  CooldownParts'
<1> USE DEF CooldownParts
<1>1. PICK id \in AlertIds :
         ledger' = ledger \cup {[id |-> id, rule |-> RuleOf(e),
                                 client |-> Head(todo[e]), at |-> now]}
  BY DEF CreateAlert, Persist
<1> DEFINE new == [id |-> id, rule |-> RuleOf(e), client |-> Head(todo[e]), at |-> now]
<1>2. /\ pc[e] = "create" /\ pc' = [pc EXCEPT ![e] = "setcd"]
      /\ UNCHANGED <<now, cooldown, lapsed, agenda, todo>>
      /\ agenda[e] # <<>> /\ todo[e] # <<>>
  BY DEF CreateAlert, LocalsOK
<1>3. \A f \in Evals : Key(f)' = Key(f)
  BY <1>2 DEF Key
<1>4. KeyOf(new) = Key(e) /\ new.at = now /\ new.rule = RuleOf(e) /\ RuleOf(e) \in Rules
  BY <1>2, KeyIsKey DEF KeyOf, Key, RuleOf
<1>5. \A a \in ledger : KeyOf(a) = Key(e) /\ Key(e) \notin lapsed =>
          a.at + Cooldown[a.rule] <= now
  BY <1>2 DEF CreateIsDue
<1> HIDE DEF new
<1>6. ledger' = ledger \cup {new}
  BY <1>1 DEF new
<1>7. LedgerPast'
  BY <1>2, <1>4, <1>6 DEF LedgerPast, TypeOK
<1>8. LedgerCovered'
  <2> SUFFICES ASSUME NEW a \in ledger', KeyOf(a) \notin lapsed
               PROVE  \/ a.at + Cooldown[a.rule] <= cooldown[KeyOf(a)]
                      \/ \E f \in Evals : pc'[f] = "setcd" /\ Key(f) = KeyOf(a)
    BY <1>2, <1>3 DEF LedgerCovered, Covered, KeyOf
  <2>1. CASE a \in ledger
    BY <1>2, <2>1 DEF LedgerCovered, Covered, TypeOK
  <2>2. CASE a = new
    BY <1>2, <1>4, <2>2 DEF TypeOK
  <2> QED
    BY <1>6, <2>1, <2>2
<1>9. CreateIsDue'
  <2> SUFFICES ASSUME NEW f \in Evals, pc'[f] = "create", Key(f) \notin lapsed,
                      NEW a \in ledger', KeyOf(a) = Key(f)
               PROVE  a.at + Cooldown[a.rule] <= now
    BY <1>2, <1>3 DEF CreateIsDue, KeyOf
  <2>1. f # e /\ pc[f] = "create"
    BY <1>2 DEF TypeOK
  <2>2. Key(f) # Key(e)
    BY <1>2, <2>1 DEF OneInWindow, InWindow
  <2> QED
    BY <1>4, <1>6, <2>1, <2>2 DEF CreateIsDue
<1>10. OneInWindow'
  BY <1>2, <1>3 DEF OneInWindow, InWindow, TypeOK
<1>11. NoDuplicateUnlessLapsed'
  <2> SUFFICES ASSUME NEW a \in ledger', NEW b \in ledger', a # b,
                      KeyOf(a) = KeyOf(b), KeyOf(a) \notin lapsed
               PROVE  Apart(a, b)
    BY <1>2 DEF NoDuplicateUnlessLapsed, Apart, KeyOf
  <2>1. CASE a \in ledger /\ b \in ledger
    BY <2>1 DEF NoDuplicateUnlessLapsed
  <2>2. CASE a = new /\ b \in ledger
    BY <1>4, <1>5, <2>2 DEF Apart
  <2>3. CASE a \in ledger /\ b = new
    BY <1>4, <1>5, <2>3 DEF Apart
  <2> QED
    BY <1>6, <2>1, <2>2, <2>3
<1> QED
  BY <1>7, <1>8, <1>9, <1>10, <1>11

\* Persisting without an answer: the new alert needs no cover, its key has lapsed.
LEMMA LostStep ==
    ASSUME TypeOK, LocalsOK, CooldownParts, NEW e \in Evals, CreateLost(e)
    PROVE  CooldownParts'
<1> USE DEF CooldownParts
<1>1. PICK id \in AlertIds :
         ledger' = ledger \cup {[id |-> id, rule |-> RuleOf(e),
                                 client |-> Head(todo[e]), at |-> now]}
  BY DEF CreateLost, Persist
<1> DEFINE new == [id |-> id, rule |-> RuleOf(e), client |-> Head(todo[e]), at |-> now]
<1>2. /\ pc[e] = "create" /\ pc' = [pc EXCEPT ![e] = "check"]
      /\ UNCHANGED <<now, cooldown, agenda>> /\ todo' = [todo EXCEPT ![e] = Tail(@)]
      /\ lapsed' = lapsed \cup {Key(e)}
  BY DEF CreateLost, Skip
<1>3. \A f \in Evals : f # e => pc'[f] = pc[f] /\ Key(f)' = Key(f)
  BY <1>2 DEF Key, TypeOK
<1>4. KeyOf(new) = Key(e) /\ new.at = now
  BY DEF KeyOf, Key, RuleOf
<1> HIDE DEF new
<1>5. ledger' = ledger \cup {new} /\ KeyOf(new) \in lapsed'
  BY <1>1, <1>2, <1>4 DEF new
<1>6. LedgerPast'
  BY <1>2, <1>4, <1>5 DEF LedgerPast, TypeOK
<1>7. LedgerCovered'
  BY <1>2, <1>3, <1>5 DEF LedgerCovered, Covered, KeyOf, TypeOK
<1>8. CreateIsDue'
  BY <1>2, <1>3, <1>5, <1>4 DEF CreateIsDue, KeyOf, TypeOK
<1>9. OneInWindow'
  BY <1>2, <1>3 DEF OneInWindow, InWindow, TypeOK
<1>10. NoDuplicateUnlessLapsed'
  BY <1>2, <1>5 DEF NoDuplicateUnlessLapsed, Apart, KeyOf
<1> QED
  BY <1>6, <1>7, <1>8, <1>9, <1>10

\* Setting the key: it outlasts every alert raised for it so far.
LEMMA SetStep ==
    ASSUME TypeOK, LocalsOK, CooldownParts, NEW e \in Evals, SetCooldown(e)
    PROVE  CooldownParts'
<1> USE DEF CooldownParts
<1>1. /\ pc[e] = "setcd" /\ pc' = [pc EXCEPT ![e] = "publish"]
      /\ UNCHANGED <<now, ledger, lapsed, agenda, todo>>
      /\ cooldown' = [cooldown EXCEPT ![Key(e)] = now + Cooldown[RuleOf(e)]]
      /\ agenda[e] # <<>> /\ todo[e] # <<>>
  BY DEF SetCooldown, LocalsOK
<1>2. \A f \in Evals : Key(f)' = Key(f)
  BY <1>1 DEF Key
<1>3. LedgerPast'
  BY <1>1 DEF LedgerPast
<1>4. LedgerCovered'
  <2> SUFFICES ASSUME NEW a \in ledger, KeyOf(a) \notin lapsed
               PROVE  \/ a.at + Cooldown[a.rule] <= cooldown'[KeyOf(a)]
                      \/ \E f \in Evals : pc'[f] = "setcd" /\ Key(f) = KeyOf(a)
    BY <1>1, <1>2 DEF LedgerCovered, Covered, KeyOf
  <2>1. CASE KeyOf(a) = Key(e)
    <3>1. a.rule = RuleOf(e)
      BY <2>1 DEF KeyOf, Key, RuleOf
    <3>2. cooldown'[KeyOf(a)] = now + Cooldown[a.rule]
      BY <1>1, <2>1, <3>1, LedgerTypes DEF TypeOK
    <3> QED
      BY <3>2, LedgerTypes DEF LedgerPast, TypeOK
  <2>2. CASE KeyOf(a) # Key(e)
    BY <1>1, <2>2, LedgerTypes DEF LedgerCovered, Covered, TypeOK
  <2> QED
    BY <2>1, <2>2
<1>5. CreateIsDue'
  BY <1>1, <1>2 DEF CreateIsDue, KeyOf, TypeOK
<1>6. OneInWindow'
  BY <1>1, <1>2 DEF OneInWindow, InWindow, TypeOK
<1>7. NoDuplicateUnlessLapsed'
  BY <1>1 DEF NoDuplicateUnlessLapsed, Apart, KeyOf
<1> QED
  BY <1>3, <1>4, <1>5, <1>6, <1>7

\* CooldownInv holds initially: nothing has been raised and nobody is running.
LEMMA CooldownInit == Init => CooldownInv
BY TypeInit DEF Init, CooldownInv, LedgerPast, LedgerCovered, CreateIsDue, OneInWindow,
   InWindow, NoDuplicateUnlessLapsed

\* CooldownInv is preserved by every step.
LEMMA CooldownStep == CooldownInv /\ [Next]_vars => CooldownInv'
<1> SUFFICES ASSUME TypeOK, LocalsOK, CooldownParts, [Next]_vars
             PROVE  TypeOK' /\ LocalsOK' /\ CooldownParts'
  BY DEF CooldownInv, CooldownParts
<1> USE DEF store, local
<1>0. TypeOK' /\ LocalsOK'
  BY TypeStep
<1>1. ASSUME NEW e \in Evals, NEW rm \in RMs, NEW rules, Begin(e, rm, rules)
      PROVE  CooldownParts'
  <2>1. /\ pc[e] = "idle" /\ pc' = [pc EXCEPT ![e] = "find"]
        /\ UNCHANGED <<now, ledger, cooldown, lapsed, todo>>
        /\ agenda' = [agenda EXCEPT ![e] = rules]
    BY <1>1 DEF Begin
  <2>2. \A f \in Evals : f # e => pc'[f] = pc[f] /\ Key(f)' = Key(f)
    BY <2>1 DEF Key, TypeOK
  <2> QED
    BY <1>0, <2>1, <2>2, QuietStep DEF InWindow, TypeOK
<1>2. ASSUME NEW e \in Evals, NoCandidates(e) PROVE CooldownParts'
  <2>1. /\ pc[e] = "find" /\ agenda' = [agenda EXCEPT ![e] = Tail(@)]
        /\ UNCHANGED <<now, ledger, cooldown, lapsed, pc, todo>>
    BY <1>2 DEF NoCandidates
  <2>2. \A f \in Evals : f # e => pc'[f] = pc[f] /\ Key(f)' = Key(f)
    BY <2>1 DEF Key, TypeOK
  <2> QED
    BY <1>0, <2>1, <2>2, QuietStep DEF InWindow, TypeOK
<1>3. ASSUME NEW e \in Evals, CandidatesFound(e) PROVE CooldownParts'
  <2>1. PICK list : todo' = [todo EXCEPT ![e] = list]
    BY <1>3 DEF CandidatesFound
  <2>2. /\ pc[e] = "find" /\ pc' = [pc EXCEPT ![e] = "check"]
        /\ UNCHANGED <<now, ledger, cooldown, lapsed, agenda>>
    BY <1>3 DEF CandidatesFound
  <2>3. \A f \in Evals : f # e => pc'[f] = pc[f] /\ Key(f)' = Key(f)
    BY <2>1, <2>2 DEF Key, TypeOK
  <2> QED
    BY <1>0, <2>2, <2>3, QuietStep DEF InWindow, TypeOK
<1>4. ASSUME NEW e \in Evals, Finish(e) PROVE CooldownParts'
  <2>1. \A f \in Evals : Key(f)' = Key(f)
    BY <1>4 DEF Finish, Key
  <2>2. /\ pc[e] = "find" /\ pc' = [pc EXCEPT ![e] = "idle"]
        /\ UNCHANGED <<now, ledger, cooldown, lapsed>>
    BY <1>4 DEF Finish
  <2> QED
    BY <1>0, <2>1, <2>2, QuietStep DEF InWindow, TypeOK
<1>5. ASSUME NEW e \in Evals, pc[e] # "setcd", Skip(e), UNCHANGED agenda,
             UNCHANGED <<now, ledger, cooldown, lapsed>>
      PROVE  CooldownParts'
  <2>1. \A f \in Evals : f # e => pc'[f] = pc[f] /\ Key(f)' = Key(f)
    BY <1>5 DEF Skip, Key, TypeOK
  <2>2. pc'[e] = "check"
    BY <1>5 DEF Skip, TypeOK
  <2> QED
    BY <1>0, <1>5, <2>1, <2>2, QuietStep DEF InWindow, TypeOK
<1>6. ASSUME NEW e \in Evals, SetCooldownFails(e) PROVE CooldownParts'
  <2>1. \A f \in Evals : Key(f)' = Key(f)
    BY <1>6 DEF SetCooldownFails, Key
  <2>2. /\ pc[e] = "setcd" /\ pc' = [pc EXCEPT ![e] = "publish"]
        /\ UNCHANGED <<now, ledger, cooldown>> /\ lapsed' = lapsed \cup {Key(e)}
    BY <1>6 DEF SetCooldownFails
  <2> QED
    BY <1>0, <2>1, <2>2, QuietStep DEF InWindow, TypeOK
<1>7. ASSUME NEW e \in Evals, InvalidateLists(e) PROVE CooldownParts'
  <2>1. /\ pc[e] = "check" /\ pc' = [pc EXCEPT ![e] = "find"]
        /\ UNCHANGED <<now, ledger, cooldown, lapsed, todo>>
        /\ agenda' = [agenda EXCEPT ![e] = Tail(@)]
    BY <1>7 DEF InvalidateLists
  <2>2. \A f \in Evals : f # e => pc'[f] = pc[f] /\ Key(f)' = Key(f)
    BY <2>1 DEF Key, TypeOK
  <2> QED
    BY <1>0, <2>1, <2>2, QuietStep DEF InWindow, TypeOK
<1>8. CASE Tick
  <2>1. now' = now + 1 /\ UNCHANGED <<ledger, cooldown, lapsed, pc, agenda, todo>>
    BY <1>8 DEF Tick
  <2>2. \A f \in Evals : pc'[f] = pc[f] /\ Key(f)' = Key(f)
    BY <2>1 DEF Key
  <2> QED
    BY <1>0, <2>1, <2>2, QuietStep DEF TypeOK
<1>9. CASE Crash
  <2>1. \A f \in Evals : pc'[f] = "idle"
    BY <1>9 DEF Crash
  <2>2. \A f \in Evals : pc[f] = "setcd" => Key(f) \in lapsed'
    BY <1>9 DEF Crash
  <2>3. UNCHANGED <<now, ledger, cooldown>> /\ lapsed \subseteq lapsed'
    BY <1>9 DEF Crash
  <2> QED
    BY <1>0, <2>1, <2>2, <2>3, QuietStep DEF InWindow, TypeOK
<1>10. CASE UNCHANGED vars
  <2>1. UNCHANGED <<now, ledger, cooldown, lapsed, pc, agenda, todo>>
    BY <1>10 DEF vars
  <2>2. \A f \in Evals : pc'[f] = pc[f] /\ Key(f)' = Key(f)
    BY <2>1 DEF Key
  <2> QED
    BY <1>0, <2>1, <2>2, QuietStep DEF TypeOK
<1>11. ASSUME NEW e \in Evals, Step(e) PROVE CooldownParts'
  <2>1. CASE CheckHit(e)
    BY <1>5, <2>1 DEF CheckHit
  <2>2. CASE CreateFails(e)
    BY <1>5, <2>2 DEF CreateFails
  <2>3. CASE Published(e)
    BY <1>5, <2>3 DEF Published, Raise
  <2>4. CASE PublishSkipped(e)
    BY <1>5, <2>4 DEF PublishSkipped, Raise
  <2>5. CASE PublishUnacked(e)
    <3>1. UNCHANGED <<now, ledger, cooldown, lapsed, pc, agenda, todo>>
      BY <2>5 DEF PublishUnacked
    <3>2. \A f \in Evals : pc'[f] = pc[f] /\ Key(f)' = Key(f)
      BY <3>1 DEF Key
    <3> QED
      BY <1>0, <3>1, <3>2, QuietStep DEF TypeOK
  <2> QED
    BY <1>2, <1>4, <1>6, <1>7, <1>11, <1>3, <2>1, <2>2, <2>3, <2>4, <2>5, PassStep, CreateStep, LostStep, SetStep
       DEF Step
<1> QED
  BY <1>0, <1>1, <1>8, <1>9, <1>10, <1>11
     DEF Next, Start, EvaluateProofOfConcept, EvaluateOneRule

\* Whatever evaluations run, crash or meet Redis, Mongo and Kafka errors, the two
\* alerts of a rule for a client are a cooldown apart unless the key has lapsed.
THEOREM NoDuplicates == Spec => []NoDuplicateUnlessLapsed
<1>1. CooldownInv => NoDuplicateUnlessLapsed
  BY DEF CooldownInv
<1> QED
  BY <1>1, CooldownInit, CooldownStep, PTL DEF Spec

NoLapse == lapsed = {}

\* Evaluations that never overlap, with a Redis and a MongoDB that answer what they
\* did and a process that stays up, never lapse.
LEMMA NeverLapses ==
    ASSUME Faults \subseteq {"mongo", "kafka"}, \A e, f \in Evals : e = f
    PROVE  Spec => []NoLapse
<1>1. Init => NoLapse
  BY DEF Init, NoLapse
<1>2. NoLapse /\ [Next]_vars => NoLapse'
  <2> SUFFICES ASSUME lapsed = {}, [Next]_vars PROVE lapsed' = {}
    BY DEF NoLapse
  <2>1. ASSUME NEW e \in Evals, CheckPass(e) PROVE lapsed' = {}
    BY <2>1 DEF CheckPass, InWindow
  <2>2. ASSUME NEW e \in Evals, Step(e) PROVE lapsed' = {}
    BY <2>1, <2>2 DEF Step, NoCandidates, CandidatesFound, Finish, CheckHit, CreateAlert, CreateFails, CreateLost, SetCooldown,
       SetCooldownFails, Published, PublishUnacked, PublishSkipped, InvalidateLists, store
  <2> QED
    BY <2>2 DEF Next, Start, EvaluateProofOfConcept, EvaluateOneRule, Begin, Tick, Crash,
       vars, store
<1> QED
  BY <1>1, <1>2, PTL DEF Spec

\* With one evaluation at a time, a Redis that answers, no save whose answer is
\* lost and no crash the cooldown does what the README promises, although Mongo
\* and Kafka may fail.
THEOREM NoDuplicatesAlone ==
    ASSUME Faults \subseteq {"mongo", "kafka"}, \A e, f \in Evals : e = f
    PROVE  Spec => []NoDuplicateAlert
<1>1. NoDuplicateUnlessLapsed /\ NoLapse => NoDuplicateAlert
  BY DEF NoDuplicateUnlessLapsed, NoDuplicateAlert, NoLapse
<1>2. Spec => []NoLapse
  BY NeverLapses
<1> QED
  BY <1>1, <1>2, NoDuplicates, PTL

-----------------------------------------------------------------------------
(* Suppression *)

\* An evaluation about to set a key has persisted an alert for it.
DraftFounded == \A e \in Evals : pc[e] = "setcd" => \E a \in ledger : KeyOf(a) = Key(e)

\* A step that sets no key and takes nobody into "setcd" founds what was founded.
LEMMA QuietFounded ==
    ASSUME TypeOK, TypeOK', DraftFounded, NoUnfoundedCooldown,
           now' >= now, UNCHANGED cooldown, ledger \subseteq ledger',
           \A e \in Evals : pc'[e] = "setcd" => pc[e] = "setcd" /\ Key(e)' = Key(e)
    PROVE  DraftFounded' /\ NoUnfoundedCooldown'
<1>1. DraftFounded'
  BY DEF DraftFounded, KeyOf
<1>2. \A k \in Keys : OnCooldown(k)' => OnCooldown(k)
  BY DEF OnCooldown, TypeOK
<1>3. NoUnfoundedCooldown'
  BY <1>2 DEF NoUnfoundedCooldown, KeyOf
<1> QED
  BY <1>1, <1>3

\* Every step keeps the keys founded.
LEMMA FoundedStep ==
    ASSUME TypeOK, LocalsOK, LedgerPast, DraftFounded, NoUnfoundedCooldown, [Next]_vars
    PROVE  DraftFounded' /\ NoUnfoundedCooldown'
<1>0. TypeOK'
  BY TypeStep
<1>1. ASSUME NEW e \in Evals, CreateAlert(e) PROVE DraftFounded' /\ NoUnfoundedCooldown'
  <2>1. PICK id \in AlertIds :
           ledger' = ledger \cup {[id |-> id, rule |-> RuleOf(e),
                                   client |-> Head(todo[e]), at |-> now]}
    BY <1>1 DEF CreateAlert, Persist
  <2>2. /\ pc' = [pc EXCEPT ![e] = "setcd"]
        /\ UNCHANGED <<now, cooldown, agenda, todo>>
    BY <1>1 DEF CreateAlert
  <2>3. \A f \in Evals : Key(f)' = Key(f)
    BY <2>2 DEF Key
  <2> DEFINE new == [id |-> id, rule |-> RuleOf(e), client |-> Head(todo[e]), at |-> now]
  <2>4. \E a \in ledger' : KeyOf(a) = Key(e)
    <3>1. KeyOf(new) = Key(e)
      BY DEF KeyOf, Key, RuleOf
    <3> QED
      BY <2>1, <3>1
  <2>5. DraftFounded'
    BY <2>1, <2>2, <2>3, <2>4 DEF DraftFounded, KeyOf, TypeOK
  <2>6. NoUnfoundedCooldown'
    BY <2>1, <2>2 DEF NoUnfoundedCooldown, OnCooldown, KeyOf
  <2> QED
    BY <2>5, <2>6
<1>2. ASSUME NEW e \in Evals, SetCooldown(e) PROVE DraftFounded' /\ NoUnfoundedCooldown'
  <2>1. /\ pc[e] = "setcd" /\ pc' = [pc EXCEPT ![e] = "publish"]
        /\ UNCHANGED <<now, ledger, agenda, todo>>
        /\ cooldown' = [cooldown EXCEPT ![Key(e)] = now + Cooldown[RuleOf(e)]]
    BY <1>2 DEF SetCooldown
  <2>2. \A f \in Evals : Key(f)' = Key(f)
    BY <2>1 DEF Key
  <2>3. DraftFounded'
    BY <2>1, <2>2 DEF DraftFounded, KeyOf, TypeOK
  <2>4. PICK a \in ledger : KeyOf(a) = Key(e)
    BY <2>1 DEF DraftFounded
  <2>5. cooldown'[Key(e)] = now + Cooldown[a.rule]
    BY <2>1, <2>4, LedgerTypes DEF KeyOf, Key, RuleOf, TypeOK
  <2>6. a.at + Cooldown[a.rule] <= cooldown'[Key(e)]
    BY <2>5, LedgerTypes DEF LedgerPast, TypeOK
  <2>7. NoUnfoundedCooldown'
    <3> SUFFICES ASSUME NEW k \in Keys, cooldown'[k] > now
                 PROVE  \E b \in ledger : KeyOf(b) = k /\ b.at + Cooldown[b.rule] <= cooldown'[k]
      BY <2>1 DEF NoUnfoundedCooldown, OnCooldown, KeyOf
    <3>1. CASE k = Key(e)
      BY <2>4, <2>6, <3>1
    <3>2. CASE k # Key(e)
      BY <2>1, <3>2 DEF NoUnfoundedCooldown, OnCooldown, TypeOK
    <3> QED
      BY <3>1, <3>2
  <2> QED
    BY <2>3, <2>7
<1>3. ASSUME NEW e \in Evals, Step(e), ~CreateAlert(e), ~SetCooldown(e)
      PROVE  DraftFounded' /\ NoUnfoundedCooldown'
  <2>1. UNCHANGED <<now, cooldown>> /\ ledger \subseteq ledger'
    BY <1>3 DEF Step, NoCandidates, CandidatesFound, Finish, CheckHit, CheckPass, CreateFails,
       CreateLost, Persist, SetCooldownFails, Published, PublishUnacked, PublishSkipped, InvalidateLists, store
  <2>2. pc'[e] # "setcd"
    BY <1>3 DEF Step, NoCandidates, CandidatesFound, Finish, CheckHit, CheckPass, CreateFails,
       CreateLost, SetCooldownFails, Published, PublishUnacked, PublishSkipped, InvalidateLists, Raise, Skip, local, TypeOK
  <2>3. \A f \in Evals : f # e => pc'[f] = pc[f] /\ Key(f)' = Key(f)
    BY <1>3 DEF Step, NoCandidates, CandidatesFound, Finish, CheckHit, CheckPass, CreateFails,
       CreateLost, SetCooldownFails, Published, PublishUnacked, PublishSkipped, InvalidateLists, Raise, Skip, local, TypeOK, Key
  <2> QED
    BY <1>0, <2>1, <2>2, <2>3, QuietFounded DEF TypeOK
<1>4. ASSUME NEW e \in Evals, NEW rm \in RMs, NEW rules, Begin(e, rm, rules)
      PROVE  DraftFounded' /\ NoUnfoundedCooldown'
  <2>1. \A f \in Evals : pc'[f] = "setcd" => pc[f] = "setcd" /\ Key(f)' = Key(f)
    BY <1>4 DEF Begin, Key, TypeOK
  <2> QED
    BY <1>0, <1>4, <2>1, QuietFounded DEF Begin, store, TypeOK
<1>5. CASE Tick
  <2>1. \A f \in Evals : Key(f)' = Key(f)
    BY <1>5 DEF Tick, local, Key
  <2> QED
    BY <1>0, <1>5, <2>1, QuietFounded DEF Tick, store, local, TypeOK
<1>6. CASE Crash
  BY <1>0, <1>6, QuietFounded DEF Crash, TypeOK
<1>7. CASE UNCHANGED vars
  <2>1. \A f \in Evals : Key(f)' = Key(f)
    BY <1>7 DEF vars, local, Key
  <2> QED
    BY <1>0, <1>7, <2>1, QuietFounded DEF vars, store, local, TypeOK
<1> QED
  BY <1>1, <1>2, <1>3, <1>4, <1>5, <1>6, <1>7
     DEF Next, Start, EvaluateProofOfConcept, EvaluateOneRule

\* No client is ever suppressed without an alert: an error or a crash between
\* check and save never leaves a cooldown key behind.
THEOREM SuppressionFounded == Spec => []NoUnfoundedCooldown
<1>1. Init => DraftFounded /\ NoUnfoundedCooldown
  BY DEF Init, DraftFounded, NoUnfoundedCooldown, OnCooldown
<1>2. CooldownInv => TypeOK /\ LocalsOK /\ LedgerPast
  BY DEF CooldownInv
<1> QED
  BY <1>1, <1>2, CooldownInit, CooldownStep, FoundedStep, PTL DEF Spec
-----------------------------------------------------------------------------
(* Announcements *)

\* What PublishedOnce rests on: the candidates of an evaluation are its own RM's,
\* the alert it has saved and not yet announced is in the ledger, no other evaluation
\* has the same one, and the only messages that carry it are copies of the one it is
\* sending, none of them acknowledged.
Holding(e) == pc[e] \in {"setcd", "publish"}
OwnTodo ==
    \A e \in Evals : pc[e] \in {"check", "create", "setcd", "publish"} =>
        \A i \in DOMAIN todo[e] : RmOf[todo[e][i]] = owner[e]
Saved(id, rm) == \E a \in ledger : a.id = id /\ RmOf[a.client] = rm
AckedSaved  == \A id \in AlertIds : sends[id].acked => id \in UsedIds
DraftsSaved == \A e \in Evals : Holding(e) => Saved(draft[e], owner[e])
DraftsApart == \A e, f \in Evals : Holding(e) /\ Holding(f) /\ draft[e] = draft[f] => e = f
DraftsUnacked == \A e \in Evals : Holding(e) => ~sends[draft[e]].acked
DraftCopies ==
    \A e \in Evals : Holding(e) =>
        \A rm \in RMs : \A i \in DOMAIN topic[rm] : topic[rm][i].alert_id = draft[e] =>
            /\ rm = owner[e] /\ topic[rm][i] = Message(draft[e], RuleOf(e))
            /\ sends[draft[e]].lost > 0
MessagesSaved == \A rm \in RMs : \A i \in DOMAIN topic[rm] : Saved(topic[rm][i].alert_id, rm)
MessagesApart ==
    \A rm, sm \in RMs : \A i \in DOMAIN topic[rm], j \in DOMAIN topic[sm] :
        topic[rm][i].alert_id = topic[sm][j].alert_id =>
            rm = sm /\ (i = j \/ sends[topic[rm][i].alert_id].lost > 0)

DraftParts == AckedSaved /\ DraftsSaved /\ DraftsApart /\ DraftsUnacked /\ DraftCopies
              /\ MessagesSaved /\ MessagesApart

\* Saved alerts stay saved.
LEMMA SavedStays ==
    ASSUME ledger \subseteq ledger', NEW id, NEW rm, Saved(id, rm)
    PROVE  Saved(id, rm)'
BY DEF Saved

\* A step that announces nothing and saves no new draft disturbs nothing.
LEMMA QuietDrafts ==
    ASSUME DraftParts, ledger \subseteq ledger', UNCHANGED <<topic, sends>>,
           \A e \in Evals : Holding(e)' =>
               /\ Holding(e) /\ draft'[e] = draft[e] /\ owner'[e] = owner[e]
               /\ RuleOf(e)' = RuleOf(e)
    PROVE  DraftParts'
<1> USE DEF DraftParts
<1>1. DraftsSaved'
  BY SavedStays DEF DraftsSaved
<1>2. DraftsApart'
  BY DEF DraftsApart
<1>3. DraftsUnacked'
  BY DEF DraftsUnacked
<1>4. MessagesSaved'
  BY SavedStays DEF MessagesSaved
<1>5. MessagesApart'
  BY DEF MessagesApart
<1>6. DraftCopies'
  BY DEF DraftCopies, Message
<1>7. AckedSaved'
  BY DEF AckedSaved, UsedIds
<1> QED
  BY <1>1, <1>2, <1>3, <1>4, <1>5, <1>6, <1>7

\* The candidates stay the RM's own: a loop only drops them from the front.
LEMMA OwnTodoStep ==
    ASSUME TypeOK, LocalsOK, OwnTodo, [Next]_vars
    PROVE  OwnTodo'
<1> USE DEF OwnTodo, TypeOK
<1>1. ASSUME NEW e \in Evals, Skip(e), todo[e] # <<>>, UNCHANGED owner,
             pc[e] \in {"check", "create", "publish"}
      PROVE  OwnTodo'
  <2>1. \A i \in DOMAIN todo'[e] : RmOf[todo'[e][i]] = owner'[e]
    <3>1. todo'[e] = Tail(todo[e])
      BY <1>1 DEF Skip
    <3>2. \A i \in DOMAIN Tail(todo[e]) : i + 1 \in DOMAIN todo[e] /\ Tail(todo[e])[i] = todo[e][i + 1]
      BY <1>1
    <3> QED
      BY <1>1, <3>1, <3>2
  <2> QED
    BY <1>1, <2>1 DEF Skip
<1>2. ASSUME NEW e \in Evals, Start(e) PROVE OwnTodo'
  BY <1>2 DEF Start, EvaluateProofOfConcept, EvaluateOneRule, Begin
<1>3. ASSUME NEW e \in Evals, CandidatesFound(e) PROVE OwnTodo'
  <2>1. PICK list \in CandidateLists(owner[e]) : todo' = [todo EXCEPT ![e] = list]
    BY <1>3 DEF CandidatesFound
  <2>2. \A i \in DOMAIN list : RmOf[list[i]] = owner[e]
    BY DEF CandidateLists
  <2> QED
    BY <1>3, <2>1, <2>2 DEF CandidatesFound
<1>10. ASSUME NEW e \in Evals, PublishUnacked(e) PROVE OwnTodo'
  BY <1>10 DEF PublishUnacked, local
<1>4. ASSUME NEW e \in Evals, CheckHit(e) \/ CreateFails(e) \/ CreateLost(e) \/ Published(e) \/ PublishSkipped(e)
      PROVE  OwnTodo'
  BY <1>1, <1>4 DEF CheckHit, CreateFails, CreateLost, Published, PublishSkipped, Raise, LocalsOK
<1>5. ASSUME NEW e \in Evals, NoCandidates(e) \/ Finish(e) \/ InvalidateLists(e)
      PROVE  OwnTodo'
  <2>1. CASE NoCandidates(e)
    BY <2>1 DEF NoCandidates
  <2>2. CASE Finish(e)
    BY <2>2 DEF Finish
  <2>3. CASE InvalidateLists(e)
    BY <2>3 DEF InvalidateLists
  <2> QED
    BY <1>5, <2>1, <2>2, <2>3
<1>9. ASSUME NEW e \in Evals, CheckPass(e) \/ CreateAlert(e) \/ SetCooldown(e) \/ SetCooldownFails(e)
      PROVE  OwnTodo'
  BY <1>9 DEF CheckPass, CreateAlert, SetCooldown, SetCooldownFails
<1>6. CASE Tick
  BY <1>6 DEF Tick, local
<1>7. CASE Crash
  BY <1>7 DEF Crash
<1>8. CASE UNCHANGED vars
  BY <1>8 DEF vars, local
<1> QED
  BY <1>2, <1>3, <1>4, <1>5, <1>6, <1>7, <1>8, <1>9, <1>10 DEF Next, Step

\* Saving an alert: its id is fresh, so no draft and no message has it.
LEMMA CreateDraft ==
    ASSUME TypeOK, LocalsOK, OwnTodo, DraftParts, NEW e \in Evals, CreateAlert(e)
    PROVE  DraftParts'
<1> USE DEF DraftParts
<1>1. PICK id \in AlertIds \ UsedIds : Persist(e, id) /\ draft' = [draft EXCEPT ![e] = id]
  BY DEF CreateAlert
<1>2. /\ pc[e] = "create" /\ pc' = [pc EXCEPT ![e] = "setcd"]
      /\ UNCHANGED <<topic, sends, owner, agenda>> /\ ledger \subseteq ledger' /\ todo[e] # <<>>
  BY <1>1 DEF CreateAlert, Persist, LocalsOK
<1>3. RmOf[Head(todo[e])] = owner[e]
  BY <1>2 DEF OwnTodo, TypeOK
<1>4. Saved(id, owner[e])'
  <2> DEFINE new == [id |-> id, rule |-> RuleOf(e), client |-> Head(todo[e]), at |-> now]
  <2>1. new \in ledger'
    BY <1>1 DEF Persist
  <2>2. new.id = id /\ RmOf[new.client] = owner'[e]
    BY <1>2, <1>3
  <2> HIDE DEF new
  <2> QED
    BY <1>2, <2>1, <2>2 DEF Saved
<1>5. \A rm : ~Saved(id, rm)
  BY <1>1 DEF Saved, UsedIds
<1>6. \A f \in Evals : f # e => (Holding(f)' <=> Holding(f)) /\ draft'[f] = draft[f] /\ owner'[f] = owner[f]
  BY <1>1, <1>2 DEF Holding, TypeOK
<1>7. draft'[e] = id
  BY <1>1 DEF TypeOK
<1>8. DraftsSaved'
  BY <1>2, <1>4, <1>6, <1>7, SavedStays DEF DraftsSaved
<1>9. DraftsApart'
  BY <1>5, <1>6, <1>7 DEF DraftsApart, DraftsSaved
<1>10. DraftsUnacked'
  BY <1>1, <1>2, <1>6, <1>7 DEF DraftsUnacked, AckedSaved
<1>11. MessagesSaved'
  BY <1>2, SavedStays DEF MessagesSaved
<1>12. MessagesApart'
  BY <1>2 DEF MessagesApart
<1>13. DraftCopies'
  <2> SUFFICES ASSUME NEW f \in Evals, Holding(f)', NEW rm \in RMs, NEW i \in DOMAIN topic[rm],
                      topic[rm][i].alert_id = draft'[f]
               PROVE  /\ rm = owner[f] /\ topic[rm][i] = Message(draft'[f], RuleOf(f))
                      /\ sends[draft'[f]].lost > 0
    BY <1>2 DEF DraftCopies, RuleOf, Message
  <2>1. f # e
    BY <1>5, <1>7 DEF MessagesSaved
  <2> QED
    BY <1>6, <2>1 DEF DraftCopies
<1>14. AckedSaved'
  BY <1>2 DEF AckedSaved, UsedIds
<1> QED
  BY <1>8, <1>9, <1>10, <1>11, <1>12, <1>13, <1>14

\* Sending a draft: every message stays where it is, and a copy of the draft's comes
\* last in its own partition.
LEMMA SendDraft ==
    ASSUME TypeOK, LocalsOK, NEW e \in Evals, pc[e] = "publish", Send(e)
    PROVE  \A sm \in RMs : \A i \in DOMAIN topic'[sm] :
               \/ i \in DOMAIN topic[sm] /\ topic'[sm][i] = topic[sm][i]
               \/ /\ sm = owner[e] /\ i = Len(topic[sm]) + 1
                  /\ topic'[sm][i] = Message(draft[e], RuleOf(e))
<1> DEFINE rm == owner[e]
           m  == Message(draft[e], RuleOf(e))
<1>1. rm \in RMs /\ topic[rm] \in Seq(Payload) /\ topic \in [RMs -> Seq(Payload)]
  BY DEF LocalsOK, TypeOK
<1>2. topic' = [topic EXCEPT ![rm] = Append(@, m)]
  BY DEF Send
<1> HIDE DEF m, rm
<1>3. topic'[rm] = Append(topic[rm], m)
  BY <1>1, <1>2
<1>4. \A i \in DOMAIN topic'[rm] :
          \/ i \in DOMAIN topic[rm] /\ topic'[rm][i] = topic[rm][i]
          \/ i = Len(topic[rm]) + 1 /\ topic'[rm][i] = m
  BY <1>1, <1>3
<1>5. \A sm \in RMs : sm # rm => topic'[sm] = topic[sm]
  BY <1>1, <1>2
<1> QED
  BY <1>4, <1>5 DEF m, rm

\* A message of a draft, acknowledged or not: its copies so far are in the same
\* partition, and none of them was acknowledged.
LEMMA PublishDraft ==
    ASSUME TypeOK, LocalsOK, DraftParts, NEW e \in Evals, Published(e) \/ PublishUnacked(e)
    PROVE  DraftParts'
<1> USE DEF DraftParts
<1> DEFINE id == draft[e]
<1>1. pc[e] = "publish" /\ Holding(e) /\ owner[e] \in RMs /\ id \in AlertIds
  BY DEF Published, PublishUnacked, LocalsOK, Holding
<1>2. Send(e) /\ UNCHANGED <<ledger, owner>>
  BY DEF Published, PublishUnacked, local
<1>3. /\ \A i \in AlertIds : i # id => sends'[i] = sends[i]
      /\ sends'[id].lost >= sends[id].lost
      /\ PublishUnacked(e) => sends'[id].lost > 0 /\ sends'[id].acked = sends[id].acked
  BY <1>1 DEF Published, PublishUnacked, TypeOK
<1>4. \A f \in Evals : Holding(f)' =>
          /\ Holding(f) /\ draft'[f] = draft[f] /\ owner'[f] = owner[f] /\ RuleOf(f)' = RuleOf(f)
          /\ draft[f] \in AlertIds
          /\ f = e => PublishUnacked(e)
  <2>1. CASE Published(e)
    BY <2>1 DEF Published, Raise, Skip, Holding, TypeOK, LocalsOK, RuleOf
  <2>2. CASE PublishUnacked(e)
    BY <2>2 DEF PublishUnacked, local, Holding, LocalsOK, RuleOf
  <2> QED
    BY <2>1, <2>2
<1>5. \A sm \in RMs : \A i \in DOMAIN topic'[sm] :
          \/ i \in DOMAIN topic[sm] /\ topic'[sm][i] = topic[sm][i]
          \/ /\ sm = owner[e] /\ i = Len(topic[sm]) + 1
             /\ topic'[sm][i] = Message(id, RuleOf(e)) /\ topic'[sm][i].alert_id = id
  BY <1>1, <1>2, SendDraft DEF Message
<1>6. \A sm \in RMs : \A i \in DOMAIN topic[sm] : topic[sm][i].alert_id \in AlertIds
  <2> SUFFICES ASSUME NEW sm \in RMs, NEW i \in DOMAIN topic[sm] PROVE topic[sm][i].alert_id \in AlertIds
    OBVIOUS
  <2>1. topic[sm] \in Seq(Payload)
    BY DEF TypeOK
  <2>2. topic[sm][i] \in Payload
    BY <2>1
  <2> QED
    BY <2>2 DEF Payload
<1>7. \A f \in Evals : Holding(f) /\ f # e => draft[f] # id
  BY <1>1 DEF DraftsApart
<1>8. \A sm \in RMs : \A i \in DOMAIN topic[sm] : topic[sm][i].alert_id = id =>
          sm = owner[e] /\ topic[sm][i] = Message(id, RuleOf(e)) /\ sends[id].lost > 0
  BY <1>1 DEF DraftCopies
<1>9. ~sends[id].acked /\ sends[id].lost \in Nat /\ Saved(id, owner[e])
  BY <1>1 DEF DraftsUnacked, DraftsSaved, TypeOK
<1>10. sends[id].lost > 0 => sends'[id].lost > 0
  <2>1. sends'[id].lost \in Nat
    BY TypeStep, <1>1 DEF Next, Step, TypeOK
  <2> QED
    BY <1>3, <1>9, <2>1
<1> HIDE DEF id
<1>11. DraftsSaved'
  BY <1>2, <1>4, SavedStays DEF DraftsSaved
<1>12. DraftsApart'
  BY <1>4 DEF DraftsApart
<1>13. DraftsUnacked'
  <2> SUFFICES ASSUME NEW f \in Evals, Holding(f)' PROVE ~sends'[draft'[f]].acked
    BY DEF DraftsUnacked
  <2>1. CASE f = e
    BY <1>3, <1>4, <1>9, <2>1 DEF id
  <2>2. CASE f # e
    BY <1>3, <1>4, <1>7, <2>2 DEF DraftsUnacked
  <2> QED
    BY <2>1, <2>2
<1>14. DraftCopies'
  <2> SUFFICES ASSUME NEW f \in Evals, Holding(f)', NEW sm \in RMs, NEW i \in DOMAIN topic'[sm],
                      topic'[sm][i].alert_id = draft[f]
               PROVE  /\ sm = owner[f] /\ topic'[sm][i] = Message(draft[f], RuleOf(f))
                      /\ sends'[draft[f]].lost > 0
    BY <1>4 DEF DraftCopies, Message
  <2>1. CASE f = e
    <3>1. sends'[id].lost > 0
      BY <1>3, <1>4, <2>1
    <3>2. draft[f] = id
      BY <2>1 DEF id
    <3> QED
      BY <1>5, <1>8, <2>1, <3>1, <3>2
  <2>2. CASE f # e
    <3>1. Holding(f) /\ draft[f] # id /\ draft[f] \in AlertIds
      BY <1>4, <1>7, <2>2
    <3>2. i \in DOMAIN topic[sm] /\ topic'[sm][i] = topic[sm][i]
      BY <1>5, <3>1
    <3> QED
      BY <1>3, <3>1, <3>2 DEF DraftCopies
  <2> QED
    BY <2>1, <2>2
<1>15. MessagesSaved'
  <2>1. \A i, sm : Saved(i, sm)' <=> Saved(i, sm)
    BY <1>2 DEF Saved
  <2> QED
    BY <1>5, <1>9, <2>1 DEF MessagesSaved
<1>16. MessagesApart'
  <2> SUFFICES ASSUME NEW rm \in RMs, NEW sm \in RMs, NEW i \in DOMAIN topic'[rm], NEW j \in DOMAIN topic'[sm],
                      topic'[rm][i].alert_id = topic'[sm][j].alert_id
               PROVE  rm = sm /\ (i = j \/ sends'[topic'[rm][i].alert_id].lost > 0)
    BY DEF MessagesApart
  <2>1. CASE topic'[rm][i].alert_id # id
    <3>1. /\ i \in DOMAIN topic[rm] /\ topic'[rm][i] = topic[rm][i]
          /\ j \in DOMAIN topic[sm] /\ topic'[sm][j] = topic[sm][j]
      BY <1>5, <2>1
    <3>2. rm = sm /\ (i = j \/ sends[topic[rm][i].alert_id].lost > 0)
      BY <3>1 DEF MessagesApart
    <3> QED
      BY <1>3, <1>6, <2>1, <3>1, <3>2
  <2>2. CASE topic'[rm][i].alert_id = id
    <3>1. \A tm \in RMs : \A k \in DOMAIN topic'[tm] : topic'[tm][k].alert_id = id =>
              tm = owner[e] /\ (k = Len(topic[tm]) + 1 \/ sends[id].lost > 0)
      BY <1>5, <1>8
    <3> QED
      BY <1>10, <2>2, <3>1
  <2> QED
    BY <2>1, <2>2
<1>17. AckedSaved'
  <2>1. UsedIds' = UsedIds /\ id \in UsedIds
    BY <1>2, <1>9 DEF UsedIds, Saved
  <2> QED
    BY <1>3, <2>1 DEF AckedSaved
<1> QED
  BY <1>11, <1>12, <1>13, <1>14, <1>15, <1>16, <1>17

\* The whole is inductive.
LEMMA DraftStep ==
    ASSUME TypeOK, LocalsOK, OwnTodo, DraftParts, [Next]_vars
    PROVE  DraftParts'
<1> USE DEF Holding, TypeOK, RuleOf
<1>1. ASSUME NEW e \in Evals, Start(e) PROVE DraftParts'
  BY <1>1, QuietDrafts DEF Start, EvaluateProofOfConcept, EvaluateOneRule, Begin, store
<1>2. ASSUME NEW e \in Evals, NoCandidates(e) \/ CandidatesFound(e) \/ Finish(e) \/ CheckHit(e)
                              \/ CheckPass(e) \/ CreateFails(e) \/ InvalidateLists(e)
      PROVE  DraftParts'
  BY <1>2, QuietDrafts DEF NoCandidates, CandidatesFound, Finish, CheckHit, CheckPass, CreateFails,
     InvalidateLists, Skip, store
<1>3. ASSUME NEW e \in Evals, CreateLost(e) PROVE DraftParts'
  BY <1>3, QuietDrafts DEF CreateLost, Persist, Skip
<1>4. ASSUME NEW e \in Evals, SetCooldown(e) \/ SetCooldownFails(e) PROVE DraftParts'
  BY <1>4, QuietDrafts DEF SetCooldown, SetCooldownFails, RuleOf
<1>5. ASSUME NEW e \in Evals, PublishSkipped(e) PROVE DraftParts'
  BY <1>5, QuietDrafts DEF PublishSkipped, Raise, Skip, store
<1>6. CASE Tick
  BY <1>6, QuietDrafts DEF Tick, store, local
<1>7. CASE Crash
  BY <1>7, QuietDrafts DEF Crash
<1>8. CASE UNCHANGED vars
  BY <1>8, QuietDrafts DEF vars, store, local
<1> QED
  BY <1>1, <1>2, <1>3, <1>4, <1>5, <1>6, <1>7, <1>8, CreateDraft, PublishDraft DEF Next, Step

\* No alert is announced to the wrong RM or before it is stored, nor twice but for
\* the copies of a send whose acknowledgement was lost, however many evaluations
\* overlap and whatever fails.
THEOREM AnnouncedOnce == Spec => []PublishedOnce
<1>1. Init => OwnTodo /\ DraftParts
  BY DEF Init, OwnTodo, DraftParts, AckedSaved, DraftsSaved, DraftsApart, DraftsUnacked,
     DraftCopies, MessagesSaved, MessagesApart, Holding
<1>2. DraftParts => PublishedOnce
  <2> SUFFICES ASSUME DraftParts PROVE PublishedOnce
    OBVIOUS
  <2>1. \A m \in Messages : /\ m[1] \in RMs /\ m[2] \in DOMAIN topic[m[1]] /\ m = <<m[1], m[2]>>
    BY DEF Messages
  <2>2. \A m, n \in Messages : IdAt(m) = IdAt(n) =>
            m = n \/ (m[1] = n[1] /\ sends[IdAt(m)].lost > 0)
    BY <2>1 DEF IdAt, DraftParts, MessagesApart
  <2>3. \A m \in Messages : \E a \in ledger : a.id = IdAt(m) /\ RmOf[a.client] = m[1]
    BY <2>1 DEF IdAt, DraftParts, MessagesSaved, Saved
  <2> QED
    BY <2>2, <2>3 DEF PublishedOnce
<1> QED
  BY <1>1, <1>2, TypeInit, TypeStep, OwnTodoStep, DraftStep, PTL DEF Spec
-----------------------------------------------------------------------------
(* Refinement *)

\* The engine implements the abstract promise of AlertPromise: every step of an
\* evaluation, of the clock or of a crash is a step of the promise or none.
THEOREM EngineKeepsPromise == Spec => ImplementsPromise
<1>1. Init => Promise!PromiseInit
  BY DEF Init, Promise!PromiseInit
<1>2. CooldownInv /\ [Next]_vars => [Promise!PromiseNext]_(Promise!pvars)
  <2> SUFFICES ASSUME TypeOK, LocalsOK, CreateIsDue, [Next]_vars
               PROVE  Promise!PromiseNext \/ UNCHANGED <<now, ledger, lapsed>>
    BY DEF CooldownInv, Promise!pvars
  <2>1. ASSUME NEW e \in Evals, CreateAlert(e) \/ CreateLost(e) PROVE Promise!PromiseNext
    <3>1. PICK id \in AlertIds \ UsedIds :
             ledger' = ledger \cup {[id |-> id, rule |-> RuleOf(e),
                                     client |-> Head(todo[e]), at |-> now]}
      BY <2>1 DEF CreateAlert, CreateLost, Persist
    <3>2. /\ pc[e] = "create" /\ agenda[e] # <<>> /\ todo[e] # <<>>
          /\ UNCHANGED now /\ lapsed \subseteq lapsed'
      BY <2>1 DEF CreateAlert, CreateLost, LocalsOK
    <3>3. RuleOf(e) \in Rules /\ Head(todo[e]) \in Clients
      BY <3>2, KeyIsKey
    <3>4. <<RuleOf(e), Head(todo[e])>> \in lapsed \/ Promise!Cool(RuleOf(e), Head(todo[e]))
      BY <3>2 DEF CreateIsDue, Promise!Cool, Key, KeyOf, RuleOf
    <3>5. Promise!RaiseAlert(id, RuleOf(e), Head(todo[e]))
      BY <3>1, <3>2, <3>4 DEF Promise!RaiseAlert, UsedIds
    <3> QED
      BY <3>1, <3>3, <3>5 DEF Promise!PromiseNext
  <2>2. ASSUME NEW e \in Evals, CheckPass(e) \/ SetCooldownFails(e) PROVE Promise!PromiseNext
    BY <2>2 DEF CheckPass, SetCooldownFails, Promise!PromiseNext, Promise!Lapse
  <2>3. ASSUME NEW e \in Evals, Step(e)
        PROVE  Promise!PromiseNext \/ UNCHANGED <<now, ledger, lapsed>>
    BY <2>1, <2>2, <2>3 DEF Step, NoCandidates, CandidatesFound, Finish, CheckHit, CreateFails, SetCooldown,
       Published, PublishUnacked, PublishSkipped, InvalidateLists, store
  <2>4. CASE Tick
    BY <2>4 DEF Tick, TypeOK, store, Promise!PromiseNext, Promise!Elapse
  <2>5. CASE Crash
    BY <2>5 DEF Crash, Promise!PromiseNext, Promise!Lapse
  <2> QED
    BY <2>3, <2>4, <2>5 DEF Next, Start, EvaluateProofOfConcept, EvaluateOneRule, Begin,
       vars, store
<1>3. Init => CooldownInv
  BY CooldownInit
<1> QED
  BY <1>1, <1>2, <1>3, CooldownStep, PTL DEF Spec, Promise!PromiseSpec, ImplementsPromise

-----------------------------------------------------------------------------
(* AlertInbox *)

\* One document per alert_id; what is gone has outlived its expires_at.
OneRecord   == \A a, b \in ledger : a.id = b.id => a = b
GoneExpired == \A id \in UsedIds : docs[id] = "ABSENT" => now >= ExpiresAt(id)

\* A request past the ownership check, or told that an alert is missing, is about a
\* known alert, and of its own RM in the first case.
RequestsOK ==
    /\ rpc \in [Requests -> {"idle", "list", "warm", "find", "update", "drop"}]
    /\ params \in [Requests -> {NoParams}
                 \cup [kind: {"list"}, rm: RMs, on: Filters]
                 \cup [kind: {"ACKNOWLEDGED", "ACTED_ON"}, rm: RMs, on: AlertIds]]
    /\ answer \in [Requests -> Answers]
    /\ \A q \in Requests :
          rpc[q] \in {"find", "update"} =>
              params[q].kind \in {"ACKNOWLEDGED", "ACTED_ON"} /\ params[q].on \in UsedIds
    /\ \A q \in Requests : rpc[q] = "update" => params[q].rm = OwnerOf(params[q].on)
    /\ \A q \in Requests : answer[q] \in {"notFound", "updateFailed"} =>
          params[q].on \in UsedIds /\ docs[params[q].on] = "ABSENT"

InboxInv == TypeOK /\ LocalsOK /\ OneRecord /\ GoneExpired /\ RequestsOK

\* A known alert has one record, and keeps it.
LEMMA RecordKept ==
    ASSUME OneRecord', ledger \subseteq ledger', NEW id \in UsedIds
    PROVE  /\ id \in UsedIds' /\ RecordOf(id) \in ledger
           /\ RecordOf(id)' = RecordOf(id) /\ OwnerOf(id)' = OwnerOf(id)
           /\ ExpiresAt(id)' = ExpiresAt(id)
<1>1. PICK a \in ledger : a.id = id
  BY DEF UsedIds
<1>2. RecordOf(id) = a
  BY <1>1 DEF RecordOf, OneRecord
<1>3. RecordOf(id)' = a
  BY <1>1 DEF RecordOf, OneRecord
<1> QED
  BY <1>1, <1>2, <1>3 DEF OwnerOf, ExpiresAt, UsedIds

\* The expires_at of a known alert is a time.
LEMMA ExpiryIsTime ==
    ASSUME TypeOK, NEW id \in UsedIds
    PROVE  ExpiresAt(id) \in Nat
<1>1. RecordOf(id) \in ledger
  BY DEF UsedIds, RecordOf
<1>2. RecordOf(id).at \in Nat
  BY <1>1 DEF TypeOK, Raised
<1>3. \A s : Lifetime(s) \in Nat
  BY LifeAssumption DEF Lifetime
<1> QED
  BY <1>2, <1>3 DEF ExpiresAt

\* A step after which no request is further than before, and no alert is gone that was
\* there, keeps what is known about requests and alerts.
LEMMA QuietInbox ==
    ASSUME InboxInv, TypeOK', LocalsOK', OneRecord', ledger \subseteq ledger', now' >= now,
           \A id \in UsedIds : docs'[id] = docs[id],
           \A id \in UsedIds' \ UsedIds : docs'[id] # "ABSENT",
           UNCHANGED <<rpc, params, answer>>
    PROVE  InboxInv'
<1> USE DEF InboxInv
<1>1. GoneExpired'
  <2> SUFFICES ASSUME NEW id \in UsedIds', docs'[id] = "ABSENT" PROVE now' >= ExpiresAt(id)'
    BY DEF GoneExpired
  <2>1. id \in UsedIds /\ docs[id] = "ABSENT"
    OBVIOUS
  <2>2. ExpiresAt(id) \in Nat /\ ExpiresAt(id)' = ExpiresAt(id) /\ now >= ExpiresAt(id)
    BY <2>1, ExpiryIsTime, RecordKept DEF GoneExpired
  <2> QED
    BY <2>2 DEF TypeOK
<1>2. RequestsOK'
  BY RecordKept DEF RequestsOK
<1> QED
  BY <1>1, <1>2

\* Evaluations, the clock and a crash of the engine leave known alerts alone.
LEMMA EngineInbox ==
    ASSUME InboxInv, Next
    PROVE  /\ TypeOK' /\ LocalsOK' /\ OneRecord' /\ ledger \subseteq ledger' /\ now' >= now
           /\ \A id \in UsedIds : docs'[id] = docs[id]
           /\ \A id \in UsedIds' \ UsedIds : docs'[id] # "ABSENT"
<1> USE DEF InboxInv
<1>1. TypeOK' /\ LocalsOK'
  BY TypeStep
<1>2. ASSUME NEW e \in Evals, NEW id \in AlertIds \ UsedIds, Persist(e, id)
      PROVE  /\ OneRecord' /\ ledger \subseteq ledger'
             /\ \A i \in UsedIds : docs'[i] = docs[i]
             /\ \A i \in UsedIds' \ UsedIds : docs'[i] # "ABSENT"
  <2> DEFINE new == [id |-> id, rule |-> RuleOf(e), client |-> Head(todo[e]), at |-> now]
  <2>1. ledger' = ledger \cup {new} /\ docs' = [docs EXCEPT ![id] = "NEW"]
    BY <1>2 DEF Persist
  <2>2. new.id = id
    OBVIOUS
  <2> HIDE DEF new
  <2>3. OneRecord'
    BY <2>1, <2>2 DEF OneRecord, UsedIds
  <2>4. \A i \in UsedIds' : i \in UsedIds \/ i = id
    BY <2>1, <2>2 DEF UsedIds
  <2> QED
    BY <2>1, <2>3, <2>4 DEF TypeOK
<1>3. ASSUME NEW e \in Evals, CreateAlert(e) \/ CreateLost(e)
      PROVE  /\ OneRecord' /\ ledger \subseteq ledger' /\ UNCHANGED now
             /\ \A i \in UsedIds : docs'[i] = docs[i]
             /\ \A i \in UsedIds' \ UsedIds : docs'[i] # "ABSENT"
  BY <1>2, <1>3 DEF CreateAlert, CreateLost
<1>4. ASSUME UNCHANGED <<docs, ledger>>
      PROVE  /\ OneRecord' /\ ledger \subseteq ledger' /\ UsedIds' = UsedIds
             /\ \A i \in UsedIds : docs'[i] = docs[i]
  BY <1>4 DEF OneRecord, UsedIds
<1>5. CASE \E e \in Evals : CreateAlert(e) \/ CreateLost(e)
  BY <1>1, <1>3, <1>5 DEF TypeOK
<1>6. CASE ~ \E e \in Evals : CreateAlert(e) \/ CreateLost(e)
  <2>1. UNCHANGED <<docs, ledger>> /\ (UNCHANGED now \/ now' = now + 1)
    BY <1>6 DEF Next, Start, EvaluateProofOfConcept, EvaluateOneRule, Begin, Step, NoCandidates,
       CandidatesFound, Finish, CheckHit, CheckPass, CreateFails, SetCooldown, SetCooldownFails,
       Published, PublishUnacked, PublishSkipped, InvalidateLists, Tick, Crash, store
  <2> QED
    BY <1>1, <1>4, <2>1 DEF TypeOK
<1> QED
  BY <1>5, <1>6

\* A step of a request changes at most the status of the alert it is about.
LEMMA RequestInbox ==
    ASSUME InboxInv, NEW q \in Requests, Arrive(q) \/ RequestStep(q)
    PROVE  InboxInv'
<1> USE DEF InboxInv
<1>1. UNCHANGED <<now, ledger, cooldown, lapsed, topic, sends, started, local>>
  BY DEF Arrive, Ask, RequestStep, ReadList, WarmList, FindAndVerify, Update, DropList, vars, store
<1>2. /\ OneRecord' /\ UsedIds' = UsedIds
      /\ \A id : OwnerOf(id)' = OwnerOf(id) /\ ExpiresAt(id)' = ExpiresAt(id)
  BY <1>1 DEF OneRecord, UsedIds, OwnerOf, ExpiresAt, RecordOf
<1>3. UsedIds \subseteq AlertIds
  BY DEF UsedIds, TypeOK, Raised
<1>4. ASSUME docs' \in [AlertIds -> Statuses], \A id \in UsedIds : docs'[id] = "ABSENT" <=> docs[id] = "ABSENT"
      PROVE  TypeOK' /\ LocalsOK' /\ GoneExpired'
  BY <1>1, <1>2, <1>4 DEF TypeOK, LocalsOK, GoneExpired, local
<1>5. ASSUME UNCHANGED docs PROVE TypeOK' /\ LocalsOK' /\ GoneExpired'
  BY <1>4, <1>5 DEF TypeOK
<1>6. CASE Arrive(q)
  <2>1. PICK j : Ask(q, j) /\ (\/ j \in [kind: {"list"}, rm: RMs, on: Filters]
                               \/ j \in [kind: {"ACKNOWLEDGED", "ACTED_ON"}, rm: RMs, on: UsedIds])
    <3>1. ASSUME NEW rm \in RMs, NEW f \in Filters
          PROVE  [kind |-> "list", rm |-> rm, on |-> f] \in [kind: {"list"}, rm: RMs, on: Filters]
      OBVIOUS
    <3>2. ASSUME NEW rm \in RMs, NEW k \in {"ACKNOWLEDGED", "ACTED_ON"}, NEW id \in UsedIds
          PROVE  [kind |-> k, rm |-> rm, on |-> id] \in [kind: {"ACKNOWLEDGED", "ACTED_ON"}, rm: RMs, on: UsedIds]
      OBVIOUS
    <3> QED
      BY <1>6, <3>1, <3>2, Zenon DEF Arrive
  <2>2. UNCHANGED docs
    BY <2>1 DEF Ask, vars, store
  <2>3. RequestsOK'
    BY <1>2, <1>3, <2>1, <2>2 DEF Ask, RequestsOK, Answers
  <2> QED
    BY <1>2, <1>5, <2>2, <2>3
<1>7. CASE ReadList(q) \/ WarmList(q) \/ DropList(q)
  <2>1. UNCHANGED docs
    BY <1>7 DEF ReadList, WarmList, DropList, vars, store
  <2>2. RequestsOK'
    BY <1>2, <1>7, <2>1 DEF ReadList, WarmList, DropList, Reply, RequestsOK, Answers
  <2> QED
    BY <1>2, <1>5, <2>1, <2>2
<1>8. CASE FindAndVerify(q)
  <2>1. UNCHANGED docs
    BY <1>8 DEF FindAndVerify, vars, store
  <2>2. RequestsOK'
    BY <1>2, <1>8, <2>1 DEF FindAndVerify, Reply, RequestsOK, Answers
  <2> QED
    BY <1>2, <1>5, <2>1, <2>2
<1>9. CASE Update(q)
  <2>1. rpc[q] = "update" /\ params[q].on \in UsedIds /\ params[q].kind \in Statuses \ {"ABSENT"}
    BY <1>9 DEF Update, RequestsOK, Statuses
  <2>2. docs' \in [AlertIds -> Statuses] /\ \A id \in UsedIds : docs'[id] = "ABSENT" <=> docs[id] = "ABSENT"
    BY <1>3, <1>9, <2>1 DEF Update, TypeOK
  <2>3. RequestsOK'
    BY <1>2, <1>9, <2>2 DEF Update, Reply, RequestsOK, Answers
  <2> QED
    BY <1>2, <1>4, <2>2, <2>3
<1> QED
  BY <1>6, <1>7, <1>8, <1>9 DEF RequestStep

\* The TTL monitor deletes what has expired.
LEMMA ExpireInbox ==
    ASSUME InboxInv, NEW id \in UsedIds, MongoExpire(id)
    PROVE  InboxInv'
<1> USE DEF InboxInv
<1>1. /\ UNCHANGED <<now, ledger, cooldown, lapsed, topic, sends, started, local, rpc, params, answer>>
      /\ docs' = [docs EXCEPT ![id] = "ABSENT"] /\ now >= ExpiresAt(id)
  BY DEF MongoExpire, request
<1>2. /\ OneRecord' /\ UsedIds' = UsedIds
      /\ \A i : OwnerOf(i)' = OwnerOf(i) /\ ExpiresAt(i)' = ExpiresAt(i)
  BY <1>1 DEF OneRecord, UsedIds, OwnerOf, ExpiresAt, RecordOf
<1>3. UsedIds \subseteq AlertIds
  BY DEF UsedIds, TypeOK, Raised
<1>4. TypeOK' /\ LocalsOK'
  BY <1>1 DEF TypeOK, LocalsOK, Statuses, local
<1>5. GoneExpired'
  BY <1>1, <1>2, <1>3 DEF GoneExpired, TypeOK
<1>6. RequestsOK'
  BY <1>1, <1>2, <1>3 DEF RequestsOK, TypeOK
<1> QED
  BY <1>2, <1>4, <1>5, <1>6

\* The invariant is inductive.
LEMMA InboxInvStep == InboxInv /\ [InboxNext]_inboxVars => InboxInv'
<1> SUFFICES ASSUME InboxInv, [InboxNext]_inboxVars PROVE InboxInv'
  OBVIOUS
<1>1. CASE Next /\ UNCHANGED request
  BY <1>1, EngineInbox, QuietInbox DEF request
<1>2. CASE InboxCrash
  <2>1. Next /\ UNCHANGED <<params, answer, docs>>
    BY <1>2 DEF InboxCrash, Next, Crash
  <2>2. RequestsOK'
    BY <1>2, <2>1, EngineInbox DEF InboxCrash, InboxInv, RequestsOK, UsedIds
  <2>3. GoneExpired'
    BY <1>2, <2>1 DEF InboxCrash, Crash, InboxInv, GoneExpired, UsedIds, ExpiresAt, RecordOf
  <2> QED
    BY <2>1, <2>2, <2>3, EngineInbox DEF InboxInv
<1>3. ASSUME NEW q \in Requests, Arrive(q) \/ RequestStep(q) PROVE InboxInv'
  BY <1>3, RequestInbox
<1>4. ASSUME NEW id \in UsedIds, MongoExpire(id) PROVE InboxInv'
  BY <1>4, ExpireInbox
<1>5. ASSUME UNCHANGED <<now, docs, ledger, cooldown, lapsed, topic, sends, started, local, request>> PROVE InboxInv'
  BY <1>5 DEF InboxInv, TypeOK, LocalsOK, OneRecord, GoneExpired, RequestsOK, UsedIds, OwnerOf, ExpiresAt, RecordOf,
     local, request
<1>6. ASSUME NEW rm \in RMs, ListExpires(rm) PROVE InboxInv'
  BY <1>5, <1>6 DEF ListExpires
<1>7. CASE UNCHANGED inboxVars
  BY <1>5, <1>7 DEF inboxVars, vars, store
<1> QED
  BY <1>1, <1>2, <1>3, <1>4, <1>6, <1>7 DEF InboxNext, Next

\* The invariant holds initially.
LEMMA InboxInvInit == InboxInit => InboxInv
BY TypeInit DEF InboxInit, Init, InboxInv, OneRecord, GoneExpired, RequestsOK, UsedIds, NoParams, Answers

\* "Not found" and "update failed" are told only of an alert that has outlived its
\* expires_at, whatever requests, evaluations, deletions and crashes interleave.
THEOREM MissingIsExpired == InboxSpec => []MissingOnlyIfExpired
<1>1. InboxInv => MissingOnlyIfExpired
  BY DEF InboxInv, RequestsOK, GoneExpired, MissingOnlyIfExpired
<1> QED
  BY <1>1, InboxInvInit, InboxInvStep, PTL DEF InboxSpec

\* A stored alert changes only by its own RM's request, disappears only past its
\* expires_at, and never comes back.
THEOREM OwnerAlone == InboxSpec => OnlyTheOwnerChangesIt
<1> DEFINE Allowed ==
      \A id \in UsedIds : docs'[id] # docs[id] =>
          \/ docs[id] # "ABSENT" /\ docs'[id] = "ABSENT" /\ now >= ExpiresAt(id)
          \/ /\ docs[id] # "ABSENT" /\ docs'[id] # "ABSENT"
             /\ \E q \in Requests : /\ rpc[q] = "update" /\ params[q].on = id
                                    /\ params[q].rm = OwnerOf(id)
<1>1. InboxInv /\ [InboxNext]_inboxVars => [Allowed]_inboxVars
  <2> SUFFICES ASSUME InboxInv, InboxNext, NEW id \in UsedIds, docs'[id] # docs[id]
               PROVE  \/ docs[id] # "ABSENT" /\ docs'[id] = "ABSENT" /\ now >= ExpiresAt(id)
                      \/ /\ docs[id] # "ABSENT" /\ docs'[id] # "ABSENT"
                         /\ \E q \in Requests : /\ rpc[q] = "update" /\ params[q].on = id
                                                /\ params[q].rm = OwnerOf(id)
    OBVIOUS
  <2>1. ~Next
    BY EngineInbox
  <2>2. \A rm \in RMs : ~ListExpires(rm)
    BY DEF ListExpires
  <2>3. \A i \in UsedIds : MongoExpire(i) => i = id /\ docs[id] # "ABSENT" /\ docs'[id] = "ABSENT" /\ now >= ExpiresAt(id)
    BY DEF MongoExpire, InboxInv, TypeOK, UsedIds, Raised
  <2>4. ASSUME NEW q \in Requests, Arrive(q) \/ RequestStep(q)
        PROVE  Update(q)
    BY <2>4 DEF Arrive, Ask, RequestStep, ReadList, WarmList, FindAndVerify, DropList, vars, store
  <2>5. ASSUME NEW q \in Requests, Update(q)
        PROVE  /\ docs[id] # "ABSENT" /\ docs'[id] # "ABSENT"
               /\ rpc[q] = "update" /\ params[q].on = id /\ params[q].rm = OwnerOf(id)
    <3>1. /\ rpc[q] = "update" /\ docs' = [docs EXCEPT ![params[q].on] = params[q].kind]
          /\ docs[params[q].on] # "ABSENT"
      BY <2>5 DEF Update
    <3>2. params[q].on = id
      BY <3>1 DEF InboxInv, TypeOK
    <3> QED
      BY <3>1, <3>2 DEF InboxInv, RequestsOK, TypeOK
  <2> QED
    BY <2>1, <2>2, <2>3, <2>4, <2>5 DEF InboxNext, InboxCrash, Next
<1> QED
  BY <1>1, InboxInvInit, InboxInvStep, PTL DEF InboxSpec, OnlyTheOwnerChangesIt

-----------------------------------------------------------------------------
(* AlertPipeline *)

\* Sending an alert is producing a message.
LEMMA PublishedIsProduce ==
    ASSUME TypeOK, LocalsOK, DraftParts, NEW e \in Evals, Published(e) \/ PublishUnacked(e),
           UNCHANGED delivery
    PROVE  \E rm \in RMs : D!Produce(rm)
<1> DEFINE rm == owner[e]
           m  == Message(draft[e], RuleOf(e))
<1>1. /\ rm \in RMs /\ draft[e] \in AlertIds /\ agenda[e] # <<>> /\ todo[e] # <<>> /\ Holding(e)
  BY DEF Published, PublishUnacked, LocalsOK, Holding
<1>2. RuleOf(e) \in Rules
  BY <1>1, KeyIsKey
<1>3. m \in D!Message /\ m.alert_id = draft[e]
  <2>1. [severity |-> Severity[RuleOf(e)], channels |-> Absent, rm_name |-> Absent] \in PublishedPayloads
    BY <1>2 DEF PublishedPayloads
  <2> QED
    BY <1>1, <2>1 DEF D!Message, Message
<1>4. ~sends[draft[e]].acked
  BY <1>1 DEF DraftParts, DraftsUnacked
<1>5. \A r \in RMs : \A i \in DOMAIN topic[r] : topic[r][i].alert_id = draft[e] => r = rm /\ topic[r][i] = m
  BY <1>1 DEF DraftParts, DraftCopies
<1>6. topic' = [topic EXCEPT ![rm] = Append(@, m)]
  BY DEF Published, PublishUnacked, Send
<1>7. \/ sends' = [sends EXCEPT ![draft[e]].acked = TRUE]
      \/ sends[draft[e]].lost < Retries /\ sends' = [sends EXCEPT ![draft[e]].lost = @ + 1]
  BY DEF Published, PublishUnacked
<1>8. UNCHANGED <<committed, receipts, consumer, member, producer, position, resolved, job, room, joins, shown,
                  crashes, rejoins, called, handled>>
  BY DEF delivery
<1> HIDE DEF m, rm
<1>10. /\ ~sends[m.alert_id].acked
       /\ \A r \in RMs : \A i \in DOMAIN topic[r] :
             topic[r][i].alert_id = m.alert_id => r = rm /\ topic[r][i] = m
       /\ \/ sends' = [sends EXCEPT ![m.alert_id].acked = TRUE]
          \/ /\ sends[m.alert_id].lost < Retries
             /\ sends' = [sends EXCEPT ![m.alert_id].lost = @ + 1]
  BY <1>3, <1>4, <1>5, <1>7
<1>11. UNCHANGED <<committed, receipts, D!service, D!clients, D!past, called, handled>>
  BY <1>8 DEF D!service, D!clients, D!past
<1>9. D!Produce(rm)
  BY <1>3, <1>6, <1>10, <1>11 DEF D!Produce
<1> QED
  BY <1>1, <1>9 DEF rm

\* Everything shown of AlertDelivery holds behind the engine: every engine step
\* appends to the partition of an RM one message of an alert of its own or once more
\* that of an unacknowledged one, or leaves the delivery service and its topic alone.
THEOREM EngineIsProducer == PipelineSpec => ImplementsDelivery
<1> DEFINE EngineInv == TypeOK /\ LocalsOK /\ OwnTodo /\ DraftParts
<1>1. PipelineInit => EngineInv /\ D!DeliveryInit
  <2>1. Init => OwnTodo /\ DraftParts
    BY DEF Init, OwnTodo, DraftParts, AckedSaved, DraftsSaved, DraftsApart, DraftsUnacked,
       DraftCopies, MessagesSaved, MessagesApart, Holding
  <2> QED
    BY <2>1, TypeInit DEF PipelineInit
<1>2. [PipelineNext]_pipelineVars => [Next]_vars
  BY DEF PipelineNext, EngineStep, ServiceStep, pipelineVars
<1>3. EngineInv /\ [Next]_vars => EngineInv'
  BY TypeStep, OwnTodoStep, DraftStep
<1>4. EngineInv /\ [PipelineNext]_pipelineVars => [D!DeliveryNext]_(D!dvars)
  <2> SUFFICES ASSUME TypeOK, LocalsOK, DraftParts, [PipelineNext]_pipelineVars
               PROVE  D!DeliveryNext \/ UNCHANGED D!dvars
    OBVIOUS
  <2>1. ASSUME NEW e \in Evals, Published(e) \/ PublishUnacked(e), UNCHANGED delivery
        PROVE  D!DeliveryNext
    BY <2>1, PublishedIsProduce DEF D!DeliveryNext
  <2>2. ASSUME UNCHANGED <<topic, sends>>, UNCHANGED delivery PROVE UNCHANGED D!dvars
    BY <2>2 DEF delivery, D!dvars, D!kafka, D!log, D!service, D!clients, D!past
  <2>3. ASSUME Next, UNCHANGED delivery PROVE D!DeliveryNext \/ UNCHANGED <<topic, sends>>
    BY <2>1, <2>3 DEF Next, Start, EvaluateProofOfConcept, EvaluateOneRule, Begin, Step, NoCandidates,
       CandidatesFound, Finish, CheckHit, CheckPass, CreateAlert, CreateFails, CreateLost, SetCooldown,
       SetCooldownFails, PublishSkipped, InvalidateLists, Tick, Crash, store
  <2>4. CASE EngineStep
    BY <2>2, <2>3, <2>4 DEF EngineStep
  <2>5. CASE ServiceStep
    BY <2>5 DEF ServiceStep, D!DeliveryNext
  <2>6. CASE UNCHANGED pipelineVars
    BY <2>2, <2>6 DEF pipelineVars, vars, store
  <2> QED
    BY <2>4, <2>5, <2>6 DEF PipelineNext
<1> QED
  BY <1>1, <1>2, <1>3, <1>4, PTL DEF PipelineSpec, ImplementsDelivery, D!DeliverySpec
=============================================================================
