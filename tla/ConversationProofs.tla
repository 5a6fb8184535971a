------------------------- MODULE ConversationProofs -------------------------
(***************************************************************************)
(* Proofs about Conversation, for any number of questions and sessions and *)
(* any number of faults.  The four properties hold of one inductive        *)
(* invariant, whose parts say what each stage of a question may count on;  *)
(* a lemma per part shows that every step preserves it.                    *)
(***************************************************************************)
EXTENDS Conversation, FiniteSetTheorems, TLAPS

\* Where a question may be in the orchestrator, and where it is before anything is stored.
Places == {"none", "get", "find", "setex", "run", "pushUser", "dropUser", "pushAnswer",
           "pushOnly", "dropLast", "hook", "over"}
Before == {"none", "get", "find", "setex", "run"}

\* The sessions some question was asked in, and the questions asked.
Used == {of[d].session : d \in Chats} \ {None}
Sent == {d \in Chats : asked[d] # "no"}

\* The states the variables range over, documents left out: they are in Exchanges.
TypeOK ==
    /\ active \in Sessions \cup {None} /\ shown \subseteq Sessions /\ list \subseteq Sessions
    /\ loading \in BOOLEAN /\ strayed \in BOOLEAN
    /\ asked \in [Chats -> {"no", "waiting", "elsewhere", "done", "error", "timeout"}]
    /\ of \in [Chats -> [session : Sessions \cup {None}, opens : BOOLEAN]]
    /\ reply \in [Chats -> {"none", "text", "empty", "error", "timeout"}]
    /\ pc \in [Chats -> Places]
    /\ DOMAIN copy = Chats /\ DOMAIN stored = Sessions /\ DOMAIN cached = Sessions
    /\ deletion \in [at : {"none", "mongo", "redis", "confirmed"}, session : Sessions \cup {None}]
    /\ deletion.at # "none" => deletion.session # None

\* Questions and sessions are numbered in the order they come, so that the next of either
\* is new everywhere: in the panel, the list, MongoDB and the deletion under way.
Numbered ==
    /\ \E n \in 0 .. MaxChats : Sent = 1 .. n
    /\ \A c \in Chats : /\ asked[c] = "no" <=> of[c].session = None
                        /\ asked[c] = "no" => pc[c] = "none" /\ reply[c] = "none"
    /\ \E m \in 0 .. MaxSessions : Used = 1 .. m
    /\ active \in Used \cup {None} /\ list \subseteq Used /\ gone \subseteq Used
    /\ deletion.session \in Used \cup {None}
    /\ \A s \in Sessions : stored[s] # None => s \in Used

\* Unless the RM moved with something on the panel: one question at a time is waited for,
\* it belongs to the one conversation shown, and that is the active one (or becomes it).
Together ==
    /\ loading => Waiting # {}
    /\ ~strayed =>
        /\ Pending = Waiting
        /\ Waiting # {} => loading
        /\ \A c, d \in Waiting : c = d
        /\ \A c \in Waiting : /\ shown = {of[c].session}
                              /\ active = IF of[c].opens THEN None ELSE of[c].session
        /\ \A s \in shown : shown = {s} /\ (active = s \/ Waiting # {})

\* What a chat carries from MongoDB to Redis is what MongoDB holds, until a write overtakes it.
CarriedIsCurrent == \A s \in Sessions : \A c \in Carriers(s) : s \notin overtaken => copy[c] = stored[s]

\* A deleted conversation is nowhere, and no chat is left that could write to it; and the
\* same of the one being deleted, as far as the deletion has come.
Quiet(s) == \A c \in In(s) : ~Unfinished(c)
Removed ==
    /\ \A s \in gone \ late : /\ stored[s] = None /\ cached[s] = None
                              /\ s # active /\ s \notin list /\ s # deletion.session
                              /\ Quiet(s)
    /\ LET s == deletion.session IN s \notin late =>
        /\ deletion.at \in {"redis", "confirmed"} => stored[s] = None /\ Quiet(s)
        /\ deletion.at = "confirmed" => cached[s] = None

\* A message of question c is in the conversation; and nothing will be answered to c that
\* makes it a failure.
Says(s, c, by) == stored[s] # None /\ \E i \in DOMAIN stored[s].messages : stored[s].messages[i] = <<c, by>>
Settled(c)     == "error" \notin {asked[c], reply[c]} /\ ~(c \in Pending /\ reply[c] = "none")

\* Every stored message is of a question of that conversation that did not fail and that has
\* come that far; a question between its two messages has the first one stored, unless a
\* deletion cut it; and of two questions of an uncrowded conversation the first is stored.
Exchanges ==
    /\ stored \in [Sessions -> Document \cup {None}]
    /\ \A s \in Sessions, c \in Chats, by \in {"user", "assistant"} : Says(s, c, by) =>
          /\ of[c].session = s /\ Settled(c)
          /\ pc[c] \in {"dropUser", "pushAnswer", "dropLast", "hook", "over"}
          /\ pc[c] \in {"dropUser", "pushAnswer"} => by = "user"
    /\ \A c \in Chats : pc[c] \in {"dropUser", "pushAnswer"} /\ c \notin cut =>
          Says(of[c].session, c, "user")
    /\ \A c \in Chats : /\ pc[c] \notin {"none", "over"} => "error" \notin {asked[c], reply[c]}
                        /\ pc[c] \notin Before \cup {"over"} => Settled(c)
    /\ \A s \in Sessions \ crowded : \A c, d \in In(s) : c < d => ~Storing(c)

\* The first and the third part of TranscriptInOrder.
Follow(m, lost) == \A j \in DOMAIN m :
    m[j][2] = "assistant" /\ m[j][1] \notin lost => \E i \in 1 .. j - 1 : m[i] = <<m[j][1], "user">>
AnswersFollow == \A s \in Sessions : stored[s] # None => Follow(stored[s].messages, cut)
InTurn == \A s \in Sessions \ crowded : stored[s] # None =>
    \A i, j \in DOMAIN stored[s].messages : i < j =>
        LET m == stored[s].messages IN
        m[i][1] < m[j][1] \/ (m[i][1] = m[j][1] /\ m[i][2] = "user" /\ m[j][2] = "assistant")

\* Typing, and the numbering of questions and sessions, hold initially.
LEMMA NumberedInit == ConversationInit => TypeOK /\ Numbered
<1> SUFFICES ASSUME ConversationInit PROVE TypeOK /\ Numbered
  OBVIOUS
<1> USE DEF ConversationInit, NoDelete
<1>1. TypeOK
  BY ConversationAssumption DEF TypeOK, Places
<1>2. Sent = 1 .. 0 /\ Used = 1 .. 0
  BY DEF Sent, Used
<1>3. Numbered
  BY <1>2, ConversationAssumption DEF Numbered
<1> QED
  BY <1>1, <1>3

\* Typing is preserved.
LEMMA TypeStep == TypeOK /\ Numbered /\ [ConversationNext]_vars => TypeOK'
<1> SUFFICES ASSUME TypeOK, Numbered, [ConversationNext]_vars PROVE TypeOK'
  OBVIOUS
<1> USE DEF TypeOK, Places
<1>a. /\ UNCHANGED panel => UNCHANGED <<active, shown, loading, list, asked, of, strayed>>
      /\ UNCHANGED server => UNCHANGED <<pc, copy, stored, cached>>
      /\ UNCHANGED sidebar => UNCHANGED deletion
  BY DEF panel, server, sidebar
<1>b. ASSUME NEW c \in Chats, NEW what \in {"text", "empty", "error", "timeout"}
      PROVE  Answered(c, what) \in {"none", "text", "empty", "error", "timeout"}
  BY DEF Answered
<1>1. ASSUME NEW c \in Chats, Send(c) PROVE TypeOK'
  BY <1>1 DEF Send
<1>2. ASSUME NEW c \in Chats, Receive(c) PROVE TypeOK'
  <2>1. of[c].session \in Sessions
    BY <1>2 DEF Receive, Pending, Numbered
  <2>2. active' \in Sessions \cup {None} /\ shown' \subseteq Sessions
    BY <1>2, <2>1 DEF Receive
  <2>3. loading' \in BOOLEAN /\ strayed' \in BOOLEAN /\ UNCHANGED list
    BY <1>2 DEF Receive
  <2>4. asked' \in [Chats -> {"no", "waiting", "elsewhere", "done", "error", "timeout"}]
    BY <1>2 DEF Receive
  <2>5. reply' \in [Chats -> {"none", "text", "empty", "error", "timeout"}]
    BY <1>2 DEF Receive
  <2>6. of' \in [Chats -> [session : Sessions \cup {None}, opens : BOOLEAN]]
    <3>1. of[c] \in [session : Sessions \cup {None}, opens : BOOLEAN]
      OBVIOUS
    <3>2. of' = [of EXCEPT ![c] = [of[c] EXCEPT !.opens = FALSE]]
      BY <1>2 DEF Receive
    <3>3. [of[c] EXCEPT !.opens = FALSE] \in [session : Sessions \cup {None}, opens : BOOLEAN]
      BY <3>1
    <3> QED
      BY <3>2, <3>3
  <2> QED
    BY <1>2, <1>a, <2>2, <2>3, <2>4, <2>5, <2>6 DEF Receive
<1>3. ASSUME NEW c \in Chats, Refuse(c) \/ ProxyTimeout(c) PROVE TypeOK'
  BY <1>3, <1>a DEF Refuse, ProxyTimeout, Goto, Reply, Answered
<1>4. ASSUME NEW c \in Chats, GetSession(c) \/ FindSession(c) \/ CopySession(c) PROVE TypeOK'
  BY <1>4, <1>a DEF GetSession, FindSession, CopySession, Goto
<1>5. ASSUME NEW c \in Chats, Supervise(c) PROVE TypeOK'
  <2>1. PICK what \in {"text", "empty", "error"} : Reply(c, what)
    BY <1>5 DEF Supervise
  <2>2. reply' \in [Chats -> {"none", "text", "empty", "error", "timeout"}]
    BY <1>b, <2>1 DEF Reply
  <2>3. pc' \in [Chats -> Places]
    BY <1>5 DEF Supervise, Goto
  <2> QED
    BY <1>5, <1>a, <2>2, <2>3 DEF Supervise
<1>6. ASSUME NEW c \in Chats, AppendMessages(c) PROVE TypeOK'
  BY <1>6, <1>a DEF AppendMessages, Push, Drop, Goto
<1>r. ASSUME NEW c \in Chats, Remember(c) PROVE TypeOK'
  BY <1>r, <1>a DEF Remember, Goto
<1>7. ASSUME NEW s \in Sessions, Choose(s) \/ Expire(s) \/ ExpireStored(s) \/ AskDelete(s) PROVE TypeOK'
  <2>1. CASE Choose(s)
    BY <2>1, <1>a DEF Choose
  <2>2. CASE Expire(s) \/ ExpireStored(s)
    BY <2>2, <1>a DEF Expire, ExpireStored
  <2>3. CASE AskDelete(s)
    BY <2>3, <1>a, NoneAssumption DEF AskDelete, Sessions
  <2> QED
    BY <1>7, <2>1, <2>2, <2>3
<1>8. CASE NewConversation \/ Revisit
  BY <1>8, <1>a DEF NewConversation, BecomeNew, Revisit
<1>9. CASE Crash
  <2>1. reply' \in [Chats -> {"none", "text", "empty", "error", "timeout"}]
    BY <1>9, <1>b DEF Crash
  <2>2. pc' \in [Chats -> Places] /\ DOMAIN copy' = Chats
    BY <1>9 DEF Crash
  <2> QED
    BY <1>9, <1>a, <2>1, <2>2 DEF Crash, NoDelete
<1>10. CASE ListSessions \/ DeleteStored \/ DeleteCached
  BY <1>10, <1>a DEF ListSessions, Listed, DeleteStored, DeleteCached, NoDelete
<1>11. CASE RemoveSession
  <2>1. /\ deletion' = NoDelete /\ list' \subseteq Sessions
        /\ UNCHANGED <<loading, asked, of, server, reply>>
    BY <1>11 DEF RemoveSession
  <2>2. active' \in Sessions \cup {None} /\ shown' \subseteq Sessions /\ strayed' \in BOOLEAN
    BY <1>11 DEF RemoveSession, BecomeNew
  <2> QED
    BY <1>a, <2>1, <2>2 DEF NoDelete
<1>12. CASE UNCHANGED vars
  BY <1>12, <1>a DEF vars
<1> QED
  BY <1>1, <1>2, <1>3, <1>4, <1>5, <1>6, <1>r, <1>7, <1>8, <1>9, <1>10, <1>11, <1>12 DEF ConversationNext

\* A question that is asked now was not asked before, and a session it opens is new.
LEMMA SendIsFresh ==
    ASSUME TypeOK, Numbered, NEW c \in Chats, Send(c)
    PROVE  /\ asked[c] = "no" /\ of[c].session = None /\ pc[c] = "none"
           /\ \A d \in Sent : d < c
           /\ of'[c].session \in Sessions
           /\ active = None => of'[c].session \notin Used
           /\ active # None => of'[c].session = active
           /\ of' = [of EXCEPT ![c] = [session |-> of'[c].session, opens |-> active = None]]
           /\ Sent' = Sent \cup {c} /\ Used' = Used \cup {of'[c].session}
           /\ \E n \in 0 .. MaxChats : Sent' = 1 .. n
           /\ \E m \in 0 .. MaxSessions : Used' = 1 .. m
<1> DEFINE opens == active = None
           s == of'[c].session
<1>1. PICK n \in 0 .. MaxChats : Sent = 1 .. n
  BY DEF Numbered
<1>2. PICK m \in 0 .. MaxSessions : Used = 1 .. m
  BY DEF Numbered
<1>3. Cardinality(Sent) = n /\ Cardinality(Used) = m
  BY <1>1, <1>2, FS_Interval
<1>4. c = n + 1
  BY <1>3 DEF Send, Sent
<1>5. asked[c] = "no" /\ of[c].session = None /\ pc[c] = "none"
  BY <1>1, <1>4 DEF Sent, Numbered
<1>6. s = (IF opens THEN m + 1 ELSE active) /\ s \in Sessions
  BY <1>3 DEF Send, Used, TypeOK
<1>7. /\ asked' = [asked EXCEPT ![c] = "waiting"]
      /\ of' = [of EXCEPT ![c] = [session |-> s, opens |-> opens]]
  BY DEF Send, TypeOK
<1> HIDE DEF s, opens
<1>8. Sent' = Sent \cup {c}
  BY <1>7 DEF Sent, TypeOK
<1>9. Sent' = 1 .. (n + 1) /\ n + 1 \in 0 .. MaxChats
  BY <1>1, <1>4, <1>8 DEF Chats
<1>10. s # None
  BY <1>6, NoneAssumption DEF Sessions
<1>11. Used' = Used \cup {s}
  BY <1>5, <1>7, <1>10 DEF Used, TypeOK
<1>12. \E k \in 0 .. MaxSessions : Used' = 1 .. k
  <2>1. CASE opens
    <3>1. Used' = 1 .. (m + 1) /\ m + 1 \in 0 .. MaxSessions
      BY <1>2, <1>6, <1>11, <2>1 DEF Sessions
    <3> QED
      BY <3>1
  <2>2. CASE ~opens
    BY <1>2, <1>6, <1>10, <1>11, <2>2 DEF Numbered
  <2> QED
    BY <2>1, <2>2
<1>13. opens => s \notin Used
  BY <1>2, <1>6
<1> QED
  BY <1>1, <1>4, <1>5, <1>6, <1>7, <1>8, <1>9, <1>11, <1>12, <1>13 DEF opens, s

\* A step that asks nothing and moves no question to another session leaves the numbers alone.
LEMMA SameNumbers ==
    ASSUME TypeOK, Numbered,
           asked' \in [Chats -> {"no", "waiting", "elsewhere", "done", "error", "timeout"}],
           \A d \in Chats : of'[d].session = of[d].session /\ (asked'[d] = "no" <=> asked[d] = "no")
    PROVE  Sent' = Sent /\ Used' = Used
BY DEF Sent, Used

\* The numbering is preserved.
LEMMA NumberedStep == TypeOK /\ Numbered /\ [ConversationNext]_vars => Numbered'
<1> SUFFICES ASSUME TypeOK, Numbered, [ConversationNext]_vars PROVE Numbered'
  OBVIOUS
<1>a. /\ UNCHANGED panel => UNCHANGED <<active, shown, loading, list, asked, of, strayed>>
      /\ UNCHANGED server => UNCHANGED <<pc, copy, stored, cached>>
      /\ UNCHANGED sidebar => UNCHANGED <<deletion, gone>>
  BY DEF panel, server, sidebar
<1>t. TypeOK'
  BY TypeStep
<1>1. ASSUME NEW c \in Chats, Send(c) PROVE Numbered'
  <2>1. /\ asked' = [asked EXCEPT ![c] = "waiting"] /\ pc' = [pc EXCEPT ![c] = "get"]
        /\ UNCHANGED <<active, list, gone, deletion, stored, reply>>
    BY <1>1, <1>a DEF Send
  <2>2. /\ of' = [of EXCEPT ![c] = [session |-> of'[c].session, opens |-> active = None]]
        /\ of'[c].session # None
    BY <1>1, SendIsFresh, NoneAssumption DEF Sessions
  <2>3. \A d \in Chats : /\ asked'[d] = "no" <=> of'[d].session = None
                         /\ asked'[d] = "no" => pc'[d] = "none" /\ reply'[d] = "none"
    BY <2>1, <2>2 DEF Numbered, TypeOK
  <2> QED
    BY <1>1, <2>1, <2>3, SendIsFresh DEF Numbered
<1>2. ASSUME NEW c \in Chats, Receive(c) PROVE Numbered'
  <2>1. asked[c] # "no" /\ of[c].session \in Used
    BY <1>2 DEF Receive, Pending, Numbered, Used
  <2>2. \A d \in Chats : of'[d].session = of[d].session /\ (asked'[d] = "no" <=> asked[d] = "no")
    BY <1>2, <2>1 DEF Receive, TypeOK
  <2>3. Sent' = Sent /\ Used' = Used
    BY <1>t, <2>2, SameNumbers DEF TypeOK
  <2>4. active' \in Used \cup {None}
    BY <1>2, <2>1 DEF Receive, Numbered
  <2>5. UNCHANGED <<list, gone, deletion, stored, pc>>
    BY <1>2, <1>a DEF Receive
  <2>6. \A d \in Chats : asked'[d] = "no" => reply'[d] = "none"
    BY <1>2, <2>1 DEF Receive, Numbered, TypeOK
  <2> QED
    BY <2>2, <2>3, <2>4, <2>5, <2>6 DEF Numbered
<1>3. ASSUME NEW c \in Chats, pc[c] # "none" \/ c \in Pending, UNCHANGED <<active, list, asked, of, deletion, gone>>,
             \A s \in Sessions : stored'[s] # None => s \in Used,
             \A d \in Chats \ {c} : pc'[d] = pc[d] /\ reply'[d] = reply[d]
      PROVE  Numbered'
  BY <1>3 DEF Numbered, Sent, Used, Pending
<1>4. ASSUME NEW c \in Chats, Refuse(c) \/ ProxyTimeout(c) PROVE Numbered'
  <2>1. UNCHANGED <<active, list, asked, of, deletion, gone, stored>> /\ (pc[c] # "none" \/ c \in Pending)
    BY <1>4, <1>a DEF Refuse, ProxyTimeout
  <2>2. \A d \in Chats \ {c} : pc'[d] = pc[d] /\ reply'[d] = reply[d]
    BY <1>4, <1>a DEF Refuse, ProxyTimeout, Goto, Reply, TypeOK
  <2> QED
    BY <1>3, <2>1, <2>2 DEF Numbered
<1>5. ASSUME NEW c \in Chats, GetSession(c) \/ FindSession(c) \/ CopySession(c) \/ Supervise(c) \/ Remember(c)
      PROVE  Numbered'
  <2>1. UNCHANGED <<active, list, asked, of, deletion, gone, stored>> /\ pc[c] # "none"
    BY <1>5, <1>a DEF GetSession, FindSession, CopySession, Supervise, Remember
  <2>2. \A d \in Chats \ {c} : pc'[d] = pc[d] /\ reply'[d] = reply[d]
    BY <1>5, <1>a DEF GetSession, FindSession, CopySession, Supervise, Remember, Goto, Reply, TypeOK
  <2> QED
    BY <1>3, <2>1, <2>2 DEF Numbered
<1>6. ASSUME NEW c \in Chats, AppendMessages(c) PROVE Numbered'
  <2>1. UNCHANGED <<active, list, asked, of, deletion, gone>> /\ pc[c] # "none"
    BY <1>6, <1>a DEF AppendMessages, Push, Drop
  <2>2. \A d \in Chats \ {c} : pc'[d] = pc[d] /\ reply'[d] = reply[d]
    BY <1>6, <1>a DEF AppendMessages, Push, Drop, Goto, TypeOK
  <2>3. of[c].session \in Used
    BY <2>1 DEF Numbered, Used
  <2>4. \A s \in Sessions : stored'[s] # None => s = of[c].session \/ stored[s] # None
    BY <1>6, <1>a DEF AppendMessages, Push, Drop, TypeOK
  <2> QED
    BY <1>3, <2>1, <2>2, <2>3, <2>4 DEF Numbered
<1>7. ASSUME NEW s \in Sessions, Choose(s) \/ Expire(s) \/ AskDelete(s) PROVE Numbered'
  <2>1. UNCHANGED <<asked, of, list, gone, stored, pc, reply>> /\ Sent' = Sent /\ Used' = Used
    BY <1>7, <1>a DEF Choose, Expire, AskDelete, Sent, Used
  <2>2. active' \in Used \cup {None} /\ deletion'.session \in Used \cup {None}
    <3>1. s \in list => s \in Used
      BY DEF Numbered
    <3>2. CASE Choose(s)
      BY <1>a, <3>1, <3>2 DEF Choose, Numbered
    <3>3. CASE Expire(s)
      BY <1>a, <3>3 DEF Expire, Numbered
    <3>4. CASE AskDelete(s)
      BY <1>a, <3>1, <3>4 DEF AskDelete, Numbered
    <3> QED
      BY <1>7, <3>2, <3>3, <3>4
  <2> QED
    BY <2>1, <2>2 DEF Numbered
<1>s. ASSUME NEW s \in Sessions, ExpireStored(s) PROVE Numbered'
  <2>1. UNCHANGED <<active, deletion, asked, of, list, gone, pc, reply>> /\ Sent' = Sent /\ Used' = Used
    BY <1>s, <1>a DEF ExpireStored, Sent, Used
  <2>2. \A t \in Sessions : stored'[t] # None => stored[t] # None
    BY <1>s DEF ExpireStored, TypeOK
  <2> QED
    BY <2>1, <2>2 DEF Numbered
<1>8. CASE NewConversation \/ Revisit
  <2>1. \A d \in Chats : of'[d].session = of[d].session /\ (asked'[d] = "no" <=> asked[d] = "no")
    BY <1>8 DEF NewConversation, Revisit, Waiting, TypeOK
  <2>2. Sent' = Sent /\ Used' = Used
    BY <1>t, <2>1, SameNumbers DEF TypeOK
  <2>3. UNCHANGED <<list, gone, stored, pc, reply, deletion>> /\ active' \in {active, None}
    BY <1>8, <1>a DEF NewConversation, BecomeNew, Revisit
  <2> QED
    BY <2>1, <2>2, <2>3 DEF Numbered
<1>9. CASE Crash
  <2>1. UNCHANGED <<active, list, asked, of, gone, stored>> /\ deletion'.session \in {deletion.session, None}
    BY <1>9, <1>a DEF Crash, NoDelete
  <2>2. \A d \in Chats : pc[d] = "none" => pc'[d] = pc[d] /\ reply'[d] = reply[d]
    BY <1>9 DEF Crash, Running
  <2> QED
    BY <2>1, <2>2 DEF Numbered, Sent, Used
<1>10. CASE ListSessions \/ DeleteStored \/ DeleteCached
  <2>1. UNCHANGED <<active, asked, of, gone, pc, reply>> /\ deletion'.session \in {deletion.session, None}
    BY <1>10, <1>a DEF ListSessions, DeleteStored, DeleteCached, NoDelete, TypeOK
  <2>2. list' \subseteq Used
    BY <1>10, <1>a DEF ListSessions, Listed, DeleteStored, DeleteCached, Numbered
  <2>3. \A s \in Sessions : stored'[s] # None => stored[s] # None
    BY <1>10, <1>a DEF ListSessions, DeleteStored, DeleteCached, TypeOK
  <2> QED
    BY <2>1, <2>2, <2>3 DEF Numbered, Sent, Used
<1>11. CASE RemoveSession
  <2>1. UNCHANGED <<asked, of, stored, pc, reply>> /\ deletion' = NoDelete /\ active' \in {active, None}
    BY <1>11, <1>a DEF RemoveSession, BecomeNew
  <2>2. deletion.session \in Used
    BY <1>11 DEF RemoveSession, TypeOK, Numbered
  <2>3. list' \subseteq Used /\ gone' \subseteq Used
    BY <1>11, <2>2 DEF RemoveSession, Numbered
  <2> QED
    BY <2>1, <2>3 DEF Numbered, Sent, Used, NoDelete
<1>12. CASE UNCHANGED vars
  BY <1>12, <1>a DEF vars, Numbered, Sent, Used
<1> QED
  BY <1>1, <1>2, <1>4, <1>5, <1>6, <1>7, <1>s, <1>8, <1>9, <1>10, <1>11, <1>12 DEF ConversationNext

\* What the panel shows, and what is under way for it.
LEMMA TogetherStep == TypeOK /\ Numbered /\ Together /\ [ConversationNext]_vars => Together'
<1> SUFFICES ASSUME TypeOK, Numbered, Together, [ConversationNext]_vars PROVE Together'
  OBVIOUS
<1>a. /\ UNCHANGED panel => UNCHANGED <<active, shown, loading, asked, of, strayed>>
  BY DEF panel
<1>b. Waiting \subseteq Pending /\ Waiting \subseteq Chats
  BY DEF Waiting, Pending
<1>1. ASSUME NEW c \in Chats, Send(c) PROVE Together'
  <2> DEFINE opens == active = None
             s == of'[c].session
  <2>1. /\ asked' = [asked EXCEPT ![c] = "waiting"] /\ UNCHANGED <<active, strayed>>
        /\ of' = [of EXCEPT ![c] = [session |-> s, opens |-> opens]]
        /\ shown' = shown \cup {s} /\ loading' = TRUE /\ (loading => shown = {})
        /\ (~opens => s = active)
    BY <1>1 DEF Send, TypeOK
  <2> HIDE DEF opens, s
  <2>2. Waiting' = Waiting \cup {c} /\ Pending' = Pending \cup {c}
    BY <2>1 DEF Waiting, Pending, TypeOK
  <2>3. ASSUME ~strayed PROVE Waiting = {} /\ shown \subseteq {active}
    <3>1. CASE shown = {}
      BY <2>3, <3>1 DEF Together
    <3>2. CASE shown # {}
      BY <2>1, <2>3, <3>2 DEF Together
    <3> QED
      BY <3>1, <3>2
  <2>4. of'[c] = [session |-> s, opens |-> opens]
    BY <2>1 DEF TypeOK
  <2>5. ASSUME ~strayed PROVE shown' = {s}
    <3>1. active \in shown => ~opens
      BY NoneAssumption DEF TypeOK, opens
    <3> QED
      BY <2>1, <2>3, <2>5, <3>1
  <2>6. ASSUME ~strayed
        PROVE  /\ Waiting' = {c} /\ Pending' = {c} /\ shown' = {s}
               /\ of'[c].session = s /\ (of'[c].opens <=> opens)
    BY <2>2, <2>3, <2>4, <2>5, <2>6 DEF Together
  <2>7. opens <=> active = None
    BY DEF opens
  <2> QED
    BY <2>1, <2>2, <2>6, <2>7 DEF Together
<1>2. ASSUME NEW c \in Chats, Receive(c) PROVE Together'
  <2> DEFINE failed == reply[c] \in {"error", "timeout"}
             s == of[c].session
  <2>1. /\ c \in Pending
        /\ \E w \in {"done", "error", "timeout"} : asked' = [asked EXCEPT ![c] = w]
        /\ of' = [of EXCEPT ![c].opens = FALSE]
        /\ active' = IF ~failed /\ of[c].opens THEN s ELSE active
        /\ asked[c] = "waiting" => shown' = shown \cup {s} /\ loading' = FALSE
        /\ asked[c] # "waiting" => UNCHANGED <<shown, loading>>
        /\ strayed' = (strayed \/ (failed /\ of[c].opens))
    BY <1>2 DEF Receive
  <2> HIDE DEF failed, s
  <2>2. Waiting' = Waiting \ {c} /\ Pending' = Pending \ {c}
    BY <2>1 DEF Waiting, Pending, TypeOK
  <2>3. loading' => Waiting' # {}
    BY <2>1, <2>2 DEF Together, Waiting
  <2>4. ASSUME ~strayed'
        PROVE  /\ ~strayed /\ Waiting = {c} /\ asked[c] = "waiting" /\ shown = {s} /\ (failed => ~of[c].opens)
               /\ active = IF of[c].opens THEN None ELSE s
    <3>1. ~strayed /\ c \in Waiting
      BY <2>1, <2>4 DEF Together
    <3>2. Waiting = {c} /\ asked[c] = "waiting"
      BY <3>1 DEF Together, Waiting
    <3>3. shown = {s} /\ active = IF of[c].opens THEN None ELSE s
      BY <3>1 DEF Together, s
    <3> QED
      BY <2>1, <2>4, <3>1, <3>2, <3>3
  <2>5. ASSUME ~strayed' PROVE Waiting' = {} /\ Pending' = {} /\ shown' = {s} /\ active' = s
    BY <2>1, <2>2, <2>4, <2>5 DEF Together
  <2> QED
    BY <2>3, <2>5 DEF Together
<1>3. CASE UNCHANGED <<active, shown, loading, asked, of, strayed>>
  BY <1>3 DEF Together, Waiting, Pending
<1>4. ASSUME NEW s \in Sessions, Choose(s) PROVE Together'
  <2>1. Waiting' = Waiting /\ Pending' = Pending /\ UNCHANGED <<shown, loading>>
    BY <1>4 DEF Choose, Waiting, Pending
  <2>2. ~strayed' => ~strayed /\ shown = {} /\ Pending = {}
    BY <1>4 DEF Choose
  <2> QED
    BY <1>b, <2>1, <2>2 DEF Together
<1>5. ASSUME BecomeNew, UNCHANGED <<loading, asked, of>> PROVE Together'
  <2>1. Waiting' = Waiting /\ Pending' = Pending
    BY <1>5 DEF Waiting, Pending
  <2>2. shown' = {} /\ (~strayed' => Pending = {})
    BY <1>5 DEF BecomeNew
  <2> QED
    BY <1>5, <1>b, <2>1, <2>2 DEF Together
<1>6. CASE Revisit
  <2>1. Waiting' = {} /\ Pending' = Pending
    BY <1>6 DEF Revisit, Waiting, Pending
  <2>2. shown' = {} /\ loading' = FALSE /\ (~strayed' => Pending = {})
    BY <1>6 DEF Revisit
  <2> QED
    BY <2>1, <2>2 DEF Together
<1>7. CASE RemoveSession
  <2>1. UNCHANGED <<loading, asked, of>> /\ (BecomeNew \/ UNCHANGED <<active, shown, strayed>>)
    BY <1>7 DEF RemoveSession
  <2> QED
    BY <1>3, <1>5, <2>1
<1>8. ASSUME NEW c \in Chats, \/ Refuse(c) \/ ProxyTimeout(c) \/ GetSession(c) \/ FindSession(c)
                              \/ CopySession(c) \/ Supervise(c) \/ AppendMessages(c) \/ Remember(c)
      PROVE  Together'
  <2>1. UNCHANGED panel
    BY <1>8 DEF Refuse, ProxyTimeout, GetSession, FindSession, CopySession, Supervise, AppendMessages, Push, Drop, Remember
  <2> QED
    BY <1>3, <1>a, <2>1
<1>9. ASSUME NEW s \in Sessions, Expire(s) \/ ExpireStored(s) \/ AskDelete(s) PROVE Together'
  BY <1>3, <1>9, <1>a DEF Expire, ExpireStored, AskDelete
<1>10. CASE NewConversation
  BY <1>5, <1>10 DEF NewConversation
<1>11. CASE Crash \/ ListSessions \/ DeleteStored \/ DeleteCached \/ UNCHANGED vars
  BY <1>3, <1>11, <1>a DEF Crash, ListSessions, DeleteStored, DeleteCached, vars
<1> QED
  BY <1>1, <1>2, <1>4, <1>6, <1>7, <1>8, <1>9, <1>10, <1>11 DEF ConversationNext

\* What is copied, and what is copied by whom.
CopyInv == CarriedIsCurrent /\ CopyIsCurrent

\* A step that writes nothing, makes no reader and finishes no invalidation.
LEMMA CopyKept ==
    ASSUME TypeOK, CopyInv, UNCHANGED <<stored, cached, overtaken, copy>>,
           \A s \in Sessions : Carriers(s)' \subseteq Carriers(s),
           Undropped \subseteq Undropped'
    PROVE  CopyInv'
BY DEF CopyInv, CarriedIsCurrent, CopyIsCurrent, Carriers

\* The copy in Redis, the copies on their way there, and the document.
LEMMA CopyStep == TypeOK /\ Numbered /\ CopyInv /\ [ConversationNext]_vars => CopyInv'
<1> SUFFICES ASSUME TypeOK, Numbered, CopyInv, [ConversationNext]_vars PROVE CopyInv'
  OBVIOUS
<1>a. /\ UNCHANGED panel => UNCHANGED of
      /\ UNCHANGED server => UNCHANGED <<pc, copy, stored, cached, overtaken>>
      /\ UNCHANGED sidebar => UNCHANGED deletion
  BY DEF panel, server, sidebar
<1>b. ASSUME UNCHANGED <<pc, deletion>>, \A d \in Chats : of'[d].session = of[d].session
      PROVE  (\A s \in Sessions : Carriers(s)' = Carriers(s)) /\ Undropped' = Undropped
  BY <1>b DEF Carriers, In, Undropped
<1>c. ASSUME UNCHANGED <<pc, deletion, stored, cached, overtaken, copy>>,
             \A d \in Chats : of'[d].session = of[d].session
      PROVE  CopyInv'
  BY <1>b, <1>c, CopyKept
<1>d. ASSUME NEW c \in Chats, UNCHANGED <<of, deletion>>, pc' = [pc EXCEPT ![c] = pc'[c]],
             pc[c] \notin {"dropUser", "dropLast"}, pc'[c] # "setex"
      PROVE  /\ \A s \in Sessions : Carriers(s)' \subseteq Carriers(s)
             /\ Undropped \subseteq Undropped'
  BY <1>d DEF Carriers, In, Undropped, TypeOK
<1>1. ASSUME NEW c \in Chats, Send(c) PROVE CopyInv'
  <2>1. /\ UNCHANGED <<stored, cached, overtaken, copy, deletion>> /\ pc' = [pc EXCEPT ![c] = "get"]
        /\ pc[c] = "none" /\ \A d \in Chats \ {c} : of'[d] = of[d]
    BY <1>1, SendIsFresh DEF Send, TypeOK
  <2>2. \A s \in Sessions : Carriers(s)' \subseteq Carriers(s)
    BY <2>1 DEF Carriers, In, TypeOK
  <2>3. Undropped \subseteq Undropped'
    BY <2>1 DEF Undropped, TypeOK
  <2> QED
    BY <2>1, <2>2, <2>3, CopyKept
<1>2. ASSUME NEW c \in Chats, Receive(c) PROVE CopyInv'
  BY <1>2, <1>a, <1>c DEF Receive, TypeOK
<1>3. ASSUME NEW c \in Chats, Refuse(c) \/ GetSession(c) \/ Supervise(c) \/ Remember(c) PROVE CopyInv'
  <2>1. /\ UNCHANGED <<of, deletion, stored, cached, overtaken, copy>> /\ pc[c] \in {"get", "run", "hook"}
        /\ pc' = [pc EXCEPT ![c] = pc'[c]] /\ pc'[c] # "setex"
    BY <1>3, <1>a DEF Refuse, GetSession, Supervise, Remember, Goto, TypeOK
  <2> QED
    BY <1>d, <2>1, CopyKept
<1>4. ASSUME NEW c \in Chats, FindSession(c) PROVE CopyInv'
  <2>1. /\ UNCHANGED <<of, deletion, stored, cached, overtaken>> /\ pc[c] = "find"
        /\ pc' = [pc EXCEPT ![c] = pc'[c]] /\ pc'[c] \in {"setex", "run"}
        /\ \/ copy' = [copy EXCEPT ![c] = stored[of[c].session]]
           \/ UNCHANGED copy /\ pc'[c] = "run"
    BY <1>4, <1>a DEF FindSession, Goto, TypeOK
  <2>2. Undropped' = Undropped
    BY <2>1 DEF Undropped, TypeOK
  <2>3. ASSUME NEW s \in Sessions, NEW d \in Carriers(s)' PROVE s \notin overtaken' => copy'[d] = stored'[s]
    <3>1. d = c \/ d \in Carriers(s)
      BY <2>1 DEF Carriers, In, TypeOK
    <3>2. d = c => of[c].session = s /\ pc'[c] = "setex"
      BY <2>1 DEF Carriers, In
    <3>3. d # c => d \in Chats /\ copy'[d] = copy[d]
      BY <2>1, <3>1 DEF Carriers, In, TypeOK
    <3>4. d = c => copy'[d] = stored[s]
      BY <2>1, <3>2 DEF TypeOK
    <3> QED
      BY <2>1, <3>1, <3>3, <3>4 DEF CopyInv, CarriedIsCurrent
  <2> QED
    BY <2>1, <2>2, <2>3 DEF CopyInv, CarriedIsCurrent, CopyIsCurrent
<1>5. ASSUME NEW c \in Chats, CopySession(c) PROVE CopyInv'
  <2> DEFINE s == of[c].session
  <2>1. /\ UNCHANGED <<of, deletion, stored, overtaken>> /\ pc[c] = "setex"
        /\ pc' = [pc EXCEPT ![c] = "run"] /\ copy' = [copy EXCEPT ![c] = None]
        /\ cached' \in {cached, [cached EXCEPT ![s] = copy[c]]}
    BY <1>5, <1>a DEF CopySession, Goto
  <2>2. c \in Carriers(s) /\ (s \in Sessions \ overtaken => copy[c] = stored[s])
    BY <2>1 DEF CopyInv, CarriedIsCurrent, Carriers, In
  <2>3. Undropped' = Undropped
    BY <2>1 DEF Undropped, TypeOK
  <2>4. \A t \in Sessions : Carriers(t)' \subseteq Carriers(t) \ {c}
    BY <2>1 DEF Carriers, In, TypeOK
  <2>5. CarriedIsCurrent'
    BY <2>1, <2>4 DEF CopyInv, CarriedIsCurrent, TypeOK, Carriers
  <2>6. CopyIsCurrent'
    BY <2>1, <2>2, <2>3 DEF CopyInv, CopyIsCurrent, TypeOK
  <2> QED
    BY <2>5, <2>6 DEF CopyInv
<1>6. ASSUME NEW c \in Chats, NEW at \in {"pushUser", "pushAnswer", "pushOnly"}, NEW by,
             NEW next \in {"dropUser", "dropLast"}, Push(c, at, by, next)
      PROVE  CopyInv'
  <2> DEFINE s == of[c].session
  <2>1. /\ UNCHANGED <<of, deletion, cached, copy>> /\ pc[c] = at
        /\ \/ /\ pc' = [pc EXCEPT ![c] = next] /\ stored' = [stored EXCEPT ![s] = stored'[s]]
              /\ Overtakes(s)
           \/ pc' = [pc EXCEPT ![c] = "over"] /\ UNCHANGED <<stored, overtaken>>
    BY <1>6, <1>a DEF Push, Goto, TypeOK
  <2>2. \A t \in Sessions : Carriers(t)' \subseteq Carriers(t)
    BY <2>1 DEF Carriers, In, TypeOK
  <2>3. Undropped \subseteq Undropped'
    BY <2>1 DEF Undropped, TypeOK
  <2>4. CASE pc' = [pc EXCEPT ![c] = next] /\ stored' = [stored EXCEPT ![s] = stored'[s]] /\ Overtakes(s)
    <3>1. s \in Undropped'
      BY <2>1, <2>4 DEF Undropped, TypeOK
    <3>2. overtaken \subseteq overtaken' /\ (Carriers(s) # {} => s \in overtaken')
      BY <2>4 DEF Overtakes
    <3>3. CarriedIsCurrent'
      BY <2>1, <2>2, <2>4, <3>2 DEF CopyInv, CarriedIsCurrent, TypeOK, Carriers
    <3>4. CopyIsCurrent'
      BY <2>1, <2>3, <2>4, <3>1, <3>2 DEF CopyInv, CopyIsCurrent, TypeOK
    <3> QED
      BY <3>3, <3>4 DEF CopyInv
  <2>5. CASE UNCHANGED <<stored, overtaken>>
    BY <2>1, <2>2, <2>3, <2>5, CopyKept
  <2> QED
    BY <2>1, <2>4, <2>5
\* Whoever drops the copy of s, by whichever way, and whatever else is still to be dropped.
<1>7. ASSUME NEW s \in Sessions, UNCHANGED <<of, stored, copy>>,
             \A t \in Sessions : Carriers(t)' = Carriers(t),
             Undropped \subseteq Undropped' \cup {s},
             \/ cached' = [cached EXCEPT ![s] = None] /\ Caught(s)
             \/ UNCHANGED cached /\ overtaken' = overtaken \cup {s}
      PROVE  CopyInv'
  <2>1. CASE cached' = [cached EXCEPT ![s] = None] /\ Caught(s)
    <3>1. overtaken \subseteq overtaken' \cup {s}
          /\ (s \notin overtaken' => \A d \in Carriers(s) : s \in overtaken => copy[d] = stored[s])
      BY <2>1 DEF Caught
    <3>2. CarriedIsCurrent'
      BY <1>7, <3>1 DEF CopyInv, CarriedIsCurrent
    <3>3. CopyIsCurrent'
      BY <1>7, <2>1, <3>1 DEF CopyInv, CopyIsCurrent, TypeOK
    <3> QED
      BY <3>2, <3>3 DEF CopyInv
  <2>2. CASE UNCHANGED cached /\ overtaken' = overtaken \cup {s}
    BY <1>7, <2>2 DEF CopyInv, CarriedIsCurrent, CopyIsCurrent
  <2> QED
    BY <1>7, <2>1, <2>2
<1>8. ASSUME NEW c \in Chats, NEW at \in {"dropUser", "dropLast"}, NEW next \in {"pushAnswer", "hook"},
             Drop(c, at, next)
      PROVE  CopyInv'
  <2> DEFINE s == of[c].session
  <2>1. /\ UNCHANGED <<of, deletion, stored, copy>> /\ pc[c] = at /\ pc' = [pc EXCEPT ![c] = next]
        /\ \/ cached' = [cached EXCEPT ![s] = None] /\ Caught(s)
           \/ UNCHANGED cached /\ overtaken' = overtaken \cup {s}
    BY <1>8, <1>a DEF Drop, Goto
  <2>2. s \in Sessions
    BY <2>1 DEF Numbered, TypeOK
  <2>3. \A t \in Sessions : Carriers(t)' = Carriers(t)
    BY <2>1 DEF Carriers, In, TypeOK
  <2>4. Undropped \subseteq Undropped' \cup {s}
    BY <2>1 DEF Undropped, TypeOK
  <2> HIDE DEF s
  <2> QED
    BY <1>7, <2>1, <2>2, <2>3, <2>4
<1>9. ASSUME NEW s \in Sessions, Expire(s) PROVE CopyInv'
  <2>1. UNCHANGED <<of, stored, copy, pc, deletion>> /\ cached' = [cached EXCEPT ![s] = None] /\ Caught(s)
    BY <1>9, <1>a DEF Expire
  <2> QED
    BY <1>7, <1>b, <2>1
<1>e. ASSUME NEW s \in Sessions, ExpireStored(s) PROVE CopyInv'
  <2>1. /\ UNCHANGED <<of, copy, pc, cached, deletion>> /\ stored' = [stored EXCEPT ![s] = None]
        /\ overtaken' = IF cached[s] # None \/ Carriers(s) # {} THEN overtaken \cup {s} ELSE overtaken
    BY <1>e, <1>a DEF ExpireStored
  <2>2. CarriedIsCurrent'
    BY <1>b, <2>1 DEF CopyInv, CarriedIsCurrent, TypeOK
  <2>3. CopyIsCurrent'
    BY <1>b, <2>1 DEF CopyInv, CopyIsCurrent, TypeOK
  <2> QED
    BY <2>2, <2>3 DEF CopyInv
<1>10. CASE DeleteCached
  <2> DEFINE s == deletion.session
  <2>1. /\ UNCHANGED <<of, stored, copy, pc>> /\ deletion.at = "redis" /\ s \in Sessions
        /\ deletion' = [deletion EXCEPT !.at = "confirmed"]
        /\ \/ cached' = [cached EXCEPT ![s] = None] /\ Caught(s)
           \/ UNCHANGED cached /\ overtaken' = overtaken \cup {s}
    BY <1>10, <1>a DEF DeleteCached, TypeOK
  <2>2. \A t \in Sessions : Carriers(t)' = Carriers(t)
    BY <2>1 DEF Carriers, In
  <2>3. Undropped \subseteq Undropped' \cup {s}
    BY <2>1 DEF Undropped
  <2> QED
    BY <1>7, <2>1, <2>2, <2>3
<1>11. CASE DeleteStored
  <2> DEFINE s == deletion.session
  <2>1. /\ UNCHANGED <<of, copy, pc, cached>> /\ deletion.at = "mongo" /\ s \in Sessions
        /\ \/ /\ deletion' = [deletion EXCEPT !.at = "redis"]
              /\ stored' = [stored EXCEPT ![s] = None] /\ Overtakes(s)
           \/ deletion' = NoDelete /\ UNCHANGED <<stored, overtaken>>
    BY <1>11, <1>a DEF DeleteStored, TypeOK
  <2>2. \A t \in Sessions : Carriers(t)' = Carriers(t)
    BY <2>1 DEF Carriers, In
  <2>3. Undropped \subseteq Undropped'
    BY <2>1 DEF Undropped
  <2>4. CASE deletion' = [deletion EXCEPT !.at = "redis"] /\ stored' = [stored EXCEPT ![s] = None] /\ Overtakes(s)
    <3>1. s \in Undropped'
      BY <2>1, <2>4 DEF Undropped, TypeOK
    <3>2. overtaken \subseteq overtaken' /\ (Carriers(s) # {} => s \in overtaken')
      BY <2>4 DEF Overtakes
    <3>3. CarriedIsCurrent'
      BY <2>1, <2>2, <2>4, <3>2 DEF CopyInv, CarriedIsCurrent, TypeOK
    <3>4. CopyIsCurrent'
      BY <2>1, <2>3, <2>4, <3>1, <3>2 DEF CopyInv, CopyIsCurrent, TypeOK
    <3> QED
      BY <3>3, <3>4 DEF CopyInv
  <2>5. CASE UNCHANGED <<stored, overtaken>>
    BY <2>1, <2>2, <2>3, <2>5, CopyKept
  <2> QED
    BY <2>1, <2>4, <2>5
<1>12. CASE Crash
  <2>1. /\ UNCHANGED <<of, stored, cached>> /\ overtaken' = overtaken \cup Undropped
        /\ pc' = [c \in Chats |-> IF Running(c) THEN "over" ELSE pc[c]]
    BY <1>12, <1>a DEF Crash
  <2>2. \A s \in Sessions : Carriers(s)' = {}
    BY <2>1 DEF Carriers, In, Running
  <2> QED
    BY <2>1, <2>2 DEF CopyInv, CarriedIsCurrent, CopyIsCurrent
<1>13. ASSUME NEW s \in Sessions, AskDelete(s) \/ Choose(s) PROVE CopyInv'
  <2>1. /\ UNCHANGED <<of, stored, cached, overtaken, copy, pc>>
        /\ deletion # deletion' => deletion = NoDelete
    BY <1>13, <1>a DEF AskDelete, Choose
  <2>2. Undropped \subseteq Undropped'
    BY <2>1 DEF Undropped, NoDelete
  <2>3. \A t \in Sessions : Carriers(t)' \subseteq Carriers(t)
    BY <2>1 DEF Carriers, In
  <2> QED
    BY <2>1, <2>2, <2>3, CopyKept
<1>14. CASE RemoveSession
  <2>1. UNCHANGED <<of, stored, cached, overtaken, copy, pc>> /\ deletion.at = "confirmed"
    BY <1>14, <1>a DEF RemoveSession
  <2>2. Undropped \subseteq Undropped'
    BY <2>1 DEF Undropped
  <2>3. \A t \in Sessions : Carriers(t)' \subseteq Carriers(t)
    BY <2>1 DEF Carriers, In
  <2> QED
    BY <2>1, <2>2, <2>3, CopyKept
<1>15. CASE NewConversation \/ Revisit \/ ListSessions \/ UNCHANGED vars
  BY <1>15, <1>a, <1>c DEF NewConversation, Revisit, ListSessions, vars
<1>16. ASSUME NEW c \in Chats, AppendMessages(c) PROVE CopyInv'
  BY <1>6, <1>8, <1>16 DEF AppendMessages
<1>17. ASSUME NEW c \in Chats, ProxyTimeout(c) PROVE CopyInv'
  BY <1>17, <1>a, <1>c DEF ProxyTimeout
<1> QED
  BY <1>1, <1>2, <1>3, <1>4, <1>5, <1>9, <1>e, <1>10, <1>11, <1>12, <1>13, <1>14, <1>15, <1>16, <1>17
     DEF ConversationNext

\* What a question that is under way does is done to its own session, which is not
\* quiet and hence not one that has to stay removed.
LEMMA ChatKeepsRemoved ==
    ASSUME TypeOK, Numbered, Removed, NEW c \in Chats, Unfinished(c), UNCHANGED <<list, deletion, gone, late>>,
           active' \in {active, of[c].session},
           \A d \in Chats : of'[d].session = of[d].session /\ (Unfinished(d)' => Unfinished(d)),
           \A t \in Sessions \ {of[c].session} : stored'[t] = stored[t] /\ cached'[t] = cached[t]
    PROVE  Removed'
<1>1. ~Quiet(of[c].session)
  BY DEF Quiet, In
<1>2. \A t : Quiet(t) => Quiet(t)'
  BY DEF Quiet, In, Unfinished, Running
<1>3. gone \subseteq Sessions
  BY DEF Numbered, Used, TypeOK
<1>4. /\ \A s \in gone \ late : s # of[c].session
      /\ deletion.at \in {"redis", "confirmed"} /\ deletion.session \notin late =>
            deletion.session # of[c].session /\ deletion.session \in Sessions
  BY <1>1 DEF Removed, TypeOK
<1> QED
  BY <1>1, <1>2, <1>3, <1>4 DEF Removed

\* A deletion that the browser saw confirmed.
LEMMA RemovedStep == TypeOK /\ Numbered /\ Removed /\ [ConversationNext]_vars => Removed'
<1> SUFFICES ASSUME TypeOK, Numbered, Removed, [ConversationNext]_vars PROVE Removed'
  OBVIOUS
<1>a. /\ UNCHANGED panel => UNCHANGED <<active, list, asked, of>>
      /\ UNCHANGED server => UNCHANGED <<pc, stored, cached>>
      /\ UNCHANGED sidebar => UNCHANGED <<deletion, gone, late>>
  BY DEF panel, server, sidebar
<1>g. gone \subseteq Sessions /\ None \notin Sessions
  BY NoneAssumption DEF Numbered, Used, TypeOK, Sessions
<1>b. ASSUME UNCHANGED <<pc, asked, of>> PROVE \A t : Quiet(t)' = Quiet(t)
  BY <1>b DEF Quiet, In, Unfinished, Running
<1>1. ASSUME NEW c \in Chats, Send(c) PROVE Removed'
  <2> DEFINE s == of'[c].session
  <2>1. /\ UNCHANGED <<active, list, stored, cached, deletion, gone>>
        /\ late' = IF deletion.session = s THEN late \cup {s} ELSE late
        /\ asked' = [asked EXCEPT ![c] = "waiting"] /\ pc' = [pc EXCEPT ![c] = "get"]
    BY <1>1, <1>a DEF Send, TypeOK
  <2>2. /\ of' = [of EXCEPT ![c] = [session |-> s, opens |-> active = None]] /\ of[c].session = None
        /\ s \in Sessions /\ (s \in gone => s = active)
    BY <1>1, SendIsFresh DEF Numbered
  <2> HIDE DEF s
  <2>3. \A t \in Sessions \ {s} : Quiet(t) => Quiet(t)'
    BY <2>1, <2>2 DEF Quiet, In, Unfinished, Running, TypeOK
  <2>4. s \notin gone \ late
    BY <2>2 DEF Removed
  <2> QED
    <3>1. \A t \in gone' \ late' : t \in Sessions \ {s} /\ t \in gone \ late
      BY <1>g, <2>1, <2>4
    <3>2. deletion.at \in {"redis", "confirmed"} /\ deletion.session \notin late' =>
            deletion.session \in Sessions \ {s} /\ deletion.session \notin late
      BY <2>1 DEF TypeOK
    <3> QED
      BY <2>1, <2>3, <3>1, <3>2 DEF Removed
<1>2. ASSUME NEW c \in Chats, Receive(c) PROVE Removed'
  <2>1. /\ UNCHANGED <<list, deletion, gone, late, pc, stored, cached>> /\ Unfinished(c)
        /\ active' \in {active, of[c].session} /\ of' = [of EXCEPT ![c].opens = FALSE]
        /\ \E w \in {"done", "error", "timeout"} : asked' = [asked EXCEPT ![c] = w]
    BY <1>2, <1>a DEF Receive, Unfinished, Pending
  <2>2. \A d \in Chats : of'[d].session = of[d].session /\ (Unfinished(d)' => Unfinished(d))
    BY <2>1 DEF Unfinished, Running, TypeOK
  <2> QED
    BY <2>1, <2>2, ChatKeepsRemoved
<1>3. ASSUME NEW c \in Chats, Refuse(c) \/ ProxyTimeout(c) \/ GetSession(c) \/ FindSession(c)
                              \/ CopySession(c) \/ Supervise(c) \/ AppendMessages(c) \/ Remember(c)
      PROVE  Removed'
  <2>1. /\ UNCHANGED <<active, list, asked, of, deletion, gone, late>> /\ Unfinished(c)
        /\ (Running(c) \/ UNCHANGED <<pc, stored, cached>>)
    BY <1>3, <1>a DEF Refuse, ProxyTimeout, GetSession, FindSession, CopySession, Supervise,
       AppendMessages, Push, Drop, Remember, Unfinished, Running, Pending
  <2>2. \A d \in Chats \ {c} : pc'[d] = pc[d]
    BY <1>3, <1>a DEF Refuse, ProxyTimeout, GetSession, FindSession, CopySession, Supervise,
       AppendMessages, Push, Drop, Remember, Goto, TypeOK
  <2>3. \A t \in Sessions \ {of[c].session} : stored'[t] = stored[t] /\ cached'[t] = cached[t]
    BY <1>3, <1>a DEF Refuse, ProxyTimeout, GetSession, FindSession, CopySession, Supervise,
       AppendMessages, Push, Drop, Remember, TypeOK
  <2>4. \A d \in Chats : of'[d].session = of[d].session /\ (Unfinished(d)' => Unfinished(d))
    BY <2>1, <2>2 DEF Unfinished, Running
  <2> QED
    BY <2>1, <2>3, <2>4, ChatKeepsRemoved
<1>4. ASSUME NEW s \in Sessions, Choose(s) PROVE Removed'
  <2>1. UNCHANGED <<list, asked, of, pc, stored, cached, deletion, gone, late>> /\ active' = s /\ s \in list
    BY <1>4, <1>a DEF Choose
  <2> QED
    BY <1>b, <2>1 DEF Removed
<1>5. ASSUME NEW s \in Sessions, Expire(s) \/ ExpireStored(s) PROVE Removed'
  <2>1. /\ UNCHANGED <<active, list, asked, of, pc, deletion, gone, late>>
        /\ \A t \in Sessions : stored'[t] \in {stored[t], None} /\ cached'[t] \in {cached[t], None}
    BY <1>5, <1>a DEF Expire, ExpireStored, TypeOK
  <2> QED
    BY <1>b, <1>g, <2>1 DEF Removed, TypeOK
<1>6. ASSUME NEW s \in Sessions, AskDelete(s) PROVE Removed'
  <2>1. /\ UNCHANGED <<active, list, asked, of, pc, stored, cached, gone, late>> /\ s \in list
        /\ deletion' = [at |-> "mongo", session |-> s]
    BY <1>6, <1>a DEF AskDelete
  <2> QED
    BY <1>b, <2>1 DEF Removed
<1>7. CASE NewConversation \/ Revisit
  <2>1. /\ UNCHANGED <<list, of, pc, stored, cached, deletion, gone, late>> /\ active' \in {active, None}
        /\ \A d \in Chats : asked'[d] \in {"waiting", "elsewhere"} => asked[d] \in {"waiting", "elsewhere"}
    BY <1>7, <1>a DEF NewConversation, BecomeNew, Revisit, Waiting
  <2>2. \A t : Quiet(t) => Quiet(t)'
    BY <2>1 DEF Quiet, In, Unfinished, Running
  <2>3. None \notin gone
    BY DEF Numbered, Used
  <2> QED
    BY <2>1, <2>2, <2>3 DEF Removed
<1>8. CASE Crash
  <2>1. /\ UNCHANGED <<active, list, asked, of, stored, cached, gone, late>>
        /\ deletion' = deletion \/ deletion' = NoDelete
        /\ pc' = [c \in Chats |-> IF Running(c) THEN "over" ELSE pc[c]]
    BY <1>8, <1>a DEF Crash
  <2>2. \A t : Quiet(t) => Quiet(t)'
    BY <2>1 DEF Quiet, In, Unfinished, Running
  <2>3. None \notin gone
    BY DEF Numbered, Used
  <2> QED
    BY <2>1, <2>2, <2>3 DEF Removed, NoDelete
<1>9. CASE ListSessions
  <2>1. UNCHANGED <<active, asked, of, pc, stored, cached, deletion, gone, late>> /\ \A s \in list' : stored[s] # None
    BY <1>9, <1>a DEF ListSessions, Listed
  <2> QED
    BY <1>b, <2>1 DEF Removed
<1>10. CASE DeleteStored
  <2> DEFINE s == deletion.session
  <2>1. /\ UNCHANGED <<active, list, asked, of, pc, cached, gone>> /\ s \in Sessions /\ deletion.at = "mongo"
        /\ \/ /\ deletion' = [deletion EXCEPT !.at = "redis"] /\ stored' = [stored EXCEPT ![s] = None]
              /\ late' = IF Quiet(s) THEN late ELSE late \cup {s}
           \/ deletion' = NoDelete /\ UNCHANGED <<stored, late>>
    BY <1>10, <1>a DEF DeleteStored, TypeOK, Quiet
  <2>2. deletion' = NoDelete \/ (deletion'.session = s /\ deletion'.at = "redis")
    BY <2>1 DEF TypeOK
  <2>3. None \notin gone
    BY DEF Numbered, Used
  <2> QED
    BY <1>b, <1>g, <2>1, <2>2, <2>3 DEF Removed, TypeOK, NoDelete
<1>11. CASE DeleteCached
  <2> DEFINE s == deletion.session
  <2>1. /\ UNCHANGED <<active, list, asked, of, pc, stored, gone>> /\ s \in Sessions /\ deletion.at = "redis"
        /\ deletion'.session = s /\ deletion'.at = "confirmed"
        /\ \/ cached' = [cached EXCEPT ![s] = None] /\ UNCHANGED late
           \/ late' = late \cup {s} /\ UNCHANGED cached
    BY <1>11, <1>a DEF DeleteCached, TypeOK
  <2> QED
    BY <1>b, <1>g, <2>1 DEF Removed, TypeOK
<1>12. CASE RemoveSession
  <2> DEFINE s == deletion.session
  <2>1. /\ UNCHANGED <<asked, of, pc, stored, cached>> /\ s \in Sessions /\ deletion.at = "confirmed"
        /\ deletion' = NoDelete /\ gone' = gone \cup {s}
        /\ active' = IF active = s THEN None ELSE active
        /\ \/ list' = list \ {s} /\ late' = IF Quiet(s) THEN late ELSE late \cup {s}
           \/ list' = list \cup {s} /\ late' = late \cup {s}
    BY <1>12, <1>a DEF RemoveSession, BecomeNew, TypeOK, Quiet
  <2>2. None \notin gone'
    BY <2>1, NoneAssumption DEF Numbered, Used, Sessions
  <2>3. active' # s
    BY <2>1, <2>2
  <2> HIDE DEF s
  <2>4. ASSUME NEW t \in gone' \ late'
        PROVE  stored'[t] = None /\ cached'[t] = None /\ t # active' /\ t \notin list' /\ Quiet(t)'
    <3>1. CASE t = s
      BY <1>b, <2>1, <2>3, <2>4, <3>1 DEF Removed, s
    <3>2. CASE t # s
      BY <1>b, <2>1, <2>2, <2>4, <3>2 DEF Removed
    <3> QED
      BY <3>1, <3>2
  <2> QED
    BY <2>1, <2>2, <2>4 DEF Removed, NoDelete
<1>13. CASE UNCHANGED vars
  BY <1>13, <1>a, <1>b DEF vars, Removed
<1> QED
  BY <1>1, <1>2, <1>3, <1>4, <1>5, <1>6, <1>7, <1>8, <1>9, <1>10, <1>11, <1>12, <1>13 DEF ConversationNext

\* A message, and the document it is appended to.
LEMMA AppendedDocument ==
    ASSUME stored \in [Sessions -> Document \cup {None}], NEW s \in Sessions, NEW msg \in Message
    PROVE  /\ Appended(s, msg) \in Document /\ Appended(s, msg) # None
           /\ LET old == IF stored[s] = None THEN <<>> ELSE stored[s].messages
                  new == Appended(s, msg).messages
              IN /\ old \in Seq(Message) /\ DOMAIN old = 1 .. Len(old) /\ Len(old) \in Nat
                 /\ DOMAIN new = 1 .. Len(old) + 1
                 /\ \A i \in DOMAIN old : new[i] = old[i]
                 /\ new[Len(old) + 1] = msg
<1> DEFINE old == IF stored[s] = None THEN <<>> ELSE stored[s].messages
           owned == IF stored[s] = None THEN msg[2] = "user" ELSE stored[s].owned
<1>1. old \in Seq(Message) /\ owned \in BOOLEAN
  <2>1. CASE stored[s] = None
    BY <2>1
  <2>2. CASE stored[s] # None
    <3>1. stored[s] \in Document
      BY <2>2
    <3> QED
      BY <2>2, <3>1 DEF Document
  <2> QED
    BY <2>1, <2>2
<1>2. Appended(s, msg) = [owned |-> owned, messages |-> Append(old, msg)]
  <2>1. CASE stored[s] = None
    <3>1. Append(<<>>, msg) = <<msg>>
      OBVIOUS
    <3> QED
      BY <2>1, <3>1 DEF Appended
  <2>2. CASE stored[s] # None
    <3>1. stored[s] \in Document
      BY <2>2
    <3> QED
      BY <2>2, <3>1 DEF Appended, Document
  <2> QED
    BY <2>1, <2>2
<1> HIDE DEF old, owned
<1>3. Append(old, msg) \in Seq(Message)
  BY <1>1
<1>4. Appended(s, msg) \in Document
  BY <1>1, <1>2, <1>3 DEF Document
<1>5. Appended(s, msg) # None
  BY <1>4, NoneAssumption
<1>6. Appended(s, msg).messages = Append(old, msg)
  BY <1>2
<1>7. /\ DOMAIN old = 1 .. Len(old) /\ Len(old) \in Nat /\ DOMAIN Append(old, msg) = 1 .. Len(old) + 1
      /\ \A i \in DOMAIN old : Append(old, msg)[i] = old[i]
      /\ Append(old, msg)[Len(old) + 1] = msg
  BY <1>1
<1> QED
  BY <1>1, <1>4, <1>5, <1>6, <1>7 DEF old

\* What is stored, by whom and when.
TranscriptInv == Exchanges /\ AnswersFollow /\ InTurn

\* A step that appends nothing.
LEMMA TranscriptKept ==
    ASSUME TypeOK, TypeOK', TranscriptInv,
           DOMAIN stored' = Sessions, \A s \in Sessions : stored'[s] \in {stored[s], None},
           stored' = [s \in Sessions |-> stored'[s]],
           cut \subseteq cut', crowded \subseteq crowded',
           \A d \in Chats :
              /\ of'[d].session = of[d].session /\ (Settled(d) => Settled(d)')
              /\ Storing(d)' => Storing(d)
              /\ pc[d] \in {"dropUser", "pushAnswer", "dropLast", "hook", "over"} =>
                    pc'[d] \in {"dropUser", "pushAnswer", "dropLast", "hook", "over"}
              /\ pc'[d] \in {"dropUser", "pushAnswer"} =>
                    /\ pc[d] \in {"dropUser", "pushAnswer"}
                    /\ d \notin cut' => stored'[of[d].session] = stored[of[d].session]
              /\ pc'[d] \notin {"none", "over"} => "error" \notin {asked'[d], reply'[d]}
              /\ pc'[d] \notin Before \cup {"over"} => Settled(d)'
    PROVE  TranscriptInv'
<1>0. Exchanges /\ AnswersFollow /\ InTurn
  BY DEF TranscriptInv
<1>1. \A by : \A s \in Sessions, d \in Chats : Says(s, d, by)' => Says(s, d, by)
  BY DEF Says
<1>2. stored' \in [Sessions -> Document \cup {None}]
  BY <1>0 DEF Exchanges
<1>3. ASSUME NEW s \in Sessions, NEW d \in Chats, NEW by \in {"user", "assistant"}, Says(s, d, by)'
      PROVE  /\ of'[d].session = s /\ Settled(d)'
             /\ pc'[d] \in {"dropUser", "pushAnswer", "dropLast", "hook", "over"}
             /\ pc'[d] \in {"dropUser", "pushAnswer"} => by = "user"
  BY <1>1, <1>0, <1>3 DEF Exchanges
<1>4. ASSUME NEW d \in Chats, pc'[d] \in {"dropUser", "pushAnswer"}, d \notin cut'
      PROVE  Says(of[d].session, d, "user")'
  <2>1. Says(of[d].session, d, "user")
    BY <1>0, <1>4 DEF Exchanges
  <2> QED
    BY <1>4, <2>1 DEF Says
<1>5. \A s \in Sessions \ crowded' : \A d, e \in In(s)' : d < e => ~Storing(d)'
  BY <1>0 DEF Exchanges, In
<1>6. Exchanges'
  BY <1>2, <1>3, <1>4, <1>5 DEF Exchanges
<1>7. /\ \A s \in Sessions : stored'[s] # None => stored'[s] = stored[s]
      /\ cut \subseteq cut' /\ crowded \subseteq crowded'
  OBVIOUS
<1>8. AnswersFollow'
  <2>1. ASSUME NEW m, Follow(m, cut) PROVE Follow(m, cut')
    BY ONLY <1>7, <2>1 DEF Follow
  <2> QED
    BY ONLY <1>0, <1>7, <2>1 DEF AnswersFollow
<1>9. InTurn'
  BY ONLY <1>0, <1>7 DEF InTurn
<1> QED
  BY <1>6, <1>8, <1>9 DEF TranscriptInv

\* A sequence with one more element.
LEMMA OneMore ==
    ASSUME NEW old, NEW new, NEW n \in Nat, DOMAIN old = 1 .. n, DOMAIN new = 1 .. n + 1,
           \A i \in DOMAIN old : new[i] = old[i], NEW x
    PROVE  (\E i \in DOMAIN new : new[i] = x) <=> (\E i \in DOMAIN old : old[i] = x) \/ x = new[n + 1]
OBVIOUS

\* append_message: a message is put into the document of its conversation.
Stores(c, at, by, next) ==
    /\ \/ at = "pushUser" /\ by = "user" /\ next = "dropUser"
       \/ at = "pushAnswer" /\ by = "assistant" /\ next = "dropLast"
       \/ at = "pushOnly" /\ by = "user" /\ next = "dropLast"
    /\ pc[c] = at /\ pc' = [pc EXCEPT ![c] = next]
    /\ stored' = [stored EXCEPT ![of[c].session] = Appended(of[c].session, <<c, by>>)]
    /\ UNCHANGED <<of, asked, reply, cut, crowded>>

\* The message stands where it should.
LEMMA TranscriptPush ==
    ASSUME TypeOK, TypeOK', Numbered, TranscriptInv, NEW c \in Chats,
           NEW at, NEW by, NEW next, Stores(c, at, by, next)
    PROVE  TranscriptInv'
<1> USE DEF Stores
<1>u. UNCHANGED <<of, asked, reply, cut, crowded>>
  OBVIOUS
<1> DEFINE s == of[c].session
           msg == <<c, by>>
           old == IF stored[s] = None THEN <<>> ELSE stored[s].messages
           new == stored'[s].messages
<1>a. Exchanges /\ AnswersFollow /\ InTurn
  BY DEF TranscriptInv
<1>0. stored \in [Sessions -> Document \cup {None}]
  BY <1>a DEF Exchanges
<1>1. s \in Sessions /\ msg \in Message
  BY DEF Message, Numbered, TypeOK
<1>2. /\ Appended(s, msg) \in Document /\ Appended(s, msg) # None
      /\ LET o == IF stored[s] = None THEN <<>> ELSE stored[s].messages
             n == Appended(s, msg).messages
         IN /\ o \in Seq(Message) /\ DOMAIN o = 1 .. Len(o) /\ Len(o) \in Nat
            /\ DOMAIN n = 1 .. Len(o) + 1
            /\ \A i \in DOMAIN o : n[i] = o[i]
            /\ n[Len(o) + 1] = msg
  BY <1>0, <1>1, AppendedDocument
<1>3. /\ stored'[s] = Appended(s, msg) /\ \A t \in Sessions \ {s} : stored'[t] = stored[t]
      /\ stored' \in [Sessions -> Document \cup {None}]
  BY <1>0, <1>1, <1>2
<1>4. /\ old \in Seq(Message) /\ DOMAIN old = 1 .. Len(old) /\ Len(old) \in Nat
      /\ stored'[s] # None /\ DOMAIN new = 1 .. Len(old) + 1
      /\ \A i \in DOMAIN old : new[i] = old[i]
      /\ new[Len(old) + 1] = msg
  BY <1>2, <1>3
<1>5. \A w : \A d \in Chats : Says(s, d, w) <=> \E i \in DOMAIN old : old[i] = <<d, w>>
  <2>1. CASE stored[s] = None
    <3>1. old = <<>>
      BY <2>1
    <3>2. DOMAIN old = {}
      BY ONLY <3>1
    <3> QED
      BY ONLY <2>1, <3>2 DEF Says
  <2>2. CASE stored[s] # None
    <3>1. old = stored[s].messages
      BY <2>2
    <3> QED
      BY ONLY <2>2, <3>1 DEF Says
  <2> QED
    BY <2>1, <2>2
<1>6. \A w : \A d \in Chats : Says(s, d, w)' <=> Says(s, d, w) \/ <<d, w>> = msg
  <2>1. \A w : \A d \in Chats : Says(s, d, w)' <=> \E i \in DOMAIN new : new[i] = <<d, w>>
    BY <1>4 DEF Says
  <2> HIDE DEF old, new, msg
  <2>2. ASSUME NEW x PROVE (\E i \in DOMAIN new : new[i] = x) <=> (\E i \in DOMAIN old : old[i] = x) \/ x = new[Len(old) + 1]
    BY ONLY <1>4, OneMore
  <2>3. \A d, w : (\E i \in DOMAIN new : new[i] = <<d, w>>)
                     <=> (\E i \in DOMAIN old : old[i] = <<d, w>>) \/ <<d, w>> = msg
    BY ONLY <2>2, <1>4
  <2> QED
    BY ONLY <1>5, <2>1, <2>3
<1>7. \A w : \A t \in Sessions \ {s}, d \in Chats : Says(t, d, w)' <=> Says(t, d, w)
  BY <1>3 DEF Says
<1>8. \A d \in Chats : Settled(d)' = Settled(d)
  BY DEF Settled, Pending
<1>9. \A d \in Chats \ {c} : pc'[d] = pc[d]
  BY DEF TypeOK
<1>10. pc'[c] = next
  BY DEF TypeOK
<1>11. at = "pushAnswer" /\ c \notin cut => Says(s, c, "user")
  BY <1>a DEF Exchanges
<1>12. /\ at # "pushAnswer" => \A w \in {"user", "assistant"} : ~Says(s, c, w)
       /\ at = "pushAnswer" => ~Says(s, c, "assistant")
  BY <1>a, <1>1 DEF Exchanges
<1>13. \A i \in DOMAIN old : /\ old[i] = <<old[i][1], old[i][2]>> /\ old[i][1] \in Chats
                             /\ old[i][2] \in {"user", "assistant"} /\ Says(s, old[i][1], old[i][2])
  <2> HIDE DEF old
  <2>1. \A i \in DOMAIN old : old[i] \in Message
    BY ONLY <1>4
  <2> QED
    BY <1>5, <2>1 DEF Message
<1>14. msg[1] = c /\ msg[2] = by
  OBVIOUS
<1>15. Settled(c) /\ Storing(c) /\ "error" \notin {asked[c], reply[c]}
  BY <1>a DEF Exchanges, Before, Running, Storing
<1> HIDE DEF old, new, msg
<1>16. Exchanges'
  <2>1. ASSUME NEW t \in Sessions, NEW d \in Chats, NEW w \in {"user", "assistant"}, Says(t, d, w)'
        PROVE  /\ of'[d].session = t /\ Settled(d)'
               /\ pc'[d] \in {"dropUser", "pushAnswer", "dropLast", "hook", "over"}
               /\ pc'[d] \in {"dropUser", "pushAnswer"} => w = "user"
    <3>1. CASE d = c /\ t = s
      <4>1. pc'[d] \in {"dropUser", "dropLast"} /\ (pc'[d] = "dropUser" => by = "user" /\ at = "pushUser")
        BY <1>10, <3>1
      <4>2. Says(s, c, w) \/ w = by
        BY <1>6, <1>14, <2>1, <3>1
      <4> QED
        BY <1>8, <1>12, <1>15, <3>1, <4>1, <4>2
    <3>2. CASE ~(d = c /\ t = s)
      <4>1. Says(t, d, w)
        BY <1>6, <1>7, <1>14, <2>1, <3>2
      <4>2. of[d].session = t
        BY <1>a, <4>1 DEF Exchanges
      <4>3. d # c
        BY <3>2, <4>2
      <4> QED
        BY <1>a, <1>8, <1>9, <4>1, <4>3 DEF Exchanges
    <3> QED
      BY <3>1, <3>2
  <2>2. ASSUME NEW d \in Chats, pc'[d] \in {"dropUser", "pushAnswer"}, d \notin cut'
        PROVE  Says(of[d].session, d, "user")'
    <3>1. CASE d = c
      BY <1>1, <1>6, <1>10, <2>2, <3>1 DEF msg
    <3>2. CASE d # c
      <4>1. Says(of[d].session, d, "user") /\ of[d].session \in Sessions
        BY <1>a, <1>9, <2>2, <3>2 DEF Exchanges, Numbered, TypeOK
      <4> QED
        BY <1>6, <1>7, <4>1
    <3> QED
      BY <3>1, <3>2
  <2>3. \A d \in Chats : /\ pc'[d] \notin {"none", "over"} => "error" \notin {asked'[d], reply'[d]}
                         /\ pc'[d] \notin Before \cup {"over"} => Settled(d)'
    BY <1>a, <1>8, <1>9, <1>15 DEF Exchanges
  <2>4. \A t \in Sessions \ crowded' : \A d, e \in In(t)' : d < e => ~Storing(d)'
    <3>1. \A d \in Chats : Storing(d)' => Storing(d)
      BY <1>9, <1>15 DEF Running, Storing
    <3> QED
      BY <1>a, <3>1 DEF Exchanges, In
  <2> QED
    BY <1>a, <1>3, <2>1, <2>2, <2>3, <2>4 DEF Exchanges
<1>17. AnswersFollow'
  <2>1. ASSUME NEW j \in DOMAIN new, new[j][2] = "assistant", new[j][1] \notin cut
        PROVE  \E i \in 1 .. j - 1 : new[i] = <<new[j][1], "user">>
    <3>1. CASE j \in DOMAIN old
      <4>1. stored[s] # None /\ old = stored[s].messages
        BY <1>4, <3>1 DEF old
      <4>a. new[j] = old[j]
        BY ONLY <1>4, <3>1
      <4>2. PICK i \in 1 .. j - 1 : old[i] = <<old[j][1], "user">>
        BY ONLY <1>a, <1>1, <2>1, <3>1, <4>1, <4>a DEF AnswersFollow, Follow
      <4>3. i \in DOMAIN old
        BY <1>4, <3>1
      <4> QED
        BY <1>4, <3>1, <4>2, <4>3
    <3>2. CASE j \notin DOMAIN old
      <4>1. j = Len(old) + 1 /\ new[j] = msg
        BY <1>4, <3>2
      <4>2. by = "assistant" /\ at = "pushAnswer" /\ c \notin cut
        BY <1>14, <2>1, <4>1
      <4>3. PICK i \in DOMAIN old : old[i] = <<c, "user">>
        BY <1>5, <1>11, <4>2
      <4> QED
        BY <1>4, <1>14, <4>1, <4>3
    <3> QED
      BY <3>1, <3>2
  <2>2. \A t \in Sessions \ {s} : stored'[t] # None => stored[t] # None /\ stored'[t].messages = stored[t].messages
    BY <1>3
  <2>3. ASSUME NEW t \in Sessions, stored'[t] # None PROVE Follow(stored'[t].messages, cut')
    <3>1. CASE t = s
      BY ONLY <1>u, <2>1, <3>1 DEF new, Follow
    <3>2. CASE t # s
      BY <1>a, <2>2, <2>3, <3>2 DEF AnswersFollow
    <3> QED
      BY <3>1, <3>2
  <2> QED
    BY <2>3 DEF AnswersFollow
<1>18. InTurn'
  <2>1. ASSUME NEW i \in DOMAIN new, NEW j \in DOMAIN new, i < j, s \notin crowded
        PROVE  \/ new[i][1] < new[j][1]
               \/ new[i][1] = new[j][1] /\ new[i][2] = "user" /\ new[j][2] = "assistant"
    <3>0. i \in DOMAIN old
      BY <1>4, <2>1
    <3>1. CASE j \in DOMAIN old
      <4>1. stored[s] # None /\ old = stored[s].messages
        BY <1>4, <3>1 DEF old
      <4>2. new[i] = old[i] /\ new[j] = old[j]
        BY ONLY <1>4, <3>0, <3>1
      <4> QED
        BY ONLY <1>a, <1>1, <1>u, <2>1, <3>0, <3>1, <4>1, <4>2 DEF InTurn
    <3>2. CASE j \notin DOMAIN old
      <4>1. new[j] = msg /\ new[i] = old[i]
        BY <1>4, <3>0, <3>2
      <4> DEFINE d == old[i][1]
      <4>2. d \in Chats /\ Says(s, d, old[i][2]) /\ old[i][2] \in {"user", "assistant"}
        BY <1>13, <3>0
      <4>3. of[d].session = s
        BY <1>a, <1>1, <4>2 DEF Exchanges
      <4>4. d <= c
        <5>1. d \in In(s) /\ c \in In(s) /\ d \in Int /\ c \in Int
          BY <4>2, <4>3 DEF In, Chats
        <5>2. ~(c < d)
          BY <1>a, <1>1, <1>15, <2>1, <5>1 DEF Exchanges
        <5> QED
          BY <5>1, <5>2
      <4>5. d \in Int /\ c \in Int
        BY <4>2 DEF Chats
      <4>6. d = c => at = "pushAnswer" /\ old[i][2] = "user"
        BY <1>12, <4>2
      <4> HIDE DEF d
      <4>7. d < c \/ (d = c /\ old[i][2] = "user" /\ by = "assistant")
        BY <4>4, <4>5, <4>6
      <4> QED
        BY <1>14, <4>1, <4>7 DEF d
    <3> QED
      BY <3>1, <3>2
  <2>2. \A t \in Sessions \ {s} : stored'[t] # None => stored[t] # None /\ stored'[t].messages = stored[t].messages
    BY <1>3
  <2>3. ASSUME NEW t \in Sessions, t \notin crowded', stored'[t] # None,
               NEW i \in DOMAIN stored'[t].messages, NEW j \in DOMAIN stored'[t].messages, i < j
        PROVE  LET m == stored'[t].messages IN
               m[i][1] < m[j][1] \/ (m[i][1] = m[j][1] /\ m[i][2] = "user" /\ m[j][2] = "assistant")
    <3>1. CASE t = s
      BY ONLY <1>u, <2>1, <2>3, <3>1 DEF new
    <3>2. CASE t # s
      BY <1>a, <2>2, <2>3, <3>2 DEF InTurn
    <3> QED
      BY <3>1, <3>2
  <2> QED
    BY <2>3 DEF InTurn
<1> QED
  BY <1>16, <1>17, <1>18 DEF TranscriptInv

\* The history of a conversation: what is stored, by whom and when.
LEMMA TranscriptStep == TypeOK /\ Numbered /\ TranscriptInv /\ [ConversationNext]_vars => TranscriptInv'
<1> SUFFICES ASSUME TypeOK, Numbered, TranscriptInv, [ConversationNext]_vars PROVE TranscriptInv'
  OBVIOUS
<1>a. /\ UNCHANGED panel => UNCHANGED <<asked, of>>
      /\ UNCHANGED server => UNCHANGED <<pc, stored, cut>>
      /\ UNCHANGED vars => UNCHANGED <<asked, of, pc, stored, cut, reply, crowded>>
  BY DEF panel, server, vars
<1>t. TypeOK'
  BY TypeStep
<1>e. /\ stored = [s \in Sessions |-> stored[s]]
      /\ \A d \in Chats : /\ pc[d] \notin {"none", "over"} => "error" \notin {asked[d], reply[d]}
                          /\ pc[d] \notin Before \cup {"over"} => Settled(d)
  BY DEF TranscriptInv, Exchanges
\* A step of question c that stores nothing.
<1>f. ASSUME NEW c \in Chats, UNCHANGED <<stored, cut>>, crowded \subseteq crowded',
             \A d \in Chats : of'[d].session = of[d].session,
             \A d \in Chats \ {c} : asked'[d] = asked[d] /\ reply'[d] = reply[d] /\ pc'[d] = pc[d],
             Settled(c) => Settled(c)',
             \/ pc'[c] = pc[c] /\ ("error" \notin {asked[c], reply[c]} => "error" \notin {asked'[c], reply'[c]})
             \/ /\ pc[c] \in Before \ {"none"} /\ pc'[c] \in Before \cup {"over", "pushUser", "pushOnly"}
                /\ pc'[c] \in Before => "error" \notin {asked'[c], reply'[c]}
                /\ pc'[c] \in {"pushUser", "pushOnly"} => Settled(c)'
             \/ UNCHANGED <<asked, reply>> /\ <<pc[c], pc'[c]>> \in {<<"dropUser", "pushAnswer">>, <<"dropLast", "hook">>, <<"hook", "over">>}
             \/ UNCHANGED <<asked, reply>> /\ pc[c] \in {"pushUser", "pushAnswer", "pushOnly"} /\ pc'[c] = "over"
      PROVE  TranscriptInv'
  <2>1. \A d \in Chats \ {c} : (Settled(d)' <=> Settled(d)) /\ (Storing(d)' <=> Storing(d))
    BY <1>f DEF Settled, Pending, Running, Storing
  <2>2. Storing(c)' => Storing(c)
    BY <1>f DEF Running, Storing, Before
  <2>3. UNCHANGED <<asked, reply>> => (Settled(c)' <=> Settled(c))
    BY DEF Settled, Pending
  <2>4. /\ pc[c] \in {"dropUser", "pushAnswer", "dropLast", "hook", "over"} =>
              pc'[c] \in {"dropUser", "pushAnswer", "dropLast", "hook", "over"}
        /\ pc'[c] \in {"dropUser", "pushAnswer"} => pc[c] \in {"dropUser", "pushAnswer"}
    BY <1>f DEF Before
  <2>5. pc'[c] \notin {"none", "over"} => "error" \notin {asked'[c], reply'[c]}
    BY <1>e, <1>f DEF Before, Settled
  <2>6. pc'[c] \notin Before \cup {"over"} => Settled(c)'
    BY <1>e, <1>f, <2>3 DEF Before
  <2>7. \A d \in Chats :
              /\ of'[d].session = of[d].session /\ (Settled(d) => Settled(d)')
              /\ Storing(d)' => Storing(d)
              /\ pc[d] \in {"dropUser", "pushAnswer", "dropLast", "hook", "over"} =>
                    pc'[d] \in {"dropUser", "pushAnswer", "dropLast", "hook", "over"}
              /\ pc'[d] \in {"dropUser", "pushAnswer"} =>
                    /\ pc[d] \in {"dropUser", "pushAnswer"}
                    /\ d \notin cut' => stored'[of[d].session] = stored[of[d].session]
              /\ pc'[d] \notin {"none", "over"} => "error" \notin {asked'[d], reply'[d]}
              /\ pc'[d] \notin Before \cup {"over"} => Settled(d)'
    BY <1>e, <1>f, <2>1, <2>2, <2>4, <2>5, <2>6
  <2>8. /\ DOMAIN stored' = Sessions /\ stored' = [s \in Sessions |-> stored'[s]]
        /\ \A s \in Sessions : stored'[s] \in {stored[s], None}
    BY <1>e, <1>f
  <2> QED
    BY ONLY TypeOK, TypeOK', TranscriptInv, <1>f, <2>7, <2>8, TranscriptKept
<1>1. ASSUME NEW c \in Chats, Send(c) PROVE TranscriptInv'
  <2> DEFINE s == of'[c].session
  <2>1. /\ UNCHANGED <<stored, cut, reply>> /\ pc' = [pc EXCEPT ![c] = "get"]
        /\ asked' = [asked EXCEPT ![c] = "waiting"]
        /\ crowded' = IF \E d \in In(s) : Storing(d) THEN crowded \cup {s} ELSE crowded
    BY <1>1, <1>a DEF Send, TypeOK
  <2>2. /\ of' = [of EXCEPT ![c] = [session |-> s, opens |-> active = None]] /\ of[c].session = None
        /\ asked[c] = "no" /\ pc[c] = "none" /\ reply[c] = "none" /\ \A d \in Sent : d < c
    BY <1>1, SendIsFresh DEF Numbered
  <2> HIDE DEF s
  <2>3. /\ pc'[c] = "get" /\ asked'[c] = "waiting" /\ of'[c].session = s
        /\ \A d \in Chats \ {c} : of'[d] = of[d] /\ pc'[d] = pc[d] /\ asked'[d] = asked[d]
    BY <2>1, <2>2 DEF TypeOK
  <2>4. \A d \in Chats \ {c} : (Settled(d)' <=> Settled(d)) /\ (Storing(d)' <=> Storing(d))
    BY <2>1, <2>3 DEF Settled, Pending, Running, Storing
  <2>5. ASSUME NEW t \in Sessions, NEW d \in Chats, NEW by \in {"user", "assistant"}, Says(t, d, by)'
        PROVE  d # c /\ Says(t, d, by)
    <3>1. Says(t, d, by)
      BY <2>1, <2>5 DEF Says
    <3>2. of[d].session = t
      BY <3>1 DEF TranscriptInv, Exchanges
    <3> QED
      BY <2>2, <3>1, <3>2, NoneAssumption
  <2>6. ASSUME NEW d \in Chats, pc'[d] \in {"dropUser", "pushAnswer"}, d \notin cut'
        PROVE  of'[d].session = of[d].session /\ Says(of[d].session, d, "user")'
    <3>1. d # c /\ Says(of[d].session, d, "user")
      BY <2>1, <2>3, <2>6 DEF TranscriptInv, Exchanges
    <3> QED
      BY <2>1, <2>3, <3>1 DEF Says
  <2>7. ASSUME NEW t \in Sessions \ crowded', NEW d \in In(t)', NEW e \in In(t)', d < e
        PROVE  ~Storing(d)'
    <3>1. CASE e = c
      BY <2>1, <2>3, <2>4, <2>7, <3>1 DEF In, Chats
    <3>2. CASE d = c
      <4>1. e \in Chats \ {c} /\ of[e].session # None
        BY <2>3, <2>7, <3>2, NoneAssumption DEF In, Chats
      <4>2. e \in Sent
        BY <4>1 DEF Sent, Numbered
      <4> QED
        BY <2>2, <2>7, <3>2, <4>2 DEF Chats
    <3>3. CASE d # c /\ e # c
      <4>1. d \in In(t) /\ e \in In(t) /\ t \notin crowded
        BY <2>1, <2>3, <2>7, <3>3 DEF In
      <4> QED
        BY <2>4, <2>7, <3>3, <4>1 DEF TranscriptInv, Exchanges, In
    <3> QED
      BY <3>1, <3>2, <3>3
  <2>8. \A d \in Chats : /\ pc'[d] \notin {"none", "over"} => "error" \notin {asked'[d], reply'[d]}
                         /\ pc'[d] \notin Before \cup {"over"} => Settled(d)'
    BY <1>e, <2>1, <2>2, <2>3, <2>4 DEF Before
  <2>9. Exchanges'
    <3>1. stored' \in [Sessions -> Document \cup {None}]
      BY <2>1 DEF TranscriptInv, Exchanges
    <3>2. \A t \in Sessions, d \in Chats, by \in {"user", "assistant"} : Says(t, d, by)' =>
              /\ of'[d].session = t /\ Settled(d)'
              /\ pc'[d] \in {"dropUser", "pushAnswer", "dropLast", "hook", "over"}
              /\ pc'[d] \in {"dropUser", "pushAnswer"} => by = "user"
      BY <2>3, <2>4, <2>5 DEF TranscriptInv, Exchanges
    <3>3. \A d \in Chats : pc'[d] \in {"dropUser", "pushAnswer"} /\ d \notin cut' => Says(of[d].session, d, "user")'
      BY <2>6
    <3>4. \A d \in Chats : pc'[d] \in {"dropUser", "pushAnswer"} => of'[d].session = of[d].session
      BY <2>3
    <3> QED
      BY <2>7, <2>8, <3>1, <3>2, <3>3, <3>4 DEF Exchanges
  <2>10. AnswersFollow'
    <3>1. UNCHANGED <<stored, cut>> /\ AnswersFollow
      BY <2>1 DEF TranscriptInv
    <3> QED
      BY ONLY <3>1 DEF AnswersFollow
  <2>11. InTurn'
    <3>1. UNCHANGED stored /\ crowded \subseteq crowded' /\ InTurn
      BY <2>1 DEF TranscriptInv
    <3> QED
      BY ONLY <3>1 DEF InTurn
  <2> QED
    BY <2>9, <2>10, <2>11 DEF TranscriptInv
<1>2. ASSUME NEW c \in Chats, Receive(c) PROVE TranscriptInv'
  <2>1. /\ UNCHANGED <<stored, cut, crowded, pc>> /\ c \in Pending /\ reply[c] # "none"
        /\ of' = [of EXCEPT ![c].opens = FALSE] /\ reply' = [reply EXCEPT ![c] = "none"]
        /\ \E w \in {"done", "error", "timeout"} :
              asked' = [asked EXCEPT ![c] = w] /\ (w = "error" <=> reply[c] = "error")
    BY <1>2, <1>a DEF Receive
  <2>2. /\ \A d \in Chats : of'[d].session = of[d].session
        /\ \A d \in Chats \ {c} : asked'[d] = asked[d] /\ reply'[d] = reply[d] /\ pc'[d] = pc[d]
        /\ pc'[c] = pc[c] /\ ("error" \notin {asked[c], reply[c]} => "error" \notin {asked'[c], reply'[c]})
        /\ c \notin Pending'
    BY <2>1 DEF TypeOK, Pending
  <2>3. Settled(c) => Settled(c)'
    BY <2>2 DEF Settled
  <2> QED
    BY <1>f, <2>1, <2>2, <2>3
<1>3. ASSUME NEW c \in Chats, UNCHANGED <<of, asked, stored, cut, crowded>>,
             \A d \in Chats \ {c} : reply'[d] = reply[d] /\ pc'[d] = pc[d],
             Settled(c) => Settled(c)',
             \/ pc'[c] = pc[c] /\ reply'[c] \in {reply[c], "timeout"}
             \/ /\ pc[c] \in Before \ {"none"} /\ pc'[c] \in Before \cup {"over", "pushUser", "pushOnly"}
                /\ pc'[c] \in Before => UNCHANGED reply
                /\ pc'[c] \in {"pushUser", "pushOnly"} => Settled(c)'
             \/ UNCHANGED reply /\ <<pc[c], pc'[c]>> \in {<<"dropUser", "pushAnswer">>, <<"dropLast", "hook">>, <<"hook", "over">>}
             \/ UNCHANGED reply /\ pc[c] \in {"pushUser", "pushAnswer", "pushOnly"} /\ pc'[c] = "over"
      PROVE  TranscriptInv'
  <2>1. pc[c] \in Before \ {"none"} => "error" \notin {asked[c], reply[c]}
    BY <1>e DEF Before
  <2> QED
    BY <1>f, <1>3, <2>1
<1>4. ASSUME NEW c \in Chats, NEW what \in {"text", "empty", "error", "timeout"}, Reply(c, what), UNCHANGED asked
      PROVE  /\ Settled(c) => UNCHANGED reply /\ Settled(c)'
             /\ "error" \notin {asked[c], reply[c]} /\ what # "error" => Settled(c)'
             /\ \A d \in Chats \ {c} : reply'[d] = reply[d]
             /\ reply'[c] \in {reply[c], what}
  BY <1>4 DEF Reply, Answered, Settled, TypeOK, Pending
<1>5. ASSUME NEW c \in Chats, Refuse(c) \/ ProxyTimeout(c) PROVE TranscriptInv'
  <2>1. /\ UNCHANGED <<of, asked, stored, cut, crowded>>
        /\ \/ pc[c] = "get" /\ pc' = [pc EXCEPT ![c] = "over"] /\ Reply(c, "error")
           \/ UNCHANGED pc /\ Reply(c, "timeout")
    BY <1>5, <1>a DEF Refuse, ProxyTimeout, Goto
  <2>2. \A d \in Chats \ {c} : reply'[d] = reply[d] /\ pc'[d] = pc[d]
    BY <1>4, <2>1 DEF TypeOK
  <2>3. /\ Settled(c) => Settled(c)'
        /\ \/ pc'[c] = pc[c] /\ reply'[c] \in {reply[c], "timeout"}
           \/ pc[c] = "get" /\ pc'[c] = "over"
    BY <1>4, <2>1 DEF TypeOK
  <2> QED
    BY <1>3, <2>1, <2>2, <2>3 DEF Before
<1>6. ASSUME NEW c \in Chats, GetSession(c) \/ FindSession(c) \/ CopySession(c) PROVE TranscriptInv'
  <2>1. /\ UNCHANGED <<of, asked, stored, cut, crowded, reply>> /\ pc' = [pc EXCEPT ![c] = pc'[c]]
        /\ pc[c] \in {"get", "find", "setex"} /\ pc'[c] \in {"find", "setex", "run"}
    BY <1>6, <1>a DEF GetSession, FindSession, CopySession, Goto, TypeOK
  <2>2. Settled(c) => Settled(c)'
    BY <2>1 DEF Settled, Pending
  <2> QED
    BY <1>3, <2>1, <2>2 DEF Before, TypeOK
<1>7. ASSUME NEW c \in Chats, Supervise(c) PROVE TranscriptInv'
  <2>1. /\ UNCHANGED <<of, asked, stored, cut, crowded>> /\ pc[c] = "run"
        /\ \/ /\ pc' = [pc EXCEPT ![c] = pc'[c]] /\ pc'[c] \in {"pushUser", "pushOnly"}
              /\ \E what \in {"text", "empty"} : Reply(c, what)
           \/ pc' = [pc EXCEPT ![c] = "over"] /\ Reply(c, "error")
    BY <1>7, <1>a DEF Supervise, Goto, TypeOK
  <2>2. "error" \notin {asked[c], reply[c]}
    BY <1>e, <2>1
  <2>3. \A d \in Chats \ {c} : reply'[d] = reply[d] /\ pc'[d] = pc[d]
    BY <1>4, <2>1 DEF TypeOK
  <2>4. /\ Settled(c) => Settled(c)'
        /\ pc'[c] \in {"pushUser", "pushOnly"} => Settled(c)'
        /\ pc'[c] \in {"pushUser", "pushOnly", "over"}
    BY <1>4, <2>1, <2>2 DEF TypeOK
  <2> QED
    BY <1>3, <2>1, <2>3, <2>4 DEF Before
<1>8. ASSUME NEW c \in Chats, NEW at, NEW by, NEW next,
             <<at, by, next>> \in {<<"pushUser", "user", "dropUser">>, <<"pushAnswer", "assistant", "dropLast">>,
                                   <<"pushOnly", "user", "dropLast">>},
             Push(c, at, by, next)
      PROVE  TranscriptInv'
  <2>1. /\ UNCHANGED <<of, asked, cut, crowded, reply>> /\ pc[c] = at
        /\ \/ /\ pc' = [pc EXCEPT ![c] = next]
              /\ stored' = [stored EXCEPT ![of[c].session] = Appended(of[c].session, <<c, by>>)]
           \/ pc' = [pc EXCEPT ![c] = "over"] /\ UNCHANGED stored
    BY <1>8, <1>a DEF Push, Goto
  <2>2. CASE pc' = [pc EXCEPT ![c] = next] /\ stored' = [stored EXCEPT ![of[c].session] = Appended(of[c].session, <<c, by>>)]
    <3>1. Stores(c, at, by, next)
      BY ONLY <1>8, <2>1, <2>2 DEF Stores
    <3> QED
      BY ONLY TypeOK, Numbered, TranscriptInv, <1>8, <1>t, <3>1, TranscriptPush
  <2>3. CASE pc' = [pc EXCEPT ![c] = "over"] /\ UNCHANGED stored
    <3>1. Settled(c) => Settled(c)'
      BY <2>1 DEF Settled, Pending
    <3>2. pc[c] \in {"pushUser", "pushAnswer", "pushOnly"}
      BY <1>8, <2>1
    <3> QED
      BY <1>3, <2>1, <2>3, <3>1, <3>2 DEF TypeOK
  <2> QED
    BY <2>1, <2>2, <2>3
<1>9. ASSUME NEW c \in Chats, NEW at, NEW next, <<at, next>> \in {<<"dropUser", "pushAnswer">>, <<"dropLast", "hook">>},
             Drop(c, at, next)
      PROVE  TranscriptInv'
  <2>1. /\ UNCHANGED <<of, asked, stored, cut, crowded, reply>> /\ pc[c] = at /\ pc' = [pc EXCEPT ![c] = next]
    BY <1>9, <1>a DEF Drop, Goto
  <2>2. Settled(c) => Settled(c)'
    BY <2>1 DEF Settled, Pending
  <2>3. <<pc[c], pc'[c]>> \in {<<"dropUser", "pushAnswer">>, <<"dropLast", "hook">>, <<"hook", "over">>}
    BY <1>9, <2>1 DEF TypeOK
  <2> QED
    BY <1>3, <2>1, <2>2, <2>3 DEF TypeOK
<1>10. ASSUME NEW c \in Chats, AppendMessages(c) PROVE TranscriptInv'
  BY <1>8, <1>9, <1>10 DEF AppendMessages
<1>11. CASE Crash
  <2>1. /\ UNCHANGED <<of, asked, stored, cut, crowded>>
        /\ pc' = [d \in Chats |-> IF Running(d) THEN "over" ELSE pc[d]]
        /\ reply' = [d \in Chats |-> IF Running(d) THEN Answered(d, "error") ELSE reply[d]]
    BY <1>11, <1>a DEF Crash
  <2>2. ASSUME NEW d \in Chats
        PROVE  /\ Settled(d) => Settled(d)'
               /\ ~Storing(d)' /\ pc'[d] \in {"none", "over"}
               /\ pc[d] # "none" => pc'[d] = "over"
    BY <2>1 DEF Settled, Pending, Answered, Running, Storing, TypeOK
  <2> QED
    BY <1>e, <1>t, <2>1, <2>2, TranscriptKept DEF Before
\* Whoever removes a document, with the exchanges it cuts.
<1>12. ASSUME NEW s, UNCHANGED <<of, asked, pc, crowded, reply>>,
              stored' = [stored EXCEPT ![s] = None], cut' = cut \cup Halfway(s)
       PROVE  TranscriptInv'
  <2>1. DOMAIN stored' = Sessions /\ stored' = [t \in Sessions |-> stored'[t]]
    BY ONLY <1>e, <1>12
  <2>2. \A t \in Sessions : stored'[t] \in {stored[t], None}
    BY ONLY <1>e, <1>12
  <2>3. ASSUME NEW d \in Chats, pc[d] \in {"dropUser", "pushAnswer"}, d \notin cut'
        PROVE  stored'[of[d].session] = stored[of[d].session]
    <3>1. of[d].session # s
      BY ONLY <1>12, <2>3 DEF Halfway, In
    <3>2. \A t \in Sessions \ {s} : stored'[t] = stored[t]
      BY ONLY <1>e, <1>12
    <3>3. of[d].session \in Sessions
      BY <2>3 DEF Numbered, TypeOK
    <3> QED
      BY ONLY <3>1, <3>2, <3>3
  <2>4. \A d \in Chats : (Settled(d)' <=> Settled(d)) /\ (Storing(d)' <=> Storing(d))
    BY <1>12 DEF Settled, Pending, Running, Storing
  <2> QED
    BY <1>e, <1>t, <1>12, <2>1, <2>2, <2>3, <2>4, TranscriptKept
<1>13. ASSUME UNCHANGED <<of, pc, stored, cut, reply, crowded>>,
              \A d \in Chats : asked'[d] = asked[d] \/ (asked[d] = "waiting" /\ asked'[d] = "elsewhere")
       PROVE  TranscriptInv'
  <2>1. \A d \in Chats : (Settled(d)' <=> Settled(d)) /\ (Storing(d)' <=> Storing(d))
    BY <1>13 DEF Settled, Pending, Running, Storing
  <2>2. \A d \in Chats : "error" \notin {asked[d], reply[d]} => "error" \notin {asked'[d], reply'[d]}
    BY <1>13
  <2> QED
    BY <1>e, <1>t, <1>13, <2>1, <2>2, TranscriptKept
<1>14. ASSUME NEW s \in Sessions, Choose(s) \/ Expire(s) \/ ExpireStored(s) \/ AskDelete(s) PROVE TranscriptInv'
  <2>1. CASE Choose(s) \/ Expire(s) \/ AskDelete(s)
    BY <1>13, <2>1, <1>a DEF Choose, Expire, AskDelete
  <2>2. CASE ExpireStored(s)
    BY <1>12, <2>2, <1>a DEF ExpireStored
  <2> QED
    BY <1>14, <2>1, <2>2
<1>17. CASE DeleteStored
  <2>1. CASE UNCHANGED <<stored, cut>>
    BY <1>13, <1>17, <2>1, <1>a DEF DeleteStored
  <2>2. CASE ~UNCHANGED <<stored, cut>>
    BY <1>12, <1>17, <2>2, <1>a DEF DeleteStored
  <2> QED
    BY <2>1, <2>2
<1>18. ASSUME NEW c \in Chats, Remember(c) PROVE TranscriptInv'
  <2>1. /\ UNCHANGED <<of, asked, stored, cut, crowded, reply>> /\ pc[c] = "hook"
        /\ pc' = [pc EXCEPT ![c] = "over"]
    BY <1>18, <1>a DEF Remember, Goto
  <2>2. Settled(c) => Settled(c)'
    BY <2>1 DEF Settled, Pending
  <2>3. <<pc[c], pc'[c]>> = <<"hook", "over">>
    BY <2>1 DEF TypeOK
  <2> QED
    BY <1>3, <2>1, <2>2, <2>3 DEF TypeOK
<1>15. CASE Revisit
  <2>1. /\ UNCHANGED <<of, pc, stored, cut, reply, crowded>>
        /\ asked' = [c \in Chats |-> IF c \in Waiting THEN "elsewhere" ELSE asked[c]]
    BY <1>15, <1>a DEF Revisit
  <2> QED
    BY <1>13, <2>1 DEF Waiting
<1>16. CASE NewConversation \/ ListSessions \/ DeleteCached \/ RemoveSession \/ UNCHANGED vars
  BY <1>13, <1>16, <1>a DEF NewConversation, ListSessions, DeleteCached, RemoveSession
<1> QED
  BY <1>1, <1>2, <1>5, <1>6, <1>7, <1>10, <1>11, <1>14, <1>15, <1>16, <1>17, <1>18 DEF ConversationNext

\* The inductive invariant.
ConversationInv == TypeOK /\ Numbered /\ Together /\ CopyInv /\ Removed /\ TranscriptInv

\* The invariant holds initially: nothing was asked.
LEMMA ConversationInvInit == ConversationInit => ConversationInv
<1> SUFFICES ASSUME ConversationInit PROVE ConversationInv
  OBVIOUS
<1>1. TypeOK /\ Numbered
  BY NumberedInit
<1> USE DEF ConversationInit, NoDelete
<1>2. Together
  BY DEF Together, Waiting, Pending
<1>3. CopyInv
  BY DEF CopyInv, CarriedIsCurrent, CopyIsCurrent, Carriers, In
<1>4. Removed
  BY DEF Removed
<1>5. TranscriptInv
  BY DEF TranscriptInv, Exchanges, AnswersFollow, Follow, InTurn, Says, In, Running, Storing, Before
<1> QED
  BY <1>1, <1>2, <1>3, <1>4, <1>5 DEF ConversationInv

\* ... and in every state.
LEMMA ConversationInvariant == ConversationSpec => []ConversationInv
<1>1. ConversationInv /\ [ConversationNext]_vars => ConversationInv'
  BY TypeStep, NumberedStep, TogetherStep, CopyStep, RemovedStep, TranscriptStep DEF ConversationInv
<1> QED
  BY <1>1, ConversationInvInit, PTL DEF ConversationSpec

\* Every answer in the history of a conversation stands after its question unless the
\* document was removed between the two (by the RM or by its age), the exchanges stand whole and in order unless
\* one was asked while another was being stored, and no question that failed is among them.
THEOREM TranscriptsInOrder == ConversationSpec => []TranscriptInOrder
<1>1. ConversationInv => TranscriptInOrder
  <2> SUFFICES ASSUME ConversationInv, NEW s \in Sessions, stored[s] # None
               PROVE  LET m == stored[s].messages IN
                      /\ \A j \in DOMAIN m : m[j][2] = "assistant" /\ m[j][1] \notin cut =>
                            \E i \in 1 .. j - 1 : m[i] = <<m[j][1], "user">>
                      /\ \A j \in DOMAIN m : "error" \notin {asked[m[j][1]], reply[m[j][1]]}
                      /\ s \notin crowded => \A i, j \in DOMAIN m : i < j =>
                            \/ m[i][1] < m[j][1]
                            \/ m[i][1] = m[j][1] /\ m[i][2] = "user" /\ m[j][2] = "assistant"
    BY DEF TranscriptInOrder
  <2> DEFINE m == stored[s].messages
  <2>1. Exchanges /\ AnswersFollow /\ InTurn
    BY DEF ConversationInv, TranscriptInv
  <2>2. m \in Seq(Message)
    BY <2>1 DEF Exchanges, Document
  <2>3. ASSUME NEW j \in DOMAIN m PROVE "error" \notin {asked[m[j][1]], reply[m[j][1]]}
    <3> HIDE DEF m
    <3>1. m[j] \in Message
      BY <2>2
    <3>2. m[j] = <<m[j][1], m[j][2]>> /\ m[j][1] \in Chats /\ m[j][2] \in {"user", "assistant"}
      BY <3>1 DEF Message
    <3>3. Says(s, m[j][1], m[j][2])
      BY <3>2 DEF Says, m
    <3> QED
      BY <2>1, <3>2, <3>3 DEF Exchanges, Settled
  <2> QED
    BY <2>1, <2>3 DEF AnswersFollow, Follow, InTurn
<1> QED
  BY <1>1, ConversationInvariant, PTL

\* A chat that finds the conversation in Redis reads what MongoDB holds, but for a write or a
\* deletion whose invalidation is still to come, failed, or was lost to a crash or to a reader,
\* and for a document that MongoDB removed for its age.
THEOREM CopiesCurrent == ConversationSpec => []CopyIsCurrent
<1>1. ConversationInv => CopyIsCurrent
  BY DEF ConversationInv, CopyInv
<1> QED
  BY <1>1, ConversationInvariant, PTL

\* A deletion the browser saw confirmed, with nothing else of the conversation under way,
\* leaves no message in MongoDB and in Redis, none ever comes back, and nothing more of the
\* conversation is remembered; for whatever could do either is over by then.
THEOREM DeletionsStay == ConversationSpec => DeletedStaysDeleted
<1>1. ConversationInv => \A s \in gone \ late : ~Kept(s)
  BY DEF ConversationInv, Removed, Kept
<1>2. ConversationInv /\ [ConversationNext]_vars =>
         [\A s \in gone \ late : s \in remembered' => s \in remembered]_vars
  <2> SUFFICES ASSUME ConversationInv, ConversationNext, NEW s \in gone \ late, s \in remembered'
               PROVE  s \in remembered
    OBVIOUS
  <2>1. ASSUME NEW c \in Chats, Remember(c) PROVE of[c].session # s
    BY <2>1 DEF Remember, ConversationInv, Removed, Quiet, In, Unfinished, Running
  <2>2. CASE \E c \in Chats : Remember(c)
    BY <2>1, <2>2 DEF Remember
  <2>3. CASE ~\E c \in Chats : Remember(c)
    <3>1. UNCHANGED server => UNCHANGED remembered
      BY DEF server
    <3> QED
      BY <2>3, <3>1 DEF ConversationNext, Send, Receive, Refuse, ProxyTimeout, GetSession, FindSession, CopySession,
         Supervise, AppendMessages, Push, Drop, Choose, Expire, ExpireStored, AskDelete, NewConversation, Revisit,
         Crash, ListSessions, DeleteStored, DeleteCached, RemoveSession
  <2> QED
    BY <2>2, <2>3
<1> QED
  BY <1>1, <1>2, ConversationInvariant, PTL DEF DeletedStaysDeleted, ConversationSpec

\* Unless the RM moved with messages about or a first question failed, the panel shows one
\* conversation, and the next question goes to it.
THEOREM PanelShowsOneConversation == ConversationSpec => []PanelIsOneConversation
<1>1. ConversationInv => PanelIsOneConversation
  <2> SUFFICES ASSUME ConversationInv, ~strayed, NEW s \in shown
               PROVE  \E t \in Sessions :
                         /\ shown = {t}
                         /\ active = t \/ (active = None /\ \E c \in In(t) \cap Waiting : of[c].opens)
    BY DEF PanelIsOneConversation
  <2>1. s \in Sessions /\ shown = {s} /\ (active = s \/ Waiting # {})
    BY DEF ConversationInv, Together, TypeOK
  <2>2. ASSUME NEW c \in Waiting
        PROVE  of[c].session = s /\ c \in In(s) /\ active = IF of[c].opens THEN None ELSE s
    BY <2>1 DEF ConversationInv, Together, In, Waiting
  <2> QED
    BY <2>1, <2>2
<1> QED
  BY <1>1, ConversationInvariant, PTL
=============================================================================
