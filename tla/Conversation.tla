---------------------------- MODULE Conversation ----------------------------
(***************************************************************************)
(* The RM's chat, from the panel in the browser through the gateway to the *)
(* agent orchestrator and back.  A conversation is a session: its messages *)
(* are kept in MongoDB (agent_sessions) and copied to Redis when a chat    *)
(* reads them; a chat is answered first and stored afterwards, in the      *)
(* background, and last of all a model notes what is worth remembering of  *)
(* it.  The document is kept for an hour from its first message, whatever  *)
(* happens in it.  One RM, one browser tab: the panel, and the sidebar     *)
(* that lists, opens and deletes conversations.                            *)
(***************************************************************************)
EXTENDS Integers, Sequences, FiniteSets, FiniteSetsExt

CONSTANTS
    MaxChats,     \* bound: questions asked; they are numbered as they are asked
    MaxSessions,  \* bound: session ids the browser makes up
    MaxDeletes,   \* bound: conversations deleted
    MaxFaults,    \* bound: things that go wrong, documents that MongoDB removes included
    None          \* no session, no document, no request

ASSUME ConversationAssumption ==
    /\ MaxChats \in Nat \ {0} /\ MaxSessions \in Nat \ {0}
    /\ MaxDeletes \in Nat /\ MaxFaults \in Nat

VARIABLES
    active,     \* activeSessionId: the conversation the panel is in, or None for a new one
    shown,      \* the conversations whose messages are on the panel
    loading,    \* isLoading
    list,       \* recentSessions in the sidebar
    asked,      \* asked[c]: where question c is for the browser
    of,         \* of[c]: the session c was asked in, and whether it opened it
    reply,      \* reply[c]: the HTTP answer under way to the browser
    pc,         \* pc[c]: what the orchestrator does about c
    copy,       \* copy[c]: the document c is about to write to Redis
    stored,     \* stored[s]: the document in MongoDB
    cached,     \* cached[s]: the document in Redis
    remembered, \* the sessions of which a summary is kept, or facts
    deletion,   \* the sidebar's DELETE
    faults,     \* what went wrong so far
    deletes,    \* deletions so far
    overtaken,  \* history: sessions whose copy a write overtook
    crowded,    \* history: sessions asked in before the previous chat was stored
    cut,        \* history: chats whose session was removed between question and answer
    gone,       \* history: sessions whose deletion the browser saw confirmed
    late,       \* history: those of them with something under way meanwhile
    strayed     \* history: the RM moved, or a first question failed, with messages about

panel   == <<active, shown, loading, list, asked, of, strayed>>
server  == <<pc, copy, stored, cached, remembered, overtaken, cut>>
sidebar == <<deletion, deletes, gone, late>>
vars    == <<panel, server, sidebar, reply, faults, crowded>>

Chats    == 1 .. MaxChats
Sessions == 1 .. MaxSessions
\* A document of agent_sessions: has it the RM's id, and the messages with who said them.
Message  == Chats \X {"user", "assistant"}
Document == [owned : BOOLEAN, messages : Seq(Message)]

ASSUME NoneAssumption == None \notin Sessions \cup Document

NoDelete == [at |-> "none", session |-> None]

\* The orchestrator's part in c is not over; c may still change something.
Running(c)    == pc[c] \notin {"none", "over"}
Storing(c)    == Running(c) /\ pc[c] # "hook"
Unfinished(c) == Running(c) \/ asked[c] \in {"waiting", "elsewhere"}
In(s)         == {c \in Chats : of[c].session = s}
Waiting       == {c \in Chats : asked[c] = "waiting"}
Pending       == {c \in Chats : asked[c] \in {"waiting", "elsewhere"}}
Carriers(s)   == {c \in In(s) : pc[c] = "setex"}
May           == faults < MaxFaults

ConversationInit ==
    /\ active = None /\ shown = {} /\ loading = FALSE /\ list = {}
    /\ asked = [c \in Chats |-> "no"]
    /\ of = [c \in Chats |-> [session |-> None, opens |-> FALSE]]
    /\ reply = [c \in Chats |-> "none"]
    /\ pc = [c \in Chats |-> "none"] /\ copy = [c \in Chats |-> None]
    /\ stored = [s \in Sessions |-> None] /\ cached = [s \in Sessions |-> None]
    /\ remembered = {} /\ deletion = NoDelete
    /\ faults = 0 /\ deletes = 0
    /\ overtaken = {} /\ crowded = {} /\ cut = {} /\ gone = {} /\ late = {} /\ strayed = FALSE
-----------------------------------------------------------------------------
(* The panel *)

\* The input bar is disabled while loading; the prompts of an empty panel are not.
Send(c) ==
    LET opens == active = None
        s     == IF opens THEN 1 + Cardinality({of[d].session : d \in Chats} \ {None}) ELSE active
    IN
    /\ c = 1 + Cardinality({d \in Chats : asked[d] # "no"})
    /\ s \in Sessions
    /\ loading => shown = {}
    /\ asked' = [asked EXCEPT ![c] = "waiting"]
    /\ of' = [of EXCEPT ![c] = [session |-> s, opens |-> opens]]
    /\ pc' = [pc EXCEPT ![c] = "get"]
    /\ shown' = shown \cup {s} /\ loading' = TRUE
    /\ crowded' = IF \E d \in In(s) : Storing(d) THEN crowded \cup {s} ELSE crowded
    /\ late' = IF deletion.session = s THEN late \cup {s} ELSE late
    /\ UNCHANGED <<active, list, strayed, copy, stored, cached, remembered, overtaken, cut,
                   deletion, deletes, gone, reply, faults>>

\* Mutant: the session a first question opened does not become the active one.
Receive_forgets(c) ==
    LET failed == reply[c] \in {"error", "timeout"} IN
    /\ c \in Pending /\ reply[c] # "none"
    /\ asked' = [asked EXCEPT ![c] = IF failed THEN reply[c] ELSE "done"] /\ reply' = [reply EXCEPT ![c] = "none"]
    /\ of' = [of EXCEPT ![c].opens = FALSE]
    /\ IF asked[c] = "waiting" THEN shown' = shown \cup {of[c].session} /\ loading' = FALSE
                               ELSE UNCHANGED <<shown, loading>>
    /\ strayed' = (strayed \/ (failed /\ of[c].opens))
    /\ UNCHANGED <<active, list, server, sidebar, faults, crowded>>

\* The answer, or the error, is appended to whatever the panel shows by then.  A
\* panel that is gone shows nothing, but the active session is kept outside of it.
Receive(c) ==
    LET failed == reply[c] \in {"error", "timeout"} IN
    /\ c \in Pending /\ reply[c] # "none"
    /\ asked' = [asked EXCEPT ![c] = IF failed THEN reply[c] ELSE "done"] /\ reply' = [reply EXCEPT ![c] = "none"]
    /\ of' = [of EXCEPT ![c].opens = FALSE]
    /\ active' = IF ~failed /\ of[c].opens THEN of[c].session ELSE active
    /\ IF asked[c] = "waiting" THEN shown' = shown \cup {of[c].session} /\ loading' = FALSE
                               ELSE UNCHANGED <<shown, loading>>
    /\ strayed' = (strayed \/ (failed /\ of[c].opens))
    /\ UNCHANGED <<list, server, sidebar, faults, crowded>>

\* The panel is emptied when the active session becomes null, and only then.
BecomeNew == active' = None /\ shown' = {} /\ strayed' = (Pending # {})

NewConversation ==
    /\ active # None /\ BecomeNew
    /\ UNCHANGED <<loading, list, asked, of, server, sidebar, reply, faults, crowded>>

\* Opening a conversation from the list makes it the active one.  Its messages are
\* not loaded: that is skipped for ids that start with sess-, and all of them do.
Choose(s) ==
    /\ s \in list \ {active}
    /\ active' = s
    /\ strayed' = (strayed \/ shown # {} \/ Pending # {})
    /\ UNCHANGED <<shown, loading, list, asked, of, server, sidebar, reply, faults, crowded>>

\* Leaving the dashboard and coming back makes a new panel.
Revisit ==
    /\ shown # {} \/ loading
    /\ shown' = {} /\ loading' = FALSE
    /\ asked' = [c \in Chats |-> IF c \in Waiting THEN "elsewhere" ELSE asked[c]]
    /\ strayed' = (Pending # {})
    /\ UNCHANGED <<active, list, of, server, sidebar, reply, faults, crowded>>
-----------------------------------------------------------------------------
(* The gateway *)

Goto(c, there) == pc' = [pc EXCEPT ![c] = there]

\* What is answered to a request that has been answered already goes nowhere.
Answered(c, what) == IF c \in Pending /\ reply[c] = "none" THEN what ELSE reply[c]
Reply(c, what)    == reply' = [reply EXCEPT ![c] = Answered(c, what)]

\* The rate limiter or the token check turns the request down.
Refuse(c) ==
    /\ pc[c] = "get" /\ May /\ faults' = faults + 1
    /\ Goto(c, "over") /\ Reply(c, "error")
    /\ UNCHANGED <<panel, copy, stored, cached, remembered, overtaken, cut, sidebar, crowded>>

\* After 180 s the browser gets an error; the orchestrator is not told.
ProxyTimeout(c) ==
    /\ c \in Pending /\ reply[c] = "none" /\ May /\ faults' = faults + 1
    /\ Reply(c, "timeout")
    /\ UNCHANGED <<panel, server, sidebar, crowded>>
-----------------------------------------------------------------------------
(* The orchestrator *)

\* session_manager.get_session: Redis, then MongoDB, then a copy to Redis.
GetSession(c) ==
    /\ pc[c] = "get"
    /\ \/ Goto(c, IF cached[of[c].session] # None THEN "run" ELSE "find") /\ UNCHANGED faults
       \/ May /\ faults' = faults + 1 /\ Goto(c, "find")
    /\ UNCHANGED <<panel, copy, stored, cached, remembered, overtaken, cut, sidebar, reply, crowded>>

\* Without a document, or with an error, the question is asked without history.
FindSession(c) ==
    /\ pc[c] = "find"
    /\ \/ /\ Goto(c, IF stored[of[c].session] # None THEN "setex" ELSE "run")
          /\ copy' = [copy EXCEPT ![c] = stored[of[c].session]]
          /\ UNCHANGED faults
       \/ May /\ faults' = faults + 1 /\ Goto(c, "run") /\ UNCHANGED copy
    /\ UNCHANGED <<panel, stored, cached, remembered, overtaken, cut, sidebar, reply, crowded>>

CopySession(c) ==
    /\ pc[c] = "setex" /\ Goto(c, "run") /\ copy' = [copy EXCEPT ![c] = None]
    /\ \/ cached' = [cached EXCEPT ![of[c].session] = copy[c]] /\ UNCHANGED faults
       \/ May /\ faults' = faults + 1 /\ UNCHANGED cached
    /\ UNCHANGED <<panel, stored, remembered, overtaken, cut, sidebar, reply, crowded>>

\* The supervisor's graph: the keywords of a question choose the tools; the data they
\* return is put into words by one model call.
Lists == {"client_list_city", "client_list_tier", "client_count"}
Topics == {"dashboard", "alerts", "meetings", "leads", "dormant"}
Keywords == {"client_search", "client_portfolio", "client_count", "alerts"}

Routed(matched) == IF matched = {} THEN {"client_search"} ELSE matched

\* What is fetched is never nothing: a tool that fails returns its error as data.
Fetched(routes, named) ==
    LET data == (IF named /\ routes \cap {"client_search", "client_portfolio"} # {}
                 THEN {"client_search"} ELSE {})
                \cup (IF routes \cap Lists # {} THEN {"client_list"} ELSE {})
                \cup (routes \cap Topics)
    IN IF data # {} THEN data ELSE IF named THEN {"client_search"} ELSE {"client_list"}

\* A model that fails has a fallback; only one that says nothing leaves nothing.
Draft(intent, data, model) ==
    IF intent = "qa" /\ data = {} THEN "rephrase" ELSE IF model = "down" THEN "fallback" ELSE model

Blocked(q)     == q.forbidden
Cleaned(draft) == IF draft = "advice" THEN "refusal" ELSE draft
Answer(q, model) ==
    IF Blocked(q) THEN "refusal" ELSE Cleaned(Draft(q.intent, Fetched(Routed(q.matched), q.named), model))

Questions == [forbidden : BOOLEAN, intent : {"greeting", "meta", "qa"}, matched : SUBSET Keywords, named : BOOLEAN]
Answers   == {Answer(q, model) : q \in Questions, model \in {"words", "advice", "nothing", "down"}}

\* The response goes out if somebody waits for it, and what was said is stored after
\* it.  An exception is a 500 and stores nothing.
Supervise(c) ==
    /\ pc[c] = "run"
    /\ \/ \E answer \in {IF a = "nothing" THEN "empty" ELSE "text" : a \in Answers} :
             /\ Goto(c, IF answer = "empty" THEN "pushOnly" ELSE "pushUser")
             /\ Reply(c, answer)
             /\ UNCHANGED faults
       \/ /\ May /\ faults' = faults + 1 /\ Goto(c, "over")
          /\ Reply(c, "error")
    /\ UNCHANGED <<panel, copy, stored, cached, remembered, overtaken, cut, sidebar, crowded>>

Appended(s, message) ==
    IF stored[s] = None THEN [owned |-> message[2] = "user", messages |-> <<message>>]
                        ELSE [stored[s] EXCEPT !.messages = Append(@, message)]

\* A write overtakes the readers that carry a copy; with the copy in Redis gone, it
\* is over unless one of them still carries its own.
Caught(s)    == overtaken' = IF \E d \in Carriers(s) : copy[d] # stored[s] THEN overtaken ELSE overtaken \ {s}
Overtakes(s) == overtaken' = IF Carriers(s) # {} THEN overtaken \cup {s} ELSE overtaken

\* Mutant: both messages are stored, the answer first.
Push_answerFirst(c, at, by, next) ==
    LET s == of[c].session IN
    /\ pc[c] = at /\ Goto(c, next)
    /\ stored' = [stored EXCEPT ![s] =
                    Appended(s, <<c, IF at = "pushUser" THEN "assistant" ELSE "user">>)]
    /\ Overtakes(s) /\ UNCHANGED faults
    /\ UNCHANGED <<panel, copy, cached, remembered, cut, sidebar, reply, crowded>>

\* append_message: a push that creates the document if need be, with the RM's id
\* only if the message carries one.  A failure ends the background work.
Push(c, at, by, next) ==
    LET s == of[c].session IN
    /\ pc[c] = at
    /\ \/ /\ Goto(c, next) /\ stored' = [stored EXCEPT ![s] = Appended(s, <<c, by>>)]
          /\ Overtakes(s) /\ UNCHANGED faults
       \/ May /\ faults' = faults + 1 /\ Goto(c, "over") /\ UNCHANGED <<stored, overtaken>>
    /\ UNCHANGED <<panel, copy, cached, remembered, cut, sidebar, reply, crowded>>

\* Mutant: the copy in Redis is left alone.
Drop_not(c, at, next) ==
    /\ pc[c] = at /\ Goto(c, next)
    /\ UNCHANGED <<panel, copy, stored, cached, remembered, cut, overtaken, sidebar, reply, faults, crowded>>

\* ... and the copy in Redis is dropped, best effort.
Drop(c, at, next) ==
    LET s == of[c].session IN
    /\ pc[c] = at /\ Goto(c, next)
    /\ \/ /\ cached' = [cached EXCEPT ![s] = None] /\ UNCHANGED faults
          /\ Caught(s)
       \/ /\ May /\ faults' = faults + 1 /\ UNCHANGED cached
          /\ overtaken' = overtaken \cup {s}
    /\ UNCHANGED <<panel, copy, stored, remembered, cut, sidebar, reply, crowded>>

AppendMessages(c) ==
    \/ Push(c, "pushUser", "user", "dropUser")
    \/ Drop(c, "dropUser", "pushAnswer")
    \/ Push(c, "pushAnswer", "assistant", "dropLast")
    \/ Push(c, "pushOnly", "user", "dropLast")
    \/ Drop(c, "dropLast", "hook")

\* The last background task: a model is asked for a summary and for facts, which are
\* kept for the chats to come.  Nothing of it may come of it, and no error gets out.
Remember(c) ==
    /\ pc[c] = "hook" /\ Goto(c, "over")
    /\ remembered' \in {remembered, remembered \cup {of[c].session}}
    /\ UNCHANGED <<panel, copy, stored, cached, overtaken, cut, sidebar, reply, faults, crowded>>

\* The TTL of the copy runs out.
Expire(s) ==
    /\ cached[s] # None /\ cached' = [cached EXCEPT ![s] = None] /\ Caught(s)
    /\ UNCHANGED <<panel, pc, copy, stored, remembered, cut, sidebar, reply, faults, crowded>>

\* The chats of a conversation that would be answered in it without their question.
Halfway(s) == {c \in In(s) : pc[c] \in {"dropUser", "pushAnswer"}}

\* MongoDB removes the document once expires_at is past, which only the message that
\* created it has set; so its age is not the conversation's, and it may be in use.
ExpireStored(s) ==
    /\ stored[s] # None /\ stored' = [stored EXCEPT ![s] = None] /\ May /\ faults' = faults + 1
    /\ overtaken' = IF cached[s] # None \/ Carriers(s) # {} THEN overtaken \cup {s} ELSE overtaken
    /\ cut' = cut \cup Halfway(s)
    /\ UNCHANGED <<panel, pc, copy, cached, remembered, sidebar, reply, crowded>>

\* Invalidations the crash prevents.
Undropped == {of[c].session : c \in {d \in Chats : pc[d] \in {"dropUser", "dropLast"}}}
             \cup {s \in Sessions : deletion = [at |-> "redis", session |-> s]}

\* The orchestrator restarts: what it was doing is lost, and the proxy says so.
Crash ==
    /\ May /\ faults' = faults + 1
    /\ \E c \in Chats : Running(c)
    /\ pc' = [c \in Chats |-> IF Running(c) THEN "over" ELSE pc[c]]
    /\ copy' = [c \in Chats |-> None]
    /\ reply' = [c \in Chats |-> IF Running(c) THEN Answered(c, "error") ELSE reply[c]]
    /\ overtaken' = overtaken \cup Undropped
    /\ deletion' = IF deletion.at \in {"mongo", "redis"} THEN NoDelete ELSE deletion
    /\ UNCHANGED <<panel, stored, cached, remembered, cut, deletes, gone, late, crowded>>
-----------------------------------------------------------------------------
(* The sidebar *)

\* GET /agent/sessions: the sessions stored with the RM's id.
Listed == {s \in Sessions : stored[s] # None /\ stored[s].owned}

\* Every 30 s.
ListSessions ==
    /\ list' = Listed /\ list' # list
    /\ UNCHANGED <<active, shown, loading, asked, of, strayed, server, sidebar, reply, faults, crowded>>

AskDelete(s) ==
    /\ s \in list /\ deletion = NoDelete /\ deletes < MaxDeletes
    /\ deletes' = deletes + 1 /\ deletion' = [at |-> "mongo", session |-> s]
    /\ UNCHANGED <<panel, server, gone, late, reply, faults, crowded>>

\* DELETE /agent/sessions/:id: MongoDB first; an error there is a 500.
DeleteStored ==
    LET s == deletion.session IN
    /\ deletion.at = "mongo"
    /\ \/ /\ deletion' = [deletion EXCEPT !.at = "redis"]
          /\ stored' = [stored EXCEPT ![s] = None] /\ Overtakes(s)
          /\ cut' = cut \cup Halfway(s)
          /\ late' = IF \E c \in In(s) : Unfinished(c) THEN late \cup {s} ELSE late
          /\ UNCHANGED faults
       \/ /\ May /\ faults' = faults + 1 /\ deletion' = NoDelete
          /\ UNCHANGED <<stored, overtaken, cut, late>>
    /\ UNCHANGED <<panel, pc, copy, cached, remembered, deletes, gone, reply, crowded>>

\* Then Redis, best effort.
DeleteCached ==
    LET s == deletion.session IN
    /\ deletion.at = "redis" /\ deletion' = [deletion EXCEPT !.at = "confirmed"]
    /\ \/ cached' = [cached EXCEPT ![s] = None] /\ Caught(s) /\ UNCHANGED <<faults, late>>
       \/ /\ May /\ faults' = faults + 1
          /\ overtaken' = overtaken \cup {s} /\ late' = late \cup {s} /\ UNCHANGED cached
    /\ UNCHANGED <<panel, pc, copy, stored, remembered, cut, deletes, gone, reply, crowded>>

\* Mutant: the panel stays in the conversation that was removed.
RemoveSession_stays ==
    LET s == deletion.session IN
    /\ deletion.at = "confirmed" /\ deletion' = NoDelete
    /\ gone' = gone \cup {s}
    /\ \/ /\ list' = list \ {s}
          /\ late' = IF \E c \in In(s) : Unfinished(c) THEN late \cup {s} ELSE late
       \/ list' = list \cup {s} /\ late' = late \cup {s}
    /\ UNCHANGED <<active, shown, strayed, loading, asked, of, server, deletes, reply, faults, crowded>>

\* The browser takes it off the list, and leaves it if the panel was in it.  A list
\* asked for before the deletion and answered only now puts it back.
RemoveSession ==
    LET s == deletion.session IN
    /\ deletion.at = "confirmed" /\ deletion' = NoDelete
    /\ gone' = gone \cup {s}
    /\ IF active = s THEN BecomeNew ELSE UNCHANGED <<active, shown, strayed>>
    /\ \/ /\ list' = list \ {s}
          /\ late' = IF \E c \in In(s) : Unfinished(c) THEN late \cup {s} ELSE late
       \/ list' = list \cup {s} /\ late' = late \cup {s}
    /\ UNCHANGED <<loading, asked, of, server, deletes, reply, faults, crowded>>
-----------------------------------------------------------------------------
ConversationNext ==
    \/ \E c \in Chats :
          \/ Send(c) \/ Receive(c)
          \/ Refuse(c) \/ ProxyTimeout(c)
          \/ GetSession(c) \/ FindSession(c) \/ CopySession(c) \/ Supervise(c) \/ AppendMessages(c)
          \/ Remember(c)
    \/ \E s \in Sessions : Choose(s) \/ Expire(s) \/ ExpireStored(s) \/ AskDelete(s)
    \/ NewConversation \/ Revisit \/ Crash
    \/ ListSessions \/ DeleteStored \/ DeleteCached \/ RemoveSession

ConversationSpec == ConversationInit /\ [][ConversationNext]_vars
-----------------------------------------------------------------------------
(***************************************************************************)
(* What the history of a conversation is: every answer stands after its    *)
(* question, unless the document was removed between the two, by the RM or *)
(* by its age; and the exchanges stand whole and in the order they were    *)
(* asked, unless one was asked while the one before was still being        *)
(* stored.  A question that failed for the RM is not in it, unless it was  *)
(* the proxy that gave up.                                                 *)
(***************************************************************************)
TranscriptInOrder == \A s \in Sessions : stored[s] # None =>
    LET m == stored[s].messages IN
    /\ \A j \in DOMAIN m : m[j][2] = "assistant" /\ m[j][1] \notin cut =>
          \E i \in 1 .. j - 1 : m[i] = <<m[j][1], "user">>
    /\ \A j \in DOMAIN m : "error" \notin {asked[m[j][1]], reply[m[j][1]]}
    /\ s \notin crowded => \A i, j \in DOMAIN m : i < j =>
          \/ m[i][1] < m[j][1]
          \/ m[i][1] = m[j][1] /\ m[i][2] = "user" /\ m[j][2] = "assistant"

(***************************************************************************)
(* A chat that finds the conversation in Redis reads what MongoDB holds,   *)
(* except between a write and the deletion of the copy, and after a reader *)
(* was overtaken by a write, a copy could not be deleted, or MongoDB       *)
(* removed the document for its age and left the copy behind; the next     *)
(* append_message that runs through puts an end to it.                     *)
(***************************************************************************)
CopyIsCurrent == \A s \in Sessions :
    cached[s] # None /\ s \notin Undropped \cup overtaken => cached[s] = stored[s]

(***************************************************************************)
(* A deletion the RM saw confirmed leaves no message of the conversation,  *)
(* none ever comes back, and nothing more of it is remembered, unless a    *)
(* chat in it or a list of conversations was under way meanwhile, or Redis *)
(* could not be reached.  The deletion does not touch what was remembered  *)
(* of the conversation before.                                             *)
(***************************************************************************)
Kept(s) == stored[s] # None \/ cached[s] # None
DeletedStaysDeleted ==
    /\ [](\A s \in gone \ late : ~Kept(s))
    /\ [][\A s \in gone \ late : s \in remembered' => s \in remembered]_vars

(***************************************************************************)
(* The panel shows one conversation, the one the next question goes to,    *)
(* unless the RM moved with messages on it or under way, or the question   *)
(* that opened the conversation failed.                                    *)
(***************************************************************************)
PanelIsOneConversation == ~strayed =>
    \/ shown = {}
    \/ \E s \in Sessions : /\ shown = {s}
                           /\ active = s \/ (active = None /\ \E c \in In(s) \cap Waiting : of[c].opens)
=============================================================================
