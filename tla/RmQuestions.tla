----------------------------- MODULE RmQuestions -----------------------------
(***************************************************************************)
(* POST /search/query: QueryEngineService answers a question in words by   *)
(* the first of its patterns that matches, with one query over the         *)
(* collections the screens of RmScreens are made of.                       *)
(***************************************************************************)
EXTENDS RmScreens

CONSTANT MeetingLimit  \* 50 in the code

ASSUME QuestionsAssumption == MeetingLimit \in Nat \ {0}

ClientsShown(tier) == UNION {OfTier(t) : t \in Spellings(tier)}

Spans    == {"today", "tomorrow", "this week"}

\* What a question is about, and whether it opens with a word such as "show" or "find",
\* which the pattern for a client's name matches, whatever follows.
Question(kind, of, show) == [kind |-> kind, of |-> of, show |-> show]

\* Mutant: the broad catch comes first.
Patterns_broadFirst == <<"find", "count", "list", "aum", "alerts", "meetings", "cash">>

Patterns == <<"count", "list", "aum", "alerts", "meetings", "cash", "find">>

Matching(q) == {q.kind} \cup (IF q.show THEN {"find"} ELSE {})

Intent(q) ==
    LET matched == {i \in DOMAIN Patterns : Patterns[i] \in Matching(q)}
    IN IF matched = {} THEN "UNKNOWN" ELSE Patterns[Min(matched)]

\* From Monday to Sunday; a Sunday is the last day of its week.
Monday == IF Day(now) % 7 = 0 THEN Day(now) - 6 ELSE Day(now) - (Day(now) % 7) + 1
DateFilter(span) ==
    CASE span = "today" -> Midnight .. Midnight + 23
      [] span = "tomorrow" -> Midnight + Days(1) .. Midnight + Days(1) + 23
      [] OTHER -> Days(Monday) .. Days(Monday + 6) + 23

\* "pending" and "active" alerts are those of the status PENDING, which nothing writes.
StatusAsked(word) == IF word = "new" THEN "NEW" ELSE "PENDING"

\* The filter compares the tier as it was imported with the one asked for in capitals.
Asked(tier) == IF tier = "any" THEN DOMAIN clients ELSE OfTier(tier)

CountAnswer(tier) == Cardinality(Asked(tier))
ListAnswer(tier)  == Best(Asked(tier), ListLimit, <)
SumAnswer == Total([c \in DOMAIN clients |-> clients[c].aum], DOMAIN clients)

AlertAnswer(word) == Best(With({StatusAsked(word)}), ShortLimit, Newer)
Severities(word) == [s \in {"high", "medium", "low"} |->
                        Cardinality({a \in AlertAnswer(word) : alerts[a].severity = s})]

MeetingAnswer(span) ==
    Best({m \in DOMAIN meetings : meetings[m].at \in DateFilter(span)}, MeetingLimit, Earlier)

\* No client has a cash_pct, and none bears the rest of another question for a name.
Listed(q) ==
    CASE Intent(q) = "list" -> ListAnswer(q.of)
      [] Intent(q) = "alerts" -> AlertAnswer(q.of)
      [] Intent(q) = "meetings" -> MeetingAnswer(q.of)
      [] OTHER -> {}
Told(q) ==
    CASE Intent(q) = "count" -> CountAnswer(q.of)
      [] Intent(q) = "aum" -> SumAnswer
      [] OTHER -> Cardinality(Listed(q))
-----------------------------------------------------------------------------
\* However a question is put, its answer agrees with the other answers and the screens:
\* a tier counts whom the dashboard lists under it, but for those imported in small
\* letters, and what is left over of all clients is of no tier one can ask for; the new
\* alerts are those of the briefing, up to the limit of the list; a meeting of the day
\* counted on the dashboard is on its list unless older ones, still scheduled, fill it;
\* the week holds today and tomorrow, but for the Monday after a Sunday; and the totals
\* are those of the performance figures.
AnswersAddUp == \A show \in BOOLEAN :
    LET Of(tier)       == Told(Question("count", tier, show))
        Alerts(word)   == Listed(Question("alerts", word, show))
        Meetings(span) == Listed(Question("meetings", span, show))
        figures        == Figures({ThisMonth})
    IN
    /\ Of("any") = figures.total_clients
    /\ Of("any") = Cardinality(UNION {ClientsShown(tier) : tier \in Tiers}) + Cardinality(OfTier("BLACK"))
    /\ \A tier \in Tiers :
          Of(tier) = Cardinality({c \in ClientsShown(tier) : clients[c].tier \in Tiers})
    /\ Of("DIAMOND") = figures.diamond_clients /\ Of("PLATINUM") = figures.platinum_clients
    /\ \A tier \in Tiers : Told(Question("list", tier, show)) = AtMost(ListLimit, Of(tier))
    /\ Alerts("new") \subseteq BriefingAlerts
    /\ \A a \in BriefingAlerts \ Alerts("new") : Cardinality({b \in Alerts("new") : Newer(b, a)}) = ShortLimit
    /\ Total(Severities("new"), {"high", "medium", "low"})
          = Cardinality({a \in Alerts("new") : alerts[a].severity # "critical"})
    /\ Meetings("today") \subseteq MeetingsToday
    /\ Cardinality(Meetings("today")) = AtMost(MeetingLimit, Cardinality(MeetingsToday))
    /\ SummaryMeetings \subseteq MeetingsToday
    /\ \A m \in SummaryMeetings \ DashboardMeetings :
          Cardinality({n \in DashboardMeetings : Earlier(n, m)}) = ShortLimit
    /\ \A m \in Meetings("today") \cup Meetings("tomorrow") :
          IF Day(now) % 7 = 0 /\ m \in Meetings("tomorrow")
          THEN m \notin Meetings("this week") \cup Meetings("today")
          ELSE m \in Meetings("this week") \/ Cardinality(Meetings("this week")) = MeetingLimit
    /\ Told(Question("aum", "any", show)) = figures.aum_growth
=============================================================================
