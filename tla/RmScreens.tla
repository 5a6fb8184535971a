------------------------------ MODULE RmScreens ------------------------------
(***************************************************************************)
(* What core-api shows one RM: the dashboard, the daily briefing, the      *)
(* ranked actions, the standing among the peers and the engagement card,   *)
(* each computed from the collections at the moment of the request (the    *)
(* caches in front of them are in ReadCache).                              *)
(*                                                                         *)
(* Time is counted in hours, amounts of money in units of 50,000 rupees.   *)
(* Ids are numbers: ties that MongoDB breaks as it likes go to the lowest. *)
(***************************************************************************)
EXTENDS Integers, FiniteSets, FiniteSetsExt, Sequences

CONSTANTS
    Situations,  \* what the collections may hold at first, and when that is
    LastHour,    \* bound on the time
    Strides,     \* bound: by how many hours the clock advances at a time
    ListLimit,   \* 20 in the code
    ShortLimit,  \* 10 in the code
    TopLimit,    \* 5 in the code
    MoverLimit,  \* 3 in the code
    Months       \* the first days of the months of this year, and of the next year

ASSUME ScreensAssumption ==
    /\ LastHour \in Nat /\ Strides \subseteq Nat \ {0}
    /\ Months \in Seq(Nat) /\ \A m \in 1 .. Len(Months) - 1 : Months[m] < Months[m + 1]
    /\ Len(Months) > 1 /\ LastHour < 24 * Months[Len(Months)]
    /\ \A n \in {ListLimit, ShortLimit, TopLimit, MoverLimit} : n \in Nat \ {0}

\* The list of clients on the dashboard takes small letters for capitals; a client may
\* have any tier, "BLACK" standing for those that no score and no question knows.
Spellings(tier) == CASE tier = "PLATINUM" -> {tier, "Platinum"} [] tier = "GOLD" -> {tier, "Gold"} [] OTHER -> {tier}
Tiers == {"DIAMOND", "PLATINUM", "GOLD", "SILVER"}
Stored == (UNION {Spellings(t) : t \in Tiers}) \cup {"BLACK"}
Metrics == {1, 2}
Kinds == {"follow_up", "other", "CALL", "VISIT"}

Open   == {"pending", "NEW"}
Closed == {"acknowledged", "ACKNOWLEDGED", "ACTED_ON"}
Stages == {"PROSPECT", "LEAD", "NEGOTIATION", "PROPOSAL_SENT", "CLOSED_WON", "CLOSED_LOST", "LOST"}

\* What the collections may hold: documents of one type, under numbers.
Collection(f, D) == IsFiniteSet(DOMAIN f) /\ DOMAIN f \subseteq Nat /\ f \in [DOMAIN f -> D]
WellFormed(s) ==
    /\ Collection(s.alerts, [status : Open \cup Closed, severity : {"critical", "high", "medium", "low"},
                             priority : {"high", "medium", "low", "none"}, at : Int])
    /\ Collection(s.meetings, [kind : Kinds, status : {"scheduled", "completed", "cancelled"}, at : Int,
                               tier : STRING, timed : BOOLEAN])
    /\ Collection(s.deals, [status : Stages, amount : Nat, updated : Int, tier : STRING])
    /\ Collection(s.clients, [tier : Stored, last : Int, since : Int,
                              pct : Nat, cash : Nat, change : Int, aum : Int,
                              sale : [type : STRING, status : STRING, at : Int, amount : Nat]])
    /\ Collection(s.peers, [Metrics -> Int]) /\ 1 \in DOMAIN s.peers
    /\ Collection(s.visits, [sessions : Nat, minutes : Nat, actions : Nat])
    /\ s.now \in 24 * Months[1] .. LastHour

ASSUME SituationsAssumption == \A s \in Situations : WellFormed(s)

VARIABLES
    alerts,    \* alerts[a]: an alert, imported ("pending") or raised by the engine ("NEW")
    meetings,  \* meetings[m]
    deals,     \* deals[d]: a pipeline record with the tier of its client
    clients,   \* clients[c], with the summary of the portfolio and a transaction
    peers,     \* peers[r][k]: the figure of RM r in metric k; the RM asking is 1
    visits,    \* visits[d]: the sessions of day d, and the audited actions
    now

svars == <<alerts, meetings, deals, clients, peers, visits, now>>

Day(t) == t \div 24
Midnight == 24 * Day(now)
Days(n) == 24 * n
AtMost(n, x) == IF x < n THEN x ELSE n
Rounded(x, y) == (2 * x + y) \div (2 * y)
Total(f, S) == SumFunctionOnSet(f, S)

\* The first n of S in an order: sort and limit, or sort and slice.
Best(S, n, Before(_, _)) == {x \in S : Cardinality({y \in S : Before(y, x)}) < n}
-----------------------------------------------------------------------------
(* The dashboard *)

With(statuses) == {a \in DOMAIN alerts : alerts[a].status \in statuses}
Newer(a, b)    == alerts[a].at > alerts[b].at \/ (alerts[a].at = alerts[b].at /\ a < b)

DashboardAlerts == Best(With({"PENDING", "pending"}), ListLimit, Newer)
ActivityAlerts  == Cardinality(With(Open))
SummaryAlerts   == Cardinality(With({"pending"}))

\* MongoDB sorts the priorities as strings, a missing one first.
Alphabetical(p) == CASE p = "none" -> 0 [] p = "high" -> 1 [] p = "low" -> 2 [] p = "medium" -> 3

DailyActions ==
    LET Rank(a) == Alphabetical(alerts[a].priority)
    IN Best(With({"pending"}), ShortLimit,
            LAMBDA a, b : Rank(a) < Rank(b) \/ (Rank(a) = Rank(b) /\ Newer(a, b)))

Scheduled == {m \in DOMAIN meetings : meetings[m].status = "scheduled"}
Earlier(m, n) == meetings[m].at < meetings[n].at \/ (meetings[m].at = meetings[n].at /\ m < n)

\* The list begins with the oldest meeting that is still scheduled, however old.
DashboardMeetings == Best(Scheduled, ShortLimit, Earlier)
SummaryMeetings   == {m \in Scheduled : Day(meetings[m].at) = Day(now)}
-----------------------------------------------------------------------------
(* The briefing *)

\* Mutant: the status the engine writes is forgotten.
BriefingAlerts_pendingOnly == With({"PENDING"})

BriefingAlerts == With({"PENDING", "NEW"})
MeetingsToday  == {m \in DOMAIN meetings : Day(meetings[m].at) = Day(now)}
PendingTasks   == {c \in DOMAIN clients : clients[c].last <= Midnight - Days(30)}
TopLosers ==
    LET change(c) == clients[c].change
        worst == Best(DOMAIN clients, MoverLimit,
                      LAMBDA c, d : change(c) < change(d) \/ (change(c) = change(d) /\ c > d))
    IN {c \in worst : change(c) < 0}

\* Mutant: the severities are looked up in capitals only.
AlertUrgency_capitals(a) == 50

AlertUrgency(a) ==
    CASE alerts[a].severity = "critical" -> 100
      [] alerts[a].severity = "high" -> 80
      [] alerts[a].severity = "low" -> 30
      [] OTHER -> 50

\* A meeting that is over, or has no time, is zero hours away.
HoursUntil(m) == LET h == meetings[m].at - now IN IF meetings[m].timed /\ h > 0 THEN h ELSE 0
MeetingUrgency(m) == IF HoursUntil(m) <= 2 THEN 90 ELSE IF HoursUntil(m) <= 4 THEN 70 ELSE 50
TaskUrgency(c) == IF clients[c].last < Midnight - Days(30) THEN 100 ELSE 60

\* No item of a briefing carries an amount; alerts, tasks and losers carry no tier either.
Importance(tier) ==
    CASE tier = "DIAMOND" -> 60 [] tier = "PLATINUM" -> 51 [] tier = "GOLD" -> 42
      [] tier = "SILVER" -> 30 [] OTHER -> 36

ItemPriority(score) ==
    IF score >= 75 THEN "CRITICAL" ELSE IF score >= 50 THEN "HIGH" ELSE IF score >= 25 THEN "MEDIUM" ELSE "LOW"

Item(type, id, urgency, tier) ==
    LET score == Rounded(urgency * Importance(tier), 100)
    IN [type |-> type, id |-> id, score |-> score, priority |-> ItemPriority(score)]

BriefingItems ==
    {Item("ALERT", a, AlertUrgency(a), "none") : a \in BriefingAlerts}
    \cup {Item("MEETING", m, MeetingUrgency(m), meetings[m].tier) : m \in MeetingsToday}
    \cup {Item("TASK", c, TaskUrgency(c), "none") : c \in PendingTasks}
    \cup {Item("PORTFOLIO_ALERT", c, 50, "none") : c \in TopLosers}

\* The sort is stable: at equal scores the items keep the order they were added in.
TypeOrder(x) == CASE x.type = "ALERT" -> 1 [] x.type = "MEETING" -> 2 [] x.type = "TASK" -> 3 [] OTHER -> 4
Before(x, y) ==
    \/ x.score > y.score
    \/ x.score = y.score /\ TypeOrder(x) < TypeOrder(y)
    \/ x.score = y.score /\ x.type = y.type /\ (IF x.type = "ALERT" THEN Newer(x.id, y.id) ELSE x.id < y.id)

TopPriorities == Best(BriefingItems, TopLimit, Before)
-----------------------------------------------------------------------------
(* The ranked actions *)

Larger(d, e) == deals[d].amount > deals[e].amount \/ (deals[d].amount = deals[e].amount /\ d < e)

PipelineAging ==
    Best({d \in DOMAIN deals : /\ deals[d].status \notin {"PROPOSAL_SENT", "CLOSED_WON", "CLOSED_LOST", "LOST"}
                               /\ deals[d].updated < now - Days(7)}, ListLimit, Larger)
PendingProposals ==
    Best({d \in DOMAIN deals : deals[d].status = "PROPOSAL_SENT" /\ deals[d].updated < now - Days(5)},
         ListLimit, Larger)
FollowUps ==
    Best({m \in DOMAIN meetings :
            /\ meetings[m].kind = "follow_up" /\ meetings[m].status = "scheduled"
            /\ meetings[m].at \in Midnight - Days(7) .. Midnight + Days(2) - 1}, ListLimit, Earlier)
IdleCashClients ==
    Best({c \in DOMAIN clients : clients[c].pct > 15 /\ clients[c].cash > 1 /\ clients[c].last < now - Days(30)},
         ShortLimit, LAMBDA c, d : clients[c].cash > clients[d].cash \/ (clients[c].cash = clients[d].cash /\ c < d))

DaysOverdue(m) == (Midnight - meetings[m].at) \div 24

\* tierWeight and urgency * 0.35 and amountFactor * 0.25, in thousandths.
TierWeight(tier) ==
    CASE tier = "DIAMOND" -> 400 [] tier = "PLATINUM" -> 340 [] tier = "GOLD" -> 280
      [] tier = "SILVER" -> 200 [] OTHER -> 240

\* Mutant: what is older than 30 days is not urgent any more.
PriorityScore_expires(tier, days, amount) ==
    Rounded(6 * TierWeight(tier) + 70 * (IF days > 30 THEN 0 ELSE days) + 15 * AtMost(100, amount), 6)

PriorityScore(tier, days, amount) ==
    Rounded(6 * TierWeight(tier) + 70 * AtMost(30, days) + 15 * AtMost(100, amount), 6)

ActionPriority(score) ==
    IF score >= 800 THEN "P1_CRITICAL" ELSE IF score >= 600 THEN "P2_HIGH"
    ELSE IF score >= 400 THEN "P3_MEDIUM" ELSE "P4_LOW"

Scored(source, id, tier, days, amount) ==
    LET score == PriorityScore(tier, days, amount)
    IN [source |-> source, id |-> id, score |-> score, priority |-> ActionPriority(score)]

Age(t) == (now - t) \div 24

AllActions ==
    {Scored("pipeline", d, deals[d].tier, Age(deals[d].updated), deals[d].amount) : d \in PipelineAging}
    \cup {Scored("proposal", d, deals[d].tier, Age(deals[d].updated), deals[d].amount) : d \in PendingProposals}
    \cup {Scored("followup", m, meetings[m].tier, DaysOverdue(m), 0) : m \in FollowUps}
    \cup {Scored("idle_cash", c, clients[c].tier, Age(clients[c].last), clients[c].cash) : c \in IdleCashClients}
-----------------------------------------------------------------------------
(* The RM's own figures *)

MonthsOfYear == 1 .. Len(Months) - 1
ThisMonth == CHOOSE m \in MonthsOfYear : Day(now) \in Months[m] .. Months[m + 1] - 1

\* Mutant: a month ends when its last day begins.
Period_lastMidnight(months) == Days(Months[Min(months)]) .. Days(Months[Max(months) + 1] - 1)

\* A month or the whole year, from its first to its last moment.
Period(months) == Days(Months[Min(months)]) .. Days(Months[Max(months) + 1]) - 1

MeetingsHeld(kinds, months) ==
    {m \in DOMAIN meetings : meetings[m].at \in Period(months) /\ meetings[m].kind \in kinds}
Contacted(months)  == {c \in DOMAIN clients : clients[c].last \in Period(months)}
NewClients(months) == {c \in DOMAIN clients : clients[c].since \in Period(months)}

OfTier(tier) == {c \in DOMAIN clients : clients[c].tier = tier}

\* The settled purchases.
Sales(months) ==
    {c \in DOMAIN clients : LET t == clients[c].sale
                            IN t.type = "BUY" /\ t.status = "SETTLED" /\ t.at \in Period(months)}

\* Rates in tenths of a percent.  The AUM at the start of the period is taken to be 0.
Figures(months) ==
    LET n == Cardinality(DOMAIN clients)
        aum == [c \in DOMAIN clients |-> clients[c].aum]
        amount == [c \in DOMAIN clients |-> clients[c].sale.amount]
    IN [total_meetings |-> Cardinality(MeetingsHeld(Kinds, months)),
        total_calls |-> Cardinality(MeetingsHeld({"CALL"}, months)),
        client_visits |-> Cardinality(MeetingsHeld({"VISIT"}, months)),
        gross_sales |-> Total(amount, Sales(months)),
        total_clients |-> n,
        diamond_clients |-> Cardinality(OfTier("DIAMOND")),
        platinum_clients |-> Cardinality(OfTier("PLATINUM")),
        new_clients_added |-> Cardinality(NewClients(months)),
        client_retention_rate |-> IF n = 0 THEN 0 ELSE Rounded(1000 * Cardinality(Contacted(months)), n),
        aum_growth |-> Total(aum, DOMAIN clients)]
-----------------------------------------------------------------------------
(* The standing among the peers; percentiles in tenths of a percent *)

\* A dimension is the mean of two metrics, or of one with itself, times a weight in
\* tenths: those of two metrics weigh 1.0 and 1.2, those of one 0.8 and 1.1.
Dimensions == {[x |-> 1, y |-> 2, weight |-> 10], [x |-> 1, y |-> 2, weight |-> 12],
               [x |-> 1, y |-> 1, weight |-> 8], [x |-> 2, y |-> 2, weight |-> 11]}

PeersBelow(r, k) == Cardinality({p \in DOMAIN peers : peers[p][k] < peers[r][k]})

\* Mutant: the RM counts as a peer below.
Percentile_self(k) ==
    LET n == Cardinality(DOMAIN peers) IN
    IF n > 1 THEN Rounded(1000 * (PeersBelow(1, k) + 1), n - 1) ELSE 500

Percentile(k) ==
    LET n == Cardinality(DOMAIN peers) IN
    IF n > 1 THEN Rounded(1000 * PeersBelow(1, k), n - 1) ELSE 500

\* The figure in the i-th place from below.
Lower(k, p, q) == peers[p][k] < peers[q][k] \/ (peers[p][k] = peers[q][k] /\ p < q)
Lowest(i, k) == Best(DOMAIN peers, i, LAMBDA p, q : Lower(k, p, q))
Place(i, k) == CHOOSE p \in Lowest(i, k) : p \notin Lowest(i - 1, k)

\* Twice the median.
PeerMedian(k) ==
    LET n == Cardinality(DOMAIN peers)
        At(i) == peers[Place(i, k)][k]
    IN IF n % 2 = 0 THEN At(n \div 2) + At(n \div 2 + 1) ELSE 2 * At(n \div 2 + 1)

AboveMedianNote(d) == Percentile(d.x) + Percentile(d.y) >= 1000

\* Scores are in twentieths of a tenth of a percent, and cut off at 100 percent.  The RM's
\* own is made of the rounded percentiles, those of the peers are not.
Full == 20000
DimensionScore(d) == AtMost(Full, d.weight * (Percentile(d.x) + Percentile(d.y)))
PeerRank(d) ==
    LET n == Cardinality(DOMAIN peers)
        scaled(p) == AtMost((n - 1) * Full, 1000 * (d.weight * (PeersBelow(p, d.x) + PeersBelow(p, d.y))))
    IN 1 + Cardinality({p \in DOMAIN peers : n > 1 /\ scaled(p) > (n - 1) * DimensionScore(d)})
-----------------------------------------------------------------------------
(* The engagement card; scores in tenths *)

DaysOf(m) == DOMAIN visits \cap Months[m] .. Months[m + 1] - 1
LoginDays(m) == {d \in DaysOf(m) : visits[d].sessions > 0}
ActiveDays(m) == {d \in DaysOf(m) : visits[d].actions > 0}
InMonth == LoginDays(ThisMonth)

\* Day 0 is a Sunday.
WorkingDays(m) == {d \in Months[m] .. Months[m + 1] - 1 : d % 7 \notin {0, 6}}

\* Mutant: counted from yesterday.
LoginStreak_yesterday ==
    Max({n \in 0 .. Cardinality(InMonth) : Day(now) - n .. Day(now) - 1 \subseteq InMonth})

\* Backwards from today, over the days the month's sessions fell on.
LoginStreak ==
    Max({n \in 0 .. Cardinality(InMonth) : Day(now) - n + 1 .. Day(now) \subseteq InMonth})

Score(regularity, depth, usage) == 4 * regularity + 3 * depth + 3 * usage

\* getEngagementTrend: one query per day, whatever the month.
TrendLogin(d) == d \in DOMAIN visits /\ visits[d].sessions > 0

\* Actions count without a session, too: those of a call or a job that bears the RM's id.
DailyScore(d) ==
    IF d \notin DOMAIN visits THEN 0
    ELSE Score(IF TrendLogin(d) THEN 100 ELSE 0,
               IF TrendLogin(d) THEN AtMost(100, Rounded(100 * visits[d].minutes, 60 * visits[d].sessions)) ELSE 0,
               AtMost(100, 5 * visits[d].actions))

Sessions(m) == Total([d \in DOMAIN visits |-> visits[d].sessions], DaysOf(m))
Minutes(m)  == Total([d \in DOMAIN visits |-> visits[d].minutes], LoginDays(m))
Actions(m)  == Total([d \in DOMAIN visits |-> visits[d].actions], DaysOf(m))

Regularity(m) == IF WorkingDays(m) = {} THEN 0
                 ELSE AtMost(100, Rounded(100 * Cardinality(LoginDays(m)), Cardinality(WorkingDays(m))))
Depth(m) == IF Sessions(m) = 0 THEN 0 ELSE AtMost(100, Rounded(100 * Minutes(m), 60 * Sessions(m)))
Usage(m) == IF Actions(m) = 0 THEN 0 ELSE AtMost(100, Rounded(5 * Actions(m), Cardinality(ActiveDays(m))))

MonthScore(m) == IF m \in MonthsOfYear THEN Score(Regularity(m), Depth(m), Usage(m)) ELSE 0
Estimated(m) == Sessions(m) = 0 /\ Actions(m) = 0
Trend(m) ==
    LET difference == MonthScore(m) - MonthScore(m - 1)
    IN IF difference > 50 THEN "improving" ELSE IF difference < -50 THEN "declining" ELSE "stable"
-----------------------------------------------------------------------------
(* What happens to the data *)

ScreensInit == \E s \in Situations :
    /\ alerts = s.alerts /\ meetings = s.meetings /\ deals = s.deals
    /\ clients = s.clients /\ peers = s.peers /\ visits = s.visits /\ now = s.now

\* dashboard acknowledgeAlert, or the inbox's acknowledge and act: each overwrites the status.
CloseAlert(a) ==
    /\ \E s \in Closed : alerts' = [alerts EXCEPT ![a].status = s]
    /\ UNCHANGED <<meetings, deals, clients, peers, visits, now>>

\* A sync from the CRM brings news of a meeting, a deal or a client.
CompleteMeeting(m) ==
    /\ meetings[m].status = "scheduled"
    /\ meetings' = [meetings EXCEPT ![m].status = "completed"]
    /\ UNCHANGED <<alerts, deals, clients, peers, visits, now>>

SendProposal(d) ==
    /\ deals[d].status = "LEAD"
    /\ deals' = [deals EXCEPT ![d].status = "PROPOSAL_SENT", ![d].updated = now]
    /\ UNCHANGED <<alerts, meetings, clients, peers, visits, now>>

CallClient(c) ==
    /\ clients[c].last < Midnight
    /\ clients' = [clients EXCEPT ![c].last = now]
    /\ UNCHANGED <<alerts, meetings, deals, peers, visits, now>>

LogIn ==
    /\ Day(now) \in DOMAIN visits /\ visits[Day(now)].sessions = 0
    /\ visits' = [visits EXCEPT ![Day(now)] = [sessions |-> 1, minutes |-> 30, actions |-> 2]]
    /\ UNCHANGED <<alerts, meetings, deals, clients, peers, now>>

PassTime ==
    /\ \E h \in Strides : now + h <= LastHour /\ now' = now + h
    /\ UNCHANGED <<alerts, meetings, deals, clients, peers, visits>>

ScreensNext ==
    \/ \E a \in DOMAIN alerts : CloseAlert(a)
    \/ \E m \in DOMAIN meetings : CompleteMeeting(m)
    \/ \E d \in DOMAIN deals : SendProposal(d)
    \/ \E c \in DOMAIN clients : CallClient(c)
    \/ LogIn
    \/ PassTime

\* The collections hold documents of the types above at all times.
ScreensTypeOK == WellFormed([alerts |-> alerts, meetings |-> meetings, deals |-> deals, clients |-> clients,
                             peers |-> peers, visits |-> visits, now |-> now])

ScreensSpec == ScreensInit /\ [][ScreensNext]_svars
-----------------------------------------------------------------------------
\* The screens choose their alerts by different statuses, sorts and limits, and yet an
\* open alert is somewhere on the dashboard or in the briefing, unless as many newer
\* ones as the list holds are in front of it, and a closed one is nowhere; the numbers
\* shown go with the lists; an alert of high priority is left out of the daily actions
\* only for others of high priority or of none.
AlertsOnScreens == \A a \in DOMAIN alerts :
    /\ Cardinality(DashboardAlerts \cup BriefingAlerts) <= ActivityAlerts
    /\ Cardinality(DashboardAlerts) = AtMost(ListLimit, SummaryAlerts)
    /\ IF a \in With(Open)
       THEN a \in DashboardAlerts \cup BriefingAlerts
            \/ Cardinality({b \in DashboardAlerts : Newer(b, a)}) = ListLimit
       ELSE a \notin DashboardAlerts \cup BriefingAlerts \cup DailyActions
    /\ a \in With({"pending"}) \ DailyActions /\ alerts[a].priority = "high" =>
          /\ Cardinality(DailyActions) = ShortLimit
          /\ \A b \in DailyActions : alerts[b].priority \in {"high", "none"}

\* However much there is to do, a critical alert of the briefing is among the top
\* priorities, unless it gives way to other critical alerts and to meetings of the day
\* with clients of the three best tiers that are over, untimed or within four hours.
BriefingKeepsCritical == \A x \in BriefingItems \ TopPriorities :
    x.type = "ALERT" /\ alerts[x.id].severity = "critical" =>
        \A y \in TopPriorities :
            \/ y.type = "ALERT" /\ alerts[y.id].severity = "critical"
            \/ /\ y.type = "MEETING" /\ HoursUntil(y.id) <= 4
               /\ meetings[y.id].tier \in {"DIAMOND", "PLATINUM", "GOLD"}

\* While only time passes, what waits for the RM moves up: no action that stays on the
\* list scores less than before.
AgeingNeverDemotes ==
    [][now' > now => \A x \in AllActions, y \in AllActions' :
          x.source = y.source /\ x.id = y.id => y.score >= x.score]_svars

\* The coaching note, the medians and the rank of a dimension come from counts over the
\* same figures and agree: who is above the median in all its metrics is told so, and
\* who is told so is not below it in all; the percentile is one; and the rank lies
\* behind those who are ahead in all metrics, if the score is not cut off, and never
\* behind one who is below in all.  (Rounding may put the RM behind herself.)
StandingAgrees ==
    LET n == Cardinality(DOMAIN peers) IN
    /\ \A k \in Metrics : Percentile(k) \in 0 .. 1000
    /\ \A d \in Dimensions : LET of == {d.x, d.y} IN
          /\ (\A k \in of : 2 * peers[1][k] > PeerMedian(k)) => AboveMedianNote(d)
          /\ AboveMedianNote(d) /\ n > 1 => \E k \in of : 2 * peers[1][k] >= PeerMedian(k)
          /\ DimensionScore(d) = Full
             \/ PeerRank(d) > Cardinality({p \in DOMAIN peers : \A k \in of : peers[p][k] > peers[1][k]})
          /\ PeerRank(d) <= 1 + Cardinality({p \in DOMAIN peers : \E k \in of : peers[p][k] >= peers[1][k]})

\* The engagement card, made of the month's documents, agrees with the trend chart, made
\* of queries day by day: the streak is the run of login days at the end of the chart, as
\* far as it lies in this month, and each of them scores at least 40; the card calls
\* itself estimated, and shows the score 0, just in a month whose chart is flat; and a
\* month that follows such a one with a login every fifth working day improves.
StreakMatchesTrend ==
    LET first == Months[ThisMonth]
        from == IF Day(now) - LoginStreak + 1 > first THEN Day(now) - LoginStreak ELSE first - 1
    IN
    /\ \A d \in Day(now) - LoginStreak + 1 .. Day(now) : TrendLogin(d) /\ DailyScore(d) >= 400
    /\ from >= first => ~TrendLogin(from)
    /\ \A m \in MonthsOfYear :
          /\ Estimated(m) <=> \A d \in DaysOf(m) : DailyScore(d) = 0
          /\ Estimated(m) => MonthScore(m) = 0
          /\ MonthScore(m - 1) = 0 /\ Regularity(m) >= 20 => Trend(m) = "improving"

\* No meeting, sale, new client or contact falls between two months or into both: the figures
\* of the months add up to those of the year, but for the growth, which is the whole AUM
\* in any period.
PeriodsAddUp ==
    LET year == Figures(MonthsOfYear)
        Sum(of(_)) == Total([m \in MonthsOfYear |-> of(m)], MonthsOfYear)
    IN
    /\ year.total_meetings = Sum(LAMBDA m : Figures({m}).total_meetings)
    /\ year.total_meetings >= year.total_calls + year.client_visits
    /\ year.gross_sales = Sum(LAMBDA m : Figures({m}).gross_sales)
    /\ year.new_clients_added = Sum(LAMBDA m : Figures({m}).new_clients_added)
    /\ Contacted(MonthsOfYear) = UNION {Contacted({m}) : m \in MonthsOfYear}
    /\ \A m \in MonthsOfYear : /\ Figures({m}).client_retention_rate <= year.client_retention_rate
                               /\ Figures({m}).aum_growth = year.aum_growth
=============================================================================
