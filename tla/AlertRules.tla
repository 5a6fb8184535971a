----------------------------- MODULE AlertRules -----------------------------
(***************************************************************************)
(* The alert rules of core-api: which clients each of them finds due at a  *)
(* moment, and what comes of it when evaluateRule, with its cooldown per   *)
(* rule and client, is run every day.                                      *)
(*                                                                         *)
(* Time is counted in half days: even is midnight, odd is noon.  Day 0 is  *)
(* the 1 January of year 0.  Money is counted in units of 10,000 rupees.   *)
(* AlertEngine has the steps, races and failures of one evaluation; here   *)
(* it is one step without failures.                                        *)
(***************************************************************************)
EXTENDS Integers, Sequences, SequencesExt, FiniteSets, FiniteSetsExt

CONSTANTS
    Cases,          \* the clients' data a run looks at, and when it begins
    Horizon,        \* bound on the half days a run lasts
    LeapYear,       \* the year of 0 .. 3 that is a leap year
    DividendLimit   \* 10 in the code

ASSUME RulesAssumption ==
    /\ Horizon \in Nat /\ DividendLimit \in Nat /\ LeapYear \in 0 .. 3

\* Half days in a hundred years: from 1901 to 2099 every fourth year is a leap year.
Century == 73050

\* What the mirror holds of a client, as far as the calendar goes.
WellDated(b) ==
    /\ b.dob \in 0 .. 365 /\ b.onboarded \in -Century .. Century
    /\ IsFiniteSet(b.meetings) /\ \A m \in b.meetings : m.at \in Int

ASSUME CasesAssumption == \A x \in Cases :
    /\ x.start \in -Century .. Century /\ x.start + Horizon <= Century
    /\ \A c \in DOMAIN x.book : WellDated(x.book[c])

VARIABLES
    book,       \* book[c]: what the CRM mirror holds of client c
    now,
    start,      \* history: when the run began
    cool,       \* cool[r, c]: when the cooldown key expires
    raised,     \* history: raised[r, c]: when the latest alert was raised
    done        \* the rules have been evaluated today

rvars == <<book, now, start, cool, raised, done>>

Never == -99999
Clients == DOMAIN book

\* In hours; poc_* are the rules of evaluateProofOfConcept.
CooldownHours == [
    birthday |-> 24, dormant |-> 168, idleCash |-> 168, maturity |-> 48, crossSell |-> 168,
    highCash |-> 72, concentration |-> 72, rebalancing |-> 168, highTrading |-> 24,
    engagementDrop |-> 72, taxLoss |-> 168, dividend |-> 24, cashflow |-> 168,
    drift |-> 168, beneficiary |-> 720, goals |-> 720,
    poc_birthday |-> 168, poc_idleCash |-> 72, poc_dormant |-> 168]

Rules == DOMAIN CooldownHours
-----------------------------------------------------------------------------
(* The calendar; a date is its day of a leap year, 59 being 29 February *)

Leap(y)      == y % 4 = LeapYear
YearStart(y) == 365 * y + (y + 3 - LeapYear) \div 4
DayOf(y, md) == YearStart(y) + (IF ~Leap(y) /\ md > 59 THEN md - 1 ELSE md)
YearOf(t)    == LET d == t \div 2 IN
    CHOOSE y \in d \div 365 - 1 .. d \div 365 + 1 : YearStart(y) <= d /\ d < YearStart(y + 1)
DateOf(t)    == LET d == t \div 2 - YearStart(YearOf(t))
                IN IF ~Leap(YearOf(t)) /\ d >= 59 THEN d + 1 ELSE d

Days(n)        == 2 * n
YearsAgo(t, n) == 2 * DayOf(YearOf(t) - n, DateOf(t)) + (t % 2)
DaysUntil(x, t) == (x - t + 1) \div 2

\* Mutant: only this year's occurrence is looked at.
NextOccurrence_thisYear(md, t) == 2 * DayOf(YearOf(t), md)

\* This year's occurrence, unless its midnight has passed.
NextOccurrence(md, t) ==
    LET this == 2 * DayOf(YearOf(t), md) IN
    IF this >= t THEN this ELSE 2 * DayOf(YearOf(t) + 1, md)

March31 == 90
-----------------------------------------------------------------------------
(* The rules: is client c due at t? *)

BirthdayDue(c, t) == DaysUntil(NextOccurrence(book[c].dob, t), t) \in 0 .. 3

DormantDue(c, t) == book[c].last # Never /\ book[c].last < t - Days(90)

IdleCashDue(c, t) ==
    /\ book[c].pct > 30 /\ book[c].cash > 10
    /\ ~\E x \in book[c].txns : x.at >= t - Days(30) /\ x.status = "Executed"

CashflowDue(c, t) ==
    /\ book[c].pct > 20
    /\ \E x \in book[c].txns : x.type \in {"SELL", "REDEMPTION"} /\ x.at >= t - Days(30)

HighCashDue(c, t) == book[c].pct > 30 /\ book[c].cash >= 20

\* $unwind drops a portfolio without holdings.
CrossSellDue(c, t) ==
    /\ book[c].aum >= 500
    /\ Cardinality({h.class : h \in book[c].holdings}) \in 1 .. 2

RebalancingDue(c, t) == book[c].drawdown > 10

HighTradingDue(c, t) ==
    Cardinality({x \in book[c].txns : x.at >= t - Days(7) /\ x.status = "Executed"}) > 5

Meetings(c, from, to) == Cardinality({m \in book[c].meetings : m.at \in from .. to})

EngagementDropDue(c, t) ==
    LET curr == Meetings(c, t - Days(14), t)
        prev == Meetings(c, t - Days(28), t - Days(14) - 1)
    IN prev > 0 /\ (prev - curr) * 100 > 30 * prev

TaxLossDue(c, t) ==
    /\ DaysUntil(NextOccurrence(March31, t), t) <= 60
    /\ \E h \in book[c].holdings : h.class = "EQ" /\ h.pnl < -5

Off(part, target, whole) == LET d == 100 * part - target * whole IN IF d < 0 THEN -d ELSE d

DriftDue(c, t) == LET whole == IF book[c].aum > 1 THEN book[c].aum ELSE 1 IN
    \/ Off(book[c].eq, 60, whole) > 8 * whole
    \/ Off(book[c].fi, 30, whole) > 8 * whole
    \/ book[c].pct \notin 2 .. 18

BeneficiaryDue(c, t) ==
    book[c].aum >= 500 /\ book[c].onboarded <= YearsAgo(t, 3) /\ book[c].kyc

\* Tenure in years of 365.25 days, rounded.
Tenure(c, t) == (4 * (t - book[c].onboarded) + 1461) \div 2922
MilestoneYears == {2, 3, 5, 10}
MinAum(y) == CASE y = 2 -> 50 [] y = 3 -> 100 [] y = 5 -> 250 [] y = 10 -> 1000

\* The latest milestone reached.
GoalsDue(c, t) ==
    LET reached == {y \in MilestoneYears : y <= Tenure(c, t)} IN
    /\ book[c].onboarded <= YearsAgo(t, 2)
    /\ reached # {}
    /\ book[c].aum * 100 < 70 * MinAum(Max(reached))

PocIdleCashDue(c, t) == book[c].last # Never /\ book[c].last < t - Days(30) /\ book[c].aum >= 10

\* The query asks for holdings.maturity_date: no mirrored holding has one, since the
\* Portfolio schema does not name it and Mongoose stores what its schemas name.
MaturityDue(c, t) == FALSE

\* The largest stock, or the largest sector.
ConcentrationDue(c, t) == book[c].stock > 25 \/ book[c].sector > 40

\* Of all the RM's clients' equity holdings, the most valuable.
DividendDue(c, t) ==
    LET due == {e \in UNION {{x} \X book[x].holdings : x \in Clients} :
                    e[2].class = "EQ" /\ e[2].value >= 20}
        all == SetToSortSeq(due, LAMBDA a, b : a[2].value > b[2].value)
    IN \E i \in DOMAIN all : i <= DividendLimit /\ all[i][1] = c

Due(r, c, t) ==
    CASE r \in {"birthday", "poc_birthday"} -> BirthdayDue(c, t)
      [] r \in {"dormant", "poc_dormant"} -> DormantDue(c, t)
      [] r = "idleCash" -> IdleCashDue(c, t)
      [] r = "poc_idleCash" -> PocIdleCashDue(c, t)
      [] r = "cashflow" -> CashflowDue(c, t)
      [] r = "highCash" -> HighCashDue(c, t)
      [] r = "crossSell" -> CrossSellDue(c, t)
      [] r = "rebalancing" -> RebalancingDue(c, t)
      [] r = "highTrading" -> HighTradingDue(c, t)
      [] r = "engagementDrop" -> EngagementDropDue(c, t)
      [] r = "taxLoss" -> TaxLossDue(c, t)
      [] r = "drift" -> DriftDue(c, t)
      [] r = "beneficiary" -> BeneficiaryDue(c, t)
      [] r = "goals" -> GoalsDue(c, t)
      [] r = "maturity" -> MaturityDue(c, t)
      [] r = "concentration" -> ConcentrationDue(c, t)
      [] r = "dividend" -> DividendDue(c, t)

-----------------------------------------------------------------------------
(* The daily evaluations *)

RulesInit ==
    /\ \E x \in Cases : book = x.book /\ start = x.start
    /\ now = start
    /\ cool = [k \in Rules \X Clients |-> Never]
    /\ raised = cool
    /\ done = FALSE

Found == {k \in Rules \X Clients : cool[k] <= now /\ Due(k[1], k[2], now)}

\* Mutant: the key outlasts the window of the rule.
EvaluateAll_longCooldown == LET found == Found IN
    /\ ~done
    /\ done' = TRUE
    /\ cool' = [k \in Rules \X Clients |-> IF k \in found THEN now + Days(14) ELSE cool[k]]
    /\ raised' = [k \in Rules \X Clients |-> IF k \in found THEN now ELSE raised[k]]
    /\ UNCHANGED <<book, now, start>>

\* evaluateRule for every rule: the key is per client, so of a client with more than one
\* candidate the first gets the alert and the others find the key.
EvaluateAll == LET found == Found IN
    /\ ~done
    /\ done' = TRUE
    /\ cool' = [k \in Rules \X Clients |->
                  IF k \in found THEN now + CooldownHours[k[1]] \div 12 ELSE cool[k]]
    /\ raised' = [k \in Rules \X Clients |-> IF k \in found THEN now ELSE raised[k]]
    /\ UNCHANGED <<book, now, start>>

\* The rules are evaluated once a day, at midnight or at noon.
Pass ==
    /\ now < start + Horizon
    /\ now % 2 = 1 => done
    /\ now' = now + 1
    /\ done' = (done /\ now % 2 = 0)
    /\ UNCHANGED <<book, start, cool, raised>>

RulesNext == EvaluateAll \/ Pass

RulesSpec == RulesInit /\ [][RulesNext]_rvars
-----------------------------------------------------------------------------
IsDate(d, md) == d = DayOf(YearOf(2 * d), md)

\* Evaluated once a day, at whatever hour, a rule misses nothing it watches for, though a
\* key of an earlier alert may hold it back: when the midnight of a birthday comes, the
\* RM has heard of it in the day and a half before; and of a client whom nobody meets
\* any more the RM hears again between the twelfth and the sixteenth day.
AnnouncedInTime == \A c \in Clients :
    /\ now >= start + Days(2) /\ now % 2 = 0 /\ IsDate(now \div 2, book[c].dob)
          => raised[<<"birthday", c>>] >= now - 3
    /\ \A m \in book[c].meetings :
          /\ start <= m.at + Days(15) /\ now > m.at + Days(16)
          /\ \A o \in book[c].meetings : o.at <= m.at
          => raised[<<"engagementDrop", c>>] > m.at + Days(12)

\* The windows of the rules are those a calendar gives, across the end of a year and for
\* 29 February too: a birthday on one of the next three days is due, and none that is
\* neither today nor on one of them; 31 March, for the tax rule, is one of the next 60
\* days or today; three years are three anniversaries, but that on a 29 February those of
\* the day after, 1 March, are counted already.  Of today's birthday nothing is said:
\* the rule finds it at midnight only, and later looks for next year's.
FoundByTheCalendar == \A c \in Clients :
    LET today == now \div 2 IN
    /\ (\E d \in today + 1 .. today + 3 : IsDate(d, book[c].dob)) => BirthdayDue(c, now)
    /\ BirthdayDue(c, now) => \E d \in today .. today + 3 : IsDate(d, book[c].dob)
    /\ TaxLossDue(c, now) => \E d \in today .. today + 60 : IsDate(d, March31)
    /\ BeneficiaryDue(c, now) =>
          Cardinality({d \in book[c].onboarded \div 2 + 1 .. today + (IF DateOf(now) = 59 THEN 1 ELSE 0) :
                          IsDate(d, DateOf(book[c].onboarded))}) >= 3
=============================================================================
