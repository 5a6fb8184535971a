---------------------------- MODULE MCAlertRules ----------------------------
(* Instances of AlertRules for TLC: clients whose data lie on the edges of the rules. *)
EXTENDS AlertRules

CONSTANTS c1, c2

Plain == [dob |-> 200, onboarded |-> 0, last |-> Never, kyc |-> TRUE, aum |-> 40, cash |-> 4,
          pct |-> 10, eq |-> 24, fi |-> 12, drawdown |-> 0, stock |-> 0, sector |-> 0,
          holdings |-> {}, txns |-> {}, meetings |-> {}]

Holding(i, v, p) == [id |-> i, class |-> "EQ", value |-> v, pnl |-> p]
One(s, f) == [start |-> s, book |-> [c \in {c1} |-> f]]

\* Around the end of a year, the end of February and of March, in plain and leap years.
Dated == {One(2 * s, [Plain EXCEPT !.dob = d, !.holdings = {Holding(1, 4, p)}]) :
            s \in {360, 54, 365 + 54}, d \in {0, 2, 59, 60, 364, 365}, p \in {-5}}
   \cup {One(2 * s, [Plain EXCEPT !.dob = 10, !.holdings = {Holding(1, 4, -6)}]) :
            s \in {26, 86, 365 + 26, 365 + 87}}

Orders == {One(100, [Plain EXCEPT !.pct = p, !.cash = 20,
                        !.txns = {[type |-> ty, status |-> st, at |-> a], [type |-> "BUY", status |-> "Executed", at |-> b]}]) :
             p \in {21, 31}, ty \in {"SELL", "BUY"}, st \in {"Executed", "Pending"},
             a \in {38, 42}, b \in {39, 43}}

Met == {One(100, [Plain EXCEPT !.meetings = {[id |-> 1, at |-> 70], [id |-> 2, at |-> a]}]) : a \in 71 .. 76}

Tenures == {One(100, [Plain EXCEPT !.onboarded = 100 - o, !.aum = a, !.eq = (60 * a) \div 100, !.fi = (30 * a) \div 100]) :
              o \in {1450, 1820, 2180, 2550, 6570}, a \in {34, 69, 500}}

\* Around a third 1 March, in a leap year.
Nominations == {One(842, [Plain EXCEPT !.onboarded = o, !.aum = 500, !.eq = 300, !.fi = 150]) : o \in {-1344, -1342, -1340}}

\* Two clients; one with everything else there is to report.
Mixed == {[start |-> 200, book |-> [c \in {c1, c2} |->
             IF c = c1 THEN [Plain EXCEPT !.aum = 600, !.onboarded = 200 - 2190, !.last = 20, !.stock = 26,
                                          !.sector = 41, !.drawdown = 11, !.holdings = {Holding(1, 20, 0)},
                                          !.txns = {[type |-> "BUY", status |-> "Executed", at |-> t] : t \in 190 .. 195}]
             ELSE [Plain EXCEPT !.holdings = {Holding(2, 21, 0)}]]]}

MCCases == Dated \cup Orders \cup Met \cup Tenures \cup Nominations \cup Mixed
=============================================================================
