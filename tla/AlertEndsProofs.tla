-------------------------- MODULE AlertEndsProofs ---------------------------
(***************************************************************************)
(* Proofs about the two ends of an alert's way, for every value of their   *)
(* constants.  AlertRules, where it is found: the calendar of the rules    *)
(* agrees with the days it counts, and a whole day gone by has seen an     *)
(* evaluation (EvaluatedDaily), whose key never hides what it should have  *)
(* announced (CoolFounded).  AlertDelivery, where it is shown: what the    *)
(* consumer running now has passed (Passed) only grows until it dies: that *)
(* bounds the calls, and orders what a socket is shown.                    *)
(***************************************************************************)
EXTENDS AlertRules, AlertDelivery, FiniteSetTheorems, TLAPS

Dates == 0 .. 365

\* The day of year y that a date falls on: in a common year 29 February falls on 1 March.
Shift(y, md) == IF ~Leap(y) /\ md > 59 THEN md - 1 ELSE md

\* A leap year is a day longer.
LEMMA YearsLast ==
    ASSUME NEW y \in Int
    PROVE  /\ YearStart(y) \in Int
           /\ Leap(y) => YearStart(y + 1) = YearStart(y) + 366
           /\ ~Leap(y) => YearStart(y + 1) = YearStart(y) + 365
<1>1. PICK q \in Int, r \in 0 .. 3 : y = 4 * q + r
  <2>1. y \div 4 \in Int
    OBVIOUS
  <2>2. y - 4 * (y \div 4) \in 0 .. 3
    OBVIOUS
  <2> QED
    BY <2>1, <2>2
<1>2. y % 4 = r
  BY <1>1
<1>3. LeapYear \in 0 .. 3
  BY RulesAssumption
<1>4. (y + 3 - LeapYear) \div 4 = (IF r <= LeapYear THEN q ELSE q + 1)
  BY <1>1, <1>3
<1>5. (y + 1 + 3 - LeapYear) \div 4 = (IF r < LeapYear THEN q ELSE q + 1)
  BY <1>1, <1>3
<1> QED
  BY <1>1, <1>2, <1>3, <1>4, <1>5 DEF YearStart, Leap

\* Years follow one another.
LEMMA YearsGrow ==
    ASSUME NEW y \in Int, NEW z \in Int, y <= z
    PROVE  YearStart(y) + 365 * (z - y) <= YearStart(z) /\ YearStart(z) <= YearStart(y) + 366 * (z - y)
<1> DEFINE a == (y + 3 - LeapYear) \div 4
           b == (z + 3 - LeapYear) \div 4
<1>1. LeapYear \in Int /\ y + 3 - LeapYear \in Int /\ z + 3 - LeapYear \in Int
  BY RulesAssumption
<1>2. a \in Int /\ 4 * a <= y + 3 - LeapYear /\ y + 3 - LeapYear < 4 * a + 4
  BY <1>1
<1>3. b \in Int /\ 4 * b <= z + 3 - LeapYear /\ z + 3 - LeapYear < 4 * b + 4
  BY <1>1
<1>4. YearStart(y) = 365 * y + a /\ YearStart(z) = 365 * z + b
  BY DEF YearStart
<1> HIDE DEF a, b
<1>5. a <= b /\ b <= a + (z - y)
  BY <1>1, <1>2, <1>3
<1> QED
  BY <1>2, <1>3, <1>4, <1>5

\* The half days the lemmas about the calendar reach: two hundred years each way.
Near(t) == t \in Int /\ -146100 <= t /\ t <= 146100

\* A year of the calendar is found, and it is the only one.
LEMMA YearOfIs ==
    ASSUME NEW t, Near(t)
    PROVE  /\ YearOf(t) \in Int /\ t \div 2 \in Int
           /\ YearStart(YearOf(t)) <= t \div 2 /\ t \div 2 < YearStart(YearOf(t) + 1)
           /\ \A y \in Int : YearStart(y) <= t \div 2 /\ t \div 2 < YearStart(y + 1) => y = YearOf(t)
<1> DEFINE d == t \div 2
           x == d \div 365
           In(y) == YearStart(y) <= d /\ d < YearStart(y + 1)
<1>1. t \in Int /\ -146100 <= t /\ t <= 146100
  BY DEF Near
<1>2. d \in Int /\ -73050 <= d /\ d <= 73050
  BY <1>1
<1>3. x \in Int /\ 365 * x <= d /\ d < 365 * x + 365
  BY <1>2
<1>4. -201 <= x /\ x <= 200
  BY <1>2, <1>3
<1>5. YearOf(t) = CHOOSE y \in x - 1 .. x + 1 : In(y)
  BY DEF YearOf
<1> HIDE DEF x
<1>6. YearStart(x - 1) <= d /\ d < YearStart(x + 2)
  <2>1. LeapYear \in 0 .. 3
    BY RulesAssumption
  <2> DEFINE a == x - 1 + 3 - LeapYear
             b == x + 2 + 3 - LeapYear
  <2>3. a \in Int /\ a <= 203 /\ b \in Int /\ -200 <= b
    BY <1>3, <1>4, <2>1
  <2> HIDE DEF a, b
  <2>4. a \div 4 <= 51 /\ -51 <= b \div 4
    BY <2>3
  <2>2. (x - 1 + 3 - LeapYear) \div 4 <= 51 /\ -51 <= (x + 2 + 3 - LeapYear) \div 4
    BY <2>4 DEF a, b
  <2> HIDE DEF d
  <2> QED
    BY <1>2, <1>3, <2>1, <2>2 DEF YearStart
<1> HIDE DEF d
<1>7. \E y \in x - 1 .. x + 1 : In(y)
  <2>1. x - 1 + 1 = x /\ x + 1 + 1 = x + 2 /\ x \in Int
    BY <1>3
  <2>2. YearStart(x) \in Int /\ YearStart(x + 1) \in Int
    BY <1>3, YearsLast
  <2>3. In(x - 1) \/ In(x) \/ In(x + 1)
    BY <2>1, <2>2, <1>2, <1>6
  <2> QED
    BY <2>1, <2>3
<1>8. YearOf(t) \in x - 1 .. x + 1 /\ In(YearOf(t))
  BY <1>5, <1>7
<1>9. ASSUME NEW y \in Int, NEW z \in Int, In(y), In(z), y < z
      PROVE  FALSE
  <2>1. YearStart(y + 1) <= YearStart(z) /\ YearStart(y + 1) \in Int /\ YearStart(z) \in Int
    <3>1. y + 1 \in Int /\ y + 1 <= z
      BY <1>9
    <3>2. YearStart(y + 1) \in Int /\ YearStart(z) \in Int
      BY <3>1, YearsLast
    <3>3. YearStart(y + 1) + 365 * (z - (y + 1)) <= YearStart(z)
      BY <3>1, YearsGrow
    <3> QED
      BY <3>1, <3>2, <3>3
  <2> QED
    BY <1>9, <1>2, <2>1
<1>10. YearOf(t) \in Int
  BY <1>3, <1>8
<1>11. ASSUME NEW y \in Int, In(y)
       PROVE  y = YearOf(t)
  BY <1>8, <1>9, <1>10, <1>11
<1> QED
  BY <1>2, <1>8, <1>10, <1>11 DEF d

\* A date falls within its year.
LEMMA DatesFall ==
    ASSUME NEW y \in Int, NEW md \in Dates
    PROVE  /\ DayOf(y, md) \in Int /\ YearStart(y) \in Int
           /\ YearStart(y) <= DayOf(y, md) /\ DayOf(y, md) < YearStart(y + 1)
           /\ DayOf(y, md) = YearStart(y) + Shift(y, md)
           /\ Shift(y, md) \in Int
BY YearsLast DEF DayOf, Shift, Dates

\* The date of a day is the one that falls on it.
LEMMA DateOfIs ==
    ASSUME NEW t, Near(t)
    PROVE  /\ DateOf(t) \in Dates
           /\ DayOf(YearOf(t), DateOf(t)) = t \div 2
           /\ DateOf(t) = 59 => Leap(YearOf(t))
<1> DEFINE y == YearOf(t)
           d == t \div 2 - YearStart(y)
<1>1. y \in Int /\ t \div 2 \in Int /\ YearStart(y) <= t \div 2 /\ t \div 2 < YearStart(y + 1)
  BY YearOfIs
<1>2. DateOf(t) = IF ~Leap(y) /\ d >= 59 THEN d + 1 ELSE d
  BY DEF DateOf
<1> HIDE DEF y
<1>3. YearStart(y) \in Int /\ (Leap(y) => d \in 0 .. 365) /\ (~Leap(y) => d \in 0 .. 364)
  <2>1. /\ YearStart(y) \in Int
        /\ Leap(y) => YearStart(y + 1) = YearStart(y) + 366
        /\ ~Leap(y) => YearStart(y + 1) = YearStart(y) + 365
    BY <1>1, YearsLast
  <2> QED
    BY <1>1, <2>1
<1>4. d \in Int /\ YearStart(y) + d = t \div 2
  BY <1>1, <1>3
<1> HIDE DEF d
<1>5. DateOf(t) \in Dates /\ (DateOf(t) = 59 => Leap(y))
  BY <1>2, <1>3, <1>4 DEF Dates
<1>6. DayOf(y, DateOf(t)) = t \div 2
  BY <1>2, <1>3, <1>4 DEF DayOf
<1> QED
  BY <1>5, <1>6 DEF y

\* A day is the date of its own year.
LEMMA DateIs ==
    ASSUME NEW d \in Int, Near(2 * d), NEW md \in Dates
    PROVE  /\ \A y \in Int : d = DayOf(y, md) => IsDate(d, md)
           /\ IsDate(d, md) => YearOf(2 * d) \in Int /\ d = DayOf(YearOf(2 * d), md)
<1>1. (2 * d) \div 2 = d
  OBVIOUS
<1>2. ASSUME NEW y \in Int, d = DayOf(y, md)
      PROVE  IsDate(d, md)
  <2>1. YearStart(y) <= d /\ d < YearStart(y + 1)
    BY <1>2, DatesFall
  <2>2. y = YearOf(2 * d)
    BY <1>1, <2>1, YearOfIs
  <2> QED
    BY <1>2, <2>2 DEF IsDate
<1> QED
  BY <1>1, <1>2, YearOfIs DEF IsDate

\* The years of two days less than a year apart.
LEMMA NextYears ==
    ASSUME NEW y \in Int, NEW z \in Int, NEW a \in Int, NEW b \in Int, a <= b, b < a + 365,
           YearStart(y) <= a, a < YearStart(y + 1), YearStart(z) <= b, b < YearStart(z + 1)
    PROVE  z = y \/ z = y + 1
<1>0. /\ YearStart(y) \in Int /\ YearStart(z) \in Int
      /\ YearStart(y + 1) \in Int /\ YearStart(z + 1) \in Int
  BY YearsLast
<1>1. ASSUME z < y
      PROVE  FALSE
  <2>1. z + 1 \in Int /\ z + 1 <= y
    BY <1>1
  <2>2. YearStart(z + 1) + 365 * (y - (z + 1)) <= YearStart(y)
    BY <2>1, YearsGrow
  <2> QED
    BY <1>0, <2>1, <2>2
<1>2. ASSUME z > y + 1
      PROVE  FALSE
  <2>1. y + 1 \in Int /\ y + 1 <= z
    BY <1>2
  <2>2. YearStart(y + 1) + 365 * (z - (y + 1)) <= YearStart(z)
    BY <2>1, YearsGrow
  <2> QED
    BY <1>0, <1>2, <2>1, <2>2
<1> QED
  BY <1>1, <1>2

\* The next occurrence of a date is the first day of that date whose midnight is still
\* to come; the days left until then are counted from today.
LEMMA NextIs ==
    ASSUME NEW t \in Int, -Century <= t, t <= Century, NEW md \in Dates, NEW n \in Nat, n <= 300
    PROVE  /\ DaysUntil(NextOccurrence(md, t), t) \in Nat
           /\ DaysUntil(NextOccurrence(md, t), t) <= n <=>
                 \E d \in (t + 1) \div 2 .. (t \div 2) + n : IsDate(d, md)
<1> DEFINE D == t \div 2
           F == (t + 1) \div 2
           Y == YearOf(t)
           this == DayOf(Y, md)
           next == DayOf(Y + 1, md)
           e == IF 2 * this >= t THEN this ELSE next
<1>1. -73050 <= t /\ t <= 73050
  BY SMT DEF Century
<1>2. Near(t)
  BY <1>1 DEF Near
<1>3. D \in Int /\ F \in Int /\ ((t = 2 * D /\ F = D) \/ (t = 2 * D + 1 /\ F = D + 1))
  <2>1. D \in Int /\ 2 * D <= t /\ t < 2 * D + 2
    OBVIOUS
  <2>2. F \in Int /\ 2 * F <= t + 1 /\ t + 1 < 2 * F + 2
    OBVIOUS
  <2> HIDE DEF D, F, Y
  <2>3. t = 2 * D \/ t = 2 * D + 1
    BY ONLY <2>1, t \in Int
  <2>4. CASE t = 2 * D
    <3>1. D \in Int /\ F \in Int /\ 2 * F <= 2 * D + 1 /\ 2 * D + 1 < 2 * F + 2
      BY <2>1, <2>2, <2>4
    <3>2. F <= D /\ D < F + 1
      BY ONLY <3>1
    <3>3. F = D
      BY ONLY <3>1, <3>2
    <3> QED
      BY ONLY <2>1, <2>2, <2>4, <3>3
  <2>5. CASE t = 2 * D + 1
    BY ONLY <2>1, <2>2, <2>5
  <2> QED
    BY <2>3, <2>4, <2>5
<1>4. Y \in Int /\ YearStart(Y) <= D /\ D < YearStart(Y + 1)
  BY <1>2, YearOfIs
<1>5. NextOccurrence(md, t) = 2 * e
  BY DEF NextOccurrence
<1> HIDE DEF D, F, Y
<1>6. /\ this \in Int /\ YearStart(Y) <= this /\ this < YearStart(Y + 1)
      /\ next \in Int /\ YearStart(Y + 1) <= next /\ next < YearStart(Y + 2)
      /\ YearStart(Y) \in Int /\ YearStart(Y + 1) \in Int /\ YearStart(Y + 2) \in Int
      /\ YearStart(Y + 1) <= YearStart(Y) + 366 /\ YearStart(Y + 2) <= YearStart(Y + 1) + 366
  <2>1. Y + 1 \in Int /\ Y + 1 + 1 = Y + 2 /\ Y + 2 \in Int
    BY <1>4
  <2>2. this \in Int /\ YearStart(Y) <= this /\ this < YearStart(Y + 1)
    BY <1>4, DatesFall
  <2>3. next \in Int /\ YearStart(Y + 1) <= next /\ next < YearStart(Y + 2)
    BY <2>1, DatesFall
  <2>4. /\ YearStart(Y) \in Int
        /\ Leap(Y) => YearStart(Y + 1) = YearStart(Y) + 366
        /\ ~Leap(Y) => YearStart(Y + 1) = YearStart(Y) + 365
    BY <1>4, YearsLast
  <2>5. /\ YearStart(Y + 1) \in Int
        /\ Leap(Y + 1) => YearStart(Y + 1 + 1) = YearStart(Y + 1) + 366
        /\ ~Leap(Y + 1) => YearStart(Y + 1 + 1) = YearStart(Y + 1) + 365
    BY <2>1, YearsLast
  <2> QED
    BY <2>1, <2>2, <2>3, <2>4, <2>5
<1> HIDE DEF this, next
<1>7. e \in Int /\ 2 * e >= t /\ e >= F /\ e <= D + 732 /\ DaysUntil(2 * e, t) = e - D
  BY <1>3, <1>4, <1>6 DEF DaysUntil
<1>8. IsDate(e, md)
  <2>1. Near(2 * e)
    BY <1>1, <1>3, <1>7 DEF Near
  <2>2. Y + 1 \in Int
    BY <1>4
  <2>3. e = DayOf(Y, md) \/ e = DayOf(Y + 1, md)
    BY DEF this, next
  <2> HIDE DEF e
  <2> QED
    BY <1>4, <1>7, <2>1, <2>2, <2>3, DateIs
<1>9. ASSUME NEW d \in F .. D + n, IsDate(d, md)
      PROVE  e <= d
  <2>1. d \in Int /\ D <= d /\ d <= D + 300 /\ t <= 2 * d
    BY <1>3, <1>9
  <2>2. Near(2 * d)
    BY <1>1, <1>3, <2>1 DEF Near
  <2> DEFINE y == YearOf(2 * d)
  <2>3. y \in Int /\ d = DayOf(y, md)
    BY <1>9, <2>1, <2>2, DateIs
  <2> HIDE DEF y
  <2>4. YearStart(y) <= d /\ d < YearStart(y + 1)
    BY <2>3, DatesFall
  <2>5. y = Y \/ y = Y + 1
    <3>1. d < D + 365
      BY <1>3, <2>1
    <3> QED
      BY <1>3, <1>4, <2>1, <2>3, <2>4, <3>1, NextYears
  <2>6. d = this \/ d = next
    BY <2>3, <2>5 DEF this, next
  <2> QED
    BY <1>6, <2>1, <2>6
<1> HIDE DEF e
<1>10. e - D <= n <=> \E d \in F .. D + n : IsDate(d, md)
  <2>1. ASSUME e - D <= n
        PROVE  e \in F .. D + n
    BY <1>3, <1>7, <2>1
  <2>2. ASSUME NEW d \in F .. D + n, e <= d
        PROVE  e - D <= n
    BY <1>3, <1>7, <2>2
  <2> QED
    BY <1>8, <1>9, <2>1, <2>2
<1>11. e - D \in Nat
  BY <1>3, <1>7
<1> QED
  BY <1>5, <1>7, <1>10, <1>11 DEF D, F

\* Three members.
LEMMA ThreeMembers ==
    ASSUME NEW S, IsFiniteSet(S), NEW a \in S, NEW b \in S, NEW c \in S, a # b, a # c, b # c
    PROVE  Cardinality(S) \in Nat /\ Cardinality(S) >= 3
<1>1. {a} \cup {b} = {a, b} /\ {a, b} \cup {c} = {a, b, c} /\ b \notin {a} /\ c \notin {a, b}
  OBVIOUS
<1>2. IsFiniteSet({a}) /\ Cardinality({a}) = 1
  BY FS_Singleton
<1>3. IsFiniteSet({a} \cup {b}) /\ Cardinality({a} \cup {b}) = Cardinality({a}) + 1
  BY <1>1, <1>2, FS_AddElement
<1>4. IsFiniteSet({a, b}) /\ Cardinality({a, b}) = 2
  BY <1>1, <1>2, <1>3
<1>5. IsFiniteSet({a, b, c}) /\ Cardinality({a, b, c}) = 3
  BY <1>1, <1>4, FS_AddElement
<1>6. {a, b, c} \in SUBSET S
  OBVIOUS
<1>7. Cardinality({a, b, c}) <= Cardinality(S) /\ Cardinality(S) \in Nat
  BY <1>6, FS_Subset, FS_CardinalityType
<1> QED
  BY <1>5, <1>7

\* Later in one year is later in another, but for 1 March and 29 February.
LEMMA ShiftsAgree ==
    ASSUME NEW y \in Int, NEW z \in Int, NEW a \in Dates, NEW b \in Dates, Shift(y, a) <= Shift(y, b)
    PROVE  Shift(z, a) <= Shift(z, b) + (IF b = 59 THEN 1 ELSE 0)
BY DEF Shift, Dates

\* A client of three years has had three anniversaries, that of tomorrow included if today
\* is 29 February.
LEMMA ThreeAnniversaries ==
    ASSUME NEW t \in Int, -Century <= t, t <= Century, NEW o \in Int, -Century <= o, o <= Century,
           o <= YearsAgo(t, 3)
    PROVE  Cardinality({d \in o \div 2 + 1 .. (t \div 2) + (IF DateOf(t) = 59 THEN 1 ELSE 0) :
                          IsDate(d, DateOf(o))}) >= 3
<1> DEFINE D == t \div 2
           B == o \div 2
           Y == YearOf(t)
           X == YearOf(o)
           m == DateOf(t)
           mo == DateOf(o)
           k == IF m = 59 THEN 1 ELSE 0
           S == {d \in B + 1 .. D + k : IsDate(d, mo)}
<1>1. -73050 <= t /\ t <= 73050 /\ -73050 <= o /\ o <= 73050
  BY SMT DEF Century
<1>2. Near(t) /\ Near(o)
  BY <1>1 DEF Near
<1>3. D \in Int /\ 2 * D <= t /\ t < 2 * D + 2 /\ B \in Int /\ 2 * B <= o /\ o < 2 * B + 2
  OBVIOUS
<1>4. t % 2 \in {0, 1}
  OBVIOUS
<1>5. /\ m \in Dates /\ DayOf(Y, m) = D /\ Y \in Int
      /\ mo \in Dates /\ DayOf(X, mo) = B /\ X \in Int
  BY <1>2, DateOfIs, YearOfIs
<1>6. YearsAgo(t, 3) = 2 * DayOf(Y - 3, m) + (t % 2)
  BY DEF YearsAgo
<1> HIDE DEF D, B, Y, X, m, mo
<1>7. k \in {0, 1}
  OBVIOUS
<1>8. Y - 3 \in Int /\ DayOf(Y - 3, m) \in Int
  <2>1. Y - 3 \in Int
    BY <1>5
  <2> QED
    BY <1>5, <2>1, DatesFall
<1>9. B <= DayOf(Y - 3, m)
  <2> DEFINE w == DayOf(Y - 3, m)
             r == t % 2
  <2>1. w \in Int /\ r \in {0, 1} /\ o <= 2 * w + r
    BY <1>4, <1>6, <1>8
  <2> HIDE DEF w, r
  <2>2. o <= 2 * w + 1
    BY <2>1
  <2>3. B <= w
    BY ONLY <1>3, <2>1, <2>2, o \in Int
  <2> QED
    BY <2>3 DEF w
<1> DEFINE A(i) == DayOf(X + i, mo)
<1>10. ASSUME NEW i \in Int
       PROVE  /\ YearStart(X + i) \in Int /\ A(i) \in Int
              /\ YearStart(X + i) <= A(i) /\ A(i) < YearStart(X + i + 1)
              /\ A(i) = YearStart(X + i) + Shift(X + i, mo)
  <2>1. X + i \in Int
    BY <1>5
  <2>2. YearStart(X + i) \in Int
    BY <2>1, YearsLast
  <2> QED
    BY <1>5, <2>1, <2>2, DatesFall
<1>11. X <= Y - 3
  <2>1. YearStart(X) <= B /\ DayOf(Y - 3, m) < YearStart(Y - 3 + 1)
    BY <1>5, <1>8, DatesFall
  <2>2. ASSUME Y - 3 + 1 <= X
        PROVE  FALSE
    <3>1. Y - 3 + 1 \in Int /\ YearStart(X) \in Int /\ YearStart(Y - 3 + 1) \in Int
      BY <1>5, YearsLast
    <3>2. YearStart(Y - 3 + 1) + 365 * (X - (Y - 3 + 1)) <= YearStart(X)
      BY <1>5, <2>2, <3>1, YearsGrow
    <3> QED
      BY <1>3, <1>5, <1>8, <1>9, <2>1, <2>2, <3>1, <3>2
  <2> QED
    BY <1>5, <2>2
<1>12. B < A(1) /\ A(1) < A(2) /\ A(2) < A(3) /\ A(1) \in Int /\ A(2) \in Int /\ A(3) \in Int
  <2>1. X + 0 = X /\ X + 0 + 1 = X + 1 /\ X + 1 + 1 = X + 2 /\ X + 2 + 1 = X + 3
    BY <1>5
  <2>2. B < YearStart(X + 1) /\ YearStart(X + 1) \in Int /\ YearStart(X + 1) <= A(1) /\ A(1) < YearStart(X + 2)
    BY <1>5, <1>10, <2>1
  <2>3. A(1) \in Int /\ YearStart(X + 2) \in Int /\ YearStart(X + 2) <= A(2) /\ A(2) < YearStart(X + 3)
    BY <1>10, <2>1
  <2>4. A(2) \in Int /\ A(3) \in Int /\ YearStart(X + 3) \in Int /\ YearStart(X + 3) <= A(3)
    BY <1>10
  <2> HIDE DEF A
  <2> QED
    BY <1>3, <2>2, <2>3, <2>4
<1>13. A(3) <= D + k
  <2>1. X + 3 \in Int /\ X + 3 + 1 = X + 4 /\ X + 4 \in Int /\ Y \in Int
    BY <1>5
  <2>2. YearStart(Y) <= D /\ D = YearStart(Y) + Shift(Y, m) /\ YearStart(Y) \in Int
    BY <1>5, DatesFall
  <2>3. CASE X + 4 <= Y
    <3>1. YearStart(X + 4) + 365 * (Y - (X + 4)) <= YearStart(Y) /\ YearStart(X + 4) \in Int
      <4>1. YearStart(X + 4) \in Int
        BY <2>1, YearsLast
      <4> QED
        BY <2>1, <2>3, <4>1, YearsGrow
    <3>2. A(3) \in Int /\ A(3) < YearStart(X + 4)
      BY <1>10, <2>1
    <3> HIDE DEF A
    <3> QED
      BY <1>3, <1>7, <2>1, <2>2, <2>3, <3>1, <3>2
  <2>4. CASE X = Y - 3
    <3>1. X + 3 = Y /\ Shift(X, mo) \in Int /\ Shift(X, m) \in Int /\ Shift(Y, mo) \in Int /\ Shift(Y, m) \in Int
      <4>1. X + 3 = Y
        BY <1>5, <2>4
      <4> QED
        BY <1>5, <4>1, DatesFall
    <3>2. Shift(X, mo) <= Shift(X, m)
      <4>1. /\ DayOf(X, mo) = YearStart(X) + Shift(X, mo)
            /\ DayOf(X, m) = YearStart(X) + Shift(X, m)
            /\ YearStart(X) \in Int
        BY <1>5, DatesFall
      <4>2. B <= DayOf(X, m)
        BY <1>9, <2>4
      <4> QED
        BY <1>5, <3>1, <4>1, <4>2
    <3>3. Shift(Y, mo) <= Shift(Y, m) + k
      BY <1>5, <3>2, ShiftsAgree
    <3>4. A(3) = YearStart(Y) + Shift(Y, mo)
      BY <1>10, <3>1
    <3> HIDE DEF A
    <3> QED
      BY <1>7, <2>2, <3>1, <3>3, <3>4
  <2>5. X + 4 <= Y \/ X = Y - 3
    BY <1>5, <1>11
  <2> QED
    BY <2>3, <2>4, <2>5
<1>14. ASSUME NEW i \in 1 .. 3
       PROVE  A(i) \in S
  <2>1. A(i) \in Int /\ B < A(i) /\ A(i) <= D + k
    <3> HIDE DEF A
    <3>1. i = 1 \/ i = 2 \/ i = 3
      OBVIOUS
    <3> QED
      BY <1>3, <1>7, <1>12, <1>13, <3>1
  <2>2. Near(2 * A(i))
    <3> HIDE DEF A, k
    <3> QED
      BY <1>1, <1>3, <1>7, <2>1 DEF Near
  <2>3. X + i \in Int
    BY <1>5
  <2>4. IsDate(A(i), mo)
    BY <1>5, <2>1, <2>2, <2>3, DateIs
  <2>5. A(i) \in B + 1 .. D + k
    <3> HIDE DEF A, k
    <3> QED
      BY <1>3, <1>7, <2>1
  <2> QED
    BY <2>4, <2>5
<1>15. IsFiniteSet(S)
  <2>1. B + 1 \in Int /\ D + k \in Int
    BY <1>3, <1>7
  <2>2. IsFiniteSet(B + 1 .. D + k)
    BY <2>1, FS_Interval
  <2> QED
    BY <2>2, FS_Subset
<1>16. A(1) \in S /\ A(2) \in S /\ A(3) \in S
  BY <1>14
<1>17. A(1) # A(2) /\ A(1) # A(3) /\ A(2) # A(3)
  <2> HIDE DEF A
  <2> QED
    BY <1>12
<1> HIDE DEF A
<1>18. Cardinality(S) >= 3
  BY <1>15, <1>16, <1>17, ThreeMembers
<1> QED
  BY <1>18 DEF D, B, m, mo

-----------------------------------------------------------------------------
Watched == {"birthday", "engagementDrop"}

\* What an evaluation at t leaves behind: who is due has an alert that is younger than
\* the cooldown of its rule.
AlertedAt(t) == \A c \in Clients :
    /\ BirthdayDue(c, t) => raised[<<"birthday", c>>] > t - 2
    /\ EngagementDropDue(c, t) => raised[<<"engagementDrop", c>>] > t - 6

RulesTypeOK ==
    /\ \E x \in Cases : book = x.book /\ start = x.start
    /\ now \in start .. start + Horizon
    /\ cool \in [Rules \X Clients -> Int]
    /\ raised \in [Rules \X Clients -> Int]
    /\ done \in BOOLEAN

\* A key is that of the latest alert, which was raised before now.
CoolFounded == \A r \in Rules, c \in Clients :
    /\ cool[<<r, c>>] # Never => cool[<<r, c>>] = raised[<<r, c>>] + CooldownHours[r] \div 12
    /\ raised[<<r, c>>] <= now

EvaluatedToday == done => \E t \in {now, now - 1} : t \div 2 = now \div 2 /\ AlertedAt(t)
EvaluatedDaily == \A d \in start \div 2 .. now \div 2 :
    start <= 2 * d /\ 2 * d + 1 < now => AlertedAt(2 * d) \/ AlertedAt(2 * d + 1)

RulesInv == RulesTypeOK /\ CoolFounded /\ EvaluatedToday /\ EvaluatedDaily

\* A run stays within the century, and its clients are those of one of the cases.
LEMMA RunsAre ==
    ASSUME RulesTypeOK
    PROVE  /\ now \in Int /\ start \in Int /\ -Century <= start /\ start <= now /\ now <= Century
           /\ \A c \in Clients : WellDated(book[c])
<1>1. PICK x \in Cases : book = x.book /\ start = x.start
  BY DEF RulesTypeOK
<1>2. Century \in Int /\ Horizon \in Nat
  BY SMT, RulesAssumption DEF Century
<1>3. x.start \in -Century .. Century /\ x.start + Horizon <= Century
  BY CasesAssumption
<1>4. now \in start .. start + Horizon
  BY DEF RulesTypeOK
<1>5. start \in Int /\ -Century <= start
  BY <1>1, <1>2, <1>3
<1>6. now \in Int /\ start <= now /\ now <= Century
  BY <1>1, <1>2, <1>3, <1>4, <1>5
<1> QED
  BY <1>1, <1>5, <1>6, CasesAssumption DEF Clients

\* FoundByTheCalendar: the windows of the rules are those a calendar gives, at every moment
\* of a run.
LEMMA CalendarHolds ==
    ASSUME RulesTypeOK
    PROVE  FoundByTheCalendar
<1> DEFINE ahead(n) == (now + 1) \div 2 .. (now \div 2) + n
           today == now \div 2
<1>1. /\ now \in Int /\ -Century <= now /\ now <= Century
      /\ \A c \in Clients : WellDated(book[c])
  <2>1. Century \in Int
    BY SMT DEF Century
  <2> QED
    BY <2>1, RunsAre
<1>2. ASSUME NEW md \in Dates, NEW n \in {3, 60}
      PROVE  /\ DaysUntil(NextOccurrence(md, now), now) \in Nat
             /\ DaysUntil(NextOccurrence(md, now), now) <= n <=> \E d \in ahead(n) : IsDate(d, md)
  <2>1. n \in Nat /\ n <= 300
    OBVIOUS
  <2> QED
    BY ONLY <1>1, <1>2, <2>1, NextIs
<1>3. ASSUME NEW c \in Clients
      PROVE  BirthdayDue(c, now) <=> \E d \in ahead(3) : IsDate(d, book[c].dob)
  <2>1. book[c].dob \in Dates
    BY <1>1 DEF WellDated, Dates
  <2>2. /\ DaysUntil(NextOccurrence(book[c].dob, now), now) \in Nat
        /\ DaysUntil(NextOccurrence(book[c].dob, now), now) <= 3 <=> \E d \in ahead(3) : IsDate(d, book[c].dob)
    BY <1>2, <2>1
  <2> HIDE DEF ahead
  <2> QED
    BY <2>2 DEF BirthdayDue
<1>4. ASSUME NEW c \in Clients, TaxLossDue(c, now)
      PROVE  \E d \in ahead(60) : IsDate(d, March31)
  <2>1. March31 \in Dates
    BY DEF March31, Dates
  <2> HIDE DEF ahead
  <2> QED
    BY <1>2, <1>4, <2>1 DEF TaxLossDue
<1>5. ASSUME NEW c \in Clients, BeneficiaryDue(c, now)
      PROVE  Cardinality({d \in book[c].onboarded \div 2 + 1 .. (now \div 2) + (IF DateOf(now) = 59 THEN 1 ELSE 0) :
                            IsDate(d, DateOf(book[c].onboarded))}) >= 3
  <2>1. book[c].onboarded \in -Century .. Century
    BY <1>1 DEF WellDated
  <2>2. Century \in Int
    BY SMT DEF Century
  <2>3. book[c].onboarded \in Int /\ -Century <= book[c].onboarded /\ book[c].onboarded <= Century
    BY <2>1, <2>2
  <2>4. book[c].onboarded <= YearsAgo(now, 3)
    BY <1>5 DEF BeneficiaryDue
  <2> QED
    BY ONLY <1>1, <2>3, <2>4, ThreeAnniversaries
<1>6. today + 1 .. today + 3 \subseteq ahead(3) /\ ahead(3) \subseteq today .. today + 3
      /\ ahead(60) \subseteq today .. today + 60
  <2>1. today \in Int /\ (now + 1) \div 2 \in Int /\ today <= (now + 1) \div 2 /\ (now + 1) \div 2 <= today + 1
    BY <1>1
  <2> DEFINE soon == (now + 1) \div 2
  <2> HIDE DEF today, soon
  <2>2. today \in Int /\ soon \in Int /\ today <= soon /\ soon <= today + 1
    BY <2>1 DEF soon
  <2>3. ahead(3) = soon .. today + 3 /\ ahead(60) = soon .. today + 60
    BY DEF today, soon
  <2>4. ASSUME NEW n \in {3, 60}
        PROVE  soon .. today + n \subseteq today .. today + n
    BY ONLY <2>2, <2>4
  <2>5. today + 1 .. today + 3 \subseteq soon .. today + 3
    BY ONLY <2>2
  <2> QED
    BY <2>3, <2>4, <2>5
<1> HIDE DEF ahead
<1>7. ASSUME NEW c \in Clients
      PROVE  /\ (\E d \in today + 1 .. today + 3 : IsDate(d, book[c].dob)) => BirthdayDue(c, now)
             /\ BirthdayDue(c, now) => \E d \in today .. today + 3 : IsDate(d, book[c].dob)
             /\ TaxLossDue(c, now) => \E d \in today .. today + 60 : IsDate(d, March31)
  <2> HIDE DEF today
  <2> QED
    BY <1>3, <1>4, <1>6
<1> QED
  BY <1>5, <1>7 DEF FoundByTheCalendar

\* What the two rules that are watched look at.
LEMMA WatchedAre ==
    /\ Watched \subseteq Rules
    /\ \A r \in Rules : CooldownHours[r] \div 12 \in Nat
    /\ CooldownHours["birthday"] \div 12 = 2 /\ CooldownHours["engagementDrop"] \div 12 = 6
    /\ \A c, t : /\ Due("birthday", c, t) <=> BirthdayDue(c, t)
                 /\ Due("engagementDrop", c, t) <=> EngagementDropDue(c, t)
<1>1. Watched \subseteq Rules
  BY DEF Watched, Rules, CooldownHours
<1>2. \A r \in Rules : CooldownHours[r] \in Nat
  BY DEF Rules, CooldownHours
<1>3. CooldownHours["birthday"] = 24 /\ CooldownHours["engagementDrop"] = 72
  BY DEF CooldownHours
<1>4. \A c, t : /\ Due("birthday", c, t) <=> BirthdayDue(c, t)
                /\ Due("engagementDrop", c, t) <=> EngagementDropDue(c, t)
  BY DEF Due
<1> QED
  BY <1>1, <1>2, <1>3, <1>4

\* A run begins with nothing evaluated.
LEMMA RulesInvInit == RulesInit => RulesInv
<1> SUFFICES ASSUME RulesInit PROVE RulesInv
  OBVIOUS
<1>1. PICK x \in Cases : book = x.book /\ start = x.start
  BY DEF RulesInit
<1>2. x.start \in Int /\ Horizon \in Nat /\ Never \in Int
  <2>1. Century \in Int /\ Never \in Int
    BY SMT DEF Century, Never
  <2> QED
    BY <2>1, CasesAssumption, RulesAssumption
<1>3. now = start /\ cool = [k \in Rules \X Clients |-> Never] /\ raised = cool /\ done = FALSE
  BY DEF RulesInit
<1>4. RulesTypeOK
  <2>1. start \in Int /\ Horizon \in Nat /\ now = start
    BY <1>1, <1>2, <1>3
  <2>2. now \in start .. start + Horizon
    BY ONLY <2>1
  <2>3. cool \in [Rules \X Clients -> Int]
    BY <1>2, <1>3
  <2> QED
    BY <1>1, <1>3, <2>2, <2>3 DEF RulesTypeOK
<1>6. CoolFounded
  <2>1. \A r \in Rules, c \in Clients : cool[<<r, c>>] = Never /\ raised[<<r, c>>] = Never
    BY <1>3
  <2>2. start \in Int /\ -Century <= start
    BY <1>4, RunsAre
  <2>3. -Century \in Int /\ Never < -Century
    BY SMT DEF Century, Never
  <2>4. Never <= now
    BY ONLY <1>2, <1>3, <2>2, <2>3
  <2> QED
    BY <2>1, <2>4 DEF CoolFounded
<1>7. EvaluatedToday
  BY <1>3 DEF EvaluatedToday
<1>8. EvaluatedDaily
  <2>1. now = start /\ start \in Int
    BY <1>1, <1>2, <1>3
  <2>2. \A d \in start \div 2 .. now \div 2 : ~(start <= 2 * d /\ 2 * d + 1 < now)
    BY <2>1
  <2> QED
    BY <2>2 DEF EvaluatedDaily
<1> QED
  BY <1>4, <1>6, <1>7, <1>8 DEF RulesInv

\* What the calendar finds, and what has been reported of it, stays while the mirror does.
LEMMA BookStays ==
    ASSUME RulesTypeOK, book' = book, raised' \in [Rules \X Clients -> Int],
           \A k \in Rules \X Clients : raised[k] <= raised'[k]
    PROVE  /\ Clients' = Clients
           /\ \A t \in Int : AlertedAt(t) => AlertedAt(t)'
<1>1. Clients' = Clients
  BY DEF Clients
<1>2. ASSUME NEW r \in Watched, NEW c \in Clients
      PROVE  raised[<<r, c>>] \in Int /\ raised'[<<r, c>>] \in Int /\ raised[<<r, c>>] <= raised'[<<r, c>>]
  <2>1. <<r, c>> \in Rules \X Clients
    BY WatchedAre
  <2> QED
    BY <2>1 DEF RulesTypeOK
<1>3. \A c, t : (BirthdayDue(c, t)' <=> BirthdayDue(c, t)) /\ (EngagementDropDue(c, t)' <=> EngagementDropDue(c, t))
  BY DEF BirthdayDue, EngagementDropDue, Meetings
<1>4. ASSUME NEW t \in Int, AlertedAt(t), NEW c \in Clients
      PROVE  /\ BirthdayDue(c, t) => raised'[<<"birthday", c>>] > t - 2
             /\ EngagementDropDue(c, t) => raised'[<<"engagementDrop", c>>] > t - 6
  BY <1>2, <1>4 DEF AlertedAt, Watched
<1> QED
  BY <1>1, <1>3, <1>4 DEF AlertedAt

\* An evaluation reports what is due, or finds the key of an alert that is young enough.
LEMMA EvaluateAllKeepsInv ==
    ASSUME RulesInv, EvaluateAll
    PROVE  RulesInv'
<1> USE DEF RulesInv
<1>1. /\ now' = now /\ book' = book /\ start' = start /\ done' = TRUE /\ Clients' = Clients
      /\ cool' = [k \in Rules \X Clients |->
                    IF k \in Found THEN now + CooldownHours[k[1]] \div 12 ELSE cool[k]]
      /\ raised' = [k \in Rules \X Clients |-> IF k \in Found THEN now ELSE raised[k]]
  BY DEF EvaluateAll, Clients
<1>2. now \in Int /\ start \in Int /\ -Century <= start /\ start <= now
  BY RunsAre
<1>3. ASSUME NEW r \in Rules, NEW c \in Clients
      PROVE  /\ cool[<<r, c>>] \in Int /\ raised[<<r, c>>] \in Int
             /\ <<r, c>> \notin Found => cool'[<<r, c>>] = cool[<<r, c>>] /\ raised'[<<r, c>>] = raised[<<r, c>>]
             /\ <<r, c>> \in Found => cool'[<<r, c>>] = now + CooldownHours[r] \div 12 /\ raised'[<<r, c>>] = now
             /\ <<r, c>> \in Found <=> cool[<<r, c>>] <= now /\ Due(r, c, now)
  <2>1. <<r, c>> \in Rules \X Clients /\ <<r, c>>[1] = r /\ <<r, c>>[2] = c
    OBVIOUS
  <2>2. cool[<<r, c>>] \in Int /\ raised[<<r, c>>] \in Int
    BY <2>1 DEF RulesTypeOK
  <2>3. <<r, c>> \in Found <=> cool[<<r, c>>] <= now /\ Due(r, c, now)
    BY <2>1 DEF Found
  <2> QED
    BY <1>1, <2>1, <2>2, <2>3
<1>4. /\ cool' \in [Rules \X Clients -> Int] /\ raised' \in [Rules \X Clients -> Int]
      /\ \A k \in Rules \X Clients : raised[k] <= raised'[k]
  <2>1. ASSUME NEW k \in Rules \X Clients
        PROVE  /\ cool[k] \in Int /\ raised[k] \in Int /\ raised[k] <= now
               /\ now + CooldownHours[k[1]] \div 12 \in Int
    <3>1. PICK r \in Rules, c \in Clients : k = <<r, c>>
      OBVIOUS
    <3>2. raised[<<r, c>>] <= now /\ CooldownHours[r] \div 12 \in Nat
      BY WatchedAre DEF CoolFounded
    <3> QED
      BY <1>2, <1>3, <3>1, <3>2
  <2> QED
    BY <1>1, <1>2, <2>1
<1>5. RulesTypeOK'
  BY <1>1, <1>4 DEF RulesTypeOK
<1>6. \A t \in Int : AlertedAt(t) => AlertedAt(t)'
  BY <1>1, <1>4, BookStays
<1>7. CoolFounded'
  <2>1. ASSUME NEW r \in Rules, NEW c \in Clients
        PROVE  /\ cool'[<<r, c>>] # Never => cool'[<<r, c>>] = raised'[<<r, c>>] + CooldownHours[r] \div 12
               /\ raised'[<<r, c>>] <= now
    BY <1>2, <1>3 DEF CoolFounded
  <2> QED
    BY <1>1, <2>1 DEF CoolFounded
<1>8. ASSUME NEW r \in Watched, NEW c \in Clients, Due(r, c, now)
      PROVE  raised'[<<r, c>>] > now - CooldownHours[r] \div 12
  <2>1. r \in Rules /\ CooldownHours[r] \div 12 \in Nat /\ CooldownHours[r] \div 12 > 0
    BY WatchedAre DEF Watched
  <2>2. CASE cool[<<r, c>>] <= now
    BY <1>2, <1>3, <1>8, <2>1, <2>2
  <2>3. CASE ~(cool[<<r, c>>] <= now)
    <3>1. Never <= now
      <4>1. -Century \in Int /\ Never < -Century /\ Never \in Int
        BY SMT DEF Century, Never
      <4> QED
        BY ONLY <1>2, <4>1
    <3>2. cool[<<r, c>>] # Never
      BY <2>3, <3>1
    <3>3. cool[<<r, c>>] = raised[<<r, c>>] + CooldownHours[r] \div 12
      BY <2>1, <3>2 DEF CoolFounded
    <3> DEFINE n == CooldownHours[r] \div 12
               k == <<r, c>>
    <3>4. n \in Nat /\ raised[k] \in Int /\ cool[k] \in Int /\ cool[k] = raised[k] + n /\ raised'[k] = raised[k]
      BY <1>3, <2>1, <2>3, <3>3
    <3> HIDE DEF n, k
    <3>5. ~(cool[k] <= now)
      BY <2>3 DEF k
    <3>6. raised'[k] > now - n
      BY ONLY <1>2, <3>4, <3>5
    <3> QED
      BY <3>6 DEF n, k
  <2> QED
    BY <2>2, <2>3
<1>9. AlertedAt(now)'
  <2>1. ASSUME NEW c \in Clients, BirthdayDue(c, now)
        PROVE  raised'[<<"birthday", c>>] > now - 2
    <3>1. "birthday" \in Watched /\ Due("birthday", c, now)
      BY <2>1, WatchedAre DEF Watched
    <3>2. raised'[<<"birthday", c>>] > now - CooldownHours["birthday"] \div 12
      BY <1>8, <3>1
    <3> QED
      BY <3>2, WatchedAre
  <2>2. ASSUME NEW c \in Clients, EngagementDropDue(c, now)
        PROVE  raised'[<<"engagementDrop", c>>] > now - 6
    <3>1. "engagementDrop" \in Watched /\ Due("engagementDrop", c, now)
      BY <2>2, WatchedAre DEF Watched
    <3>2. raised'[<<"engagementDrop", c>>] > now - CooldownHours["engagementDrop"] \div 12
      BY <1>8, <3>1
    <3> QED
      BY <3>2, WatchedAre
  <2>3. \A c : (BirthdayDue(c, now)' <=> BirthdayDue(c, now)) /\ (EngagementDropDue(c, now)' <=> EngagementDropDue(c, now))
    BY <1>1 DEF BirthdayDue, EngagementDropDue, Meetings
  <2> QED
    BY <1>1, <2>1, <2>2, <2>3 DEF AlertedAt
<1>10. EvaluatedToday'
  BY <1>1, <1>9 DEF EvaluatedToday
<1>11. EvaluatedDaily'
  <2>1. ASSUME NEW d \in start \div 2 .. now \div 2
        PROVE  2 * d \in Int /\ 2 * d + 1 \in Int
    BY <1>2
  <2> QED
    BY <1>1, <1>6, <2>1 DEF EvaluatedDaily
<1> QED
  BY <1>5, <1>7, <1>10, <1>11

\* Half a day goes by; at the end of a day the rules have been evaluated.
LEMMA PassKeepsInv ==
    ASSUME RulesInv, Pass
    PROVE  RulesInv'
<1> USE DEF RulesInv
<1>1. /\ now' = now + 1 /\ book' = book /\ start' = start /\ cool' = cool /\ raised' = raised
      /\ now < start + Horizon /\ (now % 2 = 1 => done) /\ done' = (done /\ now % 2 = 0)
  BY DEF Pass
<1>2. now \in Int /\ start \in Int /\ start <= now
  BY RunsAre
<1>3. Clients' = Clients /\ \A t \in Int : AlertedAt(t) => AlertedAt(t)'
  <2>1. raised \in [Rules \X Clients -> Int] /\ \A k \in Rules \X Clients : raised[k] <= raised[k]
    BY DEF RulesTypeOK
  <2> QED
    BY <1>1, <2>1, BookStays
<1>4. RulesTypeOK'
  <2>1. now' \in start' .. start' + Horizon
    BY <1>1, <1>2, RulesAssumption
  <2>2. /\ \E x \in Cases : book' = x.book /\ start' = x.start
        /\ cool' \in [Rules \X Clients' -> Int] /\ raised' \in [Rules \X Clients' -> Int]
    BY <1>1, <1>3 DEF RulesTypeOK
  <2>3. done' \in BOOLEAN
    BY <1>1
  <2> QED
    BY <2>1, <2>2, <2>3 DEF RulesTypeOK
<1>5. CoolFounded'
  <2>1. ASSUME NEW r \in Rules, NEW c \in Clients
        PROVE  raised[<<r, c>>] <= now + 1
    <3>1. raised[<<r, c>>] \in Int /\ raised[<<r, c>>] <= now
      BY DEF CoolFounded, RulesTypeOK
    <3> QED
      BY <1>2, <3>1
  <2> QED
    BY <1>1, <1>3, <2>1 DEF CoolFounded
<1> DEFINE D == now \div 2
<1>6. D \in Int /\ (now = 2 * D \/ (now = 2 * D + 1 /\ now % 2 = 1))
  <2>1. D \in Int /\ 2 * D <= now /\ now < 2 * D + 2
    BY <1>2
  <2> HIDE DEF D
  <2>2. now = 2 * D \/ now = 2 * D + 1
    BY <1>2, <2>1
  <2>3. ASSUME now = 2 * D + 1
        PROVE  now % 2 = 1
    BY <2>1, <2>3
  <2> QED
    BY <2>1, <2>2, <2>3
<1>7. EvaluatedToday'
  <2>1. SUFFICES ASSUME done, now % 2 = 0
                 PROVE  \E t \in {now + 1, now} : t \div 2 = (now + 1) \div 2 /\ AlertedAt(t)'
    <3>1. now' = now + 1 /\ now' - 1 = now
      BY <1>1, <1>2
    <3>2. {now', now' - 1} = {now + 1, now}
      BY <3>1
    <3>3. done' => done /\ now % 2 = 0
      BY <1>1
    <3> QED
      BY <3>1, <3>2, <3>3 DEF EvaluatedToday
  <2>2. PICK t \in {now, now - 1} : t \div 2 = now \div 2 /\ AlertedAt(t)
    BY <2>1 DEF EvaluatedToday
  <2>3. t = now /\ now \div 2 = (now + 1) \div 2
    BY <1>2, <2>1, <2>2
  <2>4. t \in Int /\ t \in {now + 1, now} /\ t \div 2 = (now + 1) \div 2
    BY <1>2, <2>2, <2>3
  <2>5. AlertedAt(t)'
    BY <1>3, <2>2, <2>4
  <2> QED
    BY <2>4, <2>5
<1>8. EvaluatedDaily'
  <2>1. SUFFICES ASSUME NEW d \in start \div 2 .. (now + 1) \div 2, start <= 2 * d, 2 * d + 1 < now + 1
                 PROVE  AlertedAt(2 * d)' \/ AlertedAt(2 * d + 1)'
    BY <1>1 DEF EvaluatedDaily
  <2>2. d \in Int /\ start \div 2 <= d
    BY <1>2
  <2>3. CASE 2 * d + 1 < now
    <3>1. d \in start \div 2 .. now \div 2
      <4>1. D \in Int /\ start \div 2 \in Int /\ d <= D
        BY <1>2, <1>6, <2>2, <2>3
      <4> QED
        BY <2>2, <4>1
    <3> QED
      BY <1>3, <2>1, <2>3, <3>1 DEF EvaluatedDaily
  <2>4. CASE now = 2 * d + 1
    <3>1. now % 2 = 1 /\ now \div 2 = d
      BY <2>2, <2>4
    <3>2. PICK t \in {now, now - 1} : AlertedAt(t)
      BY <1>1, <3>1 DEF EvaluatedToday
    <3>3. t = 2 * d \/ t = 2 * d + 1
      BY <2>2, <2>4
    <3> QED
      BY <1>3, <3>2, <3>3
  <2> QED
    BY <1>2, <2>1, <2>2, <2>3, <2>4
<1> QED
  BY <1>4, <1>5, <1>7, <1>8

\* Every step preserves the invariant.
LEMMA RulesNextKeepsInv ==
    ASSUME RulesInv, [RulesNext]_rvars
    PROVE  RulesInv'
<1>1. CASE UNCHANGED rvars
  <2>1. book' = book /\ raised' = raised /\ now' = now /\ start' = start /\ cool' = cool /\ done' = done
    BY <1>1 DEF rvars
  <2>2. now \in Int /\ start \in Int
    BY RunsAre DEF RulesInv
  <2>3. Clients' = Clients /\ \A t \in Int : AlertedAt(t) => AlertedAt(t)'
    <3>1. raised \in [Rules \X Clients -> Int] /\ \A k \in Rules \X Clients : raised[k] <= raised[k]
      BY DEF RulesInv, RulesTypeOK
    <3> QED
      BY <2>1, <3>1, BookStays DEF RulesInv
  <2>4. RulesTypeOK' /\ CoolFounded'
    BY <2>1, <2>3 DEF RulesInv, RulesTypeOK, CoolFounded
  <2>5. EvaluatedToday' /\ EvaluatedDaily'
    <3>1. ASSUME NEW d \in start \div 2 .. now \div 2
          PROVE  2 * d \in Int /\ 2 * d + 1 \in Int
      BY <2>2
    <3> QED
      BY <2>1, <2>2, <2>3, <3>1 DEF RulesInv, EvaluatedToday, EvaluatedDaily
  <2> QED
    BY <2>4, <2>5 DEF RulesInv
<1> QED
  BY <1>1, EvaluateAllKeepsInv, PassKeepsInv DEF RulesNext

\* The invariant holds throughout.
THEOREM RulesInvHolds == RulesSpec => []RulesInv
<1>1. RulesInv /\ [RulesNext]_rvars => RulesInv'
  BY RulesNextKeepsInv
<1> QED
  BY RulesInvInit, <1>1, PTL DEF RulesSpec

\* A whole day gone by has seen an evaluation.
LEMMA DayEvaluated ==
    ASSUME RulesInv, NEW d \in Int, start <= 2 * d, 2 * d + 1 < now
    PROVE  \E t \in {2 * d, 2 * d + 1} : AlertedAt(t)
<1>1. now \in Int /\ start \in Int
  BY RunsAre DEF RulesInv
<1>2. start \div 2 \in Int /\ now \div 2 \in Int /\ start \div 2 <= d /\ d <= now \div 2
  BY <1>1
<1>3. d \in start \div 2 .. now \div 2
  BY <1>2
<1> QED
  BY <1>3 DEF RulesInv, EvaluatedDaily

\* The two watches of AnnouncedInTime, each from the evaluation of one day.
LEMMA InTime == RulesInv => AnnouncedInTime
<1> SUFFICES ASSUME RulesInv, NEW c \in Clients
             PROVE  /\ now >= start + Days(2) /\ now % 2 = 0 /\ IsDate(now \div 2, book[c].dob)
                          => raised[<<"birthday", c>>] >= now - 3
                    /\ \A m \in book[c].meetings :
                          /\ start <= m.at + Days(15) /\ now > m.at + Days(16)
                          /\ \A o \in book[c].meetings : o.at <= m.at
                          => raised[<<"engagementDrop", c>>] > m.at + Days(12)
  BY DEF AnnouncedInTime
<1>1. now \in Int /\ start \in Int /\ -Century <= start /\ start <= now /\ now <= Century /\ WellDated(book[c])
  BY RunsAre DEF RulesInv
<1>2. Days(2) = 4 /\ Days(12) = 24 /\ Days(14) = 28 /\ Days(15) = 30 /\ Days(16) = 32 /\ Days(28) = 56
  BY DEF Days
<1>3. raised[<<"birthday", c>>] \in Int /\ raised[<<"engagementDrop", c>>] \in Int
  BY WatchedAre DEF Watched, RulesInv, RulesTypeOK
<1>4. ASSUME now >= start + Days(2), now % 2 = 0, IsDate(now \div 2, book[c].dob)
      PROVE  raised[<<"birthday", c>>] >= now - 3
  <2> DEFINE d == now \div 2
  <2>1. d \in Int /\ now = 2 * d
    BY <1>1, <1>4
  <2>2. IsDate(d, book[c].dob)
    BY <1>4
  <2> HIDE DEF d
  <2>3. d - 1 \in Int /\ start <= 2 * (d - 1) /\ 2 * (d - 1) + 1 < now
    BY <1>1, <1>2, <1>4, <2>1
  <2>4. PICK t \in {2 * (d - 1), 2 * (d - 1) + 1} : AlertedAt(t)
    BY <2>3, DayEvaluated
  <2>5. t \in Int /\ start <= t /\ t < now /\ now - 2 <= t /\ d \in (t + 1) \div 2 .. (t \div 2) + 3
    <3>1. t \in Int /\ start <= t /\ t < now /\ now - 2 <= t
      BY <1>1, <2>1, <2>3
    <3>2. (t + 1) \div 2 \in Int /\ (t + 1) \div 2 <= d /\ t \div 2 \in Int /\ t \div 2 = d - 1
      BY <2>1
    <3> QED
      BY <2>1, <3>1, <3>2
  <2>6. -Century <= t /\ t <= Century
    <3>1. Century \in Int
      BY SMT DEF Century
    <3> QED
      BY ONLY <1>1, <2>5, <3>1
  <2>7. book[c].dob \in Dates
    BY <1>1 DEF WellDated, Dates
  <2>8. 3 \in Nat /\ 3 <= 300
    OBVIOUS
  <2>9. /\ DaysUntil(NextOccurrence(book[c].dob, t), t) \in Nat
        /\ DaysUntil(NextOccurrence(book[c].dob, t), t) <= 3 <=>
              \E e \in (t + 1) \div 2 .. (t \div 2) + 3 : IsDate(e, book[c].dob)
    BY ONLY <2>5, <2>6, <2>7, <2>8, NextIs
  <2>10. DaysUntil(NextOccurrence(book[c].dob, t), t) <= 3
    BY <2>2, <2>5, <2>9
  <2>11. BirthdayDue(c, t)
    BY <2>9, <2>10 DEF BirthdayDue
  <2>12. raised[<<"birthday", c>>] > t - 2
    BY <2>4, <2>11 DEF AlertedAt
  <2> QED
    BY ONLY <1>1, <1>3, <2>5, <2>12
<1>5. ASSUME NEW m \in book[c].meetings, start <= m.at + Days(15), now > m.at + Days(16),
             \A o \in book[c].meetings : o.at <= m.at
      PROVE  raised[<<"engagementDrop", c>>] > m.at + Days(12)
  <2> DEFINE d == (m.at + 31) \div 2
  <2>1. m.at \in Int /\ start <= m.at + 30 /\ now > m.at + 32
    BY <1>1, <1>2, <1>5 DEF WellDated
  <2>2. d \in Int /\ 2 * d <= m.at + 31 /\ m.at + 31 < 2 * d + 2
    BY <2>1
  <2> HIDE DEF d
  <2>3. start <= 2 * d /\ 2 * d + 1 < now
    BY <1>1, <2>1, <2>2
  <2>4. PICK t \in {2 * d, 2 * d + 1} : AlertedAt(t)
    BY <2>2, <2>3, DayEvaluated
  <2>5. t \in Int /\ m.at + 30 <= t /\ t <= m.at + 32
    BY <2>1, <2>2
  <2>6. {o \in book[c].meetings : o.at \in t - Days(14) .. t} = {}
    BY <1>1, <1>2, <1>5, <2>1, <2>5 DEF WellDated
  <2>7. Meetings(c, t - Days(14), t) = 0
    BY <2>6, FS_EmptySet DEF Meetings
  <2> DEFINE before == {o \in book[c].meetings : o.at \in t - Days(28) .. t - Days(14) - 1}
  <2>8. m \in before
    BY <1>2, <2>1, <2>5
  <2>9. IsFiniteSet(before)
    BY <1>1, FS_Subset DEF WellDated
  <2>10. Cardinality(before) \in Nat /\ Cardinality(before) > 0
    BY <2>8, <2>9, FS_CardinalityType, FS_EmptySet
  <2>11. Meetings(c, t - Days(28), t - Days(14) - 1) = Cardinality(before)
    BY DEF Meetings
  <2> HIDE DEF before
  <2>12. EngagementDropDue(c, t)
    BY <2>7, <2>10, <2>11 DEF EngagementDropDue
  <2>13. raised[<<"engagementDrop", c>>] > t - 6
    BY <2>4, <2>12 DEF AlertedAt
  <2> QED
    BY <1>2, <1>3, <2>1, <2>5, <2>13
<1> QED
  BY <1>4, <1>5

\* When the midnight of a birthday comes the RM has heard of it in the day and a half
\* before, and of a client whom nobody meets any more by the sixteenth day.
THEOREM WatchedInTime == RulesSpec => []AnnouncedInTime
<1> QED
  BY RulesInvHolds, InTime, PTL

\* The windows of the rules are those of the calendar, in every year and on every day.
THEOREM WindowsAreRight == RulesSpec => []FoundByTheCalendar
<1>1. RulesInv => FoundByTheCalendar
  BY CalendarHolds DEF RulesInv
<1> QED
  BY RulesInvHolds, <1>1, PTL
-----------------------------------------------------------------------------
(* From alerts.generated to the sockets and the telephone: AlertDelivery *)

\* Offsets are natural numbers, and the message being handled is the one at the
\* consumer's position.
Running(rm) ==
    job # NoJob => /\ job = [rm |-> job.rm, offset |-> job.offset, msg |-> job.msg,
                             done |-> job.done, todo |-> job.todo]
                   /\ job.rm = rm => job.offset = position[rm]
OffsetsOK ==
    /\ topic \in [RMs -> Seq(Message)]
    /\ committed \in [RMs -> Nat]
    /\ position \in [RMs -> Nat]
    /\ resolved \in [RMs -> BOOLEAN]
    /\ handled \in [RMs -> SUBSET Nat]
    /\ job # NoJob => job.rm \in RMs
    /\ \A rm \in RMs : Running(rm)

\* What a running consumer has passed since the committed offset, it has handled.
\* Nothing is resolved before it runs.
PassedIsHandled ==
    /\ \A rm \in RMs : resolved[rm] => consumer = "running"
    /\ job # NoJob => consumer = "running"
    /\ \A rm \in RMs : consumer = "running" /\ committed[rm] # NoOffset =>
           \A o \in committed[rm] .. (position[rm] - 1) : o \in handled[rm]

DeliveryInv == OffsetsOK /\ PassedIsHandled

\* The invariant holds initially.
LEMMA DeliveryInvInit == DeliveryInit => DeliveryInv
BY DEF DeliveryInit, DeliveryInv, OffsetsOK, PassedIsHandled, Running, NoOffset

\* The next channel of the message at hand leaves the rest of it alone.
LEMMA ChannelKeepsJob ==
    ASSUME OffsetsOK, job # NoJob, NEW d, Next1(d)
    PROVE  /\ job'.rm = job.rm /\ job'.offset = job.offset
           /\ job' = [rm |-> job'.rm, offset |-> job'.offset, msg |-> job'.msg,
                      done |-> job'.done, todo |-> job'.todo]
<1>1. job.rm \in RMs
  BY DEF OffsetsOK
<1>2. job = [rm |-> job.rm, offset |-> job.offset, msg |-> job.msg, done |-> job.done, todo |-> job.todo]
  BY <1>1 DEF OffsetsOK, Running
<1>3. job' = [rm |-> job.rm, offset |-> job.offset, msg |-> job.msg,
              done |-> job.done \o d, todo |-> Tail(job.todo)]
  BY <1>2 DEF Next1
<1> QED
  BY <1>3

\* The invariant is inductive.
LEMMA DeliveryInvStep == DeliveryInv /\ [DeliveryNext]_dvars => DeliveryInv'
<1> SUFFICES ASSUME OffsetsOK, PassedIsHandled, [DeliveryNext]_dvars
             PROVE  OffsetsOK' /\ PassedIsHandled'
  BY DEF DeliveryInv
<1> USE DEF OffsetsOK, PassedIsHandled, Running, kafka, log, service, past
<1>1. CASE StartConsumer
  <2>1. \A rm \in RMs : End(rm) \in Nat
    BY DEF End
  <2>2. /\ position' \in [RMs -> Nat]
        /\ \A rm \in RMs : committed[rm] # NoOffset => position'[rm] = committed[rm]
    BY <1>1, <2>1 DEF StartConsumer, Seek
  <2>3. job = NoJob
    BY <1>1 DEF StartConsumer
  <2> QED
    BY <1>1, <2>2, <2>3 DEF StartConsumer
<1>2. CASE StartConsumerFails
  BY <1>2 DEF StartConsumerFails
<1>3. CASE StartProducer
  BY <1>3 DEF StartProducer
<1>4. ASSUME NEW rm \in RMs, Fetch(rm) PROVE OffsetsOK' /\ PassedIsHandled'
  BY <1>4 DEF Fetch
<1>5. CASE DeliverInApp \/ SkipVoice \/ DeliverVoice
  <2>1. PICK d : Next1(d)
    BY <1>5 DEF DeliverInApp, SkipVoice, DeliverVoice
  <2>2. /\ job # NoJob
        /\ UNCHANGED <<topic, committed, consumer, position, resolved, handled>>
    BY <1>5 DEF DeliverInApp, SkipVoice, DeliverVoice
  <2>3. /\ job'.rm = job.rm /\ job'.offset = job.offset
        /\ job' = [rm |-> job'.rm, offset |-> job'.offset, msg |-> job'.msg,
                   done |-> job'.done, todo |-> job'.todo]
    BY <2>1, <2>2, ChannelKeepsJob
  <2> QED
    BY <2>2, <2>3
<1>6. CASE PublishReceipt
  <2> DEFINE rm == job.rm
  <2>1. /\ rm \in RMs /\ job.offset = position[rm] /\ consumer = "running" /\ job' = NoJob
        /\ UNCHANGED <<topic, committed, consumer>>
        /\ position' = [position EXCEPT ![rm] = @ + 1]
        /\ resolved' = [resolved EXCEPT ![rm] = TRUE]
        /\ handled' = [handled EXCEPT ![rm] = @ \cup {job.offset}]
    BY <1>6 DEF PublishReceipt
  <2> HIDE DEF rm
  <2>2. OffsetsOK'
    BY <2>1
  <2>3. ASSUME NEW r \in RMs, committed[r] # NoOffset, NEW o \in committed[r] .. (position'[r] - 1)
        PROVE  o \in handled'[r]
    BY <2>1, <2>3
  <2> QED
    BY <2>1, <2>2, <2>3
<1>7. ASSUME NEW rm \in RMs, Commit(rm) PROVE OffsetsOK' /\ PassedIsHandled'
  BY <1>7 DEF Commit
<1>8. ASSUME NEW s \in Sockets, NEW rm \in RMs, Connect(s, rm) PROVE OffsetsOK' /\ PassedIsHandled'
  BY <1>8 DEF Connect
<1>9. ASSUME NEW s \in Sockets, Disconnect(s) PROVE OffsetsOK' /\ PassedIsHandled'
  BY <1>9 DEF Disconnect
<1>10. CASE CrashService
  BY <1>10 DEF CrashService, NoOffset
<1>13. CASE Expel
  BY <1>13 DEF Expel
<1>14. CASE Rejoin
  <2>1. \A rm \in RMs : End(rm) \in Nat
    BY DEF End
  <2>2. /\ position' \in [RMs -> Nat]
        /\ \A rm \in RMs : committed[rm] # NoOffset => position'[rm] = committed[rm]
    BY <1>14, <2>1 DEF Rejoin, Seek
  <2> QED
    BY <1>14, <2>2 DEF Rejoin
<1>11. ASSUME NEW rm \in RMs, Produce(rm) PROVE OffsetsOK' /\ PassedIsHandled'
  BY <1>11 DEF Produce
<1>12. CASE UNCHANGED dvars
  BY <1>12 DEF dvars
<1> QED
  BY <1>1, <1>2, <1>3, <1>4, <1>5, <1>6, <1>7, <1>8, <1>9, <1>10, <1>11, <1>12, <1>13, <1>14
     DEF DeliveryNext, ServiceStep, Handle

\* Whatever crashes or is expelled and wherever, the group's committed offset never passes a message
\* whose handler has not run to its end.
THEOREM NoneSkipped == DeliverySpec => NothingSkipped
<1> DEFINE Passes == \A rm \in RMs : committed[rm] # NoOffset =>
                        \A o \in committed[rm] .. (committed'[rm] - 1) : o \in handled[rm]
<1>1. DeliveryInv /\ [DeliveryNext]_dvars => [Passes]_dvars
  <2> SUFFICES ASSUME DeliveryInv, DeliveryNext, NEW rm \in RMs, committed[rm] # NoOffset,
                      NEW o \in committed[rm] .. (committed'[rm] - 1)
               PROVE  o \in handled[rm]
    OBVIOUS
  <2>1. CASE committed'[rm] = committed[rm]
    BY <2>1 DEF DeliveryInv, OffsetsOK
  <2>2. ASSUME NEW r \in RMs, Commit(r) PROVE o \in handled[rm]
    BY <2>2 DEF Commit, DeliveryInv, OffsetsOK, PassedIsHandled
  <2> QED
    BY <2>1, <2>2 DEF DeliveryNext, ServiceStep, Handle, StartConsumer, StartConsumerFails, StartProducer, Fetch,
       DeliverInApp, SkipVoice, DeliverVoice, PublishReceipt, Connect, Disconnect, CrashService, Expel, Rejoin, Produce, kafka
<1> QED
  BY <1>1, DeliveryInvInit, DeliveryInvStep, PTL DEF DeliverySpec, NothingSkipped

\* An alert has one partition; the message at hand is in its own, its channels each once.
JobInv ==
    /\ consumer # "running" => job = NoJob /\ \A rm \in RMs : position[rm] = NoOffset
    /\ consumer = "running" => \A rm \in RMs : position[rm] > 0
    /\ \A r, q \in RMs : \A i \in DOMAIN topic[r], k \in DOMAIN topic[q] :
          topic[r][i].alert_id = topic[q][k].alert_id => r = q
    /\ job # NoJob =>
          /\ job.offset \in DOMAIN topic[job.rm] /\ job.msg = topic[job.rm][job.offset]
          /\ job.todo \in Seq(Channels)
          /\ \A i, k \in DOMAIN job.todo : job.todo[i] = job.todo[k] => i = k

\* The consumer running now has been through with a message as far as a channel goes.
Passed(rm, o, ch) ==
    \/ o < position[rm]
    \/ /\ o = position[rm] /\ job # NoJob /\ job.rm = rm
       /\ \A i \in DOMAIN job.todo : job.todo[i] # ch

\* The place of an alert in its partition.
Stands(rm, o, id) == o \in DOMAIN topic[rm] /\ topic[rm][o].alert_id = id

\* The calls placed for an alert differ, and those of the consumer running now are
\* for messages it has passed.
CallInv ==
    /\ called \in [AlertIds -> Seq(Event)] /\ crashes \in Nat /\ rejoins \in Nat
    /\ \A id \in AlertIds : \A i \in DOMAIN called[id] :
          /\ called[id][i].epoch <= Epoch
          /\ called[id][i].epoch = Epoch =>
                \E rm \in RMs : /\ Stands(rm, called[id][i].offset, id)
                                /\ Passed(rm, called[id][i].offset, "VOICE")
          /\ \A k \in DOMAIN called[id] : called[id][i] = called[id][k] => i = k

\* What a socket saw is a message of its partition; what the consumer running now
\* emitted, it has passed; and what one incarnation emitted came in order.
ShownInv ==
    /\ room \in [Sockets -> RMs \cup {Absent}] /\ shown \in [Sockets -> Seq(Event)]
    /\ crashes \in Nat /\ rejoins \in Nat
    /\ \A s \in Sockets : room[s] # Absent => \A i \in DOMAIN shown[s] :
          /\ Stands(room[s], shown[s][i].offset, shown[s][i].alert)
          /\ shown[s][i].epoch <= Epoch
          /\ shown[s][i].epoch = Epoch => Passed(room[s], shown[s][i].offset, "IN_APP")
          /\ \A k \in DOMAIN shown[s] : i < k /\ shown[s][i].epoch = shown[s][k].epoch =>
                shown[s][i].offset < shown[s][k].offset

\* JobInv holds initially.
LEMMA JobInvInit == DeliveryInit => JobInv
BY DEF DeliveryInit, JobInv

\* A message is about an alert, its channels each once.
LEMMA Messages ==
    ASSUME NEW m \in Message
    PROVE  LET todo == IF m.channels = Absent THEN <<>> ELSE m.channels
           IN  /\ m.alert_id \in AlertIds /\ todo \in Seq(Channels)
               /\ \A i, k \in DOMAIN todo : todo[i] = todo[k] => i = k
<1>1. PICK id \in AlertIds, p \in Payloads :
        m = [alert_id |-> id, severity |-> p.severity, channels |-> p.channels, rm_name |-> p.rm_name]
  BY DEF Message
<1>2. m.alert_id = id /\ m.channels = p.channels
  BY <1>1
<1> QED
  BY <1>2, PayloadAssumption

\* The rest of a list whose members differ.
LEMMA TailOfDistinct ==
    ASSUME NEW S, NEW s \in Seq(S), s # <<>>, \A i, k \in DOMAIN s : s[i] = s[k] => i = k
    PROVE  /\ Tail(s) \in Seq(S) /\ \A i, k \in DOMAIN Tail(s) : Tail(s)[i] = Tail(s)[k] => i = k
           /\ \A i \in DOMAIN Tail(s) : Tail(s)[i] # Head(s) /\ \E k \in DOMAIN s : Tail(s)[i] = s[k]
<1>1. Tail(s) \in Seq(S) /\ DOMAIN Tail(s) = 1 .. Len(s) - 1 /\ Len(s) \in Nat /\ Len(s) > 0 /\ DOMAIN s = 1 .. Len(s)
  OBVIOUS
<1>2. Head(s) = s[1] /\ \A i \in 1 .. Len(s) - 1 : Tail(s)[i] = s[i + 1]
  OBVIOUS
<1> QED
  BY <1>1, <1>2

\* JobInv is preserved.
LEMMA JobInvStep == DeliveryInv /\ JobInv /\ [DeliveryNext]_dvars => JobInv'
<1> SUFFICES ASSUME DeliveryInv, JobInv, [DeliveryNext]_dvars PROVE JobInv'
  OBVIOUS
<1> DEFINE Unique == \A r, q \in RMs : \A i \in DOMAIN topic[r], k \in DOMAIN topic[q] :
                        topic[r][i].alert_id = topic[q][k].alert_id => r = q
           Job == /\ job.offset \in DOMAIN topic[job.rm] /\ job.msg = topic[job.rm][job.offset]
                  /\ job.todo \in Seq(Channels)
                  /\ \A i, k \in DOMAIN job.todo : job.todo[i] = job.todo[k] => i = k
           Start == /\ consumer # "running" => job = NoJob /\ \A rm \in RMs : position[rm] = NoOffset
                    /\ consumer = "running" => \A rm \in RMs : position[rm] > 0
<1>0. /\ topic \in [RMs -> Seq(Message)] /\ committed \in [RMs -> Nat] /\ position \in [RMs -> Nat]
      /\ job # NoJob => job.rm \in RMs /\ job.offset = position[job.rm]
      /\ \A rm \in RMs : resolved[rm] => consumer = "running"
      /\ job # NoJob => consumer = "running"
  BY DEF DeliveryInv, OffsetsOK, PassedIsHandled, Running
<1>a. Unique /\ Start /\ (job # NoJob => Job)
  BY DEF JobInv
<1>b. ASSUME Unique', Start', job' # NoJob => Job' PROVE JobInv'
  BY <1>b DEF JobInv
<1>c. UNCHANGED topic => Unique'
  BY <1>a
<1>d. UNCHANGED <<topic, job>> => (job' # NoJob => Job')
  BY <1>a
<1>e. UNCHANGED <<consumer, position, job>> => Start'
  BY <1>a
<1> HIDE DEF Unique, Job, Start
<1> USE DEF kafka, log, service, clients, past
<1>1. CASE StartConsumer
  <2>1. job = NoJob /\ UNCHANGED <<topic, job>>
    BY <1>0, <1>1 DEF StartConsumer
  <2>2. \A rm \in RMs : position'[rm] > 0
    <3> SUFFICES ASSUME NEW rm \in RMs PROVE position'[rm] > 0
      OBVIOUS
    <3>1. End(rm) > 0 /\ committed[rm] \in Nat
      BY <1>0 DEF End
    <3> QED
      BY <1>1, <3>1 DEF StartConsumer, Seek, NoOffset
  <2> QED
    BY <1>1, <1>b, <1>c, <2>1, <2>2 DEF StartConsumer, Start
<1>2. CASE StartConsumerFails
  BY <1>2, <1>a, <1>b, <1>c, <1>d DEF StartConsumerFails, Start
<1>3. CASE StartProducer
  BY <1>3, <1>b, <1>c, <1>d, <1>e DEF StartProducer
<1>4. ASSUME NEW rm \in RMs, Fetch(rm) PROVE JobInv'
  <2> DEFINE m == topic[rm][position[rm]]
             todo == IF m.channels = Absent THEN <<>> ELSE m.channels
  <2>1. position[rm] \in DOMAIN topic[rm] /\ m \in Message
    BY <1>0, <1>4, <1>a DEF Fetch, End, Start
  <2>2. todo \in Seq(Channels) /\ \A i, k \in DOMAIN todo : todo[i] = todo[k] => i = k
    BY <2>1, Messages
  <2>3. /\ job' = [rm |-> rm, offset |-> position[rm], msg |-> m, done |-> <<>>, todo |-> todo]
        /\ UNCHANGED <<topic, consumer, position>> /\ consumer = "running"
    BY <1>4 DEF Fetch
  <2> HIDE DEF m, todo
  <2>4. job'.offset = position[rm] /\ job'.rm = rm /\ job'.msg = m /\ job'.todo = todo
    BY <2>3
  <2>5. Job'
    BY <2>1, <2>2, <2>3, <2>4 DEF Job, m
  <2>6. Start'
    BY <1>a, <2>3 DEF Start
  <2> QED
    BY <1>b, <1>c, <2>3, <2>5, <2>6
<1>5. CASE DeliverInApp \/ SkipVoice \/ DeliverVoice
  <2>1. PICK d : Next1(d)
    BY <1>5 DEF DeliverInApp, SkipVoice, DeliverVoice
  <2>2. job # NoJob /\ job.todo # <<>> /\ UNCHANGED <<topic, consumer, position>>
    BY <1>5 DEF DeliverInApp, SkipVoice, DeliverVoice
  <2>3. job = [rm |-> job.rm, offset |-> job.offset, msg |-> job.msg, done |-> job.done, todo |-> job.todo]
    BY <1>0, <2>2 DEF DeliveryInv, OffsetsOK, Running
  <2>4. job'.rm = job.rm /\ job'.offset = job.offset /\ job'.msg = job.msg /\ job'.todo = Tail(job.todo)
    BY <2>1, <2>3 DEF Next1
  <2>5. Job'
    BY <1>a, <2>2, <2>4, TailOfDistinct DEF Job
  <2>6. Start'
    BY <1>0, <1>a, <2>2 DEF Start
  <2> QED
    BY <1>b, <1>c, <2>2, <2>5, <2>6
<1>6. CASE PublishReceipt
  <2>1. job' = NoJob /\ consumer = "running" /\ UNCHANGED <<topic, consumer>>
        /\ position' = [position EXCEPT ![job.rm] = @ + 1]
    BY <1>0, <1>6 DEF PublishReceipt
  <2>2. Start'
    BY <1>0, <1>a, <2>1 DEF Start
  <2> QED
    BY <1>b, <1>c, <2>1, <2>2
<1>7. ASSUME NEW rm \in RMs, Commit(rm) PROVE JobInv'
  BY <1>7, <1>b, <1>c, <1>d, <1>e DEF Commit
<1>8. ASSUME NEW s \in Sockets, NEW rm \in RMs, Connect(s, rm) PROVE JobInv'
  BY <1>8, <1>b, <1>c, <1>d, <1>e DEF Connect
<1>9. ASSUME NEW s \in Sockets, Disconnect(s) PROVE JobInv'
  BY <1>9, <1>b, <1>c, <1>d, <1>e DEF Disconnect
<1>10. CASE CrashService
  <2>1. Start' /\ job' = NoJob /\ UNCHANGED topic
    BY <1>10 DEF CrashService, Start
  <2> QED
    BY <1>b, <1>c, <2>1
<1>13. CASE Expel
  BY <1>13, <1>b, <1>c, <1>d, <1>e DEF Expel
<1>14. CASE Rejoin
  <2>1. \A rm \in RMs : position'[rm] > 0
    <3> SUFFICES ASSUME NEW rm \in RMs PROVE position'[rm] > 0
      OBVIOUS
    <3>1. End(rm) > 0 /\ committed[rm] \in Nat
      BY <1>0 DEF End
    <3> QED
      BY <1>14, <3>1 DEF Rejoin, Seek, NoOffset
  <2>2. consumer' = "running" /\ job' = NoJob /\ UNCHANGED topic
    BY <1>14 DEF Rejoin
  <2> QED
    BY <1>b, <1>c, <2>1, <2>2 DEF Start
<1>11. ASSUME NEW rm \in RMs, Produce(rm) PROVE JobInv'
  <2>1. PICK m \in Message :
          /\ \A r \in RMs : \A i \in DOMAIN topic[r] : topic[r][i].alert_id = m.alert_id => r = rm
          /\ topic' = [topic EXCEPT ![rm] = Append(@, m)]
    BY <1>11 DEF Produce
  <2>2. UNCHANGED <<consumer, position, job>>
    BY <1>11 DEF Produce
  <2>3. \A r \in RMs : \A i \in DOMAIN topic'[r] :
          \/ i \in DOMAIN topic[r] /\ topic'[r][i] = topic[r][i]
          \/ r = rm /\ i = Len(topic[rm]) + 1 /\ topic'[r][i] = m
    BY <1>0, <2>1
  <2>4. \A r \in RMs : \A i \in DOMAIN topic[r] : i \in DOMAIN topic'[r] /\ topic'[r][i] = topic[r][i]
    BY <1>0, <2>1
  <2>5. Unique'
    BY <1>a, <2>1, <2>3 DEF Unique
  <2>6. job' # NoJob => Job'
    BY <1>0, <1>a, <2>2, <2>4 DEF Job
  <2> QED
    BY <1>b, <1>e, <2>2, <2>5, <2>6
<1>12. CASE UNCHANGED dvars
  BY <1>12, <1>b, <1>c, <1>d, <1>e DEF dvars
<1> QED
  BY <1>1, <1>2, <1>3, <1>4, <1>5, <1>6, <1>7, <1>8, <1>9, <1>10, <1>11, <1>12, <1>13, <1>14
     DEF DeliveryNext, ServiceStep, Handle

\* What the consumer has passed stays behind it until it starts anew.
LEMMA PassedKept ==
    ASSUME DeliveryInv, JobInv, [DeliveryNext]_dvars, ~CrashService, ~Rejoin,
           NEW rm \in RMs, NEW o \in Nat, NEW ch, Passed(rm, o, ch)
    PROVE  Passed(rm, o, ch)'
<1>0. /\ topic \in [RMs -> Seq(Message)] /\ position \in [RMs -> Nat]
      /\ job # NoJob => job.rm \in RMs /\ job.offset = position[job.rm]
  BY DEF DeliveryInv, OffsetsOK, Running
<1>a. UNCHANGED <<position, job>> => Passed(rm, o, ch)'
  BY DEF Passed
<1> USE DEF kafka, log, service, clients, past
<1>1. CASE StartConsumer
  BY <1>0, <1>1 DEF StartConsumer, Seek, JobInv, Passed, NoOffset
<1>2. CASE StartConsumerFails \/ StartProducer \/ Expel
  BY <1>2, <1>a DEF StartConsumerFails, StartProducer, Expel
<1>3. ASSUME NEW r \in RMs, Fetch(r) PROVE Passed(rm, o, ch)'
  BY <1>3 DEF Fetch, Passed
<1>4. CASE DeliverInApp \/ SkipVoice \/ DeliverVoice
  <2>1. PICK d : Next1(d)
    BY <1>4 DEF DeliverInApp, SkipVoice, DeliverVoice
  <2>2. job # NoJob /\ job.todo # <<>> /\ UNCHANGED position
    BY <1>4 DEF DeliverInApp, SkipVoice, DeliverVoice
  <2>3. job = [rm |-> job.rm, offset |-> job.offset, msg |-> job.msg, done |-> job.done, todo |-> job.todo]
    BY <1>0, <2>2 DEF DeliveryInv, OffsetsOK, Running
  <2>4. job' = [rm |-> job.rm, offset |-> job.offset, msg |-> job.msg, done |-> job.done \o d, todo |-> Tail(job.todo)]
    BY <2>1, <2>3 DEF Next1
  <2>5. job'.rm = job.rm /\ job'.todo = Tail(job.todo) /\ job' # NoJob
    BY <2>4 DEF NoJob
  <2>6. \A i \in DOMAIN Tail(job.todo) : \E k \in DOMAIN job.todo : Tail(job.todo)[i] = job.todo[k]
    BY <2>2, TailOfDistinct DEF JobInv
  <2> QED
    BY <2>2, <2>5, <2>6 DEF Passed
<1>5. CASE PublishReceipt
  <2>1. job # NoJob /\ position' = [position EXCEPT ![job.rm] = @ + 1]
    BY <1>5 DEF PublishReceipt
  <2>2. position[rm] \in Nat /\ (rm # job.rm => position'[rm] = position[rm])
        /\ (rm = job.rm => position'[rm] = position[rm] + 1)
    BY <1>0, <2>1
  <2>3. o < position[rm] \/ (o = position[rm] /\ rm = job.rm)
    BY DEF Passed
  <2>4. o < position'[rm]
    BY ONLY <2>2, <2>3, o \in Nat
  <2> QED
    BY <2>4 DEF Passed
<1>6. ASSUME NEW r \in RMs, Commit(r) \/ Produce(r) PROVE Passed(rm, o, ch)'
  BY <1>6, <1>a DEF Commit, Produce
<1>7. ASSUME NEW s \in Sockets, Disconnect(s) \/ \E r \in RMs : Connect(s, r) PROVE Passed(rm, o, ch)'
  BY <1>7, <1>a DEF Disconnect, Connect
<1>8. CASE UNCHANGED dvars
  BY <1>8, <1>a DEF dvars
<1> QED
  BY <1>1, <1>2, <1>3, <1>4, <1>5, <1>6, <1>7, <1>8 DEF DeliveryNext, ServiceStep, Handle

\* A partition only grows.
LEMMA StandsKept ==
    ASSUME DeliveryInv, [DeliveryNext]_dvars, NEW rm \in RMs, NEW o \in Nat, NEW id, Stands(rm, o, id)
    PROVE  Stands(rm, o, id)'
<1>1. CASE UNCHANGED topic
  BY <1>1 DEF Stands
<1>2. ASSUME NEW r \in RMs, Produce(r) PROVE Stands(rm, o, id)'
  <2>1. \E m \in Message : topic' = [topic EXCEPT ![r] = Append(@, m)]
    BY <1>2 DEF Produce
  <2>2. topic \in [RMs -> Seq(Message)]
    BY DEF DeliveryInv, OffsetsOK
  <2>3. o \in DOMAIN topic'[rm] /\ topic'[rm][o] = topic[rm][o]
    BY <2>1, <2>2 DEF Stands
  <2> QED
    BY <2>3 DEF Stands
<1> QED
  BY <1>1, <1>2 DEF DeliveryNext, ServiceStep, Handle, StartConsumer, StartConsumerFails, StartProducer, Fetch,
     DeliverInApp, SkipVoice, DeliverVoice, PublishReceipt, Commit, Connect, Disconnect, CrashService, Expel, Rejoin,
     dvars, kafka, log

\* The message at hand, and what is left of its channels when one is done.
LEMMA AtHand ==
    ASSUME DeliveryInv, JobInv, job # NoJob, job.todo # <<>>, NEW d, Next1(d)
    PROVE  /\ job.rm \in RMs /\ job.offset \in Nat /\ job.offset = position[job.rm]
           /\ Stands(job.rm, job.offset, job.msg.alert_id) /\ job.msg.alert_id \in AlertIds
           /\ job'.rm = job.rm /\ job' # NoJob
           /\ \A i \in DOMAIN job'.todo : job'.todo[i] # Head(job.todo)
           /\ ~Passed(job.rm, job.offset, Head(job.todo))
<1>0. /\ topic \in [RMs -> Seq(Message)] /\ position \in [RMs -> Nat]
      /\ job.rm \in RMs /\ job.offset = position[job.rm]
  BY DEF DeliveryInv, OffsetsOK, Running
<1>1. job = [rm |-> job.rm, offset |-> job.offset, msg |-> job.msg, done |-> job.done, todo |-> job.todo]
  BY <1>0 DEF DeliveryInv, OffsetsOK, Running
<1>2. job' = [rm |-> job.rm, offset |-> job.offset, msg |-> job.msg, done |-> job.done \o d, todo |-> Tail(job.todo)]
  BY <1>1 DEF Next1
<1>3. job'.rm = job.rm /\ job'.todo = Tail(job.todo) /\ job' # NoJob
  BY <1>2 DEF NoJob
<1>4. \A i \in DOMAIN Tail(job.todo) : Tail(job.todo)[i] # Head(job.todo)
  BY TailOfDistinct DEF JobInv
<1>5. job.offset \in DOMAIN topic[job.rm] /\ job.msg = topic[job.rm][job.offset]
  BY DEF JobInv
<1>6. job.msg \in Message
  BY <1>0, <1>5
<1>7. 1 \in DOMAIN job.todo /\ job.todo[1] = Head(job.todo)
  BY DEF JobInv
<1>8. ~Passed(job.rm, job.offset, Head(job.todo))
  BY <1>0, <1>7 DEF Passed
<1> QED
  BY <1>0, <1>3, <1>4, <1>5, <1>6, <1>8, Messages DEF Stands

\* CallInv is preserved: a call is placed only for a message not passed yet.
LEMMA CallInvStep == DeliveryInv /\ JobInv /\ CallInv /\ [DeliveryNext]_dvars => CallInv'
<1> SUFFICES ASSUME DeliveryInv, JobInv, CallInv, [DeliveryNext]_dvars PROVE CallInv'
  OBVIOUS
<1> DEFINE Made(id, c) == /\ c.epoch <= Epoch
                          /\ c.epoch = Epoch =>
                                \E rm \in RMs : Stands(rm, c.offset, id) /\ Passed(rm, c.offset, "VOICE")
           Calls(id)  == {called[id][i] : i \in DOMAIN called[id]}
           AllMade(id) == \A c \in Calls(id) : Made(id, c)
           Apart1(id) == \A i, k \in DOMAIN called[id] : called[id][i] = called[id][k] => i = k
           Types == called \in [AlertIds -> Seq(Event)] /\ crashes \in Nat /\ rejoins \in Nat
<1>0. Types /\ \A id \in AlertIds : Apart1(id) /\ AllMade(id)
  BY DEF CallInv
<1>t. \A id \in AlertIds : Calls(id) \subseteq Event
  BY <1>0
<1>a. ASSUME Types', \A id \in AlertIds : Apart1(id)' /\ AllMade(id)'
      PROVE  CallInv'
  BY <1>a DEF CallInv
<1>b. ASSUME ~CrashService, ~Rejoin, UNCHANGED <<crashes, rejoins>>,
             NEW id \in AlertIds, NEW c \in Event, Made(id, c)
      PROVE  Made(id, c)'
  <2>1. Epoch' = Epoch
    BY <1>b DEF Epoch
  <2>2. c.offset \in Nat
    BY DEF Event
  <2>3. ASSUME NEW rm \in RMs, Stands(rm, c.offset, id), Passed(rm, c.offset, "VOICE")
        PROVE  Stands(rm, c.offset, id)' /\ Passed(rm, c.offset, "VOICE")'
    BY <1>b, <2>2, <2>3, StandsKept, PassedKept
  <2> QED
    BY <1>b, <2>1, <2>3
<1>d. ASSUME \A id \in AlertIds : \A c \in Calls(id) : Made(id, c)', UNCHANGED called, Types'
      PROVE  CallInv'
  <2>1. \A id \in AlertIds : Calls(id)' = Calls(id)
    BY <1>d
  <2> HIDE DEF Made, Calls
  <2> QED
    BY <1>0, <1>a, <1>d, <2>1
<1>c. ASSUME UNCHANGED called, Types', Epoch' > Epoch, Epoch \in Nat, Epoch' \in Nat PROVE CallInv'
  <2>1. ASSUME NEW id \in AlertIds, NEW c \in Calls(id) PROVE Made(id, c)'
    <3>1. c \in Event /\ c.epoch <= Epoch
      BY <1>0, <1>t, <2>1
    <3>2. c.epoch \in Nat
      BY <3>1 DEF Event
    <3>3. c.epoch < Epoch'
      BY <1>c, <3>1, <3>2
    <3> QED
      BY <1>c, <3>2, <3>3
  <2> HIDE DEF Made, Calls
  <2> QED
    BY <1>c, <1>d, <2>1
<1>1. CASE CrashService
  <2>1. UNCHANGED <<called, rejoins>> /\ crashes' = crashes + 1
    BY <1>1 DEF CrashService
  <2>2. Epoch' > Epoch /\ Epoch \in Nat /\ Epoch' \in Nat
    BY <1>0, <2>1 DEF Epoch
  <2> QED
    BY <1>0, <1>c, <2>1, <2>2
<1>5. CASE Rejoin
  <2>1. UNCHANGED <<called, crashes>> /\ rejoins' = rejoins + 1
    BY <1>5 DEF Rejoin
  <2>2. Epoch' > Epoch /\ Epoch \in Nat /\ Epoch' \in Nat
    BY <1>0, <2>1 DEF Epoch
  <2> QED
    BY <1>0, <1>c, <2>1, <2>2
<1>2. CASE DeliverVoice
  <2>1. /\ job # NoJob /\ job.todo # <<>> /\ Head(job.todo) = "VOICE" /\ Next1(<<"VOICE">>)
        /\ called' = [called EXCEPT ![job.msg.alert_id] = Append(@, EventNow)] \/ UNCHANGED called
        /\ UNCHANGED <<crashes, rejoins, topic, position>>
    BY <1>2 DEF DeliverVoice, kafka, log, past
  <2>2. PICK r \in RMs, o \in Nat, id \in AlertIds : r = job.rm /\ o = job.offset /\ id = job.msg.alert_id
    BY <2>1, AtHand
  <2>3. /\ o = position[r] /\ Stands(r, o, id) /\ ~Passed(r, o, "VOICE")
        /\ job'.rm = r /\ job' # NoJob /\ \A i \in DOMAIN job'.todo : job'.todo[i] # "VOICE"
    BY <2>1, <2>2, AtHand
  <2>4. PICK new : new = EventNow
    OBVIOUS
  <2>5. new \in Event /\ new.offset = o /\ new.epoch = Epoch
    BY <1>0, <2>2, <2>4 DEF EventNow, Event, Epoch
  <2>6. ~\E q \in RMs : Stands(q, o, id) /\ Passed(q, o, "VOICE")
    BY <2>3 DEF JobInv, Stands
  <2>7. \A i \in DOMAIN called[id] : called[id][i] # new
    BY <1>0, <2>5, <2>6
  <2>8. ~CrashService /\ ~Rejoin /\ Epoch' = Epoch
    BY <1>0, <2>1 DEF CrashService, Rejoin, Epoch
  <2>9. Stands(r, o, id)' /\ Passed(r, o, "VOICE")'
    BY <2>1, <2>3 DEF Stands, Passed
  <2>10. Made(id, new)'
    BY <1>0, <2>5, <2>8, <2>9 DEF Epoch
  <2>11. \A x \in AlertIds : \A c \in Calls(x) : Made(x, c)'
    <3> HIDE DEF Made, Calls
    <3> QED
      BY <1>0, <1>b, <1>t, <2>1, <2>8
  <2>12. CASE UNCHANGED called
    <3>1. Types'
      BY <1>0, <2>1, <2>12
    <3> HIDE DEF Made, Calls
    <3> QED
      BY <1>d, <2>11, <2>12, <3>1
  <2>13. CASE called' = [called EXCEPT ![id] = Append(@, new)]
    <3>1. called[id] \in Seq(Event) /\ called'[id] = Append(called[id], new)
          /\ \A x \in AlertIds : x # id => called'[x] = called[x]
      BY <1>0, <2>13
    <3>0. PICK n \in Nat : n = Len(called[id]) + 1
      BY <3>1
    <3>2. /\ DOMAIN called'[id] = DOMAIN called[id] \cup {n} /\ called'[id][n] = new
          /\ \A i \in DOMAIN called[id] : i \in Nat /\ i < n /\ called'[id][i] = called[id][i]
      BY <3>0, <3>1
    <3>3. Types'
      BY <1>0, <2>1, <2>5, <2>13
    <3>4. Apart1(id)'
      BY <1>0, <2>7, <3>2
    <3>5. Calls(id)' = Calls(id) \cup {new} /\ \A x \in AlertIds : x # id => Calls(x)' = Calls(x)
      BY <3>1, <3>2
    <3>6. \A x \in AlertIds : x # id => Apart1(x)'
      BY <1>0, <3>1
    <3> HIDE DEF Made, Calls, Types, Apart1
    <3>7. \A x \in AlertIds : AllMade(x)'
      BY <2>10, <2>11, <3>5
    <3> QED
      BY <1>a, <3>3, <3>4, <3>6, <3>7
  <2> QED
    BY <2>1, <2>2, <2>4, <2>12, <2>13
<1>3. ASSUME ~CrashService, ~Rejoin, UNCHANGED <<called, crashes, rejoins>> PROVE CallInv'
  <2>1. Types'
    BY <1>0, <1>3
  <2> HIDE DEF Made, Calls
  <2>2. \A x \in AlertIds : \A c \in Calls(x) : Made(x, c)'
    BY <1>0, <1>b, <1>t, <1>3
  <2> QED
    BY <1>3, <1>d, <2>1, <2>2
<1>4. ~CrashService /\ ~Rejoin /\ ~DeliverVoice => UNCHANGED <<called, crashes, rejoins>>
  BY DEF DeliveryNext, ServiceStep, Handle, StartConsumer, StartConsumerFails, StartProducer, Fetch,
     DeliverInApp, SkipVoice, PublishReceipt, Commit, Expel, Connect, Disconnect, Produce, dvars, kafka, past
<1> QED
  BY <1>1, <1>2, <1>3, <1>4, <1>5

\* ShownInv is preserved: a socket is shown a message beyond those of this incarnation.
LEMMA ShownInvStep == DeliveryInv /\ JobInv /\ ShownInv /\ [DeliveryNext]_dvars => ShownInv'
<1> SUFFICES ASSUME DeliveryInv, JobInv, ShownInv, [DeliveryNext]_dvars PROVE ShownInv'
  OBVIOUS
<1> DEFINE Seen(rm, c) == /\ Stands(rm, c.offset, c.alert) /\ c.epoch <= Epoch
                          /\ c.epoch = Epoch => Passed(rm, c.offset, "IN_APP")
           Ordered(s) == \A i, k \in DOMAIN shown[s] : i < k /\ shown[s][i].epoch = shown[s][k].epoch =>
                            shown[s][i].offset < shown[s][k].offset
           Events(s) == {shown[s][i] : i \in DOMAIN shown[s]}
           Right(s) == \A rm \in RMs : room[s] = rm => Ordered(s) /\ \A c \in Events(s) : Seen(rm, c)
           Types == room \in [Sockets -> RMs \cup {Absent}] /\ shown \in [Sockets -> Seq(Event)]
                    /\ crashes \in Nat /\ rejoins \in Nat
<1>0. Types /\ (\A s \in Sockets : Right(s)) /\ \A s \in Sockets : room[s] # Absent => room[s] \in RMs
  BY RMAssumption DEF ShownInv
<1>t. \A s \in Sockets : Events(s) \subseteq Event
  BY <1>0
<1>z. ASSUME Types', \A s \in Sockets : Right(s)' PROVE ShownInv'
  BY <1>z DEF ShownInv
<1>a. ASSUME ~CrashService, ~Rejoin, UNCHANGED <<crashes, rejoins>>, NEW rm \in RMs, NEW c \in Event, Seen(rm, c)
      PROVE  Seen(rm, c)'
  <2>1. Epoch' = Epoch
    BY <1>a DEF Epoch
  <2>2. c.offset \in Nat
    BY DEF Event
  <2>3. Stands(rm, c.offset, c.alert)'
    BY <1>a, <2>2, StandsKept
  <2>4. c.epoch = Epoch => Passed(rm, c.offset, "IN_APP")'
    BY <1>a, <2>2, PassedKept
  <2> QED
    BY <1>a, <2>1, <2>3, <2>4
<1>3. ASSUME ~CrashService, ~Rejoin, UNCHANGED <<crashes, rejoins>>,
             NEW s \in Sockets, room'[s] = room[s], shown'[s] = shown[s]
      PROVE  Right(s)'
  <2>1. Events(s)' = Events(s) /\ (Ordered(s) => Ordered(s)')
    BY <1>3
  <2> HIDE DEF Seen, Ordered, Events
  <2>2. \A rm \in RMs : room[s] = rm => \A c \in Events(s) : Seen(rm, c)'
    BY <1>0, <1>3, <1>a, <1>t
  <2> QED
    BY <1>0, <1>3, <2>1, <2>2
<1>4. ASSUME ~CrashService, ~Rejoin, UNCHANGED <<room, shown, crashes, rejoins>> PROVE ShownInv'
  <2>1. \A s \in Sockets : Right(s)'
    BY <1>3, <1>4
  <2> HIDE DEF Right
  <2> QED
    BY <1>0, <1>4, <1>z, <2>1
<1>5. CASE CrashService
  <2>1. Types' /\ \A s \in Sockets : room'[s] = Absent
    BY <1>0, <1>5 DEF CrashService
  <2> QED
    BY <1>z, <2>1, RMAssumption
<1>10. CASE Rejoin
  <2>1. UNCHANGED <<room, shown, topic, crashes>> /\ rejoins' = rejoins + 1
    BY <1>10 DEF Rejoin, clients, kafka, log
  <2>2. Types' /\ Epoch \in Nat /\ Epoch' = Epoch + 1
    BY <1>0, <2>1 DEF Epoch
  <2>3. ASSUME NEW rm \in RMs, NEW c \in Event, Seen(rm, c) PROVE Seen(rm, c)'
    <3>1. Stands(rm, c.offset, c.alert)'
      BY <2>1, <2>3 DEF Stands
    <3>2. c.epoch \in Nat /\ c.epoch <= Epoch
      BY <2>3 DEF Event
    <3> QED
      BY <2>2, <3>1, <3>2
  <2>4. \A s \in Sockets : Events(s)' = Events(s) /\ (Ordered(s) => Ordered(s)')
    BY <2>1
  <2> HIDE DEF Seen, Ordered, Events
  <2>5. \A s \in Sockets : Right(s)'
    BY <1>0, <1>t, <2>1, <2>3, <2>4
  <2> QED
    BY <1>z, <2>2, <2>5
<1>6. ASSUME NEW x \in Sockets, Disconnect(x), ~CrashService, ~Rejoin PROVE ShownInv'
  <2>1. /\ Types' /\ room'[x] = Absent /\ UNCHANGED <<crashes, rejoins>>
        /\ \A s \in Sockets \ {x} : room'[s] = room[s] /\ shown'[s] = shown[s]
    BY <1>0, <1>6 DEF Disconnect, past
  <2>2. \A s \in Sockets \ {x} : Right(s)'
    BY <1>3, <1>6, <2>1
  <2> QED
    BY <1>z, <2>1, <2>2, RMAssumption
<1>7. ASSUME NEW x \in Sockets, NEW rm \in RMs, Connect(x, rm), ~CrashService, ~Rejoin PROVE ShownInv'
  <2>1. /\ Types' /\ shown'[x] = <<>> /\ UNCHANGED <<crashes, rejoins>>
        /\ \A s \in Sockets \ {x} : room'[s] = room[s] /\ shown'[s] = shown[s]
    BY <1>0, <1>7 DEF Connect, past
  <2>2. \A s \in Sockets \ {x} : Right(s)'
    BY <1>3, <1>7, <2>1
  <2>3. Right(x)'
    BY <2>1
  <2> QED
    BY <1>z, <2>1, <2>2, <2>3
<1>8. CASE DeliverInApp /\ ~CrashService /\ ~Rejoin
  <2>1. /\ job # NoJob /\ job.todo # <<>> /\ Head(job.todo) = "IN_APP" /\ Next1(<<"IN_APP">>)
        /\ shown' = [s \in Sockets |-> IF room[s] = job.rm THEN Append(shown[s], EventNow) ELSE shown[s]]
        /\ UNCHANGED <<topic, position, room, crashes, rejoins>>
    BY <1>8 DEF DeliverInApp, kafka, log, past
  <2>2. PICK rm \in RMs, at \in Nat, id \in AlertIds : rm = job.rm /\ at = job.offset /\ id = job.msg.alert_id
    BY <2>1, AtHand
  <2>3. /\ at = position[rm] /\ Stands(rm, at, id) /\ ~Passed(rm, at, "IN_APP")
        /\ job'.rm = rm /\ job' # NoJob /\ \A i \in DOMAIN job'.todo : job'.todo[i] # "IN_APP"
    BY <2>1, <2>2, AtHand
  <2>9. PICK new : new = EventNow
    OBVIOUS
  <2>10. new \in Event /\ new.offset = at /\ new.epoch = Epoch /\ new.alert = id
    BY <1>0, <2>2, <2>9 DEF EventNow, Event, Epoch
  <2>4. Types'
    BY <1>0, <2>1, <2>9, <2>10
  <2>5. Stands(rm, at, id)' /\ Passed(rm, at, "IN_APP")'
    BY <2>1, <2>3 DEF Stands, Passed
  <2>11. Epoch' = Epoch /\ Epoch \in Nat
    BY <1>0, <2>1 DEF Epoch
  <2>12. Seen(rm, new)'
    BY <2>5, <2>10, <2>11
  <2>6. ASSUME NEW s \in Sockets, room[s] = rm PROVE Right(s)'
    <3>1. shown[s] \in Seq(Event) /\ shown'[s] = Append(shown[s], new)
      BY <1>0, <2>1, <2>2, <2>6, <2>9
    <3>0. PICK n \in Nat : n = Len(shown[s]) + 1
      BY <3>1
    <3>2. /\ DOMAIN shown'[s] = DOMAIN shown[s] \cup {n} /\ shown'[s][n] = new
          /\ \A i \in DOMAIN shown[s] : i \in Nat /\ i < n /\ shown'[s][i] = shown[s][i]
      BY <3>0, <3>1
    <3>3. room'[s] = rm /\ room[s] # Absent
      BY <1>0, <2>1, <2>6, RMAssumption
    <3>4. \A c \in Events(s) : Seen(rm, c)'
      <4> HIDE DEF Seen, Events
      <4> QED
        BY <1>0, <1>8, <1>a, <1>t, <2>1, <2>6
    <3>5. ASSUME NEW i \in DOMAIN shown[s], shown[s][i].epoch = Epoch PROVE shown[s][i].offset < at
      <4>1. Passed(rm, shown[s][i].offset, "IN_APP")
        BY <1>0, <2>6, <3>3, <3>5
      <4> QED
        BY <2>3, <4>1 DEF Passed
    <3>6. Ordered(s)
      BY <1>0, <3>3
    <3>7. Events(s)' = Events(s) \cup {new}
      BY <3>2
    <3>8. Ordered(s)'
      <4> SUFFICES ASSUME NEW i \in DOMAIN shown'[s], NEW k \in DOMAIN shown'[s],
                          i < k, shown'[s][i].epoch = shown'[s][k].epoch
                   PROVE  shown'[s][i].offset < shown'[s][k].offset
        OBVIOUS
      <4>1. i \in DOMAIN shown[s] /\ shown'[s][i] = shown[s][i]
        BY <3>2
      <4>2. CASE k = n
        BY <2>10, <3>2, <3>5, <4>1, <4>2
      <4>3. CASE k # n
        BY <3>2, <3>6, <4>1, <4>3
      <4> QED
        BY <4>2, <4>3
    <3> HIDE DEF Seen, Ordered, Events
    <3> QED
      BY <2>12, <3>3, <3>4, <3>7, <3>8
  <2>7. ASSUME NEW s \in Sockets, room[s] # rm PROVE Right(s)'
    <3>1. shown'[s] = shown[s] /\ room'[s] = room[s]
      BY <2>1, <2>2, <2>7
    <3> QED
      BY <1>3, <1>8, <2>1, <3>1
  <2> HIDE DEF Right
  <2> QED
    BY <1>z, <2>4, <2>6, <2>7
<1>9. \/ CrashService \/ Rejoin \/ DeliverInApp
      \/ (\E x \in Sockets : Disconnect(x) \/ \E rm \in RMs : Connect(x, rm))
      \/ UNCHANGED <<room, shown, crashes, rejoins>>
  BY DEF DeliveryNext, ServiceStep, Handle, StartConsumer, StartConsumerFails, StartProducer, Fetch,
     SkipVoice, DeliverVoice, PublishReceipt, Commit, Expel, Produce, dvars, kafka, clients, past
<1> QED
  BY <1>4, <1>5, <1>6, <1>7, <1>8, <1>9, <1>10

\* The whole invariant holds of every behaviour.
LEMMA DeliveryInvariant == DeliverySpec => [](DeliveryInv /\ JobInv /\ CallInv /\ ShownInv)
<1> DEFINE Inv == DeliveryInv /\ JobInv /\ CallInv /\ ShownInv
<1>1. DeliveryInit => CallInv /\ ShownInv
  <2> SUFFICES ASSUME DeliveryInit PROVE CallInv /\ ShownInv
    OBVIOUS
  <2>1. CallInv
    BY DEF DeliveryInit, CallInv
  <2>2. room = [s \in Sockets |-> Absent] /\ shown = [s \in Sockets |-> <<>>]
    BY DEF DeliveryInit
  <2> QED
    BY <2>1, <2>2 DEF ShownInv, CallInv
<1>2. DeliveryInit => Inv
  BY <1>1, DeliveryInvInit, JobInvInit
<1>3. Inv /\ [DeliveryNext]_dvars => Inv'
  BY DeliveryInvStep, JobInvStep, CallInvStep, ShownInvStep
<1> HIDE DEF Inv
<1>4. DeliverySpec => []Inv
  BY <1>2, <1>3, PTL DEF DeliverySpec
<1> QED
  BY <1>4 DEF Inv

\* However messages, copies, channels, failures, crashes and expulsions interleave, the
\* telephone rings at most once for a message in one incarnation of the consumer.
THEOREM RepeatedCallsExplained == DeliverySpec => []RepeatedCallsNeedRedelivery
<1>1. CallInv => RepeatedCallsNeedRedelivery
  BY DEF CallInv, RepeatedCallsNeedRedelivery
<1> QED
  BY <1>1, DeliveryInvariant, PTL

\* Whatever is published, redelivered or lost, a socket that is connected has been shown
\* messages of its own partition only, and those of one incarnation of the consumer in
\* their order, each once.
THEOREM SocketsInOrder == DeliverySpec => []SocketSeesOrderedAlerts
<1>1. ShownInv => SocketSeesOrderedAlerts
  BY DEF ShownInv, SocketSeesOrderedAlerts, Stands
<1> QED
  BY <1>1, DeliveryInvariant, PTL
=============================================================================
