------------------------- MODULE ClientLookupProofs -------------------------
(***************************************************************************)
(* Proofs about ClientLookup, for any clients, RMs, persons and asks, and  *)
(* any number of requests, changes and faults.  The lemmas about the       *)
(* queries say that a client who bears the very name that is asked for is  *)
(* among the candidates of each of them, and that in the textScore nobody  *)
(* passes him by his name alone or by his mail and PAN alone; the          *)
(* invariant says what each stage of a request may count on.               *)
(***************************************************************************)
EXTENDS ClientLookup, FiniteSetTheorems, TLAPS

-----------------------------------------------------------------------------
(* Words and scores *)

\* The words of a name are finite in number.
LEMMA WordsOfAName ==
    ASSUME NEW n \in Seq(STRING)
    PROVE  IsFiniteSet(Words(n)) /\ Cardinality(Words(n)) \in Nat
<1> DEFINE I == 1 .. Len(n)
           P == {p \in I \X I :
                    /\ p[1] <= p[2] /\ \A k \in p[1] .. p[2] : n[k] \notin Delimiters
                    /\ p[1] = 1 \/ n[p[1] - 1] \in Delimiters
                    /\ p[2] = Len(n) \/ n[p[2] + 1] \in Delimiters}
           W == {SubSeq(n, p[1], p[2]) : p \in P}
           f == [p \in P |-> SubSeq(n, p[1], p[2])]
<1>1. Words(n) = W \ StopWords
  BY DEF Words
<1>2. IsFiniteSet(P)
  <2>1. IsFiniteSet(I)
    BY FS_Interval
  <2>2. IsFiniteSet(I \X I)
    BY <2>1, FS_Product
  <2>3. P \in SUBSET (I \X I)
    OBVIOUS
  <2> QED
    BY ONLY <2>2, <2>3, FS_Subset
<1>3. f \in Surjection(P, W)
  <2> HIDE DEF P
  <2>1. f \in [P -> W]
    OBVIOUS
  <2>2. \A w \in W : \E p \in P : f[p] = w
    OBVIOUS
  <2> QED
    BY ONLY <2>1, <2>2 DEF Surjection
<1>4. IsFiniteSet(W)
  <2> HIDE DEF P, W, f
  <2> QED
    BY <1>2, <1>3, FS_Surjection
<1>5. W \ StopWords \in SUBSET W
  OBVIOUS
<1> HIDE DEF W
<1>6. IsFiniteSet(W \ StopWords)
  BY ONLY <1>4, <1>5, FS_Subset
<1> QED
  BY <1>1, <1>6, FS_CardinalityType

\* A field has no more words in common with what is asked for than either has.
LEMMA CommonWords ==
    ASSUME NEW ask \in Seq(STRING), NEW words, IsFiniteSet(words)
    PROVE  /\ Common(ask, words) \in Nat /\ Size(words) \in Nat \ {0}
           /\ Common(ask, words) <= Cardinality(Words(ask))
           /\ Common(ask, words) <= Cardinality(words) /\ Cardinality(words) <= Size(words)
           /\ Common(ask, words) = Cardinality(Words(ask)) =>
                 /\ Words(ask) \subseteq words
                 /\ Cardinality(words) <= Cardinality(Words(ask)) => words = Words(ask)
<1> DEFINE A == Words(ask)
           C == A \cap words
<1>1. IsFiniteSet(A) /\ Cardinality(A) \in Nat /\ Cardinality(words) \in Nat
  BY WordsOfAName, FS_CardinalityType
<1>2. Common(ask, words) = Cardinality(C)
  BY DEF Common
<1>3. Size(words) \in Nat \ {0} /\ Cardinality(words) <= Size(words)
  BY <1>1, FS_EmptySet DEF Size
<1>4. C \in SUBSET A /\ C \in SUBSET words
  OBVIOUS
<1> HIDE DEF A
<1>5. /\ IsFiniteSet(C) /\ Cardinality(C) <= Cardinality(A)
      /\ Cardinality(A) = Cardinality(C) => A = C
  <2> HIDE DEF C
  <2> QED
    BY ONLY <1>1, <1>4, FS_Subset
<1>6. Cardinality(C) <= Cardinality(words)
  <2> HIDE DEF C
  <2> QED
    BY ONLY <1>4, FS_Subset, IsFiniteSet(words)
<1>7. Cardinality(C) \in Nat
  BY <1>5, FS_CardinalityType
<1>8. ASSUME A = C, Cardinality(words) <= Cardinality(A) PROVE words = A
  <2>1. A \in SUBSET words
    BY <1>8
  <2>2. Cardinality(A) <= Cardinality(words) /\ (Cardinality(words) = Cardinality(A) => words = A)
    BY ONLY <2>1, FS_Subset, IsFiniteSet(words)
  <2> QED
    BY <1>1, <1>8, <2>2
<1>9. A = C => A \subseteq words
  OBVIOUS
<1> HIDE DEF C
<1> QED
  BY <1>1, <1>2, <1>3, <1>5, <1>6, <1>7, <1>8, <1>9 DEF A

\* What a field scores in units of a 20th and its size: shared words of so many.
Pts(weight, shared, size) == weight * shared * (size + 1) * (IF size = 1 THEN 11 ELSE 10)

\* A product grows with its factors.
LEMMA Times ==
    ASSUME NEW a \in Nat, NEW b \in Nat, NEW c \in Nat \ {0}
    PROVE  a > b => a * c > b * c
<1> SUFFICES ASSUME a > b PROVE a * c > b * c
  OBVIOUS
<1>1. PICK d \in Nat : a = b + d /\ d >= 1
  <2>1. a - b \in Nat /\ a = b + (a - b) /\ a - b >= 1
    OBVIOUS
  <2> QED
    BY <2>1
<1>2. a * c = b * c + d * c
  BY <1>1
<1>3. d * c >= 1
  BY <1>1
<1> QED
  BY <1>2, <1>3

LEMMA Orders ==
    ASSUME NEW a \in Nat, NEW b \in Nat, NEW c \in Nat, a <= b
    PROVE  a * c <= b * c
<1>1. PICK d \in Nat : b = a + d
  <2>1. b - a \in Nat /\ b = a + (b - a)
    OBVIOUS
  <2> QED
    BY <2>1
<1>2. b * c = a * c + d * c
  BY <1>1
<1>3. d * c >= 0
  OBVIOUS
<1> QED
  BY <1>2, <1>3

\* A name of n words scores more by them than another of m words does by k of them, unless
\* that has the same words ...
LEMMA NameByWords ==
    ASSUME NEW n \in Nat, NEW m \in Nat, NEW k \in Nat,
           1 <= k, k <= n, k <= m, k = n => m > n
    PROVE  Pts(10, n, n) * m > Pts(10, k, m) * n
<1> DEFINE bn == IF n = 1 THEN 11 ELSE 10
           bm == IF m = 1 THEN 11 ELSE 10
<1>0. n >= 1 /\ m >= 1
  OBVIOUS
<1>1. (n + 1) * m * bn > k * (m + 1) * bm
  <2>1. CASE m = 1
    <3>1. k = 1 /\ n >= 2
      BY <2>1
    <3> QED
      BY <2>1, <3>1
  <2>2. CASE m # 1
    <3>1. (n + 1) * m > k * (m + 1)
      <4>1. (n + 1) * m = n * m + m /\ k * (m + 1) = k * m + k
        OBVIOUS
      <4>2. CASE k = n
        <5>1. m > n
          BY <4>2
        <5> QED
          BY <4>1, <4>2, <5>1
      <4>3. CASE k # n
        <5>1. (k + 1) * m <= n * m
          BY <4>3, Orders
        <5>2. (k + 1) * m = k * m + m
          OBVIOUS
        <5> QED
          BY <1>0, <4>1, <5>1, <5>2
      <4> QED
        BY <4>2, <4>3
    <3>2. bn >= 10 /\ bm = 10 /\ bn \in Nat
      BY <2>2
    <3> HIDE DEF bn, bm
    <3> DEFINE x == (n + 1) * m
               y == k * (m + 1)
    <3>3. x \in Nat /\ y \in Nat /\ x > y
      BY <3>1
    <3> HIDE DEF x, y
    <3>4. 10 * x <= bn * x
      BY ONLY <3>2, <3>3, Orders
    <3>5. x * bn > y * bm
      BY <3>2, <3>3, <3>4
    <3> QED
      BY <3>5 DEF x, y
  <2> QED
    BY <2>1, <2>2
<1>2. Pts(10, n, n) * m = ((n + 1) * m * bn) * (10 * n)
  BY DEF Pts
<1>3. Pts(10, k, m) * n = (k * (m + 1) * bm) * (10 * n)
  BY DEF Pts
<1>4. (n + 1) * m * bn \in Nat /\ k * (m + 1) * bm \in Nat /\ 10 * n \in Nat \ {0}
  BY <1>0
<1> HIDE DEF bn, bm
<1>5. ((n + 1) * m * bn) * (10 * n) > (k * (m + 1) * bm) * (10 * n)
  BY ONLY <1>1, <1>4, Times
<1> QED
  BY <1>2, <1>3, <1>5

\* ... and more than a mail address of m words by j of them, and a PAN.
LEMMA NameByOthers ==
    ASSUME NEW n \in Nat, NEW m \in Nat, NEW j \in Nat, NEW p \in {0, 1}, NEW z \in Nat,
           1 <= n, 1 <= m, j <= n, j <= m, p = 1 => z = 1
    PROVE  Pts(10, n, n) * m > (Pts(3, j, m) + Pts(1, p, z) * m) * n
<1> DEFINE bn == IF n = 1 THEN 11 ELSE 10
           bm == IF m = 1 THEN 11 ELSE 10
           q == (n + 1) * m
<1>1. q \in Nat \ {0}
  OBVIOUS
<1>2. j * (m + 1) <= q
  <2>1. j * m <= n * m
    BY Orders
  <2>2. j * (m + 1) = j * m + j /\ q = n * m + m
    OBVIOUS
  <2> QED
    BY <2>1, <2>2
<1>3. Pts(3, j, m) <= 33 * q /\ Pts(3, j, m) \in Nat
  <2> DEFINE x == j * (m + 1)
  <2>1. x \in Nat
    OBVIOUS
  <2>2. Pts(3, j, m) = 3 * x * bm
    BY DEF Pts
  <2>3. bm \in {10, 11}
    OBVIOUS
  <2> HIDE DEF x, bm, q
  <2>4. 3 * x * bm = 30 * x \/ 3 * x * bm = 33 * x
    BY <2>1, <2>3
  <2>5. x <= q
    BY <1>2 DEF x
  <2> QED
    BY <1>1, <2>1, <2>2, <2>4, <2>5
<1>4. Pts(1, p, z) * m <= 22 * q /\ Pts(1, p, z) \in Nat
  <2>1. CASE p = 0
    <3>1. Pts(1, p, z) = 0
      BY <2>1 DEF Pts
    <3> QED
      BY <1>1, <3>1
  <2>2. CASE p = 1
    <3>1. z = 1
      BY <2>2
    <3>2. Pts(1, p, z) = 22
      BY <2>2, <3>1 DEF Pts
    <3>3. q = n * m + m /\ n * m \in Nat
      OBVIOUS
    <3> QED
      BY <3>2, <3>3
  <2> QED
    BY <2>1, <2>2
<1>5. Pts(10, n, n) * m = (10 * q * bn) * n
  BY DEF Pts
<1>6. 10 * q * bn >= 100 * q
  <2>1. bn \in {10, 11}
    OBVIOUS
  <2> HIDE DEF bn, q
  <2> QED
    BY <1>1, <2>1
<1> DEFINE e == Pts(3, j, m) + Pts(1, p, z) * m
           l == 10 * q * bn
<1>7. e \in Nat /\ l \in Nat
  BY <1>1, <1>3, <1>4
<1>8. l > e
  <2> DEFINE f == Pts(1, p, z) * m
  <2>1. e = Pts(3, j, m) + f /\ f <= 22 * q /\ f \in Nat
    BY <1>4
  <2>2. l >= 100 * q
    BY <1>6
  <2> HIDE DEF e, f, l, q
  <2> QED
    BY <1>1, <1>3, <1>7, <2>1, <2>2
<1> HIDE DEF e, l
<1>9. l * n > e * n
  BY <1>7, <1>8, Times
<1> QED
  BY <1>5, <1>9 DEF e, l

\* So does whoever bears it, whatever else he scores.
LEMMA Fraction ==
    ASSUME NEW f \in Nat, NEW n \in Nat \ {0}, NEW e \in Nat, NEW m \in Nat \ {0},
           NEW g \in Nat, NEW k \in Nat \ {0}, NEW h \in Nat, NEW l \in Nat \ {0},
           (h = 0 /\ f * k > g * n) \/ (g = 0 /\ f * l > h * n)
    PROVE  (f * m + e * n) * (k * l) > (g * l + h * k) * (n * m)
<1>1. (f * m + e * n) * (k * l) = f * m * k * l + e * n * k * l
  OBVIOUS
<1>2. e * n * k * l \in Nat /\ f * m * k * l \in Nat
  OBVIOUS
<1>3. CASE h = 0 /\ f * k > g * n
  <2>1. m * l \in Nat \ {0} /\ f * k \in Nat /\ g * n \in Nat
    OBVIOUS
  <2>2. (f * k) * (m * l) > (g * n) * (m * l)
    BY ONLY <1>3, <2>1, Times
  <2>3. (g * l + h * k) * (n * m) = (g * n) * (m * l)
    BY <1>3
  <2>4. (f * k) * (m * l) = f * m * k * l
    OBVIOUS
  <2> QED
    BY <1>1, <1>2, <2>2, <2>3, <2>4
<1>4. CASE g = 0 /\ f * l > h * n
  <2>1. m * k \in Nat \ {0} /\ f * l \in Nat /\ h * n \in Nat
    OBVIOUS
  <2>2. (f * l) * (m * k) > (h * n) * (m * k)
    BY ONLY <1>4, <2>1, Times
  <2>3. (g * l + h * k) * (n * m) = (h * n) * (m * k)
    BY <1>4
  <2>4. (f * l) * (m * k) = f * m * k * l
    OBVIOUS
  <2> QED
    BY <1>1, <1>2, <2>2, <2>3, <2>4
<1> QED
  BY <1>3, <1>4

-----------------------------------------------------------------------------
(* The queries *)

Documents == doc \in [Clients -> [rm : RMs, who : Persons]]

\* What is asked for, and a name: sequences of letters, a person's words finite in number.
LEMMA Fields ==
    ASSUME NEW ask \in Asks, NEW p \in Persons
    PROVE  /\ ask \in Seq(STRING) /\ p.name \in Seq(STRING)
           /\ IsFiniteSet(Words(p.name)) /\ IsFiniteSet(p.mail) /\ IsFiniteSet(p.pan)
           /\ Cardinality(p.pan) \in {0, 1}
<1>1. /\ ask \in Seq(STRING) /\ p.name \in Seq(STRING) /\ IsFiniteSet(p.mail)
      /\ IsFiniteSet(p.pan) /\ Cardinality(p.pan) <= 1
  BY LookupAssumption DEF Names
<1>2. Cardinality(p.pan) \in Nat
  BY <1>1, FS_CardinalityType
<1> QED
  BY <1>1, <1>2, WordsOfAName

\* Nobody who shares but a part of the name, or only words of his mail address or PAN,
\* passes a client who bears the name.
LEMMA TheNameWins ==
    ASSUME NEW ask \in Asks, NEW p \in Persons, NEW o \in Persons, p.name = ask,
           Words(ask) # {}, Words(o.name) # Words(ask),
           ByName(ask, o) \/ ByOthers(ask, o), ~(ByName(ask, o) /\ ByOthers(ask, o))
    PROVE  Outscores(ask, p, o)
<1> DEFINE n == Cardinality(Words(ask))
           f == Field(ask, 10, Words(p.name))
           m == Size(p.mail)
           e == Field(ask, 3, p.mail) + Field(ask, 1, p.pan) * m
           g == Field(ask, 10, Words(o.name))
           k == Size(Words(o.name))
           l == Size(o.mail)
           h == Field(ask, 3, o.mail) + Field(ask, 1, o.pan) * l
<1>1. /\ ask \in Seq(STRING) /\ IsFiniteSet(Words(ask)) /\ n \in Nat \ {0}
      /\ IsFiniteSet(Words(o.name)) /\ IsFiniteSet(o.mail) /\ IsFiniteSet(o.pan)
      /\ IsFiniteSet(p.mail) /\ IsFiniteSet(p.pan) /\ Cardinality(o.pan) \in {0, 1}
  BY Fields, WordsOfAName, FS_EmptySet
<1>2. Size(Words(p.name)) = n /\ Common(ask, Words(p.name)) = n
  <2>1. Words(ask) \cap Words(ask) = Words(ask)
    OBVIOUS
  <2> QED
    BY <2>1 DEF Size, Common
<1>3. f = Pts(10, n, n)
  BY <1>2 DEF Field, Pts
<1> DEFINE a == Common(ask, Words(o.name))
           b == Common(ask, o.mail)
           c == Common(ask, o.pan)
           z == Size(o.pan)
<1>4. g = Pts(10, a, k) /\ h = Pts(3, b, l) + Pts(1, c, z) * l
  BY DEF Field, Pts
<1>5. /\ a \in Nat /\ k \in Nat \ {0} /\ a <= n /\ a <= k
      /\ a = n => k > n
  <2>1. /\ a \in Nat /\ k \in Nat \ {0} /\ a <= n /\ a <= Cardinality(Words(o.name))
        /\ Cardinality(Words(o.name)) <= k
        /\ a = n => (Cardinality(Words(o.name)) <= n => Words(o.name) = Words(ask))
    BY <1>1, CommonWords
  <2>2. a >= 1 => k = Cardinality(Words(o.name))
    BY <2>1, FS_EmptySet DEF Size
  <2>3. Cardinality(Words(o.name)) \in Nat
    BY <1>1, FS_CardinalityType
  <2> HIDE DEF a, k, n
  <2> QED
    BY <1>1, <2>1, <2>2, <2>3
<1>6. b \in Nat /\ l \in Nat \ {0} /\ b <= n /\ b <= l
  <2>1. /\ b \in Nat /\ l \in Nat \ {0} /\ b <= n /\ b <= Cardinality(o.mail)
        /\ Cardinality(o.mail) <= l
    BY <1>1, CommonWords
  <2>2. Cardinality(o.mail) \in Nat
    BY <1>1, FS_CardinalityType
  <2> HIDE DEF b, l, n
  <2> QED
    BY <1>1, <2>1, <2>2
<1>7. c \in {0, 1} /\ z \in Nat /\ (c = 1 => z = 1)
  <2>1. c \in Nat /\ z \in Nat \ {0} /\ c <= Cardinality(o.pan)
    BY <1>1, CommonWords
  <2>2. Cardinality(o.pan) = 1 => z = 1
    BY FS_EmptySet DEF Size
  <2> HIDE DEF c, z
  <2> QED
    BY <1>1, <2>1, <2>2
<1>8. f \in Nat /\ e \in Nat /\ m \in Nat \ {0} /\ g \in Nat /\ h \in Nat
  <2>1. \A w \in Nat, x \in {Words(p.name), p.mail, p.pan, Words(o.name), o.mail, o.pan} :
           Field(ask, w, x) \in Nat
    <3> SUFFICES ASSUME NEW w \in Nat, NEW x, IsFiniteSet(x) PROVE Field(ask, w, x) \in Nat
      BY <1>1
    <3>1. Common(ask, x) \in Nat /\ Size(x) \in Nat \ {0}
      BY <1>1, CommonWords
    <3> QED
      BY <3>1 DEF Field
  <2>2. m \in Nat \ {0}
    BY <1>1, CommonWords
  <2>3. /\ f \in Nat /\ Field(ask, 3, p.mail) \in Nat /\ Field(ask, 1, p.pan) \in Nat
        /\ g \in Nat /\ Field(ask, 3, o.mail) \in Nat /\ Field(ask, 1, o.pan) \in Nat
    BY <2>1
  <2>4. \A x, y, w \in Nat : x + y * w \in Nat
    OBVIOUS
  <2>5. l \in Nat
    BY <1>6
  <2> HIDE DEF f, g, m, l
  <2> QED
    BY <2>2, <2>3, <2>4, <2>5
<1>9. (h = 0 /\ f * k > g * n) \/ (g = 0 /\ f * l > h * n)
  <2>1. CASE ~ByOthers(ask, o)
    <3>1. a >= 1 /\ b = 0 /\ c = 0
      <4>1. a > 0 /\ ~(b + c > 0)
        BY <2>1 DEF ByName, ByOthers
      <4> HIDE DEF a, b, c
      <4> QED
        BY <1>5, <1>6, <1>7, <4>1
    <3>2. Pts(3, 0, l) = 0 /\ Pts(1, 0, z) * l = 0
      <4> HIDE DEF l, z
      <4> QED
        BY <1>6, <1>7 DEF Pts
    <3>3. h = 0
      BY <1>4, <3>1, <3>2
    <3>4. Pts(10, n, n) * k > Pts(10, a, k) * n
      <4> HIDE DEF n, k, a
      <4> QED
        BY <1>1, <1>5, <3>1, NameByWords
    <3> QED
      BY <1>3, <1>4, <3>3, <3>4
  <2>2. CASE ~ByName(ask, o)
    <3>1. a = 0
      <4>1. ~(a > 0)
        BY <2>2 DEF ByName
      <4> HIDE DEF a
      <4> QED
        BY <1>5, <4>1
    <3>2. Pts(10, 0, k) = 0
      <4> HIDE DEF k
      <4> QED
        BY <1>5 DEF Pts
    <3>3. Pts(10, n, n) * l > (Pts(3, b, l) + Pts(1, c, z) * l) * n
      <4> HIDE DEF n, b, c, l, z
      <4> QED
        BY <1>1, <1>6, <1>7, NameByOthers
    <3> QED
      BY <1>3, <1>4, <3>1, <3>2, <3>3
  <2> QED
    BY <2>1, <2>2
<1>10. Score(ask, p) = f * m + e * n /\ Score(ask, o) = g * l + h * k
  BY <1>2 DEF Score
<1>11. Outscores(ask, p, o) <=> Score(ask, p) * (k * l) > Score(ask, o) * (n * m)
  BY <1>2 DEF Outscores
<1> HIDE DEF f, m, e, g, k, l, h, n
<1>12. (f * m + e * n) * (k * l) > (g * l + h * k) * (n * m)
  BY ONLY <1>1, <1>5, <1>6, <1>8, <1>9, Fraction
<1> QED
  BY <1>10, <1>11, <1>12

\* So a client who bears the name asked for is a hit of the text search, and the answer is
\* one whom it cannot tell from him.
LEMMA TextHitsTheName ==
    ASSUME Documents, NEW r \in RMs, NEW ask \in Asks, Words(ask) # {},
           NEW d \in Clients, doc[d].rm = r, doc[d].who.name = ask
    PROVE  /\ d \in TextHits(r, ask)
           /\ \A c \in TextHits(r, ask) :
                 Outscores(ask, doc[d].who, doc[c].who) \/ Confusable(ask, doc[c].who)
<1>1. doc[d].who \in Persons
  BY DEF Documents
<1>2. ByName(ask, doc[d].who)
  <2>1. IsFiniteSet(Words(ask)) /\ Cardinality(Words(ask)) \in Nat
    BY LookupAssumption, WordsOfAName
  <2>2. Cardinality(Words(ask)) > 0
    BY <2>1, FS_EmptySet
  <2>3. Words(ask) \cap Words(ask) = Words(ask)
    OBVIOUS
  <2> QED
    BY <2>2, <2>3 DEF ByName, Common
<1>3. ASSUME NEW c \in TextHits(r, ask), ~Confusable(ask, doc[c].who)
      PROVE  Outscores(ask, doc[d].who, doc[c].who)
  <2>1. /\ doc[c].who \in Persons
        /\ ByName(ask, doc[c].who) \/ ByOthers(ask, doc[c].who)
    BY DEF TextHits, ClientsOf, Documents
  <2>2. Words(doc[c].who.name) # Words(ask) /\ ~(ByName(ask, doc[c].who) /\ ByOthers(ask, doc[c].who))
    BY <1>3 DEF Confusable
  <2> QED
    BY <1>1, <2>1, <2>2, TheNameWins
<1> QED
  BY <1>2, <1>3 DEF TextHits, ClientsOf

\* So is he of the regular expression, and of the similarity if he is compared.
LEMMA FitsItself ==
    ASSUME NEW n \in Seq(STRING)
    PROVE  Fits(n, n) /\ Includes(n, n)
<1>1. Len(n) \in Nat /\ 0 \in 0 .. Len(n) - Len(n)
  OBVIOUS
<1>2. SubSeq(n, 0 + 1, 0 + Len(n)) = n
  OBVIOUS
<1>3. \A k \in 1 .. Len(n) : n[k] \in {Stop, n[0 + k]}
  OBVIOUS
<1> QED
  BY <1>1, <1>2, <1>3 DEF Fits, Includes

LEMMA RegexHitsTheName ==
    ASSUME NEW r \in RMs, NEW ask \in Asks, NEW d \in Clients, doc[d].rm = r, doc[d].who.name = ask
    PROVE  d \in RegexHits(r, ask)
BY FitsItself, LookupAssumption DEF RegexHits, ClientsOf

LEMMA FuzzyHitsTheName ==
    ASSUME NEW seen, NEW ask \in Asks, NEW d \in seen, doc[d].who.name = ask
    PROVE  d \in FuzzyHits(seen, ask)
<1>1. Similarity(ask, ask) = 95
  BY FitsItself, LookupAssumption DEF Similarity
<1> QED
  BY <1>1 DEF FuzzyHits

-----------------------------------------------------------------------------
(* The invariant *)

Snapshots == [id : Clients, rm : RMs, who : Persons]
Looking   == {"hget", "resolve", "text", "regex", "fuzzy"}
Stages    == Looking \cup {"hset", "expire", "scan", "hsetall", "done"}
Requests  == [pc : Stages, rm : RMs \cup {Nobody}, ask : Asks \cup {<<>>},
              hit : Clients \cup {Nobody}, best : Snapshots \cup {NoDoc},
              list : SUBSET Snapshots, failed : SUBSET Looking, there : SUBSET Clients]

\* The values the variables range over.
TypeOK ==
    /\ Documents
    /\ hash \in [RMs -> SUBSET (Names \X Clients)]
    /\ bore \in [Clients -> SUBSET (RMs \X Names)]
    /\ call \in [Calls -> Requests]

\* The hash of an RM has no name that its client never bore with this RM.
Founded ==
    /\ \A c \in Clients : <<doc[c].rm, doc[c].who.name>> \in bore[c]
    /\ \A r \in RMs : \A e \in hash[r] : <<r, e[1]>> \in bore[e[2]]

\* What RightClient says of an answer.
Right(k) ==
    /\ k.best.rm = k.rm
    /\ \/ <<k.rm, k.ask>> \in bore[k.best.id]
       \/ /\ Matches(k.ask, k.best.who)
          /\ k.there = {} \/ "text" \in k.failed \/ Confusable(k.ask, k.best.who)

\* Why the text search and the regular expression may have passed over a name.
TextBlind(k)  == "text" \in k.failed \/ Words(k.ask) = {}
RegexBlind(k) == "regex" \in k.failed \/ ~Plain(k.ask)

\* What a request may count on at each stage: what it carries was true when it was read,
\* whoever had the name throughout has it now, and a query was passed without a hit
\* only if nobody is left who had it or the query had a reason.
RequestOK(k) ==
    /\ k.pc # "done" => k.rm \in RMs
    /\ k.pc \in Looking => k.ask \in Asks /\ k.best = NoDoc
    /\ k.pc \in {"scan", "hsetall"} => k.ask = <<>> /\ k.best = NoDoc
    /\ k.pc = "resolve" => k.hit \in Clients /\ <<k.rm, k.ask>> \in bore[k.hit]
    /\ k.pc = "hset" => k.best # NoDoc
    /\ k.pc = "expire" => k.best # NoDoc \/ k.ask = <<>>
    /\ \A s \in k.list : s.rm = k.rm /\ <<s.rm, s.who.name>> \in bore[s.id]
    /\ k.best # NoDoc => <<k.best.rm, k.best.who.name>> \in bore[k.best.id] /\ Right(k)
    /\ \A c \in k.there : doc[c].rm = k.rm /\ doc[c].who.name = k.ask
    /\ k.pc = "regex" => k.there = {} \/ TextBlind(k)
    /\ k.pc = "fuzzy" => k.there = {} \/ (TextBlind(k) /\ RegexBlind(k))
    /\ k.pc = "done" /\ k.ask # <<>> /\ k.best = NoDoc =>
          k.there = {} \/ (TextBlind(k) /\ RegexBlind(k) /\ "fuzzy" \in k.failed)

LookupInv == TypeOK /\ Founded /\ \A q \in Calls : RequestOK(call[q])

\* The invariant holds initially.
LEMMA LookupInvInit == LookupInit => LookupInv
<1> SUFFICES ASSUME LookupInit PROVE LookupInv
  OBVIOUS
<1>1. TypeOK
  BY DEF LookupInit, TypeOK, Documents, Requests, Idle, Stages, Looking, Names
<1>2. Founded
  BY DEF LookupInit, Founded
<1>3. RequestOK(Idle)
  BY DEF RequestOK, Idle, Looking
<1> QED
  BY <1>1, <1>2, <1>3 DEF LookupInv, LookupInit

\* A client and his snapshot.
LEMMA SnapshotTaken ==
    ASSUME TypeOK, Founded, NEW c \in Clients
    PROVE  /\ Snapshot(c) \in Snapshots /\ Snapshot(c) # NoDoc
           /\ Snapshot(c).id = c /\ Snapshot(c).rm = doc[c].rm /\ Snapshot(c).who = doc[c].who
           /\ <<Snapshot(c).rm, Snapshot(c).who.name>> \in bore[c]
<1>1. Snapshot(c) = [id |-> c, rm |-> doc[c].rm, who |-> doc[c].who]
  BY DEF Snapshot
<1>2. c # Nobody
  BY LookupAssumption DEF Nobody
<1> QED
  BY <1>1, <1>2 DEF TypeOK, Documents, Founded, Snapshots, NoDoc

\* Every step keeps the types.
LEMMA TypeStep == LookupInv /\ [LookupNext]_lvars => TypeOK'
<1> SUFFICES ASSUME LookupInv, [LookupNext]_lvars PROVE TypeOK'
  OBVIOUS
<1> USE DEF LookupInv
<1>0. \A q \in Calls, k \in Requests : [call EXCEPT ![q] = k] \in [Calls -> Requests]
  BY DEF TypeOK
<1>1. ASSUME NEW q \in Calls, NEW r \in RMs, NEW n \in Asks \cup {<<>>}, NEW pc \in Stages, Begin(q, r, n, pc)
      PROVE  TypeOK'
  BY <1>1 DEF TypeOK, Documents, Requests, Begin, Idle, ClientsOf
<1>2. ASSUME NEW q \in Calls, NEW pc \in Stages, Goto(q, pc) PROVE call' \in [Calls -> Requests]
  BY <1>2 DEF TypeOK, Goto, Requests
<1>3. ASSUME NEW q \in Calls, NEW pc \in Stages, NEW c \in Clients,
             call' = [call EXCEPT ![q].pc = pc, ![q].best = Snapshot(c)]
      PROVE  call' \in [Calls -> Requests]
  <2> DEFINE k == [call[q] EXCEPT !.pc = pc, !.best = Snapshot(c)]
  <2>1. Snapshot(c) \in Snapshots
    BY SnapshotTaken
  <2>2. k \in Requests
    BY <2>1 DEF TypeOK, Requests
  <2>3. call' = [call EXCEPT ![q] = k]
    BY <1>3 DEF TypeOK
  <2> QED
    BY <1>0, <2>2, <2>3
<1>4. ASSUME call' \in [Calls -> Requests], UNCHANGED <<doc, bore>>,
             \/ UNCHANGED hash
             \/ \E r \in RMs, entries \in SUBSET (Names \X Clients) : Put(r, entries)
      PROVE  TypeOK'
  <2>1. hash' \in [RMs -> SUBSET (Names \X Clients)]
    BY <1>4 DEF TypeOK, Put
  <2> QED
    BY <1>4, <2>1 DEF TypeOK, Documents
<1>5. ASSUME NEW q \in Calls, HGet(q) PROVE TypeOK'
  <2>1. CASE Goto(q, "text")
    BY <1>2, <1>4, <1>5, <2>1 DEF HGet, Stored, Stages, Looking
  <2>2. ASSUME NEW e \in hash[call[q].rm], call' = [call EXCEPT ![q].pc = "resolve", ![q].hit = e[2]]
        PROVE  call' \in [Calls -> Requests]
    <3> DEFINE k == [call[q] EXCEPT !.pc = "resolve", !.hit = e[2]]
    <3>1. call[q].rm \in RMs
      BY <1>5 DEF HGet, RequestOK
    <3>2. hash[call[q].rm] \in SUBSET (Names \X Clients)
      BY <3>1 DEF TypeOK
    <3>3. e[2] \in Clients
      BY <3>2
    <3>4. k \in Requests
      BY <3>3 DEF TypeOK, Requests, Stages, Looking
    <3>5. call' = [call EXCEPT ![q] = k]
      BY <2>2 DEF TypeOK
    <3> HIDE DEF k
    <3> QED
      BY <1>0, <3>4, <3>5
  <2> QED
    BY <1>4, <1>5, <2>1, <2>2 DEF HGet, Stored
<1>6. ASSUME NEW q \in Calls, Resolve(q) PROVE TypeOK'
  <2>1. call[q].hit \in Clients
    BY <1>6 DEF Resolve, RequestOK
  <2>2. call' \in [Calls -> Requests]
    BY <1>2, <1>3, <1>6, <2>1 DEF Resolve, Stages, Looking
  <2> QED
    BY <1>4, <1>6, <2>2 DEF Resolve, Stored
<1>7. ASSUME NEW q \in Calls, NEW c \in Clients, Found(q, c), Stored PROVE TypeOK'
  <2>1. call' \in [Calls -> Requests]
    BY <1>3, <1>7 DEF Found, Stages
  <2> QED
    BY <1>4, <1>7, <2>1 DEF Stored
<1>8. ASSUME NEW q \in Calls, NEW pc \in Stages, Goto(q, pc), Stored PROVE TypeOK'
  <2>1. call' \in [Calls -> Requests]
    BY <1>2, <1>8
  <2> QED
    BY <1>4, <1>8, <2>1 DEF Stored
<1>20. ASSUME NEW q \in Calls, TextSearch(q) PROVE TypeOK'
  <2>1. Stored /\ (Goto(q, "regex") \/ \E c \in Clients : Found(q, c))
    BY <1>20 DEF TextSearch, TextHits, ClientsOf
  <2>2. "regex" \in Stages
    BY DEF Stages, Looking
  <2> QED
    BY <1>7, <1>8, <2>1, <2>2
<1>21. ASSUME NEW q \in Calls, RegexSearch(q) PROVE TypeOK'
  <2>1. Stored /\ (Goto(q, "fuzzy") \/ \E c \in Clients : Found(q, c))
    BY <1>21 DEF RegexSearch, ClientsOf
  <2>2. "fuzzy" \in Stages
    BY DEF Stages, Looking
  <2> QED
    BY <1>7, <1>8, <2>1, <2>2
<1>22. ASSUME NEW q \in Calls, FuzzySearch(q) PROVE TypeOK'
  <2>1. /\ Stored
        /\ \/ \E c \in Clients : Found(q, c)
           \/ \E f \in SUBSET Looking :
                 call' = [call EXCEPT ![q].pc = "done", ![q].failed = @ \cup f]
    BY <1>22 DEF FuzzySearch, FuzzyHits, ClientsOf, Looking
  <2>2. ASSUME NEW f \in SUBSET Looking, call' = [call EXCEPT ![q].pc = "done", ![q].failed = @ \cup f]
        PROVE  call' \in [Calls -> Requests]
    <3> DEFINE k == [call[q] EXCEPT !.pc = "done", !.failed = @ \cup f]
    <3>1. k \in Requests
      BY DEF TypeOK, Requests, Stages
    <3>2. call' = [call EXCEPT ![q] = k]
      BY <2>2 DEF TypeOK
    <3> HIDE DEF k
    <3> QED
      BY <1>0, <3>1, <3>2
  <2> QED
    BY <1>4, <1>7, <2>1, <2>2 DEF Stored
<1>9. ASSUME NEW q \in Calls, StageFails(q) PROVE TypeOK'
  <2>1. PICK step \in {<<"hget", "text">>, <<"resolve", "text">>, <<"text", "regex">>,
                       <<"regex", "fuzzy">>, <<"fuzzy", "done">>} :
             call' = [call EXCEPT ![q].pc = step[2], ![q].failed = @ \cup {step[1]}]
    BY <1>9 DEF StageFails
  <2> DEFINE k == [call[q] EXCEPT !.pc = step[2], !.failed = @ \cup {step[1]}]
  <2>2. step[1] \in Looking /\ step[2] \in Stages
    BY DEF Stages, Looking
  <2>3. k \in Requests
    BY <2>2 DEF TypeOK, Requests
  <2>4. call' = [call EXCEPT ![q] = k]
    BY <2>1 DEF TypeOK
  <2> HIDE DEF k
  <2>5. call' \in [Calls -> Requests]
    BY <1>0, <2>3, <2>4
  <2> QED
    BY <1>4, <1>9, <2>5 DEF StageFails, Stored
<1>10. ASSUME NEW q \in Calls, HSet(q) PROVE TypeOK'
  <2>1. call[q].rm \in RMs /\ call[q].best \in Snapshots
    BY <1>10 DEF HSet, RequestOK, TypeOK, Requests
  <2>2. {<<call[q].best.who.name, call[q].best.id>>} \in SUBSET (Names \X Clients)
    BY <2>1 DEF Snapshots, Names
  <2> QED
    BY <1>2, <1>4, <1>10, <2>1, <2>2 DEF HSet, Stages
<1>11. ASSUME NEW q \in Calls, Scan(q) PROVE TypeOK'
  <2> DEFINE l == {Snapshot(c) : c \in ClientsOf(call[q].rm)}
             pc == IF ClientsOf(call[q].rm) = {} THEN "done" ELSE "hsetall"
             k == [call[q] EXCEPT !.list = l, !.pc = pc]
  <2>1. l \in SUBSET Snapshots /\ pc \in Stages
    BY SnapshotTaken DEF ClientsOf, Stages
  <2>2. call' = [call EXCEPT ![q] = k]
    BY <1>11 DEF Scan, TypeOK
  <2>3. k \in Requests
    <3> HIDE DEF l, pc
    <3> QED
      BY <2>1 DEF TypeOK, Requests
  <2> HIDE DEF k
  <2> QED
    BY <1>0, <1>4, <1>11, <2>2, <2>3 DEF Scan, Stored
<1>12. ASSUME NEW q \in Calls, HSetAll(q) PROVE TypeOK'
  <2> DEFINE named == {s.who.name : s \in call[q].list}
  <2>1. call[q].rm \in RMs /\ call[q].list \in SUBSET Snapshots
    BY <1>12 DEF HSetAll, RequestOK, TypeOK, Requests
  <2>2. PICK last \in [named -> call[q].list] : Put(call[q].rm, {<<n, last[n].id>> : n \in named})
    BY <1>12 DEF HSetAll
  <2>3. {<<n, last[n].id>> : n \in named} \in SUBSET (Names \X Clients)
    BY <2>1, <2>2 DEF Snapshots, Names
  <2>4. call' \in [Calls -> Requests]
    <3> DEFINE k == [call[q] EXCEPT !.pc = "expire", !.list = {}]
    <3>1. k \in Requests
      BY DEF TypeOK, Requests, Stages
    <3>2. call' = [call EXCEPT ![q] = k]
      BY <1>12 DEF HSetAll, TypeOK
    <3> HIDE DEF k
    <3> QED
      BY <1>0, <3>1, <3>2
  <2> HIDE DEF named
  <2> QED
    BY <1>4, <1>12, <2>1, <2>2, <2>3, <2>4 DEF HSetAll
<1>13. ASSUME NEW q \in Calls, Expire(q) \/ WriteFails(q) PROVE TypeOK'
  BY <1>2, <1>4, <1>13 DEF Expire, WriteFails, Stored, Stages
<1>14. ASSUME NEW c \in Clients, SyncClient(c) PROVE TypeOK'
  <2>1. PICK d \in [rm : RMs, who : Persons] :
             call' = [p \in Calls |-> [call[p] EXCEPT !.there =
                IF d.rm = call[p].rm /\ d.who.name = call[p].ask THEN @ ELSE @ \ {c}]]
    BY <1>14 DEF SyncClient
  <2>2. \A p \in Calls, t \in SUBSET Clients : [call[p] EXCEPT !.there = t] \in Requests
    BY DEF TypeOK, Requests
  <2>3. \A p \in Calls : call[p].there \in SUBSET Clients /\ call[p].there \ {c} \in SUBSET Clients
    BY DEF TypeOK, Requests
  <2>4. call' \in [Calls -> Requests]
    BY <2>1, <2>2, <2>3
  <2> QED
    BY <1>14, <2>4 DEF TypeOK, Documents, SyncClient, Names
<1>15. ASSUME NEW r \in RMs, HashExpires(r) PROVE TypeOK'
  BY <1>15 DEF TypeOK, Documents, HashExpires
<1>16. CASE LookupCrash
  BY <1>16 DEF TypeOK, Documents, LookupCrash, Stored, Requests, Idle, Stages, Looking
<1>17. CASE UNCHANGED lvars
  BY <1>17 DEF TypeOK, Documents, lvars
<1>18. ASSUME NEW q \in Calls, FindClientByName(q) \/ BuildLookupMaps(q) PROVE TypeOK'
  BY <1>1, <1>18 DEF FindClientByName, BuildLookupMaps, Stages, Looking
<1> QED
  BY <1>5, <1>6, <1>20, <1>21, <1>22, <1>9, <1>10, <1>11, <1>12, <1>13, <1>14, <1>15, <1>16, <1>17,
     <1>18 DEF LookupNext

\* What is put into the hash, a client bore: what was found, or what the scan listed.
LEMMA FoundedStep == LookupInv /\ [LookupNext]_lvars => Founded'
<1> SUFFICES ASSUME LookupInv, [LookupNext]_lvars PROVE Founded'
  OBVIOUS
<1> USE DEF LookupInv
<1>1. ASSUME UNCHANGED <<doc, hash, bore>> PROVE Founded'
  BY <1>1 DEF Founded
<1>2. ASSUME NEW r \in RMs, NEW entries, Put(r, entries), UNCHANGED <<doc, bore>>,
             \A e \in entries : <<r, e[1]>> \in bore[e[2]]
      PROVE  Founded'
  BY <1>2 DEF Founded, Put, TypeOK
<1>3. ASSUME NEW q \in Calls, HSet(q) PROVE Founded'
  <2> DEFINE b == call[q].best
             entries == {<<b.who.name, b.id>>}
  <2>1. call[q].rm \in RMs /\ b.rm = call[q].rm /\ <<b.rm, b.who.name>> \in bore[b.id]
    BY <1>3 DEF HSet, RequestOK, Right
  <2>2. \A e \in entries : <<call[q].rm, e[1]>> \in bore[e[2]]
    BY <2>1
  <2>3. Put(call[q].rm, entries) /\ UNCHANGED <<doc, bore>>
    BY <1>3 DEF HSet
  <2> HIDE DEF entries
  <2> QED
    BY <1>2, <2>1, <2>2, <2>3
<1>4. ASSUME NEW q \in Calls, HSetAll(q) PROVE Founded'
  <2> DEFINE named == {s.who.name : s \in call[q].list}
  <2>1. call[q].rm \in RMs /\ \A s \in call[q].list : <<call[q].rm, s.who.name>> \in bore[s.id]
    BY <1>4 DEF HSetAll, RequestOK
  <2>2. PICK last \in [named -> call[q].list] :
             (\A n \in named : last[n].who.name = n) /\ Put(call[q].rm, {<<n, last[n].id>> : n \in named})
    BY <1>4 DEF HSetAll
  <2> DEFINE entries == {<<n, last[n].id>> : n \in named}
  <2>3. \A n \in named : <<call[q].rm, n>> \in bore[last[n].id]
    BY <2>1, <2>2
  <2>4. \A e \in entries : <<call[q].rm, e[1]>> \in bore[e[2]]
    BY <2>3
  <2>5. Put(call[q].rm, entries) /\ UNCHANGED <<doc, bore>>
    BY <1>4, <2>2 DEF HSetAll
  <2> HIDE DEF entries
  <2> QED
    BY <1>2, <2>1, <2>4, <2>5
<1>5. ASSUME NEW c \in Clients, SyncClient(c) PROVE Founded'
  <2>1. PICK d \in [rm : RMs, who : Persons] :
             doc' = [doc EXCEPT ![c] = d] /\ bore' = [bore EXCEPT ![c] = @ \cup {<<d.rm, d.who.name>>}]
    BY <1>5 DEF SyncClient
  <2>2. \A x \in Clients : bore[x] \subseteq bore'[x]
    BY <2>1 DEF TypeOK
  <2>3. \A x \in Clients : <<doc[x].rm, doc[x].who.name>>' \in bore'[x]
    BY <2>1 DEF TypeOK, Documents, Founded
  <2>4. ASSUME NEW r \in RMs, NEW e \in hash'[r] PROVE <<r, e[1]>> \in bore'[e[2]]
    <3>1. e \in hash[r] /\ hash[r] \in SUBSET (Names \X Clients)
      BY <1>5 DEF SyncClient, TypeOK
    <3>2. e[2] \in Clients
      BY <3>1
    <3> QED
      BY <2>2, <3>1, <3>2 DEF Founded
  <2> QED
    BY <2>3, <2>4 DEF Founded
<1>6. ASSUME NEW r \in RMs, HashExpires(r) PROVE Founded'
  BY <1>6 DEF HashExpires, Founded, TypeOK
<1> QED
  BY <1>1, <1>3, <1>4, <1>5, <1>6 DEF LookupNext, FindClientByName, BuildLookupMaps, Begin, HGet, Resolve,
     TextSearch, RegexSearch, FuzzySearch, Scan, Expire, StageFails, WriteFails, LookupCrash, Stored, lvars

\* Request j is request k but for its stage and the hit it follows.
Like(j, k) == /\ j.rm = k.rm /\ j.ask = k.ask /\ j.best = k.best
              /\ j.list = k.list /\ j.failed = k.failed /\ j.there = k.there

\* Of a request nothing changes when another one takes a step.
LEMMA OneRequest ==
    ASSUME LookupInv, UNCHANGED <<doc, bore>>, NEW q \in Calls, NEW k,
           call' = [call EXCEPT ![q] = k], RequestOK(k)
    PROVE  \A p \in Calls : RequestOK(call[p])'
<1>1. ASSUME NEW x, RequestOK(x) PROVE RequestOK(x)'
  BY <1>1 DEF RequestOK, Right, TextBlind, RegexBlind
<1>2. call'[q] = k /\ \A p \in Calls : p # q => call'[p] = call[p]
  BY DEF LookupInv, TypeOK
<1> QED
  BY <1>1, <1>2 DEF LookupInv

\* What each stage may count on is kept by every step.
LEMMA RequestStep == LookupInv /\ [LookupNext]_lvars => \A p \in Calls : RequestOK(call[p])'
<1> SUFFICES ASSUME LookupInv, [LookupNext]_lvars PROVE \A p \in Calls : RequestOK(call[p])'
  OBVIOUS
<1> DEFINE Goal == \A p \in Calls : RequestOK(call[p])'
<1>0. TypeOK /\ Founded /\ \A q \in Calls : RequestOK(call[q]) /\ call[q] \in Requests
  BY DEF LookupInv, TypeOK
<1>1. ASSUME NEW q \in Calls, NEW r \in RMs, NEW n \in Asks \cup {<<>>}, NEW pc, Begin(q, r, n, pc),
             (pc = "hget" /\ n \in Asks) \/ (pc = "scan" /\ n = <<>>)
      PROVE  Goal
  <2> DEFINE there == {c \in ClientsOf(r) : doc[c].who.name = n}
             k == [Idle EXCEPT !.pc = pc, !.rm = r, !.ask = n, !.there = there]
  <2>1. call' = [call EXCEPT ![q] = k] /\ UNCHANGED <<doc, bore>>
    BY <1>1 DEF Begin
  <2>2. \A c \in there : doc[c].rm = r /\ doc[c].who.name = n
    BY DEF ClientsOf
  <2>3. RequestOK(k)
    <3> HIDE DEF there
    <3> QED
      BY <1>1, <2>2 DEF RequestOK, Idle, Looking
  <2> HIDE DEF k
  <2> QED
    BY <2>1, <2>3, OneRequest
<1>2. ASSUME NEW q \in Calls, NEW pc, Goto(q, pc), UNCHANGED <<doc, bore>>,
             \A j : Like(j, call[q]) /\ j.pc = pc => RequestOK(j)
      PROVE  Goal
  <2> DEFINE k == [call[q] EXCEPT !.pc = pc]
  <2>1. call' = [call EXCEPT ![q] = k]
    BY <1>2 DEF Goto, LookupInv, TypeOK
  <2>2. Like(k, call[q]) /\ k.pc = pc
    BY <1>0 DEF Requests, Like
  <2> HIDE DEF k
  <2>3. RequestOK(k)
    BY <1>2, <2>2
  <2> QED
    BY <1>2, <2>1, <2>3, OneRequest
<1>3. ASSUME NEW q \in Calls, HGet(q) PROVE Goal
  <2>1. CASE Goto(q, "text")
    <3>1. ASSUME NEW j, Like(j, call[q]), j.pc = "text" PROVE RequestOK(j)
      BY <1>0, <1>3, <3>1 DEF HGet, RequestOK, Like, Looking
    <3> QED
      BY <1>2, <1>3, <2>1, <3>1 DEF HGet, Stored
  <2>2. ASSUME NEW e \in hash[call[q].rm], e[1] = call[q].ask,
               call' = [call EXCEPT ![q].pc = "resolve", ![q].hit = e[2]]
        PROVE  Goal
    <3> DEFINE k == [call[q] EXCEPT !.pc = "resolve", !.hit = e[2]]
    <3>1. call[q].rm \in RMs
      BY <1>0, <1>3 DEF HGet, RequestOK
    <3>2. e \in Names \X Clients /\ <<call[q].rm, e[1]>> \in bore[e[2]]
      BY <1>0, <3>1 DEF TypeOK, Founded
    <3>3. call' = [call EXCEPT ![q] = k]
      BY <2>2 DEF LookupInv, TypeOK
    <3>4. Like(k, call[q]) /\ k.pc = "resolve" /\ k.hit = e[2]
      BY <1>0 DEF Requests, Like
    <3> HIDE DEF k
    <3>5. RequestOK(k)
      BY <1>0, <1>3, <2>2, <3>2, <3>4 DEF HGet, RequestOK, Like, Looking
    <3> QED
      BY <1>3, <3>3, <3>5, OneRequest DEF HGet, Stored
  <2> QED
    BY <1>3, <2>1, <2>2 DEF HGet
<1>4. ASSUME NEW q \in Calls, NEW pc, NEW c \in Clients,
             call' = [call EXCEPT ![q].pc = pc, ![q].best = Snapshot(c)], UNCHANGED <<doc, bore>>,
             pc \in {"done", "hset"}, call[q].pc \in Looking, doc[c].rm = call[q].rm,
             \/ <<call[q].rm, call[q].ask>> \in bore[c]
             \/ /\ \/ call[q].there = {} \/ "text" \in call[q].failed
                   \/ Confusable(call[q].ask, doc[c].who)
                /\ Matches(call[q].ask, doc[c].who)
      PROVE  Goal
  <2> DEFINE k == [call[q] EXCEPT !.pc = pc, !.best = Snapshot(c)]
  <2>1. /\ Snapshot(c) # NoDoc /\ Snapshot(c).id = c
        /\ Snapshot(c).rm = doc[c].rm /\ Snapshot(c).who = doc[c].who
        /\ <<Snapshot(c).rm, Snapshot(c).who.name>> \in bore[c]
    BY <1>0, SnapshotTaken
  <2>2. /\ k.pc = pc /\ k.best = Snapshot(c) /\ k.rm = call[q].rm /\ k.ask = call[q].ask
        /\ k.list = call[q].list /\ k.failed = call[q].failed /\ k.there = call[q].there
    BY <1>0 DEF Requests
  <2> HIDE DEF k
  <2>3. Right(k)
    BY <1>4, <2>1, <2>2 DEF Right
  <2>4. RequestOK(k)
    <3>1. RequestOK(call[q])
      BY <1>0
    <3> QED
      BY <1>4, <2>1, <2>2, <2>3, <3>1 DEF RequestOK, Looking
  <2>5. call' = [call EXCEPT ![q] = k]
    BY <1>4 DEF LookupInv, TypeOK, k
  <2> QED
    BY <1>4, <2>4, <2>5, OneRequest
<1>5. ASSUME NEW q \in Calls, Resolve(q) PROVE Goal
  <2>1. call[q].hit \in Clients /\ <<call[q].rm, call[q].ask>> \in bore[call[q].hit]
    BY <1>0, <1>5 DEF Resolve, RequestOK
  <2>2. ASSUME NEW j, Like(j, call[q]), j.pc = "text" PROVE RequestOK(j)
    BY <1>0, <1>5, <2>2 DEF Resolve, RequestOK, Like, Looking
  <2> QED
    BY <1>2, <1>4, <1>5, <2>1, <2>2 DEF Resolve, Stored, Looking
<1>6. ASSUME NEW q \in Calls, call[q].pc \in {"text", "regex", "fuzzy"}
      PROVE  /\ call[q].rm \in RMs /\ call[q].ask \in Asks /\ RequestOK(call[q])
             /\ call[q].there # {} => \E d \in Clients : doc[d].rm = call[q].rm /\ doc[d].who.name = call[q].ask
  BY <1>0, <1>6 DEF RequestOK, Requests, Looking
<1>7. ASSUME NEW q \in Calls, TextSearch(q) PROVE Goal
  <2> DEFINE hits == TextHits(call[q].rm, call[q].ask)
  <2>1. /\ call[q].pc = "text" /\ UNCHANGED <<doc, bore>>
        /\ \/ hits = {} /\ Goto(q, "regex")
           \/ \E c \in hits : /\ \A d \in hits : ~Outscores(call[q].ask, doc[d].who, doc[c].who)
                             /\ Found(q, c)
    BY <1>7 DEF TextSearch, Stored
  <2>2. call[q].there # {} /\ Words(call[q].ask) # {} =>
           \E d \in hits : \A c \in hits :
              Outscores(call[q].ask, doc[d].who, doc[c].who) \/ Confusable(call[q].ask, doc[c].who)
    BY <1>0, <1>6, <2>1, TextHitsTheName DEF TypeOK
  <2>3. \A c \in hits : c \in Clients /\ doc[c].rm = call[q].rm /\ Matches(call[q].ask, doc[c].who)
    BY DEF TextHits, ClientsOf, Matches
  <2>4. Words(call[q].ask) = {} => \A c \in hits : Confusable(call[q].ask, doc[c].who)
    BY DEF Confusable
  <2> HIDE DEF hits
  <2>5. ASSUME hits = {}, NEW j, Like(j, call[q]), j.pc = "regex" PROVE RequestOK(j)
    <3>1. j.there = {} \/ Words(j.ask) = {}
      BY <2>2, <2>5 DEF Like
    <3> QED
      BY <1>6, <2>1, <2>5, <3>1 DEF RequestOK, Like, Looking, TextBlind
  <2>6. CASE hits = {} /\ Goto(q, "regex")
    BY <1>2, <2>1, <2>5, <2>6
  <2>7. ASSUME NEW c \in hits, \A d \in hits : ~Outscores(call[q].ask, doc[d].who, doc[c].who), Found(q, c)
        PROVE  Goal
    <3>1. call[q].there = {} \/ Confusable(call[q].ask, doc[c].who)
      BY <2>2, <2>4, <2>7
    <3>2. c \in Clients /\ doc[c].rm = call[q].rm /\ Matches(call[q].ask, doc[c].who)
      BY <2>3
    <3> QED
      BY <1>4, <2>1, <2>7, <3>1, <3>2 DEF Found, Looking
  <2> QED
    BY <2>1, <2>6, <2>7
<1>8. ASSUME NEW q \in Calls, RegexSearch(q) PROVE Goal
  <2>1. PICK hits \in SUBSET ClientsOf(call[q].rm) :
           /\ Plain(call[q].ask) => hits = RegexHits(call[q].rm, call[q].ask)
           /\ \/ hits = {} /\ Goto(q, "fuzzy")
              \/ \E c \in hits : Found(q, c)
    BY <1>8 DEF RegexSearch
  <2>2. call[q].pc = "regex" /\ UNCHANGED <<doc, bore>>
    BY <1>8 DEF RegexSearch, Stored
  <2>3. call[q].there # {} /\ Plain(call[q].ask) => hits # {}
    BY <1>6, <2>1, <2>2, RegexHitsTheName
  <2>4. \A c \in hits : c \in Clients /\ doc[c].rm = call[q].rm /\ Matches(call[q].ask, doc[c].who)
    <3> SUFFICES ASSUME NEW c \in hits
                 PROVE  c \in Clients /\ doc[c].rm = call[q].rm /\ Matches(call[q].ask, doc[c].who)
      OBVIOUS
    <3>1. c \in Clients /\ doc[c].rm = call[q].rm
      BY <2>1 DEF ClientsOf
    <3>2. Plain(call[q].ask) => Fits(doc[c].who.name, call[q].ask)
      BY <2>1 DEF RegexHits
    <3> QED
      BY <3>1, <3>2 DEF Matches
  <2>5. call[q].there = {} \/ TextBlind(call[q])
    BY <1>6, <2>2 DEF RequestOK
  <2>6. ASSUME hits = {}, NEW j, Like(j, call[q]), j.pc = "fuzzy" PROVE RequestOK(j)
    <3>1. j.there = {} \/ (TextBlind(j) /\ RegexBlind(j))
      BY <2>3, <2>5, <2>6 DEF Like, TextBlind, RegexBlind
    <3> QED
      BY <1>6, <2>2, <2>6, <3>1 DEF RequestOK, Like, Looking
  <2>7. CASE hits = {} /\ Goto(q, "fuzzy")
    BY <1>2, <2>2, <2>6, <2>7
  <2>8. ASSUME NEW c \in hits, Found(q, c) PROVE Goal
    <3>1. call[q].there = {} \/ "text" \in call[q].failed \/ Confusable(call[q].ask, doc[c].who)
      BY <2>5 DEF TextBlind, Confusable
    <3>2. c \in Clients /\ doc[c].rm = call[q].rm /\ Matches(call[q].ask, doc[c].who)
      BY <2>4
    <3> QED
      BY <1>4, <2>2, <2>8, <3>1, <3>2 DEF Found, Looking
  <2> QED
    BY <2>1, <2>7, <2>8
<1>9. ASSUME NEW q \in Calls, FuzzySearch(q) PROVE Goal
  <2>1. PICK seen \in SUBSET ClientsOf(call[q].rm) :
           \/ /\ FuzzyHits(seen, call[q].ask) = {}
              /\ call' = [call EXCEPT ![q].pc = "done", ![q].failed =
                    @ \cup IF seen = ClientsOf(call[q].rm) THEN {} ELSE {"fuzzy"}]
           \/ \E c \in FuzzyHits(seen, call[q].ask) : Found(q, c)
    BY <1>9 DEF FuzzySearch
  <2>2. call[q].pc = "fuzzy" /\ UNCHANGED <<doc, bore>>
    BY <1>9 DEF FuzzySearch, Stored
  <2>3. call[q].there = {} \/ (TextBlind(call[q]) /\ RegexBlind(call[q]))
    BY <1>6, <2>2 DEF RequestOK
  <2>4. ASSUME NEW c \in FuzzyHits(seen, call[q].ask), Found(q, c) PROVE Goal
    <3>1. call[q].there = {} \/ "text" \in call[q].failed \/ Confusable(call[q].ask, doc[c].who)
      BY <2>3 DEF TextBlind, Confusable
    <3>2. c \in Clients /\ doc[c].rm = call[q].rm /\ Matches(call[q].ask, doc[c].who)
      BY <2>1 DEF FuzzyHits, ClientsOf, Matches
    <3> QED
      BY <1>4, <2>2, <2>4, <3>1, <3>2 DEF Found, Looking
  <2>5. CASE /\ FuzzyHits(seen, call[q].ask) = {}
             /\ call' = [call EXCEPT ![q].pc = "done", ![q].failed =
                   @ \cup IF seen = ClientsOf(call[q].rm) THEN {} ELSE {"fuzzy"}]
    <3> DEFINE f == call[q].failed \cup (IF seen = ClientsOf(call[q].rm) THEN {} ELSE {"fuzzy"})
               k == [call[q] EXCEPT !.pc = "done", !.failed = f]
    <3>1. call' = [call EXCEPT ![q] = k]
      BY <2>5 DEF LookupInv, TypeOK
    <3>2. call[q].there # {} => "fuzzy" \in f
      <4> SUFFICES ASSUME call[q].there # {}, seen = ClientsOf(call[q].rm) PROVE FALSE
        OBVIOUS
      <4>1. PICK d \in Clients : doc[d].rm = call[q].rm /\ doc[d].who.name = call[q].ask
        BY <1>6, <2>2
      <4>2. d \in seen
        BY <4>1 DEF ClientsOf
      <4> QED
        BY <1>6, <2>2, <2>5, <4>1, <4>2, FuzzyHitsTheName
    <3>3. call[q].failed \subseteq f
      OBVIOUS
    <3> HIDE DEF f
    <3>4. /\ k.pc = "done" /\ k.failed = f /\ k.best = call[q].best /\ k.rm = call[q].rm
          /\ k.ask = call[q].ask /\ k.list = call[q].list /\ k.there = call[q].there
      BY <1>0 DEF Requests
    <3> HIDE DEF k
    <3>5. RequestOK(call[q]) /\ call[q].best = NoDoc
      BY <1>6, <2>2 DEF RequestOK, Looking
    <3>6. k.there = {} \/ (TextBlind(k) /\ RegexBlind(k) /\ "fuzzy" \in k.failed)
      BY <2>3, <3>2, <3>3, <3>4 DEF TextBlind, RegexBlind
    <3>7. RequestOK(k)
      BY <2>2, <3>4, <3>5, <3>6 DEF RequestOK, Looking
    <3> QED
      BY <2>2, <3>1, <3>7, OneRequest
  <2> QED
    BY <2>1, <2>4, <2>5
<1>10. ASSUME NEW q \in Calls, StageFails(q) PROVE Goal
  <2>1. PICK step \in {<<"hget", "text">>, <<"resolve", "text">>, <<"text", "regex">>,
                       <<"regex", "fuzzy">>, <<"fuzzy", "done">>} :
             /\ call[q].pc = step[1]
             /\ call' = [call EXCEPT ![q].pc = step[2], ![q].failed = @ \cup {step[1]}]
    BY <1>10 DEF StageFails
  <2> DEFINE k == [call[q] EXCEPT !.pc = step[2], !.failed = @ \cup {step[1]}]
  <2>2. call' = [call EXCEPT ![q] = k]
    BY <2>1 DEF LookupInv, TypeOK
  <2>3. /\ k.pc = step[2] /\ k.failed = call[q].failed \cup {step[1]} /\ k.best = call[q].best
        /\ k.rm = call[q].rm /\ k.ask = call[q].ask /\ k.list = call[q].list /\ k.there = call[q].there
    BY <1>0 DEF Requests
  <2> HIDE DEF k
  <2>4. \/ step[1] \in {"hget", "resolve"} /\ step[2] = "text"
        \/ step[1] = "text" /\ step[2] = "regex"
        \/ step[1] = "regex" /\ step[2] = "fuzzy"
        \/ step[1] = "fuzzy" /\ step[2] = "done"
    OBVIOUS
  <2>5. RequestOK(call[q])
    BY <1>0
  <2>6. call[q].pc \in Looking
    BY <2>1, <2>4 DEF Looking
  <2>7. call[q].rm \in RMs /\ call[q].best = NoDoc /\ call[q].ask \in Asks
    BY <2>5, <2>6 DEF RequestOK, Looking
  <2>8. RequestOK(k)
    BY <2>1, <2>3, <2>4, <2>5, <2>7 DEF RequestOK, Looking, TextBlind, RegexBlind
  <2> QED
    BY <1>10, <2>2, <2>8, OneRequest DEF StageFails, Stored
<1>11. ASSUME NEW q \in Calls, HSet(q) \/ Expire(q) \/ WriteFails(q) PROVE Goal
  <2>1. PICK pc \in {"expire", "done"} : /\ Goto(q, pc) /\ call[q].pc \in {"hset", "expire", "scan", "hsetall"}
                                         /\ pc = "expire" => call[q].pc = "hset"
    BY <1>11 DEF HSet, Expire, WriteFails
  <2>2. ASSUME NEW j, Like(j, call[q]), j.pc = pc PROVE RequestOK(j)
    <3>1. RequestOK(call[q])
      BY <1>0
    <3>2. Right(call[q]) => Right(j)
      BY <2>2 DEF Right, Like
    <3> QED
      BY <2>1, <2>2, <3>1, <3>2 DEF RequestOK, Like, Looking
  <2> QED
    BY <1>2, <1>11, <2>1, <2>2 DEF HSet, Expire, WriteFails, Stored
<1>12. ASSUME NEW q \in Calls, Scan(q) PROVE Goal
  <2> DEFINE l == {Snapshot(c) : c \in ClientsOf(call[q].rm)}
             pc == IF ClientsOf(call[q].rm) = {} THEN "done" ELSE "hsetall"
             k == [call[q] EXCEPT !.list = l, !.pc = pc]
  <2>1. call' = [call EXCEPT ![q] = k]
    BY <1>12 DEF Scan, LookupInv, TypeOK
  <2>2. \A s \in l : s.rm = call[q].rm /\ <<s.rm, s.who.name>> \in bore[s.id]
    BY <1>0, SnapshotTaken DEF ClientsOf
  <2>3. pc \in {"done", "hsetall"}
    OBVIOUS
  <2> HIDE DEF l, pc
  <2>4. /\ k.pc = pc /\ k.list = l /\ k.best = call[q].best /\ k.failed = call[q].failed
        /\ k.rm = call[q].rm /\ k.ask = call[q].ask /\ k.there = call[q].there
    BY <1>0 DEF Requests
  <2> HIDE DEF k
  <2>5. RequestOK(call[q]) /\ call[q].pc = "scan"
    BY <1>0, <1>12 DEF Scan
  <2>6. RequestOK(k)
    BY <2>2, <2>3, <2>4, <2>5 DEF RequestOK, Looking
  <2> QED
    BY <1>12, <2>1, <2>6, OneRequest DEF Scan, Stored
<1>13. ASSUME NEW q \in Calls, HSetAll(q) PROVE Goal
  <2> DEFINE k == [call[q] EXCEPT !.pc = "expire", !.list = {}]
  <2>1. call' = [call EXCEPT ![q] = k]
    BY <1>13 DEF HSetAll, LookupInv, TypeOK
  <2>2. /\ k.pc = "expire" /\ k.list = {} /\ k.best = call[q].best /\ k.failed = call[q].failed
        /\ k.rm = call[q].rm /\ k.ask = call[q].ask /\ k.there = call[q].there
    BY <1>0 DEF Requests
  <2> HIDE DEF k
  <2>3. RequestOK(call[q]) /\ call[q].pc = "hsetall"
    BY <1>0, <1>13 DEF HSetAll
  <2>4. RequestOK(k)
    BY <2>2, <2>3 DEF RequestOK, Looking
  <2> QED
    BY <1>13, <2>1, <2>4, OneRequest DEF HSetAll
<1>14. ASSUME NEW c \in Clients, SyncClient(c) PROVE Goal
  <2>1. PICK d \in [rm : RMs, who : Persons] :
             /\ doc' = [doc EXCEPT ![c] = d] /\ bore' = [bore EXCEPT ![c] = @ \cup {<<d.rm, d.who.name>>}]
             /\ call' = [q \in Calls |-> [call[q] EXCEPT !.there =
                   IF d.rm = call[q].rm /\ d.who.name = call[q].ask THEN @ ELSE @ \ {c}]]
    BY <1>14 DEF SyncClient
  <2>2. /\ \A x \in Clients : bore[x] \subseteq bore'[x]
        /\ \A x \in Clients \ {c} : doc'[x] = doc[x]
    BY <2>1 DEF LookupInv, TypeOK, Documents
  <2> SUFFICES ASSUME NEW p \in Calls PROVE RequestOK(call[p])'
    OBVIOUS
  <2>3. PICK k : k = call[p]
    OBVIOUS
  <2>4. PICK n : n = call'[p]
    OBVIOUS
  <2>5. k \in Requests /\ RequestOK(k)
    BY <1>0, <2>3
  <2>6. n = [k EXCEPT !.there = IF d.rm = k.rm /\ d.who.name = k.ask THEN @ ELSE @ \ {c}]
    BY <2>1, <2>3, <2>4
  <2>7. /\ n.pc = k.pc /\ n.rm = k.rm /\ n.ask = k.ask /\ n.hit = k.hit /\ n.best = k.best
        /\ n.list = k.list /\ n.failed = k.failed /\ n.there \subseteq k.there /\ n.there \subseteq Clients
        /\ c \in n.there => d.rm = k.rm /\ d.who.name = k.ask
    BY <2>5, <2>6 DEF Requests
  <2>8. k.list \subseteq Snapshots /\ k.best \in Snapshots \cup {NoDoc}
    BY <2>5 DEF Requests
  <2>9. k.best # NoDoc => Right(n)' /\ <<n.best.rm, n.best.who.name>> \in bore'[n.best.id]
    BY <2>2, <2>5, <2>7, <2>8 DEF RequestOK, Right, Snapshots
  <2>10. ASSUME NEW s \in n.list PROVE s.rm = n.rm /\ <<s.rm, s.who.name>> \in bore'[s.id]
    <3>1. s \in k.list /\ s \in Snapshots
      BY <2>7, <2>8
    <3>2. s.id \in Clients
      BY <3>1 DEF Snapshots
    <3>3. s.rm = k.rm /\ <<s.rm, s.who.name>> \in bore[s.id]
      BY <2>5, <3>1 DEF RequestOK
    <3> QED
      BY <2>2, <2>7, <3>2, <3>3
  <2>11. ASSUME NEW x \in n.there PROVE doc'[x].rm = n.rm /\ doc'[x].who.name = n.ask
    <3>1. x \in k.there /\ x \in Clients /\ n.rm = k.rm /\ n.ask = k.ask
      BY <2>7
    <3>2. CASE x = c
      <4>1. doc'[c] = d
        BY <2>1 DEF LookupInv, TypeOK, Documents
      <4> QED
        BY <2>7, <3>1, <3>2, <4>1
    <3>3. CASE x # c
      BY <2>2, <2>5, <3>1, <3>3 DEF RequestOK
    <3> QED
      BY <3>2, <3>3
  <2>12. RequestOK(n)'
    BY <2>2, <2>5, <2>7, <2>9, <2>10, <2>11 DEF RequestOK, TextBlind, RegexBlind
  <2> QED
    BY <2>4, <2>12
<1>15. ASSUME UNCHANGED <<doc, bore, call>> PROVE Goal
  BY <1>0, <1>15 DEF RequestOK, Right, TextBlind, RegexBlind
<1>16. ASSUME LookupCrash PROVE Goal
  <2>1. RequestOK(Idle)'
    BY DEF RequestOK, Idle, Looking
  <2> QED
    BY <1>16, <2>1 DEF LookupCrash
<1>17. ASSUME NEW q \in Calls, FindClientByName(q) \/ BuildLookupMaps(q) PROVE Goal
  BY <1>1, <1>17 DEF FindClientByName, BuildLookupMaps
<1> HIDE DEF Goal
<1>18. ASSUME NEW r \in RMs, HashExpires(r) PROVE Goal
  BY <1>15, <1>18 DEF HashExpires
<1>19. ASSUME UNCHANGED lvars PROVE Goal
  BY <1>15, <1>19 DEF lvars
<1>20. Goal
  BY <1>3, <1>5, <1>7, <1>8, <1>9, <1>10, <1>11, <1>12, <1>13, <1>14, <1>16, <1>17, <1>18, <1>19 DEF LookupNext
<1> QED
  BY <1>20 DEF Goal

\* The invariant holds in every behaviour.
LEMMA LookupInvariant == LookupSpec => []LookupInv
<1>1. LookupInv /\ [LookupNext]_lvars => LookupInv'
  BY TypeStep, FoundedStep, RequestStep DEF LookupInv
<1> QED
  BY <1>1, LookupInvInit, PTL DEF LookupSpec

\* However old the hash is and whoever is renamed or moved meanwhile, the lookup answers
\* with a client of the asking RM who bears or bore the name, or matches it, and then nobody
\* bears it or the text search, scoring name, mail and PAN, failed or takes the two for one.
THEOREM LookupIsRight == LookupSpec => []RightClient
<1>1. LookupInv => RightClient
  BY DEF LookupInv, RequestOK, Right, RightClient, Answered
<1> QED
  BY <1>1, LookupInvariant, PTL

\* A client who had the name throughout the request is found as long as one of the three
\* queries succeeds that is not blind to him.
THEOREM LookupFinds == LookupSpec => []FoundIfThere
<1>1. LookupInv => FoundIfThere
  BY DEF LookupInv, RequestOK, FoundIfThere, Missed, TextBlind, RegexBlind
<1> QED
  BY <1>1, LookupInvariant, PTL
=============================================================================
