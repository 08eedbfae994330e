-------------------------- MODULE EventSchedule_proofs --------------------------
(***************************************************************************)
(* The schedule of events, for any number of occurrences, offsets, slots   *)
(* and requests.                                                           *)
(***************************************************************************)
EXTENDS EventSchedule, WellFoundedInduction, TLAPS

(***************************************************************************)
(* Arithmetic: the least of a set, and what a zone computes.               *)
(***************************************************************************)
\* The order of the naturals.
Less == {p \in Nat \X Nat : p[1] < p[2]}

\* A set of naturals has a least member.
LEMMA Least == ASSUME NEW T \in SUBSET Nat, T # {} PROVE \E n \in T : \A m \in T : n <= m
<1>1. OpToRel(<, Nat) = Less
  BY DEF OpToRel, Less
<1>2. \E n \in T : \A m \in T : ~(<<m, n>> \in Less)
  BY <1>1, NatLessThanWellFounded, WFMin
<1>3. \A n, m \in Nat : m < n => <<m, n>> \in Less
  BY DEF Less
<1>4. \A n, m \in Nat : ~(m < n) => n <= m
  OBVIOUS
<1> QED
  BY <1>2, <1>3, <1>4

\* What a set of integers stays above.
Floored(T) == \E a \in Int : \A x \in T : a <= x

\* Min is the least of a set of integers that has a lower bound.
LEMMA MinOf ==
    ASSUME NEW T \in SUBSET Int, T # {}, Floored(T)
    PROVE  Min(T) \in T /\ \A x \in T : Min(T) <= x
<1>1. PICK a \in Int : \A x \in T : a <= x
  BY DEF Floored
<1> DEFINE U == {x - a : x \in T}
<1>2. U \in SUBSET Nat /\ U # {}
  <2>1. \A x \in T : x - a \in Nat
    BY <1>1
  <2>2. PICK x \in T : TRUE
    OBVIOUS
  <2>3. x - a \in U
    BY <2>2
  <2> QED
    BY <2>1, <2>3
<1> HIDE DEF U
<1>3. PICK n \in U : \A m \in U : n <= m
  BY <1>2, Least
<1>4. PICK x \in T : n = x - a
  BY <1>3 DEF U
<1>5. \A y \in T : x <= y
  <2> TAKE y \in T
  <2>1. n <= y - a
    BY <1>3 DEF U
  <2> QED
    BY <2>1, <1>4
<1> QED
  BY <1>4, <1>5 DEF Min

\* Max is the greatest of a set of integers that has an upper bound.
LEMMA MaxOf ==
    ASSUME NEW T \in SUBSET Int, T # {}, NEW b \in Int, \A x \in T : x <= b
    PROVE  Max(T) \in T /\ \A x \in T : x <= Max(T)
<1> DEFINE U == {-x : x \in T}
<1>1. U \in SUBSET Int /\ U # {} /\ Floored(U)
  <2>1. \A x \in U : -b <= x /\ x \in Int
    OBVIOUS
  <2>2. -b \in Int /\ U # {}
    OBVIOUS
  <2> QED
    BY <2>1, <2>2 DEF Floored
<1> HIDE DEF U
<1>2. PICK n \in U : \A m \in U : n <= m
  BY <1>1, MinOf
<1>3. PICK x \in T : n = -x
  BY <1>2 DEF U
<1>4. \A y \in T : y <= x
  <2> TAKE y \in T
  <2>1. n <= -y
    BY <1>2 DEF U
  <2> QED
    BY <2>1, <1>3
<1> QED
  BY <1>3, <1>4 DEF Max

(***************************************************************************)
(* The calendar.                                                           *)
(***************************************************************************)
\* Division with remainder, and that its result is the only one.
LEMMA Divided ==
    ASSUME NEW d \in Nat \ {0}, NEW x \in Int
    PROVE  x \div d \in Int /\ x % d \in 0 .. d - 1 /\ x = d * (x \div d) + (x % d)
<1>1. x \div d \in Int /\ x % d \in 0 .. d - 1
  OBVIOUS
<1>2. x = d * (x \div d) + (x % d)
  OBVIOUS
<1> QED
  BY <1>1, <1>2

LEMMA Quotient ==
    ASSUME NEW d \in Nat \ {0}, NEW q \in Int, NEW r \in 0 .. d - 1, NEW x \in Int, x = d * q + r
    PROVE  x \div d = q /\ x % d = r
<1>1. PICK p \in Int : p = x \div d
  BY Divided
<1>2. PICK s \in 0 .. d - 1 : s = x % d /\ x = d * p + s
  BY <1>1, Divided
<1>3. d * p + s = d * q + r
  BY <1>2
<1>4. ASSUME NEW u \in Int, NEW v \in Int, u < v PROVE d * u + d <= d * v
  BY <1>4
<1>5. p = q
  <2>1. d * p \in Int /\ d * q \in Int
    OBVIOUS
  <2>2. ~(p < q)
    BY <1>3, <1>4, <2>1
  <2>3. ~(q < p)
    BY <1>3, <1>4, <2>1
  <2> QED
    BY <2>2, <2>3
<1> QED
  BY <1>1, <1>2, <1>3, <1>5

\* The days of a cycle.
Cycle == MonthBegins[Months]

LEMMA Calendar ==
    /\ Months \in Nat \ {0} /\ Day \in Nat \ {0} /\ Cycle \in Nat \ {0} /\ MonthBegins[0] = 0
    /\ \A m \in 0 .. Months - 1 : /\ MonthBegins[m] \in Nat /\ MonthBegins[m + 1] \in Nat
                                  /\ MonthBegins[m] < MonthBegins[m + 1]
<1>1. Months \in Nat \ {0} /\ Day \in Nat \ {0} /\ MonthBegins[0] = 0
  BY ConstantsAssumption
<1>2. ASSUME NEW m \in 0 .. Months - 1
      PROVE  /\ MonthBegins[m] \in Nat /\ MonthBegins[m + 1] \in Nat
             /\ MonthBegins[m] < MonthBegins[m + 1]
  <2>1. m \in 0 .. Months /\ m + 1 \in 0 .. Months
    BY <1>1
  <2> QED
    BY <2>1, ConstantsAssumption
<1>3. Cycle \in Nat \ {0}
  <2>1. Months - 1 \in 0 .. Months - 1 /\ (Months - 1) + 1 = Months
    BY <1>1
  <2> QED
    BY <1>2, <2>1 DEF Cycle
<1> QED
  BY <1>1, <1>2, <1>3

\* Where a month of a cycle begins, and that every month has a day.
LEMMA FirstDayIs ==
    ASSUME NEW q \in Int, NEW r \in 0 .. Months - 1, NEW m \in Int, m = Months * q + r
    PROVE  /\ FirstDay(m) = q * Cycle + MonthBegins[r]
           /\ FirstDay(m + 1) = q * Cycle + MonthBegins[r + 1]
           /\ q * Cycle \in Int /\ FirstDay(m) \in Int /\ FirstDay(m + 1) \in Int
<1>1. m \div Months = q /\ m % Months = r
  BY Calendar, Quotient
<1>2. FirstDay(m) = q * Cycle + MonthBegins[r]
  BY <1>1 DEF FirstDay, Cycle
<1>3. q * Cycle \in Int /\ MonthBegins[r] \in Int /\ MonthBegins[r + 1] \in Int
  BY Calendar
<1>4. CASE r + 1 < Months
  <2>1. r + 1 \in 0 .. Months - 1 /\ m + 1 \in Int /\ m + 1 = Months * q + (r + 1)
    BY <1>4, Calendar
  <2>2. (m + 1) \div Months = q /\ (m + 1) % Months = r + 1
    <3> DEFINE n == m + 1
               s == r + 1
    <3>1. n \in Int /\ s \in 0 .. Months - 1 /\ n = Months * q + s
      BY <2>1
    <3> HIDE DEF n, s
    <3>2. n \div Months = q /\ n % Months = s
      BY <3>1, Calendar, Quotient
    <3> QED
      BY <3>2 DEF n, s
  <2>3. FirstDay(m + 1) = q * Cycle + MonthBegins[r + 1]
    BY <2>2 DEF FirstDay, Cycle
  <2> QED
    BY <1>2, <1>3, <2>3
<1>5. CASE ~(r + 1 < Months)
  <2>1. r + 1 = Months /\ 0 \in 0 .. Months - 1 /\ q + 1 \in Int
    BY <1>5, Calendar
  <2>2. m + 1 = Months * (q + 1) + 0 /\ m + 1 \in Int
    BY <2>1, Calendar
  <2>3. (m + 1) \div Months = q + 1 /\ (m + 1) % Months = 0
    <3> DEFINE n == m + 1
               p == q + 1
    <3>1. PICK z \in 0 .. Months - 1 : z = 0
      BY <2>1
    <3>2. n \in Int /\ p \in Int /\ n = Months * p + z
      BY <2>1, <2>2, <3>1
    <3>3. Months \in Nat \ {0}
      BY Calendar
    <3> HIDE DEF n, p
    <3>4. n \div Months = p /\ n % Months = z
      BY <3>2, <3>3, Quotient
    <3> QED
      BY <3>1, <3>4 DEF n, p
  <2>4. FirstDay(m + 1) = (q + 1) * Cycle + 0
    BY <2>3, Calendar DEF FirstDay, Cycle
  <2>5. (q + 1) * Cycle = q * Cycle + Cycle
    BY Calendar
  <2>6. FirstDay(m + 1) = q * Cycle + MonthBegins[r + 1]
    BY <2>1, <2>4, <2>5, <1>3, Calendar DEF Cycle
  <2> QED
    BY <1>2, <1>3, <2>6
<1> QED
  BY <1>4, <1>5

LEMMA MonthsGoOn ==
    ASSUME NEW m \in Int
    PROVE  FirstDay(m) \in Int /\ FirstDay(m + 1) \in Int /\ FirstDay(m) < FirstDay(m + 1)
<1>1. PICK q \in Int, r \in 0 .. Months - 1 : m = Months * q + r
  BY Calendar, Divided
<1>2. /\ FirstDay(m) = q * Cycle + MonthBegins[r] /\ FirstDay(m + 1) = q * Cycle + MonthBegins[r + 1]
      /\ q * Cycle \in Int /\ FirstDay(m) \in Int /\ FirstDay(m + 1) \in Int
  BY <1>1, FirstDayIs
<1> QED
  BY <1>2, Calendar

\* A local time lies in its month.
LEMMA MonthHolds ==
    ASSUME NEW l \in Int
    PROVE  /\ MonthOf(l) \in Int /\ l \div Day \in Int
           /\ FirstDay(MonthOf(l)) <= l \div Day /\ l \div Day < FirstDay(MonthOf(l) + 1)
<1>1. PICK day \in Int : day = l \div Day
  BY Calendar, Divided
<1>2. PICK q \in Int : q = day \div Cycle
  BY Calendar, Divided
<1>3. PICK w \in 0 .. Cycle - 1 : w = day % Cycle /\ day = Cycle * q + w
  BY <1>2, Calendar, Divided
<1> DEFINE T == {m \in 0 .. Months - 1 : MonthBegins[m] <= w}
<1>4. PICK r \in T : r = Max(T) /\ \A m \in T : m <= r
  <2>1. T \in SUBSET Int /\ 0 \in T /\ Months \in Int /\ \A m \in T : m <= Months
    BY <1>3, Calendar
  <2> HIDE DEF T
  <2> QED
    BY <2>1, MaxOf
<1>5. r \in 0 .. Months - 1 /\ MonthBegins[r] <= w
  BY <1>4
<1>6. w < MonthBegins[r + 1]
  <2>1. CASE r + 1 = Months
    BY <2>1, <1>3, Calendar DEF Cycle
  <2>2. CASE r + 1 # Months
    <3>1. r + 1 \in 0 .. Months - 1 /\ ~(r + 1 <= r)
      BY <2>2, <1>5, Calendar
    <3>2. ~(MonthBegins[r + 1] <= w)
      BY <3>1, <1>4
    <3> QED
      BY <3>1, <3>2, <1>3, Calendar
  <2> QED
    BY <2>1, <2>2
<1> HIDE DEF T
<1>7. PICK m \in Int : m = q * Months + r /\ m = Months * q + r
  BY <1>5, Calendar
<1>8. MonthOf(l) = m
  BY <1>1, <1>2, <1>3, <1>4, <1>7 DEF MonthOf, Cycle, T
<1>9. /\ FirstDay(m) = q * Cycle + MonthBegins[r]
      /\ FirstDay(m + 1) = q * Cycle + MonthBegins[r + 1] /\ q * Cycle \in Int
  BY <1>5, <1>7, FirstDayIs
<1>10. day = q * Cycle + w
  BY <1>3, Calendar
<1> QED
  BY <1>1, <1>3, <1>5, <1>6, <1>8, <1>9, <1>10, Calendar

\* So many days.
Span(n) == n * Day

LEMMA SpanInt == \A n \in Int : Span(n) \in Int
<1>1. Day \in Int
  BY ConstantsAssumption
<1> QED
  BY <1>1 DEF Span

LEMMA SpanGrows ==
    /\ \A n \in Int : Span(n + 1) = Span(n) + Day
    /\ \A n \in Nat : Span(n) >= n
    /\ \A n, k \in Int : n <= k => Span(n) <= Span(k)
    /\ \A n, k \in Int : n < k => Span(n) + Day <= Span(k)
    /\ \A n, k \in Int : Span(n + k) = Span(n) + Span(k)
    /\ Span(1) = Day /\ Span(0) = 0 /\ Day \in Nat /\ Day >= 1
<1>1. Day \in Int /\ Day >= 1
  BY ConstantsAssumption
<1>2. \A n, k \in Int : Span(n + k) = Span(n) + Span(k)
  BY <1>1 DEF Span
<1>3. Span(1) = Day /\ Span(0) = 0
  BY <1>1 DEF Span
<1>4. \A n \in Nat : Span(n) >= n
  BY <1>1 DEF Span
<1>5. ASSUME NEW n \in Int, NEW k \in Int, n <= k PROVE Span(n) <= Span(k)
  <2>1. Span(k) = Span(n) + Span(k - n)
    <3>1. k - n \in Int /\ n + (k - n) = k
      OBVIOUS
    <3> QED
      BY <3>1, <1>2
  <2>2. k - n \in Nat
    BY <1>5
  <2>3. Span(k - n) >= 0
    BY <2>2, <1>4, SpanInt
  <2> QED
    BY <2>1, <2>2, <2>3, SpanInt
<1>6. ASSUME NEW n \in Int, NEW k \in Int, n < k PROVE Span(n) + Day <= Span(k)
  <2>1. n + 1 \in Int /\ n + 1 <= k
    BY <1>6
  <2>2. Span(n + 1) = Span(n) + Day
    BY <1>2, <1>3
  <2> QED
    BY <2>1, <2>2, <1>5
<1> QED
  BY <1>1, <1>2, <1>3, <1>4, <1>5, <1>6

\* So many months on: in the month asked for, and at the time of the day.
LEMMA MonthsOn ==
    ASSUME NEW l \in Int, NEW n \in Int
    PROVE  LET m == MonthOf(l) + n
           IN /\ PlusMonths(l, n) \in Int /\ FirstDay(m) \in Int /\ FirstDay(m + 1) \in Int
              /\ Span(FirstDay(m)) <= PlusMonths(l, n)
              /\ PlusMonths(l, n) < Span(FirstDay(m + 1))
              /\ PlusMonths(l, n) + Day <= PlusMonths(l, n + 1)
<1>1. PICK day \in Int : day = l \div Day
  BY Calendar, Divided
<1>2. PICK t \in 0 .. Day - 1 : t = l % Day
  BY Calendar, Divided
<1>3. PICK first \in Int, date \in Nat : first = FirstDay(MonthOf(l)) /\ date = day - first
  <2>1. FirstDay(MonthOf(l)) \in Int /\ FirstDay(MonthOf(l)) <= day
    BY <1>1, MonthHolds, MonthsGoOn
  <2> QED
    BY <2>1
<1> DEFINE Clamped(m) == FirstDay(m) + Min({date, DaysIn(m) - 1})
<1>4. ASSUME NEW m \in Int
      PROVE  /\ Clamped(m) \in Int /\ FirstDay(m) \in Int /\ FirstDay(m + 1) \in Int
             /\ FirstDay(m) <= Clamped(m) /\ Clamped(m) < FirstDay(m + 1)
  <2>1. PICK a \in Int, b \in Int : a = FirstDay(m) /\ b = FirstDay(m + 1) /\ a < b
    BY MonthsGoOn
  <2>2. PICK x \in Nat : x = DaysIn(m) - 1 /\ x = b - a - 1
    BY <2>1 DEF DaysIn
  <2>3. PICK y \in Nat : y = Min({date, x}) /\ y <= x
    <3>1. {date, x} \in SUBSET Int /\ {date, x} # {} /\ \A z \in {date, x} : 0 <= z
      OBVIOUS
    <3>2. Floored({date, x})
      BY <3>1 DEF Floored
    <3>3. Min({date, x}) \in {date, x} /\ Min({date, x}) <= x
      BY <3>1, <3>2, MinOf
    <3> QED
      BY <3>3
  <2> QED
    BY <2>1, <2>2, <2>3
<1>5. \A k \in Int : PlusMonths(l, k) = Clamped(MonthOf(l) + k) * Day + t
  BY <1>1, <1>2, <1>3 DEF PlusMonths
<1> HIDE DEF Clamped
<1>6. PICK m \in Int : m = MonthOf(l) + n
  BY MonthHolds
<1>7. MonthOf(l) + (n + 1) = m + 1 /\ m + 1 \in Int
  BY <1>6, MonthHolds
<1>8. PICK c \in Int, d \in Int : c = Clamped(m) /\ d = Clamped(m + 1) /\ c < d
  <2>1. /\ Clamped(m) \in Int /\ FirstDay(m + 1) \in Int /\ Clamped(m) < FirstDay(m + 1)
    BY <1>4
  <2>2. PICK p \in Int : p = m + 1
    OBVIOUS
  <2>3. Clamped(p) \in Int /\ FirstDay(p) <= Clamped(p)
    BY <1>4
  <2> QED
    BY <2>1, <2>2, <2>3
<1>9. PlusMonths(l, n) = Span(c) + t /\ PlusMonths(l, n + 1) = Span(d) + t
  BY <1>5, <1>6, <1>7, <1>8 DEF Span
<1>10. PICK a \in Int, b \in Int : a = FirstDay(m) /\ b = FirstDay(m + 1) /\ a <= c /\ c < b
  BY <1>4, <1>8
<1>11. Span(a) <= Span(c) /\ Span(c) + Day <= Span(b) /\ Span(c) + Day <= Span(d)
  BY <1>8, <1>10, SpanGrows
<1>12. Span(a) \in Int /\ Span(b) \in Int /\ Span(c) \in Int /\ Span(d) \in Int /\ Day \in Int
  <2>1. Day \in Int
    BY Calendar
  <2> QED
    BY <2>1, SpanInt
<1>13. /\ PlusMonths(l, n) \in Int /\ Span(a) <= PlusMonths(l, n) /\ PlusMonths(l, n) < Span(b)
       /\ PlusMonths(l, n) + Day <= PlusMonths(l, n + 1)
  BY <1>9, <1>11, <1>12
<1> QED
  BY <1>6, <1>10, <1>13

\* No month on is the time itself.
LEMMA NoMonthOn == ASSUME NEW l \in Int PROVE PlusMonths(l, 0) = l
<1>1. PICK day \in Int, t \in 0 .. Day - 1 : day = l \div Day /\ t = l % Day /\ l = Day * day + t
  BY Calendar, Divided
<1>2. PICK m \in Int : m = MonthOf(l)
  BY MonthHolds
<1>3. PICK a \in Int, b \in Int : a = FirstDay(m) /\ b = FirstDay(m + 1) /\ a <= day /\ day < b
  BY <1>1, <1>2, MonthHolds, MonthsGoOn
<1>4. m + 0 = m
  OBVIOUS
<1>5. DaysIn(m) - 1 = b - a - 1
  BY <1>3 DEF DaysIn
<1>6. Min({day - a, b - a - 1}) = day - a
  <2> DEFINE T == {day - a, b - a - 1}
  <2>1. T \in SUBSET Int /\ T # {} /\ \A z \in T : day - a <= z
    BY <1>3
  <2>2. Floored(T) /\ day - a \in T
    BY <2>1 DEF Floored
  <2> HIDE DEF T
  <2>3. Min(T) \in T /\ Min(T) <= day - a
    BY <2>1, <2>2, MinOf
  <2> QED
    BY <2>1, <2>3 DEF T
<1>7. PlusMonths(l, 0) = (a + (day - a)) * Day + t
  BY <1>1, <1>2, <1>3, <1>4, <1>5, <1>6 DEF PlusMonths
<1>8. (a + (day - a)) * Day = Day * day
  <2>1. a + (day - a) = day
    OBVIOUS
  <2>2. Day \in Int
    BY Calendar
  <2> QED
    BY <2>1, <2>2
<1> QED
  BY <1>1, <1>7, <1>8

LEMMA UtcInt == ASSUME NEW l \in Int PROVE Utc(l) \in Int /\ Local(l) \in Int /\ Reanchored(l) \in Int
<1>1. Before \in Int /\ After \in Int /\ Change \in Int
  BY ConstantsAssumption
<1> QED
  BY <1>1 DEF Utc, Local, Reanchored

LEMMA LengthIs == ASSUME NEW c PROVE Length(c) \in Nat /\ Length(c) >= Day
  BY Calendar DEF Length

\* The local times of a rule lie a day apart at least, and begin with its own.
LEMMA LocalsApart ==
    ASSUME NEW c, NEW l \in Int, NEW n \in Int
    PROVE  /\ Plus(l, c, n) \in Int /\ Plus(l, c, n) + Day <= Plus(l, c, n + 1)
           /\ Plus(l, c, 0) = l
<1>1. CASE c = "monthly"
  <2>1. PlusMonths(l, n) \in Int /\ PlusMonths(l, n) + Day <= PlusMonths(l, n + 1)
    BY MonthsOn
  <2> QED
    BY <1>1, <2>1, NoMonthOn DEF Plus
<1>2. CASE c # "monthly"
  <2>1. PICK p \in Int : p = Length(c) /\ p >= Day /\ Day \in Int
    BY LengthIs, Calendar
  <2>2. PICK s \in Int : s = n * p
    BY <2>1
  <2>3. (n + 1) * p = s + p /\ 0 * p = 0
    BY <2>1, <2>2
  <2>4. /\ Plus(l, c, n) = l + n * p /\ Plus(l, c, n + 1) = l + (n + 1) * p
        /\ Plus(l, c, 0) = l + 0 * p
    BY <1>2, <2>1 DEF Plus
  <2> QED
    BY <2>1, <2>2, <2>3, <2>4
<1> QED
  BY <1>1, <1>2

LEMMA LocalsGrow ==
    ASSUME NEW c, NEW l \in Int, NEW n \in Int, NEW k \in Nat
    PROVE  Plus(l, c, n) \in Int /\ Plus(l, c, n + k) \in Int
           /\ Plus(l, c, n) + Span(k) <= Plus(l, c, n + k)
<1> DEFINE Short == {i \in Nat : ~(Plus(l, c, n) + Span(i) <= Plus(l, c, n + i))}
<1>1. Short = {}
  <2> SUFFICES ASSUME Short # {} PROVE FALSE
    OBVIOUS
  <2>1. PICK i \in Short : \A j \in Short : i <= j
    BY Least
  <2>2. Plus(l, c, n) \in Int
    BY LocalsApart
  <2>3. i # 0
    <3>1. n + 0 = n
      OBVIOUS
    <3> QED
      BY <2>1, <2>2, <3>1, SpanGrows
  <2>4. PICK j \in Nat : i = j + 1
    <3>1. i - 1 \in Nat /\ i = (i - 1) + 1
      BY <2>1, <2>3
    <3> QED
      BY <3>1
  <2>5. Plus(l, c, n) + Span(j) <= Plus(l, c, n + j)
    <3>1. ~(i <= j)
      BY <2>4
    <3> QED
      BY <2>1, <3>1
  <2>6. n + i = (n + j) + 1 /\ n + j \in Int
    BY <2>4
  <2>7. Plus(l, c, n + j) \in Int /\ Plus(l, c, n + i) \in Int
        /\ Plus(l, c, n + j) + Day <= Plus(l, c, n + i)
    BY <2>1, <2>6, LocalsApart
  <2>8. Span(i) = Span(j) + Day /\ Span(j) \in Int /\ Day \in Int
    <3>1. j \in Int /\ Day \in Int
      BY <2>4, Calendar
    <3>2. Span(j + 1) = Span(j) + Day
      BY <3>1, SpanGrows
    <3> QED
      BY <2>4, <3>1, <3>2, SpanInt
  <2>9. Plus(l, c, n) + Span(i) <= Plus(l, c, n + i)
    BY <2>2, <2>5, <2>7, <2>8
  <2> QED
    BY <2>1, <2>9
<1> QED
  BY <1>1, LocalsApart

LEMMA OccurrenceInt == ASSUME NEW a \in Int, NEW c, NEW n \in Int PROVE OccurrenceAt(a, c, n) \in Int
  BY UtcInt, LocalsApart DEF OccurrenceAt

LEMMA EstimateInt ==
    ASSUME NEW a \in Int, NEW c, NEW now \in Int
    PROVE  EstimateIndex(a, c, now) \in Int
<1>1. CASE c = "monthly"
  <2>1. MonthOf(Local(a)) \in Int /\ MonthOf(Local(now)) \in Int
    BY UtcInt, MonthHolds
  <2> QED
    BY <1>1, <2>1 DEF EstimateIndex
<1>2. CASE c # "monthly"
  <2>1. Length(c) \in Nat \ {0} /\ now - a \in Int
    BY LengthIs, Calendar
  <2> QED
    BY <1>2, <2>1, Divided DEF EstimateIndex
<1> QED
  BY <1>1, <1>2

LEMMA AtLeastOne ==
    ASSUME NEW y \in Int
    PROVE  Max({1, y}) \in Int /\ Max({1, y}) \in {1, y} /\ Max({1, y}) >= 1 /\ Max({1, y}) >= y
<1>1. \E z \in {1, y} : \A w \in {1, y} : z >= w
  OBVIOUS
<1> QED
  BY <1>1 DEF Max

\* The number a sweep begins its corrections with, how far they go up, and where down.
Estimate(a, c, now) == Max({1, EstimateIndex(a, c, now)})
Ups(a, c, now) ==
    {n \in Estimate(a, c, now) .. Estimate(a, c, now) + 32 :
       n = Estimate(a, c, now) + 32 \/ OccurrenceAt(a, c, n) > now}
Lowest(a, c, now, up) ==
    Max({1, up - (64 - (up - Estimate(a, c, now)
                          + IF OccurrenceAt(a, c, up) > now THEN 0 ELSE 1))})
Downs(a, c, now, up) ==
    {n \in Lowest(a, c, now, up) .. up : \A k \in n .. up - 1 : OccurrenceAt(a, c, k) > now}

LEMMA FirstIs ==
    ASSUME NEW a \in Int, NEW c, NEW now \in Int
    PROVE  LET up == Min(Ups(a, c, now))
           IN /\ FirstAfter(a, c, now) = Min(Downs(a, c, now, up))
              /\ Estimate(a, c, now) \in Int /\ Estimate(a, c, now) >= 1
              /\ up \in Ups(a, c, now) /\ \A x \in Ups(a, c, now) : up <= x
              /\ up \in Int /\ up >= 1
<1>1. Estimate(a, c, now) \in Int /\ Estimate(a, c, now) >= 1
  <2>1. PICK i \in Int : i = EstimateIndex(a, c, now)
    BY EstimateInt
  <2>2. Max({1, i}) \in Int /\ Max({1, i}) >= 1
    BY AtLeastOne
  <2> QED
    BY <2>1, <2>2 DEF Estimate
<1>2. PICK e \in Int : e = Estimate(a, c, now) /\ e >= 1
  BY <1>1
<1> DEFINE T == Ups(a, c, now)
<1>3. \A x \in T : x \in Int /\ e <= x
  BY <1>2 DEF Ups
<1>4. e + 32 \in T
  BY <1>2 DEF Ups
<1>5. Min(T) \in T /\ \A x \in T : Min(T) <= x
  <2>1. T \in SUBSET Int /\ T # {} /\ Floored(T)
    BY <1>3, <1>4 DEF Floored
  <2> HIDE DEF T
  <2> QED
    BY <2>1, MinOf
<1> DEFINE First(n) == /\ n = e + 32 \/ OccurrenceAt(a, c, n) > now
                       /\ \A k \in e .. n - 1 : ~(OccurrenceAt(a, c, k) > now)
<1>6. PICK m \in Int : m = Min(T) /\ m \in T /\ \A x \in T : m <= x
  BY <1>3, <1>5
<1>7. m \in e .. e + 32 /\ First(m)
  <2>1. m \in e .. e + 32 /\ (m = e + 32 \/ OccurrenceAt(a, c, m) > now)
    BY <1>2, <1>6 DEF Ups
  <2>2. ASSUME NEW k \in e .. m - 1 PROVE ~(OccurrenceAt(a, c, k) > now)
    <3>1. k \in e .. e + 32 /\ ~(m <= k)
      BY <1>2, <2>1
    <3>2. k \notin T
      BY <1>6, <3>1
    <3> QED
      BY <1>2, <3>1, <3>2 DEF Ups
  <2> QED
    BY <2>1, <2>2
<1>8. ASSUME NEW n \in e .. e + 32, First(n) PROVE n = m
  <2>1. n \in T
    BY <1>2, <1>8 DEF Ups
  <2>2. m <= n /\ n \in Int
    BY <1>2, <1>6, <2>1
  <2>3. ~(m < n)
    <3> SUFFICES ASSUME m < n PROVE FALSE
      OBVIOUS
    <3>1. m \in e .. n - 1 /\ m # e + 32
      BY <1>2, <1>6, <1>7
    <3> QED
      BY <1>7, <1>8, <3>1
  <2> QED
    BY <1>6, <2>2, <2>3
<1>9. (CHOOSE n \in e .. e + 32 : First(n)) = m
  <2> HIDE DEF First
  <2> QED
    BY <1>7, <1>8
<1>10. FirstAfter(a, c, now) = Min(Downs(a, c, now, m))
  BY <1>2, <1>9 DEF FirstAfter, Downs, Lowest, Estimate
<1> QED
  BY <1>1, <1>2, <1>3, <1>6, <1>10

\* Where the corrections downward end.
LEMMA DownsFloored ==
    ASSUME NEW a \in Int, NEW c, NEW now \in Int, NEW up \in Int, up >= 1,
           up >= Estimate(a, c, now), up <= Estimate(a, c, now) + 32
    PROVE  LET T == Downs(a, c, now, up)
           IN /\ T \in SUBSET Int /\ up \in T /\ Min(T) \in T /\ \A x \in T : Min(T) <= x
              /\ Lowest(a, c, now, up) \in Int /\ 1 <= Lowest(a, c, now, up)
              /\ Lowest(a, c, now, up) <= up
<1>1. PICK e \in Int : e = Estimate(a, c, now) /\ e >= 1
  BY FirstIs
<1>2. PICK g \in 0 .. 1 : g = IF OccurrenceAt(a, c, up) > now THEN 0 ELSE 1
  OBVIOUS
<1>3. PICK low \in Int : low = Lowest(a, c, now, up) /\ low \in {1, up - (64 - (up - e + g))} /\ low >= 1
  <2>1. PICK i \in Int : i = up - (64 - (up - e + g))
    BY <1>1, <1>2
  <2>2. Max({1, i}) \in Int /\ Max({1, i}) \in {1, i} /\ Max({1, i}) >= 1
    BY AtLeastOne
  <2>3. Lowest(a, c, now, up) = Max({1, i})
    BY <2>1, <1>1, <1>2 DEF Lowest
  <2> QED
    BY <2>1, <2>2, <2>3
<1>4. low <= up
  BY <1>1, <1>2, <1>3
<1> DEFINE T == Downs(a, c, now, up)
<1>5. \A x \in T : x \in Int /\ low <= x
  BY <1>3 DEF Downs
<1>6. up \in T
  BY <1>3, <1>4 DEF Downs
<1>7. Min(T) \in T /\ \A x \in T : Min(T) <= x
  <2>1. T \in SUBSET Int /\ T # {} /\ Floored(T)
    BY <1>5, <1>6, <1>3 DEF Floored
  <2> HIDE DEF T
  <2> QED
    BY <2>1, MinOf
<1> QED
  BY <1>3, <1>4, <1>5, <1>6, <1>7

LEMMA FirstInt ==
    ASSUME NEW a \in Int, NEW c, NEW now \in Int PROVE FirstAfter(a, c, now) \in Int
<1>1. PICK up \in Int : /\ FirstAfter(a, c, now) = Min(Downs(a, c, now, up)) /\ up >= 1
                        /\ up \in Ups(a, c, now) /\ Estimate(a, c, now) \in Int
  BY FirstIs
<1>2. up >= Estimate(a, c, now) /\ up <= Estimate(a, c, now) + 32
  BY <1>1 DEF Ups
<1> QED
  BY <1>1, <1>2, DownsFloored

LEMMA MissingInt ==
    ASSUME NEW a \in Int, NEW c, NEW now \in Int, NEW existing
    PROVE  /\ Missing(a, c, now, existing) \in SUBSET Int
           /\ Floored(Missing(a, c, now, existing))
<1>1. FirstAfter(a, c, now) \in Int
  BY FirstInt
<1>2. \A x \in Missing(a, c, now, existing) : x \in Int /\ FirstAfter(a, c, now) <= x
  BY <1>1, ConstantsAssumption DEF Missing
<1> QED
  BY <1>1, <1>2 DEF Floored

(***************************************************************************)
(* Shapes.                                                                 *)
(***************************************************************************)
\* A row, a row of the offsets, a period of a rule, what a reminder sweep has read, a step of a repair.
Row == [state : {"none", "live", "deleted"}, start : Int, cadence : {"none"} \cup Cadences,
        recurring : BOOLEAN, active : BOOLEAN, archived : BOOLEAN]
Marks == [Minutes -> {"absent", "unsent", "sent"}]
Origin == [n : Int, rule : Nat, cadence : {"none"} \cup Cadences]
Read == [id : Events, m : Minutes, start : Int]
Edits == {"archive", "unarchive", "time", "offsets", "cadence"}
Repairs == {"repair", "cascade"}

\* A slot.
Work == [op : {"none", "generate", "sweep"} \cup Edits \cup Repairs,
         step : {"idle", "existing", "create", "claim", "send", "children", "save"},
         id : Events, copy : Row, at : Int, rule : Nat,
         todo : SUBSET (Int \cup Read),
         seen : {<<>>} \cup Marks \cup (UNION {[S -> Int] : S \in SUBSET Events}),
         plan : SUBSET (Minutes \cup [id : Events, from : Int, to : Int])]

\* What a repair will write, as it was planned.
Target(w, i) == [id |-> i, from |-> w.seen[i], to |-> Reanchored(w.seen[i])]
Movers(w) == IF w.op = "cascade" THEN DOMAIN w.seen ELSE {w.id}

\* What a slot has read is of rows there are.
Repairing(w) ==
    /\ DOMAIN w.seen \in SUBSET Events /\ w.seen \in [DOMAIN w.seen -> Int]
    /\ {Root, w.id} \subseteq DOMAIN w.seen
    /\ \A i \in DOMAIN w.seen : Exists(i)
    /\ \A i, j \in DOMAIN w.seen \ {Root} : w.seen[i] = w.seen[j] => i = j
    /\ w.op = "cascade" => w.id = Root
    /\ w.plan = {Target(w, i) : i \in Movers(w)}
Hand(w) ==
    /\ w.step = "idle" => w.op = "none"
    /\ w.op = "sweep" =>
         /\ w.todo \subseteq Read
         /\ \A d \in w.todo : Exists(d.id)
         /\ \A d, e \in w.todo : d.id = e.id => d.start = e.start
    /\ w.op = "generate" => w.rule <= rule /\ w.step \in {"existing", "create"}
    /\ w.op = "generate" /\ w.step = "create" =>
         w.todo \subseteq Int /\ w.todo # {} /\ Floored(w.todo) /\ w.plan \subseteq Minutes
    /\ w.op \in Edits => w.copy.state = "live" /\ Exists(w.id)
    /\ w.op = "offsets" /\ w.step = "save" => w.seen \in Marks
    /\ w.op \in Repairs => Repairing(w)

\* An id that is free has no offsets, and nothing has been queued for it.
Blank(id) == \A m \in Minutes : offsets[id][m] = "absent" /\ reminds[id][m] = 0

Shapes ==
    /\ clock \in 0 .. MaxTime
    /\ ev \in [Events -> Row] /\ Exists(Root)
    /\ \A i, j \in Occurrences : ev[i].start = ev[j].start => i = j
    /\ offsets \in [Events -> Marks]
    /\ reminds \in [Events -> [Minutes -> Nat]]
    /\ origin \in [Events -> Origin] /\ rule \in Nat
    /\ \A id \in Events : origin[id].rule <= rule
    /\ strays \subseteq Ids /\ raced \subseteq Events \X Minutes
    /\ slots \in [Slots -> Work]
Ground ==
    /\ Shapes
    /\ \A c \in Slots : Hand(slots[c])
    /\ \A id \in Events : ~Exists(id) => Blank(id)

LEMMA Typed == Ground => TypeOK
  BY DEF Ground, Shapes, TypeOK, Row, Marks

LEMMA Unsents == \A M \in SUBSET Minutes : Unsent(M) \in Marks
  BY DEF Unsent, Marks

LEMMA Nothing == NoEvent \in Row /\ NoRead \in Work /\ NoRead.op = "none" /\ NoRead.step = "idle"
<1>1. NoEvent \in Row
  BY DEF NoEvent, Row
<1> HIDE DEF NoEvent
<1>2. NoRead \in Work
  BY <1>1 DEF NoRead, Work, Events, Root
<1> QED
  BY <1>1, <1>2 DEF NoRead

LEMMA NothingInHand == Hand(NoRead) /\ Hand(NoRead)'
  BY DEF Hand, NoRead, Edits, Repairs

LEMMA Initially == Init => Ground
<1> SUFFICES ASSUME Init PROVE Ground
  OBVIOUS
<1>1. PICK start \in Int, cadence \in {"none"} \cup Cadences, M \in SUBSET Minutes :
        /\ ev = [id \in Events |-> IF id # Root THEN NoEvent ELSE Created(start, cadence)]
        /\ offsets = [id \in Events |-> Unsent(IF id = Root THEN M ELSE {})]
  <2>1. PICK first \in {[start |-> FirstStart, cadence |-> "none", m |-> FirstOffsets]}
                         \cup {[start |-> RuleStart, cadence |-> c, m |-> RuleOffsets] :
                                 c \in Cadences} :
          /\ ev = [id \in Events |-> IF id # Root THEN NoEvent
                                     ELSE Created(first.start, first.cadence)]
          /\ offsets = [id \in Events |-> Unsent(IF id = Root THEN first.m ELSE {})]
    BY DEF Init
  <2>2. /\ FirstStart \in Int /\ RuleStart \in Int
        /\ FirstOffsets \in SUBSET Minutes /\ RuleOffsets \in SUBSET Minutes
    BY ConstantsAssumption
  <2>3. /\ first.start \in Int /\ first.cadence \in {"none"} \cup Cadences
        /\ first.m \in SUBSET Minutes
    <3>1. CASE first = [start |-> FirstStart, cadence |-> "none", m |-> FirstOffsets]
      <4>1. first.start = FirstStart /\ first.cadence = "none" /\ first.m = FirstOffsets
        BY <3>1
      <4> QED
        BY <4>1, <2>2
    <3>2. ASSUME NEW c \in Cadences, first = [start |-> RuleStart, cadence |-> c, m |-> RuleOffsets]
          PROVE  /\ first.start \in Int /\ first.cadence \in {"none"} \cup Cadences
                 /\ first.m \in SUBSET Minutes
      <4>1. first.start = RuleStart /\ first.cadence = c /\ first.m = RuleOffsets
        BY <3>2
      <4> QED
        BY <4>1, <2>2
    <3> QED
      BY <3>1, <3>2
  <2> QED
    BY <2>1, <2>3
<1>2. Created(start, cadence) \in Row /\ Created(start, cadence).state = "live"
  BY DEF Created, Row
<1>3. Root \in Events /\ Ids \subseteq Events /\ Root \notin Ids
  BY ConstantsAssumption DEF Events, Root
<1>4. ev \in [Events -> Row] /\ Exists(Root) /\ Occurrences = {}
  <2>1. \A id \in Events : ev[id] = IF id # Root THEN NoEvent ELSE Created(start, cadence)
    BY <1>1
  <2> HIDE DEF Created
  <2>2. ev \in [Events -> Row]
    BY <1>1, <1>2, Nothing
  <2>3. Exists(Root)
    BY <2>1, <1>2, <1>3 DEF Exists
  <2>4. \A id \in Ids : ~Exists(id)
    BY <2>1, <1>3 DEF Exists, NoEvent
  <2> QED
    BY <2>2, <2>3, <2>4 DEF Occurrences
<1>5. offsets \in [Events -> Marks]
  BY <1>1, Unsents
<1>6. reminds \in [Events -> [Minutes -> Nat]] /\ \A id \in Events, m \in Minutes : reminds[id][m] = 0
  BY DEF Init
<1>7. \A id \in Events : ~Exists(id) => Blank(id)
  <2> SUFFICES ASSUME NEW id \in Events, ~Exists(id) PROVE Blank(id)
    OBVIOUS
  <2>1. id # Root
    BY <1>4
  <2>2. offsets[id] = Unsent({})
    BY <1>1, <2>1
  <2> QED
    BY <2>2, <1>6 DEF Blank, Unsent
<1>8. slots = [c \in Slots |-> NoRead]
  BY DEF Init
<1>9. slots \in [Slots -> Work] /\ \A c \in Slots : Hand(slots[c])
  BY <1>8, Nothing, NothingInHand
<1>10. /\ origin \in [Events -> Origin] /\ rule \in Nat
       /\ \A id \in Events : origin[id].rule <= rule
  BY DEF Init, Origin
<1>11. clock \in 0 .. MaxTime /\ strays \subseteq Ids /\ raced \subseteq Events \X Minutes
  BY ConstantsAssumption DEF Init
<1> QED
  BY <1>4, <1>5, <1>6, <1>7, <1>9, <1>10, <1>11 DEF Ground, Shapes

(***************************************************************************)
(* Every step keeps the shapes.                                            *)
(***************************************************************************)
\* No row is ever gone for good: what exists goes on to, if only as deleted.
Growing == rule <= rule' /\ \A id \in Events : Exists(id) => Exists(id)'

\* What another slot has in hand is as good as it was.
LEMMA HandsKept ==
    ASSUME Ground, NEW c \in Slots, NEW w \in Work, slots' = [slots EXCEPT ![c] = w],
           Growing, rule' \in Nat, Hand(w)'
    PROVE  slots' \in [Slots -> Work] /\ \A d \in Slots : Hand(slots[d])'
<1>1. /\ slots' \in [Slots -> Work]
      /\ \A d \in Slots : slots'[d] = IF d = c THEN w ELSE slots[d]
  BY DEF Ground, Shapes
<1>2. ASSUME NEW d \in Slots, d # c PROVE Hand(slots[d])'
  <2> DEFINE e == slots[d]
  <2>1. Hand(e) /\ e' = e /\ e \in Work
    BY <1>1, <1>2 DEF Ground, Shapes
  <2>2. e.rule \in Int /\ rule \in Int /\ rule' \in Int
    BY <2>1 DEF Ground, Shapes, Work
  <2>3. DOMAIN e.seen \in SUBSET Events => \A i \in DOMAIN e.seen : Exists(i) => Exists(i)'
    BY DEF Growing
  <2>4. e.id \in Events /\ (e.todo \subseteq Read => \A x \in e.todo : x.id \in Events)
    BY <2>1 DEF Work, Read
  <2> HIDE DEF e
  <2>5. Hand(e)'
    BY <2>1, <2>2, <2>3, <2>4 DEF Hand, Repairing, Growing, Target, Movers
  <2> QED
    BY <2>5 DEF e
<1> QED
  BY <1>1, <1>2

\* The rows, as a step leaves them.
Tables ==
    /\ ev \in [Events -> Row]
    /\ \A i, j \in Occurrences : ev[i].start = ev[j].start => i = j
    /\ offsets \in [Events -> Marks]
    /\ reminds \in [Events -> [Minutes -> Nat]]
    /\ origin \in [Events -> Origin] /\ rule \in Nat
    /\ \A id \in Events : origin[id].rule <= rule
    /\ strays \subseteq Ids /\ raced \subseteq Events \X Minutes
    /\ \A id \in Events : ~Exists(id) => Blank(id)

\* A step of one slot, and what it does to the rows.
LEMMA OneSlot ==
    ASSUME Ground, NEW c \in Slots, NEW w \in Work, slots' = [slots EXCEPT ![c] = w],
           Growing, Tables', Hand(w)', clock' \in 0 .. MaxTime
    PROVE  Ground'
<1>1. rule' \in Nat
  BY DEF Tables
<1>2. slots' \in [Slots -> Work] /\ \A d \in Slots : Hand(slots[d])'
  BY <1>1, HandsKept
<1>3. Root \in Events /\ Exists(Root)'
  BY DEF Growing, Ground, Shapes, Events
<1> QED
  BY <1>2, <1>3 DEF Ground, Shapes, Tables

LEMMA TablesNow == Ground => Tables
  BY DEF Ground, Shapes, Tables

rows == <<ev, offsets, reminds, origin, rule, strays, raced>>

\* A slot goes on, or takes up work, and the rows stay as they are.
LEMMA SlotOnly ==
    ASSUME Ground, NEW c \in Slots, NEW w \in Work, slots' = [slots EXCEPT ![c] = w],
           UNCHANGED rows, UNCHANGED clock, Hand(w)
    PROVE  Ground'
<1>1. Tables'
  BY TablesNow DEF Tables, rows, Occurrences, Exists, Blank
<1>2. Growing
  BY DEF Growing, rows, Exists, Ground, Shapes
<1>3. Hand(w)'
  BY DEF Hand, rows, Exists, Repairing, Target, Movers
<1>4. clock' \in 0 .. MaxTime
  BY DEF Ground, Shapes
<1> QED
  BY <1>1, <1>2, <1>3, <1>4, OneSlot

LEMMA InHand == ASSUME Ground, NEW c \in Slots PROVE slots[c] \in Work /\ Hand(slots[c])
  BY DEF Ground, Shapes

LEMMA GenerateKeeps == ASSUME Ground, NEW c \in Slots, Generate(c) PROVE Ground'
<1> DEFINE w == [NoRead EXCEPT !.op = "generate", !.step = "existing", !.at = clock,
                        !.copy = ev[Root], !.rule = rule]
<1>1. ev[Root] \in Row /\ clock \in Int /\ rule \in Nat /\ clock \in 0 .. MaxTime
  BY ConstantsAssumption DEF Ground, Shapes, Events
<1>2. w \in Work /\ w.op = "generate" /\ w.step = "existing" /\ w.rule = rule
  <2>1. NoRead \in Work
    BY Nothing
  <2> QED
    BY <2>1, <1>1 DEF Work
<1>3. slots' = [slots EXCEPT ![c] = w] /\ UNCHANGED rows /\ UNCHANGED clock
  BY DEF Generate, history, rows
<1> HIDE DEF w
<1>4. Hand(w)
  BY <1>1, <1>2 DEF Hand, Edits, Repairs
<1>5. PICK u : u = w
  OBVIOUS
<1>6. Hand(u) /\ u \in Work /\ slots' = [slots EXCEPT ![c] = u]
  BY <1>2, <1>3, <1>4, <1>5
<1> QED
  BY <1>3, <1>6, SlotOnly

\* The end of a request.
LEMMA Returning == ASSUME Ground, NEW c \in Slots, Return(c), UNCHANGED rows, UNCHANGED clock PROVE Ground'
  BY SlotOnly, Nothing, NothingInHand DEF Return

LEMMA ExistingKeeps == ASSUME Ground, NEW c \in Slots, ReadExisting(c) PROVE Ground'
<1> DEFINE missing == Missing(slots[c].copy.start, slots[c].copy.cadence, slots[c].at, Held)
           clones == {m \in Minutes : offsets[Root][m] # "absent"}
           w == [slots[c] EXCEPT !.step = "create", !.todo = missing, !.plan = clones]
<1>1. PICK u : u = slots[c]
  OBVIOUS
<1>2. u \in Work /\ Hand(u) /\ u.op = "generate" /\ u.copy.start \in Int /\ u.at \in Int
  BY <1>1, InHand DEF ReadExisting, In, Work, Row
<1>3. UNCHANGED rows /\ UNCHANGED clock
  BY DEF ReadExisting, history, rows
<1>4. CASE Return(c)
  BY <1>3, <1>4, Returning
<1>5. CASE missing # {} /\ slots' = [slots EXCEPT ![c] = w]
  <2>1. missing \in SUBSET Int /\ Floored(missing)
    BY <1>1, <1>2, MissingInt
  <2>2. PICK M : M = missing
    OBVIOUS
  <2>3. PICK P \in SUBSET Minutes : P = clones
    OBVIOUS
  <2> DEFINE v == [u EXCEPT !.step = "create", !.todo = M, !.plan = P]
  <2>4. v \in Work /\ v.op = "generate" /\ v.step = "create" /\ v.todo = M /\ v.plan = P /\ v.rule = u.rule
    BY <1>2, <2>1, <2>2 DEF Work
  <2>5. slots' = [slots EXCEPT ![c] = v]
    BY <1>1, <1>5, <2>2, <2>3
  <2> HIDE DEF v
  <2>6. Hand(v)
    BY <1>2, <1>5, <2>1, <2>2, <2>4 DEF Hand, Edits, Repairs
  <2> QED
    BY <1>3, <2>4, <2>5, <2>6, SlotOnly
<1> QED
  BY <1>4, <1>5 DEF ReadExisting

\* A free id, if there is one, is not in use.
LEMMA FreeId ==
    ASSUME Ground, FreeIds # {}
    PROVE  Min(FreeIds) \in Ids /\ ~Exists(Min(FreeIds)) /\ Min(FreeIds) # Root
<1>1. FreeIds \in SUBSET Int /\ \A x \in FreeIds : 0 <= x
  <2>1. Ids \subseteq Nat
    BY ConstantsAssumption
  <2>2. FreeIds \subseteq Ids
    BY DEF FreeIds
  <2> QED
    BY <2>1, <2>2
<1>2. Floored(FreeIds)
  BY <1>1 DEF Floored
<1>3. Min(FreeIds) \in FreeIds
  BY <1>1, <1>2, MinOf
<1> QED
  BY <1>3, ConstantsAssumption DEF FreeIds, Root

\* What the sweep does to the rows when it makes an occurrence.
Makes(c, id, n, start) ==
    /\ ev' = [ev EXCEPT ![id] = [NoEvent EXCEPT !.state = "live", !.start = start]]
    /\ offsets' = [offsets EXCEPT ![id] = Unsent(slots[c].plan)]
    /\ origin' = [origin EXCEPT ![id] =
         [n |-> n, rule |-> slots[c].rule, cadence |-> slots[c].copy.cadence]]

LEMMA NewRow ==
    ASSUME NEW start \in Int
    PROVE  LET r == [NoEvent EXCEPT !.state = "live", !.start = start] IN
           r \in Row /\ r.state = "live" /\ r.start = start
  BY DEF NoEvent, Row

LEMMA MadeWell ==
    ASSUME Ground, NEW c \in Slots, NEW id \in Ids, ~Exists(id), id # Root, NEW n \in Int,
           NEW start \in Int, start \notin Held, Makes(c, id, n, start),
           slots[c].plan \in SUBSET Minutes, slots[c].rule \in Nat, slots[c].rule <= rule,
           slots[c].copy.cadence \in {"none"} \cup Cadences,
           UNCHANGED <<reminds, rule, strays, raced>>
    PROVE  Tables' /\ Growing
<1> DEFINE row == [NoEvent EXCEPT !.state = "live", !.start = start]
<1>1. row \in Row /\ row.state = "live" /\ row.start = start
  BY NewRow
<1> HIDE DEF row
<1>2. ev' = [ev EXCEPT ![id] = row]
  BY DEF Makes, row
<1>3. id \in Events /\ ev \in [Events -> Row]
  BY DEF Events, Ground, Shapes
<1>4. ev' \in [Events -> Row] /\ ev'[id] = row /\ \A e \in Events : e # id => ev'[e] = ev[e]
  BY <1>1, <1>2, <1>3
<1>5. \A e \in Events : Exists(e)' <=> (e = id \/ Exists(e))
  BY <1>1, <1>4 DEF Exists
<1>6. \A i, j \in Occurrences' : ev'[i].start = ev'[j].start => i = j
  <2>1. \A i \in Occurrences' : i \in Ids /\ i \in Events /\ (i = id \/ i \in Occurrences)
    BY <1>5 DEF Occurrences, Events
  <2>2. \A i \in Occurrences : ev[i].start # start
    BY DEF Held
  <2> QED
    BY <2>1, <2>2, <1>1, <1>4 DEF Ground, Shapes
<1>7. offsets' \in [Events -> Marks] /\ \A e \in Events : e # id => offsets'[e] = offsets[e]
  <2>1. Unsent(slots[c].plan) \in Marks
    BY Unsents
  <2> QED
    BY <2>1, <1>3 DEF Makes, Ground, Shapes
<1>8. origin' \in [Events -> Origin] /\ \A e \in Events : origin'[e].rule <= rule'
  <2> DEFINE o == [n |-> n, rule |-> slots[c].rule, cadence |-> slots[c].copy.cadence]
  <2>1. o \in Origin /\ o.rule <= rule
    BY DEF Origin
  <2>2. origin' = [origin EXCEPT ![id] = o]
    BY DEF Makes
  <2> HIDE DEF o
  <2>3. \A e \in Events : origin'[e] = IF e = id THEN o ELSE origin[e]
    BY <2>2 DEF Ground, Shapes
  <2> QED
    BY <2>1, <2>2, <2>3 DEF Ground, Shapes
<1>9. \A e \in Events : ~Exists(e)' => Blank(e)'
  BY <1>5, <1>7 DEF Blank, Ground
<1> QED
  BY <1>4, <1>5, <1>6, <1>7, <1>8, <1>9 DEF Tables, Growing, Ground, Shapes

\* What is left of the sweep's work after one occurrence.
LEMMA Onward ==
    ASSUME NEW u \in Work, Hand(u), u.op = "generate", u.step = "create", NEW n
    PROVE  /\ n \in u.todo /\ u.todo # {n} => LET v == [u EXCEPT !.todo = @ \ {n}] IN v \in Work /\ Hand(v)
           /\ u.plan \in SUBSET Minutes /\ u.rule \in Nat /\ u.rule <= rule
           /\ Min(u.todo) \in u.todo /\ Min(u.todo) \in Int
<1>1. u.todo \subseteq Int /\ u.todo # {} /\ Floored(u.todo) /\ u.plan \subseteq Minutes
  BY DEF Hand
<1>2. Min(u.todo) \in u.todo
  BY <1>1, MinOf
<1>3. ASSUME n \in u.todo, u.todo # {n}
      PROVE  LET v == [u EXCEPT !.todo = @ \ {n}] IN v \in Work /\ Hand(v)
  <2> DEFINE v == [u EXCEPT !.todo = @ \ {n}]
  <2>1. v \in Work /\ v.op = "generate" /\ v.step = "create" /\ v.todo = u.todo \ {n} /\ v.plan = u.plan
        /\ v.rule = u.rule
    BY DEF Work
  <2> HIDE DEF v
  <2>2. v.todo \subseteq Int /\ v.todo # {} /\ Floored(v.todo)
    BY <1>1, <1>3, <2>1 DEF Floored
  <2>3. Hand(v)
    BY <2>1, <2>2, <1>1 DEF Hand, Edits, Repairs
  <2> QED
    BY <2>1, <2>3 DEF v
<1> QED
  BY <1>1, <1>2, <1>3 DEF Hand, Work

LEMMA CreateKeeps == ASSUME Ground, NEW c \in Slots, CreateOccurrence(c) PROVE Ground'
<1>1. PICK u : u = slots[c]
  OBVIOUS
<1>2. u \in Work /\ Hand(u) /\ u.op = "generate" /\ u.step = "create" /\ u.copy.start \in Int
      /\ u.copy.cadence \in {"none"} \cup Cadences
  BY <1>1, InHand DEF CreateOccurrence, In, Work, Row
<1>3. PICK n : n = Min(u.todo)
  OBVIOUS
<1>4. /\ n \in u.todo /\ n \in Int /\ u.plan \in SUBSET Minutes /\ u.rule \in Nat /\ u.rule <= rule
      /\ u.todo # {n} => LET v == [u EXCEPT !.todo = @ \ {n}] IN v \in Work /\ Hand(v)
  BY <1>2, <1>3, Onward
<1>5. PICK start \in Int : start = OccurrenceAt(u.copy.start, u.copy.cadence, n)
  BY <1>2, <1>4, OccurrenceInt
<1>6. Tables' /\ Growing
  <2>1. CASE start \in Held \/ FreeIds = {}
    <3>1. UNCHANGED rows
      BY <1>1, <1>3, <1>5, <2>1 DEF CreateOccurrence, rows
    <3> QED
      BY <3>1, TablesNow DEF Tables, Growing, rows, Occurrences, Exists, Blank, Ground, Shapes
  <2>2. CASE ~(start \in Held \/ FreeIds = {})
    <3>1. PICK id \in Ids : id = Min(FreeIds) /\ ~Exists(id) /\ id # Root
      BY <2>2, FreeId
    <3>2. Makes(c, id, n, start) /\ UNCHANGED <<reminds, rule, strays, raced>>
      BY <1>1, <1>3, <1>5, <2>2, <3>1 DEF CreateOccurrence, Makes
    <3> QED
      BY <1>1, <1>2, <1>4, <2>2, <3>1, <3>2, MadeWell
  <2> QED
    BY <2>1, <2>2
<1>7. clock' \in 0 .. MaxTime
  BY DEF CreateOccurrence, Ground, Shapes
<1>8. CASE Return(c)
  BY <1>6, <1>7, <1>8, OneSlot, Nothing, NothingInHand DEF Return
<1>9. CASE u.todo # {n} /\ slots' = [slots EXCEPT ![c].todo = @ \ {n}]
  <2> DEFINE v == [u EXCEPT !.todo = @ \ {n}]
  <2>1. v \in Work /\ Hand(v) /\ v.op = "generate"
    BY <1>2, <1>4, <1>9
  <2>2. slots' = [slots EXCEPT ![c] = v]
    BY <1>1, <1>9
  <2> HIDE DEF v
  <2>3. Hand(v)'
    BY <2>1, <1>6 DEF Hand, Edits, Repairs, Growing, Ground, Shapes, Work, Tables
  <2> QED
    BY <1>6, <1>7, <2>1, <2>2, <2>3, OneSlot
<1> QED
  BY <1>1, <1>3, <1>8, <1>9 DEF CreateOccurrence

\* What a sweep reads of a due offset.
LEMMA DueRead ==
    ASSUME Ground, NEW d \in Due
    PROVE  [id |-> d[1], m |-> d[2], start |-> ev[d[1]].start] \in Read /\ Exists(d[1])
  BY DEF Due, Read, Live, Exists, Ground, Shapes, Row

LEMMA SweepKeeps == ASSUME Ground, NEW c \in Slots, Sweep(c) PROVE Ground'
<1>1. UNCHANGED rows /\ UNCHANGED clock
  BY DEF Sweep, history, rows
<1> DEFINE read == {[id |-> d[1], m |-> d[2], start |-> ev[d[1]].start] : d \in FirstBatch}
<1>2. CASE UNCHANGED slots
  <2>1. slots' = [slots EXCEPT ![c] = slots[c]]
    BY <1>2 DEF Ground, Shapes
  <2>2. PICK u : u = slots[c]
    OBVIOUS
  <2> QED
    BY <1>1, <2>1, <2>2, InHand, SlotOnly
<1>3. CASE slots' = [slots EXCEPT ![c] = [NoRead EXCEPT !.op = "sweep", !.step = "claim",
                                                        !.at = clock, !.todo = read]]
  <2>1. /\ read \in SUBSET Read
        /\ \A x \in read : Exists(x.id)
        /\ \A x \in read : x.start = ev[x.id].start
    <3> SUFFICES ASSUME NEW x \in read PROVE x \in Read /\ Exists(x.id) /\ x.start = ev[x.id].start
      OBVIOUS
    <3>1. PICK d \in Due : x = [id |-> d[1], m |-> d[2], start |-> ev[d[1]].start]
      BY DEF FirstBatch
    <3>2. x \in Read /\ Exists(d[1])
      BY <3>1, DueRead
    <3> QED
      BY <3>1, <3>2
  <2>2. PICK R : R = read
    OBVIOUS
  <2>3. PICK t \in Int : t = clock
    BY ConstantsAssumption DEF Ground, Shapes
  <2> DEFINE v == [NoRead EXCEPT !.op = "sweep", !.step = "claim", !.at = t, !.todo = R]
  <2>4. v \in Work /\ v.op = "sweep" /\ v.step = "claim" /\ v.todo = R
    <3>1. NoRead \in Work
      BY Nothing
    <3> QED
      BY <3>1, <2>1, <2>2 DEF Work
  <2>5. slots' = [slots EXCEPT ![c] = v]
    BY <1>3, <2>2, <2>3
  <2> HIDE DEF v, read
  <2>6. Hand(v)
    BY <2>1, <2>2, <2>4 DEF Hand, Edits, Repairs
  <2> QED
    BY <1>1, <2>4, <2>5, <2>6, SlotOnly
<1> QED
  BY <1>2, <1>3 DEF Sweep

\* A sweep whose work gets less.
LEMMA Shorter ==
    ASSUME NEW u \in Work, Hand(u), u.op = "sweep", NEW d
    PROVE  LET v == [u EXCEPT !.step = "send"]
               x == [u EXCEPT !.todo = @ \ {d}]
               y == [u EXCEPT !.step = "claim", !.todo = @ \ {d}]
           IN \A k \in {v, x, y} : k \in Work /\ (u.step # "idle" => Hand(k)) /\ k.op = "sweep"
<1> DEFINE v == [u EXCEPT !.step = "send"]
           x == [u EXCEPT !.todo = @ \ {d}]
           y == [u EXCEPT !.step = "claim", !.todo = @ \ {d}]
<1>1. v \in Work /\ v.op = "sweep" /\ v.todo = u.todo /\ v.step = "send"
  BY DEF Work
<1>2. x \in Work /\ x.op = "sweep" /\ x.todo = u.todo \ {d} /\ x.step = u.step
  BY DEF Work
<1>3. y \in Work /\ y.op = "sweep" /\ y.todo = u.todo \ {d} /\ y.step = "claim"
  BY DEF Work
<1> HIDE DEF v, x, y
<1>4. \A k \in {v, x, y} : k.op = "sweep" /\ k.todo \subseteq u.todo /\ k \in Work
                           /\ (u.step # "idle" => k.step # "idle")
  BY <1>1, <1>2, <1>3
<1>5. \A k \in {v, x, y} : u.step # "idle" => Hand(k)
  <2> SUFFICES ASSUME NEW k \in {v, x, y}, u.step # "idle" PROVE Hand(k)
    OBVIOUS
  <2> QED
    BY <1>4 DEF Hand, Edits, Repairs
<1> QED
  BY <1>4, <1>5 DEF v, x, y

LEMMA ClaimKeeps ==
    ASSUME Ground, NEW c \in Slots, NEW d \in InBatch(c), Claim(c, d) PROVE Ground'
<1>1. PICK u : u = slots[c]
  OBVIOUS
<1>2. u \in Work /\ Hand(u) /\ u.op = "sweep" /\ u.step = "claim" /\ d \in u.todo /\ d \in Read
  BY <1>1, InHand DEF Claim, In, Hand
<1>3. offsets' \in [Events -> Marks] /\ \A e \in Events : ~Exists(e) => offsets'[e] = offsets[e]
  <2>1. Exists(d.id) /\ d.id \in Events /\ d.m \in Minutes
    BY <1>2 DEF Hand, Read
  <2>2. CASE offsets' = offsets
    BY <2>2 DEF Ground, Shapes
  <2>3. CASE offsets' = [offsets EXCEPT ![d.id][d.m] = "sent"]
    BY <2>1, <2>3 DEF Ground, Shapes, Marks
  <2> QED
    BY <2>2, <2>3 DEF Claim
<1>4. raced' \subseteq Events \X Minutes
  BY <1>2 DEF Claim, Ground, Shapes, Read
<1>5. UNCHANGED <<ev, reminds, origin, rule, strays, clock>>
  BY DEF Claim
<1>6. Tables' /\ Growing
  BY <1>3, <1>4, <1>5, TablesNow DEF Tables, Growing, Occurrences, Exists, Blank, Ground, Shapes
<1>7. clock' \in 0 .. MaxTime
  BY <1>5 DEF Ground, Shapes
<1>8. ASSUME NEW k \in Work, k.op = "sweep", Hand(k), slots' = [slots EXCEPT ![c] = k] PROVE Ground'
  <2>1. Hand(k)'
    BY <1>8, <1>5 DEF Hand, Edits, Repairs, Exists
  <2> QED
    BY <2>1, <1>6, <1>7, <1>8, OneSlot
<1>9. CASE Return(c)
  BY <1>6, <1>7, <1>9, OneSlot, Nothing, NothingInHand DEF Return
<1>10. CASE slots' = [slots EXCEPT ![c].step = "send"]
  <2>1. slots' = [slots EXCEPT ![c] = [u EXCEPT !.step = "send"]]
    BY <1>1, <1>10
  <2> QED
    BY <2>1, <1>2, <1>8, Shorter
<1>11. CASE slots' = [slots EXCEPT ![c].todo = @ \ {d}]
  <2>1. slots' = [slots EXCEPT ![c] = [u EXCEPT !.todo = @ \ {d}]]
    BY <1>1, <1>11
  <2> QED
    BY <2>1, <1>2, <1>8, Shorter
<1> QED
  BY <1>9, <1>10, <1>11 DEF Claim

LEMMA EnqueueKeeps ==
    ASSUME Ground, NEW c \in Slots, NEW d \in InBatch(c), EnqueueReminder(c, d) PROVE Ground'
<1>1. PICK u : u = slots[c]
  OBVIOUS
<1>2. u \in Work /\ Hand(u) /\ u.op = "sweep" /\ u.step = "send" /\ d \in u.todo /\ d \in Read
  BY <1>1, InHand DEF EnqueueReminder, In, Hand
<1>3. /\ reminds' \in [Events -> [Minutes -> Nat]]
      /\ \A e \in Events : ~Exists(e) => reminds'[e] = reminds[e]
  <2>1. Exists(d.id) /\ d.id \in Events /\ d.m \in Minutes
    BY <1>2 DEF Hand, Read
  <2> QED
    BY <2>1 DEF EnqueueReminder, Ground, Shapes
<1>5. UNCHANGED <<ev, offsets, origin, rule, strays, raced, clock>>
  BY DEF EnqueueReminder
<1>6. Tables' /\ Growing
  BY <1>3, <1>5, TablesNow DEF Tables, Growing, Occurrences, Exists, Blank, Ground, Shapes
<1>7. clock' \in 0 .. MaxTime
  BY <1>5 DEF Ground, Shapes
<1>8. ASSUME NEW k \in Work, k.op = "sweep", Hand(k), slots' = [slots EXCEPT ![c] = k] PROVE Ground'
  <2>1. Hand(k)'
    BY <1>8, <1>5 DEF Hand, Edits, Repairs, Exists
  <2> QED
    BY <2>1, <1>6, <1>7, <1>8, OneSlot
<1>9. CASE Return(c)
  BY <1>6, <1>7, <1>9, OneSlot, Nothing, NothingInHand DEF Return
<1>10. CASE slots' = [slots EXCEPT ![c].step = "claim", ![c].todo = @ \ {d}]
  <2>1. slots' = [slots EXCEPT ![c] = [u EXCEPT !.step = "claim", !.todo = @ \ {d}]]
    BY <1>1, <1>10 DEF Ground, Shapes
  <2> QED
    BY <2>1, <1>2, <1>8, Shorter
<1> QED
  BY <1>9, <1>10 DEF EnqueueReminder

\* What is under way ends with the process.
LEMMA CrashKeeps == ASSUME Ground, Crash PROVE Ground'
<1>1. UNCHANGED rows /\ UNCHANGED clock /\ slots' = [c \in Slots |-> NoRead]
  BY DEF Crash, history, rows
<1>2. slots' \in [Slots -> Work] /\ \A c \in Slots : slots'[c] = NoRead
  BY <1>1, Nothing
<1>3. \A c \in Slots : Hand(slots[c])'
  BY <1>2, NothingInHand
<1>4. Tables'
  BY <1>1, TablesNow DEF Tables, rows, Occurrences, Exists, Blank
<1> QED
  BY <1>1, <1>2, <1>3, <1>4 DEF Ground, Shapes, Tables, rows, Exists

LEMMA TickKeeps == ASSUME Ground, Tick PROVE Ground'
<1>1. UNCHANGED rows /\ UNCHANGED slots /\ clock' \in 0 .. MaxTime
  BY ConstantsAssumption DEF Tick, history, rows, Ground, Shapes
<1> QED
  BY <1>1 DEF Ground, Shapes, Hand, Repairing, Target, Movers, rows, Occurrences, Exists, Blank

\* A row that is loaded is live, and so is what is saved of it.
LEMMA LoadKeeps ==
    ASSUME Ground, NEW c \in Slots, NEW id \in Events, NEW op \in Edits, LoadEvent(c, id, op)
    PROVE  Ground'
<1>1. UNCHANGED rows /\ UNCHANGED clock
  BY DEF LoadEvent, history, rows
<1>2. PICK row \in Row : row = ev[id] /\ row.state = "live"
  BY DEF LoadEvent, Live, Ground, Shapes
<1>9. PICK step \in {"children", "save"} : step = IF op = "offsets" THEN "children" ELSE "save"
  OBVIOUS
<1> DEFINE w == [NoRead EXCEPT !.op = op, !.id = id, !.copy = row, !.step = step]
<1>3. w \in Work /\ w.op = op /\ w.id = id /\ w.copy = row /\ w.step = step
  <2>1. NoRead \in Work
    BY Nothing
  <2> QED
    BY <2>1 DEF Work, Edits
<1>4. slots' = [slots EXCEPT ![c] = w]
  BY <1>2, <1>9 DEF LoadEvent
<1> HIDE DEF w
<1>5. Hand(w)
  BY <1>2, <1>3, <1>9 DEF Hand, Edits, Repairs, Exists
<1> QED
  BY <1>1, <1>3, <1>4, <1>5, SlotOnly

\* What save() does to the rows when it is given one that is live.
LEMMA SaveKeeps ==
    ASSUME Ground, NEW c \in Slots, slots[c].op \in Edits, NEW row \in Row, row.state = "live",
           Save(c, row), UNCHANGED origin
    PROVE  /\ ev' \in [Events -> Row] /\ Growing /\ rule' \in Nat /\ strays' \subseteq Ids
           /\ \A i, j \in Occurrences' : ev'[i].start = ev'[j].start => i = j
           /\ \A id \in Events : origin'[id].rule <= rule'
           /\ \A id \in Events : Exists(id)' <=> Exists(id)
<1>1. PICK id \in Events : id = slots[c].id /\ Exists(id)
  BY InHand DEF Hand, Work
<1>2. CASE ~Fits(id, row)
  <2>1. UNCHANGED <<ev, rule, strays>>
    BY <1>1, <1>2 DEF Save
  <2> QED
    BY <2>1 DEF Ground, Shapes, Growing, Exists, Occurrences
<1>3. CASE Fits(id, row)
  <2>1. /\ ev' = [ev EXCEPT ![id] = row]
        /\ rule' = IF id = Root /\ row.start # ev[id].start THEN rule + 1 ELSE rule
        /\ strays' = IF id # Root /\ row.start # ev[id].start THEN strays \cup {id} ELSE strays
    BY <1>1, <1>3 DEF Save
  <2>2. ev' \in [Events -> Row] /\ \A e \in Events : ev'[e] = IF e = id THEN row ELSE ev[e]
    BY <2>1 DEF Ground, Shapes
  <2>3. \A e \in Events : Exists(e)' <=> Exists(e)
    BY <2>2, <1>1 DEF Exists
  <2>4. rule' \in Nat /\ rule <= rule' /\ strays' \subseteq Ids
    BY <2>1 DEF Ground, Shapes, Events
  <2>5. \A i, j \in Occurrences' : ev'[i].start = ev'[j].start => i = j
    <3>1. Occurrences' = Occurrences /\ Occurrences \subseteq Events \ {Root}
      BY <2>3, ConstantsAssumption DEF Occurrences, Events, Root
    <3>2. id = Root \/ \A o \in Occurrences \ {id} : ev[o].start # row.start
      BY <1>3 DEF Fits
    <3> QED
      BY <3>1, <3>2, <2>2 DEF Ground, Shapes
  <2>6. \A e \in Events : origin'[e].rule <= rule'
    BY <2>4 DEF Ground, Shapes, Origin
  <2> QED
    BY <2>2, <2>3, <2>4, <2>5, <2>6 DEF Growing
<1> QED
  BY <1>2, <1>3

\* A request that saves its row, and ends.
LEMMA SavedAndDone ==
    ASSUME Ground, NEW c \in Slots, slots[c].op \in Edits, NEW row \in Row, row.state = "live",
           Save(c, row), UNCHANGED <<clock, origin, offsets, reminds, raced>>, Return(c)
    PROVE  Ground'
<1>1. /\ ev' \in [Events -> Row] /\ Growing /\ rule' \in Nat /\ strays' \subseteq Ids
      /\ \A i, j \in Occurrences' : ev'[i].start = ev'[j].start => i = j
      /\ \A id \in Events : origin'[id].rule <= rule'
      /\ \A id \in Events : Exists(id)' <=> Exists(id)
  BY SaveKeeps
<1>2. Tables'
  BY <1>1 DEF Tables, Blank, Ground, Shapes
<1>3. clock' \in 0 .. MaxTime
  BY DEF Ground, Shapes
<1> QED
  BY <1>1, <1>2, <1>3, OneSlot, Nothing, NothingInHand DEF Return

\* The copy of a row, with a column changed, is still live.
LEMMA Copies ==
    ASSUME NEW row \in Row, row.state = "live", NEW b \in BOOLEAN, NEW start \in Int
    PROVE  /\ [row EXCEPT !.archived = b] \in Row /\ [row EXCEPT !.archived = b].state = "live"
           /\ [row EXCEPT !.start = start] \in Row /\ [row EXCEPT !.start = start].state = "live"
           /\ \A r \in Recurrence(row) : r \in Row /\ r.state = "live"
<1>1. \A x \in {"none"} \cup Cadences, y, z \in BOOLEAN :
        /\ [row EXCEPT !.cadence = x, !.recurring = y, !.active = z] \in Row
        /\ [row EXCEPT !.cadence = x, !.recurring = y, !.active = z].state = "live"
        /\ [row EXCEPT !.cadence = x, !.active = z] \in Row
        /\ [row EXCEPT !.cadence = x, !.active = z].state = "live"
        /\ [row EXCEPT !.active = z] \in Row /\ [row EXCEPT !.active = z].state = "live"
        /\ [row EXCEPT !.recurring = y] \in Row /\ [row EXCEPT !.recurring = y].state = "live"
  BY DEF Row
<1>2. (~row.active) \in BOOLEAN /\ (~row.recurring) \in BOOLEAN
  OBVIOUS
<1>3. ASSUME NEW r \in Recurrence(row) PROVE r \in Row /\ r.state = "live"
  <2>1. CASE \E x \in Cadences :
               r = [row EXCEPT !.cadence = x, !.recurring = TRUE, !.active = TRUE]
    <3>1. PICK x \in Cadences :
            r = [row EXCEPT !.cadence = x, !.recurring = TRUE, !.active = TRUE]
      BY <2>1
    <3>2. x \in {"none"} \cup Cadences /\ TRUE \in BOOLEAN
      OBVIOUS
    <3> QED
      BY <1>1, <3>1, <3>2
  <2>2. CASE r = [row EXCEPT !.cadence = "none", !.active = FALSE]
    <3>1. "none" \in {"none"} \cup Cadences /\ FALSE \in BOOLEAN
      OBVIOUS
    <3> QED
      BY <1>1, <2>2, <3>1
  <2>3. CASE r = [row EXCEPT !.active = ~row.active]
    BY <1>1, <1>2, <2>3
  <2>4. CASE r = [row EXCEPT !.recurring = ~row.recurring]
    BY <1>1, <1>2, <2>4
  <2> QED
    BY <2>1, <2>2, <2>3, <2>4 DEF Recurrence
<1>4. /\ [row EXCEPT !.archived = b] \in Row /\ [row EXCEPT !.archived = b].state = "live"
      /\ [row EXCEPT !.start = start] \in Row /\ [row EXCEPT !.start = start].state = "live"
  BY DEF Row
<1> QED
  BY <1>3, <1>4

LEMMA EditKeeps ==
    ASSUME Ground, NEW c \in Slots, SaveArchived(c) \/ SaveTime(c) \/ SaveCadence(c) PROVE Ground'
<1>1. slots[c].op \in Edits
  BY DEF SaveArchived, SaveTime, SaveCadence, In, Edits
<1>2. PICK copy \in Row : copy = slots[c].copy /\ copy.state = "live"
  BY <1>1, InHand DEF Hand, Work
<1>3. PICK row \in Row : row.state = "live" /\ Save(c, row)
  <2>1. CASE SaveArchived(c)
    <3>1. PICK b \in BOOLEAN : b = (slots[c].op = "archive")
      OBVIOUS
    <3>2. Save(c, [copy EXCEPT !.archived = b])
      BY <2>1, <3>1, <1>2 DEF SaveArchived
    <3> QED
      BY <3>2, <1>2, Copies, ConstantsAssumption
  <2>2. CASE SaveTime(c)
    <3>1. PICK start \in Starts : Save(c, [copy EXCEPT !.start = start])
      BY <2>2, <1>2 DEF SaveTime
    <3>2. start \in Int
      BY <3>1, ConstantsAssumption
    <3> QED
      BY <3>1, <3>2, <1>2, Copies
  <2>3. CASE SaveCadence(c)
    <3>1. PICK row \in Recurrence(copy) : Save(c, row)
      BY <2>3, <1>2 DEF SaveCadence
    <3>2. TRUE \in BOOLEAN /\ 0 \in Int
      OBVIOUS
    <3>3. \A r \in Recurrence(copy) : r \in Row /\ r.state = "live"
      BY <3>2, <1>2, Copies
    <3> QED
      BY <3>1, <3>3
  <2> QED
    BY <2>1, <2>2, <2>3
<1>4. UNCHANGED <<clock, origin, offsets, reminds, raced>> /\ Return(c)
  BY DEF SaveArchived, SaveTime, SaveCadence
<1> QED
  BY <1>1, <1>3, <1>4, SavedAndDone

LEMMA ReadOffsetsKeeps == ASSUME Ground, NEW c \in Slots, ReadOffsets(c) PROVE Ground'
<1>1. PICK u : u = slots[c]
  OBVIOUS
<1>2. u \in Work /\ Hand(u) /\ u.op = "offsets"
  BY <1>1, InHand DEF ReadOffsets, In
<1>3. PICK s \in Marks : s = offsets[u.id]
  BY <1>2 DEF Ground, Shapes, Work
<1> DEFINE v == [u EXCEPT !.step = "save", !.seen = s]
<1>4. v \in Work /\ v.op = "offsets" /\ v.step = "save" /\ v.seen = s /\ v.id = u.id /\ v.copy = u.copy
  BY <1>2 DEF Work
<1>5. slots' = [slots EXCEPT ![c] = v]
  BY <1>1, <1>3 DEF ReadOffsets, Ground, Shapes
<1>6. UNCHANGED rows /\ UNCHANGED clock
  BY DEF ReadOffsets, history, rows
<1> HIDE DEF v
<1>7. Hand(v)
  BY <1>2, <1>4 DEF Hand, Edits, Repairs
<1> QED
  BY <1>4, <1>5, <1>6, <1>7, SlotOnly

\* The children are written anew.
LEMMA SaveOffsetsKeeps == ASSUME Ground, NEW c \in Slots, SaveOffsets(c) PROVE Ground'
<1>1. slots[c].op = "offsets" /\ slots[c].step = "save" /\ slots[c].op \in Edits
  BY DEF SaveOffsets, In, Edits
<1>2. PICK id \in Events : id = slots[c].id /\ Exists(id)
  BY <1>1, InHand DEF Hand, Work
<1>3. slots[c].copy \in Row /\ slots[c].copy.state = "live" /\ slots[c].seen \in Marks
  BY <1>1, InHand DEF Hand, Work
<1>4. PICK copy \in Row : copy = slots[c].copy /\ copy.state = "live" /\ Save(c, copy)
  BY <1>3 DEF SaveOffsets
<1>5. UNCHANGED <<clock, origin>>
  BY DEF SaveOffsets
<1>6. /\ ev' \in [Events -> Row] /\ Growing /\ rule' \in Nat /\ strays' \subseteq Ids
      /\ \A i, j \in Occurrences' : ev'[i].start = ev'[j].start => i = j
      /\ \A e \in Events : origin'[e].rule <= rule'
      /\ \A e \in Events : Exists(e)' <=> Exists(e)
  BY <1>1, <1>4, <1>5, SaveKeeps
<1>7. /\ offsets' \in [Events -> Marks] /\ reminds' \in [Events -> [Minutes -> Nat]]
      /\ \A e \in Events : e # id => offsets'[e] = offsets[e] /\ reminds'[e] = reminds[e]
  <2>1. PICK minutes \in SUBSET Minutes :
          IF ~Fits(id, slots[c].copy) THEN UNCHANGED <<offsets, reminds>>
          ELSE /\ offsets' = [offsets EXCEPT ![id] = Carried(slots[c].seen, minutes)]
               /\ reminds' = [reminds EXCEPT ![id] = [m \in Minutes |->
                    IF offsets[id][m] = "absent" THEN 0 ELSE @[m]]]
    BY <1>2 DEF SaveOffsets
  <2>2. Carried(slots[c].seen, minutes) \in Marks
    BY <1>3 DEF Carried, Marks
  <2>3. [m \in Minutes |-> IF offsets[id][m] = "absent" THEN 0 ELSE reminds[id][m]] \in [Minutes -> Nat]
    BY DEF Ground, Shapes
  <2> QED
    BY <2>1, <2>2, <2>3 DEF Ground, Shapes
<1>8. raced' \subseteq Events \X Minutes
  <2>1. raced' = raced \cup {<<id, m>> : m \in
                     {x \in Minutes : offsets[id][x] = "absent" /\ OnItsWay(id, x)}}
    BY <1>2 DEF SaveOffsets
  <2> QED
    BY <2>1 DEF Ground, Shapes
<1>9. Tables'
  <2>1. \A e \in Events : ~Exists(e)' => Blank(e)'
    BY <1>2, <1>6, <1>7 DEF Blank, Ground
  <2>2. origin' \in [Events -> Origin]
    BY <1>5 DEF Ground, Shapes
  <2> QED
    BY <1>6, <1>7, <1>8, <2>1, <2>2 DEF Tables
<1>10. clock' \in 0 .. MaxTime /\ Return(c)
  BY <1>5 DEF Ground, Shapes, SaveOffsets
<1> QED
  BY <1>6, <1>9, <1>10, OneSlot, Nothing, NothingInHand DEF Return

\* A row is marked as deleted, or those of the series are.
LEMMA RemovalsKeep ==
    ASSUME Ground, NEW id \in Events, Remove(id) \/ RemoveSeries(id) PROVE Ground'
<1>1. UNCHANGED <<clock, slots, offsets, reminds, origin, rule, strays, raced>>
  BY DEF Remove, RemoveSeries, history
<1>2. /\ ev' \in [Events -> Row]
      /\ \A e \in Events : ev'[e].start = ev[e].start /\ (Exists(e)' <=> Exists(e))
  <2>1. \A r \in Row : [r EXCEPT !.state = "deleted"] \in Row
                       /\ [r EXCEPT !.state = "deleted"].start = r.start
                       /\ [r EXCEPT !.state = "deleted"].state = "deleted"
    BY DEF Row
  <2>2. CASE Remove(id)
    <3>1. ev' = [ev EXCEPT ![id] = [ev[id] EXCEPT !.state = "deleted"]] /\ Exists(id)
      BY <2>2 DEF Remove, Live, Exists
    <3>2. ev[id] \in Row
      BY DEF Ground, Shapes
    <3> QED
      BY <2>1, <3>1, <3>2 DEF Exists, Ground, Shapes
  <2>3. CASE RemoveSeries(id)
    <3>1. \A e \in Events : ev'[e] = IF Exists(e) THEN [ev[e] EXCEPT !.state = "deleted"] ELSE ev[e]
      BY <2>3 DEF RemoveSeries
    <3>2. \A e \in Events : ev[e] \in Row
      BY DEF Ground, Shapes
    <3>3. \A e \in Events : ev'[e] \in Row /\ ev'[e].start = ev[e].start /\ (Exists(e)' <=> Exists(e))
      BY <2>1, <3>1, <3>2 DEF Exists
    <3>4. ev' = [e \in Events |-> IF Exists(e) THEN [ev[e] EXCEPT !.state = "deleted"] ELSE ev[e]]
      BY <2>3 DEF RemoveSeries
    <3> QED
      BY <3>3, <3>4
  <2> QED
    BY <2>2, <2>3
<1>3. Occurrences' = Occurrences /\ Occurrences \subseteq Events
  BY <1>2 DEF Occurrences, Events
<1>4. \A e \in Events : Exists(e)' <=> Exists(e)
  BY <1>2
<1>5. Tables'
  BY <1>1, <1>2, <1>3, <1>4, TablesNow DEF Tables, Blank
<1>6. \A c \in Slots : Hand(slots[c])'
  <2> TAKE c \in Slots
  <2>1. PICK u \in Work : u = slots[c] /\ Hand(u) /\ u = slots'[c]
    BY <1>1, InHand
  <2>2. \A e \in Events : Exists(e) => Exists(e)'
    BY <1>4
  <2>3. u.id \in Events /\ (u.todo \subseteq Read => \A x \in u.todo : x.id \in Events)
    BY <2>1 DEF Work, Read
  <2>4. Hand(u)'
    BY <1>1, <2>1, <2>2, <2>3 DEF Hand, Repairing, Target, Movers
  <2> QED
    BY <2>1, <2>4
<1>7. Root \in Events
  BY DEF Events
<1> QED
  BY <1>1, <1>2, <1>4, <1>5, <1>6, <1>7 DEF Ground, Shapes, Tables

\* Whom a repair moves.
LEMMA AllThere ==
    ASSUME Ground
    PROVE  /\ DOMAIN AllStarts = {Root} \cup Occurrences
           /\ AllStarts \in [DOMAIN AllStarts -> Int] /\ DOMAIN AllStarts \in SUBSET Events
           /\ \A i \in DOMAIN AllStarts : Exists(i) /\ AllStarts[i] = ev[i].start
           /\ \A i, j \in DOMAIN AllStarts \ {Root} : AllStarts[i] = AllStarts[j] => i = j
<1>1. DOMAIN AllStarts = {e \in Events : Exists(e)}
  BY DEF AllStarts
<1>2. {e \in Events : Exists(e)} = {Root} \cup Occurrences
  BY DEF Ground, Shapes, Events, Occurrences
<1>3. \A i \in {e \in Events : Exists(e)} : AllStarts[i] = ev[i].start /\ ev[i].start \in Int
  BY DEF AllStarts, Ground, Shapes, Row
<1>4. AllStarts \in [DOMAIN AllStarts -> Int]
  BY <1>1, <1>3 DEF AllStarts
<1>5. \A i, j \in DOMAIN AllStarts \ {Root} : AllStarts[i] = AllStarts[j] => i = j
  <2> SUFFICES ASSUME NEW i \in DOMAIN AllStarts \ {Root}, NEW j \in DOMAIN AllStarts \ {Root},
                      AllStarts[i] = AllStarts[j]
               PROVE  i = j
    OBVIOUS
  <2>1. i \in Occurrences /\ j \in Occurrences /\ ev[i].start = ev[j].start
    BY <1>1, <1>2, <1>3
  <2> QED
    BY <2>1 DEF Ground, Shapes
<1> QED
  BY <1>1, <1>2, <1>3, <1>4, <1>5

\* The rows a repair of this kind plans for.
Asked(id, op) == {id} \cup (IF op = "cascade" THEN Occurrences ELSE {})

LEMMA Planned ==
    ASSUME Ground, NEW id \in Events, Exists(id), NEW op \in Repairs, op = "cascade" => id = Root
    PROVE  LET w == [NoRead EXCEPT !.op = op, !.step = "save", !.id = id,
                                   !.plan = Plan(Asked(id, op)), !.seen = AllStarts]
           IN w \in Work /\ w.op = op /\ w.step = "save" /\ w.id = id /\ w.seen = AllStarts
              /\ w.plan = Plan(Asked(id, op)) /\ Hand(w)
<1> DEFINE w == [NoRead EXCEPT !.op = op, !.step = "save", !.id = id,
                               !.plan = Plan(Asked(id, op)), !.seen = AllStarts]
<1>1. /\ DOMAIN AllStarts = {Root} \cup Occurrences
      /\ AllStarts \in [DOMAIN AllStarts -> Int] /\ DOMAIN AllStarts \in SUBSET Events
      /\ \A i \in DOMAIN AllStarts : Exists(i) /\ AllStarts[i] = ev[i].start
      /\ \A i, j \in DOMAIN AllStarts \ {Root} : AllStarts[i] = AllStarts[j] => i = j
  BY AllThere
<1>2. id \in DOMAIN AllStarts
  BY DEF AllStarts
<1>3. Asked(id, op) \subseteq DOMAIN AllStarts
  BY <1>1, <1>2 DEF Asked
<1>4. Plan(Asked(id, op)) = {[id |-> i, from |-> AllStarts[i], to |-> Reanchored(AllStarts[i])] :
                               i \in Asked(id, op)}
  BY <1>1, <1>3 DEF Plan
<1>5. Plan(Asked(id, op)) \in SUBSET [id : Events, from : Int, to : Int]
  <2>1. \A i \in Asked(id, op) : i \in Events /\ AllStarts[i] \in Int /\ Reanchored(AllStarts[i]) \in Int
    BY <1>1, <1>3, UtcInt
  <2> QED
    BY <1>4, <2>1
<1>6. AllStarts \in UNION {[S -> Int] : S \in SUBSET Events}
  BY <1>1
<1>7. PICK p \in SUBSET [id : Events, from : Int, to : Int] : p = Plan(Asked(id, op))
  BY <1>5
<1>8. PICK s \in UNION {[S -> Int] : S \in SUBSET Events} : s = AllStarts
  BY <1>6
<1> DEFINE v == [NoRead EXCEPT !.op = op, !.step = "save", !.id = id, !.plan = p, !.seen = s]
<1>9. v \in Work /\ v.op = op /\ v.step = "save" /\ v.id = id /\ v.seen = s /\ v.plan = p
  <2>1. NoRead \in Work
    BY Nothing
  <2>2. p \in SUBSET (Minutes \cup [id : Events, from : Int, to : Int])
    OBVIOUS
  <2> QED
    BY <2>1, <2>2 DEF Work
<1>10. v = w
  BY <1>7, <1>8
<1> HIDE DEF v, w
<1>11. Asked(id, op) = Movers(v)
  BY <1>1, <1>8, <1>9, <1>10 DEF Asked, Movers, Repairs
<1>12. v.plan = {Target(v, i) : i \in Movers(v)}
  BY <1>4, <1>7, <1>8, <1>9, <1>11 DEF Target
<1>13. Repairing(v)
  BY <1>1, <1>2, <1>8, <1>9, <1>12 DEF Repairing
<1>14. Hand(v)
  BY <1>9, <1>13 DEF Hand, Edits, Repairs
<1> QED
  BY <1>7, <1>8, <1>9, <1>10, <1>14 DEF w

LEMMA ReanchorKeeps ==
    ASSUME Ground, NEW c \in Slots, NEW id \in Events, NEW op \in Repairs, Reanchor(c, id, op)
    PROVE  Ground'
<1>1. UNCHANGED rows /\ UNCHANGED clock
  BY DEF Reanchor, history, rows
<1>2. Exists(id) /\ (op = "cascade" => id = Root)
  BY DEF Reanchor, Live, Exists
<1>3. CASE UNCHANGED slots
  <2>1. slots' = [slots EXCEPT ![c] = slots[c]]
    BY <1>3 DEF Ground, Shapes
  <2>2. PICK u : u = slots[c]
    OBVIOUS
  <2> QED
    BY <1>1, <2>1, <2>2, InHand, SlotOnly
<1>4. CASE slots' = [slots EXCEPT ![c] =
              [NoRead EXCEPT !.op = op, !.step = "save", !.id = id,
                             !.plan = Plan(Asked(id, op)), !.seen = AllStarts]]
  <2>1. PICK w : w = [NoRead EXCEPT !.op = op, !.step = "save", !.id = id,
                                    !.plan = Plan(Asked(id, op)), !.seen = AllStarts]
    OBVIOUS
  <2>2. w \in Work /\ Hand(w)
    BY <1>2, <2>1, Planned
  <2> QED
    BY <1>1, <1>4, <2>1, <2>2, SlotOnly
<1> QED
  BY <1>3, <1>4 DEF Reanchor, Asked

\* The step of a row in a plan is its own.
LEMMA StepOf ==
    ASSUME NEW w, w.plan = {Target(w, i) : i \in Movers(w)}
    PROVE  /\ \A i \in Movers(w) : Step(w.plan, i) = Target(w, i) /\ Moves(w.plan, i)
           /\ \A i : Moves(w.plan, i) => i \in Movers(w)
<1>1. \A i : Target(w, i).id = i
  BY DEF Target
<1> QED
  BY <1>1 DEF Step, Moves

\* The instants after a repair: none of two rows falls on another.
LEMMA Repaired ==
    ASSUME Ground, NEW w \in Work, Hand(w), w.op \in Repairs,
           ~Trips(w.plan, Step(w.plan, w.id)),
           ev' = [i \in Events |-> IF Moves(w.plan, i) THEN [ev[i] EXCEPT !.start = Step(w.plan, i).to]
                                   ELSE ev[i]]
    PROVE  /\ ev' \in [Events -> Row]
           /\ \A i \in Events : Exists(i)' <=> Exists(i)
           /\ \A i \in Events : IF i \in Movers(w) THEN ev'[i].start = Reanchored(w.seen[i])
                                ELSE ev'[i] = ev[i]
           /\ \A i, j \in Occurrences' : ev'[i].start = ev'[j].start => i = j
<1>1. Repairing(w)
  BY DEF Hand
<1>2. /\ \A i \in Movers(w) : Step(w.plan, i) = Target(w, i) /\ Moves(w.plan, i)
      /\ \A i : Moves(w.plan, i) => i \in Movers(w)
  BY <1>1, StepOf DEF Repairing
<1>3. Movers(w) \subseteq DOMAIN w.seen /\ DOMAIN w.seen \subseteq Events
  BY <1>1 DEF Movers, Repairing
<1>4. \A i \in Movers(w) : /\ Step(w.plan, i).to = Reanchored(w.seen[i])
                           /\ Step(w.plan, i).from = w.seen[i]
                           /\ Step(w.plan, i).id = i
                           /\ w.seen[i] \in Int /\ Reanchored(w.seen[i]) \in Int
  <2> SUFFICES ASSUME NEW i \in Movers(w)
               PROVE  /\ Step(w.plan, i).to = Reanchored(w.seen[i])
                      /\ Step(w.plan, i).from = w.seen[i]
                      /\ Step(w.plan, i).id = i
                      /\ w.seen[i] \in Int /\ Reanchored(w.seen[i]) \in Int
    OBVIOUS
  <2>1. Step(w.plan, i) = Target(w, i)
    BY <1>2
  <2>2. w.seen[i] \in Int
    BY <1>1, <1>3 DEF Repairing
  <2>3. Reanchored(w.seen[i]) \in Int
    BY <2>2, UtcInt
  <2> QED
    BY <2>1, <2>2, <2>3 DEF Target
<1>6. \A i \in Events : IF i \in Movers(w)
                          THEN ev'[i] = [ev[i] EXCEPT !.start = Reanchored(w.seen[i])]
                          ELSE ev'[i] = ev[i]
  BY <1>2, <1>4
<1>7. \A i \in Events : /\ ev'[i] \in Row /\ ev'[i].state = ev[i].state
                        /\ i \in Movers(w) => ev'[i].start = Reanchored(w.seen[i])
  <2>1. \A i \in Events : ev[i] \in Row
    BY DEF Ground, Shapes
  <2> TAKE i \in Events
  <2>2. CASE i \in Movers(w)
    <3>1. PICK t \in Int : t = Reanchored(w.seen[i])
      BY <1>4, <2>2
    <3>2. PICK r \in Row : r = ev[i]
      BY <2>1
    <3>3. ev'[i] = [r EXCEPT !.start = t]
      BY <1>6, <2>2, <3>1, <3>2
    <3>4. ev'[i] \in Row /\ ev'[i].start = t /\ ev'[i].state = r.state
      BY <3>3 DEF Row
    <3> QED
      BY <3>1, <3>2, <3>4
  <2>3. CASE i \notin Movers(w)
    BY <1>6, <2>1, <2>3
  <2> QED
    BY <2>2, <2>3
<1>8. ev' \in [Events -> Row]
  BY <1>7
<1>9. \A i \in Events : Exists(i)' <=> Exists(i)
  BY <1>7 DEF Exists
<1>10. Occurrences' = Occurrences /\ Occurrences \subseteq Events \ {Root}
  BY <1>9, ConstantsAssumption DEF Occurrences, Events, Root
<1>11. ASSUME NEW x \in Movers(w), NEW o \in Occurrences, x \in Occurrences, o # x
       PROVE  ev'[x].start # ev'[o].start
  <2>1. Target(w, x) \in w.plan /\ Target(w, x).id = x /\ x # Root
        /\ Target(w, x).to = Reanchored(w.seen[x]) /\ Target(w, x).from = w.seen[x]
    BY <1>1, <1>10, <1>11 DEF Repairing, Target
  <2>2. Reanchored(w.seen[x]) # IF /\ Moves(w.plan, o)
                                   /\ WrittenBefore(Step(w.plan, w.id), Step(w.plan, o), Target(w, x))
                                THEN Step(w.plan, o).to ELSE ev[o].start
    BY <1>11, <2>1 DEF Trips
  <2>3. CASE o \notin Movers(w)
    <3>1. ~Moves(w.plan, o)
      BY <2>3, <1>2
    <3>2. Reanchored(w.seen[x]) # ev[o].start
      BY <2>2, <3>1
    <3>3. ev'[x].start = Reanchored(w.seen[x]) /\ ev'[o] = ev[o]
      BY <1>6, <1>7, <1>10, <1>11, <2>3
    <3> QED
      BY <3>2, <3>3
  <2>4. CASE o \in Movers(w)
    <3>1. Target(w, o) \in w.plan /\ Target(w, o).id = o /\ o # Root
          /\ Target(w, o).to = Reanchored(w.seen[o]) /\ Target(w, o).from = w.seen[o]
      BY <1>1, <1>10, <2>4 DEF Repairing, Target
    <3>2. Reanchored(w.seen[o]) # IF /\ Moves(w.plan, x)
                                     /\ WrittenBefore(Step(w.plan, w.id), Step(w.plan, x), Target(w, o))
                                  THEN Step(w.plan, x).to ELSE ev[x].start
      BY <1>11, <3>1 DEF Trips
    <3>3. w.seen[x] # w.seen[o] /\ w.seen[x] \in Int /\ w.seen[o] \in Int
      BY <1>1, <1>3, <1>4, <1>11, <2>1, <2>4, <3>1 DEF Repairing
    <3>4. \/ WrittenBefore(Step(w.plan, w.id), Step(w.plan, o), Target(w, x))
          \/ WrittenBefore(Step(w.plan, w.id), Step(w.plan, x), Target(w, o))
      BY <1>2, <2>1, <2>4, <3>1, <3>3 DEF WrittenBefore
    <3>5. Reanchored(w.seen[x]) # Reanchored(w.seen[o])
      BY <1>2, <1>4, <2>2, <2>4, <3>2, <3>4
    <3> QED
      BY <3>5, <1>7, <1>10, <1>11, <2>4
  <2> QED
    BY <2>3, <2>4
<1>12. \A i, j \in Occurrences' : ev'[i].start = ev'[j].start => i = j
  <2> SUFFICES ASSUME NEW i \in Occurrences, NEW j \in Occurrences, ev'[i].start = ev'[j].start, i # j
               PROVE  FALSE
    BY <1>10
  <2>1. i \notin Movers(w) /\ j \notin Movers(w)
    BY <1>11
  <2>2. ev[i].start = ev[j].start
    BY <2>1, <1>6, <1>10
  <2> QED
    BY <2>2 DEF Ground, Shapes
<1> QED
  BY <1>6, <1>7, <1>8, <1>9, <1>12

LEMMA SaveReanchorKeeps == ASSUME Ground, NEW c \in Slots, SaveReanchor(c) PROVE Ground'
<1>1. PICK w : w = slots[c]
  OBVIOUS
<1>2. w \in Work /\ Hand(w) /\ w.op \in Repairs
  BY <1>1, InHand DEF SaveReanchor, In, Repairs
<1>3. UNCHANGED <<clock, offsets, reminds, raced>> /\ Return(c)
  BY DEF SaveReanchor
<1>4. CASE UNCHANGED <<ev, rule, origin, strays>>
  <2>1. UNCHANGED rows /\ UNCHANGED clock
    BY <1>3, <1>4 DEF rows
  <2> QED
    BY <1>3, <2>1, Returning
<1>5. CASE ~Trips(w.plan, Step(w.plan, w.id))
  <2> DEFINE along == IF w.op = "cascade" THEN DOMAIN w.seen ELSE {}
             with == {i \in along : origin[i].rule = rule}
  <2>1. /\ ev' = [i \in Events |-> IF Moves(w.plan, i) THEN [ev[i] EXCEPT !.start = Step(w.plan, i).to]
                                   ELSE ev[i]]
        /\ rule' = IF w.id = Root THEN rule + 1 ELSE rule
        /\ origin' = [i \in Events |-> IF i \in with THEN [origin[i] EXCEPT !.rule = rule + 1]
                                       ELSE origin[i]]
        /\ strays' = strays \cup {i \in Ids : Moves(w.plan, i) /\
             (i \notin with \/ origin[i].cadence = "monthly")}
    BY <1>1, <1>5 DEF SaveReanchor
  <2>2. /\ ev' \in [Events -> Row]
        /\ \A i \in Events : Exists(i)' <=> Exists(i)
        /\ \A i, j \in Occurrences' : ev'[i].start = ev'[j].start => i = j
    BY <1>2, <1>5, <2>1, Repaired
  <2>3. with # {} => w.id = Root
    BY <1>2 DEF Hand, Repairing
  <2> HIDE DEF with
  <2>4. /\ origin' \in [Events -> Origin] /\ rule' \in Nat /\ rule <= rule'
        /\ \A i \in Events : origin'[i].rule <= rule'
    <3>1. \A o \in Origin : /\ [o EXCEPT !.rule = rule + 1] \in Origin
                            /\ [o EXCEPT !.rule = rule + 1].rule = rule + 1
      <4>1. rule + 1 \in Nat
        BY DEF Ground, Shapes
      <4> QED
        BY <4>1 DEF Origin
    <3>2. rule' \in Nat /\ rule <= rule' /\ (with # {} => rule' = rule + 1)
      BY <2>1, <2>3 DEF Ground, Shapes
    <3>3. \A i \in Events : /\ origin[i] \in Origin /\ origin[i].rule <= rule
                            /\ origin'[i] = IF i \in with THEN [origin[i] EXCEPT !.rule = rule + 1]
                                            ELSE origin[i]
      BY <2>1 DEF Ground, Shapes
    <3>4. \A i \in Events : origin'[i] \in Origin
      BY <3>1, <3>3
    <3>5. \A i \in Events : origin'[i].rule <= rule'
      <4> TAKE i \in Events
      <4>1. CASE i \in with
        <5>1. origin'[i] = [origin[i] EXCEPT !.rule = rule + 1] /\ origin[i] \in Origin
          BY <3>3, <4>1
        <5>2. origin'[i].rule = rule + 1
          BY <3>1, <5>1
        <5> QED
          BY <3>2, <4>1, <5>2
      <4>2. CASE i \notin with
        <5>1. origin'[i] = origin[i] /\ origin[i].rule <= rule /\ origin[i].rule \in Nat
          BY <3>3, <4>2 DEF Origin
        <5>2. rule \in Nat
          BY DEF Ground, Shapes
        <5> QED
          BY <3>2, <5>1, <5>2
      <4> QED
        BY <4>1, <4>2
    <3> QED
      BY <2>1, <3>2, <3>4, <3>5
  <2>5. strays' \subseteq Ids
    BY <2>1 DEF Ground, Shapes
  <2>6. Tables'
    BY <1>3, <2>2, <2>4, <2>5 DEF Tables, Blank, Ground, Shapes
  <2>7. Growing /\ clock' \in 0 .. MaxTime
    BY <1>3, <2>2, <2>4 DEF Growing, Ground, Shapes
  <2> QED
    BY <1>3, <2>6, <2>7, OneSlot, Nothing, NothingInHand DEF Return
<1> QED
  BY <1>1, <1>4, <1>5 DEF SaveReanchor

LEMMA GroundKept == Ground /\ [Next]_vars => Ground'
<1> SUFFICES ASSUME Ground, [Next]_vars PROVE Ground'
  OBVIOUS
<1>1. ASSUME NEW c \in Slots, Generate(c) \/ Sweep(c) \/ Progress(c) PROVE Ground'
  <2>1. CASE \E d \in InBatch(c) : Claim(c, d) \/ EnqueueReminder(c, d)
    BY <2>1, ClaimKeeps, EnqueueKeeps
  <2>2. CASE Commit(c)
    BY <2>2, EditKeeps, ReadOffsetsKeeps, SaveOffsetsKeeps, SaveReanchorKeeps DEF Commit
  <2> QED
    BY <1>1, <2>1, <2>2, GenerateKeeps, SweepKeeps, ExistingKeeps, CreateKeeps DEF Progress
<1>2. ASSUME NEW c \in Slots, NEW id \in Events, NEW op \in Edits, LoadEvent(c, id, op) PROVE Ground'
  BY <1>2, LoadKeeps
<1>3. ASSUME NEW c \in Slots, NEW id \in Events, NEW op \in Repairs, Reanchor(c, id, op) PROVE Ground'
  BY <1>3, ReanchorKeeps
<1>4. ASSUME NEW id \in Events, Remove(id) \/ RemoveSeries(id) PROVE Ground'
  BY <1>4, RemovalsKeep
<1>5. CASE UNCHANGED vars
  <2>1. UNCHANGED rows /\ UNCHANGED slots /\ UNCHANGED clock
    BY <1>5 DEF vars, rows
  <2> QED
    BY <2>1 DEF Ground, Shapes, Hand, Repairing, Target, Movers, rows, Occurrences, Exists, Blank
<1> QED
  BY <1>1, <1>2, <1>3, <1>4, <1>5, TickKeeps, CrashKeeps DEF Next, Edits, Repairs

\* Types, and no two occurrences at one instant: what the index UQ_event_occurrence
\* guarantees is kept by the pre-flight and the order of the writes (events.service.ts).
THEOREM TypeCorrect == Spec => []TypeOK
<1> QED
  BY Initially, GroundKept, Typed, PTL DEF Spec

(***************************************************************************)
(* Reminders.                                                              *)
(***************************************************************************)
\* A slot that has claimed this reminder and is about to queue it.
Sends(w, id, m) ==
    /\ w.op = "sweep" /\ w.step = "send"
    /\ \E d \in w.todo : d.id = id /\ d.m = m /\ Turn(w.todo, d)

\* An edit that has read the offset as one it will write unsent.
Renews(w, id, m) ==
    w.op = "offsets" /\ w.step = "save" /\ w.id = id /\ w.seen[m] # "sent"
Unasked(id, m) == reminds[id][m] = 0 /\ \A s \in Slots : ~Sends(slots[s], id, m)

\* Where one offset stands: unsent, nothing has been queued and nobody is about to;
\* one slot at most is about to, and only if nothing has been; and an edit that
\* will make it unsent finds it as it read it, or gone.
Told(id, m) ==
    /\ offsets[id][m] = "unsent" => Unasked(id, m)
    /\ reminds[id][m] <= 1
    /\ \A s, t \in Slots : Sends(slots[s], id, m) =>
                             /\ reminds[id][m] = 0
                             /\ Sends(slots[t], id, m) => s = t
    /\ \A c \in Slots : Renews(slots[c], id, m) => offsets[id][m] = "absent" \/ Unasked(id, m)
RemindersInv == \A id \in Events, m \in Minutes : <<id, m>> \notin raced => Told(id, m)

\* The turn of a batch is one row's.
LEMMA OneTurn ==
    ASSUME NEW batch \in SUBSET Read, \A x, y \in batch : x.id = y.id => x.start = y.start,
           NEW d \in batch, NEW e \in batch, Turn(batch, d), Turn(batch, e)
    PROVE  d = e
<1>1. d \in Read /\ e \in Read /\ d.start \in Int /\ e.start \in Int /\ d.m \in Int /\ e.m \in Int
      /\ d.id \in Int /\ e.id \in Int
  <2>1. Minutes \subseteq Int /\ Events \subseteq Int
    BY ConstantsAssumption DEF Events, Root
  <2>2. d \in Read /\ e \in Read
    OBVIOUS
  <2> QED
    BY <2>1, <2>2 DEF Read
<1>2. d.id = e.id
  BY <1>1 DEF Turn
<1>3. d.start = e.start
  BY <1>2
<1>4. CASE Superseded(batch, d) /\ Superseded(batch, e)
  <2>1. d.m <= e.m /\ e.m <= d.m
    BY <1>1, <1>2, <1>3, <1>4 DEF Turn
  <2> QED
    BY <2>1, <1>1, <1>2, <1>3 DEF Read
<1>5. CASE ~(Superseded(batch, d) /\ Superseded(batch, e))
  BY <1>1, <1>2, <1>3, <1>5 DEF Turn
<1> QED
  BY <1>4, <1>5

LEMMA OnItsWayIs ==
    ASSUME NEW id, NEW m
    PROVE  OnItsWay(id, m) <=> \E s \in Slots : Sends(slots[s], id, m)
  BY DEF OnItsWay, Sends, In

\* A step that leaves what is queued and claimed alone.
LEMMA Silent ==
    ASSUME RemindersInv, UNCHANGED <<offsets, reminds>>, raced \subseteq raced',
           \A s \in Slots : \/ slots'[s] = slots[s]
                            \/ slots'[s].step \notin {"send", "save"}
                            \/ slots'[s].step = "save" /\ slots'[s].op # "offsets"
    PROVE  RemindersInv'
<1> SUFFICES ASSUME NEW id \in Events, NEW m \in Minutes, <<id, m>> \notin raced' PROVE Told(id, m)'
  BY DEF RemindersInv
<1>1. Told(id, m)
  BY DEF RemindersInv
<1>2. \A s \in Slots : /\ Sends(slots'[s], id, m) => Sends(slots[s], id, m)
                       /\ Renews(slots'[s], id, m) => Renews(slots[s], id, m)
  BY DEF Sends, Renews
<1> QED
  BY <1>1, <1>2 DEF Told, Unasked, Sends, Renews

LEMMA SilentSlot ==
    ASSUME Ground, RemindersInv, UNCHANGED <<offsets, reminds>>, raced \subseteq raced',
           NEW c \in Slots, NEW w, slots' = [slots EXCEPT ![c] = w],
           w.step \notin {"send", "save"} \/ (w.step = "save" /\ w.op # "offsets")
    PROVE  RemindersInv'
<1>1. \A s \in Slots : slots'[s] = IF s = c THEN w ELSE slots[s]
  BY DEF Ground, Shapes
<1> QED
  BY <1>1, Silent

LEMMA SilentReturn ==
    ASSUME Ground, RemindersInv, UNCHANGED <<offsets, reminds>>, raced \subseteq raced',
           NEW c \in Slots, Return(c)
    PROVE  RemindersInv'
  BY SilentSlot, Nothing DEF Return

LEMMA ClaimTold ==
    ASSUME Ground, RemindersInv, NEW c \in Slots, NEW d \in InBatch(c), Claim(c, d)
    PROVE  RemindersInv'
<1>1. PICK u : u = slots[c]
  OBVIOUS
<1>2. u \in Work /\ Hand(u) /\ u.op = "sweep" /\ u.step = "claim" /\ d \in u.todo /\ Turn(u.todo, d)
  BY <1>1, InHand DEF Claim, In
<1>3. u.todo \in SUBSET Read /\ d.id \in Events /\ d.m \in Minutes
      /\ \A x, y \in u.todo : x.id = y.id => x.start = y.start
  BY <1>2 DEF Hand, Read
<1> SUFFICES ASSUME NEW id \in Events, NEW m \in Minutes, <<id, m>> \notin raced' PROVE Told(id, m)'
  BY DEF RemindersInv
<1>4. <<id, m>> \notin raced /\ Told(id, m) /\ UNCHANGED reminds
  BY DEF RemindersInv, Claim
<1>5. \A s \in Slots : s # c => slots'[s] = slots[s]
  BY DEF Claim, Return, Ground, Shapes
<1>6. ~Sends(u, id, m) /\ ~Renews(u, id, m)
  BY <1>2 DEF Sends, Renews
<1>7. offsets'[id][m] = IF id = d.id /\ m = d.m /\ Claimed(d) THEN "sent" ELSE offsets[id][m]
  BY <1>3 DEF Claim, Ground, Shapes, Marks
<1>8. ~Renews(slots'[c], id, m)
  <2>1. slots'[c] = NoRead \/ slots'[c] = [u EXCEPT !.todo = @ \ {d}] \/ slots'[c] = [u EXCEPT !.step = "send"]
    BY <1>1 DEF Claim, Return, Ground, Shapes
  <2>2. slots'[c].op \in {"none", "sweep"}
    BY <1>2, <2>1, Nothing DEF Work
  <2> QED
    BY <2>2 DEF Renews
<1>9. Sends(slots'[c], id, m) => Claimed(d) /\ id = d.id /\ m = d.m
  <2>1. CASE Return(c)
    BY <2>1, Nothing DEF Return, Sends, Ground, Shapes
  <2>2. CASE slots' = [slots EXCEPT ![c].todo = @ \ {d}]
    <3>1. slots'[c] = [u EXCEPT !.todo = @ \ {d}]
      BY <1>1, <2>2 DEF Ground, Shapes
    <3>2. slots'[c].step = "claim"
      BY <1>2, <3>1 DEF Work
    <3> QED
      BY <3>2 DEF Sends
  <2>3. CASE Claimed(d) /\ slots' = [slots EXCEPT ![c].step = "send"]
    <3>1. slots'[c] = [u EXCEPT !.step = "send"]
      BY <1>1, <2>3 DEF Ground, Shapes
    <3>2. slots'[c].todo = u.todo
      BY <1>2, <3>1 DEF Work
    <3>3. \A e \in u.todo : Turn(u.todo, e) => e = d
      BY <1>2, <1>3, OneTurn
    <3> QED
      BY <2>3, <3>2, <3>3 DEF Sends
  <2> QED
    BY <2>1, <2>2, <2>3 DEF Claim
<1>10. CASE ~(id = d.id /\ m = d.m /\ Claimed(d))
  <2>1. offsets'[id][m] = offsets[id][m] /\ ~Sends(slots'[c], id, m)
    BY <1>7, <1>9, <1>10
  <2>2. \A s \in Slots : /\ Sends(slots'[s], id, m) => Sends(slots[s], id, m)
                         /\ Renews(slots'[s], id, m) => Renews(slots[s], id, m)
    BY <1>5, <1>8, <2>1
  <2> QED
    BY <1>4, <2>1, <2>2 DEF Told, Unasked, Sends, Renews
<1>11. CASE id = d.id /\ m = d.m /\ Claimed(d)
  <2>1. Unasked(id, m) /\ offsets'[id][m] = "sent"
    BY <1>4, <1>7, <1>11 DEF Claimed, Told
  <2>2. \A s \in Slots : ~Renews(slots[s], id, m)
    BY <1>11 DEF Claim, Renews, In
  <2>3. \A s \in Slots : /\ Sends(slots'[s], id, m) => s = c
                         /\ ~Renews(slots'[s], id, m)
    BY <1>5, <1>8, <2>1, <2>2 DEF Unasked
  <2>4. reminds'[id][m] = 0
    BY <1>4, <2>1 DEF Unasked
  <2> QED
    BY <2>1, <2>3, <2>4 DEF Told, Unasked, Sends, Renews
<1> QED
  BY <1>10, <1>11

LEMMA EnqueueTold ==
    ASSUME Ground, RemindersInv, NEW c \in Slots, NEW d \in InBatch(c), EnqueueReminder(c, d)
    PROVE  RemindersInv'
<1>1. PICK u : u = slots[c]
  OBVIOUS
<1>2. u \in Work /\ Hand(u) /\ u.op = "sweep" /\ u.step = "send" /\ d \in u.todo /\ Turn(u.todo, d)
  BY <1>1, InHand DEF EnqueueReminder, In
<1>3. u.todo \in SUBSET Read /\ d.id \in Events /\ d.m \in Minutes
      /\ \A x, y \in u.todo : x.id = y.id => x.start = y.start
  BY <1>2 DEF Hand, Read
<1> SUFFICES ASSUME NEW id \in Events, NEW m \in Minutes, <<id, m>> \notin raced' PROVE Told(id, m)'
  BY DEF RemindersInv
<1>4. <<id, m>> \notin raced /\ Told(id, m) /\ UNCHANGED offsets
  BY DEF RemindersInv, EnqueueReminder
<1>5. \A s \in Slots : s # c => slots'[s] = slots[s]
  BY DEF EnqueueReminder, Return, Ground, Shapes
<1>6. ~Sends(slots'[c], id, m) /\ ~Renews(slots'[c], id, m)
  <2>1. CASE Return(c)
    BY <2>1, Nothing DEF Return, Sends, Renews, Ground, Shapes
  <2>2. CASE slots' = [slots EXCEPT ![c].step = "claim", ![c].todo = @ \ {d}]
    <3>1. slots'[c] = [u EXCEPT !.step = "claim", !.todo = @ \ {d}]
      BY <1>1, <2>2 DEF Ground, Shapes
    <3>2. slots'[c].step = "claim"
      BY <1>2, <3>1 DEF Work
    <3> QED
      BY <3>2 DEF Sends, Renews
  <2> QED
    BY <2>1, <2>2 DEF EnqueueReminder
<1>7. reminds'[id][m] = IF id = d.id /\ m = d.m THEN reminds[id][m] + 1 ELSE reminds[id][m]
  BY <1>3 DEF EnqueueReminder, Ground, Shapes
<1>8. reminds[id][m] \in Nat
  BY DEF Ground, Shapes
<1>9. \A s \in Slots : /\ Sends(slots'[s], id, m) => s # c /\ Sends(slots[s], id, m)
                       /\ Renews(slots'[s], id, m) => Renews(slots[s], id, m)
  BY <1>5, <1>6
<1>10. CASE ~(id = d.id /\ m = d.m)
  <2>1. reminds'[id][m] = reminds[id][m]
    BY <1>7, <1>10
  <2> QED
    BY <1>4, <1>9, <2>1 DEF Told, Unasked, Sends, Renews
<1>11. CASE id = d.id /\ m = d.m
  <2>1. Sends(slots[c], id, m)
    BY <1>1, <1>2, <1>11 DEF Sends
  <2>2. reminds[id][m] = 0 /\ \A s \in Slots : Sends(slots[s], id, m) => s = c
    BY <1>4, <2>1 DEF Told
  <2>3. reminds'[id][m] = 1 /\ \A s \in Slots : ~Sends(slots'[s], id, m)
    BY <1>7, <1>9, <1>11, <2>2
  <2>4. offsets[id][m] # "unsent" /\ \A s \in Slots : Renews(slots[s], id, m) => offsets[id][m] = "absent"
    BY <1>4, <2>1 DEF Told, Unasked
  <2> QED
    BY <1>4, <1>9, <2>3, <2>4 DEF Told, Unasked, Sends, Renews
<1> QED
  BY <1>10, <1>11

LEMMA ReadTold == ASSUME Ground, RemindersInv, NEW c \in Slots, ReadOffsets(c) PROVE RemindersInv'
<1>1. PICK u : u = slots[c]
  OBVIOUS
<1>2. u \in Work /\ u.op = "offsets" /\ u.step = "children" /\ u.id \in Events
  BY <1>1, InHand DEF ReadOffsets, In, Work
<1>3. /\ slots'[c] = [u EXCEPT !.step = "save", !.seen = offsets[u.id]]
      /\ \A s \in Slots : s # c => slots'[s] = slots[s]
  BY <1>1 DEF ReadOffsets, Ground, Shapes
<1>4. slots'[c].op = "offsets" /\ slots'[c].id = u.id /\ slots'[c].seen = offsets[u.id]
  BY <1>2, <1>3 DEF Work
<1> SUFFICES ASSUME NEW id \in Events, NEW m \in Minutes, <<id, m>> \notin raced' PROVE Told(id, m)'
  BY DEF RemindersInv
<1>5. Told(id, m) /\ UNCHANGED <<offsets, reminds>>
  BY DEF RemindersInv, ReadOffsets, history
<1>6. Renews(slots'[c], id, m) => offsets[id][m] \in {"absent", "unsent"}
  BY <1>4 DEF Renews, Ground, Shapes, Marks
<1>7. \A s \in Slots : /\ Sends(slots'[s], id, m) => Sends(slots[s], id, m)
                       /\ Renews(slots'[s], id, m) => s = c \/ Renews(slots[s], id, m)
  BY <1>3, <1>4 DEF Sends
<1> QED
  BY <1>5, <1>6, <1>7 DEF Told, Unasked, Sends, Renews

LEMMA SaveTold == ASSUME Ground, RemindersInv, NEW c \in Slots, SaveOffsets(c) PROVE RemindersInv'
<1>1. PICK u : u = slots[c]
  OBVIOUS
<1>2. u \in Work /\ Hand(u) /\ u.op = "offsets" /\ u.step = "save" /\ u.seen \in Marks /\ u.id \in Events
  BY <1>1, InHand DEF SaveOffsets, In, Hand, Work
<1>3. Return(c) /\ raced \subseteq raced'
  BY DEF SaveOffsets
<1>4. CASE ~Fits(u.id, u.copy)
  <2>1. UNCHANGED <<offsets, reminds>>
    BY <1>1, <1>4 DEF SaveOffsets
  <2> QED
    BY <1>3, <2>1, SilentReturn
<1>5. CASE Fits(u.id, u.copy)
  <2>1. PICK minutes \in SUBSET Minutes :
          /\ offsets' = [offsets EXCEPT ![u.id] = Carried(u.seen, minutes)]
          /\ reminds' = [reminds EXCEPT ![u.id] = [m \in Minutes |->
               IF offsets[u.id][m] = "absent" THEN 0 ELSE @[m]]]
    BY <1>1, <1>5 DEF SaveOffsets
  <2> SUFFICES ASSUME NEW id \in Events, NEW m \in Minutes, <<id, m>> \notin raced' PROVE Told(id, m)'
    BY DEF RemindersInv
  <2>2. Told(id, m)
    BY <1>3 DEF RemindersInv
  <2>3. \A s \in Slots : slots'[s] = IF s = c THEN NoRead ELSE slots[s]
    BY <1>3 DEF Return, Ground, Shapes
  <2>4. \A s \in Slots : /\ Sends(slots'[s], id, m) => Sends(slots[s], id, m)
                         /\ Renews(slots'[s], id, m) => Renews(slots[s], id, m)
    BY <2>3, Nothing DEF Sends, Renews
  <2>5. CASE id # u.id
    <3>1. offsets'[id][m] = offsets[id][m] /\ reminds'[id][m] = reminds[id][m]
      BY <2>1, <2>5 DEF Ground, Shapes
    <3> QED
      BY <2>2, <2>4, <3>1 DEF Told, Unasked, Sends, Renews
  <2>6. CASE id = u.id
    <3>1. /\ offsets'[id][m] = IF m \notin minutes THEN "absent"
                               ELSE IF u.seen[m] = "absent" THEN "unsent" ELSE u.seen[m]
          /\ reminds'[id][m] = IF offsets[id][m] = "absent" THEN 0 ELSE reminds[id][m]
      BY <2>1, <2>6 DEF Carried, Ground, Shapes
    <3>2. offsets[id][m] = "absent" => \A s \in Slots : ~Sends(slots[s], id, m)
      <4>1. offsets[id][m] = "absent" /\ OnItsWay(id, m) => <<id, m>> \in raced'
        BY <1>1, <2>6 DEF SaveOffsets
      <4> QED
        BY <4>1, OnItsWayIs
    <3>3. reminds[id][m] \in Nat
      BY DEF Ground, Shapes
    <3>4. offsets[id][m] = "absent" => Unasked(id, m)'
      BY <2>4, <3>1, <3>2 DEF Unasked, Sends
    <3>5. (\E s \in Slots : Renews(slots[s], id, m)) => Unasked(id, m)'
      <4>1. SUFFICES ASSUME offsets[id][m] # "absent", Unasked(id, m) PROVE Unasked(id, m)'
        BY <2>2, <3>4 DEF Told
      <4> QED
        BY <4>1, <2>4, <3>1 DEF Unasked, Sends
    <3>6. offsets'[id][m] = "unsent" => Renews(slots[c], id, m)
      BY <1>1, <1>2, <2>6, <3>1 DEF Renews
    <3>7. reminds'[id][m] <= reminds[id][m] /\ reminds'[id][m] \in Nat
      BY <3>1, <3>3
    <3> QED
      BY <2>2, <2>4, <3>3, <3>5, <3>6, <3>7 DEF Told, Sends, Renews
  <2> QED
    BY <2>5, <2>6
<1> QED
  BY <1>4, <1>5

LEMMA CreateTold == ASSUME Ground, RemindersInv, NEW c \in Slots, CreateOccurrence(c) PROVE RemindersInv'
<1>1. PICK u : u = slots[c]
  OBVIOUS
<1>2. u \in Work /\ Hand(u) /\ u.op = "generate" /\ u.step = "create"
  BY <1>1, InHand DEF CreateOccurrence, In
<1>3. \A s \in Slots : \/ slots'[s] = slots[s]
                       \/ slots'[s].step \notin {"send", "save"}
  <2>1. \A s \in Slots : s # c => slots'[s] = slots[s]
    BY DEF CreateOccurrence, Return, Ground, Shapes
  <2>2. CASE Return(c)
    BY <2>1, <2>2, Nothing DEF Return, Ground, Shapes
  <2>3. CASE slots' = [slots EXCEPT ![c].todo = @ \ {Min(slots[c].todo)}]
    <3>1. slots'[c] = [u EXCEPT !.todo = @ \ {Min(slots[c].todo)}]
      BY <1>1, <2>3 DEF Ground, Shapes
    <3>2. slots'[c].step = "create"
      BY <1>2, <3>1 DEF Work
    <3> QED
      BY <2>1, <3>2
  <2> QED
    BY <2>2, <2>3 DEF CreateOccurrence
<1>4. UNCHANGED <<reminds, raced>>
  BY DEF CreateOccurrence
<1>5. CASE UNCHANGED offsets
  BY <1>3, <1>4, <1>5, Silent
<1>6. CASE ~UNCHANGED offsets
  <2>1. FreeIds # {} /\ offsets' = [offsets EXCEPT ![Min(FreeIds)] = Unsent(slots[c].plan)]
    BY <1>6 DEF CreateOccurrence
  <2>2. PICK new \in Ids : new = Min(FreeIds) /\ ~Exists(new)
    BY <2>1, FreeId
  <2> SUFFICES ASSUME NEW id \in Events, NEW m \in Minutes, <<id, m>> \notin raced' PROVE Told(id, m)'
    BY DEF RemindersInv
  <2>3. Told(id, m) /\ reminds'[id][m] = reminds[id][m]
    BY <1>4 DEF RemindersInv
  <2>4. \A s \in Slots : /\ Sends(slots'[s], id, m) => Sends(slots[s], id, m)
                         /\ Renews(slots'[s], id, m) => Renews(slots[s], id, m)
    BY <1>3 DEF Sends, Renews
  <2>5. CASE id # new
    <3>1. offsets'[id][m] = offsets[id][m]
      BY <2>1, <2>2, <2>5 DEF Ground, Shapes
    <3> QED
      BY <2>3, <2>4, <3>1 DEF Told, Unasked, Sends, Renews
  <2>6. CASE id = new
    <3>1. reminds[id][m] = 0
      BY <2>2, <2>6 DEF Ground, Blank
    <3>2. \A s \in Slots : ~Sends(slots[s], id, m)
      <4> SUFFICES ASSUME NEW s \in Slots, Sends(slots[s], id, m) PROVE FALSE
        OBVIOUS
      <4>1. Exists(id)
        BY InHand DEF Sends, Hand
      <4> QED
        BY <4>1, <2>2, <2>6
    <3> QED
      BY <2>3, <2>4, <3>1, <3>2 DEF Told, Unasked, Sends, Renews
  <2> QED
    BY <2>5, <2>6
<1> QED
  BY <1>5, <1>6

LEMMA RemindersKept == Ground /\ RemindersInv /\ [Next]_vars => RemindersInv'
<1> SUFFICES ASSUME Ground, RemindersInv, [Next]_vars PROVE RemindersInv'
  OBVIOUS
<1>1. ASSUME NEW c \in Slots, Generate(c) PROVE RemindersInv'
  <2> DEFINE w == [NoRead EXCEPT !.op = "generate", !.step = "existing", !.at = clock,
                                 !.copy = ev[Root], !.rule = rule]
  <2>1. PICK v : v = w
    OBVIOUS
  <2>2. v.step = "existing"
    BY <2>1 DEF NoRead
  <2>3. slots' = [slots EXCEPT ![c] = v] /\ UNCHANGED <<offsets, reminds, raced>>
    BY <1>1, <2>1 DEF Generate, history
  <2> QED
    BY <2>2, <2>3, SilentSlot
<1>2. ASSUME NEW c \in Slots, ReadExisting(c) PROVE RemindersInv'
  <2>1. UNCHANGED <<offsets, reminds, raced>>
    BY <1>2 DEF ReadExisting, history
  <2>2. CASE Return(c)
    BY <2>1, <2>2, SilentReturn
  <2>3. CASE ~Return(c)
    <3>1. PICK v : slots' = [slots EXCEPT ![c] = v] /\ v.step = "create"
      <4> DEFINE w == [slots[c] EXCEPT !.step = "create",
                         !.todo = Missing(slots[c].copy.start, slots[c].copy.cadence, slots[c].at, Held),
                         !.plan = {m \in Minutes : offsets[Root][m] # "absent"}]
      <4>1. slots' = [slots EXCEPT ![c] = w]
        BY <1>2, <2>3 DEF ReadExisting, Ground, Shapes
      <4>2. w.step = "create"
        BY InHand DEF Work
      <4> QED
        BY <4>1, <4>2
    <3> QED
      BY <2>1, <3>1, SilentSlot
  <2> QED
    BY <2>2, <2>3
<1>3. ASSUME NEW c \in Slots, Sweep(c) PROVE RemindersInv'
  <2>1. UNCHANGED <<offsets, reminds, raced>>
    BY <1>3 DEF Sweep, history
  <2>2. CASE UNCHANGED slots
    BY <2>1, <2>2, Silent
  <2>3. CASE ~UNCHANGED slots
    <3>1. PICK v : slots' = [slots EXCEPT ![c] = v] /\ v.step = "claim"
      <4> DEFINE w == [NoRead EXCEPT !.op = "sweep", !.step = "claim", !.at = clock,
                 !.todo = {[id |-> d[1], m |-> d[2], start |-> ev[d[1]].start] :
                             d \in FirstBatch}]
      <4>1. slots' = [slots EXCEPT ![c] = w]
        BY <1>3, <2>3 DEF Sweep
      <4>2. w.step = "claim"
        BY DEF NoRead
      <4> QED
        BY <4>1, <4>2
    <3> QED
      BY <2>1, <3>1, SilentSlot
  <2> QED
    BY <2>2, <2>3
<1>4. ASSUME NEW c \in Slots, NEW d \in InBatch(c), Claim(c, d) \/ EnqueueReminder(c, d)
      PROVE  RemindersInv'
  BY <1>4, ClaimTold, EnqueueTold
<1>5. ASSUME NEW c \in Slots, SaveArchived(c) \/ SaveTime(c) \/ SaveCadence(c) \/ SaveReanchor(c)
      PROVE  RemindersInv'
  <2>1. UNCHANGED <<offsets, reminds, raced>> /\ Return(c)
    BY <1>5 DEF SaveArchived, SaveTime, SaveCadence, SaveReanchor
  <2> QED
    BY <2>1, SilentReturn
<1>6. ASSUME NEW c \in Slots, NEW id \in Events, NEW op \in Edits, LoadEvent(c, id, op)
      PROVE  RemindersInv'
  <2>1. PICK v : /\ slots' = [slots EXCEPT ![c] = v] /\ v.op = op
                 /\ v.step = IF op = "offsets" THEN "children" ELSE "save"
    <3> DEFINE w == [NoRead EXCEPT !.op = op, !.id = id, !.copy = ev[id],
                       !.step = IF op = "offsets" THEN "children" ELSE "save"]
    <3>1. slots' = [slots EXCEPT ![c] = w]
      BY <1>6 DEF LoadEvent
    <3>2. w.op = op /\ w.step = IF op = "offsets" THEN "children" ELSE "save"
      BY DEF NoRead
    <3> QED
      BY <3>1, <3>2
  <2>2. UNCHANGED <<offsets, reminds, raced>>
    BY <1>6 DEF LoadEvent, history
  <2> QED
    BY <2>1, <2>2, SilentSlot
<1>7. ASSUME NEW c \in Slots, NEW id \in Events, NEW op \in Repairs, Reanchor(c, id, op)
      PROVE  RemindersInv'
  <2>1. UNCHANGED <<offsets, reminds, raced>>
    BY <1>7 DEF Reanchor, history
  <2>2. CASE UNCHANGED slots
    BY <2>1, <2>2, Silent
  <2>3. CASE ~UNCHANGED slots
    <3>1. PICK v : slots' = [slots EXCEPT ![c] = v] /\ v.step = "save" /\ v.op = op
      <4> DEFINE w == [NoRead EXCEPT !.op = op, !.step = "save", !.id = id,
                             !.plan = Plan(Asked(id, op)), !.seen = AllStarts]
      <4>1. slots' = [slots EXCEPT ![c] = w]
        BY <1>7, <2>3 DEF Reanchor, Asked
      <4>2. w.step = "save" /\ w.op = op
        BY DEF NoRead
      <4> QED
        BY <4>1, <4>2
    <3>2. v.op # "offsets"
      BY <3>1 DEF Repairs
    <3> QED
      BY <2>1, <3>1, <3>2, SilentSlot
  <2> QED
    BY <2>2, <2>3
<1>8. ASSUME NEW id \in Events, Remove(id) \/ RemoveSeries(id) PROVE RemindersInv'
  BY <1>8, Silent DEF Remove, RemoveSeries, history
<1>9. CASE Tick \/ UNCHANGED vars
  BY <1>9, Silent DEF Tick, vars, history
<1>10. CASE Crash
  BY <1>10, Silent, Nothing DEF Crash, history
<1> QED
  BY <1>1, <1>2, <1>3, <1>4, <1>5, <1>6, <1>7, <1>8, <1>9, <1>10, CreateTold, ReadTold, SaveTold
  DEF Next, Progress, Commit, Edits, Repairs

\* A reminder is queued once at most (event-reminder.scheduler.ts claims the row before
\* it queues), over overlapping sweeps, crashes and edits of the offsets.
THEOREM RemindersOnce == Spec => []RemindedOnce
<1>1. Init => RemindersInv
  <2> SUFFICES ASSUME Init, NEW id \in Events, NEW m \in Minutes PROVE Told(id, m)
    BY DEF RemindersInv
  <2>1. reminds[id][m] = 0 /\ \A s \in Slots : slots[s] = NoRead
    BY DEF Init
  <2> QED
    BY <2>1, Nothing DEF Told, Unasked, Sends, Renews
<1>2. Ground /\ RemindersInv => RemindedOnce
  BY DEF Ground, Shapes, RemindersInv, Told, RemindedOnce
<1> QED
  BY <1>1, <1>2, Initially, GroundKept, RemindersKept, PTL DEF Spec

(***************************************************************************)
(* The series.                                                             *)
(***************************************************************************)
\* What a step does to a slot, as far as the series is concerned: a sweep over the
\* template begins with the template and goes on with what it read, and a repair
\* carries its plan from beginning to end.
Begins(w) == w.op = "generate" /\ w.copy = ev[Root] /\ w.rule = rule
GoesOn(w, x) == w.op = "generate" /\ x.op = "generate" /\ x.copy = w.copy /\ x.rule = w.rule
Plans(w) ==
    \E id \in Events, op \in Repairs :
      /\ Exists(id) /\ op \in Authors /\ (op = "cascade" => id = Root)
      /\ w.op = op /\ w.id = id /\ w.plan = Plan(Asked(id, op)) /\ w.seen = AllStarts
      /\ ~Collides(Plan(Asked(id, op)))
Course(w, x) ==
    \/ x = w \/ x.op \notin {"generate"} \cup Repairs
    \/ Begins(x) \/ GoesOn(w, x) \/ Plans(x)
Courses == \A s \in Slots : Course(slots[s], slots'[s])

LEMMA OneCourse ==
    ASSUME Ground, NEW c \in Slots, NEW w, slots' = [slots EXCEPT ![c] = w], Course(slots[c], w)
    PROVE  Courses
<1>1. \A s \in Slots : slots'[s] = IF s = c THEN w ELSE slots[s]
  BY DEF Ground, Shapes
<1> QED
  BY <1>1 DEF Courses, Course

LEMMA ReturnCourse == ASSUME Ground, NEW c \in Slots, Return(c) PROVE Courses
  BY OneCourse, Nothing DEF Return, Course, Repairs

LEMMA SameCourse == ASSUME UNCHANGED slots PROVE Courses
  BY DEF Courses, Course

LEMMA SlotCourses == ASSUME Ground, [Next]_vars PROVE Courses
<1>1. ASSUME NEW c \in Slots, Generate(c) PROVE Courses
  <2> DEFINE w == [NoRead EXCEPT !.op = "generate", !.step = "existing", !.at = clock,
                                 !.copy = ev[Root], !.rule = rule]
  <2>1. w.op = "generate" /\ w.copy = ev[Root] /\ w.rule = rule
    BY DEF NoRead
  <2>2. slots' = [slots EXCEPT ![c] = w]
    BY <1>1 DEF Generate
  <2> HIDE DEF w
  <2>3. Course(slots[c], w)
    BY <2>1 DEF Course, Begins
  <2> QED
    BY <2>2, <2>3, OneCourse
<1>2. ASSUME NEW c \in Slots, NEW w, slots' = [slots EXCEPT ![c] = w], w.op = slots[c].op,
             w.copy = slots[c].copy, w.rule = slots[c].rule, slots[c].op \notin Repairs
      PROVE  Courses
  BY <1>2, OneCourse DEF Course, GoesOn
<1>3. ASSUME NEW c \in Slots, ReadExisting(c) PROVE Courses
  <2>1. CASE Return(c)
    BY <2>1, ReturnCourse
  <2>2. CASE ~Return(c)
    <3> DEFINE w == [slots[c] EXCEPT !.step = "create",
                         !.todo = Missing(slots[c].copy.start, slots[c].copy.cadence, slots[c].at, Held),
                         !.plan = {m \in Minutes : offsets[Root][m] # "absent"}]
    <3>1. slots' = [slots EXCEPT ![c] = w]
      BY <1>3, <2>2 DEF ReadExisting, Ground, Shapes
    <3>2. w.op = slots[c].op /\ w.copy = slots[c].copy /\ w.rule = slots[c].rule
      BY InHand DEF Work
    <3>3. slots[c].op \notin Repairs
      BY <1>3 DEF ReadExisting, In, Repairs
    <3> QED
      BY <1>2, <3>1, <3>2, <3>3
  <2> QED
    BY <2>1, <2>2
<1>4. ASSUME NEW c \in Slots, CreateOccurrence(c) PROVE Courses
  <2>1. CASE Return(c)
    BY <2>1, ReturnCourse
  <2>2. CASE slots' = [slots EXCEPT ![c].todo = @ \ {Min(slots[c].todo)}]
    <3> DEFINE w == [slots[c] EXCEPT !.todo = @ \ {Min(slots[c].todo)}]
    <3>1. slots' = [slots EXCEPT ![c] = w]
      BY <2>2
    <3>2. w.op = slots[c].op /\ w.copy = slots[c].copy /\ w.rule = slots[c].rule
      BY InHand DEF Work
    <3>3. slots[c].op \notin Repairs
      BY <1>4 DEF CreateOccurrence, In, Repairs
    <3> QED
      BY <1>2, <3>1, <3>2, <3>3
  <2> QED
    BY <1>4, <2>1, <2>2 DEF CreateOccurrence
<1>5. ASSUME NEW c \in Slots, NEW w, slots' = [slots EXCEPT ![c] = w],
             w.op \notin {"generate"} \cup Repairs
      PROVE  Courses
  BY <1>5, OneCourse DEF Course
<1>6. ASSUME NEW c \in Slots, Sweep(c) PROVE Courses
  <2> DEFINE w == [NoRead EXCEPT !.op = "sweep", !.step = "claim", !.at = clock,
                 !.todo = {[id |-> d[1], m |-> d[2], start |-> ev[d[1]].start] :
                             d \in FirstBatch}]
  <2>1. w.op \notin {"generate"} \cup Repairs
    BY DEF NoRead, Repairs
  <2>2. UNCHANGED slots \/ slots' = [slots EXCEPT ![c] = w]
    BY <1>6 DEF Sweep
  <2> QED
    BY <2>1, <2>2, <1>5, SameCourse
<1>7. ASSUME NEW c \in Slots, NEW d \in InBatch(c), Claim(c, d) \/ EnqueueReminder(c, d)
      PROVE  Courses
  <2> DEFINE v == [slots[c] EXCEPT !.step = "send"]
             x == [slots[c] EXCEPT !.todo = @ \ {d}]
             y == [slots[c] EXCEPT !.step = "claim", !.todo = @ \ {d}]
  <2>1. slots[c].op = "sweep" /\ slots[c] \in Work
    BY <1>7, InHand DEF Claim, EnqueueReminder, In
  <2>2. \A w \in {v, x, y} : w.op \notin {"generate"} \cup Repairs
    BY <2>1 DEF Work, Repairs
  <2>3. Return(c) \/ \E w \in {v, x, y} : slots' = [slots EXCEPT ![c] = w]
    BY <1>7 DEF Claim, EnqueueReminder, Ground, Shapes
  <2> QED
    BY <2>2, <2>3, <1>5, ReturnCourse
<1>8. ASSUME NEW c \in Slots, Commit(c) PROVE Courses
  <2>1. CASE ReadOffsets(c)
    <3> DEFINE w == [slots[c] EXCEPT !.step = "save", !.seen = offsets[slots[c].id]]
    <3>1. slots' = [slots EXCEPT ![c] = w]
      BY <2>1 DEF ReadOffsets, Ground, Shapes
    <3>2. w.op = "offsets"
      BY <2>1, InHand DEF ReadOffsets, In, Work
    <3>3. w.op \notin {"generate"} \cup Repairs
      BY <3>2 DEF Repairs
    <3> QED
      BY <3>1, <3>3, <1>5
  <2>2. CASE ~ReadOffsets(c)
    <3>1. Return(c)
      BY <1>8, <2>2 DEF Commit, SaveArchived, SaveTime, SaveCadence, SaveOffsets, SaveReanchor
    <3> QED
      BY <3>1, ReturnCourse
  <2> QED
    BY <2>1, <2>2
<1>9. ASSUME NEW c \in Slots, NEW id \in Events, NEW op \in Edits, LoadEvent(c, id, op) PROVE Courses
  <2> DEFINE w == [NoRead EXCEPT !.op = op, !.id = id, !.copy = ev[id],
                       !.step = IF op = "offsets" THEN "children" ELSE "save"]
  <2>1. w.op = op
    BY DEF NoRead
  <2>2. slots' = [slots EXCEPT ![c] = w]
    BY <1>9 DEF LoadEvent
  <2> HIDE DEF w
  <2>3. w.op \notin {"generate"} \cup Repairs
    BY <2>1 DEF Edits, Repairs
  <2> QED
    BY <2>2, <2>3, <1>5
<1>10. ASSUME NEW c \in Slots, NEW id \in Events, NEW op \in Repairs, Reanchor(c, id, op) PROVE Courses
  <2> DEFINE w == [NoRead EXCEPT !.op = op, !.step = "save", !.id = id,
                             !.plan = Plan(Asked(id, op)), !.seen = AllStarts]
  <2>1. CASE UNCHANGED slots
    BY <2>1, SameCourse
  <2>2. CASE ~UNCHANGED slots
    <3>1. /\ slots' = [slots EXCEPT ![c] = w] /\ ~Collides(Plan(Asked(id, op)))
          /\ Exists(id) /\ op \in Authors /\ (op = "cascade" => id = Root)
      BY <1>10, <2>2 DEF Reanchor, Spend, Asked, Live, Exists
    <3>2. w.op = op /\ w.id = id /\ w.plan = Plan(Asked(id, op)) /\ w.seen = AllStarts
      BY DEF NoRead
    <3> HIDE DEF w
    <3>3. Course(slots[c], w)
      BY <3>1, <3>2 DEF Course, Plans
    <3> QED
      BY <3>1, <3>3, OneCourse
  <2> QED
    BY <2>1, <2>2
<1>11. CASE Crash
  BY <1>11, Nothing DEF Crash, Courses, Course, Repairs
<1>12. CASE Tick \/ UNCHANGED vars
  BY <1>12, SameCourse DEF Tick, vars
<1>13. ASSUME NEW id \in Events, Remove(id) \/ RemoveSeries(id) PROVE Courses
  BY <1>13, SameCourse DEF Remove, RemoveSeries
<1> QED
  BY <1>1, <1>3, <1>4, <1>6, <1>7, <1>8, <1>9, <1>10, <1>11, <1>12, <1>13
  DEF Next, Progress, Edits, Repairs

(***************************************************************************)
(* A repair and its own rows.                                              *)
(***************************************************************************)
\* The zone moves every instant to the same side.
OneSide == (Before >= 0 /\ After >= 0) \/ (Before < 0 /\ After < 0)

\* No row of the plan lands on one that stays, nor on another of the plan, as the
\* rows were when it was made.
Clear(w) ==
    \A x \in w.plan : x.id # Root =>
      /\ \A o \in DOMAIN w.seen \ {Root} : o \notin Movers(w) => w.seen[o] # x.to
      /\ \A y \in w.plan : y.id # Root /\ x # y => x.to # y.to
RepairsInv == ~tripped /\ \A c \in Slots : slots[c].op \in Repairs => Clear(slots[c])

LEMMA PlansClear == ASSUME Ground, NEW w, Plans(w) PROVE Clear(w)
<1>1. PICK id \in Events, op \in Repairs :
        /\ w.op = op /\ w.id = id /\ w.plan = Plan(Asked(id, op)) /\ w.seen = AllStarts
        /\ ~Collides(w.plan) /\ Exists(id)
  BY DEF Plans
<1>2. /\ DOMAIN AllStarts = {Root} \cup Occurrences
      /\ \A i \in DOMAIN AllStarts : AllStarts[i] = ev[i].start
  BY AllThere
<1>3. \A x \in w.plan : x.id \in Asked(id, op)
  BY <1>1 DEF Plan
<1>4. Asked(id, op) \subseteq Movers(w)
  <2>1. id \in DOMAIN AllStarts
    BY <1>1 DEF AllStarts
  <2> QED
    BY <1>1, <1>2, <2>1 DEF Asked, Movers
<1> SUFFICES ASSUME NEW x \in w.plan, x.id # Root
             PROVE  /\ \A o \in DOMAIN w.seen \ {Root} : o \notin Movers(w) => w.seen[o] # x.to
                    /\ \A y \in w.plan : y.id # Root /\ x # y => x.to # y.to
  BY DEF Clear
<1>5. ASSUME NEW o \in DOMAIN w.seen \ {Root}, o \notin Movers(w) PROVE w.seen[o] # x.to
  <2>1. o \in Occurrences /\ w.seen[o] = ev[o].start
    BY <1>1, <1>2
  <2>2. o \notin {y.id : y \in w.plan}
    BY <1>3, <1>4, <1>5
  <2> QED
    BY <1>1, <2>1, <2>2 DEF Collides
<1>6. ASSUME NEW y \in w.plan, y.id # Root, x # y PROVE x.to # y.to
  BY <1>1, <1>6 DEF Collides
<1> QED
  BY <1>5, <1>6

\* Which way a zone moves an instant.
LEMMA Sides ==
    ASSUME OneSide, NEW a \in Int, NEW b \in Int
    PROVE  IF Reanchored(a) < a THEN Reanchored(b) < b ELSE Reanchored(b) >= b
  BY ConstantsAssumption DEF OneSide, Reanchored, Utc

\* A plan that is clear of the rows, made of the rows there are, does not trip.
LEMMA NoTrip ==
    ASSUME OneSide, Ground, NEW w \in Work, Hand(w), w.op \in Repairs, Clear(w),
           w.seen = AllStarts
    PROVE  ~Trips(w.plan, Step(w.plan, w.id))
<1>1. Repairing(w)
  BY DEF Hand
<1>2. /\ \A i \in Movers(w) : Step(w.plan, i) = Target(w, i) /\ Moves(w.plan, i)
      /\ \A i : Moves(w.plan, i) => i \in Movers(w)
  BY <1>1, StepOf DEF Repairing
<1>3. /\ DOMAIN w.seen = {Root} \cup Occurrences
      /\ \A i \in DOMAIN w.seen : w.seen[i] = ev[i].start /\ w.seen[i] \in Int
  BY AllThere
<1>4. Movers(w) \subseteq DOMAIN w.seen /\ w.id \in Movers(w)
  BY <1>1 DEF Movers, Repairing
<1>5. \A i \in Movers(w) : /\ Target(w, i).id = i /\ Target(w, i).from = w.seen[i]
                           /\ Target(w, i).to = Reanchored(w.seen[i])
                           /\ w.seen[i] \in Int /\ Reanchored(w.seen[i]) \in Int
  BY <1>3, <1>4, UtcInt DEF Target
<1> SUFFICES ASSUME NEW x \in w.plan, x.id # Root, NEW o \in Occurrences \ {x.id},
                    x.to = IF Moves(w.plan, o)
                              /\ WrittenBefore(Step(w.plan, w.id), Step(w.plan, o), x)
                             THEN Step(w.plan, o).to ELSE ev[o].start
             PROVE  FALSE
  BY DEF Trips
<1>6. PICK i \in Movers(w) : x = Target(w, i)
  BY <1>1 DEF Repairing
<1>7. i = x.id /\ i # Root /\ i # o /\ o # Root /\ o \in DOMAIN w.seen
  <2>1. Occurrences \subseteq Ids /\ Root \notin Ids
    BY ConstantsAssumption DEF Occurrences, Root
  <2> QED
    BY <1>3, <1>5, <1>6, <2>1
<1>8. CASE o \notin Movers(w)
  BY <1>2, <1>3, <1>7, <1>8 DEF Clear
<1>9. CASE o \in Movers(w)
  <2>1. Target(w, o) \in w.plan /\ Target(w, o).id = o /\ x # Target(w, o)
    BY <1>1, <1>5, <1>7, <1>9 DEF Repairing
  <2>2. x.to # Target(w, o).to
    BY <1>7, <2>1 DEF Clear
  <2>3. ~WrittenBefore(Target(w, w.id), Target(w, o), x) /\ x.to = ev[o].start
    BY <1>2, <1>4, <1>9, <2>2
  <2>4. IF Reanchored(w.seen[w.id]) < w.seen[w.id] THEN ~(w.seen[o] < w.seen[i])
                                                   ELSE ~(w.seen[o] > w.seen[i])
    BY <1>4, <1>5, <1>6, <1>9, <2>3 DEF WrittenBefore
  <2>5. Reanchored(w.seen[i]) = w.seen[o]
    BY <1>3, <1>5, <1>6, <1>7, <2>3
  <2>6. w.seen[i] # w.seen[o]
    BY <1>1, <1>7, <1>4 DEF Repairing
  <2>7. w.seen[i] \in Int /\ w.seen[o] \in Int /\ w.seen[w.id] \in Int
    BY <1>3, <1>4, <1>7
  <2>8. IF Reanchored(w.seen[w.id]) < w.seen[w.id] THEN w.seen[o] < w.seen[i] ELSE w.seen[o] >= w.seen[i]
    BY <2>5, <2>7, Sides
  <2> QED
    BY <2>4, <2>6, <2>7, <2>8
<1> QED
  BY <1>8, <1>9

LEMMA RepairsKept == ASSUME OneSide, Ground, RepairsInv, [Next]_vars PROVE RepairsInv'
<1>1. \A c \in Slots : slots'[c].op \in Repairs => Clear(slots'[c])
  <2> SUFFICES ASSUME NEW c \in Slots, slots'[c].op \in Repairs PROVE Clear(slots'[c])
    OBVIOUS
  <2>1. Course(slots[c], slots'[c])
    BY SlotCourses DEF Courses
  <2>2. slots'[c] = slots[c] \/ Plans(slots'[c])
    BY <2>1 DEF Course, Begins, GoesOn, Repairs
  <2>3. PICK w : w = slots'[c]
    OBVIOUS
  <2>4. Plans(w) => Clear(w)
    BY PlansClear
  <2> QED
    BY <2>2, <2>3, <2>4 DEF RepairsInv
<1>2. ~tripped'
  <2>1. CASE \E c \in Slots : SaveReanchor(c)
    <3>1. PICK c \in Slots : SaveReanchor(c)
      BY <2>1
    <3>2. PICK w : w = slots[c]
      OBVIOUS
    <3>3. w \in Work /\ Hand(w) /\ w.op \in Repairs /\ Clear(w)
      BY <3>1, <3>2, InHand DEF SaveReanchor, In, Repairs, RepairsInv
    <3>4. w.seen = AllStarts => ~Trips(w.plan, Step(w.plan, w.id))
      BY <3>3, NoTrip
    <3> QED
      BY <3>1, <3>2, <3>4 DEF SaveReanchor, RepairsInv
  <2>2. CASE ~\E c \in Slots : SaveReanchor(c)
    <3>1. UNCHANGED tripped
      <4>1. ASSUME NEW c \in Slots, Generate(c) \/ Sweep(c) \/ ReadExisting(c) \/ CreateOccurrence(c)
            PROVE  UNCHANGED tripped
        BY <4>1 DEF Generate, Sweep, ReadExisting, CreateOccurrence, history
      <4>2. ASSUME NEW c \in Slots, NEW d \in InBatch(c), Claim(c, d) \/ EnqueueReminder(c, d)
            PROVE  UNCHANGED tripped
        BY <4>2 DEF Claim, EnqueueReminder
      <4>3. ASSUME NEW c \in Slots, Commit(c) PROVE UNCHANGED tripped
        BY <2>2, <4>3 DEF Commit, SaveArchived, SaveTime, SaveCadence, ReadOffsets, SaveOffsets,
           history
      <4>4. ASSUME NEW c \in Slots, NEW id \in Events, NEW op,
                   LoadEvent(c, id, op) \/ Reanchor(c, id, op)
            PROVE  UNCHANGED tripped
        BY <4>4 DEF LoadEvent, Reanchor, history
      <4>5. ASSUME NEW id \in Events, Remove(id) \/ RemoveSeries(id) PROVE UNCHANGED tripped
        BY <4>5 DEF Remove, RemoveSeries, history
      <4>6. CASE Tick \/ Crash \/ UNCHANGED vars
        BY <4>6 DEF Tick, Crash, vars, history
      <4> QED
        BY <4>1, <4>2, <4>3, <4>4, <4>5, <4>6 DEF Next, Progress
    <3> QED
      BY <3>1 DEF RepairsInv
  <2> QED
    BY <2>1, <2>2
<1> QED
  BY <1>1, <1>2 DEF RepairsInv, Clear, Movers

\* A repair that reads the series as it still is does not trip over the rows it moves
\* (reanchor), in a zone that lies on one side of UTC all year.
THEOREM RepairsClear == ASSUME OneSide PROVE Spec => []RepairNeverTripsItself
<1>1. Init => RepairsInv
  BY Nothing DEF Init, RepairsInv, Repairs
<1>2. Ground /\ RepairsInv /\ [Next]_vars => RepairsInv'
  BY RepairsKept
<1>3. RepairsInv => RepairNeverTripsItself
  BY DEF RepairsInv, RepairNeverTripsItself
<1> QED
  BY <1>1, <1>2, <1>3, Initially, GroundKept, PTL DEF Spec

(***************************************************************************)
(* One occurrence for each period.                                         *)
(***************************************************************************)
\* In a zone that keeps its offset a repair shifts an occurrence and the rule that made it
\* alike, unless months are counted.
LEMMA Even ==
    ASSUME Before = After, NEW a \in Int, NEW c, c # "monthly", NEW n \in Int
    PROVE  Reanchored(OccurrenceAt(a, c, n)) = OccurrenceAt(Reanchored(a), c, n)
<1>1. Before \in Int /\ After \in Int /\ Change \in Int
  BY ConstantsAssumption
<1>2. \A l \in Int : Utc(l) = l + Before /\ Local(l) = l - Before
  BY <1>1 DEF Utc, Local
<1>3. PICK s \in Int : \A l \in Int : Plus(l, c, n) = l + s
  <2>1. n * Length(c) \in Int
    BY LengthIs
  <2> QED
    BY <2>1 DEF Plus
<1>4. OccurrenceAt(a, c, n) = a + s
  BY <1>1, <1>2, <1>3 DEF OccurrenceAt
<1>5. PICK b \in Int : b = Reanchored(a) /\ b = a + Before
  BY <1>1, <1>2 DEF Reanchored
<1>6. OccurrenceAt(b, c, n) = b + s
  BY <1>1, <1>2, <1>3 DEF OccurrenceAt
<1>7. Reanchored(a + s) = a + s + Before
  BY <1>1, <1>2 DEF Reanchored
<1> QED
  BY <1>1, <1>4, <1>5, <1>6, <1>7

\* A repair of a whole series leaves it a series, but for months.
Steady == Before = After \/ "cascade" \notin Authors

\* The occurrences that are still where a rule has put them.
Kept == Occurrences \ strays
At(start, made) == OccurrenceAt(start, made.cadence, made.n)
From(i, start) == ev[i].start = At(start, origin[i])

\* What a sweep over the template makes is of the rule it read; what a repair of the
\* series has seen is of the rule there is.
Sweeping(w) ==
    w.op = "generate" =>
      /\ \A i \in Kept : origin[i].rule = w.rule => From(i, w.copy.start)
      /\ w.rule = rule => w.copy.start = ev[Root].start
Carrying(w) ==
    w.op = "cascade" =>
      /\ "cascade" \in Authors
      /\ \A i \in DOMAIN w.seen \ {Root} : i \notin strays /\ origin[i].rule = rule =>
           w.seen[i] = At(w.seen[Root], origin[i])

\* The occurrences of a rule are where it puts them from where it began: for the rule there
\* is, from the template; for an earlier one, from what a sweep still holds of it.
SeriesInv ==
    /\ OncePerPeriod
    /\ \A i \in Kept : origin[i].rule = rule => From(i, ev[Root].start)
    /\ \A c \in Slots : Sweeping(slots[c]) /\ Carrying(slots[c])
    /\ \A c, d \in Slots :
         slots[c].op = "generate" /\ slots[d].op = "generate" /\ slots[c].rule = slots[d].rule
           => slots[c].copy.start = slots[d].copy.start

\* The rows, as far as the series is concerned.
Standing == /\ UNCHANGED <<rule, origin, strays>>
            /\ \A e \in Events : (Exists(e)' <=> Exists(e)) /\ ev'[e].start = ev[e].start

LEMMA Numbers ==
    ASSUME Ground
    PROVE  /\ \A i \in Occurrences : /\ i \in Events /\ i \in Ids /\ i # Root /\ ev[i].start \in Int
                                     /\ origin[i].rule \in Int
                                     /\ origin[i].n \in Int /\ origin[i].rule <= rule
           /\ ev[Root].start \in Int /\ rule \in Int /\ Root \in Events
           /\ \A c \in Slots : /\ slots[c].copy.start \in Int /\ slots[c].rule \in Int
                               /\ slots[c].op = "generate" => slots[c].rule <= rule
<1>1. Occurrences \subseteq Ids /\ Ids \subseteq Events /\ Root \in Events /\ Root \notin Ids
  BY ConstantsAssumption DEF Occurrences, Events, Root
<1>2. \A e \in Events : ev[e].start \in Int /\ origin[e].n \in Int /\ origin[e].rule \in Nat
                        /\ origin[e].rule <= rule
  BY DEF Ground, Shapes, Row, Origin
<1>4. \A c \in Slots : /\ slots[c].copy.start \in Int /\ slots[c].rule \in Int
                       /\ slots[c].op = "generate" => slots[c].rule <= rule
  <2> TAKE c \in Slots
  <2>1. slots[c] \in Work /\ Hand(slots[c])
    BY InHand
  <2> QED
    BY <2>1 DEF Work, Row, Hand
<1> QED
  BY <1>1, <1>2, <1>4 DEF Ground, Shapes

\* What a repair of the series reads is the series.
LEMMA PlansCarry == ASSUME Ground, SeriesInv, NEW w, Plans(w) PROVE Carrying(w) /\ w.op \in Repairs
<1>1. w.op \in Repairs /\ w.seen = AllStarts
  BY DEF Plans
<1>2. /\ DOMAIN AllStarts = {Root} \cup Occurrences
      /\ \A i \in DOMAIN AllStarts : AllStarts[i] = ev[i].start
  BY AllThere
<1>3. w.op = "cascade" => "cascade" \in Authors
  BY DEF Plans
<1>4. \A i \in Occurrences : i \notin strays /\ origin[i].rule = rule =>
        ev[i].start = At(ev[Root].start, origin[i])
  BY DEF SeriesInv, Kept, From
<1> QED
  BY <1>1, <1>2, <1>3, <1>4 DEF Carrying

\* The slots of a step that leaves the rows alone.
LEMMA StandingKept == ASSUME Ground, SeriesInv, Courses, Standing PROVE SeriesInv'
<1>1. Occurrences' = Occurrences /\ Kept' = Kept /\ Occurrences \subseteq Events /\ Root \in Events
  BY DEF Standing, Occurrences, Kept, Events
<1>2. \A i \in Occurrences : \A start : From(i, start)' <=> From(i, start)
  BY <1>1 DEF Standing, From
<1>3. /\ \A i \in Kept' : origin'[i].rule = rule' => From(i, ev[Root].start)'
      /\ OncePerPeriod'
  BY <1>1, <1>2 DEF SeriesInv, Standing, Kept, From, OncePerPeriod
<1>4. \A c \in Slots : Course(slots[c], slots'[c])
  BY DEF Courses
<1>5. ASSUME NEW c \in Slots, slots'[c].op = "generate"
      PROVE  /\ \A i \in Kept : origin[i].rule = slots'[c].rule => From(i, slots'[c].copy.start)
             /\ slots'[c].rule = rule => slots'[c].copy.start = ev[Root].start
             /\ \/ slots'[c].rule = rule
                \/ /\ slots[c].op = "generate" /\ slots[c].rule = slots'[c].rule
                   /\ slots[c].copy = slots'[c].copy
  <2>1. \/ Begins(slots'[c])
        \/ /\ slots[c].op = "generate" /\ slots[c].rule = slots'[c].rule
           /\ slots[c].copy = slots'[c].copy
    BY <1>4, <1>5 DEF Course, GoesOn, Plans, Repairs
  <2> QED
    BY <2>1 DEF Begins, SeriesInv, Sweeping
<1>6. ASSUME NEW c \in Slots PROVE Sweeping(slots[c])' /\ Carrying(slots[c])'
  <2>1. Sweeping(slots[c])'
    <3> SUFFICES ASSUME slots'[c].op = "generate"
                 PROVE  /\ \A i \in Kept : origin'[i].rule = slots'[c].rule =>
                                ev'[i].start = At(slots'[c].copy.start, origin'[i])
                        /\ slots'[c].rule = rule' => slots'[c].copy.start = ev'[Root].start
      BY <1>1 DEF Sweeping, From
    <3>1. UNCHANGED <<rule, origin>> /\ \A e \in Events : ev'[e].start = ev[e].start
      BY DEF Standing
    <3>2. Kept \subseteq Events
      BY <1>1 DEF Kept
    <3> QED
      BY <1>1, <1>5, <3>1, <3>2 DEF From
  <2>2. PICK w : w = slots'[c]
    OBVIOUS
  <2>3. Carrying(w)
    <3>1. w = slots[c] \/ w.op # "cascade" \/ Plans(w)
      BY <1>4, <2>2 DEF Course, Begins, GoesOn, Repairs
    <3> QED
      BY <3>1, PlansCarry DEF SeriesInv, Carrying
  <2>4. Carrying(slots[c])'
    BY <2>2, <2>3 DEF Carrying, Standing
  <2> QED
    BY <2>1, <2>4
<1>7. ASSUME NEW c \in Slots, NEW d \in Slots, slots'[c].op = "generate", slots'[d].op = "generate",
             slots'[c].rule = slots'[d].rule
      PROVE  slots'[c].copy.start = slots'[d].copy.start
  <2>1. CASE slots'[c].rule = rule
    BY <1>5, <1>7, <2>1
  <2>2. CASE slots'[c].rule # rule
    BY <1>5, <1>7, <2>2 DEF SeriesInv
  <2> QED
    BY <2>1, <2>2
<1> QED
  BY <1>3, <1>6, <1>7 DEF SeriesInv

\* A step that frees its slot, or goes on with what the slot had: no slot begins anything.
Settling == \A s \in Slots : slots'[s] = slots[s] \/ GoesOn(slots[s], slots'[s])
                             \/ slots'[s].op \notin {"generate"} \cup Repairs

\* The rows of a step that settles decide.
LEMMA SettlingKept ==
    ASSUME Ground, SeriesInv, Settling, OncePerPeriod', rule' \in Int, rule <= rule',
           \A i \in Kept' : origin'[i].rule = rule' => From(i, ev[Root].start)',
           \A s \in Slots : slots[s].op = "generate" =>
             /\ \A i \in Kept' : origin'[i].rule = slots[s].rule =>
                                  ev'[i].start = At(slots[s].copy.start, origin'[i])
             /\ slots[s].rule = rule' => slots[s].copy.start = ev'[Root].start,
           \A s \in Slots : slots[s].op = "cascade" =>
             \A i \in DOMAIN slots[s].seen \ {Root} : i \notin strays' /\ origin'[i].rule = rule' =>
               slots[s].seen[i] = At(slots[s].seen[Root], origin'[i])
    PROVE  SeriesInv'
<1>1. \A s \in Slots : slots'[s].op = "generate" =>
        slots[s].op = "generate" /\ slots'[s].rule = slots[s].rule /\ slots'[s].copy = slots[s].copy
  BY DEF Settling, GoesOn
<1>2. \A s \in Slots : slots'[s].op = "cascade" => slots'[s] = slots[s]
  BY DEF Settling, GoesOn, Repairs
<1>3. \A s \in Slots, i \in Kept' : slots[s].op = "generate" /\ origin'[i].rule = slots[s].rule
        => ev'[i].start = At(slots[s].copy.start, origin'[i])
  OBVIOUS
<1>4. \A s \in Slots : Sweeping(slots[s])'
  BY <1>1, <1>3 DEF Sweeping, From
<1>5. \A s \in Slots : Carrying(slots[s])'
  <2>1. \A s \in Slots : slots[s].op = "cascade" => "cascade" \in Authors
    BY DEF SeriesInv, Carrying
  <2> QED
    BY <1>2, <2>1 DEF Carrying
<1>6. \A c, d \in Slots :
         slots'[c].op = "generate" /\ slots'[d].op = "generate" /\ slots'[c].rule = slots'[d].rule
           => slots'[c].copy.start = slots'[d].copy.start
  BY <1>1 DEF SeriesInv
<1> QED
  BY <1>4, <1>5, <1>6 DEF SeriesInv

\* A new occurrence is made where its rule puts it, if nobody is there.
LEMMA CreateSeries ==
    ASSUME Ground, Ground', SeriesInv, NEW c \in Slots, CreateOccurrence(c)
    PROVE  SeriesInv'
<1>1. PICK u : u = slots[c]
  OBVIOUS
<1>2. u \in Work /\ Hand(u) /\ u.op = "generate" /\ u.step = "create" /\ u.copy.start \in Int
      /\ u.copy.cadence \in {"none"} \cup Cadences
  BY <1>1, InHand DEF CreateOccurrence, In, Work, Row
<1>3. PICK n \in Int : n = Min(u.todo)
  BY <1>2, Onward
<1>4. PICK start \in Int : start = OccurrenceAt(u.copy.start, u.copy.cadence, n)
  BY <1>2, <1>3, OccurrenceInt
<1>5. Settling
  <2>1. \A s \in Slots : s # c => slots'[s] = slots[s]
    BY DEF CreateOccurrence, Return, Ground, Shapes
  <2>2. CASE Return(c)
    BY <2>1, <2>2, Nothing DEF Return, Settling, Repairs, Ground, Shapes
  <2>3. CASE slots' = [slots EXCEPT ![c].todo = @ \ {Min(slots[c].todo)}]
    <3>1. slots'[c] = [u EXCEPT !.todo = @ \ {Min(slots[c].todo)}]
      BY <1>1, <2>3 DEF Ground, Shapes
    <3>2. slots'[c].op = "generate" /\ slots'[c].copy = u.copy /\ slots'[c].rule = u.rule
      BY <1>2, <3>1 DEF Work
    <3> QED
      BY <1>1, <1>2, <2>1, <3>2 DEF Settling, GoesOn
  <2> QED
    BY <2>2, <2>3 DEF CreateOccurrence
<1>6. UNCHANGED <<rule, strays>>
  BY DEF CreateOccurrence
<1>7. CASE start \in Held \/ FreeIds = {}
  <2>1. UNCHANGED <<ev, origin>>
    BY <1>1, <1>3, <1>4, <1>7 DEF CreateOccurrence
  <2>2. Standing
    BY <1>6, <2>1 DEF Standing, Exists
  <2>3. Courses
    BY <1>5 DEF Settling, Courses, Course
  <2> QED
    BY <2>2, <2>3, StandingKept
<1>8. CASE ~(start \in Held \/ FreeIds = {})
  <2>1. PICK id \in Ids : id = Min(FreeIds) /\ ~Exists(id) /\ id # Root
    BY <1>8, FreeId
  <2>2. Makes(c, id, n, start)
    BY <1>1, <1>3, <1>4, <1>8, <2>1 DEF CreateOccurrence, Makes
  <2>3. id \in Events
    BY DEF Events
  <2> DEFINE row == [NoEvent EXCEPT !.state = "live", !.start = start]
  <2>4. row \in Row /\ row.state = "live" /\ row.start = start
    BY NewRow
  <2> HIDE DEF row
  <2>5. ev' = [ev EXCEPT ![id] = row] /\ origin' = [origin EXCEPT ![id] =
                      [n |-> n, rule |-> u.rule, cadence |-> u.copy.cadence]]
    BY <1>1, <2>2 DEF Makes, row
  <2>6. /\ \A e \in Events : ev'[e] = IF e = id THEN row ELSE ev[e]
        /\ \A e \in Events : e # id => origin'[e] = origin[e]
        /\ origin'[id].n = n /\ origin'[id].rule = u.rule /\ origin'[id].cadence = u.copy.cadence
    BY <2>3, <2>5 DEF Ground, Shapes
  <2>7. /\ id \notin Occurrences
        /\ \A i \in Occurrences' : i = id \/ (i \in Occurrences /\ i # id)
        /\ \A i \in Kept' : i = id \/ (i \in Kept /\ i # id)
    BY <1>6, <2>1, <2>4, <2>6 DEF Occurrences, Exists, Kept, Events
  <2>8. /\ \A i \in Kept : /\ ev'[i] = ev[i] /\ origin'[i] = origin[i]
        /\ ev'[Root] = ev[Root]
    BY <2>1, <2>6, <2>7, Numbers DEF Kept
  <2>9. ev'[id].start = At(u.copy.start, origin'[id]) /\ ev'[id].start = start
    BY <1>4, <2>3, <2>4, <2>6 DEF At
  <2>10. /\ \A i \in Kept : origin[i].rule = u.rule => ev[i].start = At(u.copy.start, origin[i])
         /\ u.rule = rule => u.copy.start = ev[Root].start
    BY <1>1, <1>2 DEF SeriesInv, Sweeping, From
  <2>11. \A i \in Kept : origin[i] # origin'[id]
    <3> SUFFICES ASSUME NEW i \in Kept, origin[i] = origin'[id] PROVE FALSE
      OBVIOUS
    <3>1. ev[i].start = start
      BY <2>6, <2>9, <2>10
    <3> QED
      BY <1>8, <3>1 DEF Held, Kept
  <2>12. OncePerPeriod'
    <3> SUFFICES ASSUME NEW i \in Kept', NEW j \in Kept', origin'[i] = origin'[j] PROVE i = j
      BY DEF OncePerPeriod, Kept
    <3> QED
      BY <2>7, <2>8, <2>11 DEF SeriesInv, OncePerPeriod, Kept
  <2>14. \A i \in Kept' : origin'[i].rule = rule' => From(i, ev[Root].start)'
    <3> SUFFICES ASSUME NEW i \in Kept', origin'[i].rule = rule
                 PROVE  ev'[i].start = At(ev'[Root].start, origin'[i])
      BY <1>6 DEF From
    <3>1. CASE i = id
      BY <2>6, <2>8, <2>9, <2>10, <3>1
    <3>2. CASE i # id
      BY <2>7, <2>8, <3>2 DEF SeriesInv, From
    <3> QED
      BY <3>1, <3>2
  <2>15. ASSUME NEW s \in Slots, slots[s].op = "generate"
         PROVE  /\ \A i \in Kept' : origin'[i].rule = slots[s].rule =>
                                      ev'[i].start = At(slots[s].copy.start, origin'[i])
                /\ slots[s].rule = rule' => slots[s].copy.start = ev'[Root].start
    <3>1. /\ \A i \in Kept : origin[i].rule = slots[s].rule =>
                               ev[i].start = At(slots[s].copy.start, origin[i])
          /\ slots[s].rule = rule => slots[s].copy.start = ev[Root].start
      BY <2>15 DEF SeriesInv, Sweeping, From
    <3>2. u.rule = slots[s].rule => u.copy.start = slots[s].copy.start
      BY <1>1, <1>2, <2>15 DEF SeriesInv
    <3>3. ASSUME NEW i \in Kept', origin'[i].rule = slots[s].rule
          PROVE  ev'[i].start = At(slots[s].copy.start, origin'[i])
      <4>1. CASE i = id
        BY <2>6, <2>9, <3>2, <3>3, <4>1
      <4>2. CASE i # id
        BY <2>7, <2>8, <3>1, <3>3, <4>2
      <4> QED
        BY <4>1, <4>2
    <3> QED
      BY <1>6, <2>8, <3>1, <3>3
  <2>16. ASSUME NEW s \in Slots, slots[s].op = "cascade",
                NEW i \in DOMAIN slots[s].seen \ {Root}, i \notin strays', origin'[i].rule = rule'
         PROVE  slots[s].seen[i] = At(slots[s].seen[Root], origin'[i])
    <3>1. i \in Events /\ Exists(i)
      BY <2>16, InHand DEF Hand, Repairing, Repairs
    <3>2. i # id
      BY <2>1, <3>1
    <3>3. origin'[i] = origin[i]
      BY <2>6, <3>1, <3>2
    <3> QED
      BY <1>6, <2>16, <3>3 DEF SeriesInv, Carrying
  <2>17. rule' \in Int /\ rule <= rule'
    BY <1>6, Numbers
  <2> QED
    BY <1>5, <2>12, <2>14, <2>15, <2>16, <2>17, SettlingKept
<1> QED
  BY <1>7, <1>8

LEMMA ReturnSettles == ASSUME Ground, NEW c \in Slots, Return(c) PROVE Settling
<1>1. \A s \in Slots : slots'[s] = IF s = c THEN NoRead ELSE slots[s]
  BY DEF Return, Ground, Shapes
<1> QED
  BY <1>1, Nothing DEF Settling, Repairs

\* A row that an author saves: an occurrence that moves has left its rule, a template
\* that moves makes a rule no occurrence has yet.
LEMMA SaveSeries ==
    ASSUME Ground, SeriesInv, NEW c \in Slots, slots[c].op \in Edits, NEW row \in Row,
           row.state = "live", Save(c, row), UNCHANGED origin, Return(c)
    PROVE  SeriesInv'
<1>1. PICK id \in Events : id = slots[c].id /\ Exists(id)
  BY InHand DEF Hand, Work
<1>2. Settling
  BY ReturnSettles
<1>3. CASE ~Fits(id, row)
  <2>1. UNCHANGED <<ev, rule, strays>>
    BY <1>1, <1>3 DEF Save
  <2>2. Standing
    BY <2>1 DEF Standing, Exists
  <2>3. Courses
    BY <1>2 DEF Settling, Courses, Course
  <2> QED
    BY <2>2, <2>3, StandingKept
<1>4. CASE Fits(id, row)
  <2>1. /\ ev' = [ev EXCEPT ![id] = row]
        /\ rule' = IF id = Root /\ row.start # ev[id].start THEN rule + 1 ELSE rule
        /\ strays' = IF id # Root /\ row.start # ev[id].start THEN strays \cup {id} ELSE strays
    BY <1>1, <1>4 DEF Save
  <2>2. \A e \in Events : ev'[e] = IF e = id THEN row ELSE ev[e]
    BY <2>1 DEF Ground, Shapes
  <2>3. Occurrences' = Occurrences /\ \A e \in Events : Exists(e)' <=> Exists(e)
    BY <1>1, <2>2 DEF Occurrences, Exists, Events
  <2>4. CASE row.start = ev[id].start
    <3>1. Standing
      BY <2>1, <2>2, <2>3, <2>4 DEF Standing
    <3>2. Courses
      BY <1>2 DEF Settling, Courses, Course
    <3> QED
      BY <3>1, <3>2, StandingKept
  <2>5. CASE row.start # ev[id].start
    <3>1. Kept' \subseteq Kept /\ \A i \in Kept' : ev'[i].start = ev[i].start
      BY <2>1, <2>2, <2>3, <2>5, Numbers DEF Kept
    <3>2. rule' \in Int /\ rule <= rule' /\ (rule' = rule \/ rule' = rule + 1)
      BY <2>1, Numbers
    <3>3. rule' = rule => id # Root /\ ev'[Root] = ev[Root]
      BY <2>1, <2>2, <2>5, Numbers
    <3>4. OncePerPeriod'
      BY <3>1 DEF SeriesInv, OncePerPeriod, Kept
    <3>6. \A i \in Kept' : origin'[i].rule = rule' => From(i, ev[Root].start)'
      <4> SUFFICES ASSUME NEW i \in Kept', origin[i].rule = rule'
                   PROVE  ev'[i].start = At(ev'[Root].start, origin[i])
        BY DEF From
      <4>1. i \in Kept /\ origin[i].rule <= rule /\ origin[i].rule \in Int
        BY <3>1, Numbers DEF Kept
      <4>2. rule' = rule
        BY <3>2, <4>1, Numbers
      <4> QED
        BY <3>1, <3>3, <4>1, <4>2 DEF SeriesInv, From
    <3>7. ASSUME NEW s \in Slots, slots[s].op = "generate"
          PROVE  /\ \A i \in Kept' : origin'[i].rule = slots[s].rule =>
                                       ev'[i].start = At(slots[s].copy.start, origin'[i])
                 /\ slots[s].rule = rule' => slots[s].copy.start = ev'[Root].start
      <4>1. /\ \A i \in Kept : origin[i].rule = slots[s].rule =>
                                 ev[i].start = At(slots[s].copy.start, origin[i])
            /\ slots[s].rule = rule => slots[s].copy.start = ev[Root].start
        BY <3>7 DEF SeriesInv, Sweeping, From
      <4>2. slots[s].rule = rule' => rule' = rule
        BY <3>2, <3>7, Numbers
      <4> QED
        BY <3>1, <3>3, <4>1, <4>2
    <3>8. ASSUME NEW s \in Slots, slots[s].op = "cascade",
                 NEW i \in DOMAIN slots[s].seen \ {Root}, i \notin strays', origin'[i].rule = rule'
          PROVE  slots[s].seen[i] = At(slots[s].seen[Root], origin'[i])
      <4>1. i \in Events /\ i \notin strays
        BY <2>1, <3>8, InHand DEF Hand, Repairing, Repairs
      <4>2. origin[i].rule <= rule /\ origin[i].rule \in Nat
        BY <4>1 DEF Ground, Shapes, Origin
      <4>3. rule' = rule
        BY <3>2, <3>8, <4>2, Numbers
      <4> QED
        BY <3>8, <4>1, <4>3 DEF SeriesInv, Carrying
    <3> QED
      BY <1>2, <3>2, <3>4, <3>6, <3>7, <3>8, SettlingKept
  <2> QED
    BY <2>4, <2>5
<1> QED
  BY <1>3, <1>4

LEMMA EditSeries ==
    ASSUME Ground, SeriesInv, NEW c \in Slots,
           SaveArchived(c) \/ SaveTime(c) \/ SaveCadence(c) \/ SaveOffsets(c)
    PROVE  SeriesInv'
<1>1. slots[c].op \in Edits
  BY DEF SaveArchived, SaveTime, SaveCadence, SaveOffsets, In, Edits
<1>2. PICK copy \in Row : copy = slots[c].copy /\ copy.state = "live"
  BY <1>1, InHand DEF Hand, Work
<1>3. PICK row \in Row : row.state = "live" /\ Save(c, row)
  <2>1. CASE SaveArchived(c)
    <3>1. PICK b \in BOOLEAN : b = (slots[c].op = "archive")
      OBVIOUS
    <3>2. Save(c, [copy EXCEPT !.archived = b])
      BY <2>1, <3>1, <1>2 DEF SaveArchived
    <3> QED
      BY <3>2, <1>2, Copies, ConstantsAssumption
  <2>2. CASE SaveTime(c)
    <3>1. PICK start \in Starts : Save(c, [copy EXCEPT !.start = start])
      BY <2>2, <1>2 DEF SaveTime
    <3>2. start \in Int
      BY <3>1, ConstantsAssumption
    <3> QED
      BY <3>1, <3>2, <1>2, Copies
  <2>3. CASE SaveCadence(c)
    <3>1. PICK row \in Recurrence(copy) : Save(c, row)
      BY <2>3, <1>2 DEF SaveCadence
    <3>2. TRUE \in BOOLEAN /\ 0 \in Int
      OBVIOUS
    <3>3. \A r \in Recurrence(copy) : r \in Row /\ r.state = "live"
      BY <3>2, <1>2, Copies
    <3> QED
      BY <3>1, <3>3
  <2>4. CASE SaveOffsets(c)
    BY <2>4, <1>2 DEF SaveOffsets
  <2> QED
    BY <2>1, <2>2, <2>3, <2>4
<1>4. UNCHANGED origin /\ Return(c)
  BY DEF SaveArchived, SaveTime, SaveCadence, SaveOffsets
<1> QED
  BY <1>1, <1>3, <1>4, SaveSeries

\* A repair of the whole series takes the occurrences of the rule along; what it moves
\* of others has left its rule.
LEMMA RepairSeries ==
    ASSUME Steady, Ground, SeriesInv, NEW c \in Slots, SaveReanchor(c)
    PROVE  SeriesInv'
<1>1. PICK w : w = slots[c]
  OBVIOUS
<1>2. w \in Work /\ Hand(w) /\ w.op \in Repairs /\ Repairing(w)
  BY <1>1, InHand DEF SaveReanchor, In, Repairs, Hand
<1>3. Return(c) /\ Settling
  BY ReturnSettles DEF SaveReanchor
<1>4. CASE UNCHANGED <<ev, rule, origin, strays>>
  <2>1. Standing
    BY <1>4 DEF Standing, Exists
  <2>2. Courses
    BY <1>3 DEF Settling, Courses, Course
  <2> QED
    BY <2>1, <2>2, StandingKept
<1>5. CASE ~Trips(w.plan, Step(w.plan, w.id))
  <2> DEFINE along == IF w.op = "cascade" THEN DOMAIN w.seen ELSE {}
             with == {i \in along : origin[i].rule = rule}
  <2>1. /\ ev' = [i \in Events |-> IF Moves(w.plan, i) THEN [ev[i] EXCEPT !.start = Step(w.plan, i).to]
                                   ELSE ev[i]]
        /\ rule' = IF w.id = Root THEN rule + 1 ELSE rule
        /\ origin' = [i \in Events |-> IF i \in with THEN [origin[i] EXCEPT !.rule = rule + 1]
                                       ELSE origin[i]]
        /\ strays' = strays \cup {i \in Ids : Moves(w.plan, i) /\
             (i \notin with \/ origin[i].cadence = "monthly")}
    BY <1>1, <1>5 DEF SaveReanchor
  <2>2. /\ \A i \in Events : Exists(i)' <=> Exists(i)
        /\ \A i \in Events : IF i \in Movers(w) THEN ev'[i].start = Reanchored(w.seen[i])
                             ELSE ev'[i] = ev[i]
    BY <1>2, <1>5, <2>1, Repaired
  <2>3. /\ \A i \in Movers(w) : Moves(w.plan, i)
        /\ \A i : Moves(w.plan, i) => i \in Movers(w)
    BY <1>2, StepOf DEF Repairing
  <2>4. /\ with \subseteq Movers(w) /\ with \subseteq Events /\ Movers(w) \subseteq DOMAIN w.seen
        /\ with # {} => w.op = "cascade" /\ w.id = Root /\ Root \in Movers(w)
        /\ \A i \in with : origin[i].rule = rule
        /\ w.op = "cascade" => \A i \in DOMAIN w.seen : origin[i].rule = rule => i \in with
    BY <1>2 DEF Movers, Repairing
  <2> HIDE DEF with, along
  <2>5. \A i \in Events : /\ origin'[i].n = origin[i].n /\ origin'[i].cadence = origin[i].cadence
                          /\ i \in with => origin'[i].rule = rule + 1
                          /\ i \notin with => origin'[i] = origin[i]
    <3>1. \A o \in Origin : /\ [o EXCEPT !.rule = rule + 1].n = o.n
                            /\ [o EXCEPT !.rule = rule + 1].cadence = o.cadence
                            /\ [o EXCEPT !.rule = rule + 1].rule = rule + 1
      BY DEF Origin
    <3>2. \A i \in Events : origin[i] \in Origin
      BY DEF Ground, Shapes
    <3> QED
      BY <2>1, <3>1, <3>2
  <2>6. Occurrences' = Occurrences /\ Occurrences \subseteq Events /\ Occurrences \subseteq Ids
    BY <2>2 DEF Occurrences, Events
  <2>7. /\ Kept' \subseteq Kept
        /\ \A i \in Kept' : /\ i \in Occurrences
                              /\ \/ i \in with /\ origin[i].cadence # "monthly"
                                 \/ i \notin Movers(w) /\ ev'[i] = ev[i]
    BY <2>1, <2>2, <2>3, <2>6 DEF Kept
  <2>8. rule' \in Int /\ rule <= rule' /\ (rule' = rule \/ rule' = rule + 1)
        /\ (with # {} => rule' = rule + 1)
    BY <2>1, <2>4, Numbers
  <2>9. rule' = rule => Root \notin Movers(w) /\ ev'[Root] = ev[Root]
    <3>1. rule' = rule => w.id # Root /\ w.op # "cascade"
      BY <1>2, <2>1, Numbers DEF Repairing
    <3> QED
      BY <2>2, <3>1, Numbers DEF Movers
  <2>10. ASSUME NEW i \in Kept', i \in with
         PROVE  ev'[i].start = At(ev'[Root].start, origin'[i])
    <3>0. PICK k : k = origin[i].cadence
      OBVIOUS
    <3>1. i \in DOMAIN w.seen \ {Root} /\ i \notin strays /\ origin[i].rule = rule /\ i \in Kept
      BY <2>4, <2>7, <2>10, Numbers DEF Kept
    <3>2. w.seen[i] = At(w.seen[Root], origin[i])
      BY <1>1, <2>4, <2>10, <3>1 DEF SeriesInv, Carrying
    <3>3. Root \in Movers(w) /\ i \in Movers(w) /\ w.seen[i] \in Int /\ w.seen[Root] \in Int
          /\ Root \in Events /\ i \in Events
      BY <1>2, <2>4, <2>6, <2>7, <2>10, Numbers DEF Repairing
    <3>4. ev'[i].start = Reanchored(w.seen[i]) /\ ev'[Root].start = Reanchored(w.seen[Root])
      BY <2>2, <3>3
    <3>5. PICK x \in Int : x = origin[i].n /\ k # "monthly"
      <4>1. origin[i].n \in Int
        BY <3>3 DEF Ground, Shapes, Origin
      <4>2. k # "monthly"
        BY <2>7, <2>10, <3>0, <3>3
      <4> QED
        BY <4>1, <4>2
    <3>6. Before = After
      BY <1>1, <2>4, <2>10 DEF SeriesInv, Carrying, Steady
    <3>7. Reanchored(OccurrenceAt(w.seen[Root], k, x)) = OccurrenceAt(Reanchored(w.seen[Root]), k, x)
      BY <3>3, <3>5, <3>6, Even
    <3> QED
      BY <2>5, <3>0, <3>2, <3>3, <3>4, <3>5, <3>7 DEF At
  <2>11. ASSUME NEW i \in Kept', i \notin with
         PROVE  /\ i \in Kept /\ ev'[i] = ev[i] /\ origin'[i] = origin[i]
                /\ origin[i].rule <= rule /\ origin[i].rule \in Int
    BY <2>5, <2>6, <2>7, <2>11, Numbers DEF Kept
  <2>12. \A i \in Kept' : i \in Kept /\ (i \in with => origin'[i].rule = rule + 1 /\ rule' = rule + 1)
    BY <2>5, <2>6, <2>7, <2>8
  <2>14. OncePerPeriod'
    <3> SUFFICES ASSUME NEW i \in Kept', NEW j \in Kept', origin'[i] = origin'[j] PROVE i = j
      BY DEF OncePerPeriod, Kept
    <3>1. CASE i \in with /\ j \in with
      <4>1. /\ origin[i].rule = origin[j].rule /\ origin[i].n = origin[j].n
            /\ origin[i].cadence = origin[j].cadence
        BY <2>4, <2>5, <3>1
      <4>2. origin[i] = origin[j]
        <5>1. origin[i] \in Origin /\ origin[j] \in Origin
          BY <2>4, <3>1 DEF Ground, Shapes
        <5> QED
          BY <4>1, <5>1 DEF Origin
      <4> QED
        BY <4>2, <2>12 DEF SeriesInv, OncePerPeriod, Kept
    <3>2. CASE i \notin with /\ j \notin with
      BY <2>11, <3>2 DEF SeriesInv, OncePerPeriod, Kept
    <3>3. CASE (i \in with) # (j \in with)
      BY <2>11, <2>12, <3>3, Numbers
    <3> QED
      BY <3>1, <3>2, <3>3
  <2>16. \A i \in Kept' : origin'[i].rule = rule' => From(i, ev[Root].start)'
    <3> SUFFICES ASSUME NEW i \in Kept', origin'[i].rule = rule'
                 PROVE  ev'[i].start = At(ev'[Root].start, origin'[i])
      BY DEF From
    <3>1. CASE i \notin with
      <4>1. rule' = rule
        BY <2>8, <2>11, <3>1, Numbers
      <4> QED
        BY <2>9, <2>11, <3>1, <4>1 DEF SeriesInv, From
    <3> QED
      BY <2>10, <3>1
  <2>17. ASSUME NEW s \in Slots, slots[s].op = "generate"
         PROVE  /\ \A i \in Kept' : origin'[i].rule = slots[s].rule =>
                                      ev'[i].start = At(slots[s].copy.start, origin'[i])
                /\ slots[s].rule = rule' => slots[s].copy.start = ev'[Root].start
    <3>1. /\ \A i \in Kept : origin[i].rule = slots[s].rule =>
                               ev[i].start = At(slots[s].copy.start, origin[i])
          /\ slots[s].rule = rule => slots[s].copy.start = ev[Root].start
      BY <2>17 DEF SeriesInv, Sweeping, From
    <3>2. slots[s].rule <= rule /\ slots[s].rule \in Int
      BY <2>17, Numbers
    <3>3. \A i \in Kept' : origin'[i].rule = slots[s].rule => i \notin with
      BY <2>12, <3>2, Numbers
    <3>4. slots[s].rule = rule' => rule' = rule
      BY <2>8, <3>2, Numbers
    <3> QED
      BY <2>9, <2>11, <3>1, <3>3, <3>4
  <2>18. ASSUME NEW s \in Slots, slots[s].op = "cascade",
                NEW i \in DOMAIN slots[s].seen \ {Root}, i \notin strays', origin'[i].rule = rule'
         PROVE  slots[s].seen[i] = At(slots[s].seen[Root], origin'[i])
    <3>1. i \in Events /\ i \notin strays
      BY <2>1, <2>18, InHand DEF Hand, Repairing, Repairs
    <3>2. origin[i].rule <= rule /\ origin[i].rule \in Nat
      BY <3>1 DEF Ground, Shapes, Origin
    <3>3. origin[i].rule = rule
      <4>1. CASE i \in with
        BY <2>4, <4>1
      <4>2. CASE i \notin with
        BY <2>5, <2>8, <2>18, <3>1, <3>2, <4>2, Numbers
      <4> QED
        BY <4>1, <4>2
    <3>4. slots[s].seen[i] = At(slots[s].seen[Root], origin[i])
      BY <2>18, <3>1, <3>3 DEF SeriesInv, Carrying
    <3> QED
      BY <2>5, <3>1, <3>4 DEF At
  <2> QED
    BY <1>3, <2>8, <2>14, <2>16, <2>17, <2>18, SettlingKept
<1> QED
  BY <1>1, <1>4, <1>5 DEF SaveReanchor

LEMMA SeriesKept ==
    ASSUME Steady, Ground, Ground', SeriesInv, [Next]_vars PROVE SeriesInv'
<1>1. ASSUME NEW c \in Slots, CreateOccurrence(c) PROVE SeriesInv'
  BY <1>1, CreateSeries
<1>2. ASSUME NEW c \in Slots, SaveReanchor(c) PROVE SeriesInv'
  BY <1>2, RepairSeries
<1>3. ASSUME NEW c \in Slots,
             SaveArchived(c) \/ SaveTime(c) \/ SaveCadence(c) \/ SaveOffsets(c)
      PROVE  SeriesInv'
  BY <1>3, EditSeries
<1>4. CASE UNCHANGED <<ev, rule, origin, strays>>
  <2>1. Standing
    BY <1>4 DEF Standing, Exists
  <2> QED
    BY <2>1, SlotCourses, StandingKept
<1>5. ASSUME NEW id \in Events, Remove(id) \/ RemoveSeries(id) PROVE SeriesInv'
  <2>1. UNCHANGED <<rule, origin, strays>>
    BY <1>5 DEF Remove, RemoveSeries, history
  <2>2. \A r \in Row : [r EXCEPT !.state = "deleted"].start = r.start
                       /\ [r EXCEPT !.state = "deleted"].state = "deleted"
    BY DEF Row
  <2>3. \A e \in Events : ev[e] \in Row
    BY DEF Ground, Shapes
  <2>4. \A e \in Events : ev'[e] = ev[e] \/ (Exists(e) /\ ev'[e] = [ev[e] EXCEPT !.state = "deleted"])
    BY <1>5 DEF Remove, RemoveSeries, Live, Exists, Ground, Shapes
  <2>5. \A e \in Events : (Exists(e)' <=> Exists(e)) /\ ev'[e].start = ev[e].start
    BY <2>2, <2>3, <2>4 DEF Exists
  <2>6. Standing
    BY <2>1, <2>5 DEF Standing
  <2> QED
    BY <2>6, SlotCourses, StandingKept
<1>6. ASSUME NEW c \in Slots, Generate(c) \/ Sweep(c) \/ ReadExisting(c) \/ ReadOffsets(c)
      PROVE  SeriesInv'
  BY <1>4, <1>6 DEF Generate, Sweep, ReadExisting, ReadOffsets, history
<1>7. ASSUME NEW c \in Slots, NEW d \in InBatch(c), Claim(c, d) \/ EnqueueReminder(c, d)
      PROVE  SeriesInv'
  BY <1>4, <1>7 DEF Claim, EnqueueReminder
<1>8. ASSUME NEW c \in Slots, NEW id \in Events, NEW op, LoadEvent(c, id, op) \/ Reanchor(c, id, op)
      PROVE  SeriesInv'
  BY <1>4, <1>8 DEF LoadEvent, Reanchor, history
<1>9. CASE Tick \/ Crash \/ UNCHANGED vars
  BY <1>4, <1>9 DEF Tick, Crash, vars, history
<1> QED
  BY <1>1, <1>2, <1>3, <1>5, <1>6, <1>7, <1>8, <1>9 DEF Next, Progress, Commit

\* The sweep makes one occurrence for each period of a rule, at any cadence
\* (event-recurrence.scheduler.ts): in a zone that keeps its offset all year, or in any
\* zone if no series is repaired as a whole.  The occurrences of a monthly rule that such a
\* repair moved are not spoken for: it may part them from their rule (NeverMadeAgain).
THEOREM OneEachPeriod == ASSUME Steady PROVE Spec => []OncePerPeriod
<1>1. Init => SeriesInv
  <2> SUFFICES ASSUME Init PROVE SeriesInv
    OBVIOUS
  <2>1. \A i \in Ids : ~Exists(i)
    <3>1. Root \notin Ids /\ Ids \subseteq Events
      BY ConstantsAssumption DEF Root, Events
    <3>2. \A e \in Events : e # Root => ev[e] = NoEvent
      BY DEF Init
    <3> QED
      BY <3>1, <3>2 DEF Exists, NoEvent
  <2>2. Kept = {}
    BY <2>1 DEF Kept, Occurrences
  <2>3. \A c \in Slots : slots[c].op = "none"
    BY Nothing DEF Init
  <2> QED
    BY <2>2, <2>3 DEF SeriesInv, Sweeping, Carrying, OncePerPeriod, Kept
<1>2. Ground /\ Ground' /\ SeriesInv /\ [Next]_vars => SeriesInv'
  BY SeriesKept
<1>3. SeriesInv => OncePerPeriod
  BY DEF SeriesInv
<1> QED
  BY <1>1, <1>2, <1>3, Initially, GroundKept, PTL DEF Spec

(***************************************************************************)
(* Removal of a series.                                                    *)
(***************************************************************************)
Extinct == gone => (\A c \in Slots : Idle(c)) /\ \A id \in Events : ~Live(id)

LEMMA ExtinctKept == ASSUME Ground, Extinct, [Next]_vars PROVE Extinct'
<1>1. ASSUME NEW id \in Events, Live(id) PROVE ~gone
  BY <1>1 DEF Extinct
<1>2. ASSUME NEW c \in Slots, ~Idle(c) PROVE ~gone
  BY <1>2 DEF Extinct
<1>3. CASE ~gone /\ UNCHANGED gone
  BY <1>3 DEF Extinct
<1>4. CASE UNCHANGED <<ev, slots, gone>>
  BY <1>4 DEF Extinct, Idle, Live
<1>5. ASSUME NEW c \in Slots, Generate(c) PROVE Extinct'
  BY <1>1, <1>3, <1>5 DEF Generate, Generating, history, Events
<1>6. ASSUME NEW c \in Slots, Sweep(c) PROVE Extinct'
  <2>1. CASE Due = {}
    BY <1>4, <1>6, <2>1 DEF Sweep, history
  <2>2. CASE Due # {}
    <3>1. \E id \in Events : Live(id)
      BY <2>2 DEF Due
    <3> QED
      BY <1>1, <1>3, <1>6, <3>1 DEF Sweep, history
  <2> QED
    BY <2>1, <2>2
<1>7. ASSUME NEW c \in Slots, Progress(c) PROVE Extinct'
  <2>1. ~Idle(c)
    BY <1>7 DEF Progress, ReadExisting, CreateOccurrence, Claim, EnqueueReminder, Commit,
       SaveArchived, SaveTime, SaveCadence, ReadOffsets, SaveOffsets, SaveReanchor, In, Idle
  <2>2. UNCHANGED gone
    BY <1>7 DEF Progress, ReadExisting, CreateOccurrence, Claim, EnqueueReminder, Commit,
       SaveArchived, SaveTime, SaveCadence, ReadOffsets, SaveOffsets, SaveReanchor, history
  <2> QED
    BY <1>2, <1>3, <2>1, <2>2
<1>8. ASSUME NEW c \in Slots, NEW id \in Events, NEW op, LoadEvent(c, id, op) \/ Reanchor(c, id, op)
      PROVE  Extinct'
  BY <1>1, <1>3, <1>8 DEF LoadEvent, Reanchor, history
<1>9. ASSUME NEW id \in Events, Remove(id) PROVE Extinct'
  BY <1>1, <1>3, <1>9 DEF Remove, history
<1>10. ASSUME NEW id \in Events, RemoveSeries(id) PROVE Extinct'
  <2>1. UNCHANGED slots /\ (gone' = (gone \/ \A c \in Slots : Idle(c)))
    BY <1>10 DEF RemoveSeries
  <2>2. ~gone
    BY <1>1, <1>10 DEF RemoveSeries
  <2>3. gone' => \A c \in Slots : Idle(c)'
    BY <2>1, <2>2 DEF Idle
  <2>4. \A e \in Events : ~Live(e)'
    <3>1. \A r \in Row : [r EXCEPT !.state = "deleted"].state = "deleted"
      BY DEF Row
    <3>2. \A e \in Events : ev[e] \in Row
      BY DEF Ground, Shapes
    <3>3. \A e \in Events : ev'[e] = IF Exists(e) THEN [ev[e] EXCEPT !.state = "deleted"] ELSE ev[e]
      BY <1>10 DEF RemoveSeries
    <3> QED
      BY <3>1, <3>2, <3>3 DEF Exists, Live
  <2> QED
    BY <2>3, <2>4 DEF Extinct
<1>11. CASE Crash
  BY <1>2, <1>3, <1>11 DEF Crash, history
<1>12. CASE Tick \/ UNCHANGED vars
  BY <1>4, <1>12 DEF Tick, vars, history
<1> QED
  BY <1>5, <1>6, <1>7, <1>8, <1>9, <1>10, <1>11, <1>12 DEF Next

\* A series that was removed with nothing under way never comes back (removeSeries,
\* generate): no sweep takes it up, and no request can load a row of it.
THEOREM RemovedForGood == Spec => []RemovedStaysRemoved
<1>1. Init => Extinct
  BY DEF Init, Extinct
<1>2. Ground /\ Extinct /\ [Next]_vars => Extinct'
  BY ExtinctKept
<1>3. Extinct => RemovedStaysRemoved
  BY DEF Extinct, RemovedStaysRemoved
<1> QED
  BY <1>1, <1>2, <1>3, Initially, GroundKept, PTL DEF Spec

(***************************************************************************)
(* What a sweep computes is what the rule says.                            *)
(***************************************************************************)
\* The zone's two offsets, how far it moves, and what a change may not exceed: it is
\* shorter than a day, and what one sweep considers reaches beyond the horizon.
Low == IF Before < After THEN Before ELSE After
High == IF Before < After THEN After ELSE Before
Shift == High - Low
Ample == Shift < Day /\ Horizon + Shift <= MaxEmit * Day

LEMMA Zone ==
    ASSUME NEW l \in Int
    PROVE  /\ Low \in Int /\ High \in Int /\ Shift \in Nat
           /\ l + Low <= Utc(l) /\ Utc(l) <= l + High /\ Utc(l) \in Int
           /\ l - High <= Local(l) /\ Local(l) <= l - Low /\ Local(l) \in Int
           /\ \A t \in Int : Utc(l) + t - Shift <= Utc(l + t)
<1>1. Before \in Int /\ After \in Int /\ Change \in Int
  BY ConstantsAssumption
<1> QED
  BY <1>1 DEF Low, High, Shift, Utc, Local

\* The occurrences are apart by as many days, but for one shift of the zone.
LEMMA OccurrencesApart ==
    ASSUME NEW a \in Int, NEW c, NEW n \in Int, NEW k \in Nat
    PROVE  /\ OccurrenceAt(a, c, n) + Span(k) - Shift <= OccurrenceAt(a, c, n + k)
           /\ OccurrenceAt(a, c, n) \in Int /\ OccurrenceAt(a, c, n + k) \in Int
<1>1. PICK l \in Int : l = Local(a)
  BY UtcInt
<1>2. PICK x \in Int, y \in Int : x = Plus(l, c, n) /\ y = Plus(l, c, n + k) /\ x + Span(k) <= y
  BY LocalsGrow
<1>3. OccurrenceAt(a, c, n) = Utc(x) /\ OccurrenceAt(a, c, n + k) = Utc(y)
  BY <1>1, <1>2 DEF OccurrenceAt
<1>4. PICK t \in Int : t = y - x /\ y = x + t
  BY <1>2
<1>5. Utc(x) + t - Shift <= Utc(x + t) /\ Utc(x) \in Int /\ Shift \in Int
  <2>1. /\ \A u \in Int : Utc(x) + u - Shift <= Utc(x + u)
        /\ Utc(x) \in Int /\ Shift \in Nat
    BY Zone
  <2> QED
    BY <2>1
<1>6. Span(k) \in Int /\ Span(k) <= t
  BY <1>2, <1>4, SpanInt
<1>7. Utc(y) \in Int /\ Utc(x) + t - Shift <= Utc(y)
  BY <1>4, <1>5, UtcInt
<1> QED
  BY <1>3, <1>5, <1>6, <1>7

\* They come in the order of their numbers.
LEMMA InOrder ==
    ASSUME Ample, NEW a \in Int, NEW c, NEW n \in Int, NEW k \in Int, n < k
    PROVE  OccurrenceAt(a, c, n) < OccurrenceAt(a, c, k)
<1>1. PICK i \in Nat : i = k - n /\ n + i = k /\ i >= 1
  BY k - n \in Nat
<1>2. /\ OccurrenceAt(a, c, n) + Span(i) - Shift <= OccurrenceAt(a, c, k)
      /\ OccurrenceAt(a, c, n) \in Int /\ OccurrenceAt(a, c, k) \in Int
  BY <1>1, OccurrencesApart
<1>3. 1 \in Int /\ i \in Int /\ Span(1) <= Span(i) /\ Span(1) = Day
  BY <1>1, SpanGrows
<1>4. Span(i) \in Int /\ Shift \in Int /\ Shift < Day /\ Day \in Int
  BY <1>3, SpanInt, Zone, Calendar DEF Ample
<1> QED
  BY <1>2, <1>3, <1>4

\* The estimate, as local times: its next is past, its last before, what a clock in the
\* zone may show.
LEMMA Estimated ==
    ASSUME NEW a \in Int, NEW c, NEW now \in Int
    PROVE  LET i == EstimateIndex(a, c, now)
               l == Local(a)
           IN /\ i \in Int /\ l \in Int
              /\ now - High < Plus(l, c, i + 1) /\ Plus(l, c, i - 1) <= now - Low
<1>1. PICK i \in Int, l \in Int, h \in Int : /\ i = EstimateIndex(a, c, now) /\ l = Local(a)
                                             /\ h = Local(now)
  BY EstimateInt, UtcInt
<1>2. /\ now - High <= h /\ h <= now - Low /\ a - High <= l /\ l <= a - Low
      /\ High \in Int /\ Low \in Int
  BY <1>1, Zone
<1>3. CASE c = "monthly"
  <2>1. PICK m \in Int, x \in Int : m = MonthOf(l) /\ x = MonthOf(h) /\ i = x - m
    BY <1>1, <1>3, MonthHolds DEF EstimateIndex
  <2>2. m + (i + 1) = x + 1 /\ m + (i - 1) = x - 1 /\ (x - 1) + 1 = x
    BY <2>1
  <2>3. PICK first \in Int, next \in Int :
          first = FirstDay(x) /\ next = FirstDay(x + 1) /\ first <= h \div Day /\ h \div Day < next
    BY <2>1, MonthHolds, MonthsGoOn
  <2>4. PICK d \in Int, t \in 0 .. Day - 1 : d = h \div Day /\ h = Day * d + t
    BY Calendar, Divided
  <2>5. h = Span(d) + t /\ Span(d) \in Int /\ Day \in Int
    BY <2>4, SpanInt, Calendar DEF Span
  <2>6. Span(first) <= Span(d) /\ Span(d) + Day <= Span(next)
    BY <2>3, <2>4, SpanGrows
  <2>7. Span(next) <= PlusMonths(l, i + 1) /\ PlusMonths(l, i + 1) \in Int
    <3>1. PICK k \in Int, y \in Int : k = i + 1 /\ y = x + 1 /\ m + k = y
      BY <2>1
    <3>2. PlusMonths(l, k) \in Int /\ Span(FirstDay(y)) <= PlusMonths(l, k)
      BY <2>1, <3>1, MonthsOn
    <3> QED
      BY <2>3, <3>1, <3>2
  <2>8. PlusMonths(l, i - 1) < Span(first) /\ PlusMonths(l, i - 1) \in Int
    <3>1. PICK k \in Int, y \in Int : k = i - 1 /\ y = x - 1 /\ m + k = y /\ y + 1 = x
      BY <2>1
    <3>2. PlusMonths(l, k) \in Int /\ PlusMonths(l, k) < Span(FirstDay(y + 1))
      BY <2>1, <3>1, MonthsOn
    <3> QED
      BY <2>3, <3>1, <3>2
  <2>9. Span(first) \in Int /\ Span(next) \in Int
    BY SpanInt
  <2>10. h < PlusMonths(l, i + 1) /\ PlusMonths(l, i - 1) < h
    BY <2>4, <2>5, <2>6, <2>7, <2>8, <2>9
  <2>11. now - High < PlusMonths(l, i + 1) /\ PlusMonths(l, i - 1) <= now - Low
    BY <1>2, <2>7, <2>8, <2>10
  <2> QED
    BY <1>1, <1>3, <2>11 DEF Plus
<1>4. CASE c # "monthly"
  <2>1. PICK p \in Nat \ {0} : p = Length(c)
    BY LengthIs, Calendar
  <2>2. PICK d \in Int : d = now - a
    OBVIOUS
  <2>3. PICK r \in 0 .. p - 1 : i = d \div p /\ d = p * i + r
    BY <1>1, <1>4, <2>1, <2>2, Divided DEF EstimateIndex
  <2>4. PICK s \in Int : s = p * i
    OBVIOUS
  <2>5. (i + 1) * p = s + p /\ (i - 1) * p = s - p
    BY <2>4
  <2>6. Plus(l, c, i + 1) = l + (s + p) /\ Plus(l, c, i - 1) = l + (s - p)
    BY <1>4, <2>1, <2>5 DEF Plus
  <2>7. s <= d /\ d < s + p
    BY <2>3, <2>4
  <2> QED
    BY <1>1, <1>2, <2>2, <2>6, <2>7
<1> QED
  BY <1>3, <1>4

\* The corrections find it: it is to come, and none before it is (computeOccurrenceStarts).
\* They are never stopped by their guard, as the estimate is two off at most.
LEMMA FirstFound ==
    ASSUME Ample, NEW a \in Int, NEW c, NEW now \in Int
    PROVE  LET f == FirstAfter(a, c, now)
           IN /\ f \in Int /\ f >= 1
              /\ OccurrenceAt(a, c, f) > now
              /\ \A n \in Int : 1 <= n /\ n < f => OccurrenceAt(a, c, n) <= now
<1>1. PICK i \in Int, l \in Int :
        /\ i = EstimateIndex(a, c, now) /\ l = Local(a)
        /\ now - High < Plus(l, c, i + 1) /\ Plus(l, c, i - 1) <= now - Low
  BY Estimated
<1>2. PICK e \in Int : e = Estimate(a, c, now) /\ e \in {1, i} /\ e >= 1 /\ e >= i
  BY <1>1, AtLeastOne DEF Estimate
<1>3. High \in Int /\ Low \in Int /\ Shift = High - Low /\ Shift < Day /\ Day \in Int /\ Shift >= 0
  BY Zone, Calendar DEF Ample, Shift
<1>4. \A n \in Int : Plus(l, c, n) \in Int /\ OccurrenceAt(a, c, n) = Utc(Plus(l, c, n))
  BY <1>1, LocalsApart DEF OccurrenceAt
<1>5. \A n \in Int, k \in Int : n < k => Plus(l, c, n) + Day <= Plus(l, c, k)
  <2> SUFFICES ASSUME NEW n \in Int, NEW k \in Int, n < k
               PROVE  Plus(l, c, n) + Day <= Plus(l, c, k)
    OBVIOUS
  <2>1. PICK j \in Nat : j = k - n /\ n + j = k /\ j >= 1
    BY k - n \in Nat
  <2>2. Plus(l, c, n) + Span(j) <= Plus(l, c, k) /\ Plus(l, c, n) \in Int /\ Plus(l, c, k) \in Int
    BY <2>1, LocalsGrow
  <2>3. Span(1) = Day /\ Span(j) \in Int /\ Span(1) <= Span(j)
    <3>1. 1 \in Int /\ j \in Int /\ 1 <= j
      BY <2>1
    <3>2. Span(1) <= Span(j) /\ Span(1) = Day
      BY <3>1, SpanGrows
    <3>3. Span(j) \in Int
      BY <3>1, SpanInt
    <3> QED
      BY <3>2, <3>3
  <2> QED
    BY <1>3, <2>2, <2>3
<1>6. OccurrenceAt(a, c, e + 2) > now
  <2>1. e + 2 \in Int /\ i + 1 \in Int /\ i + 1 < e + 2
    BY <1>2
  <2>2. PICK x \in Int, y \in Int : /\ x = Plus(l, c, i + 1) /\ y = Plus(l, c, e + 2)
                                    /\ x + Day <= y
    BY <1>4, <1>5, <2>1
  <2>3. y + Low <= Utc(y) /\ Utc(y) \in Int
    BY Zone
  <2> QED
    BY <1>1, <1>3, <1>4, <2>1, <2>2, <2>3
<1>7. ASSUME NEW n \in Int, 1 <= n, n <= e - 2 PROVE OccurrenceAt(a, c, n) <= now
  <2>1. e = i /\ i - 1 \in Int /\ n < i - 1
    BY <1>2, <1>7
  <2>2. PICK x \in Int, y \in Int : /\ x = Plus(l, c, n) /\ y = Plus(l, c, i - 1)
                                    /\ x + Day <= y
    BY <1>4, <1>5, <2>1
  <2>3. Utc(x) <= x + High /\ Utc(x) \in Int
    BY Zone
  <2> QED
    BY <1>1, <1>3, <1>4, <2>2, <2>3
<1>8. PICK up \in Int : /\ FirstAfter(a, c, now) = Min(Downs(a, c, now, up))
                        /\ up \in Ups(a, c, now) /\ \A x \in Ups(a, c, now) : up <= x
                        /\ up >= 1
  BY FirstIs
<1>9. e <= up /\ up <= e + 2 /\ OccurrenceAt(a, c, up) > now
  <2>1. e + 2 \in Ups(a, c, now)
    BY <1>2, <1>6 DEF Ups
  <2>2. up <= e + 2
    BY <2>1, <1>8
  <2>3. e <= up /\ (up = e + 32 \/ OccurrenceAt(a, c, up) > now)
    BY <1>2, <1>8 DEF Ups
  <2> QED
    BY <1>2, <2>2, <2>3
<1> DEFINE T == Downs(a, c, now, up)
<1>10. PICK low \in Int : low = Lowest(a, c, now, up) /\ (low <= 1 \/ low <= e - 2)
  <2>1. PICK j \in Int : j = up - (64 - (up - e)) /\ j <= e - 2
    BY <1>2, <1>9
  <2>2. Lowest(a, c, now, up) = Max({1, j})
    BY <1>2, <1>9, <2>1 DEF Lowest
  <2>3. Max({1, j}) \in {1, j} /\ Max({1, j}) \in Int
    BY AtLeastOne
  <2> QED
    BY <2>1, <2>2, <2>3
<1>11. PICK f \in Int : /\ f = Min(T) /\ f \in T /\ (\A x \in T : f <= x) /\ T \in SUBSET Int
                        /\ 1 <= low /\ low <= up
  <2>1. up >= Estimate(a, c, now) /\ up <= Estimate(a, c, now) + 32
    BY <1>2, <1>9
  <2> QED
    BY <1>8, <1>10, <2>1, DownsFloored
<1>12. f >= 1 /\ f <= up /\ low <= f /\ \A k \in Int : f <= k /\ k < up => OccurrenceAt(a, c, k) > now
  BY <1>10, <1>11 DEF Downs
<1>13. OccurrenceAt(a, c, f) > now
  <2>1. CASE f = up
    BY <2>1, <1>9
  <2>2. CASE f # up
    BY <2>2, <1>12
  <2> QED
    BY <2>1, <2>2
<1>14. f > 1 => OccurrenceAt(a, c, f - 1) <= now
  <2> SUFFICES ASSUME f > 1, ~(OccurrenceAt(a, c, f - 1) <= now) PROVE FALSE
    OBVIOUS
  <2>1. PICK b \in Int : b = f - 1 /\ 1 <= b
    BY <1>12
  <2>2. OccurrenceAt(a, c, b) > now /\ ~(b <= e - 2)
    <3>1. OccurrenceAt(a, c, b) \in Int
      BY OccurrenceInt
    <3> QED
      BY <1>7, <2>1, <3>1
  <2>3. low <= b /\ b <= up
    BY <1>2, <1>10, <1>12, <2>1, <2>2
  <2>4. \A k \in b .. up - 1 : OccurrenceAt(a, c, k) > now
    <3> TAKE k \in b .. up - 1
    <3>1. k \in Int /\ (k = b \/ (f <= k /\ k < up))
      BY <2>1
    <3> QED
      BY <3>1, <2>2, <1>12
  <2>5. b \in T
    BY <1>10, <2>1, <2>3, <2>4 DEF Downs
  <2> QED
    BY <1>11, <2>1, <2>5
<1>15. ASSUME NEW n \in Int, 1 <= n, n < f PROVE OccurrenceAt(a, c, n) <= now
  <2>1. PICK b \in Int : b = f - 1 /\ OccurrenceAt(a, c, b) <= now /\ (n = b \/ n < b)
    BY <1>12, <1>14, <1>15
  <2>2. CASE n < b
    <3>1. OccurrenceAt(a, c, n) < OccurrenceAt(a, c, b)
      BY <2>2, InOrder
    <3>2. OccurrenceAt(a, c, n) \in Int /\ OccurrenceAt(a, c, b) \in Int
      BY OccurrenceInt
    <3> QED
      BY <2>1, <3>1, <3>2
  <2> QED
    BY <2>1, <2>2
<1> QED
  BY <1>8, <1>11, <1>12, <1>13, <1>15

\* The rule: every instant that some number gives, whichever.
Coming(a, c, now) == {OccurrenceAt(a, c, n) : n \in Nat \ {0}} \cap (now + 1 .. now + Horizon)

\* The numbers the reference tries are enough.
LEMMA Tried ==
    ASSUME Ample, NEW a \in Int, NEW c, NEW now \in Int
    PROVE  Coming(a, c, now) = {OccurrenceAt(a, c, n) : n \in 1 .. now + Horizon + Day - a}
                                 \cap (now + 1 .. now + Horizon)
<1>0. Horizon \in Int /\ Day \in Int
  BY ConstantsAssumption
<1>1. ASSUME NEW n \in Nat \ {0}, OccurrenceAt(a, c, n) <= now + Horizon
      PROVE  n \in 1 .. now + Horizon + Day - a
  <2>1. PICK l \in Int : l = Local(a) /\ a - High <= l /\ High \in Int /\ Low \in Int
    BY Zone
  <2>2. PICK x \in Int : x = Plus(l, c, n) /\ l + Span(n) <= x
    <3>1. 0 \in Int /\ n \in Nat /\ 0 + n = n
      OBVIOUS
    <3>2. Plus(l, c, n) \in Int /\ Plus(l, c, 0) + Span(n) <= Plus(l, c, n)
      BY <3>1, LocalsGrow
    <3>3. Plus(l, c, 0) = l
      BY <3>1, LocalsApart
    <3> QED
      BY <3>2, <3>3
  <2>3. OccurrenceAt(a, c, n) = Utc(x) /\ x + Low <= Utc(x) /\ Utc(x) \in Int
    BY <2>1, <2>2, Zone DEF OccurrenceAt
  <2>4. Span(n) >= n /\ Span(n) \in Int
    <3>1. Span(n) >= n
      BY SpanGrows
    <3>2. Span(n) \in Int
      BY SpanInt
    <3> QED
      BY <3>1, <3>2
  <2>5. High - Low < Day
    BY DEF Ample, Shift
  <2> QED
    BY <1>0, <1>1, <2>1, <2>2, <2>3, <2>4, <2>5
<1>2. ASSUME NEW n \in 1 .. now + Horizon + Day - a PROVE n \in Nat \ {0}
  BY <1>0
<1>3. \A t \in now + 1 .. now + Horizon : t <= now + Horizon
  BY <1>0
<1> QED
  BY <1>1, <1>2, <1>3 DEF Coming

\* What a sweep finds missing is what the rule says and no occurrence holds.
LEMMA MissingFound ==
    ASSUME Ample, NEW a \in Int, NEW c, NEW now \in Int, NEW existing
    PROVE  {OccurrenceAt(a, c, n) : n \in Missing(a, c, now, existing)}
             = Coming(a, c, now) \ existing
<1> DEFINE f == FirstAfter(a, c, now)
<1>1. /\ f \in Int /\ f >= 1 /\ OccurrenceAt(a, c, f) > now
      /\ \A n \in Int : 1 <= n /\ n < f => OccurrenceAt(a, c, n) <= now
  BY FirstFound
<1> HIDE DEF f
<1>2. Horizon \in Int /\ MaxEmit \in Int /\ MaxEmit >= 1
  BY ConstantsAssumption
<1>3. ASSUME NEW n \in Int, n >= f PROVE n \in Nat \ {0} /\ OccurrenceAt(a, c, n) > now
  <2>1. n = f \/ f < n
    BY <1>1, <1>3
  <2>2. OccurrenceAt(a, c, n) \in Int /\ OccurrenceAt(a, c, f) \in Int
    BY <1>1, OccurrenceInt
  <2>3. f < n => OccurrenceAt(a, c, f) < OccurrenceAt(a, c, n)
    BY <1>1, InOrder
  <2> QED
    BY <1>1, <1>3, <2>1, <2>2, <2>3
<1>4. ASSUME NEW n \in Int, n >= f + MaxEmit PROVE OccurrenceAt(a, c, n) > now + Horizon
  <2>1. PICK k \in Nat : k = n - f /\ MaxEmit <= k /\ f + k = n
    BY <1>1, <1>2, <1>4, n - f \in Nat
  <2>2. /\ OccurrenceAt(a, c, f) + Span(k) - Shift <= OccurrenceAt(a, c, n)
        /\ OccurrenceAt(a, c, n) \in Int /\ OccurrenceAt(a, c, f) \in Int
    BY <2>1, <1>1, OccurrencesApart
  <2>3. Span(MaxEmit) <= Span(k) /\ Span(MaxEmit) \in Int /\ Span(k) \in Int
    <3>1. k \in Int /\ MaxEmit \in Int
      BY <1>2, <2>1
    <3>2. Span(MaxEmit) <= Span(k)
      BY <2>1, <3>1, SpanGrows
    <3>3. Span(MaxEmit) \in Int /\ Span(k) \in Int
      BY <3>1, SpanInt
    <3> QED
      BY <3>2, <3>3
  <2>4. Horizon + Shift <= Span(MaxEmit) /\ Shift \in Int
    BY Zone DEF Ample, Span
  <2> QED
    BY <1>1, <1>2, <2>2, <2>3, <2>4
<1>5. ASSUME NEW n \in Nat \ {0}, OccurrenceAt(a, c, n) \in now + 1 .. now + Horizon
      PROVE  n \in f .. f + MaxEmit - 1
  <2>1. /\ OccurrenceAt(a, c, n) \in Int /\ OccurrenceAt(a, c, n) > now
        /\ OccurrenceAt(a, c, n) <= now + Horizon
    BY <1>5, <1>2
  <2>2. ~(n < f)
    BY <2>1, <1>1
  <2>3. ~(n >= f + MaxEmit)
    BY <2>1, <1>4, <1>2
  <2> QED
    BY <2>2, <2>3, <1>1, <1>2
<1>6. \A n \in f .. f + MaxEmit - 1 : n \in Int /\ n >= f
  BY <1>1, <1>2
<1>7. \A n \in Int : OccurrenceAt(a, c, n) > now /\ OccurrenceAt(a, c, n) <= now + Horizon
                       => OccurrenceAt(a, c, n) \in now + 1 .. now + Horizon
  BY <1>2, OccurrenceInt
<1>8. \A t \in now + 1 .. now + Horizon : t <= now + Horizon
  BY <1>2
<1>9. Missing(a, c, now, existing) =
        {n \in f .. f + MaxEmit - 1 : /\ OccurrenceAt(a, c, n) <= now + Horizon
                                      /\ OccurrenceAt(a, c, n) \notin existing}
  BY DEF Missing, f
<1>10. \A n \in Missing(a, c, now, existing) : OccurrenceAt(a, c, n) \in Coming(a, c, now) \ existing
  BY <1>3, <1>6, <1>7, <1>9 DEF Coming
<1>11. \A t \in Coming(a, c, now) \ existing :
         \E n \in Missing(a, c, now, existing) : t = OccurrenceAt(a, c, n)
  BY <1>5, <1>8, <1>9 DEF Coming
<1> QED
  BY <1>10, <1>11

\* The sweep makes exactly what its rule says, at each of the three cadences, however far in
\* the past the rule began and whatever an author has moved or cancelled, and nothing of a
\* series that is removed (computeOccurrenceStarts, generate).  A change of the zone is
\* shorter than a day, and the safety cap of a sweep lies beyond the horizon.
THEOREM GenerationExact == ASSUME Ample PROVE Spec => []GenerationIsExact
<1>1. Ground => MissingIsExact
  <2> SUFFICES ASSUME Ground PROVE MissingIsExact
    OBVIOUS
  <2>1. ev[Root].start \in Int /\ clock \in Int
    <3>1. Root \in Events
      BY DEF Events
    <3> QED
      BY <3>1, ConstantsAssumption DEF Ground, Shapes, Row
  <2> DEFINE anchor == ev[Root].start
             c == ev[Root].cadence
  <2>2. {Instant(n) : n \in Missing(anchor, c, clock, Held)} = Coming(anchor, c, clock) \ Held
    BY <2>1, MissingFound DEF Instant
  <2>3. Coming(anchor, c, clock) = Required
    BY <2>1, Tried DEF Required, Instant
  <2> QED
    BY <2>2, <2>3 DEF MissingIsExact
<1>2. Init => Extinct
  BY DEF Init, Extinct
<1>3. Ground /\ Extinct /\ [Next]_vars => Extinct'
  BY ExtinctKept
<1>4. Ground /\ Extinct => GenerationIsExact
  BY <1>1 DEF Extinct, RemovedStaysRemoved, GenerationIsExact
<1> QED
  BY <1>2, <1>3, <1>4, Initially, GroundKept, PTL DEF Spec
================================================================================
