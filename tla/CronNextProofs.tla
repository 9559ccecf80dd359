--------------------------- MODULE CronNextProofs ---------------------------
(***************************************************************************)
(* CronNext: the field-by-field search of SpecSchedule.Next finds the      *)
(* least matching instant, for every calendar (any months, any lengths of  *)
(* week, day, hour and minute), every schedule and every start, also when  *)
(* summer time starts, as long as it does so in the daytime.               *)
(***************************************************************************)
EXTENDS CronNext, NatLemmas

\* The clock is put forward at a full hour, not at midnight and not beyond the
\* end of the day.
GapInTheDay ==
    \/ Gap = 0
    \/ /\ GapAt % HourLen = 0 /\ GapAt % DayLen # 0
       /\ (GapAt % DayLen) + Gap * HourLen <= DayLen

-----------------------------------------------------------------------------
(* Units of time *)

LEMMA UnitTypes ==
    /\ HourLen \in Nat \ {0} /\ DayLen \in Nat \ {0} /\ Seconds \in Nat \ {0}
    /\ Hours \in Nat \ {0} /\ Minutes \in Nat \ {0} /\ Months \in Nat \ {0} /\ Week \in Nat \ {0}
    /\ HourLen = Seconds * Minutes /\ DayLen = HourLen * Hours
    /\ LastYear \in Nat /\ Gap \in Nat /\ GapAt \in Nat /\ Gap * HourLen \in Nat
<1>1. /\ Seconds \in Nat \ {0} /\ Hours \in Nat \ {0} /\ Minutes \in Nat \ {0}
      /\ Months \in Nat \ {0} /\ Week \in Nat \ {0}
      /\ LastYear \in Nat /\ Gap \in Nat /\ GapAt \in Nat
  BY CalendarAssumption
<1>2. \A a, b \in Nat \ {0} : a * b \in Nat \ {0} /\ a * b = b * a
  OBVIOUS
<1>3. \A a, b \in Nat : a * b \in Nat
  OBVIOUS
<1>4. HourLen \in Nat \ {0} /\ HourLen = Seconds * Minutes
  BY <1>1, <1>2 DEF HourLen
<1>5. DayLen \in Nat \ {0} /\ DayLen = HourLen * Hours
  BY <1>1, <1>2, <1>4 DEF DayLen
<1> QED
  BY <1>1, <1>3, <1>4, <1>5

\* A unit of b * c is c units of b.
LEMMA NestedDiv ==
    ASSUME NEW a \in Int, NEW b \in Nat \ {0}, NEW c \in Nat \ {0}
    PROVE  /\ b * c \in Nat \ {0}
           /\ a \div (b * c) = (a \div b) \div c
           /\ (a % (b * c)) \div b = (a \div b) % c
           /\ a % b = (a % (b * c)) % b
<1> DEFINE p == a \div b
           r == a % b
           q == p \div c
           m == p % c
<1>1. p \in Int /\ r \in 0..(b - 1) /\ a = b * p + r
  BY DivMod
<1>2. q \in Int /\ m \in 0..(c - 1) /\ p = c * q + m
  BY <1>1, DivMod
<1> HIDE DEF p, r, q, m
<1>3. b * c \in Nat \ {0}
  OBVIOUS
<1>4. a = (b * c) * q + (b * m + r)
  BY <1>1, <1>2
<1>5. b * m + r \in 0..((b * c) - 1)
  <2>1. b * m <= b * (c - 1) /\ b * m >= 0
    BY <1>2
  <2>2. b * (c - 1) = b * c - b
    OBVIOUS
  <2>3. b * m \in Int /\ b * c \in Int
    BY <1>2
  <2> QED
    BY <1>1, <2>1, <2>2, <2>3
<1>6. a \div (b * c) = q /\ a % (b * c) = b * m + r
  BY <1>2, <1>3, <1>4, <1>5, DivModUnique
<1>7. (b * m + r) \div b = m /\ (b * m + r) % b = r
  BY <1>1, <1>2, DivModUnique
<1> QED
  BY <1>3, <1>6, <1>7 DEF p, r, q, m

-----------------------------------------------------------------------------
(* Months *)

\* The length of month j.
Length(j) == MonthLen(j \div Months, (j % Months) + 1)

LEMMA MonthCountType == MonthCount \in Nat \ {0}
<1>1. LastYear + 1 \in Nat \ {0} /\ Months \in Nat \ {0}
  BY UnitTypes
<1> QED
  BY <1>1 DEF MonthCount

\* A month number is a year and a month of it.
LEMMA YearOfMonth ==
    ASSUME NEW j \in 0..(MonthCount - 1)
    PROVE  /\ j \div Months \in 0..LastYear /\ (j % Months) + 1 \in 1..Months
           /\ j = ((j \div Months) * Months + ((j % Months) + 1)) - 1
<1> DEFINE q == j \div Months
           r == j % Months
<1>0. Months \in Nat \ {0} /\ LastYear \in Nat /\ MonthCount \in Nat
  BY UnitTypes, MonthCountType
<1>1. q \in Int /\ r \in 0..(Months - 1) /\ j = Months * q + r
  BY <1>0, MonthCountType, DivMod
<1>2. j < (LastYear + 1) * Months /\ j >= 0
  BY <1>0 DEF MonthCount
<1> HIDE DEF q, r
<1>3. q >= 0
  <2>1. ASSUME q < 0 PROVE FALSE
    <3>1. Months * q <= Months * (0 - 1)
      BY <1>0, <1>1, <2>1
    <3> QED
      BY <1>0, <1>1, <1>2, <3>1
  <2> QED
    BY <1>1, <2>1
<1>4. q <= LastYear
  <2>1. ASSUME q > LastYear PROVE FALSE
    <3>1. Months * q >= Months * (LastYear + 1)
      BY <1>0, <1>1, <2>1
    <3> QED
      BY <1>0, <1>1, <1>2, <3>1
  <2> QED
    BY <1>0, <1>1, <2>1
<1>5. j = (q * Months + (r + 1)) - 1
  BY <1>0, <1>1
<1> QED
  BY <1>0, <1>1, <1>3, <1>4, <1>5 DEF q, r

LEMMA LengthType ==
    ASSUME NEW j \in 0..(MonthCount - 1) PROVE Length(j) \in Nat \ {0}
BY YearOfMonth, CalendarAssumption DEF Length

\* g adds up the lengths of the first n months.
AddsUp(g, n) ==
    /\ g \in [0..n -> Nat] /\ g[0] = 0
    /\ \A k \in 1..n : g[k] = g[k - 1] + Length(k - 1)

LEMMA SomeAddsUp == \E g : AddsUp(g, MonthCount)
<1> DEFINE N == MonthCount
           Good == {n \in 0..N : \E g : AddsUp(g, n)}
<1>0. N \in Nat \ {0}
  BY MonthCountType
<1>1. 0 \in Good
  <2>1. AddsUp([k \in 0..0 |-> 0], 0)
    BY DEF AddsUp
  <2> QED
    BY <1>0, <2>1
<1>2. ASSUME NEW n \in 0..(N - 1), n \in Good PROVE n + 1 \in Good
  <2>1. PICK g : AddsUp(g, n)
    BY <1>2
  <2>2. Length(n) \in Nat
    BY LengthType
  <2> DEFINE h == [k \in 0..(n + 1) |-> IF k = n + 1 THEN g[n] + Length(n) ELSE g[k]]
  <2>3. n \in Nat /\ n + 1 \in 0..N /\ 0..n \subseteq 0..(n + 1)
    BY <1>0
  <2>4. g \in [0..n -> Nat] /\ g[0] = 0 /\ \A k \in 1..n : g[k] = g[k - 1] + Length(k - 1)
    BY <2>1 DEF AddsUp
  <2>5. h \in [0..(n + 1) -> Nat]
    BY <2>2, <2>3, <2>4
  <2>6. h[0] = 0
    BY <2>3, <2>4
  <2>7. ASSUME NEW k \in 1..(n + 1) PROVE h[k] = h[k - 1] + Length(k - 1)
    <3>1. CASE k = n + 1
      <4>1. h[k] = g[n] + Length(n) /\ k - 1 = n /\ h[n] = g[n]
        BY <2>3, <3>1
      <4> QED
        BY <4>1
    <3>2. CASE k # n + 1
      <4>1. k \in 1..n /\ k - 1 \in 0..n /\ k \in 0..(n + 1) /\ k - 1 # n + 1
        BY <2>3, <3>2
      <4>2. h[k] = g[k] /\ h[k - 1] = g[k - 1]
        BY <2>3, <3>2, <4>1
      <4> QED
        BY <2>4, <4>1, <4>2
    <3> QED
      BY <3>1, <3>2
  <2> HIDE DEF h
  <2>8. AddsUp(h, n + 1)
    BY <2>5, <2>6, <2>7 DEF AddsUp
  <2> QED
    BY <2>3, <2>8
<1>3. N \in 0..N
  BY <1>0
<1> HIDE DEF Good, N
<1>4. 0..N \subseteq Good
  BY <1>0, <1>1, <1>2, InductionUpTo
<1> QED
  BY <1>3, <1>4 DEF Good, N

\* The recursion of FirstDay has a solution, so FirstDay is one.
LEMMA FirstDayDef == AddsUp(FirstDay, MonthCount)
<1> DEFINE N == MonthCount
           Solves(g) ==
             g = [k \in 0..N |-> IF k = 0 THEN 0
                                 ELSE g[k - 1] + MonthLen((k - 1) \div Months, ((k - 1) % Months) + 1)]
<1>0. N \in Nat \ {0}
  BY MonthCountType
<1>1. PICK g : AddsUp(g, N)
  BY SomeAddsUp
<1>2. Solves(g)
  <2>1. g \in [0..N -> Nat] /\ g[0] = 0 /\ \A k \in 1..N : g[k] = g[k - 1] + Length(k - 1)
    BY <1>1 DEF AddsUp
  <2>2. \A k \in 0..N : k = 0 \/ k \in 1..N
    BY <1>0
  <2> QED
    BY <2>1, <2>2 DEF Length
<1>3. FirstDay = CHOOSE f : Solves(f)
  BY Zenon DEF FirstDay
<1>4. Solves(FirstDay)
  BY <1>2, <1>3, Zenon
<1>5. /\ FirstDay[0] = 0
      /\ \A k \in 1..N : FirstDay[k] = FirstDay[k - 1] + Length(k - 1)
      /\ DOMAIN FirstDay = 0..N
  BY <1>0, <1>4 DEF Length
<1>6. \A k \in 0..N : FirstDay[k] \in Nat
  <2> DEFINE Good == {k \in 0..N : FirstDay[k] \in Nat}
  <2>1. 0 \in Good
    BY <1>0, <1>5
  <2>2. ASSUME NEW k \in 0..(N - 1), k \in Good PROVE k + 1 \in Good
    <3>1. k + 1 \in 1..N /\ (k + 1) - 1 = k /\ Length(k) \in Nat
      BY <1>0, LengthType
    <3>2. FirstDay[k + 1] = FirstDay[k] + Length(k) /\ FirstDay[k] \in Nat
      BY <1>5, <2>2, <3>1
    <3> QED
      BY <1>0, <3>1, <3>2
  <2> HIDE DEF Good, N
  <2>3. 0..N \subseteq Good
    BY <1>0, <2>1, <2>2, InductionUpTo
  <2> QED
    BY <2>3 DEF Good
<1>7. FirstDay = [k \in 0..N |-> FirstDay[k]]
  BY <1>4
<1> HIDE DEF Solves
<1>8. FirstDay \in [0..N -> Nat]
  BY <1>6, <1>7
<1> QED
  BY <1>5, <1>8 DEF AddsUp

LEMMA FirstDayTypes ==
    /\ \A k \in 0..MonthCount : FirstDay[k] \in Nat
    /\ FirstDay[0] = 0
    /\ \A k \in 0..(MonthCount - 1) : FirstDay[k] < FirstDay[k + 1]
    /\ Days = FirstDay[MonthCount] /\ Days \in Nat
<1>1. FirstDay \in [0..MonthCount -> Nat] /\ FirstDay[0] = 0
  BY FirstDayDef DEF AddsUp
<1>2. \A k \in 1..MonthCount : FirstDay[k] = FirstDay[k - 1] + Length(k - 1)
  BY FirstDayDef DEF AddsUp
<1>3. ASSUME NEW k \in 0..(MonthCount - 1) PROVE FirstDay[k] < FirstDay[k + 1]
  <2>1. k + 1 \in 1..MonthCount /\ (k + 1) - 1 = k /\ k \in 0..MonthCount /\ k + 1 \in 0..MonthCount
    BY MonthCountType
  <2>2. Length(k) \in Nat \ {0} /\ FirstDay[k] \in Nat
    BY <1>1, <2>1, LengthType
  <2>3. FirstDay[k + 1] = FirstDay[k] + Length(k)
    BY <1>2, <2>1
  <2> QED
    BY <2>2, <2>3
<1>4. MonthCount \in 0..MonthCount
  BY MonthCountType
<1> QED
  BY <1>1, <1>3, <1>4 DEF Days

\* Months follow each other.
LEMMA FirstDayIncreases ==
    ASSUME NEW j \in 0..MonthCount, NEW k \in 0..MonthCount, j < k
    PROVE  FirstDay[j] < FirstDay[k]
<1> DEFINE Good == {i \in Nat : j + 1 + i <= MonthCount => FirstDay[j] < FirstDay[j + 1 + i]}
<1>0. MonthCount \in Nat
  BY MonthCountType
<1>1. 0 \in Good
  <2> SUFFICES ASSUME j + 1 + 0 <= MonthCount PROVE FirstDay[j] < FirstDay[j + 1 + 0]
    OBVIOUS
  <2>1. j \in 0..(MonthCount - 1) /\ j + 1 + 0 = j + 1
    BY <1>0
  <2> QED
    BY <2>1, FirstDayTypes
<1>2. ASSUME NEW i \in Nat, i \in Good PROVE i + 1 \in Good
  <2> SUFFICES ASSUME j + 1 + (i + 1) <= MonthCount
               PROVE  FirstDay[j] < FirstDay[j + 1 + (i + 1)]
    OBVIOUS
  <2> DEFINE l == j + 1 + i
  <2>1. l \in 0..(MonthCount - 1) /\ l <= MonthCount /\ j + 1 + (i + 1) = l + 1 /\ l \in 0..MonthCount
        /\ l + 1 \in 0..MonthCount
    BY <1>0
  <2>2. FirstDay[j] < FirstDay[l]
    BY <1>2, <2>1
  <2> HIDE DEF l
  <2>3. FirstDay[l] < FirstDay[l + 1]
    BY <2>1, FirstDayTypes
  <2>4. FirstDay[j] \in Nat /\ FirstDay[l] \in Nat /\ FirstDay[l + 1] \in Nat
    BY <2>1, FirstDayTypes
  <2> QED
    BY <2>1, <2>2, <2>3, <2>4
<1> HIDE DEF Good
<1>3. Nat \subseteq Good
  BY <1>1, <1>2, Induction
<1>4. k - j - 1 \in Nat /\ j + 1 + (k - j - 1) = k
  BY <1>0
<1> QED
  BY <1>0, <1>3, <1>4 DEF Good

\* Day d is a day of month k.
InMonth(d, k) == k \in 0..(MonthCount - 1) /\ FirstDay[k] <= d /\ d < FirstDay[k + 1]

LEMMA MonthOfDay ==
    ASSUME NEW d \in 0..(Days - 1)
    PROVE  \E k \in 0..(MonthCount - 1) : InMonth(d, k)
<1> DEFINE Later == {k \in 0..MonthCount : d < FirstDay[k]}
<1>0. MonthCount \in Nat \ {0} /\ Days \in Nat /\ d \in Nat
  BY MonthCountType, FirstDayTypes
<1>1. MonthCount \in Later
  BY <1>0, FirstDayTypes
<1>2. Later \in SUBSET Nat
  BY <1>0
<1>3. PICK k \in Later : \A j \in Later : k <= j
  BY <1>1, <1>2, LeastElement
<1>4. k \in 0..MonthCount /\ d < FirstDay[k]
  BY <1>3
<1>5. k # 0
  BY <1>0, <1>4, FirstDayTypes
<1>6. k - 1 \in 0..(MonthCount - 1) /\ k - 1 \in 0..MonthCount /\ (k - 1) + 1 = k
  BY <1>0, <1>4, <1>5
<1>7. k - 1 \notin Later
  BY <1>3, <1>4, <1>6
<1>8. FirstDay[k - 1] <= d
  BY <1>0, <1>6, <1>7, FirstDayTypes
<1> QED
  BY <1>4, <1>6, <1>8 DEF InMonth

LEMMA MonthOfDayUnique ==
    ASSUME NEW d \in Nat, NEW j, NEW k, InMonth(d, j), InMonth(d, k)
    PROVE  j = k
<1>0. MonthCount \in Nat
  BY MonthCountType
<1>1. /\ j \in 0..(MonthCount - 1) /\ FirstDay[j] <= d /\ d < FirstDay[j + 1]
      /\ k \in 0..(MonthCount - 1) /\ FirstDay[k] <= d /\ d < FirstDay[k + 1]
  BY DEF InMonth
<1>2. ASSUME NEW a \in 0..(MonthCount - 1), NEW b \in 0..(MonthCount - 1), a < b
      PROVE  FirstDay[a + 1] <= FirstDay[b] /\ FirstDay[a + 1] \in Nat /\ FirstDay[b] \in Nat
  <2>1. a + 1 \in 0..MonthCount /\ b \in 0..MonthCount /\ (a + 1 = b \/ a + 1 < b)
    BY <1>0, <1>2
  <2>2. FirstDay[a + 1] \in Nat /\ FirstDay[b] \in Nat
    BY <2>1, FirstDayTypes
  <2> QED
    BY <2>1, <2>2, FirstDayIncreases
<1>3. ~(j < k)
  BY <1>1, <1>2
<1>4. ~(k < j)
  BY <1>1, <1>2
<1> QED
  BY <1>0, <1>1, <1>3, <1>4

-----------------------------------------------------------------------------
(* The clock on the wall *)

DayNo(u) == Wall(u) \div DayLen
HourNo(u) == Wall(u) \div HourLen
MinuteNo(u) == Wall(u) \div Seconds

\* The instants the calendar has a date for, and the number of their month.
Times == {u \in Nat : DayNo(u) < Days}
Ix(u) == (Year(u) * Months + Month(u)) - 1

\* The clock shows w at some time.
OnClock(w) == Gap = 0 \/ w < GapAt \/ w >= GapAt + Gap * HourLen

LEMMA WallType ==
    ASSUME NEW u \in Nat
    PROVE  Wall(u) \in Nat /\ Wall(u) >= u /\ OnClock(Wall(u))
BY UnitTypes DEF Wall, Summer, OnClock

LEMMA WallIncreases ==
    ASSUME NEW u \in Nat, NEW v \in Nat, u < v
    PROVE  Wall(u) < Wall(v)
BY UnitTypes DEF Wall, Summer

\* The order of the clock is the order of time.
LEMMA WallOrder ==
    ASSUME NEW u \in Nat, NEW v \in Nat
    PROVE  /\ Wall(u) < Wall(v) => u < v
           /\ Wall(u) = Wall(v) => u = v
           /\ u <= v => Wall(u) <= Wall(v)
<1>1. Wall(u) \in Nat /\ Wall(v) \in Nat
  BY WallType
<1>2. u < v => Wall(u) < Wall(v)
  BY WallIncreases
<1>3. v < u => Wall(v) < Wall(u)
  BY WallIncreases
<1> QED
  BY <1>1, <1>2, <1>3

\* time.Date finds the instant of a reading that the clock shows.
LEMMA FromWallIs ==
    ASSUME NEW w \in Nat, OnClock(w)
    PROVE  FromWall(w) \in Nat /\ Wall(FromWall(w)) = w
<1> DEFINE G == Gap * HourLen
<1>0. Gap \in Nat /\ GapAt \in Nat /\ G \in Nat /\ (Gap = 0 => G = 0)
  BY UnitTypes
<1> HIDE DEF G
<1>1. Gap = 0 \/ w < GapAt \/ w >= GapAt + G
  BY DEF OnClock, G
<1>2. CASE Gap = 0 \/ w < GapAt
  <2>1. ~Summer(w)
    BY <1>0, <1>2 DEF Summer
  <2>2. FromWall(w) = w
    BY <2>1 DEF FromWall
  <2> QED
    BY <2>1, <2>2 DEF Wall
<1>3. CASE Gap > 0 /\ w >= GapAt + G
  <2>1. Summer(w) /\ Summer(w - G)
    BY <1>0, <1>3 DEF Summer
  <2>2. FromWall(w) = w - G
    BY <2>1 DEF FromWall, G
  <2>3. w - G \in Nat
    BY <1>0, <1>3
  <2>4. Wall(w - G) = (w - G) + G
    BY <2>1 DEF Wall, G
  <2> QED
    BY <1>0, <2>2, <2>3, <2>4
<1> QED
  BY <1>0, <1>1, <1>2, <1>3

\* Midnight is on the clock, and so is the start of the hour or the minute.
LEMMA MidnightOnClock ==
    ASSUME GapInTheDay, NEW d \in Nat PROVE d * DayLen \in Nat /\ OnClock(d * DayLen)
<1> DEFINE G == Gap * HourLen
           q == GapAt \div DayLen
           r == GapAt % DayLen
<1>0. Gap \in Nat /\ GapAt \in Nat /\ G \in Nat /\ DayLen \in Nat \ {0}
  BY UnitTypes
<1>1. q \in Int /\ r \in 0..(DayLen - 1) /\ GapAt = DayLen * q + r
  BY <1>0, DivMod
<1>2. Gap = 0 \/ (r # 0 /\ r + G <= DayLen)
  BY DEF GapInTheDay
<1>3. OnClock(d * DayLen) <=> (Gap = 0 \/ d * DayLen < GapAt \/ d * DayLen >= GapAt + G)
  BY DEF OnClock
<1> HIDE DEF G, q, r
<1>4. CASE d <= q
  <2>1. DayLen * d <= DayLen * q /\ DayLen * d = d * DayLen /\ d * DayLen \in Nat
    BY <1>0, <1>1, <1>4
  <2> QED
    BY <1>0, <1>1, <1>2, <1>3, <2>1
<1>5. CASE d > q
  <2>1. DayLen * d >= DayLen * (q + 1) /\ DayLen * d = d * DayLen /\ d * DayLen \in Nat
    BY <1>0, <1>1, <1>5
  <2>2. DayLen * (q + 1) = DayLen * q + DayLen /\ DayLen * q \in Int
    BY <1>0, <1>1
  <2> QED
    BY <1>0, <1>1, <1>2, <1>3, <2>1, <2>2
<1> QED
  BY <1>1, <1>4, <1>5

\* A unit that the start and the length of the gap are multiples of: the hour
\* and the minute.
Steady(k) == k \in Nat \ {0} /\ (Gap = 0 \/ (GapAt % k = 0 /\ (Gap * HourLen) % k = 0))

LEMMA Multiple ==
    ASSUME NEW k \in Nat \ {0}, NEW a \in Int
    PROVE  k * a \in Int /\ (k * a) % k = 0 /\ (k * a) \div k = a
<1>1. 0 \in 0..(k - 1)
  OBVIOUS
<1>2. (k * a + 0) % k = 0 /\ (k * a + 0) \div k = a
  BY <1>1, DivModUnique
<1> QED
  BY <1>2

LEMMA AddMultiple ==
    ASSUME NEW k \in Nat \ {0}, NEW a \in Int, NEW b \in Int, b % k = 0
    PROVE  a + b \in Int /\ (a + b) % k = a % k
<1> DEFINE qa == a \div k
           ra == a % k
           qb == b \div k
<1>1. qa \in Int /\ ra \in 0..(k - 1) /\ a = k * qa + ra
  BY DivMod
<1>2. qb \in Int /\ b = k * qb + 0
  BY DivMod
<1> HIDE DEF qa, ra, qb
<1>3. a + b = k * (qa + qb) + ra /\ qa + qb \in Int
  BY <1>1, <1>2
<1>4. (k * (qa + qb) + ra) % k = ra
  BY <1>1, <1>3, DivModUnique
<1>5. (a + b) % k = ra
  BY <1>3, <1>4
<1> QED
  BY <1>5 DEF ra

LEMMA DivMonotone ==
    ASSUME NEW k \in Nat \ {0}, NEW a \in Int, NEW b \in Int, a <= b
    PROVE  a \div k \in Int /\ b \div k \in Int /\ a \div k <= b \div k
<1> DEFINE qa == a \div k
           ra == a % k
           qb == b \div k
           rb == b % k
<1>1. qa \in Int /\ ra \in 0..(k - 1) /\ a = k * qa + ra
  BY DivMod
<1>2. qb \in Int /\ rb \in 0..(k - 1) /\ b = k * qb + rb
  BY DivMod
<1> HIDE DEF qa, ra, qb, rb
<1>3. ASSUME qa > qb PROVE FALSE
  <2>1. k * qa >= k * (qb + 1)
    BY <1>1, <1>2, <1>3
  <2> QED
    BY <1>1, <1>2, <2>1
<1>4. qa <= qb
  BY <1>1, <1>2, <1>3
<1> QED
  BY <1>1, <1>2, <1>4 DEF qa, qb

LEMMA HoursAndMinutesSteady ==
    ASSUME GapInTheDay PROVE Steady(HourLen) /\ Steady(Seconds)
<1>0. HourLen \in Nat \ {0} /\ Seconds \in Nat \ {0} /\ Minutes \in Nat \ {0} /\ Gap \in Nat
      /\ GapAt \in Nat /\ HourLen = Seconds * Minutes
  BY UnitTypes
<1>1. Gap = 0 \/ GapAt % HourLen = 0
  BY DEF GapInTheDay
<1>2. (HourLen * Gap) % HourLen = 0 /\ HourLen * Gap = Gap * HourLen
  <2>1. HourLen \in Nat \ {0} /\ Gap \in Int
    BY <1>0
  <2>2. (HourLen * Gap) % HourLen = 0
    BY <2>1, Multiple
  <2>3. HourLen * Gap = Gap * HourLen
    BY <2>1
  <2> QED
    BY <2>2, <2>3
<1>3. (Seconds * (Minutes * Gap)) % Seconds = 0
  <2>1. Minutes * Gap \in Int
    BY <1>0
  <2> QED
    BY <1>0, <2>1, Multiple
<1>4. Seconds * (Minutes * Gap) = Gap * HourLen
  BY <1>0
<1>5. GapAt % HourLen = 0 => GapAt % Seconds = 0
  <2> SUFFICES ASSUME GapAt % HourLen = 0 PROVE GapAt % Seconds = 0
    OBVIOUS
  <2> DEFINE g == GapAt \div HourLen
  <2>1. g \in Int /\ GapAt = HourLen * g
    <3>1. GapAt \in Int /\ HourLen \in Nat \ {0}
      BY <1>0
    <3>2. g \in Int /\ GapAt = HourLen * g + (GapAt % HourLen)
      BY <3>1, DivMod
    <3> HIDE DEF g
    <3> QED
      BY <3>1, <3>2
  <2> HIDE DEF g
  <2>2. Minutes * g \in Int /\ GapAt = Seconds * (Minutes * g)
    BY <1>0, <2>1
  <2>3. (Seconds * (Minutes * g)) % Seconds = 0
    BY <1>0, <2>2, Multiple
  <2> QED
    BY <2>2, <2>3, Zenon
<1> QED
  BY <1>0, <1>1, <1>2, <1>3, <1>4, <1>5 DEF Steady

\* Going back to the start of a steady unit does not cross the gap; neither
\* does the rest of the unit, and what follows is another unit.
LEMMA SteadyUnit ==
    ASSUME NEW k, Steady(k), NEW u \in Nat
    PROVE  LET r == Wall(u) % k
               e == (u - r) + k
           IN  /\ r \in 0..(k - 1) /\ Wall(u) - r \in Nat /\ OnClock(Wall(u) - r)
               /\ FromWall(Wall(u) - r) = u - r
               /\ e \in Nat /\ e > u
               /\ \A v \in u..(e - 1) : Wall(v) \div k = Wall(u) \div k
               /\ Wall(e) \div k # Wall(u) \div k
<1> DEFINE w == Wall(u)
           q == w \div k
           r == w % k
           e == (u - r) + k
           G == Gap * HourLen
           H == GapAt + G
<1>0. k \in Nat \ {0} /\ Gap \in Nat /\ GapAt \in Nat /\ G \in Nat /\ (Gap = 0 => G = 0)
  BY UnitTypes DEF Steady
<1>1. w \in Nat /\ w >= u /\ OnClock(w)
  BY WallType
<1>2. q \in Int /\ r \in 0..(k - 1) /\ w = k * q + r
  <2>1. w \in Int /\ k \in Nat \ {0}
    BY <1>0, <1>1
  <2> HIDE DEF w
  <2> QED
    BY <2>1, DivMod
<1>3. Gap # 0 => /\ GapAt = k * (GapAt \div k) /\ GapAt \div k \in Int
                 /\ H = k * (H \div k) /\ H \div k \in Int
  <2> SUFFICES ASSUME Gap # 0
               PROVE /\ GapAt = k * (GapAt \div k) /\ GapAt \div k \in Int
                     /\ H = k * (H \div k) /\ H \div k \in Int
    OBVIOUS
  <2>1. GapAt % k = 0 /\ G % k = 0
    BY DEF Steady
  <2> HIDE DEF G
  <2>2. H \in Int /\ H % k = 0
    <3>1. GapAt \in Int /\ G \in Int /\ k \in Nat \ {0}
      BY <1>0
    <3> QED
      BY <2>1, <3>1, AddMultiple
  <2> HIDE DEF H
  <2>3. GapAt \in Int
    BY <1>0
  <2>4. H = k * (H \div k) + (H % k) /\ H \div k \in Int
    BY <1>0, <2>2, DivMod
  <2>5. GapAt = k * (GapAt \div k) + (GapAt % k) /\ GapAt \div k \in Int
    BY <1>0, <2>3, DivMod
  <2>6. k * (H \div k) \in Int /\ k * (GapAt \div k) \in Int
    BY <1>0, <2>4, <2>5
  <2> QED
    BY <2>1, <2>2, <2>4, <2>5, <2>6
<1>4. w = IF Gap > 0 /\ u >= GapAt THEN u + G ELSE u
  BY DEF Wall, Summer
<1>5. \A a \in Int, b \in Int : a * k <= b * k + k - 1 => a <= b
  <2> SUFFICES ASSUME NEW a \in Int, NEW b \in Int, a > b PROVE a * k >= b * k + k
    BY <1>0
  <2>1. k * a >= k * (b + 1)
    BY <1>0
  <2> QED
    BY <1>0, <2>1
<1> HIDE DEF w, q, r, e, G, H
\* The start of the unit is on the same side of the gap.
<1>6. Gap > 0 /\ u >= GapAt => w - r >= GapAt + G
  <2> SUFFICES ASSUME Gap > 0, u >= GapAt PROVE w - r >= GapAt + G
    OBVIOUS
  <2>1. H = GapAt + G /\ H = k * (H \div k) /\ H \div k \in Int
    BY <1>0, <1>3 DEF H
  <2>2. H <= w
    BY <1>0, <1>4, <2>1
  <2>3. H \div k <= q
    <3> DEFINE h == H \div k
    <3> HIDE DEF h
    <3>1. h \in Int /\ h * k <= q * k + k - 1
      BY <1>0, <1>2, <2>1, <2>2 DEF h
    <3> QED
      BY <1>2, <1>5, <3>1 DEF h
  <2>4. k * (H \div k) <= k * q
    BY <1>0, <1>2, <2>1, <2>3
  <2> QED
    BY <1>0, <1>1, <1>2, <2>1, <2>4
<1>7. w - r \in Nat /\ u - r \in Int
  <2>1. q >= 0
    <3>1. 0 * k <= q * k + k - 1
      BY <1>0, <1>1, <1>2
    <3> QED
      BY <1>2, <1>5, <3>1
  <2>2. k * q >= 0 /\ k * q \in Int
    BY <1>0, <1>2, <2>1
  <2> QED
    BY <1>0, <1>1, <1>2, <2>2
<1>8. OnClock(w - r) /\ FromWall(w - r) = u - r /\ u - r \in Nat
  <2>1. CASE Gap > 0 /\ u >= GapAt
    <3>1. w - r >= GapAt + G /\ w = u + G
      BY <1>4, <1>6, <2>1
    <3>2. OnClock(w - r)
      BY <3>1 DEF OnClock, G
    <3>3. Summer(w - r) /\ Summer((w - r) - G)
      BY <1>0, <1>7, <2>1, <3>1 DEF Summer
    <3>4. FromWall(w - r) = (w - r) - G
      BY <3>3 DEF FromWall, G
    <3> QED
      BY <1>0, <1>1, <1>2, <1>7, <3>1, <3>2, <3>4
  <2>2. CASE Gap = 0 \/ u < GapAt
    <3>1. w = u
      BY <1>0, <1>4, <2>2
    <3>2. OnClock(w - r)
      BY <1>0, <1>1, <1>2, <2>2, <3>1 DEF OnClock
    <3>3. ~Summer(w - r)
      BY <1>0, <1>1, <1>2, <2>2, <3>1 DEF Summer
    <3>4. FromWall(w - r) = w - r
      BY <3>3 DEF FromWall
    <3> QED
      BY <1>7, <3>1, <3>2, <3>4
  <2> QED
    BY <1>0, <2>1, <2>2
<1>9. e \in Nat /\ e > u /\ e = (u - r) + k
  BY <1>0, <1>2, <1>8 DEF e
\* Neither does the rest of the unit cross the gap.
<1>10. Gap > 0 /\ u < GapAt => e <= GapAt
  <2> SUFFICES ASSUME Gap > 0, u < GapAt PROVE e <= GapAt
    OBVIOUS
  <2> DEFINE g == GapAt \div k
  <2>1. GapAt = k * g /\ g \in Int
    BY <1>0, <1>3
  <2> HIDE DEF g
  <2>2. w = u
    BY <1>0, <1>4
  <2>3. ~(g <= q)
    <3> SUFFICES ASSUME g <= q PROVE FALSE
      OBVIOUS
    <3>1. k * g <= k * q
      BY <1>0, <1>2, <2>1
    <3> QED
      BY <1>0, <1>2, <2>1, <2>2, <3>1
  <2>4. k * (q + 1) <= k * g
    BY <1>0, <1>2, <2>1, <2>3
  <2>5. k * (q + 1) = k * q + k /\ k * q \in Int
    BY <1>0, <1>2
  <2> QED
    BY <1>0, <1>2, <1>9, <2>1, <2>2, <2>4, <2>5
<1>11. ASSUME NEW v \in u..(e - 1) PROVE Wall(v) \div k = q
  <2>1. Wall(v) = w + (v - u)
    <3>1. Wall(v) = IF Gap > 0 /\ v >= GapAt THEN v + G ELSE v
      BY DEF Wall, Summer, G
    <3> QED
      BY <1>0, <1>4, <1>9, <1>10, <3>1
  <2>2. Wall(v) = k * q + (r + (v - u)) /\ r + (v - u) \in 0..(k - 1)
    <3>1. k * q \in Int
      BY <1>0, <1>2
    <3> QED
      BY <1>0, <1>1, <1>2, <1>9, <2>1, <3>1
  <2> QED
    BY <1>0, <1>2, <2>2, DivModUnique
<1>12. Wall(e) \div k # q
  <2>1. Wall(e) = (IF Gap > 0 /\ e >= GapAt THEN e + G ELSE e) /\ Wall(e) \in Nat
    BY <1>9, WallType DEF Wall, Summer, G
  <2>2. Wall(e) >= w + (k - r)
    BY <1>0, <1>2, <1>4, <1>9, <2>1
  <2>3. k * q \in Int /\ k * (q + 1) = k * q + k /\ k * (q + 1) \in Int
    BY <1>0, <1>2
  <2>4. Wall(e) >= k * (q + 1)
    BY <1>0, <1>1, <1>2, <2>1, <2>2, <2>3
  <2>5. (k * (q + 1)) \div k <= Wall(e) \div k
    BY <1>0, <2>1, <2>3, <2>4, DivMonotone
  <2>6. (k * (q + 1)) \div k = q + 1
    BY <1>0, <1>2, Multiple
  <2>7. Wall(e) \div k \in Int
    <3>1. k \in Nat \ {0} /\ Wall(e) \in Int
      BY <1>0, <2>1
    <3> QED
      BY <3>1, DivMod, Zenon
  <2> DEFINE p == Wall(e) \div k
  <2>8. q + 1 <= p /\ p \in Int
    BY <2>5, <2>6, <2>7, Zenon
  <2> HIDE DEF p
  <2>9. p # q
    BY <1>2, <2>8
  <2> QED
    BY <2>9 DEF p
<1> QED
  BY <1>2, <1>7, <1>8, <1>9, <1>11, <1>12 DEF w, q, r, e

\* The first instant of a unit: the clock shows its start.
LEMMA UnitStart ==
    ASSUME NEW k \in Nat \ {0}, NEW u \in Nat, OnClock(Wall(u) - (Wall(u) % k)),
           u = 0 \/ Wall(u - 1) \div k # Wall(u) \div k
    PROVE  Wall(u) % k = 0
<1> DEFINE w == Wall(u)
           q == w \div k
           r == w % k
           z == FromWall(w - r)
<1>1. w \in Nat
  BY WallType
<1>2. q \in Int /\ r \in 0..(k - 1) /\ w = k * q + r
  <2>1. w \in Int
    BY <1>1
  <2> HIDE DEF w
  <2> QED
    BY <2>1, DivMod
<1>3. w - r \in Nat /\ w - r = k * q
  <2> HIDE DEF w, q, r
  <2>1. q >= 0
    <3>1. ASSUME q < 0 PROVE FALSE
      <4>1. k * q <= k * (0 - 1)
        BY <1>2, <3>1
      <4> QED
        BY <1>1, <1>2, <4>1
    <3> QED
      BY <1>2, <3>1
  <2>2. k * q >= 0 /\ k * q \in Int
    BY <1>2, <2>1
  <2> QED
    BY <1>1, <1>2, <2>2
<1>4. z \in Nat /\ Wall(z) = w - r
  BY <1>3, FromWallIs
<1> HIDE DEF z
<1>5. SUFFICES ASSUME r # 0 PROVE FALSE
  OBVIOUS
<1>6. z < u
  <2>1. Wall(z) < Wall(u)
    <3> HIDE DEF r
    <3> QED
      BY <1>1, <1>2, <1>4, <1>5
  <2> QED
    BY <1>4, <2>1, WallOrder
<1>7. u # 0 /\ u - 1 \in Nat /\ z <= u - 1 /\ u - 1 <= u
  BY <1>4, <1>6
<1>8. Wall(z) <= Wall(u - 1) /\ Wall(u - 1) <= Wall(u) /\ Wall(u - 1) \in Nat
  BY <1>4, <1>7, WallOrder, WallType
<1>9. Wall(z) \div k = q
  <2>1. Wall(z) = k * q
    BY <1>3, <1>4
  <2> HIDE DEF q
  <2> QED
    BY <1>2, <2>1, Multiple
<1>10. Wall(u - 1) \div k <= q
  BY <1>1, <1>8, DivMonotone
<1>11. q <= Wall(u - 1) \div k /\ Wall(u - 1) \div k \in Int
  <2>1. Wall(z) \in Int /\ Wall(u - 1) \in Int
    BY <1>4, <1>3, <1>8
  <2>2. Wall(z) \div k <= Wall(u - 1) \div k /\ Wall(u - 1) \div k \in Int
    BY <1>8, <2>1, DivMonotone
  <2> QED
    BY <1>9, <2>2
<1>12. Wall(u - 1) \div k = q
  <2> DEFINE p == Wall(u - 1) \div k
  <2>1. p <= q /\ q <= p /\ p \in Int /\ q \in Int
    BY <1>2, <1>10, <1>11
  <2> HIDE DEF p, q
  <2>2. p = q
    BY <2>1
  <2> QED
    BY <2>2 DEF p
<1> QED
  BY <1>7, <1>12

-----------------------------------------------------------------------------
(* Dates *)

LEMMA DayNoType ==
    ASSUME NEW u \in Nat PROVE DayNo(u) \in Nat /\ HourNo(u) \in Nat /\ MinuteNo(u) \in Nat
<1>1. Wall(u) \in Nat /\ DayLen \in Nat \ {0} /\ HourLen \in Nat \ {0} /\ Seconds \in Nat \ {0}
  BY WallType, UnitTypes
<1>2. ASSUME NEW k \in Nat \ {0} PROVE Wall(u) \div k \in Nat
  <2>1. 0 \div k = 0
    BY ModSmall
  <2>2. 0 \div k <= Wall(u) \div k /\ Wall(u) \div k \in Int
    BY <1>1, DivMonotone
  <2> QED
    BY <2>1, <2>2
<1> QED
  BY <1>1, <1>2 DEF DayNo, HourNo, MinuteNo

\* The date of an instant: its day is a day of its month.
LEMMA CivilIs ==
    ASSUME NEW u \in Times
    PROVE  /\ u \in Nat /\ InMonth(DayNo(u), Ix(u)) /\ Ix(u) \in 0..(MonthCount - 1)
           /\ Year(u) = Ix(u) \div Months /\ Year(u) \in 0..LastYear
           /\ Month(u) = (Ix(u) % Months) + 1 /\ Month(u) \in 1..Months
           /\ Day(u) = (DayNo(u) - FirstDay[Ix(u)]) + 1
<1> DEFINE d == DayNo(u)
           k == CHOOSE x \in 0..(MonthCount - 1) : FirstDay[x] <= d /\ d < FirstDay[x + 1]
<1>1. u \in Nat /\ d \in Nat /\ d < Days /\ Days \in Nat
  BY DayNoType, FirstDayTypes DEF Times
<1>2. d \in 0..(Days - 1)
  BY <1>1
<1>3. Civil[d] = [year |-> k \div Months, month |-> (k % Months) + 1, day |-> (d - FirstDay[k]) + 1]
  BY <1>2 DEF Civil
<1>4. \E x \in 0..(MonthCount - 1) : FirstDay[x] <= d /\ d < FirstDay[x + 1]
  <2>1. \E x \in 0..(MonthCount - 1) : InMonth(d, x)
    BY <1>2, MonthOfDay
  <2> QED
    BY <2>1 DEF InMonth
<1>5. k \in 0..(MonthCount - 1) /\ FirstDay[k] <= d /\ d < FirstDay[k + 1]
  BY <1>4, Zenon
<1> HIDE DEF k
<1>6. /\ Year(u) = k \div Months /\ Month(u) = (k % Months) + 1
      /\ Day(u) = (d - FirstDay[k]) + 1
  BY <1>3 DEF Year, Month, Day, Date, DayNo
<1>7. /\ k \div Months \in 0..LastYear /\ (k % Months) + 1 \in 1..Months
      /\ k = ((k \div Months) * Months + ((k % Months) + 1)) - 1
  BY <1>5, YearOfMonth
<1>8. Ix(u) = k
  BY <1>6, <1>7 DEF Ix
<1> QED
  BY <1>1, <1>5, <1>6, <1>7, <1>8 DEF InMonth

\* Instants of the same day have the same date.
LEMMA SameDay ==
    ASSUME NEW u \in Times, NEW v \in Nat, DayNo(v) = DayNo(u)
    PROVE  /\ v \in Times /\ Ix(v) = Ix(u) /\ Month(v) = Month(u) /\ Day(v) = Day(u)
           /\ Year(v) = Year(u) /\ Weekday(v) = Weekday(u)
BY DEF Times, DayNo, Ix, Year, Month, Day, Date, Weekday

\* The date goes on with time.
LEMMA DatesOrder ==
    ASSUME NEW u \in Nat, NEW v \in Times, u <= v
    PROVE  /\ u \in Times /\ DayNo(u) <= DayNo(v) /\ Ix(u) <= Ix(v) /\ Year(u) <= Year(v)
<1>0. v \in Nat /\ DayNo(v) < Days /\ Days \in Nat /\ DayNo(u) \in Nat /\ DayNo(v) \in Nat
  BY DayNoType, FirstDayTypes DEF Times
<1>1. DayNo(u) <= DayNo(v)
  <2>1. Wall(u) <= Wall(v) /\ Wall(u) \in Int /\ Wall(v) \in Int /\ DayLen \in Nat \ {0}
    BY <1>0, WallOrder, WallType, UnitTypes
  <2> QED
    BY <2>1, DivMonotone DEF DayNo
<1>2. u \in Times
  BY <1>0, <1>1 DEF Times
<1>3. /\ Ix(u) \in 0..(MonthCount - 1) /\ FirstDay[Ix(u)] <= DayNo(u)
      /\ Year(u) = Ix(u) \div Months
  BY <1>2, CivilIs DEF InMonth
<1>4. /\ Ix(v) \in 0..(MonthCount - 1) /\ DayNo(v) < FirstDay[Ix(v) + 1]
      /\ Year(v) = Ix(v) \div Months
  BY CivilIs DEF InMonth
<1>5. MonthCount \in Nat \ {0}
  BY MonthCountType
<1>6. ASSUME Ix(u) > Ix(v) PROVE FALSE
  <2>1. Ix(v) + 1 \in 0..MonthCount /\ Ix(u) \in 0..MonthCount /\ (Ix(v) + 1 = Ix(u) \/ Ix(v) + 1 < Ix(u))
    BY <1>3, <1>4, <1>5, <1>6
  <2>2. FirstDay[Ix(v) + 1] \in Nat /\ FirstDay[Ix(u)] \in Nat
    BY <2>1, FirstDayTypes
  <2>3. FirstDay[Ix(v) + 1] <= FirstDay[Ix(u)]
    BY <2>1, <2>2, FirstDayIncreases
  <2> QED
    BY <1>0, <1>1, <1>3, <1>4, <2>2, <2>3
<1>7. Ix(u) <= Ix(v) /\ Ix(u) \in Int /\ Ix(v) \in Int
  BY <1>3, <1>4, <1>5, <1>6
<1>8. Year(u) <= Year(v)
  <2>1. Months \in Nat \ {0}
    BY UnitTypes
  <2> QED
    BY <1>3, <1>4, <1>7, <2>1, DivMonotone
<1> QED
  BY <1>1, <1>2, <1>7, <1>8

-----------------------------------------------------------------------------
(* Midnight, and the ends of months, days, hours and minutes *)

\* The instant at which day d begins.
Midnight(d) == FromWall(d * DayLen)

LEMMA MidnightIs ==
    ASSUME GapInTheDay, NEW d \in Nat
    PROVE  /\ Midnight(d) \in Nat /\ Wall(Midnight(d)) = d * DayLen
           /\ DayNo(Midnight(d)) = d /\ Wall(Midnight(d)) % DayLen = 0
           /\ \A v \in Nat : v < Midnight(d) <=> DayNo(v) < d
<1>0. DayLen \in Nat \ {0} /\ d \in Int /\ d * DayLen = DayLen * d
  BY UnitTypes
<1>1. d * DayLen \in Nat /\ OnClock(d * DayLen)
  BY MidnightOnClock
<1>2. Midnight(d) \in Nat /\ Wall(Midnight(d)) = d * DayLen
  BY <1>1, FromWallIs DEF Midnight
<1>3. DayNo(Midnight(d)) = d /\ Wall(Midnight(d)) % DayLen = 0
  <2>1. (DayLen * d) \div DayLen = d /\ (DayLen * d) % DayLen = 0
    BY <1>0, Multiple
  <2> QED
    BY <1>0, <1>2, <2>1 DEF DayNo
<1>4. ASSUME NEW v \in Nat PROVE v < Midnight(d) <=> DayNo(v) < d
  <2> DEFINE w == Wall(v)
             q == w \div DayLen
             r == w % DayLen
  <2>1. w \in Int
    BY WallType
  <2>2. q \in Int /\ r \in 0..(DayLen - 1) /\ w = DayLen * q + r
    <3> HIDE DEF w
    <3> QED
      BY <1>0, <2>1, DivMod
  <2>3. DayNo(v) = q
    BY DEF DayNo
  <2>4. v < Midnight(d) <=> w < d * DayLen
    <3>1. v < Midnight(d) => Wall(v) < Wall(Midnight(d))
      BY <1>2, WallIncreases
    <3>2. Wall(v) < Wall(Midnight(d)) => v < Midnight(d)
      BY <1>2, WallOrder
    <3> QED
      BY <1>2, <3>1, <3>2
  <2> HIDE DEF w, q, r
  <2>5. ASSUME q < d PROVE w < d * DayLen
    <3>1. DayLen * (q + 1) <= DayLen * d
      BY <1>0, <2>2, <2>5
    <3>2. DayLen * (q + 1) = DayLen * q + DayLen /\ DayLen * q \in Int
      BY <1>0, <2>2
    <3> QED
      BY <1>0, <2>1, <2>2, <3>1, <3>2
  <2>6. ASSUME q >= d PROVE w >= d * DayLen
    <3>1. DayLen * q >= DayLen * d
      BY <1>0, <2>2, <2>6
    <3> QED
      BY <1>0, <2>1, <2>2, <3>1
  <2> QED
    BY <1>0, <1>1, <2>1, <2>2, <2>3, <2>4, <2>5, <2>6
<1> QED
  BY <1>2, <1>3, <1>4

\* The first instants of months, days, hours and minutes.
MonthAligned(u) == u = 0 \/ Ix(u - 1) # Ix(u)
DayAligned(u) == u = 0 \/ DayNo(u - 1) # DayNo(u)
HourAligned(u) == u = 0 \/ HourNo(u - 1) # HourNo(u)
MinuteAligned(u) == u = 0 \/ MinuteNo(u - 1) # MinuteNo(u)

\* Hours make days, minutes make hours.
LEMMA ClockFields ==
    ASSUME NEW u \in Nat
    PROVE  /\ DayNo(u) = HourNo(u) \div Hours /\ Hour(u) = HourNo(u) % Hours
           /\ HourNo(u) = MinuteNo(u) \div Minutes /\ Minute(u) = MinuteNo(u) % Minutes
<1>1. Wall(u) \in Int
  BY WallType
<1>2. /\ HourLen \in Nat \ {0} /\ Hours \in Nat \ {0} /\ Seconds \in Nat \ {0} /\ Minutes \in Nat \ {0}
      /\ HourLen = Seconds * Minutes /\ DayLen = HourLen * Hours
  BY UnitTypes
<1>3. /\ Wall(u) \div (HourLen * Hours) = (Wall(u) \div HourLen) \div Hours
      /\ (Wall(u) % (HourLen * Hours)) \div HourLen = (Wall(u) \div HourLen) % Hours
  BY <1>1, <1>2, NestedDiv
<1>4. /\ Wall(u) \div (Seconds * Minutes) = (Wall(u) \div Seconds) \div Minutes
      /\ (Wall(u) % (Seconds * Minutes)) \div Seconds = (Wall(u) \div Seconds) % Minutes
  BY <1>1, <1>2, NestedDiv
<1>5. DayNo(u) = HourNo(u) \div Hours /\ Hour(u) = HourNo(u) % Hours
  BY <1>2, <1>3, Zenon DEF DayNo, HourNo, Hour
<1>6. HourNo(u) = MinuteNo(u) \div Minutes /\ Minute(u) = MinuteNo(u) % Minutes
  BY <1>2, <1>4, Zenon DEF MinuteNo, HourNo, Minute
<1> QED
  BY <1>5, <1>6

\* The start of a month is the start of a day, and so on down.
LEMMA AlignedDown ==
    ASSUME NEW u \in Times
    PROVE  /\ MonthAligned(u) => DayAligned(u)
           /\ DayAligned(u) => HourAligned(u)
           /\ HourAligned(u) => MinuteAligned(u)
<1>1. u \in Nat
  BY DEF Times
<1>2. CASE u = 0
  BY <1>2 DEF DayAligned, HourAligned, MinuteAligned
<1>3. CASE u # 0
  <2>1. u - 1 \in Nat
    BY <1>1, <1>3
  <2>2. DayNo(u - 1) = DayNo(u) => Ix(u - 1) = Ix(u)
    BY <2>1, SameDay
  <2>3. HourNo(u - 1) = HourNo(u) => DayNo(u - 1) = DayNo(u)
    BY <1>1, <2>1, ClockFields, Zenon
  <2>4. MinuteNo(u - 1) = MinuteNo(u) => HourNo(u - 1) = HourNo(u)
    BY <1>1, <2>1, ClockFields, Zenon
  <2> QED
    BY <1>3, <2>2, <2>3, <2>4, Zenon DEF MonthAligned, DayAligned, HourAligned, MinuteAligned
<1> QED
  BY <1>2, <1>3

\* At the start of a unit the units below show their first value.
LEMMA AlignedFields ==
    ASSUME GapInTheDay, NEW u \in Times
    PROVE  /\ DayAligned(u) => Wall(u) % DayLen = 0 /\ Hour(u) = 0
           /\ HourAligned(u) => Wall(u) % HourLen = 0 /\ Minute(u) = 0
           /\ MinuteAligned(u) => Wall(u) % Seconds = 0 /\ Second(u) = 0
           /\ MonthAligned(u) => u = Midnight(FirstDay[Ix(u)]) /\ Day(u) = 1
<1>0. u \in Nat /\ DayLen \in Nat \ {0} /\ HourLen \in Nat \ {0} /\ Seconds \in Nat \ {0}
      /\ Wall(u) \in Nat /\ Wall(u) \in Int
  BY UnitTypes, WallType DEF Times
<1>1. DayAligned(u) => Wall(u) % DayLen = 0
  <2>1. Wall(u) - (Wall(u) % DayLen) = DayNo(u) * DayLen /\ DayNo(u) \in Nat
    <3> DEFINE w == Wall(u)
               q == w \div DayLen
               r == w % DayLen
    <3>1. q \in Int /\ r \in 0..(DayLen - 1) /\ w = DayLen * q + r
      <4>1. w \in Int
        BY <1>0
      <4> HIDE DEF w
      <4> QED
        BY <1>0, <4>1, DivMod
    <3>2. DayNo(u) = q
      BY DEF DayNo
    <3> HIDE DEF w, q, r
    <3>3. w - r = q * DayLen
      BY <1>0, <3>1
    <3> QED
      BY <1>0, <3>2, <3>3, DayNoType DEF w, r
  <2>2. OnClock(Wall(u) - (Wall(u) % DayLen))
    BY <2>1, MidnightOnClock
  <2> QED
    BY <1>0, <2>2, UnitStart DEF DayAligned, DayNo
<1>2. HourAligned(u) => Wall(u) % HourLen = 0
  <2>1. OnClock(Wall(u) - (Wall(u) % HourLen))
    BY <1>0, HoursAndMinutesSteady, SteadyUnit
  <2> QED
    BY <1>0, <2>1, UnitStart DEF HourAligned, HourNo
<1>3. MinuteAligned(u) => Wall(u) % Seconds = 0
  <2>1. OnClock(Wall(u) - (Wall(u) % Seconds))
    BY <1>0, HoursAndMinutesSteady, SteadyUnit
  <2> QED
    BY <1>0, <2>1, UnitStart DEF MinuteAligned, MinuteNo
<1>4. 0 \div HourLen = 0 /\ 0 \div Seconds = 0
  BY <1>0, ModSmall
<1>5. MonthAligned(u) => u = Midnight(FirstDay[Ix(u)]) /\ Day(u) = 1
  <2> DEFINE f == FirstDay[Ix(u)]
  <2>1. /\ f \in Nat /\ DayNo(u) \in Nat /\ f <= DayNo(u) /\ Ix(u) \in 0..(MonthCount - 1)
        /\ Day(u) = (DayNo(u) - f) + 1 /\ DayNo(u) < FirstDay[Ix(u) + 1]
        /\ FirstDay[Ix(u) + 1] \in Nat
    <3>1. /\ InMonth(DayNo(u), Ix(u)) /\ Day(u) = (DayNo(u) - f) + 1
          /\ Ix(u) \in 0..(MonthCount - 1)
      BY CivilIs
    <3>2. Ix(u) \in 0..MonthCount /\ Ix(u) + 1 \in 0..MonthCount
      BY <3>1, MonthCountType
    <3> QED
      BY <1>0, <3>1, <3>2, FirstDayTypes, DayNoType DEF InMonth
  <2> HIDE DEF f
  <2>2. /\ Midnight(f) \in Nat /\ DayNo(Midnight(f)) = f
        /\ \A v \in Nat : v < Midnight(f) <=> DayNo(v) < f
    BY <2>1, MidnightIs
  <2>3. ~(u < Midnight(f))
    BY <1>0, <2>1, <2>2
  <2> SUFFICES ASSUME MonthAligned(u) PROVE u = Midnight(f) /\ Day(u) = 1
    BY DEF f
  <2>4. u = Midnight(f)
    <3> SUFFICES ASSUME u > Midnight(f) PROVE FALSE
      BY <1>0, <2>2, <2>3
    <3>1. u - 1 \in Nat /\ u - 1 <= u /\ ~(u - 1 < Midnight(f)) /\ u # 0
      BY <1>0, <2>2
    <3>2. u - 1 \in Times /\ DayNo(u - 1) <= DayNo(u) /\ DayNo(u - 1) \in Nat
      BY <3>1, DatesOrder, DayNoType
    <3>3. f <= DayNo(u - 1)
      BY <2>1, <2>2, <3>1, <3>2
    <3>4. InMonth(DayNo(u - 1), Ix(u))
      BY <2>1, <3>2, <3>3 DEF InMonth, f
    <3>5. InMonth(DayNo(u - 1), Ix(u - 1))
      BY <3>2, CivilIs
    <3>6. Ix(u - 1) = Ix(u)
      BY <3>2, <3>4, <3>5, MonthOfDayUnique
    <3> QED
      BY <3>1, <3>6 DEF MonthAligned
  <2>5. DayNo(u) = f
    BY <2>2, <2>4
  <2> QED
    BY <2>1, <2>4, <2>5
<1> QED
  BY <1>1, <1>2, <1>3, <1>4, <1>5 DEF Hour, Minute, Second

\* The next month begins at the midnight the code computes from the start of
\* this one.
LEMMA MonthEnd ==
    ASSUME GapInTheDay, NEW u \in Times, Ix(u) < MonthCount - 1
    PROVE  LET e == AddMonth(MonthStart(u))
           IN  /\ e \in Times /\ e > u /\ Ix(e) = Ix(u) + 1 /\ MonthAligned(e)
               /\ \A v \in u..(e - 1) : v \in Times /\ Ix(v) = Ix(u)
               /\ MonthAligned(u) => MonthStart(u) = u
<1> DEFINE k == Ix(u)
           f == FirstDay[k]
           g == FirstDay[k + 1]
           b == Midnight(f)
           e == Midnight(g)
<1>0. MonthCount \in Nat \ {0} /\ Days \in Nat /\ DayLen \in Nat \ {0}
  BY MonthCountType, FirstDayTypes, UnitTypes
<1>1. k \in 0..(MonthCount - 1) /\ InMonth(DayNo(u), k) /\ u \in Nat /\ DayNo(u) \in Nat
  BY CivilIs, DayNoType DEF Times
<1>2. k + 1 \in 0..(MonthCount - 1) /\ k \in 0..MonthCount /\ k + 1 \in 0..MonthCount
      /\ (k + 1) + 1 \in 0..MonthCount /\ MonthCount \in 0..MonthCount
  <2> HIDE DEF k
  <2>1. k < MonthCount - 1
    BY DEF k
  <2> QED
    BY <1>0, <1>1, <2>1
<1> HIDE DEF k
<1>3. /\ f \in Nat /\ g \in Nat /\ f < g /\ FirstDay[(k + 1) + 1] \in Nat
      /\ g < FirstDay[(k + 1) + 1] /\ f <= DayNo(u) /\ DayNo(u) < g
  BY <1>1, <1>2, FirstDayTypes DEF InMonth
<1>4. FirstDay[(k + 1) + 1] <= Days
  <2>1. (k + 1) + 1 = MonthCount \/ (k + 1) + 1 < MonthCount
    BY <1>0, <1>2
  <2>2. (k + 1) + 1 < MonthCount => FirstDay[(k + 1) + 1] < FirstDay[MonthCount]
    BY <1>2, FirstDayIncreases
  <2> QED
    BY <1>0, <1>3, <2>1, <2>2, FirstDayTypes
<1>5. InMonth(f, k) /\ InMonth(g, k + 1)
  BY <1>1, <1>2, <1>3 DEF InMonth
<1> HIDE DEF f, g
<1>6. /\ b \in Nat /\ DayNo(b) = f /\ Wall(b) % DayLen = 0
      /\ \A v \in Nat : v < b <=> DayNo(v) < f
  BY <1>3, MidnightIs
<1>7. /\ e \in Nat /\ DayNo(e) = g
      /\ \A v \in Nat : v < e <=> DayNo(v) < g
  BY <1>3, MidnightIs
<1> HIDE DEF b, e
<1>8. b \in Times /\ e \in Times
  BY <1>0, <1>3, <1>4, <1>6, <1>7 DEF Times
<1>9. Ix(b) = k /\ Ix(e) = k + 1
  BY <1>3, <1>5, <1>6, <1>7, <1>8, CivilIs, MonthOfDayUnique
<1>10. Day(b) = 1
  BY <1>3, <1>6, <1>8, <1>9, CivilIs DEF f
<1>11. MonthStart(u) = b
  BY DEF MonthStart, Midnight, Ix, b, f, k
<1>12. AddMonth(b) = e
  <2>1. Year(b) * Months + Month(b) = k + 1
    <3>1. Year(b) \in Nat /\ Month(b) \in Nat /\ Months \in Nat
      BY <1>8, CivilIs, UnitTypes
    <3>2. Year(b) * Months \in Nat /\ (Year(b) * Months + Month(b)) - 1 = k
      BY <1>9, <3>1 DEF Ix
    <3> QED
      BY <1>2, <3>1, <3>2
  <2>2. AddMonth(b) = FromWall((g + 1 - 1) * DayLen + 0)
    BY <1>6, <1>10, <2>1 DEF AddMonth, g
  <2>3. (g + 1 - 1) * DayLen + 0 = g * DayLen
    BY <1>0, <1>3
  <2> QED
    BY <2>2, <2>3 DEF e, Midnight
<1>13. e > u
  BY <1>1, <1>3, <1>7
<1>14. ASSUME NEW v \in u..(e - 1) PROVE v \in Times /\ Ix(v) = k
  <2>1. v \in Nat /\ u <= v /\ v <= e /\ v < e
    BY <1>1, <1>7
  <2>2. v \in Times /\ DayNo(u) <= DayNo(v) /\ DayNo(v) \in Nat
    <3>1. v \in Times
      BY <1>8, <2>1, DatesOrder
    <3> QED
      BY <1>1, <2>1, <3>1, DatesOrder, DayNoType
  <2>3. InMonth(DayNo(v), k)
    <3>1. DayNo(v) < g /\ f <= DayNo(v)
      BY <1>1, <1>3, <1>7, <2>1, <2>2
    <3> QED
      BY <1>1, <3>1 DEF InMonth, f, g
  <2> QED
    BY <2>2, <2>3, CivilIs, MonthOfDayUnique
<1>15. MonthAligned(e)
  <2>1. e - 1 \in u..(e - 1)
    BY <1>1, <1>7, <1>13
  <2>2. Ix(e - 1) = k /\ Ix(e) = k + 1 /\ k \in Int
    BY <1>1, <1>9, <1>14, <2>1
  <2> QED
    BY <2>2 DEF MonthAligned
<1>16. MonthAligned(u) => b = u
  BY AlignedFields DEF b, f, k
<1> QED
  BY <1>8, <1>9, <1>11, <1>12, <1>13, <1>14, <1>15, <1>16 DEF k

\* The next day begins at the midnight the code computes from the start of
\* this one, in whatever way the clock is changed in between.
LEMMA DayEnd ==
    ASSUME GapInTheDay, NEW u \in Times
    PROVE  LET e == AddDay(DayStart(u))
           IN  /\ e \in Nat /\ e > u /\ DayNo(e) # DayNo(u)
               /\ \A v \in u..(e - 1) : DayNo(v) = DayNo(u)
               /\ DayAligned(u) => DayStart(u) = u
<1> DEFINE w == Wall(u)
           q == w \div DayLen
           r == w % DayLen
           b == Midnight(q)
           e == Midnight(q + 1)
<1>0. DayLen \in Nat \ {0} /\ u \in Nat /\ w \in Int
  BY UnitTypes, WallType DEF Times
<1>1. q \in Int /\ r \in 0..(DayLen - 1) /\ w = DayLen * q + r
  <2> HIDE DEF w
  <2> QED
    BY <1>0, DivMod
<1>2. DayNo(u) = q /\ q \in Nat
  BY <1>0, DayNoType DEF DayNo
<1>3. DayStart(u) = FromWall(w - r)
  BY DEF DayStart
<1>4. DayAligned(u) => r = 0
  BY AlignedFields
<1> HIDE DEF w, q, r
<1>5. w - r = q * DayLen /\ q * DayLen \in Nat /\ q * DayLen + DayLen = (q + 1) * DayLen
  BY <1>0, <1>1, <1>2
<1>6. DayStart(u) = b
  BY <1>3, <1>5 DEF Midnight
<1>7. b \in Nat /\ Wall(b) = q * DayLen
  BY <1>2, MidnightIs
<1>8. AddDay(b) = e
  BY <1>5, <1>7 DEF AddDay, Midnight
<1>9. q + 1 \in Nat
  BY <1>2
<1>10. /\ e \in Nat /\ DayNo(e) = q + 1
       /\ \A v \in Nat : v < e <=> DayNo(v) < q + 1
  BY <1>9, MidnightIs
<1>11. DayAligned(u) => b = u
  <2> SUFFICES ASSUME r = 0 PROVE b = u
    BY <1>4
  <2>1. Wall(b) = Wall(u)
    BY <1>0, <1>1, <1>2, <1>5, <1>7 DEF w
  <2> QED
    BY <1>0, <1>7, <2>1, WallOrder
<1> HIDE DEF b, e
<1>12. e > u /\ DayNo(e) # DayNo(u)
  BY <1>0, <1>2, <1>10
<1>13. ASSUME NEW v \in u..(e - 1) PROVE DayNo(v) = q
  <2>1. v \in Nat /\ u <= v /\ v < e
    BY <1>0, <1>10
  <2>2. DayNo(v) < q + 1 /\ DayNo(v) \in Nat
    BY <1>10, <2>1, DayNoType
  <2>3. DayNo(u) <= DayNo(v)
    <3>1. Wall(u) <= Wall(v) /\ Wall(u) \in Int /\ Wall(v) \in Int
      BY <1>0, <2>1, WallOrder, WallType
    <3> QED
      BY <1>0, <3>1, DivMonotone DEF DayNo
  <2> QED
    BY <1>2, <2>2, <2>3
<1> QED
  BY <1>2, <1>6, <1>8, <1>10, <1>11, <1>12, <1>13

LEMMA HourEnd ==
    ASSUME GapInTheDay, NEW u \in Times
    PROVE  LET e == HourStart(u) + HourLen
           IN  /\ e \in Nat /\ e > u /\ HourNo(e) # HourNo(u)
               /\ \A v \in u..(e - 1) : HourNo(v) = HourNo(u)
               /\ HourAligned(u) => HourStart(u) = u
<1>1. u \in Nat /\ Steady(HourLen)
  BY HoursAndMinutesSteady DEF Times
<1> DEFINE r == Wall(u) % HourLen
           e == (u - r) + HourLen
<1>2. /\ r \in 0..(HourLen - 1) /\ FromWall(Wall(u) - r) = u - r /\ e \in Nat /\ e > u
      /\ \A v \in u..(e - 1) : Wall(v) \div HourLen = Wall(u) \div HourLen
      /\ Wall(e) \div HourLen # Wall(u) \div HourLen
  BY <1>1, SteadyUnit
<1>3. HourStart(u) = u - r
  BY <1>2 DEF HourStart
<1>4. HourAligned(u) => r = 0
  BY AlignedFields
<1>5. HourAligned(u) => u - r = u
  BY <1>1, <1>2, <1>4
<1> HIDE DEF r
<1> QED
  BY <1>2, <1>3, <1>5 DEF HourNo

\* The code truncates the instant and not the clock reading: as the gap is a
\* number of whole minutes, that is the same.
LEMMA MinuteEnd ==
    ASSUME GapInTheDay, NEW u \in Times
    PROVE  LET b == u - (u % Seconds)
               e == b + Seconds
           IN  /\ e \in Nat /\ e > u /\ MinuteNo(e) # MinuteNo(u)
               /\ \A v \in u..(e - 1) : MinuteNo(v) = MinuteNo(u)
               /\ MinuteAligned(u) => b = u
<1>1. u \in Nat /\ Steady(Seconds) /\ Seconds \in Nat \ {0}
  BY HoursAndMinutesSteady, UnitTypes DEF Times
<1> DEFINE r == Wall(u) % Seconds
           e == (u - r) + Seconds
<1>2. /\ r \in 0..(Seconds - 1) /\ e \in Nat /\ e > u
      /\ \A v \in u..(e - 1) : Wall(v) \div Seconds = Wall(u) \div Seconds
      /\ Wall(e) \div Seconds # Wall(u) \div Seconds
  BY <1>1, SteadyUnit
<1>3. u % Seconds = r
  <2>1. CASE Summer(u)
    <3> DEFINE G == Gap * HourLen
    <3>1. Wall(u) = u + G /\ G \in Int /\ Gap # 0 /\ u \in Int
      BY <1>1, <2>1, UnitTypes DEF Wall, Summer
    <3>2. G % Seconds = 0
      BY <1>1, <3>1 DEF Steady
    <3> HIDE DEF G
    <3>3. (u + G) % Seconds = u % Seconds
      BY <1>1, <3>1, <3>2, AddMultiple
    <3> QED
      BY <3>1, <3>3
  <2>2. CASE ~Summer(u)
    BY <2>2 DEF Wall
  <2> QED
    BY <2>1, <2>2
<1>4. MinuteAligned(u) => r = 0
  BY AlignedFields
<1> HIDE DEF r
<1>5. MinuteAligned(u) => u - r = u
  BY <1>1, <1>2, <1>4
<1> QED
  BY <1>2, <1>3, <1>5 DEF MinuteNo

\* From one unit of time to the next: the calendar goes on, and a month, day,
\* hour or minute that is another one has just begun.
LEMMA UnitEnd ==
    ASSUME GapInTheDay, NEW u \in Times, Ix(u) < MonthCount - 1, NEW e \in Nat, e > u,
           DayNo(e - 1) = DayNo(u)
    PROVE  /\ e \in Times
           /\ Ix(e) = Ix(u) \/ MonthAligned(e)
           /\ DayNo(e) = DayNo(u) \/ DayAligned(e)
           /\ HourNo(e - 1) = HourNo(u) => HourNo(e) = HourNo(u) \/ HourAligned(e)
           /\ MinuteNo(e - 1) = MinuteNo(u) => MinuteNo(e) = MinuteNo(u) \/ MinuteAligned(e)
<1>1. e - 1 \in Nat /\ u \in Nat /\ (e - 1) + 1 = e
  BY DEF Times
<1>2. e - 1 \in Times /\ Ix(e - 1) = Ix(u)
  BY <1>1, SameDay
<1> DEFINE m == AddMonth(MonthStart(e - 1))
<1>3. m \in Times /\ m > e - 1
  BY <1>2, MonthEnd
<1> HIDE DEF m
<1>4. m \in Nat /\ e <= m
  BY <1>1, <1>3 DEF Times
<1>5. e \in Times
  BY <1>3, <1>4, DatesOrder
<1> QED
  BY <1>2, <1>5 DEF MonthAligned, DayAligned, HourAligned, MinuteAligned

-----------------------------------------------------------------------------
(* The search *)

LEMMA DayRule == ASSUME NEW u PROVE DayAllowed(u) <=> DayMatches(u)
BY DEF DayAllowed, DayMatches

\* What is said of the candidate t while the search goes on: no instant before
\* it matches; once the search has moved it, it is the first instant of its
\* month, or of a month that matches, and so for the day, hour and minute (so
\* going back to the start of the unit is not needed any more); and the fields
\* of the loops that are behind match.
NoneBefore == \A v \in Upcoming..(t - 1) : ~Matches(v)
Kept ==
    /\ MonthAligned(t) \/ Month(t) \in s.month
    /\ DayAligned(t) \/ DayMatches(t)
    /\ HourAligned(t) \/ Hour(t) \in s.hour
    /\ MinuteAligned(t) \/ Minute(t) \in s.minute
FieldsBehind ==
    /\ pc \in {"day", "hour", "minute", "second"} => Month(t) \in s.month
    /\ pc \in {"hour", "minute", "second"} => DayMatches(t)
    /\ pc \in {"minute", "second"} => Hour(t) \in s.hour
    /\ pc = "second" => Minute(t) \in s.minute
Searching ==
    /\ t \in Times /\ t >= Upcoming
    /\ NoneBefore
    /\ added => Kept
    /\ pc # "wrap" => Year(t) <= YearLimit
    /\ FieldsBehind

SearchInv ==
    /\ now \in Starts /\ added \in BOOLEAN
    /\ pc \in {"wrap", "month", "day", "hour", "minute", "second", "done"}
    /\ pc # "done" => Searching
    /\ NextIsLeast

LEMMA StartTypes ==
    ASSUME now \in Starts
    PROVE  /\ now \in Nat /\ Upcoming \in Times /\ Upcoming \in Nat /\ Upcoming > now
           /\ YearLimit \in Nat /\ YearLimit < LastYear /\ Year(Upcoming) <= YearLimit
           /\ Instants \subseteq Times
<1>0. now \in Nat /\ YearsAhead \in Nat /\ LastYear \in Nat
  BY CalendarAssumption
<1>1. Upcoming \in Nat /\ Upcoming > now
  BY <1>0 DEF Upcoming
<1>2. Instants \subseteq Times
  <2> SUFFICES ASSUME NEW u \in Instants PROVE u \in Times
    OBVIOUS
  <2> DEFINE G == Gap * HourLen
             D == Days * DayLen
  <2>1. DayLen \in Nat \ {0} /\ Days \in Nat /\ G \in Nat /\ Days * DayLen = DayLen * Days /\ D \in Nat
    BY UnitTypes, FirstDayTypes
  <2>2. u \in Nat /\ u < D - G
    <3>1. u \in 0..(D - G - 1)
      BY DEF Instants
    <3> HIDE DEF G, D
    <3> QED
      BY <2>1, <3>1
  <2>3. Wall(u) = (IF Summer(u) THEN u + G ELSE u)
    BY DEF Wall
  <2>4. Wall(u) \in Nat
    BY <2>2, WallType
  <2>5. DayNo(u) \in Nat
    BY <2>2, DayNoType
  <2>6. Wall(u) < D
    <3> HIDE DEF G, D
    <3> QED
      BY <2>1, <2>2, <2>3, <2>4
  <2>7. DayNo(u) < Days
    <3> SUFFICES ASSUME DayNo(u) >= Days PROVE FALSE
      BY <2>1, <2>5
    <3> DEFINE w == Wall(u)
               q == w \div DayLen
               r == w % DayLen
    <3>1. q \in Int /\ r \in 0..(DayLen - 1) /\ w = DayLen * q + r
      <4>1. w \in Int
        BY <2>4
      <4> HIDE DEF w
      <4> QED
        BY <2>1, <4>1, DivMod
    <3>2. q >= Days /\ w < DayLen * Days
      BY <2>1, <2>6 DEF DayNo
    <3> HIDE DEF w, q, r
    <3>3. DayLen * q >= DayLen * Days
      BY <2>1, <3>1, <3>2
    <3> QED
      BY <2>1, <3>1, <3>2, <3>3
  <2> QED
    BY <2>2, <2>7 DEF Times
<1>3. Upcoming \in Times
  BY <1>2, HorizonAssumption DEF Upcoming
<1>4. Year(Upcoming) \in Nat
  BY <1>3, CivilIs
<1>5. YearLimit < LastYear
  BY HorizonAssumption DEF YearLimit, Upcoming
<1> QED
  BY <1>0, <1>1, <1>2, <1>3, <1>4, <1>5 DEF YearLimit

LEMMA SearchInit == Init => SearchInv
<1> SUFFICES ASSUME Init PROVE SearchInv
  OBVIOUS
<1>1. now \in Starts /\ t = Upcoming /\ added = FALSE /\ pc = "wrap"
  BY DEF Init
<1>2. Upcoming \in Times /\ Upcoming \in Nat
  BY <1>1, StartTypes
<1>3. NoneBefore
  BY <1>1, <1>2 DEF NoneBefore
<1>4. Searching
  BY <1>1, <1>2, <1>3 DEF Searching, FieldsBehind
<1>5. NextIsLeast
  BY <1>1 DEF NextIsLeast
<1> QED
  BY <1>1, <1>4, <1>5 DEF SearchInv

\* A time within the years the search covers is not in the last month.
LEMMA NotLastMonth ==
    ASSUME NEW u \in Times, Year(u) < LastYear PROVE Ix(u) < MonthCount - 1
<1>1. /\ Ix(u) \in 0..(MonthCount - 1) /\ Year(u) = Ix(u) \div Months /\ Year(u) \in Nat
      /\ Months \in Nat \ {0} /\ LastYear \in Nat /\ MonthCount \in Nat
  BY CivilIs, UnitTypes, MonthCountType
<1> DEFINE j == Ix(u)
           q == j \div Months
           r == j % Months
<1>2. q \in Int /\ r \in 0..(Months - 1) /\ j = Months * q + r
  <2>1. j \in Int
    BY <1>1
  <2> HIDE DEF j
  <2> QED
    BY <1>1, <2>1, DivMod
<1>3. q + 1 <= LastYear
  BY <1>1
<1>4. MonthCount = (LastYear + 1) * Months
  BY DEF MonthCount
<1> HIDE DEF j, q, r
<1>5. Months * (q + 1) <= Months * LastYear
  BY <1>1, <1>2, <1>3
<1>6. Months * (q + 1) = Months * q + Months /\ (LastYear + 1) * Months = Months * LastYear + Months
      /\ Months * q \in Int /\ Months * LastYear \in Int
  BY <1>1, <1>2
<1>7. j < MonthCount - 1
  BY <1>1, <1>2, <1>4, <1>5, <1>6
<1> QED
  BY <1>7 DEF j

\* Moving the candidate.
LEMMA Moved ==
    ASSUME NEW e, t' = e, UNCHANGED <<s, now>>
    PROVE  /\ NoneBefore' <=> \A v \in Upcoming..(e - 1) : ~Matches(v)
           /\ Kept' <=> /\ MonthAligned(e) \/ Month(e) \in s.month
                        /\ DayAligned(e) \/ DayMatches(e)
                        /\ HourAligned(e) \/ Hour(e) \in s.hour
                        /\ MinuteAligned(e) \/ Minute(e) \in s.minute
           /\ Upcoming' = Upcoming /\ YearLimit' = YearLimit
           /\ (Year(t) <= YearLimit)' <=> Year(e) <= YearLimit
           /\ FieldsBehind' <=>
                /\ pc' \in {"day", "hour", "minute", "second"} => Month(e) \in s.month
                /\ pc' \in {"hour", "minute", "second"} => DayMatches(e)
                /\ pc' \in {"minute", "second"} => Hour(e) \in s.hour
                /\ pc' = "second" => Minute(e) \in s.minute
<1>1. Upcoming' = Upcoming
  BY DEF Upcoming
<1>2. YearLimit' = YearLimit
  BY DEF YearLimit, Upcoming
<1>3. \A v : Matches(v)' <=> Matches(v)
  BY DEF Matches, DayAllowed
<1>4. \A v : DayMatches(v)' <=> DayMatches(v)
  BY DEF DayMatches
<1>5. NoneBefore' <=> \A v \in Upcoming..(e - 1) : ~Matches(v)
  BY <1>1, <1>3 DEF NoneBefore
<1>6. DayMatches(t)' <=> DayMatches(e)
  BY <1>4
<1>7. Kept' <=> /\ MonthAligned(e) \/ Month(e) \in s.month
                /\ DayAligned(e) \/ DayMatches(e)
                /\ HourAligned(e) \/ Hour(e) \in s.hour
                /\ MinuteAligned(e) \/ Minute(e) \in s.minute
  BY <1>6 DEF Kept
<1>8. (Year(t) <= YearLimit)' <=> Year(e) <= YearLimit
  BY <1>2
<1>9. FieldsBehind' <=>
                /\ pc' \in {"day", "hour", "minute", "second"} => Month(e) \in s.month
                /\ pc' \in {"hour", "minute", "second"} => DayMatches(e)
                /\ pc' \in {"minute", "second"} => Hour(e) \in s.hour
                /\ pc' = "second" => Minute(e) \in s.minute
  BY <1>6 DEF FieldsBehind
<1> QED
  BY <1>1, <1>2, <1>5, <1>7, <1>8, <1>9

LEMMA AdvanceKeeps ==
    ASSUME SearchInv, NEW e \in Times, e > t,
           pc \in {"month", "day", "hour", "minute", "second"}, pc' \in {"wrap", pc},
           t' = e, added' = TRUE, UNCHANGED <<s, now>>,
           \A v \in t..(e - 1) : ~Matches(v),
           MonthAligned(e) \/ Month(e) \in s.month, DayAligned(e) \/ DayMatches(e),
           HourAligned(e) \/ Hour(e) \in s.hour, MinuteAligned(e) \/ Minute(e) \in s.minute,
           pc' = pc =>
               /\ Year(e) <= YearLimit
               /\ pc \in {"day", "hour", "minute", "second"} => Month(e) \in s.month
               /\ pc \in {"hour", "minute", "second"} => DayMatches(e)
               /\ pc \in {"minute", "second"} => Hour(e) \in s.hour
               /\ pc = "second" => Minute(e) \in s.minute
    PROVE  SearchInv'
<1>1. Searching /\ now \in Starts
  BY DEF SearchInv
<1>2. t \in Nat /\ t >= Upcoming /\ NoneBefore /\ e \in Nat /\ Upcoming \in Nat
  BY <1>1, StartTypes DEF Searching, Times
<1>3. NoneBefore'
  <2>1. ASSUME NEW v \in Upcoming..(e - 1) PROVE ~Matches(v)
    <3>1. v \in Upcoming..(t - 1) \/ v \in t..(e - 1)
      BY <1>2
    <3> QED
      BY <1>2, <3>1 DEF NoneBefore
  <2> QED
    BY <2>1, Moved
<1>4. Kept'
  BY Moved
<1>5. (pc # "wrap" => Year(t) <= YearLimit)'
  BY Moved
<1>6. FieldsBehind'
  BY Moved
<1>7. (t \in Times)' /\ (t >= Upcoming)'
  <2>1. Upcoming' = Upcoming
    BY Moved
  <2>2. e >= Upcoming
    BY <1>2
  <2>3. (t \in Times)'
    BY DEF Times, DayNo
  <2> QED
    BY <2>1, <2>2, <2>3
<1>8. Searching'
  BY <1>3, <1>4, <1>5, <1>6, <1>7 DEF Searching
<1>9. NextIsLeast'
  BY DEF NextIsLeast
<1>10. (pc \in {"wrap", "month", "day", "hour", "minute", "second", "done"})'
  OBVIOUS
<1> QED
  BY <1>1, <1>8, <1>9, <1>10 DEF SearchInv

\* What holds whenever one of the loops runs.
LEMMA LoopTypes ==
    ASSUME SearchInv, pc \in {"month", "day", "hour", "minute", "second"}
    PROVE  /\ t \in Times /\ t \in Nat /\ Ix(t) < MonthCount - 1 /\ Year(t) <= YearLimit
           /\ added => Kept
           /\ FieldsBehind
<1>1. Searching /\ now \in Starts
  BY DEF SearchInv
<1>2. t \in Times /\ Year(t) <= YearLimit
  BY <1>1 DEF Searching
<1>3. YearLimit < LastYear /\ YearLimit \in Nat /\ LastYear \in Nat /\ Year(t) \in Nat
  BY <1>1, <1>2, StartTypes, UnitTypes, CivilIs
<1>4. Year(t) < LastYear
  BY <1>2, <1>3
<1> QED
  BY <1>1, <1>2, <1>4, NotLastMonth DEF Searching, Times

\* A loop that finds its field matching hands over to the next.
LEMMA FoundKeeps ==
    ASSUME SearchInv, NEW here, NEW there, Found(here, there),
           \/ here = "month" /\ there = "day" /\ Month(t) \in s.month
           \/ here = "day" /\ there = "hour" /\ DayMatches(t)
           \/ here = "hour" /\ there = "minute" /\ Hour(t) \in s.hour
           \/ here = "minute" /\ there = "second" /\ Minute(t) \in s.minute
    PROVE  SearchInv'
<1>1. /\ pc = here /\ pc' = there /\ t' = t /\ added' = added
      /\ UNCHANGED <<s, now>>
  BY DEF Found
<1>2. Searching /\ now \in Starts /\ added \in BOOLEAN
  BY <1>1 DEF SearchInv
<1>3. NoneBefore' /\ (t >= Upcoming)' /\ (t \in Times)'
  <2>1. Upcoming' = Upcoming /\ NoneBefore'
    BY <1>1, <1>2, Moved DEF Searching, NoneBefore
  <2>2. (t \in Times)'
    BY <1>1, <1>2 DEF Times, DayNo, Searching
  <2> QED
    BY <1>1, <1>2, <2>1, <2>2 DEF Searching
<1>4. (added => Kept)'
  BY <1>1, <1>2, Moved DEF Searching, Kept
<1>5. (pc # "wrap" => Year(t) <= YearLimit)'
  BY <1>1, <1>2, Moved DEF Searching
<1>6. FieldsBehind'
  BY <1>1, <1>2, Moved DEF Searching, FieldsBehind
<1>7. Searching'
  BY <1>3, <1>4, <1>5, <1>6 DEF Searching
<1>8. NextIsLeast'
  BY <1>1 DEF NextIsLeast
<1> QED
  BY <1>1, <1>2, <1>7, <1>8 DEF SearchInv

LEMMA MonthKeeps ==
    ASSUME GapInTheDay, SearchInv, pc = "month", FindMonth PROVE SearchInv'
<1>0. t \in Times /\ t \in Nat /\ Ix(t) < MonthCount - 1 /\ Year(t) <= YearLimit /\ (added => Kept)
  BY LoopTypes
<1>1. CASE Month(t) \in s.month /\ Found("month", "day")
  BY <1>1, FoundKeeps
<1> DEFINE e == AddMonth(From(MonthStart(t)))
<1>2. CASE Month(t) \notin s.month /\ Advance("month", e, Month(e) = 1)
  <2>1. From(MonthStart(t)) = MonthStart(t)
    <3>1. added => MonthStart(t) = t
      BY <1>0, <1>2, MonthEnd DEF Kept
    <3> QED
      BY <3>1 DEF From
  <2>2. e = AddMonth(MonthStart(t))
    BY <2>1
  <2>3. t' = e /\ pc' = (IF Month(e) = 1 THEN "wrap" ELSE "month") /\ added' = TRUE /\ UNCHANGED <<s, now>>
    BY <1>2 DEF Advance
  <2> HIDE DEF e
  <2>4. /\ e \in Times /\ e > t /\ Ix(e) = Ix(t) + 1 /\ MonthAligned(e)
        /\ \A v \in t..(e - 1) : v \in Times /\ Ix(v) = Ix(t)
    BY <1>0, <2>2, MonthEnd
  <2>5. ASSUME NEW v \in t..(e - 1) PROVE ~Matches(v)
    <3>1. Month(v) = Month(t)
      BY <1>0, <2>4, CivilIs
    <3> QED
      BY <1>2, <3>1 DEF Matches
  <2>6. DayAligned(e) /\ HourAligned(e) /\ MinuteAligned(e)
    BY <2>4, AlignedDown
  <2>7. Month(e) # 1 => Year(e) <= YearLimit
    <3> SUFFICES ASSUME Month(e) # 1 PROVE Year(e) = Year(t)
      BY <1>0
    <3> DEFINE j == Ix(t)
               k == Ix(e)
               q == k \div Months
               r == k % Months
    <3>1. /\ j \in Int /\ k \in Int /\ k = j + 1 /\ Months \in Nat \ {0}
          /\ Month(e) = r + 1 /\ Year(e) = q /\ Year(t) = j \div Months
      BY <1>0, <2>4, CivilIs, UnitTypes
    <3> HIDE DEF j, k
    <3>2. q \in Int /\ r \in 0..(Months - 1) /\ k = Months * q + r
      BY <3>1, DivMod
    <3> HIDE DEF q, r
    <3>3. r # 0
      BY <3>1
    <3>4. j = Months * q + (r - 1) /\ r - 1 \in 0..(Months - 1)
      <4>1. Months * q \in Int
        BY <3>1, <3>2
      <4> QED
        BY <3>1, <3>2, <3>3, <4>1
    <3>5. j \div Months = q
      BY <3>1, <3>2, <3>4, DivModUnique
    <3> QED
      BY <3>1, <3>5
  <2> QED
    BY <2>3, <2>4, <2>5, <2>6, <2>7, AdvanceKeeps
<1> QED
  BY <1>1, <1>2 DEF FindMonth

LEMMA DayKeeps ==
    ASSUME GapInTheDay, SearchInv, pc = "day", FindDay PROVE SearchInv'
<1>0. /\ t \in Times /\ t \in Nat /\ Ix(t) < MonthCount - 1 /\ Year(t) <= YearLimit /\ (added => Kept)
      /\ Month(t) \in s.month
  BY LoopTypes DEF FieldsBehind
<1>1. CASE DayMatches(t) /\ Found("day", "hour")
  BY <1>1, FoundKeeps
<1> DEFINE e == AddDay(From(DayStart(t)))
<1>2. CASE ~DayMatches(t) /\ Advance("day", e, Day(e) = 1)
  <2>1. From(DayStart(t)) = DayStart(t)
    <3>1. added => DayStart(t) = t
      BY <1>0, <1>2, DayEnd DEF Kept
    <3> QED
      BY <3>1 DEF From
  <2>2. e = AddDay(DayStart(t))
    BY <2>1
  <2>3. t' = e /\ pc' = (IF Day(e) = 1 THEN "wrap" ELSE "day") /\ added' = TRUE /\ UNCHANGED <<s, now>>
    BY <1>2 DEF Advance
  <2> HIDE DEF e
  <2>4. /\ e \in Nat /\ e > t /\ DayNo(e) # DayNo(t)
        /\ \A v \in t..(e - 1) : DayNo(v) = DayNo(t)
    BY <1>0, <2>2, DayEnd
  <2>5. e - 1 \in t..(e - 1)
    BY <1>0, <2>4
  <2>6. e \in Times /\ (Ix(e) = Ix(t) \/ MonthAligned(e)) /\ DayAligned(e)
    BY <1>0, <2>4, <2>5, UnitEnd
  <2>7. ASSUME NEW v \in t..(e - 1) PROVE ~Matches(v)
    <3>1. v \in Nat
      BY <1>0, <2>4
    <3>2. Day(v) = Day(t) /\ Weekday(v) = Weekday(t)
      BY <1>0, <2>4, <3>1, SameDay
    <3>3. ~DayMatches(v)
      BY <1>2, <3>2 DEF DayMatches
    <3> QED
      BY <3>3, DayRule DEF Matches
  <2>8. HourAligned(e) /\ MinuteAligned(e)
    BY <2>6, AlignedDown
  <2>9. Ix(e) = Ix(t) => Month(e) = Month(t) /\ Year(e) = Year(t)
    BY <1>0, <2>6, CivilIs
  <2>10. MonthAligned(e) => Day(e) = 1
    BY <2>6, AlignedFields
  <2> QED
    BY <1>0, <2>3, <2>4, <2>6, <2>7, <2>8, <2>9, <2>10, AdvanceKeeps
<1> QED
  BY <1>1, <1>2 DEF FindDay

LEMMA HourKeeps ==
    ASSUME GapInTheDay, SearchInv, pc = "hour", FindHour PROVE SearchInv'
<1>0. /\ t \in Times /\ t \in Nat /\ Ix(t) < MonthCount - 1 /\ Year(t) <= YearLimit /\ (added => Kept)
      /\ Month(t) \in s.month /\ DayMatches(t)
  BY LoopTypes DEF FieldsBehind
<1>1. CASE Hour(t) \in s.hour /\ Found("hour", "minute")
  BY <1>1, FoundKeeps
<1> DEFINE e == From(HourStart(t)) + HourLen
<1>2. CASE Hour(t) \notin s.hour /\ Advance("hour", e, Hour(e) = 0)
  <2>1. From(HourStart(t)) = HourStart(t)
    <3>1. added => HourStart(t) = t
      BY <1>0, <1>2, HourEnd DEF Kept
    <3> QED
      BY <3>1 DEF From
  <2>2. e = HourStart(t) + HourLen
    BY <2>1
  <2>3. t' = e /\ pc' = (IF Hour(e) = 0 THEN "wrap" ELSE "hour") /\ added' = TRUE /\ UNCHANGED <<s, now>>
    BY <1>2 DEF Advance
  <2> HIDE DEF e
  <2>4. /\ e \in Nat /\ e > t /\ HourNo(e) # HourNo(t)
        /\ \A v \in t..(e - 1) : HourNo(v) = HourNo(t)
    BY <1>0, <2>2, HourEnd
  <2>5. e - 1 \in t..(e - 1) /\ e - 1 \in Nat
    BY <1>0, <2>4
  <2>6. HourNo(e - 1) = HourNo(t)
    BY <2>4, <2>5
  <2>7. DayNo(e - 1) = DayNo(t)
    BY <1>0, <2>5, <2>6, ClockFields, Zenon
  <2>8. /\ e \in Times /\ (Ix(e) = Ix(t) \/ MonthAligned(e)) /\ HourAligned(e)
        /\ DayNo(e) = DayNo(t) \/ DayAligned(e)
    BY <1>0, <2>4, <2>6, <2>7, UnitEnd
  <2>9. ASSUME NEW v \in t..(e - 1) PROVE ~Matches(v)
    <3>1. v \in Nat /\ HourNo(v) = HourNo(t)
      BY <1>0, <2>4
    <3>2. Hour(v) = Hour(t)
      BY <1>0, <3>1, ClockFields, Zenon
    <3> QED
      BY <1>2, <3>2 DEF Matches
  <2>10. MinuteAligned(e)
    BY <2>8, AlignedDown
  <2>11. Ix(e) = Ix(t) => Month(e) = Month(t)
    BY <1>0, <2>8, CivilIs
  <2>12. DayNo(e) = DayNo(t) => Month(e) = Month(t) /\ Year(e) = Year(t) /\ DayMatches(e)
    BY <1>0, <2>4, SameDay DEF DayMatches
  <2>13. DayAligned(e) => Hour(e) = 0
    BY <2>8, AlignedFields
  <2> QED
    BY <1>0, <2>3, <2>4, <2>8, <2>9, <2>10, <2>11, <2>12, <2>13, AdvanceKeeps
<1> QED
  BY <1>1, <1>2 DEF FindHour

LEMMA MinuteKeeps ==
    ASSUME GapInTheDay, SearchInv, pc = "minute", FindMinute PROVE SearchInv'
<1>0. /\ t \in Times /\ t \in Nat /\ Ix(t) < MonthCount - 1 /\ Year(t) <= YearLimit /\ (added => Kept)
      /\ Month(t) \in s.month /\ DayMatches(t) /\ Hour(t) \in s.hour
  BY LoopTypes DEF FieldsBehind
<1>1. CASE Minute(t) \in s.minute /\ Found("minute", "second")
  BY <1>1, FoundKeeps
<1> DEFINE b == t - (t % Seconds)
           e == From(b) + Seconds
<1>2. CASE Minute(t) \notin s.minute /\ Advance("minute", e, Minute(e) = 0)
  <2>1. From(b) = b
    <3>1. added => b = t
      BY <1>0, <1>2, MinuteEnd DEF Kept
    <3> QED
      BY <3>1 DEF From
  <2>2. e = b + Seconds
    BY <2>1
  <2>3. t' = e /\ pc' = (IF Minute(e) = 0 THEN "wrap" ELSE "minute") /\ added' = TRUE /\ UNCHANGED <<s, now>>
    BY <1>2 DEF Advance
  <2> HIDE DEF e
  <2>4. /\ e \in Nat /\ e > t /\ MinuteNo(e) # MinuteNo(t)
        /\ \A v \in t..(e - 1) : MinuteNo(v) = MinuteNo(t)
    BY <1>0, <2>2, MinuteEnd
  <2>5. e - 1 \in t..(e - 1) /\ e - 1 \in Nat
    BY <1>0, <2>4
  <2>6. MinuteNo(e - 1) = MinuteNo(t)
    BY <2>4, <2>5
  <2>7. HourNo(e - 1) = HourNo(t)
    BY <1>0, <2>5, <2>6, ClockFields, Zenon
  <2>8. DayNo(e - 1) = DayNo(t)
    BY <1>0, <2>5, <2>7, ClockFields, Zenon
  <2>9. /\ e \in Times /\ (Ix(e) = Ix(t) \/ MonthAligned(e)) /\ MinuteAligned(e)
        /\ DayNo(e) = DayNo(t) \/ DayAligned(e)
        /\ HourNo(e) = HourNo(t) \/ HourAligned(e)
    BY <1>0, <2>4, <2>6, <2>7, <2>8, UnitEnd
  <2>10. ASSUME NEW v \in t..(e - 1) PROVE ~Matches(v)
    <3>1. v \in Nat /\ MinuteNo(v) = MinuteNo(t)
      BY <1>0, <2>4
    <3>2. Minute(v) = Minute(t)
      BY <1>0, <3>1, ClockFields, Zenon
    <3> QED
      BY <1>2, <3>2 DEF Matches
  <2>11. Ix(e) = Ix(t) => Month(e) = Month(t)
    BY <1>0, <2>9, CivilIs
  <2>12. DayNo(e) = DayNo(t) => Month(e) = Month(t) /\ Year(e) = Year(t) /\ DayMatches(e)
    BY <1>0, <2>4, SameDay DEF DayMatches
  <2>13. HourNo(e) = HourNo(t) => DayNo(e) = DayNo(t) /\ Hour(e) = Hour(t)
    BY <1>0, <2>4, ClockFields, Zenon
  <2>14. HourAligned(e) => Minute(e) = 0
    BY <2>9, AlignedFields
  <2> QED
    BY <1>0, <2>3, <2>4, <2>9, <2>10, <2>11, <2>12, <2>13, <2>14, AdvanceKeeps
<1> QED
  BY <1>1, <1>2 DEF FindMinute

LEMMA SecondKeeps ==
    ASSUME GapInTheDay, SearchInv, pc = "second", FindSecond PROVE SearchInv'
<1>0. /\ t \in Times /\ t \in Nat /\ Ix(t) < MonthCount - 1 /\ Year(t) <= YearLimit
      /\ Month(t) \in s.month /\ DayMatches(t) /\ Hour(t) \in s.hour /\ Minute(t) \in s.minute
  BY LoopTypes DEF FieldsBehind
\* The candidate matches: it is the answer.
<1>1. CASE Second(t) \in s.second /\ Found("second", "done")
  <2>1. pc' = "done" /\ t' = t /\ added' = added /\ UNCHANGED <<s, now>>
    BY <1>1 DEF Found
  <2>2. Searching /\ now \in Starts /\ added \in BOOLEAN
    BY DEF SearchInv
  <2>3. Matches(t)
    BY <1>0, <1>1, DayRule DEF Matches
  <2>4. now \in Nat /\ Upcoming \in Nat /\ Upcoming > now /\ t >= Upcoming /\ NoneBefore
    BY <2>2, StartTypes DEF Searching
  <2>5. t > now
    BY <1>0, <2>4
  <2>6. t # ZeroTime
    BY <1>0, CalendarAssumption
  <2>7. NextIsLeast'
    <3>1. NoneBefore' /\ Upcoming' = Upcoming
      BY <2>1, <2>4, Moved DEF NoneBefore
    <3>2. Matches(t)'
      BY <2>1, <2>3 DEF Matches, DayAllowed
    <3> QED
      BY <2>1, <2>5, <2>6, <3>1, <3>2 DEF NextIsLeast, NoneBefore
  <2> QED
    BY <2>1, <2>2, <2>7 DEF SearchInv
<1> DEFINE e == t + 1
<1>2. CASE Second(t) \notin s.second /\ Advance("second", e, Second(e) = 0)
  <2>1. t' = e /\ pc' = (IF Second(e) = 0 THEN "wrap" ELSE "second") /\ added' = TRUE /\ UNCHANGED <<s, now>>
    BY <1>2 DEF Advance
  <2>2. e \in Nat /\ e > t /\ e - 1 = t
    BY <1>0
  <2> HIDE DEF e
  <2>3. /\ e \in Times /\ (Ix(e) = Ix(t) \/ MonthAligned(e))
        /\ DayNo(e) = DayNo(t) \/ DayAligned(e)
        /\ HourNo(e) = HourNo(t) \/ HourAligned(e)
        /\ MinuteNo(e) = MinuteNo(t) \/ MinuteAligned(e)
    BY <1>0, <2>2, UnitEnd
  <2>4. ASSUME NEW v \in t..(e - 1) PROVE ~Matches(v)
    <3>1. v = t
      BY <1>0, <2>2
    <3> QED
      BY <1>2, <3>1 DEF Matches
  <2>5. Ix(e) = Ix(t) => Month(e) = Month(t)
    BY <1>0, <2>3, CivilIs
  <2>6. DayNo(e) = DayNo(t) => Month(e) = Month(t) /\ Year(e) = Year(t) /\ DayMatches(e)
    BY <1>0, <2>2, SameDay DEF DayMatches
  <2>7. HourNo(e) = HourNo(t) => DayNo(e) = DayNo(t) /\ Hour(e) = Hour(t)
    BY <1>0, <2>2, ClockFields, Zenon
  <2>8. MinuteNo(e) = MinuteNo(t) => HourNo(e) = HourNo(t) /\ Minute(e) = Minute(t)
    BY <1>0, <2>2, ClockFields, Zenon
  <2>9. MinuteAligned(e) => Second(e) = 0
    BY <2>3, AlignedFields
  <2> QED
    BY <1>0, <2>1, <2>2, <2>3, <2>4, <2>5, <2>6, <2>7, <2>8, <2>9, AdvanceKeeps
<1> QED
  BY <1>1, <1>2 DEF FindSecond

LEMMA WrapKeeps == ASSUME SearchInv, Wrap PROVE SearchInv'
<1>0. pc = "wrap" /\ Searching /\ now \in Starts /\ added \in BOOLEAN /\ UNCHANGED <<s, now, added>>
  BY DEF SearchInv, Wrap
<1>1. t \in Times /\ t \in Nat /\ t >= Upcoming /\ NoneBefore
  BY <1>0 DEF Searching, Times
<1>2. /\ now \in Nat /\ Upcoming \in Nat /\ Upcoming = now + 1 /\ YearLimit \in Nat
      /\ Instants \subseteq Times
  BY <1>0, StartTypes DEF Upcoming
<1>3. CASE Year(t) > YearLimit /\ t' = ZeroTime /\ pc' = "done"
  <2>1. ASSUME NEW u \in Instants, u > now, Year(u) <= YearLimit PROVE ~Matches(u)
    <3>1. u \in Times /\ u \in Nat
      BY <1>2 DEF Times
    <3>2. u < t
      <4> SUFFICES ASSUME t <= u PROVE FALSE
        BY <1>1, <3>1
      <4>1. Year(t) <= Year(u) /\ Year(t) \in Nat /\ Year(u) \in Nat
        BY <1>1, <3>1, DatesOrder, CivilIs
      <4> QED
        BY <1>2, <1>3, <2>1, <4>1
    <3>3. u \in Upcoming..(t - 1)
      BY <1>1, <1>2, <2>1, <3>1, <3>2
    <3> QED
      BY <1>1, <3>3 DEF NoneBefore
  <2>2. \A u : Matches(u)' <=> Matches(u)
    BY <1>0 DEF Matches, DayAllowed
  <2>3. YearLimit' = YearLimit
    BY <1>0 DEF YearLimit, Upcoming
  <2>4. NextIsLeast'
    BY <1>0, <1>3, <2>1, <2>2, <2>3 DEF NextIsLeast
  <2> QED
    BY <1>0, <1>3, <2>4 DEF SearchInv
<1>4. CASE ~(Year(t) > YearLimit) /\ pc' = "month" /\ t' = t
  <2>1. Year(t) <= YearLimit
    BY <1>1, <1>2, <1>4, CivilIs
  <2>2. NoneBefore' /\ (t >= Upcoming)' /\ (t \in Times)'
    <3>1. Upcoming' = Upcoming /\ NoneBefore'
      BY <1>0, <1>1, <1>4, Moved DEF NoneBefore
    <3>2. (t \in Times)'
      BY <1>1, <1>4 DEF Times, DayNo
    <3> QED
      BY <1>1, <1>4, <3>1, <3>2
  <2>3. (added => Kept)'
    BY <1>0, <1>4, Moved DEF Searching, Kept
  <2>4. (Year(t) <= YearLimit)' /\ FieldsBehind'
    BY <1>0, <1>4, <2>1, Moved
  <2>5. Searching'
    BY <2>2, <2>3, <2>4 DEF Searching
  <2>6. NextIsLeast'
    BY <1>4 DEF NextIsLeast
  <2> QED
    BY <1>0, <1>4, <2>5, <2>6 DEF SearchInv
<1> QED
  BY <1>3, <1>4 DEF Wrap

LEMMA SearchStep == ASSUME GapInTheDay, SearchInv, [Next]_vars PROVE SearchInv'
<1>1. CASE UNCHANGED vars
  <2>1. UNCHANGED <<s, now, t, added, pc>>
    BY <1>1 DEF vars
  <2>2. SearchInv' <=> SearchInv
    BY <2>1 DEF SearchInv, Searching, NoneBefore, Kept, FieldsBehind, NextIsLeast, Matches,
                DayAllowed, DayMatches, Upcoming, YearLimit
  <2> QED
    BY <2>2
<1>2. CASE Wrap
  BY <1>2, WrapKeeps
<1>3. CASE pc = "month" /\ FindMonth
  BY <1>3, MonthKeeps
<1>4. CASE pc = "day" /\ FindDay
  BY <1>4, DayKeeps
<1>5. CASE pc = "hour" /\ FindHour
  BY <1>5, HourKeeps
<1>6. CASE pc = "minute" /\ FindMinute
  BY <1>6, MinuteKeeps
<1>7. CASE pc = "second" /\ FindSecond
  BY <1>7, SecondKeeps
<1>8. CASE Done
  BY <1>1, <1>8 DEF Done
<1> QED
  BY <1>1, <1>2, <1>3, <1>4, <1>5, <1>6, <1>7, <1>8 DEF Next

\* Whenever SpecSchedule.Next returns, it returns the least instant after its
\* argument that the schedule allows, or the zero time when the years up to
\* its limit hold none: for every calendar, schedule and start, and for a zone
\* that puts its clock forward in the daytime.
THEOREM NextFindsLeast == GapInTheDay => (Spec => []NextIsLeast)
<1>1. Init => SearchInv
  BY SearchInit
<1>2. GapInTheDay /\ SearchInv /\ [Next]_vars => SearchInv'
  BY SearchStep
<1>3. SearchInv => NextIsLeast
  BY DEF SearchInv
<1>4. CASE GapInTheDay
  <2>1. SearchInv /\ [Next]_vars => SearchInv'
    BY <1>2, <1>4
  <2>2. Spec => []NextIsLeast
    BY <1>1, <1>3, <2>1, PTL DEF Spec
  <2> QED
    BY <2>2
<1> QED
  BY <1>4
=============================================================================
