---------------------------- MODULE PeriodsProofs ----------------------------
(***************************************************************************)
(* The boards of the program are periods: for every day since the year 1,  *)
(* two days have the same key of a window exactly if they are in the same  *)
(* period, keys of different windows differ, and no sequence of writes,    *)
(* failures and restarts brings a score to the board of another period.    *)
(***************************************************************************)
EXTENDS Periods, LeaderboardWriteProofs, SequenceTheorems

-----------------------------------------------------------------------------
(* Years *)

LEMMA FirstDayType == ASSUME NEW y \in Int PROVE FirstDay(y) \in Int
BY DEF FirstDay

\* A later year begins at least 365 days later.
LEMMA YearsAhead ==
    ASSUME NEW y \in Int, NEW z \in Int, y < z
    PROVE  FirstDay(y + 1) <= FirstDay(z)
BY SMTT(60) DEF FirstDay

LEMMA LeapType == ASSUME NEW y \in Int PROVE Leap(y) \in {0, 1}
BY SMTT(60) DEF FirstDay, Leap

\* The first guess at the year of a day is at most two years early.
LEMMA YearAbout ==
    ASSUME NEW day \in Nat
    PROVE  LET about == (400 * day) \div 146097
           IN  about \in Nat /\ FirstDay(about) <= day /\ day < FirstDay(about + 3)
BY SMTT(60) DEF FirstDay

\* y is the year of the day.
InYear(day, y) == FirstDay(y) <= day /\ day < FirstDay(y + 1)

LEMMA YearOnce ==
    ASSUME NEW day \in Int, NEW y \in Int, NEW z \in Int, InYear(day, y), InYear(day, z)
    PROVE  y = z
<1>1. ASSUME NEW a \in Int, NEW b \in Int, a < b
      PROVE  FirstDay(a + 1) <= FirstDay(b) /\ FirstDay(a + 1) \in Int /\ FirstDay(b) \in Int
  BY <1>1, YearsAhead, FirstDayType
<1>2. CASE y < z
  BY <1>1, <1>2 DEF InYear
<1>3. CASE z < y
  BY <1>1, <1>3 DEF InYear
<1> QED BY <1>2, <1>3

LEMMA YearDefined ==
    ASSUME NEW day \in Nat
    PROVE  Year(day) \in Nat /\ InYear(day, Year(day))
<1> DEFINE about == (400 * day) \div 146097
           P(y) == FirstDay(y) <= day /\ day < FirstDay(y + 1)
<1>1. about \in Nat /\ FirstDay(about) <= day /\ day < FirstDay(about + 3)
  BY YearAbout
<1> HIDE DEF about
<1>2. \A i \in 0..3 : FirstDay(about + i) \in Int
  BY <1>1, FirstDayType
<1>3. about + 0 = about /\ (about + 1) + 1 = about + 2 /\ (about + 2) + 1 = about + 3
  BY <1>1
<1>4. \E y \in about..(about + 2) : P(y)
  <2>1. CASE day < FirstDay(about + 1)
    BY <1>1, <2>1
  <2>2. CASE FirstDay(about + 1) <= day /\ day < FirstDay(about + 2)
    BY <1>1, <1>3, <2>2
  <2>3. CASE FirstDay(about + 2) <= day
    BY <1>1, <1>3, <2>3
  <2> QED BY <1>2, <2>1, <2>2, <2>3
<1>5. Year(day) = CHOOSE y \in about..(about + 2) : P(y)
  BY DEF Year, about
<1>6. Year(day) \in about..(about + 2) /\ P(Year(day))
  BY <1>4, <1>5
<1> QED BY <1>1, <1>6 DEF InYear

LEMMA YearIs ==
    ASSUME NEW day \in Nat, NEW y \in Int, InYear(day, y)
    PROVE  Year(day) = y
BY YearDefined, YearOnce

-----------------------------------------------------------------------------
(* Months *)

LEMMA MonthTable ==
    ASSUME NEW leap \in {0, 1}
    PROVE  /\ DaysBefore(1, leap) = 0 /\ DaysBefore(2, leap) = 31
           /\ DaysBefore(3, leap) = 59 + leap /\ DaysBefore(4, leap) = 90 + leap
           /\ DaysBefore(5, leap) = 120 + leap /\ DaysBefore(6, leap) = 151 + leap
           /\ DaysBefore(7, leap) = 181 + leap /\ DaysBefore(8, leap) = 212 + leap
           /\ DaysBefore(9, leap) = 243 + leap /\ DaysBefore(10, leap) = 273 + leap
           /\ DaysBefore(11, leap) = 304 + leap /\ DaysBefore(12, leap) = 334 + leap
           /\ DaysBefore(13, leap) = 365 + leap
BY DEF DaysBefore

LEMMA DaysBeforeType ==
    ASSUME NEW leap \in {0, 1}, NEW m \in 1..12
    PROVE  DaysBefore(m, leap) \in 0..366 /\ DaysBefore(m + 1, leap) \in 0..366
<1>1. \A k \in 1..13 : DaysBefore(k, leap) \in 0..366
  BY MonthTable
<1>2. m \in 1..13 /\ m + 1 \in 1..13
  OBVIOUS
<1> QED BY <1>1, <1>2

LEMMA DaysBeforeInt ==
    ASSUME NEW leap \in {0, 1}, NEW m \in 1..12
    PROVE  DaysBefore(m, leap) \in Int /\ DaysBefore(m + 1, leap) \in Int
<1>1. \A k \in 0..366 : k \in Int
  OBVIOUS
<1>2. DaysBefore(m, leap) \in 0..366 /\ DaysBefore(m + 1, leap) \in 0..366
  BY DaysBeforeType
<1> QED BY <1>1, <1>2, Zenon

\* Months begin in order.
LEMMA MonthsAhead ==
    ASSUME NEW leap \in {0, 1}, NEW m \in 1..13, NEW k \in 1..13, m < k
    PROVE  DaysBefore(m + 1, leap) <= DaysBefore(k, leap)
<1>1. /\ m \in {1,2,3,4,5,6,7,8,9,10,11,12}
      /\ k \in {2,3,4,5,6,7,8,9,10,11,12,13}
  OBVIOUS
<1>2. m + 1 \in 2..13
  OBVIOUS
<1> QED BY <1>1, <1>2, MonthTable

\* The day a month begins, and the first one after it.
MonthStart(y, m) == FirstDay(y) + DaysBefore(m, Leap(y))
InMonth(day, y, m) == MonthStart(y, m) <= day /\ day < MonthStart(y, m + 1)

LEMMA MonthStartType ==
    ASSUME NEW y \in Int, NEW m \in 1..13
    PROVE  /\ MonthStart(y, m) \in Int
           /\ FirstDay(y) <= MonthStart(y, m)
           /\ MonthStart(y, m) <= FirstDay(y + 1)
           /\ MonthStart(y, 1) = FirstDay(y)
           /\ MonthStart(y, 13) = FirstDay(y + 1)
<1>1. Leap(y) \in {0, 1} /\ FirstDay(y) \in Int /\ FirstDay(y + 1) \in Int
  BY LeapType, FirstDayType
<1>2. FirstDay(y + 1) = FirstDay(y) + 365 + Leap(y)
  BY <1>1 DEF Leap
<1>3. m = 13 \/ m < 13
  OBVIOUS
<1>4. DaysBefore(m, Leap(y)) \in 0..(365 + Leap(y))
  BY <1>1, MonthTable
<1> QED BY <1>1, <1>2, <1>4, MonthTable DEF MonthStart

LEMMA MonthBounds ==
    ASSUME NEW y \in Int, NEW m \in 1..12
    PROVE  /\ MonthStart(y, m) \in Int /\ MonthStart(y, m + 1) \in Int
           /\ FirstDay(y) <= MonthStart(y, m)
           /\ MonthStart(y, m + 1) <= FirstDay(y + 1)
<1> DEFINE k == m + 1
<1>1. m \in 1..13 /\ k \in 1..13
  OBVIOUS
<1> HIDE DEF k
<1>2. /\ MonthStart(y, m) \in Int /\ MonthStart(y, k) \in Int
      /\ FirstDay(y) <= MonthStart(y, m)
      /\ MonthStart(y, k) <= FirstDay(y + 1)
  BY <1>1, MonthStartType
<1> QED BY <1>2 DEF k

LEMMA MonthInYear ==
    ASSUME NEW day \in Int, NEW y \in Int, NEW m \in 1..12, InMonth(day, y, m)
    PROVE  InYear(day, y)
<1>1. FirstDay(y) \in Int /\ FirstDay(y + 1) \in Int
  BY FirstDayType
<1>2. /\ MonthStart(y, m) \in Int /\ MonthStart(y, m + 1) \in Int
      /\ FirstDay(y) <= MonthStart(y, m)
      /\ MonthStart(y, m + 1) <= FirstDay(y + 1)
  BY MonthBounds, Zenon
<1> QED BY <1>1, <1>2 DEF InMonth, InYear

\* A day is in a month of its year.
LEMMA MonthDefined ==
    ASSUME NEW day \in Nat
    PROVE  Month(day) \in 1..12 /\ InMonth(day, Year(day), Month(day))
<1> DEFINE y == Year(day)
           leap == Leap(y)
           n == DayOfYear(day)
           P(m) == DaysBefore(m, leap) <= n /\ n < DaysBefore(m + 1, leap)
<1>1. y \in Nat /\ InYear(day, y)
  BY YearDefined
<1>2. FirstDay(y) \in Int /\ FirstDay(y + 1) \in Int /\ leap \in {0, 1}
  BY <1>1, FirstDayType, LeapType
<1>3. n = day - FirstDay(y)
  BY DEF DayOfYear
<1>4. n \in Int /\ 0 <= n /\ n < 365 + leap
  BY <1>1, <1>2, <1>3 DEF InYear, Leap
<1>5. Month(day) = CHOOSE m \in 1..12 : P(m)
  BY DEF Month
<1> HIDE DEF y, leap, n
<1>6. \E m \in 1..12 : P(m)
  <2>1. P(1) \/ P(2) \/ P(3) \/ P(4) \/ P(5) \/ P(6) \/ P(7) \/ P(8) \/ P(9) \/ P(10)
           \/ P(11) \/ P(12)
    BY <1>2, <1>4, MonthTable
  <2> QED BY <2>1
<1>7. Month(day) \in 1..12 /\ P(Month(day))
  BY <1>5, <1>6
<1>8. DaysBefore(Month(day), leap) \in Int /\ DaysBefore(Month(day) + 1, leap) \in Int
  BY <1>2, <1>7, DaysBeforeInt, Zenon
<1> QED BY <1>1, <1>2, <1>3, <1>4, <1>7, <1>8 DEF InMonth, MonthStart, y, leap

LEMMA MonthIs ==
    ASSUME NEW day \in Nat, NEW y \in Int, NEW m \in 1..12, InMonth(day, y, m)
    PROVE  Year(day) = y /\ Month(day) = m
<1>1. Year(day) = y
  BY MonthInYear, YearIs
<1> DEFINE k == Month(day)
           leap == Leap(y)
<1>2. k \in 1..12 /\ InMonth(day, y, k)
  BY <1>1, MonthDefined
<1>3. leap \in {0, 1} /\ FirstDay(y) \in Int
  BY LeapType, FirstDayType
<1> HIDE DEF k, leap
<1>4. ASSUME NEW a \in 1..12, NEW b \in 1..12, a < b, InMonth(day, y, a), InMonth(day, y, b)
      PROVE  FALSE
  <2>1. a \in 1..13 /\ b \in 1..13
    OBVIOUS
  <2>2. DaysBefore(a + 1, leap) <= DaysBefore(b, leap)
    BY <1>3, <1>4, <2>1, MonthsAhead
  <2>3. DaysBefore(a + 1, leap) \in Int /\ DaysBefore(b, leap) \in Int
    BY <1>3, DaysBeforeInt, Zenon
  <2> QED BY <1>3, <1>4, <2>2, <2>3 DEF InMonth, MonthStart, leap
<1>5. k = m
  BY <1>2, <1>4
<1> QED BY <1>1, <1>5 DEF k

LEMMA DayOfMonthIs ==
    ASSUME NEW day \in Nat
    PROVE  /\ DayOfMonth(day) = day - MonthStart(Year(day), Month(day)) + 1
           /\ MonthStart(Year(day), Month(day)) \in Int
<1> DEFINE y == Year(day)
           m == Month(day)
<1>1. y \in Nat /\ m \in 1..12 /\ m \in 1..13
  BY YearDefined, MonthDefined
<1>2. FirstDay(y) \in Int /\ Leap(y) \in {0, 1}
  BY <1>1, FirstDayType, LeapType
<1>3. DaysBefore(m, Leap(y)) \in Int
  BY <1>1, <1>2, DaysBeforeInt, Zenon
<1>4. DayOfMonth(day) = (day - FirstDay(y)) - DaysBefore(m, Leap(y)) + 1
  BY DEF DayOfMonth, DayOfYear
<1> HIDE DEF y, m
<1> QED BY <1>2, <1>3, <1>4 DEF MonthStart, y, m

\* Two days, the first not later, are in one month exactly if none begins after
\* the first of them.
LEMMA MonthsBetween ==
    ASSUME NEW d \in Nat, NEW e \in Nat, d <= e
    PROVE  Year(d) = Year(e) /\ Month(d) = Month(e)
              <=> \A x \in (d + 1)..e : DayOfMonth(x) # 1
<1> DEFINE start == MonthStart(Year(e), Month(e))
<1>1. /\ Year(d) \in Nat /\ Month(d) \in 1..12 /\ InMonth(d, Year(d), Month(d))
      /\ Year(e) \in Nat /\ Month(e) \in 1..12 /\ InMonth(e, Year(e), Month(e))
  BY YearDefined, MonthDefined
<1>3. /\ start \in Int /\ MonthStart(Year(e), Month(e) + 1) \in Int
      /\ MonthStart(Year(d), Month(d)) \in Int /\ MonthStart(Year(d), Month(d) + 1) \in Int
  <2>1. Year(d) \in Int /\ Year(e) \in Int
    BY <1>1
  <2> QED BY <1>1, <2>1, MonthBounds, Zenon
<1>4. ASSUME Year(d) = Year(e), Month(d) = Month(e), NEW x \in (d + 1)..e
      PROVE  DayOfMonth(x) # 1
  <2>1. x \in Nat
    OBVIOUS
  <2>2. InMonth(x, Year(d), Month(d))
    BY <1>1, <1>3, <1>4 DEF InMonth
  <2>3. Year(x) = Year(d) /\ Month(x) = Month(d)
    BY <1>1, <2>1, <2>2, MonthIs
  <2>4. DayOfMonth(x) = x - MonthStart(Year(d), Month(d)) + 1
    BY <2>1, <2>3, DayOfMonthIs
  <2> QED BY <1>1, <1>3, <2>4 DEF InMonth
<1>5. ASSUME \A x \in (d + 1)..e : DayOfMonth(x) # 1
      PROVE  Year(d) = Year(e) /\ Month(d) = Month(e)
  <2>1. CASE start <= d
    <3>1. InMonth(d, Year(e), Month(e))
      BY <1>1, <1>3, <2>1 DEF InMonth
    <3> QED BY <1>1, <3>1, MonthIs
  <2>2. CASE d < start
    <3>1. start \in (d + 1)..e /\ start \in Nat
      BY <1>1, <1>3, <2>2 DEF InMonth
    <3>2. InMonth(start, Year(e), Month(e))
      BY <1>1, <1>3 DEF InMonth
    <3>3. Year(start) = Year(e) /\ Month(start) = Month(e)
      BY <1>1, <3>1, <3>2, MonthIs
    <3>4. DayOfMonth(start) = start - start + 1
      BY <3>1, <3>3, DayOfMonthIs
    <3> QED BY <1>5, <3>1, <3>4
  <2> QED BY <1>3, <2>1, <2>2
<1> QED BY <1>4, <1>5

-----------------------------------------------------------------------------
(* Period keys *)

LEMMA DayKeys ==
    ASSUME NEW d \in Nat, NEW e \in Nat,
           Year(d) = Year(e), Month(d) = Month(e), DayOfMonth(d) = DayOfMonth(e)
    PROVE  d = e
<1> DEFINE start == MonthStart(Year(d), Month(d))
<1>1. start \in Int /\ DayOfMonth(d) = d - start + 1 /\ DayOfMonth(e) = e - start + 1
  BY DayOfMonthIs
<1> HIDE DEF start
<1>2. d - start + 1 = e - start + 1
  BY <1>1
<1> QED BY <1>1, <1>2

LEMMA ThursdayType == ASSUME NEW d \in Nat PROVE Thursday(d) \in Nat
BY DEF Thursday

\* Two Thursdays of one year that are in the same seven days of it are one.
LEMMA WeekKeys ==
    ASSUME NEW d \in Nat, NEW e \in Nat
    PROVE  WeekKey(d) = WeekKey(e) <=> d \div 7 = e \div 7
<1>1. ASSUME d \div 7 = e \div 7
      PROVE  WeekKey(d) = WeekKey(e)
  BY <1>1 DEF WeekKey, ISOWeek, Thursday
<1>2. ASSUME WeekKey(d) = WeekKey(e)
      PROVE  d \div 7 = e \div 7
  <2> DEFINE s == Thursday(d)
             t == Thursday(e)
             first == FirstDay(Year(s))
  <2>1. Year(s) = Year(t) /\ DayOfYear(s) \div 7 + 1 = DayOfYear(t) \div 7 + 1
    BY <1>2 DEF WeekKey, ISOWeek
  <2>2. s \in Nat /\ t \in Nat /\ Year(s) \in Int /\ first \in Int
    BY ThursdayType, YearDefined, FirstDayType
  <2>3. DayOfYear(s) = s - first /\ DayOfYear(t) = t - first
    BY <2>1 DEF DayOfYear
  <2>4. s = 7 * (d \div 7) + 3 /\ t = 7 * (e \div 7) + 3
    BY DEF Thursday
  <2> HIDE DEF s, t, first
  <2>5. (s - first) \div 7 = (t - first) \div 7
    BY <2>1, <2>2, <2>3
  <2>6. s - t < 7 /\ t - s < 7
    BY <2>2, <2>5
  <2> QED BY <2>2, <2>4, <2>6
<1> QED BY <1>1, <1>2

LEMMA MonthKeys ==
    ASSUME NEW d \in Nat, NEW e \in Nat
    PROVE  Year(d) = Year(e) /\ Month(d) = Month(e) <=> SamePeriod("month", d, e)
<1>1. SamePeriod("month", d, e) <=>
        \A x \in (Smaller(d, e) + 1)..Larger(d, e) : DayOfMonth(x) # 1
  BY DEF SamePeriod
<1>2. CASE d <= e
  <2>1. Smaller(d, e) = d /\ Larger(d, e) = e
    BY <1>2 DEF Smaller, Larger
  <2> QED BY <1>1, <1>2, <2>1, MonthsBetween
<1>3. CASE e < d
  <2>1. Smaller(d, e) = e /\ Larger(d, e) = d /\ e <= d
    BY <1>3 DEF Smaller, Larger
  <2> QED BY <1>1, <2>1, MonthsBetween
<1> QED BY <1>2, <1>3

\* Two days have the same key of a window exactly if they are in the same
\* period of it (domain.go PeriodKey), for every day since the year 1.
THEOREM KeysArePeriods ==
    ASSUME NEW v \in AllWindows, NEW d \in Nat, NEW e \in Nat
    PROVE  PeriodKey(v, d) = PeriodKey(v, e) <=> SamePeriod(v, d, e)
<1>1. CASE v = "day"
  <2> DEFINE key(x) == [year |-> Year(x), month |-> Month(x), day |-> DayOfMonth(x)]
  <2>1. PeriodKey(v, d) = key(d) /\ PeriodKey(v, e) = key(e)
    BY <1>1 DEF PeriodKey
  <2>2. key(d) = key(e) => /\ Year(d) = Year(e)
                           /\ Month(d) = Month(e)
                           /\ DayOfMonth(d) = DayOfMonth(e)
    OBVIOUS
  <2>3. SamePeriod(v, d, e) <=> d = e
    BY <1>1 DEF SamePeriod
  <2> HIDE DEF key
  <2> QED BY <2>1, <2>2, <2>3, DayKeys
<1>2. CASE v = "week"
  <2>1. PeriodKey(v, d) = WeekKey(d) /\ PeriodKey(v, e) = WeekKey(e)
    BY <1>2 DEF PeriodKey
  <2>2. SamePeriod(v, d, e) <=> d \div 7 = e \div 7
    BY <1>2 DEF SamePeriod
  <2> QED BY <2>1, <2>2, WeekKeys
<1>3. CASE v = "month"
  <2> DEFINE key(x) == [year |-> Year(x), month |-> Month(x)]
  <2>1. PeriodKey(v, d) = key(d) /\ PeriodKey(v, e) = key(e)
    BY <1>3 DEF PeriodKey
  <2>2. key(d) = key(e) <=> Year(d) = Year(e) /\ Month(d) = Month(e)
    OBVIOUS
  <2> HIDE DEF key
  <2> QED BY <1>3, <2>1, <2>2, MonthKeys
<1>4. CASE v = "all"
  BY <1>4 DEF PeriodKey, SamePeriod
<1> QED BY <1>1, <1>2, <1>3, <1>4 DEF AllWindows

\* What the text of a key of a window holds.
Fields(v) ==
    CASE v = "day"   -> {"year", "month", "day"}
      [] v = "week"  -> {"year", "week"}
      [] v = "month" -> {"year", "month"}
      [] v = "all"   -> {"all"}

LEMMA KeyFields ==
    ASSUME NEW v \in AllWindows, NEW d
    PROVE  DOMAIN PeriodKey(v, d) = Fields(v)
<1>1. CASE v = "day"
  BY <1>1 DEF PeriodKey, Fields
<1>2. CASE v = "week"
  BY <1>2 DEF PeriodKey, Fields, WeekKey, ISOWeek
<1>3. CASE v = "month"
  BY <1>3 DEF PeriodKey, Fields
<1>4. CASE v = "all"
  BY <1>4 DEF PeriodKey, Fields
<1> QED BY <1>1, <1>2, <1>3, <1>4 DEF AllWindows

LEMMA WindowsDiffer ==
    ASSUME NEW v \in AllWindows, NEW u \in AllWindows, NEW d, NEW e,
           PeriodKey(v, d) = PeriodKey(u, e)
    PROVE  v = u
<1>1. Fields(v) = Fields(u)
  BY KeyFields
<1> QED BY <1>1 DEF AllWindows, Fields

-----------------------------------------------------------------------------
(* Board keys *)

\* What stands after a text of known length is known.
LEMMA Append1 ==
    ASSUME NEW S, NEW a \in Seq(S), NEW c \in Seq(S), NEW k \in S
    PROVE  (a \o <<k>> \o c)[Len(a) + 1] = k
<1> DEFINE one == <<k>>
<1>1. one \in Seq(S) /\ Len(one) = 1 /\ one[1] = k
  OBVIOUS
<1> DEFINE b == a \o one
<1>2. b \in Seq(S) /\ Len(b) = Len(a) + 1 /\ b[Len(a) + 1] = k
  BY <1>1
<1> HIDE DEF b
<1>3. (b \o c)[Len(a) + 1] = b[Len(a) + 1]
  BY <1>2
<1> QED BY <1>2, <1>3 DEF b

\* On one game and channel, boards of different periods have different keys.
LEMMA PeriodInKey ==
    ASSUME NEW k, NEW m, BoardKey(App, Board, Zone, k, Channel) = BoardKey(App, Board, Zone, m, Channel)
    PROVE  k = m
<1> DEFINE S == STRING \union {"default", k, m}
           named == <<"default">>
           z == NormalizeZone(Zone)
           ab == App \o Board
           a == ab \o z
<1>1. App \in Seq(S) /\ Board \in Seq(S) /\ Zone \in Seq(S) /\ Channel \in Seq(S)
  <2>1. STRING \subseteq S
    OBVIOUS
  <2> HIDE DEF S
  <2> QED BY <2>1, TextsAssumption, SeqMonotonic
<1>2. named \in Seq(S) /\ k \in S /\ m \in S
  OBVIOUS
<1>3. (ab \o z) \o <<k>> \o Channel = (ab \o z) \o <<m>> \o Channel
  BY DEF BoardKey
<1> HIDE DEF S
<1>4. z \in Seq(S)
  BY <1>1, <1>2 DEF NormalizeZone
<1> HIDE DEF z
<1>5. ab \in Seq(S)
  BY <1>1, ConcatProperties
<1> HIDE DEF ab
<1>6. a \in Seq(S)
  BY <1>4, <1>5, ConcatProperties
<1>7. a \o <<k>> \o Channel = a \o <<m>> \o Channel
  BY <1>3
<1> HIDE DEF a
<1>8. (a \o <<k>> \o Channel)[Len(a) + 1] = k /\ (a \o <<m>> \o Channel)[Len(a) + 1] = m
  BY <1>1, <1>2, <1>6, Append1
<1> QED BY <1>7, <1>8

\* The parts of four texts without a bar and a last one.
HasParts(key, a, b, z, x, c) ==
    /\ Len(key) = 4 + Len(c)
    /\ key[1] = a[1] /\ key[2] = b[1] /\ key[3] = z[1] /\ key[4] = x
    /\ \A i \in 1..Len(c) : key[4 + i] = c[i]

LEMMA KeyParts ==
    ASSUME NEW S, NEW a \in Seq(S), NEW b \in Seq(S), NEW z \in Seq(S), NEW x \in S,
           NEW c \in Seq(S), Len(a) = 1, Len(b) = 1, Len(z) = 1
    PROVE  HasParts(a \o b \o z \o <<x>> \o c, a, b, z, x, c)
<1> DEFINE one == <<x>>
           ab  == a \o b
           abz == ab \o z
           four == abz \o one
           key == four \o c
<1>1. one \in Seq(S) /\ Len(one) = 1 /\ one[1] = x
  OBVIOUS
<1>2. ab \in Seq(S) /\ Len(ab) = 2 /\ ab[1] = a[1] /\ ab[2] = b[1]
  <2>1. /\ ab \in Seq(S) /\ Len(ab) = Len(a) + Len(b)
        /\ \A i \in 1..(Len(a) + Len(b)) : ab[i] = IF i <= Len(a) THEN a[i] ELSE b[i - Len(a)]
    BY ConcatProperties
  <2> HIDE DEF ab
  <2> QED BY <2>1
<1> HIDE DEF ab
<1>3. abz \in Seq(S) /\ Len(abz) = 3 /\ abz[1] = a[1] /\ abz[2] = b[1] /\ abz[3] = z[1]
  <2>1. /\ abz \in Seq(S) /\ Len(abz) = Len(ab) + Len(z)
        /\ \A i \in 1..(Len(ab) + Len(z)) : abz[i] = IF i <= Len(ab) THEN ab[i] ELSE z[i - Len(ab)]
    BY <1>2, ConcatProperties
  <2> HIDE DEF abz
  <2> QED BY <1>2, <2>1
<1> HIDE DEF abz, one
<1>4. /\ four \in Seq(S) /\ Len(four) = 4
      /\ four[1] = a[1] /\ four[2] = b[1] /\ four[3] = z[1] /\ four[4] = x
  <2>1. /\ four \in Seq(S) /\ Len(four) = Len(abz) + Len(one)
        /\ \A i \in 1..(Len(abz) + Len(one)) : four[i] = IF i <= Len(abz) THEN abz[i] ELSE one[i - Len(abz)]
    BY <1>1, <1>3, ConcatProperties
  <2> HIDE DEF four
  <2> QED BY <1>1, <1>3, <2>1
<1> HIDE DEF four
<1>5. HasParts(key, a, b, z, x, c)
  <2>1. /\ key \in Seq(S) /\ Len(key) = Len(four) + Len(c)
        /\ \A i \in 1..(Len(four) + Len(c)) : key[i] = IF i <= Len(four) THEN four[i] ELSE c[i - Len(four)]
    BY <1>4, ConcatProperties
  <2>2. Len(c) \in Nat
    OBVIOUS
  <2> HIDE DEF key
  <2>3. \A i \in 1..Len(c) : 4 + i \in 1..(4 + Len(c)) /\ ~(4 + i <= 4) /\ (4 + i) - 4 = i
    BY <2>2
  <2> QED BY <1>4, <2>1, <2>2, <2>3 DEF HasParts
<1> QED BY <1>5 DEF four, abz, ab, one

\* Boards of different games, of different boards or zones of a game, of
\* different periods or channels have different keys, as long as ids of games,
\* boards and zones hold no bar; a channel may (domain.go BoardKey, which
\* escapes none).
THEOREM BoardKeysDiffer ==
    ASSUME NEW S, NEW app \in Seq(S), NEW board \in Seq(S), NEW zone \in Seq(S),
           NEW k \in S, NEW channel \in Seq(S),
           NEW app2 \in Seq(S), NEW board2 \in Seq(S), NEW zone2 \in Seq(S),
           NEW k2 \in S, NEW channel2 \in Seq(S),
           Len(app) = 1, Len(board) = 1, Len(zone) = 1,
           Len(app2) = 1, Len(board2) = 1, Len(zone2) = 1,
           "default" \in S,
           BoardKey(app, board, zone, k, channel) = BoardKey(app2, board2, zone2, k2, channel2)
    PROVE  /\ app = app2 /\ board = board2 /\ k = k2 /\ channel = channel2
           /\ NormalizeZone(zone) = NormalizeZone(zone2)
<1>1. \A z \in Seq(S) : Len(z) = 1 =>
         NormalizeZone(z) \in Seq(S) /\ Len(NormalizeZone(z)) = 1
  <2>1. <<"default">> \in Seq(S) /\ Len(<<"default">>) = 1
    OBVIOUS
  <2> QED BY <2>1 DEF NormalizeZone
<1> DEFINE z == NormalizeZone(zone)
           z2 == NormalizeZone(zone2)
           key == app \o board \o z \o <<k>> \o channel
<1>3. z \in Seq(S) /\ Len(z) = 1 /\ z2 \in Seq(S) /\ Len(z2) = 1
  BY <1>1
<1>4. key = app2 \o board2 \o z2 \o <<k2>> \o channel2
  BY DEF BoardKey
<1> HIDE DEF z, z2
<1>5. HasParts(key, app, board, z, k, channel)
  BY <1>3, KeyParts, Zenon
<1>6. HasParts(key, app2, board2, z2, k2, channel2)
  BY <1>3, <1>4, KeyParts, Zenon
<1> HIDE DEF key
<1>7. \A x, y \in Seq(S) : Len(x) = 1 /\ Len(y) = 1 /\ x[1] = y[1] => x = y
  BY SeqEqual
<1>8. Len(channel) = Len(channel2) /\ Len(channel) \in Nat
  BY <1>5, <1>6 DEF HasParts
<1>9. \A i \in 1..Len(channel) : channel[i] = channel2[i]
  BY <1>5, <1>6, <1>8 DEF HasParts
<1>10. channel = channel2
  BY <1>8, <1>9, SeqEqual
<1>11. app[1] = app2[1] /\ board[1] = board2[1] /\ z[1] = z2[1] /\ k = k2
  BY <1>5, <1>6 DEF HasParts
<1> QED BY <1>3, <1>7, <1>10, <1>11 DEF z, z2

\* What Leaderboard assumes of its boards holds of those of the program: boards
\* of different windows are different.
THEOREM WindowsHaveOwnBoards ==
    ASSUME NEW v \in Windows, NEW u \in Windows, NEW s \in Times, NEW t \in Times,
           BoardAt[v][s] = BoardAt[u][t]
    PROVE  v = u
<1>1. PeriodKey(v, DayAt[s]) = PeriodKey(u, DayAt[t])
  BY KeysAssumption, PeriodInKey
<1> QED BY <1>1, TextsAssumption, WindowsDiffer

LEMMA SameBoard ==
    ASSUME NEW v \in Windows, NEW s \in Times, NEW t \in Times
    PROVE  BoardAt[v][s] = BoardAt[v][t] <=> <<s, t>> \in TimesOfOnePeriod[v]
<1> DEFINE d == DayAt[s]
           e == DayAt[t]
<1>1. d \in Nat /\ e \in Nat /\ v \in AllWindows
  BY DaysAssumption, TextsAssumption
<1>2. /\ BoardAt[v][s] = BoardKey(App, Board, Zone, PeriodKey(v, d), Channel)
      /\ BoardAt[v][t] = BoardKey(App, Board, Zone, PeriodKey(v, e), Channel)
  BY KeysAssumption
<1>3. <<s, t>> \in TimesOfOnePeriod[v] <=> SamePeriod(v, d, e)
  BY DEF TimesOfOnePeriod
<1> HIDE DEF d, e
<1>4. PeriodKey(v, d) = PeriodKey(v, e) <=> SamePeriod(v, d, e)
  BY <1>1, KeysArePeriods
<1>5. BoardAt[v][s] = BoardAt[v][t] => PeriodKey(v, d) = PeriodKey(v, e)
  BY <1>2, PeriodInKey
<1> QED BY <1>2, <1>3, <1>4, <1>5

-----------------------------------------------------------------------------
(* Scores and their boards *)

\* Every score ever stored is on the board of the time it was submitted at.
InPlace ==
    \A b \in Boards, p \in Players : \A h \in history[b][p] :
        h[2] \in Times /\ \E v \in Windows : BoardAt[v][h[2]] = b

LEMMA EntryInPlace ==
    ASSUME ShapeInv, InPlace, NEW w \in Writers, StoreEntry(writer[w]),
           writer[w].pc \in {"upsert", "exec"}
    PROVE  InPlace'
<1> DEFINE wr == writer[w]
           v  == wr.targets[wr.i]
<1>1. /\ wr.at \in Times /\ wr.player \in Players /\ v \in Windows
      /\ history \in [Boards -> [Players -> SUBSET (Nat \X Times)]]
  <2>1. wr \in WriterState /\ AtWork(wr, rows)
    BY DEF ShapeInv, TypeOK, WriterInv
  <2>2. wr.targets \in Seq(Windows) /\ wr.i \in 1..Len(wr.targets)
    BY <2>1 DEF WriterState, AtWork
  <2> QED BY <2>1, <2>2 DEF WriterState, AtWork, ShapeInv, TypeOK
<1>2. history' = [history EXCEPT ![BoardAt[v][wr.at]][wr.player] = @ \union {<<wr.score, wr.at>>}]
  BY DEF StoreEntry, BoardOf
<1> HIDE DEF wr, v
<1> SUFFICES ASSUME NEW b \in Boards, NEW p \in Players, NEW h \in history'[b][p]
             PROVE  h[2] \in Times /\ \E u \in Windows : BoardAt[u][h[2]] = b
  BY DEF InPlace
<1>3. h \in history[b][p] \/ (h = <<wr.score, wr.at>> /\ b = BoardAt[v][wr.at])
  BY <1>1, <1>2
<1> QED BY <1>1, <1>3 DEF InPlace

LEMMA InPlaceStep == ShapeInv /\ InPlace /\ [Next]_vars => InPlace'
<1> SUFFICES ASSUME ShapeInv, InPlace, [Next]_vars
             PROVE  InPlace'
  OBVIOUS
<1>1. CASE UNCHANGED history
  BY <1>1 DEF InPlace
<1>2. CASE Restart
  BY <1>2 DEF Restart, NoHistory, InPlace
<1>3. ASSUME NEW w \in Writers, Shapes(w)
      PROVE  InPlace'
  BY <1>1, <1>3, EntryInPlace DEF Shapes, Accepts, Records, Moves, EndsWindow, GivesUp
<1> QED BY <1>1, <1>2, <1>3, StepShape

\* A board holds scores of one period, and a period's scores are on one board,
\* for every calendar of days and every combination of windows (domain.go
\* PeriodKey, service.go UpsertMaxScore: the clock is read once).
THEOREM BoardsAreAlwaysPeriods == Spec => []BoardsArePeriods
<1>1. Init => InPlace
  BY DEF Init, NoHistory, InPlace
<1>2. InPlace => BoardsArePeriods
  <2> SUFFICES ASSUME InPlace, NEW v \in Windows, NEW s \in Times, NEW t \in Times,
                      NEW p \in Players, NEW q \in Players,
                      NEW h \in history[BoardAt[v][s]][p], NEW g \in history[BoardAt[v][t]][q]
               PROVE  BoardAt[v][s] = BoardAt[v][t] <=> <<h[2], g[2]>> \in TimesOfOnePeriod[v]
    BY DEF BoardsArePeriods
  <2>1. BoardAt[v][s] \in Boards /\ BoardAt[v][t] \in Boards
    BY BoardsAssumption
  <2>2. /\ h[2] \in Times /\ \E u \in Windows : BoardAt[u][h[2]] = BoardAt[v][s]
        /\ g[2] \in Times /\ \E u \in Windows : BoardAt[u][g[2]] = BoardAt[v][t]
    BY <2>1 DEF InPlace
  <2>3. BoardAt[v][h[2]] = BoardAt[v][s] /\ BoardAt[v][g[2]] = BoardAt[v][t]
    BY <2>2, WindowsHaveOwnBoards
  <2> QED BY <2>2, <2>3, SameBoard
<1>3. ShapeInv /\ InPlace /\ [Next]_vars => InPlace'
  BY InPlaceStep
<1> QED BY <1>1, <1>2, <1>3, InitialShape, ShapePreserved, PTL DEF Spec
=============================================================================
