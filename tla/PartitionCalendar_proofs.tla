---------------------- MODULE PartitionCalendar_proofs ----------------------
(***************************************************************************)
(* Proofs about PartitionCalendar, for every day and every time.  A day of *)
(* an era is counted in centuries, cycles of four years, years and days:   *)
(* with those numbers the formula for the year of a day is linear.  A date *)
(* is then a day of a month, months have numbers, and a month with a       *)
(* greater number begins later; so a day is in one month, and what a name  *)
(* stands for is between the beginnings of two months.                     *)
(***************************************************************************)
EXTENDS PartitionCalendar, TLAPS

(* Division that rounds toward zero, put right, rounds down.               *)
LEMMA ErasRoundDown ==
    ASSUME NEW z \in Int
    PROVE  /\ EraOfYear(z) = z \div 400
           /\ EraOfDay(z) = z \div 146097
BY SMT DEF EraOfYear, EraOfDay, Quotient

(* A quotient is known by its remainder.                                   *)
LEMMA QuotientIs ==
    ASSUME NEW n \in Nat, n > 0, NEW q \in Int, NEW r \in Nat, r < n
    PROVE  (n * q + r) \div n = q
BY SMT

Divided(a, n, q, r) == a = n * q + r /\ 0 <= r /\ r < n

(* Every number has a quotient and a remainder.                            *)
LEMMA Division ==
    ASSUME NEW a \in Int, NEW n \in Nat, n > 0
    PROVE  \E q, r \in Int : Divided(a, n, q, r)
<1>1. /\ a \div n \in Int /\ a % n \in Int /\ 0 <= a % n /\ a % n < n
      /\ a = (n * (a \div n)) + (a % n)
  BY SMT
<1>2. Divided(a, n, a \div n, a % n)
  BY <1>1 DEF Divided
<1> QED BY <1>1, <1>2

(* A day of an era: century c, cycle k of four years, year j, day d.  A    *)
(* day 365 is the leap day of the last year of a cycle.                    *)
InCentury(doe, c, r) ==
    doe = 36524 * c + r /\ 0 <= c /\ c <= 3 /\ 0 <= r /\ r <= 36524 /\ (c < 3 => r < 36524)
InCycle(r, k, s) ==
    r = 1461 * k + s /\ 0 <= k /\ k <= 24 /\ 0 <= s /\ s <= 1460
InYear(s, j, d) ==
    s = 365 * j + d /\ 0 <= j /\ j <= 3 /\ 0 <= d /\ d <= 365 /\ (d = 365 => j = 3)
Counted(doe, c, k, j, d) ==
    /\ 0 <= c /\ c <= 3 /\ 0 <= k /\ k <= 24 /\ 0 <= j /\ j <= 3 /\ 0 <= d /\ d <= 365
    /\ doe = 36524 * c + 1461 * k + 365 * j + d
    /\ d = 365 => j = 3 /\ (k < 24 \/ c = 3)

(* The century of a day of an era: the last one has a day more.            *)
LEMMA CenturyOf ==
    ASSUME NEW doe \in Nat, doe < 146097
    PROVE  \E c, r \in Int : InCentury(doe, c, r)
<1>1. PICK q, r \in Int : Divided(doe, 36524, q, r)
  BY Division, SMT
<1>2. CASE q < 4
  <2>1. InCentury(doe, q, r)
    BY <1>1, <1>2, SMT DEF Divided, InCentury
  <2> QED BY <2>1
<1>3. CASE q >= 4
  <2>1. InCentury(doe, 3, 36524)
    BY <1>1, <1>3, SMT DEF Divided, InCentury
  <2> QED BY <2>1, SMT
<1> QED BY <1>2, <1>3, SMT

(* The cycle of four years of a day of a century.                          *)
LEMMA CycleOf ==
    ASSUME NEW r \in Int, 0 <= r, r <= 36524
    PROVE  \E k, s \in Int : InCycle(r, k, s)
<1>1. PICK k, s \in Int : Divided(r, 1461, k, s)
  BY Division, SMT
<1>2. InCycle(r, k, s)
  BY <1>1, SMT DEF Divided, InCycle
<1> QED BY <1>2

(* The year of a day of a cycle: the last one has a day more.              *)
LEMMA YearOf ==
    ASSUME NEW s \in Int, 0 <= s, s <= 1460
    PROVE  \E j, d \in Int : InYear(s, j, d)
<1>1. PICK q, d \in Int : Divided(s, 365, q, d)
  BY Division, SMT
<1>2. CASE q < 4
  <2>1. InYear(s, q, d)
    BY <1>1, <1>2, SMT DEF Divided, InYear
  <2> QED BY <2>1
<1>3. CASE q >= 4
  <2>1. InYear(s, 3, 365)
    BY <1>1, <1>3, SMT DEF Divided, InYear
  <2> QED BY <2>1, SMT
<1> QED BY <1>2, <1>3, SMT

(* So every day of an era is counted.                                      *)
LEMMA EraDivides ==
    ASSUME NEW doe \in Nat, doe < 146097
    PROVE  \E c, k, j, d \in Int : Counted(doe, c, k, j, d)
<1>1. PICK c, r \in Int : InCentury(doe, c, r)
  BY CenturyOf
<1>2. PICK k, s \in Int : InCycle(r, k, s)
  <2>1. 0 <= r /\ r <= 36524
    BY <1>1, SMT DEF InCentury
  <2> QED BY <2>1, CycleOf
<1>3. PICK j, d \in Int : InYear(s, j, d)
  <2>1. 0 <= s /\ s <= 1460
    BY <1>2, SMT DEF InCycle
  <2> QED BY <2>1, YearOf
<1>4. Counted(doe, c, k, j, d)
  BY <1>1, <1>2, <1>3, SMT DEF InCentury, InCycle, InYear, Counted
<1> QED BY <1>4

(* Days before a year of an era, and the length of the year.               *)
LEMMA DaysOfYears ==
    ASSUME NEW c \in Int, NEW k \in Int, NEW j \in Int,
           0 <= c, c <= 3, 0 <= k, k <= 24, 0 <= j, j <= 3
    PROVE  DaysBefore(100 * c + 4 * k + j) = 36524 * c + 1461 * k + 365 * j
BY SMT DEF DaysBefore

(* The days before the next year: a leap day ends all cycles but the last. *)
LEMMA YearLength ==
    ASSUME NEW c \in Int, NEW k \in Int, NEW j \in Int,
           0 <= c, c <= 3, 0 <= k, k <= 24, 0 <= j, j <= 3
    PROVE  DaysBefore(100 * c + 4 * k + j + 1) =
              36524 * c + 1461 * k + 365 * j + 365 + Bit(j = 3 /\ k < 24)
BY SMT DEF DaysBefore, Bit

(* civil_from_days: the year of a day of an era.                           *)
LEMMA YearFound ==
    ASSUME NEW doe \in Nat, doe < 146097
    PROVE  /\ YearOfEra(doe) \in Nat /\ YearOfEra(doe) < 400
           /\ DaysBefore(YearOfEra(doe)) <= doe
           /\ doe < DaysBefore(YearOfEra(doe) + 1) \/ (doe = 146096 /\ YearOfEra(doe) = 399)
<1>1. PICK c, k, j, d \in Int : Counted(doe, c, k, j, d)
  BY EraDivides, SMT
<1> DEFINE y == 100 * c + 4 * k + j
           e == 24 * c + k + 365 * j + d
<1>2. /\ 0 <= c /\ c <= 3 /\ 0 <= k /\ k <= 24 /\ 0 <= j /\ j <= 3 /\ 0 <= d /\ d <= 365
      /\ doe = 36524 * c + 1461 * k + 365 * j + d
      /\ d = 365 => j = 3 /\ (k < 24 \/ c = 3)
  BY <1>1 DEF Counted
<1>3. PICK o \in Int : o \in {0, 1} /\ (o = 1 <=> e >= 1460)
  BY <1>2, SMT
<1>4. doe \div 1460 = 25 * c + k + o
  <2>1. doe = 1460 * (25 * c + k + o) + (e - 1460 * o)
    BY <1>2, <1>3, SMT
  <2>2. e - 1460 * o \in Nat /\ e - 1460 * o < 1460
    BY <1>2, <1>3, SMT
  <2> QED BY <2>1, <2>2, <1>3, QuotientIs, SMT
<1>5. doe \div 36524 - doe \div 146096 = c
  BY <1>2, SMT
<1>6. doe - (doe \div 1460) + (doe \div 36524) - (doe \div 146096) = 365 * y + (d - o)
  BY <1>2, <1>3, <1>4, <1>5, SMT
<1>7. d - o \in Nat /\ d - o < 365
  BY <1>2, <1>3, SMT
<1>8. YearOfEra(doe) = y
  BY <1>6, <1>7, QuotientIs, SMT DEF YearOfEra
<1>9. y \in Nat /\ y < 400 /\ DaysBefore(y) = doe - d
  BY <1>2, DaysOfYears, SMT
<1>10. doe < DaysBefore(y + 1) \/ (doe = 146096 /\ y = 399)
  <2>1. DaysBefore(y + 1) = 36524 * c + 1461 * k + 365 * j + 365 + Bit(j = 3 /\ k < 24)
    BY <1>2, YearLength, SMT
  <2>2. CASE d < 365
    BY <1>2, <2>1, <2>2, SMT DEF Bit
  <2>3. CASE d = 365 /\ k < 24
    BY <1>2, <2>1, <2>3, SMT DEF Bit
  <2>4. CASE d = 365 /\ k = 24
    BY <1>2, <2>4, SMT
  <2> QED BY <1>2, <2>2, <2>3, <2>4, SMT
<1> QED BY <1>2, <1>8, <1>9, <1>10, SMT

(* civil_from_days: the month, counted from March, of a day of a year.     *)
LEMMA MonthFound ==
    ASSUME NEW doy \in Nat, doy <= 365
    PROVE  /\ (5 * doy + 2) \div 153 \in Nat /\ (5 * doy + 2) \div 153 <= 11
           /\ MonthStart((5 * doy + 2) \div 153) <= doy
           /\ doy < MonthStart((5 * doy + 2) \div 153 + 1)
BY SMT DEF MonthStart

----------------------------------------------------------------------------
(* The first of March of a year, and the first day of month n, counted     *)
(* from the March of year 0.                                               *)
MarchFirst(y) == 365 * y + (y \div 4) - (y \div 100) + (y \div 400) - 719468
FirstOfMonth(n) == MarchFirst(n \div 12) + MonthStart(n % 12)

(* A day of an era, from the first of March of its year.                   *)
LEMMA MarchOfEra ==
    ASSUME NEW era \in Int, NEW yoe \in Int, 0 <= yoe, yoe < 400, NEW doy \in Int
    PROVE  DaysOf(era, yoe, doy) = MarchFirst(400 * era + yoe) + doy
BY SMT DEF DaysOf, DaysBefore, MarchFirst

(* The year of an era is one of 400.                                       *)
LEMMA EraOfCounted ==
    ASSUME NEW y \in Int
    PROVE  /\ EraOfYear(y) \in Int
           /\ 0 <= y - EraOfYear(y) * 400 /\ y - EraOfYear(y) * 400 < 400
BY ErasRoundDown, SMT

(* days_from_civil: a day of a month counted from March.                   *)
LEMMA DaysOfCivil ==
    ASSUME NEW y \in Int, NEW m \in Int, 1 <= m, m <= 12, NEW d \in Int
    PROVE  DaysFromCivil(y, m, d) = FirstOfMonth(12 * y + m - 3) + d - 1
<1>1. CASE m > 2
  <2>1. DaysFromCivil(y, m, d) =
          DaysOf(EraOfYear(y), y - EraOfYear(y) * 400, MonthStart(m - 3) + d - 1)
    BY <1>1, SMT DEF DaysFromCivil, Bit
  <2>2. MonthStart(m - 3) \in Int
    BY <1>1, SMT DEF MonthStart
  <2>3. DaysFromCivil(y, m, d) = MarchFirst(y) + MonthStart(m - 3) + d - 1
    <3>1. DaysOf(EraOfYear(y), y - EraOfYear(y) * 400, MonthStart(m - 3) + d - 1)
            = MarchFirst(400 * EraOfYear(y) + (y - EraOfYear(y) * 400)) + (MonthStart(m - 3) + d - 1)
      <4> DEFINE era == EraOfYear(y)
                 yoe == y - era * 400
                 doy == MonthStart(m - 3) + d - 1
      <4>1. doy \in Int
        BY <2>2, SMT
      <4>2. era \in Int /\ yoe \in Int /\ 0 <= yoe /\ yoe < 400
        BY EraOfCounted, SMT
      <4> HIDE DEF era, yoe, doy
      <4>3. DaysOf(era, yoe, doy) = MarchFirst(400 * era + yoe) + doy
        BY <4>1, <4>2, MarchOfEra
      <4> QED BY <4>3 DEF era, yoe, doy
    <3>2. 400 * EraOfYear(y) + (y - EraOfYear(y) * 400) = y
      BY EraOfCounted, SMT
    <3>3. MarchFirst(y) \in Int
      BY SMT DEF MarchFirst
    <3> QED BY <2>1, <2>2, <3>1, <3>2, <3>3, SMT
  <2>4. (12 * y + m - 3) \div 12 = y /\ (12 * y + m - 3) % 12 = m - 3
    BY <1>1, SMT
  <2> QED BY <2>3, <2>4, SMT DEF FirstOfMonth
<1>2. CASE m <= 2
  <2>1. DaysFromCivil(y, m, d) =
          DaysOf(EraOfYear(y - 1), (y - 1) - EraOfYear(y - 1) * 400, MonthStart(m + 9) + d - 1)
    BY <1>2, SMT DEF DaysFromCivil, Bit
  <2>2. MonthStart(m + 9) \in Int
    BY <1>2, SMT DEF MonthStart
  <2>3. DaysFromCivil(y, m, d) = MarchFirst(y - 1) + MonthStart(m + 9) + d - 1
    <3>1. DaysOf(EraOfYear(y - 1), (y - 1) - EraOfYear(y - 1) * 400, MonthStart(m + 9) + d - 1)
            = MarchFirst(400 * EraOfYear(y - 1) + ((y - 1) - EraOfYear(y - 1) * 400))
              + (MonthStart(m + 9) + d - 1)
      <4> DEFINE x == y - 1
                 era == EraOfYear(x)
                 yoe == x - era * 400
                 doy == MonthStart(m + 9) + d - 1
      <4>1. x \in Int /\ doy \in Int
        BY <2>2, SMT
      <4> HIDE DEF x, doy
      <4>2. era \in Int /\ yoe \in Int /\ 0 <= yoe /\ yoe < 400
        BY <4>1, EraOfCounted, SMT
      <4> HIDE DEF era, yoe
      <4>3. DaysOf(era, yoe, doy) = MarchFirst(400 * era + yoe) + doy
        BY <4>1, <4>2, MarchOfEra
      <4> QED BY <4>3 DEF x, era, yoe, doy
    <3>2. 400 * EraOfYear(y - 1) + ((y - 1) - EraOfYear(y - 1) * 400) = y - 1
      BY EraOfCounted, SMT
    <3>3. MarchFirst(y - 1) \in Int
      BY SMT DEF MarchFirst
    <3> QED BY <2>1, <2>2, <3>1, <3>2, <3>3, SMT
  <2>4. (12 * y + m - 3) \div 12 = y - 1 /\ (12 * y + m - 3) % 12 = m + 9
    BY <1>2, SMT
  <2> QED BY <2>3, <2>4, SMT DEF FirstOfMonth
<1> QED BY <1>1, <1>2, SMT

(* The first of a month is a day.                                          *)
LEMMA FirstIsDay ==
    ASSUME NEW n \in Int
    PROVE  FirstOfMonth(n) \in Int
BY SMT DEF FirstOfMonth, MarchFirst, MonthStart

(* partition_range: the month after December is January of the next year.  *)
LEMMA FirstOfNext ==
    ASSUME NEW y \in Int, NEW m \in Int, 1 <= m, m <= 12
    PROVE  DaysFromCivil(y + Bit(m = 12), (m % 12) + 1, 1) = FirstOfMonth(12 * y + m - 3 + 1)
<1>1. CASE m = 12
  <2>1. DaysFromCivil(y + 1, 1, 1) = FirstOfMonth(12 * (y + 1) + 1 - 3) + 1 - 1
    BY DaysOfCivil, SMT
  <2>2. 12 * (y + 1) + 1 - 3 = 12 * y + m - 3 + 1 /\ Bit(m = 12) = 1 /\ (m % 12) + 1 = 1
    BY <1>1, SMT DEF Bit
  <2>3. FirstOfMonth(12 * y + m - 3 + 1) \in Int
    BY FirstIsDay, SMT
  <2> QED BY <2>1, <2>2, <2>3, SMT
<1>2. CASE m < 12
  <2>1. DaysFromCivil(y, m + 1, 1) = FirstOfMonth(12 * y + (m + 1) - 3) + 1 - 1
    BY <1>2, DaysOfCivil, SMT
  <2>2. 12 * y + (m + 1) - 3 = 12 * y + m - 3 + 1 /\ y + Bit(m = 12) = y /\ (m % 12) + 1 = m + 1
    BY <1>2, SMT DEF Bit
  <2>3. FirstOfMonth(12 * y + m - 3 + 1) \in Int
    BY FirstIsDay, SMT
  <2> QED BY <2>1, <2>2, <2>3, SMT
<1> QED BY <1>1, <1>2, SMT

(* Months by number: of a year y and a month m.                            *)
IsMonth(m) == m \in Int /\ 1 <= m /\ m <= 12
Serial(y, m) == 12 * y + m - 3

(* The first of a month and of the next, by the number of the month.       *)
LEMMA MonthStarts ==
    ASSUME NEW y \in Int, NEW m, IsMonth(m)
    PROVE  /\ Serial(y, m) \in Int
           /\ DaysFromCivil(y, m, 1) = FirstOfMonth(Serial(y, m))
           /\ DaysFromCivil(y + Bit(m = 12), (m % 12) + 1, 1) = FirstOfMonth(Serial(y, m) + 1)
<1>1. m \in Int /\ 1 <= m /\ m <= 12
  BY DEF IsMonth
<1>2. DaysFromCivil(y, m, 1) = FirstOfMonth(12 * y + m - 3) + 1 - 1
  BY <1>1, DaysOfCivil, SMT
<1>3. FirstOfMonth(12 * y + m - 3) \in Int
  BY <1>1, FirstIsDay, SMT
<1>4. DaysFromCivil(y, m, 1) = FirstOfMonth(12 * y + m - 3)
  BY <1>2, <1>3, SMT
<1>5. DaysFromCivil(y + Bit(m = 12), (m % 12) + 1, 1) = FirstOfMonth(12 * y + m - 3 + 1)
  BY <1>1, FirstOfNext
<1> QED BY <1>1, <1>4, <1>5, SMT DEF Serial

(* The first of January of the next year.                                  *)
LEMMA YearStarts ==
    ASSUME NEW y \in Int
    PROVE  IsMonth(1) /\ DaysFromCivil(y + 1, 1, 1) = FirstOfMonth(Serial(y + 1, 1))
<1>1. IsMonth(1) /\ y + 1 \in Int
  BY SMT DEF IsMonth
<1> QED BY <1>1, MonthStarts

(* Months with one number are one month, and so with the key of a month.   *)
LEMMA SerialIsOne ==
    ASSUME NEW y \in Int, NEW m, IsMonth(m), NEW z \in Int, NEW k, IsMonth(k)
    PROVE  /\ (y * 12 + m - 1 = z * 12 + k - 1) <=> (y = z /\ m = k)
           /\ Serial(y, m) = Serial(z, k) => y = z /\ m = k
<1>1. m \in Int /\ 1 <= m /\ m <= 12 /\ k \in Int /\ 1 <= k /\ k <= 12
  BY DEF IsMonth
<1> QED BY <1>1, SMT DEF Serial

(* From a number to the next there is one month.                           *)
LEMMA MonthBetween ==
    ASSUME NEW y \in Int, NEW m, IsMonth(m), NEW z \in Int, NEW k, IsMonth(k)
    PROVE  (Serial(y, m) <= Serial(z, k) /\ ~(Serial(y, m) + 1 <= Serial(z, k)))
              <=> (y = z /\ m = k)
<1>1. m \in Int /\ 1 <= m /\ m <= 12 /\ k \in Int /\ 1 <= k /\ k <= 12
  BY DEF IsMonth
<1> QED BY <1>1, SMT DEF Serial

(* From January to January there are the months of one year.               *)
LEMMA YearBetween ==
    ASSUME NEW y \in Int, NEW m, IsMonth(m), NEW z \in Int, NEW k, IsMonth(k)
    PROVE  (Serial(y, 1) <= Serial(z, k) /\ ~(Serial(y + 1, 1) <= Serial(z, k))) <=> y = z
<1>1. m \in Int /\ 1 <= m /\ m <= 12 /\ k \in Int /\ 1 <= k /\ k <= 12
  BY DEF IsMonth
<1> QED BY <1>1, SMT DEF Serial

(* A later year begins later, by a year at least.                          *)
LEMMA MarchesAscend ==
    ASSUME NEW y \in Int, NEW z \in Int, y < z
    PROVE  MarchFirst(y) + 365 <= MarchFirst(z)
<1>1. PICK a, b \in Int : Divided(y, 100, a, b)
  BY Division, SMT
<1>2. PICK e, f \in Int : Divided(z, 100, e, f)
  BY Division, SMT
<1>3. MarchFirst(y) = 365 * y + 24 * a + (b \div 4) + (a \div 4) - 719468
  BY <1>1, SMT DEF Divided, MarchFirst
<1>4. MarchFirst(z) = 365 * z + 24 * e + (f \div 4) + (e \div 4) - 719468
  BY <1>2, SMT DEF Divided, MarchFirst
<1>5. 24 * a + (b \div 4) + (a \div 4) <= 24 * e + (f \div 4) + (e \div 4)
  BY <1>1, <1>2, SMT DEF Divided
<1> QED BY <1>1, <1>2, <1>3, <1>4, <1>5, SMT

(* The same for months: twelve of them are within a year.                  *)
LEMMA MonthsAscend ==
    ASSUME NEW n \in Int, NEW p \in Int, n < p
    PROVE  FirstOfMonth(n) < FirstOfMonth(p)
<1>1. PICK y, m \in Int : Divided(n, 12, y, m)
  BY Division, SMT
<1>2. PICK z, k \in Int : Divided(p, 12, z, k)
  BY Division, SMT
<1>3. FirstOfMonth(n) = MarchFirst(y) + MonthStart(m)
  <2>1. n \div 12 = y /\ n % 12 = m
    BY <1>1, SMT DEF Divided
  <2> QED BY <2>1 DEF FirstOfMonth
<1>4. FirstOfMonth(p) = MarchFirst(z) + MonthStart(k)
  <2>1. p \div 12 = z /\ p % 12 = k
    BY <1>2, SMT DEF Divided
  <2> QED BY <2>1 DEF FirstOfMonth
<1>5. MarchFirst(y) \in Int /\ MarchFirst(z) \in Int
  BY SMT DEF MarchFirst
<1>6. CASE y < z
  <2>1. MonthStart(m) \in Int /\ MonthStart(m) <= 337 /\ MonthStart(k) \in Int /\ 0 <= MonthStart(k)
    BY <1>1, <1>2, SMT DEF Divided, MonthStart
  <2> QED BY <1>3, <1>4, <1>5, <1>6, <2>1, MarchesAscend, SMT
<1>7. CASE y = z
  <2>1. MonthStart(m) \in Int /\ MonthStart(k) \in Int /\ MonthStart(m) < MonthStart(k)
    BY <1>1, <1>2, <1>7, SMT DEF Divided, MonthStart
  <2> QED BY <1>3, <1>4, <1>5, <1>7, <2>1, SMT
<1> QED BY <1>1, <1>2, <1>6, <1>7, SMT DEF Divided

----------------------------------------------------------------------------
(* Dates, and the number of the month of one.                              *)
IsDate(c) == c.y \in Int /\ IsMonth(c.m) /\ c.d \in Int /\ 1 <= c.d
MonthIndex(c) == Serial(c.y, c.m)

(* From the day in a year down to the month.                               *)
LEMMA DateOfYear ==
    ASSUME NEW y \in Int, NEW doy \in Int, 0 <= doy, doy <= 365,
           MarchFirst(y) + doy < MarchFirst(y + 1)
    PROVE  LET c == DateInYear(y, doy)
           IN  /\ c = [y |-> c.y, m |-> c.m, d |-> c.d]
               /\ IsDate(c)
               /\ FirstOfMonth(MonthIndex(c)) + c.d - 1 = MarchFirst(y) + doy
               /\ MarchFirst(y) + doy < FirstOfMonth(MonthIndex(c) + 1)
<1> DEFINE c == DateInYear(y, doy)
<1>1. PICK mp \in Int : mp = (5 * doy + 2) \div 153
  BY SMT
<1>2. 0 <= mp /\ mp <= 11 /\ MonthStart(mp) <= doy /\ doy < MonthStart(mp + 1)
  BY <1>1, MonthFound, SMT
<1>3. MonthStart(mp) \in Int /\ MonthStart(mp + 1) \in Int /\ MarchFirst(y) \in Int
  BY SMT DEF MonthStart, MarchFirst
<1>4. c = DateInMonth(y, doy, mp)
  BY <1>1, SMT DEF DateInYear
<1>5. CASE mp < 10
  <2>1. c = [y |-> y, m |-> mp + 3, d |-> doy - MonthStart(mp) + 1]
    BY <1>2, <1>4, <1>5, SMT DEF DateInMonth, Bit
  <2>2. MonthIndex(c) = 12 * y + mp
    BY <2>1, SMT DEF MonthIndex, Serial
  <2>3. FirstOfMonth(12 * y + mp) = MarchFirst(y) + MonthStart(mp)
    <3>1. (12 * y + mp) \div 12 = y /\ (12 * y + mp) % 12 = mp
      BY <1>2, SMT
    <3> QED BY <3>1 DEF FirstOfMonth
  <2>4. FirstOfMonth(12 * y + mp + 1) = MarchFirst(y) + MonthStart(mp + 1)
    <3>1. (12 * y + mp + 1) \div 12 = y /\ (12 * y + mp + 1) % 12 = mp + 1
      BY <1>2, <1>5, SMT
    <3> QED BY <3>1 DEF FirstOfMonth
  <2>5. IsDate(c)
    BY <1>2, <1>3, <1>5, <2>1, SMT DEF IsDate, IsMonth
  <2> QED BY <1>2, <1>3, <2>1, <2>2, <2>3, <2>4, <2>5, SMT
<1>6. CASE mp >= 10
  <2>1. c = [y |-> y + 1, m |-> mp - 9, d |-> doy - MonthStart(mp) + 1]
    BY <1>2, <1>4, <1>6, SMT DEF DateInMonth, Bit
  <2>2. MonthIndex(c) = 12 * y + mp
    BY <2>1, SMT DEF MonthIndex, Serial
  <2>3. FirstOfMonth(12 * y + mp) = MarchFirst(y) + MonthStart(mp)
    <3>1. (12 * y + mp) \div 12 = y /\ (12 * y + mp) % 12 = mp
      BY <1>2, SMT
    <3> QED BY <3>1 DEF FirstOfMonth
  <2>4. MarchFirst(y) + doy < FirstOfMonth(12 * y + mp + 1)
    <3>1. CASE mp = 10
      <4>1. (12 * y + mp + 1) \div 12 = y /\ (12 * y + mp + 1) % 12 = mp + 1
        BY <3>1, SMT
      <4>2. FirstOfMonth(12 * y + mp + 1) = MarchFirst(y) + MonthStart(mp + 1)
        BY <4>1 DEF FirstOfMonth
      <4> QED BY <1>2, <1>3, <4>2, SMT
    <3>2. CASE mp = 11
      <4>1. (12 * y + mp + 1) \div 12 = y + 1 /\ (12 * y + mp + 1) % 12 = 0
        BY <3>2, SMT
      <4>2. FirstOfMonth(12 * y + mp + 1) = MarchFirst(y + 1) + MonthStart(0)
        BY <4>1 DEF FirstOfMonth
      <4>3. MonthStart(0) = 0 /\ MarchFirst(y + 1) \in Int
        BY SMT DEF MonthStart, MarchFirst
      <4> QED BY <4>2, <4>3, SMT
    <3> QED BY <1>2, <1>6, <3>1, <3>2, SMT
  <2>5. IsDate(c)
    BY <1>2, <1>3, <1>6, <2>1, SMT DEF IsDate, IsMonth
  <2> QED BY <1>2, <1>3, <2>1, <2>2, <2>3, <2>4, <2>5, SMT
<1> QED BY <1>2, <1>5, <1>6, SMT

(* civil_from_days: the month of a day.                                    *)
LEMMA DateOfDay ==
    ASSUME NEW day \in Int
    PROVE  LET c == CivilFromDays(day)
           IN  /\ c = [y |-> c.y, m |-> c.m, d |-> c.d]
               /\ IsDate(c)
               /\ FirstOfMonth(MonthIndex(c)) + c.d - 1 = day
               /\ day < FirstOfMonth(MonthIndex(c) + 1)
<1>1. PICK era, doe \in Int : Divided(day + 719468, 146097, era, doe)
  BY Division, SMT
<1>2. EraOfDay(day + 719468) = era
  <2>1. day + 719468 \in Int /\ EraOfDay(day + 719468) = (day + 719468) \div 146097
    BY ErasRoundDown, SMT
  <2>2. day + 719468 = 146097 * era + doe /\ doe \in Nat /\ doe < 146097
    BY <1>1, SMT DEF Divided
  <2>3. (146097 * era + doe) \div 146097 = era
    BY <2>2, QuotientIs, SMT
  <2> QED BY <2>1, <2>2, <2>3
<1>3. doe \in Nat /\ doe < 146097 /\ day + 719468 = 146097 * era + doe
  BY <1>1, SMT DEF Divided
<1>4. CivilFromDays(day) = DateInEra(era, doe)
  <2>1. (day + 719468) - era * 146097 = doe
    BY <1>3, SMT
  <2> QED BY <1>2, <2>1 DEF CivilFromDays
<1>5. PICK yoe \in Int : yoe = YearOfEra(doe)
  BY <1>3, YearFound, SMT
<1>6. /\ 0 <= yoe /\ yoe < 400 /\ DaysBefore(yoe) <= doe
      /\ doe < DaysBefore(yoe + 1) \/ (doe = 146096 /\ yoe = 399)
  BY <1>3, <1>5, YearFound, SMT
<1>7. PICK doy \in Int : doy = doe - DaysBefore(yoe)
  BY <1>3, SMT DEF DaysBefore
<1>8. CivilFromDays(day) = DateInYear(yoe + era * 400, doy)
  BY <1>4, <1>5, <1>7 DEF DateInEra
<1>9. PICK y \in Int : y = yoe + era * 400
  BY SMT
<1>10. MarchFirst(y) + doy = day
  <2>1. DaysOf(era, yoe, doy) = MarchFirst(400 * era + yoe) + doy
    BY <1>6, MarchOfEra, SMT
  <2>2. 400 * era + yoe = y
    BY <1>9, SMT
  <2>3. DaysOf(era, yoe, doy) = era * 146097 + (DaysBefore(yoe) + doy) - 719468
    BY SMT DEF DaysOf
  <2>4. DaysBefore(yoe) \in Int
    BY SMT DEF DaysBefore
  <2> QED BY <1>3, <1>7, <2>1, <2>2, <2>3, <2>4, SMT
<1>11. day < MarchFirst(y + 1)
  <2>1. CASE doe < DaysBefore(yoe + 1)
    BY <1>3, <1>6, <1>9, <2>1, SMT DEF MarchFirst, DaysBefore
  <2>2. CASE doe = 146096 /\ yoe = 399
    BY <1>3, <1>9, <2>2, SMT DEF MarchFirst
  <2> QED BY <1>6, <2>1, <2>2
<1>12. 0 <= doy /\ doy <= 365
  BY <1>3, <1>6, <1>7, SMT DEF DaysBefore
<1> QED BY <1>8, <1>9, <1>10, <1>11, <1>12, DateOfYear

----------------------------------------------------------------------------
(* days_from_civil takes the date of a day back to the day.                *)
LEMMA DayOfDate ==
    ASSUME NEW day \in Int
    PROVE  LET c == CivilFromDays(day)
           IN  DaysFromCivil(c.y, c.m, c.d) = day
BY DateOfDay, DaysOfCivil, SMT DEF IsDate, IsMonth, MonthIndex, Serial

(* The days before and from a day on are known by the values of the axis.  *)
LEMMA ValueAfter ==
    ASSUME NEW v \in Int, NEW day \in Int, NEW tt
    PROVE  /\ ValueToDays(v, tt) \in Int /\ DaysToValue(day, tt) \in Int
           /\ DaysToValue(day, tt) <= v <=> day <= ValueToDays(v, tt)
<1>1. CASE tt = "date32"
  BY <1>1, SMT DEF ValueToDays, DaysToValue
<1>2. CASE tt # "date32"
  <2>1. UsPerDay \in Nat /\ UsPerDay > 0
    BY CalendarAssumption, SMT
  <2>2. PICK q, r \in Int : Divided(v, UsPerDay, q, r)
    BY <2>1, Division
  <2>3. v \div UsPerDay = q
    BY <2>1, <2>2, QuotientIs, SMT DEF Divided
  <2>4. day * UsPerDay <= v <=> day <= q
    <3>1. PICK t \in Int : t = q - day
      BY SMT
    <3>2. v = UsPerDay * day + UsPerDay * t + r
      BY <2>1, <2>2, <3>1, SMT DEF Divided
    <3>3. t >= 0 => UsPerDay * t >= 0
      BY <2>1, SMT
    <3>4. t < 0 => UsPerDay * t <= -UsPerDay
      BY <2>1, SMT
    <3> QED BY <2>1, <2>2, <3>1, <3>2, <3>3, <3>4, SMT DEF Divided
  <2>5. ValueToDays(v, tt) = q /\ DaysToValue(day, tt) = day * UsPerDay
    BY <1>2, <2>3 DEF ValueToDays, DaysToValue
  <2>6. day * UsPerDay \in Int
    BY <2>1, SMT
  <2> QED BY <2>4, <2>5, <2>6
<1> QED BY <1>1, <1>2

(* The month of a day is the one that holds it.                            *)
LEMMA MonthOfDay ==
    ASSUME NEW day \in Int, NEW n \in Int
    PROVE  /\ MonthIndex(CivilFromDays(day)) \in Int
           /\ n <= MonthIndex(CivilFromDays(day)) <=> FirstOfMonth(n) <= day
<1> DEFINE c == CivilFromDays(day)
           i == MonthIndex(c)
<1>1. /\ IsDate(c)
      /\ FirstOfMonth(i) + c.d - 1 = day
      /\ day < FirstOfMonth(i + 1)
  BY DateOfDay
<1>2. \A j \in Int : FirstOfMonth(j) \in Int
  BY SMT DEF FirstOfMonth, MarchFirst, MonthStart
<1>3. \A j, k \in Int : j < k => FirstOfMonth(j) < FirstOfMonth(k)
  BY MonthsAscend
<1>4. i \in Int
  BY <1>1, SMT DEF IsDate, IsMonth, MonthIndex, Serial
<1>5. FirstOfMonth(i) <= day
  BY <1>1, <1>2, <1>4, SMT DEF IsDate
<1> HIDE DEF i, c
<1>6. CASE n <= i
  <2>1. FirstOfMonth(n) <= FirstOfMonth(i)
    BY <1>2, <1>3, <1>4, <1>6, SMT
  <2> QED BY <1>2, <1>4, <1>5, <1>6, <2>1, SMT DEF i, c
<1>7. CASE i < n
  <2>1. FirstOfMonth(i + 1) <= FirstOfMonth(n)
    BY <1>2, <1>3, <1>4, <1>7, SMT
  <2> QED BY <1>1, <1>2, <1>4, <1>7, <2>1, SMT DEF i, c
<1> QED BY <1>4, <1>6, <1>7, SMT

----------------------------------------------------------------------------
(* One day of a month is one date.                                         *)
LEMMA SameDayOfMonth ==
    ASSUME NEW first \in Int, NEW c \in Int, NEW d \in Int, first + c - 1 = first + d - 1
    PROVE  c = d
BY SMT

(* The first of the next month comes after as many days as the month has.  *)
LEMMA MonthsHaveLengths ==
    ASSUME NEW y \in Int, NEW m \in 1 .. 12
    PROVE  /\ IsMonth(m) /\ MonthLength(y, m) \in Nat
           /\ FirstOfMonth(Serial(y, m)) \in Int
           /\ FirstOfMonth(Serial(y, m) + 1) = FirstOfMonth(Serial(y, m)) + MonthLength(y, m)
<1>1. IsMonth(m)
  BY SMT DEF IsMonth
<1>2. MonthLength(y, m) \in Nat
  BY SMT DEF MonthLength, Bit
<1>3. FirstOfMonth(Serial(y, m)) \in Int
  BY SMT, FirstIsDay DEF Serial
<1>4. CASE m > 2
  <2>1. (12 * y + m - 3) \div 12 = y /\ (12 * y + m - 3) % 12 = m - 3
    BY <1>4, SMT
  <2>2. FirstOfMonth(Serial(y, m)) = MarchFirst(y) + MonthStart(m - 3)
    BY <2>1 DEF FirstOfMonth, Serial
  <2>3. (12 * y + m - 3 + 1) \div 12 = y /\ (12 * y + m - 3 + 1) % 12 = m - 2
    BY <1>4, SMT
  <2>4. FirstOfMonth(Serial(y, m) + 1) = MarchFirst(y) + MonthStart(m - 2)
    BY <2>3 DEF FirstOfMonth, Serial
  <2>5. MonthStart(m - 3) \in Int /\ MonthStart(m - 2) = MonthStart(m - 3) + MonthLength(y, m)
    BY <1>4, SMT DEF MonthStart, MonthLength
  <2>6. MarchFirst(y) \in Int
    BY SMT DEF MarchFirst
  <2> QED BY <1>1, <1>2, <1>3, <2>2, <2>4, <2>5, <2>6, SMT
<1>5. CASE m = 1
  <2>1. (12 * y + m - 3) \div 12 = y - 1 /\ (12 * y + m - 3) % 12 = 10
    BY <1>5, SMT
  <2>2. FirstOfMonth(Serial(y, m)) = MarchFirst(y - 1) + MonthStart(10)
    BY <2>1 DEF FirstOfMonth, Serial
  <2>3. (12 * y + m - 3 + 1) \div 12 = y - 1 /\ (12 * y + m - 3 + 1) % 12 = 11
    BY <1>5, SMT
  <2>4. FirstOfMonth(Serial(y, m) + 1) = MarchFirst(y - 1) + MonthStart(11)
    BY <2>3 DEF FirstOfMonth, Serial
  <2>5. MonthStart(10) = 306 /\ MonthStart(11) = 337 /\ MonthLength(y, m) = 31
    BY <1>5, SMT DEF MonthStart, MonthLength
  <2>6. MarchFirst(y - 1) \in Int
    BY SMT DEF MarchFirst
  <2> QED BY <1>1, <1>2, <1>3, <2>2, <2>4, <2>5, <2>6, SMT
<1>6. CASE m = 2
  <2>1. (12 * y + m - 3) \div 12 = y - 1 /\ (12 * y + m - 3) % 12 = 11
    BY <1>6, SMT
  <2>2. FirstOfMonth(Serial(y, m)) = MarchFirst(y - 1) + MonthStart(11)
    BY <2>1 DEF FirstOfMonth, Serial
  <2>3. (12 * y + m - 3 + 1) \div 12 = y /\ (12 * y + m - 3 + 1) % 12 = 0
    BY <1>6, SMT
  <2>4. FirstOfMonth(Serial(y, m) + 1) = MarchFirst(y) + MonthStart(0)
    BY <2>3 DEF FirstOfMonth, Serial
  <2>5. MonthStart(0) = 0 /\ MonthStart(11) = 337 /\ MonthLength(y, m) = 28 + Bit(Leap(y))
    BY <1>6, SMT DEF MonthStart, MonthLength
  <2>6. MarchFirst(y) = MarchFirst(y - 1) + 365 + Bit(Leap(y))
    <3>1. CASE Leap(y)
      BY <3>1, SMT DEF MarchFirst, Bit, Leap
    <3>2. CASE ~Leap(y)
      BY <3>2, SMT DEF MarchFirst, Bit, Leap
    <3> QED BY <3>1, <3>2
  <2>7. MarchFirst(y - 1) \in Int /\ Bit(Leap(y)) \in Int
    BY SMT DEF MarchFirst, Bit
  <2> QED BY <1>1, <1>2, <1>3, <2>2, <2>4, <2>5, <2>6, <2>7, SMT
<1> QED BY <1>4, <1>5, <1>6, SMT

(* THEOREM: days and dates are those of the civil calendar, however long   *)
(* before or after 1970: day 0 is the first of January 1970, every month   *)
(* has its length, every day converts to a date that exists and back, and  *)
(* every date to a day and back (civil_from_days, days_from_civil).        *)
THEOREM DatesAlwaysConvert ==
    /\ DaysFromCivil(1970, 1, 1) = 0
    /\ \A y \in Int, m \in 1 .. 12 :
          DaysFromCivil(y + Bit(m = 12), (m % 12) + 1, 1) = DaysFromCivil(y, m, 1) + MonthLength(y, m)
    /\ \A day \in Int :
          LET c == CivilFromDays(day)
          IN  /\ c.y \in Int /\ c.m \in 1 .. 12 /\ c.d \in 1 .. MonthLength(c.y, c.m)
              /\ DaysFromCivil(c.y, c.m, c.d) = day
    /\ \A y \in Int, m \in 1 .. 12 : \A d \in 1 .. MonthLength(y, m) :
          CivilFromDays(DaysFromCivil(y, m, d)) = [y |-> y, m |-> m, d |-> d]
<1>1. DaysFromCivil(1970, 1, 1) = 0
  <2>1. DaysFromCivil(1970, 1, 1) = FirstOfMonth(12 * 1970 + 1 - 3) + 1 - 1
    BY DaysOfCivil, SMT
  <2>2. FirstOfMonth(12 * 1970 + 1 - 3) = 0
    BY SMT DEF FirstOfMonth, MarchFirst, MonthStart
  <2> QED BY <2>1, <2>2, SMT
<1>2. ASSUME NEW y \in Int, NEW m \in 1 .. 12
      PROVE  DaysFromCivil(y + Bit(m = 12), (m % 12) + 1, 1)
             = DaysFromCivil(y, m, 1) + MonthLength(y, m)
  <2>1. /\ IsMonth(m)
        /\ FirstOfMonth(Serial(y, m) + 1) = FirstOfMonth(Serial(y, m)) + MonthLength(y, m)
    BY MonthsHaveLengths
  <2>2. /\ DaysFromCivil(y, m, 1) = FirstOfMonth(Serial(y, m))
        /\ DaysFromCivil(y + Bit(m = 12), (m % 12) + 1, 1) = FirstOfMonth(Serial(y, m) + 1)
    BY <2>1, MonthStarts
  <2> QED BY <2>1, <2>2
<1>3. ASSUME NEW day \in Int
      PROVE  LET c == CivilFromDays(day)
             IN  /\ c.y \in Int /\ c.m \in 1 .. 12 /\ c.d \in 1 .. MonthLength(c.y, c.m)
                 /\ DaysFromCivil(c.y, c.m, c.d) = day
  <2> DEFINE c == CivilFromDays(day)
  <2>1. /\ c.y \in Int /\ c.m \in Int /\ 1 <= c.m /\ c.m <= 12 /\ c.d \in Int /\ 1 <= c.d
        /\ FirstOfMonth(Serial(c.y, c.m)) + c.d - 1 = day
        /\ day < FirstOfMonth(Serial(c.y, c.m) + 1)
    BY DateOfDay DEF IsDate, IsMonth, MonthIndex
  <2>2. DaysFromCivil(c.y, c.m, c.d) = day
    BY DayOfDate
  <2> HIDE DEF c
  <2>3. c.m \in 1 .. 12
    BY <2>1, SMT
  <2>4. /\ MonthLength(c.y, c.m) \in Nat /\ FirstOfMonth(Serial(c.y, c.m)) \in Int
        /\ FirstOfMonth(Serial(c.y, c.m) + 1)
              = FirstOfMonth(Serial(c.y, c.m)) + MonthLength(c.y, c.m)
    BY <2>1, <2>3, MonthsHaveLengths
  <2>5. c.d \in 1 .. MonthLength(c.y, c.m)
    BY <2>1, <2>4, SMT
  <2> QED BY <2>1, <2>2, <2>3, <2>5 DEF c
<1>4. ASSUME NEW y \in Int, NEW m \in 1 .. 12, NEW d \in 1 .. MonthLength(y, m)
      PROVE  CivilFromDays(DaysFromCivil(y, m, d)) = [y |-> y, m |-> m, d |-> d]
  <2> DEFINE n == Serial(y, m)
  <2>1. /\ n \in Int /\ IsMonth(m) /\ FirstOfMonth(n) \in Int /\ MonthLength(y, m) \in Nat
        /\ FirstOfMonth(n + 1) = FirstOfMonth(n) + MonthLength(y, m)
    BY MonthsHaveLengths, MonthStarts
  <2>2. d \in Int /\ 1 <= d /\ d <= MonthLength(y, m)
    BY <2>1, SMT
  <2>3. DaysFromCivil(y, m, d) = FirstOfMonth(n) + d - 1
    BY <2>1, <2>2, DaysOfCivil DEF IsMonth, Serial
  <2> HIDE DEF n
  <2>4. PICK day \in Int : day = FirstOfMonth(n) + d - 1
    BY <2>1, <2>2, SMT
  <2>5. FirstOfMonth(n) <= day /\ ~(FirstOfMonth(n + 1) <= day) /\ n + 1 \in Int
    BY <2>1, <2>2, <2>4, SMT
  <2> DEFINE c == CivilFromDays(day)
  <2>6. n <= MonthIndex(c) /\ ~(n + 1 <= MonthIndex(c)) /\ MonthIndex(c) \in Int
    BY <2>1, <2>5, MonthOfDay
  <2>7. MonthIndex(c) = n
    BY <2>1, <2>6, SMT
  <2>8. c = [y |-> c.y, m |-> c.m, d |-> c.d] /\ IsDate(c) /\ FirstOfMonth(n) + c.d - 1 = day
    BY <2>7, DateOfDay
  <2> HIDE DEF c
  <2>9. c.y = y /\ c.m = m
    BY <2>1, <2>7, <2>8, SerialIsOne DEF IsDate, MonthIndex, n
  <2>10. c.d = d
    <3>1. c.d \in Int /\ FirstOfMonth(n) + c.d - 1 = FirstOfMonth(n) + d - 1
      BY <2>4, <2>8 DEF IsDate
    <3>2. FirstOfMonth(n) \in Int /\ d \in Int
      BY <2>1, <2>2
    <3> QED BY <3>1, <3>2, SameDayOfMonth
  <2> QED BY <2>3, <2>4, <2>8, <2>9, <2>10 DEF c
<1> QED BY <1>1, <1>2, <1>3, <1>4

(* THEOREM: rows of one key are rows of one name, and the other way round, *)
(* for any two times (partition_key, partition_name).                      *)
THEOREM KeysNameAlways ==
    \A v, w \in Int, scheme \in Schemes, tt \in TimeTypes :
        PartitionKey(scheme, v, tt) = PartitionKey(scheme, w, tt)
        <=> PartitionName(scheme, v, tt) = PartitionName(scheme, w, tt)
<1> SUFFICES ASSUME NEW v \in Int, NEW w \in Int, NEW scheme \in Schemes, NEW tt \in TimeTypes
             PROVE  PartitionKey(scheme, v, tt) = PartitionKey(scheme, w, tt)
                    <=> PartitionName(scheme, v, tt) = PartitionName(scheme, w, tt)
  OBVIOUS
<1> DEFINE a == ValueToDays(v, tt)
           b == ValueToDays(w, tt)
           e == CivilFromDays(a)
           f == CivilFromDays(b)
<1>1. a \in Int /\ b \in Int
  BY ValueAfter
<1> HIDE DEF a, b
<1>2. IsDate(e) /\ FirstOfMonth(MonthIndex(e)) + e.d - 1 = a /\ e = [y |-> e.y, m |-> e.m, d |-> e.d]
  BY <1>1, DateOfDay
<1>3. IsDate(f) /\ FirstOfMonth(MonthIndex(f)) + f.d - 1 = b /\ f = [y |-> f.y, m |-> f.m, d |-> f.d]
  BY <1>1, DateOfDay
<1>4. a = b <=> (e.y = f.y /\ e.m = f.m /\ e.d = f.d)
  <2>1. a = b => e = f
    OBVIOUS
  <2>2. e = f => a = b
    BY <1>2, <1>3
  <2>3. (e.y = f.y /\ e.m = f.m /\ e.d = f.d) <=> e = f
    BY <1>2, <1>3
  <2> QED BY <2>1, <2>2, <2>3
<1>5. PartitionKey(scheme, v, tt) = KeyOf(scheme, a, e) /\ PartitionName(scheme, v, tt) = NameOf(scheme, e)
  BY DEF PartitionKey, PartitionName, a
<1>6. PartitionKey(scheme, w, tt) = KeyOf(scheme, b, f) /\ PartitionName(scheme, w, tt) = NameOf(scheme, f)
  BY DEF PartitionKey, PartitionName, b
<1> HIDE DEF e, f
<1>7. CASE scheme = "none"
  BY <1>5, <1>6, <1>7, SMT DEF KeyOf, NameOf
<1>8. CASE scheme = "year"
  BY <1>5, <1>6, <1>8, SMT DEF KeyOf, NameOf
<1>9. CASE scheme = "month"
  <2>1. (e.y * 12 + e.m - 1 = f.y * 12 + f.m - 1) <=> (e.y = f.y /\ e.m = f.m)
    BY <1>2, <1>3, SerialIsOne DEF IsDate
  <2>2. /\ KeyOf(scheme, a, e) = e.y * 12 + e.m - 1
        /\ KeyOf(scheme, b, f) = f.y * 12 + f.m - 1
    BY <1>9 DEF KeyOf
  <2>3. /\ NameOf(scheme, e) = [scheme |-> "month", y |-> e.y, m |-> e.m]
        /\ NameOf(scheme, f) = [scheme |-> "month", y |-> f.y, m |-> f.m]
    BY <1>9 DEF NameOf
  <2> QED BY <1>5, <1>6, <2>1, <2>2, <2>3
<1>10. CASE scheme = "date"
  BY <1>4, <1>5, <1>6, <1>10, SMT DEF KeyOf, NameOf
<1> QED BY <1>7, <1>8, <1>9, <1>10 DEF Schemes

(* The days of a name are those that get the name.                         *)
LEMMA DaysOfName ==
    ASSUME NEW scheme \in Schemes \ {"none"}, NEW base \in Int,
           scheme = "year" \/ ~(CivilFromDays(base).y < 0)
    PROVE  \E lo, hi \in Int :
              /\ PartitionDays(scheme, NameOf(scheme, CivilFromDays(base))) = <<lo, hi>>
              /\ \A day \in Int :
                    lo <= day /\ ~(hi <= day)
                    <=> NameOf(scheme, CivilFromDays(day)) = NameOf(scheme, CivilFromDays(base))
<1> DEFINE c == CivilFromDays(base)
           e(day) == CivilFromDays(day)
<1>1. c.y \in Int /\ IsMonth(c.m) /\ DaysFromCivil(c.y, c.m, c.d) = base
  BY DateOfDay, DayOfDate DEF IsDate
<1>2. \A day \in Int :
        /\ e(day).y \in Int /\ IsMonth(e(day).m)
        /\ DaysFromCivil(e(day).y, e(day).m, e(day).d) = day
  BY DateOfDay, DayOfDate DEF IsDate
<1>3. \A day, n \in Int : n <= Serial(e(day).y, e(day).m) <=> FirstOfMonth(n) <= day
  BY MonthOfDay DEF MonthIndex
<1>4. scheme = "year" \/ ~(c.y < 0)
  OBVIOUS
<1>5. e(base) = c
  OBVIOUS
<1> HIDE DEF c, e
<1>6. CASE scheme = "year"
  <2> DEFINE lo == FirstOfMonth(Serial(c.y, 1))
             hi == FirstOfMonth(Serial(c.y + 1, 1))
  <2>1. c.y + 1 \in Int
    BY <1>1, SMT
  <2>2. Serial(c.y, 1) \in Int /\ Serial(c.y + 1, 1) \in Int
    BY <1>1, <2>1, YearStarts, MonthStarts
  <2>3. lo \in Int /\ hi \in Int
    BY <2>2, FirstIsDay
  <2>4. DaysFromCivil(c.y, 1, 1) = lo /\ DaysFromCivil(c.y + 1, 1, 1) = hi
    BY <1>1, YearStarts, MonthStarts
  <2>5. NameOf(scheme, c) = [scheme |-> "year", y |-> c.y]
    BY <1>6 DEF NameOf
  <2>6. PartitionDays(scheme, NameOf(scheme, c)) = <<lo, hi>>
    <3> DEFINE name == NameOf(scheme, c)
    <3>1. name.scheme = scheme /\ name.y = c.y
      BY <1>6, <2>5
    <3> HIDE DEF name
    <3>2. PartitionDays(scheme, name) = <<lo, hi>>
      BY <1>6, <2>4, <3>1 DEF PartitionDays
    <3> QED BY <3>2 DEF name
  <2>7. ASSUME NEW day \in Int
        PROVE  lo <= day /\ ~(hi <= day) <=> NameOf(scheme, e(day)) = NameOf(scheme, c)
    <3>1. NameOf(scheme, e(day)) = NameOf(scheme, c) <=> c.y = e(day).y
      <4>1. NameOf(scheme, e(day)) = [scheme |-> "year", y |-> e(day).y]
        BY <1>6 DEF NameOf
      <4> QED BY <2>5, <4>1
    <3>2. lo <= day <=> Serial(c.y, 1) <= Serial(e(day).y, e(day).m)
      BY <2>2, <1>3
    <3>3. hi <= day <=> Serial(c.y + 1, 1) <= Serial(e(day).y, e(day).m)
      BY <2>2, <1>3
    <3> HIDE DEF lo, hi
    <3>4. (Serial(c.y, 1) <= Serial(e(day).y, e(day).m)
             /\ ~(Serial(c.y + 1, 1) <= Serial(e(day).y, e(day).m))) <=> c.y = e(day).y
      <4>1. e(day).y \in Int /\ IsMonth(e(day).m)
        BY <1>2
      <4> QED BY <1>1, <4>1, YearBetween
    <3> QED BY <3>1, <3>2, <3>3, <3>4
  <2> HIDE DEF lo, hi
  <2> QED BY <2>3, <2>6, <2>7 DEF c, e
<1>7. CASE scheme = "month"
  <2> DEFINE n == Serial(c.y, c.m)
             lo == FirstOfMonth(n)
             hi == FirstOfMonth(n + 1)
  <2>1. /\ n \in Int /\ DaysFromCivil(c.y, c.m, 1) = lo
        /\ DaysFromCivil(c.y + Bit(c.m = 12), (c.m % 12) + 1, 1) = hi
    BY <1>1, MonthStarts
  <2> HIDE DEF n
  <2>2. n + 1 \in Int
    BY <2>1, SMT
  <2>3. lo \in Int /\ hi \in Int
    BY <2>1, <2>2, FirstIsDay
  <2>4. NameOf(scheme, c) = [scheme |-> "month", y |-> c.y, m |-> c.m]
    BY <1>7 DEF NameOf
  <2>5. PartitionDays(scheme, NameOf(scheme, c)) = <<lo, hi>>
    <3> DEFINE name == NameOf(scheme, c)
    <3>1. name.scheme = scheme /\ name.y = c.y /\ name.m = c.m
      BY <1>7, <2>4
    <3> HIDE DEF name
    <3>2. PartitionDays(scheme, name) = <<lo, hi>>
      BY <1>4, <1>7, <2>1, <3>1 DEF PartitionDays
    <3> QED BY <3>2 DEF name
  <2>6. ASSUME NEW day \in Int
        PROVE  lo <= day /\ ~(hi <= day) <=> NameOf(scheme, e(day)) = NameOf(scheme, c)
    <3>1. NameOf(scheme, e(day)) = NameOf(scheme, c) <=> (c.y = e(day).y /\ c.m = e(day).m)
      <4>1. NameOf(scheme, e(day)) = [scheme |-> "month", y |-> e(day).y, m |-> e(day).m]
        BY <1>7 DEF NameOf
      <4> QED BY <2>4, <4>1
    <3>2. lo <= day <=> n <= Serial(e(day).y, e(day).m)
      BY <2>1, <1>3
    <3>3. hi <= day <=> n + 1 <= Serial(e(day).y, e(day).m)
      BY <2>2, <1>3
    <3> HIDE DEF lo, hi
    <3>4. (n <= Serial(e(day).y, e(day).m) /\ ~(n + 1 <= Serial(e(day).y, e(day).m)))
             <=> (c.y = e(day).y /\ c.m = e(day).m)
      <4>1. e(day).y \in Int /\ IsMonth(e(day).m)
        BY <1>2
      <4> QED BY <1>1, <4>1, MonthBetween DEF n
    <3> QED BY <3>1, <3>2, <3>3, <3>4
  <2> HIDE DEF lo, hi
  <2> QED BY <2>3, <2>5, <2>6 DEF c, e
<1>8. CASE scheme = "date"
  <2>1. NameOf(scheme, c) = [scheme |-> "date", y |-> c.y, m |-> c.m, d |-> c.d]
    BY <1>8 DEF NameOf
  <2>2. PartitionDays(scheme, NameOf(scheme, c)) = <<base, base + 1>>
    <3> DEFINE name == NameOf(scheme, c)
    <3>1. name.scheme = scheme /\ name.y = c.y /\ name.m = c.m /\ name.d = c.d
      BY <1>8, <2>1
    <3> HIDE DEF name
    <3>2. PartitionDays(scheme, name) = <<base, base + 1>>
      BY <1>1, <1>4, <1>8, <3>1 DEF PartitionDays
    <3> QED BY <3>2 DEF name
  <2>3. ASSUME NEW day \in Int
        PROVE  base <= day /\ ~(base + 1 <= day) <=> NameOf(scheme, e(day)) = NameOf(scheme, c)
    <3>1. NameOf(scheme, e(day)) = NameOf(scheme, c)
            <=> (c.y = e(day).y /\ c.m = e(day).m /\ c.d = e(day).d)
      <4>1. NameOf(scheme, e(day)) = [scheme |-> "date", y |-> e(day).y, m |-> e(day).m, d |-> e(day).d]
        BY <1>8 DEF NameOf
      <4> QED BY <2>1, <4>1
    <3>2. (base <= day /\ ~(base + 1 <= day)) <=> day = base
      BY SMT
    <3>3. (c.y = e(day).y /\ c.m = e(day).m /\ c.d = e(day).d) <=> day = base
      BY <1>1, <1>2, <1>5
    <3> QED BY <3>1, <3>2, <3>3
  <2>4. base + 1 \in Int
    BY SMT
  <2> QED BY <2>2, <2>3, <2>4 DEF c, e
<1> QED BY <1>6, <1>7, <1>8 DEF Schemes

(* THEOREM: the range read back from the name of a partition holds exactly *)
(* the times that get the name, whatever the scheme and the unit of the    *)
(* axis, so ranges of two names share no time; a month or a date before    *)
(* the year 0 cannot be read back (partition_name, partition_range).       *)
THEOREM RangesAlwaysTile ==
    \A v \in Int, scheme \in Schemes \ {"none"}, tt \in TimeTypes :
        LET name == PartitionName(scheme, v, tt)
            r == PartitionRange(scheme, name, tt)
        IN  IF scheme # "year" /\ name.y < 0 THEN r = None
            ELSE /\ r # None
                 /\ \A w \in Int :
                       r[1] <= w /\ w < r[2] <=> PartitionName(scheme, w, tt) = name
<1> SUFFICES ASSUME NEW v \in Int, NEW scheme \in Schemes \ {"none"}, NEW tt \in TimeTypes
             PROVE  LET name == PartitionName(scheme, v, tt)
                        r == PartitionRange(scheme, name, tt)
                    IN  IF scheme # "year" /\ name.y < 0 THEN r = None
                        ELSE /\ r # None
                             /\ \A w \in Int :
                                   r[1] <= w /\ w < r[2] <=> PartitionName(scheme, w, tt) = name
  OBVIOUS
<1> DEFINE base == ValueToDays(v, tt)
           name == PartitionName(scheme, v, tt)
           r == PartitionRange(scheme, name, tt)
<1>1. base \in Int
  BY ValueAfter
<1>2. \A w \in Int : PartitionName(scheme, w, tt) = NameOf(scheme, CivilFromDays(ValueToDays(w, tt)))
  BY DEF PartitionName
<1>3. name = NameOf(scheme, CivilFromDays(base))
  BY DEF PartitionName
<1> HIDE DEF base
<1>4. name.scheme = scheme /\ name.y = CivilFromDays(base).y
  BY <1>3 DEF NameOf, Schemes
<1> HIDE DEF name
<1>5. CASE scheme # "year" /\ name.y < 0
  <2>1. PartitionDays(scheme, name) = None
    BY <1>5 DEF PartitionDays
  <2> QED BY <1>5, <2>1 DEF PartitionRange, ValuesOf, name
<1>6. CASE ~(scheme # "year" /\ name.y < 0)
  <2>1. scheme = "year" \/ ~(CivilFromDays(base).y < 0)
    BY <1>4, <1>6
  <2>2. PICK lo, hi \in Int :
              /\ PartitionDays(scheme, name) = <<lo, hi>>
              /\ \A day \in Int :
                    lo <= day /\ ~(hi <= day) <=> NameOf(scheme, CivilFromDays(day)) = name
    <3>1. \E lo, hi \in Int :
            /\ PartitionDays(scheme, NameOf(scheme, CivilFromDays(base))) = <<lo, hi>>
            /\ \A day \in Int :
                  lo <= day /\ ~(hi <= day)
                  <=> NameOf(scheme, CivilFromDays(day)) = NameOf(scheme, CivilFromDays(base))
      BY <1>1, <2>1, DaysOfName
    <3> QED BY <1>3, <3>1
  <2>3. <<lo, hi>> # None
    BY NoRangeAssumption
  <2>4. r = <<DaysToValue(lo, tt), DaysToValue(hi, tt)>>
    BY <2>2, <2>3 DEF PartitionRange, ValuesOf
  <2>5. DaysToValue(lo, tt) \in Int /\ DaysToValue(hi, tt) \in Int
    BY ValueAfter
  <2>6. r # None
    BY <2>4, <2>5, NoRangeAssumption
  <2>7. ASSUME NEW w \in Int
        PROVE  r[1] <= w /\ w < r[2] <=> PartitionName(scheme, w, tt) = name
    <3>1. ValueToDays(w, tt) \in Int
      BY ValueAfter
    <3>2. DaysToValue(lo, tt) <= w <=> lo <= ValueToDays(w, tt)
      BY ValueAfter
    <3>3. DaysToValue(hi, tt) <= w <=> hi <= ValueToDays(w, tt)
      BY ValueAfter
    <3>4. lo <= ValueToDays(w, tt) /\ ~(hi <= ValueToDays(w, tt))
            <=> PartitionName(scheme, w, tt) = name
      BY <1>2, <2>2, <3>1
    <3>5. r[1] = DaysToValue(lo, tt) /\ r[2] = DaysToValue(hi, tt)
      BY <2>4
    <3>6. w < DaysToValue(hi, tt) <=> ~(DaysToValue(hi, tt) <= w)
      BY <2>5, SMT
    <3> HIDE DEF r
    <3> QED BY <3>2, <3>3, <3>4, <3>5, <3>6
  <2> HIDE DEF r
  <2> QED BY <1>6, <2>6, <2>7 DEF r, name
<1> QED BY <1>5, <1>6
=============================================================================
