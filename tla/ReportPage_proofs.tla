------------------------- MODULE ReportPage_proofs -------------------------
(***************************************************************************)
(* The sums of the ad report are those of the ticked rows, for any table   *)
(* and any sequence of clicks; its ranges of time are right on every day   *)
(* of the calendar.                                                        *)
(***************************************************************************)
EXTENDS ReportPage, SumLemmas

LEMMA SumOfIsSum == \A t, S : SumOf(t, S) = Sum(t, S)
BY DEF SumOf, Sum

LEMMA CountsAreIntegers ==
  ASSUME NEW t \in [Rows -> Counts]
  PROVE  t \in [Rows -> Int]
<1>1. Counts \subseteq Int
  BY ReportAssumption
<1> QED BY <1>1

(* The sum over a set of rows, with a row more and with one less.          *)
LEMMA SumOfTicks ==
  ASSUME NEW t \in [Rows -> Counts], NEW S \in SUBSET Rows
  PROVE  /\ SumOf(t, S) \in Int
         /\ SumOf(t, {}) = 0
         /\ \A r \in Rows \ S : SumOf(t, S \cup {r}) = SumOf(t, S) + t[r]
         /\ \A r \in S : SumOf(t, S \ {r}) = SumOf(t, S) - t[r]
<1>1. t \in [Rows -> Int] /\ IsFiniteSet(Rows)
  BY CountsAreIntegers, ReportAssumption
<1>2. SumOf(t, S) \in Int
  BY <1>1, SumType, SumOfIsSum
<1>3. SumOf(t, {}) = 0
  BY <1>1, SumEmpty, SumOfIsSum
<1>4. ASSUME NEW r \in Rows \ S
      PROVE  SumOf(t, S \cup {r}) = SumOf(t, S) + t[r]
  BY <1>1, SumAdd, SumOfIsSum
<1>5. ASSUME NEW r \in S PROVE SumOf(t, S \ {r}) = SumOf(t, S) - t[r]
  <2>1. Sum(t, S) = t[r] + Sum(t, S \ {r})
    BY <1>1, SumRemove
  <2>2. Sum(t, S \ {r}) \in Int /\ t[r] \in Int
    BY <1>1, SumType
  <2> QED BY <2>1, <2>2, SumOfIsSum
<1> QED BY <1>2, <1>3, <1>4, <1>5

(* Ticks are put back on the rows that had them, at least.                 *)
LEMMA TicksComeBack ==
  ASSUME NEW S \in SUBSET Rows
  PROVE  S \subseteq setDefault(S) /\ setDefault(S) \subseteq Rows
BY DEF setDefault

-----------------------------------------------------------------------------
(* As long as nothing has gone stale the table shows what the server has,  *)
(* so that adding and subtracting rows of the old table is adding and      *)
(* subtracting those of the new one.                                       *)
SumsAgree == ~stale => data = table /\ total = SumOf(table, checked)

(* The flags and the text of the sum are apart from the other types.       *)
FlagsOK == checkedAll \in BOOLEAN /\ shown \in BOOLEAN /\ stale \in BOOLEAN

TextOK == sum = IF shown THEN total ELSE 0

TableOK ==
  /\ today \in Days /\ index \in 1..6
  /\ data \in [Rows -> Counts] /\ table \in [Rows -> Counts]
  /\ checked \subseteq Rows /\ total \in Int

ReportInv == TableOK /\ FlagsOK /\ TextOK /\ SumsAgree

LEMMA FlagsFollow ==
  /\ Init => FlagsOK /\ TextOK
  /\ FlagsOK /\ TextOK /\ [Next]_vars => FlagsOK' /\ TextOK'
<1>1. Init => FlagsOK /\ TextOK
  BY Zenon DEF Init, FlagsOK, TextOK
<1>2. ASSUME FlagsOK, TextOK, [Next]_vars PROVE FlagsOK' /\ TextOK'
  <2>1. CASE Confirm
    <3>1. stale' \in BOOLEAN
      BY Zenon, <2>1 DEF Confirm
    <3> QED BY Zenon, <1>2, <2>1, <3>1 DEF Confirm, NoSum, FlagsOK, TextOK
  <2>2. CASE CheckAll
    BY Zenon, <1>2, <2>2 DEF CheckAll, Show, FlagsOK, TextOK
  <2>3. CASE UncheckAll
    BY Zenon, <1>2, <2>3 DEF UncheckAll, NoSum, FlagsOK, TextOK
  <2>4. CASE Drift
    BY Zenon, <1>2, <2>4 DEF Drift, FlagsOK, TextOK
  <2>5. ASSUME NEW i \in 1..6, ChooseRange(i) PROVE FlagsOK' /\ TextOK'
    BY Zenon, <1>2, <2>5 DEF ChooseRange, NoSum, FlagsOK, TextOK
  <2>6. ASSUME NEW r \in Rows, CheckRow(r) PROVE FlagsOK' /\ TextOK'
    <3>1. /\ \E s : Show(s)
          /\ stale' \in BOOLEAN
          /\ checkedAll' = checkedAll
      BY Zenon, <2>6 DEF CheckRow
    <3> QED BY Zenon, <1>2, <3>1 DEF Show, FlagsOK, TextOK
  <2>7. CASE UNCHANGED vars
    BY Zenon, <1>2, <2>7 DEF vars, FlagsOK, TextOK
  <2> QED BY <1>2, <2>1, <2>2, <2>3, <2>4, <2>5, <2>6, <2>7 DEF Next
<1> QED BY <1>1, <1>2

LEMMA ReportInit == Init => ReportInv
<1> SUFFICES ASSUME Init PROVE ReportInv
  OBVIOUS
<1>1. /\ today \in Days /\ index = 2
      /\ data \in [Rows -> Counts] /\ table = data
      /\ checked = {} /\ total = 0
  BY Zenon DEF Init
<1>2. TableOK
  BY <1>1 DEF TableOK
<1>3. SumOf(table, checked) = 0
  BY <1>1, SumOfTicks
<1> QED BY <1>1, <1>2, <1>3, FlagsFollow DEF ReportInv, SumsAgree

LEMMA ReportStep == ReportInv /\ [Next]_vars => ReportInv'
<1> SUFFICES ASSUME ReportInv, [Next]_vars PROVE TableOK' /\ SumsAgree'
  BY FlagsFollow DEF ReportInv
<1>1. /\ data \in [Rows -> Counts] /\ table \in [Rows -> Counts]
      /\ checked \subseteq Rows /\ total \in Int
      /\ today \in Days /\ index \in 1..6
  BY Zenon DEF ReportInv, TableOK
<1>2. SumOf(data, {}) = 0 /\ setDefault({}) = {}
  BY <1>1, SumOfTicks DEF setDefault
<1>3. ~stale => data = table /\ total = SumOf(table, checked)
  BY Zenon DEF ReportInv, SumsAgree
<1>4. CASE Confirm
  <2>1. setDefault(checked) \subseteq Rows
    BY <1>1, TicksComeBack
  <2>2. /\ table' = data /\ checked' = setDefault(checked) /\ total' = 0
        /\ ~stale' => checked = {}
        /\ UNCHANGED <<today, index, data>>
    BY Zenon, <1>4 DEF Confirm, Reload, NoSum
  <2> QED BY <1>1, <1>2, <2>1, <2>2 DEF TableOK, SumsAgree
<1>5. CASE CheckAll
  <2>1. setDefault(Rows) = Rows
    BY TicksComeBack
  <2>2. SumOf(data, Rows) \in Int
    BY <1>1, SumOfTicks
  <2>3. /\ table' = data /\ checked' = setDefault(Rows)
        /\ total' = SumOf(data, Rows)
        /\ UNCHANGED <<today, index, data>>
    BY Zenon, <1>5 DEF CheckAll, Reload, Show
  <2> QED BY <1>1, <2>1, <2>2, <2>3 DEF TableOK, SumsAgree
<1>6. CASE UncheckAll
  <2>1. /\ table' = data /\ checked' = setDefault({}) /\ total' = 0
        /\ UNCHANGED <<today, index, data>>
    BY Zenon, <1>6 DEF UncheckAll, Reload, NoSum
  <2> QED BY <1>1, <1>2, <2>1 DEF TableOK, SumsAgree
<1>7. CASE Drift
  <2>1. /\ data' \in [Rows -> Counts] /\ stale'
        /\ UNCHANGED <<today, index, table, checked, total>>
    BY Zenon, <1>7 DEF Drift
  <2> QED BY <1>1, <2>1 DEF TableOK, SumsAgree
<1>8. ASSUME NEW i \in 1..6, ChooseRange(i) PROVE TableOK' /\ SumsAgree'
  <2>1. /\ index' = i /\ today' = today
        /\ data' \in [Rows -> Counts] /\ table' = data'
        /\ checked' = {} /\ total' = 0
    BY Zenon, <1>8 DEF ChooseRange, NoSum
  <2>2. PICK d \in [Rows -> Counts] : d = data'
    BY <2>1
  <2>3. SumOf(d, {}) = 0
    BY SumOfTicks
  <2> QED BY <1>1, <2>1, <2>2, <2>3 DEF TableOK, SumsAgree
<1>9. ASSUME NEW r \in Rows, CheckRow(r) PROVE TableOK' /\ SumsAgree'
  <2> DEFINE ticked == IF r \notin checked THEN checked \cup {r}
                       ELSE checked \ {r}
             new == IF r \notin checked THEN total + table[r]
                    ELSE total - table[r]
  <2>1. /\ table' = data /\ checked' = setDefault(ticked) /\ total' = new
        /\ ~stale' => ~stale /\ setDefault(ticked) = ticked
        /\ UNCHANGED <<today, index, data>>
    BY Zenon, <1>9 DEF CheckRow, Reload, Show
  <2>2. checked' \subseteq Rows
    BY <1>1, <2>1, TicksComeBack
  <2>3. new \in Int
    BY <1>1, CountsAreIntegers
  <2>4. ~stale => new = SumOf(table, ticked)
    BY <1>1, <1>3, SumOfTicks
  <2> HIDE DEF ticked, new
  <2> QED BY <1>1, <1>3, <2>1, <2>2, <2>3, <2>4 DEF TableOK, SumsAgree
<1>10. CASE UNCHANGED vars
  <2>1. UNCHANGED <<today, index, data, table, checked, total, stale>>
    BY Zenon, <1>10 DEF vars
  <2> QED BY <1>1, <1>3, <2>1 DEF TableOK, SumsAgree
<1> QED BY <1>4, <1>5, <1>6, <1>7, <1>8, <1>9, <1>10 DEF Next

(* The ticks are rows of the table, and the text of the sum is the         *)
(* variable behind it when its row is shown and empty when it is not.      *)
THEOREM ReportTypeCorrect == Spec => []TypeOK
<1>1. ReportInv => TypeOK
  BY Zenon DEF ReportInv, TableOK, FlagsOK, TextOK, TypeOK
<1> QED BY ReportInit, ReportStep, <1>1, PTL DEF Spec

(* After any sequence of clicks on rows, header and ranges that meets no   *)
(* change of the counts and no id that ends another, the sum shown, which  *)
(* the page keeps by adding and subtracting single counts, is that of the  *)
(* ticked rows; and a click on the header or a range makes it so again.    *)
THEOREM SumsAreOfTicks == Spec => []SumOfTicked
<1>1. ReportInv => SumOfTicked
  BY DEF ReportInv, SumsAgree, SumOfTicked
<1> QED BY ReportInit, ReportStep, <1>1, PTL DEF Spec

-----------------------------------------------------------------------------
(* The calendar: a year has 365 days or one more, and months follow each   *)
(* other without a gap.                                                    *)
LEMMA YearLength ==
  \A y \in Int :
    /\ NewYear(y) \in Int
    /\ NewYear(y + 1) = NewYear(y) + 365 + (IF Leap(y) THEN 1 ELSE 0)
BY DEF NewYear, Leap

LEMMA YearsFollow == \A y, z \in Int : y < z => NewYear(y + 1) <= NewYear(z)
BY DEF NewYear

LEMMA YearBounds ==
  \A y \in Int : y >= 1 => /\ 365 * (y - 1) <= NewYear(y)
                           /\ NewYear(y + 1) <= 366 * y
BY DEF NewYear

LEMMA MonthsFollow ==
  ASSUME NEW y \in Int
  PROVE  /\ FirstOf(y, 1) = NewYear(y) /\ FirstOf(y, 13) = NewYear(y + 1)
         /\ \A m \in Int : 1 <= m /\ m <= 13 => FirstOf(y, m) \in Int
         /\ \A m, n \in Int : 1 <= m /\ m <= n /\ n <= 13
                             => FirstOf(y, m) <= FirstOf(y, n)
         /\ \A m, n \in Int : 1 <= m /\ m < n /\ n <= 13
                             => FirstOf(y, m) < FirstOf(y, n)
<1>1. NewYear(y) \in Int /\ NewYear(y + 1) \in Int
      /\ NewYear(y + 1) = NewYear(y) + 365 + (IF Leap(y) THEN 1 ELSE 0)
  BY YearLength
<1>2. FirstOf(y, 1) = NewYear(y) /\ FirstOf(y, 13) = NewYear(y + 1)
  BY <1>1 DEF FirstOf, DaysBefore
<1>3. \A m \in Int : 1 <= m /\ m <= 13 => DaysBefore[m] \in Nat
  <2>1. \A m \in 1..13 : DaysBefore[m] \in Nat
    BY DEF DaysBefore
  <2> QED BY <2>1
<1>4. \A m, n \in Int : 1 <= m /\ m < n /\ n <= 13 => DaysBefore[m] < DaysBefore[n]
  <2>1. \A m, n \in 1..13 : m < n => DaysBefore[m] < DaysBefore[n]
    BY DEF DaysBefore
  <2> QED BY <2>1
<1>5. \A m \in Int : 1 <= m /\ m <= 13 => FirstOf(y, m) \in Int
  BY <1>1, <1>3 DEF FirstOf
<1>6. ASSUME NEW m \in Int, NEW n \in Int, 1 <= m, m < n, n <= 13
      PROVE  FirstOf(y, m) < FirstOf(y, n)
  <2>1. /\ DaysBefore[m] \in Nat /\ DaysBefore[n] \in Nat
        /\ DaysBefore[m] < DaysBefore[n] /\ (m > 2 => n > 2)
    BY <1>3, <1>4, <1>6
  <2> QED BY <1>1, <2>1 DEF FirstOf
<1>7. \A m, n \in Int : 1 <= m /\ m <= n /\ n <= 13
                         => FirstOf(y, m) <= FirstOf(y, n)
  <2> SUFFICES ASSUME NEW m \in Int, NEW n \in Int, 1 <= m, m <= n, n <= 13
               PROVE  FirstOf(y, m) <= FirstOf(y, n)
    OBVIOUS
  <2>1. FirstOf(y, m) \in Int /\ FirstOf(y, n) \in Int
    BY <1>5
  <2>2. m = n \/ FirstOf(y, m) < FirstOf(y, n)
    BY <1>6
  <2> QED BY <2>1, <2>2
<1> QED BY <1>2, <1>5, <1>6, <1>7

LEMMA NextMonth ==
  ASSUME NEW y \in Int, NEW m \in Int, 1 <= m, m <= 12
  PROVE  /\ FirstOf(y, m) \in Int /\ FirstOf(y, m + 1) \in Int
         /\ FirstOf(y, m) < FirstOf(y, m + 1)
         /\ FirstOf(y, 1) <= FirstOf(y, m) /\ FirstOf(y, 1) \in Int
         /\ FirstOf(y, m + 1) <= FirstOf(y, 13)
         /\ FirstOf(y, 13) = NewYear(y + 1) /\ FirstOf(y, 13) \in Int
<1>1. /\ \A k \in Int : 1 <= k /\ k <= 13 => FirstOf(y, k) \in Int
      /\ \A k, n \in Int : 1 <= k /\ k <= n /\ n <= 13
                          => FirstOf(y, k) <= FirstOf(y, n)
      /\ \A k, n \in Int : 1 <= k /\ k < n /\ n <= 13
                          => FirstOf(y, k) < FirstOf(y, n)
      /\ FirstOf(y, 13) = NewYear(y + 1)
  BY MonthsFollow
<1> QED BY <1>1

(* Every day is in a year: in a cycle of 400 years, of 100, of 4, of one.  *)
LEMMA DayHasYear ==
  ASSUME NEW d \in Nat
  PROVE  \E y \in Nat : NewYear(y) <= d /\ d < NewYear(y + 1)
<1>1. PICK n \in Nat, e \in Nat : d = 146097 * n + e /\ e < 146097
  <2>1. /\ d \div 146097 \in Nat /\ d % 146097 \in Nat /\ d % 146097 < 146097
        /\ d = 146097 * (d \div 146097) + (d % 146097)
    BY SMT
  <2> QED BY SMT, <2>1
<1>2. PICK c \in Nat, f \in Nat :
        /\ e = 36524 * c + f /\ c <= 3 /\ f <= 36524
        /\ c < 3 => f < 36524
  <2>1. CASE e >= 36524 * 3
    <3>1. e - 36524 * 3 \in Nat /\ e - 36524 * 3 <= 36524
      BY SMT, <1>1, <2>1
    <3> QED BY SMT, <3>1
  <2>2. CASE e < 36524 * 3
    <3>1. PICK c \in Nat, f \in Nat : e = 36524 * c + f /\ f < 36524
      <4>1. /\ e \div 36524 \in Nat /\ e % 36524 \in Nat /\ e % 36524 < 36524
            /\ e = 36524 * (e \div 36524) + (e % 36524)
        BY SMT
      <4> QED BY SMT, <4>1
    <3> QED BY SMT, <2>2, <3>1
  <2> QED BY SMT, <2>1, <2>2
<1>3. PICK q \in Nat, g \in Nat : f = 1461 * q + g /\ g < 1461 /\ q <= 24
  <2>1. PICK q \in Nat, g \in Nat : f = 1461 * q + g /\ g < 1461
    <3>1. /\ f \div 1461 \in Nat /\ f % 1461 \in Nat /\ f % 1461 < 1461
          /\ f = 1461 * (f \div 1461) + (f % 1461)
      BY SMT
    <3> QED BY SMT, <3>1
  <2> QED BY SMT, <1>2, <2>1
<1>4. PICK p \in Nat, h \in Nat :
        g = 365 * p + h /\ p <= 3 /\ h <= 365 /\ (p < 3 => h < 365)
  <2>1. CASE g >= 365 * 3
    <3>1. g - 365 * 3 \in Nat /\ g - 365 * 3 <= 365
      BY SMT, <1>3, <2>1
    <3> QED BY SMT, <3>1
  <2>2. CASE g < 365 * 3
    <3>1. PICK p \in Nat, h \in Nat : g = 365 * p + h /\ h < 365
      <4>1. /\ g \div 365 \in Nat /\ g % 365 \in Nat /\ g % 365 < 365
            /\ g = 365 * (g \div 365) + (g % 365)
        BY SMT
      <4> QED BY SMT, <4>1
    <3> QED BY SMT, <2>2, <3>1
  <2> QED BY SMT, <2>1, <2>2
<1>5. PICK y \in Nat : y = 400 * n + 100 * c + 4 * q + p + 1
  BY SMT
<1>6. /\ (y - 1) \div 4 = 100 * n + 25 * c + q
      /\ (y - 1) \div 100 = 4 * n + c
      /\ (y - 1) \div 400 = n
  BY SMT, <1>2, <1>3, <1>4, <1>5
<1>7. NewYear(y) = d - h
  BY SMT, <1>1, <1>2, <1>3, <1>4, <1>5, <1>6 DEF NewYear
<1>8. d < NewYear(y) + 365 + (IF Leap(y) THEN 1 ELSE 0)
  <2>1. CASE h < 365
    BY SMT, <1>7, <2>1
  <2>2. CASE h >= 365
    <3>1. p = 3 /\ g = 1460 /\ (q < 24 \/ c = 3)
      BY SMT, <1>2, <1>3, <1>4, <2>2
    <3>2. Leap(y)
      BY SMT, <1>2, <1>3, <1>5, <3>1 DEF Leap
    <3> QED BY SMT, <1>4, <1>7, <3>2
  <2> QED BY SMT, <2>1, <2>2
<1> QED BY SMT, <1>7, <1>8, YearLength

(* A day is in one year and one month of it, which Date reports.           *)
LEMMA YearIs ==
  ASSUME NEW d \in Nat, NEW y \in Int, NewYear(y) <= d, d < NewYear(y + 1)
  PROVE  getFullYear(d) = y /\ y \in YearsAround(d) /\ y >= 1
<1>0. \A z \in Int : NewYear(z) \in Int /\ NewYear(z + 1) \in Int
  BY YearLength
<1>1. y >= 1
  <2>1. CASE y < 1
    <3>1. NewYear(y + 1) <= NewYear(1) /\ NewYear(1) = 0
      BY <2>1, YearsFollow DEF NewYear
    <3> QED BY <1>0, <3>1
  <2> QED BY <2>1
<1>2. y \in YearsAround(d)
  <2>1. 365 * (y - 1) <= NewYear(y) /\ NewYear(y + 1) <= 366 * y
    BY <1>1, YearBounds
  <2>2. 365 * (y - 1) <= d /\ d < 366 * y
    BY <1>0, <2>1
  <2>3. y <= d \div 365 + 1 /\ d \div 366 + 1 <= y
    BY <2>2
  <2>4. d \div 365 \in Int /\ d \div 366 \in Int
    BY SMT
  <2> QED BY <2>3, <2>4 DEF YearsAround
<1>3. ASSUME NEW z \in Int
      PROVE  FirstOf(z, 1) <= d /\ d <= DayZero(z, 12) <=>
             NewYear(z) <= d /\ d < NewYear(z + 1)
  <2>1. FirstOf(z, 1) = NewYear(z) /\ DayZero(z, 12) = NewYear(z + 1) - 1
    <3>1. FirstOf(z, 1) = NewYear(z) /\ FirstOf(z, 13) = NewYear(z + 1)
      BY MonthsFollow
    <3> QED BY <3>1 DEF DayZero
  <2> QED BY <1>0, <2>1
<1>4. ASSUME NEW z \in YearsAround(d), FirstOf(z, 1) <= d, d <= DayZero(z, 12)
      PROVE  z = y
  <2>1. z \in Int
    BY DEF YearsAround
  <2>2. NewYear(z) <= d /\ d < NewYear(z + 1)
    BY <1>3, <1>4, <2>1
  <2>3. ~(z < y) /\ ~(y < z)
    BY <1>0, <2>1, <2>2, YearsFollow
  <2> QED BY <2>1, <2>3
<1>5. FirstOf(y, 1) <= d /\ d <= DayZero(y, 12)
  BY <1>3
<1> QED BY <1>1, <1>2, <1>4, <1>5 DEF getFullYear

LEMMA MonthIs ==
  ASSUME NEW d \in Nat, NEW y \in Int, NEW m \in Int, 1 <= m, m <= 12,
         FirstOf(y, m) <= d, d < FirstOf(y, m + 1)
  PROVE  /\ getFullYear(d) = y /\ getMonth(d) = m - 1
         /\ y \in YearsAround(d) /\ y >= 1
<1>1. /\ \A k \in Int : 1 <= k /\ k <= 13 => FirstOf(y, k) \in Int
      /\ \A k, n \in Int : 1 <= k /\ k <= n /\ n <= 13
                          => FirstOf(y, k) <= FirstOf(y, n)
      /\ FirstOf(y, 1) = NewYear(y) /\ FirstOf(y, 13) = NewYear(y + 1)
  BY MonthsFollow
<1>2. /\ FirstOf(y, 1) <= FirstOf(y, m) /\ FirstOf(y, m + 1) <= FirstOf(y, 13)
      /\ FirstOf(y, 1) \in Int /\ FirstOf(y, m) \in Int
      /\ FirstOf(y, m + 1) \in Int /\ FirstOf(y, 13) \in Int
  BY <1>1
<1>3. getFullYear(d) = y /\ y \in YearsAround(d) /\ y >= 1
  BY <1>1, <1>2, YearIs
<1>4. ASSUME NEW n \in Int, 0 <= n, n <= 11,
             FirstOf(y, n + 1) <= d, d <= DayZero(y, n + 1)
      PROVE  n = m - 1
  <2>1. d <= FirstOf(y, n + 2) - 1 /\ FirstOf(y, n + 2) \in Int
        /\ FirstOf(y, n + 1) \in Int
    <3>1. (n + 1) + 1 = n + 2
      OBVIOUS
    <3> QED BY <1>1, <1>4, <3>1 DEF DayZero
  <2>2. CASE n + 2 <= m
    <3>1. FirstOf(y, n + 2) <= FirstOf(y, m)
      BY <1>1, <1>4, <2>2
    <3> QED BY <1>2, <2>1, <3>1
  <2>3. CASE m + 1 <= n + 1
    <3>1. FirstOf(y, m + 1) <= FirstOf(y, n + 1)
      BY <1>1, <1>4, <2>3
    <3> QED BY <1>2, <1>4, <2>1, <3>1
  <2> QED BY <2>2, <2>3
<1>5. FirstOf(y, (m - 1) + 1) <= d /\ d <= DayZero(y, (m - 1) + 1)
  <2>1. (m - 1) + 1 = m
    OBVIOUS
  <2>2. d <= DayZero(y, m)
    BY <1>2 DEF DayZero
  <2> QED BY <2>1, <2>2
<1>6. m - 1 \in 0..11 /\ \A n \in 0..11 : n \in Int /\ 0 <= n /\ n <= 11
  OBVIOUS
<1> QED BY <1>3, <1>4, <1>5, <1>6 DEF getMonth

LEMMA DayHasMonth ==
  ASSUME NEW d \in Nat
  PROVE  \E y \in Int, m \in Int : /\ 1 <= m /\ m <= 12
                                  /\ FirstOf(y, m) <= d /\ d < FirstOf(y, m + 1)
<1>1. PICK y \in Nat : NewYear(y) <= d /\ d < NewYear(y + 1)
  BY DayHasYear
<1>2. FirstOf(y, 1) <= d /\ ~(FirstOf(y, 13) <= d)
  BY <1>1, MonthsFollow, YearLength
<1>3. \A m \in 1..13 : FirstOf(y, m) \in Int
  <2>1. \A m \in Int : 1 <= m /\ m <= 13 => FirstOf(y, m) \in Int
    BY MonthsFollow
  <2> QED BY <2>1
<1>4. PICK m \in 1..12 : FirstOf(y, m) <= d /\ ~(FirstOf(y, m + 1) <= d)
  <2>1. ASSUME \A m \in 1..12 : FirstOf(y, m) <= d => FirstOf(y, m + 1) <= d
        PROVE  FirstOf(y, 13) <= d
    BY <1>2, <2>1
  <2> QED BY <1>2, <2>1
<1>5. FirstOf(y, m + 1) \in Int
  BY <1>3
<1> QED BY <1>4, <1>5

-----------------------------------------------------------------------------
(* The ranges.                                                             *)
LEMMA WeekDays ==
  ASSUME NEW d \in Nat, d >= 14
  PROVE  /\ IsWeek(TimeNode(3, d)) /\ Precedes(TimeNode(3, d), 4, d)
         /\ IsWeek(TimeNode(4, d)) /\ Holds(TimeNode(4, d), d)
<1> DEFINE w == (d + 1) % 7
<1>1. w \in Int /\ 0 <= w /\ w <= 6
  BY SMT
<1>2. /\ getDay(d) = w
      /\ LastSunday(d) = d - (IF w = 0 THEN 7 ELSE w)
      /\ NextSunday(d) = d + (IF w = 0 THEN 0 ELSE 7 - w)
  BY DEF getDay, LastSunday, NextSunday
<1>3. /\ TimeNode(3, d) = [start |-> LastSunday(d) - 6, end |-> LastSunday(d)]
      /\ TimeNode(4, d) = [start |-> NextSunday(d) - 6, end |-> NextSunday(d)]
  BY DEF TimeNode
<1>4. getDay(LastSunday(d) - 6) = 1 /\ getDay(NextSunday(d) - 6) = 1
  <2>1. /\ ((d - w) - 6 + 1) % 7 = 1
        /\ ((d - w - 7) - 6 + 1) % 7 = 1
        /\ ((d - w + 7) - 6 + 1) % 7 = 1
    BY SMT
  <2> QED BY <1>2, <2>1 DEF getDay
<1> QED BY <1>1, <1>2, <1>3, <1>4 DEF IsWeek, Precedes, Holds

LEMMA FirstsAreFirst ==
  ASSUME NEW y \in Int, y >= 1, NEW m \in Int, 1 <= m, m <= 13
  PROVE  FirstOf(y, m) \in Nat /\ IsFirst(FirstOf(y, m))
<1>1. ASSUME NEW z \in Int, z >= 1, NEW k \in Int, 1 <= k, k <= 12
      PROVE  FirstOf(z, k) \in Nat /\ IsFirst(FirstOf(z, k))
  <2>1. /\ FirstOf(z, 1) = NewYear(z) /\ NewYear(z) \in Int /\ NewYear(z) >= 0
        /\ FirstOf(z, k) \in Int /\ FirstOf(z, 1) <= FirstOf(z, k)
        /\ FirstOf(z, k) < FirstOf(z, k + 1)
    <3>1. NewYear(z) \in Int /\ 365 * (z - 1) <= NewYear(z)
      BY <1>1, YearLength, YearBounds
    <3>2. NewYear(z) >= 0
      BY <1>1, <3>1
    <3>3. FirstOf(z, 1) = NewYear(z) /\ FirstOf(z, k) \in Int
      BY <1>1, MonthsFollow
    <3>4. FirstOf(z, 1) <= FirstOf(z, k)
      BY <1>1, NextMonth
    <3>5. FirstOf(z, k) < FirstOf(z, k + 1)
      BY <1>1, NextMonth
    <3> QED BY <3>1, <3>2, <3>3, <3>4, <3>5
  <2>2. PICK d \in Nat : d = FirstOf(z, k)
    BY <2>1
  <2>3. z \in YearsAround(d)
    BY <1>1, <2>1, <2>2, MonthIs
  <2>4. k \in 1..12
    BY <1>1
  <2> QED BY <2>2, <2>3, <2>4 DEF IsFirst
<1>2. CASE m <= 12
  BY <1>1, <1>2
<1>3. CASE m = 13
  <2>1. FirstOf(y, 13) = NewYear(y + 1)
    BY MonthsFollow
  <2>2. FirstOf(y + 1, 1) = NewYear(y + 1)
    BY MonthsFollow
  <2>3. FirstOf(y + 1, 1) \in Nat /\ IsFirst(FirstOf(y + 1, 1))
    BY <1>1
  <2> QED BY <1>3, <2>1, <2>2, <2>3
<1> QED BY <1>2, <1>3

LEMMA MonthIsMonth ==
  ASSUME NEW y \in Int, y >= 1, NEW m \in Int, 1 <= m, m <= 12
  PROVE  IsMonth(MonthRange(<<y, m>>))
<1>1. /\ FirstOf(y, m) \in Nat /\ IsFirst(FirstOf(y, m))
      /\ FirstOf(y, m + 1) \in Nat /\ IsFirst(FirstOf(y, m + 1))
  BY FirstsAreFirst
<1>2. MonthRange(<<y, m>>) = [start |-> FirstOf(y, m), end |-> FirstOf(y, m + 1) - 1]
  BY DEF MonthRange, DayZero
<1>3. ASSUME NEW d \in Nat, FirstOf(y, m) < d, d < FirstOf(y, m + 1), IsFirst(d)
      PROVE  FALSE
  <2>1. PICK z \in YearsAround(d), k \in 1..12 : d = FirstOf(z, k)
    BY <1>3 DEF IsFirst
  <2>2. z \in Int /\ k \in Int /\ 1 <= k /\ k <= 12
    BY DEF YearsAround
  <2>3. FirstOf(z, k) <= d /\ d < FirstOf(z, k + 1)
    BY <2>1, <2>2, NextMonth
  <2>4. getFullYear(d) = z /\ getMonth(d) = k - 1
    BY <2>2, <2>3, MonthIs
  <2>5. getFullYear(d) = y /\ getMonth(d) = m - 1
    BY <1>1, <1>3, MonthIs
  <2>6. z = y /\ k = m
    BY <2>2, <2>4, <2>5
  <2> QED BY <1>1, <1>3, <2>1, <2>6
<1>4. (FirstOf(y, m + 1) - 1) + 1 = FirstOf(y, m + 1)
  BY <1>1
<1>5. \A d \in (FirstOf(y, m) + 1)..(FirstOf(y, m + 1) - 1) : ~IsFirst(d)
  BY <1>1, <1>3
<1> QED BY <1>1, <1>2, <1>4, <1>5 DEF IsMonth

LEMMA MonthDays ==
  ASSUME NEW d \in Nat, d >= FirstOf(2, 1)
  PROVE  /\ IsMonth(TimeNode(5, d)) /\ Precedes(TimeNode(5, d), 6, d)
         /\ IsMonth(TimeNode(6, d)) /\ Holds(TimeNode(6, d), d)
<1>1. PICK y \in Int, m \in Int :
        1 <= m /\ m <= 12 /\ FirstOf(y, m) <= d /\ d < FirstOf(y, m + 1)
  BY DayHasMonth
<1>2. getFullYear(d) = y /\ getMonth(d) = m - 1 /\ y >= 1
  BY <1>1, MonthIs
<1>3. y >= 2
  <2>1. CASE y = 1
    <3>1. FirstOf(y, m + 1) <= FirstOf(y, 13) /\ FirstOf(y, 13) = NewYear(y + 1)
          /\ FirstOf(y, m + 1) \in Int /\ FirstOf(y, 13) \in Int
      BY <1>1, NextMonth
    <3>2. FirstOf(2, 1) = NewYear(2) /\ y + 1 = 2
      BY <2>1, MonthsFollow
    <3> QED BY <1>1, <3>1, <3>2
  <2> QED BY <1>2, <2>1
<1>4. TimeNode(6, d) = MonthRange(<<y, m>>)
  <2>1. ThisMonth(d) = <<y, m>>
    BY <1>2 DEF ThisMonth
  <2> QED BY <2>1 DEF TimeNode
<1>5. PICK z \in Int, k \in Int :
        /\ 1 <= k /\ k <= 12 /\ z >= 1
        /\ LastMonth(d) = <<z, k>> /\ FirstOf(z, k + 1) = FirstOf(y, m)
  <2>1. CASE m = 1
    <3>1. LastMonth(d) = <<y - 1, 12>>
      BY <1>2, <2>1 DEF LastMonth
    <3>2. FirstOf(y - 1, 13) = NewYear((y - 1) + 1)
      BY MonthsFollow
    <3>3. FirstOf(y, 1) = NewYear(y) /\ (y - 1) + 1 = y /\ 12 + 1 = 13
      BY MonthsFollow
    <3>4. y - 1 \in Int /\ y - 1 >= 1
      BY <1>3
    <3> QED BY <2>1, <3>1, <3>2, <3>3, <3>4
  <2>2. CASE m > 1
    <3>1. LastMonth(d) = <<y, m - 1>>
      BY <1>1, <1>2, <2>2 DEF LastMonth
    <3>2. m - 1 \in Int /\ 1 <= m - 1 /\ m - 1 <= 12 /\ (m - 1) + 1 = m
      BY <1>1, <2>2
    <3> QED BY <1>2, <3>1, <3>2
  <2> QED BY <1>1, <2>1, <2>2
<1>6. TimeNode(5, d) = MonthRange(<<z, k>>)
  BY <1>5 DEF TimeNode
<1>7. IsMonth(TimeNode(6, d)) /\ IsMonth(TimeNode(5, d))
  BY <1>1, <1>2, <1>4, <1>5, <1>6, MonthIsMonth
<1>8. FirstOf(y, m) \in Int /\ FirstOf(y, m + 1) \in Int
  BY <1>1, MonthsFollow
<1>9. /\ TimeNode(6, d).start = FirstOf(y, m)
      /\ TimeNode(6, d).end = FirstOf(y, m + 1) - 1
      /\ TimeNode(5, d).end = FirstOf(y, m) - 1
  BY <1>4, <1>5, <1>6 DEF MonthRange, DayZero
<1>10. Precedes(TimeNode(5, d), 6, d)
  BY <1>8, <1>9 DEF Precedes
<1>11. Holds(TimeNode(6, d), d)
  BY <1>1, <1>8, <1>9 DEF Holds
<1> QED BY <1>7, <1>10, <1>11

LEMMA RangesFit ==
  ASSUME NEW d \in Nat, d >= FirstOf(2, 1), NEW i \in 1..6
  PROVE  IsRange(i, d, TimeNode(i, d))
<1>1. d >= 365
  <2>1. FirstOf(2, 1) = 365
    BY DEF FirstOf, NewYear, DaysBefore
  <2> QED BY <2>1
<1>2. CASE i = 1
  BY <1>2 DEF IsRange, TimeNode
<1>3. CASE i = 2
  BY <1>3 DEF IsRange, TimeNode
<1>4. CASE i = 3
  BY <1>1, <1>4, WeekDays DEF IsRange
<1>5. CASE i = 4
  BY <1>1, <1>5, WeekDays DEF IsRange
<1>6. CASE i = 5
  BY <1>6, MonthDays DEF IsRange
<1>7. CASE i = 6
  BY <1>7, MonthDays DEF IsRange
<1> QED BY <1>2, <1>3, <1>4, <1>5, <1>6, <1>7

-----------------------------------------------------------------------------
(* The dates in the fields are those of the range that was clicked last.   *)
RangeInv == today \in Days /\ index \in 1..6 /\ range = TimeNode(index, today)

LEMMA RangeStep == RangeInv /\ [Next]_vars => RangeInv'
<1> SUFFICES ASSUME RangeInv, [Next]_vars PROVE RangeInv'
  OBVIOUS
<1>1. CASE Confirm \/ CheckAll \/ UncheckAll \/ Drift \/ UNCHANGED vars
  <2>1. UNCHANGED <<today, range, index>>
    BY Zenon, <1>1 DEF Confirm, CheckAll, UncheckAll, Drift, vars
  <2> QED BY <2>1 DEF RangeInv
<1>2. ASSUME NEW i \in 1..6, ChooseRange(i) PROVE RangeInv'
  <2>1. index' = i /\ range' = TimeNode(i, today) /\ today' = today
    BY Zenon, <1>2 DEF ChooseRange
  <2> QED BY <2>1 DEF RangeInv
<1>3. ASSUME NEW r \in Rows, CheckRow(r) PROVE RangeInv'
  <2>1. UNCHANGED <<today, range, index>>
    BY Zenon, <1>3 DEF CheckRow
  <2> QED BY <2>1 DEF RangeInv
<1> QED BY <1>1, <1>2, <1>3 DEF Next

(* The dates a range puts into the fields are those it is named for, on    *)
(* any day of any year and in leap years (changeTimeNode).                 *)
THEOREM RangesArePicked == Spec => []RangeIsPicked
<1>1. Init => RangeInv
  BY DEF Init, RangeInv
<1>2. RangeInv => RangeIsPicked
  <2> SUFFICES ASSUME RangeInv PROVE RangeIsPicked
    OBVIOUS
  <2>1. today \in Nat /\ today >= FirstOf(2, 1)
    BY ReportAssumption DEF RangeInv
  <2> QED BY <2>1, RangesFit DEF RangeInv, RangeIsPicked
<1> QED BY <1>1, <1>2, RangeStep, PTL DEF Spec
=============================================================================
