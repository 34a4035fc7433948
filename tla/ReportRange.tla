---------------------------- MODULE ReportRange -----------------------------
(***************************************************************************)
(* The time ranges of the ad report (changeTimeNode of ad-report.js).      *)
(* Dates are days of the calendar of JavaScript's Date, numbered from      *)
(* 1 January of the year 1, a Monday.                                      *)
(***************************************************************************)
EXTENDS Integers

Leap(y) == y % 4 = 0 /\ (y % 100 # 0 \/ y % 400 = 0)

(* The days before each month of a common year, and before the next year.  *)
DaysBefore ==
  <<0, 31, 59, 90, 120, 151, 181, 212, 243, 273, 304, 334, 365>>

NewYear(y) ==
  365 * (y - 1) + (y - 1) \div 4 - (y - 1) \div 100 + (y - 1) \div 400

(* new Date(y, m - 1, 1), for m in 1..13: month 13 is January of the next  *)
(* year.                                                                   *)
FirstOf(y, m) ==
  NewYear(y) + DaysBefore[m] + (IF m > 2 /\ Leap(y) THEN 1 ELSE 0)

(* new Date(y, m, 0): the day before the first of the month after m.       *)
DayZero(y, m) == FirstOf(y, m + 1) - 1

(* A year has 365 or 366 days.                                             *)
YearsAround(d) == (d \div 366 + 1)..(d \div 365 + 1)

getFullYear(d) ==
  CHOOSE y \in YearsAround(d) : FirstOf(y, 1) <= d /\ d <= DayZero(y, 12)
getMonth(d) == CHOOSE m \in 0..11 :
  LET y == getFullYear(d) IN FirstOf(y, m + 1) <= d /\ d <= DayZero(y, m + 1)
getDay(d) == (d + 1) % 7             \* 0 is Sunday

-----------------------------------------------------------------------------
(* Mutant: on a Sunday the week that ends is taken.                        *)
LastSundayToday(d) == d - getDay(d)

(* The switch of "last week": the Sunday before the present week.          *)
LastSunday(d) == d - (IF getDay(d) = 0 THEN 7 ELSE getDay(d))

(* The switch of "this week": its Sunday.                                  *)
NextSunday(d) == d + (IF getDay(d) = 0 THEN 0 ELSE 7 - getDay(d))

(* The year and the month, from 1, of "last month" and of "this month".    *)
LastMonth(d) ==
  LET month == IF getMonth(d) = 0 THEN 12 ELSE getMonth(d)
      year == IF month = 12 THEN getFullYear(d) - 1 ELSE getFullYear(d)
  IN <<year, month>>
ThisMonth(d) == <<getFullYear(d), getMonth(d) + 1>>

MonthRange(ym) == [start |-> FirstOf(ym[1], ym[2]), end |-> DayZero(ym[1], ym[2])]

(* changeTimeNode: yesterday, today, last week, this week, last month,     *)
(* this month.                                                             *)
TimeNode(index, d) ==
  CASE index = 1 -> [start |-> d - 1, end |-> d - 1]
    [] index = 2 -> [start |-> d, end |-> d]
    [] index = 3 -> [start |-> LastSunday(d) - 6, end |-> LastSunday(d)]
    [] index = 4 -> [start |-> NextSunday(d) - 6, end |-> NextSunday(d)]
    [] index = 5 -> MonthRange(LastMonth(d))
    [] index = 6 -> MonthRange(ThisMonth(d))

-----------------------------------------------------------------------------
(* What the ranges are meant to be: from a Monday to a Sunday and from the *)
(* first to the last of a month, around the day or just before the range   *)
(* that is around it.                                                      *)
IsWeek(r) == getDay(r.start) = 1 /\ r.end = r.start + 6
IsFirst(d) == \E y \in YearsAround(d), m \in 1..12 : d = FirstOf(y, m)
IsMonth(r) ==
  IsFirst(r.start) /\ IsFirst(r.end + 1)
    /\ \A d \in (r.start + 1)..r.end : ~IsFirst(d)
Holds(r, d) == d \in r.start..r.end
Precedes(r, index, d) == r.end + 1 = TimeNode(index, d).start

IsRange(index, d, r) ==
  CASE index = 1 -> r.start = r.end /\ r.end + 1 = d
    [] index = 2 -> r.start = d /\ r.end = d
    [] index = 3 -> IsWeek(r) /\ Precedes(r, 4, d)
    [] index = 4 -> IsWeek(r) /\ Holds(r, d)
    [] index = 5 -> IsMonth(r) /\ Precedes(r, 6, d)
    [] index = 6 -> IsMonth(r) /\ Holds(r, d)
=============================================================================
