----------------------------- MODULE ReportPage -----------------------------
(***************************************************************************)
(* The ad report of an advertiser (ad-report.js): a table of ads with the  *)
(* counts of a range of time, from which the user picks rows, and below    *)
(* them the sums of the picked rows.  Every click reloads the table and    *)
(* puts the ticks back by the ids of the ads; the sums are kept up to date *)
(* by adding and subtracting.  The seven sums are handled alike and are    *)
(* one here.  The requests are synchronous: each click is one step.        *)
(***************************************************************************)
EXTENDS ReportRange, FiniteSetsExt

CONSTANTS
  Rows,       \* the rows of the table
  AdIds,      \* the ids of the ads,
  AdId,       \* the ad of each row,
  SuffixOf,   \* and the pairs of ids of which the first ends the second
  Counts,     \* the counts an ad may have
  MaxTotal,   \* bound: a sum that has gone wrong stays below it
  Days        \* the days the user may open the report on, which are not of
              \* the first year of all

ASSUME ReportAssumption ==
  /\ IsFiniteSet(Rows)
  /\ AdId \in [Rows -> AdIds] /\ SuffixOf \subseteq AdIds \X AdIds
  /\ Counts \subseteq Nat /\ MaxTotal \in Nat
  /\ Days \subseteq Nat /\ \A d \in Days : d >= FirstOf(2, 1)

VARIABLES
  today,      \* the day the report is open
  range,      \* the dates a range has put into the fields start and end
  index,      \* the range that was picked
  data,       \* the counts the server has for the dates
  table,      \* the counts of the table in the page
  checked,    \* the rows that are ticked
  checkedAll, \* the tick of the header
  total,      \* the variable total_pv
  sum,        \* the text of the sum, and whether its row is shown
  shown,
  stale       \* history: since the last click on a range or the header,
              \* counts or dates have changed, #confirm was pressed with
              \* ticks, or setDefault ticked a row of another ad

vars == <<today, range, index, data, table, checked, checkedAll, total, sum,
          shown, stale>>

Init ==
  /\ today \in Days
  /\ range = TimeNode(2, today) /\ index = 2
  /\ data \in [Rows -> Counts] /\ table = data
  /\ checked = {} /\ checkedAll = FALSE
  /\ total = 0 /\ sum = 0 /\ shown = FALSE /\ stale = FALSE

(* getCheckAdIds collects the ids of the ticked rows, setDefault ticks     *)
(* every row whose id ends with one of them (value$=).                     *)
setDefault(rows) ==
  {r \in Rows : \E q \in rows :
     AdId[q] = AdId[r] \/ <<AdId[q], AdId[r]>> \in SuffixOf}

(* The table comes without ticks and with a hidden row of the sum.         *)
Reload(rows) == table' = data /\ checked' = setDefault(rows)

SumOf(t, rows) == MapThenSumSet(LAMBDA r : t[r], rows)

Show(s) == total' = s /\ sum' = s /\ shown' = TRUE

(* Mutant: the text of the sum stays behind its hidden row.                *)
NoSumHidden == total' = 0 /\ sum' = sum /\ shown' = FALSE

NoSum == total' = 0 /\ sum' = 0 /\ shown' = FALSE

(* #confirm: the sums go, the ticks stay.                                  *)
Confirm ==
  /\ Reload(checked) /\ NoSum
  /\ stale' = (stale \/ checked # {})
  /\ UNCHANGED <<today, range, index, data, checkedAll>>

(* Mutant: the ticks stay.                                                 *)
ChooseKeepingTicks(i) ==
  /\ index' = i /\ range' = TimeNode(i, today)
  /\ data' \in [Rows -> Counts] /\ table' = data'
  /\ checked' = checked /\ checkedAll' = FALSE
  /\ NoSum /\ stale' = FALSE
  /\ UNCHANGED today

(* A link of #time-range: the dates, no ticks, then #confirm.              *)
ChooseRange(i) ==
  /\ index' = i /\ range' = TimeNode(i, today)
  /\ data' \in [Rows -> Counts] /\ table' = data'
  /\ checked' = {} /\ checkedAll' = FALSE
  /\ NoSum /\ stale' = FALSE
  /\ UNCHANGED today

(* The tick of the header: all rows, #confirm, then Sum; or none.          *)
CheckAll ==
  /\ ~checkedAll /\ checkedAll' = TRUE
  /\ Reload(Rows) /\ Show(SumOf(data, Rows))
  /\ stale' = FALSE
  /\ UNCHANGED <<today, range, index, data>>

UncheckAll ==
  /\ checkedAll /\ checkedAll' = FALSE
  /\ Reload({}) /\ NoSum
  /\ stale' = FALSE
  /\ UNCHANGED <<today, range, index, data>>

(* The tick of a row.  The row that was clicked is the one of the old      *)
(* table: its count is added or subtracted.                                *)
CheckRow(r) ==
  LET on == r \notin checked
      ticked == IF on THEN checked \cup {r} ELSE checked \ {r}
      new == IF on THEN total + table[r] ELSE total - table[r]
  IN /\ new \in -MaxTotal..MaxTotal
     /\ Reload(ticked) /\ Show(new)
     /\ stale' = (stale \/ setDefault(ticked) # ticked)
     /\ UNCHANGED <<today, range, index, data, checkedAll>>

(* The server counts on, or the user writes other dates into the fields.   *)
Drift ==
  /\ data' \in [Rows -> Counts] /\ stale' = TRUE
  /\ UNCHANGED <<today, range, index, table, checked, checkedAll, total, sum,
                 shown>>

Next ==
  \/ Confirm \/ CheckAll \/ UncheckAll \/ Drift
  \/ \E i \in 1..6 : ChooseRange(i)
  \/ \E r \in Rows : CheckRow(r)

Spec == Init /\ [][Next]_vars

-----------------------------------------------------------------------------
TypeOK ==
  /\ today \in Days /\ index \in 1..6
  /\ data \in [Rows -> Counts] /\ table \in [Rows -> Counts]
  /\ checked \subseteq Rows /\ checkedAll \in BOOLEAN
  /\ total \in Int
  /\ shown \in BOOLEAN /\ sum = IF shown THEN total ELSE 0
  /\ stale \in BOOLEAN

(* The sum is that of the ticked rows, through any sequence of clicks on   *)
(* rows, header and ranges; and however it went wrong, the next click on   *)
(* the header or a range puts it right.                                    *)
SumOfTicked == ~stale => total = SumOf(table, checked)

(* A range puts its own dates into the fields: its week or month begins    *)
(* and ends where it should, over the ends of months and years.            *)
RangeIsPicked == IsRange(index, today, range)
=============================================================================
