--------------------------- MODULE AdStatsLedger ----------------------------
(***************************************************************************)
(* AdStats without overlaps implements AdLedger, once for the days and     *)
(* once for the hours: the open period is what the hash counts, the closed *)
(* ones are the rows and what a job has taken out of the hash and not yet  *)
(* written.                                                                *)
(***************************************************************************)
EXTENDS AdStats

Open(t) == [k \in Kinds |-> ReadField(<<t, k>>)]

(* In the hands of the job that moves the counts of t: taken out of the    *)
(* hash by its reset or its delete.                                        *)
Taken(t, k) ==
  LET j == Mover(t)
      pc == jobs[j].pc
  IN  IF pc = "update" \/ (pc = "resetPv" /\ k = "click")
      THEN jobs[j].read[<<t, k>>] ELSE 0

Closed(t) ==
  [k \in Kinds |-> Total(t, k, {p \in Periods : p < Counting(t)}) + Taken(t, k)]

Days  == INSTANCE AdLedger WITH open <- Open("D"), closed <- Closed("D")
Clock == INSTANCE AdLedger WITH open <- Open("H"), closed <- Closed("H")

(* The views and clicks counted by ckserver reach the rows of the days     *)
(* (hincrBy and the first view's hset, DayAdStat2MysqlTimerTask's read,    *)
(* delete and update): none is lost on the way and none is moved twice.    *)
DaysKeepTheLedger == Days!LedgerSpec

(* The same of the rows of the hours: HourAdStat2MysqlTimerTask's read,    *)
(* resets, update and insert, the rows inserted by the first view, and the *)
(* day job's delete of the hash, which also holds the hour's counts.       *)
HoursKeepTheLedger == Clock!LedgerSpec
=============================================================================
