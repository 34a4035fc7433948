------------------------------ MODULE AdStats -------------------------------
(***************************************************************************)
(* The page views and clicks of one ad: ckserver counts them in a Redis    *)
(* hash (adstat_main_<ad>), adtimer moves the counts to the rows of        *)
(* ad_stat_info.  The hash of a material is treated by copies of the same  *)
(* code (materialFirstPV, MaStatInfoToMysqlHour and so on).                *)
(*                                                                         *)
(* Every Redis command and every statement is a step of its own: nothing   *)
(* locks the hash, and a pipeline only sends its commands together.        *)
(***************************************************************************)
EXTENDS Integers, Sequences, FiniteSetsExt

CONSTANTS
  Requests,          \* requests ckserver can be working on at a time
  HoursPerDay,       \* hours of a day
  LastHour,          \* bound: the clock stops in this hour
  MaxEvents,         \* bound: page views and clicks, by kind
  Missing,           \* a field the hash does not have
  Serial,            \* TRUE: requests and jobs do not overlap
  QuietMidnight,     \* TRUE: no request in the first 15 seconds of a day
  ClicksFollowViews, \* TRUE: an ad is clicked on a day it was viewed,
                     \* FALSE: also on the days after
  DatabaseFails      \* TRUE: a job may fail at the database

ASSUME StatsAssumption ==
  /\ HoursPerDay \in Nat \ {0}
  /\ LastHour \in Nat
  /\ MaxEvents \in [{"pv", "click"} -> Nat]
  /\ Missing \notin Nat
  /\ {Serial, QuietMidnight, ClicksFollowViews, DatabaseFails} \subseteq BOOLEAN

Types == {"D", "H"}          \* num_type: today_..., currentHour_...
Kinds == {"pv", "click"}
Fields == Types \X Kinds
Hours == 0..LastHour
Periods == -1..LastHour      \* days and hours are numbered from 0
Jobs == {"hour", "day", "minute"}

VARIABLES
  hour,      \* the clock: hours since the start,
  phase,     \* and the part of the hour: "turn" up to second 15, "quarter"
             \* up to second 30, "half" from then on
  due,       \* jobs whose timer has fired
  hash,      \* the hash of the ad in Redis
  rows,      \* ad_stat_info: the rows of each period, oldest first
  reqs,      \* the requests being worked on
  jobs,      \* the runs of the jobs
  events     \* history: page views and clicks so far

vars == <<hour, phase, due, hash, rows, reqs, jobs, events>>

today == hour \div HoursPerDay
Now(t) == IF t = "D" THEN today ELSE hour
Midnight == hour % HoursPerDay = 0

(* The hash exists as long as it has a field.                              *)
KeyExists == \E f \in Fields : hash[f] # Missing

(* NULL counts for nothing when rows are added up.                         *)
ReadField(f) == IF hash[f] = Missing THEN 0 ELSE hash[f]

NoCount == [k \in Kinds |-> 0]

NoRequest == [pc |-> "idle", kind |-> "pv", todo |-> {}, sets |-> {},
              at |-> [t \in Types |-> 0]]
NoRun == [pc |-> "idle", ts |-> [t \in {} |-> 0],
          read |-> [f \in {} |-> 0]]

RequestsIdle == \A r \in Requests : reqs[r].pc = "idle"
JobsIdle == \A j \in Jobs : jobs[j].pc = "idle"

Init ==
  /\ hour = 0 /\ phase = "half" /\ due = {}
  /\ hash = [f \in Fields |-> Missing]
  /\ rows = [t \in Types |-> [p \in Periods |-> <<>>]]
  /\ reqs = [r \in Requests |-> NoRequest]
  /\ jobs = [j \in Jobs |-> NoRun]
  /\ events = NoCount

(***************************************************************************)
(* Requests (ckserver, AdLogServiceImpl).                                  *)
(***************************************************************************)

(* Between the turn of the day and the day job's delete, the hash still    *)
(* holds the counts of the day before.                                     *)
MayRequest ==
  /\ Serial => RequestsIdle /\ JobsIdle /\ due = {}
  /\ QuietMidnight => ~ (Midnight /\ phase = "turn")

Arrive(r, pc, kind) ==
  /\ reqs[r].pc = "idle" /\ MayRequest /\ events[kind] < MaxEvents[kind]
  /\ events' = [events EXCEPT ![kind] = @ + 1]
  /\ reqs' = [reqs EXCEPT ![r] =
       [pc |-> pc, kind |-> kind, todo |-> Types, sets |-> {},
        at |-> [t \in Types |-> Now(t)]]]
  /\ UNCHANGED <<hour, phase, due, hash, rows, jobs>>

View(r) == Arrive(r, IF KeyExists THEN "count" ELSE "find", "pv")

Click(r) ==
  /\ IF ClicksFollowViews THEN KeyExists ELSE events["pv"] > 0
  /\ Arrive(r, "count", "click")

(* The day comes before the hour.                                          *)
NextOf(r, t) == t \in reqs[r].todo /\ (t = "H" => "D" \notin reqs[r].todo)

(* The request, or the run of a job, goes on as given.                     *)
GoOn(r, req) == reqs' = [reqs EXCEPT ![r] = req]
RunOn(j, run) == jobs' = [jobs EXCEPT ![j] = run]

(* HINCRBY of the day's field, then of the hour's.                         *)
Count(r, t) ==
  /\ reqs[r].pc = "count" /\ NextOf(r, t)
  /\ LET f == <<t, reqs[r].kind>>
     IN  hash' = [hash EXCEPT ![f] = ReadField(f) + 1]
  /\ GoOn(r, IF t = "H" THEN NoRequest ELSE [reqs[r] EXCEPT !.todo = @ \ {t}])
  /\ UNCHANGED <<hour, phase, due, rows, jobs, events>>

RowDone(r, t) ==
  GoOn(r, [reqs[r] EXCEPT !.todo = @ \ {t},
                          !.pc   = IF t = "H" THEN "set" ELSE "find",
                          !.sets = IF t = "H" THEN Fields ELSE {}])

(* Mutant: the rows are inserted without a look-up.                        *)
FindRowBlind(r, t) ==
  /\ reqs[r].pc = "find" /\ NextOf(r, t)
  /\ GoOn(r, [reqs[r] EXCEPT !.pc = "insert"])
  /\ UNCHANGED <<hour, phase, due, hash, rows, jobs, events>>

(* The first view of the day looks for the row of the day and for that of  *)
(* the hour and inserts the missing ones, ...                              *)
FindRow(r, t) ==
  /\ reqs[r].pc = "find" /\ NextOf(r, t)
  /\ IF rows[t][reqs[r].at[t]] = <<>>
     THEN GoOn(r, [reqs[r] EXCEPT !.pc = "insert"])
     ELSE RowDone(r, t)
  /\ UNCHANGED <<hour, phase, due, hash, rows, jobs, events>>

(* ... where the hour of a new row is read from the clock again, ...       *)
InsertRow(r, t) ==
  /\ reqs[r].pc = "insert" /\ NextOf(r, t)
  /\ LET p == IF t = "D" THEN reqs[r].at["D"] ELSE hour
     IN  rows' = [rows EXCEPT ![t][p] = Append(@, NoCount)]
  /\ RowDone(r, t)
  /\ UNCHANGED <<hour, phase, due, hash, jobs, events>>

(* ... and sets the fields one by one, in the order the JSON object has.   *)
SetField(r, f) ==
  /\ reqs[r].pc = "set" /\ f \in reqs[r].sets
  /\ hash' = [hash EXCEPT ![f] = IF f[2] = "pv" THEN 1 ELSE 0]
  /\ GoOn(r, IF reqs[r].sets = {f} THEN NoRequest
                                    ELSE [reqs[r] EXCEPT !.sets = @ \ {f}])
  /\ UNCHANGED <<hour, phase, due, rows, jobs, events>>

(***************************************************************************)
(* Jobs (adtimer).  A run lists the keys, reads the hash of each, changes  *)
(* it, and writes all the rows at the end in one batch.                    *)
(***************************************************************************)
MayRun == Serial => RequestsIdle

Moves(j) == CASE j = "hour" -> {"H"} [] j = "day" -> {"D"}
                                     [] j = "minute" -> Types

(* Mutants: the period after, and the present one.                         *)
PeriodAfter(j, t) == IF j = "minute" THEN Now(t) ELSE Now(t) + 1
PeriodPresent(j, t) == Now(t)

(* The hour job and the day job write the period before the present one.   *)
PeriodOf(j, t) == IF j = "minute" THEN Now(t) ELSE Now(t) - 1

(* The minute job also runs every minute after its first time of the hour. *)
ListKeys(j) ==
  /\ jobs[j].pc = "idle" /\ MayRun
  /\ j \in due \/ (j = "minute" /\ phase = "half")
  /\ due' = due \ {j}
  /\ RunOn(j, IF KeyExists
              THEN [NoRun EXCEPT !.pc = "read",
                                 !.ts = [t \in Moves(j) |-> PeriodOf(j, t)]]
              ELSE NoRun)
  /\ UNCHANGED <<hour, phase, hash, rows, reqs, events>>

ReadHash(j) ==
  /\ jobs[j].pc = "read" /\ MayRun
  /\ RunOn(j, [pc   |-> CASE j = "hour" -> "resetClick" [] j = "day" -> "delete"
                                                      [] j = "minute" -> "update",
               ts   |-> jobs[j].ts,
               read |-> [f \in Moves(j) \X Kinds |-> ReadField(f)]])
  /\ UNCHANGED <<hour, phase, due, hash, rows, reqs, events>>

(* The hour job resets the hour's fields, the clicks first; the day job    *)
(* deletes the whole hash, the counts of the hour included.                *)
ResetField(kind, pc, next) ==
  /\ jobs["hour"].pc = pc /\ MayRun
  /\ hash' = [hash EXCEPT ![<<"H", kind>>] = 0]
  /\ RunOn("hour", [jobs["hour"] EXCEPT !.pc = next])
  /\ UNCHANGED <<hour, phase, due, rows, reqs, events>>

(* Mutants: one of the two counts of the hour is not reset.                *)
ResetPvOnly == ResetField("pv", "resetClick", "update")
ResetClickOnly == ResetField("click", "resetClick", "update")

ResetHour == \/ ResetField("click", "resetClick", "resetPv")
             \/ ResetField("pv", "resetPv", "update")

(* Mutant: the day's fields are reset instead, as the commented-out lines  *)
(* of DayAdStat2MysqlTimerTask did.                                        *)
ResetDay ==
  /\ jobs["day"].pc = "delete" /\ MayRun
  /\ hash' = [f \in Fields |-> IF f[1] = "D" THEN 0 ELSE hash[f]]
  /\ RunOn("day", [jobs["day"] EXCEPT !.pc = "update"])
  /\ UNCHANGED <<hour, phase, due, rows, reqs, events>>

DeleteHash ==
  /\ jobs["day"].pc = "delete" /\ MayRun
  /\ hash' = [f \in Fields |-> Missing]
  /\ RunOn("day", [jobs["day"] EXCEPT !.pc = "update"])
  /\ UNCHANGED <<hour, phase, due, rows, reqs, events>>

(* UPDATE changes all the rows of the period, or none if it has none.      *)
UpdateRows(j) ==
  /\ jobs[j].pc = "update" /\ MayRun
  /\ rows' = [t \in Types |-> [p \in Periods |->
       [i \in DOMAIN rows[t][p] |->
          IF t \in Moves(j) /\ p = jobs[j].ts[t]
          THEN [k \in Kinds |-> jobs[j].read[<<t, k>>]]
          ELSE rows[t][p][i]]]]
  /\ RunOn(j, IF j = "hour" THEN [jobs[j] EXCEPT !.pc = "insert"] ELSE NoRun)
  /\ UNCHANGED <<hour, phase, due, hash, reqs, events>>

(* The hour job inserts the row of the new hour without looking for one.   *)
InsertHour ==
  /\ jobs["hour"].pc = "insert" /\ MayRun
  /\ rows' = [rows EXCEPT !["H"][hour] = Append(@, NoCount)]
  /\ RunOn("hour", NoRun)
  /\ UNCHANGED <<hour, phase, due, hash, reqs, events>>

(* A failing statement ends the run; nothing of it is repeated.            *)
Fail(j) ==
  /\ DatabaseFails /\ jobs[j].pc \in {"update", "insert"}
  /\ RunOn(j, NoRun)
  /\ UNCHANGED <<hour, phase, due, hash, rows, reqs, events>>

JobStep(j) == ListKeys(j) \/ ReadHash(j) \/ UpdateRows(j) \/ Fail(j)

(***************************************************************************)
(* The clock.  The timers fire at second 0 of the hour, 15 of the day and  *)
(* 30 of the minute; the jobs are assumed to end before the next one.      *)
(***************************************************************************)
Punctual == due = {} /\ JobsIdle

Wait ==
  /\ Punctual /\ (Serial => RequestsIdle)
  /\ \/ /\ phase = "turn" /\ phase' = "quarter"
        /\ due' = IF Midnight THEN {"day"} ELSE {}
        /\ UNCHANGED hour
     \/ phase = "quarter" /\ phase' = "half" /\ due' = {"minute"} /\ UNCHANGED hour
     \/ /\ phase = "half" /\ hour < LastHour
        /\ phase' = "turn" /\ hour' = hour + 1 /\ due' = {"hour"}
  /\ UNCHANGED <<hash, rows, reqs, jobs, events>>

Request(r) == \/ View(r) \/ Click(r)
              \/ \E t \in Types : Count(r, t) \/ FindRow(r, t) \/ InsertRow(r, t)
              \/ \E f \in Fields : SetField(r, f)

Next == \/ \E r \in Requests : Request(r)
        \/ \E j \in Jobs : JobStep(j)
        \/ ResetHour \/ DeleteHash \/ InsertHour \/ Wait

Spec == Init /\ [][Next]_vars

(***************************************************************************)
(* Properties.                                                             *)
(***************************************************************************)

(* Types of the variables.                                                 *)
TypeOK ==
  /\ hour \in Hours /\ phase \in {"turn", "quarter", "half"} /\ due \subseteq Jobs
  /\ hash \in [Fields -> Nat \cup {Missing}]
  /\ rows \in [Types -> [Periods -> Seq([Kinds -> Nat])]]
  /\ reqs \in [Requests -> [pc: {"idle", "count", "find", "insert", "set"},
                            kind: Kinds, todo: SUBSET Types,
                            sets: SUBSET Fields, at: [Types -> Hours]]]
  /\ DOMAIN jobs = Jobs
  /\ \A j \in Jobs : \E T \in {{}, Moves(j)}, R \in {{}, Moves(j) \X Kinds} :
       jobs[j] \in [pc: {"idle", "read", "resetClick", "resetPv", "delete",
                        "update", "insert"},
                   ts: [T -> Periods], read: [R -> Nat]]
  /\ events \in [Kinds -> Nat]

(* The period whose counts the hash holds: from the turn of a period to    *)
(* the end of the job that moves them it is still the one before.          *)
Mover(t) == IF t = "D" THEN "day" ELSE "hour"
Moving(t) == Mover(t) \in due \/ jobs[Mover(t)].pc \notin {"idle", "insert"}
Counting(t) ==
  IF Moving(t) \/ (t = "D" /\ Midnight /\ phase = "turn") THEN Now(t) - 1
                                                        ELSE Now(t)

(* What the rows of a period say; the jobs write them all alike.           *)
Stored(t, p, k) ==
  IF rows[t][p] = <<>> THEN 0
  ELSE Max({rows[t][p][i][k] : i \in DOMAIN rows[t][p]})

Total(t, k, P) == MapThenSumSet(LAMBDA p : Stored(t, p, k), P)

(* However requests overlap each other and the jobs (savePvInfo,           *)
(* adFirstPV and the pipelines against HourAdStat2MysqlTimerTask,          *)
(* DayAdStat2MysqlTimerTask and RtAdStat2MysqlTimerTask), and whichever    *)
(* job fails at the database, no view and no click is stored in two days   *)
(* or in two hours, or twice in one: advertisers pay for the sum.          *)
NoDoubleCount ==
  \A t \in Types, k \in Kinds : Total(t, k, Periods) <= events[k]

(* What the code keeps one row of, it keeps one row of: the look-ups of    *)
(* adFirstPV and the unconditional insert of the hour job never give a day *)
(* or an hour two rows when they do not overlap.                           *)
OneRowPerPeriod ==
  \A t \in Types, p \in Periods : Len(rows[t][p]) <= 1

(* DayAdStat2MysqlTimerTask.java:325: the day job need not insert the row  *)
(* of the new day, it is inserted when the ad is delivered again.  Without *)
(* the row the day's counts are lost when the day job updates it.          *)
DeliveredDayHasRow ==
  RequestsIdle /\ JobsIdle /\ ReadField(<<"D", "pv">>) > 0
    => rows["D"][Counting("D")] # <<>>
=============================================================================
