--------------------------- MODULE AdStats_proofs ---------------------------
(***************************************************************************)
(* Proofs about the statistics of an ad, for any number of requests, of    *)
(* days and of hours.  The first part holds however requests and jobs      *)
(* overlap and whichever fails: the types, and that no view and no click   *)
(* is stored twice.  The second is about requests that overlap neither     *)
(* each other nor the jobs: every day and every hour has one row at most,  *)
(* the day of an ad that is delivered has its row, and the views and       *)
(* clicks keep the ledgers of the days and of the hours.                   *)
(***************************************************************************)
EXTENDS AdStatsLedger, SumLemmas, FunctionTheorems, SequenceTheorems

(***************************************************************************)
(* The calendar.                                                           *)
(***************************************************************************)
LEMMA DayOfHour ==
  ASSUME NEW h \in Nat
  PROVE  h \div HoursPerDay \in Nat /\ h \div HoursPerDay <= h
BY StatsAssumption

(* A day begins with the hours whose number its length divides.            *)
LEMMA DayTurns ==
  ASSUME NEW h \in Nat
  PROVE  (h + 1) \div HoursPerDay =
           IF (h + 1) % HoursPerDay = 0 THEN h \div HoursPerDay + 1
                                        ELSE h \div HoursPerDay
BY StatsAssumption

LEMMA NowIsPeriod ==
  ASSUME hour \in Hours, NEW t \in Types
  PROVE  Now(t) \in Nat /\ Now(t) \in Periods /\ Now(t) - 1 \in Periods
<1>1. hour \in Nat /\ LastHour \in Nat /\ hour <= LastHour
  BY StatsAssumption DEF Hours
<1>2. today \in Nat /\ today <= hour
  BY <1>1, DayOfHour DEF today
<1>3. QED
  BY <1>1, <1>2 DEF Now, Periods

(***************************************************************************)
(* The type invariant.  A run has the periods it writes from its start on, *)
(* and the counts from its reading; and a job runs only in its part of the *)
(* hour, so that no two jobs run at a time and none of them sees the clock *)
(* go on.                                                                  *)
(***************************************************************************)
PeriodsOf(j) == [t \in Moves(j) |-> PeriodOf(j, t)]

Reads(j) == [Moves(j) \X Kinds -> Nat]

Later(j) == CASE j = "hour" -> {"resetClick", "resetPv", "update", "insert"}
              [] j = "day" -> {"delete", "update"}
              [] j = "minute" -> {"update"}

Started(j) == [NoRun EXCEPT !.pc = "read", !.ts = PeriodsOf(j)]

RunOK(j, run) ==
  \/ run = NoRun \/ run = Started(j)
  \/ \E pc \in Later(j), read \in Reads(j) :
       run = [pc |-> pc, ts |-> PeriodsOf(j), read |-> read]

JobsOK ==
  /\ jobs = [j \in Jobs |-> jobs[j]]
  /\ \A j \in Jobs : RunOK(j, jobs[j])

Busy(j) == j \in due \/ jobs[j].pc # "idle"

PhaseOK ==
  /\ phase # "half" => hour # 0
  /\ Busy("hour") => phase = "turn"
  /\ Busy("day") => phase = "quarter" /\ Midnight
  /\ Busy("minute") => phase = "half"

ReqType == [pc: {"idle", "count", "find", "insert", "set"}, kind: Kinds,
            todo: SUBSET Types, sets: SUBSET Fields, at: [Types -> Hours]]

TablesOK ==
  /\ hour \in Hours /\ phase \in {"turn", "quarter", "half"} /\ due \subseteq Jobs
  /\ hash \in [Fields -> Nat \cup {Missing}]
  /\ rows \in [Types -> [Periods -> Seq([Kinds -> Nat])]]
  /\ reqs \in [Requests -> ReqType]
  /\ events \in [Kinds -> Nat]

TypeInv == TablesOK /\ JobsOK /\ PhaseOK

LEMMA FieldIsNat ==
  ASSUME TypeInv, NEW f \in Fields
  PROVE  ReadField(f) \in Nat
BY DEF TypeInv, TablesOK, ReadField

LEMMA TypeInvInit == Init => TypeInv
<1> SUFFICES ASSUME Init PROVE TypeInv
  OBVIOUS
<1>1. TablesOK
  <2>1. 0 \in Hours
    BY StatsAssumption DEF Hours
  <2>2. NoRequest \in ReqType
    BY <2>1 DEF NoRequest, ReqType, Kinds
  <2>3. rows \in [Types -> [Periods -> Seq([Kinds -> Nat])]]
    BY DEF Init
  <2>4. QED
    BY <2>1, <2>2, <2>3 DEF Init, TablesOK, Jobs, NoCount
<1>2. JobsOK
  BY DEF Init, JobsOK, RunOK
<1>3. PhaseOK
  BY DEF Init, PhaseOK, Busy, Jobs, NoRun
<1>4. QED
  BY <1>1, <1>2, <1>3 DEF TypeInv

LEMMA RequestTypes ==
  ASSUME TypeInv, NEW r \in Requests, Request(r)
  PROVE  TypeInv'
<1> USE DEF TypeInv
<1>1. hour \in Nat /\ \A t \in Types : Now(t) \in Hours
  <2>1. hour \in Nat /\ LastHour \in Nat /\ hour <= LastHour
    BY StatsAssumption DEF TablesOK, Hours
  <2>2. today \in Nat /\ today <= hour
    BY <2>1, DayOfHour DEF today
  <2>3. QED
    BY <2>1, <2>2 DEF Now, Hours
<1>2. 0 \in Hours /\ NoRequest \in ReqType
  BY <1>1, StatsAssumption DEF NoRequest, ReqType, Kinds, Hours
<1>3. reqs[r] \in ReqType
  BY DEF TablesOK
<1>4. UNCHANGED <<hour, phase, due, jobs>>
  BY DEF Request, View, Click, Arrive, Count, FindRow, InsertRow, SetField
<1>5. JobsOK' /\ PhaseOK'
  <2>1. \A j \in Jobs : PeriodsOf(j)' = PeriodsOf(j)
    BY <1>4 DEF PeriodsOf, PeriodOf, Now, today
  <2>2. \A j \in Jobs : RunOK(j, jobs[j])'
    BY <1>4, <2>1 DEF JobsOK, RunOK, Started
  <2>3. QED
    BY <1>4, <2>2 DEF JobsOK, PhaseOK, Busy, Midnight
<1>6. TablesOK'
  <2>1. CASE View(r)
    <3>1. PICK pc \in {"count", "find"} : Arrive(r, pc, "pv")
      BY <2>1 DEF View
    <3>2. QED
      BY <1>1, <3>1 DEF Arrive, TablesOK, ReqType, Kinds
  <2>2. CASE Click(r)
    BY <1>1, <2>2 DEF Click, Arrive, TablesOK, ReqType, Kinds
  <2>3. ASSUME NEW t \in Types, Count(r, t) PROVE TablesOK'
    <3>1. <<t, reqs[r].kind>> \in Fields
      BY <1>3 DEF ReqType, Fields
    <3>2. hash' \in [Fields -> Nat \cup {Missing}]
      BY <2>3, <3>1, FieldIsNat DEF Count, TablesOK
    <3>3. reqs' \in [Requests -> ReqType]
      BY <1>2, <1>3, <2>3 DEF Count, GoOn, TablesOK, ReqType
    <3>4. QED
      BY <2>3, <3>2, <3>3 DEF Count, TablesOK
  <2>4. ASSUME NEW t \in Types, FindRow(r, t) PROVE TablesOK'
    <3>1. PICK req \in ReqType : GoOn(r, req)
      <4>1. [reqs[r] EXCEPT !.pc = "insert"] \in ReqType
        BY <1>3 DEF ReqType
      <4>2. [reqs[r] EXCEPT !.todo = @ \ {t},
                            !.pc   = IF t = "H" THEN "set" ELSE "find",
                            !.sets = IF t = "H" THEN Fields ELSE {}] \in ReqType
        BY <1>3 DEF ReqType
      <4>3. QED
        BY <2>4, <4>1, <4>2 DEF FindRow, RowDone
    <3>2. QED
      BY <2>4, <3>1 DEF FindRow, GoOn, TablesOK
  <2>5. ASSUME NEW t \in Types, InsertRow(r, t) PROVE TablesOK'
    <3>1. reqs' \in [Requests -> ReqType]
      BY <1>3, <2>5 DEF InsertRow, RowDone, GoOn, TablesOK, ReqType
    <3>2. PICK p \in Periods : rows' = [rows EXCEPT ![t][p] = Append(@, NoCount)]
      <4>1. Hours \subseteq Periods
        BY StatsAssumption DEF Hours, Periods
      <4>2. reqs[r].at["D"] \in Hours /\ hour \in Hours
        BY <1>3 DEF ReqType, Types, TablesOK
      <4>3. QED
        BY <2>5, <4>1, <4>2 DEF InsertRow
    <3>3. NoCount \in [Kinds -> Nat]
      BY DEF NoCount
    <3>4. rows' \in [Types -> [Periods -> Seq([Kinds -> Nat])]]
      BY <3>2, <3>3, AppendProperties DEF TablesOK
    <3>5. QED
      BY <2>5, <3>1, <3>4 DEF InsertRow, TablesOK
  <2>6. ASSUME NEW f \in Fields, SetField(r, f) PROVE TablesOK'
    BY <1>2, <1>3, <2>6 DEF SetField, GoOn, TablesOK, ReqType
  <2>7. QED
    BY <2>1, <2>2, <2>3, <2>4, <2>5, <2>6 DEF Request
<1>7. QED
  BY <1>5, <1>6

(* What a run has by the place it is at.                                   *)
LEMMA RunFacts ==
  ASSUME TypeInv, NEW j \in Jobs
  PROVE  /\ jobs[j].pc = "idle" => jobs[j] = NoRun
         /\ jobs[j].pc = "read" => jobs[j] = Started(j)
         /\ jobs[j].pc \notin {"idle", "read"} =>
              /\ jobs[j].pc \in Later(j) /\ jobs[j].ts = PeriodsOf(j)
              /\ jobs[j].read \in Reads(j)
              /\ jobs[j] = [pc |-> jobs[j].pc, ts |-> jobs[j].ts,
                            read |-> jobs[j].read]
<1>1. RunOK(j, jobs[j])
  BY DEF TypeInv, JobsOK
<1>2. CASE jobs[j] = NoRun
  BY <1>2 DEF NoRun
<1>3. CASE jobs[j] = Started(j)
  <2>1. Started(j).pc = "read"
    BY DEF Started, NoRun
  <2>2. QED
    BY <1>3, <2>1
<1>4. ASSUME NEW pc \in Later(j), NEW read \in Reads(j),
             jobs[j] = [pc |-> pc, ts |-> PeriodsOf(j), read |-> read]
      PROVE  /\ jobs[j].pc = pc /\ pc \notin {"idle", "read"}
             /\ jobs[j].ts = PeriodsOf(j) /\ jobs[j].read = read
  BY <1>4 DEF Later, Jobs
<1>5. QED
  BY <1>1, <1>2, <1>3, <1>4 DEF RunOK

(* A step of one job that leaves its run in good order leaves all the      *)
(* types in good order: the periods do not change while the clock stands.  *)
LEMMA RunTypes ==
  ASSUME TypeInv, NEW j \in Jobs, NEW run, RunOK(j, run), RunOn(j, run),
         run.pc # "idle" => Busy(j) \/ (j = "minute" /\ phase = "half"),
         due' \subseteq due, UNCHANGED <<hour, phase, reqs, events>>,
         hash' \in [Fields -> Nat \cup {Missing}],
         rows' \in [Types -> [Periods -> Seq([Kinds -> Nat])]]
  PROVE  TypeInv'
<1>1. TablesOK'
  BY DEF TypeInv, TablesOK
<1>2. jobs' = [i \in Jobs |-> IF i = j THEN run ELSE jobs[i]]
  BY DEF RunOn, TypeInv, JobsOK
<1>3. \A i \in Jobs : PeriodsOf(i)' = PeriodsOf(i)
  BY DEF PeriodsOf, PeriodOf, Now, today
<1>4. JobsOK'
  <2>1. \A i \in Jobs : RunOK(i, jobs'[i])
    BY <1>2 DEF TypeInv, JobsOK
  <2>2. \A i \in Jobs : RunOK(i, jobs[i])'
    BY <1>3, <2>1 DEF RunOK, Started
  <2>3. QED
    BY <1>2, <2>2 DEF JobsOK
<1>5. PhaseOK'
  <2>1. \A i \in Jobs : Busy(i)' => Busy(i) \/ (i = "minute" /\ phase = "half")
    BY <1>2 DEF Busy
  <2>2. QED
    BY <2>1 DEF TypeInv, PhaseOK, Jobs, Midnight
<1>6. QED
  BY <1>1, <1>4, <1>5 DEF TypeInv

LEMMA JobTypes ==
  ASSUME TypeInv, NEW j \in Jobs, JobStep(j)
  PROVE  TypeInv'
<1>1. /\ hash \in [Fields -> Nat \cup {Missing}]
      /\ rows \in [Types -> [Periods -> Seq([Kinds -> Nat])]]
  BY DEF TypeInv, TablesOK
<1>2. NoRun.pc = "idle" /\ RunOK(j, NoRun)
  BY DEF NoRun, RunOK
<1>3. CASE ListKeys(j)
  <2>1. Started(j).pc = "read" /\ RunOK(j, Started(j))
    BY DEF NoRun, Started, RunOK
  <2>2. PICK run \in {Started(j), NoRun} : RunOn(j, run)
    BY <1>3 DEF ListKeys, Started, PeriodsOf
  <2>3. Busy(j) \/ (j = "minute" /\ phase = "half")
    BY <1>3 DEF ListKeys, Busy
  <2>4. QED
    BY <1>1, <1>2, <1>3, <2>1, <2>2, <2>3, RunTypes DEF ListKeys
<1>4. CASE ReadHash(j)
  <2> DEFINE pc == CASE j = "hour" -> "resetClick" [] j = "day" -> "delete"
                                                   [] j = "minute" -> "update"
             read == [f \in Moves(j) \X Kinds |-> ReadField(f)]
             run == [pc |-> pc, ts |-> PeriodsOf(j), read |-> read]
  <2>1. jobs[j] = Started(j) /\ Busy(j)
    BY <1>4, RunFacts DEF ReadHash, Busy
  <2>2. RunOn(j, run)
    <3>1. jobs[j].ts = PeriodsOf(j)
      BY <2>1 DEF Started, NoRun
    <3>2. QED
      BY <1>4, <3>1 DEF ReadHash
  <2>3. read \in Reads(j) /\ pc \in Later(j)
    <3>1. Moves(j) \subseteq Types
      BY DEF Moves, Types, Jobs
    <3>2. \A f \in Moves(j) \X Kinds : ReadField(f) \in Nat
      BY <3>1, FieldIsNat DEF Fields
    <3>3. pc \in Later(j)
      BY DEF Later, Jobs
    <3>4. QED
      BY <3>2, <3>3 DEF Reads
  <2>4. RunOK(j, run)
    BY <2>3 DEF RunOK
  <2> HIDE DEF run
  <2>5. QED
    BY <1>1, <1>4, <2>1, <2>2, <2>4, RunTypes DEF ReadHash
<1>5. CASE UpdateRows(j)
  <2>1. /\ Busy(j) /\ jobs[j].read \in Reads(j)
        /\ jobs[j] = [pc |-> "update", ts |-> PeriodsOf(j), read |-> jobs[j].read]
    BY <1>5, RunFacts DEF UpdateRows, Busy
  <2>2. PICK run \in {[jobs[j] EXCEPT !.pc = "insert"], NoRun} :
          /\ RunOn(j, run)
          /\ j # "hour" => run = NoRun
    BY <1>5 DEF UpdateRows
  <2>3. RunOK(j, run)
    <3>1. [jobs[j] EXCEPT !.pc = "insert"] =
            [pc |-> "insert", ts |-> PeriodsOf(j), read |-> jobs[j].read]
      BY <2>1
    <3>2. j = "hour" => RunOK(j, [jobs[j] EXCEPT !.pc = "insert"])
      BY <2>1, <3>1 DEF RunOK, Later
    <3>3. QED
      BY <1>2, <2>2, <3>2
  <2>4. rows' \in [Types -> [Periods -> Seq([Kinds -> Nat])]]
    <3>1. ASSUME NEW t \in Types, NEW p \in Periods
          PROVE  [i \in DOMAIN rows[t][p] |->
                    IF t \in Moves(j) /\ p = jobs[j].ts[t]
                    THEN [k \in Kinds |-> jobs[j].read[<<t, k>>]]
                    ELSE rows[t][p][i]] \in Seq([Kinds -> Nat])
      <4>1. rows[t][p] \in Seq([Kinds -> Nat])
        BY <1>1
      <4>2. t \in Moves(j) => [k \in Kinds |-> jobs[j].read[<<t, k>>]]
                                \in [Kinds -> Nat]
        BY <2>1 DEF Reads
      <4>3. DOMAIN rows[t][p] = 1..Len(rows[t][p]) /\ Len(rows[t][p]) \in Nat
        BY <4>1
      <4>4. \A i \in DOMAIN rows[t][p] : rows[t][p][i] \in [Kinds -> Nat]
        BY <4>1
      <4>5. QED
        BY <4>2, <4>3, <4>4
    <3>2. QED
      BY <1>5, <3>1 DEF UpdateRows
  <2>5. QED
    <3>1. UNCHANGED <<hour, phase, due, hash, reqs, events>>
      BY <1>5 DEF UpdateRows
    <3>2. QED
      BY <1>1, <2>1, <2>2, <2>3, <2>4, <3>1, RunTypes
<1>6. CASE Fail(j)
  BY <1>1, <1>2, <1>6, RunTypes DEF Fail
<1>7. QED
  BY <1>3, <1>4, <1>5, <1>6 DEF JobStep

(* The steps only one job takes.                                           *)
LEMMA OwnStepTypes ==
  ASSUME TypeInv, ResetHour \/ DeleteHash \/ InsertHour
  PROVE  TypeInv'
<1>1. /\ hash \in [Fields -> Nat \cup {Missing}] /\ hour \in Hours
      /\ rows \in [Types -> [Periods -> Seq([Kinds -> Nat])]]
  BY DEF TypeInv, TablesOK
<1>2. ASSUME NEW j \in Jobs, NEW pc \in Later(j), jobs[j].pc \notin {"idle", "read"}
      PROVE  Busy(j) /\ RunOK(j, [jobs[j] EXCEPT !.pc = pc])
  <2>1. /\ jobs[j].ts = PeriodsOf(j) /\ jobs[j].read \in Reads(j)
        /\ jobs[j] = [pc |-> jobs[j].pc, ts |-> jobs[j].ts, read |-> jobs[j].read]
    BY <1>2, RunFacts
  <2>2. [jobs[j] EXCEPT !.pc = pc] =
          [pc |-> pc, ts |-> jobs[j].ts, read |-> jobs[j].read]
    BY <2>1
  <2>3. QED
    BY <1>2, <2>1, <2>2 DEF RunOK, Busy
<1>3. ASSUME NEW kind \in Kinds, NEW pc \in {"resetClick", "resetPv"},
             NEW next \in {"resetPv", "update"}, ResetField(kind, pc, next)
      PROVE  TypeInv'
  <2>1. "hour" \in Jobs /\ next \in Later("hour") /\ jobs["hour"].pc = pc
    BY <1>3 DEF Jobs, Later, ResetField
  <2>2. Busy("hour") /\ RunOK("hour", [jobs["hour"] EXCEPT !.pc = next])
    BY <1>2, <2>1
  <2>3. hash' \in [Fields -> Nat \cup {Missing}]
    BY <1>1, <1>3 DEF ResetField
  <2>4. RunOn("hour", [jobs["hour"] EXCEPT !.pc = next])
    BY <1>3 DEF ResetField
  <2>5. UNCHANGED <<hour, phase, due, rows, reqs, events>>
    BY <1>3 DEF ResetField
  <2>6. QED
    BY <1>1, <2>1, <2>2, <2>3, <2>4, <2>5, RunTypes
<1>4. ASSUME DeleteHash PROVE TypeInv'
  <2>1. "day" \in Jobs /\ "update" \in Later("day") /\ jobs["day"].pc = "delete"
    BY <1>4 DEF Jobs, Later, DeleteHash
  <2>2. Busy("day") /\ RunOK("day", [jobs["day"] EXCEPT !.pc = "update"])
    BY <1>2, <2>1
  <2>3. hash' \in [Fields -> Nat \cup {Missing}]
    BY <1>4 DEF DeleteHash
  <2>4. RunOn("day", [jobs["day"] EXCEPT !.pc = "update"])
    BY <1>4 DEF DeleteHash
  <2>5. UNCHANGED <<hour, phase, due, rows, reqs, events>>
    BY <1>4 DEF DeleteHash
  <2>6. QED
    BY <1>1, <2>1, <2>2, <2>3, <2>4, <2>5, RunTypes
<1>5. ASSUME InsertHour PROVE TypeInv'
  <2>1. "hour" \in Jobs /\ RunOK("hour", NoRun) /\ NoRun.pc = "idle"
    BY DEF Jobs, RunOK, NoRun
  <2>2. NoCount \in [Kinds -> Nat]
    BY DEF NoCount
  <2>3. hour \in Periods
    BY <1>1, StatsAssumption DEF Hours, Periods
  <2>4. rows' \in [Types -> [Periods -> Seq([Kinds -> Nat])]]
    BY <1>1, <1>5, <2>2, <2>3, AppendProperties DEF InsertHour, Types
  <2>5. UNCHANGED <<hour, phase, due, hash, reqs, events>> /\ RunOn("hour", NoRun)
    BY <1>5 DEF InsertHour
  <2>6. QED
    BY <1>1, <2>1, <2>4, <2>5, RunTypes
<1>6. QED
  BY <1>3, <1>4, <1>5 DEF ResetHour, Kinds

LEMMA WaitTypes ==
  ASSUME TypeInv, Wait
  PROVE  TypeInv'
<1>1. hour \in Nat /\ LastHour \in Nat /\ hour <= LastHour
  BY StatsAssumption DEF TypeInv, TablesOK, Hours
<1>2. \A j \in Jobs : jobs[j].pc = "idle"
  BY DEF Wait, Punctual, JobsIdle
<1>3. UNCHANGED <<hash, rows, reqs, jobs, events>>
  BY DEF Wait
<1>4. TablesOK'
  BY <1>1, <1>3 DEF Wait, TypeInv, TablesOK, Jobs, Hours
<1>5. JobsOK'
  <2>1. \A j \in Jobs : jobs[j] = NoRun
    BY <1>2, RunFacts
  <2>2. \A j \in Jobs : RunOK(j, jobs[j])'
    BY <1>3, <2>1 DEF RunOK
  <2>3. QED
    BY <1>3, <2>2 DEF TypeInv, JobsOK
<1>6. PhaseOK'
  <2>1. \A j \in Jobs : Busy(j)' <=> j \in due'
    BY <1>2, <1>3 DEF Busy
  <2>2. QED
    BY <1>1, <2>1 DEF Wait, TypeInv, PhaseOK, Jobs, Midnight
<1>7. QED
  BY <1>4, <1>5, <1>6 DEF TypeInv

LEMMA TypeInvStep == TypeInv /\ [Next]_vars => TypeInv'
<1> SUFFICES ASSUME TypeInv, [Next]_vars PROVE TypeInv'
  OBVIOUS
<1>1. CASE UNCHANGED vars
  <2>1. UNCHANGED <<hour, phase, due, hash, rows, reqs, jobs, events>>
    BY <1>1 DEF vars
  <2>2. \A j \in Jobs : PeriodsOf(j)' = PeriodsOf(j)
    BY <2>1 DEF PeriodsOf, PeriodOf, Now, today
  <2>3. \A j \in Jobs : RunOK(j, jobs[j])'
    BY <2>1, <2>2 DEF TypeInv, JobsOK, RunOK, Started
  <2>4. JobsOK'
    BY <2>1, <2>3 DEF TypeInv, JobsOK
  <2>5. TablesOK' /\ PhaseOK'
    BY <2>1 DEF TypeInv, TablesOK, PhaseOK, Busy, Midnight
  <2>6. QED
    BY <2>4, <2>5 DEF TypeInv
<1>2. QED
  BY <1>1, RequestTypes, JobTypes, OwnStepTypes, WaitTypes DEF Next

LEMMA TypeInvGivesTypeOK == TypeInv => TypeOK
<1> SUFFICES ASSUME TypeInv PROVE TypeOK
  OBVIOUS
<1>1. ASSUME NEW j \in Jobs
      PROVE  \E T \in {{}, Moves(j)}, R \in {{}, Moves(j) \X Kinds} :
               jobs[j] \in [pc: {"idle", "read", "resetClick", "resetPv",
                                "delete", "update", "insert"},
                            ts: [T -> Periods], read: [R -> Nat]]
  <2>1. PeriodsOf(j) \in [Moves(j) -> Periods]
    <3>1. Moves(j) \subseteq Types
      BY DEF Moves, Types, Jobs
    <3>2. \A t \in Moves(j) : PeriodOf(j, t) \in Periods
      BY <3>1, NowIsPeriod DEF PeriodOf, TypeInv, TablesOK
    <3>3. QED
      BY <3>2 DEF PeriodsOf
  <2>2. CASE jobs[j] = NoRun
    BY <2>2 DEF NoRun
  <2>3. CASE jobs[j] = Started(j)
    BY <2>1, <2>3 DEF Started, NoRun
  <2>4. ASSUME NEW pc \in Later(j), NEW read \in Reads(j),
               jobs[j] = [pc |-> pc, ts |-> PeriodsOf(j), read |-> read]
        PROVE  jobs[j] \in [pc: {"idle", "read", "resetClick", "resetPv",
                                "delete", "update", "insert"},
                            ts: [Moves(j) -> Periods],
                            read: [Moves(j) \X Kinds -> Nat]]
    <3>1. pc \in {"resetClick", "resetPv", "delete", "update", "insert"}
      BY DEF Later, Jobs
    <3>2. QED
      BY <2>1, <2>4, <3>1 DEF Reads
  <2>5. QED
    BY <2>2, <2>3, <2>4 DEF TypeInv, JobsOK, RunOK
<1>2. DOMAIN jobs = Jobs
  BY DEF TypeInv, JobsOK
<1>3. QED
  BY <1>1, <1>2 DEF TypeOK, TypeInv, TablesOK, ReqType

(* Whatever overlaps or fails, the fields of the hash are counts or        *)
(* missing, the rows hold counts, requests and jobs are at a place of      *)
(* AdLogServiceImpl and of the three timer tasks, and no job writes to a   *)
(* period that is not one.                                                 *)
THEOREM StatsTypeCorrect == Spec => []TypeOK
<1>1. Spec => []TypeInv
  BY TypeInvInit, TypeInvStep, PTL DEF Spec
<1>2. QED
  BY <1>1, TypeInvGivesTypeOK, PTL

(***************************************************************************)
(* No view and no click is stored twice.                                   *)
(*                                                                         *)
(* The hash, the reads of the jobs and the rows are copies of counts: a    *)
(* job's read is stored in the period it belongs to even if the hash has   *)
(* been increased since.  So the invariant gives each period a weight,     *)
(* which bounds every copy of that period's count, wherever it is, and     *)
(* says that the weights and the requests that have yet to count add up to *)
(* no more than there were events.  Only Count and SetField, which end     *)
(* such a wait, make a weight grow.                                        *)
(***************************************************************************)

(* The job that moves the counts of t has taken the count out of the hash. *)
Passed(t, k) ==
  LET pc == jobs[Mover(t)].pc
  IN  pc = "update" \/ (pc = "resetPv" /\ k = "click")

(* The period the count in the hash belongs to.                            *)
HashPeriod(t, k) == IF Passed(t, k) THEN Now(t) ELSE Counting(t)

Holding == {"resetClick", "resetPv", "delete", "update"}

RowsBound(t, k, w) ==
  \A p \in Periods : \A i \in DOMAIN rows[t][p] : rows[t][p][i][k] <= w[p]

ReadsBound(t, k, w) ==
  \A j \in Jobs : t \in Moves(j) /\ jobs[j].pc \in Holding
                    => jobs[j].read[<<t, k>>] <= w[jobs[j].ts[t]]

Bounds(t, k, w) ==
  /\ RowsBound(t, k, w)
  /\ ReadField(<<t, k>>) <= w[HashPeriod(t, k)]
  /\ ReadsBound(t, k, w)

(* A request that has yet to count its view or click under t.              *)
Waits(req, t, k) ==
  /\ req.kind = k
  /\ \/ req.pc = "count" /\ t \in req.todo
     \/ req.pc \in {"find", "insert"}
     \/ req.pc = "set" /\ <<t, k>> \in req.sets

Pending(t, k) == {r \in Requests : Waits(reqs[r], t, k)}

Counted(t, k) ==
  \E w \in [Periods -> Nat] :
    /\ Bounds(t, k, w) /\ IsFiniteSet(Pending(t, k))
    /\ Sum(w, Periods) + Cardinality(Pending(t, k)) <= events[k]

AllCounted == \A t \in Types, k \in Kinds : Counted(t, k)

(* A job whose timer has fired is not running yet, and only page views     *)
(* insert rows.                                                            *)
Orderly ==
  /\ \A j \in due : jobs[j].pc = "idle"
  /\ \A r \in Requests : reqs[r].pc \in {"find", "insert", "set"} => reqs[r].kind = "pv"

CountInv == TypeInv /\ Orderly /\ AllCounted

LEMMA PeriodsFinite == IsFiniteSet(Periods)
<1>1. -1 \in Int /\ LastHour \in Int
  BY StatsAssumption
<1>2. QED
  BY <1>1, FS_Interval DEF Periods

LEMMA HashPeriodIsPeriod ==
  ASSUME TypeInv, NEW t \in Types, NEW k \in Kinds
  PROVE  HashPeriod(t, k) \in Periods
BY NowIsPeriod DEF HashPeriod, Counting, TypeInv, TablesOK

(* A step after which no copy is greater than before.                      *)
LEMMA NothingCounted ==
  ASSUME NEW t \in Types, NEW k \in Kinds, Counted(t, k),
         Pending(t, k)' = Pending(t, k), events'[k] = events[k],
         \A w \in [Periods -> Nat] : Bounds(t, k, w) => Bounds(t, k, w)'
  PROVE  Counted(t, k)'
<1>1. PICK w \in [Periods -> Nat] :
        /\ Bounds(t, k, w) /\ IsFiniteSet(Pending(t, k))
        /\ Sum(w, Periods) + Cardinality(Pending(t, k)) <= events[k]
  BY DEF Counted
<1>2. Bounds(t, k, w)'
  BY <1>1
<1>3. QED
  BY <1>1, <1>2 DEF Counted

(* A step with which a view or click starts to wait.                       *)
LEMMA OneMoreWaits ==
  ASSUME NEW t \in Types, NEW k \in Kinds, Counted(t, k), NEW r,
         r \notin Pending(t, k), Pending(t, k)' = Pending(t, k) \cup {r},
         events'[k] = events[k] + 1, events[k] \in Nat,
         \A w \in [Periods -> Nat] : Bounds(t, k, w) => Bounds(t, k, w)'
  PROVE  Counted(t, k)'
<1>1. PICK w \in [Periods -> Nat] :
        /\ Bounds(t, k, w) /\ IsFiniteSet(Pending(t, k))
        /\ Sum(w, Periods) + Cardinality(Pending(t, k)) <= events[k]
  BY DEF Counted
<1>2. Bounds(t, k, w)'
  BY <1>1
<1>3. /\ IsFiniteSet(Pending(t, k)')
      /\ Cardinality(Pending(t, k)') = Cardinality(Pending(t, k)) + 1
  BY <1>1, FS_AddElement
<1>4. Cardinality(Pending(t, k)) \in Nat /\ Sum(w, Periods) \in Int
  BY <1>1, FS_CardinalityType, PeriodsFinite, SumType
<1>5. QED
  BY <1>1, <1>2, <1>3, <1>4 DEF Counted

Raised(w, p) == [w EXCEPT ![p] = w[p] + 1]

(* A step with which one that waited is counted in the hash.               *)
LEMMA OneIsCounted ==
  ASSUME NEW t \in Types, NEW k \in Kinds, Counted(t, k), NEW r \in Pending(t, k),
         Pending(t, k)' = Pending(t, k) \ {r}, events'[k] = events[k],
         NEW p \in Periods, events[k] \in Nat,
         \A w \in [Periods -> Nat] :
           Bounds(t, k, w) => Bounds(t, k, Raised(w, p))'
  PROVE  Counted(t, k)'
<1>1. PICK w \in [Periods -> Nat] :
        /\ Bounds(t, k, w) /\ IsFiniteSet(Pending(t, k))
        /\ Sum(w, Periods) + Cardinality(Pending(t, k)) <= events[k]
  BY DEF Counted
<1> DEFINE v == Raised(w, p)
<1>2. v \in [Periods -> Nat] /\ Bounds(t, k, v)'
  <2>1. v \in [Periods -> Nat]
    BY DEF Raised
  <2>2. Bounds(t, k, v)'
    BY <1>1
  <2>3. QED
    BY <2>1, <2>2
<1>3. /\ IsFiniteSet(Pending(t, k)')
      /\ Cardinality(Pending(t, k)') = Cardinality(Pending(t, k)) - 1
  BY <1>1, FS_RemoveElement
<1>4. Sum(v, Periods) = Sum(w, Periods) + 1
  <2>1. w \in [Periods -> Int] /\ v \in [Periods -> Int]
    BY <1>2
  <2>2. v[p] = w[p] + 1 /\ \A q \in Periods \ {p} : v[q] = w[q]
    BY DEF Raised
  <2> HIDE DEF v
  <2>3. Sum(v, Periods) = Sum(w, Periods) - w[p] + v[p]
    BY <2>1, <2>2, PeriodsFinite, SumChange
  <2>4. w[p] \in Int /\ Sum(w, Periods) \in Int
    BY <2>1, PeriodsFinite, SumType
  <2>5. QED
    BY <2>2, <2>3, <2>4
<1>5. Cardinality(Pending(t, k)) \in Nat /\ Sum(w, Periods) \in Int
  BY <1>1, FS_CardinalityType, PeriodsFinite, SumType
<1> HIDE DEF v
<1>6. QED
  BY <1>1, <1>2, <1>3, <1>4, <1>5 DEF Counted

LEMMA PendingAfter ==
  ASSUME TypeInv, NEW r \in Requests, NEW req, GoOn(r, req),
         NEW t \in Types, NEW k \in Kinds
  PROVE  Pending(t, k)' = IF Waits(req, t, k) THEN Pending(t, k) \cup {r}
                                              ELSE Pending(t, k) \ {r}
<1>1. /\ reqs'[r] = req
      /\ \A q \in Requests \ {r} : reqs'[q] = reqs[q]
  BY DEF GoOn, TypeInv, TablesOK
<1>2. \A q \in Requests : Waits(reqs[q], t, k)' <=> IF q = r THEN Waits(req, t, k)
                                                   ELSE Waits(reqs[q], t, k)
  BY <1>1 DEF Waits
<1>3. QED
  BY <1>2 DEF Pending

(* An inserted row counts nothing.                                         *)
LEMMA NewRowKeepsBound ==
  ASSUME TypeInv, NEW u \in Types, NEW q \in Periods,
         rows' = [rows EXCEPT ![u][q] = Append(@, NoCount)],
         NEW t \in Types, NEW k \in Kinds, NEW w \in [Periods -> Nat],
         RowsBound(t, k, w)
  PROVE  RowsBound(t, k, w)'
<1>1. rows \in [Types -> [Periods -> Seq([Kinds -> Nat])]]
  BY DEF TypeInv, TablesOK
<1>2. SUFFICES ASSUME NEW p \in Periods, NEW i \in DOMAIN rows'[t][p]
               PROVE  rows'[t][p][i][k] <= w[p]
  BY DEF RowsBound
<1>3. CASE t = u /\ p = q
  <2>1. rows'[t][p] = Append(rows[t][p], NoCount) /\ rows[t][p] \in Seq([Kinds -> Nat])
    BY <1>1, <1>3
  <2>2. CASE i \in DOMAIN rows[t][p]
    <3>1. rows'[t][p][i] = rows[t][p][i]
      BY <2>1, <2>2, AppendProperties DEF NoCount
    <3>2. QED
      BY <2>2, <3>1 DEF RowsBound
  <2>3. CASE i \notin DOMAIN rows[t][p]
    <3>1. i = Len(rows[t][p]) + 1
      BY <2>1, <2>3
    <3>2. rows'[t][p][i] = NoCount
      BY <2>1, <3>1
    <3>3. QED
      BY <3>2 DEF NoCount
  <2>4. QED
    BY <2>2, <2>3
<1>4. CASE ~ (t = u /\ p = q)
  <2>1. rows'[t][p] = rows[t][p]
    BY <1>1, <1>4
  <2>2. QED
    BY <2>1 DEF RowsBound
<1>5. QED
  BY <1>3, <1>4

(* While the clock stands and the jobs rest, the copies the jobs have and  *)
(* the period of the hash stay what they are.                              *)
LEMMA PeriodsStay ==
  ASSUME UNCHANGED <<hour, phase, due, jobs>>,
         NEW t, NEW k, NEW w
  PROVE  /\ HashPeriod(t, k)' = HashPeriod(t, k)
         /\ ReadsBound(t, k, w)' <=> ReadsBound(t, k, w)
BY DEF HashPeriod, Counting, Moving, Mover, Midnight, Passed, Now, today, ReadsBound

LEMMA ArriveCounted ==
  ASSUME CountInv, NEW r \in Requests, NEW pc \in {"count", "find"},
         NEW kind \in Kinds, Arrive(r, pc, kind), pc = "find" => kind = "pv"
  PROVE  Orderly' /\ AllCounted'
<1> DEFINE req == [pc |-> pc, kind |-> kind, todo |-> Types, sets |-> {},
                   at |-> [t \in Types |-> Now(t)]]
<1>1. GoOn(r, req) /\ UNCHANGED <<hour, phase, due, hash, rows, jobs>>
  BY DEF Arrive, GoOn
<1>2. Orderly'
  BY <1>1 DEF CountInv, Orderly, GoOn, TypeInv, TablesOK
<1>3. ASSUME NEW t \in Types, NEW k \in Kinds
      PROVE  Counted(t, k)'
  <2>1. \A w \in [Periods -> Nat] : Bounds(t, k, w) => Bounds(t, k, w)'
    BY <1>1, PeriodsStay DEF Bounds, RowsBound, ReadField
  <2>2. Counted(t, k) /\ events[k] \in Nat /\ TypeInv
    BY DEF CountInv, AllCounted, TypeInv, TablesOK
  <2>3. r \notin Pending(t, k)
    BY DEF Pending, Waits, Arrive
  <2>4. Waits(req, t, k) <=> k = kind
    BY DEF Waits
  <2>5. Pending(t, k)' = IF k = kind THEN Pending(t, k) \cup {r} ELSE Pending(t, k) \ {r}
    BY <1>1, <2>2, <2>4, PendingAfter
  <2>6. events'[k] = IF k = kind THEN events[k] + 1 ELSE events[k]
    BY DEF Arrive, CountInv, TypeInv, TablesOK
  <2>7. CASE k = kind
    BY <2>1, <2>2, <2>3, <2>5, <2>6, <2>7, OneMoreWaits
  <2>8. CASE k # kind
    <3>1. Pending(t, k)' = Pending(t, k)
      BY <2>3, <2>5, <2>8
    <3>2. QED
      BY <2>1, <2>2, <2>6, <2>8, <3>1, NothingCounted
  <2>9. QED
    BY <2>7, <2>8
<1>4. QED
  BY <1>2, <1>3 DEF AllCounted

(* What a run holds it holds of periods, and it holds counts.              *)
LEMMA HeldTypes ==
  ASSUME TypeInv, NEW j \in Jobs, jobs[j].pc \in Holding, NEW t \in Moves(j),
         NEW k \in Kinds
  PROVE  /\ jobs[j].ts[t] = PeriodOf(j, t) /\ jobs[j].ts[t] \in Periods
         /\ jobs[j].read[<<t, k>>] \in Nat
<1>1. jobs[j].ts = PeriodsOf(j) /\ jobs[j].read \in Reads(j)
  BY RunFacts DEF Holding
<1>2. t \in Types
  BY DEF Moves, Types, Jobs
<1>3. PeriodOf(j, t) \in Periods
  BY <1>2, NowIsPeriod DEF PeriodOf, TypeInv, TablesOK
<1>4. QED
  BY <1>1, <1>3 DEF PeriodsOf, Reads

LEMMA RaisedBounds ==
  ASSUME TypeInv, NEW t \in Types, NEW k \in Kinds, NEW w \in [Periods -> Nat],
         NEW p \in Periods
  PROVE  /\ \A q \in Periods : w[q] \in Nat /\ Raised(w, p)[q] \in Nat
                               /\ w[q] <= Raised(w, p)[q]
         /\ Raised(w, p)[p] = w[p] + 1
         /\ RowsBound(t, k, w) => RowsBound(t, k, Raised(w, p))
         /\ ReadsBound(t, k, w) => ReadsBound(t, k, Raised(w, p))
<1>1. \A q \in Periods : w[q] \in Nat /\ Raised(w, p)[q] \in Nat
                         /\ w[q] <= Raised(w, p)[q]
  BY DEF Raised
<1>2. Raised(w, p)[p] = w[p] + 1
  BY DEF Raised
<1>3. ASSUME RowsBound(t, k, w) PROVE RowsBound(t, k, Raised(w, p))
  <2>1. SUFFICES ASSUME NEW q \in Periods, NEW i \in DOMAIN rows[t][q]
                 PROVE  rows[t][q][i][k] <= Raised(w, p)[q]
    BY DEF RowsBound
  <2>2. rows[t][q][i][k] \in Nat
    BY DEF TypeInv, TablesOK
  <2>3. QED
    BY <1>1, <1>3, <2>2 DEF RowsBound
<1>4. ASSUME ReadsBound(t, k, w) PROVE ReadsBound(t, k, Raised(w, p))
  <2>1. SUFFICES ASSUME NEW j \in Jobs, t \in Moves(j), jobs[j].pc \in Holding
                 PROVE  jobs[j].read[<<t, k>>] <= Raised(w, p)[jobs[j].ts[t]]
    BY DEF ReadsBound
  <2>2. jobs[j].ts[t] \in Periods /\ jobs[j].read[<<t, k>>] \in Nat
    BY <2>1, HeldTypes
  <2>3. QED
    BY <1>1, <1>4, <2>1, <2>2 DEF ReadsBound
<1>5. QED
  BY <1>1, <1>2, <1>3, <1>4

(* A step of a request that takes it on without counting anything: what it *)
(* waited for it still waits for.                                          *)
LEMMA StillWaits ==
  ASSUME CountInv, NEW r \in Requests, NEW req, GoOn(r, req),
         UNCHANGED <<hour, phase, due, hash, jobs, events>>,
         \A t \in Types, k \in Kinds : Waits(req, t, k) <=> Waits(reqs[r], t, k),
         req.pc \in {"find", "insert", "set"} => req.kind = "pv",
         \A t \in Types, k \in Kinds, w \in [Periods -> Nat] :
           RowsBound(t, k, w) => RowsBound(t, k, w)'
  PROVE  Orderly' /\ AllCounted'
<1>1. Orderly'
  BY DEF CountInv, Orderly, GoOn, TypeInv, TablesOK
<1>2. ASSUME NEW t \in Types, NEW k \in Kinds
      PROVE  Counted(t, k)'
  <2>1. TypeInv /\ Counted(t, k)
    BY DEF CountInv, AllCounted
  <2>2. Pending(t, k)' = Pending(t, k)
    BY <2>1, PendingAfter DEF Pending
  <2>3. \A w \in [Periods -> Nat] : Bounds(t, k, w) => Bounds(t, k, w)'
    BY PeriodsStay DEF Bounds, ReadField
  <2>4. QED
    BY <2>1, <2>2, <2>3, NothingCounted
<1>3. QED
  BY <1>1, <1>2 DEF AllCounted

(* What a request has after it is done with a row.                         *)
LEMMA RowDoneFacts ==
  ASSUME TypeInv, Orderly, NEW r \in Requests, NEW t \in Types, NextOf(r, t),
         reqs[r].pc \in {"find", "insert"}, RowDone(r, t)
  PROVE  \E req : /\ GoOn(r, req)
                  /\ req.pc \in {"find", "set"} /\ req.kind = "pv"
                  /\ \A u \in Types, k \in Kinds :
                       Waits(req, u, k) <=> Waits(reqs[r], u, k)
<1>1. reqs[r] \in ReqType /\ reqs[r].kind = "pv"
  BY DEF TypeInv, TablesOK, Orderly
<1>2. PICK req : /\ req = [reqs[r] EXCEPT !.todo = @ \ {t},
                                          !.pc   = IF t = "H" THEN "set" ELSE "find",
                                          !.sets = IF t = "H" THEN Fields ELSE {}]
                 /\ GoOn(r, req)
  BY DEF RowDone
<1>3. /\ req.kind = "pv" /\ req.pc = IF t = "H" THEN "set" ELSE "find"
      /\ req.sets = IF t = "H" THEN Fields ELSE {}
  BY <1>1, <1>2 DEF ReqType
<1>4. ASSUME NEW u \in Types, NEW k \in Kinds
      PROVE  Waits(req, u, k) <=> Waits(reqs[r], u, k)
  BY <1>1, <1>3 DEF Waits, Fields
<1>5. QED
  BY <1>2, <1>3, <1>4

LEMMA FindRowCounted ==
  ASSUME CountInv, NEW r \in Requests, NEW t \in Types, FindRow(r, t)
  PROVE  Orderly' /\ AllCounted'
<1>1. reqs[r] \in ReqType /\ reqs[r].kind = "pv" /\ TypeInv /\ Orderly
  BY DEF CountInv, FindRow, TypeInv, TablesOK, Orderly
<1>2. UNCHANGED <<hour, phase, due, hash, rows, jobs, events>>
  BY DEF FindRow
<1>3. PICK req : /\ GoOn(r, req)
                 /\ req.kind = "pv"
                 /\ \A u \in Types, k \in Kinds :
                      Waits(req, u, k) <=> Waits(reqs[r], u, k)
  <2>1. CASE RowDone(r, t)
    BY <1>1, <2>1, RowDoneFacts DEF FindRow
  <2>2. CASE GoOn(r, [reqs[r] EXCEPT !.pc = "insert"])
    <3>1. PICK req : req = [reqs[r] EXCEPT !.pc = "insert"] /\ GoOn(r, req)
      BY <2>2
    <3>2. req.pc = "insert" /\ req.kind = "pv"
      BY <1>1, <3>1 DEF ReqType
    <3>3. reqs[r].pc = "find"
      BY DEF FindRow
    <3>4. \A u, k : /\ Waits(req, u, k) <=> k = "pv"
                    /\ Waits(reqs[r], u, k) <=> k = "pv"
      BY <1>1, <3>2, <3>3 DEF Waits
    <3>5. QED
      BY <3>1, <3>2, <3>4
  <2>3. QED
    BY <2>1, <2>2 DEF FindRow
<1>4. \A u \in Types, k \in Kinds, w \in [Periods -> Nat] :
        RowsBound(u, k, w) => RowsBound(u, k, w)'
  BY <1>2 DEF RowsBound
<1>5. QED
  BY <1>2, <1>3, <1>4, StillWaits

LEMMA InsertRowCounted ==
  ASSUME CountInv, NEW r \in Requests, NEW t \in Types, InsertRow(r, t)
  PROVE  Orderly' /\ AllCounted'
<1>1. reqs[r] \in ReqType /\ TypeInv /\ Orderly /\ hour \in Hours
  BY DEF CountInv, TypeInv, TablesOK
<1>2. UNCHANGED <<hour, phase, due, hash, jobs, events>>
  BY DEF InsertRow
<1>3. PICK req : /\ GoOn(r, req)
                 /\ req.kind = "pv"
                 /\ \A u \in Types, k \in Kinds :
                      Waits(req, u, k) <=> Waits(reqs[r], u, k)
  BY <1>1, RowDoneFacts DEF InsertRow
<1>4. PICK p \in Periods : rows' = [rows EXCEPT ![t][p] = Append(@, NoCount)]
  <2>1. Hours \subseteq Periods
    BY StatsAssumption DEF Hours, Periods
  <2>2. reqs[r].at["D"] \in Hours
    BY <1>1 DEF ReqType, Types
  <2>3. QED
    BY <1>1, <2>1, <2>2 DEF InsertRow
<1>5. \A u \in Types, k \in Kinds, w \in [Periods -> Nat] :
        RowsBound(u, k, w) => RowsBound(u, k, w)'
  BY <1>1, <1>4, NewRowKeepsBound
<1>6. QED
  BY <1>2, <1>3, <1>5, StillWaits

(* A step that ends the wait of the request r under u: it is counted, or   *)
(* its count of before is overwritten.                                     *)
LEMMA WaitEnds ==
  ASSUME CountInv, NEW r \in Requests, NEW req, GoOn(r, req),
         UNCHANGED <<hour, phase, due, rows, jobs, events>>,
         NEW u \in Types, NEW c \in Kinds, Waits(reqs[r], u, c),
         \A t \in Types, k \in Kinds :
           Waits(req, t, k) <=> Waits(reqs[r], t, k) /\ <<t, k>> # <<u, c>>,
         req.pc \in {"find", "insert", "set"} => req.kind = "pv",
         \A f \in Fields : ReadField(f)' = ReadField(f)
           \/ (f = <<u, c>> /\ ReadField(f)' \in Nat /\ ReadField(f)' <= ReadField(f) + 1)
  PROVE  Orderly' /\ AllCounted'
<1>1. Orderly'
  BY DEF CountInv, Orderly, GoOn, TypeInv, TablesOK
<1>2. ASSUME NEW t \in Types, NEW k \in Kinds
      PROVE  Counted(t, k)'
  <2>1. TypeInv /\ Counted(t, k) /\ events[k] \in Nat
    BY DEF CountInv, AllCounted, TypeInv, TablesOK
  <2>2. Pending(t, k)' = IF Waits(req, t, k) THEN Pending(t, k) \cup {r}
                                             ELSE Pending(t, k) \ {r}
    BY <2>1, PendingAfter
  <2>3. <<t, k>> \in Fields
    BY DEF Fields
  <2>4. PICK p \in Periods : p = HashPeriod(t, k) /\ HashPeriod(t, k)' = p
    BY <2>1, HashPeriodIsPeriod, PeriodsStay
  <2>5. \A w : RowsBound(t, k, w)' <=> RowsBound(t, k, w)
    BY DEF RowsBound
  <2>6. \A w : ReadsBound(t, k, w)' <=> ReadsBound(t, k, w)
    BY PeriodsStay
  <2>7. CASE <<t, k>> = <<u, c>>
    <3>1. r \in Pending(t, k)
      BY <2>7 DEF Pending
    <3>2. Pending(t, k)' = Pending(t, k) \ {r}
      BY <2>2, <2>7
    <3>3. ASSUME NEW w \in [Periods -> Nat], Bounds(t, k, w)
          PROVE  Bounds(t, k, Raised(w, p))'
      <4>1. RowsBound(t, k, Raised(w, p))' /\ ReadsBound(t, k, Raised(w, p))'
        BY <2>1, <2>4, <2>5, <2>6, <3>3, RaisedBounds DEF Bounds
      <4>2. ReadField(<<t, k>>) \in Nat /\ ReadField(<<t, k>>) <= w[p]
        BY <2>1, <2>3, <2>4, <3>3, FieldIsNat DEF Bounds
      <4>3. ReadField(<<t, k>>)' \in Nat /\ ReadField(<<t, k>>)' <= ReadField(<<t, k>>) + 1
        BY <2>3, <4>2
      <4>4. Raised(w, p)[p] = w[p] + 1 /\ w[p] \in Nat
        BY <2>1, <2>4, RaisedBounds
      <4>5. ReadField(<<t, k>>)' <= Raised(w, p)[p]
        BY <4>2, <4>3, <4>4
      <4>6. QED
        BY <2>4, <4>1, <4>5 DEF Bounds
    <3>4. QED
      BY <2>1, <2>4, <3>1, <3>2, <3>3, OneIsCounted
  <2>8. CASE <<t, k>> # <<u, c>>
    <3>1. Pending(t, k)' = Pending(t, k)
      BY <2>2, <2>8 DEF Pending
    <3>2. ReadField(<<t, k>>)' = ReadField(<<t, k>>)
      BY <2>3, <2>8
    <3>3. \A w \in [Periods -> Nat] : Bounds(t, k, w) => Bounds(t, k, w)'
      BY <2>4, <2>5, <2>6, <3>2 DEF Bounds
    <3>4. QED
      BY <2>1, <3>1, <3>3, NothingCounted
  <2>9. QED
    BY <2>7, <2>8
<1>3. QED
  BY <1>1, <1>2 DEF AllCounted

LEMMA CountCounted ==
  ASSUME CountInv, NEW r \in Requests, NEW u \in Types, Count(r, u)
  PROVE  Orderly' /\ AllCounted'
<1>1. reqs[r] \in ReqType /\ hash \in [Fields -> Nat \cup {Missing}]
  BY DEF CountInv, TypeInv, TablesOK
<1>2. PICK c \in Kinds, f \in Fields : c = reqs[r].kind /\ f = <<u, c>>
  BY <1>1 DEF ReqType, Fields
<1>3. Waits(reqs[r], u, c)
  BY <1>2 DEF Count, NextOf, Waits
<1>4. PICK req : /\ GoOn(r, req)
                 /\ req = IF u = "H" THEN NoRequest ELSE [reqs[r] EXCEPT !.todo = @ \ {u}]
  BY DEF Count
<1>5. ASSUME NEW t \in Types, NEW k \in Kinds
      PROVE  Waits(req, t, k) <=> Waits(reqs[r], t, k) /\ <<t, k>> # <<u, c>>
  <2>1. CASE u = "H"
    <3>1. ~ Waits(req, t, k)
      BY <1>4, <2>1 DEF Waits, NoRequest
    <3>2. "D" \notin reqs[r].todo /\ reqs[r].pc = "count"
      BY <2>1 DEF Count, NextOf
    <3>3. QED
      BY <1>2, <2>1, <3>1, <3>2 DEF Waits, Types
  <2>2. CASE u # "H"
    <3>1. /\ req.kind = reqs[r].kind /\ req.pc = "count"
          /\ req.todo = reqs[r].todo \ {u}
      BY <1>1, <1>4, <2>2 DEF ReqType, Count
    <3>2. QED
      BY <1>2, <3>1 DEF Waits, Count
  <2>3. QED
    BY <2>1, <2>2
<1>6. req.pc \notin {"find", "insert", "set"}
  BY <1>1, <1>4 DEF Count, NoRequest, ReqType
<1>7. ASSUME NEW g \in Fields
      PROVE  ReadField(g)' = ReadField(g)
               \/ (g = f /\ ReadField(g)' \in Nat /\ ReadField(g)' <= ReadField(g) + 1)
  <2>1. hash' = [hash EXCEPT ![f] = ReadField(f) + 1]
    BY <1>2 DEF Count
  <2>2. CASE g = f
    <3>1. ReadField(f) \in Nat
      BY <1>2, FieldIsNat DEF CountInv
    <3>2. hash'[f] = ReadField(f) + 1
      BY <1>1, <1>2, <2>1
    <3>3. ReadField(f)' = ReadField(f) + 1
      BY <3>1, <3>2, StatsAssumption DEF ReadField
    <3>4. QED
      BY <2>2, <3>1, <3>3
  <2>3. CASE g # f
    BY <1>1, <2>1, <2>3 DEF ReadField
  <2>4. QED
    BY <2>2, <2>3
<1>8. UNCHANGED <<hour, phase, due, rows, jobs, events>>
  BY DEF Count
<1>9. \A g \in Fields : ReadField(g)' = ReadField(g)
        \/ (g = <<u, c>> /\ ReadField(g)' \in Nat /\ ReadField(g)' <= ReadField(g) + 1)
  BY <1>2, <1>7
<1>10. GoOn(r, req) /\ (req.pc \in {"find", "insert", "set"} => req.kind = "pv")
  BY <1>4, <1>6
<1>11. QED
  BY <1>3, <1>5, <1>8, <1>9, <1>10, WaitEnds

(* The first view of a day overwrites the fields: the views of the day are *)
(* 1 again, which is the view itself, and the clicks are 0.                *)
LEMMA SetFieldCounted ==
  ASSUME CountInv, NEW r \in Requests, NEW f \in Fields, SetField(r, f)
  PROVE  Orderly' /\ AllCounted'
<1>1. reqs[r] \in ReqType /\ hash \in [Fields -> Nat \cup {Missing}] /\ TypeInv
  BY DEF CountInv, TypeInv, TablesOK
<1>2. reqs[r].kind = "pv" /\ reqs[r].pc = "set" /\ f \in reqs[r].sets
  BY DEF SetField, CountInv, Orderly
<1>3. PICK req : /\ GoOn(r, req)
                 /\ req = IF reqs[r].sets = {f} THEN NoRequest
                          ELSE [reqs[r] EXCEPT !.sets = @ \ {f}]
  BY DEF SetField
<1>4. \A t \in Types, k \in Kinds :
        Waits(req, t, k) <=> Waits(reqs[r], t, k) /\ <<t, k>> # f
  <2>1. CASE reqs[r].sets = {f}
    BY <1>2, <1>3, <2>1 DEF Waits, NoRequest
  <2>2. CASE reqs[r].sets # {f}
    <3>1. /\ req.kind = "pv" /\ req.pc = "set"
          /\ req.sets = reqs[r].sets \ {f}
      BY <1>1, <1>2, <1>3, <2>2 DEF ReqType
    <3>2. QED
      BY <1>2, <3>1 DEF Waits
  <2>3. QED
    BY <2>1, <2>2
<1>5. req.pc \in {"find", "insert", "set"} => req.kind = "pv"
  BY <1>1, <1>2, <1>3 DEF NoRequest, ReqType
<1>6. UNCHANGED <<hour, phase, due, rows, jobs, events>>
  BY DEF SetField
<1>7. hash' = [hash EXCEPT ![f] = IF f[2] = "pv" THEN 1 ELSE 0]
  BY DEF SetField
<1>8. PICK u \in Types, c \in Kinds : f = <<u, c>>
  BY DEF Fields
<1>9. \A g \in Fields \ {f} : ReadField(g)' = ReadField(g)
  BY <1>1, <1>7 DEF ReadField
<1>10. ReadField(f) \in Nat
  BY <1>1, FieldIsNat
<1>11. CASE c = "pv"
  <2>1. ReadField(f)' = 1
    BY <1>1, <1>7, <1>8, <1>11, StatsAssumption DEF ReadField
  <2>2. Waits(reqs[r], u, c)
    BY <1>2, <1>8, <1>11 DEF Waits
  <2>3. QED
    <3>1. \A g \in Fields : ReadField(g)' = ReadField(g)
            \/ (g = <<u, c>> /\ ReadField(g)' \in Nat /\ ReadField(g)' <= ReadField(g) + 1)
      BY <1>8, <1>9, <1>10, <2>1
    <3>2. \A t \in Types, k \in Kinds :
            Waits(req, t, k) <=> Waits(reqs[r], t, k) /\ <<t, k>> # <<u, c>>
      BY <1>4, <1>8
    <3>3. GoOn(r, req)
      BY <1>3
    <3>4. QED
      BY <1>5, <1>6, <2>2, <3>1, <3>2, <3>3, WaitEnds
<1>12. CASE c = "click"
  <2>1. ReadField(f)' = 0
    BY <1>1, <1>7, <1>8, <1>12, StatsAssumption DEF ReadField
  <2>2. \A t \in Types, k \in Kinds : Waits(req, t, k) <=> Waits(reqs[r], t, k)
    BY <1>2, <1>4, <1>8, <1>12 DEF Waits
  <2>3. Orderly'
    BY <1>3, <1>5, <1>6 DEF CountInv, Orderly, GoOn, TypeInv, TablesOK
  <2>4. ASSUME NEW t \in Types, NEW k \in Kinds
        PROVE  Counted(t, k)'
    <3>1. Counted(t, k)
      BY DEF CountInv, AllCounted
    <3>2. Pending(t, k)' = Pending(t, k)
      <4>1. Pending(t, k)' = IF Waits(req, t, k) THEN Pending(t, k) \cup {r}
                                                 ELSE Pending(t, k) \ {r}
        BY <1>1, <1>3, PendingAfter
      <4>2. QED
        BY <2>2, <4>1 DEF Pending
    <3>3. ReadField(<<t, k>>)' \in Nat /\ ReadField(<<t, k>>)' <= ReadField(<<t, k>>)
      <4>1. <<t, k>> \in Fields
        BY DEF Fields
      <4>2. ReadField(<<t, k>>) \in Nat
        BY <1>1, <4>1, FieldIsNat
      <4>3. QED
        BY <1>9, <1>10, <2>1, <4>1, <4>2
    <3>4. ASSUME NEW w \in [Periods -> Nat], Bounds(t, k, w)
          PROVE  Bounds(t, k, w)'
      <4>1. HashPeriod(t, k)' = HashPeriod(t, k) /\ HashPeriod(t, k) \in Periods
        BY <1>1, <1>6, PeriodsStay, HashPeriodIsPeriod
      <4>2. ReadField(<<t, k>>) \in Nat
        BY <1>1, FieldIsNat DEF Fields
      <4>3. ReadField(<<t, k>>)' <= w[HashPeriod(t, k)']
        BY <3>3, <3>4, <4>1, <4>2 DEF Bounds
      <4>4. RowsBound(t, k, w)' /\ ReadsBound(t, k, w)'
        BY <1>6, <3>4, PeriodsStay DEF Bounds, RowsBound
      <4>5. QED
        BY <4>3, <4>4 DEF Bounds
    <3>5. QED
      BY <1>6, <3>1, <3>2, <3>4, NothingCounted
  <2>5. QED
    BY <2>3, <2>4 DEF AllCounted
<1>13. QED
  BY <1>11, <1>12 DEF Kinds

(***************************************************************************)
(* The jobs and the clock.  The period of the hash changes only when the   *)
(* hash has nothing to count: after a reset or the delete.                 *)
(***************************************************************************)
LEMMA CopiesMove ==
  ASSUME CountInv, UNCHANGED <<reqs, events>>, Orderly',
         \A t \in Types, k \in Kinds :
           \/ ReadField(<<t, k>>)' = 0 /\ hour' = hour
           \/ ReadField(<<t, k>>)' = ReadField(<<t, k>>)
              /\ HashPeriod(t, k)' = HashPeriod(t, k),
         \A t \in Types, k \in Kinds, w \in [Periods -> Nat] :
           Bounds(t, k, w) => RowsBound(t, k, w)' /\ ReadsBound(t, k, w)'
  PROVE  Orderly' /\ AllCounted'
<1>1. ASSUME NEW t \in Types, NEW k \in Kinds
      PROVE  Counted(t, k)'
  <2>1. TypeInv /\ Counted(t, k)
    BY DEF CountInv, AllCounted
  <2>2. Pending(t, k)' = Pending(t, k)
    BY DEF Pending, Waits
  <2>3. ASSUME NEW w \in [Periods -> Nat], Bounds(t, k, w)
        PROVE  ReadField(<<t, k>>)' <= w[HashPeriod(t, k)']
    <3>1. CASE ReadField(<<t, k>>)' = 0 /\ hour' = hour
      <4>1. Now(t)' = Now(t)
        BY <3>1 DEF Now, today
      <4>2. HashPeriod(t, k)' \in Periods
        BY <2>1, <4>1, NowIsPeriod DEF HashPeriod, Counting, TypeInv, TablesOK
      <4>3. QED
        BY <3>1, <4>2
    <3>2. CASE /\ ReadField(<<t, k>>)' = ReadField(<<t, k>>)
               /\ HashPeriod(t, k)' = HashPeriod(t, k)
      BY <2>3, <3>2 DEF Bounds
    <3>3. QED
      BY <3>1, <3>2
  <2>4. \A w \in [Periods -> Nat] : Bounds(t, k, w) => Bounds(t, k, w)'
    BY <2>3 DEF Bounds
  <2>5. QED
    BY <2>1, <2>2, <2>4, NothingCounted
<1>2. QED
  BY <1>1 DEF AllCounted

LEMMA RunAfter ==
  ASSUME TypeInv, NEW j \in Jobs, NEW run, RunOn(j, run)
  PROVE  jobs' = [i \in Jobs |-> IF i = j THEN run ELSE jobs[i]]
BY DEF RunOn, TypeInv, JobsOK

LEMMA RunOrderly ==
  ASSUME TypeInv, Orderly, NEW j \in Jobs, NEW run, RunOn(j, run),
         due' \subseteq due, j \notin due', UNCHANGED reqs
  PROVE  Orderly'
<1>1. due \subseteq Jobs
  BY DEF TypeInv, TablesOK
<1>2. QED
  BY <1>1, RunAfter DEF Orderly

(* The run of another job does not move the period of the hash.            *)
LEMMA OthersHashPeriod ==
  ASSUME TypeInv, NEW j \in Jobs, NEW run, RunOn(j, run),
         UNCHANGED <<hour, phase>>, due' \in {due, due \ {j}},
         NEW t \in Types, NEW k \in Kinds, Mover(t) # j
  PROVE  HashPeriod(t, k)' = HashPeriod(t, k)
<1>1. Mover(t) \in Jobs
  BY DEF Mover, Jobs
<1>2. jobs'[Mover(t)] = jobs[Mover(t)]
  BY <1>1, RunAfter
<1>3. Mover(t) \in due' <=> Mover(t) \in due
  OBVIOUS
<1>4. QED
  BY <1>2, <1>3 DEF HashPeriod, Counting, Passed, Moving, Midnight, Now, today, Mover

LEMMA ReadsAfter ==
  ASSUME TypeInv, NEW j \in Jobs, NEW run, RunOn(j, run),
         NEW t \in Types, NEW k \in Kinds, NEW w, ReadsBound(t, k, w),
         t \in Moves(j) /\ run.pc \in Holding => run.read[<<t, k>>] <= w[run.ts[t]]
  PROVE  ReadsBound(t, k, w)'
BY RunAfter DEF ReadsBound

LEMMA ListKeysCounted ==
  ASSUME CountInv, NEW j \in Jobs, ListKeys(j)
  PROVE  Orderly' /\ AllCounted'
<1>1. TypeInv /\ Orderly /\ UNCHANGED <<hour, phase, hash, rows, reqs, events>>
  BY DEF CountInv, ListKeys
<1>2. PICK run : /\ RunOn(j, run)
                 /\ run.pc \in {"read", "idle"} /\ (run.pc = "idle" => ~ KeyExists)
  <2>1. Started(j).pc = "read" /\ NoRun.pc = "idle"
    BY DEF Started, NoRun
  <2>2. QED
    BY <2>1 DEF ListKeys, Started, PeriodsOf
<1>3. due' = due \ {j} /\ jobs[j].pc = "idle" /\ (j = "minute" \/ j \in due)
  BY DEF ListKeys
<1>4. Orderly'
  BY <1>1, <1>2, <1>3, RunOrderly
<1>5. ASSUME NEW t \in Types, NEW k \in Kinds
      PROVE  \/ ReadField(<<t, k>>)' = 0 /\ hour' = hour
             \/ ReadField(<<t, k>>)' = ReadField(<<t, k>>)
                /\ HashPeriod(t, k)' = HashPeriod(t, k)
  <2>1. <<t, k>> \in Fields /\ ReadField(<<t, k>>)' = ReadField(<<t, k>>)
    BY <1>1 DEF Fields, ReadField
  <2>2. CASE run.pc = "idle"
    BY <1>1, <1>2, <2>1, <2>2 DEF KeyExists, ReadField
  <2>3. CASE Mover(t) # j
    BY <1>1, <1>2, <1>3, <2>1, <2>3, OthersHashPeriod
  <2>4. CASE Mover(t) = j /\ run.pc = "read"
    <3>1. jobs'[j].pc = "read" /\ j \in due
      BY <1>1, <1>2, <1>3, <2>4, RunAfter DEF Mover, Types
    <3>2. Moving(t) /\ ~ Passed(t, k)
      BY <1>3, <2>4, <3>1 DEF Moving, Passed
    <3>3. Moving(t)' /\ ~ Passed(t, k)'
      BY <2>4, <3>1 DEF Moving, Passed, Mover
    <3>4. QED
      BY <1>1, <2>1, <3>2, <3>3 DEF HashPeriod, Counting, Now, today
  <2>5. QED
    BY <1>2, <2>2, <2>3, <2>4
<1>6. ASSUME NEW t \in Types, NEW k \in Kinds, NEW w \in [Periods -> Nat],
             Bounds(t, k, w)
      PROVE  RowsBound(t, k, w)' /\ ReadsBound(t, k, w)'
  <2>1. RowsBound(t, k, w) /\ ReadsBound(t, k, w)
    BY <1>6 DEF Bounds
  <2>2. run.pc \notin Holding
    BY <1>2 DEF Holding
  <2>3. QED
    BY <1>1, <1>2, <2>1, <2>2, ReadsAfter DEF RowsBound
<1>7. QED
  BY <1>1, <1>4, <1>5, <1>6, CopiesMove

(* A job reads the counts of the period it is going to write.              *)
LEMMA ReadHashCounted ==
  ASSUME CountInv, NEW j \in Jobs, ReadHash(j)
  PROVE  Orderly' /\ AllCounted'
<1>1. /\ TypeInv /\ Orderly /\ jobs[j].pc = "read"
      /\ UNCHANGED <<hour, phase, due, hash, rows, reqs, events>>
  BY DEF CountInv, ReadHash
<1>2. PICK run : /\ RunOn(j, run) /\ run.ts = PeriodsOf(j)
                 /\ run.read = [f \in Moves(j) \X Kinds |-> ReadField(f)]
                 /\ run.pc = CASE j = "hour" -> "resetClick" [] j = "day" -> "delete"
                                                             [] j = "minute" -> "update"
  <2>1. jobs[j].ts = PeriodsOf(j)
    BY <1>1, RunFacts DEF Started, NoRun
  <2> DEFINE pc == CASE j = "hour" -> "resetClick" [] j = "day" -> "delete"
                                                   [] j = "minute" -> "update"
             read == [f \in Moves(j) \X Kinds |-> ReadField(f)]
  <2>2. RunOn(j, [pc |-> pc, ts |-> PeriodsOf(j), read |-> read])
    BY <2>1 DEF ReadHash
  <2> HIDE DEF pc, read
  <2>3. \E run : RunOn(j, run) /\ run.ts = PeriodsOf(j) /\ run.read = read /\ run.pc = pc
    BY <2>2
  <2>4. QED
    BY <2>3 DEF pc, read
<1>3. j \notin due /\ due \subseteq Jobs /\ Busy(j)
  BY <1>1 DEF Orderly, TypeInv, TablesOK, Busy
<1>4. Orderly'
  BY <1>1, <1>2, <1>3, RunOrderly
<1>5. ASSUME NEW t \in Types, NEW k \in Kinds
      PROVE  HashPeriod(t, k)' = HashPeriod(t, k)
  <2>1. CASE Mover(t) # j
    BY <1>1, <1>2, <2>1, OthersHashPeriod
  <2>2. CASE Mover(t) = j
    <3>1. run.pc \in {"resetClick", "delete"}
      BY <1>2, <2>2 DEF Mover
    <3>2. jobs'[j] = run
      BY <1>1, <1>2, RunAfter
    <3>3. Moving(t) /\ ~ Passed(t, k)
      BY <1>1, <2>2 DEF Moving, Passed
    <3>4. Moving(t)' /\ ~ Passed(t, k)'
      BY <2>2, <3>1, <3>2 DEF Moving, Passed, Mover
    <3>5. QED
      BY <1>1, <3>3, <3>4 DEF HashPeriod, Counting, Now, today
  <2>3. QED
    BY <2>1, <2>2
<1>6. ASSUME NEW t \in Types, NEW k \in Kinds, NEW w \in [Periods -> Nat],
             Bounds(t, k, w)
      PROVE  RowsBound(t, k, w)' /\ ReadsBound(t, k, w)'
  <2>1. RowsBound(t, k, w) /\ ReadsBound(t, k, w)
        /\ ReadField(<<t, k>>) <= w[HashPeriod(t, k)]
    BY <1>6 DEF Bounds
  <2>2. ASSUME t \in Moves(j) PROVE PeriodOf(j, t) = HashPeriod(t, k)
    <3>1. CASE j = "minute"
      <4>1. phase = "half" /\ ~ Busy("hour") /\ ~ Busy("day")
        BY <1>1, <1>3, <3>1 DEF TypeInv, PhaseOK
      <4>2. ~ Moving(t)
        BY <4>1 DEF Moving, Mover, Busy
      <4>3. QED
        BY <3>1, <4>1, <4>2 DEF HashPeriod, Counting, PeriodOf
    <3>2. CASE j # "minute"
      <4>1. Mover(t) = j
        BY <2>2, <3>2 DEF Mover, Moves, Jobs
      <4>2. Moving(t) /\ ~ Passed(t, k)
        BY <1>1, <4>1 DEF Moving, Passed
      <4>3. QED
        BY <3>2, <4>2 DEF HashPeriod, Counting, PeriodOf
    <3>3. QED
      BY <3>1, <3>2
  <2>3. ASSUME t \in Moves(j) PROVE run.read[<<t, k>>] <= w[run.ts[t]]
    <3>1. run.read[<<t, k>>] = ReadField(<<t, k>>) /\ run.ts[t] = HashPeriod(t, k)
      BY <1>2, <2>2, <2>3 DEF PeriodsOf
    <3>2. QED
      BY <2>1, <3>1
  <2>4. QED
    BY <1>1, <1>2, <2>1, <2>3, ReadsAfter DEF RowsBound
<1>7. \A t \in Types, k \in Kinds : ReadField(<<t, k>>)' = ReadField(<<t, k>>)
  BY <1>1 DEF ReadField
<1>8. QED
  BY <1>1, <1>4, <1>5, <1>6, <1>7, CopiesMove

(* A run taken on to another place keeps what it has read.                 *)
LEMMA RunGoesOn ==
  ASSUME TypeInv, NEW j \in Jobs, NEW pc, jobs[j].pc \in Holding
  PROVE  \E run : /\ run = [jobs[j] EXCEPT !.pc = pc]
                  /\ run.pc = pc /\ run.ts = jobs[j].ts /\ run.read = jobs[j].read
<1>1. jobs[j] = [pc |-> jobs[j].pc, ts |-> jobs[j].ts, read |-> jobs[j].read]
  BY RunFacts DEF Holding
<1>2. [jobs[j] EXCEPT !.pc = pc] = [pc |-> pc, ts |-> jobs[j].ts, read |-> jobs[j].read]
  BY <1>1
<1>3. QED
  BY <1>2

LEMMA ResetFieldCounted ==
  ASSUME CountInv, NEW kind \in Kinds, NEW pc, NEW next,
         \/ kind = "click" /\ pc = "resetClick" /\ next = "resetPv"
         \/ kind = "pv" /\ pc = "resetPv" /\ next = "update",
         ResetField(kind, pc, next)
  PROVE  Orderly' /\ AllCounted'
<1>1. /\ TypeInv /\ Orderly /\ "hour" \in Jobs /\ jobs["hour"].pc = pc
      /\ UNCHANGED <<hour, phase, due, rows, reqs, events>>
      /\ hash' = [hash EXCEPT ![<<"H", kind>>] = 0]
  BY DEF CountInv, ResetField, Jobs
<1>2. PICK run : /\ RunOn("hour", run) /\ run.pc = next
                 /\ run.ts = jobs["hour"].ts /\ run.read = jobs["hour"].read
  <2>1. jobs["hour"].pc \in Holding
    BY <1>1 DEF Holding
  <2>2. PICK run : /\ run = [jobs["hour"] EXCEPT !.pc = next]
                   /\ run.pc = next /\ run.ts = jobs["hour"].ts
                   /\ run.read = jobs["hour"].read
    BY <1>1, <2>1, RunGoesOn
  <2>3. QED
    BY <2>2 DEF ResetField
<1>3. "hour" \notin due
  BY <1>1 DEF Orderly
<1>4. Orderly'
  BY <1>1, <1>2, <1>3, RunOrderly
<1>5. ASSUME NEW t \in Types, NEW k \in Kinds
      PROVE  \/ ReadField(<<t, k>>)' = 0 /\ hour' = hour
             \/ ReadField(<<t, k>>)' = ReadField(<<t, k>>)
                /\ HashPeriod(t, k)' = HashPeriod(t, k)
  <2>1. <<t, k>> \in Fields /\ hash \in [Fields -> Nat \cup {Missing}]
    BY <1>1 DEF Fields, TypeInv, TablesOK
  <2>2. CASE <<t, k>> = <<"H", kind>>
    BY <1>1, <2>1, <2>2 DEF ReadField
  <2>3. CASE <<t, k>> # <<"H", kind>>
    <3>1. ReadField(<<t, k>>)' = ReadField(<<t, k>>)
      BY <1>1, <2>1, <2>3 DEF ReadField
    <3>2. CASE t = "D"
      <4>1. Mover(t) # "hour"
        BY <3>2 DEF Mover
      <4>2. QED
        BY <1>1, <1>2, <3>1, <4>1, OthersHashPeriod
    <3>3. CASE t = "H"
      <4>1. Mover(t) = "hour" /\ k # kind
        BY <2>3, <3>3 DEF Mover
      <4>2. jobs'["hour"].pc = next
        BY <1>1, <1>2, RunAfter
      <4>3. Moving(t) /\ Moving(t)'
        BY <1>1, <4>1, <4>2 DEF Moving, Mover
      <4>4. Passed(t, k)' <=> Passed(t, k)
        BY <1>1, <4>1, <4>2 DEF Passed, Mover, Kinds
      <4>5. QED
        BY <1>1, <3>1, <4>3, <4>4 DEF HashPeriod, Counting, Now, today
    <3>4. QED
      BY <3>2, <3>3 DEF Types
  <2>4. QED
    BY <2>2, <2>3
<1>6. ASSUME NEW t \in Types, NEW k \in Kinds, NEW w \in [Periods -> Nat],
             Bounds(t, k, w)
      PROVE  RowsBound(t, k, w)' /\ ReadsBound(t, k, w)'
  <2>1. RowsBound(t, k, w) /\ ReadsBound(t, k, w)
    BY <1>6 DEF Bounds
  <2>2. t \in Moves("hour") => run.read[<<t, k>>] <= w[run.ts[t]]
    BY <1>1, <1>2, <2>1 DEF ReadsBound, Holding
  <2>3. QED
    BY <1>1, <1>2, <2>1, <2>2, ReadsAfter DEF RowsBound
<1>7. QED
  BY <1>1, <1>4, <1>5, <1>6, CopiesMove

LEMMA DeleteHashCounted ==
  ASSUME CountInv, DeleteHash
  PROVE  Orderly' /\ AllCounted'
<1>1. /\ TypeInv /\ Orderly /\ "day" \in Jobs /\ jobs["day"].pc = "delete"
      /\ UNCHANGED <<hour, phase, due, rows, reqs, events>>
      /\ hash' = [f \in Fields |-> Missing]
  BY DEF CountInv, DeleteHash, Jobs
<1>2. PICK run : /\ RunOn("day", run) /\ run.pc = "update"
                 /\ run.ts = jobs["day"].ts /\ run.read = jobs["day"].read
  <2>1. jobs["day"].pc \in Holding
    BY <1>1 DEF Holding
  <2>2. PICK run : /\ run = [jobs["day"] EXCEPT !.pc = "update"]
                   /\ run.pc = "update" /\ run.ts = jobs["day"].ts
                   /\ run.read = jobs["day"].read
    BY <1>1, <2>1, RunGoesOn
  <2>3. QED
    BY <2>2 DEF DeleteHash
<1>3. "day" \notin due
  BY <1>1 DEF Orderly
<1>4. Orderly'
  BY <1>1, <1>2, <1>3, RunOrderly
<1>5. \A t \in Types, k \in Kinds : ReadField(<<t, k>>)' = 0 /\ hour' = hour
  BY <1>1 DEF ReadField, Fields
<1>6. ASSUME NEW t \in Types, NEW k \in Kinds, NEW w \in [Periods -> Nat],
             Bounds(t, k, w)
      PROVE  RowsBound(t, k, w)' /\ ReadsBound(t, k, w)'
  <2>1. RowsBound(t, k, w) /\ ReadsBound(t, k, w)
    BY <1>6 DEF Bounds
  <2>2. t \in Moves("day") => run.read[<<t, k>>] <= w[run.ts[t]]
    BY <1>1, <1>2, <2>1 DEF ReadsBound, Holding
  <2>3. QED
    BY <1>1, <1>2, <2>1, <2>2, ReadsAfter DEF RowsBound
<1>7. QED
  BY <1>1, <1>4, <1>5, <1>6, CopiesMove

(* A run that ends, or goes on to insert, leaves the hash to the present   *)
(* period, as its reset or delete has.                                     *)
LEMMA RunEnds ==
  ASSUME TypeInv, Orderly, NEW j \in Jobs, NEW run, RunOn(j, run),
         jobs[j].pc \in {"update", "insert"}, run.pc \in {"insert", "idle"},
         UNCHANGED <<hour, phase, due, hash, reqs>>,
         NEW t \in Types, NEW k \in Kinds
  PROVE  /\ Orderly'
         /\ ReadField(<<t, k>>)' = ReadField(<<t, k>>)
         /\ HashPeriod(t, k)' = HashPeriod(t, k)
<1>1. j \notin due
  BY DEF Orderly
<1>2. Orderly' /\ ReadField(<<t, k>>)' = ReadField(<<t, k>>)
  BY <1>1, RunOrderly DEF ReadField
<1>3. CASE Mover(t) # j
  BY <1>2, <1>3, OthersHashPeriod
<1>4. CASE Mover(t) = j
  <2>1. jobs'[j] = run
    BY RunAfter
  <2>2. ~ Moving(t)' /\ ~ Passed(t, k)'
    BY <1>1, <1>4, <2>1 DEF Moving, Passed, Mover
  <2>3. Passed(t, k) \/ ~ Moving(t)
    BY <1>1, <1>4 DEF Moving, Passed
  <2>4. ~ (t = "D" /\ phase = "turn")
    BY <1>4 DEF TypeInv, PhaseOK, Busy, Mover
  <2>5. QED
    BY <1>2, <2>2, <2>3, <2>4 DEF HashPeriod, Counting, Now, today
<1>5. QED
  BY <1>3, <1>4

LEMMA UpdateRowsCounted ==
  ASSUME CountInv, NEW j \in Jobs, UpdateRows(j)
  PROVE  Orderly' /\ AllCounted'
<1>1. /\ TypeInv /\ Orderly /\ jobs[j].pc = "update"
      /\ UNCHANGED <<hour, phase, due, hash, reqs, events>>
  BY DEF CountInv, UpdateRows
<1>2. PICK run : RunOn(j, run) /\ run.pc \in {"insert", "idle"}
  <2>1. [jobs[j] EXCEPT !.pc = "insert"].pc = "insert" /\ NoRun.pc = "idle"
    BY <1>1, RunGoesOn DEF Holding, NoRun
  <2>2. QED
    BY <2>1 DEF UpdateRows
<1>3. \A t \in Types, k \in Kinds :
        /\ Orderly'
        /\ ReadField(<<t, k>>)' = ReadField(<<t, k>>)
        /\ HashPeriod(t, k)' = HashPeriod(t, k)
  BY <1>1, <1>2, RunEnds
<1>4. ASSUME NEW t \in Types, NEW k \in Kinds, NEW w \in [Periods -> Nat],
             Bounds(t, k, w)
      PROVE  RowsBound(t, k, w)' /\ ReadsBound(t, k, w)'
  <2>1. RowsBound(t, k, w) /\ ReadsBound(t, k, w)
    BY <1>4 DEF Bounds
  <2>2. ReadsBound(t, k, w)'
    BY <1>1, <1>2, <2>1, ReadsAfter DEF Holding
  <2>3. RowsBound(t, k, w)'
    <3>1. SUFFICES ASSUME NEW p \in Periods, NEW i \in DOMAIN rows'[t][p]
                   PROVE  rows'[t][p][i][k] <= w[p]
      BY DEF RowsBound
    <3>2. /\ i \in DOMAIN rows[t][p]
          /\ rows'[t][p][i] = IF t \in Moves(j) /\ p = jobs[j].ts[t]
                              THEN [c \in Kinds |-> jobs[j].read[<<t, c>>]]
                              ELSE rows[t][p][i]
      BY DEF UpdateRows
    <3>3. CASE t \in Moves(j) /\ p = jobs[j].ts[t]
      <4>1. rows'[t][p][i][k] = jobs[j].read[<<t, k>>]
        BY <3>2, <3>3
      <4>2. QED
        BY <1>1, <2>1, <3>3, <4>1 DEF ReadsBound, Holding
    <3>4. CASE ~ (t \in Moves(j) /\ p = jobs[j].ts[t])
      BY <2>1, <3>2, <3>4 DEF RowsBound
    <3>5. QED
      BY <3>3, <3>4
  <2>4. QED
    BY <2>2, <2>3
<1>5. Orderly'
  BY <1>3 DEF Types, Kinds
<1>6. QED
  BY <1>1, <1>3, <1>4, <1>5, CopiesMove

LEMMA InsertHourCounted ==
  ASSUME CountInv, InsertHour
  PROVE  Orderly' /\ AllCounted'
<1>1. /\ TypeInv /\ Orderly /\ "hour" \in Jobs /\ jobs["hour"].pc = "insert"
      /\ UNCHANGED <<hour, phase, due, hash, reqs, events>>
      /\ RunOn("hour", NoRun) /\ NoRun.pc = "idle"
  BY DEF CountInv, InsertHour, Jobs, NoRun
<1>2. \A t \in Types, k \in Kinds :
        /\ Orderly'
        /\ ReadField(<<t, k>>)' = ReadField(<<t, k>>)
        /\ HashPeriod(t, k)' = HashPeriod(t, k)
  BY <1>1, RunEnds
<1>3. ASSUME NEW t \in Types, NEW k \in Kinds, NEW w \in [Periods -> Nat],
             Bounds(t, k, w)
      PROVE  RowsBound(t, k, w)' /\ ReadsBound(t, k, w)'
  <2>1. RowsBound(t, k, w) /\ ReadsBound(t, k, w)
    BY <1>3 DEF Bounds
  <2>2. "H" \in Types /\ hour \in Periods
    BY <1>1, StatsAssumption DEF Types, TypeInv, TablesOK, Hours, Periods
  <2>3. rows' = [rows EXCEPT !["H"][hour] = Append(@, NoCount)]
    BY DEF InsertHour
  <2>4. RowsBound(t, k, w)'
    BY <1>1, <2>1, <2>2, <2>3, NewRowKeepsBound
  <2>5. QED
    BY <1>1, <2>1, <2>4, ReadsAfter DEF Holding
<1>4. Orderly'
  BY <1>2 DEF Types, Kinds
<1>5. QED
  BY <1>1, <1>2, <1>3, <1>4, CopiesMove

LEMMA FailCounted ==
  ASSUME CountInv, NEW j \in Jobs, Fail(j)
  PROVE  Orderly' /\ AllCounted'
<1>1. /\ TypeInv /\ Orderly /\ jobs[j].pc \in {"update", "insert"}
      /\ UNCHANGED <<hour, phase, due, hash, rows, reqs, events>>
      /\ RunOn(j, NoRun) /\ NoRun.pc = "idle"
  BY DEF CountInv, Fail, NoRun
<1>2. \A t \in Types, k \in Kinds :
        /\ Orderly'
        /\ ReadField(<<t, k>>)' = ReadField(<<t, k>>)
        /\ HashPeriod(t, k)' = HashPeriod(t, k)
  BY <1>1, RunEnds
<1>3. ASSUME NEW t \in Types, NEW k \in Kinds, NEW w \in [Periods -> Nat],
             Bounds(t, k, w)
      PROVE  RowsBound(t, k, w)' /\ ReadsBound(t, k, w)'
  <2>1. RowsBound(t, k, w) /\ ReadsBound(t, k, w)
    BY <1>3 DEF Bounds
  <2>2. QED
    BY <1>1, <2>1, ReadsAfter DEF Holding, RowsBound
<1>4. Orderly'
  BY <1>2 DEF Types, Kinds
<1>5. QED
  BY <1>1, <1>2, <1>3, <1>4, CopiesMove

(* The clock goes on when no job is under way: what is in the hash at the  *)
(* turn of a period is from then on the count of the period before.        *)
LEMMA WaitKeepsPeriod ==
  ASSUME TypeInv, Wait, NEW t \in Types
  PROVE  /\ Counting(t)' = Counting(t)
         /\ \A k : ~ Passed(t, k) /\ ~ Passed(t, k)'
<1>1. /\ due = {} /\ hour \in Nat /\ UNCHANGED jobs
      /\ \A j \in Jobs : jobs[j].pc = "idle"
  BY StatsAssumption DEF Wait, Punctual, JobsIdle, TypeInv, TablesOK, Hours
<1>2. Mover(t) \in Jobs
  BY DEF Mover, Jobs
<1> SUFFICES Counting(t)' = Counting(t)
  BY <1>1, <1>2 DEF Passed
<1>3. ~ Moving(t)
  BY <1>1, <1>2 DEF Moving
<1>4. Moving(t)' <=> Mover(t) \in due'
  BY <1>1, <1>2 DEF Moving, Mover
<1>5. CASE phase = "turn" /\ phase' = "quarter"
  <2>1. hour' = hour /\ due' = IF Midnight THEN {"day"} ELSE {}
    BY <1>5 DEF Wait
  <2>2. Now(t)' = Now(t)
    BY <2>1 DEF Now, today
  <2>3. Moving(t)' <=> t = "D" /\ Midnight
    BY <1>4, <2>1 DEF Mover
  <2>4. QED
    BY <1>3, <1>5, <2>2, <2>3 DEF Counting
<1>6. CASE phase = "quarter" /\ phase' = "half"
  <2>1. hour' = hour /\ due' = {"minute"}
    BY <1>6 DEF Wait
  <2>2. Now(t)' = Now(t) /\ ~ Moving(t)'
    BY <1>4, <2>1 DEF Now, today, Mover
  <2>3. QED
    BY <1>3, <1>6, <2>2 DEF Counting
<1>7. CASE phase = "half" /\ phase' = "turn"
  <2>1. hour' = hour + 1 /\ due' = {"hour"}
    BY <1>7 DEF Wait
  <2>2. Counting(t) = Now(t)
    BY <1>3, <1>7 DEF Counting
  <2>3. CASE t = "H"
    <3>1. Moving(t)'
      BY <1>4, <2>1, <2>3 DEF Mover
    <3>2. Counting(t)' = hour' - 1
      BY <1>3, <2>3, <3>1 DEF Counting, Now
    <3>3. QED
      BY <1>1, <2>1, <2>2, <2>3, <3>2 DEF Now
  <2>4. CASE t = "D"
    <3>1. ~ Moving(t)'
      BY <1>4, <2>1, <2>4 DEF Mover
    <3>2. Counting(t)' = IF hour' % HoursPerDay = 0 THEN today' - 1 ELSE today'
      BY <1>3, <1>7, <2>4, <3>1 DEF Counting, Now, Midnight
    <3>3. today' = IF hour' % HoursPerDay = 0 THEN today + 1 ELSE today
      BY <1>1, <2>1, DayTurns DEF today
    <3>4. today \in Nat
      BY <1>1, DayOfHour DEF today
    <3>5. QED
      BY <2>2, <2>4, <3>2, <3>3, <3>4 DEF Now
  <2>5. QED
    BY <2>3, <2>4 DEF Types
<1>8. QED
  BY <1>5, <1>6, <1>7 DEF Wait

LEMMA WaitCounted ==
  ASSUME CountInv, Wait
  PROVE  Orderly' /\ AllCounted'
<1>1. /\ TypeInv /\ Orderly /\ due = {} /\ hour \in Nat
      /\ UNCHANGED <<hash, rows, reqs, jobs, events>>
      /\ \A j \in Jobs : jobs[j].pc = "idle"
  BY StatsAssumption DEF CountInv, Wait, Punctual, JobsIdle, TypeInv, TablesOK, Hours
<1>2. Orderly'
  BY <1>1 DEF Orderly, Wait, Jobs
<1>3. \A t \in Types, k \in Kinds : HashPeriod(t, k)' = HashPeriod(t, k)
  BY <1>1, WaitKeepsPeriod DEF HashPeriod
<1>4. ASSUME NEW t \in Types, NEW k \in Kinds, NEW w \in [Periods -> Nat],
             Bounds(t, k, w)
      PROVE  RowsBound(t, k, w)' /\ ReadsBound(t, k, w)'
  BY <1>1, <1>4 DEF Bounds, RowsBound, ReadsBound
<1>5. \A t \in Types, k \in Kinds : ReadField(<<t, k>>)' = ReadField(<<t, k>>)
  BY <1>1 DEF ReadField
<1>6. QED
  BY <1>1, <1>2, <1>3, <1>4, <1>5, CopiesMove

LEMMA CountInvInit == Init => CountInv
<1> SUFFICES ASSUME Init PROVE CountInv
  OBVIOUS
<1>1. TypeInv
  BY TypeInvInit
<1>2. Orderly
  BY DEF Init, Orderly, NoRequest
<1>3. ASSUME NEW t \in Types, NEW k \in Kinds
      PROVE  Counted(t, k)
  <2> DEFINE w == [p \in Periods |-> 0]
  <2>1. w \in [Periods -> Nat] /\ \A p \in Periods : w[p] = 0
    OBVIOUS
  <2>2. RowsBound(t, k, w)
    BY DEF RowsBound, Init
  <2>3. ReadField(<<t, k>>) = 0 /\ HashPeriod(t, k) \in Periods
    BY <1>1, HashPeriodIsPeriod DEF Init, ReadField, Fields
  <2>4. ReadsBound(t, k, w)
    BY DEF ReadsBound, Init, NoRun, Holding
  <2>5. Pending(t, k) = {}
    BY DEF Pending, Waits, Init, NoRequest
  <2>6. IsFiniteSet({}) /\ Cardinality({}) = 0
    BY FS_EmptySet
  <2> HIDE DEF w
  <2>7. Sum(w, Periods) = 0
    <3>1. w \in [Periods -> Int]
      BY <2>1
    <3>2. QED
      BY <2>1, <3>1, PeriodsFinite, SumZero
  <2>8. events[k] = 0
    BY DEF Init, NoCount
  <2>9. Bounds(t, k, w)
    BY <2>1, <2>2, <2>3, <2>4 DEF Bounds
  <2>10. QED
    BY <2>1, <2>5, <2>6, <2>7, <2>8, <2>9 DEF Counted
<1>4. QED
  BY <1>1, <1>2, <1>3 DEF CountInv, AllCounted

LEMMA CountInvStep == CountInv /\ [Next]_vars => CountInv'
<1> SUFFICES ASSUME CountInv, [Next]_vars PROVE CountInv'
  OBVIOUS
<1>1. TypeInv'
  BY TypeInvStep DEF CountInv
<1>2. Orderly' /\ AllCounted'
  <2>1. ASSUME NEW r \in Requests, Request(r) PROVE Orderly' /\ AllCounted'
    <3>1. CASE View(r)
      BY <3>1, ArriveCounted DEF View, Kinds
    <3>2. CASE Click(r)
      BY <3>2, ArriveCounted DEF Click, Kinds
    <3>3. CASE \E t \in Types : Count(r, t) \/ FindRow(r, t) \/ InsertRow(r, t)
      BY <3>3, CountCounted, FindRowCounted, InsertRowCounted
    <3>4. CASE \E f \in Fields : SetField(r, f)
      BY <3>4, SetFieldCounted
    <3>5. QED
      BY <2>1, <3>1, <3>2, <3>3, <3>4 DEF Request
  <2>2. ASSUME NEW j \in Jobs, JobStep(j) PROVE Orderly' /\ AllCounted'
    BY <2>2, ListKeysCounted, ReadHashCounted, UpdateRowsCounted, FailCounted DEF JobStep
  <2>3. ASSUME ResetHour PROVE Orderly' /\ AllCounted'
    BY <2>3, ResetFieldCounted DEF ResetHour, Kinds
  <2>4. CASE UNCHANGED vars
    <3>1. UNCHANGED <<hour, phase, due, hash, rows, reqs, jobs, events>>
      BY <2>4 DEF vars
    <3>2. Orderly'
      BY <3>1 DEF CountInv, Orderly
    <3>3. \A t \in Types, k \in Kinds, w \in [Periods -> Nat] :
            Bounds(t, k, w) => RowsBound(t, k, w)' /\ ReadsBound(t, k, w)'
      BY <3>1 DEF Bounds, RowsBound, ReadsBound
    <3>4. \A t \in Types, k \in Kinds :
            /\ ReadField(<<t, k>>)' = ReadField(<<t, k>>)
            /\ HashPeriod(t, k)' = HashPeriod(t, k)
      BY <3>1, PeriodsStay DEF ReadField
    <3>5. QED
      BY <3>1, <3>2, <3>3, <3>4, CopiesMove
  <2>5. QED
    BY <2>1, <2>2, <2>3, <2>4, DeleteHashCounted, InsertHourCounted, WaitCounted DEF Next
<1>3. QED
  BY <1>1, <1>2 DEF CountInv

(* What the rows of a period say is a count, the greatest of theirs.       *)
LEMMA StoredIsBounded ==
  ASSUME TypeInv, NEW t \in Types, NEW p \in Periods, NEW k \in Kinds
  PROVE  /\ Stored(t, p, k) \in Nat
         /\ \A b \in Nat : (\A i \in DOMAIN rows[t][p] : rows[t][p][i][k] <= b)
                             => Stored(t, p, k) <= b
<1>1. rows[t][p] \in Seq([Kinds -> Nat])
  BY DEF TypeInv, TablesOK
<1>2. CASE rows[t][p] = <<>>
  BY <1>2 DEF Stored
<1>3. CASE rows[t][p] # <<>>
  <2> DEFINE D == DOMAIN rows[t][p]
             S == {rows[t][p][i][k] : i \in D}
  <2>1. \A i \in D : rows[t][p][i][k] \in Nat
    BY <1>1
  <2>2. IsFiniteSet(D) /\ 1 \in D
    <3>1. D = 1..Len(rows[t][p]) /\ Len(rows[t][p]) \in Nat /\ Len(rows[t][p]) # 0
      BY <1>1, <1>3, EmptySeq
    <3>2. QED
      BY <3>1, FS_Interval
  <2>3. S # {} /\ S \subseteq Nat
    BY <2>1, <2>2
  <2>4. IsFiniteSet(S)
    <3> DEFINE g == [i \in D |-> rows[t][p][i][k]]
    <3>1. g \in Surjection(D, S)
      BY DEF Surjection
    <3>2. QED
      BY <2>2, <3>1, FS_Surjection
  <2>5. Max(S) \in S /\ \A y \in S : y <= Max(S)
    <3> HIDE DEF S
    <3>1. S \subseteq Int
      BY <2>3
    <3>2. QED
      BY <2>3, <2>4, <3>1, MaxIsGreatest
  <2>6. Stored(t, p, k) = Max(S)
    BY <1>3 DEF Stored
  <2>7. QED
    BY <2>3, <2>5, <2>6
<1>4. QED
  BY <1>2, <1>3

(* Total adds up what the rows of the periods say.                         *)
StoredOf(t, k) == [p \in Periods |-> Stored(t, p, k)]

LEMMA TotalIsSum ==
  ASSUME NEW t \in Types, NEW k \in Kinds, NEW P \in SUBSET Periods, IsFiniteSet(P),
         StoredOf(t, k) \in [Periods -> Int]
  PROVE  Total(t, k, P) = Sum(StoredOf(t, k), P)
<1> DEFINE IsTotal(i) ==
             i = [T \in SUBSET P |-> IF T = {} THEN 0
                                     ELSE Stored(t, Pick(T), k) + i[T \ {Pick(T)}]]
           j == CHOOSE i : IsTotal(i)
<1>1. Total(t, k, P) = j[P]
  BY DEF Total, MapThenSumSet, MapThenFoldSet, Pick
<1>2. \A i : IsTotal(i) <=> Adds(i, StoredOf(t, k), P)
  <2>1. \A T \in SUBSET P : T # {} => StoredOf(t, k)[Pick(T)] = Stored(t, Pick(T), k)
    BY DEF StoredOf, Pick
  <2>2. QED
    BY <2>1 DEF Adds
<1>3. \E i : Adds(i, StoredOf(t, k), P)
  <2> DEFINE f == [p \in P |-> Stored(t, p, k)]
  <2>1. f \in [P -> Int]
    BY DEF StoredOf
  <2>2. PICK i : Adds(i, f, P)
    BY <2>1, AddsExists
  <2>3. \A T \in SUBSET P : T # {} => f[Pick(T)] = StoredOf(t, k)[Pick(T)]
    BY DEF StoredOf, Pick
  <2>4. Adds(i, StoredOf(t, k), P)
    BY <2>2, <2>3 DEF Adds
  <2>5. QED
    BY <2>4
<1>4. Adds(j, StoredOf(t, k), P)
  BY <1>2, <1>3
<1>5. Sum(StoredOf(t, k), P) = j[P]
  BY <1>4, SumIs
<1>6. QED
  BY <1>1, <1>5

LEMMA CountInvGivesNoDoubleCount == CountInv => NoDoubleCount
<1> SUFFICES ASSUME CountInv, NEW t \in Types, NEW k \in Kinds
             PROVE  Total(t, k, Periods) <= events[k]
  BY DEF NoDoubleCount
<1>1. TypeInv /\ events[k] \in Nat
  BY DEF CountInv, TypeInv, TablesOK
<1>2. PICK w \in [Periods -> Nat] :
        /\ Bounds(t, k, w) /\ IsFiniteSet(Pending(t, k))
        /\ Sum(w, Periods) + Cardinality(Pending(t, k)) <= events[k]
  BY DEF CountInv, AllCounted, Counted
<1>3. \A p \in Periods : StoredOf(t, k)[p] \in Nat /\ StoredOf(t, k)[p] <= w[p]
  <2>1. \A p \in Periods : Stored(t, p, k) \in Nat /\ Stored(t, p, k) <= w[p]
    BY <1>1, <1>2, StoredIsBounded DEF Bounds, RowsBound
  <2>2. QED
    BY <2>1 DEF StoredOf
<1>4. StoredOf(t, k) \in [Periods -> Int] /\ w \in [Periods -> Int]
  <2>1. StoredOf(t, k) = [p \in Periods |-> StoredOf(t, k)[p]]
    BY DEF StoredOf
  <2>2. QED
    BY <1>3, <2>1
<1>5. Total(t, k, Periods) = Sum(StoredOf(t, k), Periods)
  BY <1>4, PeriodsFinite, TotalIsSum
<1>6. Sum(StoredOf(t, k), Periods) <= Sum(w, Periods)
  BY <1>3, <1>4, PeriodsFinite, SumMonotone
<1>7. /\ Sum(w, Periods) \in Int /\ Sum(StoredOf(t, k), Periods) \in Int
      /\ Cardinality(Pending(t, k)) \in Nat
  BY <1>2, <1>4, PeriodsFinite, SumType, FS_CardinalityType
<1>8. QED
  BY <1>1, <1>2, <1>5, <1>6, <1>7

(* However many requests overlap each other and the three jobs, at every   *)
(* command, and whichever jobs fail at the database: over all the days, or *)
(* over all the hours, the rows hold no more views than there were and no  *)
(* more clicks.  An advertiser never pays for one twice.                   *)
THEOREM NothingCountedTwice == Spec => []NoDoubleCount
<1>1. Spec => []CountInv
  BY CountInvInit, CountInvStep, PTL DEF Spec
<1>2. QED
  BY <1>1, CountInvGivesNoDoubleCount, PTL

-----------------------------------------------------------------------------
(***************************************************************************)
(* One thing at a time.                                                    *)
(***************************************************************************)
OneAtATime ==
  \A r \in Requests : reqs[r].pc # "idle" =>
    /\ due = {} /\ JobsIdle
    /\ \A q \in Requests \ {r} : reqs[q].pc = "idle"
    /\ reqs[r].at = [t \in Types |-> Now(t)]

(* A period has one row at most, and none before it has begun; the hour    *)
(* job, which does not look for the row of the new hour, finds none there. *)
RowsOK ==
  /\ OneRowPerPeriod
  /\ \A t \in Types, p \in Periods : p > Now(t) => rows[t][p] = <<>>
  /\ Busy("hour") => rows["H"][hour] = <<>>
  /\ \A r \in Requests, t \in Types :
       reqs[r].pc = "insert" /\ NextOf(r, t) => rows[t][Now(t)] = <<>>

SerialInv == TypeInv /\ Orderly /\ OneAtATime /\ RowsOK

LEMMA ArriveAlone ==
  ASSUME Serial, SerialInv, NEW r \in Requests, NEW pc \in {"count", "find"},
         NEW kind \in Kinds, Arrive(r, pc, kind)
  PROVE  OneAtATime' /\ RowsOK'
<1> DEFINE req == [pc |-> pc, kind |-> kind, todo |-> Types, sets |-> {},
                   at |-> [t \in Types |-> Now(t)]]
<1>1. /\ reqs' = [reqs EXCEPT ![r] = req] /\ reqs \in [Requests -> ReqType]
      /\ UNCHANGED <<hour, phase, due, hash, rows, jobs>>
      /\ RequestsIdle /\ JobsIdle /\ due = {}
  BY DEF Arrive, MayRequest, SerialInv, TypeInv, TablesOK
<1>2. \A q \in Requests : reqs'[q] = IF q = r THEN req ELSE reqs[q]
  BY <1>1
<1>3. \A t \in Types : Now(t)' = Now(t)
  BY <1>1 DEF Now, today
<1>4. OneAtATime'
  <2>1. \A q \in Requests : reqs[q].pc = "idle"
    BY <1>1 DEF RequestsIdle
  <2>2. req.at = [t \in Types |-> Now(t)']
    BY <1>3
  <2>3. due' = {} /\ JobsIdle'
    BY <1>1 DEF JobsIdle
  <2> HIDE DEF req
  <2>4. \A q \in Requests : reqs'[q].pc # "idle" => q = r
    BY <1>2, <2>1
  <2>5. QED
    BY <1>2, <2>1, <2>2, <2>3, <2>4 DEF OneAtATime
<1>5. RowsOK'
  <2>1. \A q \in Requests : reqs'[q].pc # "insert"
    BY <1>1, <1>2 DEF RequestsIdle
  <2>2. \A t \in Types, p \in Periods : p > Now(t)' => rows'[t][p] = <<>>
    BY <1>1, <1>3 DEF SerialInv, RowsOK
  <2>3. OneRowPerPeriod' /\ (Busy("hour")' => rows'["H"][hour'] = <<>>)
    BY <1>1 DEF SerialInv, RowsOK, OneRowPerPeriod, Busy
  <2>4. QED
    BY <2>1, <2>2, <2>3 DEF RowsOK
<1>6. QED
  BY <1>4, <1>5

(* A request that is under way stays alone.                                *)
LEMMA StaysAlone ==
  ASSUME TypeInv, OneAtATime, NEW r \in Requests, reqs[r].pc # "idle",
         NEW req, GoOn(r, req), req.pc = "idle" \/ req.at = reqs[r].at,
         UNCHANGED <<hour, due, jobs>>
  PROVE  OneAtATime'
<1>1. \A q \in Requests : reqs'[q] = IF q = r THEN req ELSE reqs[q]
  BY DEF GoOn, TypeInv, TablesOK
<1>2. \A t \in Types : Now(t)' = Now(t)
  BY DEF Now, today
<1>3. /\ due = {} /\ JobsIdle /\ reqs[r].at = [t \in Types |-> Now(t)]
      /\ \A q \in Requests \ {r} : reqs[q].pc = "idle"
  BY DEF OneAtATime
<1>4. due' = {} /\ JobsIdle'
  BY <1>3 DEF JobsIdle
<1>5. req.pc # "idle" => req.at = [t \in Types |-> Now(t)']
  BY <1>2, <1>3
<1>6. QED
  BY <1>1, <1>3, <1>4, <1>5 DEF OneAtATime

(* A row appended where there is none.                                     *)
LEMMA NewRowAlone ==
  ASSUME TypeInv, OneRowPerPeriod, NEW u \in Types, NEW q \in Periods,
         rows[u][q] = <<>>, rows' = [rows EXCEPT ![u][q] = Append(@, NoCount)]
  PROVE  /\ OneRowPerPeriod'
         /\ rows'[u][q] = <<NoCount>>
         /\ \A t \in Types, p \in Periods :
              <<t, p>> # <<u, q>> => rows'[t][p] = rows[t][p]
<1>1. rows \in [Types -> [Periods -> Seq([Kinds -> Nat])]]
  BY DEF TypeInv, TablesOK
<1>2. rows'[u][q] = <<NoCount>>
  BY <1>1
<1>3. \A t \in Types, p \in Periods : <<t, p>> # <<u, q>> => rows'[t][p] = rows[t][p]
  BY <1>1
<1>4. \A t \in Types, p \in Periods : Len(rows'[t][p]) <= 1
  BY <1>2, <1>3 DEF OneRowPerPeriod
<1>5. QED
  BY <1>2, <1>3, <1>4 DEF OneRowPerPeriod

(* Where a step takes a request.                                           *)
LEMMA CountGoesOn ==
  ASSUME TypeInv, NEW r \in Requests, NEW t \in Types, Count(r, t)
  PROVE  \E req : /\ GoOn(r, req)
                  /\ IF t = "H" THEN req.pc = "idle"
                     ELSE /\ req.pc = "count" /\ req.at = reqs[r].at
                          /\ req.todo = reqs[r].todo \ {t}
<1>1. reqs[r] \in ReqType /\ reqs[r].pc = "count" /\ NoRequest.pc = "idle"
  BY DEF TypeInv, TablesOK, Count, NoRequest
<1>2. PICK req : /\ GoOn(r, req)
                 /\ req = IF t = "H" THEN NoRequest
                          ELSE [reqs[r] EXCEPT !.todo = @ \ {t}]
  BY DEF Count
<1>3. t # "H" => /\ req.pc = reqs[r].pc /\ req.at = reqs[r].at
                 /\ req.todo = reqs[r].todo \ {t}
  BY <1>1, <1>2 DEF ReqType
<1>4. QED
  BY <1>1, <1>2, <1>3

LEMMA DoneGoesOn ==
  ASSUME TypeInv, NEW r \in Requests, NEW t \in Types, RowDone(r, t)
  PROVE  \E req : /\ GoOn(r, req) /\ req.at = reqs[r].at
                  /\ req.todo = reqs[r].todo \ {t}
                  /\ req.pc = IF t = "H" THEN "set" ELSE "find"
                  /\ req.sets = IF t = "H" THEN Fields ELSE {}
<1>1. reqs[r] \in ReqType
  BY DEF TypeInv, TablesOK
<1>2. PICK req : /\ GoOn(r, req)
                 /\ req = [reqs[r] EXCEPT !.todo = @ \ {t},
                                          !.pc   = IF t = "H" THEN "set" ELSE "find",
                                          !.sets = IF t = "H" THEN Fields ELSE {}]
  BY DEF RowDone
<1>3. /\ req.at = reqs[r].at /\ req.todo = reqs[r].todo \ {t}
      /\ req.pc = IF t = "H" THEN "set" ELSE "find"
      /\ req.sets = IF t = "H" THEN Fields ELSE {}
  BY <1>1, <1>2 DEF ReqType
<1>4. QED
  BY <1>2, <1>3

LEMMA FindGoesOn ==
  ASSUME TypeInv, NEW r \in Requests, NEW t \in Types, FindRow(r, t),
         rows[t][reqs[r].at[t]] = <<>>
  PROVE  \E req : /\ GoOn(r, req) /\ req.at = reqs[r].at
                  /\ req.todo = reqs[r].todo /\ req.pc = "insert"
<1>1. reqs[r] \in ReqType
  BY DEF TypeInv, TablesOK
<1>2. PICK req : GoOn(r, req) /\ req = [reqs[r] EXCEPT !.pc = "insert"]
  BY DEF FindRow
<1>3. req.at = reqs[r].at /\ req.todo = reqs[r].todo /\ req.pc = "insert"
  BY <1>1, <1>2 DEF ReqType
<1>4. QED
  BY <1>2, <1>3

LEMMA SetGoesOn ==
  ASSUME TypeInv, NEW r \in Requests, NEW f \in Fields, SetField(r, f)
  PROVE  \E req : /\ GoOn(r, req)
                  /\ IF reqs[r].sets = {f} THEN req.pc = "idle"
                     ELSE /\ req.pc = "set" /\ req.at = reqs[r].at
                          /\ req.sets = reqs[r].sets \ {f}
<1>1. reqs[r] \in ReqType /\ reqs[r].pc = "set" /\ NoRequest.pc = "idle"
  BY DEF TypeInv, TablesOK, SetField, NoRequest
<1>2. PICK req : /\ GoOn(r, req)
                 /\ req = IF reqs[r].sets = {f} THEN NoRequest
                          ELSE [reqs[r] EXCEPT !.sets = @ \ {f}]
  BY DEF SetField
<1>3. reqs[r].sets # {f} => /\ req.pc = reqs[r].pc /\ req.at = reqs[r].at
                            /\ req.sets = reqs[r].sets \ {f}
  BY <1>1, <1>2 DEF ReqType
<1>4. QED
  BY <1>1, <1>2, <1>3

(* What is so while a request is under way.                                *)
LEMMA Alone ==
  ASSUME TypeInv, OneAtATime, NEW r \in Requests, reqs[r].pc # "idle"
  PROVE  /\ due = {} /\ \A j \in Jobs : jobs[j].pc = "idle"
         /\ \A q \in Requests \ {r} : reqs[q].pc = "idle"
         /\ \A t \in Types : reqs[r].at[t] = Now(t) /\ Now(t) \in Periods
         /\ hour = Now("H") /\ "H" \in Types /\ "D" \in Types
<1>1. /\ due = {} /\ JobsIdle /\ reqs[r].at = [t \in Types |-> Now(t)]
      /\ \A q \in Requests \ {r} : reqs[q].pc = "idle"
  BY DEF OneAtATime
<1>2. \A t \in Types : Now(t) \in Periods
  BY NowIsPeriod DEF TypeInv, TablesOK
<1>3. QED
  BY <1>1, <1>2 DEF JobsIdle, Now, Types

(* A step of a request that touches no row.                                *)
LEMMA RowsStay ==
  ASSUME TypeInv, OneAtATime, RowsOK, NEW r \in Requests, reqs[r].pc # "idle",
         NEW req, GoOn(r, req), UNCHANGED <<hour, due, jobs, rows>>,
         \A t \in Types : req.pc = "insert" /\ t \in req.todo
           /\ (t = "H" => "D" \notin req.todo) => rows[t][Now(t)] = <<>>
  PROVE  RowsOK'
<1>1. \A q \in Requests : reqs'[q] = IF q = r THEN req ELSE reqs[q]
  BY DEF GoOn, TypeInv, TablesOK
<1>2. \A t \in Types : Now(t)' = Now(t)
  BY DEF Now, today
<1>3. OneRowPerPeriod' /\ (Busy("hour")' => rows'["H"][hour'] = <<>>)
  BY DEF RowsOK, OneRowPerPeriod, Busy
<1>4. \A t \in Types, p \in Periods : p > Now(t)' => rows'[t][p] = <<>>
  BY <1>2 DEF RowsOK
<1>5. ASSUME NEW q \in Requests, NEW t \in Types, reqs'[q].pc = "insert", NextOf(q, t)'
      PROVE  rows'[t][Now(t)'] = <<>>
  <2>1. q = r
    BY <1>1, <1>5, Alone
  <2>2. QED
    BY <1>1, <1>2, <1>5, <2>1 DEF NextOf
<1>6. QED
  BY <1>3, <1>4, <1>5 DEF RowsOK

LEMMA RequestAlone ==
  ASSUME Serial, SerialInv, NEW r \in Requests, Request(r)
  PROVE  OneAtATime' /\ RowsOK'
<1> USE DEF SerialInv
<1>1. CASE View(r) \/ Click(r)
  <2>1. PICK pc \in {"count", "find"}, kind \in Kinds : Arrive(r, pc, kind)
    BY <1>1 DEF View, Click, Kinds
  <2>2. QED
    BY <2>1, ArriveAlone
<1>2. ASSUME NEW t \in Types, Count(r, t) PROVE OneAtATime' /\ RowsOK'
  <2>1. /\ reqs[r].pc = "count" /\ UNCHANGED <<hour, phase, due, rows, jobs, events>>
    BY <1>2 DEF Count
  <2>2. PICK req : GoOn(r, req) /\ req.pc \in {"idle", "count"}
                   /\ (req.pc = "idle" \/ req.at = reqs[r].at)
    BY <1>2, CountGoesOn
  <2>3. QED
    BY <2>1, <2>2, StaysAlone, RowsStay
<1>3. ASSUME NEW t \in Types, FindRow(r, t) PROVE OneAtATime' /\ RowsOK'
  <2>1. /\ reqs[r].pc = "find" /\ NextOf(r, t) /\ reqs[r].at[t] = Now(t)
        /\ UNCHANGED <<hour, phase, due, hash, rows, jobs, events>>
    BY <1>3, Alone DEF FindRow
  <2>2. PICK req : /\ GoOn(r, req) /\ req.at = reqs[r].at
                   /\ req.pc = "insert" => rows[t][Now(t)] = <<>> /\ req.todo = reqs[r].todo
    <3>1. CASE rows[t][Now(t)] = <<>>
      BY <1>3, <2>1, <3>1, FindGoesOn
    <3>2. CASE rows[t][Now(t)] # <<>>
      <4>1. RowDone(r, t)
        BY <1>3, <2>1, <3>2 DEF FindRow
      <4>2. QED
        BY <4>1, DoneGoesOn
    <3>3. QED
      BY <3>1, <3>2
  <2>3. \A u \in Types : req.pc = "insert" /\ u \in req.todo
          /\ (u = "H" => "D" \notin req.todo) => rows[u][Now(u)] = <<>>
    BY <2>1, <2>2 DEF NextOf, Types
  <2>4. QED
    BY <2>1, <2>2, <2>3, StaysAlone, RowsStay
<1>4. ASSUME NEW t \in Types, InsertRow(r, t) PROVE OneAtATime' /\ RowsOK'
  <2>1. /\ reqs[r].pc = "insert" /\ NextOf(r, t) /\ reqs[r].at[t] = Now(t)
        /\ UNCHANGED <<hour, phase, due, hash, jobs, events>>
        /\ Now(t) \in Periods /\ due = {} /\ jobs["hour"].pc = "idle"
    BY <1>4, Alone DEF InsertRow, Jobs
  <2>2. PICK req : /\ GoOn(r, req) /\ req.at = reqs[r].at /\ req.pc \in {"set", "find"}
    <3>1. RowDone(r, t) /\ TypeInv
      BY <1>4 DEF InsertRow
    <3>2. QED
      BY <3>1, DoneGoesOn
  <2>3. /\ rows[t][Now(t)] = <<>>
        /\ rows' = [rows EXCEPT ![t][Now(t)] = Append(@, NoCount)]
    <3>1. t = "D" => reqs[r].at["D"] = Now(t)
      BY <2>1
    <3>2. t = "H" => hour = Now(t)
      BY DEF Now
    <3>3. QED
      BY <1>4, <2>1, <3>1, <3>2 DEF InsertRow, RowsOK, Types
  <2>4. \A u \in Types : Now(u)' = Now(u)
    BY <2>1 DEF Now, today
  <2>5. /\ OneRowPerPeriod'
        /\ \A u \in Types, p \in Periods : <<u, p>> # <<t, Now(t)>> => rows'[u][p] = rows[u][p]
    BY <2>1, <2>3, NewRowAlone DEF RowsOK
  <2>6. Now(t) \in Int
    BY NowIsPeriod DEF TypeInv, TablesOK
  <2>7. \A u \in Types, p \in Periods : p > Now(u)' => rows'[u][p] = <<>>
    BY <2>4, <2>5, <2>6 DEF RowsOK
  <2>8. ~ Busy("hour")'
    BY <2>1 DEF Busy
  <2>9. \A q \in Requests : reqs'[q].pc # "insert"
    BY <2>1, <2>2, Alone DEF GoOn, TypeInv, TablesOK
  <2>10. RowsOK'
    BY <2>5, <2>7, <2>8, <2>9 DEF RowsOK
  <2>11. OneAtATime'
    BY <2>1, <2>2, StaysAlone
  <2>12. QED
    BY <2>10, <2>11
<1>5. ASSUME NEW f \in Fields, SetField(r, f) PROVE OneAtATime' /\ RowsOK'
  <2>1. reqs[r].pc = "set" /\ UNCHANGED <<hour, phase, due, rows, jobs, events>>
    BY <1>5 DEF SetField
  <2>2. PICK req : GoOn(r, req) /\ req.pc \in {"idle", "set"}
                   /\ (req.pc = "idle" \/ req.at = reqs[r].at)
    BY <1>5, SetGoesOn
  <2>3. QED
    BY <2>1, <2>2, StaysAlone, RowsStay
<1>6. QED
  BY <1>1, <1>2, <1>3, <1>4, <1>5 DEF Request

(* A step taken while no request is under way.                             *)
LEMMA OthersAlone ==
  ASSUME TypeInv, RequestsIdle, UNCHANGED reqs,
         OneRowPerPeriod',
         \A t \in Types, p \in Periods : p > Now(t)' => rows'[t][p] = <<>>,
         Busy("hour")' => rows'["H"][hour'] = <<>>
  PROVE  OneAtATime' /\ RowsOK'
<1>1. \A r \in Requests : reqs'[r].pc = "idle"
  BY DEF RequestsIdle
<1>2. QED
  BY <1>1 DEF OneAtATime, RowsOK

(* UPDATE makes no row and takes none away.                                *)
LEMMA UpdateKeepsRows ==
  ASSUME TypeInv, TypeInv', NEW j \in Jobs, UpdateRows(j), NEW t \in Types, NEW p \in Periods
  PROVE  /\ DOMAIN rows'[t][p] = DOMAIN rows[t][p]
         /\ Len(rows'[t][p]) = Len(rows[t][p])
         /\ rows'[t][p] = <<>> <=> rows[t][p] = <<>>
<1>1. rows[t][p] \in Seq([Kinds -> Nat]) /\ rows'[t][p] \in Seq([Kinds -> Nat])
  BY DEF TypeInv, TablesOK
<1>2. DOMAIN rows'[t][p] = DOMAIN rows[t][p]
  BY DEF UpdateRows
<1>3. /\ Len(rows[t][p]) \in Nat /\ DOMAIN rows[t][p] = 1..Len(rows[t][p])
      /\ Len(rows'[t][p]) \in Nat /\ DOMAIN rows'[t][p] = 1..Len(rows'[t][p])
  BY <1>1
<1>4. Len(rows'[t][p]) = Len(rows[t][p])
  BY <1>2, <1>3
<1>5. QED
  BY <1>1, <1>2, <1>4, EmptySeq

LEMMA JobAlone ==
  ASSUME Serial, SerialInv, TypeInv', NEW j \in Jobs, JobStep(j)
  PROVE  OneAtATime' /\ RowsOK'
<1> USE DEF SerialInv
<1>1. /\ RequestsIdle
      /\ UNCHANGED <<hour, phase, reqs>> /\ due' \subseteq due
  <2>1. CASE ListKeys(j) \/ ReadHash(j) \/ UpdateRows(j)
    BY <2>1 DEF ListKeys, ReadHash, UpdateRows, MayRun
  <2>2. CASE Fail(j)
    <3>1. RequestsIdle
      BY <2>2 DEF Fail, OneAtATime, RequestsIdle, JobsIdle
    <3>2. QED
      BY <2>2, <3>1 DEF Fail
  <2>3. QED
    BY <2>1, <2>2 DEF JobStep
<1>2. \A t \in Types : Now(t)' = Now(t)
  BY <1>1 DEF Now, today
<1>3. \A t \in Types, p \in Periods :
        /\ Len(rows'[t][p]) = Len(rows[t][p])
        /\ rows'[t][p] = <<>> <=> rows[t][p] = <<>>
  <2>1. CASE UpdateRows(j)
    BY <2>1, UpdateKeepsRows
  <2>2. CASE ~ UpdateRows(j)
    BY <2>2 DEF JobStep, ListKeys, ReadHash, Fail
  <2>3. QED
    BY <2>1, <2>2
<1>4. Busy("hour")' => Busy("hour")
  <2>1. PICK run : RunOn(j, run) /\ (j = "hour" /\ run.pc # "idle" => Busy(j))
    <3>1. CASE ListKeys(j)
      BY <3>1 DEF ListKeys, Busy
    <3>2. CASE ~ ListKeys(j)
      BY <3>2 DEF JobStep, ReadHash, UpdateRows, Fail, Busy
    <3>3. QED
      BY <3>1, <3>2
  <2>2. QED
    BY <1>1, <2>1, RunAfter DEF Busy, Jobs
<1>5. "H" \in Types /\ hour \in Periods
  BY StatsAssumption DEF Types, TypeInv, TablesOK, Hours, Periods
<1>6. OneRowPerPeriod'
  BY <1>3 DEF RowsOK, OneRowPerPeriod
<1>7. \A t \in Types, p \in Periods : p > Now(t)' => rows'[t][p] = <<>>
  BY <1>2, <1>3 DEF RowsOK
<1>8. Busy("hour")' => rows'["H"][hour'] = <<>>
  BY <1>1, <1>3, <1>4, <1>5 DEF RowsOK
<1>9. QED
  BY <1>1, <1>6, <1>7, <1>8, OthersAlone

LEMMA OwnStepAlone ==
  ASSUME Serial, SerialInv, ResetHour \/ DeleteHash \/ InsertHour
  PROVE  OneAtATime' /\ RowsOK'
<1> USE DEF SerialInv
<1>1. /\ RequestsIdle /\ UNCHANGED <<hour, phase, due, reqs>>
      /\ \A t \in Types : Now(t)' = Now(t)
  BY DEF ResetHour, ResetField, DeleteHash, InsertHour, MayRun, Now, today
<1>2. CASE ResetHour \/ DeleteHash
  <2>1. UNCHANGED rows
    BY <1>2 DEF ResetHour, ResetField, DeleteHash
  <2>2. PICK j, run : /\ j \in Jobs /\ RunOn(j, run)
                      /\ j = "hour" => jobs[j].pc # "idle"
    BY <1>2 DEF ResetHour, ResetField, DeleteHash, Jobs
  <2>3. Busy("hour")' => Busy("hour")
    BY <1>1, <2>2, RunAfter DEF Busy, Jobs
  <2>4. OneRowPerPeriod'
    BY <2>1 DEF RowsOK, OneRowPerPeriod
  <2>5. QED
    BY <1>1, <2>1, <2>3, <2>4, OthersAlone DEF RowsOK
<1>3. CASE InsertHour
  <2>1. /\ jobs["hour"].pc = "insert" /\ RunOn("hour", NoRun) /\ NoRun.pc = "idle"
        /\ rows' = [rows EXCEPT !["H"][hour] = Append(@, NoCount)]
    BY <1>3 DEF InsertHour, NoRun
  <2>2. /\ rows["H"][hour] = <<>> /\ "hour" \notin due /\ "hour" \in Jobs
    BY <2>1 DEF RowsOK, Busy, Orderly, Jobs
  <2>3. "H" \in Types /\ hour \in Periods /\ hour = Now("H") /\ hour \in Int
    BY StatsAssumption DEF Types, TypeInv, TablesOK, Hours, Periods, Now
  <2>4. /\ OneRowPerPeriod'
        /\ \A t \in Types, p \in Periods : <<t, p>> # <<"H", hour>> => rows'[t][p] = rows[t][p]
    BY <2>1, <2>2, <2>3, NewRowAlone DEF RowsOK
  <2>5. ~ Busy("hour")'
    BY <1>1, <2>1, <2>2, RunAfter DEF Busy
  <2>6. \A t \in Types, p \in Periods : p > Now(t)' => rows'[t][p] = <<>>
    BY <1>1, <2>3, <2>4 DEF RowsOK
  <2>7. QED
    BY <1>1, <2>4, <2>5, <2>6, OthersAlone
<1>4. QED
  BY <1>2, <1>3

LEMMA WaitAlone ==
  ASSUME Serial, SerialInv, TypeInv', Wait
  PROVE  OneAtATime' /\ RowsOK'
<1> USE DEF SerialInv
<1>1. /\ RequestsIdle /\ due = {} /\ JobsIdle
      /\ UNCHANGED <<hash, rows, reqs, jobs, events>> /\ hour \in Nat
  BY StatsAssumption DEF Wait, Punctual, TypeInv, TablesOK, Hours
<1>2. hour' = hour \/ (hour' = hour + 1 /\ hour' \in Periods /\ due' = {"hour"})
  <2>1. hour' = hour \/ (hour' = hour + 1 /\ due' = {"hour"})
    BY DEF Wait
  <2>2. hour' \in Periods
    BY StatsAssumption DEF TypeInv, TablesOK, Hours, Periods
  <2>3. QED
    BY <2>1, <2>2
<1>3. \A t \in Types : Now(t)' \in Int /\ Now(t) \in Int /\ Now(t)' >= Now(t)
  <2>1. hour' \in Nat /\ today \in Nat /\ today' \in Nat
    BY <1>1, <1>2, DayOfHour DEF today
  <2>2. today' >= today
    BY <1>1, <1>2, <2>1, DayTurns DEF today
  <2>3. QED
    BY <1>1, <1>2, <2>1, <2>2 DEF Now
<1>4. OneRowPerPeriod' /\ \A t \in Types, p \in Periods : p > Now(t)' => rows'[t][p] = <<>>
  BY <1>1, <1>3 DEF RowsOK, OneRowPerPeriod, Periods
<1>5. Busy("hour")' => rows'["H"][hour'] = <<>>
  <2>1. Busy("hour")' => "hour" \in due'
    BY <1>1 DEF Busy, JobsIdle, Jobs
  <2>2. CASE hour' = hour + 1
    <3>1. hour' > Now("H") /\ "H" \in Types
      BY <1>1, <2>2 DEF Now, Types
    <3>2. QED
      BY <1>1, <1>2, <2>2, <3>1 DEF RowsOK
  <2>3. CASE hour' = hour /\ "hour" \in due'
    BY <1>1, <2>3 DEF Wait
  <2>4. QED
    BY <1>2, <2>1, <2>2, <2>3
<1>6. QED
  BY <1>1, <1>4, <1>5, OthersAlone

LEMMA SerialInvInit == Init => SerialInv
<1> SUFFICES ASSUME Init PROVE SerialInv
  OBVIOUS
<1>1. TypeInv /\ Orderly
  BY CountInvInit DEF CountInv
<1>2. OneAtATime /\ RowsOK
  BY DEF Init, OneAtATime, RowsOK, OneRowPerPeriod, Busy, Jobs, NoRun, NoRequest
<1>3. QED
  BY <1>1, <1>2 DEF SerialInv

(* Orderly alone is inductive, too: it is what CountInv says of it.        *)
LEMMA SerialInvStep ==
  ASSUME Serial, CountInv, SerialInv, [Next]_vars
  PROVE  SerialInv'
<1>1. TypeInv' /\ Orderly'
  BY CountInvStep DEF CountInv
<1>2. CASE UNCHANGED vars
  <2>1. UNCHANGED <<hour, phase, due, hash, rows, reqs, jobs, events>>
    BY <1>2 DEF vars
  <2>2. \A t : Now(t)' = Now(t)
    BY <2>1 DEF Now, today
  <2>3. OneAtATime'
    BY <2>1, <2>2 DEF SerialInv, OneAtATime, JobsIdle
  <2>4. RowsOK'
    BY <2>1, <2>2 DEF SerialInv, RowsOK, OneRowPerPeriod, Busy, NextOf
  <2>5. QED
    BY <1>1, <2>3, <2>4 DEF SerialInv
<1>3. CASE Next
  BY <1>1, <1>3, RequestAlone, JobAlone, OwnStepAlone, WaitAlone DEF Next, SerialInv
<1>4. QED
  BY <1>2, <1>3

(* When requests and jobs do not overlap, neither the look-ups of          *)
(* adFirstPV nor the unconditional insert of the hour job ever give a day  *)
(* or an hour a second row, for any number of hours and whatever fails.    *)
THEOREM OneRowOnly == Serial => (Spec => []OneRowPerPeriod)
<1> SUFFICES ASSUME Serial PROVE Spec => []OneRowPerPeriod
  OBVIOUS
<1>1. Init => CountInv /\ SerialInv
  BY CountInvInit, SerialInvInit
<1>2. (CountInv /\ SerialInv) /\ [Next]_vars => (CountInv /\ SerialInv)'
  BY CountInvStep, SerialInvStep
<1>3. CountInv /\ SerialInv => OneRowPerPeriod
  BY DEF SerialInv, RowsOK
<1>4. QED
  BY <1>1, <1>2, <1>3, PTL DEF Spec

(***************************************************************************)
(* A hash with counts has its row of the day.                              *)
(***************************************************************************)

(* The first view of a day sets the fields after it has seen to both rows. *)
ReqKeyOK(req) ==
  /\ req.pc = "count" => KeyExists
  /\ req.pc \in {"find", "insert"} =>
       ~ KeyExists /\ \A t \in Types \ req.todo : rows[t][Now(t)] # <<>>
  /\ req.pc = "set" => /\ \A t \in Types : rows[t][Now(t)] # <<>>
                       /\ \A f \in req.sets : hash[f] = Missing

KeyOK ==
  /\ KeyExists => rows["D"][Counting("D")] # <<>>
  /\ jobs["hour"].pc # "idle" => KeyExists
  /\ jobs["day"].pc \in {"read", "delete"} => KeyExists
  /\ jobs["day"].pc = "update" => ~ KeyExists /\ rows["D"][Now("D") - 1] # <<>>
  /\ \A r \in Requests : reqs[r].pc # "idle" =>
       ReqKeyOK(reqs[r]) /\ ~ (Midnight /\ phase = "turn")

DayInv == SerialInv /\ KeyOK

LEMMA CountingNow ==
  ASSUME due = {}, \A j \in Jobs : jobs[j].pc = "idle", ~ (Midnight /\ phase = "turn"),
         NEW t \in Types
  PROVE  Counting(t) = Now(t)
BY DEF Counting, Moving, Mover, Jobs

LEMMA CountingIsPeriod ==
  ASSUME TypeInv, NEW t \in Types
  PROVE  /\ Counting(t) \in Periods /\ Counting(t) \in Int
         /\ Counting(t) \in {Now(t), Now(t) - 1} /\ Now(t) \in Nat
BY NowIsPeriod DEF Counting, TypeInv, TablesOK

(* A step of a request.                                                    *)
LEMMA RequestKeeps ==
  ASSUME SerialInv, KeyOK, NEW r \in Requests, reqs[r].pc # "idle",
         NEW req, GoOn(r, req), UNCHANGED <<hour, phase, due, jobs>>,
         req.pc # "idle" => ReqKeyOK(req)',
         KeyExists' => rows'["D"][Now("D")] # <<>>
  PROVE  KeyOK'
<1>1. \A q \in Requests : reqs'[q] = IF q = r THEN req ELSE reqs[q]
  BY DEF GoOn, SerialInv, TypeInv, TablesOK
<1>2. /\ due = {} /\ \A j \in Jobs : jobs[j].pc = "idle"
      /\ \A q \in Requests \ {r} : reqs[q].pc = "idle"
      /\ ~ (Midnight /\ phase = "turn") /\ "D" \in Types
  BY Alone DEF KeyOK, SerialInv
<1>3. Counting("D")' = Now("D") /\ ~ (Midnight /\ phase = "turn")'
  <2>1. Counting("D") = Now("D")
    BY <1>2, CountingNow
  <2>2. Counting("D")' = Counting("D") /\ Midnight' = Midnight
    BY DEF Counting, Moving, Mover, Midnight, Now, today
  <2>3. QED
    BY <1>2, <2>1, <2>2
<1>4. ASSUME NEW q \in Requests, reqs'[q].pc # "idle"
      PROVE  ReqKeyOK(reqs[q])'
  <2>1. reqs'[q] = req /\ req.pc # "idle"
    BY <1>1, <1>2, <1>4
  <2>2. QED
    BY <2>1 DEF ReqKeyOK
<1>5. \A j \in Jobs : jobs'[j].pc = "idle"
  BY <1>2
<1>6. QED
  BY <1>3, <1>4, <1>5 DEF KeyOK, Jobs

LEMMA RequestKeys ==
  ASSUME Serial, QuietMidnight, ClicksFollowViews, DayInv, SerialInv',
         NEW r \in Requests, Request(r)
  PROVE  KeyOK'
<1> USE DEF DayInv
<1>0. TypeInv /\ OneAtATime /\ RowsOK /\ TypeInv' /\ hash \in [Fields -> Nat \cup {Missing}]
  BY DEF SerialInv, TypeInv, TablesOK
<1>1. CASE View(r) \/ Click(r)
  <2>1. PICK pc \in {"count", "find"}, kind \in Kinds :
          Arrive(r, pc, kind) /\ (pc = "count" <=> KeyExists)
    BY <1>1 DEF View, Click, Kinds
  <2> DEFINE req == [pc |-> pc, kind |-> kind, todo |-> Types, sets |-> {},
                     at |-> [t \in Types |-> Now(t)]]
  <2>2. /\ \A q \in Requests : reqs'[q] = IF q = r THEN req ELSE reqs[q]
        /\ UNCHANGED <<hour, phase, due, hash, rows, jobs>>
        /\ RequestsIdle /\ ~ (Midnight /\ phase = "turn")
    BY <1>0, <2>1 DEF Arrive, MayRequest, TypeInv, TablesOK
  <2>3. /\ KeyExists' <=> KeyExists
        /\ Counting("D")' = Counting("D") /\ Now("D")' = Now("D")
        /\ ~ (Midnight /\ phase = "turn")'
    BY <2>2 DEF KeyExists, Counting, Moving, Mover, Midnight, Now, today
  <2>4. ASSUME NEW q \in Requests, reqs'[q].pc # "idle"
        PROVE  ReqKeyOK(reqs[q])'
    <3>1. reqs'[q] = req
      BY <2>2, <2>4 DEF RequestsIdle
    <3>2. reqs'[q].pc = pc /\ reqs'[q].todo = Types
      BY <3>1
    <3>3. QED
      BY <2>1, <2>3, <3>2 DEF ReqKeyOK
  <2> HIDE DEF req
  <2>5. QED
    BY <2>2, <2>3, <2>4 DEF KeyOK
<1>2. ASSUME NEW t \in Types, Count(r, t) PROVE KeyOK'
  <2>1. /\ reqs[r].pc = "count" /\ UNCHANGED <<hour, phase, due, rows, jobs, events>>
    BY <1>2 DEF Count
  <2>2. PICK req : GoOn(r, req) /\ req.pc \in {"idle", "count"}
    BY <1>0, <1>2, CountGoesOn
  <2>3. KeyExists'
    <3>1. PICK k \in Kinds : k = reqs[r].kind
      BY <1>0 DEF TypeInv, TablesOK, ReqType
    <3>2. <<t, k>> \in Fields
      BY DEF Fields
    <3>3. hash'[<<t, k>>] = ReadField(<<t, k>>) + 1
      BY <1>0, <1>2, <3>1, <3>2 DEF Count
    <3>4. ReadField(<<t, k>>) \in Nat
      BY <1>0, <3>2, FieldIsNat
    <3>5. hash'[<<t, k>>] # Missing
      BY <3>3, <3>4, StatsAssumption
    <3>6. QED
      BY <3>2, <3>5 DEF KeyExists
  <2>4. rows["D"][Now("D")] # <<>>
    <3>1. KeyExists /\ ~ (Midnight /\ phase = "turn")
      BY <2>1 DEF KeyOK, ReqKeyOK
    <3>2. Counting("D") = Now("D")
      BY <1>0, <2>1, <3>1, Alone, CountingNow
    <3>3. QED
      BY <3>1, <3>2 DEF KeyOK
  <2>5. req.pc # "idle" => ReqKeyOK(req)'
    BY <2>2, <2>3 DEF ReqKeyOK
  <2>6. QED
    BY <2>1, <2>2, <2>4, <2>5, RequestKeeps
<1>3. ASSUME NEW t \in Types, FindRow(r, t) \/ InsertRow(r, t) PROVE KeyOK'
  <2>1. /\ reqs[r].pc \in {"find", "insert"} /\ NextOf(r, t)
        /\ UNCHANGED <<hour, phase, due, hash, jobs, events>>
        /\ reqs[r].at[t] = Now(t)
    BY <1>0, <1>3, Alone DEF FindRow, InsertRow
  <2>2. ~ KeyExists /\ \A u \in Types \ reqs[r].todo : rows[u][Now(u)] # <<>>
    BY <2>1 DEF KeyOK, ReqKeyOK
  <2>3. ~ KeyExists' /\ \A u \in Types : Now(u)' = Now(u)
    BY <2>1, <2>2 DEF KeyExists, Now, today
  <2>4. PICK req : /\ GoOn(r, req) /\ req.at = reqs[r].at
                   /\ \/ req.pc = "insert" /\ req.todo = reqs[r].todo /\ UNCHANGED rows
                      \/ /\ rows'[t][Now(t)] # <<>>
                         /\ \A u \in Types, p \in Periods : <<u, p>> # <<t, Now(t)>>
                                                         => rows'[u][p] = rows[u][p]
                         /\ req.pc = (IF t = "H" THEN "set" ELSE "find")
                         /\ req.todo = reqs[r].todo \ {t}
    <3>1. CASE FindRow(r, t) /\ rows[t][Now(t)] = <<>>
      BY <1>0, <2>1, <3>1, FindGoesOn DEF FindRow
    <3>2. CASE FindRow(r, t) /\ rows[t][Now(t)] # <<>>
      <4>1. RowDone(r, t) /\ UNCHANGED rows
        BY <2>1, <3>2 DEF FindRow
      <4>2. QED
        BY <1>0, <3>2, <4>1, DoneGoesOn
    <3>3. CASE InsertRow(r, t)
      <4>1. reqs[r].pc = "insert" /\ Now(t) \in Periods
        BY <1>0, <2>1, <3>3, Alone DEF InsertRow
      <4>2. rows[t][Now(t)] = <<>>
        BY <1>0, <2>1, <4>1 DEF RowsOK
      <4>3. rows' = [rows EXCEPT ![t][Now(t)] = Append(@, NoCount)]
        <5>1. t = "D" => reqs[r].at["D"] = Now(t)
          BY <2>1
        <5>2. t = "H" => hour = Now(t)
          BY DEF Now
        <5>3. QED
          BY <3>3, <5>1, <5>2 DEF InsertRow, Types
      <4>4. /\ rows'[t][Now(t)] = <<NoCount>>
            /\ \A u \in Types, p \in Periods : <<u, p>> # <<t, Now(t)>>
                                             => rows'[u][p] = rows[u][p]
        BY <1>0, <4>1, <4>2, <4>3, NewRowAlone DEF RowsOK
      <4>5. RowDone(r, t)
        BY <3>3 DEF InsertRow
      <4>6. PICK req : /\ GoOn(r, req) /\ req.at = reqs[r].at
                       /\ req.todo = reqs[r].todo \ {t}
                       /\ req.pc = IF t = "H" THEN "set" ELSE "find"
        BY <1>0, <4>5, DoneGoesOn
      <4>7. rows'[t][Now(t)] # <<>>
        BY <4>4
      <4>8. QED
        BY <4>4, <4>6, <4>7
    <3>4. QED
      BY <1>3, <3>1, <3>2, <3>3
  <2>5. \A u \in Types : Now(u) \in Periods
    BY <1>0, <2>1, Alone
  <2>6. req.pc # "idle" => ReqKeyOK(req)'
    <3>1. CASE req.pc = "insert" /\ req.todo = reqs[r].todo /\ UNCHANGED rows
      BY <2>2, <2>3, <3>1 DEF ReqKeyOK
    <3>2. CASE /\ rows'[t][Now(t)] # <<>>
               /\ \A u \in Types, p \in Periods : <<u, p>> # <<t, Now(t)>>
                                                => rows'[u][p] = rows[u][p]
               /\ req.pc = (IF t = "H" THEN "set" ELSE "find")
               /\ req.todo = reqs[r].todo \ {t}
      <4>1. \A u \in Types \ req.todo : rows'[u][Now(u)'] # <<>>
        BY <2>2, <2>3, <2>5, <3>2
      <4>2. t = "H" => \A u \in Types : rows'[u][Now(u)'] # <<>>
        BY <2>1, <3>2, <4>1 DEF NextOf, Types
      <4>3. t = "H" => \A f \in Fields : hash'[f] = Missing
        BY <2>3 DEF KeyExists
      <4>4. t = "H" => req.sets \subseteq Fields
        <5>1. reqs'[r] = req /\ reqs'[r] \in ReqType
          BY <1>0, <2>4 DEF GoOn, TypeInv, TablesOK
        <5>2. QED
          BY <5>1 DEF ReqType
      <4>5. QED
        BY <2>3, <3>2, <4>1, <4>2, <4>3, <4>4 DEF ReqKeyOK
    <3>3. QED
      BY <2>4, <3>1, <3>2
  <2>7. QED
    BY <2>1, <2>3, <2>4, <2>6, RequestKeeps
<1>4. ASSUME NEW f \in Fields, SetField(r, f) PROVE KeyOK'
  <2>1. /\ reqs[r].pc = "set" /\ UNCHANGED <<hour, phase, due, rows, jobs, events>>
        /\ hash' = [hash EXCEPT ![f] = IF f[2] = "pv" THEN 1 ELSE 0]
    BY <1>4 DEF SetField
  <2>2. /\ \A t \in Types : rows[t][Now(t)] # <<>>
        /\ \A g \in reqs[r].sets : hash[g] = Missing
    BY <2>1 DEF KeyOK, ReqKeyOK
  <2>3. PICK req : /\ GoOn(r, req)
                   /\ \/ req.pc = "idle"
                      \/ req.pc = "set" /\ req.sets = reqs[r].sets \ {f}
    BY <1>0, <1>4, SetGoesOn
  <2>4. \A t \in Types : Now(t)' = Now(t)
    BY <2>1 DEF Now, today
  <2>5. reqs[r].sets \subseteq Fields
    BY <1>0 DEF TypeInv, TablesOK, ReqType
  <2>6. req.pc # "idle" => ReqKeyOK(req)'
    BY <1>0, <2>1, <2>2, <2>3, <2>4, <2>5 DEF ReqKeyOK
  <2>7. QED
    BY <2>1, <2>2, <2>3, <2>6, RequestKeeps DEF Types
<1>5. QED
  BY <1>1, <1>2, <1>3, <1>4 DEF Request

(* The run of another job does not move the period that is counted in.     *)
LEMMA OthersCounting ==
  ASSUME TypeInv, NEW j \in Jobs, NEW run, RunOn(j, run),
         UNCHANGED <<hour, phase>>, due' \in {due, due \ {j}},
         NEW t \in Types, Mover(t) # j
  PROVE  /\ Counting(t)' = Counting(t)
         /\ \A k : Passed(t, k)' = Passed(t, k) /\ Taken(t, k)' = Taken(t, k)
<1>1. Mover(t) \in Jobs
  BY DEF Mover, Jobs
<1>2. jobs'[Mover(t)] = jobs[Mover(t)]
  BY <1>1, RunAfter
<1>3. Mover(t) \in due' <=> Mover(t) \in due
  OBVIOUS
<1>4. QED
  BY <1>2, <1>3 DEF Counting, Passed, Taken, Moving, Midnight, Now, today, Mover

(* A step of a job other than the day job.                                 *)
LEMMA HourKeeps ==
  ASSUME TypeInv, KeyOK, RequestsIdle, UNCHANGED <<hour, phase, reqs>>,
         NEW j \in {"hour", "minute"}, NEW run, RunOn(j, run),
         due' \in {due, due \ {j}}, KeyExists' <=> KeyExists,
         \A p \in Periods : rows'["D"][p] = <<>> <=> rows["D"][p] = <<>>,
         j = "hour" /\ run.pc # "idle" => KeyExists
  PROVE  KeyOK'
<1>1. "D" \in Types /\ j \in Jobs /\ Mover("D") # j
  BY DEF Types, Jobs, Mover
<1>2. Counting("D")' = Counting("D") /\ Counting("D") \in Periods
  BY <1>1, OthersCounting, CountingIsPeriod
<1>3. Now("D")' = Now("D") /\ Now("D") - 1 \in Periods
  BY <1>1, NowIsPeriod DEF TypeInv, TablesOK, Now, today
<1>4. /\ jobs'["day"] = jobs["day"]
      /\ jobs'["hour"] = IF j = "hour" THEN run ELSE jobs["hour"]
  BY <1>1, RunAfter DEF Jobs
<1>5. \A r \in Requests : reqs'[r].pc = "idle"
  BY DEF RequestsIdle
<1>6. QED
  BY <1>2, <1>3, <1>4, <1>5 DEF KeyOK

(* A step of the day job, its delete aside.                                *)
LEMMA DayKeeps ==
  ASSUME TypeInv, KeyOK, RequestsIdle, UNCHANGED <<hour, phase, reqs>>,
         NEW run, RunOn("day", run), KeyExists' <=> KeyExists,
         \A p \in Periods : rows'["D"][p] = <<>> <=> rows["D"][p] = <<>>,
         run.pc \in {"read", "delete"} => KeyExists, run.pc # "update",
         KeyExists => Counting("D")' = Counting("D")
  PROVE  KeyOK'
<1>1. "D" \in Types /\ Counting("D") \in Periods /\ "day" \in Jobs
  BY CountingIsPeriod DEF Types, Jobs
<1>2. jobs'["day"] = run /\ jobs'["hour"] = jobs["hour"]
  BY <1>1, RunAfter DEF Jobs
<1>3. \A r \in Requests : reqs'[r].pc = "idle"
  BY DEF RequestsIdle
<1>4. QED
  BY <1>1, <1>2, <1>3 DEF KeyOK

LEMMA JobKeys ==
  ASSUME Serial, DayInv, SerialInv', NEW j \in Jobs, JobStep(j)
  PROVE  KeyOK'
<1>1. /\ TypeInv /\ Orderly /\ KeyOK /\ TypeInv' /\ RequestsIdle
      /\ UNCHANGED <<hour, phase, hash, reqs>> /\ due' \in {due, due \ {j}}
  <2>1. RequestsIdle
    BY DEF JobStep, ListKeys, ReadHash, UpdateRows, Fail, MayRun, DayInv, SerialInv,
           OneAtATime, RequestsIdle, JobsIdle
  <2>2. QED
    BY <2>1 DEF JobStep, ListKeys, ReadHash, UpdateRows, Fail, DayInv, SerialInv
<1>2. KeyExists' <=> KeyExists
  BY <1>1 DEF KeyExists
<1>3. \A p \in Periods : rows'["D"][p] = <<>> <=> rows["D"][p] = <<>>
  <2>1. CASE UpdateRows(j)
    BY <1>1, <2>1, UpdateKeepsRows DEF Types
  <2>2. CASE ~ UpdateRows(j)
    BY <2>2 DEF JobStep, ListKeys, ReadHash, Fail
  <2>3. QED
    BY <2>1, <2>2
<1>4. PICK run : /\ RunOn(j, run)
                 /\ \/ run.pc = "read" /\ KeyExists /\ (j = "minute" \/ j \in due)
                    \/ run.pc = "idle" /\ (~ KeyExists \/ jobs[j].pc = "update"
                                                       \/ jobs[j].pc = "insert")
                    \/ run.pc = "resetClick" /\ j = "hour" /\ jobs[j].pc = "read"
                    \/ run.pc = "delete" /\ j = "day" /\ jobs[j].pc = "read"
                    \/ run.pc = "update" /\ j = "minute"
                    \/ run.pc = "insert" /\ j = "hour" /\ jobs[j].pc = "update"
  <2>0. NoRun.pc = "idle" /\ Started(j).pc = "read"
    BY DEF NoRun, Started
  <2>1. CASE ListKeys(j)
    BY <2>0, <2>1 DEF ListKeys, Started, PeriodsOf
  <2>2. CASE ReadHash(j)
    <3> DEFINE pc == CASE j = "hour" -> "resetClick" [] j = "day" -> "delete"
                                                     [] j = "minute" -> "update"
               read == [f \in Moves(j) \X Kinds |-> ReadField(f)]
    <3>1. RunOn(j, [pc |-> pc, ts |-> jobs[j].ts, read |-> read]) /\ jobs[j].pc = "read"
      BY <2>2 DEF ReadHash
    <3>2. \/ pc = "resetClick" /\ j = "hour"
          \/ pc = "delete" /\ j = "day"
          \/ pc = "update" /\ j = "minute"
      BY DEF Jobs
    <3> HIDE DEF pc, read
    <3>3. QED
      BY <3>1, <3>2
  <2>3. CASE UpdateRows(j)
    <3>1. [jobs[j] EXCEPT !.pc = "insert"].pc = "insert"
      BY <1>1, <2>3, RunGoesOn DEF Holding, UpdateRows
    <3>2. QED
      BY <2>0, <2>3, <3>1 DEF UpdateRows
  <2>4. CASE Fail(j)
    BY <2>0, <2>4 DEF Fail
  <2>5. QED
    BY <2>1, <2>2, <2>3, <2>4 DEF JobStep
<1>5. CASE j \in {"hour", "minute"}
  <2>1. j = "hour" /\ run.pc # "idle" => KeyExists
    BY <1>1, <1>4 DEF KeyOK
  <2>2. QED
    BY <1>1, <1>2, <1>3, <1>4, <1>5, <2>1, HourKeeps
<1>6. CASE j = "day"
  <2>1. run.pc \in {"read", "delete"} => KeyExists
    BY <1>1, <1>4, <1>6 DEF KeyOK
  <2>2. ASSUME KeyExists PROVE Counting("D")' = Counting("D")
    <3>1. run.pc \in {"read", "delete"} \/ jobs["day"].pc = "insert"
      BY <1>1, <1>4, <1>6, <2>2 DEF KeyOK
    <3>2. jobs["day"].pc # "insert"
      BY <1>1, RunFacts DEF Later, Jobs
    <3>3. Moving("D")
      BY <1>4, <1>6, <2>2, <3>1, <3>2 DEF Moving, Mover
    <3>4. Moving("D")'
      BY <1>1, <1>4, <1>6, <3>1, <3>2, RunAfter DEF Moving, Mover
    <3>5. QED
      BY <1>1, <3>3, <3>4 DEF Counting, Now, today
  <2>3. QED
    BY <1>1, <1>2, <1>3, <1>4, <1>6, <2>1, <2>2, DayKeeps
<1>7. QED
  BY <1>5, <1>6 DEF Jobs

LEMMA OwnStepKeys ==
  ASSUME Serial, DayInv, SerialInv', ResetHour \/ DeleteHash \/ InsertHour
  PROVE  KeyOK'
<1>1. /\ TypeInv /\ Orderly /\ KeyOK /\ RowsOK /\ TypeInv' /\ RequestsIdle
      /\ UNCHANGED <<hour, phase, due, reqs>> /\ "hour" \in Jobs /\ "day" \in Jobs
  BY DEF ResetHour, ResetField, DeleteHash, InsertHour, MayRun, DayInv, SerialInv, Jobs
<1>2. ASSUME NEW kind \in Kinds, NEW pc \in {"resetClick", "resetPv"}, NEW next,
             ResetField(kind, pc, next)
      PROVE  KeyOK'
  <2>1. /\ jobs["hour"].pc = pc /\ UNCHANGED rows
        /\ hash' = [hash EXCEPT ![<<"H", kind>>] = 0]
    BY <1>2 DEF ResetField
  <2>2. PICK run : RunOn("hour", run)
    BY <1>2 DEF ResetField
  <2>3. KeyExists
    BY <1>1, <2>1 DEF KeyOK
  <2>4. KeyExists'
    <3>1. <<"H", kind>> \in Fields /\ hash'[<<"H", kind>>] = 0
      BY <1>1, <2>1 DEF Fields, Types, TypeInv, TablesOK
    <3>2. QED
      BY <3>1, StatsAssumption DEF KeyExists
  <2>5. QED
    BY <1>1, <2>1, <2>2, <2>3, <2>4, HourKeeps
<1>3. CASE DeleteHash
  <2>1. /\ jobs["day"].pc = "delete" /\ UNCHANGED rows
        /\ hash' = [f \in Fields |-> Missing]
    BY <1>3 DEF DeleteHash
  <2>2. PICK run : RunOn("day", run) /\ run.pc = "update"
    <3>1. [jobs["day"] EXCEPT !.pc = "update"].pc = "update"
      BY <1>1, <2>1, RunGoesOn DEF Holding
    <3>2. QED
      BY <1>3, <3>1 DEF DeleteHash
  <2>3. ~ KeyExists'
    BY <2>1 DEF KeyExists
  <2>4. jobs["hour"].pc = "idle"
    BY <1>1, <2>1 DEF TypeInv, PhaseOK, Busy
  <2>5. jobs'["day"].pc = "update" /\ jobs'["hour"].pc = "idle"
    BY <1>1, <2>2, <2>4, RunAfter
  <2>6. rows'["D"][Now("D")' - 1] # <<>>
    <3>1. Counting("D") = Now("D") - 1
      BY <2>1 DEF Counting, Moving, Mover
    <3>2. rows["D"][Counting("D")] # <<>>
      BY <1>1, <2>1 DEF KeyOK
    <3>3. Now("D")' = Now("D")
      BY <1>1 DEF Now, today
    <3>4. QED
      BY <2>1, <3>1, <3>2, <3>3
  <2>7. \A r \in Requests : reqs'[r].pc = "idle"
    BY <1>1 DEF RequestsIdle
  <2>8. QED
    BY <2>3, <2>5, <2>6, <2>7 DEF KeyOK
<1>4. CASE InsertHour
  <2>1. /\ RunOn("hour", NoRun) /\ NoRun.pc = "idle"
        /\ rows' = [rows EXCEPT !["H"][hour] = Append(@, NoCount)] /\ UNCHANGED hash
    BY <1>4 DEF InsertHour, NoRun
  <2>2. \A p \in Periods : rows'["D"][p] = rows["D"][p]
    BY <1>1, <2>1 DEF TypeInv, TablesOK, Types
  <2>3. KeyExists' <=> KeyExists
    BY <2>1 DEF KeyExists
  <2>4. QED
    BY <1>1, <2>1, <2>2, <2>3, HourKeeps
<1>5. QED
  BY <1>2, <1>3, <1>4 DEF ResetHour, Kinds

LEMMA WaitKeys ==
  ASSUME Serial, DayInv, Wait
  PROVE  KeyOK'
<1>1. /\ TypeInv /\ KeyOK /\ RequestsIdle /\ JobsIdle
      /\ UNCHANGED <<hash, rows, reqs, jobs, events>>
  BY DEF Wait, Punctual, DayInv, SerialInv
<1>2. Counting("D")' = Counting("D") /\ (KeyExists' <=> KeyExists)
  BY <1>1, WaitKeepsPeriod DEF Types, KeyExists
<1>3. /\ jobs'["hour"].pc = "idle" /\ jobs'["day"].pc = "idle"
      /\ \A r \in Requests : reqs'[r].pc = "idle"
  BY <1>1 DEF JobsIdle, RequestsIdle, Jobs
<1>4. QED
  BY <1>1, <1>2, <1>3 DEF KeyOK

LEMMA DayInvInit == Init => DayInv
<1> SUFFICES ASSUME Init PROVE DayInv
  OBVIOUS
<1>1. SerialInv
  BY SerialInvInit
<1>2. KeyOK
  BY DEF Init, KeyOK, KeyExists, Jobs, NoRun, NoRequest
<1>3. QED
  BY <1>1, <1>2 DEF DayInv

LEMMA DayInvStep ==
  ASSUME Serial, QuietMidnight, ClicksFollowViews, CountInv, DayInv, [Next]_vars
  PROVE  DayInv'
<1>1. SerialInv'
  BY SerialInvStep DEF DayInv
<1>2. CASE UNCHANGED vars
  <2>1. UNCHANGED <<hour, phase, due, hash, rows, reqs, jobs, events>>
    BY <1>2 DEF vars
  <2>2. /\ Counting("D")' = Counting("D") /\ KeyExists' = KeyExists
        /\ Midnight' = Midnight /\ \A t : Now(t)' = Now(t)
    BY <2>1 DEF Counting, Moving, Mover, Midnight, Now, today, KeyExists
  <2>3. KeyOK'
    BY <2>1, <2>2 DEF DayInv, KeyOK, ReqKeyOK
  <2>4. QED
    BY <1>1, <2>3 DEF DayInv
<1>3. CASE Next
  BY <1>1, <1>3, RequestKeys, JobKeys, OwnStepKeys, WaitKeys DEF Next, DayInv
<1>4. QED
  BY <1>2, <1>3

(* DayAdStat2MysqlTimerTask inserts no row for the new day and its UPDATE  *)
(* changes none if there is none: as long as requests and jobs do not      *)
(* overlap, none arrives between midnight and the delete of the hash, and  *)
(* an ad is clicked only on a day it was viewed, the day the hash counts   *)
(* for has its row, whenever nothing is under way.                         *)
THEOREM DaysHaveRows ==
  Serial /\ QuietMidnight /\ ClicksFollowViews => (Spec => []DeliveredDayHasRow)
<1> SUFFICES ASSUME Serial, QuietMidnight, ClicksFollowViews
             PROVE  Spec => []DeliveredDayHasRow
  OBVIOUS
<1>1. Init => CountInv /\ DayInv
  BY CountInvInit, DayInvInit
<1>2. (CountInv /\ DayInv) /\ [Next]_vars => (CountInv /\ DayInv)'
  BY CountInvStep, DayInvStep
<1>3. DayInv => DeliveredDayHasRow
  <2>1. <<"D", "pv">> \in Fields
    BY DEF Fields, Types, Kinds
  <2>2. ReadField(<<"D", "pv">>) > 0 => KeyExists
    BY <2>1 DEF KeyExists, ReadField
  <2>3. QED
    BY <2>2 DEF DayInv, KeyOK, DeliveredDayHasRow
<1>4. QED
  BY <1>1, <1>2, <1>3, PTL DEF Spec

(***************************************************************************)
(* The ledgers.                                                            *)
(***************************************************************************)

(* What a job has read and not yet taken out of the hash is still there.   *)
ReadsOK ==
  \A j \in Jobs, t \in Types, k \in Kinds :
    jobs[j].pc \in Holding /\ t \in Moves(j) /\ ~ Passed(t, k)
      => jobs[j].read[<<t, k>>] = ReadField(<<t, k>>)

(* The rows of the period that is counted in were written by the minute    *)
(* job, if at all; those of a period to come hold nothing.                 *)
StoredOK ==
  \A t \in Types, k \in Kinds, p \in Periods :
    /\ p > Counting(t) => Stored(t, p, k) = 0
    /\ p = Counting(t) /\ ~ Passed(t, k) => Stored(t, p, k) <= ReadField(<<t, k>>)

(* The hour job has moved the counts of the last hour of a day before the  *)
(* day job deletes the hash.                                               *)
HourIsClear ==
  \/ jobs["hour"].pc = "insert"
  \/ Midnight /\ phase = "turn" /\ ~ Busy("hour")
  \/ Busy("day")

ClearOK ==
  \A k \in Kinds : Passed("H", k) \/ HourIsClear => ReadField(<<"H", k>>) = 0

(* The hour that is counted in has its row, but for the hour job's insert. *)
HourHasRow ==
  KeyExists /\ jobs["hour"].pc # "insert" => rows["H"][Counting("H")] # <<>>

(* What a period has stored depends on its rows alone.                     *)
LEMMA StoredStays ==
  ASSUME NEW t \in Types, NEW p \in Periods, rows'[t][p] = rows[t][p]
  PROVE  \A k : Stored(t, p, k)' = Stored(t, p, k)
BY DEF Stored

LEMMA MaxOfOne ==
  ASSUME NEW v \in Int
  PROVE  Max({v}) = v
<1>1. IsFiniteSet({v}) /\ {v} \subseteq Int /\ {v} # {}
  BY FS_Singleton
<1>2. Max({v}) \in {v}
  BY <1>1, MaxIsGreatest
<1>3. QED
  BY <1>2

(* Rows that are all alike.                                                *)
LEMMA StoredAlike ==
  TypeInv => \A t \in Types, p \in Periods, k \in Kinds, v \in Nat :
    rows[t][p] # <<>> /\ (\A i \in DOMAIN rows[t][p] : rows[t][p][i][k] = v)
      => Stored(t, p, k) = v
<1> SUFFICES ASSUME TypeInv, NEW t \in Types, NEW p \in Periods, NEW k \in Kinds,
                    NEW v \in Nat, rows[t][p] # <<>>,
                    \A i \in DOMAIN rows[t][p] : rows[t][p][i][k] = v
             PROVE  Stored(t, p, k) = v
  OBVIOUS
<1>1. rows[t][p] \in Seq([Kinds -> Nat])
  BY DEF TypeInv, TablesOK
<1>2. 1 \in DOMAIN rows[t][p]
  BY <1>1, EmptySeq
<1>3. {rows[t][p][i][k] : i \in DOMAIN rows[t][p]} = {v}
  BY <1>2
<1>4. QED
  BY <1>3, MaxOfOne DEF Stored

LEMMA StoredAlikeNext ==
  (TypeInv => \A t \in Types, p \in Periods, k \in Kinds, v \in Nat :
    rows[t][p] # <<>> /\ (\A i \in DOMAIN rows[t][p] : rows[t][p][i][k] = v)
      => Stored(t, p, k) = v)'
BY StoredAlike, PTL

LEMMA StoredTypes ==
  TypeInv => \A t \in Types, k \in Kinds :
    /\ StoredOf(t, k) \in [Periods -> Int]
    /\ \A p \in Periods : /\ StoredOf(t, k)[p] = Stored(t, p, k)
                          /\ Stored(t, p, k) \in Nat
<1> SUFFICES ASSUME TypeInv, NEW t \in Types, NEW k \in Kinds
             PROVE  /\ StoredOf(t, k) \in [Periods -> Int]
                    /\ \A p \in Periods : /\ StoredOf(t, k)[p] = Stored(t, p, k)
                                          /\ Stored(t, p, k) \in Nat
  OBVIOUS
<1>1. \A p \in Periods : Stored(t, p, k) \in Nat
  BY StoredIsBounded
<1>2. QED
  BY <1>1 DEF StoredOf

LEMMA StoredTypesNext ==
  (TypeInv => \A t \in Types, k \in Kinds :
    /\ StoredOf(t, k) \in [Periods -> Int]
    /\ \A p \in Periods : /\ StoredOf(t, k)[p] = Stored(t, p, k)
                          /\ Stored(t, p, k) \in Nat)'
BY StoredTypes, PTL

(* The ledger of t and k: what is stored of the closed periods, and what   *)
(* the job that moves them has in hand.                                    *)
Before(t) == {p \in Periods : p < Counting(t)}

InRows(t, k) == Sum(StoredOf(t, k), Before(t))

LEMMA BeforeFinite ==
  \A t \in Types : Before(t) \subseteq Periods /\ IsFiniteSet(Before(t))
BY PeriodsFinite, FS_Subset DEF Before

LEMMA ClosedIs ==
  TypeInv => \A t \in Types, k \in Kinds :
    Closed(t)[k] = InRows(t, k) + Taken(t, k) /\ InRows(t, k) \in Int
<1> SUFFICES ASSUME TypeInv, NEW t \in Types, NEW k \in Kinds
             PROVE  Closed(t)[k] = InRows(t, k) + Taken(t, k) /\ InRows(t, k) \in Int
  OBVIOUS
<1>1. StoredOf(t, k) \in [Periods -> Int]
  BY StoredTypes
<1>2. Total(t, k, Before(t)) = InRows(t, k) /\ InRows(t, k) \in Int
  BY <1>1, BeforeFinite, PeriodsFinite, TotalIsSum, SumType DEF InRows
<1>3. Closed(t)[k] = Total(t, k, Before(t)) + Taken(t, k)
  BY DEF Closed, Before
<1>4. QED
  BY <1>2, <1>3

LEMMA ClosedIsNext ==
  (TypeInv => \A t \in Types, k \in Kinds :
    Closed(t)[k] = InRows(t, k) + Taken(t, k) /\ InRows(t, k) \in Int)'
BY ClosedIs, PTL

(* Sums of two functions that agree.                                       *)
LEMMA SumAgree ==
  ASSUME NEW R, IsFiniteSet(R), NEW f \in [R -> Int], NEW g \in [R -> Int],
         NEW S \in SUBSET R, \A x \in S : f[x] = g[x]
  PROVE  Sum(f, S) = Sum(g, S)
<1>1. \A x \in S : f[x] <= g[x] /\ g[x] <= f[x]
  OBVIOUS
<1>2. Sum(f, S) <= Sum(g, S) /\ Sum(g, S) <= Sum(f, S)
  BY <1>1, SumMonotone
<1>3. Sum(f, S) \in Int /\ Sum(g, S) \in Int
  BY SumType
<1>4. QED
  BY <1>2, <1>3

LEMMA InRowsStay ==
  ASSUME TypeInv, TypeInv', NEW t \in Types, NEW k \in Kinds,
         Counting(t)' = Counting(t),
         \A p \in Periods : p < Counting(t) => Stored(t, p, k)' = Stored(t, p, k)
  PROVE  InRows(t, k)' = InRows(t, k)
<1>1. Before(t)' = Before(t)
  BY DEF Before
<1>2. /\ StoredOf(t, k) \in [Periods -> Int] /\ StoredOf(t, k)' \in [Periods -> Int]
      /\ \A p \in Periods : /\ StoredOf(t, k)[p] = Stored(t, p, k)
                            /\ StoredOf(t, k)'[p] = Stored(t, p, k)'
  BY StoredTypes, StoredTypesNext
<1>3. \A p \in Before(t) : StoredOf(t, k)'[p] = StoredOf(t, k)[p]
  BY <1>2 DEF Before
<1>4. Sum(StoredOf(t, k)', Before(t)) = Sum(StoredOf(t, k), Before(t))
  BY <1>2, <1>3, BeforeFinite, PeriodsFinite, SumAgree
<1>5. InRows(t, k)' = Sum(StoredOf(t, k)', Before(t)')
  BY DEF InRows, Sum, MapThenSumSet, MapThenFoldSet
<1>6. QED
  BY <1>1, <1>4, <1>5 DEF InRows

(* A period is closed: its rows come to the others.                        *)
LEMMA InRowsMoveOn ==
  ASSUME TypeInv, TypeInv', NEW t \in Types, NEW k \in Kinds,
         NEW c, c = Counting(t), Counting(t)' = c + 1,
         \A p \in Periods : p < c => Stored(t, p, k)' = Stored(t, p, k)
  PROVE  InRows(t, k)' = InRows(t, k) + Stored(t, c, k)'
<1> DEFINE f == StoredOf(t, k)
           g == StoredOf(t, k)'
<1>1. c \in Periods /\ Periods \subseteq Int
  BY CountingIsPeriod, StatsAssumption DEF Periods
<1>2. Before(t)' = Before(t) \cup {c} /\ c \notin Before(t)
  <2>1. \A p \in Periods : p < c + 1 <=> p < c \/ p = c
    BY <1>1
  <2>2. Before(t) = {p \in Periods : p < c} /\ Before(t)' = {p \in Periods : p < c + 1}
    BY DEF Before
  <2>3. Before(t)' = Before(t) \cup {c}
    BY <1>1, <2>1, <2>2
  <2>4. QED
    BY <1>1, <2>2, <2>3
<1>3. /\ f \in [Periods -> Int] /\ g \in [Periods -> Int]
      /\ \A p \in Periods : f[p] = Stored(t, p, k) /\ g[p] = Stored(t, p, k)'
  BY StoredTypes, StoredTypesNext
<1>4. \A p \in Before(t) : g[p] = f[p]
  BY <1>3 DEF Before
<1>5. g[c] = Stored(t, c, k)'
  BY <1>1, <1>3
<1>6. InRows(t, k)' = Sum(g, Before(t)')
  BY DEF InRows
<1> HIDE DEF f, g
<1>7. Sum(g, Before(t)) = Sum(f, Before(t))
  BY <1>3, <1>4, BeforeFinite, PeriodsFinite, SumAgree
<1>8. Sum(g, Before(t) \cup {c}) = Sum(g, Before(t)) + g[c]
  <2>1. Before(t) \in SUBSET Periods /\ c \in Periods \ Before(t)
    BY <1>1, <1>2, BeforeFinite
  <2>2. QED
    BY <1>3, <2>1, PeriodsFinite, SumAdd
<1>9. InRows(t, k) = Sum(f, Before(t))
  BY DEF InRows, f
<1>10. QED
  BY <1>2, <1>5, <1>6, <1>7, <1>8, <1>9

(* What a step does to one count of a ledger.                              *)
Keeps(t, k) ==
  ReadField(<<t, k>>)' = ReadField(<<t, k>>) /\ Closed(t)'[k] = Closed(t)[k]

Carries(t, k) ==
  /\ ReadField(<<t, k>>)' = 0
  /\ Closed(t)'[k] = Closed(t)[k] + ReadField(<<t, k>>)

Grows(t, k) ==
  ReadField(<<t, k>>)' = ReadField(<<t, k>>) + 1 /\ Closed(t)'[k] = Closed(t)[k]

LedgerKept(t) ==
  \/ \A k \in Kinds : Keeps(t, k) \/ Carries(t, k)
  \/ \E k \in Kinds : Grows(t, k) /\ \A l \in Kinds \ {k} : Keeps(t, l)

LEMMA KeptIsStep ==
  ASSUME NEW t \in Types, LedgerKept(t)
  PROVE  \/ \E k \in Kinds : /\ Open(t)' = [Open(t) EXCEPT ![k] = @ + 1]
                             /\ Closed(t)' = Closed(t)
         \/ \E K \in SUBSET Kinds :
              /\ Open(t)' = [k \in Kinds |-> IF k \in K THEN 0 ELSE Open(t)[k]]
              /\ Closed(t)' = [k \in Kinds |-> IF k \in K
                                               THEN Closed(t)[k] + Open(t)[k]
                                               ELSE Closed(t)[k]]
<1>1. /\ Open(t) = [k \in Kinds |-> ReadField(<<t, k>>)]
      /\ Open(t)' = [k \in Kinds |-> ReadField(<<t, k>>)']
  BY DEF Open
<1>2. /\ Closed(t) = [k \in Kinds |-> Closed(t)[k]]
      /\ Closed(t)' = [k \in Kinds |-> Closed(t)'[k]]
  BY DEF Closed
<1>3. CASE \A k \in Kinds : Keeps(t, k) \/ Carries(t, k)
  <2> DEFINE K == {k \in Kinds : Carries(t, k)}
  <2>1. Open(t)' = [k \in Kinds |-> IF k \in K THEN 0 ELSE Open(t)[k]]
    BY <1>1, <1>3 DEF Keeps, Carries
  <2>2. Closed(t)' = [k \in Kinds |-> IF k \in K THEN Closed(t)[k] + Open(t)[k]
                                                 ELSE Closed(t)[k]]
    BY <1>1, <1>2, <1>3 DEF Keeps, Carries
  <2>3. K \in SUBSET Kinds
    OBVIOUS
  <2> HIDE DEF K
  <2>4. QED
    BY <2>1, <2>2, <2>3
<1>4. ASSUME NEW k \in Kinds, Grows(t, k), \A l \in Kinds \ {k} : Keeps(t, l)
      PROVE  Open(t)' = [Open(t) EXCEPT ![k] = @ + 1] /\ Closed(t)' = Closed(t)
  <2>1. Open(t)' = [Open(t) EXCEPT ![k] = @ + 1]
    BY <1>1, <1>4 DEF Keeps, Grows
  <2>2. Closed(t)' = Closed(t)
    BY <1>2, <1>4 DEF Keeps, Grows
  <2>3. QED
    BY <2>1, <2>2
<1>5. QED
  BY <1>3, <1>4 DEF LedgerKept

LEMMA DaysStep ==
  ASSUME LedgerKept("D")
  PROVE  [Days!LedgerNext]_<<Open("D"), Closed("D")>>
BY KeptIsStep DEF Types, Days!LedgerNext, Days!Record, Days!Close

LEMMA HoursStep ==
  ASSUME LedgerKept("H")
  PROVE  [Clock!LedgerNext]_<<Open("H"), Closed("H")>>
BY KeptIsStep DEF Types, Clock!LedgerNext, Clock!Record, Clock!Close

CountsOK == ReadsOK /\ StoredOK /\ ClearOK /\ HourHasRow

(* A closed period that nothing is added to.                               *)
LEMMA ClosedStays ==
  ASSUME TypeInv, TypeInv', NEW t \in Types, NEW k \in Kinds,
         Counting(t)' = Counting(t), Taken(t, k)' = Taken(t, k),
         \A p \in Periods : p < Counting(t) => Stored(t, p, k)' = Stored(t, p, k)
  PROVE  Closed(t)'[k] = Closed(t)[k]
<1>1. InRows(t, k)' = InRows(t, k)
  BY InRowsStay
<1>2. /\ Closed(t)[k] = InRows(t, k) + Taken(t, k)
      /\ Closed(t)'[k] = InRows(t, k)' + Taken(t, k)'
  BY ClosedIs, ClosedIsNext
<1>3. QED
  BY <1>1, <1>2

(* A step of a request, when no job is under way.                          *)
LEMMA RequestCounts ==
  ASSUME TypeInv, TypeInv', CountsOK, due = {}, \A j \in Jobs : jobs[j].pc = "idle",
         ~ (Midnight /\ phase = "turn"), UNCHANGED <<hour, phase, due, jobs>>,
         \A t \in Types, p \in Periods, k \in Kinds : Stored(t, p, k)' = Stored(t, p, k),
         \/ \A f \in Fields : ReadField(f)' = ReadField(f)
         \/ \E f \in Fields : /\ ReadField(f)' = ReadField(f) + 1
                              /\ \A g \in Fields \ {f} : ReadField(g)' = ReadField(g),
         KeyExists' => rows'["H"][Now("H")] # <<>>
  PROVE  CountsOK' /\ \A t \in Types : LedgerKept(t)
<1>1. \A t \in Types : Counting(t) = Now(t) /\ Counting(t)' = Now(t)
  <2>1. \A t \in Types : Counting(t) = Now(t) /\ Counting(t)' = Counting(t)
    BY CountingNow DEF Counting, Moving, Mover, Midnight, Now, today
  <2>2. QED
    BY <2>1
<1>2. \A t \in Types, k \in Kinds : /\ ~ Passed(t, k) /\ ~ Passed(t, k)'
                                    /\ Taken(t, k) = 0 /\ Taken(t, k)' = 0
  BY DEF Passed, Taken, Mover, Jobs
<1>3. \A f \in Fields : ReadField(f) \in Nat /\ ReadField(f)' >= ReadField(f)
  BY FieldIsNat
<1>4. \A t \in Types, k \in Kinds : <<t, k>> \in Fields
  BY DEF Fields
<1>5. ReadsOK'
  <2>1. \A j \in Jobs : jobs'[j].pc \notin Holding
    BY DEF Holding
  <2>2. QED
    BY <2>1 DEF ReadsOK
<1>6. StoredOK'
  <2>1. SUFFICES ASSUME NEW t \in Types, NEW k \in Kinds, NEW p \in Periods
                 PROVE  /\ p > Now(t) => Stored(t, p, k)' = 0
                        /\ p = Now(t) => Stored(t, p, k)' <= ReadField(<<t, k>>)'
    BY <1>1 DEF StoredOK
  <2>2. /\ p > Now(t) => Stored(t, p, k) = 0
        /\ p = Now(t) => Stored(t, p, k) <= ReadField(<<t, k>>)
    BY <1>1, <1>2 DEF CountsOK, StoredOK
  <2>3. Stored(t, p, k) \in Nat /\ ReadField(<<t, k>>)' \in Nat
    BY <1>3, <1>4, StoredIsBounded
  <2>4. QED
    BY <1>3, <1>4, <2>2, <2>3
<1>7. ClearOK'
  <2>1. ~ HourIsClear'
    BY DEF HourIsClear, Busy, Midnight, Jobs
  <2>2. QED
    BY <1>2, <2>1 DEF ClearOK, Types
<1>8. HourHasRow'
  BY <1>1 DEF HourHasRow, Types
<1>9. ASSUME NEW t \in Types PROVE LedgerKept(t)
  <2>1. \A k \in Kinds : Closed(t)'[k] = Closed(t)[k]
    BY <1>1, <1>2, ClosedStays
  <2>2. CASE \A f \in Fields : ReadField(f)' = ReadField(f)
    BY <1>4, <2>1, <2>2 DEF LedgerKept, Keeps
  <2>3. ASSUME NEW f \in Fields, ReadField(f)' = ReadField(f) + 1,
               \A g \in Fields \ {f} : ReadField(g)' = ReadField(g)
        PROVE  LedgerKept(t)
    <3>1. CASE f[1] = t
      <4>1. f = <<t, f[2]>> /\ f[2] \in Kinds
        BY <3>1 DEF Fields
      <4>2. \A l \in Kinds \ {f[2]} : <<t, l>> \in Fields \ {f}
        BY <1>4, <4>1
      <4>3. Grows(t, f[2])
        BY <2>1, <2>3, <4>1 DEF Grows
      <4>4. \A l \in Kinds \ {f[2]} : Keeps(t, l)
        BY <2>1, <2>3, <4>2 DEF Keeps
      <4>5. QED
        BY <4>1, <4>3, <4>4 DEF LedgerKept
    <3>2. CASE f[1] # t
      <4>1. \A k \in Kinds : <<t, k>> \in Fields \ {f}
        BY <1>4, <3>2
      <4>2. QED
        BY <2>1, <2>3, <4>1 DEF LedgerKept, Keeps
    <3>3. QED
      BY <3>1, <3>2
  <2>4. QED
    BY <2>2, <2>3
<1>10. QED
  BY <1>5, <1>6, <1>7, <1>8, <1>9 DEF CountsOK

LedgerIInv == DayInv /\ CountsOK

LEMMA RequestLedger ==
  ASSUME Serial, QuietMidnight, ClicksFollowViews, LedgerIInv, TypeInv',
         NEW r \in Requests, Request(r)
  PROVE  CountsOK' /\ \A t \in Types : LedgerKept(t)
<1>0. /\ TypeInv /\ OneAtATime /\ RowsOK /\ KeyOK /\ CountsOK
      /\ hash \in [Fields -> Nat \cup {Missing}] /\ reqs \in [Requests -> ReqType]
  BY DEF LedgerIInv, DayInv, SerialInv, TypeInv, TablesOK
<1>1. CASE View(r) \/ Click(r)
  <2>1. PICK pc \in {"count", "find"}, kind \in Kinds : Arrive(r, pc, kind)
    BY <1>1 DEF View, Click, Kinds
  <2>2. /\ UNCHANGED <<hour, phase, due, hash, rows, jobs>> /\ due = {} /\ JobsIdle
        /\ ~ (Midnight /\ phase = "turn")
    BY <2>1 DEF Arrive, MayRequest
  <2>3. \A t \in Types, p \in Periods, k \in Kinds : Stored(t, p, k)' = Stored(t, p, k)
    BY <2>2, StoredStays
  <2>4. (\A f \in Fields : ReadField(f)' = ReadField(f)) /\ (KeyExists' <=> KeyExists)
    BY <2>2 DEF ReadField, KeyExists
  <2>5. \A j \in Jobs : jobs[j].pc = "idle"
    BY <2>2 DEF JobsIdle
  <2>6. KeyExists' => rows'["H"][Now("H")] # <<>>
    <3>1. Counting("H") = Now("H")
      BY <2>2, <2>5, CountingNow DEF Types
    <3>2. QED
      BY <1>0, <2>2, <2>4, <2>5, <3>1 DEF CountsOK, HourHasRow, Jobs
  <2>7. QED
    BY <1>0, <2>2, <2>3, <2>4, <2>5, <2>6, RequestCounts
<1>2. ASSUME reqs[r].pc # "idle" /\ UNCHANGED <<hour, phase, due, jobs>>
      PROVE  /\ due = {} /\ ~ (Midnight /\ phase = "turn")
             /\ \A j \in Jobs : jobs[j].pc = "idle"
             /\ \A t \in Types : reqs[r].at[t] = Now(t) /\ Now(t) \in Periods
             /\ ReqKeyOK(reqs[r])
  BY <1>0, <1>2, Alone DEF KeyOK
<1>3. ASSUME NEW t \in Types, Count(r, t)
      PROVE  CountsOK' /\ \A u \in Types : LedgerKept(u)
  <2>1. reqs[r].pc = "count" /\ UNCHANGED <<hour, phase, due, rows, jobs>>
    BY <1>3 DEF Count
  <2>2. \A u \in Types, p \in Periods, k \in Kinds : Stored(u, p, k)' = Stored(u, p, k)
    BY <2>1, StoredStays
  <2>3. PICK f \in Fields : f = <<t, reqs[r].kind>>
    BY <1>0 DEF ReqType, Fields
  <2>4. hash' = [hash EXCEPT ![f] = ReadField(f) + 1]
    BY <1>3, <2>3 DEF Count
  <2>5. ReadField(f)' = ReadField(f) + 1
    <3>1. ReadField(f) \in Nat
      BY <1>0, FieldIsNat
    <3>2. hash'[f] = ReadField(f) + 1 /\ hash'[f] # Missing
      BY <1>0, <2>4, <3>1, StatsAssumption
    <3>3. QED
      BY <3>2 DEF ReadField
  <2>6. \A g \in Fields \ {f} : ReadField(g)' = ReadField(g)
    BY <1>0, <2>4 DEF ReadField
  <2>7. rows["H"][Now("H")] # <<>>
    <3>1. KeyExists
      BY <1>2, <2>1 DEF ReqKeyOK
    <3>2. Counting("H") = Now("H") /\ jobs["hour"].pc = "idle"
      BY <1>2, <2>1, CountingNow DEF Types, Jobs
    <3>3. QED
      BY <1>0, <3>1, <3>2 DEF CountsOK, HourHasRow
  <2>8. QED
    BY <1>0, <1>2, <2>1, <2>2, <2>5, <2>6, <2>7, RequestCounts
<1>4. ASSUME NEW t \in Types, FindRow(r, t) \/ InsertRow(r, t)
      PROVE  CountsOK' /\ \A u \in Types : LedgerKept(u)
  <2>1. /\ reqs[r].pc \in {"find", "insert"} /\ NextOf(r, t)
        /\ UNCHANGED <<hour, phase, due, hash, jobs>>
    BY <1>4 DEF FindRow, InsertRow
  <2>2. ~ KeyExists' /\ \A f \in Fields : ReadField(f)' = ReadField(f)
    BY <1>2, <2>1 DEF ReqKeyOK, KeyExists, ReadField
  <2>3. \A u \in Types, p \in Periods, k \in Kinds : Stored(u, p, k)' = Stored(u, p, k)
    <3>1. CASE FindRow(r, t)
      BY <3>1, StoredStays DEF FindRow
    <3>2. CASE InsertRow(r, t)
      <4>1. reqs[r].pc = "insert" /\ Now(t) \in Periods /\ reqs[r].at[t] = Now(t)
        BY <1>2, <2>1, <3>2 DEF InsertRow
      <4>2. rows[t][Now(t)] = <<>>
        BY <1>0, <2>1, <4>1 DEF RowsOK
      <4>3. rows' = [rows EXCEPT ![t][Now(t)] = Append(@, NoCount)]
        <5>1. t = "D" => reqs[r].at["D"] = Now(t)
          BY <4>1
        <5>2. t = "H" => hour = Now(t)
          BY DEF Now
        <5>3. QED
          BY <3>2, <5>1, <5>2 DEF InsertRow, Types
      <4>4. /\ rows'[t][Now(t)] = <<NoCount>>
            /\ \A u \in Types, p \in Periods : <<u, p>> # <<t, Now(t)>>
                                             => rows'[u][p] = rows[u][p]
        BY <1>0, <4>1, <4>2, <4>3, NewRowAlone DEF RowsOK
      <4>5. \A k \in Kinds : Stored(t, Now(t), k) = 0
        BY <4>2 DEF Stored
      <4>6. PICK q \in Periods : q = Now(t)
        BY <4>1
      <4>7. \A k \in Kinds : Stored(t, q, k)' = 0
        <5>1. rows'[t][q] = <<NoCount>> /\ \A k \in Kinds : NoCount[k] = 0
          BY <4>4, <4>6 DEF NoCount
        <5>2. rows'[t][q] # <<>> /\ \A k \in Kinds, i \in DOMAIN rows'[t][q] :
                                      rows'[t][q][i][k] = 0
          BY <5>1
        <5>3. QED
          BY <5>2, StoredAlikeNext
      <4>8. QED
        BY <4>4, <4>5, <4>6, <4>7, StoredStays
    <3>3. QED
      BY <1>4, <3>1, <3>2
  <2>4. QED
    BY <1>0, <1>2, <2>1, <2>2, <2>3, RequestCounts
<1>5. ASSUME NEW f \in Fields, SetField(r, f)
      PROVE  CountsOK' /\ \A u \in Types : LedgerKept(u)
  <2>1. /\ reqs[r].pc = "set" /\ f \in reqs[r].sets
        /\ UNCHANGED <<hour, phase, due, rows, jobs>>
        /\ hash' = [hash EXCEPT ![f] = IF f[2] = "pv" THEN 1 ELSE 0]
    BY <1>5 DEF SetField
  <2>2. /\ \A t \in Types : rows[t][Now(t)] # <<>>
        /\ hash[f] = Missing
    BY <1>2, <2>1 DEF ReqKeyOK
  <2>3. \A u \in Types, p \in Periods, k \in Kinds : Stored(u, p, k)' = Stored(u, p, k)
    BY <2>1, StoredStays
  <2>4. \A g \in Fields \ {f} : ReadField(g)' = ReadField(g)
    BY <1>0, <2>1 DEF ReadField
  <2>5. ReadField(f) = 0 /\ ReadField(f)' = IF f[2] = "pv" THEN 1 ELSE 0
    BY <1>0, <2>1, <2>2, StatsAssumption DEF ReadField
  <2>6. "H" \in Types
    BY DEF Types
  <2>7. QED
    <3>1. CASE f[2] = "pv"
      <4>1. ReadField(f)' = ReadField(f) + 1
        BY <2>5, <3>1
      <4>2. QED
        BY <1>0, <1>2, <2>1, <2>2, <2>3, <2>4, <2>6, <4>1, RequestCounts
    <3>2. CASE f[2] # "pv"
      <4>1. \A g \in Fields : ReadField(g)' = ReadField(g)
        BY <2>4, <2>5, <3>2
      <4>2. QED
        BY <1>0, <1>2, <2>1, <2>2, <2>3, <2>6, <4>1, RequestCounts
    <3>3. QED
      BY <3>1, <3>2
<1>6. QED
  BY <1>1, <1>3, <1>4, <1>5 DEF Request

(* The jobs have their times: no two are under way.                        *)
LEMMA OneJob ==
  ASSUME TypeInv, NEW i \in Jobs, NEW j \in Jobs, Busy(i), Busy(j)
  PROVE  i = j
BY DEF TypeInv, PhaseOK, Jobs

LEMMA MoverFacts ==
  \A t \in Types, j \in Jobs :
    /\ Mover(t) \in Jobs /\ t \in Moves(Mover(t))
    /\ t \in Moves(j) => j = Mover(t) \/ j = "minute"
    /\ Mover(t) # "minute"
BY DEF Mover, Moves, Jobs, Types

(* A step that leaves the hash, the rows and the periods alone.            *)
LEMMA StillCounts ==
  ASSUME TypeInv, TypeInv', CountsOK, UNCHANGED <<hash, rows>>, ReadsOK',
         \A t \in Types : Counting(t)' = Counting(t),
         \A t \in Types, k \in Kinds : /\ Passed(t, k)' <=> Passed(t, k)
                                       /\ Taken(t, k)' = Taken(t, k),
         HourIsClear' => HourIsClear,
         jobs["hour"].pc = "insert" => jobs'["hour"].pc = "insert"
  PROVE  CountsOK' /\ \A t \in Types : LedgerKept(t)
<1>1. \A t \in Types, p \in Periods, k \in Kinds : Stored(t, p, k)' = Stored(t, p, k)
  BY StoredStays
<1>2. (\A f \in Fields : ReadField(f)' = ReadField(f)) /\ (KeyExists' <=> KeyExists)
  BY DEF ReadField, KeyExists
<1>3. \A t \in Types, k \in Kinds : <<t, k>> \in Fields
  BY DEF Fields
<1>4. StoredOK'
  BY <1>1, <1>2, <1>3 DEF CountsOK, StoredOK
<1>5. ClearOK'
  BY <1>2, <1>3 DEF CountsOK, ClearOK, Types
<1>6. HourHasRow'
  BY <1>2 DEF CountsOK, HourHasRow, Types
<1>7. \A t \in Types, k \in Kinds : Keeps(t, k)
  BY <1>1, <1>2, <1>3, ClosedStays DEF Keeps
<1>8. QED
  BY <1>4, <1>5, <1>6, <1>7 DEF CountsOK, LedgerKept

(* The job that moves a count of t is not at work on it.                   *)
LEMMA NotPassed ==
  ASSUME NEW t \in Types, jobs[Mover(t)].pc \notin {"update", "resetPv"}
  PROVE  \A k : ~ Passed(t, k) /\ Taken(t, k) = 0
BY DEF Passed, Taken

LEMMA NotPassedNext ==
  ASSUME NEW t \in Types, jobs'[Mover(t)].pc \notin {"update", "resetPv"}
  PROVE  \A k : ~ Passed(t, k)' /\ Taken(t, k)' = 0
BY DEF Passed, Taken, Mover

LEMMA WaitLedger ==
  ASSUME LedgerIInv, TypeInv', Wait
  PROVE  CountsOK' /\ \A t \in Types : LedgerKept(t)
<1>1. /\ TypeInv /\ CountsOK /\ UNCHANGED <<hash, rows, jobs>> /\ due = {}
      /\ \A j \in Jobs : jobs[j].pc = "idle"
  BY DEF Wait, Punctual, JobsIdle, LedgerIInv, DayInv, SerialInv
<1>2. \A t \in Types : /\ Counting(t)' = Counting(t)
                      /\ \A k \in Kinds : ~ Passed(t, k) /\ ~ Passed(t, k)'
  BY <1>1, WaitKeepsPeriod
<1>3. \A t \in Types, k \in Kinds : Taken(t, k) = 0 /\ Taken(t, k)' = 0
  <2>1. \A t \in Types : /\ jobs[Mover(t)].pc = "idle"
                         /\ jobs'[Mover(t)].pc = "idle"
    BY <1>1, MoverFacts DEF Jobs
  <2>2. QED
    BY <2>1, NotPassed, NotPassedNext
<1>4. ReadsOK'
  BY <1>1 DEF ReadsOK, Holding
<1>5. HourIsClear' => HourIsClear
  <2>1. ~ (phase' = "turn" /\ ~ Busy("hour")') /\ jobs'["hour"].pc # "insert"
    BY <1>1 DEF Wait, Busy, Jobs
  <2>2. Busy("day")' => phase = "turn" /\ Midnight
    BY <1>1 DEF Wait, Busy, Jobs
  <2>3. ~ Busy("hour")
    BY <1>1 DEF Busy, Jobs
  <2>4. QED
    BY <2>1, <2>2, <2>3 DEF HourIsClear
<1>6. jobs["hour"].pc = "insert" => jobs'["hour"].pc = "insert"
  BY <1>1
<1>7. QED
  BY <1>1, <1>2, <1>3, <1>4, <1>5, <1>6, StillCounts

LEMMA ReadHashLedger ==
  ASSUME LedgerIInv, TypeInv', NEW j \in Jobs, ReadHash(j)
  PROVE  CountsOK' /\ \A t \in Types : LedgerKept(t)
<1>1. /\ TypeInv /\ CountsOK /\ jobs[j].pc = "read"
      /\ UNCHANGED <<hour, phase, due, hash, rows, reqs, events>>
  BY DEF ReadHash, LedgerIInv, DayInv, SerialInv
<1>2. PICK run : /\ RunOn(j, run)
                 /\ run.read = [f \in Moves(j) \X Kinds |-> ReadField(f)]
                 /\ \/ run.pc = "resetClick" /\ j = "hour"
                    \/ run.pc = "delete" /\ j = "day"
                    \/ run.pc = "update" /\ j = "minute"
  <2> DEFINE pc == CASE j = "hour" -> "resetClick" [] j = "day" -> "delete"
                                                   [] j = "minute" -> "update"
             read == [f \in Moves(j) \X Kinds |-> ReadField(f)]
  <2>1. RunOn(j, [pc |-> pc, ts |-> jobs[j].ts, read |-> read])
    BY DEF ReadHash
  <2>2. \/ pc = "resetClick" /\ j = "hour"
        \/ pc = "delete" /\ j = "day"
        \/ pc = "update" /\ j = "minute"
    BY DEF Jobs
  <2> HIDE DEF pc, read
  <2>3. \E run : RunOn(j, run) /\ run.read = read /\ run.pc = pc
    BY <2>1
  <2>4. QED
    BY <2>2, <2>3 DEF read
<1>3. \A i \in Jobs : jobs'[i] = IF i = j THEN run ELSE jobs[i]
  BY <1>1, <1>2, RunAfter
<1>4. ASSUME NEW t \in Types
      PROVE  /\ Counting(t)' = Counting(t)
             /\ \A k \in Kinds : /\ Passed(t, k)' <=> Passed(t, k)
                                 /\ Taken(t, k)' = Taken(t, k)
  <2>1. CASE Mover(t) # j
    BY <1>1, <1>2, <2>1, OthersCounting
  <2>2. CASE Mover(t) = j
    <3>1. jobs'[j].pc \in {"resetClick", "delete"}
      BY <1>2, <1>3, <2>2, MoverFacts
    <3>2. Moving(t) /\ Moving(t)'
      BY <1>1, <2>2, <3>1 DEF Moving, Mover
    <3>3. Counting(t)' = Counting(t)
      BY <1>1, <3>2 DEF Counting, Now, today
    <3>4. QED
      BY <1>1, <2>2, <3>1, <3>3, NotPassed, NotPassedNext
  <2>3. QED
    BY <2>1, <2>2
<1>5. ReadsOK'
  <2>1. SUFFICES ASSUME NEW i \in Jobs, NEW t \in Types, NEW k \in Kinds,
                        jobs'[i].pc \in Holding, t \in Moves(i), ~ Passed(t, k)'
                 PROVE  jobs'[i].read[<<t, k>>] = ReadField(<<t, k>>)'
    BY DEF ReadsOK
  <2>2. ReadField(<<t, k>>)' = ReadField(<<t, k>>)
    BY <1>1 DEF ReadField
  <2>3. CASE i = j
    BY <1>2, <1>3, <2>1, <2>2, <2>3
  <2>4. CASE i # j
    BY <1>1, <1>3, <1>4, <2>1, <2>2, <2>4 DEF CountsOK, ReadsOK
  <2>5. QED
    BY <2>3, <2>4
<1>6. HourIsClear' => HourIsClear
  <2>1. \A i \in Jobs : Busy(i)' <=> Busy(i)
    BY <1>1, <1>2, <1>3 DEF Busy
  <2>2. jobs'["hour"].pc = "insert" => jobs["hour"].pc = "insert"
    BY <1>2, <1>3 DEF Jobs
  <2>3. QED
    BY <1>1, <2>1, <2>2 DEF HourIsClear, Midnight, Jobs
<1>7. jobs["hour"].pc = "insert" => jobs'["hour"].pc = "insert"
  BY <1>1, <1>3 DEF Jobs
<1>8. QED
  BY <1>1, <1>4, <1>5, <1>6, <1>7, StillCounts

(* A period is closed; the job that moves its counts has written them.     *)
LEMMA PeriodCloses ==
  ASSUME TypeInv, TypeInv', NEW t \in Types, NEW k \in Kinds,
         NEW c, c = Counting(t), Counting(t)' = c + 1,
         \A p \in Periods : p < c => Stored(t, p, k)' = Stored(t, p, k),
         Stored(t, c, k)' = Taken(t, k), Taken(t, k)' = 0
  PROVE  Closed(t)'[k] = Closed(t)[k]
<1>1. InRows(t, k)' = InRows(t, k) + Stored(t, c, k)'
  BY InRowsMoveOn
<1>2. /\ Closed(t)[k] = InRows(t, k) + Taken(t, k)
      /\ Closed(t)'[k] = InRows(t, k)' + Taken(t, k)' /\ InRows(t, k)' \in Int
  BY ClosedIs, ClosedIsNext
<1>3. QED
  BY <1>1, <1>2

LEMMA ListKeysLedger ==
  ASSUME LedgerIInv, TypeInv', NEW j \in Jobs, ListKeys(j)
  PROVE  CountsOK' /\ \A t \in Types : LedgerKept(t)
<1>1. /\ TypeInv /\ CountsOK /\ jobs[j].pc = "idle" /\ due' = due \ {j}
      /\ j \in due \/ j = "minute"
      /\ UNCHANGED <<hour, phase, hash, rows, reqs, events>>
  BY DEF ListKeys, LedgerIInv, DayInv, SerialInv
<1>2. PICK run : RunOn(j, run) /\ run.pc = IF KeyExists THEN "read" ELSE "idle"
  <2>1. Started(j).pc = "read" /\ NoRun.pc = "idle"
    BY DEF Started, NoRun
  <2>2. QED
    BY <2>1 DEF ListKeys, Started, PeriodsOf
<1>3. \A i \in Jobs : jobs'[i] = IF i = j THEN run ELSE jobs[i]
  BY <1>1, <1>2, RunAfter
<1>4. ASSUME NEW t \in Types
      PROVE  \A k \in Kinds : /\ Passed(t, k)' <=> Passed(t, k)
                              /\ Taken(t, k)' = Taken(t, k)
  <2>1. CASE Mover(t) # j
    BY <1>1, <1>2, <2>1, OthersCounting
  <2>2. CASE Mover(t) = j
    <3>1. jobs'[j].pc \notin {"update", "resetPv"}
      BY <1>2, <1>3
    <3>2. QED
      BY <1>1, <2>2, <3>1, NotPassed, NotPassedNext
  <2>3. QED
    BY <2>1, <2>2
<1>5. ReadsOK'
  <2>1. SUFFICES ASSUME NEW i \in Jobs, NEW t \in Types, NEW k \in Kinds,
                        jobs'[i].pc \in Holding, t \in Moves(i), ~ Passed(t, k)'
                 PROVE  jobs'[i].read[<<t, k>>] = ReadField(<<t, k>>)'
    BY DEF ReadsOK
  <2>2. i # j
    BY <1>2, <1>3, <2>1 DEF Holding
  <2>3. QED
    BY <1>1, <1>3, <1>4, <2>1, <2>2 DEF CountsOK, ReadsOK, ReadField
<1>6. CASE KeyExists
  <2>1. \A t \in Types : Counting(t)' = Counting(t)
    <3>1. SUFFICES ASSUME NEW t \in Types, Mover(t) = j
                   PROVE  Counting(t)' = Counting(t)
      BY <1>1, <1>2, OthersCounting
    <3>2. j \in due /\ jobs'[j].pc = "read"
      BY <1>1, <1>2, <1>3, <1>6, <3>1, MoverFacts
    <3>3. Moving(t) /\ Moving(t)'
      BY <3>1, <3>2 DEF Moving, Mover
    <3>4. QED
      BY <1>1, <3>3 DEF Counting, Now, today
  <2>2. HourIsClear' => HourIsClear
    <3>1. Busy("hour") => Busy("hour")'
      BY <1>1, <1>2, <1>3, <1>6 DEF Busy, Jobs
    <3>2. Busy("day")' => Busy("day")
      BY <1>1, <1>2, <1>3 DEF Busy, Jobs
    <3>3. jobs'["hour"].pc = "insert" => jobs["hour"].pc = "insert"
      BY <1>2, <1>3 DEF Jobs
    <3>4. QED
      BY <1>1, <3>1, <3>2, <3>3 DEF HourIsClear, Midnight
  <2>3. jobs["hour"].pc = "insert" => jobs'["hour"].pc = "insert"
    BY <1>1, <1>3 DEF Jobs
  <2>4. QED
    BY <1>1, <1>4, <1>5, <2>1, <2>2, <2>3, StillCounts
<1>7. CASE ~ KeyExists
  <2>1. ~ KeyExists' /\ \A f \in Fields : ReadField(f) = 0 /\ ReadField(f)' = 0
    BY <1>1, <1>7 DEF KeyExists, ReadField
  <2>2. \A t \in Types, k \in Kinds : <<t, k>> \in Fields
    BY DEF Fields
  <2>3. \A t \in Types, p \in Periods, k \in Kinds :
          Stored(t, p, k)' = Stored(t, p, k) /\ Stored(t, p, k) \in Nat
    BY <1>1, StoredStays, StoredIsBounded
  <2>4. ASSUME NEW t \in Types
        PROVE  \/ Counting(t)' = Counting(t)
               \/ /\ Counting(t)' = Counting(t) + 1
                  /\ \A k \in Kinds : ~ Passed(t, k) /\ Taken(t, k) = 0
    <3>1. CASE Mover(t) # j
      BY <1>1, <1>2, <3>1, OthersCounting
    <3>2. CASE Mover(t) = j
      <4>1. j \in due /\ j \notin due' /\ jobs'[j].pc = "idle"
        BY <1>1, <1>2, <1>3, <1>7, <3>2, MoverFacts
      <4>2. Moving(t) /\ ~ Moving(t)'
        BY <3>2, <4>1 DEF Moving, Mover
      <4>3. ~ (t = "D" /\ phase = "turn")
        BY <1>1, <3>2, <4>1 DEF TypeInv, PhaseOK, Busy, Mover
      <4>4. Counting(t) = Now(t) - 1 /\ Counting(t)' = Now(t) /\ Now(t) \in Nat
        BY <1>1, <4>2, <4>3, CountingIsPeriod DEF Counting, Now, today
      <4>5. QED
        BY <1>1, <3>2, <4>4, NotPassed
    <3>3. QED
      BY <3>1, <3>2
  <2>5. StoredOK'
    <3>1. SUFFICES ASSUME NEW t \in Types, NEW k \in Kinds, NEW p \in Periods
                   PROVE  /\ p > Counting(t)' => Stored(t, p, k)' = 0
                          /\ p = Counting(t)' /\ ~ Passed(t, k)'
                               => Stored(t, p, k)' <= ReadField(<<t, k>>)'
      BY DEF StoredOK
    <3>2. /\ p > Counting(t) => Stored(t, p, k) = 0
          /\ p = Counting(t) /\ ~ Passed(t, k) => Stored(t, p, k) <= 0
      BY <1>1, <2>1, <2>2 DEF CountsOK, StoredOK
    <3>3. Counting(t) \in Int /\ p \in Int
      BY <1>1, CountingIsPeriod, StatsAssumption DEF Periods
    <3>4. QED
      BY <1>4, <2>1, <2>2, <2>3, <2>4, <3>2, <3>3
  <2>6. ASSUME NEW t \in Types, NEW k \in Kinds PROVE Keeps(t, k)
    <3>1. CASE Counting(t)' = Counting(t)
      BY <1>1, <1>4, <2>1, <2>2, <2>3, <3>1, ClosedStays DEF Keeps
    <3>2. CASE Counting(t)' # Counting(t)
      <4>1. PICK c : c = Counting(t)
        OBVIOUS
      <4>2. /\ Counting(t)' = c + 1 /\ ~ Passed(t, k) /\ Taken(t, k) = 0
            /\ Taken(t, k)' = 0 /\ c \in Periods
        BY <1>1, <1>4, <2>4, <3>2, <4>1, CountingIsPeriod
      <4>3. Stored(t, c, k)' = 0
        <5>1. Stored(t, c, k) <= ReadField(<<t, k>>)
          BY <1>1, <4>1, <4>2 DEF CountsOK, StoredOK
        <5>2. ReadField(<<t, k>>) = 0
          BY <2>1, <2>2
        <5>3. Stored(t, c, k)' = Stored(t, c, k) /\ Stored(t, c, k) \in Nat
          BY <2>3, <4>2
        <5>4. QED
          BY <5>1, <5>2, <5>3
      <4>4. QED
        BY <1>1, <2>1, <2>2, <2>3, <4>1, <4>2, <4>3, PeriodCloses DEF Keeps
    <3>3. QED
      BY <3>1, <3>2
  <2>7. QED
    BY <1>5, <2>1, <2>2, <2>5, <2>6 DEF CountsOK, ClearOK, HourHasRow, LedgerKept, Types
<1>8. QED
  BY <1>6, <1>7

(* UPDATE writes the period it was given, and no other.                    *)
LEMMA UpdateStores ==
  ASSUME TypeInv, TypeInv', NEW j \in Jobs, UpdateRows(j),
         NEW t \in Types, NEW p \in Periods, NEW k \in Kinds
  PROVE  Stored(t, p, k)' = IF t \in Moves(j) /\ p = PeriodOf(j, t) /\ rows[t][p] # <<>>
                            THEN jobs[j].read[<<t, k>>] ELSE Stored(t, p, k)
<1>1. /\ jobs[j].ts = PeriodsOf(j) /\ jobs[j].read \in Reads(j)
  BY RunFacts DEF UpdateRows
<1>2. /\ rows'[t][p] = [i \in DOMAIN rows[t][p] |->
           IF t \in Moves(j) /\ p = jobs[j].ts[t]
           THEN [l \in Kinds |-> jobs[j].read[<<t, l>>]] ELSE rows[t][p][i]]
      /\ rows'[t][p] = <<>> <=> rows[t][p] = <<>>
      /\ DOMAIN rows'[t][p] = DOMAIN rows[t][p]
  BY UpdateKeepsRows DEF UpdateRows
<1>3. CASE t \in Moves(j) /\ p = PeriodOf(j, t) /\ rows[t][p] # <<>>
  <2>1. p = jobs[j].ts[t] /\ jobs[j].read[<<t, k>>] \in Nat
    BY <1>1, <1>3 DEF PeriodsOf, Reads
  <2>2. rows'[t][p] # <<>> /\ \A i \in DOMAIN rows'[t][p] :
                                rows'[t][p][i][k] = jobs[j].read[<<t, k>>]
    <3>1. rows'[t][p] = [i \in DOMAIN rows[t][p] |->
                           [l \in Kinds |-> jobs[j].read[<<t, l>>]]]
      BY <1>2, <1>3, <2>1
    <3>2. \A i \in DOMAIN rows'[t][p] :
            rows'[t][p][i] = [l \in Kinds |-> jobs[j].read[<<t, l>>]]
      BY <1>2, <3>1
    <3>3. \A i \in DOMAIN rows'[t][p] :
            rows'[t][p][i][k] = jobs[j].read[<<t, k>>]
      BY <3>2
    <3>4. QED
      BY <1>2, <1>3, <3>3
  <2>3. QED
    BY <1>3, <2>1, <2>2, StoredAlikeNext
<1>4. CASE rows[t][p] = <<>>
  BY <1>2, <1>4 DEF Stored
<1>5. CASE ~ (t \in Moves(j) /\ p = PeriodOf(j, t))
  <2>1. ~ (t \in Moves(j) /\ p = jobs[j].ts[t])
    BY <1>1, <1>5 DEF PeriodsOf
  <2>2. rows[t][p] \in Seq([Kinds -> Nat])
    BY DEF TypeInv, TablesOK
  <2>3. rows'[t][p] = rows[t][p]
    BY <1>2, <2>1, <2>2
  <2>4. QED
    BY <1>5, <2>3, StoredStays
<1>6. QED
  BY <1>3, <1>4, <1>5

LEMMA UpdateRowsLedger ==
  ASSUME LedgerIInv, TypeInv', NEW j \in Jobs, UpdateRows(j)
  PROVE  CountsOK' /\ \A t \in Types : LedgerKept(t)
<1>1. /\ TypeInv /\ Orderly /\ KeyOK /\ CountsOK /\ jobs[j].pc = "update"
      /\ UNCHANGED <<hour, phase, due, hash, reqs, events>> /\ j \notin due
      /\ Busy(j)
  BY DEF UpdateRows, LedgerIInv, DayInv, SerialInv, Orderly, Busy
<1>2. PICK run : RunOn(j, run) /\ run.pc = IF j = "hour" THEN "insert" ELSE "idle"
  <2>1. [jobs[j] EXCEPT !.pc = "insert"].pc = "insert" /\ NoRun.pc = "idle"
    BY <1>1, RunGoesOn DEF Holding, NoRun
  <2>2. QED
    BY <2>1 DEF UpdateRows
<1>3. \A i \in Jobs : jobs'[i] = IF i = j THEN run ELSE jobs[i]
  BY <1>1, <1>2, RunAfter
<1>4. \A i \in Jobs \ {j} : ~ Busy(i) /\ jobs[i].pc = "idle"
  BY <1>1, OneJob DEF Busy
<1>5. \A t \in Types, p \in Periods, k \in Kinds :
        Stored(t, p, k)' = IF t \in Moves(j) /\ p = PeriodOf(j, t) /\ rows[t][p] # <<>>
                           THEN jobs[j].read[<<t, k>>] ELSE Stored(t, p, k)
  BY <1>1, UpdateStores
<1>6. ReadsOK'
  <2>1. \A i \in Jobs : jobs'[i].pc \notin Holding
    BY <1>2, <1>3, <1>4 DEF Holding
  <2>2. QED
    BY <2>1 DEF ReadsOK
<1>7. (\A f \in Fields : ReadField(f)' = ReadField(f)) /\ (KeyExists' <=> KeyExists)
  BY <1>1 DEF ReadField, KeyExists
<1>8. \A t \in Types, k \in Kinds : <<t, k>> \in Fields /\ ReadField(<<t, k>>) \in Nat
  BY <1>1, FieldIsNat DEF Fields
<1>9. \A t \in Types, k \in Kinds : ~ Passed(t, k)' /\ Taken(t, k)' = 0
  <2>1. \A t \in Types : jobs'[Mover(t)].pc \notin {"update", "resetPv"}
    BY <1>2, <1>3, <1>4, MoverFacts
  <2>2. QED
    BY <2>1, NotPassedNext
<1>10. \A t \in Types, p \in Periods : rows'[t][p] = <<>> <=> rows[t][p] = <<>>
  BY <1>1, UpdateKeepsRows
(* What becomes of one count: the job writes it back, moves it, or leaves  *)
(* it alone.                                                               *)
<1>11. ASSUME NEW t \in Types, j = Mover(t)
       PROVE  /\ Counting(t)' = Counting(t) + 1 /\ PeriodOf(j, t) = Counting(t)
              /\ rows[t][Counting(t)] # <<>> /\ t \in Moves(j)
              /\ \A k \in Kinds : Passed(t, k) /\ Taken(t, k) = jobs[j].read[<<t, k>>]
  <2>1. Moving(t) /\ ~ Moving(t)'
    BY <1>1, <1>2, <1>3, <1>11 DEF Moving, Mover
  <2>2. ~ (t = "D" /\ phase = "turn")
    BY <1>1, <1>11 DEF TypeInv, PhaseOK, Mover
  <2>3. Counting(t) = Now(t) - 1 /\ Counting(t)' = Now(t) /\ Now(t) \in Nat
    BY <1>1, <2>1, <2>2, CountingIsPeriod DEF Counting, Now, today
  <2>4. rows[t][Counting(t)] # <<>>
    <3>1. CASE t = "D"
      BY <1>1, <1>11, <2>3, <3>1 DEF KeyOK, Mover
    <3>2. CASE t = "H"
      <4>1. KeyExists
        BY <1>1, <1>11, <3>2 DEF KeyOK, Mover
      <4>2. QED
        BY <1>1, <1>11, <3>2, <4>1 DEF CountsOK, HourHasRow, Mover
    <3>3. QED
      BY <3>1, <3>2 DEF Types
  <2>5. PeriodOf(j, t) = Counting(t) /\ t \in Moves(j)
    BY <1>11, <2>3, MoverFacts DEF PeriodOf
  <2>6. QED
    BY <1>1, <1>11, <2>3, <2>4, <2>5 DEF Passed, Taken
<1>12. ASSUME NEW t \in Types, j # Mover(t)
       PROVE  /\ Counting(t)' = Counting(t)
              /\ \A k \in Kinds : ~ Passed(t, k) /\ Taken(t, k) = 0
              /\ t \in Moves(j) => /\ PeriodOf(j, t) = Counting(t)
                                   /\ \A k \in Kinds : jobs[j].read[<<t, k>>]
                                                         = ReadField(<<t, k>>)
  <2>1. Counting(t)' = Counting(t)
    BY <1>1, <1>2, <1>12, OthersCounting
  <2>2. jobs[Mover(t)].pc = "idle" /\ ~ Busy(Mover(t))
    BY <1>4, <1>12, MoverFacts
  <2>3. \A k \in Kinds : ~ Passed(t, k) /\ Taken(t, k) = 0
    BY <2>2, NotPassed
  <2>4. ASSUME t \in Moves(j) PROVE PeriodOf(j, t) = Counting(t)
    <3>1. j = "minute" /\ phase = "half"
      BY <1>1, <1>12, <2>4, MoverFacts DEF TypeInv, PhaseOK
    <3>2. QED
      BY <2>2, <3>1 DEF PeriodOf, Counting, Moving, Busy
  <2>5. t \in Moves(j) => \A k \in Kinds : jobs[j].read[<<t, k>>] = ReadField(<<t, k>>)
    BY <1>1, <2>3 DEF CountsOK, ReadsOK, Holding
  <2>6. QED
    BY <2>1, <2>3, <2>4, <2>5
<1>13. StoredOK'
  <2>1. SUFFICES ASSUME NEW t \in Types, NEW k \in Kinds, NEW p \in Periods
                 PROVE  /\ p > Counting(t)' => Stored(t, p, k)' = 0
                        /\ p = Counting(t)' => Stored(t, p, k)' <= ReadField(<<t, k>>)
    BY <1>7, <1>8 DEF StoredOK
  <2>2. /\ p > Counting(t) => Stored(t, p, k) = 0
        /\ p = Counting(t) /\ ~ Passed(t, k) => Stored(t, p, k) <= ReadField(<<t, k>>)
    BY <1>1 DEF CountsOK, StoredOK
  <2>3. Counting(t) \in Int /\ p \in Int /\ ReadField(<<t, k>>) \in Nat
    BY <1>1, <1>8, CountingIsPeriod, StatsAssumption DEF Periods
  <2>4. CASE j = Mover(t)
    <3>1. Counting(t)' = Counting(t) + 1 /\ PeriodOf(j, t) = Counting(t)
      BY <1>11, <2>4
    <3>2. p > Counting(t) => Stored(t, p, k)' = 0
      BY <1>5, <2>2, <2>3, <3>1
    <3>3. QED
      BY <2>3, <3>1, <3>2
  <2>5. CASE j # Mover(t)
    <3>1. /\ Counting(t)' = Counting(t) /\ ~ Passed(t, k)
          /\ t \in Moves(j) => /\ PeriodOf(j, t) = Counting(t)
                               /\ jobs[j].read[<<t, k>>] = ReadField(<<t, k>>)
      BY <1>12, <2>5
    <3>2. QED
      BY <1>5, <2>2, <2>3, <3>1
  <2>6. QED
    BY <2>4, <2>5
<1>14. ClearOK'
  <2>1. HourIsClear' => HourIsClear \/ \A k \in Kinds : Passed("H", k)
    <3>1. CASE j = "hour"
      BY <1>1, <3>1 DEF Passed, Mover
    <3>2. CASE j # "hour"
      <4>1. /\ jobs'["hour"].pc # "insert" /\ ~ Busy("hour") /\ ~ Busy("hour")'
            /\ Busy("day")' => Busy("day")
        BY <1>1, <1>2, <1>3, <1>4, <3>2 DEF Busy, Jobs
      <4>2. QED
        BY <1>1, <4>1 DEF HourIsClear, Midnight
    <3>3. QED
      BY <3>1, <3>2
  <2>2. QED
    BY <1>1, <1>7, <1>8, <1>9, <2>1 DEF ClearOK, CountsOK, Types
<1>15. HourHasRow'
  <2>1. SUFFICES ASSUME KeyExists, j # "hour"
                 PROVE  rows'["H"][Counting("H")'] # <<>>
    BY <1>2, <1>3, <1>7 DEF HourHasRow, Jobs
  <2>2. Counting("H")' = Counting("H") /\ Counting("H") \in Periods
    BY <1>1, <1>12, <2>1, CountingIsPeriod DEF Mover, Types
  <2>3. jobs["hour"].pc = "idle"
    BY <1>4, <2>1 DEF Jobs
  <2>4. QED
    BY <1>1, <1>10, <2>1, <2>2, <2>3 DEF CountsOK, HourHasRow, Types
<1>16. ASSUME NEW t \in Types, NEW k \in Kinds PROVE Keeps(t, k)
  <2>1. \A p \in Periods : p < Counting(t) => Stored(t, p, k)' = Stored(t, p, k)
    <3>1. t \in Moves(j) => PeriodOf(j, t) = Counting(t)
      BY <1>11, <1>12
    <3>2. Counting(t) \in Int /\ \A p \in Periods : p \in Int
      BY <1>1, CountingIsPeriod, StatsAssumption DEF Periods
    <3>3. \A p \in Periods : p < Counting(t) => p # Counting(t)
      BY <3>2
    <3>4. QED
      BY <1>5, <3>1, <3>3
  <2>2. PICK c \in Periods : c = Counting(t)
    BY <1>1, CountingIsPeriod
  <2>3. CASE j = Mover(t)
    <3>1. /\ Counting(t)' = c + 1 /\ PeriodOf(j, t) = c /\ rows[t][c] # <<>>
          /\ t \in Moves(j) /\ Taken(t, k) = jobs[j].read[<<t, k>>]
      BY <1>11, <2>2, <2>3
    <3>2. Stored(t, c, k)' = Taken(t, k)
      BY <1>5, <3>1
    <3>3. Closed(t)'[k] = Closed(t)[k]
      BY <1>1, <1>9, <2>1, <2>2, <3>1, <3>2, PeriodCloses
    <3>4. QED
      BY <1>7, <1>8, <3>3 DEF Keeps
  <2>4. CASE j # Mover(t)
    <3>1. Closed(t)'[k] = Closed(t)[k]
      BY <1>1, <1>9, <1>12, <2>1, <2>4, ClosedStays
    <3>2. QED
      BY <1>7, <1>8, <3>1 DEF Keeps
  <2>5. QED
    BY <2>3, <2>4
<1>17. QED
  BY <1>6, <1>13, <1>14, <1>15, <1>16 DEF CountsOK, LedgerKept

(* The reset of a count of the hour carries it from the hash into the      *)
(* hands of the job.                                                       *)
LEMMA ResetFieldLedger ==
  ASSUME LedgerIInv, TypeInv', NEW kind \in Kinds, NEW pc, NEW next,
         \/ kind = "click" /\ pc = "resetClick" /\ next = "resetPv"
         \/ kind = "pv" /\ pc = "resetPv" /\ next = "update",
         ResetField(kind, pc, next)
  PROVE  CountsOK' /\ \A t \in Types : LedgerKept(t)
<1>1. /\ TypeInv /\ Orderly /\ KeyOK /\ CountsOK /\ jobs["hour"].pc = pc
      /\ UNCHANGED <<hour, phase, due, rows, reqs, events>> /\ "hour" \in Jobs
      /\ Busy("hour") /\ hash \in [Fields -> Nat \cup {Missing}]
      /\ hash' = [hash EXCEPT ![<<"H", kind>>] = 0]
  BY DEF ResetField, LedgerIInv, DayInv, SerialInv, Busy, Jobs, TypeInv, TablesOK
<1>2. PICK run : /\ RunOn("hour", run) /\ run.pc = next
                 /\ run.read = jobs["hour"].read
  <2>1. jobs["hour"].pc \in Holding
    BY <1>1 DEF Holding
  <2>2. PICK run : /\ run = [jobs["hour"] EXCEPT !.pc = next]
                   /\ run.pc = next /\ run.ts = jobs["hour"].ts
                   /\ run.read = jobs["hour"].read
    BY <1>1, <2>1, RunGoesOn
  <2>3. QED
    BY <2>2 DEF ResetField
<1>3. \A i \in Jobs : jobs'[i] = IF i = "hour" THEN run ELSE jobs[i]
  BY <1>1, <1>2, RunAfter
<1>4. \A i \in Jobs \ {"hour"} : ~ Busy(i) /\ jobs[i].pc = "idle"
  BY <1>1, OneJob DEF Busy
<1>5. /\ \A t \in Types, k \in Kinds : <<t, k>> \in Fields
      /\ \A f \in Fields : /\ ReadField(f) \in Nat
                           /\ ReadField(f)' = IF f = <<"H", kind>> THEN 0
                                              ELSE ReadField(f)
  <2>1. <<"H", kind>> \in Fields
    BY DEF Fields, Types
  <2>2. \A f \in Fields : hash'[f] = IF f = <<"H", kind>> THEN 0 ELSE hash[f]
    BY <1>1, <2>1
  <2>3. QED
    BY <1>1, <2>2, FieldIsNat DEF Fields, ReadField
<1>6. \A t \in Types, p \in Periods, k \in Kinds : Stored(t, p, k)' = Stored(t, p, k)
  BY <1>1, StoredStays
<1>7. \A t \in Types : Counting(t)' = Counting(t)
  <2>1. Counting("H")' = Counting("H")
    <3>1. Moving("H") /\ Moving("H")'
      BY <1>1, <1>2, <1>3 DEF Moving, Mover
    <3>2. QED
      BY <1>1, <3>1 DEF Counting, Now
  <2>2. Counting("D")' = Counting("D")
    BY <1>1, <1>2, OthersCounting DEF Mover, Types
  <2>3. QED
    BY <2>1, <2>2 DEF Types
<1>8. \A k \in Kinds :
        /\ ~ Passed("D", k) /\ ~ Passed("D", k)'
        /\ Taken("D", k) = 0 /\ Taken("D", k)' = 0
  <2>1. jobs["day"].pc = "idle" /\ jobs'["day"].pc = "idle"
    BY <1>3, <1>4 DEF Jobs
  <2>2. QED
    BY <2>1 DEF Passed, Taken, Mover
<1>9. /\ ~ Passed("H", kind) /\ Passed("H", kind)' /\ Taken("H", kind) = 0
      /\ Taken("H", kind)' = ReadField(<<"H", kind>>)
      /\ \A k \in Kinds \ {kind} : /\ Passed("H", k)' <=> Passed("H", k)
                                   /\ Taken("H", k)' = Taken("H", k)
  <2>1. jobs'["hour"].pc = next /\ jobs'["hour"].read = jobs["hour"].read
    BY <1>1, <1>2, <1>3
  <2>2. ~ Passed("H", kind) /\ Taken("H", kind) = 0
    BY <1>1 DEF Passed, Taken, Mover
  <2>3. jobs["hour"].read[<<"H", kind>>] = ReadField(<<"H", kind>>)
    BY <1>1, <2>2 DEF CountsOK, ReadsOK, Holding, Moves, Types
  <2>4. Passed("H", kind)' /\ Taken("H", kind)' = jobs'["hour"].read[<<"H", kind>>]
    BY <2>1 DEF Passed, Taken, Mover
  <2>5. \A k \in Kinds \ {kind} : /\ Passed("H", k)' <=> Passed("H", k)
                                  /\ Taken("H", k)' = Taken("H", k)
    BY <1>1, <2>1 DEF Passed, Taken, Mover, Kinds
  <2>6. QED
    BY <2>1, <2>2, <2>3, <2>4, <2>5
<1>10. ReadsOK'
  <2>1. SUFFICES ASSUME NEW i \in Jobs, NEW t \in Types, NEW k \in Kinds,
                        jobs'[i].pc \in Holding, t \in Moves(i), ~ Passed(t, k)'
                 PROVE  jobs'[i].read[<<t, k>>] = ReadField(<<t, k>>)'
    BY DEF ReadsOK
  <2>2. i = "hour" /\ t = "H"
    BY <1>3, <1>4, <2>1 DEF Holding, Moves
  <2>3. k # kind /\ ~ Passed(t, k)
    BY <1>9, <2>1, <2>2
  <2>4. ReadField(<<t, k>>)' = ReadField(<<t, k>>)
    BY <1>5, <2>2, <2>3
  <2>5. jobs["hour"].read[<<t, k>>] = ReadField(<<t, k>>)
    BY <1>1, <2>1, <2>2, <2>3 DEF CountsOK, ReadsOK, Holding
  <2>6. QED
    BY <1>1, <1>2, <1>3, <2>2, <2>4, <2>5
<1>11. StoredOK'
  <2>1. SUFFICES ASSUME NEW t \in Types, NEW k \in Kinds, NEW p \in Periods
                 PROVE  /\ p > Counting(t) => Stored(t, p, k) = 0
                        /\ p = Counting(t) /\ ~ Passed(t, k)'
                             => Stored(t, p, k) <= ReadField(<<t, k>>)'
    BY <1>6, <1>7 DEF StoredOK
  <2>2. /\ p > Counting(t) => Stored(t, p, k) = 0
        /\ p = Counting(t) /\ ~ Passed(t, k) => Stored(t, p, k) <= ReadField(<<t, k>>)
    BY <1>1 DEF CountsOK, StoredOK
  <2>3. ~ Passed(t, k)' => ~ Passed(t, k) /\ ReadField(<<t, k>>)' = ReadField(<<t, k>>)
    BY <1>5, <1>8, <1>9 DEF Types
  <2>4. QED
    BY <2>2, <2>3
<1>12. ClearOK'
  <2>1. ~ HourIsClear'
    BY <1>1, <1>2, <1>3, <1>4 DEF HourIsClear, Busy, Jobs
  <2>2. QED
    BY <1>1, <1>5, <1>9, <2>1 DEF CountsOK, ClearOK, Types
<1>13. HourHasRow'
  <2>1. KeyExists /\ jobs["hour"].pc # "insert"
    BY <1>1 DEF KeyOK
  <2>2. QED
    BY <1>1, <1>7, <2>1 DEF CountsOK, HourHasRow, Types
<1>14. \A k \in Kinds : Keeps("D", k)
  <2>1. \A k \in Kinds : Closed("D")'[k] = Closed("D")[k]
    BY <1>1, <1>6, <1>7, <1>8, ClosedStays DEF Types
  <2>2. QED
    BY <1>5, <2>1 DEF Keeps, Types
<1>15. \A k \in Kinds \ {kind} : Keeps("H", k)
  <2>1. \A k \in Kinds \ {kind} : Closed("H")'[k] = Closed("H")[k]
    BY <1>1, <1>6, <1>7, <1>9, ClosedStays DEF Types
  <2>2. QED
    BY <1>5, <2>1 DEF Keeps, Types
<1>16. Carries("H", kind)
  <2>1. InRows("H", kind)' = InRows("H", kind)
    BY <1>1, <1>6, <1>7, InRowsStay DEF Types
  <2>2. /\ Closed("H")[kind] = InRows("H", kind) + Taken("H", kind)
        /\ Closed("H")'[kind] = InRows("H", kind)' + Taken("H", kind)'
        /\ InRows("H", kind) \in Int
    BY <1>1, ClosedIs, ClosedIsNext DEF Types
  <2>3. <<"H", kind>> \in Fields
    BY <1>5 DEF Types
  <2>4. QED
    BY <1>5, <1>9, <2>1, <2>2, <2>3 DEF Carries
<1>17. QED
  BY <1>10, <1>11, <1>12, <1>13, <1>14, <1>15, <1>16 DEF CountsOK, LedgerKept, Types

(* The delete of the hash carries the counts of the day; those of the hour *)
(* have been moved before.                                                 *)
LEMMA DeleteHashLedger ==
  ASSUME LedgerIInv, TypeInv', DeleteHash
  PROVE  CountsOK' /\ \A t \in Types : LedgerKept(t)
<1>1. /\ TypeInv /\ Orderly /\ CountsOK /\ jobs["day"].pc = "delete"
      /\ UNCHANGED <<hour, phase, due, rows, reqs, events>> /\ "day" \in Jobs
      /\ Busy("day") /\ hash' = [f \in Fields |-> Missing]
  BY DEF DeleteHash, LedgerIInv, DayInv, SerialInv, Busy, Jobs
<1>2. PICK run : /\ RunOn("day", run) /\ run.pc = "update"
                 /\ run.read = jobs["day"].read
  <2>1. jobs["day"].pc \in Holding
    BY <1>1 DEF Holding
  <2>2. PICK run : /\ run = [jobs["day"] EXCEPT !.pc = "update"]
                   /\ run.pc = "update" /\ run.ts = jobs["day"].ts
                   /\ run.read = jobs["day"].read
    BY <1>1, <2>1, RunGoesOn
  <2>3. QED
    BY <2>2 DEF DeleteHash
<1>3. \A i \in Jobs : jobs'[i] = IF i = "day" THEN run ELSE jobs[i]
  BY <1>1, <1>2, RunAfter
<1>4. \A i \in Jobs \ {"day"} : ~ Busy(i) /\ jobs[i].pc = "idle"
  BY <1>1, OneJob DEF Busy
<1>5. /\ ~ KeyExists' /\ \A f \in Fields : ReadField(f)' = 0
      /\ \A t \in Types, k \in Kinds : <<t, k>> \in Fields
  BY <1>1 DEF ReadField, KeyExists, Fields
<1>6. \A t \in Types, p \in Periods, k \in Kinds : Stored(t, p, k)' = Stored(t, p, k)
  BY <1>1, StoredStays
<1>7. \A t \in Types : Counting(t)' = Counting(t)
  <2>1. Counting("D")' = Counting("D")
    <3>1. Moving("D") /\ Moving("D")'
      BY <1>1, <1>2, <1>3 DEF Moving, Mover
    <3>2. QED
      BY <1>1, <3>1 DEF Counting, Now, today
  <2>2. Counting("H")' = Counting("H")
    BY <1>1, <1>2, OthersCounting DEF Mover, Types
  <2>3. QED
    BY <2>1, <2>2 DEF Types
<1>8. \A k \in Kinds :
        /\ ~ Passed("H", k) /\ Taken("H", k) = 0 /\ Taken("H", k)' = 0
        /\ ReadField(<<"H", k>>) = 0
  <2>1. jobs["hour"].pc = "idle" /\ jobs'["hour"].pc = "idle"
    BY <1>3, <1>4 DEF Jobs
  <2>2. HourIsClear
    BY <1>1 DEF HourIsClear
  <2>3. QED
    BY <1>1, <2>1, <2>2 DEF Passed, Taken, Mover, CountsOK, ClearOK
<1>9. \A k \in Kinds :
        /\ ~ Passed("D", k) /\ Passed("D", k)' /\ Taken("D", k) = 0
        /\ Taken("D", k)' = ReadField(<<"D", k>>)
  <2>1. jobs'["day"].pc = "update" /\ jobs'["day"].read = jobs["day"].read
    BY <1>1, <1>2, <1>3
  <2>2. \A k \in Kinds : ~ Passed("D", k) /\ Taken("D", k) = 0
    BY <1>1 DEF Passed, Taken, Mover
  <2>3. \A k \in Kinds : jobs["day"].read[<<"D", k>>] = ReadField(<<"D", k>>)
    BY <1>1, <2>2 DEF CountsOK, ReadsOK, Holding, Moves, Types
  <2>4. QED
    BY <2>1, <2>2, <2>3 DEF Passed, Taken, Mover
<1>10. ReadsOK'
  <2>1. SUFFICES ASSUME NEW i \in Jobs, NEW t \in Types, NEW k \in Kinds,
                        jobs'[i].pc \in Holding, t \in Moves(i), ~ Passed(t, k)'
                 PROVE  FALSE
    BY DEF ReadsOK
  <2>2. i = "day" /\ t = "D"
    <3>1. i = "day"
      BY <1>3, <1>4, <2>1 DEF Holding
    <3>2. QED
      BY <2>1, <3>1 DEF Moves
  <2>3. QED
    BY <1>9, <2>1, <2>2
<1>11. StoredOK'
  <2>1. SUFFICES ASSUME NEW t \in Types, NEW k \in Kinds, NEW p \in Periods
                 PROVE  /\ p > Counting(t) => Stored(t, p, k) = 0
                        /\ p = Counting(t) /\ ~ Passed(t, k)'
                             => Stored(t, p, k) <= ReadField(<<t, k>>)'
    BY <1>6, <1>7 DEF StoredOK
  <2>2. /\ p > Counting(t) => Stored(t, p, k) = 0
        /\ p = Counting(t) /\ ~ Passed(t, k) => Stored(t, p, k) <= ReadField(<<t, k>>)
    BY <1>1 DEF CountsOK, StoredOK
  <2>3. ~ Passed(t, k)' => ~ Passed(t, k) /\ ReadField(<<t, k>>)' = ReadField(<<t, k>>)
    BY <1>5, <1>8, <1>9 DEF Types
  <2>4. QED
    BY <2>2, <2>3
<1>12. ClearOK' /\ HourHasRow'
  BY <1>5 DEF ClearOK, HourHasRow, Types
<1>13. \A k \in Kinds : Keeps("H", k)
  <2>1. \A k \in Kinds : Closed("H")'[k] = Closed("H")[k]
    BY <1>1, <1>6, <1>7, <1>8, ClosedStays DEF Types
  <2>2. QED
    BY <1>5, <1>8, <2>1 DEF Keeps, Types
<1>14. ASSUME NEW k \in Kinds PROVE Carries("D", k)
  <2>1. InRows("D", k)' = InRows("D", k)
    BY <1>1, <1>6, <1>7, InRowsStay DEF Types
  <2>2. /\ Closed("D")[k] = InRows("D", k) + Taken("D", k)
        /\ Closed("D")'[k] = InRows("D", k)' + Taken("D", k)'
        /\ InRows("D", k) \in Int
    BY <1>1, ClosedIs, ClosedIsNext DEF Types
  <2>3. <<"D", k>> \in Fields
    BY <1>5 DEF Types
  <2>4. QED
    BY <1>5, <1>9, <2>1, <2>2, <2>3 DEF Carries
<1>15. QED
  BY <1>10, <1>11, <1>12, <1>13, <1>14 DEF CountsOK, LedgerKept, Types

LEMMA InsertHourLedger ==
  ASSUME LedgerIInv, TypeInv', InsertHour
  PROVE  CountsOK' /\ \A t \in Types : LedgerKept(t)
<1>1. /\ TypeInv /\ Orderly /\ CountsOK /\ RowsOK /\ jobs["hour"].pc = "insert"
      /\ UNCHANGED <<hour, phase, due, hash, reqs, events>> /\ "hour" \in Jobs
      /\ Busy("hour") /\ RunOn("hour", NoRun) /\ NoRun.pc = "idle"
      /\ rows' = [rows EXCEPT !["H"][hour] = Append(@, NoCount)]
      /\ "hour" \notin due /\ hour \in Periods /\ hour = Now("H") /\ "H" \in Types
  <2>1. /\ TypeInv /\ Orderly /\ CountsOK /\ RowsOK
    BY DEF LedgerIInv, DayInv, SerialInv
  <2>2. /\ jobs["hour"].pc = "insert"
        /\ UNCHANGED <<hour, phase, due, hash, reqs, events>>
        /\ RunOn("hour", NoRun)
        /\ rows' = [rows EXCEPT !["H"][hour] = Append(@, NoCount)]
    BY DEF InsertHour
  <2>3. "hour" \in Jobs /\ "H" \in Types /\ hour = Now("H") /\ NoRun.pc = "idle"
    BY DEF Jobs, Types, Now, NoRun
  <2>4. hour \in Periods
    BY <2>1, StatsAssumption DEF TypeInv, TablesOK, Hours, Periods
  <2>5. Busy("hour") /\ "hour" \notin due
    BY <2>1, <2>2, <2>3 DEF Busy, Orderly
  <2>6. QED
    BY <2>1, <2>2, <2>3, <2>4, <2>5
<1>2. \A i \in Jobs : jobs'[i] = IF i = "hour" THEN NoRun ELSE jobs[i]
  BY <1>1, RunAfter
<1>3. \A i \in Jobs \ {"hour"} : ~ Busy(i) /\ jobs[i].pc = "idle"
  BY <1>1, OneJob DEF Busy
<1>4. /\ rows["H"][hour] = <<>> /\ rows'["H"][hour] = <<NoCount>>
      /\ \A t \in Types, p \in Periods : <<t, p>> # <<"H", hour>>
                                       => rows'[t][p] = rows[t][p]
  <2>1. rows["H"][hour] = <<>>
    BY <1>1 DEF RowsOK
  <2>2. QED
    BY <1>1, <2>1, NewRowAlone DEF RowsOK
<1>5. \A t \in Types, p \in Periods, k \in Kinds : Stored(t, p, k)' = Stored(t, p, k)
  <2>1. \A k \in Kinds : Stored("H", hour, k) = 0
    BY <1>4 DEF Stored
  <2>2. PICK q \in Periods : q = hour
    BY <1>1
  <2>3. \A k \in Kinds : Stored("H", q, k)' = 0
    <3>1. PICK t \in Types : t = "H"
      BY <1>1
    <3>2. rows'[t][q] = <<NoCount>> /\ \A k \in Kinds : NoCount[k] = 0
      BY <1>4, <2>2, <3>1 DEF NoCount
    <3>3. rows'[t][q] # <<>> /\ \A k \in Kinds, i \in DOMAIN rows'[t][q] :
                                  rows'[t][q][i][k] = 0
      BY <3>2
    <3>4. \A k \in Kinds : Stored(t, q, k)' = 0
      BY <3>3, StoredAlikeNext
    <3>5. QED
      BY <3>1, <3>4
  <2>4. QED
    BY <1>4, <2>1, <2>2, <2>3, StoredStays
<1>6. \A t \in Types : Counting(t)' = Counting(t)
  <2>1. Counting("H")' = Counting("H") /\ Counting("H") = hour
    <3>1. ~ Moving("H") /\ ~ Moving("H")'
      BY <1>1, <1>2 DEF Moving, Mover
    <3>2. QED
      BY <1>1, <3>1 DEF Counting, Now
  <2>2. Counting("D")' = Counting("D")
    BY <1>1, OthersCounting DEF Mover, Types
  <2>3. QED
    BY <2>1, <2>2 DEF Types
<1>7. \A t \in Types, k \in Kinds : /\ ~ Passed(t, k) /\ ~ Passed(t, k)'
                                    /\ Taken(t, k) = 0 /\ Taken(t, k)' = 0
  <2>1. \A t \in Types : /\ jobs[Mover(t)].pc \notin {"update", "resetPv"}
                         /\ jobs'[Mover(t)].pc \notin {"update", "resetPv"}
    BY <1>1, <1>2, <1>3, MoverFacts
  <2>2. QED
    BY <2>1, NotPassed, NotPassedNext
<1>8. /\ \A f \in Fields : ReadField(f)' = ReadField(f)
      /\ \A t \in Types, k \in Kinds : <<t, k>> \in Fields
  BY <1>1 DEF ReadField, Fields
<1>9. ReadsOK'
  <2>1. \A i \in Jobs : jobs'[i].pc \notin Holding
    BY <1>1, <1>2, <1>3 DEF Holding
  <2>2. QED
    BY <2>1 DEF ReadsOK
<1>10. StoredOK'
  <2>1. StoredOK
    BY <1>1 DEF CountsOK
  <2>2. ASSUME NEW t \in Types, NEW k \in Kinds, NEW p \in Periods
        PROVE  /\ p > Counting(t) => Stored(t, p, k) = 0
               /\ p = Counting(t) => Stored(t, p, k) <= ReadField(<<t, k>>)
    BY <1>7, <2>1 DEF StoredOK
  <2>3. ASSUME NEW t \in Types, NEW k \in Kinds, NEW p \in Periods
        PROVE  /\ (p > Counting(t) => Stored(t, p, k) = 0)'
               /\ (p = Counting(t) => Stored(t, p, k) <= ReadField(<<t, k>>))'
    <3>1. Stored(t, p, k)' = Stored(t, p, k) /\ Counting(t)' = Counting(t)
      BY <1>5, <1>6
    <3>2. ReadField(<<t, k>>)' = ReadField(<<t, k>>)
      BY <1>8
    <3>3. QED
      BY <2>2, <3>1, <3>2
  <2>4. QED
    BY <2>3 DEF StoredOK
<1>11. ClearOK'
  <2>1. HourIsClear
    BY <1>1 DEF HourIsClear
  <2>2. QED
    BY <1>1, <1>8, <2>1 DEF CountsOK, ClearOK
<1>12. HourHasRow'
  <2>1. Counting("H")' = hour
    <3>1. ~ Moving("H")'
      BY <1>1, <1>2 DEF Moving, Mover
    <3>2. QED
      BY <1>1, <3>1 DEF Counting, Now
  <2>2. QED
    BY <1>4, <2>1 DEF HourHasRow
<1>13. \A t \in Types, k \in Kinds : Keeps(t, k)
  BY <1>1, <1>5, <1>6, <1>7, <1>8, ClosedStays DEF Keeps
<1>14. QED
  BY <1>9, <1>10, <1>11, <1>12, <1>13 DEF CountsOK, LedgerKept

LEMMA LedgerIInvInit == Init => LedgerIInv /\ Days!LedgerInit /\ Clock!LedgerInit
<1> SUFFICES ASSUME Init PROVE LedgerIInv /\ Days!LedgerInit /\ Clock!LedgerInit
  OBVIOUS
<1>1. DayInv /\ TypeInv
  BY DayInvInit DEF DayInv, SerialInv
<1>2. /\ \A t \in Types, p \in Periods, k \in Kinds : Stored(t, p, k) = 0
      /\ \A f \in Fields : ReadField(f) = 0
      /\ ~ KeyExists /\ \A j \in Jobs : jobs[j].pc = "idle"
      /\ \A t \in Types, k \in Kinds : <<t, k>> \in Fields
  BY DEF Init, Stored, ReadField, KeyExists, NoRun, Fields
<1>3. CountsOK
  <2>1. ReadsOK
    BY <1>2 DEF ReadsOK, Holding
  <2>2. StoredOK
    BY <1>2 DEF StoredOK
  <2>3. ClearOK /\ HourHasRow
    BY <1>2 DEF ClearOK, HourHasRow, Types
  <2>4. QED
    BY <2>1, <2>2, <2>3 DEF CountsOK
<1>4. ASSUME NEW t \in Types, NEW k \in Kinds
      PROVE  Open(t)[k] = 0 /\ Closed(t)[k] = 0
  <2>1. InRows(t, k) = 0
    <3>1. StoredOf(t, k) \in [Periods -> Int] /\ \A p \in Before(t) : StoredOf(t, k)[p] = 0
      BY <1>1, <1>2, StoredTypes DEF Before
    <3>2. QED
      BY <3>1, BeforeFinite, PeriodsFinite, SumZero DEF InRows
  <2>2. Taken(t, k) = 0
    <3>1. jobs[Mover(t)].pc = "idle"
      BY <1>2 DEF Mover, Jobs
    <3>2. QED
      BY <3>1, NotPassed
  <2>3. Closed(t)[k] = 0
    BY <1>1, <2>1, <2>2, ClosedIs
  <2>4. QED
    BY <1>2, <2>3 DEF Open
<1>5. \A t \in Types : /\ Open(t) = [k \in Kinds |-> 0]
                       /\ Closed(t) = [k \in Kinds |-> 0]
  <2>1. \A t \in Types : /\ Open(t) = [k \in Kinds |-> Open(t)[k]]
                         /\ Closed(t) = [k \in Kinds |-> Closed(t)[k]]
    BY DEF Open, Closed
  <2>2. QED
    BY <1>4, <2>1
<1>6. QED
  BY <1>1, <1>3, <1>5 DEF LedgerIInv, Days!LedgerInit, Clock!LedgerInit, Types

LEMMA LedgerIInvStep ==
  ASSUME Serial, QuietMidnight, ClicksFollowViews, ~ DatabaseFails,
         CountInv, LedgerIInv, [Next]_vars
  PROVE  LedgerIInv' /\ \A t \in Types : LedgerKept(t)
<1>1. DayInv' /\ TypeInv'
  BY DayInvStep DEF LedgerIInv, DayInv, SerialInv
<1>2. CASE UNCHANGED vars
  <2>1. UNCHANGED <<hour, phase, due, hash, rows, reqs, jobs, events>>
    BY <1>2 DEF vars
  <2>2. TypeInv /\ CountsOK
    BY DEF LedgerIInv, DayInv, SerialInv
  <2>3. /\ \A t \in Types : Counting(t)' = Counting(t)
        /\ \A t \in Types, k \in Kinds : /\ Passed(t, k)' <=> Passed(t, k)
                                         /\ Taken(t, k)' = Taken(t, k)
        /\ HourIsClear' => HourIsClear
    BY <2>1 DEF Counting, Moving, Mover, Midnight, Now, today, Passed, Taken,
       HourIsClear, Busy
  <2>4. ReadsOK'
    BY <2>1, <2>2, <2>3 DEF CountsOK, ReadsOK, ReadField
  <2>5. jobs["hour"].pc = "insert" => jobs'["hour"].pc = "insert"
    BY <2>1
  <2>6. QED
    BY <1>1, <2>1, <2>2, <2>3, <2>4, <2>5, StillCounts DEF LedgerIInv
<1>3. CASE Next
  <2>1. CASE \E r \in Requests : Request(r)
    BY <1>1, <2>1, RequestLedger DEF LedgerIInv
  <2>2. ASSUME NEW j \in Jobs, JobStep(j)
        PROVE  CountsOK' /\ \A t \in Types : LedgerKept(t)
    BY <1>1, <2>2, ListKeysLedger, ReadHashLedger, UpdateRowsLedger DEF JobStep, Fail
  <2>3. CASE ResetHour
    BY <1>1, <2>3, ResetFieldLedger DEF ResetHour, Kinds, LedgerIInv
  <2>4. CASE DeleteHash \/ InsertHour \/ Wait
    BY <1>1, <2>4, DeleteHashLedger, InsertHourLedger, WaitLedger DEF LedgerIInv
  <2>5. QED
    BY <1>1, <1>3, <2>1, <2>2, <2>3, <2>4 DEF Next, LedgerIInv
<1>4. QED
  BY <1>2, <1>3

(* Without overlaps, and as long as no job fails at the database, every    *)
(* view and every click ckserver counts reaches the rows of the days once, *)
(* and whole: the hash, the hands of DayAdStat2MysqlTimerTask and the rows *)
(* of ad_stat_info implement the ledger, for any number of days and hours. *)
THEOREM DaysImplementLedger ==
  Serial /\ QuietMidnight /\ ClicksFollowViews /\ ~ DatabaseFails
    => (Spec => DaysKeepTheLedger)
<1> SUFFICES ASSUME Serial, QuietMidnight, ClicksFollowViews, ~ DatabaseFails
             PROVE  Spec => DaysKeepTheLedger
  OBVIOUS
<1>1. Init => CountInv /\ LedgerIInv /\ Days!LedgerInit
  BY CountInvInit, LedgerIInvInit
<1>2. (CountInv /\ LedgerIInv) /\ [Next]_vars =>
        (CountInv /\ LedgerIInv)' /\ [Days!LedgerNext]_<<Open("D"), Closed("D")>>
  BY CountInvStep, LedgerIInvStep, DaysStep DEF Types
<1>3. QED
  BY <1>1, <1>2, PTL DEF Spec, DaysKeepTheLedger, Days!LedgerSpec

(* The same of the hours: what HourAdStat2MysqlTimerTask takes out of the  *)
(* hash field by field, updates and inserts, with the rows the first view  *)
(* of a day inserts and the day job's delete of the whole hash.            *)
THEOREM HoursImplementLedger ==
  Serial /\ QuietMidnight /\ ClicksFollowViews /\ ~ DatabaseFails
    => (Spec => HoursKeepTheLedger)
<1> SUFFICES ASSUME Serial, QuietMidnight, ClicksFollowViews, ~ DatabaseFails
             PROVE  Spec => HoursKeepTheLedger
  OBVIOUS
<1>1. Init => CountInv /\ LedgerIInv /\ Clock!LedgerInit
  BY CountInvInit, LedgerIInvInit
<1>2. (CountInv /\ LedgerIInv) /\ [Next]_vars =>
        (CountInv /\ LedgerIInv)' /\ [Clock!LedgerNext]_<<Open("H"), Closed("H")>>
  BY CountInvStep, LedgerIInvStep, HoursStep DEF Types
<1>3. QED
  BY <1>1, <1>2, PTL DEF Spec, HoursKeepTheLedger, Clock!LedgerSpec
=============================================================================
