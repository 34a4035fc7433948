------------------------------ MODULE AdReview ------------------------------
(***************************************************************************)
(* The life of an ad between its advertiser (admanager), its reviewers and *)
(* the administrators (vfoxServer) and the nightly job that ends it.       *)
(*                                                                         *)
(* The three programs share the tables ad_instance, ad_check_process and   *)
(* ad_check_config of one database.  No request runs in a transaction (the *)
(* services are outside the Spring context that declares the transaction   *)
(* manager), so a request is a sequence of steps, one per database call,   *)
(* and loc[h] holds what the request h carries from one step to the next.  *)
(***************************************************************************)
EXTENDS AdStatus, MaterialChange, FiniteSets

CONSTANTS
  Ads,        \* the ads
  Users,      \* the entries the reviewer table ever has
  Contents,   \* what an ad may show, see MaterialChange
  Requests,   \* the requests the servers can be working on at a time
  MaxRows,    \* bound: ids given to the rows of ad_check_process
  MaxSubmits, \* bound: submissions for review
  NoRow,      \* the absence of a row
  Unread,     \* a status not read yet
  Ops,        \* the operations the users of this instance perform
  Serial      \* TRUE: each request starts from a fresh page, and alone

Operations == {"single", "batch", "submit", "edit", "delete", "add", "remove",
               "toggle", "abandon", "timer", "crash"}

ASSUME ConstantsAssumption ==
  /\ MaxRows \in Nat
  /\ MaxSubmits \in Nat
  /\ Ops \subseteq Operations
  /\ Serial \in BOOLEAN
  /\ Unread \notin Status

RowIds == 1..MaxRows

Row == [ad: Ads, user: Users, check: Check, on: Contents]

ASSUME NoRowAssumption == NoRow \notin Row

VARIABLES
  sts,      \* ad_instance.ad_toufang_sts
  live,     \* ad_instance.sts = 'A'
  expired,  \* ad_instance.end_time has passed
  content,  \* what ad_material_link or ad_ext_link holds for the ad
  config,   \* ad_check_config: is the entry still to come, active, removed
  rows,     \* ad_check_process by id; "on" is the content at the last vote
  used,     \* its last auto-increment id
  submits,  \* submissions so far, for the bound
  loc,      \* the requests being worked on
  ending,   \* the ads the nightly job has selected and not yet ended
  listed,   \* history: statuses an administrator's page may still show
  consent   \* history: the most approval the rows of the ad ever had

vars == <<sts, live, expired, content, config, rows, used, submits, loc,
          ending, listed, consent>>

(***************************************************************************)
(* What a request carries.                                                 *)
(***************************************************************************)
Idle == [pc |-> "idle"]

ReviewLoc == [pc: {"readAd", "writeVote", "writeRead", "readRows",
                   "writeVerdict", "nextRow"},
              row: RowIds, ad: Ads, vote: Vote, mem: Status \cup {Unread},
              left: Nat, rest: SUBSET RowIds, batch: BOOLEAN]
SubmitLoc == [pc: {"submit"}, ad: Ads, todo: SUBSET Users]
EditLoc   == [pc: {"editAd", "editContent", "editRead", "editRows",
                   "editReset"},
              ad: Ads, new: Contents, late: BOOLEAN, changed: BOOLEAN]
DeleteLoc == [pc: {"delFind", "delRows"}, ad: Ads]
RemoveLoc == [pc: {"rmFind", "rmRows"}, user: Users]

Loc == {Idle} \cup ReviewLoc \cup SubmitLoc \cup EditLoc \cup DeleteLoc
         \cup RemoveLoc

(* The part of the statuses whose display offers an administrator a switch *)
(* or an abandon link.                                                     *)
Switchable == {Serving, Paused}
Abandonable == {Serving, Paused, Rejected}

TypeOK ==
  /\ sts \in [Ads -> Status]
  /\ live \in [Ads -> BOOLEAN]
  /\ expired \in [Ads -> BOOLEAN]
  /\ content \in [Ads -> Contents]
  /\ config \in [Users -> {"new", "active", "removed"}]
  /\ rows \in [RowIds -> Row \cup {NoRow}]
  /\ used \in 0..MaxRows
  /\ submits \in Nat
  /\ loc \in [Requests -> Loc]
  /\ ending \in SUBSET Ads
  /\ listed \in [Ads -> SUBSET Abandonable]
  /\ consent \in [Ads -> {"none", "some", "all"}]

(***************************************************************************)
(* The queries.                                                            *)
(***************************************************************************)
Reviewers == {u \in Users : config[u] = "active"}

(* The rows of ad_check_process for an ad, and for a reviewer.             *)
RowsOf(a) == {r \in RowIds : rows[r] # NoRow /\ rows[r].ad = a}
RowsBy(u) == {r \in RowIds : rows[r] # NoRow /\ rows[r].user = u}

NotApproved(a) == {r \in RowsOf(a) : rows[r].check # Approved}

AllApproved(a) == RowsOf(a) # {} /\ NotApproved(a) = {}

(* The first row at which the loop over the rows of an ad breaks.  The     *)
(* rows come in the order of their ids, the primary key.                   *)
FirstNotApproved(a) ==
  CHOOSE r \in NotApproved(a) : \A s \in NotApproved(a) : r <= s

(* Mutant: one approval is enough.                                         *)
VerdictEarly(a, mem) ==
  IF RowsOf(a) \ NotApproved(a) # {} THEN Serving ELSE mem

(* Mutant: the status of a fully approved ad is left as it was read.       *)
VerdictKept(a, mem) ==
  IF NotApproved(a) # {}
  THEN IF rows[FirstNotApproved(a)].check = Refused THEN Rejected ELSE Pending
  ELSE mem

(* The status the loop leaves in memory, where mem was read before it.     *)
Verdict(a, mem) ==
  IF NotApproved(a) # {}
  THEN IF rows[FirstNotApproved(a)].check = Refused THEN Rejected ELSE Pending
  ELSE IF RowsOf(a) # {} THEN Serving ELSE mem

(* The approved rows the loop passes before it breaks.                     *)
ApprovedPrefix(a) ==
  {r \in RowsOf(a) : \A s \in NotApproved(a) : r < s}

(* Single review: the verdict is written once, after the loop.             *)
SingleWrites(a, mem) == [value |-> Verdict(a, mem), times |-> 1]

(* Mutant: the write of the batch stands before the breaks.                *)
BatchWritesAlways(a, mem) ==
  [value |-> Serving, times |-> Cardinality(RowsOf(a))]

(* Batch review: the write stands inside the loop, behind the breaks, so   *)
(* it is made once for every approved row before the first other one.      *)
BatchWrites(a, mem) ==
  [value |-> Serving, times |-> Cardinality(ApprovedPrefix(a))]

(***************************************************************************)
(* Starting a request.  In a serial instance the page it was made from is  *)
(* fresh, and every other request is over.                                 *)
(***************************************************************************)
AllIdle == (\A h \in Requests : loc[h] = Idle) /\ ending = {}

Alone(fresh) == Serial => AllIdle /\ fresh

Start(h, op, record) ==
  /\ op \in Ops
  /\ loc[h] = Idle
  /\ loc' = [loc EXCEPT ![h] = record]

Goto(h, record) == loc' = [loc EXCEPT ![h] = record]

Done(h) == Goto(h, Idle)

At(h, label) == loc[h].pc = label

(***************************************************************************)
(* A review: the vote v on the row r, from the page of one ad or from the  *)
(* page of several.  The page lists ads that are not past their review,    *)
(* and one row for an ad.  The first query of the request reads its row;   *)
(* a row that is gone makes the request fail there.                        *)
(***************************************************************************)
Reviewable(a) == sts[a] \notin {Serving, Paused, Ended, Rejected, Abandoned}

ReviewRecord(r, v, rest, batch) ==
  [pc |-> "readAd", row |-> r, ad |-> rows[r].ad, vote |-> v, mem |-> Unread,
   left |-> 0, rest |-> rest, batch |-> batch]

SingleReview(h, r, v) ==
  /\ rows[r] # NoRow
  /\ Alone(Reviewable(rows[r].ad))
  /\ Start(h, "single", ReviewRecord(r, v, {}, FALSE))
  /\ UNCHANGED <<sts, live, expired, content, config, rows, used, submits,
                 ending>>

BatchReview(h, S, v) ==
  /\ \A r \in S : rows[r] # NoRow
  /\ \A r, s \in S : r # s => rows[r].ad # rows[s].ad
  /\ Alone(\A r \in S : Reviewable(rows[r].ad))
  /\ \E r \in S : Start(h, "batch", ReviewRecord(r, v, S \ {r}, TRUE))
  /\ UNCHANGED <<sts, live, expired, content, config, rows, used, submits,
                 ending>>

(* Mutant: an approval does not read the ad.                               *)
ReadAdSkipped(h) ==
  /\ At(h, "readAd")
  /\ Goto(h, [loc[h] EXCEPT !.pc = "writeVote",
                            !.mem = IF loc[h].vote = Refused
                                    THEN Rejected ELSE @])
  /\ UNCHANGED <<sts, live, expired, content, config, rows, used, submits,
                 ending>>

(* The ad is read; a refusal is noted in the copy of the ad.               *)
ReadAd(h) ==
  /\ At(h, "readAd")
  /\ Goto(h, [loc[h] EXCEPT !.pc = "writeVote",
                            !.mem = IF loc[h].vote = Refused
                                    THEN Rejected ELSE sts[loc[h].ad]])
  /\ UNCHANGED <<sts, live, expired, content, config, rows, used, submits,
                 ending>>

(* The vote is stored, if the row still exists.                            *)
WriteVote(h) ==
  LET r == loc[h].row IN
  /\ At(h, "writeVote")
  /\ rows' = IF rows[r] = NoRow THEN rows
             ELSE [rows EXCEPT ![r] = [ad    |-> rows[r].ad,
                                       user  |-> rows[r].user,
                                       check |-> loc[h].vote,
                                       on    |-> content[rows[r].ad]]]
  /\ Goto(h, [loc[h] EXCEPT !.pc = "writeRead"])
  /\ UNCHANGED <<sts, live, expired, content, config, used, submits, ending>>

(* The copy of the ad is stored, before the other votes are looked at.     *)
WriteRead(h) ==
  /\ At(h, "writeRead")
  /\ sts' = [sts EXCEPT ![loc[h].ad] = loc[h].mem]
  /\ Goto(h, [loc[h] EXCEPT !.pc = "readRows"])
  /\ UNCHANGED <<live, expired, content, config, rows, used, submits, ending>>

(* All the rows of the ad are read in one query, and the loop decides what *)
(* is written and how often.                                               *)
ReadRows(h) ==
  LET a == loc[h].ad
      w == IF loc[h].batch THEN BatchWrites(a, loc[h].mem)
                           ELSE SingleWrites(a, loc[h].mem)
  IN
  /\ At(h, "readRows")
  /\ Goto(h, [loc[h] EXCEPT !.pc = IF w.times = 0 THEN "nextRow"
                                                  ELSE "writeVerdict",
                            !.mem = w.value, !.left = w.times])
  /\ UNCHANGED <<sts, live, expired, content, config, rows, used, submits,
                 ending>>

WriteVerdict(h) ==
  /\ At(h, "writeVerdict")
  /\ sts' = [sts EXCEPT ![loc[h].ad] = loc[h].mem]
  /\ Goto(h, [loc[h] EXCEPT !.pc = IF loc[h].left = 1 THEN "nextRow" ELSE @,
                            !.left = @ - 1])
  /\ UNCHANGED <<live, expired, content, config, rows, used, submits, ending>>

(* The next row of the batch, or the end of the request.                   *)
NextRow(h) ==
  /\ At(h, "nextRow")
  /\ \/ /\ loc[h].rest = {}
        /\ Done(h)
     \/ \E r \in loc[h].rest :
          IF rows[r] = NoRow THEN Done(h)
          ELSE Goto(h, ReviewRecord(r, loc[h].vote, loc[h].rest \ {r}, TRUE))
  /\ UNCHANGED <<sts, live, expired, content, config, rows, used, submits,
                 ending>>

(***************************************************************************)
(* The advertiser submits the ad: one row for every reviewer, then the     *)
(* status.  The page offers it for a draft, the handler does not look.     *)
(***************************************************************************)
SubmitCheck(h, a) ==
  /\ submits < MaxSubmits
  /\ Alone(live[a] /\ sts[a] = Draft)
  /\ Start(h, "submit", [pc |-> "submit", ad |-> a, todo |-> Reviewers])
  /\ submits' = submits + 1
  /\ UNCHANGED <<sts, live, expired, content, config, rows, used, ending>>

InsertRow(h) ==
  /\ At(h, "submit")
  /\ used < MaxRows
  /\ \E u \in loc[h].todo :
       /\ rows' = [rows EXCEPT ![used + 1] =
                     [ad |-> loc[h].ad, user |-> u, check |-> Waiting,
                      on |-> content[loc[h].ad]]]
       /\ Goto(h, [loc[h] EXCEPT !.todo = @ \ {u}])
  /\ used' = used + 1
  /\ UNCHANGED <<sts, live, expired, content, config, submits, ending>>

SetPending(h) ==
  /\ At(h, "submit")
  /\ loc[h].todo = {}
  /\ sts' = [sts EXCEPT ![loc[h].ad] = Pending]
  /\ Done(h)
  /\ UNCHANGED <<live, expired, content, config, rows, used, submits, ending>>

(***************************************************************************)
(* The advertiser edits the ad.  Whether the content is another one is     *)
(* decided before anything is written.                                     *)
(***************************************************************************)
EditAdPlan(h, a, c, late) ==
  /\ Alone(live[a] /\ sts[a] \notin {Serving, Ended, Abandoned})
  /\ Start(h, "edit", [pc |-> "editAd", ad |-> a, new |-> c, late |-> late,
                       changed |-> CheckAdUrl(content[a], c)])
  /\ UNCHANGED <<sts, live, expired, content, config, rows, used, submits,
                 ending>>

(* The basic data, with the end time the advertiser gave.                  *)
EditAd(h) ==
  /\ At(h, "editAd")
  /\ expired' = [expired EXCEPT ![loc[h].ad] = loc[h].late]
  /\ Goto(h, [loc[h] EXCEPT !.pc = "editContent"])
  /\ UNCHANGED <<sts, live, content, config, rows, used, submits, ending>>

EditContent(h) ==
  /\ At(h, "editContent")
  /\ content' = [content EXCEPT ![loc[h].ad] = loc[h].new]
  /\ Goto(h, [loc[h] EXCEPT !.pc = "editRead"])
  /\ UNCHANGED <<sts, live, expired, config, rows, used, submits, ending>>

(* Mutant: only a refused ad is reviewed again.                            *)
EditReadRefused(h) ==
  /\ At(h, "editRead")
  /\ IF loc[h].changed /\ sts[loc[h].ad] = Rejected
     THEN Goto(h, [loc[h] EXCEPT !.pc = "editRows"])
     ELSE Done(h)
  /\ UNCHANGED <<sts, live, expired, content, config, rows, used, submits,
                 ending>>

(* A changed ad that has left the draft status must be reviewed again.     *)
EditRead(h) ==
  /\ At(h, "editRead")
  /\ IF loc[h].changed /\ sts[loc[h].ad] # Draft
     THEN Goto(h, [loc[h] EXCEPT !.pc = "editRows"])
     ELSE Done(h)
  /\ UNCHANGED <<sts, live, expired, content, config, rows, used, submits,
                 ending>>

DropRows(S) == rows' = [r \in RowIds |-> IF r \in S THEN NoRow ELSE rows[r]]

(* Mutant: the rows of the earlier review stay.                            *)
EditRowsKept(h) ==
  /\ At(h, "editRows")
  /\ Goto(h, [loc[h] EXCEPT !.pc = "editReset"])
  /\ UNCHANGED <<sts, live, expired, content, config, rows, used, submits,
                 ending>>

EditRows(h) ==
  /\ At(h, "editRows")
  /\ DropRows(RowsOf(loc[h].ad))
  /\ Goto(h, [loc[h] EXCEPT !.pc = "editReset"])
  /\ UNCHANGED <<sts, live, expired, content, config, used, submits, ending>>

EditReset(h) ==
  /\ At(h, "editReset")
  /\ sts' = [sts EXCEPT ![loc[h].ad] = Draft]
  /\ Done(h)
  /\ UNCHANGED <<live, expired, content, config, rows, used, submits, ending>>

(***************************************************************************)
(* The advertiser deletes the ad, and then its rows if there are some.     *)
(***************************************************************************)
DeleteAd(h, a) ==
  /\ Alone(live[a] /\ sts[a] \notin Switchable)
  /\ Start(h, "delete", [pc |-> "delFind", ad |-> a])
  /\ live' = [live EXCEPT ![a] = FALSE]
  /\ UNCHANGED <<sts, expired, content, config, rows, used, submits, ending>>

DeleteFind(h) ==
  /\ At(h, "delFind")
  /\ IF RowsOf(loc[h].ad) = {} THEN Done(h)
     ELSE Goto(h, [loc[h] EXCEPT !.pc = "delRows"])
  /\ UNCHANGED <<sts, live, expired, content, config, rows, used, submits,
                 ending>>

DeleteRows(h) ==
  /\ At(h, "delRows")
  /\ DropRows(RowsOf(loc[h].ad))
  /\ Done(h)
  /\ UNCHANGED <<sts, live, expired, content, config, used, submits, ending>>

(***************************************************************************)
(* An administrator adds a reviewer, or removes one and then the rows the  *)
(* reviewer has.                                                           *)
(***************************************************************************)
AddReviewer(u) ==
  /\ "add" \in Ops
  /\ config[u] = "new"
  /\ Alone(TRUE)
  /\ config' = [config EXCEPT ![u] = "active"]
  /\ UNCHANGED <<sts, live, expired, content, rows, used, submits, loc, ending>>

RemoveReviewer(h, u) ==
  /\ config[u] = "active"
  /\ Alone(TRUE)
  /\ Start(h, "remove", [pc |-> "rmFind", user |-> u])
  /\ config' = [config EXCEPT ![u] = "removed"]
  /\ UNCHANGED <<sts, live, expired, content, rows, used, submits, ending>>

RemoveFind(h) ==
  /\ At(h, "rmFind")
  /\ IF RowsBy(loc[h].user) = {} THEN Done(h)
     ELSE Goto(h, [loc[h] EXCEPT !.pc = "rmRows"])
  /\ UNCHANGED <<sts, live, expired, content, config, rows, used, submits,
                 ending>>

RemoveRows(h) ==
  /\ At(h, "rmRows")
  /\ DropRows(RowsBy(loc[h].user))
  /\ Done(h)
  /\ UNCHANGED <<sts, live, expired, content, config, used, submits, ending>>

(***************************************************************************)
(* An administrator pauses, resumes or abandons an ad: one update, without *)
(* a look at the status it replaces.  The switch of a page turns at every  *)
(* click, so that a page that ever showed one position can send both.      *)
(***************************************************************************)
UpdateSts(a, v, op) ==
  /\ op \in Ops
  /\ sts' = [sts EXCEPT ![a] = v]
  /\ UNCHANGED <<live, expired, content, config, rows, used, submits, loc,
                 ending>>

Toggle(a, v) ==
  /\ listed[a] \cap Switchable # {}
  /\ Alone(sts[a] \in Switchable \ {v})
  /\ UpdateSts(a, v, "toggle")

Abandon(a) ==
  /\ listed[a] # {}
  /\ Alone(sts[a] \in Abandonable)
  /\ UpdateSts(a, Abandoned, "abandon")

(***************************************************************************)
(* The nightly job: it selects the ads whose end time has passed and then  *)
(* ends what it has selected.                                              *)
(***************************************************************************)
(* Mutant: the job forgets the ads whose delivery is switched off.         *)
TimerSelectServing ==
  LET due == {a \in Ads : live[a] /\ expired[a] /\ sts[a] = Serving} IN
  /\ "timer" \in Ops
  /\ ending = {}
  /\ due # {}
  /\ Alone(TRUE)
  /\ ending' = due
  /\ UNCHANGED <<sts, live, expired, content, config, rows, used, submits, loc>>

TimerSelect ==
  LET due == {a \in Ads : live[a] /\ expired[a] /\ sts[a] \in Switchable} IN
  /\ "timer" \in Ops
  /\ ending = {}
  /\ due # {}
  /\ Alone(TRUE)
  /\ ending' = due
  /\ UNCHANGED <<sts, live, expired, content, config, rows, used, submits, loc>>

TimerUpdate ==
  /\ ending # {}
  /\ sts' = [a \in Ads |-> IF a \in ending THEN Ended ELSE sts[a]]
  /\ ending' = {}
  /\ UNCHANGED <<live, expired, content, config, rows, used, submits, loc>>

(* Time passes: the end time of an ad comes.                               *)
Expire(a) ==
  /\ "timer" \in Ops
  /\ ~expired[a]
  /\ expired' = [expired EXCEPT ![a] = TRUE]
  /\ UNCHANGED <<sts, live, content, config, rows, used, submits, loc, ending>>

(* A server stops, or a call fails: what was written stays.                *)
Crash(h) ==
  /\ "crash" \in Ops
  /\ loc[h] # Idle
  /\ Done(h)
  /\ UNCHANGED <<sts, live, expired, content, config, rows, used, submits,
                 ending>>

(***************************************************************************)
(* The histories: what pages an administrator may still have open, and the *)
(* most approval the rows of an ad have had at one time.                   *)
(***************************************************************************)
SomeApproved(a) == \E r \in RowsOf(a) : rows[r].check = Approved

Consent(a) ==
  IF AllApproved(a) THEN "all" ELSE IF SomeApproved(a) THEN "some" ELSE "none"

More(c, d) == IF "all" \in {c, d} THEN "all"
              ELSE IF "some" \in {c, d} THEN "some" ELSE "none"

Observe ==
  /\ listed' = [a \in Ads |-> listed[a] \cup ({sts'[a]} \cap Abandonable)]
  /\ consent' = [a \in Ads |-> More(consent[a], Consent(a)')]

(***************************************************************************)
(* The specification.  An ad starts as the draft its form creates.         *)
(***************************************************************************)
Init ==
  /\ sts = [a \in Ads |-> Draft]
  /\ live = [a \in Ads |-> TRUE]
  /\ expired = [a \in Ads |-> FALSE]
  /\ content \in [Ads -> Contents]
  /\ config \in [Users -> {"new", "active"}]
  /\ rows = [r \in RowIds |-> NoRow]
  /\ used = 0
  /\ submits = 0
  /\ loc = [h \in Requests |-> Idle]
  /\ ending = {}
  /\ listed = [a \in Ads |-> {}]
  /\ consent = [a \in Ads |-> "none"]

(* The steps of a request after its first one.                             *)
ReviewStep(h) == ReadAd(h) \/ WriteVote(h) \/ WriteRead(h) \/ ReadRows(h)
                   \/ WriteVerdict(h) \/ NextRow(h)
SubmitStep(h) == InsertRow(h) \/ SetPending(h)
EditStep(h)   == EditAd(h) \/ EditContent(h) \/ EditRead(h) \/ EditRows(h)
                   \/ EditReset(h)
DeleteStep(h) == DeleteFind(h) \/ DeleteRows(h)
RemoveStep(h) == RemoveFind(h) \/ RemoveRows(h)

Continue(h) == ReviewStep(h) \/ SubmitStep(h) \/ EditStep(h) \/ DeleteStep(h)
                 \/ RemoveStep(h)

Request(h) ==
  \/ \E r \in RowIds, v \in Vote : SingleReview(h, r, v)
  \/ \E S \in SUBSET RowIds, v \in Vote : BatchReview(h, S, v)
  \/ \E a \in Ads : SubmitCheck(h, a)
  \/ \E a \in Ads, c \in Contents, late \in BOOLEAN : EditAdPlan(h, a, c, late)
  \/ \E a \in Ads : DeleteAd(h, a)
  \/ \E u \in Users : RemoveReviewer(h, u)

Administrator ==
  \/ \E u \in Users : AddReviewer(u)
  \/ \E a \in Ads, v \in Switchable : Toggle(a, v)
  \/ \E a \in Ads : Abandon(a)

Timer == TimerSelect \/ TimerUpdate

Step ==
  \/ \E h \in Requests : Request(h) \/ Continue(h) \/ Crash(h)
  \/ Administrator
  \/ Timer
  \/ \E a \in Ads : Expire(a)

Next == Step /\ Observe

Spec == Init /\ [][Next]_vars

(* The servers go on with the requests they have, and the job is run every *)
(* night; nobody has to make a request.                                    *)
Fairness ==
  /\ \A h \in Requests : WF_vars(Continue(h) /\ Observe)
  /\ WF_vars(TimerSelect /\ Observe)
  /\ WF_vars(TimerUpdate /\ Observe)

FairSpec == Spec /\ Fairness

(***************************************************************************)
(* Properties of every instance.                                           *)
(***************************************************************************)
Past == {Serving, Paused, Ended}

(* An ad is delivered, paused or ended only if at some time all the rows   *)
(* it had were approvals: however single reviews, edits, deletions,        *)
(* reviewer removals, switches, crashes and the nightly job overlap, and   *)
(* however stale what they write back.  (Single review only: the batch     *)
(* page breaks it.)                                                        *)
ServedAfterFullApproval == \A a \in Ads : sts[a] \in Past => consent[a] = "all"

(* With the batch page too, at least one reviewer has approved the ad      *)
(* before it is delivered for the first time.                              *)
ServedAfterSomeApproval == \A a \in Ads : sts[a] \in Past => consent[a] # "none"

(* An ad whose end time has passed does not stay on delivery: the nightly  *)
(* job reaches it, or the ad is put out of delivery or prolonged before.   *)
ExpiredAdLeaves ==
  \A a \in Ads :
    (live[a] /\ expired[a] /\ sts[a] \in Switchable)
      ~> (~live[a] \/ ~expired[a] \/ sts[a] \notin Switchable)

(***************************************************************************)
(* Properties of instances in which requests do not overlap.               *)
(***************************************************************************)

(* An ad on delivery has been approved by everyone who was asked, and for  *)
(* what it shows now: no edit, pause or resumption carries an approval     *)
(* over to another content.                                                *)
ServingIsApproved ==
  \A a \in Ads : live[a] /\ sts[a] = Serving =>
    /\ AllApproved(a)
    /\ \A r \in RowsOf(a) : rows[r].on = content[a]

(* Between requests, an ad that waits for review waits for somebody: a     *)
(* row of it is still to be voted on (unless nobody was asked at all).     *)
PendingWaitsForAVote ==
  \A a \in Ads : AllIdle /\ live[a] /\ sts[a] = Pending /\ RowsOf(a) # {} =>
    \E r \in RowsOf(a) : rows[r].check = Waiting

(* Between requests, a draft has no rows: a later submission asks every    *)
(* reviewer once, and counts no vote cast before it.                       *)
DraftHasNoRows ==
  \A a \in Ads : AllIdle /\ sts[a] = Draft => RowsOf(a) = {}

(* Between requests, no ad on delivery has a refusal among its votes.      *)
RefusedIsNotServing ==
  \A a \in Ads : AllIdle /\ live[a] /\ sts[a] = Serving =>
    \A r \in RowsOf(a) : rows[r].check # Refused
=============================================================================
