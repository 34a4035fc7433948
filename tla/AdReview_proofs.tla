--------------------------- MODULE AdReview_proofs ---------------------------
(***************************************************************************)
(* Proofs about the review of ads, for any number of ads, reviewers and    *)
(* requests.  The first part holds whatever overlaps: the types, and that  *)
(* no ad is delivered without the approval it needs.  The second is about  *)
(* requests that do not overlap: an ad on delivery shows what was          *)
(* approved, a pending ad waits for somebody, a draft carries no old       *)
(* votes; and every request, however many writes it makes, is one step of  *)
(* AdApproval.                                                             *)
(***************************************************************************)
EXTENDS AdReviewSerial, FiniteSetTheorems, WellFoundedInduction, TLAPS

(***************************************************************************)
(* Shapes: the label of a request tells which record it carries.           *)
(***************************************************************************)
ReviewLabels == {"readAd", "writeVote", "writeRead", "readRows",
                 "writeVerdict", "nextRow"}

LEMMA ReviewShape ==
  ASSUME TypeOK, NEW h \in Requests, loc[h].pc \in ReviewLabels
  PROVE  loc[h] \in ReviewLoc
<1>1. loc[h] \in Loc
  BY DEF TypeOK
<1>2. QED
  BY <1>1 DEF Loc, Idle, ReviewLoc, SubmitLoc, EditLoc, DeleteLoc, RemoveLoc,
              ReviewLabels

LEMMA SubmitShape ==
  ASSUME TypeOK, NEW h \in Requests, loc[h].pc = "submit"
  PROVE  loc[h] \in SubmitLoc
<1>1. loc[h] \in Loc
  BY DEF TypeOK
<1>2. QED
  BY <1>1 DEF Loc, Idle, ReviewLoc, SubmitLoc, EditLoc, DeleteLoc, RemoveLoc

LEMMA EditShape ==
  ASSUME TypeOK, NEW h \in Requests,
         loc[h].pc \in {"editAd", "editContent", "editRead", "editRows",
                        "editReset"}
  PROVE  loc[h] \in EditLoc
<1>1. loc[h] \in Loc
  BY DEF TypeOK
<1>2. QED
  BY <1>1 DEF Loc, Idle, ReviewLoc, SubmitLoc, EditLoc, DeleteLoc, RemoveLoc

LEMMA DeleteShape ==
  ASSUME TypeOK, NEW h \in Requests, loc[h].pc \in {"delFind", "delRows"}
  PROVE  loc[h] \in DeleteLoc
<1>1. loc[h] \in Loc
  BY DEF TypeOK
<1>2. QED
  BY <1>1 DEF Loc, Idle, ReviewLoc, SubmitLoc, EditLoc, DeleteLoc, RemoveLoc

LEMMA RemoveShape ==
  ASSUME TypeOK, NEW h \in Requests, loc[h].pc \in {"rmFind", "rmRows"}
  PROVE  loc[h] \in RemoveLoc
<1>1. loc[h] \in Loc
  BY DEF TypeOK
<1>2. QED
  BY <1>1 DEF Loc, Idle, ReviewLoc, SubmitLoc, EditLoc, DeleteLoc, RemoveLoc

(***************************************************************************)
(* Types.                                                                  *)
(***************************************************************************)

(* What TypeOK does not say of a review and its types depend on: the       *)
(* status a review writes has been read or computed, and the writes that   *)
(* are left to it are counted down from at least one.                      *)
Carrying == {"writeVote", "writeRead", "readRows", "writeVerdict"}

ReadOK(rec) ==
  /\ rec.pc \in Carrying => rec.mem \in Status
  /\ rec.pc = "writeVerdict" => rec.left # 0

GoodLoc == {rec \in Loc : ReadOK(rec)}

TypeInv == TypeOK /\ loc \in [Requests -> GoodLoc]

(* The conjuncts of TypeInv about the tables and the requests.             *)
StateOK ==
  /\ sts \in [Ads -> Status]
  /\ live \in [Ads -> BOOLEAN]
  /\ expired \in [Ads -> BOOLEAN]
  /\ content \in [Ads -> Contents]
  /\ config \in [Users -> {"new", "active", "removed"}]
  /\ rows \in [RowIds -> Row \cup {NoRow}]
  /\ used \in 0..MaxRows
  /\ submits \in Nat
  /\ loc \in [Requests -> GoodLoc]
  /\ ending \in SUBSET Ads

LEMMA ObserveTypes ==
  ASSUME TypeInv, sts' \in [Ads -> Status], Observe
  PROVE  /\ listed' \in [Ads -> SUBSET Abandonable]
         /\ consent' \in [Ads -> {"none", "some", "all"}]
<1>1. listed' \in [Ads -> SUBSET Abandonable]
  BY DEF Observe, TypeInv, TypeOK
<1>2. consent' = [a \in Ads |-> More(consent[a], Consent(a)')]
  BY DEF Observe
<1>3. \A c, d : More(c, d) \in {"none", "some", "all"}
  BY DEF More
<1>4. QED
  BY <1>1, <1>2, <1>3

(* A request that goes to a well-formed record keeps loc well-formed.      *)
LEMMA GotoTypes ==
  ASSUME TypeInv, NEW h \in Requests, NEW rec \in GoodLoc, Goto(h, rec)
  PROVE  loc' \in [Requests -> GoodLoc]
BY DEF TypeInv, Goto

LEMMA DoneTypes ==
  ASSUME TypeInv, NEW h \in Requests, Done(h)
  PROVE  loc' \in [Requests -> GoodLoc]
<1>1. Idle \in GoodLoc
  BY DEF Idle, Loc, GoodLoc, ReadOK, Carrying
<1>2. QED
  BY <1>1, GotoTypes DEF Done

LEMMA DropTypes ==
  ASSUME TypeInv, NEW S, DropRows(S)
  PROVE  rows' \in [RowIds -> Row \cup {NoRow}]
BY DEF TypeInv, TypeOK, DropRows

LEMMA VerdictType ==
  ASSUME NEW a \in Ads, NEW mem \in Status
  PROVE  Verdict(a, mem) \in Status
BY DEF Verdict, Status

LEMMA BatchTimes ==
  ASSUME NEW a \in Ads, NEW mem
  PROVE  /\ BatchWrites(a, mem).times \in Nat
         /\ BatchWrites(a, mem).times # 0 => ApprovedPrefix(a) # {}
<1>1. IsFiniteSet(RowIds)
  BY ConstantsAssumption, FS_Interval DEF RowIds
<1>2. ApprovedPrefix(a) \subseteq RowIds
  BY DEF ApprovedPrefix, RowsOf
<1>3. IsFiniteSet(ApprovedPrefix(a))
  BY <1>1, <1>2, FS_Subset
<1>4. Cardinality(ApprovedPrefix(a)) \in Nat
  BY <1>3, FS_CardinalityType
<1>5. ApprovedPrefix(a) = {} => Cardinality(ApprovedPrefix(a)) = 0
  BY FS_EmptySet
<1>6. QED
  BY <1>4, <1>5 DEF BatchWrites

(* Starting a review.                                                      *)
LEMMA ReviewRecordType ==
  ASSUME TypeInv, NEW r \in RowIds, rows[r] # NoRow, NEW v \in Vote,
         NEW rest \in SUBSET RowIds, NEW batch \in BOOLEAN
  PROVE  /\ ReviewRecord(r, v, rest, batch) \in ReviewLoc
         /\ ReviewRecord(r, v, rest, batch) \in GoodLoc
<1>1. rows[r] \in Row
  BY DEF TypeInv, TypeOK
<1>2. QED
  BY <1>1 DEF ReviewRecord, ReviewLoc, Row, Loc, GoodLoc, ReadOK, Carrying

LEMMA RequestTypes ==
  ASSUME TypeInv, NEW h \in Requests, Request(h)
  PROVE  StateOK'
<1>1. ASSUME NEW r \in RowIds, NEW v \in Vote, SingleReview(h, r, v)
      PROVE  StateOK'
  <2>1. ReviewRecord(r, v, {}, FALSE) \in GoodLoc
    BY <1>1, ReviewRecordType DEF SingleReview
  <2>2. loc' \in [Requests -> GoodLoc]
    BY <1>1, <2>1 DEF SingleReview, Start, TypeInv
  <2>3. QED
    BY <1>1, <2>2 DEF SingleReview, TypeInv, TypeOK, StateOK
<1>2. ASSUME NEW S \in SUBSET RowIds, NEW v \in Vote, BatchReview(h, S, v)
      PROVE  StateOK'
  <2>1. PICK r \in S : Start(h, "batch", ReviewRecord(r, v, S \ {r}, TRUE))
    BY <1>2 DEF BatchReview
  <2>2. ReviewRecord(r, v, S \ {r}, TRUE) \in GoodLoc
    BY <1>2, ReviewRecordType DEF BatchReview
  <2>3. loc' \in [Requests -> GoodLoc]
    BY <2>1, <2>2 DEF Start, TypeInv
  <2>4. QED
    BY <1>2, <2>3 DEF BatchReview, TypeInv, TypeOK, StateOK
<1>3. ASSUME NEW a \in Ads, SubmitCheck(h, a)
      PROVE  StateOK'
  <2>1. [pc |-> "submit", ad |-> a, todo |-> Reviewers] \in GoodLoc
    BY DEF Reviewers, SubmitLoc, Loc, GoodLoc, ReadOK, Carrying
  <2>2. loc' \in [Requests -> GoodLoc]
    BY <1>3, <2>1 DEF SubmitCheck, Start, TypeInv
  <2>3. QED
    BY <1>3, <2>2 DEF SubmitCheck, TypeInv, TypeOK, StateOK
<1>4. ASSUME NEW a \in Ads, NEW c \in Contents, NEW late \in BOOLEAN,
             EditAdPlan(h, a, c, late)
      PROVE  StateOK'
  <2>1. CheckAdUrl(content[a], c) \in BOOLEAN
    BY DEF CheckAdUrl, ListChanged
  <2>2. [pc |-> "editAd", ad |-> a, new |-> c, late |-> late,
         changed |-> CheckAdUrl(content[a], c)] \in GoodLoc
    BY <2>1 DEF EditLoc, Loc, GoodLoc, ReadOK, Carrying
  <2>3. loc' \in [Requests -> GoodLoc]
    BY <1>4, <2>2 DEF EditAdPlan, Start, TypeInv
  <2>4. QED
    BY <1>4, <2>3 DEF EditAdPlan, TypeInv, TypeOK, StateOK
<1>5. ASSUME NEW a \in Ads, DeleteAd(h, a)
      PROVE  StateOK'
  <2>1. [pc |-> "delFind", ad |-> a] \in GoodLoc
    BY DEF DeleteLoc, Loc, GoodLoc, ReadOK, Carrying
  <2>2. loc' \in [Requests -> GoodLoc]
    BY <1>5, <2>1 DEF DeleteAd, Start, TypeInv
  <2>3. QED
    BY <1>5, <2>2 DEF DeleteAd, TypeInv, TypeOK, StateOK
<1>6. ASSUME NEW u \in Users, RemoveReviewer(h, u)
      PROVE  StateOK'
  <2>1. [pc |-> "rmFind", user |-> u] \in GoodLoc
    BY DEF RemoveLoc, Loc, GoodLoc, ReadOK, Carrying
  <2>2. loc' \in [Requests -> GoodLoc]
    BY <1>6, <2>1 DEF RemoveReviewer, Start, TypeInv
  <2>3. QED
    BY <1>6, <2>2 DEF RemoveReviewer, TypeInv, TypeOK, StateOK
<1>7. QED
  BY <1>1, <1>2, <1>3, <1>4, <1>5, <1>6 DEF Request

LEMMA ReviewTypes ==
  ASSUME TypeInv, NEW h \in Requests, ReviewStep(h)
  PROVE  StateOK'
<1>1. CASE ReadAd(h)
  <2>1. loc[h] \in ReviewLoc
    BY <1>1, ReviewShape DEF ReadAd, At, ReviewLabels, TypeInv
  <2>2. sts[loc[h].ad] \in Status
    BY <2>1 DEF ReviewLoc, TypeInv, TypeOK
  <2>3. [loc[h] EXCEPT !.pc = "writeVote",
                       !.mem = IF loc[h].vote = Refused
                               THEN Rejected ELSE sts[loc[h].ad]] \in GoodLoc
    BY <2>1, <2>2 DEF ReviewLoc, Loc, GoodLoc, ReadOK, Status
  <2>4. loc' \in [Requests -> GoodLoc]
    BY <1>1, <2>3, GotoTypes DEF ReadAd
  <2>5. QED
    BY <1>1, <2>4 DEF ReadAd, TypeInv, TypeOK, StateOK
<1>2. CASE WriteVote(h)
  <2>1. loc[h] \in ReviewLoc /\ ReadOK(loc[h])
    BY <1>2, ReviewShape DEF WriteVote, At, ReviewLabels, TypeInv, GoodLoc
  <2>2. [loc[h] EXCEPT !.pc = "writeRead"] \in GoodLoc
    BY <1>2, <2>1 DEF WriteVote, At, ReviewLoc, Loc, GoodLoc, ReadOK, Carrying
  <2>3. loc' \in [Requests -> GoodLoc]
    BY <1>2, <2>2, GotoTypes DEF WriteVote
  <2>4. rows' \in [RowIds -> Row \cup {NoRow}]
    <3>1. rows \in [RowIds -> Row \cup {NoRow}]
      BY DEF TypeInv, TypeOK
    <3>2. CASE rows[loc[h].row] = NoRow
      BY <1>2, <3>1, <3>2 DEF WriteVote
    <3>3. CASE rows[loc[h].row] # NoRow
      <4>1. rows[loc[h].row] \in Row
        BY <2>1, <3>1, <3>3 DEF ReviewLoc
      <4>2. content[rows[loc[h].row].ad] \in Contents
        BY <4>1 DEF Row, TypeInv, TypeOK
      <4>3. loc[h].vote \in Check
        BY <2>1 DEF ReviewLoc, Vote, Check
      <4>4. [ad    |-> rows[loc[h].row].ad,
             user  |-> rows[loc[h].row].user,
             check |-> loc[h].vote,
             on    |-> content[rows[loc[h].row].ad]] \in Row
        BY <4>1, <4>2, <4>3 DEF Row
      <4>5. QED
        BY <1>2, <3>1, <3>3, <4>4 DEF WriteVote
    <3>4. QED
      BY <3>2, <3>3
  <2>5. QED
    BY <1>2, <2>3, <2>4 DEF WriteVote, TypeInv, TypeOK, StateOK
<1>3. CASE WriteRead(h)
  <2>1. loc[h] \in ReviewLoc /\ ReadOK(loc[h])
    BY <1>3, ReviewShape DEF WriteRead, At, ReviewLabels, TypeInv, GoodLoc
  <2>2. loc[h].mem \in Status
    BY <1>3, <2>1 DEF WriteRead, At, ReadOK, Carrying
  <2>3. [loc[h] EXCEPT !.pc = "readRows"] \in GoodLoc
    BY <2>1, <2>2 DEF ReviewLoc, Loc, GoodLoc, ReadOK
  <2>4. loc' \in [Requests -> GoodLoc]
    BY <1>3, <2>3, GotoTypes DEF WriteRead
  <2>5. QED
    BY <1>3, <2>2, <2>4 DEF WriteRead, TypeInv, TypeOK, StateOK
<1>4. CASE ReadRows(h)
  <2> DEFINE a == loc[h].ad
             w == IF loc[h].batch THEN BatchWrites(a, loc[h].mem)
                                  ELSE SingleWrites(a, loc[h].mem)
             new == [loc[h] EXCEPT
                       !.pc = IF w.times = 0 THEN "nextRow" ELSE "writeVerdict",
                       !.mem = w.value, !.left = w.times]
  <2>1. loc[h] \in ReviewLoc /\ ReadOK(loc[h])
    BY <1>4, ReviewShape DEF ReadRows, At, ReviewLabels, TypeInv, GoodLoc
  <2>2. loc[h].mem \in Status /\ a \in Ads
    BY <1>4, <2>1 DEF ReadRows, At, ReadOK, Carrying, ReviewLoc
  <2>3. BatchWrites(a, loc[h].mem).times \in Nat
    BY <2>2, BatchTimes
  <2>4. BatchWrites(a, loc[h].mem).value \in Status
    BY DEF BatchWrites, Status
  <2>5. /\ SingleWrites(a, loc[h].mem).times \in Nat
        /\ SingleWrites(a, loc[h].mem).value \in Status
    BY <2>2, VerdictType DEF SingleWrites
  <2>6. w.times \in Nat /\ w.value \in Status
    BY <2>3, <2>4, <2>5
  <2> HIDE DEF w
  <2>7. new \in GoodLoc
    BY <2>1, <2>6 DEF ReviewLoc, Loc, GoodLoc, ReadOK
  <2>8. Goto(h, new)
    BY <1>4 DEF ReadRows, w
  <2> HIDE DEF new
  <2>9. loc' \in [Requests -> GoodLoc]
    BY <2>7, <2>8, GotoTypes
  <2>10. QED
    BY <1>4, <2>9 DEF ReadRows, TypeInv, TypeOK, StateOK
<1>5. CASE WriteVerdict(h)
  <2>1. loc[h] \in ReviewLoc /\ ReadOK(loc[h])
    BY <1>5, ReviewShape DEF WriteVerdict, At, ReviewLabels, TypeInv, GoodLoc
  <2>2. loc[h].mem \in Status /\ loc[h].left # 0 /\ loc[h].left \in Nat
    BY <1>5, <2>1 DEF WriteVerdict, At, ReadOK, Carrying, ReviewLoc
  <2>3. loc[h].left - 1 \in Nat /\ (loc[h].left # 1 => loc[h].left - 1 # 0)
    BY <2>2
  <2>4. [loc[h] EXCEPT !.pc = IF loc[h].left = 1 THEN "nextRow" ELSE @,
                       !.left = @ - 1] \in GoodLoc
    BY <1>5, <2>1, <2>2, <2>3
       DEF WriteVerdict, At, ReviewLoc, Loc, GoodLoc, ReadOK
  <2>5. loc' \in [Requests -> GoodLoc]
    BY <1>5, <2>4, GotoTypes DEF WriteVerdict
  <2>6. QED
    BY <1>5, <2>2, <2>5 DEF WriteVerdict, TypeInv, TypeOK, StateOK
<1>6. CASE NextRow(h)
  <2>1. loc[h] \in ReviewLoc
    BY <1>6, ReviewShape DEF NextRow, At, ReviewLabels, TypeInv
  <2>2. CASE Done(h)
    BY <1>6, <2>2, DoneTypes DEF NextRow, TypeInv, TypeOK, StateOK
  <2>3. ASSUME NEW r \in loc[h].rest, rows[r] # NoRow,
               Goto(h, ReviewRecord(r, loc[h].vote, loc[h].rest \ {r}, TRUE))
        PROVE  loc' \in [Requests -> GoodLoc]
    <3>1. /\ r \in RowIds
          /\ loc[h].vote \in Vote
          /\ loc[h].rest \ {r} \in SUBSET RowIds
      BY <2>1 DEF ReviewLoc
    <3>2. QED
      BY <2>3, <3>1, ReviewRecordType, GotoTypes
  <2>4. QED
    BY <1>6, <2>2, <2>3 DEF NextRow, TypeInv, TypeOK, StateOK
<1>7. QED
  BY <1>1, <1>2, <1>3, <1>4, <1>5, <1>6 DEF ReviewStep

LEMMA SubmitTypes ==
  ASSUME TypeInv, NEW h \in Requests, SubmitStep(h)
  PROVE  StateOK'
<1>1. loc[h] \in SubmitLoc
  BY SubmitShape DEF SubmitStep, InsertRow, SetPending, At, TypeInv
<1>2. CASE InsertRow(h)
  <2>1. PICK u \in loc[h].todo :
          /\ rows' = [rows EXCEPT ![used + 1] =
                        [ad |-> loc[h].ad, user |-> u, check |-> Waiting,
                         on |-> content[loc[h].ad]]]
          /\ Goto(h, [loc[h] EXCEPT !.todo = @ \ {u}])
    BY <1>2 DEF InsertRow
  <2>2. [ad |-> loc[h].ad, user |-> u, check |-> Waiting,
         on |-> content[loc[h].ad]] \in Row
    BY <1>1 DEF SubmitLoc, Row, Check, TypeInv, TypeOK
  <2>3. rows' \in [RowIds -> Row \cup {NoRow}]
    BY <2>1, <2>2 DEF TypeInv, TypeOK
  <2>4. [loc[h] EXCEPT !.todo = @ \ {u}] \in GoodLoc
    BY <1>1 DEF SubmitLoc, Loc, GoodLoc, ReadOK, Carrying
  <2>5. loc' \in [Requests -> GoodLoc]
    BY <2>1, <2>4, GotoTypes
  <2>6. used' \in 0..MaxRows
    BY <1>2, ConstantsAssumption DEF InsertRow, TypeInv, TypeOK
  <2>7. QED
    BY <1>2, <2>3, <2>5, <2>6 DEF InsertRow, TypeInv, TypeOK, StateOK
<1>3. CASE SetPending(h)
  <2>1. loc' \in [Requests -> GoodLoc]
    BY <1>3, DoneTypes DEF SetPending
  <2>2. QED
    BY <1>3, <2>1 DEF SetPending, TypeInv, TypeOK, StateOK, Status
<1>4. QED
  BY <1>2, <1>3 DEF SubmitStep

LEMMA EditTypes ==
  ASSUME TypeInv, NEW h \in Requests, EditStep(h)
  PROVE  StateOK'
<1>1. loc[h] \in EditLoc
  BY EditShape DEF EditStep, EditAd, EditContent, EditRead, EditRows,
                   EditReset, At, TypeInv
<1>2. \A label \in {"editContent", "editRead", "editRows", "editReset"} :
        [loc[h] EXCEPT !.pc = label] \in GoodLoc
  BY <1>1 DEF EditLoc, Loc, GoodLoc, ReadOK, Carrying
<1>3. CASE EditAd(h)
  <2>1. loc' \in [Requests -> GoodLoc]
    BY <1>3, <1>2, GotoTypes DEF EditAd
  <2>2. QED
    BY <1>1, <1>3, <2>1 DEF EditAd, EditLoc, TypeInv, TypeOK, StateOK
<1>4. CASE EditContent(h)
  <2>1. loc' \in [Requests -> GoodLoc]
    BY <1>4, <1>2, GotoTypes DEF EditContent
  <2>2. QED
    BY <1>1, <1>4, <2>1 DEF EditContent, EditLoc, TypeInv, TypeOK, StateOK
<1>5. CASE EditRead(h)
  <2>1. loc' \in [Requests -> GoodLoc]
    BY <1>5, <1>2, GotoTypes, DoneTypes DEF EditRead
  <2>2. QED
    BY <1>5, <2>1 DEF EditRead, TypeInv, TypeOK, StateOK
<1>6. CASE EditRows(h)
  <2>1. loc' \in [Requests -> GoodLoc]
    BY <1>6, <1>2, GotoTypes DEF EditRows
  <2>2. rows' \in [RowIds -> Row \cup {NoRow}]
    BY <1>6, DropTypes DEF EditRows
  <2>3. QED
    BY <1>6, <2>1, <2>2 DEF EditRows, TypeInv, TypeOK, StateOK
<1>7. CASE EditReset(h)
  <2>1. loc' \in [Requests -> GoodLoc]
    BY <1>7, DoneTypes DEF EditReset
  <2>2. QED
    BY <1>7, <2>1 DEF EditReset, TypeInv, TypeOK, StateOK, Status
<1>8. QED
  BY <1>3, <1>4, <1>5, <1>6, <1>7 DEF EditStep

LEMMA DeleteTypes ==
  ASSUME TypeInv, NEW h \in Requests, DeleteStep(h)
  PROVE  StateOK'
<1>1. loc[h] \in DeleteLoc
  BY DeleteShape DEF DeleteStep, DeleteFind, DeleteRows, At, TypeInv
<1>2. [loc[h] EXCEPT !.pc = "delRows"] \in GoodLoc
  BY <1>1 DEF DeleteLoc, Loc, GoodLoc, ReadOK, Carrying
<1>3. CASE DeleteFind(h)
  <2>1. loc' \in [Requests -> GoodLoc]
    BY <1>2, <1>3, GotoTypes, DoneTypes DEF DeleteFind
  <2>2. QED
    BY <1>3, <2>1 DEF DeleteFind, TypeInv, TypeOK, StateOK
<1>4. CASE DeleteRows(h)
  <2>1. loc' \in [Requests -> GoodLoc]
    BY <1>4, DoneTypes DEF DeleteRows
  <2>2. rows' \in [RowIds -> Row \cup {NoRow}]
    BY <1>4, DropTypes DEF DeleteRows
  <2>3. QED
    BY <1>4, <2>1, <2>2 DEF DeleteRows, TypeInv, TypeOK, StateOK
<1>5. QED
  BY <1>3, <1>4 DEF DeleteStep

LEMMA RemoveTypes ==
  ASSUME TypeInv, NEW h \in Requests, RemoveStep(h)
  PROVE  StateOK'
<1>1. loc[h] \in RemoveLoc
  BY RemoveShape DEF RemoveStep, RemoveFind, RemoveRows, At, TypeInv
<1>2. [loc[h] EXCEPT !.pc = "rmRows"] \in GoodLoc
  BY <1>1 DEF RemoveLoc, Loc, GoodLoc, ReadOK, Carrying
<1>3. CASE RemoveFind(h)
  <2>1. loc' \in [Requests -> GoodLoc]
    BY <1>2, <1>3, GotoTypes, DoneTypes DEF RemoveFind
  <2>2. QED
    BY <1>3, <2>1 DEF RemoveFind, TypeInv, TypeOK, StateOK
<1>4. CASE RemoveRows(h)
  <2>1. loc' \in [Requests -> GoodLoc]
    BY <1>4, DoneTypes DEF RemoveRows
  <2>2. rows' \in [RowIds -> Row \cup {NoRow}]
    BY <1>4, DropTypes DEF RemoveRows
  <2>3. QED
    BY <1>4, <2>1, <2>2 DEF RemoveRows, TypeInv, TypeOK, StateOK
<1>5. QED
  BY <1>3, <1>4 DEF RemoveStep

LEMMA AdministratorTypes ==
  ASSUME TypeInv, Administrator
  PROVE  StateOK'
<1>1. ASSUME NEW u \in Users, AddReviewer(u)
      PROVE  StateOK'
  BY <1>1 DEF AddReviewer, TypeInv, TypeOK, StateOK
<1>2. ASSUME NEW a \in Ads, NEW v \in Switchable, Toggle(a, v)
      PROVE  StateOK'
  BY <1>2 DEF Toggle, UpdateSts, Switchable, Status, TypeInv, TypeOK, StateOK
<1>3. ASSUME NEW a \in Ads, Abandon(a)
      PROVE  StateOK'
  BY <1>3 DEF Abandon, UpdateSts, Status, TypeInv, TypeOK, StateOK
<1>4. QED
  BY <1>1, <1>2, <1>3 DEF Administrator

LEMMA StepTypes ==
  ASSUME TypeInv, Step
  PROVE  StateOK'
<1>1. ASSUME NEW h \in Requests, Request(h) \/ Continue(h) \/ Crash(h)
      PROVE  StateOK'
  <2>1. CASE Request(h)
    BY <2>1, RequestTypes
  <2>2. CASE Continue(h)
    BY <2>2, ReviewTypes, SubmitTypes, EditTypes, DeleteTypes, RemoveTypes
       DEF Continue
  <2>3. CASE Crash(h)
    <3>1. loc' \in [Requests -> GoodLoc]
      BY <2>3, DoneTypes DEF Crash
    <3>2. QED
      BY <2>3, <3>1 DEF Crash, TypeInv, TypeOK, StateOK
  <2>4. QED
    BY <1>1, <2>1, <2>2, <2>3
<1>2. CASE Administrator
  BY <1>2, AdministratorTypes
<1>3. CASE TimerSelect
  BY <1>3 DEF TimerSelect, TypeInv, TypeOK, StateOK
<1>4. CASE TimerUpdate
  BY <1>4 DEF TimerUpdate, Status, TypeInv, TypeOK, StateOK
<1>5. ASSUME NEW a \in Ads, Expire(a)
      PROVE  StateOK'
  BY <1>5 DEF Expire, TypeInv, TypeOK, StateOK
<1>6. QED
  BY <1>1, <1>2, <1>3, <1>4, <1>5 DEF Step, Timer

LEMMA InitTypes == Init => TypeInv
<1> SUFFICES ASSUME Init PROVE TypeInv
  OBVIOUS
<1>2. Idle \in GoodLoc /\ Idle \in Loc
  BY DEF Idle, Loc, GoodLoc, ReadOK, Carrying
<1>3. used \in 0..MaxRows
  <2>1. used = 0
    BY DEF Init
  <2>2. QED
    BY <2>1, ConstantsAssumption
<1>4. /\ sts \in [Ads -> Status]
      /\ config \in [Users -> {"new", "active", "removed"}]
      /\ listed \in [Ads -> SUBSET Abandonable]
      /\ rows \in [RowIds -> Row \cup {NoRow}]
  BY DEF Init, Status
<1>5. QED
  BY <1>2, <1>3, <1>4 DEF Init, TypeInv, TypeOK

LEMMA NextTypes == TypeInv /\ [Next]_vars => TypeInv'
<1> SUFFICES ASSUME TypeInv, [Next]_vars PROVE TypeInv'
  OBVIOUS
<1>2. CASE Next
  <2>1. StateOK'
    BY <1>2, StepTypes DEF Next
  <2>2. /\ listed' \in [Ads -> SUBSET Abandonable]
        /\ consent' \in [Ads -> {"none", "some", "all"}]
    BY <1>2, <2>1, ObserveTypes DEF Next, StateOK
  <2>3. loc' \in [Requests -> Loc]
    BY <2>1 DEF StateOK, GoodLoc
  <2>4. QED
    BY <2>1, <2>2, <2>3 DEF StateOK, TypeInv, TypeOK
<1>3. CASE UNCHANGED vars
  BY <1>3 DEF vars, TypeInv, TypeOK, Row, RowIds, Loc, GoodLoc, ReadOK,
                    Carrying, Idle, ReviewLoc, SubmitLoc, EditLoc, DeleteLoc,
                    RemoveLoc
<1>4. QED
  BY <1>2, <1>3

(* Whatever requests overlap or stop half-way, the tables hold statuses,   *)
(* votes and rows of the declared kinds, and a request writes back a       *)
(* status it has read or computed, never one it has not read.              *)
THEOREM TypeCorrect == Spec => []TypeOK
<1>1. TypeInv => TypeOK
  BY DEF TypeInv
<1>2. QED
  BY <1>1, InitTypes, NextTypes, PTL DEF Spec

(***************************************************************************)
(* Approval before delivery.                                               *)
(*                                                                         *)
(* The invariant says that a set S of ads covers every place from which a  *)
(* status "delivered", "paused" or "ended" can come: the table itself, the *)
(* selection of the nightly job, an open page of an administrator, and the *)
(* copy of a status a review carries.  A place passes on what it has, so   *)
(* only the verdict over the rows can bring in a new ad; the two theorems  *)
(* take for S the ads that once had some approval, and the ads that once   *)
(* had the approval of all.                                                *)
(***************************************************************************)

StatusBacked(S) == \A a \in Ads : sts[a] \in Past => a \in S

EndingBacked(S) == ending \subseteq S

ListedBacked(S) == \A a \in Ads : listed[a] \cap Switchable # {} => a \in S

CarriedBacked(S) ==
  \A h \in Requests :
    loc[h].pc \in Carrying /\ loc[h].mem \in Past => loc[h].ad \in S

Backed(S) ==
  StatusBacked(S) /\ EndingBacked(S) /\ ListedBacked(S) /\ CarriedBacked(S)

(* The verdict that h reads from the rows keeps within T.                  *)
VerdictIn(h, T) ==
  ReadRows(h) /\ loc'[h].pc \in Carrying /\ loc'[h].mem \in Past
    => loc'[h].ad \in T

LEMMA GotoBacked ==
  ASSUME TypeInv, NEW S \in SUBSET Ads, NEW T \in SUBSET Ads, S \subseteq T,
         Backed(S), NEW h \in Requests, NEW rec,
         loc' = [loc EXCEPT ![h] = rec],
         rec.pc \in Carrying /\ rec.mem \in Past => rec.ad \in T
  PROVE  CarriedBacked(T)'
BY DEF TypeInv, Backed, CarriedBacked

LEMMA SameBacked ==
  ASSUME NEW S \in SUBSET Ads, NEW T \in SUBSET Ads, S \subseteq T, Backed(S),
         loc' = loc
  PROVE  CarriedBacked(T)'
BY DEF Backed, CarriedBacked

LEMMA DoneBacked ==
  ASSUME TypeInv, NEW S \in SUBSET Ads, NEW T \in SUBSET Ads, S \subseteq T,
         Backed(S), NEW h \in Requests, Done(h)
  PROVE  CarriedBacked(T)'
<1>1. Idle.pc \notin Carrying
  BY DEF Idle, Carrying
<1>2. QED
  BY <1>1, GotoBacked DEF Done, Goto

(***************************************************************************)
(* Every step but the reading of the rows keeps what it covers.            *)
(***************************************************************************)
LEMMA RequestBacked ==
  ASSUME TypeInv, NEW S \in SUBSET Ads, NEW T \in SUBSET Ads, S \subseteq T,
         Backed(S), NEW h \in Requests, Request(h)
  PROVE  StatusBacked(T)' /\ EndingBacked(T)' /\ CarriedBacked(T)'
<1>1. \A r, v, rest, batch : ReviewRecord(r, v, rest, batch).pc \notin Carrying
  BY DEF ReviewRecord, Carrying
<1>2. ASSUME NEW r \in RowIds, NEW v \in Vote, SingleReview(h, r, v)
      PROVE  CarriedBacked(T)'
  BY <1>1, <1>2, GotoBacked DEF SingleReview, Start
<1>3. ASSUME NEW R \in SUBSET RowIds, NEW v \in Vote, BatchReview(h, R, v)
      PROVE  CarriedBacked(T)'
  <2>1. PICK r \in R : loc' = [loc EXCEPT ![h] =
                                 ReviewRecord(r, v, R \ {r}, TRUE)]
    BY <1>3 DEF BatchReview, Start
  <2>2. QED
    BY <1>1, <2>1, GotoBacked
<1>4. ASSUME NEW a \in Ads, SubmitCheck(h, a)
      PROVE  CarriedBacked(T)'
  BY <1>4, GotoBacked DEF SubmitCheck, Start, Carrying
<1>5. ASSUME NEW a \in Ads, NEW c \in Contents, NEW late \in BOOLEAN,
             EditAdPlan(h, a, c, late)
      PROVE  CarriedBacked(T)'
  BY <1>5, GotoBacked DEF EditAdPlan, Start, Carrying
<1>6. ASSUME NEW a \in Ads, DeleteAd(h, a)
      PROVE  CarriedBacked(T)'
  BY <1>6, GotoBacked DEF DeleteAd, Start, Carrying
<1>7. ASSUME NEW u \in Users, RemoveReviewer(h, u)
      PROVE  CarriedBacked(T)'
  BY <1>7, GotoBacked DEF RemoveReviewer, Start, Carrying
<1>8. sts' = sts /\ ending' = ending
  BY DEF Request, SingleReview, BatchReview, SubmitCheck, EditAdPlan, DeleteAd,
         RemoveReviewer
<1>9. CarriedBacked(T)'
  BY <1>2, <1>3, <1>4, <1>5, <1>6, <1>7 DEF Request
<1>10. QED
  BY <1>8, <1>9 DEF Backed, StatusBacked, EndingBacked

LEMMA ReviewBacked ==
  ASSUME TypeInv, NEW S \in SUBSET Ads, NEW T \in SUBSET Ads, S \subseteq T,
         Backed(S), NEW h \in Requests, ReviewStep(h), VerdictIn(h, T)
  PROVE  StatusBacked(T)' /\ EndingBacked(T)' /\ CarriedBacked(T)'
<1>1. loc[h] \in ReviewLoc
  BY ReviewShape DEF ReviewStep, ReadAd, WriteVote, WriteRead, ReadRows,
                     WriteVerdict, NextRow, At, ReviewLabels, TypeInv
<1>2. loc \in [Requests -> GoodLoc] /\ sts \in [Ads -> Status]
  BY DEF TypeInv, TypeOK
<1>3. loc[h].ad \in Ads
  BY <1>1 DEF ReviewLoc
<1>4. /\ loc[h].pc \in Carrying /\ loc[h].mem \in Past => loc[h].ad \in T
      /\ sts[loc[h].ad] \in Past => loc[h].ad \in T
  BY <1>3 DEF Backed, CarriedBacked, StatusBacked
<1>5. ending' = ending
  BY DEF ReviewStep, ReadAd, WriteVote, WriteRead, ReadRows, WriteVerdict,
         NextRow
<1>6. EndingBacked(T)'
  BY <1>5 DEF Backed, EndingBacked
<1>7. CASE ReadAd(h)
  <2> DEFINE rec == [loc[h] EXCEPT !.pc = "writeVote",
                                   !.mem = IF loc[h].vote = Refused
                                           THEN Rejected ELSE sts[loc[h].ad]]
  <2>1. rec.ad = loc[h].ad
    BY <1>1 DEF ReviewLoc
  <2>2. rec.mem = IF loc[h].vote = Refused THEN Rejected ELSE sts[loc[h].ad]
    BY <1>1 DEF ReviewLoc
  <2>3. rec.mem \in Past => rec.ad \in T
    BY <1>4, <2>1, <2>2 DEF Past, Rejected, Serving, Paused, Ended
  <2>4. loc' = [loc EXCEPT ![h] = rec]
    BY <1>7 DEF ReadAd, Goto
  <2> HIDE DEF rec
  <2>5. CarriedBacked(T)'
    BY <2>3, <2>4, GotoBacked
  <2>6. QED
    BY <1>6, <1>7, <2>5 DEF ReadAd, Backed, StatusBacked
<1>8. CASE WriteVote(h)
  <2> DEFINE rec == [loc[h] EXCEPT !.pc = "writeRead"]
  <2>1. rec.ad = loc[h].ad /\ rec.mem = loc[h].mem
    BY <1>1 DEF ReviewLoc
  <2>2. loc' = [loc EXCEPT ![h] = rec]
    BY <1>8 DEF WriteVote, Goto
  <2>3. loc[h].pc \in Carrying
    BY <1>8 DEF WriteVote, At, Carrying
  <2> HIDE DEF rec
  <2>4. CarriedBacked(T)'
    BY <1>4, <2>1, <2>2, <2>3, GotoBacked
  <2>5. QED
    BY <1>6, <1>8, <2>4 DEF WriteVote, Backed, StatusBacked
<1>9. CASE WriteRead(h)
  <2> DEFINE rec == [loc[h] EXCEPT !.pc = "readRows"]
  <2>1. rec.ad = loc[h].ad /\ rec.mem = loc[h].mem
    BY <1>1 DEF ReviewLoc
  <2>2. loc' = [loc EXCEPT ![h] = rec]
    BY <1>9 DEF WriteRead, Goto
  <2>3. loc[h].pc \in Carrying
    BY <1>9 DEF WriteRead, At, Carrying
  <2> HIDE DEF rec
  <2>4. CarriedBacked(T)'
    BY <1>4, <2>1, <2>2, <2>3, GotoBacked
  <2>5. sts' = [sts EXCEPT ![loc[h].ad] = loc[h].mem]
    BY <1>9 DEF WriteRead
  <2>6. StatusBacked(T)'
    BY <1>2, <1>4, <2>3, <2>5 DEF Backed, StatusBacked
  <2>7. QED
    BY <1>6, <2>4, <2>6
<1>10. CASE ReadRows(h)
  <2>1. loc' = [loc EXCEPT ![h] = loc'[h]]
    BY <1>2, <1>10 DEF ReadRows, Goto
  <2>2. CarriedBacked(T)'
    BY <1>10, <2>1, GotoBacked DEF VerdictIn
  <2>3. QED
    BY <1>6, <1>10, <2>2 DEF ReadRows, Backed, StatusBacked
<1>11. CASE WriteVerdict(h)
  <2> DEFINE rec == [loc[h] EXCEPT
                       !.pc = IF loc[h].left = 1 THEN "nextRow" ELSE @,
                       !.left = @ - 1]
  <2>1. rec.ad = loc[h].ad /\ rec.mem = loc[h].mem
    BY <1>1 DEF ReviewLoc
  <2>2. loc' = [loc EXCEPT ![h] = rec]
    BY <1>11 DEF WriteVerdict, Goto
  <2>3. loc[h].pc \in Carrying
    BY <1>11 DEF WriteVerdict, At, Carrying
  <2> HIDE DEF rec
  <2>4. CarriedBacked(T)'
    BY <1>4, <2>1, <2>2, <2>3, GotoBacked
  <2>5. sts' = [sts EXCEPT ![loc[h].ad] = loc[h].mem]
    BY <1>11 DEF WriteVerdict
  <2>6. StatusBacked(T)'
    BY <1>2, <1>4, <2>3, <2>5 DEF Backed, StatusBacked
  <2>7. QED
    BY <1>6, <2>4, <2>6
<1>12. CASE NextRow(h)
  <2>1. CASE Done(h)
    BY <1>6, <1>12, <2>1, DoneBacked DEF NextRow, Backed, StatusBacked
  <2>2. ASSUME NEW r, NEW rest, Goto(h, ReviewRecord(r, loc[h].vote, rest, TRUE))
        PROVE  CarriedBacked(T)'
    <3>1. ReviewRecord(r, loc[h].vote, rest, TRUE).pc \notin Carrying
      BY DEF ReviewRecord, Carrying
    <3>2. QED
      BY <2>2, <3>1, GotoBacked DEF Goto
  <2>3. QED
    BY <1>6, <1>12, <2>1, <2>2 DEF NextRow, Backed, StatusBacked
<1>13. QED
  BY <1>7, <1>8, <1>9, <1>10, <1>11, <1>12 DEF ReviewStep

LEMMA OtherStepsBacked ==
  ASSUME TypeInv, NEW S \in SUBSET Ads, NEW T \in SUBSET Ads, S \subseteq T,
         Backed(S), NEW h \in Requests,
         SubmitStep(h) \/ EditStep(h) \/ DeleteStep(h) \/ RemoveStep(h)
           \/ Crash(h)
  PROVE  StatusBacked(T)' /\ EndingBacked(T)' /\ CarriedBacked(T)'
<1>1. ending' = ending
  BY DEF SubmitStep, InsertRow, SetPending, EditStep, EditAd, EditContent,
         EditRead, EditRows, EditReset, DeleteStep, DeleteFind, DeleteRows,
         RemoveStep, RemoveFind, RemoveRows, Crash
<1>2. \/ sts' = sts
      \/ sts' = [sts EXCEPT ![loc[h].ad] = Pending]
      \/ sts' = [sts EXCEPT ![loc[h].ad] = Draft]
  BY DEF SubmitStep, InsertRow, SetPending, EditStep, EditAd, EditContent,
         EditRead, EditRows, EditReset, DeleteStep, DeleteFind, DeleteRows,
         RemoveStep, RemoveFind, RemoveRows, Crash
<1>3. StatusBacked(T)'
  BY <1>2 DEF Backed, StatusBacked, TypeInv, TypeOK, Past, Pending, Draft,
              Serving, Paused, Ended
<1>4. CarriedBacked(T)'
  <2>1. CASE Done(h)
    BY <2>1, DoneBacked
  <2>2. ASSUME NEW label \in {"editContent", "editRead", "editRows",
                              "editReset", "delRows", "rmRows"},
               Goto(h, [loc[h] EXCEPT !.pc = label]),
               loc[h] \in EditLoc \cup DeleteLoc \cup RemoveLoc
        PROVE  CarriedBacked(T)'
    <3>1. [loc[h] EXCEPT !.pc = label].pc \notin Carrying
      BY <2>2 DEF EditLoc, DeleteLoc, RemoveLoc, Carrying
    <3>2. QED
      BY <2>2, <3>1, GotoBacked DEF Goto
  <2>3. CASE SubmitStep(h)
    <3>1. loc[h] \in SubmitLoc
      BY <2>3, SubmitShape DEF SubmitStep, InsertRow, SetPending, At, TypeInv
    <3>2. ASSUME NEW u, Goto(h, [loc[h] EXCEPT !.todo = @ \ {u}])
          PROVE  CarriedBacked(T)'
      <4>1. [loc[h] EXCEPT !.todo = @ \ {u}].pc \notin Carrying
        BY <3>1 DEF SubmitLoc, Carrying
      <4>2. QED
        BY <3>2, <4>1, GotoBacked DEF Goto
    <3>3. QED
      BY <2>1, <2>3, <3>2 DEF SubmitStep, InsertRow, SetPending
  <2>4. CASE EditStep(h)
    <3>1. loc[h] \in EditLoc
      BY <2>4, EditShape DEF EditStep, EditAd, EditContent, EditRead, EditRows,
                             EditReset, At, TypeInv
    <3>2. QED
      BY <2>1, <2>2, <2>4, <3>1 DEF EditStep, EditAd, EditContent, EditRead,
                                    EditRows, EditReset
  <2>5. CASE DeleteStep(h)
    <3>1. loc[h] \in DeleteLoc
      BY <2>5, DeleteShape DEF DeleteStep, DeleteFind, DeleteRows, At, TypeInv
    <3>2. QED
      BY <2>1, <2>2, <2>5, <3>1 DEF DeleteStep, DeleteFind, DeleteRows
  <2>6. CASE RemoveStep(h)
    <3>1. loc[h] \in RemoveLoc
      BY <2>6, RemoveShape DEF RemoveStep, RemoveFind, RemoveRows, At, TypeInv
    <3>2. QED
      BY <2>1, <2>2, <2>6, <3>1 DEF RemoveStep, RemoveFind, RemoveRows
  <2>7. CASE Crash(h)
    BY <2>1, <2>7 DEF Crash
  <2>8. QED
    BY <2>3, <2>4, <2>5, <2>6, <2>7
<1>5. QED
  BY <1>1, <1>3, <1>4 DEF Backed, EndingBacked

LEMMA AdministratorBacked ==
  ASSUME TypeInv, NEW S \in SUBSET Ads, NEW T \in SUBSET Ads, S \subseteq T,
         Backed(S), Administrator
  PROVE  StatusBacked(T)' /\ EndingBacked(T)' /\ CarriedBacked(T)'
<1>1. loc' = loc /\ ending' = ending
  BY DEF Administrator, AddReviewer, Toggle, Abandon, UpdateSts
<1>2. StatusBacked(T)'
  <2>1. ASSUME NEW u \in Users, AddReviewer(u)
        PROVE  StatusBacked(T)'
    BY <2>1 DEF AddReviewer, Backed, StatusBacked
  <2>2. ASSUME NEW a \in Ads, NEW v \in Switchable, Toggle(a, v)
        PROVE  StatusBacked(T)'
    BY <2>2 DEF Toggle, UpdateSts, Backed, StatusBacked, ListedBacked, TypeInv,
                TypeOK
  <2>3. ASSUME NEW a \in Ads, Abandon(a)
        PROVE  StatusBacked(T)'
    BY <2>3 DEF Abandon, UpdateSts, Backed, StatusBacked, TypeInv, TypeOK,
                Past, Abandoned, Serving, Paused, Ended
  <2>4. QED
    BY <2>1, <2>2, <2>3 DEF Administrator
<1>3. QED
  BY <1>1, <1>2, SameBacked DEF Backed, EndingBacked

LEMMA TimeBacked ==
  ASSUME TypeInv, NEW S \in SUBSET Ads, NEW T \in SUBSET Ads, S \subseteq T,
         Backed(S), Timer \/ \E a \in Ads : Expire(a)
  PROVE  StatusBacked(T)' /\ EndingBacked(T)' /\ CarriedBacked(T)'
<1>1. loc' = loc
  BY DEF Timer, TimerSelect, TimerUpdate, Expire
<1>2. CarriedBacked(T)'
  BY <1>1, SameBacked
<1>3. CASE TimerSelect
  <2>1. StatusBacked(T)'
    BY <1>3 DEF TimerSelect, Backed, StatusBacked
  <2>2. EndingBacked(T)'
    BY <1>3 DEF TimerSelect, Backed, StatusBacked, EndingBacked, Switchable, Past
  <2>3. QED
    BY <1>2, <2>1, <2>2
<1>4. CASE TimerUpdate
  BY <1>2, <1>4 DEF TimerUpdate, Backed, StatusBacked, EndingBacked
<1>5. ASSUME NEW a \in Ads, Expire(a)
      PROVE  StatusBacked(T)' /\ EndingBacked(T)'
  BY <1>5 DEF Expire, Backed, StatusBacked, EndingBacked
<1>6. QED
  BY <1>2, <1>3, <1>4, <1>5 DEF Timer

LEMMA NextBacked ==
  ASSUME TypeInv, NEW S \in SUBSET Ads, NEW T \in SUBSET Ads, S \subseteq T,
         Backed(S), Next, \A h \in Requests : VerdictIn(h, T)
  PROVE  Backed(T)'
<1>1. Step /\ Observe
  BY DEF Next
<1>2. StatusBacked(T)' /\ EndingBacked(T)' /\ CarriedBacked(T)'
  <2>1. ASSUME NEW h \in Requests, Request(h) \/ Continue(h) \/ Crash(h)
        PROVE  StatusBacked(T)' /\ EndingBacked(T)' /\ CarriedBacked(T)'
    BY <2>1, RequestBacked, ReviewBacked, OtherStepsBacked DEF Continue
  <2>2. QED
    BY <1>1, <2>1, AdministratorBacked, TimeBacked DEF Step
<1>3. ListedBacked(T)'
  <2>1. listed' = [a \in Ads |-> listed[a] \cup ({sts'[a]} \cap Abandonable)]
    BY <1>1 DEF Observe
  <2>2. \A a \in Ads : listed'[a] \cap Switchable # {} => a \in T
    BY <1>2, <2>1 DEF Backed, ListedBacked, StatusBacked, Switchable, Past
  <2>3. QED
    BY <2>2 DEF ListedBacked
<1>4. QED
  BY <1>2, <1>3 DEF Backed

(***************************************************************************)
(* What the loops over the rows find.                                      *)
(***************************************************************************)
LEMMA VerdictNeedsAll ==
  ASSUME NEW a \in Ads, NEW mem, Verdict(a, mem) \in Past
  PROVE  AllApproved(a) \/ Verdict(a, mem) = mem
BY DEF Verdict, AllApproved, Past, Rejected, Pending, Serving, Paused, Ended

LEMMA AllHasSome ==
  ASSUME NEW a \in Ads, AllApproved(a)
  PROVE  SomeApproved(a)
BY DEF AllApproved, SomeApproved, NotApproved

LEMMA PrefixHasSome ==
  ASSUME TypeInv, NEW a \in Ads, ApprovedPrefix(a) # {}
  PROVE  SomeApproved(a)
<1>1. PICK r \in RowsOf(a) : \A s \in NotApproved(a) : r < s
  BY DEF ApprovedPrefix
<1>2. r \in Nat
  BY <1>1, ConstantsAssumption DEF RowsOf, RowIds
<1>3. ~(r < r)
  BY <1>2
<1>4. r \notin NotApproved(a)
  BY <1>1, <1>3
<1>5. QED
  BY <1>1, <1>4 DEF NotApproved, SomeApproved

(***************************************************************************)
(* The history.                                                            *)
(***************************************************************************)
WithSome == {a \in Ads : consent[a] # "none"}
WithAll  == {a \in Ads : consent[a] = "all"}

Recorded ==
  \A a \in Ads : /\ SomeApproved(a) => a \in WithSome
                 /\ AllApproved(a) => a \in WithAll

LEMMA ObserveRecords ==
  ASSUME TypeInv, Observe
  PROVE  /\ Recorded'
         /\ WithSome \subseteq WithSome'
         /\ WithAll \subseteq WithAll'
<1>1. consent' = [a \in Ads |-> More(consent[a], Consent(a)')]
  BY DEF Observe
<1>2. \A a \in Ads : consent'[a] = More(consent[a], Consent(a)')
  BY <1>1
<1>3. \A a \in Ads : consent[a] \in {"none", "some", "all"}
  BY DEF TypeInv, TypeOK
<1>4. \A a \in Ads : /\ consent[a] # "none" => consent'[a] # "none"
                     /\ consent[a] = "all" => consent'[a] = "all"
  BY <1>2, <1>3 DEF More
<1>5. ASSUME NEW a \in Ads
      PROVE  /\ SomeApproved(a)' => consent'[a] # "none"
             /\ AllApproved(a)' => consent'[a] = "all"
  <2>1. AllApproved(a)' => Consent(a)' = "all"
    BY DEF Consent
  <2>2. SomeApproved(a)' => Consent(a)' \in {"some", "all"}
    BY DEF Consent
  <2>3. Consent(a)' \in {"none", "some", "all"}
    BY DEF Consent
  <2>4. consent'[a] = More(consent[a], Consent(a)')
    BY <1>2
  <2> HIDE DEF Consent
  <2>5. Consent(a)' = "all" => consent'[a] = "all"
    BY <2>4 DEF More
  <2>6. Consent(a)' = "some" => consent'[a] # "none"
    BY <2>4 DEF More
  <2>7. QED
    BY <2>1, <2>2, <2>5, <2>6
<1>6. QED
  BY <1>4, <1>5 DEF Recorded, WithSome, WithAll

(***************************************************************************)
(* Some approval, with every operation.                                    *)
(***************************************************************************)
SomeInv == TypeInv /\ Backed(WithSome) /\ Recorded

LEMMA SomeVerdict ==
  ASSUME SomeInv, WithSome \subseteq WithSome', NEW h \in Requests
  PROVE  VerdictIn(h, WithSome')
<1> SUFFICES ASSUME ReadRows(h), loc'[h].pc \in Carrying, loc'[h].mem \in Past
             PROVE  loc'[h].ad \in WithSome'
  BY DEF VerdictIn
<1> DEFINE a == loc[h].ad
           w == IF loc[h].batch THEN BatchWrites(a, loc[h].mem)
                                ELSE SingleWrites(a, loc[h].mem)
<1>1. loc[h] \in ReviewLoc /\ loc \in [Requests -> GoodLoc]
  BY ReviewShape DEF ReadRows, At, ReviewLabels, SomeInv, TypeInv
<1>2. a \in Ads
  BY <1>1 DEF ReviewLoc
<1>3. loc' = [loc EXCEPT ![h] =
                [loc[h] EXCEPT !.pc = IF w.times = 0 THEN "nextRow"
                                                     ELSE "writeVerdict",
                               !.mem = w.value, !.left = w.times]]
  BY DEF ReadRows, Goto
<1> HIDE DEF w
<1>4. /\ loc'[h].ad = a
      /\ loc'[h].mem = w.value
      /\ loc'[h].pc = IF w.times = 0 THEN "nextRow" ELSE "writeVerdict"
  BY <1>1, <1>3 DEF ReviewLoc
<1>5. w.times # 0 /\ w.value \in Past
  BY <1>4 DEF Carrying
<1>6. loc[h].pc \in Carrying
  BY DEF ReadRows, At, Carrying
<1>7. SomeApproved(a) => a \in WithSome'
  BY <1>2 DEF SomeInv, Recorded
<1>8. CASE loc[h].batch
  <2>1. BatchWrites(a, loc[h].mem).times # 0
    BY <1>5, <1>8 DEF w
  <2>2. ApprovedPrefix(a) # {}
    BY <1>2, <2>1, BatchTimes
  <2>3. SomeApproved(a)
    BY <1>2, <2>2, PrefixHasSome DEF SomeInv
  <2>4. QED
    BY <1>4, <1>7, <2>3
<1>9. CASE ~loc[h].batch
  <2>1. Verdict(a, loc[h].mem) \in Past
    BY <1>5, <1>9 DEF w, SingleWrites
  <2>2. CASE AllApproved(a)
    BY <1>2, <1>4, <1>7, <2>2, AllHasSome
  <2>3. CASE Verdict(a, loc[h].mem) = loc[h].mem
    BY <1>4, <1>6, <2>1, <2>3 DEF SomeInv, Backed, CarriedBacked
  <2>4. QED
    BY <1>2, <2>1, <2>2, <2>3, VerdictNeedsAll
<1>10. QED
  BY <1>8, <1>9

LEMMA InitBacked == Init => Backed({}) /\ Recorded
<1> SUFFICES ASSUME Init PROVE Backed({}) /\ Recorded
  OBVIOUS
<1>1. Backed({})
  BY DEF Init, Backed, StatusBacked, EndingBacked, ListedBacked, CarriedBacked,
         Idle, Carrying, Past, Draft, Serving, Paused, Ended
<1>2. \A a \in Ads : RowsOf(a) = {}
  BY DEF Init, RowsOf
<1>3. QED
  BY <1>1, <1>2 DEF Recorded, SomeApproved, AllApproved

LEMMA BackedGrows ==
  ASSUME NEW S, NEW T, S \subseteq T, Backed(S)
  PROVE  Backed(T)
BY DEF Backed, StatusBacked, EndingBacked, ListedBacked, CarriedBacked

LEMMA SomeInductive == SomeInv /\ [Next]_vars => SomeInv'
<1> SUFFICES ASSUME SomeInv, [Next]_vars PROVE SomeInv'
  OBVIOUS
<1>1. TypeInv'
  BY NextTypes DEF SomeInv
<1>2. CASE Next
  <2>1. Recorded' /\ WithSome \subseteq WithSome'
    BY <1>2, ObserveRecords DEF SomeInv, Next
  <2>2. WithSome \in SUBSET Ads /\ WithSome' \in SUBSET Ads
    BY DEF WithSome
  <2>3. \A h \in Requests : VerdictIn(h, WithSome')
    BY <2>1, SomeVerdict
  <2>4. Backed(WithSome)'
    BY <1>2, <2>1, <2>2, <2>3, NextBacked
       DEF SomeInv, Backed, StatusBacked, EndingBacked, ListedBacked,
           CarriedBacked
  <2>5. QED
    BY <1>1, <2>1, <2>4 DEF SomeInv
<1>3. CASE UNCHANGED vars
  <2>1. Backed(WithSome)'
    BY <1>3 DEF vars, SomeInv, Backed, StatusBacked, EndingBacked,
                ListedBacked, CarriedBacked, WithSome
  <2>2. Recorded'
    BY <1>3 DEF vars, SomeInv, Recorded, WithSome, WithAll, SomeApproved,
                AllApproved, NotApproved, RowsOf
  <2>3. QED
    BY <1>1, <2>1, <2>2 DEF SomeInv
<1>4. QED
  BY <1>2, <1>3

(* No ad is delivered, paused or ended before some reviewer approved it,   *)
(* with the pages of one and of several ads, whatever requests overlap or  *)
(* stop half-way.                                                          *)
THEOREM DeliveredAfterSomeApproval == Spec => []ServedAfterSomeApproval
<1>1. Init => SomeInv
  <2>1. Init => Backed(WithSome)
    BY InitBacked, BackedGrows
  <2>2. QED
    BY <2>1, InitBacked, InitTypes DEF SomeInv
<1>2. SomeInv => ServedAfterSomeApproval
  BY DEF SomeInv, Backed, StatusBacked, WithSome, ServedAfterSomeApproval
<1>3. QED
  BY <1>1, <1>2, SomeInductive, PTL DEF Spec

(***************************************************************************)
(* Full approval, when nobody uses the page of several ads.                *)
(***************************************************************************)
NoBatch ==
  \A h \in Requests :
    loc[h].pc \in ReviewLabels => ~loc[h].batch /\ loc[h].rest = {}

AllInv == TypeInv /\ Backed(WithAll) /\ Recorded /\ NoBatch

LEMMA StepNoBatch ==
  ASSUME TypeInv, NoBatch, "batch" \notin Ops, Step
  PROVE  NoBatch'
<1>1. loc \in [Requests -> GoodLoc]
  BY DEF TypeInv
<1>2. ASSUME NEW h \in Requests, NEW rec, loc' = [loc EXCEPT ![h] = rec],
             rec.pc \in ReviewLabels => ~rec.batch /\ rec.rest = {}
      PROVE  NoBatch'
  BY <1>1, <1>2 DEF NoBatch
<1>3. ASSUME NEW h \in Requests, Done(h)
      PROVE  NoBatch'
  <2>1. Idle.pc \notin ReviewLabels
    BY DEF Idle, ReviewLabels
  <2>2. QED
    BY <1>2, <1>3, <2>1 DEF Done, Goto
<1>4. ASSUME NEW h \in Requests, Request(h)
      PROVE  NoBatch'
  <2>1. ASSUME NEW r \in RowIds, NEW v \in Vote, SingleReview(h, r, v)
        PROVE  NoBatch'
    <3>1. /\ ~ReviewRecord(r, v, {}, FALSE).batch
          /\ ReviewRecord(r, v, {}, FALSE).rest = {}
      BY DEF ReviewRecord
    <3>2. QED
      BY <1>2, <2>1, <3>1 DEF SingleReview, Start
  <2>2. ASSUME NEW R \in SUBSET RowIds, NEW v \in Vote, BatchReview(h, R, v)
        PROVE  NoBatch'
    BY <2>2 DEF BatchReview, Start
  <2>3. ASSUME NEW a \in Ads, SubmitCheck(h, a)
        PROVE  NoBatch'
    BY <1>2, <2>3 DEF SubmitCheck, Start, ReviewLabels
  <2>4. ASSUME NEW a \in Ads, NEW c \in Contents, NEW late \in BOOLEAN,
               EditAdPlan(h, a, c, late)
        PROVE  NoBatch'
    BY <1>2, <2>4 DEF EditAdPlan, Start, ReviewLabels
  <2>5. ASSUME NEW a \in Ads, DeleteAd(h, a)
        PROVE  NoBatch'
    BY <1>2, <2>5 DEF DeleteAd, Start, ReviewLabels
  <2>6. ASSUME NEW u \in Users, RemoveReviewer(h, u)
        PROVE  NoBatch'
    BY <1>2, <2>6 DEF RemoveReviewer, Start, ReviewLabels
  <2>7. QED
    BY <1>4, <2>1, <2>2, <2>3, <2>4, <2>5, <2>6 DEF Request
<1>5. ASSUME NEW h \in Requests, ReviewStep(h)
      PROVE  NoBatch'
  <2>1. /\ loc[h] \in ReviewLoc
        /\ loc[h].pc \in ReviewLabels
    BY <1>5, ReviewShape DEF ReviewStep, ReadAd, WriteVote, WriteRead,
         ReadRows, WriteVerdict, NextRow, At, ReviewLabels, TypeInv
  <2>2. ~loc[h].batch /\ loc[h].rest = {}
    BY <2>1 DEF NoBatch
  <2>3. CASE NextRow(h)
    BY <1>3, <2>2, <2>3 DEF NextRow
  <2>4. CASE ~NextRow(h)
    <3>1. loc' = [loc EXCEPT ![h] = loc'[h]]
      BY <1>1, <1>5, <2>4 DEF ReviewStep, ReadAd, WriteVote, WriteRead,
                              ReadRows, WriteVerdict, Goto
    <3>2. loc'[h].batch = loc[h].batch /\ loc'[h].rest = loc[h].rest
      <4>1. CASE ReadAd(h)
        BY <1>1, <2>1, <4>1 DEF ReadAd, Goto, ReviewLoc
      <4>2. CASE WriteVote(h)
        BY <1>1, <2>1, <4>2 DEF WriteVote, Goto, ReviewLoc
      <4>3. CASE WriteRead(h)
        BY <1>1, <2>1, <4>3 DEF WriteRead, Goto, ReviewLoc
      <4>4. CASE ReadRows(h)
        BY <1>1, <2>1, <4>4 DEF ReadRows, Goto, ReviewLoc
      <4>5. CASE WriteVerdict(h)
        BY <1>1, <2>1, <4>5 DEF WriteVerdict, Goto, ReviewLoc
      <4>6. QED
        BY <1>5, <2>4, <4>1, <4>2, <4>3, <4>4, <4>5 DEF ReviewStep
    <3>3. QED
      BY <1>2, <2>2, <3>1, <3>2
  <2>5. QED
    BY <2>3, <2>4
<1>6. ASSUME NEW h \in Requests,
             SubmitStep(h) \/ EditStep(h) \/ DeleteStep(h) \/ RemoveStep(h)
      PROVE  NoBatch'
  <2>1. \/ Done(h)
        \/ \E u : Goto(h, [loc[h] EXCEPT !.todo = @ \ {u}])
                  /\ loc[h].pc = "submit"
        \/ \E label \in {"editContent", "editRead", "editRows", "editReset",
                         "delRows", "rmRows"} :
             Goto(h, [loc[h] EXCEPT !.pc = label])
    BY <1>6 DEF SubmitStep, InsertRow, SetPending, EditStep, EditAd,
                EditContent, EditRead, EditRows, EditReset, DeleteStep,
                DeleteFind, DeleteRows, RemoveStep, RemoveFind, RemoveRows, At
  <2>2. loc[h] \in SubmitLoc \cup EditLoc \cup DeleteLoc \cup RemoveLoc
    BY <1>6, SubmitShape, EditShape, DeleteShape, RemoveShape
       DEF SubmitStep, InsertRow, SetPending, EditStep, EditAd, EditContent,
           EditRead, EditRows, EditReset, DeleteStep, DeleteFind, DeleteRows,
           RemoveStep, RemoveFind, RemoveRows, At, TypeInv
  <2>3. ASSUME NEW u, Goto(h, [loc[h] EXCEPT !.todo = @ \ {u}]),
               loc[h].pc = "submit"
        PROVE  NoBatch'
    <3>1. [loc[h] EXCEPT !.todo = @ \ {u}].pc \notin ReviewLabels
      BY <2>2, <2>3 DEF SubmitLoc, EditLoc, DeleteLoc, RemoveLoc, ReviewLabels
    <3>2. QED
      BY <1>2, <2>3, <3>1 DEF Goto
  <2>4. ASSUME NEW label \in {"editContent", "editRead", "editRows",
                              "editReset", "delRows", "rmRows"},
               Goto(h, [loc[h] EXCEPT !.pc = label])
        PROVE  NoBatch'
    <3>1. [loc[h] EXCEPT !.pc = label].pc \notin ReviewLabels
      BY <2>2 DEF SubmitLoc, EditLoc, DeleteLoc, RemoveLoc, ReviewLabels
    <3>2. QED
      BY <1>2, <2>4, <3>1 DEF Goto
  <2>5. QED
    BY <1>3, <2>1, <2>3, <2>4
<1>7. ASSUME loc' = loc PROVE NoBatch'
  BY <1>7 DEF NoBatch
<1>8. CASE Administrator \/ Timer \/ \E a \in Ads : Expire(a)
  BY <1>7, <1>8 DEF Administrator, AddReviewer, Toggle, Abandon, UpdateSts,
                    Timer, TimerSelect, TimerUpdate, Expire
<1>9. QED
  BY <1>3, <1>4, <1>5, <1>6, <1>8 DEF Step, Continue, Crash

LEMMA AllVerdict ==
  ASSUME AllInv, WithAll \subseteq WithAll', NEW h \in Requests
  PROVE  VerdictIn(h, WithAll')
<1> SUFFICES ASSUME ReadRows(h), loc'[h].pc \in Carrying, loc'[h].mem \in Past
             PROVE  loc'[h].ad \in WithAll'
  BY DEF VerdictIn
<1> DEFINE a == loc[h].ad
<1>1. loc[h] \in ReviewLoc /\ loc \in [Requests -> GoodLoc]
  BY ReviewShape DEF ReadRows, At, ReviewLabels, AllInv, TypeInv
<1>2. a \in Ads
  BY <1>1 DEF ReviewLoc
<1>3. loc[h].pc \in Carrying /\ ~loc[h].batch
  BY DEF ReadRows, At, Carrying, ReviewLabels, AllInv, NoBatch
<1>4. /\ loc'[h].ad = a
      /\ loc'[h].mem = Verdict(a, loc[h].mem)
  <2> DEFINE w == SingleWrites(a, loc[h].mem)
  <2>1. Goto(h, [loc[h] EXCEPT !.pc = IF w.times = 0 THEN "nextRow"
                                                     ELSE "writeVerdict",
                               !.mem = w.value, !.left = w.times])
    BY <1>3 DEF ReadRows
  <2>2. w.value = Verdict(a, loc[h].mem)
    BY DEF SingleWrites
  <2> HIDE DEF w
  <2>3. QED
    BY <1>1, <2>1, <2>2 DEF Goto, ReviewLoc
<1>5. CASE AllApproved(a)
  BY <1>2, <1>4, <1>5 DEF AllInv, Recorded
<1>6. CASE Verdict(a, loc[h].mem) = loc[h].mem
  BY <1>3, <1>4, <1>6 DEF AllInv, Backed, CarriedBacked
<1>7. QED
  BY <1>2, <1>4, <1>5, <1>6, VerdictNeedsAll

LEMMA AllInductive ==
  ASSUME "batch" \notin Ops
  PROVE  AllInv /\ [Next]_vars => AllInv'
<1> SUFFICES ASSUME AllInv, [Next]_vars PROVE AllInv'
  OBVIOUS
<1>1. TypeInv'
  BY NextTypes DEF AllInv
<1>2. CASE Next
  <2>1. Recorded' /\ WithAll \subseteq WithAll'
    BY <1>2, ObserveRecords DEF AllInv, Next
  <2>2. WithAll \in SUBSET Ads /\ WithAll' \in SUBSET Ads
    BY DEF WithAll
  <2>3. \A h \in Requests : VerdictIn(h, WithAll')
    BY <2>1, AllVerdict
  <2>4. Backed(WithAll)'
    BY <1>2, <2>1, <2>2, <2>3, NextBacked
       DEF AllInv, Backed, StatusBacked, EndingBacked, ListedBacked,
           CarriedBacked
  <2>5. NoBatch'
    BY <1>2, StepNoBatch DEF AllInv, Next
  <2>6. QED
    BY <1>1, <2>1, <2>4, <2>5 DEF AllInv
<1>3. CASE UNCHANGED vars
  <2>1. Backed(WithAll)'
    BY <1>3 DEF vars, AllInv, Backed, StatusBacked, EndingBacked, ListedBacked,
                CarriedBacked, WithAll
  <2>2. Recorded'
    BY <1>3 DEF vars, AllInv, Recorded, WithSome, WithAll, SomeApproved,
                AllApproved, NotApproved, RowsOf
  <2>3. NoBatch'
    BY <1>3 DEF vars, AllInv, NoBatch
  <2>4. QED
    BY <1>1, <2>1, <2>2, <2>3 DEF AllInv
<1>4. QED
  BY <1>2, <1>3

(* Without the page of several ads, no ad is delivered, paused or ended    *)
(* before the rows it had were all approvals at one time, whatever         *)
(* requests overlap or stop half-way.                                      *)
THEOREM DeliveredAfterFullApproval ==
  ASSUME "batch" \notin Ops
  PROVE  Spec => []ServedAfterFullApproval
<1>1. Init => AllInv
  <2>1. Init => Backed(WithAll)
    BY InitBacked, BackedGrows
  <2>2. Init => NoBatch
    BY DEF Init, NoBatch, Idle, ReviewLabels
  <2>3. QED
    BY <2>1, <2>2, InitBacked, InitTypes DEF AllInv
<1>2. AllInv => ServedAfterFullApproval
  BY DEF AllInv, Backed, StatusBacked, WithAll, ServedAfterFullApproval
<1>3. QED
  BY <1>1, <1>2, AllInductive, PTL DEF Spec
-----------------------------------------------------------------------------
(***************************************************************************)
(* Requests that do not overlap.                                           *)
(***************************************************************************)
(* Requests are made one after the other from fresh pages, by the          *)
(* operations that leave no rows half-way: a batch stores approvals before *)
(* it looks at the other votes, the removal of a reviewer drops rows       *)
(* without a new verdict, and a stop leaves what was written.              *)
OneByOne == Serial /\ Ops \cap {"batch", "remove", "crash"} = {}

(* The comparison of the old and the new content notices every change; it  *)
(* does for contents of one item.                                          *)
EditsNoticed == \A c, d \in Contents : c # d => CheckAdUrl(c, d)

(***************************************************************************)
(* An ad nobody works on is settled: its rows explain its status.          *)
(***************************************************************************)
Fits(a) == \A r \in RowsOf(a) : rows[r].on = content[a]

OneRowEach(a) ==
  \A r, s \in RowsOf(a) : rows[r].user = rows[s].user => r = s

SomeAre(a, c) == \E r \in RowsOf(a) : rows[r].check = c

Settled(a) ==
  /\ Fits(a)
  /\ sts[a] = Draft => RowsOf(a) = {}
  /\ sts[a] = Pending /\ RowsOf(a) # {} => SomeAre(a, Waiting)
  /\ sts[a] \in Switchable => live[a] /\ AllApproved(a)
  /\ ~live[a] => RowsOf(a) = {}

(***************************************************************************)
(* What holds of the ad of a request, by the label the request has         *)
(* reached.                                                                *)
(***************************************************************************)

(* The rows of the ad justify the verdict p.                               *)
Answers(a, p) ==
  \/ p = Serving /\ AllApproved(a)
  \/ p = Pending /\ SomeAre(a, Waiting)
  \/ p = Rejected /\ SomeAre(a, Refused)

(* Before the vote is stored.                                              *)
Voting(h, a) ==
  /\ live[a]
  /\ Fits(a)
  /\ sts[a] = Pending
  /\ SomeAre(a, Waiting)
  /\ loc[h].row \in RowsOf(a)

(* And after.                                                              *)
Voted(h, a) ==
  /\ live[a]
  /\ Fits(a)
  /\ loc[h].row \in RowsOf(a)
  /\ rows[loc[h].row].check = loc[h].vote

HoldsRead(h) == loc[h].mem \in {Pending, Rejected}

ReviewAt(h, a) ==
  /\ At(h, "readAd") => Voting(h, a)
  /\ At(h, "writeVote") => Voting(h, a) /\ HoldsRead(h)
  /\ At(h, "writeRead") => Voted(h, a) /\ sts[a] = Pending /\ HoldsRead(h)
  /\ At(h, "readRows") => Voted(h, a) /\ sts[a] \in {Pending, Rejected}
  /\ At(h, "writeVerdict") => /\ Voted(h, a)
                              /\ sts[a] \in {Pending, Rejected}
                              /\ loc[h].left = 1
                              /\ Answers(a, loc[h].mem)
  /\ At(h, "nextRow") => Voted(h, a) /\ Answers(a, sts[a])

SubmitAt(h, a) ==
  At(h, "submit") =>
    /\ live[a]
    /\ sts[a] = Draft
    /\ Fits(a)
    /\ \A r \in RowsOf(a) : /\ rows[r].check = Waiting
                            /\ rows[r].user \notin loc[h].todo

EditLabels == {"editAd", "editContent", "editRead", "editRows", "editReset"}

EditAt(h, a) ==
  /\ loc[h].pc \in EditLabels =>
       live[a] /\ sts[a] \notin {Serving, Ended, Abandoned}
  /\ At(h, "editAd") \/ At(h, "editContent") =>
       /\ Settled(a)
       /\ loc[h].changed = CheckAdUrl(content[a], loc[h].new)
  /\ At(h, "editRead") => /\ ~loc[h].changed => Settled(a)
                          /\ sts[a] = Draft => RowsOf(a) = {}
  /\ At(h, "editRows") => sts[a] # Draft
  /\ At(h, "editReset") => RowsOf(a) = {}

DeleteAt(h, a) ==
  loc[h].pc \in {"delFind", "delRows"} =>
    /\ ~live[a]
    /\ sts[a] \notin Switchable
    /\ Fits(a)
    /\ sts[a] = Draft => RowsOf(a) = {}

Underway(h, a) ==
  ReviewAt(h, a) /\ SubmitAt(h, a) /\ EditAt(h, a) /\ DeleteAt(h, a)

(***************************************************************************)
(* The invariant: at most one request is being worked on, and no ad but    *)
(* its ad is unsettled.                                                    *)
(***************************************************************************)
Busy(h) == loc[h] # Idle

NobodyElse(h) == ending = {} /\ \A g \in Requests : g # h => loc[g] = Idle

OneAtATime ==
  \A h \in Requests : Busy(h) => /\ NobodyElse(h)
                                 /\ loc[h].pc \notin {"rmFind", "rmRows"}

FreshIds == \A r \in RowIds : r > used => rows[r] = NoRow

Worked(a) == \E h \in Requests : Busy(h) /\ loc[h].ad = a

AlongTheWay == \A h \in Requests : Busy(h) => Underway(h, loc[h].ad)

RestSettled == \A a \in Ads : Settled(a) \/ Worked(a)

EndingDue == \A a \in ending : sts[a] \in Switchable

RowsOnce == \A a \in Ads : OneRowEach(a)

SerialInv ==
  /\ OneAtATime
  /\ FreshIds
  /\ AlongTheWay
  /\ RestSettled
  /\ EndingDue
  /\ RowsOnce

ReviewInv == TypeInv /\ NoBatch /\ SerialInv

(***************************************************************************)
(* The first row that is not an approval exists.                           *)
(***************************************************************************)
LEMMA FirstIsOne ==
  ASSUME NEW a \in Ads, NotApproved(a) # {}
  PROVE  FirstNotApproved(a) \in NotApproved(a)
<1>1. NotApproved(a) \subseteq Nat
  BY ConstantsAssumption DEF NotApproved, RowsOf, RowIds
<1>2. PICK r \in NotApproved(a) :
        \A s \in NotApproved(a) : <<s, r>> \notin OpToRel(<, Nat)
  BY <1>1, NatLessThanWellFounded, WFMin
<1>3. ASSUME NEW s \in NotApproved(a)
      PROVE  r <= s
  <2>1. s \in Nat /\ r \in Nat
    BY <1>1
  <2>2. s < r => <<s, r>> \in OpToRel(<, Nat)
    BY <2>1 DEF OpToRel
  <2>3. ~(s < r)
    BY <1>2, <2>2, Zenon
  <2>4. QED
    BY <2>1, <2>3
<1>4. QED
  BY <1>3 DEF FirstNotApproved

(* The loop over the rows finds the verdict the rows justify.              *)
LEMMA VerdictAnswers ==
  ASSUME TypeInv, NEW a \in Ads, RowsOf(a) # {}, NEW mem
  PROVE  Answers(a, Verdict(a, mem))
<1>1. CASE NotApproved(a) # {}
  <2> DEFINE r == FirstNotApproved(a)
  <2>1. r \in RowsOf(a) /\ rows[r].check # Approved
    BY <1>1, FirstIsOne DEF NotApproved
  <2>2. rows[r].check \in Check
    BY <2>1 DEF TypeInv, TypeOK, RowsOf, Row
  <2> HIDE DEF r
  <2>3. CASE rows[r].check = Refused
    BY <1>1, <2>1, <2>3 DEF Verdict, Answers, SomeAre, r
  <2>4. CASE rows[r].check = Waiting
    <3>1. Verdict(a, mem) = Pending
      BY <1>1, <2>4 DEF Verdict, r, Waiting, Refused
    <3>2. QED
      BY <2>1, <2>4, <3>1 DEF Answers, SomeAre
  <2>5. QED
    BY <2>1, <2>2, <2>3, <2>4 DEF Check
<1>2. CASE NotApproved(a) = {}
  BY <1>2 DEF Verdict, Answers, AllApproved
<1>3. QED
  BY <1>1, <1>2

(***************************************************************************)
(* Frames: what a step does not touch.                                     *)
(***************************************************************************)
SameRows(b) ==
  RowsOf(b)' = RowsOf(b) /\ \A r \in RowsOf(b) : rows'[r] = rows[r]

Untouched(b) ==
  /\ sts'[b] = sts[b]
  /\ live'[b] = live[b]
  /\ content'[b] = content[b]
  /\ SameRows(b)

LEMMA UntouchedSettled ==
  ASSUME NEW b \in Ads, Untouched(b)
  PROVE  /\ Settled(b) => Settled(b)'
         /\ OneRowEach(b) => OneRowEach(b)'
<1>1. AllApproved(b) => AllApproved(b)'
  BY DEF Untouched, SameRows, AllApproved, NotApproved
<1>2. QED
  BY <1>1 DEF Untouched, SameRows, Settled, OneRowEach, SomeAre, Fits

LEMMA UnchangedRows ==
  ASSUME rows' = rows
  PROVE  \A b \in Ads : SameRows(b)
BY DEF SameRows, RowsOf

(* A row that is written over stays a row of its ad.                       *)
LEMMA RowWritten ==
  ASSUME TypeInv, NEW r \in RowIds, rows[r] # NoRow, NEW new \in Row,
         new.ad = rows[r].ad, rows' = [rows EXCEPT ![r] = new]
  PROVE  /\ \A b \in Ads : RowsOf(b)' = RowsOf(b)
         /\ \A b \in Ads \ {new.ad} : SameRows(b)
<1>1. rows \in [RowIds -> Row \cup {NoRow}]
  BY DEF TypeInv, TypeOK
<1>2. /\ rows'[r] = new /\ new # NoRow
      /\ \A s \in RowIds : s # r => rows'[s] = rows[s]
  BY <1>1, NoRowAssumption
<1>3. ASSUME NEW b \in Ads
      PROVE  RowsOf(b)' = RowsOf(b)
  <2>1. \A s \in RowIds : (rows'[s] # NoRow /\ rows'[s].ad = b)
                            <=> (rows[s] # NoRow /\ rows[s].ad = b)
    BY <1>2
  <2>2. QED
    BY <2>1 DEF RowsOf
<1>4. ASSUME NEW b \in Ads \ {new.ad}
      PROVE  SameRows(b)
  BY <1>2, <1>3 DEF SameRows, RowsOf
<1>5. QED
  BY <1>3, <1>4

LEMMA RowsDropped ==
  ASSUME NEW a \in Ads, DropRows(RowsOf(a))
  PROVE  /\ RowsOf(a)' = {}
         /\ \A b \in Ads \ {a} : SameRows(b)
<1>1. /\ \A r \in RowsOf(a) : rows'[r] = NoRow
      /\ \A r \in RowIds \ RowsOf(a) : rows'[r] = rows[r]
  BY DEF DropRows, RowsOf
<1>2. RowsOf(a)' = {}
  BY <1>1 DEF RowsOf
<1>3. ASSUME NEW b \in Ads \ {a}
      PROVE  SameRows(b)
  <2>1. \A r \in RowIds : (rows'[r] # NoRow /\ rows'[r].ad = b)
                            <=> (rows[r] # NoRow /\ rows[r].ad = b)
    BY <1>1 DEF RowsOf
  <2>2. RowsOf(b)' = RowsOf(b)
    BY <2>1 DEF RowsOf
  <2>3. QED
    BY <1>1, <2>2 DEF SameRows, RowsOf
<1>4. QED
  BY <1>2, <1>3

LEMMA RowInserted ==
  ASSUME TypeInv, FreshIds, used < MaxRows, NEW new \in Row,
         rows' = [rows EXCEPT ![used + 1] = new]
  PROVE  /\ used + 1 \in RowIds
         /\ RowsOf(new.ad)' = RowsOf(new.ad) \cup {used + 1}
         /\ used + 1 \notin RowsOf(new.ad)
         /\ rows'[used + 1] = new
         /\ \A r \in RowsOf(new.ad) : rows'[r] = rows[r]
         /\ \A b \in Ads \ {new.ad} : SameRows(b)
         /\ \A r \in RowIds : r > used + 1 => rows'[r] = NoRow
<1>1. rows \in [RowIds -> Row \cup {NoRow}] /\ used \in 0..MaxRows
  BY DEF TypeInv, TypeOK
<1>2. used + 1 \in RowIds /\ used + 1 > used
  BY <1>1, ConstantsAssumption DEF RowIds
<1>3. rows[used + 1] = NoRow
  BY <1>2 DEF FreshIds
<1>4. /\ rows'[used + 1] = new /\ new # NoRow
      /\ \A s \in RowIds : s # used + 1 => rows'[s] = rows[s]
  BY <1>1, <1>2, NoRowAssumption
<1>5. RowsOf(new.ad)' = RowsOf(new.ad) \cup {used + 1}
  <2>1. \A s \in RowIds : (rows'[s] # NoRow /\ rows'[s].ad = new.ad)
          <=> (rows[s] # NoRow /\ rows[s].ad = new.ad) \/ s = used + 1
    BY <1>3, <1>4
  <2>2. QED
    BY <1>2, <2>1 DEF RowsOf
<1>6. ASSUME NEW b \in Ads \ {new.ad}
      PROVE  SameRows(b)
  <2>1. \A s \in RowIds : (rows'[s] # NoRow /\ rows'[s].ad = b)
                            <=> (rows[s] # NoRow /\ rows[s].ad = b)
    BY <1>3, <1>4
  <2>2. RowsOf(b)' = RowsOf(b)
    BY <2>1 DEF RowsOf
  <2>3. QED
    BY <1>3, <1>4, <2>2 DEF SameRows, RowsOf
<1>7. \A r \in RowIds : r > used + 1 => rows'[r] = NoRow
  BY <1>1, <1>4, ConstantsAssumption DEF FreshIds, RowIds
<1>8. QED
  BY <1>2, <1>3, <1>4, <1>5, <1>6, <1>7 DEF RowsOf

(***************************************************************************)
(* The invariant after a step of one request: only its ad needs a look.    *)
(***************************************************************************)
LEMMA StepOfOne ==
  ASSUME TypeInv, SerialInv,
         NEW h \in Requests, NEW a \in Ads, NEW rec,
         NobodyElse(h), Busy(h) => loc[h].ad = a,
         loc' = [loc EXCEPT ![h] = rec], ending' = ending,
         \A b \in Ads \ {a} : Untouched(b),
         FreshIds', OneRowEach(a)',
         \/ rec = Idle /\ Settled(a)'
         \/ /\ rec.ad = a
            /\ rec.pc \notin {"idle", "rmFind", "rmRows"}
            /\ Underway(h, a)'
  PROVE  SerialInv'
<1>1. loc'[h] = rec /\ \A g \in Requests \ {h} : loc'[g] = Idle
  BY DEF NobodyElse, TypeInv
<1>2. ending' = {}
  BY DEF NobodyElse
<1>3. Idle.pc \notin {"rmFind", "rmRows"}
  BY DEF Idle
<1>4. OneAtATime'
  BY <1>1, <1>2, <1>3 DEF OneAtATime, Busy, NobodyElse
<1>5. AlongTheWay'
  BY <1>1 DEF AlongTheWay, Busy
<1>6. ASSUME NEW b \in Ads \ {a}
      PROVE  Settled(b)'
  <2>1. ~Worked(b)
    BY DEF Worked, NobodyElse, Busy
  <2>2. Settled(b)
    BY <2>1 DEF SerialInv, RestSettled
  <2>3. QED
    BY <2>2, UntouchedSettled
<1>7. Settled(a)' \/ Worked(a)'
  BY <1>1 DEF Worked, Busy, Idle
<1>8. RestSettled'
  BY <1>6, <1>7 DEF RestSettled
<1>9. RowsOnce'
  BY UntouchedSettled DEF RowsOnce, SerialInv
<1>10. EndingDue'
  BY <1>2 DEF EndingDue
<1>11. QED
  BY <1>4, <1>5, <1>8, <1>9, <1>10 DEF SerialInv

(* When nobody works, everything is settled.                               *)
LEMMA IdleSettled ==
  ASSUME SerialInv, AllIdle
  PROVE  /\ \A a \in Ads : Settled(a)
         /\ \A h \in Requests : NobodyElse(h) /\ ~Busy(h)
BY DEF SerialInv, RestSettled, Worked, Busy, AllIdle, NobodyElse

LEMMA UnchangedAds ==
  ASSUME sts' = sts, live' = live, content' = content, rows' = rows
  PROVE  \A b \in Ads : Untouched(b)
BY UnchangedRows DEF Untouched

(***************************************************************************)
(* A request starts: its ad is settled and its page fresh.                 *)
(***************************************************************************)
LEMMA ReviewStarts ==
  ASSUME OneByOne, TypeInv, SerialInv, NEW h \in Requests,
         NEW r \in RowIds, NEW v \in Vote, SingleReview(h, r, v)
  PROVE  SerialInv'
<1> DEFINE rec == ReviewRecord(r, v, {}, FALSE)
<1>0. rows[r] \in Row /\ rows[r].ad \in Ads
  BY DEF SingleReview, TypeInv, TypeOK, Row
<1> PICK a \in Ads : a = rows[r].ad
  BY <1>0
<1>1. r \in RowsOf(a)
  BY <1>0 DEF SingleReview, RowsOf
<1>2. AllIdle /\ Reviewable(a)
  BY DEF SingleReview, Alone, OneByOne
<1>3. Settled(a) /\ NobodyElse(h) /\ ~Busy(h)
  BY <1>1, <1>2, IdleSettled
<1>4. sts[a] \in {Draft, Pending}
  BY <1>1, <1>2 DEF Reviewable, TypeInv, TypeOK, Status
<1>5. Voting(h, a)' <=> /\ live[a]
                        /\ Fits(a)
                        /\ sts[a] = Pending
                        /\ SomeAre(a, Waiting)
                        /\ loc'[h].row \in RowsOf(a)
  BY DEF SingleReview, Voting, Fits, SomeAre, RowsOf
<1>6. /\ rec.pc = "readAd" /\ rec.row = r /\ rec.ad = a
      /\ loc' = [loc EXCEPT ![h] = rec] /\ loc'[h] = rec
  BY DEF SingleReview, Start, ReviewRecord, TypeInv
<1> HIDE DEF rec
<1>7. Voting(h, a)'
  BY <1>1, <1>3, <1>4, <1>5, <1>6 DEF Settled
<1>8. Underway(h, a)'
  BY <1>6, <1>7 DEF Underway, ReviewAt, SubmitAt, EditAt, DeleteAt, At,
                    EditLabels
<1>9. \A b \in Ads : Untouched(b)
  BY UnchangedAds DEF SingleReview
<1>10. FreshIds' /\ OneRowEach(a)' /\ ending' = ending
  BY <1>1, <1>9, UntouchedSettled
     DEF SingleReview, SerialInv, FreshIds, RowsOnce
<1>11. QED
  BY <1>1, <1>3, <1>6, <1>8, <1>9, <1>10, StepOfOne

LEMMA SubmitStarts ==
  ASSUME OneByOne, TypeInv, SerialInv, NEW h \in Requests, NEW a \in Ads,
         SubmitCheck(h, a)
  PROVE  SerialInv'
<1> DEFINE rec == [pc |-> "submit", ad |-> a, todo |-> Reviewers]
<1>1. AllIdle /\ live[a] /\ sts[a] = Draft
  BY DEF SubmitCheck, Alone, OneByOne
<1>2. Settled(a) /\ NobodyElse(h) /\ ~Busy(h)
  BY <1>1, IdleSettled
<1>3. RowsOf(a) = {} /\ RowsOf(a)' = RowsOf(a)
  BY <1>1, <1>2 DEF Settled, SubmitCheck, RowsOf
<1>4. /\ rec.pc = "submit" /\ rec.ad = a
      /\ loc' = [loc EXCEPT ![h] = rec] /\ loc'[h] = rec
  BY DEF SubmitCheck, Start, TypeInv
<1> HIDE DEF rec
<1>5. SubmitAt(h, a)'
  BY <1>1, <1>3 DEF SubmitAt, Fits, SubmitCheck
<1>6. Underway(h, a)'
  BY <1>4, <1>5 DEF Underway, ReviewAt, EditAt, DeleteAt, At, EditLabels
<1>7. \A b \in Ads : Untouched(b)
  BY UnchangedAds DEF SubmitCheck
<1>8. FreshIds' /\ OneRowEach(a)' /\ ending' = ending
  BY <1>7, UntouchedSettled DEF SubmitCheck, SerialInv, FreshIds, RowsOnce
<1>9. QED
  BY <1>2, <1>4, <1>6, <1>7, <1>8, StepOfOne

LEMMA EditStarts ==
  ASSUME OneByOne, TypeInv, SerialInv, NEW h \in Requests, NEW a \in Ads,
         NEW c \in Contents, NEW late \in BOOLEAN, EditAdPlan(h, a, c, late)
  PROVE  SerialInv'
<1> DEFINE rec == [pc |-> "editAd", ad |-> a, new |-> c, late |-> late,
                   changed |-> CheckAdUrl(content[a], c)]
<1>1. AllIdle /\ live[a] /\ sts[a] \notin {Serving, Ended, Abandoned}
  BY DEF EditAdPlan, Alone, OneByOne
<1>2. Settled(a) /\ NobodyElse(h) /\ ~Busy(h)
  BY <1>1, IdleSettled
<1>3. \A b \in Ads : Untouched(b)
  BY UnchangedAds DEF EditAdPlan
<1>4. /\ rec.pc = "editAd" /\ rec.ad = a
      /\ rec.changed = CheckAdUrl(content[a], rec.new)
      /\ loc' = [loc EXCEPT ![h] = rec] /\ loc'[h] = rec
  BY DEF EditAdPlan, Start, TypeInv
<1> HIDE DEF rec
<1>5. Settled(a)'
  BY <1>2, <1>3, UntouchedSettled
<1>6. EditAt(h, a)'
  BY <1>1, <1>4, <1>5 DEF EditAt, EditAdPlan, At
<1>7. Underway(h, a)'
  BY <1>4, <1>6 DEF Underway, ReviewAt, SubmitAt, DeleteAt, At, ReviewLabels
<1>8. FreshIds' /\ OneRowEach(a)' /\ ending' = ending
  BY <1>3, UntouchedSettled DEF EditAdPlan, SerialInv, FreshIds, RowsOnce
<1>9. QED
  BY <1>2, <1>3, <1>4, <1>7, <1>8, StepOfOne

LEMMA DeleteStarts ==
  ASSUME OneByOne, TypeInv, SerialInv, NEW h \in Requests, NEW a \in Ads,
         DeleteAd(h, a)
  PROVE  SerialInv'
<1> DEFINE rec == [pc |-> "delFind", ad |-> a]
<1>1. AllIdle /\ live[a] /\ sts[a] \notin Switchable
  BY DEF DeleteAd, Alone, OneByOne
<1>2. Settled(a) /\ NobodyElse(h) /\ ~Busy(h)
  BY <1>1, IdleSettled
<1>3. /\ live' = [live EXCEPT ![a] = FALSE]
      /\ sts' = sts /\ content' = content /\ rows' = rows
      /\ used' = used /\ ending' = ending
  BY DEF DeleteAd
<1>4. \A b \in Ads \ {a} : Untouched(b)
  BY <1>3, UnchangedRows DEF Untouched, TypeInv, TypeOK
<1>5. /\ rec.pc = "delFind" /\ rec.ad = a
      /\ loc' = [loc EXCEPT ![h] = rec] /\ loc'[h] = rec
  BY DEF DeleteAd, Start, TypeInv
<1> HIDE DEF rec
<1>6. DeleteAt(h, a)'
  BY <1>1, <1>2, <1>3, UnchangedRows
     DEF DeleteAt, Settled, Fits, SameRows, TypeInv, TypeOK
<1>7. Underway(h, a)'
  BY <1>5, <1>6 DEF Underway, ReviewAt, SubmitAt, EditAt, At, EditLabels
<1>8. FreshIds' /\ OneRowEach(a)'
  BY <1>3, UnchangedRows
     DEF SameRows, SerialInv, FreshIds, RowsOnce, OneRowEach
<1>9. QED
  BY <1>2, <1>3, <1>4, <1>5, <1>7, <1>8, StepOfOne

LEMMA RequestSerial ==
  ASSUME OneByOne, TypeInv, SerialInv, NEW h \in Requests, Request(h)
  PROVE  SerialInv'
<1>1. ASSUME NEW S, NEW v, BatchReview(h, S, v)
      PROVE  FALSE
  BY <1>1 DEF OneByOne, BatchReview, Start
<1>2. ASSUME NEW u, RemoveReviewer(h, u)
      PROVE  FALSE
  BY <1>2 DEF OneByOne, RemoveReviewer, Start
<1>3. QED
  BY <1>1, <1>2, ReviewStarts, SubmitStarts, EditStarts, DeleteStarts
     DEF Request

(***************************************************************************)
(* A request goes on.                                                      *)
(***************************************************************************)
LEMMA GoingOn ==
  ASSUME SerialInv, NEW h \in Requests, ~At(h, "idle")
  PROVE  /\ Busy(h)
         /\ NobodyElse(h)
         /\ Underway(h, loc[h].ad)
         /\ loc[h].pc \notin {"rmFind", "rmRows"}
BY DEF SerialInv, OneAtATime, AlongTheWay, Busy, Idle, At

(* The steps of a review that write neither a row nor a status.            *)
LEMMA ReadAdSerial ==
  ASSUME TypeInv, SerialInv, NEW h \in Requests, ReadAd(h)
  PROVE  SerialInv'
<1> DEFINE rec == [loc[h] EXCEPT !.pc = "writeVote",
                                 !.mem = IF loc[h].vote = Refused
                                         THEN Rejected ELSE sts[loc[h].ad]]
<1>1. loc[h] \in ReviewLoc
  BY ReviewShape DEF ReadAd, At, ReviewLabels, TypeInv
<1> PICK a \in Ads : a = loc[h].ad
  BY <1>1 DEF ReviewLoc
<1>2. NobodyElse(h) /\ Underway(h, a)
  BY GoingOn DEF ReadAd, At
<1>3. /\ rec.pc = "writeVote" /\ rec.ad = a /\ rec.row = loc[h].row
      /\ rec.mem = IF loc[h].vote = Refused THEN Rejected ELSE sts[a]
      /\ loc' = [loc EXCEPT ![h] = rec] /\ loc'[h] = rec
  BY <1>1 DEF ReadAd, Goto, ReviewLoc, TypeInv
<1> HIDE DEF rec
<1>4. \A b \in Ads : Untouched(b)
  BY UnchangedAds DEF ReadAd
<1>5. Voting(h, a) /\ (Voting(h, a)' <=> /\ live[a]
                                         /\ Fits(a)
                                         /\ sts[a] = Pending
                                         /\ SomeAre(a, Waiting)
                                         /\ loc'[h].row \in RowsOf(a))
  BY <1>2 DEF Underway, ReviewAt, ReadAd, At, Voting, Fits, SomeAre, RowsOf
<1>6. Voting(h, a)' /\ HoldsRead(h)'
  BY <1>3, <1>5 DEF Voting, HoldsRead
<1>7. Underway(h, a)'
  BY <1>3, <1>6 DEF Underway, ReviewAt, SubmitAt, EditAt, DeleteAt, At,
                    EditLabels
<1>8. FreshIds' /\ OneRowEach(a)' /\ ending' = ending
  BY <1>4, UntouchedSettled DEF ReadAd, SerialInv, FreshIds, RowsOnce
<1>9. QED
  BY <1>2, <1>3, <1>4, <1>7, <1>8, StepOfOne

(* The vote is stored with the content it is about.                        *)
LEMMA WriteVoteSerial ==
  ASSUME TypeInv, SerialInv, NEW h \in Requests, WriteVote(h)
  PROVE  SerialInv'
<1> DEFINE rec == [loc[h] EXCEPT !.pc = "writeRead"]
<1>1. loc[h] \in ReviewLoc
  BY ReviewShape DEF WriteVote, At, ReviewLabels, TypeInv
<1> PICK a \in Ads, r \in RowIds, v \in Vote :
      a = loc[h].ad /\ r = loc[h].row /\ v = loc[h].vote
  BY <1>1 DEF ReviewLoc
<1>2. NobodyElse(h) /\ Underway(h, a)
  BY GoingOn DEF WriteVote, At
<1>3. /\ rec.pc = "writeRead" /\ rec.ad = a /\ rec.row = r
      /\ rec.vote = v /\ rec.mem = loc[h].mem
      /\ loc' = [loc EXCEPT ![h] = rec] /\ loc'[h] = rec
  BY <1>1 DEF WriteVote, Goto, ReviewLoc, TypeInv
<1> HIDE DEF rec
<1>4. Voting(h, a) /\ HoldsRead(h)
  BY <1>2 DEF Underway, ReviewAt, WriteVote, At
<1> PICK new : new = [ad |-> rows[r].ad, user |-> rows[r].user,
                      check |-> v, on |-> content[rows[r].ad]]
  OBVIOUS
<1>5. rows[r] # NoRow /\ rows[r] \in Row /\ rows[r].ad = a
  BY <1>4 DEF Voting, RowsOf, TypeInv, TypeOK
<1>6. new \in Row /\ new.ad = a /\ new.user = rows[r].user /\ new.check = v
        /\ new.on = content[a]
  BY <1>5 DEF Row, TypeInv, TypeOK, Vote, Check
<1>7. rows' = [rows EXCEPT ![r] = new]
  BY <1>5 DEF WriteVote
<1>8. /\ RowsOf(a)' = RowsOf(a)
      /\ \A b \in Ads \ {a} : SameRows(b)
      /\ rows'[r] = new
      /\ \A s \in RowIds : s # r => rows'[s] = rows[s]
  <2>1. rows \in [RowIds -> Row \cup {NoRow}]
    BY DEF TypeInv, TypeOK
  <2>2. rows'[r] = new /\ \A s \in RowIds : s # r => rows'[s] = rows[s]
    BY <1>7, <2>1
  <2>3. new.ad = rows[r].ad
    BY <1>5, <1>6
  <2>4. /\ \A b \in Ads : RowsOf(b)' = RowsOf(b)
        /\ \A b \in Ads \ {new.ad} : SameRows(b)
    BY <1>5, <1>6, <1>7, <2>3, RowWritten
  <2>5. QED
    BY <1>6, <2>2, <2>4
<1>9. sts' = sts /\ live' = live /\ content' = content /\ ending' = ending
        /\ used' = used
  BY DEF WriteVote
<1>10. \A b \in Ads \ {a} : Untouched(b)
  BY <1>8, <1>9 DEF Untouched
<1>11. OneRowEach(a)'
  <2>1. OneRowEach(a)
    BY DEF SerialInv, RowsOnce
  <2>2. \A s \in RowsOf(a) : rows'[s].user = rows[s].user
    BY <1>6, <1>8 DEF RowsOf
  <2>3. QED
    BY <1>8, <2>1, <2>2 DEF OneRowEach
<1>12. Fits(a)'
  BY <1>4, <1>6, <1>8, <1>9 DEF Voting, Fits, RowsOf
<1>13. Voted(h, a)'
  BY <1>3, <1>4, <1>6, <1>8, <1>9, <1>12 DEF Voted, Voting
<1>14. Underway(h, a)'
  BY <1>3, <1>4, <1>9, <1>13
     DEF Underway, ReviewAt, SubmitAt, EditAt, DeleteAt, At, EditLabels,
         Voting, HoldsRead
<1>15. FreshIds'
  BY <1>5, <1>8, <1>9 DEF SerialInv, FreshIds
<1>16. QED
  BY <1>2, <1>3, <1>9, <1>10, <1>11, <1>14, <1>15, StepOfOne

(* The copy of the ad is stored.                                           *)
LEMMA WriteReadSerial ==
  ASSUME TypeInv, SerialInv, NEW h \in Requests, WriteRead(h)
  PROVE  SerialInv'
<1> DEFINE rec == [loc[h] EXCEPT !.pc = "readRows"]
<1>1. loc[h] \in ReviewLoc
  BY ReviewShape DEF WriteRead, At, ReviewLabels, TypeInv
<1> PICK a \in Ads : a = loc[h].ad
  BY <1>1 DEF ReviewLoc
<1>2. NobodyElse(h) /\ Underway(h, a)
  BY GoingOn DEF WriteRead, At
<1>3. /\ rec.pc = "readRows" /\ rec.ad = a /\ rec.row = loc[h].row
      /\ rec.vote = loc[h].vote
      /\ loc' = [loc EXCEPT ![h] = rec] /\ loc'[h] = rec
  BY <1>1 DEF WriteRead, Goto, ReviewLoc, TypeInv
<1> HIDE DEF rec
<1>4. Voted(h, a) /\ loc[h].mem \in {Pending, Rejected}
  BY <1>2 DEF Underway, ReviewAt, WriteRead, At, HoldsRead
<1>5. /\ sts' = [sts EXCEPT ![a] = loc[h].mem]
      /\ live' = live /\ content' = content /\ ending' = ending
      /\ used' = used /\ rows' = rows
  BY DEF WriteRead
<1>6. sts'[a] \in {Pending, Rejected}
  BY <1>4, <1>5 DEF TypeInv, TypeOK
<1>7. /\ RowsOf(a)' = RowsOf(a)
      /\ \A b \in Ads \ {a} : Untouched(b)
  BY <1>5, UnchangedRows DEF Untouched, SameRows, TypeInv, TypeOK
<1>8. Voted(h, a)'
  BY <1>3, <1>4, <1>5, <1>7 DEF Voted, Fits
<1>9. Underway(h, a)'
  BY <1>3, <1>6, <1>8 DEF Underway, ReviewAt, SubmitAt, EditAt, DeleteAt, At,
                          EditLabels
<1>10. FreshIds' /\ OneRowEach(a)'
  BY <1>5, <1>7 DEF SerialInv, FreshIds, RowsOnce, OneRowEach
<1>11. QED
  BY <1>2, <1>3, <1>5, <1>7, <1>9, <1>10, StepOfOne

(* The loop over the rows ends in the verdict they justify.                *)
LEMMA ReadRowsSerial ==
  ASSUME TypeInv, NoBatch, SerialInv, NEW h \in Requests, ReadRows(h)
  PROVE  SerialInv'
<1>1. loc[h] \in ReviewLoc /\ ~loc[h].batch
  BY ReviewShape DEF ReadRows, At, ReviewLabels, TypeInv, NoBatch
<1> PICK a, m : a \in Ads /\ a = loc[h].ad /\ m = Verdict(a, loc[h].mem)
  BY <1>1 DEF ReviewLoc
<1> DEFINE rec == [loc[h] EXCEPT !.pc = "writeVerdict", !.mem = m, !.left = 1]
<1>2. NobodyElse(h) /\ Underway(h, a)
  BY GoingOn DEF ReadRows, At
<1>3. loc' = [loc EXCEPT ![h] = rec]
  <2>1. SingleWrites(a, loc[h].mem) = [value |-> m, times |-> 1]
    BY DEF SingleWrites
  <2>2. PICK w : w = [value |-> m, times |-> 1]
    OBVIOUS
  <2>3. Goto(h, [loc[h] EXCEPT !.pc = IF w.times = 0 THEN "nextRow"
                                                     ELSE "writeVerdict",
                               !.mem = w.value, !.left = w.times])
    BY <1>1, <2>1, <2>2 DEF ReadRows
  <2>4. w.times = 1 /\ w.times # 0 /\ w.value = m
    BY <2>2
  <2>5. QED
    BY <2>3, <2>4 DEF Goto
<1>4. /\ rec.pc = "writeVerdict" /\ rec.ad = a /\ rec.row = loc[h].row
      /\ rec.vote = loc[h].vote /\ rec.mem = m /\ rec.left = 1
  BY <1>1 DEF ReviewLoc
<1>5. loc'[h] = rec
  BY <1>3 DEF TypeInv
<1> HIDE DEF rec
<1>6. Voted(h, a) /\ sts[a] \in {Pending, Rejected}
  BY <1>2 DEF Underway, ReviewAt, ReadRows, At
<1>7. Answers(a, m)
  BY <1>6, VerdictAnswers DEF Voted
<1>8. sts' = sts /\ live' = live /\ content' = content /\ ending' = ending
        /\ used' = used /\ rows' = rows
  BY DEF ReadRows
<1>9. Voted(h, a)' /\ Answers(a, m)'
  BY <1>4, <1>5, <1>6, <1>7, <1>8
     DEF Voted, Fits, Answers, SomeAre, AllApproved, NotApproved, RowsOf
<1>10. Underway(h, a)'
  BY <1>4, <1>5, <1>6, <1>8, <1>9
     DEF Underway, ReviewAt, SubmitAt, EditAt, DeleteAt, At, EditLabels
<1>11. \A b \in Ads : Untouched(b)
  BY <1>8, UnchangedAds
<1>12. FreshIds' /\ OneRowEach(a)'
  BY <1>8, <1>11, UntouchedSettled DEF SerialInv, FreshIds, RowsOnce
<1>13. QED
  BY <1>2, <1>3, <1>4, <1>8, <1>10, <1>11, <1>12, StepOfOne

LEMMA WriteVerdictSerial ==
  ASSUME TypeInv, SerialInv, NEW h \in Requests, WriteVerdict(h)
  PROVE  SerialInv'
<1> DEFINE rec == [loc[h] EXCEPT
                     !.pc = IF loc[h].left = 1 THEN "nextRow" ELSE @,
                     !.left = @ - 1]
<1>1. loc[h] \in ReviewLoc
  BY ReviewShape DEF WriteVerdict, At, ReviewLabels, TypeInv
<1> PICK a, m : a \in Ads /\ a = loc[h].ad /\ m = loc[h].mem
  BY <1>1 DEF ReviewLoc
<1>2. NobodyElse(h) /\ Underway(h, a)
  BY GoingOn DEF WriteVerdict, At
<1>3. Voted(h, a) /\ loc[h].left = 1 /\ Answers(a, m)
  BY <1>2 DEF Underway, ReviewAt, WriteVerdict, At
<1>4. /\ rec.pc = "nextRow" /\ rec.ad = a /\ rec.row = loc[h].row
      /\ rec.vote = loc[h].vote
      /\ loc' = [loc EXCEPT ![h] = rec] /\ loc'[h] = rec
  BY <1>1, <1>3 DEF WriteVerdict, Goto, ReviewLoc, TypeInv
<1> HIDE DEF rec
<1>5. /\ sts' = [sts EXCEPT ![a] = m]
      /\ live' = live /\ content' = content /\ ending' = ending
      /\ used' = used /\ rows' = rows
  BY DEF WriteVerdict
<1>6. sts'[a] = m
  BY <1>5 DEF TypeInv, TypeOK
<1>7. /\ RowsOf(a)' = RowsOf(a)
      /\ \A b \in Ads \ {a} : Untouched(b)
  BY <1>5, UnchangedRows DEF Untouched, SameRows, TypeInv, TypeOK
<1>8. Voted(h, a)' /\ Answers(a, sts[a])'
  BY <1>3, <1>4, <1>5, <1>6, <1>7
     DEF Voted, Fits, Answers, SomeAre, AllApproved, NotApproved
<1>9. Underway(h, a)'
  BY <1>4, <1>8 DEF Underway, ReviewAt, SubmitAt, EditAt, DeleteAt, At,
                    EditLabels
<1>10. FreshIds' /\ OneRowEach(a)'
  BY <1>5, <1>7 DEF SerialInv, FreshIds, RowsOnce, OneRowEach
<1>11. QED
  BY <1>2, <1>4, <1>5, <1>7, <1>9, <1>10, StepOfOne

(* The verdict settles the ad.                                             *)
LEMMA AnswerSettles ==
  ASSUME NEW a \in Ads, live[a], Fits(a), Answers(a, sts[a])
  PROVE  Settled(a)
BY DEF Settled, Answers, Switchable, Draft, Pending, Serving, Rejected, Paused

LEMMA NextRowSerial ==
  ASSUME TypeInv, NoBatch, SerialInv, NEW h \in Requests, NextRow(h)
  PROVE  SerialInv'
<1>1. loc[h] \in ReviewLoc /\ loc[h].rest = {}
  BY ReviewShape DEF NextRow, At, ReviewLabels, TypeInv, NoBatch
<1> PICK a \in Ads : a = loc[h].ad
  BY <1>1 DEF ReviewLoc
<1>2. NobodyElse(h) /\ Underway(h, a)
  BY GoingOn DEF NextRow, At
<1>3. Settled(a)
  BY <1>2, AnswerSettles DEF Underway, ReviewAt, NextRow, At, Voted
<1>4. loc' = [loc EXCEPT ![h] = Idle]
  BY <1>1 DEF NextRow, Done, Goto
<1>5. \A b \in Ads : Untouched(b)
  BY UnchangedAds DEF NextRow
<1>6. FreshIds' /\ OneRowEach(a)' /\ Settled(a)' /\ ending' = ending
  BY <1>3, <1>5, UntouchedSettled DEF NextRow, SerialInv, FreshIds, RowsOnce
<1>7. QED
  BY <1>2, <1>4, <1>5, <1>6, StepOfOne

LEMMA InsertRowSerial ==
  ASSUME TypeInv, SerialInv, NEW h \in Requests, InsertRow(h)
  PROVE  SerialInv'
<1>1. loc[h] \in SubmitLoc
  BY SubmitShape DEF InsertRow, At, TypeInv
<1> PICK a, todo : a \in Ads /\ a = loc[h].ad /\ todo = loc[h].todo
  BY <1>1 DEF SubmitLoc
<1>2. NobodyElse(h) /\ Underway(h, a)
  BY GoingOn DEF InsertRow, At
<1> PICK u \in todo :
      /\ rows' = [rows EXCEPT ![used + 1] =
                    [ad |-> a, user |-> u, check |-> Waiting,
                     on |-> content[a]]]
      /\ Goto(h, [loc[h] EXCEPT !.todo = @ \ {u}])
  BY DEF InsertRow
<1> PICK new : new = [ad |-> a, user |-> u, check |-> Waiting,
                      on |-> content[a]]
  OBVIOUS
<1> DEFINE rec == [loc[h] EXCEPT !.todo = @ \ {u}]
<1>3. /\ rec.pc = "submit" /\ rec.ad = a /\ rec.todo = todo \ {u}
      /\ loc' = [loc EXCEPT ![h] = rec] /\ loc'[h] = rec
  BY <1>1 DEF InsertRow, At, Goto, SubmitLoc, TypeInv
<1> HIDE DEF rec
<1>4. /\ new \in Row /\ new.ad = a /\ new.user = u /\ new.check = Waiting
      /\ new.on = content[a]
  BY <1>1 DEF SubmitLoc, Row, Check, TypeInv, TypeOK
<1>5. PICK n : n = used + 1
  OBVIOUS
<1>6. /\ n \in RowIds
      /\ RowsOf(a)' = RowsOf(a) \cup {n}
      /\ n \notin RowsOf(a)
      /\ rows'[n] = new
      /\ \A r \in RowsOf(a) : rows'[r] = rows[r]
      /\ \A b \in Ads \ {a} : SameRows(b)
      /\ \A r \in RowIds : r > n => rows'[r] = NoRow
  <2>1. TypeInv /\ FreshIds /\ used < MaxRows
        /\ rows' = [rows EXCEPT ![used + 1] = new]
    BY <1>1 DEF InsertRow, SerialInv
  <2>2. QED
    BY <1>4, <1>5, <2>1, RowInserted
<1>7. /\ sts' = sts /\ live' = live /\ content' = content
      /\ ending' = ending /\ used' = n
  BY <1>5 DEF InsertRow
<1>8. \A b \in Ads \ {a} : Untouched(b)
  BY <1>6, <1>7 DEF Untouched
<1>9. SubmitAt(h, a) /\ At(h, "submit")
  BY <1>2 DEF Underway, InsertRow
<1>10. \A r \in RowsOf(a) : rows[r].user # u
  BY <1>9 DEF SubmitAt
<1>11. OneRowEach(a)'
  <2>1. OneRowEach(a)
    BY DEF SerialInv, RowsOnce
  <2>2. QED
    BY <1>4, <1>6, <1>10, <2>1 DEF OneRowEach
<1>12. SubmitAt(h, a)'
  <2>1. Fits(a)'
    BY <1>4, <1>6, <1>7, <1>9 DEF SubmitAt, Fits
  <2>2. \A r \in RowsOf(a)' : /\ rows'[r].check = Waiting
                              /\ rows'[r].user \notin todo \ {u}
    BY <1>4, <1>6, <1>9 DEF SubmitAt
  <2>3. loc'[h].todo = todo \ {u}
    BY <1>3
  <2>4. /\ live'[a]
        /\ sts'[a] = Draft
    BY <1>7, <1>9 DEF SubmitAt
  <2>5. QED
    BY <2>1, <2>2, <2>3, <2>4 DEF SubmitAt
<1>13. Underway(h, a)'
  BY <1>3, <1>12 DEF Underway, ReviewAt, EditAt, DeleteAt, At, EditLabels
<1>14. FreshIds'
  BY <1>6, <1>7 DEF FreshIds
<1>15. QED
  BY <1>2, <1>3, <1>7, <1>8, <1>11, <1>13, <1>14, StepOfOne

(* All the reviewers have been asked: the ad waits for them.               *)
LEMMA SetPendingSerial ==
  ASSUME TypeInv, SerialInv, NEW h \in Requests, SetPending(h)
  PROVE  SerialInv'
<1>1. loc[h] \in SubmitLoc
  BY SubmitShape DEF SetPending, At, TypeInv
<1> PICK a \in Ads : a = loc[h].ad
  BY <1>1 DEF SubmitLoc
<1>2. NobodyElse(h) /\ Underway(h, a)
  BY GoingOn DEF SetPending, At
<1>3. SubmitAt(h, a) /\ At(h, "submit")
  BY <1>2 DEF Underway, SetPending
<1>4. /\ sts' = [sts EXCEPT ![a] = Pending]
      /\ live' = live /\ content' = content /\ ending' = ending
      /\ used' = used /\ rows' = rows
      /\ loc' = [loc EXCEPT ![h] = Idle]
  BY DEF SetPending, Done, Goto
<1>5. sts'[a] = Pending
  BY <1>4 DEF TypeInv, TypeOK
<1>6. /\ RowsOf(a)' = RowsOf(a)
      /\ \A b \in Ads \ {a} : Untouched(b)
  BY <1>4, UnchangedRows DEF Untouched, SameRows, TypeInv, TypeOK
<1>7. Settled(a)'
  BY <1>3, <1>4, <1>5, <1>6
     DEF SubmitAt, Settled, Fits, SomeAre, Pending, Draft, Switchable, Serving,
         Paused
<1>8. FreshIds' /\ OneRowEach(a)'
  BY <1>4, <1>6 DEF SerialInv, FreshIds, RowsOnce, OneRowEach
<1>9. QED
  BY <1>2, <1>4, <1>6, <1>7, <1>8, StepOfOne

LEMMA EditAdSerial ==
  ASSUME TypeInv, SerialInv, NEW h \in Requests, EditAd(h)
  PROVE  SerialInv'
<1> DEFINE rec == [loc[h] EXCEPT !.pc = "editContent"]
<1>1. loc[h] \in EditLoc
  BY EditShape DEF EditAd, At, TypeInv
<1> PICK a \in Ads : a = loc[h].ad
  BY <1>1 DEF EditLoc
<1>2. NobodyElse(h) /\ Underway(h, a)
  BY GoingOn DEF EditAd, At
<1>3. /\ rec.pc = "editContent" /\ rec.ad = a /\ rec.new = loc[h].new
      /\ rec.changed = loc[h].changed
      /\ loc' = [loc EXCEPT ![h] = rec] /\ loc'[h] = rec
  BY <1>1 DEF EditAd, Goto, EditLoc, TypeInv
<1> HIDE DEF rec
<1>4. /\ live[a] /\ sts[a] \notin {Serving, Ended, Abandoned}
      /\ Settled(a)
      /\ loc[h].changed = CheckAdUrl(content[a], loc[h].new)
  BY <1>2 DEF Underway, EditAt, EditAd, At, EditLabels
<1>5. sts' = sts /\ live' = live /\ content' = content /\ ending' = ending
        /\ used' = used /\ rows' = rows
  BY DEF EditAd
<1>6. \A b \in Ads : Untouched(b)
  BY <1>5, UnchangedAds
<1>7. Settled(a)' /\ OneRowEach(a)' /\ FreshIds'
  BY <1>4, <1>5, <1>6, UntouchedSettled DEF SerialInv, FreshIds, RowsOnce
<1>8. EditAt(h, a)'
  BY <1>3, <1>4, <1>5, <1>7 DEF EditAt, At
<1>9. Underway(h, a)'
  BY <1>3, <1>8 DEF Underway, ReviewAt, SubmitAt, DeleteAt, At, ReviewLabels
<1>10. QED
  BY <1>2, <1>3, <1>5, <1>6, <1>7, <1>9, StepOfOne

(* Only a change that was noticed puts another content under the rows.     *)
LEMMA EditContentSerial ==
  ASSUME EditsNoticed, TypeInv, SerialInv, NEW h \in Requests, EditContent(h)
  PROVE  SerialInv'
<1> DEFINE rec == [loc[h] EXCEPT !.pc = "editRead"]
<1>1. loc[h] \in EditLoc
  BY EditShape DEF EditContent, At, TypeInv
<1> PICK a \in Ads, c \in Contents : a = loc[h].ad /\ c = loc[h].new
  BY <1>1 DEF EditLoc
<1>2. NobodyElse(h) /\ Underway(h, a)
  BY GoingOn DEF EditContent, At
<1>3. /\ rec.pc = "editRead" /\ rec.ad = a /\ rec.changed = loc[h].changed
      /\ loc' = [loc EXCEPT ![h] = rec] /\ loc'[h] = rec
  BY <1>1 DEF EditContent, Goto, EditLoc, TypeInv
<1> HIDE DEF rec
<1>4. /\ live[a] /\ sts[a] \notin {Serving, Ended, Abandoned}
      /\ Settled(a)
      /\ loc[h].changed = CheckAdUrl(content[a], c)
  BY <1>2 DEF Underway, EditAt, EditContent, At, EditLabels
<1>5. /\ content' = [content EXCEPT ![a] = c]
      /\ sts' = sts /\ live' = live /\ ending' = ending
      /\ used' = used /\ rows' = rows
  BY DEF EditContent
<1>6. /\ RowsOf(a)' = RowsOf(a)
      /\ \A b \in Ads \ {a} : Untouched(b)
  BY <1>5, UnchangedRows DEF Untouched, SameRows, TypeInv, TypeOK
<1>7. ~loc[h].changed => Settled(a)'
  <2>1. SUFFICES ASSUME ~loc[h].changed PROVE Settled(a)'
    OBVIOUS
  <2>2. content[a] = c
    BY <1>4, <2>1 DEF EditsNoticed, TypeInv, TypeOK
  <2>3. content'[a] = content[a]
    BY <1>5, <2>2 DEF TypeInv, TypeOK
  <2>4. Untouched(a)
    BY <1>5, <2>3, UnchangedRows DEF Untouched
  <2>5. QED
    BY <1>4, <2>4, UntouchedSettled
<1>8. EditAt(h, a)'
  BY <1>3, <1>4, <1>5, <1>6, <1>7 DEF EditAt, At, Settled
<1>9. Underway(h, a)'
  BY <1>3, <1>8 DEF Underway, ReviewAt, SubmitAt, DeleteAt, At, ReviewLabels
<1>10. FreshIds' /\ OneRowEach(a)'
  BY <1>5, <1>6 DEF SerialInv, FreshIds, RowsOnce, OneRowEach
<1>11. QED
  BY <1>2, <1>3, <1>5, <1>6, <1>9, <1>10, StepOfOne

LEMMA EditReadSerial ==
  ASSUME TypeInv, SerialInv, NEW h \in Requests, EditRead(h)
  PROVE  SerialInv'
<1> DEFINE rec == [loc[h] EXCEPT !.pc = "editRows"]
<1>1. loc[h] \in EditLoc
  BY EditShape DEF EditRead, At, TypeInv
<1> PICK a \in Ads : a = loc[h].ad
  BY <1>1 DEF EditLoc
<1>2. NobodyElse(h) /\ Underway(h, a)
  BY GoingOn DEF EditRead, At
<1>3. /\ live[a] /\ sts[a] \notin {Serving, Ended, Abandoned}
      /\ ~loc[h].changed => Settled(a)
      /\ sts[a] = Draft => RowsOf(a) = {}
  BY <1>2 DEF Underway, EditAt, EditRead, At, EditLabels
<1>4. sts' = sts /\ live' = live /\ content' = content /\ ending' = ending
        /\ used' = used /\ rows' = rows
  BY DEF EditRead
<1>5. \A b \in Ads : Untouched(b)
  BY <1>4, UnchangedAds
<1>6. OneRowEach(a)' /\ FreshIds'
  BY <1>4, <1>5, UntouchedSettled DEF SerialInv, FreshIds, RowsOnce
<1>7. CASE loc[h].changed /\ sts[a] # Draft
  <2>1. /\ rec.pc = "editRows" /\ rec.ad = a
        /\ loc' = [loc EXCEPT ![h] = rec] /\ loc'[h] = rec
    BY <1>1, <1>7 DEF EditRead, Goto, EditLoc, TypeInv
  <2> HIDE DEF rec
  <2>2. Underway(h, a)'
    BY <1>3, <1>4, <1>7, <2>1
       DEF Underway, EditAt, ReviewAt, SubmitAt, DeleteAt, At, ReviewLabels
  <2>3. QED
    BY <1>2, <1>4, <1>5, <1>6, <2>1, <2>2, StepOfOne
<1>8. CASE ~(loc[h].changed /\ sts[a] # Draft)
  <2>1. loc' = [loc EXCEPT ![h] = Idle]
    BY <1>8 DEF EditRead, Done, Goto
  <2>2. sts[a] = Draft => Settled(a)
    BY <1>3 DEF Settled, Fits, Draft, Pending, Switchable, Serving, Paused
  <2>3. Settled(a)'
    BY <1>3, <1>5, <1>8, <2>2, UntouchedSettled
  <2>4. QED
    BY <1>2, <1>4, <1>5, <1>6, <2>1, <2>3, StepOfOne
<1>9. QED
  BY <1>7, <1>8

LEMMA EditRowsSerial ==
  ASSUME TypeInv, SerialInv, NEW h \in Requests, EditRows(h)
  PROVE  SerialInv'
<1> DEFINE rec == [loc[h] EXCEPT !.pc = "editReset"]
<1>1. loc[h] \in EditLoc
  BY EditShape DEF EditRows, At, TypeInv
<1> PICK a \in Ads : a = loc[h].ad
  BY <1>1 DEF EditLoc
<1>2. NobodyElse(h) /\ Underway(h, a)
  BY GoingOn DEF EditRows, At
<1>3. /\ rec.pc = "editReset" /\ rec.ad = a
      /\ loc' = [loc EXCEPT ![h] = rec] /\ loc'[h] = rec
  BY <1>1 DEF EditRows, Goto, EditLoc, TypeInv
<1> HIDE DEF rec
<1>4. live[a] /\ sts[a] \notin {Serving, Ended, Abandoned}
  BY <1>2 DEF Underway, EditAt, EditRows, At, EditLabels
<1>5. sts' = sts /\ live' = live /\ content' = content /\ ending' = ending
        /\ used' = used
  BY DEF EditRows
<1>6. RowsOf(a)' = {} /\ \A b \in Ads \ {a} : SameRows(b)
  BY RowsDropped DEF EditRows
<1>7. \A b \in Ads \ {a} : Untouched(b)
  BY <1>5, <1>6 DEF Untouched
<1>8. Underway(h, a)'
  BY <1>3, <1>4, <1>5, <1>6
     DEF Underway, EditAt, ReviewAt, SubmitAt, DeleteAt, At, ReviewLabels
<1>9. OneRowEach(a)' /\ FreshIds'
  BY <1>5, <1>6 DEF OneRowEach, SerialInv, FreshIds, EditRows, DropRows
<1>10. QED
  BY <1>2, <1>3, <1>5, <1>7, <1>8, <1>9, StepOfOne

LEMMA EditResetSerial ==
  ASSUME TypeInv, SerialInv, NEW h \in Requests, EditReset(h)
  PROVE  SerialInv'
<1>1. loc[h] \in EditLoc
  BY EditShape DEF EditReset, At, TypeInv
<1> PICK a \in Ads : a = loc[h].ad
  BY <1>1 DEF EditLoc
<1>2. NobodyElse(h) /\ Underway(h, a)
  BY GoingOn DEF EditReset, At
<1>3. live[a] /\ RowsOf(a) = {}
  BY <1>2 DEF Underway, EditAt, EditReset, At, EditLabels
<1>4. /\ sts' = [sts EXCEPT ![a] = Draft]
      /\ live' = live /\ content' = content /\ ending' = ending
      /\ used' = used /\ rows' = rows
      /\ loc' = [loc EXCEPT ![h] = Idle]
  BY DEF EditReset, Done, Goto
<1>5. sts'[a] = Draft
  BY <1>4 DEF TypeInv, TypeOK
<1>6. /\ RowsOf(a)' = RowsOf(a)
      /\ \A b \in Ads \ {a} : Untouched(b)
  BY <1>4, UnchangedRows DEF Untouched, SameRows, TypeInv, TypeOK
<1>7. Settled(a)'
  BY <1>3, <1>4, <1>5, <1>6
     DEF Settled, Fits, Pending, Draft, Switchable, Serving, Paused
<1>8. FreshIds' /\ OneRowEach(a)'
  BY <1>4, <1>6 DEF SerialInv, FreshIds, RowsOnce, OneRowEach
<1>9. QED
  BY <1>2, <1>4, <1>6, <1>7, <1>8, StepOfOne

LEMMA DeleteFindSerial ==
  ASSUME TypeInv, SerialInv, NEW h \in Requests, DeleteFind(h)
  PROVE  SerialInv'
<1> DEFINE rec == [loc[h] EXCEPT !.pc = "delRows"]
<1>1. loc[h] \in DeleteLoc
  BY DeleteShape DEF DeleteFind, At, TypeInv
<1> PICK a \in Ads : a = loc[h].ad
  BY <1>1 DEF DeleteLoc
<1>2. NobodyElse(h) /\ Underway(h, a)
  BY GoingOn DEF DeleteFind, At
<1>3. /\ ~live[a]
      /\ sts[a] \notin Switchable
      /\ Fits(a)
      /\ sts[a] = Draft => RowsOf(a) = {}
  BY <1>2 DEF Underway, DeleteAt, DeleteFind, At
<1>4. sts' = sts /\ live' = live /\ content' = content /\ ending' = ending
        /\ used' = used /\ rows' = rows
  BY DEF DeleteFind
<1>5. \A b \in Ads : Untouched(b)
  BY <1>4, UnchangedAds
<1>6. OneRowEach(a)' /\ FreshIds'
  BY <1>4, <1>5, UntouchedSettled DEF SerialInv, FreshIds, RowsOnce
<1>7. CASE RowsOf(a) # {}
  <2>1. /\ rec.pc = "delRows" /\ rec.ad = a
        /\ loc' = [loc EXCEPT ![h] = rec] /\ loc'[h] = rec
    BY <1>1, <1>7 DEF DeleteFind, Goto, DeleteLoc, TypeInv
  <2> HIDE DEF rec
  <2>2. Fits(a)' /\ RowsOf(a)' = RowsOf(a)
    BY <1>3, <1>4 DEF Fits, RowsOf
  <2>3. Underway(h, a)'
    BY <1>3, <1>4, <2>1, <2>2 DEF Underway, EditAt, ReviewAt, SubmitAt,
                                  DeleteAt, At, EditLabels
  <2>4. QED
    BY <1>2, <1>4, <1>5, <1>6, <2>1, <2>3, StepOfOne
<1>8. CASE RowsOf(a) = {}
  <2>1. loc' = [loc EXCEPT ![h] = Idle]
    BY <1>8 DEF DeleteFind, Done, Goto
  <2>2. Settled(a)
    BY <1>3, <1>8 DEF Settled
  <2>3. Settled(a)'
    BY <1>5, <2>2, UntouchedSettled
  <2>4. QED
    BY <1>2, <1>4, <1>5, <1>6, <2>1, <2>3, StepOfOne
<1>9. QED
  BY <1>7, <1>8

LEMMA DeleteRowsSerial ==
  ASSUME TypeInv, SerialInv, NEW h \in Requests, DeleteRows(h)
  PROVE  SerialInv'
<1>1. loc[h] \in DeleteLoc
  BY DeleteShape DEF DeleteRows, At, TypeInv
<1> PICK a \in Ads : a = loc[h].ad
  BY <1>1 DEF DeleteLoc
<1>2. NobodyElse(h) /\ Underway(h, a)
  BY GoingOn DEF DeleteRows, At
<1>3. ~live[a] /\ sts[a] \notin Switchable
  BY <1>2 DEF Underway, DeleteAt, DeleteRows, At
<1>4. /\ sts' = sts /\ live' = live /\ content' = content /\ ending' = ending
      /\ used' = used
      /\ loc' = [loc EXCEPT ![h] = Idle]
  BY DEF DeleteRows, Done, Goto
<1>5. RowsOf(a)' = {} /\ \A b \in Ads \ {a} : SameRows(b)
  BY RowsDropped DEF DeleteRows
<1>6. \A b \in Ads \ {a} : Untouched(b)
  BY <1>4, <1>5 DEF Untouched
<1>7. Settled(a)'
  BY <1>3, <1>4, <1>5 DEF Settled, Fits
<1>8. OneRowEach(a)' /\ FreshIds'
  BY <1>4, <1>5 DEF OneRowEach, SerialInv, FreshIds, DeleteRows, DropRows
<1>9. QED
  BY <1>2, <1>4, <1>6, <1>7, <1>8, StepOfOne

LEMMA ContinueSerial ==
  ASSUME EditsNoticed, TypeInv, NoBatch, SerialInv,
         NEW h \in Requests, Continue(h)
  PROVE  SerialInv'
<1>1. ~RemoveStep(h)
  BY GoingOn DEF RemoveStep, RemoveFind, RemoveRows, At
<1>2. CASE ReviewStep(h)
  BY <1>2, ReadAdSerial, WriteVoteSerial, WriteReadSerial, ReadRowsSerial,
     WriteVerdictSerial, NextRowSerial DEF ReviewStep
<1>3. CASE SubmitStep(h)
  BY <1>3, InsertRowSerial, SetPendingSerial DEF SubmitStep
<1>4. CASE EditStep(h)
  BY <1>4, EditAdSerial, EditContentSerial, EditReadSerial, EditRowsSerial,
     EditResetSerial DEF EditStep
<1>5. CASE DeleteStep(h)
  BY <1>5, DeleteFindSerial, DeleteRowsSerial DEF DeleteStep
<1>6. QED
  BY <1>1, <1>2, <1>3, <1>4, <1>5 DEF Continue

(***************************************************************************)
(* Steps taken while no request is being worked on.                        *)
(***************************************************************************)
LEMMA StepAtRest ==
  ASSUME SerialInv, \A h \in Requests : loc[h] = Idle,
         loc' = loc, rows' = rows, used' = used,
         \A a \in Ads : Settled(a)', EndingDue'
  PROVE  SerialInv'
<1>1. OneAtATime' /\ AlongTheWay'
  BY DEF OneAtATime, AlongTheWay, Busy
<1>2. FreshIds'
  BY DEF SerialInv, FreshIds
<1>3. RestSettled'
  BY DEF RestSettled
<1>4. RowsOnce'
  BY UnchangedRows DEF SameRows, SerialInv, RowsOnce, OneRowEach
<1>5. QED
  BY <1>1, <1>2, <1>3, <1>4 DEF SerialInv

(* An update of the status alone, between statuses an approval allows.     *)
LEMMA StatusMoves ==
  ASSUME NEW a \in Ads, Settled(a), rows' = rows, live' = live,
         content' = content, sts'[a] \notin {Draft, Pending},
         sts'[a] \in Switchable => sts[a] \in Switchable
  PROVE  Settled(a)'
<1>1. RowsOf(a)' = RowsOf(a)
  BY DEF RowsOf
<1>2. QED
  BY <1>1 DEF Settled, Fits, AllApproved, NotApproved

LEMMA AdministratorSerial ==
  ASSUME OneByOne, TypeInv, SerialInv, Administrator
  PROVE  SerialInv'
<1>1. AllIdle
  BY DEF OneByOne, Administrator, AddReviewer, Toggle, Abandon, Alone
<1>2. /\ loc' = loc /\ rows' = rows /\ used' = used /\ ending' = ending
      /\ live' = live /\ content' = content
  BY DEF Administrator, AddReviewer, Toggle, Abandon, UpdateSts
<1>3. \A a \in Ads : Settled(a)
  BY <1>1, IdleSettled
<1>4. EndingDue' /\ \A h \in Requests : loc[h] = Idle
  BY <1>1, <1>2 DEF AllIdle, EndingDue
<1>5. \A a \in Ads : Settled(a)'
  <2>1. ASSUME NEW u \in Users, AddReviewer(u), NEW a \in Ads
        PROVE  Settled(a)'
    BY <1>2, <1>3, <2>1, UnchangedAds, UntouchedSettled DEF AddReviewer
  <2>2. ASSUME NEW b \in Ads, NEW v \in Switchable, Toggle(b, v), NEW a \in Ads
        PROVE  Settled(a)'
    <3>1. sts' = [sts EXCEPT ![b] = v] /\ sts[b] \in Switchable
      BY <2>2 DEF Toggle, UpdateSts, Alone, OneByOne
    <3>2. CASE a = b
      <4>1. sts'[a] = v /\ v \notin {Draft, Pending}
        BY <3>1, <3>2 DEF TypeInv, TypeOK, Switchable, Draft, Pending,
                          Serving, Paused
      <4>2. QED
        BY <1>2, <1>3, <3>1, <3>2, <4>1, StatusMoves
    <3>3. CASE a # b
      <4>1. Untouched(a)
        BY <1>2, <3>1, <3>3, UnchangedRows DEF Untouched, TypeInv, TypeOK
      <4>2. QED
        BY <1>3, <4>1, UntouchedSettled
    <3>4. QED
      BY <3>2, <3>3
  <2>3. ASSUME NEW b \in Ads, Abandon(b), NEW a \in Ads
        PROVE  Settled(a)'
    <3>1. sts' = [sts EXCEPT ![b] = Abandoned]
      BY <2>3 DEF Abandon, UpdateSts
    <3>2. CASE a = b
      <4>1. sts'[a] \notin {Draft, Pending} /\ sts'[a] \notin Switchable
        BY <3>1, <3>2 DEF TypeInv, TypeOK, Switchable, Draft, Pending,
                          Serving, Paused, Abandoned
      <4>2. QED
        BY <1>2, <1>3, <4>1, StatusMoves
    <3>3. CASE a # b
      <4>1. Untouched(a)
        BY <1>2, <3>1, <3>3, UnchangedRows DEF Untouched, TypeInv, TypeOK
      <4>2. QED
        BY <1>3, <4>1, UntouchedSettled
    <3>4. QED
      BY <3>2, <3>3
  <2>4. QED
    BY <2>1, <2>2, <2>3 DEF Administrator
<1>6. QED
  BY <1>2, <1>4, <1>5, StepAtRest

LEMMA TimerSerial ==
  ASSUME OneByOne, TypeInv, SerialInv, Timer
  PROVE  SerialInv'
<1>1. loc' = loc /\ rows' = rows /\ used' = used /\ live' = live
        /\ content' = content
  BY DEF Timer, TimerSelect, TimerUpdate
<1>2. \A h \in Requests : loc[h] = Idle
  BY DEF Timer, TimerSelect, TimerUpdate, OneByOne, Alone, AllIdle, SerialInv,
         OneAtATime, Busy, NobodyElse
<1>3. \A a \in Ads : Settled(a)
  BY <1>2 DEF SerialInv, RestSettled, Worked, Busy
<1>4. CASE TimerSelect
  <2>1. EndingDue'
    BY <1>4 DEF TimerSelect, EndingDue
  <2>2. \A a \in Ads : Settled(a)'
    BY <1>1, <1>3, <1>4, UnchangedAds, UntouchedSettled DEF TimerSelect
  <2>3. QED
    BY <1>1, <1>2, <2>1, <2>2, StepAtRest
<1>5. CASE TimerUpdate
  <2>1. EndingDue'
    BY <1>5 DEF TimerUpdate, EndingDue
  <2>2. ASSUME NEW a \in Ads
        PROVE  Settled(a)'
    <3>1. sts'[a] = IF a \in ending THEN Ended ELSE sts[a]
      BY <1>5 DEF TimerUpdate
    <3>2. CASE a \in ending
      <4>1. sts'[a] \notin {Draft, Pending} /\ sts'[a] \notin Switchable
        BY <3>1, <3>2 DEF Switchable, Draft, Pending, Serving, Paused, Ended
      <4>2. QED
        BY <1>1, <1>3, <4>1, StatusMoves
    <3>3. CASE a \notin ending
      <4>1. Untouched(a)
        BY <1>1, <3>1, <3>3, UnchangedRows DEF Untouched
      <4>2. QED
        BY <1>3, <4>1, UntouchedSettled
    <3>4. QED
      BY <3>2, <3>3
  <2>3. QED
    BY <1>1, <1>2, <2>1, <2>2, StepAtRest
<1>6. QED
  BY <1>4, <1>5 DEF Timer

(* Nothing in the invariant depends on the end times and the histories.    *)
LEMMA NothingMoves ==
  ASSUME SerialInv,
         UNCHANGED <<sts, live, content, rows, used, loc, ending>>
  PROVE  SerialInv'
<1>1. /\ sts' = sts /\ live' = live /\ content' = content /\ rows' = rows
      /\ used' = used /\ loc' = loc /\ ending' = ending
  OBVIOUS
<1>2. \A b \in Ads : Untouched(b)
  BY <1>1, UnchangedAds
<1>3. OneAtATime' /\ FreshIds' /\ EndingDue'
  BY <1>1 DEF SerialInv, OneAtATime, FreshIds, EndingDue, Busy, NobodyElse
<1>4. RestSettled' /\ RowsOnce'
  <2>1. ASSUME NEW b \in Ads, Settled(b)
        PROVE  Settled(b)'
    BY <1>2, <2>1, UntouchedSettled
  <2>2. \A b \in Ads : Worked(b)' <=> Worked(b)
    BY <1>1 DEF Worked, Busy
  <2>3. RestSettled'
    BY <2>1, <2>2 DEF SerialInv, RestSettled
  <2>4. RowsOnce'
    <3>1. \A b \in Ads : OneRowEach(b) => OneRowEach(b)'
      BY <1>2, UntouchedSettled
    <3>2. QED
      BY <3>1 DEF SerialInv, RowsOnce
  <2>5. QED
    BY <2>3, <2>4
<1>5. AlongTheWay'
  <2>1. ASSUME NEW h \in Requests, NEW a, Underway(h, a)
        PROVE  Underway(h, a)'
    <3>1. RowsOf(a)' = RowsOf(a)
      BY <1>1 DEF RowsOf
    <3>2. /\ Fits(a)' = Fits(a)
          /\ AllApproved(a)' = AllApproved(a)
          /\ \A c : SomeAre(a, c)' = SomeAre(a, c)
      BY <1>1, <3>1 DEF Fits, SomeAre, AllApproved, NotApproved
    <3>3. Settled(a) => Settled(a)'
      BY <1>1, <3>1, <3>2 DEF Settled
    <3>4. ReviewAt(h, a) => ReviewAt(h, a)'
      <4>1. /\ Voting(h, a) => Voting(h, a)'
            /\ Voted(h, a) => Voted(h, a)'
        BY <1>1, <3>1, <3>2 DEF Voting, Voted
      <4>2. \A p : Answers(a, p) => Answers(a, p)'
        BY <3>2 DEF Answers
      <4>3. QED
        BY <1>1, <4>1, <4>2 DEF ReviewAt, At, HoldsRead
    <3>5. SubmitAt(h, a) => SubmitAt(h, a)'
      BY <1>1, <3>1, <3>2 DEF SubmitAt, At
    <3>6. EditAt(h, a) => EditAt(h, a)'
      BY <1>1, <3>1, <3>3 DEF EditAt, At
    <3>7. DeleteAt(h, a) => DeleteAt(h, a)'
      BY <1>1, <3>1, <3>2 DEF DeleteAt
    <3>8. QED
      BY <2>1, <3>4, <3>5, <3>6, <3>7 DEF Underway
  <2>2. QED
    BY <1>1, <2>1 DEF SerialInv, AlongTheWay, Busy
<1>6. QED
  BY <1>3, <1>4, <1>5 DEF SerialInv

(***************************************************************************)
(* The invariant holds.                                                    *)
(***************************************************************************)
LEMMA InitSerial == Init => ReviewInv
<1> SUFFICES ASSUME Init PROVE ReviewInv
  OBVIOUS
<1>1. /\ \A a \in Ads : RowsOf(a) = {} /\ sts[a] = Draft /\ live[a]
      /\ \A h \in Requests : loc[h] = Idle
      /\ \A r \in RowIds : rows[r] = NoRow
      /\ ending = {}
  BY DEF Init, RowsOf
<1>2. TypeInv
  BY InitTypes
<1>3. NoBatch
  BY <1>1 DEF NoBatch, Idle, ReviewLabels
<1>4. \A a \in Ads : Settled(a) /\ OneRowEach(a)
  BY <1>1 DEF Settled, OneRowEach, Fits, Draft, Pending, Switchable, Serving,
              Paused
<1>5. SerialInv
  BY <1>1, <1>4 DEF SerialInv, OneAtATime, FreshIds, AlongTheWay, RestSettled,
                    EndingDue, RowsOnce, Busy
<1>6. QED
  BY <1>2, <1>3, <1>5 DEF ReviewInv

LEMMA SerialInductive ==
  ASSUME OneByOne, EditsNoticed
  PROVE  ReviewInv /\ [Next]_vars => ReviewInv'
<1> SUFFICES ASSUME ReviewInv, [Next]_vars PROVE ReviewInv'
  OBVIOUS
<1>1. TypeInv'
  BY NextTypes DEF ReviewInv
<1>2. CASE Next
  <2>1. Step
    BY <1>2 DEF Next
  <2>2. NoBatch'
    BY <2>1, StepNoBatch DEF ReviewInv, OneByOne
  <2>3. ASSUME NEW h \in Requests, Crash(h)
        PROVE  FALSE
    BY <2>3 DEF OneByOne, Crash
  <2>4. ASSUME NEW a \in Ads, Expire(a)
        PROVE  SerialInv'
    BY <2>4, NothingMoves DEF Expire, ReviewInv
  <2>5. SerialInv'
    BY <2>1, <2>3, <2>4, RequestSerial, ContinueSerial, AdministratorSerial,
       TimerSerial DEF Step, ReviewInv
  <2>6. QED
    BY <1>1, <2>2, <2>5 DEF ReviewInv
<1>3. CASE UNCHANGED vars
  <2>1. SerialInv'
    BY <1>3, NothingMoves DEF vars, ReviewInv
  <2>2. NoBatch'
    BY <1>3 DEF vars, ReviewInv, NoBatch
  <2>3. QED
    BY <1>1, <2>1, <2>2 DEF ReviewInv
<1>4. QED
  BY <1>2, <1>3

LEMMA ReviewInvariant ==
  ASSUME OneByOne, EditsNoticed
  PROVE  Spec => []ReviewInv
BY InitSerial, SerialInductive, PTL DEF Spec

(* The ad of a request shows, once it is on delivery, what was approved.   *)
LEMMA ServingApproved ==
  ASSUME ReviewInv, NEW a \in Ads, live[a], sts[a] = Serving
  PROVE  AllApproved(a) /\ Fits(a)
<1>1. CASE Settled(a)
  BY <1>1 DEF Settled, Switchable
<1>2. CASE Worked(a)
  <2>1. PICK h \in Requests : Busy(h) /\ loc[h].ad = a
    BY <1>2 DEF Worked
  <2>2. Underway(h, a)
    BY <2>1 DEF ReviewInv, SerialInv, AlongTheWay
  <2>3. loc[h].pc \notin {"rmFind", "rmRows"} /\ loc[h] \in Loc
    BY <2>1 DEF ReviewInv, SerialInv, OneAtATime, TypeInv, TypeOK
  <2>4. loc[h].pc \in ReviewLabels \cup {"submit"} \cup EditLabels
                        \cup {"delFind", "delRows"}
    BY <2>1, <2>3 DEF Loc, ReviewLoc, SubmitLoc, EditLoc, DeleteLoc, RemoveLoc,
                      Busy, ReviewLabels, EditLabels
  <2>5. CASE loc[h].pc \in ReviewLabels
    BY <2>2, <2>5 DEF Underway, ReviewAt, ReviewLabels, At, Voting, Voted,
                      Answers, Serving, Pending, Rejected
  <2>6. CASE loc[h].pc = "submit"
    BY <2>2, <2>6 DEF Underway, SubmitAt, At, Serving, Draft
  <2>7. CASE loc[h].pc \in EditLabels
    BY <2>2, <2>7 DEF Underway, EditAt
  <2>8. CASE loc[h].pc \in {"delFind", "delRows"}
    BY <2>2, <2>8 DEF Underway, DeleteAt
  <2>9. QED
    BY <2>4, <2>5, <2>6, <2>7, <2>8
<1>3. QED
  BY <1>1, <1>2 DEF ReviewInv, SerialInv, RestSettled

(* When requests do not overlap, an ad on delivery has been approved by    *)
(* everyone who was asked, and for what it shows now, for any number of    *)
(* ads and reviewers and any sequence of reviews, edits, deletions,        *)
(* switches and nightly runs.                                              *)
THEOREM ServingStaysApproved ==
  ASSUME OneByOne, EditsNoticed
  PROVE  Spec => []ServingIsApproved
<1>1. ReviewInv => ServingIsApproved
  BY ServingApproved DEF ServingIsApproved, Fits
<1>2. QED
  BY <1>1, ReviewInvariant, PTL

(* Between requests, an ad that waits for review waits for a vote that is  *)
(* still to be cast, if anybody was asked.                                 *)
THEOREM PendingIsNeverStuck ==
  ASSUME OneByOne, EditsNoticed
  PROVE  Spec => []PendingWaitsForAVote
<1>1. ReviewInv => PendingWaitsForAVote
  BY IdleSettled DEF ReviewInv, PendingWaitsForAVote, Settled, SomeAre
<1>2. QED
  BY <1>1, ReviewInvariant, PTL

(* Between requests, a draft has no rows: neither an edit nor a deletion   *)
(* nor a review leaves one that a later submission would count.            *)
THEOREM DraftStartsClean ==
  ASSUME OneByOne, EditsNoticed
  PROVE  Spec => []DraftHasNoRows
<1>1. ReviewInv => DraftHasNoRows
  BY IdleSettled DEF ReviewInv, DraftHasNoRows, Settled
<1>2. QED
  BY <1>1, ReviewInvariant, PTL

(***************************************************************************)
(* Ballots: the rows of an ad as a function of the reviewers.              *)
(***************************************************************************)
BallotFacts(a) ==
  /\ DOMAIN BallotOf(a) = Asked(a)
  /\ BallotOf(a) = [u \in Asked(a) |-> BallotOf(a)[u]]
  /\ OneRowEach(a) =>
       \A r \in RowsOf(a) : BallotOf(a)[rows[r].user] = rows[r].check

LEMMA BallotAt == \A a \in Ads : BallotFacts(a)
<1> SUFFICES ASSUME NEW a \in Ads PROVE BallotFacts(a)
  OBVIOUS
<1>1. DOMAIN BallotOf(a) = Asked(a)
        /\ BallotOf(a) = [u \in Asked(a) |-> BallotOf(a)[u]]
  BY DEF BallotOf
<1>2. ASSUME OneRowEach(a), NEW r \in RowsOf(a)
      PROVE  BallotOf(a)[rows[r].user] = rows[r].check
  <2> DEFINE s == CHOOSE x \in RowsOf(a) : rows[x].user = rows[r].user
  <2>1. s \in RowsOf(a) /\ rows[s].user = rows[r].user
    OBVIOUS
  <2>2. s = r
    BY <1>2, <2>1 DEF OneRowEach
  <2>3. rows[r].user \in Asked(a)
    BY DEF Asked
  <2>4. BallotOf(a)[rows[r].user] = rows[s].check
    BY <2>3 DEF BallotOf
  <2>5. QED
    BY <2>2, <2>4
<1>3. QED
  BY <1>1, <1>2 DEF BallotFacts

LEMMA BallotAtNext == (\A a \in Ads : BallotFacts(a))'
BY BallotAt, PTL

LEMMA SameBallots ==
  ASSUME NEW a \in Ads, SameRows(a), OneRowEach(a)
  PROVE  BallotOf(a)' = BallotOf(a)
<1>1. Asked(a)' = Asked(a) /\ OneRowEach(a)'
  BY DEF SameRows, Asked, OneRowEach
<1>2. ASSUME NEW u \in Asked(a)
      PROVE  BallotOf(a)'[u] = BallotOf(a)[u]
  <2>1. PICK r \in RowsOf(a) : rows[r].user = u
    BY DEF Asked
  <2>2. r \in RowsOf(a)' /\ rows'[r] = rows[r]
    BY DEF SameRows
  <2>3. BallotOf(a)[u] = rows[r].check
    BY <2>1, BallotAt DEF BallotFacts
  <2>4. BallotOf(a)'[u] = rows'[r].check
    BY <1>1, <2>1, <2>2, BallotAtNext DEF BallotFacts
  <2>5. QED
    BY <2>2, <2>3, <2>4
<1>3. /\ BallotOf(a) = [u \in Asked(a) |-> BallotOf(a)[u]]
      /\ BallotOf(a)' = [u \in Asked(a)' |-> BallotOf(a)'[u]]
  BY BallotAt, BallotAtNext DEF BallotFacts
<1>4. QED
  BY <1>1, <1>2, <1>3

LEMMA BallotType ==
  TypeInv /\ RowsOnce => \A a \in Ads : BallotOf(a) \in Approval!Ballots
<1> SUFFICES ASSUME TypeInv, RowsOnce, NEW a \in Ads
             PROVE  BallotOf(a) \in Approval!Ballots
  OBVIOUS
<1>1. \A r \in RowsOf(a) : rows[r].user \in Users /\ rows[r].check \in Check
  BY DEF TypeInv, TypeOK, RowsOf, Row
<1>2. Asked(a) \in SUBSET Users
  BY <1>1 DEF Asked
<1>3. ASSUME NEW u \in Asked(a)
      PROVE  BallotOf(a)[u] \in Check
  <2>1. PICK r \in RowsOf(a) : rows[r].user = u
    BY DEF Asked
  <2>2. QED
    BY <1>1, <2>1, BallotAt DEF BallotFacts, RowsOnce
<1>4. BallotOf(a) \in [Asked(a) -> Check]
  BY <1>3, BallotAt DEF BallotFacts
<1>5. QED
  BY <1>2, <1>4 DEF Approval!Ballots, Check, Approval!Check, Waiting, Approved,
     Refused, Approval!Waiting, Approval!Approved, Approval!Refused

LEMMA BallotTypeNext ==
  (TypeInv /\ RowsOnce => \A a \in Ads : BallotOf(a) \in Approval!Ballots)'
BY BallotType, PTL

LEMMA NoRowsBlank ==
  \A a \in Ads : RowsOf(a) = {} => BallotOf(a) = Approval!Blank
BY DEF BallotOf, Asked, Approval!Blank

LEMMA NoRowsBlankNext ==
  (\A a \in Ads : RowsOf(a) = {} => BallotOf(a) = Approval!Blank)'
BY NoRowsBlank, PTL

(***************************************************************************)
(* What settled remembers while a request is being worked on.              *)
(***************************************************************************)
Kept(a) ==
  settled.phase[a] = sts[a] /\ settled.ballot[a] = BallotOf(a)

(* The vote is the only difference.                                        *)
VoteTold(h, a) ==
  /\ settled.phase[a] = Pending
  /\ \E u \in DOMAIN settled.ballot[a] :
       BallotOf(a) = [settled.ballot[a] EXCEPT ![u] = loc[h].vote]

Told(h, a) ==
  /\ loc[h].pc \in {"readAd", "writeVote", "editAd", "editContent",
                    "editRead", "editRows", "delFind", "delRows"} => Kept(a)
  /\ loc[h].pc \in {"writeRead", "readRows", "writeVerdict", "nextRow"} =>
       VoteTold(h, a)
  /\ loc[h].pc = "submit" => settled.phase[a] = Draft
  /\ loc[h].pc = "editReset" =>
       settled.phase[a] \notin {Serving, Ended, Abandoned}

SettledType == [phase: [Ads -> Status], ballot: [Ads -> Approval!Ballots]]

HistoryOK ==
  /\ settled \in SettledType
  /\ \A a \in Ads : Kept(a) \/ Worked(a)
  /\ \A h \in Requests : Busy(h) => Told(h, loc[h].ad)

SameTold(b) == sts'[b] = sts[b] /\ SameRows(b)

LEMMA TellOfOne ==
  ASSUME ReviewInv, HistoryOK, NEW h \in Requests, NEW a \in Ads, NEW rec,
         NobodyElse(h), Busy(h) => loc[h].ad = a,
         loc' = [loc EXCEPT ![h] = rec],
         rec.pc # "idle", rec.ad = a,
         settled' = IF AllIdle' THEN View' ELSE settled,
         \A b \in Ads \ {a} : SameTold(b),
         settled' = settled => Told(h, a)'
  PROVE  HistoryOK' /\ settled' = settled
<1>1. loc'[h] = rec /\ \A g \in Requests \ {h} : loc'[g] = Idle
  BY DEF NobodyElse, ReviewInv, TypeInv
<1>2. rec # Idle
  BY DEF Idle
<1>3. settled' = settled
  BY <1>1, <1>2 DEF AllIdle
<1>4. ASSUME NEW b \in Ads \ {a}
      PROVE  Kept(b)'
  <2>1. ~Worked(b)
    BY DEF Worked, NobodyElse, Busy
  <2>2. Kept(b) /\ OneRowEach(b) /\ SameTold(b)
    BY <2>1 DEF HistoryOK, ReviewInv, SerialInv, RowsOnce
  <2>3. BallotOf(b)' = BallotOf(b)
    BY <2>2, SameBallots DEF SameTold
  <2>4. QED
    BY <1>3, <2>2, <2>3 DEF Kept, SameTold
<1>5. Worked(a)'
  BY <1>1, <1>2 DEF Worked, Busy
<1>6. (\A g \in Requests : Busy(g) => Told(g, loc[g].ad))'
  BY <1>1, <1>3 DEF Busy
<1>7. settled' \in SettledType
  BY <1>3 DEF HistoryOK
<1>8. QED
  BY <1>3, <1>4, <1>5, <1>6, <1>7 DEF HistoryOK, SettledType

(* A step of a request that changes neither a status nor a row, and leaves *)
(* the request unfinished.                                                 *)
LEMMA QuietTells ==
  ASSUME ReviewInv, HistoryOK, NEW h \in Requests, NEW a \in Ads, NEW rec,
         NobodyElse(h), Busy(h) => loc[h].ad = a,
         loc' = [loc EXCEPT ![h] = rec], rec.ad = a,
         settled' = IF AllIdle' THEN View' ELSE settled,
         sts' = sts, rows' = rows,
         \/ /\ rec.pc \in {"readAd", "writeVote", "editAd", "editContent",
                           "editRead", "editRows", "delFind", "delRows"}
            /\ Kept(a)
         \/ /\ rec.pc = "writeVerdict"
            /\ VoteTold(h, a) /\ rec.vote = loc[h].vote
         \/ rec.pc = "submit" /\ Kept(a) /\ sts[a] = Draft
  PROVE  HistoryOK' /\ settled' = settled
<1>1. \A b \in Ads : SameTold(b)
  BY UnchangedRows DEF SameTold
<1>2. BallotOf(a)' = BallotOf(a)
  BY <1>1, SameBallots DEF SameTold, ReviewInv, SerialInv, RowsOnce
<1>3. loc'[h] = rec
  BY DEF ReviewInv, TypeInv
<1>4. ASSUME settled' = settled
      PROVE  Told(h, a)'
  <2>1. Kept(a) => Kept(a)'
    BY <1>2, <1>4 DEF Kept
  <2>2. VoteTold(h, a) /\ rec.vote = loc[h].vote => VoteTold(h, a)'
    BY <1>2, <1>3, <1>4 DEF VoteTold
  <2>3. Kept(a) /\ sts[a] = Draft => settled'.phase[a] = Draft
    BY <1>4 DEF Kept
  <2>4. QED
    BY <1>3, <2>1, <2>2, <2>3 DEF Told
<1>5. QED
  BY <1>1, <1>4, TellOfOne

LEMMA IdleKept ==
  ASSUME HistoryOK, AllIdle
  PROVE  \A a \in Ads : Kept(a)
BY DEF HistoryOK, AllIdle, Worked, Busy

LEMMA RequestTells ==
  ASSUME OneByOne, ReviewInv, HistoryOK, NEW h \in Requests, Request(h),
         settled' = IF AllIdle' THEN View' ELSE settled
  PROVE  HistoryOK' /\ settled' = settled
<1>1. SerialInv /\ TypeInv /\ sts' = sts /\ rows' = rows
  BY DEF ReviewInv, Request, SingleReview, BatchReview, SubmitCheck,
         EditAdPlan, DeleteAd, RemoveReviewer
<1>2. AllIdle
  BY DEF OneByOne, Request, SingleReview, BatchReview, SubmitCheck,
         EditAdPlan, DeleteAd, RemoveReviewer, Alone
<1>3. \A a \in Ads : Kept(a)
  BY <1>2, IdleKept
<1>4. NobodyElse(h) /\ ~Busy(h)
  BY <1>1, <1>2, IdleSettled
<1>5. ASSUME NEW r \in RowIds, NEW v \in Vote, SingleReview(h, r, v)
      PROVE  HistoryOK' /\ settled' = settled
  <2> DEFINE rec == ReviewRecord(r, v, {}, FALSE)
  <2>1. rows[r].ad \in Ads
    BY <1>1, <1>5 DEF SingleReview, TypeInv, TypeOK, Row
  <2> PICK a \in Ads : a = rows[r].ad
    BY <2>1
  <2>2. /\ rec.pc = "readAd" /\ rec.ad = a
        /\ loc' = [loc EXCEPT ![h] = rec]
    BY <1>5 DEF SingleReview, Start, ReviewRecord
  <2> HIDE DEF rec
  <2>3. QED
    BY <1>1, <1>3, <1>4, <2>2, QuietTells
<1>6. ASSUME NEW a \in Ads, SubmitCheck(h, a)
      PROVE  HistoryOK' /\ settled' = settled
  <2> DEFINE rec == [pc |-> "submit", ad |-> a, todo |-> Reviewers]
  <2>1. /\ rec.pc = "submit" /\ rec.ad = a
        /\ loc' = [loc EXCEPT ![h] = rec] /\ sts[a] = Draft
    BY <1>6 DEF SubmitCheck, Start, Alone, OneByOne
  <2> HIDE DEF rec
  <2>2. QED
    BY <1>1, <1>3, <1>4, <2>1, QuietTells
<1>7. ASSUME NEW a \in Ads, NEW c \in Contents, NEW late \in BOOLEAN,
             EditAdPlan(h, a, c, late)
      PROVE  HistoryOK' /\ settled' = settled
  <2> DEFINE rec == [pc |-> "editAd", ad |-> a, new |-> c, late |-> late,
                     changed |-> CheckAdUrl(content[a], c)]
  <2>1. /\ rec.pc = "editAd" /\ rec.ad = a
        /\ loc' = [loc EXCEPT ![h] = rec]
    BY <1>7 DEF EditAdPlan, Start
  <2> HIDE DEF rec
  <2>2. QED
    BY <1>1, <1>3, <1>4, <2>1, QuietTells
<1>8. ASSUME NEW a \in Ads, DeleteAd(h, a)
      PROVE  HistoryOK' /\ settled' = settled
  <2> DEFINE rec == [pc |-> "delFind", ad |-> a]
  <2>1. /\ rec.pc = "delFind" /\ rec.ad = a
        /\ loc' = [loc EXCEPT ![h] = rec]
    BY <1>8 DEF DeleteAd, Start
  <2> HIDE DEF rec
  <2>2. QED
    BY <1>1, <1>3, <1>4, <2>1, QuietTells
<1>9. ASSUME NEW S, NEW v, BatchReview(h, S, v)
      PROVE  FALSE
  BY <1>9 DEF OneByOne, BatchReview, Start
<1>10. ASSUME NEW u, RemoveReviewer(h, u)
       PROVE  FALSE
  BY <1>10 DEF OneByOne, RemoveReviewer, Start
<1>11. QED
  BY <1>5, <1>6, <1>7, <1>8, <1>9, <1>10 DEF Request

(***************************************************************************)
(* The end of a request: settled becomes what the tables show, in one step *)
(* of AdApproval.                                                          *)
(***************************************************************************)
LEMMA AllTold ==
  ASSUME ReviewInv', AllIdle', settled' = View'
  PROVE  HistoryOK'
<1>1. TypeInv' /\ RowsOnce'
  BY DEF ReviewInv, SerialInv
<1>2. sts' \in [Ads -> Status]
  BY <1>1 DEF TypeInv, TypeOK
<1>3. \A a \in Ads : BallotOf(a)' \in Approval!Ballots
  BY <1>1, BallotTypeNext
<1>4. /\ settled'.phase = sts'
      /\ settled'.ballot = [a \in Ads |-> BallotOf(a)']
      /\ settled' = [phase |-> sts', ballot |-> [a \in Ads |-> BallotOf(a)']]
  BY DEF View
<1>5. settled' \in SettledType
  BY <1>2, <1>3, <1>4 DEF SettledType
<1>6. \A a \in Ads : Kept(a)'
  BY <1>4 DEF Kept
<1>7. \A h \in Requests : ~Busy(h)'
  BY DEF AllIdle, Busy
<1>8. QED
  BY <1>5, <1>6, <1>7 DEF HistoryOK, SettledType

(* Nothing that View shows has changed.                                    *)
LEMMA NothingTold ==
  ASSUME ReviewInv, settled \in SettledType, settled' = View',
         \A b \in Ads : Kept(b) /\ SameTold(b), TypeInv'
  PROVE  settled' = settled
<1>1. \A b \in Ads : BallotOf(b)' = BallotOf(b)
  BY SameBallots DEF SameTold, ReviewInv, SerialInv, RowsOnce
<1>2. sts' \in [Ads -> Status]
  BY DEF TypeInv, TypeOK
<1>3. /\ settled'.phase = sts'
      /\ settled'.ballot = [b \in Ads |-> BallotOf(b)']
      /\ settled' = [phase |-> settled'.phase, ballot |-> settled'.ballot]
  BY DEF View
<1>4. /\ settled.phase \in [Ads -> Status]
      /\ settled.ballot = [b \in Ads |-> settled.ballot[b]]
      /\ settled = [phase |-> settled.phase, ballot |-> settled.ballot]
  BY DEF SettledType
<1>5. settled'.phase = settled.phase
  BY <1>2, <1>3, <1>4 DEF Kept, SameTold
<1>6. settled'.ballot = settled.ballot
  BY <1>1, <1>3, <1>4 DEF Kept
<1>7. QED
  BY <1>3, <1>4, <1>5, <1>6

(* One ad has moved.                                                       *)
LEMMA OneTold ==
  ASSUME ReviewInv, settled \in SettledType, settled' = View',
         NEW a \in Ads, \A b \in Ads \ {a} : Kept(b) /\ SameTold(b), TypeInv'
  PROVE  Approval!Set(a, sts'[a], BallotOf(a)')
<1>1. \A b \in Ads \ {a} : BallotOf(b)' = BallotOf(b)
  BY SameBallots DEF SameTold, ReviewInv, SerialInv, RowsOnce
<1>2. sts' \in [Ads -> Status]
  BY DEF TypeInv, TypeOK
<1>3. /\ settled'.phase = sts'
      /\ settled'.ballot = [b \in Ads |-> BallotOf(b)']
  BY DEF View
<1>4. /\ settled.phase \in [Ads -> Status]
      /\ settled.ballot = [b \in Ads |-> settled.ballot[b]]
  BY DEF SettledType
<1>5. settled'.phase = [settled.phase EXCEPT ![a] = sts'[a]]
  BY <1>2, <1>3, <1>4 DEF Kept, SameTold
<1>6. \A b \in Ads : settled'.ballot[b] =
                       IF b = a THEN BallotOf(a)' ELSE settled.ballot[b]
  BY <1>1, <1>3, <1>4 DEF Kept
<1>7. settled'.ballot = [settled.ballot EXCEPT ![a] = BallotOf(a)']
  BY <1>3, <1>4, <1>6
<1>8. QED
  BY <1>5, <1>7 DEF Approval!Set

(* A request that ends here leaves nobody at work.                         *)
LEMMA EndsIdle ==
  ASSUME ReviewInv, HistoryOK, NEW h \in Requests, NEW a \in Ads,
         NobodyElse(h), Busy(h), loc[h].ad = a,
         Done(h), ending' = ending,
         settled' = IF AllIdle' THEN View' ELSE settled
  PROVE  /\ AllIdle'
         /\ settled' = View'
         /\ settled \in SettledType
         /\ Told(h, a)
         /\ \A b \in Ads \ {a} : Kept(b)
<1>1. AllIdle'
  BY DEF NobodyElse, ReviewInv, TypeInv, Done, Goto, AllIdle
<1>2. ASSUME NEW b \in Ads \ {a}
      PROVE  Kept(b)
  <2>1. ~Worked(b)
    BY DEF Worked, NobodyElse, Busy
  <2>2. QED
    BY <2>1 DEF HistoryOK
<1>3. QED
  BY <1>1, <1>2 DEF HistoryOK

LEMMA CastIs ==
  ASSUME NEW a \in Ads, OneRowEach(a), NEW v
  PROVE  Approval!Cast(BallotOf(a), v) <=> SomeAre(a, v)
<1>1. BallotFacts(a)
  BY BallotAt
<1>2. ASSUME SomeAre(a, v)
      PROVE  Approval!Cast(BallotOf(a), v)
  <2>1. PICK r \in RowsOf(a) : rows[r].check = v
    BY <1>2 DEF SomeAre
  <2>2. rows[r].user \in Asked(a)
    BY DEF Asked
  <2>3. QED
    BY <1>1, <2>1, <2>2 DEF BallotFacts, Approval!Cast
<1>3. ASSUME Approval!Cast(BallotOf(a), v)
      PROVE  SomeAre(a, v)
  <2>1. PICK u \in Asked(a) : BallotOf(a)[u] = v
    BY <1>1, <1>3 DEF BallotFacts, Approval!Cast
  <2>2. PICK r \in RowsOf(a) : rows[r].user = u
    BY DEF Asked
  <2>3. QED
    BY <1>1, <2>1, <2>2 DEF BallotFacts, SomeAre
<1>4. QED
  BY <1>2, <1>3

(* The verdicts of the code are outcomes AdApproval allows.                *)
LEMMA AnswersAllowed ==
  ASSUME NEW a \in Ads, OneRowEach(a), NEW p, Answers(a, p)
  PROVE  p \in Approval!Outcomes(BallotOf(a))
<1>1. /\ Approval!Cast(BallotOf(a), Waiting) <=> SomeAre(a, Waiting)
      /\ Approval!Cast(BallotOf(a), Refused) <=> SomeAre(a, Refused)
  BY CastIs
<1>2. /\ Approval!Waiting = Waiting /\ Approval!Refused = Refused
      /\ Approval!Serving = Serving /\ Approval!Pending = Pending
      /\ Approval!Rejected = Rejected
  BY DEF Waiting, Refused, Serving, Pending, Rejected, Approval!Waiting,
         Approval!Refused, Approval!Serving, Approval!Pending,
         Approval!Rejected
<1>3. AllApproved(a) => ~SomeAre(a, Waiting) /\ ~SomeAre(a, Refused)
  BY DEF AllApproved, NotApproved, SomeAre, Waiting, Refused, Approved
<1>4. Pending # Rejected
  BY DEF Pending, Rejected
<1>5. QED
  BY <1>1, <1>2, <1>3, <1>4 DEF Answers, Approval!Outcomes

(***************************************************************************)
(* The steps of a review, told.                                            *)
(***************************************************************************)
Tells == HistoryOK' /\ (settled' = settled \/ Approval!Next)

LEMMA ToldOf ==
  ASSUME ReviewInv, HistoryOK, NEW h \in Requests, ~At(h, "idle"),
         NEW a, a = loc[h].ad
  PROVE  Busy(h) /\ NobodyElse(h) /\ Underway(h, a) /\ Told(h, a)
BY GoingOn DEF ReviewInv, HistoryOK

LEMMA ReadsTold ==
  ASSUME ReviewInv, HistoryOK, NEW h \in Requests,
         ReadAd(h) \/ ReadRows(h),
         settled' = IF AllIdle' THEN View' ELSE settled
  PROVE  Tells
<1>1. TypeInv /\ NoBatch /\ loc[h] \in ReviewLoc /\ loc[h].pc \in ReviewLabels
  BY ReviewShape DEF ReadAd, ReadRows, At, ReviewLabels, ReviewInv, TypeInv
<1> PICK a \in Ads : a = loc[h].ad
  BY <1>1 DEF ReviewLoc
<1>2. Busy(h) /\ NobodyElse(h) /\ Told(h, a)
  BY ToldOf DEF ReadAd, ReadRows, At
<1>3. CASE ReadAd(h)
  <2> DEFINE rec == [loc[h] EXCEPT !.pc = "writeVote",
                                   !.mem = IF loc[h].vote = Refused
                                           THEN Rejected ELSE sts[loc[h].ad]]
  <2>1. /\ rec.pc = "writeVote" /\ rec.ad = a
        /\ loc' = [loc EXCEPT ![h] = rec]
    BY <1>1, <1>3 DEF ReadAd, Goto, ReviewLoc
  <2> HIDE DEF rec
  <2>2. Kept(a) /\ sts' = sts /\ rows' = rows
    BY <1>2, <1>3 DEF Told, ReadAd, At
  <2>3. HistoryOK' /\ settled' = settled
    BY <1>2, <2>1, <2>2, QuietTells
  <2>4. QED
    BY <2>3 DEF Tells
<1>4. CASE ReadRows(h)
  <2> PICK w : w = SingleWrites(a, loc[h].mem)
    OBVIOUS
  <2> DEFINE rec == [loc[h] EXCEPT !.pc = IF w.times = 0 THEN "nextRow"
                                                         ELSE "writeVerdict",
                                   !.mem = w.value, !.left = w.times]
  <2>1. w.times # 0
    BY DEF SingleWrites
  <2>2. loc' = [loc EXCEPT ![h] = rec]
    BY <1>1, <1>4 DEF ReadRows, Goto, NoBatch
  <2>3. rec.pc = "writeVerdict" /\ rec.ad = a /\ rec.vote = loc[h].vote
    BY <1>1, <2>1 DEF ReviewLoc
  <2> HIDE DEF rec
  <2>4. VoteTold(h, a) /\ sts' = sts /\ rows' = rows
    BY <1>2, <1>4 DEF Told, ReadRows, At
  <2>5. HistoryOK' /\ settled' = settled
    BY <1>2, <2>2, <2>3, <2>4, QuietTells
  <2>6. QED
    BY <2>5 DEF Tells
<1>5. QED
  BY <1>3, <1>4

(* Only the ballot of the voter changes.                                   *)
LEMMA WriteVoteTold ==
  ASSUME ReviewInv, HistoryOK, NEW h \in Requests, WriteVote(h),
         settled' = IF AllIdle' THEN View' ELSE settled
  PROVE  Tells
<1> DEFINE rec == [loc[h] EXCEPT !.pc = "writeRead"]
<1>1. TypeInv /\ loc[h] \in ReviewLoc
  BY ReviewShape DEF WriteVote, At, ReviewLabels, ReviewInv, TypeInv
<1> PICK a \in Ads, r \in RowIds, v \in Vote :
      a = loc[h].ad /\ r = loc[h].row /\ v = loc[h].vote
  BY <1>1 DEF ReviewLoc
<1>2. Busy(h) /\ NobodyElse(h) /\ Underway(h, a) /\ Told(h, a)
  BY ToldOf DEF WriteVote, At
<1>3. /\ rec.pc = "writeRead" /\ rec.ad = a /\ rec.vote = v
      /\ loc' = [loc EXCEPT ![h] = rec] /\ loc'[h] = rec
  BY <1>1 DEF WriteVote, Goto, ReviewLoc, TypeInv
<1> HIDE DEF rec
<1>4. r \in RowsOf(a) /\ sts[a] = Pending /\ Kept(a)
  BY <1>2 DEF Underway, ReviewAt, Told, Voting, WriteVote, At
<1> PICK new, u : /\ new = [ad |-> rows[r].ad, user |-> rows[r].user,
                            check |-> v, on |-> content[rows[r].ad]]
                  /\ u = rows[r].user
  OBVIOUS
<1>5. rows[r] # NoRow /\ rows[r] \in Row /\ rows[r].ad = a
  BY <1>1, <1>4 DEF RowsOf, TypeInv, TypeOK
<1>6. new \in Row /\ new.ad = a /\ new.user = u /\ new.check = v
  BY <1>1, <1>5 DEF Row, TypeInv, TypeOK, Vote, Check
<1>7. rows' = [rows EXCEPT ![r] = new]
  BY <1>5 DEF WriteVote
<1>8. /\ RowsOf(a)' = RowsOf(a)
      /\ \A b \in Ads \ {a} : SameRows(b)
      /\ rows'[r] = new
      /\ \A s \in RowIds : s # r => rows'[s] = rows[s]
  <2>1. rows \in [RowIds -> Row \cup {NoRow}]
    BY <1>1 DEF TypeInv, TypeOK
  <2>2. rows'[r] = new /\ \A s \in RowIds : s # r => rows'[s] = rows[s]
    BY <1>7, <2>1
  <2>3. new.ad = rows[r].ad
    BY <1>5, <1>6
  <2>4. /\ \A b \in Ads : RowsOf(b)' = RowsOf(b)
        /\ \A b \in Ads \ {new.ad} : SameRows(b)
    BY <1>1, <1>5, <1>6, <1>7, <2>3, RowWritten
  <2>5. QED
    BY <1>6, <2>2, <2>4
<1>9. \A b \in Ads \ {a} : SameTold(b)
  BY <1>8 DEF SameTold, WriteVote
<1>10. OneRowEach(a) /\ BallotFacts(a) /\ BallotFacts(a)'
  BY BallotAt, BallotAtNext DEF ReviewInv, SerialInv, RowsOnce
<1>11. /\ \A s \in RowsOf(a) : rows'[s].user = rows[s].user
       /\ \A s \in RowsOf(a) : rows'[s].check = IF s = r THEN v
                                                ELSE rows[s].check
  BY <1>6, <1>8 DEF RowsOf
<1>12. OneRowEach(a)' /\ Asked(a)' = Asked(a)
  <2>1. OneRowEach(a)'
    <3>1. RowsOf(a)' = RowsOf(a)
      BY <1>8
    <3>2. QED
      BY <3>1, <1>10, <1>11 DEF OneRowEach
  <2>2. Asked(a)' = Asked(a)
    <3>1. RowsOf(a)' = RowsOf(a)
      BY <1>8
    <3>2. Asked(a)' = {rows'[s].user : s \in RowsOf(a)}
      BY <3>1 DEF Asked
    <3>3. {rows'[s].user : s \in RowsOf(a)} = {rows[s].user : s \in RowsOf(a)}
      BY <1>11
    <3>4. QED
      BY <3>2, <3>3 DEF Asked
  <2>3. QED
    BY <2>1, <2>2
<1>13. u \in Asked(a)
  BY <1>4 DEF Asked
<1>14. ASSUME NEW x \in Asked(a)
       PROVE  BallotOf(a)'[x] = IF x = u THEN v ELSE BallotOf(a)[x]
  <2>1. PICK s \in RowsOf(a) : rows[s].user = x
    BY DEF Asked
  <2>2. s = r <=> x = u
    BY <1>4, <1>10, <2>1 DEF OneRowEach
  <2>3. BallotOf(a)[x] = rows[s].check
    BY <1>10, <2>1 DEF BallotFacts
  <2>4. BallotOf(a)'[x] = rows'[s].check
    BY <1>8, <1>10, <1>11, <1>12, <2>1 DEF BallotFacts
  <2>5. QED
    BY <1>11, <2>1, <2>2, <2>3, <2>4
<1>15. BallotOf(a)' = [BallotOf(a) EXCEPT ![u] = v]
  BY <1>10, <1>12, <1>14 DEF BallotFacts
<1>16. ASSUME settled' = settled
       PROVE  Told(h, a)'
  <2>1. u \in DOMAIN settled'.ballot[a]
    BY <1>4, <1>10, <1>13, <1>16 DEF Kept, BallotFacts
  <2>2. BallotOf(a)' = [settled'.ballot[a] EXCEPT ![u] = loc'[h].vote]
    BY <1>3, <1>4, <1>15, <1>16 DEF Kept
  <2>3. settled'.phase[a] = Pending
    BY <1>4, <1>16 DEF Kept
  <2>4. VoteTold(h, a)'
    BY <2>1, <2>2, <2>3 DEF VoteTold
  <2>5. QED
    BY <1>3, <2>4 DEF Told
<1>17. HistoryOK' /\ settled' = settled
  BY <1>2, <1>3, <1>9, <1>16, TellOfOne
<1>18. QED
  BY <1>17 DEF Tells

(* The two writes of the status tell nothing yet.                          *)
LEMMA WritesTold ==
  ASSUME ReviewInv, HistoryOK, NEW h \in Requests,
         WriteRead(h) \/ WriteVerdict(h),
         settled' = IF AllIdle' THEN View' ELSE settled
  PROVE  Tells
<1>1. TypeInv /\ loc[h] \in ReviewLoc
  BY ReviewShape
     DEF WriteRead, WriteVerdict, At, ReviewLabels, ReviewInv, TypeInv
<1> PICK a \in Ads : a = loc[h].ad
  BY <1>1 DEF ReviewLoc
<1>2. Busy(h) /\ NobodyElse(h) /\ Underway(h, a) /\ Told(h, a)
  BY ToldOf DEF WriteRead, WriteVerdict, At
<1>3. PICK rec : /\ loc' = [loc EXCEPT ![h] = rec] /\ loc'[h] = rec
                 /\ rec.pc \in {"readRows", "nextRow"}
                 /\ rec.ad = a /\ rec.vote = loc[h].vote
  <2>1. CASE WriteRead(h)
    <3> DEFINE new == [loc[h] EXCEPT !.pc = "readRows"]
    <3>1. /\ new.pc = "readRows" /\ new.ad = a /\ new.vote = loc[h].vote
          /\ loc' = [loc EXCEPT ![h] = new] /\ loc'[h] = new
      BY <1>1, <2>1 DEF WriteRead, Goto, ReviewLoc, TypeInv
    <3> HIDE DEF new
    <3>2. QED
      BY <3>1
  <2>2. CASE WriteVerdict(h)
    <3> DEFINE new == [loc[h] EXCEPT
                         !.pc = IF loc[h].left = 1 THEN "nextRow" ELSE @,
                         !.left = @ - 1]
    <3>1. loc[h].left = 1
      BY <1>2, <2>2 DEF Underway, ReviewAt, WriteVerdict, At
    <3>2. /\ new.pc = "nextRow" /\ new.ad = a /\ new.vote = loc[h].vote
          /\ loc' = [loc EXCEPT ![h] = new] /\ loc'[h] = new
      BY <1>1, <2>2, <3>1 DEF WriteVerdict, Goto, ReviewLoc, TypeInv
    <3> HIDE DEF new
    <3>3. QED
      BY <3>2
  <2>3. QED
    BY <2>1, <2>2
<1>4. sts' = [sts EXCEPT ![a] = loc[h].mem] /\ rows' = rows
  BY DEF WriteRead, WriteVerdict
<1>5. /\ SameRows(a)
      /\ \A b \in Ads \ {a} : SameTold(b)
  BY <1>1, <1>4, UnchangedRows DEF SameTold, TypeInv, TypeOK
<1>6. BallotOf(a)' = BallotOf(a)
  BY <1>5, SameBallots DEF ReviewInv, SerialInv, RowsOnce
<1>7. VoteTold(h, a)
  BY <1>2 DEF Told, WriteRead, WriteVerdict, At
<1>8. ASSUME settled' = settled
      PROVE  Told(h, a)'
  <2>1. VoteTold(h, a)'
    BY <1>3, <1>6, <1>7, <1>8 DEF VoteTold
  <2>2. QED
    BY <1>3, <2>1 DEF Told
<1>9. HistoryOK' /\ settled' = settled
  BY <1>2, <1>3, <1>5, <1>8, TellOfOne
<1>10. QED
  BY <1>9 DEF Tells

(* The end of a review is the vote of AdApproval.                          *)
LEMMA NextRowTold ==
  ASSUME ReviewInv, HistoryOK, ReviewInv', NEW h \in Requests, NextRow(h),
         settled' = IF AllIdle' THEN View' ELSE settled
  PROVE  Tells
<1>1. TypeInv /\ TypeInv' /\ loc[h] \in ReviewLoc /\ loc[h].rest = {}
  BY ReviewShape DEF NextRow, At, ReviewLabels, ReviewInv, TypeInv, NoBatch
<1> PICK a \in Ads, v \in Vote : a = loc[h].ad /\ v = loc[h].vote
  BY <1>1 DEF ReviewLoc
<1>2. Busy(h) /\ NobodyElse(h) /\ Underway(h, a) /\ Told(h, a)
  BY ToldOf DEF NextRow, At
<1>3. Done(h) /\ ending' = ending /\ sts' = sts /\ rows' = rows
  BY <1>1 DEF NextRow
<1>4. /\ AllIdle' /\ settled' = View' /\ settled \in SettledType
      /\ \A b \in Ads \ {a} : Kept(b)
  BY <1>2, <1>3, EndsIdle
<1>5. \A b \in Ads : SameTold(b)
  BY <1>3, UnchangedRows DEF SameTold
<1>6. OneRowEach(a) /\ BallotOf(a)' = BallotOf(a)
  BY <1>5, SameBallots DEF SameTold, ReviewInv, SerialInv, RowsOnce
<1>7. Approval!Set(a, sts[a], BallotOf(a))
  BY <1>1, <1>3, <1>4, <1>5, <1>6, OneTold
<1>8. sts[a] \in Approval!Outcomes(BallotOf(a))
  BY <1>2, <1>6, AnswersAllowed DEF Underway, ReviewAt, NextRow, At
<1>9. PICK u \in DOMAIN settled.ballot[a] :
        BallotOf(a) = [settled.ballot[a] EXCEPT ![u] = v]
  BY <1>2 DEF Told, VoteTold, NextRow, At
<1>10. u \in Users /\ settled.phase[a] = Approval!Pending
  <2>1. u \in Users
    BY <1>4, <1>9 DEF SettledType, Approval!Ballots
  <2>2. VoteTold(h, a)
    BY <1>2 DEF Told, NextRow, At
  <2>3. settled.phase[a] = Approval!Pending
    BY <2>2 DEF VoteTold, Pending, Approval!Pending
  <2>4. QED
    BY <2>1, <2>3
<1>11. v \in Approval!Vote
  BY DEF Vote, Approval!Vote, Approved, Refused, Approval!Approved,
         Approval!Refused
<1>12. Approval!CastVote(a, u, v)
  BY <1>7, <1>8, <1>9, <1>10 DEF Approval!CastVote
<1>13. Approval!Next
  BY <1>10, <1>11, <1>12 DEF Approval!Next
<1>14. QED
  BY <1>4, <1>13, AllTold DEF Tells

(***************************************************************************)
(* The steps of a submission, an edit and a deletion, told.                *)
(***************************************************************************)
LEMMA InsertRowTold ==
  ASSUME ReviewInv, HistoryOK, NEW h \in Requests, InsertRow(h),
         settled' = IF AllIdle' THEN View' ELSE settled
  PROVE  Tells
<1>1. TypeInv /\ FreshIds /\ loc[h] \in SubmitLoc
  BY SubmitShape DEF InsertRow, At, ReviewInv, TypeInv, SerialInv
<1> PICK a, todo : a \in Ads /\ a = loc[h].ad /\ todo = loc[h].todo
  BY <1>1 DEF SubmitLoc
<1>2. Busy(h) /\ NobodyElse(h) /\ Told(h, a)
  BY ToldOf DEF InsertRow, At
<1> PICK u \in todo :
      /\ rows' = [rows EXCEPT ![used + 1] =
                    [ad |-> a, user |-> u, check |-> Waiting,
                     on |-> content[a]]]
      /\ Goto(h, [loc[h] EXCEPT !.todo = @ \ {u}])
  BY DEF InsertRow
<1> PICK new : new = [ad |-> a, user |-> u, check |-> Waiting,
                      on |-> content[a]]
  OBVIOUS
<1> DEFINE rec == [loc[h] EXCEPT !.todo = @ \ {u}]
<1>3. /\ rec.pc = "submit" /\ rec.ad = a
      /\ loc' = [loc EXCEPT ![h] = rec] /\ loc'[h] = rec
  BY <1>1 DEF InsertRow, At, Goto, SubmitLoc, TypeInv
<1> HIDE DEF rec
<1>4. new \in Row /\ new.ad = a
  BY <1>1 DEF SubmitLoc, Row, Check, TypeInv, TypeOK
<1>5. \A b \in Ads \ {a} : SameRows(b)
  BY <1>1, <1>4, RowInserted DEF InsertRow
<1>6. \A b \in Ads \ {a} : SameTold(b)
  BY <1>5 DEF SameTold, InsertRow
<1>7. ASSUME settled' = settled
      PROVE  Told(h, a)'
  BY <1>2, <1>3, <1>7 DEF Told, InsertRow, At
<1>8. HistoryOK' /\ settled' = settled
  BY <1>2, <1>3, <1>6, <1>7, TellOfOne
<1>9. QED
  BY <1>8 DEF Tells

LEMMA SetPendingTold ==
  ASSUME ReviewInv, HistoryOK, ReviewInv', NEW h \in Requests, SetPending(h),
         settled' = IF AllIdle' THEN View' ELSE settled
  PROVE  Tells
<1>1. TypeInv /\ TypeInv' /\ loc[h] \in SubmitLoc
  BY SubmitShape DEF SetPending, At, ReviewInv, TypeInv
<1> PICK a \in Ads : a = loc[h].ad
  BY <1>1 DEF SubmitLoc
<1>2. Busy(h) /\ NobodyElse(h) /\ Underway(h, a) /\ Told(h, a)
  BY ToldOf DEF SetPending, At
<1>3. /\ Done(h) /\ ending' = ending /\ rows' = rows
      /\ sts' = [sts EXCEPT ![a] = Pending] /\ At(h, "submit")
  BY DEF SetPending
<1>4. /\ AllIdle' /\ settled' = View' /\ settled \in SettledType
      /\ \A b \in Ads \ {a} : Kept(b)
  BY <1>2, <1>3, EndsIdle
<1>5. /\ sts'[a] = Pending /\ SameRows(a)
      /\ \A b \in Ads \ {a} : SameTold(b)
  BY <1>1, <1>3, UnchangedRows DEF SameTold, TypeInv, TypeOK
<1>6. OneRowEach(a) /\ BallotFacts(a) /\ BallotOf(a)' = BallotOf(a)
  BY <1>5, BallotAt, SameBallots DEF ReviewInv, SerialInv, RowsOnce
<1>7. \A r \in RowsOf(a) : rows[r].check = Waiting
  BY <1>2, <1>3 DEF Underway, SubmitAt
<1>8. BallotOf(a) = [u \in Asked(a) |-> Approval!Waiting]
  <2>1. ASSUME NEW u \in Asked(a)
        PROVE  BallotOf(a)[u] = Waiting
    <3>1. PICK r \in RowsOf(a) : rows[r].user = u
      BY DEF Asked
    <3>2. QED
      BY <1>6, <1>7, <3>1 DEF BallotFacts
  <2>2. Waiting = Approval!Waiting
    BY DEF Waiting, Approval!Waiting
  <2>3. QED
    BY <1>6, <2>1, <2>2 DEF BallotFacts
<1> PICK panel : panel = Asked(a)
  OBVIOUS
<1>9. panel \in SUBSET Users
  BY <1>1 DEF Asked, RowsOf, TypeInv, TypeOK, Row
<1>10. settled.phase[a] = Approval!Draft
  BY <1>2, <1>3 DEF Told, At, Draft, Approval!Draft
<1>11. Approval!Set(a, Pending, BallotOf(a))
  BY <1>1, <1>4, <1>5, <1>6, OneTold
<1>12. Approval!Submit(a, panel)
  BY <1>8, <1>10, <1>11
     DEF Approval!Submit, Pending, Approval!Pending
<1>13. Approval!Next
  BY <1>9, <1>12 DEF Approval!Next
<1>14. QED
  BY <1>4, <1>13, AllTold DEF Tells

LEMMA EditsTold ==
  ASSUME ReviewInv, HistoryOK, ReviewInv', NEW h \in Requests,
         EditAd(h) \/ EditContent(h) \/ EditRead(h),
         settled' = IF AllIdle' THEN View' ELSE settled
  PROVE  Tells
<1>1. TypeInv /\ TypeInv' /\ loc[h] \in EditLoc
  BY EditShape DEF EditAd, EditContent, EditRead, At, ReviewInv, TypeInv
<1> PICK a \in Ads : a = loc[h].ad
  BY <1>1 DEF EditLoc
<1>2. Busy(h) /\ NobodyElse(h) /\ Told(h, a)
  BY ToldOf DEF EditAd, EditContent, EditRead, At
<1>3. Kept(a) /\ sts' = sts /\ rows' = rows /\ ending' = ending
  BY <1>2 DEF Told, EditAd, EditContent, EditRead, At
<1>4. ASSUME NEW label \in {"editContent", "editRead", "editRows"},
             Goto(h, [loc[h] EXCEPT !.pc = label])
      PROVE  Tells
  <2> DEFINE rec == [loc[h] EXCEPT !.pc = label]
  <2>1. rec.pc = label /\ rec.ad = a /\ loc' = [loc EXCEPT ![h] = rec]
    BY <1>1, <1>4 DEF Goto, EditLoc
  <2> HIDE DEF rec
  <2>2. HistoryOK' /\ settled' = settled
    BY <1>2, <1>3, <2>1, QuietTells
  <2>3. QED
    BY <2>2 DEF Tells
<1>5. CASE Done(h)
  <2>1. /\ AllIdle' /\ settled' = View' /\ settled \in SettledType
        /\ \A b \in Ads \ {a} : Kept(b)
    BY <1>2, <1>3, <1>5, EndsIdle
  <2>2. \A b \in Ads : SameTold(b)
    BY <1>3, UnchangedRows DEF SameTold
  <2>3. settled' = settled
    BY <1>1, <1>3, <2>1, <2>2, NothingTold
  <2>4. QED
    BY <2>1, <2>3, AllTold DEF Tells
<1>6. QED
  BY <1>4, <1>5 DEF EditAd, EditContent, EditRead

LEMMA EditRowsTold ==
  ASSUME ReviewInv, HistoryOK, NEW h \in Requests, EditRows(h),
         settled' = IF AllIdle' THEN View' ELSE settled
  PROVE  Tells
<1> DEFINE rec == [loc[h] EXCEPT !.pc = "editReset"]
<1>1. TypeInv /\ loc[h] \in EditLoc
  BY EditShape DEF EditRows, At, ReviewInv, TypeInv
<1> PICK a \in Ads : a = loc[h].ad
  BY <1>1 DEF EditLoc
<1>2. Busy(h) /\ NobodyElse(h) /\ Underway(h, a) /\ Told(h, a)
  BY ToldOf DEF EditRows, At
<1>3. /\ rec.pc = "editReset" /\ rec.ad = a
      /\ loc' = [loc EXCEPT ![h] = rec] /\ loc'[h] = rec
  BY <1>1 DEF EditRows, Goto, EditLoc, TypeInv
<1> HIDE DEF rec
<1>4. Kept(a) /\ sts[a] \notin {Serving, Ended, Abandoned}
  BY <1>2 DEF Told, Underway, EditAt, EditRows, At, EditLabels
<1>5. \A b \in Ads \ {a} : SameTold(b)
  BY RowsDropped DEF EditRows, SameTold
<1>6. ASSUME settled' = settled
      PROVE  Told(h, a)'
  BY <1>3, <1>4, <1>6 DEF Told, Kept
<1>7. HistoryOK' /\ settled' = settled
  BY <1>2, <1>3, <1>5, <1>6, TellOfOne
<1>8. QED
  BY <1>7 DEF Tells

LEMMA EditResetTold ==
  ASSUME ReviewInv, HistoryOK, ReviewInv', NEW h \in Requests, EditReset(h),
         settled' = IF AllIdle' THEN View' ELSE settled
  PROVE  Tells
<1>1. TypeInv /\ TypeInv' /\ loc[h] \in EditLoc
  BY EditShape DEF EditReset, At, ReviewInv, TypeInv
<1> PICK a \in Ads : a = loc[h].ad
  BY <1>1 DEF EditLoc
<1>2. Busy(h) /\ NobodyElse(h) /\ Underway(h, a) /\ Told(h, a)
  BY ToldOf DEF EditReset, At
<1>3. /\ Done(h) /\ ending' = ending /\ rows' = rows
      /\ sts' = [sts EXCEPT ![a] = Draft]
  BY DEF EditReset
<1>4. /\ AllIdle' /\ settled' = View' /\ settled \in SettledType
      /\ \A b \in Ads \ {a} : Kept(b)
  BY <1>2, <1>3, EndsIdle
<1>5. /\ sts'[a] = Draft /\ RowsOf(a)' = RowsOf(a)
      /\ \A b \in Ads \ {a} : SameTold(b)
  BY <1>1, <1>3, UnchangedRows DEF SameTold, SameRows, TypeInv, TypeOK
<1>6. RowsOf(a) = {} /\ settled.phase[a] \notin {Serving, Ended, Abandoned}
  BY <1>2 DEF Underway, EditAt, Told, EditReset, At
<1>7. BallotOf(a)' = Approval!Blank
  BY <1>5, <1>6, NoRowsBlankNext
<1>8. Approval!Set(a, Draft, Approval!Blank)
  BY <1>1, <1>4, <1>5, <1>7, OneTold
<1>9. Approval!Revise(a)
  BY <1>6, <1>8 DEF Approval!Revise, Draft, Approval!Draft, Serving, Ended,
     Abandoned, Approval!Serving, Approval!Ended, Approval!Abandoned
<1>10. QED
  BY <1>4, <1>9, AllTold DEF Tells, Approval!Next

LEMMA DeletesTold ==
  ASSUME ReviewInv, HistoryOK, ReviewInv', NEW h \in Requests, DeleteStep(h),
         settled' = IF AllIdle' THEN View' ELSE settled
  PROVE  Tells
<1>1. TypeInv /\ TypeInv' /\ loc[h] \in DeleteLoc
  BY DeleteShape DEF DeleteStep, DeleteFind, DeleteRows, At, ReviewInv, TypeInv
<1> PICK a \in Ads : a = loc[h].ad
  BY <1>1 DEF DeleteLoc
<1>2. Busy(h) /\ NobodyElse(h) /\ Underway(h, a) /\ Told(h, a)
  BY ToldOf DEF DeleteStep, DeleteFind, DeleteRows, At
<1>3. Kept(a) /\ sts' = sts /\ ending' = ending
  BY <1>2 DEF Told, DeleteStep, DeleteFind, DeleteRows, At
<1>4. ASSUME DeleteFind(h), ~Done(h)
      PROVE  Tells
  <2> DEFINE rec == [loc[h] EXCEPT !.pc = "delRows"]
  <2>1. rec.pc = "delRows" /\ rec.ad = a /\ loc' = [loc EXCEPT ![h] = rec]
    BY <1>1, <1>4 DEF DeleteFind, Goto, DeleteLoc
  <2> HIDE DEF rec
  <2>2. HistoryOK' /\ settled' = settled
    BY <1>2, <1>3, <1>4, <2>1, QuietTells DEF DeleteFind
  <2>3. QED
    BY <2>2 DEF Tells
<1>5. ASSUME Done(h)
      PROVE  /\ AllIdle' /\ settled' = View' /\ settled \in SettledType
             /\ \A b \in Ads \ {a} : Kept(b)
  BY <1>2, <1>3, <1>5, EndsIdle
<1>6. ASSUME DeleteFind(h), Done(h)
      PROVE  Tells
  <2>1. \A b \in Ads : SameTold(b)
    BY <1>6, UnchangedRows DEF SameTold, DeleteFind
  <2>2. settled' = settled
    BY <1>1, <1>3, <1>5, <1>6, <2>1, NothingTold
  <2>3. QED
    BY <1>5, <1>6, <2>2, AllTold DEF Tells
<1>7. ASSUME DeleteRows(h)
      PROVE  Tells
  <2>1. Done(h)
    BY <1>7 DEF DeleteRows
  <2>2. RowsOf(a)' = {} /\ \A b \in Ads \ {a} : SameTold(b)
    BY <1>3, <1>7, RowsDropped DEF DeleteRows, SameTold
  <2>3. BallotOf(a)' = Approval!Blank
    BY <2>2, NoRowsBlankNext
  <2>4. Approval!Set(a, sts[a], Approval!Blank)
    BY <1>1, <1>3, <1>5, <2>1, <2>2, <2>3, OneTold
  <2>5. sts[a] = settled.phase[a] /\ sts[a] \notin Switchable
    BY <1>2, <1>3, <1>7 DEF Kept, Underway, DeleteAt, DeleteRows, At
  <2>6. Approval!Discard(a)
    BY <2>4, <2>5 DEF Approval!Discard, Switchable, Serving, Paused,
                      Approval!Serving, Approval!Paused
  <2>7. QED
    BY <1>5, <2>1, <2>6, AllTold DEF Tells, Approval!Next
<1>8. QED
  BY <1>4, <1>6, <1>7 DEF DeleteStep

(***************************************************************************)
(* Steps taken while no request is being worked on.                        *)
(***************************************************************************)
LEMMA AdministratorTold ==
  ASSUME OneByOne, ReviewInv, HistoryOK, ReviewInv', Administrator,
         settled' = IF AllIdle' THEN View' ELSE settled
  PROVE  Tells
<1>1. AllIdle
  BY DEF OneByOne, Administrator, AddReviewer, Toggle, Abandon, Alone
<1>2. loc' = loc /\ rows' = rows /\ ending' = ending
  BY DEF Administrator, AddReviewer, Toggle, Abandon, UpdateSts
<1>3. AllIdle' /\ settled' = View' /\ settled \in SettledType
  BY <1>1, <1>2 DEF AllIdle, HistoryOK
<1>4. \A a \in Ads : Kept(a) /\ SameRows(a) /\ OneRowEach(a)
  BY <1>1, <1>2, IdleKept, UnchangedRows DEF ReviewInv, SerialInv, RowsOnce
<1>5. HistoryOK'
  BY <1>3, AllTold
<1>6. TypeInv /\ TypeInv'
  BY DEF ReviewInv
<1>7. ASSUME NEW u \in Users, AddReviewer(u)
      PROVE  settled' = settled
  BY <1>3, <1>4, <1>6, <1>7, NothingTold DEF AddReviewer, SameTold
<1>8. ASSUME NEW a \in Ads, NEW v, sts' = [sts EXCEPT ![a] = v]
      PROVE  Approval!Set(a, v, settled.ballot[a])
  <2>1. sts'[a] = v /\ \A b \in Ads \ {a} : SameTold(b)
    BY <1>4, <1>6, <1>8 DEF SameTold, TypeInv, TypeOK
  <2>2. BallotOf(a)' = settled.ballot[a]
    BY <1>4, SameBallots DEF Kept
  <2>3. QED
    BY <1>3, <1>4, <1>6, <2>1, <2>2, OneTold
<1>9. /\ Approval!Serving = Serving /\ Approval!Paused = Paused
      /\ Approval!Rejected = Rejected /\ Approval!Abandoned = Abandoned
      /\ Serving # Paused
  BY DEF Serving, Paused, Rejected, Abandoned, Approval!Serving,
         Approval!Paused, Approval!Rejected, Approval!Abandoned
<1>10. ASSUME NEW a \in Ads, NEW v \in Switchable, Toggle(a, v)
       PROVE  Approval!Next
  <2>1. sts[a] \in Switchable \ {v} /\ sts' = [sts EXCEPT ![a] = v]
    BY <1>10 DEF Toggle, UpdateSts, Alone, OneByOne
  <2>2. settled.phase[a] \in {Serving, Paused}
          /\ v = IF settled.phase[a] = Serving THEN Paused ELSE Serving
    BY <1>4, <1>9, <2>1 DEF Kept, Switchable
  <2>3. Approval!Switch(a)
    BY <1>8, <1>9, <2>1, <2>2 DEF Approval!Switch
  <2>4. QED
    BY <2>3 DEF Approval!Next
<1>11. ASSUME NEW a \in Ads, Abandon(a)
       PROVE  Approval!Next
  <2>1. sts[a] \in Abandonable /\ sts' = [sts EXCEPT ![a] = Abandoned]
    BY <1>11 DEF Abandon, UpdateSts, Alone, OneByOne
  <2>2. Approval!Withdraw(a)
    BY <1>4, <1>8, <1>9, <2>1 DEF Approval!Withdraw, Kept, Abandonable
  <2>3. QED
    BY <2>2 DEF Approval!Next
<1>12. QED
  BY <1>5, <1>7, <1>10, <1>11 DEF Administrator, Tells

LEMMA TimerTold ==
  ASSUME OneByOne, ReviewInv, HistoryOK, ReviewInv', Timer,
         settled' = IF AllIdle' THEN View' ELSE settled
  PROVE  Tells
<1>1. loc' = loc /\ rows' = rows
  BY DEF Timer, TimerSelect, TimerUpdate
<1>2. \A h \in Requests : loc[h] = Idle
  BY DEF Timer, TimerSelect, TimerUpdate, OneByOne, Alone, AllIdle, ReviewInv,
         SerialInv, OneAtATime, Busy, NobodyElse
<1>3. \A a \in Ads : Kept(a) /\ SameRows(a) /\ OneRowEach(a)
  BY <1>1, <1>2, UnchangedRows
     DEF HistoryOK, Worked, Busy, ReviewInv, SerialInv, RowsOnce
<1>4. TypeInv /\ TypeInv' /\ settled \in SettledType
  BY DEF ReviewInv, HistoryOK
<1>5. \A a \in Ads : BallotOf(a)' = BallotOf(a)
  BY <1>3, SameBallots
<1>6. CASE TimerSelect
  <2>1. settled' = settled /\ sts' = sts
    BY <1>6 DEF TimerSelect, AllIdle
  <2>2. \A a \in Ads : Kept(a)'
    BY <1>3, <1>5, <2>1 DEF Kept
  <2>3. \A h \in Requests : ~Busy(h)'
    BY <1>1, <1>2 DEF Busy
  <2>4. HistoryOK'
    BY <1>4, <2>1, <2>2, <2>3 DEF HistoryOK, SettledType
  <2>5. QED
    BY <2>1, <2>4 DEF Tells
<1>7. CASE TimerUpdate
  <2>1. AllIdle' /\ settled' = View'
    BY <1>1, <1>2, <1>7 DEF TimerUpdate, AllIdle
  <2>2. settled'.phase = [a \in Ads |-> IF a \in ending THEN Approval!Ended
                                        ELSE settled.phase[a]]
    <3>1. settled'.phase = sts'
      BY <2>1 DEF View
    <3>2. Ended = Approval!Ended
      BY DEF Ended, Approval!Ended
    <3>3. \A a \in Ads : settled.phase[a] = sts[a]
      BY <1>3 DEF Kept
    <3>4. QED
      BY <1>7, <3>1, <3>2, <3>3 DEF TimerUpdate
  <2>3. settled'.ballot = settled.ballot
    <3>1. settled'.ballot = [a \in Ads |-> BallotOf(a)']
      BY <2>1 DEF View
    <3>2. settled.ballot = [a \in Ads |-> settled.ballot[a]]
      BY <1>4 DEF SettledType
    <3>3. QED
      BY <1>3, <1>5, <3>1, <3>2 DEF Kept
  <2> PICK S : S = ending
    OBVIOUS
  <2>4. S \in SUBSET Ads
    BY <1>4 DEF TypeInv, TypeOK
  <2>5. \A a \in S : settled.phase[a] \in {Approval!Serving, Approval!Paused}
    BY <1>3, <2>4 DEF Kept, ReviewInv, SerialInv, EndingDue, Switchable,
                      Serving, Paused, Approval!Serving, Approval!Paused
  <2>6. Approval!Finish(S)
    BY <2>2, <2>3, <2>5 DEF Approval!Finish
  <2>7. QED
    BY <2>1, <2>4, <2>6, AllTold DEF Tells, Approval!Next
<1>8. QED
  BY <1>6, <1>7 DEF Timer

(* A step that changes nothing View depends on.                            *)
LEMMA UnchangedTold ==
  ASSUME ReviewInv, HistoryOK, ReviewInv',
         UNCHANGED <<sts, rows, loc, ending>>,
         \/ settled' = IF AllIdle' THEN View' ELSE settled
         \/ settled' = settled
  PROVE  HistoryOK' /\ settled' = settled
<1>1. sts' = sts /\ rows' = rows /\ loc' = loc /\ ending' = ending
  OBVIOUS
<1>2. \A a \in Ads : SameTold(a) /\ OneRowEach(a)
  BY <1>1, UnchangedRows DEF SameTold, ReviewInv, SerialInv, RowsOnce
<1>3. settled' = settled
  <2>1. CASE AllIdle /\ settled' = View'
    <3>1. \A a \in Ads : Kept(a)
      BY <2>1, IdleKept
    <3>2. QED
      BY <1>2, <2>1, <3>1, NothingTold DEF ReviewInv, HistoryOK
  <2>2. QED
    BY <1>1, <2>1 DEF AllIdle
<1>4. \A a \in Ads : BallotOf(a)' = BallotOf(a)
  BY <1>2, SameBallots DEF SameTold
<1>5. \A a \in Ads : Kept(a) => Kept(a)'
  BY <1>1, <1>3, <1>4 DEF Kept
<1>6. \A a \in Ads : Worked(a) => Worked(a)'
  BY <1>1 DEF Worked, Busy
<1>7. ASSUME NEW h \in Requests, NEW a \in Ads, Told(h, a)
      PROVE  Told(h, a)'
  <2>1. VoteTold(h, a) => VoteTold(h, a)'
    BY <1>1, <1>3, <1>4 DEF VoteTold
  <2>2. QED
    BY <1>1, <1>3, <1>5, <1>7, <2>1 DEF Told
<1>8. ASSUME NEW h \in Requests, Busy(h)
      PROVE  loc[h].ad \in Ads
  <2>1. loc[h].pc \notin {"rmFind", "rmRows"} /\ loc[h] \in Loc
    BY <1>8 DEF ReviewInv, SerialInv, OneAtATime, TypeInv, TypeOK
  <2>2. QED
    BY <1>8, <2>1 DEF Loc, ReviewLoc, SubmitLoc, EditLoc, DeleteLoc, RemoveLoc,
                      Busy
<1>9. (\A h \in Requests : Busy(h) => Told(h, loc[h].ad))'
  BY <1>1, <1>7, <1>8 DEF HistoryOK, Busy
<1>10. QED
  BY <1>3, <1>5, <1>6, <1>9 DEF HistoryOK, SettledType

(***************************************************************************)
(* Every request is one step of AdApproval.                                *)
(***************************************************************************)
LEMMA InitTold == SerialInit => HistoryOK /\ Approval!Init
<1> SUFFICES ASSUME SerialInit PROVE HistoryOK /\ Approval!Init
  OBVIOUS
<1>1. ReviewInv
  BY InitSerial DEF SerialInit
<1>2. /\ \A a \in Ads : RowsOf(a) = {} /\ sts[a] = Draft
      /\ \A h \in Requests : loc[h] = Idle
      /\ sts \in [Ads -> Status]
  BY <1>1 DEF SerialInit, Init, RowsOf, ReviewInv, TypeInv, TypeOK
<1>3. /\ settled.phase = sts
      /\ settled.ballot = [a \in Ads |-> BallotOf(a)]
      /\ settled = [phase |-> sts, ballot |-> [a \in Ads |-> BallotOf(a)]]
  BY DEF SerialInit, View
<1>4. \A a \in Ads : BallotOf(a) \in Approval!Ballots
  BY <1>1, BallotType DEF ReviewInv, SerialInv
<1>5. settled \in SettledType
  BY <1>2, <1>3, <1>4 DEF SettledType
<1>6. HistoryOK
  BY <1>2, <1>3, <1>5 DEF HistoryOK, Kept, Busy
<1>7. settled.phase = [a \in Ads |-> Approval!Draft]
  BY <1>2, <1>3 DEF Draft, Approval!Draft
<1>8. settled.ballot = [a \in Ads |-> Approval!Blank]
  BY <1>2, <1>3, NoRowsBlank
<1>9. QED
  BY <1>6, <1>7, <1>8 DEF Approval!Init

LEMMA NextTold ==
  ASSUME OneByOne, ReviewInv, HistoryOK, ReviewInv', SerialNext
  PROVE  Tells
<1>1. Step /\ settled' = IF AllIdle' THEN View' ELSE settled
  BY DEF SerialNext, Next
<1>2. ASSUME NEW h \in Requests, Request(h)
      PROVE  Tells
  BY <1>1, <1>2, RequestTells DEF Tells
<1>3. ASSUME NEW h \in Requests, Continue(h)
      PROVE  Tells
  <2>1. ~RemoveStep(h)
    BY GoingOn DEF RemoveStep, RemoveFind, RemoveRows, At, ReviewInv
  <2>2. CASE ReviewStep(h)
    BY <1>1, <2>2, ReadsTold, WriteVoteTold, WritesTold, NextRowTold
       DEF ReviewStep
  <2>3. CASE SubmitStep(h)
    BY <1>1, <2>3, InsertRowTold, SetPendingTold DEF SubmitStep
  <2>4. CASE EditStep(h)
    BY <1>1, <2>4, EditsTold, EditRowsTold, EditResetTold DEF EditStep
  <2>5. CASE DeleteStep(h)
    BY <1>1, <2>5, DeletesTold
  <2>6. QED
    BY <1>3, <2>1, <2>2, <2>3, <2>4, <2>5 DEF Continue
<1>4. ASSUME NEW h \in Requests, Crash(h)
      PROVE  Tells
  BY <1>4 DEF OneByOne, Crash
<1>5. ASSUME NEW a \in Ads, Expire(a)
      PROVE  Tells
  BY <1>1, <1>5, UnchangedTold DEF Expire, Tells
<1>6. QED
  BY <1>1, <1>2, <1>3, <1>4, <1>5, AdministratorTold, TimerTold DEF Step

(* When requests do not overlap, every complete review, submission, edit,  *)
(* deletion, switch and nightly run is one step of AdApproval, whatever    *)
(* number of writes the servers make of it: no intermediate status is left *)
(* behind, no vote is lost, and none is counted for another submission.    *)
THEOREM ReviewsImplementApproval ==
  ASSUME OneByOne, EditsNoticed
  PROVE  SerialSpec => ImplementsApproval
<1>1. SerialInit => ReviewInv /\ HistoryOK /\ Approval!Init
  BY InitSerial, InitTold DEF SerialInit
<1>2. ReviewInv /\ HistoryOK /\ [SerialNext]_<<vars, settled>> =>
        (ReviewInv /\ HistoryOK)'
          /\ [Approval!Next]_<<settled.phase, settled.ballot>>
  <2> SUFFICES ASSUME ReviewInv, HistoryOK, [SerialNext]_<<vars, settled>>
               PROVE  /\ (ReviewInv /\ HistoryOK)'
                      /\ [Approval!Next]_<<settled.phase, settled.ballot>>
    OBVIOUS
  <2>1. ReviewInv'
    BY SerialInductive DEF SerialNext
  <2>2. CASE SerialNext
    BY <2>1, <2>2, NextTold DEF Tells
  <2>3. CASE UNCHANGED <<vars, settled>>
    BY <2>1, <2>3, UnchangedTold DEF vars
  <2>4. QED
    BY <2>1, <2>2, <2>3
<1>3. QED
  BY <1>1, <1>2, PTL DEF SerialSpec, ImplementsApproval, Approval!Spec
=============================================================================
