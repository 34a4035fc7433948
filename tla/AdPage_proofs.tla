--------------------------- MODULE AdPage_proofs ----------------------------
(***************************************************************************)
(* The pages of an ad, for every set of views, and its materials, for      *)
(* every set of materials, pages, edits and timers.                        *)
(*                                                                         *)
(* The page view and the clicks are only sent when /ad/pvneed has granted  *)
(* the view, and one view whose check meets no error is granted a minute,  *)
(* as long as the checks of the frequency do not overlap.  The hash of the *)
(* materials is of the rows between edits, pages are answered from rows of *)
(* the ad, and the timers lose no code.                                    *)
(***************************************************************************)
EXTENDS AdPage, MaterialCache, FiniteSetTheorems, TLAPS

(* One step per action, used by every induction below.                     *)
Step ==
  \/ \E v \in Views :
       \/ LoadPage(v) \/ RunScript(v) \/ Answer(v) \/ ClickAd(v)
       \/ CheckUuid(v) \/ CheckFreq(v) \/ AddKey(v) \/ ExpireKey(v)
       \/ RedisError(v) \/ UuidExpires(v)
  \/ FreqExpires

LEMMA NextIsStep == Next => Step
BY DEF Next, Serve, Step

-----------------------------------------------------------------------------
(* Every variable stays within its type, whatever overlaps or fails: no    *)
(* page and no request reaches a place the code does not have.             *)
THEOREM PageTypeCorrect == Spec => []TypeOK
<1>1. Init => TypeOK
  BY DEF Init, TypeOK
<1>2. TypeOK /\ [Next]_pageVars => TypeOK'
  <2> SUFFICES ASSUME TypeOK, [Next]_pageVars PROVE TypeOK'
    OBVIOUS
  <2> USE DEF TypeOK
  <2>1. ASSUME NEW v \in Views, LoadPage(v) PROVE TypeOK'
    BY <2>1 DEF LoadPage
  <2>2. ASSUME NEW v \in Views, RunScript(v) PROVE TypeOK'
    BY <2>2 DEF RunScript
  <2>3. ASSUME NEW v \in Views, Answer(v) PROVE TypeOK'
    BY <2>3 DEF Answer
  <2>4. ASSUME NEW v \in Views, ClickAd(v) PROVE TypeOK'
    BY <2>4 DEF ClickAd
  <2>5. ASSUME NEW v \in Views, CheckUuid(v) PROVE TypeOK'
    BY <2>5 DEF CheckUuid
  <2>6. ASSUME NEW v \in Views, CheckFreq(v) PROVE TypeOK'
    BY <2>6 DEF CheckFreq
  <2>7. ASSUME NEW v \in Views, AddKey(v) PROVE TypeOK'
    BY <2>7 DEF AddKey
  <2>8. ASSUME NEW v \in Views, ExpireKey(v) PROVE TypeOK'
    BY <2>8 DEF ExpireKey, Grant
  <2>9. ASSUME NEW v \in Views, RedisError(v) PROVE TypeOK'
    BY <2>9 DEF RedisError, Grant
  <2>10. ASSUME NEW v \in Views, UuidExpires(v) PROVE TypeOK'
    BY <2>10 DEF UuidExpires
  <2>11. CASE FreqExpires
    BY <2>11 DEF FreqExpires
  <2>12. CASE UNCHANGED pageVars
    BY <2>12 DEF pageVars
  <2> QED
    BY <2>1, <2>2, <2>3, <2>4, <2>5, <2>6, <2>7, <2>8, <2>9, <2>10, <2>11,
       <2>12, NextIsStep DEF Step
<1> QED BY <1>1, <1>2, PTL DEF Spec

-----------------------------------------------------------------------------
(* A page that has sent its page view has an answer that is no refusal and *)
(* has nothing more to ask; clicks come after it.                          *)
Granted ==
  /\ TypeOK
  /\ \A v \in Views :
       /\ ~white => /\ pv[v] > 0 => /\ page[v] = "counting"
                                   /\ ask[v] \in {"granted", "error"}
                    /\ clicks[v] > 0 => pv[v] > 0

LEMMA GrantedInit == Init => Granted
BY DEF Init, Granted, TypeOK

LEMMA GrantedStep ==
  ASSUME Granted, TypeOK', [Next]_pageVars
  PROVE  Granted'
<1> USE DEF Granted, TypeOK
<1>1. ASSUME NEW v \in Views, LoadPage(v) PROVE Granted'
  BY <1>1 DEF LoadPage
<1>2. ASSUME NEW v \in Views, RunScript(v) PROVE Granted'
  BY <1>2 DEF RunScript
<1>3. ASSUME NEW v \in Views, Answer(v) PROVE Granted'
  BY <1>3 DEF Answer
<1>4. ASSUME NEW v \in Views, ClickAd(v) PROVE Granted'
  BY <1>4 DEF ClickAd
<1>5. ASSUME NEW v \in Views, CheckUuid(v) PROVE Granted'
  BY <1>5 DEF CheckUuid
<1>6. ASSUME NEW v \in Views, CheckFreq(v) PROVE Granted'
  BY <1>6 DEF CheckFreq
<1>7. ASSUME NEW v \in Views, AddKey(v) PROVE Granted'
  BY <1>7 DEF AddKey
<1>8. ASSUME NEW v \in Views, ExpireKey(v) PROVE Granted'
  BY <1>8 DEF ExpireKey, Grant
<1>9. ASSUME NEW v \in Views, RedisError(v) PROVE Granted'
  BY <1>9 DEF RedisError, Grant
<1>10. ASSUME NEW v \in Views, UuidExpires(v) PROVE Granted'
  BY <1>10 DEF UuidExpires
<1>11. CASE FreqExpires
  BY <1>11 DEF FreqExpires
<1>12. CASE UNCHANGED pageVars
  BY <1>12 DEF pageVars
<1> QED
  BY <1>1, <1>2, <1>3, <1>4, <1>5, <1>6, <1>7, <1>8, <1>9, <1>10, <1>11,
     <1>12, NextIsStep DEF Step

(* A page view or a click of a user who is not on the white list is only   *)
(* ever sent for a view that /ad/pvneed granted or answered with an error. *)
THEOREM CountsAreGranted == Spec => []OnlyGrantedCount
<1>1. Granted /\ TypeOK' /\ [Next]_pageVars => Granted'
  BY GrantedStep
<1>2. Granted => OnlyGrantedCount
  BY DEF Granted, OnlyGrantedCount, TypeOK
<1> QED BY GrantedInit, PageTypeCorrect, <1>1, <1>2, PTL DEF Spec

-----------------------------------------------------------------------------
(* The frequency control at work: one check at a time between EXISTS and   *)
(* EXPIRE.  For a view whose commands succeed the key is there from HSET   *)
(* on, without an end until EXPIRE, and it is there as long as the view it *)
(* was set for counts.                                                     *)
InCheck(v) == ask[v] \in {"fresh", "add", "expire"}
Undisturbed == minute \ failed

Controlled ==
  /\ TypeOK
  /\ \A v, w \in Views : InCheck(v) /\ InCheck(w) => v = w
  /\ \A v \in Views \ failed : ask[v] = "add" => freq = "absent"
  /\ \A v \in Views \ failed :
       ask[v] = "expire" => freq = "set" /\ Undisturbed = {}
  /\ freq = "absent" => Undisturbed = {}
  /\ \A v, w \in Undisturbed : v = w

LEMMA ControlledInit == Init => Controlled
BY DEF Init, Controlled, TypeOK, InCheck, Undisturbed

LEMMA ControlledStep ==
  ASSUME OneAtATime, Controlled, TypeOK', [Next]_pageVars
  PROVE  Controlled'
<1> USE DEF Controlled, TypeOK, InCheck, Undisturbed
<1>1. ASSUME NEW v \in Views, LoadPage(v) PROVE Controlled'
  BY <1>1 DEF LoadPage
<1>2. ASSUME NEW v \in Views, RunScript(v) PROVE Controlled'
  BY <1>2 DEF RunScript
<1>3. ASSUME NEW v \in Views, Answer(v) PROVE Controlled'
  BY <1>3 DEF Answer
<1>4. ASSUME NEW v \in Views, ClickAd(v) PROVE Controlled'
  BY <1>4 DEF ClickAd
<1>5. ASSUME NEW v \in Views, CheckUuid(v) PROVE Controlled'
  BY <1>5, OneAtATime DEF CheckUuid, Alone
<1>6. ASSUME NEW v \in Views, CheckFreq(v) PROVE Controlled'
  BY <1>6 DEF CheckFreq
<1>7. ASSUME NEW v \in Views, AddKey(v) PROVE Controlled'
  BY <1>7 DEF AddKey
<1>8. ASSUME NEW v \in Views, ExpireKey(v) PROVE Controlled'
  BY <1>8 DEF ExpireKey, Grant
<1>9. ASSUME NEW v \in Views, RedisError(v) PROVE Controlled'
  BY <1>9, OneAtATime DEF RedisError, Grant, Alone
<1>10. ASSUME NEW v \in Views, UuidExpires(v) PROVE Controlled'
  BY <1>10 DEF UuidExpires
<1>11. CASE FreqExpires
  BY <1>11 DEF FreqExpires
<1>12. CASE UNCHANGED pageVars
  BY <1>12 DEF pageVars
<1> QED
  BY <1>1, <1>2, <1>3, <1>4, <1>5, <1>6, <1>7, <1>8, <1>9, <1>10, <1>11,
     <1>12, NextIsStep DEF Step

(* When the checks do not overlap, one of the views of a user, an ad and a *)
(* page whose commands succeed is granted in the life of the key.          *)
THEOREM OneIsGranted == OneAtATime => (Spec => []OnePerMinute)
<1> SUFFICES ASSUME OneAtATime PROVE Spec => []OnePerMinute
  OBVIOUS
<1>1. Controlled /\ TypeOK' /\ [Next]_pageVars => Controlled'
  BY ControlledStep
<1>2. Controlled => OnePerMinute
  <2> SUFFICES ASSUME Controlled PROVE Cardinality(Undisturbed) <= 1
    BY DEF OnePerMinute, Undisturbed
  <2>1. CASE Undisturbed = {}
    BY <2>1, FS_EmptySet
  <2>2. CASE Undisturbed # {}
    <3>1. PICK v \in Undisturbed : TRUE
      BY <2>2
    <3>2. Undisturbed = {v}
      BY <3>1 DEF Controlled
    <3>3. Cardinality(Undisturbed) = 1
      BY <3>2, FS_Singleton, Zenon
    <3> QED BY <3>3
  <2> QED BY <2>1, <2>2
<1> QED BY ControlledInit, PageTypeCorrect, <1>1, <1>2, PTL DEF Spec


-----------------------------------------------------------------------------
(* The materials of an ad.  One step per action, as above.                 *)
MaterialStep ==
  \/ \E c \in Code : \/ \E ms \in SUBSET Materials : EditAdPlan("M", ms, c)
                     \/ \E x \in Abouts : EditAdPlan("E", {x}, c)
  \/ EditStep
  \/ \E m \in Materials, x \in Abouts \cup {Deleted} : ChangeMaterial(m, x)
  \/ \E r \in Readers : ReaderStep(r)
  \/ TimerStep

LEMMA MaterialNextIsStep == MaterialNext => MaterialStep /\ Remember
BY DEF MaterialNext, MaterialStep

(* The types, one part per group of variables.                             *)
RowsType ==
  /\ links \subseteq Materials /\ ext \subseteq Abouts
  /\ about \in [Materials -> Abouts \cup {Deleted}]
  /\ sub \in Code /\ temp \in Code

ReaderType == [pc : {"idle", "get", "readM", "readExt", "store"},
               list : SUBSET Item, old : BOOLEAN]

ReadersType == readers \in [Readers -> ReaderType]

EditType ==
  /\ edit \in [pc : {"idle", "unlink", "unext", "add", "read", "del", "put"},
               kind : {"M", "E"}, todo : SUBSET (Materials \cup Abouts),
               list : SUBSET Item, old : BOOLEAN]
  /\ edit.todo \subseteq IF edit.kind = "M" THEN Materials ELSE Abouts

TimerType ==
  timer \in [pc : {"idle", "clear", "read", "move"}, to : {"temp", "sub"}]

LEMMA MaterialTypeParts ==
  ASSUME MaterialTypeOK
  PROVE  RowsType /\ ReadersType /\ EditType /\ TimerType
BY DEF MaterialTypeOK, RowsType, ReadersType, ReaderType, EditType, TimerType

(* A row is an item; the materials are the rows of another field than '0'. *)
LEMMA RowsAreItems ==
  ASSUME RowsType
  PROVE  /\ MaterialRows \subseteq Item
         /\ ExtRows \subseteq {i \in Item : i.field = ExtField}
<1> USE DEF RowsType, Item, Fields, ItemOf
<1>1. ASSUME NEW i \in MaterialRows PROVE i \in Item
  <2>1. PICK m \in links : about[m] # Deleted /\ i = ItemOf(m, about[m])
    BY <1>1 DEF MaterialRows
  <2>2. about[m] \in Abouts
    BY <2>1
  <2> QED BY <2>1, <2>2
<1>2. ASSUME NEW i \in ExtRows PROVE i \in Item /\ i.field = ExtField
  BY <1>2 DEF ExtRows
<1> QED BY <1>1, <1>2

LEMMA RowsAreItemsToo ==
  ASSUME RowsType
  PROVE  Rows \subseteq Item
BY RowsAreItems DEF Rows

LEMMA FieldOfMaterial ==
  ASSUME MaterialTypeOK, NEW i \in MaterialRows
  PROVE  i.field \in Materials /\ i.field # ExtField
BY MaterialAssumption DEF MaterialTypeOK, MaterialRows, ItemOf

LEMMA MaterialsAmongRows ==
  ASSUME MaterialTypeOK
  PROVE  MaterialRows = {i \in Rows : i.field # ExtField}
<1>1. \A i \in MaterialRows : i.field # ExtField
  BY FieldOfMaterial
<1>2. \A i \in ExtRows : i.field = ExtField
  BY MaterialTypeParts, RowsAreItems
<1> QED BY <1>1, <1>2 DEF Rows

LEMMA RowsStay ==
  ASSUME UNCHANGED <<links, ext, about, sub, temp>>
  PROVE  /\ MaterialRows' = MaterialRows
         /\ ExtRows' = ExtRows
         /\ Rows' = Rows
BY DEF MaterialRows, ExtRows, Rows, ItemOf

LEMMA RowsAreItemsNext == RowsType' => (Rows \subseteq Item)'
BY RowsAreItemsToo, PTL

(* What HSET does to a hash of items of R.                                 *)
LEMMA HSetWithin ==
  ASSUME NEW R, NEW h \in SUBSET R, NEW i \in R
  PROVE  /\ HSet(h, i) \subseteq R
         /\ i \in HSet(h, i)
BY DEF HSet

LEMMA HSetFields ==
  ASSUME NEW h, NEW i
  PROVE  FieldsOf(HSet(h, i)) = FieldsOf(h) \cup {i.field}
<1>1. ASSUME NEW f \in FieldsOf(h) PROVE f \in FieldsOf(HSet(h, i))
  <2>1. PICK j \in h : f = j.field
    BY DEF FieldsOf
  <2>2. CASE j.field = i.field
    BY <2>1, <2>2 DEF FieldsOf, HSet
  <2>3. CASE j.field # i.field
    BY <2>1, <2>3 DEF FieldsOf, HSet
  <2> QED BY <2>2, <2>3
<1>2. i.field \in FieldsOf(HSet(h, i))
  BY DEF FieldsOf, HSet
<1>3. FieldsOf(HSet(h, i)) \subseteq FieldsOf(h) \cup {i.field}
  BY DEF FieldsOf, HSet
<1> QED BY <1>1, <1>2, <1>3

(* Those who fill the hash keep what they hold when the rows change.       *)
LEMMA AgeKeeps ==
  ASSUME ReadersType, NEW pcs, AgeReaders(pcs)
  PROVE  /\ ReadersType'
         /\ \A r \in Readers : /\ readers'[r].pc = readers[r].pc
                               /\ readers'[r].list = readers[r].list
                               /\ readers[r].old => readers'[r].old
                               /\ readers[r].pc \in pcs => readers'[r].old
                               /\ readers[r].pc \notin pcs =>
                                    readers'[r].old = readers[r].old
<1> USE DEF ReadersType, ReaderType, AgeReaders, Aged
<1>1. ASSUME NEW r \in Readers
      PROVE  /\ readers'[r].pc = readers[r].pc
             /\ readers'[r].list = readers[r].list
             /\ readers'[r].old = (readers[r].old \/ readers[r].pc \in pcs)
             /\ readers'[r] \in ReaderType
  OBVIOUS
<1>2. readers' = [r \in Readers |-> readers'[r]]
  OBVIOUS
<1>3. ReadersType'
  BY <1>1, <1>2
<1> QED BY <1>1, <1>3

LEMMA AgeFacts ==
  ASSUME ReadersType, Age
  PROVE  /\ ReadersType'
         /\ \A r \in Readers : /\ readers'[r].pc = readers[r].pc
                               /\ readers'[r].list = readers[r].list
                               /\ readers[r].old => readers'[r].old
                               /\ Rows' = Rows => readers'[r] = readers[r]
                               /\ Rows' # Rows
                                  /\ readers[r].pc \in {"readExt", "store"} =>
                                    readers'[r].old
                               /\ readers[r].pc \notin {"readExt", "store"} =>
                                    readers'[r].old = readers[r].old
<1>1. CASE Rows' = Rows
  BY <1>1 DEF Age, ReadersType
<1>2. CASE Rows' # Rows
  <2>1. AgeReaders({"readExt", "store"})
    BY <1>2 DEF Age
  <2> QED BY <1>2, <2>1, AgeKeeps
<1> QED BY <1>1, <1>2

LEMMA AgeEditFacts ==
  ASSUME EditType, AgeEdit
  PROVE  /\ EditType'
         /\ edit'.pc = edit.pc /\ edit'.kind = edit.kind
         /\ edit'.list = edit.list
         /\ edit.old => edit'.old
         /\ Rows' = Rows => edit' = edit
         /\ Rows' # Rows /\ edit.pc \in {"del", "put"} => edit'.old
BY DEF EditType, AgeEdit, Aged

(* The parts of the type, each over all actions.                           *)
LEMMA RowsTypeStep ==
  ASSUME RowsType, EditType, MaterialStep
  PROVE  RowsType'
<1> USE DEF RowsType
<1>1. ASSUME NEW c \in Code, NEW k, NEW n, EditAdPlan(k, n, c)
      PROVE  RowsType'
  BY <1>1 DEF EditAdPlan, rowVars
<1>2. CASE EditStep
  <2>1. UNCHANGED <<about, sub, temp>>
    BY <1>2 DEF EditStep, nhtVars
  <2>2. links' \subseteq Materials /\ ext' \subseteq Abouts
    <3>1. CASE Unlink
      BY <3>1 DEF Unlink
    <3>2. CASE Unext
      BY <3>2 DEF Unext
    <3>3. CASE AddRow
      <4>1. PICK t \in edit.todo :
              IF edit.kind = "M" THEN links' = links \cup {t} /\ ext' = ext
                                 ELSE ext' = ext \cup {t} /\ links' = links
        BY <3>3 DEF AddRow
      <4>2. t \in IF edit.kind = "M" THEN Materials ELSE Abouts
        BY DEF EditType
      <4>3. CASE edit.kind = "M"
        BY <4>1, <4>2, <4>3
      <4>4. CASE edit.kind # "M"
        BY <4>1, <4>2, <4>4
      <4> QED BY <4>3, <4>4
    <3>4. CASE ReadBack \/ DelHash \/ PutItem \/ EditBreaks
      BY <3>4 DEF ReadBack, DelHash, PutItem, EditBreaks
    <3> QED BY <1>2, <3>1, <3>2, <3>3, <3>4 DEF EditStep
  <2> QED BY <2>1, <2>2
<1>3. ASSUME NEW m \in Materials, NEW x \in Abouts \cup {Deleted},
             ChangeMaterial(m, x)
      PROVE  RowsType'
  BY <1>3 DEF ChangeMaterial, nhtVars
<1>4. ASSUME NEW r \in Readers, ReaderStep(r) PROVE RowsType'
  BY <1>4 DEF ReaderStep, rowVars, nhtVars
<1>5. CASE TimerStep
  BY <1>5 DEF TimerStep, rowVars, CountNht, LimitReached, NextDay, ClearFull,
              ReadCodes, MoveCodes, TimerFails, Code
<1> QED BY <1>1, <1>2, <1>3, <1>4, <1>5 DEF MaterialStep

(* A page after the HSET of i.                                             *)
LEMMA StoredFacts ==
  ASSUME NEW rec \in ReaderType, NEW i \in rec.list
  PROVE  /\ Stored(rec, i, Away) \in ReaderType
         /\ \/ Stored(rec, i, Away) = Away /\ rec.list = {i}
            \/ /\ Stored(rec, i, Away).pc = rec.pc
               /\ Stored(rec, i, Away).old = rec.old
               /\ Stored(rec, i, Away).list = rec.list \ {i}
               /\ Stored(rec, i, Away).list # {}
<1>1. CASE rec.list = {i}
  BY <1>1 DEF Stored, Away, ReaderType
<1>2. CASE rec.list # {i}
  <2> DEFINE left == [rec EXCEPT !.list = rec.list \ {i}]
  <2>1. Stored(rec, i, Away) = left
    BY <1>2 DEF Stored
  <2>2. /\ left \in ReaderType /\ left.pc = rec.pc /\ left.old = rec.old
        /\ left.list = rec.list \ {i}
    BY DEF ReaderType
  <2>3. rec.list \ {i} # {}
    BY <1>2
  <2> HIDE DEF left
  <2> QED BY <2>1, <2>2, <2>3
<1> QED BY <1>1, <1>2

LEMMA ReadersTypeStep ==
  ASSUME RowsType, ReadersType, MaterialStep
  PROVE  ReadersType'
<1>1. ASSUME NEW c \in Code, NEW k, NEW n, EditAdPlan(k, n, c)
      PROVE  ReadersType'
  BY <1>1, AgeFacts DEF EditAdPlan
<1>2. CASE EditStep
  <2>1. AgeReaders({"get"}) \/ Age
    BY <1>2 DEF EditStep
  <2> QED BY <2>1, AgeKeeps, AgeFacts
<1>3. ASSUME NEW m, NEW x, ChangeMaterial(m, x)
      PROVE  ReadersType'
  BY <1>3, AgeFacts DEF ChangeMaterial
<1>4. ASSUME NEW r \in Readers, ReaderStep(r) PROVE ReadersType'
  <2> USE DEF ReadersType, ReaderType
  <2>1. CASE LookUp(r)
    <3>1. PICK pc \in {"get", "readM"} :
            readers' = [readers EXCEPT ![r] = [Away EXCEPT !.pc = pc]]
      BY <2>1 DEF LookUp
    <3> QED BY <3>1 DEF Away
  <2>2. CASE GetAll(r)
    BY <2>2 DEF GetAll, Away
  <2>3. CASE ReadMaterials(r)
    BY <2>3, RowsAreItems DEF ReadMaterials
  <2>4. CASE ReadExt(r)
    <3> DEFINE list == IF readers[r].list # {} THEN readers[r].list
                       ELSE ExtRows
    <3>1. list \subseteq Item
      BY RowsAreItems
    <3>2. readers' = [readers EXCEPT ![r] = IF list = {} THEN Away
                       ELSE [@ EXCEPT !.pc = "store", !.list = list]]
      BY <2>4 DEF ReadExt
    <3> HIDE DEF list
    <3> QED BY <3>1, <3>2 DEF Away
  <2>5. CASE ReadFails(r)
    BY <2>5 DEF ReadFails, Away
  <2>6. CASE Store(r)
    <3>1. ASSUME NEW i \in readers[r].list,
                 readers' = [readers EXCEPT ![r] = Stored(readers[r], i, Away)]
          PROVE  ReadersType'
      BY <3>1, StoredFacts
    <3>2. CASE readers' = [readers EXCEPT ![r] = Away]
      BY <3>2 DEF Away
    <3> QED BY <2>6, <3>1, <3>2 DEF Store
  <2> QED BY <1>4, <2>1, <2>2, <2>3, <2>4, <2>5, <2>6 DEF ReaderStep
<1>5. CASE TimerStep
  BY <1>5, AgeFacts DEF TimerStep
<1> QED BY <1>1, <1>2, <1>3, <1>4, <1>5 DEF MaterialStep

(* A page that stores has something to store.                              *)
StoringType ==
  \A r \in Readers : readers[r].pc = "store" => readers[r].list # {}

LEMMA StoringTypeStep ==
  ASSUME RowsType, ReadersType, StoringType, MaterialStep
  PROVE  StoringType'
<1>1. ASSUME NEW c \in Code, NEW k, NEW n, EditAdPlan(k, n, c)
      PROVE  StoringType'
  BY <1>1, AgeFacts DEF EditAdPlan, StoringType
<1>2. CASE EditStep
  <2>1. AgeReaders({"get"}) \/ Age
    BY <1>2 DEF EditStep
  <2> QED BY <2>1, AgeKeeps, AgeFacts DEF StoringType
<1>3. ASSUME NEW m, NEW x, ChangeMaterial(m, x)
      PROVE  StoringType'
  BY <1>3, AgeFacts DEF ChangeMaterial, StoringType
<1>4. ASSUME NEW r \in Readers, ReaderStep(r) PROVE StoringType'
  <2> USE DEF ReadersType, ReaderType, StoringType, Away
  <2>1. CASE LookUp(r)
    BY <2>1 DEF LookUp
  <2>2. CASE GetAll(r)
    BY <2>2 DEF GetAll
  <2>3. CASE ReadMaterials(r)
    BY <2>3 DEF ReadMaterials
  <2>4. CASE ReadExt(r)
    BY <2>4 DEF ReadExt
  <2>5. CASE ReadFails(r)
    BY <2>5 DEF ReadFails
  <2>6. CASE Store(r)
    <3>1. ASSUME NEW i \in readers[r].list,
                 readers' = [readers EXCEPT ![r] = Stored(readers[r], i, Away)]
          PROVE  StoringType'
      BY <3>1, StoredFacts
    <3>2. CASE readers' = [readers EXCEPT ![r] = Away]
      BY <3>2
    <3> QED BY <2>6, <3>1, <3>2 DEF Store
  <2> QED BY <1>4, <2>1, <2>2, <2>3, <2>4, <2>5, <2>6 DEF ReaderStep
<1>5. CASE TimerStep
  BY <1>5, AgeFacts DEF TimerStep, StoringType
<1> QED BY <1>1, <1>2, <1>3, <1>4, <1>5 DEF MaterialStep

LEMMA EditTypeStep ==
  ASSUME RowsType, EditType, MaterialStep
  PROVE  EditType'
<1>1. ASSUME NEW c \in Code, NEW ms \in SUBSET Materials,
             EditAdPlan("M", ms, c)
      PROVE  EditType'
  BY <1>1 DEF EditAdPlan, NoEdit, EditType
<1>2. ASSUME NEW c \in Code, NEW x \in Abouts, EditAdPlan("E", {x}, c)
      PROVE  EditType'
  BY <1>2 DEF EditAdPlan, NoEdit, EditType
<1>3. CASE EditStep
  <2> USE DEF EditType, NoEdit
  <2>1. CASE Unlink
    BY <2>1 DEF Unlink
  <2>2. CASE Unext
    BY <2>2 DEF Unext, AfterAdd
  <2>3. CASE AddRow
    <3>1. PICK t \in edit.todo :
            edit' = [edit EXCEPT !.pc = AfterAdd(edit.todo \ {t}),
                                 !.todo = @ \ {t}]
      BY <2>3 DEF AddRow
    <3>2. AfterAdd(edit.todo \ {t}) \in {"read", "add"}
      BY DEF AfterAdd
    <3> QED BY <3>1, <3>2
  <2>4. CASE ReadBack
    BY <2>4, RowsAreItems DEF ReadBack
  <2>5. CASE DelHash
    BY <2>5 DEF DelHash
  <2>6. CASE PutItem
    <3>1. ASSUME NEW i \in edit.list, edit' = Stored(edit, i, NoEdit)
          PROVE  EditType'
      <4>1. CASE edit.list = {i}
        BY <3>1, <4>1 DEF Stored
      <4>2. CASE edit.list # {i}
        BY <3>1, <4>2 DEF Stored
      <4> QED BY <4>1, <4>2
    <3>2. CASE edit' = NoEdit
      BY <3>2
    <3> QED BY <2>6, <3>1, <3>2 DEF PutItem
  <2>7. CASE EditBreaks
    BY <2>7 DEF EditBreaks
  <2> QED BY <1>3, <2>1, <2>2, <2>3, <2>4, <2>5, <2>6, <2>7 DEF EditStep
<1>4. ASSUME NEW m, NEW x, ChangeMaterial(m, x)
      PROVE  EditType'
  BY <1>4, AgeEditFacts DEF ChangeMaterial
<1>5. ASSUME NEW r \in Readers, ReaderStep(r) PROVE EditType'
  BY <1>5 DEF ReaderStep, EditType
<1>6. CASE TimerStep
  BY <1>6, AgeEditFacts DEF TimerStep
<1> QED BY <1>1, <1>2, <1>3, <1>4, <1>5, <1>6 DEF MaterialStep

LEMMA TimerTypeStep ==
  ASSUME TimerType, MaterialStep
  PROVE  TimerType'
<1> USE DEF TimerType
<1>1. ASSUME NEW c \in Code, NEW k, NEW n, EditAdPlan(k, n, c)
      PROVE  TimerType'
  BY <1>1 DEF EditAdPlan
<1>2. CASE EditStep
  BY <1>2 DEF EditStep, nhtVars
<1>3. ASSUME NEW m, NEW x, ChangeMaterial(m, x)
      PROVE  TimerType'
  BY <1>3 DEF ChangeMaterial, nhtVars
<1>4. ASSUME NEW r \in Readers, ReaderStep(r) PROVE TimerType'
  BY <1>4 DEF ReaderStep, nhtVars
<1>5. CASE TimerStep
  <2>1. CASE CountNht \/ LimitReached
    BY <2>1 DEF CountNht, LimitReached
  <2>2. CASE NextDay \/ ClearFull
    BY <2>2 DEF NextDay, ClearFull
  <2>3. CASE ReadCodes
    BY <2>3 DEF ReadCodes, Asleep
  <2>4. CASE MoveCodes \/ TimerFails
    BY <2>4 DEF MoveCodes, TimerFails, Asleep
  <2> QED BY <1>5, <2>1, <2>2, <2>3, <2>4 DEF TimerStep
<1> QED BY <1>1, <1>2, <1>3, <1>4, <1>5 DEF MaterialStep

(* The hashes hold items; a field of the other hash is a material.         *)
HashType ==
  hash \subseteq Item /\ was \subseteq Item /\ other \subseteq Materials

LEMMA HashTypeStep ==
  ASSUME MaterialTypeOK, RowsType', MaterialStep, Remember
  PROVE  HashType'
<1>1. RowsType /\ ReadersType /\ EditType
  BY MaterialTypeParts
<1>2. was' \subseteq Item
  <2>1. Rows \subseteq Item /\ Rows' \subseteq Item
    BY <1>1, RowsAreItemsToo, RowsAreItemsNext
  <2>2. was \subseteq Item
    BY DEF MaterialTypeOK
  <2> QED BY <2>1, <2>2 DEF Remember
<1>3. hash \subseteq Item
  BY DEF MaterialTypeOK
<1>4. other \subseteq Materials
  BY DEF MaterialTypeOK
<1>5. ASSUME NEW c \in Code, NEW k, NEW n, EditAdPlan(k, n, c)
      PROVE  hash' = hash /\ other' = other
  BY <1>5 DEF EditAdPlan
<1>6. ASSUME EditStep PROVE hash' \subseteq Item /\ other' = other
  <2>1. other' = other
    BY <1>6 DEF EditStep, nhtVars
  <2>2. CASE PutItem
    <3>1. CASE hash' = hash
      BY <3>1, <1>3, <2>1
    <3>2. ASSUME NEW i \in edit.list, hash' = HSet(hash, i)
          PROVE  hash' \subseteq Item
      <4>1. i \in Item
        BY <1>1 DEF EditType
      <4> QED BY <3>2, <4>1, <1>3, HSetWithin
    <3> QED BY <2>1, <2>2, <3>1, <3>2 DEF PutItem
  <2>3. CASE Unlink \/ Unext \/ AddRow \/ ReadBack \/ DelHash \/ EditBreaks
    BY <2>1, <2>3, <1>3
    DEF Unlink, Unext, AddRow, ReadBack, DelHash, EditBreaks
  <2> QED BY <1>6, <2>1, <2>2, <2>3 DEF EditStep
<1>7. ASSUME NEW m, NEW x, ChangeMaterial(m, x)
      PROVE  hash' = hash /\ other' = other
  BY <1>7 DEF ChangeMaterial, nhtVars
<1>8. ASSUME NEW r \in Readers, ReaderStep(r)
      PROVE  hash' \subseteq Item /\ other' = other
  <2>1. other' = other
    BY <1>8 DEF ReaderStep, nhtVars
  <2>2. CASE Store(r)
    <3>1. CASE hash' = hash
      BY <3>1, <1>3, <2>1
    <3>2. ASSUME NEW i \in readers[r].list, hash' = HSet(hash, i)
          PROVE  hash' \subseteq Item
      <4>1. i \in Item
        BY <1>1 DEF ReadersType, ReaderType
      <4> QED BY <3>2, <4>1, <1>3, HSetWithin
    <3> QED BY <2>1, <2>2, <3>1, <3>2 DEF Store
  <2>3. CASE hash' = hash
    BY <2>1, <2>3, <1>3
  <2> QED BY <1>8, <2>1, <2>2, <2>3 DEF ReaderStep, LookUp, GetAll,
             ReadMaterials, ReadExt, ReadFails
<1>9. ASSUME TimerStep PROVE hash' = hash /\ other' \subseteq Materials
  <2>1. FieldsOf(MaterialRows) \subseteq Materials
    BY FieldOfMaterial DEF FieldsOf
  <2>2. \A items \in SUBSET MaterialRows : FieldsOf(items) \subseteq Materials
    BY <2>1 DEF FieldsOf
  <2>3. hash' = hash
    BY <1>9 DEF TimerStep
  <2>4. CASE MoveCodes
    BY <2>4, <2>1, <2>3, <1>4 DEF MoveCodes
  <2>5. CASE TimerFails
    BY <2>5, <2>2, <2>3, <1>4 DEF TimerFails
  <2>6. CASE other' = other
    BY <2>6, <2>3, <1>4
  <2> QED BY <1>9, <2>3, <2>4, <2>5, <2>6 DEF TimerStep, CountNht,
             LimitReached, NextDay, ClearFull, ReadCodes
<1> QED BY <1>2, <1>3, <1>4, <1>5, <1>6, <1>7, <1>8, <1>9
        DEF MaterialStep, HashType

(* Counters and flags.                                                     *)
CountType ==
  /\ given \in Code
  /\ count \in 0..Limit /\ full \in BOOLEAN /\ amiss \in BOOLEAN
  /\ edits \in 0..MaxEdits /\ changes \in 0..MaxChanges
  /\ odd \subseteq {"late", "second", "failed"}

LEMMA CountTypeStep ==
  ASSUME ReadersType, EditType, CountType, MaterialStep
  PROVE  CountType'
<1> USE MaterialAssumption DEF CountType
<1>1. ASSUME NEW c \in Code, NEW k, NEW n, EditAdPlan(k, n, c)
      PROVE  CountType'
  BY <1>1 DEF EditAdPlan
<1>2. CASE EditStep
  <2>1. amiss' \in BOOLEAN
    BY <1>2 DEF EditStep, Unlink, Unext, AddRow, ReadBack, DelHash, PutItem,
                EditBreaks, EditType
  <2> QED BY <1>2, <2>1 DEF EditStep, nhtVars
<1>3. ASSUME NEW m, NEW x, ChangeMaterial(m, x)
      PROVE  CountType'
  BY <1>3 DEF ChangeMaterial, nhtVars
<1>4. ASSUME NEW r \in Readers, ReaderStep(r) PROVE CountType'
  <2>1. amiss' \in BOOLEAN
    BY <1>4 DEF ReaderStep, LookUp, GetAll, ReadMaterials, ReadExt, ReadFails,
                Store, ReadersType, ReaderType
  <2> QED BY <1>4, <2>1 DEF ReaderStep, nhtVars
<1>5. CASE TimerStep
  <2>1. /\ given' = given /\ edits' = edits /\ changes' = changes
        /\ amiss' \in BOOLEAN
    BY <1>5 DEF TimerStep
  <2>2. CASE CountNht
    BY <2>1, <2>2 DEF CountNht
  <2>3. CASE LimitReached \/ NextDay \/ ClearFull
    <3>1. /\ full' \in BOOLEAN /\ odd' = odd
          /\ count' = count \/ count' = 0
      BY <2>3 DEF LimitReached, NextDay, ClearFull
    <3> QED BY <2>1, <3>1
  <2>4. CASE ReadCodes \/ MoveCodes
    BY <2>1, <2>4 DEF ReadCodes, MoveCodes
  <2>5. CASE TimerFails
    BY <2>1, <2>5 DEF TimerFails
  <2> QED BY <1>5, <2>2, <2>3, <2>4, <2>5 DEF TimerStep
<1> QED BY <1>1, <1>2, <1>3, <1>4, <1>5 DEF MaterialStep

LEMMA MaterialTypeWhole ==
  ASSUME RowsType, ReadersType, StoringType, EditType, TimerType, HashType,
         CountType
  PROVE  MaterialTypeOK
BY DEF RowsType, ReadersType, ReaderType, StoringType, EditType, TimerType,
       HashType, CountType, MaterialTypeOK

LEMMA MaterialTypeWholeNext ==
  (/\ RowsType /\ ReadersType /\ StoringType /\ EditType /\ TimerType
   /\ HashType /\ CountType)' => MaterialTypeOK'
BY MaterialTypeWhole, PTL

(* Whatever overlaps or fails, the hash holds items of the ad, and a page  *)
(* only comes to store when it has something to store.                     *)
THEOREM MaterialTypeCorrect == MaterialSpec => []MaterialTypeOK
<1>1. MaterialInit => MaterialTypeOK
  <2> SUFFICES ASSUME MaterialInit PROVE MaterialTypeOK
    OBVIOUS
  <2>1. RowsType /\ EditType /\ TimerType /\ CountType
    <3>1. RowsType
      BY DEF MaterialInit, RowsType, Code
    <3>2. EditType /\ TimerType
      BY DEF MaterialInit, EditType, TimerType, NoEdit, Asleep
    <3>3. CountType
      <4>1. Limit \in Nat /\ MaxEdits \in Nat /\ MaxChanges \in Nat
        BY MaterialAssumption
      <4>2. given \in Code /\ odd = {}
        BY DEF MaterialInit
      <4>3. /\ count = 0 /\ edits = 0 /\ changes = 0
            /\ full \in BOOLEAN /\ amiss \in BOOLEAN
        BY DEF MaterialInit
      <4> QED BY <4>1, <4>2, <4>3 DEF CountType
    <3> QED BY <3>1, <3>2, <3>3
  <2>2. ReadersType /\ StoringType
    BY DEF MaterialInit, ReadersType, ReaderType, StoringType, Away
  <2>3. HashType
    BY <2>1, RowsAreItemsToo DEF MaterialInit, HashType
  <2> QED BY <2>1, <2>2, <2>3, MaterialTypeWhole
<1>2. MaterialTypeOK /\ [MaterialNext]_materialVars => MaterialTypeOK'
  <2>1. ASSUME MaterialTypeOK, MaterialNext PROVE MaterialTypeOK'
    <3>1. MaterialStep /\ Remember
      BY <2>1, MaterialNextIsStep
    <3>2. RowsType /\ ReadersType /\ EditType /\ TimerType
      BY <2>1, MaterialTypeParts
    <3>3. StoringType /\ CountType
      BY <2>1 DEF MaterialTypeOK, StoringType, CountType
    <3>4. RowsType' /\ ReadersType'
      BY <3>1, <3>2, RowsTypeStep, ReadersTypeStep
    <3>5. StoringType' /\ EditType' /\ TimerType' /\ CountType'
      BY <3>1, <3>2, <3>3, StoringTypeStep, EditTypeStep, TimerTypeStep,
         CountTypeStep
    <3>6. HashType'
      BY <2>1, <3>1, <3>4, HashTypeStep
    <3> QED BY <3>4, <3>5, <3>6, MaterialTypeWholeNext
  <2>2. ASSUME MaterialTypeOK, UNCHANGED materialVars PROVE MaterialTypeOK'
    BY <2>2 DEF materialVars, MaterialTypeOK
  <2> QED BY <2>1, <2>2
<1> QED BY <1>1, <1>2, PTL DEF MaterialSpec

-----------------------------------------------------------------------------
(* What those hold who fill the hash: unless the rows have changed since,  *)
(* a page holds the rows it read, and an edit the rows it put there.       *)
Storing(r) == readers[r].pc = "store" /\ ~readers[r].old

ReaderHolds ==
  \A r \in Readers :
    /\ readers[r].pc = "readExt" /\ ~readers[r].old
         => readers[r].list = MaterialRows
    /\ Storing(r) => readers[r].list \subseteq Rows

EditHolds ==
  /\ edit.pc = "put" /\ ~edit.old => edit.list \subseteq Rows
  /\ edit.pc = "del" /\ ~edit.old => edit.list \in {Rows, {}}

(* An edit to a link to a page of others has taken the materials away, and *)
(* one that read no rows back finds none when it deletes the hash.         *)
LinksOK ==
  /\ edit.pc = "del" /\ edit.list = {} => MaterialRows = {}
  /\ edit.kind = "E" /\ edit.pc \in {"unext", "add", "read", "del"}
       => links = {}

LEMMA MaterialsAmongRowsNext ==
  MaterialTypeOK' => (MaterialRows = {i \in Rows : i.field # ExtField})'
BY MaterialsAmongRows, PTL

LEMMA SameRowsSameMaterials ==
  ASSUME MaterialTypeOK, MaterialTypeOK', Rows' = Rows
  PROVE  MaterialRows' = MaterialRows
<1>1. MaterialRows = {i \in Rows : i.field # ExtField}
  BY MaterialsAmongRows
<1>2. MaterialRows' = {i \in Rows' : i.field # ExtField}
  BY MaterialsAmongRowsNext
<1> QED BY <1>1, <1>2

LEMMA NoMaterials ==
  MaterialRows = {} <=> \A n \in links : about[n] = Deleted
<1>1. ASSUME NEW n \in links, about[n] # Deleted PROVE MaterialRows # {}
  <2>1. ItemOf(n, about[n]) \in MaterialRows
    BY <1>1 DEF MaterialRows
  <2> QED BY <2>1
<1>2. ASSUME NEW i \in MaterialRows
      PROVE  \E n \in links : about[n] # Deleted
  BY <1>2 DEF MaterialRows
<1> QED BY <1>1, <1>2

LEMMA NoLinksNoMaterials ==
  ASSUME links = {}
  PROVE  MaterialRows = {}
BY DEF MaterialRows

LEMMA NoMaterialsNext ==
  (MaterialRows = {} <=> \A n \in links : about[n] = Deleted)'
BY NoMaterials, PTL

LEMMA AgeHolds ==
  ASSUME MaterialTypeOK, MaterialTypeOK', ReaderHolds, Age
  PROVE  ReaderHolds'
<1>1. ReadersType
  BY MaterialTypeParts
<1>2. CASE Rows' = Rows
  <2>1. MaterialRows' = MaterialRows
    BY <1>2, SameRowsSameMaterials
  <2>2. \A r \in Readers : readers'[r] = readers[r]
    BY <1>1, <1>2, AgeFacts
  <2> QED BY <1>2, <2>1, <2>2 DEF ReaderHolds, Storing
<1>3. CASE Rows' # Rows
  <2>1. \A r \in Readers : readers'[r].pc \in {"readExt", "store"} =>
                             readers'[r].old
    BY <1>1, <1>3, AgeFacts
  <2> QED BY <2>1 DEF ReaderHolds, Storing
<1> QED BY <1>2, <1>3

LEMMA AgeEditHolds ==
  ASSUME MaterialTypeOK, EditHolds, AgeEdit
  PROVE  EditHolds'
<1>1. EditType
  BY MaterialTypeParts
<1>2. CASE Rows' = Rows
  <2>1. edit' = edit
    BY <1>1, <1>2, AgeEditFacts
  <2> QED BY <1>2, <2>1 DEF EditHolds
<1>3. CASE Rows' # Rows
  <2>1. edit'.pc \in {"del", "put"} => edit'.old
    BY <1>1, <1>3, AgeEditFacts
  <2> QED BY <2>1 DEF EditHolds
<1> QED BY <1>2, <1>3

(* The steps of an edit that leave the rows alone.                         *)
LEMMA EditLeavesRows ==
  ASSUME EditStep, ReadBack \/ DelHash \/ PutItem \/ EditBreaks
  PROVE  /\ links' = links /\ MaterialRows' = MaterialRows
         /\ ExtRows' = ExtRows /\ Rows' = Rows
<1>1. UNCHANGED <<links, ext, about, sub, temp>>
  BY DEF EditStep, nhtVars, ReadBack, DelHash, PutItem, EditBreaks
<1> QED BY <1>1, RowsStay

LEMMA ReaderLeavesRows ==
  ASSUME NEW r \in Readers, ReaderStep(r)
  PROVE  /\ links' = links /\ MaterialRows' = MaterialRows
         /\ ExtRows' = ExtRows /\ Rows' = Rows /\ edit' = edit
<1>1. UNCHANGED <<links, ext, about, sub, temp>> /\ edit' = edit
  BY DEF ReaderStep, rowVars, nhtVars
<1> QED BY <1>1, RowsStay

(* An edit that comes to read the rows back reads them as pages would.     *)
LEMMA ReadBackReads ==
  ASSUME EditType, LinksOK, ReadBack
  PROVE  edit'.list \in {Rows, {}} /\ (edit'.list = {} => MaterialRows = {})
<1> DEFINE list == IF edit.kind = "M" THEN MaterialRows ELSE ExtRows
<1>1. edit'.list = list
  BY DEF ReadBack, EditType
<1>2. CASE edit.kind = "M"
  BY <1>1, <1>2 DEF Rows
<1>3. CASE edit.kind # "M"
  <2>1. links = {}
    BY <1>3 DEF EditType, LinksOK, ReadBack, At
  <2>2. MaterialRows = {}
    BY <2>1, NoLinksNoMaterials
  <2> QED BY <1>1, <1>3, <2>2 DEF Rows
<1> QED BY <1>2, <1>3

LEMMA ReaderHoldsStep ==
  ASSUME MaterialTypeOK, MaterialTypeOK', ReaderHolds, MaterialStep
  PROVE  ReaderHolds'
<1>1. ReadersType
  BY MaterialTypeParts
<1>2. CASE Age
  BY <1>2, AgeHolds
<1>3. ASSUME EditStep, At("del"), AgeReaders({"get"}) PROVE ReaderHolds'
  <2>1. DelHash
    BY <1>3 DEF EditStep, At, Unlink, Unext, AddRow, ReadBack, PutItem,
                EditBreaks
  <2>2. MaterialRows' = MaterialRows /\ Rows' = Rows
    BY <1>3, <2>1, EditLeavesRows
  <2>3. \A r \in Readers : /\ readers'[r].pc = readers[r].pc
                           /\ readers'[r].list = readers[r].list
                           /\ readers[r].old => readers'[r].old
    BY <1>1, <1>3, AgeKeeps
  <2> QED BY <2>2, <2>3 DEF ReaderHolds, Storing
<1>4. ASSUME NEW r \in Readers, ReaderStep(r) PROVE ReaderHolds'
  <2>1. MaterialRows' = MaterialRows /\ ExtRows' = ExtRows /\ Rows' = Rows
    BY <1>4, ReaderLeavesRows
  <2>2. SUFFICES ASSUME NEW rec \in ReaderType,
                        readers' = [readers EXCEPT ![r] = rec]
                 PROVE  /\ rec.pc = "readExt" /\ ~rec.old
                             => rec.list = MaterialRows
                        /\ rec.pc = "store" /\ ~rec.old
                             => rec.list \subseteq Rows
    <3>1. PICK rec \in ReaderType : readers' = [readers EXCEPT ![r] = rec]
      <4>1. readers'[r] \in ReaderType
        BY MaterialTypeParts, <1>4, ReadersTypeStep
        DEF MaterialStep, ReadersType
      <4>2. readers' = [readers EXCEPT ![r] = readers'[r]]
        BY <1>1, <1>4 DEF ReadersType, ReaderStep, LookUp, GetAll,
           ReadMaterials, ReadExt, ReadFails, Store
      <4> QED BY <4>1, <4>2
    <3>2. /\ readers'[r] = rec
          /\ \A q \in Readers \ {r} : readers'[q] = readers[q]
      BY <1>1, <3>1 DEF ReadersType
    <3> QED BY <2>1, <2>2, <3>1, <3>2 DEF ReaderHolds, Storing
  <2>3. readers'[r] = rec
    BY <1>1, <2>2 DEF ReadersType
  <2>4. CASE LookUp(r) \/ GetAll(r) \/ ReadFails(r)
    <3>1. readers'[r].pc \in {"idle", "get", "readM"}
      BY <1>1, <2>4 DEF LookUp, GetAll, ReadFails, Away, ReadersType
    <3> QED BY <2>3, <3>1
  <2>5. CASE ReadMaterials(r)
    BY <1>1, <2>5, <2>3 DEF ReadMaterials, ReadersType
  <2>6. CASE ReadExt(r)
    <3> DEFINE list == IF readers[r].list # {} THEN readers[r].list
                       ELSE ExtRows
    <3>1. readers' = [readers EXCEPT ![r] = IF list = {} THEN Away
                       ELSE [@ EXCEPT !.pc = "store", !.list = list]]
      BY <2>6 DEF ReadExt
    <3>2. ~readers[r].old => list = Rows
      BY <2>6 DEF ReadExt, ReaderHolds, Rows
    <3> HIDE DEF list
    <3>3. CASE list = {}
      BY <1>1, <3>1, <3>3, <2>3 DEF Away, ReadersType
    <3>4. CASE list # {}
      <4>1. rec = [readers[r] EXCEPT !.pc = "store", !.list = list]
        BY <1>1, <3>1, <3>4, <2>3 DEF ReadersType
      <4>2. rec.pc = "store" /\ rec.list = list /\ rec.old = readers[r].old
        BY <1>1, <4>1 DEF ReadersType, ReaderType
      <4> QED BY <3>2, <4>2
    <3> QED BY <3>3, <3>4
  <2>7. CASE Store(r)
    <3>1. CASE rec = Away
      BY <3>1 DEF Away
    <3>2. ASSUME NEW i \in readers[r].list, rec = Stored(readers[r], i, Away)
          PROVE  /\ rec.pc = "readExt" /\ ~rec.old => rec.list = MaterialRows
                 /\ rec.pc = "store" /\ ~rec.old => rec.list \subseteq Rows
      <4>1. readers[r] \in ReaderType /\ readers[r].pc = "store"
        BY <1>1, <2>7 DEF ReadersType, Store
      <4>2. \/ rec = Away
            \/ /\ rec.pc = "store" /\ rec.old = readers[r].old
               /\ rec.list = readers[r].list \ {i}
        BY <3>2, <4>1, StoredFacts
      <4> QED BY <3>1, <4>1, <4>2 DEF ReaderHolds, Storing
    <3> QED BY <1>1, <2>3, <2>7, <3>1, <3>2 DEF Store, ReadersType
  <2> QED BY <1>4, <2>4, <2>5, <2>6, <2>7 DEF ReaderStep
<1> QED BY <1>2, <1>3, <1>4 DEF MaterialStep, EditAdPlan, EditStep,
           ChangeMaterial, TimerStep

LEMMA EditHoldsStep ==
  ASSUME MaterialTypeOK, EditHolds, LinksOK, MaterialStep
  PROVE  EditHolds'
<1>1. EditType
  BY MaterialTypeParts
<1>2. CASE AgeEdit
  BY <1>2, AgeEditHolds
<1>3. ASSUME NEW c, NEW k, NEW n, EditAdPlan(k, n, c)
      PROVE  EditHolds'
  <2>1. edit'.pc = "unlink"
    BY <1>3 DEF EditAdPlan, NoEdit
  <2> QED BY <2>1 DEF EditHolds
<1>4. ASSUME NEW r \in Readers, ReaderStep(r) PROVE EditHolds'
  BY <1>4, ReaderLeavesRows DEF EditHolds
<1>5. CASE EditStep
  <2>1. CASE Unlink \/ Unext \/ AddRow \/ EditBreaks
    <3>1. edit'.pc \in {"idle", "unext", "add", "read"}
      <4>1. CASE Unlink \/ Unext \/ EditBreaks
        BY <1>1, <4>1 DEF Unlink, Unext, AfterAdd, EditBreaks, NoEdit, EditType
      <4>2. CASE AddRow
        <5>1. PICK t : edit' = [edit EXCEPT !.pc = AfterAdd(edit.todo \ {t}),
                                            !.todo = @ \ {t}]
          BY <4>2 DEF AddRow
        <5> QED BY <1>1, <5>1 DEF AfterAdd, EditType
      <4> QED BY <2>1, <4>1, <4>2
    <3> QED BY <3>1 DEF EditHolds
  <2>2. CASE ReadBack
    <3>1. Rows' = Rows
      BY <1>5, <2>2, EditLeavesRows
    <3>2. edit'.pc = "del"
      BY <1>1, <2>2 DEF ReadBack, EditType
    <3> QED BY <1>1, <2>2, <3>1, <3>2, ReadBackReads DEF EditHolds
  <2>3. CASE DelHash
    <3>1. Rows' = Rows
      BY <1>5, <2>3, EditLeavesRows
    <3>2. \/ edit'.pc = "idle"
          \/ edit'.pc = "put" /\ edit'.list = edit.list /\ edit'.old = edit.old
      BY <1>1, <2>3 DEF DelHash, NoEdit, EditType
    <3>3. edit.pc = "del"
      BY <2>3 DEF DelHash, At
    <3> QED BY <3>1, <3>2, <3>3 DEF EditHolds
  <2>4. CASE PutItem
    <3>1. Rows' = Rows
      BY <1>5, <2>4, EditLeavesRows
    <3>2. \/ edit'.pc = "idle"
          \/ \E i : /\ edit'.pc = "put" /\ edit'.list = edit.list \ {i}
                    /\ edit'.old = edit.old
      BY <1>1, <2>4 DEF PutItem, Stored, NoEdit, EditType, At
    <3>3. edit.pc = "put"
      BY <2>4 DEF PutItem, At
    <3> QED BY <3>1, <3>2, <3>3 DEF EditHolds
  <2> QED BY <1>5, <2>1, <2>2, <2>3, <2>4 DEF EditStep
<1> QED BY <1>2, <1>3, <1>4, <1>5 DEF MaterialStep, ChangeMaterial, TimerStep

LEMMA LinksStep ==
  ASSUME MaterialTypeOK, LinksOK, MaterialStep
  PROVE  LinksOK'
<1>1. EditType
  BY MaterialTypeParts
<1>2. ASSUME NEW c, NEW k, NEW n, EditAdPlan(k, n, c)
      PROVE  LinksOK'
  <2>1. edit'.pc = "unlink"
    BY <1>2 DEF EditAdPlan, NoEdit
  <2> QED BY <2>1 DEF LinksOK
<1>3. ASSUME NEW r \in Readers, ReaderStep(r) PROVE LinksOK'
  BY <1>3, ReaderLeavesRows DEF LinksOK
<1>4. ASSUME links' = links, AgeEdit,
             \A n \in links : about[n] = Deleted => about'[n] = Deleted
      PROVE  LinksOK'
  <2>1. MaterialRows = {} => MaterialRows' = {}
    BY <1>4, NoMaterials, NoMaterialsNext
  <2>2. edit'.pc = edit.pc /\ edit'.kind = edit.kind /\ edit'.list = edit.list
    BY <1>1, <1>4, AgeEditFacts
  <2> QED BY <1>4, <2>1, <2>2 DEF LinksOK
<1>5. ASSUME NEW m, NEW x, ChangeMaterial(m, x)
      PROVE  LinksOK'
  <2>1. links' = links /\ AgeEdit
    BY <1>5 DEF ChangeMaterial
  <2>2. \A n \in links : about[n] = Deleted => about'[n] = Deleted
    BY <1>5 DEF ChangeMaterial, MaterialTypeOK
  <2> QED BY <1>4, <2>1, <2>2
<1>6. CASE TimerStep
  <2>1. links' = links /\ about' = about /\ AgeEdit
    BY <1>6 DEF TimerStep, rowVars
  <2> QED BY <1>4, <2>1
<1>7. CASE EditStep
  <2>1. CASE Unlink \/ Unext \/ EditBreaks
    <3>1. \/ links' = {} /\ edit'.pc = "unext"
          \/ /\ edit.pc = "unext" /\ links' = links /\ edit'.kind = edit.kind
             /\ edit'.pc \in {"add", "read"}
          \/ edit'.pc = "idle"
      BY <1>1, <2>1 DEF Unlink, Unext, EditBreaks, NoEdit, EditType, AfterAdd,
                        At
    <3> QED BY <3>1 DEF LinksOK
  <2>2. CASE AddRow
    <3>1. /\ edit'.pc \in {"add", "read"} /\ edit'.kind = edit.kind
          /\ edit.pc = "add"
          /\ edit.kind # "M" => links' = links
      BY <1>1, <2>2 DEF AddRow, AfterAdd, EditType, At
    <3> QED BY <1>1, <3>1 DEF LinksOK, EditType
  <2>3. CASE ReadBack
    <3>1. MaterialRows' = MaterialRows /\ links' = links
      BY <1>7, <2>3, EditLeavesRows
    <3>2. edit.pc = "read" /\ edit'.kind = edit.kind
      BY <1>1, <2>3 DEF ReadBack, EditType, At
    <3> QED BY <1>1, <2>3, <3>1, <3>2, ReadBackReads DEF LinksOK
  <2>4. CASE DelHash \/ PutItem
    <3>1. edit'.pc \in {"idle", "put"}
      BY <1>1, <2>4 DEF DelHash, PutItem, Stored, NoEdit, EditType, At
    <3> QED BY <3>1 DEF LinksOK
  <2> QED BY <1>7, <2>1, <2>2, <2>3, <2>4 DEF EditStep
<1> QED BY <1>2, <1>3, <1>5, <1>6, <1>7 DEF MaterialStep

-----------------------------------------------------------------------------
(* The hash holds rows; and if anything is or comes into it, each field of *)
(* the rows is or comes: from a page or the edit, if it is not to be amiss *)
(* anyway.  That is so except while an edit has changed rows and not yet   *)
(* deleted the hash.                                                       *)
Held == {i \in Item : \E r \in Readers : Storing(r) /\ i \in readers[r].list}
Putting == IF edit.pc = "put" THEN edit.list ELSE {}
Coming == hash \cup Held \cup Putting
Whole == FieldsOf(Rows) \subseteq FieldsOf(Coming)

HashOK ==
  ~amiss /\ (edit.pc \in {"idle", "put"} \/ hash = {}) =>
    /\ hash \subseteq Rows
    /\ Coming = {} \/ Whole \/ (edit.pc = "put" /\ edit.old)

LEMMA HeldSame ==
  ASSUME \A r \in Readers : /\ Storing(r)' <=> Storing(r)
                            /\ Storing(r) => readers'[r].list = readers[r].list
  PROVE  Held' = Held
BY DEF Held

LEMMA HeldNone ==
  ASSUME \A r \in Readers : ~Storing(r)'
  PROVE  Held' = {}
BY DEF Held

LEMMA AgeHeld ==
  ASSUME MaterialTypeOK, Age
  PROVE  Held' = IF Rows' = Rows THEN Held ELSE {}
<1>1. ReadersType
  BY MaterialTypeParts
<1>2. CASE Rows' = Rows
  <2>1. \A r \in Readers : readers'[r] = readers[r]
    BY <1>1, <1>2, AgeFacts
  <2> QED BY <1>2, <2>1, HeldSame DEF Storing
<1>3. CASE Rows' # Rows
  <2>1. \A r \in Readers : readers'[r].pc = "store" => readers'[r].old
    BY <1>1, <1>3, AgeFacts
  <2> QED BY <1>3, <2>1, HeldNone DEF Storing
<1> QED BY <1>2, <1>3

(* Only the fields of what comes count.                                    *)
LEMMA MoreFields ==
  ASSUME NEW A, NEW B, \A i \in A : i.field \in FieldsOf(B)
  PROVE  FieldsOf(A) \subseteq FieldsOf(B)
BY DEF FieldsOf

LEMMA FieldIsThere ==
  ASSUME NEW B, NEW i \in B
  PROVE  i.field \in FieldsOf(B)
BY DEF FieldsOf

(* The rows change, and the hash does not: an edit has begun and not yet   *)
(* deleted the hash,                                                       *)
LEMMA HashWhileEditing ==
  ASSUME MaterialTypeOK, HashOK, Age, hash' = hash, amiss' = amiss,
         edit.pc # "put", edit'.pc \notin {"idle", "put"}
  PROVE  HashOK'
<1> SUFFICES ASSUME ~amiss', hash' = {}
             PROVE  hash' \subseteq Rows' /\ (Coming' = {} \/ Whole')
  BY DEF HashOK
<1>1. Coming = Held /\ (Coming = {} \/ Whole)
  BY DEF HashOK, Coming, Putting
<1>2. Coming' = Held'
  BY DEF Coming, Putting
<1>3. CASE Rows' = Rows
  <2>1. Coming' = Coming
    BY <1>1, <1>2, <1>3, AgeHeld
  <2> QED BY <1>1, <1>3, <2>1 DEF Whole
<1>4. CASE Rows' # Rows
  BY <1>2, <1>4, AgeHeld
<1> QED BY <1>3, <1>4

(* or it is not an edit that changes them.                                 *)
LEMMA HashWhileRowsMove ==
  ASSUME MaterialTypeOK, HashOK, Age, AgeEdit, hash' = hash,
         amiss' = (amiss \/ (Rows' # Rows /\ hash # {}))
  PROVE  HashOK'
<1>1. EditType /\ amiss \in BOOLEAN
  BY MaterialTypeParts DEF MaterialTypeOK
<1>2. CASE Rows' = Rows
  <2>1. edit' = edit
    BY <1>1, <1>2, AgeEditFacts
  <2>2. Coming' = Coming
    BY <1>2, <2>1, AgeHeld DEF Coming, Putting
  <2>3. Whole' <=> Whole
    BY <1>2, <2>2 DEF Whole
  <2>4. amiss' = amiss
    BY <1>1, <1>2
  <2> QED BY <1>2, <2>1, <2>2, <2>3, <2>4 DEF HashOK
<1>3. CASE Rows' # Rows
  <2> SUFFICES ASSUME ~amiss'
               PROVE  /\ hash' \subseteq Rows'
                      /\ Coming' = {} \/ (edit'.pc = "put" /\ edit'.old)
    BY DEF HashOK
  <2>1. hash' = {}
    BY <1>3
  <2>2. Held' = {}
    BY <1>3, AgeHeld
  <2>3. edit'.pc = "put" => edit'.old
    BY <1>1, <1>3, AgeEditFacts
  <2> QED BY <2>1, <2>2, <2>3 DEF Coming, Putting
<1> QED BY <1>2, <1>3

(* The steps of pages: none but those that come to store, and store,       *)
(* change what comes.                                                      *)
LEMMA HashOtherReaders ==
  ASSUME MaterialTypeOK, HashOK, NEW r \in Readers, ReaderStep(r),
         hash' = hash, amiss' = amiss,
         readers[r].pc # "store", readers'[r].pc # "store",
         \A q \in Readers \ {r} : readers'[q] = readers[q]
  PROVE  HashOK'
<1>1. Rows' = Rows /\ edit' = edit
  BY ReaderLeavesRows
<1>2. Held' = Held
  BY HeldSame DEF Storing
<1>3. Coming' = Coming
  BY <1>1, <1>2 DEF Coming, Putting
<1>4. Whole' <=> Whole
  BY <1>1, <1>3 DEF Whole
<1> QED BY <1>1, <1>3, <1>4 DEF HashOK

LEMMA HashReadExt ==
  ASSUME MaterialTypeOK, ReaderHolds, HashOK, NEW r \in Readers,
         ReaderStep(r), ReadExt(r)
  PROVE  HashOK'
<1> DEFINE list == IF readers[r].list # {} THEN readers[r].list ELSE ExtRows
<1>1. ReadersType /\ RowsType
  BY MaterialTypeParts
<1>2. /\ Rows' = Rows /\ edit' = edit
      /\ hash' = hash /\ amiss' = amiss
  BY ReaderLeavesRows DEF ReadExt
<1>3. readers[r].pc = "readExt"
  BY DEF ReadExt
<1>4. readers' = [readers EXCEPT ![r] = IF list = {} THEN Away
                       ELSE [@ EXCEPT !.pc = "store", !.list = list]]
  BY DEF ReadExt
<1>5. \A q \in Readers \ {r} : readers'[q] = readers[q]
  BY <1>1, <1>4 DEF ReadersType
<1>6. ~readers[r].old => list = Rows
  BY <1>3 DEF ReaderHolds, Rows
<1> HIDE DEF list
<1>7. CASE list = {}
  <2>1. readers'[r].pc = "idle"
    BY <1>1, <1>4, <1>7 DEF Away, ReadersType
  <2> QED BY <1>2, <1>3, <1>5, <2>1, HashOtherReaders
<1>8. CASE list # {}
  <2>1. readers'[r] = [readers[r] EXCEPT !.pc = "store", !.list = list]
    BY <1>1, <1>4, <1>8 DEF ReadersType
  <2>2. /\ readers'[r].pc = "store" /\ readers'[r].list = list
        /\ readers'[r].old = readers[r].old
    BY <1>1, <2>1 DEF ReadersType, ReaderType
  <2>3. CASE readers[r].old
    <3>1. Held' = Held
      BY <1>3, <1>5, <2>2, <2>3, HeldSame DEF Storing
    <3>2. Coming' = Coming
      BY <1>2, <3>1 DEF Coming, Putting
    <3>3. Whole' <=> Whole
      BY <1>2, <3>2 DEF Whole
    <3> QED BY <1>2, <3>2, <3>3 DEF HashOK
  <2>4. CASE ~readers[r].old
    <3>1. Rows \subseteq Item
      BY <1>1, RowsAreItemsToo
    <3>2. Rows \subseteq Held'
      BY <1>6, <2>2, <2>4, <3>1 DEF Held, Storing
    <3>3. Rows \subseteq Coming'
      BY <3>2 DEF Coming
    <3>4. Whole'
      BY <1>2, <3>3 DEF Whole, FieldsOf
    <3> QED BY <1>2, <3>4 DEF HashOK
  <2> QED BY <2>3, <2>4
<1> QED BY <1>7, <1>8

(* An item that is stored takes the place of the one of its field: no      *)
(* field goes.                                                             *)
LEMMA FieldsKept ==
  ASSUME NEW i, hash' = HSet(hash, i),
         \A j \in Held \cup Putting : j \in Held' \cup Putting' \/ j = i
  PROVE  FieldsOf(Coming) \subseteq FieldsOf(Coming')
<1>1. FieldsOf(hash') = FieldsOf(hash) \cup {i.field}
  BY HSetFields
<1>2. ASSUME NEW j \in Coming PROVE j.field \in FieldsOf(Coming')
  <2>1. CASE j \in Held' \cup Putting'
    BY <2>1, FieldIsThere DEF Coming
  <2>2. CASE j.field \in FieldsOf(hash')
    BY <2>2 DEF Coming, FieldsOf
  <2>3. CASE j \in hash
    BY <1>1, <2>2, <2>3, FieldIsThere
  <2>4. CASE j = i
    BY <1>1, <2>2, <2>4
  <2> QED BY <1>2, <2>1, <2>3, <2>4 DEF Coming
<1> QED BY <1>2, MoreFields

LEMMA HashStored ==
  ASSUME HashOK, NEW i \in Rows, hash' = HSet(hash, i), Rows' = Rows,
         edit.pc \in {"idle", "put"}, ~amiss,
         i \in Held \cup Putting,
         \A j \in Held \cup Putting : j \in Held' \cup Putting' \/ j = i,
         edit.pc = "put" /\ edit.old => edit'.pc = "put" /\ edit'.old
  PROVE  HashOK'
<1>1. hash \subseteq Rows /\ (Whole \/ (edit.pc = "put" /\ edit.old))
  BY DEF HashOK, Coming
<1>2. hash' \subseteq Rows'
  BY <1>1, HSetWithin
<1>3. FieldsOf(Coming) \subseteq FieldsOf(Coming')
  BY FieldsKept
<1>4. Whole => Whole'
  BY <1>3 DEF Whole
<1> QED BY <1>1, <1>2, <1>4 DEF HashOK

LEMMA HashStore ==
  ASSUME MaterialTypeOK, ReaderHolds, HashOK, NEW r \in Readers,
         ReaderStep(r), Store(r)
  PROVE  HashOK'
<1>1. ReadersType /\ amiss \in BOOLEAN
  BY MaterialTypeParts DEF MaterialTypeOK
<1>2. Rows' = Rows /\ edit' = edit
  BY ReaderLeavesRows
<1>3. readers[r] \in ReaderType /\ readers[r].pc = "store"
  BY <1>1 DEF ReadersType, Store
<1>4. CASE amiss'
  BY <1>4 DEF HashOK
<1>5. ASSUME NEW i \in readers[r].list, hash' = HSet(hash, i), ~amiss,
             ~readers[r].old,
             readers' = [readers EXCEPT ![r] = Stored(@, i, Away)]
      PROVE  HashOK'
  <2>1. Storing(r) /\ i \in Rows /\ i \in Item
    BY <1>3, <1>5 DEF Storing, ReaderHolds, ReaderType
  <2>2. i \in Held
    BY <2>1, <1>5 DEF Held
  <2>3. /\ readers'[r] = Stored(readers[r], i, Away)
        /\ \A q \in Readers \ {r} : readers'[q] = readers[q]
    BY <1>1, <1>5 DEF ReadersType
  <2>4. ASSUME NEW j \in Held, j # i PROVE j \in Held'
    <3>1. PICK q \in Readers : Storing(q) /\ j \in readers[q].list
      BY DEF Held
    <3>2. CASE q # r
      BY <2>3, <3>1, <3>2 DEF Held, Storing
    <3>3. CASE q = r
      <4>1. j \in readers[r].list /\ readers[r].list # {i}
        BY <2>4, <3>1, <3>3
      <4>2. /\ readers'[r].pc = "store" /\ ~readers'[r].old
            /\ j \in readers'[r].list
        BY <1>3, <1>5, <2>3, <2>4, <4>1, StoredFacts
      <4> QED BY <4>2 DEF Held, Storing
    <3> QED BY <3>2, <3>3
  <2>5. Putting' = Putting
    BY <1>2 DEF Putting
  <2>6. \A j \in Held \cup Putting : j \in Held' \cup Putting' \/ j = i
    BY <2>4, <2>5
  <2>7. CASE edit.pc \in {"idle", "put"}
    BY <1>2, <1>5, <2>1, <2>2, <2>6, <2>7, HashStored
  <2>8. CASE edit.pc \notin {"idle", "put"}
    <3>1. hash' # {}
      BY <1>5 DEF HSet
    <3> QED BY <1>2, <2>8, <3>1 DEF HashOK
  <2> QED BY <2>7, <2>8
<1> QED BY <1>1, <1>4, <1>5 DEF Store

LEMMA HashReaderStep ==
  ASSUME MaterialTypeOK, ReaderHolds, HashOK, NEW r \in Readers, ReaderStep(r)
  PROVE  HashOK'
<1>1. ReadersType
  BY MaterialTypeParts
<1>2. CASE LookUp(r) \/ GetAll(r) \/ ReadMaterials(r) \/ ReadFails(r)
  <2>1. /\ hash' = hash /\ amiss' = amiss
        /\ \A q \in Readers \ {r} : readers'[q] = readers[q]
    BY <1>1, <1>2 DEF LookUp, GetAll, ReadMaterials, ReadFails, ReadersType
  <2>2. readers[r].pc # "store"
    BY <1>2 DEF LookUp, GetAll, ReadMaterials, ReadFails
  <2>3. readers'[r].pc # "store"
    BY <1>1, <1>2 DEF LookUp, GetAll, ReadMaterials, ReadFails, ReadersType,
                      Away
  <2> QED BY <2>1, <2>2, <2>3, HashOtherReaders
<1> QED BY <1>2, HashReadExt, HashStore DEF ReaderStep

(* The steps of an edit from DEL on leave rows and what pages hold.        *)
LEMMA HeldWhilePutting ==
  ASSUME MaterialTypeOK, EditStep, DelHash \/ PutItem \/ EditBreaks
  PROVE  Held' = Held
<1>1. ReadersType
  BY MaterialTypeParts
<1>2. Rows' = Rows
  BY EditLeavesRows
<1>3. CASE Age
  BY <1>2, <1>3, AgeHeld
<1>4. CASE AgeReaders({"get"})
  <2>1. \A r \in Readers : /\ readers'[r].pc = readers[r].pc
                           /\ readers'[r].list = readers[r].list
                           /\ readers[r].pc # "get" =>
                                readers'[r].old = readers[r].old
    BY <1>1, <1>4, AgeKeeps
  <2> QED BY <2>1, HeldSame DEF Storing
<1> QED BY <1>3, <1>4 DEF EditStep

LEMMA HashDel ==
  ASSUME MaterialTypeOK, ReaderHolds, EditHolds, LinksOK, HashOK, EditStep,
         DelHash
  PROVE  HashOK'
<1>1. EditType /\ amiss \in BOOLEAN
  BY MaterialTypeParts DEF MaterialTypeOK
<1>2. Rows' = Rows /\ Held' = Held
  BY EditLeavesRows, HeldWhilePutting
<1>3. edit.pc = "del"
  BY DEF DelHash, At
<1>4. CASE hash' # {}
  BY <1>4 DEF HashOK, DelHash
<1>5. CASE hash' = {} /\ edit.list = {}
  <2>1. edit'.pc = "idle"
    BY <1>5 DEF DelHash, NoEdit
  <2>2. Coming' = Held
    BY <1>2, <1>5, <2>1 DEF Coming, Putting
  <2>3. Rows = ExtRows
    BY <1>3, <1>5 DEF LinksOK, Rows
  <2>4. \A i \in Rows : i.field = ExtField
    BY <2>3, MaterialTypeParts, RowsAreItems
  <2>5. ASSUME NEW i \in Held PROVE Whole'
    <3>1. i \in Rows
      BY DEF Held, ReaderHolds
    <3>2. ExtField \in FieldsOf(Held)
      BY <2>4, <3>1, <2>5, FieldIsThere
    <3>3. FieldsOf(Rows) \subseteq FieldsOf(Held)
      BY <2>4, <3>2 DEF FieldsOf
    <3> QED BY <1>2, <2>2, <3>3 DEF Whole
  <2> QED BY <1>5, <2>2, <2>5 DEF HashOK
<1>6. CASE hash' = {} /\ edit.list # {}
  <2>1. edit' = [edit EXCEPT !.pc = "put"]
    BY <1>6 DEF DelHash
  <2>2. edit'.pc = "put" /\ edit'.list = edit.list /\ edit'.old = edit.old
    BY <1>1, <2>1 DEF EditType
  <2>3. CASE edit.old
    BY <1>6, <2>2, <2>3 DEF HashOK
  <2>4. CASE ~edit.old
    <3>1. edit.list = Rows
      BY <1>3, <1>6, <2>4 DEF EditHolds
    <3>2. Rows' \subseteq Coming'
      BY <1>2, <2>2, <3>1 DEF Coming, Putting
    <3>3. Whole'
      BY <3>2 DEF Whole, FieldsOf
    <3> QED BY <1>6, <3>3 DEF HashOK
  <2> QED BY <2>3, <2>4
<1> QED BY <1>4, <1>5, <1>6

LEMMA HashPut ==
  ASSUME MaterialTypeOK, EditHolds, HashOK, EditStep, PutItem
  PROVE  HashOK'
<1>1. EditType /\ amiss \in BOOLEAN
  BY MaterialTypeParts DEF MaterialTypeOK
<1>2. Rows' = Rows /\ Held' = Held
  BY EditLeavesRows, HeldWhilePutting
<1>3. edit.pc = "put"
  BY DEF PutItem, At
<1>4. CASE amiss'
  BY <1>4 DEF HashOK
<1>5. ASSUME NEW i \in edit.list, hash' = HSet(hash, i), ~amiss, ~edit.old,
             edit' = Stored(edit, i, NoEdit)
      PROVE  HashOK'
  <2>1. i \in Rows
    BY <1>3, <1>5 DEF EditHolds
  <2>2. i \in Putting
    BY <1>3 DEF Putting
  <2>3. ASSUME NEW j \in Putting, j # i PROVE j \in Putting'
    <3>1. j \in edit.list /\ edit.list # {i}
      BY <2>3, <1>3 DEF Putting
    <3>2. edit' = [edit EXCEPT !.list = edit.list \ {i}]
      BY <1>5, <3>1 DEF Stored
    <3>3. edit'.pc = "put" /\ edit'.list = edit.list \ {i}
      BY <1>1, <1>3, <3>2 DEF EditType
    <3> QED BY <2>3, <3>1, <3>3 DEF Putting
  <2>4. \A j \in Held \cup Putting : j \in Held' \cup Putting' \/ j = i
    BY <1>2, <2>3
  <2> QED BY <1>2, <1>3, <1>5, <2>1, <2>2, <2>4, HashStored
<1> QED BY <1>1, <1>4, <1>5 DEF PutItem

LEMMA HashBreaks ==
  ASSUME MaterialTypeOK, HashOK, EditStep, EditBreaks
  PROVE  HashOK'
<1> SUFFICES ASSUME ~amiss'
             PROVE  hash' \subseteq Rows' /\ (Coming' = {} \/ Whole')
  BY DEF HashOK
<1>1. Rows' = Rows /\ Held' = Held
  BY EditLeavesRows, HeldWhilePutting
<1>2. ~amiss /\ hash = {} /\ hash' = {}
  BY DEF EditBreaks, MaterialTypeOK
<1>3. edit.pc \in {"unlink", "add", "read"} /\ edit'.pc = "idle"
  BY DEF EditBreaks, NoEdit
<1>4. Coming' = Coming
  BY <1>1, <1>2, <1>3 DEF Coming, Putting
<1>5. Coming = {} \/ Whole
  BY <1>2, <1>3 DEF HashOK
<1> QED BY <1>1, <1>2, <1>4, <1>5 DEF Whole

LEMMA HashEditStep ==
  ASSUME MaterialTypeOK, ReaderHolds, EditHolds, LinksOK, HashOK, EditStep
  PROVE  HashOK'
<1>1. EditType
  BY MaterialTypeParts
<1>2. CASE Unlink \/ Unext \/ AddRow \/ ReadBack
  <2>1. hash' = hash /\ amiss' = amiss /\ edit.pc \notin {"put", "del"}
    BY <1>2 DEF Unlink, Unext, AddRow, ReadBack, At
  <2>2. Age
    BY <2>1 DEF EditStep, At
  <2>3. edit'.pc \notin {"idle", "put"}
    <3>1. CASE Unlink \/ Unext \/ ReadBack
      BY <1>1, <3>1 DEF Unlink, Unext, ReadBack, AfterAdd, EditType
    <3>2. CASE AddRow
      <4>1. PICK t : edit' = [edit EXCEPT !.pc = AfterAdd(edit.todo \ {t}),
                                          !.todo = @ \ {t}]
        BY <3>2 DEF AddRow
      <4> QED BY <1>1, <4>1 DEF AfterAdd, EditType
    <3> QED BY <1>2, <3>1, <3>2
  <2> QED BY <2>1, <2>2, <2>3, HashWhileEditing
<1> QED BY <1>2, HashDel, HashPut, HashBreaks DEF EditStep

LEMMA HashStep ==
  ASSUME MaterialTypeOK, ReaderHolds, EditHolds, LinksOK, HashOK, MaterialStep
  PROVE  HashOK'
<1>1. ASSUME NEW c, NEW k, NEW n, EditAdPlan(k, n, c)
      PROVE  HashOK'
  <2>1. /\ Age /\ hash' = hash /\ amiss' = amiss
        /\ edit.pc = "idle" /\ edit'.pc = "unlink"
    BY <1>1 DEF EditAdPlan, NoEdit
  <2> QED BY <2>1, HashWhileEditing
<1>2. CASE EditStep
  BY <1>2, HashEditStep
<1>3. ASSUME NEW m, NEW x, ChangeMaterial(m, x)
      PROVE  HashOK'
  BY <1>3, HashWhileRowsMove DEF ChangeMaterial
<1>4. ASSUME NEW r \in Readers, ReaderStep(r) PROVE HashOK'
  BY <1>4, HashReaderStep
<1>5. CASE TimerStep
  BY <1>5, HashWhileRowsMove DEF TimerStep
<1> QED BY <1>1, <1>2, <1>3, <1>4, <1>5 DEF MaterialStep

CacheInv == ReaderHolds /\ EditHolds /\ LinksOK /\ HashOK

LEMMA CacheInvInit == MaterialInit => CacheInv
<1> SUFFICES ASSUME MaterialInit PROVE CacheInv
  OBVIOUS
<1>1. /\ edit.pc = "idle" /\ edit.kind = "M"
      /\ \A r \in Readers : readers[r].pc = "idle"
  BY DEF MaterialInit, NoEdit, Away
<1>2. hash = Rows \/ hash = {}
  BY DEF MaterialInit
<1>3. Coming = hash
  BY <1>1 DEF Coming, Held, Putting, Storing
<1> QED BY <1>1, <1>2, <1>3
        DEF CacheInv, ReaderHolds, Storing, EditHolds, LinksOK, HashOK, Whole

LEMMA CacheInvStep ==
  ASSUME MaterialTypeOK, MaterialTypeOK', CacheInv,
         [MaterialNext]_materialVars
  PROVE  CacheInv'
<1>1. CASE MaterialNext
  <2>1. MaterialStep
    BY <1>1, MaterialNextIsStep
  <2>2. ReaderHolds' /\ EditHolds' /\ LinksOK'
    BY <2>1, ReaderHoldsStep, EditHoldsStep, LinksStep DEF CacheInv
  <2>3. HashOK'
    BY <2>1, HashStep DEF CacheInv
  <2> QED BY <2>2, <2>3 DEF CacheInv
<1>2. CASE UNCHANGED materialVars
  <2>1. /\ hash' = hash /\ readers' = readers /\ edit' = edit
        /\ amiss' = amiss /\ links' = links
        /\ UNCHANGED <<links, ext, about, sub, temp>>
    BY <1>2 DEF materialVars
  <2>2. MaterialRows' = MaterialRows /\ Rows' = Rows
    BY <2>1, RowsStay
  <2>3. Held' = Held
    BY <2>1, HeldSame DEF Storing
  <2>4. Coming' = Coming
    BY <2>1, <2>3 DEF Coming, Putting
  <2>5. ReaderHolds' /\ EditHolds' /\ LinksOK'
    BY <2>1, <2>2 DEF CacheInv, ReaderHolds, Storing, EditHolds, LinksOK
  <2>6. HashOK'
    BY <2>1, <2>2, <2>4 DEF CacheInv, HashOK, Whole
  <2> QED BY <2>5, <2>6 DEF CacheInv
<1> QED BY <1>1, <1>2

LEMMA CacheInvariant == MaterialSpec => []CacheInv
<1>1. CacheInv /\ MaterialTypeOK /\ MaterialTypeOK'
        /\ [MaterialNext]_materialVars => CacheInv'
  BY CacheInvStep
<1> QED BY CacheInvInit, MaterialTypeCorrect, <1>1, PTL DEF MaterialSpec

(* Between edits the hash, if it is there, is the rows of the ad, all of   *)
(* them, whatever pages, edits and timers did at once; unless a command    *)
(* failed half-way, old rows were stored or rows changed without an edit   *)
(* since it was last deleted.                                              *)
THEOREM CacheIsOfRows == MaterialSpec => []CacheIsRows
<1>1. MaterialTypeOK /\ CacheInv => CacheIsRows
  <2> SUFFICES ASSUME CacheInv, ~amiss, edit.pc = "idle",
                      \A r \in Readers : readers[r].pc # "store",
                      hash # {}
               PROVE  hash \subseteq Rows /\ FieldsOf(hash) = FieldsOf(Rows)
    BY DEF CacheIsRows
  <2>1. Coming = hash
    BY DEF Coming, Held, Putting, Storing
  <2>2. hash \subseteq Rows /\ FieldsOf(Rows) \subseteq FieldsOf(hash)
    BY <2>1 DEF CacheInv, HashOK, Whole
  <2>3. FieldsOf(hash) \subseteq FieldsOf(Rows)
    BY <2>2 DEF FieldsOf
  <2> QED BY <2>2, <2>3
<1> QED BY CacheInvariant, MaterialTypeCorrect, <1>1, PTL

-----------------------------------------------------------------------------
(* A page that goes for the hash finds it, and finds rows the ad has had.  *)
WasOK == Rows \subseteq was /\ (~amiss => hash \subseteq was)

GetOK ==
  \A r \in Readers : readers[r].pc = "get" => readers[r].old \/ hash # {}

(* Every step leaves a hash that is amiss, or of what it was and of rows.  *)
LEMMA HashFrom ==
  ASSUME MaterialTypeOK, ReaderHolds, EditHolds, MaterialStep, ~amiss'
  PROVE  hash' = {} \/ (~amiss /\ hash' \subseteq hash \cup Rows)
<1>1. ReadersType /\ amiss \in BOOLEAN
  BY MaterialTypeParts DEF MaterialTypeOK
<1>2. ASSUME NEW i \in Rows, hash' = HSet(hash, i)
      PROVE  hash' \subseteq hash \cup Rows
  BY <1>2 DEF HSet
<1>3. ASSUME NEW c, NEW k, NEW n, EditAdPlan(k, n, c)
      PROVE  ~amiss /\ hash' = hash
  BY <1>3 DEF EditAdPlan
<1>4. ASSUME EditStep
      PROVE  hash' = {} \/ (~amiss /\ hash' \subseteq hash \cup Rows)
  <2>1. CASE Unlink \/ Unext \/ AddRow \/ ReadBack \/ DelHash \/ EditBreaks
    BY <1>1, <2>1 DEF Unlink, Unext, AddRow, ReadBack, DelHash, EditBreaks
  <2>2. CASE PutItem
    <3>1. PICK i \in edit.list :
            hash' = HSet(hash, i) /\ amiss' = (amiss \/ edit.old)
      BY <2>2 DEF PutItem
    <3>2. ~amiss /\ ~edit.old /\ edit.pc = "put"
      BY <2>2, <3>1 DEF PutItem, At
    <3>3. i \in Rows
      BY <3>2 DEF EditHolds
    <3> QED BY <1>2, <3>1, <3>2, <3>3
  <2> QED BY <1>4, <2>1, <2>2 DEF EditStep
<1>5. ASSUME NEW m, NEW x, ChangeMaterial(m, x)
      PROVE  ~amiss /\ hash' = hash
  BY <1>5 DEF ChangeMaterial
<1>6. ASSUME NEW r \in Readers, ReaderStep(r)
      PROVE  ~amiss /\ hash' \subseteq hash \cup Rows
  <2>1. CASE hash' = hash /\ amiss' = amiss
    BY <2>1
  <2>2. CASE Store(r)
    <3>1. PICK i \in readers[r].list :
            hash' = HSet(hash, i) /\ amiss' = (amiss \/ readers[r].old)
      BY <2>2 DEF Store
    <3>2. ~amiss /\ Storing(r)
      BY <2>2, <3>1 DEF Store, Storing
    <3>3. i \in Rows
      BY <3>2 DEF ReaderHolds
    <3> QED BY <1>2, <3>1, <3>2, <3>3
  <2> QED BY <1>6, <2>1, <2>2
          DEF ReaderStep, LookUp, GetAll, ReadMaterials, ReadExt, ReadFails
<1>7. CASE TimerStep
  BY <1>7 DEF TimerStep
<1> QED BY <1>3, <1>4, <1>5, <1>6, <1>7 DEF MaterialStep

LEMMA WasStep ==
  ASSUME MaterialTypeOK, CacheInv, WasOK, MaterialStep, Remember
  PROVE  WasOK'
<1> DEFINE were == IF Quiet THEN Rows ELSE was
<1>1. was' = were \cup Rows'
  BY DEF Remember
<1>2. Rows \subseteq were
  BY DEF WasOK
<1>3. ~amiss => hash \subseteq were
  <2>1. CASE ~Quiet
    BY <2>1 DEF WasOK
  <2>2. ASSUME Quiet, ~amiss PROVE hash \subseteq Rows
    BY <2>2 DEF CacheInv, HashOK, Quiet
  <2> QED BY <2>1, <2>2
<1> HIDE DEF were
<1>4. ASSUME ~amiss' PROVE hash' \subseteq were
  <2>1. hash' = {} \/ (~amiss /\ hash' \subseteq hash \cup Rows)
    BY <1>4, HashFrom DEF CacheInv
  <2> QED BY <1>2, <1>3, <2>1
<1> QED BY <1>1, <1>4 DEF WasOK

LEMMA GetStep ==
  ASSUME MaterialTypeOK, GetOK, MaterialStep
  PROVE  GetOK'
<1>1. ReadersType /\ EditType
  BY MaterialTypeParts
<1>2. ASSUME Age, hash' # {} \/ hash' = hash PROVE GetOK'
  <2>1. \A r \in Readers : /\ readers'[r].pc = readers[r].pc
                           /\ readers[r].old => readers'[r].old
    BY <1>1, <1>2, AgeFacts
  <2> QED BY <1>2, <2>1 DEF GetOK
<1>3. ASSUME NEW c, NEW k, NEW n, EditAdPlan(k, n, c)
      PROVE  GetOK'
  BY <1>2, <1>3 DEF EditAdPlan
<1>4. CASE EditStep
  <2>1. CASE AgeReaders({"get"})
    <3>1. \A r \in Readers : readers'[r].pc = "get" => readers'[r].old
      BY <1>1, <2>1, AgeKeeps
    <3> QED BY <3>1 DEF GetOK
  <2>2. CASE Age /\ ~(At("del") /\ hash' = {})
    <3>1. hash' # {} \/ hash' = hash
      BY <1>4, <2>2 DEF EditStep, Unlink, Unext, AddRow, ReadBack, DelHash,
                        PutItem, EditBreaks, HSet
    <3> QED BY <1>2, <2>2, <3>1
  <2> QED BY <1>4, <2>1, <2>2 DEF EditStep
<1>5. ASSUME NEW m, NEW x, ChangeMaterial(m, x)
      PROVE  GetOK'
  BY <1>2, <1>5 DEF ChangeMaterial
<1>6. ASSUME NEW r \in Readers, ReaderStep(r) PROVE GetOK'
  <2>1. \A q \in Readers \ {r} : readers'[q] = readers[q]
    BY <1>1, <1>6 DEF ReaderStep, LookUp, GetAll, ReadMaterials, ReadExt,
                      ReadFails, Store, ReadersType
  <2>2. hash' # {} \/ hash' = hash
    BY <1>6 DEF ReaderStep, LookUp, GetAll, ReadMaterials, ReadExt,
                ReadFails, Store, HSet
  <2>3. readers'[r].pc = "get" => hash' # {}
    <3>1. CASE LookUp(r)
      <4>1. PICK pc \in (IF hash # {} THEN {"get"} ELSE {}) \cup {"readM"} :
              readers' = [readers EXCEPT ![r] = [Away EXCEPT !.pc = pc]]
        BY <3>1 DEF LookUp
      <4>2. readers'[r].pc = pc
        BY <1>1, <4>1 DEF ReadersType, Away
      <4>3. hash' = hash
        BY <3>1 DEF LookUp
      <4> QED BY <4>1, <4>2, <4>3
    <3>2. CASE GetAll(r) \/ ReadMaterials(r) \/ ReadFails(r)
      BY <1>1, <3>2 DEF GetAll, ReadMaterials, ReadFails, ReadersType, Away
    <3>3. CASE ReadExt(r)
      <4> DEFINE list == IF readers[r].list # {} THEN readers[r].list
                         ELSE ExtRows
      <4>1. readers' = [readers EXCEPT ![r] = IF list = {} THEN Away
                         ELSE [@ EXCEPT !.pc = "store", !.list = list]]
        BY <3>3 DEF ReadExt
      <4> HIDE DEF list
      <4>2. readers'[r].pc \in {"idle", "store"}
        BY <1>1, <4>1 DEF ReadersType, ReaderType, Away
      <4> QED BY <4>2
    <3>4. CASE Store(r)
      <4>1. readers[r] \in ReaderType /\ readers[r].pc = "store"
        BY <1>1, <3>4 DEF ReadersType, Store
      <4>2. \/ readers' = [readers EXCEPT ![r] = Away]
            \/ \E i \in readers[r].list :
                 readers' = [readers EXCEPT ![r] = Stored(@, i, Away)]
        BY <3>4 DEF Store
      <4>3. \/ readers'[r] = Away
            \/ \E i \in readers[r].list :
                 readers'[r] = Stored(readers[r], i, Away)
        BY <1>1, <4>2 DEF ReadersType
      <4> QED BY <4>1, <4>3, StoredFacts DEF Away
    <3> QED BY <1>6, <3>1, <3>2, <3>3, <3>4 DEF ReaderStep
  <2> QED BY <2>1, <2>2, <2>3 DEF GetOK
<1>7. CASE TimerStep
  BY <1>2, <1>7 DEF TimerStep
<1> QED BY <1>3, <1>4, <1>5, <1>6, <1>7 DEF MaterialStep

LEMMA AnswerInvariant == MaterialSpec => [](WasOK /\ GetOK)
<1>1. MaterialInit => WasOK /\ GetOK
  BY DEF MaterialInit, WasOK, GetOK, Away
<1>2. ASSUME MaterialTypeOK, CacheInv, WasOK /\ GetOK,
             [MaterialNext]_materialVars
      PROVE  (WasOK /\ GetOK)'
  <2>1. CASE MaterialNext
    <3>1. MaterialStep /\ Remember
      BY <2>1, MaterialNextIsStep
    <3> QED BY <1>2, <3>1, WasStep, GetStep
  <2>2. CASE UNCHANGED materialVars
    <3>1. /\ hash' = hash /\ readers' = readers /\ was' = was
          /\ amiss' = amiss /\ UNCHANGED <<links, ext, about, sub, temp>>
      BY <2>2 DEF materialVars
    <3>2. Rows' = Rows
      BY <3>1, RowsStay
    <3> QED BY <1>2, <3>1, <3>2 DEF WasOK, GetOK
  <2> QED BY <1>2, <2>1, <2>2
<1>3. MaterialTypeOK /\ CacheInv /\ WasOK /\ GetOK
        /\ [MaterialNext]_materialVars => (WasOK /\ GetOK)'
  BY <1>2
<1> QED BY <1>1, <1>3, MaterialTypeCorrect, CacheInvariant, PTL
        DEF MaterialSpec

(* What a page takes from the hash is of rows the ad has, or has had since *)
(* it was last left alone by pages and edits; and it takes something, if   *)
(* no edit has deleted the hash since the page looked for it.              *)
THEOREM PagesShowRows == MaterialSpec => []AnswersWereRows
<1>1. WasOK /\ GetOK => AnswersWereRows
  BY DEF WasOK, GetOK, AnswersWereRows
<1> QED BY AnswerInvariant, <1>1, PTL

-----------------------------------------------------------------------------
(* The two columns of a third-party code.  A timer moves a code to the     *)
(* column temp when that is empty, and away from it when it is not; and    *)
(* one of the two is empty, unless the last edit gave a second code.       *)
CodesOK ==
  /\ timer.pc = "move" => ((timer.to = "temp") = (temp = Blank))
  /\ "second" \notin odd =>
       given \in {sub, temp} /\ (sub = Blank \/ temp = Blank)

(* The variables of the codes move with the timers and with edits only.    *)
LEMMA CodesMove ==
  ASSUME MaterialStep
  PROVE  \/ \E c \in Code : \E k, n : EditAdPlan(k, n, c)
         \/ TimerStep
         \/ UNCHANGED nhtVars
<1>1. EditStep => UNCHANGED nhtVars
  BY DEF EditStep
<1>2. \A m, x : ChangeMaterial(m, x) => UNCHANGED nhtVars
  BY DEF ChangeMaterial
<1>3. \A r \in Readers : ReaderStep(r) => UNCHANGED nhtVars
  BY DEF ReaderStep
<1> QED BY <1>1, <1>2, <1>3 DEF MaterialStep

LEMMA CodesStep ==
  ASSUME MaterialTypeOK, CodesOK, MaterialStep
  PROVE  CodesOK'
<1>1. TimerType
  BY MaterialTypeParts
<1>2. CASE UNCHANGED nhtVars
  BY <1>2 DEF nhtVars, CodesOK
<1>3. ASSUME NEW c \in Code, NEW k, NEW n, EditAdPlan(k, n, c)
      PROVE  CodesOK'
  <2>1. /\ sub' = c /\ given' = c /\ temp' = temp /\ timer' = timer
        /\ "second" \notin odd' => c = Blank \/ temp = Blank
    BY <1>3 DEF EditAdPlan
  <2> QED BY <2>1 DEF CodesOK
<1>4. CASE TimerStep
  <2>1. given' = given
    BY <1>4 DEF TimerStep
  <2>2. CASE CountNht \/ LimitReached \/ NextDay \/ ClearFull
    <3>1. /\ UNCHANGED <<sub, temp, odd>>
          /\ timer' = timer \/ timer'.pc \in {"read", "clear"}
      BY <1>1, <2>2 DEF CountNht, LimitReached, NextDay, ClearFull, TimerType
    <3> QED BY <2>1, <3>1 DEF CodesOK
  <2>3. CASE ReadCodes
    <3>1. UNCHANGED <<sub, temp, odd>>
      BY <2>3 DEF ReadCodes
    <3>2. timer'.pc = "move" =>
            timer'.to = timer.to /\ ((timer.to = "temp") = (temp = Blank))
      BY <1>1, <2>3 DEF ReadCodes, TimerType, Asleep
    <3> QED BY <2>1, <3>1, <3>2 DEF CodesOK
  <2>4. CASE MoveCodes
    <3>1. timer.pc = "move" /\ timer'.pc = "idle" /\ odd' = odd
      BY <2>4 DEF MoveCodes, Asleep
    <3>2. IF timer.to = "temp" THEN temp' = sub /\ sub' = Blank
                               ELSE sub' = temp /\ temp' = Blank
      BY <2>4 DEF MoveCodes
    <3>3. /\ (timer.to = "temp") = (temp = Blank)
          /\ "second" \notin odd =>
               given \in {sub, temp} /\ (sub = Blank \/ temp = Blank)
      BY <3>1 DEF CodesOK
    <3>4. "second" \notin odd' =>
            /\ given' \in {sub', temp'}
            /\ sub' = Blank \/ temp' = Blank
      BY <2>1, <3>1, <3>2, <3>3
    <3> QED BY <3>1, <3>4 DEF CodesOK
  <2>5. CASE TimerFails
    <3>1. UNCHANGED <<sub, temp>> /\ timer'.pc = "idle" /\ odd \subseteq odd'
      BY <2>5 DEF TimerFails, Asleep
    <3> QED BY <2>1, <3>1 DEF CodesOK
  <2> QED BY <1>4, <2>2, <2>3, <2>4, <2>5 DEF TimerStep
<1> QED BY <1>2, <1>3, <1>4, CodesMove

(* The code the last edit has given is in one of the two columns, however  *)
(* edits and timers overlap; unless the edit gave it while they had put    *)
(* the one before away.                                                    *)
THEOREM CodesAreKept == MaterialSpec => []CodeIsKept
<1>1. MaterialInit => CodesOK
  BY DEF MaterialInit, CodesOK, Asleep
<1>2. MaterialTypeOK /\ CodesOK /\ [MaterialNext]_materialVars => CodesOK'
  <2>1. ASSUME MaterialTypeOK, CodesOK, MaterialNext PROVE CodesOK'
    BY <2>1, MaterialNextIsStep, CodesStep
  <2>2. ASSUME CodesOK, UNCHANGED materialVars PROVE CodesOK'
    BY <2>2 DEF materialVars, CodesOK
  <2> QED BY <2>1, <2>2
<1>3. CodesOK => CodeIsKept
  BY DEF CodesOK, CodeIsKept
<1> QED BY <1>1, <1>2, <1>3, MaterialTypeCorrect, PTL DEF MaterialSpec

(* What the timers have done by each of their steps.                       *)
Regular(words) == words \cap {"late", "failed"} = {}

ModeOK ==
  Regular(odd) =>
    /\ timer.pc = "idle" => IF full THEN sub = Blank ELSE temp = Blank
    /\ timer.pc # "idle" /\ timer.to = "temp" => full /\ temp = Blank
    /\ timer.pc = "clear" => timer.to = "sub" /\ full /\ sub = Blank
    /\ timer.pc \in {"read", "move"} /\ timer.to = "sub" => ~full

LEMMA ModeStep ==
  ASSUME MaterialTypeOK, ModeOK, MaterialStep
  PROVE  ModeOK'
<1>1. TimerType /\ full \in BOOLEAN
  BY MaterialTypeParts DEF MaterialTypeOK
<1>2. CASE UNCHANGED nhtVars
  BY <1>2 DEF nhtVars, ModeOK
<1>3. ASSUME NEW c \in Code, NEW k, NEW n, EditAdPlan(k, n, c)
      PROVE  ModeOK'
  <2> SUFFICES ASSUME Regular(odd') PROVE ModeOK'
    BY DEF ModeOK
  <2>1. /\ sub' = c /\ temp' = temp /\ timer' = timer /\ full' = full
        /\ odd \ {"second"} \subseteq odd'
        /\ c # Blank /\ full => "late" \in odd'
    BY <1>3 DEF EditAdPlan
  <2>2. Regular(odd) /\ (full => c = Blank)
    BY <2>1 DEF Regular
  <2> QED BY <2>1, <2>2 DEF ModeOK
<1>4. CASE TimerStep
  <2> SUFFICES ASSUME Regular(odd') PROVE ModeOK'
    BY DEF ModeOK
  <2>1. CASE CountNht
    BY <2>1 DEF CountNht, ModeOK
  <2>2. CASE LimitReached
    <3>1. /\ odd' = odd /\ timer.pc = "idle" /\ ~full /\ full'
          /\ timer'.pc = "read" /\ timer'.to = "temp" /\ temp' = temp
      BY <2>2 DEF LimitReached
    <3> QED BY <3>1 DEF ModeOK
  <2>3. CASE NextDay
    <3>1. /\ odd' = odd /\ timer.pc = "idle" /\ full /\ full'
          /\ timer'.pc = "clear" /\ timer'.to = "sub" /\ sub' = sub
      BY <2>3 DEF NextDay
    <3> QED BY <3>1 DEF ModeOK
  <2>4. CASE ClearFull
    <3>1. /\ odd' = odd /\ timer.pc = "clear" /\ ~full'
          /\ timer'.pc = "read" /\ timer'.to = timer.to /\ sub' = sub
      BY <1>1, <2>4 DEF ClearFull, TimerType
    <3> QED BY <3>1 DEF ModeOK
  <2>5. CASE ReadCodes
    <3>1. UNCHANGED <<sub, temp, full, odd>> /\ timer.pc = "read"
      BY <2>5 DEF ReadCodes
    <3>2. timer.to \in {"temp", "sub"}
      BY <1>1 DEF TimerType
    <3>3. IF (timer.to = "temp") = (temp = Blank)
          THEN timer'.pc = "move" /\ timer'.to = timer.to
          ELSE timer'.pc = "idle"
      BY <1>1, <2>5 DEF ReadCodes, TimerType, Asleep
    <3>4. CASE timer.to = "temp"
      BY <3>1, <3>3, <3>4 DEF ModeOK
    <3>5. CASE timer.to = "sub"
      BY <3>1, <3>3, <3>5 DEF ModeOK
    <3> QED BY <3>2, <3>4, <3>5
  <2>6. CASE MoveCodes
    <3>1. /\ timer.pc = "move" /\ timer'.pc = "idle"
          /\ odd' = odd /\ full' = full
      BY <2>6 DEF MoveCodes, Asleep
    <3>2. IF timer.to = "temp" THEN temp' = sub /\ sub' = Blank
                               ELSE sub' = temp /\ temp' = Blank
      BY <2>6 DEF MoveCodes
    <3>3. timer.to \in {"temp", "sub"}
      BY <1>1 DEF TimerType
    <3> QED BY <3>1, <3>2, <3>3 DEF ModeOK
  <2>7. CASE TimerFails
    BY <2>7 DEF TimerFails, Regular
  <2> QED BY <1>4, <2>1, <2>2, <2>3, <2>4, <2>5, <2>6, <2>7 DEF TimerStep
<1> QED BY <1>2, <1>3, <1>4, CodesMove

(* When the timers sleep, the code is in the column the traffic says; as   *)
(* long as no timer failed and no edit gave a full ad a code.              *)
THEOREM ModeIsOfCount == MaterialSpec => []ModeFollowsCount
<1>1. MaterialInit => ModeOK
  BY DEF MaterialInit, ModeOK, Asleep
<1>2. MaterialTypeOK /\ ModeOK /\ [MaterialNext]_materialVars => ModeOK'
  <2>1. ASSUME MaterialTypeOK, ModeOK, MaterialNext PROVE ModeOK'
    BY <2>1, MaterialNextIsStep, ModeStep
  <2>2. ASSUME ModeOK, UNCHANGED materialVars PROVE ModeOK'
    BY <2>2 DEF materialVars, ModeOK
  <2> QED BY <2>1, <2>2
<1>3. ModeOK => ModeFollowsCount
  BY DEF ModeOK, Regular, ModeFollowsCount
<1> QED BY <1>1, <1>2, <1>3, MaterialTypeCorrect, PTL DEF MaterialSpec
=============================================================================
