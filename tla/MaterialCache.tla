--------------------------- MODULE MaterialCache ----------------------------
(***************************************************************************)
(* The materials of an ad: its rows in the database, their copy in the     *)
(* Redis hash ad_all_info_<id>, and those who fill it.  An edit in         *)
(* admanager rewrites the rows, deletes the hash and fills it again; a     *)
(* page of the adserver that finds no hash reads the rows and fills it;    *)
(* nobody locks anything.  Two timers of adtimer move the third-party      *)
(* code of the ad between two columns when its NHT traffic is reached and  *)
(* at midnight; they run in one thread, and in transactions, and hset a    *)
(* hash of another key.                                                    *)
(*                                                                         *)
(* One ad; the hashes of ads do not meet.  Init is what addAdPlan leaves.  *)
(* An ad has one edit at a time.  Counts above the limit are the limit.    *)
(***************************************************************************)
EXTENDS Naturals, FiniteSets

CONSTANTS
  Materials,    \* materials of the advertiser
  ExtField,     \* ad_m_id '0': the link to a page of others
  Abouts,       \* what is to be seen of a material or an external link
  Deleted,      \* a material whose sts is 'D'
  Codes,        \* third-party statistics codes
  Blank,        \* an empty code
  Readers,      \* requests of pages at a time
  HasNht,       \* TRUE: Redis has the hash NHT_<id>
  Limit,        \* its adSetPvNum
  MaxEdits,     \* bound: edits of the ad
  MaxChanges    \* bound: changes of its materials

ASSUME MaterialAssumption ==
  /\ ExtField \notin Materials /\ Deleted \notin Abouts
  /\ HasNht \in BOOLEAN /\ {Limit, MaxEdits, MaxChanges} \subseteq Nat

Fields == Materials \cup {ExtField}
Code == Codes \cup {Blank}
Item == [field : Fields, about : Abouts, sub : Code, temp : Code]

VARIABLES
  links,    \* ad_m_link: the materials of the ad
  ext,      \* ad_ext_link: its external links
  about,    \* ad_material
  sub,      \* ad_instance.ad_3stat_code_sub
  temp,     \* ad_instance.ad_3stat_code_temp
  hash,     \* the hash ad_all_info_<id>: at most one item of a field
  other,    \* the fields of the hash <id>
  readers,  \* how far each page is, and what it still has to store
  edit,     \* how far the edit is
  timer,    \* how far the timers are
  count,    \* NHT_<id>, pvNum
  full,     \* NHT_<id>, sts = 'F'
  edits,    \* edits so far
  changes,  \* changes of materials so far
  amiss,    \* history: see below
  was,      \* history: rows since there was last neither page nor edit
  given,    \* history: the code of the last edit
  odd       \* history: a code given to a full ad, or beside the one put
            \* away, and a timer that failed

rowVars == <<links, ext, about>>
nhtVars == <<sub, temp, other, timer, count, full, given, odd>>
materialVars == <<links, ext, about, sub, temp, hash, other, readers, edit,
                  timer, count, full, edits, changes, amiss, was, given, odd>>

(* findMaterialByAdId and findExtLinkByAdId.                               *)
ItemOf(f, x) == [field |-> f, about |-> x, sub |-> sub, temp |-> temp]
MaterialRows == {ItemOf(m, about[m]) : m \in {n \in links : about[n] # Deleted}}
ExtRows == {ItemOf(ExtField, x) : x \in ext}
Rows == IF MaterialRows # {} THEN MaterialRows ELSE ExtRows

FieldsOf(items) == {i.field : i \in items}
HSet(items, i) == {j \in items : j.field # i.field} \cup {i}

(* Of the items somebody has to store, i is stored.                        *)
Stored(rec, i, done) ==
  IF rec.list = {i} THEN done ELSE [rec EXCEPT !.list = @ \ {i}]

Away == [pc |-> "idle", list |-> {}, old |-> FALSE]
NoEdit == [pc |-> "idle", kind |-> "M", todo |-> {}, list |-> {}, old |-> FALSE]
Asleep == [pc |-> "idle", to |-> "temp"]

MaterialInit ==
  /\ links \in SUBSET Materials /\ ext \in {{x} : x \in Abouts} \cup {{}}
  /\ (links = {}) = (ext # {})
  /\ about \in [Materials -> Abouts] /\ sub \in Code /\ temp = Blank
  /\ hash \in {Rows, {}} /\ other = {}
  /\ readers = [r \in Readers |-> Away] /\ edit = NoEdit /\ timer = Asleep
  /\ count = 0 /\ full = FALSE /\ edits = 0 /\ changes = 0
  /\ amiss = FALSE /\ was = Rows /\ given = sub /\ odd = {}

-----------------------------------------------------------------------------
(* The hash is amiss when somebody who fills it failed half-way or stored  *)
(* what is no longer in the rows (old), when an edit broke off or could    *)
(* not delete it, or when the rows changed without an edit.  A DEL mends   *)
(* it.                                                                     *)
Aged(rec, pcs) == [rec EXCEPT !.old = @ \/ rec.pc \in pcs]
AgeReaders(pcs) == readers' = [r \in Readers |-> Aged(readers[r], pcs)]

(* The rows change under those who hold some.                              *)
Age ==
  IF Rows' = Rows THEN UNCHANGED readers ELSE AgeReaders({"readExt", "store"})

AgeEdit ==
  edit' = IF Rows' = Rows THEN edit ELSE Aged(edit, {"del", "put"})

Quiet == edit.pc = "idle" /\ \A r \in Readers : readers[r].pc = "idle"

Remember == was' = (IF Quiet THEN Rows ELSE was) \cup Rows'

-----------------------------------------------------------------------------
(* editAdPlan: updateAdInstance,                                           *)
EditAdPlan(kind, new, c) ==
  /\ edit.pc = "idle" /\ edits < MaxEdits
  /\ edits' = edits + 1
  /\ edit' = [NoEdit EXCEPT !.pc = "unlink", !.kind = kind, !.todo = new]
  /\ sub' = c /\ given' = c
  /\ odd' = (odd \ {"second"}) \cup
       (IF c # Blank /\ full THEN {"late"} ELSE {}) \cup
       (IF c # Blank /\ temp # Blank THEN {"second"} ELSE {})
  /\ UNCHANGED <<rowVars, temp, hash, other, timer, count, full, changes,
                 amiss>>
  /\ Age

At(pc) == edit.pc = pc
AfterAdd(todo) == IF todo = {} THEN "read" ELSE "add"

(* delAdMaterialLinks,                                                     *)
Unlink ==
  /\ At("unlink") /\ edit' = [edit EXCEPT !.pc = "unext"]
  /\ links' = {} /\ UNCHANGED <<ext, hash, amiss>>

(* deleteAdExtLinkByAdId, which catches its exception,                     *)
Unext ==
  /\ At("unext") /\ edit' = [edit EXCEPT !.pc = AfterAdd(edit.todo)]
  /\ ext' \in {{}, ext} /\ UNCHANGED <<links, hash, amiss>>

(* addPlanMaterial or addAdExtLink,                                        *)
AddRow == \E t \in edit.todo :
  /\ At("add")
  /\ edit' = [edit EXCEPT !.pc = AfterAdd(edit.todo \ {t}), !.todo = @ \ {t}]
  /\ IF edit.kind = "M" THEN links' = links \cup {t} /\ ext' = ext
                        ELSE ext' = ext \cup {t} /\ links' = links
  /\ UNCHANGED <<hash, amiss>>

(* the rows as they are now,                                               *)
ReadBack ==
  /\ At("read")
  /\ edit' = [edit EXCEPT !.pc = "del", !.list =
                IF edit.kind = "M" THEN MaterialRows ELSE ExtRows]
  /\ UNCHANGED <<links, ext, hash, amiss>>

(* Mutant: the hash is not deleted.                                        *)
DelNothing ==
  /\ At("del")
  /\ edit' = IF edit.list = {} THEN NoEdit ELSE [edit EXCEPT !.pc = "put"]
  /\ UNCHANGED <<links, ext, hash, amiss>>

(* DEL, which may fail unnoticed,                                          *)
DelHash ==
  /\ At("del")
  /\ edit' = IF edit.list = {} THEN NoEdit ELSE [edit EXCEPT !.pc = "put"]
  /\ \/ hash' = {} /\ amiss' = FALSE
     \/ hash' = hash /\ amiss' = (amiss \/ hash # {})
  /\ UNCHANGED <<links, ext>>

(* and HSET of each; the first that fails is the last.                     *)
PutItem ==
  /\ At("put") /\ UNCHANGED <<links, ext>>
  /\ \/ \E i \in edit.list :
          /\ hash' = HSet(hash, i) /\ amiss' = (amiss \/ edit.old)
          /\ edit' = Stored(edit, i, NoEdit)
     \/ hash' = hash /\ amiss' = TRUE /\ edit' = NoEdit

(* A statement fails: no transaction undoes the ones before it.            *)
EditBreaks ==
  /\ edit.pc \in {"unlink", "add", "read"} /\ edit' = NoEdit
  /\ amiss' = (amiss \/ hash # {})
  /\ UNCHANGED <<links, ext, hash>>

EditStep ==
  /\ \/ Unlink \/ Unext \/ AddRow \/ ReadBack \/ DelHash \/ PutItem
     \/ EditBreaks
  /\ UNCHANGED <<about, nhtVars, edits, changes>>
  /\ IF At("del") /\ hash' = {} THEN AgeReaders({"get"}) ELSE Age

(* editAdMaterial and deleteAdMaterialById, which do not touch the hash.   *)
ChangeMaterial(m, x) ==
  /\ changes < MaxChanges /\ changes' = changes + 1
  /\ about[m] # Deleted
  /\ about' = [about EXCEPT ![m] = x]
  /\ UNCHANGED <<links, ext, hash, nhtVars, edits>>
  /\ amiss' = (amiss \/ (Rows' # Rows /\ hash # {}))
  /\ Age /\ AgeEdit

-----------------------------------------------------------------------------
(* Mutant: the key is not looked for.                                      *)
LookUpBlind(r) ==
  /\ readers[r].pc = "idle"
  /\ readers' = [readers EXCEPT ![r] = [Away EXCEPT !.pc = "get"]]
  /\ UNCHANGED <<hash, amiss>>

(* findMaterialByAdId of the adserver: EXISTS, which may fail;             *)
LookUp(r) ==
  /\ readers[r].pc = "idle"
  /\ \E pc \in (IF hash # {} THEN {"get"} ELSE {}) \cup {"readM"} :
       readers' = [readers EXCEPT ![r] = [Away EXCEPT !.pc = pc]]
  /\ UNCHANGED <<hash, amiss>>

(* HGETALL, which answers the page, or fails;                              *)
GetAll(r) ==
  /\ readers[r].pc = "get"
  /\ \E pc \in {"idle", "readM"} :
       readers' = [readers EXCEPT ![r] = [Away EXCEPT !.pc = pc]]
  /\ UNCHANGED <<hash, amiss>>

(* the materials, and then the external links,                             *)
ReadMaterials(r) ==
  /\ readers[r].pc = "readM"
  /\ readers' = [readers EXCEPT ![r] =
       [pc |-> "readExt", list |-> MaterialRows, old |-> FALSE]]
  /\ UNCHANGED <<hash, amiss>>

(* Mutant: also nothing is stored.                                         *)
ReadExtStores(r) ==
  /\ readers[r].pc = "readExt"
  /\ readers' = [readers EXCEPT ![r] = [@ EXCEPT !.pc = "store", !.list =
       IF @ # {} THEN @ ELSE ExtRows]]
  /\ UNCHANGED <<hash, amiss>>

(* which are taken if there is none of the former;                         *)
ReadExt(r) ==
  /\ readers[r].pc = "readExt"
  /\ LET list == IF readers[r].list # {} THEN readers[r].list ELSE ExtRows
     IN  readers' = [readers EXCEPT ![r] = IF list = {} THEN Away
                       ELSE [@ EXCEPT !.pc = "store", !.list = list]]
  /\ UNCHANGED <<hash, amiss>>

(* a statement fails, and the page is without materials;                   *)
ReadFails(r) ==
  /\ readers[r].pc \in {"readM", "readExt"}
  /\ readers' = [readers EXCEPT ![r] = Away]
  /\ UNCHANGED <<hash, amiss>>

(* and HSET of each; the first that fails is the last.                     *)
Store(r) ==
  /\ readers[r].pc = "store"
  /\ \/ \E i \in readers[r].list :
          /\ hash' = HSet(hash, i) /\ amiss' = (amiss \/ readers[r].old)
          /\ readers' = [readers EXCEPT ![r] = Stored(@, i, Away)]
     \/ /\ hash' = hash /\ amiss' = TRUE
        /\ readers' = [readers EXCEPT ![r] = Away]

ReaderStep(r) ==
  /\ \/ LookUp(r) \/ GetAll(r) \/ ReadMaterials(r) \/ ReadExt(r)
     \/ ReadFails(r) \/ Store(r)
  /\ UNCHANGED <<rowVars, nhtVars, edit, edits, changes>>

-----------------------------------------------------------------------------
(* processNHTstat: a request says isHaveNHTStat=1.                         *)
CountNht ==
  /\ HasNht /\ count < Limit /\ count' = count + 1
  /\ UNCHANGED <<timer, full, sub, temp, other, odd>>

(* NHT2NotNHTTimerTask.                                                    *)
LimitReached ==
  /\ HasNht /\ timer.pc = "idle" /\ count >= Limit /\ ~full
  /\ full' = TRUE /\ timer' = [pc |-> "read", to |-> "temp"]
  /\ UNCHANGED <<count, sub, temp, other, odd>>

(* NotNHT2NHTTimerTask: pvNum                                              *)
NextDay ==
  /\ HasNht /\ timer.pc = "idle" /\ full
  /\ count' = 0 /\ timer' = [pc |-> "clear", to |-> "sub"]
  /\ UNCHANGED <<full, sub, temp, other, odd>>

(* and sts.                                                                *)
ClearFull ==
  /\ timer.pc = "clear" /\ full' = FALSE
  /\ timer' = [timer EXCEPT !.pc = "read"]
  /\ UNCHANGED <<count, sub, temp, other, odd>>

(* Mutant: the columns are not looked at.                                  *)
ReadNoCodes ==
  /\ timer.pc = "read"
  /\ timer' = [timer EXCEPT !.pc = "move"]
  /\ UNCHANGED <<count, full, sub, temp, other, odd>>

(* nhtStat2NnhtProcess and nNht2nhtStatProcess: getAdInstanceByAdId; temp  *)
(* must be empty, or not.  That sub is not, or is, only goes to the log;   *)
ReadCodes ==
  /\ timer.pc = "read"
  /\ timer' = IF (timer.to = "temp") = (temp = Blank)
              THEN [timer EXCEPT !.pc = "move"] ELSE Asleep
  /\ UNCHANGED <<count, full, sub, temp, other, odd>>

(* Mutant: the column the code comes from is not emptied.                  *)
CopyCodes ==
  /\ timer.pc = "move" /\ timer' = Asleep
  /\ IF timer.to = "temp" THEN temp' = sub /\ sub' = sub
                          ELSE sub' = temp /\ temp' = temp
  /\ other' = other \cup FieldsOf(MaterialRows)
  /\ UNCHANGED <<count, full, odd>>

(* subStat2TempStat and tempStat2SubStat, HSET of each material into the   *)
(* hash <id>, and the commit.                                              *)
MoveCodes ==
  /\ timer.pc = "move" /\ timer' = Asleep
  /\ IF timer.to = "temp" THEN temp' = sub /\ sub' = Blank
                          ELSE sub' = temp /\ temp' = Blank
  /\ other' = other \cup FieldsOf(MaterialRows)
  /\ UNCHANGED <<count, full, odd>>

(* A command or a statement fails; the transaction is rolled back, but not *)
(* what Redis has of it.                                                   *)
TimerFails ==
  /\ timer.pc # "idle" /\ timer' = Asleep /\ odd' = odd \cup {"failed"}
  /\ \/ other' = other
     \/ timer.pc = "move" /\ \E items \in SUBSET MaterialRows :
          other' = other \cup FieldsOf(items)
  /\ UNCHANGED <<count, full, sub, temp>>

TimerStep ==
  /\ \/ CountNht \/ LimitReached \/ NextDay \/ ClearFull \/ ReadCodes
     \/ MoveCodes \/ TimerFails
  /\ UNCHANGED <<rowVars, hash, given, edits, changes>>
  /\ amiss' = (amiss \/ (Rows' # Rows /\ hash # {}))
  /\ Age /\ AgeEdit

-----------------------------------------------------------------------------
MaterialNext ==
  /\ \/ \E c \in Code : \/ \E ms \in SUBSET Materials : EditAdPlan("M", ms, c)
                        \/ \E x \in Abouts : EditAdPlan("E", {x}, c)
     \/ EditStep
     \/ \E m \in Materials, x \in Abouts \cup {Deleted} : ChangeMaterial(m, x)
     \/ \E r \in Readers : ReaderStep(r)
     \/ TimerStep
  /\ Remember

MaterialSpec == MaterialInit /\ [][MaterialNext]_materialVars

-----------------------------------------------------------------------------
MaterialTypeOK ==
  /\ links \subseteq Materials /\ ext \subseteq Abouts
  /\ about \in [Materials -> Abouts \cup {Deleted}]
  /\ {sub, temp, given} \subseteq Code
  /\ hash \subseteq Item /\ was \subseteq Item /\ other \subseteq Materials
  /\ readers \in [Readers -> [pc : {"idle", "get", "readM", "readExt",
                                    "store"},
                              list : SUBSET Item, old : BOOLEAN]]
  /\ \A r \in Readers : readers[r].pc = "store" => readers[r].list # {}
  /\ edit \in [pc : {"idle", "unlink", "unext", "add", "read", "del", "put"},
               kind : {"M", "E"}, todo : SUBSET (Materials \cup Abouts),
               list : SUBSET Item, old : BOOLEAN]
  /\ edit.todo \subseteq IF edit.kind = "M" THEN Materials ELSE Abouts
  /\ timer \in [pc : {"idle", "clear", "read", "move"}, to : {"temp", "sub"}]
  /\ count \in 0..Limit /\ {full, amiss} \subseteq BOOLEAN
  /\ edits \in 0..MaxEdits /\ changes \in 0..MaxChanges
  /\ odd \subseteq {"late", "second", "failed"}

(* Once an edit is over and no page is storing, the hash is what the rows  *)
(* are, of every material, or is not there; unless one of the things named *)
(* above has happened since it was last deleted.                           *)
CacheIsRows ==
  ~amiss /\ edit.pc = "idle" /\ (\A r \in Readers : readers[r].pc # "store")
    => hash = {} \/ (hash \subseteq Rows /\ FieldsOf(hash) = FieldsOf(Rows))

(* A page that finds the hash is answered with rows the ad has, or has had *)
(* since there was last neither a page nor an edit; and with some, if no   *)
(* edit has deleted the hash since it looked for it.                       *)
AnswersWereRows ==
  \A r \in Readers : readers[r].pc = "get" =>
    /\ amiss \/ hash \subseteq was
    /\ readers[r].old \/ hash # {}

(* The timers do not lose the code the last edit has given; unless it gave *)
(* it while they had put the one before away.                              *)
CodeIsKept == "second" \in odd \/ given \in {sub, temp}

(* When the traffic is reached the code is out of the NHT column, and when *)
(* it is not it is back; unless a timer failed, or an edit gave a code in  *)
(* between.                                                                *)
ModeFollowsCount ==
  timer.pc = "idle" /\ odd \cap {"late", "failed"} = {} =>
    IF full THEN sub = Blank ELSE temp = Blank

(* "sub must not be there, temp must: from temp into sub"                  *)
(* (NHTStatServiceImpl.java:63).                                           *)
SubIsNotThere ==
  [][ReadCodes /\ timer.to = "sub" /\ sub # Blank
       => timer'.pc # "move"]_materialVars

(* "Update the cache at the same time" (NHTStatServiceImpl.java:46, 73).   *)
TimersUpdateCache ==
  [][MoveCodes => \A i \in hash' : i.field \in Materials =>
       i.sub = sub' /\ i.temp = temp']_materialVars
=============================================================================
