-------------------------- MODULE AdDelivery_proofs --------------------------
(***************************************************************************)
(* What the SSP counts is what the slots did, for every set of views,      *)
(* answers and scripts, every order of timers, users and servers and every *)
(* repetition of requests: from the branches of the scripts over the       *)
(* network to the log of shows.                                            *)
(***************************************************************************)
EXTENDS AdDelivery, FiniteSetTheorems, TLAPS

Fields == {"script", "answer", "stage", "div", "attached", "wrote", "timers",
           "watching", "iframes", "active", "visits", "clicks", "recorded"}

SlotShape ==
  /\ DOMAIN slot = Views
  /\ \A v \in Views : DOMAIN slot[v] = Fields /\ slot[v].answer \in Answers

(* A slot that still waits for its script or for Vizury has written and    *)
(* reported nothing; one of the centre that does not has told the truth.   *)
Waits(s) == s.stage \in {"loading", "vizury"}

Honest(s) ==
  IF Waits(s) THEN /\ s.recorded = <<>> /\ s.wrote \cap PageFrames = {}
                   /\ s.stage = "vizury" => s.script \in Centre
              ELSE s.script \in Centre => RecordTrue(s)

(* What travels to the log and what the log has counted was reported by    *)
(* the slot of the view.                                                   *)
SaidBy(v, type) ==
  v \in Views /\ \E i \in DOMAIN slot[v].recorded : slot[v].recorded[i] = type

RequestsSaid ==
  \A q \in requests : /\ DOMAIN q = {"view", "type", "copy", "pc"}
                      /\ SaidBy(q.view, q.type)
CountsSaid == \A c \in counts : SaidBy(c.view, c.type)

Truth ==
  /\ SlotShape /\ \A v \in Views : Honest(slot[v])
  /\ RequestsSaid /\ CountsSaid

LEMMA TruthInit == DeliveryInit => Truth
<1> SUFFICES ASSUME DeliveryInit PROVE Truth
  OBVIOUS
<1>1. SlotShape
  BY DEF DeliveryInit, Init, SlotShape, Loading, Fields
<1>2. \A v \in Views : Honest(slot[v])
  BY DEF DeliveryInit, Init, Loading, Honest, Waits
<1>3. RequestsSaid /\ CountsSaid
  BY DEF DeliveryInit, Log!Init, RequestsSaid, CountsSaid
<1> QED BY <1>1, <1>2, <1>3 DEF Truth

LEMMA TruthIsCount == Truth => CountsAreTrue
<1> SUFFICES ASSUME Truth, NEW c \in counts, slot[c.view].script \in Centre
             PROVE  c.type = "1" <=> slot[c.view].wrote \cap PageFrames # {}
  BY DEF CountsAreTrue
<1>1. c.view \in Views
  BY DEF Truth, CountsSaid, SaidBy
<1>2. PICK i \in DOMAIN slot[c.view].recorded :
        slot[c.view].recorded[i] = c.type
  BY DEF Truth, CountsSaid, SaidBy
<1>3. ~Waits(slot[c.view])
  BY <1>1, <1>2 DEF Truth, Honest
<1>4. RecordTrue(slot[c.view])
  BY <1>1, <1>3 DEF Truth, Honest
<1> QED BY <1>2, <1>4 DEF RecordTrue

-----------------------------------------------------------------------------
(* Timers and users take frames out and move the focus: of what a slot has *)
(* reported and written nothing changes.                                   *)
Kept ==
  \A v \in Views :
    /\ slot'[v].script = slot[v].script
    /\ slot'[v].recorded = slot[v].recorded
    /\ slot'[v].wrote \cap PageFrames = slot[v].wrote \cap PageFrames
    /\ Waits(slot'[v]) => slot'[v].stage = slot[v].stage

LEMMA QuietSlot ==
  ASSUME SlotShape, NEW v \in Views, Timers(v) \/ User(v)
  PROVE  SlotShape' /\ Kept /\ UNCHANGED logVars
<1> USE DEF SlotShape, Kept, Waits, Fields, InSlot
<1>1. ASSUME NEW f \in HiddenFrames, InSlot(RemoveFrame(v, f))
      PROVE  SlotShape' /\ Kept /\ UNCHANGED logVars
  BY <1>1 DEF RemoveFrame, Without
<1>2. CASE InSlot(Monitor(v))
  BY <1>2 DEF Monitor
<1>3. CASE InSlot(Poll(v))
  BY <1>3 DEF Poll
<1>4. ASSUME NEW f \in VisibleFrames, InSlot(Focus(v, f))
      PROVE  SlotShape' /\ Kept /\ UNCHANGED logVars
  BY <1>4 DEF Focus
<1>5. CASE InSlot(Blur(v))
  BY <1>5 DEF Blur
<1>6. CASE InSlot(Close(v))
  BY <1>6 DEF Close, Without
<1>7. CASE InSlot(Leave(v))
  BY <1>7 DEF Leave, Without
<1>8. CASE InSlot(VizuryFrame(v))
  BY <1>8 DEF VizuryFrame, PageFrames, HiddenFrames
<1> QED BY <1>1, <1>2, <1>3, <1>4, <1>5, <1>6, <1>7, <1>8 DEF Timers, User

LEMMA TruthKept ==
  ASSUME Truth, SlotShape', Kept, UNCHANGED logVars
  PROVE  Truth'
<1>1. \A v \in Views : Honest(slot[v])'
  BY DEF Truth, Kept, Honest, Waits, RecordTrue
<1>2. RequestsSaid' /\ CountsSaid'
  BY DEF Truth, Kept, RequestsSaid, CountsSaid, SaidBy, logVars
<1> QED BY <1>1, <1>2 DEF Truth

-----------------------------------------------------------------------------
(* A script, or the answer of Vizury, makes a slot stop waiting: it reports *)
(* at most once, and what it reports is what it has written.               *)
Reports(v) ==
  /\ \A w \in Views \ {v} : slot'[w] = slot[w]
  /\ slot'[v].script = slot[v].script
  /\ \A i \in DOMAIN slot[v].recorded :
       /\ i \in DOMAIN slot'[v].recorded
       /\ slot'[v].recorded[i] = slot[v].recorded[i]
  /\ Honest(slot'[v])

LEMMA ShownWrites ==
  ASSUME NEW s, DOMAIN s = Fields, s.script \in Centre, s.answer \in Answers
  PROVE  /\ DOMAIN Shown(s) = Fields /\ Shown(s).answer = s.answer
         /\ Shown(s).script = s.script /\ Shown(s).recorded = s.recorded
         /\ Shown(s).wrote \cap PageFrames # {}
<1>1. s.answer.link \in Links
  BY SlotAssumption
<1>2. WrittenFrames(s) \cap PageFrames # {}
  BY <1>1 DEF WrittenFrames, PageFrames, HiddenFrames, Links, Centre
<1> QED BY <1>2 DEF Shown, Fields

LEMMA ShownReports ==
  ASSUME NEW s, DOMAIN s = Fields, s.script \in Centre, s.answer \in Answers,
         s.recorded = <<>>,
         NEW t, t = Shown(s) \/ t = ShownForVizury(s)
  PROVE  LET u == Done(Record(t, "1"))
         IN /\ DOMAIN u = Fields /\ u.answer = s.answer
            /\ u.script = s.script /\ ~Waits(u) /\ RecordTrue(u)
<1>1. /\ DOMAIN t = Fields /\ t.answer = s.answer
      /\ t.script = s.script /\ t.recorded = s.recorded
      /\ t.wrote \cap PageFrames # {}
  <2>1. CASE t = Shown(s)
    BY <2>1, ShownWrites
  <2>2. CASE t = ShownForVizury(s)
    <3>1. {"wrote", "answer", "script", "recorded"} \subseteq DOMAIN s
      BY DEF Fields
    <3>2. DOMAIN t = DOMAIN s
      BY <2>2 DEF ShownForVizury
    <3>3. t.wrote = s.wrote \cup {"vyframe"} /\ t.answer = s.answer
      BY <2>2, <3>1 DEF ShownForVizury
    <3>4. t.script = s.script /\ t.recorded = s.recorded
      BY <2>2, <3>1 DEF ShownForVizury
    <3>5. "vyframe" \in t.wrote \cap PageFrames
      BY <3>3 DEF PageFrames, HiddenFrames
    <3>6. t.wrote \cap PageFrames # {}
      BY <3>5
    <3> QED BY Zenon, <3>2, <3>3, <3>4, <3>6
  <2> QED BY <2>1, <2>2
<1> QED BY <1>1 DEF Done, Record, RecordTrue, Waits, Fields

LEMMA BlindReports ==
  ASSUME NEW s, DOMAIN s = Fields, s.script \in Centre, s.answer \in Answers,
         s.recorded = <<>>, s.wrote \cap PageFrames = {}
  PROVE  /\ DOMAIN Blind(s) = Fields /\ Blind(s).answer = s.answer
         /\ Blind(s).script = s.script
         /\ ~Waits(Blind(s)) /\ RecordTrue(Blind(s))
<1>1. CASE s.answer.ad
  BY <1>1, ShownWrites DEF Blind, Done, Record, RecordTrue, Waits, Fields
<1>2. CASE ~s.answer.ad
  BY <1>2 DEF Blind, Done, Record, RecordTrue, Waits, Fields
<1> QED BY <1>1, <1>2

LEMMA SlotReports ==
  ASSUME Truth, NEW v \in Views, RunCentre(v) \/ Addisplay(v) \/ Psda(v)
  PROVE  SlotShape' /\ Reports(v)
<1> DEFINE s == slot[v]
<1>1. /\ DOMAIN slot = Views /\ DOMAIN s = Fields /\ s.answer \in Answers
      /\ \A w \in Views : DOMAIN slot[w] = Fields /\ slot[w].answer \in Answers
  BY DEF Truth, SlotShape
<1>2. Waits(s) => s.recorded = <<>> /\ s.wrote \cap PageFrames = {}
  BY DEF Truth, Honest
<1>3. ASSUME NEW t, slot' = [slot EXCEPT ![v] = t], Waits(s),
             DOMAIN t = Fields, t.answer = s.answer, t.script = s.script,
             Honest(t)
      PROVE  SlotShape' /\ Reports(v)
  <2>1. slot'[v] = t /\ \A w \in Views \ {v} : slot'[w] = slot[w]
    BY <1>1, <1>3
  <2>2. SlotShape'
    BY <1>1, <1>3, <2>1 DEF SlotShape
  <2>3. DOMAIN slot[v].recorded = {}
    BY <1>2, <1>3
  <2> QED BY <1>3, <2>1, <2>2, <2>3 DEF Reports
<1>4. CASE RunCentre(v)
  <2>1. Waits(s) /\ s.script \in Centre
    BY <1>4 DEF RunCentre, Waits
  <2>2. CASE s.answer.precise
    <3> DEFINE t == Done(Record(Shown(s), "1"))
    <3>1. slot' = [slot EXCEPT ![v] = t]
      BY <1>4, <2>2 DEF RunCentre
    <3>2. /\ DOMAIN t = Fields /\ t.answer = s.answer /\ t.script = s.script
          /\ RecordTrue(t) /\ ~Waits(t)
      BY <1>1, <1>2, <2>1, ShownReports
    <3>3. Honest(t)
      BY <3>2 DEF Honest
    <3> QED BY <1>3, <2>1, <3>1, <3>2, <3>3
  <2>3. CASE ~s.answer.precise /\ s.answer.vizury
    <3> DEFINE t == [s EXCEPT !.stage = "vizury"]
    <3>1. slot' = [slot EXCEPT ![v] = t]
      BY <1>4, <2>3 DEF RunCentre
    <3>2. /\ DOMAIN t = Fields /\ t.answer = s.answer /\ t.script = s.script
          /\ Honest(t)
      BY <1>1, <1>2, <2>1 DEF Honest, Waits, Fields
    <3> QED BY <1>3, <2>1, <3>1, <3>2
  <2>4. CASE ~s.answer.precise /\ ~s.answer.vizury
    <3>1. slot' = [slot EXCEPT ![v] = Blind(s)]
      BY <1>4, <2>4 DEF RunCentre
    <3>2. Honest(Blind(s))
      BY <1>1, <1>2, <2>1, BlindReports DEF Honest
    <3> QED BY <1>1, <1>2, <1>3, <2>1, <3>1, <3>2, BlindReports
  <2> QED BY <2>2, <2>3, <2>4
<1>5. CASE Addisplay(v)
  <2>1. Waits(s) /\ s.script \in Centre
    BY <1>5 DEF Addisplay, Truth, Honest, Waits
  <2>2. CASE slot' = [slot EXCEPT ![v] = Done(Record(ShownForVizury(@), "1"))]
    <3> DEFINE t == Done(Record(ShownForVizury(s), "1"))
    <3>1. slot' = [slot EXCEPT ![v] = t]
      BY <2>2
    <3>2. /\ DOMAIN t = Fields /\ t.answer = s.answer /\ t.script = s.script
          /\ RecordTrue(t) /\ ~Waits(t)
      BY <1>1, <1>2, <2>1, ShownReports
    <3>3. Honest(t)
      BY <3>2 DEF Honest
    <3> QED BY <1>3, <2>1, <3>1, <3>2, <3>3
  <2>3. CASE slot' = [slot EXCEPT ![v] = Blind(@)]
    <3>1. slot' = [slot EXCEPT ![v] = Blind(s)]
      BY <2>3
    <3>2. Honest(Blind(s))
      BY <1>1, <1>2, <2>1, BlindReports DEF Honest
    <3> QED BY <1>1, <1>2, <1>3, <2>1, <3>1, <3>2, BlindReports
  <2> QED BY <1>5, <2>2, <2>3 DEF Addisplay
<1>6. CASE Psda(v)
  <2> DEFINE t == Done(
          CASE ~s.answer.ad -> Record(s, "1")
            [] s.answer.ad /\ (Fails(s) \/ s.script = "m.splv") -> Shown(s)
            [] OTHER -> Record(Shown(s), "0"))
  <2>1. /\ Waits(s) /\ s.script \notin Centre
        /\ slot' = [slot EXCEPT ![v] = t]
    BY <1>6 DEF Psda, Waits
  <2>2. DOMAIN Shown(s) = Fields /\ Shown(s).answer = s.answer
        /\ Shown(s).script = s.script
    BY <1>1 DEF Shown, Fields
  <2>3. /\ DOMAIN t = Fields /\ t.answer = s.answer /\ t.script = s.script
        /\ ~Waits(t)
    BY <1>1, <2>2 DEF Done, Record, Waits, Fields
  <2>4. Honest(t)
    BY <2>1, <2>3 DEF Honest
  <2> QED BY <1>3, <2>1, <2>3, <2>4
<1> QED BY <1>4, <1>5, <1>6

LEMMA TruthReported ==
  ASSUME Truth, NEW v \in Views, SlotShape', Reports(v), RecordSent(v)
  PROVE  Truth'
<1>1. \A w \in Views : Honest(slot[w])'
  BY DEF Truth, Reports
<1>2. ASSUME NEW w, NEW type, SaidBy(w, type)
      PROVE  SaidBy(w, type)'
  BY <1>2 DEF Reports, SaidBy
<1>3. RequestsSaid'
  <2> SUFFICES ASSUME NEW q \in requests'
               PROVE  /\ DOMAIN q = {"view", "type", "copy", "pc"}
                      /\ SaidBy(q.view, q.type)'
    BY DEF RequestsSaid
  <2>1. CASE q \in requests
    BY <1>2, <2>1 DEF Truth, RequestsSaid
  <2>2. CASE q \notin requests
    <3>1. PICK i \in DOMAIN slot'[v].recorded :
            q = Log!Request(v, slot'[v].recorded[i])
      BY <2>2 DEF RecordSent
    <3> QED BY <3>1 DEF Log!Request, SaidBy
  <2> QED BY <2>1, <2>2
<1>4. CountsSaid'
  BY <1>2 DEF RecordSent, Truth, CountsSaid
<1> QED BY <1>1, <1>3, <1>4 DEF Truth

-----------------------------------------------------------------------------
(* The log keeps the view and the type of a request, whatever it does with *)
(* it and however often it is sent.                                        *)
LEMMA TruthLogged ==
  ASSUME Truth, UNCHANGED slot, NEW q \in requests, Log!Serve(q) \/ Log!Resend(q)
  PROVE  Truth'
<1>1. /\ DOMAIN q = {"view", "type", "copy", "pc"}
      /\ SaidBy(q.view, q.type)
  BY DEF Truth, RequestsSaid
<1>2. ASSUME NEW w, NEW type, SaidBy(w, type)
      PROVE  SaidBy(w, type)'
  BY <1>2 DEF SaidBy
<1>3. ASSUME NEW pc, Log!Move(q, pc)
      PROVE  RequestsSaid'
  BY <1>1, <1>2, <1>3 DEF Log!Move, Truth, RequestsSaid
<1>4. RequestsSaid' /\ CountsSaid'
  <2>1. CASE Log!Find(q)
    BY <1>2, <1>3, <2>1 DEF Log!Find, Truth, CountsSaid
  <2>2. CASE Log!Take(q)
    BY <1>2, <1>3, <2>2 DEF Log!Take, Truth, CountsSaid
  <2>3. CASE Log!Count(q)
    <3>1. RequestsSaid'
      BY <1>3, <2>3 DEF Log!Count
    <3>2. CountsSaid'
      BY <1>1, <1>2, <2>3 DEF Log!Count, Truth, CountsSaid
    <3> QED BY <3>1, <3>2
  <2>4. CASE Log!Resend(q)
    BY <1>1, <1>2, <2>4 DEF Log!Resend, Truth, RequestsSaid, CountsSaid
  <2> QED BY <2>1, <2>2, <2>3, <2>4 DEF Log!Serve
<1>5. SlotShape' /\ \A v \in Views : Honest(slot[v])'
  BY DEF Truth, SlotShape
<1> QED BY <1>4, <1>5 DEF Truth

(* The other steps change neither a slot nor what the log holds of it.     *)
LEMMA TruthUntouched ==
  ASSUME Truth, UNCHANGED <<slot, requests, counts>>
  PROVE  Truth'
BY DEF Truth, SlotShape, RequestsSaid, CountsSaid, SaidBy, Honest, Waits,
       RecordTrue

LEMMA TruthStep == Truth /\ [Next]_vars => Truth'
<1> SUFFICES ASSUME Truth, [Next]_vars PROVE Truth'
  OBVIOUS
<1> USE DEF InPage, InLog, slotVars, logVars
<1>1. ASSUME NEW v \in Views, Run(v) \/ VizuryAnswers(v) PROVE Truth'
  BY <1>1, SlotReports, TruthReported DEF Run, VizuryAnswers
<1>2. ASSUME NEW v \in Views, Timers(v) \/ User(v) PROVE Truth'
  BY <1>2, QuietSlot, TruthKept DEF Truth
<1>3. ASSUME NEW v \in Views,
             \/ LoadPage(v) \/ RunScript(v) \/ Answer(v) \/ ClickAd(v)
             \/ ServePage(v) \/ InPage(Page!RedisError(v))
      PROVE  Truth'
  BY <1>3, TruthUntouched
  DEF LoadPage, RunScript, Answer, ClickAd, ServePage
<1>4. CASE ServeLog \/ Network
  BY <1>4, TruthLogged DEF ServeLog, Network
<1>5. CASE Expiry \/ PageKeyExpires
  BY <1>5, TruthUntouched
  DEF Expiry, PageKeyExpires, Log!ImpExpires, Log!FreqExpires
<1>6. CASE UNCHANGED vars
  BY <1>6, TruthUntouched DEF vars
<1> QED BY <1>1, <1>2, <1>3, <1>4, <1>5, <1>6 DEF Next

(* Of the scripts of the centre, the SSP counts a show only for a view     *)
(* into which a page of an ad was written, and a blank only for one        *)
(* without.                                                                *)
THEOREM CountsTrue == Spec => []CountsAreTrue
BY TruthInit, TruthStep, TruthIsCount, PTL DEF Spec

-----------------------------------------------------------------------------
(* Of a view no more than one request is in work at a time, only while the *)
(* view has not been counted; and when it has, its key is gone.            *)
InWork(q) == q.pc \in {"found", "first", "again"}

Once ==
  /\ \A q \in requests : DOMAIN q = {"view", "type", "copy", "pc"}
  /\ \A q, r \in requests : InWork(q) /\ InWork(r) /\ q.view = r.view => q = r
  /\ \A q \in requests, c \in counts : InWork(q) => c.view # q.view
  /\ \A c \in counts : c.view \notin impKeys
  /\ \A c, d \in counts : c.view = d.view => c = d
  /\ \A q \in requests : q.pc \in {"first", "again"} => q.view \notin impKeys

LEMMA OnceInit == DeliveryInit => Once
BY DEF DeliveryInit, Log!Init, Once

(* New requests, first and repeated, are in nobody's work yet.             *)
LEMMA OnceSent ==
  ASSUME Once, UNCHANGED <<impKeys, counts>>, requests \subseteq requests',
         \A q \in requests' \ requests :
           DOMAIN q = {"view", "type", "copy", "pc"} /\ q.pc = "sent"
  PROVE  Once'
<1>1. \A q \in requests' : InWork(q) => q \in requests
  BY DEF InWork
<1>2. \A q \in requests' : q.pc \in {"first", "again"} => q \in requests
  OBVIOUS
<1> QED BY <1>1, <1>2 DEF Once, InWork

LEMMA OnceServed ==
  ASSUME OneAtATime, Once, NEW q \in requests, Log!Serve(q)
  PROVE  Once'
<1>1. DOMAIN q = {"view", "type", "copy", "pc"}
  BY DEF Once
<1>2. CASE Log!Find(q)
  BY <1>1, <1>2, OneAtATime
  DEF Log!Find, Log!Alone, Log!Move, Once, InWork
<1>3. CASE Log!Take(q)
  BY <1>1, <1>3 DEF Log!Take, Log!Move, Once, InWork
<1>4. CASE Log!Count(q)
  BY <1>1, <1>4 DEF Log!Count, Log!Move, Once, InWork
<1> QED BY <1>2, <1>3, <1>4 DEF Log!Serve

LEMMA OnceResent ==
  ASSUME Once, NEW q \in requests, Log!Resend(q)
  PROVE  Once'
<1>1. DOMAIN q = {"view", "type", "copy", "pc"}
  BY DEF Once
<1> QED BY <1>1, OnceSent DEF Log!Resend

LEMMA OnceUntouched ==
  ASSUME Once, impKeys' \subseteq impKeys, UNCHANGED <<requests, counts>>
  PROVE  Once'
BY DEF Once, InWork

LEMMA OnceStep == OneAtATime /\ Once /\ [Next]_vars => Once'
<1> SUFFICES ASSUME OneAtATime, Once, [Next]_vars PROVE Once'
  OBVIOUS
<1> USE DEF InPage, InSlot, InLog, slotVars, logVars
<1>1. ASSUME NEW v \in Views, Run(v) \/ VizuryAnswers(v) PROVE Once'
  BY <1>1, OnceSent DEF Run, VizuryAnswers, RecordSent, Log!Request
<1>2. ASSUME NEW v \in Views, Timers(v) \/ User(v) PROVE Once'
  BY <1>2, OnceUntouched DEF Timers, User
<1>3. ASSUME NEW v \in Views,
             \/ LoadPage(v) \/ RunScript(v) \/ Answer(v) \/ ClickAd(v)
             \/ ServePage(v) \/ InPage(Page!RedisError(v))
      PROVE  Once'
  BY <1>3, OnceUntouched
  DEF LoadPage, RunScript, Answer, ClickAd, ServePage
<1>4. CASE ServeLog \/ Network
  BY <1>4, OnceServed, OnceResent DEF ServeLog, Network
<1>5. CASE Expiry \/ PageKeyExpires
  BY <1>5, OnceUntouched
  DEF Expiry, PageKeyExpires, Log!ImpExpires, Log!FreqExpires
<1>6. CASE UNCHANGED vars
  BY <1>6, OnceUntouched DEF vars
<1> QED BY <1>1, <1>2, <1>3, <1>4, <1>5, <1>6 DEF Next

(* When the SSP works on one request of a view at a time, a view is        *)
(* counted once, however often its request is sent and whenever the keys   *)
(* expire.                                                                 *)
THEOREM CountedOnceOnly == OneAtATime => (Spec => []CountedOnce)
<1> SUFFICES ASSUME OneAtATime PROVE Spec => []CountedOnce
  OBVIOUS
<1>1. Once /\ [Next]_vars => Once'
  BY OnceStep
<1>2. Once => CountedOnce
  BY DEF Once, CountedOnce, Log!CountedOnce
<1> QED BY OnceInit, <1>1, <1>2, PTL DEF Spec

-----------------------------------------------------------------------------
(* The type of a slot, and how its parts belong together: the frames in    *)
(* the document were written; no frame is tracked twice, and none before   *)
(* it was written; while the interval waits for Vizury's frame, only       *)
(* frames of Vizury's ad can be there; and a slot of the centre into which *)
(* a page of an ad was written has reported one show and nothing else.     *)
Trackable == VisibleFrames \cup HiddenFrames
Entries == [element : Trackable, hasTracked : BOOLEAN]

SlotRecords ==
  [script : Scripts, answer : Answers,
   stage : {"loading", "vizury", "done", "left"},
   div : {"none", "open", "closed"},
   attached : SUBSET Frames, wrote : SUBSET Frames,
   timers : SUBSET HiddenFrames, watching : BOOLEAN,
   iframes : Seq(Entries),
   active : VisibleFrames \cup {"body"},
   visits : [VisibleFrames -> Nat],
   clicks : [VisibleFrames \cup HiddenFrames \cup {"death"} -> Nat],
   recorded : Seq({"0", "1"})]

InPlace(s) ==
  /\ s.attached \subseteq s.wrote /\ s.timers \subseteq s.wrote
  /\ s.active \in s.attached \cup {"body"}

TrackedOnce(s) ==
  /\ \A i \in DOMAIN s.iframes : s.iframes[i].element \in s.wrote
  /\ \A i, j \in DOMAIN s.iframes :
       s.iframes[i].element = s.iframes[j].element => i = j

Watched(s) ==
  s.watching => s.iframes = <<>> /\ s.wrote \subseteq {"vyframe", "vzframe"}

Fresh(s) ==
  Waits(s) => /\ s.wrote = {} /\ s.recorded = <<>> /\ s.iframes = <<>>
              /\ s.timers = {} /\ ~s.watching
              /\ s.stage = "vizury" => s.script \in Centre

OneShow(s) ==
  s.script \in Centre /\ s.wrote \cap PageFrames # {} => s.recorded = <<"1">>

(* A visit that has not been reported is there to be: of the frame that    *)
(* has the focus and is not known to have it one report is still owed.     *)
Owed(s, f) ==
  s.active = f /\ ~ \E i \in DOMAIN s.iframes :
                      s.iframes[i].element = f /\ s.iframes[i].hasTracked

VisitsPaid(s) ==
  \A f \in VisibleFrames : /\ s.clicks[f] <= s.visits[f]
                           /\ Owed(s, f) => s.clicks[f] < s.visits[f]

SlotOK(s) ==
  /\ s \in SlotRecords
  /\ InPlace(s) /\ TrackedOnce(s) /\ Watched(s) /\ Fresh(s) /\ OneShow(s)
  /\ VisitsPaid(s)

SlotsOK == DOMAIN slot = Views /\ \A v \in Views : SlotOK(slot[v])
PvHosted == \A v \in Views : pv[v] > 0 => slot[v].wrote \cap PageFrames # {}

LEMMA SlotsInit == DeliveryInit => SlotsOK /\ PvHosted
<1> SUFFICES ASSUME DeliveryInit PROVE SlotsOK /\ PvHosted
  OBVIOUS
<1>1. PICK s \in Scripts, a \in Answers : slot = [v \in Views |-> Loading(s, a)]
  BY DEF DeliveryInit, Init
<1>2. Loading(s, a) \in SlotRecords
  BY DEF Loading, SlotRecords
<1>3. SlotOK(Loading(s, a))
  <2> DEFINE t == Loading(s, a)
  <2>1. /\ t.attached = {} /\ t.wrote = {} /\ t.timers = {}
        /\ t.active = "body" /\ t.iframes = <<>> /\ t.recorded = <<>>
        /\ ~t.watching /\ t.stage = "loading"
        /\ t.clicks = [f \in VisibleFrames \cup HiddenFrames \cup {"death"}
                         |-> 0]
        /\ t.visits = [f \in VisibleFrames |-> 0]
    BY DEF Loading
  <2>2. VisitsPaid(t)
    BY <2>1 DEF VisitsPaid, Owed, VisibleFrames
  <2>3. TrackedOnce(t)
    BY <2>1 DEF TrackedOnce
  <2>4. InPlace(t) /\ Watched(t) /\ Fresh(t) /\ OneShow(t)
    BY <2>1 DEF InPlace, Watched, Fresh, OneShow
  <2> QED BY <1>2, <2>2, <2>3, <2>4 DEF SlotOK
<1>4. PvHosted
  BY DEF DeliveryInit, Page!Init, PvHosted
<1> QED BY <1>1, <1>3, <1>4 DEF SlotsOK

-----------------------------------------------------------------------------
(* What adShow and Vizury's display leave of a slot that has waited.       *)
LEMMA ShownParts ==
  ASSUME NEW s, SlotOK(s), Waits(s)
  PROVE  LET t == Shown(s)
         IN /\ t \in SlotRecords
            /\ t.script = s.script /\ t.recorded = <<>> /\ ~t.watching
            /\ t.attached = t.wrote /\ t.wrote = WrittenFrames(s)
            /\ t.timers \subseteq t.wrote
            /\ t.active = "body"
            /\ t.visits = s.visits /\ t.clicks = s.clicks
            /\ TrackedOnce(t)
<1> DEFINE frames == WrittenFrames(s)
           t == Shown(s)
           entry == [element |-> "extframe", hasTracked |-> FALSE]
<1>1. /\ s \in SlotRecords /\ s.wrote = {} /\ s.attached = {}
      /\ s.recorded = <<>> /\ s.iframes = <<>> /\ s.timers = {}
      /\ ~s.watching /\ s.active = "body"
  BY DEF SlotOK, Fresh, InPlace
<1>2. frames \subseteq Frames
  BY DEF WrittenFrames, Frames, PageFrames, HiddenFrames, VisibleFrames
<1>3. /\ t.script = s.script /\ t.recorded = <<>> /\ t.watching = s.watching
      /\ t.attached = frames /\ t.wrote = frames
      /\ t.timers = IF Fails(s) THEN {} ELSE frames \cap HiddenFrames
      /\ t.iframes = IF "extframe" \in frames /\ ~Fails(s)
                     THEN Append(<<>>, entry) ELSE <<>>
      /\ t.div = IF HasDiv(s) /\ s.answer.link # "J" THEN "open" ELSE s.div
      /\ t.active = s.active /\ t.visits = s.visits /\ t.clicks = s.clicks
      /\ t.answer = s.answer /\ t.stage = s.stage /\ DOMAIN t = DOMAIN s
  BY <1>1 DEF Shown, Track, SlotRecords
<1>4. /\ Append(<<>>, entry) \in Seq(Entries)
      /\ DOMAIN Append(<<>>, entry) = {1}
      /\ Append(<<>>, entry)[1] = entry
  BY DEF Entries, Trackable, VisibleFrames
<1>5. t.iframes \in Seq(Entries)
  <2>1. <<>> \in Seq(Entries)
    OBVIOUS
  <2>2. t.iframes = Append(<<>>, entry) \/ t.iframes = <<>>
    BY <1>3
  <2> QED BY <1>4, <2>1, <2>2
<1>6. t \in SlotRecords
  BY <1>1, <1>2, <1>5 DEF Shown, SlotRecords
<1>7. TrackedOnce(t)
  BY <1>3, <1>4 DEF TrackedOnce
<1> QED BY <1>1, <1>3, <1>6, <1>7

LEMMA VizuryParts ==
  ASSUME NEW s, SlotOK(s), Waits(s)
  PROVE  LET t == ShownForVizury(s)
         IN /\ t \in SlotRecords
            /\ t.script = s.script /\ t.recorded = <<>>
            /\ t.attached = {"vyframe"} /\ t.wrote = {"vyframe"}
            /\ t.timers = {"vyframe"} /\ t.iframes = <<>>
            /\ t.active = "body"
            /\ t.visits = s.visits /\ t.clicks = s.clicks
<1>1. /\ s \in SlotRecords /\ s.wrote = {} /\ s.attached = {}
      /\ s.recorded = <<>> /\ s.iframes = <<>> /\ s.active = "body"
  BY DEF SlotOK, Fresh, InPlace
<1>2. {"vyframe"} \subseteq HiddenFrames /\ {"vyframe"} \subseteq Frames
  BY DEF Frames, PageFrames, HiddenFrames
<1> QED BY <1>1, <1>2 DEF ShownForVizury, SlotRecords

(* Recording and ending change the record of a slot only in those fields.  *)
LEMMA EndParts ==
  ASSUME NEW s \in SlotRecords, s.recorded = <<>>, NEW type \in {"0", "1"}
  PROVE  /\ Done(Record(s, type)) =
              [s EXCEPT !.recorded = <<type>>, !.stage = "done"]
         /\ Done(Record(s, type)) \in SlotRecords
         /\ Done(s) \in SlotRecords
<1>1. Append(<<>>, type) = <<type>> /\ <<type>> \in Seq({"0", "1"})
  OBVIOUS
<1>2. Record(s, type) \in SlotRecords
  BY <1>1 DEF Record, SlotRecords
<1>3. Done(Record(s, type)) \in SlotRecords
  BY <1>2 DEF Done, SlotRecords
<1>4. Done(s) \in SlotRecords
  BY DEF Done, SlotRecords
<1>5. Done(Record(s, type)) =
        [s EXCEPT !.recorded = <<type>>, !.stage = "done"]
  BY <1>1 DEF Done, Record, SlotRecords
<1> QED BY <1>3, <1>4, <1>5

(* A slot that ends well with what it has written and reported.            *)
LEMMA EndOK ==
  ASSUME NEW t \in SlotRecords, t.recorded = <<>>,
         InPlace(t), TrackedOnce(t), Watched(t), VisitsPaid(t)
  PROVE  /\ t.script \notin Centre => SlotOK(Done(t))
         /\ \A type \in {"0", "1"} :
              (t.script \in Centre /\ t.wrote \cap PageFrames # {}
                 => type = "1")
              => SlotOK(Done(Record(t, type)))
<1>1. ASSUME t.script \notin Centre PROVE SlotOK(Done(t))
  <2> DEFINE u == Done(t)
  <2>1. /\ u \in SlotRecords
        /\ u.script = t.script /\ u.attached = t.attached /\ u.wrote = t.wrote
        /\ u.timers = t.timers /\ u.iframes = t.iframes
        /\ u.watching = t.watching /\ u.active = t.active
        /\ u.visits = t.visits /\ u.clicks = t.clicks /\ u.stage = "done"
    BY DEF Done, SlotRecords
  <2> HIDE DEF u
  <2>2. InPlace(u) /\ TrackedOnce(u) /\ Watched(u) /\ VisitsPaid(u)
    BY <2>1 DEF InPlace, TrackedOnce, Watched, VisitsPaid, Owed
  <2>3. Fresh(u) /\ OneShow(u)
    BY <1>1, <2>1 DEF Fresh, Waits, OneShow
  <2>4. SlotOK(u)
    BY <2>1, <2>2, <2>3 DEF SlotOK
  <2> QED BY <2>4 DEF u
<1>2. ASSUME NEW type \in {"0", "1"},
             t.script \in Centre /\ t.wrote \cap PageFrames # {}
               => type = "1"
      PROVE  SlotOK(Done(Record(t, type)))
  <2> DEFINE u == Done(Record(t, type))
  <2>1. u \in SlotRecords /\ u = [t EXCEPT !.recorded = <<type>>,
                                           !.stage = "done"]
    BY EndParts
  <2>2. /\ u.script = t.script /\ u.attached = t.attached /\ u.wrote = t.wrote
        /\ u.timers = t.timers /\ u.iframes = t.iframes
        /\ u.watching = t.watching /\ u.active = t.active
        /\ u.visits = t.visits /\ u.clicks = t.clicks /\ u.stage = "done"
        /\ u.recorded = <<type>>
    BY <2>1 DEF SlotRecords
  <2> HIDE DEF u
  <2>3. InPlace(u) /\ TrackedOnce(u) /\ Watched(u) /\ VisitsPaid(u)
    BY <2>2 DEF InPlace, TrackedOnce, Watched, VisitsPaid, Owed
  <2>4. Fresh(u) /\ OneShow(u)
    BY <1>2, <2>2 DEF Fresh, Waits, OneShow
  <2>5. SlotOK(u)
    BY <2>1, <2>3, <2>4 DEF SlotOK
  <2> QED BY <2>5 DEF u
<1> QED BY <1>1, <1>2

LEMMA ShownOK ==
  ASSUME NEW s, SlotOK(s), Waits(s)
  PROVE  /\ SlotOK(Done(Record(Shown(s), "1")))
         /\ s.script \notin Centre => /\ SlotOK(Done(Record(Shown(s), "0")))
                                      /\ SlotOK(Done(Shown(s)))
<1> DEFINE t == Shown(s)
<1>1. /\ t \in SlotRecords
      /\ t.script = s.script /\ t.recorded = <<>> /\ ~t.watching
      /\ t.attached = t.wrote /\ t.timers \subseteq t.wrote
      /\ t.active = "body"
      /\ t.visits = s.visits /\ t.clicks = s.clicks
      /\ TrackedOnce(t)
  BY ShownParts
<1> HIDE DEF t
<1>2. InPlace(t) /\ Watched(t)
  BY <1>1 DEF InPlace, Watched
<1>3. VisitsPaid(t)
  BY <1>1 DEF SlotOK, VisitsPaid, Owed, VisibleFrames
<1>4. /\ SlotOK(Done(Record(t, "1")))
      /\ t.script \notin Centre => /\ SlotOK(Done(Record(t, "0")))
                                   /\ SlotOK(Done(t))
  BY <1>1, <1>2, <1>3, EndOK
<1> QED BY <1>1, <1>4 DEF t

LEMMA VizuryOK ==
  ASSUME NEW s, SlotOK(s), Waits(s)
  PROVE  SlotOK(Done(Record(ShownForVizury(s), "1")))
<1> DEFINE t == ShownForVizury(s)
<1>1. /\ t \in SlotRecords
      /\ t.script = s.script /\ t.recorded = <<>>
      /\ t.attached = {"vyframe"} /\ t.wrote = {"vyframe"}
      /\ t.timers = {"vyframe"} /\ t.iframes = <<>>
      /\ t.active = "body"
      /\ t.visits = s.visits /\ t.clicks = s.clicks
  BY VizuryParts
<1> HIDE DEF t
<1>2. InPlace(t) /\ Watched(t) /\ TrackedOnce(t)
  BY <1>1 DEF InPlace, Watched, TrackedOnce
<1>3. VisitsPaid(t)
  BY <1>1 DEF SlotOK, VisitsPaid, Owed, VisibleFrames
<1>4. SlotOK(Done(Record(t, "1")))
  BY <1>1, <1>2, <1>3, EndOK
<1> QED BY <1>4 DEF t

LEMMA NothingOK ==
  ASSUME NEW s, SlotOK(s), Waits(s), NEW type \in {"0", "1"}
  PROVE  SlotOK(Done(Record(s, type)))
BY EndOK DEF SlotOK, Fresh

LEMMA BlindOK ==
  ASSUME NEW s, SlotOK(s), Waits(s)
  PROVE  SlotOK(Blind(s))
BY ShownOK, NothingOK DEF Blind

LEMMA WaitingOK ==
  ASSUME NEW s, SlotOK(s), s.stage = "loading", s.script \in Centre
  PROVE  SlotOK([s EXCEPT !.stage = "vizury"])
<1> DEFINE u == [s EXCEPT !.stage = "vizury"]
<1>1. /\ u \in SlotRecords
      /\ u.script = s.script /\ u.attached = s.attached /\ u.wrote = s.wrote
      /\ u.timers = s.timers /\ u.iframes = s.iframes
      /\ u.watching = s.watching /\ u.active = s.active
      /\ u.visits = s.visits /\ u.clicks = s.clicks /\ u.stage = "vizury"
      /\ u.recorded = s.recorded
  BY DEF SlotOK, SlotRecords
<1> HIDE DEF u
<1>2. InPlace(u) /\ TrackedOnce(u) /\ Watched(u) /\ VisitsPaid(u)
  BY <1>1 DEF SlotOK, InPlace, TrackedOnce, Watched, VisitsPaid, Owed
<1>3. Fresh(u) /\ OneShow(u)
  BY <1>1 DEF SlotOK, Fresh, Waits, OneShow
<1>4. SlotOK(u)
  BY <1>1, <1>2, <1>3 DEF SlotOK
<1> QED BY <1>4 DEF u

(* A step of the view v makes t of its slot.                               *)
Becomes(v, t) ==
  /\ slot' = [slot EXCEPT ![v] = t]
  /\ SlotOK(t)
  /\ slot[v].wrote \cap PageFrames \subseteq t.wrote \cap PageFrames

LEMMA SlotRuns ==
  ASSUME SlotsOK, NEW v \in Views, RunCentre(v) \/ Addisplay(v) \/ Psda(v)
  PROVE  \E t : Becomes(v, t)
<1> DEFINE s == slot[v]
<1>1. SlotOK(s)
  BY DEF SlotsOK
<1>2. Waits(s)
  BY DEF RunCentre, Addisplay, Psda, Waits
<1>3. s.wrote = {}
  BY <1>1, <1>2 DEF SlotOK, Fresh
<1>4. ASSUME NEW t, slot' = [slot EXCEPT ![v] = t], SlotOK(t)
      PROVE  \E u : Becomes(v, u)
  BY <1>3, <1>4 DEF Becomes
<1>5. CASE RunCentre(v)
  <2>1. CASE s.answer.precise
    BY <1>1, <1>2, <1>4, <1>5, <2>1, ShownOK DEF RunCentre
  <2>2. CASE ~s.answer.precise /\ s.answer.vizury
    BY <1>1, <1>4, <1>5, <2>2, WaitingOK DEF RunCentre
  <2>3. CASE ~s.answer.precise /\ ~s.answer.vizury
    BY <1>1, <1>2, <1>4, <1>5, <2>3, BlindOK DEF RunCentre
  <2> QED BY <2>1, <2>2, <2>3
<1>6. CASE Addisplay(v)
  <2>1. \/ slot' = [slot EXCEPT ![v] = Done(Record(ShownForVizury(s), "1"))]
        \/ slot' = [slot EXCEPT ![v] = Blind(s)]
    BY <1>6 DEF Addisplay
  <2> QED BY <1>1, <1>2, <1>4, <2>1, VizuryOK, BlindOK
<1>7. CASE Psda(v)
  <2>1. s.script \notin Centre
    BY <1>7 DEF Psda
  <2>2. \/ slot' = [slot EXCEPT ![v] = Done(Record(s, "1"))]
        \/ slot' = [slot EXCEPT ![v] = Done(Shown(s))]
        \/ slot' = [slot EXCEPT ![v] = Done(Record(Shown(s), "0"))]
    BY <1>7 DEF Psda
  <2> QED BY <1>1, <1>2, <1>4, <2>1, <2>2, NothingOK, ShownOK
<1> QED BY <1>5, <1>6, <1>7

(* Taking frames out leaves every part of a slot in its place: the focus   *)
(* goes with its frame, so no report is owed that was not.                 *)
LEMMA WithoutParts ==
  ASSUME NEW s, SlotOK(s), NEW frames
  PROVE  LET t == Without(s, frames)
         IN /\ t \in SlotRecords /\ InPlace(t) /\ VisitsPaid(t)
            /\ t.script = s.script /\ t.stage = s.stage /\ t.div = s.div
            /\ t.attached = s.attached \ frames /\ t.wrote = s.wrote
            /\ t.timers = s.timers /\ t.watching = s.watching
            /\ t.iframes = s.iframes
            /\ t.active \in {s.active, "body"}
            /\ t.visits = s.visits /\ t.clicks = s.clicks
            /\ t.recorded = s.recorded
<1> DEFINE t == Without(s, frames)
<1>1. /\ t \in SlotRecords
      /\ t.script = s.script /\ t.stage = s.stage /\ t.div = s.div
      /\ t.attached = s.attached \ frames /\ t.wrote = s.wrote
      /\ t.timers = s.timers /\ t.watching = s.watching
      /\ t.iframes = s.iframes
      /\ t.active = IF s.active \in frames THEN "body" ELSE s.active
      /\ t.visits = s.visits /\ t.clicks = s.clicks
      /\ t.recorded = s.recorded
  BY DEF SlotOK, Without, SlotRecords
<1> HIDE DEF t
<1>2. InPlace(t)
  BY <1>1 DEF SlotOK, InPlace
<1>3. VisitsPaid(t)
  BY <1>1 DEF SlotOK, VisitsPaid, Owed, VisibleFrames
<1> QED BY <1>1, <1>2, <1>3 DEF t

LEMMA RemoveFrameOK ==
  ASSUME NEW s, SlotOK(s), NEW f \in HiddenFrames
  PROVE  LET t == [Without(s, {f}) EXCEPT !.timers = @ \ {f}]
         IN SlotOK(t) /\ t.wrote = s.wrote
<1> DEFINE w == Without(s, {f})
           t == [w EXCEPT !.timers = @ \ {f}]
<1>1. /\ w \in SlotRecords /\ InPlace(w) /\ VisitsPaid(w)
      /\ w.script = s.script /\ w.stage = s.stage
      /\ w.wrote = s.wrote /\ w.timers = s.timers
      /\ w.watching = s.watching /\ w.iframes = s.iframes
      /\ w.recorded = s.recorded
  BY WithoutParts
<1> HIDE DEF w
<1>2. /\ t \in SlotRecords
      /\ t.script = w.script /\ t.stage = w.stage
      /\ t.attached = w.attached /\ t.wrote = w.wrote
      /\ t.timers = w.timers \ {f} /\ t.watching = w.watching
      /\ t.iframes = w.iframes /\ t.active = w.active
      /\ t.visits = w.visits /\ t.clicks = w.clicks
      /\ t.recorded = w.recorded
  BY <1>1 DEF SlotRecords
<1> HIDE DEF t
<1>3. InPlace(t) /\ VisitsPaid(t)
  BY <1>1, <1>2 DEF InPlace, VisitsPaid, Owed
<1>4. TrackedOnce(t) /\ Watched(t) /\ Fresh(t) /\ OneShow(t)
  BY <1>1, <1>2 DEF SlotOK, TrackedOnce, Watched, Fresh, Waits, OneShow
<1>5. SlotOK(t)
  BY <1>2, <1>3, <1>4 DEF SlotOK
<1> QED BY <1>1, <1>2, <1>5 DEF t, w

LEMMA CloseOK ==
  ASSUME NEW s, SlotOK(s), s.stage = "done", NEW n \in Nat
  PROVE  LET t == [Without(s, s.attached) EXCEPT
                     !.div = "closed", !.clicks["death"] = @ + n]
         IN SlotOK(t) /\ t.wrote = s.wrote
<1> DEFINE w == Without(s, s.attached)
           t == [w EXCEPT !.div = "closed", !.clicks["death"] = @ + n]
<1>1. /\ w \in SlotRecords /\ InPlace(w) /\ VisitsPaid(w)
      /\ w.script = s.script /\ w.stage = s.stage
      /\ w.wrote = s.wrote /\ w.timers = s.timers
      /\ w.watching = s.watching /\ w.iframes = s.iframes
      /\ w.recorded = s.recorded
  BY WithoutParts
<1> HIDE DEF w
<1>2. /\ t \in SlotRecords
      /\ t.script = w.script /\ t.stage = w.stage
      /\ t.attached = w.attached /\ t.wrote = w.wrote
      /\ t.timers = w.timers /\ t.watching = w.watching
      /\ t.iframes = w.iframes /\ t.active = w.active
      /\ t.visits = w.visits
      /\ t.clicks = [w.clicks EXCEPT !["death"] = @ + n]
      /\ t.recorded = w.recorded
  <2> DEFINE D == VisibleFrames \cup HiddenFrames \cup {"death"}
             k == [w.clicks EXCEPT !["death"] = @ + n]
  <2>1. w.clicks \in [D -> Nat]
    BY <1>1 DEF SlotRecords
  <2>2. k \in [D -> Nat]
    <3>1. "death" \in D
      OBVIOUS
    <3> HIDE DEF D
    <3> QED BY <2>1, <3>1
  <2>3. t = [w EXCEPT !.div = "closed", !.clicks = k]
    BY <1>1 DEF SlotRecords
  <2> HIDE DEF k, t
  <2>4. /\ t \in SlotRecords
        /\ t.script = w.script /\ t.stage = w.stage
        /\ t.attached = w.attached /\ t.wrote = w.wrote
        /\ t.timers = w.timers /\ t.watching = w.watching
        /\ t.iframes = w.iframes /\ t.active = w.active
        /\ t.visits = w.visits /\ t.clicks = k
        /\ t.recorded = w.recorded
    BY <1>1, <2>2, <2>3 DEF SlotRecords
  <2> QED BY <2>4 DEF k
<1> HIDE DEF t
<1>3. \A f \in VisibleFrames : t.clicks[f] = w.clicks[f]
  BY <1>1, <1>2 DEF SlotRecords, VisibleFrames
<1>4. InPlace(t) /\ VisitsPaid(t)
  BY <1>1, <1>2, <1>3 DEF InPlace, VisitsPaid, Owed
<1>5. TrackedOnce(t) /\ Watched(t) /\ Fresh(t) /\ OneShow(t)
  BY <1>1, <1>2 DEF SlotOK, TrackedOnce, Watched, Fresh, Waits, OneShow
<1>6. SlotOK(t)
  BY <1>2, <1>4, <1>5 DEF SlotOK
<1> QED BY <1>1, <1>2, <1>6 DEF t, w

LEMMA LeaveOK ==
  ASSUME NEW s, SlotOK(s)
  PROVE  LET t == [Without(s, s.attached) EXCEPT
                     !.stage = "left", !.timers = {}, !.watching = FALSE,
                     !.iframes = <<>>, !.div = "none"]
         IN SlotOK(t) /\ t.wrote = s.wrote
<1> DEFINE w == Without(s, s.attached)
           t == [w EXCEPT !.stage = "left", !.timers = {}, !.watching = FALSE,
                          !.iframes = <<>>, !.div = "none"]
<1>1. /\ w \in SlotRecords /\ InPlace(w) /\ VisitsPaid(w)
      /\ w.script = s.script /\ w.attached = {} /\ w.wrote = s.wrote
      /\ w.recorded = s.recorded
  BY WithoutParts
<1> HIDE DEF w
<1>2. <<>> \in Seq(Entries)
  OBVIOUS
<1>3. /\ t \in SlotRecords
      /\ t.script = w.script /\ t.stage = "left"
      /\ t.attached = w.attached /\ t.wrote = w.wrote
      /\ t.timers = {} /\ ~t.watching
      /\ t.iframes = <<>> /\ t.active = w.active
      /\ t.visits = w.visits /\ t.clicks = w.clicks
      /\ t.recorded = w.recorded
  BY <1>1, <1>2 DEF SlotRecords
<1> HIDE DEF t
<1>4. t.active = "body" /\ InPlace(t)
  BY <1>1, <1>3 DEF InPlace
<1>5. VisitsPaid(t)
  BY <1>1, <1>3, <1>4 DEF VisitsPaid, Owed, VisibleFrames
<1>6. TrackedOnce(t) /\ Watched(t) /\ Fresh(t) /\ OneShow(t)
  BY <1>1, <1>3 DEF SlotOK, TrackedOnce, Watched, Fresh, Waits, OneShow
<1>7. SlotOK(t)
  BY <1>3, <1>4, <1>5, <1>6 DEF SlotOK
<1> QED BY <1>1, <1>3, <1>7 DEF t, w

(* The frame that Vizury's code writes is not tracked yet.                 *)
LEMMA VizuryFrameOK ==
  ASSUME NEW s, SlotOK(s), s.stage = "done", "vyframe" \in s.wrote
  PROVE  SlotOK([s EXCEPT !.attached = @ \cup {"vzframe"},
                          !.wrote = @ \cup {"vzframe"}])
<1> DEFINE t == [s EXCEPT !.attached = @ \cup {"vzframe"},
                          !.wrote = @ \cup {"vzframe"}]
<1>1. {"vzframe"} \subseteq Frames
  BY DEF Frames, VisibleFrames
<1>2. /\ t \in SlotRecords
      /\ t.script = s.script /\ t.stage = s.stage
      /\ t.attached = s.attached \cup {"vzframe"}
      /\ t.wrote = s.wrote \cup {"vzframe"}
      /\ t.timers = s.timers /\ t.watching = s.watching
      /\ t.iframes = s.iframes /\ t.active = s.active
      /\ t.visits = s.visits /\ t.clicks = s.clicks
      /\ t.recorded = s.recorded
  BY <1>1 DEF SlotOK, SlotRecords
<1> HIDE DEF t
<1>3. InPlace(t) /\ VisitsPaid(t) /\ TrackedOnce(t) /\ Watched(t)
  BY <1>2 DEF SlotOK, InPlace, VisitsPaid, Owed, TrackedOnce, Watched
<1>4. Fresh(t)
  BY <1>2 DEF Fresh, Waits
<1>5. "vyframe" \in s.wrote \cap PageFrames
  BY DEF PageFrames, HiddenFrames
<1>6. OneShow(t)
  BY <1>2, <1>5 DEF SlotOK, OneShow
<1>7. SlotOK(t)
  BY <1>2, <1>3, <1>4, <1>6 DEF SlotOK
<1> QED BY <1>7 DEF t

(* The interval tracks the two frames of Vizury's ad once, when both are   *)
(* there.                                                                  *)
LEMMA MonitorOK ==
  ASSUME NEW s, SlotOK(s), s.watching, Cardinality(s.attached) = 2
  PROVE  SlotOK([s EXCEPT
                   !.iframes = Track(Track(s.iframes, "vyframe"), "vzframe"),
                   !.watching = FALSE])
<1> DEFINE e == [element |-> "vyframe", hasTracked |-> FALSE]
           d == [element |-> "vzframe", hasTracked |-> FALSE]
           q == Track(Track(s.iframes, "vyframe"), "vzframe")
           t == [s EXCEPT !.iframes = q, !.watching = FALSE]
<1>1. /\ s \in SlotRecords /\ s.iframes = <<>>
      /\ s.attached \subseteq s.wrote /\ s.wrote \subseteq {"vyframe", "vzframe"}
  BY DEF SlotOK, Watched, InPlace
<1>2. s.wrote = {"vyframe", "vzframe"}
  <2>1. CASE s.attached = {"vyframe", "vzframe"}
    BY <1>1, <2>1
  <2>2. CASE s.attached = {} \/ s.attached = {"vyframe"}
             \/ s.attached = {"vzframe"}
    <3>1. \A x : Cardinality({x}) = 1
      BY FS_Singleton, Zenon
    <3>2. Cardinality({}) = 0
      BY FS_EmptySet
    <3>3. Cardinality(s.attached) \in {0, 1}
      BY <2>2, <3>1, <3>2
    <3> QED BY <3>3
  <2> QED BY <1>1, <2>1, <2>2
<1>3. /\ q \in Seq(Entries)
      /\ DOMAIN q = {1, 2} /\ q[1] = e /\ q[2] = d
  BY <1>1 DEF Track, Entries, Trackable, VisibleFrames, HiddenFrames
<1> HIDE DEF q
<1>4. /\ t \in SlotRecords
      /\ t.script = s.script /\ t.stage = s.stage
      /\ t.attached = s.attached /\ t.wrote = s.wrote
      /\ t.timers = s.timers /\ ~t.watching
      /\ t.iframes = q /\ t.active = s.active
      /\ t.visits = s.visits /\ t.clicks = s.clicks
      /\ t.recorded = s.recorded
  BY <1>1, <1>3 DEF SlotRecords
<1> HIDE DEF t
<1>5. TrackedOnce(t)
  BY <1>2, <1>3, <1>4 DEF TrackedOnce
<1>6. VisitsPaid(t)
  <2>1. \A f \in VisibleFrames : Owed(t, f) => Owed(s, f)
    BY <1>1, <1>4 DEF Owed
  <2> QED BY <1>4, <2>1 DEF SlotOK, VisitsPaid
<1>7. InPlace(t) /\ Watched(t) /\ Fresh(t) /\ OneShow(t)
  BY <1>4 DEF SlotOK, InPlace, Watched, Fresh, Waits, OneShow
<1>8. SlotOK(t)
  BY <1>4, <1>5, <1>6, <1>7 DEF SlotOK
<1> QED BY <1>8 DEF t, q

(* A poll keeps the entries and marks the one of the frame that has the    *)
(* focus; it reports that entry, and no other, when it was not marked.     *)
LEMMA PolledParts ==
  ASSUME NEW q \in Seq(Entries), NEW a
  PROVE  LET p == Polled(q, a)
         IN /\ p \in Seq(Entries)
            /\ DOMAIN p = DOMAIN q
            /\ \A i \in DOMAIN q : /\ p[i].element = q[i].element
                                   /\ p[i].hasTracked = (q[i].element = a)
<1> DEFINE p == Polled(q, a)
<1>1. Len(q) \in Nat /\ DOMAIN q = 1..Len(q) /\ \A i \in 1..Len(q) : q[i] \in Entries
  OBVIOUS
<1>2. /\ DOMAIN p = DOMAIN q
      /\ \A i \in DOMAIN q :
           p[i] = [q[i] EXCEPT !.hasTracked = (q[i].element = a)]
  BY DEF Polled
<1> HIDE DEF p
<1>3. \A i \in DOMAIN q : /\ p[i] \in Entries
                          /\ p[i].element = q[i].element
                          /\ p[i].hasTracked = (q[i].element = a)
  BY <1>1, <1>2 DEF Entries
<1>4. p = [i \in 1..Len(q) |-> p[i]]
  BY <1>1, <1>2 DEF p, Polled
<1>5. p \in Seq(Entries)
  BY <1>1, <1>3, <1>4
<1> QED BY <1>2, <1>3, <1>5 DEF p

LEMMA PollOK ==
  ASSUME NEW s, SlotOK(s), s.stage = "done"
  PROVE  LET hits == Reported(s.iframes, s.active)
         IN SlotOK([s EXCEPT
                      !.iframes = Polled(s.iframes, s.active),
                      !.clicks =
                        IF hits = {} THEN s.clicks
                        ELSE [s.clicks EXCEPT
                                ![s.active] = @ + Cardinality(hits)]])
<1> DEFINE hits == Reported(s.iframes, s.active)
           D == VisibleFrames \cup HiddenFrames \cup {"death"}
           p == Polled(s.iframes, s.active)
           k == IF hits = {} THEN s.clicks
                ELSE [s.clicks EXCEPT ![s.active] = @ + Cardinality(hits)]
           t == [s EXCEPT !.iframes = p, !.clicks = k]
<1>1. /\ s \in SlotRecords
      /\ s.iframes \in Seq(Entries)
      /\ s.clicks \in [D -> Nat] /\ s.visits \in [VisibleFrames -> Nat]
      /\ s.active \in VisibleFrames \cup {"body"}
  BY DEF SlotOK, SlotRecords
<1>2. /\ p \in Seq(Entries)
      /\ DOMAIN p = DOMAIN s.iframes
      /\ \A i \in DOMAIN s.iframes :
           /\ p[i].element = s.iframes[i].element
           /\ p[i].hasTracked = (s.iframes[i].element = s.active)
  BY <1>1, PolledParts
<1>3. hits = {} \/ Cardinality(hits) = 1
  <2>1. \A i, j \in hits : i = j
    BY DEF SlotOK, TrackedOnce, Reported
  <2>2. ASSUME hits # {} PROVE Cardinality(hits) = 1
    <3>1. PICK i \in hits : hits = {i}
      BY <2>1, <2>2
    <3> QED BY <3>1, FS_Singleton, Zenon
  <2> QED BY <2>2
<1>4. hits # {} => /\ s.active \in VisibleFrames /\ Owed(s, s.active)
                   /\ s.clicks[s.active] < s.visits[s.active]
  <2> SUFFICES ASSUME NEW i \in hits
               PROVE  /\ s.active \in VisibleFrames /\ Owed(s, s.active)
                      /\ s.clicks[s.active] < s.visits[s.active]
    OBVIOUS
  <2>1. /\ i \in DOMAIN s.iframes /\ s.iframes[i].element = s.active
        /\ ~s.iframes[i].hasTracked /\ s.iframes[i].element \in Trackable
    <3>1. /\ i \in DOMAIN s.iframes /\ s.iframes[i].element = s.active
          /\ ~s.iframes[i].hasTracked
      BY DEF Reported
    <3>2. s.iframes[i] \in Entries
      <4> HIDE DEF hits
      <4> QED BY <1>1, <3>1
    <3>3. s.iframes[i].element \in Trackable
      BY <3>2 DEF Entries
    <3> QED BY <3>1, <3>3
  <2>2. s.active \in VisibleFrames
    BY <1>1, <2>1 DEF Trackable, VisibleFrames, HiddenFrames
  <2>3. Owed(s, s.active)
    BY <2>1 DEF SlotOK, TrackedOnce, Owed
  <2> QED BY <2>2, <2>3 DEF SlotOK, VisitsPaid
<1>5. hits = {} => ~\E i \in DOMAIN s.iframes :
        s.iframes[i].element = s.active /\ ~s.iframes[i].hasTracked
  BY DEF Reported
<1> HIDE DEF hits
<1>6. /\ k \in [D -> Nat]
      /\ \A f \in VisibleFrames :
           k[f] = IF hits # {} /\ f = s.active THEN s.clicks[f] + 1
                  ELSE s.clicks[f]
  <2>1. VisibleFrames \subseteq D
    OBVIOUS
  <2> HIDE DEF D
  <2> QED BY <1>1, <1>3, <1>4, <2>1
<1> HIDE DEF p, k
<1>7. /\ t \in SlotRecords
      /\ t.script = s.script /\ t.stage = s.stage
      /\ t.attached = s.attached /\ t.wrote = s.wrote
      /\ t.timers = s.timers /\ t.watching = s.watching
      /\ t.iframes = p /\ t.active = s.active
      /\ t.visits = s.visits /\ t.clicks = k
      /\ t.recorded = s.recorded
  BY <1>1, <1>2, <1>6 DEF SlotRecords
<1> HIDE DEF t
<1>8. TrackedOnce(t)
  BY <1>2, <1>7 DEF SlotOK, TrackedOnce
<1>9. VisitsPaid(t)
  <2> SUFFICES ASSUME NEW f \in VisibleFrames
               PROVE  t.clicks[f] <= t.visits[f]
                      /\ (Owed(t, f) => t.clicks[f] < t.visits[f])
    BY DEF VisitsPaid
  <2>1. /\ s.clicks[f] <= s.visits[f]
        /\ Owed(s, f) => s.clicks[f] < s.visits[f]
    BY DEF SlotOK, VisitsPaid
  <2>2. s.clicks[f] \in Nat /\ s.visits[f] \in Nat
    BY <1>1
  <2>3. CASE hits # {} /\ f = s.active
    <3>1. PICK i \in DOMAIN s.iframes : s.iframes[i].element = s.active
      BY <2>3 DEF hits, Reported
    <3>2. ~Owed(t, f)
      BY <1>2, <1>7, <2>3, <3>1 DEF Owed
    <3>3. t.clicks[f] = s.clicks[f] + 1 /\ t.visits[f] = s.visits[f]
      BY <1>6, <1>7, <2>3
    <3>4. s.clicks[f] < s.visits[f]
      BY <1>4, <2>3
    <3> QED BY <2>2, <3>2, <3>3, <3>4
  <2>4. CASE hits = {} \/ f # s.active
    <3>1. Owed(t, f) => Owed(s, f)
      BY <1>2, <1>7 DEF Owed
    <3>2. t.clicks[f] = s.clicks[f] /\ t.visits[f] = s.visits[f]
      BY <1>6, <1>7, <2>4
    <3> QED BY <2>1, <3>1, <3>2
  <2> QED BY <2>3, <2>4
<1>10. Watched(t)
  <2>1. s.watching => DOMAIN p = {}
    BY <1>2 DEF SlotOK, Watched
  <2>2. s.watching => p = <<>>
    BY <1>2, <2>1
  <2> QED BY <1>7, <2>2 DEF SlotOK, Watched
<1>11. InPlace(t) /\ Fresh(t) /\ OneShow(t)
  BY <1>7 DEF SlotOK, InPlace, Fresh, Waits, OneShow
<1>12. SlotOK(t)
  BY <1>7, <1>8, <1>9, <1>10, <1>11 DEF SlotOK
<1> QED BY <1>12 DEF t, p, k, hits

LEMMA FocusOK ==
  ASSUME NEW s, SlotOK(s), NEW f \in VisibleFrames, f \in s.attached
  PROVE  SlotOK([s EXCEPT !.active = f, !.visits[f] = @ + 1])
<1> DEFINE k == [s.visits EXCEPT ![f] = @ + 1]
           t == [s EXCEPT !.active = f, !.visits = k]
<1>1. s \in SlotRecords /\ s.visits \in [VisibleFrames -> Nat]
      /\ s.clicks \in [VisibleFrames \cup HiddenFrames \cup {"death"} -> Nat]
  BY DEF SlotOK, SlotRecords
<1>2. /\ k \in [VisibleFrames -> Nat]
      /\ \A g \in VisibleFrames :
           k[g] = IF g = f THEN s.visits[g] + 1 ELSE s.visits[g]
  BY <1>1
<1>3. t = [s EXCEPT !.active = f, !.visits[f] = @ + 1]
  BY <1>1 DEF SlotRecords
<1> HIDE DEF k
<1>4. /\ t \in SlotRecords
      /\ t.script = s.script /\ t.stage = s.stage
      /\ t.attached = s.attached /\ t.wrote = s.wrote
      /\ t.timers = s.timers /\ t.watching = s.watching
      /\ t.iframes = s.iframes /\ t.active = f
      /\ t.visits = k /\ t.clicks = s.clicks
      /\ t.recorded = s.recorded
  BY <1>1, <1>2 DEF SlotRecords
<1> HIDE DEF t
<1>5. VisitsPaid(t)
  <2> SUFFICES ASSUME NEW g \in VisibleFrames
               PROVE  t.clicks[g] <= t.visits[g]
                      /\ (Owed(t, g) => t.clicks[g] < t.visits[g])
    BY DEF VisitsPaid
  <2>1. s.clicks[g] <= s.visits[g]
    BY DEF SlotOK, VisitsPaid
  <2>2. s.clicks[g] \in Nat /\ s.visits[g] \in Nat
    BY <1>1
  <2>3. Owed(t, g) => g = f
    BY <1>4 DEF Owed
  <2> QED BY <1>2, <1>4, <2>1, <2>2, <2>3
<1>6. InPlace(t) /\ TrackedOnce(t) /\ Watched(t) /\ Fresh(t) /\ OneShow(t)
  BY <1>4 DEF SlotOK, InPlace, TrackedOnce, Watched, Fresh, Waits, OneShow
<1>7. SlotOK(t)
  BY <1>4, <1>5, <1>6 DEF SlotOK
<1> QED BY <1>3, <1>7

LEMMA BlurOK ==
  ASSUME NEW s, SlotOK(s)
  PROVE  SlotOK([s EXCEPT !.active = "body"])
<1> DEFINE t == [s EXCEPT !.active = "body"]
<1>1. /\ t \in SlotRecords
      /\ t.script = s.script /\ t.stage = s.stage
      /\ t.attached = s.attached /\ t.wrote = s.wrote
      /\ t.timers = s.timers /\ t.watching = s.watching
      /\ t.iframes = s.iframes /\ t.active = "body"
      /\ t.visits = s.visits /\ t.clicks = s.clicks
      /\ t.recorded = s.recorded
  BY DEF SlotOK, SlotRecords
<1> HIDE DEF t
<1>2. VisitsPaid(t)
  BY <1>1 DEF SlotOK, VisitsPaid, Owed, VisibleFrames
<1>3. InPlace(t) /\ TrackedOnce(t) /\ Watched(t) /\ Fresh(t) /\ OneShow(t)
  BY <1>1 DEF SlotOK, InPlace, TrackedOnce, Watched, Fresh, Waits, OneShow
<1>4. SlotOK(t)
  BY <1>1, <1>2, <1>3 DEF SlotOK
<1> QED BY <1>4 DEF t

LEMMA SlotTicks ==
  ASSUME SlotsOK, NEW v \in Views, Timers(v) \/ User(v)
  PROVE  \E t : Becomes(v, t)
<1> DEFINE s == slot[v]
<1>1. SlotOK(s) /\ DOMAIN slot = Views
  BY DEF SlotsOK
<1>2. ASSUME NEW t, slot' = [slot EXCEPT ![v] = t], SlotOK(t),
             s.wrote \subseteq t.wrote
      PROVE  \E u : Becomes(v, u)
  BY <1>2 DEF Becomes
<1> USE DEF InSlot
<1>3. ASSUME NEW f \in HiddenFrames, InSlot(RemoveFrame(v, f))
      PROVE  \E u : Becomes(v, u)
  <2>1. slot' = [slot EXCEPT ![v] =
                   [Without(s, {f}) EXCEPT !.timers = @ \ {f}]]
    BY <1>3 DEF RemoveFrame, Without
  <2> QED BY <1>1, <1>2, <2>1, RemoveFrameOK
<1>4. CASE InSlot(Monitor(v))
  <2> DEFINE t == [s EXCEPT
                     !.iframes = Track(Track(s.iframes, "vyframe"), "vzframe"),
                     !.watching = FALSE]
  <2>1. slot' = [slot EXCEPT ![v] = t] /\ t.wrote = s.wrote
    BY <1>1, <1>4 DEF Monitor, SlotOK, SlotRecords
  <2>2. SlotOK(t)
    BY <1>1, <1>4, MonitorOK DEF Monitor
  <2> QED BY <1>2, <2>1, <2>2
<1>5. CASE InSlot(Poll(v))
  <2> DEFINE hits == Reported(s.iframes, s.active)
             t == [s EXCEPT
                     !.iframes = Polled(s.iframes, s.active),
                     !.clicks = IF hits = {} THEN s.clicks
                                ELSE [s.clicks EXCEPT
                                        ![s.active] = @ + Cardinality(hits)]]
  <2>1. slot' = [slot EXCEPT ![v] = t] /\ t.wrote = s.wrote
    BY <1>1, <1>5 DEF Poll, SlotOK, SlotRecords
  <2>2. SlotOK(t)
    BY <1>1, <1>5, PollOK DEF Poll
  <2> QED BY <1>2, <2>1, <2>2
<1>6. ASSUME NEW f \in VisibleFrames, InSlot(Focus(v, f))
      PROVE  \E u : Becomes(v, u)
  <2> DEFINE t == [s EXCEPT !.active = f, !.visits[f] = @ + 1]
  <2>1. slot' = [slot EXCEPT ![v] = t] /\ t.wrote = s.wrote
    BY <1>1, <1>6 DEF Focus, SlotOK, SlotRecords
  <2>2. SlotOK(t)
    BY <1>1, <1>6, FocusOK DEF Focus
  <2> QED BY <1>2, <2>1, <2>2
<1>7. CASE InSlot(Blur(v))
  <2>1. slot' = [slot EXCEPT ![v] = [s EXCEPT !.active = "body"]]
    BY <1>7 DEF Blur
  <2>2. [s EXCEPT !.active = "body"].wrote = s.wrote
    BY <1>1 DEF SlotOK, SlotRecords
  <2> QED BY <1>1, <1>2, <2>1, <2>2, BlurOK
<1>8. CASE InSlot(Close(v))
  <2> DEFINE n == IF HasDeadCross(s) THEN 1 ELSE 0
             t == [Without(s, s.attached) EXCEPT
                     !.div = "closed", !.clicks["death"] = @ + n]
  <2>1. slot' = [slot EXCEPT ![v] = t]
    BY <1>8 DEF Close
  <2>2. n \in Nat /\ s.stage = "done"
    BY <1>8 DEF Close
  <2> HIDE DEF n
  <2>3. SlotOK(t) /\ t.wrote = s.wrote
    BY <1>1, <2>2, CloseOK
  <2> QED BY <1>2, <2>1, <2>3
<1>9. CASE InSlot(Leave(v))
  <2> DEFINE t == [Without(s, s.attached) EXCEPT
                     !.stage = "left", !.timers = {}, !.watching = FALSE,
                     !.iframes = <<>>, !.div = "none"]
  <2>1. slot' = [slot EXCEPT ![v] = t]
    BY <1>9 DEF Leave
  <2>2. SlotOK(t) /\ t.wrote = s.wrote
    BY <1>1, LeaveOK
  <2> QED BY <1>2, <2>1, <2>2
<1>10. CASE InSlot(VizuryFrame(v))
  <2> DEFINE t == [s EXCEPT !.attached = @ \cup {"vzframe"},
                            !.wrote = @ \cup {"vzframe"}]
  <2>1. slot' = [slot EXCEPT ![v] = t] /\ t.wrote = s.wrote \cup {"vzframe"}
    BY <1>1, <1>10 DEF VizuryFrame, SlotOK, SlotRecords
  <2>2. SlotOK(t)
    BY <1>1, <1>10, VizuryFrameOK DEF VizuryFrame
  <2> QED BY <1>2, <2>1, <2>2
<1> QED BY <1>3, <1>4, <1>5, <1>6, <1>7, <1>8, <1>9, <1>10 DEF Timers, User

LEMMA SlotsStep ==
  ASSUME SlotsOK, PvHosted, Page!TypeOK, [Next]_vars
  PROVE  (SlotsOK /\ PvHosted)'
<1> USE DEF InPage, InLog, slotVars, pageVars
<1>1. ASSUME NEW v \in Views, NEW t, Becomes(v, t), pv' = pv
      PROVE  (SlotsOK /\ PvHosted)'
  <2>1. /\ DOMAIN slot' = Views /\ slot'[v] = t
        /\ \A w \in Views \ {v} : slot'[w] = slot[w]
    BY <1>1 DEF Becomes, SlotsOK
  <2>2. SlotsOK'
    BY <1>1, <2>1 DEF Becomes, SlotsOK
  <2>3. PvHosted'
    BY <1>1, <2>1 DEF Becomes, PvHosted
  <2> QED BY <2>2, <2>3
<1>2. ASSUME UNCHANGED <<slot, pv>> PROVE (SlotsOK /\ PvHosted)'
  BY <1>2 DEF SlotsOK, PvHosted
<1>3. ASSUME NEW v \in Views, Hosted(v), UNCHANGED slot,
             \A w \in Views \ {v} : pv'[w] = pv[w]
      PROVE  (SlotsOK /\ PvHosted)'
  <2>1. slot[v].wrote \cap PageFrames # {}
    BY <1>3 DEF Hosted, SlotsOK, SlotOK, InPlace
  <2> QED BY <1>3, <2>1 DEF SlotsOK, PvHosted
<1>4. ASSUME NEW v \in Views, Run(v) \/ VizuryAnswers(v)
      PROVE  (SlotsOK /\ PvHosted)'
  BY <1>1, <1>4, SlotRuns DEF Run, VizuryAnswers, RecordSent
<1>5. ASSUME NEW v \in Views, Timers(v) \/ User(v)
      PROVE  (SlotsOK /\ PvHosted)'
  BY <1>1, <1>5, SlotTicks DEF Timers, User, InSlot
<1>6. ASSUME NEW v \in Views, LoadPage(v) PROVE (SlotsOK /\ PvHosted)'
  BY <1>3, <1>6 DEF LoadPage, Page!LoadPage, Page!TypeOK
<1>7. ASSUME NEW v \in Views, Answer(v) PROVE (SlotsOK /\ PvHosted)'
  BY <1>3, <1>7 DEF Answer, Page!Answer, Page!TypeOK
<1>8. ASSUME NEW v \in Views,
             RunScript(v) \/ ClickAd(v) \/ ServePage(v)
               \/ InPage(Page!RedisError(v))
      PROVE  (SlotsOK /\ PvHosted)'
  BY <1>2, <1>8
  DEF RunScript, Page!RunScript, ClickAd, Page!ClickAd, ServePage, Page!Serve,
      Page!CheckUuid, Page!CheckFreq, Page!AddKey, Page!ExpireKey,
      Page!RedisError
<1>9. CASE ServeLog \/ Network \/ Expiry \/ PageKeyExpires
  BY <1>2, <1>9
  DEF ServeLog, Network, Expiry, PageKeyExpires, Page!UuidExpires,
      Page!FreqExpires
<1>10. CASE UNCHANGED vars
  BY <1>2, <1>10 DEF vars
<1> QED BY <1>4, <1>5, <1>6, <1>7, <1>8, <1>9, <1>10 DEF Next

-----------------------------------------------------------------------------
(* The variables of the pages keep their types in the slots' frames, too.  *)
LEMMA PageTypeStep ==
  ASSUME Page!TypeOK, [Next]_vars
  PROVE  Page!TypeOK'
<1> USE DEF Page!TypeOK, InPage, InLog, InSlot, pageVars
<1>1. ASSUME NEW v \in Views,
             Run(v) \/ VizuryAnswers(v) \/ Timers(v) \/ User(v)
      PROVE  Page!TypeOK'
  BY <1>1 DEF Run, VizuryAnswers, RecordSent, Timers, User
<1>2. ASSUME NEW v \in Views, Page!LoadPage(v) PROVE Page!TypeOK'
  BY <1>2 DEF Page!LoadPage
<1>3. ASSUME NEW v \in Views, Page!RunScript(v) PROVE Page!TypeOK'
  BY <1>3 DEF Page!RunScript
<1>4. ASSUME NEW v \in Views, Page!Answer(v) PROVE Page!TypeOK'
  BY <1>4 DEF Page!Answer
<1>5. ASSUME NEW v \in Views, Page!ClickAd(v) PROVE Page!TypeOK'
  BY <1>5 DEF Page!ClickAd
<1>6. ASSUME NEW v \in Views, Page!CheckUuid(v) PROVE Page!TypeOK'
  BY <1>6 DEF Page!CheckUuid
<1>7. ASSUME NEW v \in Views, Page!CheckFreq(v) PROVE Page!TypeOK'
  BY <1>7 DEF Page!CheckFreq
<1>8. ASSUME NEW v \in Views, Page!AddKey(v) PROVE Page!TypeOK'
  BY <1>8 DEF Page!AddKey
<1>9. ASSUME NEW v \in Views, Page!ExpireKey(v) PROVE Page!TypeOK'
  BY <1>9 DEF Page!ExpireKey, Page!Grant
<1>10. ASSUME NEW v \in Views, Page!RedisError(v) PROVE Page!TypeOK'
  BY <1>10 DEF Page!RedisError, Page!Grant
<1>11. ASSUME NEW v \in Views, Page!UuidExpires(v) PROVE Page!TypeOK'
  BY <1>11 DEF Page!UuidExpires
<1>12. CASE Page!FreqExpires
  BY <1>12 DEF Page!FreqExpires
<1>13. CASE UNCHANGED pageVars
  BY <1>13
<1>14. ASSUME NEW v \in Views,
              \/ LoadPage(v) \/ RunScript(v) \/ Answer(v) \/ ClickAd(v)
              \/ ServePage(v) \/ InPage(Page!RedisError(v))
       PROVE  Page!TypeOK'
  BY <1>2, <1>3, <1>4, <1>5, <1>6, <1>7, <1>8, <1>9, <1>10, <1>14
  DEF LoadPage, RunScript, Answer, ClickAd, ServePage, Page!Serve
<1>15. CASE ServeLog \/ Network \/ Expiry \/ PageKeyExpires
  BY <1>11, <1>12, <1>13, <1>15
  DEF ServeLog, Network, Expiry, PageKeyExpires
<1>16. CASE UNCHANGED vars
  BY <1>13, <1>16 DEF vars
<1> QED BY <1>1, <1>14, <1>15, <1>16 DEF Next

(* What is on its way to the log is a report of the slot, sent at most as  *)
(* often as the browser may send it.                                       *)
RequestTypes ==
  /\ impKeys \subseteq Views /\ impfreq \in BOOLEAN
  /\ \A q \in requests :
       /\ q.copy \in 1..Copies
       /\ q.pc \in {"sent", "found", "first", "again", "over"}

LEMMA RequestTypesStep ==
  ASSUME Truth, RequestTypes, [Next]_vars
  PROVE  RequestTypes'
<1> USE DEF RequestTypes, InPage, InLog, slotVars, logVars
<1>1. ASSUME NEW v \in Views, Run(v) \/ VizuryAnswers(v)
      PROVE  RequestTypes'
  <2>1. \A type : /\ Log!Request(v, type).copy \in 1..Copies
                  /\ Log!Request(v, type).pc = "sent"
    BY DeliveryAssumption DEF Log!Request
  <2> QED BY <1>1, <2>1 DEF Run, VizuryAnswers, RecordSent
<1>2. ASSUME NEW q \in requests, Log!Serve(q) PROVE RequestTypes'
  <2>1. DOMAIN q = {"view", "type", "copy", "pc"}
    BY DEF Truth, RequestsSaid
  <2>2. ASSUME NEW pc \in {"sent", "found", "first", "again", "over"}
        PROVE  [q EXCEPT !.pc = pc].copy \in 1..Copies
               /\ [q EXCEPT !.pc = pc].pc = pc
    BY <2>1
  <2>3. CASE Log!Find(q)
    BY <2>2, <2>3 DEF Log!Find, Log!Move
  <2>4. CASE Log!Take(q)
    BY <2>2, <2>4 DEF Log!Take, Log!Move
  <2>5. CASE Log!Count(q)
    BY <2>2, <2>5 DEF Log!Count, Log!Move
  <2> QED BY <1>2, <2>3, <2>4, <2>5 DEF Log!Serve
<1>3. ASSUME NEW q \in requests, Log!Resend(q) PROVE RequestTypes'
  <2>1. DOMAIN q = {"view", "type", "copy", "pc"} /\ q.copy \in 1..Copies
        /\ q.copy < Copies
    BY <1>3 DEF Truth, RequestsSaid, Log!Resend
  <2> DEFINE r == [q EXCEPT !.copy = @ + 1, !.pc = "sent"]
  <2>2. r.copy = q.copy + 1 /\ r.pc = "sent"
    BY <2>1
  <2>3. requests' = requests \cup {r} /\ UNCHANGED <<impKeys, impfreq>>
    BY <1>3 DEF Log!Resend
  <2> HIDE DEF r
  <2>4. r.copy \in 1..Copies
    BY <2>1, <2>2, DeliveryAssumption
  <2> QED BY <2>2, <2>3, <2>4
<1>4. CASE ServeLog \/ Network
  BY <1>2, <1>3, <1>4 DEF ServeLog, Network
<1>5. CASE Expiry \/ PageKeyExpires
  BY <1>5 DEF Expiry, PageKeyExpires, Log!ImpExpires, Log!FreqExpires
<1>6. ASSUME NEW v \in Views,
             \/ Timers(v) \/ User(v)
             \/ LoadPage(v) \/ RunScript(v) \/ Answer(v) \/ ClickAd(v)
             \/ ServePage(v) \/ InPage(Page!RedisError(v))
      PROVE  RequestTypes'
  BY <1>6
  DEF Timers, User, InSlot, LoadPage, RunScript, Answer, ClickAd, ServePage
<1>7. CASE UNCHANGED vars
  BY <1>7 DEF vars
<1> QED BY <1>1, <1>4, <1>5, <1>6, <1>7 DEF Next

-----------------------------------------------------------------------------
(* All of it together.                                                     *)
DeliveryInv ==
  Truth /\ SlotsOK /\ PvHosted /\ RequestTypes /\ Page!TypeOK

LEMMA DeliveryInvInit == DeliveryInit => DeliveryInv
<1> SUFFICES ASSUME DeliveryInit PROVE DeliveryInv
  OBVIOUS
<1>1. RequestTypes
  BY DEF DeliveryInit, Log!Init, RequestTypes
<1>2. Page!TypeOK
  BY DEF DeliveryInit, Page!Init, Page!TypeOK
<1> QED BY TruthInit, SlotsInit, <1>1, <1>2 DEF DeliveryInv

LEMMA DeliveryInvStep == DeliveryInv /\ [Next]_vars => DeliveryInv'
BY TruthStep, SlotsStep, RequestTypesStep, PageTypeStep DEF DeliveryInv

(* Whatever order timers, users, servers and Redis take, every variable of *)
(* the delivery keeps its type: a frame in the page or awaiting its timer  *)
(* or tracked by the poll was written, the focus is in a frame that is     *)
(* there, and a request to the log carries what its slot has recorded.     *)
THEOREM DeliveryTypeCorrect == Spec => []TypeOK
<1>1. DeliveryInv => TypeOK
  <2> SUFFICES ASSUME DeliveryInv PROVE TypeOK
    OBVIOUS
  <2>1. ASSUME NEW v \in Views
        PROVE  /\ slot[v].script \in Scripts /\ slot[v].answer \in Answers
               /\ slot[v].timers \cup (slot[v].attached \cap HiddenFrames)
                    \subseteq slot[v].wrote
               /\ slot[v].wrote \subseteq Frames
               /\ slot[v].active \in slot[v].attached \cup {"body"}
               /\ \A i \in DOMAIN slot[v].iframes :
                    slot[v].iframes[i].element \in slot[v].wrote
    BY DEF DeliveryInv, SlotsOK, SlotOK, SlotRecords, InPlace, TrackedOnce
  <2>2. \A q \in requests :
          /\ q.view \in Views /\ q.copy \in 1..Copies
          /\ \E i \in DOMAIN slot[q.view].recorded :
               slot[q.view].recorded[i] = q.type
          /\ q.pc \in {"sent", "found", "first", "again", "over"}
    BY DEF DeliveryInv, Truth, RequestsSaid, SaidBy, RequestTypes
  <2>3. impKeys \subseteq Views /\ impfreq \in BOOLEAN /\ Page!TypeOK
    BY DEF DeliveryInv, RequestTypes
  <2> QED BY <2>1, <2>2, <2>3 DEF TypeOK
<1> QED BY DeliveryInvInit, DeliveryInvStep, <1>1, PTL DEF Spec

(* In every order of focus changes, polls, late frames, removals and       *)
(* closings, the clicks reported of a frame are never more than the visits *)
(* of the user to it.                                                      *)
THEOREM ClicksArePaid == Spec => []ClickPerVisit
<1>1. DeliveryInv => ClickPerVisit
  BY DEF DeliveryInv, SlotsOK, SlotOK, VisitsPaid, ClickPerVisit
<1> QED BY DeliveryInvInit, DeliveryInvStep, <1>1, PTL DEF Spec

(* A page view is only sent from the frame of a slot, and for the scripts  *)
(* of the centre that slot has reported the view as a show, once, whether  *)
(* the frame is still there or not.                                        *)
THEOREM PageViewsAreShown == Spec => []PvBelongsToShow
<1>1. DeliveryInv => PvBelongsToShow
  BY DEF DeliveryInv, SlotsOK, SlotOK, OneShow, PvHosted, PvBelongsToShow
<1> QED BY DeliveryInvInit, DeliveryInvStep, <1>1, PTL DEF Spec
=============================================================================
