------------------------- MODULE AdServing_proofs --------------------------
(***************************************************************************)
(* For any number of ads, refreshes and requests: what a slot is given was *)
(* on delivery, and refreshes leave the map as the rows are.               *)
(***************************************************************************)
EXTENDS AdServing, TLAPS

-----------------------------------------------------------------------------
(* Every ad that is on delivery, listed by a refresh or in the map is in   *)
(* wasOn, and whatever a request holds or may still meet is in its own     *)
(* history, which keeps all of wasOn however often wasOn starts anew.      *)
RunShape(run) ==
  /\ DOMAIN run = {"pc", "todo", "ad", "links"}
  /\ run.todo \subseteq IF run.pc = "idle" THEN {} ELSE wasOn
  /\ run.pc = "put" => run.ad \in wasOn

RequestShape(q) ==
  /\ DOMAIN q = {"pc", "todo", "found", "moved", "was", "ad"}
  /\ q.ad # NoAd => q.ad \in q.was
  /\ q.pc # "idle" => /\ wasOn \subseteq q.was
                      /\ q.todo \subseteq q.was
                      /\ \A hit \in q.found : hit.ad \in q.was

Servable ==
  /\ DOMAIN plans = Ads /\ DOMAIN runs = Runs /\ DOMAIN requests = Requests
  /\ DOMAIN on = Ads
  /\ OnAir \subseteq wasOn /\ Keys \subseteq wasOn
  /\ \A f \in Runs : RunShape(runs[f])
  /\ \A r \in Requests : RequestShape(requests[r])

LEMMA ServableInit == Init => Servable
<1> SUFFICES ASSUME Init PROVE Servable
  OBVIOUS
<1>1. /\ DOMAIN plans = Ads /\ DOMAIN runs = Runs /\ DOMAIN on = Ads
      /\ DOMAIN requests = Requests
  BY DEF Init
<1>2. OnAir \subseteq wasOn /\ Keys \subseteq wasOn
  BY DEF Init, OnAir, Keys
<1>3. \A f \in Runs : RunShape(runs[f])
  BY DEF Init, RunShape, NoRun
<1>4. \A r \in Requests : RequestShape(requests[r])
  BY DEF Init, RequestShape, NoRequest
<1> QED BY <1>1, <1>2, <1>3, <1>4 DEF Servable

LEMMA ServableSwitch ==
  ASSUME Servable, NEW a \in Ads, Switch(a) PROVE Servable'
<1> DEFINE now == IF on[a] THEN {} ELSE {a}
<1>1. /\ wasOn' = wasOn \cup now /\ plans' = plans /\ runs' = runs
      /\ on' = [on EXCEPT ![a] = ~@] /\ Remember(now)
  BY DEF Switch
<1>2. OnAir' \subseteq wasOn' /\ Keys' \subseteq wasOn' /\ DOMAIN on' = Ads
  BY <1>1 DEF Servable, OnAir, Keys
<1>3. \A f \in Runs : RunShape(runs[f])'
  BY <1>1 DEF Servable, RunShape
<1>4. DOMAIN requests' = Requests
  BY <1>1 DEF Remember
<1>5. ASSUME NEW r \in Requests PROVE RequestShape(requests[r])'
  <2> DEFINE q == requests[r]
  <2>1. RequestShape(q)
    BY DEF Servable
  <2>2. CASE q.pc = "idle"
    BY <1>1, <2>1, <2>2 DEF Remember, RequestShape
  <2>3. CASE q.pc # "idle"
    <3>1. requests'[r] = [q EXCEPT !.was = @ \cup now]
      BY <1>1, <2>3 DEF Remember
    <3> QED BY <1>1, <2>1, <2>3, <3>1 DEF RequestShape
  <2> QED BY <2>2, <2>3
<1> QED BY <1>1, <1>2, <1>3, <1>4, <1>5 DEF Servable

(* Steps that leave the map, the refreshes and the requests alone.         *)
LEMMA ServableRows ==
  ASSUME Servable, DOMAIN on' = Ads, OnAir' \subseteq OnAir,
         UNCHANGED <<plans, runs, requests, wasOn>>
  PROVE  Servable'
BY DEF Servable, Keys, RunShape, RequestShape

LEMMA ServableEdit ==
  ASSUME Servable, NEW a \in Edited, EditStep(a) PROVE Servable'
<1>1. UNCHANGED <<plans, runs, requests, wasOn>>
  BY DEF EditStep, histVars
<1>2. on' = on \/ \E changed \in BOOLEAN :
                    on' = [on EXCEPT ![a] = @ /\ ~changed]
  BY DEF EditStep, DelAdMaterialLinks, DelAdTimeFrequency, AddPlanMaterial,
         AddPlanStrategy, ResetStatus
<1>3. DOMAIN on' = Ads /\ \A b \in Ads : on'[b] => on[b]
  BY <1>2 DEF Servable
<1>4. OnAir' \subseteq OnAir
  BY <1>3 DEF OnAir
<1> QED BY <1>1, <1>3, <1>4, ServableRows

(* The map changes: requests under way may meet the ads it gets.           *)
LEMMA ServableMove ==
  ASSUME Servable, NEW new \in SUBSET wasOn, Move(new),
         wasOn' \subseteq wasOn, NEW r \in Requests
  PROVE  RequestShape(requests[r])'
<1> DEFINE q == requests[r]
<1>1. RequestShape(q)
  BY DEF Servable
<1>2. CASE q.pc # "scan"
  BY <1>1, <1>2 DEF Move, RequestShape
<1>3. CASE q.pc = "scan"
  <2>1. requests'[r] = [q EXCEPT !.moved = TRUE, !.todo = @ \cup new]
    BY <1>3 DEF Move
  <2> QED BY <1>1, <1>3, <2>1 DEF RequestShape
<1> QED BY <1>2, <1>3

LEMMA ServableStart ==
  ASSUME Servable, NEW f \in Runs, StartRun(f) PROVE Servable'
<1>1. /\ plans' = [a \in Ads |-> Vacant] /\ Move({}) /\ on' = on
      /\ runs' = [runs EXCEPT ![f].pc = "list"]
      /\ wasOn' = IF AtRest THEN OnAir ELSE wasOn
  BY DEF StartRun, Begin, rowVars, histVars
<1>2. wasOn' \subseteq wasOn /\ OnAir' \subseteq wasOn'
  BY <1>1 DEF Servable, OnAir
<1>3. Keys' = {}
  BY <1>1 DEF Keys
<1>4. ASSUME NEW g \in Runs PROVE RunShape(runs[g])'
  <2>1. RunShape(runs[g])
    BY DEF Servable
  <2>2. CASE AtRest
    BY <2>2, <2>1, <1>1 DEF AtRest, Idle, RunShape
  <2>3. CASE ~AtRest
    BY <2>3, <2>1, <1>1 DEF RunShape, Servable
  <2> QED BY <2>2, <2>3
<1>5. \A r \in Requests : RequestShape(requests[r])'
  BY <1>1, <1>2, ServableMove
<1> QED BY <1>1, <1>2, <1>3, <1>4, <1>5 DEF Servable, Move

(* The steps of a refresh that change neither wasOn nor the rows.          *)
LEMMA ServableRun ==
  ASSUME Servable, NEW f \in Runs, RunStep(f) \/ RunFails(f)
  PROVE  Servable'
<1>1. on' = on /\ wasOn' = wasOn
  BY DEF RunStep, RunFails, ListAds, List, ReadPlan, PutPlan, rowVars,
         histVars
<1>2. RunShape(runs[f])
  BY DEF Servable
<1>3. CASE ListAds(f)
  <2>1. UNCHANGED <<plans, requests>>
    BY <1>3 DEF ListAds, List
  <2>2. \/ runs' = [runs EXCEPT ![f].pc = "read", ![f].todo = OnAir]
        \/ runs' = [runs EXCEPT ![f] = NoRun]
    BY <1>3 DEF ListAds, List
  <2>3. \A g \in Runs : RunShape(runs[g])'
    BY <2>2, <1>1, <1>2 DEF Servable, RunShape, NoRun
  <2> QED
    BY <2>1, <2>2, <2>3, <1>1 DEF Servable, OnAir, Keys, RequestShape
<1>4. CASE ReadPlan(f)
  <2>1. UNCHANGED <<plans, requests>>
    BY <1>4 DEF ReadPlan
  <2>2. PICK a \in runs[f].todo :
          /\ runs[f].pc = "read"
          /\ runs' = [runs EXCEPT ![f] =
               [pc |-> "put", todo |-> runs[f].todo \ {a}, ad |-> a,
                links |-> links[a]]]
    BY <1>4, <1>2 DEF ReadPlan, Servable
  <2>3. \A g \in Runs : RunShape(runs[g])'
    BY <2>2, <1>1, <1>2 DEF Servable, RunShape
  <2> QED
    BY <2>1, <2>2, <2>3, <1>1 DEF Servable, OnAir, Keys, RequestShape
<1>5. CASE PutPlan(f)
  <2> DEFINE a == runs[f].ad
  <2>1. a \in wasOn
    BY <1>5, <1>2 DEF PutPlan, RunShape
  <2>2. runs' = [runs EXCEPT ![f] = IF runs[f].todo = {} THEN NoRun ELSE
                   [NoRun EXCEPT !.pc = "read", !.todo = runs[f].todo]]
    BY <1>5 DEF PutPlan
  <2>3. \A g \in Runs : RunShape(runs[g])'
    BY <2>2, <1>1, <1>2, <1>5 DEF Servable, RunShape, NoRun, PutPlan
  <2>4. CASE UNCHANGED <<plans, requests>>
    BY <2>2, <2>3, <2>4, <1>1 DEF Servable, OnAir, Keys, RequestShape
  <2>5. CASE /\ plans' = [plans EXCEPT ![a] =
                             [links |-> runs[f].links, freq |-> freq[a]]]
             /\ Move({a})
    <3>1. \A r \in Requests : RequestShape(requests[r])'
      BY <2>1, <2>5, <1>1, ServableMove, {a} \in SUBSET wasOn
    <3>2. Keys' \subseteq wasOn'
      BY <2>1, <2>5, <1>1 DEF Servable, Keys
    <3> QED
      BY <2>2, <2>3, <2>5, <3>1, <3>2, <1>1 DEF Servable, OnAir, Move
  <2> QED BY <1>5, <2>4, <2>5 DEF PutPlan
<1>6. CASE RunFails(f)
  <2>1. UNCHANGED <<plans, requests>> /\ runs' = [runs EXCEPT ![f] = NoRun]
    BY <1>6 DEF RunFails
  <2>2. \A g \in Runs : RunShape(runs[g])'
    BY <2>1, <1>1 DEF Servable, RunShape, NoRun
  <2> QED BY <2>1, <2>2, <1>1 DEF Servable, OnAir, Keys, RequestShape
<1> QED BY <1>3, <1>4, <1>5, <1>6 DEF RunStep

(* A request only keeps or answers with what it holds.                     *)
LEMMA ServableRequest ==
  ASSUME Servable, NEW r \in Requests, Request(r) PROVE Servable'
<1> DEFINE q == requests[r]
<1>1. /\ UNCHANGED <<on, plans, runs, wasOn>>
  BY DEF Request, rowVars, histVars
<1>2. RequestShape(q)
  BY DEF Servable
<1>3. SUFFICES ASSUME NEW new, requests' = [requests EXCEPT ![r] = new],
                      RequestShape(new)
               PROVE  Servable'
  <2>1. ASSUME NEW a, Answer(r, a), a # NoAd => a \in q.was
        PROVE  Servable'
    <3>1. RequestShape([NoRequest EXCEPT !.ad = a,
                          !.was = IF a = NoAd THEN {} ELSE q.was])
      BY <2>1 DEF RequestShape, NoRequest
    <3> QED BY <2>1, <3>1, <1>3 DEF Answer
  <2>2. ASSUME NEW hit, Show(r, hit), hit.ad \in q.was PROVE Servable'
    BY <2>1, <2>2 DEF Show
  <2>3. ASSUME NEW hit \in q.found, q.pc = "pick" PROVE hit.ad \in q.was
    BY <2>3, <1>2 DEF RequestShape
  <2>4. CASE Ask(r)
    <3>1. RequestShape([NoRequest EXCEPT !.pc = "scan", !.todo = Keys,
                                         !.was = wasOn])
      BY DEF RequestShape, NoRequest, Servable
    <3> QED BY <2>4, <3>1, <1>3 DEF Ask
  <2>5. CASE Scan(r)
    <3>1. PICK a \in q.todo :
            /\ q.pc = "scan"
            /\ \/ requests' = [requests EXCEPT ![r].todo = @ \ {a}]
               \/ requests' = [requests EXCEPT ![r].todo = @ \ {a},
                     ![r].found = @ \cup
                       {[ad |-> a, named |-> plans[a].links # {}]}]
      BY <2>5 DEF Scan
    <3>2. RequestShape([q EXCEPT !.todo = @ \ {a}])
      BY <3>1, <1>2 DEF RequestShape
    <3>3. RequestShape([q EXCEPT !.todo = @ \ {a}, !.found = @ \cup
                          {[ad |-> a, named |-> plans[a].links # {}]}])
      BY <3>1, <1>2 DEF RequestShape
    <3> QED BY <3>1, <3>2, <3>3, <1>3
  <2>6. CASE ScanBreaks(r)
    BY <2>6, <2>1 DEF ScanBreaks
  <2>7. CASE EndScan(r)
    <3>1. RequestShape([q EXCEPT !.pc = "pick", !.todo = {},
                                 !.moved = FALSE])
      BY <2>7, <1>2 DEF EndScan, RequestShape
    <3> QED BY <2>7, <3>1, <1>3 DEF EndScan
  <2>8. CASE PickTarget(r)
    BY <2>8, <2>2, <2>3 DEF PickTarget
  <2>9. CASE PickSearch(r)
    <3>1. CASE Answer(r, NoAd)
      BY <3>1, <2>1
    <3>2. ASSUME NEW hit \in q.found,
                 Show(r, [hit EXCEPT !.named = plans[hit.ad].links # {}])
          PROVE  Servable'
      <4>1. hit.ad \in q.was
        BY <2>9, <2>3 DEF PickSearch
      <4>2. [hit EXCEPT !.named = plans[hit.ad].links # {}].ad = hit.ad
        OBVIOUS
      <4> QED BY <3>2, <4>1, <4>2, <2>2
    <3> QED BY <2>9, <3>1, <3>2 DEF PickSearch
  <2>10. CASE PickHost(r)
    BY <2>10, <2>1, <2>2, <2>3 DEF PickHost
  <2>11. CASE PickBlind(r)
    BY <2>11, <2>1, <2>2, <2>3 DEF PickBlind
  <2> QED
    BY <2>4, <2>5, <2>6, <2>7, <2>8, <2>9, <2>10, <2>11 DEF Request
<1>4. \A s \in Requests : RequestShape(requests[s])'
  BY <1>1, <1>3 DEF Servable, RequestShape
<1> QED BY <1>1, <1>3, <1>4 DEF Servable, OnAir, Keys, RunShape

LEMMA ServableStep == Servable /\ [Next]_vars => Servable'
<1> SUFFICES ASSUME Servable, [Next]_vars PROVE Servable'
  OBVIOUS
<1>1. ASSUME NEW a \in Ads, Switch(a) PROVE Servable'
  BY <1>1, ServableSwitch
<1>2. ASSUME NEW a \in Edited, EditStep(a) PROVE Servable'
  BY <1>2, ServableEdit
<1>3. ASSUME NEW a \in Edited,
             EditFails(a) \/ \E c \in SUBSET Materials \ {{}} :
                               EditAdPlan(a, c)
      PROVE  Servable'
  <2>1. UNCHANGED <<on, plans, runs, requests, wasOn>>
    BY <1>3 DEF EditFails, EditBreaks, EditAdPlan, rowVars, histVars
  <2> QED BY <2>1, ServableRows DEF Servable, OnAir
<1>4. ASSUME NEW f \in Runs, StartRun(f) PROVE Servable'
  BY <1>4, ServableStart
<1>5. ASSUME NEW f \in Runs, RunStep(f) \/ RunFails(f) PROVE Servable'
  BY <1>5, ServableRun
<1>6. ASSUME NEW r \in Requests, Request(r) PROVE Servable'
  BY <1>6, ServableRequest
<1>7. CASE UNCHANGED vars
  BY <1>7, ServableRows DEF vars, Servable, OnAir
<1> QED BY <1>1, <1>2, <1>3, <1>4, <1>5, <1>6, <1>7 DEF Next

(* An ad a slot is given was on delivery since the refresh before the      *)
(* request, or while the request ran (DBInfoFresh.java:156).               *)
THEOREM AnswersWereServable == Spec => []AnswerWasServable
<1>1. Servable => AnswerWasServable
  BY DEF Servable, RequestShape, AnswerWasServable
<1> QED BY <1>1, ServableInit, ServableStep, PTL DEF Spec

-----------------------------------------------------------------------------
(* While refreshes run, an ad that nobody has touched is in the map as its *)
(* row is or not at all, no refresh has read anything else of it, and if   *)
(* it is on delivery and missing, a refresh that will put it is under way. *)
Wanted(a) == IF on[a] THEN Row(a) ELSE Vacant

Holds(run, a) == run.pc = "put" /\ run.ad = a
WillPut(run, a) == run.pc = "list" \/ a \in run.todo \/ Holds(run, a)

ReadTrue(run, a) ==
  /\ a \in run.todo => on[a]
  /\ Holds(run, a) => on[a] /\ run.links = links[a]

CalmAd(a) ==
  /\ At(a, "idle") /\ plans[a] \in {Vacant, Wanted(a)}
  /\ \A f \in Runs : ReadTrue(runs[f], a)
  /\ ~disturbed /\ on[a] =>
       plans[a] = Row(a) \/ \E f \in Runs : WillPut(runs[f], a)

Shape ==
  /\ calm \subseteq Ads
  /\ DOMAIN on = Ads /\ DOMAIN links = Ads /\ DOMAIN freq = Ads
  /\ DOMAIN edits = Ads /\ DOMAIN plans = Ads /\ DOMAIN runs = Runs
  /\ \A f \in Runs :
       /\ DOMAIN runs[f] = {"pc", "todo", "ad", "links"}
       /\ Idle(f) => runs[f].todo = {}

Faithful == Shape /\ \A a \in calm : CalmAd(a)

LEMMA FaithfulInit == Init => Faithful
<1> SUFFICES ASSUME Init PROVE Faithful
  OBVIOUS
<1>1. Shape
  BY DEF Init, Shape, NoRun, Idle
<1>2. ASSUME NEW a \in calm PROVE CalmAd(a)
  <2>1. At(a, "idle") /\ plans[a] = Wanted(a)
    BY DEF Init, At, NoEdit, Wanted
  <2>2. \A f \in Runs : ReadTrue(runs[f], a)
    BY DEF Init, NoRun, ReadTrue, Holds
  <2> QED BY <2>1, <2>2 DEF CalmAd, Wanted
<1> QED BY <1>1, <1>2 DEF Faithful

LEMMA FaithfulAtRest == Faithful => RefreshIsFaithful
<1> SUFFICES ASSUME Faithful, AtRest, ~disturbed, NEW a \in calm
             PROVE  plans[a] = Wanted(a)
  BY DEF RefreshIsFaithful, Wanted
<1>1. CalmAd(a)
  BY DEF Faithful
<1>2. ASSUME NEW f \in Runs PROVE ~WillPut(runs[f], a)
  <2>1. runs[f].pc = "idle" /\ runs[f].todo = {}
    BY DEF AtRest, Idle, Faithful, Shape
  <2> QED BY <2>1 DEF WillPut, Holds
<1> QED BY <1>1, <1>2 DEF CalmAd, Wanted

(* A step that touches the rows of one ad only, and that ad is not calm.   *)
LEMMA FaithfulRows ==
  ASSUME Faithful, NEW b \in Ads, b \notin calm', calm' \subseteq calm,
         UNCHANGED <<plans, runs, disturbed>>,
         DOMAIN on' = Ads, DOMAIN links' = Ads, DOMAIN freq' = Ads,
         DOMAIN edits' = Ads,
         \A a \in Ads \ {b} :
           /\ on'[a] = on[a] /\ links'[a] = links[a]
           /\ freq'[a] = freq[a] /\ edits'[a] = edits[a]
  PROVE  Faithful'
<1>1. Shape'
  BY DEF Faithful, Shape, Idle
<1>2. ASSUME NEW a \in calm' PROVE CalmAd(a)'
  <2>1. CalmAd(a) /\ a \in Ads \ {b}
    BY DEF Faithful, Shape
  <2>2. /\ on'[a] = on[a] /\ links'[a] = links[a] /\ freq'[a] = freq[a]
        /\ edits'[a] = edits[a]
    BY <2>1
  <2> QED
    BY <2>1, <2>2 DEF CalmAd, At, Wanted, Row, ReadTrue, Holds, WillPut
<1> QED BY <1>1, <1>2 DEF Faithful

LEMMA FaithfulSwitch ==
  ASSUME Faithful, NEW a \in Ads, Switch(a) PROVE Faithful'
<1>1. /\ UNCHANGED <<plans, runs, disturbed, links, freq, edits>>
      /\ calm' = calm \ {a} /\ on' = [on EXCEPT ![a] = ~on[a]]
  BY DEF Switch
<1>2. /\ DOMAIN on = Ads /\ DOMAIN links = Ads /\ DOMAIN freq = Ads
      /\ DOMAIN edits = Ads
  BY DEF Faithful, Shape
<1> QED BY <1>1, <1>2, FaithfulRows

LEMMA FaithfulEditStep ==
  ASSUME Faithful, NEW a \in Ads,
         \/ EditStep(a) \/ EditFails(a)
         \/ \E c \in SUBSET Materials \ {{}} : EditAdPlan(a, c)
  PROVE  Faithful'
<1>1. /\ DOMAIN on = Ads /\ DOMAIN links = Ads /\ DOMAIN freq = Ads
      /\ DOMAIN edits = Ads /\ \A b \in calm : At(b, "idle")
  BY DEF Faithful, Shape, CalmAd
<1>2. UNCHANGED <<plans, runs, disturbed>> /\ calm' \subseteq calm
  BY DEF EditStep, EditFails, EditAdPlan, histVars
<1>3. a \notin calm'
  BY <1>1 DEF EditStep, EditFails, EditBreaks, EditAdPlan, histVars, At,
    DelAdMaterialLinks, DelAdTimeFrequency, AddPlanMaterial,
    AddPlanStrategy, ResetStatus
<1>4. DOMAIN on' = Ads /\ \A b \in Ads \ {a} : on'[b] = on[b]
  BY <1>1 DEF EditStep, EditFails, EditBreaks, EditAdPlan, rowVars,
    DelAdMaterialLinks, DelAdTimeFrequency, AddPlanMaterial,
    AddPlanStrategy, ResetStatus
<1>5. DOMAIN links' = Ads /\ \A b \in Ads \ {a} : links'[b] = links[b]
  BY <1>1 DEF EditStep, EditFails, EditBreaks, EditAdPlan, rowVars,
    DelAdMaterialLinks, DelAdTimeFrequency, AddPlanMaterial,
    AddPlanStrategy, ResetStatus
<1>6. DOMAIN freq' = Ads /\ \A b \in Ads \ {a} : freq'[b] = freq[b]
  BY <1>1 DEF EditStep, EditFails, EditBreaks, EditAdPlan, rowVars,
    DelAdMaterialLinks, DelAdTimeFrequency, AddPlanMaterial,
    AddPlanStrategy, ResetStatus
<1>7. DOMAIN edits' = Ads /\ \A b \in Ads \ {a} : edits'[b] = edits[b]
  BY <1>1 DEF EditStep, EditFails, EditBreaks, EditAdPlan, GoTo,
    DelAdMaterialLinks, DelAdTimeFrequency, AddPlanMaterial,
    AddPlanStrategy, ResetStatus
<1> QED BY <1>2, <1>3, <1>4, <1>5, <1>6, <1>7, FaithfulRows

LEMMA FaithfulStart ==
  ASSUME Faithful, NEW f \in Runs, StartRun(f) PROVE Faithful'
<1>1. /\ plans' = [a \in Ads |-> Vacant] /\ Idle(f)
      /\ UNCHANGED <<on, links, freq, edits>>
      /\ runs' = [runs EXCEPT ![f].pc = "list"]
      /\ IF AtRest THEN calm' = {a \in Ads : At(a, "idle")}
                   ELSE calm' = calm
  BY DEF StartRun, Begin, rowVars, histVars
<1>2. Shape'
  BY <1>1 DEF Faithful, Shape, Idle
<1>3. ASSUME NEW a \in calm' PROVE CalmAd(a)'
  <2>1. At(a, "idle")'
    BY <1>1 DEF Faithful, CalmAd, At
  <2>2. plans'[a] = Vacant
    BY <1>1, <1>2 DEF Shape
  <2>3. ASSUME NEW g \in Runs PROVE ReadTrue(runs[g], a)'
    <3>1. CASE AtRest
      BY <3>1, <1>1 DEF AtRest, Idle, Faithful, Shape, ReadTrue, Holds
    <3>2. CASE ~AtRest
      BY <3>2, <1>1 DEF Idle, Faithful, Shape, CalmAd, ReadTrue, Holds
    <3> QED BY <3>1, <3>2
  <2>4. WillPut(runs[f], a)'
    BY <1>1 DEF WillPut, Faithful, Shape
  <2> QED BY <2>1, <2>2, <2>3, <2>4 DEF CalmAd
<1> QED BY <1>2, <1>3 DEF Faithful

LEMMA FaithfulRun ==
  ASSUME Faithful, NEW f \in Runs, RunStep(f) \/ RunFails(f)
  PROVE  Faithful'
<1>1. UNCHANGED <<on, links, freq, edits, calm>>
  BY DEF RunStep, RunFails, ListAds, List, ReadPlan, PutPlan, rowVars,
         histVars
<1>2. DOMAIN runs[f] = {"pc", "todo", "ad", "links"} /\ DOMAIN runs = Runs
  BY DEF Faithful, Shape
<1>3. CASE ListAds(f)
  <2>1. UNCHANGED <<plans, disturbed>> /\ runs[f].pc = "list"
    BY <1>3 DEF ListAds, List, histVars
  <2>2. \/ runs' = [runs EXCEPT ![f].pc = "read", ![f].todo = OnAir]
        \/ OnAir = {} /\ runs' = [runs EXCEPT ![f] = NoRun]
    BY <1>3 DEF ListAds, List
  <2>3. Shape'
    BY <2>1, <2>2, <1>1 DEF Faithful, Shape, Idle, NoRun
  <2>4. ASSUME NEW a \in calm' PROVE CalmAd(a)'
    <3>1. CalmAd(a) /\ a \in Ads
      BY <1>1 DEF Faithful, Shape
    <3>2. \A g \in Runs : ReadTrue(runs[g], a)'
      BY <3>1, <2>2, <1>1, <1>2 DEF CalmAd, ReadTrue, Holds, NoRun, OnAir
    <3>3. on[a] => WillPut(runs[f], a)'
      BY <3>1, <2>2, <1>2 DEF WillPut, OnAir
    <3> QED BY <3>1, <3>2, <3>3, <2>1, <1>1 DEF CalmAd, At, Wanted, Row
  <2> QED BY <2>3, <2>4 DEF Faithful
<1>4. CASE ReadPlan(f)
  <2>1. UNCHANGED <<plans, disturbed>>
    BY <1>4 DEF ReadPlan, histVars
  <2>2. PICK b \in runs[f].todo :
          /\ runs[f].pc = "read"
          /\ runs' = [runs EXCEPT ![f] =
               [pc |-> "put", todo |-> runs[f].todo \ {b}, ad |-> b,
                links |-> links[b]]]
    BY <1>4, <1>2 DEF ReadPlan
  <2>3. Shape'
    BY <2>1, <2>2, <1>1 DEF Faithful, Shape, Idle
  <2>4. ASSUME NEW a \in calm' PROVE CalmAd(a)'
    <3>1. CalmAd(a)
      BY <1>1 DEF Faithful
    <3>2. \A g \in Runs : ReadTrue(runs[g], a)'
      BY <3>1, <2>2, <1>1, <1>2 DEF CalmAd, ReadTrue, Holds
    <3>3. \A g \in Runs : WillPut(runs[g], a) => WillPut(runs[g], a)'
      BY <2>2, <1>2 DEF WillPut, Holds
    <3> QED BY <3>1, <3>2, <3>3, <2>1, <1>1 DEF CalmAd, At, Wanted, Row
  <2> QED BY <2>3, <2>4 DEF Faithful
<1>5. CASE PutPlan(f)
  <2> DEFINE b == runs[f].ad
  <2>1. /\ runs[f].pc = "put"
        /\ runs' = [runs EXCEPT ![f] = IF runs[f].todo = {} THEN NoRun ELSE
                      [NoRun EXCEPT !.pc = "read", !.todo = runs[f].todo]]
    BY <1>5 DEF PutPlan
  <2>2. runs'[f].todo = runs[f].todo /\ ~Holds(runs'[f], b)
    BY <2>1, <1>2 DEF NoRun, Holds
  <2>3. \/ /\ plans' = [plans EXCEPT ![b] =
                          [links |-> runs[f].links, freq |-> freq[b]]]
           /\ UNCHANGED disturbed
        \/ disturbed' = TRUE /\ UNCHANGED plans
    BY <1>5 DEF PutPlan
  <2>4. Shape'
    BY <2>1, <2>3, <1>1 DEF Faithful, Shape, Idle, NoRun
  <2>5. ASSUME NEW a \in calm' PROVE CalmAd(a)'
    <3>1. CalmAd(a) /\ a \in Ads /\ a \in DOMAIN plans
      BY <1>1 DEF Faithful, Shape
    <3>2. \A g \in Runs : ReadTrue(runs[g], a)'
      BY <3>1, <2>1, <1>1, <1>2 DEF CalmAd, ReadTrue, Holds, NoRun
    <3>3. CASE disturbed' = TRUE /\ UNCHANGED plans
      BY <3>1, <3>2, <3>3, <1>1 DEF CalmAd, At, Wanted, Row
    <3>4. CASE /\ plans' = [plans EXCEPT ![b] =
                              [links |-> runs[f].links, freq |-> freq[b]]]
               /\ UNCHANGED disturbed
      <4>1. CASE a = b
        <5>1. on[a] /\ runs[f].links = links[a]
          BY <3>1, <4>1, <2>1 DEF CalmAd, ReadTrue, Holds
        <5>2. plans'[a] = Row(a)
          BY <5>1, <3>1, <3>4, <4>1 DEF Row
        <5> QED
          BY <5>1, <5>2, <3>1, <3>2, <1>1 DEF CalmAd, At, Wanted, Row
      <4>2. CASE a # b
        <5>1. plans'[a] = plans[a]
          BY <3>4, <4>2, <3>1
        <5>2. \A g \in Runs : WillPut(runs[g], a) => WillPut(runs[g], a)'
          BY <4>2, <2>1, <2>2, <1>2 DEF WillPut, Holds
        <5> QED
          BY <5>1, <5>2, <3>1, <3>2, <3>4, <1>1
             DEF CalmAd, At, Wanted, Row
      <4> QED BY <4>1, <4>2
    <3> QED BY <2>3, <3>3, <3>4
  <2> QED BY <2>4, <2>5 DEF Faithful
<1>6. CASE RunFails(f)
  <2>1. /\ runs' = [runs EXCEPT ![f] = NoRun] /\ disturbed' = TRUE
        /\ plans' = plans
    BY <1>6 DEF RunFails
  <2>2. Shape'
    BY <2>1, <1>1 DEF Faithful, Shape, Idle, NoRun
  <2>3. ASSUME NEW a \in calm' PROVE CalmAd(a)'
    <3>1. CalmAd(a)
      BY <1>1 DEF Faithful
    <3>2. \A g \in Runs : ReadTrue(runs[g], a)'
      BY <3>1, <2>1, <1>1, <1>2 DEF CalmAd, ReadTrue, Holds, NoRun
    <3> QED BY <3>1, <3>2, <2>1, <1>1 DEF CalmAd, At, Wanted, Row
  <2> QED BY <2>2, <2>3 DEF Faithful
<1> QED BY <1>3, <1>4, <1>5, <1>6 DEF RunStep

LEMMA FaithfulStep ==
  Edited \subseteq Ads /\ Faithful /\ [Next]_vars => Faithful'
<1> SUFFICES ASSUME Edited \subseteq Ads, Faithful, [Next]_vars
             PROVE  Faithful'
  OBVIOUS
<1>1. ASSUME NEW a \in Ads, Switch(a) PROVE Faithful'
  BY <1>1, FaithfulSwitch
<1>2. ASSUME NEW a \in Edited,
             \/ EditStep(a) \/ EditFails(a)
             \/ \E c \in SUBSET Materials \ {{}} : EditAdPlan(a, c)
      PROVE  Faithful'
  BY <1>2, a \in Ads, FaithfulEditStep
<1>3. ASSUME NEW f \in Runs, StartRun(f) PROVE Faithful'
  BY <1>3, FaithfulStart
<1>4. ASSUME NEW f \in Runs, RunStep(f) \/ RunFails(f) PROVE Faithful'
  BY <1>4, FaithfulRun
<1>5. ASSUME UNCHANGED <<on, links, freq, edits, plans, runs, histVars>>
      PROVE  Faithful'
  BY <1>5 DEF histVars, Faithful, Shape, Idle, CalmAd, At, Wanted, Row,
              ReadTrue, Holds, WillPut
<1>6. ASSUME NEW r \in Requests, Request(r) PROVE Faithful'
  BY <1>6, <1>5 DEF Request, rowVars
<1>7. CASE UNCHANGED vars
  BY <1>7, <1>5 DEF vars, histVars
<1> QED BY <1>1, <1>2, <1>3, <1>4, <1>6, <1>7 DEF Next

(* Between refreshes the map has the ads on delivery and no others, with   *)
(* their rows, for any number of refreshes that overlap, unless one has    *)
(* failed or lost an entry (DBInfoFresh.java:152).                         *)
THEOREM RefreshesAreFaithful == Spec => []RefreshIsFaithful
<1>1. Edited \subseteq Ads
  BY ServingAssumption
<1> QED BY <1>1, FaithfulInit, FaithfulAtRest, FaithfulStep, PTL DEF Spec

-----------------------------------------------------------------------------
(* The types of the rows and edits, of the map with its refreshes and of   *)
(* the requests, each with the steps that change it.                       *)
EditTypes == [pc : {"idle", "unlink", "unplan", "link", "plan", "reset"},
              todo : SUBSET Materials]
RunTypes == [pc : {"idle", "list", "read", "put"}, todo : SUBSET Ads,
             ad : Ads \cup {NoAd}, links : SUBSET Materials]
RequestTypes == [pc : {"idle", "scan", "pick"}, todo : SUBSET Ads,
                 found : SUBSET Pairs, moved : BOOLEAN, was : SUBSET Ads,
                 ad : Ads \cup {NoAd}]

RowsOK ==
  /\ on \in [Ads -> BOOLEAN] /\ freq \in [Ads -> BOOLEAN]
  /\ links \in [Ads -> SUBSET Materials] /\ edits \in [Ads -> EditTypes]
  /\ wasOn \subseteq Ads /\ calm \subseteq Ads

RunOK(run) ==
  /\ run \in RunTypes
  /\ (run.pc = "put") = (run.ad # NoAd)
  /\ run.pc = "read" => run.todo # {}

MapOK ==
  /\ plans \in [Ads -> Plans \cup {Vacant}] /\ disturbed \in BOOLEAN
  /\ runs \in [Runs -> RunTypes] /\ \A f \in Runs : RunOK(runs[f])

RequestsOK == requests \in [Requests -> RequestTypes]

LEMMA RowsOKInit == Init => RowsOK
BY DEF Init, RowsOK, EditTypes, NoEdit, OnAir

LEMMA MapOKInit == Init => MapOK
<1> SUFFICES ASSUME Init PROVE MapOK
  OBVIOUS
<1>1. RunOK(NoRun)
  BY DEF RunOK, NoRun, RunTypes
<1>2. \A a \in Ads : Row(a) \in Plans
  BY DEF Init, Row, Plans
<1>3. plans \in [Ads -> Plans \cup {Vacant}]
  BY <1>2 DEF Init
<1>4. runs \in [Runs -> RunTypes] /\ \A f \in Runs : RunOK(runs[f])
  BY <1>1 DEF Init, RunOK
<1>5. disturbed \in BOOLEAN
  BY DEF Init
<1> QED BY <1>3, <1>4, <1>5 DEF MapOK

LEMMA RequestsOKInit == Init => RequestsOK
BY DEF Init, RequestsOK, RequestTypes, NoRequest

LEMMA RowsOKEdit ==
  ASSUME RowsOK, NEW a \in Ads,
         \/ EditStep(a) \/ EditFails(a)
         \/ \E c \in SUBSET Materials \ {{}} : EditAdPlan(a, c)
  PROVE  RowsOK'
<1> DEFINE Pcs == {"idle", "unlink", "unplan", "link", "plan", "reset"}
<1>1. ASSUME NEW pc \in Pcs, NEW todo \in SUBSET Materials, GoTo(a, pc, todo)
      PROVE  edits' \in [Ads -> EditTypes]
  <2>1. [edits[a] EXCEPT !.pc = pc, !.todo = todo] \in EditTypes
    BY DEF RowsOK, EditTypes
  <2>2. edits' = [edits EXCEPT ![a] = [edits[a] EXCEPT !.pc = pc,
                                                       !.todo = todo]]
    BY <1>1 DEF GoTo, RowsOK, EditTypes
  <2> QED BY <2>1, <2>2 DEF RowsOK
<1>2. NoEdit \in EditTypes
  BY DEF NoEdit, EditTypes
<1>3. edits[a].todo \in SUBSET Materials
  BY DEF RowsOK, EditTypes
<1>4. CASE EditFails(a)
  BY <1>2, <1>4 DEF EditFails, EditBreaks, RowsOK, rowVars, histVars
<1>5. ASSUME NEW c \in SUBSET Materials \ {{}}, EditAdPlan(a, c)
      PROVE  RowsOK'
  BY <1>1, <1>5 DEF EditAdPlan, RowsOK, rowVars
<1>6. CASE EditStep(a)
  <2> USE DEF EditStep, histVars, RowsOK
  <2>1. CASE DelAdMaterialLinks(a)
    BY <1>1, <1>3, <1>6, <2>1 DEF DelAdMaterialLinks
  <2>2. CASE DelAdTimeFrequency(a)
    BY <1>1, <1>3, <1>6, <2>2 DEF DelAdTimeFrequency
  <2>3. CASE AddPlanMaterial(a)
    <3>1. PICK m \in edits[a].todo :
            /\ links' = [links EXCEPT ![a] = @ \cup {m}]
            /\ GoTo(a, IF edits[a].todo \ {m} = {} THEN "plan" ELSE "link",
                    edits[a].todo \ {m})
            /\ UNCHANGED <<on, freq>>
      BY <2>3 DEF AddPlanMaterial
    <3>2. edits' \in [Ads -> EditTypes]
      BY <1>1, <1>3, <3>1
    <3> QED BY <1>3, <1>6, <3>1, <3>2
  <2>4. CASE AddPlanStrategy(a)
    BY <1>1, <1>6, <2>4 DEF AddPlanStrategy
  <2>5. CASE ResetStatus(a)
    BY <1>2, <1>6, <2>5 DEF ResetStatus
  <2> QED BY <1>6, <2>1, <2>2, <2>3, <2>4, <2>5
<1> QED BY <1>4, <1>5, <1>6

LEMMA MapOKRun ==
  ASSUME RowsOK, MapOK, NEW f \in Runs, StartRun(f) \/ RunStep(f) \/ RunFails(f)
  PROVE  MapOK'
<1> USE DEF MapOK
<1>1. RunOK(NoRun)
  BY DEF RunOK, NoRun, RunTypes
<1>2. ASSUME NEW run, RunOK(run), runs' = [runs EXCEPT ![f] = run]
      PROVE  runs' \in [Runs -> RunTypes] /\ \A g \in Runs : RunOK(runs'[g])
  BY <1>2 DEF RunOK
<1>3. runs[f] \in RunTypes /\ RunOK(runs[f])
  OBVIOUS
<1>4. CASE StartRun(f)
  <2>1. RunOK([runs[f] EXCEPT !.pc = "list"])
    BY <1>3, <1>4 DEF StartRun, Begin, Idle, RunOK, RunTypes
  <2>2. runs' = [runs EXCEPT ![f] = [runs[f] EXCEPT !.pc = "list"]]
    BY <1>3, <1>4 DEF StartRun, Begin, RunTypes
  <2> QED BY <1>2, <1>4, <2>1, <2>2 DEF StartRun, Begin, histVars
<1>5. CASE ListAds(f)
  <2>1. CASE OnAir # {} /\ List(f, OnAir)
    <3>1. RunOK([runs[f] EXCEPT !.pc = "read", !.todo = OnAir])
      BY <1>3, <2>1 DEF List, RunOK, RunTypes, OnAir
    <3>2. runs' = [runs EXCEPT ![f] =
                     [runs[f] EXCEPT !.pc = "read", !.todo = OnAir]]
      BY <1>3, <2>1 DEF List, RunTypes
    <3> QED BY <1>2, <2>1, <3>1, <3>2 DEF List, histVars
  <2>2. CASE runs' = [runs EXCEPT ![f] = NoRun] /\ UNCHANGED <<plans, histVars>>
    BY <1>1, <1>2, <2>2 DEF histVars
  <2> QED BY <1>5, <2>1, <2>2 DEF ListAds
<1>6. CASE ReadPlan(f)
  <2>1. PICK a \in runs[f].todo :
          runs' = [runs EXCEPT ![f] = [pc |-> "put", todo |-> @.todo \ {a},
                                       ad |-> a, links |-> links[a]]]
    BY <1>6 DEF ReadPlan
  <2>2. a \in Ads /\ runs[f].todo \in SUBSET Ads
    BY <1>3 DEF RunTypes
  <2>3. RunOK([pc |-> "put", todo |-> runs[f].todo \ {a}, ad |-> a,
               links |-> links[a]])
    BY <2>2, ServingAssumption DEF RunOK, RunTypes, RowsOK
  <2> QED BY <1>2, <1>6, <2>1, <2>3 DEF ReadPlan, histVars
<1>7. CASE PutPlan(f)
  <2> DEFINE run == runs[f]
             next == IF run.todo = {} THEN NoRun ELSE
                       [NoRun EXCEPT !.pc = "read", !.todo = run.todo]
  <2>1. RunOK(next)
    BY <1>1, <1>3 DEF RunOK, NoRun, RunTypes
  <2>2. /\ runs' \in [Runs -> RunTypes] /\ \A g \in Runs : RunOK(runs'[g])
    BY <1>2, <1>7, <2>1 DEF PutPlan
  <2>3. run.ad \in Ads /\ run.links \in SUBSET Materials
    BY <1>3, <1>7 DEF PutPlan, RunOK, RunTypes
  <2>4. [links |-> run.links, freq |-> freq[run.ad]] \in Plans
    BY <2>3 DEF Plans, RowsOK
  <2>5. plans' \in [Ads -> Plans \cup {Vacant}] /\ disturbed' \in BOOLEAN
    BY <1>7, <2>4 DEF PutPlan
  <2> QED BY <2>2, <2>5
<1>8. CASE RunFails(f)
  BY <1>1, <1>2, <1>8 DEF RunFails
<1> QED BY <1>4, <1>5, <1>6, <1>7, <1>8 DEF RunStep

LEMMA RequestsOKMove ==
  ASSUME RequestsOK, NEW new \in SUBSET Ads, Move(new) \/ Remember(new)
  PROVE  RequestsOK'
<1>1. \A q \in RequestTypes :
        /\ [q EXCEPT !.moved = TRUE, !.todo = @ \cup new] \in RequestTypes
        /\ [q EXCEPT !.was = @ \cup new] \in RequestTypes
  BY DEF RequestTypes
<1>2. \A r \in Requests : requests[r] \in RequestTypes
  BY DEF RequestsOK
<1> HIDE DEF RequestTypes
<1>3. CASE Move(new)
  BY <1>1, <1>2, <1>3 DEF Move, RequestsOK
<1>4. CASE Remember(new)
  BY <1>1, <1>2, <1>4 DEF Remember, RequestsOK
<1> QED BY <1>3, <1>4

LEMMA RequestsOKRequest ==
  ASSUME RowsOK, RequestsOK, NEW r \in Requests, Request(r)
  PROVE  RequestsOK'
<1> DEFINE q == requests[r]
<1>1. q \in RequestTypes
  BY DEF RequestsOK
<1>2. SUFFICES ASSUME NEW new \in RequestTypes,
                      requests' = [requests EXCEPT ![r] = new]
               PROVE  RequestsOK'
  <2>1. ASSUME NEW a \in Ads \cup {NoAd}, Answer(r, a) PROVE RequestsOK'
    <3>1. [NoRequest EXCEPT !.ad = a, !.was = IF a = NoAd THEN {} ELSE q.was]
            \in RequestTypes
      BY <1>1 DEF RequestTypes, NoRequest
    <3> QED BY <2>1, <3>1, <1>2 DEF Answer
  <2>2. ASSUME NEW hit, hit.ad \in Ads, Show(r, hit) PROVE RequestsOK'
    BY <2>1, <2>2 DEF Show
  <2>3. \A hit \in q.found : hit.ad \in Ads
    BY <1>1 DEF RequestTypes, Pairs
  <2>4. CASE Ask(r)
    <3>1. [NoRequest EXCEPT !.pc = "scan", !.todo = Keys, !.was = wasOn]
            \in RequestTypes
      BY DEF RequestTypes, NoRequest, Keys, RowsOK
    <3> QED BY <2>4, <3>1, <1>2 DEF Ask
  <2>5. CASE Scan(r)
    <3>1. PICK a \in q.todo :
            \/ requests' = [requests EXCEPT ![r].todo = @ \ {a}]
            \/ requests' = [requests EXCEPT ![r].todo = @ \ {a},
                  ![r].found = @ \cup
                    {[ad |-> a, named |-> plans[a].links # {}]}]
      BY <2>5 DEF Scan
    <3> DEFINE hit == [ad |-> a, named |-> plans[a].links # {}]
    <3>2. hit \in Pairs
      BY <1>1 DEF RequestTypes, Pairs
    <3> HIDE DEF hit
    <3>3. /\ [q EXCEPT !.todo = @ \ {a}] \in RequestTypes
          /\ [q EXCEPT !.todo = @ \ {a}, !.found = @ \cup {hit}]
               \in RequestTypes
      BY <1>1, <3>2 DEF RequestTypes
    <3>4. \/ requests' = [requests EXCEPT ![r] = [q EXCEPT !.todo = @ \ {a}]]
          \/ requests' = [requests EXCEPT ![r] =
                [q EXCEPT !.todo = @ \ {a}, !.found = @ \cup {hit}]]
      BY <1>1, <3>1 DEF RequestTypes, hit
    <3> QED BY <3>3, <3>4, <1>2
  <2>6. CASE ScanBreaks(r)
    BY <2>6, <2>1 DEF ScanBreaks
  <2>7. CASE EndScan(r)
    <3>1. [q EXCEPT !.pc = "pick", !.todo = {}, !.moved = FALSE] \in RequestTypes
      BY <1>1 DEF RequestTypes
    <3> QED BY <2>7, <3>1, <1>2 DEF EndScan
  <2>8. CASE PickTarget(r)
    BY <2>8, <2>2, <2>3 DEF PickTarget
  <2>9. CASE PickSearch(r)
    <3>1. CASE Answer(r, NoAd)
      BY <3>1, <2>1
    <3>2. ASSUME NEW hit \in q.found,
                 Show(r, [hit EXCEPT !.named = plans[hit.ad].links # {}])
          PROVE  RequestsOK'
      <4>1. [hit EXCEPT !.named = plans[hit.ad].links # {}].ad = hit.ad
        OBVIOUS
      <4> QED BY <2>2, <2>3, <3>2, <4>1
    <3> QED BY <2>9, <3>1, <3>2 DEF PickSearch
  <2>10. CASE PickHost(r)
    BY <2>10, <2>1, <2>2, <2>3 DEF PickHost
  <2>11. CASE PickBlind(r)
    BY <2>11, <2>1, <2>2, <2>3 DEF PickBlind
  <2> QED
    BY <2>4, <2>5, <2>6, <2>7, <2>8, <2>9, <2>10, <2>11 DEF Request
<1> QED BY <1>2 DEF RequestsOK

Typed == RowsOK /\ MapOK /\ RequestsOK

LEMMA TypedStep == Typed /\ [Next]_vars => Typed'
<1> SUFFICES ASSUME Typed, [Next]_vars PROVE Typed'
  OBVIOUS
<1> USE DEF Typed
<1>1. ASSUME NEW a \in Ads, Switch(a) PROVE Typed'
  <2> DEFINE now == IF on[a] THEN {} ELSE {a}
  <2>1. now \in SUBSET Ads /\ Remember(now)
    BY <1>1 DEF Switch
  <2>2. RequestsOK'
    BY <2>1, RequestsOKMove
  <2>3. RowsOK' /\ MapOK'
    BY <1>1 DEF Switch, RowsOK, MapOK
  <2> QED BY <2>2, <2>3
<1>2. ASSUME NEW a \in Edited,
             \/ EditStep(a) \/ EditFails(a)
             \/ \E c \in SUBSET Materials \ {{}} : EditAdPlan(a, c)
      PROVE  Typed'
  <2>1. RowsOK'
    BY <1>2, RowsOKEdit, ServingAssumption
  <2>2. UNCHANGED <<plans, runs, requests, disturbed>>
    BY <1>2 DEF EditStep, EditFails, EditAdPlan, histVars
  <2> QED BY <2>1, <2>2 DEF MapOK, RequestsOK
<1>3. ASSUME NEW f \in Runs, StartRun(f) \/ RunStep(f) \/ RunFails(f)
      PROVE  Typed'
  <2>1. MapOK'
    BY <1>3, MapOKRun
  <2>2. RowsOK'
    BY <1>3
    DEF RowsOK, StartRun, Begin, RunStep, ListAds, List, ReadPlan, PutPlan,
        RunFails, rowVars, histVars, OnAir
  <2>3. runs[f].ad \in Ads \/ ~PutPlan(f)
    BY DEF MapOK, RunOK, RunTypes, PutPlan
  <2>4. RequestsOK'
    <3>1. \/ UNCHANGED requests
          \/ Move({})
          \/ runs[f].ad \in Ads /\ Move({runs[f].ad})
      BY <1>3, <2>3
      DEF StartRun, RunStep, ListAds, List, ReadPlan, PutPlan, RunFails
    <3>2. Move({}) => RequestsOK'
      BY RequestsOKMove
    <3>3. runs[f].ad \in Ads /\ Move({runs[f].ad}) => RequestsOK'
      BY RequestsOKMove
    <3> QED BY <3>1, <3>2, <3>3 DEF RequestsOK
  <2> QED BY <2>1, <2>2, <2>4
<1>4. ASSUME NEW r \in Requests, Request(r) PROVE Typed'
  <2>1. RequestsOK'
    BY <1>4, RequestsOKRequest
  <2> QED BY <1>4, <2>1 DEF Request, RowsOK, MapOK, rowVars, histVars
<1>5. CASE UNCHANGED vars
  BY <1>5 DEF vars, RowsOK, MapOK, RequestsOK
<1> QED BY <1>1, <1>2, <1>3, <1>4, <1>5 DEF Next

(* Whatever edits, refreshes and requests overlap or fail, every variable  *)
(* keeps its type: a refresh holds an ad exactly while it is about to put  *)
(* one, and reads on only while there are ads left.                        *)
THEOREM ServingTypeCorrect == Spec => []TypeOK
<1>1. Typed => TypeOK
  BY DEF Typed, RowsOK, MapOK, RunOK, RequestsOK, TypeOK, EditTypes, RunTypes,
         RequestTypes
<1>2. Init => Typed
  BY RowsOKInit, MapOKInit, RequestsOKInit DEF Typed
<1> QED BY <1>1, <1>2, TypedStep, PTL DEF Spec
=============================================================================
