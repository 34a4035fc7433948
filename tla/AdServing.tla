----------------------------- MODULE AdServing -----------------------------
(***************************************************************************)
(* How an ad reaches a slot: the rows admanager keeps of it, the map of    *)
(* AdvPlans sspserver fills from the rows (freshAdvInfo, the one of        *)
(* channel 2), and the requests /c2 and /centerWH that choose from the     *)
(* map.  A refresh, run by a timer and by /reload, clears the map and      *)
(* fills it ad by ad while requests walk over it and edits rewrite the     *)
(* rows one statement at a time.                                           *)
(*                                                                         *)
(* AdReview says who may switch an ad on; here it is switched at any time, *)
(* also while it is edited.  An ad has one edit at a time.                 *)
(* The filters accept or reject a plan as they like.  Of the rows of an ad *)
(* the model has its links to materials and its ad_time_frequency: without *)
(* the first a plan has no size, without the second no request gets past   *)
(* it.  The ads are of link type M.                                        *)
(***************************************************************************)
EXTENDS Naturals, FiniteSets

CONSTANTS
  Ads,        \* the ads of the channel
  Edited,     \* the ads that are edited
  Vizury,     \* VIZURY_ADID
  Materials,
  Runs,       \* executions of freshAdvInfo at a time: "timer" and reloads
  Requests,   \* requests at a time
  Vacant,     \* no entry in the map
  NoAd        \* an answer without an ad: "0", empty, or "1" without a name

ASSUME ServingAssumption ==
  Edited \subseteq Ads /\ Vizury \in Ads /\ NoAd \notin Ads

Plans == [links : SUBSET Materials, freq : BOOLEAN]

ASSUME VacantAssumption == Vacant \notin Plans

VARIABLES
  on,        \* sts = 'A', ad_toufang_sts = '2' and now between the times
  links,     \* ad_m_link: the materials of each ad
  freq,      \* the ad has its row of ad_time_frequency
  edits,     \* how far the edit of each ad is
  plans,     \* advPlanMap2
  runs,      \* how far each refresh is
  requests,  \* how far each request is, and the ad of the last answer
  wasOn,     \* history: ads on at some time since the map was last at rest
  calm,      \* history: ads neither switched nor edited since then
  disturbed  \* history: since then a refresh failed or lost a put

rowVars == <<on, links, freq>>
histVars == <<wasOn, calm, disturbed>>
vars == <<on, links, freq, edits, plans, runs, requests, wasOn, calm,
          disturbed>>

Row(a) == [links |-> links[a], freq |-> freq[a]]
OnAir == {a \in Ads : on[a]}
Keys == {a \in Ads : plans[a] # Vacant}

NoEdit == [pc |-> "idle", todo |-> {}]
NoRun == [pc |-> "idle", todo |-> {}, ad |-> NoAd, links |-> {}]
NoRequest == [pc |-> "idle", todo |-> {}, found |-> {}, moved |-> FALSE,
              was |-> {}, ad |-> NoAd]

(* Requests come once the first refresh is over.                           *)
Init ==
  /\ on \in [Ads -> BOOLEAN] /\ links \in [Ads -> SUBSET Materials \ {{}}]
  /\ freq = [a \in Ads |-> TRUE]
  /\ edits = [a \in Ads |-> NoEdit]
  /\ plans = [a \in Ads |-> IF on[a] THEN Row(a) ELSE Vacant]
  /\ runs = [f \in Runs |-> NoRun]
  /\ requests = [r \in Requests |-> NoRequest]
  /\ wasOn = OnAir /\ calm = Ads /\ disturbed = FALSE

-----------------------------------------------------------------------------
(* The rows.  Switches, verdicts, the nightly end and the passing of the   *)
(* times of the ad.                                                        *)
Remember(ads) ==
  requests' = [r \in Requests |->
    IF requests[r].pc = "idle" THEN requests[r]
    ELSE [requests[r] EXCEPT !.was = @ \cup ads]]

Switch(a) ==
  /\ on' = [on EXCEPT ![a] = ~@]
  /\ LET now == IF on[a] THEN {} ELSE {a}
     IN  wasOn' = wasOn \cup now /\ Remember(now)
  /\ calm' = calm \ {a}
  /\ UNCHANGED <<links, freq, edits, plans, runs, disturbed>>

At(a, pc) == edits[a].pc = pc
GoTo(a, pc, todo) ==
  edits' = [edits EXCEPT ![a].pc = pc, ![a].todo = todo]

(* editAdPlan.                                                             *)
EditAdPlan(a, c) ==
  /\ At(a, "idle") /\ GoTo(a, "unlink", c)
  /\ calm' = calm \ {a}
  /\ UNCHANGED <<rowVars, plans, runs, requests, wasOn, disturbed>>

DelAdMaterialLinks(a) ==
  /\ At(a, "unlink") /\ GoTo(a, "unplan", edits[a].todo)
  /\ links' = [links EXCEPT ![a] = {}]
  /\ UNCHANGED <<on, freq>>

DelAdTimeFrequency(a) ==
  /\ At(a, "unplan") /\ GoTo(a, "link", edits[a].todo)
  /\ freq' = [freq EXCEPT ![a] = FALSE]
  /\ UNCHANGED <<on, links>>

AddPlanMaterial(a) == \E m \in edits[a].todo :
  /\ At(a, "link")
  /\ links' = [links EXCEPT ![a] = @ \cup {m}]
  /\ LET rest == edits[a].todo \ {m}
     IN  GoTo(a, IF rest = {} THEN "plan" ELSE "link", rest)
  /\ UNCHANGED <<on, freq>>

AddPlanStrategy(a) ==
  /\ At(a, "plan") /\ GoTo(a, "reset", {})
  /\ freq' = [freq EXCEPT ![a] = TRUE]
  /\ UNCHANGED <<on, links>>

(* An edit that has changed the content takes the ad off (MaterialChange). *)
ResetStatus(a) == \E changed \in BOOLEAN :
  /\ At(a, "reset") /\ edits' = [edits EXCEPT ![a] = NoEdit]
  /\ on' = [on EXCEPT ![a] = @ /\ ~changed]
  /\ UNCHANGED <<links, freq>>

(* A statement fails: no transaction undoes the ones before it.            *)
EditBreaks(a) ==
  /\ ~At(a, "idle") /\ edits' = [edits EXCEPT ![a] = NoEdit]
  /\ UNCHANGED rowVars

EditStep(a) ==
  /\ \/ DelAdMaterialLinks(a) \/ DelAdTimeFrequency(a) \/ AddPlanMaterial(a)
     \/ AddPlanStrategy(a) \/ ResetStatus(a)
  /\ UNCHANGED <<plans, runs, requests, histVars>>

EditFails(a) ==
  EditBreaks(a) /\ UNCHANGED <<plans, runs, requests, histVars>>

-----------------------------------------------------------------------------
(* freshAdvInfo.                                                           *)
Idle(f) == runs[f].pc = "idle"
AtRest == \A f \in Runs : Idle(f)

(* What a walk over the HashMap meets once the map has changed under it.   *)
Move(new) ==
  requests' = [r \in Requests |->
    IF requests[r].pc # "scan" THEN requests[r]
    ELSE [requests[r] EXCEPT !.moved = TRUE, !.todo = @ \cup new]]

Begin(f) ==
  /\ Idle(f) /\ runs' = [runs EXCEPT ![f].pc = "list"]
  /\ IF AtRest
     THEN wasOn' = OnAir /\ disturbed' = FALSE
          /\ calm' = {a \in Ads : At(a, "idle")}
     ELSE UNCHANGED histVars
  /\ UNCHANGED <<rowVars, edits>>

(* Mutant: the map is filled without being cleared.                        *)
KeepMap(f) == Begin(f) /\ UNCHANGED <<plans, requests>>

StartRun(f) ==
  Begin(f) /\ plans' = [a \in Ads |-> Vacant] /\ Move({})

List(f, ads) ==
  /\ runs[f].pc = "list"
  /\ runs' = [runs EXCEPT ![f].pc = "read", ![f].todo = ads]
  /\ UNCHANGED <<rowVars, edits, plans, requests, histVars>>

(* Mutant: ads that are not on delivery are listed too.                    *)
ListAll(f) == List(f, Ads)

(* Mutant: a refresh without ads does not end.                             *)
ListOn(f) == List(f, OnAir)

(* getInstanceByChannel.                                                   *)
ListAds(f) ==
  \/ OnAir # {} /\ List(f, OnAir)
  \/ /\ OnAir = {} /\ runs[f].pc = "list"
     /\ runs' = [runs EXCEPT ![f] = NoRun]
     /\ UNCHANGED <<rowVars, edits, plans, requests, histVars>>

(* getMaterialByAdId; the row of ad_time_frequency is read before the put. *)
ReadPlan(f) == \E a \in runs[f].todo :
  /\ runs[f].pc = "read"
  /\ runs' = [runs EXCEPT ![f] = [pc |-> "put", todo |-> @.todo \ {a},
                                  ad |-> a, links |-> links[a]]]
  /\ UNCHANGED <<rowVars, edits, plans, requests, histVars>>

(* Two threads in one HashMap: the entry of either may be lost.            *)
PutPlan(f) ==
  LET run == runs[f] IN
  /\ run.pc = "put"
  /\ runs' = [runs EXCEPT ![f] = IF run.todo = {} THEN NoRun ELSE
                [NoRun EXCEPT !.pc = "read", !.todo = run.todo]]
  /\ \/ /\ plans' = [plans EXCEPT ![run.ad] =
                       [links |-> run.links, freq |-> freq[run.ad]]]
        /\ Move({run.ad})
        /\ UNCHANGED disturbed
     \/ /\ \E g \in Runs \ {f} : ~Idle(g)
        /\ disturbed' = TRUE
        /\ UNCHANGED <<plans, requests>>
  /\ UNCHANGED <<rowVars, edits, wasOn, calm>>

(* A query throws: the map stays as far as it was filled.                  *)
RunFails(f) ==
  /\ ~Idle(f)
  /\ runs' = [runs EXCEPT ![f] = NoRun]
  /\ disturbed' = TRUE
  /\ UNCHANGED <<rowVars, edits, plans, requests, wasOn, calm>>

RunStep(f) == ListAds(f) \/ ReadPlan(f) \/ PutPlan(f)

-----------------------------------------------------------------------------
(* A request.  It holds the plans it has found, and looks some of them up  *)
(* in the map a second time.                                               *)
Ask(r) ==
  /\ requests[r].pc = "idle"
  /\ requests' = [requests EXCEPT ![r] =
       [NoRequest EXCEPT !.pc = "scan", !.todo = Keys, !.was = wasOn]]

Answer(r, a) ==
  requests' = [requests EXCEPT ![r] =
    [NoRequest EXCEPT !.ad = a, !.was = IF a = NoAd THEN {}
                                        ELSE requests[r].was]]

Limited(a) == plans[a] # Vacant /\ plans[a].freq

(* The filters accept the plan, or they or the request reject it.          *)
Scan(r) == \E a \in requests[r].todo :
  /\ requests[r].pc = "scan"
  /\ \/ requests' = [requests EXCEPT ![r].todo = @ \ {a}]
     \/ /\ Limited(a)
        /\ LET hit == [ad |-> a, named |-> plans[a].links # {}]
           IN  requests' = [requests EXCEPT ![r].todo = @ \ {a},
                                            ![r].found = @ \cup {hit}]

(* The plan has no limits, or it is gone, or the iterator has noticed.     *)
ScanBreaks(r) ==
  /\ requests[r].pc = "scan"
  /\ \/ requests[r].moved
     \/ \E a \in requests[r].todo : ~Limited(a)
  /\ Answer(r, NoAd)

EndScan(r) ==
  /\ requests[r].pc = "scan"
  /\ requests[r].todo = {} \/ requests[r].moved
  /\ requests' = [requests EXCEPT ![r] =
       [@ EXCEPT !.pc = "pick", !.todo = {}, !.moved = FALSE]]

Show(r, hit) == Answer(r, IF hit.named THEN hit.ad ELSE NoAd)

(* Ads aimed at the account, the page or the address of the user.          *)
PickTarget(r) == \E hit \in requests[r].found :
  requests[r].pc = "pick" /\ Show(r, hit)

(* An ad for what the user has just searched: its id is looked up again.   *)
(* A search at Baidu for which there is none ends with an exception.       *)
PickSearch(r) ==
  /\ requests[r].pc = "pick"
  /\ \/ \E hit \in requests[r].found :
          /\ plans[hit.ad] # Vacant
          /\ Show(r, [hit EXCEPT !.named = plans[hit.ad].links # {}])
     \/ Answer(r, NoAd)

(* processVizury looks Vizury's plan up again for its size.                *)
AsksVizury(found) == \E hit \in found : hit.ad = Vizury
Sized(a) == plans[a] # Vacant /\ plans[a].links # {}

PickHost(r) == \E hit \in requests[r].found :
  /\ requests[r].pc = "pick"
  /\ IF AsksVizury(requests[r].found) /\ ~Sized(Vizury)
     THEN Answer(r, NoAd) ELSE Show(r, hit)

(* Ads that are not aimed at anybody; Vizury's is not one of them.         *)
PickBlind(r) == \E blind \in SUBSET requests[r].found :
  LET rest == {hit \in blind : hit.ad # Vizury} IN
  /\ requests[r].pc = "pick"
  /\ \/ /\ rest = {} \/ (AsksVizury(blind) /\ ~Sized(Vizury))
        /\ Answer(r, NoAd)
     \/ /\ AsksVizury(blind) => Sized(Vizury)
        /\ \E hit \in rest : Show(r, hit)

Request(r) ==
  /\ \/ Ask(r) \/ Scan(r) \/ ScanBreaks(r) \/ EndScan(r)
     \/ PickTarget(r) \/ PickSearch(r) \/ PickHost(r) \/ PickBlind(r)
  /\ UNCHANGED <<rowVars, edits, plans, runs, histVars>>

-----------------------------------------------------------------------------
Next ==
  \/ \E a \in Ads : Switch(a)
  \/ \E a \in Edited : EditStep(a) \/ EditFails(a)
  \/ \E a \in Edited, c \in SUBSET Materials \ {{}} : EditAdPlan(a, c)
  \/ \E f \in Runs : StartRun(f) \/ RunStep(f) \/ RunFails(f)
  \/ \E r \in Requests : Request(r)

Spec == Init /\ [][Next]_vars

-----------------------------------------------------------------------------
Pairs == [ad : Ads, named : BOOLEAN]

TypeOK ==
  /\ on \in [Ads -> BOOLEAN] /\ freq \in [Ads -> BOOLEAN]
  /\ links \in [Ads -> SUBSET Materials]
  /\ edits \in [Ads -> [pc : {"idle", "unlink", "unplan", "link", "plan",
                              "reset"},
                        todo : SUBSET Materials]]
  /\ plans \in [Ads -> Plans \cup {Vacant}]
  /\ runs \in [Runs -> [pc : {"idle", "list", "read", "put"},
                        todo : SUBSET Ads, ad : Ads \cup {NoAd},
                        links : SUBSET Materials]]
  /\ requests \in [Requests -> [pc : {"idle", "scan", "pick"},
                                todo : SUBSET Ads, found : SUBSET Pairs,
                                moved : BOOLEAN, was : SUBSET Ads,
                                ad : Ads \cup {NoAd}]]
  /\ wasOn \subseteq Ads /\ calm \subseteq Ads /\ disturbed \in BOOLEAN
  /\ \A f \in Runs :
       /\ (runs[f].pc = "put") = (runs[f].ad # NoAd)
       /\ (runs[f].pc = "read") => (runs[f].todo # {})

(* An ad a slot is given was on delivery at some time since the refresh    *)
(* before the request began, or while the request ran: however refreshes   *)
(* and requests overlap, no ad that left delivery before comes back        *)
(* (DBInfoFresh.java:156, AdRetrievalCommonServiceImpl.java:931).          *)
AnswerWasServable == \A r \in Requests :
  requests[r].ad # NoAd => requests[r].ad \in requests[r].was

(* When no refresh runs, the map has the ads on delivery and no others,    *)
(* with their rows: those that neither a switch nor an edit has touched    *)
(* since the map was last at rest.  It holds for refreshes that overlap,   *)
(* unless one has failed or lost an entry (DBInfoFresh.java:156).          *)
RefreshIsFaithful ==
  AtRest /\ ~disturbed =>
    \A a \in calm : plans[a] = IF on[a] THEN Row(a) ELSE Vacant
=============================================================================
