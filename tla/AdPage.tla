------------------------------- MODULE AdPage -------------------------------
(***************************************************************************)
(* The page of an ad, which the adserver answers a frame of a slot with:   *)
(* its script asks /ad/pvneed whether the page view counts and if so sends *)
(* the page view and from then on the clicks.  /ad/pvneed takes the key of *)
(* the impression, and refuses a second page view of the same user, ad and *)
(* page within a minute.                                                   *)
(*                                                                         *)
(* adPage.jsp includes vldsp_4sh.js; initstat_4sh.js is the same script    *)
(* without the input isHaveNHTStat, which adPage.jsp does not have.  All   *)
(* views are of one user, one ad and one page, and that page is known.     *)
(***************************************************************************)
EXTENDS Naturals, FiniteSets

CONSTANTS
  Views,           \* page views with a slot
  StatScripts,     \* subset of {"vldsp", "initstat"}
  WhiteLists,      \* subset of BOOLEAN: the user's address is white-listed
  OneAtATime,      \* TRUE: no two frequency checks at a time
  MaxClicks        \* bound: clicks on an ad

ASSUME PageAssumption ==
  /\ StatScripts \subseteq {"vldsp", "initstat"}
  /\ WhiteLists \subseteq BOOLEAN
  /\ OneAtATime \in BOOLEAN /\ MaxClicks \in Nat

VARIABLES
  statScript,   \* the script the page includes
  white,        \* isPutStatCode: the page starts vlstat_4sh.js by itself
  page,         \* how far the page of each view is
  uuids,        \* the views whose imp_uuid is in Redis
  ask,          \* how far the server is with /ad/pvneed of each view
  freq,         \* the frequency key: "absent", "set" or "expiring"
  pv,           \* history: the pages that sent the page view, how often
  clicks,       \* history: clicks sent
  minute,       \* history: the views granted since the key was last absent
  failed        \* history: the views whose request a Redis command failed

pageVars == <<statScript, white, page, uuids, ask, freq, pv, clicks,
              minute, failed>>

Init ==
  /\ statScript \in StatScripts /\ white \in WhiteLists
  /\ page = [v \in Views |-> "none"] /\ ask = [v \in Views |-> "none"]
  /\ uuids = {} /\ freq = "absent" /\ minute = {} /\ failed = {}
  /\ pv = [v \in Views |-> 0] /\ clicks = [v \in Views |-> 0]

(* AdMaterialControllor.index, and the statistics of a white-listed user.  *)
LoadPage(v) ==
  /\ page[v] = "none"
  /\ page' = [page EXCEPT ![v] = "loaded"]
  /\ uuids' = uuids \cup {v}
  /\ pv' = IF white THEN [pv EXCEPT ![v] = @ + 1] ELSE pv
  /\ UNCHANGED <<statScript, white, ask, freq, clicks, minute, failed>>


(* The script at the end of the page.  vldsp_4sh.js fails at its line 4.   *)
(* The request is synchronous: the page waits for the answer.              *)
RunScript(v) ==
  /\ page[v] = "loaded"
  /\ IF statScript = "vldsp"
     THEN page' = [page EXCEPT ![v] = "failed"] /\ UNCHANGED ask
     ELSE /\ page' = [page EXCEPT ![v] = "asking"]
          /\ ask' = [ask EXCEPT ![v] = "sent"]
  /\ UNCHANGED <<statScript, white, uuids, freq, pv, clicks, minute, failed>>

-----------------------------------------------------------------------------
(* /ad/pvneed.                                                             *)
Alone(v) == OneAtATime =>
  \A w \in Views : ask[w] \notin {"fresh", "add", "expire"}

(* isNeedExecStatCode: EXISTS and DEL; only the page of the view has its   *)
(* uuid, and it asks once.                                                 *)
CheckUuid(v) ==
  /\ ask[v] = "sent" /\ Alone(v)
  /\ ask' = [ask EXCEPT ![v] = IF v \in uuids THEN "fresh" ELSE "refused"]
  /\ uuids' = uuids \ {v}
  /\ UNCHANGED <<statScript, white, page, freq, pv, clicks, minute, failed>>

(* Mutant: the frequency is not looked at.                                 *)
CheckNothing(v) ==
  /\ ask[v] = "fresh"
  /\ ask' = [ask EXCEPT ![v] = "add"]
  /\ UNCHANGED <<statScript, white, page, uuids, freq, pv, clicks,
                 minute, failed>>

(* getValueByKey,                                                          *)
CheckFreq(v) ==
  /\ ask[v] = "fresh"
  /\ ask' = [ask EXCEPT ![v] = IF freq = "absent" THEN "add" ELSE "refused"]
  /\ UNCHANGED <<statScript, white, page, uuids, freq, pv, clicks,
                 minute, failed>>

Grant(v) ==
  /\ ask' = [ask EXCEPT ![v] = "granted"]
  /\ minute' = minute \cup {v}

(* and add: HSET, which leaves the expiry of a key that has one,           *)
AddKey(v) ==
  /\ ask[v] = "add"
  /\ freq' = IF freq = "absent" THEN "set" ELSE freq
  /\ ask' = [ask EXCEPT ![v] = "expire"]
  /\ UNCHANGED <<statScript, white, page, uuids, pv, clicks, minute, failed>>

(* Mutant: the key is not given an end.                                    *)
ExpireKeyNever(v) ==
  /\ ask[v] = "expire"
  /\ Grant(v)
  /\ UNCHANGED <<statScript, white, page, uuids, freq, pv, clicks, failed>>

(* and EXPIRE.                                                             *)
ExpireKey(v) ==
  /\ ask[v] = "expire"
  /\ freq' = IF freq = "set" THEN "expiring" ELSE freq
  /\ Grant(v)
  /\ UNCHANGED <<statScript, white, page, uuids, pv, clicks, failed>>

(* A command fails.  getValueByKey catches its exception and finds no key, *)
(* add catches its own and the request goes on; isNeedExecStatCode does    *)
(* not, and the request ends with an error.                                *)
RedisError(v) ==
  /\ \/ /\ ask[v] = "fresh"
        /\ ask' = [ask EXCEPT ![v] = "add"] /\ UNCHANGED minute
     \/ ask[v] \in {"add", "expire"} /\ Grant(v)
     \/ /\ ask[v] = "sent" /\ Alone(v)
        /\ ask' = [ask EXCEPT ![v] = "error"] /\ UNCHANGED minute
  /\ failed' = failed \cup {v}
  /\ UNCHANGED <<statScript, white, page, uuids, freq, pv, clicks>>

Serve(v) == CheckUuid(v) \/ CheckFreq(v) \/ AddKey(v) \/ ExpireKey(v)

UuidExpires(v) ==
  /\ v \in uuids
  /\ uuids' = uuids \ {v}
  /\ UNCHANGED <<statScript, white, page, ask, freq, pv, clicks,
                 minute, failed>>

FreqExpires ==
  /\ freq = "expiring"
  /\ freq' = "absent" /\ minute' = {}
  /\ UNCHANGED <<statScript, white, page, uuids, ask, pv, clicks, failed>>

-----------------------------------------------------------------------------
(* Mutant: a refusal is not recognised.                                    *)
AnswerAlways(v) ==
  /\ page[v] = "asking" /\ ask[v] \in {"granted", "refused", "error"}
  /\ page' = [page EXCEPT ![v] = "counting"]
  /\ pv' = [pv EXCEPT ![v] = @ + 1]
  /\ UNCHANGED <<statScript, white, uuids, ask, freq, clicks, minute, failed>>

(* The answer: "-1" is a refusal.  An error leaves isneedesc empty, which  *)
(* is none, and the page counts.  vlstat_4sh.js listens for clicks and     *)
(* sends the page view.                                                    *)
Answer(v) ==
  /\ page[v] = "asking" /\ ask[v] \in {"granted", "refused", "error"}
  /\ IF ask[v] = "refused"
     THEN page' = [page EXCEPT ![v] = "silent"] /\ UNCHANGED pv
     ELSE /\ page' = [page EXCEPT ![v] = "counting"]
          /\ pv' = [pv EXCEPT ![v] = @ + 1]
  /\ UNCHANGED <<statScript, white, uuids, ask, freq, clicks, minute, failed>>

(* The user clicks on the ad (responseUrl): every run of vlstat_4sh.js has *)
(* sent one page view and left one listener.                               *)
ClickAd(v) ==
  /\ pv[v] > 0 /\ page[v] # "asking" /\ clicks[v] < MaxClicks
  /\ clicks' = [clicks EXCEPT ![v] = @ + pv[v]]
  /\ UNCHANGED <<statScript, white, page, uuids, ask, freq, pv,
                 minute, failed>>

-----------------------------------------------------------------------------
(* The pages by themselves.  A page may be taken out of the slot at any    *)
(* time, so its own steps owe nothing; the adserver and Redis go on.       *)
Next ==
  \/ \E v \in Views :
       \/ LoadPage(v) \/ RunScript(v) \/ Answer(v) \/ ClickAd(v)
       \/ Serve(v) \/ RedisError(v) \/ UuidExpires(v)
  \/ FreqExpires

Fairness == WF_pageVars(FreqExpires) /\ \A v \in Views : WF_pageVars(Serve(v))

Spec == Init /\ [][Next]_pageVars /\ Fairness

-----------------------------------------------------------------------------
TypeOK ==
  /\ statScript \in StatScripts /\ white \in WhiteLists
  /\ page \in [Views -> {"none", "loaded", "failed", "asking", "silent",
                         "counting"}]
  /\ ask \in [Views -> {"none", "sent", "fresh", "add", "expire", "granted",
                        "refused", "error"}]
  /\ freq \in {"absent", "set", "expiring"}
  /\ pv \in [Views -> Nat] /\ clicks \in [Views -> Nat]
  /\ uuids \subseteq Views /\ minute \subseteq Views /\ failed \subseteq Views

(* The frequency control: of the views of one user, ad and page one is     *)
(* granted per minute, the life of the key; a view whose own request met   *)
(* an error may be granted too, but never makes room for another.          *)
OnePerMinute == Cardinality(minute \ failed) <= 1

(* A view that /ad/pvneed refused sends no page view and no click, and     *)
(* none sends any before the answer, which may be an error; white-listed   *)
(* users count without it.                                                 *)
OnlyGrantedCount ==
  white \/ \A v \in Views : pv[v] + clicks[v] > 0 =>
             ask[v] \in {"granted", "error"}

(* The key of the frequency control goes, so a later view counts again;    *)
(* unless a command has failed, which may have been EXPIRE.                *)
FrequencyKeyGoes == freq # "absent" ~> (freq = "absent" \/ failed # {})
=============================================================================
