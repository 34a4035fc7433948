----------------------------- MODULE AdDelivery -----------------------------
(***************************************************************************)
(* The delivery of an ad: slots in the browser (AdSlot), the page of the   *)
(* ad in one of their frames (AdPage) and the log of shows (ShowLog).  A   *)
(* slot sends its record as a request to the log, and the page lives as    *)
(* long as its frame; what the servers have begun goes on without it.      *)
(***************************************************************************)
EXTENDS AdSlot

CONSTANTS OneAtATime, Copies, StatScripts, WhiteLists, MaxClicks

ASSUME DeliveryAssumption ==
  /\ OneAtATime \in BOOLEAN
  /\ Copies \in Nat \ {0} /\ MaxClicks \in Nat
  /\ StatScripts \subseteq {"vldsp", "initstat"}
  /\ WhiteLists \subseteq BOOLEAN

VARIABLES impKeys, impfreq, requests, counts,
          statScript, white, page, uuids, ask, freq, pv, clicks, minute, failed

Log == INSTANCE ShowLog
Page == INSTANCE AdPage

logVars == <<impKeys, impfreq, requests, counts>>
pageVars == <<statScript, white, page, uuids, ask, freq, pv, clicks,
              minute, failed>>
vars == <<slot, impKeys, impfreq, requests, counts,
          statScript, white, page, uuids, ask, freq, pv, clicks,
          minute, failed>>

DeliveryInit == Init /\ Log!Init /\ Page!Init

-----------------------------------------------------------------------------
(* Steps of a slot, and what they send.                                    *)
RecordSent(v) ==
  /\ requests' = requests \cup
       {Log!Request(v, slot'[v].recorded[i]) :
          i \in DOMAIN slot'[v].recorded \ DOMAIN slot[v].recorded}
  /\ UNCHANGED <<impKeys, impfreq, counts, pageVars>>

Run(v) == (RunCentre(v) \/ Psda(v)) /\ RecordSent(v)
VizuryAnswers(v) == Addisplay(v) /\ RecordSent(v)

InSlot(action) == action /\ UNCHANGED <<logVars, pageVars>>

Timers(v) == \/ \E f \in HiddenFrames : InSlot(RemoveFrame(v, f))
             \/ InSlot(Monitor(v))
             \/ InSlot(Poll(v))

User(v) == \/ \E f \in VisibleFrames : InSlot(Focus(v, f))
           \/ InSlot(Blur(v))
           \/ InSlot(Close(v))
           \/ InSlot(Leave(v))
           \/ InSlot(VizuryFrame(v))

(* Steps of a page need its frame.                                         *)
Hosted(v) == slot[v].attached \cap PageFrames # {}

InPage(action) == action /\ UNCHANGED <<slotVars, logVars>>

LoadPage(v) == Hosted(v) /\ InPage(Page!LoadPage(v))
RunScript(v) == Hosted(v) /\ InPage(Page!RunScript(v))
Answer(v) == Hosted(v) /\ InPage(Page!Answer(v))
ClickAd(v) == "mframe" \in slot[v].attached /\ InPage(Page!ClickAd(v))

(* Steps of the servers.                                                   *)
ServePage(v) == InPage(Page!Serve(v))
PageKeyExpires == InPage(Page!FreqExpires)

InLog(action) == action /\ UNCHANGED <<slotVars, pageVars>>

ServeLog == \E q \in requests : InLog(Log!Serve(q))
Network == \E q \in requests : InLog(Log!Resend(q))

Expiry == \/ \E v \in Views : InLog(Log!ImpExpires(v))
          \/ InLog(Log!FreqExpires)
          \/ \E v \in Views : InPage(Page!UuidExpires(v))

Next ==
  \/ \E v \in Views :
       \/ Run(v) \/ VizuryAnswers(v) \/ Timers(v) \/ User(v)
       \/ LoadPage(v) \/ RunScript(v) \/ Answer(v) \/ ClickAd(v)
       \/ ServePage(v) \/ InPage(Page!RedisError(v))
  \/ ServeLog \/ Network \/ Expiry \/ PageKeyExpires

(* Timers run, the servers work on what they have and keys expire; users,  *)
(* Vizury and the network owe nothing.                                     *)
Fairness ==
  /\ \A v \in Views :
       /\ \A f \in HiddenFrames : WF_vars(InSlot(RemoveFrame(v, f)))
       /\ WF_vars(InSlot(Poll(v)))
       /\ WF_vars(LoadPage(v)) /\ WF_vars(RunScript(v))
       /\ WF_vars(ServePage(v))
  /\ WF_vars(PageKeyExpires)

Spec == DeliveryInit /\ [][Next]_vars /\ Fairness

-----------------------------------------------------------------------------
TypeOK ==
  /\ \A v \in Views :
       /\ slot[v].script \in Scripts /\ slot[v].answer \in Answers
       /\ slot[v].timers \cup (slot[v].attached \cap HiddenFrames)
            \subseteq slot[v].wrote
       /\ slot[v].wrote \subseteq Frames
       /\ slot[v].active \in slot[v].attached \cup {"body"}
       /\ \A i \in DOMAIN slot[v].iframes :
            slot[v].iframes[i].element \in slot[v].wrote
  /\ impKeys \subseteq Views /\ impfreq \in BOOLEAN
  /\ \A q \in requests :
       /\ q.view \in Views /\ q.copy \in 1..Copies
       /\ \E i \in DOMAIN slot[q.view].recorded :
            slot[q.view].recorded[i] = q.type
       /\ q.pc \in {"sent", "found", "first", "again", "over"}
  /\ Page!TypeOK

(* An impression is counted once by the log of shows, though its request   *)
(* may be sent again.                                                      *)
CountedOnce == Log!CountedOnce

(* What the SSP counts as shows are views into which an ad was written,    *)
(* and what it counts as blanks are views without, for the scripts of the  *)
(* centre: from the branches of the script over the network to the log.    *)
CountsAreTrue ==
  \A c \in counts : slot[c.view].script \in Centre =>
    (c.type = "1" <=> slot[c.view].wrote \cap PageFrames # {})

(* Every page view that is sent belongs to a view that the slot has        *)
(* reported as a show.                                                     *)
PvBelongsToShow ==
  \A v \in Views : pv[v] > 0 /\ slot[v].script \in Centre =>
    slot[v].recorded = <<"1">>

=============================================================================
