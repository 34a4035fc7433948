------------------------------- MODULE AdSlot -------------------------------
(***************************************************************************)
(* The ad slot of a page in the browser: the script the SSP answers with   *)
(* writes the frames of the ad into the page, reports to /showad whether   *)
(* it showed an ad, takes the hidden frames out after a second, polls the  *)
(* focus for clicks and closes the ad when the user asks.                  *)
(*                                                                         *)
(* Five scripts of sspserver do this.  vlssp.js and vlssp_wh.js (Centre)   *)
(* run inside an answer that declares adType, vizury, mangtou and so on;   *)
(* splv.js, splv_sh.js and m.splv.js call /c2, whose answer calls psda.    *)
(* JavaScript runs to completion, so each script, callback and timer is    *)
(* one step; the timers come in any order.                                 *)
(***************************************************************************)
EXTENDS FocusPoll, FiniteSets

CONSTANTS
  Views,      \* page views with a slot
  Scripts,    \* the scripts in use
  Answers,    \* what the SSP answers
  MaxVisits   \* bound: times the user moves the focus to a frame of a view

Centre == {"vlssp", "vlssp_wh"}
Links == {"J", "M", "E", "L"}        \* linkType

ASSUME SlotAssumption ==
  /\ Scripts \subseteq Centre \cup {"splv", "splv_sh", "m.splv"}
  /\ Answers \subseteq
       [ad : BOOLEAN,       \* there is an ad: mangtou # '0', showFlag = '1'
        precise : BOOLEAN,  \* adType = '1'
        vizury : BOOLEAN,   \* vizury = '1'
        link : Links, dead : BOOLEAN]          \* dead: closeType = '2'
  /\ \A a \in Answers : a.precise => a.ad
  /\ MaxVisits \in Nat

(* The frames of a slot.  PageFrames load the page of the ad from the      *)
(* adserver, the hidden ones among them are removed after a second.  The   *)
(* clicks in mframe are its page's; the focus there is as good as none.    *)
HiddenFrames == {"jframe", "eframe", "lframe", "vyframe"}
PageFrames == HiddenFrames \cup {"mframe"}
VisibleFrames == {"extframe", "vzframe"}
Frames == PageFrames \cup VisibleFrames

VARIABLE slot    \* the state of each view
slotVars == <<slot>>

Loading(s, a) ==
  [script |-> s, answer |-> a,
   stage |-> "loading",       \* "vizury": waits for Vizury, "done", "left"
   div |-> "none",            \* addiv: "none", "open" or "closed"
   attached |-> {},           \* the frames in the document
   wrote |-> {},              \* history: the frames ever written
   timers |-> {},             \* the frames a timer will remove
   watching |-> FALSE,        \* the interval of moninotIframe runs
   iframes |-> <<>>,          \* IframeOnClick.iframes
   active |-> "body",         \* document.activeElement
   visits |-> [f \in VisibleFrames |-> 0],     \* history: focus gained
   clicks |-> [f \in VisibleFrames \cup HiddenFrames \cup {"death"} |-> 0],
                              \* history: /statclick requests sent
   recorded |-> <<>>]         \* history: the showType of /showad requests

Init == \E s \in Scripts, a \in Answers :
          /\ a.vizury => s \in Centre
          /\ slot = [v \in Views |-> Loading(s, a)]

-----------------------------------------------------------------------------
(* adShow.  vlssp_wh.js writes no addiv; m.splv.js knows only J and M.     *)
HasDiv(s) == s.script # "vlssp_wh"

WrittenFrames(s) ==
  CASE s.answer.link = "J" -> {"jframe"}
    [] s.answer.link = "M" -> {"mframe"}
    [] s.answer.link = "E" /\ s.script # "m.splv" -> {"extframe", "eframe"}
    [] s.answer.link = "L" /\ s.script # "m.splv" -> {"lframe"}
    [] OTHER -> {}

(* adShow ends with an exception, and the script with it, where splv.js    *)
(* names IframeOnClick, which it does not define, before it sets the timer *)
(* of eframe, and where m.splv.js sizes the frame it has not written.      *)
Fails(s) == \/ s.script \in {"splv", "splv_sh"} /\ s.answer.link = "E"
            \/ s.script = "m.splv" /\ WrittenFrames(s) = {}

(* Mutant: the frame of the external ad is not tracked.                    *)
ShownUntracked(s) ==
  LET frames == WrittenFrames(s)
  IN [s EXCEPT !.attached = @ \cup frames, !.wrote = @ \cup frames,
               !.timers = frames \cap HiddenFrames,
               !.div = IF frames = {"jframe"} THEN @ ELSE "open"]

Shown(s) ==
  LET frames == WrittenFrames(s)
  IN [s EXCEPT
        !.div = IF HasDiv(s) /\ s.answer.link # "J" THEN "open" ELSE @,
        !.attached = @ \cup frames,
        !.wrote = @ \cup frames,
        !.timers = IF Fails(s) THEN @ ELSE frames \cap HiddenFrames,
        !.iframes = IF "extframe" \in frames /\ ~Fails(s)
                    THEN Track(@, "extframe") ELSE @]

ShownForVizury(s) ==
  [s EXCEPT !.div = IF HasDiv(s) THEN "open" ELSE @,
            !.attached = @ \cup {"vyframe"}, !.wrote = @ \cup {"vyframe"},
            !.timers = {"vyframe"}, !.watching = TRUE]

Record(s, type) == [s EXCEPT !.recorded = Append(@, type)]

Done(s) == [s EXCEPT !.stage = "done"]

(* Mutant: nothing shown is recorded as a show.                            *)
BlindAlwaysShown(s) == Done(Record(IF s.answer.ad THEN Shown(s) ELSE s, "1"))

(* The ad for everyone when there is one, else nothing.                    *)
Blind(s) ==
  Done(IF s.answer.ad THEN Record(Shown(s), "1") ELSE Record(s, "0"))

(* Mutant: an ad found for the user is shown and not recorded.             *)
RunCentreSilent(v) ==
  LET s == slot[v]
  IN /\ s.stage = "loading" /\ s.script \in Centre
     /\ slot' = [slot EXCEPT ![v] =
          CASE s.answer.precise -> Done(Shown(s))
            [] ~s.answer.precise /\ s.answer.vizury ->
                 [s EXCEPT !.stage = "vizury"]
            [] OTHER -> Blind(s)]

(* The script of the centre, at its top level.                             *)
RunCentre(v) ==
  LET s == slot[v]
  IN /\ s.stage = "loading" /\ s.script \in Centre
     /\ slot' = [slot EXCEPT ![v] =
          CASE s.answer.precise -> Done(Record(Shown(s), "1"))
            [] ~s.answer.precise /\ s.answer.vizury ->
                 [s EXCEPT !.stage = "vizury"]
            [] OTHER -> Blind(s)]

(* addisplay, which the answer of Vizury calls; it may never come.         *)
Addisplay(v) ==
  /\ slot[v].stage = "vizury"
  /\ \/ slot' = [slot EXCEPT ![v] = Done(Record(ShownForVizury(@), "1"))]
     \/ slot' = [slot EXCEPT ![v] = Blind(@)]

(* psda: a shown ad is recorded with "0", if at all, and no ad with "1".   *)
Psda(v) ==
  LET s == slot[v]
  IN /\ s.stage = "loading" /\ s.script \notin Centre
     /\ slot' = [slot EXCEPT ![v] = Done(
          CASE ~s.answer.ad -> Record(s, "1")
            [] s.answer.ad /\ (Fails(s) \/ s.script = "m.splv") -> Shown(s)
            [] OTHER -> Record(Shown(s), "0"))]

-----------------------------------------------------------------------------
(* Mutant: the focus stays in a frame that is gone.                        *)
WithoutFocus(s, frames) == [s EXCEPT !.attached = @ \ frames]

(* A frame that goes gives the focus back to the body.                     *)
Without(s, frames) ==
  [s EXCEPT !.attached = @ \ frames,
            !.active = IF @ \in frames THEN "body" ELSE @]

(* Mutant: the frame's timer runs and removes nothing.                     *)
RemoveFrameKept(v, f) ==
  /\ f \in slot[v].timers
  /\ slot' = [slot EXCEPT ![v].timers = @ \ {f}]

(* The timer of a second: removes the frame, or fails when the close       *)
(* button has emptied addiv before.                                        *)
RemoveFrame(v, f) ==
  /\ f \in slot[v].timers
  /\ slot' = [slot EXCEPT ![v] =
                [Without(slot[v], {f}) EXCEPT !.timers = @ \ {f}]]

(* The code of Vizury writes its own frame, at once or later.              *)
VizuryFrame(v) ==
  /\ "vyframe" \in slot[v].wrote /\ "vzframe" \notin slot[v].wrote
  /\ slot[v].stage = "done" /\ slot[v].div # "closed"
  /\ slot' = [slot EXCEPT ![v].attached = @ \cup {"vzframe"},
                          ![v].wrote = @ \cup {"vzframe"}]

(* Mutant: the interval is not cleared.                                    *)
MonitorTwice(v) ==
  /\ slot[v].watching /\ slot[v].div # "none"
  /\ Cardinality(slot[v].attached) = 2
  /\ slot' = [slot EXCEPT
                ![v].iframes = Track(Track(@, "vyframe"), "vzframe"),
                ![v].watching = Len(slot[v].iframes) < 2]

(* moninotIframe: an interval of 500 ms, until addiv holds two frames.     *)
Monitor(v) ==
  /\ slot[v].watching /\ slot[v].div # "none"
  /\ Cardinality(slot[v].attached) = 2
  /\ slot' = [slot EXCEPT
                ![v].iframes = Track(Track(@, "vyframe"), "vzframe"),
                ![v].watching = FALSE]

(* checkClick: one request for every entry that reports.                   *)
Poll(v) ==
  LET s == slot[v]
      hits == Reported(s.iframes, s.active)
  IN /\ s.stage = "done" /\ Polled(s.iframes, s.active) # s.iframes
     /\ slot' = [slot EXCEPT
          ![v].iframes = Polled(@, s.active),
          ![v].clicks = IF hits = {} THEN @
                        ELSE [s.clicks EXCEPT
                                ![s.active] = @ + Cardinality(hits)]]

-----------------------------------------------------------------------------
(* The user.                                                               *)
Visits(s) == s.visits["extframe"] + s.visits["vzframe"]

Focus(v, f) ==
  /\ f \in slot[v].attached /\ f # slot[v].active
  /\ Visits(slot[v]) < MaxVisits
  /\ slot' = [slot EXCEPT ![v].active = f, ![v].visits[f] = @ + 1]

Blur(v) ==
  /\ slot[v].active # "body"
  /\ slot' = [slot EXCEPT ![v].active = "body"]

(* closeAdDiv and closeDeadAdDiv.  The button of the dead cross counts as  *)
(* a click of the ad; Vizury's ads and m.splv.js do not have it, and in    *)
(* vlssp_wh.js both functions fail for want of addiv.                      *)
HasDeadCross(s) ==
  s.answer.dead /\ s.script # "m.splv" /\ "vyframe" \notin s.wrote

Close(v) ==
  /\ slot[v].div = "open" /\ slot[v].stage = "done"
  /\ slot' = [slot EXCEPT ![v] =
       [Without(slot[v], slot[v].attached) EXCEPT
          !.div = "closed",
          !.clicks["death"] = @ + IF HasDeadCross(slot[v]) THEN 1 ELSE 0]]

(* The user leaves the page, which ends its timers.                        *)
Leave(v) ==
  /\ slot[v].stage # "left"
  /\ slot' = [slot EXCEPT ![v] =
       [Without(slot[v], slot[v].attached) EXCEPT
          !.stage = "left", !.timers = {}, !.watching = FALSE,
          !.iframes = <<>>, !.div = "none"]]

-----------------------------------------------------------------------------
(* What is reported to /showad is what was done: showType 1 when a page of *)
(* an ad was written into the slot, 0 when nothing was.                    *)
RecordTrue(s) ==
  \A i \in DOMAIN s.recorded :
    s.recorded[i] = IF s.wrote \cap PageFrames # {} THEN "1" ELSE "0"

ShowTypeTrue == \A v \in Views : RecordTrue(slot[v])

(* The poll reports a visit of the user to a frame at most once, whatever  *)
(* the order of focus changes, polls, late frames and removals.            *)
ClickPerVisit ==
  \A v \in Views, f \in VisibleFrames : slot[v].clicks[f] <= slot[v].visits[f]

(* A user who stays in the frame of an external ad is counted.             *)
VisitCounted ==
  \A v \in Views :
    (slot[v].active = "extframe" /\ slot[v].script \in Centre)
      ~> (slot[v].active # "extframe" \/ slot[v].clicks["extframe"] > 0)

(* No hidden frame stays in the page: the scripts of the centre take each  *)
(* one out.                                                                *)
HiddenFrameGoes ==
  \A v \in Views, f \in HiddenFrames :
    (f \in slot[v].attached /\ slot[v].script \in Centre)
      ~> f \notin slot[v].attached
=============================================================================
