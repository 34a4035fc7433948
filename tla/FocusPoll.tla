----------------------------- MODULE FocusPoll ------------------------------
(***************************************************************************)
(* IframeOnClick, the object by which the scripts of the ads notice clicks *)
(* in frames of other sites: a timer looks every 200 ms which element of   *)
(* the document has the focus, and reports a tracked frame that has it     *)
(* once until the focus has been seen elsewhere.  Four scripts hold a copy *)
(* of it (vlssp.js, vlssp_wh.js, vlssp_mobile.js, vlstat_4sh.js).          *)
(***************************************************************************)
EXTENDS Naturals, Sequences

(* A frame can be tracked twice; each entry then reports on its own.       *)
Track(iframes, f) == Append(iframes, [element |-> f, hasTracked |-> FALSE])

(* The entries whose callback a poll runs.                                 *)
Reported(iframes, active) ==
  {i \in DOMAIN iframes :
     iframes[i].element = active /\ ~iframes[i].hasTracked}

(* The entries after the poll.                                             *)
Polled(iframes, active) ==
  [i \in DOMAIN iframes |->
     [iframes[i] EXCEPT !.hasTracked = (iframes[i].element = active)]]
=============================================================================
