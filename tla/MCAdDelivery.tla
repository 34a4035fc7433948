---------------------------- MODULE MCAdDelivery ----------------------------
(***************************************************************************)
(* Instances of AdDelivery for TLC.                                        *)
(***************************************************************************)
EXTENDS AdDelivery

(* splv_sh.js is splv.js with another server; psda of m.splv.js is a case  *)
(* of its own only in what it leaves out.                                  *)
ThreeScripts == {"vlssp", "vlssp_wh", "splv"}

Ad(link, precise, vizury, dead) ==
  [ad |-> TRUE, precise |-> precise, vizury |-> vizury, link |-> link,
   dead |-> dead]

(* Every kind of link; ads found for the user and for everyone, no ad; and *)
(* Vizury asked before the last two.                                       *)
NoAd(vizury) == [Ad("M", FALSE, vizury, FALSE) EXCEPT !.ad = FALSE]

EveryAnswer ==
  {Ad("E", TRUE, FALSE, TRUE), Ad("L", TRUE, FALSE, FALSE),
   Ad("J", FALSE, FALSE, FALSE), Ad("M", FALSE, TRUE, FALSE),
   NoAd(FALSE), NoAd(TRUE)}
=============================================================================
