----------------------------- MODULE MCAdStats ------------------------------
(***************************************************************************)
(* Instances of AdStats for TLC.                                           *)
(***************************************************************************)
EXTENDS AdStatsLedger, TLC

OnlyViews == [pv |-> 2, click |-> 0]

ThreeViews == [pv |-> 3, click |-> 2]

(* Requests are interchangeable.                                           *)
Symmetry == Permutations(Requests)
=============================================================================
