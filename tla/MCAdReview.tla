----------------------------- MODULE MCAdReview -----------------------------
(***************************************************************************)
(* Instances of AdReview for TLC.                                          *)
(***************************************************************************)
EXTENDS AdReview, MCReviewValues, TLC

Symmetry ==
  Permutations(Ads) \cup Permutations(Users) \cup Permutations(Requests)
=============================================================================
