-------------------------- MODULE MCAdReviewSerial --------------------------
(***************************************************************************)
(* Instances of AdReviewSerial for TLC.                                    *)
(***************************************************************************)
EXTENDS AdReviewSerial, MCReviewValues
=============================================================================
