---------------------------- MODULE MCReportPage ----------------------------
(***************************************************************************)
(* Instances of ReportPage for TLC.                                        *)
(***************************************************************************)
EXTENDS ReportPage

OwnAds == [r \in Rows |-> r]

FifteenEndsInFive == {<<5, 15>>}

(* The end of a year, the leap day, the day after it, and a New Year's Day *)
(* on a Sunday.                                                            *)
TurnsOfMonths ==
  {DayZero(2015, 12), DayZero(2016, 2), FirstOf(2016, 3), FirstOf(2017, 1)}
=============================================================================
