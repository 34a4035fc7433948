--------------------------- MODULE AdReviewSerial ---------------------------
(***************************************************************************)
(* Requests that do not overlap are atomic: AdReview, looked at only when  *)
(* no request is being worked on, implements AdApproval.  The variable     *)
(* settled remembers what was last seen at such a time.                    *)
(***************************************************************************)
EXTENDS AdReview

VARIABLE settled

Asked(a) == {rows[r].user : r \in RowsOf(a)}

BallotOf(a) ==
  [u \in Asked(a) |-> rows[CHOOSE r \in RowsOf(a) : rows[r].user = u].check]

View == [phase |-> sts, ballot |-> [a \in Ads |-> BallotOf(a)]]

SerialInit == Init /\ settled = View

SerialNext == Next /\ settled' = IF AllIdle' THEN View' ELSE settled

SerialSpec == SerialInit /\ [][SerialNext]_<<vars, settled>>

Approval == INSTANCE AdApproval WITH phase <- settled.phase,
                                     ballot <- settled.ballot

(* Every complete submission, vote, edit, deletion, switch and nightly run *)
(* is a step of AdApproval: none of the intermediate writes of a request   *)
(* (a review first stores the status it read, then the verdict) is left    *)
(* behind, no vote is lost or counted for another submission.              *)
ImplementsApproval == Approval!Spec
=============================================================================
