--------------------------- MODULE MCReviewValues ---------------------------
(***************************************************************************)
(* The values TLC's instances of the review modules share.                 *)
(***************************************************************************)

(* Contents of one item, for which the check of an edit is exact.          *)
OneItem == {[kind |-> "M", items |-> <<"m1">>], [kind |-> "E", items |-> <<"u1">>]}

(* One content: edits that leave what the ad shows as it is.               *)
Fixed == {[kind |-> "M", items |-> <<"m1">>]}

Serially == {"single", "submit", "edit", "delete", "add", "toggle", "abandon",
             "timer"}

Overlapping == {"single", "submit", "edit", "toggle"}

Nightly == {"batch", "submit", "edit", "delete", "remove", "toggle", "timer",
            "crash"}

Refusing == {"single", "batch", "submit"}
=============================================================================
