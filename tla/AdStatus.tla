------------------------------ MODULE AdStatus ------------------------------
(***************************************************************************)
(* The status codes the web applications keep in ad_instance and in        *)
(* ad_check_process, under the names their comments give them.             *)
(***************************************************************************)

(* ad_instance.ad_toufang_sts *)
Draft     == "-1"  \* not yet submitted for review
Pending   == "0"   \* waiting for its reviewers
Serving   == "2"   \* approved and being delivered
Paused    == "3"   \* approved, delivery switched off
Ended     == "4"   \* approved, its end time has passed
Rejected  == "5"   \* refused by a reviewer
Abandoned == "6"   \* withdrawn by an administrator

Status == {Draft, Pending, Serving, Paused, Ended, Rejected, Abandoned}

(* ad_check_process.check_sts *)
Waiting  == "1"
Approved == "2"
Refused  == "3"

Check == {Waiting, Approved, Refused}
Vote  == {Approved, Refused}
=============================================================================
