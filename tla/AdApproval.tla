----------------------------- MODULE AdApproval -----------------------------
(***************************************************************************)
(* What the review of ads promises, with every request as one step: an ad  *)
(* has a phase and a ballot, which is asked of all the reviewers there are *)
(* when it is submitted and thrown away when its content changes.          *)
(***************************************************************************)
EXTENDS AdStatus

CONSTANTS Ads, Users

VARIABLES phase, ballot

Blank == [u \in {} |-> Waiting]

Ballots == UNION {[panel -> Check] : panel \in SUBSET Users}

Cast(b, v) == \E u \in DOMAIN b : b[u] = v

(* All approve: delivery.  A refusal may wait for earlier reviewers to     *)
(* vote, but a refusal that nobody is left to vote on is a rejection.      *)
Outcomes(b) ==
  IF ~Cast(b, Waiting) /\ ~Cast(b, Refused) THEN {Serving}
  ELSE {p \in {Pending, Rejected} :
          /\ p = Pending => Cast(b, Waiting)
          /\ p = Rejected => Cast(b, Refused)}

Init ==
  /\ phase = [a \in Ads |-> Draft]
  /\ ballot = [a \in Ads |-> Blank]

Set(a, p, b) ==
  /\ phase' = [phase EXCEPT ![a] = p]
  /\ ballot' = [ballot EXCEPT ![a] = b]

Submit(a, panel) ==
  /\ phase[a] = Draft
  /\ Set(a, Pending, [u \in panel |-> Waiting])

CastVote(a, u, v) ==
  LET b == [ballot[a] EXCEPT ![u] = v] IN
  /\ phase[a] = Pending
  /\ u \in DOMAIN ballot[a]
  /\ \E p \in Outcomes(b) : Set(a, p, b)

(* The content changes.                                                    *)
Revise(a) ==
  /\ phase[a] \notin {Serving, Ended, Abandoned}
  /\ Set(a, Draft, Blank)

(* The ad is deleted.                                                      *)
Discard(a) ==
  /\ phase[a] \notin {Serving, Paused}
  /\ Set(a, phase[a], Blank)

Switch(a) ==
  /\ phase[a] \in {Serving, Paused}
  /\ Set(a, IF phase[a] = Serving THEN Paused ELSE Serving, ballot[a])

Withdraw(a) ==
  /\ phase[a] \in {Serving, Paused, Rejected}
  /\ Set(a, Abandoned, ballot[a])

(* The nightly job ends some ads together.                                 *)
Finish(S) ==
  /\ \A a \in S : phase[a] \in {Serving, Paused}
  /\ phase' = [a \in Ads |-> IF a \in S THEN Ended ELSE phase[a]]
  /\ UNCHANGED ballot

Next ==
  \/ \E a \in Ads : \/ \E panel \in SUBSET Users : Submit(a, panel)
                    \/ \E u \in Users, v \in Vote : CastVote(a, u, v)
                    \/ Revise(a)
                    \/ Discard(a)
                    \/ Switch(a)
                    \/ Withdraw(a)
  \/ \E S \in SUBSET Ads : Finish(S)

Spec == Init /\ [][Next]_<<phase, ballot>>
=============================================================================
