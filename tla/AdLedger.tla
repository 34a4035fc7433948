------------------------------ MODULE AdLedger ------------------------------
(***************************************************************************)
(* What the statistics of an ad promise: every page view and every click   *)
(* is added to the period that is open, and is carried once, and whole,    *)
(* into the closed periods the reports and the costs are computed from.    *)
(***************************************************************************)
EXTENDS Naturals

CONSTANTS Kinds

VARIABLES
  open,    \* counted in the period that is open
  closed   \* the total of the periods that are closed

LedgerInit == open = [k \in Kinds |-> 0] /\ closed = [k \in Kinds |-> 0]

Record(k) == open' = [open EXCEPT ![k] = @ + 1] /\ UNCHANGED closed

(* The kinds of a period close together or one after the other.            *)
Close(K) ==
  /\ open'   = [k \in Kinds |-> IF k \in K THEN 0 ELSE open[k]]
  /\ closed' = [k \in Kinds |-> IF k \in K THEN closed[k] + open[k]
                                           ELSE closed[k]]

LedgerNext == (\E k \in Kinds : Record(k)) \/ (\E K \in SUBSET Kinds : Close(K))

LedgerSpec == LedgerInit /\ [][LedgerNext]_<<open, closed>>
=============================================================================
