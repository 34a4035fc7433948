--------------------------- MODULE MCInterestTree ---------------------------
(***************************************************************************)
(* Instances of InterestTree for TLC.                                      *)
(***************************************************************************)
EXTENDS InterestTree

CONSTANTS flat, flat1, flat2, flat3, deep, left, left1, left2,
          right, right1, right2

(* A heading with three boxes, and a heading with two branches.            *)
Family == [n \in Nodes |->
  CASE n \in {flat, deep} -> Root
    [] n \in {flat1, flat2, flat3} -> flat
    [] n \in {left, right} -> deep
    [] n \in {left1, left2} -> left
    [] n \in {right1, right2} -> right]
TopNodes == {flat, deep}
=============================================================================
