-------------------------- MODULE MCMaterialCache ---------------------------
(***************************************************************************)
(* An instance of MaterialCache for TLC.  The ad is one of two: pages are  *)
(* asked for it, and it has no third-party code; or the timers work on its *)
(* code, it has one material, and nobody asks for its page.  Its materials *)
(* look alike until one is changed.                                        *)
(***************************************************************************)
EXTENDS MaterialCache, TLC

CONSTANTS Pages, Nht, Shown, Seen

VARIABLE scene

MCInit ==
  /\ MaterialInit /\ scene \in {Pages, Nht}
  /\ \A m \in Materials : about[m] = Seen
  /\ scene = Pages => sub = Blank
  /\ scene = Nht => links \subseteq Shown /\ ext \subseteq {Seen}

MCNext ==
  /\ MaterialNext /\ UNCHANGED scene
  /\ scene = Pages => UNCHANGED nhtVars
  /\ scene = Nht =>
       /\ UNCHANGED <<readers, about, changes>>
       /\ edit'.todo \subseteq IF edit'.kind = "M" THEN Shown ELSE {Seen}

MCSpec == MCInit /\ [][MCNext]_<<materialVars, scene>>

MCSymmetry == Permutations(Readers)
=============================================================================
