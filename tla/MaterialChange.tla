--------------------------- MODULE MaterialChange ---------------------------
(***************************************************************************)
(* How an edit decides whether the advertiser has replaced what the ad     *)
(* shows (AdPlanManageServiceImpl.checkAdUrl).  A content is the link type *)
(* of the ad and what it links: the list of its materials for type "M", a  *)
(* single address or script for the types "E" and "J" ("L" is stored for   *)
(* some scripts and read back as "J").                                     *)
(***************************************************************************)
EXTENDS Naturals, Sequences

LOCAL INSTANCE Functions

(* The loops over the old and the new list overwrite the flag for every    *)
(* old material, so that the last old material alone decides.              *)
ListChanged(old, new) ==
  \/ Len(new) # Len(old)
  \/ old[Len(old)] \notin Range(new)

CheckAdUrl(old, new) ==
  \/ old.kind # new.kind
  \/ /\ old.kind = "M"
     /\ ListChanged(old.items, new.items)
  \/ /\ old.kind # "M"
     /\ old.items # new.items

(* What the comment above checkAdUrl promises: the materials are others.   *)
Replaced(old, new) ==
  \/ old.kind # new.kind
  \/ Range(old.items) # Range(new.items)
=============================================================================
