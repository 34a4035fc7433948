---------------------------- MODULE InterestTree ----------------------------
(***************************************************************************)
(* The choice of interests for an ad or a crowd (allbaselabeltree.js,      *)
(* intersttree.js): a zTree with check boxes on the right, and on the left *)
(* a list of labels, each with a cross.  What is submitted are the labels, *)
(* and a label stands for everything below its node.  Below the root are   *)
(* headings without check boxes; the other nodes are loaded when their     *)
(* parent is expanded.  The page of a new ad is modelled, where nothing    *)
(* is ticked at first.                                                     *)
(***************************************************************************)
EXTENDS Naturals, FiniteSets, SequencesExt

CONSTANTS
  Nodes,      \* the nodes below the root,
  Root,
  Parent,     \* the parent of each,
  Headings,   \* and the nodes that come with the page
  MaxCopies   \* bound: a label is in the list this many times at most

ASSUME TreeAssumption ==
  /\ Root \notin Nodes /\ Parent \in [Nodes -> Nodes \cup {Root}]
  /\ Headings = {n \in Nodes : Parent[n] = Root}
  /\ MaxCopies \in Nat \ {0}

VARIABLES
  loaded,     \* the nodes whose children are there
  ticked,     \* checked of the nodes
  half,       \* halfCheck of the boxes; that of the others is only shown
  labels      \* how often the label of a node is in the list

vars == <<loaded, ticked, half, labels>>

AllNodes == Nodes \cup {Root}
Boxes == Nodes \ Headings

Init ==
  /\ loaded = {Root} /\ ticked = {} /\ half = {}
  /\ labels = [n \in AllNodes |-> 0]

children(n) == IF n \in loaded THEN {m \in Nodes : Parent[m] = n} ELSE {}
Shown == {n \in Nodes : Parent[n] \in loaded}

(* The nodes above n, in order from its parent to the root and as a set.   *)
Path ==
  LET path[n \in AllNodes] ==
        IF n = Root THEN <<>> ELSE <<Parent[n]>> \o path[Parent[n]]
  IN [n \in AllNodes |-> path[n]]
Above == [n \in AllNodes |-> ToSet(Path[n])]

(* The nodes are a tree: following Parent leads to the root from each.     *)
ASSUME PathAssumption ==
  /\ Path \in [AllNodes -> Seq(AllNodes)] /\ Path[Root] = <<>>
  /\ \A n \in Nodes : Path[n] = <<Parent[n]>> \o Path[Parent[n]]

Below(n) == {m \in Shown : n \in Above[m]}

-----------------------------------------------------------------------------
(* Mutant: the headings get ticks too.                                     *)
TickedAll(n) == ticked \cup {n} \cup Below(n) \cup Above[n]

(* zTree: a tick goes to the boxes below and to those above, so that a     *)
(* node has a tick when one below it has;                                  *)
Ticked(n) == ticked \cup {n} \cup Below(n) \cup (Above[n] \cap Boxes)

(* its removal goes to those below, and to those above with no tick left   *)
(* below (removeChildNode and removeParentNode do the same).               *)
Unticked(n) ==
  LET rest == ticked \ ({n} \cup Below(n))
  IN rest \ {m \in Above[n] :
       \A k \in Below(m) : k \in rest => k \in Above[n]}

-----------------------------------------------------------------------------
(* The list.                                                               *)
appendLabel(list, n) == [list EXCEPT ![n] = @ + 1]
Without(list, nodes) == [n \in AllNodes |-> IF n \in nodes THEN 0 ELSE list[n]]

(* checkOnParentHalfCheck, for one of the nodes above: when all the        *)
(* children are ticked, and none by half, its label replaces theirs.       *)
checkOnParent(st, p) ==
  LET full == children(p) \subseteq st.ticked \ st.half
      shown == IF full THEN st.half \ {p} ELSE st.half \cup {p}
  IN [node   |-> p,
      ticked |-> st.ticked,
      half   |-> (shown \ {st.node}) \cap Boxes,
      list   |-> IF full THEN appendLabel(Without(st.list, Below(p)), p)
                 ELSE st.list]

(* The page after the tick and after the first k of the nodes above.       *)
Climb(n) ==
  LET start == [node |-> n, ticked |-> Ticked(n), half |-> half,
                list |-> appendLabel(labels, n)]
      up[k \in 0..Len(Path[n])] ==
        IF k = 0 THEN start ELSE checkOnParent(up[k - 1], Path[n][k])
  IN up

checkOn(n) ==
  LET end == Climb(n)[Len(Path[n])]
  IN /\ n \notin ticked
     /\ ticked' = end.ticked /\ half' = end.half /\ labels' = end.list
     /\ \A m \in AllNodes : end.list[m] <= MaxCopies
     /\ UNCHANGED loaded

(* Mutant: the others do not get theirs.                                   *)
checkOffForgets(n) ==
  LET p == Parent[n]
      new == Unticked(n)
  IN /\ n \in ticked
     /\ ticked' = new
     /\ half' = (half \ ({n, p} \cup Below(n))) \cup ({p} \cap new)
     /\ labels' = Without(labels, {n} \cup Above[n] \cup Below(n))
     /\ UNCHANGED loaded

(* onCheck for a tick taken off: the labels of the node, of those above    *)
(* and of those below go; when it is the only child of its parent without  *)
(* a tick, the others get the labels they did not have.                    *)
checkOff(n) ==
  LET p == Parent[n]
      new == Unticked(n)
      off == children(p) \ new
      review == {m \in children(p) \cap new : labels[m] = 0}
      kept == Without(labels, {n} \cup Above[n] \cup Below(n))
  IN /\ n \in ticked
     /\ ticked' = new
     /\ half' = (half \ ({n, p} \cup Below(n))) \cup ({p} \cap new)
     /\ labels' = IF Cardinality(off) = 1
                  THEN [m \in AllNodes |-> IF m \in review THEN 1 ELSE kept[m]]
                  ELSE kept
     /\ UNCHANGED loaded

onCheck(n) == n \in Shown \cap Boxes /\ (checkOn(n) \/ checkOff(n))

(* Mutant: the cross leaves the ticks above and below.                     *)
removeNodeOnly(n) ==
  /\ labels[n] > 0
  /\ labels' = [labels EXCEPT ![n] = @ - 1]
  /\ ticked' = ticked \ {n} /\ half' = half \ {n}
  /\ UNCHANGED loaded

(* The cross of a label: one copy goes, and if its node has a tick, that   *)
(* and those below and above, as above.                                    *)
removeNode(n) ==
  LET gone == ticked \ Unticked(n)
  IN /\ labels[n] > 0
     /\ labels' = [labels EXCEPT ![n] = @ - 1]
     /\ IF n \in ticked
        THEN ticked' = ticked \ gone /\ half' = half \ (gone \cup Below(n))
        ELSE UNCHANGED <<ticked, half>>
     /\ UNCHANGED loaded

(* A node is expanded, for the first time or again: its children are       *)
(* loaded if they are not there, and ticked when it is ticked and not by   *)
(* half.                                                                   *)
onExpand(n) ==
  LET kids == {m \in Nodes : Parent[m] = n}
      whole == n \in ticked \ half
  IN /\ n \in Shown /\ kids # {}
     /\ loaded' = loaded \cup {n}
     /\ ticked' = IF whole THEN ticked \cup kids ELSE ticked
     /\ half' = IF whole THEN half \ kids ELSE half
     /\ UNCHANGED labels

Next == \E n \in AllNodes : \/ n \in Nodes /\ (onCheck(n) \/ onExpand(n))
                            \/ removeNode(n)

Spec == Init /\ [][Next]_vars

-----------------------------------------------------------------------------
TypeOK ==
  /\ loaded \subseteq AllNodes /\ ticked \subseteq Boxes \cap Shown
  /\ half \subseteq Boxes /\ labels \in [AllNodes -> 0..MaxCopies]

Covered(n) == labels[n] > 0 \/ \E m \in Above[n] : labels[m] > 0

(* No box has a tick under a box without one, whichever of zTree and the   *)
(* page took ticks away: the page's own loops must leave the tree as zTree *)
(* keeps it.                                                               *)
TicksReachUp ==
  \A n \in ticked : Above[n] \cap Boxes \subseteq ticked

(* Below a heading whose boxes have nothing below them the ticks are what  *)
(* the labels say; only the cross of the heading itself leaves them all    *)
(* ticked and none submitted.                                              *)
Flat(h) == h \in loaded /\ \A n \in Nodes : Parent[n] # h => h \notin Above[n]
FlatIsSubmitted ==
  \A h \in Headings : Flat(h) =>
    LET kids == children(h)
        covered == {n \in kids : Covered(n)}
    IN covered = kids \cap ticked \/ (kids \subseteq ticked /\ covered = {})
=============================================================================
