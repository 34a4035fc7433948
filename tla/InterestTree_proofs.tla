------------------------ MODULE InterestTree_proofs -------------------------
(***************************************************************************)
(* The ticks and labels of the choice of interests, for any tree and any   *)
(* sequence of clicks.                                                     *)
(***************************************************************************)
EXTENDS InterestTree, SumLemmas

(***************************************************************************)
(* The tree.                                                               *)
(***************************************************************************)
LEMMA PathTypes ==
  /\ \A n \in AllNodes : Path[n] \in Seq(AllNodes) /\ Len(Path[n]) \in Nat
  /\ \A n \in Nodes : Parent[n] \in AllNodes
  /\ \A n \in Nodes : Len(Path[n]) = 1 + Len(Path[Parent[n]])
  /\ Len(Path[Root]) = 0
<1>1. \A n \in AllNodes : Path[n] \in Seq(AllNodes) /\ Len(Path[n]) \in Nat
  BY PathAssumption
<1>2. \A n \in Nodes : Parent[n] \in AllNodes
  BY TreeAssumption DEF AllNodes
<1>3. ASSUME NEW n \in Nodes PROVE Len(Path[n]) = 1 + Len(Path[Parent[n]])
  <2>1. PICK p \in Seq(AllNodes) : p = Path[Parent[n]]
    BY <1>1, <1>2
  <2>2. Path[n] = <<Parent[n]>> \o p
    BY <2>1, PathAssumption
  <2> QED BY <2>1, <2>2
<1>4. Len(Path[Root]) = 0
  BY PathAssumption
<1> QED BY <1>1, <1>2, <1>3, <1>4

(* What the root has and parents pass on to their children, all nodes have. *)
LEMMA TreeInduction ==
  ASSUME NEW G, Root \in G, \A n \in Nodes : Parent[n] \in G => n \in G
  PROVE  AllNodes \subseteq G
<1> DEFINE H == {k \in Nat : \A n \in AllNodes : Len(Path[n]) <= k => n \in G}
<1>1. 0 \in H
  <2> SUFFICES ASSUME NEW n \in AllNodes, Len(Path[n]) <= 0 PROVE n \in G
    OBVIOUS
  <2>1. n \notin Nodes
    BY PathTypes
  <2> QED BY <2>1 DEF AllNodes
<1>2. ASSUME NEW k \in Nat, k \in H PROVE k + 1 \in H
  <2> SUFFICES ASSUME NEW n \in AllNodes, Len(Path[n]) <= k + 1 PROVE n \in G
    OBVIOUS
  <2>1. CASE n = Root
    BY <2>1
  <2>2. CASE n \in Nodes
    <3>1. Parent[n] \in AllNodes /\ Len(Path[Parent[n]]) <= k
      BY <2>2, PathTypes
    <3> QED BY <1>2, <2>2, <3>1
  <2> QED BY <2>1, <2>2 DEF AllNodes
<1>3. Nat \subseteq H
  <2> HIDE DEF H
  <2> QED BY <1>1, <1>2, NatInductionOverSet
<1> QED BY <1>3, PathTypes

(* The nodes above a node are its parent and the nodes above that.         *)
LEMMA AboveIs ==
  /\ Above[Root] = {}
  /\ \A n \in Nodes : Above[n] = {Parent[n]} \cup Above[Parent[n]]
  /\ \A n \in AllNodes : Above[n] \subseteq AllNodes
  /\ \A n \in AllNodes : \A k \in 1..Len(Path[n]) : Path[n][k] \in Above[n]
<1>1. \A n \in AllNodes : Above[n] = {Path[n][k] : k \in DOMAIN Path[n]}
  BY DEF Above, ToSet
<1>2. Root \in AllNodes /\ Nodes \subseteq AllNodes
  BY DEF AllNodes
<1>3. Above[Root] = {}
  BY <1>1, <1>2, PathAssumption
<1>4. ASSUME NEW n \in Nodes
      PROVE  Above[n] = {Parent[n]} \cup Above[Parent[n]]
  <2> DEFINE p == Path[Parent[n]]
  <2>1. Path[n] = <<Parent[n]>> \o p /\ p \in Seq(AllNodes)
    BY PathTypes, PathAssumption
  <2>2. Above[n] = {Path[n][k] : k \in DOMAIN Path[n]}
    BY <1>1, <1>2
  <2>3. Above[Parent[n]] = {p[k] : k \in DOMAIN p}
    BY <1>1, PathTypes
  <2> HIDE DEF p
  <2>4. /\ DOMAIN Path[n] = 1..(Len(p) + 1) /\ DOMAIN p = 1..Len(p)
        /\ Len(p) \in Nat
        /\ Path[n][1] = Parent[n]
        /\ \A k \in 1..Len(p) : Path[n][k + 1] = p[k]
    BY <2>1
  <2>5. Above[n] \subseteq {Parent[n]} \cup Above[Parent[n]]
    <3> SUFFICES ASSUME NEW k \in 1..(Len(p) + 1)
                 PROVE  Path[n][k] \in {Parent[n]} \cup Above[Parent[n]]
      BY <2>2, <2>4
    <3>1. CASE k = 1
      BY <2>4, <3>1
    <3>2. CASE k # 1
      <4>1. k - 1 \in 1..Len(p) /\ (k - 1) + 1 = k
        BY <2>4, <3>2
      <4>2. Path[n][k] = p[k - 1]
        BY <2>4, <4>1
      <4> QED BY <2>3, <2>4, <4>1, <4>2
    <3> QED BY <3>1, <3>2
  <2>6. Parent[n] \in Above[n]
    BY <2>2, <2>4
  <2>7. ASSUME NEW k \in 1..Len(p) PROVE p[k] \in Above[n]
    <3>1. k + 1 \in DOMAIN Path[n]
      BY <2>4
    <3> QED BY <2>2, <2>4, <3>1
  <2> QED BY <2>3, <2>4, <2>5, <2>6, <2>7
<1>5. \A n \in AllNodes : Above[n] \subseteq AllNodes
  BY <1>1, PathTypes
<1>6. \A n \in AllNodes : \A k \in 1..Len(Path[n]) : Path[n][k] \in Above[n]
  BY <1>1, PathTypes
<1> QED BY <1>3, <1>4, <1>5, <1>6

LEMMA NodesOfTree ==
  /\ Root \in AllNodes /\ Root \notin Nodes /\ Nodes \subseteq AllNodes
  /\ \A n \in AllNodes : n = Root \/ n \in Nodes
  /\ Headings = {n \in Nodes : Parent[n] = Root}
  /\ Boxes = Nodes \ Headings
BY TreeAssumption DEF AllNodes, Boxes

LEMMA AboveTransitive ==
  \A m, n \in AllNodes : m \in Above[n] => Above[m] \subseteq Above[n]
<1> USE NodesOfTree, PathTypes, AboveIs
<1> DEFINE C == {n \in AllNodes :
                   \A m \in Above[n] : m \in Nodes => Parent[m] \in Above[n]}
<1>1. AllNodes \subseteq C
  <2>1. Root \in C
    OBVIOUS
  <2>2. ASSUME NEW n \in Nodes, Parent[n] \in C PROVE n \in C
    <3>1. \A m \in Above[n] : m = Parent[n] \/ m \in Above[Parent[n]]
      OBVIOUS
    <3>2. Parent[n] \in Above[n] /\ Above[Parent[n]] \subseteq Above[n]
      OBVIOUS
    <3> QED BY <2>2, <3>1, <3>2
  <2> HIDE DEF C
  <2> QED BY <2>1, <2>2, TreeInduction
<1> DEFINE G == {m \in AllNodes :
                   \A n \in AllNodes : m \in Above[n] => Above[m] \subseteq Above[n]}
<1>2. AllNodes \subseteq G
  <2>1. Root \in G
    OBVIOUS
  <2>2. ASSUME NEW m \in Nodes, Parent[m] \in G PROVE m \in G
    BY <1>1, <2>2
  <2> HIDE DEF G
  <2> QED BY <2>1, <2>2, TreeInduction
<1> QED BY <1>2

(* Of two nodes above a third, one is above the other.                     *)
LEMMA AboveOrdered ==
  \A n \in AllNodes : \A k, m \in Above[n] :
     k = m \/ k \in Above[m] \/ m \in Above[k]
<1> USE NodesOfTree, PathTypes, AboveIs
<1> DEFINE G == {n \in AllNodes : \A k, m \in Above[n] :
                   k = m \/ k \in Above[m] \/ m \in Above[k]}
<1>1. Root \in G
  OBVIOUS
<1>2. ASSUME NEW n \in Nodes, Parent[n] \in G PROVE n \in G
  BY <1>2
<1>3. AllNodes \subseteq G
  <2> HIDE DEF G
  <2> QED BY <1>1, <1>2, TreeInduction
<1> QED BY <1>3

(* Above a heading there is the root only.                                 *)
LEMMA AboveOfHeading == \A h \in Headings : Above[h] = {Root}
BY NodesOfTree, PathTypes, AboveIs

-----------------------------------------------------------------------------
(***************************************************************************)
(* The climb of a tick from a box to the root.                             *)
(***************************************************************************)
States == [node : AllNodes, ticked : SUBSET AllNodes, half : SUBSET Boxes,
           list : [AllNodes -> Nat]]

Start(n) == [node |-> n, ticked |-> Ticked(n), half |-> half,
             list |-> appendLabel(labels, n)]

Climbs(n, c) ==
  c = [k \in 0..Len(Path[n]) |->
         IF k = 0 THEN Start(n) ELSE checkOnParent(c[k - 1], Path[n][k])]

Typed == ticked \subseteq AllNodes /\ half \subseteq Boxes
           /\ labels \in [AllNodes -> Nat]

LEMMA StartType == ASSUME Typed, NEW n \in Nodes PROVE Start(n) \in States
<1>1. Ticked(n) \subseteq AllNodes
  BY NodesOfTree, AboveIs DEF Typed, Ticked, Below, Shown
<1>2. appendLabel(labels, n) \in [AllNodes -> Nat]
  BY NodesOfTree DEF Typed, appendLabel
<1> QED BY <1>1, <1>2, NodesOfTree DEF Typed, Start, States

LEMMA ListTypes ==
  ASSUME NEW l \in [AllNodes -> Nat], NEW S
  PROVE  /\ Without(l, S) \in [AllNodes -> Nat]
         /\ \A m \in AllNodes : Without(l, S)[m] = IF m \in S THEN 0 ELSE l[m]
BY DEF Without

LEMMA ParentType ==
  ASSUME NEW st \in States, NEW p \in AllNodes
  PROVE  checkOnParent(st, p) \in States
<1> DEFINE w == Without(st.list, Below(p))
<1>1. /\ st.ticked \in SUBSET AllNodes /\ st.half \in SUBSET Boxes
      /\ st.list \in [AllNodes -> Nat]
  BY DEF States
<1>2. w \in [AllNodes -> Nat]
  BY <1>1, ListTypes
<1>3. appendLabel(w, p) \in [AllNodes -> Nat]
  BY <1>2 DEF appendLabel
<1>4. (IF children(p) \subseteq st.ticked \ st.half THEN appendLabel(w, p)
       ELSE st.list) \in [AllNodes -> Nat]
  BY <1>1, <1>3
<1> QED BY <1>1, <1>4 DEF checkOnParent, States

LEMMA ClimbExists ==
  ASSUME Typed, NEW n \in Nodes
  PROVE  \E c \in [0..Len(Path[n]) -> States] : Climbs(n, c)
<1> DEFINE L == Len(Path[n])
           After(c, k) == IF k = 0 THEN Start(n)
                          ELSE checkOnParent(c[k - 1], Path[n][k])
           UpTo(c, m) == \A k \in 0..L : k <= m => c[k] = After(c, k)
           G == {m \in Nat : \E c \in [0..L -> States] : UpTo(c, m)}
<1>1. L \in Nat /\ \A k \in 1..L : Path[n][k] \in AllNodes
  BY NodesOfTree, PathTypes, AboveIs
<1>2. Start(n) \in States
  BY StartType
<1>3. ASSUME NEW c \in [0..L -> States], NEW k \in 0..L PROVE After(c, k) \in States
  <2>1. CASE k = 0
    BY <1>2, <2>1
  <2>2. CASE k # 0
    <3>1. c[k - 1] \in States /\ Path[n][k] \in AllNodes
      BY <1>1, <2>2
    <3>2. checkOnParent(c[k - 1], Path[n][k]) \in States
      BY <3>1, ParentType
    <3> QED BY <2>2, <3>2
  <2> QED BY <2>1, <2>2
<1> HIDE DEF L
<1>4. 0 \in G
  <2> DEFINE c == [k \in 0..L |-> Start(n)]
  <2>1. c \in [0..L -> States]
    BY <1>2
  <2>2. UpTo(c, 0)
    BY <1>1
  <2> QED BY <2>1, <2>2
<1>5. ASSUME NEW m \in Nat, m \in G PROVE m + 1 \in G
  <2>1. PICK c \in [0..L -> States] : UpTo(c, m)
    BY <1>5
  <2> DEFINE d == [k \in 0..L |-> After(c, k)]
  <2>2. d \in [0..L -> States]
    <3> HIDE DEF After
    <3> QED BY <1>3
  <2>3. UpTo(d, m + 1)
    <3> SUFFICES ASSUME NEW k \in 0..L, k <= m + 1 PROVE d[k] = After(d, k)
      OBVIOUS
    <3>1. CASE k = 0
      BY <3>1
    <3>2. CASE k # 0
      <4>1. k - 1 \in 0..L /\ k - 1 <= m
        BY <1>1, <3>2
      <4>2. d[k - 1] = c[k - 1]
        BY <2>1, <4>1
      <4> QED BY <3>2, <4>2
    <3> QED BY <3>1, <3>2
  <2>4. \E b \in [0..L -> States] : UpTo(b, m + 1)
    <3> HIDE DEF UpTo, d
    <3> QED BY <2>2, <2>3
  <2> HIDE DEF UpTo, d
  <2> QED BY <2>4
<1>6. L \in G
  <2>1. Nat \subseteq G
    <3> HIDE DEF G
    <3> QED BY <1>4, <1>5, NatInductionOverSet
  <2> QED BY <1>1, <2>1
<1>7. PICK c \in [0..L -> States] : UpTo(c, L)
  BY <1>6
<1>8. \A k \in 0..L : k <= L
  BY <1>1
<1>9. c = [k \in 0..L |-> After(c, k)]
  <2> HIDE DEF After
  <2> QED BY <1>7, <1>8
<1> QED BY <1>9 DEF Climbs, L

LEMMA ClimbIs ==
  ASSUME Typed, NEW n \in Nodes
  PROVE  /\ Climb(n)[0] = Start(n)
         /\ \A k \in 1..Len(Path[n]) :
              Climb(n)[k] = checkOnParent(Climb(n)[k - 1], Path[n][k])
<1>1. Climb(n) = CHOOSE c : Climbs(n, c)
  BY DEF Climb, Climbs, Start
<1>2. \E c : Climbs(n, c)
  BY ClimbExists
<1>3. Climbs(n, Climb(n))
  BY <1>1, <1>2
<1> HIDE DEF Climb
<1>4. Len(Path[n]) \in Nat
  BY NodesOfTree, PathTypes
<1>5. PICK c : c = Climb(n)
  OBVIOUS
<1>6. c = [k \in 0..Len(Path[n]) |->
             IF k = 0 THEN Start(n) ELSE checkOnParent(c[k - 1], Path[n][k])]
  BY <1>3, <1>5 DEF Climbs
<1>7. c[0] = Start(n)
  BY <1>4, <1>6
<1>8. \A k \in 1..Len(Path[n]) : c[k] = checkOnParent(c[k - 1], Path[n][k])
  BY <1>4, <1>6
<1> QED BY <1>5, <1>7, <1>8

(* What the tick begins with and every node above keeps, it ends with.     *)
LEMMA ClimbInduction ==
  ASSUME Typed, NEW n \in Nodes, NEW G \in SUBSET States, Start(n) \in G,
         \A st \in G : \A p \in Above[n] : checkOnParent(st, p) \in G
  PROVE  Climb(n)[Len(Path[n])] \in G
<1> DEFINE H == {k \in Nat : k <= Len(Path[n]) => Climb(n)[k] \in G}
<1>1. 0 \in H
  BY ClimbIs
<1>2. ASSUME NEW k \in Nat, k \in H PROVE k + 1 \in H
  <2> SUFFICES ASSUME k + 1 <= Len(Path[n]) PROVE Climb(n)[k + 1] \in G
    OBVIOUS
  <2>1. Len(Path[n]) \in Nat
    BY NodesOfTree, PathTypes
  <2>2. Climb(n)[k] \in G
    BY <1>2, <2>1
  <2>3. k + 1 \in 1..Len(Path[n]) /\ (k + 1) - 1 = k
    BY <2>1
  <2>4. Path[n][k + 1] \in Above[n]
    BY <2>3, NodesOfTree, AboveIs
  <2>5. Climb(n)[k + 1] = checkOnParent(Climb(n)[k], Path[n][k + 1])
    BY <2>3, ClimbIs
  <2> QED BY <2>2, <2>4, <2>5
<1>3. Nat \subseteq H
  <2> HIDE DEF H
  <2> QED BY <1>1, <1>2, NatInductionOverSet
<1> QED BY <1>3, NodesOfTree, PathTypes

-----------------------------------------------------------------------------
(***************************************************************************)
(* Ticks: a box with a tick is shown, and so are the boxes above it, which *)
(* have ticks, too.                                                        *)
(***************************************************************************)
LoadedOK ==
  /\ Root \in loaded /\ loaded \subseteq AllNodes
  /\ \A n \in loaded \cap Nodes : Parent[n] \in loaded

TicksOK == ticked \subseteq Boxes \cap Shown /\ TicksReachUp

LabelsOK == half \subseteq Boxes /\ labels \in [AllNodes -> 0..MaxCopies]

TreeInv == LoadedOK /\ TicksOK /\ LabelsOK

LEMMA InvIsTyped == ASSUME TreeInv PROVE Typed
BY NodesOfTree, TreeAssumption
   DEF TreeInv, TicksOK, LabelsOK, Typed, Shown

LEMMA ShownAbove ==
  ASSUME LoadedOK
  PROVE  \A n \in Shown : \A m \in Above[n] : m \in Nodes => m \in Shown
<1> DEFINE G == {n \in AllNodes : n \in loaded \/ n \in Shown =>
                   \A m \in Above[n] : m \in loaded}
<1> USE NodesOfTree, PathTypes, AboveIs DEF LoadedOK, Shown
<1>1. Root \in G
  OBVIOUS
<1>2. ASSUME NEW n \in Nodes, Parent[n] \in G PROVE n \in G
  BY <1>2
<1>3. AllNodes \subseteq G
  <2> HIDE DEF G
  <2> QED BY <1>1, <1>2, TreeInduction
<1> QED BY <1>3

(* Below a box there are boxes.                                            *)
LEMMA BoxesBelow ==
  ASSUME NEW n \in Nodes, NEW m \in Nodes, n \in Above[m]
  PROVE  m \in Boxes
BY NodesOfTree, AboveOfHeading

LEMMA TickedReachesUp ==
  ASSUME LoadedOK, TicksOK, NEW n \in Shown \cap Boxes
  PROVE  /\ Ticked(n) \subseteq Boxes \cap Shown
         /\ \A m \in Ticked(n) : Above[m] \cap Boxes \subseteq Ticked(n)
<1> USE NodesOfTree
<1>1. Below(n) \subseteq Boxes \cap Shown
  BY BoxesBelow DEF Below, Shown
<1>2. Above[n] \cap Boxes \subseteq Shown
  BY ShownAbove
<1>3. Ticked(n) \subseteq Boxes \cap Shown
  BY <1>1, <1>2 DEF Ticked, TicksOK
<1>4. ASSUME NEW m \in Ticked(n) PROVE Above[m] \cap Boxes \subseteq Ticked(n)
  <2>1. CASE m \in ticked
    BY <2>1 DEF Ticked, TicksOK, TicksReachUp
  <2>2. CASE m = n
    BY <2>2 DEF Ticked
  <2>3. CASE m \in Below(n)
    <3> SUFFICES ASSUME NEW k \in Above[m] \cap Boxes PROVE k \in Ticked(n)
      OBVIOUS
    <3>1. m \in Shown /\ n \in Above[m] /\ m \in Nodes
      BY <2>3 DEF Below, Shown
    <3>2. k \in Shown
      BY <3>1, ShownAbove
    <3>3. k = n \/ k \in Above[n] \/ n \in Above[k]
      BY <3>1, AboveOrdered
    <3> QED BY <3>2, <3>3 DEF Ticked, Below
  <2>4. CASE m \in Above[n] \cap Boxes
    <3>1. Above[m] \subseteq Above[n]
      BY <2>4, AboveTransitive
    <3> QED BY <3>1 DEF Ticked
  <2> QED BY <2>1, <2>2, <2>3, <2>4 DEF Ticked
<1> QED BY <1>3, <1>4

LEMMA UntickedReachesUp ==
  ASSUME TicksOK, NEW n \in Nodes
  PROVE  \A m \in Unticked(n) : Above[m] \cap Boxes \subseteq Unticked(n)
<1> USE NodesOfTree
<1> DEFINE rest == ticked \ ({n} \cup Below(n))
<1> SUFFICES ASSUME NEW x \in Unticked(n), NEW y \in Above[x] \cap Boxes
             PROVE  y \in Unticked(n)
  OBVIOUS
<1>1. /\ x \in rest
      /\ x \in Above[n] => \E k \in Below(x) : k \in rest /\ k \notin Above[n]
  BY DEF Unticked
<1>2. x \in Boxes \cap Shown /\ y \in ticked
  BY <1>1 DEF TicksOK, TicksReachUp
<1>3. n \notin Above[x] /\ n # x
  BY <1>1, <1>2 DEF Below
<1>4. y # n
  BY <1>3
<1>5. y \notin Below(n)
  <2>1. Above[y] \subseteq Above[x]
    BY <1>2, AboveTransitive
  <2> QED BY <1>3, <2>1 DEF Below
<1>6. y \in rest
  BY <1>2, <1>4, <1>5
<1>7. ASSUME y \in Above[n]
      PROVE  \E k \in Below(y) : k \in rest /\ k \notin Above[n]
  <2>1. CASE x \notin Above[n]
    <3>1. x \in Below(y)
      BY <1>2 DEF Below
    <3> QED BY <1>1, <2>1, <3>1
  <2>2. CASE x \in Above[n]
    <3>1. PICK k \in Below(x) : k \in rest /\ k \notin Above[n]
      BY <1>1, <2>2
    <3>2. k \in Shown /\ x \in Above[k] /\ k \in AllNodes /\ x \in AllNodes
      BY <1>2, <3>1 DEF Below, Shown
    <3>3. y \in Above[k]
      BY <3>2, AboveTransitive
    <3>4. k \in Below(y)
      BY <3>2, <3>3 DEF Below
    <3> QED BY <3>1, <3>4
  <2> QED BY <2>1, <2>2
<1> HIDE DEF rest
<1>8. Unticked(n) = rest \ {m \in Above[n] : \A k \in Below(m) : k \in rest => k \in Above[n]}
  BY DEF Unticked, rest
<1> QED BY <1>6, <1>7, <1>8

LEMMA TreeInit == Init => TreeInv
<1> SUFFICES ASSUME Init PROVE TreeInv
  OBVIOUS
<1> QED BY NodesOfTree, TreeAssumption
        DEF Init, TreeInv, LoadedOK, TicksOK, TicksReachUp, LabelsOK

(* What is loaded and ticked after a tick is a matter of zTree.            *)
LEMMA ClimbKeepsTicks ==
  ASSUME Typed, NEW n \in Nodes
  PROVE  /\ Climb(n)[Len(Path[n])] \in States
         /\ Climb(n)[Len(Path[n])].ticked = Ticked(n)
<1> DEFINE G == {st \in States : st.ticked = Ticked(n)}
<1>1. Start(n) \in G
  BY StartType DEF Start
<1>2. ASSUME NEW st \in G, NEW p \in Above[n] PROVE checkOnParent(st, p) \in G
  <2>1. p \in AllNodes
    BY NodesOfTree, AboveIs
  <2>2. checkOnParent(st, p) \in States
    BY <2>1, ParentType
  <2>3. checkOnParent(st, p).ticked = st.ticked
    BY DEF checkOnParent
  <2> QED BY <2>2, <2>3
<1>3. Climb(n)[Len(Path[n])] \in G
  <2> HIDE DEF G
  <2>1. G \in SUBSET States
    BY DEF G
  <2> QED BY <1>1, <1>2, <2>1, ClimbInduction
<1> QED BY <1>3

LEMMA CheckOnTree ==
  ASSUME TreeInv, NEW n \in Shown \cap Boxes, checkOn(n)
  PROVE  TreeInv'
<1> DEFINE end == Climb(n)[Len(Path[n])]
<1>1. n \in Nodes
  BY NodesOfTree
<1>2. end \in States /\ end.ticked = Ticked(n)
  BY <1>1, InvIsTyped, ClimbKeepsTicks
<1>3. /\ ticked' = end.ticked /\ half' = end.half /\ labels' = end.list
      /\ \A m \in AllNodes : end.list[m] <= MaxCopies
      /\ loaded' = loaded
  BY DEF checkOn
<1> HIDE DEF end
<1>4. LoadedOK'
  BY <1>3 DEF TreeInv, LoadedOK
<1>5. TicksOK'
  <2>1. Shown' = Shown
    BY <1>3 DEF Shown
  <2>2. ticked' = Ticked(n)
    BY <1>2, <1>3
  <2>3. /\ Ticked(n) \subseteq Boxes \cap Shown
        /\ \A m \in Ticked(n) : Above[m] \cap Boxes \subseteq Ticked(n)
    BY TickedReachesUp DEF TreeInv
  <2> HIDE DEF Ticked
  <2> QED BY <2>1, <2>2, <2>3 DEF TicksOK, TicksReachUp
<1>6. LabelsOK'
  <2>1. labels' \in [AllNodes -> Nat] /\ half' \subseteq Boxes
    BY <1>2, <1>3 DEF States
  <2>2. \A m \in AllNodes : labels'[m] \in 0..MaxCopies
    BY <1>3, <2>1, TreeAssumption
  <2> QED BY <2>1, <2>2 DEF LabelsOK
<1> QED BY <1>4, <1>5, <1>6 DEF TreeInv

(* When only the ticks of Unticked(n) are left.                            *)
LEMMA UntickedTree ==
  ASSUME TreeInv, NEW n \in Nodes, ticked' = Unticked(n), loaded' = loaded
  PROVE  LoadedOK' /\ TicksOK'
<1>1. LoadedOK'
  BY DEF TreeInv, LoadedOK
<1>2. Unticked(n) \subseteq ticked
  BY DEF Unticked
<1>3. \A m \in Unticked(n) : Above[m] \cap Boxes \subseteq Unticked(n)
  BY UntickedReachesUp DEF TreeInv
<1>4. Shown' = Shown
  BY DEF Shown
<1> QED BY <1>1, <1>2, <1>3, <1>4 DEF TreeInv, TicksOK, TicksReachUp

LEMMA CheckOffTree ==
  ASSUME TreeInv, NEW n \in Shown \cap Boxes, checkOff(n)
  PROVE  TreeInv'
<1>1. n \in Nodes
  BY NodesOfTree
<1>2. ticked' = Unticked(n) /\ loaded' = loaded
  BY DEF checkOff
<1>3. LoadedOK' /\ TicksOK'
  BY <1>1, <1>2, UntickedTree
<1>4. half' \subseteq Boxes
  <2>1. Unticked(n) \subseteq Boxes
    BY DEF Unticked, TreeInv, TicksOK
  <2>2. half' = (half \ ({n, Parent[n]} \cup Below(n))) \cup ({Parent[n]} \cap Unticked(n))
    BY DEF checkOff
  <2> QED BY <2>1, <2>2 DEF TreeInv, LabelsOK
<1>5. labels' \in [AllNodes -> 0..MaxCopies]
  <2> DEFINE kept == Without(labels, {n} \cup Above[n] \cup Below(n))
  <2>1. kept \in [AllNodes -> 0..MaxCopies]
    BY TreeAssumption DEF Without, TreeInv, LabelsOK
  <2>2. PICK S : \/ labels' = [m \in AllNodes |-> IF m \in S THEN 1 ELSE kept[m]]
                 \/ labels' = kept
    BY DEF checkOff
  <2> HIDE DEF kept
  <2> QED BY <2>1, <2>2, TreeAssumption
<1> QED BY <1>3, <1>4, <1>5 DEF TreeInv, LabelsOK

LEMMA RemoveTree ==
  ASSUME TreeInv, NEW n \in AllNodes, removeNode(n)
  PROVE  TreeInv'
<1>1. loaded' = loaded /\ labels[n] > 0 /\ labels' = [labels EXCEPT ![n] = @ - 1]
  BY DEF removeNode
<1>2. labels' \in [AllNodes -> 0..MaxCopies]
  <2>1. labels[n] - 1 \in 0..MaxCopies
    BY <1>1, TreeAssumption DEF TreeInv, LabelsOK
  <2> QED BY <1>1, <2>1 DEF TreeInv, LabelsOK
<1>3. CASE n \in ticked
  <2>1. n \in Nodes
    BY <1>3, NodesOfTree DEF TreeInv, TicksOK
  <2>2. ticked' = ticked \ (ticked \ Unticked(n)) /\ half' \subseteq half
    BY <1>3 DEF removeNode
  <2>3. ticked' = Unticked(n)
    BY <2>2 DEF Unticked
  <2> QED BY <1>1, <1>2, <2>1, <2>2, <2>3, UntickedTree DEF TreeInv, LabelsOK
<1>4. CASE n \notin ticked
  <2>1. UNCHANGED <<ticked, half>>
    BY <1>4 DEF removeNode
  <2> QED BY <1>1, <1>2, <2>1
          DEF TreeInv, LoadedOK, TicksOK, TicksReachUp, Shown, LabelsOK
<1> QED BY <1>3, <1>4

LEMMA ExpandTree ==
  ASSUME TreeInv, NEW n \in Nodes, onExpand(n)
  PROVE  TreeInv'
<1> USE NodesOfTree
<1> DEFINE kids == {m \in Nodes : Parent[m] = n}
<1>1. /\ n \in Shown /\ loaded' = loaded \cup {n} /\ labels' = labels
      /\ \/ ticked' = ticked /\ half' = half
         \/ n \in ticked /\ ticked' = ticked \cup kids /\ half' = half \ kids
  BY DEF onExpand
<1>2. LoadedOK'
  BY <1>1 DEF TreeInv, LoadedOK, Shown
<1>3. LabelsOK'
  BY <1>1 DEF TreeInv, LabelsOK
<1>4. Shown \cup kids \subseteq Shown'
  BY <1>1 DEF Shown
<1>5. CASE ticked' = ticked
  BY <1>2, <1>3, <1>4, <1>5 DEF TreeInv, TicksOK, TicksReachUp
<1>6. CASE n \in ticked /\ ticked' = ticked \cup kids
  <2>1. kids \subseteq Boxes
    OBVIOUS
  <2>2. \A m \in kids : Above[m] = {n} \cup Above[n]
    BY AboveIs
  <2>3. \A m \in ticked' : Above[m] \cap Boxes \subseteq ticked'
    BY <1>6, <2>2 DEF TreeInv, TicksOK, TicksReachUp
  <2> QED BY <1>2, <1>3, <1>4, <1>6, <2>1, <2>3 DEF TreeInv, TicksOK, TicksReachUp
<1> QED BY <1>1, <1>2, <1>3, <1>5, <1>6 DEF TreeInv

LEMMA TreeStep == TreeInv /\ [Next]_vars => TreeInv'
<1> SUFFICES ASSUME TreeInv, [Next]_vars PROVE TreeInv'
  OBVIOUS
<1>1. ASSUME NEW n \in Nodes, onCheck(n) PROVE TreeInv'
  BY <1>1, CheckOnTree, CheckOffTree DEF onCheck
<1>2. ASSUME NEW n \in Nodes, onExpand(n) PROVE TreeInv'
  BY <1>2, ExpandTree
<1>3. ASSUME NEW n \in AllNodes, removeNode(n) PROVE TreeInv'
  BY <1>3, RemoveTree
<1>4. CASE UNCHANGED vars
  BY <1>4 DEF vars, TreeInv, LoadedOK, TicksOK, TicksReachUp, Shown, LabelsOK
<1> QED BY <1>1, <1>2, <1>3, <1>4 DEF Next

(* Only boxes that are there have ticks, only boxes are ticked by half.    *)
THEOREM TreeTypeCorrect == Spec => []TypeOK
<1>1. TreeInv => TypeOK
  BY DEF TreeInv, LoadedOK, TicksOK, LabelsOK, TypeOK
<1> QED BY TreeInit, TreeStep, <1>1, PTL DEF Spec

(* No box ever has a tick under a box without one, in any tree, whichever  *)
(* ticks, crosses and expansions zTree and the page handle in turn         *)
(* (removeChildNode and removeParentNode of intersttree.js).               *)
THEOREM TicksHaveTicksAbove == Spec => []TicksReachUp
<1>1. TreeInv => TicksReachUp
  BY DEF TreeInv, TicksOK
<1> QED BY TreeInit, TreeStep, <1>1, PTL DEF Spec

-----------------------------------------------------------------------------
(***************************************************************************)
(* Flat headings: the labels of the boxes below one are the ticks, or they *)
(* have all been replaced by its own, or that has been crossed out since.  *)
(* No step at another node has anything to do with it.                     *)
(***************************************************************************)
Kids(h) == {m \in Nodes : Parent[m] = h}
NothingBelow(h) == \A n \in Nodes : Parent[n] # h => h \notin Above[n]

EachItsOwn(h) ==
  labels[h] = 0 /\ \A k \in Kids(h) : labels[k] = IF k \in ticked THEN 1 ELSE 0

OneForAll(h) ==
  /\ labels[h] \in {0, 1} /\ Kids(h) \subseteq ticked
  /\ \A k \in Kids(h) : labels[k] = 0

FlatOK ==
  \A h \in Headings : NothingBelow(h) =>
    labels[Root] = 0 /\ (EachItsOwn(h) \/ OneForAll(h))

(* The part of the tree a flat heading is.                                 *)
LEMMA FlatTree ==
  ASSUME NEW h \in Headings, NothingBelow(h)
  PROVE  /\ h \in Nodes /\ h \notin Boxes /\ h # Root /\ h \notin Kids(h)
         /\ Above[h] = {Root}
         /\ \A k \in Kids(h) : /\ k \in Boxes /\ Parent[k] = h
                               /\ Above[k] = {h, Root} /\ k # h /\ k # Root
         /\ \A n \in Nodes : h \in Above[n] => n \in Kids(h)
         /\ \A n \in AllNodes, k \in Kids(h) : k \notin Above[n]
<1> USE NodesOfTree
<1>1. h \in Nodes /\ h \notin Boxes /\ h # Root /\ Above[h] = {Root}
  BY AboveOfHeading
<1>2. ASSUME NEW k \in Kids(h)
      PROVE  /\ k \in Boxes /\ Parent[k] = h
             /\ Above[k] = {h, Root} /\ k # h /\ k # Root
  BY <1>1, AboveIs DEF Kids
<1>3. \A n \in Nodes : h \in Above[n] => n \in Kids(h)
  BY DEF NothingBelow, Kids
<1>4. ASSUME NEW n \in AllNodes, NEW k \in Kids(h), k \in Above[n] PROVE FALSE
  <2>1. h \in Above[n]
    BY <1>2, <1>4, AboveTransitive DEF Kids
  <2>2. n \in Kids(h)
    BY <1>3, <2>1, AboveIs
  <2> QED BY <1>2, <1>4, <2>2
<1>5. h \notin Kids(h)
  BY <1>2
<1> QED BY <1>1, <1>2, <1>3, <1>4, <1>5

(* A click elsewhere, or at a box of the heading, reaches no other box of  *)
(* it and nothing above; Root is not a box.                                *)
LEMMA FlatReach ==
  ASSUME NEW h \in Headings, NothingBelow(h), NEW n \in Nodes, n # h
  PROVE  /\ (Kids(h) \cup {h, Root}) \cap Below(n) = {}
         /\ Kids(h) \cap Above[n] = {}
         /\ n \notin Kids(h) => h \notin Above[n]
<1> USE NodesOfTree
<1>1. (Kids(h) \cup {h}) \cap Below(n) = {}
  BY FlatTree DEF Below
<1>2. Root \notin Below(n)
  BY DEF Below, Shown
<1> QED BY <1>1, <1>2, FlatTree

LEMMA FlatTicks ==
  ASSUME NEW h \in Headings, NothingBelow(h), NEW n \in Nodes, n # h
  PROVE  /\ Ticked(n) \cap Kids(h) = (ticked \cup {n}) \cap Kids(h)
         /\ Unticked(n) \cap Kids(h) = (ticked \ {n}) \cap Kids(h)
BY FlatReach DEF Ticked, Unticked

LEMMA FlatInit == Init => FlatOK
<1> SUFFICES ASSUME Init, NEW h \in Headings, NothingBelow(h)
             PROVE  labels[Root] = 0 /\ EachItsOwn(h)
  BY DEF FlatOK
<1>1. Root \in AllNodes /\ h \in AllNodes /\ Kids(h) \subseteq AllNodes
  BY FlatTree, NodesOfTree DEF Kids
<1> QED BY <1>1 DEF Init, EachItsOwn

(* When neither labels nor ticks of the heading and its boxes change.      *)
LEMMA FlatUntouched ==
  ASSUME NEW h \in Headings,
         labels[Root] = 0, EachItsOwn(h) \/ OneForAll(h),
         labels'[Root] = labels[Root], labels'[h] = labels[h],
         \A k \in Kids(h) : labels'[k] = labels[k],
         ticked' \cap Kids(h) = ticked \cap Kids(h)
  PROVE  labels'[Root] = 0 /\ (EachItsOwn(h)' \/ OneForAll(h)')
<1>1. EachItsOwn(h) => EachItsOwn(h)'
  BY DEF EachItsOwn, Kids
<1>2. OneForAll(h) => OneForAll(h)'
  BY DEF OneForAll, Kids
<1> QED BY <1>1, <1>2

(* The root never has all headings ticked below it: they have no boxes.    *)
LEMMA RootNeverFull ==
  ASSUME LoadedOK, NEW h \in Headings, NEW t, t \subseteq Boxes
  PROVE  ~ (children(Root) \subseteq t)
BY NodesOfTree DEF LoadedOK, children

LEMMA CheckOnElsewhere ==
  ASSUME TreeInv, NEW h \in Headings, NothingBelow(h),
         labels[Root] = 0, NEW n \in Shown \cap Boxes, n \notin Kids(h),
         checkOn(n)
  PROVE  /\ labels'[Root] = 0 /\ labels'[h] = labels[h]
         /\ \A k \in Kids(h) : labels'[k] = labels[k]
         /\ ticked' \cap Kids(h) = ticked \cap Kids(h)
<1> DEFINE Mine == Kids(h) \cup {h, Root}
           Same(list) == \A m \in Mine : list[m] = labels[m]
           G == {st \in States : st.ticked = Ticked(n) /\ Same(st.list)}
           end == Climb(n)[Len(Path[n])]
<1>1. n \in Nodes /\ n # h /\ n \notin Mine /\ Mine \subseteq AllNodes
  BY NodesOfTree, FlatTree DEF Kids
<1>2. Typed /\ LoadedOK /\ labels \in [AllNodes -> Nat]
  BY InvIsTyped DEF TreeInv, Typed
<1>3. Ticked(n) \subseteq Boxes
  BY <1>2, TickedReachesUp DEF TreeInv
<1>4. Start(n) \in G
  <2>1. Start(n) \in States
    BY <1>1, <1>2, StartType
  <2>2. Same(appendLabel(labels, n))
    BY <1>1, <1>2 DEF appendLabel
  <2> QED BY <2>1, <2>2 DEF Start
<1>5. ASSUME NEW st \in G, NEW p \in Above[n] PROVE checkOnParent(st, p) \in G
  <2> DEFINE w == Without(st.list, Below(p))
  <2>1. p \in AllNodes /\ checkOnParent(st, p) \in States
    BY <1>1, NodesOfTree, AboveIs, ParentType
  <2>2. checkOnParent(st, p).ticked = Ticked(n)
    BY DEF checkOnParent
  <2>3. st.list \in [AllNodes -> Nat]
    BY DEF States
  <2>4. CASE p = Root
    <3>1. ~ (children(p) \subseteq st.ticked \ st.half)
      BY <1>2, <1>3, <2>4, RootNeverFull
    <3>2. checkOnParent(st, p).list = st.list
      BY <3>1 DEF checkOnParent
    <3> QED BY <2>1, <2>2, <3>2
  <2>5. CASE p # Root
    <3>1. p \in Nodes /\ p # h /\ p \notin Mine
      BY <1>1, <2>1, <2>5, NodesOfTree, FlatReach
    <3>2. Mine \cap Below(p) = {}
      BY <3>1, FlatReach
    <3>3. w \in [AllNodes -> Nat] /\ \A m \in Mine : w[m] = st.list[m]
      BY <1>1, <2>3, <3>2, ListTypes
    <3>4. \A m \in Mine : appendLabel(w, p)[m] = st.list[m]
      <4> HIDE DEF w
      <4> QED BY <1>1, <3>1, <3>3 DEF appendLabel
    <3>5. \A m \in Mine : checkOnParent(st, p).list[m] = st.list[m]
      BY <3>4 DEF checkOnParent
    <3> QED BY <2>1, <2>2, <3>5
  <2> QED BY <2>4, <2>5
<1>6. end \in G
  <2> HIDE DEF G
  <2>1. G \in SUBSET States
    BY DEF G
  <2> QED BY <1>1, <1>2, <1>4, <1>5, <2>1, ClimbInduction
<1>7. ticked' = Ticked(n) /\ labels' = end.list
  BY <1>6 DEF checkOn
<1>8. Ticked(n) \cap Kids(h) = ticked \cap Kids(h)
  BY <1>1, FlatTicks
<1> HIDE DEF end
<1> QED BY <1>6, <1>7, <1>8

LEMMA FlatPath ==
  ASSUME NEW h \in Headings, NEW n \in Kids(h)
  PROVE  Len(Path[n]) = 2 /\ Path[n][1] = h /\ Path[n][2] = Root
<1>1. n \in Nodes /\ Parent[n] = h /\ h \in Nodes /\ Parent[h] = Root
  BY NodesOfTree DEF Kids
<1>2. Path[h] = <<Root>> \o <<>>
  BY <1>1, PathAssumption
<1>3. Path[h] = <<Root>>
  BY <1>2
<1>4. Path[n] = <<h>> \o <<Root>>
  BY <1>1, <1>3, PathAssumption
<1> QED BY <1>4

(* A box of the heading is ticked: it gets a label, or if it was the last  *)
(* one without a tick the heading gets one for all.                        *)
LEMMA CheckOnKid ==
  ASSUME TreeInv, NEW h \in Headings, NothingBelow(h),
         labels[Root] = 0, EachItsOwn(h) \/ OneForAll(h),
         NEW n \in Kids(h), n \in Shown, checkOn(n)
  PROVE  labels'[Root] = 0 /\ (EachItsOwn(h)' \/ OneForAll(h)')
<1> DEFINE st0 == Start(n)
           st1 == checkOnParent(st0, h)
           st2 == checkOnParent(st1, Root)
<1>1. n \in Nodes /\ n \in Boxes /\ n # h /\ h \in AllNodes
  BY NodesOfTree, FlatTree DEF Kids
<1>2. Typed /\ LoadedOK /\ labels \in [AllNodes -> Nat] /\ Kids(h) \subseteq AllNodes
  BY InvIsTyped, NodesOfTree DEF TreeInv, Typed, Kids
<1>3. Climb(n)[2] = st2
  <2>1. Climb(n)[0] = st0 /\ \A k \in 1..2 :
          Climb(n)[k] = checkOnParent(Climb(n)[k - 1], Path[n][k])
    BY <1>1, <1>2, ClimbIs, FlatPath
  <2>2. Climb(n)[1] = st1
    BY <2>1, FlatPath
  <2>3. Climb(n)[2] = checkOnParent(Climb(n)[1], Root)
    BY <2>1, FlatPath
  <2> QED BY <2>2, <2>3
<1>4. st0 \in States /\ st1 \in States
  BY <1>1, <1>2, StartType, ParentType
<1>5. st0.ticked = Ticked(n) /\ st1.ticked = Ticked(n) /\ st2.ticked = Ticked(n)
  BY DEF Start, checkOnParent
<1>6. Ticked(n) \subseteq Boxes
  BY <1>1, <1>2, TickedReachesUp DEF TreeInv
<1>7. st2.list = st1.list
  <2>1. ~ (children(Root) \subseteq st1.ticked \ st1.half)
    BY <1>2, <1>5, <1>6, RootNeverFull
  <2> QED BY <2>1 DEF checkOnParent
<1>8. n \notin ticked /\ ticked' = Ticked(n) /\ labels' = st1.list
  BY <1>3, <1>5, <1>7, FlatPath DEF checkOn
<1>9. ticked' \cap Kids(h) = (ticked \cup {n}) \cap Kids(h)
  BY <1>1, <1>8, FlatTicks
<1>10. EachItsOwn(h)
  BY <1>8 DEF OneForAll
<1>11. /\ st0.list \in [AllNodes -> Nat] /\ st0.list[h] = 0 /\ st0.list[Root] = 0
       /\ \A k \in Kids(h) : st0.list[k] = IF k \in ticked' THEN 1 ELSE 0
  <2>1. st0.list = [labels EXCEPT ![n] = @ + 1]
    BY DEF Start, appendLabel
  <2>2. n # Root /\ Root \in AllNodes
    BY <1>1, NodesOfTree
  <2>3. labels[n] = 0 /\ n \in ticked'
    BY <1>8, <1>9, <1>10 DEF EachItsOwn
  <2>4. \A k \in Kids(h) : k # n =>
          st0.list[k] = IF k \in ticked' THEN 1 ELSE 0
    BY <1>2, <1>9, <1>10, <2>1 DEF EachItsOwn
  <2> QED BY <1>1, <1>2, <1>10, <2>1, <2>2, <2>3, <2>4 DEF EachItsOwn
<1>12. children(h) = Kids(h) /\ Kids(h) \subseteq Below(h)
  <2>1. h \in loaded
    BY FlatTree DEF Shown
  <2> QED BY <2>1, FlatTree DEF children, Kids, Below, Shown
<1>13. CASE Kids(h) \subseteq st0.ticked \ st0.half
  <2> DEFINE w == Without(st0.list, Below(h))
  <2>1. labels' = appendLabel(w, h)
    BY <1>8, <1>12, <1>13 DEF checkOnParent
  <2>2. /\ w \in [AllNodes -> Nat] /\ w[h] = 0 /\ w[Root] = 0
        /\ \A k \in Kids(h) : w[k] = 0
    BY <1>1, <1>2, <1>11, <1>12, ListTypes, NodesOfTree
  <2>3. h # Root /\ h \notin Kids(h)
    BY FlatTree
  <2> HIDE DEF w
  <2>4. labels'[h] = 1 /\ labels'[Root] = 0 /\ \A k \in Kids(h) : labels'[k] = 0
    BY <1>1, <1>2, <2>1, <2>2, <2>3, NodesOfTree DEF appendLabel
  <2>5. Kids(h) \subseteq ticked'
    BY <1>5, <1>8, <1>13
  <2> QED BY <2>4, <2>5 DEF OneForAll, Kids
<1>14. CASE ~ (Kids(h) \subseteq st0.ticked \ st0.half)
  <2>1. labels' = st0.list
    BY <1>8, <1>12, <1>14 DEF checkOnParent
  <2> QED BY <1>11, <2>1 DEF EachItsOwn, Kids
<1> QED BY <1>13, <1>14

LEMMA CheckOffElsewhere ==
  ASSUME TreeInv, NEW h \in Headings, NothingBelow(h),
         labels[Root] = 0, NEW n \in Shown \cap Boxes, n \notin Kids(h),
         checkOff(n)
  PROVE  /\ labels'[Root] = 0 /\ labels'[h] = labels[h]
         /\ \A k \in Kids(h) : labels'[k] = labels[k]
         /\ ticked' \cap Kids(h) = ticked \cap Kids(h)
<1> DEFINE Mine == Kids(h) \cup {h, Root}
           gone == {n} \cup Above[n] \cup Below(n)
           kept == Without(labels, gone)
           review == {m \in children(Parent[n]) \cap Unticked(n) : labels[m] = 0}
<1>1. n \in Nodes /\ n # h /\ n # Root /\ Mine \subseteq AllNodes
  BY NodesOfTree, FlatTree DEF Kids
<1>2. gone \cap (Kids(h) \cup {h}) = {}
  BY <1>1, FlatReach
<1>3. labels \in [AllNodes -> Nat]
  BY InvIsTyped DEF Typed
<1>4. \A m \in Mine : kept[m] = labels[m]
  BY <1>1, <1>2, <1>3, ListTypes
<1>5. Parent[n] # h /\ Parent[n] # Root
  BY <1>1, NodesOfTree DEF Kids
<1>6. review \cap Mine = {}
  <2>1. \A m \in review : m \in Nodes /\ Parent[m] = Parent[n]
    BY DEF children
  <2> HIDE DEF review
  <2> QED BY <1>5, <2>1, NodesOfTree DEF Kids
<1>7. \/ labels' = [m \in AllNodes |-> IF m \in review THEN 1 ELSE kept[m]]
      \/ labels' = kept
  BY DEF checkOff
<1>8. ticked' \cap Kids(h) = ticked \cap Kids(h)
  <2>1. ticked' = Unticked(n)
    BY DEF checkOff
  <2> QED BY <1>1, <2>1, FlatTicks
<1> HIDE DEF review, kept
<1>9. \A m \in Mine : labels'[m] = labels[m]
  BY <1>1, <1>4, <1>6, <1>7
<1> QED BY <1>8, <1>9

(* A tick of a box of the heading goes: if all had one, the others get     *)
(* their own labels.                                                       *)
LEMMA CheckOffKid ==
  ASSUME TreeInv, NEW h \in Headings, NothingBelow(h),
         labels[Root] = 0, EachItsOwn(h) \/ OneForAll(h),
         NEW n \in Kids(h), n \in Shown, checkOff(n)
  PROVE  labels'[Root] = 0 /\ EachItsOwn(h)'
<1> DEFINE gone == {n} \cup Above[n] \cup Below(n)
           kept == Without(labels, gone)
           new == Unticked(n)
           review == {m \in children(h) \cap new : labels[m] = 0}
           off == children(h) \ new
           given == [m \in AllNodes |-> IF m \in review THEN 1 ELSE kept[m]]
<1>1. /\ n \in Nodes /\ Parent[n] = h /\ n # h /\ h \in AllNodes
      /\ Above[n] = {h, Root} /\ Kids(h) \subseteq AllNodes /\ h # Root
      /\ h \notin Kids(h) /\ Root \notin Kids(h) /\ Root \in AllNodes
  BY NodesOfTree, FlatTree DEF Kids
<1>2. labels \in [AllNodes -> Nat]
  BY InvIsTyped DEF Typed
<1>3. children(h) = Kids(h)
  <2>1. h \in loaded
    BY <1>1 DEF Shown
  <2> QED BY <2>1 DEF children, Kids
<1>4. n \in ticked /\ ticked' = new /\ labels' = IF Cardinality(off) = 1 THEN given ELSE kept
  BY <1>1 DEF checkOff
<1>5. new \cap Kids(h) = (ticked \ {n}) \cap Kids(h)
  BY <1>1, FlatTicks
<1>6. \A k \in Kids(h) : k # n => k \notin gone
  BY <1>1, FlatReach
<1>7. /\ kept[h] = 0 /\ kept[Root] = 0 /\ kept[n] = 0
      /\ \A k \in Kids(h) : k # n => kept[k] = labels[k]
  BY <1>1, <1>2, <1>6, ListTypes
<1> HIDE DEF kept
<1>8. CASE EachItsOwn(h)
  <2>1. review = {}
    BY <1>3, <1>5, <1>8 DEF EachItsOwn
  <2>2. \A m \in AllNodes : labels'[m] = kept[m]
    BY <1>4, <2>1
  <2>3. \A k \in Kids(h) : labels'[k] = IF k \in ticked' THEN 1 ELSE 0
    BY <1>1, <1>4, <1>5, <1>7, <1>8, <2>2 DEF EachItsOwn
  <2> QED BY <1>1, <1>7, <2>2, <2>3 DEF EachItsOwn, Kids
<1>9. CASE OneForAll(h)
  <2>1. off = {n}
    BY <1>3, <1>5, <1>9 DEF OneForAll
  <2>2. Cardinality(off) = 1
    BY <2>1, FS_Singleton
  <2>3. labels' = given
    BY <1>4, <2>2
  <2>4. review = Kids(h) \ {n}
    BY <1>3, <1>5, <1>9 DEF OneForAll
  <2> HIDE DEF review, off
  <2>5. labels'[h] = 0 /\ labels'[Root] = 0
    BY <1>1, <1>7, <2>3, <2>4
  <2>6. \A k \in Kids(h) : labels'[k] = IF k \in ticked' THEN 1 ELSE 0
    <3> SUFFICES ASSUME NEW k \in Kids(h)
                 PROVE  labels'[k] = IF k \in ticked' THEN 1 ELSE 0
      OBVIOUS
    <3>1. k \in ticked' <=> k # n
      BY <1>4, <1>5, <1>9 DEF OneForAll
    <3>2. labels'[k] = IF k # n THEN 1 ELSE kept[n]
      BY <1>1, <2>3, <2>4
    <3> QED BY <1>7, <3>1, <3>2
  <2> QED BY <2>5, <2>6 DEF EachItsOwn, Kids
<1> QED BY <1>8, <1>9

(* A cross takes one label away, and the tick of its node if it has one.   *)
LEMMA RemoveFlat ==
  ASSUME TreeInv, NEW h \in Headings, NothingBelow(h),
         labels[Root] = 0, EachItsOwn(h) \/ OneForAll(h),
         NEW n \in AllNodes, removeNode(n)
  PROVE  labels'[Root] = 0 /\ (EachItsOwn(h)' \/ OneForAll(h)')
<1>1. labels[n] > 0 /\ labels' = [labels EXCEPT ![n] = @ - 1]
  BY DEF removeNode
<1>2. /\ labels \in [AllNodes -> Nat] /\ h \in AllNodes /\ h # Root
      /\ Root \in AllNodes /\ Kids(h) \subseteq AllNodes /\ h \notin Kids(h)
      /\ h \notin ticked
  BY InvIsTyped, NodesOfTree, FlatTree DEF Typed, Kids, TreeInv, TicksOK
<1>3. n # Root /\ n \in Nodes
  BY <1>1, NodesOfTree
<1>4. \/ n \in ticked /\ ticked' = Unticked(n)
      \/ n \notin ticked /\ ticked' = ticked
  <2>1. ticked \ (ticked \ Unticked(n)) = Unticked(n)
    BY DEF Unticked
  <2> QED BY <2>1 DEF removeNode
<1>5. n # h => ticked' \cap Kids(h) = (ticked \ {n}) \cap Kids(h)
  BY <1>3, <1>4, FlatTicks
<1>6. CASE n \notin Kids(h) \cup {h}
  BY <1>1, <1>2, <1>3, <1>5, <1>6, FlatUntouched
<1>7. CASE n = h
  <2>1. OneForAll(h) /\ labels[h] = 1
    BY <1>1, <1>7 DEF EachItsOwn, OneForAll
  <2>2. ticked' = ticked
    BY <1>2, <1>4, <1>7
  <2>3. labels'[h] = 0 /\ labels'[Root] = 0 /\ \A k \in Kids(h) : labels'[k] = labels[k]
    BY <1>1, <1>2, <1>7, <2>1
  <2> QED BY <2>1, <2>2, <2>3 DEF OneForAll, Kids
<1>8. CASE n \in Kids(h)
  <2>1. EachItsOwn(h) /\ labels[n] = 1
    BY <1>1, <1>8 DEF EachItsOwn, OneForAll
  <2>2. n # h
    BY <1>2, <1>8
  <2>3. labels'[h] = 0 /\ labels'[Root] = 0 /\ labels'[n] = 0
        /\ \A k \in Kids(h) : k # n => labels'[k] = labels[k]
    BY <1>1, <1>2, <1>3, <1>8, <2>1, <2>2 DEF EachItsOwn
  <2>4. \A k \in Kids(h) : labels'[k] = IF k \in ticked' THEN 1 ELSE 0
    BY <1>5, <1>8, <2>1, <2>2, <2>3 DEF EachItsOwn
  <2> QED BY <2>3, <2>4 DEF EachItsOwn, Kids
<1> QED BY <1>6, <1>7, <1>8

LEMMA ExpandFlat ==
  ASSUME TreeInv, NEW h \in Headings, NEW n \in Nodes, onExpand(n)
  PROVE  labels' = labels /\ ticked' \cap Kids(h) = ticked \cap Kids(h)
<1>1. h \notin ticked
  BY NodesOfTree DEF TreeInv, TicksOK
<1>2. /\ labels' = labels
      /\ \/ ticked' = ticked
         \/ n \in ticked /\ ticked' = ticked \cup {m \in Nodes : Parent[m] = n}
  BY DEF onExpand
<1> QED BY <1>1, <1>2 DEF Kids

LEMMA FlatStep == TreeInv /\ FlatOK /\ [Next]_vars => FlatOK'
<1> SUFFICES ASSUME TreeInv, FlatOK, [Next]_vars,
                    NEW h \in Headings, NothingBelow(h)
             PROVE  labels'[Root] = 0 /\ (EachItsOwn(h)' \/ OneForAll(h)')
  BY DEF FlatOK, NothingBelow
<1>1. labels[Root] = 0 /\ (EachItsOwn(h) \/ OneForAll(h))
  BY DEF FlatOK
<1>2. ASSUME NEW n \in Nodes, onCheck(n)
      PROVE  labels'[Root] = 0 /\ (EachItsOwn(h)' \/ OneForAll(h)')
  <2>1. n \in Shown /\ n \in Boxes
    BY <1>2 DEF onCheck
  <2>2. CASE n \in Kids(h)
    BY <1>1, <1>2, <2>1, <2>2, CheckOnKid, CheckOffKid DEF onCheck
  <2>3. CASE n \notin Kids(h)
    <3>1. /\ labels'[Root] = 0 /\ labels'[h] = labels[h]
          /\ \A k \in Kids(h) : labels'[k] = labels[k]
          /\ ticked' \cap Kids(h) = ticked \cap Kids(h)
      BY <1>1, <1>2, <2>1, <2>3, CheckOnElsewhere, CheckOffElsewhere DEF onCheck
    <3> QED BY <1>1, <3>1, FlatUntouched
  <2> QED BY <2>2, <2>3
<1>3. ASSUME NEW n \in Nodes, onExpand(n)
      PROVE  labels'[Root] = 0 /\ (EachItsOwn(h)' \/ OneForAll(h)')
  BY <1>1, <1>3, ExpandFlat, FlatUntouched
<1>4. ASSUME NEW n \in AllNodes, removeNode(n)
      PROVE  labels'[Root] = 0 /\ (EachItsOwn(h)' \/ OneForAll(h)')
  BY <1>1, <1>4, RemoveFlat
<1>5. CASE UNCHANGED vars
  BY <1>1, <1>5, FlatUntouched DEF vars
<1> QED BY <1>2, <1>3, <1>4, <1>5 DEF Next

LEMMA FlatIsCovered ==
  ASSUME FlatOK, Typed, NEW h \in Headings, Flat(h)
  PROVE  LET kids == children(h)
             covered == {n \in kids : Covered(n)}
         IN covered = kids \cap ticked \/ (kids \subseteq ticked /\ covered = {})
<1>1. NothingBelow(h) /\ h \in loaded
  BY DEF Flat, NothingBelow
<1>2. labels[Root] = 0 /\ (EachItsOwn(h) \/ OneForAll(h))
  BY <1>1 DEF FlatOK
<1>3. children(h) = Kids(h)
  BY <1>1 DEF children, Kids
<1>4. \A k \in Kids(h) : Covered(k) <=> labels[k] > 0 \/ labels[h] > 0
  <2>1. \A k \in Kids(h) : Above[k] = {h, Root}
    BY <1>1, FlatTree
  <2> QED BY <1>2, <2>1 DEF Covered
<1>5. CASE EachItsOwn(h)
  BY <1>3, <1>4, <1>5 DEF EachItsOwn
<1>6. CASE OneForAll(h)
  BY <1>3, <1>4, <1>6 DEF OneForAll
<1> QED BY <1>2, <1>5, <1>6

(* Below a heading whose boxes have nothing below them, what is submitted  *)
(* are the ticks, after any sequence of clicks in any tree: by a label for *)
(* each or by the heading's for all.  Only the cross of the heading's      *)
(* label leaves all ticked and none submitted (allbaselabeltree.js:92).    *)
THEOREM FlatTicksAreSubmitted == Spec => []FlatIsSubmitted
<1>1. Init => TreeInv /\ FlatOK
  BY TreeInit, FlatInit
<1>2. (TreeInv /\ FlatOK) /\ [Next]_vars => (TreeInv /\ FlatOK)'
  BY TreeStep, FlatStep
<1>3. TreeInv /\ FlatOK => FlatIsSubmitted
  BY InvIsTyped, FlatIsCovered DEF FlatIsSubmitted
<1> QED BY <1>1, <1>2, <1>3, PTL DEF Spec
=============================================================================
