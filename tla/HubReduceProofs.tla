-------------------------- MODULE HubReduceProofs --------------------------
(***************************************************************************)
(* The hub reduces to the value of the fixed tree, for every number of      *)
(* leaves, every combine and in whatever order the pool's jobs complete,    *)
(* pooled combines or not.                                                  *)
(***************************************************************************)
EXTENDS HubReduceProperties, ReduceTreeProofs

-----------------------------------------------------------------------------
(* The plan's ids and the nodes of the tree.                                *)

Nodes == NodesOf(N, Depth)
Root == <<Depth, 0>>

LEMMA SizeFacts ==
  N \in Nat \ {0} /\ Depth \in Nat /\ IsRootLevel(N, Depth) /\ \A lvl \in 0 .. Depth-1 : ~IsRootLevel(N, lvl)
BY HubAssumption

LEMMA NodeParts ==
  ASSUME NEW nd \in Nodes
  PROVE  nd = <<Lvl(nd), Pos(nd)>> /\ Lvl(nd) \in 0 .. Depth /\ Pos(nd) \in 0 .. N-1
         /\ Pos(nd) < LevelSize(N, Lvl(nd))
BY DEF Nodes, NodesOf, Lvl, Pos

LEMMA NodeIs ==
  ASSUME NEW l \in 0 .. Depth, NEW pos \in Nat, pos < LevelSize(N, l)
  PROVE  <<l, pos>> \in Nodes
<1>1. LevelSize(N, l) <= N /\ LevelSize(N, l) \in Nat
  BY SizeFacts, LevelAtMost, LevelHalves
<1>2. pos \in 0 .. N-1
  BY <1>1, SizeFacts
<1> QED BY <1>2 DEF Nodes, NodesOf, Lvl, Pos

(* Each node is labelled with the leaves under it and its value; above the     *)
(* root nothing changes.                                                    *)
LabelOf(nd) == <<LeavesUnder(N, nd), IF nd \in Nodes THEN TreeValue[nd] ELSE TreeValue[Root]>>
NodeLabels == [nd \in Nat \X Nat |-> LabelOf(nd)]

LEMMA LabelsKeepUnpaired == KeepsUnpaired(N, NodeLabels)
<1> SUFFICES ASSUME NEW l \in Nat, NEW pos \in Nat, pos < LevelSize(N, l), Unpaired(N, <<l, pos>>)
             PROVE  NodeLabels[<<l+1, pos \div 2>>] = NodeLabels[<<l, pos>>]
  BY DEF KeepsUnpaired
<1> DEFINE nd == <<l, pos>>
           up == <<l+1, pos \div 2>>
<1>1. LeavesUnder(N, Parent(nd)) = LeavesUnder(N, nd)
  BY SizeFacts, LeavesOfParent
<1>2. Parent(nd) = up
  BY DEF Parent, Lvl, Pos
<1>3. l+1 \in Nat /\ pos \div 2 \in Nat /\ pos \div 2 < LevelSize(N, l+1)
  BY SizeFacts, ParentOnNextLevel
<1>4. nd \in Nat \X Nat /\ up \in Nat \X Nat
  BY <1>3
<1>5. CASE l < Depth
  <2>1. nd \in Nodes /\ up \in Nodes
    BY <1>3, <1>5, NodeIs, SizeFacts
  <2>2. nd # Root
    BY <1>5, SizeFacts DEF Root
  <2>3. IsEven(nd)
    BY DEF Unpaired
  <2>4. TreeValue[up] = TreeValue[nd]
    BY <1>2, <2>1, <2>2, <2>3, TreeValueAssumption DEF Nodes, Root
  <2> QED BY <1>1, <1>2, <1>4, <2>1, <2>4 DEF NodeLabels, LabelOf
<1>6. CASE l >= Depth
  <2>1. up \notin Nodes
    <3>1. l + 1 \notin 0 .. Depth
      BY <1>6, SizeFacts
    <3> QED BY <3>1, NodeParts DEF Lvl
  <2>2. nd \in Nodes => nd = Root
    <3>1. SUFFICES ASSUME nd \in Nodes PROVE nd = Root
      OBVIOUS
    <3>2. l \in 0 .. Depth
      BY <3>1, NodeParts DEF Lvl
    <3>3. l = Depth
      BY <1>6, <3>2, SizeFacts
    <3>4. pos = 0
      BY <3>3, SizeFacts DEF IsRootLevel
    <3> QED BY <3>3, <3>4 DEF Root
  <2> QED BY <1>1, <1>2, <1>4, <2>1, <2>2 DEF NodeLabels, LabelOf
<1> QED BY <1>5, <1>6, SizeFacts

Labels == CHOOSE V : PlanLabels(N, NodeLabels, Combines, RootId, V)
ValueOf(id) == Labels[id][2]
M == Len(Combines)

LEMMA PlanIs ==
  PlanShape(N, Combines, RootId) /\ PlanLabels(N, NodeLabels, Combines, RootId, Labels)
<1>1. PlanShape(N, Combines, RootId) /\ \E V : PlanLabels(N, NodeLabels, Combines, RootId, V)
  BY SizeFacts, LabelsKeepUnpaired, PlanIsTree DEF Combines, RootId
<1> QED BY <1>1 DEF Labels

LEMMA CombineFacts ==
  /\ M \in Nat /\ DOMAIN Combines = 1 .. M
  /\ Leaves \subseteq Ids /\ Ids \subseteq Nat /\ RootId \in Ids
  /\ \A ci \in 1 .. M :
       /\ Out(ci) = N + ci - 1 /\ Out(ci) \in Ids /\ Out(ci) \notin Leaves
       /\ Left(ci) \in Ids /\ Right(ci) \in Ids
       /\ Left(ci) < Out(ci) /\ Right(ci) < Out(ci) /\ Left(ci) # Right(ci)
       /\ Left(ci) # RootId /\ Right(ci) # RootId
  /\ \A ci, cj \in 1 .. M : {Left(ci), Right(ci)} \cap {Left(cj), Right(cj)} # {} => ci = cj
  /\ \A id \in Ids : id \in Leaves \/ \E ci \in 1 .. M : id = Out(ci)
  /\ \A id \in Ids : id # RootId => \E ci \in 1 .. M : id \in {Left(ci), Right(ci)}
<1>1. PlanShape(N, Combines, RootId) /\ N \in Nat \ {0}
  BY PlanIs, SizeFacts
<1>2. M \in Nat /\ Combines \in Seq(Triples)
  BY <1>1 DEF PlanShape, M
<1>3. DOMAIN Combines = 1 .. M
  BY <1>2, LenProperties DEF M
<1>4. Ids = 0 .. N - 1 + M
  BY DEF Ids, M
<1>5. Leaves \subseteq Ids /\ Ids \subseteq Nat /\ RootId \in Ids
  BY <1>1, <1>2, <1>4 DEF Leaves, PlanShape, M
<1>6. \A ci \in 1 .. M : InputsOf(Combines[ci]) = {Left(ci), Right(ci)}
  BY DEF InputsOf, Left, Right
<1>7. ASSUME NEW ci \in 1 .. M
      PROVE  /\ Out(ci) = N + ci - 1 /\ Out(ci) \in Ids /\ Out(ci) \notin Leaves
             /\ Left(ci) \in Ids /\ Right(ci) \in Ids
             /\ Left(ci) < Out(ci) /\ Right(ci) < Out(ci) /\ Left(ci) # Right(ci)
             /\ Left(ci) # RootId /\ Right(ci) # RootId
  <2> DEFINE c == Combines[ci]
  <2>1. c[1] = N + ci - 1 /\ c[2] \in 0 .. c[1] - 1 /\ c[3] \in 0 .. c[1] - 1 /\ c[2] # c[3]
    BY <1>1 DEF PlanShape, M
  <2>2. RootId \notin InputsOf(c)
    BY <1>1 DEF PlanShape, M
  <2> HIDE DEF c
  <2>3. c[1] \in Ids /\ c[1] \notin Leaves /\ c[2] \in Ids /\ c[3] \in Ids /\ c[2] < c[1] /\ c[3] < c[1]
    BY <1>1, <1>2, <1>4, <2>1 DEF Leaves
  <2>4. c[2] # RootId /\ c[3] # RootId
    BY <2>2 DEF InputsOf
  <2> QED BY <2>1, <2>3, <2>4 DEF Out, Left, Right, c
<1>8. \A ci, cj \in 1 .. M : {Left(ci), Right(ci)} \cap {Left(cj), Right(cj)} # {} => ci = cj
  BY <1>1, <1>6 DEF PlanShape, M
<1>9. ASSUME NEW id \in Ids, id \notin Leaves PROVE \E ci \in 1 .. M : id = Out(ci)
  <2>1. id - N + 1 \in 1 .. M /\ N + (id - N + 1) - 1 = id
    BY <1>1, <1>2, <1>4, <1>9 DEF Leaves
  <2> QED BY <1>7, <2>1
<1>10. ASSUME NEW id \in Ids, id # RootId PROVE \E ci \in 1 .. M : id \in {Left(ci), Right(ci)}
  <2>1. \E ci \in 1 .. Len(Combines) : id \in InputsOf(Combines[ci])
    BY <1>1, <1>4, <1>10, Zenon DEF PlanShape, M
  <2> QED BY <1>6, <2>1 DEF M
<1> QED BY <1>2, <1>3, <1>5, <1>7, <1>8, <1>9, <1>10

(* The operands of a combine are a pair of the tree.                         *)
LEMMA PairFacts ==
  ASSUME NEW nd \in PairsBelow(N, N)
  PROVE  /\ nd \in Nodes /\ Sibling(nd) \in Nodes /\ Parent(nd) \in Nodes
         /\ LeavesUnder(N, Parent(nd)) = LeavesUnder(N, nd) \cup LeavesUnder(N, Sibling(nd))
         /\ LeavesUnder(N, nd) \cap LeavesUnder(N, Sibling(nd)) = {}
         /\ TreeValue[Parent(nd)] = Combine(TreeValue[nd], TreeValue[Sibling(nd)])
<1> DEFINE l == Lvl(nd)
           pos == Pos(nd)
<1>1. /\ nd = <<l, pos>> /\ l \in Nat /\ pos \in Nat /\ IsEven(nd) /\ ~Unpaired(N, nd)
      /\ pos + 1 < LevelSize(N, l)
      /\ LeavesUnder(N, Parent(nd)) = LeavesUnder(N, nd) \cup LeavesUnder(N, Sibling(nd))
  BY SizeFacts, PairBelowIs
<1>2. Sibling(nd) = <<l, pos + 1>> /\ Parent(nd) = <<l + 1, pos \div 2>>
  BY <1>1 DEF Sibling, Parent
<1> HIDE DEF l, pos
<1>3. LevelSize(N, l) \in Nat /\ LevelSize(N, l) # 1
  BY <1>1, SizeFacts, LevelHalves
<1>4. l < Depth
  <2>1. SUFFICES ASSUME l >= Depth PROVE FALSE
    BY <1>1, SizeFacts
  <2>2. IsRootLevel(N, l)
    BY <1>1, <2>1, SizeFacts, RootStays
  <2> QED BY <1>3, <2>2 DEF IsRootLevel
<1>5. nd \in Nodes /\ Sibling(nd) \in Nodes
  BY <1>1, <1>2, <1>3, <1>4, NodeIs, SizeFacts
<1>6. pos \div 2 \in Nat /\ pos \div 2 < LevelSize(N, l + 1)
  BY <1>1, <1>3, SizeFacts, ParentOnNextLevel
<1>7. Parent(nd) \in Nodes
  BY <1>1, <1>2, <1>4, <1>6, NodeIs, SizeFacts
<1>8. LeavesUnder(N, nd) \cap LeavesUnder(N, Sibling(nd)) = {}
  <2>1. pos # pos + 1
    BY <1>1
  <2> QED BY <1>1, <1>2, <2>1, SizeFacts, LevelIsDisjoint
<1>9. nd # Root
  BY <1>1, <1>4, SizeFacts DEF Root
<1>10. TreeValue[Parent(nd)] = Combine(TreeValue[nd], TreeValue[Sibling(nd)])
  BY <1>1, <1>5, <1>9, TreeValueAssumption DEF Nodes, Root
<1> QED BY <1>1, <1>5, <1>7, <1>8, <1>10

(* What a combine covers and computes, by its label.                         *)
LEMMA LabelFacts ==
  /\ \A leaf \in Leaves : Labels[leaf] = <<{leaf}, LeafValue(leaf)>>
  /\ \A ci \in 1 .. M :
       \E nd \in PairsBelow(N, N) :
         /\ Labels[Left(ci)] = <<LeavesUnder(N, nd), TreeValue[nd]>>
         /\ Labels[Right(ci)] = <<LeavesUnder(N, Sibling(nd)), TreeValue[Sibling(nd)]>>
         /\ Labels[Out(ci)] = <<LeavesUnder(N, Parent(nd)), TreeValue[Parent(nd)]>>
  /\ Labels[RootId] = <<Leaves, TreeValue[Root]>>
<1>1. PlanLabels(N, NodeLabels, Combines, RootId, Labels)
  BY PlanIs
<1>2. \A nd \in Nodes : NodeLabels[nd] = <<LeavesUnder(N, nd), TreeValue[nd]>>
  <2> SUFFICES ASSUME NEW nd \in Nodes PROVE NodeLabels[nd] = <<LeavesUnder(N, nd), TreeValue[nd]>>
    OBVIOUS
  <2>1. nd \in Nat \X Nat
    BY SizeFacts DEF Nodes, NodesOf
  <2> QED BY <2>1 DEF NodeLabels, LabelOf
<1>3. ASSUME NEW leaf \in Leaves PROVE Labels[leaf] = <<{leaf}, LeafValue(leaf)>>
  <2>1. leaf \in 0 .. N-1 /\ leaf \in Nat /\ leaf < N
    BY SizeFacts DEF Leaves
  <2>2. LeavesUnder(N, <<0, leaf>>) = {leaf}
    <3>1. 2^0 = 1
      OBVIOUS
    <3>2. \A x \in 0 .. N-1 : x \div 1 = x
      OBVIOUS
    <3> QED BY <2>1, <3>1, <3>2 DEF LeavesUnder, Lvl, Pos
  <2>3. LevelSize(N, 0) = N
    <3>1. 2^0 = 1
      OBVIOUS
    <3>2. (N + 1 - 1) \div 1 = N
      BY SizeFacts
    <3> QED BY <3>1, <3>2 DEF LevelSize
  <2>4. <<0, leaf>> \in Nodes
    <3>1. 0 \in 0 .. Depth /\ leaf < LevelSize(N, 0)
      BY <2>1, <2>3, SizeFacts
    <3> QED BY <2>1, <3>1, NodeIs
  <2>5. TreeValue[<<0, leaf>>] = LeafValue(leaf)
    BY <2>1, TreeValueAssumption
  <2>6. Labels[leaf] = NodeLabels[<<0, leaf>>]
    BY <1>1, <2>1 DEF PlanLabels
  <2> QED BY <1>2, <2>2, <2>4, <2>5, <2>6
<1>4. ASSUME NEW ci \in 1 .. M
      PROVE  \E nd \in PairsBelow(N, N) :
               /\ Labels[Left(ci)] = <<LeavesUnder(N, nd), TreeValue[nd]>>
               /\ Labels[Right(ci)] = <<LeavesUnder(N, Sibling(nd)), TreeValue[Sibling(nd)]>>
               /\ Labels[Out(ci)] = <<LeavesUnder(N, Parent(nd)), TreeValue[Parent(nd)]>>
  <2>1. PICK nd \in PairsBelow(N, N) : Pairs(NodeLabels, Labels, Combines[ci], nd)
    BY <1>1 DEF PlanLabels, M
  <2>2. nd \in Nodes /\ Sibling(nd) \in Nodes /\ Parent(nd) \in Nodes
    BY PairFacts
  <2> QED BY <1>2, <2>1, <2>2 DEF Pairs, Left, Right, Out
<1>5. Labels[RootId] = <<Leaves, TreeValue[Root]>>
  <2>1. IsRootLevel(N, N)
    <3>1. 2^N >= N + 1 /\ 2^N \in Nat
      BY SizeFacts, PowBeats, PowNat
    <3> QED BY <3>1, SizeFacts, RootLevelIff
  <2>2. LeavesUnder(N, <<N, 0>>) = Leaves
    BY <2>1, SizeFacts, RootLevelCovers DEF Leaves
  <2>3. Depth <= N
    BY <2>1, SizeFacts
  <2>4. <<N, 0>> \in Nodes => <<N, 0>> = Root
    <3>1. SUFFICES ASSUME <<N, 0>> \in Nodes PROVE Depth = N
      BY DEF Root
    <3>2. N \in 0 .. Depth
      BY <3>1, NodeParts DEF Lvl
    <3> QED BY <2>3, <3>2, SizeFacts
  <2>5. <<N, 0>> \in Nat \X Nat
    BY SizeFacts
  <2>6. Labels[RootId] = NodeLabels[<<N, 0>>]
    BY <1>1 DEF PlanLabels
  <2>7. NodeLabels[<<N, 0>>] = <<Leaves, TreeValue[Root]>>
    BY <2>2, <2>4, <2>5 DEF NodeLabels, LabelOf
  <2> QED BY <2>6, <2>7
<1> QED BY <1>3, <1>4, <1>5

LEMMA CoverFacts ==
  /\ \A leaf \in Leaves : Cover[leaf] = {leaf} /\ ValueOf(leaf) = LeafValue(leaf)
  /\ \A ci \in 1 .. M :
       /\ Cover[Out(ci)] = Cover[Left(ci)] \cup Cover[Right(ci)]
       /\ Cover[Left(ci)] \cap Cover[Right(ci)] = {}
       /\ ValueOf(Out(ci)) = Combine(ValueOf(Left(ci)), ValueOf(Right(ci)))
  /\ \A id \in Ids : Cover[id] \in Blocks(N, Depth)
  /\ Cover[RootId] = Leaves /\ ValueOf(RootId) = TreeValue[Root]
  /\ \A id \in Ids : Cover[id] = Labels[id][1]
<1> DEFINE V == [id \in Ids |-> Labels[id][1]]
<1>1. Leaves \subseteq Ids /\ RootId \in Ids /\ M \in Nat
  BY CombineFacts
<1>2. ASSUME NEW ci \in 1 .. M
      PROVE  /\ V[Out(ci)] = V[Left(ci)] \cup V[Right(ci)]
             /\ V[Left(ci)] \cap V[Right(ci)] = {}
             /\ ValueOf(Out(ci)) = Combine(ValueOf(Left(ci)), ValueOf(Right(ci)))
             /\ V[Out(ci)] \in Blocks(N, Depth)
  <2>1. PICK nd \in PairsBelow(N, N) :
          /\ Labels[Left(ci)] = <<LeavesUnder(N, nd), TreeValue[nd]>>
          /\ Labels[Right(ci)] = <<LeavesUnder(N, Sibling(nd)), TreeValue[Sibling(nd)]>>
          /\ Labels[Out(ci)] = <<LeavesUnder(N, Parent(nd)), TreeValue[Parent(nd)]>>
    BY LabelFacts
  <2>2. /\ Parent(nd) \in Nodes
        /\ LeavesUnder(N, Parent(nd)) = LeavesUnder(N, nd) \cup LeavesUnder(N, Sibling(nd))
        /\ LeavesUnder(N, nd) \cap LeavesUnder(N, Sibling(nd)) = {}
        /\ TreeValue[Parent(nd)] = Combine(TreeValue[nd], TreeValue[Sibling(nd)])
    BY PairFacts
  <2>3. Out(ci) \in Ids /\ Left(ci) \in Ids /\ Right(ci) \in Ids
    BY CombineFacts
  <2>4. /\ V[Left(ci)] = LeavesUnder(N, nd) /\ V[Right(ci)] = LeavesUnder(N, Sibling(nd))
        /\ V[Out(ci)] = LeavesUnder(N, Parent(nd))
    BY <2>1, <2>3
  <2>5. /\ ValueOf(Left(ci)) = TreeValue[nd] /\ ValueOf(Right(ci)) = TreeValue[Sibling(nd)]
        /\ ValueOf(Out(ci)) = TreeValue[Parent(nd)]
    BY <2>1 DEF ValueOf
  <2>6. LeavesUnder(N, Parent(nd)) \in Blocks(N, Depth)
    BY <2>2 DEF Blocks, Nodes
  <2> HIDE DEF V
  <2> QED BY <2>2, <2>4, <2>5, <2>6
<1>3. ASSUME NEW leaf \in Leaves
      PROVE  V[leaf] = {leaf} /\ ValueOf(leaf) = LeafValue(leaf) /\ V[leaf] \in Blocks(N, Depth)
  <2>1. Labels[leaf] = <<{leaf}, LeafValue(leaf)>>
    BY LabelFacts
  <2>2. leaf \in 0 .. N-1 /\ leaf \in Nat /\ leaf < N
    BY SizeFacts DEF Leaves
  <2>3. LeavesUnder(N, <<0, leaf>>) = {leaf} /\ LevelSize(N, 0) = N
    <3>1. 2^0 = 1
      OBVIOUS
    <3>2. \A x \in 0 .. N-1 : x \div 1 = x
      OBVIOUS
    <3>3. (N + 1 - 1) \div 1 = N
      BY SizeFacts
    <3> QED BY <2>2, <3>1, <3>2, <3>3 DEF LeavesUnder, Lvl, Pos, LevelSize
  <2>4. <<0, leaf>> \in NodesOf(N, Depth)
    <3>1. 0 \in 0 .. Depth /\ leaf < LevelSize(N, 0)
      BY <2>2, <2>3, SizeFacts
    <3> QED BY <2>2, <3>1, NodeIs DEF Nodes
  <2>5. {leaf} \in Blocks(N, Depth)
    BY <2>3, <2>4 DEF Blocks
  <2>6. V[leaf] = Labels[leaf][1]
    BY <1>1
  <2>7. Labels[leaf][1] = {leaf} /\ Labels[leaf][2] = LeafValue(leaf)
    BY <2>1
  <2> HIDE DEF V
  <2> QED BY <2>5, <2>6, <2>7 DEF ValueOf
<1>4. V[RootId] = Leaves /\ ValueOf(RootId) = TreeValue[Root]
  BY <1>1, LabelFacts DEF ValueOf
<1> HIDE DEF V
<1>5. \A id \in Ids : Cover[id] = V[id]
  <2>1. SolvesCover(N, Combines, V)
    <3>1. \A id \in 0 .. N-1 : V[id] = {id}
      BY <1>3 DEF Leaves
    <3>2. \A ci \in 1 .. Len(Combines) : LET c == Combines[ci] IN V[c[1]] = V[c[2]] \cup V[c[3]]
      BY <1>2 DEF M, Out, Left, Right
    <3>3. \A ci \in 1 .. Len(Combines) :
            LET c == Combines[ci]
            IN  c[1] = N + ci - 1 /\ c[2] \in 0 .. c[1] - 1 /\ c[3] \in 0 .. c[1] - 1
      BY PlanIs DEF PlanShape
    <3>4. Len(Combines) \in Nat
      BY <1>1 DEF M
    <3> QED BY <3>1, <3>2, <3>3, <3>4, Zenon DEF SolvesCover
  <2>2. \A id \in 0 .. N - 1 + Len(Combines) : CoverOf(N, Combines)[id] = V[id]
    BY <2>1, SizeFacts, CoverIs
  <2> QED BY <2>2 DEF Cover, Ids
<1>6. \A id \in Ids : V[id] \in Blocks(N, Depth)
  BY <1>2, <1>3, CombineFacts
<1>7. \A id \in Ids : Cover[id] = Labels[id][1]
  BY <1>5 DEF V
<1> QED BY <1>1, <1>2, <1>3, <1>4, <1>5, <1>6, <1>7, CombineFacts

(* Every combine takes two values and leaves one, so there is one combine      *)
(* fewer than there are leaves.                                             *)
LEMMA CombinesAreFew == M = N - 1
<1> DEFINE S == (1 .. M) \X (2 .. 3)
           T == Ids \ {RootId}
           f == [x \in S |-> Combines[x[1]][x[2]]]
<1>1. M \in Nat /\ N \in Nat \ {0} /\ Ids = 0 .. N - 1 + M
  BY CombineFacts, SizeFacts DEF Ids, M
<1>a. \A ci \in 1 .. M :
        /\ Left(ci) \in Ids /\ Right(ci) \in Ids
        /\ Left(ci) # Right(ci) /\ Left(ci) # RootId /\ Right(ci) # RootId
  BY CombineFacts
<1>b. \A ci, cj \in 1 .. M : {Left(ci), Right(ci)} \cap {Left(cj), Right(cj)} # {} => ci = cj
  BY CombineFacts
<1>c. RootId \in Ids /\ \A id \in Ids : id # RootId => \E ci \in 1 .. M : id \in {Left(ci), Right(ci)}
  BY CombineFacts
<1>2. \A x \in S : x[1] \in 1 .. M /\ (x[2] = 2 \/ x[2] = 3) /\ x = <<x[1], x[2]>>
  OBVIOUS
<1>3. \A ci \in 1 .. M : <<ci, 2>> \in S /\ <<ci, 3>> \in S
  OBVIOUS
<1>4. \A x \in S : f[x] = IF x[2] = 2 THEN Left(x[1]) ELSE Right(x[1])
  BY <1>2 DEF Left, Right
<1> HIDE DEF S, f
<1>5. f \in [S -> T]
  <2>1. \A x \in S : f[x] \in T
    <3> SUFFICES ASSUME NEW x \in S PROVE f[x] \in T
      OBVIOUS
    <3>1. x[1] \in 1 .. M /\ (f[x] = Left(x[1]) \/ f[x] = Right(x[1]))
      BY <1>2, <1>4
    <3> QED BY <1>a, <3>1
  <2>2. f = [x \in S |-> f[x]]
    BY DEF f
  <2> HIDE DEF T
  <2> QED BY <2>1, <2>2
<1>6. ASSUME NEW x \in S, NEW y \in S, f[x] = f[y] PROVE x = y
  <2>1. f[x] \in {Left(x[1]), Right(x[1])} /\ f[y] \in {Left(y[1]), Right(y[1])}
    BY <1>4
  <2>2. x[1] = y[1]
    <3>1. f[x] \in {Left(x[1]), Right(x[1])} \cap {Left(y[1]), Right(y[1])}
      BY <1>6, <2>1
    <3> QED BY <1>2, <1>b, <3>1
  <2>3. x[2] = y[2]
    <3>1. x[1] \in 1 .. M /\ Left(x[1]) # Right(x[1])
      BY <1>a, <1>2
    <3>2. (x[2] = 2 \/ x[2] = 3) /\ (y[2] = 2 \/ y[2] = 3)
      BY <1>2
    <3> QED BY <1>4, <1>6, <2>2, <3>1, <3>2
  <2> QED BY <1>2, <2>2, <2>3
<1>7. ASSUME NEW id \in T PROVE \E x \in S : f[x] = id
  <2>1. PICK ci \in 1 .. M : id \in {Left(ci), Right(ci)}
    BY <1>c
  <2>2. CASE id = Left(ci)
    <3>1. <<ci, 2>> \in S /\ f[<<ci, 2>>] = Left(ci)
      BY <1>3, <1>4
    <3> QED BY <2>2, <3>1
  <2>3. CASE id = Right(ci)
    <3>1. <<ci, 3>> \in S /\ <<ci, 3>>[1] = ci /\ <<ci, 3>>[2] = 3
      BY <1>3
    <3>2. f[<<ci, 3>>] = Right(ci)
      BY <1>4, <3>1
    <3> QED BY <2>3, <3>1, <3>2
  <2> QED BY <2>1, <2>2, <2>3
<1>8. f \in Bijection(S, T)
  <2>1. \A x, y \in DOMAIN f : f[x] = f[y] => x = y
    BY <1>5, <1>6
  <2> HIDE DEF T
  <2> QED BY <1>5, <1>7, <2>1 DEF Bijection, Injection, Surjection, IsInjective
<1>9. IsFiniteSet(S) /\ Cardinality(S) = M * 2
  <2>1. IsFiniteSet(1 .. M) /\ Cardinality(1 .. M) = M
    <3>1. 1 \in Int /\ M \in Int
      BY <1>1
    <3>2. IsFiniteSet(1 .. M) /\ Cardinality(1 .. M) = IF 1 > M THEN 0 ELSE M - 1 + 1
      BY <3>1, FS_Interval, Zenon
    <3> QED BY <1>1, <3>2
  <2>2. IsFiniteSet(2 .. 3) /\ Cardinality(2 .. 3) = 2
    <3>1. 2 \in Int /\ 3 \in Int
      OBVIOUS
    <3>2. IsFiniteSet(2 .. 3) /\ Cardinality(2 .. 3) = IF 2 > 3 THEN 0 ELSE 3 - 2 + 1
      BY <3>1, FS_Interval, Zenon
    <3> QED BY <3>2
  <2>3. \A A, B : IsFiniteSet(A) /\ IsFiniteSet(B)
                  => IsFiniteSet(A \X B) /\ Cardinality(A \X B) = Cardinality(A) * Cardinality(B)
    BY FS_Product, Zenon
  <2>4. IsFiniteSet(S) /\ Cardinality(S) = Cardinality(1 .. M) * Cardinality(2 .. 3)
    BY <2>1, <2>2, <2>3, Zenon DEF S
  <2> QED BY <2>1, <2>2, <2>4
<1>10. Cardinality(T) = M * 2
  <2> HIDE DEF T
  <2>1. Cardinality(S) = Cardinality(T)
    <3>1. ExistsBijection(S, T)
      BY <1>8 DEF ExistsBijection
    <3> QED BY <1>9, <3>1, FS_Bijection
  <2> QED BY <1>9, <2>1
<1>11. IsFiniteSet(Ids) /\ Cardinality(Ids) = N + M
  <2>1. 0 \in Int /\ N - 1 + M \in Int
    BY <1>1
  <2>2. IsFiniteSet(Ids) /\ Cardinality(Ids) = IF 0 > N - 1 + M THEN 0 ELSE (N - 1 + M) - 0 + 1
    BY <1>1, <2>1, FS_Interval, Zenon
  <2> QED BY <1>1, <2>2
<1>12. Cardinality(T) = N + M - 1
  <2>1. Cardinality(Ids \ {RootId}) = IF RootId \in Ids THEN Cardinality(Ids) - 1 ELSE Cardinality(Ids)
    BY <1>11, FS_RemoveElement
  <2>2. Cardinality(Ids \ {RootId}) = Cardinality(Ids) - 1
    BY <1>c, <2>1, Zenon
  <2> QED BY <1>1, <1>11, <2>2
<1> QED BY <1>1, <1>10, <1>12

-----------------------------------------------------------------------------
(* The inductive invariant.                                                *)

Present == DOMAIN jobs \cup DOMAIN ready
JobStates == {"running", "done", "raised"}
Given == {ci \in 1 .. M : remaining[ci] = {}}  \* the combines that have their operands
Consumed(id) == \E ci \in Given : id \in {Left(ci), Right(ci)}

Types ==
  /\ pooled \in BOOLEAN /\ persistent \in BOOLEAN /\ raising \in RaiseSets
  /\ driver \in {"run", "leaving", "returned", "failed"}
  /\ DOMAIN jobs \subseteq Ids /\ DOMAIN ready \subseteq Ids /\ DOMAIN jobs \cap DOMAIN ready = {}
  /\ remaining \in [1 .. M -> SUBSET Ids]
  /\ work \in Seq(1 .. M) /\ IsInjective(work)

(* No partial travels without its id: each is the value of the fixed tree.    *)
Truths ==
  /\ jobs = [id \in DOMAIN jobs |-> [state |-> jobs[id].state, val |-> ValueOf(id)]]
  /\ \A id \in DOMAIN jobs : jobs[id].state \in JobStates
  /\ \A id \in DOMAIN ready : ready[id] = ValueOf(id)

(* The driver that combines itself keeps all it has, and its stack is what     *)
(* it could combine and has not.                                            *)
Plain ==
  /\ DOMAIN jobs \subseteq Leaves /\ Leaves \subseteq Present
  /\ \A ci \in 1 .. M : remaining[ci] = {Left(ci), Right(ci)} \ DOMAIN ready
  /\ \A ci \in 1 .. M : Out(ci) \in DOMAIN ready => ci \in Given
  /\ ToSet(work) = {ci \in Given : Out(ci) \notin DOMAIN ready}
  /\ n_combines = Cardinality({ci \in 1 .. M : Out(ci) \in DOMAIN ready})

(* The pooled driver: a combine is a job as soon as its operands are there,    *)
(* and they are then nowhere else.                                          *)
Handed ==
  /\ work = <<>>
  /\ \A ci \in 1 .. M :
       IF ci \in Given THEN Left(ci) \notin Present /\ Right(ci) \notin Present
       ELSE remaining[ci] = {Left(ci), Right(ci)} \ DOMAIN ready /\ Out(ci) \notin Present
  /\ \A ci \in Given : \A cj \in 1 .. M : Out(cj) \in {Left(ci), Right(ci)} => cj \in Given
  /\ \A id \in Leaves : id \in Present \/ Consumed(id)
  /\ \A ci \in Given : Out(ci) \in Present \/ Consumed(Out(ci))
  /\ n_combines = Cardinality(Given)
  /\ \A a, b \in Present : a # b => Cover[a] \cap Cover[b] = {}

Outcome ==
  /\ \A id \in DOMAIN jobs : jobs[id].state = "raised" => raising # {}
  /\ driver \in {"leaving", "failed"} => raising # {}
  /\ driver # "returned" => answer = None

HInv == Types /\ Truths /\ (~pooled => Plain) /\ (pooled => Handed) /\ Outcome

LEMMA HubInit == Init => HInv
<1> SUFFICES ASSUME Init PROVE HInv
  OBVIOUS
<1>1. DOMAIN jobs = Leaves /\ DOMAIN ready = {}
  BY DEF Init
<1>2. DOMAIN Combines = 1 .. M /\ Leaves \subseteq Ids /\ M \in Nat
  BY CombineFacts
<1>3. remaining = [ci \in 1 .. M |-> {Left(ci), Right(ci)}]
  BY <1>2 DEF Init
<1>4. \A ci \in 1 .. M : Left(ci) \in Ids /\ Right(ci) \in Ids /\ Out(ci) \notin Leaves
  BY CombineFacts
<1>5. Given = {}
  BY <1>3 DEF Given
<1>6. Types
  <2>1. remaining \in [1 .. M -> SUBSET Ids]
    BY <1>3, <1>4
  <2>2. work \in Seq(1 .. M) /\ IsInjective(work)
    <3>1. work = <<>>
      BY DEF Init
    <3>2. <<>> \in Seq(1 .. M) /\ DOMAIN <<>> = {}
      BY EmptySeq
    <3> QED BY <3>1, <3>2 DEF IsInjective
  <2> QED BY <1>1, <1>2, <2>1, <2>2 DEF Types, Init
<1>7. Truths
  <2>1. \A leaf \in Leaves : jobs[leaf] = [state |-> "running", val |-> ValueOf(leaf)]
    BY CoverFacts DEF Init, Running
  <2>2. jobs = [leaf \in Leaves |-> jobs[leaf]]
    BY DEF Init
  <2> QED BY <1>1, <2>1, <2>2 DEF Truths, JobStates
<1>8. ToSet(work) = {}
  BY DEF Init, ToSet
<1>9. {ci \in 1 .. M : Out(ci) \in DOMAIN ready} = {} /\ Cardinality({}) = 0 /\ n_combines = 0
  BY <1>1, FS_EmptySet DEF Init
<1>10. Plain
  BY <1>1, <1>3, <1>5, <1>8, <1>9 DEF Plain, Present
<1>11. Handed
  <2>1. \A a, b \in Leaves : a # b => Cover[a] \cap Cover[b] = {}
    BY CoverFacts
  <2>2. work = <<>>
    BY DEF Init
  <2> QED BY <1>1, <1>3, <1>4, <1>5, <1>9, <2>1, <2>2 DEF Handed, Present
<1>12. Outcome
  BY <1>1 DEF Init, Outcome, Running
<1> QED BY <1>6, <1>7, <1>10, <1>11, <1>12 DEF HInv

(* Nothing moves: what was there is there.                                   *)
LEMMA NothingMoves ==
  ASSUME HInv, UNCHANGED <<pooled, persistent, raising, ready, remaining, work, n_combines>>, DOMAIN jobs' = DOMAIN jobs
  PROVE  (~pooled => Plain)' /\ (pooled => Handed)'
<1>1. Present' = Present /\ Given' = Given
  BY DEF Present, Given
<1>2. (~pooled => Plain)'
  BY <1>1 DEF HInv, Plain
<1>3. \A id \in Ids : Consumed(id)' <=> Consumed(id)
  BY <1>1 DEF Consumed
<1>4. (pooled => Handed)'
  <2> SUFFICES ASSUME pooled' PROVE Handed'
    OBVIOUS
  <2>1. Handed
    BY DEF HInv
  <2>2. \A id \in Leaves : id \in Ids
    BY CombineFacts
  <2>3. \A ci \in Given : Out(ci) \in Ids
    BY CombineFacts DEF Given
  <2>4. \A id \in Leaves : id \in Present' \/ Consumed(id)'
    BY <1>1, <1>3, <2>1, <2>2 DEF Handed
  <2>5. \A ci \in Given' : Out(ci) \in Present' \/ Consumed(Out(ci))'
    BY <1>1, <1>3, <2>1, <2>3 DEF Handed
  <2>6. \A ci \in 1 .. M :
          IF ci \in Given' THEN Left(ci) \notin Present' /\ Right(ci) \notin Present'
          ELSE remaining'[ci] = {Left(ci), Right(ci)} \ DOMAIN ready' /\ Out(ci) \notin Present'
    BY <1>1, <2>1 DEF Handed
  <2>8. \A ci \in Given' : \A cj \in 1 .. M : Out(cj) \in {Left(ci), Right(ci)} => cj \in Given'
    BY <1>1, <2>1 DEF Handed
  <2>7. work' = <<>> /\ n_combines' = Cardinality(Given') /\ \A a, b \in Present' : a # b => Cover[a] \cap Cover[b] = {}
    BY <1>1, <2>1 DEF Handed
  <2> QED BY <2>4, <2>5, <2>6, <2>7, <2>8 DEF Handed
<1> QED BY <1>2, <1>4

LEMMA HubJobEnds ==
  ASSUME HInv, NEW id \in Ids, JobEnds(id)
  PROVE  HInv'
<1>1. /\ id \in DOMAIN jobs
      /\ jobs' = [jobs EXCEPT ![id].state = IF id \in raising THEN "raised" ELSE "done"]
      /\ UNCHANGED <<inputs, ready, remaining, work, n_combines, driver, answer>>
  BY DEF JobEnds
<1>2. UNCHANGED <<pooled, persistent, raising, ready, remaining, work, n_combines, driver, answer>>
  BY <1>1 DEF inputs
<1>3. DOMAIN jobs' = DOMAIN jobs
  BY <1>1
<1> DEFINE st == IF id \in raising THEN "raised" ELSE "done"
<1>4. \A i \in DOMAIN jobs : jobs[i] = [state |-> jobs[i].state, val |-> ValueOf(i)] /\ jobs[i].state \in JobStates
  BY DEF HInv, Truths
<1>5. jobs' = [i \in DOMAIN jobs |-> IF i = id THEN [jobs[id] EXCEPT !.state = st] ELSE jobs[i]]
  BY <1>1
<1>6. [jobs[id] EXCEPT !.state = st] = [state |-> st, val |-> ValueOf(id)]
  BY <1>1, <1>4
<1>7. \A i \in DOMAIN jobs :
         jobs'[i] = [state |-> jobs'[i].state, val |-> ValueOf(i)]
         /\ jobs'[i].state = IF i = id THEN st ELSE jobs[i].state
  BY <1>4, <1>5, <1>6
<1>8. Truths'
  <2>1. jobs' = [i \in DOMAIN jobs' |-> [state |-> jobs'[i].state, val |-> ValueOf(i)]]
    <3>1. jobs' = [i \in DOMAIN jobs |-> jobs'[i]]
      BY <1>5
    <3> QED BY <1>3, <1>7, <3>1
  <2>2. \A i \in DOMAIN jobs' : jobs'[i].state \in JobStates
    BY <1>3, <1>4, <1>7 DEF JobStates
  <2>3. \A i \in DOMAIN ready' : ready'[i] = ValueOf(i)
    BY <1>2 DEF HInv, Truths
  <2> QED BY <2>1, <2>2, <2>3 DEF Truths
<1>9. Types'
  BY <1>2, <1>3 DEF HInv, Types
<1>10. Outcome'
  <2>1. \A i \in DOMAIN jobs' : jobs'[i].state = "raised" => raising' # {}
    BY <1>2, <1>3, <1>7 DEF HInv, Outcome
  <2> QED BY <1>2, <2>1 DEF HInv, Outcome
<1> QED BY <1>2, <1>3, <1>8, <1>9, <1>10, NothingMoves DEF HInv

-----------------------------------------------------------------------------
(* The stack of combines.                                                  *)

LEMMA SeqOfNone == SetToSeq({}) = <<>>
<1>1. Cardinality({}) = 0
  BY FS_EmptySet
<1>2. 1 .. 0 = {}
  OBVIOUS
<1>3. <<>> \in [{} -> {}] /\ \A f \in [{} -> {}] : f = <<>>
  <2>1. DOMAIN <<>> = {}
    BY EmptySeq
  <2> QED BY <2>1
<1>4. IsInjective(<<>>)
  BY <1>3 DEF IsInjective
<1> QED BY <1>1, <1>2, <1>3, <1>4 DEF SetToSeq

LEMMA SeqOfOne ==
  ASSUME NEW c
  PROVE  SetToSeq({c}) = <<c>>
<1>1. Cardinality({c}) = 1
  BY FS_Singleton
<1>2. <<c>> = [k \in 1 .. 1 |-> c]
  OBVIOUS
<1>3. <<c>> \in [1 .. 1 -> {c}] /\ \A f \in [1 .. 1 -> {c}] : f = <<c>>
  BY <1>2
<1>4. IsInjective(<<c>>)
  <2>1. \A a, b \in DOMAIN <<c>> : a = b
    BY <1>2
  <2> QED BY <2>1 DEF IsInjective
<1> QED BY <1>1, <1>3, <1>4 DEF SetToSeq

(* Pushing what was not on the stack.                                        *)
Pushes(S, s, F, t) ==
  /\ s \in Seq(S) /\ IsInjective(s)
  /\ F = {} \/ \E c \in S : F = {c}
  /\ ToSet(s) \cap F = {}
  /\ t = s \o SetToSeq(F)
StackHolds(S, s, F, t) == t \in Seq(S) /\ IsInjective(t) /\ ToSet(t) = ToSet(s) \cup F

LEMMA Pushed ==
  ASSUME NEW S, NEW s, NEW F, NEW t, Pushes(S, s, F, t)
  PROVE  StackHolds(S, s, F, t)
<1> USE DEF Pushes, StackHolds
<1>1. CASE F = {}
  <2>1. s \o SetToSeq(F) = s
    BY <1>1, SeqOfNone, ConcatEmptySeq
  <2> QED BY <1>1, <2>1
<1>2. ASSUME NEW c \in S, F = {c}
      PROVE  t \in Seq(S) /\ IsInjective(t) /\ ToSet(t) = ToSet(s) \cup F
  <2>1. t = Append(s, c)
    <3>1. SetToSeq(F) = <<c>>
      BY <1>2, SeqOfOne
    <3>2. Append(s, c) = s \o <<c>>
      BY AppendIsConcat
    <3> QED BY <3>1, <3>2
  <2>2. /\ t \in Seq(S) /\ Len(s) \in Nat /\ Len(t) = Len(s) + 1 /\ DOMAIN s = 1 .. Len(s)
        /\ \A k \in 1 .. Len(s) : t[k] = s[k]
        /\ t[Len(s) + 1] = c
    BY <2>1, AppendProperties, LenProperties
  <2>3. DOMAIN t = 1 .. Len(s) + 1
    BY <2>2, LenProperties
  <2>4. \A k \in 1 .. Len(s) + 1 : k \in 1 .. Len(s) \/ k = Len(s) + 1
    BY <2>2
  <2>5. \A k \in DOMAIN s : s[k] # c
    BY <1>2 DEF ToSet
  <2>6. IsInjective(t)
    <3> SUFFICES ASSUME NEW a \in DOMAIN t, NEW b \in DOMAIN t, t[a] = t[b] PROVE a = b
      BY DEF IsInjective
    <3>1. CASE a \in 1 .. Len(s) /\ b \in 1 .. Len(s)
      BY <2>2, <3>1 DEF IsInjective
    <3>2. CASE a \in 1 .. Len(s) /\ b = Len(s) + 1
      BY <2>2, <2>5, <3>2
    <3>3. CASE a = Len(s) + 1 /\ b \in 1 .. Len(s)
      BY <2>2, <2>5, <3>3
    <3> QED BY <2>3, <2>4, <3>1, <3>2, <3>3
  <2>7. ToSet(t) = ToSet(s) \cup {c}
    <3>1. \A k \in DOMAIN t : t[k] \in ToSet(s) \cup {c}
      BY <2>2, <2>3, <2>4 DEF ToSet
    <3>2. \A k \in DOMAIN s : s[k] \in ToSet(t)
      <4>1. \A k \in DOMAIN s : k \in DOMAIN t /\ t[k] = s[k]
        BY <2>2, <2>3
      <4> QED BY <4>1 DEF ToSet
    <3>3. c \in ToSet(t)
      <4>1. Len(s) + 1 \in DOMAIN t
        BY <2>2, <2>3
      <4> QED BY <2>2, <4>1 DEF ToSet
    <3> QED BY <3>1, <3>2, <3>3 DEF ToSet
  <2> QED BY <1>2, <2>2, <2>6, <2>7
<1> QED BY <1>1, <1>2

(* Popping the top.                                                        *)
LEMMA Popping ==
  ASSUME NEW S, NEW s \in Seq(S), IsInjective(s), s # <<>>
  PROVE  /\ Front(s) \in Seq(S) /\ IsInjective(Front(s))
         /\ Last(s) \in ToSet(s) /\ Last(s) \in S /\ ToSet(Front(s)) = ToSet(s) \ {Last(s)}
<1> DEFINE L == Len(s)
           t == Front(s)
<1>1. L \in Nat /\ L # 0 /\ DOMAIN s = 1 .. L
  BY LenProperties, EmptySeq
<1>2. t = SubSeq(s, 1, L - 1) /\ 1 \in 1 .. L + 1 /\ L - 1 \in 0 .. L
  BY <1>1 DEF Front
<1>3. t = [i \in 1 .. L - 1 |-> s[i]]
  <2>1. SubSeq(s, 1, L - 1) = [i \in 1 .. (L - 1) - 1 + 1 |-> s[i + 1 - 1]]
    BY <1>1
  <2>2. (L - 1) - 1 + 1 = L - 1 /\ \A i \in 1 .. L - 1 : i + 1 - 1 = i
    BY <1>1
  <2> QED BY <1>2, <2>1, <2>2
<1>4. Last(s) = s[L] /\ L \in 1 .. L
  BY <1>1 DEF Last
<1> HIDE DEF t, L
<1>5. \A i \in 1 .. L : s[i] \in S
  BY <1>1, ElementOfSeq DEF L
<1>6. t \in Seq(S)
  <2>1. L - 1 \in Nat /\ \A i \in 1 .. L - 1 : i \in 1 .. L
    BY <1>1
  <2>2. t \in [1 .. L - 1 -> S]
    BY <1>3, <1>5, <2>1
  <2> QED BY <2>1, <2>2, SeqDef
<1>7. DOMAIN t = 1 .. L - 1 /\ \A i \in 1 .. L - 1 : t[i] = s[i] /\ i \in 1 .. L /\ i # L
  BY <1>1, <1>3
<1>8. IsInjective(t)
  BY <1>1, <1>7 DEF IsInjective
<1>9. ToSet(t) = ToSet(s) \ {s[L]}
  <2>1. \A i \in 1 .. L : i = L \/ i \in 1 .. L - 1
    BY <1>1
  <2>2. \A i \in 1 .. L - 1 : s[i] # s[L]
    BY <1>1, <1>4, <1>7 DEF IsInjective
  <2>3. ToSet(s) = {s[i] : i \in 1 .. L} /\ ToSet(t) = {s[i] : i \in 1 .. L - 1}
    BY <1>1, <1>7 DEF ToSet
  <2> QED BY <1>4, <1>7, <2>1, <2>2, <2>3
<1>10. Last(s) \in ToSet(s) /\ Last(s) \in S
  BY <1>1, <1>4, <1>5 DEF ToSet
<1> QED BY <1>4, <1>6, <1>8, <1>9, <1>10 DEF t

-----------------------------------------------------------------------------
(* The arrival of an operand.                                              *)

LEMMA FiredIs ==
  ASSUME Types, NEW id \in Ids
  PROVE  /\ Fired(id) = {ci \in 1 .. M : id \in {Left(ci), Right(ci)} /\ remaining[ci] \subseteq {id}}
         /\ Fired(id) = {} \/ \E c \in 1 .. M : Fired(id) = {c}
         /\ Discard(id) \in [1 .. M -> SUBSET Ids]
         /\ \A ci \in 1 .. M :
              Discard(id)[ci] = IF id \in {Left(ci), Right(ci)} THEN remaining[ci] \ {id} ELSE remaining[ci]
<1>1. remaining \in [1 .. M -> SUBSET Ids]
  BY DEF Types
<1>2. DOMAIN remaining = 1 .. M /\ \A ci \in 1 .. M : remaining[ci] \in SUBSET Ids
  BY <1>1
<1>3. Fired(id) = {ci \in 1 .. M : id \in {Left(ci), Right(ci)} /\ remaining[ci] \subseteq {id}}
  BY <1>2 DEF Fired, WaitsFor
<1>4. \A ci, cj \in Fired(id) : ci = cj
  <2>1. \A ci, cj \in 1 .. M : {Left(ci), Right(ci)} \cap {Left(cj), Right(cj)} # {} => ci = cj
    BY CombineFacts
  <2>2. \A ci \in Fired(id) : ci \in 1 .. M /\ id \in {Left(ci), Right(ci)}
    BY <1>3
  <2> QED BY <2>1, <2>2
<1>5. Fired(id) = {} \/ \E c \in 1 .. M : Fired(id) = {c}
  <2>1. Fired(id) \subseteq 1 .. M
    BY <1>3
  <2> QED BY <1>4, <2>1
<1>6. Discard(id) = [ci \in 1 .. M |-> IF id \in {Left(ci), Right(ci)} THEN remaining[ci] \ {id} ELSE remaining[ci]]
  BY <1>2 DEF Discard, WaitsFor
<1>7. Discard(id) \in [1 .. M -> SUBSET Ids]
  BY <1>2, <1>6
<1> QED BY <1>3, <1>5, <1>6, <1>7

LEMMA PlainArrives ==
  ASSUME Types, Plain, NEW id \in Ids, id \notin DOMAIN ready, DOMAIN ready' = DOMAIN ready \cup {id},
         remaining' = Discard(id),
         NEW s \in Seq(1 .. M), IsInjective(s), ToSet(s) = {ci \in Given : Out(ci) \notin DOMAIN ready'},
         work' = s \o SetToSeq(Fired(id)),
         \A ci \in 1 .. M : id = Out(ci) => ci \in Given
  PROVE  /\ remaining' \in [1 .. M -> SUBSET Ids]
         /\ work' \in Seq(1 .. M) /\ IsInjective(work')
         /\ \A ci \in 1 .. M : remaining'[ci] = {Left(ci), Right(ci)} \ DOMAIN ready'
         /\ \A ci \in 1 .. M : Out(ci) \in DOMAIN ready' => ci \in Given'
         /\ ToSet(work') = {ci \in Given' : Out(ci) \notin DOMAIN ready'}
<1>1. /\ Fired(id) = {ci \in 1 .. M : id \in {Left(ci), Right(ci)} /\ remaining[ci] \subseteq {id}}
      /\ Fired(id) = {} \/ \E c \in 1 .. M : Fired(id) = {c}
      /\ remaining' \in [1 .. M -> SUBSET Ids]
      /\ \A ci \in 1 .. M :
           remaining'[ci] = IF id \in {Left(ci), Right(ci)} THEN remaining[ci] \ {id} ELSE remaining[ci]
  BY FiredIs
<1>2. \A ci \in 1 .. M : remaining[ci] = {Left(ci), Right(ci)} \ DOMAIN ready
  BY DEF Plain
<1>3. \A ci \in 1 .. M : remaining'[ci] = {Left(ci), Right(ci)} \ DOMAIN ready'
  BY <1>1, <1>2
<1>4. Given \subseteq Given'
  BY <1>1 DEF Given
<1>5. \A ci \in 1 .. M : Out(ci) \in DOMAIN ready' => ci \in Given'
  <2>1. \A ci \in 1 .. M : Out(ci) \in DOMAIN ready => ci \in Given
    BY DEF Plain
  <2> QED BY <1>4, <2>1
<1>6. \A ci \in Fired(id) : ci \in Given' /\ ci \notin Given /\ Out(ci) \notin DOMAIN ready'
  <2> SUFFICES ASSUME NEW ci \in Fired(id) PROVE ci \in Given' /\ ci \notin Given /\ Out(ci) \notin DOMAIN ready'
    OBVIOUS
  <2>1. ci \in 1 .. M /\ id \in {Left(ci), Right(ci)} /\ remaining[ci] \subseteq {id} /\ id \in remaining[ci]
    BY <1>1, <1>2
  <2>2. ci \notin Given
    BY <2>1 DEF Given
  <2>3. ci \in Given'
    BY <1>1, <2>1 DEF Given
  <2>4. Out(ci) \notin DOMAIN ready
    BY <2>1, <2>2 DEF Plain
  <2>5. Out(ci) # id
    BY <2>1, <2>2
  <2> QED BY <2>2, <2>3, <2>4, <2>5
<1>7. \A ci \in Given' : ci \in Given \/ ci \in Fired(id)
  <2> SUFFICES ASSUME NEW ci \in Given', ci \notin Given PROVE ci \in Fired(id)
    OBVIOUS
  <2>1. ci \in 1 .. M /\ remaining'[ci] = {} /\ remaining[ci] # {}
    BY DEF Given
  <2>2. id \in {Left(ci), Right(ci)} /\ remaining[ci] \ {id} = {}
    BY <1>1, <2>1
  <2> QED BY <1>1, <2>1, <2>2
<1>8. ToSet(s) \cap Fired(id) = {}
  BY <1>6
<1>9. work' \in Seq(1 .. M) /\ IsInjective(work') /\ ToSet(work') = ToSet(s) \cup Fired(id)
  <2>1. PICK F : F = Fired(id)
    OBVIOUS
  <2>2. (F = {} \/ \E c \in 1 .. M : F = {c}) /\ ToSet(s) \cap F = {}
    BY <1>1, <1>8, <2>1
  <2>4. PICK t : t = work'
    OBVIOUS
  <2>5. t = s \o SetToSeq(F)
    BY <2>1, <2>4
  <2>3. Pushes(1 .. M, s, F, t)
    BY <2>2, <2>5 DEF Pushes
  <2>6. StackHolds(1 .. M, s, F, t)
    BY <2>3, Pushed, Zenon
  <2> QED BY <2>1, <2>4, <2>6, Zenon DEF StackHolds
<1>10. ToSet(work') = {ci \in Given' : Out(ci) \notin DOMAIN ready'}
  BY <1>4, <1>6, <1>7, <1>9
<1> QED BY <1>1, <1>3, <1>5, <1>9, <1>10

LEMMA HubDeliver ==
  ASSUME HInv, NEW leaf \in Ids, Deliver(leaf)
  PROVE  HInv' /\ UNCHANGED n_combines /\ leaf \in Leaves
<1>1. /\ ~pooled /\ work = <<>> /\ driver = "run" /\ leaf \in DOMAIN jobs /\ jobs[leaf].state = "done"
      /\ jobs' = Without(jobs, {leaf})
      /\ ready' = Put(ready, leaf, jobs[leaf].val)
      /\ remaining' = Discard(leaf)
      /\ work' = SetToSeq(Fired(leaf))
      /\ UNCHANGED <<pooled, persistent, raising, n_combines, driver, answer>>
  BY DEF Deliver, Arrived, inputs
<1>2. Types /\ Truths /\ Plain /\ Outcome
  BY <1>1 DEF HInv
<1>3. leaf \in Leaves /\ leaf \notin DOMAIN ready /\ jobs[leaf].val = ValueOf(leaf)
  <2>1. jobs[leaf] = [state |-> jobs[leaf].state, val |-> ValueOf(leaf)]
    BY <1>1, <1>2 DEF Truths
  <2>2. jobs[leaf].val = ValueOf(leaf)
    BY <2>1
  <2> QED BY <1>1, <1>2, <2>2 DEF Plain, Types
<1>4. DOMAIN jobs' = DOMAIN jobs \ {leaf} /\ \A i \in DOMAIN jobs' : jobs'[i] = jobs[i]
  BY <1>1 DEF Without, Restrict
<1>5. DOMAIN ready' = DOMAIN ready \cup {leaf} /\ \A i \in DOMAIN ready' : ready'[i] = ValueOf(i)
  <2>1. \A i \in DOMAIN ready : ready[i] = ValueOf(i)
    BY <1>2 DEF Truths
  <2> QED BY <1>1, <1>3, <2>1 DEF Put
<1>6. \A ci \in 1 .. M : Out(ci) # leaf
  BY <1>3, CombineFacts
<1>7. /\ remaining' \in [1 .. M -> SUBSET Ids]
      /\ work' \in Seq(1 .. M) /\ IsInjective(work')
      /\ \A ci \in 1 .. M : remaining'[ci] = {Left(ci), Right(ci)} \ DOMAIN ready'
      /\ \A ci \in 1 .. M : Out(ci) \in DOMAIN ready' => ci \in Given'
      /\ ToSet(work') = {ci \in Given' : Out(ci) \notin DOMAIN ready'}
  <2>1. PICK s : s = work
    OBVIOUS
  <2>2. s \in Seq(1 .. M) /\ IsInjective(s)
    BY <1>2, <2>1 DEF Types
  <2>3. ToSet(s) = {ci \in Given : Out(ci) \notin DOMAIN ready'}
    <3>1. ToSet(s) = {ci \in Given : Out(ci) \notin DOMAIN ready}
      BY <1>2, <2>1 DEF Plain
    <3>2. \A ci \in Given : ci \in 1 .. M
      BY DEF Given
    <3> QED BY <1>5, <1>6, <3>1, <3>2
  <2>4. \E c : Fired(leaf) = {} \/ Fired(leaf) = {c}
    BY <1>2, FiredIs
  <2>5. work' = s \o SetToSeq(Fired(leaf))
    <3>1. s = <<>>
      BY <1>1, <2>1
    <3>2. PICK S : SetToSeq(Fired(leaf)) \in Seq(S)
      <4>1. PICK c : Fired(leaf) = {} \/ Fired(leaf) = {c}
        BY <2>4
      <4>2. <<>> \in Seq({c}) /\ <<c>> \in Seq({c})
        OBVIOUS
      <4>3. SetToSeq(Fired(leaf)) = <<>> \/ SetToSeq(Fired(leaf)) = <<c>>
        BY <4>1, SeqOfNone, SeqOfOne
      <4> QED BY <4>2, <4>3
    <3>3. <<>> \o SetToSeq(Fired(leaf)) = SetToSeq(Fired(leaf))
      BY <3>2, ConcatEmptySeq
    <3> QED BY <1>1, <3>1, <3>3
  <2>6. \A ci \in 1 .. M : leaf = Out(ci) => ci \in Given
    BY <1>6
  <2> QED BY <1>1, <1>2, <1>3, <1>5, <2>2, <2>3, <2>5, <2>6, PlainArrives
<1>8. Types'
  <2>1. DOMAIN jobs' \subseteq Ids /\ DOMAIN ready' \subseteq Ids /\ DOMAIN jobs' \cap DOMAIN ready' = {}
    BY <1>2, <1>4, <1>5 DEF Types
  <2> QED BY <1>1, <1>2, <1>7, <2>1 DEF Types
<1>9. Truths'
  <2>1. jobs' = [i \in DOMAIN jobs' |-> [state |-> jobs'[i].state, val |-> ValueOf(i)]]
    <3>1. jobs' = [i \in DOMAIN jobs' |-> jobs'[i]]
      BY <1>1 DEF Without, Restrict
    <3>2. \A i \in DOMAIN jobs' : jobs'[i] = [state |-> jobs'[i].state, val |-> ValueOf(i)]
      BY <1>2, <1>4 DEF Truths
    <3> QED BY <3>1, <3>2
  <2>2. \A i \in DOMAIN jobs' : jobs'[i].state \in JobStates
    BY <1>2, <1>4 DEF Truths
  <2> QED BY <1>5, <2>1, <2>2 DEF Truths
<1>10. Plain'
  <2>1. {ci \in 1 .. M : Out(ci) \in DOMAIN ready'} = {ci \in 1 .. M : Out(ci) \in DOMAIN ready}
    BY <1>5, <1>6
  <2>2. n_combines' = Cardinality({ci \in 1 .. M : Out(ci) \in DOMAIN ready'})
    BY <1>1, <1>2, <2>1 DEF Plain
  <2>3. DOMAIN jobs' \subseteq Leaves /\ Leaves \subseteq Present'
    BY <1>2, <1>4, <1>5 DEF Plain, Present
  <2> QED BY <1>7, <2>2, <2>3 DEF Plain
<1>11. Outcome'
  BY <1>1, <1>2, <1>4 DEF Outcome
<1> QED BY <1>1, <1>3, <1>8, <1>9, <1>10, <1>11 DEF HInv

LEMMA HubRunCombine ==
  ASSUME HInv, RunCombine
  PROVE  HInv'
<1> DEFINE ci == Last(work)
           id == Out(ci)
<1>1. /\ driver = "run" /\ work # <<>>
      /\ ready' = Put(ready, id, Combine(ready[Left(ci)], ready[Right(ci)]))
      /\ remaining' = Discard(id)
      /\ work' = Front(work) \o SetToSeq(Fired(id))
      /\ n_combines' = n_combines + 1
      /\ UNCHANGED <<pooled, persistent, raising, jobs, driver, answer>>
  BY Zenon DEF RunCombine, NextCombine, PoppedWork, inputs
<1>2. ~pooled /\ Types /\ Truths /\ Plain /\ Outcome
  BY <1>1 DEF HInv, Handed
<1>3. /\ Front(work) \in Seq(1 .. M) /\ IsInjective(Front(work))
      /\ ci \in ToSet(work) /\ ci \in 1 .. M /\ ToSet(Front(work)) = ToSet(work) \ {ci}
  BY <1>1, <1>2, Popping DEF Types
<1>4. ci \in Given /\ id \notin DOMAIN ready
  BY <1>2, <1>3 DEF Plain
<1>5. Left(ci) \in DOMAIN ready /\ Right(ci) \in DOMAIN ready
  BY <1>2, <1>3, <1>4 DEF Plain, Given
<1>6. id \in Ids /\ id \notin Leaves /\ \A cj \in 1 .. M : Out(cj) = id => cj = ci
  <2>1. \A cj \in 1 .. M : Out(cj) = N + cj - 1 /\ Out(cj) \in Ids /\ Out(cj) \notin Leaves
    BY CombineFacts
  <2> QED BY <1>3, <2>1, SizeFacts
<1> HIDE DEF ci, id
<1>7. DOMAIN ready' = DOMAIN ready \cup {id} /\ \A i \in DOMAIN ready' : ready'[i] = ValueOf(i)
  <2>1. \A i \in DOMAIN ready : ready[i] = ValueOf(i)
    BY <1>2 DEF Truths
  <2>2. Combine(ready[Left(ci)], ready[Right(ci)]) = ValueOf(id)
    BY <1>3, <1>5, <2>1, CoverFacts DEF id
  <2> QED BY <1>1, <2>1, <2>2 DEF Put
<1>8. /\ remaining' \in [1 .. M -> SUBSET Ids]
      /\ work' \in Seq(1 .. M) /\ IsInjective(work')
      /\ \A cj \in 1 .. M : remaining'[cj] = {Left(cj), Right(cj)} \ DOMAIN ready'
      /\ \A cj \in 1 .. M : Out(cj) \in DOMAIN ready' => cj \in Given'
      /\ ToSet(work') = {cj \in Given' : Out(cj) \notin DOMAIN ready'}
  <2>1. PICK s : s = Front(work)
    OBVIOUS
  <2>2. s \in Seq(1 .. M) /\ IsInjective(s)
    BY <1>3, <2>1
  <2>3. ToSet(s) = {cj \in Given : Out(cj) \notin DOMAIN ready'}
    <3>1. ToSet(s) = {cj \in Given : Out(cj) \notin DOMAIN ready} \ {ci}
      BY <1>2, <1>3, <2>1 DEF Plain
    <3>2. \A cj \in Given : cj \in 1 .. M
      BY DEF Given
    <3>3. Out(ci) = id
      BY DEF id
    <3> QED BY <1>6, <1>7, <3>1, <3>2, <3>3
  <2>4. work' = s \o SetToSeq(Fired(id))
    BY <1>1, <2>1
  <2>5. \A cj \in 1 .. M : id = Out(cj) => cj \in Given
    BY <1>4, <1>6
  <2> QED BY <1>1, <1>2, <1>4, <1>6, <1>7, <2>2, <2>3, <2>4, <2>5, PlainArrives
<1>9. Types'
  <2>1. id \notin DOMAIN jobs
    BY <1>2, <1>6 DEF Plain
  <2>2. DOMAIN jobs' \subseteq Ids /\ DOMAIN ready' \subseteq Ids /\ DOMAIN jobs' \cap DOMAIN ready' = {}
    BY <1>1, <1>2, <1>6, <1>7, <2>1 DEF Types
  <2> QED BY <1>1, <1>2, <1>8, <2>2 DEF Types
<1>10. Truths'
  BY <1>1, <1>2, <1>7 DEF Truths
<1>11. Plain'
  <2> DEFINE Made == {cj \in 1 .. M : Out(cj) \in DOMAIN ready}
  <2>1. {cj \in 1 .. M : Out(cj) \in DOMAIN ready'} = Made \cup {ci}
    <3>1. Out(ci) = id
      BY DEF id
    <3> QED BY <1>3, <1>6, <1>7, <3>1
  <2>2. ci \notin Made
    BY <1>4 DEF id
  <2>3. IsFiniteSet(Made)
    <3>1. IsFiniteSet(1 .. M)
      BY CombineFacts, FS_Interval
    <3> QED BY <3>1, FS_Subset
  <2>4. Cardinality(Made \cup {ci}) = Cardinality(Made) + 1
    <3> HIDE DEF Made
    <3> QED BY <2>2, <2>3, FS_AddElement
  <2>5. n_combines' = Cardinality({cj \in 1 .. M : Out(cj) \in DOMAIN ready'})
    BY <1>1, <1>2, <2>1, <2>4 DEF Plain
  <2>6. DOMAIN jobs' \subseteq Leaves /\ Leaves \subseteq Present'
    BY <1>1, <1>2, <1>7 DEF Plain, Present
  <2> QED BY <1>8, <2>5, <2>6 DEF Plain
<1>12. Outcome'
  BY <1>1, <1>2 DEF Outcome
<1> QED BY <1>1, <1>2, <1>9, <1>10, <1>11, <1>12 DEF HInv

(* A combine or a job that raises ends the loop.                             *)
LEMMA HubStops ==
  ASSUME HInv, CombineRaises \/ (\E id \in Ids : ResultRaises(id)) \/ Fails \/ Returns \/ UNCHANGED vars
  PROVE  HInv'
<1>1. UNCHANGED <<pooled, persistent, raising, jobs, ready, remaining, work, n_combines>>
  BY DEF CombineRaises, ResultRaises, Fails, Returns, inputs, vars
<1>2. Types' /\ Truths'
  <2>1. driver' \in {"run", "leaving", "returned", "failed"}
    BY DEF CombineRaises, ResultRaises, Fails, Returns, Reraised, inputs, vars, HInv, Types
  <2> QED BY <1>1, <2>1 DEF HInv, Types, Truths
<1>3. (~pooled => Plain)' /\ (pooled => Handed)'
  BY <1>1, NothingMoves
<1>4. Outcome'
  <2>1. \A id \in DOMAIN jobs' : jobs'[id].state = "raised" => raising' # {}
    BY <1>1 DEF HInv, Outcome
  <2>2. CASE CombineRaises
    BY <1>1, <2>1, <2>2 DEF CombineRaises, HInv, Outcome
  <2>3. CASE \E id \in Ids : ResultRaises(id)
    BY <1>1, <2>1, <2>3 DEF ResultRaises, Raised, HInv, Outcome
  <2>4. CASE Fails
    BY <1>1, <2>1, <2>4 DEF Fails, Reraised, HInv, Outcome
  <2>5. CASE Returns
    BY <1>1, <2>1, <2>5 DEF Returns, HInv, Outcome
  <2>6. CASE UNCHANGED vars
    BY <1>1, <2>1, <2>6 DEF vars, HInv, Outcome
  <2> QED BY <2>2, <2>3, <2>4, <2>5, <2>6
<1> QED BY <1>2, <1>3, <1>4 DEF HInv

-----------------------------------------------------------------------------
(* The pooled driver takes a result.                                        *)

Operands(F) == UNION {{Left(ci), Right(ci)} : ci \in F}
Outs(F) == {Out(ci) : ci \in F}

(* It completes a combine whose operands are both in the driver's hands, and   *)
(* which was not submitted before.                                          *)
Completes(id, F) ==
  /\ id \in DOMAIN jobs /\ id \notin DOMAIN ready
  /\ F \subseteq 1 .. M /\ (F = {} \/ \E c \in 1 .. M : F = {c})
  /\ \A c \in F : c \notin Given /\ id \in {Left(c), Right(c)} /\ {Left(c), Right(c)} \subseteq DOMAIN ready \cup {id}
  /\ Given' = Given \cup F
  /\ remaining' \in [1 .. M -> SUBSET Ids]
  /\ \A ci \in 1 .. M : ci \notin Given' => remaining'[ci] = {Left(ci), Right(ci)} \ (DOMAIN ready \cup {id})

LEMMA TakeCompletes ==
  ASSUME HInv, pooled, NEW id \in Ids, TakeResult(id)
  PROVE  Completes(id, Fired(id))
<1>1. Types /\ Handed /\ id \in DOMAIN jobs /\ remaining' = Discard(id)
  BY Zenon DEF HInv, TakeResult, Arrived
<1>2. id \notin DOMAIN ready /\ id \in Present
  BY <1>1 DEF Types, Present
<1>3. /\ Fired(id) = {ci \in 1 .. M : id \in {Left(ci), Right(ci)} /\ remaining[ci] \subseteq {id}}
      /\ Fired(id) = {} \/ \E c \in 1 .. M : Fired(id) = {c}
      /\ remaining' \in [1 .. M -> SUBSET Ids]
      /\ \A ci \in 1 .. M :
           remaining'[ci] = IF id \in {Left(ci), Right(ci)} THEN remaining[ci] \ {id} ELSE remaining[ci]
  BY <1>1, FiredIs
<1>4. \A ci \in 1 .. M : ci \in Given => Left(ci) # id /\ Right(ci) # id
  BY <1>1, <1>2 DEF Handed
<1>5. \A ci \in 1 .. M : ci \notin Given => remaining[ci] = {Left(ci), Right(ci)} \ DOMAIN ready
  BY <1>1 DEF Handed
<1>6. \A c \in Fired(id) : c \notin Given /\ id \in {Left(c), Right(c)} /\ {Left(c), Right(c)} \subseteq DOMAIN ready \cup {id}
  BY <1>3, <1>4, <1>5
<1>7. Given' = Given \cup Fired(id)
  <2>1. \A ci \in 1 .. M : ci \in Given <=> remaining[ci] = {}
    BY DEF Given
  <2>2. \A ci \in 1 .. M : ci \in Given' <=> remaining'[ci] = {}
    BY DEF Given
  <2>3. Given \subseteq 1 .. M /\ Given' \subseteq 1 .. M
    BY DEF Given
  <2>4. ASSUME NEW ci \in 1 .. M PROVE ci \in Given' <=> ci \in Given \/ ci \in Fired(id)
    <3>1. CASE id \in {Left(ci), Right(ci)}
      <4>1. ci \notin Given /\ remaining[ci] # {}
        BY <1>4, <2>1, <3>1
      <4>2. remaining'[ci] = {} <=> remaining[ci] \subseteq {id}
        BY <1>3, <3>1
      <4> QED BY <1>3, <2>2, <3>1, <4>1, <4>2
    <3>2. CASE id \notin {Left(ci), Right(ci)}
      BY <1>3, <2>1, <2>2, <3>2
    <3> QED BY <3>1, <3>2
  <2> QED BY <1>3, <2>3, <2>4
<1>8. \A ci \in 1 .. M : ci \notin Given' => remaining'[ci] = {Left(ci), Right(ci)} \ (DOMAIN ready \cup {id})
  BY <1>3, <1>5, <1>7
<1>9. Fired(id) \subseteq 1 .. M
  BY <1>3
<1> QED BY <1>1, <1>2, <1>3, <1>6, <1>7, <1>8, <1>9 DEF Completes

(* What it keeps, and what it submits, have the value of the tree.            *)
Hands(id, F) ==
  /\ UNCHANGED <<pooled, persistent, raising, work, driver, answer>>
  /\ DOMAIN jobs' = (DOMAIN jobs \ {id}) \cup Outs(F)
  /\ DOMAIN ready' = (DOMAIN ready \cup {id}) \ Operands(F)
  /\ n_combines' = n_combines + Cardinality(F)
  /\ Truths'
  /\ \A i \in DOMAIN jobs' : i \notin DOMAIN jobs => jobs'[i].state = "running"
  /\ \A i \in DOMAIN jobs' : i \in DOMAIN jobs => jobs'[i] = jobs[i]

LEMMA TakeHands ==
  ASSUME HInv, pooled, NEW id \in Ids, TakeResult(id)
  PROVE  Hands(id, Fired(id))
<1> DEFINE F == Fired(id)
           held == Put(ready, id, jobs[id].val)
<1>1. Completes(id, F)
  BY TakeCompletes
<1>2. /\ ready' = Without(held, Operands(F))
      /\ jobs' = [i \in (DOMAIN jobs \ {id}) \cup Outs(F) |->
                    IF i \in DOMAIN jobs THEN jobs[i]
                    ELSE LET ci == i - N + 1 IN Running(Combine(held[Left(ci)], held[Right(ci)]))]
      /\ n_combines' = n_combines + Cardinality(F)
      /\ UNCHANGED <<pooled, persistent, raising, work, driver, answer>>
  BY Zenon DEF TakeResult, inputs, Operands, Outs, Popped
<1>3. Truths
  BY DEF HInv
<1> HIDE DEF F
<1>4. DOMAIN held = DOMAIN ready \cup {id} /\ \A i \in DOMAIN held : held[i] = ValueOf(i)
  <2>1. \A i \in DOMAIN ready : ready[i] = ValueOf(i)
    BY <1>3 DEF Truths
  <2>2. jobs[id].val = ValueOf(id)
    <3>1. jobs[id] = [state |-> jobs[id].state, val |-> ValueOf(id)]
      BY <1>1, <1>3 DEF Completes, Truths
    <3> QED BY <3>1
  <2> QED BY <2>1, <2>2 DEF Put
<1> HIDE DEF held
<1>5. /\ DOMAIN ready' = (DOMAIN ready \cup {id}) \ Operands(F)
      /\ \A i \in DOMAIN ready' : ready'[i] = ValueOf(i)
  BY <1>2, <1>4 DEF Without, Restrict
<1>6. \A i \in DOMAIN jobs : jobs[i] = [state |-> jobs[i].state, val |-> ValueOf(i)] /\ jobs[i].state \in JobStates
  BY <1>3 DEF Truths
<1>7. DOMAIN jobs' = (DOMAIN jobs \ {id}) \cup Outs(F) /\ jobs' = [i \in DOMAIN jobs' |-> jobs'[i]]
  BY <1>2
<1>8. \A i \in DOMAIN jobs' : i \in DOMAIN jobs => jobs'[i] = jobs[i]
  BY <1>2
<1>9. ASSUME NEW i \in DOMAIN jobs', i \notin DOMAIN jobs
      PROVE  jobs'[i] = [state |-> "running", val |-> ValueOf(i)]
  <2>1. PICK c \in F : i = Out(c)
    BY <1>7, <1>9 DEF Outs
  <2>2. c \in 1 .. M /\ i = N + c - 1 /\ M \in Nat
    BY <1>1, <2>1, CombineFacts DEF Completes
  <2>3. i - N + 1 = c
    BY <2>2, SizeFacts
  <2>4. jobs'[i] = Running(Combine(held[Left(c)], held[Right(c)]))
    <3>1. jobs'[i] = Running(Combine(held[Left(i - N + 1)], held[Right(i - N + 1)]))
      BY <1>2, <1>7, <1>9
    <3> QED BY <2>3, <3>1
  <2>5. held[Left(c)] = ValueOf(Left(c)) /\ held[Right(c)] = ValueOf(Right(c))
    BY <1>1, <1>4, <2>1 DEF Completes
  <2>6. ValueOf(i) = Combine(ValueOf(Left(c)), ValueOf(Right(c)))
    BY <2>1, <2>2, CoverFacts
  <2> QED BY <2>4, <2>5, <2>6 DEF Running
<1>10. Truths'
  <2>1. \A i \in DOMAIN jobs' :
          jobs'[i] = [state |-> jobs'[i].state, val |-> ValueOf(i)] /\ jobs'[i].state \in JobStates
    <3> SUFFICES ASSUME NEW i \in DOMAIN jobs'
                 PROVE  jobs'[i] = [state |-> jobs'[i].state, val |-> ValueOf(i)] /\ jobs'[i].state \in JobStates
      OBVIOUS
    <3>1. CASE i \in DOMAIN jobs
      BY <1>6, <1>8, <3>1
    <3>2. CASE i \notin DOMAIN jobs
      BY <1>9, <3>2 DEF JobStates
    <3> QED BY <3>1, <3>2
  <2>2. jobs' = [i \in DOMAIN jobs' |-> [state |-> jobs'[i].state, val |-> ValueOf(i)]]
    BY <1>7, <2>1
  <2> QED BY <1>5, <2>1, <2>2 DEF Truths
<1>11. \A i \in DOMAIN jobs' : i \notin DOMAIN jobs => jobs'[i].state = "running"
  BY <1>9
<1> QED BY <1>2, <1>5, <1>7, <1>8, <1>10, <1>11 DEF Hands, F

LEMMA TakeHanded ==
  ASSUME HInv, pooled, NEW id \in Ids, NEW F, Completes(id, F), Hands(id, F)
  PROVE  Handed'
<1>1. Types /\ Handed
  BY DEF HInv
<1>2. /\ id \in DOMAIN jobs /\ id \notin DOMAIN ready
      /\ F \subseteq 1 .. M /\ (F = {} \/ \E c \in 1 .. M : F = {c})
      /\ \A c \in F : c \notin Given /\ id \in {Left(c), Right(c)} /\ {Left(c), Right(c)} \subseteq DOMAIN ready \cup {id}
      /\ Given' = Given \cup F
      /\ \A ci \in 1 .. M : ci \notin Given' => remaining'[ci] = {Left(ci), Right(ci)} \ (DOMAIN ready \cup {id})
  BY DEF Completes
<1>3. /\ UNCHANGED work
      /\ DOMAIN jobs' = (DOMAIN jobs \ {id}) \cup Outs(F)
      /\ DOMAIN ready' = (DOMAIN ready \cup {id}) \ Operands(F)
      /\ n_combines' = n_combines + Cardinality(F)
  BY DEF Hands
<1>4. Given \subseteq 1 .. M
  BY DEF Given
<1>5. \A c \in F : Left(c) \in Present /\ Right(c) \in Present /\ Out(c) \notin Present
  BY <1>1, <1>2 DEF Handed, Present
<1>6. \A i : i \in Outs(F) <=> \E c \in F : i = Out(c)
  BY DEF Outs
<1>7. \A i : i \in Operands(F) <=> \E c \in F : i \in {Left(c), Right(c)}
  BY DEF Operands
<1>8. Present' = (Present \ Operands(F)) \cup Outs(F)
  <2>1. id \in Operands(F) \/ id \notin Operands(F)
    OBVIOUS
  <2>2. \A i : i \in Operands(F) => i \in DOMAIN ready \/ i = id
    BY <1>2, <1>7
  <2>3. DOMAIN jobs \cap DOMAIN ready = {}
    BY <1>1 DEF Types
  <2> QED BY <1>2, <1>3, <2>2, <2>3 DEF Present
<1>9. \A ci \in 1 .. M : Out(ci) = N + ci - 1 /\ Left(ci) # Out(ci) /\ Right(ci) # Out(ci)
  <2>1. \A ci \in 1 .. M : Left(ci) < Out(ci) /\ Right(ci) < Out(ci) /\ Left(ci) \in Ids /\ Right(ci) \in Ids
                           /\ Ids \subseteq Nat /\ Out(ci) = N + ci - 1
    BY CombineFacts
  <2> QED BY <2>1, SizeFacts
<1>10. \A ci, cj \in 1 .. M : Out(ci) = Out(cj) => ci = cj
  BY <1>9, SizeFacts
<1>11. \A ci, cj \in 1 .. M : {Left(ci), Right(ci)} \cap {Left(cj), Right(cj)} # {} => ci = cj
  BY CombineFacts
<1>12. \A ci \in Given, cj \in 1 .. M : Out(cj) \in {Left(ci), Right(ci)} => cj \in Given
  BY <1>1 DEF Handed
<1>13. \A ci \in Given : Left(ci) \notin Present /\ Right(ci) \notin Present
  BY <1>1, <1>4 DEF Handed
<1>14. \A ci \in 1 .. M : ci \notin Given => Out(ci) \notin Present
  BY <1>1 DEF Handed
<1>15. \A ci \in Given' : Left(ci) \notin Present' /\ Right(ci) \notin Present'
  <2> SUFFICES ASSUME NEW ci \in Given', NEW i \in {Left(ci), Right(ci)} PROVE i \notin Present'
    OBVIOUS
  <2>1. i \notin Outs(F)
    <3> SUFFICES ASSUME NEW c \in F, i = Out(c) PROVE FALSE
      BY <1>6
    <3>1. CASE ci \in Given
      BY <1>2, <1>12, <3>1
    <3>2. CASE ci \in F
      BY <1>2, <1>9, <3>2
    <3> QED BY <1>2, <3>1, <3>2
  <2>2. CASE ci \in Given
    BY <1>8, <1>13, <2>1, <2>2
  <2>3. CASE ci \in F
    BY <1>7, <1>8, <2>1, <2>3
  <2> QED BY <1>2, <2>2, <2>3
<1>16. \A ci \in 1 .. M : ci \notin Given' =>
          remaining'[ci] = {Left(ci), Right(ci)} \ DOMAIN ready' /\ Out(ci) \notin Present'
  <2> SUFFICES ASSUME NEW ci \in 1 .. M, ci \notin Given'
               PROVE  remaining'[ci] = {Left(ci), Right(ci)} \ DOMAIN ready' /\ Out(ci) \notin Present'
    OBVIOUS
  <2>1. {Left(ci), Right(ci)} \cap Operands(F) = {}
    BY <1>2, <1>7, <1>11
  <2>2. remaining'[ci] = {Left(ci), Right(ci)} \ DOMAIN ready'
    BY <1>2, <1>3, <2>1
  <2>3. Out(ci) \notin Outs(F)
    BY <1>2, <1>6, <1>10
  <2> QED BY <1>2, <1>8, <1>14, <2>2, <2>3
<1>17. \A ci \in Given' : \A cj \in 1 .. M : Out(cj) \in {Left(ci), Right(ci)} => cj \in Given'
  <2> SUFFICES ASSUME NEW ci \in Given', NEW cj \in 1 .. M, Out(cj) \in {Left(ci), Right(ci)} PROVE cj \in Given'
    OBVIOUS
  <2>1. CASE ci \in Given
    BY <1>2, <1>12, <2>1
  <2>2. CASE ci \in F
    BY <1>2, <1>5, <1>14, <2>2
  <2> QED BY <1>2, <2>1, <2>2
<1>18. \A i : Consumed(i) => Consumed(i)'
  BY <1>2 DEF Consumed
<1>19. \A i : i \in Operands(F) => Consumed(i)'
  BY <1>2, <1>7 DEF Consumed
<1>20. \A i : i \in Present \/ Consumed(i) => i \in Present' \/ Consumed(i)'
  BY <1>8, <1>18, <1>19
<1>21. \A i \in Leaves : i \in Present' \/ Consumed(i)'
  <2>1. \A i \in Leaves : i \in Present \/ Consumed(i)
    BY <1>1 DEF Handed
  <2> QED BY <1>20, <2>1
<1>22. \A ci \in Given' : Out(ci) \in Present' \/ Consumed(Out(ci))'
  <2> SUFFICES ASSUME NEW ci \in Given' PROVE Out(ci) \in Present' \/ Consumed(Out(ci))'
    OBVIOUS
  <2>1. PICK i : i = Out(ci)
    OBVIOUS
  <2>2. CASE ci \in Given
    <3>1. i \in Present \/ Consumed(i)
      BY <1>1, <2>1, <2>2 DEF Handed
    <3>2. i \in Present' \/ Consumed(i)'
      BY <1>20, <3>1
    <3> QED BY <2>1, <3>2 DEF Consumed
  <2>3. CASE ci \in F
    BY <1>6, <1>8, <2>3
  <2> QED BY <1>2, <2>2, <2>3
<1>23. n_combines' = Cardinality(Given')
  <2>1. n_combines = Cardinality(Given)
    BY <1>1 DEF Handed
  <2>2. IsFiniteSet(Given)
    <3>1. IsFiniteSet(1 .. M)
      BY CombineFacts, FS_Interval
    <3> QED BY <1>4, <3>1, FS_Subset
  <2>3. Cardinality(Given) \in Nat
    BY <2>2, FS_CardinalityType
  <2>4. CASE F = {}
    <3>1. Cardinality(F) = 0
      BY <2>4, FS_EmptySet
    <3> QED BY <1>2, <1>3, <2>1, <2>3, <2>4, <3>1
  <2>5. ASSUME NEW c \in 1 .. M, F = {c} PROVE n_combines' = Cardinality(Given')
    <3>1. Cardinality(F) = 1
      BY <2>5, FS_Singleton
    <3>2. c \notin Given /\ Given' = Given \cup {c}
      BY <1>2, <2>5
    <3>3. PICK G : G = Given
      OBVIOUS
    <3>4. Cardinality(G \cup {c}) = Cardinality(G) + 1
      BY <2>2, <3>2, <3>3, FS_AddElement
    <3> QED BY <1>3, <2>1, <3>1, <3>2, <3>3, <3>4
  <2> QED BY <1>2, <2>4, <2>5
<1>24. \A a, b \in Present' : a # b => Cover[a] \cap Cover[b] = {}
  <2>1. \A a, b \in Present : a # b => Cover[a] \cap Cover[b] = {}
    BY <1>1 DEF Handed
  <2>2. \A c \in F : Cover[Out(c)] = Cover[Left(c)] \cup Cover[Right(c)]
    BY <1>2, CoverFacts
  <2>3. \A a \in Present \ Operands(F), b \in Outs(F) : Cover[a] \cap Cover[b] = {}
    <3> SUFFICES ASSUME NEW a \in Present \ Operands(F), NEW c \in F PROVE Cover[a] \cap Cover[Out(c)] = {}
      BY <1>6
    <3>1. a # Left(c) /\ a # Right(c)
      BY <1>7
    <3>2. Cover[a] \cap Cover[Left(c)] = {} /\ Cover[a] \cap Cover[Right(c)] = {}
      BY <1>5, <2>1, <3>1
    <3> QED BY <2>2, <3>2
  <2>4. \A a, b \in Outs(F) : a = b
    BY <1>2, <1>6
  <2> SUFFICES ASSUME NEW a \in Present', NEW b \in Present', a # b PROVE Cover[a] \cap Cover[b] = {}
    OBVIOUS
  <2>5. CASE a \in Present \ Operands(F) /\ b \in Present \ Operands(F)
    BY <2>1, <2>5
  <2>6. CASE a \in Present \ Operands(F) /\ b \in Outs(F)
    BY <2>3, <2>6
  <2>7. CASE a \in Outs(F) /\ b \in Present \ Operands(F)
    BY <2>3, <2>7
  <2> QED BY <1>8, <2>4, <2>5, <2>6, <2>7
<1>25. work' = <<>>
  BY <1>1, <1>3 DEF Handed
<1>26. \A ci \in 1 .. M :
         IF ci \in Given' THEN Left(ci) \notin Present' /\ Right(ci) \notin Present'
         ELSE remaining'[ci] = {Left(ci), Right(ci)} \ DOMAIN ready' /\ Out(ci) \notin Present'
  BY <1>15, <1>16
<1> QED BY <1>17, <1>21, <1>22, <1>23, <1>24, <1>25, <1>26 DEF Handed

LEMMA HubTakeResult ==
  ASSUME HInv, NEW id \in Ids, TakeResult(id)
  PROVE  HInv'
<1> DEFINE F == Fired(id)
<1>1. pooled
  BY DEF TakeResult
<1>2. Completes(id, F) /\ Hands(id, F)
  BY <1>1, TakeCompletes, TakeHands
<1> HIDE DEF F
<1>3. Handed'
  BY <1>1, <1>2, TakeHanded
<1>4. /\ UNCHANGED <<pooled, persistent, raising, work, driver, answer>> /\ Truths'
      /\ DOMAIN jobs' = (DOMAIN jobs \ {id}) \cup Outs(F)
      /\ DOMAIN ready' = (DOMAIN ready \cup {id}) \ Operands(F)
      /\ \A i \in DOMAIN jobs' : i \notin DOMAIN jobs => jobs'[i].state = "running"
      /\ \A i \in DOMAIN jobs' : i \in DOMAIN jobs => jobs'[i] = jobs[i]
  BY <1>2 DEF Hands
<1>5. Types /\ Outcome /\ Handed
  BY <1>1 DEF HInv
<1>6. F \subseteq 1 .. M /\ remaining' \in [1 .. M -> SUBSET Ids] /\ \A c \in F : c \notin Given
  BY <1>2 DEF Completes
<1>7. Types'
  <2>1. Outs(F) \subseteq Ids
    <3>1. \A ci \in 1 .. M : Out(ci) \in Ids
      BY CombineFacts
    <3> QED BY <1>6, <3>1 DEF Outs
  <2>2. Outs(F) \cap Present = {}
    BY <1>5, <1>6 DEF Outs, Handed
  <2>3. DOMAIN jobs' \subseteq Ids /\ DOMAIN ready' \subseteq Ids
    BY <1>4, <1>5, <2>1 DEF Types
  <2>4. id \notin Outs(F)
    BY <1>2, <2>2 DEF Completes, Present
  <2>5. DOMAIN jobs' \cap DOMAIN ready' = {}
    BY <1>4, <1>5, <2>2, <2>4 DEF Types, Present
  <2> QED BY <1>4, <1>5, <1>6, <2>3, <2>5 DEF Types
<1>8. Outcome'
  <2>1. \A i \in DOMAIN jobs' : jobs'[i].state = "raised" => raising' # {}
    <3> SUFFICES ASSUME NEW i \in DOMAIN jobs', jobs'[i].state = "raised" PROVE raising # {}
      BY <1>4
    <3>1. i \in DOMAIN jobs /\ jobs[i].state = "raised"
      BY <1>4
    <3> QED BY <1>5, <3>1 DEF Outcome
  <2> QED BY <1>4, <1>5, <2>1 DEF Outcome
<1> QED BY <1>1, <1>3, <1>4, <1>7, <1>8 DEF HInv

-----------------------------------------------------------------------------
(* The hub's invariant holds in every state, for every number of leaves,       *)
(* every combine, every set of tasks that raise, pooled combines or not.     *)
LEMMA HubStep == HInv /\ [Next]_vars => HInv'
<1> SUFFICES ASSUME HInv, [Next]_vars PROVE HInv'
  OBVIOUS
<1>1. ASSUME NEW id \in Ids, Deliver(id) PROVE HInv'
  BY <1>1, HubDeliver
<1>2. ASSUME NEW id \in Ids, TakeResult(id) PROVE HInv'
  BY <1>2, HubTakeResult
<1>3. ASSUME NEW id \in Ids, JobEnds(id) PROVE HInv'
  BY <1>3, HubJobEnds
<1>4. CASE RunCombine
  BY <1>4, HubRunCombine
<1>5. CASE CombineRaises \/ (\E id \in Ids : ResultRaises(id)) \/ Fails \/ Returns \/ UNCHANGED vars
  BY <1>5, HubStops
<1> QED BY <1>1, <1>2, <1>3, <1>4, <1>5 DEF Next, Driver, Pool, Over

THEOREM HubInvariant == Spec => []HInv
<1>1. Init => HInv
  BY HubInit
<1> QED BY <1>1, HubStep, PTL DEF Spec

(* The driver makes at most N - 1 combines, queues none twice, and holds and   *)
(* waits for nodes of the plan.                                             *)
LEMMA HubTyped == HInv => TypeOK
<1> SUFFICES ASSUME HInv PROVE TypeOK
  OBVIOUS
<1>1. M \in Nat /\ M = N - 1 /\ DOMAIN Combines = 1 .. M
  BY CombineFacts, CombinesAreFew
<1>2. \A S : S \subseteq 1 .. M => Cardinality(S) \in 0 .. N - 1
  <2> SUFFICES ASSUME NEW S, S \subseteq 1 .. M PROVE Cardinality(S) \in 0 .. N - 1
    OBVIOUS
  <2>1. IsFiniteSet(1 .. M) /\ Cardinality(1 .. M) = M
    <3>1. 1 \in Int /\ M \in Int
      BY <1>1
    <3>2. IsFiniteSet(1 .. M) /\ Cardinality(1 .. M) = IF 1 > M THEN 0 ELSE M - 1 + 1
      BY <3>1, FS_Interval, Zenon
    <3> QED BY <1>1, <3>2
  <2>2. IsFiniteSet(S) /\ Cardinality(S) \in Nat /\ Cardinality(S) <= M
    BY <2>1, FS_Subset, FS_CardinalityType
  <2> QED BY <1>1, <2>2
<1>3. n_combines \in 0 .. N - 1
  <2>1. Given \subseteq 1 .. M /\ {ci \in 1 .. M : Out(ci) \in DOMAIN ready} \subseteq 1 .. M
    BY DEF Given
  <2>2. pooled => n_combines = Cardinality(Given)
    BY DEF HInv, Handed
  <2>3. ~pooled => n_combines = Cardinality({ci \in 1 .. M : Out(ci) \in DOMAIN ready})
    BY DEF HInv, Plain
  <2> QED BY <1>2, <2>1, <2>2, <2>3
<1>4. Types /\ \A id \in DOMAIN jobs : jobs[id].state \in JobStates
  BY DEF HInv, Truths
<1> QED BY <1>1, <1>3, <1>4 DEF TypeOK, Types, JobStates

THEOREM HubTypes == Spec => []TypeOK
BY HubInvariant, HubTyped, PTL

(* Not a barrier: the driver never waits while it holds two operands whose     *)
(* combine it has not made.                                                 *)
THEOREM HubDrainsItsStack == Spec => []NoReadyPairWaits
<1>1. HInv => NoReadyPairWaits
  <2> SUFFICES ASSUME HInv, work = <<>>, NEW ci \in 1 .. M, Left(ci) \in DOMAIN ready, Right(ci) \in DOMAIN ready
               PROVE  Out(ci) \in DOMAIN ready
    <3>1. DOMAIN Combines = 1 .. M
      BY CombineFacts
    <3> QED BY <3>1 DEF NoReadyPairWaits
  <2>1. pooled \in BOOLEAN
    BY DEF HInv, Types
  <2>2. CASE ~pooled
    <3>1. ToSet(work) = {}
      BY EmptySeq DEF ToSet
    <3>2. Plain
      BY <2>2 DEF HInv
    <3>3. ci \in Given
      BY <3>2 DEF Plain, Given
    <3> QED BY <3>1, <3>2, <3>3 DEF Plain
  <2>3. CASE pooled
    <3>1. Handed
      BY <2>3 DEF HInv
    <3>2. ci \notin Given
      BY <3>1 DEF Handed, Present
    <3>3. remaining[ci] = {}
      BY <3>1, <3>2 DEF Handed
    <3> QED BY <3>2, <3>3 DEF Given
  <2> QED BY <2>1, <2>2, <2>3
<1> QED BY <1>1, HubInvariant, PTL

(* The pooled driver never keeps an operand it has handed to a job: what is    *)
(* in its hands and what its jobs compute covers no leaf twice.             *)
THEOREM PooledHandsOver == Spec => []PooledHoldsNoOperand
<1>1. HInv => PooledHoldsNoOperand
  BY DEF HInv, Handed, Present, PooledHoldsNoOperand
<1> QED BY <1>1, HubInvariant, PTL

-----------------------------------------------------------------------------
(* The refinement of Reduction.                                            *)

(* What is under the values that are still to be combined.                   *)
Live == Computed \cup InUse
CoveredBy(ids) == {block \in Blocks(N, Depth) : \E id \in ids : block \subseteq Cover[id]}

LEMMA FormedIsCovered == Formed = CoveredBy(Live) /\ Formed' = CoveredBy(Live')
BY DEF Formed, CoveredBy, Live

(* What covers as much forms as much.                                        *)
LEMMA CoversMore ==
  ASSUME NEW S, NEW T, \A s \in S : \E t \in T : Cover[s] \subseteq Cover[t]
  PROVE  CoveredBy(S) \subseteq CoveredBy(T)
<1> SUFFICES ASSUME NEW block \in Blocks(N, Depth), NEW s \in S, block \subseteq Cover[s]
             PROVE  \E t \in T : block \subseteq Cover[t]
  BY DEF CoveredBy
<1>1. PICK t \in T : Cover[s] \subseteq Cover[t]
  OBVIOUS
<1> QED BY <1>1

(* A leaf forms its own block,                                              *)
LEMMA LeafIsFormed ==
  ASSUME NEW leaf \in Leaves, NEW S
  PROVE  {leaf} \in Blocks(N, Depth) /\ CoveredBy(S \cup {leaf}) = CoveredBy(S) \cup {{leaf}}
<1>1. Cover[leaf] = {leaf} /\ {leaf} \in Blocks(N, Depth)
  <2>1. leaf \in Ids
    BY CombineFacts
  <2> QED BY <2>1, CoverFacts
<1>2. ASSUME NEW block \in Blocks(N, Depth) PROVE block # {}
  <2>1. PICK nd \in Nodes : block = LeavesUnder(N, nd)
    BY DEF Blocks, Nodes
  <2>2. nd = <<Lvl(nd), Pos(nd)>> /\ Lvl(nd) \in Nat /\ Pos(nd) \in Nat /\ Pos(nd) < LevelSize(N, Lvl(nd))
    BY NodeParts, SizeFacts
  <2>3. Pos(nd) * 2^Lvl(nd) \in LeavesUnder(N, <<Lvl(nd), Pos(nd)>>)
    BY <2>2, SizeFacts, FirstLeaf
  <2> QED BY <2>1, <2>2, <2>3
<1>3. \A block \in Blocks(N, Depth) : block \subseteq Cover[leaf] <=> block = {leaf}
  BY <1>1, <1>2
<1> QED BY <1>1, <1>3 DEF CoveredBy

(* and a combine that of its pair and no other.                              *)
LEMMA PairIsFormed ==
  ASSUME NEW ci \in 1 .. M, NEW S, Left(ci) \in S, Right(ci) \in S
  PROVE  LET block == Cover[Out(ci)]
         IN  /\ block \in Blocks(N, Depth)
             /\ CoveredBy(S \cup {Out(ci)}) = CoveredBy(S) \cup {block}
             /\ \E left, right \in CoveredBy(S) : left \cap right = {} /\ left \cup right = block
<1> DEFINE block == Cover[Out(ci)]
           one == Cover[Left(ci)]
           other == Cover[Right(ci)]
<1>1. Out(ci) \in Ids /\ Left(ci) \in Ids /\ Right(ci) \in Ids
  BY CombineFacts
<1>2. /\ block \in Blocks(N, Depth) /\ one \in Blocks(N, Depth) /\ other \in Blocks(N, Depth)
      /\ block = one \cup other /\ one \cap other = {}
  BY <1>1, CoverFacts
<1>3. PICK nd \in PairsBelow(N, N) :
        /\ Labels[Left(ci)] = <<LeavesUnder(N, nd), TreeValue[nd]>>
        /\ Labels[Right(ci)] = <<LeavesUnder(N, Sibling(nd)), TreeValue[Sibling(nd)]>>
        /\ Labels[Out(ci)] = <<LeavesUnder(N, Parent(nd)), TreeValue[Parent(nd)]>>
  BY LabelFacts
<1>4. one = LeavesUnder(N, nd) /\ other = LeavesUnder(N, Sibling(nd)) /\ block = LeavesUnder(N, Parent(nd))
  <2>1. \A id \in Ids : Cover[id] = Labels[id][1]
    BY CoverFacts
  <2> QED BY <1>1, <1>3, <2>1
<1> HIDE DEF block, one, other
<1>5. ASSUME NEW b \in Blocks(N, Depth), b \subseteq block
      PROVE  b \subseteq one \/ b \subseteq other \/ b = block
  <2>1. PICK x \in Nodes : b = LeavesUnder(N, x)
    BY DEF Blocks, Nodes
  <2>2. x = <<Lvl(x), Pos(x)>> /\ Lvl(x) \in Nat /\ Pos(x) \in Nat /\ Pos(x) < LevelSize(N, Lvl(x))
    BY NodeParts, SizeFacts
  <2>3. Pos(x) * 2^Lvl(x) \in b
    BY <2>1, <2>2, SizeFacts, FirstLeaf
  <2>4. /\ nd = <<Lvl(nd), Pos(nd)>> /\ Lvl(nd) \in Nat /\ IsEven(nd)
    BY SizeFacts, PairBelowIs
  <2>5. Sibling(nd) = <<Lvl(nd), Pos(nd) + 1>> /\ Parent(nd) = <<Lvl(nd) + 1, Pos(nd) \div 2>>
    BY <2>4 DEF Sibling, Parent
  <2>6. LeavesUnder(N, Parent(nd)) = LeavesUnder(N, nd) \cup LeavesUnder(N, Sibling(nd))
    BY <1>2, <1>4
  <2>7. b \subseteq LeavesUnder(N, Parent(nd)) /\ b # {}
    BY <1>4, <1>5, <2>3
  <2>8. BlockUnder(N, x, nd, Sibling(nd), Parent(nd))
    <3>1. Sibling(nd) = <<Lvl(nd), Pos(Sibling(nd))>> /\ Parent(nd) = <<Lvl(nd) + 1, Pos(Parent(nd))>>
      BY <2>5 DEF Pos
    <3> QED BY <2>1, <2>2, <2>4, <2>6, <2>7, <3>1, SizeFacts DEF BlockUnder
  <2>9. UnderOneOf(N, x, nd, Sibling(nd), Parent(nd))
    BY <2>8, BlockUnderParent, Zenon
  <2> QED BY <1>4, <2>1, <2>9 DEF UnderOneOf
<1>6. one \in CoveredBy(S) /\ other \in CoveredBy(S)
  BY <1>2 DEF CoveredBy, one, other
<1>7. ASSUME NEW b \in Blocks(N, Depth)
      PROVE  (\E id \in S \cup {Out(ci)} : b \subseteq Cover[id])
               <=> (\E id \in S : b \subseteq Cover[id]) \/ b = block
  BY <1>2, <1>5 DEF block, one, other
<1>8. CoveredBy(S \cup {Out(ci)}) = CoveredBy(S) \cup {block}
  BY <1>2, <1>7 DEF CoveredBy
<1> QED BY <1>2, <1>6, <1>8 DEF block

(* The steps of Reduction that a step of the hub is.                         *)
LEMMA NothingIsFormed ==
  ASSUME Formed' = Formed, UNCHANGED <<answer, raising>>, (driver = "failed")' = (driver = "failed")
  PROVE  [Abstract!Next]_(Abstract!vars)
<1>1. UNCHANGED Abstract!vars
  BY DEF Abstract!vars
<1> QED BY <1>1

LEMMA BlockIsFormed ==
  ASSUME NEW block \in Blocks(N, Depth), Formed' = Formed \cup {block},
         \/ \E leaf \in Leaves : block = {leaf}
         \/ \E left, right \in Formed : left \cap right = {} /\ left \cup right = block,
         UNCHANGED <<answer, raising, driver>>
  PROVE  [Abstract!Next]_(Abstract!vars)
<1>1. CASE block \in Formed
  BY <1>1, NothingIsFormed
<1>2. CASE block \notin Formed
  <2>1. block \in Formed' \ Formed
    BY <1>2
  <2>2. Abstract!Form(block)
    BY DEF Abstract!Form
  <2>3. Abstract!Next
    BY <2>1, <2>2, Zenon DEF Abstract!Next
  <2> QED BY <2>3
<1> QED BY <1>1, <1>2

LEMMA HubInitRefines == Init => Abstract!Init
<1> SUFFICES ASSUME Init PROVE Abstract!Init
  OBVIOUS
<1>1. DOMAIN jobs = Leaves /\ DOMAIN ready = {} /\ \A id \in DOMAIN jobs : jobs[id].state = "running"
  BY DEF Init, Running
<1>2. Computed = {}
  BY <1>1 DEF Computed
<1>3. InUse = {}
  <2>1. \A ci \in 1 .. M : Out(ci) \notin Leaves
    BY CombineFacts
  <2>2. DOMAIN Combines = 1 .. M
    BY CombineFacts
  <2> QED BY <1>1, <2>1, <2>2 DEF InUse
<1>4. Formed = {}
  BY <1>2, <1>3 DEF Formed
<1> QED BY <1>4 DEF Init, Abstract!Init

(* A job that completes has processed its leaf, or combined the operands it     *)
(* was submitted with; a result that is taken, or an operand that is handed    *)
(* over, forms nothing.                                                     *)
LEMMA JobEndsForms ==
  ASSUME HInv, NEW id \in Ids, JobEnds(id)
  PROVE  [Abstract!Next]_(Abstract!vars)
<1>1. /\ id \in DOMAIN jobs /\ jobs[id].state = "running"
      /\ jobs' = [jobs EXCEPT ![id].state = IF id \in raising THEN "raised" ELSE "done"]
      /\ UNCHANGED <<raising, ready, driver, answer>>
  BY DEF JobEnds, inputs
<1>2. DOMAIN jobs' = DOMAIN jobs /\ \A i \in DOMAIN jobs : i # id => jobs'[i] = jobs[i]
  BY <1>1
<1>3. jobs'[id].state = IF id \in raising THEN "raised" ELSE "done"
  <2>1. jobs[id] = [state |-> jobs[id].state, val |-> ValueOf(id)]
    BY <1>1 DEF HInv, Truths
  <2>2. jobs'[id] = [jobs[id] EXCEPT !.state = IF id \in raising THEN "raised" ELSE "done"]
    BY <1>1
  <2> QED BY <2>1, <2>2
<1>4. InUse' = InUse
  BY <1>2 DEF InUse
<1>5. CASE id \in raising
  <2>1. \A i : i \in Computed' <=> i \in Computed
    BY <1>1, <1>2, <1>3, <1>5 DEF Computed
  <2>2. Live' = Live
    BY <1>4, <2>1 DEF Live
  <2>3. Formed' = Formed
    BY <2>2, FormedIsCovered
  <2> QED BY <1>1, <2>3, NothingIsFormed
<1>6. CASE id \notin raising
  <2>1. \A i : i \in Computed' <=> i \in Computed \/ i = id
    BY <1>1, <1>2, <1>3, <1>6 DEF Computed
  <2>2. Live' = Live \cup {id}
    BY <1>4, <2>1 DEF Live
  <2>3. Formed = CoveredBy(Live) /\ Formed' = CoveredBy(Live \cup {id})
    BY <2>2, FormedIsCovered
  <2>4. CASE id \in Leaves
    <3>1. {id} \in Blocks(N, Depth) /\ Formed' = Formed \cup {{id}}
      BY <2>3, <2>4, LeafIsFormed
    <3> QED BY <1>1, <2>4, <3>1, BlockIsFormed
  <2>5. ASSUME NEW ci \in 1 .. M, id = Out(ci) PROVE [Abstract!Next]_(Abstract!vars)
    <3>1. Left(ci) \in Live /\ Right(ci) \in Live
      <4>1. DOMAIN Combines = 1 .. M
        BY CombineFacts
      <4>2. ci \in {c \in DOMAIN Combines : Out(c) \in DOMAIN jobs}
        BY <1>1, <2>5, <4>1
      <4> QED BY <4>2 DEF Live, InUse
    <3>2. PICK block : block = Cover[Out(ci)]
      OBVIOUS
    <3>3. /\ block \in Blocks(N, Depth)
          /\ CoveredBy(Live \cup {Out(ci)}) = CoveredBy(Live) \cup {block}
          /\ \E left, right \in CoveredBy(Live) : left \cap right = {} /\ left \cup right = block
      BY <3>1, <3>2, PairIsFormed
    <3>4. Formed' = Formed \cup {block} /\ \E left, right \in Formed : left \cap right = {} /\ left \cup right = block
      BY <2>3, <2>5, <3>3
    <3> QED BY <1>1, <3>3, <3>4, BlockIsFormed
  <2>6. id \in Leaves \/ \E ci \in 1 .. M : id = Out(ci)
    BY CombineFacts
  <2> QED BY <2>4, <2>5, <2>6
<1> QED BY <1>5, <1>6

LEMMA DeliverForms ==
  ASSUME HInv, NEW leaf \in Ids, Deliver(leaf)
  PROVE  [Abstract!Next]_(Abstract!vars)
<1>1. /\ ~pooled /\ leaf \in DOMAIN jobs /\ jobs[leaf].state = "done"
      /\ jobs' = Without(jobs, {leaf})
      /\ ready' = Put(ready, leaf, jobs[leaf].val)
      /\ UNCHANGED <<raising, driver, answer>>
  BY DEF Deliver, Arrived, inputs
<1>2. DOMAIN jobs' = DOMAIN jobs \ {leaf} /\ \A i \in DOMAIN jobs' : jobs'[i] = jobs[i]
  BY <1>1 DEF Without, Restrict
<1>3. DOMAIN ready' = DOMAIN ready \cup {leaf}
  BY <1>1 DEF Put
<1>4. Computed' = Computed
  BY <1>1, <1>2, <1>3 DEF Computed
<1>5. InUse' = {} /\ InUse = {}
  <2>1. DOMAIN jobs \subseteq Leaves
    BY <1>1 DEF HInv, Plain
  <2>2. \A ci \in DOMAIN Combines : Out(ci) \notin Leaves
    BY CombineFacts
  <2> QED BY <1>2, <2>1, <2>2 DEF InUse
<1>6. Formed' = Formed
  BY <1>4, <1>5, FormedIsCovered DEF Live
<1> QED BY <1>1, <1>6, NothingIsFormed

LEMMA RunCombineForms ==
  ASSUME HInv, RunCombine
  PROVE  [Abstract!Next]_(Abstract!vars)
<1> DEFINE ci == Last(work)
<1>1. /\ driver = "run" /\ work # <<>>
      /\ ready' = Put(ready, Out(ci), Combine(ready[Left(ci)], ready[Right(ci)]))
      /\ UNCHANGED <<pooled, persistent, raising, jobs, driver, answer>>
  BY Zenon DEF RunCombine, NextCombine, inputs
<1>2. ~pooled /\ Types /\ Plain
  BY <1>1 DEF HInv, Handed
<1>3. ci \in ToSet(work) /\ ci \in 1 .. M
  BY <1>1, <1>2, Popping DEF Types
<1>4. Left(ci) \in DOMAIN ready /\ Right(ci) \in DOMAIN ready
  BY <1>2, <1>3 DEF Plain, Given
<1> HIDE DEF ci
<1>5. DOMAIN ready' = DOMAIN ready \cup {Out(ci)}
  BY <1>1 DEF Put
<1>6. Live' = Live \cup {Out(ci)}
  BY <1>1, <1>5 DEF Live, Computed, InUse
<1>7. Left(ci) \in Live /\ Right(ci) \in Live
  BY <1>4 DEF Live, Computed
<1>8. PICK block : block = Cover[Out(ci)]
  OBVIOUS
<1>9. /\ block \in Blocks(N, Depth)
      /\ CoveredBy(Live \cup {Out(ci)}) = CoveredBy(Live) \cup {block}
      /\ \E left, right \in CoveredBy(Live) : left \cap right = {} /\ left \cup right = block
  BY <1>3, <1>7, <1>8, PairIsFormed
<1>10. Formed' = Formed \cup {block} /\ \E left, right \in Formed : left \cap right = {} /\ left \cup right = block
  BY <1>6, <1>9, FormedIsCovered
<1> QED BY <1>1, <1>9, <1>10, BlockIsFormed

LEMMA TakeResultForms ==
  ASSUME HInv, NEW id \in Ids, TakeResult(id)
  PROVE  [Abstract!Next]_(Abstract!vars)
<1> DEFINE F == Fired(id)
<1>1. pooled /\ jobs[id].state = "done"
  BY DEF TakeResult, Arrived
<1>2. Completes(id, F) /\ Hands(id, F)
  BY <1>1, TakeCompletes, TakeHands
<1> HIDE DEF F
<1>3. /\ id \in DOMAIN jobs /\ F \subseteq 1 .. M
      /\ \A c \in F : {Left(c), Right(c)} \subseteq DOMAIN ready \cup {id} /\ c \notin Given
  BY <1>2 DEF Completes
<1>4. /\ UNCHANGED <<raising, driver, answer>>
      /\ DOMAIN jobs' = (DOMAIN jobs \ {id}) \cup Outs(F)
      /\ DOMAIN ready' = (DOMAIN ready \cup {id}) \ Operands(F)
      /\ \A i \in DOMAIN jobs' : i \notin DOMAIN jobs => jobs'[i].state = "running"
      /\ \A i \in DOMAIN jobs' : i \in DOMAIN jobs => jobs'[i] = jobs[i]
  BY <1>2 DEF Hands
<1>5. DOMAIN Combines = 1 .. M
  BY CombineFacts
<1>6. \A i : i \in InUse <=> \E c \in 1 .. M : Out(c) \in DOMAIN jobs /\ i \in {Left(c), Right(c)}
  BY <1>5 DEF InUse
<1>7. \A i : i \in InUse' <=> \E c \in 1 .. M : Out(c) \in DOMAIN jobs' /\ i \in {Left(c), Right(c)}
  BY <1>5 DEF InUse
<1>8. \A i : i \in Operands(F) <=> \E c \in F : i \in {Left(c), Right(c)}
  BY DEF Operands
<1>9. \A i : i \in Outs(F) <=> \E c \in F : i = Out(c)
  BY DEF Outs
<1>10. \A i : i \in Computed <=> (i \in DOMAIN jobs /\ jobs[i].state = "done") \/ i \in DOMAIN ready
  BY DEF Computed
<1>11. \A i : i \in Computed' <=> (i \in DOMAIN jobs' /\ jobs'[i].state = "done") \/ i \in DOMAIN ready'
  BY DEF Computed
<1>12. \A ci, cj \in 1 .. M : Out(ci) = Out(cj) => ci = cj
  <2>1. \A ci \in 1 .. M : Out(ci) = N + ci - 1
    BY CombineFacts
  <2> QED BY <2>1, SizeFacts
<1>13. Outs(F) \cap DOMAIN jobs = {}
  BY <1>1, <1>3, <1>9 DEF HInv, Handed, Present
<1>14. \A s \in Live' : s \in Live
  <2>1. \A s \in Computed' : s \in Computed
    BY <1>1, <1>3, <1>4, <1>10, <1>11
  <2>2. \A s \in InUse' : s \in InUse \/ s \in Computed
    <3> SUFFICES ASSUME NEW s, NEW c \in 1 .. M, Out(c) \in DOMAIN jobs', s \in {Left(c), Right(c)}
                 PROVE  s \in InUse \/ s \in Computed
      BY <1>7
    <3>1. CASE Out(c) \in DOMAIN jobs
      BY <1>6, <3>1
    <3>2. CASE Out(c) \in Outs(F)
      <4>1. c \in F
        BY <1>3, <1>9, <1>12, <3>2
      <4> QED BY <1>1, <1>3, <1>10, <4>1
    <3> QED BY <1>4, <3>1, <3>2
  <2> QED BY <2>1, <2>2 DEF Live
<1>15. ASSUME NEW s \in Computed PROVE s \in Live'
  <2>1. s \in Operands(F) => s \in InUse'
    <3> SUFFICES ASSUME NEW c \in F, s \in {Left(c), Right(c)} PROVE s \in InUse'
      BY <1>8
    <3>1. Out(c) \in DOMAIN jobs' /\ c \in 1 .. M
      BY <1>3, <1>4, <1>9
    <3> QED BY <1>7, <3>1
  <2>2. s \notin Operands(F) => s \in Computed'
    BY <1>4, <1>10, <1>11
  <2> QED BY <2>1, <2>2 DEF Live
<1>16. \A s \in Live : \E t \in Live' : Cover[s] \subseteq Cover[t]
  <2> SUFFICES ASSUME NEW s \in InUse PROVE \E t \in Live' : Cover[s] \subseteq Cover[t]
    BY <1>15 DEF Live
  <2>1. PICK c \in 1 .. M : Out(c) \in DOMAIN jobs /\ s \in {Left(c), Right(c)}
    BY <1>6
  <2>2. CASE Out(c) = id
    <3>1. id \in Live'
      BY <1>1, <1>3, <1>10, <1>15
    <3>2. Cover[s] \subseteq Cover[id]
      BY <2>1, <2>2, CoverFacts
    <3> QED BY <3>1, <3>2
  <2>3. CASE Out(c) # id
    <3>1. s \in InUse'
      BY <1>4, <1>7, <2>1, <2>3
    <3> QED BY <3>1 DEF Live
  <2> QED BY <2>2, <2>3
<1>17. Formed' = Formed
  <2>1. PICK S, T : S = Live /\ T = Live'
    OBVIOUS
  <2>2. CoveredBy(S) \subseteq CoveredBy(T)
    BY <1>16, <2>1, CoversMore
  <2>3. CoveredBy(T) \subseteq CoveredBy(S)
    <3>1. \A t \in T : \E s \in S : Cover[t] \subseteq Cover[s]
      BY <1>14, <2>1
    <3> QED BY <3>1, CoversMore
  <2>4. Formed = CoveredBy(S) /\ Formed' = CoveredBy(T)
    BY <2>1, FormedIsCovered
  <2> QED BY <2>2, <2>3, <2>4
<1> QED BY <1>4, <1>17, NothingIsFormed

(* When no job is left and nothing is stacked, the root is in the driver's      *)
(* hands: the first value that is not there yet would have both operands.    *)
LEMMA RootIsThere ==
  ASSUME HInv, driver = "run", work = <<>>, DOMAIN jobs = {}
  PROVE  RootId \in DOMAIN ready
<1> DEFINE Missing == {id \in Ids : id \notin DOMAIN ready /\ ~(pooled /\ Consumed(id))}
<1>1. Missing = {}
  <2>1. SUFFICES ASSUME Missing # {} PROVE FALSE
    OBVIOUS
  <2>2. PICK id \in Missing : \A other \in Missing : id <= other
    <3>1. Missing \subseteq Nat
      BY CombineFacts
    <3> HIDE DEF Missing
    <3> QED BY <2>1, <3>1, Least
  <2>3. id \in Ids /\ id \notin DOMAIN ready /\ ~(pooled /\ Consumed(id))
    OBVIOUS
  <2>4. pooled \in BOOLEAN /\ Present = DOMAIN ready
    BY DEF HInv, Types, Present
  <2>5. id \notin Leaves
    <3>1. CASE pooled
      BY <2>3, <2>4, <3>1 DEF HInv, Handed
    <3>2. CASE ~pooled
      BY <2>3, <2>4, <3>2 DEF HInv, Plain
    <3> QED BY <2>4, <3>1, <3>2
  <2>6. PICK ci \in 1 .. M : id = Out(ci)
    BY <2>3, <2>5, CombineFacts
  <2>7. \A i \in {Left(ci), Right(ci)} : i \in DOMAIN ready \/ (pooled /\ Consumed(i))
    <3> SUFFICES ASSUME NEW i \in {Left(ci), Right(ci)} PROVE i \in DOMAIN ready \/ (pooled /\ Consumed(i))
      OBVIOUS
    <3>1. i \in Ids /\ i < id /\ Ids \subseteq Nat
      BY <2>6, CombineFacts
    <3>2. i \notin Missing
      <4> HIDE DEF Missing
      <4> QED BY <2>2, <2>3, <3>1
    <3> QED BY <3>1, <3>2
  <2>8. CASE ~pooled
    <3>1. Plain
      BY <2>8 DEF HInv
    <3>2. ci \in Given
      BY <2>7, <2>8, <3>1 DEF Plain, Given
    <3>3. ToSet(work) = {}
      BY EmptySeq DEF ToSet
    <3> QED BY <2>3, <2>6, <3>1, <3>2, <3>3 DEF Plain
  <2>9. CASE pooled
    <3>1. Handed
      BY <2>9 DEF HInv
    <3>2. ci \notin Given
      BY <2>3, <2>4, <2>6, <2>9, <3>1 DEF Handed
    <3>3. remaining[ci] # {} /\ remaining[ci] = {Left(ci), Right(ci)} \ DOMAIN ready
      BY <3>1, <3>2 DEF Handed, Given
    <3>4. PICK i \in {Left(ci), Right(ci)} : Consumed(i)
      BY <2>7, <3>3
    <3>5. PICK cj \in Given : i \in {Left(cj), Right(cj)}
      BY <3>4 DEF Consumed
    <3>6. \A a, b \in 1 .. M : {Left(a), Right(a)} \cap {Left(b), Right(b)} # {} => a = b
      BY CombineFacts
    <3>7. cj \in 1 .. M
      BY DEF Given
    <3>8. cj = ci
      BY <3>4, <3>5, <3>6, <3>7
    <3> QED BY <3>2, <3>8
  <2> QED BY <2>4, <2>8, <2>9
<1>2. RootId \in Ids /\ \A ci \in 1 .. M : Left(ci) # RootId /\ Right(ci) # RootId
  BY CombineFacts
<1>3. ~Consumed(RootId)
  BY <1>2 DEF Consumed, Given
<1> QED BY <1>1, <1>2, <1>3

LEMMA DriverEnds ==
  ASSUME HInv, CombineRaises \/ (\E id \in Ids : ResultRaises(id)) \/ Fails \/ Returns \/ UNCHANGED vars
  PROVE  [Abstract!Next]_(Abstract!vars)
<1>1. UNCHANGED <<raising, jobs, ready>>
  BY DEF CombineRaises, ResultRaises, Fails, Returns, inputs, vars
<1>2. Formed' = Formed
  BY <1>1 DEF Formed, Computed, InUse
<1>3. CASE CombineRaises \/ \E id \in Ids : ResultRaises(id)
  <2>1. driver = "run" /\ driver' = "leaving" /\ UNCHANGED answer
    BY <1>3 DEF CombineRaises, ResultRaises
  <2> QED BY <1>1, <1>2, <2>1, NothingIsFormed
<1>4. CASE UNCHANGED vars
  <2>1. UNCHANGED <<driver, answer>>
    BY <1>4 DEF vars
  <2> QED BY <1>1, <1>2, <2>1, NothingIsFormed
<1>5. CASE Fails
  <2>1. driver = "leaving" /\ driver' = "failed" /\ UNCHANGED answer /\ raising # {} /\ answer = None
    BY <1>5 DEF Fails, Reraised, HInv, Outcome
  <2>2. Abstract!Fail
    BY <1>1, <1>2, <2>1 DEF Abstract!Fail, Abstract!Open
  <2> QED BY <2>2, Zenon DEF Abstract!Next
<1>6. CASE Returns
  <2>1. /\ driver = "run" /\ work = <<>> /\ DOMAIN jobs = {}
        /\ driver' = "returned" /\ answer' = ready[RootId] /\ answer = None
    BY <1>6 DEF Returns, HInv, Outcome
  <2>2. RootId \in DOMAIN ready
    BY <2>1, RootIsThere
  <2>3. answer' = TreeValue[Root]
    BY <2>1, <2>2, CoverFacts DEF HInv, Truths
  <2>4. Leaves \in Formed
    <3>1. RootId \in Ids /\ RootId \in Computed
      BY <2>2, CombineFacts DEF Computed
    <3>2. Leaves \in Blocks(N, Depth) /\ Leaves \subseteq Cover[RootId]
      BY <3>1, CoverFacts
    <3> QED BY <3>1, <3>2 DEF Formed
  <2>5. Abstract!Reply
    BY <1>1, <1>2, <2>1, <2>3, <2>4 DEF Abstract!Reply, Abstract!Open, Root
  <2> QED BY <2>5, Zenon DEF Abstract!Next
<1> QED BY <1>3, <1>4, <1>5, <1>6

(* The hub implements Reduction: in whatever order the jobs complete, pooled    *)
(* combines or not, each step of the driver or the pool forms at most one      *)
(* leaf or pair of the fixed tree, after its operands and never again; run     *)
(* returns the value of that tree or, only if something raises, an error      *)
(* (tree_reduce, _run_fixed, _run_fixed_pooled).                            *)
THEOREM HubImplementsReduction == Spec => Abstract!Spec
<1>1. Init => Abstract!Init
  BY HubInitRefines
<1>2. HInv /\ [Next]_vars => [Abstract!Next]_(Abstract!vars)
  <2> SUFFICES ASSUME HInv, [Next]_vars PROVE [Abstract!Next]_(Abstract!vars)
    OBVIOUS
  <2>1. ASSUME NEW id \in Ids, Deliver(id) PROVE [Abstract!Next]_(Abstract!vars)
    BY <2>1, DeliverForms
  <2>2. ASSUME NEW id \in Ids, TakeResult(id) PROVE [Abstract!Next]_(Abstract!vars)
    BY <2>2, TakeResultForms
  <2>3. ASSUME NEW id \in Ids, JobEnds(id) PROVE [Abstract!Next]_(Abstract!vars)
    BY <2>3, JobEndsForms
  <2>4. CASE RunCombine
    BY <2>4, RunCombineForms
  <2>5. CASE CombineRaises \/ (\E id \in Ids : ResultRaises(id)) \/ Fails \/ Returns \/ UNCHANGED vars
    BY <2>5, DriverEnds
  <2> QED BY <2>1, <2>2, <2>3, <2>4, <2>5 DEF Next, Driver, Pool, Over
<1> QED BY <1>1, <1>2, HubInvariant, PTL DEF Spec, Abstract!Spec
=============================================================================
