------------------------- MODULE LazyReduceProofs -------------------------
(***************************************************************************)
(* LazyReducer, for every number of leaves, every combine, and leaves fed  *)
(* in any order:                                                           *)
(*   - every leaf fed is under exactly one node it holds;                  *)
(*   - when all leaves have been fed it holds the root, with its value in  *)
(*     the fixed tree;                                                     *)
(*   - each of its steps is one of Reduction, or none.                      *)
(*                                                                         *)
(* The argument: the nodes held are the roots of a forest over the leaves  *)
(* fed (ForestOK); a step adds a leaf, or puts a node in the place of       *)
(* those it covers (PutInPlace).  Nodes that wait do not have their sibling *)
(* beside them (WaitingOK), so of a full forest only the root is left.      *)
(***************************************************************************)
EXTENDS LazyReduce, ReduceTreeProofs

-----------------------------------------------------------------------------
(* The nodes of the tree.                                                  *)

(* A node is a pair of a level and a position, and has leaves under it.      *)
LEMMA NodeParts ==
  ASSUME NEW nd \in Nodes
  PROVE  /\ nd = <<Lvl(nd), Pos(nd)>>
         /\ Lvl(nd) \in 0 .. Depth /\ Pos(nd) \in 0 .. N-1
         /\ Pos(nd) < LevelSize(N, Lvl(nd))
BY DEF Nodes, NodesOf, Lvl, Pos

LEMMA NodeHasLeaves ==
  ASSUME NEW nd \in Nodes
  PROVE  LeavesUnder(N, nd) # {} /\ LeavesUnder(N, nd) \subseteq Leaves
<1>1. Pos(nd) * 2^Lvl(nd) \in LeavesUnder(N, <<Lvl(nd), Pos(nd)>>)
  BY NodeParts, LazyAssumption, FirstLeaf
<1>2. LeavesUnder(N, nd) # {}
  BY <1>1, NodeParts
<1>3. LeavesUnder(N, nd) \subseteq Leaves
  BY DEF LeavesUnder, Leaves
<1> QED BY <1>2, <1>3

(* The only node of the root level is the root, and all leaves are under it. *)
LEMMA RootNode ==
  ASSUME NEW nd \in Nodes
  PROVE  IsRootLevel(N, Lvl(nd)) <=> nd = Root
<1>1. ASSUME IsRootLevel(N, Lvl(nd)) PROVE nd = Root
  <2>1. Lvl(nd) = Depth
    BY <1>1, NodeParts, LazyAssumption
  <2>2. Pos(nd) = 0
    BY <1>1, NodeParts DEF IsRootLevel
  <2> QED BY <2>1, <2>2, NodeParts DEF Root
<1>2. ASSUME nd = Root PROVE IsRootLevel(N, Lvl(nd))
  BY <1>2, LazyAssumption DEF Root, Lvl
<1> QED BY <1>1, <1>2

LEMMA RootCoversAll == Root \in Nodes /\ LeavesUnder(N, Root) = Leaves
<1>1. LevelSize(N, Depth) = 1
  BY LazyAssumption DEF IsRootLevel
<1>2. Root \in Nodes
  BY <1>1, LazyAssumption DEF Root, Nodes, NodesOf, Lvl, Pos
<1>3. \A leaf \in Leaves : leaf \div 2^Depth \in Nat /\ leaf \div 2^Depth < 1
  BY <1>1, LeafOnLevel, LazyAssumption DEF Leaves
<1>4. \A leaf \in Leaves : leaf \div 2^Depth = 0
  BY <1>3
<1> QED BY <1>2, <1>4 DEF LeavesUnder, Leaves, Root, Lvl, Pos

(* A leaf is a node, and covers itself.                                     *)
LEMMA LeafNode ==
  ASSUME NEW leaf \in Leaves
  PROVE  <<0, leaf>> \in Nodes /\ LeavesUnder(N, <<0, leaf>>) = {leaf}
<1>1. 2^0 = 1
  OBVIOUS
<1>2. LevelSize(N, 0) = N
  BY <1>1, LazyAssumption DEF LevelSize
<1>3. <<0, leaf>> \in Nodes
  BY <1>2, LazyAssumption DEF Nodes, NodesOf, Leaves, Lvl, Pos
<1>4. \A other \in Leaves : other \div 2^0 = other
  BY <1>1 DEF Leaves
<1> QED BY <1>3, <1>4 DEF LeavesUnder, Leaves, Lvl, Pos

(* The parent of a node other than the root is a node; it covers the node, if *)
(* that is carried up, or the node and its sibling.                         *)
LEMMA ParentNode ==
  ASSUME NEW nd \in Nodes, ~IsRootLevel(N, Lvl(nd))
  PROVE  /\ Parent(nd) \in Nodes
         /\ LeavesUnder(N, Parent(nd)) =
              IF Unpaired(N, nd) THEN LeavesUnder(N, nd)
              ELSE LeavesUnder(N, nd) \cup LeavesUnder(N, Sibling(nd))
<1> DEFINE lvl == Lvl(nd)
           pos == Pos(nd)
<1>1. lvl \in 0 .. Depth-1 /\ pos \in Nat /\ nd = <<lvl, pos>>
  BY NodeParts, LazyAssumption
<1>2. pos \div 2 \in Nat /\ pos \div 2 <= pos /\ pos \div 2 < LevelSize(N, lvl + 1)
  BY NodeParts, LazyAssumption, ParentOnNextLevel
<1>3. pos \div 2 \in 0 .. N-1 /\ lvl + 1 \in 0 .. Depth
  BY <1>1, <1>2, NodeParts, LazyAssumption
<1>4. Parent(nd) \in Nodes
  BY <1>1, <1>2, <1>3 DEF Nodes, NodesOf, Parent, Lvl, Pos
<1> HIDE DEF lvl, pos
<1>5. lvl \in Nat
  BY <1>1
<1> QED BY <1>1, <1>4, <1>5, LeavesOfParent, LazyAssumption

LEMMA SiblingOfSibling ==
  ASSUME NEW nd \in Nodes
  PROVE  Sibling(Sibling(nd)) = nd
BY NodeParts DEF Sibling, IsEven, Lvl, Pos

(* The value of a parent: carried, or the even operand's with the odd one's. *)
LEMMA ParentValue ==
  ASSUME NEW nd \in Nodes, ~IsRootLevel(N, Lvl(nd))
  PROVE  /\ Unpaired(N, nd) => TreeValue[Parent(nd)] = TreeValue[nd]
         /\ ~Unpaired(N, nd) /\ Sibling(nd) \in Nodes =>
              LET pair == LeftRight(nd, TreeValue[nd], TreeValue[Sibling(nd)])
              IN  TreeValue[Parent(nd)] = Combine(pair[1], pair[2])
<1>1. nd # Root
  BY RootNode
<1>2. CASE IsEven(nd)
  <2>1. TreeValue[Parent(nd)] =
          IF Unpaired(N, nd) THEN TreeValue[nd] ELSE Combine(TreeValue[nd], TreeValue[Sibling(nd)])
    BY <1>1, <1>2, TreeValueAssumption
  <2> QED BY <1>2, <2>1 DEF LeftRight
<1>3. CASE ~IsEven(nd) /\ Sibling(nd) \in Nodes
  <2> DEFINE even == Sibling(nd)
  <2>1. Pos(nd) \in Nat /\ Pos(nd) % 2 = 1 /\ Pos(nd) < LevelSize(N, Lvl(nd))
    BY <1>3, NodeParts DEF IsEven
  <2>2. even = <<Lvl(nd), Pos(nd) - 1>>
    BY <1>3 DEF Sibling
  <2>3. IsEven(even) /\ Parent(even) = Parent(nd)
    BY <2>1, <2>2 DEF IsEven, Parent, Lvl, Pos
  <2>4. LevelSize(N, Lvl(nd)) \in Nat
    BY LevelHalves, NodeParts, LazyAssumption
  <2>5. ~Unpaired(N, even)
    BY <2>1, <2>2, <2>4 DEF Unpaired, Lvl, Pos
  <2>6. Sibling(even) = nd
    BY SiblingOfSibling
  <2>7. Lvl(even) = Lvl(nd)
    BY <2>2 DEF Lvl
  <2>8. even # Root
    BY <1>1, <1>3, <2>7, RootNode
  <2> HIDE DEF even
  <2>9. even \in Nodes
    BY <1>3 DEF even
  <2>10. TreeValue[Parent(nd)] = Combine(TreeValue[even], TreeValue[nd])
    BY <2>3, <2>5, <2>6, <2>8, <2>9, TreeValueAssumption
  <2> QED BY <1>3, <2>10 DEF even, LeftRight, Unpaired
<1>4. CASE ~IsEven(nd) /\ Sibling(nd) \notin Nodes
  BY <1>4 DEF Unpaired
<1> QED BY <1>2, <1>3, <1>4

-----------------------------------------------------------------------------
(* Forests: nodes of which no two have a leaf in common.                    *)

Disjoint(held) == \A s, t \in held : s # t => LeavesUnder(N, s) \cap LeavesUnder(N, t) = {}
Covers(held, leaves) ==
  \A leaf \in Leaves : leaf \in leaves <=> \E nd \in held : leaf \in LeavesUnder(N, nd)
Forest(held, leaves) == held \subseteq Nodes /\ Disjoint(held) /\ Covers(held, leaves)

(* A new leaf is a tree of its own.                                         *)
LEMMA AddLeaf ==
  ASSUME NEW held, NEW leaves, Forest(held, leaves), NEW leaf \in Leaves \ leaves
  PROVE  /\ <<0, leaf>> \notin held
         /\ Forest(held \cup {<<0, leaf>>}, leaves \cup {leaf})
<1> DEFINE new == <<0, leaf>>
<1>1. new \in Nodes /\ LeavesUnder(N, new) = {leaf}
  BY LeafNode
<1> HIDE DEF new
<1>2. \A nd \in held : leaf \notin LeavesUnder(N, nd)
  BY DEF Forest, Covers
<1>3. new \notin held
  BY <1>1, <1>2
<1>4. Disjoint(held \cup {new})
  BY <1>1, <1>2 DEF Forest, Disjoint
<1>5. Covers(held \cup {new}, leaves \cup {leaf})
  BY <1>1 DEF Forest, Covers
<1> QED BY <1>1, <1>3, <1>4, <1>5 DEF Forest, new

(* A node in the place of those whose leaves it covers.                      *)
LEMMA PutInPlace ==
  ASSUME NEW held, NEW leaves, Forest(held, leaves), NEW old \in SUBSET held, NEW top \in Nodes,
         LeavesUnder(N, top) = UNION {LeavesUnder(N, nd) : nd \in old}
  PROVE  /\ top \notin held \ old
         /\ Forest((held \ old) \cup {top}, leaves)
<1>1. \A nd \in old : LeavesUnder(N, nd) \subseteq LeavesUnder(N, top)
  OBVIOUS
<1>2. \A leaf \in LeavesUnder(N, top) : \E nd \in old : leaf \in LeavesUnder(N, nd)
  OBVIOUS
<1>3. \A nd \in held \ old : LeavesUnder(N, nd) \cap LeavesUnder(N, top) = {}
  BY <1>2 DEF Forest, Disjoint
<1>4. top \notin held \ old
  BY <1>3, NodeHasLeaves
<1>5. Disjoint((held \ old) \cup {top})
  BY <1>3 DEF Forest, Disjoint
<1>6. Covers((held \ old) \cup {top}, leaves)
  <2> SUFFICES ASSUME NEW leaf \in Leaves
               PROVE  leaf \in leaves <=> \E nd \in (held \ old) \cup {top} : leaf \in LeavesUnder(N, nd)
    BY DEF Covers
  <2>1. leaf \in leaves <=> \E nd \in held : leaf \in LeavesUnder(N, nd)
    BY DEF Forest, Covers
  <2>2. leaf \in LeavesUnder(N, top) <=> \E nd \in old : leaf \in LeavesUnder(N, nd)
    OBVIOUS
  <2>3. held = (held \ old) \cup old
    OBVIOUS
  <2>4. (\E nd \in held : leaf \in LeavesUnder(N, nd))
          <=> \/ \E nd \in held \ old : leaf \in LeavesUnder(N, nd)
              \/ \E nd \in old : leaf \in LeavesUnder(N, nd)
    BY <2>3, Zenon
  <2> QED BY <2>1, <2>2, <2>4, Zenon
<1> QED BY <1>4, <1>5, <1>6 DEF Forest

LEMMA NodesFinite ==
  ASSUME NEW S \in SUBSET Nodes
  PROVE  IsFiniteSet(S) /\ Cardinality(S) \in Nat
<1>1. IsFiniteSet(0 .. Depth) /\ IsFiniteSet(0 .. N-1)
  <2>1. 0 \in Int /\ Depth \in Int /\ N-1 \in Int
    BY LazyAssumption
  <2>2. IsFiniteSet(0 .. Depth)
    BY <2>1, FS_Interval
  <2>3. IsFiniteSet(0 .. N-1)
    BY <2>1, FS_Interval
  <2> QED BY <2>2, <2>3
<1>2. IsFiniteSet((0 .. Depth) \X (0 .. N-1))
  BY <1>1, FS_Product
<1>3. S \in SUBSET ((0 .. Depth) \X (0 .. N-1))
  BY DEF Nodes, NodesOf
<1>4. IsFiniteSet(S)
  BY <1>2, <1>3, FS_Subset
<1> QED BY <1>4, FS_CardinalityType

LEMMA LeavesFinite ==
  ASSUME NEW S \in SUBSET Leaves
  PROVE  IsFiniteSet(S) /\ Cardinality(S) \in 0 .. N
<1>1. IsFiniteSet(0 .. N-1) /\ Cardinality(0 .. N-1) = N
  <2>1. 0 \in Int /\ N-1 \in Int /\ N \in Nat \ {0}
    BY LazyAssumption
  <2>2. Cardinality(0 .. N-1) = IF 0 > N-1 THEN 0 ELSE (N-1) - 0 + 1
    BY <2>1, FS_Interval
  <2> QED BY <2>1, <2>2, FS_Interval
<1>2. IsFiniteSet(S) /\ Cardinality(S) <= N
  BY <1>1, FS_Subset DEF Leaves
<1> QED BY <1>2, FS_CardinalityType

-----------------------------------------------------------------------------
(* The inductive invariant.                                                *)

(* The nodes whose value the reducer has: parked, or being bubbled up.       *)
Held == DOMAIN present \cup (IF cur = None THEN {} ELSE {cur.node})
Hand(nd) == [node |-> nd, val |-> TreeValue[nd]]

(* A combine takes two nodes and makes one, so n_combines is known.          *)
ForestOK ==
  state # "raised" =>
    /\ cur # None => cur.node \notin DOMAIN present
    /\ Forest(Held, delivered)
    /\ n_combines + Cardinality(Held) = Cardinality(delivered)

ValuesOK ==
  /\ \A nd \in DOMAIN present : present[nd] = TreeValue[nd]
  /\ cur # None => cur.node \in Nodes /\ cur = Hand(cur.node)

WaitingOK ==
  \A nd \in DOMAIN present :
    IsRootLevel(N, Lvl(nd)) \/ (~Unpaired(N, nd) /\ Sibling(nd) \notin DOMAIN present)

EndOK ==
  /\ state # "feeding" => cur = None
  /\ answer = IF state = "returned" THEN TreeValue[Root] ELSE None
  /\ state = "raised" => raising # {}

IInv == TypeOK /\ ForestOK /\ ValuesOK /\ WaitingOK /\ EndOK

LEMMA HandIsNotNone ==
  ASSUME NEW nd \in Nodes
  PROVE  Hand(nd) # None /\ Hand(nd).node = nd /\ Hand(nd).val = TreeValue[nd]
BY LazyAssumption DEF Hand

-----------------------------------------------------------------------------
(* The steps, one by one.                                                   *)

LEMMA InitEstablishes ==
  ASSUME Init
  PROVE  IInv
<1>1. DOMAIN present = {} /\ Held = {} /\ Cardinality(Held) = 0 /\ Cardinality(delivered) = 0
  BY FS_EmptySet DEF Init, Held
<1>2. TypeOK
  BY <1>1, LazyAssumption DEF Init, TypeOK
<1>3. ForestOK
  BY <1>1 DEF Init, ForestOK, Forest, Disjoint, Covers
<1>4. ValuesOK /\ WaitingOK /\ EndOK
  BY <1>1 DEF Init, ValuesOK, WaitingOK, EndOK
<1> QED BY <1>2, <1>3, <1>4 DEF IInv

LEMMA FeedKeeps ==
  ASSUME IInv, NEW leaf \in Leaves, Feed(leaf)
  PROVE  IInv' /\ Held' = Held \cup {<<0, leaf>>}
<1> DEFINE new == <<0, leaf>>
<1>1. /\ state = "feeding" /\ cur = None /\ leaf \notin delivered
      /\ delivered' = delivered \cup {leaf}
      /\ cur' = [node |-> new, val |-> LeafValue(leaf)]
      /\ UNCHANGED <<raising, present, n_combines, max_frontier, state, answer>>
  BY DEF Feed
<1>2. new \in Nodes /\ LeafValue(leaf) = TreeValue[new]
  BY LeafNode, TreeValueAssumption
<1> HIDE DEF new
<1>3. cur' = Hand(new) /\ cur' # None /\ cur'.node = new
  BY <1>1, <1>2, HandIsNotNone DEF Hand
<1>4. Held = DOMAIN present /\ Held' = Held \cup {new}
  BY <1>1, <1>3 DEF Held
<1>5. Forest(Held, delivered) /\ delivered \subseteq Leaves /\ Held \subseteq Nodes
      /\ n_combines + Cardinality(Held) = Cardinality(delivered) /\ n_combines \in Nat
  BY <1>1 DEF IInv, TypeOK, ForestOK, Forest
<1>6. new \notin Held /\ Forest(Held', delivered')
  BY <1>1, <1>4, <1>5, AddLeaf DEF new
<1>7. n_combines' + Cardinality(Held') = Cardinality(delivered')
  <2>1. Cardinality(Held') = Cardinality(Held) + 1 /\ Cardinality(Held) \in Nat
    BY <1>4, <1>5, <1>6, NodesFinite, FS_AddElement
  <2>2. Cardinality(delivered') = Cardinality(delivered) + 1 /\ Cardinality(delivered) \in Nat
    BY <1>1, <1>5, LeavesFinite, FS_AddElement
  <2> QED BY <1>1, <1>5, <2>1, <2>2
<1>8. TypeOK'
  BY <1>1, <1>2, <1>3 DEF IInv, TypeOK
<1>9. ForestOK'
  BY <1>1, <1>3, <1>4, <1>6, <1>7 DEF ForestOK
<1>10. ValuesOK' /\ WaitingOK' /\ EndOK'
  BY <1>1, <1>2, <1>3 DEF IInv, ValuesOK, WaitingOK, EndOK
<1> QED BY <1>4, <1>8, <1>9, <1>10 DEF IInv, new

LEMMA StayHereKeeps ==
  ASSUME IInv, StayHere
  PROVE  IInv' /\ Held' = Held
<1> DEFINE nd == cur.node
           width == Cardinality(DOMAIN present')
<1>1. /\ state = "feeding" /\ cur # None
      /\ IsRootLevel(N, Lvl(nd)) \/ (~Unpaired(N, nd) /\ Sibling(nd) \notin DOMAIN present)
      /\ present' = Park(present, nd, cur.val) /\ cur' = None
      /\ max_frontier' = IF width > max_frontier THEN width ELSE max_frontier
      /\ UNCHANGED <<raising, delivered, n_combines, state, answer>>
  BY DEF StayHere, Bubbling, AtRoot, Carries, SiblingHere
<1>2. nd \in Nodes /\ nd \notin DOMAIN present /\ cur.val = TreeValue[nd]
  <2>1. nd \in Nodes /\ cur = Hand(nd) /\ nd \notin DOMAIN present
    BY <1>1 DEF IInv, ValuesOK, ForestOK
  <2> HIDE DEF nd
  <2> QED BY <2>1, HandIsNotNone
<1>3. Held = DOMAIN present \cup {nd}
  BY <1>1 DEF Held
<1> HIDE DEF nd, width
<1>4. /\ DOMAIN present' = DOMAIN present \cup {nd}
      /\ \A x \in DOMAIN present' : present'[x] = IF x = nd THEN TreeValue[nd] ELSE present[x]
  BY <1>1, <1>2 DEF Park
<1>5. Held' = Held
  BY <1>1, <1>3, <1>4 DEF Held
<1>6. Forest(Held, delivered) /\ delivered \subseteq Leaves /\ Held \subseteq Nodes
      /\ n_combines + Cardinality(Held) = Cardinality(delivered) /\ n_combines \in Nat
  BY <1>1 DEF IInv, TypeOK, ForestOK, Forest
<1>7. max_frontier' \in 0 .. N
  <2>1. DOMAIN present' = Held
    BY <1>3, <1>4
  <2>2. width \in Nat /\ width <= N
    <3>1. width = Cardinality(Held)
      BY <2>1 DEF width
    <3>2. Cardinality(Held) \in Nat /\ Cardinality(delivered) \in 0 .. N
      BY <1>6, NodesFinite, LeavesFinite
    <3> QED BY <1>6, <3>1, <3>2, LazyAssumption
  <2>3. max_frontier \in 0 .. N
    BY DEF IInv, TypeOK
  <2> QED BY <1>1, <2>2, <2>3
<1>8. TypeOK'
  BY <1>1, <1>2, <1>4, <1>7 DEF IInv, TypeOK
<1>9. ForestOK'
  BY <1>1, <1>5, <1>6 DEF ForestOK
<1>10. ValuesOK'
  BY <1>1, <1>4 DEF IInv, ValuesOK
<1>11. WaitingOK'
  <2> SUFFICES ASSUME NEW x \in DOMAIN present', ~IsRootLevel(N, Lvl(x))
               PROVE  ~Unpaired(N, x) /\ Sibling(x) \notin DOMAIN present'
    BY DEF WaitingOK
  <2>1. DOMAIN present \subseteq Nodes
    BY DEF IInv, TypeOK
  <2>2. \A y \in Nodes : Sibling(Sibling(y)) = y /\ Sibling(y) # y
    <3> TAKE y \in Nodes
    <3>1. Sibling(y) # y
      BY NodeParts DEF Sibling, Lvl, Pos
    <3> QED BY <3>1, SiblingOfSibling
  <2>3. CASE x = nd
    BY <1>1, <1>2, <1>4, <2>2, <2>3
  <2>4. CASE x # nd
    <3>1. x \in DOMAIN present /\ ~Unpaired(N, x) /\ Sibling(x) \notin DOMAIN present
      BY <1>4, <2>4 DEF IInv, WaitingOK
    <3>2. Sibling(x) # nd
      <4>1. SUFFICES ASSUME Sibling(x) = nd PROVE FALSE
        OBVIOUS
      <4>2. Sibling(nd) = x /\ Lvl(nd) = Lvl(x)
        BY <2>1, <2>2, <3>1, <4>1 DEF Sibling, Lvl
      <4> QED BY <1>1, <3>1, <4>2
    <3> QED BY <1>4, <3>1, <3>2
  <2> QED BY <2>3, <2>4
<1>12. EndOK'
  BY <1>1 DEF IInv, EndOK
<1> QED BY <1>5, <1>8, <1>9, <1>10, <1>11, <1>12 DEF IInv

LEMMA CarryUpKeeps ==
  ASSUME IInv, CarryUp
  PROVE  /\ IInv'
         /\ Held' = (Held \ {cur.node}) \cup {Parent(cur.node)}
         /\ LeavesUnder(N, Parent(cur.node)) = LeavesUnder(N, cur.node)
<1> DEFINE nd == cur.node
           top == Parent(nd)
<1>1. /\ state = "feeding" /\ cur # None
      /\ ~IsRootLevel(N, Lvl(nd)) /\ Unpaired(N, nd)
      /\ cur' = [cur EXCEPT !.node = Parent(@)]
      /\ UNCHANGED <<raising, delivered, present, n_combines, max_frontier, state, answer>>
  BY DEF CarryUp, Bubbling, AtRoot, Carries
<1>2. nd \in Nodes /\ nd \notin DOMAIN present /\ cur = Hand(nd)
  BY <1>1 DEF IInv, ValuesOK, ForestOK
<1>3. Held = DOMAIN present \cup {nd}
  BY <1>1 DEF Held
<1> HIDE DEF nd
<1>4. top \in Nodes /\ LeavesUnder(N, top) = LeavesUnder(N, nd) /\ TreeValue[top] = TreeValue[nd]
  BY <1>1, <1>2, ParentNode, ParentValue
<1>5. cur' = Hand(top)
  BY <1>1, <1>2, <1>4 DEF Hand
<1> HIDE DEF top
<1>6. cur' # None /\ cur'.node = top
  BY <1>4, <1>5, HandIsNotNone
<1>7. Held' = (Held \ {nd}) \cup {top}
  BY <1>1, <1>2, <1>3, <1>6 DEF Held
<1>8. Forest(Held, delivered) /\ Held \subseteq Nodes /\ {nd} \in SUBSET Held /\ Held' \subseteq Nodes
  BY <1>1, <1>3, <1>4, <1>7 DEF IInv, ForestOK, Forest
<1>9. top \notin Held \ {nd} /\ Forest(Held', delivered)
  <2>1. LeavesUnder(N, top) = UNION {LeavesUnder(N, x) : x \in {nd}}
    BY <1>4
  <2> QED BY <1>4, <1>7, <1>8, <2>1, PutInPlace
<1>10. Cardinality(Held') = Cardinality(Held)
  <2>1. IsFiniteSet(Held) /\ Cardinality(Held) \in Nat
    BY <1>8, NodesFinite
  <2>2. IsFiniteSet(Held \ {nd}) /\ Cardinality(Held \ {nd}) = Cardinality(Held) - 1
    BY <1>8, <2>1, FS_RemoveElement
  <2>3. Cardinality(Held') = Cardinality(Held \ {nd}) + 1
    BY <1>7, <1>9, <2>2, FS_AddElement
  <2> QED BY <2>1, <2>2, <2>3
<1>11. TypeOK'
  BY <1>1, <1>4, <1>6 DEF IInv, TypeOK
<1>12. ForestOK'
  <2>1. top \notin DOMAIN present'
    BY <1>1, <1>2, <1>3, <1>9
  <2>2. n_combines' + Cardinality(Held') = Cardinality(delivered')
    BY <1>1, <1>10 DEF IInv, ForestOK
  <2> QED BY <1>1, <1>6, <1>9, <2>1, <2>2 DEF ForestOK
<1>13. ValuesOK' /\ WaitingOK' /\ EndOK'
  BY <1>1, <1>4, <1>5, <1>6 DEF IInv, ValuesOK, WaitingOK, EndOK
<1> QED BY <1>4, <1>7, <1>11, <1>12, <1>13 DEF IInv, nd, top

LEMMA CombineUpKeeps ==
  ASSUME IInv, CombineUp
  PROVE  /\ IInv'
         /\ state' = "feeding" =>
              /\ Held' = (Held \ {cur.node, Sibling(cur.node)}) \cup {Parent(cur.node)}
              /\ cur.node \in Held /\ Sibling(cur.node) \in Held /\ Parent(cur.node) \in Nodes
              /\ LeavesUnder(N, Parent(cur.node)) =
                   LeavesUnder(N, cur.node) \cup LeavesUnder(N, Sibling(cur.node))
              /\ LeavesUnder(N, cur.node) \cap LeavesUnder(N, Sibling(cur.node)) = {}
              /\ state = "feeding"
         /\ state' # "feeding" =>
              /\ state' = "raised" /\ state = "feeding" /\ raising # {}
              /\ Held' \subseteq Held
<1> DEFINE nd == cur.node
           sib == Sibling(nd)
           top == Parent(nd)
           pair == LeftRight(nd, cur.val, present[sib])
<1>1. /\ state = "feeding" /\ cur # None
      /\ ~IsRootLevel(N, Lvl(nd)) /\ ~Unpaired(N, nd) /\ sib \in DOMAIN present
      /\ present' = Pop(present, nd)
      /\ UNCHANGED <<raising, delivered, max_frontier, answer>>
  BY DEF CombineUp, Bubbling, AtRoot, Carries, SiblingHere
<1>2. \/ /\ top \notin raising /\ n_combines' = n_combines + 1 /\ state' = state
         /\ cur' = [node |-> top, val |-> Combine(pair[1], pair[2])]
      \/ top \in raising /\ state' = "raised" /\ cur' = None /\ n_combines' = n_combines
  BY DEF CombineUp
<1>3. nd \in Nodes /\ nd \notin DOMAIN present /\ cur = Hand(nd)
  BY <1>1 DEF IInv, ValuesOK, ForestOK
<1>4. Held = DOMAIN present \cup {nd}
  BY <1>1 DEF Held
<1>5. DOMAIN present' = DOMAIN present \ {sib} /\ \A x \in DOMAIN present' : present'[x] = present[x]
  BY <1>1 DEF Pop, Restrict
<1>6. DOMAIN present \subseteq Nodes /\ n_combines \in Nat /\ delivered \subseteq Leaves
  BY LazyAssumption DEF IInv, TypeOK
<1> HIDE DEF nd
<1>7. cur.val = TreeValue[nd] /\ present[sib] = TreeValue[sib] /\ sib \in Nodes
  BY <1>1, <1>3, <1>6, HandIsNotNone DEF IInv, ValuesOK
<1>8. /\ top \in Nodes /\ TreeValue[top] = Combine(pair[1], pair[2])
      /\ LeavesUnder(N, top) = LeavesUnder(N, nd) \cup LeavesUnder(N, sib)
  BY <1>1, <1>3, <1>7, ParentNode, ParentValue
<1> HIDE DEF top, sib, pair
<1>9. nd # sib
  BY <1>1, <1>3
<1>10. /\ Forest(Held, delivered) /\ Held \subseteq Nodes /\ {nd, sib} \in SUBSET Held
       /\ n_combines + Cardinality(Held) = Cardinality(delivered)
  BY <1>1, <1>4 DEF IInv, ForestOK, Forest
<1>11. LeavesUnder(N, nd) \cap LeavesUnder(N, sib) = {}
  BY <1>9, <1>10 DEF Forest, Disjoint
<1>12. WaitingOK'
  BY <1>5 DEF IInv, WaitingOK
<1>13. CASE /\ top \notin raising /\ n_combines' = n_combines + 1 /\ state' = state
            /\ cur' = [node |-> top, val |-> Combine(pair[1], pair[2])]
  <2>1. cur' = Hand(top)
    BY <1>8, <1>13 DEF Hand
  <2>2. cur' # None /\ cur'.node = top
    BY <1>8, <2>1, HandIsNotNone
  <2>3. Held' = (Held \ {nd, sib}) \cup {top}
    BY <1>3, <1>4, <1>5, <2>2 DEF Held
  <2>4. top \notin Held \ {nd, sib} /\ Forest(Held', delivered)
    <3>1. LeavesUnder(N, top) = UNION {LeavesUnder(N, x) : x \in {nd, sib}}
      BY <1>8
    <3> QED BY <1>8, <1>10, <2>3, <3>1, PutInPlace
  <2>5. Cardinality(Held') = Cardinality(Held) - 1 /\ Cardinality(Held) \in Nat /\ Cardinality(Held') >= 1
    <3>1. IsFiniteSet(Held) /\ Cardinality(Held) \in Nat
      BY <1>10, NodesFinite
    <3>2. IsFiniteSet(Held \ {nd}) /\ Cardinality(Held \ {nd}) = Cardinality(Held) - 1
      BY <1>10, <3>1, FS_RemoveElement
    <3>3. IsFiniteSet((Held \ {nd}) \ {sib}) /\ Cardinality((Held \ {nd}) \ {sib}) = Cardinality(Held) - 1 - 1
      BY <1>9, <1>10, <3>2, FS_RemoveElement
    <3>4. (Held \ {nd}) \ {sib} = Held \ {nd, sib}
      OBVIOUS
    <3>5. Cardinality(Held') = Cardinality(Held \ {nd, sib}) + 1
      BY <2>3, <2>4, <3>3, <3>4, FS_AddElement
    <3>6. Cardinality(Held \ {nd, sib}) \in Nat
      BY <3>3, <3>4, FS_CardinalityType
    <3> DEFINE before == Cardinality(Held)
               after == Cardinality(Held')
               rest == Cardinality(Held \ {nd, sib})
    <3>7. before \in Nat /\ rest \in Nat /\ rest = before - 1 - 1 /\ after = rest + 1
      BY <3>1, <3>3, <3>4, <3>5, <3>6
    <3> HIDE DEF before, after, rest
    <3>8. after = before - 1 /\ after >= 1
      BY <3>7
    <3> QED BY <3>7, <3>8 DEF before, after
  <2>6. n_combines' + Cardinality(Held') = Cardinality(delivered')
    BY <1>1, <1>6, <1>10, <1>13, <2>5
  <2>7. n_combines' \in 0 .. N-1
    <3>1. Cardinality(delivered) \in 0 .. N
      BY <1>6, LeavesFinite
    <3> QED BY <1>1, <1>6, <1>10, <1>13, <2>5, <3>1, LazyAssumption
  <2>8. TypeOK'
    BY <1>1, <1>5, <1>8, <1>13, <2>2, <2>7 DEF IInv, TypeOK
  <2>9. ForestOK'
    <3>1. top \notin DOMAIN present'
      BY <1>3, <1>4, <1>5, <2>4
    <3> QED BY <1>1, <2>2, <2>4, <2>6, <3>1 DEF ForestOK
  <2>10. ValuesOK' /\ EndOK'
    BY <1>1, <1>5, <1>8, <1>13, <2>1, <2>2 DEF IInv, ValuesOK, EndOK
  <2> QED BY <1>1, <1>8, <1>10, <1>11, <1>12, <1>13, <2>3, <2>8, <2>9, <2>10 DEF IInv, nd, sib, top
<1>14. CASE top \in raising /\ state' = "raised" /\ cur' = None /\ n_combines' = n_combines
  <2>1. TypeOK'
    BY <1>1, <1>5, <1>14 DEF IInv, TypeOK
  <2>2. ForestOK' /\ ValuesOK' /\ EndOK'
    BY <1>1, <1>5, <1>14 DEF IInv, ForestOK, ValuesOK, EndOK
  <2>3. Held' \subseteq Held
    BY <1>4, <1>5, <1>14 DEF Held
  <2> QED BY <1>1, <1>12, <1>14, <2>1, <2>2, <2>3 DEF IInv
<1> QED BY <1>2, <1>13, <1>14

(* The sibling of a node that is paired is on the node's level.              *)
LEMMA SiblingParts ==
  ASSUME NEW nd \in Nodes, ~Unpaired(N, nd)
  PROVE  /\ Lvl(nd) \in Nat /\ Pos(Sibling(nd)) \in Nat
         /\ Sibling(nd) = <<Lvl(nd), Pos(Sibling(nd))>>
         /\ Pos(Sibling(nd)) < LevelSize(N, Lvl(nd))
         /\ Pos(nd) < Pos(Sibling(nd)) => Pos(Sibling(nd)) = Pos(nd) + 1
<1>1. LevelSize(N, Lvl(nd)) \in Nat /\ Lvl(nd) \in Nat
  BY NodeParts, LevelHalves, LazyAssumption
<1>2. Pos(nd) \in Nat /\ Pos(nd) < LevelSize(N, Lvl(nd))
  BY NodeParts, LazyAssumption
<1>3. CASE IsEven(nd)
  BY <1>1, <1>2, <1>3 DEF Unpaired, Sibling, Pos
<1>4. CASE ~IsEven(nd)
  <2>1. Pos(nd) - 1 \in Nat
    BY <1>2, <1>4 DEF IsEven
  <2>2. Sibling(nd) = <<Lvl(nd), Pos(nd) - 1>>
    BY <1>4 DEF Sibling
  <2>3. Pos(Sibling(nd)) = Pos(nd) - 1
    BY <2>2 DEF Pos
  <2> QED BY <1>1, <1>2, <2>1, <2>2, <2>3
<1> QED BY <1>3, <1>4

(* Between two leaves, a node of the tree whose leaves have all been fed has   *)
(* been formed: of the nodes that wait below it the lowest has a sibling, the *)
(* leaves of the sibling are under another node that waits, and that one      *)
(* would cover both.                                                        *)
LEMMA FedNodeIsFormed ==
  ASSUME IInv, state = "feeding", cur = None, NEW l \in 0 .. Depth, NEW p \in Nat, p < LevelSize(N, l),
         LeavesUnder(N, <<l, p>>) \subseteq delivered
  PROVE  \E u \in DOMAIN present : l <= Lvl(u) /\ LeavesUnder(N, <<l, p>>) \subseteq LeavesUnder(N, u)
<1> DEFINE block == LeavesUnder(N, <<l, p>>)
           parked == DOMAIN present
<1>0. l \in Nat
  BY LazyAssumption
<1>1. Forest(parked, delivered)
  BY DEF IInv, ForestOK, Held
<1>2. \A leaf \in block : \E nd \in parked : leaf \in LeavesUnder(N, nd)
  <2>1. block \subseteq Leaves
    BY DEF LeavesUnder, Leaves
  <2> QED BY <1>1, <2>1 DEF Forest, Covers
<1>3. parked \subseteq Nodes /\ \A s, t \in parked : s # t => LeavesUnder(N, s) \cap LeavesUnder(N, t) = {}
  BY <1>1 DEF Forest, Disjoint
<1>4. \A nd \in parked : nd = <<Lvl(nd), Pos(nd)>> /\ Lvl(nd) \in Nat
  BY <1>3, NodeParts, LazyAssumption
<1>5. block # {}
  BY FirstLeaf, LazyAssumption
<1> HIDE DEF parked
<1>6. SUFFICES ASSUME \A u \in parked : ~(l <= Lvl(u) /\ block \subseteq LeavesUnder(N, u))
               PROVE  FALSE
  BY DEF parked
<1>7. \A u \in parked : \A leaf \in block : leaf \in LeavesUnder(N, u) =>
        Lvl(u) < l /\ LeavesUnder(N, u) \subseteq block
  <2> SUFFICES ASSUME NEW u \in parked, NEW leaf \in block, leaf \in LeavesUnder(N, u)
               PROVE  Lvl(u) < l /\ LeavesUnder(N, u) \subseteq block
    OBVIOUS
  <2>1. leaf \in LeavesUnder(N, <<Lvl(u), Pos(u)>>) /\ Lvl(u) \in Nat
    BY <1>4
  <2>2. ~(l <= Lvl(u))
    <3> SUFFICES ASSUME l <= Lvl(u) PROVE FALSE
      OBVIOUS
    <3>1. LeavesUnder(N, <<l, p>>) \subseteq LeavesUnder(N, <<Lvl(u), Pos(u)>>)
      BY <1>0, <2>1, Nested, LazyAssumption
    <3>2. block \subseteq LeavesUnder(N, u)
      BY <3>1, <1>4
    <3> QED BY <1>6, <3>2
  <2>3. Lvl(u) <= l /\ Lvl(u) < l
    BY <2>1, <2>2
  <2>4. LeavesUnder(N, <<Lvl(u), Pos(u)>>) \subseteq LeavesUnder(N, <<l, p>>)
    BY <1>0, <2>1, <2>3, Nested, LazyAssumption
  <2>5. LeavesUnder(N, u) \subseteq block
    BY <2>4, <1>4
  <2> QED BY <2>3, <2>5
<1> DEFINE inside == {nd \in parked : Lvl(nd) < l /\ LeavesUnder(N, nd) \subseteq block}
           levels == {Lvl(nd) : nd \in inside}
<1>8. levels \subseteq Nat /\ levels # {}
  BY <1>2, <1>4, <1>5, <1>7
<1>9. PICK low \in levels : \A lvl \in levels : low <= lvl
  <2> HIDE DEF levels
  <2> QED BY <1>8, Least
<1>10. PICK nd \in inside : Lvl(nd) = low
  OBVIOUS
<1>11. \A t \in inside : Lvl(nd) <= Lvl(t)
  BY <1>9, <1>10
<1> DEFINE sib == Sibling(nd)
           lvl == Lvl(nd)
           pos == Pos(sib)
           up == Parent(nd)
<1>12. nd \in parked /\ nd \in Nodes /\ lvl \in Nat /\ lvl < l /\ LeavesUnder(N, nd) \subseteq block
  BY <1>3, <1>4
<1>13. ~IsRootLevel(N, lvl)
  <2>1. nd # Root
    BY <1>12, LazyAssumption DEF Root, Lvl
  <2> QED BY <1>12, <2>1, RootNode
<1>14. ~Unpaired(N, nd) /\ sib \notin parked
  BY <1>12, <1>13 DEF IInv, WaitingOK, parked
<1>15. sib = <<lvl, pos>> /\ pos \in Nat /\ pos < LevelSize(N, lvl)
  BY <1>12, <1>14, SiblingParts
<1>16. PICK leaf : leaf \in LeavesUnder(N, <<lvl, pos>>)
  BY <1>12, <1>15, FirstLeaf, LazyAssumption
<1>17. /\ up = <<lvl + 1, Pos(up)>>
       /\ LeavesUnder(N, up) = LeavesUnder(N, nd) \cup LeavesUnder(N, sib)
  <2>1. up = <<lvl + 1, Pos(up)>>
    BY DEF Parent, Lvl, Pos
  <2> QED BY <1>12, <1>13, <1>14, <2>1, ParentNode
<1> HIDE DEF inside, levels, sib, lvl, pos, up
<1>18. LeavesUnder(N, up) \subseteq block
  <2>1. PICK x : x \in LeavesUnder(N, nd)
    BY <1>12, NodeHasLeaves
  <2>2. x \in LeavesUnder(N, <<lvl + 1, Pos(up)>>) /\ x \in LeavesUnder(N, <<l, p>>)
    BY <2>1, <1>12, <1>17
  <2>3. lvl + 1 \in Nat /\ lvl + 1 <= l
    BY <1>12
  <2>4. LeavesUnder(N, <<lvl + 1, Pos(up)>>) \subseteq LeavesUnder(N, <<l, p>>)
    BY <1>0, <2>2, <2>3, Nested, LazyAssumption
  <2> QED BY <2>4, <1>17
<1>19. leaf \in LeavesUnder(N, sib) /\ leaf \in LeavesUnder(N, up) /\ leaf \in block
  BY <1>15, <1>16, <1>17, <1>18
<1>20. PICK t \in parked : leaf \in LeavesUnder(N, t)
  BY <1>2, <1>19
<1>21. t \in inside
  BY <1>7, <1>19, <1>20 DEF inside
<1>22. t = <<Lvl(t), Pos(t)>> /\ Lvl(t) \in Nat /\ lvl <= Lvl(t)
  BY <1>4, <1>11, <1>20, <1>21 DEF lvl
<1>23. Lvl(t) # lvl
  <2> SUFFICES ASSUME Lvl(t) = lvl PROVE FALSE
    OBVIOUS
  <2>1. Pos(t) = pos
    <3>1. leaf \div 2^lvl = pos
      BY <1>16 DEF LeavesUnder, Lvl, Pos
    <3>2. leaf \div 2^Lvl(t) = Pos(t)
      BY <1>20 DEF LeavesUnder
    <3> QED BY <3>1, <3>2
  <2> QED BY <1>14, <1>15, <1>20, <1>22, <2>1
<1>24. LeavesUnder(N, up) \subseteq LeavesUnder(N, t)
  <2>1. leaf \in LeavesUnder(N, <<lvl + 1, Pos(up)>>) /\ leaf \in LeavesUnder(N, <<Lvl(t), Pos(t)>>)
    BY <1>17, <1>19, <1>20, <1>22
  <2>2. lvl + 1 \in Nat /\ lvl + 1 <= Lvl(t)
    BY <1>12, <1>22, <1>23
  <2>3. LeavesUnder(N, <<lvl + 1, Pos(up)>>) \subseteq LeavesUnder(N, <<Lvl(t), Pos(t)>>)
    BY <1>22, <2>1, <2>2, Nested, LazyAssumption
  <2> QED BY <1>17, <1>22, <2>3
<1>25. t # nd
  BY <1>23 DEF lvl
<1>26. LeavesUnder(N, nd) # {}
  BY <1>12, NodeHasLeaves
<1> QED BY <1>3, <1>12, <1>17, <1>20, <1>24, <1>25, <1>26

(* When all leaves have been fed, the root is the one node left.              *)
LEMMA RootIsLeft ==
  ASSUME IInv, state = "feeding", cur = None, delivered = Leaves
  PROVE  Held = {Root} /\ Root \in DOMAIN present
<1>1. Held = DOMAIN present /\ Forest(Held, Leaves)
  BY DEF IInv, ForestOK, Held
<1>2. Held \subseteq Nodes /\ \A s, t \in Held : s # t => LeavesUnder(N, s) \cap LeavesUnder(N, t) = {}
  BY <1>1 DEF Forest, Disjoint
<1>3. PICK top \in Held : Depth <= Lvl(top)
  <2>1. LevelSize(N, Depth) = 1 /\ Depth \in 0 .. Depth
    BY LazyAssumption DEF IsRootLevel
  <2>2. LeavesUnder(N, <<Depth, 0>>) \subseteq delivered
    BY RootCoversAll DEF Root
  <2> QED BY <1>1, <2>1, <2>2, FedNodeIsFormed
<1>4. top = Root
  <2>1. Lvl(top) = Depth
    BY <1>2, <1>3, NodeParts, LazyAssumption
  <2> QED BY <1>2, <2>1, RootNode, LazyAssumption
<1>5. \A nd \in Held : nd = Root
  <2> SUFFICES ASSUME NEW nd \in Held, nd # Root PROVE FALSE
    OBVIOUS
  <2>1. LeavesUnder(N, nd) # {} /\ LeavesUnder(N, nd) \subseteq LeavesUnder(N, Root)
    BY <1>2, NodeHasLeaves, RootCoversAll
  <2> QED BY <1>2, <1>4, <2>1
<1> QED BY <1>1, <1>4, <1>5

(* Of the nodes that wait with no leaf missing at or before their own, each    *)
(* level has one at most: the sibling of the earlier of two would have been   *)
(* formed, and combined with it.                                            *)
Early(nd) == \A x \in LeavesUnder(N, nd) : \A e \in 0 .. x : e \in delivered

LEMMA OneEarlyPerLevel ==
  ASSUME IInv, state = "feeding", cur = None, NEW s \in DOMAIN present, NEW t \in DOMAIN present,
         Lvl(s) = Lvl(t), Pos(s) < Pos(t), Early(t)
  PROVE  FALSE
<1> DEFINE sib == Sibling(s)
           lvl == Lvl(s)
           pos == Pos(sib)
           P == 2^lvl
           first == Pos(t) * P
           up == Parent(s)
<1>1. s \in Nodes /\ t \in Nodes
  BY DEF IInv, TypeOK
<1>2. /\ lvl \in 0 .. Depth /\ lvl \in Nat /\ P \in Nat \ {0}
      /\ s = <<lvl, Pos(s)>> /\ Pos(s) \in Nat
      /\ t = <<lvl, Pos(t)>> /\ Pos(t) \in Nat /\ Pos(t) < LevelSize(N, lvl)
  <2>1. lvl \in Nat
    BY <1>1, NodeParts, LazyAssumption
  <2>2. P \in Nat \ {0}
    BY <2>1, PowNat, PowPos
  <2> QED BY <1>1, <2>1, <2>2, NodeParts, LazyAssumption
<1>3. ~IsRootLevel(N, lvl)
  <2>1. s # t
    BY <1>2
  <2> QED BY <1>1, <2>1, RootNode
<1>4. ~Unpaired(N, s) /\ sib \notin DOMAIN present
  BY <1>1, <1>3 DEF IInv, WaitingOK
<1>5. /\ sib = <<lvl, pos>> /\ pos \in Nat /\ pos < LevelSize(N, lvl)
      /\ Pos(s) < pos => pos = Pos(s) + 1
  BY <1>1, <1>4, SiblingParts
<1> HIDE DEF P
<1>6. pos < Pos(t)
  <2>1. pos # Pos(t)
    BY <1>2, <1>4, <1>5
  <2> HIDE DEF sib, lvl, pos
  <2>2. CASE Pos(s) < pos
    BY <1>2, <1>5, <2>1, <2>2
  <2>3. CASE ~(Pos(s) < pos)
    BY <1>2, <1>5, <2>1, <2>3
  <2> QED BY <2>2, <2>3
<1>7. LeavesUnder(N, <<lvl, pos>>) \subseteq delivered
  <2> SUFFICES ASSUME NEW x \in LeavesUnder(N, <<lvl, pos>>)
               PROVE  x \in delivered
    OBVIOUS
  <2>1. first \in LeavesUnder(N, t)
    <3>1. Pos(t) * 2^lvl \in LeavesUnder(N, <<lvl, Pos(t)>>)
      BY <1>2, FirstLeaf, LazyAssumption
    <3> QED BY <1>2, <3>1 DEF P
  <2>2. x \in Nat /\ x \div P = pos
    BY LazyAssumption DEF LeavesUnder, Lvl, Pos, P
  <2> HIDE DEF sib, lvl, pos
  <2> DEFINE q == Pos(t)
  <2>3. q \in Nat /\ q \in Int
    BY <1>2
  <2> HIDE DEF q
  <2>4. x < q * P
    <3>1. x < P * (x \div P) + P
      BY <1>2, <2>2
    <3>2. (x \div P) + 1 <= q
      BY <1>5, <1>6, <2>2, <2>3 DEF q
    <3>3. P * ((x \div P) + 1) <= P * q
      <4>1. \A a, b \in Nat : a <= b => P * a <= P * b
        BY <1>2
      <4> QED BY <1>5, <2>2, <2>3, <3>2, <4>1
    <3> DEFINE a == x \div P
    <3>4. a \in Nat
      BY <1>5, <2>2
    <3> HIDE DEF a
    <3>5. x < P * a + P /\ P * (a + 1) <= P * q
      BY <3>1, <3>3 DEF a
    <3> QED BY <1>2, <2>2, <2>3, <3>4, <3>5
  <2>5. first \in Int /\ x \in 0 .. first
    BY <1>2, <2>2, <2>3, <2>4 DEF q
  <2> QED BY <2>1, <2>5 DEF Early
<1>8. PICK u \in DOMAIN present :
        lvl <= Lvl(u) /\ LeavesUnder(N, <<lvl, pos>>) \subseteq LeavesUnder(N, u)
  <2> HIDE DEF sib, lvl, pos
  <2> QED BY <1>2, <1>5, <1>7, FedNodeIsFormed
<1>9. PICK leaf : leaf \in LeavesUnder(N, <<lvl, pos>>)
  BY <1>2, <1>5, FirstLeaf, LazyAssumption
<1>10. u \in Nodes /\ u = <<Lvl(u), Pos(u)>> /\ Lvl(u) \in Nat
  <2>1. u \in Nodes
    BY <1>8 DEF IInv, TypeOK
  <2> QED BY <2>1, NodeParts, LazyAssumption
<1>11. Lvl(u) # lvl
  <2> SUFFICES ASSUME Lvl(u) = lvl PROVE FALSE
    OBVIOUS
  <2>1. leaf \div 2^lvl = pos
    BY <1>9 DEF LeavesUnder, Lvl, Pos
  <2>2. leaf \div 2^Lvl(u) = Pos(u)
    BY <1>8, <1>9 DEF LeavesUnder
  <2> QED BY <1>4, <1>5, <1>8, <1>10, <2>1, <2>2
<1>12. /\ up = <<lvl + 1, Pos(up)>>
       /\ LeavesUnder(N, up) = LeavesUnder(N, s) \cup LeavesUnder(N, sib)
  <2>1. up = <<lvl + 1, Pos(up)>>
    BY DEF Parent, Lvl, Pos
  <2> QED BY <1>1, <1>3, <1>4, <2>1, ParentNode
<1> HIDE DEF sib, lvl, pos, up
<1>13. LeavesUnder(N, up) \subseteq LeavesUnder(N, u)
  <2>1. leaf \in LeavesUnder(N, <<lvl + 1, Pos(up)>>) /\ leaf \in LeavesUnder(N, <<Lvl(u), Pos(u)>>)
    BY <1>5, <1>8, <1>9, <1>10, <1>12
  <2>2. lvl + 1 \in Nat /\ lvl + 1 <= Lvl(u)
    BY <1>2, <1>8, <1>10, <1>11
  <2>3. LeavesUnder(N, <<lvl + 1, Pos(up)>>) \subseteq LeavesUnder(N, <<Lvl(u), Pos(u)>>)
    BY <1>10, <2>1, <2>2, Nested, LazyAssumption
  <2> QED BY <1>10, <1>12, <2>3
<1>14. u # s
  BY <1>11 DEF lvl
<1>15. LeavesUnder(N, s) # {}
  BY <1>1, NodeHasLeaves
<1>16. Disjoint(DOMAIN present)
  BY DEF IInv, ForestOK, Forest, Held
<1> QED BY <1>8, <1>12, <1>13, <1>14, <1>15, <1>16 DEF Disjoint

(* How far the leaves fed run ahead of the first leaf missing.                *)
Window == \A leaf \in delivered : \A earlier \in 0 .. leaf - Ahead - 1 : earlier \in delivered

(* So the frontier has at most one node per level whose leaves all lie before *)
(* the first leaf missing, and each other node has a leaf of the Ahead after  *)
(* that one.                                                                *)
LEMMA SmallBetweenLeaves ==
  IInv /\ Window /\ state = "feeding" /\ cur = None => Cardinality(DOMAIN present) <= Depth + Ahead + 1
<1> SUFFICES ASSUME IInv, Window, state = "feeding", cur = None
             PROVE  Cardinality(DOMAIN present) <= Depth + Ahead + 1
  OBVIOUS
<1> DEFINE parked == DOMAIN present
           early == {nd \in parked : Early(nd)}
           late == parked \ early
           missing == Leaves \ delivered
<1>1. parked \subseteq Nodes /\ Disjoint(parked) /\ delivered \subseteq Leaves
      /\ \A nd \in parked : LeavesUnder(N, nd) \subseteq delivered
  <2>1. Forest(parked, delivered) /\ delivered \subseteq Leaves
    BY DEF IInv, TypeOK, ForestOK, Held
  <2>2. \A nd \in parked : LeavesUnder(N, nd) \subseteq delivered
    <3> SUFFICES ASSUME NEW nd \in parked, NEW x \in LeavesUnder(N, nd)
                 PROVE  x \in delivered
      OBVIOUS
    <3>1. x \in Leaves
      BY DEF LeavesUnder, Leaves
    <3> QED BY <2>1, <3>1 DEF Forest, Covers
  <2> QED BY <2>1, <2>2 DEF Forest
<1> HIDE DEF parked
<1>2. IsFiniteSet(early) /\ IsFiniteSet(late) /\ Cardinality(early) \in Nat /\ Cardinality(late) \in Nat
  BY <1>1, NodesFinite
<1>3. Cardinality(early) <= Depth + 1
  <2> DEFINE f == [nd \in early |-> Lvl(nd)]
  <2>1. IsFiniteSet(0 .. Depth) /\ Cardinality(0 .. Depth) = Depth + 1
    <3>1. 0 \in Int /\ Depth \in Int /\ ~(0 > Depth)
      BY LazyAssumption
    <3>2. Cardinality(0 .. Depth) = IF 0 > Depth THEN 0 ELSE Depth - 0 + 1
      BY <3>1, FS_Interval
    <3> QED BY <3>1, <3>2, FS_Interval
  <2>2. \A nd \in early : Lvl(nd) \in 0 .. Depth
    BY <1>1, NodeParts
  <2>3. \A s, t \in early : Lvl(s) = Lvl(t) => s = t
    <3> SUFFICES ASSUME NEW s \in early, NEW t \in early, Lvl(s) = Lvl(t)
                 PROVE  s = t
      OBVIOUS
    <3>1. /\ s = <<Lvl(s), Pos(s)>> /\ Pos(s) \in Nat
          /\ t = <<Lvl(t), Pos(t)>> /\ Pos(t) \in Nat
      BY <1>1, NodeParts, LazyAssumption
    <3>2. ~(Pos(s) < Pos(t)) /\ ~(Pos(t) < Pos(s))
      BY OneEarlyPerLevel DEF parked
    <3>3. Pos(s) = Pos(t)
      BY <3>1, <3>2
    <3> QED BY <3>1, <3>3
  <2>4. f \in Injection(early, 0 .. Depth)
    BY <2>2, <2>3 DEF Injection, IsInjective
  <2>5. Cardinality(early) <= Cardinality(0 .. Depth)
    BY <1>2, <2>1, <2>4, FS_Injection
  <2> QED BY <2>1, <2>5
<1>4. Cardinality(late) <= Ahead
  <2>1. CASE late = {}
    BY <2>1, FS_EmptySet, LazyAssumption
  <2>2. CASE late # {}
    <3>1. missing \subseteq Nat /\ missing # {}
      <4>1. missing \subseteq Nat
        BY LazyAssumption DEF Leaves
      <4>2. PICK nd \in late : TRUE
        BY <2>2
      <4>3. PICK x \in LeavesUnder(N, nd) : \E e \in 0 .. x : e \notin delivered
        BY <4>2 DEF Early
      <4>4. PICK e \in 0 .. x : e \notin delivered
        BY <4>3
      <4>5. x \in 0 .. N-1
        BY <4>3 DEF LeavesUnder
      <4>6. e \in Leaves
        BY <4>4, <4>5, LazyAssumption DEF Leaves
      <4> QED BY <4>1, <4>4, <4>6
    <3>2. PICK k \in missing : \A y \in missing : k <= y
      <4> HIDE DEF missing
      <4> QED BY <3>1, Least
    <3> DEFINE window == k + 1 .. k + Ahead
               f == [nd \in late |-> CHOOSE x \in LeavesUnder(N, nd) : x \in window]
    <3>3. k \in Nat /\ k \in Leaves /\ k \notin delivered
      BY <3>1, <3>2
    <3>4. IsFiniteSet(window) /\ Cardinality(window) = Ahead
      <4>1. k + 1 \in Int /\ k + Ahead \in Int
        BY <3>3, LazyAssumption
      <4>2. Cardinality(window) = IF k + 1 > k + Ahead THEN 0 ELSE (k + Ahead) - (k + 1) + 1
        BY <4>1, FS_Interval
      <4> QED BY <3>3, <4>1, <4>2, FS_Interval, LazyAssumption
    <3>5. \A nd \in late : \E x \in LeavesUnder(N, nd) : x \in window
      <4> SUFFICES ASSUME NEW nd \in late
                   PROVE  \E x \in LeavesUnder(N, nd) : x \in window
        OBVIOUS
      <4>1. PICK x \in LeavesUnder(N, nd) : \E e \in 0 .. x : e \notin delivered
        BY DEF Early
      <4>2. PICK e \in 0 .. x : e \notin delivered
        BY <4>1
      <4>3. x \in delivered /\ x \in 0 .. N-1
        BY <1>1 DEF LeavesUnder
      <4>4. e \in missing /\ e <= x /\ e \in Nat
        BY <4>2, <4>3, LazyAssumption DEF Leaves
      <4>5. k <= e /\ x # k
        BY <3>2, <3>3, <4>3, <4>4
      <4>6. x >= k + 1
        BY <3>3, <4>3, <4>4, <4>5
      <4>7. x <= k + Ahead
        <5> SUFFICES ASSUME ~(x <= k + Ahead) PROVE FALSE
          OBVIOUS
        <5>1. k \in 0 .. x - Ahead - 1
          BY <3>3, <4>3, LazyAssumption
        <5> QED BY <3>3, <4>3, <5>1 DEF Window
      <4> QED BY <3>3, <4>3, <4>6, <4>7, LazyAssumption
    <3> HIDE DEF window
    <3>6. \A nd \in late : f[nd] \in LeavesUnder(N, nd) /\ f[nd] \in window
      BY <3>5
    <3>7. \A s, t \in late : f[s] = f[t] => s = t
      <4> HIDE DEF f
      <4>1. late \subseteq parked
        OBVIOUS
      <4> HIDE DEF late
      <4> QED BY <1>1, <3>6, <4>1 DEF Disjoint
    <3>8. f \in Injection(late, window)
      <4>1. f \in [late -> window]
        BY <3>6
      <4>2. \A s, t \in late : f[s] = f[t] => s = t
        BY <3>7
      <4> HIDE DEF f
      <4> QED BY <4>1, <4>2 DEF Injection, IsInjective
    <3>9. Cardinality(late) <= Cardinality(window)
      <4> HIDE DEF f, late
      <4> QED BY <1>2, <3>4, <3>8, FS_Injection
    <3> QED BY <3>4, <3>9
  <2> QED BY <2>1, <2>2
<1>5. Cardinality(parked) <= Cardinality(early) + Cardinality(late)
  <2>1. parked = early \cup late /\ early \cap late = {}
    OBVIOUS
  <2> HIDE DEF early, late
  <2>2. Cardinality(early \cup late) = Cardinality(early) + Cardinality(late) - Cardinality(early \cap late)
    BY <1>2, FS_Union
  <2> QED BY <1>2, <2>1, <2>2, FS_EmptySet
<1> HIDE DEF early, late
<1>6. Cardinality(parked) \in Nat
  BY <1>1, NodesFinite
<1> QED BY <1>2, <1>3, <1>4, <1>5, <1>6, LazyAssumption DEF parked

LEMMA ResultKeeps ==
  ASSUME IInv, Result
  PROVE  /\ IInv'
         /\ Held' = Held /\ Root \in Held /\ answer' = TreeValue[Root]
<1>1. /\ state = "feeding" /\ cur = None /\ delivered = Leaves
      /\ answer' = present[Root] /\ state' = "returned"
      /\ UNCHANGED <<raising, delivered, present, cur, n_combines, max_frontier>>
  BY DEF Result
<1>2. Held = {Root} /\ Root \in DOMAIN present
  BY <1>1, RootIsLeft
<1>3. answer' = TreeValue[Root]
  BY <1>1, <1>2 DEF IInv, ValuesOK
<1>4. Held' = Held
  BY <1>1 DEF Held
<1>5. TypeOK'
  BY <1>1 DEF IInv, TypeOK
<1>6. ForestOK'
  BY <1>1, <1>4 DEF IInv, ForestOK
<1>7. ValuesOK' /\ WaitingOK' /\ EndOK'
  BY <1>1, <1>3 DEF IInv, ValuesOK, WaitingOK, EndOK
<1> QED BY <1>2, <1>3, <1>4, <1>5, <1>6, <1>7 DEF IInv

LEMMA StutterKeeps ==
  ASSUME IInv, UNCHANGED vars
  PROVE  IInv'
<1>1. Held' = Held
  BY DEF vars, Held
<1> QED BY <1>1 DEF vars, IInv, TypeOK, ForestOK, ValuesOK, WaitingOK, EndOK

LEMMA StepKeeps ==
  ASSUME IInv, [Next]_vars
  PROVE  IInv'
<1>1. CASE \E leaf \in Leaves : Feed(leaf)
  BY <1>1, FeedKeeps
<1>2. CASE StayHere
  BY <1>2, StayHereKeeps
<1>3. CASE CarryUp
  BY <1>3, CarryUpKeeps
<1>4. CASE CombineUp
  BY <1>4, CombineUpKeeps
<1>5. CASE Result
  BY <1>5, ResultKeeps
<1>6. CASE UNCHANGED vars
  BY <1>6, StutterKeeps
<1> QED BY <1>1, <1>2, <1>3, <1>4, <1>5, <1>6 DEF Next, Over

LEMMA LazyInvariant == Spec => []IInv
BY InitEstablishes, StepKeeps, PTL DEF Spec

-----------------------------------------------------------------------------
(* The theorems.                                                           *)

(* Types; in particular n_combines stays below N and the frontier below N+1. *)
THEOREM LazyTypeCorrect == Spec => []TypeOK
<1>1. IInv => TypeOK
  BY DEF IInv
<1> QED BY <1>1, LazyInvariant, PTL

(* The frontier is counted when a node has been parked (StayHere), between two *)
(* leaves, and its bound needs the window the leaves come in.                *)
LEMMA StepKeepsWidth ==
  ASSUME IInv, IInv', Window, FrontierIsSmall, [Next]_vars
  PROVE  Window' /\ FrontierIsSmall'
<1>1. CASE \E leaf \in Leaves : Feed(leaf)
  <2>1. PICK leaf \in Leaves : Feed(leaf)
    BY <1>1
  <2>2. /\ delivered' = delivered \cup {leaf} /\ max_frontier' = max_frontier
        /\ \A earlier \in 0 .. leaf - Ahead - 1 : earlier \in delivered
    BY <2>1 DEF Feed
  <2>3. Window'
    BY <2>2 DEF Window
  <2> QED BY <2>2, <2>3 DEF FrontierIsSmall
<1>2. CASE StayHere
  <2> DEFINE width == Cardinality(DOMAIN present')
  <2>1. /\ delivered' = delivered /\ state' = "feeding" /\ cur' = None
        /\ max_frontier' = IF width > max_frontier THEN width ELSE max_frontier
    BY <1>2 DEF StayHere, Bubbling
  <2>2. Window'
    BY <2>1 DEF Window
  <2>3. (IInv /\ Window /\ state = "feeding" /\ cur = None
           => Cardinality(DOMAIN present) <= Depth + Ahead + 1)'
    BY SmallBetweenLeaves, PTL
  <2>4. width <= Depth + Ahead + 1
    BY <2>1, <2>2, <2>3
  <2> HIDE DEF width
  <2>5. max_frontier' <= Depth + Ahead + 1
    BY <2>1, <2>4 DEF FrontierIsSmall
  <2> QED BY <2>2, <2>5 DEF FrontierIsSmall
<1>3. CASE CarryUp \/ CombineUp \/ Result \/ UNCHANGED vars
  <2>1. delivered' = delivered /\ max_frontier' = max_frontier
    BY <1>3 DEF CarryUp, CombineUp, Result, vars
  <2> QED BY <2>1 DEF Window, FrontierIsSmall
<1> QED BY <1>1, <1>2, <1>3 DEF Next, Over

(* The frontier stays O(log N) where completion is roughly in order: one node  *)
(* per level and one for each leaf that may run ahead (docstring of           *)
(* LazyReducer, "never the whole tree").                                     *)
THEOREM FrontierStaysSmall == Spec => []FrontierIsSmall
<1>1. Init => Window /\ FrontierIsSmall
  BY LazyAssumption DEF Init, Window, FrontierIsSmall
<1>2. IInv /\ IInv' /\ (Window /\ FrontierIsSmall) /\ [Next]_vars => (Window /\ FrontierIsSmall)'
  BY StepKeepsWidth
<1>3. Spec => [](Window /\ FrontierIsSmall)
  BY <1>1, <1>2, LazyInvariant, PTL DEF Spec
<1> QED BY <1>3, PTL

(* Unless a combine raised, every leaf that was fed is under exactly one of   *)
(* the nodes the reducer holds (feed's frontier and the node it bubbles up).  *)
THEOREM EveryLeafHeldOnce == Spec => []HoldsEveryLeafOnce
<1>1. IInv => HoldsEveryLeafOnce
  <2> SUFFICES ASSUME IInv, state # "raised"
               PROVE  /\ UNION Tops = delivered
                      /\ \A s, t \in DOMAIN present :
                           s # t => LeavesUnder(N, s) \cap LeavesUnder(N, t) = {}
    BY DEF HoldsEveryLeafOnce
  <2>1. Forest(Held, delivered) /\ delivered \subseteq Leaves
    BY DEF IInv, ForestOK, TypeOK
  <2>2. Tops = {LeavesUnder(N, nd) : nd \in Held}
    BY DEF Tops, Held
  <2>3. \A nd \in Held : LeavesUnder(N, nd) \subseteq Leaves
    BY <2>1, NodeHasLeaves DEF Forest
  <2>4. UNION Tops = delivered
    BY <2>1, <2>2, <2>3 DEF Forest, Covers
  <2>5. DOMAIN present \subseteq Held
    BY DEF Held
  <2> QED BY <2>1, <2>4, <2>5 DEF Forest, Disjoint
<1> QED BY <1>1, LazyInvariant, PTL

-----------------------------------------------------------------------------
(* LazyReducer implements Reduction, step by step.                          *)

FormedBy(held) == {block \in Blocks(N, Depth) : \E nd \in held : block \subseteq LeavesUnder(N, nd)}

LEMMA FormedIsFormedBy == Formed = FormedBy(Held) /\ Formed' = FormedBy(Held')
<1>1. Tops = {LeavesUnder(N, nd) : nd \in Held} /\ Tops' = {LeavesUnder(N, nd) : nd \in Held'}
  BY DEF Tops, Held
<1>2. \A held : {block \in Blocks(N, Depth) : \E top \in {LeavesUnder(N, nd) : nd \in held} : block \subseteq top}
                = FormedBy(held)
  BY DEF FormedBy
<1>3. Formed = FormedBy(Held)
  BY <1>1, <1>2 DEF Formed
<1>4. Formed' = FormedBy(Held')
  BY <1>1, <1>2 DEF Formed
<1> QED BY <1>3, <1>4

(* What is formed follows from what the nodes held cover: a leaf forms its   *)
(* own block,                                                              *)
LEMMA FormLeaf ==
  ASSUME NEW held, NEW leaf \in Leaves
  PROVE  /\ {leaf} \in Blocks(N, Depth)
         /\ FormedBy(held \cup {<<0, leaf>>}) = FormedBy(held) \cup {{leaf}}
<1> DEFINE new == <<0, leaf>>
<1>1. new \in Nodes /\ LeavesUnder(N, new) = {leaf}
  BY LeafNode
<1> HIDE DEF new
<1>2. {leaf} \in Blocks(N, Depth)
  BY <1>1 DEF Blocks, Nodes
<1>3. \A block \in Blocks(N, Depth) : block # {}
  BY NodeHasLeaves DEF Blocks, Nodes
<1>4. \A block \in Blocks(N, Depth) : block \subseteq LeavesUnder(N, new) <=> block = {leaf}
  BY <1>1, <1>3
<1> QED BY <1>2, <1>4 DEF FormedBy, new

(* a node carried up covers what it covered before,                         *)
LEMMA FormCarried ==
  ASSUME NEW held, NEW nd \in held, NEW top, LeavesUnder(N, top) = LeavesUnder(N, nd)
  PROVE  FormedBy((held \ {nd}) \cup {top}) = FormedBy(held)
BY DEF FormedBy

(* and a pair forms its own block and no other: a block under the parent is   *)
(* under one of the operands, or covers both.                               *)
LEMMA FormPair ==
  ASSUME NEW held \in SUBSET Nodes, NEW nd \in held, ~IsRootLevel(N, Lvl(nd)), Sibling(nd) \in held,
         Parent(nd) \in Nodes,
         LeavesUnder(N, Parent(nd)) = LeavesUnder(N, nd) \cup LeavesUnder(N, Sibling(nd))
  PROVE  FormedBy((held \ {nd, Sibling(nd)}) \cup {Parent(nd)})
           = FormedBy(held) \cup {LeavesUnder(N, Parent(nd))}
<1> DEFINE sib == Sibling(nd)
           top == Parent(nd)
           pair == LeavesUnder(N, top)
           lvl == Lvl(nd)
<1>1. nd \in Nodes /\ sib \in Nodes /\ nd = <<lvl, Pos(nd)>> /\ lvl \in Nat
  BY NodeParts, LazyAssumption
<1>2. sib = <<lvl, Pos(sib)>> /\ top = <<lvl + 1, Pos(top)>>
  BY DEF Sibling, Parent, Lvl, Pos
<1> HIDE DEF sib, top, lvl
<1>3. \A x \in Nodes : LeavesUnder(N, x) \subseteq pair =>
        \/ LeavesUnder(N, x) \subseteq LeavesUnder(N, nd)
        \/ LeavesUnder(N, x) \subseteq LeavesUnder(N, sib)
        \/ LeavesUnder(N, x) = pair
  <2> SUFFICES ASSUME NEW x \in Nodes, LeavesUnder(N, x) \subseteq pair
               PROVE  \/ LeavesUnder(N, x) \subseteq LeavesUnder(N, nd)
                      \/ LeavesUnder(N, x) \subseteq LeavesUnder(N, sib)
                      \/ LeavesUnder(N, x) = pair
    OBVIOUS
  <2>1. PICK leaf : leaf \in LeavesUnder(N, x)
    BY NodeHasLeaves
  <2>2. x = <<Lvl(x), Pos(x)>> /\ Lvl(x) \in Nat
    BY NodeParts, LazyAssumption
  <2>3. leaf \in LeavesUnder(N, nd) \/ leaf \in LeavesUnder(N, sib)
    BY <2>1 DEF sib, top
  <2>4. CASE Lvl(x) <= lvl
    <3>1. ASSUME leaf \in LeavesUnder(N, nd)
          PROVE  LeavesUnder(N, x) \subseteq LeavesUnder(N, nd)
      <4>1. LeavesUnder(N, <<Lvl(x), Pos(x)>>) \subseteq LeavesUnder(N, <<lvl, Pos(nd)>>)
        BY <1>1, <2>1, <2>2, <2>4, <3>1, Nested, LazyAssumption
      <4> QED BY <1>1, <2>2, <4>1
    <3>2. ASSUME leaf \in LeavesUnder(N, sib)
          PROVE  LeavesUnder(N, x) \subseteq LeavesUnder(N, sib)
      <4>1. LeavesUnder(N, <<Lvl(x), Pos(x)>>) \subseteq LeavesUnder(N, <<lvl, Pos(sib)>>)
        BY <1>1, <1>2, <2>1, <2>2, <2>4, <3>2, Nested, LazyAssumption
      <4> QED BY <1>2, <2>2, <4>1
    <3> QED BY <2>3, <3>1, <3>2
  <2>5. CASE lvl + 1 <= Lvl(x)
    <3>1. leaf \in LeavesUnder(N, <<lvl + 1, Pos(top)>>) /\ leaf \in LeavesUnder(N, <<Lvl(x), Pos(x)>>)
      BY <1>2, <2>1, <2>2
    <3>2. lvl + 1 \in Nat
      BY <1>1
    <3>3. LeavesUnder(N, <<lvl + 1, Pos(top)>>) \subseteq LeavesUnder(N, <<Lvl(x), Pos(x)>>)
      BY <2>2, <2>5, <3>1, <3>2, Nested, LazyAssumption
    <3>4. pair \subseteq LeavesUnder(N, x)
      BY <1>2, <2>2, <3>3
    <3> QED BY <3>4
  <2>6. Lvl(x) <= lvl \/ lvl + 1 <= Lvl(x)
    BY <1>1, <2>2
  <2> QED BY <2>4, <2>5, <2>6
<1>4. \A block \in Blocks(N, Depth) : block \subseteq pair =>
        block \subseteq LeavesUnder(N, nd) \/ block \subseteq LeavesUnder(N, sib) \/ block = pair
  BY <1>3 DEF Blocks, Nodes
<1>5. pair \in Blocks(N, Depth)
  BY DEF Blocks, Nodes, top
<1>6. LeavesUnder(N, nd) \subseteq pair /\ LeavesUnder(N, sib) \subseteq pair
  BY DEF sib, top
<1> HIDE DEF pair
<1>7. pair = LeavesUnder(N, top)
  BY DEF pair
<1>8. FormedBy((held \ {nd, sib}) \cup {top}) = FormedBy(held) \cup {pair}
  <2> SUFFICES ASSUME NEW block \in Blocks(N, Depth)
               PROVE  (\E x \in (held \ {nd, sib}) \cup {top} : block \subseteq LeavesUnder(N, x))
                        <=> (\E x \in held : block \subseteq LeavesUnder(N, x)) \/ block = pair
    BY <1>5 DEF FormedBy
  <2>1. ASSUME NEW x \in (held \ {nd, sib}) \cup {top}, block \subseteq LeavesUnder(N, x)
        PROVE  (\E y \in held : block \subseteq LeavesUnder(N, y)) \/ block = pair
    <3>1. CASE x \in held
      BY <2>1, <3>1
    <3>2. CASE x = top
      <4>1. sib \in held
        BY DEF sib
      <4> QED BY <1>4, <1>7, <2>1, <3>2, <4>1
    <3> QED BY <3>1, <3>2
  <2>2. ASSUME NEW x \in held, block \subseteq LeavesUnder(N, x)
        PROVE  \E y \in (held \ {nd, sib}) \cup {top} : block \subseteq LeavesUnder(N, y)
    <3>1. CASE x \in {nd, sib}
      BY <1>6, <1>7, <2>2, <3>1
    <3>2. CASE x \notin {nd, sib}
      BY <2>2, <3>2
    <3> QED BY <3>1, <3>2
  <2>3. ASSUME block = pair
        PROVE  \E y \in (held \ {nd, sib}) \cup {top} : block \subseteq LeavesUnder(N, y)
    BY <1>7, <2>3
  <2> QED BY <2>1, <2>2, <2>3
<1> QED BY <1>7, <1>8 DEF sib, top

(* A node held has formed its block.                                        *)
LEMMA HeldIsFormed ==
  ASSUME NEW held \in SUBSET Nodes, NEW nd \in held
  PROVE  LeavesUnder(N, nd) \in FormedBy(held)
<1>1. LeavesUnder(N, nd) \in Blocks(N, Depth)
  BY DEF Blocks, Nodes
<1> QED BY <1>1 DEF FormedBy

LEMMA NothingForms ==
  ASSUME Formed' = Formed, answer' = answer, raising' = raising, state' = state
  PROVE  UNCHANGED Abstract!vars
BY DEF Abstract!vars

LEMMA BlockForms ==
  ASSUME NEW block \in Blocks(N, Depth), Formed' = Formed \cup {block},
         answer' = answer, raising' = raising, state' = state,
         \/ \E leaf \in Leaves : block = {leaf}
         \/ \E left, right \in Formed : left \cap right = {} /\ left \cup right = block
  PROVE  [Abstract!Next]_(Abstract!vars)
<1>1. CASE block \in Formed
  <2>1. Formed' = Formed
    BY <1>1
  <2> QED BY <2>1, NothingForms
<1>2. CASE block \notin Formed
  <2>1. block \in Formed' \ Formed
    BY <1>2
  <2>2. Abstract!Form(block)
    BY DEF Abstract!Form
  <2>3. Abstract!Next
    BY <2>1, <2>2, Zenon DEF Abstract!Next
  <2> QED BY <2>3
<1> QED BY <1>1, <1>2

LEMMA StepRefines ==
  ASSUME IInv, [Next]_vars
  PROVE  [Abstract!Next]_(Abstract!vars)
<1>1. ASSUME NEW leaf \in Leaves, Feed(leaf) PROVE [Abstract!Next]_(Abstract!vars)
  <2>1. answer' = answer /\ raising' = raising /\ state' = state
    BY <1>1 DEF Feed
  <2>2. {leaf} \in Blocks(N, Depth) /\ Formed' = Formed \cup {{leaf}}
    <3>1. Held' = Held \cup {<<0, leaf>>}
      BY <1>1, FeedKeeps
    <3>2. {leaf} \in Blocks(N, Depth) /\ FormedBy(Held \cup {<<0, leaf>>}) = FormedBy(Held) \cup {{leaf}}
      BY FormLeaf
    <3> QED BY <3>1, <3>2, FormedIsFormedBy
  <2> QED BY <2>1, <2>2, BlockForms
<1>2. CASE StayHere
  <2>1. answer' = answer /\ raising' = raising /\ state' = state
    BY <1>2 DEF StayHere
  <2>2. Formed' = Formed
    BY <1>2, StayHereKeeps, FormedIsFormedBy
  <2> QED BY <2>1, <2>2, NothingForms
<1>3. CASE CarryUp
  <2>1. answer' = answer /\ raising' = raising /\ state' = state /\ cur.node \in Held
    BY <1>3 DEF CarryUp, Bubbling, Held
  <2>2. Formed' = Formed
    BY <1>3, <2>1, CarryUpKeeps, FormCarried, FormedIsFormedBy
  <2> QED BY <2>1, <2>2, NothingForms
<1>4. CASE CombineUp
  <2>1. answer' = answer /\ raising' = raising /\ ~IsRootLevel(N, Lvl(cur.node)) /\ state = "feeding"
    BY <1>4 DEF CombineUp, AtRoot, Bubbling
  <2>2. Held \in SUBSET Nodes
    BY <2>1 DEF IInv, ForestOK, Forest
  <2>3. CASE state' = "feeding"
    <3> DEFINE nd == cur.node
               left == LeavesUnder(N, nd)
               right == LeavesUnder(N, Sibling(nd))
               block == LeavesUnder(N, Parent(nd))
    <3>1. /\ Held' = (Held \ {nd, Sibling(nd)}) \cup {Parent(nd)}
          /\ nd \in Held /\ Sibling(nd) \in Held /\ Parent(nd) \in Nodes
          /\ block = left \cup right /\ left \cap right = {}
      BY <1>4, <2>3, CombineUpKeeps
    <3>2. ~IsRootLevel(N, Lvl(nd))
      BY <2>1
    <3> HIDE DEF nd
    <3>3. FormedBy(Held') = FormedBy(Held) \cup {block}
      BY <2>2, <3>1, <3>2, FormPair
    <3>4. left \in FormedBy(Held) /\ right \in FormedBy(Held)
      BY <2>2, <3>1, HeldIsFormed
    <3>5. block \in Blocks(N, Depth)
      BY <3>1 DEF Blocks, Nodes
    <3>6. Formed = FormedBy(Held) /\ Formed' = FormedBy(Held')
      BY FormedIsFormedBy
    <3> HIDE DEF left, right, block
    <3>7. Formed' = Formed \cup {block}
      BY <3>3, <3>6
    <3>8. \E a, b \in Formed : a \cap b = {} /\ a \cup b = block
      BY <3>1, <3>4, <3>6
    <3> QED BY <2>1, <2>3, <3>5, <3>7, <3>8, BlockForms
  <2>4. CASE state' # "feeding"
    <3>1. state' = "raised" /\ raising # {} /\ Held' \subseteq Held
      BY <1>4, <2>4, CombineUpKeeps
    <3>2. Formed' \subseteq Formed
      BY <3>1, FormedIsFormedBy DEF FormedBy
    <3>3. answer = None
      BY <2>1 DEF IInv, EndOK
    <3> QED BY <2>1, <3>1, <3>2, <3>3 DEF Abstract!Next, Abstract!Fail, Abstract!Open
  <2> QED BY <2>3, <2>4
<1>5. CASE Result
  <2>1. state = "feeding" /\ state' = "returned" /\ raising' = raising
    BY <1>5 DEF Result
  <2>2. Held' = Held /\ Root \in Held /\ answer' = TreeValue[Root]
    BY <1>5, ResultKeeps
  <2>3. Formed' = Formed
    BY <2>2, FormedIsFormedBy
  <2>4. Leaves \in Formed
    <3>1. Held \in SUBSET Nodes
      BY <2>1 DEF IInv, ForestOK, Forest
    <3> QED BY <2>2, <3>1, HeldIsFormed, RootCoversAll, FormedIsFormedBy
  <2>5. answer = None
    BY <2>1 DEF IInv, EndOK
  <2> QED BY <2>1, <2>2, <2>3, <2>4, <2>5 DEF Abstract!Next, Abstract!Reply, Abstract!Open
<1>6. CASE UNCHANGED vars
  <2>1. Held' = Held /\ answer' = answer /\ raising' = raising /\ state' = state
    BY <1>6 DEF vars, Held
  <2>2. Formed' = Formed
    BY <2>1, FormedIsFormedBy
  <2> QED BY <2>1, <2>2, NothingForms
<1> QED BY <1>1, <1>2, <1>3, <1>4, <1>5, <1>6 DEF Next, Over

LEMMA InitRefines ==
  ASSUME Init
  PROVE  Abstract!Init
<1>1. Held = {}
  BY DEF Init, Held
<1>2. Formed = {}
  BY <1>1, FormedIsFormedBy DEF FormedBy
<1> QED BY <1>2 DEF Init, Abstract!Init

(* In whatever order the leaves are fed, the reducer combines each pair of    *)
(* the fixed tree once, after both its operands, and result() is the value of *)
(* the root: LazyReducer implements Reduction.                              *)
THEOREM LazyImplementsReduction == Spec => Abstract!Spec
BY InitRefines, StepRefines, LazyInvariant, PTL DEF Spec, Abstract!Spec
====
