------------------------- MODULE MCReduceTreeProofs -------------------------
(***************************************************************************)
(* What MCReduceTree checks of small plans holds of plans of every size and *)
(* of every number of workers: a state of it is one plan, and the sizes it  *)
(* walks over are all that occur.                                          *)
(***************************************************************************)
EXTENDS MCReduceTree, ReduceTreeProofs

(* At least one leaf, and a leaf for every worker (make_bounds' callers).    *)
Sizes == n \in Nat \ {0} /\ w \in 1 .. n

LEMMA SizesHold == Spec => []Sizes
<1>1. Init => Sizes
  BY DEF Init, Sizes
<1>2. Sizes /\ [Next]_<<n, w>> => Sizes'
  BY DEF Sizes, Next, MoreLeaves, MoreWorkers
<1> QED BY <1>1, <1>2, PTL DEF Spec

(* Log2Up is the number of halvings that leave one.                          *)
LEMMA Log2UpIs ==
  ASSUME NEW k \in Nat \ {0}
  PROVE  /\ Log2Up(k) \in 0 .. k /\ Log2Up(k) \in Nat
         /\ 2^Log2Up(k) >= k /\ \A c \in 0 .. Log2Up(k) - 1 : 2^c < k
<1> DEFINE T == {d \in Nat : 2^d >= k}
           Is(d) == 2^d >= k /\ \A c \in 0 .. d-1 : 2^c < k
<1>1. k \in T
  <2>1. 2^k >= k + 1 /\ 2^k \in Nat
    BY PowBeats, PowNat
  <2> QED BY <2>1
<1>2. PICK d \in T : \A other \in T : d <= other
  <2>1. T \subseteq Nat
    OBVIOUS
  <2> HIDE DEF T
  <2> QED BY <1>1, <2>1, Least
<1>3. d \in Nat /\ 2^d >= k /\ d <= k
  BY <1>1, <1>2
<1>4. \A c \in 0 .. d-1 : 2^c < k
  <2> SUFFICES ASSUME NEW c \in 0 .. d-1 PROVE 2^c < k
    OBVIOUS
  <2>1. c \in Nat /\ ~(d <= c)
    BY <1>3
  <2>2. c \notin T
    <3> HIDE DEF T
    <3> QED BY <1>2, <2>1
  <2>3. 2^c \in Nat
    BY <2>1, PowNat
  <2> QED BY <2>1, <2>2, <2>3
<1>5. d \in 0 .. k /\ Is(d)
  BY <1>3, <1>4
<1>6. Log2Up(k) = CHOOSE e \in 0 .. k : Is(e)
  BY DEF Log2Up
<1> HIDE DEF Is
<1>7. Log2Up(k) \in 0 .. k /\ Is(Log2Up(k))
  BY <1>5, <1>6
<1> QED BY <1>7 DEF Is

LEMMA DepthIs ==
  ASSUME Sizes
  PROVE  /\ Depth \in 0 .. n /\ Depth \in Nat
         /\ LevelSize(n, Depth) = 1 /\ \A lvl \in 0 .. Depth-1 : LevelSize(n, lvl) > 1
<1>1. /\ Depth \in 0 .. n /\ Depth \in Nat
      /\ 2^Depth >= n /\ \A c \in 0 .. Depth - 1 : 2^c < n
  BY Log2UpIs DEF Depth, Sizes
<1> HIDE DEF Depth
<1>2. LevelSize(n, Depth) = 1
  BY <1>1, RootLevelIff DEF Sizes, IsRootLevel
<1>3. ASSUME NEW lvl \in 0 .. Depth-1 PROVE LevelSize(n, lvl) > 1
  <2>1. lvl \in Nat /\ 2^lvl < n /\ 2^lvl \in Nat
    BY <1>1, PowNat
  <2>2. ~(2^lvl >= n)
    BY <2>1 DEF Sizes
  <2>3. LevelSize(n, lvl) # 1
    BY <2>1, <2>2, RootLevelIff DEF Sizes, IsRootLevel
  <2>4. LevelSize(n, lvl) \in Nat \ {0}
    BY <2>1, LevelHalves DEF Sizes
  <2> QED BY <2>3, <2>4
<1> QED BY <1>1, <1>2, <1>3

LEMMA TreeNode ==
  ASSUME Sizes, NEW nd \in InTree
  PROVE  /\ nd = <<Lvl(nd), Pos(nd)>> /\ Lvl(nd) \in Nat /\ Pos(nd) \in 0 .. n-1 /\ Pos(nd) \in Nat
         /\ Lvl(nd) \in 0 .. Depth - 1 /\ Pos(nd) < LevelSize(n, Lvl(nd))
<1>1. nd \in (0 .. Depth) \X (0 .. n-1) /\ Pos(nd) < LevelSize(n, Lvl(nd)) /\ LevelSize(n, Lvl(nd)) # 1
  BY DEF InTree, Nodes, NodesOf, IsRootLevel
<1>2. nd = <<Lvl(nd), Pos(nd)>> /\ Lvl(nd) \in 0 .. Depth /\ Pos(nd) \in 0 .. n-1
  BY <1>1 DEF Lvl, Pos
<1>3. Depth \in Nat /\ LevelSize(n, Depth) = 1
  BY DepthIs
<1>4. Lvl(nd) # Depth
  BY <1>1, <1>3
<1> QED BY <1>1, <1>2, <1>3, <1>4 DEF Sizes

-----------------------------------------------------------------------------
(* The tree.                                                               *)

(* For every number of leaves the levels halve down to one root, and each    *)
(* node covers what its operands cover.                                     *)
LEMMA SoundTree == Sizes => TreeIsSound
<1> SUFFICES ASSUME Sizes PROVE TreeIsSound
  OBVIOUS
<1>1. /\ Depth \in Nat /\ LevelSize(n, Depth) = 1
      /\ \A lvl \in 0 .. Depth-1 : LevelSize(n, lvl) > 1
  BY DepthIs
<1>2. n \in Nat \ {0}
  BY DEF Sizes
<1>3. LeavesUnder(n, <<Depth, 0>>) = 0 .. n-1
  <2>1. \A leaf \in 0 .. n-1 : leaf \div 2^Depth = 0
    <3> SUFFICES ASSUME NEW leaf \in 0 .. n-1 PROVE leaf \div 2^Depth = 0
      OBVIOUS
    <3>1. leaf \div 2^Depth \in Nat /\ leaf \div 2^Depth < 1
      BY <1>1, <1>2, LeafOnLevel
    <3> QED BY <3>1
  <2> QED BY <2>1 DEF LeavesUnder, Lvl, Pos
<1>4. ASSUME NEW nd \in InTree
      PROVE  /\ LeavesUnder(n, nd) # {}
             /\ LeavesUnder(n, Parent(nd)) =
                  LeavesUnder(n, nd) \cup IF Unpaired(n, nd) THEN {} ELSE LeavesUnder(n, Sibling(nd))
  <2> DEFINE l == Lvl(nd)
             pos == Pos(nd)
  <2>1. nd = <<l, pos>> /\ l \in Nat /\ pos \in Nat /\ pos < LevelSize(n, l)
    BY TreeNode
  <2> HIDE DEF l, pos
  <2>2. pos * 2^l \in LeavesUnder(n, nd)
    BY <1>2, <2>1, FirstLeaf
  <2>3. LeavesUnder(n, Parent(nd)) =
          IF Unpaired(n, nd) THEN LeavesUnder(n, nd)
          ELSE LeavesUnder(n, nd) \cup LeavesUnder(n, Sibling(nd))
    BY <1>2, <2>1, LeavesOfParent
  <2> QED BY <2>2, <2>3
<1>5. IsRootLevel(n, Depth)
  BY <1>1 DEF IsRootLevel
<1> QED BY <1>1, <1>3, <1>4, <1>5 DEF TreeIsSound

(* The pairs of the tree are those below level n, as the levels above the     *)
(* root have one node.                                                      *)
LEMMA PairsOfTree ==
  ASSUME Sizes
  PROVE  {nd \in InTree : IsEven(nd) /\ ~Unpaired(n, nd)} = PairsBelow(n, n)
<1> DEFINE pairs == {nd \in InTree : IsEven(nd) /\ ~Unpaired(n, nd)}
<1>1. /\ Depth \in 0 .. n /\ Depth \in Nat /\ LevelSize(n, Depth) = 1
      /\ \A lvl \in 0 .. Depth-1 : LevelSize(n, lvl) > 1
  BY DepthIs
<1>2. n \in Nat \ {0}
  BY DEF Sizes
<1>3. ASSUME NEW nd \in pairs PROVE nd \in PairsBelow(n, n)
  <2>1. /\ nd = <<Lvl(nd), Pos(nd)>> /\ Lvl(nd) \in Nat /\ Pos(nd) \in 0 .. n-1
        /\ Lvl(nd) \in 0 .. Depth - 1
    BY TreeNode
  <2>2. LevelSize(n, Lvl(nd)) \in Nat
    BY <1>2, <2>1, LevelHalves
  <2>3. Pos(nd) + 1 < LevelSize(n, Lvl(nd)) /\ IsEven(nd)
    BY <1>2, <2>1, <2>2 DEF Unpaired
  <2>4. Lvl(nd) \in 0 .. n-1
    BY <1>1, <1>2, <2>1
  <2>5. nd \in (0 .. n-1) \X (0 .. n-1)
    BY <2>1, <2>4
  <2> QED BY <2>3, <2>5 DEF PairsBelow
<1>4. \A l \in Nat : l >= Depth => LevelSize(n, l) = 1
  BY <1>1, <1>2, RootStays DEF IsRootLevel
<1>5. ASSUME NEW nd \in PairsBelow(n, n) PROVE nd \in pairs
  <2>1. /\ nd = <<Lvl(nd), Pos(nd)>> /\ Lvl(nd) \in Nat /\ Pos(nd) \in Nat
        /\ IsEven(nd) /\ ~Unpaired(n, nd) /\ Pos(nd) + 1 < LevelSize(n, Lvl(nd))
    BY <1>2, PairBelowIs
  <2>2. nd \in (0 .. n-1) \X (0 .. n-1)
    BY DEF PairsBelow
  <2>3. LevelSize(n, Lvl(nd)) \in Nat /\ LevelSize(n, Lvl(nd)) # 1
    BY <1>2, <2>1, LevelHalves
  <2>4. Lvl(nd) \in 0 .. Depth
    BY <1>1, <1>4, <2>1, <2>3
  <2>5. Pos(nd) < LevelSize(n, Lvl(nd))
    BY <2>1, <2>3
  <2>6. nd \in (0 .. Depth) \X (0 .. n-1)
    <3>1. nd = <<Lvl(nd), Pos(nd)>> /\ Pos(nd) \in 0 .. n-1
      BY <2>2 DEF Lvl, Pos
    <3> QED BY <2>4, <3>1
  <2> QED BY <2>1, <2>3, <2>5, <2>6 DEF InTree, Nodes, NodesOf, IsRootLevel
<1> QED BY <1>3, <1>5

(* plan_tree's list of combines is the tree of the index arithmetic.          *)
LEMMA PlanAgrees == Sizes => PlanTreeAgrees
<1> SUFFICES ASSUME Sizes PROVE PlanTreeAgrees
  OBVIOUS
<1> DEFINE plan == PlanTree(n)
           cs == plan.combines
           cover == CoverOf(n, cs)
           pairs == {nd \in InTree : IsEven(nd) /\ ~Unpaired(n, nd)}
           G == LeafLabels(n)
           Two(c) == <<cover[c[2]], cover[c[3]]>>
           Under(nd) == <<LeavesUnder(n, nd), LeavesUnder(n, Sibling(nd))>>
<1>1. n \in Nat \ {0}
  BY DEF Sizes
<1>2. pairs = PairsBelow(n, n)
  BY PairsOfTree
<1>3. PlanShape(n, cs, plan.root) /\ Len(cs) = Cardinality(PairsBelow(n, n))
  BY <1>1, LabelsOfLeaves, PlanIsTree
<1>4. PICK V : PlanLabels(n, G, cs, plan.root, V) /\ \A id \in 0 .. n - 1 + Len(cs) : cover[id] = V[id]
  BY <1>1, PlanCover
<1> HIDE DEF cs, cover, pairs, G, plan
<1>5. ASSUME NEW ci \in 1 .. Len(cs), NEW nd \in PairsBelow(n, n), Pairs(G, V, cs[ci], nd)
      PROVE  Two(cs[ci]) = Under(nd)
  <2> DEFINE c == cs[ci]
  <2>1. Len(cs) \in Nat /\ c[1] = n + ci - 1 /\ c[2] \in 0 .. c[1] - 1 /\ c[3] \in 0 .. c[1] - 1
    BY <1>3 DEF PlanShape
  <2>2. V[c[2]] = G[nd] /\ V[c[3]] = G[Sibling(nd)]
    BY <1>5 DEF Pairs
  <2> HIDE DEF c
  <2>3. c[2] \in 0 .. n - 1 + Len(cs) /\ c[3] \in 0 .. n - 1 + Len(cs)
    BY <1>1, <2>1
  <2>4. nd \in Nat \X Nat /\ Sibling(nd) \in Nat \X Nat
    BY <1>1, PairBelowIs
  <2>5. G[nd] = LeavesUnder(n, nd) /\ G[Sibling(nd)] = LeavesUnder(n, Sibling(nd))
    BY <2>4 DEF G, LeafLabels
  <2>6. cover[c[2]] = LeavesUnder(n, nd) /\ cover[c[3]] = LeavesUnder(n, Sibling(nd))
    BY <1>4, <2>2, <2>3, <2>5
  <2> QED BY <2>6 DEF c
<1> HIDE DEF Two, Under
<1>6. cs \in Seq(Triples) /\ DOMAIN cs = 1 .. Len(cs)
  <2>1. cs \in Seq(Triples)
    BY <1>3 DEF PlanShape
  <2> QED BY <2>1, LenProperties
<1>7. {Two(c) : c \in ToSet(cs)} = {Under(nd) : nd \in pairs}
  <2>1. ASSUME NEW c \in ToSet(cs) PROVE \E nd \in pairs : Two(c) = Under(nd)
    <3>1. PICK ci \in 1 .. Len(cs) : c = cs[ci]
      BY <1>6 DEF ToSet
    <3>2. PICK nd \in PairsBelow(n, n) : Pairs(G, V, cs[ci], nd)
      BY <1>4 DEF PlanLabels
    <3> QED BY <1>2, <1>5, <3>1, <3>2
  <2>2. ASSUME NEW nd \in pairs PROVE \E c \in ToSet(cs) : Two(c) = Under(nd)
    <3>1. PICK ci \in 1 .. Len(cs) : Pairs(G, V, cs[ci], nd)
      BY <1>2, <1>4 DEF PlanLabels
    <3>2. cs[ci] \in ToSet(cs)
      BY <1>6 DEF ToSet
    <3> QED BY <1>2, <1>5, <3>1, <3>2
  <2> QED BY <2>1, <2>2
<1>8. Len(cs) = Cardinality(pairs)
  BY <1>2, <1>3
<1>9. cover[plan.root] = 0 .. n-1
  <2>1. plan.root \in 0 .. n - 1 + Len(cs)
    BY <1>3 DEF PlanShape
  <2>2. cover[plan.root] = G[<<n, 0>>]
    BY <1>4, <2>1 DEF PlanLabels
  <2>3. G[<<n, 0>>] = LeavesUnder(n, <<n, 0>>)
    BY <1>1 DEF G, LeafLabels
  <2>4. \A leaf \in 0 .. n-1 : leaf \div 2^n = 0
    <3> SUFFICES ASSUME NEW leaf \in 0 .. n-1 PROVE leaf \div 2^n = 0
      OBVIOUS
    <3>1. 2^n >= n + 1 /\ 2^n \in Nat
      BY <1>1, PowBeats, PowNat
    <3>2. LevelSize(n, n) = 1
      BY <1>1, <3>1, RootLevelIff DEF IsRootLevel
    <3>3. leaf \div 2^n \in Nat /\ leaf \div 2^n < 1
      BY <1>1, <3>2, LeafOnLevel
    <3> QED BY <3>3
  <2>5. LeavesUnder(n, <<n, 0>>) = 0 .. n-1
    BY <2>4 DEF LeavesUnder, Lvl, Pos
  <2> QED BY <2>2, <2>3, <2>5
<1> QED BY <1>7, <1>8, <1>9 DEF PlanTreeAgrees, Two, Under, cover, cs, pairs, plan

-----------------------------------------------------------------------------
(* The slices of the workers.                                              *)

(* Two neighbouring bounds are n / w apart, rounded down or up.              *)
LEMMA SliceLength ==
  ASSUME NEW L \in Nat \ {0}, NEW W \in 1 .. L, NEW i \in 0 .. W-1
  PROVE  MakeBounds(L, W)[i+1] - MakeBounds(L, W)[i] \in {L \div W, (L + W - 1) \div W}
<1> DEFINE a == (i * L) \div W
           b == ((i+1) * L) \div W
           q == L \div W
           u == (L + W - 1) \div W
           x == i * L
           y == (i+1) * L
<1>1. W \in Nat \ {0} /\ x \in Nat /\ y = x + L
  <2>1. y = x + L
    OBVIOUS
  <2> QED BY <2>1
<1>2. a \in Int /\ W * a <= x /\ x < W * a + W
  BY <1>1
<1>3. b \in Int /\ W * b <= y /\ y < W * b + W
  BY <1>1
<1>4. q \in Int /\ W * q <= L /\ L < W * q + W
  BY <1>1
<1>5. u \in Int /\ W * u <= L + W - 1 /\ L + W - 1 < W * u + W
  BY <1>1
<1>6. MakeBounds(L, W)[i+1] = b /\ MakeBounds(L, W)[i] = a
  BY DEF MakeBounds
<1> HIDE DEF a, b, q, u, x, y
<1> DEFINE c == b - a
<1>7. c \in Int /\ W * c = W * b - W * a
  BY <1>1, <1>2, <1>3
<1> HIDE DEF c
<1>8. W * c < L + W /\ W * c > L - W
  BY <1>1, <1>2, <1>3, <1>7
<1>9. c >= q
  <2>1. SUFFICES ASSUME c <= q - 1 PROVE FALSE
    BY <1>4, <1>7
  <2>2. W * c <= W * (q - 1)
    BY <1>1, <1>4, <1>7, <2>1
  <2>3. W * (q - 1) = W * q - W
    BY <1>1, <1>4
  <2> QED BY <1>1, <1>4, <1>7, <1>8, <2>2, <2>3
<1>10. c <= u
  <2>1. SUFFICES ASSUME c >= u + 1 PROVE FALSE
    BY <1>5, <1>7
  <2>2. W * c >= W * (u + 1)
    BY <1>1, <1>5, <1>7, <2>1
  <2>3. W * (u + 1) = W * u + W
    BY <1>1, <1>5
  <2> QED BY <1>1, <1>5, <1>7, <1>8, <2>2, <2>3
<1>11. u <= q + 1
  <2>1. SUFFICES ASSUME u >= q + 2 PROVE FALSE
    BY <1>4, <1>5
  <2>2. W * u >= W * (q + 2)
    BY <1>1, <1>4, <1>5, <2>1
  <2>3. W * (q + 2) = W * q + 2 * W
    BY <1>1, <1>4
  <2> QED BY <1>1, <1>4, <1>5, <2>2, <2>3
<1>12. c = q \/ c = u
  BY <1>4, <1>5, <1>7, <1>9, <1>10, <1>11
<1> QED BY <1>6, <1>12 DEF c, q, u

LEMMA SlicesPart == Sizes => SlicesPartition
<1> SUFFICES ASSUME Sizes PROVE SlicesPartition
  OBVIOUS
<1> DEFINE bounds == MakeBounds(n, w)
<1>1. n \in Nat \ {0} /\ w \in 1 .. n /\ w \in Nat \ {0}
  BY DEF Sizes
<1>2. ASSUME NEW i \in Workers
      PROVE  /\ SliceItems(n, w, i) = {LeafRange(n, w, i)[k] : k \in DOMAIN LeafRange(n, w, i)}
             /\ SliceItems(n, w, i) = bounds[i] .. bounds[i+1] - 1
             /\ Cardinality(SliceItems(n, w, i)) \in {n \div w, (n + w - 1) \div w}
  <2> DEFINE s == LeafRange(n, w, i)
             lo == bounds[i]
             hi == bounds[i+1]
             At(leaf) == WorkerOf(leaf, bounds, w)
  <2>1. i \in 0 .. w-1 /\ i \in 0 .. w /\ i+1 \in 0 .. w /\ i < i+1
    BY <1>1 DEF Workers
  <2>2. /\ s \in Seq(0 .. n-1)
        /\ \A k \in DOMAIN s : At(s[k]) = i
        /\ \A leaf \in 0 .. n-1 : At(leaf) = i => \E k \in DOMAIN s : s[k] = leaf
    BY <1>1, <2>1, RangeLeaves
  <2>3. /\ bounds[w] = n /\ \A j \in 0 .. w : bounds[j] \in Nat
        /\ \A j, k \in 0 .. w : j < k => bounds[j] < bounds[k]
    BY <1>1, BoundsAscend
  <2>4. \A leaf \in 0 .. n-1 : At(leaf) = i => lo <= leaf /\ leaf < hi
    BY <1>1, OwnerRange
  <2>5. \A leaf \in Int : lo <= leaf /\ leaf < hi => At(leaf) = i
    BY <1>1, <2>1, RangeOwner
  <2>6. hi - lo \in {n \div w, (n + w - 1) \div w}
    BY <1>1, <2>1, SliceLength
  <2>7. SliceItems(n, w, i) = {leaf \in 0 .. n-1 : At(leaf) = i}
    BY DEF SliceItems
  <2> HIDE DEF s, bounds, At
  <2>8. lo \in Nat /\ hi \in Nat /\ lo < hi /\ hi <= n
    <3>1. lo \in Nat /\ hi \in Nat /\ lo < hi
      BY <2>1, <2>3
    <3>2. CASE i+1 = w
      BY <2>3, <3>1, <3>2
    <3>3. CASE i+1 < w
      <4>1. w \in 0 .. w
        BY <1>1
      <4>2. hi < n
        BY <2>1, <2>3, <3>3, <4>1
      <4> QED BY <1>1, <3>1, <4>2
    <3> QED BY <1>1, <2>1, <3>1, <3>2, <3>3
  <2>9. SliceItems(n, w, i) = lo .. hi - 1
    <3>1. \A leaf \in lo .. hi - 1 : leaf \in 0 .. n-1 /\ lo <= leaf /\ leaf < hi /\ leaf \in Int
      BY <1>1, <2>8
    <3>2. \A leaf \in 0 .. n-1 : lo <= leaf /\ leaf < hi => leaf \in lo .. hi - 1
      BY <1>1, <2>8
    <3> HIDE DEF lo, hi
    <3> QED BY <2>4, <2>5, <2>7, <3>1, <3>2
  <2>10. SliceItems(n, w, i) = {s[k] : k \in DOMAIN s}
    <3>1. \A k \in DOMAIN s : s[k] \in 0 .. n-1
      <4>1. DOMAIN s = 1 .. Len(s)
        BY <2>2, LenProperties
      <4> QED BY <2>2, <4>1, ElementOfSeq
    <3> QED BY <2>2, <2>7, <3>1
  <2>11. Cardinality(lo .. hi - 1) = hi - lo
    <3> HIDE DEF lo, hi
    <3>1. lo \in Int /\ hi - 1 \in Int
      BY <2>8
    <3>2. Cardinality(lo .. hi - 1) = IF lo > hi - 1 THEN 0 ELSE (hi - 1) - lo + 1
      BY <3>1, FS_Interval, Zenon
    <3> QED BY <2>8, <3>2
  <2> QED BY <2>6, <2>9, <2>10, <2>11 DEF s
<1>3. UNION {SliceItems(n, w, i) : i \in Workers} = 0 .. n-1
  <2>1. \A leaf \in 0 .. n-1 : \E i \in Workers : leaf \in SliceItems(n, w, i)
    <3> SUFFICES ASSUME NEW leaf \in 0 .. n-1 PROVE \E i \in Workers : leaf \in SliceItems(n, w, i)
      OBVIOUS
    <3>1. WorkerOf(leaf, bounds, w) \in Workers
      BY <1>1, WorkerOfType DEF Workers
    <3> QED BY <3>1 DEF SliceItems
  <2>2. \A i \in Workers : SliceItems(n, w, i) \subseteq 0 .. n-1
    BY DEF SliceItems
  <2> QED BY <2>1, <2>2
<1> QED BY <1>2, <1>3 DEF SlicesPartition

-----------------------------------------------------------------------------
(* What the workers hand to each other.                                     *)

LEMMA HandsDown == Sizes => HandOffsGoDown
<1> SUFFICES ASSUME Sizes PROVE HandOffsGoDown
  OBVIOUS
<1>1. n \in Nat \ {0} /\ w \in 1 .. n
  BY DEF Sizes
<1>2. Owner(n, w, <<Depth, 0>>) = 0
  BY <1>1, DepthIs, OwnerOfFirst
<1>3. ASSUME NEW nd \in InTree
      PROVE  ParentOwner(n, w, nd) <= Owner(n, w, nd) /\ Owner(n, w, Parent(nd)) = ParentOwner(n, w, nd)
  <2> DEFINE l == Lvl(nd)
             pos == Pos(nd)
             even == pos - (pos % 2)
  <2>1. nd = <<l, pos>> /\ l \in Nat /\ pos \in Nat
    BY TreeNode
  <2>2. ParentOwner(n, w, nd) = Owner(n, w, <<l, even>>)
    BY DEF ParentOwner
  <2> HIDE DEF l, pos
  <2>3. even \in Nat /\ even <= pos
    BY <2>1
  <2> HIDE DEF even
  <2>4. Owner(n, w, <<l, even>>) <= Owner(n, w, <<l, pos>>)
    BY <1>1, <2>1, <2>3, OwnersAscend
  <2>5. Owner(n, w, Parent(<<l, pos>>)) = ParentOwner(n, w, <<l, pos>>)
    BY <1>1, <2>1, ParentKeepsOwner
  <2> QED BY <2>1, <2>2, <2>4, <2>5
<1> QED BY <1>2, <1>3 DEF HandOffsGoDown

(* Of two nodes of a level that one worker owns, everything in between is its  *)
(* own, the even child beside the later one included.                        *)
LEMMA FewHands == Sizes => FewHandOffs
<1> SUFFICES ASSUME Sizes PROVE FewHandOffs
  OBVIOUS
<1>1. n \in Nat \ {0} /\ w \in 1 .. n /\ w \in Nat \ {0}
  BY DEF Sizes
<1>2. ASSUME NEW i \in Workers, NEW nd \in ShippedNodes(n, w, Depth, i)
      PROVE  /\ nd = <<Lvl(nd), Pos(nd)>> /\ Lvl(nd) \in Nat /\ Pos(nd) \in Nat /\ Pos(nd) % 2 = 1
             /\ Owner(n, w, <<Lvl(nd), Pos(nd)>>) = i
             /\ Owner(n, w, <<Lvl(nd), Pos(nd) - 1>>) # i
  <2>1. nd \in InTree /\ ~IsEven(nd) /\ Owner(n, w, nd) = i /\ ParentOwner(n, w, nd) # i
    BY DEF ShippedNodes, InTree, Nodes
  <2>2. nd = <<Lvl(nd), Pos(nd)>> /\ Lvl(nd) \in Nat /\ Pos(nd) \in Nat
    BY <2>1, TreeNode
  <2>3. Pos(nd) % 2 = 1
    BY <2>1, <2>2 DEF IsEven
  <2> QED BY <2>1, <2>2, <2>3 DEF ParentOwner
<1>3. ASSUME NEW i \in Workers, NEW l \in Nat, NEW p \in Nat, NEW q \in Nat, p < q, p % 2 = 1, q % 2 = 1,
             Owner(n, w, <<l, p>>) = i, Owner(n, w, <<l, q>>) = i, Owner(n, w, <<l, q - 1>>) # i
      PROVE  FALSE
  <2>1. q - 1 \in Nat /\ p <= q - 1 /\ q - 1 <= q
    BY <1>3
  <2>2. Owner(n, w, <<l, p>>) <= Owner(n, w, <<l, q - 1>>)
    BY <1>1, <2>1, OwnersAscend
  <2>3. Owner(n, w, <<l, q - 1>>) <= Owner(n, w, <<l, q>>)
    BY <1>1, <2>1, OwnersAscend
  <2>4. Owner(n, w, <<l, q - 1>>) \in Int /\ i \in Int
    BY <1>1, WorkerOfType DEF Owner, Workers
  <2> QED BY <1>3, <2>2, <2>3, <2>4
<1>4. ASSUME NEW i \in Workers, NEW a \in ShippedNodes(n, w, Depth, i), NEW b \in ShippedNodes(n, w, Depth, i),
             Lvl(a) = Lvl(b)
      PROVE  a = b
  <2> DEFINE l == Lvl(a)
             p == Pos(a)
             q == Pos(b)
  <2>1. /\ a = <<l, p>> /\ l \in Nat /\ p \in Nat /\ p % 2 = 1
        /\ Owner(n, w, <<l, p>>) = i /\ Owner(n, w, <<l, p - 1>>) # i
    BY <1>2, Zenon
  <2>2. /\ b = <<Lvl(b), q>> /\ q \in Nat /\ q % 2 = 1
        /\ Owner(n, w, <<Lvl(b), q>>) = i /\ Owner(n, w, <<Lvl(b), q - 1>>) # i
    BY <1>2, Zenon
  <2>3. Lvl(b) = l
    BY <1>4
  <2> HIDE DEF l, p, q
  <2>4. ~(p < q)
    BY <1>3, <2>1, <2>2, <2>3, Zenon
  <2>5. ~(q < p)
    BY <1>3, <2>1, <2>2, <2>3, Zenon
  <2>6. p = q
    BY <2>1, <2>2, <2>4, <2>5
  <2> QED BY <2>1, <2>2, <2>3, <2>6
<1> QED BY <1>4 DEF FewHandOffs

-----------------------------------------------------------------------------
(* The lifelines.                                                          *)

LEMMA FlipsBack ==
  ASSUME NEW i \in Nat, NEW k \in Nat, FlipBit(i, k) \in Nat
  PROVE  FlipBit(FlipBit(i, k), k) = i /\ FlipBit(i, k) # i
<1> DEFINE P == 2^k
           q == i \div P
<1>1. P \in Nat \ {0}
  BY PowNat, PowPos
<1>2. q \in Int /\ P * q <= i /\ i < P * q + P
  BY <1>1
<1>3. FlipBit(i, k) = IF q % 2 = 0 THEN i + P ELSE i - P
  BY DEF FlipBit
<1>4. \A j \in Int : FlipBit(j, k) = IF (j \div P) % 2 = 0 THEN j + P ELSE j - P
  BY DEF FlipBit
<1> HIDE DEF q, P
<1>5. ASSUME NEW j \in Int, NEW c \in Int, P * c <= j, j < P * c + P
      PROVE  j \div P = c
  <2> DEFINE d == j \div P
  <2>1. d \in Int /\ P * d <= j /\ j < P * d + P
    BY <1>1
  <2> HIDE DEF d
  <2>2. d <= c
    <3>1. SUFFICES ASSUME d >= c + 1 PROVE FALSE
      BY <2>1
    <3>2. P * d >= P * (c + 1)
      BY <1>1, <2>1, <3>1
    <3>3. P * (c + 1) = P * c + P
      BY <1>1
    <3> QED BY <1>1, <1>5, <2>1, <3>2, <3>3
  <2>3. c <= d
    <3>1. SUFFICES ASSUME c >= d + 1 PROVE FALSE
      BY <2>1
    <3>2. P * c >= P * (d + 1)
      BY <1>1, <2>1, <3>1
    <3>3. P * (d + 1) = P * d + P
      BY <1>1, <2>1
    <3> QED BY <1>1, <1>5, <2>1, <3>2, <3>3
  <2> QED BY <2>1, <2>2, <2>3 DEF d
<1>6. CASE q % 2 = 0
  <2>1. P * (q + 1) = P * q + P
    BY <1>1, <1>2
  <2>2. i + P \in Int /\ q + 1 \in Int /\ P * (q + 1) <= i + P /\ i + P < P * (q + 1) + P
    BY <1>1, <1>2, <2>1
  <2>3. (i + P) \div P = q + 1
    BY <1>5, <2>2
  <2>4. ~((q + 1) % 2 = 0)
    BY <1>2, <1>6
  <2>5. FlipBit(i + P, k) = (i + P) - P
    BY <1>4, <2>2, <2>3, <2>4
  <2> QED BY <1>1, <1>3, <1>6, <2>5
<1>7. CASE ~(q % 2 = 0)
  <2>1. P * (q - 1) = P * q - P
    BY <1>1, <1>2
  <2>2. i - P \in Int /\ q - 1 \in Int /\ P * (q - 1) <= i - P /\ i - P < P * (q - 1) + P
    BY <1>1, <1>2, <2>1
  <2>3. (i - P) \div P = q - 1
    BY <1>5, <2>2
  <2>4. (q - 1) % 2 = 0
    BY <1>2, <1>7
  <2>5. FlipBit(i - P, k) = (i - P) + P
    BY <1>4, <2>2, <2>3, <2>4
  <2> QED BY <1>1, <1>3, <1>7, <2>5
<1> QED BY <1>6, <1>7

LEMMA LifelinesAreMutual ==
  ASSUME Sizes, NEW i \in Workers, NEW j \in LifelineNeighbors(i, w)
  PROVE  i \in LifelineNeighbors(j, w) /\ i # j
<1> DEFINE K == {e \in 0 .. w : 2^e < w}
<1>1. PICK k \in K : j = FlipBit(i, k)
  BY DEF LifelineNeighbors
<1>2. j \in Nat /\ i \in Nat /\ i \in 0 .. w-1 /\ k \in Nat
  BY DEF LifelineNeighbors, Workers
<1>3. FlipBit(j, k) = i /\ j # i
  BY <1>1, <1>2, FlipsBack
<1> QED BY <1>1, <1>2, <1>3 DEF LifelineNeighbors

(* The number of the k-th lifeline is below the number of halvings.           *)
LEMMA LifelineLevels ==
  ASSUME NEW W \in Nat \ {0}
  PROVE  {e \in 0 .. W : 2^e < W} = 0 .. Log2Up(W) - 1
<1> DEFINE d == Log2Up(W)
<1>1. d \in 0 .. W /\ d \in Nat /\ 2^d >= W /\ \A c \in 0 .. d - 1 : 2^c < W
  BY Log2UpIs
<1> HIDE DEF d
<1>2. ASSUME NEW e \in 0 .. W, 2^e < W PROVE e \in 0 .. d-1
  <2>1. IsRootLevel(W, d)
    BY <1>1, RootLevelIff
  <2>2. ~IsRootLevel(W, e)
    <3>1. 2^e \in Nat
      BY PowNat
    <3> QED BY <1>2, <3>1, RootLevelIff
  <2>3. SUFFICES ASSUME e >= d PROVE FALSE
    BY <1>1
  <2>4. IsRootLevel(W, e)
    BY <1>1, <2>1, <2>3, RootStays
  <2> QED BY <2>2, <2>4
<1>3. 0 .. d-1 \subseteq 0 .. W
  BY <1>1
<1>4. \A e \in 0 .. d-1 : e \in 0 .. W /\ 2^e < W
  BY <1>1, <1>3
<1> QED BY <1>2, <1>4 DEF d

(* What Reach's recursion defines exists; if not, there were a first step at   *)
(* which it did not.                                                        *)
Further(s) == s \cup UNION {LifelineNeighbors(i, w) : i \in s}
IsReach(k, f) == f = [j \in 0 .. k |-> IF j = 0 THEN {0} ELSE Further(f[j-1])]

LEMMA ReachIs ==
  ASSUME NEW n0 \in Nat
  PROVE  \E f : Reach(n0) = f[n0] /\ \A j \in 0 .. n0 : f[j] = IF j = 0 THEN {0} ELSE Further(f[j-1])
<1> DEFINE T == {k \in Nat : ~ \E f : IsReach(k, f)}
<1>1. T = {}
  <2>1. SUFFICES ASSUME T # {} PROVE FALSE
    OBVIOUS
  <2>2. PICK k \in T : \A other \in T : k <= other
    <3>1. T \subseteq Nat
      OBVIOUS
    <3> HIDE DEF T
    <3> QED BY <2>1, <3>1, Least
  <2>3. k \in Nat /\ ~ \E f : IsReach(k, f)
    OBVIOUS
  <2>4. k # 0
    <3> DEFINE f == [j \in 0 .. 0 |-> {0}]
    <3>1. IsReach(0, f)
      BY DEF IsReach
    <3> QED BY <3>1, <2>3
  <2>5. k-1 \in Nat /\ k-1 \notin T
    <3> HIDE DEF T
    <3> QED BY <2>2, <2>3, <2>4
  <2>6. PICK f : IsReach(k-1, f)
    BY <2>5
  <2> DEFINE g == [j \in 0 .. k |-> IF j < k THEN f[j] ELSE Further(f[k-1])]
  <2>7. \A j \in 0 .. k-1 : f[j] = IF j = 0 THEN {0} ELSE Further(f[j-1])
    BY <2>6 DEF IsReach
  <2>8. \A j \in 0 .. k : g[j] = IF j = 0 THEN {0} ELSE Further(g[j-1])
    <3> SUFFICES ASSUME NEW j \in 0 .. k PROVE g[j] = IF j = 0 THEN {0} ELSE Further(g[j-1])
      OBVIOUS
    <3>1. CASE j = 0
      BY <3>1, <2>3, <2>4, <2>5, <2>7
    <3>2. CASE j # 0
      <4>1. j-1 \in 0 .. k-1 /\ j-1 \in 0 .. k /\ j-1 < k
        BY <3>2, <2>3
      <4>2. g[j-1] = f[j-1]
        BY <4>1
      <4>3. CASE j = k
        BY <3>2, <4>2, <4>3
      <4>4. CASE j < k
        <5>1. j \in 0 .. k-1
          BY <4>4, <2>3
        <5> QED BY <3>2, <4>2, <4>4, <5>1, <2>7
      <4> QED BY <4>3, <4>4, <2>3
    <3> QED BY <3>1, <3>2
  <2>9. IsReach(k, g)
    <3>1. g = [j \in 0 .. k |-> g[j]]
      OBVIOUS
    <3> HIDE DEF g
    <3> QED BY <2>8, <3>1 DEF IsReach
  <2> QED BY <2>3, <2>9
<1>2. \E f : IsReach(n0, f)
  BY <1>1
<1> DEFINE step == CHOOSE f : IsReach(n0, f)
<1>3. IsReach(n0, step)
  BY <1>2
<1>4. Reach(n0) = step[n0]
  BY DEF Reach, IsReach, Further
<1> HIDE DEF step
<1>5. \A j \in 0 .. n0 : step[j] = IF j = 0 THEN {0} ELSE Further(step[j-1])
  BY <1>3 DEF IsReach
<1> QED BY <1>4, <1>5

(* After j hops worker 0 has reached every worker below 2^j: the last hop to   *)
(* i + 2^j is a lifeline of i.                                              *)
LEMMA HopsDouble == Sizes => Reach(Log2Up(w)) = Workers
<1> SUFFICES ASSUME Sizes PROVE Reach(Log2Up(w)) = Workers
  OBVIOUS
<1> DEFINE d == Log2Up(w)
<1>1. w \in Nat \ {0}
  BY DEF Sizes
<1>2. d \in 0 .. w /\ d \in Nat /\ 2^d >= w /\ \A c \in 0 .. d - 1 : 2^c < w
  BY <1>1, Log2UpIs
<1> HIDE DEF d
<1>3. PICK f : Reach(d) = f[d] /\ \A j \in 0 .. d : f[j] = IF j = 0 THEN {0} ELSE Further(f[j-1])
  BY <1>2, ReachIs
<1> DEFINE Near(j) == f[j] \subseteq Workers /\ \A i \in Workers : i < 2^j => i \in f[j]
           T == {j \in Nat : j <= d /\ ~Near(j)}
<1>4. T = {}
  <2>1. SUFFICES ASSUME T # {} PROVE FALSE
    OBVIOUS
  <2>2. PICK j \in T : \A other \in T : j <= other
    <3>1. T \subseteq Nat
      OBVIOUS
    <3> HIDE DEF T
    <3> QED BY <2>1, <3>1, Least
  <2>3. j \in Nat /\ j <= d /\ ~Near(j)
    OBVIOUS
  <2>4. j # 0
    <3>1. f[0] = {0}
      BY <1>2, <1>3
    <3>2. 2^0 = 1
      OBVIOUS
    <3>3. 0 \in Workers /\ \A i \in Workers : i < 1 => i = 0
      BY <1>1 DEF Workers
    <3>4. Near(0)
      BY <3>1, <3>2, <3>3
    <3> QED BY <2>3, <3>4
  <2> DEFINE h == j-1
  <2>5. h \in Nat /\ h < j /\ h+1 = j /\ h <= d /\ h \in 0 .. d-1
    BY <1>2, <2>3, <2>4
  <2>6. f[j] = Further(f[h])
    BY <1>2, <1>3, <2>3, <2>4
  <2> HIDE DEF h
  <2>7. Near(h)
    <3>1. h \notin T
      <4> HIDE DEF T
      <4> QED BY <2>2, <2>3, <2>5
    <3> QED BY <2>5, <3>1
  <2>8. f[j] \subseteq Workers
    <3>1. \A i \in Workers : LifelineNeighbors(i, w) \subseteq Workers
      BY DEF LifelineNeighbors, Workers
    <3> QED BY <2>6, <2>7, <3>1 DEF Further
  <2>9. ASSUME NEW i \in Workers, i < 2^j PROVE i \in f[j]
    <3> DEFINE P == 2^h
    <3>1. P \in Nat \ {0} /\ 2^j = 2 * P
      BY <2>5, PowNat, PowPos, PowStep
    <3>2. P < w
      BY <1>2, <2>5
    <3>3. CASE i < P
      BY <2>6, <2>7, <3>3 DEF Further
    <3>4. CASE i >= P
      <4> DEFINE near == i - P
      <4>1. i \in Nat /\ i < w
        BY <1>1 DEF Workers
      <4>2. near \in Nat /\ near < P /\ near \in 0 .. w-1 /\ i = near + P
        <5> HIDE DEF P
        <5> QED BY <1>1, <2>9, <3>1, <3>4, <4>1
      <4>3. near \in f[h]
        BY <2>7, <4>2 DEF Workers
      <4>4. near \div P = 0
        <5> HIDE DEF P, near
        <5> QED BY <3>1, <4>2
      <4>5. FlipBit(near, h) = near + P
        BY <4>4 DEF FlipBit
      <4>6. h \in {e \in 0 .. w : 2^e < w}
        BY <1>1, <1>2, <2>5, <3>2
      <4>7. i \in LifelineNeighbors(near, w)
        BY <4>2, <4>5, <4>6 DEF LifelineNeighbors, Workers
      <4> QED BY <2>6, <4>3, <4>7 DEF Further
    <3>5. i \in Int /\ P \in Int
      BY <3>1 DEF Workers
    <3> HIDE DEF P
    <3> QED BY <3>3, <3>4, <3>5
  <2>10. Near(j)
    BY <2>8, <2>9
  <2> QED BY <2>3, <2>10
<1>5. Near(d)
  BY <1>2, <1>4
<1>6. \A i \in Workers : i < 2^d
  <2>1. 2^d \in Nat
    BY <1>2, PowNat
  <2> QED BY <1>1, <1>2, <2>1 DEF Workers
<1> QED BY <1>3, <1>5, <1>6 DEF d

(* A set that a numbering 0 .. m-1 of something maps onto has at most m.       *)
LEMMA AtMost ==
  ASSUME NEW S, NEW m \in Nat, NEW f, DOMAIN f \subseteq 0 .. m-1,
         \A x \in S : \E k \in DOMAIN f : f[k] = x
  PROVE  IsFiniteSet(S) /\ Cardinality(S) <= m /\ Cardinality(S) \in Nat
<1> DEFINE K == {k \in DOMAIN f : f[k] \in S}
           g == [k \in K |-> f[k]]
<1>1. g \in Surjection(K, S)
  <2>1. g \in [K -> S]
    OBVIOUS
  <2>2. \A x \in S : \E k \in K : g[k] = x
    OBVIOUS
  <2> QED BY <2>1, <2>2 DEF Surjection
<1>2. IsFiniteSet(0 .. m-1) /\ Cardinality(0 .. m-1) = m
  <2>1. 0 \in Int /\ m - 1 \in Int
    OBVIOUS
  <2>2. IsFiniteSet(0 .. m-1) /\ Cardinality(0 .. m-1) = IF 0 > m-1 THEN 0 ELSE (m-1) - 0 + 1
    BY <2>1, FS_Interval, Zenon
  <2> QED BY <2>2
<1>3. K \subseteq 0 .. m-1
  OBVIOUS
<1> HIDE DEF K, g
<1>4. IsFiniteSet(K) /\ Cardinality(K) <= m /\ Cardinality(K) \in Nat
  BY <1>2, <1>3, FS_Subset, FS_CardinalityType
<1>5. IsFiniteSet(S) /\ Cardinality(S) <= Cardinality(K)
  BY <1>1, <1>4, FS_Surjection
<1> QED BY <1>4, <1>5, FS_CardinalityType

LEMMA OutboxIsSmall ==
  ASSUME Sizes, NEW i \in Workers
  PROVE  Cardinality(WorkerOutbox(n, w, Depth, i)) <= Log2Up(w) + Log2Up(n)
<1> DEFINE edges == ReductionEdges(n, w, Depth, i)
           lines == LifelineNeighbors(i, w)
           shipped == ShippedNodes(n, w, Depth, i)
           lw == Log2Up(w)
           ln == Log2Up(n)
<1>1. n \in Nat \ {0} /\ w \in Nat \ {0}
  BY DEF Sizes
<1>2. lw \in Nat /\ ln \in Nat /\ Depth = ln
  BY <1>1, Log2UpIs DEF Depth
<1>3. IsFiniteSet(lines) /\ Cardinality(lines) <= lw /\ Cardinality(lines) \in Nat
  <2> DEFINE f == [k \in 0 .. lw - 1 |-> FlipBit(i, k)]
  <2>1. \A x \in lines : \E k \in DOMAIN f : f[k] = x
    <3>1. {e \in 0 .. w : 2^e < w} = 0 .. lw - 1
      BY <1>1, LifelineLevels
    <3> QED BY <3>1 DEF LifelineNeighbors
  <2>2. DOMAIN f \subseteq 0 .. lw - 1
    OBVIOUS
  <2> HIDE DEF f, lines, lw
  <2> QED BY <1>2, <2>1, <2>2, AtMost
<1>4. IsFiniteSet(edges) /\ Cardinality(edges) <= ln /\ Cardinality(edges) \in Nat
  <2> DEFINE At(l) == CHOOSE nd \in shipped : Lvl(nd) = l
             f == [l \in 0 .. ln - 1 |-> ParentOwner(n, w, At(l))]
  <2>1. \A nd \in shipped : Lvl(nd) \in 0 .. ln - 1
    <3> SUFFICES ASSUME NEW nd \in shipped PROVE Lvl(nd) \in 0 .. ln - 1
      OBVIOUS
    <3>1. nd \in InTree
      BY DEF ShippedNodes, InTree, Nodes
    <3> QED BY <1>2, <3>1, TreeNode
  <2>2. \A nd \in shipped : At(Lvl(nd)) = nd
    <3> SUFFICES ASSUME NEW nd \in shipped PROVE At(Lvl(nd)) = nd
      OBVIOUS
    <3>1. \A a, b \in shipped : Lvl(a) = Lvl(b) => a = b
      BY FewHands DEF FewHandOffs
    <3> HIDE DEF shipped
    <3>2. At(Lvl(nd)) \in shipped /\ Lvl(At(Lvl(nd))) = Lvl(nd)
      OBVIOUS
    <3> QED BY <3>1, <3>2
  <2>3. \A x \in edges : \E l \in DOMAIN f : f[l] = x
    <3> SUFFICES ASSUME NEW x \in edges PROVE \E l \in DOMAIN f : f[l] = x
      OBVIOUS
    <3>1. PICK nd \in shipped : x = ParentOwner(n, w, nd)
      BY DEF ReductionEdges
    <3> HIDE DEF At, shipped, ln
    <3> QED BY <2>1, <2>2, <3>1
  <2>4. DOMAIN f \subseteq 0 .. ln - 1
    OBVIOUS
  <2> HIDE DEF f, edges, ln
  <2> QED BY <1>2, <2>3, <2>4, AtMost
<1> HIDE DEF edges, lines, lw, ln
<1> DEFINE both == edges \cup lines
<1>5. /\ IsFiniteSet(both) /\ IsFiniteSet(edges \cap lines)
      /\ Cardinality(both) = Cardinality(edges) + Cardinality(lines) - Cardinality(edges \cap lines)
  BY <1>3, <1>4, FS_Union, FS_Intersection
<1>6. Cardinality(edges \cap lines) \in Nat /\ Cardinality(both) \in Nat
  BY <1>5, FS_CardinalityType
<1>7. Cardinality(both) <= lw + ln
  BY <1>2, <1>3, <1>4, <1>5, <1>6
<1>8. WorkerOutbox(n, w, Depth, i) \in SUBSET both
  BY DEF WorkerOutbox, edges, lines
<1> HIDE DEF both
<1>9. /\ IsFiniteSet(WorkerOutbox(n, w, Depth, i))
      /\ Cardinality(WorkerOutbox(n, w, Depth, i)) <= Cardinality(both)
  BY <1>5, <1>8, FS_Subset
<1>10. Cardinality(WorkerOutbox(n, w, Depth, i)) \in Nat
  BY <1>9, FS_CardinalityType
<1>11. Cardinality(WorkerOutbox(n, w, Depth, i)) <= lw + ln
  BY <1>2, <1>6, <1>7, <1>9, <1>10
<1> QED BY <1>11 DEF lw, ln

LEMMA OverlayIsFine == Sizes => OverlayIsSmallAndConnected
<1> SUFFICES ASSUME Sizes PROVE OverlayIsSmallAndConnected
  OBVIOUS
<1>1. \A i \in Workers : \A j \in LifelineNeighbors(i, w) : i \in LifelineNeighbors(j, w) /\ i # j
  BY LifelinesAreMutual
<1>2. Reach(Log2Up(w)) = Workers
  BY HopsDouble
<1>3. \A i \in Workers : Cardinality(WorkerOutbox(n, w, Depth, i)) <= Log2Up(w) + Log2Up(n)
  BY OutboxIsSmall
<1> QED BY <1>1, <1>2, <1>3 DEF OverlayIsSmallAndConnected

-----------------------------------------------------------------------------
(* The tree of every plan halves down to one root and loses no leaf.         *)
THEOREM EveryTreeIsSound == Spec => []TreeIsSound
BY SizesHold, SoundTree, PTL

(* plan_tree and the index arithmetic describe the same tree, whatever the    *)
(* number of leaves: what the hub combines is what the peers combine.        *)
THEOREM EveryPlanTreeAgrees == Spec => []PlanTreeAgrees
BY SizesHold, PlanAgrees, PTL

(* The workers' slices are the leaves, each once, in shares that differ by at  *)
(* most one.                                                                *)
THEOREM SlicesAlwaysPartition == Spec => []SlicesPartition
BY SizesHold, SlicesPart, PTL

(* No two workers wait for partials of each other: hand-offs go down.         *)
THEOREM HandOffsAlwaysGoDown == Spec => []HandOffsGoDown
BY SizesHold, HandsDown, PTL

(* A worker ships at most one node of each level of the tree.                 *)
THEOREM HandOffsAreFew == Spec => []FewHandOffs
BY SizesHold, FewHands, PTL

(* The pinned pool's overlay is mutual, connects every worker to worker 0 in   *)
(* log2(w) hops, and no worker's outbox outgrows log2(w) + log2(n) peers.     *)
THEOREM OverlayStaysSmallAndConnected == Spec => []OverlayIsSmallAndConnected
BY SizesHold, OverlayIsFine, PTL
=============================================================================
