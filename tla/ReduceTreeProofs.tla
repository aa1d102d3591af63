------------------------- MODULE ReduceTreeProofs -------------------------
(***************************************************************************)
(* Facts about the combine tree that the proofs about the reducers rest on. *)
(***************************************************************************)
EXTENDS ReduceTree, PlanTree, FiniteSetTheorems, SequenceTheorems, TLAPS

-----------------------------------------------------------------------------
(* Powers of two.                                                          *)

(* 2^l counts the subsets of an l-element set: the prover knows nothing else *)
(* about powers, and 1 << level is one everywhere in the code.              *)
LEMMA PowNat == \A l \in Nat : 2^l \in Nat
<1> TAKE l \in Nat
<1>1. IsFiniteSet(1..l) /\ Cardinality(1..l) = l
  BY FS_Interval
<1>2. IsFiniteSet(SUBSET (1..l)) /\ Cardinality(SUBSET (1..l)) = 2^l
  BY <1>1, FS_SUBSET
<1> QED BY <1>2, FS_CardinalityType

(* Shifting by one level more doubles.                                     *)
LEMMA PowStep == \A l \in Nat : 2^(l+1) = 2 * 2^l
<1> TAKE l \in Nat
<1> DEFINE S == 1..l
           T == 1..(l+1)
           Old == SUBSET S
           New == {s \cup {l+1} : s \in Old}
<1>1. IsFiniteSet(S) /\ Cardinality(S) = l /\ IsFiniteSet(T) /\ Cardinality(T) = l+1
  BY FS_Interval
<1>2. IsFiniteSet(Old) /\ Cardinality(Old) = 2^l
  BY <1>1, FS_SUBSET
<1>3. IsFiniteSet(SUBSET T) /\ Cardinality(SUBSET T) = 2^(l+1)
  BY <1>1, FS_SUBSET
<1>4. SUBSET T = Old \cup New
  <2>1. \A t \in SUBSET T : t \in Old \cup New
    <3> TAKE t \in SUBSET T
    <3>1. CASE l+1 \in t
      <4>1. t \ {l+1} \in Old
        OBVIOUS
      <4>2. t = (t \ {l+1}) \cup {l+1}
        BY <3>1
      <4> QED BY <4>1, <4>2
    <3>2. CASE l+1 \notin t
      BY <3>2
    <3> QED BY <3>1, <3>2
  <2>2. S \subseteq T /\ l+1 \in T
    OBVIOUS
  <2>3. Old \cup New \subseteq SUBSET T
    <3> HIDE DEF S, T
    <3> QED BY <2>2
  <2> QED BY <2>1, <2>3
<1>5. Old \cap New = {}
  OBVIOUS
<1>6. ExistsBijection(Old, New)
  <2> DEFINE f == [s \in Old |-> s \cup {l+1}]
  <2>1. \A a, b \in Old : a \cup {l+1} = b \cup {l+1} => a = b
    <3> SUFFICES ASSUME NEW a \in Old, NEW b \in Old, a \cup {l+1} = b \cup {l+1}
                 PROVE a = b
      OBVIOUS
    <3>1. l+1 \notin a /\ l+1 \notin b
      OBVIOUS
    <3>2. a = (a \cup {l+1}) \ {l+1}
      BY <3>1
    <3>3. b = (b \cup {l+1}) \ {l+1}
      BY <3>1
    <3> QED BY <3>2, <3>3
  <2> HIDE DEF S
  <2>2. f \in [Old -> New]
    OBVIOUS
  <2>3. \A a, b \in DOMAIN f : f[a] = f[b] => a = b
    BY <2>1
  <2>4. \A t \in New : \E s \in Old : f[s] = t
    OBVIOUS
  <2>5. f \in Bijection(Old, New)
    <3> HIDE DEF f, Old, New
    <3> QED BY <2>2, <2>3, <2>4 DEF Bijection, Injection, Surjection, IsInjective
  <2> QED BY <2>5 DEF ExistsBijection
<1>7. IsFiniteSet(New) /\ Cardinality(New) = 2^l
  BY <1>2, <1>6, FS_Bijection
<1>8. Cardinality(Old \cup New) = Cardinality(Old) + Cardinality(New) - Cardinality(Old \cap New)
  BY <1>2, <1>7, FS_Union
<1>9. Cardinality(Old \cap New) = 0
  BY <1>5, FS_EmptySet
<1>10. 2^l \in Nat
  BY PowNat
<1>11. 2^(l+1) = 2^l + 2^l - 0
  BY <1>2, <1>3, <1>4, <1>7, <1>8, <1>9
<1> QED BY <1>10, <1>11

(* A power of two is positive.                                             *)
LEMMA PowPos == \A l \in Nat : 2^l > 0
<1> TAKE l \in Nat
<1>1. IsFiniteSet(1..l) /\ Cardinality(1..l) = l
  BY FS_Interval
<1>2. IsFiniteSet(SUBSET (1..l)) /\ Cardinality(SUBSET (1..l)) = 2^l
  BY <1>1, FS_SUBSET
<1>3. {} \in SUBSET (1..l)
  OBVIOUS
<1>4. Cardinality(SUBSET (1..l)) # 0
  BY <1>2, <1>3, FS_EmptySet
<1> QED BY <1>2, <1>4, PowNat

-----------------------------------------------------------------------------
(* Levels.                                                                 *)

(* Rounding up in two steps is rounding up in one.                          *)
LEMMA HalfOfCeiling ==
  ASSUME NEW P \in Nat \ {0}, NEW M \in Nat \ {0}
  PROVE  (M + 2*P - 1) \div (2*P) = (((M + P - 1) \div P) + 1) \div 2
<1> DEFINE a == (M + P - 1) \div P
           c == (M + 2*P - 1) \div (2*P)
<1>1. a \in Int /\ P * a <= M + P - 1 /\ M + P - 1 < P * a + P
  OBVIOUS
<1>2. c \in Int /\ (2*P) * c <= M + 2*P - 1 /\ M + 2*P - 1 < (2*P) * c + 2*P
  OBVIOUS
<1> HIDE DEF a, c
<1>3. 2*c <= a+1
  <2>1. SUFFICES ASSUME a+1 < 2*c PROVE FALSE
    BY <1>1, <1>2
  <2>2. a + 2 <= 2*c
    BY <2>1, <1>1, <1>2
  <2>3. P*(a+2) <= P*(2*c)
    BY <2>2, <1>1, <1>2
  <2> QED BY <2>3, <1>1, <1>2
<1>4. a <= 2*c
  <2>1. SUFFICES ASSUME 2*c+1 <= a PROVE FALSE
    BY <1>1, <1>2
  <2>2. P*(2*c+1) <= P*a
    BY <2>1, <1>1, <1>2
  <2> QED BY <2>2, <1>1, <1>2
<1> QED BY <1>3, <1>4, <1>1, <1>2 DEF a, c

(* Every level has half as many nodes as the one below, rounded up, and at   *)
(* least one.                                                              *)
LEMMA LevelHalves ==
  ASSUME NEW n \in Nat \ {0}, NEW lvl \in Nat
  PROVE  /\ LevelSize(n, lvl) \in Nat \ {0}
         /\ LevelSize(n, lvl+1) = (LevelSize(n, lvl) + 1) \div 2
<1> DEFINE P == 2^lvl
<1>1. P \in Nat \ {0} /\ 2^(lvl+1) = 2*P
  BY PowNat, PowPos, PowStep
<1> HIDE DEF P
<1>2. (n + P - 1) \div P \in Nat \ {0}
  <2> DEFINE a == (n + P - 1) \div P
  <2>1. a \in Int /\ n + P - 1 < P * a + P
    BY <1>1
  <2> HIDE DEF a
  <2>2. P * a > 0
    BY <2>1, <1>1
  <2>3. a > 0
    <3>1. SUFFICES ASSUME a <= 0 PROVE FALSE
      BY <2>1
    <3>2. P * a <= P * 0
      BY <3>1, <2>1, <1>1
    <3> QED BY <3>2, <2>2, <2>1, <1>1
  <2> QED BY <2>1, <2>3 DEF a
<1>3. (n + 2*P - 1) \div (2*P) = (((n + P - 1) \div P) + 1) \div 2
  BY <1>1, HalfOfCeiling
<1> QED BY <1>1, <1>2, <1>3 DEF LevelSize, P

(* The parent of a node below the root level is a node of the next level.    *)
LEMMA ParentOnNextLevel ==
  ASSUME NEW n \in Nat \ {0}, NEW lvl \in Nat, NEW pos \in Nat,
         pos < LevelSize(n, lvl)
  PROVE  pos \div 2 \in Nat /\ pos \div 2 <= pos /\ pos \div 2 < LevelSize(n, lvl+1)
<1>1. LevelSize(n, lvl) \in Nat \ {0} /\ LevelSize(n, lvl+1) = (LevelSize(n, lvl) + 1) \div 2
  BY LevelHalves
<1> QED BY <1>1

-----------------------------------------------------------------------------
(* The leaves under a node.                                                *)

(* The prover has no induction: what follows goes by a least counterexample. *)
LEMMA Least ==
  ASSUME NEW T, T \subseteq Nat, T # {}
  PROVE  \E x \in T : \A y \in T : x <= y
<1> DEFINE R == {ss \in Nat \X Nat : ss[1] < ss[2]}
<1>1. IsWellFoundedOn(R, Nat)
  BY NatLessThanWellFounded DEF OpToRel
<1>2. PICK x \in T : \A y \in T : ~ (<<y, x>> \in R)
  <2> HIDE DEF R
  <2> QED BY <1>1, WFMin
<1>3. \A y \in T : ~ (y < x)
  BY <1>2
<1> QED BY <1>3

(* Dividing twice is dividing once.                                         *)
LEMMA HalfOfQuotient ==
  ASSUME NEW P \in Nat \ {0}, NEW x \in Nat
  PROVE  x \div P \in Nat /\ x \div (2*P) = (x \div P) \div 2
<1> DEFINE a == x \div P
           c == x \div (2*P)
<1>1. a \in Int /\ P*a <= x /\ x < P*a + P
  OBVIOUS
<1>2. c \in Int /\ (2*P)*c <= x /\ x < (2*P)*c + 2*P
  OBVIOUS
<1> HIDE DEF a, c
<1>3. a >= 0
  <2>1. SUFFICES ASSUME a <= -1 PROVE FALSE
    BY <1>1
  <2>2. P*a <= P*(-1)
    BY <2>1, <1>1
  <2> QED BY <2>2, <1>1
<1>4. 2*c <= a
  <2>1. SUFFICES ASSUME a+1 <= 2*c PROVE FALSE
    BY <1>1, <1>2
  <2>2. P*(a+1) <= P*(2*c)
    BY <2>1, <1>1, <1>2
  <2> QED BY <2>2, <1>1, <1>2
<1>5. a < 2*c+2
  <2>1. SUFFICES ASSUME 2*c+2 <= a PROVE FALSE
    BY <1>1, <1>2
  <2>2. P*(2*c+2) <= P*a
    BY <2>1, <1>1, <1>2
  <2> QED BY <2>2, <1>1, <1>2
<1>6. a \in Nat /\ c = a \div 2
  BY <1>1, <1>2, <1>3, <1>4, <1>5
<1> QED BY <1>6 DEF a, c

(* pos >> 1 of the ancestor of a leaf is its ancestor one level up.          *)
LEMMA AncestorsStep ==
  ASSUME NEW x \in Nat, NEW l \in Nat
  PROVE  x \div 2^l \in Nat /\ x \div 2^(l+1) = (x \div 2^l) \div 2
<1> DEFINE P == 2^l
<1>1. P \in Nat \ {0} /\ 2^(l+1) = 2*P
  BY PowNat, PowPos, PowStep
<1> HIDE DEF P
<1> QED BY <1>1, HalfOfQuotient DEF P

(* Two leaves under one node are under the same node of every level above.   *)
LEMMA SameAncestors ==
  ASSUME NEW j \in Nat, NEW k \in Nat, NEW l \in Nat, NEW m \in Nat, l <= m,
         j \div 2^l = k \div 2^l
  PROVE  j \div 2^m = k \div 2^m
<1> DEFINE T == {i \in Nat : l <= i /\ j \div 2^i # k \div 2^i}
<1>1. SUFFICES T = {}
  OBVIOUS
<1>2. SUFFICES ASSUME T # {} PROVE FALSE
  OBVIOUS
<1>3. PICK i \in T : \A other \in T : i <= other
  <2>1. T \subseteq Nat
    OBVIOUS
  <2> HIDE DEF T
  <2> QED BY <1>2, <2>1, Least
<1>4. i \in Nat /\ l <= i /\ j \div 2^i # k \div 2^i
  OBVIOUS
<1>5. i # l
  BY <1>4
<1> DEFINE h == i-1
<1>6. h \in Nat /\ l <= h /\ h < i /\ h+1 = i
  BY <1>4, <1>5
<1> HIDE DEF h
<1>7. h \notin T
  <2> HIDE DEF T
  <2> QED BY <1>3, <1>4, <1>6
<1>8. j \div 2^h = k \div 2^h
  BY <1>6, <1>7
<1> HIDE DEF T
<1>9. j \div 2^(h+1) = k \div 2^(h+1)
  <2>1. j \div 2^(h+1) = (j \div 2^h) \div 2
    BY <1>6, AncestorsStep
  <2>2. k \div 2^(h+1) = (k \div 2^h) \div 2
    BY <1>6, AncestorsStep
  <2> QED BY <1>8, <2>1, <2>2
<1> QED BY <1>4, <1>6, <1>9

(* Every leaf is under a node of every level.                               *)
LEMMA LeafOnLevel ==
  ASSUME NEW n \in Nat \ {0}, NEW leaf \in 0 .. n-1, NEW lvl \in Nat
  PROVE  leaf \div 2^lvl \in Nat /\ leaf \div 2^lvl < LevelSize(n, lvl)
<1> DEFINE P == 2^lvl
           a == leaf \div P
           c == (n + P - 1) \div P
<1>1. P \in Nat \ {0}
  BY PowNat, PowPos
<1>2. a \in Nat
  BY AncestorsStep
<1> HIDE DEF P
<1>3. a \in Int /\ P*a <= leaf
  BY <1>1
<1>4. c \in Int /\ n + P - 1 < P*c + P
  BY <1>1
<1> HIDE DEF a, c
<1>5. a < c
  <2>1. SUFFICES ASSUME c <= a PROVE FALSE
    BY <1>3, <1>4
  <2>2. P*c <= P*a
    BY <2>1, <1>1, <1>3, <1>4
  <2> QED BY <2>2, <1>1, <1>3, <1>4
<1> QED BY <1>2, <1>5 DEF a, c, P, LevelSize

(* Every node has a leaf under it.                                          *)
LEMMA FirstLeaf ==
  ASSUME NEW n \in Nat \ {0}, NEW lvl \in Nat, NEW pos \in Nat, pos < LevelSize(n, lvl)
  PROVE  pos * 2^lvl \in LeavesUnder(n, <<lvl, pos>>)
<1> DEFINE P == 2^lvl
           c == (n + P - 1) \div P
           first == pos * P
<1>1. P \in Nat \ {0}
  BY PowNat, PowPos
<1>2. pos < c
  BY DEF LevelSize
<1> HIDE DEF P
<1>3. c \in Int /\ P*c <= n + P - 1
  BY <1>1
<1> HIDE DEF c
<1>4. P*(pos+1) <= P*c
  BY <1>1, <1>2, <1>3
<1>5. first \in Nat /\ first < n
  BY <1>1, <1>3, <1>4
<1>6. first \div P = pos
  BY <1>1
<1> HIDE DEF first
<1> QED BY <1>5, <1>6 DEF LeavesUnder, Lvl, Pos, P, first

(* A parent covers what its operands cover: the node and its sibling, or the *)
(* node alone if it is carried up.                                          *)
LEMMA LeavesOfParent ==
  ASSUME NEW n \in Nat \ {0}, NEW lvl \in Nat, NEW pos \in Nat
  PROVE  LET nd == <<lvl, pos>>
         IN  LeavesUnder(n, Parent(nd)) =
               IF Unpaired(n, nd) THEN LeavesUnder(n, nd)
               ELSE LeavesUnder(n, nd) \cup LeavesUnder(n, Sibling(nd))
<1> DEFINE nd == <<lvl, pos>>
           At(leaf) == leaf \div 2^lvl
<1>1. \A leaf \in 0 .. n-1 :
         At(leaf) \in Nat /\ At(leaf) < LevelSize(n, lvl) /\ leaf \div 2^(lvl+1) = At(leaf) \div 2
  BY LeafOnLevel, AncestorsStep
<1>2. LeavesUnder(n, Parent(nd)) = {leaf \in 0 .. n-1 : At(leaf) \div 2 = pos \div 2}
  <2>1. Lvl(Parent(nd)) = lvl+1 /\ Pos(Parent(nd)) = pos \div 2
    BY DEF Parent, Lvl, Pos
  <2> HIDE DEF At, nd
  <2> QED BY <1>1, <2>1 DEF LeavesUnder
<1>3. LeavesUnder(n, nd) = {leaf \in 0 .. n-1 : At(leaf) = pos}
  BY DEF LeavesUnder, Lvl, Pos
<1>4. LeavesUnder(n, Sibling(nd)) =
         {leaf \in 0 .. n-1 : At(leaf) = IF pos % 2 = 0 THEN pos+1 ELSE pos-1}
  BY DEF LeavesUnder, Sibling, IsEven, Lvl, Pos
<1>5. Unpaired(n, nd) <=> pos % 2 = 0 /\ pos+1 >= LevelSize(n, lvl)
  BY DEF Unpaired, IsEven, Lvl, Pos
<1>6. LevelSize(n, lvl) \in Nat
  BY LevelHalves
<1> HIDE DEF nd, At
<1>7. CASE Unpaired(n, nd)
  <2>1. \A leaf \in 0 .. n-1 : At(leaf) \div 2 = pos \div 2 <=> At(leaf) = pos
    BY <1>1, <1>5, <1>6, <1>7
  <2> QED BY <1>2, <1>3, <1>7, <2>1 DEF nd
<1>8. CASE ~Unpaired(n, nd)
  <2>1. \A leaf \in 0 .. n-1 :
          At(leaf) \div 2 = pos \div 2
            <=> At(leaf) = pos \/ At(leaf) = IF pos % 2 = 0 THEN pos+1 ELSE pos-1
    BY <1>1
  <2> QED BY <1>2, <1>3, <1>4, <1>8, <2>1 DEF nd
<1> QED BY <1>7, <1>8 DEF nd

(* Of two nodes with a leaf in common, the lower one is under the higher one. *)
LEMMA Nested ==
  ASSUME NEW n \in Nat \ {0}, NEW l \in Nat, NEW m \in Nat, l <= m, NEW p, NEW q,
         NEW leaf, leaf \in LeavesUnder(n, <<l, p>>), leaf \in LeavesUnder(n, <<m, q>>)
  PROVE  LeavesUnder(n, <<l, p>>) \subseteq LeavesUnder(n, <<m, q>>)
<1>1. SUFFICES ASSUME NEW other \in LeavesUnder(n, <<l, p>>)
               PROVE  other \in LeavesUnder(n, <<m, q>>)
  OBVIOUS
<1>2. leaf \in 0 .. n-1 /\ leaf \div 2^l = p /\ leaf \div 2^m = q
  BY DEF LeavesUnder, Lvl, Pos
<1>3. other \in 0 .. n-1 /\ other \div 2^l = p
  BY DEF LeavesUnder, Lvl, Pos
<1>4. leaf \in Nat /\ other \in Nat
  BY <1>2, <1>3
<1>5. other \div 2^m = leaf \div 2^m
  BY <1>2, <1>3, <1>4, SameAncestors
<1> QED BY <1>2, <1>3, <1>5 DEF LeavesUnder, Lvl, Pos

(* A block under a parent is under one of its operands, or is the parent's.    *)
BlockUnder(n, x, nd, sib, top) ==
  /\ n \in Nat \ {0} /\ Lvl(nd) \in Nat /\ Lvl(x) \in Nat
  /\ nd = <<Lvl(nd), Pos(nd)>> /\ sib = <<Lvl(nd), Pos(sib)>> /\ top = <<Lvl(nd) + 1, Pos(top)>>
  /\ x = <<Lvl(x), Pos(x)>>
  /\ LeavesUnder(n, top) = LeavesUnder(n, nd) \cup LeavesUnder(n, sib)
  /\ LeavesUnder(n, x) # {} /\ LeavesUnder(n, x) \subseteq LeavesUnder(n, top)
UnderOneOf(n, x, nd, sib, top) ==
  \/ LeavesUnder(n, x) \subseteq LeavesUnder(n, nd)
  \/ LeavesUnder(n, x) \subseteq LeavesUnder(n, sib)
  \/ LeavesUnder(n, x) = LeavesUnder(n, top)

LEMMA BlockUnderParent ==
  ASSUME NEW n, NEW x, NEW nd, NEW sib, NEW top, BlockUnder(n, x, nd, sib, top)
  PROVE  UnderOneOf(n, x, nd, sib, top)
<1> USE DEF UnderOneOf
<1> DEFINE l == Lvl(nd)
           h == l + 1
           m == Lvl(x)
<1>1. /\ n \in Nat \ {0} /\ l \in Nat /\ h \in Nat /\ m \in Nat
      /\ nd = <<l, Pos(nd)>> /\ sib = <<l, Pos(sib)>> /\ top = <<h, Pos(top)>> /\ x = <<m, Pos(x)>>
      /\ LeavesUnder(n, top) = LeavesUnder(n, nd) \cup LeavesUnder(n, sib)
      /\ LeavesUnder(n, x) \subseteq LeavesUnder(n, top)
      /\ m <= l \/ h <= m
  BY DEF BlockUnder
<1>2. PICK leaf : leaf \in LeavesUnder(n, x)
  BY DEF BlockUnder
<1>3. leaf \in LeavesUnder(n, nd) \/ leaf \in LeavesUnder(n, sib)
  BY <1>1, <1>2
<1> HIDE DEF l, h, m
<1>4. CASE m <= l /\ leaf \in LeavesUnder(n, nd)
  BY <1>1, <1>2, <1>4, Nested
<1>5. CASE m <= l /\ leaf \in LeavesUnder(n, sib)
  BY <1>1, <1>2, <1>5, Nested
<1>6. CASE h <= m
  <2>1. leaf \in LeavesUnder(n, <<h, Pos(top)>>) /\ leaf \in LeavesUnder(n, <<m, Pos(x)>>)
    BY <1>1, <1>2
  <2>2. LeavesUnder(n, <<h, Pos(top)>>) \subseteq LeavesUnder(n, <<m, Pos(x)>>)
    BY <1>1, <1>6, <2>1, Nested
  <2> QED BY <1>1, <2>2
<1> QED BY <1>1, <1>3, <1>4, <1>5, <1>6

-----------------------------------------------------------------------------
(* Owners.                                                                 *)

(* WorkerOf always names a worker.                                          *)
LEMMA WorkerOfType ==
  ASSUME NEW w \in Nat \ {0}, NEW bounds, NEW leaf
  PROVE  WorkerOf(leaf, bounds, w) \in 0 .. w-1
<1>1. IsFiniteSet(0 .. w)
  BY FS_Interval
<1>2. IsFiniteSet({i \in 0 .. w : bounds[i] <= leaf})
  BY <1>1, FS_Subset
<1>3. BisectRight(bounds, w, leaf) \in Nat
  BY <1>2, FS_CardinalityType DEF BisectRight
<1> QED BY <1>3 DEF WorkerOf

(* Worker 0 owns the leftmost leaf, whatever the level.                      *)
LEMMA OwnerOfFirst ==
  ASSUME NEW n \in Nat \ {0}, NEW w \in 1 .. n, NEW lvl \in Nat
  PROVE  Owner(n, w, <<lvl, 0>>) = 0
<1> DEFINE bounds == MakeBounds(n, w)
           low == {i \in 0 .. w : bounds[i] <= 0}
<1>1. \A i \in 1 .. w : bounds[i] \in Int /\ bounds[i] > 0
  <2> TAKE i \in 1 .. w
  <2>1. i * n >= n
    OBVIOUS
  <2>2. i * n >= w
    BY <2>1
  <2> DEFINE q == (i * n) \div w
  <2>3. q \in Int /\ i * n < w * q + w
    BY <2>1
  <2> HIDE DEF q
  <2>4. q > 0
    <3>1. SUFFICES ASSUME q <= 0 PROVE FALSE
      BY <2>3
    <3>2. w * q <= w * 0
      BY <3>1, <2>3
    <3> QED BY <3>2, <2>2, <2>3
  <2> QED BY <2>3, <2>4 DEF q, MakeBounds
<1>2. bounds[0] = 0
  BY DEF MakeBounds
<1>3. low = {0}
  <2> HIDE DEF bounds
  <2>1. 0 .. w = {0} \cup 1 .. w
    OBVIOUS
  <2>2. \A i \in 1 .. w : ~(bounds[i] <= 0)
    BY <1>1
  <2> QED BY <1>2, <2>1, <2>2
<1>4. Cardinality(low) = 1
  BY <1>3, FS_Singleton
<1>5. 0 * 2^lvl = 0
  BY PowNat
<1>6. BisectRight(bounds, w, 0) = 1
  BY <1>4 DEF BisectRight
<1>7. WorkerOf(0, bounds, w) = 0
  BY <1>6 DEF WorkerOf
<1>8. Pos(<<lvl, 0>>) * 2^Lvl(<<lvl, 0>>) = 0
  BY <1>5 DEF Pos, Lvl
<1> QED BY <1>7, <1>8 DEF Owner

(* An even node and its parent begin with the same leaf, so they have the    *)
(* same owner; the parent of a pair is owned by the owner of its even child. *)
LEMMA ParentKeepsOwner ==
  ASSUME NEW n \in Nat \ {0}, NEW w \in 1 .. n, NEW lvl \in Nat, NEW pos \in Nat
  PROVE  Owner(n, w, Parent(<<lvl, pos>>)) = ParentOwner(n, w, <<lvl, pos>>)
<1> DEFINE P == 2^lvl
           even == pos - (pos % 2)
<1>1. P \in Nat /\ 2^(lvl+1) = 2*P
  BY PowNat, PowStep
<1>2. even = 2 * (pos \div 2)
  OBVIOUS
<1> HIDE DEF P, even
<1>3. pos \div 2 \in Nat
  OBVIOUS
<1>4. (pos \div 2) * (2*P) = even * P
  BY <1>1, <1>2, <1>3
<1> QED BY <1>1, <1>4 DEF Owner, ParentOwner, Parent, Pos, Lvl, P, even

-----------------------------------------------------------------------------
(* The ranges of leaves of the workers.                                     *)

(* make_bounds begins with 0, ends with the number of leaves, and gives every *)
(* worker at least one leaf.                                               *)
LEMMA BoundsAscend ==
  ASSUME NEW n \in Nat \ {0}, NEW w \in 1 .. n
  PROVE  LET bounds == MakeBounds(n, w)
         IN  /\ bounds[0] = 0 /\ bounds[w] = n
             /\ \A i \in 0 .. w : bounds[i] \in Nat
             /\ \A i, j \in 0 .. w : i < j => bounds[i] < bounds[j]
<1> DEFINE bounds == MakeBounds(n, w)
<1>1. bounds[0] = 0
  BY DEF MakeBounds
<1>2. bounds[w] = n
  <2>1. (w * n) \div w = n
    BY Z3
  <2> QED BY <2>1 DEF MakeBounds
<1>3. ASSUME NEW i \in 0 .. w
      PROVE  bounds[i] \in Nat /\ w * bounds[i] <= i * n /\ i * n < w * bounds[i] + w
  <2> DEFINE q == (i * n) \div w
  <2>1. i * n \in Nat
    OBVIOUS
  <2>2. q \in Int /\ w * q <= i * n /\ i * n < w * q + w
    BY <2>1
  <2> HIDE DEF q
  <2>3. q >= 0
    <3>1. SUFFICES ASSUME q <= -1 PROVE FALSE
      BY <2>2
    <3>2. w * q <= w * (-1)
      BY <3>1, <2>2
    <3> QED BY <2>1, <2>2, <3>2
  <2> QED BY <2>2, <2>3 DEF q, MakeBounds
<1>4. ASSUME NEW i \in 0 .. w, NEW j \in 0 .. w, i < j PROVE bounds[i] < bounds[j]
  <2> DEFINE a == bounds[i]
             c == bounds[j]
  <2>1. /\ a \in Nat /\ w * a <= i * n
        /\ c \in Nat /\ j * n < w * c + w
    BY <1>3
  <2> HIDE DEF a, c
  <2>2. j * n >= i * n + n
    <3>1. j * n >= (i + 1) * n
      BY <1>4
    <3>2. (i + 1) * n = i * n + n
      OBVIOUS
    <3> QED BY <3>1, <3>2
  <2>3. SUFFICES ASSUME c <= a PROVE FALSE
    BY <2>1 DEF a, c
  <2>4. w * c <= w * a
    BY <2>1, <2>3
  <2>5. i * n \in Int /\ j * n \in Int /\ w * a \in Int /\ w * c \in Int
    BY <2>1
  <2> QED BY <2>1, <2>2, <2>4, <2>5
<1> QED BY <1>1, <1>2, <1>3, <1>4

(* worker_of finds the worker whose range the leaf is in.                    *)
LEMMA RangeOwner ==
  ASSUME NEW n \in Nat \ {0}, NEW w \in 1 .. n, NEW i \in 0 .. w-1, NEW leaf \in Int,
         MakeBounds(n, w)[i] <= leaf, leaf < MakeBounds(n, w)[i+1]
  PROVE  WorkerOf(leaf, MakeBounds(n, w), w) = i
<1> DEFINE bounds == MakeBounds(n, w)
<1>1. /\ \A j \in 0 .. w : bounds[j] \in Nat
      /\ \A j, k \in 0 .. w : j < k => bounds[j] < bounds[k]
  BY BoundsAscend
<1>2. bounds[i] <= leaf /\ leaf < bounds[i+1] /\ i \in 0 .. w /\ i+1 \in 0 .. w
  OBVIOUS
<1> HIDE DEF bounds
<1>3. ASSUME NEW j \in 0 .. w PROVE bounds[j] <= leaf <=> j <= i
  <2>1. CASE j < i
    BY <1>1, <1>2, <2>1
  <2>2. CASE j = i
    BY <1>2, <2>2
  <2>3. CASE j = i + 1
    BY <1>1, <1>2, <2>3
  <2>4. CASE j > i + 1
    <3>1. bounds[i+1] < bounds[j] /\ bounds[i+1] \in Nat /\ bounds[j] \in Nat
      BY <1>1, <1>2, <2>4
    <3> QED BY <1>2, <2>4, <3>1
  <2> QED BY <2>1, <2>2, <2>3, <2>4
<1>4. {j \in 0 .. w : bounds[j] <= leaf} = 0 .. i
  BY <1>3
<1>5. BisectRight(bounds, w, leaf) = i + 1
  <2>1. Cardinality(0 .. i) = i + 1
    BY FS_Interval
  <2> QED BY <1>4, <2>1 DEF BisectRight
<1> QED BY <1>5 DEF WorkerOf, bounds

(* Every leaf is in the range of its worker.                                *)
LEMMA OwnerRange ==
  ASSUME NEW n \in Nat \ {0}, NEW w \in 1 .. n, NEW leaf \in 0 .. n-1
  PROVE  LET i == WorkerOf(leaf, MakeBounds(n, w), w)
         IN  i \in 0 .. w-1 /\ MakeBounds(n, w)[i] <= leaf /\ leaf < MakeBounds(n, w)[i+1]
<1> DEFINE bounds == MakeBounds(n, w)
           T == {j \in 0 .. w : bounds[j] > leaf}
<1>1. bounds[0] = 0 /\ bounds[w] = n /\ \A j \in 0 .. w : bounds[j] \in Nat
  BY BoundsAscend
<1> HIDE DEF bounds
<1>2. T \subseteq Nat /\ w \in T
  BY <1>1
<1>3. PICK j \in T : \A k \in T : j <= k
  BY <1>2, Least
<1>4. j \in 0 .. w /\ bounds[j] > leaf /\ j # 0
  BY <1>1, <1>3
<1>5. j-1 \in 0 .. w-1 /\ bounds[j-1] <= leaf /\ (j-1)+1 = j
  <2>1. j-1 \in 0 .. w-1 /\ j-1 \in 0 .. w /\ (j-1)+1 = j
    BY <1>4
  <2>2. j-1 \notin T
    BY <1>3, <1>4
  <2>3. ~(bounds[j-1] > leaf)
    BY <2>1, <2>2
  <2> QED BY <1>1, <2>1, <2>3
<1> HIDE DEF T
<1>6. WorkerOf(leaf, MakeBounds(n, w), w) = j-1
  <2> DEFINE i == j-1
  <2>1. i \in 0 .. w-1 /\ MakeBounds(n, w)[i] <= leaf /\ leaf < MakeBounds(n, w)[i+1]
    BY <1>4, <1>5 DEF bounds
  <2> HIDE DEF i
  <2>2. WorkerOf(leaf, MakeBounds(n, w), w) = i
    BY <2>1, RangeOwner
  <2> QED BY <2>2 DEF i
<1> QED BY <1>4, <1>5, <1>6 DEF bounds

(* A later leaf belongs to the same worker or to a later one.                *)
LEMMA LaterLeafLaterWorker ==
  ASSUME NEW w \in Nat \ {0}, NEW bounds, \A i \in 0 .. w : bounds[i] \in Int,
         NEW a \in Int, NEW b \in Int, a <= b
  PROVE  WorkerOf(a, bounds, w) <= WorkerOf(b, bounds, w)
<1> DEFINE A == {i \in 0 .. w : bounds[i] <= a}
           B == {i \in 0 .. w : bounds[i] <= b}
<1>1. IsFiniteSet(0 .. w)
  BY FS_Interval
<1>2. IsFiniteSet(A) /\ IsFiniteSet(B)
  BY <1>1, FS_Subset
<1>3. A \subseteq B
  OBVIOUS
<1> HIDE DEF A, B
<1>4. Cardinality(A) \in Nat /\ Cardinality(B) \in Nat /\ Cardinality(A) <= Cardinality(B)
  BY <1>2, <1>3, FS_Subset, FS_CardinalityType
<1>5. BisectRight(bounds, w, a) = Cardinality(A) /\ BisectRight(bounds, w, b) = Cardinality(B)
  BY DEF BisectRight, A, B
<1> QED BY <1>4, <1>5 DEF WorkerOf

(* A node to the right belongs to the same worker or to a later one: what is *)
(* shipped goes to an earlier worker.                                       *)
LEMMA OwnersAscend ==
  ASSUME NEW n \in Nat \ {0}, NEW w \in 1 .. n, NEW lvl \in Nat, NEW p \in Nat, NEW q \in Nat, p <= q
  PROVE  Owner(n, w, <<lvl, p>>) <= Owner(n, w, <<lvl, q>>)
<1> DEFINE P == 2^lvl
           bounds == MakeBounds(n, w)
<1>1. P \in Nat
  BY PowNat
<1>2. \A i \in 0 .. w : bounds[i] \in Int
  BY BoundsAscend
<1>3. Owner(n, w, <<lvl, p>>) = WorkerOf(p * P, bounds, w) /\ Owner(n, w, <<lvl, q>>) = WorkerOf(q * P, bounds, w)
  BY DEF Owner, Pos, Lvl
<1> HIDE DEF P, bounds
<1>4. p * P \in Int /\ q * P \in Int /\ p * P <= q * P
  BY <1>1
<1> QED BY <1>2, <1>3, <1>4, LaterLeafLaterWorker

(* slice_items gives a worker the leaves it owns.                            *)
LEMMA RangeLeaves ==
  ASSUME NEW n \in Nat \ {0}, NEW w \in 1 .. n, NEW i \in 0 .. w-1
  PROVE  LET s == LeafRange(n, w, i)
         IN  /\ s \in Seq(0 .. n-1)
             /\ \A k \in DOMAIN s : WorkerOf(s[k], MakeBounds(n, w), w) = i
             /\ \A leaf \in 0 .. n-1 : WorkerOf(leaf, MakeBounds(n, w), w) = i => \E k \in DOMAIN s : s[k] = leaf
<1> DEFINE bounds == MakeBounds(n, w)
           s == LeafRange(n, w, i)
           lo == bounds[i]
           hi == bounds[i+1]
<1>1. i \in 0 .. w /\ i+1 \in 0 .. w /\ i < i+1
  OBVIOUS
<1>2. lo \in Nat /\ hi \in Nat /\ lo < hi /\ hi <= n
  <2>1. /\ bounds[w] = n /\ \A j \in 0 .. w : bounds[j] \in Nat
        /\ \A j, k \in 0 .. w : j < k => bounds[j] < bounds[k]
    BY BoundsAscend
  <2> HIDE DEF bounds
  <2>2. hi <= n
    <3>1. CASE i+1 = w
      BY <2>1, <3>1
    <3>2. CASE i+1 < w
      BY <1>1, <2>1, <3>2
    <3> QED BY <3>1, <3>2
  <2> QED BY <1>1, <2>1, <2>2
<1>3. s = [k \in 1 .. hi - lo |-> lo + k - 1]
  BY DEF LeafRange
<1>4. ASSUME NEW leaf \in Int, lo <= leaf, leaf < hi PROVE WorkerOf(leaf, bounds, w) = i
  BY <1>4, RangeOwner
<1>5. ASSUME NEW leaf \in 0 .. n-1, WorkerOf(leaf, bounds, w) = i PROVE lo <= leaf /\ leaf < hi
  BY <1>5, OwnerRange
<1> HIDE DEF s, lo, hi, bounds
<1>6. DOMAIN s = 1 .. hi - lo /\ \A k \in 1 .. hi - lo : s[k] = lo + k - 1
  BY <1>3
<1>7. s \in Seq(0 .. n-1)
  <2>1. hi - lo \in Nat /\ \A k \in 1 .. hi - lo : lo + k - 1 \in 0 .. n-1
    BY <1>2
  <2> QED BY <1>3, <2>1
<1>8. \A k \in DOMAIN s : WorkerOf(s[k], bounds, w) = i
  BY <1>2, <1>4, <1>6
<1>9. \A leaf \in 0 .. n-1 : WorkerOf(leaf, bounds, w) = i => \E k \in DOMAIN s : s[k] = leaf
  <2> SUFFICES ASSUME NEW leaf \in 0 .. n-1, WorkerOf(leaf, bounds, w) = i PROVE \E k \in DOMAIN s : s[k] = leaf
    OBVIOUS
  <2> DEFINE k == leaf - lo + 1
  <2>1. k \in 1 .. hi - lo /\ lo + k - 1 = leaf
    BY <1>2, <1>5
  <2> QED BY <1>6, <2>1
<1> QED BY <1>7, <1>8, <1>9 DEF s, bounds


(* A function defined by recursion over the passes exists: if not, there were *)
(* a first pass it could not reach.                                          *)
LEMMA PassesDef ==
  ASSUME NEW n \in Nat
  PROVE  Passes(n) = [k \in 0 .. n |-> IF k = 0 THEN FirstPass(n) ELSE NextPass(Passes(n)[k-1])]
<1> DEFINE Is(k, f) == f = [j \in 0 .. k |-> IF j = 0 THEN FirstPass(n) ELSE NextPass(f[j-1])]
           T == {k \in Nat : ~ \E f : Is(k, f)}
<1>1. T = {}
  <2>1. SUFFICES ASSUME T # {} PROVE FALSE
    OBVIOUS
  <2>2. PICK k \in T : \A other \in T : k <= other
    <3>1. T \subseteq Nat
      OBVIOUS
    <3> HIDE DEF T
    <3> QED BY <2>1, <3>1, Least
  <2>3. k \in Nat /\ ~ \E f : Is(k, f)
    OBVIOUS
  <2>4. k # 0
    <3> DEFINE f == [j \in 0 .. 0 |-> FirstPass(n)]
    <3>1. Is(0, f)
      OBVIOUS
    <3> QED BY <3>1, <2>3
  <2>5. k-1 \in Nat /\ k-1 \notin T
    <3> HIDE DEF T
    <3> QED BY <2>2, <2>3, <2>4
  <2>6. PICK f : Is(k-1, f)
    BY <2>5
  <2> DEFINE g == [j \in 0 .. k |-> IF j < k THEN f[j] ELSE NextPass(f[k-1])]
  <2>7. \A j \in 0 .. k-1 : f[j] = IF j = 0 THEN FirstPass(n) ELSE NextPass(f[j-1])
    BY <2>6
  <2>8. \A j \in 0 .. k : g[j] = IF j = 0 THEN FirstPass(n) ELSE NextPass(g[j-1])
    <3> SUFFICES ASSUME NEW j \in 0 .. k PROVE g[j] = IF j = 0 THEN FirstPass(n) ELSE NextPass(g[j-1])
      OBVIOUS
    <3>1. CASE j = 0
      BY <3>1, <2>3, <2>4, <2>5, <2>7
    <3>2. CASE j # 0
      <4>1. j-1 \in 0 .. k-1 /\ j-1 \in 0 .. k /\ j-1 < k
        BY <3>2, <2>3
      <4>2. g[j-1] = f[j-1]
        BY <4>1
      <4>3. CASE j = k
        BY <3>2, <4>2, <4>3
      <4>4. CASE j < k
        <5>1. j \in 0 .. k-1
          BY <4>4, <2>3
        <5> HIDE DEF Is
        <5> QED BY <3>2, <4>2, <4>4, <5>1, <2>7
      <4> QED BY <4>3, <4>4, <2>3
    <3> QED BY <3>1, <3>2
  <2>9. Is(k, g)
    <3>1. g = [j \in 0 .. k |-> g[j]]
      OBVIOUS
    <3> HIDE DEF g
    <3> QED BY <2>8, <3>1
  <2> QED BY <2>3, <2>9
<1>2. \E f : Is(n, f)
  BY <1>1
<1> QED BY <1>2 DEF Passes

-----------------------------------------------------------------------------
(* One pass of plan_tree's outer loop.                                      *)

Triples == Nat \X Nat \X Nat
Pass == [level : Seq(Nat), next : Nat, combines : Seq(Triples)]

(* What a pass over a level of more than one node does, entry by entry.       *)
Advances(p, q) ==
  LET h == Len(p.level) \div 2
      m == Len(p.combines)
  IN  /\ q.next = p.next + h
      /\ Len(q.level) = (Len(p.level) + 1) \div 2
      /\ \A i \in 1 .. h : q.level[i] = p.next + i - 1
      /\ \A i \in h+1 .. Len(q.level) : q.level[i] = p.level[Len(p.level)]
      /\ Len(q.combines) = m + h
      /\ \A ci \in 1 .. m : q.combines[ci] = p.combines[ci]
      /\ \A i \in 1 .. h : q.combines[m + i] = <<p.next + i - 1, p.level[2*i - 1], p.level[2*i]>>

LEMMA PassAdvances ==
  ASSUME NEW p \in Pass, Len(p.level) > 1
  PROVE  NextPass(p) \in Pass /\ Advances(p, NextPass(p))
<1> DEFINE L == Len(p.level)
           h == L \div 2
           m == Len(p.combines)
           new == [i \in 1 .. h |-> p.next + i - 1]
           odd == IF L % 2 = 1 THEN <<p.level[L]>> ELSE <<>>
           made == [i \in 1 .. h |-> <<p.next + i - 1, p.level[2*i - 1], p.level[2*i]>>]
           q == NextPass(p)
<1>1. p.level \in Seq(Nat) /\ p.next \in Nat /\ p.combines \in Seq(Triples)
  BY DEF Pass
<1>2. L \in Nat /\ m \in Nat /\ \A i \in 1 .. L : p.level[i] \in Nat
  BY <1>1, LenProperties, ElementOfSeq
<1>3. q = [level |-> new \o odd, next |-> p.next + h, combines |-> p.combines \o made]
  <2>1. ~(Len(p.level) <= 1)
    BY <1>2
  <2> QED BY <2>1 DEF NextPass, NextLevel, LevelCombines, Last
<1> HIDE DEF L, q
<1>4. h \in Nat /\ (L % 2 = 1 => L = 2*h + 1) /\ (L % 2 # 1 => L = 2*h)
  BY <1>2
<1>5. new \in Seq(Nat) /\ Len(new) = h /\ \A i \in 1 .. h : new[i] = p.next + i - 1
  <2> HIDE DEF h
  <2>1. \A i \in 1 .. h : p.next + i - 1 \in Nat
    BY <1>1, <1>4
  <2>2. new \in [1 .. h -> Nat] /\ \A i \in 1 .. h : new[i] = p.next + i - 1
    BY <2>1
  <2> HIDE DEF new
  <2> QED BY <1>4, <2>2
<1>6. odd \in Seq(Nat) /\ Len(odd) = L % 2 /\ (L % 2 = 1 => odd[1] = p.level[L])
  <2>1. CASE L % 2 = 1
    BY <1>2, <2>1
  <2>2. CASE L % 2 # 1
    BY <1>2, <2>2
  <2> QED BY <2>1, <2>2
<1>7. made \in Seq(Triples) /\ Len(made) = h
      /\ \A i \in 1 .. h : made[i] = <<p.next + i - 1, p.level[2*i - 1], p.level[2*i]>>
  <2>1. \A i \in 1 .. h : 2*i - 1 \in 1 .. L /\ 2*i \in 1 .. L
    BY <1>2, <1>4
  <2>2. \A i \in 1 .. h : p.level[2*i - 1] \in Nat /\ p.level[2*i] \in Nat /\ p.next + i - 1 \in Nat
    BY <1>1, <1>2, <1>4, <2>1
  <2>3. \A i \in 1 .. h : <<p.next + i - 1, p.level[2*i - 1], p.level[2*i]>> \in Triples
    BY <2>2 DEF Triples
  <2> HIDE DEF h
  <2>4. made \in [1 .. h -> Triples] /\ \A i \in 1 .. h : made[i] = <<p.next + i - 1, p.level[2*i - 1], p.level[2*i]>>
    BY <2>3
  <2> HIDE DEF made
  <2> QED BY <1>4, <2>4
<1> HIDE DEF new, odd, made, h
<1>8. /\ new \o odd \in Seq(Nat)
      /\ Len(new \o odd) = h + (L % 2)
      /\ \A i \in 1 .. h + (L % 2) : (new \o odd)[i] = IF i <= h THEN new[i] ELSE odd[i - h]
  <2> HIDE DEF Pass
  <2>1. new \in Seq(Nat) /\ odd \in Seq(Nat) /\ Len(new) = h /\ Len(odd) = L % 2
    BY <1>5, <1>6
  <2>2. /\ new \o odd \in Seq(Nat)
        /\ Len(new \o odd) = Len(new) + Len(odd)
        /\ \A i \in 1 .. Len(new) + Len(odd) : (new \o odd)[i] = IF i <= Len(new) THEN new[i] ELSE odd[i - Len(new)]
    BY ONLY <2>1, ConcatProperties, Zenon
  <2> QED BY <2>1, <2>2, Zenon
<1>9. /\ p.combines \o made \in Seq(Triples)
      /\ Len(p.combines \o made) = m + h
      /\ \A i \in 1 .. m + h : (p.combines \o made)[i] = IF i <= m THEN p.combines[i] ELSE made[i - m]
  BY <1>1, <1>7, ConcatProperties
<1>10. p.next + h \in Nat
  BY <1>1, <1>4
<1>11. q \in Pass /\ q.level = new \o odd /\ q.next = p.next + h /\ q.combines = p.combines \o made
  BY <1>3, <1>8, <1>9, <1>10 DEF Pass
<1>12. h + (L % 2) = (L + 1) \div 2
  <2>1. L \in Nat
    BY <1>2
  <2>2. CASE L % 2 = 1
    BY <1>4, <2>1, <2>2
  <2>3. CASE L % 2 = 0
    BY <1>4, <2>1, <2>3
  <2> QED BY <2>1, <2>2, <2>3
<1>13. \A i \in 1 .. h : q.level[i] = p.next + i - 1
  BY <1>4, <1>5, <1>8, <1>11, <1>2
<1>14. \A i \in h+1 .. h + (L % 2) : q.level[i] = p.level[L]
  <2> SUFFICES ASSUME NEW i \in h+1 .. h + (L % 2) PROVE q.level[i] = p.level[L]
    OBVIOUS
  <2>1. L % 2 = 1 /\ i = h+1 /\ i - h = 1 /\ ~(i <= h) /\ i \in 1 .. h + (L % 2)
    BY <1>2, <1>4
  <2> QED BY <1>6, <1>8, <1>11, <2>1
<1>15. \A ci \in 1 .. m : q.combines[ci] = p.combines[ci]
  BY <1>2, <1>4, <1>9, <1>11
<1>16. \A i \in 1 .. h : q.combines[m + i] = <<p.next + i - 1, p.level[2*i - 1], p.level[2*i]>>
  <2> SUFFICES ASSUME NEW i \in 1 .. h
               PROVE  q.combines[m + i] = <<p.next + i - 1, p.level[2*i - 1], p.level[2*i]>>
    OBVIOUS
  <2>1. m + i \in 1 .. m + h /\ ~(m + i <= m) /\ m + i - m = i /\ i \in 1 .. h
    BY <1>2, <1>4
  <2>2. (p.combines \o made)[m + i] = made[m + i - m]
    BY <1>9, <2>1
  <2> QED BY <1>7, <1>11, <2>1, <2>2
<1> QED BY <1>8, <1>9, <1>11, <1>12, <1>13, <1>14, <1>15, <1>16 DEF Advances, L, h, m, q

-----------------------------------------------------------------------------
(* What plan_tree has built after k passes: level k of the tree.             *)

InputsOf(c) == {c[2], c[3]}
WellFormed(n, k, p) ==
  /\ p \in Pass
  /\ p.next = n + Len(p.combines) /\ Len(p.level) = LevelSize(n, k)
  /\ \A ci \in 1 .. Len(p.combines) :
       LET c == p.combines[ci]
       IN  c[1] = n + ci - 1 /\ c[2] < c[1] /\ c[3] < c[1] /\ c[2] # c[3]
(* An id is on the level or an operand, of one combine.                      *)
Partition(p) ==
  /\ \A i \in 1 .. Len(p.level) : p.level[i] < p.next
  /\ \A i, j \in 1 .. Len(p.level) : p.level[i] = p.level[j] => i = j
  /\ \A ci, cj \in 1 .. Len(p.combines) :
       InputsOf(p.combines[ci]) \cap InputsOf(p.combines[cj]) # {} => ci = cj
  /\ \A ci \in 1 .. Len(p.combines) : \A i \in 1 .. Len(p.level) : p.level[i] \notin InputsOf(p.combines[ci])
  /\ \A id \in 0 .. p.next - 1 :
       \/ \E i \in 1 .. Len(p.level) : p.level[i] = id
       \/ \E ci \in 1 .. Len(p.combines) : id \in InputsOf(p.combines[ci])

(* The entries after a pass, old and new: L nodes on the level, h pairs of    *)
(* them, m combines so far.                                                 *)
Passed(n, k, p, q, L, h, m) ==
  /\ L \in Nat /\ m \in Nat /\ h \in Nat \ {0} /\ p.next \in Nat /\ q.next = p.next + h
  /\ p.next = n + m /\ Len(q.combines) = m + h /\ L = LevelSize(n, k) /\ (L = 2*h \/ L = 2*h + 1)
  /\ Len(q.level) \in Nat /\ Len(q.level) = LevelSize(n, k+1)
  /\ \A i \in 1 .. L : p.level[i] \in Nat
  /\ \A i \in 1 .. h : i \in 1 .. Len(q.level)
  /\ L = 2*h + 1 => Len(q.level) = h + 1
  /\ \A i \in 1 .. Len(q.level) :
       \/ i \in 1 .. h /\ q.level[i] = p.next + i - 1
       \/ i = h + 1 /\ L = 2*h + 1 /\ q.level[i] = p.level[L]
  /\ \A ci \in 1 .. m : ci \in 1 .. m + h /\ q.combines[ci] = p.combines[ci]
  /\ \A i \in 1 .. h :
       /\ m + i \in 1 .. m + h
       /\ q.combines[m + i] = <<p.next + i - 1, p.level[2*i - 1], p.level[2*i]>>
       /\ 2*i - 1 \in 1 .. L /\ 2*i \in 1 .. L
  /\ \A ci \in 1 .. m + h : ci \in 1 .. m \/ \E i \in 1 .. h : ci = m + i

LEMMA AfterPass ==
  ASSUME NEW n \in Nat \ {0}, NEW k \in Nat, NEW p, NEW q, WellFormed(n, k, p), q \in Pass, Advances(p, q),
         Len(p.level) > 1
  PROVE  Passed(n, k, p, q, Len(p.level), Len(p.level) \div 2, Len(p.combines))
<1> DEFINE L == Len(p.level)
           h == L \div 2
           m == Len(p.combines)
<1>1. p.level \in Seq(Nat) /\ p.next \in Nat /\ p.combines \in Seq(Triples) /\ q.level \in Seq(Nat)
  BY DEF Pass, WellFormed
<1>2. L \in Nat /\ m \in Nat /\ Len(q.level) \in Nat /\ \A i \in 1 .. L : p.level[i] \in Nat
  BY <1>1, LenProperties, ElementOfSeq
<1>3. L = LevelSize(n, k) /\ p.next = n + m
  BY DEF WellFormed
<1>4. /\ q.next = p.next + h
      /\ Len(q.level) = (L + 1) \div 2
      /\ \A i \in 1 .. h : q.level[i] = p.next + i - 1
      /\ \A i \in h+1 .. Len(q.level) : q.level[i] = p.level[L]
      /\ Len(q.combines) = m + h
      /\ \A ci \in 1 .. m : q.combines[ci] = p.combines[ci]
      /\ \A i \in 1 .. h : q.combines[m + i] = <<p.next + i - 1, p.level[2*i - 1], p.level[2*i]>>
  BY DEF Advances
<1>5. Len(q.level) = LevelSize(n, k+1)
  BY <1>3, <1>4, LevelHalves
<1>6. L > 1
  OBVIOUS
<1> HIDE DEF L, m
<1>7. h \in Nat \ {0} /\ (L = 2*h \/ L = 2*h + 1)
  BY <1>2, <1>6
<1>8. Len(q.level) = (IF L = 2*h + 1 THEN h + 1 ELSE h)
  BY <1>2, <1>4, <1>7
<1> HIDE DEF h
<1>9. \A i \in 1 .. Len(q.level) :
        \/ i \in 1 .. h /\ q.level[i] = p.next + i - 1
        \/ i = h + 1 /\ L = 2*h + 1 /\ q.level[i] = p.level[L]
  <2> SUFFICES ASSUME NEW i \in 1 .. Len(q.level)
               PROVE  \/ i \in 1 .. h /\ q.level[i] = p.next + i - 1
                      \/ i = h + 1 /\ L = 2*h + 1 /\ q.level[i] = p.level[L]
    OBVIOUS
  <2>1. CASE i \in 1 .. h
    BY <1>4, <2>1
  <2>2. CASE i \notin 1 .. h
    <3>1. i = h + 1 /\ L = 2*h + 1 /\ i \in h+1 .. Len(q.level)
      BY <1>2, <1>7, <1>8, <2>2
    <3> QED BY <1>4, <3>1
  <2> QED BY <2>1, <2>2
<1>10. \A i \in 1 .. h : i \in 1 .. Len(q.level)
  BY <1>2, <1>7, <1>8
<1>11. \A ci \in 1 .. m : ci \in 1 .. m + h
  BY <1>2, <1>7
<1>12. \A i \in 1 .. h : m + i \in 1 .. m + h /\ 2*i - 1 \in 1 .. L /\ 2*i \in 1 .. L
  BY <1>2, <1>7
<1>13. \A ci \in 1 .. m + h : ci \in 1 .. m \/ \E i \in 1 .. h : ci = m + i
  <2> SUFFICES ASSUME NEW ci \in 1 .. m + h, ci \notin 1 .. m PROVE \E i \in 1 .. h : ci = m + i
    OBVIOUS
  <2>1. ci - m \in 1 .. h /\ ci = m + (ci - m)
    BY <1>2, <1>7
  <2> QED BY <2>1
<1> QED BY <1>1, <1>2, <1>3, <1>4, <1>5, <1>7, <1>8, <1>9, <1>10, <1>11, <1>12, <1>13 DEF Passed, L, h, m

LEMMA PassKeepsForm ==
  ASSUME NEW n \in Nat \ {0}, NEW k \in Nat, NEW p, NEW q, WellFormed(n, k, p), Partition(p),
         q \in Pass, Advances(p, q), Len(p.level) > 1
  PROVE  WellFormed(n, k+1, q) /\ Partition(q)
<1> DEFINE L == Len(p.level)
           h == L \div 2
           m == Len(p.combines)
           next == p.next
<1> HIDE DEF L, h, m, next
<1>0. Passed(n, k, p, q, L, h, m)
  BY AfterPass DEF L, h, m
<1>1. /\ L \in Nat /\ m \in Nat /\ h \in Nat \ {0} /\ next \in Nat /\ q.next = next + h
      /\ next = n + m /\ Len(q.combines) = m + h /\ (L = 2*h \/ L = 2*h + 1)
      /\ Len(q.level) \in Nat /\ Len(q.level) = LevelSize(n, k+1)
      /\ \A i \in 1 .. L : p.level[i] \in Nat
      /\ \A i \in 1 .. h : i \in 1 .. Len(q.level)
      /\ L = 2*h + 1 => Len(q.level) = h + 1
  BY <1>0, Zenon DEF Passed, next
<1>a. m \in Nat /\ h \in Nat /\ next \in Nat /\ n \in Nat /\ next = n + m
  BY <1>1
<1>b. q.next = next + h /\ Len(q.combines) = m + h
  BY <1>1
<1>2. \A i \in 1 .. Len(q.level) :
        \/ i \in 1 .. h /\ q.level[i] = next + i - 1
        \/ i = h + 1 /\ L = 2*h + 1 /\ q.level[i] = p.level[L]
  BY <1>0, Zenon DEF Passed, next
<1>3. \A ci \in 1 .. m : ci \in 1 .. m + h /\ q.combines[ci] = p.combines[ci]
  BY <1>0, Zenon DEF Passed, next
<1>4. \A i \in 1 .. h :
        /\ m + i \in 1 .. m + h
        /\ q.combines[m + i] = <<next + i - 1, p.level[2*i - 1], p.level[2*i]>>
        /\ 2*i - 1 \in 1 .. L /\ 2*i \in 1 .. L
  BY <1>0, Zenon DEF Passed, next
<1>5. \A ci \in 1 .. m + h : ci \in 1 .. m \/ \E i \in 1 .. h : ci = m + i
  BY <1>0, Zenon DEF Passed, next
<1>6. \A ci \in 1 .. m :
        LET c == p.combines[ci]
        IN  c[1] = n + ci - 1 /\ c[2] < c[1] /\ c[3] < c[1] /\ c[2] # c[3]
  BY Zenon DEF WellFormed, m
<1>7. /\ \A i \in 1 .. L : p.level[i] < next
      /\ \A i, j \in 1 .. L : p.level[i] = p.level[j] => i = j
      /\ \A ci, cj \in 1 .. m : InputsOf(p.combines[ci]) \cap InputsOf(p.combines[cj]) # {} => ci = cj
      /\ \A ci \in 1 .. m : \A i \in 1 .. L : p.level[i] \notin InputsOf(p.combines[ci])
      /\ \A id \in 0 .. next - 1 :
           \/ \E i \in 1 .. L : p.level[i] = id
           \/ \E ci \in 1 .. m : id \in InputsOf(p.combines[ci])
  BY Zenon DEF Partition, L, m, next
<1>8. \A ci \in 1 .. m : \A x \in InputsOf(p.combines[ci]) : x < next
  <2> SUFFICES ASSUME NEW ci \in 1 .. m, NEW x \in InputsOf(p.combines[ci]) PROVE x < next
    OBVIOUS
  <2> DEFINE c == p.combines[ci]
  <2>1. p.combines \in Seq(Triples)
    BY DEF WellFormed, Pass
  <2>2. c \in Triples
    BY <2>1, ElementOfSeq DEF m
  <2>3. c[1] \in Nat /\ c[2] \in Nat /\ c[3] \in Nat
    BY <2>2 DEF Triples
  <2>4. c[1] = n + ci - 1 /\ c[2] < c[1] /\ c[3] < c[1] /\ (x = c[2] \/ x = c[3])
    BY <1>6 DEF InputsOf
  <2> HIDE DEF c
  <2>5. ci \in Nat /\ ci <= m
    BY <1>a
  <2>6. n + ci - 1 < next
    BY <1>a, <2>5
  <2> QED BY <1>a, <2>3, <2>4, <2>5, <2>6
<1>9. \A i \in 1 .. h : InputsOf(q.combines[m + i]) = {p.level[2*i - 1], p.level[2*i]}
  <2> SUFFICES ASSUME NEW i \in 1 .. h
               PROVE  InputsOf(q.combines[m + i]) = {p.level[2*i - 1], p.level[2*i]}
    OBVIOUS
  <2>1. PICK a, b, x : a = next + i - 1 /\ b = p.level[2*i - 1] /\ x = p.level[2*i]
    OBVIOUS
  <2>2. PICK c : c = q.combines[m + i]
    OBVIOUS
  <2>3. c = <<a, b, x>>
    BY <1>4, <2>1, <2>2
  <2>4. c[2] = b /\ c[3] = x
    BY <2>3
  <2> QED BY <2>1, <2>2, <2>4 DEF InputsOf
<1>10. \A ci \in 1 .. m : InputsOf(q.combines[ci]) = InputsOf(p.combines[ci])
  BY <1>3
<1>11. \A ci \in 1 .. m + h :
         LET c == q.combines[ci]
         IN  c[1] = n + ci - 1 /\ c[2] < c[1] /\ c[3] < c[1] /\ c[2] # c[3]
  <2> SUFFICES ASSUME NEW ci \in 1 .. m + h
               PROVE  LET c == q.combines[ci]
                      IN  c[1] = n + ci - 1 /\ c[2] < c[1] /\ c[3] < c[1] /\ c[2] # c[3]
    OBVIOUS
  <2>1. CASE ci \in 1 .. m
    BY <1>3, <1>6, <2>1
  <2>2. ASSUME NEW i \in 1 .. h, ci = m + i
        PROVE  LET c == q.combines[ci]
               IN  c[1] = n + ci - 1 /\ c[2] < c[1] /\ c[3] < c[1] /\ c[2] # c[3]
    <3> DEFINE a == p.level[2*i - 1]
               b == p.level[2*i]
    <3>1. 2*i - 1 \in 1 .. L /\ 2*i \in 1 .. L /\ 2*i - 1 # 2*i
      BY <1>1, <1>4
    <3>2. a \in Nat /\ b \in Nat /\ a < next /\ b < next /\ a # b
      BY <1>1, <1>7, <3>1
    <3>3. q.combines[ci] = <<next + i - 1, a, b>>
      BY <1>4, <2>2
    <3> HIDE DEF a, b
    <3>4. next <= next + i - 1 /\ next + i - 1 = n + ci - 1
      BY <1>1, <2>2
    <3>5. a < next + i - 1 /\ b < next + i - 1
      BY <1>1, <3>2, <3>4
    <3> QED BY <3>2, <3>3, <3>4, <3>5
  <2> QED BY <1>5, <2>1, <2>2
<1>12. \A i \in 1 .. Len(q.level) : q.level[i] < next + h
  <2> SUFFICES ASSUME NEW i \in 1 .. Len(q.level) PROVE q.level[i] < next + h
    OBVIOUS
  <2>1. CASE i \in 1 .. h /\ q.level[i] = next + i - 1
    BY <1>1, <2>1
  <2>2. CASE i = h + 1 /\ L = 2*h + 1 /\ q.level[i] = p.level[L]
    <3>1. L \in 1 .. L
      BY <1>1, <2>2
    <3> QED BY <1>1, <1>7, <2>2, <3>1
  <2> QED BY <1>2, <2>1, <2>2
<1>13. \A i, j \in 1 .. Len(q.level) : q.level[i] = q.level[j] => i = j
  <2> SUFFICES ASSUME NEW i \in 1 .. Len(q.level), NEW j \in 1 .. Len(q.level), q.level[i] = q.level[j]
               PROVE  i = j
    OBVIOUS
  <2>1. L = 2*h + 1 => L \in 1 .. L /\ p.level[L] < next /\ p.level[L] \in Nat
    BY <1>1, <1>7
  <2>2. \/ i \in 1 .. h /\ q.level[i] = next + i - 1
        \/ i = h + 1 /\ L = 2*h + 1 /\ q.level[i] = p.level[L]
    BY <1>2
  <2>3. \/ j \in 1 .. h /\ q.level[j] = next + j - 1
        \/ j = h + 1 /\ L = 2*h + 1 /\ q.level[j] = p.level[L]
    BY <1>2
  <2>4. CASE i \in 1 .. h /\ q.level[i] = next + i - 1
    <3>1. j \in 1 .. h /\ q.level[j] = next + j - 1
      BY <1>a, <2>1, <2>3, <2>4
    <3>2. next + i - 1 = next + j - 1
      BY <2>4, <3>1, Zenon
    <3>3. i \in Int /\ j \in Int
      BY <1>a, <2>4, <3>1
    <3> QED BY <1>a, <3>2, <3>3
  <2>5. CASE i = h + 1 /\ L = 2*h + 1 /\ q.level[i] = p.level[L]
    <3>1. j = h + 1
      BY <1>a, <2>1, <2>3, <2>5
    <3> QED BY <2>5, <3>1
  <2> QED BY <2>2, <2>4, <2>5
<1>14. \A ci, cj \in 1 .. m + h : InputsOf(q.combines[ci]) \cap InputsOf(q.combines[cj]) # {} => ci = cj
  <2>1. ASSUME NEW ci \in 1 .. m, NEW j \in 1 .. h
        PROVE  InputsOf(q.combines[ci]) \cap InputsOf(q.combines[m + j]) = {}
    <3>1. p.level[2*j - 1] \notin InputsOf(p.combines[ci]) /\ p.level[2*j] \notin InputsOf(p.combines[ci])
      BY <1>4, <1>7
    <3> QED BY <1>9, <1>10, <3>1
  <2>2. ASSUME NEW i \in 1 .. h, NEW j \in 1 .. h,
               InputsOf(q.combines[m + i]) \cap InputsOf(q.combines[m + j]) # {}
        PROVE  i = j
    <3>1. PICK x \in 0 .. 1, y \in 0 .. 1 : p.level[2*i - x] = p.level[2*j - y]
      <4>1. \A l \in 1 .. h : \A z \in InputsOf(q.combines[m + l]) : \E x \in 0 .. 1 : z = p.level[2*l - x]
        <5> SUFFICES ASSUME NEW l \in 1 .. h, NEW z \in InputsOf(q.combines[m + l])
                     PROVE  \E x \in 0 .. 1 : z = p.level[2*l - x]
          OBVIOUS
        <5>1. z = p.level[2*l - 1] \/ z = p.level[2*l]
          BY <1>9
        <5>2. 2*l = 2*l - 0
          OBVIOUS
        <5> QED BY <5>1, <5>2
      <4>2. PICK z : z \in InputsOf(q.combines[m + i]) /\ z \in InputsOf(q.combines[m + j])
        BY <2>2
      <4>3. PICK x \in 0 .. 1 : z = p.level[2*i - x]
        BY <4>1, <4>2
      <4>4. PICK y \in 0 .. 1 : z = p.level[2*j - y]
        BY <4>1, <4>2
      <4> QED BY <4>3, <4>4
    <3>2. 2*i - x \in 1 .. L /\ 2*j - y \in 1 .. L
      BY <1>1, <1>4
    <3>3. 2*i - x = 2*j - y
      BY <1>7, <3>1, <3>2
    <3> QED BY <3>3
  <2> SUFFICES ASSUME NEW ci \in 1 .. m + h, NEW cj \in 1 .. m + h,
                      InputsOf(q.combines[ci]) \cap InputsOf(q.combines[cj]) # {}
               PROVE  ci = cj
    OBVIOUS
  <2>3. CASE ci \in 1 .. m /\ cj \in 1 .. m
    BY <1>7, <1>10, <2>3
  <2>4. CASE ci \in 1 .. m /\ \E j \in 1 .. h : cj = m + j
    BY <2>1, <2>4
  <2>5. CASE cj \in 1 .. m /\ \E i \in 1 .. h : ci = m + i
    BY <2>1, <2>5
  <2>6. CASE (\E i \in 1 .. h : ci = m + i) /\ (\E j \in 1 .. h : cj = m + j)
    BY <2>2, <2>6
  <2> QED BY <1>5, <2>3, <2>4, <2>5, <2>6
<1>15. \A ci \in 1 .. m + h : \A i \in 1 .. Len(q.level) : q.level[i] \notin InputsOf(q.combines[ci])
  <2> SUFFICES ASSUME NEW ci \in 1 .. m + h, NEW i \in 1 .. Len(q.level), q.level[i] \in InputsOf(q.combines[ci])
               PROVE  FALSE
    OBVIOUS
  <2>1. q.level[i] < next
    <3>1. CASE ci \in 1 .. m
      BY <1>8, <1>10, <3>1
    <3>2. CASE \E j \in 1 .. h : ci = m + j
      <4>1. PICK j \in 1 .. h : ci = m + j
        BY <3>2
      <4>2. q.level[i] = p.level[2*j - 1] \/ q.level[i] = p.level[2*j]
        BY <1>9, <4>1
      <4> QED BY <1>4, <1>7, <4>2
    <3> QED BY <1>5, <3>1, <3>2
  <2>2. i = h + 1 /\ L = 2*h + 1 /\ q.level[i] = p.level[L] /\ L \in 1 .. L
    <3>1. \A j \in 1 .. h : ~(next + j - 1 < next)
      BY <1>1
    <3>2. i = h + 1 /\ L = 2*h + 1 /\ q.level[i] = p.level[L]
      BY <1>2, <2>1, <3>1
    <3> QED BY <1>1, <3>2
  <2>3. CASE ci \in 1 .. m
    BY <1>7, <1>10, <2>2, <2>3
  <2>4. ASSUME NEW j \in 1 .. h, ci = m + j PROVE FALSE
    <3>1. p.level[L] = p.level[2*j - 1] \/ p.level[L] = p.level[2*j]
      BY <1>9, <2>2, <2>4
    <3>2. 2*j - 1 \in 1 .. L /\ 2*j \in 1 .. L
      BY <1>4
    <3>3. \A a \in 1 .. L : p.level[L] = p.level[a] => L = a
      BY <1>7, <2>2, Zenon
    <3>4. L = 2*j - 1 \/ L = 2*j
      BY <3>1, <3>2, <3>3
    <3>5. j \in Nat /\ j <= h
      BY <1>1
    <3> QED BY <1>a, <2>2, <3>4, <3>5
  <2> QED BY <1>5, <2>3, <2>4
<1>16. ASSUME NEW id \in 0 .. next + h - 1
       PROVE  \/ \E i \in 1 .. Len(q.level) : q.level[i] = id
              \/ \E ci \in 1 .. m + h : id \in InputsOf(q.combines[ci])
  <2>1. CASE id >= next
    <3>1. id - next + 1 \in 1 .. h /\ id - next + 1 \in Int
      BY <1>1, <2>1
    <3>2. id - next + 1 \in 1 .. Len(q.level) /\ ~(id - next + 1 = h + 1)
      BY <1>1, <3>1
    <3>3. q.level[id - next + 1] = next + (id - next + 1) - 1
      BY <1>2, <3>2
    <3>4. next + (id - next + 1) - 1 = id
      BY <1>1
    <3> QED BY <3>2, <3>3, <3>4
  <2>2. CASE id < next
    <3>1. id \in 0 .. next - 1
      BY <1>1, <2>2
    <3>2. ASSUME NEW ci \in 1 .. m, id \in InputsOf(p.combines[ci])
          PROVE  \E cj \in 1 .. m + h : id \in InputsOf(q.combines[cj])
      BY <1>3, <1>10, <3>2
    <3>3. ASSUME NEW i \in 1 .. L, p.level[i] = id
          PROVE  \/ \E j \in 1 .. Len(q.level) : q.level[j] = id
                 \/ \E cj \in 1 .. m + h : id \in InputsOf(q.combines[cj])
      <4>1. CASE \E l \in 1 .. h : i = 2*l - 1 \/ i = 2*l
        <5>1. PICK l \in 1 .. h : i = 2*l - 1 \/ i = 2*l
          BY <4>1
        <5>2. id \in InputsOf(q.combines[m + l])
          BY <1>9, <3>3, <5>1
        <5> QED BY <1>4, <5>2
      <4>2. CASE ~ \E l \in 1 .. h : i = 2*l - 1 \/ i = 2*l
        <5>1. L = 2*h + 1 /\ i = L
          <6>1. \/ (i + 1) \div 2 \in 1 .. h /\ (i = 2 * ((i + 1) \div 2) - 1 \/ i = 2 * ((i + 1) \div 2))
                \/ L = 2*h + 1 /\ i = L
            BY <1>1
          <6> QED BY <4>2, <6>1
        <5>2. h + 1 \in 1 .. Len(q.level) /\ ~(h + 1 \in 1 .. h)
          BY <1>1, <5>1
        <5>3. q.level[h + 1] = p.level[L]
          BY <1>2, <5>2
        <5> QED BY <3>3, <5>1, <5>2, <5>3
      <4> QED BY <4>1, <4>2
    <3> QED BY <1>7, <3>1, <3>2, <3>3
  <2>3. id >= next \/ id < next
    BY <1>a
  <2> QED BY <2>1, <2>2, <2>3
<1>17. WellFormed(n, k+1, q)
  BY <1>1, <1>11 DEF WellFormed
<1>18. Partition(q)
  <2>1. \A id \in 0 .. q.next - 1 :
          \/ \E i \in 1 .. Len(q.level) : q.level[i] = id
          \/ \E ci \in 1 .. Len(q.combines) : id \in InputsOf(q.combines[ci])
    <3>1. \A id \in 0 .. next + h - 1 :
            \/ \E i \in 1 .. Len(q.level) : q.level[i] = id
            \/ \E ci \in 1 .. m + h : id \in InputsOf(q.combines[ci])
      BY <1>16
    <3>2. q.next - 1 = next + h - 1
      BY <1>a, <1>b
    <3> QED BY <1>b, <3>1, <3>2, Zenon
  <2>2. \A i \in 1 .. Len(q.level) : q.level[i] < q.next
    BY <1>b, <1>12
  <2> QED BY <1>1, <1>13, <1>14, <1>15, <2>1, <2>2 DEF Partition
<1> QED BY <1>17, <1>18

-----------------------------------------------------------------------------
(* The pairs of plan_tree are those of the index arithmetic.  A labelling is  *)
(* any function of the nodes that a carried node passes on unchanged: the     *)
(* leaves under a node, its value.                                          *)

PairsBelow(n, k) ==
  {nd \in (0 .. k-1) \X (0 .. n-1) : IsEven(nd) /\ Pos(nd) + 1 < LevelSize(n, Lvl(nd))}
KeepsUnpaired(n, G) ==
  \A l, pos \in Nat : pos < LevelSize(n, l) /\ Unpaired(n, <<l, pos>>) => G[<<l+1, pos \div 2>>] = G[<<l, pos>>]
Pairs(G, V, c, nd) == V[c[2]] = G[nd] /\ V[c[3]] = G[Sibling(nd)] /\ V[c[1]] = G[Parent(nd)]
Labelled(n, G, k, p, V) ==
  /\ \A id \in 0 .. n-1 : V[id] = G[<<0, id>>]
  /\ \A i \in 1 .. Len(p.level) : V[p.level[i]] = G[<<k, i-1>>]
  /\ \A ci \in 1 .. Len(p.combines) : \E nd \in PairsBelow(n, k) : Pairs(G, V, p.combines[ci], nd)
  /\ \A nd \in PairsBelow(n, k) : \E ci \in 1 .. Len(p.combines) : Pairs(G, V, p.combines[ci], nd)

(* A level has at most as many nodes as there are leaves.                    *)
LEMMA LevelAtMost ==
  ASSUME NEW n \in Nat \ {0}, NEW l \in Nat
  PROVE  LevelSize(n, l) <= n
<1> DEFINE P == 2^l
           c == (n + P - 1) \div P
<1>1. P \in Nat \ {0}
  BY PowNat, PowPos
<1> HIDE DEF P
<1>2. c \in Int /\ P*c <= n + P - 1
  BY <1>1
<1> HIDE DEF c
<1>3. c <= n
  <2>1. SUFFICES ASSUME n + 1 <= c PROVE FALSE
    BY <1>2
  <2>2. P*(n + 1) <= P*c
    BY <1>1, <1>2, <2>1
  <2>3. P*n >= n
    BY <1>1
  <2> QED BY <1>1, <1>2, <2>2, <2>3
<1> QED BY <1>3 DEF P, c, LevelSize

(* The pairs up to the next level.                                           *)
LEMMA PairsGrow ==
  ASSUME NEW n \in Nat \ {0}, NEW k \in Nat, NEW h \in Nat,
         LevelSize(n, k) = 2*h \/ LevelSize(n, k) = 2*h + 1
  PROVE  /\ PairsBelow(n, k+1) = PairsBelow(n, k) \cup {<<k, 2*i - 2>> : i \in 1 .. h}
         /\ PairsBelow(n, k) \cap {<<k, 2*i - 2>> : i \in 1 .. h} = {}
<1> DEFINE L == LevelSize(n, k)
           new == {<<k, 2*i - 2>> : i \in 1 .. h}
<1>1. L <= n /\ L \in Nat
  BY LevelAtMost, LevelHalves
<1>2. L = 2*h \/ L = 2*h + 1
  OBVIOUS
<1> HIDE DEF L
<1>3. ASSUME NEW nd \in PairsBelow(n, k+1) PROVE nd \in PairsBelow(n, k) \/ nd \in new
  <2>1. nd \in (0 .. k) \X (0 .. n-1) /\ Pos(nd) % 2 = 0 /\ Pos(nd) + 1 < LevelSize(n, Lvl(nd))
    BY <1>3 DEF PairsBelow, IsEven
  <2>2. nd = <<Lvl(nd), Pos(nd)>> /\ Lvl(nd) \in 0 .. k /\ Pos(nd) \in 0 .. n-1
    BY <2>1 DEF Lvl, Pos
  <2>3. CASE Lvl(nd) = k
    <3>1. Pos(nd) + 1 < L
      BY <2>1, <2>3 DEF L
    <3> DEFINE i == Pos(nd) \div 2 + 1
    <3>2. i \in 1 .. h /\ Pos(nd) = 2*i - 2
      BY <1>1, <1>2, <2>1, <2>2, <3>1
    <3> QED BY <2>2, <2>3, <3>2
  <2>4. CASE Lvl(nd) # k
    <3>1. nd \in (0 .. k-1) \X (0 .. n-1)
      BY <2>2, <2>4
    <3> QED BY <2>1, <3>1 DEF PairsBelow, IsEven
  <2> QED BY <2>3, <2>4
<1>4. ASSUME NEW nd \in PairsBelow(n, k) PROVE nd \in PairsBelow(n, k+1) /\ nd \notin new
  <2>1. nd \in (0 .. k-1) \X (0 .. n-1) /\ IsEven(nd) /\ Pos(nd) + 1 < LevelSize(n, Lvl(nd))
    BY <1>4 DEF PairsBelow
  <2>2. nd \in (0 .. k) \X (0 .. n-1) /\ nd[1] # k
    BY <2>1
  <2> QED BY <2>1, <2>2 DEF PairsBelow
<1>5. ASSUME NEW i \in 1 .. h PROVE <<k, 2*i - 2>> \in PairsBelow(n, k+1)
  <2> DEFINE nd == <<k, 2*i - 2>>
  <2>1. 2*i - 2 \in 0 .. n-1 /\ (2*i - 2) % 2 = 0 /\ 2*i - 2 + 1 < L
    BY <1>1, <1>2
  <2>2. nd \in (0 .. k) \X (0 .. n-1) /\ Lvl(nd) = k /\ Pos(nd) = 2*i - 2
    BY <2>1 DEF Lvl, Pos
  <2> HIDE DEF nd
  <2>3. nd \in PairsBelow(n, k+1)
    BY <2>1, <2>2 DEF PairsBelow, IsEven, L
  <2> QED BY <2>3 DEF nd
<1> QED BY <1>3, <1>4, <1>5

LEMMA PassKeepsLabels ==
  ASSUME NEW n \in Nat \ {0}, NEW k \in Nat, NEW p, NEW q, WellFormed(n, k, p), Partition(p),
         q \in Pass, Advances(p, q), Len(p.level) > 1,
         NEW G, KeepsUnpaired(n, G), NEW V, Labelled(n, G, k, p, V)
  PROVE  \E U : Labelled(n, G, k+1, q, U)
<1> DEFINE L == Len(p.level)
           h == L \div 2
           m == Len(p.combines)
           next == p.next
           U == [id \in 0 .. next + h - 1 |-> IF id < next THEN V[id] ELSE G[<<k+1, id - next>>]]
           new == {<<k, 2*i - 2>> : i \in 1 .. h}
<1> HIDE DEF L, h, m, next
<1>0. Passed(n, k, p, q, L, h, m)
  BY AfterPass DEF L, h, m
<1>1. /\ L \in Nat /\ m \in Nat /\ h \in Nat \ {0} /\ next \in Nat /\ q.next = next + h
      /\ next = n + m /\ Len(q.combines) = m + h /\ (L = 2*h \/ L = 2*h + 1) /\ L = LevelSize(n, k)
      /\ \A i \in 1 .. L : p.level[i] \in Nat
  BY <1>0, Zenon DEF Passed, next
<1>2. \A i \in 1 .. Len(q.level) :
        \/ i \in 1 .. h /\ q.level[i] = next + i - 1
        \/ i = h + 1 /\ L = 2*h + 1 /\ q.level[i] = p.level[L]
  BY <1>0, Zenon DEF Passed, next
<1>3. \A ci \in 1 .. m : ci \in 1 .. m + h /\ q.combines[ci] = p.combines[ci]
  BY <1>0, Zenon DEF Passed, next
<1>4. \A i \in 1 .. h :
        /\ m + i \in 1 .. m + h
        /\ q.combines[m + i] = <<next + i - 1, p.level[2*i - 1], p.level[2*i]>>
        /\ 2*i - 1 \in 1 .. L /\ 2*i \in 1 .. L
  BY <1>0, Zenon DEF Passed, next
<1>5. \A ci \in 1 .. m + h : ci \in 1 .. m \/ \E i \in 1 .. h : ci = m + i
  BY <1>0, Zenon DEF Passed, next
<1>6. /\ \A id \in 0 .. n-1 : V[id] = G[<<0, id>>]
      /\ \A i \in 1 .. L : V[p.level[i]] = G[<<k, i-1>>]
      /\ \A ci \in 1 .. m : \E nd \in PairsBelow(n, k) : Pairs(G, V, p.combines[ci], nd)
      /\ \A nd \in PairsBelow(n, k) : \E ci \in 1 .. m : Pairs(G, V, p.combines[ci], nd)
  BY Zenon DEF Labelled, L, m
<1>7. \A i \in 1 .. L : p.level[i] < next
  BY Zenon DEF Partition, L, next
<1>8. \A id \in 0 .. next - 1 : U[id] = V[id]
  BY <1>1
<1>9. \A i \in 1 .. h : U[next + i - 1] = G[<<k+1, i - 1>>]
  <2> SUFFICES ASSUME NEW i \in 1 .. h PROVE U[next + i - 1] = G[<<k+1, i - 1>>]
    OBVIOUS
  <2>1. next + i - 1 \in 0 .. next + h - 1 /\ ~(next + i - 1 < next) /\ next + i - 1 - next = i - 1
    BY <1>1
  <2>2. PICK id : id = next + i - 1
    OBVIOUS
  <2>3. U[id] = G[<<k+1, id - next>>]
    BY <2>1, <2>2
  <2> HIDE DEF U
  <2>4. id - next = i - 1
    BY <1>1, <2>2
  <2> QED BY <2>2, <2>3, <2>4, Zenon
<1> HIDE DEF U
<1>10. \A i \in 1 .. L : U[p.level[i]] = G[<<k, i-1>>]
  <2> SUFFICES ASSUME NEW i \in 1 .. L PROVE U[p.level[i]] = G[<<k, i-1>>]
    OBVIOUS
  <2>1. p.level[i] \in Nat /\ p.level[i] < next /\ next \in Nat
    BY <1>1, <1>7
  <2>2. p.level[i] \in 0 .. next - 1
    BY <2>1
  <2> QED BY <1>6, <1>8, <2>2
<1>11. \A ci \in 1 .. m : \A nd : Pairs(G, V, p.combines[ci], nd) => Pairs(G, U, q.combines[ci], nd)
  <2> SUFFICES ASSUME NEW ci \in 1 .. m, NEW nd, Pairs(G, V, p.combines[ci], nd)
               PROVE  Pairs(G, U, q.combines[ci], nd)
    OBVIOUS
  <2> DEFINE c == p.combines[ci]
  <2>1. c \in Triples
    <3>1. p.combines \in Seq(Triples)
      BY DEF WellFormed, Pass
    <3> QED BY <3>1, ElementOfSeq DEF m
  <2>2. c[1] \in Nat /\ c[2] \in Nat /\ c[3] \in Nat
    BY <2>1 DEF Triples
  <2>3. c[1] = n + ci - 1 /\ c[2] < c[1] /\ c[3] < c[1]
    BY DEF WellFormed, m
  <2>4. q.combines[ci] = c
    BY <1>3
  <2>5. V[c[2]] = G[nd] /\ V[c[3]] = G[Sibling(nd)] /\ V[c[1]] = G[Parent(nd)]
    BY DEF Pairs
  <2> HIDE DEF c
  <2>6. c[1] \in 0 .. next - 1 /\ c[2] \in 0 .. next - 1 /\ c[3] \in 0 .. next - 1
    BY <1>1, <2>2, <2>3
  <2> QED BY <1>8, <2>4, <2>5, <2>6 DEF Pairs
<1>12. \A i \in 1 .. h : Pairs(G, U, q.combines[m + i], <<k, 2*i - 2>>)
  <2> SUFFICES ASSUME NEW i \in 1 .. h PROVE Pairs(G, U, q.combines[m + i], <<k, 2*i - 2>>)
    OBVIOUS
  <2> DEFINE nd == <<k, 2*i - 2>>
             c == q.combines[m + i]
  <2>1. c[1] = next + i - 1 /\ c[2] = p.level[2*i - 1] /\ c[3] = p.level[2*i]
    BY <1>4
  <2>2. Sibling(nd) = <<k, 2*i - 1>> /\ Parent(nd) = <<k+1, i - 1>>
    <3>1. (2*i - 2) % 2 = 0 /\ (2*i - 2) \div 2 = i - 1 /\ 2*i - 2 + 1 = 2*i - 1
      OBVIOUS
    <3> QED BY <3>1 DEF Sibling, Parent, IsEven, Lvl, Pos
  <2>3. U[p.level[2*i - 1]] = G[<<k, 2*i - 1 - 1>>] /\ U[p.level[2*i]] = G[<<k, 2*i - 1>>]
    BY <1>4, <1>10
  <2>4. 2*i - 1 - 1 = 2*i - 2
    OBVIOUS
  <2> HIDE DEF c
  <2> QED BY <1>9, <2>1, <2>2, <2>3, <2>4 DEF Pairs, c
<1>13. PairsBelow(n, k+1) = PairsBelow(n, k) \cup new
  BY <1>1, PairsGrow
<1>14. \A id \in 0 .. n-1 : U[id] = G[<<0, id>>]
  <2>1. \A id \in 0 .. n-1 : id \in 0 .. next - 1
    <3>1. next = n + m /\ m \in Nat /\ n \in Nat
      BY <1>1
    <3> QED BY <3>1
  <2> QED BY <1>6, <1>8, <2>1
<1>15. \A i \in 1 .. Len(q.level) : U[q.level[i]] = G[<<k+1, i-1>>]
  <2> SUFFICES ASSUME NEW i \in 1 .. Len(q.level) PROVE U[q.level[i]] = G[<<k+1, i-1>>]
    OBVIOUS
  <2>1. CASE i \in 1 .. h /\ q.level[i] = next + i - 1
    BY <1>9, <2>1
  <2>2. CASE i = h + 1 /\ L = 2*h + 1 /\ q.level[i] = p.level[L]
    <3>1. L \in 1 .. L /\ L - 1 = 2*h /\ 2*h \in Nat /\ 2*h < LevelSize(n, k) /\ i - 1 = h /\ (2*h) \div 2 = h
      BY <1>1, <2>2
    <3>2. Unpaired(n, <<k, 2*h>>)
      <4>1. (2*h) % 2 = 0 /\ 2*h + 1 >= L /\ L = LevelSize(n, k)
        BY <1>1, <2>2
      <4> QED BY <4>1 DEF Unpaired, IsEven, Lvl, Pos
    <3>3. G[<<k+1, (2*h) \div 2>>] = G[<<k, 2*h>>]
      BY <3>1, <3>2 DEF KeepsUnpaired
    <3> QED BY <1>10, <2>2, <3>1, <3>3
  <2> QED BY <1>2, <2>1, <2>2
<1>16. \A ci \in 1 .. m + h : \E nd \in PairsBelow(n, k+1) : Pairs(G, U, q.combines[ci], nd)
  <2> SUFFICES ASSUME NEW ci \in 1 .. m + h PROVE \E nd \in PairsBelow(n, k+1) : Pairs(G, U, q.combines[ci], nd)
    OBVIOUS
  <2>1. CASE ci \in 1 .. m
    BY <1>6, <1>11, <1>13, <2>1
  <2>2. ASSUME NEW i \in 1 .. h, ci = m + i PROVE \E nd \in PairsBelow(n, k+1) : Pairs(G, U, q.combines[ci], nd)
    BY <1>12, <1>13, <2>2
  <2> QED BY <1>5, <2>1, <2>2
<1>17. \A nd \in PairsBelow(n, k+1) : \E ci \in 1 .. m + h : Pairs(G, U, q.combines[ci], nd)
  <2> SUFFICES ASSUME NEW nd \in PairsBelow(n, k+1) PROVE \E ci \in 1 .. m + h : Pairs(G, U, q.combines[ci], nd)
    OBVIOUS
  <2>1. CASE nd \in PairsBelow(n, k)
    BY <1>3, <1>6, <1>11, <2>1
  <2>2. CASE nd \in new
    <3>1. PICK i \in 1 .. h : nd = <<k, 2*i - 2>>
      BY <2>2
    <3> QED BY <1>4, <1>12, <3>1
  <2> QED BY <1>13, <2>1, <2>2
<1>18. Labelled(n, G, k+1, q, U)
  BY <1>1, <1>14, <1>15, <1>16, <1>17 DEF Labelled
<1> QED BY <1>18

LEMMA PassKeepsCount ==
  ASSUME NEW n \in Nat \ {0}, NEW k \in Nat, NEW p, NEW q, WellFormed(n, k, p),
         q \in Pass, Advances(p, q), Len(p.level) > 1,
         IsFiniteSet(PairsBelow(n, k)), Len(p.combines) = Cardinality(PairsBelow(n, k))
  PROVE  IsFiniteSet(PairsBelow(n, k+1)) /\ Len(q.combines) = Cardinality(PairsBelow(n, k+1))
<1> DEFINE L == Len(p.level)
           h == L \div 2
           m == Len(p.combines)
           new == {<<k, 2*i - 2>> : i \in 1 .. h}
<1> HIDE DEF L, h, m
<1>0. Passed(n, k, p, q, L, h, m)
  BY AfterPass DEF L, h, m
<1>1. m \in Nat /\ h \in Nat /\ Len(q.combines) = m + h /\ (LevelSize(n, k) = 2*h \/ LevelSize(n, k) = 2*h + 1)
  BY <1>0 DEF Passed
<1>2. PairsBelow(n, k+1) = PairsBelow(n, k) \cup new /\ PairsBelow(n, k) \cap new = {}
  BY <1>1, PairsGrow
<1>3. IsFiniteSet(new) /\ Cardinality(new) = h
  <2> DEFINE f == [i \in 1 .. h |-> <<k, 2*i - 2>>]
  <2>1. f \in Bijection(1 .. h, new)
    <3>1. \A i, j \in 1 .. h : f[i] = f[j] => i = j
      <4> SUFFICES ASSUME NEW i \in 1 .. h, NEW j \in 1 .. h, <<k, 2*i - 2>> = <<k, 2*j - 2>> PROVE i = j
        OBVIOUS
      <4>1. 2*i - 2 = 2*j - 2
        OBVIOUS
      <4> QED BY <1>1, <4>1
    <3>2. f \in [1 .. h -> new] /\ \A nd \in new : \E i \in 1 .. h : f[i] = nd
      OBVIOUS
    <3> HIDE DEF f, new
    <3> QED BY <3>1, <3>2, Zenon DEF Bijection, Injection, Surjection, IsInjective
  <2>2. IsFiniteSet(1 .. h) /\ Cardinality(1 .. h) = h
    <3>1. 1 \in Int /\ h \in Int /\ h >= 0
      BY <1>1
    <3>2. IsFiniteSet(1 .. h) /\ Cardinality(1 .. h) = IF 1 > h THEN 0 ELSE h - 1 + 1
      BY <3>1, FS_Interval, Zenon
    <3> QED BY <3>1, <3>2
  <2> HIDE DEF f, new
  <2> QED BY <2>1, <2>2, FS_Bijection DEF ExistsBijection
<1> HIDE DEF new
<1>4. /\ IsFiniteSet(PairsBelow(n, k) \cup new)
      /\ Cardinality(PairsBelow(n, k) \cup new) = m + h - Cardinality(PairsBelow(n, k) \cap new)
  BY <1>3, FS_Union DEF m
<1>5. Cardinality({}) = 0
  BY FS_EmptySet
<1>6. IsFiniteSet(PairsBelow(n, k+1)) /\ Cardinality(PairsBelow(n, k+1)) = m + h - 0
  BY <1>2, <1>4, <1>5, Zenon
<1> QED BY <1>1, <1>6

(* The first pass: nothing but the leaves.                                   *)
LEMMA FirstPassIs ==
  ASSUME NEW n \in Nat \ {0}
  PROVE  /\ WellFormed(n, 0, FirstPass(n)) /\ Partition(FirstPass(n))
         /\ IsFiniteSet(PairsBelow(n, 0)) /\ Len(FirstPass(n).combines) = Cardinality(PairsBelow(n, 0))
         /\ \A G : \E V : Labelled(n, G, 0, FirstPass(n), V)
<1> DEFINE p == FirstPass(n)
           lv == [i \in 1 .. n |-> i - 1]
<1>1. p = [level |-> lv, next |-> n, combines |-> <<>>]
  BY DEF FirstPass
<1>2. lv \in Seq(Nat) /\ Len(lv) = n /\ \A i \in 1 .. n : lv[i] = i - 1
  OBVIOUS
<1> HIDE DEF lv
<1>3. p.level = lv /\ p.next = n /\ p.combines = <<>> /\ Len(p.combines) = 0 /\ p \in Pass
  BY <1>1, <1>2 DEF Pass
<1> HIDE DEF p
<1>4. LevelSize(n, 0) = n
  <2>1. 2^0 = 1
    OBVIOUS
  <2>2. (n + 1 - 1) \div 1 = n
    OBVIOUS
  <2> QED BY <2>1, <2>2 DEF LevelSize
<1>5. PairsBelow(n, 0) = {}
  BY DEF PairsBelow
<1>6. WellFormed(n, 0, p)
  BY <1>2, <1>3, <1>4 DEF WellFormed
<1>7. Partition(p)
  <2>1. \A i \in 1 .. n : p.level[i] = i - 1
    BY <1>2, <1>3
  <2>2. \A id \in 0 .. n-1 : \E i \in 1 .. n : p.level[i] = id
    <3> SUFFICES ASSUME NEW id \in 0 .. n-1 PROVE \E i \in 1 .. n : p.level[i] = id
      OBVIOUS
    <3>1. id + 1 \in 1 .. n /\ id + 1 - 1 = id
      OBVIOUS
    <3> QED BY <2>1, <3>1
  <2>3. \A i, j \in 1 .. n : p.level[i] = p.level[j] => i = j
    BY <2>1
  <2>4. \A i \in 1 .. n : p.level[i] < n
    BY <2>1
  <2>5. 1 .. 0 = {}
    OBVIOUS
  <2>6. Len(p.level) = n /\ p.next = n /\ Len(p.combines) = 0
    BY <1>2, <1>3
  <2> QED BY <2>2, <2>3, <2>4, <2>5, <2>6 DEF Partition
<1>8. ASSUME NEW G PROVE \E V : Labelled(n, G, 0, p, V)
  <2> DEFINE V == [id \in 0 .. n-1 |-> G[<<0, id>>]]
  <2>1. \A i \in 1 .. n : V[lv[i]] = G[<<0, i-1>>]
    BY <1>2
  <2>2. \A id \in 0 .. n-1 : V[id] = G[<<0, id>>]
    OBVIOUS
  <2> HIDE DEF V
  <2>3. Labelled(n, G, 0, p, V)
    BY <1>2, <1>3, <1>5, <2>1, <2>2 DEF Labelled
  <2> QED BY <2>3
<1> QED BY <1>3, <1>5, <1>6, <1>7, <1>8, FS_EmptySet DEF p

(* Passes beyond the root change nothing.                                    *)
LEMMA PassStays ==
  ASSUME NEW n \in Nat \ {0}, NEW k \in Nat, NEW p, WellFormed(n, k, p), ~(Len(p.level) > 1),
         NEW G, KeepsUnpaired(n, G)
  PROVE  /\ NextPass(p) = p
         /\ WellFormed(n, k+1, p)
         /\ PairsBelow(n, k+1) = PairsBelow(n, k)
         /\ \A V : Labelled(n, G, k, p, V) => Labelled(n, G, k+1, p, V)
<1>1. LevelSize(n, k) \in Nat \ {0} /\ LevelSize(n, k+1) = (LevelSize(n, k) + 1) \div 2
  BY LevelHalves
<1>2. Len(p.level) = LevelSize(n, k)
  BY DEF WellFormed
<1>3. LevelSize(n, k) = 1 /\ Len(p.level) = 1 /\ LevelSize(n, k+1) = 1
  BY <1>1, <1>2
<1>4. NextPass(p) = p
  BY <1>3 DEF NextPass
<1>5. WellFormed(n, k+1, p)
  BY <1>3 DEF WellFormed
<1>6. PairsBelow(n, k+1) = PairsBelow(n, k)
  <2>1. PairsBelow(n, k+1) = PairsBelow(n, k) \cup {<<k, 2*i - 2>> : i \in 1 .. 0}
    <3>1. LevelSize(n, k) = 2*0 + 1 /\ 0 \in Nat
      BY <1>3
    <3> QED BY <3>1, PairsGrow
  <2>2. {<<k, 2*i - 2>> : i \in 1 .. 0} = {}
    OBVIOUS
  <2> QED BY <2>1, <2>2
<1>7. G[<<k+1, 0>>] = G[<<k, 0>>]
  <2>1. 0 < LevelSize(n, k) /\ Unpaired(n, <<k, 0>>) /\ 0 \div 2 = 0
    BY <1>3 DEF Unpaired, IsEven, Lvl, Pos
  <2> QED BY <2>1 DEF KeepsUnpaired
<1>8. ASSUME NEW V, Labelled(n, G, k, p, V) PROVE Labelled(n, G, k+1, p, V)
  <2>1. V[p.level[1]] = G[<<k, 1-1>>]
    BY <1>3, <1>8 DEF Labelled
  <2>2. \A i \in 1 .. Len(p.level) : V[p.level[i]] = G[<<k+1, i-1>>]
    <3>1. \A i \in 1 .. Len(p.level) : i = 1
      BY <1>3
    <3>2. 1 - 1 = 0
      OBVIOUS
    <3> QED BY <1>7, <2>1, <3>1, <3>2
  <2> QED BY <1>6, <1>8, <2>2 DEF Labelled
<1> QED BY <1>4, <1>5, <1>6, <1>8

(* After k passes the plan is the tree up to level k.                        *)
Built(n, G, k, p) ==
  /\ WellFormed(n, k, p) /\ Partition(p)
  /\ IsFiniteSet(PairsBelow(n, k)) /\ Len(p.combines) = Cardinality(PairsBelow(n, k))
  /\ \E V : Labelled(n, G, k, p, V)

LEMMA NextPassBuilds ==
  ASSUME NEW n \in Nat \ {0}, NEW G, KeepsUnpaired(n, G), NEW k \in Nat, NEW p, Built(n, G, k, p)
  PROVE  Built(n, G, k+1, NextPass(p))
<1>1. CASE Len(p.level) > 1
  <2>1. NextPass(p) \in Pass /\ Advances(p, NextPass(p))
    BY <1>1, PassAdvances DEF Built, WellFormed
  <2>2. WellFormed(n, k+1, NextPass(p)) /\ Partition(NextPass(p))
    BY <1>1, <2>1, PassKeepsForm DEF Built
  <2>3. IsFiniteSet(PairsBelow(n, k+1)) /\ Len(NextPass(p).combines) = Cardinality(PairsBelow(n, k+1))
    BY <1>1, <2>1, PassKeepsCount DEF Built
  <2>4. \E U : Labelled(n, G, k+1, NextPass(p), U)
    BY <1>1, <2>1, PassKeepsLabels DEF Built
  <2> QED BY <2>2, <2>3, <2>4 DEF Built
<1>2. CASE ~(Len(p.level) > 1)
  <2>1. /\ NextPass(p) = p
        /\ WellFormed(n, k+1, p)
        /\ PairsBelow(n, k+1) = PairsBelow(n, k)
        /\ \A V : Labelled(n, G, k, p, V) => Labelled(n, G, k+1, p, V)
    BY <1>2, PassStays DEF Built
  <2> QED BY <2>1 DEF Built
<1> QED BY <1>1, <1>2

LEMMA PassesBuild ==
  ASSUME NEW n \in Nat \ {0}, NEW G, KeepsUnpaired(n, G), NEW k \in 0 .. n
  PROVE  Built(n, G, k, Passes(n)[k])
<1> DEFINE f == Passes(n)
           T == {j \in 0 .. n : ~Built(n, G, j, f[j])}
<1>1. SUFFICES ASSUME T # {} PROVE FALSE
  OBVIOUS
<1>2. PICK j \in T : \A other \in T : j <= other
  <2>1. T \subseteq Nat
    OBVIOUS
  <2> HIDE DEF T
  <2> QED BY <1>1, <2>1, Least
<1>3. f = [i \in 0 .. n |-> IF i = 0 THEN FirstPass(n) ELSE NextPass(f[i-1])]
  BY PassesDef
<1> HIDE DEF f
<1>4. j \in 0 .. n /\ ~Built(n, G, j, f[j])
  OBVIOUS
<1>5. j # 0
  <2>1. f[0] = FirstPass(n)
    BY <1>3
  <2> QED BY <1>4, <2>1, FirstPassIs DEF Built
<1>6. j-1 \in 0 .. n /\ j-1 \in Nat /\ j-1+1 = j /\ ~(j <= j-1)
  BY <1>4, <1>5
<1>7. Built(n, G, j-1, f[j-1])
  <2>1. j-1 \notin T
    <3> HIDE DEF T
    <3> QED BY <1>2, <1>6
  <2> QED BY <1>6, <2>1
<1>8. f[j] = NextPass(f[j-1])
  BY <1>3, <1>4, <1>5
<1> HIDE DEF T
<1>9. Built(n, G, j-1+1, NextPass(f[j-1]))
  BY <1>6, <1>7, NextPassBuilds
<1> QED BY <1>4, <1>6, <1>8, <1>9

-----------------------------------------------------------------------------
(* The plan.                                                                *)

LEMMA PowBeats == \A k \in Nat : 2^k >= k + 1
<1> DEFINE T == {k \in Nat : ~(2^k >= k + 1)}
<1>1. SUFFICES ASSUME T # {} PROVE FALSE
  OBVIOUS
<1>2. PICK k \in T : \A other \in T : k <= other
  <2>1. T \subseteq Nat
    OBVIOUS
  <2> HIDE DEF T
  <2> QED BY <1>1, <2>1, Least
<1>3. k \in Nat /\ ~(2^k >= k + 1)
  OBVIOUS
<1>4. k # 0
  <2>1. 2^0 = 1
    OBVIOUS
  <2>2. 2^0 >= 0 + 1
    BY <2>1
  <2> HIDE DEF T
  <2> QED BY <1>3, <2>2
<1>5. k-1 \in Nat /\ k-1+1 = k /\ ~(k <= k-1)
  BY <1>3, <1>4
<1>6. 2^(k-1) >= k
  <2>1. k-1 \notin T
    <3> HIDE DEF T
    <3> QED BY <1>2, <1>5
  <2> QED BY <1>5, <2>1
<1>7. 2^k = 2 * 2^(k-1)
  <2>1. 2^(k-1+1) = 2 * 2^(k-1)
    BY <1>5, PowStep
  <2> QED BY <1>5, <2>1
<1>8. 2^(k-1) \in Nat
  BY <1>5, PowNat
<1> QED BY <1>3, <1>4, <1>6, <1>7, <1>8

(* The root is on the first level whose nodes span all leaves.               *)
LEMMA RootLevelIff ==
  ASSUME NEW n \in Nat \ {0}, NEW l \in Nat
  PROVE  IsRootLevel(n, l) <=> 2^l >= n
<1> DEFINE P == 2^l
<1>1. P \in Nat \ {0}
  BY PowNat, PowPos
<1> HIDE DEF P
<1>2. ((n + P - 1) \div P = 1) <=> P >= n
  <2> DEFINE c == (n + P - 1) \div P
  <2>1. c \in Int /\ P*c <= n + P - 1 /\ n + P - 1 < P*c + P
    BY <1>1
  <2> HIDE DEF c
  <2>2. CASE P >= n
    <3>1. c < 2
      <4>1. SUFFICES ASSUME c >= 2 PROVE FALSE
        BY <2>1
      <4>2. P*c >= P*2
        BY <1>1, <2>1, <4>1
      <4> QED BY <1>1, <2>1, <2>2, <4>2
    <3>2. c > 0
      <4>1. SUFFICES ASSUME c <= 0 PROVE FALSE
        BY <2>1
      <4>2. P*c <= P*0
        BY <1>1, <2>1, <4>1
      <4> QED BY <1>1, <2>1, <4>2
    <3> QED BY <2>1, <2>2, <3>1, <3>2 DEF c
  <2>3. CASE c = 1
    BY <1>1, <2>1, <2>3 DEF c
  <2> QED BY <2>2, <2>3 DEF c
<1> QED BY <1>2 DEF IsRootLevel, LevelSize, P

(* The cover of an id is what the leaves and the combines make it: CoverOf's   *)
(* recursion has one solution.                                              *)
SolvesCover(n, cs, V) ==
  /\ Len(cs) \in Nat
  /\ \A ci \in 1 .. Len(cs) :
       LET c == cs[ci]
       IN  c[1] = n + ci - 1 /\ c[2] \in 0 .. c[1] - 1 /\ c[3] \in 0 .. c[1] - 1
  /\ \A id \in 0 .. n-1 : V[id] = {id}
  /\ \A ci \in 1 .. Len(cs) : LET c == cs[ci] IN V[c[1]] = V[c[2]] \cup V[c[3]]

LEMMA CoverIs ==
  ASSUME NEW n \in Nat \ {0}, NEW cs, NEW V, SolvesCover(n, cs, V)
  PROVE  \A id \in 0 .. n - 1 + Len(cs) : CoverOf(n, cs)[id] = V[id]
<1> USE DEF SolvesCover
<1> DEFINE m == Len(cs)
           Ids == 0 .. n - 1 + m
           Is(f) == f = [id \in Ids |-> IF id < n THEN {id}
                                        ELSE LET c == cs[id - n + 1] IN f[c[2]] \cup f[c[3]]]
           U == [id \in Ids |-> V[id]]
           cover == CoverOf(n, cs)
<1>1. m \in Nat /\ Ids \subseteq Nat
  OBVIOUS
<1>2. ASSUME NEW id \in Ids, ~(id < n)
      PROVE  /\ id - n + 1 \in 1 .. m /\ cs[id - n + 1][1] = id
             /\ cs[id - n + 1][2] \in Ids /\ cs[id - n + 1][2] < id
             /\ cs[id - n + 1][3] \in Ids /\ cs[id - n + 1][3] < id
  <2>1. id - n + 1 \in 1 .. m /\ n + (id - n + 1) - 1 = id
    BY <1>1, <1>2
  <2> DEFINE c == cs[id - n + 1]
  <2>2. c[1] = id /\ c[2] \in 0 .. c[1] - 1 /\ c[3] \in 0 .. c[1] - 1
    BY <2>1
  <2> HIDE DEF c
  <2>3. c[2] \in Ids /\ c[3] \in Ids /\ c[2] < id /\ c[3] < id
    BY <1>1, <2>2
  <2> QED BY <2>1, <2>2, <2>3 DEF c
<1>3. Is(U)
  <2>1. ASSUME NEW id \in Ids
        PROVE  V[id] = IF id < n THEN {id}
                       ELSE LET c == cs[id - n + 1] IN U[c[2]] \cup U[c[3]]
    <3>1. CASE id < n
      <4>1. id \in 0 .. n-1
        BY <1>1, <3>1
      <4> QED BY <3>1, <4>1
    <3>2. CASE ~(id < n)
      <4> DEFINE c == cs[id - n + 1]
      <4>1. c[1] = id /\ c[2] \in Ids /\ c[3] \in Ids /\ id - n + 1 \in 1 .. m
        BY <1>2, <3>2
      <4>2. V[c[1]] = V[c[2]] \cup V[c[3]]
        BY <4>1
      <4>3. U[c[2]] = V[c[2]] /\ U[c[3]] = V[c[3]]
        BY <4>1
      <4> HIDE DEF c, U
      <4>4. V[id] = U[c[2]] \cup U[c[3]]
        BY <4>1, <4>2, <4>3
      <4> QED BY <3>2, <4>4 DEF c
    <3> QED BY <3>1, <3>2
  <2> QED BY <2>1
<1>4. cover = CHOOSE f : Is(f)
  BY DEF CoverOf
<1> HIDE DEF Is
<1>5. Is(cover)
  BY <1>3, <1>4
<1> HIDE DEF cover, U
<1>6. \A id \in Ids : cover[id] = IF id < n THEN {id}
                                 ELSE LET c == cs[id - n + 1] IN cover[c[2]] \cup cover[c[3]]
  BY <1>5 DEF Is
<1>7. \A id \in Ids : cover[id] = V[id]
  <2> DEFINE T == {id \in Ids : cover[id] # V[id]}
  <2>1. SUFFICES ASSUME T # {} PROVE FALSE
    OBVIOUS
  <2>2. PICK id \in T : \A other \in T : id <= other
    <3>1. T \subseteq Nat
      BY <1>1
    <3> HIDE DEF T
    <3> QED BY <2>1, <3>1, Least
  <2>3. id \in Ids /\ cover[id] # V[id]
    OBVIOUS
  <2>4. CASE id < n
    <3>1. id \in 0 .. n-1
      BY <1>1, <2>3, <2>4
    <3> QED BY <1>6, <2>3, <2>4, <3>1
  <2>5. CASE ~(id < n)
    <3> DEFINE c == cs[id - n + 1]
    <3>1. c[1] = id /\ c[2] \in Ids /\ c[2] < id /\ c[3] \in Ids /\ c[3] < id /\ id - n + 1 \in 1 .. m
      BY <1>2, <2>3, <2>5
    <3>2. V[c[1]] = V[c[2]] \cup V[c[3]]
      BY <3>1
    <3>3. cover[id] = cover[c[2]] \cup cover[c[3]]
      BY <1>6, <2>3, <2>5
    <3> HIDE DEF c
    <3>4. id \in Nat /\ c[2] \in Nat /\ c[3] \in Nat
      BY <1>1, <2>3, <3>1
    <3>5. c[2] \notin T /\ c[3] \notin T
      <4>1. ~(id <= c[2]) /\ ~(id <= c[3])
        BY <3>1, <3>4
      <4> HIDE DEF T
      <4> QED BY <2>2, <4>1
    <3>6. cover[c[2]] = V[c[2]] /\ cover[c[3]] = V[c[3]]
      BY <3>1, <3>5
    <3> QED BY <2>3, <3>1, <3>2, <3>3, <3>6
  <2> QED BY <2>4, <2>5
<1> QED BY <1>7 DEF cover

(* plan_tree's list of combines is a binary tree over the ids: every combine   *)
(* has its own number and two earlier, different operands; every id but the   *)
(* root is the operand of one combine.                                      *)
PlanShape(n, cs, root) ==
  /\ cs \in Seq(Triples) /\ Len(cs) \in Nat
  /\ \A ci \in 1 .. Len(cs) :
       LET c == cs[ci]
       IN  c[1] = n + ci - 1 /\ c[2] \in 0 .. c[1] - 1 /\ c[3] \in 0 .. c[1] - 1 /\ c[2] # c[3]
  /\ \A ci, cj \in 1 .. Len(cs) : InputsOf(cs[ci]) \cap InputsOf(cs[cj]) # {} => ci = cj
  /\ root \in 0 .. n - 1 + Len(cs)
  /\ \A ci \in 1 .. Len(cs) : root \notin InputsOf(cs[ci])
  /\ \A id \in 0 .. n - 1 + Len(cs) : id # root => \E ci \in 1 .. Len(cs) : id \in InputsOf(cs[ci])

(* The labels of a plan.                                                    *)
PlanLabels(n, G, cs, root, V) ==
  /\ \A id \in 0 .. n-1 : V[id] = G[<<0, id>>]
  /\ V[root] = G[<<n, 0>>]
  /\ \A ci \in 1 .. Len(cs) : \E nd \in PairsBelow(n, n) : Pairs(G, V, cs[ci], nd)
  /\ \A nd \in PairsBelow(n, n) : \E ci \in 1 .. Len(cs) : Pairs(G, V, cs[ci], nd)

LEMMA PlanIsTree ==
  ASSUME NEW n \in Nat \ {0}, NEW G, KeepsUnpaired(n, G)
  PROVE  LET cs == PlanTree(n).combines
             root == PlanTree(n).root
         IN  /\ PlanShape(n, cs, root)
             /\ IsFiniteSet(PairsBelow(n, n)) /\ Len(cs) = Cardinality(PairsBelow(n, n))
             /\ \E V : PlanLabels(n, G, cs, root, V)
<1> DEFINE p == Passes(n)[n]
           cs == PlanTree(n).combines
           root == PlanTree(n).root
<1>1. Built(n, G, n, p)
  <2>1. n \in 0 .. n
    OBVIOUS
  <2> QED BY <2>1, PassesBuild
<1>2. LevelSize(n, n) = 1
  <2>1. 2^n >= n
    BY PowBeats, PowNat
  <2> QED BY <2>1, RootLevelIff DEF IsRootLevel
<1>3. cs = p.combines /\ root = Head(p.level)
  BY DEF PlanTree
<1> HIDE DEF p, cs, root
<1>4. /\ p \in Pass /\ p.next = n + Len(p.combines) /\ Len(p.level) = 1
      /\ \A ci \in 1 .. Len(p.combines) :
           LET c == p.combines[ci]
           IN  c[1] = n + ci - 1 /\ c[2] < c[1] /\ c[3] < c[1] /\ c[2] # c[3]
  BY <1>1, <1>2 DEF Built, WellFormed
<1>5. p.level \in Seq(Nat) /\ p.combines \in Seq(Triples)
  BY <1>4 DEF Pass
<1>6. Len(cs) \in Nat /\ cs \in Seq(Triples)
  BY <1>3, <1>5, LenProperties
<1>7. root = p.level[1] /\ root \in Nat
  <2>1. 1 \in 1 .. Len(p.level) /\ p.level # <<>>
    <3>1. Len(<<>>) = 0
      OBVIOUS
    <3>2. Len(p.level) # Len(<<>>)
      BY <1>4, <3>1
    <3>3. p.level # <<>>
      BY <3>2
    <3>4. 1 \in 1 .. Len(p.level)
      BY <1>4
    <3> QED BY <3>3, <3>4
  <2>2. p.level[1] \in Nat
    BY <1>5, <2>1, ElementOfSeq
  <2> QED BY <1>3, <1>5, <2>1, <2>2, HeadTailProperties
<1>8. Partition(p)
  BY <1>1 DEF Built
<1>9. \A i \in 1 .. Len(p.level) : i = 1
  BY <1>4
<1>10. 1 \in 1 .. Len(p.level)
  BY <1>4
<1>11. PlanShape(n, cs, root)
  <2>1. ASSUME NEW ci \in 1 .. Len(cs)
        PROVE  LET c == cs[ci]
               IN  c[1] = n + ci - 1 /\ c[2] \in 0 .. c[1] - 1 /\ c[3] \in 0 .. c[1] - 1 /\ c[2] # c[3]
    <3> DEFINE c == cs[ci]
    <3>1. c \in Triples
      BY <1>6, ElementOfSeq
    <3>2. c[1] \in Nat /\ c[2] \in Nat /\ c[3] \in Nat
      BY <3>1 DEF Triples
    <3>3. c[1] = n + ci - 1 /\ c[2] < c[1] /\ c[3] < c[1] /\ c[2] # c[3]
      BY <1>3, <1>4
    <3> HIDE DEF c
    <3>4. c[2] \in 0 .. c[1] - 1 /\ c[3] \in 0 .. c[1] - 1
      BY <3>2, <3>3
    <3> QED BY <3>3, <3>4 DEF c
  <2>2. \A ci, cj \in 1 .. Len(cs) : InputsOf(cs[ci]) \cap InputsOf(cs[cj]) # {} => ci = cj
    BY <1>3, <1>8 DEF Partition
  <2>3. root \in 0 .. n - 1 + Len(cs)
    <3>1. root < n + Len(cs)
      BY <1>3, <1>4, <1>7, <1>8, <1>10 DEF Partition
    <3> QED BY <1>6, <1>7, <3>1
  <2>4. \A ci \in 1 .. Len(cs) : root \notin InputsOf(cs[ci])
    BY <1>3, <1>7, <1>8, <1>10 DEF Partition
  <2>5. \A id \in 0 .. n - 1 + Len(cs) : id # root => \E ci \in 1 .. Len(cs) : id \in InputsOf(cs[ci])
    <3>1. p.next - 1 = n - 1 + Len(cs)
      BY <1>3, <1>4, <1>6
    <3> QED BY <1>3, <1>7, <1>8, <1>9, <3>1 DEF Partition
  <2> QED BY <1>6, <2>1, <2>2, <2>3, <2>4, <2>5 DEF PlanShape
<1>12. IsFiniteSet(PairsBelow(n, n)) /\ Len(cs) = Cardinality(PairsBelow(n, n))
  BY <1>1, <1>3 DEF Built
<1>13. \E V : PlanLabels(n, G, cs, root, V)
  <2>1. PICK V : Labelled(n, G, n, p, V)
    BY <1>1 DEF Built
  <2>2. V[p.level[1]] = G[<<n, 1-1>>] /\ 1 - 1 = 0
    BY <1>10, <2>1 DEF Labelled
  <2>3. PlanLabels(n, G, cs, root, V)
    BY <1>3, <1>7, <2>1, <2>2 DEF Labelled, PlanLabels
  <2> QED BY <2>3
<1> QED BY <1>11, <1>12, <1>13 DEF cs, root

(* The leaves under a node are a labelling, and that of a plan is CoverOf.     *)
LeafLabels(n) == [nd \in Nat \X Nat |-> LeavesUnder(n, nd)]

LEMMA LabelsOfLeaves ==
  ASSUME NEW n \in Nat \ {0}
  PROVE  KeepsUnpaired(n, LeafLabels(n))
<1> SUFFICES ASSUME NEW l \in Nat, NEW pos \in Nat, pos < LevelSize(n, l), Unpaired(n, <<l, pos>>)
             PROVE  LeafLabels(n)[<<l+1, pos \div 2>>] = LeafLabels(n)[<<l, pos>>]
  BY DEF KeepsUnpaired
<1>1. LeavesUnder(n, Parent(<<l, pos>>)) = LeavesUnder(n, <<l, pos>>)
  BY LeavesOfParent
<1>2. Parent(<<l, pos>>) = <<l+1, pos \div 2>>
  BY DEF Parent, Lvl, Pos
<1>3. l+1 \in Nat /\ pos \div 2 \in Nat
  BY ParentOnNextLevel
<1> QED BY <1>1, <1>2, <1>3 DEF LeafLabels

LEMMA PairBelowIs ==
  ASSUME NEW n \in Nat \ {0}, NEW k \in Nat, NEW nd \in PairsBelow(n, k)
  PROVE  /\ nd \in Nat \X Nat /\ Sibling(nd) \in Nat \X Nat /\ Parent(nd) \in Nat \X Nat
         /\ nd = <<Lvl(nd), Pos(nd)>> /\ Lvl(nd) \in Nat /\ Pos(nd) \in Nat
         /\ IsEven(nd) /\ ~Unpaired(n, nd) /\ Pos(nd) + 1 < LevelSize(n, Lvl(nd))
         /\ LeavesUnder(n, Parent(nd)) = LeavesUnder(n, nd) \cup LeavesUnder(n, Sibling(nd))
<1>1. nd \in (0 .. k-1) \X (0 .. n-1) /\ IsEven(nd) /\ Pos(nd) + 1 < LevelSize(n, Lvl(nd))
  BY DEF PairsBelow
<1>2. nd = <<Lvl(nd), Pos(nd)>> /\ Lvl(nd) \in Nat /\ Pos(nd) \in Nat
  BY <1>1 DEF Lvl, Pos
<1> DEFINE l == Lvl(nd)
           pos == Pos(nd)
<1>3. LevelSize(n, l) \in Nat
  BY <1>2, LevelHalves
<1>4. ~Unpaired(n, nd)
  BY <1>1, <1>2, <1>3 DEF Unpaired
<1>5. Sibling(nd) = <<l, pos + 1>> /\ Parent(nd) = <<l + 1, pos \div 2>>
  BY <1>1 DEF Sibling, Parent
<1> HIDE DEF l, pos
<1>6. l \in Nat /\ pos \in Nat /\ nd = <<l, pos>>
  BY <1>2 DEF l, pos
<1>7. LeavesUnder(n, Parent(nd)) = LeavesUnder(n, nd) \cup LeavesUnder(n, Sibling(nd))
  BY <1>4, <1>6, LeavesOfParent
<1>8. nd \in Nat \X Nat /\ Sibling(nd) \in Nat \X Nat /\ Parent(nd) \in Nat \X Nat
  BY <1>5, <1>6
<1> QED BY <1>1, <1>2, <1>4, <1>7, <1>8

LEMMA PlanCover ==
  ASSUME NEW n \in Nat \ {0}
  PROVE  LET cs == PlanTree(n).combines
         IN  \E V : /\ PlanLabels(n, LeafLabels(n), cs, PlanTree(n).root, V)
                    /\ \A id \in 0 .. n - 1 + Len(cs) : CoverOf(n, cs)[id] = V[id]
<1> DEFINE cs == PlanTree(n).combines
           root == PlanTree(n).root
           G == LeafLabels(n)
<1>1. PlanShape(n, cs, root) /\ \E V : PlanLabels(n, G, cs, root, V)
  BY LabelsOfLeaves, PlanIsTree
<1>2. PICK V : PlanLabels(n, G, cs, root, V)
  BY <1>1
<1> HIDE DEF cs, root, G
<1>3. \A id \in 0 .. n-1 : V[id] = {id}
  <2> SUFFICES ASSUME NEW id \in 0 .. n-1 PROVE V[id] = {id}
    OBVIOUS
  <2>1. V[id] = G[<<0, id>>]
    BY <1>2 DEF PlanLabels
  <2>2. LeavesUnder(n, <<0, id>>) = {id}
    <3>1. 2^0 = 1
      OBVIOUS
    <3>2. \A leaf \in 0 .. n-1 : leaf \div 1 = leaf
      OBVIOUS
    <3> QED BY <3>1, <3>2 DEF LeavesUnder, Lvl, Pos
  <2> QED BY <2>1, <2>2 DEF G, LeafLabels
<1>4. \A ci \in 1 .. Len(cs) : LET c == cs[ci] IN V[c[1]] = V[c[2]] \cup V[c[3]]
  <2> SUFFICES ASSUME NEW ci \in 1 .. Len(cs)
               PROVE  LET c == cs[ci] IN V[c[1]] = V[c[2]] \cup V[c[3]]
    OBVIOUS
  <2>1. PICK nd \in PairsBelow(n, n) : Pairs(G, V, cs[ci], nd)
    BY <1>2 DEF PlanLabels
  <2>2. /\ nd \in Nat \X Nat /\ Sibling(nd) \in Nat \X Nat /\ Parent(nd) \in Nat \X Nat
        /\ LeavesUnder(n, Parent(nd)) = LeavesUnder(n, nd) \cup LeavesUnder(n, Sibling(nd))
    BY PairBelowIs
  <2> QED BY <2>1, <2>2 DEF Pairs, G, LeafLabels
<1>5. \A id \in 0 .. n - 1 + Len(cs) : CoverOf(n, cs)[id] = V[id]
  <2>1. Len(cs) \in Nat
    BY <1>1 DEF PlanShape
  <2>2. \A ci \in 1 .. Len(cs) :
          LET c == cs[ci]
          IN  c[1] = n + ci - 1 /\ c[2] \in 0 .. c[1] - 1 /\ c[3] \in 0 .. c[1] - 1
    BY <1>1 DEF PlanShape
  <2>3. SolvesCover(n, cs, V)
    BY <1>3, <1>4, <2>1, <2>2, Zenon DEF SolvesCover
  <2> QED BY <2>3, CoverIs
<1> QED BY <1>2, <1>5 DEF cs, root, G

-----------------------------------------------------------------------------
(* The root.                                                               *)

(* Above the root every level has one node.                                  *)
LEMMA RootStays ==
  ASSUME NEW L \in Nat \ {0}, NEW d \in Nat, IsRootLevel(L, d), NEW e \in Nat, e >= d
  PROVE  IsRootLevel(L, e)
<1> DEFINE T == {l \in Nat : l >= d /\ LevelSize(L, l) # 1}
<1>1. SUFFICES ASSUME T # {} PROVE FALSE
  BY DEF IsRootLevel
<1>2. PICK l \in T : \A other \in T : l <= other
  <2>1. T \subseteq Nat
    OBVIOUS
  <2> HIDE DEF T
  <2> QED BY <1>1, <2>1, Least
<1>3. l \in Nat /\ l >= d /\ LevelSize(L, l) # 1
  OBVIOUS
<1>4. l # d
  BY <1>3 DEF IsRootLevel
<1> DEFINE h == l-1
<1>5. h \in Nat /\ h >= d /\ h < l /\ h+1 = l
  BY <1>3, <1>4
<1> HIDE DEF h
<1>6. h \notin T
  <2> HIDE DEF T
  <2> QED BY <1>2, <1>3, <1>5
<1>7. LevelSize(L, h) = 1
  BY <1>5, <1>6
<1>8. LevelSize(L, h+1) = (1 + 1) \div 2
  BY <1>5, <1>7, LevelHalves
<1> QED BY <1>3, <1>5, <1>8

(* A node of a root level covers all leaves.                                *)
LEMMA RootLevelCovers ==
  ASSUME NEW L \in Nat \ {0}, NEW d \in Nat, IsRootLevel(L, d)
  PROVE  LeavesUnder(L, <<d, 0>>) = 0 .. L-1
<1>1. \A leaf \in 0 .. L-1 : leaf \div 2^d = 0
  <2> SUFFICES ASSUME NEW leaf \in 0 .. L-1 PROVE leaf \div 2^d = 0
    OBVIOUS
  <2>1. leaf \div 2^d \in Nat /\ leaf \div 2^d < 1
    BY LeafOnLevel DEF IsRootLevel
  <2> QED BY <2>1
<1> QED BY <1>1 DEF LeavesUnder, Lvl, Pos

(* Two nodes of a level have no leaf in common.                              *)
LEMMA LevelIsDisjoint ==
  ASSUME NEW L \in Nat \ {0}, NEW d \in Nat, NEW p, NEW q, p # q
  PROVE  LeavesUnder(L, <<d, p>>) \cap LeavesUnder(L, <<d, q>>) = {}
BY DEF LeavesUnder, Lvl, Pos
=============================================================================
