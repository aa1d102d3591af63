---------------------------- MODULE ReduceTree ----------------------------
(***************************************************************************)
(* The fixed combine tree over n leaves and the way its nodes are shared   *)
(* out among w workers: pure arithmetic on (level, pos) identities, no     *)
(* state.  A node <<lvl, pos>> covers the leaves pos*2^lvl ..              *)
(* (pos+1)*2^lvl - 1 that exist; <<lvl, pos>> and <<lvl, pos+1>>, pos even, *)
(* are the two operands of <<lvl+1, pos \div 2>>.                          *)
(*                                                                         *)
(* Workers are 0 .. w-1 (the addresses w0, w1, ... of the code).           *)
(***************************************************************************)
EXTENDS Integers, FiniteSets

(* (n + (1 << lvl) - 1) >> lvl : how many nodes level lvl has.             *)
LevelSize(n, lvl) == (n + 2^lvl - 1) \div 2^lvl

IsRootLevel(n, lvl) == LevelSize(n, lvl) = 1

Lvl(nd) == nd[1]
Pos(nd) == nd[2]
IsEven(nd) == Pos(nd) % 2 = 0
Parent(nd) == <<Lvl(nd) + 1, Pos(nd) \div 2>>
Sibling(nd) == IF IsEven(nd) THEN <<Lvl(nd), Pos(nd) + 1>> ELSE <<Lvl(nd), Pos(nd) - 1>>

(* The last node of an odd level has no sibling and is carried up.         *)
UnpairedTooEarly(n, nd) == IsEven(nd) /\ Pos(nd) + 2 >= LevelSize(n, Lvl(nd))
Unpaired(n, nd) == IsEven(nd) /\ Pos(nd) + 1 >= LevelSize(n, Lvl(nd))

(* Nodes of the tree whose root is at level depth, and the leaves of one.  *)
NodesOf(n, depth) == {nd \in (0 .. depth) \X (0 .. n-1) : Pos(nd) < LevelSize(n, Lvl(nd))}
LeavesUnder(n, nd) == {leaf \in 0 .. n-1 : leaf \div 2^Lvl(nd) = Pos(nd)}

(* A value of the reduction, by the leaves it covers: a node carried up      *)
(* unchanged is no new value, it covers what its operand covers.            *)
Blocks(n, depth) == {LeavesUnder(n, nd) : nd \in NodesOf(n, depth)}

-----------------------------------------------------------------------------
(* Leaf ranges: worker i owns the leaves bounds[i] .. bounds[i+1]-1.       *)

MakeBounds(n, w) == [i \in 0 .. w |-> (i * n) \div w]

(* bisect_right on the (ascending) bounds, then clamped to a worker index. *)
BisectLeft(bounds, w, leaf) == Cardinality({i \in 0 .. w : bounds[i] < leaf})
BisectRight(bounds, w, leaf) == Cardinality({i \in 0 .. w : bounds[i] <= leaf})
WorkerOf(leaf, bounds, w) ==
  LET i == BisectRight(bounds, w, leaf) - 1
  IN  IF i < 0 THEN 0 ELSE IF i > w-1 THEN w-1 ELSE i

(* A node belongs to the worker that holds its leftmost leaf.              *)
OwnerOfPos(n, w, nd) == WorkerOf(Pos(nd), MakeBounds(n, w), w)
Owner(n, w, nd) == WorkerOf(Pos(nd) * 2^Lvl(nd), MakeBounds(n, w), w)

(* The parent of a pair is formed by the owner of its even child.          *)
ParentOwner(n, w, nd) == Owner(n, w, <<Lvl(nd), Pos(nd) - (Pos(nd) % 2)>>)

SliceItems(n, w, i) == {leaf \in 0 .. n-1 : WorkerOf(leaf, MakeBounds(n, w), w) = i}

(* The same leaves in key order, as the worker gets them.                   *)
LeafRange(n, w, i) ==
  LET bounds == MakeBounds(n, w)
  IN  [k \in 1 .. bounds[i+1] - bounds[i] |-> bounds[i] + k - 1]

-----------------------------------------------------------------------------
(* The bounded overlay of the pinned pool: reduction partners, hypercube   *)
(* lifelines and the driver.                                               *)

FlipBit(i, k) == IF (i \div 2^k) % 2 = 0 THEN i + 2^k ELSE i - 2^k

LifelinesUp(i, w) == {i + 2^k : k \in {j \in 0 .. w : 2^j < w}} \cap (0 .. w-1)
LifelineNeighbors(i, w) == {FlipBit(i, k) : k \in {j \in 0 .. w : 2^j < w}} \cap (0 .. w-1)

(* The nodes worker i ships to a peer while reducing: reduction_edges      *)
(* replays the reduction and records the destination of every send.  A     *)
(* node is always formed by its owner, so the replay comes to this.        *)
EveryOddNode(n, w, depth, i) ==
  {nd \in NodesOf(n, depth) : ~IsRootLevel(n, Lvl(nd)) /\ ~IsEven(nd) /\ Owner(n, w, nd) = i}
ShippedNodes(n, w, depth, i) ==
  {nd \in NodesOf(n, depth) :
     /\ ~IsRootLevel(n, Lvl(nd))
     /\ ~IsEven(nd)
     /\ Owner(n, w, nd) = i
     /\ ParentOwner(n, w, nd) # i}
ReductionEdges(n, w, depth, i) == {ParentOwner(n, w, nd) : nd \in ShippedNodes(n, w, depth, i)}

(* The workers that worker i of a pinned pool can send to (the driver, which *)
(* is always in the outbox, is not a worker).                              *)
LifelinesOnly(n, w, depth, i) == LifelineNeighbors(i, w)
WorkerOutbox(n, w, depth, i) == (ReductionEdges(n, w, depth, i) \cup LifelineNeighbors(i, w)) \ {i}
=============================================================================
