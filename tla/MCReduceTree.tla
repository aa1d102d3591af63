--------------------------- MODULE MCReduceTree ---------------------------
(***************************************************************************)
(* The arithmetic of ReduceTree, checked on every plan of up to MaxN leaves *)
(* and up to MaxW workers.  A state is one plan size; the next-state        *)
(* relation walks over the sizes.                                          *)
(***************************************************************************)
EXTENDS ReduceTree, PlanTree

CONSTANTS
  MaxN,  \* bound: leaves
  MaxW   \* bound: workers

VARIABLES n, w

Init == n = 1 /\ w = 1
MoreLeaves == n < MaxN /\ n' = n + 1 /\ UNCHANGED w
MoreWorkers == w < MaxW /\ w < n /\ w' = w + 1 /\ UNCHANGED n
Next == MoreLeaves \/ MoreWorkers
Spec == Init /\ [][Next]_<<n, w>>

Workers == 0 .. w-1
Log2Up(k) == CHOOSE d \in 0 .. k : 2^d >= k /\ \A c \in 0 .. d-1 : 2^c < k
Depth == Log2Up(n)
Nodes == NodesOf(n, Depth)
InTree == {nd \in Nodes : ~IsRootLevel(n, Lvl(nd))}

-----------------------------------------------------------------------------
(* The tree's levels halve down to one root, each node's leaves are those of *)
(* its operands, and no leaf is left out (the shifts of _level_size, feed    *)
(* and settle).                                                            *)
TreeIsSound ==
  /\ IsRootLevel(n, Depth) /\ \A lvl \in 0 .. Depth-1 : LevelSize(n, lvl) > 1
  /\ LeavesUnder(n, <<Depth, 0>>) = 0 .. n-1
  /\ \A nd \in InTree :
       /\ LeavesUnder(n, nd) # {}
       /\ LeavesUnder(n, Parent(nd)) =
            LeavesUnder(n, nd) \cup IF Unpaired(n, nd) THEN {} ELSE LeavesUnder(n, Sibling(nd))

(* plan_tree's list of combines and the index arithmetic of the lazy and peer *)
(* reducers are the same tree: the same pairs, left operand first, each once. *)
PlanTreeAgrees ==
  LET plan == PlanTree(n)
      cover == CoverOf(n, plan.combines)
      pairs == {nd \in InTree : IsEven(nd) /\ ~Unpaired(n, nd)}
  IN  /\ {<<cover[c[2]], cover[c[3]]>> : c \in ToSet(plan.combines)}
           = {<<LeavesUnder(n, nd), LeavesUnder(n, Sibling(nd))>> : nd \in pairs}
      /\ Len(plan.combines) = Cardinality(pairs)
      /\ cover[plan.root] = 0 .. n-1

(* worker_of inverts make_bounds: each worker's slice is its contiguous,     *)
(* non-empty range, no range is more than one leaf longer than another, and  *)
(* together they are all the leaves (docstring of make_bounds).              *)
SlicesPartition ==
  LET bounds == MakeBounds(n, w)
  IN  /\ \A i \in Workers :
           /\ SliceItems(n, w, i) = {LeafRange(n, w, i)[k] : k \in DOMAIN LeafRange(n, w, i)}
           /\ SliceItems(n, w, i) = bounds[i] .. bounds[i+1] - 1
           /\ Cardinality(SliceItems(n, w, i)) \in {n \div w, (n + w - 1) \div w}
      /\ UNION {SliceItems(n, w, i) : i \in Workers} = 0 .. n-1

(* A hand-off always goes to a lower worker, so no two workers wait for each *)
(* other's partials, and only worker 0 owns the root.                       *)
HandOffsGoDown ==
  /\ Owner(n, w, <<Depth, 0>>) = 0
  /\ \A nd \in InTree : ParentOwner(n, w, nd) <= Owner(n, w, nd)
  /\ \A nd \in InTree : Owner(n, w, Parent(nd)) = ParentOwner(n, w, nd)

(* "Only the O(log N) boundary nodes ever cross the wire": a worker ships at *)
(* most one node of each level.                                            *)
FewHandOffs ==
  \A i \in Workers : \A a, b \in ShippedNodes(n, w, Depth, i) : Lvl(a) = Lvl(b) => a = b

(* Lifelines are symmetric, every worker is within log2(w) hops of worker 0   *)
(* (so within twice that of any other), and the whole outbox stays O(log): at *)
(* most the lifelines and one peer per level.                              *)
Reach(k) ==
  LET step[j \in 0 .. k] ==
        IF j = 0 THEN {0}
        ELSE step[j-1] \cup UNION {LifelineNeighbors(i, w) : i \in step[j-1]}
  IN  step[k]
OverlayIsSmallAndConnected ==
  /\ \A i \in Workers : \A j \in LifelineNeighbors(i, w) : i \in LifelineNeighbors(j, w) /\ i # j
  /\ Reach(Log2Up(w)) = Workers
  /\ \A i \in Workers :
       Cardinality(WorkerOutbox(n, w, Depth, i)) <= Log2Up(w) + Log2Up(n)
=============================================================================
