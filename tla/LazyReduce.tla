---------------------------- MODULE LazyReduce ----------------------------
(***************************************************************************)
(* LazyReducer: partials are fed in the order they complete and bubble up  *)
(* by index arithmetic alone, without plan_tree's list of combines.  One   *)
(* iteration of feed's loop is one step.                                   *)
(***************************************************************************)
EXTENDS ReduceTree, Functions

CONSTANTS
  N,
  Depth,        \* level of the root
  LeafValue(_),
  Combine(_,_),
  TreeValue,    \* node -> its value in the fixed tree
  RaiseSets,    \* sets of nodes whose combine may raise in a run
  Ahead,        \* bound: how far completion runs ahead of the first leaf missing
  None

Leaves == 0 .. N-1
Nodes == NodesOf(N, Depth)
Root == <<Depth, 0>>

(* Depth is the first level with a single node.                             *)
ASSUME LazyAssumption ==
  /\ N \in Nat \ {0} /\ Depth \in Nat /\ Ahead \in Nat
  /\ IsRootLevel(N, Depth) /\ \A lvl \in 0 .. Depth-1 : ~IsRootLevel(N, lvl)
  /\ None \notin [node : Nodes, val : {TreeValue[nd] : nd \in Nodes}]

(* TreeValue is the value plan_tree's fixed grouping gives a node.           *)
ASSUME TreeValueAssumption ==
  /\ \A leaf \in Leaves : TreeValue[<<0, leaf>>] = LeafValue(leaf)
  /\ \A nd \in Nodes \ {Root} : IsEven(nd) =>
       TreeValue[Parent(nd)] =
         IF Unpaired(N, nd) THEN TreeValue[nd]
         ELSE Combine(TreeValue[nd], TreeValue[Sibling(nd)])

VARIABLES
  raising,       \* nodes whose combine raises in this run
  delivered,     \* leaves fed
  present,       \* the frontier: node -> value
  cur,           \* the node feed() bubbles up, or None
  n_combines,
  max_frontier,
  state,         \* "feeding", "returned", "raised"
  answer

vars == <<raising, delivered, present, cur, n_combines, max_frontier, state, answer>>

Park(parked, nd, val) == [x \in DOMAIN parked \cup {nd} |-> IF x = nd THEN val ELSE parked[x]]
Read(parked, nd) == parked
Pop(parked, nd) == Restrict(parked, DOMAIN parked \ {Sibling(nd)})
RightLeft(nd, val, other) == IF IsEven(nd) THEN <<other, val>> ELSE <<val, other>>
LeftRight(nd, val, other) == IF IsEven(nd) THEN <<val, other>> ELSE <<other, val>>
Carries(nd) == Unpaired(N, nd)

(* completed: the leaves come in any order that is only so far ahead.       *)
Feed(leaf) ==
  /\ state = "feeding" /\ cur = None
  /\ leaf \notin delivered
  /\ \A earlier \in 0 .. leaf - Ahead - 1 : earlier \in delivered
  /\ delivered' = delivered \cup {leaf}
  /\ cur' = [node |-> <<0, leaf>>, val |-> LeafValue(leaf)]
  /\ UNCHANGED <<raising, present, n_combines, max_frontier, state, answer>>

Bubbling == state = "feeding" /\ cur # None
NoRootLevel == FALSE
AtRoot == IsRootLevel(N, Lvl(cur.node))
EvenSiblingHere == IsEven(cur.node) /\ Sibling(cur.node) \in DOMAIN present
SiblingHere == Sibling(cur.node) \in DOMAIN present

(* feed() returns: the node stays on the frontier.                          *)
StayHere ==
  /\ Bubbling
  /\ AtRoot \/ (~Carries(cur.node) /\ ~SiblingHere)
  /\ present' = Park(present, cur.node, cur.val)
  /\ max_frontier' =
       IF Cardinality(DOMAIN present') > max_frontier THEN Cardinality(DOMAIN present') ELSE max_frontier
  /\ cur' = None
  /\ UNCHANGED <<raising, delivered, n_combines, state, answer>>

CarryUp ==
  /\ Bubbling
  /\ ~AtRoot /\ Carries(cur.node)
  /\ cur' = [cur EXCEPT !.node = Parent(@)]
  /\ UNCHANGED <<raising, delivered, present, n_combines, max_frontier, state, answer>>

CombineUp ==
  LET pair == LeftRight(cur.node, cur.val, present[Sibling(cur.node)])
  IN  /\ Bubbling
      /\ ~AtRoot /\ ~Carries(cur.node) /\ SiblingHere
      /\ present' = Pop(present, cur.node)
      /\ \/ /\ Parent(cur.node) \notin raising
            /\ cur' = [node |-> Parent(cur.node), val |-> Combine(pair[1], pair[2])]
            /\ n_combines' = n_combines + 1
            /\ UNCHANGED state
         \/ /\ Parent(cur.node) \in raising
            /\ state' = "raised" /\ cur' = None
            /\ UNCHANGED n_combines
      /\ UNCHANGED <<raising, delivered, max_frontier, answer>>

Result ==
  /\ state = "feeding" /\ cur = None
  /\ delivered = Leaves
  /\ answer' = present[Root]
  /\ state' = "returned"
  /\ UNCHANGED <<raising, delivered, present, cur, n_combines, max_frontier>>

Init ==
  /\ raising \in RaiseSets
  /\ delivered = {} /\ present = [nd \in {} |-> None] /\ cur = None
  /\ n_combines = 0 /\ max_frontier = 0
  /\ state = "feeding" /\ answer = None

Over == state \in {"returned", "raised"} /\ UNCHANGED vars

Next == (\E leaf \in Leaves : Feed(leaf)) \/ StayHere \/ CarryUp \/ CombineUp \/ Result \/ Over
Spec == Init /\ [][Next]_vars
(* The caller feeds every leaf and then asks for the result.                *)
FairSpec == Spec /\ WF_vars(Next)

-----------------------------------------------------------------------------
(* What is still to be combined, and the blocks of the tree it has formed.   *)
Tops == {LeavesUnder(N, nd) : nd \in DOMAIN present \cup (IF cur = None THEN {} ELSE {cur.node})}
Formed == {block \in Blocks(N, Depth) : \E top \in Tops : block \subseteq top}

Abstract == INSTANCE Reduction
  WITH Values <- Blocks(N, Depth), RootValue <- TreeValue[Root], formed <- Formed, reply <- answer,
       faulty <- raising # {}, failed <- state = "raised"

(* Types.                                                                  *)
TypeOK ==
  /\ raising \in RaiseSets
  /\ delivered \subseteq Leaves /\ DOMAIN present \subseteq Nodes
  /\ cur # None => cur.node \in Nodes
  /\ n_combines \in 0 .. N-1 /\ max_frontier \in 0 .. N
  /\ state \in {"feeding", "returned", "raised"}

(* In any order of delivery the reducer combines the pairs of plan_tree, each *)
(* once, and its result is the value of that tree (docstring of LazyReducer), *)
(* or the error of a combine.                                               *)
ImplementsReduction == Abstract!FairSpec

(* "the live frontier, O(log N) for roughly in-order completion, never the   *)
(* whole tree": fed in an arbitrary order, it may come to hold half the      *)
(* leaves.                                                                 *)
FrontierIsSmall == max_frontier <= Depth + Ahead + 1

(* Every leaf that was fed is in exactly one value the reducer holds, unless  *)
(* a combine raised.                                                       *)
HoldsEveryLeafOnce ==
  state # "raised" =>
    /\ UNION Tops = delivered
    /\ \A s, t \in DOMAIN present : s # t => LeavesUnder(N, s) \cap LeavesUnder(N, t) = {}
=============================================================================
