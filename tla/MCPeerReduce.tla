--------------------------- MODULE MCPeerReduce ---------------------------
(***************************************************************************)
(* Instances of PeerReduce for TLC.  Values are trees: a leaf is <<i>>, a  *)
(* combine is the pair of its operands, so that two values are equal only  *)
(* if they were grouped in the same way.                                   *)
(***************************************************************************)
EXTENDS PeerReduceRefinement

MCLeaf(leaf) == <<leaf>>
MCPair(left, right) == <<left, right>>

(* plan_tree's grouping, from the root down.                               *)
MCTree[nd \in NodesOf(N, Depth)] ==
  LET left == <<Lvl(nd) - 1, 2 * Pos(nd)>>
  IN  IF Lvl(nd) = 0 THEN MCLeaf(Pos(nd))
      ELSE IF Unpaired(N, left) THEN MCTree[left]
      ELSE MCPair(MCTree[left], MCTree[Sibling(left)])

(* The last leaf and the combine of the leaves 2 and 3 raise.               *)
SomeRaise == {<<0, N-1>>, <<1, 1>>}

Opt(kind, steal, raises, late) ==
  [kind |-> kind, steal |-> steal, raises |-> raises, late |-> late, faults |-> 0]
Faulted(o) == [o EXCEPT !.faults = 1]

Overlays == {Opt("pool", TRUE, {}, FALSE), Opt("pinned", FALSE, {}, FALSE)}
StealingPinned == {Opt("pinned", TRUE, {}, FALSE)}
Raising == {Opt("pool", FALSE, SomeRaise, FALSE)}
(* Over HTTP, with one message lost or repeated: threads that steal, and     *)
(* processes; without: a driver that may run out of patience.               *)
Posting ==
  {Faulted(Opt("thread", TRUE, {}, FALSE)), Faulted(Opt("pool", FALSE, {}, FALSE)),
   Opt("pool", TRUE, {}, FALSE), Opt("pool", FALSE, {}, TRUE)}
(* Every kind of worker, without faults, with an error, with the deadline.   *)
Outcomes ==
  {Opt(kind, FALSE, raises, late) : kind \in Kinds, raises \in {{}, SomeRaise}, late \in BOOLEAN}
    \cup {Opt("pool", TRUE, raises, FALSE) : raises \in {{}, SomeRaise}}
=============================================================================
