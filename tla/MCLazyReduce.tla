--------------------------- MODULE MCLazyReduce ---------------------------
(***************************************************************************)
(* Instances of LazyReduce for TLC; values are trees, as in MCPeerReduce.  *)
(***************************************************************************)
EXTENDS LazyReduce

MCLeaf(leaf) == <<leaf>>
MCPair(left, right) == <<left, right>>
MCTree[nd \in NodesOf(N, Depth)] ==
  LET left == <<Lvl(nd) - 1, 2 * Pos(nd)>>
  IN  IF Lvl(nd) = 0 THEN MCLeaf(Pos(nd))
      ELSE IF Unpaired(N, left) THEN MCTree[left]
      ELSE MCPair(MCTree[left], MCTree[Sibling(left)])
(* Nothing raises, or the combine below the root does.                      *)
MCRaiseSets == {{}, {<<Depth - 1, 0>>}}
=============================================================================
