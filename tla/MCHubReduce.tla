--------------------------- MODULE MCHubReduce ---------------------------
(***************************************************************************)
(* Instances of HubReduce for TLC; values are trees, as in MCPeerReduce.   *)
(***************************************************************************)
EXTENDS HubReduceProperties

MCLeaf(leaf) == <<leaf>>
MCPair(left, right) == <<left, right>>
MCTree[nd \in NodesOf(N, Depth)] ==
  LET left == <<Lvl(nd) - 1, 2 * Pos(nd)>>
  IN  IF Lvl(nd) = 0 THEN MCLeaf(Pos(nd))
      ELSE IF Unpaired(N, left) THEN MCTree[left]
      ELSE MCPair(MCTree[left], MCTree[Sibling(left)])
(* Nothing raises, a leaf does, an inner combine does, or both do.          *)
MCRaiseSets == SUBSET {1, N + 1}
=============================================================================
