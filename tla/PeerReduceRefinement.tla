---------------------- MODULE PeerReduceRefinement ----------------------
(***************************************************************************)
(* A peer run implements Reduction: the partials held and on the wire are  *)
(* the tops of the part of the tree that is formed.                        *)
(***************************************************************************)
EXTENDS PeerReduceProperties

Tops == IF RootFormed THEN {Leaves} ELSE {LeavesUnder(N, t.node) : t \in Tokens}
Formed ==
  LET tops == Tops
  IN  {block \in Blocks(N, Depth) : \E top \in tops : block \subseteq top}

(* Something raised, a message was given up, or the deadline may pass.      *)
Faulty == drops > 0 \/ opt.late \/ \E w \in Workers : Raised(w)

Abstract == INSTANCE Reduction
  WITH Values <- Blocks(N, Depth), RootValue <- TreeValue[Root], formed <- Formed,
       reply <- IF driver = "returned" THEN answer ELSE None,
       faulty <- Faulty, failed <- driver = "failed"

(* Each step of any worker, thief, sender thread or of the driver forms at  *)
(* most one leaf or pair, after its operands and never again; run returns    *)
(* the root's value, or an error only after a fault.                        *)
StepsImplementReduction == Abstract!Spec

(* And it does return.                                                     *)
ImplementsReduction == Abstract!FairSpec
=============================================================================
