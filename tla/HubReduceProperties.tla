----------------------- MODULE HubReduceProperties -----------------------
(***************************************************************************)
(* What the hub promises.                                                  *)
(***************************************************************************)
EXTENDS HubReduce

Cover == CoverOf(N, Combines)

(* The values that are still to be combined, in the driver's hands or in     *)
(* those of a pool job.                                                     *)
Computed == {id \in DOMAIN jobs : jobs[id].state = "done"} \cup DOMAIN ready
InUse == UNION {{Left(ci), Right(ci)} : ci \in {c \in DOMAIN Combines : Out(c) \in DOMAIN jobs}}
Formed == {block \in Blocks(N, Depth) : \E id \in Computed \cup InUse : block \subseteq Cover[id]}

Abstract == INSTANCE Reduction
  WITH Values <- Blocks(N, Depth), RootValue <- TreeValue[<<Depth, 0>>],
       formed <- Formed, reply <- answer, faulty <- raising # {}, failed <- driver = "failed"

(* Types: the driver holds and waits for nodes of the plan.                 *)
TypeOK ==
  /\ pooled \in BOOLEAN /\ persistent \in BOOLEAN /\ raising \in RaiseSets
  /\ DOMAIN jobs \subseteq Ids /\ DOMAIN ready \subseteq Ids
  /\ \A id \in DOMAIN jobs : jobs[id].state \in {"running", "done", "raised"}
  /\ remaining \in [DOMAIN Combines -> SUBSET Ids]
  /\ work \in Seq(DOMAIN Combines) /\ IsInjective(work)
  /\ n_combines \in 0 .. N-1
  /\ driver \in {"run", "leaving", "returned", "failed"}

(* In whatever order the leaves complete, each pair of the fixed tree is     *)
(* combined once, after its operands, and run returns the value of that tree *)
(* - the one index arithmetic gives the peer run and the lazy reducer - or,   *)
(* only if something raises, an error.                                      *)
ImplementsReduction == Abstract!FairSpec

(* Not a barrier: whenever the driver goes back to waiting for a result, it   *)
(* holds no two operands whose combine it has not made.                     *)
NoReadyPairWaits ==
  driver = "run" /\ work = <<>> =>
    \A ci \in DOMAIN Combines : {Left(ci), Right(ci)} \subseteq DOMAIN ready => Out(ci) \in DOMAIN ready

(* The pooled driver keeps no operand it has handed out: what it holds and    *)
(* what its jobs compute never cover a leaf twice.                          *)
PooledHoldsNoOperand ==
  pooled => \A a, b \in DOMAIN jobs \cup DOMAIN ready : a # b => Cover[a] \cap Cover[b] = {}

(* A job's error always reaches the caller, whatever other jobs do: neither   *)
(* does run hang on the pool, nor does it return a value.                   *)
ErrorSurfaces == (\E id \in Ids : Raised(id)) ~> (driver = "failed")
=============================================================================
