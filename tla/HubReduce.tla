---------------------------- MODULE HubReduce ----------------------------
(***************************************************************************)
(* The hub: the pool's workers process the leaves, the driver takes the    *)
(* partials as their futures complete, in any order, and reduces them      *)
(* along plan_tree.  Unless pooled, the driver combines (tree_reduce,      *)
(* _run_fixed); pooled, each combine is a job of the pool too              *)
(* (_run_fixed_pooled).                                                    *)
(***************************************************************************)
EXTENDS ReduceTree, PlanTree

CONSTANTS
  N,
  Depth,        \* level of the root
  LeafValue(_),
  Combine(_,_),
  TreeValue,    \* node -> its value in the fixed tree
  RaiseSets,    \* sets of plan_tree ids whose process or combine may raise in a run
  None

(* Depth is the first level with a single node.                             *)
ASSUME HubAssumption ==
  /\ N \in Nat \ {0} /\ Depth \in Nat
  /\ IsRootLevel(N, Depth) /\ \A lvl \in 0 .. Depth-1 : ~IsRootLevel(N, lvl)
  /\ \A raises \in RaiseSets : raises \subseteq Nat

(* TreeValue is the value the fixed grouping of the tree gives a node.      *)
ASSUME TreeValueAssumption ==
  /\ \A leaf \in 0 .. N-1 : TreeValue[<<0, leaf>>] = LeafValue(leaf)
  /\ \A nd \in NodesOf(N, Depth) \ {<<Depth, 0>>} : IsEven(nd) =>
       TreeValue[Parent(nd)] =
         IF Unpaired(N, nd) THEN TreeValue[nd]
         ELSE Combine(TreeValue[nd], TreeValue[Sibling(nd)])

Leaves == 0 .. N-1
Combines == PlanTree(N).combines
RootId == PlanTree(N).root
Ids == 0 .. N - 1 + Len(Combines)
Out(ci) == Combines[ci][1]
Left(ci) == Combines[ci][2]
Right(ci) == Combines[ci][3]

VARIABLES
  pooled,      \* the executor's pooled_combines= option
  persistent,  \* its persistent= option: the pool outlives the run
  raising,     \* ids whose process or combine raises in this run
  jobs,        \* id -> its pool job, until the driver has taken its result
  ready,       \* id -> value the driver holds
  remaining,   \* combine -> inputs that are not ready
  work,        \* tree_reduce's stack of combines to run
  n_combines,
  driver,      \* "run", "leaving" (_acquired_pool after an error), "returned", "failed"
  answer

inputs == <<pooled, persistent, raising>>
vars == <<inputs, jobs, ready, remaining, work, n_combines, driver, answer>>

Running(val) == [state |-> "running", val |-> val]
Put(f, id, x) == [i \in DOMAIN f \cup {id} |-> IF i = id THEN x ELSE f[i]]
Without(f, ids) == Restrict(f, DOMAIN f \ ids)

-----------------------------------------------------------------------------
(* The pool: any job that runs may be the next to complete.                 *)
JobEnds(id) ==
  /\ id \in DOMAIN jobs /\ jobs[id].state = "running"
  /\ jobs' = [jobs EXCEPT ![id].state = IF id \in raising THEN "raised" ELSE "done"]
  /\ UNCHANGED <<inputs, ready, remaining, work, n_combines, driver, answer>>

-----------------------------------------------------------------------------
(* fire_ready: the combines that waited for this input and no other.        *)
WaitsForLeft(id, ci) == id = Left(ci)
WaitsFor(id, ci) == id \in {Left(ci), Right(ci)}
Discard(id) == [ci \in DOMAIN remaining |-> IF WaitsFor(id, ci) THEN remaining[ci] \ {id} ELSE remaining[ci]]
Fired(id) == {ci \in DOMAIN remaining : WaitsFor(id, ci) /\ remaining[ci] \subseteq {id}}

Arrived(id) == driver = "run" /\ id \in DOMAIN jobs /\ jobs[id].state = "done"

(* completed() yields a leaf once the combines of the last one are done.    *)
Deliver(leaf) ==
  /\ ~pooled
  /\ work = <<>> /\ Arrived(leaf)
  /\ jobs' = Without(jobs, {leaf})
  /\ ready' = Put(ready, leaf, jobs[leaf].val)
  /\ remaining' = Discard(leaf)
  /\ work' = SetToSeq(Fired(leaf))
  /\ UNCHANGED <<inputs, n_combines, driver, answer>>

NextCombine == Last(work)
PeekedWork == work
PoppedWork == Front(work)
RunCombine ==
  LET ci == NextCombine
  IN  /\ driver = "run" /\ work # <<>>
      /\ Out(ci) \notin raising
      /\ ready' = Put(ready, Out(ci), Combine(ready[Left(ci)], ready[Right(ci)]))
      /\ remaining' = Discard(Out(ci))
      /\ work' = PoppedWork \o SetToSeq(Fired(Out(ci)))
      /\ n_combines' = n_combines + 1
      /\ UNCHANGED <<inputs, jobs, driver, answer>>

CombineRaises ==
  /\ driver = "run" /\ work # <<>>
  /\ Out(NextCombine) \in raising
  /\ driver' = "leaving"
  /\ UNCHANGED <<inputs, jobs, ready, remaining, work, n_combines, answer>>

(* Pooled: a result is taken, and the combine it completes is submitted with *)
(* both operands, which the driver keeps no longer.                         *)
OperandsStay(ids) == {}
Popped(ids) == ids
TakeResult(id) ==
  LET fired == Fired(id)
      held == Put(ready, id, jobs[id].val)
  IN  /\ pooled
      /\ Arrived(id)
      /\ remaining' = Discard(id)
      /\ ready' = Without(held, Popped(UNION {{Left(ci), Right(ci)} : ci \in fired}))
      /\ jobs' = [i \in (DOMAIN jobs \ {id}) \cup {Out(ci) : ci \in fired} |->
                    IF i \in DOMAIN jobs THEN jobs[i]
                    ELSE LET ci == i - N + 1 IN Running(Combine(held[Left(ci)], held[Right(ci)]))]
      /\ n_combines' = n_combines + Cardinality(fired)
      /\ UNCHANGED <<inputs, work, driver, answer>>

(* fut.result() re-raises.  Leaving a pool made for the run waits for what    *)
(* still runs; a kept pool is not left, and works on.                       *)
Swallowed == "returned"
Reraised == "failed"
Raised(id) == id \in DOMAIN jobs /\ jobs[id].state = "raised"
ResultRaises(id) ==
  /\ driver = "run" /\ work = <<>>
  /\ Raised(id)
  /\ driver' = "leaving"
  /\ UNCHANGED <<inputs, jobs, ready, remaining, work, n_combines, answer>>

Fails ==
  /\ driver = "leaving"
  /\ persistent \/ \A id \in DOMAIN jobs : jobs[id].state # "running"
  /\ driver' = Reraised
  /\ UNCHANGED <<inputs, jobs, ready, remaining, work, n_combines, answer>>

Returns ==
  /\ driver = "run" /\ work = <<>> /\ DOMAIN jobs = {}
  /\ driver' = "returned"
  /\ answer' = ready[RootId]
  /\ UNCHANGED <<inputs, jobs, ready, remaining, work, n_combines>>

-----------------------------------------------------------------------------
Init ==
  /\ pooled \in BOOLEAN /\ persistent \in BOOLEAN /\ raising \in RaiseSets
  /\ jobs = [leaf \in Leaves |-> Running(LeafValue(leaf))]
  /\ ready = [id \in {} |-> None]
  /\ remaining = [ci \in DOMAIN Combines |-> {Left(ci), Right(ci)}]
  /\ work = <<>> /\ n_combines = 0
  /\ driver = "run" /\ answer = None

Driver ==
  \/ \E id \in Ids : Deliver(id) \/ TakeResult(id) \/ ResultRaises(id)
  \/ RunCombine \/ CombineRaises \/ Fails \/ Returns
Pool == \E id \in Ids : JobEnds(id)
Over == driver \in {"returned", "failed"} /\ UNCHANGED vars

Next == Driver \/ Pool \/ Over
Spec == Init /\ [][Next]_vars
(* The pool always has a worker to run a job, the driver waits for results.  *)
FairSpec == Spec /\ WF_vars(Driver) /\ WF_vars(Pool)
=============================================================================
