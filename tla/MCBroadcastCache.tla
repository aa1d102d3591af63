------------------------- MODULE MCBroadcastCache -------------------------
(***************************************************************************)
(* Instances of BroadcastCache for TLC.                                    *)
(***************************************************************************)
EXTENDS BroadcastCache

(* Where the caches of driver and workers agree: the plans fit in the cache, *)
(* or none is used again while it is primed and the hold does its work; the *)
(* pool is kept from run to run, or a new one is made for every run.         *)
Agreeing ==
  {u \in [persistent : BOOLEAN, plans : SUBSET Processes, reuse : BOOLEAN, hold : BOOLEAN,
           adaptive : BOOLEAN] :
     \/ Cardinality(u.plans) = Cap /\ u.reuse /\ ~u.hold
     \/ u.plans = Processes /\ ~u.reuse /\ u.hold}

(* A persistent executor with more plans than the cache holds, some re-used. *)
Evicting == {[persistent |-> TRUE, plans |-> Processes, reuse |-> TRUE, hold |-> TRUE,
              adaptive |-> FALSE]}
=============================================================================
