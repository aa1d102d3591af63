-------------------------- MODULE BroadcastCache --------------------------
(***************************************************************************)
(* The process executor ships plan.process to each worker of its pool once. *)
(* The driver keeps the tokens of the processes it has broadcast, a worker *)
(* the processes it was primed with; both are bounded.  A leaf task names  *)
(* its process by token only.  A persistent pool lives on from run to run, *)
(* with whatever tasks a failed or a stopped run left in its queue.        *)
(*                                                                         *)
(* A run asks for all its leaves at once, or, when it is adaptive, for a    *)
(* batch after each turn until there is none or a stop rule holds.          *)
(***************************************************************************)
EXTENDS Naturals, FiniteSets, SequencesExt

CONSTANTS
  Workers,
  Processes,   \* the plans' process callables, by token
  Cap,         \* _SHARED_CACHE_CAP (32)
  MaxRounds,   \* priming rounds before _broadcast gives up (1000)
  NLeaves,     \* leaves of every plan; bound: those an adaptive run asks for
  Raising,     \* processes of which a leaf may raise
  Usages,      \* the ways executors are used: see UsageAssumption
  MaxRuns,     \* bound: runs
  None

ASSUME CacheAssumption ==
  /\ Cap \in Nat \ {0} /\ MaxRounds \in Nat \ {0} /\ NLeaves \in Nat \ {0} /\ MaxRuns \in Nat
  /\ IsFiniteSet(Workers) /\ Workers # {} /\ Raising \subseteq Processes
  /\ None \notin [kind : {"prime", "leaf"}, of : Processes, run : Nat]

(* persistent: the executor's option.  plans: the processes its runs use.     *)
(* reuse: whether a run may use a process that is primed already.  hold:     *)
(* whether the brief hold in _prime_shared does keep a primed worker from    *)
(* taking a second priming job.  adaptive: whether the plans have next_tasks. *)
ASSUME UsageAssumption ==
  Usages \subseteq [persistent : BOOLEAN, plans : SUBSET Processes, reuse : BOOLEAN, hold : BOOLEAN,
                adaptive : BOOLEAN]

VARIABLES
  usage,    \* how this executor is used
  primed,   \* the driver's _broadcast_tokens, oldest first
  cache,    \* worker -> _shared_objects, oldest first
  up,       \* whether the executor has a pool
  queue,    \* the pool's jobs no worker has taken
  job,      \* worker -> the job it runs, or None
  phase,    \* the driver: "idle", "priming", "running", "leaving" (pool.__exit__)
  runs,     \* runs started
  process,  \* the process of the current run
  covered,  \* workers whose pid came back from priming
  rounds,
  wanted,   \* leaves the current run has submitted
  leaves,   \* those that have come back with a value
  failed,   \* the errors that have come back
  taken,    \* the values the driver has taken
  outcome   \* how the last run went: "ok", "stopped", "raised", "missing", "underprimed", or None

poolVars == <<cache, queue, job>>
results == <<leaves, failed, taken>>
runVars == <<usage, runs, process, covered, rounds, wanted, results>>
vars == <<primed, up, poolVars, phase, runVars, outcome>>

Prime(p) == [kind |-> "prime", of |-> p, run |-> runs]
Leaf(p, r) == [kind |-> "leaf", of |-> p, run |-> r]
Jobs(k, j) == [i \in 1 .. k |-> j]
SameProcess(j) == j # None /\ j.of = process
Ours(j) == j # None /\ j.run = runs
Quiet == queue = <<>> /\ \A w \in Workers : job[w] = None

(* Both sides insert at the end and drop from the front.                    *)
Unbounded(tokens, p) == Append(tokens, p)
Insert(tokens, p) == IF Len(tokens) < Cap THEN Append(tokens, p) ELSE Append(Tail(tokens), p)
OneMore(p) == IF Len(primed) <= Cap THEN Append(primed, p) ELSE Append(Tail(primed), p)
Remembered(p) == Insert(primed, p)

(* move_to_end.                                                            *)
Place(tokens, p) == CHOOSE i \in DOMAIN tokens : tokens[i] = p
Touch(tokens, p) == Append(RemoveAt(tokens, Place(tokens, p)), p)

-----------------------------------------------------------------------------
(* The driver.                                                             *)

TokensSurvive == primed
TokensAtStart == IF usage.persistent /\ up THEN primed ELSE <<>>

(* The first tasks of a run.                                               *)
Batches == IF usage.adaptive THEN 0 .. NLeaves ELSE {NLeaves}
SubmitFirst(p, r) ==
  \E batch \in Batches :
    /\ wanted' = batch
    /\ queue' = queue \o Jobs(batch, Leaf(p, r))

(* run(): acquire the pool, then broadcast the process unless it is primed.  *)
StartRun(p) ==
  /\ phase = "idle" /\ runs < MaxRuns /\ p \in usage.plans
  /\ runs' = runs + 1 /\ process' = p
  /\ up' = TRUE
  /\ covered' = {} /\ rounds' = 0 /\ leaves' = 0 /\ failed' = {} /\ taken' = 0
  /\ IF Contains(TokensAtStart, p)
     THEN /\ usage.reuse
          /\ primed' = Touch(TokensAtStart, p)
          /\ SubmitFirst(p, runs + 1)
          /\ phase' = "running"
     ELSE /\ primed' = TokensAtStart
          /\ phase' = "priming"
          /\ wanted' = 0
          /\ UNCHANGED queue
  /\ UNCHANGED <<usage, cache, job, outcome>>

(* The driver waits for the whole batch before it counts pids.              *)
BatchDone ==
  /\ phase = "priming"
  /\ \A w \in Workers : ~Ours(job[w])
  /\ \A j \in ToSet(queue) : ~Ours(j)
AnyWorker == TRUE
AllCovered == covered = Workers

(* Workers that die while they are primed (BrokenProcessPool out of          *)
(* f.result()) are left out.                                               *)
PrimeRound ==
  /\ BatchDone
  /\ ~AllCovered /\ rounds < MaxRounds
  /\ rounds' = rounds + 1
  /\ queue' = queue \o Jobs(Cardinality(Workers \ covered), Prime(process))
  /\ UNCHANGED <<primed, up, cache, job, phase, usage, runs, process, covered, wanted, results, outcome>>

Primed ==
  /\ BatchDone
  /\ AllCovered
  /\ primed' = Remembered(process)
  /\ SubmitFirst(process, runs)
  /\ phase' = "running"
  /\ UNCHANGED <<up, cache, job, usage, runs, process, covered, rounds, results, outcome>>

Leave(how) ==
  /\ outcome' = how
  /\ phase' = IF usage.persistent THEN "idle" ELSE "leaving"

UnderPrimed ==
  /\ BatchDone
  /\ ~AllCovered /\ rounds = MaxRounds
  /\ Leave("underprimed")
  /\ UNCHANGED <<primed, up, poolVars, runVars>>

(* One turn of the driver: it takes some of the values that are there, or     *)
(* meets an error.  An adaptive run then asks for more, or stops: it cancels   *)
(* what no worker and no call queue has yet, which is the end of the queue.    *)
RaiseError ==
  /\ phase = "running"
  /\ \E how \in failed : Leave(how)
  /\ UNCHANGED <<primed, up, poolVars, runVars>>

TakeValues ==
  /\ phase = "running" /\ taken' \in taken + 1 .. leaves
  /\ UNCHANGED <<primed, up, cache, job, usage, runs, process, covered, rounds, leaves, failed>>

Refill ==
  /\ TakeValues
  /\ \E batch \in IF usage.adaptive THEN 0 .. NLeaves - wanted ELSE {0} :
       /\ wanted' = wanted + batch
       /\ queue' = queue \o Jobs(batch, Leaf(process, runs))
  /\ UNCHANGED <<phase, outcome>>

Stop ==
  /\ usage.adaptive /\ TakeValues
  /\ \E kept \in 0 .. Len(queue) :
       /\ \A i \in kept + 1 .. Len(queue) : Ours(queue[i])
       /\ queue' = SubSeq(queue, 1, kept)
  /\ Leave("stopped")
  /\ UNCHANGED wanted

RunReturns ==
  /\ phase = "running" /\ taken = wanted
  /\ Leave("ok")
  /\ UNCHANGED <<primed, up, poolVars, runVars>>

(* Shutting a pool down waits for its jobs; its workers' caches die with it.  *)
ShutDown ==
  /\ up /\ Quiet
  /\ \/ phase = "leaving"
     \/ phase = "idle" /\ usage.persistent   \* close()
  /\ phase' = "idle"
  /\ up' = FALSE
  /\ primed' = IF usage.persistent THEN <<>> ELSE primed
  /\ cache' = [w \in Workers |-> <<>>]
  /\ UNCHANGED <<queue, job, runVars, outcome>>

-----------------------------------------------------------------------------
(* The workers.                                                            *)

Take(w) ==
  /\ job[w] = None /\ queue # <<>>
  /\ usage.hold /\ Head(queue).kind = "prime" => w \notin covered
  /\ job' = [job EXCEPT ![w] = Head(queue)]
  /\ queue' = Tail(queue)
  /\ UNCHANGED <<primed, up, cache, phase, runVars, outcome>>

(* _prime_shared: idempotent, and does not reorder.                         *)
PrimeWorker(w) ==
  /\ job[w] # None /\ job[w].kind = "prime"
  /\ cache' = IF Contains(cache[w], job[w].of) THEN cache
              ELSE [cache EXCEPT ![w] = Insert(@, job[w].of)]
  /\ covered' = covered \cup {w}
  /\ job' = [job EXCEPT ![w] = None]
  /\ UNCHANGED <<primed, up, queue, phase, usage, runs, process, rounds, wanted, results, outcome>>

(* A leaf of this run comes back; what an earlier run left behind is         *)
(* computed for nobody.                                                    *)
Swallowed(how) == failed
Noted(how) == failed \cup {how}
LeafEnds(w, how) ==
  /\ job' = [job EXCEPT ![w] = None]
  /\ IF Ours(job[w]) /\ phase = "running"
     THEN IF how = "ok" THEN leaves' = leaves + 1 /\ UNCHANGED failed
                        ELSE failed' = Noted(how) /\ UNCHANGED leaves
     ELSE UNCHANGED <<leaves, failed>>
  /\ UNCHANGED <<primed, up, cache, queue, phase, usage, runs, process, covered, rounds,
                 wanted, taken, outcome>>

RunLeaf(w) ==
  /\ job[w] # None /\ job[w].kind = "leaf"
  /\ \/ Contains(cache[w], job[w].of) /\ LeafEnds(w, "ok")
     \/ Contains(cache[w], job[w].of) /\ job[w].of \in Raising /\ LeafEnds(w, "raised")
     \/ ~Contains(cache[w], job[w].of) /\ LeafEnds(w, "missing")   \* KeyError

-----------------------------------------------------------------------------
Init ==
  /\ usage \in Usages
  /\ primed = <<>> /\ cache = [w \in Workers |-> <<>>]
  /\ up = FALSE /\ queue = <<>> /\ job = [w \in Workers |-> None]
  /\ phase = "idle" /\ runs = 0 /\ process = None /\ covered = {} /\ rounds = 0
  /\ wanted = 0 /\ leaves = 0 /\ failed = {} /\ taken = 0
  /\ outcome = None

Loop == RaiseError \/ Refill \/ Stop \/ RunReturns
Driver == PrimeRound \/ Primed \/ UnderPrimed \/ Loop \/ (phase = "leaving" /\ ShutDown)
Worker(w) == Take(w) \/ PrimeWorker(w) \/ RunLeaf(w)

Next ==
  \/ \E p \in Processes : StartRun(p)
  \/ PrimeRound \/ Primed \/ UnderPrimed \/ Loop \/ ShutDown
  \/ \E w \in Workers : Worker(w)

Spec == Init /\ [][Next]_vars
(* Whether another run comes, or a close(), is the user's choice.            *)
FairSpec == Spec /\ WF_vars(Driver) /\ \A w \in Workers : WF_vars(Worker(w))

-----------------------------------------------------------------------------
(* Types, and the two caches stay bounded.                                 *)
TypeOK ==
  /\ usage \in Usages
  /\ primed \in Seq(Processes) /\ Len(primed) <= Cap /\ IsInjective(primed)
  /\ cache \in [Workers -> Seq(Processes)]
  /\ \A w \in Workers : Len(cache[w]) <= Cap /\ IsInjective(cache[w])
  /\ covered \subseteq Workers /\ rounds \in 0 .. MaxRounds /\ wanted \in 0 .. NLeaves
  /\ leaves \in 0 .. wanted /\ taken \in 0 .. leaves /\ failed \subseteq {"raised", "missing"}
  /\ phase \in {"idle", "priming", "running", "leaving"}
  /\ outcome \in {None, "ok", "stopped", "raised", "missing", "underprimed"}

(* "the driver thinks token T is primed" means "every worker has T" (comment *)
(* on _SHARED_CACHE_CAP), except while a broadcast is under way.             *)
PrimedMeansCached ==
  phase = "running" \/ (phase = "idle" /\ up)
    => \A w \in Workers : ToSet(primed) \subseteq ToSet(cache[w])

(* No leaf of a run ever meets a worker without the run's process.           *)
LeafFindsProcess == "missing" \notin failed

(* A run that returns has taken the value of every leaf it asked for, and none *)
(* of them is left in the pool, whatever leaves of a failed or a stopped run   *)
(* came back meanwhile: only a stop rule leaves leaves out.                    *)
OkTookEveryLeaf ==
  phase \in {"idle", "leaving"} /\ outcome = "ok"
    => /\ taken = wanted /\ failed = {}
       /\ \A j \in ToSet(queue) \cup Range(job) : ~Ours(j)

(* Every run ends, whatever an earlier one left in the pool.                 *)
RunsEnd == (phase # "idle") ~> (phase = "idle")
=============================================================================
