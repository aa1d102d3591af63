# A TLA+ model of graphed-exec-local

graphed-exec-local runs a *plan* on one machine: `process` on every partition
(a *leaf*), `combine` on pairs of partial results until one value is left.
Whatever runs where and finishes when, the pairs are those of one fixed binary
tree, left operand first, so that a floating-point result is the same bit for
bit in every run.  This project models the parts of the program that make this
true and the parts that could make it false, checks them with TLC and proves
with TLAPS, for every size and every `combine`, most of what is safety in it.

All source paths are below `src/src/graphed_exec_local/`.

## 1. Inventory

| Part | State it keeps | Operations | What makes it correct |
|---|---|---|---|
| Combine tree (`_reduce.py` `plan_tree`; index arithmetic in `_reduce.py`, `_peer.py`) | none | `plan_tree`, `_level_size`, `pos ^ 1`, `pos >> 1` | both descriptions give the same pairs; every leaf once |
| Ranges and overlay (`_peer.py` 58-156) | none | `make_bounds`, `worker_of`, `slice_items`, `lifeline_neighbors`, `reduction_edges`, `worker_outbox_addresses` | ranges partition the leaves; hand-offs go to lower workers; outboxes are small and suffice |
| Peer worker (`_peer.py` 159-485) | deque of leaves, parked nodes, nodes seen, witness counters | `settle`, `handle`, the worker loop, work stealing | no partial lost or counted twice; the fixed tree's value; every hand-off received; the loop ends on `done` |
| Transports (`_transport.py`) | inboxes, sender queues, registry | `send`, `poll`, `recv`, `broadcast`, sender thread with retry, `close` | at-least-once delivery is harmless; nobody blocks |
| Peer driver (`executors.py` 524-556, 820-1079) | futures, root, pool and registry (kept when persistent) | spawn actors, collect the root, watch for errors and the deadline, release, join, shut down | the root or the worker's error reaches the caller, every worker is released |
| HTTP handshake (`_peer.py` 642-715) | addresses heard of; messages that raced ahead | hello, registry | every worker starts, nothing that raced ahead is lost |
| Pinned pool (`_pinned_pool.py`) | control queues, futures by call id, reaper thread | submit, reap, workers_alive, shutdown | each call's future resolves |
| Thread peer run (`executors.py` 698-769) | witness and error dictionaries | actors in threads, collect, join | as the peer driver |
| Hub (`_reduce.py` 48-92, `executors.py` 588-643) | `ready`, `remaining`, work stack, submitted futures | a leaf arrives, a combine runs (in the driver or as a pool job) | not a barrier; operands dropped when handed out; an error surfaces |
| Lazy reducer (`_reduce.py` 95-179) | the frontier | `feed`, `result` | same tree; frontier O(log N) |
| Broadcast cache (`executors.py` 158-167, 355-388, 456-507, 1090-1096, 1175-1196) | driver's tokens; each worker's cache | prime the pool, evict, run a leaf by token, acquire and close the pool | what the driver believes primed is cached by every worker |
| Adaptive run (`executors.py` 645-684, `running_fold`) | context, submitted futures, results | refill, stop rule, cancel | what is counted is what is folded |
| Telemetry (`executors.py` 141-319, 1098-1164) | event buffers, drain and collector threads | emit, drain, dispatch, final drain | off the data path; nothing lost that is promised |

**Interaction.** `run` picks adaptive, peer, pooled hub or hub.  Hub: the driver
submits leaves to a pool (the process pool after a broadcast of `process`) and
reduces what comes back.  Peer: the driver cuts the leaves into ranges and
submits one actor per worker; the actors exchange partials and stolen leaves
over a transport; worker 0 sends the root to the driver, which broadcasts
`done` and joins the futures.

**What is hard.**  Arrival order of partials; stealing concurrent with
processing; retried and dropped posts; errors of one actor while the others
wait; teardown racing messages still queued; caches on two sides evicted by two
rules; a pool that outlives a failed run; odd tree levels.  `PROJECT.json` lists
each hazard at its line with the properties that look at it.

## 2. Modules

```
ReduceTree          arithmetic of the tree, the ranges, the overlay  (no state)
PlanTree            plan_tree's list of combines                     (no state)
Reduction           ABSTRACT: what any reduction promises
PeerReduce          one peer run: W workers, transports, driver
  PeerReduceProperties    its invariants and liveness
  PeerReduceRefinement    PeerReduce implements Reduction
  PeerReduceProofs        TLAPS: values, no leaf twice, no barrier, nothing left behind
  PeerRefinementProofs    TLAPS: no leaf lost, the refinement, the counters, the thefts
PeerSession         peer runs one after another on one pool, its properties
  PeerSessionProofs       TLAPS
HubReduce           the hub, driver-combining or pooled
  HubReduceProperties     its properties, HubReduce implements Reduction
  HubReduceProofs         TLAPS: the invariants, the refinement
LazyReduce          LazyReducer, with its properties and refinement
  LazyReduceProofs        TLAPS
BroadcastCache      fixed and adaptive runs on one process pool: driver tokens,
                    worker caches, leaf jobs, its properties
  BroadcastCacheProofs    TLAPS
ReduceTreeProofs    TLAPS: levels, leaves under a node, owners, plan_tree's passes
MCReduceTreeProofs  TLAPS: what MCReduceTree checks, for every size
MC*                 instances for TLC
```

### How state and actions correspond to the code

*PeerReduce.*  One `settle` iteration, one handled message, one processed leaf is
one step; what is local to a worker between two of these cannot be seen by
another.  `mine`, `present`, `seen` are the variables of the same name; `cur` is
the `(level, pos, value)` that `settle` has in hand; `polled` counts the messages
`poll()` has returned that the loop has not handled yet (they stay at the head of
`inbox` until then, which nobody else can read); `phase` is the loop's place:
waiting for the registry, before the drain, after it, or between a steal request
and the `recv` that follows.  `out` is an HTTP endpoint's sender queue.  Every
branch of `settle` (`SettleRoot`, `SettleCarry`, `SettleShip`, `SettlePark`,
`SettleCombine`) and of `handle` (`HandleNode` ... `HandleDone`, and `HandleOther`
for a tag no branch takes) is an action with the branch's conditions as guards.  An
HTTP process that raises or returns closes its transport (`_peer.py:691-692`), and
with it the sender thread and what is queued there (`CloseTransport`).  A thread
leaves its transport open, so its sender thread keeps posting until the driver's
`finally` clause closes all of them (`CloseTransports`).

A post whose acknowledgement is lost arrives now and again (`PostUnacknowledged`).
The copy that comes later may be that of the next attempt or, when the handler
thread of a timed-out attempt is slow, the first one, after messages sent later:
the action puts the message back at any place of the sender's queue.  Five attempts
that all arrive without an acknowledgement are `PostUnacknowledged` and then
`GiveUp`, two faults; TLC's instances have one, the proofs any number.  A copy that
a slow handler delivers after its sender has closed is left out.

The transport (`Async`) is a constant; what the workers are (`opt.kind`: threads of
the thread executor, processes of the full-registry pool, of the pinned pool),
whether they steal, which nodes raise, whether the deadline may expire and how many
faults there may be is chosen in `Init` from `Options`.  HTTP processes start with a
handshake: each posts a hello, the driver gathers them (`GatherHello`) and posts the
registry (`SendRegistry`); `Await` is the worker's wait, which keeps whatever comes
before the registry in a form no branch of `handle` recognises, so the message is
lost (steal requests only, as `peer_http` shows).  The driver's phases are
`handshake`, `collect` (the loop of `_collect_peer`, or of
`ThreadExecutor._peer_execute`), `join` (`f.result()` of one future after the other,
which raises at the first that failed, or the joins with a time-out), `teardown` and `shutdown` (the `finally` clauses), then `returned`
or `failed`.  `Threads` marks where the thread executor's driver differs: on an error
it joins before it raises, at the deadline it does not broadcast done, and a thread
that outlasts its join is left alone.  The pinned pool's shutdown may terminate a
worker.

Left out of PeerReduce: events and profiles; clock values (`STEAL_DELAY`, the
back-off and `recv` time-outs only decide *when* an idle worker asks, and any
time is allowed); the sender's name in a message, which no handler reads.

*PeerSession.*  What PeerReduce takes for granted, a pool and empty inboxes, is here
the result of earlier runs.  `StartRun` is `_acquire_pool`, the drain of a kept
registry and the submission of the actors; `calls` and `proc` are the pool's calls,
of one queue or of one queue per worker (`opt.kind`); `fut` the futures of the
current run; `Break` and `Died` the two ways a dead process is noticed
(`BrokenProcessPool`, `workers_alive`); `ShutDown` what `close()` or the `finally`
clause does.  The reduction is abstracted: an actor forms one partial, address 0
combines one of each address, known by address only as `_present` knows them by
node, and a value is the set of `<<run, address>>` in it.  The reduction itself is
PeerReduce's, and `Gather` is no translation of `settle` but what all of its steps
come to for one node of each address.  Each slice is one leaf.  An actor that has
processed it asks others for more if the executor steals (`Ask`); since `handle`
never gives away a last leaf, every request is answered with an empty grant, so
steal messages travel and may stay behind, but leaves do not move.  `Handle` drops
with `done` whatever `poll()` returned along with it.  A kept pool is used again only for a run of the same number of workers
(pinned: also of leaves); otherwise the code closes it first, which is `Close` followed by `StartRun`.  `overlap`
records whether an actor of an earlier run was still there when a run started.

*HubReduce.*  `jobs` are the pool's jobs whose futures the driver still watches,
`ready`, `remaining` and `work` the code's dictionaries and stack.  `pooled`, the
executor's option, is chosen in `Init`, as are the nodes that raise; it decides
between `_run_fixed` with `tree_reduce` (`Deliver`, `RunCombine`) and
`_run_fixed_pooled` (`TakeResult`).  An error leaves `_acquired_pool`
(`leaving`).  A pool made for the run is shut down there, which waits for what still
runs; a kept one (`persistent`) is not, and its jobs work on while the error goes to
the caller (`executors.py:497-500`).

*LazyReduce.*  One iteration of `feed`'s loop is a step; `Feed` starts a call, so
`cur # None` means a call is under way.

*BroadcastCache.*  `primed` is `_broadcast_tokens`, `cache` the workers'
`_shared_objects`, both as sequences, oldest first.  The pool's job queue survives
a failed or stopped run of a persistent executor.  `usage`, chosen in `Init`, says how
the executor is used: persistent or not, with which plans, whether a plan may come
back while it is primed, whether the brief hold of `_prime_shared` works, and whether
the plans are adaptive.  A run submits its leaves at once, or (`_run_adaptive`) a
batch in each turn (`Refill`) until a stop rule holds (`Stop`, which cancels the
end of the queue: the jobs the pool has not yet handed to a worker or to its call
queue) or nothing is outstanding (`RunReturns`).  `wanted`, `leaves` and `taken` count
the leaves submitted, come back and taken by the driver; `failed` holds the errors
that have come back.  What the values are does not matter here: their reduction is
HubReduce's, or a fold that needs a commutative combine.

*Reduction.*  `formed` is the set of values that exist, each named by the leaves
it covers; a step forms one value from two disjoint ones, or answers with the
value of the root.  Nothing is formed twice.  Only after a `Fault` may a value be
lost or the caller get an error; which state of each implementation counts as a
fault is in its refinement mapping.  For PeerReduce these are causes, not effects: a
message was dropped, a worker raised, or the run is one whose deadline may expire or
whose handshake may time out (`opt.late`).  What the driver does about it does not
count, so it must not give up on a run without one of them.

### Values

A leaf's partial and a combine are constants (`LeafValue`, `Combine`), so the
proofs hold for every `combine`.  In TLC's instances a value is the tree of the
combines that made it, so two values are equal only if grouped alike.

`PlanTree` repeats plan_tree's pass over a level (`NextPass`) as often as there are
leaves: once one node is left, a further pass changes nothing.

## 3. What the runs check

| Run | Instance | Shows |
|---|---|---|
| reduce_tree | all sizes to 26 leaves, 10 workers | TreeIsSound, PlanTreeAgrees, SlicesPartition, HandOffsGoDown, FewHandOffs, OverlayIsSmallAndConnected |
| peer_steal | 5 leaves, 3 workers, queues; full registry with stealing (1 request each), bounded outboxes without | no fault, no error: types, true values where they belong, no leaf lost or twice, the tree's value, no barrier, steals balance, nothing left behind; bounded outboxes suffice when nobody steals |
| peer_outcomes | 5 leaves, 2 workers, queues, fair; every kind of worker, with and without a leaf and a combine that raise, with and without a deadline, and stealing | implements Reduction, so it returns or fails; the error surfaces; the witness counters are those of the static replay |
| peer_http | 3 leaves, 2 workers, HTTP; threads that steal and processes, each with one lost acknowledgement or drop; processes that steal; processes with a deadline; nothing raises | the steps implement Reduction; no leaf twice, none lost but by the drop; the counters; only worker 0 at the root; what races ahead of the registry does not matter |
| session | 2 workers, 3 runs, both pools, kept or not; in the first run nobody raises, or address 0, or the other; a deadline may expire; actors ask for work once, or one process may die; fair | no run takes a value of another; a clean run leaves nothing but steal messages; every run and shutdown ends |
| hub | 5 leaves, both hubs, on a kept pool and on one made for the run, four sets of raising nodes, fair | implements Reduction; not a barrier; operands handed out once; the error surfaces |
| lazy | 23 leaves, at most 3 ahead, with and without an error, fair | implements Reduction; the frontier stays within 9 nodes; every leaf held once |
| broadcast | 2 workers, 3 plans of 2 leaves, a cache of 2, 5 runs, fixed and adaptive, fair | PrimedMeansCached, LeafFindsProcess, OkTookEveryLeaf, RunsEnd where the caches agree |

Runs that end in a violation, each a disagreement between the code and what a
comment, docstring or test says of it (quoted in `PROJECT.json`):

| Run | What happens |
|---|---|
| broadcast_reuse | a re-used process moves to the end of the driver's record but not of the workers' caches; they evict different ones and a later run's leaf raises `KeyError` |
| pinned_resteal | a leaf stolen from a thief ends where the owner cannot be reached; its partial is lost |
| http_error | the transport is closed before `done` is posted; the pool's shutdown, and with it the caller, waits for ever |
| session_reuse | a run on a kept pool fails; the next one drains the inboxes while an actor of the first is still processing, and then combines that actor's partial with its own |

Three smaller disagreements follow from the same models and have no run of their
own.  A repeated `steal_resp` has no identity and is not filtered
(`_peer.py:410-413`), so a leaf may be processed twice although the comment at
`_transport.py:243-245` calls an at-least-once retry safe: the value is still right
(`peer_http`), which is why StealsBalance is checked without repeats only.
Full-registry workers steal from every peer (`_peer.py:343`), not from their
lifelines as the comment at `executors.py:868-869` has it.  And a clean run of
workers that steal may leave steal requests and answers in an inbox, which the
comment at `executors.py:894` ("a clean run leaves none") excludes: a worker that
handles `done` looks at nothing more, and stealing is the default.
`CleanRunLeavesOnlySteals` states what is true instead: of the actors, their partials,
the root and `done` nothing is left.  The drain removes the steal messages, by then
nobody sends any more, and an answer left in an inbox would grant no leaf.

### Bounds, and why they are enough

*Leaves and workers.*  Five leaves have an odd level, a node carried up over more
than one level and a root whose operands lie on different levels; three workers
have one that receives hand-offs from two, and one that hands off and receives.
On two workers (`peer_outcomes`) one has a pair of its own and both a boundary node.
What depends only on sizes is checked by `reduce_tree` on all sizes to 26 x 10, and
proved for every size (section 4).  HTTP puts a sender thread between every two steps of the above, so
`peer_http` takes three leaves: one pair, one carried node, one hand-off.
*MaxRequests.*  One request per worker already gives each pair of thief and
victim every order of asking, giving and finishing; `pinned_resteal` takes two and
six leaves, so that a stolen leaf is stolen again.
*faults.*  One lost acknowledgement or one message given up, at any message of the
run; a duplicate is filtered by identity, so a second one of the same message meets
the same filter.
*Ahead.*  Completion at most three leaves ahead of the first one missing is the
"roughly in-order delivery" for which the frontier is promised to be small; all else
about the lazy reducer's safety is proved for every order (section 4).  The size must
let the bound fail: a reducer of 23 leaves fed in an arbitrary order comes to hold 12
nodes (every even leaf, before any odd one), and the bound Depth + Ahead + 1 is 9.
*Session.*  Two actors are one that combines and one that sends to it; three runs are
one that fails, one that may overlap with it and one after that.  One process dies.
*MaxAsks.*  One steal request of each actor: it is enough for a request and for an
answer to be left behind, in either inbox, polled with `done` or after it.
For any number of workers and runs the safety part is proved (section 4).
*Broadcast.*  For any number of workers, plans and runs the safety part is proved, of the
same usages (section 4).  A cache of two with three plans is the smallest in which
the order of eviction matters; `MaxRounds = 2` lets a broadcast give up.  Two leaves let one come
back while the other is queued, running, left behind or not asked for yet.  Without
`hold` one worker may take two priming jobs, which the code's brief hold makes
unlikely but not impossible; with it the pool is covered in one round.  `broadcast`
takes the usages (`Agreeing`) in which the two caches agree: as many plans as the
cache holds, used again at will, without `hold`; or more plans than it holds, none
used again while primed.  `broadcast_reuse` is the usage in between, where they do
not.

`CHECK_DEADLOCK FALSE` stands where the system may stop: a size walk at its last
size (`reduce_tree`), a dropped message without a deadline or a failed handshake,
after which `pool.shutdown()` waits for workers that wait for the registry
(`peer_http`), the hangs that two violation runs are about, and a user who starts no
more runs (`broadcast`, `broadcast_reuse`, `session`, `session_reuse`).  In all other
runs TLC finds no deadlock: from every state some worker, sender thread or the
driver can go on until the run is over and all workers have ended.

### Fairness

`FairSpec` of PeerReduce: weak fairness of each worker as a whole (a thread or
process the operating system schedules; its loop never waits for ever except in
`recv`, which times out), of each HTTP sender thread's successful post, and of
the driver's loop.  No fairness is asked of faults, of a particular message or of
a particular branch.  PeerSession: of the driver within a run and of a shutdown that
has begun, of each worker, and of the standard pool's noticing that a process has
died (its management thread waits on the process sentinels); not of the next run, of
`close()`, nor of a death.  `RunsEnd` has two exceptions, both hazards of the code: an
actor of an earlier run takes messages of this one (`overlap`), and a pinned process
dies after the root has been sent, when nobody looks at `workers_alive` any more
(`Unwatched`).  HubReduce: of the driver and of the pool as a whole.  LazyReduce is
sequential.  BroadcastCache: of the driver within a run and of each worker; not of
the next run nor of `close()`.

## 4. What is proved

Each theorem holds for every value of the constants that meets the assumptions named
at the end of this section: every number of leaves, workers, plans and runs, every
`LeafValue` and every `Combine`.

### The peer run

`PeerReduceProofs` and `PeerRefinementProofs`: either transport, every kind of worker,
with and without stealing, and with raising nodes, repeated and dropped messages, the
handshake and the deadline.

| Theorem | Says |
|---|---|
| InductiveInvariant | `Spec => []IInv` |
| TypeCorrect | `Spec => []TypeOK` |
| ValuesStayTrue | every partial on the wire, parked or in hand has the tree's value of its node, and is where it may be settled |
| RootDeterministic | `Spec => []RootIsTreeValue`: bit-for-bit determinism |
| RootReachedAtWorker0 | only worker 0 reaches the root |
| ForestInvariant | `Spec => []FInv` |
| NoDoubleCounting | `Spec => []NoLeafTwice`: no leaf is in two partials that may still be combined |
| NoBarrier | `Spec => []NoSiblingsParked`: two operands of one combine never wait side by side |
| RootComesLast | where the root is, no other partial is left |
| AloneInvariant | `Spec => []UInv`: while no message was delivered twice, a leaf is in one place at most, and in none once its owner has settled it |
| NothingStaysBehind | `Spec => [](repeats = 0 => NothingLeftBehind)` |
| LossInvariant | `Spec => []LInv` |
| NoLeafLost | `Spec => [](Reaches => NothingLost)` |
| ReasonInvariant | the driver joins only with the root or for an error, and returns only an answer |
| PeerRunImplementsReduction | `Spec => StepsImplementReduction` |
| CountInvariant | `Spec => []WInv`: while no leaf is lost, each counter is the number of nodes it stands for |
| WitnessIsTheTree | `Spec => []WitnessOfTheTree`: n-1 combines, the boundary nodes that `reduction_edges` foresees, each hand-off taken once |
| StealsAlwaysBalance | `Spec => [](repeats = 0 => StealsBalance)` |
| TheftsBalance | on the queue transport, and wherever no acknowledgement can be lost, NothingLeftBehind and StealsBalance hold of every run |

*Values.*  `RootIsTreeValue` alone is not inductive: the root the driver
takes comes out of a message, its value from a combine at worker 0, whose
operands came from parked nodes and messages.  So IInv says of *every* message
delivered or queued that it is one its receiver may be sent (`MailIsTrue`) and of
every value parked or in hand that it is the tree's value of its node
(`HeldIsTrue`).  A combine preserves this because parked values are found by
node identity and operands are ordered by the parity of the position
(`CombinedValue`); a hand-off because it is sent to the owner of the even sibling,
who owns the parent (`ParentAtHome`, from `ParentKeepsOwner` in
`ReduceTreeProofs`); duplicates, drops and repeats because a true message stays
true.  `TypeOK` is needed with it, for the range of every function and for
`polled <= Len(inbox)`.  One lemma per action shows that it keeps IInv.

*No leaf twice.*  The proof looks at a run as a forest.  A part of it is a node and
where its partial is: a leaf not settled yet at its owner, a node in the hand of
`settle`, parked, on its way to the worker that is to combine it, or the root at the
driver.  FInv says that two different parts have no leaf in common (`OnceEach`).  A
leaf settled, a node carried, shipped, parked or combined takes the place of the parts
whose leaves it covers.  What makes this hard is a repeated message: a node that a
sender posts twice must not come back once it has gone up the tree.  `PastIt` says so:
where a worker has seen a node that it does not own, all that exists of its leaves is
at a higher level, or is that very node in this worker's hand or store.  A second copy
is therefore no part of the forest, whether it is still on its way or not, and the
filter in `handle` (`seen`) throws it away.  `NodesAreShipped` says which messages
there are - a node goes from its owner to that of its sibling - and NoSiblingsParked
belongs to the invariant itself, since the sibling looked for is the one the level
above is built of.

*No leaf lost.*  LInv says that as long as nobody has raised, nothing has been dropped
and the driver waits (`Calm`), every leaf is under some part (`Covered`), and that a
leaf not settled is to be processed by somebody or is under way to its owner
(`Somewhere`).  A message could be lost without a fault where the receiver does not
understand it, before its registry has come; `TInv` shows that nothing of value comes
that early (`AfterRegistry`).  The driver posts the registry to worker 0 first and then
upwards (`InTurn`), and nodes only go to lower workers; a leaf comes back to an owner
it was stolen from, and an answer to a thief that has asked, both of whom work already
(`LeavesAway`, `Thieves`).  `Reaches` leaves out the pinned pool with stealing,
where the claim is false: `pinned_resteal` shows the leaf that gets lost.  Nothing else
is left out.

*The refinement.*  Of PeerReduce the mapping sees the blocks (sets of leaves) that have
been formed, the answer and whether there was a fault.  `Formed` grows by at most one
block in a step, of two blocks formed earlier whose leaves are disjoint - the operands,
of different parts of the forest - or answers with the root.  The proof goes action by action, with IInv, FInv and LInv.  What it shows is
the step formula; that a run ends, which `ImplementsReduction` adds, stays with TLC.

*What the counters say.*  `WitnessOfTheTree` speaks of the state in which the root is
in; before that the counters are those of a half-finished tree.  WInv ties them to the
forest: a node is counted when every part that has leaves of it is past it, that is
higher in the tree, or is the node itself on its way or with the worker that takes it.
Settling, shipping, taking and combining move one part past one node, of the worker
whose counter goes up; a second copy of a message is no part, so it moves nothing.  All
this holds as long as every leaf is under some part (`Full`).  A dropped node or a worker
that raises ends that, and no leaf comes back; so where the root is in, which covers
all of them, none was ever lost.  The forest is then that one part, past every node, and
the counts are the sizes of the sets of even nodes and of boundary nodes.  Sums over the workers are sizes of unions
(`SumOfSizes`), since a sum is a fold, of which the prover knows nothing.

*Nothing left behind, and the thefts.*  The forest follows a leaf only while its owner has
not settled it; these two statements need the other copies as well.  A *shelf* is a
place where a leaf can lie: a worker's deque, a `steal_resp` or a `leaf` message,
delivered or still to post.  UInv says that a leaf lies on one shelf at most, once, and
on none when its owner has settled it.  Each action moves a leaf from one shelf to
another or settles it, with two exceptions: the sender thread that posts a message
again (`PostUnacknowledged`) and thereby copies it, whence the condition `repeats = 0`,
and the losses, which only take away.  For the balance, `Books` adds up three
lines: leaves processed and leaves still to be processed are N; leaves given are
those received and those travelling; and for each worker, what it has processed, given
away or still has is its slice and what it stole.  The condition is not an
artefact of the proof: a repeated `steal_resp` has no identity and the leaves in it are
processed twice (section 3).  On the queue transport there is no sender thread, so
`repeats` stays 0 (`SendsNone`), and TheftsBalance needs no condition on the history.

### Sessions

`PeerSessionProofs`: either pool, kept or not, whatever raises, dies or comes late.

| Theorem | Says |
|---|---|
| SessionTypeCorrect | `Spec => []TypeOK` |
| AnswerCorrect | `Spec => []AnswerIsThisRuns`: the root a run takes is the whole of that run and of no other, unless an actor of an earlier run was there when it started |
| OnlyStealsAreLeft | `Spec => []CleanRunLeavesOnlySteals`: after a run that returned a value, its actors have ended and no partial, root or `done` is left, at most steal messages (with the same exception) |

*The argument.*  The invariant IInv adds to `TypeOK` that a pool made anew holds nothing
(`CleanPool`: without a pool there are neither calls nor actors, and a pool that is not
kept is gone when its run is over) and, for a run that did not overlap with another,
`OnlyThisRun`: every actor, every partial in an inbox or in an actor's hands is of
this run, so is every call but those in the queue of a dead pinned worker, and every
root sent is whole.  `StartRun` establishes the latter: without overlap there is no
one left who could send, and the drain has emptied the inboxes.  Every later step
keeps it, since an actor sends only what it has made of its own call and of its
inbox.  A root is sent only when one partial of each address is there, and a set of
this run's partials with one of each address is `Whole(runs)` (`WholeOfAll`).

For OnlyStealsAreLeft the invariant CInv (`Alone`, where there is no overlap) adds who
has done what; it speaks of the messages that are partials or `done`, between which any
number of steal messages may lie: an address has at most one actor; an address that has not sent its
partial has none in an inbox or in the hands of address 0; a partial is in one place
only; the root is sent once, after all of them were gathered.  So when the driver has
the root there is nothing left but `done` and steal messages, and a run that is over has
had every actor handle its `done`; what that drops of the messages polled with it are
steal messages.

### The hub

`HubReduceProofs`: driver-combining or pooled, leaves and combines complete in any
order, any of them may raise.

| Theorem | Says |
|---|---|
| HubInvariant | `Spec => []HInv` |
| HubTypes | `Spec => []TypeOK`, which says that no combine is stacked twice |
| HubDrainsItsStack | `Spec => []NoReadyPairWaits`: the driver waits only when nothing it has can be combined |
| PooledHandsOver | `Spec => []PooledHoldsNoOperand`: what is held and what the jobs compute covers no leaf twice |
| HubImplementsReduction | `Spec => Abstract!Spec` |

*The argument.*  HInv gives every id its value in the tree (`Truths`), and says when a
combine is on the stack or handed out: if and only if both its operands have arrived.
Driver-combining (`Plain`) the values stay in `ready`, so it is `remaining` and the
stack that must agree with it; pooled (`Handed`) an operand is taken out when its
combine is submitted, so that every id is present, or consumed by a combine submitted,
and what is present covers disjoint leaves.  `Outcome` says that an error comes from a
raising node.  Facts about every plan come from `EveryPlanTreeAgrees`' lemmas: each id
but the root is an operand of exactly one combine, so there are N - 1 of them
(`CombinesAreFew`).  In the refinement a result is found when nothing is outstanding:
the lowest id not there would have two operands that are, hence a combine on the
stack (`RootIsThere`).

### The lazy reducer

`LazyReduceProofs`: leaves fed in any order (`Ahead` may be as large as N) and any set
of combines that raise.

| Theorem | Says |
|---|---|
| LazyTypeCorrect | `Spec => []TypeOK` |
| EveryLeafHeldOnce | `Spec => []HoldsEveryLeafOnce` |
| LazyImplementsReduction | `Spec => Abstract!Spec`: every step of LazyReducer is one of Reduction or none, so its result is the root's value in the fixed tree |
| FrontierStaysSmall | `Spec => []FrontierIsSmall`: the frontier never has more than Depth + Ahead + 1 nodes |

*The argument.*  The nodes the reducer holds are a forest over the leaves fed
(`ForestOK`): no two have a leaf in common, and together they cover `delivered`.
Feeding adds a tree of one leaf; carrying and combining put a node in the place of
those whose leaves it covers (`PutInPlace`).  A combine makes one node of two, which
gives `n_combines` and the size of the frontier.  That `result()` finds the root
(`RootIsLeft`) needs `WaitingOK`, that no parked node has its sibling beside it: of
the nodes left when all leaves are fed, the lowest has a sibling in the tree, whose
leaves are under some other node left; that one is higher, so it covers the parent and
with it the lowest node (`Nested`), against disjointness.  For the refinement,
`FormPair` shows that a combine forms one block and no other.

For FrontierStaysSmall a node is early if all its leaves are before the first one
missing.  Two early nodes of one level cannot both wait: between them, or beside the
first, is a sibling that has all its leaves and would have been combined
(`OneEarlyPerLevel`).  Every other node holds one of the leaves after the first one
missing, of which there are at most `Ahead` (`Window`), each in one node.

### The broadcast cache

`BroadcastCacheProofs`: fixed or adaptive, every cache size, whatever leaf raises.

| Theorem | Says |
|---|---|
| BroadcastTypeCorrect | `Spec => []TypeOK` |
| ReturnsEveryLeaf | `Spec => []OkTookEveryLeaf`: a run that returns has the value of every leaf it submitted |
| FittingPlansStayPrimed | where the plans in use fit in the cache, primed means cached |
| PlansStayInStep | the same where the plans do not fit, none is used again while it is primed, and the hold in `_prime_shared` works |
| EveryLeafFindsProcess | in either case no leaf misses its process on its worker |

*The argument.*  ReturnsEveryLeaf is a count (`CountOK`): the leaves taken and the
leaves outstanding - queued, at a worker, or come back and not yet looked at - are
together those submitted, or fewer once something failed.  A leaf left over by a failed
or stopped run is not counted because it carries the number of its run.
FittingPlansStayPrimed rests on `Agree`: the driver's record and every worker's cache
differ at most by the process being primed.  Nothing is ever evicted because a record
holds no process twice, only processes of the plans in use, and so has room for one
that is not in it (`RoomForOneMore`); and `_prime_shared` counts pids only when its batch
is over, so that each worker it counts has the process.

Where plans do not fit, both sides evict, and PlansStayInStep needs more: every worker's
cache *is* the driver's record, in the same order, and during a broadcast has the new
process on top of it in those workers that are covered (`Steps`).  Both sides then
drop the same one.  This would fail if a worker took part in a broadcast that the driver
gives up, so the invariant counts priming jobs (`RoundOK`): the first round has one for
each worker, a covered worker takes no second one (the hold), and when the batch is
over all workers are covered.  Jobs left over by earlier runs may meet a worker that has
evicted their process, but nobody waits for them (`OwnJobs`).  When a process is used
again while it is primed, the driver moves it to the end and the workers do not: there
the statement is false (`broadcast_reuse`).  Without the hold a broadcast may take several
rounds or give up; that is not claimed.

### The tree

`ReduceTreeProofs` proves the arithmetic the others rest on: 2^l doubles from level to
level, a level halves rounded up, a parent is on the next level and covers its
operands' leaves, of two nodes with a common leaf the lower is under the higher,
`worker_of` names a worker, an even node and its parent have the same owner, and a
pass of plan_tree keeps the form of its list and the node each id stands for.
`MCReduceTreeProofs` proves from it what `reduce_tree` checks, for every number of
leaves and workers:

| Theorem | Says |
|---|---|
| EveryTreeIsSound | `TreeIsSound`: levels halve to one root at ceil(log2 n), a node covers the leaves of its operands, the root all |
| EveryPlanTreeAgrees | `PlanTreeAgrees`: plan_tree's list is the pairs of the index arithmetic, each once, left operand first |
| SlicesAlwaysPartition | `SlicesPartition`: the ranges are contiguous, differ by one leaf at most, and are all the leaves; `worker_of` inverts them |
| HandOffsAlwaysGoDown | `HandOffsGoDown`: a parent belongs to the worker `settle` computes, never a higher one |
| HandOffsAreFew | `FewHandOffs`: a worker ships at most one node of a level |
| OverlayStaysSmallAndConnected | `OverlayIsSmallAndConnected`: lifelines are symmetric, every worker is within ceil(log2 w) hops of worker 0 (hence within twice that of any other), an outbox has at most ceil(log2 w) + ceil(log2 n) peers |

The prover knows nothing of exponentiation; that 2^l is a natural number is proved from
the number of subsets of a finite set.  Nor can it do an induction over data.  Where one
is wanted - over the levels (`SameAncestors`), over plan_tree's passes, over the ids of a
plan (`CoverOf`), over the hops of the overlay - the proof takes the least
counterexample (`Least`) and shows that the case before it is one too.

### Assumptions

Sizes: at least one leaf and one worker, of a peer run no more workers than leaves
(which `_run_peer` enforces), and `Depth` is the first level of size one
(`SizeAssumption`, `HubAssumption`, `LazyAssumption`, `SessionAssumption`,
`CacheAssumption`).  Values: `TreeValue` is the function plan_tree's grouping defines -
leaves, carried nodes, pairs left to right - of any `Combine` (`TreeValueAssumption` of
PeerReduce, HubReduce, LazyReduce).  `None`, which stands for Python's None and for "no
node in hand", is no value of the tree (`NoneAssumption` and a clause of
`LazyAssumption`) and no outcome of a run (`SessionAssumption`), nor a job
(`CacheAssumption`).  Options and usages are the records they are said to be
(`OptionAssumption`, `UsageAssumption`).  TLC evaluates all of them on the runs.

### Only model-checked

ErrorSurfaces and RunsEnd, and of every refinement the fairness it promises: liveness
and ENABLED are out of TLAPS's reach.  Every invariant and every action property that a
passing run checks is proved, under the conditions named above.

## 5. Plan

Done: ReduceTree, PlanTree, Reduction, PeerReduce (both transports, the handshake,
threads and both pools), PeerSession, HubReduce, LazyReduce, BroadcastCache with fixed
and adaptive runs, and the proofs of section 4.

What could follow:

1. **PipeInbox** - bounded pipes and queues: blocking `put`, dropped sends, two
   readers of one inbox (`get_nowait` polls and then reads).
2. **HTTP on a kept pool** - a handshake that failed leaves actors waiting for a
   registry, which occupy the processes the next run needs.
3. **Telemetry** - buffers, drain thread, final drain, collector.
4. Proofs about what 1 to 3 add.

## 6. Not modelled

Telemetry and profilers: a side channel that neither results, errors nor what anybody
waits for depend on.  Reading partitions, resources and file handles (graphed-core's
`LocalResources`, not in this repository).  Pickling and the wire format.  The capacity
of pipes and queues: an inbox is unbounded.  A process of the hub's pool that dies
(BrokenProcessPool out of the futures of a priming round, `executors.py:1187`, or of a
leaf) and the kept pool that is broken from then on; dying workers are modelled for
peer runs only.  A leaf that moves from one actor to another while a pool is kept
(PeerSession's actors have one leaf each).  The order in which `running_fold` folds,
which needs a commutative combine.  The file descriptor warning and the monitor's
events.  `run_peer_worker` and `collect_peer_root`, loops used by in-process tests
that do a part of what `process_and_reduce` and `_collect_peer` do.  The empty plan,
which `run` answers before any of this starts.
