---------------------------- MODULE PeerReduce ----------------------------
(***************************************************************************)
(* One peer run of the executor: W worker actors (process_and_reduce, each *)
(* with a PeerReducer) and the driver that collects the root.  Workers     *)
(* process leaves, settle the partials into the fixed tree, hand boundary  *)
(* partials to each other, and steal leaves from busy peers.  One settle   *)
(* iteration, one handled message, one processed leaf is one step; the     *)
(* steps of different workers interleave freely.                           *)
(*                                                                         *)
(* The transport is the queue transport (Async = FALSE: a send puts the    *)
(* message in the peer's inbox) or the HTTP one (Async = TRUE: a send puts *)
(* it in the sender's queue, which a background thread posts in order, at  *)
(* least once, giving up after five failures).  The workers are threads    *)
(* (ThreadExecutor), processes of the full-registry pool or of the pinned  *)
(* pool; HTTP processes find each other through the driver first.          *)
(***************************************************************************)
EXTENDS ReduceTree, Sequences, SequencesExt

CONSTANTS
  N,            \* leaves of the plan
  W,            \* workers
  Depth,        \* level of the root
  LeafValue(_), \* the partial process() returns for a leaf
  Combine(_,_), \* plan.combine
  TreeValue,    \* node -> its value in plan_tree's fixed grouping
  Options,      \* the executors and plans of the runs, see OptionAssumption
  Async,        \* HTTP transport or queue transport
  MaxRequests,  \* bound: steal requests one worker sends
  DRIVER,       \* the driver's address
  None          \* no node in hand, no answer yet

Workers == 0 .. W-1
Leaves == 0 .. N-1
Nodes == NodesOf(N, Depth)
Root == <<Depth, 0>>
OwnerOf == [nd \in Nodes |-> Owner(N, W, nd)]
Endpoints == Workers \cup {DRIVER}

(* run() clamps the workers to 1 <= W <= N and answers an empty plan itself. *)
ASSUME SizeAssumption ==
  /\ N \in Nat \ {0} /\ W \in 1 .. N
  /\ Depth \in Nat /\ IsRootLevel(N, Depth)
  /\ \A lvl \in 0 .. Depth-1 : LevelSize(N, lvl) > 1

(* TreeValue is the value of each node of plan_tree: pairs combine left to  *)
(* right, an unpaired node carries up unchanged.                           *)
ASSUME TreeValueAssumption ==
  /\ \A leaf \in Leaves : TreeValue[<<0, leaf>>] = LeafValue(leaf)
  /\ \A lvl \in 0 .. Depth-1 : \A pos \in 0 .. LevelSize(N, lvl) - 1 :
       pos % 2 = 0 =>
         TreeValue[Parent(<<lvl, pos>>)] =
           IF Unpaired(N, <<lvl, pos>>)
           THEN TreeValue[<<lvl, pos>>]
           ELSE Combine(TreeValue[<<lvl, pos>>], TreeValue[<<lvl, pos+1>>])

(* None is the absence of a value and of a node in hand.                   *)
ASSUME NoneAssumption ==
  None \notin {TreeValue[nd] : nd \in Nodes}
                \cup [node : Nodes, val : {TreeValue[nd] : nd \in Nodes}]

(* kind: what the workers are.  steal: the executor's option.  raises: nodes  *)
(* whose process() (a leaf) or combine (a pair) raises.  late: whether the    *)
(* driver's deadlines may expire in this run.  faults: bound on the lost     *)
(* acknowledgements and the messages given up, of all senders together.     *)
Kinds == {"thread", "pool", "pinned"}
ASSUME OptionAssumption ==
  /\ Options \subseteq
       [kind : Kinds, steal : BOOLEAN, raises : SUBSET Nodes, late : BOOLEAN, faults : Nat]
  /\ Async \in BOOLEAN /\ (Async => \A o \in Options : o.kind # "pinned")
  /\ MaxRequests \in Nat
  /\ DRIVER \notin Workers

VARIABLES
  opt,      \* what this run is, one of Options
  mine,     \* worker -> leaves still to process, own and stolen (a deque)
  present,  \* worker -> parked nodes and their values (PeerReducer._present)
  seen,     \* worker -> nodes already settled here (duplicate filter)
  cur,      \* worker -> the node settle() is bubbling up, or None
  phase,    \* worker -> where it is: "await" (the registry), "poll", "work", "asked"
  polled,   \* worker -> messages taken by the last poll and not yet handled
  status,   \* worker -> "running", "returned", "raised", "killed"
  asked,    \* worker -> steal requests sent (the code's victim counter)
  stats,    \* worker -> its witness counters
  inbox,    \* endpoint -> delivered messages
  out,      \* endpoint -> messages its HTTP sender thread has still to post
  repeats,  \* lost acknowledgements so far
  drops,    \* messages dropped by a sender thread so far
  known,    \* the workers in the driver's registry, in its order
  driver,   \* "handshake", "collect", "join", "teardown", "shutdown", "returned", "failed"
  answer    \* the root the driver received, or None

loopVars == <<mine, phase, polled, status, asked>>
treeVars == <<present, seen, cur>>
wireVars == <<inbox, out>>
faultVars == <<repeats, drops>>
driverVars == <<known, driver, answer>>
vars == <<opt, loopVars, treeVars, wireVars, faultVars, driverVars, stats>>

-----------------------------------------------------------------------------
(* Messages.                                                               *)

NodeMsg(nd, val) == [tag |-> "node", node |-> nd, val |-> val]
LeafMsg(leaf, val) == [tag |-> "leaf", node |-> <<0, leaf>>, val |-> val]
RootMsg(val) == [tag |-> "root", val |-> val]
StealReq(thief) == [tag |-> "steal_req", thief |-> thief]
StealResp(leaves) == [tag |-> "steal_resp", leaves |-> leaves]
DoneMsg == [tag |-> "done"]
HelloMsg(w) == [tag |-> "hello", from |-> w]
RegistryMsg == [tag |-> "registry"]

(* Who a worker can steal from, in the order it asks, and whom it can reach. *)
StealPeers ==
  [w \in Workers |->
     SetToSortSeq(IF opt.kind = "pinned" THEN LifelineNeighbors(w, W) ELSE Workers \ {w}, <)]
Outbox ==
  [w \in Workers |->
     {DRIVER} \cup IF opt.kind = "pinned" THEN WorkerOutbox(N, W, Depth, w) ELSE Workers \ {w}]

(* send(): to an address that is not in the outbox nothing is sent, and the *)
(* caller ignores the result.  boxes are the inboxes before the send.      *)
NoSend(boxes) == inbox' = boxes /\ out' = out
HttpSend(w, boxes, dest, msg) ==
  inbox' = boxes /\ out' = [out EXCEPT ![w] = Append(@, [to |-> dest, msg |-> msg])]
QueueSend(boxes, dest, msg) ==
  inbox' = [boxes EXCEPT ![dest] = Append(@, msg)] /\ out' = out
Send(w, boxes, dest, msg) ==
  IF dest \notin Outbox[w] THEN NoSend(boxes)
  ELSE IF Async THEN HttpSend(w, boxes, dest, msg)
  ELSE QueueSend(boxes, dest, msg)

(* The driver sends to all workers: its registry, in the order it has them,   *)
(* or broadcast(("done",)).                                                *)
PostAll(order, msg) == [i \in DOMAIN order |-> [to |-> order[i], msg |-> msg]]
InOrder == [i \in 1 .. W |-> i-1]
BroadcastDone ==
  IF Async
  THEN inbox' = inbox
       /\ out' = [out EXCEPT ![DRIVER] = @ \o PostAll(known, DoneMsg)]
  ELSE inbox' = [e \in Endpoints |-> IF e \in Workers THEN Append(inbox[e], DoneMsg) ELSE inbox[e]]
       /\ out' = out

-----------------------------------------------------------------------------
(* settle(): one iteration of its loop for the node worker w has in hand.   *)

Settling(w) == status[w] = "running" /\ cur[w] # None

Enter(w, nd, val) == cur' = [cur EXCEPT ![w] = [node |-> nd, val |-> val]]
LeaveSettle(w) == cur' = [cur EXCEPT ![w] = None]
Count(w, field) == stats' = [stats EXCEPT ![w][field] = @ + 1]

(* An odd node whose even sibling belongs to another worker.               *)
ParentAtOddOwner(w, nd) == IsEven(nd) /\ OwnerOf[Sibling(nd)] # w
PeerOwnsParent(w, nd) == ~IsEven(nd) /\ OwnerOf[Sibling(nd)] # w

(* The values of a pair, left operand first.                               *)
OperandsAsTheyCome(nd, val, other) == <<other, val>>
Operands(nd, val, other) == IF IsEven(nd) THEN <<val, other>> ELSE <<other, val>>

(* The frontier: park a node, look for its sibling, take it out.            *)
Park(parked, nd, val) ==
  [x \in DOMAIN parked \cup {nd} |-> IF x = nd THEN val ELSE parked[x]]
EvenSiblingOnly(parked, nd) == IsEven(nd) /\ Sibling(nd) \in DOMAIN parked
SiblingIn(parked, nd) == Sibling(nd) \in DOMAIN parked
GetNotPop(parked, nd) == parked
PopSibling(parked, nd) == Restrict(parked, DOMAIN parked \ {Sibling(nd)})

(* The worker's call ends.  An HTTP process closes its transport, which stops *)
(* the sender thread with whatever it still holds; a thread's transport is   *)
(* the driver's to close.                                                  *)
Threads == opt.kind = "thread"
Ends(w, how) == status' = [status EXCEPT ![w] = how]
CloseTransport(w) == out' = IF Threads THEN out ELSE [out EXCEPT ![w] = <<>>]

SettleRoot(w) ==
  /\ Settling(w)
  /\ IsRootLevel(N, Lvl(cur[w].node))
  /\ Send(w, inbox, DRIVER, RootMsg(cur[w].val))
  /\ LeaveSettle(w)
  /\ UNCHANGED <<opt, loopVars, present, seen, faultVars, driverVars, stats>>

(* Below the root: what the next three actions have in common.             *)
InTree(w) == Settling(w) /\ ~IsRootLevel(N, Lvl(cur[w].node))
HasSibling(w) == InTree(w) /\ ~Unpaired(N, cur[w].node)
MeetsHere(w) == HasSibling(w) /\ ~PeerOwnsParent(w, cur[w].node)

SettleCarry(w) ==
  /\ InTree(w)
  /\ Unpaired(N, cur[w].node)
  /\ Enter(w, Parent(cur[w].node), cur[w].val)
  /\ UNCHANGED <<opt, loopVars, present, seen, wireVars, faultVars, driverVars, stats>>

SettleShip(w) ==
  /\ HasSibling(w)
  /\ PeerOwnsParent(w, cur[w].node)
  /\ Send(w, inbox, OwnerOf[Sibling(cur[w].node)], NodeMsg(cur[w].node, cur[w].val))
  /\ Count(w, "peer_sends")
  /\ LeaveSettle(w)
  /\ UNCHANGED <<opt, loopVars, present, seen, faultVars, driverVars>>

SettlePark(w) ==
  /\ MeetsHere(w)
  /\ ~SiblingIn(present[w], cur[w].node)
  /\ present' = [present EXCEPT ![w] = Park(@, cur[w].node, cur[w].val)]
  /\ LeaveSettle(w)
  /\ UNCHANGED <<opt, loopVars, seen, wireVars, faultVars, driverVars, stats>>

SettleCombine(w) ==
  LET nd == cur[w].node
      pair == Operands(nd, cur[w].val, present[w][Sibling(nd)])
  IN  /\ MeetsHere(w)
      /\ SiblingIn(present[w], nd)
      /\ present' = [present EXCEPT ![w] = PopSibling(@, nd)]
      /\ \/ /\ Parent(nd) \notin opt.raises
            /\ Enter(w, Parent(nd), Combine(pair[1], pair[2]))
            /\ Count(w, "n_combines")
            /\ UNCHANGED <<opt, loopVars, seen, wireVars, faultVars, driverVars>>
         \/ /\ Parent(nd) \in opt.raises
            /\ Ends(w, "raised") /\ CloseTransport(w)
            /\ LeaveSettle(w)
            /\ UNCHANGED <<opt, mine, phase, polled, asked, seen, inbox, faultVars, driverVars, stats>>

Settle(w) == SettleRoot(w) \/ SettleCarry(w) \/ SettleShip(w) \/ SettlePark(w) \/ SettleCombine(w)

-----------------------------------------------------------------------------
(* The worker loop: drain the inbox, then process one leaf or wait.         *)

Idle(w) == status[w] = "running" /\ cur[w] = None /\ polled[w] = 0
AtTop(w) == Idle(w) /\ phase[w] = "poll"
AtWork(w) == Idle(w) /\ phase[w] = "work"

Goto(w, where) == phase' = [phase EXCEPT ![w] = where]

(* poll() takes all that has arrived; the messages are then handled one by  *)
(* one, and what arrives meanwhile waits for the next poll.                *)
Poll(w) ==
  /\ AtTop(w)
  /\ polled' = [polled EXCEPT ![w] = Len(inbox[w])]
  /\ Goto(w, "work")
  /\ UNCHANGED <<opt, mine, status, asked, treeVars, wireVars, faultVars, driverVars, stats>>

(* recv(timeout) of an idle worker: one message, or none after a request    *)
(* (an idle worker that gets nothing and asks nobody just goes round).     *)
Recv(w) ==
  /\ \/ Idle(w) /\ phase[w] = "asked"
     \/ AtWork(w) /\ mine[w] = <<>> /\ inbox[w] # <<>>
  /\ polled' = [polled EXCEPT ![w] = IF inbox[w] = <<>> THEN 0 ELSE 1]
  /\ Goto(w, "poll")
  /\ UNCHANGED <<opt, mine, status, asked, treeVars, wireVars, faultVars, driverVars, stats>>

(* Out of work for STEAL_DELAY, or a backoff after the last request.        *)
AskSteal(w) ==
  LET peers == StealPeers[w]
  IN  /\ AtWork(w) /\ mine[w] = <<>>
      /\ opt.steal /\ peers # <<>>
      /\ asked[w] < MaxRequests
      /\ \E victim \in Workers :
           /\ victim = peers[(asked[w] % Len(peers)) + 1]
           /\ Send(w, inbox, victim, StealReq(w))
      /\ asked' = [asked EXCEPT ![w] = @ + 1]
      /\ Goto(w, "asked")
      /\ UNCHANGED <<opt, mine, polled, status, treeVars, faultVars, driverVars, stats>>

TakeLeaf(w) == AtWork(w) /\ mine[w] # <<>>
NoFilter(w, nd) == TRUE
Fresh(w, nd) == nd \notin seen[w]
See(w, nd) == seen' = [seen EXCEPT ![w] = @ \cup {nd}]

ProcessRaises(w) ==
  /\ TakeLeaf(w)
  /\ <<0, Head(mine[w])>> \in opt.raises
  /\ mine' = [mine EXCEPT ![w] = Tail(@)]
  /\ Ends(w, "raised") /\ CloseTransport(w)
  /\ UNCHANGED <<opt, phase, polled, asked, treeVars, inbox, faultVars, driverVars, stats>>

(* A leaf of this worker's range is settled here (once), a stolen one goes  *)
(* back to the worker that owns it.                                        *)
Process(w) ==
  LET leaf == Head(mine[w])
      home == OwnerOf[<<0, leaf>>]
  IN  /\ TakeLeaf(w)
      /\ <<0, leaf>> \notin opt.raises
      /\ mine' = [mine EXCEPT ![w] = Tail(@)]
      /\ Count(w, "processed")
      /\ Goto(w, "poll")
      /\ \/ /\ home = w /\ Fresh(w, <<0, leaf>>)
            /\ See(w, <<0, leaf>>)
            /\ Enter(w, <<0, leaf>>, LeafValue(leaf))
            /\ UNCHANGED wireVars
         \/ /\ home = w /\ ~Fresh(w, <<0, leaf>>)
            /\ UNCHANGED <<seen, cur, wireVars>>
         \/ /\ home # w
            /\ Send(w, inbox, home, LeafMsg(leaf, LeafValue(leaf)))
            /\ UNCHANGED <<seen, cur>>
      /\ UNCHANGED <<opt, polled, status, asked, present, faultVars, driverVars>>

-----------------------------------------------------------------------------
(* handle(): the oldest polled message.                                    *)

Msg(w) == Head(inbox[w])
Handling(w, tag) ==
  status[w] = "running" /\ cur[w] = None /\ polled[w] > 0 /\ Msg(w).tag = tag
Taken(w) == [inbox EXCEPT ![w] = Tail(@)]
HandledAgain(w) == polled' = polled
Consume(w) == polled' = [polled EXCEPT ![w] = @ - 1]

(* A partial to settle: a node from a peer, or a leaf a thief computed.     *)
HandleNode(w) ==
  /\ Handling(w, "node")
  /\ Consume(w)
  /\ inbox' = Taken(w)
  /\ \/ /\ Fresh(w, Msg(w).node)
        /\ See(w, Msg(w).node)
        /\ Count(w, "peer_recvs")
        /\ Enter(w, Msg(w).node, Msg(w).val)
     \/ /\ ~Fresh(w, Msg(w).node)
        /\ UNCHANGED <<seen, cur, stats>>
  /\ UNCHANGED <<opt, mine, phase, status, asked, present, out, faultVars, driverVars>>

HandleLeaf(w) ==
  /\ Handling(w, "leaf")
  /\ Consume(w)
  /\ inbox' = Taken(w)
  /\ \/ /\ Fresh(w, Msg(w).node)
        /\ See(w, Msg(w).node)
        /\ Enter(w, Msg(w).node, Msg(w).val)
     \/ /\ ~Fresh(w, Msg(w).node)
        /\ UNCHANGED <<seen, cur>>
  /\ UNCHANGED <<opt, mine, phase, status, asked, present, out, faultVars, driverVars, stats>>

(* One leaf from the far end, never the one about to run.                   *)
MayGive(w) == opt.steal /\ Len(mine[w]) > 1
NearEnd(leaves) == Head(leaves)
FarEnd(leaves) == Last(leaves)
PeekNotPop(leaves) == leaves
AllButFarEnd(leaves) == Front(leaves)

HandleStealReq(w) ==
  /\ Handling(w, "steal_req")
  /\ Consume(w)
  /\ \/ /\ MayGive(w)
        /\ Send(w, Taken(w), Msg(w).thief, StealResp(<<FarEnd(mine[w])>>))
        /\ mine' = [mine EXCEPT ![w] = AllButFarEnd(@)]
        /\ Count(w, "given")
     \/ /\ ~MayGive(w)
        /\ Send(w, Taken(w), Msg(w).thief, StealResp(<<>>))
        /\ UNCHANGED <<mine, stats>>
  /\ UNCHANGED <<opt, phase, status, asked, treeVars, faultVars, driverVars>>

HandleStealResp(w) ==
  /\ Handling(w, "steal_resp")
  /\ Consume(w)
  /\ inbox' = Taken(w)
  /\ mine' = [mine EXCEPT ![w] = @ \o Msg(w).leaves]
  /\ stats' = [stats EXCEPT ![w].steals = @ + Len(Msg(w).leaves)]
  /\ UNCHANGED <<opt, phase, status, asked, treeVars, out, faultVars, driverVars>>

(* done breaks both loops: what else was polled is never looked at.         *)
HandleDone(w) ==
  /\ Handling(w, "done")
  /\ inbox' = Taken(w)
  /\ polled' = [polled EXCEPT ![w] = 0]
  /\ Ends(w, "returned") /\ CloseTransport(w)
  /\ UNCHANGED <<opt, mine, phase, asked, treeVars, faultVars, driverVars, stats>>

(* A registry that came twice: no branch takes it.                          *)
HandleOther(w) ==
  /\ Handling(w, "registry")
  /\ Consume(w)
  /\ inbox' = Taken(w)
  /\ UNCHANGED <<opt, mine, phase, status, asked, treeVars, out, faultVars, driverVars, stats>>

Handle(w) ==
  \/ HandleNode(w) \/ HandleLeaf(w) \/ HandleStealReq(w) \/ HandleStealResp(w)
  \/ HandleDone(w) \/ HandleOther(w)

(* http_peer_actor waits for the registry.  What comes before it is kept as   *)
(* (sender, message) pairs, in which handle() finds no tag it knows: lost.   *)
Await(w) ==
  /\ Idle(w) /\ phase[w] = "await"
  /\ inbox[w] # <<>>
  /\ inbox' = Taken(w)
  /\ Goto(w, IF Msg(w).tag = "registry" THEN "poll" ELSE "await")
  /\ UNCHANGED <<opt, mine, polled, status, asked, treeVars, out, faultVars, driverVars, stats>>

Worker(w) ==
  Await(w) \/ Settle(w) \/ Poll(w) \/ Recv(w) \/ AskSteal(w) \/ ProcessRaises(w) \/ Process(w) \/ Handle(w)

-----------------------------------------------------------------------------
(* The HTTP sender thread of an endpoint: posts its queue head until the    *)
(* post is acknowledged.                                                   *)

Deliver(post) == inbox' = [inbox EXCEPT ![post.to] = Append(@, post.msg)]
Pop(e) == out' = [out EXCEPT ![e] = Tail(@)]

Post(e) ==
  /\ out[e] # <<>>
  /\ Deliver(Head(out[e]))
  /\ Pop(e)
  /\ UNCHANGED <<opt, loopVars, treeVars, faultVars, driverVars, stats>>

(* An attempt without an acknowledgement: the message arrives now and again,  *)
(* with the next attempt or, if a slow handler delivers the first attempt,    *)
(* after messages that were sent later.                                     *)
HeadTo(k, queue) ==
  [i \in DOMAIN queue |-> IF i < k THEN queue[i+1] ELSE IF i = k THEN queue[1] ELSE queue[i]]
PostUnacknowledged(e) ==
  /\ out[e] # <<>>
  /\ repeats + drops < opt.faults
  /\ repeats' = repeats + 1
  /\ Deliver(Head(out[e]))
  /\ \E k \in DOMAIN out[e] : out' = [out EXCEPT ![e] = HeadTo(k, @)]
  /\ UNCHANGED <<opt, loopVars, treeVars, drops, driverVars, stats>>

(* Five failed attempts: the message is dropped - or arrived, if only their   *)
(* acknowledgements were lost (PostUnacknowledged, then this).               *)
GiveUp(e) ==
  /\ out[e] # <<>>
  /\ repeats + drops < opt.faults
  /\ drops' = drops + 1
  /\ Pop(e)
  /\ UNCHANGED <<opt, loopVars, treeVars, inbox, repeats, driverVars, stats>>

-----------------------------------------------------------------------------
(* The driver: http_driver_handshake, then _collect_peer and the finally    *)
(* clauses of _peer_ipc and _peer_http of an executor that is not           *)
(* persistent, or ThreadExecutor._peer_execute.                            *)

Raised(w) == status[w] = "raised"
Ended(w) == status[w] # "running"

Hears(tag) == inbox[DRIVER] # <<>> /\ Head(inbox[DRIVER]).tag = tag
Heard == inbox' = [inbox EXCEPT ![DRIVER] = Tail(@)]
LastFirst == [i \in 1 .. W |-> W-i]
RegistryOrder == InOrder

GatherHello ==
  /\ driver = "handshake" /\ Len(known) < W
  /\ Hears("hello") /\ Heard
  /\ LET w == Head(inbox[DRIVER]).from
     IN  known' = IF w \in ToSet(known) THEN known ELSE Append(known, w)
  /\ UNCHANGED <<opt, loopVars, treeVars, out, faultVars, driver, answer, stats>>

SendRegistry ==
  /\ driver = "handshake" /\ Len(known) = W
  /\ driver' = "collect"
  /\ out' = [out EXCEPT ![DRIVER] = @ \o PostAll(RegistryOrder, RegistryMsg)]
  /\ UNCHANGED <<opt, loopVars, treeVars, inbox, faultVars, known, answer, stats>>

(* Not all have announced themselves in time: nobody is told.               *)
HandshakeFails ==
  /\ driver = "handshake" /\ Len(known) < W
  /\ opt.late
  /\ driver' = "teardown"
  /\ UNCHANGED <<opt, loopVars, treeVars, wireVars, faultVars, known, answer, stats>>

CollectRoot ==
  /\ driver = "collect"
  /\ Hears("root")
  /\ answer' = Head(inbox[DRIVER]).val
  /\ driver' = "join"
  /\ BroadcastDone
  /\ UNCHANGED <<opt, loopVars, treeVars, faultVars, known, stats>>

(* A hello that came twice.                                                *)
CollectOther ==
  /\ driver = "collect"
  /\ Hears("hello") /\ Heard
  /\ UNCHANGED <<opt, loopVars, treeVars, out, faultVars, driverVars, stats>>

(* A worker's exception, in its future or in the dictionary of the threads:   *)
(* the workers are released; threads are joined before it is raised.         *)
SeesError ==
  /\ driver = "collect"
  /\ \E w \in Workers : Raised(w)
  /\ driver' = IF Threads THEN "join" ELSE "teardown"
  /\ BroadcastDone
  /\ UNCHANGED <<opt, loopVars, treeVars, faultVars, known, answer, stats>>

(* The deadline: the thread executor raises without releasing its workers.   *)
DeadlinePasses ==
  /\ driver = "collect"
  /\ opt.late
  /\ driver' = "teardown"
  /\ IF Threads THEN UNCHANGED wireVars ELSE BroadcastDone
  /\ UNCHANGED <<opt, loopVars, treeVars, faultVars, known, answer, stats>>

(* The driver's finally: close() ends the sender thread, whatever it has      *)
(* still to post: that of the driver, or of every thread; the queue transport *)
(* has nothing to close.                                                   *)
CloseTransports == out' = [e \in Endpoints |-> IF e = DRIVER \/ Threads THEN <<>> ELSE out[e]]

(* [f.result() for f in futs]: wait for one after the other, re-raise the     *)
(* first error; a thread is joined for 30 s at most.                        *)
Join ==
  /\ driver = "join"
  /\ ~\E w \in Workers : Raised(w)
  /\ Threads \/ \A w \in Workers : Ended(w)
  /\ driver' = "returned"
  /\ CloseTransports
  /\ UNCHANGED <<opt, loopVars, treeVars, inbox, faultVars, known, answer, stats>>

JoinRaises ==
  /\ driver = "join"
  /\ \E w \in Workers : Raised(w) /\ (Threads \/ \A v \in 0 .. w-1 : Ended(v))
  /\ driver' = "teardown"
  /\ UNCHANGED <<opt, loopVars, treeVars, wireVars, faultVars, known, answer, stats>>

Teardown ==
  /\ driver = "teardown"
  /\ driver' = "shutdown"
  /\ CloseTransports
  /\ UNCHANGED <<opt, loopVars, treeVars, inbox, faultVars, known, answer, stats>>

(* pool.shutdown() waits for every worker call, the pinned pool's for ten    *)
(* seconds, then it terminates the process; a thread that outlasts its join  *)
(* is left alone.  Then the error propagates.                              *)
Swallowed == "returned"
Reraised == "failed"
Shutdown ==
  /\ driver = "shutdown"
  /\ opt.kind # "pool" \/ \A w \in Workers : Ended(w)
  /\ driver' = Reraised
  /\ status' = [w \in Workers |-> IF Ended(w) \/ Threads THEN status[w] ELSE "killed"]
  /\ UNCHANGED <<opt, mine, phase, polled, asked, treeVars, wireVars, faultVars, known, answer, stats>>

Driver ==
  \/ GatherHello \/ SendRegistry \/ HandshakeFails
  \/ CollectRoot \/ CollectOther \/ SeesError \/ DeadlinePasses
  \/ Join \/ JoinRaises \/ Teardown \/ Shutdown

-----------------------------------------------------------------------------
NothingParked == [nd \in {} |-> None]
StatFields == {"n_combines", "peer_sends", "peer_recvs", "steals", "given", "processed"}
NoStats == [field \in StatFields |-> 0]

(* slice_items: every worker starts with the leaves of its range, in order;  *)
(* an HTTP process starts by announcing itself to the driver.               *)
Handshake == Async /\ opt.kind = "pool"
Init ==
  /\ opt \in Options
  /\ mine = [w \in Workers |-> LeafRange(N, W, w)]
  /\ present = [w \in Workers |-> NothingParked]
  /\ seen = [w \in Workers |-> {}]
  /\ cur = [w \in Workers |-> None]
  /\ phase = [w \in Workers |-> IF Handshake THEN "await" ELSE "poll"]
  /\ polled = [w \in Workers |-> 0]
  /\ status = [w \in Workers |-> "running"]
  /\ asked = [w \in Workers |-> 0]
  /\ stats = [w \in Workers |-> NoStats]
  /\ inbox = [e \in Endpoints |-> <<>>]
  /\ out = [e \in Endpoints |->
              IF Handshake /\ e # DRIVER THEN <<[to |-> DRIVER, msg |-> HelloMsg(e)]>> ELSE <<>>]
  /\ repeats = 0 /\ drops = 0
  /\ known = IF Handshake THEN <<>> ELSE InOrder
  /\ driver = IF Handshake THEN "handshake" ELSE "collect"
  /\ answer = None

Over == driver \in {"returned", "failed"}
Finished == Over /\ (Threads \/ \A w \in Workers : Ended(w)) /\ UNCHANGED vars

Next ==
  \/ \E w \in Workers : Worker(w)
  \/ \E e \in Endpoints : Post(e) \/ PostUnacknowledged(e) \/ GiveUp(e)
  \/ Driver
  \/ Finished

(* Every worker runs in a thread or process of its own, every sender thread *)
(* keeps posting, and the driver keeps polling: none of them is starved.    *)
Fairness ==
  /\ \A w \in Workers : WF_vars(Worker(w))
  /\ \A e \in Endpoints : WF_vars(Post(e))
  /\ WF_vars(Driver)

Spec == Init /\ [][Next]_vars
FairSpec == Spec /\ Fairness
=============================================================================
