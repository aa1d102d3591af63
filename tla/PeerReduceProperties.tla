---------------------- MODULE PeerReduceProperties ----------------------
(***************************************************************************)
(* What a peer run promises.                                               *)
(***************************************************************************)
EXTENDS PeerReduce

(* The variables hold values of their types, and no more messages are taken *)
(* for polled than have arrived.                                           *)
TypeOK ==
  /\ mine \in [Workers -> Seq(Leaves)]
  /\ DOMAIN present = Workers /\ \A w \in Workers : DOMAIN present[w] \subseteq Nodes
  /\ seen \in [Workers -> SUBSET Nodes]
  /\ DOMAIN cur = Workers
  /\ phase \in [Workers -> {"await", "poll", "work", "asked"}]
  /\ polled \in [Workers -> Nat] /\ \A w \in Workers : polled[w] <= Len(inbox[w])
  /\ opt \in Options
  /\ status \in [Workers -> {"running", "returned", "raised", "killed"}]
  /\ asked \in [Workers -> 0 .. MaxRequests]
  /\ stats \in [Workers -> [StatFields -> Nat]]
  /\ DOMAIN inbox = Endpoints
  /\ DOMAIN out = Endpoints
  /\ repeats \in Nat /\ drops \in Nat /\ repeats + drops <= opt.faults
  /\ known \in Seq(Workers)
  /\ driver \in {"handshake", "collect", "join", "teardown", "shutdown", "returned", "failed"}

-----------------------------------------------------------------------------
(* Where values may be, and which.                                         *)

(* A worker settles the nodes it owns and the odd nodes whose sibling it owns. *)
AtHome(w, nd) == OwnerOf[nd] = w \/ (~IsEven(nd) /\ OwnerOf[Sibling(nd)] = w)

(* The messages an endpoint may be sent: a partial goes to a worker that      *)
(* settles it and has the tree's value of its node; the driver gets the root. *)
MailOf(e) ==
  IF e = DRIVER
  THEN {RootMsg(TreeValue[Root])} \cup {HelloMsg(w) : w \in Workers}
  ELSE {NodeMsg(nd, TreeValue[nd]) : nd \in {x \in Nodes : AtHome(e, x)}}
         \cup {LeafMsg(leaf, TreeValue[<<0, leaf>>]) : leaf \in {x \in Leaves : OwnerOf[<<0, x>>] = e}}
         \cup {StealReq(w) : w \in Workers}
         \cup {StealResp(leaves) : leaves \in {<<>>} \cup {<<leaf>> : leaf \in Leaves}}
         \cup {DoneMsg, RegistryMsg}
Mail == [e \in Endpoints |-> MailOf(e)]
Posts == UNION {[to : {e}, msg : Mail[e]] : e \in Endpoints}

(* Every message delivered or posted is one its receiver may be sent         *)
(* (settle's routing by ownership, and the value rule of the fixed tree).    *)
MailIsTrue ==
  /\ \A e \in Endpoints : inbox[e] \in Seq(Mail[e])
  /\ \A e \in Endpoints : out[e] \in Seq(Posts)

(* Every partial a worker holds has the tree's value of its node, and the     *)
(* node it is settling belongs there.                                       *)
HeldIsTrue ==
  /\ \A w \in Workers : \A nd \in DOMAIN present[w] : present[w][nd] = TreeValue[nd]
  /\ \A w \in Workers : cur[w] # None =>
       \E nd \in Nodes : AtHome(w, nd) /\ cur[w] = [node |-> nd, val |-> TreeValue[nd]]

(* A partial, wherever it is - delivered, still to post, parked or in hand -  *)
(* has the tree's value of its node, and only workers that settle the node    *)
(* ever get it.                                                            *)
ValuesAreTrue == MailIsTrue /\ HeldIsTrue

-----------------------------------------------------------------------------
(* Where the leaves are.                                                   *)

(* What is on its way to e: delivered and not handled, or still to post.    *)
MessagesTo(e) ==
  ToSet(inbox[e]) \cup UNION {{p.msg : p \in {q \in ToSet(out[f]) : q.to = e}} : f \in Endpoints}

(* A node on its way to a worker that has settled it already is a duplicate *)
(* and will be ignored.                                                    *)
Coming(w, tag) == {m.node : m \in {x \in MessagesTo(w) : x.tag = tag /\ x.node \notin seen[w]}}
InHand(w) == IF cur[w] = None THEN {} ELSE {cur[w].node}

(* The partials of the run: held by a worker, or on the wire to one.        *)
Tokens ==
  UNION {{[at |-> w, sent |-> FALSE, node |-> nd] : nd \in DOMAIN present[w] \cup InHand(w)}
           \cup {[at |-> w, sent |-> TRUE, node |-> nd] : nd \in Coming(w, "node")}
           : w \in Workers}

(* Leaves somebody has still to process, and leaves a thief has processed   *)
(* whose partial is on its way to the owner.                               *)
Granted(w) == UNION {ToSet(m.leaves) : m \in {x \in MessagesTo(w) : x.tag = "steal_resp"}}
Unprocessed == UNION {ToSet(mine[w]) \cup Granted(w) : w \in Workers}
Returning == {nd[2] : nd \in UNION {Coming(w, "leaf") : w \in Workers}}
Settled == UNION {LeavesUnder(N, t.node) : t \in Tokens}
RootFormed == answer # None \/ \E m \in MessagesTo(DRIVER) : m.tag = "root"

(* No partial is counted twice: whatever is duplicated, re-stolen or        *)
(* retried, the partials that are still to be combined cover disjoint sets  *)
(* of leaves (seen in settle_leaf and handle, pop in settle).               *)
NoLeafTwice ==
  \A s, t \in Tokens : s # t => LeavesUnder(N, s.node) \cap LeavesUnder(N, t.node) = {}

(* No partial is lost: while the driver waits and nobody has failed, every   *)
(* leaf is still to be processed, or on its way back to its owner, or part of *)
(* a partial some worker holds or is about to receive, or in the root.      *)
NothingLost ==
  (driver \in {"handshake", "collect"} /\ drops = 0 /\ \A w \in Workers : ~Raised(w))
    => RootFormed \/ Leaves \subseteq Unprocessed \cup Returning \cup Settled

(* Bit-for-bit determinism: the value the driver takes, whatever the order   *)
(* of messages, thefts and repeats, is that of the one fixed tree.          *)
RootIsTreeValue == answer \in {None, TreeValue[Root]}

(* Only worker 0 ever reaches the root (comment in settle).                 *)
RootOnlyAtWorker0 ==
  \A w \in Workers : cur[w] # None /\ IsRootLevel(N, Lvl(cur[w].node)) => w = 0

(* No barrier: two siblings never wait for each other at one worker, nor     *)
(* does a node wait that has no sibling.                                    *)
NoSiblingsParked ==
  \A w \in Workers : \A nd \in DOMAIN present[w] :
    ~Unpaired(N, nd) /\ ~IsRootLevel(N, Lvl(nd)) /\ Sibling(nd) \notin DOMAIN present[w]

-----------------------------------------------------------------------------
(* What the witness counters say once the root is in.                       *)

Total(field) == MapThenSumSet(LAMBDA w : stats[w][field], Workers)
RootIn == answer # None

(* run reports n-1 combines without asking the workers; every worker ships   *)
(* exactly the boundary nodes the static replay of reduction_edges foresees, *)
(* and every hand-off was taken once.                                       *)
WitnessOfTheTree ==
  RootIn =>
    /\ Total("n_combines") = N - 1
    /\ Total("peer_sends") = Total("peer_recvs")
    /\ \A w \in Workers : stats[w].peer_sends = Cardinality(ShippedNodes(N, W, Depth, w))

(* Stealing moves leaves, it makes none and loses none: when the root is in,  *)
(* every leaf was processed once and every leaf given was received.         *)
StealsBalance ==
  RootIn =>
    /\ Total("processed") = N
    /\ Total("given") = Total("steals")
    /\ \A w \in Workers :
         stats[w].processed + stats[w].given = Cardinality(SliceItems(N, W, w)) + stats[w].steals

(* done is broadcast only when all combines are complete: nothing waits at a *)
(* worker and no partial is on the wire.                                    *)
NothingLeftBehind ==
  RootIn => Tokens = {} /\ Unprocessed = {} /\ Returning = {}

-----------------------------------------------------------------------------
(* Progress.                                                               *)

(* A worker's exception always reaches the caller as an error: run neither    *)
(* hangs on the other workers nor returns a value.                          *)
ErrorSurfaces == (\E w \in Workers : Raised(w)) ~> (driver = "failed")
=============================================================================
