------------------------ MODULE PeerRefinementProofs ------------------------
(***************************************************************************)
(* No leaf of a peer run is lost while the driver waits and nobody has      *)
(* failed, and a peer run implements Reduction: for every number of leaves  *)
(* and workers and either transport.  What the counters of a run say in the *)
(* end: as many combines as the tree has, every leaf processed once, and    *)
(* the thefts in balance on both sides.                                     *)
(***************************************************************************)
EXTENDS PeerReduceProofs, PeerReduceRefinement

-----------------------------------------------------------------------------
(* The run as long as nothing has gone wrong.                               *)

Calm == driver \in {"handshake", "collect"} /\ drops = 0 /\ \A w \in Workers : ~Raised(w)

(* All workers run, and none has been told to stop.                         *)
AllRun == \A w \in Workers : status[w] = "running" /\ \A m \in MessagesTo(w) : m.tag # "done"

CalmCombine(w) == SettleCombine(w) /\ UNCHANGED <<loopVars, wireVars>>
CalmWorker(w) ==
  \/ SettleRoot(w) \/ SettleCarry(w) \/ SettleShip(w) \/ SettlePark(w) \/ CalmCombine(w)
  \/ Poll(w) \/ Recv(w) \/ AskSteal(w) \/ Process(w)
  \/ HandleNode(w) \/ HandleLeaf(w) \/ HandleStealReq(w) \/ HandleStealResp(w) \/ HandleOther(w)
  \/ Await(w)
CalmDriver == GatherHello \/ SendRegistry \/ CollectOther
CalmStep ==
  \/ \E w \in Workers : CalmWorker(w)
  \/ \E e \in Endpoints : Post(e) \/ PostUnacknowledged(e)
  \/ CalmDriver
  \/ UNCHANGED vars

LEMMA RaisedIsCalmNoMore ==
  ASSUME IInv, NEW w \in Workers, Ends(w, "raised")
  PROVE  ~Calm'
BY DEF Calm, Raised, Ends, IInv, TypeOK

(* Once something has gone wrong it stays so; the steps of a calm run are     *)
(* those that raise, drop, and stop nothing.                                *)
LEMMA CalmSteps ==
  ASSUME IInv, Calm => AllRun, [Next]_vars, Calm'
  PROVE  CalmStep /\ Calm
<1>1. drops \in Nat /\ DOMAIN status = Workers
  BY DEF IInv, TypeOK
<1>2. ASSUME Driver PROVE CalmStep /\ Calm
  <2>1. CASE CalmDriver
    <3>1. driver \in {"handshake", "collect"} /\ UNCHANGED <<drops, status>>
      BY <2>1 DEF CalmDriver, GatherHello, SendRegistry, CollectOther, faultVars, loopVars
    <3> QED BY <2>1, <3>1 DEF CalmStep, Calm, Raised
  <2>2. CASE HandshakeFails \/ CollectRoot \/ SeesError \/ DeadlinePasses \/ Join \/ JoinRaises \/ Teardown
               \/ Shutdown
    <3>1. driver' \in {"join", "teardown", "returned", "shutdown", "failed"}
      BY <2>2 DEF HandshakeFails, CollectRoot, SeesError, DeadlinePasses, Join, JoinRaises, Teardown, Shutdown,
         Reraised
    <3> QED BY <3>1 DEF Calm
  <2> QED BY <1>2, <2>1, <2>2 DEF Driver, CalmDriver
<1>3. ASSUME NEW e \in Endpoints, Post(e) \/ PostUnacknowledged(e) \/ GiveUp(e) PROVE CalmStep /\ Calm
  <2>1. UNCHANGED <<driver, status>>
    BY <1>3 DEF Post, PostUnacknowledged, GiveUp, driverVars, loopVars
  <2>2. CASE GiveUp(e)
    <3>1. drops' # 0
      BY <1>1, <2>2 DEF GiveUp
    <3> QED BY <3>1 DEF Calm
  <2>3. CASE Post(e) \/ PostUnacknowledged(e)
    <3>1. UNCHANGED drops
      BY <2>3 DEF Post, PostUnacknowledged, faultVars
    <3> QED BY <2>1, <2>3, <3>1 DEF CalmStep, Calm, Raised
  <2> QED BY <1>3, <2>2, <2>3
<1>4. ASSUME NEW w \in Workers, Worker(w) PROVE CalmStep /\ Calm
  <2>1. UNCHANGED <<driver, drops>>
    BY <1>4 DEF Worker, Settle, SettleRoot, SettleCarry, SettleShip, SettlePark, SettleCombine, Poll, Recv,
       AskSteal, ProcessRaises, Process, Handle, HandleNode, HandleLeaf, HandleStealReq, HandleStealResp,
       HandleDone, HandleOther, Await, faultVars, driverVars
  <2>2. ~Ends(w, "raised")
    BY RaisedIsCalmNoMore
  <2>3. CASE CalmWorker(w)
    <3>1. UNCHANGED status
      BY <2>3 DEF CalmWorker, CalmCombine, SettleRoot, SettleCarry, SettleShip, SettlePark, Poll, Recv, AskSteal,
         Process, HandleNode, HandleLeaf, HandleStealReq, HandleStealResp, HandleOther, Await, loopVars
    <3> QED BY <2>1, <2>3, <3>1 DEF CalmStep, Calm, Raised
  <2>4. CASE ProcessRaises(w)
    BY <2>2, <2>4 DEF ProcessRaises
  <2>5. CASE SettleCombine(w)
    <3>1. UNCHANGED <<loopVars, wireVars>>
      BY <2>2, <2>5 DEF SettleCombine
    <3> QED BY <2>3, <2>5, <3>1 DEF CalmWorker, CalmCombine
  <2>6. CASE HandleDone(w)
    <3>1. polled[w] > 0 /\ Msg(w).tag = "done" /\ status[w] = "running" /\ Ends(w, "returned")
      BY <2>6 DEF HandleDone, Handling
    <3>2. Calm
      <4>1. ASSUME NEW u \in Workers PROVE ~Raised(u)
        <5>1. ~Raised(u)'
          BY DEF Calm
        <5> QED BY <1>1, <3>1, <5>1 DEF Raised, Ends
      <4> QED BY <2>1, <4>1 DEF Calm
    <3>3. Msg(w) \in MessagesTo(w)
      BY <3>1, SomethingPolled
    <3> QED BY <3>1, <3>2, <3>3 DEF AllRun
  <2> QED BY <1>4, <2>3, <2>4, <2>5, <2>6 DEF Worker, Settle, Handle, CalmWorker
<1>5. ASSUME UNCHANGED vars PROVE CalmStep /\ Calm
  BY <1>5 DEF CalmStep, Calm, Raised, vars, driverVars, faultVars, loopVars
<1> QED BY <1>2, <1>3, <1>4, <1>5 DEF Next, Finished

-----------------------------------------------------------------------------
(* The registry.                                                            *)

(* A worker in the handshake has nothing in hand.                           *)
AwaitIdle == \A w \in Workers : phase[w] = "await" => Handshake /\ polled[w] = 0 /\ cur[w] = None

Told(w) == phase[w] # "await" \/ RegistryMsg \in ToSet(inbox[w])

(* The driver sends the registry to the workers in their order; a post that   *)
(* is repeated later, to a worker that has been told, changes nothing: before *)
(* any post comes one to each lower worker who is still to be told.          *)
ToldBefore(w) == \A u \in Workers : u < w => Told(u)
StillToTell ==
  /\ \A w \in Workers : Told(w) => ToldBefore(w)
  /\ \A i \in 1 .. Len(out[DRIVER]) :
       /\ out[DRIVER][i].msg = RegistryMsg /\ out[DRIVER][i].to \in Workers
       /\ \A u \in Workers :
            u < out[DRIVER][i].to => Told(u) \/ \E j \in 1 .. i-1 : out[DRIVER][j].to = u
InTurn ==
  Handshake =>
    /\ \A w \in Workers : \A p \in ToSet(out[w]) : p.msg.tag # "registry"
    /\ driver = "handshake" => out[DRIVER] = <<>> /\ \A w \in Workers : ~Told(w)
    /\ driver = "collect" => StillToTell

(* No worker is sent anything of value before the registry.                 *)
Valuable(m) == m.tag \in {"node", "leaf", "steal_resp"}
AfterRegistry ==
  \A w \in Workers :
    /\ \A f \in Endpoints : \A p \in ToSet(out[f]) : p.to = w /\ Valuable(p.msg) => Told(w)
    /\ phase[w] = "await" => \A i \in 1 .. Len(inbox[w]) :
         Valuable(inbox[w][i]) => \E j \in 1 .. i-1 : inbox[w][j] = RegistryMsg

(* A leaf is only where it is not owned once its owner has been told.        *)
LeavesAway ==
  \A w \in Workers : \A leaf \in ToSet(mine[w]) \cup Granted(w) :
    OwnerOf[<<0, leaf>>] = w \/ Told(OwnerOf[<<0, leaf>>])

(* A thief asks another worker than itself, and works already.              *)
Thieves ==
  \A w \in Workers : \A m \in MessagesTo(w) :
    m.tag = "steal_req" => m.thief # w /\ m.thief \in Workers /\ phase[m.thief] # "await"

(* Without stealing every leaf is where it is owned.                         *)
NoThieves ==
  ~opt.steal =>
    \A w \in Workers :
      /\ \A leaf \in ToSet(mine[w]) : OwnerOf[<<0, leaf>>] = w
      /\ \A m \in MessagesTo(w) : m.tag \notin {"steal_req", "steal_resp", "leaf"}

(* If a worker has not been told, no later one has.                          *)
LEMMA ToldInOrder ==
  ASSUME AwaitIdle, InTurn, Calm, NEW v \in Workers, NEW w \in Workers, v <= w, ~Told(v)
  PROVE  ~Told(w)
<1>1. Handshake
  BY DEF AwaitIdle, Told
<1>2. CASE driver = "handshake"
  BY <1>1, <1>2 DEF InTurn
<1>3. CASE driver = "collect"
  <2>1. Told(w) => ToldBefore(w)
    BY <1>1, <1>3 DEF InTurn, StillToTell
  <2>2. v < w \/ v = w
    BY SizeAssumption DEF Workers
  <2> QED BY <2>1, <2>2 DEF ToldBefore
<1> QED BY <1>2, <1>3 DEF Calm

(* The parts of the invariant about what the workers have been told.         *)
TInv == Calm => AllRun /\ AwaitIdle /\ InTurn /\ AfterRegistry /\ LeavesAway /\ Thieves /\ NoThieves

-----------------------------------------------------------------------------
(* What a worker that works does to the wire.                               *)

LEMMA WorksWhenTold ==
  ASSUME IInv, AwaitIdle, NEW w \in Workers, CalmWorker(w), ~Await(w)
  PROVE  /\ phase[w] # "await" /\ phase'[w] # "await"
         /\ \A u \in Workers \ {w} : phase'[u] = phase[u]
         /\ UNCHANGED <<opt, driver, status, faultVars, known, answer>>
<1>1. phase[w] = "await" => polled[w] = 0 /\ cur[w] = None
  BY DEF AwaitIdle
<1>2. DOMAIN phase = Workers
  BY DEF IInv, TypeOK
<1>3. CASE SettleRoot(w) \/ SettleCarry(w) \/ SettleShip(w) \/ SettlePark(w) \/ CalmCombine(w)
  <2>1. cur[w] # None
    BY <1>3 DEF SettleRoot, SettleCarry, SettleShip, SettlePark, CalmCombine, SettleCombine, MeetsHere,
       HasSibling, InTree, Settling
  <2>2. UNCHANGED <<phase, opt, driver, status, faultVars, known, answer>>
    BY <1>3 DEF SettleRoot, SettleCarry, SettleShip, SettlePark, CalmCombine, SettleCombine, loopVars, driverVars
  <2> QED BY <1>1, <2>1, <2>2
<1>4. CASE Poll(w) \/ Recv(w) \/ AskSteal(w) \/ Process(w)
  <2>1. phase[w] \in {"poll", "work", "asked"}
    BY <1>4 DEF Poll, Recv, AskSteal, Process, TakeLeaf, AtTop, AtWork
  <2>2. /\ \E where \in {"poll", "work", "asked"} : phase' = [phase EXCEPT ![w] = where]
        /\ UNCHANGED <<opt, driver, status, faultVars, known, answer>>
    BY <1>4 DEF Poll, Recv, AskSteal, Process, Goto, driverVars
  <2> QED BY <1>2, <2>1, <2>2
<1>5. CASE HandleNode(w) \/ HandleLeaf(w) \/ HandleStealReq(w) \/ HandleStealResp(w) \/ HandleOther(w)
  <2>1. polled[w] > 0 /\ UNCHANGED <<phase, opt, driver, status, faultVars, known, answer>>
    BY <1>5 DEF HandleNode, HandleLeaf, HandleStealReq, HandleStealResp, HandleOther, Handling, driverVars
  <2> QED BY <1>1, <2>1
<1> QED BY <1>3, <1>4, <1>5 DEF CalmWorker

(* What a worker may post: no registry, and what is of value only to a worker  *)
(* that has been told.                                                     *)
MayPost(p) == p.msg.tag # "registry" /\ (Valuable(p.msg) => p.to \in Workers /\ Told(p.to))

PostsOnly(w, boxes) ==
  /\ inbox' = boxes
  /\ \A f \in Endpoints \ {w} : out'[f] = out[f]
  /\ \A p \in ToSet(out'[w]) : p \in ToSet(out[w]) \/ MayPost(p)

LEMMA SendPosts ==
  ASSUME GoodOut, Async, NEW w \in Workers, NEW dest, NEW msg, MayPost([to |-> dest, msg |-> msg])
  PROVE  \A boxes : Send(w, boxes, dest, msg) => PostsOnly(w, boxes)
<1> SUFFICES ASSUME NEW boxes, Send(w, boxes, dest, msg) PROVE PostsOnly(w, boxes)
  OBVIOUS
<1>1. CASE dest \notin Outbox[w]
  BY <1>1 DEF Send, NoSend, PostsOnly
<1>2. CASE dest \in Outbox[w]
  <2> DEFINE post == [to |-> dest, msg |-> msg]
  <2>1. inbox' = boxes /\ out' = [out EXCEPT ![w] = Append(out[w], post)] /\ MayPost(post)
    BY <1>2 DEF Send, HttpSend
  <2> HIDE DEF post
  <2>2. ToSet(Append(out[w], post)) = ToSet(out[w]) \cup {post}
    BY WhoIsWho, ElementsOfAppend DEF GoodOut
  <2> QED BY <2>1, <2>2, WhoIsWho DEF PostsOnly, GoodOut
<1> QED BY <1>1, <1>2

LEMMA NothingPosted ==
  ASSUME NEW w \in Workers, UNCHANGED out
  PROVE  PostsOnly(w, inbox')
BY DEF PostsOnly

(* The owner of a node's even sibling has been told when the node's owner has. *)
LEMMA ShipsToTold ==
  ASSUME AwaitIdle, InTurn, Calm, NEW w \in Workers, Told(w), NEW nd \in Nodes, AtHome(w, nd),
         PeerOwnsParent(w, nd), ~Unpaired(N, nd)
  PROVE  OwnerOf[Sibling(nd)] \in Workers /\ Told(OwnerOf[Sibling(nd)])
<1> DEFINE dest == OwnerOf[Sibling(nd)]
<1>1. ~IsEven(nd) /\ OwnerOf[nd] = w /\ Sibling(nd) \in Nodes /\ dest \in Workers
  BY SiblingInNodes, OwnerIsWorker DEF PeerOwnsParent, AtHome
<1>2. dest <= w
  <2> DEFINE lvl == Lvl(nd)
             pos == Pos(nd)
  <2>1. lvl \in Nat /\ pos \in Nat /\ nd = <<lvl, pos>>
    BY NodeParts
  <2>2. Sibling(nd) = <<lvl, pos - 1>> /\ pos - 1 \in Nat /\ pos - 1 <= pos
    BY <1>1, <2>1 DEF Sibling, IsEven
  <2> HIDE DEF lvl, pos
  <2>3. Owner(N, W, <<lvl, pos - 1>>) <= Owner(N, W, <<lvl, pos>>)
    BY <2>1, <2>2, OwnersAscend, SizeAssumption
  <2> QED BY <1>1, <2>1, <2>2, <2>3 DEF OwnerOf
<1> QED BY <1>1, <1>2, ToldInOrder

(* What a worker does on HTTP, once told: it takes from its own inbox and      *)
(* posts what it may.                                                      *)
OwnStep(w) ==
  /\ phase[w] # "await" /\ phase'[w] # "await"
  /\ \A u \in Workers \ {w} : phase'[u] = phase[u]
  /\ \A e \in Endpoints \ {w} : inbox'[e] = inbox[e] /\ out'[e] = out[e]
  /\ \A p \in ToSet(out'[w]) : p \in ToSet(out[w]) \/ MayPost(p)
  /\ UNCHANGED <<opt, driver>>

LEMMA OwnSteps ==
  ASSUME IInv, FInv, TInv, Calm, Async, NEW w \in Workers, CalmWorker(w), ~Await(w)
  PROVE  OwnStep(w)
<1>1. /\ phase[w] # "await" /\ phase'[w] # "await"
      /\ \A u \in Workers \ {w} : phase'[u] = phase[u]
      /\ UNCHANGED <<opt, driver>>
  BY WorksWhenTold DEF TInv
<1>2. Told(w) /\ GoodOut /\ GoodBoxes(inbox)
  BY <1>1, WireOfInv DEF Told
<1>3. \A u \in Endpoints \ {w} : Taken(w)[u] = inbox[u]
  BY <1>2 DEF Taken, GoodBoxes
<1>4. SUFFICES PostsOnly(w, inbox) \/ PostsOnly(w, Taken(w))
  BY <1>1, <1>3 DEF OwnStep, PostsOnly
<1>5. CASE UNCHANGED wireVars
  BY <1>5, NothingPosted DEF wireVars
<1>6. CASE inbox' = Taken(w) /\ UNCHANGED out
  BY <1>6, NothingPosted
<1>7. CASE SettleRoot(w)
  <2>1. MayPost([to |-> DRIVER, msg |-> RootMsg(cur[w].val)])
    BY DEF MayPost, RootMsg, Valuable
  <2> QED BY <1>2, <1>7, <2>1, SendPosts DEF SettleRoot
<1>8. CASE SettleShip(w)
  <2> DEFINE nd == cur[w].node
             dest == OwnerOf[Sibling(nd)]
  <2>1. nd \in Nodes /\ AtHome(w, nd) /\ PeerOwnsParent(w, nd) /\ ~Unpaired(N, nd)
    BY <1>8, HandOfSettling DEF SettleShip, HasSibling, InTree
  <2>2. dest \in Workers /\ Told(dest)
    BY <1>2, <2>1, ShipsToTold DEF TInv
  <2>3. Send(w, inbox, dest, NodeMsg(nd, cur[w].val))
    BY <1>8 DEF SettleShip
  <2> HIDE DEF dest
  <2>4. MayPost([to |-> dest, msg |-> NodeMsg(nd, cur[w].val)])
    BY <2>2 DEF MayPost, NodeMsg
  <2> QED BY <1>2, <2>3, <2>4, SendPosts
<1>9. CASE AskSteal(w)
  <2>1. PICK victim \in Workers : Send(w, inbox, victim, StealReq(w))
    BY <1>9 DEF AskSteal
  <2>2. MayPost([to |-> victim, msg |-> StealReq(w)])
    BY DEF MayPost, StealReq, Valuable
  <2> QED BY <1>2, <2>1, <2>2, SendPosts
<1>10. CASE Process(w)
  <2> DEFINE leaf == Head(mine[w])
             home == OwnerOf[<<0, leaf>>]
  <2>1. UNCHANGED wireVars \/ (home # w /\ Send(w, inbox, home, LeafMsg(leaf, LeafValue(leaf))))
    BY <1>10 DEF Process
  <2>2. mine[w] \in Seq(Leaves) /\ mine[w] # <<>>
    BY <1>10 DEF Process, TakeLeaf, IInv, TypeOK
  <2>3. leaf \in ToSet(mine[w]) /\ leaf \in Leaves
    BY <2>2, ElementsOfTail, HeadTailProperties
  <2>4. home \in Workers
    BY <2>3, LeafNode, OwnerIsWorker
  <2>5. ASSUME home # w PROVE Told(home)
    BY <2>3, <2>5 DEF TInv, LeavesAway
  <2> HIDE DEF home
  <2>6. CASE home # w /\ Send(w, inbox, home, LeafMsg(leaf, LeafValue(leaf)))
    <3>1. MayPost([to |-> home, msg |-> LeafMsg(leaf, LeafValue(leaf))])
      BY <2>4, <2>5, <2>6 DEF MayPost, LeafMsg
    <3> QED BY <1>2, <2>6, <3>1, SendPosts
  <2> QED BY <1>5, <2>1, <2>6
<1>11. CASE HandleStealReq(w)
  <2> DEFINE thief == Msg(w).thief
  <2>1. polled[w] > 0 /\ Msg(w).tag = "steal_req"
    BY <1>11 DEF HandleStealReq, Handling
  <2>2. thief \in Workers /\ Told(thief)
    BY <2>1, SomethingPolled DEF TInv, Thieves, Told
  <2>3. PICK leaves : Send(w, Taken(w), thief, StealResp(leaves))
    BY <1>11 DEF HandleStealReq
  <2> HIDE DEF thief
  <2>4. MayPost([to |-> thief, msg |-> StealResp(leaves)])
    BY <2>2 DEF MayPost, StealResp
  <2> QED BY <1>2, <2>3, <2>4, SendPosts
<1> QED BY <1>5, <1>6, <1>7, <1>8, <1>9, <1>10, <1>11
    DEF CalmWorker, SettleCarry, SettlePark, CalmCombine, Poll, Recv, HandleNode, HandleLeaf,
        HandleStealResp, HandleOther

-----------------------------------------------------------------------------
(* Who has been told, step by step.                                         *)

LEMMA RegistryIsRegistry ==
  ASSUME NEW w \in Workers, NEW m \in Mail[w], m.tag = "registry"
  PROVE  m = RegistryMsg
<1>1. Mail[w] = MailOf(w) /\ w # DRIVER
  BY WhoIsWho DEF Mail
<1>2. \/ \E nd \in Nodes : m = NodeMsg(nd, TreeValue[nd])
      \/ \E leaf \in Leaves : m = LeafMsg(leaf, TreeValue[<<0, leaf>>])
      \/ \E thief \in Workers : m = StealReq(thief)
      \/ \E leaves : m = StealResp(leaves)
      \/ m = DoneMsg \/ m = RegistryMsg
  BY <1>1 DEF MailOf
<1>3. /\ \A nd, val : NodeMsg(nd, val).tag # "registry" /\ LeafMsg(nd, val).tag # "registry"
      /\ \A x : StealReq(x).tag # "registry" /\ StealResp(x).tag # "registry"
      /\ DoneMsg.tag # "registry"
  BY DEF NodeMsg, LeafMsg, StealReq, StealResp, DoneMsg
<1> QED BY <1>2, <1>3

(* What the actor takes while it waits for the registry.                     *)
LEMMA AwaitTakes ==
  ASSUME IInv, NEW w \in Workers, Await(w)
  PROVE  /\ phase[w] = "await" /\ polled[w] = 0 /\ cur[w] = None
         /\ inbox[w] \in Seq(Mail[w]) /\ inbox[w] # <<>> /\ inbox'[w] = Tail(inbox[w])
         /\ \A e \in Endpoints \ {w} : inbox'[e] = inbox[e]
         /\ \A u \in Workers \ {w} : phase'[u] = phase[u]
         /\ phase'[w] = IF Msg(w) = RegistryMsg THEN "poll" ELSE "await"
         /\ UNCHANGED <<opt, mine, polled, status, treeVars, out, driver>>
<1>1. GoodBoxes(inbox) /\ w \in Endpoints /\ DOMAIN phase = Workers
  BY WireOfInv, WhoIsWho DEF IInv, TypeOK
<1>2. inbox[w] \in Seq(Mail[w]) /\ inbox[w] # <<>>
  BY <1>1 DEF GoodBoxes, Await
<1>3. Msg(w) \in Mail[w]
  BY <1>2, HeadTailProperties DEF Msg
<1>4. Msg(w).tag = "registry" <=> Msg(w) = RegistryMsg
  BY <1>3, RegistryIsRegistry DEF RegistryMsg
<1> QED BY <1>1, <1>2, <1>4 DEF Await, Taken, Goto, GoodBoxes, Idle, driverVars

(* What a sender thread's post does.                                        *)
Delivers(e, p) ==
  /\ p = Head(out[e]) /\ p \in ToSet(out[e]) /\ p.to \in Endpoints /\ out[e] # <<>>
  /\ inbox' = [inbox EXCEPT ![p.to] = Append(@, p.msg)]
  /\ \/ out' = [out EXCEPT ![e] = Tail(@)]
     \/ \E k \in DOMAIN out[e] : out' = [out EXCEPT ![e] = HeadTo(k, @)]
  /\ \A f \in Endpoints : ToSet(out'[f]) \subseteq ToSet(out[f])
  /\ UNCHANGED <<opt, loopVars, treeVars, driver>>
LEMMA PostDelivers ==
  ASSUME IInv, NEW e \in Endpoints, Post(e) \/ PostUnacknowledged(e)
  PROVE  Delivers(e, Head(out[e]))
<1> DEFINE p == Head(out[e])
<1>1. out[e] \in Seq(Posts) /\ out[e] # <<>>
  BY WireOfInv DEF GoodOut, Post, PostUnacknowledged
<1>2. p \in ToSet(out[e]) /\ p \in Posts
  BY <1>1, ElementsOfTail, HeadTailProperties
<1>3. p.to \in Endpoints
  BY <1>2 DEF Posts
<1>4. /\ inbox' = [inbox EXCEPT ![p.to] = Append(@, p.msg)]
      /\ UNCHANGED <<opt, loopVars, treeVars, driver>>
      /\ Pop(e) \/ \E k \in DOMAIN out[e] : out' = [out EXCEPT ![e] = HeadTo(k, @)]
  BY DEF Post, PostUnacknowledged, Deliver, driverVars
<1>5. \A f \in Endpoints : ToSet(out'[f]) \subseteq ToSet(out[f])
  BY <1>1, PoppedQueue, RequeueKeepsOut DEF Post
<1> HIDE DEF p
<1>6. Delivers(e, p)
  BY <1>1, <1>2, <1>3, <1>4, <1>5 DEF Delivers, Pop, p
<1> QED BY <1>6 DEF p

(* What the driver does to the workers in a calm run.                        *)
LEMMA DriverSends ==
  ASSUME IInv, CalmDriver
  PROVE  /\ \A w \in Workers : inbox'[w] = inbox[w] /\ out'[w] = out[w]
         /\ UNCHANGED <<opt, loopVars, treeVars>>
         /\ \/ UNCHANGED <<out, driver>>
            \/ SendRegistry
<1>1. CASE SendRegistry
  BY <1>1, WireOfInv, WhoIsWho DEF SendRegistry, GoodOut
<1>2. CASE GatherHello \/ CollectOther
  <2>1. Hears("hello") /\ Heard /\ UNCHANGED <<opt, loopVars, treeVars, out, driver>>
    BY <1>2 DEF GatherHello, CollectOther, driverVars
  <2> QED BY <2>1, HeardKeepsWire
<1> QED BY <1>1, <1>2 DEF CalmDriver

(* A message that has been delivered to a worker, or is its inbox's head.     *)
LEMMA ToldByDelivery ==
  ASSUME IInv, NEW e \in Endpoints, NEW p, Delivers(e, p), NEW u \in Workers
  PROVE  Told(u)' <=> (Told(u) \/ (p.to = u /\ p.msg = RegistryMsg))
<1>1. u \in Endpoints /\ GoodBoxes(inbox)
  BY WhoIsWho, WireOfInv
<1>2. ToSet(Append(inbox[u], p.msg)) = ToSet(inbox[u]) \cup {p.msg}
  BY <1>1, ElementsOfAppend DEF GoodBoxes
<1>3. ToSet(inbox'[u]) = ToSet(inbox[u]) \cup IF p.to = u THEN {p.msg} ELSE {}
  BY <1>1, <1>2 DEF Delivers, GoodBoxes
<1>4. phase'[u] = phase[u]
  BY DEF Delivers, loopVars
<1> QED BY <1>3, <1>4 DEF Told

LEMMA ToldByAwait ==
  ASSUME IInv, NEW w \in Workers, Await(w), NEW u \in Workers
  PROVE  Told(u)' <=> Told(u)
<1>1. CASE u # w
  BY <1>1, AwaitTakes, WhoIsWho DEF Told
<1>2. CASE u = w
  <2>1. ToSet(inbox[w]) = {Msg(w)} \cup ToSet(inbox'[w])
    BY AwaitTakes, ElementsOfTail DEF Msg
  <2> QED BY <1>2, <2>1, AwaitTakes DEF Told
<1> QED BY <1>1, <1>2

LEMMA ToldByWorker ==
  ASSUME NEW w \in Workers, OwnStep(w), NEW u \in Workers
  PROVE  Told(u)' <=> Told(u)
BY WhoIsWho DEF OwnStep, Told

LEMMA ToldByDriver ==
  ASSUME IInv, CalmDriver, NEW u \in Workers
  PROVE  Told(u)' <=> Told(u)
BY DriverSends DEF Told, loopVars

-----------------------------------------------------------------------------
(* What the workers are told stays in turn, and before what is of value.     *)

(* A step that posts nothing but what it may, and tells nobody.              *)
LEMMA QueuesStayInTurn ==
  ASSUME Calm, InTurn, Handshake, UNCHANGED <<opt, driver>>,
         \A u \in Workers : Told(u)' <=> Told(u),
         \A u \in Workers : \A p \in ToSet(out'[u]) : p \in ToSet(out[u]) \/ p.msg.tag # "registry",
         out'[DRIVER] = out[DRIVER]
  PROVE  InTurn'
<1>1. /\ \A w \in Workers : \A p \in ToSet(out[w]) : p.msg.tag # "registry"
      /\ driver = "handshake" => out[DRIVER] = <<>> /\ \A w \in Workers : ~Told(w)
      /\ driver = "collect" => StillToTell
  BY DEF InTurn
<1>2. \A w \in Workers : \A p \in ToSet(out'[w]) : p.msg.tag # "registry"
  BY <1>1
<1>3. StillToTell => StillToTell'
  BY DEF StillToTell, ToldBefore
<1> QED BY <1>1, <1>2, <1>3 DEF InTurn

LEMMA WorkerInTurn ==
  ASSUME IInv, TInv, Calm, Handshake, NEW w \in Workers, OwnStep(w)
  PROVE  InTurn' /\ AfterRegistry'
<1>1. \A u \in Workers : Told(u)' <=> Told(u)
  BY ToldByWorker
<1>2. InTurn'
  <2>1. ASSUME NEW u \in Workers, NEW p \in ToSet(out'[u])
        PROVE  p \in ToSet(out[u]) \/ p.msg.tag # "registry"
    BY WhoIsWho DEF OwnStep, MayPost
  <2>2. out'[DRIVER] = out[DRIVER] /\ UNCHANGED <<opt, driver>>
    BY WhoIsWho DEF OwnStep
  <2> QED BY <1>1, <2>1, <2>2, QueuesStayInTurn DEF TInv
<1>3. ASSUME NEW u \in Workers, NEW f \in Endpoints, NEW p \in ToSet(out'[f]), p.to = u, Valuable(p.msg)
      PROVE  Told(u)'
  <2>1. p \in ToSet(out[f]) \/ MayPost(p)
    BY WhoIsWho DEF OwnStep
  <2>2. Told(u)
    BY <1>3, <2>1 DEF MayPost, TInv, AfterRegistry
  <2> QED BY <1>1, <2>2
<1>4. ASSUME NEW u \in Workers, phase'[u] = "await"
      PROVE  \A i \in 1 .. Len(inbox'[u]) :
               Valuable(inbox'[u][i]) => \E j \in 1 .. i-1 : inbox'[u][j] = RegistryMsg
  <2>1. phase[u] = "await" /\ inbox'[u] = inbox[u]
    BY <1>4, WhoIsWho DEF OwnStep
  <2> QED BY <2>1 DEF TInv, AfterRegistry
<1> QED BY <1>2, <1>3, <1>4 DEF AfterRegistry

LEMMA DriverInTurn ==
  ASSUME IInv, TInv, Calm, Handshake, CalmDriver
  PROVE  InTurn' /\ AfterRegistry'
<1>1. /\ \A u \in Workers : Told(u)' <=> Told(u)
      /\ \A u \in Workers : inbox'[u] = inbox[u] /\ out'[u] = out[u]
      /\ UNCHANGED <<opt, loopVars>>
  BY ToldByDriver, DriverSends
<1>2. CASE UNCHANGED <<out, driver>>
  <2>1. InTurn'
    BY <1>1, <1>2, QueuesStayInTurn DEF TInv
  <2>2. AfterRegistry'
    <3>1. AfterRegistry
      BY DEF TInv
    <3> QED BY <1>1, <1>2, <3>1 DEF AfterRegistry, loopVars
  <2> QED BY <2>1, <2>2
<1>3. CASE SendRegistry
  <2> DEFINE post == [i \in 1 .. W |-> [to |-> i-1, msg |-> RegistryMsg]]
  <2>1. driver = "handshake" /\ driver' = "collect" /\ GoodOut
    BY <1>3, WireOfInv DEF SendRegistry
  <2>2. out[DRIVER] = <<>> /\ \A u \in Workers : ~Told(u)
    BY <2>1 DEF TInv, InTurn
  <2>3. PostAll(RegistryOrder, RegistryMsg) = post
    BY SizeAssumption DEF PostAll, RegistryOrder, InOrder
  <2>4. post \in Seq(Posts)
    BY <2>3, InOrderType, MailFacts, PostAllType DEF RegistryOrder
  <2>5. Len(post) = W /\ \A i \in 1 .. W : post[i] = [to |-> i-1, msg |-> RegistryMsg]
    BY SizeAssumption
  <2>6. \A p \in ToSet(post) : p.msg = RegistryMsg
    BY DEF ToSet
  <2> HIDE DEF post
  <2>7. <<>> \o post = post
    BY <2>4
  <2>8. out'[DRIVER] = post
    BY <1>3, <2>1, <2>2, <2>3, <2>7, WhoIsWho DEF SendRegistry, GoodOut
  <2>9. InTurn'
    <3>1. StillToTell'
      <4>1. \A u \in Workers : ~Told(u)'
        BY <1>1, <2>2
      <4>2. ASSUME NEW i \in 1 .. Len(post)
            PROVE  /\ post[i].msg = RegistryMsg /\ post[i].to \in Workers
                   /\ \A u \in Workers : u < post[i].to => \E j \in 1 .. i-1 : post[j].to = u
        <5>1. post[i] = [to |-> i-1, msg |-> RegistryMsg] /\ i-1 \in Workers /\ i \in 1 .. W
          BY <2>5, SizeAssumption DEF Workers
        <5>2. ASSUME NEW u \in Workers, u < i-1 PROVE \E j \in 1 .. i-1 : post[j].to = u
          <6>1. u+1 \in 1 .. i-1 /\ u+1 \in 1 .. W /\ (u+1)-1 = u
            BY <5>1, <5>2, SizeAssumption DEF Workers
          <6>2. post[u+1] = [to |-> (u+1)-1, msg |-> RegistryMsg]
            BY <2>5, <6>1
          <6>3. post[u+1].to = u
            BY <6>1, <6>2
          <6> QED BY <6>1, <6>3
        <5> QED BY <5>1, <5>2
      <4> QED BY <2>8, <4>1, <4>2 DEF StillToTell
    <3>2. \A u \in Workers : \A p \in ToSet(out'[u]) : p.msg.tag # "registry"
      BY <1>1 DEF TInv, InTurn
    <3> QED BY <2>1, <3>1, <3>2 DEF InTurn
  <2>10. AfterRegistry'
    <3>1. AfterRegistry /\ ~Valuable(RegistryMsg)
      BY DEF TInv, Valuable, RegistryMsg
    <3>2. ASSUME NEW u \in Workers, NEW f \in Endpoints, NEW p \in ToSet(out'[f]), p.to = u, Valuable(p.msg)
          PROVE  Told(u)'
      <4>1. f # DRIVER
        BY <2>6, <2>8, <3>1, <3>2
      <4>2. f \in Workers
        BY <4>1, WhoIsWho
      <4> QED BY <1>1, <3>1, <3>2, <4>2 DEF AfterRegistry
    <3> QED BY <1>1, <3>1, <3>2 DEF AfterRegistry, loopVars
  <2> QED BY <2>9, <2>10
<1> QED BY <1>2, <1>3, DriverSends

(* What a worker waiting for the registry takes and does not know is of no    *)
(* value.                                                                  *)
LEMMA AwaitLosesNothing ==
  ASSUME IInv, AfterRegistry, NEW w \in Workers, Await(w)
  PROVE  ~Valuable(Msg(w))
<1>1. inbox[w] \in Seq(Mail[w]) /\ inbox[w] # <<>> /\ phase[w] = "await"
  BY AwaitTakes
<1>2. 1 \in 1 .. Len(inbox[w]) /\ Msg(w) = inbox[w][1]
  BY <1>1, HeadTailProperties, LenProperties, EmptySeq DEF Msg
<1>3. Valuable(inbox[w][1]) => \E j \in 1 .. 1-1 : inbox[w][j] = RegistryMsg
  BY <1>1, <1>2 DEF AfterRegistry
<1>4. 1 .. 1-1 = {}
  OBVIOUS
<1> QED BY <1>2, <1>3, <1>4

LEMMA AwaitInTurn ==
  ASSUME IInv, TInv, Calm, Handshake, NEW w \in Workers, Await(w)
  PROVE  InTurn' /\ AfterRegistry'
<1>1. \A u \in Workers : Told(u)' <=> Told(u)
  BY ToldByAwait
<1>2. /\ \A e \in Endpoints \ {w} : inbox'[e] = inbox[e]
      /\ \A u \in Workers \ {w} : phase'[u] = phase[u]
      /\ inbox'[w] = Tail(inbox[w]) /\ inbox[w] \in Seq(Mail[w]) /\ inbox[w] # <<>>
      /\ phase[w] = "await" /\ (phase'[w] = "await" => Msg(w) # RegistryMsg)
      /\ UNCHANGED <<opt, out, driver>>
  BY AwaitTakes
<1>3. InTurn'
  BY <1>1, <1>2, QueuesStayInTurn DEF TInv
<1>4. AfterRegistry
  BY DEF TInv
<1>5. ASSUME NEW u \in Workers, phase'[u] = "await"
      PROVE  \A i \in 1 .. Len(inbox'[u]) :
               Valuable(inbox'[u][i]) => \E j \in 1 .. i-1 : inbox'[u][j] = RegistryMsg
  <2>1. CASE u # w
    BY <1>2, <1>4, <1>5, <2>1, WhoIsWho DEF AfterRegistry
  <2>2. CASE u = w
    <3> DEFINE s == inbox[w]
               t == Tail(s)
    <3>1. /\ Len(t) = Len(s) - 1 /\ Len(s) \in Nat /\ s[1] = Msg(w)
          /\ \A i \in 1 .. Len(t) : t[i] = s[i+1]
      BY <1>2, HeadTailProperties, LenProperties DEF Msg
    <3>2. \A i \in 1 .. Len(s) : Valuable(s[i]) => \E j \in 1 .. i-1 : s[j] = RegistryMsg
      BY <1>2, <1>4 DEF AfterRegistry
    <3>3. s[1] # RegistryMsg
      BY <1>2, <1>5, <2>2, <3>1
    <3> HIDE DEF s, t
    <3>4. ASSUME NEW i \in 1 .. Len(t), Valuable(t[i]) PROVE \E j \in 1 .. i-1 : t[j] = RegistryMsg
      <4>1. i + 1 \in 1 .. Len(s) /\ (i+1)-1 = i
        BY <3>1
      <4>2. PICK j \in 1 .. i : s[j] = RegistryMsg
        BY <3>1, <3>2, <3>4, <4>1
      <4>3. j # 1
        BY <3>3, <4>2
      <4>4. j-1 \in 1 .. i-1 /\ j-1 \in 1 .. Len(t) /\ (j-1)+1 = j
        BY <3>1, <4>2, <4>3
      <4> QED BY <3>1, <4>2, <4>4
    <3> QED BY <1>2, <2>2, <3>4 DEF s, t
  <2> QED BY <2>1, <2>2
<1> QED BY <1>1, <1>2, <1>3, <1>4, <1>5 DEF AfterRegistry

(* A queue whose head was posted, and perhaps queued again further back.     *)
HeadBehind(s, t) ==
  \A i \in 1 .. Len(t) :
    \/ t[i] = s[1]
    \/ \E m \in 2 .. Len(s) : t[i] = s[m] /\ \A j \in 2 .. m-1 : \E l \in 1 .. i-1 : t[l] = s[j]
LEMMA HeadGoesBack ==
  ASSUME NEW S, NEW s \in Seq(S), s # <<>>, NEW t, t = Tail(s) \/ \E k \in DOMAIN s : t = HeadTo(k, s)
  PROVE  HeadBehind(s, t)
<1>1. Len(s) \in Nat /\ DOMAIN s = 1 .. Len(s)
  BY LenProperties
<1>2. CASE t = Tail(s)
  <2>1. Len(t) = Len(s) - 1 /\ \A i \in 1 .. Len(t) : t[i] = s[i+1]
    BY <1>2, HeadTailProperties
  <2> SUFFICES ASSUME NEW i \in 1 .. Len(t)
               PROVE  \E m \in 2 .. Len(s) : t[i] = s[m] /\ \A j \in 2 .. m-1 : \E l \in 1 .. i-1 : t[l] = s[j]
    BY DEF HeadBehind
  <2>2. i+1 \in 2 .. Len(s) /\ t[i] = s[i+1]
    BY <1>1, <2>1
  <2>3. ASSUME NEW j \in 2 .. (i+1)-1 PROVE \E l \in 1 .. i-1 : t[l] = s[j]
    <3>1. j-1 \in 1 .. i-1 /\ j-1 \in 1 .. Len(t) /\ (j-1)+1 = j
      BY <1>1, <2>1
    <3>2. t[j-1] = s[j]
      BY <2>1, <3>1
    <3> QED BY <3>1, <3>2
  <2> QED BY <2>2, <2>3
<1>3. ASSUME NEW k \in DOMAIN s, t = HeadTo(k, s) PROVE HeadBehind(s, t)
  <2>1. /\ Len(t) = Len(s)
        /\ \A i \in 1 .. Len(s) : t[i] = IF i < k THEN s[i+1] ELSE IF i = k THEN s[1] ELSE s[i]
    BY <1>1, <1>3, HeadToSame
  <2>2. ASSUME NEW j \in 2 .. Len(s), j-1 < k PROVE t[j-1] = s[j]
    <3>1. j-1 \in 1 .. Len(s) /\ (j-1)+1 = j
      BY <1>1
    <3> QED BY <2>1, <2>2, <3>1
  <2>3. t[k] = s[1]
    <3>1. k \in 1 .. Len(s) /\ ~(k < k)
      BY <1>1, <1>3
    <3> QED BY <2>1, <3>1
  <2>4. ASSUME NEW i \in 1 .. Len(t), i < k
        PROVE  \E m \in 2 .. Len(s) : t[i] = s[m] /\ \A j \in 2 .. m-1 : \E l \in 1 .. i-1 : t[l] = s[j]
    <3>1. i+1 \in 2 .. Len(s) /\ t[i] = s[i+1]
      BY <1>1, <2>1, <2>4
    <3>2. ASSUME NEW j \in 2 .. (i+1)-1 PROVE \E l \in 1 .. i-1 : t[l] = s[j]
      <4>1. j-1 \in 1 .. i-1 /\ j \in 2 .. Len(s) /\ j-1 < k
        BY <1>1, <2>1, <2>4
      <4> QED BY <2>2, <4>1
    <3> QED BY <3>1, <3>2
  <2>5. ASSUME NEW i \in 1 .. Len(t), i > k
        PROVE  \E m \in 2 .. Len(s) : t[i] = s[m] /\ \A j \in 2 .. m-1 : \E l \in 1 .. i-1 : t[l] = s[j]
    <3>1. i \in 2 .. Len(s) /\ t[i] = s[i]
      BY <1>1, <2>1, <2>5
    <3>2. ASSUME NEW j \in 2 .. i-1 PROVE \E l \in 1 .. i-1 : t[l] = s[j]
      <4>1. CASE j-1 < k
        <5>1. j-1 \in 1 .. i-1 /\ j \in 2 .. Len(s)
          BY <1>1, <2>1
        <5> QED BY <2>2, <4>1, <5>1
      <4>2. CASE ~(j-1 < k)
        <5>1. j \in 1 .. i-1 /\ j \in 1 .. Len(s) /\ ~(j < k) /\ j # k
          BY <1>1, <2>1, <4>2
        <5>2. t[j] = s[j]
          BY <2>1, <5>1
        <5> QED BY <5>1, <5>2
      <4> QED BY <4>1, <4>2
    <3> QED BY <3>1, <3>2
  <2>6. \A i \in 1 .. Len(t) : i = k \/ i < k \/ i > k
    BY <1>1, <2>1
  <2> QED BY <2>3, <2>4, <2>5, <2>6 DEF HeadBehind
<1> QED BY <1>2, <1>3

LEMMA PostInTurn ==
  ASSUME IInv, TInv, Calm, Handshake, NEW e \in Endpoints, NEW p, Delivers(e, p)
  PROVE  InTurn' /\ AfterRegistry'
<1>1. \A u \in Workers : Told(u)' <=> (Told(u) \/ (p.to = u /\ p.msg = RegistryMsg))
  BY ToldByDelivery
<1>2. /\ p = Head(out[e]) /\ p \in ToSet(out[e]) /\ p.to \in Endpoints /\ out[e] # <<>>
      /\ inbox' = [inbox EXCEPT ![p.to] = Append(@, p.msg)]
      /\ \/ out' = [out EXCEPT ![e] = Tail(@)]
         \/ \E k \in DOMAIN out[e] : out' = [out EXCEPT ![e] = HeadTo(k, @)]
      /\ \A f \in Endpoints : ToSet(out'[f]) \subseteq ToSet(out[f])
      /\ UNCHANGED <<opt, phase, driver>>
  BY DEF Delivers, loopVars
<1>3. GoodOut /\ GoodBoxes(inbox) /\ AfterRegistry /\ InTurn
  BY WireOfInv DEF TInv
<1>4. InTurn'
  <2>1. /\ \A w \in Workers : \A q \in ToSet(out[w]) : q.msg.tag # "registry"
        /\ driver = "handshake" => out[DRIVER] = <<>> /\ \A w \in Workers : ~Told(w)
        /\ driver = "collect" => StillToTell
    BY <1>3 DEF InTurn
  <2>2. CASE e # DRIVER
    <3>1. e \in Workers /\ p.msg # RegistryMsg
      BY <1>2, <2>1, <2>2, WhoIsWho DEF RegistryMsg
    <3>2. out'[DRIVER] = out[DRIVER]
      BY <1>2, <1>3, <2>2, WhoIsWho DEF GoodOut
    <3> QED BY <1>1, <1>2, <1>3, <2>1, <3>1, <3>2, QueuesStayInTurn, WhoIsWho
  <2>3. CASE e = DRIVER
    <3>1. driver = "collect"
      BY <1>2, <2>1, <2>3 DEF Calm
    <3>2. StillToTell
      BY <2>1, <3>1
    <3> DEFINE s == out[DRIVER]
    <3>3. s \in Seq(Posts) /\ s # <<>> /\ p = s[1] /\ 1 \in 1 .. Len(s)
      BY <1>2, <1>3, <2>3, HeadTailProperties, LenProperties, EmptySeq, WhoIsWho DEF GoodOut
    <3>4. PICK t : t = out'[DRIVER]
      OBVIOUS
    <3>5. t = Tail(s) \/ \E k \in DOMAIN s : t = HeadTo(k, s)
      BY <1>2, <1>3, <2>3, <3>4 DEF GoodOut
    <3>6. /\ \A i \in 1 .. Len(s) : s[i].msg = RegistryMsg /\ s[i].to \in Workers
          /\ \A i \in 1 .. Len(s) : \A u \in Workers :
               u < s[i].to => Told(u) \/ \E j \in 1 .. i-1 : s[j].to = u
          /\ \A w \in Workers : Told(w) => ToldBefore(w)
      BY <3>2 DEF StillToTell
    <3>7. HeadBehind(s, t)
      BY <3>3, <3>5, HeadGoesBack
    <3> HIDE DEF s
    <3>8. p.msg = RegistryMsg /\ p.to \in Workers /\ Told(p.to)'
      BY <1>1, <3>3, <3>6
    <3>9. ToldBefore(p.to) /\ \A u \in Workers : Told(u) => Told(u)'
      <4>1. 1 .. 1-1 = {}
        OBVIOUS
      <4> QED BY <1>1, <3>3, <3>6, <4>1 DEF ToldBefore
    <3>10. \A w \in Workers : Told(w)' => ToldBefore(w)'
      BY <1>1, <3>6, <3>9 DEF ToldBefore
    <3>11. ASSUME NEW i \in 1 .. Len(t)
           PROVE  /\ t[i].msg = RegistryMsg /\ t[i].to \in Workers
                  /\ \A u \in Workers : u < t[i].to => Told(u)' \/ \E j \in 1 .. i-1 : t[j].to = u
      <4>1. CASE t[i] = s[1]
        BY <3>3, <3>8, <3>9, <4>1 DEF ToldBefore
      <4>2. ASSUME NEW m \in 2 .. Len(s), t[i] = s[m],
                   \A j \in 2 .. m-1 : \E l \in 1 .. i-1 : t[l] = s[j]
            PROVE  /\ t[i].msg = RegistryMsg /\ t[i].to \in Workers
                   /\ \A u \in Workers : u < t[i].to => Told(u)' \/ \E j \in 1 .. i-1 : t[j].to = u
        <5>1. m \in 1 .. Len(s)
          BY <4>2
        <5>2. ASSUME NEW u \in Workers, u < s[m].to, ~Told(u)' PROVE \E j \in 1 .. i-1 : t[j].to = u
          <6>1. PICK j \in 1 .. m-1 : s[j].to = u
            BY <3>6, <3>9, <5>1, <5>2
          <6>2. j # 1
            BY <3>3, <3>8, <5>2, <6>1
          <6>3. j \in 2 .. m-1
            BY <6>1, <6>2
          <6> QED BY <4>2, <6>1, <6>3
        <5> QED BY <3>6, <4>2, <5>1, <5>2
      <4> QED BY <3>7, <4>1, <4>2 DEF HeadBehind
    <3>12. driver' = "collect" /\ \A w \in Workers : \A q \in ToSet(out'[w]) : q.msg.tag # "registry"
      BY <1>2, <2>1, <3>1, WhoIsWho
    <3>13. StillToTell'
      BY <3>4, <3>10, <3>11 DEF StillToTell
    <3> QED BY <3>12, <3>13 DEF InTurn
  <2> QED BY <2>2, <2>3
<1>5. ASSUME NEW u \in Workers, NEW f \in Endpoints, NEW q \in ToSet(out'[f]), q.to = u, Valuable(q.msg)
      PROVE  Told(u)'
  BY <1>1, <1>2, <1>3, <1>5 DEF AfterRegistry
<1>6. ASSUME NEW u \in Workers, phase'[u] = "await"
      PROVE  \A i \in 1 .. Len(inbox'[u]) :
               Valuable(inbox'[u][i]) => \E j \in 1 .. i-1 : inbox'[u][j] = RegistryMsg
  <2> DEFINE s == inbox[u]
  <2>1. u \in Endpoints /\ s \in Seq(Mail[u]) /\ phase[u] = "await"
    BY <1>2, <1>3, <1>6, WhoIsWho DEF GoodBoxes
  <2>2. \A i \in 1 .. Len(s) : Valuable(s[i]) => \E j \in 1 .. i-1 : s[j] = RegistryMsg
    BY <1>3, <2>1 DEF AfterRegistry
  <2>3. CASE p.to # u
    <3>1. inbox'[u] = s
      BY <1>2, <1>3, <2>1, <2>3 DEF GoodBoxes
    <3> QED BY <2>2, <3>1
  <2>4. CASE p.to = u
    <3> DEFINE t == Append(s, p.msg)
    <3>1. inbox'[u] = t
      BY <1>2, <1>3, <2>1, <2>4 DEF GoodBoxes
    <3>2. /\ Len(t) = Len(s) + 1 /\ Len(s) \in Nat
          /\ \A i \in 1 .. Len(s) : t[i] = s[i]
          /\ t[Len(s) + 1] = p.msg
      <4>1. s \in Seq(Mail[u] \cup {p.msg})
        BY <2>1, SeqMonotonic
      <4> QED BY <4>1, AppendProperties, LenProperties
    <3> HIDE DEF t
    <3>3. ASSUME Valuable(p.msg) PROVE \E j \in 1 .. Len(s) : s[j] = RegistryMsg
      <4>1. RegistryMsg \in ToSet(s)
        BY <1>2, <1>3, <2>1, <2>4, <3>3 DEF AfterRegistry, Told
      <4>2. DOMAIN s = 1 .. Len(s)
        BY <2>1, LenProperties
      <4> QED BY <4>1, <4>2 DEF ToSet
    <3> HIDE DEF s
    <3>4. ASSUME NEW i \in 1 .. Len(t), Valuable(t[i]) PROVE \E j \in 1 .. i-1 : t[j] = RegistryMsg
      <4>1. CASE i \in 1 .. Len(s)
        <5>1. PICK j \in 1 .. i-1 : s[j] = RegistryMsg
          BY <2>2, <3>2, <3>4, <4>1
        <5>2. j \in 1 .. Len(s)
          BY <3>2, <4>1, <5>1
        <5> QED BY <3>2, <5>1, <5>2
      <4>2. CASE i = Len(s) + 1
        <5>1. PICK j \in 1 .. Len(s) : s[j] = RegistryMsg
          BY <3>2, <3>3, <3>4, <4>2
        <5>2. j \in 1 .. i-1
          BY <3>2, <4>2, <5>1
        <5> QED BY <3>2, <5>1, <5>2
      <4> QED BY <3>2, <4>1, <4>2
    <3> QED BY <3>1, <3>4
  <2> QED BY <2>3, <2>4
<1> QED BY <1>4, <1>5, <1>6 DEF AfterRegistry

LEMMA OthersKeep ==
  ASSUME IInv, NEW w \in Workers, CalmWorker(w), NEW u \in Workers \ {w}
  PROVE  polled'[u] = polled[u] /\ cur'[u] = cur[u]
<1>1. DOMAIN polled = Workers /\ DOMAIN cur = Workers
  BY DEF IInv, TypeOK
<1>2. polled' = polled \/ \E n : polled' = [polled EXCEPT ![w] = n]
  BY DEF CalmWorker, SettleRoot, SettleCarry, SettleShip, SettlePark, CalmCombine, Poll, Recv, AskSteal, Process,
     HandleNode, HandleLeaf, HandleStealReq, HandleStealResp, HandleOther, Await, Consume, loopVars
<1>3. cur' = cur \/ \E hand : cur' = [cur EXCEPT ![w] = hand]
  BY DEF CalmWorker, SettleRoot, SettleCarry, SettleShip, SettlePark, CalmCombine, SettleCombine, Poll, Recv,
     AskSteal, Process, HandleNode, HandleLeaf, HandleStealReq, HandleStealResp, HandleOther, Await, Enter,
     LeaveSettle, treeVars
<1> QED BY <1>1, <1>2, <1>3

(* The run's options never change, nor does a worker that works go back to    *)
(* waiting for the registry.                                                *)
LEMMA PhasesStay ==
  ASSUME IInv, AwaitIdle, CalmStep
  PROVE  /\ opt' = opt /\ AwaitIdle'
         /\ \A u \in Workers : phase[u] # "await" => phase'[u] # "await"
<1>1. ASSUME NEW w \in Workers, CalmWorker(w), ~Await(w)
      PROVE  opt' = opt /\ \A u \in Workers : /\ phase'[u] = "await" => phase[u] = "await" /\ u # w
                                              /\ phase[u] # "await" => phase'[u] # "await"
  BY <1>1, WorksWhenTold
<1>2. ASSUME NEW w \in Workers, CalmWorker(w), ~Await(w)
      PROVE  \A u \in Workers : phase'[u] = "await" => Handshake' /\ polled'[u] = 0 /\ cur'[u] = None
  BY <1>1, <1>2, OthersKeep DEF AwaitIdle, Handshake
<1>3. ASSUME NEW w \in Workers, Await(w)
      PROVE  /\ opt' = opt
             /\ \A u \in Workers : /\ phase'[u] = "await" => phase[u] = "await"
                                   /\ phase[u] # "await" => phase'[u] # "await"
             /\ UNCHANGED <<polled, cur>>
  BY <1>3, AwaitTakes DEF treeVars
<1>4. ASSUME UNCHANGED <<opt, loopVars, treeVars>>
      PROVE  opt' = opt /\ UNCHANGED <<phase, polled, cur>>
  BY <1>4 DEF loopVars, treeVars
<1>5. CASE \E w \in Workers : CalmWorker(w) /\ ~Await(w)
  BY <1>1, <1>2, <1>5 DEF AwaitIdle
<1>6. CASE \E w \in Workers : Await(w)
  BY <1>3, <1>6 DEF AwaitIdle, Handshake
<1>7. CASE UNCHANGED <<opt, loopVars, treeVars>>
  BY <1>4, <1>7 DEF AwaitIdle, Handshake
<1>8. ASSUME NEW e \in Endpoints, Post(e) \/ PostUnacknowledged(e) PROVE UNCHANGED <<opt, loopVars, treeVars>>
  BY <1>8, PostDelivers DEF Delivers
<1>9. ASSUME CalmDriver PROVE UNCHANGED <<opt, loopVars, treeVars>>
  BY <1>9, DriverSends
<1> QED BY <1>5, <1>6, <1>7, <1>8, <1>9 DEF CalmStep, CalmWorker, vars

LEMMA StaysInTurn ==
  ASSUME IInv, FInv, TInv, Calm, CalmStep
  PROVE  /\ InTurn' /\ AfterRegistry'
         /\ \A u \in Workers : Told(u) => Told(u)'
<1>1. AwaitIdle /\ AwaitIdle' /\ opt' = opt /\ (Handshake' <=> Handshake)
  BY PhasesStay DEF TInv, Handshake
<1>2. CASE ~Handshake
  <2>1. \A u \in Workers : Told(u)' /\ phase'[u] # "await"
    BY <1>1, <1>2 DEF AwaitIdle, Told
  <2> QED BY <1>1, <1>2, <2>1 DEF InTurn, AfterRegistry
<1>3. CASE Handshake
  <2>1. ASSUME NEW w \in Workers, CalmWorker(w), ~Await(w)
        PROVE  InTurn' /\ AfterRegistry' /\ \A u \in Workers : Told(u) => Told(u)'
    <3>1. OwnStep(w)
      BY <1>3, <2>1, OwnSteps DEF Handshake
    <3> QED BY <1>3, <3>1, WorkerInTurn, ToldByWorker
  <2>2. ASSUME NEW w \in Workers, Await(w)
        PROVE  InTurn' /\ AfterRegistry' /\ \A u \in Workers : Told(u) => Told(u)'
    BY <1>3, <2>2, AwaitInTurn, ToldByAwait
  <2>3. ASSUME NEW e \in Endpoints, Post(e) \/ PostUnacknowledged(e)
        PROVE  InTurn' /\ AfterRegistry' /\ \A u \in Workers : Told(u) => Told(u)'
    <3>1. Delivers(e, Head(out[e]))
      BY <2>3, PostDelivers
    <3> QED BY <1>3, <3>1, PostInTurn, ToldByDelivery
  <2>4. ASSUME CalmDriver
        PROVE  InTurn' /\ AfterRegistry' /\ \A u \in Workers : Told(u) => Told(u)'
    BY <1>3, <2>4, DriverInTurn, ToldByDriver
  <2>5. ASSUME UNCHANGED vars
        PROVE  InTurn' /\ AfterRegistry' /\ \A u \in Workers : Told(u) => Told(u)'
    <3>1. InTurn /\ AfterRegistry /\ UNCHANGED <<opt, driver, phase, inbox, out>>
      BY <2>5 DEF TInv, vars, driverVars, loopVars, wireVars
    <3>2. InTurn'
      BY <3>1 DEF InTurn, Handshake, Told, ToldBefore, StillToTell
    <3>3. AfterRegistry'
      BY <3>1 DEF AfterRegistry, Told
    <3> QED BY <3>1, <3>2, <3>3 DEF Told
  <2> QED BY <2>1, <2>2, <2>3, <2>4, <2>5 DEF CalmStep, CalmWorker
<1> QED BY <1>2, <1>3

-----------------------------------------------------------------------------
(* Where the leaves and the messages go.                                    *)

LEMMA OutboxOf ==
  ASSUME NEW w \in Workers
  PROVE  /\ w \notin Outbox[w]
         /\ opt.kind # "pinned" => Outbox[w] = {DRIVER} \cup (Workers \ {w})
BY WhoIsWho DEF Outbox, WorkerOutbox

LEMMA GrantedMemberNext ==
  ASSUME NEW u, NEW leaf
  PROVE  leaf \in Granted(u)' <=> \E m \in MessagesTo(u)' : m.tag = "steal_resp" /\ leaf \in ToSet(m.leaves)
BY DEF Granted

(* What may newly be on its way to a worker.                                 *)
NewMail(u, m) ==
  \/ m.tag \in {"root", "node", "registry"}
  \/ m.tag = "steal_req" /\ opt.steal /\ m.thief \in Workers /\ m.thief # u /\ phase[m.thief] # "await"
  \/ m.tag = "steal_resp" /\ opt.steal /\ \E v \in Workers : Told(v) /\ ToSet(m.leaves) \subseteq ToSet(mine[v])
  \/ m.tag = "leaf" /\ opt.steal

(* A message that is no longer on its way has had its effect.                *)
Used(u, m) ==
  \/ m.tag \notin {"leaf", "steal_resp"}
  \/ m.tag = "leaf" /\ m.node \in seen'[u]
  \/ m.tag = "steal_resp" /\ ToSet(m.leaves) \subseteq ToSet(mine'[u])

(* A leaf a worker no longer has to process is settled, or on its way to its  *)
(* owner, or given away.                                                    *)
Kept(u, leaf) ==
  \/ leaf \in ToSet(mine'[u])
  \/ OwnerOf[<<0, leaf>>] = u /\ <<0, leaf>> \in seen'[u]
  \/ \E m \in MessagesTo(OwnerOf[<<0, leaf>>])' : m.tag = "leaf" /\ m.node = <<0, leaf>>
  \/ \E v \in Workers : leaf \in Granted(v)'

(* A pinned pool does not steal (the run pinned_resteal shows why).           *)
Reaches == opt.kind = "pinned" => ~opt.steal

MailGoes ==
  \A u \in Workers :
    /\ \A m \in MessagesTo(u)' : m \in MessagesTo(u) \/ NewMail(u, m)
    /\ \A m \in MessagesTo(u) : m \in MessagesTo(u)' \/ Used(u, m)
    /\ ToSet(mine'[u]) \subseteq ToSet(mine[u]) \cup Granted(u)
    /\ Reaches => \A leaf \in ToSet(mine[u]) : Kept(u, leaf)

(* Mail and leaves of a step that keeps every worker's leaves.               *)
LEMMA LeavesStay ==
  ASSUME UNCHANGED mine,
         \A u \in Workers : \A m \in MessagesTo(u)' : m \in MessagesTo(u) \/ NewMail(u, m),
         \A u \in Workers : \A m \in MessagesTo(u) : m \in MessagesTo(u)' \/ Used(u, m)
  PROVE  MailGoes
BY DEF MailGoes, Kept

LEMMA SameMail ==
  ASSUME UNCHANGED mine, \A u \in Workers : MessagesTo(u)' = MessagesTo(u)
  PROVE  MailGoes
BY LeavesStay

(* A worker sends one message.                                              *)
LEMMA Sends ==
  ASSUME IInv, NEW w \in Workers, NEW dest \in Endpoints, NEW msg, Send(w, inbox, dest, msg)
  PROVE  /\ \A e \in Endpoints :
              /\ \A m \in MessagesTo(e)' : m \in MessagesTo(e) \/ (e = dest /\ m = msg /\ dest \in Outbox[w])
              /\ MessagesTo(e) \subseteq MessagesTo(e)'
         /\ dest \in Outbox[w] => msg \in MessagesTo(dest)'
<1>1. GoodBoxes(inbox) /\ GoodOut
  BY WireOfInv
<1>2. \A e \in Endpoints :
        MessagesTo(e)' = Arriving(inbox, out, e) \cup IF e = dest THEN Reached(w, dest, msg) ELSE {}
  BY <1>1, SendArrives
<1>3. \A e \in Endpoints : MessagesTo(e)' = MessagesTo(e) \cup IF e = dest THEN Reached(w, dest, msg) ELSE {}
  BY <1>2, OnTheWay
<1> QED BY <1>3 DEF Reached

(* A worker answers the message it handles.                                 *)
LEMMA Answers ==
  ASSUME IInv, NEW w \in Workers, polled[w] > 0, NEW dest \in Endpoints, NEW msg,
         Send(w, Taken(w), dest, msg)
  PROVE  /\ \A e \in Endpoints :
              /\ \A m \in MessagesTo(e)' : m \in MessagesTo(e) \/ (e = dest /\ m = msg /\ dest \in Outbox[w])
              /\ \A m \in MessagesTo(e) : m \in MessagesTo(e)' \/ (e = w /\ m = Msg(w))
         /\ dest \in Outbox[w] => msg \in MessagesTo(dest)'
<1> DEFINE boxes == Taken(w)
<1>1. /\ GoodBoxes(inbox) /\ GoodOut /\ GoodBoxes(boxes) /\ inbox[w] # <<>> /\ w \in Endpoints
      /\ boxes = [inbox EXCEPT ![w] = Tail(@)] /\ Msg(w) = Head(inbox[w])
  BY WireOfInv, HandledMessage, SomethingPolled, WhoIsWho DEF Taken, Msg
<1>2. Send(w, boxes, dest, msg)
  OBVIOUS
<1> HIDE DEF boxes
<1>3. \A e \in Endpoints :
        MessagesTo(e)' = Arriving(boxes, out, e) \cup IF e = dest THEN Reached(w, dest, msg) ELSE {}
  BY <1>1, <1>2, SendArrives
<1>4. /\ MessagesTo(w) = Arriving(boxes, out, w) \cup {Msg(w)}
      /\ \A e \in Endpoints \ {w} : MessagesTo(e) = Arriving(boxes, out, e)
  BY <1>1, TakenArrives
<1>5. \A e \in Endpoints : /\ Arriving(boxes, out, e) \subseteq MessagesTo(e)
                           /\ \A m \in MessagesTo(e) : m \in Arriving(boxes, out, e) \/ (e = w /\ m = Msg(w))
  BY <1>4
<1> QED BY <1>3, <1>5 DEF Reached

LEMMA TakenMail ==
  ASSUME IInv, NEW w \in Workers, inbox[w] # <<>>, inbox' = Taken(w), UNCHANGED out
  PROVE  \A e \in Endpoints :
           /\ MessagesTo(e)' \subseteq MessagesTo(e)
           /\ \A m \in MessagesTo(e) : m \in MessagesTo(e)' \/ (e = w /\ m = Msg(w))
BY HandledArrives

LEMMA ElementsOfGiven ==
  ASSUME NEW S, NEW s \in Seq(S), Len(s) > 1
  PROVE  /\ FarEnd(s) \in ToSet(s) /\ ToSet(AllButFarEnd(s)) \subseteq ToSet(s)
         /\ \A x \in ToSet(s) : x \in ToSet(AllButFarEnd(s)) \/ x = FarEnd(s)
<1> DEFINE n == Len(s)
           t == SubSeq(s, 1, n - 1)
<1>1. n \in Nat /\ DOMAIN s = 1 .. n /\ n > 1
  BY LenProperties
<1>2. \A i \in 1 .. n - 1 : s[i] \in S
  BY <1>1, ElementOfSeq
<1>3. n - 1 \in Nat /\ t \in Seq(S) /\ Len(t) = n - 1 /\ \A i \in 1 .. n - 1 : t[i] = s[i]
  <2>1. n - 1 - 1 + 1 = n - 1 /\ 1 <= n - 1 + 1 /\ 1 \in Int /\ n - 1 \in Int /\ n - 1 \in Nat
    BY <1>1
  <2>2. t \in Seq(S) /\ Len(t) = (IF 1 <= n - 1 THEN n - 1 - 1 + 1 ELSE 0)
        /\ \A i \in 1 .. n - 1 - 1 + 1 : t[i] = s[1 + i - 1]
    BY <1>1, <1>2, SubSeqProperties
  <2>3. \A i \in 1 .. n - 1 : 1 + i - 1 = i
    OBVIOUS
  <2>4. 1 <= n - 1
    BY <1>1
  <2> HIDE DEF t, n
  <2>5. \A i \in 1 .. n - 1 : t[i] = s[i]
    BY <2>1, <2>2, <2>3
  <2> QED BY <2>1, <2>2, <2>4, <2>5
<1>4. DOMAIN t = 1 .. n - 1
  BY <1>3, LenProperties
<1>5. FarEnd(s) = s[n] /\ AllButFarEnd(s) = t
  BY DEF FarEnd, AllButFarEnd, Last, Front
<1> HIDE DEF t, n
<1>6. \A i \in 1 .. n : i \in 1 .. n - 1 \/ i = n
  BY <1>1
<1>7. n \in 1 .. n /\ \A i \in 1 .. n - 1 : i \in 1 .. n
  BY <1>1
<1>8. ToSet(t) = {t[i] : i \in 1 .. n - 1} /\ ToSet(s) = {s[i] : i \in 1 .. n}
  BY <1>1, <1>4 DEF ToSet
<1> QED BY <1>3, <1>5, <1>6, <1>7, <1>8

LEMMA SettleMail ==
  ASSUME IInv, TInv, Calm, NEW w \in Workers,
         SettleRoot(w) \/ SettleCarry(w) \/ SettleShip(w) \/ SettlePark(w) \/ CalmCombine(w) \/ Poll(w) \/ Recv(w)
  PROVE  MailGoes
<1>1. UNCHANGED mine
  BY DEF SettleRoot, SettleCarry, SettleShip, SettlePark, CalmCombine, Poll, Recv, loopVars
<1>2. CASE SettleRoot(w)
  <2>1. Send(w, inbox, DRIVER, RootMsg(cur[w].val)) /\ RootMsg(cur[w].val).tag = "root"
    BY <1>2 DEF SettleRoot, RootMsg
  <2> QED BY <1>1, <2>1, Sends, WhoIsWho, LeavesStay DEF NewMail
<1>3. CASE SettleShip(w)
  <2> DEFINE nd == cur[w].node
             dest == OwnerOf[Sibling(nd)]
             msg == NodeMsg(nd, cur[w].val)
  <2>1. Send(w, inbox, dest, msg) /\ msg.tag = "node"
    BY <1>3 DEF SettleShip, NodeMsg
  <2>2. nd \in Nodes /\ ~Unpaired(N, nd) /\ ~IsRootLevel(N, Lvl(nd))
    BY <1>3, HandOfSettling DEF SettleShip, HasSibling, InTree
  <2>3. dest \in Endpoints
    BY <2>2, SiblingInNodes, OwnerIsWorker, WhoIsWho
  <2> HIDE DEF msg, dest
  <2> QED BY <1>1, <2>1, <2>3, Sends, WhoIsWho, LeavesStay DEF NewMail
<1>4. CASE UNCHANGED wireVars
  BY <1>1, <1>4, SameWire, SameMail, WhoIsWho
<1> QED BY <1>2, <1>3, <1>4 DEF SettleCarry, SettlePark, CalmCombine, Poll, Recv, wireVars

LEMMA AskMail ==
  ASSUME IInv, TInv, Calm, NEW w \in Workers, AskSteal(w)
  PROVE  MailGoes
<1>1. UNCHANGED mine /\ opt.steal /\ phase[w] = "work"
  BY DEF AskSteal, AtWork
<1>2. PICK victim \in Workers : Send(w, inbox, victim, StealReq(w))
  BY DEF AskSteal
<1>3. StealReq(w).tag = "steal_req" /\ StealReq(w).thief = w
  BY DEF StealReq
<1>4. \A u \in Workers : \A m \in MessagesTo(u)' : m \in MessagesTo(u) \/ NewMail(u, m)
  BY <1>1, <1>2, <1>3, Sends, OutboxOf, WhoIsWho DEF NewMail
<1> QED BY <1>1, <1>2, <1>4, Sends, WhoIsWho, LeavesStay

LEMMA ProcessMail ==
  ASSUME IInv, TInv, Calm, NEW w \in Workers, Process(w)
  PROVE  MailGoes
<1>10. PICK leaf : leaf = Head(mine[w])
  OBVIOUS
<1> DEFINE home == OwnerOf[<<0, leaf>>]
           msg == LeafMsg(leaf, LeafValue(leaf))
<1>1. /\ mine[w] \in Seq(Leaves) /\ mine[w] # <<>> /\ w \in DOMAIN mine /\ w \in DOMAIN seen
      /\ mine' = [mine EXCEPT ![w] = Tail(@)] /\ UNCHANGED opt
  BY DEF Process, TakeLeaf, IInv, TypeOK
<1>2. ToSet(mine[w]) = {leaf} \cup ToSet(mine'[w]) /\ leaf \in Leaves
  BY <1>1, <1>10, ElementsOfTail, HeadTailProperties
<1>3. \A u \in Workers \ {w} : mine'[u] = mine[u]
  BY <1>1 DEF IInv, TypeOK
<1>4. home \in Workers /\ (~opt.steal => home = w)
  BY <1>2, LeafNode, OwnerIsWorker DEF TInv, NoThieves
<1>9. \A u \in Workers : /\ ToSet(mine'[u]) \subseteq ToSet(mine[u])
                         /\ \A x \in ToSet(mine[u]) : x \in ToSet(mine'[u]) \/ (u = w /\ x = leaf)
  BY <1>2, <1>3
<1>5. ASSUME /\ \A u \in Workers : \A m \in MessagesTo(u)' : m \in MessagesTo(u) \/ NewMail(u, m)
             /\ \A u \in Workers : MessagesTo(u) \subseteq MessagesTo(u)'
             /\ Reaches => Kept(w, leaf)
      PROVE  MailGoes
  <2>1. \A u \in Workers : \A x \in ToSet(mine'[u]) : Kept(u, x)
    BY DEF Kept
  <2> QED BY <1>5, <1>9, <2>1 DEF MailGoes
<1>6. CASE home = w /\ UNCHANGED wireVars /\ <<0, leaf>> \in seen'[w]
  BY <1>5, <1>6, SameWire, WhoIsWho DEF Kept
<1>7. CASE home # w /\ Send(w, inbox, home, msg)
  <2>1. msg.tag = "leaf" /\ msg.node = <<0, leaf>>
    BY DEF LeafMsg
  <2>2. opt.steal
    BY <1>4, <1>7
  <2>3. Reaches => home \in Outbox[w]
    BY <1>4, <1>7, <2>2, OutboxOf DEF Reaches
  <2>4. Reaches => Kept(w, leaf)
    <3> HIDE DEF msg, home
    <3>1. Reaches => msg \in MessagesTo(home)'
      BY <1>4, <1>7, <2>3, Sends, WhoIsWho
    <3> USE DEF home
    <3> QED BY <2>1, <3>1 DEF Kept
  <2> HIDE DEF msg, home
  <2>5. /\ \A u \in Workers : \A m \in MessagesTo(u)' : m \in MessagesTo(u) \/ m = msg
        /\ \A u \in Workers : MessagesTo(u) \subseteq MessagesTo(u)'
    BY <1>4, <1>7, Sends, WhoIsWho
  <2> QED BY <1>5, <2>1, <2>2, <2>4, <2>5 DEF NewMail
<1>8. \/ home = w /\ UNCHANGED wireVars /\ <<0, leaf>> \in seen'[w]
      \/ home # w /\ Send(w, inbox, home, msg)
  BY <1>1, <1>10 DEF Process, Fresh, See
<1> QED BY <1>5, <1>6, <1>7, <1>8

LEMMA TakeMail ==
  ASSUME IInv, TInv, Calm, NEW w \in Workers, HandleNode(w) \/ HandleLeaf(w) \/ HandleOther(w) \/ Await(w)
  PROVE  MailGoes
<1>1. UNCHANGED <<mine, out>> /\ inbox' = Taken(w) /\ inbox[w] # <<>>
  BY SomethingPolled DEF HandleNode, HandleLeaf, HandleOther, Await, Handling
<1>2. Used(w, Msg(w))
  <2>1. CASE HandleNode(w) \/ HandleOther(w)
    BY <2>1 DEF HandleNode, HandleOther, Handling, Used
  <2>2. CASE HandleLeaf(w)
    <3>1. PICK nd : nd = Msg(w).node
      OBVIOUS
    <3>2. nd \in seen'[w] /\ Msg(w).tag = "leaf" /\ w \in DOMAIN seen
      BY <2>2, <3>1 DEF HandleLeaf, Handling, Fresh, See, IInv, TypeOK
    <3> QED BY <3>1, <3>2 DEF Used
  <2>3. CASE Await(w)
    <3>1. ~Valuable(Msg(w))
      BY <2>3, AwaitLosesNothing DEF TInv
    <3> QED BY <3>1 DEF Used, Valuable
  <2> QED BY <2>1, <2>2, <2>3
<1>3. \A u \in Workers : \A m \in MessagesTo(u) : m \in MessagesTo(u)' \/ Used(u, m)
  BY <1>1, <1>2, TakenMail, WhoIsWho
<1> QED BY <1>1, <1>3, TakenMail, LeavesStay, WhoIsWho

LEMMA GiveMail ==
  ASSUME IInv, TInv, Calm, NEW w \in Workers, HandleStealReq(w)
  PROVE  MailGoes
<1>0. PICK m0 : m0 = Msg(w)
  OBVIOUS
<1> DEFINE thief == m0.thief
<1>1. m0.tag = "steal_req" /\ polled[w] > 0 /\ m0 \in MessagesTo(w) /\ phase[w] # "await"
  BY <1>0, SomethingPolled DEF HandleStealReq, Handling, TInv, AwaitIdle
<1>2. thief \in Workers /\ thief # w /\ opt.steal /\ Told(w)
  BY <1>1 DEF TInv, Thieves, NoThieves, Told
<1>3. Reaches => thief \in Outbox[w]
  BY <1>2, OutboxOf DEF Reaches
<1>4. mine[w] \in Seq(Leaves) /\ mine \in [Workers -> Seq(Leaves)]
  BY DEF IInv, TypeOK
<1>5. ASSUME NEW leaves, Send(w, Taken(w), thief, StealResp(leaves)), ToSet(leaves) \subseteq ToSet(mine[w])
      PROVE  /\ \A u \in Workers : \A m \in MessagesTo(u)' : m \in MessagesTo(u) \/ NewMail(u, m)
             /\ \A u \in Workers : \A m \in MessagesTo(u) : m \in MessagesTo(u)' \/ Used(u, m)
             /\ Reaches => \A leaf \in ToSet(leaves) : leaf \in Granted(thief)'
  <2> DEFINE msg == StealResp(leaves)
  <2>1. msg.tag = "steal_resp" /\ msg.leaves = leaves
    BY DEF StealResp
  <2>2. Send(w, Taken(w), thief, msg)
    BY <1>5
  <2> HIDE DEF msg, thief
  <2>3. /\ \A u \in Workers : \A m \in MessagesTo(u)' : m \in MessagesTo(u) \/ m = msg
        /\ \A u \in Workers : \A m \in MessagesTo(u) : m \in MessagesTo(u)' \/ m = m0
        /\ thief \in Outbox[w] => msg \in MessagesTo(thief)'
    BY <1>0, <1>1, <1>2, <2>2, Answers, WhoIsWho
  <2>4. Reaches => \A leaf \in ToSet(leaves) : leaf \in Granted(thief)'
    BY <1>3, <2>1, <2>3, GrantedMemberNext
  <2> QED BY <1>1, <1>2, <1>5, <2>1, <2>3, <2>4 DEF NewMail, Used
<1>6. CASE UNCHANGED mine /\ Send(w, Taken(w), thief, StealResp(<<>>))
  <2>1. ToSet(<<>>) \subseteq ToSet(mine[w])
    BY ElementsOfEmpty
  <2> QED BY <1>5, <1>6, <2>1, LeavesStay
<1>7. CASE /\ Len(mine[w]) > 1 /\ Send(w, Taken(w), thief, StealResp(<<FarEnd(mine[w])>>))
           /\ mine' = [mine EXCEPT ![w] = AllButFarEnd(@)]
  <2>1. PICK given : given = FarEnd(mine[w])
    OBVIOUS
  <2>2. ToSet(<<given>>) = {given}
    <3>1. DOMAIN <<given>> = {1} /\ <<given>>[1] = given
      OBVIOUS
    <3> QED BY <3>1 DEF ToSet
  <2>3. /\ given \in ToSet(mine[w])
        /\ \A u \in Workers : /\ ToSet(mine'[u]) \subseteq ToSet(mine[u])
                              /\ \A x \in ToSet(mine[u]) : x \in ToSet(mine'[u]) \/ (u = w /\ x = given)
    BY <1>4, <1>7, <2>1, ElementsOfGiven
  <2>4. /\ \A u \in Workers : \A m \in MessagesTo(u)' : m \in MessagesTo(u) \/ NewMail(u, m)
        /\ \A u \in Workers : \A m \in MessagesTo(u) : m \in MessagesTo(u)' \/ Used(u, m)
        /\ Reaches => given \in Granted(thief)'
    BY <1>5, <1>7, <2>1, <2>2, <2>3
  <2> HIDE DEF thief
  <2>5. Reaches => \A u \in Workers : \A x \in ToSet(mine[u]) : Kept(u, x)
    BY <1>2, <2>3, <2>4 DEF Kept
  <2> QED BY <2>3, <2>4, <2>5 DEF MailGoes
<1> QED BY <1>0, <1>6, <1>7 DEF HandleStealReq, MayGive

LEMMA ReceiveMail ==
  ASSUME IInv, TInv, Calm, NEW w \in Workers, HandleStealResp(w)
  PROVE  MailGoes
<1>0. PICK m0 : m0 = Msg(w)
  OBVIOUS
<1>1. /\ m0.tag = "steal_resp" /\ polled[w] > 0 /\ m0 \in MessagesTo(w) /\ m0 \in Mail[w] /\ inbox[w] # <<>>
      /\ inbox' = Taken(w) /\ UNCHANGED out
  BY <1>0, SomethingPolled DEF HandleStealResp, Handling
<1>2. m0.leaves \in Seq(Leaves) /\ mine[w] \in Seq(Leaves) /\ mine \in [Workers -> Seq(Leaves)]
  BY <1>1, MailByTag DEF IInv, TypeOK
<1>3. ToSet(mine[w] \o m0.leaves) = ToSet(mine[w]) \cup ToSet(m0.leaves)
  BY <1>2, ElementsOfConcat
<1>4. /\ ToSet(mine'[w]) = ToSet(mine[w]) \cup ToSet(m0.leaves)
      /\ \A u \in Workers \ {w} : ToSet(mine'[u]) = ToSet(mine[u])
  BY <1>0, <1>2, <1>3 DEF HandleStealResp
<1>5. ToSet(m0.leaves) \subseteq Granted(w) /\ Used(w, m0)
  BY <1>1, <1>4, GrantedMember DEF Used
<1>6. /\ \A u \in Workers : MessagesTo(u)' \subseteq MessagesTo(u)
      /\ \A u \in Workers : \A m \in MessagesTo(u) : m \in MessagesTo(u)' \/ (u = w /\ m = m0)
  BY <1>0, <1>1, TakenMail, WhoIsWho
<1>7. \A u \in Workers : /\ ToSet(mine'[u]) \subseteq ToSet(mine[u]) \cup Granted(u)
                         /\ \A leaf \in ToSet(mine[u]) : Kept(u, leaf)
  BY <1>4, <1>5 DEF Kept
<1> QED BY <1>5, <1>6, <1>7 DEF MailGoes

(* Every step of a calm run accounts for the messages and the leaves.         *)
LEMMA StepMail ==
  ASSUME IInv, TInv, Calm, CalmStep
  PROVE  MailGoes
<1>1. ASSUME NEW w \in Workers, CalmWorker(w) PROVE MailGoes
  BY <1>1, SettleMail, AskMail, ProcessMail, TakeMail, GiveMail, ReceiveMail DEF CalmWorker
<1>2. ASSUME NEW e \in Endpoints, Post(e) \/ PostUnacknowledged(e) PROVE MailGoes
  <2>1. UNCHANGED mine
    BY <1>2 DEF Post, PostUnacknowledged, loopVars
  <2>2. \A u \in Workers : MessagesTo(u)' = MessagesTo(u)
    BY <1>2, DeliverArrives, RequeueKeepsOut, WireOfInv, WhoIsWho DEF Post, PostUnacknowledged
  <2> QED BY <2>1, <2>2, SameMail
<1>3. ASSUME CalmDriver PROVE MailGoes
  <2>1. UNCHANGED mine
    BY <1>3 DEF CalmDriver, GatherHello, SendRegistry, CollectOther, loopVars
  <2>2. CASE SendRegistry
    <3>1. \A u \in Workers : /\ MessagesTo(u) \subseteq MessagesTo(u)'
                             /\ \A m \in MessagesTo(u)' : m \in MessagesTo(u) \/ m = RegistryMsg
      BY <2>2, RegistryArrives, WhoIsWho
    <3> QED BY <2>1, <3>1, LeavesStay DEF NewMail, RegistryMsg
  <2>3. CASE GatherHello \/ CollectOther
    <3>1. Hears("hello") /\ Heard /\ UNCHANGED out
      BY <2>3 DEF GatherHello, CollectOther
    <3>2. \A u \in Workers : MessagesTo(u)' = MessagesTo(u)
      BY <3>1, HeardArrives, WhoIsWho
    <3> QED BY <2>1, <3>2, SameMail
  <2> QED BY <1>3, <2>2, <2>3 DEF CalmDriver
<1>4. ASSUME UNCHANGED vars PROVE MailGoes
  <2>1. UNCHANGED <<mine, wireVars>>
    BY <1>4 DEF vars, loopVars
  <2> QED BY <2>1, SameWire, SameMail, WhoIsWho
<1> QED BY <1>1, <1>2, <1>3, <1>4 DEF CalmStep

-----------------------------------------------------------------------------
(* What the workers are told, and where leaves may be, is invariant.          *)

LEMMA StatusStays ==
  ASSUME IInv, AwaitIdle, CalmStep
  PROVE  UNCHANGED status
<1>1. ASSUME NEW w \in Workers, CalmWorker(w) PROVE UNCHANGED status
  BY <1>1, WorksWhenTold, AwaitTakes
<1>2. ASSUME NEW e \in Endpoints, Post(e) \/ PostUnacknowledged(e) PROVE UNCHANGED status
  BY <1>2, PostDelivers DEF Delivers, loopVars
<1>3. ASSUME CalmDriver PROVE UNCHANGED status
  BY <1>3, DriverSends DEF loopVars
<1> QED BY <1>1, <1>2, <1>3 DEF CalmStep, vars, loopVars

LEMMA MessagesAreMailNext ==
  ASSUME IInv', NEW e \in Endpoints
  PROVE  MessagesTo(e)' \subseteq Mail[e]
<1>1. /\ \A f \in Endpoints : inbox'[f] \in Seq(Mail[f])
      /\ \A f \in Endpoints : out'[f] \in Seq(Posts)
  BY DEF IInv, MailIsTrue
<1>2. ToSet(inbox'[e]) \subseteq Mail[e]
  BY <1>1, LenProperties, ElementOfSeq DEF ToSet
<1>3. ASSUME NEW f \in Endpoints, NEW p \in ToSet(out'[f]), p.to = e PROVE p.msg \in Mail[e]
  <2>1. p \in Posts
    BY <1>1, LenProperties, ElementOfSeq DEF ToSet
  <2> QED BY <1>3, <2>1 DEF Posts
<1>4. Arriving(inbox', out', e) \subseteq Mail[e]
  BY <1>2, <1>3, ArrivingMember
<1> QED BY <1>4, OnTheWayNext

LEMMA NextTold ==
  ASSUME IInv, FInv, TInv, [Next]_vars
  PROVE  TInv'
<1> SUFFICES ASSUME Calm'
             PROVE  (AllRun /\ AwaitIdle /\ InTurn /\ AfterRegistry /\ LeavesAway /\ Thieves /\ NoThieves)'
  BY DEF TInv
<1>1. CalmStep /\ Calm
  BY CalmSteps DEF TInv
<1>2. AllRun /\ AwaitIdle /\ LeavesAway /\ Thieves /\ NoThieves
  BY <1>1 DEF TInv
<1>3. /\ MailGoes /\ UNCHANGED <<opt, status>> /\ AwaitIdle' /\ InTurn' /\ AfterRegistry'
      /\ \A u \in Workers : (phase[u] # "await" => phase'[u] # "await") /\ (Told(u) => Told(u)')
  BY <1>1, <1>2, StepMail, PhasesStay, StatusStays, StaysInTurn
<1>4. \A u \in Workers : /\ \A m \in MessagesTo(u)' : m \in MessagesTo(u) \/ NewMail(u, m)
                         /\ ToSet(mine'[u]) \subseteq ToSet(mine[u]) \cup Granted(u)
  BY <1>3 DEF MailGoes
<1>5. AllRun'
  BY <1>2, <1>3, <1>4 DEF AllRun, NewMail
<1>6. Thieves'
  BY <1>2, <1>3, <1>4 DEF Thieves, NewMail
<1>7. NoThieves'
  <2> SUFFICES ASSUME ~opt.steal, NEW w \in Workers
               PROVE  /\ \A leaf \in ToSet(mine'[w]) : OwnerOf[<<0, leaf>>] = w
                      /\ \A m \in MessagesTo(w)' : m.tag \notin {"steal_req", "steal_resp", "leaf"}
    BY <1>3 DEF NoThieves
  <2>1. /\ \A leaf \in ToSet(mine[w]) : OwnerOf[<<0, leaf>>] = w
        /\ \A m \in MessagesTo(w) : m.tag \notin {"steal_req", "steal_resp", "leaf"}
    BY <1>2 DEF NoThieves
  <2>2. \A leaf : leaf \notin Granted(w)
    BY <2>1, GrantedMember
  <2> QED BY <1>4, <2>1, <2>2 DEF NewMail
<1>8. LeavesAway'
  <2>1. ASSUME NEW w \in Workers, NEW leaf, leaf \in ToSet(mine[w]) \/ leaf \in Granted(w), Told(w)
        PROVE  Told(OwnerOf[<<0, leaf>>])
    BY <1>2, <2>1 DEF LeavesAway
  <2>2. ASSUME NEW w \in Workers, NEW leaf, leaf \in ToSet(mine[w]) \/ leaf \in Granted(w)
        PROVE  OwnerOf[<<0, leaf>>] = w \/ Told(OwnerOf[<<0, leaf>>])
    BY <1>2, <2>2 DEF LeavesAway
  <2>3. ASSUME NEW w \in Workers, NEW leaf, leaf \in Granted(w)', leaf \notin Granted(w)
        PROVE  Told(OwnerOf[<<0, leaf>>])
    <3>1. PICK m \in MessagesTo(w)' : m.tag = "steal_resp" /\ leaf \in ToSet(m.leaves)
      BY <2>3, GrantedMemberNext
    <3>2. m \notin MessagesTo(w)
      BY <2>3, <3>1, GrantedMember
    <3>3. PICK v \in Workers : Told(v) /\ ToSet(m.leaves) \subseteq ToSet(mine[v])
      BY <1>4, <3>1, <3>2 DEF NewMail
    <3> QED BY <2>1, <3>1, <3>3
  <2>4. ASSUME NEW w \in Workers, NEW leaf, leaf \in ToSet(mine'[w]) \/ leaf \in Granted(w)'
        PROVE  OwnerOf[<<0, leaf>>] = w \/ Told(OwnerOf[<<0, leaf>>])
    BY <1>4, <2>2, <2>3, <2>4
  <2>5. ASSUME NEW w \in Workers, NEW leaf, leaf \in ToSet(mine'[w]) \/ leaf \in Granted(w)'
        PROVE  OwnerOf[<<0, leaf>>] \in Workers
    <3>1. leaf \in Leaves
      <4>1. CASE leaf \in ToSet(mine'[w])
        <5>1. mine'[w] \in Seq(Leaves)
          BY NextInv DEF IInv, TypeOK
        <5> QED BY <4>1, <5>1, LenProperties, ElementOfSeq DEF ToSet
      <4>2. CASE leaf \in Granted(w)'
        <5>1. PICK m \in MessagesTo(w)' : m.tag = "steal_resp" /\ leaf \in ToSet(m.leaves)
          BY <4>2, GrantedMemberNext
        <5>2. m \in Mail[w]
          BY <5>1, NextInv, MessagesAreMailNext, WhoIsWho
        <5>3. m.leaves \in Seq(Leaves)
          BY <5>1, <5>2, MailByTag
        <5> QED BY <5>1, <5>3, LenProperties, ElementOfSeq DEF ToSet
      <4> QED BY <2>5, <4>1, <4>2
    <3> QED BY <3>1, LeafNode, OwnerIsWorker
  <2>6. ASSUME NEW w \in Workers, NEW leaf, leaf \in ToSet(mine'[w]) \/ leaf \in Granted(w)'
        PROVE  OwnerOf[<<0, leaf>>] = w \/ Told(OwnerOf[<<0, leaf>>])'
    BY <1>3, <2>4, <2>5, <2>6
  <2> QED BY <2>6 DEF LeavesAway
<1> QED BY <1>3, <1>5, <1>6, <1>7, <1>8

-----------------------------------------------------------------------------
(* Every leaf is in some part, and one that is still to be settled is to be   *)
(* processed or on its way to its owner.                                    *)

Covered == Calm => \A leaf \in Leaves : \E t \in Forest : leaf \in Under(t)
Somewhere ==
  Calm /\ Reaches => \A w \in Workers : \A nd \in Unsettled(w) :
    nd[2] \in Unprocessed \/ \E m \in MessagesTo(w) : m.tag = "leaf" /\ m.node = nd

LInv == TInv /\ Covered /\ Somewhere

(* No step of a calm run takes a leaf out of the forest.                      *)
LeavesRemain == \A t \in Forest : \E s \in Forest' : Under(t) \subseteq Under(s)

LEMMA NoRootForWorkers ==
  ASSUME NEW w \in Workers, NEW m \in Mail[w]
  PROVE  m.tag # "root"
<1>1. Mail[w] = MailOf(w) /\ w # DRIVER
  BY WhoIsWho DEF Mail
<1>2. \/ \E nd \in Nodes : m = NodeMsg(nd, TreeValue[nd])
      \/ \E leaf \in Leaves : m = LeafMsg(leaf, TreeValue[<<0, leaf>>])
      \/ \E thief \in Workers : m = StealReq(thief)
      \/ \E leaves : m = StealResp(leaves)
      \/ m = DoneMsg \/ m = RegistryMsg
  BY <1>1 DEF MailOf
<1>3. /\ \A nd, val : NodeMsg(nd, val).tag # "root" /\ LeafMsg(nd, val).tag # "root"
      /\ \A x : StealReq(x).tag # "root" /\ StealResp(x).tag # "root"
      /\ DoneMsg.tag # "root" /\ RegistryMsg.tag # "root"
  BY DEF NodeMsg, LeafMsg, StealReq, StealResp, DoneMsg, RegistryMsg
<1> QED BY <1>2, <1>3

LEMMA PartGoesOn ==
  ASSUME NEW old, NEW new, Forest' = (Forest \ {old}) \cup {new}, Under(old) \subseteq Under(new)
  PROVE  LeavesRemain
BY DEF LeavesRemain

(* In a calm run nothing of value reaches a worker before the registry.     *)
LEMMA AwaitKeepsForest ==
  ASSUME IInv, FInv, TInv, Calm, NEW w \in Workers, Await(w)
  PROVE  Forest' = Forest
<1>1. /\ ~Valuable(Msg(w)) /\ inbox[w] # <<>> /\ inbox' = Taken(w) /\ UNCHANGED <<out, treeVars, answer>>
  BY AwaitLosesNothing DEF TInv, Await, driverVars
<1>2. Msg(w) \in MessagesTo(w) /\ Msg(w) \in Mail[w]
  BY <1>1, HandledArrives, WireOfInv, HeadTailProperties, WhoIsWho DEF GoodBoxes, Msg
<1>3. Msg(w).tag \notin {"node", "root"}
  BY <1>1, <1>2, NoRootForWorkers DEF Valuable
<1>4. \A e \in Endpoints : Partials(e)' = Partials(e)
  <2> TAKE e \in Endpoints
  <2>1. /\ MessagesTo(e)' \subseteq MessagesTo(e)
        /\ \A m \in MessagesTo(e) : m \in MessagesTo(e)' \/ m = Msg(w)
    BY <1>1, TakenMail
  <2> QED BY <1>3, <2>1, OtherTaken
<1> QED BY <1>1, <1>4, QuietStep

LEMMA StepKeepsLeaves ==
  ASSUME IInv, FInv, TInv, Calm, CalmStep
  PROVE  LeavesRemain
<1>1. Forest' = Forest => LeavesRemain
  BY DEF LeavesRemain
<1>2. \A v, w, i, j, nd : Under(Part(v, i, nd)) = Under(Part(w, j, nd))
  BY PartParts DEF Under
<1>3. ASSUME NEW w \in Workers, CalmWorker(w) PROVE LeavesRemain
  <2>1. CASE SettleRoot(w)
    BY <1>2, <2>1, SettleRootMoves, PartGoesOn
  <2>2. CASE SettleCarry(w)
    <3> DEFINE nd == cur[w].node
    <3>1. /\ Forest' = (Forest \ {Part(w, "hand", nd)}) \cup {Part(w, "hand", Parent(nd))}
          /\ LeavesUnder(N, Parent(nd)) = LeavesUnder(N, nd)
      BY <2>2, SettleCarryMoves
    <3> QED BY <3>1, PartParts, PartGoesOn DEF Under
  <2>3. CASE SettleShip(w)
    <3> DEFINE nd == cur[w].node
    <3>1. Forest' = (Forest \ {Part(w, "hand", nd)}) \cup {Part(OwnerOf[Sibling(nd)], "coming", nd)}
      BY <2>3, SettleShipMoves
    <3> QED BY <1>2, <3>1, PartGoesOn
  <2>4. CASE SettlePark(w)
    <3> DEFINE nd == cur[w].node
    <3>1. Forest' = (Forest \ {Part(w, "hand", nd)}) \cup {Part(w, "parked", nd)}
      BY <2>4, SettleParkMoves
    <3> QED BY <1>2, <3>1, PartGoesOn
  <2>5. CASE CalmCombine(w)
    <3> DEFINE nd == cur[w].node
    <3>1. ~Raised(w)'
      BY <2>5 DEF CalmCombine, Calm, Raised, loopVars
    <3>2. CombinesTo(w, nd)
      BY <2>5, <3>1, SettleCombineMoves DEF CalmCombine
    <3> DEFINE one == Part(w, "hand", nd)
               other == Part(w, "parked", Sibling(nd))
               new == Part(w, "hand", Parent(nd))
    <3>3. Forest' = (Forest \ {one, other}) \cup {new} /\ Under(one) \subseteq Under(new) /\ Under(other) \subseteq Under(new)
      BY <3>2, PartParts DEF CombinesTo, Under
    <3> HIDE DEF one, other, new
    <3> QED BY <3>3 DEF LeavesRemain
  <2>6. ASSUME NEW leaf, LeafSettled(w, leaf) PROVE LeavesRemain
    BY <1>2, <2>6, PartGoesOn DEF LeafSettled
  <2>7. CASE Process(w) \/ HandleLeaf(w)
    BY <1>1, <2>6, <2>7, ProcessMoves, HandleLeafMoves
  <2>8. CASE HandleNode(w)
    <3>1. NodeTaken(w, Msg(w).node) \/ Forest' = Forest
      BY <2>8, HandleNodeMoves
    <3> QED BY <1>1, <1>2, <3>1, PartGoesOn DEF NodeTaken
  <2>9. CASE Poll(w) \/ Recv(w) \/ AskSteal(w) \/ HandleStealReq(w) \/ HandleStealResp(w) \/ HandleOther(w)
    BY <1>1, <2>9, WorkerQuiet
  <2>10. CASE Await(w)
    BY <1>1, <2>10, AwaitKeepsForest
  <2> QED BY <1>3, <2>1, <2>2, <2>3, <2>4, <2>5, <2>7, <2>8, <2>9, <2>10 DEF CalmWorker
<1>4. ASSUME NEW e \in Endpoints, Post(e) \/ PostUnacknowledged(e) PROVE LeavesRemain
  BY <1>1, <1>4, SenderQuiet
<1>5. ASSUME CalmDriver PROVE LeavesRemain
  <2>1. Driver /\ ~(Join \/ Teardown)
    BY <1>5 DEF CalmDriver, Driver, Join, Teardown, GatherHello, SendRegistry, CollectOther
  <2> QED BY <1>1, <2>1, DriverQuiet
<1>6. ASSUME UNCHANGED vars PROVE LeavesRemain
  BY <1>1, <1>6, StutterQuiet
<1> QED BY <1>3, <1>4, <1>5, <1>6 DEF CalmStep

LEMMA SeenStays ==
  ASSUME IInv, CalmStep, NEW w \in Workers
  PROVE  seen[w] \subseteq seen'[w]
<1>1. DOMAIN seen = Workers
  BY DEF IInv, TypeOK
<1>2. ASSUME NEW u \in Workers, CalmWorker(u)
      PROVE  seen' = seen \/ \E nd : seen' = [seen EXCEPT ![u] = @ \cup {nd}]
  BY <1>2 DEF CalmWorker, SettleRoot, SettleCarry, SettleShip, SettlePark, CalmCombine, SettleCombine, Poll, Recv,
     AskSteal, Process, HandleNode, HandleLeaf, HandleStealReq, HandleStealResp, HandleOther, Await, See, treeVars
<1>3. ASSUME NEW e \in Endpoints, Post(e) \/ PostUnacknowledged(e) PROVE seen' = seen
  BY <1>3, PostDelivers DEF Delivers, treeVars
<1>4. ASSUME CalmDriver PROVE seen' = seen
  BY <1>4, DriverSends DEF treeVars
<1>5. seen' = seen \/ \E u \in Workers : \E nd : seen' = [seen EXCEPT ![u] = @ \cup {nd}]
  BY <1>2, <1>3, <1>4 DEF CalmStep, vars, treeVars
<1> QED BY <1>1, <1>5

LEMMA NextLoss ==
  ASSUME IInv, FInv, LInv, [Next]_vars
  PROVE  LInv'
<1>1. TInv'
  BY NextTold DEF LInv
<1>2. ASSUME Calm' PROVE CalmStep /\ Calm
  BY <1>2, CalmSteps DEF LInv, TInv
<1>3. Covered'
  <2> SUFFICES ASSUME Calm', NEW leaf \in Leaves PROVE \E t \in Forest' : leaf \in Under(t)
    BY DEF Covered, Under
  <2>1. LeavesRemain
    BY <1>2, StepKeepsLeaves DEF LInv
  <2>2. PICK t \in Forest : leaf \in Under(t)
    BY <1>2 DEF LInv, Covered
  <2> QED BY <2>1, <2>2 DEF LeavesRemain
<1>4. Somewhere'
  <2> SUFFICES ASSUME Calm', Reaches', NEW w \in Workers, NEW nd \in Unsettled(w)'
               PROVE  nd[2] \in Unprocessed' \/ \E m \in MessagesTo(w)' : m.tag = "leaf" /\ m.node = nd
    BY DEF Somewhere
  <2>1. CalmStep /\ Calm /\ IInv' /\ MailGoes /\ seen[w] \subseteq seen'[w]
    BY <1>2, SeenStays, StepMail, NextInv DEF LInv
  <2>2. Reaches
    BY <2>1, PhasesStay DEF LInv, TInv, Reaches
  <2>3. PICK leaf \in Leaves : nd = <<0, leaf>> /\ OwnerOf[<<0, leaf>>] = w /\ nd[2] = leaf
    BY DEF Unsettled
  <2>4. nd \notin seen'[w] /\ nd \in Unsettled(w)
    BY <2>1 DEF Unsettled
  <2>5. ASSUME NEW v \in Workers, leaf \in ToSet(mine'[v]) \/ leaf \in Granted(v)' PROVE leaf \in Unprocessed'
    BY <2>5 DEF Unprocessed
  <2>6. CASE leaf \in Unprocessed
    <3>1. PICK v \in Workers : leaf \in ToSet(mine[v]) \/ leaf \in Granted(v)
      BY <2>6 DEF Unprocessed
    <3>2. CASE leaf \in ToSet(mine[v])
      <4>1. Kept(v, leaf)
        BY <2>1, <2>2, <3>2 DEF MailGoes
      <4> QED BY <2>3, <2>4, <2>5, <4>1 DEF Kept
    <3>3. CASE leaf \in Granted(v)
      <4>1. PICK m \in MessagesTo(v) : m.tag = "steal_resp" /\ leaf \in ToSet(m.leaves)
        BY <3>3, GrantedMember
      <4>2. CASE m \in MessagesTo(v)'
        BY <2>3, <2>5, <4>1, <4>2, GrantedMemberNext
      <4>3. CASE Used(v, m)
        BY <2>3, <2>5, <4>1, <4>3 DEF Used
      <4> QED BY <2>1, <4>2, <4>3 DEF MailGoes
    <3> QED BY <3>1, <3>2, <3>3
  <2>7. CASE \E m \in MessagesTo(w) : m.tag = "leaf" /\ m.node = nd
    <3>1. PICK m \in MessagesTo(w) : m.tag = "leaf" /\ m.node = nd
      BY <2>7
    <3>2. m \in MessagesTo(w)' \/ Used(w, m)
      BY <2>1 DEF MailGoes
    <3> QED BY <2>4, <3>1, <3>2 DEF Used
  <2> QED BY <2>1, <2>2, <2>3, <2>4, <2>6, <2>7 DEF LInv, Somewhere
<1> QED BY <1>1, <1>3, <1>4 DEF LInv

-----------------------------------------------------------------------------
(* How the actors start.                                                    *)

LEMMA InitMail ==
  ASSUME Init
  PROVE  /\ \A e \in Endpoints : \A m \in MessagesTo(e) : m.tag = "hello"
         /\ \A e \in Endpoints : \A p \in ToSet(out[e]) : p.msg.tag = "hello"
<1>1. \A e \in Endpoints : \A p \in ToSet(out[e]) : p.msg.tag = "hello"
  <2> TAKE e \in Endpoints
  <2>1. CASE out[e] = <<>>
    BY <2>1, ElementsOfEmpty
  <2>2. CASE out[e] = <<[to |-> DRIVER, msg |-> HelloMsg(e)]>>
    <3>1. ToSet(out[e]) = {[to |-> DRIVER, msg |-> HelloMsg(e)]}
      BY <2>2 DEF ToSet
    <3> QED BY <3>1 DEF HelloMsg
  <2> QED BY <2>1, <2>2 DEF Init
<1>2. ASSUME NEW e \in Endpoints, NEW m, m \in Arriving(inbox, out, e) PROVE m.tag = "hello"
  <2>1. ToSet(inbox[e]) = {}
    BY ElementsOfEmpty DEF Init
  <2> QED BY <1>1, <1>2, <2>1, ArrivingMember
<1> QED BY <1>1, <1>2, OnTheWay

LEMMA InitLoss ==
  ASSUME IInv, Init
  PROVE  LInv
<1>1. \A e \in Endpoints : /\ \A m \in MessagesTo(e) : m.tag = "hello"
                           /\ \A p \in ToSet(out[e]) : p.msg.tag = "hello"
  BY InitMail
<1>2. \A w \in Workers : \A leaf : leaf \notin Granted(w)
  BY <1>1, GrantedMember, WhoIsWho
<1>3. \A w \in Workers : ToSet(mine[w]) \subseteq Leaves
  BY LenProperties, ElementOfSeq DEF IInv, TypeOK, ToSet
<1>4. AllRun /\ AwaitIdle
  BY <1>1, WhoIsWho DEF AllRun, AwaitIdle, Init
<1>5. InTurn
  <2>1. \A w \in Workers : Handshake => ~Told(w)
    BY WhoIsWho, ElementsOfEmpty DEF Init, Told
  <2>2. Handshake => out[DRIVER] = <<>> /\ driver = "handshake"
    BY WhoIsWho DEF Init
  <2>3. \A w \in Workers : \A p \in ToSet(out[w]) : p.msg.tag # "registry"
    BY <1>1, WhoIsWho
  <2> QED BY <2>1, <2>2, <2>3 DEF InTurn
<1>6. AfterRegistry
  <2>1. \A w \in Workers : inbox[w] = <<>>
    BY WhoIsWho DEF Init
  <2>2. 1 .. Len(<<>>) = {}
    OBVIOUS
  <2> QED BY <1>1, <2>1, <2>2 DEF AfterRegistry, Valuable
<1>7. LeavesAway /\ Thieves /\ NoThieves
  BY <1>1, <1>2, <1>3, InitLeaves, WhoIsWho DEF LeavesAway, Thieves, NoThieves
<1>8. Covered
  <2> SUFFICES ASSUME NEW leaf \in Leaves PROVE \E t \in Forest : leaf \in Under(t)
    BY DEF Covered
  <2> DEFINE nd == <<0, leaf>>
             t == Part(OwnerOf[nd], "unsettled", nd)
  <2>1. nd \in Nodes /\ OwnerOf[nd] \in Workers
    BY LeafNode, OwnerIsWorker
  <2>2. nd \in Unsettled(OwnerOf[nd])
    BY <2>1 DEF Unsettled, Init
  <2>3. t \in Forest
    BY <2>1, <2>2, PartInForest, HereIs DEF Hows
  <2>4. leaf \in Under(t)
    BY LeafCovers, PartParts DEF Under
  <2> QED BY <2>3, <2>4
<1>9. Somewhere
  <2>1. ASSUME NEW w \in Workers, NEW nd \in Unsettled(w) PROVE nd[2] \in Unprocessed
    <3>1. PICK leaf \in Leaves : nd = <<0, leaf>> /\ OwnerOf[<<0, leaf>>] = w
      BY DEF Unsettled
    <3>2. leaf \in ToSet(mine[w])
      BY <3>1, InitLeaves
    <3> QED BY <3>1, <3>2 DEF Unprocessed
  <2> QED BY <2>1 DEF Somewhere
<1> QED BY <1>4, <1>5, <1>6, <1>7, <1>8, <1>9 DEF LInv, TInv

-----------------------------------------------------------------------------
LEMMA HeldIsToken ==
  ASSUME NEW w \in Workers
  PROVE  /\ \A nd \in DOMAIN present[w] \cup InHand(w) : [at |-> w, sent |-> FALSE, node |-> nd] \in Tokens
         /\ \A nd \in Coming(w, "node") : [at |-> w, sent |-> TRUE, node |-> nd] \in Tokens
<1> DEFINE TokensOf(u) ==
      {[at |-> u, sent |-> FALSE, node |-> nd] : nd \in DOMAIN present[u] \cup InHand(u)}
        \cup {[at |-> u, sent |-> TRUE, node |-> nd] : nd \in Coming(u, "node")}
<1>1. TokensOf(w) \subseteq Tokens
  <2>1. Tokens = UNION {TokensOf(u) : u \in Workers}
    BY DEF Tokens
  <2> HIDE DEF TokensOf
  <2> QED BY <2>1
<1>2. \A nd \in DOMAIN present[w] \cup InHand(w) : [at |-> w, sent |-> FALSE, node |-> nd] \in TokensOf(w)
  OBVIOUS
<1>3. \A nd \in Coming(w, "node") : [at |-> w, sent |-> TRUE, node |-> nd] \in TokensOf(w)
  OBVIOUS
<1> QED BY <1>1, <1>2, <1>3

LEMMA PartIsToken ==
  ASSUME NEW w \in Workers, NEW nd, NEW how \in {"hand", "parked", "coming"}, nd \in Here(w, how)
  PROVE  \E t \in Tokens : t.node = nd
<1> DEFINE held == [at |-> w, sent |-> FALSE, node |-> nd]
           sent == [at |-> w, sent |-> TRUE, node |-> nd]
<1>1. held.node = nd /\ sent.node = nd
  OBVIOUS
<1> HIDE DEF held, sent
<1>2. held \in Tokens \/ sent \in Tokens
  BY HereIs, HeldIsToken DEF held, sent
<1> QED BY <1>1, <1>2

LEMMA NoneIsLost ==
  ASSUME IInv, FInv, LInv, Reaches
  PROVE  NothingLost
<1> SUFFICES ASSUME Calm, ~RootFormed, NEW leaf \in Leaves
             PROVE  leaf \in Unprocessed \cup Returning \cup Settled
  BY DEF NothingLost, Calm
<1>1. PICK t \in Forest : leaf \in LeavesUnder(N, t.node)
  BY DEF LInv, Covered, Under
<1>2. t.at \in Workers /\ t.how \in Hows /\ t.node \in Here(t.at, t.how)
  BY ForestParts
<1>3. CASE t.how = "root"
  BY <1>2, <1>3, HereIs
<1>4. CASE t.how = "unsettled"
  <2>1. t.node \in Unsettled(t.at)
    BY <1>2, <1>4, HereIs
  <2>2. PICK l \in Leaves : t.node = <<0, l>>
    BY <2>1 DEF Unsettled
  <2>3. l = leaf /\ t.node = <<0, leaf>> /\ t.node[2] = leaf /\ t.node \notin seen[t.at]
    BY <1>1, <2>1, <2>2, LeafCovers DEF Unsettled
  <2>4. CASE leaf \in Unprocessed
    BY <2>4
  <2>5. CASE \E m \in MessagesTo(t.at) : m.tag = "leaf" /\ m.node = t.node
    <3>1. t.node \in Coming(t.at, "leaf")
      BY <2>3, <2>5, ComingMember
    <3> QED BY <1>2, <2>3, <3>1 DEF Returning
  <2> QED BY <1>2, <2>1, <2>3, <2>4, <2>5 DEF LInv, Somewhere
<1>5. CASE t.how \in {"hand", "parked", "coming"}
  BY <1>1, <1>2, <1>5, PartIsToken DEF Settled
<1> QED BY <1>2, <1>3, <1>4, <1>5 DEF Hows

(* The inductive invariant: a leaf that is not settled yet is to be processed *)
(* or on its way home, and what is of value is sent only to workers that      *)
(* have the registry.                                                       *)
THEOREM LossInvariant == Spec => [](IInv /\ FInv /\ LInv)
<1>1. Init => IInv /\ FInv /\ LInv
  BY InitInv, InitForest, InitLoss
<1>2. IInv /\ FInv /\ LInv /\ [Next]_vars => (IInv /\ FInv /\ LInv)'
  BY NextInv, NextForest, NextLoss
<1> QED BY <1>1, <1>2, PTL DEF Spec

(* No partial is lost: while the driver waits and nobody has failed, every     *)
(* leaf is still to be processed, or on its way back to its owner, or part of *)
(* a partial some worker holds or is about to receive, or in the root - unless *)
(* the pool is pinned and steals (settle, handle, handle_steal_req: a thief of *)
(* a pinned pool may not reach the owner of what it took).                    *)
THEOREM NoLeafLost == Spec => [](Reaches => NothingLost)
<1>1. IInv /\ FInv /\ LInv => (Reaches => NothingLost)
  BY NoneIsLost
<1> QED BY <1>1, LossInvariant, PTL

-----------------------------------------------------------------------------
(* What is formed, by the parts of the forest that are settled.              *)

Above(parts) == {t \in parts : t.how # "unsettled"}
Grown == Above(Forest)
FormedBy(parts) == {block \in Blocks(N, Depth) : \E t \in parts : block \subseteq Under(t)}

(* The top of a run whose root is formed is the root.                        *)
LEMMA RootIsGrown ==
  ASSUME IInv, FInv, RootFormed
  PROVE  Grown = {Part(0, "root", Root)}
<1> DEFINE top == Part(0, "root", Root)
<1>1. top \in Forest /\ top.how = "root" /\ Under(top) = Leaves
  <2>1. 0 \in Workers
    BY SizeAssumption DEF Workers
  <2>2. Root \in Here(0, "root") /\ "root" \in Hows
    BY HereIs DEF Hows
  <2> QED BY <2>1, <2>2, RootCovers, PartInForest, PartParts DEF Under
<1> HIDE DEF top
<1>2. ASSUME NEW t \in Forest PROVE t = top
  <2>1. Under(t) # {} /\ Under(t) \subseteq Leaves
    BY ForestParts, NodeCovers DEF Under
  <2> QED BY <1>1, <2>1 DEF FInv, OnceEach
<1> QED BY <1>1, <1>2 DEF Grown, Above, top

LEMMA FormedIsGrown == IInv /\ FInv => Formed = FormedBy(Grown)
<1> SUFFICES ASSUME IInv, FInv PROVE Formed = FormedBy(Grown)
  OBVIOUS
<1>1. Tops = {Under(t) : t \in Grown}
  <2>1. CASE RootFormed
    <3>1. Under(Part(0, "root", Root)) = Leaves
      BY RootCovers, PartParts DEF Under
    <3> QED BY <2>1, <3>1, RootIsGrown DEF Tops
  <2>2. CASE ~RootFormed
    <3>1. ASSUME NEW t \in Tokens PROVE LeavesUnder(N, t.node) \in {Under(s) : s \in Grown}
      <4>1. PICK how \in {"coming", "hand", "parked"} : Part(t.at, how, t.node) \in Forest
        BY TokensAreParts
      <4>2. Part(t.at, how, t.node) \in Grown /\ Under(Part(t.at, how, t.node)) = LeavesUnder(N, t.node)
        BY <4>1, PartParts DEF Grown, Above, Under
      <4> QED BY <4>2
    <3>2. ASSUME NEW s \in Grown PROVE \E t \in Tokens : LeavesUnder(N, t.node) = Under(s)
      <4>1. s.at \in Workers /\ s.how \in Hows /\ s.node \in Here(s.at, s.how) /\ s.how # "unsettled"
        BY ForestParts DEF Grown, Above
      <4>2. s.how # "root"
        BY <2>2, <4>1, HereIs
      <4>3. \E t \in Tokens : t.node = s.node
        BY <4>1, <4>2, PartIsToken DEF Hows
      <4> QED BY <4>3 DEF Under
    <3>3. Tops = {LeavesUnder(N, t.node) : t \in Tokens}
      BY <2>2 DEF Tops
    <3> QED BY <3>1, <3>2, <3>3
  <2> QED BY <2>1, <2>2
<1> QED BY <1>1 DEF Formed, FormedBy

LEMMA FormedIsGrownNext == (IInv /\ FInv => Formed = FormedBy(Grown))'
BY FormedIsGrown, PTL

-----------------------------------------------------------------------------
(* What is formed when the forest changes, for any two sets of parts.        *)

(* Fewer parts, less formed.                                                *)
LEMMA FormLess ==
  ASSUME NEW before, NEW after, after \subseteq before
  PROVE  FormedBy(Above(after)) \subseteq FormedBy(Above(before))
BY DEF FormedBy, Above

(* A settled part that moves, or is carried up, forms nothing.               *)
LEMMA FormMoved ==
  ASSUME NEW before, NEW after, NEW old \in before, NEW new, after = (before \ {old}) \cup {new},
         Under(new) = Under(old), old.how # "unsettled", new.how # "unsettled"
  PROVE  FormedBy(Above(after)) = FormedBy(Above(before))
BY DEF FormedBy, Above

(* A leaf forms its own block,                                              *)
LEMMA FormLeaf ==
  ASSUME NEW before, NEW after, NEW old \in before, NEW new, after = (before \ {old}) \cup {new},
         \E leaf \in Leaves : new.node = <<0, leaf>>, old.how = "unsettled", new.how # "unsettled"
  PROVE  FormedBy(Above(after)) = FormedBy(Above(before)) \cup {Under(new)}
<1>1. PICK leaf \in Leaves : new.node = <<0, leaf>> /\ Under(new) = {leaf}
  BY LeafCovers DEF Under
<1>2. Under(new) \in Blocks(N, Depth)
  BY <1>1, LeafNode, LeafCovers DEF Blocks, Nodes
<1>3. \A block \in Blocks(N, Depth) : block # {}
  BY NodeCovers DEF Blocks, Nodes
<1>4. \A block \in Blocks(N, Depth) : block \subseteq Under(new) <=> block = Under(new)
  BY <1>1, <1>3
<1>5. Above(after) = Above(before) \cup {new}
  BY DEF Above
<1>6. \A grown : \A block \in Blocks(N, Depth) :
        block \in FormedBy(grown \cup {new}) <=> block \in FormedBy(grown) \/ block = Under(new)
  BY <1>4 DEF FormedBy
<1>7. \A grown : FormedBy(grown) \subseteq Blocks(N, Depth)
  BY DEF FormedBy
<1> HIDE DEF Above
<1>8. \A grown : FormedBy(grown \cup {new}) = FormedBy(grown) \cup {Under(new)}
  BY <1>2, <1>6, <1>7
<1> QED BY <1>5, <1>8

(* and a pair its own and no other: a block under the parent is under one of  *)
(* the operands, or covers both.                                            *)
LEMMA BlocksOfPair ==
  ASSUME NEW nd \in Nodes, Sibling(nd) \in Nodes, Parent(nd) \in Nodes,
         LeavesUnder(N, Parent(nd)) = LeavesUnder(N, nd) \cup LeavesUnder(N, Sibling(nd)),
         NEW block \in Blocks(N, Depth), block \subseteq LeavesUnder(N, Parent(nd))
  PROVE  \/ block \subseteq LeavesUnder(N, nd)
         \/ block \subseteq LeavesUnder(N, Sibling(nd))
         \/ block = LeavesUnder(N, Parent(nd))
<1> DEFINE sib == Sibling(nd)
           top == Parent(nd)
           lvl == Lvl(nd)
<1>1. nd = <<lvl, Pos(nd)>> /\ lvl \in Nat /\ sib = <<lvl, Pos(sib)>> /\ top = <<lvl + 1, Pos(top)>>
  BY NodeParts, SizeAssumption DEF Sibling, Parent, Lvl, Pos
<1>2. N \in Nat \ {0}
  BY SizeAssumption
<1>3. PICK x \in Nodes : block = LeavesUnder(N, x) /\ block # {}
  BY NodeCovers DEF Blocks, Nodes
<1>4. x = <<Lvl(x), Pos(x)>> /\ Lvl(x) \in Nat
  BY NodeParts, SizeAssumption
<1>5. LeavesUnder(N, top) = LeavesUnder(N, nd) \cup LeavesUnder(N, sib) /\ block \subseteq LeavesUnder(N, top)
  OBVIOUS
<1>6. BlockUnder(N, x, nd, sib, top)
  <2> HIDE DEF sib, top
  <2> QED BY <1>1, <1>2, <1>3, <1>4, <1>5 DEF BlockUnder
<1>7. UnderOneOf(N, x, nd, sib, top)
  BY <1>6, BlockUnderParent, Zenon
<1> QED BY <1>3, <1>7 DEF UnderOneOf

LEMMA FormPair ==
  ASSUME NEW before, NEW after, NEW one \in before, NEW other \in before, NEW new,
         after = (before \ {one, other}) \cup {new},
         one.how # "unsettled", other.how # "unsettled", new.how # "unsettled",
         NEW nd \in Nodes, one.node = nd, other.node = Sibling(nd), new.node = Parent(nd),
         Sibling(nd) \in Nodes, Parent(nd) \in Nodes,
         LeavesUnder(N, Parent(nd)) = LeavesUnder(N, nd) \cup LeavesUnder(N, Sibling(nd))
  PROVE  /\ Under(one) \in FormedBy(Above(before)) /\ Under(other) \in FormedBy(Above(before))
         /\ Under(new) \in Blocks(N, Depth) /\ Under(new) = Under(one) \cup Under(other)
         /\ FormedBy(Above(after)) = FormedBy(Above(before)) \cup {Under(new)}
<1>1. Under(one) = LeavesUnder(N, nd) /\ Under(other) = LeavesUnder(N, Sibling(nd))
      /\ Under(new) = LeavesUnder(N, Parent(nd))
  BY DEF Under
<1>2. {Under(one), Under(other), Under(new)} \subseteq Blocks(N, Depth)
  BY <1>1 DEF Blocks, Nodes
<1>3. \A block \in Blocks(N, Depth) : block \subseteq Under(new) =>
        block \subseteq Under(one) \/ block \subseteq Under(other) \/ block = Under(new)
  BY <1>1, BlocksOfPair
<1>4. Above(after) = (Above(before) \ {one, other}) \cup {new} /\ one \in Above(before) /\ other \in Above(before)
  BY DEF Above
<1>5. Under(new) = Under(one) \cup Under(other)
  BY <1>1
<1> DEFINE grown == Above(before)
<1> HIDE DEF grown
<1>6. grown = Above(before)
  BY DEF grown
<1>7. ASSUME NEW block \in Blocks(N, Depth)
      PROVE  (\E t \in (grown \ {one, other}) \cup {new} : block \subseteq Under(t))
               <=> (\E t \in grown : block \subseteq Under(t)) \/ block = Under(new)
  BY <1>3, <1>4, <1>5, <1>6
<1>8. FormedBy((grown \ {one, other}) \cup {new}) = FormedBy(grown) \cup {Under(new)}
  BY <1>2, <1>7 DEF FormedBy
<1>9. Under(one) \in FormedBy(grown) /\ Under(other) \in FormedBy(grown)
  BY <1>2, <1>4, <1>6 DEF FormedBy
<1> QED BY <1>2, <1>4, <1>5, <1>6, <1>8, <1>9
-----------------------------------------------------------------------------
(* How a step of the run changes what is formed.                             *)

LEMMA FormedIs == IInv /\ FInv => Formed = FormedBy(Above(Forest))
BY FormedIsGrown DEF Grown

LEMMA FormedIsNext == (IInv /\ FInv => Formed = FormedBy(Above(Forest)))'
BY FormedIs, PTL

(* A leaf, or a pair after both its operands.                               *)
Forms(block) ==
  /\ block \in Blocks(N, Depth)
  /\ Formed' = Formed \cup {block}
  /\ \/ \E leaf \in Leaves : block = {leaf}
     \/ \E left, right \in Formed : left \cap right = {} /\ left \cup right = block

(* When the forest stays, or one of its settled parts moves.                *)
LEMMA StayForms ==
  ASSUME IInv /\ FInv, (IInv /\ FInv)', Forest' = Forest
  PROVE  Formed' = Formed
<1>1. FormedBy(Above(Forest')) = FormedBy(Above(Forest))
  OBVIOUS
<1> QED BY <1>1, FormedIs, FormedIsNext

LEMMA LessForms ==
  ASSUME IInv /\ FInv, (IInv /\ FInv)', Forest' \subseteq Forest
  PROVE  Formed' \subseteq Formed
<1>1. FormedBy(Above(Forest')) \subseteq FormedBy(Above(Forest))
  BY FormLess
<1> QED BY <1>1, FormedIs, FormedIsNext

LEMMA MoveForms ==
  ASSUME IInv /\ FInv, (IInv /\ FInv)', NEW old \in Forest, NEW new, Forest' = (Forest \ {old}) \cup {new},
         Under(new) = Under(old), old.how # "unsettled", new.how # "unsettled"
  PROVE  Formed' = Formed
<1>1. FormedBy(Above(Forest')) = FormedBy(Above(Forest))
  BY FormMoved
<1> QED BY <1>1, FormedIs, FormedIsNext

LEMMA LeafForms ==
  ASSUME IInv /\ FInv, (IInv /\ FInv)', NEW w \in Workers, NEW leaf \in Leaves, LeafSettled(w, leaf)
  PROVE  Forms({leaf})
<1> DEFINE old == Part(w, "unsettled", <<0, leaf>>)
           new == Part(w, "hand", <<0, leaf>>)
<1>1. old \in Forest /\ Forest' = (Forest \ {old}) \cup {new}
  BY DEF LeafSettled
<1>2. old.how = "unsettled" /\ new.how # "unsettled" /\ new.node = <<0, leaf>>
  BY PartParts
<1> HIDE DEF old, new
<1>3. FormedBy(Above(Forest')) = FormedBy(Above(Forest)) \cup {Under(new)}
  BY <1>1, <1>2, FormLeaf
<1>4. Under(new) = {leaf}
  BY <1>2, LeafCovers DEF Under
<1>5. Under(new) \in Blocks(N, Depth)
  BY <1>4, LeafNode, LeafCovers DEF Blocks, Nodes
<1> QED BY <1>3, <1>4, <1>5, FormedIs, FormedIsNext DEF Forms

LEMMA PairForms ==
  ASSUME IInv /\ FInv, (IInv /\ FInv)', NEW w \in Workers, NEW nd, CombinesTo(w, nd)
  PROVE  Forms(LeavesUnder(N, Parent(nd)))
<1> DEFINE one == Part(w, "hand", nd)
           other == Part(w, "parked", Sibling(nd))
           new == Part(w, "hand", Parent(nd))
<1>1. /\ nd \in Nodes /\ Sibling(nd) \in Nodes /\ Parent(nd) \in Nodes
      /\ LeavesUnder(N, Parent(nd)) = LeavesUnder(N, nd) \cup LeavesUnder(N, Sibling(nd))
      /\ one \in Forest /\ other \in Forest /\ Forest' = (Forest \ {one, other}) \cup {new}
  BY DEF CombinesTo
<1>2. /\ one.how = "hand" /\ other.how = "parked" /\ new.how = "hand"
      /\ one.node = nd /\ other.node = Sibling(nd) /\ new.node = Parent(nd)
  BY PartParts
<1> HIDE DEF one, other, new
<1>3. /\ Under(one) \in FormedBy(Above(Forest)) /\ Under(other) \in FormedBy(Above(Forest))
      /\ Under(new) \in Blocks(N, Depth) /\ Under(new) = Under(one) \cup Under(other)
      /\ FormedBy(Above(Forest')) = FormedBy(Above(Forest)) \cup {Under(new)}
  BY <1>1, <1>2, FormPair
<1>4. Under(one) \cap Under(other) = {}
  BY <1>1, <1>2 DEF FInv, OnceEach
<1>5. Under(new) = LeavesUnder(N, Parent(nd))
  BY <1>2 DEF Under
<1>6. Formed = FormedBy(Above(Forest)) /\ Formed' = FormedBy(Above(Forest'))
  BY FormedIs, FormedIsNext
<1>7. \E left, right \in Formed : left \cap right = {} /\ left \cup right = LeavesUnder(N, Parent(nd))
  BY <1>3, <1>4, <1>5, <1>6
<1> QED BY <1>3, <1>5, <1>6, <1>7 DEF Forms

(* Once the root is formed, all is.                                         *)
LEMMA RootForms == RootFormed => Formed = Blocks(N, Depth) /\ Leaves \in Formed
<1> SUFFICES ASSUME RootFormed PROVE Formed = Blocks(N, Depth) /\ Leaves \in Formed
  OBVIOUS
<1>1. Leaves \in Blocks(N, Depth)
  BY RootCovers DEF Blocks, Nodes
<1>2. \A block \in Blocks(N, Depth) : block \subseteq Leaves
  BY NodeCovers DEF Blocks, Nodes
<1> QED BY <1>1, <1>2 DEF Formed, Tops

LEMMA RootFormsNext == (RootFormed => Formed = Blocks(N, Depth) /\ Leaves \in Formed)'
BY RootForms, PTL

-----------------------------------------------------------------------------
(* What the driver has done rests on the root or on an error.                *)
RInv ==
  /\ driver = "join" => answer # None \/ \E w \in Workers : Raised(w)
  /\ driver = "returned" => answer # None
  /\ driver \in {"teardown", "shutdown", "failed"} => opt.late \/ \E w \in Workers : Raised(w)

(* What a run is stays.                                                    *)
LEMMA OptStays ==
  ASSUME [Next]_vars
  PROVE  opt' = opt
BY DEF Next, Worker, Settle, Handle, Await, SettleRoot, SettleCarry, SettleShip, SettlePark, SettleCombine,
   Poll, Recv, AskSteal, ProcessRaises, Process, HandleNode, HandleLeaf, HandleStealReq, HandleStealResp,
   HandleDone, HandleOther, Post, PostUnacknowledged, GiveUp, Driver, GatherHello, SendRegistry,
   HandshakeFails, CollectRoot, CollectOther, SeesError, DeadlinePasses, Join, JoinRaises, Teardown, Shutdown,
   Finished, vars

(* An error is never forgotten.                                             *)
LEMMA RaisedStays ==
  ASSUME IInv, [Next]_vars, NEW w \in Workers, Raised(w)
  PROVE  Raised(w)'
<1>1. DOMAIN status = Workers
  BY DEF IInv, TypeOK
<1>2. ASSUME NEW u \in Workers, Worker(u) PROVE Raised(w)'
  <2>1. status' = status \/ (status[u] = "running" /\ \E how : status' = [status EXCEPT ![u] = how])
    BY <1>2 DEF Worker, Settle, SettleRoot, SettleCarry, SettleShip, SettlePark, SettleCombine, Poll, Recv,
       AskSteal, ProcessRaises, Process, Handle, HandleNode, HandleLeaf, HandleStealReq, HandleStealResp,
       HandleDone, HandleOther, Await, loopVars, Ends, MeetsHere, HasSibling, InTree, Settling, TakeLeaf,
       AtWork, Idle, Handling
  <2> QED BY <1>1, <2>1 DEF Raised
<1>3. ASSUME NEW e \in Endpoints, Post(e) \/ PostUnacknowledged(e) \/ GiveUp(e) PROVE Raised(w)'
  BY <1>3 DEF Post, PostUnacknowledged, GiveUp, loopVars, Raised
<1>4. ASSUME Driver PROVE Raised(w)'
  BY <1>4 DEF Driver, GatherHello, SendRegistry, HandshakeFails, CollectRoot, CollectOther, SeesError,
     DeadlinePasses, Join, JoinRaises, Teardown, Shutdown, loopVars, Raised, Ended
<1>5. ASSUME Finished \/ UNCHANGED vars PROVE Raised(w)'
  BY <1>5 DEF Finished, vars, loopVars, Raised
<1> QED BY <1>2, <1>3, <1>4, <1>5 DEF Next

(* All but the driver leave its state alone, the answer with it.             *)
LEMMA OthersLeaveDriver ==
  /\ \A w \in Workers : Worker(w) => UNCHANGED <<opt, driver, answer, drops>>
  /\ \A e \in Endpoints : Post(e) \/ PostUnacknowledged(e) => UNCHANGED <<opt, driver, answer, drops, status>>
  /\ \A e \in Endpoints : GiveUp(e) => UNCHANGED <<opt, driver, answer, status>> /\ drops' = drops + 1
  /\ Finished \/ UNCHANGED vars => UNCHANGED <<opt, driver, answer, drops, status>>
<1>1. \A w \in Workers : Worker(w) => UNCHANGED <<opt, driver, answer, drops>>
  BY DEF Worker, Settle, SettleRoot, SettleCarry, SettleShip, SettlePark, SettleCombine, Poll, Recv,
     AskSteal, ProcessRaises, Process, Handle, HandleNode, HandleLeaf, HandleStealReq, HandleStealResp,
     HandleDone, HandleOther, Await, faultVars, driverVars
<1>2. \A e \in Endpoints : Post(e) \/ PostUnacknowledged(e) => UNCHANGED <<opt, driver, answer, drops, status>>
  BY DEF Post, PostUnacknowledged, driverVars, loopVars, faultVars
<1>3. \A e \in Endpoints : GiveUp(e) => UNCHANGED <<opt, driver, answer, status>> /\ drops' = drops + 1
  BY DEF GiveUp, driverVars, loopVars
<1>4. Finished \/ UNCHANGED vars => UNCHANGED <<opt, driver, answer, drops, status>>
  BY DEF Finished, vars, driverVars, loopVars, faultVars
<1> QED BY <1>1, <1>2, <1>3, <1>4

LEMMA NextReasons ==
  ASSUME IInv, RInv, [Next]_vars
  PROVE  RInv'
<1>1. opt' = opt /\ \A w \in Workers : Raised(w) => Raised(w)'
  BY OptStays, RaisedStays
<1>2. CASE UNCHANGED <<driver, answer>>
  BY <1>1, <1>2 DEF RInv
<1>3. CASE Driver
  <2>1. CASE CollectRoot
    <3>1. answer' # None /\ driver' = "join"
      BY <2>1, RootTaken, RootCovers, NoneAssumption DEF CollectRoot
    <3> QED BY <3>1 DEF RInv
  <2>2. CASE SeesError \/ JoinRaises
    <3>1. (\E w \in Workers : Raised(w)) /\ driver' \in {"join", "teardown"}
      BY <2>2 DEF SeesError, JoinRaises
    <3> QED BY <1>1, <3>1 DEF RInv
  <2>3. CASE Join
    <3>1. driver = "join" /\ UNCHANGED answer /\ driver' = "returned" /\ ~\E w \in Workers : Raised(w)
      BY <2>3 DEF Join
    <3> QED BY <3>1 DEF RInv
  <2>4. CASE HandshakeFails \/ DeadlinePasses
    <3>1. driver' = "teardown" /\ opt.late
      BY <2>4 DEF HandshakeFails, DeadlinePasses
    <3> QED BY <1>1, <3>1 DEF RInv
  <2>5. CASE Teardown \/ Shutdown
    <3>1. driver \in {"teardown", "shutdown"} /\ driver' \in {"shutdown", "failed"}
      BY <2>5 DEF Teardown, Shutdown, Reraised
    <3> QED BY <1>1, <3>1 DEF RInv
  <2>6. CASE SendRegistry
    <3>1. driver' = "collect"
      BY <2>6 DEF SendRegistry
    <3> QED BY <3>1 DEF RInv
  <2>7. CASE GatherHello \/ CollectOther
    BY <1>2, <2>7 DEF GatherHello, CollectOther, driverVars
  <2> QED BY <1>3, <2>1, <2>2, <2>3, <2>4, <2>5, <2>6, <2>7 DEF Driver
<1> QED BY <1>2, <1>3, OthersLeaveDriver DEF Next

LEMMA InitReasons ==
  ASSUME Init
  PROVE  RInv
BY DEF Init, RInv

-----------------------------------------------------------------------------
(* The steps of Reduction.                                                  *)

Replied == IF driver = "returned" THEN answer ELSE None

LEMMA NothingHappens ==
  ASSUME Formed' = Formed, UNCHANGED <<opt, driver, answer, drops, status>>
  PROVE  UNCHANGED Abstract!vars
BY DEF Abstract!vars, Faulty, Raised

LEMMA BlockForms ==
  ASSUME NEW block, Forms(block), UNCHANGED <<opt, driver, answer, drops, status>>
  PROVE  [Abstract!Next]_(Abstract!vars)
<1>1. CASE block \in Formed
  <2>1. Formed' = Formed
    BY <1>1 DEF Forms
  <2> QED BY <2>1, NothingHappens
<1>2. CASE block \notin Formed
  <2>1. block \in Formed' \ Formed /\ block \in Blocks(N, Depth)
    BY <1>2 DEF Forms
  <2>2. Faulty' = Faulty
    BY DEF Faulty, Raised
  <2>3. Abstract!Form(block)
    BY <2>2 DEF Abstract!Form, Forms
  <2>4. Abstract!Next
    BY <2>1, <2>3, Zenon DEF Abstract!Next
  <2> QED BY <2>4
<1> QED BY <1>1, <1>2

LEMMA FaultyIsBoolean ==
  ASSUME IInv, IInv'
  PROVE  Faulty \in BOOLEAN /\ Faulty' \in BOOLEAN
<1>1. opt.late \in BOOLEAN /\ (opt.late)' \in BOOLEAN
  BY OptionAssumption DEF IInv, TypeOK
<1> QED BY <1>1 DEF Faulty

LEMMA FaultHappens ==
  ASSUME IInv, IInv', Formed' \subseteq Formed, Faulty', Replied' = Replied, (driver = "failed")' = (driver = "failed")
  PROVE  Abstract!Next
<1>1. Faulty' = TRUE
  BY FaultyIsBoolean
<1>2. Abstract!Fault
  BY <1>1 DEF Abstract!Fault, Replied
<1> QED BY <1>2, Zenon DEF Abstract!Next

(* An error that is there stays.                                            *)
LEMMA FaultyStays ==
  ASSUME IInv, [Next]_vars, Faulty
  PROVE  Faulty'
<1>1. opt' = opt /\ drops \in Nat /\ \A w \in Workers : Raised(w) => Raised(w)'
  BY OptStays, RaisedStays DEF IInv, TypeOK
<1>2. CASE opt.late \/ \E w \in Workers : Raised(w)
  BY <1>1, <1>2 DEF Faulty
<1>3. CASE drops > 0
  <2>1. CASE UNCHANGED drops
    BY <1>3, <2>1 DEF Faulty
  <2>2. CASE drops' = drops + 1
    BY <1>1, <1>3, <2>2 DEF Faulty
  <2>3. CASE Driver
    <3>1. UNCHANGED drops
      BY <2>3 DEF Driver, GatherHello, SendRegistry, HandshakeFails, CollectRoot, CollectOther, SeesError,
         DeadlinePasses, Join, JoinRaises, Teardown, Shutdown, faultVars
    <3> QED BY <2>1, <3>1
  <2> QED BY <2>1, <2>2, <2>3, OthersLeaveDriver DEF Next
<1> QED BY <1>2, <1>3 DEF Faulty

(* What is no longer calm has its root, or an error.                        *)
LEMMA CalmOrNot ==
  ASSUME IInv, RInv, ~Calm
  PROVE  Faulty \/ answer # None
<1>1. drops \in Nat /\ driver \in {"handshake", "collect", "join", "teardown", "shutdown", "returned", "failed"}
  BY DEF IInv, TypeOK
<1> QED BY <1>1 DEF Calm, Faulty, RInv

(* The steps of a worker.                                                   *)
LEMMA WorkerRefines ==
  ASSUME IInv, FInv, LInv, RInv, (IInv /\ FInv)', [Next]_vars, NEW w \in Workers, Worker(w)
  PROVE  [Abstract!Next]_(Abstract!vars)
<1>1. UNCHANGED <<opt, driver, answer, drops>> /\ Replied' = Replied
  BY OthersLeaveDriver DEF Replied
<1>2. ASSUME Formed' = Formed, UNCHANGED status PROVE [Abstract!Next]_(Abstract!vars)
  BY <1>1, <1>2, NothingHappens
<1>3. ASSUME Formed' \subseteq Formed, Faulty' PROVE [Abstract!Next]_(Abstract!vars)
  BY <1>1, <1>3, FaultHappens
<1>4. \A v, i, nd : Part(v, i, nd).how = i /\ Under(Part(v, i, nd)) = LeavesUnder(N, nd)
  BY PartParts DEF Under
<1>5. IInv /\ FInv
  OBVIOUS
<1>6. CASE SettleRoot(w) \/ SettleCarry(w) \/ SettleShip(w) \/ SettlePark(w)
  <2>1. UNCHANGED status
    BY <1>6 DEF SettleRoot, SettleCarry, SettleShip, SettlePark, loopVars
  <2>2. ASSUME NEW v \in Workers, NEW i \in Hows \ {"unsettled"}, NEW nd, NEW j \in Hows \ {"unsettled"}, NEW up,
               Part(v, i, nd) \in Forest, LeavesUnder(N, up) = LeavesUnder(N, nd),
               NEW u, Forest' = (Forest \ {Part(v, i, nd)}) \cup {Part(u, j, up)}
        PROVE  Formed' = Formed
    <3> DEFINE old == Part(v, i, nd)
               new == Part(u, j, up)
    <3>1. Under(new) = Under(old) /\ old.how # "unsettled" /\ new.how # "unsettled"
      BY <1>4, <2>2
    <3>2. old \in Forest /\ Forest' = (Forest \ {old}) \cup {new}
      BY <2>2
    <3> HIDE DEF old, new
    <3> QED BY <1>5, <3>1, <3>2, MoveForms
  <2>3. {"hand", "coming", "parked", "root"} \subseteq Hows \ {"unsettled"}
    BY DEF Hows
  <2>4. CASE SettleRoot(w)
    <3>1. /\ w = 0 /\ Part(0, "hand", Root) \in Forest
          /\ Forest' = (Forest \ {Part(0, "hand", Root)}) \cup {Part(0, "root", Root)}
      BY <2>4, SettleRootMoves
    <3> QED BY <1>2, <2>1, <2>2, <2>3, <3>1
  <2>5. CASE SettleCarry(w)
    <3> DEFINE nd == cur[w].node
    <3>1. PICK x : x = nd
      OBVIOUS
    <3>2. /\ LeavesUnder(N, Parent(x)) = LeavesUnder(N, x) /\ Part(w, "hand", x) \in Forest
          /\ Forest' = (Forest \ {Part(w, "hand", x)}) \cup {Part(w, "hand", Parent(x))}
      BY <2>5, <3>1, SettleCarryMoves
    <3> QED BY <1>2, <2>1, <2>2, <2>3, <3>2
  <2>6. CASE SettleShip(w)
    <3>1. PICK x : x = cur[w].node
      OBVIOUS
    <3>2. /\ Part(w, "hand", x) \in Forest
          /\ Forest' = (Forest \ {Part(w, "hand", x)}) \cup {Part(OwnerOf[Sibling(x)], "coming", x)}
      BY <2>6, <3>1, SettleShipMoves
    <3> QED BY <1>2, <2>1, <2>2, <2>3, <3>2
  <2>7. CASE SettlePark(w)
    <3>1. PICK x : x = cur[w].node
      OBVIOUS
    <3>2. /\ Part(w, "hand", x) \in Forest
          /\ Forest' = (Forest \ {Part(w, "hand", x)}) \cup {Part(w, "parked", x)}
      BY <2>7, <3>1, SettleParkMoves
    <3> QED BY <1>2, <2>1, <2>2, <2>3, <3>2
  <2> QED BY <1>6, <2>4, <2>5, <2>6, <2>7
<1>7. CASE SettleCombine(w)
  <2>1. PICK nd : nd = cur[w].node
    OBVIOUS
  <2>2. CombinesTo(w, nd) \/ (Forest' \subseteq Forest /\ Raised(w)')
    BY <1>7, <2>1, SettleCombineMoves
  <2>3. CASE UNCHANGED status
    <3>1. ~Raised(w)'
      BY <1>7, <2>3 DEF SettleCombine, MeetsHere, HasSibling, InTree, Settling, Raised
    <3>2. Forms(LeavesUnder(N, Parent(nd)))
      BY <1>5, <2>2, <3>1, PairForms
    <3> QED BY <1>1, <2>3, <3>2, BlockForms
  <2>4. CASE ~UNCHANGED status
    <3>1. Ends(w, "raised") /\ LeaveSettle(w)
      BY <1>7, <2>4 DEF SettleCombine, loopVars
    <3>2. Raised(w)'
      BY <3>1 DEF Ends, Raised, IInv, TypeOK
    <3>3. InHand(w)' = {}
      BY <3>1, LeaveHand
    <3>4. ~CombinesTo(w, nd)
      <4>1. \A x : Part(w, "hand", x) \notin Forest'
        <5> SUFFICES ASSUME NEW x, Part(w, "hand", x) \in Forest' PROVE FALSE
          OBVIOUS
        <5>1. PICK t : t = Part(w, "hand", x)
          OBVIOUS
        <5>2. t.at = w /\ t.how = "hand" /\ t.node = x
          BY <5>1, PartParts
        <5>3. t.node \in Here(t.at, t.how)'
          BY <5>1, ForestPartsNext
        <5>4. x \in Here(w, "hand")'
          BY <5>2, <5>3
        <5> QED BY <3>3, <5>4 DEF Here
      <4> QED BY <4>1 DEF CombinesTo
    <3>5. Formed' \subseteq Formed
      BY <1>5, <2>2, <3>4, LessForms
    <3> QED BY <1>3, <3>2, <3>5 DEF Faulty
  <2> QED BY <2>3, <2>4
<1>8. CASE Process(w) \/ HandleLeaf(w)
  <2>1. UNCHANGED status
    BY <1>8 DEF Process, HandleLeaf
  <2>2. (\E leaf \in Leaves : LeafSettled(w, leaf)) \/ Forest' = Forest
    BY <1>8, ProcessMoves, HandleLeafMoves
  <2>3. ASSUME NEW leaf \in Leaves, LeafSettled(w, leaf) PROVE [Abstract!Next]_(Abstract!vars)
    BY <1>1, <1>5, <2>1, <2>3, LeafForms, BlockForms
  <2>4. CASE Forest' = Forest
    BY <1>2, <1>5, <2>1, <2>4, StayForms
  <2> QED BY <2>2, <2>3, <2>4
<1>9. CASE HandleNode(w)
  <2>1. UNCHANGED status
    BY <1>9 DEF HandleNode
  <2>2. PICK nd : nd = Msg(w).node
    OBVIOUS
  <2>3. NodeTaken(w, nd) \/ Forest' = Forest
    BY <1>9, <2>2, HandleNodeMoves
  <2>4. CASE NodeTaken(w, nd)
    <3> DEFINE old == Part(w, "coming", nd)
               new == Part(w, "hand", nd)
    <3>1. old \in Forest /\ Forest' = (Forest \ {old}) \cup {new}
      BY <2>4 DEF NodeTaken
    <3>2. Under(new) = Under(old) /\ old.how # "unsettled" /\ new.how # "unsettled"
      BY <1>4
    <3> HIDE DEF old, new
    <3> QED BY <1>2, <1>5, <2>1, <3>1, <3>2, MoveForms
  <2>5. CASE Forest' = Forest
    BY <1>2, <1>5, <2>1, <2>5, StayForms
  <2> QED BY <2>3, <2>4, <2>5
<1>10. CASE Poll(w) \/ Recv(w) \/ AskSteal(w) \/ HandleStealReq(w) \/ HandleStealResp(w) \/ HandleOther(w)
  <2>1. UNCHANGED status
    BY <1>10 DEF Poll, Recv, AskSteal, HandleStealReq, HandleStealResp, HandleOther
  <2>2. Forest' = Forest
    BY <1>10, WorkerQuiet
  <2> QED BY <1>2, <1>5, <2>1, <2>2, StayForms
<1>11. CASE ProcessRaises(w)
  <2>1. Raised(w)'
    BY <1>11 DEF ProcessRaises, Ends, Raised, IInv, TypeOK
  <2>2. Formed' \subseteq Formed
    BY <1>5, <1>11, WorkerLoses, LessForms
  <2> QED BY <1>3, <2>1, <2>2 DEF Faulty
<1>12. CASE HandleDone(w) \/ Await(w)
  <2>1. Formed' \subseteq Formed
    BY <1>5, <1>12, WorkerLoses, LessForms
  <2>2. CASE Faulty
    BY <1>3, <2>1, <2>2, FaultyStays
  <2>3. CASE ~Faulty /\ ~Calm
    <3>1. RootFormed /\ RootFormed'
      BY <1>1, <2>3, CalmOrNot DEF RootFormed
    <3>2. Formed' = Formed
      BY <3>1, RootForms, RootFormsNext
    <3>3. Faulty' = Faulty
      <4>1. ASSUME NEW u \in Workers PROVE ~Raised(u)'
        <5>1. status' = status \/ status' = [status EXCEPT ![w] = "returned"]
          BY <1>12 DEF HandleDone, Await, Ends
        <5>2. DOMAIN status = Workers /\ status[u] # "raised"
          BY <2>3 DEF IInv, TypeOK, Faulty, Raised
        <5> QED BY <5>1, <5>2 DEF Raised
      <4>2. ~Faulty'
        BY <1>1, <2>3, <4>1 DEF Faulty
      <4> QED BY <2>3, <4>2, FaultyIsBoolean
    <3> QED BY <1>1, <3>2, <3>3 DEF Abstract!vars
  <2>4. CASE Calm
    <3>1. ~HandleDone(w)
      <4> SUFFICES ASSUME HandleDone(w) PROVE FALSE
        OBVIOUS
      <4>1. polled[w] > 0 /\ Msg(w).tag = "done"
        BY DEF HandleDone, Handling
      <4>2. Msg(w) \in MessagesTo(w)
        BY <4>1, SomethingPolled
      <4> QED BY <2>4, <4>1, <4>2 DEF LInv, TInv, AllRun
    <3>2. Await(w) /\ UNCHANGED status
      BY <1>12, <3>1 DEF Await
    <3>3. Forest' = Forest
      BY <2>4, <3>2, AwaitKeepsForest DEF LInv
    <3> QED BY <1>2, <1>5, <3>2, <3>3, StayForms
  <2> QED BY <2>2, <2>3, <2>4
<1> QED BY <1>6, <1>7, <1>8, <1>9, <1>10, <1>11, <1>12 DEF Worker, Settle, Handle

(* The steps of the sender threads.                                         *)
LEMMA SenderRefines ==
  ASSUME IInv, FInv, (IInv /\ FInv)', NEW e \in Endpoints, Post(e) \/ PostUnacknowledged(e) \/ GiveUp(e)
  PROVE  [Abstract!Next]_(Abstract!vars)
<1>1. IInv /\ FInv
  OBVIOUS
<1>2. CASE Post(e) \/ PostUnacknowledged(e)
  <2>1. UNCHANGED <<opt, driver, answer, drops, status>> /\ Formed' = Formed
    BY <1>1, <1>2, OthersLeaveDriver, SenderQuiet, StayForms
  <2> QED BY <2>1, NothingHappens
<1>3. CASE GiveUp(e)
  <2>1. UNCHANGED <<opt, driver, answer, status>> /\ drops' = drops + 1 /\ drops \in Nat
    BY <1>3, OthersLeaveDriver DEF IInv, TypeOK
  <2>2. Faulty' /\ Replied' = Replied
    BY <2>1 DEF Faulty, Replied
  <2>3. Formed' \subseteq Formed
    BY <1>1, <1>3, GiveUpLoses, LessForms
  <2> QED BY <1>1, <2>1, <2>2, <2>3, FaultHappens
<1> QED BY <1>2, <1>3

(* The steps of the driver.                                                 *)
LEMMA DriverRefines ==
  ASSUME IInv, FInv, RInv, (IInv /\ FInv)', [Next]_vars, Driver
  PROVE  [Abstract!Next]_(Abstract!vars)
<1>1. IInv /\ FInv /\ opt' = opt /\ \A w \in Workers : Raised(w) => Raised(w)'
  BY OptStays, RaisedStays
<1>2. Formed' \subseteq Formed /\ (~(Join \/ Teardown) => Formed' = Formed)
  BY <1>1, DriverQuiet, ClosingLoses, StayForms, LessForms
<1>3. CASE GatherHello \/ SendRegistry \/ CollectRoot \/ CollectOther
  <2>1. /\ driver \in {"handshake", "collect"} /\ driver' \in {"handshake", "collect", "join"}
        /\ UNCHANGED <<drops, status>>
    BY <1>3 DEF GatherHello, SendRegistry, CollectRoot, CollectOther, faultVars, loopVars, driverVars
  <2>2. Faulty' = Faulty /\ Replied' = Replied /\ (driver = "failed")' = (driver = "failed")
    BY <1>1, <2>1 DEF Faulty, Raised, Replied
  <2>3. ~(Join \/ Teardown)
    BY <2>1, <1>3 DEF GatherHello, SendRegistry, CollectRoot, CollectOther, Join, Teardown
  <2> QED BY <1>2, <2>2, <2>3 DEF Abstract!vars, Replied
<1>4. CASE HandshakeFails \/ DeadlinePasses \/ SeesError \/ JoinRaises \/ Teardown
  <2>1. driver \in {"handshake", "collect", "join", "teardown"} /\ driver' \in {"join", "teardown", "shutdown"}
    BY <1>4 DEF HandshakeFails, DeadlinePasses, SeesError, JoinRaises, Teardown
  <2>2. opt.late \/ \E w \in Workers : Raised(w)
    BY <1>4 DEF HandshakeFails, DeadlinePasses, SeesError, JoinRaises, Teardown, RInv
  <2>3. Faulty'
    BY <1>1, <2>2 DEF Faulty
  <2>4. Replied' = Replied /\ (driver = "failed")' = (driver = "failed")
    BY <2>1 DEF Replied
  <2> QED BY <1>1, <1>2, <2>3, <2>4, FaultHappens
<1>5. CASE Join
  <2>1. driver = "join" /\ driver' = "returned" /\ UNCHANGED <<answer, drops, status>>
        /\ ~\E w \in Workers : Raised(w)
    BY <1>5 DEF Join, faultVars, loopVars
  <2>2. answer = TreeValue[Root] /\ RootFormed /\ RootFormed'
    BY <2>1 DEF RInv, RootFormed, IInv, RootIsTreeValue
  <2>3. Faulty' = Faulty
    BY <1>1, <2>1 DEF Faulty, Raised
  <2>4. Leaves \in Formed /\ Formed' = Formed
    BY <2>2, RootForms, RootFormsNext
  <2>5. Abstract!Reply
    BY <2>1, <2>2, <2>3, <2>4 DEF Abstract!Reply, Abstract!Open
  <2> QED BY <2>5, Zenon DEF Abstract!Next
<1>6. CASE Shutdown
  <2>1. driver = "shutdown" /\ driver' = "failed"
    BY <1>6 DEF Shutdown, Reraised
  <2>2. Faulty /\ Faulty'
    BY <1>1, <2>1 DEF Faulty, RInv
  <2>3. Faulty = TRUE /\ Faulty' = TRUE
    BY <1>1, <2>2, FaultyIsBoolean
  <2>4. Abstract!Fail
    BY <1>2, <2>1, <2>2, <2>3 DEF Abstract!Fail, Abstract!Open
  <2> QED BY <2>4, Zenon DEF Abstract!Next
<1> QED BY <1>3, <1>4, <1>5, <1>6 DEF Driver

LEMMA StepRefines ==
  ASSUME IInv, FInv, LInv, RInv, (IInv /\ FInv)', [Next]_vars
  PROVE  [Abstract!Next]_(Abstract!vars)
<1>1. ASSUME Finished \/ UNCHANGED vars PROVE [Abstract!Next]_(Abstract!vars)
  <2>1. UNCHANGED vars
    BY <1>1 DEF Finished
  <2>2. UNCHANGED <<opt, driver, answer, drops, status>> /\ Formed' = Formed
    BY <1>1, <2>1, OthersLeaveDriver, StutterQuiet, StayForms
  <2> QED BY <2>2, NothingHappens
<1> QED BY <1>1, WorkerRefines, SenderRefines, DriverRefines DEF Next

LEMMA InitRefines ==
  ASSUME Init, IInv, FInv
  PROVE  Abstract!Init
<1>1. answer = None /\ driver \in {"handshake", "collect"}
  BY DEF Init
<1>2. Tokens = {} /\ ~RootFormed
  <2>1. \A w \in Workers : seen[w] = {} /\ DOMAIN present[w] = {} /\ InHand(w) = {}
    BY DEF Init, NothingParked, InHand
  <2>2. \A w \in Workers : Coming(w, "node") = {}
    BY InitMail, WhoIsWho DEF Coming
  <2>3. ~RootFormed
    BY <1>1, InitMail, WhoIsWho DEF RootFormed
  <2> QED BY <2>1, <2>2, <2>3 DEF Tokens
<1>3. Formed = {}
  BY <1>2 DEF Formed, Tops
<1>4. Faulty \in BOOLEAN
  BY OptionAssumption DEF Faulty, IInv, TypeOK
<1> QED BY <1>1, <1>3, <1>4 DEF Abstract!Init

(* A run's driver answers, or fails, for a reason.                          *)
THEOREM ReasonInvariant == Spec => [](IInv /\ FInv /\ LInv /\ RInv)
<1>1. Init => RInv
  BY InitReasons
<1>2. IInv /\ RInv /\ [Next]_vars => RInv'
  BY NextReasons
<1> QED BY <1>1, <1>2, LossInvariant, PTL DEF Spec

(* A peer run implements Reduction: whatever is interleaved, stolen, repeated, *)
(* given up or raised, each step of a worker, a sender thread or the driver    *)
(* forms at most one leaf or pair of the fixed tree, after its operands and    *)
(* never again; what is formed is lost only after a fault, and run() returns   *)
(* the root's value or, after a fault, raises (settle, handle, _collect_peer,  *)
(* _peer_ipc, _peer_http).                                                  *)
THEOREM PeerRunImplementsReduction == Spec => StepsImplementReduction
<1>1. Init => Abstract!Init
  BY InitInv, InitForest, InitRefines
<1>2. (IInv /\ FInv /\ LInv /\ RInv) /\ (IInv /\ FInv /\ LInv /\ RInv)' /\ [Next]_vars
        => [Abstract!Next]_(Abstract!vars)
  BY StepRefines
<1> QED BY <1>1, <1>2, ReasonInvariant, PTL DEF Spec, StepsImplementReduction, Abstract!Spec

-----------------------------------------------------------------------------
(* What the witness counters count.  A counter of worker w stands for a set   *)
(* of nodes of the fixed tree: the boundary nodes it ships, those it takes,   *)
(* and the even nodes of the pairs it joins.                                *)
HandOffs ==
  {nd \in Nodes : ~IsEven(nd) /\ ~IsRootLevel(N, Lvl(nd)) /\ OwnerOf[Sibling(nd)] # OwnerOf[nd]}
EvenNodes == {nd \in Nodes : IsEven(nd) /\ ~IsRootLevel(N, Lvl(nd)) /\ ~Unpaired(N, nd)}
Senses == {"sent", "got", "joined"}
Of(s, w) ==
  CASE s = "sent" -> {nd \in HandOffs : OwnerOf[nd] = w}
    [] s = "got" -> {nd \in HandOffs : OwnerOf[Sibling(nd)] = w}
    [] s = "joined" -> {nd \in EvenNodes : OwnerOf[nd] = w}
Counter(s, w) ==
  CASE s = "sent" -> stats[w].peer_sends
    [] s = "got" -> stats[w].peer_recvs
    [] s = "joined" -> stats[w].n_combines

(* A node is behind its counter when every part that has leaves of it is past *)
(* it: above it in the tree, or away from its owner.                        *)
Past(s, t, nd) ==
  \/ Lvl(t.node) > Lvl(nd)
  \/ t.node = nd /\ t.at # OwnerOf[nd] /\ s # "joined" /\ (s = "got" => t.how # "coming")
Meets(t, nd) == Under(t) \cap LeavesUnder(N, nd) # {}
Done(s, nd) == \A t \in Forest : Meets(t, nd) => Past(s, t, nd)
Counted(s, w) == {nd \in Of(s, w) : Done(s, nd)}

(* As long as no leaf is lost, the counters count the nodes they stand for.   *)
Full == \A leaf \in Leaves : \E t \in Forest : leaf \in Under(t)
WInv == Full => \A w \in Workers : \A s \in Senses : Counter(s, w) = Cardinality(Counted(s, w))

SameCounts ==
  Full' => Full /\ \A w \in Workers : \A s \in Senses : Counted(s, w)' = Counted(s, w)
OneMore(i, v, nd) ==
  Full' =>
    /\ Full /\ nd \in Of(i, v) /\ nd \notin Counted(i, v)
    /\ \A w \in Workers : \A s \in Senses :
         Counted(s, w)' = Counted(s, w) \cup IF s = i /\ w = v THEN {nd} ELSE {}

(* If no leaf is lost then no part is.                                       *)
LEMMA NoPartLost ==
  ASSUME FInv, Forest' \subseteq Forest, Full'
  PROVE  Forest' = Forest
<1> SUFFICES ASSUME NEW t \in Forest PROVE t \in Forest'
  OBVIOUS
<1>1. t.node \in Nodes
  BY ForestParts
<1>2. PICK leaf \in Leaves : leaf \in Under(t)
  BY <1>1, NodeCovers DEF Under
<1>3. PICK s \in Forest' : leaf \in Under(s)
  <2>1. \A x \in Leaves : \E s \in Forest' : x \in Under(s)
    BY DEF Full, Under
  <2> QED BY <2>1
<1>4. s = t
  BY <1>2, <1>3 DEF FInv, OnceEach
<1> QED BY <1>3, <1>4

LEMMA StaysCounted ==
  ASSUME Forest' = Forest
  PROVE  SameCounts
<1>1. Full' => Full
  BY DEF Full, Under
<1>2. \A s, nd : Done(s, nd)' <=> Done(s, nd)
  BY DEF Done, Past, Meets, Under
<1>3. \A s, w : Counted(s, w)' = {nd \in Of(s, w) : Done(s, nd)'}
  BY DEF Counted, Of, HandOffs, EvenNodes
<1> QED BY <1>1, <1>2, <1>3 DEF SameCounts, Counted

LEMMA LosesCounted ==
  ASSUME FInv, Forest' \subseteq Forest
  PROVE  SameCounts
<1>1. CASE Full'
  BY <1>1, NoPartLost, StaysCounted
<1>2. CASE ~Full'
  BY <1>2 DEF SameCounts
<1> QED BY <1>1, <1>2

(* Some parts become one.                                                    *)
LEMMA BecomeFull ==
  ASSUME NEW old \in SUBSET Forest, NEW new, Forest' = (Forest \ old) \cup {new},
         Under(new) = UNION {Under(t) : t \in old}, Full'
  PROVE  Full
<1>1. \A x \in Leaves : \E s \in Forest' : x \in Under(s)
  BY DEF Full, Under
<1> SUFFICES ASSUME NEW leaf \in Leaves PROVE \E t \in Forest : leaf \in Under(t)
  BY DEF Full
<1>2. PICK s \in Forest' : leaf \in Under(s)
  BY <1>1
<1>3. CASE s = new
  BY <1>2, <1>3
<1>4. CASE s # new
  BY <1>2, <1>4
<1> QED BY <1>3, <1>4

LEMMA BecomeSame ==
  ASSUME NEW old \in SUBSET Forest, NEW new, Forest' = (Forest \ old) \cup {new},
         Under(new) = UNION {Under(t) : t \in old}, NEW s, NEW nd,
         \A t \in old : Meets(t, nd) => (Past(s, t, nd) <=> Past(s, new, nd))
  PROVE  Done(s, nd)' <=> Done(s, nd)
<1>1. Done(s, nd)' <=> \A t \in Forest' : Meets(t, nd) => Past(s, t, nd)
  BY DEF Done, Meets, Past, Under
<1>2. Meets(new, nd) <=> \E t \in old : Meets(t, nd)
  BY DEF Meets
<1>3. Done(s, nd) <=> /\ \A t \in Forest \ old : Meets(t, nd) => Past(s, t, nd)
                      /\ \A t \in old : Meets(t, nd) => Past(s, t, nd)
  BY DEF Done
<1> QED BY <1>1, <1>2, <1>3

LEMMA BecomeDone ==
  ASSUME FInv, NEW old \in SUBSET Forest, NEW new, Forest' = (Forest \ old) \cup {new},
         Under(new) = UNION {Under(t) : t \in old}, NEW s, NEW nd, LeavesUnder(N, nd) \subseteq Under(new),
         NEW one \in old, Meets(one, nd), ~Past(s, one, nd), Past(s, new, nd)
  PROVE  ~Done(s, nd) /\ Done(s, nd)'
<1>1. Done(s, nd)' <=> \A t \in Forest' : Meets(t, nd) => Past(s, t, nd)
  BY DEF Done, Meets, Past, Under
<1>2. ~Done(s, nd)
  BY DEF Done
<1>3. ASSUME NEW t \in Forest \ old, Meets(t, nd) PROVE FALSE
  <2>1. PICK leaf \in Under(t) : leaf \in LeavesUnder(N, nd)
    BY <1>3 DEF Meets
  <2>2. PICK o \in old : leaf \in Under(o)
    BY <2>1
  <2>3. o = t
    BY <2>1, <2>2 DEF FInv, OnceEach
  <2> QED BY <2>2, <2>3
<1> QED BY <1>1, <1>2, <1>3

LEMMA OfFacts ==
  ASSUME NEW s \in Senses, NEW w \in Workers, NEW x \in Of(s, w)
  PROVE  /\ x \in Nodes /\ ~IsRootLevel(N, Lvl(x)) /\ ~Unpaired(N, x)
         /\ s = "joined" <=> IsEven(x)
         /\ s # "joined" => OwnerOf[Sibling(x)] # OwnerOf[x]
         /\ s # "got" => OwnerOf[x] = w
         /\ s = "got" => OwnerOf[Sibling(x)] = w
<1>1. CASE s = "sent"
  BY <1>1 DEF Of, HandOffs, Unpaired
<1>2. CASE s = "got"
  BY <1>2 DEF Of, HandOffs, Unpaired
<1>3. CASE s = "joined"
  BY <1>3 DEF Of, EvenNodes
<1> QED BY <1>1, <1>2, <1>3 DEF Senses

LEMMA BecomeCounts ==
  ASSUME NEW old \in SUBSET Forest, NEW new, Forest' = (Forest \ old) \cup {new},
         Under(new) = UNION {Under(t) : t \in old},
         \A s \in Senses : \A w \in Workers : \A nd \in Of(s, w) : \A t \in old :
           Meets(t, nd) => (Past(s, t, nd) <=> Past(s, new, nd))
  PROVE  SameCounts
<1>1. ASSUME NEW s \in Senses, NEW w \in Workers, NEW nd \in Of(s, w)
      PROVE  Done(s, nd)' <=> Done(s, nd)
  BY BecomeSame
<1>2. \A s, w : Counted(s, w)' = {nd \in Of(s, w) : Done(s, nd)'}
  BY DEF Counted, Of, HandOffs, EvenNodes
<1>3. Full' => Full
  BY BecomeFull
<1> QED BY <1>1, <1>2, <1>3 DEF SameCounts, Counted

LEMMA BecomeOneMore ==
  ASSUME FInv, NEW old \in SUBSET Forest, NEW new, Forest' = (Forest \ old) \cup {new},
         Under(new) = UNION {Under(t) : t \in old},
         NEW i \in Senses, NEW v \in Workers, NEW x \in Of(i, v), LeavesUnder(N, x) \subseteq Under(new),
         NEW one \in old, Meets(one, x), ~Past(i, one, x), Past(i, new, x),
         \A s \in Senses : \A w \in Workers : \A nd \in Of(s, w) : \A t \in old :
           Meets(t, nd) /\ ~(s = i /\ nd = x) => (Past(s, t, nd) <=> Past(s, new, nd))
  PROVE  OneMore(i, v, x)
<1>1. ASSUME NEW s \in Senses, NEW w \in Workers, NEW nd \in Of(s, w), ~(s = i /\ nd = x)
      PROVE  Done(s, nd)' <=> Done(s, nd)
  BY <1>1, BecomeSame
<1>2. \A s, w : Counted(s, w)' = {nd \in Of(s, w) : Done(s, nd)'}
  BY DEF Counted, Of, HandOffs, EvenNodes
<1>3. Full' => Full
  BY BecomeFull
<1>4. ~Done(i, x) /\ Done(i, x)'
  BY BecomeDone
<1>5. ASSUME NEW w \in Workers, x \in Of(i, w) PROVE w = v
  BY <1>5, OfFacts
<1>6. ASSUME NEW s \in Senses, NEW w \in Workers
      PROVE  Counted(s, w)' = Counted(s, w) \cup IF s = i /\ w = v THEN {x} ELSE {}
  BY <1>1, <1>2, <1>4, <1>5 DEF Counted
<1>7. x \notin Counted(i, v)
  BY <1>4 DEF Counted
<1> QED BY <1>3, <1>6, <1>7 DEF OneMore

(* A part that stays where it is, or moves to where it counts the same.       *)
LEMMA MoveSame ==
  ASSUME NEW old \in Forest, NEW new, Forest' = (Forest \ {old}) \cup {new},
         new.node = old.node, new.at = old.at, new.how = "coming" <=> old.how = "coming"
  PROVE  SameCounts
<1>1. Under(new) = Under(old)
  BY DEF Under
<1>2. \A s, nd : Past(s, old, nd) <=> Past(s, new, nd)
  BY DEF Past
<1>3. PICK gone \in SUBSET Forest : gone = {old}
  OBVIOUS
<1>4. Under(new) = UNION {Under(t) : t \in gone}
  BY <1>1, <1>3
<1> QED BY <1>2, <1>3, <1>4, BecomeCounts

LEMMA MeetsAtLevel ==
  ASSUME NEW t, t.node \in Nodes, NEW x \in Nodes, Meets(t, x), Lvl(x) = Lvl(t.node)
  PROVE  x = t.node
BY SameNode DEF Meets, Under

LEMMA MeetsOwn ==
  ASSUME NEW t, t.node \in Nodes
  PROVE  Meets(t, t.node) /\ LeavesUnder(N, t.node) = Under(t)
BY NodeCovers DEF Meets, Under

(* The parent of a pair, or of a node carried up, stays with the even child.  *)
LEMMA ParentOwned ==
  ASSUME NEW nd \in Nodes, ~IsRootLevel(N, Lvl(nd))
  PROVE  /\ Parent(nd) \in Nodes /\ Lvl(Parent(nd)) = Lvl(nd) + 1 /\ Lvl(nd) \in Nat
         /\ IsEven(nd) => OwnerOf[Parent(nd)] = OwnerOf[nd]
         /\ ~IsEven(nd) => OwnerOf[Parent(nd)] = OwnerOf[Sibling(nd)]
<1>1. Parent(nd) \in Nodes /\ Lvl(Parent(nd)) = Lvl(nd) + 1 /\ Lvl(nd) \in Nat
  BY ParentInNodes, NodeParts DEF Parent, Lvl
<1>2. OwnerOf[Parent(nd)] = ParentOwner(N, W, nd)
  <2>1. Lvl(nd) \in Nat /\ Pos(nd) \in Nat /\ nd = <<Lvl(nd), Pos(nd)>>
    BY NodeParts
  <2>2. Owner(N, W, Parent(nd)) = ParentOwner(N, W, nd)
    BY <2>1, ParentKeepsOwner, SizeAssumption
  <2> QED BY <1>1, <2>2 DEF OwnerOf
<1>3. CASE IsEven(nd)
  BY <1>1, <1>2, <1>3, NodeParts DEF ParentOwner, OwnerOf, IsEven
<1>4. CASE ~IsEven(nd)
  <2>1. Sibling(nd) \in Nodes
    BY <1>4, SiblingInNodes DEF Unpaired
  <2>2. Sibling(nd) = <<Lvl(nd), Pos(nd) - (Pos(nd) % 2)>>
    BY <1>4, NodeParts DEF Sibling, IsEven
  <2> QED BY <1>1, <1>2, <1>4, <2>1, <2>2 DEF ParentOwner, OwnerOf
<1> QED BY <1>1, <1>3, <1>4

(* An unpaired node carried up: no counter's.                                *)
LEMMA CarryCounts ==
  ASSUME IInv, FInv, NEW w \in Workers, SettleCarry(w)
  PROVE  SameCounts
<1>1. PICK nd \in Nodes : AtHome(w, nd) /\ cur[w].node = nd
  BY HandOfSettling DEF SettleCarry, InTree
<1>2. ~IsRootLevel(N, Lvl(nd)) /\ Unpaired(N, nd) /\ IsEven(nd)
  BY <1>1 DEF SettleCarry, InTree, Unpaired
<1> DEFINE old == Part(w, "hand", nd)
           new == Part(w, "hand", Parent(nd))
<1>3. /\ LeavesUnder(N, Parent(nd)) = LeavesUnder(N, nd) /\ old \in Forest
      /\ Forest' = (Forest \ {old}) \cup {new}
  BY <1>1, SettleCarryMoves
<1>4. OwnerOf[nd] = w /\ OwnerOf[Parent(nd)] = w
  BY <1>1, <1>2, ParentOwned DEF AtHome
<1>5. old.node = nd /\ new.node = Parent(nd) /\ new.at = w /\ old.at = w
  BY PartParts
<1>6. Under(new) = Under(old)
  BY <1>3, <1>5 DEF Under
<1> HIDE DEF old, new
<1>7. ASSUME NEW s \in Senses, NEW v \in Workers, NEW x \in Of(s, v), Meets(old, x)
      PROVE  Past(s, old, x) <=> Past(s, new, x)
  <2>1. x \in Nodes /\ ~Unpaired(N, x) /\ Lvl(x) \in Nat
    BY OfFacts, NodeParts
  <2>2. Lvl(Parent(nd)) = Lvl(nd) + 1 /\ Lvl(nd) \in Nat
    BY <1>2, ParentOwned
  <2>3. Lvl(x) # Lvl(nd)
    BY <1>2, <1>5, <1>7, <2>1, MeetsAtLevel
  <2>4. Lvl(nd) > Lvl(x) <=> Lvl(Parent(nd)) > Lvl(x)
    BY <2>1, <2>2, <2>3
  <2>5. x # nd
    BY <2>3
  <2> QED BY <1>4, <1>5, <2>4, <2>5 DEF Past
<1>8. PICK gone \in SUBSET Forest : gone = {old}
  BY <1>3
<1>9. Under(new) = UNION {Under(t) : t \in gone} /\ Forest' = (Forest \ gone) \cup {new}
  BY <1>3, <1>6, <1>8
<1> QED BY <1>7, <1>8, <1>9, BecomeCounts

(* A boundary node shipped: one more of its owner's.                         *)
LEMMA ShipCounts ==
  ASSUME IInv, FInv, NEW w \in Workers, SettleShip(w)
  PROVE  OneMore("sent", w, cur[w].node)
<1>1. PICK nd \in Nodes : AtHome(w, nd) /\ cur[w].node = nd
  BY HandOfSettling DEF SettleShip, HasSibling, InTree
<1>2. /\ ~IsRootLevel(N, Lvl(nd)) /\ ~IsEven(nd) /\ OwnerOf[Sibling(nd)] # w /\ OwnerOf[nd] = w
  BY <1>1 DEF SettleShip, HasSibling, InTree, PeerOwnsParent, AtHome
<1> DEFINE dest == OwnerOf[Sibling(nd)]
           old == Part(w, "hand", nd)
           new == Part(dest, "coming", nd)
<1>3. old \in Forest /\ Forest' = (Forest \ {old}) \cup {new}
  BY <1>1, SettleShipMoves
<1>4. /\ old.node = nd /\ new.node = nd /\ old.at = w /\ new.at = dest
      /\ old.how = "hand" /\ new.how = "coming"
  BY PartParts
<1>5. Under(new) = Under(old) /\ Under(new) = LeavesUnder(N, nd) /\ Meets(old, nd)
  BY <1>4, MeetsOwn DEF Under
<1>6. nd \in Of("sent", w) /\ "sent" \in Senses
  BY <1>2 DEF Of, HandOffs, Senses
<1> HIDE DEF old, new
<1>7. ~Past("sent", old, nd) /\ Past("sent", new, nd)
  <2>1. Lvl(nd) \in Nat
    BY NodeParts
  <2> QED BY <1>2, <1>4, <2>1 DEF Past
<1>8. ASSUME NEW s \in Senses, NEW v \in Workers, NEW x \in Of(s, v), ~(s = "sent" /\ x = nd)
      PROVE  Past(s, old, x) <=> Past(s, new, x)
  <2>1. CASE x = nd
    <3>1. s = "got"
      BY <1>2, <1>8, <2>1, OfFacts DEF Senses
    <3> QED BY <1>2, <1>4, <2>1, <3>1 DEF Past
  <2>2. CASE x # nd
    BY <1>4, <2>2 DEF Past
  <2> QED BY <2>1, <2>2
<1>9. PICK gone \in SUBSET Forest : gone = {old}
  BY <1>3
<1>10. /\ Under(new) = UNION {Under(t) : t \in gone} /\ Forest' = (Forest \ gone) \cup {new}
       /\ old \in gone /\ LeavesUnder(N, nd) \subseteq Under(new)
       /\ \A s \in Senses : \A v \in Workers : \A x \in Of(s, v) : \A t \in gone :
            Meets(t, x) /\ ~(s = "sent" /\ x = nd) => (Past(s, t, x) <=> Past(s, new, x))
  BY <1>3, <1>5, <1>8, <1>9
<1> QED BY <1>1, <1>5, <1>6, <1>7, <1>10, BecomeOneMore

(* A boundary node taken: one more of the worker's.                          *)
LEMMA TakeCounts ==
  ASSUME IInv, FInv, NEW w \in Workers, NEW nd, NodeTaken(w, nd), Shipped(w, nd),
         ~IsRootLevel(N, Lvl(nd))
  PROVE  OneMore("got", w, nd)
<1> DEFINE old == Part(w, "coming", nd)
           new == Part(w, "hand", nd)
<1>1. old \in Forest /\ Forest' = (Forest \ {old}) \cup {new} /\ nd \in Nodes
  BY DEF NodeTaken
<1>2. ~IsEven(nd) /\ OwnerOf[nd] # w /\ OwnerOf[Sibling(nd)] = w
  BY DEF Shipped
<1>4. /\ old.node = nd /\ new.node = nd /\ old.at = w /\ new.at = w
      /\ old.how = "coming" /\ new.how = "hand"
  BY PartParts
<1>5. Under(new) = Under(old) /\ Under(new) = LeavesUnder(N, nd) /\ Meets(old, nd)
  BY <1>1, <1>4, MeetsOwn DEF Under
<1>6. nd \in Of("got", w) /\ "got" \in Senses
  BY <1>1, <1>2 DEF Of, HandOffs, Senses
<1> HIDE DEF old, new
<1>7. ~Past("got", old, nd) /\ Past("got", new, nd)
  <2>1. Lvl(nd) \in Nat
    BY <1>1, NodeParts
  <2> QED BY <1>2, <1>4, <2>1 DEF Past
<1>8. ASSUME NEW s \in Senses, NEW v \in Workers, NEW x \in Of(s, v), ~(s = "got" /\ x = nd)
      PROVE  Past(s, old, x) <=> Past(s, new, x)
  <2>1. CASE x = nd
    <3>1. s = "sent"
      BY <1>2, <1>8, <2>1, OfFacts DEF Senses
    <3> QED BY <1>2, <1>4, <2>1, <3>1 DEF Past
  <2>2. CASE x # nd
    BY <1>4, <2>2 DEF Past
  <2> QED BY <2>1, <2>2
<1>9. PICK gone \in SUBSET Forest : gone = {old}
  BY <1>1
<1>10. /\ Under(new) = UNION {Under(t) : t \in gone} /\ Forest' = (Forest \ gone) \cup {new}
       /\ old \in gone /\ LeavesUnder(N, nd) \subseteq Under(new)
       /\ \A s \in Senses : \A v \in Workers : \A x \in Of(s, v) : \A t \in gone :
            Meets(t, x) /\ ~(s = "got" /\ x = nd) => (Past(s, t, x) <=> Past(s, new, x))
  BY <1>1, <1>5, <1>8, <1>9
<1> QED BY <1>5, <1>6, <1>7, <1>10, BecomeOneMore

(* A pair combined: one more of the worker's, which owns the even child.      *)
LEMMA JoinCounts ==
  ASSUME IInv, FInv, NEW w \in Workers, NEW nd, CombinesTo(w, nd), ~IsRootLevel(N, Lvl(nd)),
         ~Unpaired(N, nd), AtHome(w, nd), ~PeerOwnsParent(w, nd)
  PROVE  OneMore("joined", w, IF IsEven(nd) THEN nd ELSE Sibling(nd))
<1>1. /\ nd \in Nodes /\ Sibling(nd) \in Nodes /\ Parent(nd) \in Nodes
      /\ LeavesUnder(N, Parent(nd)) = LeavesUnder(N, nd) \cup LeavesUnder(N, Sibling(nd))
      /\ Part(w, "hand", nd) \in Forest /\ Part(w, "parked", Sibling(nd)) \in Forest
      /\ Forest' = (Forest \ {Part(w, "hand", nd), Part(w, "parked", Sibling(nd))})
                     \cup {Part(w, "hand", Parent(nd))}
  BY DEF CombinesTo
<1> DEFINE even == IF IsEven(nd) THEN nd ELSE Sibling(nd)
           odd == IF IsEven(nd) THEN Sibling(nd) ELSE nd
<1>2. PICK lvl \in Nat, pos \in Nat : nd = <<lvl, pos>> /\ Lvl(nd) = lvl /\ pos < LevelSize(N, lvl)
  BY <1>1, NodeParts
<1>3. /\ even \in Nodes /\ IsEven(even) /\ ~Unpaired(N, even) /\ Lvl(even) = lvl
      /\ odd \in Nodes /\ ~IsEven(odd) /\ Sibling(odd) = even /\ Lvl(odd) = lvl
  <2>1. CASE IsEven(nd)
    <3>1. Sibling(nd) = <<lvl, pos + 1>> /\ Sibling(Sibling(nd)) = nd
      BY <1>1, <1>2, <2>1, SiblingOfSibling DEF Sibling, Lvl, Pos, IsEven
    <3>2. (pos + 1) % 2 # 0
      BY <1>2, <2>1 DEF IsEven, Pos
    <3> QED BY <1>1, <1>2, <2>1, <3>1, <3>2 DEF IsEven, Lvl, Pos
  <2>2. CASE ~IsEven(nd)
    <3>1. Sibling(nd) = <<lvl, pos - 1>>
      BY <1>1, <1>2, <2>2 DEF Sibling, Lvl, Pos, IsEven
    <3>2. (pos - 1) % 2 = 0 /\ pos - 1 \in Nat /\ ~(pos - 1 + 1 >= LevelSize(N, lvl))
      <4>1. pos % 2 # 0
        BY <1>2, <2>2 DEF IsEven, Pos
      <4>2. LevelSize(N, lvl) \in Nat
        BY <1>2, LevelHalves, SizeAssumption
      <4> QED BY <1>2, <4>1, <4>2
    <3> QED BY <1>1, <1>2, <2>2, <3>1, <3>2 DEF IsEven, Lvl, Pos, Unpaired
  <2> QED BY <2>1, <2>2
<1>4. OwnerOf[even] = w /\ OwnerOf[Parent(nd)] = w /\ Lvl(Parent(nd)) = lvl + 1
  BY <1>1, <1>2, ParentOwned DEF AtHome, PeerOwnsParent
<1>5. {nd, Sibling(nd)} = {even, odd}
  OBVIOUS
<1> DEFINE one == Part(w, "hand", nd)
           other == Part(w, "parked", Sibling(nd))
           new == Part(w, "hand", Parent(nd))
<1>6. /\ one.node = nd /\ other.node = Sibling(nd) /\ new.node = Parent(nd)
      /\ one.at = w /\ other.at = w /\ new.at = w /\ one.how = "hand" /\ other.how = "parked"
  BY PartParts
<1>7. Under(new) = Under(one) \cup Under(other)
  BY <1>1, <1>6 DEF Under
<1>8. PICK gone \in SUBSET Forest : gone = {one, other}
  BY <1>1
<1>9. Under(new) = UNION {Under(t) : t \in gone} /\ Forest' = (Forest \ gone) \cup {new}
  BY <1>1, <1>7, <1>8
<1>10. PICK first \in gone : first.node = even
  BY <1>5, <1>6, <1>8
<1> HIDE DEF even, odd, one, other, new
<1>11. ASSUME NEW t \in gone
       PROVE  t.node \in {even, odd} /\ t.at = w /\ t.how # "coming" /\ Lvl(t.node) = lvl
  BY <1>3, <1>5, <1>6, <1>8, <1>11
<1>12. even \in Of("joined", w) /\ "joined" \in Senses
  BY <1>2, <1>3, <1>4 DEF Of, EvenNodes, Senses
<1>13. Meets(first, even) /\ LeavesUnder(N, even) \subseteq Under(new)
  <2>1. Meets(first, even) /\ LeavesUnder(N, even) = Under(first)
    BY <1>3, <1>10, MeetsOwn
  <2> QED BY <1>9, <2>1
<1>14. Past("joined", new, even) /\ ~Past("joined", first, even)
  BY <1>3, <1>4, <1>6, <1>10, <1>2 DEF Past
<1>15. ASSUME NEW s \in Senses, NEW v \in Workers, NEW x \in Of(s, v), NEW t \in gone,
              Meets(t, x), ~(s = "joined" /\ x = even)
       PROVE  Past(s, t, x) <=> Past(s, new, x)
  <2>1. x \in Nodes /\ Lvl(x) \in Nat
    BY OfFacts, NodeParts
  <2>2. t.node \in Nodes
    BY <1>3, <1>11
  <2>3. CASE Lvl(x) < lvl
    BY <1>2, <1>4, <1>6, <1>11, <2>1, <2>3 DEF Past
  <2>4. CASE Lvl(x) = lvl
    <3>1. x = t.node
      BY <1>11, <1>15, <2>1, <2>2, <2>4, MeetsAtLevel
    <3>2. x = odd /\ s # "joined"
      <4>1. x \in {even, odd}
        BY <1>11, <3>1
      <4>2. s = "joined" <=> IsEven(x)
        BY OfFacts
      <4> QED BY <1>3, <1>15, <4>1, <4>2
    <3>3. OwnerOf[x] # w
      BY <1>3, <1>4, <3>2, OfFacts
    <3>4. Past(s, t, x)
      BY <1>11, <3>1, <3>2, <3>3 DEF Past
    <3>5. Past(s, new, x)
      BY <1>2, <1>4, <1>6, <2>4 DEF Past
    <3> QED BY <3>4, <3>5
  <2>5. CASE Lvl(x) > lvl
    <3>1. ~(Lvl(t.node) > Lvl(x)) /\ t.node # x
      BY <1>2, <1>11, <2>1, <2>5
    <3>2. ~(Lvl(new.node) > Lvl(x))
      BY <1>2, <1>4, <1>6, <2>1, <2>5
    <3> QED BY <1>4, <1>6, <3>1, <3>2 DEF Past
  <2> QED BY <1>2, <2>1, <2>3, <2>4, <2>5
<1>16. OneMore("joined", w, even)
  BY <1>9, <1>10, <1>12, <1>13, <1>14, <1>15, BecomeOneMore
<1> QED BY <1>16 DEF even

LEMMA CombineCounts ==
  ASSUME IInv, FInv, NEW w \in Workers, SettleCombine(w)
  PROVE  \/ Count(w, "n_combines") /\ \E nd : OneMore("joined", w, nd)
         \/ UNCHANGED stats /\ SameCounts
<1>1. PICK nd \in Nodes : AtHome(w, nd) /\ cur[w].node = nd
  BY HandOfSettling DEF SettleCombine, MeetsHere, HasSibling, InTree
<1>2. ~IsRootLevel(N, Lvl(nd)) /\ ~Unpaired(N, nd) /\ ~PeerOwnsParent(w, nd) /\ status[w] = "running"
  BY <1>1 DEF SettleCombine, MeetsHere, HasSibling, InTree, Settling
<1>3. CombinesTo(w, nd) \/ (Forest' \subseteq Forest /\ Raised(w)')
  BY <1>1, SettleCombineMoves
<1>4. \/ Count(w, "n_combines") /\ UNCHANGED loopVars
      \/ LeaveSettle(w) /\ UNCHANGED stats
  BY DEF SettleCombine
<1>5. CASE Count(w, "n_combines") /\ UNCHANGED loopVars
  <2>1. ~Raised(w)'
    BY <1>2, <1>5 DEF Raised, loopVars
  <2> QED BY <1>1, <1>2, <1>3, <1>5, <2>1, JoinCounts
<1>6. CASE LeaveSettle(w) /\ UNCHANGED stats
  <2>1. Part(w, "hand", Parent(nd)) \notin Forest'
    <3> SUFFICES ASSUME Part(w, "hand", Parent(nd)) \in Forest' PROVE FALSE
      OBVIOUS
    <3>1. PICK t \in Forest' : t = Part(w, "hand", Parent(nd))
      OBVIOUS
    <3>2. t.at = w /\ t.how = "hand" /\ t.node \in Here(t.at, t.how)'
      BY <3>1, PartParts, ForestPartsNext
    <3>3. InHand(w)' = {}
      BY <1>6, LeaveHand
    <3> QED BY <3>2, <3>3 DEF Here
  <2>2. Forest' \subseteq Forest
    BY <1>3, <2>1 DEF CombinesTo
  <2> QED BY <1>6, <2>2, LosesCounted
<1> QED BY <1>4, <1>5, <1>6

LEMMA NodesFinite == IsFiniteSet(Nodes)
<1>1. Nodes \subseteq (0 .. Depth) \X (0 .. N-1)
  BY DEF Nodes, NodesOf
<1>2. IsFiniteSet(0 .. Depth) /\ IsFiniteSet(0 .. N-1)
  BY FS_Interval, SizeAssumption
<1>3. IsFiniteSet((0 .. Depth) \X (0 .. N-1))
  BY <1>2, FS_Product
<1> QED BY <1>1, <1>3, FS_Subset

LEMMA CountedFinite ==
  ASSUME NEW s \in Senses, NEW w \in Workers
  PROVE  IsFiniteSet(Counted(s, w))
<1>1. Counted(s, w) \subseteq Nodes
  BY OfFacts DEF Counted
<1> QED BY <1>1, NodesFinite, FS_Subset

LEMMA CountersOf ==
  ASSUME IInv, NEW w \in Workers
  PROVE  /\ Counter("sent", w) = stats[w].peer_sends /\ Counter("got", w) = stats[w].peer_recvs
         /\ Counter("joined", w) = stats[w].n_combines
         /\ \A s \in Senses : Counter(s, w) \in Nat
<1>1. /\ Counter("sent", w) = stats[w].peer_sends /\ Counter("got", w) = stats[w].peer_recvs
      /\ Counter("joined", w) = stats[w].n_combines
  BY DEF Counter
<1>2. stats[w] \in [StatFields -> Nat]
  BY DEF IInv, TypeOK
<1> QED BY <1>1, <1>2 DEF Senses, StatFields

(* What the steps do to these counters.                                      *)
SameCounters == \A w \in Workers : \A s \in Senses : Counter(s, w)' = Counter(s, w)
CounterGrows(i, v) ==
  \A w \in Workers : \A s \in Senses :
    Counter(s, w)' = Counter(s, w) + IF s = i /\ w = v THEN 1 ELSE 0

LEMMA OtherField ==
  ASSUME IInv, NEW w \in Workers, NEW field \in {"processed", "given", "steals"}, NEW k,
         stats' = [stats EXCEPT ![w][field] = k]
  PROVE  SameCounters
<1>1. \A u \in Workers : stats[u] \in [StatFields -> Nat]
  BY DEF IInv, TypeOK
<1>2. \A u \in Workers : /\ stats'[u].peer_sends = stats[u].peer_sends
                         /\ stats'[u].peer_recvs = stats[u].peer_recvs
                         /\ stats'[u].n_combines = stats[u].n_combines
  BY <1>1 DEF IInv, TypeOK, StatFields
<1> QED BY <1>2 DEF SameCounters, Counter, Senses

LEMMA NoField ==
  ASSUME UNCHANGED stats
  PROVE  SameCounters
BY DEF SameCounters, Counter, Senses

LEMMA OneField ==
  ASSUME IInv, NEW w \in Workers
  PROVE  /\ Count(w, "peer_sends") => CounterGrows("sent", w)
         /\ Count(w, "peer_recvs") => CounterGrows("got", w)
         /\ Count(w, "n_combines") => CounterGrows("joined", w)
<1>1. \A u \in Workers : stats[u] \in [StatFields -> Nat]
  BY DEF IInv, TypeOK
<1>2. DOMAIN stats = Workers
  BY DEF IInv, TypeOK
<1> DEFINE HasSent(u) == stats[u].peer_sends
           HasTaken(u) == stats[u].peer_recvs
           HasJoined(u) == stats[u].n_combines
<1>3. \A u \in Workers : HasSent(u) \in Nat /\ HasTaken(u) \in Nat /\ HasJoined(u) \in Nat
  BY <1>1 DEF StatFields
<1>8. \A u : Counter("sent", u) = HasSent(u) /\ Counter("got", u) = HasTaken(u) /\ Counter("joined", u) = HasJoined(u)
  BY DEF Counter
<1>9. \A u : /\ Counter("sent", u)' = HasSent(u)' /\ Counter("got", u)' = HasTaken(u)'
             /\ Counter("joined", u)' = HasJoined(u)'
  BY DEF Counter
<1>4. ASSUME Count(w, "peer_sends") PROVE CounterGrows("sent", w)
  <2>1. \A u \in Workers : /\ HasSent(u)' = HasSent(u) + IF u = w THEN 1 ELSE 0
                           /\ HasTaken(u)' = HasTaken(u) /\ HasJoined(u)' = HasJoined(u)
    BY <1>1, <1>2, <1>3, <1>4 DEF Count, StatFields
  <2>2. ASSUME NEW u \in Workers
        PROVE  /\ Counter("sent", u)' = Counter("sent", u) + IF "sent" = "sent" /\ u = w THEN 1 ELSE 0
               /\ Counter("got", u)' = Counter("got", u) + IF "got" = "sent" /\ u = w THEN 1 ELSE 0
               /\ Counter("joined", u)' = Counter("joined", u) + IF "joined" = "sent" /\ u = w THEN 1 ELSE 0
    BY <1>3, <1>8, <1>9, <2>1
  <2>3. CounterGrows("sent", w)
    <3> SUFFICES ASSUME NEW u \in Workers, NEW s \in Senses
                 PROVE  Counter(s, u)' = Counter(s, u) + IF s = "sent" /\ u = w THEN 1 ELSE 0
      BY DEF CounterGrows
    <3>1. s = "sent" \/ s = "got" \/ s = "joined"
      BY DEF Senses
    <3> QED BY <2>2, <3>1
  <2> QED BY <2>3
<1>5. ASSUME Count(w, "peer_recvs") PROVE CounterGrows("got", w)
  <2>1. \A u \in Workers : /\ HasTaken(u)' = HasTaken(u) + IF u = w THEN 1 ELSE 0
                           /\ HasSent(u)' = HasSent(u) /\ HasJoined(u)' = HasJoined(u)
    BY <1>1, <1>2, <1>3, <1>5 DEF Count, StatFields
  <2>2. ASSUME NEW u \in Workers
        PROVE  /\ Counter("sent", u)' = Counter("sent", u) + IF "sent" = "got" /\ u = w THEN 1 ELSE 0
               /\ Counter("got", u)' = Counter("got", u) + IF "got" = "got" /\ u = w THEN 1 ELSE 0
               /\ Counter("joined", u)' = Counter("joined", u) + IF "joined" = "got" /\ u = w THEN 1 ELSE 0
    BY <1>3, <1>8, <1>9, <2>1
  <2>3. CounterGrows("got", w)
    <3> SUFFICES ASSUME NEW u \in Workers, NEW s \in Senses
                 PROVE  Counter(s, u)' = Counter(s, u) + IF s = "got" /\ u = w THEN 1 ELSE 0
      BY DEF CounterGrows
    <3>1. s = "sent" \/ s = "got" \/ s = "joined"
      BY DEF Senses
    <3> QED BY <2>2, <3>1
  <2> QED BY <2>3
<1>6. ASSUME Count(w, "n_combines") PROVE CounterGrows("joined", w)
  <2>1. \A u \in Workers : /\ HasJoined(u)' = HasJoined(u) + IF u = w THEN 1 ELSE 0
                           /\ HasSent(u)' = HasSent(u) /\ HasTaken(u)' = HasTaken(u)
    BY <1>1, <1>2, <1>3, <1>6 DEF Count, StatFields
  <2>2. ASSUME NEW u \in Workers
        PROVE  /\ Counter("sent", u)' = Counter("sent", u) + IF "sent" = "joined" /\ u = w THEN 1 ELSE 0
               /\ Counter("got", u)' = Counter("got", u) + IF "got" = "joined" /\ u = w THEN 1 ELSE 0
               /\ Counter("joined", u)' = Counter("joined", u) + IF "joined" = "joined" /\ u = w THEN 1 ELSE 0
    BY <1>3, <1>8, <1>9, <2>1
  <2>3. CounterGrows("joined", w)
    <3> SUFFICES ASSUME NEW u \in Workers, NEW s \in Senses
                 PROVE  Counter(s, u)' = Counter(s, u) + IF s = "joined" /\ u = w THEN 1 ELSE 0
      BY DEF CounterGrows
    <3>1. s = "sent" \/ s = "got" \/ s = "joined"
      BY DEF Senses
    <3> QED BY <2>2, <3>1
  <2> QED BY <2>3
<1> QED BY <1>4, <1>5, <1>6

LEMMA CountsStay ==
  ASSUME WInv, SameCounts, SameCounters
  PROVE  WInv'
<1> SUFFICES ASSUME Full', NEW w \in Workers, NEW s \in Senses
             PROVE  Counter(s, w)' = Cardinality(Counted(s, w)')
  BY DEF WInv
<1>1. Counted(s, w)' = Counted(s, w) /\ Full
  BY DEF SameCounts
<1>2. Counter(s, w)' = Counter(s, w)
  BY DEF SameCounters
<1> QED BY <1>1, <1>2 DEF WInv

LEMMA CountsGrow ==
  ASSUME WInv, NEW i, NEW v \in Workers, NEW nd, OneMore(i, v, nd), CounterGrows(i, v), IInv
  PROVE  WInv'
<1> SUFFICES ASSUME Full', NEW w \in Workers, NEW s \in Senses
             PROVE  Counter(s, w)' = Cardinality(Counted(s, w)')
  BY DEF WInv
<1>1. /\ Counted(s, w)' = Counted(s, w) \cup IF s = i /\ w = v THEN {nd} ELSE {}
      /\ nd \notin Counted(i, v) /\ Full
  BY DEF OneMore
<1>2. Counter(s, w)' = Counter(s, w) + IF s = i /\ w = v THEN 1 ELSE 0
  BY DEF CounterGrows
<1>3. Counter(s, w) = Cardinality(Counted(s, w)) /\ IsFiniteSet(Counted(s, w))
  BY <1>1, CountedFinite DEF WInv
<1>4. Counter(s, w) \in Nat
  BY CountersOf
<1>5. CASE s = i /\ w = v
  <2>1. Cardinality(Counted(s, w) \cup {nd}) = Cardinality(Counted(s, w)) + 1
    BY <1>1, <1>3, <1>5, FS_AddElement
  <2> QED BY <1>1, <1>2, <1>3, <1>5, <2>1
<1>6. CASE ~(s = i /\ w = v)
  <2>1. Counted(s, w)' = Counted(s, w)
    BY <1>1, <1>6
  <2>2. Counter(s, w)' = Counter(s, w)
    BY <1>2, <1>4, <1>6
  <2> QED BY <1>3, <2>1, <2>2
<1> QED BY <1>5, <1>6

(* A leaf settled is no counter's.                                           *)
LEMMA SettledCounts ==
  ASSUME NEW w \in Workers, NEW leaf, LeafSettled(w, leaf)
  PROVE  SameCounts
<1> DEFINE old == Part(w, "unsettled", <<0, leaf>>)
           new == Part(w, "hand", <<0, leaf>>)
<1>1. old \in Forest /\ Forest' = (Forest \ {old}) \cup {new}
  BY DEF LeafSettled
<1>2. new.node = old.node /\ new.at = old.at /\ (new.how = "coming" <=> old.how = "coming")
  BY PartParts
<1> HIDE DEF old, new
<1> QED BY <1>1, <1>2, MoveSame

LEMMA StayingCounts ==
  ASSUME IInv, FInv, NEW w \in Workers, SettleRoot(w) \/ SettlePark(w)
  PROVE  SameCounts
<1>1. PICK i \in Hows, j \in Hows, nd \in Nodes :
        /\ Part(w, i, nd) \in Forest /\ Forest' = (Forest \ {Part(w, i, nd)}) \cup {Part(w, j, nd)}
        /\ i # "coming" /\ j # "coming"
  <2>1. CASE SettleRoot(w)
    <3>1. /\ Part(w, "hand", Root) \in Forest /\ Root \in Nodes
          /\ Forest' = (Forest \ {Part(w, "hand", Root)}) \cup {Part(w, "root", Root)}
      BY <2>1, SettleRootMoves, RootCovers
    <3> QED BY <3>1 DEF Hows
  <2>2. CASE SettlePark(w)
    <3>1. /\ cur[w].node \in Nodes /\ Part(w, "hand", cur[w].node) \in Forest
          /\ Forest' = (Forest \ {Part(w, "hand", cur[w].node)}) \cup {Part(w, "parked", cur[w].node)}
      BY <2>2, SettleParkMoves
    <3> QED BY <3>1 DEF Hows
  <2> QED BY <2>1, <2>2
<1> DEFINE old == Part(w, i, nd)
           new == Part(w, j, nd)
<1>2. new.node = old.node /\ new.at = old.at /\ (new.how = "coming" <=> old.how = "coming")
  BY <1>1, PartParts
<1>3. old \in Forest /\ Forest' = (Forest \ {old}) \cup {new}
  BY <1>1
<1> HIDE DEF old, new
<1> QED BY <1>2, <1>3, MoveSame

LEMMA HandleNodeCounts ==
  ASSUME IInv, FInv, NEW w \in Workers, HandleNode(w)
  PROVE  \/ Count(w, "peer_recvs") /\ \E nd : OneMore("got", w, nd)
         \/ UNCHANGED stats /\ SameCounts
<1> DEFINE nd == Msg(w).node
<1>1. polled[w] > 0 /\ cur[w] = None /\ Msg(w).tag = "node"
  BY DEF HandleNode, Handling
<1>2. NodeTaken(w, nd) \/ Forest' = Forest
  BY HandleNodeMoves
<1>3. Shipped(w, nd)
  BY <1>1, SomethingPolled DEF FInv, NodesAreShipped
<1>4. CASE Count(w, "peer_recvs") /\ Enter(w, nd, Msg(w).val)
  <2>1. InHand(w) = {}
    BY <1>1 DEF InHand
  <2>2. PICK x \in Nodes : AtHome(w, x) /\ nd = x /\ Msg(w).val = TreeValue[x]
    BY <1>1, SomethingPolled, MailByTag
  <2>3. InHand(w)' = {nd}
    BY <1>4, <2>2, EnterHand
  <2>4. NodeTaken(w, nd)
    <3> SUFFICES ASSUME Forest' = Forest PROVE FALSE
      BY <1>2
    <3>1. PICK t \in [at : Workers, how : Hows, node : Nodes] : t = Part(w, "hand", nd)
      BY <2>2 DEF Part, Hows
    <3>2. t.at = w /\ t.how = "hand" /\ t.node = nd
      BY <3>1, PartParts
    <3>3. Here(t.at, t.how)' = InHand(w)'
      BY <3>2 DEF Here
    <3>4. t \in Forest'
      BY <2>3, <3>2, <3>3 DEF Forest
    <3>5. t.node \in Here(t.at, t.how)
      BY <3>4 DEF Forest
    <3> QED BY <2>1, <3>2, <3>5, HereIs
  <2>5. ~IsRootLevel(N, Lvl(nd))
    <3> SUFFICES ASSUME IsRootLevel(N, Lvl(nd)) PROVE FALSE
      OBVIOUS
    <3>1. nd = Root
      BY <2>2, RootNode
    <3>2. IsEven(nd)
      BY <3>1 DEF Root, IsEven, Pos
    <3> QED BY <1>3, <3>2 DEF Shipped
  <2> QED BY <1>3, <1>4, <2>4, <2>5, TakeCounts
<1>5. CASE UNCHANGED <<cur, stats>>
  <2>1. Forest' = Forest
    <3> SUFFICES ASSUME NodeTaken(w, nd) PROVE FALSE
      BY <1>2
    <3>1. PICK t \in Forest' : t = Part(w, "hand", nd)
      BY DEF NodeTaken
    <3>2. t.at = w /\ t.how = "hand" /\ t.node = nd /\ t.node \in Here(t.at, t.how)'
      BY <3>1, PartParts, ForestPartsNext
    <3>3. InHand(w)' = {}
      BY <1>1, <1>5 DEF InHand
    <3> QED BY <3>2, <3>3 DEF Here
  <2> QED BY <1>5, <2>1, StaysCounted
<1> QED BY <1>4, <1>5 DEF HandleNode

LEMMA WorkerCounts ==
  ASSUME IInv, FInv, WInv, NEW w \in Workers, Worker(w)
  PROVE  WInv'
<1>1. ASSUME SameCounts, SameCounters PROVE WInv'
  BY <1>1, CountsStay
<1>2. CASE SettleRoot(w) \/ SettlePark(w)
  BY <1>1, <1>2, StayingCounts, NoField DEF SettleRoot, SettlePark
<1>3. CASE SettleCarry(w)
  BY <1>1, <1>3, CarryCounts, NoField DEF SettleCarry
<1>4. CASE SettleShip(w)
  BY <1>4, ShipCounts, OneField, CountsGrow DEF SettleShip
<1>5. CASE SettleCombine(w)
  BY <1>1, <1>5, CombineCounts, OneField, NoField, CountsGrow
<1>6. CASE HandleNode(w)
  BY <1>1, <1>6, HandleNodeCounts, OneField, NoField, CountsGrow
<1>7. CASE Process(w) \/ HandleLeaf(w)
  <2>1. (\E leaf \in Leaves : LeafSettled(w, leaf)) \/ Forest' = Forest
    BY <1>7, ProcessMoves, HandleLeafMoves
  <2>2. SameCounts
    BY <2>1, SettledCounts, StaysCounted
  <2>3. SameCounters
    <3>1. CASE Process(w)
      BY <3>1, OtherField DEF Process, Count
    <3>2. CASE HandleLeaf(w)
      BY <3>2, NoField DEF HandleLeaf
    <3> QED BY <1>7, <3>1, <3>2
  <2> QED BY <1>1, <2>2, <2>3
<1>8. CASE Poll(w) \/ Recv(w) \/ AskSteal(w) \/ HandleStealReq(w) \/ HandleStealResp(w) \/ HandleOther(w)
  <2>1. SameCounts
    BY <1>8, WorkerQuiet, StaysCounted
  <2>2. SameCounters
    <3>1. CASE Poll(w) \/ Recv(w) \/ AskSteal(w) \/ HandleOther(w)
      BY <3>1, NoField DEF Poll, Recv, AskSteal, HandleOther
    <3>2. CASE HandleStealReq(w)
      BY <3>2, NoField, OtherField DEF HandleStealReq, Count
    <3>3. CASE HandleStealResp(w)
      BY <3>3, OtherField DEF HandleStealResp
    <3> QED BY <1>8, <3>1, <3>2, <3>3
  <2> QED BY <1>1, <2>1, <2>2
<1>9. CASE ProcessRaises(w) \/ HandleDone(w) \/ Await(w)
  <2>1. SameCounts
    BY <1>9, WorkerLoses, LosesCounted
  <2>2. UNCHANGED stats
    BY <1>9 DEF ProcessRaises, HandleDone, Await
  <2> QED BY <1>1, <2>1, <2>2, NoField
<1> QED BY <1>2, <1>3, <1>4, <1>5, <1>6, <1>7, <1>8, <1>9 DEF Worker, Settle, Handle

LEMMA NextCounts ==
  ASSUME IInv, FInv, WInv, [Next]_vars
  PROVE  WInv'
<1>1. ASSUME SameCounts, UNCHANGED stats PROVE WInv'
  BY <1>1, CountsStay, NoField
<1>2. ASSUME NEW e \in Endpoints, Post(e) \/ PostUnacknowledged(e) \/ GiveUp(e) PROVE WInv'
  <2>1. SameCounts
    BY <1>2, SenderQuiet, GiveUpLoses, StaysCounted, LosesCounted
  <2>2. UNCHANGED stats
    BY <1>2 DEF Post, PostUnacknowledged, GiveUp
  <2> QED BY <1>1, <2>1, <2>2
<1>3. ASSUME Driver PROVE WInv'
  <2>1. SameCounts
    BY <1>3, DriverQuiet, ClosingLoses, StaysCounted, LosesCounted
  <2>2. UNCHANGED stats
    BY <1>3 DEF Driver, GatherHello, SendRegistry, HandshakeFails, CollectRoot, CollectOther, SeesError,
       DeadlinePasses, Join, JoinRaises, Teardown, Shutdown
  <2> QED BY <1>1, <2>1, <2>2
<1>4. ASSUME Finished \/ UNCHANGED vars PROVE WInv'
  <2>1. UNCHANGED vars
    BY <1>4 DEF Finished
  <2> QED BY <1>1, <2>1, StutterQuiet, StaysCounted DEF vars
<1> QED BY <1>2, <1>3, <1>4, WorkerCounts DEF Next

(* At the start every leaf is unsettled, at its owner.                       *)
LEMMA InitParts ==
  ASSUME IInv, Init, NEW t \in Forest
  PROVE  \E leaf \in Leaves : t = Part(OwnerOf[<<0, leaf>>], "unsettled", <<0, leaf>>)
<1>1. \A w \in Workers : DOMAIN present[w] = {} /\ InHand(w) = {}
  BY DEF Init, NothingParked, InHand
<1>2. ~RootFormed /\ \A w \in Workers : Coming(w, "node") = {}
  <2>1. \A e \in Endpoints : \A m \in MessagesTo(e) : m.tag = "hello"
    BY InitMail
  <2> QED BY <2>1, WhoIsWho DEF RootFormed, Coming, Init
<1>3. /\ t.at \in Workers /\ t.how \in Hows /\ t.node \in Nodes
      /\ t.node \in Here(t.at, t.how) /\ t = Part(t.at, t.how, t.node)
  BY ForestParts
<1>4. t.how = "unsettled" /\ t.node \in Unsettled(t.at)
  BY <1>1, <1>2, <1>3 DEF Here, Hows
<1> QED BY <1>3, <1>4 DEF Unsettled

LEMMA InitCounts ==
  ASSUME IInv, Init
  PROVE  WInv
<1> SUFFICES ASSUME Full, NEW w \in Workers, NEW s \in Senses
             PROVE  Counter(s, w) = Cardinality(Counted(s, w))
  BY DEF WInv
<1>1. Counted(s, w) = {}
  <2> SUFFICES ASSUME NEW x \in Of(s, w), Done(s, x) PROVE FALSE
    BY DEF Counted
  <2>1. x \in Nodes /\ Lvl(x) \in Nat
    BY OfFacts, NodeParts
  <2>2. PICK leaf \in Leaves : leaf \in LeavesUnder(N, x)
    BY <2>1, NodeCovers
  <2>3. PICK t \in Forest : leaf \in Under(t)
    BY DEF Full
  <2>4. PICK l \in Leaves : t = Part(OwnerOf[<<0, l>>], "unsettled", <<0, l>>)
    BY InitParts
  <2>5. t.at = OwnerOf[t.node] /\ Lvl(t.node) = 0
    BY <2>4, PartParts DEF Lvl
  <2>6. Past(s, t, x)
    BY <2>2, <2>3 DEF Done, Meets
  <2> QED BY <2>1, <2>5, <2>6 DEF Past
<1>2. Counter(s, w) = 0
  BY DEF Init, NoStats, StatFields, Counter, Senses
<1> QED BY <1>1, <1>2, FS_EmptySet

(* As long as no leaf is lost, a worker's counters are the numbers of nodes it *)
(* has shipped, has been handed and has combined (stats in settle, handle).   *)
THEOREM CountInvariant == Spec => [](IInv /\ FInv /\ WInv)
<1>1. Init => IInv /\ FInv /\ WInv
  BY InitInv, InitForest, InitCounts
<1>2. IInv /\ FInv /\ WInv /\ [Next]_vars => (IInv /\ FInv /\ WInv)'
  BY NextInv, NextForest, NextCounts
<1> QED BY <1>1, <1>2, PTL DEF Spec

(* When the root is formed, it is all there is, and every counter is full.    *)
LEMMA RootCounts ==
  ASSUME IInv, FInv, WInv, RootFormed
  PROVE  \A w \in Workers : \A s \in Senses : Counter(s, w) = Cardinality(Of(s, w))
<1> DEFINE top == Part(0, "root", Root)
<1>1. top \in Forest /\ top.node = Root /\ Under(top) = Leaves
  <2>1. 0 \in Workers
    BY SizeAssumption DEF Workers
  <2>2. Root \in Here(0, "root") /\ "root" \in Hows
    BY HereIs DEF Hows
  <2> QED BY <2>1, <2>2, RootCovers, PartInForest, PartParts DEF Under
<1> HIDE DEF top
<1>2. \A t \in Forest : t = top
  <2> SUFFICES ASSUME NEW t \in Forest PROVE Under(t) \cap Under(top) # {}
    BY <1>1 DEF FInv, OnceEach
  <2> QED BY <1>1, ForestParts, NodeCovers DEF Under
<1>3. Full
  BY <1>1 DEF Full
<1> SUFFICES ASSUME NEW w \in Workers, NEW s \in Senses
             PROVE  Of(s, w) \subseteq Counted(s, w)
  BY <1>3 DEF WInv, Counted
<1> SUFFICES ASSUME NEW x \in Of(s, w), NEW t \in Forest PROVE Past(s, t, x)
  BY DEF Counted, Done
<1>4. x \in Nodes /\ ~IsRootLevel(N, Lvl(x))
  BY OfFacts
<1>5. Lvl(x) \in 0 .. Depth /\ Lvl(x) # Depth
  BY <1>4, NodeParts, SizeAssumption
<1>6. Lvl(t.node) = Depth
  BY <1>1, <1>2 DEF Root, Lvl
<1> QED BY <1>5, <1>6, SizeAssumption DEF Past

-----------------------------------------------------------------------------
(* The sum of a counter over the workers.                                    *)
Chosen(s) == CHOOSE x \in s : TRUE
Adds(g, st, field) ==
  g = [s \in SUBSET Workers |->
         IF s = {} THEN 0 ELSE st[Chosen(s)][field] + g[s \ {Chosen(s)}]]
TotalOf(st, field) == (CHOOSE g : Adds(g, st, field))[Workers]

LEMMA TotalIs == \A field : Total(field) = TotalOf(stats, field)
BY DEF Total, TotalOf, Adds, Chosen, MapThenSumSet, MapThenFoldSet
LEMMA TotalIsNext == \A field : Total(field)' = TotalOf(stats', field)
BY DEF Total, TotalOf, Adds, Chosen, MapThenSumSet, MapThenFoldSet

LEMMA WorkersFinite == \A s \in SUBSET Workers : IsFiniteSet(s)
<1>1. IsFiniteSet(Workers)
  BY FS_Interval, SizeAssumption DEF Workers
<1> QED BY <1>1, FS_Subset

LEMMA DisjointUnion ==
  ASSUME NEW S, NEW T, IsFiniteSet(S), IsFiniteSet(T), S \cap T = {}
  PROVE  /\ IsFiniteSet(S \cup T) /\ Cardinality(S \cup T) = Cardinality(S) + Cardinality(T)
<1>1. Cardinality(S \cap T) = 0
  BY FS_EmptySet
<1>2. Cardinality(S) \in Nat /\ Cardinality(T) \in Nat
  BY FS_CardinalityType
<1>3. /\ IsFiniteSet(S \cup T)
      /\ Cardinality(S \cup T) = Cardinality(S) + Cardinality(T) - Cardinality(S \cap T)
  BY FS_Union, Zenon
<1> QED BY <1>1, <1>2, <1>3

(* A property that passes from what is left of a set of workers, when one is   *)
(* taken out, to the set itself, has no smallest counterexample.            *)
LEMMA WorkerByWorker ==
  ASSUME NEW Good, {} \in Good,
         \A s \in SUBSET Workers : s # {} /\ s \ {Chosen(s)} \in Good => s \in Good
  PROVE  SUBSET Workers \subseteq Good
<1> SUFFICES ASSUME NEW bad \in SUBSET Workers, bad \notin Good PROVE FALSE
  OBVIOUS
<1> DEFINE Sizes == {k \in Nat : \E s \in SUBSET Workers : s \notin Good /\ Cardinality(s) = k}
<1>1. Cardinality(bad) \in Sizes
  BY WorkersFinite, FS_CardinalityType
<1>2. PICK k \in Sizes : \A j \in Sizes : k <= j
  <2>1. Sizes \subseteq Nat /\ Sizes # {}
    BY <1>1
  <2> HIDE DEF Sizes
  <2> QED BY <2>1, Least
<1>3. PICK s \in SUBSET Workers : s \notin Good /\ Cardinality(s) = k
  OBVIOUS
<1>4. s # {} /\ s \ {Chosen(s)} \notin Good
  BY <1>3
<1>5. Chosen(s) \in s
  BY <1>4 DEF Chosen
<1>6. Cardinality(s \ {Chosen(s)}) = k - 1 /\ k \in Nat
  BY <1>3, <1>5, WorkersFinite, FS_RemoveElement
<1>7. Cardinality(s \ {Chosen(s)}) \in Nat
  BY WorkersFinite, FS_CardinalityType
<1>8. k - 1 \in Sizes
  BY <1>4, <1>6, <1>7
<1> QED BY <1>2, <1>6, <1>8

(* The sum of the sizes of disjoint sets is the size of their union.          *)
SizesOf(st, field, F) ==
  /\ \A w \in Workers : IsFiniteSet(F[w]) /\ st[w][field] = Cardinality(F[w])
  /\ \A v, w \in Workers : v # w => F[v] \cap F[w] = {}
Gathered(F) == UNION {F[w] : w \in Workers}
SumsTo(st, field, S) == IsFiniteSet(S) /\ TotalOf(st, field) = Cardinality(S)
LEMMA SumOfSizes ==
  ASSUME NEW st, NEW field, NEW F, SizesOf(st, field, F)
  PROVE  SumsTo(st, field, Gathered(F))
<1>10. /\ \A w \in Workers : IsFiniteSet(F[w]) /\ st[w][field] = Cardinality(F[w])
       /\ \A v, w \in Workers : v # w => F[v] \cap F[w] = {}
  BY DEF SizesOf
<1> DEFINE All(s) == UNION {F[w] : w \in s}
<1>1. ASSUME NEW s \in SUBSET Workers, s # {}
      PROVE  /\ Chosen(s) \in s /\ All(s) = All(s \ {Chosen(s)}) \cup F[Chosen(s)]
             /\ All(s \ {Chosen(s)}) \cap F[Chosen(s)] = {}
  <2>1. Chosen(s) \in s
    BY <1>1 DEF Chosen
  <2>2. PICK c \in s : c = Chosen(s)
    BY <2>1
  <2>3. All(s) = All(s \ {c}) \cup F[c]
    OBVIOUS
  <2>4. All(s \ {c}) \cap F[c] = {}
    BY <1>10
  <2> QED BY <2>2, <2>3, <2>4
<1> HIDE DEF All
<1>2. \A s \in SUBSET Workers : IsFiniteSet(All(s))
  <2> DEFINE Good == {s \in SUBSET Workers : IsFiniteSet(All(s))}
  <2>1. {} \in Good
    <3>1. All({}) = {}
      BY DEF All
    <3> QED BY <3>1, FS_EmptySet
  <2>2. ASSUME NEW s \in SUBSET Workers, s # {}, s \ {Chosen(s)} \in Good PROVE s \in Good
    <3>1. IsFiniteSet(All(s \ {Chosen(s)})) /\ IsFiniteSet(F[Chosen(s)])
      BY <1>1, <1>10, <2>2
    <3>2. IsFiniteSet(All(s \ {Chosen(s)}) \cup F[Chosen(s)])
      BY <1>1, <2>2, <3>1, DisjointUnion
    <3> QED BY <1>1, <2>2, <3>2
  <2> HIDE DEF Good
  <2>3. SUBSET Workers \subseteq Good
    BY <2>1, <2>2, WorkerByWorker
  <2> QED BY <2>3 DEF Good
<1> DEFINE sizes == [s \in SUBSET Workers |-> Cardinality(All(s))]
<1>3. ASSUME NEW s \in SUBSET Workers
      PROVE  sizes[s] = IF s = {} THEN 0 ELSE st[Chosen(s)][field] + sizes[s \ {Chosen(s)}]
  <2>1. CASE s = {}
    <3>1. All({}) = {}
      BY DEF All
    <3> QED BY <2>1, <3>1, FS_EmptySet
  <2>2. CASE s # {}
    <3>1. /\ Chosen(s) \in Workers /\ s \ {Chosen(s)} \in SUBSET Workers
          /\ IsFiniteSet(All(s \ {Chosen(s)})) /\ IsFiniteSet(F[Chosen(s)])
      BY <1>1, <1>2, <1>10, <2>2
    <3>2. Cardinality(All(s)) = Cardinality(All(s \ {Chosen(s)})) + Cardinality(F[Chosen(s)])
      BY <1>1, <2>2, <3>1, DisjointUnion
    <3>3. Cardinality(All(s \ {Chosen(s)})) \in Nat /\ Cardinality(F[Chosen(s)]) \in Nat
      BY <3>1, FS_CardinalityType
    <3> QED BY <1>10, <2>2, <3>1, <3>2, <3>3
  <2> QED BY <2>1, <2>2
<1>4. Adds(sizes, st, field)
  <2>1. sizes = [s \in SUBSET Workers |->
                   IF s = {} THEN 0 ELSE st[Chosen(s)][field] + sizes[s \ {Chosen(s)}]]
    BY <1>3
  <2> HIDE DEF sizes
  <2> QED BY <2>1 DEF Adds
<1>5. PICK g : g = (CHOOSE h : Adds(h, st, field))
  OBVIOUS
<1>6. Adds(g, st, field)
  <2> HIDE DEF sizes
  <2> QED BY <1>4, <1>5
<1>7. SUBSET Workers \subseteq {s \in SUBSET Workers : g[s] = sizes[s]}
  <2> DEFINE Good == {s \in SUBSET Workers : g[s] = sizes[s]}
  <2>1. \A s \in SUBSET Workers :
          g[s] = IF s = {} THEN 0 ELSE st[Chosen(s)][field] + g[s \ {Chosen(s)}]
    BY <1>6 DEF Adds
  <2> HIDE DEF sizes
  <2>2. {} \in Good
    BY <1>3, <2>1
  <2>3. ASSUME NEW s \in SUBSET Workers, s # {}, s \ {Chosen(s)} \in Good PROVE s \in Good
    BY <1>3, <2>1, <2>3
  <2> HIDE DEF Good
  <2>4. SUBSET Workers \subseteq Good
    BY <2>2, <2>3, WorkerByWorker
  <2> QED BY <2>4 DEF Good
<1>8. g[Workers] = Cardinality(All(Workers))
  BY <1>7
<1>9. TotalOf(st, field) = g[Workers]
  BY <1>5 DEF TotalOf
<1> QED BY <1>2, <1>8, <1>9 DEF All, SumsTo, Gathered

-----------------------------------------------------------------------------
(* How many pairs the tree has.                                              *)
Below(lvl) == {nd \in EvenNodes : Lvl(nd) < lvl}

LEMMA PairsOfLevel ==
  ASSUME NEW lvl \in 0 .. Depth-1
  PROVE  LET row == {nd \in EvenNodes : Lvl(nd) = lvl}
         IN  IsFiniteSet(row) /\ Cardinality(row) = LevelSize(N, lvl) \div 2
<1> DEFINE size == LevelSize(N, lvl)
           row == {nd \in EvenNodes : Lvl(nd) = lvl}
           f == [k \in 0 .. (size \div 2) - 1 |-> <<lvl, 2*k>>]
<1>1. /\ lvl \in Nat /\ lvl \in 0 .. Depth /\ size \in Nat /\ size > 1 /\ size <= N
  <2>1. lvl \in Nat /\ lvl \in 0 .. Depth /\ N \in Nat \ {0} /\ size > 1
    BY SizeAssumption
  <2>2. size \in Nat
    BY <2>1, LevelHalves
  <2>3. size <= N
    BY <2>1, LevelAtMost
  <2> QED BY <2>1, <2>2, <2>3
<1>2. ~IsRootLevel(N, lvl)
  BY <1>1 DEF IsRootLevel
<1> HIDE DEF size
<1>3. ASSUME NEW k \in 0 .. (size \div 2) - 1 PROVE <<lvl, 2*k>> \in row
  <2>1. 2*k \in 0 .. N-1 /\ 2*k < size /\ ~(2*k + 1 >= size) /\ (2*k) % 2 = 0
    BY <1>1, SizeAssumption
  <2> QED BY <1>1, <1>2, <2>1 DEF EvenNodes, Nodes, NodesOf, Lvl, Pos, IsEven, Unpaired, size
<1>4. ASSUME NEW nd \in row PROVE \E k \in 0 .. (size \div 2) - 1 : nd = <<lvl, 2*k>>
  <2>1. /\ nd \in Nodes /\ IsEven(nd) /\ Lvl(nd) = lvl /\ ~(Pos(nd) + 1 >= size)
    BY DEF EvenNodes, Unpaired, size
  <2>2. PICK pos \in Nat : pos = Pos(nd) /\ nd = <<lvl, pos>>
    BY <2>1, NodeParts
  <2>3. pos % 2 = 0 /\ pos + 1 < size
    BY <1>1, <2>1, <2>2 DEF IsEven
  <2>4. PICK k \in Nat : k = pos \div 2
    BY <2>2
  <2>5. pos = 2*k /\ k \in 0 .. (size \div 2) - 1
    BY <1>1, <2>2, <2>3, <2>4
  <2> QED BY <2>2, <2>5
<1>5. f \in Bijection(0 .. (size \div 2) - 1, row)
  <2>1. f \in [0 .. (size \div 2) - 1 -> row]
    BY <1>3
  <2>2. \A a, b \in 0 .. (size \div 2) - 1 : f[a] = f[b] => a = b
    BY <1>1
  <2>3. \A nd \in row : \E k \in 0 .. (size \div 2) - 1 : f[k] = nd
    BY <1>4
  <2> HIDE DEF f, row
  <2> QED BY <2>1, <2>2, <2>3 DEF Bijection, Injection, Surjection, IsInjective
<1>6. IsFiniteSet(0 .. (size \div 2) - 1) /\ Cardinality(0 .. (size \div 2) - 1) = size \div 2
  <2>1. PICK top \in Int : top = (size \div 2) - 1 /\ top >= 0
    BY <1>1
  <2>2. IsFiniteSet(0 .. top) /\ Cardinality(0 .. top) = IF 0 > top THEN 0 ELSE top-0+1
    BY FS_Interval
  <2> QED BY <1>1, <2>1, <2>2
<1>7. ExistsBijection(0 .. (size \div 2) - 1, row)
  BY <1>5 DEF ExistsBijection
<1> HIDE DEF row
<1>8. IsFiniteSet(row) /\ Cardinality(row) = size \div 2
  BY <1>6, <1>7, FS_Bijection
<1> QED BY <1>8 DEF row, size

LEMMA EvenNodesBelow ==
  ASSUME NEW lvl \in 0 .. Depth
  PROVE  Cardinality(Below(lvl)) = N - LevelSize(N, lvl)
<1> DEFINE Bad == {l \in 0 .. Depth : Cardinality(Below(l)) # N - LevelSize(N, l)}
<1>1. Bad = {}
  <2> SUFFICES ASSUME Bad # {} PROVE FALSE
    OBVIOUS
  <2>1. PICK l \in Bad : \A j \in Bad : l <= j
    <3>1. Bad \subseteq Nat
      BY SizeAssumption
    <3> HIDE DEF Bad
    <3> QED BY <3>1, Least
  <2>2. l # 0
    <3> SUFFICES ASSUME l = 0 PROVE Cardinality(Below(0)) = N - LevelSize(N, 0)
      OBVIOUS
    <3>1. Below(0) = {}
      <4>1. \A nd \in EvenNodes : Lvl(nd) \in Nat
        BY NodeParts DEF EvenNodes
      <4> QED BY <4>1 DEF Below
    <3>2. LevelSize(N, 0) = N
      <4>1. 2^0 = 1
        OBVIOUS
      <4> QED BY <4>1, SizeAssumption DEF LevelSize
    <3> QED BY <3>1, <3>2, FS_EmptySet, SizeAssumption
  <2>3. PICK k \in 0 .. Depth-1 : l = k + 1
    <3>1. l - 1 \in 0 .. Depth-1 /\ l = (l - 1) + 1
      BY <2>2, SizeAssumption
    <3> QED BY <3>1
  <2>4. k \notin Bad
    BY <2>1, <2>3, SizeAssumption
  <2>5. k \in Nat /\ k \in 0 .. Depth
    BY SizeAssumption
  <2>6. Cardinality(Below(k)) = N - LevelSize(N, k)
    BY <2>4, <2>5
  <2> DEFINE row == {nd \in EvenNodes : Lvl(nd) = k}
  <2>7. IsFiniteSet(row) /\ Cardinality(row) = LevelSize(N, k) \div 2
    BY PairsOfLevel
  <2>8. Below(l) = Below(k) \cup row /\ Below(k) \cap row = {}
    <3>1. \A nd \in EvenNodes : Lvl(nd) \in Nat
      BY NodeParts DEF EvenNodes
    <3> QED BY <2>3, <2>5, <3>1 DEF Below
  <2>9. IsFiniteSet(Below(k))
    <3>1. Below(k) \subseteq Nodes
      BY DEF Below, EvenNodes
    <3> QED BY <3>1, NodesFinite, FS_Subset
  <2> HIDE DEF row
  <2>10. Cardinality(Below(l)) = Cardinality(Below(k)) + Cardinality(row)
    BY <2>7, <2>8, <2>9, DisjointUnion
  <2>11. LevelSize(N, k) \in Nat /\ LevelSize(N, l) = (LevelSize(N, k) + 1) \div 2
    BY <2>3, <2>5, LevelHalves, SizeAssumption
  <2>12. Cardinality(Below(l)) = N - LevelSize(N, l)
    <3>1. PICK m \in Nat : m = LevelSize(N, k)
      BY <2>11
    <3>2. m - (m \div 2) = (m + 1) \div 2
      BY <3>1
    <3>3. Cardinality(Below(l)) = (N - m) + (m \div 2)
      BY <2>6, <2>7, <2>10, <3>1
    <3>4. (N - m) + (m \div 2) = N - (m - (m \div 2))
      BY <3>1, SizeAssumption
    <3>5. LevelSize(N, l) = (m + 1) \div 2
      BY <2>11, <3>1
    <3> QED BY <3>2, <3>3, <3>4, <3>5
  <2> QED BY <2>12
<1>2. lvl \notin Bad
  BY <1>1
<1> QED BY <1>2

LEMMA PairCount == IsFiniteSet(EvenNodes) /\ Cardinality(EvenNodes) = N - 1
<1>1. EvenNodes = Below(Depth)
  <2> SUFFICES ASSUME NEW nd \in EvenNodes PROVE Lvl(nd) < Depth
    BY DEF Below
  <2>1. Lvl(nd) \in 0 .. Depth /\ ~IsRootLevel(N, Lvl(nd))
    BY NodeParts DEF EvenNodes
  <2> QED BY <2>1, SizeAssumption
<1>2. LevelSize(N, Depth) = 1 /\ Depth \in 0 .. Depth
  BY SizeAssumption DEF IsRootLevel
<1>3. Cardinality(Below(Depth)) = N - 1
  <2>1. Cardinality(Below(Depth)) = N - LevelSize(N, Depth)
    BY <1>2, EvenNodesBelow
  <2> QED BY <1>2, <2>1
<1>4. EvenNodes \subseteq Nodes
  BY DEF EvenNodes
<1> QED BY <1>1, <1>3, <1>4, NodesFinite, FS_Subset

LEMMA ShippedAreSent ==
  ASSUME NEW w \in Workers
  PROVE  ShippedNodes(N, W, Depth, w) = Of("sent", w)
<1>1. ASSUME NEW nd \in Nodes, ~IsEven(nd)
      PROVE  ParentOwner(N, W, nd) = OwnerOf[Sibling(nd)] /\ Owner(N, W, nd) = OwnerOf[nd]
  <2>1. Sibling(nd) \in Nodes
    BY <1>1, SiblingInNodes DEF Unpaired
  <2>2. Sibling(nd) = <<Lvl(nd), Pos(nd) - (Pos(nd) % 2)>>
    BY <1>1, NodeParts DEF Sibling, IsEven
  <2> QED BY <2>1, <2>2 DEF ParentOwner, OwnerOf
<1> QED BY <1>1 DEF ShippedNodes, Nodes, Of, HandOffs

LEMMA RootTotals ==
  ASSUME IInv, FInv, WInv, RootFormed
  PROVE  /\ Total("n_combines") = N - 1
         /\ Total("peer_sends") = Cardinality(HandOffs)
         /\ Total("peer_recvs") = Cardinality(HandOffs)
<1>1. ASSUME NEW s \in Senses, NEW w \in Workers
      PROVE  Counter(s, w) = Cardinality(Of(s, w)) /\ IsFiniteSet(Of(s, w))
  <2>1. Of(s, w) \subseteq Nodes
    BY OfFacts
  <2> QED BY <2>1, RootCounts, NodesFinite, FS_Subset
<1>2. ASSUME NEW s \in Senses, NEW field, \A w \in Workers : stats[w][field] = Counter(s, w)
      PROVE  Total(field) = Cardinality(UNION {Of(s, w) : w \in Workers})
  <2> DEFINE F == [w \in Workers |-> Of(s, w)]
  <2>1. \A w \in Workers : IsFiniteSet(F[w]) /\ stats[w][field] = Cardinality(F[w])
    BY <1>1, <1>2
  <2>2. \A v, w \in Workers : v # w => F[v] \cap F[w] = {}
    <3> SUFFICES ASSUME NEW v \in Workers, NEW w \in Workers, v # w PROVE F[v] \cap F[w] = {}
      OBVIOUS
    <3> QED BY OfFacts
  <2>3. {F[w] : w \in Workers} = {Of(s, w) : w \in Workers}
    OBVIOUS
  <2> HIDE DEF F
  <2>4. SizesOf(stats, field, F)
    BY <2>1, <2>2 DEF SizesOf
  <2>5. SumsTo(stats, field, Gathered(F))
    BY <2>4, SumOfSizes, Zenon
  <2> QED BY <2>3, <2>5, TotalIs DEF SumsTo, Gathered
<1>3. \A w \in Workers : /\ stats[w].n_combines = Counter("joined", w)
                         /\ stats[w].peer_sends = Counter("sent", w)
                         /\ stats[w].peer_recvs = Counter("got", w)
  BY CountersOf
<1>4. "joined" \in Senses /\ "sent" \in Senses /\ "got" \in Senses
  BY DEF Senses
<1>5. UNION {Of("joined", w) : w \in Workers} = EvenNodes
  <2>1. \A nd \in EvenNodes : OwnerOf[nd] \in Workers
    BY OwnerIsWorker DEF EvenNodes
  <2>2. \A w \in Workers : Of("joined", w) = {nd \in EvenNodes : OwnerOf[nd] = w}
    BY DEF Of
  <2> QED BY <2>1, <2>2
<1>6. UNION {Of("sent", w) : w \in Workers} = HandOffs
  <2>1. \A nd \in HandOffs : OwnerOf[nd] \in Workers
    BY OwnerIsWorker DEF HandOffs
  <2>2. \A w \in Workers : Of("sent", w) = {nd \in HandOffs : OwnerOf[nd] = w}
    BY DEF Of
  <2> QED BY <2>1, <2>2
<1>7. UNION {Of("got", w) : w \in Workers} = HandOffs
  <2>1. \A nd \in HandOffs : OwnerOf[Sibling(nd)] \in Workers
    BY SiblingInNodes, OwnerIsWorker DEF HandOffs, Unpaired
  <2>2. \A w \in Workers : Of("got", w) = {nd \in HandOffs : OwnerOf[Sibling(nd)] = w}
    BY DEF Of
  <2> QED BY <2>1, <2>2
<1>8. Total("n_combines") = N - 1
  BY <1>2, <1>3, <1>4, <1>5, PairCount
<1>9. Total("peer_sends") = Cardinality(HandOffs)
  BY <1>2, <1>3, <1>4, <1>6
<1>10. Total("peer_recvs") = Cardinality(HandOffs)
  BY <1>2, <1>3, <1>4, <1>7
<1> QED BY <1>8, <1>9, <1>10

(* What run reports without asking the workers is true: when the root is in,  *)
(* n-1 combines have been made, every worker has shipped exactly the boundary *)
(* nodes that reduction_edges foresees, and every hand-off was taken once,    *)
(* whatever was stolen, repeated or given up on the way.                     *)
THEOREM WitnessIsTheTree == Spec => []WitnessOfTheTree
<1>1. IInv /\ FInv /\ WInv => WitnessOfTheTree
  <2> SUFFICES ASSUME IInv, FInv, WInv, RootIn
               PROVE  /\ Total("n_combines") = N - 1
                      /\ Total("peer_sends") = Total("peer_recvs")
                      /\ \A w \in Workers : stats[w].peer_sends = Cardinality(ShippedNodes(N, W, Depth, w))
    BY DEF WitnessOfTheTree
  <2>1. RootFormed
    BY DEF RootIn, RootFormed
  <2>2. ASSUME NEW w \in Workers PROVE stats[w].peer_sends = Cardinality(ShippedNodes(N, W, Depth, w))
    <3>1. "sent" \in Senses
      BY DEF Senses
    <3> QED BY <2>1, <3>1, RootCounts, CountersOf, ShippedAreSent
  <2> QED BY <2>1, <2>2, RootTotals
<1> QED BY <1>1, CountInvariant, PTL

-----------------------------------------------------------------------------
(* A total, as the size of a set, and what one more in one counter does to it. *)

GoodStats(st) == \A v \in Workers : \A field \in StatFields : st[v][field] \in Nat
Strokes(st, field) == [v \in Workers |-> {v} \X (1 .. st[v][field])]

LEMMA TallyOf ==
  ASSUME NEW st, GoodStats(st), NEW field \in StatFields
  PROVE  SumsTo(st, field, Gathered(Strokes(st, field)))
<1> DEFINE F == Strokes(st, field)
<1>1. ASSUME NEW v \in Workers PROVE IsFiniteSet(F[v]) /\ st[v][field] = Cardinality(F[v])
  <2>1. PICK n \in Nat : n = st[v][field]
    BY DEF GoodStats
  <2>2. IsFiniteSet(1 .. n) /\ Cardinality(1 .. n) = n
    BY FS_Interval
  <2>3. IsFiniteSet({v}) /\ Cardinality({v}) = 1
    BY FS_Singleton
  <2>4. PICK S, T : S = {v} /\ T = 1 .. n
    OBVIOUS
  <2>5. IsFiniteSet(S \X T) /\ Cardinality(S \X T) = Cardinality(S) * Cardinality(T)
    BY <2>2, <2>3, <2>4, FS_Product, Zenon
  <2>6. F[v] = S \X T
    BY <2>1, <2>4 DEF Strokes
  <2> QED BY <2>1, <2>2, <2>3, <2>4, <2>5, <2>6
<1>2. \A v, u \in Workers : v # u => F[v] \cap F[u] = {}
  BY DEF Strokes
<1>3. SizesOf(st, field, F)
  <2> HIDE DEF F
  <2> QED BY <1>1, <1>2 DEF SizesOf
<1> QED BY <1>3, SumOfSizes, Zenon

LEMMA TotalType ==
  ASSUME NEW st, GoodStats(st), NEW field \in StatFields
  PROVE  TotalOf(st, field) \in Nat
BY TallyOf, FS_CardinalityType, Zenon DEF SumsTo

LEMMA TotalStays ==
  ASSUME NEW st, NEW more, GoodStats(st), GoodStats(more), NEW field \in StatFields,
         \A v \in Workers : more[v][field] = st[v][field]
  PROVE  TotalOf(more, field) = TotalOf(st, field)
<1>1. Strokes(more, field) = Strokes(st, field)
  BY DEF Strokes
<1>2. /\ TotalOf(st, field) = Cardinality(Gathered(Strokes(st, field)))
      /\ TotalOf(more, field) = Cardinality(Gathered(Strokes(more, field)))
  BY TallyOf, Zenon DEF SumsTo
<1> QED BY <1>1, <1>2

LEMMA TotalGrows ==
  ASSUME NEW st, NEW more, GoodStats(st), GoodStats(more), NEW field \in StatFields, NEW w \in Workers,
         more[w][field] = st[w][field] + 1, \A v \in Workers \ {w} : more[v][field] = st[v][field]
  PROVE  TotalOf(more, field) = TotalOf(st, field) + 1
<1> DEFINE S == Gathered(Strokes(st, field))
           T == Gathered(Strokes(more, field))
           x == <<w, st[w][field] + 1>>
<1>1. st[w][field] \in Nat
  BY DEF GoodStats
<1>2. 1 .. st[w][field] + 1 = (1 .. st[w][field]) \cup {st[w][field] + 1}
  BY <1>1
<1>3. Strokes(more, field)[w] = Strokes(st, field)[w] \cup {x}
  BY <1>2 DEF Strokes
<1>4. \A v \in Workers \ {w} : Strokes(more, field)[v] = Strokes(st, field)[v]
  BY DEF Strokes
<1>5. T = S \cup {x}
  BY <1>3, <1>4 DEF Gathered
<1>6. x \notin S
  <2>1. \A v \in Workers : x \in Strokes(st, field)[v] => v = w /\ st[w][field] + 1 \in 1 .. st[w][field]
    BY DEF Strokes
  <2> QED BY <1>1, <2>1 DEF Gathered
<1>7. /\ IsFiniteSet(S) /\ TotalOf(st, field) = Cardinality(S) /\ TotalOf(more, field) = Cardinality(T)
  BY TallyOf, Zenon DEF SumsTo
<1> HIDE DEF S, T, x
<1>8. Cardinality(S \cup {x}) = IF x \in S THEN Cardinality(S) ELSE Cardinality(S) + 1
  BY <1>7, FS_AddElement, Zenon
<1> QED BY <1>5, <1>6, <1>7, <1>8

LEMMA StatsAreGood == IInv => GoodStats(stats)
BY DEF IInv, TypeOK, GoodStats

(* The books of the thefts: unless a leaf was lost, the leaves processed and   *)
(* those still to do are all leaves, the leaves given are those received and  *)
(* those on their way, and every worker began with the leaves of its slice.   *)
Books(st, m, waiting, travelling) ==
  /\ TotalOf(st, "processed") + waiting = N
  /\ TotalOf(st, "given") = TotalOf(st, "steals") + travelling
  /\ \A w \in Workers :
       st[w].processed + st[w].given + Len(m[w]) = Cardinality(SliceItems(N, W, w)) + st[w].steals
CInv == repeats = 0 /\ AllFound => Books(stats, mine, Waits(Now), Travelling(Now))

LEMMA BooksNext ==
  ASSUME Books(stats', mine', Waits(Now'), Travelling(Now'))
  PROVE  CInv'
<1>1. PICK t : t = Now'
  OBVIOUS
<1> QED BY <1>1 DEF CInv, Books, Waits, Travelling, Lying, On, Holds, Stock, Copies, Shelves

(* An action that touches no leaf leaves the books as they are.               *)
KeepsBooks ==
  /\ \A w \in Workers : Len(mine'[w]) = Len(mine[w])
  /\ \A w \in Workers : \A field \in {"processed", "given", "steals"} : stats'[w][field] = stats[w][field]

LEMMA BooksStay ==
  ASSUME IInv, IInv', AllAlone, CInv, repeats = 0, Unmoved, KeepsBooks
  PROVE  CInv'
<1> SUFFICES ASSUME AllFound' PROVE Books(stats', mine', Waits(Now'), Travelling(Now'))
  BY BooksNext DEF CInv
<1>1. PICK t, st, m : t = Now' /\ st = stats' /\ m = mine'
  OBVIOUS
<1>2. AllFound /\ Waits(t) = Waits(Now) /\ Travelling(t) = Travelling(Now)
  BY <1>1, UnmovedLying DEF Waits, Travelling
<1>3. Books(stats, mine, Waits(Now), Travelling(Now))
  BY <1>2 DEF CInv
<1>4. GoodStats(stats) /\ GoodStats(st)
  BY <1>1, StatsAreGood DEF IInv, TypeOK, GoodStats
<1>5. \A field \in {"processed", "given", "steals"} :
        field \in StatFields /\ TotalOf(st, field) = TotalOf(stats, field)
  BY <1>1, <1>4, TotalStays DEF KeepsBooks, StatFields
<1>6. Books(st, m, Waits(t), Travelling(t))
  BY <1>1, <1>2, <1>3, <1>5 DEF Books, KeepsBooks
<1> QED BY <1>1, <1>6

(* An action that counts one leaf.                                           *)
Stroke(w, field, longer) ==
  /\ stats' = [stats EXCEPT ![w][field] = @ + 1]
  /\ Len(mine'[w]) = Len(mine[w]) + longer
  /\ \A v \in Workers \ {w} : Len(mine'[v]) = Len(mine[v])
Stroked(st, m, w, field, longer) ==
  /\ TotalOf(st, field) = TotalOf(stats, field) + 1
  /\ \A other \in {"processed", "given", "steals"} \ {field} : TotalOf(st, other) = TotalOf(stats, other)
  /\ st[w][field] = stats[w][field] + 1
  /\ \A other \in {"processed", "given", "steals"} \ {field} : st[w][other] = stats[w][other]
  /\ \A v \in Workers \ {w} : Len(m[v]) = Len(mine[v]) /\ st[v] = stats[v]
  /\ Len(m[w]) = Len(mine[w]) + longer

LEMMA StrokeCounts ==
  ASSUME IInv, NEW w \in Workers, NEW field \in {"processed", "given", "steals"}, NEW longer,
         Stroke(w, field, longer)
  PROVE  Stroked(stats', mine', w, field, longer)
<1>1. PICK st, m : st = stats' /\ m = mine'
  OBVIOUS
<1>2. field \in StatFields /\ {"processed", "given", "steals"} \subseteq StatFields
  BY DEF StatFields
<1>3. stats \in [Workers -> [StatFields -> Nat]]
  BY DEF IInv, TypeOK
<1>4. /\ st[w][field] = stats[w][field] + 1
      /\ \A other \in StatFields \ {field} : st[w][other] = stats[w][other]
      /\ \A v \in Workers \ {w} : st[v] = stats[v]
  BY <1>1, <1>2, <1>3 DEF Stroke
<1>5. GoodStats(stats)
  BY StatsAreGood
<1>6. GoodStats(st)
  BY <1>2, <1>4, <1>5 DEF GoodStats
<1>7. TotalOf(st, field) = TotalOf(stats, field) + 1
  BY <1>2, <1>4, <1>5, <1>6, TotalGrows
<1>8. \A other \in {"processed", "given", "steals"} \ {field} :
        TotalOf(st, other) = TotalOf(stats, other) /\ st[w][other] = stats[w][other]
  <2> SUFFICES ASSUME NEW other \in {"processed", "given", "steals"} \ {field}
               PROVE  TotalOf(st, other) = TotalOf(stats, other) /\ st[w][other] = stats[w][other]
    OBVIOUS
  <2>1. other \in StatFields /\ other # field
    BY <1>2
  <2>2. \A v \in Workers : st[v][other] = stats[v][other]
    BY <1>4, <2>1
  <2> QED BY <1>5, <1>6, <2>1, <2>2, TotalStays
<1> QED BY <1>1, <1>4, <1>7, <1>8 DEF Stroke, Stroked

BooksNumbers(st, m) ==
  /\ TotalOf(st, "processed") \in Nat /\ TotalOf(st, "given") \in Nat /\ TotalOf(st, "steals") \in Nat
  /\ \A w \in Workers : /\ st[w].processed \in Nat /\ st[w].given \in Nat /\ st[w].steals \in Nat
                        /\ Len(m[w]) \in Nat /\ Cardinality(SliceItems(N, W, w)) \in Nat

LEMMA SliceFinite ==
  ASSUME NEW w \in Workers
  PROVE  IsFiniteSet(SliceItems(N, W, w)) /\ Cardinality(SliceItems(N, W, w)) \in Nat
<1>1. IsFiniteSet(0 .. N-1)
  BY SizeAssumption, FS_Interval
<1>2. SliceItems(N, W, w) \subseteq 0 .. N-1
  BY DEF SliceItems
<1>3. IsFiniteSet(SliceItems(N, W, w))
  BY <1>1, <1>2, FS_Subset
<1> QED BY <1>3, FS_CardinalityType

LEMMA NumbersAre == IInv => BooksNumbers(stats, mine)
<1> SUFFICES ASSUME IInv PROVE BooksNumbers(stats, mine)
  OBVIOUS
<1>1. GoodStats(stats) /\ {"processed", "given", "steals"} \subseteq StatFields
  BY StatsAreGood DEF StatFields
<1>2. mine \in [Workers -> Seq(Leaves)]
  BY DEF IInv, TypeOK
<1>3. \A w \in Workers : Len(mine[w]) \in Nat
  BY <1>2
<1> QED BY <1>1, <1>3, TotalType, SliceFinite DEF BooksNumbers, GoodStats

(* The kinds of strokes.                                                     *)
LEMMA BooksStroked ==
  ASSUME IInv, NEW w \in Workers, NEW st, NEW m, NEW waits \in Nat, NEW travels \in Nat,
         NEW waiting \in Nat, NEW travelling \in Nat, Books(stats, mine, waits, travels)
  PROVE  /\ /\ Stroked(st, m, w, "processed", -1)
            /\ waiting + 1 = waits /\ travelling = travels
            => Books(st, m, waiting, travelling)
         /\ /\ Stroked(st, m, w, "given", -1)
            /\ waiting = waits /\ travelling = travels + 1
            => Books(st, m, waiting, travelling)
         /\ /\ Stroked(st, m, w, "steals", 1)
            /\ waiting = waits /\ travelling + 1 = travels
            => Books(st, m, waiting, travelling)
<1>1. BooksNumbers(stats, mine)
  BY NumbersAre
<1>2. ASSUME NEW field \in {"processed", "given", "steals"}, NEW longer \in Int, Stroked(st, m, w, field, longer),
             \/ field \in {"processed", "given"} /\ longer = -1
             \/ field = "steals" /\ longer = 1,
             NEW v \in Workers
      PROVE  st[v].processed + st[v].given + Len(m[v]) = Cardinality(SliceItems(N, W, v)) + st[v].steals
  <2>1. stats[v].processed + stats[v].given + Len(mine[v]) = Cardinality(SliceItems(N, W, v)) + stats[v].steals
    BY DEF Books
  <2>2. PICK done \in Nat, gave \in Nat, stole \in Nat, left \in Nat, slice \in Nat :
          /\ stats[v].processed = done /\ stats[v].given = gave /\ stats[v].steals = stole
          /\ Len(mine[v]) = left /\ Cardinality(SliceItems(N, W, v)) = slice
    BY <1>1 DEF BooksNumbers
  <2>5. done + gave + left = slice + stole
    BY <2>1, <2>2
  <2>3. CASE v # w
    <3>1. st[v] = stats[v] /\ Len(m[v]) = Len(mine[v])
      BY <1>2, <2>3 DEF Stroked
    <3> QED BY <2>1, <3>1
  <2>4. CASE v = w
    <3>1. /\ st[v][field] = stats[v][field] + 1 /\ Len(m[v]) = Len(mine[v]) + longer
          /\ \A other \in {"processed", "given", "steals"} \ {field} : st[v][other] = stats[v][other]
      BY <1>2, <2>4 DEF Stroked
    <3>2. CASE field = "processed"
      <4>1. st[v].processed = done + 1 /\ st[v].given = gave /\ st[v].steals = stole
        BY <2>2, <3>1, <3>2
      <4>2. Len(m[v]) = left - 1
        BY <1>2, <2>2, <3>1, <3>2
      <4> QED BY <2>2, <2>5, <4>1, <4>2
    <3>3. CASE field = "given"
      <4>1. st[v].processed = done /\ st[v].given = gave + 1 /\ st[v].steals = stole
        BY <2>2, <3>1, <3>3
      <4>2. Len(m[v]) = left - 1
        BY <1>2, <2>2, <3>1, <3>3
      <4> QED BY <2>2, <2>5, <4>1, <4>2
    <3>4. CASE field = "steals"
      <4>1. st[v].processed = done /\ st[v].given = gave /\ st[v].steals = stole + 1
        BY <2>2, <3>1, <3>4
      <4>2. Len(m[v]) = left + 1
        BY <1>2, <2>2, <3>1, <3>4
      <4> QED BY <2>2, <2>5, <4>1, <4>2
    <3> QED BY <3>2, <3>3, <3>4
  <2> QED BY <2>3, <2>4
<1>3. /\ TotalOf(stats, "processed") \in Nat /\ TotalOf(stats, "given") \in Nat /\ TotalOf(stats, "steals") \in Nat
      /\ TotalOf(stats, "processed") + waits = N /\ TotalOf(stats, "given") = TotalOf(stats, "steals") + travels
      /\ N \in Nat
  BY <1>1, SizeAssumption DEF BooksNumbers, Books
<1>4. ASSUME Stroked(st, m, w, "processed", -1), waiting + 1 = waits, travelling = travels
      PROVE  Books(st, m, waiting, travelling)
  <2>1. /\ TotalOf(st, "processed") = TotalOf(stats, "processed") + 1
        /\ TotalOf(st, "given") = TotalOf(stats, "given") /\ TotalOf(st, "steals") = TotalOf(stats, "steals")
    BY <1>4 DEF Stroked
  <2>2. TotalOf(st, "processed") + waiting = N /\ TotalOf(st, "given") = TotalOf(st, "steals") + travelling
    BY <1>3, <1>4, <2>1
  <2> QED BY <1>2, <1>4, <2>2 DEF Books
<1>5. ASSUME Stroked(st, m, w, "given", -1), waiting = waits, travelling = travels + 1
      PROVE  Books(st, m, waiting, travelling)
  <2>1. /\ TotalOf(st, "given") = TotalOf(stats, "given") + 1
        /\ TotalOf(st, "processed") = TotalOf(stats, "processed") /\ TotalOf(st, "steals") = TotalOf(stats, "steals")
    BY <1>5 DEF Stroked
  <2>2. TotalOf(st, "processed") + waiting = N /\ TotalOf(st, "given") = TotalOf(st, "steals") + travelling
    BY <1>3, <1>5, <2>1
  <2> QED BY <1>2, <1>5, <2>2 DEF Books
<1>6. ASSUME Stroked(st, m, w, "steals", 1), waiting = waits, travelling + 1 = travels
      PROVE  Books(st, m, waiting, travelling)
  <2>1. /\ TotalOf(st, "steals") = TotalOf(stats, "steals") + 1
        /\ TotalOf(st, "processed") = TotalOf(stats, "processed") /\ TotalOf(st, "given") = TotalOf(stats, "given")
    BY <1>6 DEF Stroked
  <2>2. TotalOf(st, "processed") + waiting = N /\ TotalOf(st, "given") = TotalOf(st, "steals") + travelling
    BY <1>3, <1>6, <2>1
  <2> QED BY <1>2, <1>6, <2>2 DEF Books
<1> QED BY <1>4, <1>5, <1>6

LEMMA CountsOfLeaves ==
  ASSUME NEW now
  PROVE  Waits(now) \in Nat /\ Travelling(now) \in Nat
BY LyingFinite DEF Waits, Travelling

LEMMA ShiftOfLeaves ==
  ASSUME NEW s, NEW t, NEW x
  PROVE  /\ \A from, to : /\ from \subseteq ToDo /\ from \cap Gone = {} /\ to \cap ToDo = {} /\ to \cap Gone = {}
                          /\ Shift(s, t, x, from, to)
                          => Waits(t) + 1 = Waits(s) /\ Travelling(t) = Travelling(s)
         /\ Shift(s, t, x, {"mine"}, Gone) => Waits(t) = Waits(s) /\ Travelling(t) = Travelling(s) + 1
         /\ Shift(s, t, x, {"granted"}, {"mine"}) => Waits(t) = Waits(s) /\ Travelling(t) + 1 = Travelling(s)
         /\ Shift(s, t, x, {"granting"}, {"granted"}) => Waits(t) = Waits(s) /\ Travelling(t) = Travelling(s)
         /\ \A from, to : /\ from \cap ToDo = {} /\ from \cap Gone = {} /\ to \cap ToDo = {} /\ to \cap Gone = {}
                          /\ Shift(s, t, x, from, to)
                          => Waits(t) = Waits(s) /\ Travelling(t) = Travelling(s)
<1>1. ToDo \in SUBSET Places /\ Gone \in SUBSET Places
  BY DEF ToDo, Gone, Places
<1>2. Gone \subseteq ToDo /\ {"mine"} \subseteq ToDo /\ {"mine"} \cap Gone = {}
      /\ {"granted"} \subseteq Gone /\ {"granting"} \subseteq Gone
      /\ {"granted"} \subseteq ToDo /\ {"granting"} \subseteq ToDo
  BY DEF ToDo, Gone
<1>3. ASSUME NEW from, NEW to, Shift(s, t, x, from, to), NEW kinds \in {ToDo, Gone}
      PROVE  /\ from \subseteq kinds /\ to \subseteq kinds =>
                  Cardinality(Lying(t, kinds)) = Cardinality(Lying(s, kinds))
             /\ from \subseteq kinds /\ to \cap kinds = {} =>
                  Cardinality(Lying(t, kinds)) + 1 = Cardinality(Lying(s, kinds))
             /\ from \cap kinds = {} /\ to \subseteq kinds =>
                  Cardinality(Lying(t, kinds)) = Cardinality(Lying(s, kinds)) + 1
             /\ from \cap kinds = {} /\ to \cap kinds = {} =>
                  Cardinality(Lying(t, kinds)) = Cardinality(Lying(s, kinds))
  <2>1. kinds \in SUBSET Places
    BY <1>1
  <2> QED BY <1>3, <2>1, ShiftCounts
<1> QED BY <1>2, <1>3 DEF Waits, Travelling

LEMMA ProcessBooks ==
  ASSUME IInv, AllAlone, FInv, CInv, repeats = 0, NEW w \in Workers, Process(w)
  PROVE  CInv'
<1> SUFFICES ASSUME AllFound' PROVE Books(stats', mine', Waits(Now'), Travelling(Now'))
  BY BooksNext DEF CInv
<1>1. PICK x \in Leaves : GoesHome(x, {"mine"}) \/ Travels(x, {"mine"}, {"back", "backing"})
  BY WorkerMoves DEF Worker
<1>2. AllFound /\ \E to \in {{"home"}, {"back", "backing"}} : Shift(Now, Now', x, {"mine"}, to)
  BY <1>1, HomeLying, TravelLying
<1>3. PICK t, st, m : t = Now' /\ st = stats' /\ m = mine'
  OBVIOUS
<1>4. Waits(t) + 1 = Waits(Now) /\ Travelling(t) = Travelling(Now)
  <2>1. PICK to \in {{"home"}, {"back", "backing"}} : Shift(Now, t, x, {"mine"}, to)
    BY <1>2, <1>3
  <2>2. /\ {"mine"} \subseteq ToDo /\ {"mine"} \cap Gone = {}
        /\ to \cap ToDo = {} /\ to \cap Gone = {}
    BY DEF ToDo, Gone
  <2> QED BY <2>1, <2>2, ShiftOfLeaves
<1>5. Stroke(w, "processed", -1)
  <2>1. mine \in [Workers -> Seq(Leaves)]
    BY DEF IInv, TypeOK
  <2>2. mine[w] # <<>> /\ mine' = [mine EXCEPT ![w] = Tail(@)] /\ Count(w, "processed")
    BY DEF Process, TakeLeaf
  <2>3. Len(mine'[w]) = Len(mine[w]) + (-1) /\ \A v \in Workers \ {w} : Len(mine'[v]) = Len(mine[v])
    BY <2>1, <2>2
  <2> QED BY <2>2, <2>3 DEF Stroke, Count
<1>6. Stroked(st, m, w, "processed", -1)
  <2>1. -1 \in Int
    OBVIOUS
  <2> QED BY <1>3, <1>5, <2>1, StrokeCounts
<1>7. Books(stats, mine, Waits(Now), Travelling(Now))
  BY <1>2 DEF CInv
<1>8. Books(st, m, Waits(t), Travelling(t))
  BY <1>4, <1>6, <1>7, CountsOfLeaves, BooksStroked
<1> QED BY <1>3, <1>8

LEMMA GiveBooks ==
  ASSUME IInv, AllAlone, FInv, CInv, repeats = 0, NEW w \in Workers, HandleStealReq(w), MayGive(w)
  PROVE  CInv'
<1> SUFFICES ASSUME AllFound' PROVE Books(stats', mine', Waits(Now'), Travelling(Now'))
  BY BooksNext DEF CInv
<1>1. PICK x \in Leaves : Travels(x, {"mine"}, Gone)
  BY WorkerMoves DEF Worker, Handle, Gone
<1>2. AllFound /\ Shift(Now, Now', x, {"mine"}, Gone)
  BY <1>1, TravelLying
<1>3. PICK t, st, m : t = Now' /\ st = stats' /\ m = mine'
  OBVIOUS
<1>4. Waits(t) = Waits(Now) /\ Travelling(t) = Travelling(Now) + 1
  BY <1>2, <1>3, ShiftOfLeaves
<1>5. Stroke(w, "given", -1)
  <2>1. mine \in [Workers -> Seq(Leaves)]
    BY DEF IInv, TypeOK
  <2>2. mine' = [mine EXCEPT ![w] = AllButFarEnd(@)] /\ Count(w, "given") /\ Len(mine[w]) > 1
    BY DEF HandleStealReq, MayGive
  <2>3. Len(AllButFarEnd(mine[w])) = Len(mine[w]) + (-1)
    <3>1. mine[w] \in Seq(Leaves)
      BY <2>1
    <3>2. Len(Front(mine[w])) = Len(mine[w]) - 1
      BY <2>2, <3>1, FrontNoMore
    <3> QED BY <3>1, <3>2 DEF AllButFarEnd
  <2>4. Len(mine'[w]) = Len(mine[w]) + (-1) /\ \A v \in Workers \ {w} : Len(mine'[v]) = Len(mine[v])
    BY <2>1, <2>2, <2>3
  <2> QED BY <2>2, <2>4 DEF Stroke, Count
<1>6. Stroked(st, m, w, "given", -1)
  BY <1>3, <1>5, StrokeCounts
<1>7. Books(stats, mine, Waits(Now), Travelling(Now))
  BY <1>2 DEF CInv
<1>8. Books(st, m, Waits(t), Travelling(t))
  BY <1>4, <1>6, <1>7, CountsOfLeaves, BooksStroked
<1> QED BY <1>3, <1>8

LEMMA ReceiveBooks ==
  ASSUME IInv, IInv', AllAlone, FInv, CInv, repeats = 0, NEW w \in Workers, HandleStealResp(w)
  PROVE  CInv'
<1>1. mine \in [Workers -> Seq(Leaves)] /\ stats \in [Workers -> [StatFields -> Nat]]
  BY DEF IInv, TypeOK
<1>2. /\ mine' = [mine EXCEPT ![w] = @ \o Msg(w).leaves]
      /\ stats' = [stats EXCEPT ![w].steals = @ + Len(Msg(w).leaves)]
  BY DEF HandleStealResp
<1>3. CASE Msg(w).leaves = <<>> /\ Unmoved
  <2>1. mine[w] \o <<>> = mine[w] /\ Len(<<>>) = 0 /\ stats[w].steals + 0 = stats[w].steals
    BY <1>1 DEF StatFields
  <2>2. mine' = mine /\ stats' = stats
    BY <1>1, <1>2, <1>3, <2>1 DEF StatFields
  <2>3. KeepsBooks
    BY <2>2 DEF KeepsBooks
  <2> QED BY <1>3, <2>3, BooksStay
<1>4. ASSUME NEW x \in Leaves, Msg(w).leaves = <<x>>, Travels(x, {"granted"}, {"mine"})
      PROVE  CInv'
  <2> SUFFICES ASSUME AllFound' PROVE Books(stats', mine', Waits(Now'), Travelling(Now'))
    BY BooksNext DEF CInv
  <2>1. AllFound /\ Shift(Now, Now', x, {"granted"}, {"mine"})
    BY <1>4, TravelLying
  <2>2. PICK t, st, m : t = Now' /\ st = stats' /\ m = mine'
    OBVIOUS
  <2>3. Waits(t) = Waits(Now) /\ Travelling(t) + 1 = Travelling(Now)
    BY <2>1, <2>2, ShiftOfLeaves
  <2>4. Stroke(w, "steals", 1)
    <3>1. Len(<<x>>) = 1 /\ mine[w] \in Seq(Leaves) /\ Len(mine[w] \o <<x>>) = Len(mine[w]) + 1
      BY <1>1
    <3>2. mine' = [mine EXCEPT ![w] = @ \o <<x>>] /\ stats' = [stats EXCEPT ![w].steals = @ + 1]
      BY <1>2, <1>4, <3>1
    <3>3. Len(mine'[w]) = Len(mine[w]) + 1 /\ \A v \in Workers \ {w} : Len(mine'[v]) = Len(mine[v])
      BY <1>1, <3>1, <3>2
    <3> QED BY <3>2, <3>3 DEF Stroke
  <2>5. Stroked(st, m, w, "steals", 1)
    BY <2>2, <2>4, StrokeCounts
  <2>6. Books(stats, mine, Waits(Now), Travelling(Now))
    BY <2>1 DEF CInv
  <2>7. Books(st, m, Waits(t), Travelling(t))
    BY <2>3, <2>5, <2>6, CountsOfLeaves, BooksStroked
  <2> QED BY <2>2, <2>7
<1>5. \/ Msg(w).leaves = <<>> /\ Unmoved
      \/ \E x \in Leaves : Msg(w).leaves = <<x>> /\ Travels(x, {"granted"}, {"mine"})
  BY WorkerMoves DEF Worker, Handle
<1> QED BY <1>3, <1>4, <1>5

(* A leaf that moves without a counter.                                      *)
LEMMA BooksMoved ==
  ASSUME IInv, IInv', AllAlone, CInv, repeats = 0, KeepsBooks, NEW x \in Leaves,
         \/ GoesHome(x, {"back"})
         \/ Travels(x, {"granting"}, {"granted"}) \/ Travels(x, {"backing"}, {"back"})
  PROVE  CInv'
<1> SUFFICES ASSUME AllFound' PROVE Books(stats', mine', Waits(Now'), Travelling(Now'))
  BY BooksNext DEF CInv
<1>1. PICK t, st, m : t = Now' /\ st = stats' /\ m = mine'
  OBVIOUS
<1>2. /\ AllFound
      /\ \/ Shift(Now, t, x, {"back"}, {"home"}) \/ Shift(Now, t, x, {"backing"}, {"back"})
         \/ Shift(Now, t, x, {"granting"}, {"granted"})
  BY <1>1, HomeLying, TravelLying
<1>3. Waits(t) = Waits(Now) /\ Travelling(t) = Travelling(Now)
  <2>1. /\ {"back"} \cap ToDo = {} /\ {"back"} \cap Gone = {} /\ {"home"} \cap ToDo = {} /\ {"home"} \cap Gone = {}
        /\ {"backing"} \cap ToDo = {} /\ {"backing"} \cap Gone = {}
    BY DEF ToDo, Gone
  <2> QED BY <1>2, <2>1, ShiftOfLeaves
<1>4. Books(stats, mine, Waits(Now), Travelling(Now))
  BY <1>2 DEF CInv
<1>5. GoodStats(stats) /\ GoodStats(st)
  BY <1>1, StatsAreGood DEF IInv, TypeOK, GoodStats
<1>6. \A field \in {"processed", "given", "steals"} :
        field \in StatFields /\ TotalOf(st, field) = TotalOf(stats, field)
  BY <1>1, <1>5, TotalStays DEF KeepsBooks, StatFields
<1>7. Books(st, m, Waits(t), Travelling(t))
  BY <1>1, <1>3, <1>4, <1>6 DEF Books, KeepsBooks
<1> QED BY <1>1, <1>7

LEMMA StillBooks ==
  ASSUME UNCHANGED <<mine, stats>>
  PROVE  KeepsBooks
BY DEF KeepsBooks

LEMMA OtherBooks ==
  ASSUME IInv, NEW w \in Workers, NEW field \in {"peer_sends", "peer_recvs", "n_combines"},
         UNCHANGED mine, Count(w, field)
  PROVE  KeepsBooks
<1>1. stats \in [Workers -> [StatFields -> Nat]]
  BY DEF IInv, TypeOK
<1>2. PICK st : st = stats'
  OBVIOUS
<1>3. \A v \in Workers : \A other \in StatFields \ {field} : st[v][other] = stats[v][other]
  BY <1>1, <1>2 DEF Count, StatFields
<1>4. {"processed", "given", "steals"} \subseteq StatFields \ {field}
  BY DEF StatFields
<1> QED BY <1>2, <1>3, <1>4 DEF KeepsBooks

LEMMA WorkerBooks ==
  ASSUME IInv, IInv', AllAlone, FInv, CInv, repeats = 0, NEW w \in Workers, Worker(w)
  PROVE  CInv'
<1>1. ASSUME Unmoved, KeepsBooks PROVE CInv'
  BY <1>1, BooksStay
<1>2. CASE ProcessRaises(w)
  <2>1. PICK leaf \in Leaves : ~Home(leaf)' /\ Nowhere(Now', leaf)
    BY <1>2, ProcessRaisesStays
  <2>2. ~AllFound'
    BY <2>1, FoundNext DEF AllFound
  <2> QED BY <2>2 DEF CInv
<1>3. CASE Process(w)
  BY <1>3, ProcessBooks
<1>4. CASE HandleStealReq(w) /\ MayGive(w)
  BY <1>4, GiveBooks
<1>5. CASE HandleStealResp(w)
  BY <1>5, ReceiveBooks
<1>6. CASE HandleLeaf(w)
  <2>1. KeepsBooks
    BY <1>6, StillBooks DEF HandleLeaf
  <2> QED BY <1>6, <2>1, WorkerMoves, BooksMoved
<1>7. CASE HandleStealReq(w) /\ ~MayGive(w)
  <2>1. KeepsBooks /\ Unmoved
    BY <1>7, StillBooks, WorkerMoves DEF HandleStealReq
  <2> QED BY <1>1, <2>1
<1>8. CASE Settle(w) \/ HandleNode(w)
  <2>1. UNCHANGED mine
    BY <1>8 DEF Settle, SettleRoot, SettleCarry, SettleShip, SettlePark, SettleCombine, HandleNode, loopVars
  <2>2. \/ UNCHANGED stats
        \/ \E field \in {"peer_sends", "peer_recvs", "n_combines"} : Count(w, field)
    BY <1>8 DEF Settle, SettleRoot, SettleCarry, SettleShip, SettlePark, SettleCombine, HandleNode
  <2>3. KeepsBooks
    BY <2>1, <2>2, StillBooks, OtherBooks
  <2> QED BY <1>1, <1>8, <2>3, WorkerMoves
<1>9. CASE Poll(w) \/ Recv(w) \/ AskSteal(w) \/ HandleDone(w) \/ HandleOther(w) \/ Await(w)
  <2>1. KeepsBooks
    BY <1>9, StillBooks DEF Poll, Recv, AskSteal, HandleDone, HandleOther, Await
  <2> QED BY <1>1, <1>9, <2>1, WorkerMoves
<1> QED BY <1>2, <1>3, <1>4, <1>5, <1>6, <1>7, <1>8, <1>9 DEF Worker, Handle

LEMMA NextBooks ==
  ASSUME IInv, IInv', UInv, FInv, CInv, [Next]_vars
  PROVE  CInv'
<1>1. ASSUME NEW w \in Workers, Worker(w) PROVE CInv'
  <2>1. repeats' = repeats
    BY <1>1 DEF Worker, Settle, Handle, Await, SettleRoot, SettleCarry, SettleShip, SettlePark, SettleCombine,
         Poll, Recv, AskSteal, ProcessRaises, Process, HandleNode, HandleLeaf, HandleStealReq, HandleStealResp,
         HandleDone, HandleOther, faultVars
  <2>2. CASE repeats = 0
    BY <1>1, <2>2, WorkerBooks DEF UInv
  <2>3. CASE repeats # 0
    BY <2>1, <2>3 DEF CInv
  <2> QED BY <2>2, <2>3
<1>2. ASSUME NEW e \in Endpoints, Post(e) \/ GiveUp(e) PROVE CInv'
  <2>1. repeats' = repeats /\ KeepsBooks
    BY <1>2, StillBooks DEF Post, GiveUp, faultVars, loopVars
  <2>2. CASE repeats = 0
    <3>1. AllAlone
      BY <2>2 DEF UInv
    <3> QED BY <1>2, <2>1, <2>2, <3>1, SenderMoves, BooksStay, BooksMoved
  <2>3. CASE repeats # 0
    BY <2>1, <2>3 DEF CInv
  <2> QED BY <2>2, <2>3
<1>3. ASSUME NEW e \in Endpoints, PostUnacknowledged(e) PROVE CInv'
  <2>1. repeats \in Nat /\ repeats' = repeats + 1
    BY <1>3 DEF PostUnacknowledged, IInv, TypeOK
  <2>2. repeats' # 0
    BY <2>1
  <2> QED BY <2>2 DEF CInv
<1>4. ASSUME Driver \/ Finished \/ UNCHANGED vars PROVE CInv'
  <2>1. repeats' = repeats /\ UNCHANGED <<mine, stats>>
    BY <1>4 DEF Driver, GatherHello, SendRegistry, HandshakeFails, CollectRoot, CollectOther, SeesError,
       DeadlinePasses, Join, JoinRaises, Teardown, Shutdown, Finished, vars, faultVars, loopVars
  <2>2. Unmoved
    <3>1. CASE Driver
      BY <3>1, DriverStays
    <3>2. CASE Finished \/ UNCHANGED vars
      BY <3>2, StillStays DEF Finished, vars, loopVars, wireVars, treeVars
    <3> QED BY <1>4, <3>1, <3>2
  <2>3. CASE repeats = 0
    BY <2>1, <2>2, <2>3, StillBooks, BooksStay DEF UInv
  <2>4. CASE repeats # 0
    BY <2>1, <2>4 DEF CInv
  <2> QED BY <2>3, <2>4
<1> QED BY <1>1, <1>2, <1>3, <1>4 DEF Next

LEMMA SliceLength ==
  ASSUME NEW w \in Workers
  PROVE  Len(LeafRange(N, W, w)) = Cardinality(SliceItems(N, W, w))
<1> DEFINE bounds == MakeBounds(N, W)
           lo == bounds[w]
           hi == bounds[w+1]
<1>1. N \in Nat \ {0} /\ W \in 1 .. N /\ w \in 0 .. W-1 /\ w \in 0 .. W /\ w+1 \in 0 .. W
  BY SizeAssumption DEF Workers
<1>2. lo \in Nat /\ hi \in Nat /\ lo < hi /\ hi <= N
  <2>1. /\ bounds[W] = N /\ \A j \in 0 .. W : bounds[j] \in Nat
        /\ \A j, k \in 0 .. W : j < k => bounds[j] < bounds[k]
    BY <1>1, BoundsAscend
  <2> HIDE DEF bounds
  <2>2. CASE w+1 = W
    BY <1>1, <2>1, <2>2
  <2>3. CASE w+1 < W
    BY <1>1, <2>1, <2>3
  <2> QED BY <1>1, <2>2, <2>3
<1>3. LeafRange(N, W, w) = [k \in 1 .. hi - lo |-> lo + k - 1]
  BY DEF LeafRange
<1>4. ASSUME NEW leaf \in 0 .. N-1 PROVE WorkerOf(leaf, bounds, W) = w <=> lo <= leaf /\ leaf < hi
  <2>1. WorkerOf(leaf, bounds, W) = w => lo <= leaf /\ leaf < hi
    BY <1>1, OwnerRange
  <2>2. lo <= leaf /\ leaf < hi => WorkerOf(leaf, bounds, W) = w
    BY <1>1, <1>4, RangeOwner
  <2> QED BY <2>1, <2>2
<1>5. SliceItems(N, W, w) = {leaf \in 0 .. N-1 : WorkerOf(leaf, bounds, W) = w}
  BY DEF SliceItems
<1> HIDE DEF bounds, lo, hi
<1>6. SliceItems(N, W, w) = lo .. hi - 1
  <2>1. \A leaf \in lo .. hi - 1 : leaf \in 0 .. N-1 /\ lo <= leaf /\ leaf < hi
    BY <1>1, <1>2
  <2>2. \A leaf \in 0 .. N-1 : lo <= leaf /\ leaf < hi => leaf \in lo .. hi - 1
    BY <1>2
  <2> QED BY <1>4, <1>5, <2>1, <2>2
<1>7. Cardinality(lo .. hi - 1) = hi - lo
  <2>1. PICK a \in Int, b \in Int : a = lo /\ b = hi - 1
    BY <1>2
  <2>2. Cardinality(a .. b) = IF a > b THEN 0 ELSE b - a + 1
    BY FS_Interval
  <2> QED BY <1>2, <2>1, <2>2
<1>8. hi - lo \in Nat
  BY <1>2
<1>9. Len([k \in 1 .. hi - lo |-> lo + k - 1]) = hi - lo
  BY <1>8
<1> QED BY <1>3, <1>6, <1>7, <1>9

LEMMA InitBooks ==
  ASSUME IInv, Init
  PROVE  CInv
<1>1. \A w \in Workers : \A field \in StatFields : stats[w][field] = 0
  BY DEF Init, NoStats
<1>2. ASSUME NEW field \in StatFields PROVE TotalOf(stats, field) = 0
  <2>1. \A v \in Workers : Strokes(stats, field)[v] = {}
    <3>1. \A v : {v} \X {} = {} /\ 1 .. 0 = {}
      OBVIOUS
    <3>2. \A v \in Workers : Strokes(stats, field)[v] = {v} \X (1 .. 0)
      BY <1>1 DEF Strokes
    <3> QED BY <3>1, <3>2
  <2>2. Gathered(Strokes(stats, field)) = {}
    BY <2>1 DEF Gathered
  <2>3. TotalOf(stats, field) = Cardinality(Gathered(Strokes(stats, field)))
    BY StatsAreGood, TallyOf, Zenon DEF SumsTo
  <2> QED BY <2>2, <2>3, FS_EmptySet
<1>3. \A field \in {"processed", "given", "steals"} : field \in StatFields
  BY DEF StatFields
<1>4. ASSUME NEW leaf \in Leaves
      PROVE  /\ leaf \in Lying(Now, ToDo) /\ leaf \notin Lying(Now, Gone)
  <2>1. PICK home \in Workers : home = OwnerOf[<<0, leaf>>]
    BY LeafNode, OwnerIsWorker
  <2>2. /\ On(Now, <<"mine", home>>, leaf) /\ <<"mine", home>> \in Shelves /\ <<"mine", home>>[1] = "mine"
        /\ \A c \in Shelves : On(Now, c, leaf) => c = <<"mine", home>>
    BY <2>1, InitShelves, ShelfIs DEF AtMostAt
  <2> QED BY <2>2 DEF Lying, ToDo, Gone
<1>5. Lying(Now, ToDo) = Leaves /\ Lying(Now, Gone) = {}
  <2>1. Lying(Now, ToDo) \subseteq Leaves /\ Lying(Now, Gone) \subseteq Leaves
    BY DEF Lying
  <2> QED BY <1>4, <2>1
<1>6. Waits(Now) = N /\ Travelling(Now) = 0
  <2>1. Cardinality(0 .. N-1) = N
    BY SizeAssumption, FS_Interval
  <2> QED BY <1>5, <2>1, FS_EmptySet DEF Waits, Travelling, Leaves
<1>7. TotalOf(stats, "processed") + Waits(Now) = N /\ TotalOf(stats, "given") = TotalOf(stats, "steals") + Travelling(Now)
  BY <1>2, <1>3, <1>6, SizeAssumption
<1>8. ASSUME NEW w \in Workers
      PROVE  stats[w].processed + stats[w].given + Len(mine[w]) = Cardinality(SliceItems(N, W, w)) + stats[w].steals
  <2>1. mine[w] = LeafRange(N, W, w)
    BY DEF Init
  <2>2. Len(mine[w]) = Cardinality(SliceItems(N, W, w)) /\ Cardinality(SliceItems(N, W, w)) \in Nat
    BY <2>1, SliceLength, SliceFinite
  <2>3. stats[w].processed = 0 /\ stats[w].given = 0 /\ stats[w].steals = 0
    BY <1>1, <1>3
  <2> QED BY <2>2, <2>3
<1> QED BY <1>7, <1>8 DEF CInv, Books

LEMMA RootBooks ==
  ASSUME IInv, CInv, RootIsAlone, RootFormed, AllAlone, repeats = 0
  PROVE  /\ Total("processed") = N
         /\ Total("given") = Total("steals")
         /\ \A w \in Workers :
              stats[w].processed + stats[w].given = Cardinality(SliceItems(N, W, w)) + stats[w].steals
<1>1. \A leaf \in Leaves : Home(leaf) /\ Nowhere(Now, leaf)
  BY RootAllHome
<1>2. \A kinds : Lying(Now, kinds) = {}
  BY <1>1 DEF Lying, Nowhere
<1>3. Waits(Now) = 0 /\ Travelling(Now) = 0
  BY <1>2, FS_EmptySet DEF Waits, Travelling
<1>4. AllFound
  BY <1>1 DEF AllFound, Found
<1>5. Books(stats, mine, 0, 0)
  BY <1>3, <1>4 DEF CInv
<1>6. BooksNumbers(stats, mine)
  BY NumbersAre
<1>7. TotalOf(stats, "processed") = N /\ TotalOf(stats, "given") = TotalOf(stats, "steals")
  BY <1>5, <1>6 DEF Books, BooksNumbers
<1>8. ASSUME NEW w \in Workers
      PROVE  stats[w].processed + stats[w].given = Cardinality(SliceItems(N, W, w)) + stats[w].steals
  <2>1. mine[w] = <<>>
    BY RootNoneLeft
  <2>2. Len(mine[w]) = 0
    BY <2>1
  <2>3. stats[w].processed + stats[w].given + 0 = Cardinality(SliceItems(N, W, w)) + stats[w].steals
    BY <1>5, <2>2 DEF Books
  <2>4. stats[w].processed \in Nat /\ stats[w].given \in Nat
    BY <1>6 DEF BooksNumbers
  <2> QED BY <2>3, <2>4
<1> QED BY <1>7, <1>8, TotalIs

(* Stealing moves leaves, it makes none and loses none: when the root is in,  *)
(* every leaf was processed once, every leaf given was received, and every   *)
(* worker has processed its slice, without what it gave, with what it stole  *)
(* (processed, given and steals in the summaries of run_peer).              *)
THEOREM StealsAlwaysBalance == Spec => [](repeats = 0 => StealsBalance)
<1>1. Init /\ IInv => CInv
  BY InitBooks
<1>2. IInv /\ FInv /\ UInv /\ IInv' /\ CInv /\ [Next]_vars => CInv'
  BY NextBooks
<1>3. IInv /\ UInv /\ CInv /\ RootIsAlone => (repeats = 0 => StealsBalance)
  <2> SUFFICES ASSUME IInv, UInv, CInv, RootIsAlone, repeats = 0, RootIn
               PROVE  /\ Total("processed") = N
                      /\ Total("given") = Total("steals")
                      /\ \A w \in Workers : stats[w].processed + stats[w].given
                                              = Cardinality(SliceItems(N, W, w)) + stats[w].steals
    BY DEF StealsBalance
  <2>1. RootFormed /\ AllAlone
    BY DEF RootIn, RootFormed, UInv
  <2> QED BY <2>1, RootBooks
<1> QED BY <1>1, <1>2, <1>3, AloneInvariant, RootComesLast, PTL DEF Spec

(* When a message cannot be delivered twice: on the queue transport, where    *)
(* nobody has a sender thread, and where no acknowledgement gets lost.        *)
NoSenders ==
  ~Async => repeats = 0 /\ driver # "handshake" /\ \A e \in Endpoints : out[e] = <<>>
DeliveredOnce == ~Async \/ opt.faults = 0 => repeats = 0

LEMMA SendsNone ==
  ASSUME ~Async, NEW w, NEW boxes, NEW dest, NEW msg, Send(w, boxes, dest, msg)
  PROVE  UNCHANGED out
BY DEF Send, NoSend, QueueSend

LEMMA WorkerSendsNone ==
  ASSUME IInv, ~Async, \A e \in Endpoints : out[e] = <<>>, NEW w \in Workers, Worker(w)
  PROVE  UNCHANGED <<repeats, driver, opt>> /\ \A e \in Endpoints : out'[e] = <<>>
<1>1. UNCHANGED <<repeats, driver, opt>>
  BY DEF Worker, Settle, Handle, Await, SettleRoot, SettleCarry, SettleShip, SettlePark, SettleCombine,
     Poll, Recv, AskSteal, ProcessRaises, Process, HandleNode, HandleLeaf, HandleStealReq, HandleStealResp,
     HandleDone, HandleOther, faultVars, driverVars
<1>2. UNCHANGED out \/ CloseTransport(w)
  <2>1. CASE Settle(w)
    BY <2>1, SendsNone DEF Settle, SettleRoot, SettleCarry, SettleShip, SettlePark, SettleCombine, wireVars
  <2>2. CASE AskSteal(w) \/ Process(w) \/ HandleStealReq(w)
    BY <2>2, SendsNone DEF AskSteal, Process, HandleStealReq, wireVars
  <2>3. CASE Await(w) \/ Poll(w) \/ Recv(w) \/ ProcessRaises(w) \/ HandleNode(w) \/ HandleLeaf(w)
               \/ HandleStealResp(w) \/ HandleDone(w) \/ HandleOther(w)
    BY <2>3 DEF Await, Poll, Recv, ProcessRaises, HandleNode, HandleLeaf, HandleStealResp, HandleDone,
       HandleOther, wireVars
  <2> QED BY <2>1, <2>2, <2>3 DEF Worker, Handle
<1>3. \A e \in Endpoints : out'[e] = <<>>
  BY <1>2, WireOfInv DEF CloseTransport, GoodOut
<1> QED BY <1>1, <1>3

LEMMA NextSendsNone ==
  ASSUME IInv, NoSenders, DeliveredOnce, [Next]_vars
  PROVE  NoSenders' /\ DeliveredOnce'
<1>1. repeats \in Nat /\ drops \in Nat
  BY DEF IInv, TypeOK
<1>2. ASSUME ~Async
      PROVE  repeats' = 0 /\ driver' # "handshake" /\ \A e \in Endpoints : out'[e] = <<>>
  <2>1. repeats = 0 /\ driver # "handshake" /\ \A e \in Endpoints : out[e] = <<>>
    BY <1>2 DEF NoSenders
  <2>2. ASSUME NEW w \in Workers, Worker(w)
        PROVE  repeats' = 0 /\ driver' # "handshake" /\ \A e \in Endpoints : out'[e] = <<>>
    BY <1>2, <2>1, <2>2, WorkerSendsNone
  <2>3. ASSUME NEW e \in Endpoints PROVE ~Post(e) /\ ~PostUnacknowledged(e) /\ ~GiveUp(e)
    BY <2>1 DEF Post, PostUnacknowledged, GiveUp
  <2>4. CASE Driver
    <3>1. ~GatherHello /\ ~SendRegistry /\ ~HandshakeFails
      BY <2>1 DEF GatherHello, SendRegistry, HandshakeFails
    <3>2. repeats' = repeats /\ driver' # "handshake"
      BY <2>1, <2>4, <3>1 DEF Driver, CollectRoot, CollectOther, SeesError, DeadlinePasses, Join, JoinRaises, Teardown,
         Shutdown, faultVars, driverVars, Reraised
    <3>3. UNCHANGED out \/ out' = [e \in Endpoints |-> IF e = DRIVER \/ Threads THEN <<>> ELSE out[e]]
      BY <1>2, <2>4, <3>1 DEF Driver, CollectRoot, CollectOther, SeesError, DeadlinePasses, Join, JoinRaises, Teardown,
         Shutdown, BroadcastDone, CloseTransports, wireVars
    <3> QED BY <2>1, <3>2, <3>3
  <2>5. CASE Finished \/ UNCHANGED vars
    BY <2>1, <2>5 DEF Finished, vars, wireVars, faultVars, driverVars
  <2> QED BY <2>2, <2>3, <2>4, <2>5 DEF Next
<1>3. ASSUME opt.faults = 0 PROVE repeats' = repeats
  <2>1. ASSUME NEW e \in Endpoints PROVE ~PostUnacknowledged(e)
    BY <1>1, <1>3 DEF PostUnacknowledged
  <2>2. ASSUME NEW w \in Workers, Worker(w) PROVE repeats' = repeats
    BY <2>2 DEF Worker, Settle, Handle, Await, SettleRoot, SettleCarry, SettleShip, SettlePark, SettleCombine,
       Poll, Recv, AskSteal, ProcessRaises, Process, HandleNode, HandleLeaf, HandleStealReq, HandleStealResp,
       HandleDone, HandleOther, faultVars
  <2>3. ASSUME NEW e \in Endpoints, Post(e) \/ GiveUp(e) PROVE repeats' = repeats
    BY <2>3 DEF Post, GiveUp, faultVars
  <2>4. CASE Driver \/ Finished \/ UNCHANGED vars
    BY <2>4 DEF Driver, GatherHello, SendRegistry, HandshakeFails, CollectRoot, CollectOther, SeesError,
       DeadlinePasses, Join, JoinRaises, Teardown, Shutdown, Finished, vars, faultVars
  <2> QED BY <2>1, <2>2, <2>3, <2>4 DEF Next
<1>4. opt' = opt
  BY OptStays
<1> QED BY <1>2, <1>3, <1>4 DEF NoSenders, DeliveredOnce

(* Where no message can be delivered twice, on the queue transport or when no  *)
(* acknowledgement is lost, no theft goes wrong in any run: nothing is left     *)
(* behind and the thefts balance (QueueTransport.send, HttpTransport.send).   *)
THEOREM TheftsBalance ==
  Spec => [](~Async \/ opt.faults = 0 => NothingLeftBehind /\ StealsBalance)
<1>1. Init => NoSenders /\ DeliveredOnce
  BY DEF Init, NoSenders, DeliveredOnce, Handshake
<1>2. IInv /\ NoSenders /\ DeliveredOnce /\ [Next]_vars => NoSenders' /\ DeliveredOnce'
  BY NextSendsNone
<1>3. DeliveredOnce /\ (repeats = 0 => NothingLeftBehind) /\ (repeats = 0 => StealsBalance)
        => (~Async \/ opt.faults = 0 => NothingLeftBehind /\ StealsBalance)
  BY DEF DeliveredOnce
<1> QED BY <1>1, <1>2, <1>3, AloneInvariant, NothingStaysBehind, StealsAlwaysBalance, PTL DEF Spec
=============================================================================
