------------------------- MODULE PeerReduceProofs -------------------------
(***************************************************************************)
(* The value of a peer run is that of the fixed tree, and no leaf of it is  *)
(* counted twice: for every number of leaves and workers, every combine,    *)
(* either transport, with stealing or without, whatever is duplicated,      *)
(* dropped or raised.                                                       *)
(*                                                                         *)
(* The argument: a partial never travels without its node, a worker only    *)
(* ever combines the two operands of one node in their fixed order, and the *)
(* routing sends a node only where it is combined.  MailIsTrue and          *)
(* HeldIsTrue say so of the messages and of the workers; with TypeOK they   *)
(* are inductive.  The second part follows the leaves: the parts of the     *)
(* tree that wait, travel or are held cover each leaf at most once.  The    *)
(* third follows the thefts: while no message has been repeated, a leaf     *)
(* that its owner has not settled lies in one place only, and when the root *)
(* is formed no leaf is left behind anywhere.                               *)
(***************************************************************************)
EXTENDS PeerReduceProperties, ReduceTreeProofs, SequenceTheorems

-----------------------------------------------------------------------------
(* The tree of this run.                                                   *)

(* A node is a pair of a level and a position, both natural numbers.        *)
LEMMA NodeParts ==
  ASSUME NEW nd \in Nodes
  PROVE  /\ nd = <<Lvl(nd), Pos(nd)>>
         /\ Lvl(nd) \in 0 .. Depth /\ Pos(nd) \in 0 .. N-1
         /\ Pos(nd) < LevelSize(N, Lvl(nd))
BY DEF Nodes, NodesOf, Lvl, Pos

(* No level has more nodes than there are leaves.                           *)
LEMMA LevelNotWider ==
  ASSUME NEW lvl \in Nat
  PROVE  LevelSize(N, lvl) <= N
<1> DEFINE P == 2^lvl
           q == (N + P - 1) \div P
<1>1. P \in Nat \ {0} /\ N \in Nat \ {0}
  BY PowNat, PowPos, SizeAssumption
<1> HIDE DEF P
<1>2. q \in Int /\ P * q <= N + P - 1
  BY <1>1
<1> HIDE DEF q
<1>3. SUFFICES ASSUME N + 1 <= q PROVE FALSE
  BY <1>1, <1>2 DEF LevelSize, P, q
<1>4. P * (N + 1) <= P * q
  BY <1>1, <1>2, <1>3
<1>5. P * N >= N
  BY <1>1
<1> QED BY <1>1, <1>2, <1>4, <1>5

(* The only node of the root level is the root.                             *)
LEMMA RootNode ==
  ASSUME NEW nd \in Nodes, IsRootLevel(N, Lvl(nd))
  PROVE  nd = Root
<1>1. Lvl(nd) = Depth
  BY NodeParts, SizeAssumption DEF IsRootLevel
<1>2. Pos(nd) = 0
  BY NodeParts DEF IsRootLevel
<1> QED BY <1>1, <1>2, NodeParts DEF Root

(* A leaf at level 0 is a node of the tree.                                 *)
LEMMA LeafNode ==
  ASSUME NEW leaf \in Leaves
  PROVE  <<0, leaf>> \in Nodes
<1>1. 2^0 = 1
  OBVIOUS
<1>2. LevelSize(N, 0) = N
  BY <1>1, SizeAssumption DEF LevelSize
<1> QED BY <1>2, SizeAssumption DEF Nodes, NodesOf, Leaves, Lvl, Pos

(* The parent of a node below the root level is a node.                     *)
LEMMA ParentInNodes ==
  ASSUME NEW nd \in Nodes, ~IsRootLevel(N, Lvl(nd))
  PROVE  Lvl(nd) \in 0 .. Depth-1 /\ Parent(nd) \in Nodes
<1> DEFINE lvl == Lvl(nd)
           pos == Pos(nd)
<1>1. lvl \in 0 .. Depth-1
  BY NodeParts, SizeAssumption DEF IsRootLevel
<1>2. pos \div 2 \in Nat /\ pos \div 2 <= pos /\ pos \div 2 < LevelSize(N, lvl + 1)
  BY NodeParts, SizeAssumption, ParentOnNextLevel
<1>3. pos \div 2 \in 0 .. N-1 /\ lvl + 1 \in 0 .. Depth
  BY <1>1, <1>2, NodeParts, SizeAssumption
<1> QED BY <1>1, <1>2, <1>3 DEF Nodes, NodesOf, Parent, Lvl, Pos

(* A node that is not carried up has a sibling in the tree.                 *)
LEMMA SiblingInNodes ==
  ASSUME NEW nd \in Nodes, ~Unpaired(N, nd)
  PROVE  Sibling(nd) \in Nodes
<1>1. LevelSize(N, Lvl(nd)) <= N /\ LevelSize(N, Lvl(nd)) \in Nat
  BY NodeParts, LevelNotWider, LevelHalves, SizeAssumption
<1>2. CASE IsEven(nd)
  <2>1. Pos(nd) + 1 < LevelSize(N, Lvl(nd))
    BY <1>1, <1>2, NodeParts, SizeAssumption DEF Unpaired
  <2> QED BY <1>1, <1>2, <2>1, NodeParts, SizeAssumption
          DEF Nodes, NodesOf, Sibling, Lvl, Pos
<1>3. CASE ~IsEven(nd)
  <2>1. Pos(nd) - 1 \in 0 .. N-1 /\ Pos(nd) - 1 < LevelSize(N, Lvl(nd))
    BY <1>1, <1>3, NodeParts, SizeAssumption DEF IsEven
  <2> QED BY <1>3, <2>1, NodeParts DEF Nodes, NodesOf, Sibling, Lvl, Pos
<1> QED BY <1>2, <1>3

(* An unpaired node carries up with its value.                              *)
LEMMA CarriedValue ==
  ASSUME NEW nd \in Nodes, ~IsRootLevel(N, Lvl(nd)), Unpaired(N, nd)
  PROVE  TreeValue[Parent(nd)] = TreeValue[nd]
<1> DEFINE lvl == Lvl(nd)
           pos == Pos(nd)
<1>1. lvl \in 0 .. Depth-1 /\ nd = <<lvl, pos>>
  BY ParentInNodes, NodeParts
<1>2. pos \in 0 .. LevelSize(N, lvl) - 1
  BY NodeParts, LevelHalves, SizeAssumption
<1>3. pos % 2 = 0
  BY DEF Unpaired, IsEven
<1> HIDE DEF lvl, pos
<1> QED BY <1>1, <1>2, <1>3, TreeValueAssumption

(* A pair combines its even node's value with its odd node's.               *)
LEMMA CombinedValue ==
  ASSUME NEW nd \in Nodes, ~IsRootLevel(N, Lvl(nd)), ~Unpaired(N, nd)
  PROVE  LET pair == Operands(nd, TreeValue[nd], TreeValue[Sibling(nd)])
         IN  TreeValue[Parent(nd)] = Combine(pair[1], pair[2])
<1> DEFINE lvl == Lvl(nd)
           pos == Pos(nd)
<1>1. lvl \in 0 .. Depth-1 /\ nd = <<lvl, pos>>
  BY ParentInNodes, NodeParts
<1>2. pos \in 0 .. LevelSize(N, lvl) - 1 /\ LevelSize(N, lvl) \in Nat
  BY NodeParts, LevelHalves, SizeAssumption
<1>3. CASE IsEven(nd)
  <2>1. pos % 2 = 0 /\ Sibling(nd) = <<lvl, pos + 1>>
    BY <1>3 DEF IsEven, Sibling
  <2> HIDE DEF lvl, pos
  <2>2. TreeValue[Parent(nd)] = Combine(TreeValue[nd], TreeValue[Sibling(nd)])
    BY <1>1, <1>2, <2>1, TreeValueAssumption
  <2> QED BY <1>3, <2>2 DEF Operands
<1>4. CASE ~IsEven(nd)
  <2> DEFINE even == <<lvl, pos - 1>>
  <2>1. Sibling(nd) = even
    BY <1>4 DEF Sibling
  <2>2. /\ pos - 1 \in 0 .. LevelSize(N, lvl) - 1
        /\ (pos - 1) % 2 = 0 /\ (pos - 1) \div 2 = pos \div 2
    BY <1>2, <1>4 DEF IsEven
  <2>3. Parent(even) = Parent(nd)
    BY <2>2 DEF Parent, Lvl, Pos
  <2>4. ~Unpaired(N, even)
    BY <1>2 DEF Unpaired, Lvl, Pos
  <2> HIDE DEF lvl, pos
  <2>5. TreeValue[Parent(even)] = Combine(TreeValue[even], TreeValue[<<lvl, (pos-1)+1>>])
    BY <1>1, <2>2, <2>4, TreeValueAssumption
  <2>6. <<lvl, (pos-1)+1>> = nd
    BY <1>1, <1>2
  <2> QED BY <1>4, <2>1, <2>3, <2>5, <2>6 DEF Operands
<1> QED BY <1>3, <1>4

(* Owners are workers, and a node that may be settled at w and goes up from  *)
(* there has a parent that may be settled at w.                             *)
LEMMA OwnerIsWorker ==
  ASSUME NEW nd \in Nodes
  PROVE  OwnerOf[nd] \in Workers
BY WorkerOfType, SizeAssumption DEF OwnerOf, Owner, Workers

(* Where a node may be settled and goes up, its parent may be settled too   *)
(* (settle only keeps what this worker combines).                           *)
LEMMA ParentAtHome ==
  ASSUME NEW w \in Workers, NEW nd \in Nodes, ~IsRootLevel(N, Lvl(nd)), AtHome(w, nd),
         Unpaired(N, nd) \/ ~PeerOwnsParent(w, nd)
  PROVE  AtHome(w, Parent(nd))
<1>1. Parent(nd) \in Nodes
  BY ParentInNodes
<1>2. OwnerOf[Parent(nd)] = ParentOwner(N, W, nd)
  <2>1. Lvl(nd) \in Nat /\ Pos(nd) \in Nat /\ nd = <<Lvl(nd), Pos(nd)>>
    BY NodeParts
  <2>2. Owner(N, W, Parent(nd)) = ParentOwner(N, W, nd)
    BY <2>1, ParentKeepsOwner, SizeAssumption
  <2> QED BY <1>1, <2>2 DEF OwnerOf
<1>3. CASE IsEven(nd)
  <2>1. ParentOwner(N, W, nd) = OwnerOf[nd]
    BY <1>3, NodeParts DEF ParentOwner, OwnerOf, IsEven
  <2> QED BY <1>2, <1>3, <2>1 DEF AtHome
<1>4. CASE ~IsEven(nd)
  <2>1. ~Unpaired(N, nd)
    BY <1>4 DEF Unpaired
  <2>2. Sibling(nd) \in Nodes
    BY <2>1, SiblingInNodes
  <2>3. Sibling(nd) = <<Lvl(nd), Pos(nd) - (Pos(nd) % 2)>>
    BY <1>4, NodeParts DEF Sibling, IsEven
  <2>4. ParentOwner(N, W, nd) = OwnerOf[Sibling(nd)]
    BY <2>2, <2>3 DEF ParentOwner, OwnerOf
  <2> QED BY <1>2, <1>4, <2>1, <2>4 DEF AtHome, PeerOwnsParent
<1> QED BY <1>3, <1>4

(* Only worker 0 may settle the root.                                       *)
LEMMA RootAtHome ==
  ASSUME NEW w \in Workers, AtHome(w, Root)
  PROVE  w = 0
<1>1. Root \in Nodes
  BY SizeAssumption DEF Root, Nodes, NodesOf, Lvl, Pos, IsRootLevel
<1>2. OwnerOf[Root] = 0
  BY <1>1, OwnerOfFirst, SizeAssumption DEF OwnerOf, Root
<1>3. IsEven(Root)
  BY DEF IsEven, Root, Pos
<1> QED BY <1>2, <1>3 DEF AtHome

-----------------------------------------------------------------------------
(* The inductive invariant.                                                *)

IInv == TypeOK /\ MailIsTrue /\ HeldIsTrue /\ RootIsTreeValue

(* The part of it about the wire, for any inboxes: sends are made from the   *)
(* inboxes as they are or with the handled message taken out.               *)
GoodBoxes(boxes) == DOMAIN boxes = Endpoints /\ \A e \in Endpoints : boxes[e] \in Seq(Mail[e])
GoodOut == DOMAIN out = Endpoints /\ \A e \in Endpoints : out[e] \in Seq(Posts)

(* The invariant, with what it says of the inboxes and of the posts apart.  *)
LEMMA WireOfInv == IInv <=> TypeOK /\ GoodBoxes(inbox) /\ GoodOut /\ HeldIsTrue /\ RootIsTreeValue
BY DEF IInv, TypeOK, MailIsTrue, GoodBoxes, GoodOut

(* The driver is an endpoint and no worker.                                 *)
LEMMA WhoIsWho ==
  /\ Workers \subseteq Endpoints /\ DRIVER \in Endpoints /\ DRIVER \notin Workers
  /\ \A e \in Endpoints : e # DRIVER => e \in Workers
BY OptionAssumption DEF Endpoints

(* What may be sent to whom.                                               *)
LEMMA MailFacts ==
  /\ RootMsg(TreeValue[Root]) \in Mail[DRIVER]
  /\ \A w \in Workers : HelloMsg(w) \in Mail[DRIVER]
  /\ \A w \in Workers :
       /\ \A nd \in Nodes : AtHome(w, nd) => NodeMsg(nd, TreeValue[nd]) \in Mail[w]
       /\ \A leaf \in Leaves :
            OwnerOf[<<0, leaf>>] = w => LeafMsg(leaf, TreeValue[<<0, leaf>>]) \in Mail[w]
       /\ \A thief \in Workers : StealReq(thief) \in Mail[w]
       /\ StealResp(<<>>) \in Mail[w]
       /\ \A leaf \in Leaves : StealResp(<<leaf>>) \in Mail[w]
       /\ DoneMsg \in Mail[w] /\ RegistryMsg \in Mail[w]
BY WhoIsWho DEF Mail, MailOf

(* What a worker finds in a message, by its tag.                            *)
LEMMA MailByTag ==
  ASSUME NEW w \in Workers, NEW m \in Mail[w]
  PROVE  /\ m.tag = "node" =>
              \E nd \in Nodes : AtHome(w, nd) /\ m.node = nd /\ m.val = TreeValue[nd]
         /\ m.tag = "leaf" =>
              \E nd \in Nodes : AtHome(w, nd) /\ m.node = nd /\ m.val = TreeValue[nd]
         /\ m.tag = "steal_req" => m.thief \in Workers
         /\ m.tag = "steal_resp" => m.leaves \in Seq(Leaves)
<1>1. Mail[w] = MailOf(w) /\ w # DRIVER
  BY WhoIsWho DEF Mail
<1>2. \/ \E nd \in Nodes : AtHome(w, nd) /\ m = NodeMsg(nd, TreeValue[nd])
      \/ \E leaf \in Leaves : OwnerOf[<<0, leaf>>] = w /\ m = LeafMsg(leaf, TreeValue[<<0, leaf>>])
      \/ \E thief \in Workers : m = StealReq(thief)
      \/ \E leaves \in {<<>>} \cup {<<leaf>> : leaf \in Leaves} : m = StealResp(leaves)
      \/ m = DoneMsg \/ m = RegistryMsg
  BY <1>1 DEF MailOf
<1>3. ASSUME NEW nd \in Nodes, AtHome(w, nd), m = NodeMsg(nd, TreeValue[nd])
      PROVE  m.tag = "node" /\ m.node = nd /\ m.val = TreeValue[nd]
  BY <1>3 DEF NodeMsg
<1>4. ASSUME NEW leaf \in Leaves, OwnerOf[<<0, leaf>>] = w,
             m = LeafMsg(leaf, TreeValue[<<0, leaf>>])
      PROVE  /\ m.tag = "leaf" /\ m.node = <<0, leaf>> /\ m.val = TreeValue[<<0, leaf>>]
             /\ <<0, leaf>> \in Nodes /\ AtHome(w, <<0, leaf>>)
  BY <1>4, LeafNode DEF LeafMsg, AtHome
<1>5. ASSUME NEW thief \in Workers, m = StealReq(thief)
      PROVE  m.tag = "steal_req" /\ m.thief = thief
  BY <1>5 DEF StealReq
<1>6. ASSUME NEW leaves \in {<<>>} \cup {<<leaf>> : leaf \in Leaves}, m = StealResp(leaves)
      PROVE  m.tag = "steal_resp" /\ m.leaves = leaves /\ leaves \in Seq(Leaves)
  <2>1. <<>> \in Seq(Leaves)
    OBVIOUS
  <2>2. \A leaf \in Leaves : <<leaf>> \in Seq(Leaves)
    OBVIOUS
  <2>3. leaves \in Seq(Leaves)
    BY <1>6, <2>1, <2>2
  <2> QED BY <1>6, <2>3 DEF StealResp
<1>7. (m = DoneMsg => m.tag = "done") /\ (m = RegistryMsg => m.tag = "registry")
  BY DEF DoneMsg, RegistryMsg
<1> QED BY <1>2, <1>3, <1>4, <1>5, <1>6, <1>7

(* The driver hears the root, with its value, or hello from a worker.       *)
LEMMA DriverMailByTag ==
  ASSUME NEW m \in Mail[DRIVER]
  PROVE  /\ m.tag = "root" => m.val = TreeValue[Root]
         /\ m.tag = "hello" => m.from \in Workers
<1>1. m = RootMsg(TreeValue[Root]) \/ \E w \in Workers : m = HelloMsg(w)
  BY WhoIsWho DEF Mail, MailOf
<1>2. m = RootMsg(TreeValue[Root]) => m.tag = "root" /\ m.val = TreeValue[Root]
  BY DEF RootMsg
<1>3. \A w \in Workers : m = HelloMsg(w) => m.tag = "hello" /\ m.from = w
  BY DEF HelloMsg
<1> QED BY <1>1, <1>2, <1>3

(* Sending something the receiver may be sent keeps the wire true, and no    *)
(* inbox gets shorter.                                                     *)
LEMMA SendKeepsWire ==
  ASSUME NEW w \in Workers, NEW dest \in Endpoints, NEW msg \in Mail[dest]
  PROVE  \A boxes : GoodBoxes(boxes) /\ GoodOut /\ Send(w, boxes, dest, msg)
           => /\ GoodBoxes(inbox') /\ GoodOut'
              /\ \A e \in Endpoints : Len(inbox'[e]) >= Len(boxes[e])
<1> SUFFICES ASSUME NEW boxes, GoodBoxes(boxes), GoodOut, Send(w, boxes, dest, msg)
             PROVE  /\ GoodBoxes(inbox') /\ GoodOut'
                    /\ \A e \in Endpoints : Len(inbox'[e]) >= Len(boxes[e])
  OBVIOUS
<1>1. w \in Endpoints
  BY WhoIsWho
<1>2. CASE dest \notin Outbox[w]
  BY <1>2 DEF Send, NoSend, GoodBoxes, GoodOut
<1>3. CASE dest \in Outbox[w] /\ Async
  <2>1. [to |-> dest, msg |-> msg] \in Posts
    BY DEF Posts
  <2>2. inbox' = boxes /\ out' = [out EXCEPT ![w] = Append(@, [to |-> dest, msg |-> msg])]
    BY <1>3 DEF Send, HttpSend
  <2>3. Append(out[w], [to |-> dest, msg |-> msg]) \in Seq(Posts)
    BY <1>1, <2>1, AppendProperties DEF GoodOut
  <2> QED BY <2>2, <2>3 DEF GoodBoxes, GoodOut
<1>4. CASE dest \in Outbox[w] /\ ~Async
  <2>1. inbox' = [boxes EXCEPT ![dest] = Append(@, msg)] /\ out' = out
    BY <1>4 DEF Send, QueueSend
  <2>2. Append(boxes[dest], msg) \in Seq(Mail[dest]) /\ Len(Append(boxes[dest], msg)) >= Len(boxes[dest])
    BY AppendProperties, LenProperties DEF GoodBoxes
  <2>3. \A e \in Endpoints : Len(boxes[e]) \in Nat
    BY LenProperties DEF GoodBoxes
  <2>4. \A e \in Endpoints : inbox'[e] = IF e = dest THEN Append(boxes[dest], msg) ELSE boxes[e]
    BY <2>1 DEF GoodBoxes
  <2>5. GoodBoxes(inbox')
    BY <2>1, <2>2, <2>4 DEF GoodBoxes
  <2>6. \A e \in Endpoints : Len(inbox'[e]) >= Len(boxes[e])
    <3> TAKE e \in Endpoints
    <3>1. CASE e = dest
      BY <2>2, <2>4, <3>1
    <3>2. CASE e # dest
      <4>1. inbox'[e] = boxes[e]
        BY <2>4, <3>2
      <4> QED BY <2>3, <4>1
    <3> QED BY <3>1, <3>2
  <2> QED BY <2>1, <2>5, <2>6 DEF GoodOut
<1> QED BY <1>2, <1>3, <1>4

-----------------------------------------------------------------------------
(* The parts of HeldIsTrue and TypeOK that several actions change alike.    *)

(* The node a worker is settling is a node that may be settled there, with  *)
(* the value of the tree.                                                   *)
LEMMA NodeInHand ==
  ASSUME HeldIsTrue, NEW w \in Workers, Settling(w)
  PROVE  \E nd \in Nodes : AtHome(w, nd) /\ cur[w].node = nd /\ cur[w].val = TreeValue[nd]
<1>1. PICK nd \in Nodes : AtHome(w, nd) /\ cur[w] = [node |-> nd, val |-> TreeValue[nd]]
  BY DEF HeldIsTrue, Settling
<1>2. cur[w].node = nd /\ cur[w].val = TreeValue[nd]
  BY <1>1
<1> QED BY <1>1, <1>2

(* A worker takes a node that may be settled there, with its value.         *)
LEMMA EnterKeepsHeld ==
  ASSUME TypeOK, HeldIsTrue, NEW w \in Workers, NEW nd \in Nodes, AtHome(w, nd),
         Enter(w, nd, TreeValue[nd]),
         \A v \in Workers : \A x \in DOMAIN present'[v] :
           x \in DOMAIN present[v] /\ present'[v][x] = present[v][x]
  PROVE  HeldIsTrue' /\ DOMAIN cur' = Workers
<1>1. cur' = [cur EXCEPT ![w] = [node |-> nd, val |-> TreeValue[nd]]] /\ DOMAIN cur = Workers
  BY DEF Enter, TypeOK
<1>2. \A v \in Workers : cur'[v] # None =>
        \E x \in Nodes : AtHome(v, x) /\ cur'[v] = [node |-> x, val |-> TreeValue[x]]
  BY <1>1 DEF HeldIsTrue
<1>3. \A v \in Workers : \A x \in DOMAIN present'[v] : present'[v][x] = TreeValue[x]
  BY DEF HeldIsTrue
<1> QED BY <1>1, <1>2, <1>3 DEF HeldIsTrue

(* A worker has nothing in hand any more.                                   *)
LEMMA LeaveKeepsHeld ==
  ASSUME TypeOK, HeldIsTrue, NEW w \in Workers, LeaveSettle(w),
         \A v \in Workers : \A x \in DOMAIN present'[v] :
           x \in DOMAIN present[v] /\ present'[v][x] = present[v][x]
  PROVE  HeldIsTrue' /\ DOMAIN cur' = Workers
<1>1. cur' = [cur EXCEPT ![w] = None] /\ DOMAIN cur = Workers
  BY DEF LeaveSettle, TypeOK
<1>2. \A v \in Workers : cur'[v] # None =>
        \E x \in Nodes : AtHome(v, x) /\ cur'[v] = [node |-> x, val |-> TreeValue[x]]
  BY <1>1 DEF HeldIsTrue
<1>3. \A v \in Workers : \A x \in DOMAIN present'[v] : present'[v][x] = TreeValue[x]
  BY DEF HeldIsTrue
<1> QED BY <1>1, <1>2, <1>3 DEF HeldIsTrue

(* Counting up one field keeps the witness counters naturals.               *)
LEMMA CountKeepsType ==
  ASSUME TypeOK, NEW w \in Workers, NEW field \in StatFields, Count(w, field)
  PROVE  stats' \in [Workers -> [StatFields -> Nat]]
<1>1. stats \in [Workers -> [StatFields -> Nat]]
  BY DEF TypeOK
<1>2. stats[w][field] + 1 \in Nat
  BY <1>1
<1>3. [stats[w] EXCEPT ![field] = stats[w][field] + 1] \in [StatFields -> Nat]
  BY <1>1, <1>2
<1>4. stats' = [stats EXCEPT ![w] = [stats[w] EXCEPT ![field] = stats[w][field] + 1]]
  BY <1>1 DEF Count
<1> QED BY <1>1, <1>3, <1>4

(* polled counts messages that are there, as long as no inbox gets shorter.  *)
LEMMA PolledStaysThere ==
  ASSUME TypeOK, UNCHANGED polled, \A e \in Endpoints : Len(inbox'[e]) >= Len(inbox[e]),
         GoodBoxes(inbox), GoodBoxes(inbox')
  PROVE  \A w \in Workers : polled'[w] <= Len(inbox'[w])
<1> TAKE w \in Workers
<1>1. Len(inbox[w]) \in Nat /\ Len(inbox'[w]) \in Nat
  BY WhoIsWho, LenProperties DEF GoodBoxes
<1>2. polled[w] \in Nat /\ polled[w] <= Len(inbox[w]) /\ polled' = polled
  BY DEF TypeOK
<1>3. Len(inbox'[w]) >= Len(inbox[w])
  BY WhoIsWho
<1> QED BY <1>1, <1>2, <1>3

-----------------------------------------------------------------------------
(* settle().                                                               *)

(* Sending the root to the driver keeps the invariant.                      *)
LEMMA SettleRootKeeps ==
  ASSUME IInv, NEW w \in Workers, SettleRoot(w)
  PROVE  IInv'
<1>1. PICK nd \in Nodes : AtHome(w, nd) /\ cur[w].node = nd /\ cur[w].val = TreeValue[nd]
  BY NodeInHand DEF IInv, SettleRoot
<1>2. nd = Root
  BY <1>1, RootNode DEF SettleRoot
<1>3. RootMsg(cur[w].val) \in Mail[DRIVER]
  BY <1>1, <1>2, MailFacts
<1>4. GoodBoxes(inbox') /\ GoodOut' /\ \A e \in Endpoints : Len(inbox'[e]) >= Len(inbox[e])
  BY <1>3, SendKeepsWire, WireOfInv, WhoIsWho DEF SettleRoot
<1>5. HeldIsTrue' /\ DOMAIN cur' = Workers
  BY LeaveKeepsHeld DEF IInv, SettleRoot
<1>6. \A v \in Workers : polled'[v] <= Len(inbox'[v])
  BY <1>4, PolledStaysThere, WireOfInv DEF SettleRoot, loopVars
<1>7. TypeOK'
  BY <1>4, <1>5, <1>6 DEF IInv, TypeOK, SettleRoot, loopVars, faultVars, driverVars, GoodBoxes, GoodOut
<1>8. RootIsTreeValue'
  BY DEF IInv, RootIsTreeValue, SettleRoot, driverVars
<1> QED BY <1>4, <1>5, <1>7, <1>8, WireOfInv DEF IInv, MailIsTrue, GoodBoxes, GoodOut

(* Carrying an unpaired node up keeps the invariant.                        *)
LEMMA SettleCarryKeeps ==
  ASSUME IInv, NEW w \in Workers, SettleCarry(w)
  PROVE  IInv'
<1>1. PICK nd \in Nodes : AtHome(w, nd) /\ cur[w].node = nd /\ cur[w].val = TreeValue[nd]
  BY NodeInHand DEF IInv, SettleCarry, InTree
<1>2. ~IsRootLevel(N, Lvl(nd)) /\ Unpaired(N, nd)
  BY <1>1 DEF SettleCarry, InTree
<1>3. Parent(nd) \in Nodes /\ AtHome(w, Parent(nd)) /\ TreeValue[Parent(nd)] = TreeValue[nd]
  BY <1>1, <1>2, ParentInNodes, ParentAtHome, CarriedValue
<1>4. Enter(w, Parent(nd), TreeValue[Parent(nd)])
  BY <1>1, <1>3 DEF SettleCarry
<1>5. HeldIsTrue' /\ DOMAIN cur' = Workers
  BY <1>3, <1>4, EnterKeepsHeld DEF IInv, SettleCarry
<1> QED BY <1>5
    DEF IInv, TypeOK, MailIsTrue, RootIsTreeValue, SettleCarry, loopVars, wireVars, faultVars, driverVars

(* Handing a boundary node to the owner of its sibling keeps the            *)
(* invariant.                                                               *)
LEMMA SettleShipKeeps ==
  ASSUME IInv, NEW w \in Workers, SettleShip(w)
  PROVE  IInv'
<1>1. PICK nd \in Nodes : AtHome(w, nd) /\ cur[w].node = nd /\ cur[w].val = TreeValue[nd]
  BY NodeInHand DEF IInv, SettleShip, HasSibling, InTree
<1> DEFINE dest == OwnerOf[Sibling(nd)]
<1>2. Sibling(nd) \in Nodes /\ ~IsEven(nd)
  BY <1>1, SiblingInNodes DEF SettleShip, HasSibling, PeerOwnsParent
<1>3. dest \in Workers /\ AtHome(dest, nd)
  BY <1>2, OwnerIsWorker DEF AtHome
<1>4. NodeMsg(nd, TreeValue[nd]) \in Mail[dest] /\ dest \in Endpoints
  BY <1>3, MailFacts, WhoIsWho
<1>5. Send(w, inbox, dest, NodeMsg(nd, TreeValue[nd]))
  BY <1>1 DEF SettleShip
<1> HIDE DEF dest
<1>6. GoodBoxes(inbox') /\ GoodOut' /\ \A e \in Endpoints : Len(inbox'[e]) >= Len(inbox[e])
  BY <1>4, <1>5, SendKeepsWire, WireOfInv
<1>7. HeldIsTrue' /\ DOMAIN cur' = Workers
  BY LeaveKeepsHeld DEF IInv, SettleShip
<1>8. \A v \in Workers : polled'[v] <= Len(inbox'[v])
  BY <1>6, PolledStaysThere, WireOfInv DEF SettleShip, loopVars
<1>9. stats' \in [Workers -> [StatFields -> Nat]]
  BY CountKeepsType DEF IInv, SettleShip, StatFields
<1>10. TypeOK'
  BY <1>6, <1>7, <1>8, <1>9
     DEF IInv, TypeOK, SettleShip, loopVars, faultVars, driverVars, GoodBoxes, GoodOut
<1>11. RootIsTreeValue'
  BY DEF IInv, RootIsTreeValue, SettleShip, driverVars
<1> QED BY <1>6, <1>7, <1>10, <1>11 DEF IInv, MailIsTrue, GoodBoxes, GoodOut

(* Parking a node keeps the invariant.                                      *)
LEMMA SettleParkKeeps ==
  ASSUME IInv, NEW w \in Workers, SettlePark(w)
  PROVE  IInv'
<1>1. PICK nd \in Nodes : AtHome(w, nd) /\ cur[w].node = nd /\ cur[w].val = TreeValue[nd]
  BY NodeInHand DEF IInv, SettlePark, MeetsHere, HasSibling, InTree
<1>2. /\ DOMAIN present = Workers /\ \A v \in Workers : DOMAIN present[v] \subseteq Nodes
      /\ present' = [present EXCEPT ![w] = Park(present[w], nd, TreeValue[nd])]
  BY <1>1 DEF IInv, TypeOK, SettlePark
<1>3. /\ DOMAIN present' = Workers
      /\ \A v \in Workers \ {w} : present'[v] = present[v]
      /\ DOMAIN present'[w] = DOMAIN present[w] \cup {nd}
      /\ \A x \in DOMAIN present'[w] :
           present'[w][x] = IF x = nd THEN TreeValue[nd] ELSE present[w][x]
  BY <1>2 DEF Park
<1>4. \A v \in Workers : DOMAIN present'[v] \subseteq Nodes
  BY <1>2, <1>3
<1>5. \A v \in Workers : \A x \in DOMAIN present'[v] : present'[v][x] = TreeValue[x]
  BY <1>3 DEF IInv, HeldIsTrue
<1>6. cur' = [cur EXCEPT ![w] = None] /\ DOMAIN cur = Workers
  BY DEF IInv, TypeOK, SettlePark, LeaveSettle
<1>7. \A v \in Workers : cur'[v] # None =>
        \E x \in Nodes : AtHome(v, x) /\ cur'[v] = [node |-> x, val |-> TreeValue[x]]
  BY <1>6 DEF IInv, HeldIsTrue
<1>8. HeldIsTrue'
  BY <1>5, <1>7 DEF HeldIsTrue
<1>9. TypeOK'
  BY <1>3, <1>4, <1>6 DEF IInv, TypeOK, SettlePark, loopVars, wireVars, faultVars, driverVars
<1> QED BY <1>8, <1>9 DEF IInv, MailIsTrue, RootIsTreeValue, SettlePark, wireVars, driverVars

(* Combining a pair, or raising in it, keeps the invariant.                 *)
LEMMA SettleCombineKeeps ==
  ASSUME IInv, NEW w \in Workers, SettleCombine(w)
  PROVE  IInv'
<1>1. PICK nd \in Nodes : AtHome(w, nd) /\ cur[w].node = nd /\ cur[w].val = TreeValue[nd]
  BY NodeInHand DEF IInv, SettleCombine, MeetsHere, HasSibling, InTree
<1> DEFINE sib == Sibling(nd)
           pair == Operands(nd, TreeValue[nd], TreeValue[sib])
<1>2. ~IsRootLevel(N, Lvl(nd)) /\ ~Unpaired(N, nd) /\ ~PeerOwnsParent(w, nd)
  BY <1>1 DEF SettleCombine, MeetsHere, HasSibling, InTree
<1>3. sib \in DOMAIN present[w]
  BY <1>1 DEF SettleCombine, SiblingIn
<1>4. present[w][sib] = TreeValue[sib]
  BY <1>3 DEF IInv, HeldIsTrue
<1>5. /\ Parent(nd) \in Nodes /\ AtHome(w, Parent(nd))
      /\ TreeValue[Parent(nd)] = Combine(pair[1], pair[2])
  BY <1>1, <1>2, ParentInNodes, ParentAtHome, CombinedValue
<1>6. DOMAIN present = Workers /\ present' = [present EXCEPT ![w] = PopSibling(present[w], nd)]
  BY <1>1 DEF IInv, TypeOK, SettleCombine
<1>7. /\ DOMAIN present' = Workers
      /\ \A v \in Workers : \A x \in DOMAIN present'[v] :
           x \in DOMAIN present[v] /\ present'[v][x] = present[v][x]
  BY <1>6 DEF PopSibling, Restrict
<1>8. \A v \in Workers : DOMAIN present'[v] \subseteq Nodes
  BY <1>7 DEF IInv, TypeOK
<1>9. CASE Parent(nd) \notin opt.raises
  <2>1. Enter(w, Parent(nd), TreeValue[Parent(nd)])
    BY <1>1, <1>4, <1>5, <1>9 DEF SettleCombine
  <2>2. HeldIsTrue' /\ DOMAIN cur' = Workers
    BY <1>5, <1>7, <2>1, EnterKeepsHeld DEF IInv
  <2>3. /\ Count(w, "n_combines")
        /\ UNCHANGED <<opt, loopVars, seen, wireVars, faultVars, driverVars>>
    BY <1>1, <1>9 DEF SettleCombine
  <2>4. stats' \in [Workers -> [StatFields -> Nat]]
    BY <2>3, CountKeepsType DEF IInv, StatFields
  <2>5. TypeOK'
    BY <1>7, <1>8, <2>2, <2>3, <2>4 DEF IInv, TypeOK, loopVars, wireVars, faultVars, driverVars
  <2> QED BY <2>2, <2>3, <2>5 DEF IInv, MailIsTrue, RootIsTreeValue, wireVars, driverVars
<1>10. CASE Parent(nd) \in opt.raises
  <2>1. /\ Ends(w, "raised") /\ CloseTransport(w) /\ LeaveSettle(w)
        /\ UNCHANGED <<opt, mine, phase, polled, asked, seen, inbox, faultVars, driverVars, stats>>
    BY <1>1, <1>10 DEF SettleCombine
  <2>2. HeldIsTrue' /\ DOMAIN cur' = Workers
    BY <1>7, <2>1, LeaveKeepsHeld DEF IInv
  <2>3. status' \in [Workers -> {"running", "returned", "raised", "killed"}]
    BY <2>1 DEF IInv, TypeOK, Ends
  <2>4. GoodOut'
    BY <2>1, WireOfInv DEF GoodOut, CloseTransport
  <2>5. TypeOK'
    BY <1>7, <1>8, <2>1, <2>2, <2>3, <2>4 DEF IInv, TypeOK, faultVars, driverVars, GoodOut
  <2> QED BY <2>1, <2>2, <2>4, <2>5 DEF IInv, MailIsTrue, GoodOut, RootIsTreeValue, driverVars
<1> QED BY <1>9, <1>10

-----------------------------------------------------------------------------
(* The worker loop.                                                        *)

(* Polling keeps the invariant.                                             *)
LEMMA PollKeeps ==
  ASSUME IInv, NEW w \in Workers, Poll(w)
  PROVE  IInv'
<1>1. \A v \in Workers : Len(inbox[v]) \in Nat
  BY WireOfInv, WhoIsWho, LenProperties DEF GoodBoxes
<1>2. polled' = [polled EXCEPT ![w] = Len(inbox[w])] /\ inbox' = inbox
  BY DEF Poll, wireVars
<1>3. polled' \in [Workers -> Nat] /\ \A v \in Workers : polled'[v] <= Len(inbox'[v])
  BY <1>1, <1>2 DEF IInv, TypeOK
<1>4. phase' \in [Workers -> {"await", "poll", "work", "asked"}]
  BY DEF IInv, TypeOK, Poll, Goto
<1>5. TypeOK'
  BY <1>3, <1>4 DEF IInv, TypeOK, Poll, treeVars, wireVars, faultVars, driverVars
<1> QED BY <1>5
    DEF IInv, HeldIsTrue, MailIsTrue, RootIsTreeValue, Poll, treeVars, wireVars, driverVars

(* Receiving one message, or none, keeps the invariant.                     *)
LEMMA RecvKeeps ==
  ASSUME IInv, NEW w \in Workers, Recv(w)
  PROVE  IInv'
<1>1. \A v \in Workers : Len(inbox[v]) \in Nat /\ (inbox[v] # <<>> => Len(inbox[v]) >= 1)
  BY WireOfInv, WhoIsWho, LenProperties, EmptySeq DEF GoodBoxes
<1>2. polled' = [polled EXCEPT ![w] = IF inbox[w] = <<>> THEN 0 ELSE 1] /\ inbox' = inbox
  BY DEF Recv, wireVars
<1>3. polled' \in [Workers -> Nat] /\ \A v \in Workers : polled'[v] <= Len(inbox'[v])
  BY <1>1, <1>2 DEF IInv, TypeOK
<1>4. phase' \in [Workers -> {"await", "poll", "work", "asked"}]
  BY DEF IInv, TypeOK, Recv, Goto
<1>5. TypeOK'
  BY <1>3, <1>4 DEF IInv, TypeOK, Recv, treeVars, wireVars, faultVars, driverVars
<1> QED BY <1>5
    DEF IInv, HeldIsTrue, MailIsTrue, RootIsTreeValue, Recv, treeVars, wireVars, driverVars

(* Asking a peer for work keeps the invariant.                              *)
LEMMA AskStealKeeps ==
  ASSUME IInv, NEW w \in Workers, AskSteal(w)
  PROVE  IInv'
<1>1. PICK victim \in Workers : Send(w, inbox, victim, StealReq(w))
  BY DEF AskSteal
<1>2. StealReq(w) \in Mail[victim] /\ victim \in Endpoints
  BY MailFacts, WhoIsWho
<1>3. GoodBoxes(inbox') /\ GoodOut' /\ \A e \in Endpoints : Len(inbox'[e]) >= Len(inbox[e])
  BY <1>1, <1>2, SendKeepsWire, WireOfInv
<1>4. \A v \in Workers : polled'[v] <= Len(inbox'[v])
  BY <1>3, PolledStaysThere, WireOfInv DEF AskSteal
<1>5. asked' \in [Workers -> 0 .. MaxRequests]
  <2>1. asked \in [Workers -> 0 .. MaxRequests] /\ asked[w] + 1 \in 0 .. MaxRequests
    <3>1. asked \in [Workers -> 0 .. MaxRequests]
      BY DEF IInv, TypeOK
    <3>2. asked[w] < MaxRequests
      BY DEF AskSteal
    <3> QED BY <3>1, <3>2, OptionAssumption
  <2> QED BY <2>1 DEF AskSteal
<1>6. phase' \in [Workers -> {"await", "poll", "work", "asked"}]
  BY DEF IInv, TypeOK, AskSteal, Goto
<1>7. TypeOK'
  BY <1>3, <1>4, <1>5, <1>6
     DEF IInv, TypeOK, AskSteal, treeVars, faultVars, driverVars, GoodBoxes, GoodOut
<1>8. HeldIsTrue' /\ RootIsTreeValue'
  BY DEF IInv, HeldIsTrue, RootIsTreeValue, AskSteal, treeVars, driverVars
<1> QED BY <1>3, <1>7, <1>8 DEF IInv, MailIsTrue, GoodBoxes, GoodOut

(* What a worker takes from the front of its deque is a leaf.               *)
LEMMA LeafTaken ==
  ASSUME TypeOK, NEW w \in Workers, TakeLeaf(w), mine' = [mine EXCEPT ![w] = Tail(@)]
  PROVE  Head(mine[w]) \in Leaves /\ mine' \in [Workers -> Seq(Leaves)]
<1>1. mine[w] \in Seq(Leaves) /\ mine[w] # <<>>
  BY DEF TypeOK, TakeLeaf
<1>2. Head(mine[w]) \in Leaves /\ Tail(mine[w]) \in Seq(Leaves)
  BY <1>1, HeadTailProperties
<1> QED BY <1>2 DEF TypeOK

(* A leaf whose process raises keeps the invariant.                         *)
LEMMA ProcessRaisesKeeps ==
  ASSUME IInv, NEW w \in Workers, ProcessRaises(w)
  PROVE  IInv'
<1>1. mine' \in [Workers -> Seq(Leaves)]
  BY LeafTaken DEF IInv, ProcessRaises
<1>2. status' \in [Workers -> {"running", "returned", "raised", "killed"}]
  BY DEF IInv, TypeOK, ProcessRaises, Ends
<1>3. GoodOut'
  BY WireOfInv DEF GoodOut, ProcessRaises, CloseTransport
<1>4. TypeOK'
  BY <1>1, <1>2, <1>3 DEF IInv, TypeOK, ProcessRaises, treeVars, faultVars, driverVars, GoodOut
<1> QED BY <1>3, <1>4
    DEF IInv, HeldIsTrue, MailIsTrue, RootIsTreeValue, GoodOut, ProcessRaises, treeVars, driverVars

(* Processing a leaf, own or stolen, keeps the invariant.                   *)
LEMMA ProcessKeeps ==
  ASSUME IInv, NEW w \in Workers, Process(w)
  PROVE  IInv'
<1> DEFINE leaf == Head(mine[w])
           nd == <<0, leaf>>
           home == OwnerOf[nd]
<1>1. leaf \in Leaves /\ mine' \in [Workers -> Seq(Leaves)]
  BY LeafTaken DEF IInv, Process
<1>2. nd \in Nodes /\ LeafValue(leaf) = TreeValue[nd] /\ home \in Workers /\ home \in Endpoints
  BY <1>1, LeafNode, OwnerIsWorker, WhoIsWho, TreeValueAssumption
<1>3. stats' \in [Workers -> [StatFields -> Nat]]
  BY CountKeepsType DEF IInv, Process, StatFields
<1>4. phase' \in [Workers -> {"await", "poll", "work", "asked"}]
  BY DEF IInv, TypeOK, Process, Goto
<1>5. UNCHANGED <<opt, polled, status, asked, present, faultVars, driverVars>>
  BY DEF Process
<1>6. CASE home = w /\ See(w, nd) /\ Enter(w, nd, LeafValue(leaf)) /\ UNCHANGED wireVars
  <2>1. AtHome(w, nd)
    BY <1>6 DEF AtHome
  <2>2. HeldIsTrue' /\ DOMAIN cur' = Workers
    BY <1>2, <1>5, <1>6, <2>1, EnterKeepsHeld DEF IInv
  <2>3. seen' \in [Workers -> SUBSET Nodes]
    BY <1>2, <1>6 DEF IInv, TypeOK, See
  <2>4. TypeOK'
    BY <1>1, <1>3, <1>4, <1>5, <1>6, <2>2, <2>3 DEF IInv, TypeOK, wireVars, faultVars, driverVars
  <2> QED BY <1>5, <1>6, <2>2, <2>4 DEF IInv, MailIsTrue, RootIsTreeValue, wireVars, driverVars
<1>7. CASE UNCHANGED <<seen, cur, wireVars>>
  <2>1. TypeOK'
    BY <1>1, <1>3, <1>4, <1>5, <1>7 DEF IInv, TypeOK, wireVars, faultVars, driverVars
  <2> QED BY <1>5, <1>7, <2>1
      DEF IInv, HeldIsTrue, MailIsTrue, RootIsTreeValue, wireVars, driverVars
<1>8. CASE Send(w, inbox, home, LeafMsg(leaf, LeafValue(leaf))) /\ UNCHANGED <<seen, cur>>
  <2>1. LeafMsg(leaf, LeafValue(leaf)) \in Mail[home]
    BY <1>1, <1>2, MailFacts
  <2> HIDE DEF home, nd, leaf
  <2>2. GoodBoxes(inbox') /\ GoodOut' /\ \A e \in Endpoints : Len(inbox'[e]) >= Len(inbox[e])
    BY <1>2, <1>8, <2>1, SendKeepsWire, WireOfInv
  <2>3. \A v \in Workers : polled'[v] <= Len(inbox'[v])
    BY <1>5, <2>2, PolledStaysThere, WireOfInv DEF IInv
  <2>4. TypeOK'
    BY <1>1, <1>3, <1>4, <1>5, <1>8, <2>2, <2>3
       DEF IInv, TypeOK, faultVars, driverVars, GoodBoxes, GoodOut
  <2>5. HeldIsTrue' /\ RootIsTreeValue'
    BY <1>5, <1>8 DEF IInv, HeldIsTrue, RootIsTreeValue, driverVars
  <2> QED BY <2>2, <2>4, <2>5 DEF IInv, MailIsTrue, GoodBoxes, GoodOut
<1> QED BY <1>6, <1>7, <1>8 DEF Process

-----------------------------------------------------------------------------
(* handle().                                                               *)

(* A polled message is there, may have been sent here, and taking it out     *)
(* leaves the other inboxes alone.                                          *)
LEMMA HandledMessage ==
  ASSUME IInv, NEW w \in Workers, polled[w] > 0
  PROVE  /\ Msg(w) \in Mail[w]
         /\ GoodBoxes(Taken(w))
         /\ Len(Taken(w)[w]) = Len(inbox[w]) - 1
         /\ \A e \in Endpoints \ {w} : Taken(w)[e] = inbox[e]
<1>1. w \in Endpoints /\ GoodBoxes(inbox)
  BY WhoIsWho, WireOfInv
<1>2. inbox[w] \in Seq(Mail[w]) /\ DOMAIN inbox = Endpoints
  BY <1>1 DEF GoodBoxes
<1>3. Len(inbox[w]) > 0
  <2>1. polled[w] \in Nat /\ polled[w] <= Len(inbox[w]) /\ Len(inbox[w]) \in Nat
    BY <1>2, LenProperties DEF IInv, TypeOK
  <2> QED BY <2>1
<1>4. inbox[w] # <<>>
  BY <1>3
<1>5. /\ Head(inbox[w]) \in Mail[w] /\ Tail(inbox[w]) \in Seq(Mail[w])
      /\ Len(Tail(inbox[w])) = Len(inbox[w]) - 1
  BY <1>2, <1>4, HeadTailProperties
<1> QED BY <1>1, <1>2, <1>5 DEF GoodBoxes, Taken, Msg

(* With one message less to handle and one message less in the inbox, polled *)
(* still counts messages that are there.                                    *)
LEMMA ConsumeKeepsPolled ==
  ASSUME IInv, NEW w \in Workers, polled[w] > 0, Consume(w), GoodBoxes(inbox'),
         \A e \in Endpoints : Len(inbox'[e]) >= Len(Taken(w)[e])
  PROVE  polled' \in [Workers -> Nat] /\ \A v \in Workers : polled'[v] <= Len(inbox'[v])
<1>1. polled \in [Workers -> Nat] /\ \A v \in Workers : polled[v] <= Len(inbox[v])
  BY DEF IInv, TypeOK
<1>2. polled' = [polled EXCEPT ![w] = polled[w] - 1]
  BY DEF Consume
<1>3. polled' \in [Workers -> Nat]
  BY <1>1, <1>2
<1>4. \A v \in Workers : polled'[v] <= Len(inbox'[v])
  <2> TAKE v \in Workers
  <2>1. /\ v \in Endpoints
        /\ Len(inbox'[v]) \in Nat /\ Len(inbox[v]) \in Nat
        /\ Len(inbox'[v]) >= Len(Taken(w)[v])
    BY WhoIsWho, WireOfInv, LenProperties DEF GoodBoxes
  <2>2. CASE v = w
    BY <1>1, <1>2, <2>1, <2>2, HandledMessage
  <2>3. CASE v # w
    <3>1. Taken(w)[v] = inbox[v]
      BY <2>1, <2>3, HandledMessage
    <3> QED BY <1>1, <1>2, <2>1, <2>3, <3>1
  <2> QED BY <2>2, <2>3
<1> QED BY <1>3, <1>4

(* Taking a message and sending nothing.                                    *)
LEMMA TakenKeepsWire ==
  ASSUME IInv, NEW w \in Workers, polled[w] > 0, inbox' = Taken(w)
  PROVE  GoodBoxes(inbox') /\ \A e \in Endpoints : Len(inbox'[e]) >= Len(Taken(w)[e])
<1>1. GoodBoxes(inbox')
  BY HandledMessage
<1>2. \A e \in Endpoints : Len(Taken(w)[e]) \in Nat
  BY HandledMessage, LenProperties DEF GoodBoxes
<1> QED BY <1>1, <1>2

(* Handling a node from a peer keeps the invariant.                         *)
LEMMA HandleNodeKeeps ==
  ASSUME IInv, NEW w \in Workers, HandleNode(w)
  PROVE  IInv'
<1>1. polled[w] > 0 /\ Msg(w).tag = "node" /\ Consume(w) /\ inbox' = Taken(w)
  BY DEF HandleNode, Handling
<1>2. PICK nd \in Nodes : AtHome(w, nd) /\ Msg(w).node = nd /\ Msg(w).val = TreeValue[nd]
  BY <1>1, HandledMessage, MailByTag
<1>3. UNCHANGED <<opt, mine, phase, status, asked, present, out, faultVars, driverVars>>
  BY DEF HandleNode
<1>4. GoodBoxes(inbox') /\ polled' \in [Workers -> Nat] /\ \A v \in Workers : polled'[v] <= Len(inbox'[v])
  BY <1>1, TakenKeepsWire, ConsumeKeepsPolled
<1>5. CASE See(w, nd) /\ Count(w, "peer_recvs") /\ Enter(w, nd, TreeValue[nd])
  <2>1. HeldIsTrue' /\ DOMAIN cur' = Workers
    BY <1>2, <1>3, <1>5, EnterKeepsHeld DEF IInv
  <2>2. seen' \in [Workers -> SUBSET Nodes]
    BY <1>2, <1>5 DEF IInv, TypeOK, See
  <2>3. stats' \in [Workers -> [StatFields -> Nat]]
    BY <1>5, CountKeepsType DEF IInv, StatFields
  <2>4. TypeOK'
    BY <1>3, <1>4, <2>1, <2>2, <2>3 DEF IInv, TypeOK, faultVars, driverVars, GoodBoxes
  <2> QED BY <1>3, <1>4, <2>1, <2>4 DEF IInv, MailIsTrue, RootIsTreeValue, GoodBoxes, driverVars
<1>6. CASE UNCHANGED <<seen, cur, stats>>
  <2>1. TypeOK'
    BY <1>3, <1>4, <1>6 DEF IInv, TypeOK, faultVars, driverVars, GoodBoxes
  <2> QED BY <1>3, <1>4, <1>6, <2>1
      DEF IInv, HeldIsTrue, MailIsTrue, RootIsTreeValue, GoodBoxes, driverVars
<1> QED BY <1>2, <1>5, <1>6 DEF HandleNode

(* Handling a leaf a thief computed keeps the invariant.                    *)
LEMMA HandleLeafKeeps ==
  ASSUME IInv, NEW w \in Workers, HandleLeaf(w)
  PROVE  IInv'
<1>1. polled[w] > 0 /\ Msg(w).tag = "leaf" /\ Consume(w) /\ inbox' = Taken(w)
  BY DEF HandleLeaf, Handling
<1>2. PICK nd \in Nodes : AtHome(w, nd) /\ Msg(w).node = nd /\ Msg(w).val = TreeValue[nd]
  BY <1>1, HandledMessage, MailByTag
<1>3. UNCHANGED <<opt, mine, phase, status, asked, present, out, faultVars, driverVars, stats>>
  BY DEF HandleLeaf
<1>4. GoodBoxes(inbox') /\ polled' \in [Workers -> Nat] /\ \A v \in Workers : polled'[v] <= Len(inbox'[v])
  BY <1>1, TakenKeepsWire, ConsumeKeepsPolled
<1>5. CASE See(w, nd) /\ Enter(w, nd, TreeValue[nd])
  <2>1. HeldIsTrue' /\ DOMAIN cur' = Workers
    BY <1>2, <1>3, <1>5, EnterKeepsHeld DEF IInv
  <2>2. seen' \in [Workers -> SUBSET Nodes]
    BY <1>2, <1>5 DEF IInv, TypeOK, See
  <2>3. TypeOK'
    BY <1>3, <1>4, <2>1, <2>2 DEF IInv, TypeOK, faultVars, driverVars, GoodBoxes
  <2> QED BY <1>3, <1>4, <2>1, <2>3 DEF IInv, MailIsTrue, RootIsTreeValue, GoodBoxes, driverVars
<1>6. CASE UNCHANGED <<seen, cur>>
  <2>1. TypeOK'
    BY <1>3, <1>4, <1>6 DEF IInv, TypeOK, faultVars, driverVars, GoodBoxes
  <2> QED BY <1>3, <1>4, <1>6, <2>1
      DEF IInv, HeldIsTrue, MailIsTrue, RootIsTreeValue, GoodBoxes, driverVars
<1> QED BY <1>2, <1>5, <1>6 DEF HandleLeaf

(* What a worker may give is a leaf, and what it keeps are leaves.           *)
LEMMA Given ==
  ASSUME TypeOK, NEW w \in Workers, Len(mine[w]) > 1
  PROVE  FarEnd(mine[w]) \in Leaves /\ AllButFarEnd(mine[w]) \in Seq(Leaves)
<1> DEFINE s == mine[w]
<1>1. s \in Seq(Leaves) /\ Len(s) \in Nat
  BY LenProperties DEF TypeOK
<1>2. s[Len(s)] \in Leaves
  BY <1>1, ElementOfSeq
<1>3. SubSeq(s, 1, Len(s) - 1) \in Seq(Leaves)
  <2>1. \A i \in 1 .. Len(s) - 1 : s[i] \in Leaves
    BY <1>1, ElementOfSeq
  <2> QED BY <1>1, <2>1, SubSeqProperties
<1> QED BY <1>2, <1>3 DEF FarEnd, AllButFarEnd, Last, Front

(* Answering a thief keeps the invariant.                                   *)
LEMMA HandleStealReqKeeps ==
  ASSUME IInv, NEW w \in Workers, HandleStealReq(w)
  PROVE  IInv'
<1>1. polled[w] > 0 /\ Msg(w).tag = "steal_req" /\ Consume(w)
  BY DEF HandleStealReq, Handling
<1> DEFINE thief == Msg(w).thief
<1>2. thief \in Workers /\ thief \in Endpoints
  BY <1>1, HandledMessage, MailByTag, WhoIsWho
<1>3. UNCHANGED <<opt, phase, status, asked, treeVars, faultVars, driverVars>>
  BY DEF HandleStealReq
<1>4. PICK leaves :
        /\ StealResp(leaves) \in Mail[thief]
        /\ Send(w, Taken(w), thief, StealResp(leaves))
        /\ mine' \in [Workers -> Seq(Leaves)]
        /\ stats' \in [Workers -> [StatFields -> Nat]]
  <2>1. CASE MayGive(w) /\ Send(w, Taken(w), thief, StealResp(<<FarEnd(mine[w])>>))
             /\ mine' = [mine EXCEPT ![w] = AllButFarEnd(@)] /\ Count(w, "given")
    <3>1. FarEnd(mine[w]) \in Leaves /\ AllButFarEnd(mine[w]) \in Seq(Leaves)
      BY <2>1, Given DEF IInv, MayGive
    <3>2. StealResp(<<FarEnd(mine[w])>>) \in Mail[thief]
      BY <1>2, <3>1, MailFacts
    <3>3. stats' \in [Workers -> [StatFields -> Nat]]
      BY <2>1, CountKeepsType DEF IInv, StatFields
    <3>4. mine' \in [Workers -> Seq(Leaves)]
      BY <2>1, <3>1 DEF IInv, TypeOK
    <3> QED BY <2>1, <3>2, <3>3, <3>4
  <2>2. CASE Send(w, Taken(w), thief, StealResp(<<>>)) /\ UNCHANGED <<mine, stats>>
    <3>1. StealResp(<<>>) \in Mail[thief]
      BY <1>2, MailFacts
    <3> QED BY <2>2, <3>1 DEF IInv, TypeOK
  <2> QED BY <2>1, <2>2 DEF HandleStealReq
<1> HIDE DEF thief
<1>5. GoodBoxes(inbox') /\ GoodOut' /\ \A e \in Endpoints : Len(inbox'[e]) >= Len(Taken(w)[e])
  <2>1. GoodBoxes(Taken(w)) /\ GoodOut
    BY <1>1, HandledMessage, WireOfInv
  <2> QED BY <1>2, <1>4, <2>1, SendKeepsWire
<1>6. polled' \in [Workers -> Nat] /\ \A v \in Workers : polled'[v] <= Len(inbox'[v])
  BY <1>1, <1>5, ConsumeKeepsPolled
<1>7. TypeOK'
  BY <1>3, <1>4, <1>5, <1>6 DEF IInv, TypeOK, treeVars, faultVars, driverVars, GoodBoxes, GoodOut
<1>8. HeldIsTrue' /\ RootIsTreeValue'
  BY <1>3 DEF IInv, HeldIsTrue, RootIsTreeValue, treeVars, driverVars
<1> QED BY <1>5, <1>7, <1>8 DEF IInv, MailIsTrue, GoodBoxes, GoodOut

(* Taking over a stolen leaf keeps the invariant.                           *)
LEMMA HandleStealRespKeeps ==
  ASSUME IInv, NEW w \in Workers, HandleStealResp(w)
  PROVE  IInv'
<1>1. polled[w] > 0 /\ Msg(w).tag = "steal_resp" /\ Consume(w) /\ inbox' = Taken(w)
  BY DEF HandleStealResp, Handling
<1> DEFINE leaves == Msg(w).leaves
<1>2. leaves \in Seq(Leaves)
  BY <1>1, HandledMessage, MailByTag
<1>3. UNCHANGED <<opt, phase, status, asked, treeVars, out, faultVars, driverVars>>
  BY DEF HandleStealResp
<1>4. GoodBoxes(inbox') /\ polled' \in [Workers -> Nat] /\ \A v \in Workers : polled'[v] <= Len(inbox'[v])
  BY <1>1, TakenKeepsWire, ConsumeKeepsPolled
<1>5. mine' \in [Workers -> Seq(Leaves)]
  <2>1. mine[w] \o leaves \in Seq(Leaves)
    BY <1>2, ConcatProperties DEF IInv, TypeOK
  <2> QED BY <2>1 DEF IInv, TypeOK, HandleStealResp
<1>6. stats' \in [Workers -> [StatFields -> Nat]]
  <2>1. stats[w].steals + Len(leaves) \in Nat
    BY <1>2, LenProperties DEF IInv, TypeOK, StatFields
  <2>2. stats' = [stats EXCEPT ![w] = [stats[w] EXCEPT !.steals = stats[w].steals + Len(leaves)]]
    BY DEF IInv, TypeOK, HandleStealResp
  <2> HIDE DEF leaves
  <2> QED BY <2>1, <2>2 DEF IInv, TypeOK, StatFields
<1>7. TypeOK'
  BY <1>3, <1>4, <1>5, <1>6 DEF IInv, TypeOK, treeVars, faultVars, driverVars, GoodBoxes
<1> QED BY <1>3, <1>4, <1>7
    DEF IInv, HeldIsTrue, MailIsTrue, RootIsTreeValue, GoodBoxes, treeVars, driverVars

(* Ending on done keeps the invariant.                                      *)
LEMMA HandleDoneKeeps ==
  ASSUME IInv, NEW w \in Workers, HandleDone(w)
  PROVE  IInv'
<1>1. polled[w] > 0 /\ inbox' = Taken(w)
  BY DEF HandleDone, Handling
<1>2. UNCHANGED <<opt, mine, phase, asked, treeVars, faultVars, driverVars, stats>>
  BY DEF HandleDone
<1>3. GoodBoxes(inbox')
  BY <1>1, TakenKeepsWire
<1>4. polled' \in [Workers -> Nat] /\ \A v \in Workers : polled'[v] <= Len(inbox'[v])
  <2>1. polled' = [polled EXCEPT ![w] = 0]
    BY DEF HandleDone
  <2>2. \A v \in Workers : Len(inbox'[v]) \in Nat
    BY <1>3, WhoIsWho, LenProperties DEF GoodBoxes
  <2>3. \A v \in Workers \ {w} : polled[v] <= Len(inbox'[v])
    BY <1>1, HandledMessage, WhoIsWho DEF IInv, TypeOK
  <2> QED BY <2>1, <2>2, <2>3 DEF IInv, TypeOK
<1>5. GoodOut'
  BY WireOfInv DEF GoodOut, HandleDone, CloseTransport
<1>6. status' \in [Workers -> {"running", "returned", "raised", "killed"}]
  BY DEF IInv, TypeOK, HandleDone, Ends
<1>7. TypeOK'
  BY <1>2, <1>3, <1>4, <1>5, <1>6
     DEF IInv, TypeOK, treeVars, faultVars, driverVars, GoodBoxes, GoodOut
<1> QED BY <1>2, <1>3, <1>5, <1>7
    DEF IInv, HeldIsTrue, MailIsTrue, RootIsTreeValue, GoodBoxes, GoodOut, treeVars, driverVars

(* Passing over a second registry keeps the invariant.                      *)
LEMMA HandleOtherKeeps ==
  ASSUME IInv, NEW w \in Workers, HandleOther(w)
  PROVE  IInv'
<1>1. polled[w] > 0 /\ Consume(w) /\ inbox' = Taken(w)
  BY DEF HandleOther, Handling
<1>2. UNCHANGED <<opt, mine, phase, status, asked, treeVars, out, faultVars, driverVars, stats>>
  BY DEF HandleOther
<1>3. GoodBoxes(inbox') /\ polled' \in [Workers -> Nat] /\ \A v \in Workers : polled'[v] <= Len(inbox'[v])
  BY <1>1, TakenKeepsWire, ConsumeKeepsPolled
<1>4. TypeOK'
  BY <1>2, <1>3 DEF IInv, TypeOK, treeVars, faultVars, driverVars, GoodBoxes
<1> QED BY <1>2, <1>3, <1>4
    DEF IInv, HeldIsTrue, MailIsTrue, RootIsTreeValue, GoodBoxes, treeVars, driverVars

(* Taking the oldest message out of an inbox leaves the others alone.        *)
LEMMA TailKeepsBoxes ==
  ASSUME GoodBoxes(inbox), NEW e \in Endpoints, inbox[e] # <<>>,
         inbox' = [inbox EXCEPT ![e] = Tail(@)]
  PROVE  /\ Head(inbox[e]) \in Mail[e]
         /\ GoodBoxes(inbox')
         /\ \A f \in Endpoints \ {e} : inbox'[f] = inbox[f]
<1>1. inbox[e] \in Seq(Mail[e]) /\ DOMAIN inbox = Endpoints
  BY DEF GoodBoxes
<1>2. Head(inbox[e]) \in Mail[e] /\ Tail(inbox[e]) \in Seq(Mail[e])
  BY <1>1, HeadTailProperties
<1> QED BY <1>1, <1>2 DEF GoodBoxes

(* Waiting for the registry, and losing what comes before it, keeps the      *)
(* invariant.                                                               *)
LEMMA AwaitKeeps ==
  ASSUME IInv, NEW w \in Workers, Await(w)
  PROVE  IInv'
<1>1. UNCHANGED <<opt, mine, polled, status, asked, treeVars, out, faultVars, driverVars, stats>>
  BY DEF Await
<1>2. w \in Endpoints /\ GoodBoxes(inbox) /\ inbox' = [inbox EXCEPT ![w] = Tail(@)] /\ inbox[w] # <<>>
  BY WhoIsWho, WireOfInv DEF Await, Taken
<1>3. GoodBoxes(inbox') /\ \A f \in Endpoints \ {w} : inbox'[f] = inbox[f]
  BY <1>2, TailKeepsBoxes
<1>4. \A v \in Workers : polled'[v] <= Len(inbox'[v])
  <2> TAKE v \in Workers
  <2>1. v \in Endpoints /\ Len(inbox'[v]) \in Nat
    BY <1>3, WhoIsWho, LenProperties DEF GoodBoxes
  <2>2. CASE v = w
    BY <1>1, <2>1, <2>2 DEF Await, Idle
  <2>3. CASE v # w
    BY <1>1, <1>3, <2>1, <2>3 DEF IInv, TypeOK
  <2> QED BY <2>2, <2>3
<1>5. phase' \in [Workers -> {"await", "poll", "work", "asked"}]
  BY DEF IInv, TypeOK, Await, Goto
<1>6. TypeOK'
  BY <1>1, <1>3, <1>4, <1>5 DEF IInv, TypeOK, treeVars, faultVars, driverVars, GoodBoxes
<1> QED BY <1>1, <1>3, <1>6
    DEF IInv, HeldIsTrue, MailIsTrue, RootIsTreeValue, GoodBoxes, treeVars, driverVars

-----------------------------------------------------------------------------
(* The sender threads.                                                     *)

(* The head of a queue is a message its receiver may be sent, and delivering *)
(* it makes no inbox shorter.                                               *)
LEMMA DeliverKeepsWire ==
  ASSUME IInv, NEW e \in Endpoints, out[e] # <<>>, Deliver(Head(out[e]))
  PROVE  GoodBoxes(inbox') /\ \A f \in Endpoints : Len(inbox'[f]) >= Len(inbox[f])
<1> DEFINE post == Head(out[e])
<1>1. GoodBoxes(inbox) /\ out[e] \in Seq(Posts)
  BY WireOfInv DEF GoodOut
<1>2. post \in Posts
  BY <1>1, HeadTailProperties
<1>3. PICK dest \in Endpoints : post.to = dest /\ post.msg \in Mail[dest]
  BY <1>2 DEF Posts
<1>4. inbox' = [inbox EXCEPT ![dest] = Append(inbox[dest], post.msg)]
  BY <1>1, <1>3 DEF Deliver, GoodBoxes
<1> HIDE DEF post
<1>5. /\ Append(inbox[dest], post.msg) \in Seq(Mail[dest])
      /\ Len(Append(inbox[dest], post.msg)) >= Len(inbox[dest])
  <2>1. inbox[dest] \in Seq(Mail[dest]) /\ Len(inbox[dest]) \in Nat
    BY <1>1, LenProperties DEF GoodBoxes
  <2>2. Len(Append(inbox[dest], post.msg)) = Len(inbox[dest]) + 1
    BY <1>3, <2>1, AppendProperties
  <2>3. Append(inbox[dest], post.msg) \in Seq(Mail[dest])
    BY <1>3, <2>1, AppendProperties
  <2> QED BY <2>1, <2>2, <2>3
<1>6. \A f \in Endpoints : Len(inbox[f]) \in Nat
  BY <1>1, LenProperties DEF GoodBoxes
<1>7. \A f \in Endpoints : f # dest => inbox'[f] = inbox[f]
  BY <1>1, <1>4 DEF GoodBoxes
<1>8. inbox'[dest] = Append(inbox[dest], post.msg) /\ DOMAIN inbox' = Endpoints
  BY <1>1, <1>4 DEF GoodBoxes
<1>9. \A f \in Endpoints : inbox'[f] \in Seq(Mail[f])
  BY <1>1, <1>5, <1>7, <1>8 DEF GoodBoxes
<1>10. \A f \in Endpoints : Len(inbox'[f]) >= Len(inbox[f])
  <2> TAKE f \in Endpoints
  <2>1. CASE f = dest
    BY <1>5, <1>8, <2>1
  <2>2. CASE f # dest
    <3>1. inbox'[f] = inbox[f]
      BY <1>7, <2>2
    <3> QED BY <1>6, <3>1
  <2> QED BY <2>1, <2>2
<1> QED BY <1>8, <1>9, <1>10 DEF GoodBoxes

(* Dropping the head of a sender queue keeps the queues true.               *)
LEMMA PopKeepsOut ==
  ASSUME IInv, NEW e \in Endpoints, out[e] # <<>>, Pop(e)
  PROVE  GoodOut'
<1>1. Tail(out[e]) \in Seq(Posts)
  BY WireOfInv, HeadTailProperties DEF GoodOut
<1> QED BY <1>1, WireOfInv DEF GoodOut, Pop

(* A post that is acknowledged keeps the invariant.                         *)
LEMMA PostKeeps ==
  ASSUME IInv, NEW e \in Endpoints, Post(e)
  PROVE  IInv'
<1>1. GoodBoxes(inbox') /\ \A f \in Endpoints : Len(inbox'[f]) >= Len(inbox[f])
  BY DeliverKeepsWire DEF Post
<1>2. GoodOut'
  BY PopKeepsOut DEF Post
<1>3. \A v \in Workers : polled'[v] <= Len(inbox'[v])
  BY <1>1, PolledStaysThere, WireOfInv DEF Post, loopVars
<1>4. TypeOK'
  BY <1>1, <1>2, <1>3
     DEF IInv, TypeOK, Post, loopVars, treeVars, faultVars, driverVars, GoodBoxes, GoodOut
<1> QED BY <1>1, <1>2, <1>4
    DEF IInv, HeldIsTrue, MailIsTrue, RootIsTreeValue, Post, GoodBoxes, GoodOut, treeVars, driverVars

(* A queue whose head moves back still holds the same posts.                *)
LEMMA HeadToSame ==
  ASSUME NEW S, NEW q \in Seq(S), NEW k \in DOMAIN q
  PROVE  /\ HeadTo(k, q) \in Seq(S) /\ DOMAIN HeadTo(k, q) = DOMAIN q /\ Len(HeadTo(k, q)) = Len(q)
         /\ \A i \in DOMAIN q : HeadTo(k, q)[i] = IF i < k THEN q[i+1] ELSE IF i = k THEN q[1] ELSE q[i]
         /\ ToSet(HeadTo(k, q)) = ToSet(q)
<1> DEFINE n == Len(q)
           t == HeadTo(k, q)
<1>1. n \in Nat /\ DOMAIN q = 1 .. n /\ k \in 1 .. n /\ \A i \in 1 .. n : q[i] \in S
  BY LenProperties, ElementOfSeq
<1>2. DOMAIN t = 1 .. n /\ \A i \in 1 .. n : t[i] = IF i < k THEN q[i+1] ELSE IF i = k THEN q[1] ELSE q[i]
  BY <1>1 DEF HeadTo
<1>3. t \in [1 .. n -> S]
  <2>1. ASSUME NEW i \in 1 .. n PROVE t[i] \in S
    <3>1. 1 \in 1 .. n /\ (i < k => i+1 \in 1 .. n)
      BY <1>1
    <3> QED BY <1>1, <1>2, <3>1
  <2>2. t = [i \in 1 .. n |-> t[i]]
    BY <1>1 DEF HeadTo
  <2> QED BY <2>1, <2>2
<1>4. t \in Seq(S) /\ Len(t) = n
  <2>1. t \in Seq(S)
    BY <1>1, <1>3, SeqDef
  <2> QED BY <1>1, <1>2, <2>1, LenProperties
<1> HIDE DEF n, t
<1>5. ASSUME NEW x, x \in ToSet(t) PROVE x \in ToSet(q)
  <2>1. PICK i \in 1 .. n : x = t[i]
    BY <1>2, <1>5 DEF ToSet
  <2>2. 1 \in 1 .. n /\ (i < k => i+1 \in 1 .. n)
    BY <1>1
  <2> QED BY <1>1, <1>2, <2>1, <2>2 DEF ToSet
<1>6. ASSUME NEW x, x \in ToSet(q) PROVE x \in ToSet(t)
  <2>1. PICK i \in 1 .. n : x = q[i]
    BY <1>1, <1>6 DEF ToSet
  <2>2. CASE i = 1
    <3>1. t[k] = x
      BY <1>1, <1>2, <2>1, <2>2
    <3> QED BY <1>1, <1>2, <3>1 DEF ToSet
  <2>3. CASE i > 1 /\ i <= k
    <3>1. i-1 \in 1 .. n /\ i-1 < k /\ (i-1)+1 = i
      BY <1>1, <2>1, <2>3
    <3>2. t[i-1] = x
      BY <1>2, <2>1, <3>1
    <3> QED BY <1>2, <3>1, <3>2 DEF ToSet
  <2>4. CASE i > k
    <3>1. ~(i < k) /\ i # k
      BY <1>1, <2>1, <2>4
    <3>2. t[i] = x
      BY <1>2, <2>1, <3>1
    <3> QED BY <1>2, <2>1, <3>2 DEF ToSet
  <2> QED BY <1>1, <2>1, <2>2, <2>3, <2>4
<1>7. ToSet(t) = ToSet(q)
  BY <1>5, <1>6
<1> QED BY <1>1, <1>2, <1>4, <1>7 DEF n, t

LEMMA RequeueKeepsOut ==
  ASSUME IInv, NEW e \in Endpoints, PostUnacknowledged(e)
  PROVE  GoodOut' /\ \A f \in Endpoints : ToSet(out'[f]) = ToSet(out[f])
<1>1. PICK k \in DOMAIN out[e] : out' = [out EXCEPT ![e] = HeadTo(k, @)]
  BY DEF PostUnacknowledged
<1>2. out[e] \in Seq(Posts)
  BY WireOfInv DEF GoodOut
<1> DEFINE t == HeadTo(k, out[e])
<1>3. t \in Seq(Posts) /\ ToSet(t) = ToSet(out[e])
  BY <1>2, HeadToSame
<1>4. out' = [out EXCEPT ![e] = t]
  BY <1>1, WireOfInv DEF GoodOut
<1> HIDE DEF t
<1> QED BY <1>3, <1>4, WireOfInv DEF GoodOut

(* A post whose acknowledgement is lost keeps the invariant.                *)
LEMMA PostUnacknowledgedKeeps ==
  ASSUME IInv, NEW e \in Endpoints, PostUnacknowledged(e)
  PROVE  IInv'
<1>1. GoodBoxes(inbox') /\ \A f \in Endpoints : Len(inbox'[f]) >= Len(inbox[f])
  BY DeliverKeepsWire DEF PostUnacknowledged
<1>2. UNCHANGED <<opt, loopVars, treeVars, drops, driverVars, stats>> /\ GoodOut'
  BY RequeueKeepsOut DEF PostUnacknowledged
<1>3. \A v \in Workers : polled'[v] <= Len(inbox'[v])
  BY <1>1, <1>2, PolledStaysThere, WireOfInv DEF IInv, loopVars
<1>4. repeats' \in Nat /\ repeats' + drops <= opt.faults
  <2>1. opt.faults \in Nat
    BY OptionAssumption DEF IInv, TypeOK
  <2> QED BY <2>1 DEF IInv, TypeOK, PostUnacknowledged
<1>5. TypeOK'
  BY <1>1, <1>2, <1>3, <1>4
     DEF IInv, TypeOK, loopVars, treeVars, driverVars, GoodBoxes, GoodOut
<1> QED BY <1>1, <1>2, <1>5
    DEF IInv, HeldIsTrue, MailIsTrue, RootIsTreeValue, GoodBoxes, GoodOut, treeVars, driverVars

(* A message given up after five attempts keeps the invariant.              *)
LEMMA GiveUpKeeps ==
  ASSUME IInv, NEW e \in Endpoints, GiveUp(e)
  PROVE  IInv'
<1>1. GoodOut'
  BY PopKeepsOut DEF GiveUp
<1>2. drops' \in Nat /\ repeats + drops' <= opt.faults
  <2>1. opt.faults \in Nat
    BY OptionAssumption DEF IInv, TypeOK
  <2> QED BY <2>1 DEF IInv, TypeOK, GiveUp
<1>3. UNCHANGED <<opt, loopVars, treeVars, inbox, repeats, driverVars, stats>>
  BY DEF GiveUp
<1>4. TypeOK'
  BY <1>1, <1>2, <1>3
     DEF IInv, TypeOK, loopVars, treeVars, driverVars, GoodOut
<1> QED BY <1>1, <1>3, <1>4
    DEF IInv, HeldIsTrue, MailIsTrue, RootIsTreeValue, GoodOut, treeVars, driverVars

-----------------------------------------------------------------------------
(* The driver.                                                             *)

(* The registry of queue transports holds every worker.                     *)
LEMMA InOrderType == InOrder \in Seq(Workers)
<1>1. \A i \in 1 .. W : i-1 \in Workers
  BY SizeAssumption DEF Workers
<1> QED BY <1>1, SizeAssumption DEF InOrder

(* A message for every worker of a registry, as posts.                      *)
LEMMA PostAllType ==
  ASSUME NEW order \in Seq(Workers), NEW msg, \A w \in Workers : msg \in Mail[w]
  PROVE  PostAll(order, msg) \in Seq(Posts)
<1>1. DOMAIN order = 1 .. Len(order) /\ Len(order) \in Nat /\ \A i \in 1 .. Len(order) : order[i] \in Workers
  BY ElementOfSeq, LenProperties
<1>2. \A i \in 1 .. Len(order) : [to |-> order[i], msg |-> msg] \in Posts
  BY <1>1, WhoIsWho DEF Posts
<1> QED BY <1>1, <1>2 DEF PostAll

(* Broadcasting done keeps the wire true and no inbox gets shorter.         *)
LEMMA BroadcastKeepsWire ==
  ASSUME IInv, BroadcastDone
  PROVE  GoodBoxes(inbox') /\ GoodOut' /\ \A e \in Endpoints : Len(inbox'[e]) >= Len(inbox[e])
<1>1. \A w \in Workers : DoneMsg \in Mail[w] /\ w \in Endpoints
  BY MailFacts, WhoIsWho
<1>2. GoodBoxes(inbox) /\ GoodOut /\ \A e \in Endpoints : Len(inbox[e]) \in Nat
  BY WireOfInv, LenProperties DEF GoodBoxes
<1>3. CASE Async
  <2> DEFINE posts == PostAll(known, DoneMsg)
  <2>1. inbox' = inbox /\ out' = [out EXCEPT ![DRIVER] = out[DRIVER] \o posts]
    BY <1>2, <1>3, WhoIsWho DEF BroadcastDone, GoodOut
  <2>2. posts \in Seq(Posts)
    BY <1>1, PostAllType DEF IInv, TypeOK
  <2>3. out[DRIVER] \o posts \in Seq(Posts)
    BY <1>2, <2>2, WhoIsWho, ConcatProperties DEF GoodOut
  <2> HIDE DEF posts
  <2> QED BY <1>2, <2>1, <2>3 DEF GoodOut
<1>4. CASE ~Async
  <2>1. out' = out /\ inbox' = [e \in Endpoints |-> IF e \in Workers THEN Append(inbox[e], DoneMsg) ELSE inbox[e]]
    BY <1>4 DEF BroadcastDone
  <2>2. \A w \in Workers : Append(inbox[w], DoneMsg) \in Seq(Mail[w]) /\ Len(Append(inbox[w], DoneMsg)) >= Len(inbox[w])
    <3> TAKE w \in Workers
    <3>1. inbox[w] \in Seq(Mail[w]) /\ Len(inbox[w]) \in Nat /\ DoneMsg \in Mail[w]
      BY <1>1, <1>2 DEF GoodBoxes
    <3>2. Len(Append(inbox[w], DoneMsg)) = Len(inbox[w]) + 1
      BY <3>1, AppendProperties
    <3>3. Append(inbox[w], DoneMsg) \in Seq(Mail[w])
      BY <3>1, AppendProperties
    <3> QED BY <3>1, <3>2, <3>3
  <2>3. GoodBoxes(inbox')
    BY <1>2, <2>1, <2>2 DEF GoodBoxes
  <2>4. \A e \in Endpoints : Len(inbox'[e]) >= Len(inbox[e])
    <3> TAKE e \in Endpoints
    <3>1. CASE e \in Workers
      BY <2>1, <2>2, <3>1
    <3>2. CASE e \notin Workers
      <4>1. inbox'[e] = inbox[e]
        BY <2>1, <3>2
      <4> QED BY <1>2, <4>1
    <3> QED BY <3>1, <3>2
  <2> QED BY <1>2, <2>1, <2>3, <2>4 DEF GoodOut
<1> QED BY <1>3, <1>4

(* Both ways of leaving the collecting loop: broadcast done, move on.        *)
LEMMA ReleaseKeeps ==
  ASSUME IInv, BroadcastDone, UNCHANGED <<opt, loopVars, treeVars, faultVars, known, stats>>,
         driver' \in {"join", "teardown"}, RootIsTreeValue'
  PROVE  IInv'
<1>1. GoodBoxes(inbox') /\ GoodOut' /\ \A e \in Endpoints : Len(inbox'[e]) >= Len(inbox[e])
  BY BroadcastKeepsWire
<1>2. \A v \in Workers : polled'[v] <= Len(inbox'[v])
  BY <1>1, PolledStaysThere, WireOfInv DEF IInv, loopVars
<1>3. TypeOK'
  BY <1>1, <1>2 DEF IInv, TypeOK, loopVars, treeVars, faultVars, GoodBoxes, GoodOut
<1> QED BY <1>1, <1>3 DEF IInv, HeldIsTrue, MailIsTrue, GoodBoxes, GoodOut, treeVars

(* Taking the root keeps the invariant.                                     *)
LEMMA CollectRootKeeps ==
  ASSUME IInv, CollectRoot
  PROVE  IInv'
<1>1. inbox[DRIVER] \in Seq(Mail[DRIVER]) /\ inbox[DRIVER] # <<>>
  BY WireOfInv, WhoIsWho DEF GoodBoxes, CollectRoot, Hears
<1>2. Head(inbox[DRIVER]) \in Mail[DRIVER]
  BY <1>1, HeadTailProperties
<1>3. Head(inbox[DRIVER]).val = TreeValue[Root]
  BY <1>2, DriverMailByTag DEF CollectRoot, Hears
<1>4. RootIsTreeValue'
  BY <1>3 DEF RootIsTreeValue, CollectRoot
<1> QED BY <1>4, ReleaseKeeps DEF CollectRoot

(* A worker's error keeps the invariant.                                    *)
LEMMA SeesErrorKeeps ==
  ASSUME IInv, SeesError
  PROVE  IInv'
<1>1. RootIsTreeValue'
  BY DEF IInv, RootIsTreeValue, SeesError
<1>2. driver' \in {"join", "teardown"}
  BY DEF SeesError
<1> QED BY <1>1, <1>2, ReleaseKeeps DEF SeesError

(* Moving on without sending anything keeps the invariant.                  *)
LEMMA MoveOnKeeps ==
  ASSUME IInv, driver' \in {"collect", "join", "teardown", "returned"},
         UNCHANGED <<opt, loopVars, treeVars, wireVars, faultVars, known, answer, stats>>
  PROVE  IInv'
<1>1. TypeOK'
  BY DEF IInv, TypeOK, loopVars, treeVars, wireVars, faultVars
<1> QED BY <1>1 DEF IInv, HeldIsTrue, MailIsTrue, RootIsTreeValue, treeVars, wireVars

(* The deadline keeps the invariant.                                        *)
LEMMA DeadlinePassesKeeps ==
  ASSUME IInv, DeadlinePasses
  PROVE  IInv'
<1>1. CASE Threads
  <2>1. UNCHANGED <<opt, loopVars, treeVars, wireVars, faultVars, known, answer, stats>> /\ driver' = "teardown"
    BY <1>1 DEF DeadlinePasses
  <2> QED BY <2>1, MoveOnKeeps
<1>2. CASE ~Threads
  <2>1. BroadcastDone /\ driver' = "teardown" /\ UNCHANGED <<opt, loopVars, treeVars, faultVars, known, answer, stats>>
    BY <1>2 DEF DeadlinePasses
  <2>2. RootIsTreeValue'
    BY <2>1 DEF IInv, RootIsTreeValue
  <2> QED BY <2>1, <2>2, ReleaseKeeps
<1> QED BY <1>1, <1>2

(* What the driver takes out of its inbox keeps the wire true.              *)
LEMMA HeardKeepsWire ==
  ASSUME IInv, NEW tag, Hears(tag), Heard
  PROVE  /\ Head(inbox[DRIVER]) \in Mail[DRIVER] /\ Head(inbox[DRIVER]).tag = tag
         /\ GoodBoxes(inbox') /\ \A w \in Workers : inbox'[w] = inbox[w]
<1>1. Head(inbox[DRIVER]) \in Mail[DRIVER] /\ GoodBoxes(inbox') /\ \A f \in Endpoints \ {DRIVER} : inbox'[f] = inbox[f]
  BY TailKeepsBoxes, WireOfInv, WhoIsWho DEF Hears, Heard
<1> QED BY <1>1, WhoIsWho DEF Hears

(* A worker that announces itself is entered once; the invariant is kept.    *)
LEMMA GatherHelloKeeps ==
  ASSUME IInv, GatherHello
  PROVE  IInv'
<1>1. UNCHANGED <<opt, loopVars, treeVars, out, faultVars, driver, answer, stats>>
  BY DEF GatherHello
<1>2. /\ Head(inbox[DRIVER]) \in Mail[DRIVER] /\ Head(inbox[DRIVER]).tag = "hello"
      /\ GoodBoxes(inbox') /\ \A w \in Workers : inbox'[w] = inbox[w]
  BY HeardKeepsWire DEF GatherHello
<1> DEFINE w == Head(inbox[DRIVER]).from
<1>3. w \in Workers
  BY <1>2, DriverMailByTag
<1>4. known' \in Seq(Workers)
  <2>1. known \in Seq(Workers) /\ known' \in {known, Append(known, w)}
    BY DEF IInv, TypeOK, GatherHello
  <2> HIDE DEF w
  <2> QED BY <1>3, <2>1, AppendProperties
<1>5. TypeOK'
  BY <1>1, <1>2, <1>4 DEF IInv, TypeOK, loopVars, treeVars, faultVars, GoodBoxes
<1> QED BY <1>1, <1>2, <1>5
    DEF IInv, HeldIsTrue, MailIsTrue, RootIsTreeValue, GoodBoxes, treeVars

(* Sending everybody the registry keeps the invariant.                      *)
LEMMA SendRegistryKeeps ==
  ASSUME IInv, SendRegistry
  PROVE  IInv'
<1>1. UNCHANGED <<opt, loopVars, treeVars, inbox, faultVars, known, answer, stats>> /\ driver' = "collect"
  BY DEF SendRegistry
<1>2. PostAll(RegistryOrder, RegistryMsg) \in Seq(Posts)
  BY InOrderType, MailFacts, PostAllType DEF RegistryOrder
<1>3. GoodOut'
  <2>1. out' = [out EXCEPT ![DRIVER] = out[DRIVER] \o PostAll(RegistryOrder, RegistryMsg)] /\ GoodOut
    BY WireOfInv, WhoIsWho DEF SendRegistry, GoodOut
  <2>2. out[DRIVER] \o PostAll(RegistryOrder, RegistryMsg) \in Seq(Posts)
    BY <1>2, <2>1, WhoIsWho, ConcatProperties DEF GoodOut
  <2> QED BY <2>1, <2>2 DEF GoodOut
<1>4. TypeOK'
  BY <1>1, <1>3 DEF IInv, TypeOK, loopVars, treeVars, faultVars, GoodOut
<1> QED BY <1>1, <1>3, <1>4 DEF IInv, HeldIsTrue, MailIsTrue, RootIsTreeValue, GoodOut, treeVars

(* A handshake that fails keeps the invariant.                              *)
LEMMA HandshakeFailsKeeps ==
  ASSUME IInv, HandshakeFails
  PROVE  IInv'
BY MoveOnKeeps DEF HandshakeFails

(* Passing over a hello keeps the invariant.                                *)
LEMMA CollectOtherKeeps ==
  ASSUME IInv, CollectOther
  PROVE  IInv'
<1>1. UNCHANGED <<opt, loopVars, treeVars, out, faultVars, driverVars, stats>>
  BY DEF CollectOther
<1>2. GoodBoxes(inbox') /\ \A w \in Workers : inbox'[w] = inbox[w]
  BY HeardKeepsWire DEF CollectOther
<1>3. TypeOK'
  BY <1>1, <1>2 DEF IInv, TypeOK, loopVars, treeVars, faultVars, driverVars, GoodBoxes
<1> QED BY <1>1, <1>2, <1>3
    DEF IInv, HeldIsTrue, MailIsTrue, RootIsTreeValue, GoodBoxes, treeVars, driverVars

(* A future that raises keeps the invariant.                                *)
LEMMA JoinRaisesKeeps ==
  ASSUME IInv, JoinRaises
  PROVE  IInv'
BY MoveOnKeeps DEF JoinRaises

(* Closing the driver's transport, after the last future or after an error,  *)
(* keeps the invariant.                                                    *)
LEMMA ClosingKeeps ==
  ASSUME IInv, Join \/ Teardown
  PROVE  IInv'
<1>1. GoodOut'
  <2>1. CloseTransports
    BY DEF Join, Teardown
  <2> QED BY <2>1, WireOfInv DEF GoodOut, CloseTransports
<1>2. /\ UNCHANGED <<opt, loopVars, treeVars, inbox, faultVars, known, answer, stats>>
      /\ driver' \in {"returned", "shutdown"}
  BY DEF Join, Teardown
<1>3. TypeOK'
  BY <1>1, <1>2 DEF IInv, TypeOK, loopVars, treeVars, faultVars, GoodOut
<1> QED BY <1>1, <1>2, <1>3 DEF IInv, HeldIsTrue, MailIsTrue, RootIsTreeValue, treeVars, GoodOut

(* Shutting the pool down keeps the invariant.                              *)
LEMMA ShutdownKeeps ==
  ASSUME IInv, Shutdown
  PROVE  IInv'
<1>1. TypeOK'
  BY DEF IInv, TypeOK, Shutdown, Ended, Reraised, treeVars, wireVars, faultVars
<1> QED BY <1>1 DEF IInv, HeldIsTrue, MailIsTrue, RootIsTreeValue, Shutdown, Reraised, treeVars, wireVars

-----------------------------------------------------------------------------
(* The ranges the workers start with are sequences of leaves.               *)
LEMMA LeafRangeType ==
  ASSUME NEW w \in Workers
  PROVE  LeafRange(N, W, w) \in Seq(Leaves)
<1> DEFINE lo == (w * N) \div W
           hi == ((w+1) * N) \div W
<1>1. w \in Nat /\ w + 1 <= W /\ W \in Nat \ {0} /\ N \in Nat
  BY SizeAssumption DEF Workers
<1>2. w * N \in Nat /\ (w+1) * N \in Nat /\ (w+1) * N <= W * N
  <2>1. W * N = (w+1) * N + (W - (w+1)) * N
    BY <1>1
  <2>2. (W - (w+1)) * N \in Nat
    <3>1. W - (w+1) \in Nat
      BY <1>1
    <3> QED BY <1>1, <3>1
  <2> QED BY <1>1, <2>1, <2>2
<1>3. lo \in Nat /\ hi \in Nat
  BY <1>1, <1>2
<1>4. hi <= N
  <2>1. SUFFICES ASSUME N + 1 <= hi PROVE FALSE
    BY <1>1, <1>3
  <2>2. W * hi <= (w+1) * N
    BY <1>1, <1>2
  <2>3. W * (N + 1) <= W * hi
    BY <1>1, <1>3, <2>1
  <2> QED BY <1>1, <1>2, <1>3, <2>2, <2>3
<1>5. lo <= hi
  <2>1. w * N <= (w+1) * N
    BY <1>1
  <2> QED BY <1>1, <1>2, <2>1
<1>6. LeafRange(N, W, w) = [k \in 1 .. hi - lo |-> lo + k - 1]
  <2>1. MakeBounds(N, W)[w] = lo /\ MakeBounds(N, W)[w+1] = hi
    <3>1. w \in 0 .. W /\ w+1 \in 0 .. W
      BY <1>1
    <3> QED BY <3>1 DEF MakeBounds
  <2> QED BY <2>1 DEF LeafRange
<1> HIDE DEF lo, hi
<1>7. \A k \in 1 .. hi - lo : lo + k - 1 \in Leaves
  BY <1>1, <1>3, <1>4 DEF Leaves
<1>8. hi - lo \in Nat
  BY <1>3, <1>5
<1> QED BY <1>6, <1>7, <1>8

(* The invariant holds when the actors start.                               *)
LEMMA InitInv == Init => IInv
<1> SUFFICES ASSUME Init PROVE IInv
  OBVIOUS
<1>1. mine \in [Workers -> Seq(Leaves)]
  BY LeafRangeType DEF Init
<1>2. \A w \in Workers : present[w] = NothingParked /\ DOMAIN present[w] = {}
  BY DEF Init, NothingParked
<1>3. \A w \in Workers : polled[w] <= Len(inbox[w])
  BY WhoIsWho DEF Init
<1>4. stats \in [Workers -> [StatFields -> Nat]]
  BY DEF Init, NoStats
<1>5. TypeOK
  <2>1. opt \in Options /\ opt.faults \in Nat /\ repeats = 0 /\ drops = 0
    BY OptionAssumption DEF Init
  <2>2. known \in Seq(Workers)
    BY InOrderType, EmptySeq DEF Init
  <2> QED BY <1>1, <1>2, <1>3, <1>4, <2>1, <2>2, OptionAssumption DEF Init, TypeOK
<1>6. MailIsTrue
  <2>1. \A e \in Endpoints : inbox[e] \in Seq(Mail[e])
    BY DEF Init
  <2>2. ASSUME NEW e \in Workers PROVE <<[to |-> DRIVER, msg |-> HelloMsg(e)]>> \in Seq(Posts)
    <3>1. [to |-> DRIVER, msg |-> HelloMsg(e)] \in Posts
      BY MailFacts, WhoIsWho DEF Posts
    <3> QED BY <3>1
  <2>3. \A e \in Endpoints : out[e] \in Seq(Posts)
    BY <2>2, WhoIsWho, EmptySeq DEF Init
  <2> QED BY <2>1, <2>3 DEF MailIsTrue
<1>7. HeldIsTrue
  BY <1>2 DEF Init, HeldIsTrue
<1>8. RootIsTreeValue
  BY DEF Init, RootIsTreeValue
<1> QED BY <1>5, <1>6, <1>7, <1>8 DEF IInv

(* Every step of every process keeps the invariant.                         *)
LEMMA NextInv == IInv /\ [Next]_vars => IInv'
<1> SUFFICES ASSUME IInv, [Next]_vars PROVE IInv'
  OBVIOUS
<1>1. ASSUME NEW w \in Workers, Worker(w) PROVE IInv'
  <2>1. CASE Settle(w)
    BY <2>1, SettleRootKeeps, SettleCarryKeeps, SettleShipKeeps, SettleParkKeeps, SettleCombineKeeps
       DEF Settle
  <2>2. CASE Poll(w)
    BY <2>2, PollKeeps
  <2>3. CASE Recv(w)
    BY <2>3, RecvKeeps
  <2>4. CASE AskSteal(w)
    BY <2>4, AskStealKeeps
  <2>5. CASE ProcessRaises(w)
    BY <2>5, ProcessRaisesKeeps
  <2>6. CASE Process(w)
    BY <2>6, ProcessKeeps
  <2>7. CASE Handle(w)
    BY <2>7, HandleNodeKeeps, HandleLeafKeeps, HandleStealReqKeeps, HandleStealRespKeeps,
       HandleDoneKeeps, HandleOtherKeeps DEF Handle
  <2>8. CASE Await(w)
    BY <2>8, AwaitKeeps
  <2> QED BY <1>1, <2>1, <2>2, <2>3, <2>4, <2>5, <2>6, <2>7, <2>8 DEF Worker
<1>2. ASSUME NEW e \in Endpoints, Post(e) \/ PostUnacknowledged(e) \/ GiveUp(e) PROVE IInv'
  BY <1>2, PostKeeps, PostUnacknowledgedKeeps, GiveUpKeeps
<1>3. CASE Driver
  BY <1>3, GatherHelloKeeps, SendRegistryKeeps, HandshakeFailsKeeps, CollectRootKeeps, CollectOtherKeeps,
     SeesErrorKeeps, DeadlinePassesKeeps, JoinRaisesKeeps, ClosingKeeps, ShutdownKeeps DEF Driver
<1>4. CASE UNCHANGED vars
  <2>1. TypeOK'
    BY <1>4 DEF IInv, TypeOK, vars, loopVars, treeVars, wireVars, faultVars, driverVars
  <2> QED BY <1>4, <2>1
      DEF IInv, MailIsTrue, HeldIsTrue, RootIsTreeValue, vars, treeVars, wireVars, driverVars
<1> QED BY <1>1, <1>2, <1>3, <1>4 DEF Next, Finished

-----------------------------------------------------------------------------
(* The inductive invariant holds throughout: types, and a true value in      *)
(* every message and every hand.                                            *)
THEOREM InductiveInvariant == Spec => []IInv
<1> QED BY InitInv, NextInv, PTL DEF Spec

(* The variables keep their types, polled never counts more messages than    *)
(* have arrived.                                                            *)
THEOREM TypeCorrect == Spec => []TypeOK
<1>1. IInv => TypeOK
  BY DEF IInv
<1> QED BY <1>1, InductiveInvariant, PTL

(* Every partial on the wire, parked or in hand has the value the tree gives  *)
(* its node, and only workers that settle that node get it.                  *)
THEOREM ValuesStayTrue == Spec => []ValuesAreTrue
<1>1. IInv => ValuesAreTrue
  BY DEF IInv, ValuesAreTrue
<1> QED BY <1>1, InductiveInvariant, PTL

(* Determinism: whatever root the driver takes has the value of the fixed     *)
(* tree.                                                                    *)
THEOREM RootDeterministic == Spec => []RootIsTreeValue
<1>1. IInv => RootIsTreeValue
  BY DEF IInv
<1> QED BY <1>1, InductiveInvariant, PTL

(* A worker that reaches the root level is worker 0: the routing by ownership *)
(* brings every path up the tree to the owner of leaf 0.                    *)
THEOREM RootReachedAtWorker0 == Spec => []RootOnlyAtWorker0
<1>1. IInv => RootOnlyAtWorker0
  <2> SUFFICES ASSUME IInv, NEW w \in Workers, cur[w] # None, IsRootLevel(N, Lvl(cur[w].node))
               PROVE  w = 0
    BY DEF RootOnlyAtWorker0
  <2>1. PICK nd \in Nodes : AtHome(w, nd) /\ cur[w] = [node |-> nd, val |-> TreeValue[nd]]
    BY DEF IInv, HeldIsTrue
  <2>2. cur[w].node = nd
    BY <2>1
  <2>3. nd = Root
    BY <2>2, RootNode
  <2> QED BY <2>1, <2>3, RootAtHome
<1> QED BY <1>1, InductiveInvariant, PTL

-----------------------------------------------------------------------------
(* What a sequence contains.                                               *)

LEMMA ElementsOfEmpty == ToSet(<<>>) = {}
BY DEF ToSet

LEMMA ElementsOfAppend ==
  ASSUME NEW S, NEW s \in Seq(S), NEW x
  PROVE  ToSet(Append(s, x)) = ToSet(s) \cup {x}
<1> DEFINE t == Append(s, x)
<1>1. s \in Seq(S \cup {x})
  BY SeqMonotonic
<1>2. /\ t \in Seq(S \cup {x}) /\ Len(t) = Len(s) + 1 /\ Len(s) \in Nat
      /\ \A i \in 1 .. Len(s) : t[i] = s[i]
      /\ t[Len(s) + 1] = x
  BY <1>1, AppendProperties, LenProperties
<1>3. DOMAIN t = 1 .. Len(s) + 1 /\ DOMAIN s = 1 .. Len(s)
  BY <1>1, <1>2, LenProperties
<1> HIDE DEF t
<1>4. 1 .. Len(s) + 1 = (1 .. Len(s)) \cup {Len(s) + 1}
  BY <1>2
<1>5. ToSet(t) = {t[i] : i \in (1 .. Len(s)) \cup {Len(s) + 1}}
  BY <1>3, <1>4 DEF ToSet
<1>6. ToSet(s) = {s[i] : i \in 1 .. Len(s)}
  BY <1>3 DEF ToSet
<1> QED BY <1>2, <1>5, <1>6 DEF t

LEMMA ElementsOfTail ==
  ASSUME NEW S, NEW s \in Seq(S), s # <<>>
  PROVE  ToSet(s) = {Head(s)} \cup ToSet(Tail(s))
<1> DEFINE t == Tail(s)
<1>1. /\ t \in Seq(S) /\ Len(t) = Len(s) - 1 /\ Len(s) \in Nat \ {0}
      /\ \A i \in 1 .. Len(t) : t[i] = s[i+1]
      /\ Head(s) = s[1]
  BY HeadTailProperties, EmptySeq
<1>2. DOMAIN t = 1 .. Len(s) - 1 /\ DOMAIN s = 1 .. Len(s)
  BY <1>1, LenProperties
<1> HIDE DEF t
<1>3. ASSUME NEW i \in 1 .. Len(s) PROVE i = 1 \/ (i-1 \in 1 .. Len(t) /\ (i-1)+1 = i)
  BY <1>1
<1>4. ASSUME NEW j \in 1 .. Len(t) PROVE j+1 \in 1 .. Len(s)
  BY <1>1
<1>5. 1 \in 1 .. Len(s) /\ 1 .. Len(s) - 1 = 1 .. Len(t)
  BY <1>1
<1>6. ToSet(t) = {t[i] : i \in 1 .. Len(t)} /\ ToSet(s) = {s[i] : i \in 1 .. Len(s)}
  BY <1>2, <1>5 DEF ToSet
<1>7. ASSUME NEW i \in 1 .. Len(s) PROVE s[i] \in {Head(s)} \cup ToSet(t)
  <2>1. CASE i = 1
    BY <1>1, <2>1
  <2>2. CASE i - 1 \in 1 .. Len(t) /\ (i-1)+1 = i
    BY <1>1, <1>6, <2>2
  <2> QED BY <1>3, <2>1, <2>2
<1>8. \A x \in {Head(s)} \cup ToSet(t) : x \in ToSet(s)
  BY <1>1, <1>4, <1>5, <1>6
<1> QED BY <1>6, <1>7, <1>8 DEF t

LEMMA ElementsOfConcat ==
  ASSUME NEW S, NEW s \in Seq(S), NEW t \in Seq(S)
  PROVE  ToSet(s \o t) = ToSet(s) \cup ToSet(t)
<1> DEFINE c == s \o t
<1>1. /\ c \in Seq(S) /\ Len(c) = Len(s) + Len(t) /\ Len(s) \in Nat /\ Len(t) \in Nat
      /\ \A i \in 1 .. Len(s) + Len(t) : c[i] = IF i <= Len(s) THEN s[i] ELSE t[i - Len(s)]
  BY ConcatProperties, LenProperties
<1>2. DOMAIN c = 1 .. Len(s) + Len(t) /\ DOMAIN s = 1 .. Len(s) /\ DOMAIN t = 1 .. Len(t)
  BY <1>1, LenProperties
<1> HIDE DEF c
<1>3. ASSUME NEW i \in 1 .. Len(s) + Len(t)
      PROVE  c[i] \in ToSet(s) \cup ToSet(t)
  <2>1. CASE i <= Len(s)
    BY <1>1, <1>2, <2>1 DEF ToSet
  <2>2. CASE i > Len(s)
    <3>1. i - Len(s) \in 1 .. Len(t) /\ c[i] = t[i - Len(s)]
      BY <1>1, <2>2
    <3> QED BY <1>2, <3>1 DEF ToSet
  <2> QED BY <1>1, <2>1, <2>2
<1>4. ASSUME NEW i \in 1 .. Len(s) PROVE s[i] \in ToSet(c)
  <2>1. i \in 1 .. Len(s) + Len(t) /\ c[i] = s[i]
    BY <1>1
  <2> QED BY <1>2, <2>1 DEF ToSet
<1>5. ASSUME NEW i \in 1 .. Len(t) PROVE t[i] \in ToSet(c)
  <2>1. /\ Len(s) + i \in 1 .. Len(s) + Len(t)
        /\ ~(Len(s) + i <= Len(s)) /\ (Len(s) + i) - Len(s) = i
    BY <1>1
  <2>2. c[Len(s) + i] = t[i]
    BY <1>1, <2>1
  <2> QED BY <1>2, <2>1, <2>2 DEF ToSet
<1>6. ToSet(c) \subseteq ToSet(s) \cup ToSet(t)
  BY <1>2, <1>3 DEF ToSet
<1>7. ToSet(s) \subseteq ToSet(c) /\ ToSet(t) \subseteq ToSet(c)
  BY <1>2, <1>4, <1>5 DEF ToSet
<1> QED BY <1>6, <1>7 DEF c

-----------------------------------------------------------------------------
(* What is on its way to whom, for any inboxes and sender queues.           *)

Arriving(boxes, queues, e) ==
  ToSet(boxes[e]) \cup {p.msg : p \in {q \in UNION {ToSet(queues[f]) : f \in Endpoints} : q.to = e}}

LEMMA OnTheWay == \A e : MessagesTo(e) = Arriving(inbox, out, e)
BY DEF MessagesTo, Arriving

LEMMA OnTheWayNext == \A e : MessagesTo(e)' = Arriving(inbox', out', e)
BY DEF MessagesTo, Arriving

(* A message is on its way to e if it has been delivered or is to be posted. *)
LEMMA ArrivingMember ==
  ASSUME NEW boxes, NEW queues, NEW e, NEW m
  PROVE  m \in Arriving(boxes, queues, e)
           <=> \/ m \in ToSet(boxes[e])
               \/ \E f \in Endpoints : \E p \in ToSet(queues[f]) : p.to = e /\ p.msg = m
BY DEF Arriving

(* What arrives is mail of its receiver.                                    *)
LEMMA ArrivingIsMail ==
  ASSUME NEW boxes, GoodBoxes(boxes), GoodOut, NEW e \in Endpoints
  PROVE  Arriving(boxes, out, e) \subseteq Mail[e]
<1>1. ToSet(boxes[e]) \subseteq Mail[e]
  <2>1. boxes[e] \in Seq(Mail[e])
    BY DEF GoodBoxes
  <2> QED BY <2>1, LenProperties, ElementOfSeq DEF ToSet
<1>2. ASSUME NEW f \in Endpoints, NEW p \in ToSet(out[f]), p.to = e PROVE p.msg \in Mail[e]
  <2>1. out[f] \in Seq(Posts)
    BY DEF GoodOut
  <2>2. p \in Posts
    BY <2>1, LenProperties, ElementOfSeq DEF ToSet
  <2> QED BY <1>2, <2>2 DEF Posts
<1> QED BY <1>1, <1>2, ArrivingMember

(* A send adds its message to what arrives, if the receiver can be reached.  *)
Reached(w, dest, msg) == IF dest \in Outbox[w] THEN {msg} ELSE {}

LEMMA SendArrives ==
  ASSUME NEW w \in Workers, NEW dest \in Endpoints, NEW msg
  PROVE  \A boxes : GoodBoxes(boxes) /\ GoodOut /\ Send(w, boxes, dest, msg)
           => \A e \in Endpoints : MessagesTo(e)' =
                Arriving(boxes, out, e) \cup IF e = dest THEN Reached(w, dest, msg) ELSE {}
<1> SUFFICES ASSUME NEW boxes, GoodBoxes(boxes), GoodOut, Send(w, boxes, dest, msg), NEW e \in Endpoints
             PROVE  Arriving(inbox', out', e) =
                      Arriving(boxes, out, e) \cup IF e = dest THEN Reached(w, dest, msg) ELSE {}
  BY OnTheWayNext
<1>1. w \in Endpoints
  BY WhoIsWho
<1>2. CASE dest \notin Outbox[w]
  <2>1. inbox' = boxes /\ out' = out /\ Reached(w, dest, msg) = {}
    BY <1>2 DEF Send, NoSend, Reached
  <2> QED BY <2>1
<1>3. CASE dest \in Outbox[w] /\ Async
  <2> DEFINE post == [to |-> dest, msg |-> msg]
  <2>1. inbox' = boxes /\ out' = [out EXCEPT ![w] = Append(out[w], post)] /\ Reached(w, dest, msg) = {msg}
    BY <1>3 DEF Send, HttpSend, Reached
  <2>2. post.to = dest /\ post.msg = msg
    OBVIOUS
  <2> HIDE DEF post
  <2>3. ToSet(Append(out[w], post)) = ToSet(out[w]) \cup {post}
    BY <1>1, ElementsOfAppend DEF GoodOut
  <2>4. \A f \in Endpoints : ToSet(out'[f]) = ToSet(out[f]) \cup IF f = w THEN {post} ELSE {}
    BY <1>1, <2>1, <2>3 DEF GoodOut
  <2>5. ASSUME NEW m PROVE m \in Arriving(inbox', out', e) <=>
           m \in Arriving(boxes, out, e) \/ (e = dest /\ m = msg)
    <3>1. (\E f \in Endpoints : \E p \in ToSet(out'[f]) : p.to = e /\ p.msg = m)
            <=> \/ \E f \in Endpoints : \E p \in ToSet(out[f]) : p.to = e /\ p.msg = m
                \/ post.to = e /\ post.msg = m
      BY <1>1, <2>4
    <3>2. m \in Arriving(boxes, out', e)
            <=> m \in ToSet(boxes[e]) \/ \E f \in Endpoints : \E p \in ToSet(out'[f]) : p.to = e /\ p.msg = m
      BY ArrivingMember
    <3>3. m \in Arriving(boxes, out, e)
            <=> m \in ToSet(boxes[e]) \/ \E f \in Endpoints : \E p \in ToSet(out[f]) : p.to = e /\ p.msg = m
      BY ArrivingMember
    <3> QED BY <2>1, <2>2, <3>1, <3>2, <3>3
  <2> QED BY <2>1, <2>5
<1>4. CASE dest \in Outbox[w] /\ ~Async
  <2>1. /\ inbox' = [boxes EXCEPT ![dest] = Append(boxes[dest], msg)] /\ out' = out
        /\ Reached(w, dest, msg) = {msg}
    BY <1>4 DEF Send, QueueSend, Reached
  <2>2. ToSet(Append(boxes[dest], msg)) = ToSet(boxes[dest]) \cup {msg}
    BY ElementsOfAppend DEF GoodBoxes
  <2>3. ToSet(inbox'[e]) = ToSet(boxes[e]) \cup IF e = dest THEN {msg} ELSE {}
    BY <2>1, <2>2 DEF GoodBoxes
  <2> QED BY <2>1, <2>3 DEF Arriving
<1> QED BY <1>2, <1>3, <1>4

(* Taking the oldest message out of an inbox.                               *)
LEMMA TakenArrives ==
  ASSUME GoodBoxes(inbox), NEW e \in Endpoints, inbox[e] # <<>>,
         NEW boxes, boxes = [inbox EXCEPT ![e] = Tail(@)]
  PROVE  /\ MessagesTo(e) = Arriving(boxes, out, e) \cup {Head(inbox[e])}
         /\ \A f \in Endpoints \ {e} : MessagesTo(f) = Arriving(boxes, out, f)
<1>1. boxes[e] = Tail(inbox[e]) /\ \A f \in Endpoints \ {e} : boxes[f] = inbox[f]
  BY DEF GoodBoxes
<1>2. ToSet(inbox[e]) = {Head(inbox[e])} \cup ToSet(boxes[e])
  BY <1>1, ElementsOfTail DEF GoodBoxes
<1> QED BY <1>1, <1>2 DEF MessagesTo, Arriving

(* Nothing but the wire's queues matters for what arrives.                  *)
LEMMA SameWire ==
  ASSUME UNCHANGED wireVars
  PROVE  \A e \in Endpoints : MessagesTo(e)' = MessagesTo(e)
BY DEF wireVars, MessagesTo

(* A post moves a message from a queue to its receiver.                     *)
LEMMA DeliverArrives ==
  ASSUME GoodBoxes(inbox), GoodOut, NEW e \in Endpoints, out[e] # <<>>, Deliver(Head(out[e])),
         Pop(e) \/ \A f \in Endpoints : ToSet(out'[f]) = ToSet(out[f])
  PROVE  \A f \in Endpoints : MessagesTo(f)' = MessagesTo(f)
<1> DEFINE post == Head(out[e])
<1>1. post \in Posts /\ ToSet(out[e]) = {post} \cup ToSet(Tail(out[e]))
  BY HeadTailProperties, ElementsOfTail DEF GoodOut
<1>2. PICK dest \in Endpoints : post.to = dest /\ post.msg \in Mail[dest]
  BY <1>1 DEF Posts
<1>3. inbox' = [inbox EXCEPT ![dest] = Append(inbox[dest], post.msg)]
  BY <1>2 DEF Deliver, GoodBoxes
<1> HIDE DEF post
<1>4. ToSet(Append(inbox[dest], post.msg)) = ToSet(inbox[dest]) \cup {post.msg}
  BY ElementsOfAppend DEF GoodBoxes
<1>5. \A f \in Endpoints : ToSet(inbox'[f]) = ToSet(inbox[f]) \cup IF f = dest THEN {post.msg} ELSE {}
  BY <1>3, <1>4 DEF GoodBoxes
<1>6. \A f \in Endpoints :
        /\ ToSet(out'[f]) \subseteq ToSet(out[f])
        /\ ToSet(out[f]) \subseteq ToSet(out'[f]) \cup {post}
  BY <1>1 DEF Pop, GoodOut
<1> TAKE f \in Endpoints
<1>7. \A m : m \in Arriving(inbox', out', f) => m \in Arriving(inbox, out, f)
  <2> SUFFICES ASSUME NEW m, m \in Arriving(inbox', out', f) PROVE m \in Arriving(inbox, out, f)
    OBVIOUS
  <2>1. CASE m \in ToSet(inbox'[f])
    BY <1>1, <1>2, <1>5, <2>1, ArrivingMember
  <2>2. CASE m \notin ToSet(inbox'[f])
    BY <1>6, <2>2, ArrivingMember
  <2> QED BY <2>1, <2>2
<1>8. \A m : m \in Arriving(inbox, out, f) => m \in Arriving(inbox', out', f)
  <2> SUFFICES ASSUME NEW m, m \in Arriving(inbox, out, f) PROVE m \in Arriving(inbox', out', f)
    OBVIOUS
  <2>1. CASE m \in ToSet(inbox[f])
    BY <1>5, <2>1, ArrivingMember
  <2>2. CASE m \notin ToSet(inbox[f])
    <3>1. PICK g \in Endpoints : \E p \in ToSet(out[g]) : p.to = f /\ p.msg = m
      BY <2>2, ArrivingMember
    <3>2. PICK p \in ToSet(out[g]) : p.to = f /\ p.msg = m
      BY <3>1
    <3>3. CASE p = post
      BY <1>2, <1>5, <3>2, <3>3, ArrivingMember
    <3>4. CASE p # post
      BY <1>6, <3>2, <3>4, ArrivingMember
    <3> QED BY <3>3, <3>4
  <2> QED BY <2>1, <2>2
<1> QED BY <1>7, <1>8, OnTheWay, OnTheWayNext

(* Queues that lose posts, inboxes that stay: nothing new arrives.          *)
LEMMA LosingArrives ==
  ASSUME UNCHANGED inbox, \A f \in Endpoints : ToSet(out'[f]) \subseteq ToSet(out[f])
  PROVE  \A e \in Endpoints : MessagesTo(e)' \subseteq MessagesTo(e)
<1> TAKE e \in Endpoints
<1>1. \A m : m \in Arriving(inbox', out', e) => m \in Arriving(inbox, out, e)
  BY ArrivingMember
<1> QED BY <1>1, OnTheWay, OnTheWayNext
-----------------------------------------------------------------------------
(* The leaves of the nodes of the run's tree.                               *)

LEMMA NodeCovers ==
  ASSUME NEW nd \in Nodes
  PROVE  LeavesUnder(N, nd) # {} /\ LeavesUnder(N, nd) \subseteq Leaves
<1>1. Pos(nd) * 2^Lvl(nd) \in LeavesUnder(N, <<Lvl(nd), Pos(nd)>>)
  BY NodeParts, SizeAssumption, FirstLeaf
<1>2. LeavesUnder(N, nd) # {}
  BY <1>1, NodeParts
<1>3. LeavesUnder(N, nd) \subseteq Leaves
  BY DEF LeavesUnder, Leaves
<1> QED BY <1>2, <1>3

LEMMA RootCovers == Root \in Nodes /\ IsRootLevel(N, Lvl(Root)) /\ LeavesUnder(N, Root) = Leaves
<1>1. LevelSize(N, Depth) = 1 /\ Lvl(Root) = Depth
  BY SizeAssumption DEF IsRootLevel, Root, Lvl
<1>2. Root \in Nodes
  BY <1>1, SizeAssumption DEF Root, Nodes, NodesOf, Lvl, Pos
<1>3. \A leaf \in Leaves : leaf \div 2^Depth \in Nat /\ leaf \div 2^Depth < 1
  BY <1>1, LeafOnLevel, SizeAssumption DEF Leaves
<1>4. \A leaf \in Leaves : leaf \div 2^Depth = 0
  BY <1>3
<1> QED BY <1>1, <1>2, <1>4 DEF LeavesUnder, Leaves, Root, Lvl, Pos, IsRootLevel

LEMMA LeafCovers ==
  ASSUME NEW leaf \in Leaves
  PROVE  LeavesUnder(N, <<0, leaf>>) = {leaf}
<1>1. 2^0 = 1
  OBVIOUS
<1>2. \A other \in Leaves : other \div 2^0 = other
  BY <1>1 DEF Leaves
<1> QED BY <1>2 DEF LeavesUnder, Leaves, Lvl, Pos

(* A parent covers the node, if that is carried up, or it and its sibling.   *)
LEMMA ParentCovers ==
  ASSUME NEW nd \in Nodes, ~IsRootLevel(N, Lvl(nd))
  PROVE  LeavesUnder(N, Parent(nd)) =
           IF Unpaired(N, nd) THEN LeavesUnder(N, nd)
           ELSE LeavesUnder(N, nd) \cup LeavesUnder(N, Sibling(nd))
<1> DEFINE lvl == Lvl(nd)
           pos == Pos(nd)
<1>1. lvl \in Nat /\ pos \in Nat /\ nd = <<lvl, pos>>
  BY NodeParts
<1> HIDE DEF lvl, pos
<1> QED BY <1>1, LeavesOfParent, SizeAssumption

LEMMA SiblingOfSibling ==
  ASSUME NEW nd \in Nodes
  PROVE  Sibling(Sibling(nd)) = nd /\ Sibling(nd) # nd /\ Lvl(Sibling(nd)) = Lvl(nd)
BY NodeParts DEF Sibling, IsEven, Lvl, Pos

(* Two nodes of a level that have a leaf in common are the same node.        *)
LEMMA SameNode ==
  ASSUME NEW x \in Nodes, NEW y \in Nodes, Lvl(x) = Lvl(y),
         LeavesUnder(N, x) \cap LeavesUnder(N, y) # {}
  PROVE  x = y
<1>1. PICK leaf \in 0 .. N-1 : leaf \div 2^Lvl(x) = Pos(x) /\ leaf \div 2^Lvl(y) = Pos(y)
  BY DEF LeavesUnder
<1>2. Pos(x) = Pos(y)
  BY <1>1
<1> QED BY <1>2, NodeParts

-----------------------------------------------------------------------------
(* The forest of a run: the parts of the tree that are there, each at its    *)
(* place.  A leaf its owner has not settled is one; a partial on its way, in  *)
(* hand or parked, the root once it is sent.                                *)

Hows == {"unsettled", "coming", "hand", "parked", "root"}
Unsettled(w) == {<<0, leaf>> : leaf \in {l \in Leaves : OwnerOf[<<0, l>>] = w}} \ seen[w]
Here(w, how) ==
  CASE how = "unsettled" -> Unsettled(w)
    [] how = "coming" -> Coming(w, "node")
    [] how = "hand" -> InHand(w)
    [] how = "parked" -> DOMAIN present[w]
    [] how = "root" -> IF w = 0 /\ RootFormed THEN {Root} ELSE {}

Part(w, how, nd) == [at |-> w, how |-> how, node |-> nd]
Forest == {t \in [at : Workers, how : Hows, node : Nodes] : t.node \in Here(t.at, t.how)}
Under(t) == LeavesUnder(N, t.node)

(* No two parts have a leaf in common.                                      *)
OnceEach == \A s, t \in Forest : s # t => Under(s) \cap Under(t) = {}

(* A worker that has received a node has it, or has gone on with it: what     *)
(* there is of its leaves is further up.                                    *)
HeldBy(t, w) == t.at = w /\ t.how \in {"hand", "parked"}
Beyond(t, w, nd) == Lvl(t.node) > Lvl(nd) \/ (t.node = nd /\ HeldBy(t, w))
PastIt ==
  \A w \in Workers : \A nd \in seen[w] : OwnerOf[nd] # w =>
    \A t \in Forest : Under(t) \cap LeavesUnder(N, nd) # {} => Beyond(t, w, nd)

(* A node is sent by its owner to that of its sibling.                      *)
Shipped(w, nd) == ~IsEven(nd) /\ OwnerOf[nd] # w /\ OwnerOf[Sibling(nd)] = w
NodesAreShipped == \A w \in Workers : \A m \in MessagesTo(w) : m.tag = "node" => Shipped(w, m.node)

FInv == OnceEach /\ PastIt /\ NodesAreShipped /\ NoSiblingsParked

(* The members of the forest.                                               *)
LEMMA PartParts ==
  ASSUME NEW w, NEW how, NEW nd
  PROVE  Part(w, how, nd).at = w /\ Part(w, how, nd).how = how /\ Part(w, how, nd).node = nd
BY DEF Part

LEMMA PartInForest ==
  ASSUME NEW w \in Workers, NEW how \in Hows, NEW nd \in Nodes
  PROVE  Part(w, how, nd) \in Forest <=> nd \in Here(w, how)
BY DEF Part, Forest

LEMMA ForestParts ==
  ASSUME NEW t \in Forest
  PROVE  /\ t.at \in Workers /\ t.how \in Hows /\ t.node \in Nodes
         /\ t.node \in Here(t.at, t.how) /\ t = Part(t.at, t.how, t.node)
BY DEF Part, Forest

LEMMA ForestPartsNext ==
  ASSUME NEW t \in Forest'
  PROVE  /\ t.at \in Workers /\ t.how \in Hows /\ t.node \in Nodes
         /\ t.node \in Here(t.at, t.how)' /\ t = Part(t.at, t.how, t.node)
BY DEF Part, Forest

(* What is where.                                                           *)
LEMMA HereIs ==
  ASSUME NEW w
  PROVE  /\ Here(w, "unsettled") = Unsettled(w) /\ Here(w, "coming") = Coming(w, "node")
         /\ Here(w, "hand") = InHand(w) /\ Here(w, "parked") = DOMAIN present[w]
         /\ Here(w, "root") = IF w = 0 /\ RootFormed THEN {Root} ELSE {}
BY DEF Here

LEMMA ComingMember ==
  ASSUME NEW w, NEW tag, NEW nd
  PROVE  nd \in Coming(w, tag) <=> \E m \in MessagesTo(w) : m.tag = tag /\ m.node = nd /\ nd \notin seen[w]
BY DEF Coming

(* Everything that is anywhere is a node.                                   *)
LEMMA HereInNodes ==
  ASSUME IInv, NEW w \in Workers, NEW how \in Hows
  PROVE  Here(w, how) \subseteq Nodes
<1>1. Unsettled(w) \subseteq Nodes
  BY LeafNode DEF Unsettled
<1>2. Coming(w, "node") \subseteq Nodes
  <2> SUFFICES ASSUME NEW nd, nd \in Coming(w, "node") PROVE nd \in Nodes
    OBVIOUS
  <2>1. PICK m \in MessagesTo(w) : m.tag = "node" /\ m.node = nd
    BY ComingMember
  <2>2. m \in Mail[w]
    BY OnTheWay, ArrivingIsMail, WireOfInv, WhoIsWho
  <2> QED BY <2>1, <2>2, MailByTag
<1>3. InHand(w) \subseteq Nodes
  <2>1. ASSUME cur[w] # None PROVE cur[w].node \in Nodes
    <3>1. PICK nd \in Nodes : cur[w] = [node |-> nd, val |-> TreeValue[nd]]
      BY <2>1 DEF IInv, HeldIsTrue
    <3> QED BY <3>1
  <2> QED BY <2>1 DEF InHand
<1>4. DOMAIN present[w] \subseteq Nodes
  BY DEF IInv, TypeOK
<1> QED BY <1>1, <1>2, <1>3, <1>4, RootCovers, HereIs DEF Hows

-----------------------------------------------------------------------------
(* How the forest changes.                                                  *)

(* A part of which no leaf is covered twice takes the place of those that     *)
(* cover its leaves.                                                        *)
LEMMA PutInPlace ==
  ASSUME FInv, NEW old \in SUBSET Forest, NEW new, Forest' \subseteq (Forest \ old) \cup {new},
         Under(new) = UNION {Under(t) : t \in old},
         \A w \in Workers : \A nd \in seen[w] : OwnerOf[nd] # w =>
           \A t \in old : Under(t) \cap LeavesUnder(N, nd) # {} /\ Beyond(t, w, nd) => Beyond(new, w, nd),
         \A w \in Workers : \A nd \in seen'[w] \ seen[w] :
           OwnerOf[nd] # w => nd = new.node /\ HeldBy(new, w)
  PROVE  OnceEach' /\ PastIt'
<1>1. ASSUME NEW t \in Forest \ old, NEW leaf \in Under(t) PROVE leaf \notin Under(new)
  BY <1>1 DEF FInv, OnceEach
<1>2. OnceEach'
  <2> SUFFICES ASSUME NEW s \in Forest', NEW t \in Forest', s # t
               PROVE  Under(s) \cap Under(t) = {}
    BY DEF OnceEach, Under
  <2>1. CASE s = new
    BY <1>1, <2>1
  <2>2. CASE t = new
    BY <1>1, <2>2
  <2>3. CASE s # new /\ t # new
    BY <2>3 DEF FInv, OnceEach
  <2> QED BY <2>1, <2>2, <2>3
<1>3. PastIt'
  <2> SUFFICES ASSUME NEW w \in Workers, NEW nd \in seen'[w], OwnerOf[nd] # w, NEW t \in Forest',
                      Under(t) \cap LeavesUnder(N, nd) # {}
               PROVE  Beyond(t, w, nd)
    BY DEF PastIt, Under, Beyond, HeldBy
  <2>1. CASE nd \in seen[w] /\ t = new
    <3>1. PICK leaf \in Under(new) : leaf \in LeavesUnder(N, nd)
      BY <2>1
    <3>2. PICK o \in old : leaf \in Under(o)
      BY <3>1
    <3>3. Beyond(o, w, nd)
      BY <2>1, <3>1, <3>2 DEF FInv, PastIt
    <3> QED BY <2>1, <3>1, <3>2, <3>3
  <2>2. CASE nd \in seen[w] /\ t # new
    BY <2>2 DEF FInv, PastIt
  <2>3. CASE nd \notin seen[w]
    <3>1. nd = new.node /\ HeldBy(new, w)
      BY <2>3
    <3>2. t = new
      BY <1>1, <3>1 DEF Under
    <3> QED BY <3>1, <3>2 DEF Beyond
  <2> QED BY <2>1, <2>2, <2>3
<1> QED BY <1>2, <1>3

LEMMA OneInPlace ==
  ASSUME FInv, NEW old \in Forest, NEW new, Forest' = (Forest \ {old}) \cup {new}, Under(new) = Under(old),
         \A w \in Workers : \A nd \in seen[w] : OwnerOf[nd] # w /\ Beyond(old, w, nd) => Beyond(new, w, nd),
         \A w \in Workers : \A nd \in seen'[w] \ seen[w] :
           OwnerOf[nd] # w => nd = new.node /\ HeldBy(new, w)
  PROVE  OnceEach' /\ PastIt'
<1>1. {old} \in SUBSET Forest /\ Forest' \subseteq (Forest \ {old}) \cup {new}
  OBVIOUS
<1>2. Under(new) = UNION {Under(t) : t \in {old}}
  OBVIOUS
<1>3. \A w \in Workers : \A nd \in seen[w] : OwnerOf[nd] # w =>
        \A t \in {old} : Under(t) \cap LeavesUnder(N, nd) # {} /\ Beyond(t, w, nd) => Beyond(new, w, nd)
  OBVIOUS
<1> QED BY <1>1, <1>2, <1>3, PutInPlace

LEMMA PairInPlace ==
  ASSUME FInv, NEW one \in Forest, NEW other \in Forest, NEW new,
         Forest' = (Forest \ {one, other}) \cup {new}, Under(new) = Under(one) \cup Under(other),
         \A w \in Workers : \A nd \in seen[w] :
           OwnerOf[nd] # w /\ (Beyond(one, w, nd) \/ Beyond(other, w, nd)) => Beyond(new, w, nd),
         UNCHANGED seen
  PROVE  OnceEach' /\ PastIt'
<1> DEFINE old == {one, other}
<1>1. old \in SUBSET Forest /\ Forest' \subseteq (Forest \ old) \cup {new}
  OBVIOUS
<1>2. Under(new) = UNION {Under(t) : t \in old}
  OBVIOUS
<1>3. \A w \in Workers : \A nd \in seen[w] : OwnerOf[nd] # w =>
        \A t \in old : Under(t) \cap LeavesUnder(N, nd) # {} /\ Beyond(t, w, nd) => Beyond(new, w, nd)
  OBVIOUS
<1>4. \A w \in Workers : \A nd \in seen'[w] \ seen[w] : OwnerOf[nd] # w => nd = new.node /\ HeldBy(new, w)
  OBVIOUS
<1> HIDE DEF old
<1> QED BY <1>1, <1>2, <1>3, <1>4, PutInPlace

(* Nothing new in the forest, nothing new that a worker has seen.           *)
LEMMA ForestLoses ==
  ASSUME FInv, Forest' \subseteq Forest, UNCHANGED seen
  PROVE  OnceEach' /\ PastIt'
<1>1. OnceEach'
  BY DEF FInv, OnceEach, Under
<1>2. PastIt'
  BY DEF FInv, PastIt, Under, Beyond, HeldBy
<1> QED BY <1>1, <1>2

(* One part in the place of others.                                         *)
Only(u, how, w, i, x) == IF u = w /\ how = i THEN {x} ELSE {}
Moves(w, i, x, v, j, y) ==
  \A u \in Workers : \A how \in Hows :
    Here(u, how)' = (Here(u, how) \ Only(u, how, w, i, x)) \cup Only(u, how, v, j, y)
LEMMA OnePartMoves ==
  \A w, v \in Workers : \A i, j \in Hows : \A x, y \in Nodes :
    Moves(w, i, x, v, j, y) => Forest' = (Forest \ {Part(w, i, x)}) \cup {Part(v, j, y)}
<1> SUFFICES ASSUME NEW w \in Workers, NEW i \in Hows, NEW x \in Nodes,
                    NEW v \in Workers, NEW j \in Hows, NEW y \in Nodes, Moves(w, i, x, v, j, y)
             PROVE  Forest' = (Forest \ {Part(w, i, x)}) \cup {Part(v, j, y)}
  OBVIOUS
<1> DEFINE new == Part(v, j, y)
           old == Part(w, i, x)
<1>1. ASSUME NEW t \in [at : Workers, how : Hows, node : Nodes]
      PROVE  t \in Forest' <=> t \in (Forest \ {old}) \cup {new}
  <2>1. t.at \in Workers /\ t.how \in Hows /\ t.node \in Nodes
    OBVIOUS
  <2>2. /\ t \in Forest' <=> t.node \in Here(t.at, t.how)'
        /\ t \in Forest <=> t.node \in Here(t.at, t.how)
    BY DEF Forest
  <2>3. /\ t = old <=> t.at = w /\ t.how = i /\ t.node = x
        /\ t = new <=> t.at = v /\ t.how = j /\ t.node = y
    BY DEF Part
  <2> HIDE DEF old, new
  <2>4. Here(t.at, t.how)' = (Here(t.at, t.how) \ Only(t.at, t.how, w, i, x))
                               \cup Only(t.at, t.how, v, j, y)
    BY <2>1 DEF Moves
  <2>5. /\ t.node \in Only(t.at, t.how, w, i, x) <=> t = old
        /\ t.node \in Only(t.at, t.how, v, j, y) <=> t = new
    BY <2>3 DEF Only
  <2> QED BY <2>2, <2>4, <2>5
<1>2. new \in [at : Workers, how : Hows, node : Nodes]
  BY DEF Part
<1>3. Forest \subseteq [at : Workers, how : Hows, node : Nodes]
      /\ Forest' \subseteq [at : Workers, how : Hows, node : Nodes]
  BY DEF Forest
<1> QED BY <1>1, <1>2, <1>3

(* Two parts are replaced by one.                                           *)
Joins(w, i, x, k, z, y) ==
  \A u \in Workers : \A how \in Hows :
    Here(u, how)' = ((Here(u, how) \ Only(u, how, w, i, x)) \ Only(u, how, w, k, z))
                      \cup Only(u, how, w, i, y)
LEMMA PairBecomesOne ==
  \A w \in Workers : \A i, k \in Hows : \A x, y, z \in Nodes :
    Joins(w, i, x, k, z, y) => Forest' = (Forest \ {Part(w, i, x), Part(w, k, z)}) \cup {Part(w, i, y)}
<1> SUFFICES ASSUME NEW w \in Workers, NEW i \in Hows, NEW x \in Nodes, NEW k \in Hows, NEW z \in Nodes,
                    NEW y \in Nodes, Joins(w, i, x, k, z, y)
             PROVE  Forest' = (Forest \ {Part(w, i, x), Part(w, k, z)}) \cup {Part(w, i, y)}
  OBVIOUS
<1> DEFINE new == Part(w, i, y)
           old == Part(w, i, x)
           other == Part(w, k, z)
<1>1. ASSUME NEW t \in [at : Workers, how : Hows, node : Nodes]
      PROVE  t \in Forest' <=> t \in (Forest \ {old, other}) \cup {new}
  <2>1. t.at \in Workers /\ t.how \in Hows /\ t.node \in Nodes
    OBVIOUS
  <2>2. /\ t \in Forest' <=> t.node \in Here(t.at, t.how)'
        /\ t \in Forest <=> t.node \in Here(t.at, t.how)
    BY DEF Forest
  <2>3. /\ t = old <=> t.at = w /\ t.how = i /\ t.node = x
        /\ t = other <=> t.at = w /\ t.how = k /\ t.node = z
        /\ t = new <=> t.at = w /\ t.how = i /\ t.node = y
    BY DEF Part
  <2> HIDE DEF old, new, other
  <2>4. Here(t.at, t.how)' =
          ((Here(t.at, t.how) \ Only(t.at, t.how, w, i, x)) \ Only(t.at, t.how, w, k, z))
             \cup Only(t.at, t.how, w, i, y)
    BY <2>1 DEF Joins
  <2>5. /\ t.node \in Only(t.at, t.how, w, i, x) <=> t = old
        /\ t.node \in Only(t.at, t.how, w, k, z) <=> t = other
        /\ t.node \in Only(t.at, t.how, w, i, y) <=> t = new
    BY <2>3 DEF Only
  <2> QED BY <2>2, <2>4, <2>5
<1>2. new \in [at : Workers, how : Hows, node : Nodes]
  BY DEF Part
<1>3. Forest \subseteq [at : Workers, how : Hows, node : Nodes]
      /\ Forest' \subseteq [at : Workers, how : Hows, node : Nodes]
  BY DEF Forest
<1> QED BY <1>1, <1>2, <1>3

(* The partials and the root on their way.                                  *)
Partials(e) == {m \in MessagesTo(e) : m.tag \in {"node", "root"}}

LEMMA ComingFromPartials ==
  ASSUME NEW w, UNCHANGED seen
  PROVE  /\ Partials(w)' \subseteq Partials(w) => Coming(w, "node")' \subseteq Coming(w, "node")
         /\ Partials(w)' = Partials(w) => Coming(w, "node")' = Coming(w, "node")
<1>1. \A nd : nd \in Coming(w, "node") <=>
        \E m \in Partials(w) : m.tag = "node" /\ m.node = nd /\ nd \notin seen[w]
  BY ComingMember DEF Partials
<1>2. \A nd : nd \in Coming(w, "node")' <=>
        \E m \in Partials(w)' : m.tag = "node" /\ m.node = nd /\ nd \notin seen[w]
  BY DEF Coming, Partials
<1> QED BY <1>1, <1>2

LEMMA RootFromPartials ==
  /\ UNCHANGED answer /\ Partials(DRIVER)' \subseteq Partials(DRIVER) => (RootFormed' => RootFormed)
  /\ UNCHANGED answer /\ Partials(DRIVER)' = Partials(DRIVER) => (RootFormed' <=> RootFormed)
<1>1. RootFormed <=> answer # None \/ \E m \in Partials(DRIVER) : m.tag = "root"
  BY DEF RootFormed, Partials
<1>2. RootFormed' <=> answer' # None \/ \E m \in Partials(DRIVER)' : m.tag = "root"
  BY DEF RootFormed, Partials
<1> QED BY <1>1, <1>2

(* A step that leaves the trees of all workers alone and sends no partial     *)
(* adds nothing to the forest; if no partial is lost either, it stays.       *)
LEMMA ForestAlone ==
  ASSUME UNCHANGED treeVars, RootFormed' => RootFormed,
         \A w \in Workers : Partials(w)' \subseteq Partials(w)
  PROVE  Forest' \subseteq Forest
<1> SUFFICES ASSUME NEW w \in Workers, NEW how \in Hows PROVE Here(w, how)' \subseteq Here(w, how)
  BY DEF Forest
<1>1. /\ Unsettled(w)' = Unsettled(w) /\ InHand(w)' = InHand(w) /\ (DOMAIN present[w])' = DOMAIN present[w]
      /\ Coming(w, "node")' \subseteq Coming(w, "node")
  BY ComingFromPartials DEF treeVars, Unsettled, InHand
<1> QED BY <1>1 DEF Here, Hows

LEMMA ForestStays ==
  ASSUME UNCHANGED treeVars, RootFormed' <=> RootFormed,
         \A w \in Workers : Coming(w, "node")' = Coming(w, "node")
  PROVE  Forest' = Forest
<1> SUFFICES ASSUME NEW w \in Workers, NEW how \in Hows PROVE Here(w, how)' = Here(w, how)
  BY DEF Forest
<1>1. /\ Unsettled(w)' = Unsettled(w) /\ InHand(w)' = InHand(w) /\ (DOMAIN present[w])' = DOMAIN present[w]
      /\ Coming(w, "node")' = Coming(w, "node")
  BY DEF treeVars, Unsettled, InHand
<1> QED BY <1>1 DEF Here, Hows

-----------------------------------------------------------------------------
(* settle() moves the node in hand.                                         *)

LEMMA EnterHand ==
  ASSUME IInv, NEW w \in Workers, NEW nd \in Nodes, Enter(w, nd, TreeValue[nd])
  PROVE  \A u \in Workers : InHand(u)' = IF u = w THEN {nd} ELSE InHand(u)
<1>1. cur' = [cur EXCEPT ![w] = [node |-> nd, val |-> TreeValue[nd]]] /\ DOMAIN cur = Workers
  BY DEF Enter, IInv, TypeOK
<1>2. [node |-> nd, val |-> TreeValue[nd]] # None /\ [node |-> nd, val |-> TreeValue[nd]].node = nd
  BY NoneAssumption
<1> QED BY <1>1, <1>2 DEF InHand

LEMMA LeaveHand ==
  ASSUME IInv, NEW w \in Workers, LeaveSettle(w)
  PROVE  \A u \in Workers : InHand(u)' = IF u = w THEN {} ELSE InHand(u)
BY DEF LeaveSettle, InHand, IInv, TypeOK

LEMMA HandOfSettling ==
  ASSUME IInv, NEW w \in Workers, Settling(w)
  PROVE  \E nd \in Nodes :
           /\ AtHome(w, nd) /\ cur[w].node = nd /\ cur[w].val = TreeValue[nd]
           /\ InHand(w) = {nd} /\ Part(w, "hand", nd) \in Forest
<1>1. PICK nd \in Nodes : AtHome(w, nd) /\ cur[w].node = nd /\ cur[w].val = TreeValue[nd]
  BY NodeInHand DEF IInv
<1>2. InHand(w) = {nd}
  BY <1>1 DEF InHand, Settling
<1>3. nd \in Here(w, "hand")
  BY <1>2 DEF Here
<1> QED BY <1>1, <1>2, <1>3, PartInForest DEF Hows

(* Sending anything but a partial changes nothing about those on their way.  *)
LEMMA ShippedStays ==
  ASSUME NodesAreShipped, \A w \in Workers : Partials(w)' \subseteq Partials(w)
  PROVE  NodesAreShipped'
BY DEF NodesAreShipped, Partials, Shipped

LEMMA SamePartials ==
  ASSUME NEW e, MessagesTo(e)' = MessagesTo(e)
  PROVE  Partials(e)' = Partials(e)
BY DEF Partials

LEMMA OwnerOfRoot == OwnerOf[Root] = 0
BY RootCovers, OwnerIsWorker, RootAtHome DEF AtHome

(* The root goes to the driver.                                             *)
LEMMA SettleRootMoves ==
  ASSUME IInv, FInv, NEW w \in Workers, SettleRoot(w)
  PROVE  /\ w = 0 /\ Part(0, "hand", Root) \in Forest
         /\ Forest' = (Forest \ {Part(0, "hand", Root)}) \cup {Part(0, "root", Root)}
         /\ FInv'
<1>1. PICK nd \in Nodes :
        /\ AtHome(w, nd) /\ cur[w].node = nd /\ cur[w].val = TreeValue[nd]
        /\ InHand(w) = {nd} /\ Part(w, "hand", nd) \in Forest
  BY HandOfSettling DEF SettleRoot
<1>2. nd = Root /\ w = 0
  BY <1>1, RootNode, RootAtHome DEF SettleRoot
<1>3. UNCHANGED <<present, seen>> /\ LeaveSettle(w) /\ Send(w, inbox, DRIVER, RootMsg(cur[w].val))
  BY DEF SettleRoot
<1>4. \A e \in Endpoints :
        MessagesTo(e)' = MessagesTo(e) \cup IF e = DRIVER THEN {RootMsg(cur[w].val)} ELSE {}
  <2>1. Reached(w, DRIVER, RootMsg(cur[w].val)) = {RootMsg(cur[w].val)}
    BY DEF Reached, Outbox
  <2> QED BY <1>3, <2>1, SendArrives, OnTheWay, WireOfInv, WhoIsWho
<1>5. \A u \in Workers : MessagesTo(u)' = MessagesTo(u)
  BY <1>4, WhoIsWho
<1>6. RootFormed'
  <2>1. RootMsg(cur[w].val) \in MessagesTo(DRIVER)' /\ RootMsg(cur[w].val).tag = "root"
    BY <1>4, WhoIsWho DEF RootMsg
  <2> QED BY <2>1 DEF RootFormed
<1>7. \A u \in Workers : Coming(u, "node")' = Coming(u, "node") /\ Partials(u)' = Partials(u)
  BY <1>3, <1>5, SamePartials, ComingFromPartials
<1>8. \A u \in Workers : /\ Unsettled(u)' = Unsettled(u) /\ (DOMAIN present[u])' = DOMAIN present[u]
                         /\ InHand(u)' = IF u = w THEN {} ELSE InHand(u)
  BY <1>3, LeaveHand DEF Unsettled
<1>9. Forest' = (Forest \ {Part(0, "hand", Root)}) \cup {Part(0, "root", Root)}
  <2>1. ASSUME NEW u \in Workers, NEW how \in Hows
        PROVE  Here(u, how)' = (Here(u, how) \ Only(u, how, 0, "hand", Root))
                                 \cup Only(u, how, 0, "root", Root)
    BY <1>1, <1>2, <1>6, <1>7, <1>8 DEF Here, Hows, Only
  <2>2. "hand" \in Hows /\ "root" \in Hows /\ 0 \in Workers
    BY <1>2 DEF Hows
  <2>3. Moves(0, "hand", Root, 0, "root", Root)
    BY <2>1 DEF Moves
  <2> QED BY <2>2, <2>3, OnePartMoves, RootCovers
<1>10. OnceEach' /\ PastIt'
  <2> DEFINE old == Part(0, "hand", Root)
             new == Part(0, "root", Root)
  <2>1. Under(new) = Under(old)
    BY PartParts DEF Under
  <2>2. ASSUME NEW u \in Workers, NEW x \in seen[u], OwnerOf[x] # u, Beyond(old, u, x)
        PROVE  Beyond(new, u, x)
    BY <2>2, PartParts, OwnerOfRoot DEF Beyond, HeldBy
  <2>3. old \in Forest /\ Forest' = (Forest \ {old}) \cup {new} /\ seen' = seen
    BY <1>1, <1>2, <1>3, <1>9
  <2> HIDE DEF old, new
  <2> QED BY <2>1, <2>2, <2>3, OneInPlace
<1>11. NodesAreShipped' /\ NoSiblingsParked'
  BY <1>3, <1>7, ShippedStays DEF FInv, NoSiblingsParked
<1> QED BY <1>1, <1>2, <1>9, <1>10, <1>11 DEF FInv

(* An unpaired node becomes its parent.                                     *)
LEMMA SettleCarryMoves ==
  ASSUME IInv, FInv, NEW w \in Workers, SettleCarry(w)
  PROVE  LET nd == cur[w].node
         IN  /\ nd \in Nodes /\ Parent(nd) \in Nodes /\ LeavesUnder(N, Parent(nd)) = LeavesUnder(N, nd)
             /\ Part(w, "hand", nd) \in Forest
             /\ Forest' = (Forest \ {Part(w, "hand", nd)}) \cup {Part(w, "hand", Parent(nd))}
             /\ FInv'
<1>1. PICK nd \in Nodes :
        /\ AtHome(w, nd) /\ cur[w].node = nd /\ cur[w].val = TreeValue[nd]
        /\ InHand(w) = {nd} /\ Part(w, "hand", nd) \in Forest
  BY HandOfSettling DEF SettleCarry, InTree
<1> DEFINE up == Parent(nd)
<1>2. ~IsRootLevel(N, Lvl(nd)) /\ Unpaired(N, nd)
  BY <1>1 DEF SettleCarry, InTree
<1>3. /\ up \in Nodes /\ Lvl(up) = Lvl(nd) + 1 /\ Lvl(nd) \in Nat
      /\ LeavesUnder(N, up) = LeavesUnder(N, nd) /\ TreeValue[up] = TreeValue[nd]
  <2>1. up \in Nodes /\ TreeValue[up] = TreeValue[nd]
    BY <1>2, ParentInNodes, CarriedValue
  <2>2. LeavesUnder(N, up) = LeavesUnder(N, nd)
    BY <1>2, ParentCovers
  <2>3. Lvl(up) = Lvl(nd) + 1 /\ Lvl(nd) \in Nat
    BY NodeParts DEF Parent, Lvl
  <2> QED BY <2>1, <2>2, <2>3
<1>4. UNCHANGED <<present, seen, wireVars, answer>> /\ Enter(w, up, TreeValue[up])
  BY <1>1, <1>3 DEF SettleCarry, driverVars
<1> HIDE DEF up
<1>5. \A e \in Endpoints : MessagesTo(e)' = MessagesTo(e)
  BY <1>4, SameWire
<1>6. \A u \in Workers : Coming(u, "node")' = Coming(u, "node") /\ Partials(u)' = Partials(u)
  BY <1>4, <1>5, WhoIsWho, SamePartials, ComingFromPartials
<1>7. RootFormed' <=> RootFormed
  BY <1>4, <1>5, WhoIsWho DEF RootFormed
<1>8. \A u \in Workers : /\ Unsettled(u)' = Unsettled(u) /\ (DOMAIN present[u])' = DOMAIN present[u]
                         /\ InHand(u)' = IF u = w THEN {up} ELSE InHand(u)
  BY <1>3, <1>4, EnterHand DEF Unsettled
<1>9. Forest' = (Forest \ {Part(w, "hand", nd)}) \cup {Part(w, "hand", up)}
  <2>1. ASSUME NEW u \in Workers, NEW how \in Hows
        PROVE  Here(u, how)' = (Here(u, how) \ Only(u, how, w, "hand", nd))
                                 \cup Only(u, how, w, "hand", up)
    BY <1>1, <1>6, <1>7, <1>8 DEF Here, Hows, Only
  <2>2. "hand" \in Hows
    BY DEF Hows
  <2>3. Moves(w, "hand", nd, w, "hand", up)
    BY <2>1 DEF Moves
  <2> QED BY <1>3, <2>2, <2>3, OnePartMoves
<1>10. OnceEach' /\ PastIt'
  <2> DEFINE old == Part(w, "hand", nd)
             new == Part(w, "hand", up)
  <2>1. Under(new) = Under(old)
    BY <1>3, PartParts DEF Under
  <2>2. ASSUME NEW u \in Workers, NEW x \in seen[u], OwnerOf[x] # u, Beyond(old, u, x)
        PROVE  Beyond(new, u, x)
    <3>1. Lvl(x) \in Nat
      BY NodeParts DEF IInv, TypeOK
    <3> QED BY <1>3, <2>2, <3>1, PartParts DEF Beyond
  <2>3. old \in Forest /\ Forest' = (Forest \ {old}) \cup {new} /\ seen' = seen
    BY <1>1, <1>4, <1>9
  <2> HIDE DEF old, new
  <2> QED BY <2>1, <2>2, <2>3, OneInPlace
<1>11. NodesAreShipped' /\ NoSiblingsParked'
  BY <1>4, <1>6, ShippedStays DEF FInv, NoSiblingsParked
<1> QED BY <1>1, <1>3, <1>9, <1>10, <1>11 DEF FInv, up

(* Where a worker ships a node, it can reach the owner of its sibling, which  *)
(* has not seen the node.                                                   *)
LEMMA ShipReaches ==
  ASSUME IInv, FInv, NEW w \in Workers, NEW nd \in Nodes, AtHome(w, nd), PeerOwnsParent(w, nd),
         ~IsRootLevel(N, Lvl(nd)), ~Unpaired(N, nd), Part(w, "hand", nd) \in Forest
  PROVE  LET dest == OwnerOf[Sibling(nd)]
         IN  dest \in Workers /\ dest \in Outbox[w] /\ Shipped(dest, nd) /\ OwnerOf[nd] = w
             /\ nd \notin seen[dest]
<1> DEFINE dest == OwnerOf[Sibling(nd)]
<1>1. ~IsEven(nd) /\ dest # w /\ OwnerOf[nd] = w
  BY DEF PeerOwnsParent, AtHome
<1>2. Sibling(nd) \in Nodes /\ dest \in Workers
  BY SiblingInNodes, OwnerIsWorker
<1>3. ParentOwner(N, W, nd) = dest
  <2>1. Sibling(nd) = <<Lvl(nd), Pos(nd) - (Pos(nd) % 2)>>
    BY <1>1, NodeParts DEF Sibling, IsEven
  <2> QED BY <1>2, <2>1 DEF ParentOwner, OwnerOf
<1>4. Owner(N, W, nd) = w
  BY <1>1 DEF OwnerOf
<1> HIDE DEF dest
<1>5. dest \in Outbox[w]
  <2>1. nd \in ShippedNodes(N, W, Depth, w)
    BY <1>1, <1>3, <1>4 DEF ShippedNodes, Nodes
  <2>2. dest \in WorkerOutbox(N, W, Depth, w)
    BY <1>1, <1>3, <2>1 DEF WorkerOutbox, ReductionEdges
  <2> QED BY <1>1, <1>2, <2>2 DEF Outbox
<1>6. nd \notin seen[dest]
  <2> SUFFICES ASSUME nd \in seen[dest] PROVE FALSE
    OBVIOUS
  <2> DEFINE t == Part(w, "hand", nd)
  <2>1. Under(t) \cap LeavesUnder(N, nd) # {}
    BY NodeCovers, PartParts DEF Under
  <2>2. Beyond(t, dest, nd)
    BY <1>1, <1>2, <2>1 DEF FInv, PastIt
  <2>3. Lvl(nd) \in Nat
    BY NodeParts
  <2> QED BY <1>1, <2>2, <2>3, PartParts DEF Beyond, HeldBy
<1> QED BY <1>1, <1>2, <1>5, <1>6 DEF dest, Shipped

(* A boundary node goes to the owner of its sibling.                        *)
LEMMA SettleShipMoves ==
  ASSUME IInv, FInv, NEW w \in Workers, SettleShip(w)
  PROVE  LET nd == cur[w].node
             dest == OwnerOf[Sibling(nd)]
         IN  /\ nd \in Nodes /\ dest \in Workers /\ Part(w, "hand", nd) \in Forest
             /\ Forest' = (Forest \ {Part(w, "hand", nd)}) \cup {Part(dest, "coming", nd)}
             /\ FInv'
<1>1. PICK nd \in Nodes :
        /\ AtHome(w, nd) /\ cur[w].node = nd /\ cur[w].val = TreeValue[nd]
        /\ InHand(w) = {nd} /\ Part(w, "hand", nd) \in Forest
  BY HandOfSettling DEF SettleShip, HasSibling, InTree
<1> DEFINE dest == OwnerOf[Sibling(nd)]
           msg == NodeMsg(nd, cur[w].val)
<1>2. ~IsRootLevel(N, Lvl(nd)) /\ ~Unpaired(N, nd) /\ PeerOwnsParent(w, nd)
  BY <1>1 DEF SettleShip, HasSibling, InTree
<1>3. /\ dest \in Workers /\ dest \in Outbox[w] /\ Shipped(dest, nd) /\ OwnerOf[nd] = w
      /\ nd \notin seen[dest]
  BY <1>1, <1>2, ShipReaches
<1>4. UNCHANGED <<present, seen, answer>> /\ LeaveSettle(w) /\ Send(w, inbox, dest, msg)
  BY <1>1 DEF SettleShip, driverVars
<1> HIDE DEF dest
<1>5. msg.tag = "node" /\ msg.node = nd
  BY DEF NodeMsg
<1> HIDE DEF msg
<1>6. \A e \in Endpoints : MessagesTo(e)' = MessagesTo(e) \cup IF e = dest THEN {msg} ELSE {}
  <2>1. Reached(w, dest, msg) = {msg}
    BY <1>3 DEF Reached
  <2> QED BY <1>3, <1>4, <2>1, SendArrives, OnTheWay, WireOfInv, WhoIsWho
<1>7. RootFormed' <=> RootFormed
  BY <1>3, <1>4, <1>6, WhoIsWho DEF RootFormed
<1>8. \A u \in Workers : Coming(u, "node")' = Coming(u, "node") \cup IF u = dest THEN {nd} ELSE {}
  <2> TAKE u \in Workers
  <2>1. \A x : x \in Coming(u, "node")' <=> \E m \in MessagesTo(u)' : m.tag = "node" /\ m.node = x /\ x \notin seen[u]
    BY <1>4 DEF Coming
  <2>2. MessagesTo(u)' = MessagesTo(u) \cup IF u = dest THEN {msg} ELSE {}
    BY <1>6, WhoIsWho
  <2>3. CASE u = dest
    BY <1>3, <1>5, <2>1, <2>2, <2>3, ComingMember
  <2>4. CASE u # dest
    BY <2>1, <2>2, <2>4, ComingMember
  <2> QED BY <2>3, <2>4
<1>9. \A u \in Workers : /\ Unsettled(u)' = Unsettled(u) /\ (DOMAIN present[u])' = DOMAIN present[u]
                         /\ InHand(u)' = IF u = w THEN {} ELSE InHand(u)
  BY <1>4, LeaveHand DEF Unsettled
<1>10. Forest' = (Forest \ {Part(w, "hand", nd)}) \cup {Part(dest, "coming", nd)}
  <2>1. ASSUME NEW u \in Workers, NEW how \in Hows
        PROVE  Here(u, how)' = (Here(u, how) \ Only(u, how, w, "hand", nd))
                                 \cup Only(u, how, dest, "coming", nd)
    BY <1>1, <1>7, <1>8, <1>9 DEF Here, Hows, Only
  <2>2. "hand" \in Hows /\ "coming" \in Hows
    BY DEF Hows
  <2>3. Moves(w, "hand", nd, dest, "coming", nd)
    BY <2>1 DEF Moves
  <2> QED BY <1>3, <2>2, <2>3, OnePartMoves
<1>11. OnceEach' /\ PastIt'
  <2> DEFINE old == Part(w, "hand", nd)
             new == Part(dest, "coming", nd)
  <2>1. Under(new) = Under(old)
    BY PartParts DEF Under
  <2>2. ASSUME NEW u \in Workers, NEW x \in seen[u], OwnerOf[x] # u, Beyond(old, u, x)
        PROVE  Beyond(new, u, x)
    BY <1>3, <2>2, PartParts DEF Beyond, HeldBy
  <2>3. old \in Forest /\ Forest' = (Forest \ {old}) \cup {new} /\ seen' = seen
    BY <1>1, <1>4, <1>10
  <2> HIDE DEF old, new
  <2> QED BY <2>1, <2>2, <2>3, OneInPlace
<1>12. NodesAreShipped' /\ NoSiblingsParked'
  <2>1. \A u \in Workers : MessagesTo(u)' = MessagesTo(u) \cup IF u = dest THEN {msg} ELSE {}
    BY <1>6, WhoIsWho
  <2>2. NodesAreShipped'
    BY <1>3, <1>5, <2>1 DEF FInv, NodesAreShipped, Shipped
  <2> QED BY <1>4, <2>2 DEF FInv, NoSiblingsParked
<1> QED BY <1>1, <1>3, <1>10, <1>11, <1>12 DEF FInv, dest

(* A node waits for its sibling.                                            *)
LEMMA SettleParkMoves ==
  ASSUME IInv, FInv, NEW w \in Workers, SettlePark(w)
  PROVE  LET nd == cur[w].node
         IN  /\ nd \in Nodes /\ Part(w, "hand", nd) \in Forest
             /\ Forest' = (Forest \ {Part(w, "hand", nd)}) \cup {Part(w, "parked", nd)}
             /\ FInv'
<1>1. PICK nd \in Nodes :
        /\ AtHome(w, nd) /\ cur[w].node = nd /\ cur[w].val = TreeValue[nd]
        /\ InHand(w) = {nd} /\ Part(w, "hand", nd) \in Forest
  BY HandOfSettling DEF SettlePark, MeetsHere, HasSibling, InTree
<1>2. ~IsRootLevel(N, Lvl(nd)) /\ ~Unpaired(N, nd) /\ Sibling(nd) \notin DOMAIN present[w]
  BY <1>1 DEF SettlePark, MeetsHere, HasSibling, InTree, SiblingIn
<1>3. /\ UNCHANGED <<seen, wireVars, answer>> /\ LeaveSettle(w)
      /\ present' = [present EXCEPT ![w] = Park(present[w], nd, cur[w].val)]
  BY <1>1 DEF SettlePark, driverVars
<1>4. \A u \in Workers : DOMAIN present'[u] = DOMAIN present[u] \cup IF u = w THEN {nd} ELSE {}
  <2>1. DOMAIN present = Workers
    BY DEF IInv, TypeOK
  <2>2. DOMAIN Park(present[w], nd, cur[w].val) = DOMAIN present[w] \cup {nd}
    BY DEF Park
  <2> QED BY <1>3, <2>1, <2>2
<1>5. \A e \in Endpoints : MessagesTo(e)' = MessagesTo(e)
  BY <1>3, SameWire
<1>6. \A u \in Workers : Coming(u, "node")' = Coming(u, "node") /\ Partials(u)' = Partials(u)
  BY <1>3, <1>5, WhoIsWho, SamePartials, ComingFromPartials
<1>7. RootFormed' <=> RootFormed
  BY <1>3, <1>5, WhoIsWho DEF RootFormed
<1>8. \A u \in Workers : Unsettled(u)' = Unsettled(u) /\ InHand(u)' = IF u = w THEN {} ELSE InHand(u)
  BY <1>3, LeaveHand DEF Unsettled
<1>9. Forest' = (Forest \ {Part(w, "hand", nd)}) \cup {Part(w, "parked", nd)}
  <2>1. ASSUME NEW u \in Workers, NEW how \in Hows
        PROVE  Here(u, how)' = (Here(u, how) \ Only(u, how, w, "hand", nd))
                                 \cup Only(u, how, w, "parked", nd)
    BY <1>1, <1>4, <1>6, <1>7, <1>8 DEF Here, Hows, Only
  <2>2. "hand" \in Hows /\ "parked" \in Hows
    BY DEF Hows
  <2>3. Moves(w, "hand", nd, w, "parked", nd)
    BY <2>1 DEF Moves
  <2> QED BY <2>2, <2>3, OnePartMoves
<1>10. OnceEach' /\ PastIt'
  <2> DEFINE old == Part(w, "hand", nd)
             new == Part(w, "parked", nd)
  <2>1. Under(new) = Under(old)
    BY PartParts DEF Under
  <2>2. ASSUME NEW u \in Workers, NEW x \in seen[u], OwnerOf[x] # u, Beyond(old, u, x)
        PROVE  Beyond(new, u, x)
    BY <2>2, PartParts DEF Beyond, HeldBy
  <2>3. old \in Forest /\ Forest' = (Forest \ {old}) \cup {new} /\ seen' = seen
    BY <1>1, <1>3, <1>9
  <2> HIDE DEF old, new
  <2> QED BY <2>1, <2>2, <2>3, OneInPlace
<1>11. NoSiblingsParked'
  <2> SUFFICES ASSUME NEW u \in Workers, NEW x \in DOMAIN present'[u]
               PROVE  /\ ~Unpaired(N, x) /\ ~IsRootLevel(N, Lvl(x))
                      /\ Sibling(x) \notin DOMAIN present'[u]
    BY DEF NoSiblingsParked
  <2>1. CASE u # w
    BY <1>4, <2>1 DEF FInv, NoSiblingsParked
  <2>2. CASE u = w /\ x = nd
    BY <1>2, <1>4, <2>2, SiblingOfSibling
  <2>3. CASE u = w /\ x # nd
    <3>1. x \in DOMAIN present[w] /\ x \in Nodes
      BY <1>4, <2>3 DEF IInv, TypeOK
    <3>2. Sibling(x) # nd
      BY <1>2, <3>1, SiblingOfSibling
    <3> QED BY <1>4, <2>3, <3>1, <3>2 DEF FInv, NoSiblingsParked
  <2> QED BY <2>1, <2>2, <2>3
<1>12. NodesAreShipped'
  BY <1>6, ShippedStays DEF FInv
<1> QED BY <1>1, <1>9, <1>10, <1>11, <1>12 DEF FInv

(* What is taken out of a worker's frontier is its sibling alone.           *)
LEMMA PopTakesSibling ==
  ASSUME IInv, NEW w \in Workers, NEW nd \in Nodes,
         present' = [present EXCEPT ![w] = PopSibling(@, nd)]
  PROVE  \A u \in Workers :
           DOMAIN present'[u] = IF u = w THEN DOMAIN present[w] \ {Sibling(nd)} ELSE DOMAIN present[u]
<1>1. DOMAIN present = Workers
  BY DEF IInv, TypeOK
<1>2. DOMAIN PopSibling(present[w], nd) = DOMAIN present[w] \ {Sibling(nd)}
  BY DEF PopSibling, Restrict
<1> QED BY <1>1, <1>2

(* A worker takes a node and its sibling from its frontier: the pair becomes  *)
(* its parent.                                                             *)
CombinesTo(w, nd) ==
  /\ nd \in Nodes /\ Sibling(nd) \in Nodes /\ Parent(nd) \in Nodes
  /\ LeavesUnder(N, Parent(nd)) = LeavesUnder(N, nd) \cup LeavesUnder(N, Sibling(nd))
  /\ Part(w, "hand", nd) \in Forest /\ Part(w, "parked", Sibling(nd)) \in Forest
  /\ Forest' = (Forest \ {Part(w, "hand", nd), Part(w, "parked", Sibling(nd))})
                 \cup {Part(w, "hand", Parent(nd))}

LEMMA SettleCombineMoves ==
  ASSUME IInv, FInv, NEW w \in Workers, SettleCombine(w)
  PROVE  /\ CombinesTo(w, cur[w].node) \/ (Forest' \subseteq Forest /\ Raised(w)')
         /\ FInv'
<1>1. PICK nd \in Nodes :
        /\ AtHome(w, nd) /\ cur[w].node = nd /\ cur[w].val = TreeValue[nd]
        /\ InHand(w) = {nd} /\ Part(w, "hand", nd) \in Forest
  BY HandOfSettling DEF SettleCombine, MeetsHere, HasSibling, InTree
<1> DEFINE up == Parent(nd)
           sib == Sibling(nd)
           pair == Operands(nd, TreeValue[nd], present[w][sib])
<1>2. ~IsRootLevel(N, Lvl(nd)) /\ ~Unpaired(N, nd) /\ sib \in DOMAIN present[w]
  BY <1>1 DEF SettleCombine, MeetsHere, HasSibling, InTree, SiblingIn
<1>3. /\ up \in Nodes /\ sib \in Nodes /\ Lvl(up) = Lvl(nd) + 1 /\ Lvl(nd) \in Nat
      /\ Lvl(sib) = Lvl(nd) /\ sib # nd
      /\ LeavesUnder(N, up) = LeavesUnder(N, nd) \cup LeavesUnder(N, sib)
      /\ TreeValue[up] = Combine(pair[1], pair[2])
  <2>1. up \in Nodes /\ sib \in Nodes
    BY <1>2, ParentInNodes, SiblingInNodes
  <2>2. LeavesUnder(N, up) = LeavesUnder(N, nd) \cup LeavesUnder(N, sib)
    BY <1>2, ParentCovers
  <2>3. Lvl(up) = Lvl(nd) + 1 /\ Lvl(nd) \in Nat
    BY NodeParts DEF Parent, Lvl
  <2>4. present[w][sib] = TreeValue[sib]
    BY <1>2 DEF IInv, HeldIsTrue
  <2>5. TreeValue[up] = Combine(pair[1], pair[2])
    BY <1>2, <2>4, CombinedValue
  <2> QED BY <2>1, <2>2, <2>3, <2>5, SiblingOfSibling
<1>4. present' = [present EXCEPT ![w] = PopSibling(@, nd)] /\ UNCHANGED <<seen, inbox, answer>>
  BY <1>1 DEF SettleCombine, wireVars, driverVars
<1>5. \/ Enter(w, up, Combine(pair[1], pair[2])) /\ UNCHANGED wireVars
      \/ Ends(w, "raised") /\ CloseTransport(w) /\ LeaveSettle(w)
  BY <1>1 DEF SettleCombine
<1>6. /\ \A u \in Workers : DOMAIN present'[u] =
           IF u = w THEN DOMAIN present[w] \ {sib} ELSE DOMAIN present[u]
      /\ \A u \in Workers : Unsettled(u)' = Unsettled(u)
  BY <1>4, PopTakesSibling DEF Unsettled
<1>7. sib \in Here(w, "parked") /\ "parked" \in Hows /\ "hand" \in Hows
  BY <1>2, HereIs DEF Hows
<1>8. Part(w, "parked", sib) \in Forest
  BY <1>3, <1>7, PartInForest
<1>9. NoSiblingsParked'
  BY <1>6 DEF FInv, NoSiblingsParked
<1>10. CASE Enter(w, up, Combine(pair[1], pair[2])) /\ UNCHANGED wireVars
  <2>1. Enter(w, up, TreeValue[up]) /\ UNCHANGED wireVars
    BY <1>3, <1>10
  <2> HIDE DEF up, sib, pair
  <2>2. \A e \in Endpoints : MessagesTo(e)' = MessagesTo(e)
    BY <2>1, SameWire
  <2>3. \A u \in Workers : Coming(u, "node")' = Coming(u, "node") /\ Partials(u)' = Partials(u)
    BY <1>4, <2>2, WhoIsWho, SamePartials, ComingFromPartials
  <2>4. RootFormed' <=> RootFormed
    BY <1>4, <2>2, WhoIsWho DEF RootFormed
  <2>5. \A u \in Workers : InHand(u)' = IF u = w THEN {up} ELSE InHand(u)
    BY <1>3, <2>1, EnterHand
  <2>6. Forest' = (Forest \ {Part(w, "hand", nd), Part(w, "parked", sib)}) \cup {Part(w, "hand", up)}
    <3>1. ASSUME NEW u \in Workers, NEW how \in Hows
          PROVE  Here(u, how)' =
                   ((Here(u, how) \ Only(u, how, w, "hand", nd)) \ Only(u, how, w, "parked", sib))
                     \cup Only(u, how, w, "hand", up)
      BY <1>1, <1>6, <2>3, <2>4, <2>5 DEF Here, Hows, Only
    <3>2. Joins(w, "hand", nd, "parked", sib, up)
      BY <3>1 DEF Joins
    <3> QED BY <1>3, <1>7, <3>2, PairBecomesOne
  <2>7. OnceEach' /\ PastIt'
    <3> DEFINE one == Part(w, "hand", nd)
               other == Part(w, "parked", sib)
               new == Part(w, "hand", up)
    <3>1. Under(new) = Under(one) \cup Under(other)
      BY <1>3, PartParts DEF Under
    <3>2. ASSUME NEW u \in Workers, NEW x \in seen[u], OwnerOf[x] # u,
                 Beyond(one, u, x) \/ Beyond(other, u, x)
          PROVE  Beyond(new, u, x)
      <4>1. Lvl(x) \in Nat
        BY NodeParts DEF IInv, TypeOK
      <4> QED BY <1>3, <3>2, <4>1, PartParts DEF Beyond
    <3>3. /\ one \in Forest /\ other \in Forest /\ Forest' = (Forest \ {one, other}) \cup {new}
          /\ UNCHANGED seen
      BY <1>1, <1>4, <1>8, <2>6
    <3> HIDE DEF one, other, new
    <3> QED BY <3>1, <3>2, <3>3, PairInPlace
  <2>8. NodesAreShipped'
    BY <2>3, ShippedStays DEF FInv
  <2>9. CombinesTo(w, nd)
    BY <1>1, <1>3, <1>8, <2>6 DEF CombinesTo, up, sib
  <2> QED BY <1>1, <1>9, <2>7, <2>8, <2>9 DEF FInv
<1>11. CASE Ends(w, "raised") /\ CloseTransport(w) /\ LeaveSettle(w)
  <2> HIDE DEF up, sib, pair
  <2>1. \A f \in Endpoints : ToSet(out'[f]) \subseteq ToSet(out[f])
    BY <1>11, WireOfInv, ElementsOfEmpty DEF CloseTransport, GoodOut
  <2>2. \A e \in Endpoints : MessagesTo(e)' \subseteq MessagesTo(e)
    BY <1>4, <2>1, LosingArrives
  <2>3. \A u \in Workers : Partials(u)' \subseteq Partials(u) /\ Coming(u, "node")' \subseteq Coming(u, "node")
    BY <1>4, <2>2, WhoIsWho, ComingFromPartials DEF Partials
  <2>4. RootFormed' => RootFormed
    BY <1>4, <2>2, WhoIsWho DEF RootFormed
  <2>5. \A u \in Workers : InHand(u)' \subseteq InHand(u)
    BY <1>11, LeaveHand
  <2>6. Forest' \subseteq Forest
    <3> SUFFICES ASSUME NEW u \in Workers, NEW how \in Hows PROVE Here(u, how)' \subseteq Here(u, how)
      BY DEF Forest
    <3> QED BY <1>6, <2>3, <2>4, <2>5 DEF Here, Hows
  <2>7. OnceEach' /\ PastIt' /\ NodesAreShipped'
    BY <1>4, <2>3, <2>6, ForestLoses, ShippedStays DEF FInv
  <2>8. Raised(w)'
    BY <1>11 DEF Raised, Ends, IInv, TypeOK
  <2> QED BY <1>9, <2>6, <2>7, <2>8 DEF FInv
<1> QED BY <1>5, <1>10, <1>11

-----------------------------------------------------------------------------
(* Partials come into a worker's hand: a leaf it owns, a node from a peer.    *)

(* What a worker has taken from its inbox is no longer on its way, unless it  *)
(* came twice.                                                             *)
LEMMA HandledArrives ==
  ASSUME IInv, NEW w \in Workers, inbox[w] # <<>>, inbox' = Taken(w), UNCHANGED out
  PROVE  /\ MessagesTo(w) = MessagesTo(w)' \cup {Msg(w)}
         /\ \A e \in Endpoints \ {w} : MessagesTo(e)' = MessagesTo(e)
<1> DEFINE boxes == Taken(w)
<1>1. w \in Endpoints /\ GoodBoxes(inbox) /\ boxes = [inbox EXCEPT ![w] = Tail(@)]
  BY WhoIsWho, WireOfInv DEF Taken
<1> HIDE DEF boxes
<1>2. /\ MessagesTo(w) = Arriving(boxes, out, w) \cup {Head(inbox[w])}
      /\ \A f \in Endpoints \ {w} : MessagesTo(f) = Arriving(boxes, out, f)
  BY <1>1, TakenArrives
<1>3. inbox' = boxes /\ out' = out
  BY DEF boxes
<1>4. \A e : MessagesTo(e)' = Arriving(boxes, out, e)
  BY <1>3, OnTheWayNext
<1> QED BY <1>1, <1>2, <1>4 DEF Msg

LEMMA SomethingPolled ==
  ASSUME IInv, NEW w \in Workers, polled[w] > 0
  PROVE  inbox[w] # <<>> /\ Msg(w) \in MessagesTo(w) /\ Msg(w) \in Mail[w]
<1>1. inbox[w] \in Seq(Mail[w]) /\ Msg(w) \in Mail[w]
  BY WireOfInv, WhoIsWho, HandledMessage DEF GoodBoxes
<1>2. Len(inbox[w]) > 0
  <2>1. polled[w] \in Nat /\ polled[w] <= Len(inbox[w]) /\ Len(inbox[w]) \in Nat
    BY <1>1, LenProperties DEF IInv, TypeOK
  <2> QED BY <2>1
<1>3. inbox[w] # <<>>
  BY <1>2
<1>4. Msg(w) \in ToSet(inbox[w])
  BY <1>1, <1>3, ElementsOfTail DEF Msg
<1> QED BY <1>1, <1>3, <1>4 DEF MessagesTo

(* What is sent or taken besides partials changes nothing about those.       *)
LEMMA OtherMessages ==
  \A e : /\ MessagesTo(e) \subseteq MessagesTo(e)'
         /\ \A m \in MessagesTo(e)' : m \in MessagesTo(e) \/ m.tag \notin {"node", "root"}
         => Partials(e)' = Partials(e)
BY DEF Partials

LEMMA OtherTaken ==
  \A e : /\ MessagesTo(e)' \subseteq MessagesTo(e)
         /\ \A m \in MessagesTo(e) : m \in MessagesTo(e)' \/ m.tag \notin {"node", "root"}
         => Partials(e)' = Partials(e)
BY DEF Partials

LEMMA FewerPartials ==
  \A e : MessagesTo(e)' \subseteq MessagesTo(e) => Partials(e)' \subseteq Partials(e)
BY DEF Partials

LEMMA OtherHandled ==
  ASSUME IInv, NEW w \in Workers, polled[w] > 0, inbox' = Taken(w), UNCHANGED out,
         Msg(w).tag \notin {"node", "root"}
  PROVE  \A e \in Endpoints : Partials(e)' = Partials(e)
<1>1. /\ MessagesTo(w) = MessagesTo(w)' \cup {Msg(w)}
      /\ \A e \in Endpoints \ {w} : MessagesTo(e)' = MessagesTo(e)
  BY SomethingPolled, HandledArrives
<1> TAKE e \in Endpoints
<1>2. CASE e = w
  BY <1>1, <1>2, OtherTaken
<1>3. CASE e # w
  BY <1>1, <1>3, SamePartials
<1> QED BY <1>2, <1>3

(* A leaf message goes to the owner of its leaf.                            *)
LEMMA LeafMail ==
  ASSUME NEW w \in Workers, NEW m \in Mail[w], m.tag = "leaf"
  PROVE  \E leaf \in Leaves : /\ OwnerOf[<<0, leaf>>] = w /\ m.node = <<0, leaf>>
                              /\ m.val = TreeValue[<<0, leaf>>]
<1>1. Mail[w] = MailOf(w) /\ w # DRIVER
  BY WhoIsWho DEF Mail
<1>2. \/ \E nd \in Nodes : m = NodeMsg(nd, TreeValue[nd])
      \/ \E leaf \in Leaves : OwnerOf[<<0, leaf>>] = w /\ m = LeafMsg(leaf, TreeValue[<<0, leaf>>])
      \/ \E thief \in Workers : m = StealReq(thief)
      \/ \E leaves \in {<<>>} \cup {<<leaf>> : leaf \in Leaves} : m = StealResp(leaves)
      \/ m = DoneMsg \/ m = RegistryMsg
  BY <1>1 DEF MailOf
<1>3. /\ \A nd \in Nodes : m = NodeMsg(nd, TreeValue[nd]) => m.tag = "node"
      /\ \A thief \in Workers : m = StealReq(thief) => m.tag = "steal_req"
      /\ \A leaves : m = StealResp(leaves) => m.tag = "steal_resp"
      /\ (m = DoneMsg => m.tag = "done") /\ (m = RegistryMsg => m.tag = "registry")
  BY DEF NodeMsg, StealReq, StealResp, DoneMsg, RegistryMsg
<1>4. PICK leaf \in Leaves : OwnerOf[<<0, leaf>>] = w /\ m = LeafMsg(leaf, TreeValue[<<0, leaf>>])
  BY <1>2, <1>3
<1>5. m.node = <<0, leaf>> /\ m.val = TreeValue[<<0, leaf>>]
  BY <1>4 DEF LeafMsg
<1> QED BY <1>4, <1>5

(* An owner settles its leaf.                                               *)
LeafSettled(w, leaf) ==
  /\ leaf \in Leaves /\ OwnerOf[<<0, leaf>>] = w /\ <<0, leaf>> \in Nodes
  /\ Part(w, "unsettled", <<0, leaf>>) \in Forest
  /\ Forest' = (Forest \ {Part(w, "unsettled", <<0, leaf>>)}) \cup {Part(w, "hand", <<0, leaf>>)}

LEMMA LeafSettles ==
  ASSUME IInv, FInv, NEW w \in Workers, NEW leaf \in Leaves, OwnerOf[<<0, leaf>>] = w,
         Fresh(w, <<0, leaf>>), See(w, <<0, leaf>>), Enter(w, <<0, leaf>>, TreeValue[<<0, leaf>>]),
         cur[w] = None, UNCHANGED <<present, answer>>,
         \A e \in Endpoints : Partials(e)' = Partials(e)
  PROVE  LeafSettled(w, leaf) /\ FInv'
<1> DEFINE nd == <<0, leaf>>
<1>1. nd \in Nodes /\ nd \notin seen[w]
  BY LeafNode DEF Fresh
<1>2. seen' = [seen EXCEPT ![w] = @ \cup {nd}] /\ DOMAIN seen = Workers
  BY DEF See, IInv, TypeOK
<1>3. \A u \in Workers : seen'[u] = seen[u] \cup IF u = w THEN {nd} ELSE {}
  BY <1>2
<1>4. \A u \in Workers : Unsettled(u)' = Unsettled(u) \ IF u = w THEN {nd} ELSE {}
  BY <1>3 DEF Unsettled
<1>5. nd \in Unsettled(w)
  BY <1>1 DEF Unsettled
<1>6. \A u \in Workers : InHand(u)' = IF u = w THEN {nd} ELSE InHand(u)
  BY <1>1, EnterHand
<1>7. InHand(w) = {} /\ \A u \in Workers : (DOMAIN present[u])' = DOMAIN present[u]
  BY DEF InHand
<1> HIDE DEF nd
<1>8. RootFormed' <=> RootFormed
  BY WhoIsWho, RootFromPartials
<1>9. \A u \in Workers : Coming(u, "node")' = Coming(u, "node")
  <2> TAKE u \in Workers
  <2>1. \A x : x \in Coming(u, "node") <=>
          \E m \in Partials(u) : m.tag = "node" /\ m.node = x /\ x \notin seen[u]
    BY ComingMember DEF Partials
  <2>2. \A x : x \in Coming(u, "node")' <=>
          \E m \in Partials(u)' : m.tag = "node" /\ m.node = x /\ x \notin seen'[u]
    BY DEF Coming, Partials
  <2>3. Partials(u)' = Partials(u)
    BY WhoIsWho
  <2>4. \A m \in Partials(u) : m.tag = "node" => OwnerOf[m.node] # u
    BY DEF FInv, NodesAreShipped, Shipped, Partials
  <2>5. ASSUME u = w, NEW m \in Partials(u), m.tag = "node" PROVE m.node # nd
    BY <2>4, <2>5 DEF nd
  <2>6. CASE u = w
    BY <1>3, <2>1, <2>2, <2>3, <2>5, <2>6
  <2>7. CASE u # w
    BY <1>3, <2>1, <2>2, <2>3, <2>7
  <2> QED BY <2>6, <2>7
<1>10. Part(w, "unsettled", nd) \in Forest
  <2>1. nd \in Here(w, "unsettled") /\ "unsettled" \in Hows
    BY <1>5, HereIs DEF Hows
  <2> QED BY <1>1, <2>1, PartInForest
<1>11. Forest' = (Forest \ {Part(w, "unsettled", nd)}) \cup {Part(w, "hand", nd)}
  <2>1. ASSUME NEW u \in Workers, NEW how \in Hows
        PROVE  Here(u, how)' = (Here(u, how) \ Only(u, how, w, "unsettled", nd))
                                 \cup Only(u, how, w, "hand", nd)
    BY <1>4, <1>6, <1>7, <1>8, <1>9 DEF Here, Hows, Only
  <2>2. "hand" \in Hows /\ "unsettled" \in Hows
    BY DEF Hows
  <2>3. Moves(w, "unsettled", nd, w, "hand", nd)
    BY <2>1 DEF Moves
  <2> QED BY <1>1, <2>2, <2>3, OnePartMoves
<1>12. OnceEach' /\ PastIt'
  <2> DEFINE old == Part(w, "unsettled", nd)
             new == Part(w, "hand", nd)
  <2>1. Under(new) = Under(old)
    BY PartParts DEF Under
  <2>2. ASSUME NEW u \in Workers, NEW x \in seen[u], OwnerOf[x] # u, Beyond(old, u, x)
        PROVE  Beyond(new, u, x)
    BY <2>2, PartParts DEF Beyond, HeldBy
  <2>3. ASSUME NEW u \in Workers, NEW x \in seen'[u] \ seen[u] PROVE OwnerOf[x] = u
    BY <1>3, <2>3 DEF nd
  <2>4. old \in Forest /\ Forest' = (Forest \ {old}) \cup {new}
    BY <1>10, <1>11
  <2> HIDE DEF old, new
  <2> QED BY <2>1, <2>2, <2>3, <2>4, OneInPlace
<1>13. \A u \in Workers : Partials(u)' \subseteq Partials(u)
  BY WhoIsWho
<1>14. NodesAreShipped' /\ NoSiblingsParked'
  BY <1>13, ShippedStays DEF FInv, NoSiblingsParked
<1> QED BY <1>1, <1>10, <1>11, <1>12, <1>14 DEF FInv, LeafSettled, nd

(* A step that leaves the trees of all workers alone and sends no partial     *)
(* keeps the invariant; if no partial is lost either, the forest stays.     *)
LEMMA QuietStep ==
  ASSUME FInv, UNCHANGED <<treeVars, answer>>, \A e \in Endpoints : Partials(e)' = Partials(e)
  PROVE  Forest' = Forest /\ FInv'
<1>1. UNCHANGED seen /\ UNCHANGED present /\ UNCHANGED treeVars
  BY DEF treeVars
<1>2. \A w \in Workers : Coming(w, "node")' = Coming(w, "node") /\ Partials(w)' \subseteq Partials(w)
  BY <1>1, WhoIsWho, ComingFromPartials
<1>3. RootFormed' <=> RootFormed
  BY WhoIsWho, RootFromPartials
<1>4. Forest' = Forest
  BY <1>1, <1>2, <1>3, ForestStays
<1> QED BY <1>1, <1>2, <1>4, ForestLoses, ShippedStays DEF FInv, NoSiblingsParked

LEMMA LosingStep ==
  ASSUME FInv, UNCHANGED <<treeVars, answer>>, \A e \in Endpoints : MessagesTo(e)' \subseteq MessagesTo(e)
  PROVE  Forest' \subseteq Forest /\ FInv'
<1>1. UNCHANGED seen /\ UNCHANGED present /\ UNCHANGED treeVars
  BY DEF treeVars
<1>2. \A w \in Workers : Partials(w)' \subseteq Partials(w)
  BY WhoIsWho, FewerPartials
<1>3. RootFormed' => RootFormed
  BY WhoIsWho, FewerPartials, RootFromPartials
<1>4. Forest' \subseteq Forest
  BY <1>1, <1>2, <1>3, ForestAlone
<1> QED BY <1>1, <1>2, <1>4, ForestLoses, ShippedStays DEF FInv, NoSiblingsParked

(* A send of anything but a partial.                                        *)
LEMMA OtherSent ==
  ASSUME IInv, NEW w \in Workers, NEW dest \in Endpoints, NEW msg, msg.tag \notin {"node", "root"},
         Send(w, inbox, dest, msg)
  PROVE  \A e \in Endpoints : Partials(e)' = Partials(e)
<1>1. \A e \in Endpoints : MessagesTo(e)' =
        MessagesTo(e) \cup IF e = dest THEN Reached(w, dest, msg) ELSE {}
  BY SendArrives, OnTheWay, WireOfInv
<1>2. Reached(w, dest, msg) \subseteq {msg}
  BY DEF Reached
<1> QED BY <1>1, <1>2, OtherMessages

(* process() of the next leaf.                                              *)
LEMMA ProcessMoves ==
  ASSUME IInv, FInv, NEW w \in Workers, Process(w)
  PROVE  /\ (\E leaf \in Leaves : LeafSettled(w, leaf)) \/ Forest' = Forest
         /\ FInv'
<1> DEFINE leaf == Head(mine[w])
           nd == <<0, leaf>>
           home == OwnerOf[nd]
<1>1. leaf \in Leaves
  BY LeafTaken DEF IInv, Process
<1>2. nd \in Nodes /\ LeafValue(leaf) = TreeValue[nd] /\ home \in Endpoints
  BY <1>1, LeafNode, OwnerIsWorker, WhoIsWho, TreeValueAssumption
<1>3. cur[w] = None /\ UNCHANGED <<present, answer>>
  BY DEF Process, TakeLeaf, AtWork, Idle, driverVars
<1>4. CASE home = w /\ Fresh(w, nd) /\ See(w, nd) /\ Enter(w, nd, LeafValue(leaf)) /\ UNCHANGED wireVars
  <2>1. \A e \in Endpoints : Partials(e)' = Partials(e)
    BY <1>4, SameWire, SamePartials
  <2>2. Enter(w, nd, TreeValue[nd])
    BY <1>2, <1>4
  <2> HIDE DEF leaf
  <2>3. LeafSettled(w, leaf) /\ FInv'
    BY <1>1, <1>3, <1>4, <2>1, <2>2, LeafSettles
  <2> QED BY <1>1, <2>3
<1>5. CASE UNCHANGED <<seen, cur, wireVars>>
  <2>1. UNCHANGED treeVars /\ \A e \in Endpoints : Partials(e)' = Partials(e)
    BY <1>3, <1>5, SameWire, SamePartials DEF treeVars
  <2> QED BY <1>3, <2>1, QuietStep
<1>6. CASE Send(w, inbox, home, LeafMsg(leaf, LeafValue(leaf))) /\ UNCHANGED <<seen, cur>>
  <2>1. LeafMsg(leaf, LeafValue(leaf)).tag \notin {"node", "root"}
    BY DEF LeafMsg
  <2>2. \A e \in Endpoints : Partials(e)' = Partials(e)
    BY <1>2, <1>6, <2>1, OtherSent
  <2> QED BY <1>3, <1>6, <2>2, QuietStep DEF treeVars
<1> QED BY <1>4, <1>5, <1>6 DEF Process

(* A leaf a thief has processed comes back to its owner.                     *)
LEMMA HandleLeafMoves ==
  ASSUME IInv, FInv, NEW w \in Workers, HandleLeaf(w)
  PROVE  /\ (\E leaf \in Leaves : LeafSettled(w, leaf)) \/ Forest' = Forest
         /\ FInv'
<1>1. /\ polled[w] > 0 /\ Msg(w).tag = "leaf" /\ inbox' = Taken(w) /\ cur[w] = None
      /\ UNCHANGED <<present, out, answer>>
  BY DEF HandleLeaf, Handling, driverVars
<1>2. PICK leaf \in Leaves : /\ OwnerOf[<<0, leaf>>] = w /\ Msg(w).node = <<0, leaf>>
                             /\ Msg(w).val = TreeValue[<<0, leaf>>]
  BY <1>1, SomethingPolled, LeafMail
<1>3. \A e \in Endpoints : Partials(e)' = Partials(e)
  BY <1>1, OtherHandled
<1>4. CASE Fresh(w, Msg(w).node) /\ See(w, Msg(w).node) /\ Enter(w, Msg(w).node, Msg(w).val)
  BY <1>1, <1>2, <1>3, <1>4, LeafSettles
<1>5. CASE UNCHANGED <<seen, cur>>
  BY <1>1, <1>3, <1>5, QuietStep DEF treeVars
<1> QED BY <1>4, <1>5 DEF HandleLeaf

(* A node from a peer: taken in hand, once.                                 *)
NodeTaken(w, nd) ==
  /\ nd \in Nodes /\ Part(w, "coming", nd) \in Forest
  /\ Forest' = (Forest \ {Part(w, "coming", nd)}) \cup {Part(w, "hand", nd)}

LEMMA HandleNodeMoves ==
  ASSUME IInv, FInv, NEW w \in Workers, HandleNode(w)
  PROVE  /\ NodeTaken(w, Msg(w).node) \/ Forest' = Forest
         /\ FInv'
<1> DEFINE nd == Msg(w).node
<1>1. /\ polled[w] > 0 /\ Msg(w).tag = "node" /\ inbox' = Taken(w) /\ cur[w] = None
      /\ UNCHANGED <<present, out, answer>>
  BY DEF HandleNode, Handling, driverVars
<1>2. Msg(w) \in MessagesTo(w) /\ Msg(w) \in Mail[w] /\ inbox[w] # <<>>
  BY <1>1, SomethingPolled
<1>3. nd \in Nodes /\ Msg(w).val = TreeValue[nd] /\ Shipped(w, nd)
  BY <1>1, <1>2, MailByTag DEF FInv, NodesAreShipped
<1>4. /\ MessagesTo(w) = MessagesTo(w)' \cup {Msg(w)}
      /\ \A e \in Endpoints \ {w} : MessagesTo(e)' = MessagesTo(e)
  BY <1>1, <1>2, HandledArrives
<1>5. \A e \in Endpoints : MessagesTo(e)' \subseteq MessagesTo(e)
  BY <1>4
<1>6. NodesAreShipped' /\ NoSiblingsParked' /\ (RootFormed' <=> RootFormed)
  <2>1. \A u \in Workers : Partials(u)' \subseteq Partials(u)
    BY <1>5, WhoIsWho, FewerPartials
  <2>2. MessagesTo(DRIVER)' = MessagesTo(DRIVER)
    BY <1>4, WhoIsWho
  <2> QED BY <1>1, <2>1, <2>2, ShippedStays, SamePartials, RootFromPartials DEF FInv, NoSiblingsParked
<1>7. CASE ~Fresh(w, nd) /\ UNCHANGED <<seen, cur>>
  <2>1. \A u \in Workers : Coming(u, "node")' = Coming(u, "node")
    <3> TAKE u \in Workers
    <3>1. \A x : x \in Coming(u, "node")' <=>
            \E m \in MessagesTo(u)' : m.tag = "node" /\ m.node = x /\ x \notin seen[u]
      BY <1>7 DEF Coming
    <3>2. CASE u = w
      <4>1. MessagesTo(u) = MessagesTo(u)' \cup {Msg(w)} /\ Msg(w).node \in seen[u]
        BY <1>4, <1>7, <3>2 DEF Fresh
      <4>2. \A x : x \in Coming(u, "node")' <=> x \in Coming(u, "node")
        BY <3>1, <4>1, ComingMember
      <4> QED BY <4>2
    <3>3. CASE u # w
      <4>1. MessagesTo(u)' = MessagesTo(u)
        BY <1>4, <3>3, WhoIsWho
      <4>2. \A x : x \in Coming(u, "node")' <=> x \in Coming(u, "node")
        BY <3>1, <4>1, ComingMember
      <4> QED BY <4>2
    <3> QED BY <3>2, <3>3
  <2>2. Forest' = Forest
    BY <1>1, <1>6, <1>7, <2>1, ForestStays DEF treeVars
  <2> QED BY <1>6, <1>7, <2>2, ForestLoses DEF FInv
<1>8. CASE Fresh(w, nd) /\ See(w, nd) /\ Enter(w, nd, Msg(w).val)
  <2>1. nd \notin seen[w] /\ Enter(w, nd, TreeValue[nd])
    BY <1>3, <1>8 DEF Fresh
  <2>2. \A u \in Workers : seen'[u] = seen[u] \cup IF u = w THEN {nd} ELSE {}
    BY <1>8 DEF See, IInv, TypeOK
  <2>3. nd \in Coming(w, "node")
    BY <1>1, <1>2, <2>1, ComingMember
  <2>4. OwnerOf[nd] # w
    BY <1>3 DEF Shipped
  <2>5. \A u \in Workers : Unsettled(u)' = Unsettled(u)
    BY <2>2, <2>4 DEF Unsettled
  <2>6. \A u \in Workers : InHand(u)' = IF u = w THEN {nd} ELSE InHand(u)
    BY <1>3, <2>1, EnterHand
  <2>7. InHand(w) = {} /\ \A u \in Workers : (DOMAIN present[u])' = DOMAIN present[u]
    BY <1>1 DEF InHand
  <2> HIDE DEF nd
  <2>8. \A u \in Workers : Coming(u, "node")' = Coming(u, "node") \ IF u = w THEN {nd} ELSE {}
    <3> TAKE u \in Workers
    <3>1. \A x : x \in Coming(u, "node")' <=>
            \E m \in MessagesTo(u)' : m.tag = "node" /\ m.node = x /\ x \notin seen'[u]
      BY DEF Coming
    <3>2. CASE u = w
      BY <1>4, <2>2, <3>1, <3>2, ComingMember DEF nd
    <3>3. CASE u # w
      BY <1>4, <2>2, <3>1, <3>3, WhoIsWho, ComingMember
    <3> QED BY <3>2, <3>3
  <2>9. Part(w, "coming", nd) \in Forest
    <3>1. nd \in Here(w, "coming") /\ "coming" \in Hows
      BY <2>3, HereIs DEF Hows
    <3> QED BY <1>3, <3>1, PartInForest DEF nd
  <2>10. Forest' = (Forest \ {Part(w, "coming", nd)}) \cup {Part(w, "hand", nd)}
    <3>1. ASSUME NEW u \in Workers, NEW how \in Hows
          PROVE  Here(u, how)' = (Here(u, how) \ Only(u, how, w, "coming", nd))
                                   \cup Only(u, how, w, "hand", nd)
      BY <1>6, <2>5, <2>6, <2>7, <2>8 DEF Here, Hows, Only
    <3>2. "hand" \in Hows /\ "coming" \in Hows
      BY DEF Hows
    <3>3. Moves(w, "coming", nd, w, "hand", nd)
      BY <3>1 DEF Moves
    <3> QED BY <1>3, <3>2, <3>3, OnePartMoves DEF nd
  <2>11. OnceEach' /\ PastIt'
    <3> DEFINE old == Part(w, "coming", nd)
               new == Part(w, "hand", nd)
    <3>1. Under(new) = Under(old)
      BY PartParts DEF Under
    <3>2. ASSUME NEW u \in Workers, NEW x \in seen[u], OwnerOf[x] # u, Beyond(old, u, x)
          PROVE  Beyond(new, u, x)
      BY <3>2, PartParts DEF Beyond, HeldBy
    <3>3. ASSUME NEW u \in Workers, NEW x \in seen'[u] \ seen[u]
          PROVE  x = new.node /\ HeldBy(new, u)
      <4>1. u = w /\ x = nd
        BY <2>2, <3>3
      <4> QED BY <4>1, PartParts DEF HeldBy
    <3>4. old \in Forest /\ Forest' = (Forest \ {old}) \cup {new}
      BY <2>9, <2>10
    <3> HIDE DEF old, new
    <3> QED BY <3>1, <3>2, <3>3, <3>4, OneInPlace
  <2> QED BY <1>3, <1>6, <2>9, <2>10, <2>11 DEF FInv, NodeTaken, nd
<1> QED BY <1>7, <1>8 DEF HandleNode

-----------------------------------------------------------------------------
(* The steps that leave all trees alone.                                    *)

(* What a broadcast of done puts on its way.                                *)
LEMMA PostAllContents ==
  ASSUME NEW order \in Seq(Workers), NEW msg
  PROVE  /\ \A p \in ToSet(PostAll(order, msg)) : p.to \in ToSet(order) /\ p.msg = msg
         /\ \A w \in ToSet(order) : [to |-> w, msg |-> msg] \in ToSet(PostAll(order, msg))
BY DEF PostAll, ToSet

(* Inboxes and queues that grow by one message or its posts.                *)
LEMMA MoreArrives ==
  ASSUME NEW boxes, NEW queues, NEW more, NEW longer, NEW e, NEW msg,
         ToSet(boxes[e]) \subseteq ToSet(more[e]), ToSet(more[e]) \subseteq ToSet(boxes[e]) \cup {msg},
         \A f \in Endpoints : ToSet(queues[f]) \subseteq ToSet(longer[f]),
         \A f \in Endpoints : \A p \in ToSet(longer[f]) : p \in ToSet(queues[f]) \/ p.msg = msg
  PROVE  /\ Arriving(boxes, queues, e) \subseteq Arriving(more, longer, e)
         /\ \A m \in Arriving(more, longer, e) : m \in Arriving(boxes, queues, e) \/ m = msg
<1>1. ASSUME NEW m, m \in Arriving(boxes, queues, e) PROVE m \in Arriving(more, longer, e)
  <2>1. m \in ToSet(boxes[e]) \/ \E f \in Endpoints : \E p \in ToSet(queues[f]) : p.to = e /\ p.msg = m
    BY <1>1, ArrivingMember
  <2>2. m \in ToSet(more[e]) \/ \E f \in Endpoints : \E p \in ToSet(longer[f]) : p.to = e /\ p.msg = m
    BY <2>1
  <2> QED BY <2>2, ArrivingMember
<1>2. ASSUME NEW m, m \in Arriving(more, longer, e), m # msg PROVE m \in Arriving(boxes, queues, e)
  <2>1. m \in ToSet(more[e]) \/ \E f \in Endpoints : \E p \in ToSet(longer[f]) : p.to = e /\ p.msg = m
    BY <1>2, ArrivingMember
  <2>2. m \in ToSet(boxes[e]) \/ \E f \in Endpoints : \E p \in ToSet(queues[f]) : p.to = e /\ p.msg = m
    BY <1>2, <2>1
  <2> QED BY <2>2, ArrivingMember
<1> QED BY <1>1, <1>2

LEMMA BroadcastArrives ==
  ASSUME IInv, BroadcastDone
  PROVE  \A e \in Endpoints : /\ MessagesTo(e) \subseteq MessagesTo(e)'
                              /\ \A m \in MessagesTo(e)' : m \in MessagesTo(e) \/ m = DoneMsg
<1> TAKE e \in Endpoints
<1>1. GoodBoxes(inbox) /\ GoodOut /\ DRIVER \in Endpoints
  BY WireOfInv, WhoIsWho
<1>2. CASE Async
  <2> DEFINE all == PostAll(known, DoneMsg)
  <2>1. inbox' = inbox /\ out' = [out EXCEPT ![DRIVER] = out[DRIVER] \o all]
    BY <1>2 DEF BroadcastDone
  <2>2. all \in Seq(Posts) /\ \A p \in ToSet(all) : p.msg = DoneMsg
    BY MailFacts, PostAllType, PostAllContents DEF IInv, TypeOK
  <2> HIDE DEF all
  <2>3. ToSet(out[DRIVER] \o all) = ToSet(out[DRIVER]) \cup ToSet(all)
    BY <1>1, <2>2, ElementsOfConcat DEF GoodOut
  <2>4. \A f \in Endpoints : ToSet(out'[f]) = ToSet(out[f]) \cup IF f = DRIVER THEN ToSet(all) ELSE {}
    BY <1>1, <2>1, <2>3 DEF GoodOut
  <2>5. /\ \A f \in Endpoints : ToSet(out[f]) \subseteq ToSet(out'[f])
        /\ \A f \in Endpoints : \A p \in ToSet(out'[f]) : p \in ToSet(out[f]) \/ p.msg = DoneMsg
        /\ ToSet(inbox'[e]) = ToSet(inbox[e])
    BY <2>1, <2>2, <2>4
  <2> QED BY <2>5, MoreArrives, OnTheWay, OnTheWayNext
<1>3. CASE ~Async
  <2>1. /\ inbox' = [f \in Endpoints |-> IF f \in Workers THEN Append(inbox[f], DoneMsg) ELSE inbox[f]]
        /\ out' = out
    BY <1>3 DEF BroadcastDone
  <2>2. ToSet(Append(inbox[e], DoneMsg)) = ToSet(inbox[e]) \cup {DoneMsg}
    BY <1>1, ElementsOfAppend DEF GoodBoxes
  <2>3. ToSet(inbox'[e]) = ToSet(inbox[e]) \cup IF e \in Workers THEN {DoneMsg} ELSE {}
    BY <2>1, <2>2
  <2>4. /\ \A f \in Endpoints : ToSet(out[f]) \subseteq ToSet(out'[f])
        /\ \A f \in Endpoints : \A p \in ToSet(out'[f]) : p \in ToSet(out[f]) \/ p.msg = DoneMsg
        /\ ToSet(inbox[e]) \subseteq ToSet(inbox'[e]) /\ ToSet(inbox'[e]) \subseteq ToSet(inbox[e]) \cup {DoneMsg}
    BY <2>1, <2>3
  <2> QED BY <2>4, MoreArrives, OnTheWay, OnTheWayNext
<1> QED BY <1>2, <1>3

LEMMA BroadcastOther ==
  ASSUME IInv, BroadcastDone
  PROVE  \A e \in Endpoints : Partials(e)' = Partials(e)
<1>1. DoneMsg.tag \notin {"node", "root"}
  BY DEF DoneMsg
<1> QED BY <1>1, BroadcastArrives, OtherMessages

LEMMA RegistryArrives ==
  ASSUME IInv, SendRegistry
  PROVE  \A e \in Endpoints : /\ MessagesTo(e) \subseteq MessagesTo(e)'
                              /\ \A m \in MessagesTo(e)' : m \in MessagesTo(e) \/ m = RegistryMsg
<1> TAKE e \in Endpoints
<1> DEFINE all == PostAll(RegistryOrder, RegistryMsg)
<1>1. GoodBoxes(inbox) /\ GoodOut /\ DRIVER \in Endpoints
  BY WireOfInv, WhoIsWho
<1>2. inbox' = inbox /\ out' = [out EXCEPT ![DRIVER] = out[DRIVER] \o all]
  BY DEF SendRegistry
<1>3. all \in Seq(Posts) /\ \A p \in ToSet(all) : p.msg = RegistryMsg
  BY InOrderType, MailFacts, PostAllType, PostAllContents DEF RegistryOrder
<1> HIDE DEF all
<1>4. ToSet(out[DRIVER] \o all) = ToSet(out[DRIVER]) \cup ToSet(all)
  BY <1>1, <1>3, ElementsOfConcat DEF GoodOut
<1>5. \A f \in Endpoints : ToSet(out'[f]) = ToSet(out[f]) \cup IF f = DRIVER THEN ToSet(all) ELSE {}
  BY <1>1, <1>2, <1>4 DEF GoodOut
<1>6. /\ \A f \in Endpoints : ToSet(out[f]) \subseteq ToSet(out'[f])
      /\ \A f \in Endpoints : \A p \in ToSet(out'[f]) : p \in ToSet(out[f]) \/ p.msg = RegistryMsg
      /\ ToSet(inbox'[e]) = ToSet(inbox[e])
  BY <1>2, <1>3, <1>5
<1> QED BY <1>6, MoreArrives, OnTheWay, OnTheWayNext

(* The driver takes a hello out of its inbox.                               *)
LEMMA HeardArrives ==
  ASSUME IInv, NEW tag, Hears(tag), Heard, UNCHANGED out
  PROVE  /\ MessagesTo(DRIVER) = MessagesTo(DRIVER)' \cup {Head(inbox[DRIVER])}
         /\ Head(inbox[DRIVER]).tag = tag
         /\ \A e \in Endpoints \ {DRIVER} : MessagesTo(e)' = MessagesTo(e)
<1> DEFINE boxes == [inbox EXCEPT ![DRIVER] = Tail(@)]
<1>1. DRIVER \in Endpoints /\ GoodBoxes(inbox) /\ inbox[DRIVER] # <<>>
  BY WhoIsWho, WireOfInv DEF Hears
<1>2. inbox' = boxes /\ out' = out
  BY DEF Heard
<1>3. boxes = [inbox EXCEPT ![DRIVER] = Tail(@)]
  OBVIOUS
<1> HIDE DEF boxes
<1>4. /\ MessagesTo(DRIVER) = Arriving(boxes, out, DRIVER) \cup {Head(inbox[DRIVER])}
      /\ \A f \in Endpoints \ {DRIVER} : MessagesTo(f) = Arriving(boxes, out, f)
  BY <1>1, <1>3, TakenArrives
<1>5. \A e : MessagesTo(e)' = Arriving(boxes, out, e)
  BY <1>2, OnTheWayNext
<1> QED BY <1>1, <1>4, <1>5 DEF Hears

LEMMA HelloHeard ==
  ASSUME IInv, Hears("hello"), Heard, UNCHANGED out
  PROVE  \A e \in Endpoints : Partials(e)' = Partials(e)
<1>1. /\ MessagesTo(DRIVER) = MessagesTo(DRIVER)' \cup {Head(inbox[DRIVER])}
      /\ Head(inbox[DRIVER]).tag = "hello"
      /\ \A e \in Endpoints \ {DRIVER} : MessagesTo(e)' = MessagesTo(e)
  BY HeardArrives
<1> TAKE e \in Endpoints
<1>2. CASE e = DRIVER
  BY <1>1, <1>2, OtherTaken
<1>3. CASE e # DRIVER
  BY <1>1, <1>3, SamePartials
<1> QED BY <1>2, <1>3

(* A transport that is closed loses what it has still to post.              *)
LEMMA ClosedQueues ==
  ASSUME IInv, NEW w \in Workers, CloseTransport(w)
  PROVE  \A f \in Endpoints : ToSet(out'[f]) \subseteq ToSet(out[f])
BY WireOfInv, ElementsOfEmpty DEF CloseTransport, GoodOut

LEMMA PoppedQueue ==
  ASSUME IInv, NEW e \in Endpoints, out[e] # <<>>, Pop(e)
  PROVE  \A f \in Endpoints : ToSet(out'[f]) \subseteq ToSet(out[f])
<1>1. ToSet(Tail(out[e])) \subseteq ToSet(out[e])
  BY WireOfInv, ElementsOfTail DEF GoodOut
<1> QED BY <1>1, WireOfInv DEF Pop, GoodOut

(* What a worker does besides settling and taking partials.                  *)
LEMMA WorkerQuiet ==
  ASSUME IInv, FInv, NEW w \in Workers, Poll(w) \/ Recv(w) \/ AskSteal(w) \/ HandleStealReq(w)
                                         \/ HandleStealResp(w) \/ HandleOther(w)
  PROVE  Forest' = Forest /\ FInv'
<1>1. UNCHANGED <<treeVars, answer>>
  BY DEF Poll, Recv, AskSteal, HandleStealReq, HandleStealResp, HandleOther, driverVars
<1>2. CASE Poll(w) \/ Recv(w)
  <2>1. UNCHANGED wireVars
    BY <1>2 DEF Poll, Recv
  <2> QED BY <1>1, <2>1, SameWire, SamePartials, QuietStep
<1>3. CASE AskSteal(w)
  <2>1. PICK victim \in Workers : Send(w, inbox, victim, StealReq(w))
    BY <1>3 DEF AskSteal
  <2>2. StealReq(w).tag \notin {"node", "root"}
    BY DEF StealReq
  <2>3. \A e \in Endpoints : Partials(e)' = Partials(e)
    BY <2>1, <2>2, WhoIsWho, OtherSent
  <2> QED BY <1>1, <2>3, QuietStep
<1>4. CASE HandleStealReq(w)
  <2> DEFINE boxes == Taken(w)
             thief == Msg(w).thief
  <2>1. polled[w] > 0 /\ Msg(w).tag = "steal_req"
    BY <1>4 DEF HandleStealReq, Handling
  <2>2. thief \in Endpoints /\ inbox[w] # <<>> /\ w \in Endpoints
    BY <2>1, SomethingPolled, MailByTag, WhoIsWho
  <2>3. PICK leaves : Send(w, boxes, thief, StealResp(leaves))
    BY <1>4 DEF HandleStealReq
  <2>4. GoodBoxes(boxes) /\ GoodOut /\ GoodBoxes(inbox)
    BY <2>1, HandledMessage, WireOfInv
  <2>5. boxes = [inbox EXCEPT ![w] = Tail(@)]
    BY DEF Taken
  <2> DEFINE msg == StealResp(leaves)
  <2>6. msg.tag \notin {"node", "root"}
    BY DEF StealResp
  <2> HIDE DEF boxes, thief, msg
  <2>7. \A e \in Endpoints : MessagesTo(e)' =
          Arriving(boxes, out, e) \cup IF e = thief THEN Reached(w, thief, msg) ELSE {}
    BY <2>2, <2>3, <2>4, SendArrives DEF msg
  <2>8. /\ MessagesTo(w) = Arriving(boxes, out, w) \cup {Msg(w)}
        /\ \A f \in Endpoints \ {w} : MessagesTo(f) = Arriving(boxes, out, f)
    BY <2>2, <2>4, <2>5, TakenArrives DEF Msg
  <2>9. Reached(w, thief, msg) \subseteq {msg}
    BY DEF Reached
  <2>10. ASSUME NEW e \in Endpoints PROVE Partials(e)' = Partials(e)
    <3>1. MessagesTo(e)' = Arriving(boxes, out, e) \cup IF e = thief THEN Reached(w, thief, msg) ELSE {}
      BY <2>7
    <3>2. MessagesTo(e) = Arriving(boxes, out, e) \cup IF e = w THEN {Msg(w)} ELSE {}
      BY <2>8
    <3> QED BY <2>1, <2>6, <2>9, <3>1, <3>2 DEF Partials
  <2> QED BY <1>1, <2>10, QuietStep
<1>5. CASE HandleStealResp(w) \/ HandleOther(w)
  <2>1. polled[w] > 0 /\ inbox' = Taken(w) /\ UNCHANGED out /\ Msg(w).tag \notin {"node", "root"}
    BY <1>5 DEF HandleStealResp, HandleOther, Handling
  <2> QED BY <1>1, <2>1, OtherHandled, QuietStep
<1> QED BY <1>2, <1>3, <1>4, <1>5

LEMMA WorkerLoses ==
  ASSUME IInv, FInv, NEW w \in Workers, ProcessRaises(w) \/ HandleDone(w) \/ Await(w)
  PROVE  Forest' \subseteq Forest /\ FInv'
<1>1. UNCHANGED <<treeVars, answer>>
  BY DEF ProcessRaises, HandleDone, Await, driverVars
<1>2. CASE ProcessRaises(w)
  <2>1. CloseTransport(w) /\ UNCHANGED inbox
    BY <1>2 DEF ProcessRaises
  <2> QED BY <1>1, <2>1, ClosedQueues, LosingArrives, LosingStep
<1>3. CASE HandleDone(w)
  <2> DEFINE boxes == Taken(w)
  <2>1. CloseTransport(w) /\ inbox' = boxes /\ polled[w] > 0
    BY <1>3 DEF HandleDone, Handling
  <2>2. \A f \in Endpoints : ToSet(out'[f]) \subseteq ToSet(out[f])
    BY <2>1, ClosedQueues
  <2>3. GoodBoxes(inbox) /\ inbox[w] # <<>> /\ w \in Endpoints /\ boxes = [inbox EXCEPT ![w] = Tail(@)]
    BY <2>1, WireOfInv, SomethingPolled, WhoIsWho DEF Taken
  <2> HIDE DEF boxes
  <2>4. \A e \in Endpoints : Arriving(boxes, out, e) \subseteq MessagesTo(e)
    BY <2>3, TakenArrives
  <2>5. ASSUME NEW e \in Endpoints, NEW m, m \in Arriving(boxes, out', e) PROVE m \in Arriving(boxes, out, e)
    BY <2>2, <2>5, ArrivingMember
  <2>6. \A e \in Endpoints : MessagesTo(e)' \subseteq MessagesTo(e)
    BY <2>1, <2>4, <2>5, OnTheWayNext
  <2> QED BY <1>1, <2>6, LosingStep
<1>4. CASE Await(w)
  <2>1. inbox[w] # <<>> /\ inbox' = Taken(w) /\ UNCHANGED out
    BY <1>4 DEF Await
  <2>2. \A e \in Endpoints : MessagesTo(e)' \subseteq MessagesTo(e)
    BY <2>1, HandledArrives
  <2> QED BY <1>1, <2>2, LosingStep
<1> QED BY <1>2, <1>3, <1>4

(* The sender threads.                                                      *)
LEMMA SenderQuiet ==
  ASSUME IInv, FInv, NEW e \in Endpoints, Post(e) \/ PostUnacknowledged(e)
  PROVE  Forest' = Forest /\ FInv'
<1>1. UNCHANGED <<treeVars, answer>>
  BY DEF Post, PostUnacknowledged, driverVars
<1>2. /\ out[e] # <<>> /\ Deliver(Head(out[e]))
      /\ Pop(e) \/ \A f \in Endpoints : ToSet(out'[f]) = ToSet(out[f])
  BY RequeueKeepsOut DEF Post, PostUnacknowledged
<1>3. \A f \in Endpoints : MessagesTo(f)' = MessagesTo(f)
  BY <1>2, WireOfInv, DeliverArrives
<1> QED BY <1>1, <1>3, SamePartials, QuietStep

LEMMA GiveUpLoses ==
  ASSUME IInv, FInv, NEW e \in Endpoints, GiveUp(e)
  PROVE  Forest' \subseteq Forest /\ FInv'
<1>1. UNCHANGED <<treeVars, answer>> /\ UNCHANGED inbox /\ out[e] # <<>> /\ Pop(e)
  BY DEF GiveUp, driverVars
<1> QED BY <1>1, PoppedQueue, LosingArrives, LosingStep

(* The driver.                                                              *)
LEMMA RootTaken ==
  ASSUME IInv, CollectRoot
  PROVE  RootFormed /\ RootFormed' /\ answer' = TreeValue[Root] /\ Hears("root")
<1>1. inbox[DRIVER] \in Seq(Mail[DRIVER]) /\ inbox[DRIVER] # <<>> /\ Head(inbox[DRIVER]).tag = "root"
  BY WireOfInv, WhoIsWho DEF GoodBoxes, CollectRoot, Hears
<1>2. Head(inbox[DRIVER]) \in ToSet(inbox[DRIVER]) /\ Head(inbox[DRIVER]) \in Mail[DRIVER]
  BY <1>1, ElementsOfTail, HeadTailProperties
<1>3. answer' = TreeValue[Root]
  BY <1>1, <1>2, DriverMailByTag DEF CollectRoot
<1>4. TreeValue[Root] # None
  BY RootCovers, NoneAssumption
<1>5. RootFormed
  BY <1>1, <1>2 DEF RootFormed, MessagesTo
<1>6. RootFormed'
  BY <1>3, <1>4 DEF RootFormed
<1> QED BY <1>3, <1>5, <1>6 DEF CollectRoot

LEMMA DriverQuiet ==
  ASSUME IInv, FInv, Driver, ~(Join \/ Teardown)
  PROVE  Forest' = Forest /\ FInv'
<1>1. UNCHANGED treeVars
  BY DEF Driver, GatherHello, SendRegistry, HandshakeFails, CollectRoot, CollectOther, SeesError,
         DeadlinePasses, Join, JoinRaises, Teardown, Shutdown
<1>2. CASE GatherHello \/ CollectOther
  <2>1. Hears("hello") /\ Heard /\ UNCHANGED out /\ UNCHANGED answer
    BY <1>2 DEF GatherHello, CollectOther, driverVars
  <2> QED BY <1>1, <2>1, HelloHeard, QuietStep
<1>3. CASE SendRegistry
  <2>1. RegistryMsg.tag \notin {"node", "root"} /\ UNCHANGED answer
    BY <1>3 DEF RegistryMsg, SendRegistry
  <2>2. \A e \in Endpoints : Partials(e)' = Partials(e)
    BY <1>3, <2>1, RegistryArrives, OtherMessages
  <2> QED BY <1>1, <2>1, <2>2, QuietStep
<1>4. CASE CollectRoot
  <2>1. BroadcastDone /\ RootFormed /\ RootFormed'
    BY <1>4, RootTaken DEF CollectRoot
  <2>2. \A e \in Endpoints : Partials(e)' = Partials(e)
    BY <2>1, BroadcastOther
  <2>3. UNCHANGED <<seen, present>>
    BY <1>1 DEF treeVars
  <2>4. \A w \in Workers : Coming(w, "node")' = Coming(w, "node") /\ Partials(w)' \subseteq Partials(w)
    BY <2>2, <2>3, WhoIsWho, ComingFromPartials
  <2>5. Forest' = Forest
    BY <1>1, <2>1, <2>4, ForestStays
  <2> QED BY <2>3, <2>4, <2>5, ForestLoses, ShippedStays DEF FInv, NoSiblingsParked
<1>5. CASE SeesError \/ (DeadlinePasses /\ ~Threads)
  <2>1. BroadcastDone /\ UNCHANGED answer
    BY <1>5 DEF SeesError, DeadlinePasses
  <2> QED BY <1>1, <2>1, BroadcastOther, QuietStep
<1>6. CASE HandshakeFails \/ (DeadlinePasses /\ Threads) \/ JoinRaises \/ Shutdown
  <2>1. UNCHANGED wireVars /\ UNCHANGED answer
    BY <1>6 DEF HandshakeFails, DeadlinePasses, JoinRaises, Shutdown
  <2> QED BY <1>1, <2>1, SameWire, SamePartials, QuietStep
<1> QED BY <1>2, <1>3, <1>4, <1>5, <1>6 DEF Driver

LEMMA ClosingLoses ==
  ASSUME IInv, FInv, Join \/ Teardown
  PROVE  Forest' \subseteq Forest /\ FInv'
<1>1. UNCHANGED <<treeVars, answer>> /\ UNCHANGED inbox
  BY DEF Join, Teardown
<1>2. \A f \in Endpoints : ToSet(out'[f]) \subseteq ToSet(out[f])
  BY ElementsOfEmpty DEF Join, Teardown, CloseTransports
<1> QED BY <1>1, <1>2, LosingArrives, LosingStep

LEMMA StutterQuiet ==
  ASSUME FInv, UNCHANGED vars
  PROVE  Forest' = Forest /\ FInv'
<1>1. UNCHANGED <<treeVars, answer>> /\ UNCHANGED wireVars
  BY DEF vars, driverVars
<1> QED BY <1>1, SameWire, SamePartials, QuietStep

-----------------------------------------------------------------------------
(* The invariant.                                                           *)

LEMMA InitForest ==
  ASSUME IInv, Init
  PROVE  FInv
<1>1. \A w \in Workers : seen[w] = {} /\ DOMAIN present[w] = {} /\ InHand(w) = {}
  BY DEF Init, NothingParked, InHand
<1>2. answer = None /\ \A e \in Endpoints : inbox[e] = <<>>
  BY DEF Init
<1>3. \A e \in Endpoints : \A p \in ToSet(out[e]) : p.msg.tag = "hello"
  <2> TAKE e \in Endpoints
  <2>1. CASE out[e] = <<>>
    BY <2>1, ElementsOfEmpty
  <2>2. CASE out[e] = <<[to |-> DRIVER, msg |-> HelloMsg(e)]>>
    <3>1. ToSet(out[e]) = {[to |-> DRIVER, msg |-> HelloMsg(e)]}
      BY <2>2 DEF ToSet
    <3> QED BY <3>1 DEF HelloMsg
  <2> QED BY <2>1, <2>2 DEF Init
<1>4. \A e \in Endpoints : \A m \in MessagesTo(e) : m.tag = "hello"
  <2> SUFFICES ASSUME NEW e \in Endpoints, NEW m, m \in Arriving(inbox, out, e) PROVE m.tag = "hello"
    BY OnTheWay
  <2>1. ToSet(inbox[e]) = {}
    BY <1>2, ElementsOfEmpty
  <2> QED BY <1>3, <2>1, ArrivingMember
<1>5. ~RootFormed /\ \A w \in Workers : Coming(w, "node") = {}
  BY <1>2, <1>4, WhoIsWho DEF RootFormed, Coming
<1>6. ASSUME NEW t \in Forest
      PROVE  t = Part(t.at, "unsettled", t.node) /\ Lvl(t.node) = 0 /\ t.node \in Nodes /\ OwnerOf[t.node] = t.at
  <2>1. /\ t.at \in Workers /\ t.how \in Hows /\ t.node \in Nodes
        /\ t.node \in Here(t.at, t.how) /\ t = Part(t.at, t.how, t.node)
    BY ForestParts
  <2>2. t.how = "unsettled" /\ t.node \in Unsettled(t.at)
    BY <1>1, <1>5, <2>1 DEF Here, Hows
  <2>3. PICK leaf \in Leaves : t.node = <<0, leaf>> /\ OwnerOf[<<0, leaf>>] = t.at
    BY <2>2 DEF Unsettled
  <2>4. Lvl(t.node) = 0
    BY <2>3 DEF Lvl
  <2> QED BY <2>1, <2>2, <2>3, <2>4
<1>7. OnceEach
  <2> SUFFICES ASSUME NEW s \in Forest, NEW t \in Forest, Under(s) \cap Under(t) # {} PROVE s = t
    BY DEF OnceEach
  <2>1. s.node = t.node
    BY <1>6, SameNode DEF Under
  <2> QED BY <1>6, <2>1
<1>8. PastIt /\ NodesAreShipped /\ NoSiblingsParked
  BY <1>1, <1>4, WhoIsWho DEF PastIt, NodesAreShipped, NoSiblingsParked
<1> QED BY <1>7, <1>8 DEF FInv

LEMMA NextForest ==
  ASSUME IInv, FInv, [Next]_vars
  PROVE  FInv'
<1>1. ASSUME NEW w \in Workers, Worker(w) PROVE FInv'
  BY <1>1, SettleRootMoves, SettleCarryMoves, SettleShipMoves, SettleParkMoves, SettleCombineMoves,
     ProcessMoves, HandleLeafMoves, HandleNodeMoves, WorkerQuiet, WorkerLoses DEF Worker, Settle, Handle
<1>2. ASSUME NEW e \in Endpoints, Post(e) \/ PostUnacknowledged(e) \/ GiveUp(e) PROVE FInv'
  BY <1>2, SenderQuiet, GiveUpLoses
<1>3. ASSUME Driver PROVE FInv'
  BY <1>3, DriverQuiet, ClosingLoses
<1>4. ASSUME Finished \/ UNCHANGED vars PROVE FInv'
  BY <1>4, StutterQuiet DEF Finished
<1> QED BY <1>1, <1>2, <1>3, <1>4 DEF Next

(* The inductive invariant: of all that is in a tree or on its way to one, no *)
(* two parts share a leaf, and what a worker has taken once never comes up   *)
(* again below what it went into.                                           *)
THEOREM ForestInvariant == Spec => [](IInv /\ FInv)
<1>1. Init => IInv /\ FInv
  BY InitInv, InitForest
<1>2. IInv /\ FInv /\ [Next]_vars => (IInv /\ FInv)'
  BY NextInv, NextForest
<1> QED BY <1>1, <1>2, PTL DEF Spec

-----------------------------------------------------------------------------
(* A partial that is held or on its way is a part of the forest.             *)
LEMMA TokensAreParts ==
  ASSUME IInv, NEW t \in Tokens
  PROVE  /\ t.at \in Workers /\ t.node \in Nodes
         /\ t = [at |-> t.at, sent |-> t.sent, node |-> t.node]
         /\ \E how \in {"coming", "hand", "parked"} :
              Part(t.at, how, t.node) \in Forest /\ t.sent = (how = "coming")
<1>1. PICK w \in Workers :
        t \in {[at |-> w, sent |-> FALSE, node |-> nd] : nd \in DOMAIN present[w] \cup InHand(w)}
                \cup {[at |-> w, sent |-> TRUE, node |-> nd] : nd \in Coming(w, "node")}
  BY DEF Tokens
<1>2. ASSUME NEW how \in {"coming", "hand", "parked"}, NEW nd \in Here(w, how)
      PROVE  nd \in Nodes /\ Part(w, how, nd) \in Forest
  BY <1>2, HereInNodes, PartInForest DEF Hows
<1>3. CASE \E nd \in DOMAIN present[w] : t = [at |-> w, sent |-> FALSE, node |-> nd]
  <2>1. PICK nd \in DOMAIN present[w] : t = [at |-> w, sent |-> FALSE, node |-> nd]
    BY <1>3
  <2> QED BY <1>2, <2>1, HereIs
<1>4. CASE \E nd \in InHand(w) : t = [at |-> w, sent |-> FALSE, node |-> nd]
  <2>1. PICK nd \in InHand(w) : t = [at |-> w, sent |-> FALSE, node |-> nd]
    BY <1>4
  <2> QED BY <1>2, <2>1, HereIs
<1>5. CASE \E nd \in Coming(w, "node") : t = [at |-> w, sent |-> TRUE, node |-> nd]
  <2>1. PICK nd \in Coming(w, "node") : t = [at |-> w, sent |-> TRUE, node |-> nd]
    BY <1>5
  <2> QED BY <1>2, <2>1, HereIs
<1> QED BY <1>1, <1>3, <1>4, <1>5

LEMMA PartsAreOnce ==
  ASSUME IInv, FInv
  PROVE  NoLeafTwice
<1> SUFFICES ASSUME NEW s \in Tokens, NEW t \in Tokens,
                    LeavesUnder(N, s.node) \cap LeavesUnder(N, t.node) # {}
             PROVE  s = t
  BY DEF NoLeafTwice
<1>1. PICK i \in {"coming", "hand", "parked"} : Part(s.at, i, s.node) \in Forest /\ s.sent = (i = "coming")
  BY TokensAreParts
<1>2. PICK j \in {"coming", "hand", "parked"} : Part(t.at, j, t.node) \in Forest /\ t.sent = (j = "coming")
  BY TokensAreParts
<1>3. Part(s.at, i, s.node) = Part(t.at, j, t.node)
  BY <1>1, <1>2, PartParts DEF FInv, OnceEach, Under
<1>4. s.at = t.at /\ i = j /\ s.node = t.node
  BY <1>3, PartParts
<1>5. s.sent = t.sent
  BY <1>1, <1>2, <1>4
<1> QED BY <1>4, <1>5, TokensAreParts

(* No partial is counted twice: whatever is duplicated, re-stolen or retried, *)
(* the partials that are still to be combined cover disjoint sets of leaves  *)
(* (seen in settle_leaf and handle, pop in settle).                         *)
THEOREM NoDoubleCounting == Spec => []NoLeafTwice
BY ForestInvariant, PartsAreOnce, PTL

(* No barrier: two siblings never wait for each other at one worker, nor      *)
(* does a node wait that has no sibling (settle).                           *)
THEOREM NoBarrier == Spec => []NoSiblingsParked
<1>1. FInv => NoSiblingsParked
  BY DEF FInv
<1> QED BY <1>1, ForestInvariant, PTL

(* Once the root is sent nothing else is in a tree or on its way to one: no   *)
(* worker holds a partial, none is sent to a worker that would take it, and   *)
(* no leaf is still to be settled (root in settle: all combines are done).    *)
RootIsAlone ==
  RootFormed => /\ Tokens = {} /\ Returning = {}
                /\ \A w \in Workers : Unsettled(w) = {}

THEOREM RootComesLast == Spec => []RootIsAlone
<1>1. IInv /\ FInv => RootIsAlone
  <2> SUFFICES ASSUME IInv, FInv, RootFormed
               PROVE  /\ Tokens = {} /\ Returning = {}
                      /\ \A w \in Workers : Unsettled(w) = {}
    BY DEF RootIsAlone
  <2> DEFINE top == Part(0, "root", Root)
  <2>1. top \in Forest /\ top.how = "root" /\ Under(top) = Leaves
    <3>1. 0 \in Workers
      BY SizeAssumption DEF Workers
    <3>2. Root \in Here(0, "root") /\ "root" \in Hows
      BY HereIs DEF Hows
    <3> QED BY <3>1, <3>2, RootCovers, PartInForest, PartParts DEF Under
  <2> HIDE DEF top
  <2>2. \A t \in Forest : t = top
    <3> SUFFICES ASSUME NEW t \in Forest PROVE Under(t) \cap Under(top) # {}
      BY <2>1 DEF FInv, OnceEach
    <3> QED BY <2>1, ForestParts, NodeCovers DEF Under
  <2>3. ASSUME NEW w \in Workers, NEW how \in Hows, NEW nd \in Here(w, how) PROVE how = "root"
    <3>1. nd \in Nodes
      BY HereInNodes
    <3>2. Part(w, how, nd) \in Forest
      BY <3>1, PartInForest
    <3> QED BY <2>1, <2>2, <3>2, PartParts
  <2>4. Tokens = {}
    <3> SUFFICES ASSUME NEW t \in Tokens PROVE FALSE
      OBVIOUS
    <3>1. PICK i \in {"coming", "hand", "parked"} : Part(t.at, i, t.node) \in Forest
      BY TokensAreParts
    <3>2. i = "root"
      BY <2>1, <2>2, <3>1, PartParts
    <3> QED BY <3>2
  <2>5. \A w \in Workers : Unsettled(w) = {}
    <3> SUFFICES ASSUME NEW w \in Workers, NEW nd \in Unsettled(w) PROVE FALSE
      OBVIOUS
    <3>1. nd \in Here(w, "unsettled") /\ "unsettled" \in Hows
      BY HereIs DEF Hows
    <3> QED BY <2>3, <3>1
  <2>6. Returning = {}
    <3> SUFFICES ASSUME NEW w \in Workers, NEW nd \in Coming(w, "leaf") PROVE FALSE
      BY DEF Returning
    <3>1. PICK m \in MessagesTo(w) : m.tag = "leaf" /\ m.node = nd /\ nd \notin seen[w]
      BY ComingMember
    <3>2. m \in Mail[w]
      BY <3>1, OnTheWay, ArrivingIsMail, WireOfInv, WhoIsWho
    <3>3. PICK leaf \in Leaves : OwnerOf[<<0, leaf>>] = w /\ m.node = <<0, leaf>>
      BY <3>1, <3>2, LeafMail
    <3>4. nd \in Unsettled(w)
      BY <3>1, <3>3 DEF Unsettled
    <3> QED BY <2>5, <3>4
  <2> QED BY <2>4, <2>5, <2>6
<1> QED BY <1>1, ForestInvariant, PTL

-----------------------------------------------------------------------------
(* The leaves granted, and those a worker starts with (slice_items).         *)

LEMMA GrantedMember ==
  ASSUME NEW u, NEW leaf
  PROVE  leaf \in Granted(u) <=> \E m \in MessagesTo(u) : m.tag = "steal_resp" /\ leaf \in ToSet(m.leaves)
BY DEF Granted

LEMMA InitLeaves ==
  ASSUME Init, NEW w \in Workers, NEW leaf \in Leaves
  PROVE  leaf \in ToSet(mine[w]) <=> OwnerOf[<<0, leaf>>] = w
<1> DEFINE s == LeafRange(N, W, w)
<1>1. N \in Nat \ {0} /\ W \in 1 .. N /\ w \in 0 .. W-1 /\ leaf \in 0 .. N-1
  BY SizeAssumption DEF Workers, Leaves
<1>2. OwnerOf[<<0, leaf>>] = WorkerOf(leaf, MakeBounds(N, W), W)
  <2>1. OwnerOf[<<0, leaf>>] = Owner(N, W, <<0, leaf>>)
    BY LeafNode DEF OwnerOf
  <2>2. leaf * 2^0 = leaf /\ Pos(<<0, leaf>>) = leaf /\ Lvl(<<0, leaf>>) = 0
    <3>1. 2^0 = 1
      OBVIOUS
    <3> QED BY <1>1, <3>1 DEF Pos, Lvl
  <2> QED BY <2>1, <2>2 DEF Owner
<1>3. mine[w] = s
  BY DEF Init
<1>4. /\ \A k \in DOMAIN s : WorkerOf(s[k], MakeBounds(N, W), W) = w
      /\ \A l \in 0 .. N-1 : WorkerOf(l, MakeBounds(N, W), W) = w => \E k \in DOMAIN s : s[k] = l
  BY <1>1, RangeLeaves
<1> HIDE DEF s
<1> QED BY <1>1, <1>2, <1>3, <1>4 DEF ToSet

-----------------------------------------------------------------------------
(* Where a leaf that is not settled is: in a worker's deque, in a steal_resp  *)
(* delivered or still to post, or, processed by a thief, in a leaf message    *)
(* delivered or still to post.  A shelf is one of these places, and now holds *)
(* what is on the shelves.                                                   *)
Shelves == ({"mine"} \X Workers) \cup ({"granted", "granting", "back", "backing"} \X Endpoints)
Stock(now, a) ==
  CASE a[1] = "mine" -> now[1][a[2]]
    [] a[1] \in {"granted", "back"} -> now[2][a[2]]
    [] a[1] \in {"granting", "backing"} -> now[3][a[2]]
Now == <<mine, inbox, out>>

Grant(leaf) == StealResp(<<leaf>>)
Back(leaf) == LeafMsg(leaf, TreeValue[<<0, leaf>>])
Posted(msg) == {[to |-> e, msg |-> msg] : e \in Endpoints}
Copies(a, leaf) ==
  CASE a[1] = "mine" -> {leaf}
    [] a[1] = "granted" -> {Grant(leaf)}
    [] a[1] = "back" -> {Back(leaf)}
    [] a[1] = "granting" -> Posted(Grant(leaf))
    [] a[1] = "backing" -> Posted(Back(leaf))

(* A queue has some of these, or at most one.                                *)
Holds(q, these) == \E i \in 1 .. Len(q) : q[i] \in these
Single(q, these) == \A i, j \in 1 .. Len(q) : q[i] \in these /\ q[j] \in these => i = j
NoMore(q, r, these) ==
  (Single(q, these) => Single(r, these)) /\ (Holds(r, these) => Holds(q, these))

LEMMA NoneIsSingle == \A q, these : ~Holds(q, these) => Single(q, these)
BY DEF Holds, Single

LEMMA SameNoMore == \A q, these : NoMore(q, q, these)
BY DEF NoMore

LEMMA EmptyNoMore == \A q, these : NoMore(q, <<>>, these) /\ ~Holds(<<>>, these)
<1>1. Len(<<>>) = 0
  OBVIOUS
<1> QED BY <1>1 DEF NoMore, Single, Holds

LEMMA TailNoMore ==
  ASSUME NEW S, NEW q \in Seq(S), q # <<>>, NEW these
  PROVE  /\ NoMore(q, Tail(q), these)
         /\ Head(q) \in these => Holds(q, these)
         /\ Head(q) \in these /\ Single(q, these) => ~Holds(Tail(q), these)
<1>1. /\ Tail(q) \in Seq(S) /\ Len(Tail(q)) = Len(q) - 1 /\ Len(q) \in Nat /\ Len(q) > 0
      /\ \A i \in 1 .. Len(Tail(q)) : i + 1 \in 1 .. Len(q) /\ Tail(q)[i] = q[i + 1]
  OBVIOUS
<1>2. ASSUME Single(q, these) PROVE Single(Tail(q), these)
  <2> SUFFICES ASSUME NEW i \in 1 .. Len(Tail(q)), NEW j \in 1 .. Len(Tail(q)),
                      Tail(q)[i] \in these, Tail(q)[j] \in these
               PROVE  i = j
    BY DEF Single
  <2>1. i + 1 = j + 1
    BY <1>1, <1>2 DEF Single
  <2> QED BY <2>1
<1>3. Holds(Tail(q), these) => Holds(q, these)
  BY <1>1 DEF Holds
<1>4. Head(q) = q[1] /\ 1 \in 1 .. Len(q)
  BY <1>1
<1>5. ASSUME Head(q) \in these, Single(q, these), Holds(Tail(q), these) PROVE FALSE
  <2>1. PICK i \in 1 .. Len(Tail(q)) : Tail(q)[i] \in these
    BY <1>5 DEF Holds
  <2>2. i + 1 = 1
    BY <1>1, <1>4, <1>5, <2>1 DEF Single
  <2> QED BY <2>2
<1> QED BY <1>2, <1>3, <1>4, <1>5 DEF NoMore, Holds

LEMMA FrontNoMore ==
  ASSUME NEW S, NEW q \in Seq(S), Len(q) > 1, NEW these
  PROVE  /\ NoMore(q, Front(q), these)
         /\ Last(q) \in these => Holds(q, these)
         /\ Last(q) \in these /\ Single(q, these) => ~Holds(Front(q), these)
         /\ Len(Front(q)) = Len(q) - 1
<1> DEFINE n == Len(q)
           t == SubSeq(q, 1, n - 1)
<1>1. n \in Nat /\ n > 1 /\ \A i \in 1 .. n : q[i] \in S
  BY LenProperties, ElementOfSeq
<1>2. n - 1 - 1 + 1 = n - 1 /\ 1 <= n - 1 + 1 /\ 1 \in Int /\ n - 1 \in Int /\ n - 1 \in Nat /\ 1 <= n - 1
  BY <1>1
<1>3. t \in Seq(S) /\ Len(t) = (IF 1 <= n - 1 THEN n - 1 - 1 + 1 ELSE 0)
      /\ \A i \in 1 .. n - 1 - 1 + 1 : t[i] = q[1 + i - 1]
  <2>1. \A i \in 1 .. n - 1 : q[i] \in S
    BY <1>1
  <2> QED BY <1>1, <1>2, <2>1, SubSeqProperties
<1>4. \A i \in 1 .. n - 1 : 1 + i - 1 = i
  OBVIOUS
<1>5. Front(q) = t /\ Last(q) = q[n]
  BY DEF Front, Last
<1> HIDE DEF t, n
<1>6. Len(t) = n - 1 /\ \A i \in 1 .. n - 1 : t[i] = q[i]
  BY <1>2, <1>3, <1>4
<1>7. \A i \in 1 .. Len(t) : i \in 1 .. n /\ i # n /\ t[i] = q[i]
  BY <1>1, <1>6
<1>8. n \in 1 .. n /\ n = Len(q)
  BY <1>1 DEF n
<1>9. Len(Front(q)) = Len(q) - 1
  BY <1>5, <1>6, <1>8
<1> QED BY <1>5, <1>7, <1>8, <1>9 DEF NoMore, Holds, Single

LEMMA AppendNoMore ==
  ASSUME NEW S, NEW q \in Seq(S), NEW x, NEW these
  PROVE  /\ x \notin these => NoMore(q, Append(q, x), these)
         /\ ~Holds(q, these) => Single(Append(q, x), these)
         /\ x \in these => Holds(Append(q, x), these)
<1>1. /\ Len(q) \in Nat /\ Len(Append(q, x)) = Len(q) + 1
      /\ Append(q, x)[Len(q) + 1] = x
      /\ \A i \in 1 .. Len(q) : Append(q, x)[i] = q[i]
  <2>1. q \in Seq(S \cup {x}) /\ x \in S \cup {x}
    OBVIOUS
  <2> QED BY <2>1
<1>2. \A i \in 1 .. Len(Append(q, x)) : i \in 1 .. Len(q) \/ i = Len(q) + 1
  BY <1>1
<1>3. Len(q) + 1 \in 1 .. Len(Append(q, x))
  BY <1>1
<1> QED BY <1>1, <1>2, <1>3 DEF NoMore, Holds, Single

LEMMA ConcatNoMore ==
  ASSUME NEW S, NEW q \in Seq(S), NEW r \in Seq(S), NEW these, ~Holds(r, these)
  PROVE  NoMore(q, q \o r, these)
<1>1. /\ Len(q) \in Nat /\ Len(r) \in Nat /\ Len(q \o r) = Len(q) + Len(r)
      /\ \A i \in 1 .. Len(q) : (q \o r)[i] = q[i]
      /\ \A i \in 1 .. Len(q) + Len(r) : i \notin 1 .. Len(q) =>
           i - Len(q) \in 1 .. Len(r) /\ (q \o r)[i] = r[i - Len(q)]
  OBVIOUS
<1>2. \A i \in 1 .. Len(q \o r) : (q \o r)[i] \in these => i \in 1 .. Len(q) /\ q[i] \in these
  BY <1>1 DEF Holds
<1> QED BY <1>2 DEF NoMore, Holds, Single

-----------------------------------------------------------------------------
(* A leaf on the shelves, before and after.                                  *)
On(now, a, leaf) == Holds(Stock(now, a), Copies(a, leaf))
OneCopy(now, leaf) ==
  \A a \in Shelves : /\ Single(Stock(now, a), Copies(a, leaf))
                     /\ \A b \in Shelves : On(now, a, leaf) /\ On(now, b, leaf) => a = b
Less(now, then, leaf) ==
  \A a \in Shelves : NoMore(Stock(now, a), Stock(then, a), Copies(a, leaf))
OnlyAt(now, leaf, a) == \A c \in Shelves : On(now, c, leaf) <=> c = a
AtMostAt(now, leaf, b) ==
  Single(Stock(now, b), Copies(b, leaf)) /\ \A c \in Shelves : On(now, c, leaf) => c = b
Nowhere(now, leaf) == \A c \in Shelves : ~On(now, c, leaf)

LEMMA ShelfIs ==
  /\ \A w \in Workers : <<"mine", w>> \in Shelves
  /\ \A e \in Endpoints : /\ <<"granted", e>> \in Shelves /\ <<"granting", e>> \in Shelves
                          /\ <<"back", e>> \in Shelves /\ <<"backing", e>> \in Shelves
  /\ \A a \in Shelves :
       \/ \E w \in Workers : a = <<"mine", w>>
       \/ \E e \in Endpoints : a \in {<<"granted", e>>, <<"granting", e>>, <<"back", e>>, <<"backing", e>>}
BY DEF Shelves

LEMMA StockIs ==
  \A now, x :
    /\ Stock(now, <<"mine", x>>) = now[1][x]
    /\ Stock(now, <<"granted", x>>) = now[2][x] /\ Stock(now, <<"back", x>>) = now[2][x]
    /\ Stock(now, <<"granting", x>>) = now[3][x] /\ Stock(now, <<"backing", x>>) = now[3][x]
BY DEF Stock

LEMMA CopiesAre ==
  \A leaf, x :
    /\ Copies(<<"mine", x>>, leaf) = {leaf}
    /\ Copies(<<"granted", x>>, leaf) = {Grant(leaf)} /\ Copies(<<"back", x>>, leaf) = {Back(leaf)}
    /\ Copies(<<"granting", x>>, leaf) = Posted(Grant(leaf))
    /\ Copies(<<"backing", x>>, leaf) = Posted(Back(leaf))
BY DEF Copies

LEMMA LessThenLess ==
  ASSUME NEW one, NEW two, NEW three, NEW leaf, Less(one, two, leaf), Less(two, three, leaf)
  PROVE  Less(one, three, leaf)
BY DEF Less, NoMore

LEMMA LessIsOne ==
  ASSUME NEW now, NEW then, NEW leaf, OneCopy(now, leaf), Less(now, then, leaf)
  PROVE  OneCopy(then, leaf)
BY DEF OneCopy, Less, NoMore, On

(* A leaf taken from its shelf is nowhere, one put on a shelf is there only.  *)
LEMMA Removed ==
  ASSUME NEW now, NEW then, NEW leaf, OneCopy(now, leaf), Less(now, then, leaf),
         NEW a \in Shelves, On(now, a, leaf), ~On(then, a, leaf)
  PROVE  OnlyAt(now, leaf, a) /\ Nowhere(then, leaf)
BY DEF OneCopy, Less, NoMore, On, OnlyAt, Nowhere

PutOn(now, then, leaf, b) ==
  /\ b \in Shelves
  /\ ~On(now, b, leaf) => Single(Stock(then, b), Copies(b, leaf))
  /\ \A c \in Shelves \ {b} : NoMore(Stock(now, c), Stock(then, c), Copies(c, leaf))
LEMMA PutThere ==
  ASSUME NEW now, NEW then, NEW leaf, NEW b, Nowhere(now, leaf), PutOn(now, then, leaf, b)
  PROVE  AtMostAt(then, leaf, b)
BY DEF Nowhere, NoMore, On, AtMostAt, PutOn

LEMMA ThereIsOne ==
  ASSUME NEW now, NEW leaf, NEW b, AtMostAt(now, leaf, b)
  PROVE  OneCopy(now, leaf)
BY NoneIsSingle DEF AtMostAt, OneCopy, On

LEMMA NowhereIsOne ==
  ASSUME NEW now, NEW leaf, Nowhere(now, leaf)
  PROVE  OneCopy(now, leaf)
BY NoneIsSingle DEF Nowhere, OneCopy, On

(* The shelves of a state, part by part.                                     *)
MineLess(m, n, leaf) == \A w \in Workers : NoMore(m[w], n[w], {leaf})
BoxesLess(i, j, leaf) ==
  \A e \in Endpoints : NoMore(i[e], j[e], {Grant(leaf)}) /\ NoMore(i[e], j[e], {Back(leaf)})
QueuesLess(o, p, leaf) ==
  \A e \in Endpoints : NoMore(o[e], p[e], Posted(Grant(leaf))) /\ NoMore(o[e], p[e], Posted(Back(leaf)))

LEMMA LessByParts ==
  ASSUME NEW m, NEW n, NEW i, NEW j, NEW o, NEW p, NEW leaf,
         MineLess(m, n, leaf), BoxesLess(i, j, leaf), QueuesLess(o, p, leaf)
  PROVE  Less(<<m, i, o>>, <<n, j, p>>, leaf)
<1> DEFINE s == <<m, i, o>>
           t == <<n, j, p>>
<1> SUFFICES ASSUME NEW a \in Shelves
             PROVE  NoMore(Stock(s, a), Stock(t, a), Copies(a, leaf))
  BY DEF Less
<1>1. s[1] = m /\ s[2] = i /\ s[3] = o /\ t[1] = n /\ t[2] = j /\ t[3] = p
  OBVIOUS
<1> HIDE DEF s, t
<1>2. CASE \E w \in Workers : a = <<"mine", w>>
  <2>1. PICK w \in Workers : a = <<"mine", w>>
    BY <1>2
  <2>2. Stock(s, a) = m[w] /\ Stock(t, a) = n[w] /\ Copies(a, leaf) = {leaf}
    BY <1>1, <2>1, StockIs, CopiesAre
  <2> QED BY <2>2 DEF MineLess
<1>3. CASE \E e \in Endpoints : a \in {<<"granted", e>>, <<"granting", e>>, <<"back", e>>, <<"backing", e>>}
  <2>1. PICK e \in Endpoints : a \in {<<"granted", e>>, <<"granting", e>>, <<"back", e>>, <<"backing", e>>}
    BY <1>3
  <2>2. \/ Stock(s, a) = i[e] /\ Stock(t, a) = j[e] /\ Copies(a, leaf) \in {{Grant(leaf)}, {Back(leaf)}}
        \/ Stock(s, a) = o[e] /\ Stock(t, a) = p[e] /\ Copies(a, leaf) \in {Posted(Grant(leaf)), Posted(Back(leaf))}
    BY <1>1, <2>1, StockIs, CopiesAre
  <2> QED BY <2>2 DEF BoxesLess, QueuesLess
<1> QED BY <1>2, <1>3, ShelfIs

LEMMA SameLess ==
  \A f, leaf : MineLess(f, f, leaf) /\ BoxesLess(f, f, leaf) /\ QueuesLess(f, f, leaf)
BY SameNoMore DEF MineLess, BoxesLess, QueuesLess

LEMMA BoxesThenBoxes ==
  ASSUME NEW i, NEW j, NEW k, NEW leaf, BoxesLess(i, j, leaf), BoxesLess(j, k, leaf)
  PROVE  BoxesLess(i, k, leaf)
BY DEF BoxesLess, NoMore

-----------------------------------------------------------------------------
(* What one queue operation does to the shelves.                             *)
Other(msg, leaf) == msg # Grant(leaf) /\ msg # Back(leaf)

LEMMA CopiesDiffer ==
  /\ \A x, y : Grant(x) # Back(y)
  /\ \A x, y : x # y => Other(Grant(x), y) /\ Other(Back(x), y)
  /\ \A x : Grant(x).tag = "steal_resp" /\ Grant(x).leaves = <<x>> /\ Back(x).tag = "leaf" /\ Back(x).node = <<0, x>>
  /\ \A msg, leaf : msg.tag \notin {"steal_resp", "leaf"} => Other(msg, leaf)
  /\ \A leaf : Other(StealResp(<<>>), leaf)
<1>1. \A x : Grant(x).tag = "steal_resp" /\ Grant(x).leaves = <<x>> /\ Back(x).tag = "leaf" /\ Back(x).node = <<0, x>>
  BY DEF Grant, Back, StealResp, LeafMsg
<1>2. \A x : StealResp(<<>>).tag = "steal_resp" /\ StealResp(<<>>).leaves = <<>> /\ <<x>> # <<>>
  BY DEF StealResp
<1>3. \A x, y : Grant(x) # Back(y)
  <2> SUFFICES ASSUME NEW x, NEW y, Grant(x) = Back(y) PROVE FALSE
    OBVIOUS
  <2> QED BY <1>1
<1>4. ASSUME NEW x, NEW y, x # y PROVE Other(Grant(x), y)
  <2>1. Grant(x) # Grant(y)
    BY <1>1, <1>4
  <2> QED BY <1>3, <2>1 DEF Other
<1>5. ASSUME NEW x, NEW y, x # y PROVE Other(Back(x), y)
  <2>1. Back(x) # Back(y)
    BY <1>1, <1>5
  <2> QED BY <1>3, <2>1 DEF Other
<1>6. \A msg, leaf : msg.tag \notin {"steal_resp", "leaf"} => Other(msg, leaf)
  <2> SUFFICES ASSUME NEW msg, NEW leaf, msg.tag \notin {"steal_resp", "leaf"} PROVE Other(msg, leaf)
    OBVIOUS
  <2>1. Grant(leaf).tag # msg.tag /\ Back(leaf).tag # msg.tag
    BY <1>1
  <2> QED BY <2>1 DEF Other
<1>7. \A leaf : Other(StealResp(<<>>), leaf)
  <2> SUFFICES ASSUME NEW leaf PROVE Other(StealResp(<<>>), leaf)
    OBVIOUS
  <2>1. Grant(leaf).leaves # StealResp(<<>>).leaves /\ Back(leaf).tag # StealResp(<<>>).tag
    BY <1>1, <1>2
  <2> QED BY <2>1 DEF Other
<1> QED BY <1>1, <1>3, <1>4, <1>5, <1>6, <1>7

LEMMA PostIs ==
  ASSUME NEW p \in Posts
  PROVE  p.to \in Endpoints /\ p.msg \in Mail[p.to] /\ p = [to |-> p.to, msg |-> p.msg]
<1>1. PICK e \in Endpoints : p \in [to : {e}, msg : Mail[e]]
  BY DEF Posts
<1> QED BY <1>1

LEMMA PostedIs ==
  ASSUME NEW msg
  PROVE  /\ \A e \in Endpoints : [to |-> e, msg |-> msg] \in Posted(msg)
         /\ \A p \in Posted(msg) : p.msg = msg
         /\ \A p \in Posts : p \in Posted(p.msg)
<1>1. \A e \in Endpoints : [to |-> e, msg |-> msg] \in Posted(msg)
  BY DEF Posted
<1>2. \A p \in Posted(msg) : p.msg = msg
  BY DEF Posted
<1>3. ASSUME NEW p \in Posts PROVE p \in Posted(p.msg)
  <2>1. PICK to, m : to = p.to /\ m = p.msg /\ to \in Endpoints /\ p = [to |-> to, msg |-> m]
    BY PostIs
  <2> QED BY <2>1 DEF Posted
<1> QED BY <1>1, <1>2, <1>3

LEMMA BoxAppended ==
  ASSUME NEW boxes, GoodBoxes(boxes), NEW dest \in Endpoints, NEW msg, NEW leaf
  PROVE  LET more == [boxes EXCEPT ![dest] = Append(@, msg)]
         IN  /\ Other(msg, leaf) => BoxesLess(boxes, more, leaf)
             /\ \A m, o : msg = Grant(leaf) => PutOn(<<m, boxes, o>>, <<m, more, o>>, leaf, <<"granted", dest>>)
             /\ \A m, o : msg = Back(leaf) => PutOn(<<m, boxes, o>>, <<m, more, o>>, leaf, <<"back", dest>>)
<1> DEFINE more == [boxes EXCEPT ![dest] = Append(@, msg)]
<1>1. /\ boxes[dest] \in Seq(Mail[dest]) /\ more[dest] = Append(boxes[dest], msg)
      /\ \A e \in Endpoints \ {dest} : more[e] = boxes[e]
  BY DEF GoodBoxes
<1> HIDE DEF more
<1>2. \A these : /\ msg \notin these => NoMore(boxes[dest], more[dest], these)
                 /\ ~Holds(boxes[dest], these) => Single(more[dest], these)
  BY <1>1, AppendNoMore
<1>3. Other(msg, leaf) => BoxesLess(boxes, more, leaf)
  BY <1>1, <1>2, SameNoMore DEF BoxesLess, Other
<1>4. ASSUME NEW m, NEW o, NEW kind,
             (kind = "granted" /\ msg = Grant(leaf)) \/ (kind = "back" /\ msg = Back(leaf))
      PROVE  PutOn(<<m, boxes, o>>, <<m, more, o>>, leaf, <<kind, dest>>)
  <2> DEFINE s == <<m, boxes, o>>
             t == <<m, more, o>>
  <2>1. s[1] = m /\ t[1] = m /\ s[2] = boxes /\ t[2] = more /\ s[3] = o /\ t[3] = o
    OBVIOUS
  <2> HIDE DEF s, t
  <2>2. /\ <<kind, dest>> \in Shelves
        /\ Stock(s, <<kind, dest>>) = boxes[dest] /\ Stock(t, <<kind, dest>>) = more[dest]
    <3>1. CASE kind = "granted"
      <4>1. <<"granted", dest>> \in Shelves
        BY ShelfIs
      <4> QED BY <2>1, <3>1, <4>1, StockIs
    <3>2. CASE kind = "back"
      <4>1. <<"back", dest>> \in Shelves
        BY ShelfIs
      <4> QED BY <2>1, <3>2, <4>1, StockIs
    <3> QED BY <1>4, <3>1, <3>2
  <2>3. ASSUME NEW c \in Shelves, c # <<kind, dest>>
        PROVE  NoMore(Stock(s, c), Stock(t, c), Copies(c, leaf))
    <3>1. CASE \E w \in Workers : c = <<"mine", w>>
      BY <2>1, <3>1, StockIs, SameNoMore
    <3>2. CASE \E e \in Endpoints : c \in {<<"granting", e>>, <<"backing", e>>}
      BY <2>1, <3>2, StockIs, SameNoMore
    <3>3. ASSUME NEW e \in Endpoints, c \in {<<"granted", e>>, <<"back", e>>}
          PROVE  NoMore(Stock(s, c), Stock(t, c), Copies(c, leaf))
      <4>1. Stock(s, c) = boxes[e] /\ Stock(t, c) = more[e]
        BY <2>1, <3>3, StockIs
      <4>2. CASE e # dest
        BY <1>1, <4>1, <4>2, SameNoMore
      <4>3. CASE e = dest
        <5>1. msg \notin Copies(c, leaf)
          BY <1>4, <2>3, <3>3, <4>3, CopiesAre, CopiesDiffer
        <5> QED BY <1>2, <4>1, <4>3, <5>1
      <4> QED BY <4>2, <4>3
    <3> QED BY <3>1, <3>2, <3>3, ShelfIs
  <2>4. ~On(s, <<kind, dest>>, leaf) => Single(Stock(t, <<kind, dest>>), Copies(<<kind, dest>>, leaf))
    BY <1>2, <2>2 DEF On
  <2> QED BY <2>2, <2>3, <2>4 DEF PutOn, s, t
<1>5. \A m, o : msg = Grant(leaf) => PutOn(<<m, boxes, o>>, <<m, more, o>>, leaf, <<"granted", dest>>)
  BY <1>4
<1>6. \A m, o : msg = Back(leaf) => PutOn(<<m, boxes, o>>, <<m, more, o>>, leaf, <<"back", dest>>)
  BY <1>4
<1> QED BY <1>3, <1>5, <1>6, Zenon DEF more

LEMMA QueueAppended ==
  ASSUME GoodOut, NEW w \in Endpoints, NEW dest, NEW msg, NEW leaf
  PROVE  LET more == [out EXCEPT ![w] = Append(@, [to |-> dest, msg |-> msg])]
         IN  /\ Other(msg, leaf) => QueuesLess(out, more, leaf)
             /\ \A m, i : msg = Grant(leaf) => PutOn(<<m, i, out>>, <<m, i, more>>, leaf, <<"granting", w>>)
             /\ \A m, i : msg = Back(leaf) => PutOn(<<m, i, out>>, <<m, i, more>>, leaf, <<"backing", w>>)
<1> DEFINE more == [out EXCEPT ![w] = Append(@, [to |-> dest, msg |-> msg])]
<1>1. /\ out[w] \in Seq(Posts) /\ more[w] = Append(out[w], [to |-> dest, msg |-> msg])
      /\ \A e \in Endpoints \ {w} : more[e] = out[e]
  BY DEF GoodOut
<1> HIDE DEF more
<1>2. \A these : /\ [to |-> dest, msg |-> msg] \notin these => NoMore(out[w], more[w], these)
                 /\ ~Holds(out[w], these) => Single(more[w], these)
  BY <1>1, AppendNoMore
<1>3. \A other : msg # other => [to |-> dest, msg |-> msg] \notin Posted(other)
  BY PostedIs
<1>4. Other(msg, leaf) => QueuesLess(out, more, leaf)
  BY <1>1, <1>2, <1>3, SameNoMore DEF QueuesLess, Other
<1>5. ASSUME NEW m, NEW i, NEW kind,
             (kind = "granting" /\ msg = Grant(leaf)) \/ (kind = "backing" /\ msg = Back(leaf))
      PROVE  PutOn(<<m, i, out>>, <<m, i, more>>, leaf, <<kind, w>>)
  <2> DEFINE s == <<m, i, out>>
             t == <<m, i, more>>
  <2>1. s[1] = m /\ t[1] = m /\ s[2] = i /\ t[2] = i /\ s[3] = out /\ t[3] = more
    OBVIOUS
  <2> HIDE DEF s, t
  <2>2. /\ <<kind, w>> \in Shelves
        /\ Stock(s, <<kind, w>>) = out[w] /\ Stock(t, <<kind, w>>) = more[w]
    <3>1. CASE kind = "granting"
      <4>1. <<"granting", w>> \in Shelves
        BY ShelfIs
      <4> QED BY <2>1, <3>1, <4>1, StockIs
    <3>2. CASE kind = "backing"
      <4>1. <<"backing", w>> \in Shelves
        BY ShelfIs
      <4> QED BY <2>1, <3>2, <4>1, StockIs
    <3> QED BY <1>5, <3>1, <3>2
  <2>3. ASSUME NEW c \in Shelves, c # <<kind, w>>
        PROVE  NoMore(Stock(s, c), Stock(t, c), Copies(c, leaf))
    <3>1. CASE \E v \in Workers : c = <<"mine", v>>
      BY <2>1, <3>1, StockIs, SameNoMore
    <3>2. CASE \E e \in Endpoints : c \in {<<"granted", e>>, <<"back", e>>}
      BY <2>1, <3>2, StockIs, SameNoMore
    <3>3. ASSUME NEW e \in Endpoints, c \in {<<"granting", e>>, <<"backing", e>>}
          PROVE  NoMore(Stock(s, c), Stock(t, c), Copies(c, leaf))
      <4>1. Stock(s, c) = out[e] /\ Stock(t, c) = more[e]
        BY <2>1, <3>3, StockIs
      <4>2. CASE e # w
        BY <1>1, <4>1, <4>2, SameNoMore
      <4>3. CASE e = w
        <5>1. [to |-> dest, msg |-> msg] \notin Copies(c, leaf)
          BY <1>3, <1>5, <2>3, <3>3, <4>3, CopiesAre, CopiesDiffer
        <5> QED BY <1>2, <4>1, <4>3, <5>1
      <4> QED BY <4>2, <4>3
    <3> QED BY <3>1, <3>2, <3>3, ShelfIs
  <2>4. ~On(s, <<kind, w>>, leaf) => Single(Stock(t, <<kind, w>>), Copies(<<kind, w>>, leaf))
    BY <1>2, <2>2 DEF On
  <2> QED BY <2>2, <2>3, <2>4 DEF PutOn, s, t
<1>6. \A m, i : msg = Grant(leaf) => PutOn(<<m, i, out>>, <<m, i, more>>, leaf, <<"granting", w>>)
  BY <1>5
<1>7. \A m, i : msg = Back(leaf) => PutOn(<<m, i, out>>, <<m, i, more>>, leaf, <<"backing", w>>)
  BY <1>5
<1> QED BY <1>4, <1>6, <1>7, Zenon DEF more

LEMMA MineAppended ==
  ASSUME NEW m \in [Workers -> Seq(Leaves)], NEW w \in Workers, NEW x \in Leaves, NEW leaf
  PROVE  LET more == [m EXCEPT ![w] = @ \o <<x>>]
         IN  /\ x # leaf => MineLess(m, more, leaf)
             /\ \A i, o : x = leaf => PutOn(<<m, i, o>>, <<more, i, o>>, leaf, <<"mine", w>>)
<1> DEFINE more == [m EXCEPT ![w] = @ \o <<x>>]
<1>1. m[w] \in Seq(Leaves) /\ more[w] = Append(m[w], x) /\ \A v \in Workers \ {w} : more[v] = m[v]
  OBVIOUS
<1> HIDE DEF more
<1>2. \A these : /\ x \notin these => NoMore(m[w], more[w], these)
                 /\ ~Holds(m[w], these) => Single(more[w], these)
  BY <1>1, AppendNoMore
<1>3. x # leaf => MineLess(m, more, leaf)
  BY <1>1, <1>2, SameNoMore DEF MineLess
<1>4. ASSUME NEW i, NEW o, x = leaf PROVE PutOn(<<m, i, o>>, <<more, i, o>>, leaf, <<"mine", w>>)
  <2> DEFINE s == <<m, i, o>>
             t == <<more, i, o>>
  <2>1. s[1] = m /\ t[1] = more /\ s[2] = i /\ t[2] = i /\ s[3] = o /\ t[3] = o
    OBVIOUS
  <2> HIDE DEF s, t
  <2>2. <<"mine", w>> \in Shelves
    BY ShelfIs
  <2>3. Stock(s, <<"mine", w>>) = m[w] /\ Stock(t, <<"mine", w>>) = more[w]
    BY <2>1, StockIs
  <2>4. ASSUME NEW c \in Shelves, c # <<"mine", w>>
        PROVE  NoMore(Stock(s, c), Stock(t, c), Copies(c, leaf))
    <3>1. ASSUME NEW v \in Workers, c = <<"mine", v>>
          PROVE  NoMore(Stock(s, c), Stock(t, c), Copies(c, leaf))
      <4>1. v # w /\ more[v] = m[v]
        BY <1>1, <2>4, <3>1
      <4> QED BY <2>1, <3>1, <4>1, StockIs, SameNoMore
    <3>2. CASE \E e \in Endpoints : c \in {<<"granted", e>>, <<"granting", e>>, <<"back", e>>, <<"backing", e>>}
      BY <2>1, <3>2, StockIs, SameNoMore
    <3> QED BY <3>1, <3>2, ShelfIs
  <2>5. ~On(s, <<"mine", w>>, leaf) => Single(Stock(t, <<"mine", w>>), Copies(<<"mine", w>>, leaf))
    BY <1>2, <2>3 DEF On
  <2> QED BY <2>2, <2>4, <2>5 DEF PutOn, s, t
<1>5. \A i, o : x = leaf => PutOn(<<m, i, o>>, <<more, i, o>>, leaf, <<"mine", w>>)
  BY <1>4
<1> QED BY <1>3, <1>5, Zenon DEF more

(* A message is sent: one that grants or returns a leaf, or another.          *)
Sending(w, boxes, dest, msg, more, longer) ==
  /\ GoodBoxes(boxes) /\ GoodOut /\ w \in Workers /\ dest \in Endpoints
  /\ Send(w, boxes, dest, msg) /\ more = inbox' /\ longer = out'
WiresLess(boxes, more, longer, leaf) == BoxesLess(boxes, more, leaf) /\ QueuesLess(out, longer, leaf)
Fits(kind, posting, msg, leaf) ==
  \/ kind = "granted" /\ posting = "granting" /\ msg = Grant(leaf)
  \/ kind = "back" /\ posting = "backing" /\ msg = Back(leaf)
PutSomewhere(m, boxes, more, longer, leaf, places) ==
  \E b \in places : PutOn(<<m, boxes, out>>, <<m, more, longer>>, leaf, b)

LEMMA SendOther ==
  ASSUME NEW w, NEW boxes, NEW dest, NEW msg, NEW more, NEW longer,
         Sending(w, boxes, dest, msg, more, longer), NEW leaf, Other(msg, leaf)
  PROVE  WiresLess(boxes, more, longer, leaf)
<1>1. CASE dest \notin Outbox[w]
  BY <1>1, SameLess DEF Sending, Send, NoSend, WiresLess
<1>2. CASE dest \in Outbox[w] /\ Async
  <2>1. more = boxes /\ longer = [out EXCEPT ![w] = Append(@, [to |-> dest, msg |-> msg])]
    BY <1>2 DEF Sending, Send, HttpSend
  <2>2. GoodOut /\ w \in Endpoints
    BY WhoIsWho DEF Sending
  <2>3. QueuesLess(out, longer, leaf)
    BY <2>1, <2>2, QueueAppended
  <2> QED BY <2>1, <2>3, SameLess DEF WiresLess
<1>3. CASE dest \in Outbox[w] /\ ~Async
  <2>1. more = [boxes EXCEPT ![dest] = Append(@, msg)] /\ longer = out
    BY <1>3 DEF Sending, Send, QueueSend
  <2>2. GoodBoxes(boxes) /\ dest \in Endpoints
    BY DEF Sending
  <2>3. BoxesLess(boxes, more, leaf)
    BY <2>1, <2>2, BoxAppended
  <2> QED BY <2>1, <2>3, SameLess DEF WiresLess
<1> QED BY <1>1, <1>2, <1>3

LEMMA SendPuts ==
  ASSUME NEW w, NEW boxes, NEW dest, NEW msg, NEW more, NEW longer,
         Sending(w, boxes, dest, msg, more, longer),
         NEW leaf, NEW kind, NEW posting, Fits(kind, posting, msg, leaf), NEW m
  PROVE  PutSomewhere(m, boxes, more, longer, leaf, {<<kind, dest>>, <<posting, w>>})
<1>1. w \in Endpoints /\ dest \in Endpoints /\ GoodBoxes(boxes) /\ GoodOut
  BY WhoIsWho DEF Sending
<1> SUFFICES \E b \in {<<kind, dest>>, <<posting, w>>} : PutOn(<<m, boxes, out>>, <<m, more, longer>>, leaf, b)
  BY DEF PutSomewhere
<1>2. CASE dest \notin Outbox[w]
  <2>1. more = boxes /\ longer = out
    BY <1>2 DEF Sending, Send, NoSend
  <2>2. \A b \in Shelves : PutOn(<<m, boxes, out>>, <<m, more, longer>>, leaf, b)
    BY <2>1, SameNoMore, NoneIsSingle DEF PutOn, On
  <2>3. <<kind, dest>> \in Shelves
    BY <1>1, ShelfIs DEF Fits
  <2> QED BY <2>2, <2>3
<1>3. CASE dest \in Outbox[w] /\ Async
  <2>1. more = boxes /\ longer = [out EXCEPT ![w] = Append(@, [to |-> dest, msg |-> msg])]
    BY <1>3 DEF Sending, Send, HttpSend
  <2>2. /\ msg = Grant(leaf) => PutOn(<<m, boxes, out>>, <<m, boxes, longer>>, leaf, <<"granting", w>>)
        /\ msg = Back(leaf) => PutOn(<<m, boxes, out>>, <<m, boxes, longer>>, leaf, <<"backing", w>>)
    BY <1>1, <2>1, QueueAppended
  <2> QED BY <2>1, <2>2 DEF Fits
<1>4. CASE dest \in Outbox[w] /\ ~Async
  <2>1. more = [boxes EXCEPT ![dest] = Append(@, msg)] /\ longer = out
    BY <1>4 DEF Sending, Send, QueueSend
  <2>2. /\ msg = Grant(leaf) => PutOn(<<m, boxes, out>>, <<m, more, out>>, leaf, <<"granted", dest>>)
        /\ msg = Back(leaf) => PutOn(<<m, boxes, out>>, <<m, more, out>>, leaf, <<"back", dest>>)
    BY <1>1, <2>1, BoxAppended
  <2> QED BY <2>1, <2>2 DEF Fits
<1> QED BY <1>2, <1>3, <1>4

(* The oldest message of an inbox, or of a queue, is taken.                   *)
Takes(now, then, leaf, a) == OnlyAt(now, leaf, a) /\ Nowhere(then, leaf)

LEMMA BoxTaken ==
  ASSUME GoodBoxes(inbox), NEW e \in Endpoints, inbox[e] # <<>>, NEW leaf
  PROVE  LET rest == [inbox EXCEPT ![e] = Tail(@)]
             then == <<mine, rest, out>>
         IN  /\ BoxesLess(inbox, rest, leaf) /\ Less(Now, then, leaf)
             /\ OneCopy(Now, leaf) =>
                  /\ Head(inbox[e]) = Grant(leaf) => Takes(Now, then, leaf, <<"granted", e>>)
                  /\ Head(inbox[e]) = Back(leaf) => Takes(Now, then, leaf, <<"back", e>>)
<1> DEFINE rest == [inbox EXCEPT ![e] = Tail(@)]
           then == <<mine, rest, out>>
<1>1. /\ inbox[e] \in Seq(Mail[e]) /\ rest[e] = Tail(inbox[e])
      /\ \A f \in Endpoints \ {e} : rest[f] = inbox[f]
  BY DEF GoodBoxes
<1> HIDE DEF rest
<1>2. \A these : /\ NoMore(inbox[e], rest[e], these)
                 /\ Head(inbox[e]) \in these => Holds(inbox[e], these)
                 /\ Head(inbox[e]) \in these /\ Single(inbox[e], these) => ~Holds(rest[e], these)
  BY <1>1, TailNoMore
<1>3. BoxesLess(inbox, rest, leaf)
  BY <1>1, <1>2, SameNoMore DEF BoxesLess
<1>4. Less(Now, then, leaf)
  BY <1>3, SameLess, LessByParts DEF Now
<1>5. Now[2] = inbox /\ then[2] = rest
  BY DEF Now
<1> HIDE DEF then
<1>6. ASSUME OneCopy(Now, leaf), NEW a \in Shelves, Stock(Now, a) = inbox[e], Stock(then, a) = rest[e],
             Head(inbox[e]) \in Copies(a, leaf)
      PROVE  Takes(Now, then, leaf, a)
  <2>1. On(Now, a, leaf) /\ ~On(then, a, leaf)
    BY <1>2, <1>6 DEF OneCopy, On
  <2> QED BY <1>4, <1>6, <2>1, Removed DEF Takes
<1>7. /\ <<"granted", e>> \in Shelves /\ <<"back", e>> \in Shelves
  BY ShelfIs
<1>8. /\ Stock(Now, <<"granted", e>>) = inbox[e] /\ Stock(then, <<"granted", e>>) = rest[e]
      /\ Stock(Now, <<"back", e>>) = inbox[e] /\ Stock(then, <<"back", e>>) = rest[e]
  BY <1>5, StockIs
<1>9. Copies(<<"granted", e>>, leaf) = {Grant(leaf)} /\ Copies(<<"back", e>>, leaf) = {Back(leaf)}
  BY CopiesAre
<1>10. OneCopy(Now, leaf) =>
         /\ Head(inbox[e]) = Grant(leaf) => Takes(Now, then, leaf, <<"granted", e>>)
         /\ Head(inbox[e]) = Back(leaf) => Takes(Now, then, leaf, <<"back", e>>)
  BY <1>6, <1>7, <1>8, <1>9
<1> QED BY <1>3, <1>4, <1>10 DEF then, rest

LEMMA QueuePopped ==
  ASSUME GoodOut, NEW e \in Endpoints, out[e] # <<>>, NEW leaf
  PROVE  LET rest == [out EXCEPT ![e] = Tail(@)]
             then == <<mine, inbox, rest>>
         IN  /\ QueuesLess(out, rest, leaf) /\ Less(Now, then, leaf)
             /\ OneCopy(Now, leaf) =>
                  /\ Head(out[e]).msg = Grant(leaf) => Takes(Now, then, leaf, <<"granting", e>>)
                  /\ Head(out[e]).msg = Back(leaf) => Takes(Now, then, leaf, <<"backing", e>>)
<1> DEFINE rest == [out EXCEPT ![e] = Tail(@)]
           then == <<mine, inbox, rest>>
<1>1. /\ out[e] \in Seq(Posts) /\ rest[e] = Tail(out[e])
      /\ \A f \in Endpoints \ {e} : rest[f] = out[f]
  BY DEF GoodOut
<1> HIDE DEF rest
<1>2. \A these : /\ NoMore(out[e], rest[e], these)
                 /\ Head(out[e]) \in these => Holds(out[e], these)
                 /\ Head(out[e]) \in these /\ Single(out[e], these) => ~Holds(rest[e], these)
  BY <1>1, TailNoMore
<1>3. QueuesLess(out, rest, leaf)
  BY <1>1, <1>2, SameNoMore DEF QueuesLess
<1>4. Less(Now, then, leaf)
  BY <1>3, SameLess, LessByParts DEF Now
<1>5. Now[3] = out /\ then[3] = rest
  BY DEF Now
<1> HIDE DEF then
<1>6. ASSUME OneCopy(Now, leaf), NEW a \in Shelves, Stock(Now, a) = out[e], Stock(then, a) = rest[e],
             Head(out[e]) \in Copies(a, leaf)
      PROVE  Takes(Now, then, leaf, a)
  <2>1. On(Now, a, leaf) /\ ~On(then, a, leaf)
    BY <1>2, <1>6 DEF OneCopy, On
  <2> QED BY <1>4, <1>6, <2>1, Removed DEF Takes
<1>7. /\ <<"granting", e>> \in Shelves /\ <<"backing", e>> \in Shelves
  BY ShelfIs
<1>8. /\ Stock(Now, <<"granting", e>>) = out[e] /\ Stock(then, <<"granting", e>>) = rest[e]
      /\ Stock(Now, <<"backing", e>>) = out[e] /\ Stock(then, <<"backing", e>>) = rest[e]
  BY <1>5, StockIs
<1>9. Head(out[e]) \in Posted(Head(out[e]).msg)
  <2>1. Head(out[e]) \in Posts
    BY <1>1
  <2> QED BY <2>1, PostedIs
<1>10. Copies(<<"granting", e>>, leaf) = Posted(Grant(leaf)) /\ Copies(<<"backing", e>>, leaf) = Posted(Back(leaf))
  BY CopiesAre
<1>11. OneCopy(Now, leaf) =>
         /\ Head(out[e]).msg = Grant(leaf) => Takes(Now, then, leaf, <<"granting", e>>)
         /\ Head(out[e]).msg = Back(leaf) => Takes(Now, then, leaf, <<"backing", e>>)
  BY <1>6, <1>7, <1>8, <1>9, <1>10
<1> QED BY <1>3, <1>4, <1>11 DEF then, rest

(* The first or the last leaf of a deque is taken.                            *)
TakenFrom(q, x, rest) ==
  (q # <<>> /\ x = Head(q) /\ rest = Tail(q)) \/ (Len(q) > 1 /\ x = Last(q) /\ rest = Front(q))
LEMMA MineTaken ==
  ASSUME TypeOK, NEW w \in Workers, NEW boxes, NEW leaf, BoxesLess(inbox, boxes, leaf),
         NEW x, NEW rest, TakenFrom(mine[w], x, rest)
  PROVE  LET fewer == [mine EXCEPT ![w] = rest]
             then == <<fewer, boxes, out>>
         IN  /\ Less(Now, then, leaf)
             /\ OneCopy(Now, leaf) /\ leaf = x => Takes(Now, then, leaf, <<"mine", w>>)
<1> DEFINE fewer == [mine EXCEPT ![w] = rest]
           then == <<fewer, boxes, out>>
<1>1. mine[w] \in Seq(Leaves) /\ fewer[w] = rest /\ \A v \in Workers \ {w} : fewer[v] = mine[v]
  BY DEF TypeOK
<1>2. \A these : /\ NoMore(mine[w], rest, these)
                 /\ x \in these => Holds(mine[w], these)
                 /\ x \in these /\ Single(mine[w], these) => ~Holds(rest, these)
  <2>1. CASE mine[w] # <<>> /\ x = Head(mine[w]) /\ rest = Tail(mine[w])
    BY <1>1, <2>1, TailNoMore
  <2>2. CASE Len(mine[w]) > 1 /\ x = Last(mine[w]) /\ rest = Front(mine[w])
    BY <1>1, <2>2, FrontNoMore
  <2> QED BY <2>1, <2>2 DEF TakenFrom
<1> HIDE DEF fewer
<1>3. MineLess(mine, fewer, leaf)
  BY <1>1, <1>2, SameNoMore DEF MineLess
<1>4. Less(Now, then, leaf)
  BY <1>3, SameLess, LessByParts DEF Now
<1>5. Stock(Now, <<"mine", w>>) = mine[w] /\ Stock(then, <<"mine", w>>) = rest
  <2>1. Now[1] = mine /\ then[1] = fewer
    BY DEF Now
  <2> HIDE DEF then
  <2> QED BY <1>1, <2>1, StockIs
<1> HIDE DEF then
<1>6. ASSUME OneCopy(Now, leaf), leaf = x PROVE Takes(Now, then, leaf, <<"mine", w>>)
  <2>1. <<"mine", w>> \in Shelves /\ x \in Copies(<<"mine", w>>, leaf)
    BY <1>6, ShelfIs, CopiesAre
  <2>2. On(Now, <<"mine", w>>, leaf) /\ ~On(then, <<"mine", w>>, leaf)
    BY <1>2, <1>5, <1>6, <2>1 DEF OneCopy, On
  <2> QED BY <1>4, <1>6, <2>1, <2>2, Removed DEF Takes
<1> QED BY <1>4, <1>6 DEF then, fewer

-----------------------------------------------------------------------------
(* A leaf that is settled is on no shelf, and every other on one at most.     *)
Home(leaf) == <<0, leaf>> \in seen[OwnerOf[<<0, leaf>>]]
Alone(leaf) == OneCopy(Now, leaf) /\ (Home(leaf) => Nowhere(Now, leaf))
AllAlone == \A leaf \in Leaves : Alone(leaf)
UInv == repeats = 0 => AllAlone

(* What a step may do to a leaf.                                             *)
HomeAsBefore(leaf) == Home(leaf)' <=> Home(leaf)
Stays(leaf) == Less(Now, Now', leaf) /\ HomeAsBefore(leaf)
MovesOn(leaf, a, b) ==
  a \in Shelves /\ b \in Shelves /\ OnlyAt(Now, leaf, a) /\ AtMostAt(Now', leaf, b) /\ HomeAsBefore(leaf)
Settles(leaf, a) == a \in Shelves /\ OnlyAt(Now, leaf, a) /\ Nowhere(Now', leaf)
Unmoved == \A leaf \in Leaves : Stays(leaf)
OthersStay(x) == \A leaf \in Leaves \ {x} : Stays(leaf)

LEMMA AloneNext ==
  \A leaf : Alone(leaf)' <=> OneCopy(Now', leaf) /\ (Home(leaf)' => Nowhere(Now', leaf))
BY DEF Alone, OneCopy, Nowhere, On, Holds, Single, Stock, Copies, Shelves

LEMMA StayingAlone ==
  ASSUME NEW leaf, Alone(leaf), Stays(leaf)
  PROVE  Alone(leaf)'
<1>1. PICK s, t : s = Now /\ t = Now'
  OBVIOUS
<1>2. OneCopy(t, leaf)
  BY <1>1, LessIsOne DEF Alone, Stays
<1>3. Nowhere(s, leaf) => Nowhere(t, leaf)
  BY <1>1 DEF Stays, Less, NoMore, Nowhere, On
<1> QED BY <1>1, <1>2, <1>3, AloneNext DEF Alone, Stays, HomeAsBefore

LEMMA MovingAlone ==
  ASSUME NEW leaf, NEW a, NEW b, Alone(leaf), MovesOn(leaf, a, b)
  PROVE  Alone(leaf)'
<1>1. PICK s, t : s = Now /\ t = Now'
  OBVIOUS
<1>2. OneCopy(t, leaf)
  BY <1>1, ThereIsOne DEF MovesOn
<1>3. ~Home(leaf)
  BY DEF MovesOn, OnlyAt, Alone, Nowhere
<1> QED BY <1>1, <1>2, <1>3, AloneNext DEF MovesOn, HomeAsBefore

LEMMA SettlingAlone ==
  ASSUME NEW leaf, NEW a, Settles(leaf, a)
  PROVE  Alone(leaf)'
<1>1. PICK t : t = Now'
  OBVIOUS
<1> QED BY <1>1, NowhereIsOne, AloneNext DEF Settles

LEMMA StayByParts ==
  ASSUME NEW leaf, MineLess(mine, mine', leaf), BoxesLess(inbox, inbox', leaf),
         QueuesLess(out, out', leaf), HomeAsBefore(leaf)
  PROVE  Stays(leaf)
<1>1. PICK n, j, p : n = mine' /\ j = inbox' /\ p = out'
  OBVIOUS
<1>2. Less(<<mine, inbox, out>>, <<n, j, p>>, leaf)
  BY <1>1, LessByParts
<1>3. Now' = <<n, j, p>>
  BY <1>1 DEF Now
<1> QED BY <1>2, <1>3 DEF Stays, Now

LEMMA SeenAsBefore ==
  ASSUME UNCHANGED seen
  PROVE  \A leaf : HomeAsBefore(leaf)
BY DEF HomeAsBefore, Home

LEMMA SameMine ==
  ASSUME UNCHANGED mine
  PROVE  \A leaf : MineLess(mine, mine', leaf)
BY SameLess

LEMMA SameBoxes ==
  ASSUME UNCHANGED inbox
  PROVE  \A leaf : BoxesLess(inbox, inbox', leaf)
BY SameLess

LEMMA SameQueues ==
  ASSUME UNCHANGED out
  PROVE  \A leaf : QueuesLess(out, out', leaf)
BY SameLess

LEMMA QueueClosed ==
  ASSUME TypeOK, NEW w \in Workers, CloseTransport(w)
  PROVE  \A leaf : QueuesLess(out, out', leaf)
<1>1. PICK p : p = out'
  OBVIOUS
<1>2. \A e \in Endpoints : p[e] = out[e] \/ p[e] = <<>>
  BY <1>1 DEF CloseTransport, TypeOK
<1>3. \A leaf : QueuesLess(out, p, leaf)
  BY <1>2, SameNoMore, EmptyNoMore DEF QueuesLess
<1> QED BY <1>1, <1>3

LEMMA StillStays ==
  ASSUME UNCHANGED <<mine, inbox, out, seen>>
  PROVE  Unmoved
BY SeenAsBefore, SameMine, SameBoxes, SameQueues, StayByParts DEF Unmoved

(* A step that only sends a message which neither grants nor returns a leaf.  *)
LEMMA SendingStays ==
  ASSUME IInv, NEW w \in Workers, NEW dest \in Endpoints, NEW msg, Send(w, inbox, dest, msg),
         msg.tag \notin {"leaf", "steal_resp"}, UNCHANGED <<mine, seen>>
  PROVE  Unmoved
<1> SUFFICES ASSUME NEW leaf \in Leaves PROVE Stays(leaf)
  BY DEF Unmoved
<1>1. GoodBoxes(inbox) /\ GoodOut
  BY WireOfInv
<1>2. Other(msg, leaf)
  BY CopiesDiffer
<1>3. PICK more, longer : more = inbox' /\ longer = out'
  OBVIOUS
<1>4. Sending(w, inbox, dest, msg, more, longer)
  BY <1>1, <1>3 DEF Sending
<1>5. WiresLess(inbox, more, longer, leaf)
  BY <1>2, <1>4, SendOther, Zenon
<1> QED BY <1>3, <1>5, SeenAsBefore, SameMine, StayByParts DEF WiresLess

(* A step that takes a message from an inbox and forgets it.                  *)
LEMMA TakingLess ==
  ASSUME IInv, NEW e \in Endpoints, inbox[e] # <<>>, inbox' = [inbox EXCEPT ![e] = Tail(@)]
  PROVE  \A leaf : BoxesLess(inbox, inbox', leaf)
<1>1. GoodBoxes(inbox)
  BY WireOfInv
<1>2. PICK j : j = inbox'
  OBVIOUS
<1>3. \A leaf : BoxesLess(inbox, j, leaf)
  BY <1>1, <1>2, BoxTaken
<1> QED BY <1>2, <1>3

LEMMA SettleStays ==
  ASSUME IInv, NEW w \in Workers, Settle(w)
  PROVE  Unmoved
<1>1. w \in Endpoints /\ DRIVER \in Endpoints
  BY WhoIsWho
<1>2. CASE SettleRoot(w)
  <2>1. /\ Send(w, inbox, DRIVER, RootMsg(cur[w].val)) /\ UNCHANGED <<mine, seen>>
        /\ RootMsg(cur[w].val).tag \notin {"leaf", "steal_resp"}
    BY <1>2 DEF SettleRoot, loopVars, RootMsg
  <2> QED BY <1>1, <2>1, SendingStays
<1>3. CASE SettleCarry(w)
  BY <1>3, StillStays DEF SettleCarry, loopVars, wireVars
<1>4. CASE SettleShip(w)
  <2> DEFINE dest == OwnerOf[Sibling(cur[w].node)]
             msg == NodeMsg(cur[w].node, cur[w].val)
  <2>1. Send(w, inbox, dest, msg) /\ UNCHANGED <<mine, seen>> /\ msg.tag \notin {"leaf", "steal_resp"}
    BY <1>4 DEF SettleShip, loopVars, NodeMsg
  <2>2. dest \in Endpoints
    <3>1. PICK nd \in Nodes : AtHome(w, nd) /\ cur[w].node = nd
      BY <1>4, HandOfSettling DEF SettleShip, HasSibling, InTree
    <3>2. ~IsEven(nd)
      BY <1>4, <3>1 DEF SettleShip, PeerOwnsParent
    <3>3. Sibling(nd) \in Nodes
      BY <3>2, SiblingInNodes DEF Unpaired
    <3> QED BY <3>1, <3>3, OwnerIsWorker, WhoIsWho
  <2> HIDE DEF dest, msg
  <2> QED BY <2>1, <2>2, SendingStays
<1>5. CASE SettlePark(w)
  BY <1>5, StillStays DEF SettlePark, loopVars, wireVars
<1>6. CASE SettleCombine(w)
  <2>1. UNCHANGED <<mine, inbox, seen>> /\ (UNCHANGED out \/ CloseTransport(w))
    BY <1>6 DEF SettleCombine, loopVars, wireVars
  <2>2. TypeOK
    BY DEF IInv
  <2>3. \A leaf : QueuesLess(out, out', leaf)
    BY <2>1, <2>2, QueueClosed, SameQueues
  <2> QED BY <2>1, <2>3, SeenAsBefore, SameMine, SameBoxes, StayByParts DEF Unmoved
<1> QED BY <1>2, <1>3, <1>4, <1>5, <1>6 DEF Settle

LEMMA HomeWhenSeen ==
  ASSUME TypeOK, NEW w \in Workers, NEW nd, See(w, nd), NEW leaf \in Leaves,
         nd = <<0, leaf>> => OwnerOf[<<0, leaf>>] # w
  PROVE  HomeAsBefore(leaf)
<1>1. OwnerOf[<<0, leaf>>] \in Workers
  BY LeafNode, OwnerIsWorker
<1>2. \A v \in Workers : seen'[v] = IF v = w THEN seen[w] \cup {nd} ELSE seen[v]
  BY DEF See, TypeOK
<1>3. PICK v \in Workers : v = OwnerOf[<<0, leaf>>]
  BY <1>1
<1>4. Home(leaf)' <=> <<0, leaf>> \in seen'[v]
  BY <1>3 DEF Home, OwnerOf
<1> QED BY <1>2, <1>3, <1>4 DEF HomeAsBefore, Home

LEMMA HandleNodeStays ==
  ASSUME IInv, FInv, NEW w \in Workers, HandleNode(w)
  PROVE  Unmoved
<1> SUFFICES ASSUME NEW leaf \in Leaves PROVE Stays(leaf)
  BY DEF Unmoved
<1>1. polled[w] > 0 /\ Msg(w).tag = "node" /\ UNCHANGED <<mine, out>> /\ inbox' = Taken(w)
  BY DEF HandleNode, Handling
<1>2. inbox[w] # <<>> /\ Msg(w) \in MessagesTo(w) /\ w \in Endpoints
  BY <1>1, SomethingPolled, WhoIsWho
<1>3. Shipped(w, Msg(w).node)
  BY <1>1, <1>2 DEF FInv, NodesAreShipped
<1>4. HomeAsBefore(leaf)
  <2>1. CASE See(w, Msg(w).node)
    <3>1. Msg(w).node = <<0, leaf>> => OwnerOf[<<0, leaf>>] # w
      BY <1>3 DEF Shipped
    <3> QED BY <2>1, <3>1, HomeWhenSeen DEF IInv
  <2>2. CASE UNCHANGED seen
    BY <2>2, SeenAsBefore
  <2> QED BY <2>1, <2>2 DEF HandleNode
<1>5. BoxesLess(inbox, inbox', leaf)
  BY <1>1, <1>2, TakingLess DEF Taken
<1> QED BY <1>1, <1>4, <1>5, SameMine, SameQueues, StayByParts

LEMMA QuietWorkerStays ==
  ASSUME IInv, NEW w \in Workers, Poll(w) \/ Recv(w) \/ AskSteal(w) \/ HandleDone(w) \/ HandleOther(w) \/ Await(w)
  PROVE  Unmoved
<1>1. CASE Poll(w) \/ Recv(w)
  BY <1>1, StillStays DEF Poll, Recv, treeVars, wireVars
<1>2. CASE AskSteal(w)
  <2>1. PICK victim \in Workers : Send(w, inbox, victim, StealReq(w))
    BY <1>2 DEF AskSteal
  <2>2. victim \in Endpoints /\ StealReq(w).tag \notin {"leaf", "steal_resp"} /\ UNCHANGED <<mine, seen>>
    BY <1>2, WhoIsWho DEF AskSteal, treeVars, StealReq
  <2> QED BY <2>1, <2>2, SendingStays
<1>3. ASSUME inbox[w] # <<>>, inbox' = Taken(w), UNCHANGED <<mine, seen>>, UNCHANGED out \/ CloseTransport(w)
      PROVE  Unmoved
  <2>1. \A leaf : BoxesLess(inbox, inbox', leaf)
    BY <1>3, WhoIsWho, TakingLess DEF Taken
  <2>2. TypeOK
    BY DEF IInv
  <2>3. \A leaf : QueuesLess(out, out', leaf)
    BY <1>3, <2>2, QueueClosed, SameQueues
  <2> QED BY <1>3, <2>1, <2>3, SeenAsBefore, SameMine, StayByParts DEF Unmoved
<1>4. CASE HandleDone(w)
  BY <1>3, <1>4, SomethingPolled DEF HandleDone, Handling, treeVars
<1>5. CASE HandleOther(w)
  BY <1>3, <1>5, SomethingPolled DEF HandleOther, Handling, treeVars
<1>6. CASE Await(w)
  BY <1>3, <1>6 DEF Await, treeVars
<1> QED BY <1>1, <1>2, <1>4, <1>5, <1>6

(* The leaf at the front of a deque, processed or not.                        *)
LEMMA LeafIsTaken ==
  ASSUME TypeOK, NEW w \in Workers, TakeLeaf(w), NEW m, m = [mine EXCEPT ![w] = Tail(@)]
  PROVE  /\ Head(mine[w]) \in Leaves
         /\ \A leaf : Less(Now, <<m, inbox, out>>, leaf)
         /\ OneCopy(Now, Head(mine[w])) => Takes(Now, <<m, inbox, out>>, Head(mine[w]), <<"mine", w>>)
<1>1. mine[w] \in Seq(Leaves) /\ mine[w] # <<>>
  BY DEF TypeOK, TakeLeaf
<1>2. TakenFrom(mine[w], Head(mine[w]), Tail(mine[w]))
  BY <1>1 DEF TakenFrom
<1>3. m = [mine EXCEPT ![w] = Tail(mine[w])]
  BY DEF TypeOK
<1>4. \A leaf : BoxesLess(inbox, inbox, leaf)
  BY SameLess
<1>5. \A leaf : /\ Less(Now, <<m, inbox, out>>, leaf)
                /\ OneCopy(Now, leaf) /\ leaf = Head(mine[w])
                     => Takes(Now, <<m, inbox, out>>, leaf, <<"mine", w>>)
  BY <1>2, <1>3, <1>4, MineTaken
<1>6. Head(mine[w]) \in Leaves
  BY <1>1
<1> QED BY <1>5, <1>6

LEMMA ProcessRaisesStays ==
  ASSUME IInv, AllAlone, NEW w \in Workers, ProcessRaises(w)
  PROVE  Unmoved /\ \E leaf \in Leaves : ~Home(leaf)' /\ Nowhere(Now', leaf)
<1>1. /\ TypeOK /\ TakeLeaf(w) /\ mine' = [mine EXCEPT ![w] = Tail(@)]
      /\ UNCHANGED <<inbox, seen>> /\ CloseTransport(w)
  BY DEF ProcessRaises, IInv, treeVars
<1>2. PICK m, p : m = mine' /\ p = out'
  OBVIOUS
<1>3. /\ Head(mine[w]) \in Leaves
      /\ \A leaf : Less(Now, <<m, inbox, out>>, leaf)
      /\ OneCopy(Now, Head(mine[w])) => Takes(Now, <<m, inbox, out>>, Head(mine[w]), <<"mine", w>>)
  BY <1>1, <1>2, LeafIsTaken
<1>4. \A leaf : Less(<<m, inbox, out>>, <<m, inbox, p>>, leaf)
  <2>1. \A leaf : QueuesLess(out, p, leaf)
    BY <1>1, <1>2, QueueClosed
  <2> QED BY <2>1, SameLess, LessByParts
<1>5. Now' = <<m, inbox, p>>
  BY <1>1, <1>2 DEF Now
<1>6. Unmoved
  BY <1>1, <1>3, <1>4, <1>5, LessThenLess, SeenAsBefore DEF Unmoved, Stays
<1>7. PICK leaf \in Leaves : leaf = Head(mine[w])
  BY <1>3
<1>8. Alone(leaf) /\ OneCopy(Now, leaf)
  BY DEF AllAlone, Alone
<1>9. OnlyAt(Now, leaf, <<"mine", w>>) /\ Nowhere(<<m, inbox, out>>, leaf)
  BY <1>3, <1>7, <1>8 DEF Takes
<1>10. Nowhere(Now', leaf)
  BY <1>4, <1>5, <1>9 DEF Nowhere, Less, NoMore, On
<1>11. ~Home(leaf)
  BY <1>8, <1>9, ShelfIs DEF Alone, Nowhere, OnlyAt
<1>12. ~Home(leaf)'
  BY <1>1, <1>11, SeenAsBefore DEF HomeAsBefore
<1> QED BY <1>6, <1>10, <1>12

LEMMA ProcessTakes ==
  ASSUME IInv, AllAlone, NEW w \in Workers, Process(w)
  PROVE  \E x \in Leaves :
           /\ OthersStay(x)
           /\ \/ Settles(x, <<"mine", w>>)
              \/ \E b \in Shelves : b[1] \in {"back", "backing"} /\ MovesOn(x, <<"mine", w>>, b)
<1>1. /\ TypeOK /\ TakeLeaf(w) /\ mine' = [mine EXCEPT ![w] = Tail(@)]
  BY DEF Process, IInv
<1>2. PICK m, j, p : m = mine' /\ j = inbox' /\ p = out'
  OBVIOUS
<1>3. Now' = <<m, j, p>>
  BY <1>2 DEF Now
<1>4. /\ Head(mine[w]) \in Leaves
      /\ \A leaf : Less(Now, <<m, inbox, out>>, leaf)
      /\ OneCopy(Now, Head(mine[w])) => Takes(Now, <<m, inbox, out>>, Head(mine[w]), <<"mine", w>>)
  BY <1>1, <1>2, LeafIsTaken
<1>5. PICK x \in Leaves : x = Head(mine[w])
  BY <1>4
<1>6. OnlyAt(Now, x, <<"mine", w>>) /\ Nowhere(<<m, inbox, out>>, x) /\ <<"mine", w>> \in Shelves
  BY <1>4, <1>5, ShelfIs DEF Takes, AllAlone, Alone
<1>7. ~Home(x)
  BY <1>6 DEF AllAlone, Alone, Nowhere, OnlyAt
<1>8. PICK home \in Workers : home = OwnerOf[<<0, x>>]
  BY LeafNode, OwnerIsWorker
<1>9. CASE home = w
  <2>1. See(w, <<0, x>>) /\ UNCHANGED wireVars
    BY <1>5, <1>7, <1>8, <1>9 DEF Process, Fresh, Home
  <2>2. Now' = <<m, inbox, out>>
    BY <1>2, <2>1 DEF Now, wireVars
  <2>3. Settles(x, <<"mine", w>>)
    BY <1>6, <2>2 DEF Settles
  <2>4. \A leaf \in Leaves \ {x} : HomeAsBefore(leaf)
    <3> SUFFICES ASSUME NEW leaf \in Leaves \ {x} PROVE HomeAsBefore(leaf)
      OBVIOUS
    <3>1. <<0, x>> # <<0, leaf>>
      OBVIOUS
    <3> QED BY <1>1, <2>1, <3>1, HomeWhenSeen
  <2>5. OthersStay(x)
    BY <1>4, <2>2, <2>4 DEF OthersStay, Stays
  <2> QED BY <2>3, <2>5
<1>10. CASE home # w
  <2>1. Send(w, inbox, home, Back(x)) /\ UNCHANGED seen
    BY <1>5, <1>8, <1>10, TreeValueAssumption DEF Process, Back
  <2>2. GoodBoxes(inbox) /\ GoodOut /\ home \in Endpoints
    BY WireOfInv, WhoIsWho
  <2>3. Sending(w, inbox, home, Back(x), j, p) /\ Fits("back", "backing", Back(x), x)
    BY <1>2, <2>1, <2>2 DEF Sending, Fits
  <2>4. PutSomewhere(m, inbox, j, p, x, {<<"back", home>>, <<"backing", w>>})
    BY <2>3, SendPuts, Zenon
  <2>8. PICK b \in {<<"back", home>>, <<"backing", w>>} :
          PutOn(<<m, inbox, out>>, <<m, j, p>>, x, b)
    BY <2>4 DEF PutSomewhere
  <2>5. AtMostAt(<<m, j, p>>, x, b) /\ b \in Shelves /\ b[1] \in {"back", "backing"}
    BY <1>6, <2>8, PutThere DEF PutOn
  <2>6. MovesOn(x, <<"mine", w>>, b)
    BY <1>3, <1>6, <2>1, <2>5, SeenAsBefore DEF MovesOn
  <2>7. ASSUME NEW leaf \in Leaves \ {x} PROVE Stays(leaf)
    <3>1. BoxesLess(inbox, j, leaf) /\ QueuesLess(out, p, leaf)
      <4>1. Other(Back(x), leaf)
        BY CopiesDiffer
      <4>2. WiresLess(inbox, j, p, leaf)
        BY <2>3, <4>1, SendOther, Zenon
      <4> QED BY <4>2 DEF WiresLess
    <3>2. Less(<<m, inbox, out>>, <<m, j, p>>, leaf)
      BY <3>1, SameLess, LessByParts
    <3> QED BY <1>3, <1>4, <2>1, <3>2, LessThenLess, SeenAsBefore DEF Stays
  <2> QED BY <2>5, <2>6, <2>7 DEF OthersStay
<1> QED BY <1>9, <1>10

LEMMA StealMailIs ==
  ASSUME NEW w \in Workers, NEW msg \in Mail[w]
  PROVE  /\ msg.tag = "leaf" => \E leaf \in Leaves : OwnerOf[<<0, leaf>>] = w /\ msg = Back(leaf)
         /\ msg.tag = "steal_resp" => msg = StealResp(<<>>) \/ \E leaf \in Leaves : msg = Grant(leaf)
<1>1. msg \in MailOf(w) /\ w # DRIVER
  BY WhoIsWho DEF Mail
<1>2. \/ \E nd \in Nodes : msg = NodeMsg(nd, TreeValue[nd])
      \/ \E leaf \in {x \in Leaves : OwnerOf[<<0, x>>] = w} : msg = LeafMsg(leaf, TreeValue[<<0, leaf>>])
      \/ \E v \in Workers : msg = StealReq(v)
      \/ \E leaves \in {<<>>} \cup {<<leaf>> : leaf \in Leaves} : msg = StealResp(leaves)
      \/ msg \in {DoneMsg, RegistryMsg}
  BY <1>1 DEF MailOf
<1>3. CASE \E leaf \in {x \in Leaves : OwnerOf[<<0, x>>] = w} : msg = LeafMsg(leaf, TreeValue[<<0, leaf>>])
  <2>1. PICK leaf \in Leaves : OwnerOf[<<0, leaf>>] = w /\ msg = Back(leaf)
    BY <1>3 DEF Back
  <2> QED BY <2>1, CopiesDiffer
<1>4. CASE \E leaves \in {<<>>} \cup {<<leaf>> : leaf \in Leaves} : msg = StealResp(leaves)
  <2>1. msg = StealResp(<<>>) \/ \E leaf \in Leaves : msg = Grant(leaf)
    BY <1>4 DEF Grant
  <2>2. msg.tag = "steal_resp"
    BY <1>4 DEF StealResp
  <2> QED BY <2>1, <2>2
<1>5. CASE \E nd \in Nodes : msg = NodeMsg(nd, TreeValue[nd])
  BY <1>5 DEF NodeMsg
<1>6. CASE \E v \in Workers : msg = StealReq(v)
  BY <1>6 DEF StealReq
<1>7. CASE msg \in {DoneMsg, RegistryMsg}
  BY <1>7 DEF DoneMsg, RegistryMsg
<1> QED BY <1>2, <1>3, <1>4, <1>5, <1>6, <1>7

LEMMA HandleLeafTakes ==
  ASSUME IInv, AllAlone, NEW w \in Workers, HandleLeaf(w)
  PROVE  \E x \in Leaves : OthersStay(x) /\ Settles(x, <<"back", w>>)
<1>1. polled[w] > 0 /\ Msg(w).tag = "leaf" /\ UNCHANGED <<mine, out>> /\ inbox' = Taken(w) /\ TypeOK
  BY DEF HandleLeaf, Handling, IInv
<1>2. inbox[w] # <<>> /\ Msg(w) \in Mail[w] /\ w \in Endpoints /\ GoodBoxes(inbox)
  BY <1>1, SomethingPolled, WhoIsWho, WireOfInv
<1>3. PICK x \in Leaves : OwnerOf[<<0, x>>] = w /\ Msg(w) = Back(x)
  BY <1>1, <1>2, StealMailIs
<1> DEFINE then == <<mine, Taken(w), out>>
<1>4. Now' = then
  BY <1>1 DEF Now
<1>5. \A leaf : /\ Less(Now, then, leaf)
                /\ OneCopy(Now, leaf) /\ Msg(w) = Back(leaf) => Takes(Now, then, leaf, <<"back", w>>)
  BY <1>2, BoxTaken DEF Taken, Msg
<1> HIDE DEF then
<1>6. OnlyAt(Now, x, <<"back", w>>) /\ Nowhere(then, x) /\ <<"back", w>> \in Shelves
  BY <1>2, <1>3, <1>5, ShelfIs DEF Takes, AllAlone, Alone
<1>7. ~Home(x)
  BY <1>6 DEF AllAlone, Alone, Nowhere, OnlyAt
<1>8. Msg(w).node = <<0, x>>
  BY <1>3, CopiesDiffer
<1>9. See(w, <<0, x>>)
  BY <1>3, <1>7, <1>8 DEF HandleLeaf, Fresh, Home
<1>10. ASSUME NEW leaf \in Leaves \ {x} PROVE Stays(leaf)
  <2>1. <<0, x>> # <<0, leaf>>
    OBVIOUS
  <2> QED BY <1>1, <1>4, <1>5, <1>9, <2>1, HomeWhenSeen DEF Stays
<1> QED BY <1>4, <1>6, <1>10 DEF OthersStay, Settles

LEMMA GiveMoves ==
  ASSUME IInv, AllAlone, NEW w \in Workers, HandleStealReq(w)
  PROVE  IF MayGive(w)
         THEN \E x \in Leaves :
                /\ OthersStay(x)
                /\ \E b \in Shelves : b[1] \in {"granted", "granting"} /\ MovesOn(x, <<"mine", w>>, b)
         ELSE Unmoved
<1>1. polled[w] > 0 /\ Msg(w).tag = "steal_req" /\ UNCHANGED seen /\ TypeOK
  BY DEF HandleStealReq, Handling, IInv, treeVars
<1>2. /\ inbox[w] # <<>> /\ Msg(w) \in Mail[w] /\ w \in Endpoints /\ GoodBoxes(inbox) /\ GoodOut
      /\ GoodBoxes(Taken(w))
  BY <1>1, SomethingPolled, WhoIsWho, WireOfInv, HandledMessage
<1>3. PICK thief \in Workers : thief = Msg(w).thief
  BY <1>1, <1>2, MailByTag
<1>4. \A leaf : BoxesLess(inbox, Taken(w), leaf)
  BY <1>2, BoxTaken DEF Taken
<1>5. PICK m, j, p, boxes : m = mine' /\ j = inbox' /\ p = out' /\ boxes = Taken(w)
  OBVIOUS
<1>6. Now' = <<m, j, p>> /\ thief \in Endpoints
  BY <1>5, WhoIsWho DEF Now
<1>7. CASE MayGive(w)
  <2>1. /\ mine[w] \in Seq(Leaves) /\ Len(mine[w]) > 1
        /\ TakenFrom(mine[w], FarEnd(mine[w]), AllButFarEnd(mine[w]))
        /\ FarEnd(mine[w]) \in Leaves
    BY <1>1, <1>7, Given DEF MayGive, TypeOK, TakenFrom, FarEnd, AllButFarEnd
  <2>2. PICK x \in Leaves : x = FarEnd(mine[w])
    BY <2>1
  <2>3. /\ m = [mine EXCEPT ![w] = AllButFarEnd(mine[w])]
        /\ Send(w, boxes, thief, Grant(x))
    BY <1>1, <1>3, <1>5, <1>7, <2>2 DEF HandleStealReq, Grant, TypeOK
  <2>4. \A leaf : /\ Less(Now, <<m, boxes, out>>, leaf)
                  /\ OneCopy(Now, leaf) /\ leaf = x => Takes(Now, <<m, boxes, out>>, leaf, <<"mine", w>>)
    BY <1>1, <1>4, <1>5, <2>1, <2>2, <2>3, MineTaken
  <2>5. OnlyAt(Now, x, <<"mine", w>>) /\ Nowhere(<<m, boxes, out>>, x) /\ <<"mine", w>> \in Shelves
    BY <2>4, ShelfIs DEF Takes, AllAlone, Alone
  <2>6. Sending(w, boxes, thief, Grant(x), j, p) /\ Fits("granted", "granting", Grant(x), x)
    BY <1>2, <1>5, <1>6, <2>3 DEF Sending, Fits
  <2>7. PutSomewhere(m, boxes, j, p, x, {<<"granted", thief>>, <<"granting", w>>})
    BY <2>6, SendPuts, Zenon
  <2>11. PICK b \in {<<"granted", thief>>, <<"granting", w>>} :
           PutOn(<<m, boxes, out>>, <<m, j, p>>, x, b)
    BY <2>7 DEF PutSomewhere
  <2>8. AtMostAt(<<m, j, p>>, x, b) /\ b \in Shelves /\ b[1] \in {"granted", "granting"}
    BY <2>5, <2>11, PutThere DEF PutOn
  <2>9. MovesOn(x, <<"mine", w>>, b)
    BY <1>1, <1>6, <2>5, <2>8, SeenAsBefore DEF MovesOn
  <2>10. ASSUME NEW leaf \in Leaves \ {x} PROVE Stays(leaf)
    <3>1. BoxesLess(boxes, j, leaf) /\ QueuesLess(out, p, leaf)
      <4>1. Other(Grant(x), leaf)
        BY CopiesDiffer
      <4>2. WiresLess(boxes, j, p, leaf)
        BY <2>6, <4>1, SendOther, Zenon
      <4> QED BY <4>2 DEF WiresLess
    <3>2. Less(<<m, boxes, out>>, <<m, j, p>>, leaf)
      BY <3>1, SameLess, LessByParts
    <3> QED BY <1>1, <1>6, <2>4, <3>2, LessThenLess, SeenAsBefore DEF Stays
  <2> QED BY <1>7, <2>8, <2>9, <2>10 DEF OthersStay
<1>8. CASE ~MayGive(w)
  <2>1. Send(w, boxes, thief, StealResp(<<>>)) /\ UNCHANGED mine
    BY <1>3, <1>5, <1>8 DEF HandleStealReq
  <2>2. ASSUME NEW leaf \in Leaves PROVE Stays(leaf)
    <3>1. BoxesLess(boxes, j, leaf) /\ QueuesLess(out, p, leaf)
      <4>1. Other(StealResp(<<>>), leaf)
        BY CopiesDiffer
      <4>2. Sending(w, boxes, thief, StealResp(<<>>), j, p)
        BY <1>2, <1>5, <1>6, <2>1 DEF Sending
      <4>3. WiresLess(boxes, j, p, leaf)
        BY <4>1, <4>2, SendOther, Zenon
      <4> QED BY <4>3 DEF WiresLess
    <3>2. BoxesLess(inbox, j, leaf)
      BY <1>4, <1>5, <3>1, BoxesThenBoxes
    <3> QED BY <1>1, <1>5, <2>1, <3>1, <3>2, SeenAsBefore, SameMine, StayByParts
  <2> QED BY <1>8, <2>2 DEF Unmoved
<1> QED BY <1>7, <1>8

LEMMA ReceiveMoves ==
  ASSUME IInv, AllAlone, NEW w \in Workers, HandleStealResp(w)
  PROVE  \/ Msg(w).leaves = <<>> /\ Unmoved
         \/ \E x \in Leaves :
              /\ Msg(w).leaves = <<x>> /\ OthersStay(x)
              /\ MovesOn(x, <<"granted", w>>, <<"mine", w>>)
<1>1. /\ polled[w] > 0 /\ Msg(w).tag = "steal_resp" /\ UNCHANGED <<out, seen>> /\ inbox' = Taken(w)
      /\ TypeOK /\ mine' = [mine EXCEPT ![w] = @ \o Msg(w).leaves]
  BY DEF HandleStealResp, Handling, IInv, treeVars
<1>2. /\ inbox[w] # <<>> /\ Msg(w) \in Mail[w] /\ w \in Endpoints /\ GoodBoxes(inbox)
      /\ mine \in [Workers -> Seq(Leaves)]
  BY <1>1, SomethingPolled, WhoIsWho, WireOfInv DEF TypeOK
<1>3. Msg(w) = StealResp(<<>>) \/ \E leaf \in Leaves : Msg(w) = Grant(leaf)
  BY <1>1, <1>2, StealMailIs
<1>4. PICK m, boxes : m = mine' /\ boxes = Taken(w)
  OBVIOUS
<1> DEFINE then == <<mine, boxes, out>>
<1>5. Now' = <<m, boxes, out>>
  BY <1>1, <1>4 DEF Now
<1>6. \A leaf : /\ BoxesLess(inbox, boxes, leaf) /\ Less(Now, then, leaf)
                /\ OneCopy(Now, leaf) /\ Msg(w) = Grant(leaf) => Takes(Now, then, leaf, <<"granted", w>>)
  BY <1>2, <1>4, BoxTaken DEF Taken, Msg
<1>7. CASE Msg(w) = StealResp(<<>>)
  <2>1. Msg(w).leaves = <<>>
    BY <1>7 DEF StealResp
  <2>2. m = mine
    <3>1. mine[w] \o <<>> = mine[w]
      BY <1>2
    <3> QED BY <1>1, <1>2, <1>4, <2>1, <3>1
  <2> QED BY <1>1, <1>5, <1>6, <2>1, <2>2, SeenAsBefore DEF Unmoved, Stays
<1>8. ASSUME NEW x \in Leaves, Msg(w) = Grant(x)
      PROVE  /\ Msg(w).leaves = <<x>> /\ OthersStay(x)
             /\ MovesOn(x, <<"granted", w>>, <<"mine", w>>)
  <2>1. Msg(w).leaves = <<x>>
    BY <1>8, CopiesDiffer
  <2>2. m = [mine EXCEPT ![w] = @ \o <<x>>]
    BY <1>1, <1>4, <2>1
  <2> HIDE DEF then
  <2>3. OnlyAt(Now, x, <<"granted", w>>) /\ Nowhere(then, x)
    BY <1>6, <1>8 DEF Takes, AllAlone, Alone
  <2>4. PutOn(then, <<m, boxes, out>>, x, <<"mine", w>>)
    BY <1>2, <2>2, MineAppended DEF then
  <2>5. AtMostAt(<<m, boxes, out>>, x, <<"mine", w>>)
    BY <2>3, <2>4, PutThere
  <2>6. MovesOn(x, <<"granted", w>>, <<"mine", w>>)
    BY <1>1, <1>2, <1>5, <2>3, <2>5, ShelfIs, SeenAsBefore DEF MovesOn
  <2>7. ASSUME NEW leaf \in Leaves \ {x} PROVE Stays(leaf)
    <3>1. MineLess(mine, m, leaf)
      BY <1>2, <2>2, MineAppended
    <3>2. Less(then, <<m, boxes, out>>, leaf)
      BY <3>1, SameLess, LessByParts DEF then
    <3> QED BY <1>1, <1>5, <1>6, <3>2, LessThenLess, SeenAsBefore DEF Stays
  <2> QED BY <2>1, <2>6, <2>7 DEF OthersStay
<1> QED BY <1>3, <1>7, <1>8

(* A post moves at most one leaf, from the sender's queue to the inbox.       *)
PostMoves(e) ==
  \/ Unmoved
  \/ \E x \in Leaves : \E f \in Endpoints :
       /\ OthersStay(x)
       /\ \/ MovesOn(x, <<"granting", e>>, <<"granted", f>>)
          \/ MovesOn(x, <<"backing", e>>, <<"back", f>>)
LEMMA PostMovesOne ==
  ASSUME IInv, AllAlone, NEW e \in Endpoints, Post(e)
  PROVE  PostMoves(e)
<1>1. /\ out[e] # <<>> /\ Deliver(Head(out[e])) /\ out' = [out EXCEPT ![e] = Tail(@)]
      /\ UNCHANGED <<mine, seen>> /\ GoodBoxes(inbox) /\ GoodOut
  BY WireOfInv DEF Post, Pop, loopVars, treeVars
<1>2. out[e] \in Seq(Posts) /\ Head(out[e]) \in Posts
  BY <1>1 DEF GoodOut
<1>3. PICK to, msg : to = Head(out[e]).to /\ msg = Head(out[e]).msg /\ to \in Endpoints
  BY <1>2, PostIs
<1>4. PICK boxes, queues : boxes = inbox' /\ queues = out'
  OBVIOUS
<1>5. boxes = [inbox EXCEPT ![to] = Append(@, msg)] /\ queues = [out EXCEPT ![e] = Tail(@)]
  BY <1>1, <1>3, <1>4 DEF Deliver
<1> DEFINE then == <<mine, inbox, queues>>
<1>6. Now' = <<mine, boxes, queues>>
  BY <1>1, <1>4 DEF Now
<1>7. \A leaf : /\ Less(Now, then, leaf)
                /\ OneCopy(Now, leaf) /\ msg = Grant(leaf) => Takes(Now, then, leaf, <<"granting", e>>)
                /\ OneCopy(Now, leaf) /\ msg = Back(leaf) => Takes(Now, then, leaf, <<"backing", e>>)
  BY <1>1, <1>3, <1>5, QueuePopped
<1>8. ASSUME NEW leaf, Other(msg, leaf) PROVE Stays(leaf)
  <2>1. BoxesLess(inbox, boxes, leaf)
    BY <1>1, <1>3, <1>5, <1>8, BoxAppended
  <2>2. Less(then, <<mine, boxes, queues>>, leaf)
    BY <2>1, SameLess, LessByParts
  <2> HIDE DEF then
  <2> QED BY <1>1, <1>6, <1>7, <2>2, LessThenLess, SeenAsBefore DEF Stays
<1>9. ASSUME NEW x \in Leaves, msg = Grant(x)
      PROVE  OthersStay(x) /\ MovesOn(x, <<"granting", e>>, <<"granted", to>>)
  <2>1. PutOn(then, <<mine, boxes, queues>>, x, <<"granted", to>>)
    BY <1>1, <1>3, <1>5, <1>9, BoxAppended
  <2> HIDE DEF then
  <2>2. OnlyAt(Now, x, <<"granting", e>>) /\ Nowhere(then, x)
    BY <1>7, <1>9 DEF Takes, AllAlone, Alone
  <2>3. AtMostAt(<<mine, boxes, queues>>, x, <<"granted", to>>)
    BY <2>1, <2>2, PutThere
  <2>4. MovesOn(x, <<"granting", e>>, <<"granted", to>>)
    BY <1>1, <1>3, <1>6, <2>2, <2>3, ShelfIs, SeenAsBefore DEF MovesOn
  <2>5. \A leaf \in Leaves \ {x} : Other(msg, leaf)
    BY <1>9, CopiesDiffer
  <2> QED BY <1>8, <2>4, <2>5 DEF OthersStay
<1>10. ASSUME NEW x \in Leaves, msg = Back(x)
       PROVE  OthersStay(x) /\ MovesOn(x, <<"backing", e>>, <<"back", to>>)
  <2>1. PutOn(then, <<mine, boxes, queues>>, x, <<"back", to>>)
    BY <1>1, <1>3, <1>5, <1>10, BoxAppended
  <2> HIDE DEF then
  <2>2. OnlyAt(Now, x, <<"backing", e>>) /\ Nowhere(then, x)
    BY <1>7, <1>10 DEF Takes, AllAlone, Alone
  <2>3. AtMostAt(<<mine, boxes, queues>>, x, <<"back", to>>)
    BY <2>1, <2>2, PutThere
  <2>4. MovesOn(x, <<"backing", e>>, <<"back", to>>)
    BY <1>1, <1>3, <1>6, <2>2, <2>3, ShelfIs, SeenAsBefore DEF MovesOn
  <2>5. \A leaf \in Leaves \ {x} : Other(msg, leaf)
    BY <1>10, CopiesDiffer
  <2> QED BY <1>8, <2>4, <2>5 DEF OthersStay
<1>11. \/ \E x \in Leaves : msg = Grant(x)
       \/ \E x \in Leaves : msg = Back(x)
       \/ \A leaf \in Leaves : Other(msg, leaf)
  BY DEF Other
<1> QED BY <1>3, <1>8, <1>9, <1>10, <1>11 DEF PostMoves, Unmoved

LEMMA GiveUpStays ==
  ASSUME IInv, NEW e \in Endpoints, GiveUp(e)
  PROVE  Unmoved
<1>1. out[e] # <<>> /\ out' = [out EXCEPT ![e] = Tail(@)] /\ UNCHANGED <<mine, inbox, seen>> /\ GoodOut
  BY WireOfInv DEF GiveUp, Pop, loopVars, treeVars
<1>2. PICK queues : queues = out'
  OBVIOUS
<1>3. \A leaf : QueuesLess(out, queues, leaf)
  BY <1>1, <1>2, QueuePopped
<1> QED BY <1>1, <1>2, <1>3, SeenAsBefore, SameMine, SameBoxes, StayByParts DEF Unmoved

(* What the driver sends grants and returns no leaf.                          *)
LEMMA PostingAllLess ==
  ASSUME GoodOut, NEW order \in Seq(Workers), NEW msg \in {DoneMsg, RegistryMsg},
         NEW queues, queues = [out EXCEPT ![DRIVER] = @ \o PostAll(order, msg)]
  PROVE  \A leaf : QueuesLess(out, queues, leaf)
<1>1. \A w \in Workers : msg \in Mail[w]
  BY MailFacts
<1>2. PostAll(order, msg) \in Seq(Posts) /\ out[DRIVER] \in Seq(Posts)
  BY <1>1, PostAllType, WhoIsWho DEF GoodOut
<1>3. \A i \in 1 .. Len(PostAll(order, msg)) : PostAll(order, msg)[i].msg = msg
  <2>1. DOMAIN PostAll(order, msg) = 1 .. Len(PostAll(order, msg))
    BY <1>2
  <2> QED BY <2>1 DEF PostAll
<1>4. PICK more : more = PostAll(order, msg)
  OBVIOUS
<1>5. msg.tag \notin {"leaf", "steal_resp"}
  BY DEF DoneMsg, RegistryMsg
<1> SUFFICES ASSUME NEW leaf PROVE QueuesLess(out, queues, leaf)
  OBVIOUS
<1>6. \A these \in {Posted(Grant(leaf)), Posted(Back(leaf))} : ~Holds(more, these)
  BY <1>3, <1>4, <1>5, PostedIs, CopiesDiffer DEF Holds
<1>7. \A these \in {Posted(Grant(leaf)), Posted(Back(leaf))} : NoMore(out[DRIVER], out[DRIVER] \o more, these)
  BY <1>2, <1>4, <1>6, ConcatNoMore
<1>8. /\ queues[DRIVER] = out[DRIVER] \o more
      /\ \A e \in Endpoints \ {DRIVER} : queues[e] = out[e]
  BY <1>4, WhoIsWho DEF GoodOut
<1> QED BY <1>7, <1>8, SameNoMore DEF QueuesLess

LEMMA BroadcastLess ==
  ASSUME IInv, BroadcastDone
  PROVE  \A leaf : BoxesLess(inbox, inbox', leaf) /\ QueuesLess(out, out', leaf)
<1>1. GoodBoxes(inbox) /\ GoodOut /\ known \in Seq(Workers) /\ DRIVER \in Endpoints
  BY WireOfInv, WhoIsWho DEF TypeOK
<1>2. PICK boxes, queues : boxes = inbox' /\ queues = out'
  OBVIOUS
<1>3. CASE Async
  <2>1. boxes = inbox /\ queues = [out EXCEPT ![DRIVER] = @ \o PostAll(known, DoneMsg)]
    BY <1>2, <1>3 DEF BroadcastDone
  <2> QED BY <1>1, <1>2, <2>1, PostingAllLess, SameLess
<1>4. CASE ~Async
  <2>1. /\ boxes = [e \in Endpoints |-> IF e \in Workers THEN Append(inbox[e], DoneMsg) ELSE inbox[e]]
        /\ queues = out
    BY <1>2, <1>4 DEF BroadcastDone
  <2>2. ASSUME NEW leaf PROVE BoxesLess(inbox, boxes, leaf)
    <3>1. Other(DoneMsg, leaf)
      BY CopiesDiffer DEF DoneMsg
    <3>2. DoneMsg \notin {Grant(leaf)} /\ DoneMsg \notin {Back(leaf)}
      BY <3>1 DEF Other
    <3>3. \A e \in Endpoints : boxes[e] = inbox[e] \/ boxes[e] = Append(inbox[e], DoneMsg)
      BY <2>1
    <3>4. \A e \in Endpoints : inbox[e] \in Seq(Mail[e])
      BY <1>1 DEF GoodBoxes
    <3>5. ASSUME NEW e \in Endpoints, NEW these, DoneMsg \notin these
          PROVE  NoMore(inbox[e], boxes[e], these)
      BY <3>3, <3>4, <3>5, SameNoMore, AppendNoMore
    <3> QED BY <3>2, <3>5 DEF BoxesLess
  <2> QED BY <1>2, <2>1, <2>2, SameLess
<1> QED BY <1>3, <1>4

LEMMA DriverStays ==
  ASSUME IInv, Driver
  PROVE  Unmoved
<1>1. UNCHANGED <<mine, seen>>
  BY DEF Driver, GatherHello, SendRegistry, HandshakeFails, CollectRoot, CollectOther, SeesError,
         DeadlinePasses, Join, JoinRaises, Teardown, Shutdown, loopVars, treeVars
<1>2. ASSUME \A leaf : BoxesLess(inbox, inbox', leaf) /\ QueuesLess(out, out', leaf)
      PROVE  Unmoved
  BY <1>1, <1>2, SeenAsBefore, SameMine, StayByParts DEF Unmoved
<1>3. CASE GatherHello \/ CollectOther
  <2>1. PICK tag : Hears(tag) /\ Heard /\ UNCHANGED out
    BY <1>3 DEF GatherHello, CollectOther
  <2>2. inbox[DRIVER] # <<>> /\ inbox' = [inbox EXCEPT ![DRIVER] = Tail(@)] /\ DRIVER \in Endpoints
    BY <2>1, WhoIsWho DEF Hears, Heard
  <2> QED BY <1>2, <2>1, <2>2, TakingLess, SameQueues
<1>4. CASE SendRegistry
  <2>1. UNCHANGED inbox /\ out' = [out EXCEPT ![DRIVER] = @ \o PostAll(InOrder, RegistryMsg)] /\ GoodOut
    BY <1>4, WireOfInv DEF SendRegistry, RegistryOrder
  <2>2. PICK queues : queues = out'
    OBVIOUS
  <2>3. \A leaf : QueuesLess(out, queues, leaf)
    BY <2>1, <2>2, InOrderType, PostingAllLess
  <2> QED BY <1>2, <2>1, <2>2, <2>3, SameBoxes
<1>5. CASE CollectRoot \/ SeesError
  BY <1>2, <1>5, BroadcastLess DEF CollectRoot, SeesError
<1>6. CASE DeadlinePasses
  BY <1>2, <1>6, BroadcastLess, SameBoxes, SameQueues DEF DeadlinePasses, wireVars
<1>7. CASE HandshakeFails \/ JoinRaises \/ Shutdown
  BY <1>2, <1>7, SameBoxes, SameQueues DEF HandshakeFails, JoinRaises, Shutdown, wireVars
<1>8. CASE Join \/ Teardown
  <2>1. PICK queues : queues = out'
    OBVIOUS
  <2>2. \A e \in Endpoints : queues[e] \in {<<>>, out[e]}
    BY <1>8, <2>1 DEF Join, Teardown, CloseTransports
  <2>3. \A leaf : QueuesLess(out, queues, leaf)
    BY <2>2, SameNoMore, EmptyNoMore DEF QueuesLess
  <2>4. UNCHANGED inbox
    BY <1>8 DEF Join, Teardown
  <2> QED BY <1>2, <2>1, <2>3, <2>4, SameBoxes
<1> QED BY <1>3, <1>4, <1>5, <1>6, <1>7, <1>8 DEF Driver

-----------------------------------------------------------------------------
(* Without repeats no leaf is ever in two places.                            *)

LEMMA RangeOnce ==
  ASSUME NEW w \in Workers
  PROVE  \A j, k \in DOMAIN LeafRange(N, W, w) : LeafRange(N, W, w)[j] = LeafRange(N, W, w)[k] => j = k
<1> DEFINE lo == MakeBounds(N, W)[w]
           hi == MakeBounds(N, W)[w+1]
<1>1. w \in 0 .. W /\ N \in Nat \ {0} /\ W \in 1 .. N
  BY SizeAssumption DEF Workers
<1>2. lo \in Nat
  BY <1>1, BoundsAscend
<1>3. LeafRange(N, W, w) = [k \in 1 .. hi - lo |-> lo + k - 1]
  BY DEF LeafRange
<1> HIDE DEF lo, hi
<1> QED BY <1>2, <1>3

LEMMA InitShelves ==
  ASSUME Init, NEW leaf \in Leaves
  PROVE  /\ AtMostAt(Now, leaf, <<"mine", OwnerOf[<<0, leaf>>]>>)
         /\ On(Now, <<"mine", OwnerOf[<<0, leaf>>]>>, leaf)
<1>1. PICK home \in Workers : home = OwnerOf[<<0, leaf>>]
  BY LeafNode, OwnerIsWorker
<1>2. Now[1] = mine /\ Now[2] = inbox /\ Now[3] = out
  BY DEF Now
<1>3. ASSUME NEW w \in Workers
      PROVE  /\ On(Now, <<"mine", w>>, leaf) <=> w = home
             /\ Single(Stock(Now, <<"mine", w>>), Copies(<<"mine", w>>, leaf))
  <2>1. Stock(Now, <<"mine", w>>) = mine[w] /\ Copies(<<"mine", w>>, leaf) = {leaf}
    BY <1>2, StockIs, CopiesAre
  <2>2. mine[w] = LeafRange(N, W, w) /\ mine[w] \in Seq(Leaves)
    BY LeafRangeType DEF Init
  <2>3. DOMAIN mine[w] = 1 .. Len(mine[w])
    BY <2>2
  <2>4. leaf \in ToSet(mine[w]) <=> w = home
    BY <1>1, InitLeaves
  <2>5. Single(mine[w], {leaf})
    BY <2>2, <2>3, RangeOnce DEF Single
  <2> QED BY <2>1, <2>3, <2>4, <2>5 DEF On, Holds, ToSet
<1>4. ASSUME NEW e \in Endpoints, NEW a \in {<<"granted", e>>, <<"granting", e>>, <<"back", e>>, <<"backing", e>>}
      PROVE  ~On(Now, a, leaf)
  <2>1. CASE a \in {<<"granted", e>>, <<"back", e>>}
    <3>1. Stock(Now, a) = <<>>
      BY <1>2, <2>1, StockIs DEF Init
    <3> QED BY <3>1, EmptyNoMore DEF On
  <2>2. CASE a \in {<<"granting", e>>, <<"backing", e>>}
    <3>1. Stock(Now, a) = out[e] /\ Copies(a, leaf) \in {Posted(Grant(leaf)), Posted(Back(leaf))}
      BY <1>2, <2>2, StockIs, CopiesAre
    <3>2. \A i \in 1 .. Len(out[e]) : out[e][i].msg.tag = "hello"
      <4>1. CASE out[e] = <<>>
        BY <4>1
      <4>2. CASE out[e] = <<[to |-> DRIVER, msg |-> HelloMsg(e)]>>
        BY <4>2 DEF HelloMsg
      <4> QED BY <4>1, <4>2 DEF Init
    <3>3. \A p \in Posted(Grant(leaf)) \cup Posted(Back(leaf)) : p.msg.tag # "hello"
      BY PostedIs, CopiesDiffer
    <3> QED BY <3>1, <3>2, <3>3 DEF On, Holds
  <2> QED BY <2>1, <2>2
<1>5. \A c \in Shelves : On(Now, c, leaf) => c = <<"mine", home>>
  BY <1>3, <1>4, ShelfIs
<1> QED BY <1>1, <1>3, <1>5 DEF AtMostAt

LEMMA InitHome ==
  ASSUME Init, NEW leaf \in Leaves
  PROVE  ~Home(leaf)
BY LeafNode, OwnerIsWorker DEF Init, Home

LEMMA InitAlone ==
  ASSUME Init
  PROVE  UInv
<1>1. ASSUME NEW leaf \in Leaves PROVE Alone(leaf)
  BY InitShelves, ThereIsOne, InitHome DEF Alone
<1> QED BY <1>1 DEF UInv, AllAlone

(* What a step does to the leaves, all told.                                 *)
Travels(x, from, to) ==
  \E a, b \in Shelves : a[1] \in from /\ b[1] \in to /\ OthersStay(x) /\ MovesOn(x, a, b)
GoesHome(x, from) == \E a \in Shelves : a[1] \in from /\ OthersStay(x) /\ Settles(x, a)
LeafStep ==
  \/ Unmoved
  \/ \E x \in Leaves : \E from, to : Travels(x, from, to) \/ GoesHome(x, from)

LEMMA StepAlone ==
  ASSUME AllAlone, LeafStep
  PROVE  AllAlone'
<1>1. CASE Unmoved
  BY <1>1, StayingAlone DEF AllAlone, Unmoved
<1>2. ASSUME NEW x \in Leaves, OthersStay(x), Alone(x)' PROVE AllAlone'
  <2>1. \A leaf \in Leaves \ {x} : Alone(leaf)'
    BY <1>2, StayingAlone DEF AllAlone, OthersStay
  <2> QED BY <1>2, <2>1 DEF AllAlone
<1>3. ASSUME NEW x \in Leaves, NEW from, NEW to, Travels(x, from, to) PROVE AllAlone'
  BY <1>2, <1>3, MovingAlone DEF Travels, AllAlone
<1>4. ASSUME NEW x \in Leaves, NEW from, GoesHome(x, from) PROVE AllAlone'
  BY <1>2, <1>4, SettlingAlone DEF GoesHome
<1> QED BY <1>1, <1>3, <1>4 DEF LeafStep

LEMMA WorkerMoves ==
  ASSUME IInv, FInv, AllAlone, NEW w \in Workers, Worker(w)
  PROVE  /\ (Settle(w) \/ Poll(w) \/ Recv(w) \/ AskSteal(w) \/ HandleNode(w) \/ HandleDone(w)
               \/ HandleOther(w) \/ Await(w) \/ ProcessRaises(w)) => Unmoved
         /\ Process(w) => \E x \in Leaves : \/ GoesHome(x, {"mine"})
                                            \/ Travels(x, {"mine"}, {"back", "backing"})
         /\ HandleLeaf(w) => \E x \in Leaves : GoesHome(x, {"back"})
         /\ HandleStealReq(w) => IF MayGive(w) THEN \E x \in Leaves : Travels(x, {"mine"}, {"granted", "granting"})
                                               ELSE Unmoved
         /\ HandleStealResp(w) => \/ Msg(w).leaves = <<>> /\ Unmoved
                                  \/ \E x \in Leaves : Msg(w).leaves = <<x>> /\ Travels(x, {"granted"}, {"mine"})
<1>1. /\ <<"mine", w>> \in Shelves /\ <<"granted", w>> \in Shelves /\ <<"back", w>> \in Shelves
  BY ShelfIs, WhoIsWho
<1>2. <<"mine", w>>[1] = "mine" /\ <<"granted", w>>[1] = "granted" /\ <<"back", w>>[1] = "back"
  OBVIOUS
<1>3. (Settle(w) \/ Poll(w) \/ Recv(w) \/ AskSteal(w) \/ HandleNode(w) \/ HandleDone(w)
         \/ HandleOther(w) \/ Await(w) \/ ProcessRaises(w)) => Unmoved
  BY SettleStays, QuietWorkerStays, HandleNodeStays, ProcessRaisesStays
<1>4. ASSUME Process(w)
      PROVE  \E x \in Leaves : GoesHome(x, {"mine"}) \/ Travels(x, {"mine"}, {"back", "backing"})
  <2>1. PICK x \in Leaves :
          /\ OthersStay(x)
          /\ \/ Settles(x, <<"mine", w>>)
             \/ \E b \in Shelves : b[1] \in {"back", "backing"} /\ MovesOn(x, <<"mine", w>>, b)
    BY <1>4, ProcessTakes
  <2> QED BY <1>1, <1>2, <2>1 DEF GoesHome, Travels
<1>5. ASSUME HandleLeaf(w) PROVE \E x \in Leaves : GoesHome(x, {"back"})
  BY <1>1, <1>2, <1>5, HandleLeafTakes DEF GoesHome
<1>6. ASSUME HandleStealReq(w), MayGive(w) PROVE \E x \in Leaves : Travels(x, {"mine"}, {"granted", "granting"})
  <2>1. PICK x \in Leaves :
          /\ OthersStay(x)
          /\ \E b \in Shelves : b[1] \in {"granted", "granting"} /\ MovesOn(x, <<"mine", w>>, b)
    BY <1>6, GiveMoves
  <2> QED BY <1>1, <1>2, <2>1 DEF Travels
<1>7. ASSUME HandleStealReq(w), ~MayGive(w) PROVE Unmoved
  BY <1>7, GiveMoves
<1>8. ASSUME HandleStealResp(w)
      PROVE  \/ Msg(w).leaves = <<>> /\ Unmoved
             \/ \E x \in Leaves : Msg(w).leaves = <<x>> /\ Travels(x, {"granted"}, {"mine"})
  <2>1. CASE Msg(w).leaves = <<>> /\ Unmoved
    BY <2>1
  <2>2. ASSUME NEW x \in Leaves, Msg(w).leaves = <<x>>, OthersStay(x),
               MovesOn(x, <<"granted", w>>, <<"mine", w>>)
        PROVE  Travels(x, {"granted"}, {"mine"})
    BY <1>1, <1>2, <2>2 DEF Travels
  <2> QED BY <1>8, <2>1, <2>2, ReceiveMoves
<1> QED BY <1>3, <1>4, <1>5, <1>6, <1>7, <1>8

LEMMA SenderMoves ==
  ASSUME IInv, AllAlone, NEW e \in Endpoints, Post(e) \/ GiveUp(e)
  PROVE  \/ Unmoved
         \/ \E x \in Leaves : \/ Travels(x, {"granting"}, {"granted"})
                              \/ Travels(x, {"backing"}, {"back"})
<1>1. CASE GiveUp(e)
  BY <1>1, GiveUpStays
<1>2. CASE Post(e)
  <2>1. ASSUME NEW x \in Leaves, NEW f \in Endpoints, OthersStay(x),
               MovesOn(x, <<"granting", e>>, <<"granted", f>>)
        PROVE  Travels(x, {"granting"}, {"granted"})
    <3>1. <<"granting", e>>[1] = "granting" /\ <<"granted", f>>[1] = "granted"
      OBVIOUS
    <3> QED BY <2>1, <3>1, ShelfIs DEF Travels
  <2>2. ASSUME NEW x \in Leaves, NEW f \in Endpoints, OthersStay(x),
               MovesOn(x, <<"backing", e>>, <<"back", f>>)
        PROVE  Travels(x, {"backing"}, {"back"})
    <3>1. <<"backing", e>>[1] = "backing" /\ <<"back", f>>[1] = "back"
      OBVIOUS
    <3> QED BY <2>2, <3>1, ShelfIs DEF Travels
  <2> QED BY <1>2, <2>1, <2>2, PostMovesOne DEF PostMoves
<1> QED BY <1>1, <1>2

LEMMA NextAlone ==
  ASSUME IInv, FInv, UInv, [Next]_vars
  PROVE  UInv'
<1>1. ASSUME repeats = 0, LeafStep PROVE UInv'
  BY <1>1, StepAlone DEF UInv
<1>2. ASSUME NEW w \in Workers, Worker(w) PROVE UInv'
  <2>1. repeats' = repeats
    BY <1>2 DEF Worker, Settle, Handle, Await, SettleRoot, SettleCarry, SettleShip, SettlePark, SettleCombine,
         Poll, Recv, AskSteal, ProcessRaises, Process, HandleNode, HandleLeaf, HandleStealReq, HandleStealResp,
         HandleDone, HandleOther, faultVars
  <2> SUFFICES ASSUME repeats = 0 PROVE UInv'
    BY <2>1 DEF UInv
  <2>2. AllAlone
    BY DEF UInv
  <2>3. LeafStep
    BY <1>2, <2>2, WorkerMoves DEF LeafStep, Worker, Handle
  <2> QED BY <1>1, <2>3
<1>3. ASSUME NEW e \in Endpoints, Post(e) \/ GiveUp(e) PROVE UInv'
  <2>1. repeats' = repeats
    BY <1>3 DEF Post, GiveUp, faultVars
  <2> SUFFICES ASSUME repeats = 0 PROVE UInv'
    BY <2>1 DEF UInv
  <2>2. AllAlone
    BY DEF UInv
  <2>3. LeafStep
    BY <1>3, <2>2, SenderMoves DEF LeafStep
  <2> QED BY <1>1, <2>3
<1>4. ASSUME NEW e \in Endpoints, PostUnacknowledged(e) PROVE UInv'
  <2>1. repeats \in Nat /\ repeats' = repeats + 1
    BY <1>4 DEF PostUnacknowledged, IInv, TypeOK
  <2>2. repeats' # 0
    BY <2>1
  <2> QED BY <2>2 DEF UInv
<1>5. CASE Driver
  <2>1. repeats' = repeats
    BY <1>5 DEF Driver, GatherHello, SendRegistry, HandshakeFails, CollectRoot, CollectOther, SeesError,
       DeadlinePasses, Join, JoinRaises, Teardown, Shutdown, faultVars
  <2> SUFFICES ASSUME repeats = 0 PROVE UInv'
    BY <2>1 DEF UInv
  <2>2. LeafStep
    BY <1>5, DriverStays DEF LeafStep
  <2> QED BY <1>1, <2>2
<1>6. CASE Finished \/ UNCHANGED vars
  <2>1. UNCHANGED <<mine, inbox, out, seen, repeats>>
    BY <1>6 DEF Finished, vars, loopVars, wireVars, treeVars, faultVars
  <2> SUFFICES ASSUME repeats = 0 PROVE UInv'
    BY <2>1 DEF UInv
  <2>2. LeafStep
    BY <2>1, StillStays DEF LeafStep
  <2> QED BY <1>1, <2>2
<1> QED BY <1>2, <1>3, <1>4, <1>5, <1>6 DEF Next

(* While no message was delivered twice, a leaf is in one place at most: with *)
(* one worker, in one message, or settled.                                   *)
THEOREM AloneInvariant == Spec => [](IInv /\ FInv /\ UInv)
<1>1. Init => UInv
  BY InitAlone
<1>2. IInv /\ FInv /\ UInv /\ [Next]_vars => UInv'
  BY NextAlone
<1> QED BY <1>1, <1>2, ForestInvariant, PTL DEF Spec

LEMMA RootAllHome ==
  ASSUME RootIsAlone, RootFormed, AllAlone, NEW leaf \in Leaves
  PROVE  Home(leaf) /\ Nowhere(Now, leaf)
<1>1. PICK home \in Workers : home = OwnerOf[<<0, leaf>>]
  BY LeafNode, OwnerIsWorker
<1>2. <<0, leaf>> \notin Unsettled(home)
  BY <1>1 DEF RootIsAlone
<1>3. <<0, leaf>> \in seen[home]
  BY <1>1, <1>2 DEF Unsettled
<1> QED BY <1>1, <1>3 DEF Home, AllAlone, Alone

LEMMA RootNoneLeft ==
  ASSUME IInv, RootIsAlone, RootFormed, AllAlone
  PROVE  Unprocessed = {} /\ \A w \in Workers : mine[w] = <<>>
<1>1. \A leaf \in Leaves : \A a \in Shelves : ~On(Now, a, leaf)
  BY RootAllHome DEF Nowhere
<1>2. Now[1] = mine /\ Now[2] = inbox /\ Now[3] = out
  BY DEF Now
<1>3. ASSUME NEW w \in Workers PROVE mine[w] = <<>>
  <2>1. mine[w] \in Seq(Leaves)
    BY DEF IInv, TypeOK
  <2>2. SUFFICES ASSUME mine[w] # <<>> PROVE FALSE
    OBVIOUS
  <2>3. PICK leaf \in Leaves : leaf = mine[w][1] /\ 1 \in 1 .. Len(mine[w])
    BY <2>1, <2>2
  <2>4. <<"mine", w>> \in Shelves /\ Stock(Now, <<"mine", w>>) = mine[w] /\ Copies(<<"mine", w>>, leaf) = {leaf}
    BY <1>2, ShelfIs, StockIs, CopiesAre
  <2> QED BY <1>1, <2>3, <2>4 DEF On, Holds
<1>4. ASSUME NEW w \in Workers, NEW leaf, leaf \in Granted(w) PROVE FALSE
  <2>1. PICK m \in MessagesTo(w) : m.tag = "steal_resp" /\ leaf \in ToSet(m.leaves)
    BY <1>4, GrantedMember
  <2>2. w \in Endpoints /\ GoodBoxes(inbox) /\ GoodOut
    BY WhoIsWho, WireOfInv
  <2>3. m \in Arriving(inbox, out, w)
    BY <2>1, OnTheWay
  <2>4. \/ m \in ToSet(inbox[w])
        \/ \E f \in Endpoints : \E p \in ToSet(out[f]) : p.to = w /\ p.msg = m
    BY <2>3, ArrivingMember
  <2>5. ASSUME NEW x \in Leaves, m = Grant(x) PROVE FALSE
    <3>1. CASE m \in ToSet(inbox[w])
      <4>1. PICK i \in 1 .. Len(inbox[w]) : inbox[w][i] = m
        BY <2>2, <3>1 DEF ToSet, GoodBoxes
      <4>2. /\ <<"granted", w>> \in Shelves /\ Stock(Now, <<"granted", w>>) = inbox[w]
            /\ Copies(<<"granted", w>>, x) = {Grant(x)}
        BY <1>2, <2>2, ShelfIs, StockIs, CopiesAre
      <4> QED BY <1>1, <2>5, <4>1, <4>2 DEF On, Holds
    <3>2. CASE \E f \in Endpoints : \E p \in ToSet(out[f]) : p.to = w /\ p.msg = m
      <4>1. PICK f \in Endpoints : \E p \in ToSet(out[f]) : p.to = w /\ p.msg = m
        BY <3>2
      <4>2. PICK i \in 1 .. Len(out[f]) : out[f][i].msg = m /\ out[f][i] \in Posts
        <5>1. out[f] \in Seq(Posts)
          BY <2>2 DEF GoodOut
        <5>2. DOMAIN out[f] = 1 .. Len(out[f]) /\ \A i \in 1 .. Len(out[f]) : out[f][i] \in Posts
          BY <5>1
        <5> QED BY <4>1, <5>2 DEF ToSet
      <4>3. out[f][i] \in Posted(Grant(x))
        BY <2>5, <4>2, PostedIs
      <4>4. /\ <<"granting", f>> \in Shelves /\ Stock(Now, <<"granting", f>>) = out[f]
            /\ Copies(<<"granting", f>>, x) = Posted(Grant(x))
        BY <1>2, ShelfIs, StockIs, CopiesAre
      <4> QED BY <1>1, <4>2, <4>3, <4>4 DEF On, Holds
    <3> QED BY <2>4, <3>1, <3>2
  <2>6. m \in Mail[w]
    BY <2>1, <2>2, OnTheWay, ArrivingIsMail
  <2>7. m = StealResp(<<>>)
    BY <2>1, <2>5, <2>6, StealMailIs
  <2>8. m.leaves = <<>>
    BY <2>7 DEF StealResp
  <2> QED BY <2>1, <2>8, ElementsOfEmpty
<1>5. \A w \in Workers : Granted(w) = {} /\ ToSet(mine[w]) = {}
  BY <1>3, <1>4, ElementsOfEmpty
<1> QED BY <1>3, <1>5 DEF Unprocessed

(* When the root is in, nothing is left behind: no worker holds a partial or  *)
(* waits for one, none is on the wire, and no leaf is still to be processed  *)
(* or on its way back.  A steal_resp delivered twice can leave a second copy *)
(* of a settled leaf in a thief's deque; hence the condition, which the queue *)
(* transport always meets.                                                   *)
THEOREM NothingStaysBehind == Spec => [](repeats = 0 => NothingLeftBehind)
<1>1. IInv /\ FInv /\ UInv /\ RootIsAlone => (repeats = 0 => NothingLeftBehind)
  <2> SUFFICES ASSUME IInv, FInv, UInv, RootIsAlone, repeats = 0, RootIn
               PROVE  Tokens = {} /\ Unprocessed = {} /\ Returning = {}
    BY DEF NothingLeftBehind
  <2>1. RootFormed /\ AllAlone
    BY DEF RootIn, RootFormed, UInv
  <2> QED BY <2>1, RootNoneLeft DEF RootIsAlone
<1> QED BY <1>1, AloneInvariant, RootComesLast, PTL

-----------------------------------------------------------------------------
(* Leaves on their shelves, counted.                                         *)

Places == {"mine", "granted", "granting", "back", "backing"}
Lying(now, kinds) == {leaf \in Leaves : \E a \in Shelves : a[1] \in kinds /\ On(now, a, leaf)}
Found(leaf) == Home(leaf) \/ ~Nowhere(Now, leaf)
AllFound == \A leaf \in Leaves : Found(leaf)

LEMMA FoundNext == \A leaf : Found(leaf)' <=> Home(leaf)' \/ ~Nowhere(Now', leaf)
BY DEF Found, Nowhere, On, Holds, Stock, Copies, Shelves

(* What a leaf that goes from these places to those does to the count.        *)
SameShelves(s, t, leaf) == \A a \in Shelves : On(t, a, leaf) <=> On(s, a, leaf)
Shift(s, t, x, from, to) ==
  \A kinds \in SUBSET Places :
    /\ from \subseteq kinds => x \in Lying(s, kinds)
    /\ from \cap kinds = {} => x \notin Lying(s, kinds)
    /\ to \subseteq kinds => Lying(t, kinds) = Lying(s, kinds) \cup {x}
    /\ to \cap kinds = {} => Lying(t, kinds) = Lying(s, kinds) \ {x}

LEMMA StaysFound ==
  ASSUME NEW leaf, Alone(leaf), Stays(leaf), Found(leaf)'
  PROVE  Found(leaf) /\ SameShelves(Now, Now', leaf)
<1>1. PICK s, t : s = Now /\ t = Now'
  OBVIOUS
<1>2. /\ OneCopy(s, leaf) /\ (Home(leaf) => Nowhere(s, leaf)) /\ Less(s, t, leaf)
      /\ Home(leaf) \/ ~Nowhere(t, leaf)
  BY <1>1, FoundNext DEF Alone, Stays, HomeAsBefore
<1>3. \A a \in Shelves : On(t, a, leaf) => On(s, a, leaf)
  BY <1>2 DEF Less, NoMore, On
<1>4. Home(leaf) \/ ~Nowhere(s, leaf)
  BY <1>2, <1>3 DEF Nowhere
<1>5. SameShelves(s, t, leaf)
  <2>1. CASE Home(leaf)
    BY <1>2, <1>3, <2>1 DEF SameShelves, Nowhere
  <2>2. CASE ~Home(leaf)
    BY <1>2, <1>3, <2>2 DEF SameShelves, Nowhere, OneCopy
  <2> QED BY <2>1, <2>2
<1> QED BY <1>1, <1>4, <1>5 DEF Found

LEMMA UnmovedLying ==
  ASSUME AllAlone, Unmoved, AllFound'
  PROVE  AllFound /\ \A kinds : Lying(Now', kinds) = Lying(Now, kinds)
<1>1. PICK s, t : s = Now /\ t = Now'
  OBVIOUS
<1>2. \A leaf \in Leaves : Found(leaf) /\ SameShelves(s, t, leaf)
  BY <1>1, StaysFound DEF AllAlone, Unmoved, AllFound
<1>3. \A kinds : Lying(t, kinds) = Lying(s, kinds)
  BY <1>2 DEF Lying, SameShelves
<1> QED BY <1>1, <1>2, <1>3 DEF AllFound

LEMMA OthersLying ==
  ASSUME AllAlone, AllFound', NEW x \in Leaves, OthersStay(x), ~Nowhere(Now, x)
  PROVE  AllFound /\ \A leaf \in Leaves \ {x} : SameShelves(Now, Now', leaf)
<1>1. \A leaf \in Leaves \ {x} : Found(leaf) /\ SameShelves(Now, Now', leaf)
  BY StaysFound DEF AllAlone, OthersStay, AllFound
<1>2. Found(x)
  BY DEF Found
<1> QED BY <1>1, <1>2 DEF AllFound

LEMMA ShiftIs ==
  ASSUME NEW s, NEW t, NEW x \in Leaves, \A leaf \in Leaves \ {x} : SameShelves(s, t, leaf),
         NEW a \in Shelves, OnlyAt(s, x, a), NEW from, a[1] \in from, NEW to,
         \/ to = {"home"} /\ Nowhere(t, x)
         \/ \E b \in Shelves : b[1] \in to /\ OnlyAt(t, x, b)
  PROVE  Shift(s, t, x, from, to)
<1> SUFFICES ASSUME NEW kinds \in SUBSET Places
             PROVE  /\ from \subseteq kinds => x \in Lying(s, kinds)
                    /\ from \cap kinds = {} => x \notin Lying(s, kinds)
                    /\ to \subseteq kinds => Lying(t, kinds) = Lying(s, kinds) \cup {x}
                    /\ to \cap kinds = {} => Lying(t, kinds) = Lying(s, kinds) \ {x}
  BY DEF Shift
<1>1. x \in Lying(s, kinds) <=> a[1] \in kinds
  BY DEF Lying, OnlyAt
<1>2. \A leaf \in Leaves \ {x} : leaf \in Lying(t, kinds) <=> leaf \in Lying(s, kinds)
  BY DEF Lying, SameShelves
<1>3. Lying(s, kinds) \subseteq Leaves /\ Lying(t, kinds) \subseteq Leaves
  BY DEF Lying
<1>4. CASE to = {"home"} /\ Nowhere(t, x)
  <2>1. x \notin Lying(t, kinds) /\ "home" \notin kinds
    BY <1>4 DEF Lying, Nowhere, Places
  <2> QED BY <1>1, <1>2, <1>3, <1>4, <2>1
<1>5. CASE \E b \in Shelves : b[1] \in to /\ OnlyAt(t, x, b)
  <2>1. PICK b \in Shelves : b[1] \in to /\ OnlyAt(t, x, b)
    BY <1>5
  <2>2. x \in Lying(t, kinds) <=> b[1] \in kinds
    BY <2>1 DEF Lying, OnlyAt
  <2> QED BY <1>1, <1>2, <1>3, <2>1, <2>2
<1> QED BY <1>4, <1>5

LEMMA TravelLying ==
  ASSUME AllAlone, AllFound', NEW x \in Leaves, NEW from, NEW to, Travels(x, from, to)
  PROVE  AllFound /\ Shift(Now, Now', x, from, to)
<1>1. PICK a \in Shelves, b \in Shelves : a[1] \in from /\ b[1] \in to /\ OthersStay(x) /\ MovesOn(x, a, b)
  BY DEF Travels
<1>2. PICK s, t : s = Now /\ t = Now'
  OBVIOUS
<1>3. OnlyAt(s, x, a) /\ AtMostAt(t, x, b) /\ ~Nowhere(s, x)
  BY <1>1, <1>2 DEF MovesOn, OnlyAt, Nowhere
<1>4. ~Home(x)'
  BY <1>1, <1>2, <1>3 DEF AllAlone, Alone, MovesOn, HomeAsBefore
<1>5. ~Nowhere(t, x)
  BY <1>2, <1>4, FoundNext DEF AllFound
<1>6. OnlyAt(t, x, b)
  BY <1>3, <1>5 DEF OnlyAt, AtMostAt, Nowhere
<1>7. AllFound /\ \A leaf \in Leaves \ {x} : SameShelves(s, t, leaf)
  BY <1>1, <1>2, <1>3, OthersLying
<1>8. Shift(s, t, x, from, to)
  BY <1>1, <1>3, <1>6, <1>7, ShiftIs
<1> QED BY <1>2, <1>7, <1>8

LEMMA HomeLying ==
  ASSUME AllAlone, AllFound', NEW x \in Leaves, NEW from, GoesHome(x, from)
  PROVE  AllFound /\ Shift(Now, Now', x, from, {"home"})
<1>1. PICK a \in Shelves : a[1] \in from /\ OthersStay(x) /\ Settles(x, a)
  BY DEF GoesHome
<1>2. PICK s, t : s = Now /\ t = Now'
  OBVIOUS
<1>3. OnlyAt(s, x, a) /\ Nowhere(t, x) /\ ~Nowhere(s, x)
  BY <1>1, <1>2 DEF Settles, OnlyAt, Nowhere
<1>4. AllFound /\ \A leaf \in Leaves \ {x} : SameShelves(s, t, leaf)
  BY <1>1, <1>2, <1>3, OthersLying
<1>5. Shift(s, t, x, from, {"home"})
  BY <1>1, <1>3, <1>4, ShiftIs
<1> QED BY <1>2, <1>4, <1>5

(* How many leaves are still to be processed, and how many were given and     *)
(* not yet received.                                                         *)
ToDo == {"mine", "granted", "granting"}
Gone == {"granted", "granting"}
Waits(now) == Cardinality(Lying(now, ToDo))
Travelling(now) == Cardinality(Lying(now, Gone))

LEMMA LyingFinite ==
  ASSUME NEW now, NEW kinds
  PROVE  IsFiniteSet(Lying(now, kinds)) /\ Cardinality(Lying(now, kinds)) \in Nat
<1>1. IsFiniteSet(Leaves)
  BY SizeAssumption, FS_Interval DEF Leaves
<1>2. Lying(now, kinds) \subseteq Leaves
  BY DEF Lying
<1>3. IsFiniteSet(Lying(now, kinds))
  BY <1>1, <1>2, FS_Subset
<1> QED BY <1>3, FS_CardinalityType

LEMMA ShiftCounts ==
  ASSUME NEW s, NEW t, NEW x, NEW from, NEW to, Shift(s, t, x, from, to), NEW kinds \in SUBSET Places
  PROVE  LET before == Cardinality(Lying(s, kinds))
             after == Cardinality(Lying(t, kinds))
         IN  /\ from \subseteq kinds /\ to \subseteq kinds => after = before
             /\ from \subseteq kinds /\ to \cap kinds = {} => after + 1 = before
             /\ from \cap kinds = {} /\ to \subseteq kinds => after = before + 1
             /\ from \cap kinds = {} /\ to \cap kinds = {} => after = before
<1>1. IsFiniteSet(Lying(s, kinds)) /\ Cardinality(Lying(s, kinds)) \in Nat
  BY LyingFinite
<1>2. /\ Cardinality(Lying(s, kinds) \cup {x}) =
           IF x \in Lying(s, kinds) THEN Cardinality(Lying(s, kinds)) ELSE Cardinality(Lying(s, kinds)) + 1
      /\ Cardinality(Lying(s, kinds) \ {x}) =
           IF x \in Lying(s, kinds) THEN Cardinality(Lying(s, kinds)) - 1 ELSE Cardinality(Lying(s, kinds))
  BY <1>1, FS_AddElement, FS_RemoveElement, Zenon
<1> QED BY <1>1, <1>2 DEF Shift
=============================================================================
