------------------------- MODULE PeerSessionProofs -------------------------
(***************************************************************************)
(* The answer of a run is made of that run's partials, for every number of  *)
(* workers and of runs, on either pool, kept or not, whatever raises, dies  *)
(* or comes late - as long as no actor of an earlier run is still there.    *)
(*                                                                         *)
(* The argument: draining the inboxes and ending the actors are the only    *)
(* two ways by which anything of a run disappears, and a run starts with    *)
(* both behind it.  OnlyThisRun says that nothing of another run is then    *)
(* anywhere; CleanPool, that a pool that is made anew holds nothing.        *)
(***************************************************************************)
EXTENDS PeerSession, SequenceTheorems, TLAPS

Actors(r) ==
  [state : {"busy"}, addr : Addresses, run : 1 .. r, worked : BOOLEAN, parts : SUBSET Partials,
   asked : 0 .. MaxAsks]
Calls(r) == [addr : Addresses, run : 1 .. r]
CallOf(a) == [addr |-> a.addr, run |-> a.run]
MailOf(r) ==
  {DoneMsg, StealResp} \cup {Part(<<r, a>>) : a \in Addresses} \cup {StealReq(a) : a \in Addresses}

OnlyThisRun ==
  ~overlap =>
    /\ \A c \in calls : c.run = runs \/ (Pinned /\ Died(c.addr))
    /\ \A s \in Slots : Busy(s) => proc[s].run = runs /\ proc[s].parts \subseteq Whole(runs)
    /\ \A a \in Addresses : inbox[a] \in Seq(MailOf(runs))
    /\ roots \in Seq({Whole(runs)})
    /\ answer = None \/ answer = Whole(runs)

CleanPool ==
  /\ pool = "none" => calls = {} /\ \A s \in Slots : proc[s] = Free
  /\ phase = "idle" /\ ~opt.persistent => pool = "none"

IInv == TypeOK /\ CleanPool /\ OnlyThisRun

-----------------------------------------------------------------------------
(* A busy process runs an actor of a run that has started.                  *)
LEMMA BusyIsActor ==
  ASSUME TypeOK, NEW s \in Slots, Busy(s)
  PROVE  proc[s] \in Actors(runs) /\ CallOf(proc[s]) \in Calls(runs) /\ CallOf(proc[s]) \notin calls
BY DEF TypeOK, Busy, Free, Dead, Actors, Calls, CallOf

(* What a busy process forms is a partial.                                  *)
LEMMA OwnPartial ==
  ASSUME TypeOK, NEW s \in Slots, Busy(s)
  PROVE  <<proc[s].run, proc[s].addr>> \in Partials
<1>1. proc[s].run \in 1 .. MaxRuns /\ proc[s].addr \in Addresses
  BY BusyIsActor, SessionAssumption DEF TypeOK, Actors
<1> QED BY <1>1 DEF Partials

(* Queues.                                                                 *)
LEMMA Queues ==
  ASSUME NEW S, NEW q \in Seq(S)
  PROVE  /\ \A e \in S : Append(q, e) \in Seq(S)
         /\ q # <<>> => Head(q) \in S /\ Tail(q) \in Seq(S)
OBVIOUS

(* What is left of a queue once its first messages are taken.                *)
Rest(q, t) == \E i \in 1 .. Len(q) : t = SubSeq(q, i + 1, Len(q))
LEMMA RestItems ==
  ASSUME NEW S, NEW q \in Seq(S), NEW t, Rest(q, t)
  PROVE  /\ t \in Seq(S)
         /\ \E i \in 1 .. Len(q) : Len(t) = Len(q) - i /\ \A k \in 1 .. Len(t) : t[k] = q[k+i]
<1>1. PICK i \in 1 .. Len(q) : t = SubSeq(q, i + 1, Len(q))
  BY DEF Rest
<1>2. Len(q) \in Nat /\ i \in Nat /\ \A k \in i + 1 .. Len(q) : q[k] \in S
  BY ElementOfSeq, LenProperties
<1>3. /\ t \in Seq(S) /\ Len(t) = IF i + 1 <= Len(q) THEN Len(q) - (i + 1) + 1 ELSE 0
      /\ \A k \in 1 .. Len(q) - (i + 1) + 1 : t[k] = q[(i + 1) + k - 1]
  BY <1>1, <1>2, SubSeqProperties
<1>4. Len(t) = Len(q) - i
  BY <1>2, <1>3
<1>5. ASSUME NEW k \in 1 .. Len(t) PROVE t[k] = q[k+i]
  <2>1. (i + 1) + k - 1 = k + i /\ k \in 1 .. Len(q) - (i + 1) + 1
    BY <1>2, <1>4
  <2> QED BY <1>3, <2>1
<1> QED BY <1>3, <1>4, <1>5

LEMMA TailIsRest ==
  ASSUME NEW S, NEW q \in Seq(S), q # <<>>
  PROVE  Rest(q, Tail(q))
<1>1. Tail(q) = SubSeq(q, 2, Len(q)) /\ Len(q) \in Nat \ {0}
  BY TailIsSubSeq, LenProperties, EmptySeq
<1>2. 1 \in 1 .. Len(q) /\ 1 + 1 = 2
  BY <1>1
<1> QED BY <1>1, <1>2 DEF Rest

(* The kinds of messages.                                                   *)
LEMMA MessageKinds ==
  ASSUME NEW m \in Messages
  PROVE  /\ m.tag \in {"done", "part", "steal_req", "steal_resp"}
         /\ m.tag = "done" <=> m = DoneMsg
         /\ m.tag = "part" => m.of \in Partials /\ m = Part(m.of)
         /\ m.tag = "steal_req" => m.thief \in Addresses
BY DEF Messages, DoneMsg, StealResp, Part, StealReq

LEMMA OurMessageKinds ==
  ASSUME NEW r, NEW m \in MailOf(r), m.tag = "part"
  PROVE  m.of \in Whole(r) /\ m.of[2] \in Addresses /\ m = Part(<<r, m.of[2]>>) /\ m.of = <<r, m.of[2]>>
<1>1. PICK a \in Addresses : m = Part(<<r, a>>)
  BY DEF MailOf, DoneMsg, StealResp, StealReq
<1>2. m.of = <<r, a>> /\ m.of[2] = a
  BY <1>1 DEF Part
<1> QED BY <1>1, <1>2 DEF Whole

(* The actor that an actor becomes.                                         *)
LEMMA ActorGrows ==
  ASSUME NEW r \in Nat, NEW a \in Actors(r), NEW worked \in BOOLEAN, NEW parts \in SUBSET Partials
  PROVE  /\ [a EXCEPT !.worked = worked] \in Actors(r)
         /\ CallOf([a EXCEPT !.worked = worked]) = CallOf(a)
         /\ [a EXCEPT !.worked = worked, !.parts = parts] \in Actors(r)
         /\ CallOf([a EXCEPT !.worked = worked, !.parts = parts]) = CallOf(a)
BY DEF Actors, CallOf

(* One partial of each address is the whole of a run.                       *)
LEMMA WholeOfAll ==
  ASSUME NEW r, NEW parts \in SUBSET Whole(r), From(parts) = Addresses
  PROVE  parts = Whole(r)
BY DEF Whole, From

LEMMA WholeIsPartials ==
  ASSUME NEW r \in 1 .. MaxRuns
  PROVE  Whole(r) \in SUBSET Partials
BY DEF Whole, Partials

-----------------------------------------------------------------------------
(* The workers.                                                            *)

LEMMA TakeKeeps ==
  ASSUME IInv, NEW s \in Slots, Take(s)
  PROVE  IInv'
<1> USE DEF IInv
<1>1. PICK c \in For(s) : proc' = [proc EXCEPT ![s] = Actor(c)] /\ calls' = calls \ {c}
  BY DEF Take, Without
<1>2. c \in calls /\ c \in Calls(runs) /\ c = CallOf(Actor(c)) /\ Actor(c) \in Actors(runs)
  <2>1. c \in calls /\ c \in Calls(runs)
    BY <1>1 DEF For, TypeOK, Calls
  <2>2. 0 \in 0 .. MaxAsks
    BY SessionAssumption
  <2> QED BY <2>1, <2>2 DEF Calls, Actors, Actor, CallOf
<1>3. \A t \in Slots : t # s => proc'[t] = proc[t]
  BY <1>1 DEF TypeOK
<1>4. proc'[s] = Actor(c)
  BY <1>1 DEF TypeOK
<1>5. UNCHANGED <<opt, runs, phase, pool, inbox, roots, fut, answer, outcome, overlap, crashed>>
  BY DEF Take, wires, ends
<1>6. TypeOK'
  <2>1. proc' \in [Slots -> {Free, Dead} \cup Actors(runs)]
    BY <1>1, <1>2 DEF TypeOK, Actors
  <2>2. ASSUME NEW t \in Slots, (Busy(t))'
        PROVE  CallOf(proc'[t]) \notin calls'
    BY <1>1, <1>2, <1>3, <1>4, <2>2, BusyIsActor DEF Busy
  <2> QED BY <1>1, <1>5, <2>1, <2>2 DEF TypeOK, Actors, CallOf
<1>7. CleanPool'
  BY <1>5 DEF CleanPool, Take
<1>8. OnlyThisRun'
  <2>1. SUFFICES ASSUME ~overlap PROVE OnlyThisRun'
    BY <1>5 DEF OnlyThisRun
  <2>2. c.run = runs /\ Actor(c).parts = {} /\ Actor(c).run = c.run
    BY <2>1, <1>1, <1>2 DEF OnlyThisRun, For, Take, Died, Free, Actor
  <2>3. \A t \in Slots : (Busy(t))' => proc'[t].run = runs /\ proc'[t].parts \subseteq Whole(runs)
    BY <2>1, <2>2, <1>3, <1>4 DEF OnlyThisRun, Busy
  <2>4. \A d \in calls' : d.run = runs \/ (Pinned /\ Died(d.addr))'
    <3> SUFFICES ASSUME NEW d \in calls', d.run # runs PROVE (Pinned /\ Died(d.addr))'
      OBVIOUS
    <3>1. d \in calls /\ Pinned /\ Died(d.addr) /\ d.addr \in Slots
      BY <2>1, <1>1 DEF OnlyThisRun, TypeOK, Slots, Addresses
    <3>2. d.addr # s
      BY <3>1 DEF Take, Died, Free
    <3> QED BY <3>1, <3>2, <1>3, <1>5 DEF Died, Pinned
  <2> QED BY <2>1, <2>3, <2>4, <1>5 DEF OnlyThisRun
<1> QED BY <1>6, <1>7, <1>8

(* A busy process that stays at its call, with what it holds, or is free.   *)
LEMMA BusyMoves ==
  ASSUME IInv, NEW s \in Slots, Busy(s),
         UNCHANGED <<opt, runs, pool, phase, calls, overlap>>,
         NEW a, proc' = [proc EXCEPT ![s] = a],
         \/ a = Free
         \/ /\ a \in Actors(runs) /\ CallOf(a) = CallOf(proc[s])
            /\ ~overlap => a.parts \subseteq Whole(runs)
  PROVE  /\ proc' \in [Slots -> {Free, Dead} \cup Actors(runs)]
         /\ \A t \in Slots : (Busy(t))' => CallOf(proc'[t]) \notin calls'
         /\ CleanPool'
         /\ ~overlap =>
              /\ \A c \in calls' : c.run = runs \/ (Pinned /\ Died(c.addr))'
              /\ \A t \in Slots : (Busy(t))' => proc'[t].run = runs /\ proc'[t].parts \subseteq Whole(runs)
<1> USE DEF IInv
<1>1. \A t \in Slots : t # s => proc'[t] = proc[t]
  BY DEF TypeOK
<1>2. proc'[s] = a
  BY DEF TypeOK
<1>3. proc[s] \in Actors(runs) /\ proc[s] # Free
  BY BusyIsActor DEF Busy, Free
<1>4. proc' \in [Slots -> {Free, Dead} \cup Actors(runs)]
  BY DEF TypeOK, Actors
<1>5. \A t \in Slots : (Busy(t))' => CallOf(proc'[t]) \notin calls'
  BY <1>1, <1>2, BusyIsActor DEF Busy, Free
<1>6. CleanPool'
  BY <1>3 DEF CleanPool
<1>7. ASSUME ~overlap, NEW c \in calls', c.run # runs PROVE (Pinned /\ Died(c.addr))'
  <2>1. Pinned /\ Died(c.addr) /\ c.addr \in Slots
    BY <1>7 DEF OnlyThisRun, TypeOK, Slots, Addresses
  <2> QED BY <2>1, <1>1 DEF Died, Pinned, Busy
<1>8. ASSUME ~overlap, NEW t \in Slots, (Busy(t))'
      PROVE  proc'[t].run = runs /\ proc'[t].parts \subseteq Whole(runs)
  <2>1. CASE t # s
    BY <2>1, <1>8, <1>1 DEF OnlyThisRun, Busy
  <2>2. CASE t = s
    <3>1. a # Free /\ a.run = CallOf(a).run /\ proc[s].run = CallOf(proc[s]).run
      BY <2>2, <1>8, <1>2 DEF Busy, Free, CallOf
    <3> QED BY <2>2, <3>1, <1>8, <1>2 DEF OnlyThisRun
  <2> QED BY <2>1, <2>2
<1> QED BY <1>4, <1>5, <1>6, <1>7, <1>8

(* Messages of this run are messages.                                       *)
LEMMA MailOfIsMail ==
  ASSUME NEW r \in 1 .. MaxRuns
  PROVE  MailOf(r) \subseteq Messages
BY DEF MailOf, Messages, Partials

(* A partial is added to what an actor holds: of a run that is alone, one    *)
(* of the run.                                                             *)
LEMMA GatherKeeps ==
  ASSUME IInv, NEW s \in Slots, Busy(s), NEW worked \in BOOLEAN, NEW p \in Partials,
         ~overlap => p \in Whole(runs),
         Gather(s, worked, p),
         inbox' \in [Addresses -> Seq(Messages)],
         ~overlap => \A a \in Addresses : inbox'[a] \in Seq(MailOf(runs)),
         UNCHANGED <<opt, runs, pool, phase, calls, overlap, fut, answer, outcome, crashed>>
  PROVE  IInv'
<1> USE DEF IInv
<1> DEFINE parts == proc[s].parts \cup {p}
           a == [proc[s] EXCEPT !.worked = worked, !.parts = parts]
<1>1. parts \in SUBSET Partials /\ proc[s] \in Actors(runs) /\ runs \in Nat
  BY BusyIsActor DEF Actors, TypeOK
<1>2. a \in Actors(runs) /\ CallOf(a) = CallOf(proc[s]) /\ a.parts = parts
  <2> HIDE DEF parts
  <2>1. a \in Actors(runs) /\ CallOf(a) = CallOf(proc[s])
    BY <1>1, ActorGrows
  <2>2. a.parts = parts
    BY <1>1 DEF Actors
  <2> QED BY <2>1, <2>2
<1>3. ~overlap => parts \subseteq Whole(runs)
  BY DEF OnlyThisRun
<1>4. proc' = [proc EXCEPT ![s] = a]
  BY DEF Gather
<1>5. /\ proc' \in [Slots -> {Free, Dead} \cup Actors(runs)]
      /\ \A t \in Slots : (Busy(t))' => CallOf(proc'[t]) \notin calls'
      /\ CleanPool'
      /\ ~overlap =>
           /\ \A c \in calls' : c.run = runs \/ (Pinned /\ Died(c.addr))'
           /\ \A t \in Slots : (Busy(t))' => proc'[t].run = runs /\ proc'[t].parts \subseteq Whole(runs)
  BY <1>2, <1>3, <1>4, BusyMoves
<1>6. roots' \in Seq(SUBSET Partials)
  BY <1>1 DEF Gather, TypeOK
<1>7. ~overlap => roots' \in Seq({Whole(runs)})
  <2> SUFFICES ASSUME ~overlap PROVE roots' \in Seq({Whole(runs)})
    OBVIOUS
  <2>1. roots \in Seq({Whole(runs)})
    BY DEF OnlyThisRun
  <2>2. CASE From(parts) = Addresses
    BY <2>1, <2>2, <1>3, WholeOfAll DEF Gather
  <2>3. CASE From(parts) # Addresses
    BY <2>1, <2>3 DEF Gather
  <2> QED BY <2>2, <2>3
<1>8. TypeOK'
  BY <1>5, <1>6 DEF TypeOK, Actors, CallOf, Messages
<1>9. OnlyThisRun'
  BY <1>5, <1>7 DEF OnlyThisRun
<1> QED BY <1>5, <1>8, <1>9

(* A call is over.                                                         *)
LEMMA EndsKeeps ==
  ASSUME IInv, NEW s \in Slots, Busy(s), NEW how \in {"returned", "raised"},
         Ends(s, how),
         inbox' \in [Addresses -> Seq(Messages)],
         ~overlap => \A a \in Addresses : inbox'[a] \in Seq(MailOf(runs)),
         UNCHANGED <<opt, runs, pool, phase, calls, overlap, roots, answer, outcome, crashed>>
  PROVE  IInv'
<1> USE DEF IInv
<1>1. proc' = [proc EXCEPT ![s] = Free]
  BY DEF Ends
<1>2. /\ proc' \in [Slots -> {Free, Dead} \cup Actors(runs)]
      /\ \A t \in Slots : (Busy(t))' => CallOf(proc'[t]) \notin calls'
      /\ CleanPool'
      /\ ~overlap =>
           /\ \A c \in calls' : c.run = runs \/ (Pinned /\ Died(c.addr))'
           /\ \A t \in Slots : (Busy(t))' => proc'[t].run = runs /\ proc'[t].parts \subseteq Whole(runs)
  BY <1>1, BusyMoves
<1>3. fut' \in [Addresses -> {"pending", "returned", "raised", "broken"}]
  BY DEF Ends, TypeOK
<1>4. TypeOK'
  BY <1>2, <1>3 DEF TypeOK, Actors, CallOf, Messages
<1>5. OnlyThisRun'
  BY <1>2 DEF OnlyThisRun
<1> QED BY <1>2, <1>4, <1>5

(* The inboxes of a state of the invariant.                                 *)
LEMMA MailTypes ==
  ASSUME IInv
  PROVE  /\ inbox \in [Addresses -> Seq(Messages)]
         /\ ~overlap => \A a \in Addresses : inbox[a] \in Seq(MailOf(runs))
BY DEF IInv, TypeOK, OnlyThisRun, Messages

(* An actor that stays at work with what it holds.                           *)
LEMMA StayKeeps ==
  ASSUME IInv, NEW s \in Slots, Busy(s),
         UNCHANGED <<opt, runs, pool, phase, calls, overlap, roots, fut, answer, outcome, crashed>>,
         NEW a \in Actors(runs), proc' = [proc EXCEPT ![s] = a],
         CallOf(a) = CallOf(proc[s]), a.parts = proc[s].parts,
         inbox' \in [Addresses -> Seq(Messages)],
         ~overlap => \A b \in Addresses : inbox'[b] \in Seq(MailOf(runs))
  PROVE  IInv'
<1>1. ~overlap => a.parts \subseteq Whole(runs)
  BY DEF IInv, OnlyThisRun
<1>2. /\ proc' \in [Slots -> {Free, Dead} \cup Actors(runs)]
      /\ \A t \in Slots : (Busy(t))' => CallOf(proc'[t]) \notin calls'
      /\ CleanPool'
      /\ ~overlap =>
           /\ \A c \in calls' : c.run = runs \/ (Pinned /\ Died(c.addr))'
           /\ \A t \in Slots : (Busy(t))' => proc'[t].run = runs /\ proc'[t].parts \subseteq Whole(runs)
  BY <1>1, BusyMoves
<1>3. TypeOK'
  BY <1>2 DEF IInv, TypeOK, Actors, CallOf
<1>4. OnlyThisRun'
  BY <1>2 DEF IInv, OnlyThisRun
<1> QED BY <1>2, <1>3, <1>4 DEF IInv

(* A message that is sent.                                                  *)
LEMMA SendKeepsMail ==
  ASSUME IInv, NEW b \in Addresses, NEW m \in Messages, ~overlap => m \in MailOf(runs),
         inbox' = [inbox EXCEPT ![b] = Append(@, m)]
  PROVE  /\ inbox' \in [Addresses -> Seq(Messages)]
         /\ ~overlap => \A a \in Addresses : inbox'[a] \in Seq(MailOf(runs))
<1>1. inbox \in [Addresses -> Seq(Messages)] /\ Append(inbox[b], m) \in Seq(Messages)
  BY MailTypes, Queues
<1>2. inbox' \in [Addresses -> Seq(Messages)]
  BY <1>1
<1>3. ASSUME ~overlap, NEW a \in Addresses PROVE inbox'[a] \in Seq(MailOf(runs))
  <2>1. inbox'[a] = inbox[a] \/ inbox'[a] = Append(inbox[a], m)
    BY <1>1
  <2> QED BY <1>3, <2>1, MailTypes, Queues
<1> QED BY <1>2, <1>3

LEMMA WorkKeeps ==
  ASSUME IInv, NEW s \in Slots, Work(s)
  PROVE  IInv'
<1> DEFINE p == <<proc[s].run, proc[s].addr>>
<1>1. Busy(s) /\ UNCHANGED <<opt, runs, pool, phase, calls, overlap, answer, outcome, crashed>>
  BY DEF Work, ends
<1>2. p \in Partials /\ proc[s].addr \in Addresses /\ proc[s] \in Actors(runs)
  BY <1>1, OwnPartial, BusyIsActor DEF IInv, Actors
<1>3. ~overlap => p \in Whole(runs)
  BY <1>1, <1>2 DEF IInv, OnlyThisRun, Whole
<1>4. CASE p \in opt.raises /\ Ends(s, "raised") /\ UNCHANGED wires
  BY <1>1, <1>4, MailTypes, EndsKeeps DEF wires
<1>5. CASE Gather(s, TRUE, p) /\ UNCHANGED <<inbox, fut>>
  BY <1>1, <1>2, <1>3, <1>5, MailTypes, GatherKeeps
<1>6. CASE /\ inbox' = [inbox EXCEPT ![0] = Append(@, Part(p))]
           /\ proc' = [proc EXCEPT ![s].worked = TRUE]
           /\ UNCHANGED <<roots, fut>>
  <2> DEFINE a == [proc[s] EXCEPT !.worked = TRUE]
  <2>1. a \in Actors(runs) /\ CallOf(a) = CallOf(proc[s]) /\ a.parts = proc[s].parts
    BY <1>2 DEF Actors, CallOf
  <2>2. proc' = [proc EXCEPT ![s] = a]
    BY <1>6
  <2>3. Part(p) \in Messages /\ (~overlap => Part(p) \in MailOf(runs)) /\ 0 \in Addresses
    BY <1>2, <1>3, SessionAssumption DEF Messages, MailOf, Whole, Addresses
  <2> HIDE DEF a, p
  <2>4. inbox' \in [Addresses -> Seq(Messages)] /\ (~overlap => \A b \in Addresses : inbox'[b] \in Seq(MailOf(runs)))
    BY <1>6, <2>3, SendKeepsMail
  <2> QED BY <1>1, <1>6, <2>1, <2>2, <2>4, StayKeeps
<1> QED BY <1>4, <1>5, <1>6 DEF Work

LEMMA AskKeeps ==
  ASSUME IInv, NEW s \in Slots, Ask(s)
  PROVE  IInv'
<1> DEFINE a == [proc[s] EXCEPT !.asked = @ + 1]
<1>1. /\ Busy(s) /\ proc[s].asked < MaxAsks
      /\ UNCHANGED <<opt, runs, pool, phase, calls, overlap, roots, fut, answer, outcome, crashed>>
  BY DEF Ask, ends
<1>2. proc[s] \in Actors(runs) /\ runs \in Nat /\ proc[s].addr \in Addresses
  BY <1>1, BusyIsActor DEF IInv, TypeOK, Actors
<1>3. a \in Actors(runs) /\ CallOf(a) = CallOf(proc[s]) /\ a.parts = proc[s].parts
  BY <1>1, <1>2, SessionAssumption DEF Actors, CallOf
<1>4. PICK victim \in Addresses : inbox' = [inbox EXCEPT ![victim] = Append(@, StealReq(proc[s].addr))]
  BY DEF Ask
<1>5. StealReq(proc[s].addr) \in Messages /\ StealReq(proc[s].addr) \in MailOf(runs)
  BY <1>2 DEF Messages, MailOf
<1>6. proc' = [proc EXCEPT ![s] = a]
  BY DEF Ask
<1> HIDE DEF a
<1>7. inbox' \in [Addresses -> Seq(Messages)] /\ (~overlap => \A b \in Addresses : inbox'[b] \in Seq(MailOf(runs)))
  BY <1>4, <1>5, SendKeepsMail
<1> QED BY <1>1, <1>3, <1>6, <1>7, StayKeeps

(* An actor that handles a message takes it from its inbox, with what it      *)
(* polled behind done, and may answer a thief.                              *)
LEMMA HandledMail ==
  ASSUME IInv, NEW s \in Slots, Handle(s), NEW b \in Addresses, proc[s].addr = b
  PROVE  /\ Busy(s) /\ inbox[b] # <<>>
         /\ UNCHANGED <<opt, runs, pool, phase, calls, overlap, answer, outcome, crashed>>
         /\ \E rest : /\ Rest(inbox[b], rest)
                      /\ \/ inbox' = [inbox EXCEPT ![b] = rest]
                         \/ \E thief \in Addresses :
                              inbox' = [[inbox EXCEPT ![b] = rest] EXCEPT ![thief] = Append(@, StealResp)]
<1>1. /\ Busy(s) /\ inbox[b] # <<>>
      /\ UNCHANGED <<opt, runs, pool, phase, calls, overlap, answer, outcome, crashed>>
  BY DEF Handle, ends
<1> DEFINE queue == inbox[b]
<1>2. queue \in Seq(Messages) /\ queue # <<>>
  BY <1>1, MailTypes
<1>3. Rest(queue, Tail(queue)) /\ Head(queue) \in Messages
  <2> HIDE DEF queue
  <2> QED BY <1>2, TailIsRest, Queues
<1>4. \/ inbox' = [inbox EXCEPT ![b] = Tail(@)]
      \/ \E polled \in 1 .. Len(queue) : inbox' = [inbox EXCEPT ![b] = SubSeq(@, polled + 1, Len(@))]
      \/ /\ Head(queue).tag = "steal_req"
         /\ inbox' = [[inbox EXCEPT ![b] = Tail(@)] EXCEPT ![Head(queue).thief] = Append(@, StealResp)]
  BY DEF Handle
<1>5. CASE inbox' = [inbox EXCEPT ![b] = Tail(@)]
  <2>1. inbox' = [inbox EXCEPT ![b] = Tail(queue)]
    BY <1>5
  <2> QED BY <1>1, <1>3, <2>1
<1>6. CASE \E polled \in 1 .. Len(queue) : inbox' = [inbox EXCEPT ![b] = SubSeq(@, polled + 1, Len(@))]
  <2>1. PICK polled \in 1 .. Len(queue) : inbox' = [inbox EXCEPT ![b] = SubSeq(queue, polled + 1, Len(queue))]
    BY <1>6
  <2>2. Rest(queue, SubSeq(queue, polled + 1, Len(queue)))
    BY DEF Rest
  <2> QED BY <1>1, <2>1, <2>2
<1>7. CASE /\ Head(queue).tag = "steal_req"
           /\ inbox' = [[inbox EXCEPT ![b] = Tail(@)] EXCEPT ![Head(queue).thief] = Append(@, StealResp)]
  <2>1. PICK thief \in Addresses : thief = Head(queue).thief
    BY <1>3, <1>7, MessageKinds
  <2>2. inbox' = [[inbox EXCEPT ![b] = Tail(queue)] EXCEPT ![thief] = Append(@, StealResp)]
    BY <1>7, <2>1
  <2> QED BY <1>1, <1>3, <2>2
<1> QED BY <1>4, <1>5, <1>6, <1>7

LEMMA HandleKeepsMail ==
  ASSUME IInv, NEW s \in Slots, Handle(s)
  PROVE  /\ inbox' \in [Addresses -> Seq(Messages)]
         /\ ~overlap => \A a \in Addresses : inbox'[a] \in Seq(MailOf(runs))
<1>1. PICK b \in Addresses : proc[s].addr = b
  BY BusyIsActor DEF Handle, IInv, Actors
<1>2. PICK rest : /\ Rest(inbox[b], rest)
                  /\ \/ inbox' = [inbox EXCEPT ![b] = rest]
                     \/ \E thief \in Addresses :
                          inbox' = [[inbox EXCEPT ![b] = rest] EXCEPT ![thief] = Append(@, StealResp)]
  BY <1>1, HandledMail
<1>3. rest \in Seq(Messages) /\ (~overlap => rest \in Seq(MailOf(runs)))
  BY <1>2, MailTypes, RestItems
<1> DEFINE mid == [inbox EXCEPT ![b] = rest]
<1>4. mid \in [Addresses -> Seq(Messages)] /\ (~overlap => \A a \in Addresses : mid[a] \in Seq(MailOf(runs)))
  BY <1>3, MailTypes
<1> HIDE DEF mid
<1>5. CASE inbox' = mid
  BY <1>4, <1>5
<1>6. ASSUME NEW thief \in Addresses, inbox' = [mid EXCEPT ![thief] = Append(@, StealResp)]
      PROVE  /\ inbox' \in [Addresses -> Seq(Messages)]
             /\ ~overlap => \A a \in Addresses : inbox'[a] \in Seq(MailOf(runs))
  <2>1. StealResp \in Messages /\ StealResp \in MailOf(runs)
    BY DEF Messages, MailOf
  <2>2. \A a \in Addresses : inbox'[a] = mid[a] \/ inbox'[a] = Append(mid[a], StealResp)
    BY <1>4, <1>6
  <2>3. Append(mid[thief], StealResp) \in Seq(Messages)
    BY <1>4, <2>1, Queues
  <2>4. inbox' \in [Addresses -> Seq(Messages)]
    BY <1>4, <1>6, <2>3
  <2>5. ASSUME ~overlap, NEW a \in Addresses PROVE inbox'[a] \in Seq(MailOf(runs))
    BY <1>4, <2>1, <2>2, <2>5, Queues
  <2> QED BY <2>4, <2>5
<1> QED BY <1>2, <1>5, <1>6 DEF mid

LEMMA HandleKeeps ==
  ASSUME IInv, NEW s \in Slots, Handle(s)
  PROVE  IInv'
<1>1. PICK b \in Addresses : proc[s].addr = b
  BY BusyIsActor DEF Handle, IInv, Actors
<1> DEFINE m == Head(inbox[b])
<1>2. Busy(s) /\ inbox[b] # <<>> /\ UNCHANGED <<opt, runs, pool, phase, calls, overlap, answer, outcome, crashed>>
  BY <1>1, HandledMail
<1>3. /\ inbox' \in [Addresses -> Seq(Messages)]
      /\ ~overlap => \A a \in Addresses : inbox'[a] \in Seq(MailOf(runs))
  BY HandleKeepsMail
<1>4. m \in Messages /\ (~overlap => m \in MailOf(runs))
  BY <1>2, MailTypes, Queues
<1>5. proc[s] \in Actors(runs) /\ proc[s].worked \in BOOLEAN
  BY <1>2, BusyIsActor DEF IInv, Actors
<1>6. CASE m.tag = "done" /\ Ends(s, "returned") /\ UNCHANGED roots
  BY <1>2, <1>3, <1>6, EndsKeeps
<1>7. CASE m.tag = "part" /\ Gather(s, proc[s].worked, m.of) /\ UNCHANGED fut
  <2> HIDE DEF m
  <2>1. m.of \in Partials /\ (~overlap => m.of \in Whole(runs))
    BY <1>4, <1>7, MessageKinds, OurMessageKinds
  <2> QED BY <1>2, <1>3, <1>5, <1>7, <2>1, GatherKeeps
<1>8. CASE UNCHANGED <<proc, roots, fut>>
  <2>1. TypeOK' /\ CleanPool'
    BY <1>2, <1>3, <1>8 DEF IInv, TypeOK, CleanPool, Busy
  <2>2. OnlyThisRun'
    BY <1>2, <1>3, <1>8 DEF IInv, OnlyThisRun, Pinned, Died, Busy
  <2> QED BY <2>1, <2>2 DEF IInv
<1> QED BY <1>1, <1>6, <1>7, <1>8 DEF Handle

-----------------------------------------------------------------------------
(* Processes that die, and the driver.                                     *)

LEMMA CrashKeeps ==
  ASSUME IInv, NEW s \in Slots, Crash(s)
  PROVE  IInv'
<1> USE DEF IInv
<1>1. proc' = [proc EXCEPT ![s] = Dead] /\ pool = "up" /\ crashed' = TRUE
      /\ UNCHANGED <<opt, runs, phase, pool, calls, inbox, roots, fut, answer, outcome, overlap>>
  BY DEF Crash, wires, ends
<1>2. \A t \in Slots : (Busy(t))' => Busy(t) /\ proc'[t] = proc[t]
  BY <1>1 DEF TypeOK, Busy, Dead
<1>3. \A t \in Slots : Died(t) => (Died(t))'
  BY <1>1 DEF TypeOK, Died, Dead
<1>4. TypeOK'
  BY <1>1, <1>2 DEF TypeOK
<1>5. CleanPool'
  BY <1>1 DEF CleanPool
<1>6. OnlyThisRun'
  <2>1. ASSUME ~overlap, NEW c \in calls, c.run # runs PROVE Pinned' /\ (Died(c.addr))'
    <3>1. Pinned /\ Died(c.addr) /\ c.addr \in Slots
      BY <2>1 DEF OnlyThisRun, TypeOK, Slots, Addresses
    <3> QED BY <3>1, <1>1, <1>3 DEF Pinned
  <2> QED BY <1>1, <1>2, <2>1 DEF OnlyThisRun
<1> QED BY <1>4, <1>5, <1>6

LEMMA BreakKeeps ==
  ASSUME IInv, Break
  PROVE  IInv'
<1> USE DEF IInv
<1>1. /\ proc' = [s \in Slots |-> Dead] /\ calls' = {} /\ pool = "up" /\ pool' = "broken"
      /\ fut' = [a \in Addresses |-> IF fut[a] = "pending" THEN "broken" ELSE fut[a]]
      /\ UNCHANGED <<opt, runs, phase, inbox, roots, answer, outcome, overlap, crashed>>
  BY DEF Break, wires, ends
<1>2. \A t \in Slots : ~(Busy(t))'
  BY <1>1 DEF Busy, Dead
<1>3. TypeOK'
  BY <1>1, <1>2 DEF TypeOK
<1>4. CleanPool'
  BY <1>1 DEF CleanPool
<1>5. OnlyThisRun'
  BY <1>1, <1>2 DEF OnlyThisRun
<1> QED BY <1>3, <1>4, <1>5

LEMMA StartRunKeeps ==
  ASSUME IInv, StartRun
  PROVE  IInv'
<1> USE DEF IInv
<1>1. /\ phase = "idle" /\ runs < MaxRuns /\ runs' = runs + 1
      /\ overlap' = (Kept /\ StillThere)
      /\ inbox' = Empty /\ roots' = <<>> /\ answer' = None
      /\ fut' = [a \in Addresses |-> "pending"]
      /\ UNCHANGED <<opt, proc, crashed>>
  BY DEF StartRun, Drained
<1>2. \/ calls' = calls \cup Submitted(runs + 1) /\ pool' = "up" /\ phase' = "collect" /\ outcome' = None
      \/ calls' = calls /\ pool' = pool /\ phase' = phase /\ outcome' = "failed" /\ pool = "broken"
  BY DEF StartRun
<1>3. \A c \in Submitted(runs + 1) : c \in Calls(runs + 1) /\ c \notin Calls(runs) /\ c.run = runs + 1
  BY <1>1 DEF Submitted, Calls, TypeOK
<1>4. \A s \in Slots : Busy(s) => proc[s] \in Actors(runs) /\ CallOf(proc[s]) \in Calls(runs) \ calls
  BY BusyIsActor
<1>5. TypeOK'
  <2>1. Calls(runs) \subseteq Calls(runs + 1) /\ Actors(runs) \subseteq Actors(runs + 1)
    BY DEF Calls, Actors, TypeOK
  <2>2. calls' \subseteq Calls(runs + 1)
    BY <1>2, <1>3, <2>1 DEF TypeOK, Calls
  <2>3. proc' \in [Slots -> {Free, Dead} \cup Actors(runs + 1)]
    BY <1>1, <2>1 DEF TypeOK, Actors
  <2>4. \A s \in Slots : (Busy(s))' => CallOf(proc'[s]) \notin calls'
    BY <1>1, <1>2, <1>3, <1>4 DEF Busy
  <2>5. inbox' \in [Addresses -> Seq(Messages)]
    BY <1>1 DEF Empty
  <2>6. runs' \in 0 .. MaxRuns /\ overlap' \in BOOLEAN
    BY <1>1, SessionAssumption DEF TypeOK
  <2> QED BY <1>1, <1>2, <2>2, <2>3, <2>4, <2>5, <2>6 DEF TypeOK, Calls, Actors, CallOf, Messages
<1>6. CleanPool'
  BY <1>1, <1>2 DEF CleanPool
<1>7. OnlyThisRun'
  <2>1. SUFFICES ASSUME ~(Kept /\ StillThere) PROVE OnlyThisRun'
    BY <1>1 DEF OnlyThisRun
  <2>2. (\A s \in Slots : ~Busy(s)) /\ Live = {}
    <3>1. CASE Kept
      BY <2>1, <3>1 DEF StillThere
    <3>2. CASE ~Kept
      BY <3>2, <1>1 DEF Kept, CleanPool, Busy, Free, Live
    <3> QED BY <3>1, <3>2
  <2>3. \A c \in calls' : c.run = runs' \/ (Pinned' /\ (Died(c.addr))')
    <3>1. \A c \in calls : Pinned /\ Died(c.addr)
      BY <2>2 DEF Live
    <3> QED BY <3>1, <1>1, <1>2, <1>3 DEF Pinned, Died
  <2>4. \A s \in Slots : ~(Busy(s))'
    BY <2>2, <1>1 DEF Busy
  <2>5. \A a \in Addresses : inbox'[a] \in Seq(MailOf(runs'))
    BY <1>1 DEF Empty
  <2> QED BY <1>1, <2>3, <2>4, <2>5 DEF OnlyThisRun
<1> QED BY <1>5, <1>6, <1>7

(* done in every inbox.                                                    *)
LEMMA ReleaseKeepsMail ==
  ASSUME IInv, Release
  PROVE  /\ inbox' \in [Addresses -> Seq(Messages)]
         /\ ~overlap => \A a \in Addresses : inbox'[a] \in Seq(MailOf(runs))
<1>1. DoneMsg \in Messages /\ DoneMsg \in MailOf(runs)
  BY DEF Messages, MailOf
<1>2. \A a \in Addresses : inbox'[a] = Append(inbox[a], DoneMsg)
  BY DEF Release
<1> QED BY <1>1, <1>2, MailTypes DEF Release

(* A step of the driver that does not touch the pool's processes and calls.  *)
LEMMA DriverKeeps ==
  ASSUME IInv, UNCHANGED <<opt, runs, pool, proc, calls, fut, overlap, crashed>>,
         phase' \in {"idle", "collect", "join", "shutdown"},
         phase' = "idle" => phase = "idle" \/ opt.persistent,
         outcome' \in {None, "ok", "failed"},
         inbox' \in [Addresses -> Seq(Messages)],
         ~overlap => \A a \in Addresses : inbox'[a] \in Seq(MailOf(runs)),
         \/ UNCHANGED <<roots, answer>>
         \/ roots # <<>> /\ roots' = Tail(roots) /\ answer' = Head(roots)
  PROVE  IInv'
<1> USE DEF IInv
<1>1. roots' \in Seq(SUBSET Partials) /\ (answer' = None \/ answer' \subseteq Partials)
  <2>1. roots \in Seq(SUBSET Partials) /\ (answer = None \/ answer \subseteq Partials)
    BY DEF TypeOK
  <2>2. roots # <<>> => Head(roots) \in SUBSET Partials /\ Tail(roots) \in Seq(SUBSET Partials)
    BY <2>1, Queues
  <2> QED BY <2>1, <2>2
<1>2. TypeOK'
  BY <1>1 DEF TypeOK, Messages, Busy
<1>3. CleanPool'
  BY DEF CleanPool
<1>4. ~overlap => roots' \in Seq({Whole(runs)}) /\ (answer' = None \/ answer' = Whole(runs))
  <2> SUFFICES ASSUME ~overlap
               PROVE  roots' \in Seq({Whole(runs)}) /\ (answer' = None \/ answer' = Whole(runs))
    OBVIOUS
  <2>1. roots \in Seq({Whole(runs)}) /\ (answer = None \/ answer = Whole(runs))
    BY DEF OnlyThisRun
  <2>2. roots # <<>> => Head(roots) = Whole(runs) /\ Tail(roots) \in Seq({Whole(runs)})
    BY <2>1, Queues
  <2> QED BY <2>1, <2>2
<1>5. OnlyThisRun'
  BY <1>4 DEF OnlyThisRun, Busy, Died, Pinned
<1> QED BY <1>2, <1>3, <1>5

LEMMA LeaveIsOrderly ==
  ASSUME IInv, NEW how \in {"ok", "failed"}, Leave(how)
  PROVE  /\ phase' \in {"idle", "collect", "join", "shutdown"}
         /\ phase' = "idle" => phase = "idle" \/ opt.persistent
         /\ outcome' \in {None, "ok", "failed"}
BY DEF Leave

LEMMA ShutDownKeeps ==
  ASSUME IInv, ShutDown
  PROVE  IInv'
<1> USE DEF IInv
<1>1. /\ phase' = "idle" /\ pool' = "none" /\ proc' = [s \in Slots |-> Free] /\ calls' = {}
      /\ inbox' = Empty /\ roots' = <<>>
      /\ UNCHANGED <<opt, runs, fut, answer, outcome, overlap, crashed>>
  BY DEF ShutDown, ends
<1>2. \A s \in Slots : ~(Busy(s))'
  BY <1>1 DEF Busy, Free
<1>3. TypeOK'
  BY <1>1, <1>2 DEF TypeOK, Empty
<1>4. CleanPool'
  BY <1>1 DEF CleanPool
<1>5. OnlyThisRun'
  BY <1>1, <1>2 DEF OnlyThisRun, Empty
<1> QED BY <1>3, <1>4, <1>5

-----------------------------------------------------------------------------
(* IInv is inductive.                                                      *)

LEMMA InitEstablishes ==
  ASSUME Init
  PROVE  IInv
<1>1. \A s \in Slots : ~Busy(s)
  BY DEF Init, Busy, Free
<1>2. TypeOK
  <2>1. runs \in 0 .. MaxRuns
    BY SessionAssumption DEF Init
  <2>2. proc \in [Slots -> {Free, Dead} \cup Actors(runs)]
    BY DEF Init
  <2>3. inbox \in [Addresses -> Seq(Messages)] /\ roots \in Seq(SUBSET Partials)
    BY DEF Init, Empty
  <2>4. fut \in [Addresses -> {"pending", "returned", "raised", "broken"}] /\ calls = {} /\ answer = None
    BY DEF Init
  <2>5. /\ opt \in Options /\ phase \in {"idle", "collect", "join", "shutdown"}
        /\ pool \in {"none", "up", "broken"} /\ outcome \in {None, "ok", "failed"}
        /\ overlap \in BOOLEAN /\ crashed \in BOOLEAN
    BY DEF Init
  <2> QED BY <1>1, <2>1, <2>2, <2>3, <2>4, <2>5 DEF TypeOK, Actors, Messages
<1>3. CleanPool
  BY DEF Init, CleanPool
<1>4. OnlyThisRun
  BY <1>1 DEF Init, OnlyThisRun, Empty
<1> QED BY <1>2, <1>3, <1>4 DEF IInv

LEMMA StepKeeps ==
  ASSUME IInv, [Next]_vars
  PROVE  IInv'
<1>1. CASE StartRun
  BY <1>1, StartRunKeeps
<1>2. CASE Close
  BY <1>2, MailTypes, DriverKeeps DEF Close, wires, ends, IInv, TypeOK
<1>3. CASE Break
  BY <1>3, BreakKeeps
<1>4. CASE CollectRoot
  BY <1>4, ReleaseKeepsMail, DriverKeeps DEF CollectRoot, IInv, TypeOK
<1>5. CASE GiveUp
  BY <1>5, ReleaseKeepsMail, LeaveIsOrderly, DriverKeeps DEF GiveUp
<1>6. CASE Join
  BY <1>6, MailTypes, LeaveIsOrderly, DriverKeeps DEF Join, wires
<1>7. CASE JoinRaises
  BY <1>7, MailTypes, LeaveIsOrderly, DriverKeeps DEF JoinRaises, wires
<1>8. CASE ShutDown
  BY <1>8, ShutDownKeeps
<1>9. CASE \E s \in Slots : Worker(s) \/ Crash(s)
  BY <1>9, TakeKeeps, WorkKeeps, AskKeeps, HandleKeeps, CrashKeeps DEF Worker
<1>10. CASE UNCHANGED vars
  BY <1>10 DEF vars, wires, ends, IInv, TypeOK, CleanPool, OnlyThisRun, Busy, Died, Pinned
<1> QED BY <1>1, <1>2, <1>3, <1>4, <1>5, <1>6, <1>7, <1>8, <1>9, <1>10 DEF Next, Driver

(* Every state of a session is one of the invariant.                        *)
LEMMA SessionInvariant == Spec => []IInv
BY InitEstablishes, StepKeeps, PTL DEF Spec

(* The state stays within its types, and a call that a process has taken is  *)
(* queued no more.                                                         *)
THEOREM SessionTypeCorrect == Spec => []TypeOK
<1>1. IInv => TypeOK
  BY DEF IInv
<1> QED BY <1>1, SessionInvariant, PTL

(* The root that _collect_peer takes is the whole of its own run and nothing *)
(* else, whatever earlier runs left behind in the kept registry, unless an   *)
(* actor of an earlier run was still there when the run started.            *)
THEOREM AnswerCorrect == Spec => []AnswerIsThisRuns
<1>1. IInv => AnswerIsThisRuns
  BY DEF IInv, OnlyThisRun, AnswerIsThisRuns
<1> QED BY <1>1, SessionInvariant, PTL

-----------------------------------------------------------------------------
(* What a clean run leaves behind.  The argument: each address has its call or *)
(* its actor until its future has an outcome, and sends its partial once; so  *)
(* when the root is sent every partial has arrived in it and none is about,   *)
(* done is then the one message of each inbox that is not about stealing, and *)
(* a future that returned has taken it.                                     *)

(* Who has still to send its partial, which partials the actor at address 0   *)
(* has not got yet, and whether the root has been sent.                     *)
Ours(a) == [addr |-> a, run |-> runs]
Unsent(a) ==
  \/ Ours(a) \in calls
  \/ \E s \in Slots : Busy(s) /\ proc[s].addr = a /\ ~proc[s].worked
Ungathered(a) == \A s \in Slots : Busy(s) /\ proc[s].addr = 0 => a \notin From(proc[s].parts)
Settled == phase = "join" \/ outcome = "ok"
RootSent == roots # <<>> \/ Settled

(* What a queue holds of partials and of done; none of them is in it twice.   *)
IsLetter(m) == m.tag \in {"done", "part"}
Letters(q) == {q[k] : k \in {i \in DOMAIN q : IsLetter(q[i])}}
Distinct(q) == \A j, k \in DOMAIN q : j # k /\ q[j] = q[k] => ~IsLetter(q[j])
NoPartsAbout == \A a \in Addresses : Letters(inbox[a]) \subseteq {DoneMsg}

OneActorEach ==
  \A s, t \in Slots : s # t /\ Busy(s) /\ Busy(t) => proc[s].addr # proc[t].addr
EndedIsGone ==
  \A a \in Addresses : fut[a] # "pending" =>
    /\ Ours(a) \notin calls
    /\ \A s \in Slots : Busy(s) => proc[s].addr # a
OneRoot == Len(roots) <= 1 /\ (Settled => roots = <<>>)
OneOfEach == \A a \in Addresses : Distinct(inbox[a])
PartsAbout ==
  \A a \in Addresses : \A m \in Letters(inbox[a]) : m # DoneMsg =>
    a = 0 /\ m.of[2] # 0 /\ ~Unsent(m.of[2]) /\ Ungathered(m.of[2])
UnsentIsNew == \A a \in Addresses : Unsent(a) => Ungathered(a)
RootIsLast == RootSent => NoPartsAbout /\ \A a \in Addresses : ~Unsent(a)
Collecting ==
  phase = "collect" => \A a \in Addresses : fut[a] # "returned" /\ DoneMsg \notin Letters(inbox[a])
Released ==
  Settled => \A a \in Addresses : fut[a] = "returned" => DoneMsg \notin Letters(inbox[a])
Outcomes ==
  /\ phase \in {"collect", "join"} => outcome = None
  /\ outcome = "ok" => AllReturned /\ phase \in {"idle", "shutdown"}

Alone ==
  /\ OneActorEach /\ EndedIsGone /\ OneRoot /\ OneOfEach /\ PartsAbout /\ UnsentIsNew /\ RootIsLast
  /\ Collecting /\ Released /\ Outcomes
CInv == ~overlap => Alone

(* A letter more, another message more, and what is left of a queue.         *)
Lengthened(q, e, t) ==
  /\ ~IsLetter(e) => Letters(t) = Letters(q)
  /\ IsLetter(e) => Letters(t) = Letters(q) \cup {e}
  /\ Distinct(q) /\ e \notin Letters(q) => Distinct(t)
LEMMA AppendedLetters ==
  ASSUME NEW S, NEW q \in Seq(S), NEW e \in S, NEW t, t = Append(q, e)
  PROVE  Lengthened(q, e, t)
<1> DEFINE n == Len(q)
<1>1. n \in Nat /\ DOMAIN q = 1 .. n /\ DOMAIN t = 1 .. n + 1 /\ t[n+1] = e /\ \A k \in 1 .. n : t[k] = q[k]
  BY AppendProperties, LenProperties
<1> HIDE DEF n
<1>2. \A k \in DOMAIN t : k = n + 1 \/ (k \in DOMAIN q /\ t[k] = q[k])
  BY <1>1
<1>3. n + 1 \in DOMAIN t /\ \A k \in DOMAIN q : k \in DOMAIN t /\ t[k] = q[k]
  BY <1>1
<1>4. Letters(q) \subseteq Letters(t) /\ Letters(t) \subseteq Letters(q) \cup {e}
  BY <1>1, <1>2, <1>3 DEF Letters
<1>5. \A m \in Letters(t) : IsLetter(m)
  BY DEF Letters
<1>6. IsLetter(e) => e \in Letters(t)
  BY <1>1, <1>3 DEF Letters
<1>7. ASSUME Distinct(q), e \notin Letters(q) PROVE Distinct(t)
  <2> SUFFICES ASSUME NEW j \in DOMAIN t, NEW k \in DOMAIN t, j # k, t[j] = t[k], IsLetter(t[j]) PROVE FALSE
    BY DEF Distinct
  <2>1. ASSUME NEW i \in DOMAIN q, q[i] = e, IsLetter(q[i]) PROVE FALSE
    BY <1>7, <2>1 DEF Letters
  <2>2. CASE j \in DOMAIN q /\ k \in DOMAIN q
    BY <1>3, <1>7, <2>2 DEF Distinct
  <2>3. CASE j = n + 1 \/ k = n + 1
    BY <1>1, <1>2, <2>1, <2>3
  <2> QED BY <1>2, <2>2, <2>3
<1> QED BY <1>4, <1>5, <1>6, <1>7 DEF Lengthened

LEMMA RestLetters ==
  ASSUME NEW S, NEW q \in Seq(S), NEW t, Rest(q, t)
  PROVE  /\ Letters(t) \subseteq Letters(q)
         /\ Distinct(q) => Distinct(t)
         /\ Distinct(q) /\ IsLetter(Head(q)) => Head(q) \in Letters(q) \ Letters(t)
<1>1. t \in Seq(S)
  BY RestItems
<1>2. PICK i \in 1 .. Len(q) : Len(t) = Len(q) - i /\ \A k \in 1 .. Len(t) : t[k] = q[k+i]
  BY RestItems
<1>3. /\ Len(q) \in Nat /\ DOMAIN q = 1 .. Len(q) /\ DOMAIN t = 1 .. Len(t) /\ i \in Nat \ {0}
      /\ 1 \in DOMAIN q /\ Head(q) = q[1]
  BY <1>1, <1>2, LenProperties
<1>4. \A k \in DOMAIN t : k \in Nat /\ k + i \in DOMAIN q /\ t[k] = q[k+i] /\ k + i # 1
  BY <1>2, <1>3
<1>5. Letters(t) \subseteq Letters(q)
  <2> SUFFICES ASSUME NEW k \in DOMAIN t, IsLetter(t[k]) PROVE t[k] \in Letters(q)
    BY DEF Letters
  <2> QED BY <1>4 DEF Letters
<1>6. ASSUME Distinct(q) PROVE Distinct(t)
  <2> SUFFICES ASSUME NEW j \in DOMAIN t, NEW k \in DOMAIN t, j # k, t[j] = t[k] PROVE ~IsLetter(t[j])
    BY DEF Distinct
  <2>1. j + i \in DOMAIN q /\ k + i \in DOMAIN q /\ j + i # k + i /\ q[j+i] = q[k+i] /\ t[j] = q[j+i]
    BY <1>3, <1>4
  <2> QED BY <1>6, <2>1 DEF Distinct
<1>7. ASSUME Distinct(q), IsLetter(Head(q)) PROVE Head(q) \in Letters(q) \ Letters(t)
  <2>1. Head(q) \in Letters(q)
    BY <1>3, <1>7 DEF Letters
  <2>2. ASSUME NEW k \in DOMAIN t, t[k] = Head(q) PROVE FALSE
    <3>1. k + i \in DOMAIN q /\ k + i # 1 /\ q[k+i] = q[1]
      BY <1>3, <1>4, <2>2
    <3> QED BY <1>3, <1>7, <3>1 DEF Distinct
  <2> QED BY <2>1, <2>2 DEF Letters
<1> QED BY <1>5, <1>6, <1>7

LEMMA NoLetters == Letters(<<>>) = {} /\ Distinct(<<>>)
BY DEF Letters, Distinct

(* The messages about.                                                      *)
LEMMA LettersAre ==
  ASSUME IInv, NEW a \in Addresses, NEW m \in Letters(inbox[a])
  PROVE  /\ m \in Messages /\ IsLetter(m)
         /\ m # DoneMsg => m.tag = "part"
         /\ ~overlap /\ m # DoneMsg => m.of[2] \in Addresses /\ m = Part(<<runs, m.of[2]>>)
<1>1. inbox[a] \in Seq(Messages) /\ (~overlap => inbox[a] \in Seq(MailOf(runs)))
  BY MailTypes
<1> DEFINE q == inbox[a]
<1>2. q \in Seq(Messages) /\ (~overlap => q \in Seq(MailOf(runs))) /\ m \in Letters(q)
  BY <1>1
<1> HIDE DEF q
<1>3. PICK k \in DOMAIN q : m = q[k] /\ IsLetter(q[k])
  BY <1>2 DEF Letters
<1>4. DOMAIN q = 1 .. Len(q)
  BY <1>2, LenProperties
<1>5. m \in Messages /\ (~overlap => m \in MailOf(runs))
  BY <1>2, <1>3, <1>4, ElementOfSeq
<1>6. m # DoneMsg => m.tag = "part"
  BY <1>3, <1>5, MessageKinds DEF IsLetter
<1> QED BY <1>3, <1>5, <1>6, OurMessageKinds

(* The queues after a message that is sent.                                  *)
LEMMA SentLetters ==
  ASSUME IInv, NEW b \in Addresses, NEW m \in Messages, inbox' = [inbox EXCEPT ![b] = Append(@, m)]
  PROVE  /\ \A a \in Addresses \ {b} : inbox'[a] = inbox[a]
         /\ ~IsLetter(m) => Letters(inbox'[b]) = Letters(inbox[b])
         /\ IsLetter(m) => Letters(inbox'[b]) = Letters(inbox[b]) \cup {m}
         /\ Distinct(inbox[b]) /\ m \notin Letters(inbox[b]) => Distinct(inbox'[b])
<1>1. inbox'[b] = Append(inbox[b], m) /\ inbox[b] \in Seq(Messages)
  BY MailTypes
<1>2. \A a \in Addresses \ {b} : inbox'[a] = inbox[a]
  BY MailTypes
<1> DEFINE q == inbox[b]
           t == inbox'[b]
<1>3. q \in Seq(Messages) /\ t = Append(q, m)
  BY <1>1
<1> HIDE DEF q, t
<1>4. Lengthened(q, m, t)
  BY <1>3, AppendedLetters
<1> QED BY <1>2, <1>4 DEF Lengthened, q, t

LEMMA OthersAreNoLetters ==
  /\ \A a : ~IsLetter(StealReq(a))
  /\ ~IsLetter(StealResp)
  /\ \A p : IsLetter(Part(p)) /\ Part(p) # DoneMsg /\ Part(p).of = p
  /\ IsLetter(DoneMsg)
BY DEF IsLetter, StealReq, StealResp, Part, DoneMsg

(* The queues after an actor has handled a message.                          *)
LEMMA HandledLetters ==
  ASSUME IInv, NEW s \in Slots, Handle(s), NEW b \in Addresses, proc[s].addr = b
  PROVE  /\ \A a \in Addresses : /\ Letters(inbox'[a]) \subseteq Letters(inbox[a])
                                 /\ Distinct(inbox[a]) => Distinct(inbox'[a])
         /\ Distinct(inbox[b]) /\ IsLetter(Head(inbox[b]))
              => Head(inbox[b]) \in Letters(inbox[b]) \ Letters(inbox'[b])
<1>1. PICK rest : /\ Rest(inbox[b], rest)
                  /\ \/ inbox' = [inbox EXCEPT ![b] = rest]
                     \/ \E thief \in Addresses :
                          inbox' = [[inbox EXCEPT ![b] = rest] EXCEPT ![thief] = Append(@, StealResp)]
  BY HandledMail
<1>2. inbox \in [Addresses -> Seq(Messages)] /\ rest \in Seq(Messages)
  BY <1>1, MailTypes, RestItems
<1> DEFINE mid == [inbox EXCEPT ![b] = rest]
<1>3. mid[b] = rest /\ \A a \in Addresses \ {b} : mid[a] = inbox[a]
  BY <1>2
<1>4. mid \in [Addresses -> Seq(Messages)]
  BY <1>2
<1> HIDE DEF mid
<1>5. ASSUME NEW a \in Addresses
      PROVE  Letters(inbox'[a]) = Letters(mid[a]) /\ (Distinct(mid[a]) => Distinct(inbox'[a]))
  <2>1. CASE inbox'[a] = mid[a]
    BY <2>1
  <2>2. CASE inbox'[a] = Append(mid[a], StealResp)
    <3>1. StealResp \in Messages /\ ~IsLetter(StealResp) /\ \A q : StealResp \notin Letters(q)
      BY OthersAreNoLetters DEF Messages, Letters
    <3> DEFINE q == mid[a]
               t == inbox'[a]
    <3>2. q \in Seq(Messages) /\ t = Append(q, StealResp)
      BY <1>4, <2>2
    <3> HIDE DEF q, t
    <3>3. Lengthened(q, StealResp, t)
      BY <3>1, <3>2, AppendedLetters
    <3> QED BY <3>1, <3>3 DEF Lengthened, q, t
  <2>3. inbox'[a] = mid[a] \/ inbox'[a] = Append(mid[a], StealResp)
    BY <1>1, <1>4 DEF mid
  <2> QED BY <2>1, <2>2, <2>3
<1>6. /\ Letters(rest) \subseteq Letters(inbox[b])
      /\ Distinct(inbox[b]) => Distinct(rest)
      /\ Distinct(inbox[b]) /\ IsLetter(Head(inbox[b])) => Head(inbox[b]) \in Letters(inbox[b]) \ Letters(rest)
  <2>1. inbox[b] \in Seq(Messages) /\ Rest(inbox[b], rest)
    BY <1>1, <1>2
  <2> QED BY <2>1, RestLetters
<1> QED BY <1>3, <1>5, <1>6

(* A busy process, in a run that is alone.                                  *)
LEMMA SoloActor ==
  ASSUME IInv, ~overlap, NEW s \in Slots, Busy(s)
  PROVE  /\ proc[s] \in Actors(runs) /\ proc[s].addr \in Addresses /\ proc[s].worked \in BOOLEAN
         /\ proc[s].run = runs /\ proc[s].parts \in SUBSET Whole(runs)
         /\ CallOf(proc[s]) = Ours(proc[s].addr) /\ Ours(proc[s].addr) \notin calls
<1>1. proc[s] \in Actors(runs) /\ CallOf(proc[s]) \notin calls
  BY BusyIsActor DEF IInv
<1>2. proc[s].run = runs /\ proc[s].parts \subseteq Whole(runs)
  BY DEF IInv, OnlyThisRun
<1>3. proc[s].addr \in Addresses /\ proc[s].worked \in BOOLEAN
  BY <1>1 DEF Actors
<1> QED BY <1>1, <1>2, <1>3 DEF CallOf, Ours

(* An actor that stays at its address, or ends, or dies.                     *)
LEMMA ActorMoves ==
  ASSUME IInv, ~overlap, Alone, NEW s \in Slots, Busy(s), UNCHANGED <<runs, calls>>,
         NEW b, proc[s].addr = b,
         NEW a, proc' = [proc EXCEPT ![s] = a],
         a.state = "busy" => a.addr = b /\ (proc[s].worked => a.worked)
  PROVE  /\ OneActorEach'
         /\ \A c : (Unsent(c))' => Unsent(c)
         /\ (a.state = "busy" => a.worked) => ~(Unsent(b))'
         /\ \A c : Ungathered(c) /\ (a.state = "busy" /\ b = 0 => c \notin From(a.parts))
                     => (Ungathered(c))'
<1>1. \A t \in Slots : t # s => proc'[t] = proc[t]
  BY DEF IInv, TypeOK
<1>2. proc'[s] = a
  BY DEF IInv, TypeOK
<1>3. \A t \in Slots : t # s => ((Busy(t))' <=> Busy(t))
  BY <1>1 DEF Busy
<1>4. (Busy(s))' <=> a.state = "busy"
  BY <1>2 DEF Busy
<1>5. OneActorEach'
  BY <1>1, <1>2, <1>3, <1>4 DEF Alone, OneActorEach
<1>6. \A c : (Ours(c))' = Ours(c)
  BY DEF Ours
<1>7. ASSUME NEW c, (Unsent(c))' PROVE Unsent(c)
  <2>1. CASE Ours(c) \in calls
    BY <2>1 DEF Unsent
  <2>2. CASE \E t \in Slots : (Busy(t))' /\ proc'[t].addr = c /\ ~proc'[t].worked
    <3>1. PICK t \in Slots : (Busy(t))' /\ proc'[t].addr = c /\ ~proc'[t].worked
      BY <2>2
    <3>2. Busy(t) /\ proc[t].addr = c /\ ~proc[t].worked
      BY <3>1, <1>1, <1>2, <1>3, <1>4
    <3> QED BY <3>2 DEF Unsent
  <2> QED BY <1>6, <1>7, <2>1, <2>2 DEF Unsent
<1>8. ASSUME a.state = "busy" => a.worked PROVE ~(Unsent(b))'
  <2>1. Ours(b) \notin calls
    BY SoloActor
  <2>2. ASSUME NEW t \in Slots, (Busy(t))', proc'[t].addr = b, ~proc'[t].worked PROVE FALSE
    <3>1. t # s
      BY <2>2, <1>2, <1>4, <1>8
    <3> QED BY <2>2, <3>1, <1>1, <1>3 DEF Alone, OneActorEach
  <2> QED BY <2>1, <2>2, <1>6 DEF Unsent
<1>9. ASSUME NEW c, Ungathered(c), a.state = "busy" /\ b = 0 => c \notin From(a.parts)
      PROVE  (Ungathered(c))'
  BY <1>9, <1>1, <1>2, <1>3, <1>4 DEF Ungathered
<1> QED BY <1>5, <1>7, <1>8, <1>9

(* A free process takes a call: the address has its actor instead.            *)
LEMMA TakeKeepsAlone ==
  ASSUME IInv, CInv, NEW s \in Slots, Take(s)
  PROVE  CInv'
<1>1. PICK c \in For(s) : proc' = [proc EXCEPT ![s] = Actor(c)] /\ calls' = calls \ {c}
  BY DEF Take, Without
<1>2. /\ proc[s] = Free
      /\ UNCHANGED <<opt, runs, phase, pool, inbox, roots, fut, answer, outcome, overlap, crashed>>
  BY DEF Take, wires, ends
<1>3. SUFFICES ASSUME ~overlap PROVE Alone'
  BY <1>2 DEF CInv
<1>4. Alone
  BY <1>3 DEF CInv
<1>5. c \in calls /\ c \in Calls(runs) /\ c = Ours(c.addr) /\ c.addr \in Addresses
  <2>1. c \in calls /\ c \in Calls(runs)
    BY <1>1 DEF For, IInv, TypeOK, Calls
  <2>2. c.run = runs
    BY <1>1, <1>2, <1>3, <2>1 DEF IInv, OnlyThisRun, For, Died, Free
  <2> QED BY <2>1, <2>2 DEF Calls, Ours
<1>6. \A t \in Slots : t # s => proc'[t] = proc[t]
  BY <1>1 DEF IInv, TypeOK
<1>7. proc'[s] = Actor(c) /\ Actor(c).state = "busy" /\ Actor(c).addr = c.addr
      /\ Actor(c).worked = FALSE /\ Actor(c).parts = {}
  BY <1>1 DEF IInv, TypeOK, Actor
<1>8. ~Busy(s) /\ (Busy(s))' /\ \A t \in Slots : t # s => ((Busy(t))' <=> Busy(t))
  BY <1>2, <1>6, <1>7 DEF Busy, Free
<1>9. \A t \in Slots : Busy(t) => proc[t].addr # c.addr
  <2> SUFFICES ASSUME NEW t \in Slots, Busy(t), proc[t].addr = c.addr PROVE FALSE
    OBVIOUS
  <2> QED BY <1>3, <1>5, SoloActor
<1>10. \A a : (Ours(a))' = Ours(a)
  BY <1>2 DEF Ours
<1>11. \A a : (Unsent(a))' => Unsent(a)
  <2> SUFFICES ASSUME NEW a, (Unsent(a))' PROVE Unsent(a)
    OBVIOUS
  <2>1. CASE Ours(a) \in calls'
    BY <2>1, <1>1 DEF Unsent
  <2>2. CASE \E t \in Slots : (Busy(t))' /\ proc'[t].addr = a /\ ~proc'[t].worked
    <3>1. PICK t \in Slots : (Busy(t))' /\ proc'[t].addr = a /\ ~proc'[t].worked
      BY <2>2
    <3>2. CASE t = s
      BY <3>1, <3>2, <1>5, <1>7 DEF Unsent
    <3>3. CASE t # s
      BY <3>1, <3>3, <1>6, <1>8 DEF Unsent
    <3> QED BY <3>2, <3>3
  <2> QED BY <2>1, <2>2, <1>10 DEF Unsent
<1>12. \A a : Ungathered(a) => (Ungathered(a))'
  BY <1>6, <1>7, <1>8 DEF Ungathered, From
<1>13. OneActorEach'
  BY <1>4, <1>6, <1>7, <1>8, <1>9 DEF Alone, OneActorEach
<1>14. EndedIsGone'
  <2> SUFFICES ASSUME NEW a \in Addresses, fut[a] # "pending"
               PROVE  Ours(a) \notin calls' /\ \A t \in Slots : (Busy(t))' => proc'[t].addr # a
    BY <1>2, <1>10 DEF EndedIsGone
  <2>1. Ours(a) \notin calls /\ \A t \in Slots : Busy(t) => proc[t].addr # a
    BY <1>4 DEF Alone, EndedIsGone
  <2>2. c.addr # a
    BY <2>1, <1>5
  <2> QED BY <2>1, <2>2, <1>1, <1>6, <1>7, <1>8
<1>15. PartsAbout' /\ UnsentIsNew' /\ RootIsLast'
  BY <1>2, <1>4, <1>11, <1>12
  DEF Alone, PartsAbout, UnsentIsNew, RootIsLast, RootSent, Settled, NoPartsAbout
<1>16. OneRoot' /\ OneOfEach' /\ Collecting' /\ Released' /\ Outcomes'
  BY <1>2, <1>4 DEF Alone, OneRoot, OneOfEach, Collecting, Released, Outcomes, Settled, AllReturned
<1> QED BY <1>13, <1>14, <1>15, <1>16 DEF Alone

(* A call that is over.                                                     *)
LEMMA EndsAlone ==
  ASSUME IInv, ~overlap, Alone, NEW s \in Slots, Busy(s), NEW how \in {"returned", "raised"},
         Ends(s, how), UNCHANGED <<runs, calls>>, NEW b, proc[s].addr = b
  PROVE  /\ OneActorEach' /\ EndedIsGone' /\ fut' = [fut EXCEPT ![b] = how]
         /\ \A c : (Unsent(c))' => Unsent(c)
         /\ ~(Unsent(b))'
         /\ \A c : Ungathered(c) => (Ungathered(c))'
<1>1. proc' = [proc EXCEPT ![s] = Free] /\ fut' = [fut EXCEPT ![b] = how]
  BY SoloActor DEF Ends
<1>2. Free.state # "busy"
  BY DEF Free
<1>3. /\ OneActorEach'
      /\ \A c : (Unsent(c))' => Unsent(c)
      /\ ~(Unsent(b))'
      /\ \A c : Ungathered(c) => (Ungathered(c))'
  BY <1>1, <1>2, ActorMoves
<1>4. EndedIsGone'
  <2>1. \A t \in Slots : (Busy(t))' => t # s /\ Busy(t) /\ proc'[t] = proc[t]
    BY <1>1, <1>2 DEF IInv, TypeOK, Busy
  <2>2. \A a : (Ours(a))' = Ours(a)
    BY DEF Ours
  <2> SUFFICES ASSUME NEW a \in Addresses, fut'[a] # "pending"
               PROVE  Ours(a) \notin calls /\ \A t \in Slots : (Busy(t))' => proc'[t].addr # a
    BY <2>2 DEF EndedIsGone
  <2>3. CASE a = b
    BY <2>1, <2>3, SoloActor DEF Alone, OneActorEach
  <2>4. CASE a # b
    <3>1. fut[a] # "pending"
      BY <1>1, <2>4 DEF IInv, TypeOK
    <3> QED BY <2>1, <3>1 DEF Alone, EndedIsGone
  <2> QED BY <2>3, <2>4
<1> QED BY <1>1, <1>3, <1>4

(* The actor at address 0 takes the partial of address d, which nobody has    *)
(* still to send: when it has them all, nothing else is about.               *)
LEMMA GatherAlone ==
  ASSUME IInv, ~overlap, Alone, ~RootSent, NEW s \in Slots, Busy(s), proc[s].addr = 0,
         NEW worked \in BOOLEAN, proc[s].worked => worked,
         NEW d \in Addresses, Gather(s, worked, <<runs, d>>),
         UNCHANGED <<runs, phase, calls, fut, outcome>>,
         ~(Unsent(d))',
         OneOfEach',
         \A a \in Addresses : \A m \in Letters(inbox'[a]) : m # DoneMsg =>
           a = 0 /\ m.of[2] \in Addresses \ {0, d} /\ ~Unsent(m.of[2]) /\ Ungathered(m.of[2]),
         phase = "collect" => \A a \in Addresses : DoneMsg \notin Letters(inbox'[a])
  PROVE  Alone'
<1> DEFINE parts == proc[s].parts \cup {<<runs, d>>}
           new == [proc[s] EXCEPT !.worked = worked, !.parts = parts]
<1>1. proc' = [proc EXCEPT ![s] = new]
  BY DEF Gather
<1>2. roots' = IF From(parts) = Addresses THEN Append(roots, parts) ELSE roots
  BY DEF Gather
<1>3. new.state = "busy" /\ new.addr = 0 /\ new.worked = worked /\ new.parts = parts
  BY SoloActor DEF Actors, Busy
<1>4. From(parts) = From(proc[s].parts) \cup {d}
  BY DEF From
<1> HIDE DEF parts, new
<1>5. /\ OneActorEach'
      /\ \A c : (Unsent(c))' => Unsent(c)
      /\ \A c : Ungathered(c) /\ c \notin From(parts) => (Ungathered(c))'
  BY <1>1, <1>3, ActorMoves
<1>6. \A c : Ungathered(c) => c \notin From(proc[s].parts)
  BY DEF Ungathered
<1>7. \A c : Ungathered(c) /\ c # d => (Ungathered(c))'
  BY <1>4, <1>5, <1>6
<1>8. \A t \in Slots : (Busy(t))' => Busy(t) /\ proc'[t].addr = proc[t].addr
  BY <1>1, <1>3 DEF IInv, TypeOK, Busy
<1>9. EndedIsGone'
  BY <1>8 DEF Alone, EndedIsGone, Ours
<1>10. UnsentIsNew'
  BY <1>5, <1>7 DEF Alone, UnsentIsNew
<1>11. PartsAbout'
  BY <1>5, <1>7 DEF PartsAbout
<1>12. ~Settled /\ ~Settled' /\ roots = <<>>
  BY DEF RootSent, Settled
<1>13. OneRoot'
  <2>1. Len(roots') <= 1
    BY <1>2, <1>12
  <2> QED BY <2>1, <1>12 DEF OneRoot
<1>14. RootIsLast'
  <2> SUFFICES ASSUME RootSent' PROVE NoPartsAbout' /\ \A a \in Addresses : ~(Unsent(a))'
    BY DEF RootIsLast
  <2>1. From(parts) = Addresses
    BY <1>2, <1>12 DEF RootSent
  <2>2. (Busy(s))' /\ proc'[s].addr = 0 /\ proc'[s].parts = parts
    BY <1>1, <1>3 DEF IInv, TypeOK, Busy
  <2>3. \A a \in Addresses : ~(Ungathered(a))'
    BY <2>1, <2>2 DEF Ungathered
  <2>4. \A a \in Addresses : ~(Unsent(a))'
    BY <1>10, <2>3 DEF UnsentIsNew
  <2>5. \A a \in Addresses : Letters(inbox'[a]) \subseteq {DoneMsg}
    <3> SUFFICES ASSUME NEW a \in Addresses, NEW m \in Letters(inbox'[a]), m # DoneMsg PROVE FALSE
      OBVIOUS
    <3>1. m.of[2] \in Addresses \ {d} /\ Ungathered(m.of[2])
      OBVIOUS
    <3> QED BY <3>1, <1>7, <2>3
  <2> QED BY <2>4, <2>5 DEF NoPartsAbout
<1>15. Collecting' /\ Released' /\ Outcomes'
  BY <1>12 DEF Alone, Collecting, Released, Outcomes, AllReturned
<1> QED BY <1>5, <1>9, <1>10, <1>11, <1>13, <1>14, <1>15 DEF Alone

(* An actor works on its leaves: it raises, or takes its own partial, or sends *)
(* it to address 0.                                                         *)
LEMMA WorkKeepsAlone ==
  ASSUME IInv, CInv, NEW s \in Slots, Work(s)
  PROVE  CInv'
<1>1. Busy(s) /\ ~proc[s].worked
      /\ UNCHANGED <<opt, runs, pool, phase, calls, overlap, answer, outcome, crashed>>
  BY DEF Work, ends
<1>2. SUFFICES ASSUME ~overlap PROVE Alone'
  BY <1>1 DEF CInv
<1>3. Alone
  BY <1>2 DEF CInv
<1>4. PICK b \in Addresses : proc[s].addr = b
  BY <1>1, <1>2, SoloActor
<1>5. Unsent(b) /\ ~RootSent /\ Ungathered(b) /\ roots = <<>> /\ ~Settled
  <2>1. Unsent(b)
    BY <1>1, <1>4 DEF Unsent
  <2> QED BY <1>3, <2>1 DEF Alone, RootIsLast, UnsentIsNew, RootSent
<1>6. <<proc[s].run, proc[s].addr>> = <<runs, b>>
  BY <1>1, <1>2, <1>4, SoloActor
<1>7. \A a \in Addresses : \A m \in Letters(inbox[a]) : m # DoneMsg =>
        a = 0 /\ m.of[2] \in Addresses \ {0, b} /\ ~Unsent(m.of[2]) /\ Ungathered(m.of[2])
  <2> SUFFICES ASSUME NEW a \in Addresses, NEW m \in Letters(inbox[a]), m # DoneMsg
               PROVE  a = 0 /\ m.of[2] \in Addresses \ {0, b} /\ ~Unsent(m.of[2]) /\ Ungathered(m.of[2])
    OBVIOUS
  <2>1. m.of[2] \in Addresses
    BY <1>2, LettersAre
  <2> QED BY <2>1, <1>3, <1>5 DEF Alone, PartsAbout
<1>8. CASE Ends(s, "raised") /\ UNCHANGED wires
  <2>1. /\ OneActorEach' /\ EndedIsGone' /\ fut' = [fut EXCEPT ![b] = "raised"]
        /\ \A c : (Unsent(c))' => Unsent(c)
        /\ \A c : Ungathered(c) => (Ungathered(c))'
    BY <1>1, <1>2, <1>3, <1>4, <1>8, EndsAlone
  <2>2. UNCHANGED <<inbox, roots>> /\ ~Settled' /\ ~RootSent'
    BY <1>1, <1>5, <1>8 DEF wires, Settled, RootSent
  <2>3. PartsAbout' /\ UnsentIsNew'
    BY <1>3, <2>1, <2>2 DEF Alone, PartsAbout, UnsentIsNew
  <2>4. OneRoot' /\ OneOfEach' /\ RootIsLast' /\ Released'
    BY <1>3, <1>5, <2>2 DEF Alone, OneRoot, OneOfEach, RootIsLast, Released
  <2>5. \A a \in Addresses : fut[a] # "returned" => fut'[a] # "returned"
    BY <2>1 DEF IInv, TypeOK
  <2>6. Collecting' /\ Outcomes'
    BY <1>1, <1>3, <1>5, <2>2, <2>5 DEF Alone, Collecting, Outcomes, Settled
  <2> QED BY <2>1, <2>3, <2>4, <2>6 DEF Alone
<1>9. CASE b = 0 /\ Gather(s, TRUE, <<runs, b>>) /\ UNCHANGED <<inbox, fut>>
  <2> DEFINE new == [proc[s] EXCEPT !.worked = TRUE, !.parts = proc[s].parts \cup {<<runs, b>>}]
  <2>1. proc' = [proc EXCEPT ![s] = new]
    BY <1>9 DEF Gather
  <2>2. new.addr = b /\ new.worked = TRUE
    BY <1>1, <1>2, <1>4, SoloActor DEF Actors
  <2> HIDE DEF new
  <2>3. ~(Unsent(b))'
    BY <1>1, <1>2, <1>3, <1>4, <2>1, <2>2, ActorMoves
  <2>4. phase = "collect" => \A a \in Addresses : DoneMsg \notin Letters(inbox'[a])
    BY <1>3, <1>9 DEF Alone, Collecting
  <2>5. UNCHANGED <<runs, phase, calls, fut, outcome, inbox>> /\ OneOfEach'
    BY <1>1, <1>3, <1>9 DEF Alone, OneOfEach
  <2>6. \A a \in Addresses : \A m \in Letters(inbox'[a]) : m # DoneMsg =>
          a = 0 /\ m.of[2] \in Addresses \ {0, b} /\ ~Unsent(m.of[2]) /\ Ungathered(m.of[2])
    BY <1>7, <2>5
  <2>7. proc[s].addr = 0 /\ Gather(s, TRUE, <<runs, b>>) /\ TRUE \in BOOLEAN
    BY <1>4, <1>9
  <2> QED BY <1>1, <1>2, <1>3, <1>5, <2>3, <2>4, <2>5, <2>6, <2>7, GatherAlone
<1>10. CASE /\ b # 0
            /\ inbox' = [inbox EXCEPT ![0] = Append(@, Part(<<runs, b>>))]
            /\ proc' = [proc EXCEPT ![s].worked = TRUE]
            /\ UNCHANGED <<roots, fut>>
  <2> DEFINE new == [proc[s] EXCEPT !.worked = TRUE]
  <2>1. proc' = [proc EXCEPT ![s] = new]
    BY <1>10
  <2>2. new.state = "busy" /\ new.addr = b /\ new.worked = TRUE /\ new.parts = proc[s].parts
    BY <1>1, <1>2, <1>4, SoloActor DEF Actors, Busy
  <2> HIDE DEF new
  <2>3. /\ OneActorEach' /\ ~(Unsent(b))'
        /\ \A c : (Unsent(c))' => Unsent(c)
        /\ \A c : Ungathered(c) => (Ungathered(c))'
    <3>1. b # 0 /\ Busy(s) /\ proc[s].addr = b /\ UNCHANGED <<runs, calls>>
      BY <1>1, <1>4, <1>10
    <3>2. new.state = "busy" => new.addr = b /\ (proc[s].worked => new.worked)
      BY <2>2
    <3>3. OneActorEach'
      BY <1>2, <1>3, <2>1, <3>1, <3>2, ActorMoves
    <3>4. \A c : (Unsent(c))' => Unsent(c)
      BY <1>2, <1>3, <2>1, <3>1, <3>2, ActorMoves
    <3>5. ~(Unsent(b))'
      BY <1>2, <1>3, <2>1, <2>2, <3>1, <3>2, ActorMoves
    <3>6. ASSUME NEW c, Ungathered(c) PROVE (Ungathered(c))'
      <4>1. \A t \in Slots : t # s => proc'[t] = proc[t]
        BY <2>1 DEF IInv, TypeOK
      <4>2. proc'[s].addr # 0
        BY <2>1, <2>2, <3>1 DEF IInv, TypeOK
      <4> QED BY <3>6, <4>1, <4>2 DEF Ungathered, Busy
    <3> QED BY <3>3, <3>4, <3>5, <3>6
  <2>4. EndedIsGone'
    <3>1. \A t \in Slots : (Busy(t))' => Busy(t) /\ proc'[t].addr = proc[t].addr
      BY <1>1, <1>4, <2>1, <2>2 DEF IInv, TypeOK, Busy
    <3> QED BY <1>1, <1>3, <1>10, <3>1 DEF Alone, EndedIsGone, Ours
  <2>5. UnsentIsNew'
    BY <1>3, <2>3 DEF Alone, UnsentIsNew
  <2>6. 0 \in Addresses /\ Part(<<runs, b>>) \in Messages
    BY <1>1, <1>2, <1>4, OwnPartial, SoloActor, SessionAssumption DEF IInv, Addresses, Messages
  <2>7. /\ \A a \in Addresses \ {0} : inbox'[a] = inbox[a]
        /\ Letters(inbox'[0]) = Letters(inbox[0]) \cup {Part(<<runs, b>>)}
        /\ Distinct(inbox[0]) /\ Part(<<runs, b>>) \notin Letters(inbox[0]) => Distinct(inbox'[0])
    BY <1>10, <2>6, SentLetters, OthersAreNoLetters
  <2>8. OneOfEach'
    <3>1. Part(<<runs, b>>).of[2] = b /\ Part(<<runs, b>>) # DoneMsg
      BY OthersAreNoLetters
    <3>2. Part(<<runs, b>>) \notin Letters(inbox[0])
      BY <1>7, <2>6, <3>1
    <3> QED BY <1>3, <2>7, <3>2 DEF Alone, OneOfEach
  <2>9. PartsAbout'
    <3> SUFFICES ASSUME NEW a \in Addresses, NEW m \in Letters(inbox'[a]), m # DoneMsg
                 PROVE  a = 0 /\ m.of[2] # 0 /\ (~Unsent(m.of[2]) /\ Ungathered(m.of[2]))'
      BY DEF PartsAbout
    <3>1. CASE m \in Letters(inbox[a])
      <4>1. a = 0 /\ m.of[2] # 0 /\ ~Unsent(m.of[2]) /\ Ungathered(m.of[2])
        BY <1>7, <3>1
      <4> QED BY <2>3, <4>1
    <3>2. CASE a = 0 /\ m = Part(<<runs, b>>)
      <4>1. m.of[2] = b
        BY <3>2, OthersAreNoLetters
      <4> QED BY <1>5, <1>10, <2>3, <3>2, <4>1
    <3> QED BY <2>7, <3>1, <3>2
  <2>10. ~Settled' /\ ~RootSent'
    BY <1>1, <1>5, <1>10 DEF Settled, RootSent
  <2>11. OneRoot' /\ RootIsLast' /\ Released'
    BY <1>3, <1>5, <1>10, <2>10 DEF Alone, OneRoot, RootIsLast, Released
  <2>12. Collecting'
    <3>1. DoneMsg # Part(<<runs, b>>)
      BY OthersAreNoLetters
    <3>2. \A a \in Addresses : DoneMsg \in Letters(inbox'[a]) => DoneMsg \in Letters(inbox[a])
      BY <2>7, <3>1
    <3> QED BY <1>1, <1>3, <1>10, <3>2 DEF Alone, Collecting
  <2>13. Outcomes'
    BY <1>1, <1>3, <1>10 DEF Alone, Outcomes, AllReturned
  <2> QED BY <2>3, <2>4, <2>5, <2>8, <2>9, <2>11, <2>12, <2>13 DEF Alone
<1> QED BY <1>4, <1>6, <1>8, <1>9, <1>10 DEF Work

(* An actor asks for a leaf.                                                *)
LEMMA AskKeepsAlone ==
  ASSUME IInv, CInv, NEW s \in Slots, Ask(s)
  PROVE  CInv'
<1> DEFINE new == [proc[s] EXCEPT !.asked = @ + 1]
<1>1. /\ Busy(s) /\ proc' = [proc EXCEPT ![s] = new]
      /\ UNCHANGED <<opt, runs, pool, phase, calls, overlap, roots, fut, answer, outcome, crashed>>
  BY DEF Ask, ends
<1>2. SUFFICES ASSUME ~overlap PROVE Alone'
  BY <1>1 DEF CInv
<1>3. Alone
  BY <1>2 DEF CInv
<1>4. PICK b \in Addresses : proc[s].addr = b
  BY <1>1, <1>2, SoloActor
<1>5. new.state = "busy" /\ new.addr = b /\ new.worked = proc[s].worked /\ new.parts = proc[s].parts
  BY <1>1, <1>2, <1>4, SoloActor DEF Actors, Busy
<1>6. PICK victim \in Addresses : inbox' = [inbox EXCEPT ![victim] = Append(@, StealReq(b))]
  BY <1>4 DEF Ask
<1>7. \A a \in Addresses : Letters(inbox'[a]) = Letters(inbox[a]) /\ (Distinct(inbox[a]) => Distinct(inbox'[a]))
  <2>1. StealReq(b) \in Messages /\ ~IsLetter(StealReq(b)) /\ \A q : StealReq(b) \notin Letters(q)
    BY OthersAreNoLetters DEF Messages, Letters
  <2> QED BY <1>6, <2>1, SentLetters
<1> HIDE DEF new
<1>8. /\ OneActorEach'
      /\ \A c : (Unsent(c))' => Unsent(c)
      /\ \A c : Ungathered(c) /\ (b = 0 => c \notin From(new.parts)) => (Ungathered(c))'
  BY <1>1, <1>2, <1>3, <1>4, <1>5, ActorMoves
<1>9. \A c : Ungathered(c) => (Ungathered(c))'
  BY <1>1, <1>4, <1>5, <1>8 DEF Ungathered
<1>10. EndedIsGone'
  <2>1. \A t \in Slots : (Busy(t))' => Busy(t) /\ proc'[t].addr = proc[t].addr
    BY <1>1, <1>4, <1>5 DEF IInv, TypeOK, Busy
  <2> QED BY <1>1, <1>3, <2>1 DEF Alone, EndedIsGone, Ours
<1>11. PartsAbout' /\ UnsentIsNew' /\ OneOfEach'
  BY <1>3, <1>7, <1>8, <1>9 DEF Alone, PartsAbout, UnsentIsNew, OneOfEach
<1>12. OneRoot' /\ RootIsLast' /\ Collecting' /\ Released' /\ Outcomes'
  BY <1>1, <1>3, <1>7, <1>8
  DEF Alone, OneRoot, RootIsLast, RootSent, NoPartsAbout, Collecting, Released, Outcomes, Settled, AllReturned
<1> QED BY <1>8, <1>10, <1>11, <1>12 DEF Alone

(* Steps that do not touch the actors.                                      *)
LEMMA DriverAlone ==
  ASSUME Alone, UNCHANGED <<runs, proc, calls, fut>>
  PROVE  /\ OneActorEach' /\ EndedIsGone' /\ UnsentIsNew'
         /\ \A a : (Unsent(a))' = Unsent(a)
         /\ \A a : (Ungathered(a))' = Ungathered(a)
<1>1. OneActorEach' /\ EndedIsGone'
  BY DEF Alone, OneActorEach, EndedIsGone, Busy, Ours
<1>2. \A a : (Unsent(a))' = Unsent(a)
  BY DEF Unsent, Busy, Ours
<1>3. \A a : (Ungathered(a))' = Ungathered(a)
  BY DEF Ungathered, Busy
<1>4. UnsentIsNew'
  BY <1>2, <1>3 DEF Alone, UnsentIsNew
<1> QED BY <1>1, <1>2, <1>3, <1>4

(* Messages are taken, and nothing else happens.                             *)
LEMMA FewerLettersAlone ==
  ASSUME Alone, UNCHANGED <<runs, phase, calls, proc, roots, fut, outcome>>,
         \A a \in Addresses : Letters(inbox'[a]) \subseteq Letters(inbox[a]), OneOfEach'
  PROVE  Alone'
<1>1. /\ OneActorEach' /\ EndedIsGone' /\ UnsentIsNew'
      /\ \A a : (Unsent(a))' = Unsent(a)
      /\ \A a : (Ungathered(a))' = Ungathered(a)
  BY DriverAlone
<1>2. PartsAbout' /\ RootIsLast'
  BY <1>1 DEF Alone, PartsAbout, RootIsLast, RootSent, Settled, NoPartsAbout
<1>3. OneRoot' /\ Collecting' /\ Released' /\ Outcomes'
  BY DEF Alone, OneRoot, Collecting, Released, Outcomes, Settled, AllReturned
<1> QED BY <1>1, <1>2, <1>3 DEF Alone

(* done ends an actor.                                                      *)
LEMMA DoneAlone ==
  ASSUME IInv, ~overlap, Alone, NEW s \in Slots, Busy(s), NEW b \in Addresses, proc[s].addr = b,
         Ends(s, "returned"), UNCHANGED <<runs, phase, calls, roots, outcome>>,
         \A a \in Addresses : Letters(inbox'[a]) \subseteq Letters(inbox[a]), OneOfEach',
         DoneMsg \in Letters(inbox[b]) \ Letters(inbox'[b])
  PROVE  Alone'
<1>1. /\ OneActorEach' /\ EndedIsGone' /\ fut' = [fut EXCEPT ![b] = "returned"]
      /\ \A c : (Unsent(c))' => Unsent(c)
      /\ \A c : Ungathered(c) => (Ungathered(c))'
  BY EndsAlone
<1>2. fut[b] = "pending"
  BY DEF Alone, EndedIsGone
<1>3. phase # "collect" /\ outcome # "ok"
  BY <1>2 DEF Alone, Collecting, Outcomes, AllReturned
<1>4. PartsAbout' /\ UnsentIsNew'
  BY <1>1 DEF Alone, PartsAbout, UnsentIsNew
<1>5. RootIsLast'
  BY <1>1 DEF Alone, RootIsLast, RootSent, Settled, NoPartsAbout
<1>6. OneRoot' /\ Collecting' /\ Outcomes'
  BY <1>3 DEF Alone, OneRoot, Collecting, Outcomes, Settled
<1>7. Released'
  <2> SUFFICES ASSUME Settled, NEW a \in Addresses, fut'[a] = "returned" PROVE DoneMsg \notin Letters(inbox'[a])
    BY DEF Released, Settled
  <2>1. CASE a # b
    <3>1. fut[a] = "returned"
      BY <1>1, <2>1 DEF IInv, TypeOK
    <3> QED BY <3>1 DEF Alone, Released
  <2> QED BY <2>1
<1> QED BY <1>1, <1>4, <1>5, <1>6, <1>7 DEF Alone

(* A partial is taken.                                                      *)
LEMMA PartAlone ==
  ASSUME IInv, ~overlap, Alone, NEW s \in Slots, Busy(s), NEW b \in Addresses, proc[s].addr = b,
         NEW m, m # DoneMsg, Gather(s, proc[s].worked, m.of), UNCHANGED <<runs, phase, calls, fut, outcome>>,
         \A a \in Addresses : Letters(inbox'[a]) \subseteq Letters(inbox[a]), OneOfEach',
         m \in Letters(inbox[b]) \ Letters(inbox'[b])
  PROVE  Alone'
<1>1. PICK d \in Addresses : m.of[2] = d /\ m = Part(<<runs, d>>)
  BY LettersAre
<1>2. m.of = <<runs, d>>
  BY <1>1, OthersAreNoLetters
<1>3. b = 0 /\ ~Unsent(d) /\ Ungathered(d) /\ ~RootSent
  BY <1>1 DEF Alone, PartsAbout, RootIsLast, NoPartsAbout
<1>4. PICK worked \in BOOLEAN : proc[s].worked = worked
  BY SoloActor
<1>5. Gather(s, worked, <<runs, d>>)
  BY <1>2, <1>4
<1> DEFINE new == [proc[s] EXCEPT !.worked = worked, !.parts = proc[s].parts \cup {<<runs, d>>}]
<1>6. proc' = [proc EXCEPT ![s] = new]
  BY <1>5 DEF Gather
<1>7. new.addr = b /\ new.worked = worked
  BY SoloActor DEF Actors
<1> HIDE DEF new
<1>8. ~(Unsent(d))'
  <2>1. \A c : (Unsent(c))' => Unsent(c)
    BY <1>4, <1>6, <1>7, ActorMoves
  <2> QED BY <1>3, <2>1
<1>9. phase = "collect" => \A a \in Addresses : DoneMsg \notin Letters(inbox'[a])
  BY DEF Alone, Collecting
<1>10. ASSUME NEW a \in Addresses, NEW l \in Letters(inbox'[a]), l # DoneMsg
       PROVE  a = 0 /\ l.of[2] \in Addresses \ {0, d} /\ ~Unsent(l.of[2]) /\ Ungathered(l.of[2])
  <2>1. l \in Letters(inbox[a]) /\ l.of[2] \in Addresses /\ l = Part(<<runs, l.of[2]>>)
    BY <1>10, LettersAre
  <2>2. a = 0 /\ l.of[2] # 0 /\ ~Unsent(l.of[2]) /\ Ungathered(l.of[2])
    BY <1>10, <2>1 DEF Alone, PartsAbout
  <2>3. l.of[2] # d
    BY <1>1, <1>3, <1>10, <2>1, <2>2
  <2> QED BY <2>1, <2>2, <2>3
<1>11. proc[s].addr = 0 /\ (proc[s].worked => worked)
  BY <1>3, <1>4
<1> QED BY <1>3, <1>5, <1>8, <1>9, <1>10, <1>11, GatherAlone

(* An actor takes a message: done ends it, a partial is one it has not yet.    *)
LEMMA HandleKeepsAlone ==
  ASSUME IInv, CInv, NEW s \in Slots, Handle(s)
  PROVE  CInv'
<1>1. PICK b \in Addresses : proc[s].addr = b
  BY BusyIsActor DEF Handle, IInv, Actors
<1> DEFINE m == Head(inbox[b])
<1>2. Busy(s) /\ inbox[b] # <<>> /\ UNCHANGED <<opt, runs, pool, phase, calls, overlap, answer, outcome, crashed>>
  BY <1>1, HandledMail
<1>3. SUFFICES ASSUME ~overlap PROVE Alone'
  BY <1>2 DEF CInv
<1>4. Alone
  BY <1>3 DEF CInv
<1>5. /\ \A a \in Addresses : Letters(inbox'[a]) \subseteq Letters(inbox[a])
      /\ OneOfEach'
      /\ IsLetter(m) => m \in Letters(inbox[b]) \ Letters(inbox'[b])
  BY <1>1, <1>4, HandledLetters DEF Alone, OneOfEach
<1>6. m \in Messages
  BY <1>2, MailTypes, Queues
<1>7. (m.tag = "part" \/ m.tag = "done" => IsLetter(m)) /\ (m.tag = "done" => m = DoneMsg) /\ (m.tag = "part" => m # DoneMsg)
  BY <1>6, MessageKinds DEF IsLetter
<1>8. CASE m.tag = "done" /\ Ends(s, "returned") /\ UNCHANGED roots
  BY <1>1, <1>2, <1>3, <1>4, <1>5, <1>7, <1>8, DoneAlone
<1>9. CASE m.tag = "part" /\ Gather(s, proc[s].worked, m.of) /\ UNCHANGED fut
  BY <1>1, <1>2, <1>3, <1>4, <1>5, <1>7, <1>9, PartAlone
<1>10. CASE m.tag = "part" /\ m.of[2] \in From(proc[s].parts)
  <2>1. Ungathered(m.of[2]) /\ b = 0
    BY <1>4, <1>5, <1>7, <1>10 DEF Alone, PartsAbout
  <2> QED BY <1>1, <1>2, <1>10, <2>1 DEF Ungathered
<1>11. CASE UNCHANGED <<proc, roots, fut>>
  BY <1>2, <1>4, <1>5, <1>11, FewerLettersAlone
<1> QED BY <1>1, <1>8, <1>9, <1>10, <1>11 DEF Handle

-----------------------------------------------------------------------------
(* Processes that die, and the driver.                                     *)

(* What processes that die leave of the invariant.                           *)
LEMMA FewerActorsAlone ==
  ASSUME IInv, Alone, UNCHANGED <<runs, phase, outcome, inbox, roots>>,
         \A t \in Slots : (Busy(t))' => Busy(t) /\ proc'[t] = proc[t],
         calls' \subseteq calls,
         \A a \in Addresses : fut'[a] = fut[a] \/ (fut'[a] # "returned" /\ fut[a] = "pending"
                                                    /\ calls' = {} /\ \A t \in Slots : ~(Busy(t))')
  PROVE  Alone'
<1>1. \A a : (Ours(a))' = Ours(a)
  BY DEF Ours
<1>2. \A a : (Unsent(a))' => Unsent(a)
  BY <1>1 DEF Unsent
<1>3. \A a : Ungathered(a) => (Ungathered(a))'
  BY DEF Ungathered
<1>4. OneActorEach'
  BY DEF Alone, OneActorEach
<1>5. EndedIsGone'
  BY <1>1 DEF Alone, EndedIsGone
<1>6. PartsAbout' /\ UnsentIsNew' /\ RootIsLast' /\ OneRoot' /\ OneOfEach'
  BY <1>2, <1>3 DEF Alone, OneOfEach, PartsAbout, UnsentIsNew, RootIsLast, RootSent, Settled, NoPartsAbout, OneRoot
<1>7. Collecting' /\ Released' /\ Outcomes'
  BY DEF Alone, Collecting, Released, Outcomes, Settled, AllReturned
<1> QED BY <1>4, <1>5, <1>6, <1>7 DEF Alone

LEMMA CrashKeepsAlone ==
  ASSUME IInv, CInv, NEW s \in Slots, Crash(s)
  PROVE  CInv'
<1>1. /\ proc' = [proc EXCEPT ![s] = Dead]
      /\ UNCHANGED <<runs, phase, calls, outcome, inbox, roots, fut, overlap>>
  BY DEF Crash, wires, ends
<1>2. \A t \in Slots : (Busy(t))' => Busy(t) /\ proc'[t] = proc[t]
  BY <1>1 DEF IInv, TypeOK, Busy, Dead
<1> QED BY <1>1, <1>2, FewerActorsAlone DEF CInv

LEMMA BreakKeepsAlone ==
  ASSUME IInv, CInv, Break
  PROVE  CInv'
<1>1. /\ proc' = [t \in Slots |-> Dead] /\ calls' = {}
      /\ fut' = [a \in Addresses |-> IF fut[a] = "pending" THEN "broken" ELSE fut[a]]
      /\ UNCHANGED <<runs, phase, outcome, inbox, roots, overlap>>
  BY DEF Break, wires, ends
<1>2. \A t \in Slots : ~(Busy(t))'
  BY <1>1 DEF Busy, Dead
<1> QED BY <1>1, <1>2, FewerActorsAlone DEF CInv

(* A run that starts with no actor of another about is alone.                 *)
LEMMA StartRunAlone ==
  ASSUME IInv, StartRun
  PROVE  CInv'
<1>1. /\ runs' = runs + 1 /\ overlap' = (Kept /\ StillThere)
      /\ inbox' = Empty /\ roots' = <<>> /\ phase = "idle"
      /\ fut' = [a \in Addresses |-> "pending"]
      /\ UNCHANGED <<opt, proc, crashed>>
  BY DEF StartRun, Drained
<1>2. \/ phase' = "collect" /\ outcome' = None
      \/ phase' = "idle" /\ outcome' = "failed"
  BY <1>1 DEF StartRun
<1>3. SUFFICES ASSUME ~(Kept /\ StillThere) PROVE Alone'
  BY <1>1 DEF CInv
<1>4. \A t \in Slots : ~(Busy(t))'
  <2>1. CASE Kept
    BY <1>1, <1>3, <2>1 DEF StillThere, Busy
  <2>2. CASE ~Kept
    BY <1>1, <2>2 DEF Kept, IInv, CleanPool, Busy, Free
  <2> QED BY <2>1, <2>2
<1>5. \A a \in Addresses : inbox'[a] = <<>> /\ fut'[a] = "pending"
  BY <1>1 DEF Empty
<1>6. OneActorEach' /\ EndedIsGone' /\ UnsentIsNew'
  BY <1>4, <1>5 DEF OneActorEach, EndedIsGone, UnsentIsNew, Ungathered
<1>7. ~Settled' /\ ~RootSent'
  BY <1>1, <1>2, SessionAssumption DEF Settled, RootSent
<1>8. OneRoot' /\ RootIsLast' /\ Released'
  BY <1>1, <1>7 DEF OneRoot, RootIsLast, Released
<1>9. OneOfEach' /\ PartsAbout' /\ Collecting'
  BY <1>5, NoLetters DEF OneOfEach, PartsAbout, Collecting
<1>10. Outcomes'
  BY <1>2, SessionAssumption DEF Outcomes
<1> QED BY <1>6, <1>8, <1>9, <1>10 DEF Alone

(* done in every inbox.                                                    *)
LEMMA ReleasedLetters ==
  ASSUME IInv, Release, NEW a \in Addresses
  PROVE  /\ Letters(inbox'[a]) = Letters(inbox[a]) \cup {DoneMsg}
         /\ Distinct(inbox[a]) /\ DoneMsg \notin Letters(inbox[a]) => Distinct(inbox'[a])
<1>1. inbox[a] \in Seq(Messages) /\ inbox'[a] = Append(inbox[a], DoneMsg) /\ DoneMsg \in Messages
  BY MailTypes DEF Release, Messages
<1> DEFINE q == inbox[a]
           t == inbox'[a]
<1>2. q \in Seq(Messages) /\ t = Append(q, DoneMsg) /\ DoneMsg \in Messages
  BY <1>1
<1> HIDE DEF q, t
<1>3. Lengthened(q, DoneMsg, t)
  BY <1>2, AppendedLetters
<1> QED BY <1>3, OthersAreNoLetters DEF Lengthened, q, t

(* The driver takes the root and releases the actors: done is then the one     *)
(* message of each inbox that is not about stealing.                        *)
LEMMA CollectRootAlone ==
  ASSUME IInv, CInv, CollectRoot
  PROVE  CInv'
<1>1. /\ phase = "collect" /\ phase' = "join" /\ roots # <<>> /\ roots' = Tail(roots) /\ Release
      /\ UNCHANGED <<opt, runs, pool, proc, calls, fut, outcome, overlap, crashed>>
  BY DEF CollectRoot
<1>2. SUFFICES ASSUME ~overlap PROVE Alone'
  BY <1>1 DEF CInv
<1>3. Alone
  BY <1>2 DEF CInv
<1>4. /\ OneActorEach' /\ EndedIsGone' /\ UnsentIsNew'
      /\ \A a : (Unsent(a))' = Unsent(a)
      /\ \A a : (Ungathered(a))' = Ungathered(a)
  BY <1>1, <1>3, DriverAlone
<1>5. (\A a \in Addresses : ~Unsent(a)) /\ NoPartsAbout
  BY <1>1, <1>3 DEF Alone, RootIsLast, RootSent
<1>6. \A a \in Addresses : Letters(inbox'[a]) = {DoneMsg} /\ Distinct(inbox'[a])
  <2> SUFFICES ASSUME NEW a \in Addresses PROVE Letters(inbox'[a]) = {DoneMsg} /\ Distinct(inbox'[a])
    OBVIOUS
  <2>1. Letters(inbox[a]) = {} /\ Distinct(inbox[a])
    BY <1>1, <1>3, <1>5 DEF Alone, Collecting, NoPartsAbout, OneOfEach
  <2> QED BY <1>1, <2>1, ReleasedLetters
<1>7. PartsAbout' /\ NoPartsAbout' /\ OneOfEach'
  BY <1>6 DEF PartsAbout, NoPartsAbout, OneOfEach
<1>8. roots' = <<>>
  <2> DEFINE q == roots
             rest == Tail(q)
  <2>1. q \in Seq(SUBSET Partials) /\ Len(q) <= 1 /\ q # <<>>
    BY <1>1, <1>3 DEF IInv, TypeOK, Alone, OneRoot
  <2> HIDE DEF q
  <2>2. rest \in Seq(SUBSET Partials) /\ Len(q) \in Nat \ {0} /\ Len(rest) = Len(q) - 1
    BY <2>1
  <2>3. Len(rest) = 0
    BY <2>1, <2>2
  <2> HIDE DEF rest
  <2>4. rest = <<>>
    BY <2>2, <2>3
  <2> QED BY <1>1, <2>4 DEF q, rest
<1>9. OneRoot' /\ RootIsLast'
  BY <1>4, <1>5, <1>7, <1>8 DEF OneRoot, RootIsLast
<1>10. Collecting' /\ Outcomes'
  BY <1>1, <1>3, SessionAssumption DEF Alone, Collecting, Outcomes
<1>11. Released'
  BY <1>1, <1>3 DEF Alone, Collecting, Released
<1> QED BY <1>4, <1>7, <1>9, <1>10, <1>11 DEF Alone

(* The driver gives up: the actors are released, and the run has failed.       *)
LEMMA GiveUpAlone ==
  ASSUME IInv, CInv, GiveUp
  PROVE  CInv'
<1>1. /\ phase = "collect" /\ Release /\ outcome' = "failed" /\ phase' \in {"idle", "shutdown"}
      /\ UNCHANGED <<opt, runs, pool, proc, calls, roots, fut, answer, overlap, crashed>>
  BY DEF GiveUp, Leave
<1>2. SUFFICES ASSUME ~overlap PROVE Alone'
  BY <1>1 DEF CInv
<1>3. Alone
  BY <1>2 DEF CInv
<1>4. /\ OneActorEach' /\ EndedIsGone' /\ UnsentIsNew'
      /\ \A a : (Unsent(a))' = Unsent(a)
      /\ \A a : (Ungathered(a))' = Ungathered(a)
  BY <1>1, <1>3, DriverAlone
<1>5. \A a \in Addresses : Letters(inbox'[a]) = Letters(inbox[a]) \cup {DoneMsg} /\ Distinct(inbox'[a])
  BY <1>1, <1>3, ReleasedLetters DEF Alone, OneOfEach, Collecting
<1>6. PartsAbout' /\ OneOfEach'
  BY <1>3, <1>4, <1>5 DEF Alone, PartsAbout, OneOfEach
<1>7. ~Settled'
  BY <1>1 DEF Settled
<1>8. RootIsLast'
  <2> SUFFICES ASSUME roots # <<>> PROVE NoPartsAbout' /\ \A a \in Addresses : ~(Unsent(a))'
    BY <1>1, <1>7 DEF RootIsLast, RootSent
  <2>1. NoPartsAbout /\ \A a \in Addresses : ~Unsent(a)
    BY <1>3 DEF Alone, RootIsLast, RootSent
  <2> QED BY <1>4, <1>5, <2>1 DEF NoPartsAbout
<1>9. OneRoot' /\ Collecting' /\ Released' /\ Outcomes'
  BY <1>1, <1>3, <1>7 DEF Alone, OneRoot, Collecting, Released, Outcomes
<1> QED BY <1>4, <1>6, <1>8, <1>9 DEF Alone

(* The other steps of the driver that leave the messages alone.               *)
LEMMA LeaveKeepsAlone ==
  ASSUME IInv, CInv, UNCHANGED <<runs, proc, calls, inbox, roots, fut, overlap>>,
         phase' # "collect" /\ phase' # "join",
         \/ outcome' = "failed"
         \/ phase = "join" /\ AllReturned /\ outcome' = "ok" /\ phase' \in {"idle", "shutdown"}
         \/ phase = "idle" /\ outcome' = outcome /\ phase' \in {"idle", "shutdown"}
  PROVE  CInv'
<1>1. SUFFICES ASSUME ~overlap PROVE Alone'
  BY DEF CInv
<1>2. Alone
  BY <1>1 DEF CInv
<1>3. /\ OneActorEach' /\ EndedIsGone' /\ UnsentIsNew'
      /\ \A a : (Unsent(a))' = Unsent(a)
      /\ \A a : (Ungathered(a))' = Ungathered(a)
  BY <1>2, DriverAlone
<1>4. PartsAbout' /\ OneOfEach'
  BY <1>2, <1>3 DEF Alone, PartsAbout, OneOfEach
<1>5. Settled' => Settled
  BY DEF Settled
<1>6. OneRoot' /\ RootIsLast' /\ Released'
  BY <1>2, <1>3, <1>5 DEF Alone, OneRoot, RootIsLast, RootSent, NoPartsAbout, Released
<1>7. Collecting' /\ Outcomes'
  BY <1>2 DEF Alone, Collecting, Outcomes, AllReturned
<1> QED BY <1>3, <1>4, <1>6, <1>7 DEF Alone

LEMMA ShutDownAlone ==
  ASSUME IInv, CInv, ShutDown
  PROVE  CInv'
<1>1. /\ phase = "shutdown" /\ phase' = "idle" /\ proc' = [s \in Slots |-> Free] /\ calls' = {}
      /\ inbox' = Empty /\ roots' = <<>>
      /\ UNCHANGED <<opt, runs, fut, answer, outcome, overlap, crashed>>
  BY DEF ShutDown, ends
<1>2. SUFFICES ASSUME ~overlap PROVE Alone'
  BY <1>1 DEF CInv
<1>3. Alone
  BY <1>2 DEF CInv
<1>4. (\A s \in Slots : ~(Busy(s))') /\ \A a \in Addresses : inbox'[a] = <<>>
  BY <1>1 DEF Busy, Free, Empty
<1>5. \A a : ~(Unsent(a))'
  BY <1>1, <1>4 DEF Unsent
<1>6. OneActorEach' /\ EndedIsGone' /\ UnsentIsNew' /\ PartsAbout' /\ OneOfEach'
  BY <1>1, <1>4, <1>5, NoLetters DEF OneOfEach, OneActorEach, EndedIsGone, UnsentIsNew, PartsAbout
<1>7. OneRoot' /\ RootIsLast'
  BY <1>1, <1>4, <1>5, NoLetters DEF OneRoot, RootIsLast, NoPartsAbout
<1>8. Collecting' /\ Released'
  BY <1>1, <1>4, NoLetters DEF Collecting, Released
<1>9. Outcomes'
  BY <1>1, <1>3 DEF Alone, Outcomes, AllReturned
<1> QED BY <1>6, <1>7, <1>8, <1>9 DEF Alone

LEMMA InitAlone ==
  ASSUME Init
  PROVE  CInv
<1>1. \A s \in Slots : ~Busy(s)
  BY DEF Init, Busy, Free
<1>2. \A a : ~Unsent(a)
  BY <1>1 DEF Init, Unsent
<1>3. \A a \in Addresses : inbox[a] = <<>>
  BY DEF Init, Empty
<1>4. OneActorEach /\ EndedIsGone /\ UnsentIsNew /\ PartsAbout /\ OneRoot /\ OneOfEach
  BY <1>1, <1>2, <1>3, NoLetters DEF OneOfEach, Init, OneActorEach, EndedIsGone, UnsentIsNew, PartsAbout, OneRoot
<1>5. RootIsLast /\ Collecting /\ Released /\ Outcomes
  BY <1>2, <1>3, NoLetters, SessionAssumption
  DEF Init, RootIsLast, RootSent, Settled, NoPartsAbout, Collecting, Released, Outcomes, AllReturned
<1> QED BY <1>4, <1>5 DEF CInv, Alone

LEMMA StepKeepsAlone ==
  ASSUME IInv, CInv, [Next]_vars
  PROVE  CInv'
<1>1. CASE StartRun
  BY <1>1, StartRunAlone
<1>2. CASE Close
  BY <1>2, LeaveKeepsAlone DEF Close, wires, ends
<1>3. CASE Break
  BY <1>3, BreakKeepsAlone
<1>4. CASE CollectRoot
  BY <1>4, CollectRootAlone
<1>5. CASE GiveUp
  BY <1>5, GiveUpAlone
<1>6. CASE Join
  BY <1>6, LeaveKeepsAlone DEF Join, Leave, wires
<1>7. CASE JoinRaises
  BY <1>7, LeaveKeepsAlone DEF JoinRaises, Leave, wires
<1>8. CASE ShutDown
  BY <1>8, ShutDownAlone
<1>9. CASE \E s \in Slots : Worker(s) \/ Crash(s)
  BY <1>9, TakeKeepsAlone, WorkKeepsAlone, AskKeepsAlone, HandleKeepsAlone, CrashKeepsAlone DEF Worker
<1>10. CASE UNCHANGED vars
  BY <1>10 DEF vars, wires, ends, CInv, Alone, OneActorEach, EndedIsGone, UnsentIsNew, PartsAbout,
       OneRoot, OneOfEach, RootIsLast, RootSent, NoPartsAbout, Collecting, Released, Outcomes, Settled,
       AllReturned, Unsent, Ungathered, Ours, Busy
<1> QED BY <1>1, <1>2, <1>3, <1>4, <1>5, <1>6, <1>7, <1>8, <1>9, <1>10 DEF Next, Driver

(* A run that has returned a value, and was alone, leaves no actor and no call  *)
(* behind, and what still lies in the inboxes is about stealing: no partial    *)
(* that the next run could take for its own, no done that could end one of its *)
(* actors (_collect_peer, and the drain of _peer_ipc).                       *)
THEOREM OnlyStealsAreLeft == Spec => []CleanRunLeavesOnlySteals
<1>1. IInv /\ CInv => CleanRunLeavesOnlySteals
  <2> SUFFICES ASSUME IInv, CInv, outcome = "ok", ~overlap
               PROVE  /\ ~StillThere /\ roots = <<>>
                      /\ \A a \in Addresses : \A i \in DOMAIN inbox[a] :
                           inbox[a][i].tag \in {"steal_req", "steal_resp"}
    BY DEF CleanRunLeavesOnlySteals
  <2>1. Alone /\ Settled /\ AllReturned
    BY DEF CInv, Alone, Outcomes, Settled
  <2>2. \A s \in Slots : ~Busy(s)
    <3> SUFFICES ASSUME NEW s \in Slots, Busy(s) PROVE FALSE
      OBVIOUS
    <3>1. proc[s].addr \in Addresses
      BY SoloActor
    <3> QED BY <2>1, <3>1 DEF Alone, EndedIsGone, AllReturned
  <2>3. Live = {}
    <3> SUFFICES ASSUME NEW c \in calls, ~(Pinned /\ Died(c.addr)) PROVE FALSE
      BY DEF Live
    <3>1. c \in Calls(runs) /\ c.run = runs
      BY DEF IInv, TypeOK, Calls, OnlyThisRun
    <3>2. c = Ours(c.addr) /\ c.addr \in Addresses
      BY <3>1 DEF Calls, Ours
    <3> QED BY <2>1, <3>2 DEF Alone, EndedIsGone, AllReturned
  <2>4. ASSUME NEW a \in Addresses, NEW i \in DOMAIN inbox[a]
        PROVE  inbox[a][i].tag \in {"steal_req", "steal_resp"}
    <3> DEFINE q == inbox[a]
    <3>1. q \in Seq(Messages) /\ Letters(q) = {} /\ i \in DOMAIN q
      <4>1. Letters(inbox[a]) \subseteq {DoneMsg}
        BY <2>1 DEF Alone, RootIsLast, RootSent, NoPartsAbout
      <4>2. DoneMsg \notin Letters(inbox[a])
        BY <2>1 DEF Alone, Released, AllReturned
      <4> QED BY <4>1, <4>2, MailTypes
    <3> HIDE DEF q
    <3>2. q[i] \in Messages /\ ~IsLetter(q[i])
      <4>1. DOMAIN q = 1 .. Len(q)
        BY <3>1, LenProperties
      <4>2. q[i] \in Messages
        BY <3>1, <4>1, ElementOfSeq
      <4>3. IsLetter(q[i]) => q[i] \in Letters(q)
        BY <3>1 DEF Letters
      <4> QED BY <3>1, <4>2, <4>3
    <3>3. q[i].tag \in {"steal_req", "steal_resp"}
      BY <3>2, MessageKinds DEF IsLetter
    <3> QED BY <3>3 DEF q
  <2>5. roots = <<>>
    BY <2>1 DEF Alone, OneRoot
  <2> QED BY <2>2, <2>3, <2>4, <2>5 DEF StillThere
<1>2. Spec => []CInv
  BY InitAlone, StepKeepsAlone, SessionInvariant, PTL DEF Spec
<1> QED BY <1>1, <1>2, SessionInvariant, PTL
=============================================================================
