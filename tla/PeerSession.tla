---------------------------- MODULE PeerSession ----------------------------
(***************************************************************************)
(* Runs of one process executor, one after another: the pool and the        *)
(* registry of inboxes are made for a run and shut down after it, or kept   *)
(* for the next one (persistent).  A run that fails on a kept pool may      *)
(* leave actors behind that are still at work.  Worker processes die.       *)
(*                                                                         *)
(* The reduction inside a run is PeerReduce's; here each slice is one leaf, *)
(* so that no actor ever gives one away and every steal request is refused; *)
(* an actor hands the partial of its leaf to the actor at address 0, which *)
(* combines one of each address and sends the root.  A value is the set of  *)
(* the partials <<run, address>> in it.                                     *)
(***************************************************************************)
EXTENDS Integers, FiniteSets, Sequences

CONSTANTS
  W,        \* workers, and addresses
  MaxRuns,  \* bound: runs
  MaxAsks,  \* bound: steal requests of an actor
  Options,  \* see SessionAssumption
  None

(* kind: which pool.  persistent: the executor's option.  raises: the        *)
(* partials whose process raises.  crash: whether one worker process may     *)
(* die.  late: whether the driver's deadline may expire.  steal: whether an   *)
(* actor that has processed its leaf asks others for one.                   *)
ASSUME SessionAssumption ==
  /\ W \in Nat \ {0} /\ MaxRuns \in Nat /\ MaxAsks \in Nat /\ None \notin {"ok", "failed"}
  /\ Options \subseteq
       [kind : {"pool", "pinned"}, persistent : BOOLEAN,
        raises : SUBSET ((1 .. MaxRuns) \X (0 .. W-1)), crash : BOOLEAN, late : BOOLEAN,
        steal : BOOLEAN]

Addresses == 0 .. W-1
Slots == 0 .. W-1

VARIABLES
  opt,
  runs,     \* the number of the run, counted up at its start
  phase,    \* the driver: "idle", "collect", "join", "shutdown"
  pool,     \* "none", "up", "broken" (BrokenProcessPool)
  proc,     \* process of the pool -> free, dead, or the actor it runs
  calls,    \* submitted calls no process has taken
  inbox,    \* address -> its messages
  roots,    \* the driver's inbox
  fut,      \* address -> the state of this run's future
  answer,   \* the root the driver took, or None
  outcome,  \* how the last run ended: "ok", "failed", or None
  overlap,  \* whether an actor of an earlier run was still there when this run started
  crashed   \* whether a process has died

wires == <<inbox, roots>>
ends == <<answer, outcome>>
vars == <<opt, runs, phase, pool, proc, calls, wires, fut, ends, overlap, crashed>>

Free == [state |-> "free"]
Dead == [state |-> "dead"]
Actor(call) ==
  [state |-> "busy", addr |-> call.addr, run |-> call.run, worked |-> FALSE, parts |-> {}, asked |-> 0]
Part(p) == [tag |-> "part", of |-> p]
DoneMsg == [tag |-> "done"]
StealReq(a) == [tag |-> "steal_req", thief |-> a]
StealResp == [tag |-> "steal_resp"]   \* with no leaf

Busy(s) == proc[s].state = "busy"
Died(s) == proc[s].state = "dead"
Empty == [a \in Addresses |-> <<>>]
Pinned == opt.kind = "pinned"

-----------------------------------------------------------------------------
(* The workers.  A free process takes the oldest call: of all calls, or of   *)
(* those for the address it is pinned to.                                   *)

For(s) == {c \in calls : Pinned => c.addr = s}
Before(c, d) == c.run < d.run \/ (c.run = d.run /\ c.addr <= d.addr)
NotTaken(c) == calls
Without(c) == calls \ {c}

Take(s) ==
  /\ pool = "up" /\ proc[s] = Free
  /\ \E c \in For(s) :
       /\ \A d \in For(s) : Before(c, d)
       /\ proc' = [proc EXCEPT ![s] = Actor(c)]
       /\ calls' = Without(c)
  /\ UNCHANGED <<opt, runs, phase, pool, wires, fut, ends, overlap, crashed>>

(* The call is over.  The driver waits for futures of its run only.          *)
Ends(s, how) ==
  /\ proc' = [proc EXCEPT ![s] = Free]
  /\ fut' = IF proc[s].run = runs THEN [fut EXCEPT ![proc[s].addr] = how] ELSE fut

(* settle, abstracted to one node of each address: the actor at address 0    *)
(* has one partial more, and with one of each it sends the root.            *)
From(parts) == {p[2] : p \in parts}
Gather(s, worked, p) ==
  LET parts == proc[s].parts \cup {p}
  IN  /\ proc' = [proc EXCEPT ![s].worked = worked, ![s].parts = parts]
      /\ roots' = IF From(parts) = Addresses THEN Append(roots, parts) ELSE roots

Work(s) ==
  LET a == proc[s]
      p == <<a.run, a.addr>>
  IN  /\ Busy(s) /\ ~a.worked
      /\ \/ /\ p \in opt.raises
            /\ Ends(s, "raised")
            /\ UNCHANGED wires
         \/ /\ p \notin opt.raises /\ a.addr = 0
            /\ Gather(s, TRUE, p)
            /\ UNCHANGED <<inbox, fut>>
         \/ /\ p \notin opt.raises /\ a.addr # 0
            /\ inbox' = [inbox EXCEPT ![0] = Append(@, Part(p))]
            /\ proc' = [proc EXCEPT ![s].worked = TRUE]
            /\ UNCHANGED <<roots, fut>>
      /\ UNCHANGED <<opt, runs, phase, pool, calls, ends, overlap, crashed>>

(* Without a leaf left, the actor asks another for one.                     *)
Ask(s) ==
  LET a == proc[s]
  IN  /\ Busy(s) /\ a.worked /\ opt.steal /\ a.asked < MaxAsks
      /\ \E victim \in Addresses \ {a.addr} :
           inbox' = [inbox EXCEPT ![victim] = Append(@, StealReq(a.addr))]
      /\ proc' = [proc EXCEPT ![s].asked = @ + 1]
      /\ UNCHANGED <<opt, runs, phase, pool, calls, roots, fut, ends, overlap, crashed>>

(* The oldest message of the actor's inbox; done ends it, whatever it has    *)
(* still to do and whatever it polled along with it.  A partial of a node it *)
(* has seen is ignored; the one leaf of an actor is never given away.       *)
Handle(s) ==
  LET a == proc[s]
      queue == inbox[a.addr]
      m == Head(queue)
      taken == [inbox EXCEPT ![a.addr] = Tail(@)]
  IN  /\ Busy(s) /\ queue # <<>>
      /\ \/ /\ m.tag = "done"
            /\ Ends(s, "returned")
            /\ \E polled \in 1 .. Len(queue) :
                 inbox' = [inbox EXCEPT ![a.addr] = SubSeq(@, polled + 1, Len(@))]
            /\ UNCHANGED roots
         \/ /\ m.tag = "part" /\ m.of[2] \notin From(a.parts)
            /\ Gather(s, a.worked, m.of)
            /\ inbox' = taken
            /\ UNCHANGED fut
         \/ /\ (m.tag = "part" /\ m.of[2] \in From(a.parts)) \/ m.tag = "steal_resp"
            /\ inbox' = taken
            /\ UNCHANGED <<proc, roots, fut>>
         \/ /\ m.tag = "steal_req"
            /\ inbox' = [taken EXCEPT ![m.thief] = Append(@, StealResp)]
            /\ UNCHANGED <<proc, roots, fut>>
      /\ UNCHANGED <<opt, runs, phase, pool, calls, ends, overlap, crashed>>

Worker(s) == Take(s) \/ Work(s) \/ Ask(s) \/ Handle(s)

(* A process dies.  The standard pool notices: it fails all its futures and  *)
(* ends its other processes; the pinned pool's reaper does not.             *)
Crash(s) ==
  /\ opt.crash /\ ~crashed /\ pool = "up"
  /\ proc' = [proc EXCEPT ![s] = Dead]
  /\ crashed' = TRUE
  /\ UNCHANGED <<opt, runs, phase, pool, calls, wires, fut, ends, overlap>>

Break ==
  /\ ~Pinned /\ pool = "up" /\ \E s \in Slots : Died(s)
  /\ pool' = "broken"
  /\ proc' = [s \in Slots |-> Dead] /\ calls' = {}
  /\ fut' = [a \in Addresses |-> IF fut[a] = "pending" THEN "broken" ELSE fut[a]]
  /\ UNCHANGED <<opt, runs, phase, wires, ends, overlap, crashed>>

-----------------------------------------------------------------------------
(* The driver.                                                             *)

Live == {c \in calls : Pinned => ~Died(c.addr)}
StillThere == Live # {} \/ \E s \in Slots : Busy(s)

(* Straggling messages are cleared before a kept registry is used again.     *)
Uncleared == inbox
Drained == Empty

Submitted(r) == {[addr |-> a, run |-> r] : a \in Addresses}
Kept == opt.persistent /\ pool # "none"
StartRun ==
  /\ phase = "idle" /\ runs < MaxRuns
  /\ runs' = runs + 1
  /\ overlap' = (Kept /\ StillThere)
  /\ inbox' = IF Kept THEN Drained ELSE Empty
  /\ roots' = <<>>
  /\ fut' = [a \in Addresses |-> "pending"]
  /\ answer' = None
  /\ \/ /\ pool # "broken"
        /\ pool' = "up" /\ phase' = "collect" /\ outcome' = None
        /\ calls' = calls \cup Submitted(runs + 1)
     \/ /\ pool = "broken"   \* submit() raises
        /\ outcome' = "failed"
        /\ UNCHANGED <<pool, phase, calls>>
  /\ UNCHANGED <<opt, proc, crashed>>

Unreleased == UNCHANGED inbox
Release == inbox' = [a \in Addresses |-> Append(inbox[a], DoneMsg)]
Leave(how) ==
  /\ outcome' = how
  /\ phase' = IF opt.persistent THEN "idle" ELSE "shutdown"

CollectRoot ==
  /\ phase = "collect" /\ roots # <<>>
  /\ answer' = Head(roots) /\ roots' = Tail(roots)
  /\ Release
  /\ phase' = "join"
  /\ UNCHANGED <<opt, runs, pool, proc, calls, fut, outcome, overlap, crashed>>

(* A future failed, a pinned process is dead (workers_alive), or it is late.  *)
Failed(a) == fut[a] \in {"raised", "broken"}
GiveUp ==
  /\ phase = "collect"
  /\ \/ \E a \in Addresses : Failed(a)
     \/ Pinned /\ \E s \in Slots : Died(s)
     \/ opt.late
  /\ Release
  /\ Leave("failed")
  /\ UNCHANGED <<opt, runs, pool, proc, calls, roots, fut, answer, overlap, crashed>>

(* The futures are asked in order; nobody looks at workers_alive any more.   *)
Unjoined == TRUE
AllReturned == \A a \in Addresses : fut[a] = "returned"
Join ==
  /\ phase = "join" /\ AllReturned
  /\ Leave("ok")
  /\ UNCHANGED <<opt, runs, pool, proc, calls, wires, fut, answer, overlap, crashed>>

JoinRaises ==
  /\ phase = "join"
  /\ \E a \in Addresses : Failed(a) /\ \A b \in 0 .. a-1 : fut[b] # "pending"
  /\ Leave("failed")
  /\ UNCHANGED <<opt, runs, pool, proc, calls, wires, fut, answer, overlap, crashed>>

Close ==
  /\ phase = "idle" /\ Kept
  /\ phase' = "shutdown"
  /\ UNCHANGED <<opt, runs, pool, proc, calls, wires, fut, ends, overlap, crashed>>

(* The standard pool finishes every call; the pinned pool terminates what    *)
(* has not ended after ten seconds.                                        *)
ShutDown ==
  /\ phase = "shutdown"
  /\ Pinned \/ pool = "broken" \/ (calls = {} /\ \A s \in Slots : ~Busy(s))
  /\ phase' = "idle" /\ pool' = "none"
  /\ proc' = [s \in Slots |-> Free] /\ calls' = {}
  /\ inbox' = Empty /\ roots' = <<>>
  /\ UNCHANGED <<opt, runs, fut, ends, overlap, crashed>>

Driver == CollectRoot \/ GiveUp \/ Join \/ JoinRaises \/ ShutDown

-----------------------------------------------------------------------------
Init ==
  /\ opt \in Options
  /\ runs = 0 /\ phase = "idle" /\ pool = "none"
  /\ proc = [s \in Slots |-> Free] /\ calls = {}
  /\ inbox = Empty /\ roots = <<>>
  /\ fut = [a \in Addresses |-> "returned"]
  /\ answer = None /\ outcome = None
  /\ overlap = FALSE /\ crashed = FALSE

Next ==
  \/ StartRun \/ Close \/ Break \/ Driver
  \/ \E s \in Slots : Worker(s) \/ Crash(s)

Spec == Init /\ [][Next]_vars
(* Whether another run comes, or a close(), is the user's choice, and no     *)
(* process has to die; all else goes on.                                   *)
FairSpec == Spec /\ WF_vars(Driver) /\ WF_vars(Break) /\ \A s \in Slots : WF_vars(Worker(s))

-----------------------------------------------------------------------------
Partials == (1 .. MaxRuns) \X Addresses
Messages == {DoneMsg, StealResp} \cup {Part(p) : p \in Partials} \cup {StealReq(a) : a \in Addresses}
Whole(r) == {<<r, a>> : a \in Addresses}

(* Types, and a call that is taken is queued no more.                       *)
TypeOK ==
  /\ opt \in Options /\ runs \in 0 .. MaxRuns
  /\ phase \in {"idle", "collect", "join", "shutdown"}
  /\ pool \in {"none", "up", "broken"}
  /\ proc \in [Slots -> {Free, Dead} \cup
       [state : {"busy"}, addr : Addresses, run : 1 .. runs, worked : BOOLEAN, parts : SUBSET Partials,
        asked : 0 .. MaxAsks]]
  /\ calls \subseteq [addr : Addresses, run : 1 .. runs]
  /\ \A s \in Slots : Busy(s) => [addr |-> proc[s].addr, run |-> proc[s].run] \notin calls
  /\ inbox \in [Addresses -> Seq(Messages)]
  /\ roots \in Seq(SUBSET Partials)
  /\ fut \in [Addresses -> {"pending", "returned", "raised", "broken"}]
  /\ answer = None \/ answer \subseteq Partials
  /\ outcome \in {None, "ok", "failed"}
  /\ overlap \in BOOLEAN /\ crashed \in BOOLEAN

(* A run's value is made of all its partials, each once, and of nothing that  *)
(* an earlier run left in an inbox or in a process - provided no actor of an  *)
(* earlier run was still there when it started.                            *)
AnswerIsThisRuns == answer # None /\ ~overlap => answer = Whole(runs)

(* The same without the proviso: what the driver relies on when it re-uses a  *)
(* pool ("a clean run leaves none").                                       *)
AnswerAlwaysThisRuns == answer # None => answer = Whole(runs)

(* After a clean run, one that returned a value, its actors have ended, no   *)
(* done waits to end an actor of the next run, and no partial of it to be     *)
(* taken for the next run's; steal messages may wait (_drain_queue).         *)
CleanRunLeavesOnlySteals ==
  (phase = "idle" /\ outcome = "ok" /\ ~overlap)
    => /\ ~StillThere /\ roots = <<>>
       /\ \A a \in Addresses : \A i \in DOMAIN inbox[a] : inbox[a][i].tag \in {"steal_req", "steal_resp"}

(* Every run and every shutdown ends, whatever raises or dies - unless actors *)
(* of an earlier run are about, or a pinned process died after the root.     *)
Unwatched == Pinned /\ phase = "join" /\ \E s \in Slots : Died(s)
RunsEnd == (phase # "idle") ~> (phase = "idle" \/ overlap \/ Unwatched)
=============================================================================
