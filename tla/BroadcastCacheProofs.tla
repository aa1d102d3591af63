----------------------- MODULE BroadcastCacheProofs -----------------------
(***************************************************************************)
(* For every number of workers, processes, leaves and runs, whatever a run *)
(* that failed or was stopped has left in the pool:                        *)
(*   - a run that returns has taken the value of each of its leaves once;  *)
(*   - an executor whose plans fit in the cache ships each once: what the  *)
(*     driver believes primed is, and every leaf finds its process;        *)
(*   - so it is with plans that do not fit, when none is used again while  *)
(*     it is primed: driver and workers then evict in step.                *)
(***************************************************************************)
EXTENDS BroadcastCache, FiniteSetTheorems, SequenceTheorems, TLAPS

-----------------------------------------------------------------------------
(* The two caches as sequences without repetition.                          *)

LEMMA AppendKeeps ==
  ASSUME NEW S, NEW t \in Seq(S), IsInjective(t), NEW p \in S, ~Contains(t, p)
  PROVE  /\ Append(t, p) \in Seq(S) /\ IsInjective(Append(t, p))
         /\ Len(Append(t, p)) = Len(t) + 1
         /\ ToSet(Append(t, p)) = ToSet(t) \cup {p}
BY DEF IsInjective, Contains, ToSet

LEMMA TailKeeps ==
  ASSUME NEW S, NEW t \in Seq(S), IsInjective(t), t # <<>>
  PROVE  /\ Tail(t) \in Seq(S) /\ IsInjective(Tail(t)) /\ Len(Tail(t)) = Len(t) - 1
         /\ ToSet(Tail(t)) \subseteq ToSet(t)
         /\ \A p : ~Contains(t, p) => ~Contains(Tail(t), p)
BY HeadTailProperties DEF IsInjective, Contains, ToSet

LEMMA ContainsIsIn ==
  ASSUME NEW S, NEW t \in Seq(S), NEW p
  PROVE  Contains(t, p) <=> p \in ToSet(t)
BY DEF Contains, ToSet

LEMMA InsertKeeps ==
  ASSUME NEW S, NEW t \in Seq(S), IsInjective(t), Len(t) <= Cap, NEW p \in S, ~Contains(t, p)
  PROVE  /\ Insert(t, p) \in Seq(S) /\ IsInjective(Insert(t, p)) /\ Len(Insert(t, p)) <= Cap
         /\ p \in ToSet(Insert(t, p)) /\ ToSet(Insert(t, p)) \subseteq ToSet(t) \cup {p}
         /\ Len(t) < Cap => ToSet(t) \subseteq ToSet(Insert(t, p))
<1>1. CASE Len(t) < Cap
  <2>1. Insert(t, p) = Append(t, p)
    BY <1>1 DEF Insert
  <2> QED BY <1>1, <2>1, AppendKeeps, CacheAssumption
<1>2. CASE Len(t) = Cap
  <2>1. Insert(t, p) = Append(Tail(t), p) /\ t # <<>>
    BY <1>2, CacheAssumption DEF Insert
  <2>2. /\ Tail(t) \in Seq(S) /\ IsInjective(Tail(t)) /\ Len(Tail(t)) = Cap - 1
        /\ ~Contains(Tail(t), p) /\ ToSet(Tail(t)) \subseteq ToSet(t)
    BY <1>2, <2>1, TailKeeps
  <2>3. \A r \in Seq(S) : IsInjective(r) /\ ~Contains(r, p) =>
          /\ Append(r, p) \in Seq(S) /\ IsInjective(Append(r, p))
          /\ Len(Append(r, p)) = Len(r) + 1
          /\ ToSet(Append(r, p)) = ToSet(r) \cup {p}
    BY AppendKeeps
  <2>4. /\ Append(Tail(t), p) \in Seq(S) /\ IsInjective(Append(Tail(t), p))
        /\ Len(Append(Tail(t), p)) = Len(Tail(t)) + 1
        /\ ToSet(Append(Tail(t), p)) = ToSet(Tail(t)) \cup {p}
    BY <2>2, <2>3
  <2>5. Len(Tail(t)) + 1 <= Cap /\ ~(Len(t) < Cap)
    BY <1>2, <2>2, CacheAssumption
  <2> QED BY <2>1, <2>2, <2>4, <2>5
<1> QED BY <1>1, <1>2, CacheAssumption

LEMMA TouchKeeps ==
  ASSUME NEW S, NEW t \in Seq(S), IsInjective(t), NEW p, Contains(t, p)
  PROVE  /\ Touch(t, p) \in Seq(S) /\ IsInjective(Touch(t, p)) /\ Len(Touch(t, p)) = Len(t)
         /\ ToSet(Touch(t, p)) = ToSet(t)
<1> DEFINE i == Place(t, p)
<1>1. i \in 1 .. Len(t) /\ t[i] = p /\ p \in S
  BY DEF Place, Contains
<1> HIDE DEF i
<1>2. /\ SubSeq(t, 1, i-1) \in Seq(S) /\ Len(SubSeq(t, 1, i-1)) = i - 1
      /\ \A k \in 1 .. i-1 : SubSeq(t, 1, i-1)[k] = t[k]
  BY <1>1, SubSeqProperties
<1>3. /\ SubSeq(t, i+1, Len(t)) \in Seq(S) /\ Len(SubSeq(t, i+1, Len(t))) = Len(t) - i
      /\ \A k \in 1 .. Len(t) - i : SubSeq(t, i+1, Len(t))[k] = t[i+k]
  <2>1. \A k \in i+1 .. Len(t) : t[k] \in S
    BY <1>1
  <2>2. i+1 \in Int /\ Len(t) \in Int /\ Len(t) - (i+1) + 1 = Len(t) - i
    BY <1>1
  <2>3. /\ SubSeq(t, i+1, Len(t)) \in Seq(S)
        /\ Len(SubSeq(t, i+1, Len(t))) = IF i+1 <= Len(t) THEN Len(t) - (i+1) + 1 ELSE 0
        /\ \A k \in 1 .. Len(t) - (i+1) + 1 : SubSeq(t, i+1, Len(t))[k] = t[(i+1)+k-1]
    BY <2>1, <2>2, SubSeqProperties
  <2> DEFINE tail == SubSeq(t, i+1, Len(t))
  <2> HIDE DEF tail
  <2>4. tail \in Seq(S)
    BY <2>3 DEF tail
  <2>5. Len(tail) = Len(t) - i
    <3>1. Len(tail) = IF i+1 <= Len(t) THEN Len(t) - (i+1) + 1 ELSE 0
      BY <2>3 DEF tail
    <3>2. i \in Int /\ i <= Len(t) /\ Len(t) \in Int
      BY <1>1
    <3> QED BY <3>1, <3>2
  <2>6. \A k \in 1 .. Len(t) - i : (i+1)+k-1 = i+k
    BY <1>1
  <2>7. \A k \in 1 .. Len(t) - i : tail[k] = t[i+k]
    BY <2>2, <2>3, <2>6 DEF tail
  <2> QED BY <2>4, <2>5, <2>7 DEF tail
<1> DEFINE rest == SubSeq(t, 1, i-1) \o SubSeq(t, i+1, Len(t))
<1>4. /\ rest \in Seq(S) /\ Len(rest) = Len(t) - 1
      /\ \A k \in 1 .. Len(t) - 1 : rest[k] = IF k < i THEN t[k] ELSE t[k+1]
  <2> DEFINE front == SubSeq(t, 1, i-1)
             back == SubSeq(t, i+1, Len(t))
  <2>1. /\ front \in Seq(S) /\ Len(front) = i - 1 /\ \A k \in 1 .. i-1 : front[k] = t[k]
        /\ back \in Seq(S) /\ Len(back) = Len(t) - i
        /\ \A k \in 1 .. Len(t) - i : back[k] = t[i+k]
    BY <1>2, <1>3
  <2> HIDE DEF front, back
  <2>2. /\ front \o back \in Seq(S) /\ Len(front \o back) = Len(front) + Len(back)
        /\ \A k \in 1 .. Len(front) + Len(back) :
             (front \o back)[k] = IF k <= Len(front) THEN front[k] ELSE back[k - Len(front)]
    BY <2>1, ConcatProperties
  <2>3. \A k \in 1 .. Len(t) - 1 : (front \o back)[k] = IF k < i THEN t[k] ELSE t[k+1]
    BY <1>1, <2>1, <2>2
  <2>4. rest = front \o back
    BY DEF front, back
  <2>5. Len(front) + Len(back) = Len(t) - 1
    BY <1>1, <2>1
  <2> HIDE DEF rest
  <2> QED BY <2>2, <2>3, <2>4, <2>5
<1>5. Touch(t, p) = Append(rest, p)
  BY DEF Touch, RemoveAt, i
<1> HIDE DEF rest
<1>6. ~Contains(rest, p) /\ IsInjective(rest)
  <2>1. DOMAIN rest = 1 .. Len(t) - 1 /\ DOMAIN t = 1 .. Len(t)
    BY <1>4
  <2>2. \A j, k \in 1 .. Len(t) : t[j] = t[k] => j = k
    BY <2>1 DEF IsInjective
  <2>3. \A k \in 1 .. Len(t) - 1 : rest[k] # p
    BY <1>1, <1>4, <2>2
  <2>4. \A j, k \in 1 .. Len(t) - 1 : rest[j] = rest[k] => j = k
    BY <1>1, <1>4, <2>2
  <2> QED BY <1>4, <2>1, <2>3, <2>4 DEF Contains, IsInjective
<1>7. ToSet(rest) \cup {p} = ToSet(t)
  <2>1. ASSUME NEW k \in 1 .. Len(t), k # i PROVE t[k] \in ToSet(rest)
    <3>1. CASE k < i
      BY <2>1, <3>1, <1>1, <1>4 DEF ToSet
    <3>2. CASE k > i
      <4>1. k-1 \in 1 .. Len(t) - 1 /\ rest[k-1] = t[k]
        BY <2>1, <3>2, <1>1, <1>4
      <4> QED BY <4>1, <1>4 DEF ToSet
    <3> QED BY <2>1, <3>1, <3>2, <1>1
  <2>2. ToSet(t) = {t[k] : k \in 1 .. Len(t)} /\ ToSet(rest) = {rest[k] : k \in 1 .. Len(t) - 1}
    BY <1>4 DEF ToSet
  <2>3. ToSet(rest) \subseteq ToSet(t)
    BY <1>1, <1>4, <2>2
  <2> QED BY <1>1, <2>1, <2>2, <2>3
<1>8. /\ Append(rest, p) \in Seq(S) /\ IsInjective(Append(rest, p))
      /\ Len(Append(rest, p)) = Len(rest) + 1
      /\ ToSet(Append(rest, p)) = ToSet(rest) \cup {p}
  BY <1>1, <1>4, <1>6, AppendKeeps
<1>9. Len(t) \in Nat /\ Len(rest) + 1 = Len(t)
  BY <1>4
<1> QED BY <1>5, <1>7, <1>8, <1>9

(* Of processes that fit in the cache, one that is missing has room.         *)
LEMMA RoomForOneMore ==
  ASSUME NEW S, IsFiniteSet(S), NEW t \in Seq(S), IsInjective(t), NEW p \in S, ~Contains(t, p)
  PROVE  Len(t) < Cardinality(S)
<1>1. t \in Injection(1 .. Len(t), S \ {p})
  BY DEF Injection, IsInjective, Contains
<1>2. IsFiniteSet(S \ {p}) /\ Cardinality(S \ {p}) = Cardinality(S) - 1
  BY FS_RemoveElement
<1>3. Cardinality(1 .. Len(t)) <= Cardinality(S \ {p})
  BY <1>1, <1>2, FS_Injection
<1>4. Cardinality(1 .. Len(t)) = Len(t)
  <2> DEFINE n == Len(t)
  <2>1. n \in Nat
    OBVIOUS
  <2> HIDE DEF n
  <2>2. Cardinality(1 .. n) = IF 1 > n THEN 0 ELSE n - 1 + 1
    BY <2>1, FS_Interval
  <2>3. Cardinality(1 .. n) = n
    BY <2>1, <2>2
  <2> QED BY <2>3 DEF n
<1> QED BY <1>2, <1>3, <1>4, FS_CardinalityType

-----------------------------------------------------------------------------
(* How many jobs of a run the pool has: in its queue, and at its workers.    *)

JobsTo(r) == [kind : {"prime", "leaf"}, of : Processes, run : 0 .. r]
Queued(q, r) == {i \in DOMAIN q : q[i].run = r}
At(jobs, r) == {w \in Workers : jobs[w] # None /\ jobs[w].run = r}
Outstanding == Cardinality(Queued(queue, runs)) + Cardinality(At(job, runs))

LEMMA JobIsNotNone ==
  ASSUME NEW r \in Nat
  PROVE  None \notin JobsTo(r)
BY CacheAssumption DEF JobsTo

LEMMA Counts ==
  ASSUME NEW S, NEW q \in Seq(S), NEW jobs, NEW r
  PROVE  /\ IsFiniteSet(Queued(q, r)) /\ Cardinality(Queued(q, r)) \in Nat
         /\ IsFiniteSet(At(jobs, r)) /\ Cardinality(At(jobs, r)) \in Nat
<1>1. Queued(q, r) \in SUBSET (1 .. Len(q)) /\ At(jobs, r) \in SUBSET Workers
  BY DEF Queued, At
<1>2. IsFiniteSet(1 .. Len(q))
  <2>1. 1 \in Int /\ Len(q) \in Int
    OBVIOUS
  <2> QED BY <2>1, FS_Interval
<1>3. IsFiniteSet(Queued(q, r)) /\ IsFiniteSet(At(jobs, r))
  BY <1>1, <1>2, FS_Subset, CacheAssumption
<1> QED BY <1>3, FS_CardinalityType

(* Submitting k jobs of the run.                                            *)
LEMMA CountSubmitted ==
  ASSUME NEW r \in Nat, NEW q \in Seq(JobsTo(r)), NEW k \in Nat, NEW j \in JobsTo(r), j.run = r
  PROVE  /\ q \o Jobs(k, j) \in Seq(JobsTo(r))
         /\ ToSet(q \o Jobs(k, j)) \subseteq ToSet(q) \cup {j}
         /\ Cardinality(Queued(q \o Jobs(k, j), r)) = Cardinality(Queued(q, r)) + k
<1> DEFINE n == Len(q)
           new == Jobs(k, j)
<1>1. n \in Nat /\ new \in Seq(JobsTo(r)) /\ Len(new) = k /\ \A i \in 1 .. k : new[i] = j
  BY DEF Jobs
<1> HIDE DEF new
<1>2. /\ q \o new \in Seq(JobsTo(r)) /\ Len(q \o new) = n + k
      /\ \A i \in 1 .. n + k : (q \o new)[i] = IF i <= n THEN q[i] ELSE new[i - n]
  BY <1>1, ConcatProperties
<1>3. \A i \in 1 .. n + k : (q \o new)[i] = IF i <= n THEN q[i] ELSE j
  BY <1>1, <1>2
<1>4. ToSet(q \o new) \subseteq ToSet(q) \cup {j}
  BY <1>1, <1>2, <1>3 DEF ToSet
<1>5. Queued(q \o new, r) = Queued(q, r) \cup (n+1 .. n+k)
  <2>1. DOMAIN (q \o new) = 1 .. n+k /\ DOMAIN q = 1 .. n
    BY <1>2
  <2> QED BY <2>1, <1>1, <1>3 DEF Queued
<1>6. IsFiniteSet(n+1 .. n+k) /\ Cardinality(n+1 .. n+k) = k
  <2>1. n+1 \in Int /\ n+k \in Int
    BY <1>1
  <2>2. /\ IsFiniteSet(n+1 .. n+k)
        /\ Cardinality(n+1 .. n+k) = IF n+1 > n+k THEN 0 ELSE (n+k) - (n+1) + 1
    BY <2>1, FS_Interval
  <2> QED BY <1>1, <2>2
<1>7. Queued(q, r) \cap (n+1 .. n+k) = {}
  BY <1>1 DEF Queued
<1>8. Cardinality(Queued(q \o new, r)) = Cardinality(Queued(q, r)) + k - 0
  <2>1. IsFiniteSet(Queued(q, r)) /\ Cardinality(Queued(q, r)) \in Nat
    BY Counts
  <2>2. Cardinality(Queued(q, r) \cup (n+1 .. n+k)) =
          Cardinality(Queued(q, r)) + Cardinality(n+1 .. n+k) - Cardinality(Queued(q, r) \cap (n+1 .. n+k))
    BY <1>6, <2>1, FS_Union
  <2>3. Cardinality(Queued(q, r) \cap (n+1 .. n+k)) = 0
    BY <1>7, FS_EmptySet
  <2> QED BY <1>5, <1>6, <2>2, <2>3
<1> QED BY <1>2, <1>4, <1>8, Counts DEF new

(* A worker takes the head of the queue.                                    *)
LEMMA CountTail ==
  ASSUME NEW S, NEW q \in Seq(S), q # <<>>, NEW r
  PROVE  Cardinality(Queued(q, r)) = Cardinality(Queued(Tail(q), r)) + (IF Head(q).run = r THEN 1 ELSE 0)
<1> DEFINE rest == Queued(q, r) \ {1}
           f == [i \in rest |-> i - 1]
<1>1. /\ Len(q) \in Nat \ {0} /\ Head(q) = q[1] /\ Len(Tail(q)) = Len(q) - 1
      /\ \A i \in 1 .. Len(q) - 1 : Tail(q)[i] = q[i+1]
      /\ DOMAIN q = 1 .. Len(q) /\ DOMAIN Tail(q) = 1 .. Len(q) - 1
  BY HeadTailProperties
<1>2. \A i : i \in Queued(Tail(q), r) <=> i \in 1 .. Len(q) - 1 /\ i + 1 \in rest
  BY <1>1 DEF Queued
<1>3. rest \subseteq 2 .. Len(q)
  BY <1>1 DEF Queued
<1>4. f \in [rest -> Queued(Tail(q), r)]
  <2> SUFFICES ASSUME NEW i \in rest PROVE i - 1 \in Queued(Tail(q), r)
    OBVIOUS
  <2>1. i \in 2 .. Len(q) /\ i - 1 \in 1 .. Len(q) - 1 /\ (i - 1) + 1 = i
    BY <1>1, <1>3
  <2> QED BY <1>2, <2>1
<1>5. f \in Bijection(rest, Queued(Tail(q), r))
  <2>1. IsInjective(f)
    BY <1>3 DEF IsInjective
  <2>2. \A i \in Queued(Tail(q), r) : \E k \in rest : f[k] = i
    <3> TAKE i \in Queued(Tail(q), r)
    <3>1. i + 1 \in rest /\ i \in Int
      BY <1>1, <1>2
    <3>2. f[i + 1] = i
      BY <3>1
    <3> QED BY <3>1, <3>2
  <2> QED BY <1>4, <2>1, <2>2 DEF Bijection, Injection, Surjection
<1>6. IsFiniteSet(Queued(q, r)) /\ Cardinality(Queued(q, r)) \in Nat
  BY Counts
<1>7. IsFiniteSet(rest) /\ Cardinality(rest) =
        IF 1 \in Queued(q, r) THEN Cardinality(Queued(q, r)) - 1 ELSE Cardinality(Queued(q, r))
  BY <1>6, FS_RemoveElement
<1>8. Cardinality(rest) = Cardinality(Queued(Tail(q), r))
  <2>1. ExistsBijection(rest, Queued(Tail(q), r))
    BY <1>5 DEF ExistsBijection
  <2> HIDE DEF rest
  <2> QED BY <2>1, <1>7, FS_Bijection
<1>9. 1 \in Queued(q, r) <=> Head(q).run = r
  BY <1>1 DEF Queued
<1> HIDE DEF rest
<1> QED BY <1>6, <1>7, <1>8, <1>9

(* A worker gets a job, or ends one.                                        *)
LEMMA CountGiven ==
  ASSUME NEW jobs, NEW n \in Nat, jobs \in [Workers -> JobsTo(n) \cup {None}],
         NEW w \in Workers, NEW j, j # None, jobs[w] = None
  PROVE  Cardinality(At([jobs EXCEPT ![w] = j], n)) =
           Cardinality(At(jobs, n)) + (IF j.run = n THEN 1 ELSE 0)
<1>1. IsFiniteSet(At(jobs, n)) /\ Cardinality(At(jobs, n)) \in Nat
  BY Counts, EmptySeq
<1>2. At([jobs EXCEPT ![w] = j], n) = IF j.run = n THEN At(jobs, n) \cup {w} ELSE At(jobs, n)
  BY DEF At
<1>3. w \notin At(jobs, n)
  BY DEF At
<1>4. Cardinality(At(jobs, n) \cup {w}) = Cardinality(At(jobs, n)) + 1
  BY <1>1, <1>3, FS_AddElement
<1> QED BY <1>1, <1>2, <1>4

LEMMA CountEnded ==
  ASSUME NEW jobs, NEW n \in Nat, jobs \in [Workers -> JobsTo(n) \cup {None}],
         NEW w \in Workers, jobs[w] # None
  PROVE  Cardinality(At(jobs, n)) =
           Cardinality(At([jobs EXCEPT ![w] = None], n)) + (IF jobs[w].run = n THEN 1 ELSE 0)
<1>1. IsFiniteSet(At(jobs, n)) /\ Cardinality(At(jobs, n)) \in Nat
  BY Counts, EmptySeq
<1>2. At([jobs EXCEPT ![w] = None], n) = At(jobs, n) \ {w}
  BY DEF At
<1>3. w \in At(jobs, n) <=> jobs[w].run = n
  BY DEF At
<1>4. Cardinality(At(jobs, n) \ {w}) =
        IF w \in At(jobs, n) THEN Cardinality(At(jobs, n)) - 1 ELSE Cardinality(At(jobs, n))
  BY <1>1, FS_RemoveElement
<1> DEFINE a == Cardinality(At(jobs, n))
           b == Cardinality(At([jobs EXCEPT ![w] = None], n))
<1>5. a \in Nat /\ b = IF jobs[w].run = n THEN a - 1 ELSE a
  BY <1>1, <1>2, <1>3, <1>4
<1> HIDE DEF a, b
<1>6. a = b + (IF jobs[w].run = n THEN 1 ELSE 0)
  BY <1>5
<1> QED BY <1>6 DEF a, b

-----------------------------------------------------------------------------
(* The inductive invariant.                                                *)

Pending == {j \in ToSet(queue) \cup Range(job) : j # None}

(* Jobs are of runs that have started; priming jobs only of the one that is  *)
(* being primed.                                                           *)
JobsOK ==
  /\ queue \in Seq(JobsTo(runs))
  /\ job \in [Workers -> JobsTo(runs) \cup {None}]
  /\ \A j \in Pending : j.kind = "prime" => phase = "priming" /\ j.run = runs /\ j.of = process

RunOK ==
  /\ runs \in Nat
  /\ phase # "idle" => up /\ process \in usage.plans
  /\ phase = "priming" =>
       wanted = 0 /\ leaves = 0 /\ taken = 0 /\ failed = {} /\ ~Contains(primed, process)

(* A leaf that was asked for is still in the pool, or has come back with its  *)
(* value or with an error.                                                 *)
CountOK ==
  phase = "running" =>
    IF failed = {} THEN leaves + Outstanding = wanted ELSE leaves + Outstanding < wanted

IInv == TypeOK /\ JobsOK /\ RunOK /\ CountOK /\ OkTookEveryLeaf

(* Where the plans fit in the cache, nothing is ever evicted while it may be  *)
(* asked for.                                                              *)
Fits == IsFiniteSet(usage.plans) /\ Cardinality(usage.plans) <= Cap
Agree ==
  /\ cache \in [Workers -> Seq(usage.plans)]
  /\ \A j \in Pending : j.of \in usage.plans
  /\ up => \A w \in Workers : ToSet(primed) \subseteq ToSet(cache[w])
  /\ phase = "priming" => \A w \in covered : process \in ToSet(cache[w])
  /\ phase = "running" => process \in ToSet(primed)
  /\ \A j \in Pending : j.kind = "leaf" => \A w \in Workers : j.of \in ToSet(cache[w])
  /\ "missing" \notin failed
AInv == Fits => Agree
Inv == IInv /\ AInv

-----------------------------------------------------------------------------
(* The actions, one by one.                                                *)

LEMMA PlansAreProcesses ==
  ASSUME TypeOK
  PROVE  usage.plans \subseteq Processes
BY UsageAssumption DEF TypeOK

LEMMA SequencesAreTyped ==
  ASSUME NEW r \in Nat, NEW q \in Seq(JobsTo(r))
  PROVE  /\ q \in Seq(JobsTo(r+1))
         /\ \A j \in ToSet(q) : j \in JobsTo(r) /\ j # None
<1>1. JobsTo(r) \subseteq JobsTo(r+1)
  BY DEF JobsTo
<1> QED BY <1>1, SeqMonotonic, JobIsNotNone DEF ToSet

(* At its start nothing of a run is in the pool.                            *)
LEMMA NoneYet ==
  ASSUME JobsOK, runs \in Nat
  PROVE  /\ Cardinality(Queued(queue, runs + 1)) = 0
         /\ Cardinality(At(job, runs + 1)) = 0
<1>1. Queued(queue, runs + 1) = {}
  <2>1. \A i \in DOMAIN queue : queue[i] \in JobsTo(runs)
    BY DEF JobsOK
  <2> QED BY <2>1 DEF JobsTo, Queued
<1>2. At(job, runs + 1) = {}
  BY DEF JobsOK, JobsTo, At
<1> QED BY <1>1, <1>2, FS_EmptySet

(* When a priming batch is done, nothing of the run is in the pool.          *)
LEMMA NoneLeft ==
  ASSUME JobsOK, RunOK, BatchDone
  PROVE  /\ Cardinality(Queued(queue, runs)) = 0 /\ Cardinality(At(job, runs)) = 0
         /\ \A j \in Pending : j.kind # "prime"
<1>1. \A j \in Pending : j.run # runs
  BY DEF Pending, BatchDone, Ours, Range, JobsOK
<1>2. Queued(queue, runs) = {}
  <2> SUFFICES ASSUME NEW i \in DOMAIN queue, queue[i].run = runs PROVE FALSE
    BY DEF Queued
  <2>1. queue[i] \in ToSet(queue) /\ queue[i] # None
    BY SequencesAreTyped DEF JobsOK, RunOK, ToSet
  <2> QED BY <2>1, <1>1 DEF Pending
<1>3. At(job, runs) = {}
  BY DEF At, BatchDone, Ours
<1> QED BY <1>1, <1>2, <1>3, FS_EmptySet DEF JobsOK

(* Taking a job changes where it is, not how many are outstanding.           *)
LEMMA TakeCounts ==
  ASSUME JobsOK, RunOK, NEW w \in Workers, Take(w)
  PROVE  /\ Outstanding' = Outstanding /\ Head(queue) # None
         /\ Head(queue) \in ToSet(queue) /\ Pending' \subseteq Pending
<1>1. /\ job[w] = None /\ queue # <<>> /\ runs' = runs
      /\ job' = [job EXCEPT ![w] = Head(queue)] /\ queue' = Tail(queue)
  BY DEF Take, runVars
<1>2. /\ Head(queue) # None /\ Head(queue) \in ToSet(queue)
      /\ Tail(queue) \in Seq(JobsTo(runs)) /\ ToSet(Tail(queue)) \subseteq ToSet(queue)
  <2>1. /\ Head(queue) \in JobsTo(runs) /\ Tail(queue) \in Seq(JobsTo(runs))
        /\ Len(queue) \in Nat \ {0} /\ Head(queue) = queue[1]
        /\ Len(Tail(queue)) = Len(queue) - 1
        /\ \A i \in 1 .. Len(queue) - 1 : Tail(queue)[i] = queue[i+1]
    BY <1>1, HeadTailProperties DEF JobsOK
  <2> QED BY <2>1, JobIsNotNone DEF RunOK, ToSet
<1>3. Pending' \subseteq Pending
  BY <1>1, <1>2 DEF Pending, Range, JobsOK
<1>4. Cardinality(Queued(queue, runs)) =
        Cardinality(Queued(queue', runs)) + (IF Head(queue).run = runs THEN 1 ELSE 0)
  BY <1>1, CountTail DEF JobsOK
<1>5. Cardinality(At(job', runs)) =
        Cardinality(At(job, runs)) + (IF Head(queue).run = runs THEN 1 ELSE 0)
  <2>1. Cardinality(At([job EXCEPT ![w] = Head(queue)], runs)) =
          Cardinality(At(job, runs)) + (IF Head(queue).run = runs THEN 1 ELSE 0)
    BY <1>1, <1>2, CountGiven DEF JobsOK, RunOK
  <2> QED BY <2>1, <1>1
<1>6. Cardinality(Queued(queue', runs)) \in Nat /\ Cardinality(At(job, runs)) \in Nat
  BY <1>1, <1>2, Counts
<1>7. Outstanding' = Outstanding
  <2>1. Outstanding' = Cardinality(Queued(queue', runs)) + Cardinality(At(job', runs))
    BY <1>1 DEF Outstanding, Queued, At
  <2> QED BY <2>1, <1>4, <1>5, <1>6 DEF Outstanding
<1> QED BY <1>2, <1>3, <1>7

LEMMA TakeKeeps ==
  ASSUME Inv, NEW w \in Workers, Take(w)
  PROVE  Inv'
<1> USE DEF Inv, IInv
<1>1. /\ job[w] = None /\ queue # <<>>
      /\ job' = [job EXCEPT ![w] = Head(queue)] /\ queue' = Tail(queue)
      /\ UNCHANGED <<primed, up, cache, phase, runVars, outcome>>
  BY DEF Take
<1>2. /\ Head(queue) \in JobsTo(runs) /\ Head(queue) # None /\ Head(queue) \in ToSet(queue)
      /\ Tail(queue) \in Seq(JobsTo(runs)) /\ ToSet(Tail(queue)) \subseteq ToSet(queue)
  <2>1. /\ Head(queue) \in JobsTo(runs) /\ Tail(queue) \in Seq(JobsTo(runs))
        /\ Len(queue) \in Nat \ {0} /\ Head(queue) = queue[1]
        /\ Len(Tail(queue)) = Len(queue) - 1
        /\ \A i \in 1 .. Len(queue) - 1 : Tail(queue)[i] = queue[i+1]
    BY <1>1, HeadTailProperties DEF JobsOK
  <2> QED BY <2>1, JobIsNotNone DEF RunOK, ToSet
<1>3. Pending' \subseteq Pending
  BY <1>1, <1>2 DEF Pending, Range, JobsOK
<1>4. TypeOK'
  BY <1>1 DEF TypeOK, runVars, results
<1>5. JobsOK'
  BY <1>1, <1>2, <1>3 DEF JobsOK, runVars
<1>6. RunOK'
  BY <1>1 DEF RunOK, runVars, results
<1>7. CountOK'
  <2>1. Outstanding' = Outstanding
    BY TakeCounts
  <2> QED BY <2>1, <1>1 DEF CountOK, runVars, results
<1>8. OkTookEveryLeaf'
  BY <1>1, <1>3 DEF OkTookEveryLeaf, Pending, Ours, runVars, results
<1>9. AInv'
  BY <1>1, <1>3 DEF AInv, Agree, Fits, runVars, results
<1> QED BY <1>4, <1>5, <1>6, <1>7, <1>8, <1>9

(* A worker's job ends: one less of its run is outstanding.                  *)
LEMMA JobEnds ==
  ASSUME Inv, NEW w \in Workers, job[w] # None,
         job' = [job EXCEPT ![w] = None], UNCHANGED <<queue, runs>>
  PROVE  /\ job[w] \in JobsTo(runs) /\ job[w] \in Pending /\ Pending' \subseteq Pending
         /\ queue' \in Seq(JobsTo(runs)) /\ job' \in [Workers -> JobsTo(runs) \cup {None}]
         /\ Outstanding \in Nat /\ Outstanding' \in Nat
         /\ Outstanding = Outstanding' + (IF job[w].run = runs THEN 1 ELSE 0)
<1> USE DEF Inv, IInv
<1>1. job[w] \in JobsTo(runs) /\ job[w] \in Pending /\ Pending' \subseteq Pending
  BY DEF JobsOK, Pending, Range
<1>2. queue' \in Seq(JobsTo(runs)) /\ job' \in [Workers -> JobsTo(runs) \cup {None}]
  BY DEF JobsOK
<1>3. Cardinality(At(job, runs)) = Cardinality(At(job', runs)) + (IF job[w].run = runs THEN 1 ELSE 0)
  <2>1. Cardinality(At(job, runs)) =
          Cardinality(At([job EXCEPT ![w] = None], runs)) + (IF job[w].run = runs THEN 1 ELSE 0)
    BY CountEnded DEF JobsOK, RunOK
  <2> QED BY <2>1
<1>4. /\ Cardinality(Queued(queue, runs)) \in Nat
      /\ Cardinality(At(job, runs)) \in Nat /\ Cardinality(At(job', runs)) \in Nat
  BY Counts DEF JobsOK
<1>5. Outstanding' = Cardinality(Queued(queue, runs)) + Cardinality(At(job', runs))
  BY DEF Outstanding, Queued, At
<1> QED BY <1>1, <1>2, <1>3, <1>4, <1>5 DEF Outstanding

LEMMA PrimeWorkerKeeps ==
  ASSUME Inv, NEW w \in Workers, PrimeWorker(w)
  PROVE  Inv'
<1> USE DEF Inv, IInv
<1> DEFINE p == job[w].of
<1>1. /\ job[w] # None /\ job[w].kind = "prime" /\ job' = [job EXCEPT ![w] = None]
      /\ cache' = IF Contains(cache[w], p) THEN cache ELSE [cache EXCEPT ![w] = Insert(@, p)]
      /\ covered' = covered \cup {w}
      /\ UNCHANGED <<primed, up, queue, phase, usage, runs, process, rounds, wanted, results, outcome>>
  BY DEF PrimeWorker
<1>2. /\ job[w] \in JobsTo(runs) /\ job[w] \in Pending /\ Pending' \subseteq Pending
      /\ queue' \in Seq(JobsTo(runs)) /\ job' \in [Workers -> JobsTo(runs) \cup {None}]
  BY <1>1, JobEnds
<1>3. phase = "priming" /\ p = process /\ p \in Processes
  BY <1>1, <1>2 DEF JobsOK, JobsTo
<1>4. \A S : cache \in [Workers -> Seq(S)] /\ p \in S =>
        /\ cache' \in [Workers -> Seq(S)] /\ p \in ToSet(cache'[w])
        /\ \A v \in Workers : v # w => cache'[v] = cache[v]
        /\ Len(cache'[w]) <= Cap /\ IsInjective(cache'[w])
        /\ Len(cache[w]) < Cap \/ Contains(cache[w], p) => ToSet(cache[w]) \subseteq ToSet(cache'[w])
  <2> TAKE S
  <2> HAVE cache \in [Workers -> Seq(S)] /\ p \in S
  <2>1. cache[w] \in Seq(S) /\ Len(cache[w]) <= Cap /\ IsInjective(cache[w])
    BY DEF TypeOK
  <2>2. CASE Contains(cache[w], p)
    BY <2>1, <2>2, <1>1 DEF Contains, ToSet
  <2>3. CASE ~Contains(cache[w], p)
    <3>1. /\ Insert(cache[w], p) \in Seq(S) /\ IsInjective(Insert(cache[w], p))
          /\ Len(Insert(cache[w], p)) <= Cap /\ p \in ToSet(Insert(cache[w], p))
          /\ Len(cache[w]) < Cap => ToSet(cache[w]) \subseteq ToSet(Insert(cache[w], p))
      BY <2>1, <2>3, InsertKeeps
    <3>2. cache' = [cache EXCEPT ![w] = Insert(cache[w], p)]
      BY <2>3, <1>1
    <3> HIDE DEF p
    <3> QED BY <2>3, <3>1, <3>2
  <2> QED BY <2>2, <2>3
<1>5. TypeOK'
  <2>1. /\ cache' \in [Workers -> Seq(Processes)] /\ Len(cache'[w]) <= Cap /\ IsInjective(cache'[w])
        /\ \A v \in Workers : v # w => cache'[v] = cache[v]
    <3>1. cache \in [Workers -> Seq(Processes)]
      BY DEF TypeOK
    <3> HIDE DEF p
    <3> QED BY <3>1, <1>3, <1>4
  <2> QED BY <2>1, <1>1 DEF TypeOK, results
<1>6. JobsOK'
  BY <1>1, <1>2 DEF JobsOK
<1>7. RunOK' /\ CountOK'
  BY <1>1, <1>3 DEF RunOK, CountOK, results
<1>8. OkTookEveryLeaf'
  BY <1>1, <1>3 DEF OkTookEveryLeaf
<1>9. AInv'
  <2> SUFFICES ASSUME Fits PROVE Agree'
    BY <1>1 DEF AInv, Fits
  <2>1. Agree /\ cache \in [Workers -> Seq(usage.plans)] /\ p \in usage.plans
    BY <1>2 DEF AInv, Agree
  <2>2. Len(cache[w]) < Cap \/ Contains(cache[w], p)
    <3>a. cache[w] \in Seq(usage.plans) /\ IsInjective(cache[w]) /\ IsFiniteSet(usage.plans)
      BY <2>1 DEF TypeOK, Fits
    <3>1. ~Contains(cache[w], p) => Len(cache[w]) < Cardinality(usage.plans)
      BY <2>1, <3>a, RoomForOneMore
    <3>2. Cardinality(usage.plans) \in Nat /\ Cardinality(usage.plans) <= Cap /\ Len(cache[w]) \in Nat
      BY <2>1, FS_CardinalityType DEF Fits
    <3> QED BY <3>1, <3>2, CacheAssumption
  <2>3. /\ cache' \in [Workers -> Seq(usage.plans)] /\ p \in ToSet(cache'[w])
        /\ \A v \in Workers : ToSet(cache[v]) \subseteq ToSet(cache'[v])
    <3> HIDE DEF p
    <3>1. /\ cache' \in [Workers -> Seq(usage.plans)] /\ p \in ToSet(cache'[w])
          /\ ToSet(cache[w]) \subseteq ToSet(cache'[w])
          /\ \A v \in Workers : v # w => cache'[v] = cache[v]
      BY <2>1, <2>2, <1>4
    <3> QED BY <3>1
  <2> QED BY <2>1, <2>3, <1>1, <1>2, <1>3 DEF Agree, results
<1> QED BY <1>5, <1>6, <1>7, <1>8, <1>9

LEMMA RunLeafKeeps ==
  ASSUME Inv, NEW w \in Workers, RunLeaf(w)
  PROVE  Inv'
<1> USE DEF Inv, IInv
<1>1. PICK how \in {"ok", "raised", "missing"} :
        /\ LeafEnds(w, how) /\ job[w] # None /\ job[w].kind = "leaf"
        /\ how = "missing" => ~Contains(cache[w], job[w].of)
  BY DEF RunLeaf
<1>2. /\ job' = [job EXCEPT ![w] = None]
      /\ UNCHANGED <<primed, up, cache, queue, phase, usage, runs, process, covered, rounds,
                     wanted, taken, outcome>>
  BY <1>1 DEF LeafEnds
<1>3. /\ job[w] \in JobsTo(runs) /\ job[w] \in Pending /\ Pending' \subseteq Pending
      /\ queue' \in Seq(JobsTo(runs)) /\ job' \in [Workers -> JobsTo(runs) \cup {None}]
      /\ Outstanding \in Nat /\ Outstanding' \in Nat
      /\ Outstanding = Outstanding' + (IF job[w].run = runs THEN 1 ELSE 0)
  BY <1>1, <1>2, JobEnds
<1>4. \/ /\ phase = "running" /\ job[w].run = runs
         /\ \/ how = "ok" /\ leaves' = leaves + 1 /\ failed' = failed
            \/ how # "ok" /\ leaves' = leaves /\ failed' = failed \cup {how}
      \/ ~(phase = "running" /\ job[w].run = runs) /\ leaves' = leaves /\ failed' = failed
  BY <1>1 DEF LeafEnds, Ours, Noted
<1>5. wanted \in Nat /\ leaves \in Nat /\ taken \in Nat /\ taken <= leaves /\ leaves <= wanted
  BY CacheAssumption DEF TypeOK
<1> DEFINE out == Outstanding
           out1 == Outstanding'
<1>a. /\ out \in Nat /\ out1 \in Nat
      /\ out = out1 + (IF job[w].run = runs THEN 1 ELSE 0)
      /\ phase = "running" => IF failed = {} THEN leaves + out = wanted ELSE leaves + out < wanted
  BY <1>3 DEF CountOK
<1> HIDE DEF out, out1
<1>6. TypeOK' /\ CountOK'
  <2>1. CASE phase = "running" /\ job[w].run = runs
    <3>1. CASE how = "ok"
      <4>1. leaves' = leaves + 1 /\ failed' = failed /\ out = out1 + 1
        BY <2>1, <3>1, <1>a, <1>4
      <4>2. IF failed' = {} THEN leaves' + out1 = wanted ELSE leaves' + out1 < wanted
        BY <2>1, <4>1, <1>a, <1>5
      <4>3. leaves' \in taken .. wanted
        BY <4>1, <4>2, <1>a, <1>5
      <4> QED BY <4>1, <4>2, <4>3, <1>2, <1>5 DEF TypeOK, CountOK, out, out1
    <3>2. CASE how # "ok"
      <4>1. leaves' = leaves /\ failed' = failed \cup {how} /\ out = out1 + 1
        BY <2>1, <3>2, <1>a, <1>4
      <4>2. leaves + out <= wanted
        BY <2>1, <1>a, <1>5
      <4>3. failed' # {} /\ leaves' + out1 < wanted
        BY <4>1, <4>2, <1>a, <1>5
      <4> QED BY <3>2, <4>1, <4>3, <1>2, <1>5 DEF TypeOK, CountOK, out, out1
    <3> QED BY <3>1, <3>2
  <2>2. CASE ~(phase = "running" /\ job[w].run = runs)
    <3>1. leaves' = leaves /\ failed' = failed /\ (phase = "running" => out = out1)
      BY <2>2, <1>a, <1>4
    <3> QED BY <3>1, <1>2, <1>3 DEF TypeOK, CountOK, out, out1
  <2> QED BY <2>1, <2>2
<1>7. JobsOK' /\ RunOK'
  BY <1>2, <1>3, <1>4 DEF JobsOK, RunOK
<1>8. OkTookEveryLeaf'
  BY <1>2, <1>3, <1>4 DEF OkTookEveryLeaf, Pending, Ours
<1>9. AInv'
  <2> SUFFICES ASSUME Fits PROVE Agree'
    BY <1>2 DEF AInv, Fits
  <2>1. Agree /\ job[w].of \in ToSet(cache[w])
    BY <1>1, <1>3 DEF AInv, Agree
  <2>2. how # "missing"
    BY <2>1, <1>1, ContainsIsIn DEF TypeOK
  <2> QED BY <2>1, <2>2, <1>2, <1>3, <1>4 DEF Agree
<1> QED BY <1>6, <1>7, <1>8, <1>9

(* The driver submits jobs of its run.                                      *)
LEMMA JobsSubmitted ==
  ASSUME JobsOK, RunOK, NEW k \in Nat, NEW j \in JobsTo(runs), j.run = runs,
         queue' = queue \o Jobs(k, j), UNCHANGED <<job, runs>>
  PROVE  /\ queue' \in Seq(JobsTo(runs)) /\ Pending' \subseteq Pending \cup {j}
         /\ Outstanding \in Nat /\ Outstanding' = Outstanding + k
<1>1. queue \in Seq(JobsTo(runs)) /\ runs \in Nat
  BY DEF JobsOK, RunOK
<1>2. /\ queue' \in Seq(JobsTo(runs)) /\ ToSet(queue') \subseteq ToSet(queue) \cup {j}
      /\ Cardinality(Queued(queue', runs)) = Cardinality(Queued(queue, runs)) + k
  BY <1>1, CountSubmitted
<1>3. Pending' \subseteq Pending \cup {j}
  BY <1>2 DEF Pending, Range
<1>4. Cardinality(Queued(queue, runs)) \in Nat /\ Cardinality(At(job, runs)) \in Nat
  BY <1>1, Counts
<1>5. Outstanding' = Cardinality(Queued(queue', runs)) + Cardinality(At(job, runs))
  BY DEF Outstanding, Queued, At
<1> QED BY <1>2, <1>3, <1>4, <1>5 DEF Outstanding

LEMMA PrimeRoundKeeps ==
  ASSUME Inv, PrimeRound
  PROVE  Inv'
<1> USE DEF Inv, IInv
<1> DEFINE j == Prime(process)
           k == Cardinality(Workers \ covered)
<1>1. /\ phase = "priming" /\ rounds < MaxRounds /\ rounds' = rounds + 1
      /\ queue' = queue \o Jobs(k, j)
      /\ UNCHANGED <<primed, up, cache, job, phase, usage, runs, process, covered, wanted, results, outcome>>
  BY DEF PrimeRound, BatchDone
<1>2. k \in Nat
  BY FS_Difference, FS_CardinalityType, FS_Subset, CacheAssumption
<1>3. j \in JobsTo(runs) /\ j.run = runs /\ j.kind = "prime" /\ j.of = process
  BY <1>1, PlansAreProcesses DEF RunOK, JobsTo, Prime
<1>4. queue' \in Seq(JobsTo(runs)) /\ Pending' \subseteq Pending \cup {j}
  <2> HIDE DEF j, k
  <2> QED BY <1>1, <1>2, <1>3, JobsSubmitted
<1>5. TypeOK'
  <2>1. rounds' \in 0 .. MaxRounds
    BY <1>1, CacheAssumption DEF TypeOK
  <2> QED BY <1>1, <2>1 DEF TypeOK, results
<1>6. JobsOK'
  BY <1>1, <1>3, <1>4 DEF JobsOK
<1>7. RunOK' /\ CountOK' /\ OkTookEveryLeaf'
  BY <1>1 DEF RunOK, CountOK, OkTookEveryLeaf, results
<1>8. AInv'
  BY <1>1, <1>3, <1>4 DEF AInv, Agree, Fits, RunOK, results
<1> QED BY <1>5, <1>6, <1>7, <1>8

(* The run's leaves go into the pool.                                       *)
LEMMA LeafIsJob ==
  ASSUME TypeOK, RunOK, phase # "idle"
  PROVE  /\ Leaf(process, runs) \in JobsTo(runs) /\ Leaf(process, runs).run = runs
         /\ Leaf(process, runs).kind = "leaf" /\ Leaf(process, runs).of = process
         /\ process \in usage.plans /\ process \in Processes
BY PlansAreProcesses DEF RunOK, JobsTo, Leaf

LEMMA PrimedKeeps ==
  ASSUME Inv, Primed
  PROVE  Inv'
<1> USE DEF Inv, IInv
<1> DEFINE j == Leaf(process, runs)
<1>1. /\ phase = "priming" /\ BatchDone /\ covered = Workers /\ primed' = Insert(primed, process)
      /\ phase' = "running"
      /\ UNCHANGED <<up, cache, job, usage, runs, process, covered, rounds, results, outcome>>
  BY DEF Primed, AllCovered, Remembered, BatchDone
<1>2. PICK batch \in 0 .. NLeaves : wanted' = batch /\ queue' = queue \o Jobs(batch, j)
  BY CacheAssumption DEF Primed, SubmitFirst, Batches
<1>3. /\ j \in JobsTo(runs) /\ j.run = runs /\ j.kind = "leaf" /\ j.of = process
      /\ process \in usage.plans /\ process \in Processes
  BY <1>1, LeafIsJob
<1> HIDE DEF j
<1>4. /\ queue' \in Seq(JobsTo(runs)) /\ Pending' \subseteq Pending \cup {j}
      /\ Outstanding \in Nat /\ Outstanding' = Outstanding + batch
  <2>1. batch \in Nat
    BY CacheAssumption
  <2> QED BY <1>1, <1>2, <1>3, <2>1, JobsSubmitted
<1>5. Outstanding = 0 /\ \A i \in Pending : i.kind # "prime"
  BY <1>1, NoneLeft DEF Outstanding
<1>6. ~Contains(primed, process) /\ leaves = 0 /\ taken = 0 /\ failed = {}
  BY <1>1 DEF RunOK
<1>7. /\ primed' \in Seq(Processes) /\ IsInjective(primed') /\ Len(primed') <= Cap
      /\ process \in ToSet(primed') /\ ToSet(primed') \subseteq ToSet(primed) \cup {process}
  <2>1. primed \in Seq(Processes) /\ IsInjective(primed) /\ Len(primed) <= Cap
    BY DEF TypeOK
  <2> QED BY <2>1, <1>1, <1>3, <1>6, InsertKeeps
<1>8. TypeOK'
  BY <1>1, <1>2, <1>6, <1>7 DEF TypeOK, results
<1>9. JobsOK' /\ RunOK' /\ OkTookEveryLeaf'
  BY <1>1, <1>3, <1>4, <1>5 DEF JobsOK, RunOK, OkTookEveryLeaf
<1>10. CountOK'
  BY <1>1, <1>2, <1>4, <1>5, <1>6 DEF CountOK, results
<1>11. AInv'
  <2> SUFFICES ASSUME Fits PROVE Agree'
    BY <1>1 DEF AInv, Fits
  <2>1. \A w \in Workers : process \in ToSet(cache[w])
    BY <1>1 DEF AInv, Agree
  <2>2. Agree /\ up
    BY <1>1 DEF AInv, RunOK
  <2> QED BY <2>1, <2>2, <1>1, <1>3, <1>4, <1>7 DEF Agree, results
<1> QED BY <1>8, <1>9, <1>10, <1>11

(* Leaving a run, whatever the outcome, changes nothing in the pool.         *)
LEMMA LeaveKeeps ==
  ASSUME Inv, phase \in {"priming", "running"},
         NEW how \in {"ok", "stopped", "raised", "missing", "underprimed"}, Leave(how),
         UNCHANGED <<primed, up, poolVars, runVars>>,
         how = "ok" => taken = wanted /\ failed = {} /\ \A j \in Pending : j.run # runs,
         \A j \in Pending : j.kind # "prime"
  PROVE  Inv'
<1> USE DEF Inv, IInv
<1>1. /\ outcome' = how /\ phase' \in {"idle", "leaving"}
      /\ UNCHANGED <<primed, up, cache, queue, job, usage, runs, process, covered, rounds,
                     wanted, leaves, failed, taken>>
  BY DEF Leave, poolVars, runVars, results
<1>2. Pending' = Pending
  BY <1>1 DEF Pending
<1>3. TypeOK'
  BY <1>1 DEF TypeOK
<1>4. JobsOK' /\ RunOK' /\ CountOK'
  BY <1>1, <1>2 DEF JobsOK, RunOK, CountOK
<1>5. OkTookEveryLeaf'
  BY <1>1 DEF OkTookEveryLeaf, Pending, Ours
<1>6. AInv'
  BY <1>1, <1>2 DEF AInv, Agree, Fits
<1> QED BY <1>3, <1>4, <1>5, <1>6

LEMMA UnderPrimedKeeps ==
  ASSUME Inv, UnderPrimed
  PROVE  Inv'
<1>1. BatchDone /\ phase = "priming" /\ Leave("underprimed") /\ UNCHANGED <<primed, up, poolVars, runVars>>
  BY DEF UnderPrimed, BatchDone
<1>2. \A j \in Pending : j.kind # "prime"
  BY <1>1, NoneLeft DEF Inv, IInv
<1> QED BY <1>1, <1>2, LeaveKeeps

(* While a run takes values, none of the jobs is a priming job.              *)
LEMMA NoPriming ==
  ASSUME JobsOK, phase = "running"
  PROVE  \A j \in Pending : j.kind # "prime"
BY DEF JobsOK

LEMMA RaiseErrorKeeps ==
  ASSUME Inv, RaiseError
  PROVE  Inv'
<1>1. PICK how \in failed : phase = "running" /\ Leave(how) /\ UNCHANGED <<primed, up, poolVars, runVars>>
  BY DEF RaiseError
<1>2. how \in {"raised", "missing"}
  BY <1>1 DEF Inv, IInv, TypeOK
<1>3. \A j \in Pending : j.kind # "prime"
  BY <1>1, NoPriming DEF Inv, IInv
<1> QED BY <1>1, <1>2, <1>3, LeaveKeeps

(* When all values are there, nothing of the run is left in the pool.        *)
LEMMA RunReturnsKeeps ==
  ASSUME Inv, RunReturns
  PROVE  Inv'
<1> USE DEF Inv, IInv
<1>1. phase = "running" /\ taken = wanted /\ Leave("ok") /\ UNCHANGED <<primed, up, poolVars, runVars>>
  BY DEF RunReturns
<1>2. wanted \in Nat /\ leaves \in Nat /\ taken <= leaves /\ leaves <= wanted
  BY CacheAssumption DEF TypeOK
<1>3. Cardinality(Queued(queue, runs)) \in Nat /\ Cardinality(At(job, runs)) \in Nat
  BY Counts DEF JobsOK
<1>4. failed = {} /\ Cardinality(Queued(queue, runs)) = 0 /\ Cardinality(At(job, runs)) = 0
  <2> DEFINE a == Cardinality(Queued(queue, runs))
             b == Cardinality(At(job, runs))
  <2>1. IF failed = {} THEN leaves + (a + b) = wanted ELSE leaves + (a + b) < wanted
    BY <1>1 DEF CountOK, Outstanding
  <2>2. a \in Nat /\ b \in Nat
    BY <1>3
  <2> HIDE DEF a, b
  <2>3. failed = {} /\ a = 0 /\ b = 0
    BY <2>1, <2>2, <1>1, <1>2
  <2> QED BY <2>3 DEF a, b
<1>5. Queued(queue, runs) = {} /\ At(job, runs) = {}
  BY <1>4, Counts, FS_EmptySet DEF JobsOK
<1>6. \A j \in Pending : j.run # runs
  <2> SUFFICES ASSUME NEW j \in Pending, j.run = runs PROVE FALSE
    OBVIOUS
  <2>1. CASE j \in ToSet(queue)
    BY <2>1, <1>5 DEF ToSet, Queued
  <2>2. CASE j \in Range(job)
    BY <2>2, <1>5 DEF Range, At, Pending, JobsOK
  <2> QED BY <2>1, <2>2 DEF Pending
<1>7. \A j \in Pending : j.kind # "prime"
  BY <1>1, NoPriming
<1> QED BY <1>1, <1>4, <1>6, <1>7, LeaveKeeps

LEMMA RefillKeeps ==
  ASSUME Inv, Refill
  PROVE  Inv'
<1> USE DEF Inv, IInv
<1> DEFINE j == Leaf(process, runs)
<1>1. /\ phase = "running" /\ taken' \in taken + 1 .. leaves
      /\ UNCHANGED <<primed, up, cache, job, usage, runs, process, covered, rounds, leaves, failed>>
      /\ UNCHANGED <<phase, outcome>>
  BY DEF Refill, TakeValues
<1>2. wanted \in 0 .. NLeaves /\ leaves \in 0 .. wanted /\ taken \in 0 .. leaves /\ NLeaves \in Nat
  BY CacheAssumption DEF TypeOK
<1>3. PICK batch \in 0 .. NLeaves - wanted : wanted' = wanted + batch /\ queue' = queue \o Jobs(batch, j)
  <2>1. PICK batch \in IF usage.adaptive THEN 0 .. NLeaves - wanted ELSE {0} :
          wanted' = wanted + batch /\ queue' = queue \o Jobs(batch, j)
    BY DEF Refill
  <2> QED BY <1>2, <2>1
<1>4. /\ j \in JobsTo(runs) /\ j.run = runs /\ j.kind = "leaf" /\ j.of = process
      /\ process \in usage.plans
  BY <1>1, LeafIsJob
<1> HIDE DEF j
<1>5. /\ queue' \in Seq(JobsTo(runs)) /\ Pending' \subseteq Pending \cup {j}
      /\ Outstanding \in Nat /\ Outstanding' = Outstanding + batch
  <2>1. batch \in Nat
    BY <1>2
  <2> QED BY <1>1, <1>3, <1>4, <2>1, JobsSubmitted
<1>6. TypeOK'
  <2>1. wanted' \in 0 .. NLeaves /\ leaves' \in 0 .. wanted' /\ taken' \in 0 .. leaves'
    BY <1>1, <1>2, <1>3
  <2> QED BY <1>1, <2>1 DEF TypeOK
<1>7. JobsOK' /\ RunOK' /\ OkTookEveryLeaf'
  BY <1>1, <1>4, <1>5 DEF JobsOK, RunOK, OkTookEveryLeaf
<1>8. CountOK'
  <2> DEFINE out == Outstanding
             out1 == Outstanding'
  <2>1. /\ out \in Nat /\ out1 = out + batch /\ batch \in Nat
        /\ IF failed = {} THEN leaves + out = wanted ELSE leaves + out < wanted
    BY <1>1, <1>2, <1>5 DEF CountOK
  <2> HIDE DEF out, out1
  <2>2. IF failed = {} THEN leaves + out1 = wanted' ELSE leaves + out1 < wanted'
    BY <2>1, <1>2, <1>3
  <2> QED BY <1>1, <2>2 DEF CountOK, out1
<1>9. AInv'
  <2> SUFFICES ASSUME Fits PROVE Agree'
    BY <1>1 DEF AInv, Fits
  <2>1. Agree /\ up /\ \A w \in Workers : process \in ToSet(cache[w])
    BY <1>1 DEF AInv, Agree, RunOK
  <2> QED BY <2>1, <1>1, <1>4, <1>5 DEF Agree
<1> QED BY <1>6, <1>7, <1>8, <1>9

(* What is cancelled leaves the end of the queue.                           *)
LEMMA StoppedQueue ==
  ASSUME JobsOK, NEW kept \in 0 .. Len(queue)
  PROVE  /\ SubSeq(queue, 1, kept) \in Seq(JobsTo(runs))
         /\ ToSet(SubSeq(queue, 1, kept)) \subseteq ToSet(queue)
<1>1. queue \in Seq(JobsTo(runs)) /\ kept \in Int /\ 1 \in Int /\ kept <= Len(queue)
      /\ \A i \in 1 .. kept : queue[i] \in JobsTo(runs)
  BY DEF JobsOK
<1>2. /\ SubSeq(queue, 1, kept) \in Seq(JobsTo(runs))
      /\ Len(SubSeq(queue, 1, kept)) = IF 1 <= kept THEN kept - 1 + 1 ELSE 0
      /\ \A i \in 1 .. kept - 1 + 1 : SubSeq(queue, 1, kept)[i] = queue[1 + i - 1]
  BY <1>1, SubSeqProperties
<1> QED BY <1>1, <1>2 DEF ToSet

LEMMA StopKeeps ==
  ASSUME Inv, Stop
  PROVE  Inv'
<1> USE DEF Inv, IInv
<1>1. /\ phase = "running" /\ taken' \in taken + 1 .. leaves
      /\ outcome' = "stopped" /\ phase' \in {"idle", "leaving"} /\ wanted' = wanted
      /\ UNCHANGED <<primed, up, cache, job, usage, runs, process, covered, rounds, leaves, failed>>
  BY DEF Stop, TakeValues, Leave
<1>2. PICK kept \in 0 .. Len(queue) : queue' = SubSeq(queue, 1, kept)
  BY DEF Stop
<1>3. queue' \in Seq(JobsTo(runs)) /\ ToSet(queue') \subseteq ToSet(queue)
  BY <1>2, StoppedQueue
<1>4. Pending' \subseteq Pending
  BY <1>1, <1>3 DEF Pending
<1>5. \A j \in Pending : j.kind # "prime"
  BY <1>1, NoPriming
<1>6. TypeOK'
  <2>1. taken' \in 0 .. leaves'
    BY <1>1, CacheAssumption DEF TypeOK
  <2> QED BY <1>1, <2>1 DEF TypeOK
<1>7. JobsOK' /\ RunOK' /\ CountOK' /\ OkTookEveryLeaf'
  BY <1>1, <1>3, <1>4, <1>5 DEF JobsOK, RunOK, CountOK, OkTookEveryLeaf
<1>8. AInv'
  BY <1>1, <1>4 DEF AInv, Agree, Fits
<1> QED BY <1>6, <1>7, <1>8

(* The caches go with the workers.                                          *)
LEMMA ShutDownKeeps ==
  ASSUME Inv, ShutDown
  PROVE  Inv'
<1> USE DEF Inv, IInv
<1>1. /\ phase \in {"idle", "leaving"} /\ phase' = "idle" /\ up' = FALSE
      /\ queue = <<>> /\ \A w \in Workers : job[w] = None
      /\ primed' = (IF usage.persistent THEN <<>> ELSE primed)
      /\ cache' = [w \in Workers |-> <<>>]
      /\ UNCHANGED <<queue, job, usage, runs, process, covered, rounds, wanted, leaves, failed, taken, outcome>>
  BY DEF ShutDown, Quiet, runVars, results
<1>2. Pending = {} /\ Pending' = {}
  BY <1>1 DEF Pending, Range, ToSet, JobsOK
<1>3. TypeOK'
  <2>1. primed' \in Seq(Processes) /\ Len(primed') <= Cap /\ IsInjective(primed')
    BY <1>1, CacheAssumption DEF TypeOK, IsInjective
  <2>2. /\ cache' \in [Workers -> Seq(Processes)]
        /\ \A w \in Workers : Len(cache'[w]) <= Cap /\ IsInjective(cache'[w])
    BY <1>1, CacheAssumption DEF IsInjective
  <2> QED BY <1>1, <2>1, <2>2 DEF TypeOK
<1>4. JobsOK' /\ RunOK' /\ CountOK'
  BY <1>1, <1>2 DEF JobsOK, RunOK, CountOK
<1>5. OkTookEveryLeaf'
  BY <1>1 DEF OkTookEveryLeaf, Ours
<1>6. AInv'
  BY <1>1, <1>2 DEF AInv, Agree, Fits
<1> QED BY <1>3, <1>4, <1>5, <1>6

LEMMA StartRunKeeps ==
  ASSUME Inv, NEW p \in Processes, StartRun(p)
  PROVE  Inv'
<1> USE DEF Inv, IInv
<1> DEFINE ts == TokensAtStart
<1>1. /\ phase = "idle" /\ p \in usage.plans /\ runs' = runs + 1 /\ process' = p /\ up' = TRUE
      /\ covered' = {} /\ rounds' = 0 /\ leaves' = 0 /\ failed' = {} /\ taken' = 0
      /\ UNCHANGED <<usage, cache, job, outcome>>
  BY DEF StartRun
<1>2. \/ /\ Contains(ts, p) /\ primed' = Touch(ts, p) /\ phase' = "running"
         /\ \E batch \in 0 .. NLeaves :
              wanted' = batch /\ queue' = queue \o Jobs(batch, Leaf(p, runs + 1))
      \/ /\ ~Contains(ts, p) /\ primed' = ts /\ phase' = "priming" /\ wanted' = 0 /\ queue' = queue
  BY CacheAssumption DEF StartRun, SubmitFirst, Batches
<1>3. ts = <<>> \/ (ts = primed /\ up)
  BY DEF TokensAtStart
<1>4. ts \in Seq(Processes) /\ IsInjective(ts) /\ Len(ts) <= Cap
  <2>1. CASE ts = <<>>
    <3>1. <<>> \in Seq(Processes) /\ Len(<<>>) <= Cap /\ IsInjective(<<>>)
      BY CacheAssumption DEF IsInjective
    <3> HIDE DEF ts
    <3> QED BY <2>1, <3>1
  <2>2. CASE ts = primed
    <3> HIDE DEF ts
    <3> QED BY <2>2 DEF TypeOK
  <2> QED BY <1>3, <2>1, <2>2
<1> HIDE DEF ts
<1>5. /\ primed' \in Seq(Processes) /\ IsInjective(primed') /\ Len(primed') <= Cap
      /\ ToSet(primed') = ToSet(ts)
  BY <1>2, <1>4, TouchKeeps
<1>6. runs \in Nat /\ queue \in Seq(JobsTo(runs + 1)) /\ job' \in [Workers -> JobsTo(runs + 1) \cup {None}]
  <2>1. JobsTo(runs) \subseteq JobsTo(runs + 1)
    BY DEF JobsTo, RunOK
  <2> QED BY <1>1, <2>1, SequencesAreTyped DEF JobsOK, RunOK
<1>7. \A j \in Pending : j.kind # "prime"
  BY <1>1 DEF JobsOK
<1> DEFINE new == Leaf(p, runs + 1)
<1>8. new \in JobsTo(runs + 1) /\ new.run = runs + 1 /\ new.kind = "leaf" /\ new.of = p
  BY <1>6 DEF Leaf, JobsTo
<1> HIDE DEF new
<1>9. Cardinality(Queued(queue, runs + 1)) = 0 /\ Cardinality(At(job, runs + 1)) = 0
  BY NoneYet DEF RunOK
<1>10. /\ queue' \in Seq(JobsTo(runs + 1)) /\ wanted' \in 0 .. NLeaves
       /\ \/ Pending' \subseteq Pending /\ phase' = "priming" /\ wanted' = 0
          \/ Pending' \subseteq Pending \cup {new} /\ phase' = "running" /\ Outstanding' = wanted'
  <2>1. CASE ~Contains(ts, p)
    BY <2>1, <1>1, <1>2, <1>6, CacheAssumption DEF Pending
  <2>2. CASE Contains(ts, p)
    <3>1. PICK batch \in 0 .. NLeaves : wanted' = batch /\ queue' = queue \o Jobs(batch, new)
      BY <2>2, <1>2 DEF new
    <3>2. runs + 1 \in Nat /\ batch \in Nat
      BY <1>6, CacheAssumption
    <3>3. /\ queue' \in Seq(JobsTo(runs + 1)) /\ ToSet(queue') \subseteq ToSet(queue) \cup {new}
          /\ Cardinality(Queued(queue', runs + 1)) = Cardinality(Queued(queue, runs + 1)) + batch
      BY <3>1, <3>2, <1>6, <1>8, CountSubmitted
    <3>4. Outstanding' = Cardinality(Queued(queue', runs + 1)) + Cardinality(At(job, runs + 1))
      BY <1>1 DEF Outstanding, Queued, At
    <3>5. Outstanding' = batch
      BY <3>2, <3>3, <3>4, <1>9
    <3>6. Pending' \subseteq Pending \cup {new}
      BY <3>3, <1>1 DEF Pending
    <3> QED BY <2>2, <3>1, <3>3, <3>5, <3>6, <1>2
  <2> QED BY <2>1, <2>2
<1>11. TypeOK'
  <2>1. /\ covered' \subseteq Workers /\ rounds' \in 0 .. MaxRounds /\ wanted' \in 0 .. NLeaves
        /\ leaves' \in 0 .. wanted' /\ taken' \in 0 .. leaves' /\ failed' \subseteq {"raised", "missing"}
    BY <1>1, <1>10, CacheAssumption
  <2> QED BY <1>1, <1>5, <1>10, <2>1 DEF TypeOK
<1>12. JobsOK'
  BY <1>1, <1>6, <1>7, <1>8, <1>10 DEF JobsOK
<1>13. RunOK'
  <2>1. phase' = "priming" => ~Contains(primed', p)
    BY <1>2
  <2>2. runs' \in Nat
    BY <1>1, <1>6
  <2> QED BY <1>1, <1>10, <2>1, <2>2 DEF RunOK
<1>14. CountOK' /\ OkTookEveryLeaf'
  BY <1>1, <1>10, CacheAssumption DEF CountOK, OkTookEveryLeaf
<1>15. AInv'
  <2> SUFFICES ASSUME Fits PROVE Agree'
    BY <1>1 DEF AInv, Fits
  <2>1. Agree /\ ToSet(<<>>) = {}
    BY DEF AInv, ToSet
  <2>2. \A w \in Workers : ToSet(primed') \subseteq ToSet(cache[w])
    BY <2>1, <1>3, <1>5 DEF Agree
  <2>3. phase' = "running" => p \in ToSet(primed')
    BY <1>2, <1>4, <1>5, ContainsIsIn
  <2> QED BY <2>1, <2>2, <2>3, <1>1, <1>8, <1>10 DEF Agree
<1> QED BY <1>11, <1>12, <1>13, <1>14, <1>15

LEMMA InitEstablishes ==
  ASSUME Init
  PROVE  Inv
<1>1. Pending = {}
  BY DEF Init, Pending, ToSet, Range
<1>2. TypeOK
  <2>1. <<>> \in Seq(Processes) /\ Len(<<>>) = 0 /\ IsInjective(<<>>)
    BY DEF IsInjective
  <2> QED BY <2>1, CacheAssumption DEF Init, TypeOK
<1>3. JobsOK /\ RunOK /\ CountOK
  BY <1>1 DEF Init, JobsOK, RunOK, CountOK
<1>4. OkTookEveryLeaf
  BY DEF Init, OkTookEveryLeaf, Ours, ToSet, Range
<1>5. AInv
  BY <1>1 DEF Init, AInv, Agree
<1> QED BY <1>2, <1>3, <1>4, <1>5 DEF Inv, IInv

LEMMA StepKeeps ==
  ASSUME Inv, [Next]_vars
  PROVE  Inv'
<1>1. CASE UNCHANGED vars
  <2>1. UNCHANGED <<usage, primed, cache, up, queue, job, phase, runs, process, covered, rounds,
                    wanted, leaves, failed, taken, outcome>>
    BY <1>1 DEF vars, poolVars, runVars, results
  <2>2. Pending' = Pending /\ Outstanding' = Outstanding
    BY <2>1 DEF Pending, Outstanding, Queued, At
  <2>3. TypeOK' /\ JobsOK' /\ RunOK' /\ CountOK'
    BY <2>1, <2>2 DEF Inv, IInv, TypeOK, JobsOK, RunOK, CountOK
  <2>4. OkTookEveryLeaf'
    BY <2>1 DEF Inv, IInv, OkTookEveryLeaf, Ours
  <2>5. AInv'
    BY <2>1, <2>2 DEF Inv, AInv, Agree, Fits
  <2> QED BY <2>3, <2>4, <2>5 DEF Inv, IInv
<1>2. CASE \E p \in Processes : StartRun(p)
  BY <1>2, StartRunKeeps
<1>3. CASE PrimeRound \/ Primed \/ UnderPrimed
  BY <1>3, PrimeRoundKeeps, PrimedKeeps, UnderPrimedKeeps
<1>4. CASE Loop
  BY <1>4, RaiseErrorKeeps, RefillKeeps, StopKeeps, RunReturnsKeeps DEF Loop
<1>5. CASE ShutDown
  BY <1>5, ShutDownKeeps
<1>6. CASE \E w \in Workers : Worker(w)
  BY <1>6, TakeKeeps, PrimeWorkerKeeps, RunLeafKeeps DEF Worker
<1> QED BY <1>1, <1>2, <1>3, <1>4, <1>5, <1>6 DEF Next

LEMMA BroadcastInvariant == Spec => []Inv
BY InitEstablishes, StepKeeps, PTL DEF Spec

-----------------------------------------------------------------------------
(* Plans that do not fit, but of which none is used again while it is primed. *)

InStep == ~usage.reuse /\ usage.hold

(* The one round of priming jobs: each uncovered worker gets one of them.    *)
RoundOK ==
  IF rounds = 0
  THEN covered = {} /\ Outstanding = 0
  ELSE /\ Outstanding + Cardinality(covered) = Cardinality(Workers)
       /\ \A w \in covered : ~Ours(job[w])

(* The jobs of the current run: first they prime, then they are its leaves.   *)
OwnJobs ==
  \A j \in Pending : j.run = runs /\ phase \in {"priming", "running"} =>
    j.of = process /\ (j.kind = "prime" <=> phase = "priming")

(* Every worker has exactly the processes the driver has, oldest first, and   *)
(* while it is being primed the new one on top of them.                      *)
Cached(w) == IF phase = "priming" /\ w \in covered THEN Insert(primed, process) ELSE primed
Steps ==
  /\ OwnJobs
  /\ "missing" \notin failed
  /\ phase = "priming" => RoundOK
  /\ phase = "running" => process \in ToSet(primed)
  /\ phase = "idle" /\ up => usage.persistent
  /\ \A w \in Workers : cache[w] = IF up THEN Cached(w) ELSE <<>>
SInv == InStep => Steps

LEMMA InitSteps ==
  ASSUME Init
  PROVE  SInv
<1>1. Pending = {}
  BY DEF Init, Pending, ToSet, Range
<1> QED BY <1>1 DEF Init, SInv, Steps, OwnJobs

LEMMA StartSteps ==
  ASSUME Inv, SInv, NEW p \in Processes, StartRun(p)
  PROVE  SInv'
<1>1. /\ phase = "idle" /\ runs' = runs + 1 /\ process' = p /\ up' = TRUE
      /\ covered' = {} /\ rounds' = 0 /\ failed' = {}
      /\ UNCHANGED <<usage, cache, job>>
  BY DEF StartRun
<1> SUFFICES ASSUME InStep PROVE Steps'
  BY <1>1 DEF SInv, InStep
<1>2. Steps
  BY DEF SInv
<1>3. primed' = TokensAtStart /\ phase' = "priming" /\ queue' = queue
  BY DEF StartRun, InStep
<1>4. OwnJobs'
  <2>1. Pending' = Pending /\ runs \in Nat
    BY <1>1, <1>3 DEF Pending, Inv, IInv, RunOK
  <2>2. \A j \in Pending : j.run # runs + 1
    <3>1. \A j \in Pending : j \in JobsTo(runs)
      BY <2>1, SequencesAreTyped DEF Pending, Range, Inv, IInv, JobsOK
    <3> QED BY <2>1, <3>1 DEF JobsTo
  <2> QED BY <1>1, <2>1, <2>2 DEF OwnJobs
<1>5. RoundOK'
  <2>1. Cardinality(Queued(queue, runs + 1)) = 0 /\ Cardinality(At(job, runs + 1)) = 0
    BY NoneYet DEF Inv, IInv, RunOK
  <2>2. Outstanding' = Cardinality(Queued(queue, runs + 1)) + Cardinality(At(job, runs + 1))
    BY <1>1, <1>3 DEF Outstanding, Queued, At
  <2> QED BY <1>1, <2>1, <2>2 DEF RoundOK
<1>6. \A w \in Workers : cache[w] = TokensAtStart
  BY <1>1, <1>2 DEF Steps, Cached, TokensAtStart
<1> QED BY <1>1, <1>3, <1>4, <1>5, <1>6 DEF Steps, Cached

(* When the round is over, each worker is covered.                          *)
LEMMA OneRoundCovers ==
  ASSUME Inv, Steps, BatchDone, rounds # 0
  PROVE  covered = Workers
<1>1. phase = "priming" /\ RoundOK
  BY DEF BatchDone, Steps
<1>2. Outstanding = 0
  BY NoneLeft DEF Outstanding, Inv, IInv
<1>3. IsFiniteSet(Workers) /\ covered \subseteq Workers
  BY CacheAssumption DEF Inv, IInv, TypeOK
<1>4. IsFiniteSet(covered) /\ Cardinality(covered) \in Nat /\ Cardinality(Workers) \in Nat
  BY <1>3, FS_Subset, FS_CardinalityType
<1>5. Cardinality(covered) = Cardinality(Workers)
  BY <1>1, <1>2, <1>4 DEF RoundOK
<1> QED BY <1>3, <1>5, FS_Subset

LEMMA PrimeRoundSteps ==
  ASSUME Inv, SInv, PrimeRound
  PROVE  SInv'
<1>1. /\ BatchDone /\ phase = "priming" /\ covered # Workers /\ rounds' = rounds + 1
      /\ queue' = queue \o Jobs(Cardinality(Workers \ covered), Prime(process))
      /\ UNCHANGED <<primed, up, cache, job, phase, usage, runs, process, covered, failed>>
  BY DEF PrimeRound, BatchDone, AllCovered, results
<1> SUFFICES ASSUME InStep PROVE Steps'
  BY <1>1 DEF SInv, InStep
<1>2. Steps
  BY DEF SInv
<1>3. rounds = 0 /\ covered = {} /\ Outstanding = 0
  BY <1>1, <1>2, OneRoundCovers DEF Steps, RoundOK
<1>4. /\ Prime(process) \in JobsTo(runs) /\ Prime(process).run = runs
      /\ Prime(process).kind = "prime" /\ Prime(process).of = process
  BY <1>1, PlansAreProcesses DEF Inv, IInv, RunOK, JobsTo, Prime
<1>5. Pending' \subseteq Pending \cup {Prime(process)} /\ Outstanding' = Cardinality(Workers)
  <2>1. Workers \ covered = Workers /\ Cardinality(Workers) \in Nat
    BY <1>3, FS_CardinalityType, CacheAssumption
  <2>2. queue' = queue \o Jobs(Cardinality(Workers), Prime(process))
    BY <1>1, <2>1
  <2>3. /\ Pending' \subseteq Pending \cup {Prime(process)}
        /\ Outstanding' = Outstanding + Cardinality(Workers)
    BY <1>1, <1>4, <2>1, <2>2, JobsSubmitted DEF Inv, IInv
  <2> QED BY <1>3, <2>1, <2>3
<1>6. OwnJobs'
  BY <1>1, <1>2, <1>4, <1>5 DEF Steps, OwnJobs
<1>7. RoundOK'
  <2>1. Cardinality(covered) = 0 /\ Cardinality(Workers) \in Nat
    BY <1>3, FS_EmptySet, FS_CardinalityType, CacheAssumption
  <2> QED BY <1>1, <1>3, <1>5, <2>1 DEF RoundOK
<1> QED BY <1>1, <1>2, <1>6, <1>7 DEF Steps, Cached

LEMMA PrimedSteps ==
  ASSUME Inv, SInv, Primed
  PROVE  SInv'
<1>1. /\ phase = "priming" /\ BatchDone /\ covered = Workers /\ primed' = Insert(primed, process)
      /\ phase' = "running" /\ UNCHANGED <<up, cache, job, usage, runs, process, covered, failed>>
  BY DEF Primed, AllCovered, Remembered, BatchDone, results
<1> SUFFICES ASSUME InStep PROVE Steps'
  BY <1>1 DEF SInv, InStep
<1>2. Steps
  BY DEF SInv
<1>3. PICK batch \in 0 .. NLeaves : queue' = queue \o Jobs(batch, Leaf(process, runs))
  BY CacheAssumption DEF Primed, SubmitFirst, Batches
<1>4. /\ Leaf(process, runs) \in JobsTo(runs) /\ Leaf(process, runs).run = runs
      /\ Leaf(process, runs).kind = "leaf" /\ Leaf(process, runs).of = process
      /\ process \in Processes
  BY <1>1, LeafIsJob DEF Inv, IInv
<1>5. Pending' \subseteq Pending \cup {Leaf(process, runs)}
  <2>1. batch \in Nat
    BY CacheAssumption
  <2> QED BY <1>1, <1>3, <1>4, <2>1, JobsSubmitted DEF Inv, IInv
<1>6. \A j \in Pending : j.run # runs
  BY <1>1 DEF Pending, BatchDone, Ours, Range, Inv, IInv, JobsOK
<1>7. OwnJobs'
  BY <1>1, <1>4, <1>5, <1>6 DEF OwnJobs
<1>8. process \in ToSet(primed')
  <2>1. primed \in Seq(Processes) /\ IsInjective(primed) /\ Len(primed) <= Cap /\ ~Contains(primed, process)
    BY <1>1 DEF Inv, IInv, TypeOK, RunOK
  <2> QED BY <1>1, <1>4, <2>1, InsertKeeps
<1>9. up /\ \A w \in Workers : cache[w] = primed'
  BY <1>1, <1>2 DEF Steps, Cached, Inv, IInv, RunOK
<1> QED BY <1>1, <1>2, <1>7, <1>8, <1>9 DEF Steps, Cached

(* While a run takes values, and when it is left, the caches stay.           *)
LEMMA LoopSteps ==
  ASSUME Inv, SInv, Loop \/ UnderPrimed
  PROVE  SInv'
<1>1. UNCHANGED <<primed, up, cache, job, usage, runs, process, covered, rounds, failed>>
  BY DEF Loop, RaiseError, Refill, Stop, RunReturns, TakeValues, UnderPrimed, poolVars, runVars, results
<1> SUFFICES ASSUME InStep PROVE Steps'
  BY <1>1 DEF SInv, InStep
<1>2. Steps
  BY DEF SInv
<1>3. ~UnderPrimed
  <2> SUFFICES ASSUME UnderPrimed PROVE FALSE
    OBVIOUS
  <2>1. BatchDone /\ covered # Workers /\ rounds # 0
    BY CacheAssumption DEF UnderPrimed, AllCovered
  <2> QED BY <1>2, <2>1, OneRoundCovers
<1>4. phase = "running" /\ up
  BY <1>3 DEF Loop, RaiseError, Refill, Stop, RunReturns, TakeValues, Inv, IInv, RunOK
<1>5. /\ phase' \in {"idle", "leaving", "running"}
      /\ phase' = "idle" => usage.persistent
  BY <1>3, <1>4 DEF Loop, RaiseError, Refill, Stop, RunReturns, Leave
<1>6. Pending' \subseteq Pending \cup IF phase' = "running" THEN {Leaf(process, runs)} ELSE {}
  <2>1. CASE RaiseError \/ RunReturns
    BY <1>1, <2>1 DEF RaiseError, RunReturns, poolVars, Pending
  <2>2. CASE Refill
    <3>1. /\ Leaf(process, runs) \in JobsTo(runs) /\ Leaf(process, runs).run = runs
      BY <1>4, LeafIsJob DEF Inv, IInv
    <3>2. PICK batch \in 0 .. NLeaves : queue' = queue \o Jobs(batch, Leaf(process, runs))
      <4>1. PICK batch \in IF usage.adaptive THEN 0 .. NLeaves - wanted ELSE {0} :
              queue' = queue \o Jobs(batch, Leaf(process, runs))
        BY <2>2 DEF Refill
      <4> QED BY <4>1, CacheAssumption DEF Inv, IInv, TypeOK
    <3>3. batch \in Nat /\ phase' = "running"
      BY <1>4, <2>2, CacheAssumption DEF Refill
    <3> QED BY <1>1, <3>1, <3>2, <3>3, JobsSubmitted DEF Inv, IInv
  <2>3. CASE Stop
    <3>1. PICK kept \in 0 .. Len(queue) : queue' = SubSeq(queue, 1, kept)
      BY <2>3 DEF Stop
    <3>2. ToSet(queue') \subseteq ToSet(queue)
      BY <3>1, StoppedQueue DEF Inv, IInv
    <3> QED BY <1>1, <3>2 DEF Pending
  <2> QED BY <1>3, <2>1, <2>2, <2>3 DEF Loop
<1>7. OwnJobs'
  <2>1. Leaf(process, runs).kind = "leaf" /\ Leaf(process, runs).of = process
    BY DEF Leaf
  <2> QED BY <1>1, <1>2, <1>4, <1>5, <1>6, <2>1 DEF Steps, OwnJobs
<1> QED BY <1>1, <1>2, <1>4, <1>5, <1>7 DEF Steps, Cached

LEMMA ShutDownSteps ==
  ASSUME Inv, SInv, ShutDown
  PROVE  SInv'
<1>1. /\ phase' = "idle" /\ up' = FALSE /\ cache' = [w \in Workers |-> <<>>]
      /\ UNCHANGED <<usage, failed>>
  BY DEF ShutDown, runVars, results
<1> QED BY <1>1 DEF SInv, InStep, Steps, OwnJobs

(* A covered worker takes no second priming job (the hold in _prime_shared).  *)
LEMMA TakeSteps ==
  ASSUME Inv, SInv, NEW w \in Workers, Take(w)
  PROVE  SInv'
<1>1. /\ job' = [job EXCEPT ![w] = Head(queue)]
      /\ UNCHANGED <<primed, up, cache, phase, usage, runs, process, covered, rounds, failed>>
      /\ usage.hold /\ Head(queue).kind = "prime" => w \notin covered
  BY DEF Take, runVars, results
<1> SUFFICES ASSUME InStep PROVE Steps'
  BY <1>1 DEF SInv, InStep
<1>2. Steps
  BY DEF SInv
<1>3. /\ Outstanding' = Outstanding /\ Pending' \subseteq Pending
      /\ Head(queue) \in Pending
  BY TakeCounts DEF Inv, IInv, Pending
<1>4. OwnJobs'
  BY <1>1, <1>2, <1>3 DEF Steps, OwnJobs
<1>5. phase = "priming" => RoundOK'
  <2> SUFFICES ASSUME phase = "priming" PROVE RoundOK'
    OBVIOUS
  <2>1. Head(queue).run = runs => w \notin covered
    BY <1>1, <1>2, <1>3 DEF Steps, OwnJobs, InStep
  <2>2. \A v \in Workers : job'[v] = IF v = w THEN Head(queue) ELSE job[v]
    BY <1>1 DEF Inv, IInv, JobsOK
  <2>3. covered \subseteq Workers
    BY DEF Inv, IInv, TypeOK
  <2> QED BY <1>1, <1>2, <1>3, <2>1, <2>2, <2>3 DEF Steps, RoundOK, Ours
<1> QED BY <1>1, <1>2, <1>4, <1>5 DEF Steps, Cached

LEMMA PrimeWorkerSteps ==
  ASSUME Inv, SInv, NEW w \in Workers, PrimeWorker(w)
  PROVE  SInv'
<1>1. /\ job[w] # None /\ job[w].kind = "prime" /\ job' = [job EXCEPT ![w] = None]
      /\ cache' = IF Contains(cache[w], job[w].of) THEN cache
                  ELSE [cache EXCEPT ![w] = Insert(cache[w], job[w].of)]
      /\ covered' = covered \cup {w}
      /\ UNCHANGED <<primed, up, queue, phase, usage, runs, process, rounds, failed>>
  BY DEF PrimeWorker, results
<1> SUFFICES ASSUME InStep PROVE Steps'
  BY <1>1 DEF SInv, InStep
<1>2. Steps
  BY DEF SInv
<1>3. /\ job[w] \in Pending /\ Pending' \subseteq Pending
      /\ Outstanding \in Nat /\ Outstanding' \in Nat
      /\ Outstanding = Outstanding' + (IF job[w].run = runs THEN 1 ELSE 0)
  BY <1>1, JobEnds
<1>4. phase = "priming" /\ job[w].run = runs /\ job[w].of = process /\ up /\ ~Contains(primed, process)
  BY <1>1, <1>3 DEF Inv, IInv, JobsOK, RunOK
<1>5. rounds # 0 /\ w \notin covered
  <2> DEFINE left == Outstanding
             left1 == Outstanding'
  <2>1. left1 \in Nat /\ left = left1 + 1
    BY <1>3, <1>4
  <2> HIDE DEF left, left1
  <2>2. left # 0
    BY <2>1
  <2> QED BY <1>1, <1>2, <1>4, <2>2 DEF Steps, RoundOK, Ours, left
<1>6. cache[w] = primed /\ cache \in [Workers -> Seq(Processes)]
  BY <1>2, <1>4, <1>5 DEF Steps, Cached, Inv, IInv, TypeOK
<1>7. \A v \in Workers : cache'[v] = IF v = w THEN Insert(primed, process) ELSE cache[v]
  BY <1>1, <1>4, <1>6
<1>8. RoundOK'
  <2>1. covered \subseteq Workers /\ IsFiniteSet(covered)
    BY FS_Subset, CacheAssumption DEF Inv, IInv, TypeOK
  <2>2. Cardinality(covered) \in Nat /\ Cardinality(covered \cup {w}) = Cardinality(covered) + 1
    BY <1>5, <2>1, FS_CardinalityType, FS_AddElement
  <2>3. Outstanding' + Cardinality(covered') = Cardinality(Workers)
    <3>1. Outstanding + Cardinality(covered) = Cardinality(Workers)
      BY <1>2, <1>4, <1>5 DEF Steps, RoundOK
    <3> QED BY <1>1, <1>3, <1>4, <2>2, <3>1
  <2>4. \A v \in covered' : ~Ours(job[v])'
    <3>1. \A v \in Workers : job'[v] = IF v = w THEN None ELSE job[v]
      BY <1>1 DEF Inv, IInv, JobsOK
    <3> QED BY <1>1, <1>2, <1>4, <1>5, <2>1, <3>1 DEF Steps, RoundOK, Ours
  <2> QED BY <1>1, <1>5, <2>3, <2>4 DEF RoundOK
<1>9. OwnJobs'
  BY <1>1, <1>2, <1>3 DEF Steps, OwnJobs
<1> QED BY <1>1, <1>2, <1>4, <1>5, <1>7, <1>8, <1>9 DEF Steps, Cached

LEMMA RunLeafSteps ==
  ASSUME Inv, SInv, NEW w \in Workers, RunLeaf(w)
  PROVE  SInv'
<1>1. PICK how \in {"ok", "raised", "missing"} :
        /\ LeafEnds(w, how) /\ job[w] # None /\ job[w].kind = "leaf"
        /\ how = "missing" => ~Contains(cache[w], job[w].of)
  BY DEF RunLeaf
<1>2. /\ job' = [job EXCEPT ![w] = None]
      /\ UNCHANGED <<primed, up, cache, queue, phase, usage, runs, process, covered, rounds>>
      /\ failed' = failed \/ (phase = "running" /\ job[w].run = runs /\ failed' = failed \cup {how})
  BY <1>1 DEF LeafEnds, Ours, Noted
<1> SUFFICES ASSUME InStep PROVE Steps'
  BY <1>2 DEF SInv, InStep
<1>3. Steps
  BY DEF SInv
<1>4. /\ job[w] \in Pending /\ Pending' \subseteq Pending
      /\ Outstanding \in Nat /\ Outstanding' \in Nat
      /\ Outstanding = Outstanding' + (IF job[w].run = runs THEN 1 ELSE 0)
  BY <1>1, <1>2, JobEnds
<1>5. OwnJobs'
  BY <1>2, <1>3, <1>4 DEF Steps, OwnJobs
<1>6. "missing" \notin failed'
  <2> SUFFICES ASSUME phase = "running", job[w].run = runs PROVE how # "missing"
    BY <1>2, <1>3 DEF Steps
  <2>1. job[w].of = process /\ cache[w] = primed /\ process \in ToSet(primed)
    BY <1>3, <1>4 DEF Steps, OwnJobs, Cached, Inv, IInv, RunOK
  <2> QED BY <1>1, <2>1, ContainsIsIn DEF Inv, IInv, TypeOK
<1>7. phase = "priming" => RoundOK'
  <2> SUFFICES ASSUME phase = "priming" PROVE RoundOK'
    OBVIOUS
  <2>1. job[w].run # runs
    BY <1>1, <1>3, <1>4 DEF Steps, OwnJobs
  <2>2. Outstanding' = Outstanding
    <3> DEFINE left == Outstanding
               left1 == Outstanding'
    <3>1. left1 \in Nat /\ left = left1 + 0
      BY <1>4, <2>1
    <3> HIDE DEF left, left1
    <3>2. left1 = left
      BY <3>1
    <3> QED BY <3>2 DEF left, left1
  <2>3. \A v \in Workers : job'[v] = IF v = w THEN None ELSE job[v]
    BY <1>2 DEF Inv, IInv, JobsOK
  <2>4. covered \subseteq Workers
    BY DEF Inv, IInv, TypeOK
  <2> QED BY <1>2, <1>3, <2>2, <2>3, <2>4 DEF Steps, RoundOK, Ours
<1> QED BY <1>2, <1>3, <1>5, <1>6, <1>7 DEF Steps, Cached

LEMMA StepsInvariant == Spec => [](Inv /\ SInv)
<1>1. Inv /\ SInv /\ [Next]_vars => SInv'
  <2> SUFFICES ASSUME Inv, SInv, [Next]_vars PROVE SInv'
    OBVIOUS
  <2>1. CASE UNCHANGED vars
    <3>1. UNCHANGED <<usage, primed, cache, up, queue, job, phase, runs, process, covered, rounds, failed>>
      BY <2>1 DEF vars, poolVars, runVars, results
    <3>2. Pending' = Pending /\ Outstanding' = Outstanding
      BY <3>1 DEF Pending, Outstanding, Queued, At
    <3> QED BY <3>1, <3>2 DEF SInv, InStep, Steps, OwnJobs, RoundOK, Ours, Cached
  <2>2. CASE \E p \in Processes : StartRun(p)
    BY <2>2, StartSteps
  <2>3. CASE PrimeRound \/ Primed
    BY <2>3, PrimeRoundSteps, PrimedSteps
  <2>4. CASE Loop \/ UnderPrimed
    BY <2>4, LoopSteps
  <2>5. CASE ShutDown
    BY <2>5, ShutDownSteps
  <2>6. CASE \E w \in Workers : Worker(w)
    BY <2>6, TakeSteps, PrimeWorkerSteps, RunLeafSteps DEF Worker
  <2> QED BY <2>1, <2>2, <2>3, <2>4, <2>5, <2>6 DEF Next
<1> QED BY <1>1, InitSteps, BroadcastInvariant, PTL DEF Spec

-----------------------------------------------------------------------------
(* The theorems.                                                           *)

(* Types; the driver's record and the workers' caches hold no process twice   *)
(* and never more than _SHARED_CACHE_CAP.                                   *)
THEOREM BroadcastTypeCorrect == Spec => []TypeOK
<1>1. Inv => TypeOK
  BY DEF Inv, IInv
<1> QED BY <1>1, BroadcastInvariant, PTL

(* A run that returns has taken the value of every leaf it has submitted, and  *)
(* none of them is left in the pool: in whatever order leaves come back, with  *)
(* whatever leaves of failed and stopped runs among them (the loops of         *)
(* _run_fixed and _run_adaptive).                                           *)
THEOREM ReturnsEveryLeaf == Spec => []OkTookEveryLeaf
<1>1. Inv => OkTookEveryLeaf
  BY DEF Inv, IInv
<1> QED BY <1>1, BroadcastInvariant, PTL

(* Where an executor's plans fit in the cache, "the driver thinks token T is   *)
(* primed" means "every worker has T", and no leaf misses its process          *)
(* (_broadcast, _prime_shared, _proc_task_shared).                          *)
THEOREM FittingPlansStayPrimed == Spec => [](Fits => PrimedMeansCached /\ LeafFindsProcess)
<1>1. Inv => (Fits => PrimedMeansCached /\ LeafFindsProcess)
  BY DEF Inv, IInv, AInv, Agree, RunOK, PrimedMeansCached, LeafFindsProcess
<1> QED BY <1>1, BroadcastInvariant, PTL

(* So it is where plans do not fit, as long as none is used again while it is  *)
(* primed and each worker gets one priming job: driver and workers have the    *)
(* same processes in the same order, and evict the same (OrderedDict order in  *)
(* _broadcast and _prime_shared).                                            *)
THEOREM PlansStayInStep == Spec => [](InStep => PrimedMeansCached /\ LeafFindsProcess)
<1>1. Inv /\ SInv => (InStep => PrimedMeansCached /\ LeafFindsProcess)
  BY DEF Inv, IInv, SInv, Steps, Cached, RunOK, PrimedMeansCached, LeafFindsProcess
<1> QED BY <1>1, StepsInvariant, PTL

(* In either case no leaf of any run misses its process in its worker's cache. *)
THEOREM EveryLeafFindsProcess == Spec => [](Fits \/ InStep => LeafFindsProcess)
<1>1. /\ Fits => PrimedMeansCached /\ LeafFindsProcess
      /\ InStep => PrimedMeansCached /\ LeafFindsProcess
      => (Fits \/ InStep => LeafFindsProcess)
  OBVIOUS
<1> QED BY <1>1, FittingPlansStayPrimed, PlansStayInStep, PTL
=============================================================================
