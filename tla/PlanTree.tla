----------------------------- MODULE PlanTree -----------------------------
(***************************************************************************)
(* plan_tree(n): the combine tree as a list of combines <<out, a, b>> over *)
(* node ids, leaves 0 .. n-1 first.                                        *)
(***************************************************************************)
EXTENDS Integers, Sequences, SequencesExt

(* One pass over a level: adjacent nodes are paired, an odd last one stays.  *)
LevelCombines(level, next) ==
  [i \in 1 .. Len(level) \div 2 |-> <<next + i - 1, level[2*i - 1], level[2*i]>>]
DropsTheOddOne(level, next) == [i \in 1 .. Len(level) \div 2 |-> next + i - 1]
NextLevel(level, next) ==
  [i \in 1 .. Len(level) \div 2 |-> next + i - 1]
    \o IF Len(level) % 2 = 1 THEN <<Last(level)>> ELSE <<>>

FirstPass(n) == [level |-> [i \in 1 .. n |-> i - 1], next |-> n, combines |-> <<>>]
NextPass(p) ==
  IF Len(p.level) <= 1 THEN p
  ELSE [level |-> NextLevel(p.level, p.next),
        next |-> p.next + Len(p.level) \div 2,
        combines |-> p.combines \o LevelCombines(p.level, p.next)]

(* More passes than n halvings need change nothing.                         *)
Passes(n) ==
  LET plan[pass \in 0 .. n] == IF pass = 0 THEN FirstPass(n) ELSE NextPass(plan[pass - 1])
  IN  plan
PlanTree(n) ==
  LET last == Passes(n)[n]
  IN  [combines |-> last.combines, root |-> Head(last.level)]

(* The leaves each node of a plan covers.                                   *)
CoverOf(n, combines) ==
  LET cover[id \in 0 .. n - 1 + Len(combines)] ==
        IF id < n THEN {id}
        ELSE LET c == combines[id - n + 1] IN cover[c[2]] \cup cover[c[3]]
  IN  cover
=============================================================================
