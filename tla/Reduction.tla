---------------------------- MODULE Reduction ----------------------------
(***************************************************************************)
(* What a reduction promises, whoever runs it and in whatever order: every *)
(* leaf is processed once, every pair of the combine tree is combined once, *)
(* after its two operands and never again, and the caller is given the     *)
(* value of the root in that tree.  Only a fault - a process() or combine  *)
(* that raises, a lost message, an expired deadline - may cost a value,     *)
(* and only then may the caller get an error instead.  The peer run, the   *)
(* hub and the lazy reducer are each shown to implement it.                *)
(***************************************************************************)
CONSTANTS
  Leaves,
  Values,     \* the sets of leaves that the leaves and pairs of the tree cover
  RootValue,  \* the value of the pair that covers all leaves
  None

VARIABLES
  formed,  \* the values that exist
  reply,   \* what the caller was given, or None
  faulty,  \* whether there is a fault, or will be one in this plan
  failed   \* whether the caller got an error

vars == <<formed, reply, faulty, failed>>

Init == formed = {} /\ reply = None /\ faulty \in BOOLEAN /\ failed = FALSE

(* A leaf is processed, or a pair combined from its two operands: no other   *)
(* two values of the tree cover its leaves once.                            *)
Form(block) ==
  /\ UNCHANGED <<reply, faulty, failed>>
  /\ formed' = formed \cup {block}
  /\ \/ \E leaf \in Leaves : block = {leaf}
     \/ \E left, right \in formed : left \cap right = {} /\ left \cup right = block

Open == reply = None /\ ~failed

Reply ==
  /\ Open
  /\ reply' = RootValue
  /\ Leaves \in formed
  /\ UNCHANGED <<formed, faulty, failed>>

Fault ==
  /\ faulty' = TRUE
  /\ formed' \subseteq formed
  /\ UNCHANGED <<reply, failed>>

Fail ==
  /\ Open
  /\ faulty
  /\ failed' = TRUE
  /\ formed' \subseteq formed
  /\ UNCHANGED <<reply, faulty>>

Proceed == Open /\ ((\E block \in Values \ formed : Form(block)) \/ Reply \/ Fail)
Next == (\E block \in formed' \ formed : block \in Values /\ Form(block)) \/ Reply \/ Fault \/ Fail

Spec == Init /\ [][Next]_vars
(* Faults need not happen; but the caller is not left waiting.              *)
FairSpec == Spec /\ WF_vars(Proceed)
=============================================================================
