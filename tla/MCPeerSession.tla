--------------------------- MODULE MCPeerSession ---------------------------
(***************************************************************************)
(* Instances of PeerSession for TLC.                                       *)
(***************************************************************************)
EXTENDS PeerSession

(* In the first run nothing raises, or the combining worker does, or another; *)
(* where a process dies nothing is stolen.                                  *)
FirstRaises == {{}} \cup {{<<1, a>>} : a \in {0, W-1}}
Sessions ==
  {o \in [kind : {"pool", "pinned"}, persistent : BOOLEAN, raises : FirstRaises, crash : BOOLEAN, late : BOOLEAN,
          steal : BOOLEAN] : ~(o.steal /\ o.crash)}

(* Nothing but a raising process goes wrong, on a pool that is kept.         *)
KeptAfterARaise == {o \in Sessions : o.persistent /\ ~o.crash /\ ~o.late}
=============================================================================
