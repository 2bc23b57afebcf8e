------------------------------- MODULE PageMap -------------------------------
(***************************************************************************)
(* What the virtual memory manager promises its callers: one map from      *)
(* virtual pages to physical frames, in which mapping or unmapping a page  *)
(* changes the translation of that page and of no other.                   *)
(***************************************************************************)
CONSTANTS Pages, Frames, NoFrame, Identity

VARIABLE map

\* Before paging is enabled every page of the boot mapping stands for itself.
PMInit == map = [v \in Pages |-> IF v \in Identity THEN v ELSE NoFrame]

PMMap(v, f) == map' = [map EXCEPT ![v] = f]

PMUnmap(v) == map[v] # NoFrame /\ map' = [map EXCEPT ![v] = NoFrame]

PMNext == \E v \in Pages : PMUnmap(v) \/ \E f \in Frames : PMMap(v, f)

PMSpec == PMInit /\ [][PMNext]_map
=============================================================================
