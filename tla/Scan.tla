-------------------------------- MODULE Scan --------------------------------
(***************************************************************************)
(* The kernel looks for a free slot, frame or block by scanning a table    *)
(* from index 0 and stopping at the first match.                           *)
(***************************************************************************)
EXTENDS Integers

\* The first of a non-empty set of indices.
First(S) == CHOOSE i \in S : \A j \in S : i <= j

=============================================================================
