------------------------------- MODULE Paths -------------------------------
(***************************************************************************)
(* A path of the file system is the sequence of its names; the root is the *)
(* empty sequence.                                                         *)
(***************************************************************************)
EXTENDS Integers, Sequences

\* The path of the directory that p lies in.
Parent(p) == SubSeq(p, 1, Len(p) - 1)

LastName(p) == p[Len(p)]

\* Whether q begins with p and a slash.
Below(p, q) == Len(p) < Len(q) /\ SubSeq(q, 1, Len(p)) = p
=============================================================================
