------------------------------- MODULE MCRamFs -------------------------------
(* Callers that make and remove files and directories and leave the files  *)
(* empty, and callers that read and write one file.  "l" is the longest    *)
(* name a path has room for.                                               *)
EXTENDS RamFsCalls, TLC

MCNameLen == [c \in {"a", "b", "l", ""} |-> IF c = "l" THEN 6 ELSE IF c = "" THEN 0 ELSE 1]

TreePaths == {<< >>, <<"a">>, <<"a", "">>, <<"a", "b">>, <<"a", "", "b">>,
              <<"a", "b", "a">>, <<"l">>, <<"l", "">>, <<"l", "a">>}
DataPaths == {<<"b">>}

MCSeeds == <<<<"a">>>>

Flag(r, w, c, t) == [read |-> r, write |-> w, create |-> c, trunc |-> t]
TreeFlags == {Flag(TRUE, FALSE, FALSE, FALSE), Flag(FALSE, TRUE, TRUE, TRUE)}
DataFlags == {Flag(TRUE, FALSE, FALSE, TRUE), Flag(TRUE, TRUE, TRUE, FALSE), Flag(FALSE, TRUE, TRUE, TRUE)}
MCPaths == TreePaths \cup DataPaths
MCFlags == TreeFlags \cup DataFlags
MCWorkloads == {[paths |-> TreePaths, flags |-> TreeFlags, longest |-> 0],
                [paths |-> DataPaths, flags |-> DataFlags, longest |-> 2]}

ByteSymmetry == Permutations(Bytes)
=============================================================================
