------------------------- MODULE MCPersistentStore -------------------------
(* Two packages, of one file and of two, and a file of the console's, on a *)
(* disk that the jobs fill, with an index of fewer entries than there are  *)
(* jobs, and starts that have no room for one file, marker or payload.     *)
EXTENDS PersistentStore

MCCatalog == <<"p", "q">>
MCFilesOf == [p \in {"p", "q"} |->
    IF p = "p" THEN [f \in {<<"a">>} |-> "1"] ELSE [f \in {<<"b">>, <<"c">>} |-> "2"]]
MCSeed == NoFiles
MCWrites == [path : {<<"d">>}, value : {"x"}]
=============================================================================
