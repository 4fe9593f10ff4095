-------------------------------- MODULE MCVfs --------------------------------
(***************************************************************************)
(* A small instance of Vfs: a directory and a file in it, of the same name *)
(* so that both file systems can be asked for the same paths.              *)
(***************************************************************************)
EXTENDS Vfs, TLC

MCPaths == {<<"a">>, <<"a", "a">>}
MCDirs == {<<>>, <<"a">>}
MCAsked == ({"create", "delete"} \X {"main"} \X MCPaths)
  \cup {<<"open", "main", <<"a", "a">>>>, <<"open", "sub", <<"a">>>>,
        <<"stat", "main", <<"a">>>>, <<"subfs", "main", <<"a">>>>}
MCSubPaths == {<<"a">>}
\* A file that is never asked for makes the list of the root long enough for the
\* search in it to go astray, once an item has been replaced.
MCOthers == [d \in MCDirs |-> IF d = <<>> THEN 1 ELSE 0]
MCRoom == [d \in MCDirs |-> IF d = <<>> THEN 3 ELSE 1]
\* What a call leaves behind in the record of a thread that is in none is never
\* read.
View == <<nvars, fvars, dvars, hvars, pc, todo,
          [t \in Threads |-> IF At(t, "idle") THEN NoCall ELSE call[t]]>>
Symmetry == Permutations(Threads) \cup Permutations(Slots \ {Root})
=============================================================================
