------------------------ MODULE MCGenerateCommand ------------------------
(***************************************************************************)
(* Commands on three files.  "./a" is another spelling of "a" that         *)
(* lexically_normal undoes, "/a" one that it does not; "x/b" is in a       *)
(* directory that does not exist.                                          *)
(***************************************************************************)
EXTENDS GenerateCommand

MCPaths == {"a", "./a", "/a", "b", "c", "x/b"}
MCNormal(path) == IF path = "./a" THEN "a" ELSE path
MCFileAt(path) == IF path = "/a" THEN "a" ELSE path
MCFiles == {"a", "b", "c", "x/b"}

Command(nodes, edges, force) ==
    [nodes |-> nodes, edges |-> edges, force |-> force, usable |-> TRUE]

MCCommandLines ==
    {Command("a", "b", FALSE), Command("a", "b", TRUE),
     Command("b", "c", FALSE), Command("c", "x/b", TRUE),
     Command("a", "./a", TRUE), Command("a", "/a", FALSE),
     [Command("b", "c", TRUE) EXCEPT !.usable = FALSE]}

MCPieces == [s \in Streams |-> IF s = "nodes" THEN 1 ELSE 2]
=============================================================================
