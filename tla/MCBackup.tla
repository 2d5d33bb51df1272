------------------------------ MODULE MCBackup ------------------------------
(* Two files with the same content, one of them in a directory, and two     *)
(* backups.  A file that changes loses its content.                        *)
EXTENDS Backup

CONSTANT c1

MCTree == {<<>>, <<1>>, <<1, 1>>, <<2>>}
MCTrees == {[path \in MCTree |-> IF path \in {<<>>, <<1>>} THEN "dir"
                                 ELSE IF path = <<2>> THEN second ELSE "regular"] :
               second \in {"special", "xattr"}}
MCPacks == {{"chunk"}, {"object", "entry"}}
MCContent == <<{c1}, {}>>
=============================================================================
