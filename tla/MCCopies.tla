------------------------------ MODULE MCCopies ------------------------------
EXTENDS Readers

CONSTANTS c1, c2

MCKind == [path \in {<<>>, <<1>>, <<1, 1>>, <<2>>, <<3>>, <<4>>} |->
              CASE path \in {<<>>, <<1>>} -> "dir" [] path = <<3>> -> "link" [] OTHER -> "regular"]
MCChunks == (<<1, 1>> :> <<c1, c2>>) @@ (<<2>> :> <<c1, c2>>) @@ (<<4>> :> <<c2>>)
MCHoles == {<<4>>}
MCAttributed == {<<2>>}
MCHardLinks == {{<<1, 1>>, <<2>>}}
MCReadOnly == {<<1>>}
MCErrorPaths == {<<3>>, <<3, 1>>, <<4>>, <<5>>, <<6>>}
MCGarbage == {<<"chunk", c1>>, <<"object", <<c1, c2>>>>, <<"entry", Entry(<<2>>, <<c1, c2>>)>>}
=============================================================================
