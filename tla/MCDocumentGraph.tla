--------------------------- MODULE MCDocumentGraph ---------------------------
(* Model checking of DocumentGraph: a page and the pages it may link to.   *)
EXTENDS DocumentGraph

At(dir, name) == [dir |-> dir, name |-> name]
Plain == [title |-> None, aliases |-> {}, related |-> {}, tags |-> {},
          chunks |-> {[key |-> 1, section |-> None, links |-> {}]}]
MCPaths == {At("a", "x"), At("b", "x"), At("a", "y")}
MCContents ==
    {[Plain EXCEPT !.chunks = {[key |-> 1, section |-> None, links |-> {At(None, "x")}]}],
     [Plain EXCEPT !.title = "t", !.tags = {"x"}]}
MCWidths == <<0..2, 0..1, 0..1, 0..1>>
=============================================================================
