------------------------------ MODULE MCIndexing ------------------------------
(* Model checking of the stages of an index run, each on its own: part     *)
(* says whose variables move.                                              *)
EXTENDS VectorStage, MetadataIndex, TLC

VARIABLES
    part,
    docs, written, graphRun, changes, graph,
    backend, documents, stage, published, refused

graphVars == <<docs, written, graphRun, changes, graph>>
documentVars == <<backend, documents, stage, published, refused>>

(* Two files of one name in two folders, a third file, and contents that   *)
(* link, are titled, or share a concept.                                   *)
At(dir, name) == [dir |-> dir, name |-> name]
Bare(name) == At(None, name)
Plain == [title |-> None, aliases |-> {}, related |-> {}, tags |-> {},
          chunks |-> {[key |-> 1, section |-> None, links |-> {}]}]
GraphPaths == {At("a", "x"), At("b", "x"), At("a", "y")}
GraphContents ==
    {[Plain EXCEPT !.chunks = {[key |-> 1, section |-> None, links |-> {Bare("x"), Bare("y")}]}],
     [Plain EXCEPT !.title = "t", !.aliases = {"l"}, !.tags = {"y"},
                   !.chunks = {[key |-> 1, section |-> "s", links |-> {}]}],
     [Plain EXCEPT !.related = {At("a", "x")},
                   !.chunks = {[key |-> 1, section |-> "x", links |-> {}],
                               [key |-> 2, section |-> "y", links |-> {Bare("x")}]}]}
Graph == INSTANCE GraphIndex
    WITH Paths <- GraphPaths, Contents <- GraphContents, MaxRuns <- 3, Widths <- <<1..3, 1..2, {1}>>, run <- graphRun

(* The graph under both backends: a page, and the pages it may link to.    *)
Linked ==
    {[Plain EXCEPT !.chunks = {[key |-> 1, section |-> None, links |-> {Bare("x")}]}],
     [Plain EXCEPT !.title = "t", !.tags = {"x"}]}
Documents == INSTANCE DocumentGraph
    WITH Paths <- GraphPaths, Contents <- Linked, MaxRuns <- 3, Widths <- <<0..2, 0..1, 0..1>>, run <- graphRun

(* Three files: pages that name others, and the parts of one session in    *)
(* both schemas.                                                           *)
Page(links) == [links |-> links, group |-> None, schema |-> 0, part |-> 0, exchanges |-> {}]
Part(schema, n, exchanges) ==
    [links |-> {}, group |-> "g", schema |-> schema, part |-> n, exchanges |-> exchanges]
Exchange(id, from, to, whole) == [id |-> id, from |-> from, to |-> to, whole |-> whole]
V1 == Part(1, 1, {Exchange(1, 0, 2, TRUE), Exchange(2, 2, 3, TRUE)})
Continued == Part(2, 1, {Exchange(1, 0, 2, FALSE)})
WholeCopy == Part(2, 2, {Exchange(1, 0, 2, TRUE)})
Untimed == Part(2, 2, {Exchange(1, 0, 2, TRUE), Exchange(2, None, None, TRUE)})
MetadataFiles == <<{V1, Page({3})}, {Continued}, {WholeCopy, Untimed, Page({})}>>

(* Vaults with a session file of each schema, and two models.              *)
SessionFiles == {"v1file", "v2part"}
V2HidesV1 == {<<"v2part", "v1file">>}
VectorContents == {[input |-> 1, meta |-> 1], [input |-> 2, meta |-> 1]}

StageSymmetry == Permutations(Vaults) \cup Permutations(Specs)

IdleGraph ==
    /\ docs = None /\ written = None /\ graphRun = None /\ changes = None
    /\ graph = None
IdleDocuments == backend = None /\ documents = None /\ stage = None /\ published = None /\ refused = None
IdleMetadata == MetadataInit /\ \A p \in Paths : files[p] = Nil
IdleVectors == Init /\ disk = active.files /\ active.vectors = {}

IndexingInit ==
    \/ part = "graph" /\ Graph!Init /\ IdleDocuments /\ IdleMetadata /\ IdleVectors
    \/ part = "documents" /\ Documents!DocumentInit /\ IdleMetadata /\ IdleVectors
    \/ part = "metadata" /\ MetadataInit /\ IdleGraph /\ IdleDocuments /\ IdleVectors
    \/ part = "vectors" /\ Init /\ IdleGraph /\ IdleDocuments /\ IdleMetadata

IndexingNext ==
    /\ UNCHANGED part
    /\ \/ part = "graph" /\ Graph!Next /\ UNCHANGED <<documentVars, metadataVars, vars>>
       \/ part = "documents" /\ Documents!DocumentNext /\ UNCHANGED <<metadataVars, vars>>
       \/ part = "metadata" /\ MetadataNext /\ UNCHANGED <<graphVars, documentVars, vars>>
       \/ part = "vectors" /\ Next /\ UNCHANGED <<graphVars, documentVars, metadataVars>>

IndexingSpec == IndexingInit /\ [][IndexingNext]_<<part, graphVars, documentVars, metadataVars, vars>>

(* A graph run leaves the records and counts of what the files hold, over  *)
(* the changed documents or over all (GraphIndex), under either backend    *)
(* and after any switch, whose checks stop no run on their own             *)
(* (DocumentGraph).                                                        *)
GraphServesTheFiles ==
    /\ part = "graph" => Graph!DocumentRunEqualsFullRun /\ Graph!CountsAgree
    /\ part = "documents" => Documents!GraphStageServesTheFiles /\ Documents!RefusedForAReason
=============================================================================
