------------------------------- MODULE MCServing -------------------------------
(* Model checking of what readers do with a generation, beside the readers *)
(* themselves: part says whose variables move.                             *)
EXTENDS GenerationReaders, EvidenceLinks, GraphQuery, TLC
CONSTANT Nothing

VARIABLES
    part,
    asked, phase, alerts, store, lists, results, \* of a search
    world, packs, records, reply, log            \* of the tools of an MCP server

searchVars == <<asked, phase, alerts, store, lists, results>>
toolVars == <<world, packs, records, reply, log>>

----------------------------------------------------------------------------
(* Search: a chain of three pages, the copy of the last one in another    *)
(* Vault, a session with two exchanges, a retired page, and a source that  *)
(* only its vector finds.                                                  *)

Page_(vault, path, role, retired, content, replaces, title) ==
    [vault |-> vault, path |-> path, role |-> role, retired |-> retired, content |-> content,
     replaces |-> replaces, title |-> title]

SearchDocuments ==
    <<Page_(1, 1, "canonical", FALSE, 1, {}, Nothing),
      Page_(1, 2, "canonical", FALSE, 2, {1}, Nothing),
      Page_(1, 3, "canonical", FALSE, 3, {2}, Nothing),
      Page_(2, 1, "canonical", FALSE, 3, {}, 1),
      Page_(1, 4, "raw", FALSE, 4, {}, Nothing),
      Page_(1, 5, "canonical", TRUE, 5, {}, Nothing),
      Page_(2, 2, "source", FALSE, 6, {}, Nothing)>>
Chunk_(doc, parent, order, card) == [doc |-> doc, parent |-> parent, order |-> order, tokens |-> 1, card |-> card]
SearchChunks ==
    <<Chunk_(1, Nothing, 0, FALSE), Chunk_(2, Nothing, 0, FALSE), Chunk_(3, Nothing, 0, TRUE), Chunk_(3, Nothing, 1, FALSE),
      Chunk_(4, Nothing, 0, FALSE), Chunk_(5, 1, 0, FALSE), Chunk_(5, 1, 1, FALSE), Chunk_(5, 2, 2, FALSE),
      Chunk_(6, Nothing, 0, FALSE), Chunk_(7, Nothing, 0, FALSE)>>
SearchGhosts == 11 :> 1

SearchRelevance ==
    {[c \in 1..10 |-> IF SearchChunks[c].doc \in found \cup {6} THEN base[c] ELSE 0] :
        found \in SUBSET (1..5), base \in {<<8, 7, 6, 5, 4, 3, 2, 1, 9, 0>>, <<3, 1, 2, 4, 2, 1, 5, 5, 0, 0>>}}
SearchSimilarity == {<<2, 3, 4, 5, 6, 7, 8, 9, 10, 1>>, <<5, 0, 5, 0, 6, 0, 0, 4, 0, 0>>}
SearchRequest(scope, mode, limit, links_) ==
    [scope |-> scope, mode |-> mode, retired |-> mode = "all", limit |-> limit, graph |-> links_, cards |-> <<11, 2>>]
SearchRequests ==
    {SearchRequest(scope, mode, limit, "off") :
        scope \in {<<1, 2>>, <<2, 1>>}, mode \in {"knowledge", "evidence"}, limit \in {1, 3}}
    \cup {SearchRequest(<<1>>, "all", 3, links_) : links_ \in {"fails", "ok"}}
Search == INSTANCE Search
    WITH Documents <- SearchDocuments, Chunks <- SearchChunks, Ghosts <- SearchGhosts,
         Relevance <- SearchRelevance, Similarity <- SearchSimilarity, Requests <- SearchRequests,
         PerResult <- 1, MinCandidates <- 2, Refill <- 2, Budget <- 1, Radius <- 1,
         request <- asked, step <- phase, warnings <- alerts

(* What a search leaves out is said, and nothing is answered twice.        *)
SearchAnswersFaithfully == part = "search" => Search!NothingMissedSilently /\ Search!NothingTwice

----------------------------------------------------------------------------
(* Graph queries: a decision with a cycle back to it, a relationship of    *)
(* the same id in each of two Vaults, a page that relates to itself, and   *)
(* an entity that only another Vault's relationship reaches.               *)

Entity_(vault, name, path, aliases, parts, type, docs) ==
    [vault |-> vault, name |-> name, path |-> path, aliases |-> aliases, parts |-> parts,
     type |-> type, evidence |-> docs]
GraphEntities ==
    <<Entity_(1, 11, 21, {31}, {41}, 0, {1}), Entity_(1, 12, 22, {}, {41}, 1, {1}), Entity_(1, 13, 23, {31}, {}, 3, {}),
      Entity_(2, 12, 24, {}, {}, 1, {2}), Entity_(2, 14, 25, {}, {41}, 3, {})>>
Relation_(id, source, target_, type, status, confidence, docs) ==
    [id |-> id, source |-> source, target |-> target_, type |-> type, status |-> status,
     confidence |-> confidence, evidence |-> docs]
GraphRelations ==
    <<Relation_(1, 1, 2, 1, "stated", 3, {1}), Relation_(2, 2, 3, 2, "inferred", 2, {1}),
      Relation_(3, 1, 3, 3, "contested", 3, {1}), Relation_(4, 3, 1, 4, "stated", 1, {1}),
      Relation_(5, 1, 4, 2, "stated", 2, {1, 2}), Relation_(5, 4, 1, 2, "stated", 2, {2}),
      Relation_(6, 4, 5, 1, "stated", 3, {2}), Relation_(7, 2, 2, 2, "stated", 3, {1}),
      Relation_(8, 1, 2, 1, "deprecated", 3, {3})>>
World_(relations, docs, lineage, health) ==
    [relations |-> relations, evidence |-> docs, lineage |-> lineage, health |-> health]
GraphWorlds ==
    {World_(relations, <<"same", "same", last>>, <<"current", "current">>, "ok") :
        relations \in {1..9, {1, 2, 5, 6, 8}, {3, 4, 5, 6, 7, 8}}, last \in {"same", "gone"}}
    \cup {World_(1..9, <<one, two, "same">>, <<"current", lineage>>, "ok") :
        one \in {"same", "changed"}, two \in {"same", "gone"}, lineage \in {"current", "older", "none", "other_spec"}}
    \cup {World_({}, <<"same", "same", "same">>, <<"current", "current">>, "unavailable")}
GraphRequest(kind, text, depth, direction, types, cross, limit) ==
    [kind |-> kind, text |-> text, depth |-> depth, direction |-> direction, types |-> types,
     cross |-> cross, limit |-> limit, scope |-> <<1, 2>>]
GraphRequests ==
    {GraphRequest("related", 1, depth, direction, {}, cross, limit) :
        depth \in {1, 2}, direction \in {"out", "in", "both"}, cross \in BOOLEAN, limit \in {1, 6}}
    \cup {GraphRequest("related", text, 2, "both", {1, 2}, TRUE, 3) : text \in {3, 12, 31, 41}}
    \cup {GraphRequest("trace", text, 2, "both", {}, TRUE, limit) : text \in {11, 31, 41}, limit \in {1, 4}}
    \cup {GraphRequest("search", 14, 2, "both", {}, TRUE, 2)}
    \cup {GraphRequest("entity", 1, 1, "both", {}, FALSE, 2), GraphRequest("concept", 12, 1, "both", {}, FALSE, 2),
          GraphRequest("concept", 14, 1, "both", {}, FALSE, 2)}
GraphVaults == <<1, 2, 1>>
GraphRanks == <<1, 5, 4, 0>>

----------------------------------------------------------------------------
(* Evidence links: two chunks of two Vaults and a record of each, with two *)
(* changes of the stores meanwhile.                                        *)
LinkVaults == <<1, 2>>
LinkQuestions == {[keys |-> <<1, 2>>, cross |-> cross, limit |-> limit] : cross \in BOOLEAN, limit \in {1, 2}}

----------------------------------------------------------------------------
(* Tools: four results over four chunks, one long, one shared, found in    *)
(* every order, and a process that answers four calls over two indexes.    *)

Result_(vault, type, status, refs, words, warned) ==
    [vault |-> vault, type |-> type, status |-> status, refs |-> refs, words |-> words, warned |-> warned]
AnswersFinding ==
    <<Result_(1, "page", "stated", <<1, 2>>, 1, FALSE), Result_(1, "decision", "contested", <<2>>, 2, TRUE),
      Result_(2, "source", "stated", <<3, 2>>, 2, FALSE), Result_(1, "question", "stated", <<4>>, 1, FALSE)>>
AnswersWorld(vaults, found, other, alarms, standing, stray, calls) ==
    [vaults |-> vaults, found |-> <<found, other>>, trace |-> <<<<2, 4>>, <<>>>>, alarms |-> <<alarms, {}>>,
     standing |-> standing, stray |-> stray, calls |-> calls]
AllOk == [ref \in 1..4 |-> "ok"]
AnswersLists == {s \in SeqOf(1..4, 3) : IsInjective(s)}
AnswersWorlds ==
    {AnswersWorld(<<"indexed", "indexed">>, found, <<1>>, alarms, standing, FALSE, 1) :
        found \in AnswersLists, alarms \in {{}, {"info"}, {"warning"}},
        standing \in {AllOk, [AllOk EXCEPT ![1] = "missing"], [AllOk EXCEPT ![2] = "outside"],
                      [AllOk EXCEPT ![1] = "outside", ![2] = "missing"]}}
    \cup {AnswersWorld(<<one, two>>, <<1, 3, 2>>, <<3>>, {}, AllOk, stray, 1) :
        one \in {"indexed", "unindexed", "disabled"}, two \in {"indexed", "unregistered"}, stray \in BOOLEAN}
    \cup {AnswersWorld(<<"indexed", "indexed">>, found, <<3>>, {}, AllOk, FALSE, 4) : found \in {<<1, 4>>, <<4>>}}
AnswersQuestions ==
    {[text |-> 1, project |-> TRUE, graph |-> linked, tokens |-> 4] : linked \in BOOLEAN}
    \cup {[text |-> 2, project |-> FALSE, graph |-> FALSE, tokens |-> 3]}
Tools == INSTANCE Answers
    WITH Worlds <- AnswersWorlds, Questions <- AnswersQuestions, Finding <- AnswersFinding,
         Tokens <- <<2, 3, 1, 1>>, MaxEvidence <- 3, MaxExcerpt <- 2, MaxClaims <- 2, MaxPacks <- 2, MaxRecords <- 4

(* What a tool hands out holds up, and can be read and explained later.    *)
RepliesHoldUp == part = "tools" => Tools!RepliesHoldUp

----------------------------------------------------------------------------
NoSearch == asked = 0 /\ phase = 0 /\ alerts = 0 /\ store = 0 /\ lists = 0 /\ results = 0
AnyQuery == CHOOSE q \in GraphRequests : TRUE
AnyGraph == CHOOSE w \in GraphWorlds : w.relations = {}
NoGraph == query = AnyQuery /\ graph = AnyGraph /\ QueryInit
NoLinks ==
    /\ LinksInit /\ request = CHOOSE q \in LinkQuestions : TRUE
    /\ chunks = [k \in Keys |-> Missing] /\ owners = [k \in Keys |-> {}]
NoTools == world = 0 /\ packs = 0 /\ records = 0 /\ reply = 0 /\ log = 0

ServingInit ==
    /\ ReadersInit
    /\ \/ part = "readers" /\ NoSearch /\ NoGraph /\ NoLinks /\ NoTools
       \/ part = "search" /\ Search!Init /\ NoGraph /\ NoLinks /\ NoTools
       \/ part = "graph" /\ QueryInit /\ NoSearch /\ NoLinks /\ NoTools
       \/ part = "links" /\ LinksInit /\ NoSearch /\ NoGraph /\ NoTools
       \/ part = "tools" /\ Tools!Init /\ NoSearch /\ NoGraph /\ NoLinks

ServingNext ==
    /\ UNCHANGED part
    /\ \/ part = "readers" /\ ReadersNext /\ UNCHANGED <<searchVars, queryVars, linkVars, toolVars>>
       \/ part = "search" /\ Search!Next /\ UNCHANGED <<allVars, queryVars, linkVars, toolVars>>
       \/ part = "graph" /\ QueryNext /\ UNCHANGED <<allVars, searchVars, linkVars, toolVars>>
       \/ part = "links" /\ LinksNext /\ UNCHANGED <<allVars, searchVars, queryVars, toolVars>>
       \/ part = "tools" /\ Tools!Next /\ UNCHANGED <<allVars, searchVars, queryVars, linkVars>>

ServingSpec ==
    ServingInit /\ [][ServingNext]_<<part, allVars, searchVars, queryVars, linkVars, toolVars>>

ServingSymmetry == Permutations(Generations)
================================================================================
