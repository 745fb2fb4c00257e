-------------------------------- MODULE Search --------------------------------
(***************************************************************************)
(* One search over a generation (retrieval/search, storage/local/          *)
(* sqlite_keyword_index.py, packages/vector-search, operation/readiness/   *)
(* search_readiness_service.py).                                           *)
(*                                                                         *)
(* Readiness is checked per Vault, the query is embedded, and then one or  *)
(* two rounds follow: a keyword and a vector list over the Vaults of the   *)
(* scope, fusion by reciprocal rank, resolution of the chunks, folding     *)
(* into documents and session exchanges, and folding of replaced pages and *)
(* of copies in other Vaults.  A round that gives too few results from a   *)
(* full list is repeated once with longer lists.                           *)
(*                                                                         *)
(* Chunks, paths and Vaults are numbers, for the orders the code sorts by. *)
(* Scores of one signal are whole numbers, higher is better; shares of     *)
(* fused scores are in millionths.                                         *)
(***************************************************************************)
EXTENDS Ordering

CONSTANTS
    Documents,    \* [id -> vault, path, role, retired, content, replaces, title, lifecycle]
    Chunks,       \* [id -> doc, parent, order, tokens, card]
    Ghosts,       \* [chunk id -> vault]: named by a graph record, unknown to metadata
    Relevance,    \* functions from the chunks to their keyword score (0: no match)
    Similarity,   \* functions from the chunks to their vector score
    Requests,     \* [scope, mode, retired, limit, graph: off, ok or fails, cards: what it finds]
    PerResult, MinCandidates, Refill, \* CANDIDATES_PER_RESULT 4, MIN_CANDIDATES 20, REFILL_FACTOR 4
    Budget, Radius, \* context_max_tokens, context_neighbor_radius
    Nothing

VARIABLES
    request,  \* what is asked
    store,    \* the scores of the chunks, the Vaults with stale vectors, the stores' health
    step,     \* ready, embed, round, expand, done, failed
    lists,    \* the rounds so far: their candidate lists, and what they resolved to
    warnings, \* [code, vaults]
    results

vars == <<request, store, step, lists, warnings, results>>

(* SEARCH_MODE_ROLES, and the weight of a role (SEARCH_MODE_ROLE_WEIGHTS). *)
Roles(mode) ==
    CASE mode = "knowledge" -> {"canonical", "source"}
      [] mode = "evidence" -> {"source", "raw"}
      [] mode = "all" -> {"canonical", "source", "raw"}
Weight(mode, role) == IF mode = "knowledge" /\ role = "source" THEN 8 ELSE 10

Doc(c) == Documents[Chunks[c].doc]
Vaults == ToSet(request.scope)

Init ==
    /\ request \in Requests
    /\ store \in [keyword : Relevance, vector : Similarity, stale : SUBSET ToSet(request.scope),
                  health : {"ok", "no vectors", "no model", "no keywords"}]
    /\ store.health = "no vectors" => store.stale = {} \* not counted then
    /\ step = "ready" /\ lists = <<>> /\ warnings = {} /\ results = <<>>

----------------------------------------------------------------------------
(* Readiness.                                                              *)

Warn(code, vaults) == {[code |-> code, vaults |-> vaults]}

(* _vector_stale_warnings: one for each Vault.                             *)
StaleWarnings == UNION {Warn("vector_stale", {v}) : v \in store.stale}

(* _warnings_for_readiness: what is said of vectors that are not asked.    *)
VectorWarnings ==
    CASE store.health = "no vectors" -> Warn("vector_unavailable", Vaults)
      [] store.health = "no model" -> Warn("embedding_model_unavailable", Vaults) \cup StaleWarnings
      [] OTHER -> StaleWarnings

ReadinessWarnings ==
    VectorWarnings \cup IF VectorWarnings = {} THEN {}
                        ELSE Warn("degraded_keyword_only", UNION {w.vaults : w \in VectorWarnings})

(* Mutant: a stale Vault is skipped without a word.                        *)
CheckSilently ==
    /\ step = "ready" /\ store.health # "no keywords"
    /\ step' = "embed"
    /\ warnings' = VectorWarnings \ StaleWarnings
    /\ UNCHANGED <<request, store, lists, results>>

Check ==
    /\ step = "ready" /\ store.health # "no keywords"
    /\ step' = "embed" /\ warnings' = ReadinessWarnings
    /\ UNCHANGED <<request, store, lists, results>>

(* _fatal_readiness_error                                                  *)
Refuse ==
    /\ step = "ready" /\ store.health = "no keywords"
    /\ step' = "failed"
    /\ UNCHANGED <<request, store, lists, warnings, results>>

(* _can_run_vector_search_globally                                         *)
CanAskVectors == store.health \notin {"no vectors", "no model"}

(* _query_vector: once for both rounds.                                    *)
EmbedQuery ==
    /\ step = "embed"
    /\ step' = IF CanAskVectors THEN "round" ELSE "keywords"
    /\ UNCHANGED <<request, store, lists, warnings, results>>

EmbedFails ==
    /\ step = "embed" /\ CanAskVectors
    /\ step' = "keywords"
    /\ warnings' = warnings \cup Warn("vector_query_failed", Vaults)
    /\ UNCHANGED <<request, store, lists, results>>

----------------------------------------------------------------------------
(* The candidate lists.                                                    *)

CandidateLimit ==
    LET asked == request.limit * PerResult
        first == IF asked < MinCandidates THEN MinCandidates ELSE asked
    IN  IF lists = <<>> THEN first ELSE first * Refill

(* What a store finds for one Vault: scope and roles are part of the       *)
(* query.                                                                  *)
Found(score, v) ==
    {c \in DOMAIN Chunks : score[c] > 0 /\ Doc(c).vault = v /\ Doc(c).role \in Roles(request.mode)}

(* Its rows, best first, cut at the limit.                                 *)
KeywordHits(v, limit) ==
    Top(Sorted(Found(store.keyword, v), LAMBDA c : <<-store.keyword[c], Doc(c).path, c>>), limit)
VectorHits(v, limit) ==
    Top(Sorted(Found(store.vector, v), LAMBDA c : <<-store.vector[c], c>>), limit)

(* _merge_scope_hits: one list for the whole scope, cut again.             *)
Merged(score, hits) ==
    LET Key(c) == <<-score[c], Position(request.scope, Doc(c).vault), Position(hits[Doc(c).vault], c)>>
    IN  Top(Sorted(UNION {ToSet(hits[v]) : v \in DOMAIN hits}, Key), CandidateLimit)

KeywordList == Merged(store.keyword, Table([v \in Vaults |-> KeywordHits(v, CandidateLimit)]))
(* Only Vaults whose vectors are those of their chunks are asked.          *)
VectorList == Merged(store.vector, Table([v \in Vaults \ store.stale |-> VectorHits(v, CandidateLimit)]))

----------------------------------------------------------------------------
(* Fusion and resolution (candidate_ranking.py, evidence_result_assembly). *)

Share(weight, rank) == (weight * 10000) \div (60 + rank)

(* The signals of a chunk: RANK_CONSTANT 60, weights 1.0, 1.0 and 0.75.    *)
SignalsOf(c, keyword, vector, graph) ==
    LET Ranks(kind, list) == {<<kind, rank>> : rank \in {n \in DOMAIN list : list[n] = c}}
    IN  Ranks("keyword", keyword) \cup Ranks("vector", vector) \cup Ranks("graph", graph)

Fused(signals) ==
    LET Add(s, sum) == sum + Share(IF s[1] = "graph" THEN 75 ELSE 100, s[2])
    IN  FoldSet(Add, 0, signals)

BestRank(signals) == CHOOSE n \in {s[2] : s \in signals} : \A s \in signals : n <= s[2]

(* The chunks that resolve and may be shown, best first.                   *)
Shown(c) ==
    /\ c \notin DOMAIN Ghosts
    /\ request.retired \/ ~Doc(c).retired
    /\ Doc(c).role \in Roles(request.mode)

Ranked(keyword, vector, graph) ==
    LET found == {c \in ToSet(keyword) \cup ToSet(vector) \cup ToSet(graph) : Shown(c)}
        signals == Table([c \in found |-> SignalsOf(c, keyword, vector, graph)])
        score == Table([c \in found |-> Fused(signals[c])])
        Key(c) == <<-score[c], BestRank(signals[c]), Doc(c).vault, Doc(c).path, c>>
    IN  [order |-> Sorted(found, Key), score |-> score]

(* A unit is a session exchange or a document.                             *)
UnitOf(c) ==
    IF Chunks[c].parent # Nothing THEN <<Doc(c).vault, Chunks[c].parent, 0>>
    ELSE <<Doc(c).vault, 0, Chunks[c].doc>>

(* document_score: the best chunk, and a tenth of the next two; the title  *)
(* signal once; the weight of the role.                                    *)
UnitScore(chunks, score) ==
    LET c == chunks[1]
        tail == FoldLeft(LAMBDA sum, d : sum + score[d], 0, Top(Tail(chunks), 2))
        title == IF Doc(c).title = Nothing THEN 0 ELSE Share(100, Doc(c).title)
    IN  (10 * score[c] + tail + 10 * title) * Weight(request.mode, Doc(c).role)

(* _group_by_unit                                                          *)
Grouped(ranked) ==
    LET units == {UnitOf(c) : c \in ToSet(ranked.order)}
        members == Table([u \in units |-> SelectSeq(ranked.order, LAMBDA c : UnitOf(c) = u)])
        score == Table([u \in units |-> UnitScore(members[u], ranked.score)])
        Key(u) == <<-score[u], Position(ranked.order, members[u][1])>>
        order == Sorted(units, Key)
    IN  <<>> \o [i \in DOMAIN order |-> [chunk |-> members[order[i]][1], windows |-> Len(members[order[i]]),
                                 score |-> score[order[i]], copies |-> {}]]

(* _fold_replacements: the best page of each chain of supersedes links, of *)
(* the pages that were found and those they name.  A chain is a set of     *)
(* pages; every link joins two.                                            *)
Page(c) == <<Doc(c).vault, Doc(c).path>>

Chains(groups) ==
    LET links == UNION {{<<Page(g.chunk), <<Doc(g.chunk).vault, p>>>> : p \in Doc(g.chunk).replaces} : g \in ToSet(groups)}
        pages == {Page(g.chunk) : g \in ToSet(groups)} \cup {l[2] : l \in links}
        ChainOf(chains, p) == CHOOSE s \in chains : p \in s
        Join(chains, l) == (chains \ {ChainOf(chains, l[1]), ChainOf(chains, l[2])})
                           \cup {ChainOf(chains, l[1]) \cup ChainOf(chains, l[2])}
    IN  FoldLeft(Join, {{p} : p \in pages}, Sorted(links, LAMBDA l : l[1] \o l[2]))

FoldedReplacements(groups) ==
    LET chains == Chains(groups)
        Chain(g) == CHOOSE s \in chains : Page(g.chunk) \in s
        Keep(kept, g) ==
            IF Chunks[g.chunk].parent = Nothing
               /\ \E h \in ToSet(kept) : Chunks[h.chunk].parent = Nothing /\ Chain(h) = Chain(g)
            THEN kept ELSE Append(kept, g)
    IN  FoldLeft(Keep, <<>>, groups)

(* _fold_duplicate_content: units of one content from different Vaults     *)
(* join the cluster opened first; the copy of the earliest Vault is shown. *)
Content(g) == <<Doc(g.chunk).content, Chunks[g.chunk].parent>>

FoldedCopies(groups) ==
    LET Cluster(clusters, g) ==
            LET same == {i \in DOMAIN clusters : Content(clusters[i][1]) = Content(g)}
                opened == CHOOSE i \in same : \A j \in same : i <= j
            IN  IF same # {} /\ \A h \in ToSet(clusters[opened]) : Doc(h.chunk).vault # Doc(g.chunk).vault
                THEN [clusters EXCEPT ![opened] = Append(@, g)]
                ELSE Append(clusters, <<g>>)
        clusters == FoldLeft(Cluster, <<>>, groups)
        Earliest(cluster) ==
            CHOOSE g \in ToSet(cluster) : \A h \in ToSet(cluster) :
                Position(request.scope, Doc(g.chunk).vault) <= Position(request.scope, Doc(h.chunk).vault)
    IN  <<>> \o [i \in DOMAIN clusters |->
            [Earliest(clusters[i]) EXCEPT
                !.copies = {Page(g.chunk) : g \in ToSet(clusters[i]) \ {Earliest(clusters[i])}}]]

Resolved(keyword, vector, graph) ==
    LET groups == Grouped(Ranked(keyword, vector, graph))
    IN  FoldedCopies(IF request.mode = "knowledge" THEN FoldedReplacements(groups) ELSE groups)

----------------------------------------------------------------------------
(* The rounds.                                                             *)

(* Only a signal whose list is full can be hiding results.                 *)
Saturated(round) == round.limit \in {Len(round.keyword), Len(round.vector)}

(* Mutant: only the keyword list is looked at.                             *)
EnoughKeywords(round) ==
    \/ Len(lists) = 1 \/ Len(round.results) >= request.limit
    \/ round.limit # Len(round.keyword)

Enough(round) ==
    \/ Len(lists) = 1 \/ Len(round.results) >= request.limit
    \/ ~Saturated(round)

GraphWarnings == IF request.graph = "fails" THEN Warn("graph_unavailable", Vaults) ELSE {}
GraphList == IF request.graph = "ok" THEN request.cards ELSE <<>>

(* The chunks that metadata does not know are dropped, with a warning.     *)
Dropped == UNION {Warn("missing_evidence", {Ghosts[c]}) : c \in ToSet(GraphList) \cap DOMAIN Ghosts}

EndRound(round, roundWarnings) ==
    /\ IF Enough(round)
       THEN /\ step' = "expand"
            /\ warnings' = warnings \cup roundWarnings \cup GraphWarnings \cup Dropped
            /\ results' = Top(round.results, request.limit)
       ELSE UNCHANGED <<step, warnings, results>>
    /\ lists' = Append(lists, round)
    /\ UNCHANGED <<request, store>>

RoundWith(keyword, vector) ==
    [keyword |-> keyword, vector |-> vector, limit |-> CandidateLimit,
     results |-> Resolved(keyword, vector, GraphList)]

Round ==
    /\ step = "round"
    /\ EndRound(RoundWith(KeywordList, VectorList), {})

RoundOfKeywords ==
    /\ step = "keywords"
    /\ EndRound(RoundWith(KeywordList, <<>>), {})

(* A vector store that fails in one round may answer in the next.          *)
VectorFails ==
    /\ step = "round"
    /\ EndRound(RoundWith(KeywordList, <<>>), Warn("vector_query_failed", Vaults))

KeywordFails ==
    /\ step \in {"round", "keywords"}
    /\ step' = "failed"
    /\ UNCHANGED <<request, store, lists, warnings, results>>

----------------------------------------------------------------------------
(* Context (context_expansion.py): the neighbours of the matched chunk in  *)
(* its document, in order, that fit the budget.  A page card is never the  *)
(* context of another chunk.                                               *)
Context(c) ==
    LET body == {d \in DOMAIN Chunks : Chunks[d].doc = Chunks[c].doc /\ (d = c \/ ~Chunks[d].card)}
        order == Sorted(body, LAMBDA d : <<Chunks[d].order, d>>)
        at == Position(order, c)
        near == SelectSeq(SubSeq(order, IF at > Radius THEN at - Radius ELSE 1,
                                 IF at + Radius < Len(order) THEN at + Radius ELSE Len(order)),
                          LAMBDA d : d # c)
        Add(used, d) == IF used.tokens + Chunks[d].tokens > Budget THEN used
                        ELSE [tokens |-> used.tokens + Chunks[d].tokens, chunks |-> Append(used.chunks, d)]
    IN  FoldLeft(Add, [tokens |-> 0, chunks |-> <<>>], near).chunks

Expand ==
    /\ step = "expand"
    /\ results' = [i \in DOMAIN results |->
                      [hit |-> results[i], context |-> Context(results[i].chunk)]]
    /\ step' = "done"
    /\ UNCHANGED <<request, store, lists, warnings>>

Next ==
    \/ Check \/ Refuse \/ EmbedQuery \/ EmbedFails
    \/ Round \/ RoundOfKeywords \/ VectorFails \/ KeywordFails \/ Expand

Spec == Init /\ [][Next]_vars

----------------------------------------------------------------------------
(* Properties.                                                             *)

LastRound == lists[Len(lists)]
Answered == step = "done"
Hit == {results[i].hit : i \in DOMAIN results}

(* The pages of one Vault that replace each other, over pages that were    *)
(* found: reachability, not the joining of sets.                           *)
Related(found) ==
    LET Linked(c, d) == Doc(c).vault = Doc(d).vault
                        /\ (Doc(c).path \in Doc(d).replaces \/ Doc(d).path \in Doc(c).replaces
                            \/ Doc(c).replaces \cap Doc(d).replaces # {} \/ Doc(c).path = Doc(d).path)
        Wider(set) == set \cup {d \in found : \E c \in set : Linked(c, d)}
        Reach[n \in 0..Cardinality(found)] ==
            Table(IF n = 0 THEN [c \in found |-> {c}] ELSE LET Near == Reach[n - 1] IN [c \in found |-> Wider(Near[c])])
    IN  Reach[Cardinality(found)]

Plain(c) == Chunks[c].parent = Nothing

(* The chunks a request asks for that some store it consulted matches.     *)
Asked ==
    LET consulted == IF LastRound.vector = <<>> THEN {} ELSE Vaults \ store.stale
    IN  {c \in DOMAIN Chunks :
            /\ Shown(c) /\ Doc(c).vault \in Vaults
            /\ store.keyword[c] > 0 \/ (Doc(c).vault \in consulted /\ store.vector[c] > 0)}

(* Why a unit is not among the results: a page of its chain or a copy of   *)
(* its content is.                                                         *)
StandsFor(r, c, related) ==
    \/ UnitOf(r) = UnitOf(c)
    \/ request.mode = "knowledge" /\ Plain(c) /\ Plain(r) /\ r \in related[c]
    \/ Doc(r).vault # Doc(c).vault /\ Content([chunk |-> r]) = Content([chunk |-> c])

(* Fewer results than were asked for mean that everything that matches is  *)
(* there, under its own name, that of the page that replaces it or that of *)
(* its copy, unless a full list was already lengthened once: the chunks of *)
(* retired pages and of large documents use up the first lists.            *)
NothingMissed ==
    Answered /\ Len(results) < request.limit =>
        \/ Len(lists) = 2 /\ Saturated(LastRound)
        \/ LET found == Asked \cup {g.chunk : g \in Hit}
               related == Related(found)
           IN  \A c \in Asked : \E r \in found :
                  /\ StandsFor(r, c, related)
                  /\ \E g \in Hit : UnitOf(g.chunk) = UnitOf(r) \/ StandsFor(g.chunk, r, related)

(* No page beside one that replaces it, no unit twice, and the same        *)
(* content once, unless one Vault holds it twice.                          *)
NothingTwice ==
    Answered =>
        LET found == {c \in ToSet(LastRound.keyword) \cup ToSet(LastRound.vector) \cup ToSet(GraphList) : Shown(c)}
            related == Related(found)
            twice(g) == \E c, d \in found : /\ Doc(c).vault = Doc(d).vault /\ UnitOf(c) # UnitOf(d)
                                            /\ Content([chunk |-> c]) = Content(g) /\ Content([chunk |-> d]) = Content(g)
        IN  \A g, h \in Hit : g # h =>
                /\ UnitOf(g.chunk) # UnitOf(h.chunk)
                /\ request.mode = "knowledge" /\ Plain(g.chunk) /\ Plain(h.chunk) => h.chunk \notin related[g.chunk]
                /\ Content(g) = Content(h) => twice(g)

(* A Vault of the scope whose vectors had no say is named by a warning.    *)
NoSilentDegradation ==
    Answered =>
        \A v \in Vaults :
            (v \in store.stale \/ ~CanAskVectors
                \/ (LastRound.vector = <<>> /\ \E c \in DOMAIN Chunks :
                        store.vector[c] > 0 /\ Doc(c).vault = v /\ Doc(c).role \in Roles(request.mode)))
            => \E w \in warnings : v \in w.vaults /\ w.code \in {"vector_unavailable", "vector_stale", "vector_query_failed", "embedding_model_unavailable"}

(* What matches is among fewer results than were asked for, or stands      *)
(* behind one of them; what could not be looked for is named.              *)
NothingMissedSilently == NothingMissed /\ NoSilentDegradation

=============================================================================
