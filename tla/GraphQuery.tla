------------------------------ MODULE GraphQuery ------------------------------
(***************************************************************************)
(* A question to the graph of a generation (retrieval/graph, packages/     *)
(* graph-search): what is related to an entity, the trace of a decision,   *)
(* graph evidence for a search, or one entity as a resource.               *)
(*                                                                         *)
(* The graph of each Vault is checked against the metadata first, and a    *)
(* Vault whose graph is older is left out with a warning.  The target is   *)
(* looked up, its relationships are read level by level, and the paths     *)
(* from it are walked depth first within a bound on examined edges.        *)
(*                                                                         *)
(* Entities, relationship ids, types, names and Vaults are numbers, for    *)
(* the orders the code sorts by; so are the texts that name entities.      *)
(***************************************************************************)
EXTENDS Ordering

CONSTANTS
    Entities,  \* [id -> vault, name, path, aliases, parts, type, evidence]
    Relations, \* [r -> id, source, target, type, status, confidence, evidence]
    EvidenceVault, \* the Vault of the document an evidence reference names
    Worlds,    \* [relations, evidence, lineage, health]
    Requests,  \* [kind, text, depth, direction, types, cross, limit, scope]
    TypeRank,  \* RELATIONSHIP_TYPE_PRIORITY of a type; types are ordered by name
    TargetLimit, ScanLimit, ReadLimit, EdgeLimit \* 20, 5000, 200, 500

VaultOf(e) == Entities[e].vault
SourceVault(r) == VaultOf(Relations[r].source)
TargetVault(r) == VaultOf(Relations[r].target)
Endpoints(r) == {Relations[r].source, Relations[r].target}

(* A relationship rests on evidence unless it is deprecated, and the id is *)
(* its own in the Vault of its source; a path has one or two edges.        *)
QueryConstants ==
    /\ {TargetLimit, ScanLimit, ReadLimit, EdgeLimit} \subseteq Nat
    /\ \A e \in DOMAIN Entities : {VaultOf(e), Entities[e].name} \subseteq Int /\ e \in Int
    /\ IsFiniteSet(DOMAIN Relations)
    /\ \A r \in DOMAIN Relations :
        /\ Endpoints(r) \subseteq DOMAIN Entities
        /\ {Relations[r].id, Relations[r].type, Relations[r].confidence, TypeRank[Relations[r].type]} \subseteq Int
        /\ Relations[r].status \in {"stated", "inferred", "contested", "deprecated"}
        /\ Relations[r].evidence = {} => Relations[r].status = "deprecated"
    /\ \A r, s \in DOMAIN Relations : SourceVault(r) = SourceVault(s) /\ Relations[r].id = Relations[s].id => r = s
    /\ \A w \in Worlds :
        /\ w.relations \subseteq DOMAIN Relations /\ w.health \in {"ok", "missing", "incompatible", "unavailable"}
        /\ \A q \in Requests : \A v \in ToSet(q.scope) : w.lineage[v] \in {"current", "older", "none", "other_spec"}
    /\ \A q \in Requests :
        q.depth \in {1, 2} /\ q.direction \in {"out", "in", "both"} /\ q.cross \in BOOLEAN /\ q.limit \in Nat \ {0}
ASSUME QueryAssumption == QueryConstants

VARIABLES
    query,
    graph,     \* the relationships, what became of the evidence, the lineage
    stage,     \* ready, collect, walk, done, failed, over_budget
    target,    \* the entity that was resolved, 0 before
    collected, \* the relationships read so far
    frontier,  \* the entities whose relationships are read next
    level,     \* how many levels were read
    warnings,  \* [code, vaults]
    walk,      \* the traversal: frames, nodes, edges, examined, chosen
    answer     \* the items or steps: [entity, path]

queryVars == <<query, graph, stage, target, collected, frontier, level, warnings, walk, answer>>

Scope == ToSet(query.scope)
Warn(code, vaults) == {[code |-> code, vaults |-> vaults]}
NoWalk == [frames |-> <<>>, nodes |-> <<>>, steps |-> <<>>, examined |-> 0, chosen |-> {}]

QueryInit ==
    /\ query \in Requests /\ graph \in Worlds
    /\ stage = "ready" /\ target = 0 /\ collected = {} /\ frontier = {} /\ level = 0
    /\ warnings = {} /\ walk = NoWalk /\ answer = <<>>

----------------------------------------------------------------------------
(* Readiness (operation/readiness/graph_readiness_service.py).             *)

Active(status) == status # "deprecated"

(* _evidence_warnings_by_scope: what the live records of a Vault rest on.  *)
EvidenceOf(v) ==
    (UNION {Entities[e].evidence : e \in {x \in DOMAIN Entities : VaultOf(x) = v}})
    \cup UNION {Relations[r].evidence :
                   r \in {x \in graph.relations : Active(Relations[x].status) /\ SourceVault(x) = v}}

(* _graph_spec_compatible                                                  *)
SpecCompatible == \A v \in Scope : graph.lineage[v] # "other_spec"

(* _scope_readiness                                                        *)
Freshness(v) ==
    IF graph.health # "ok" THEN graph.health
    ELSE IF graph.lineage[v] = "none" THEN "empty"
    ELSE IF ~SpecCompatible THEN "incompatible"
    ELSE IF graph.lineage[v] = "older" \/ \E x \in EvidenceOf(v) : graph.evidence[x] # "same" THEN "stale"
    ELSE "fresh"

FreshGraphs == {v \in Scope : Freshness(v) = "fresh"}

(* _fresh_scopes_with_warnings                                             *)
ScopeWarnings == {[code |-> Freshness(v), vaults |-> {v}] : v \in Scope \ FreshGraphs}

(* _raise_fatal_readiness                                                  *)
Fatal == \E v \in Scope : Freshness(v) \in {"incompatible", "unavailable"}

----------------------------------------------------------------------------
(* The target (sqlite_graph_store.find_entities).                          *)

(* Rank of a match: identity, path, name, alias, part of a name; 0: none.  *)
Match(e) ==
    LET text == query.text
        entity == Entities[e]
    IN  IF e = text THEN 1
        ELSE IF entity.name = text THEN 3
        ELSE IF entity.path = text THEN 2
        ELSE IF text \in entity.aliases THEN 4
        ELSE IF text \in entity.parts THEN 5 ELSE 0

EntityKey(e) == <<VaultOf(e), Entities[e].name, e>>

(* Exact names are found; the rest only among the first entities scanned.  *)
Exact == {e \in DOMAIN Entities : VaultOf(e) \in FreshGraphs /\ Match(e) \in {1, 3}}
Scannable == {e \in DOMAIN Entities : VaultOf(e) \in FreshGraphs} \ Exact
Scanned == ToSet(Top(Sorted(Scannable, EntityKey), ScanLimit))

Matches ==
    Top(Sorted(Exact \cup {e \in Scanned : Match(e) > 0}, LAMBDA e : <<Match(e)>> \o EntityKey(e)), TargetLimit)

TargetWarnings ==
    IF \/ Cardinality(Scannable) > ScanLimit
       \/ Cardinality(Exact \cup {e \in Scanned : Match(e) > 0}) > TargetLimit
    THEN Warn("graph_target_scan_truncated", Scope) ELSE {}

Best(S, Rank(_)) == {e \in S : \A d \in S : Rank(e) <= Rank(d)}

(* _resolve_target: the best exact match, if it is one entity.             *)
RelatedTargets == Best({e \in ToSet(Matches) : Match(e) < 5}, Match)

(* _resolve_decision_target: a decision before a page before a document.   *)
DecisionTargets ==
    LET exact == {e \in ToSet(Matches) : Match(e) < 5}
        candidates == IF exact # {} THEN exact ELSE ToSet(Matches)
    IN  Best(Best(candidates, LAMBDA e : Entities[e].type), Match)

Targets == IF query.kind = "trace" THEN DecisionTargets ELSE RelatedTargets

(* A topic is not a durable decision.                                      *)
TraceWarnings(e) ==
    IF query.kind = "trace" /\ Entities[e].type # 0 THEN Warn("topic_not_durable_decision", {VaultOf(e)}) ELSE {}

Resolves(evidence) == {x \in evidence : graph.evidence[x] # "gone"}

(* _initial_decision_trace_step: the target itself, if its evidence is.    *)
InitialSteps(e) ==
    IF query.kind = "trace" /\ Resolves(Entities[e].evidence) # {} THEN <<[entity |-> e, path |-> <<>>]>> ELSE <<>>

PathLimit(e) == query.limit - Len(InitialSteps(e))

Refuse ==
    /\ stage = "ready" /\ Fatal
    /\ stage' = "failed"
    /\ UNCHANGED <<query, graph, target, collected, frontier, level, warnings, walk, answer>>

(* _empty_related_response                                                 *)
AnswerEmpty ==
    /\ stage = "ready" /\ query.kind \in {"related", "trace", "search"}
    /\ ~Fatal /\ (FreshGraphs = {} \/ Cardinality(Targets) # 1)
    /\ warnings' = ScopeWarnings \cup
          IF FreshGraphs = {} THEN {}
          ELSE TargetWarnings \cup Warn(IF Targets = {} THEN "target_not_found" ELSE "ambiguous_graph_target", Scope)
    /\ stage' = "done"
    /\ UNCHANGED <<query, graph, target, collected, frontier, level, walk, answer>>

Resolve ==
    /\ stage = "ready" /\ query.kind \in {"related", "trace", "search"}
    /\ ~Fatal /\ FreshGraphs # {} /\ Cardinality(Targets) = 1
    /\ target' \in Targets
    /\ warnings' = ScopeWarnings \cup TargetWarnings \cup TraceWarnings(target')
    /\ IF PathLimit(target') > 0
       THEN stage' = "collect" /\ frontier' = {target'} /\ UNCHANGED answer
       ELSE stage' = "done" /\ answer' = InitialSteps(target') /\ UNCHANGED frontier
    /\ UNCHANGED <<query, graph, collected, level, walk>>

----------------------------------------------------------------------------
(* Relationships (sqlite_graph_store.relationships_for_entities).          *)

(* _relationship_allowed_sql_filter                                        *)
Allowed(r) ==
    LET vaults == {SourceVault(r), TargetVault(r)} \cup {EvidenceVault[x] : x \in Relations[r].evidence}
    IN  IF query.cross THEN vaults \subseteq FreshGraphs ELSE vaults = {SourceVault(r)}

(* _relationship_where_sql, but for the filter above.                      *)
Touching(entities, statuses) ==
    {r \in graph.relations :
        /\ SourceVault(r) \in FreshGraphs /\ Relations[r].status \in statuses
        /\ query.types = {} \/ Relations[r].type \in query.types
        /\ \/ query.direction \in {"out", "both"} /\ Relations[r].source \in entities
           \/ query.direction \in {"in", "both"} /\ Relations[r].target \in entities}

RelationKey(r) == <<SourceVault(r), TargetVault(r), Relations[r].type, Relations[r].id, Relations[r].target>>

Asked == {"stated", "inferred", "contested"}

(* Rows beyond the limit and rows of other Vaults are left out, each with  *)
(* a warning.                                                              *)
RowsOf(entities) == {r \in Touching(entities, Asked) : Allowed(r)}
ReadWarnings ==
    (IF Cardinality(RowsOf(frontier)) > ReadLimit THEN Warn("graph_relationship_read_truncated", FreshGraphs) ELSE {})
    \cup (IF Touching(frontier, Asked) # RowsOf(frontier) THEN Warn("cross_vault_relationship_omitted", FreshGraphs) ELSE {})

Visited == {target} \cup UNION {Endpoints(r) : r \in collected}

(* _collect_relationships, one level.                                      *)
Collect ==
    /\ stage = "collect" /\ level < query.depth /\ frontier # {}
    /\ LET read == ToSet(Top(Sorted(RowsOf(frontier), RelationKey), ReadLimit))
       IN  /\ collected' = collected \cup read
           /\ frontier' = (UNION {Endpoints(r) : r \in read}) \ Visited
    /\ level' = level + 1
    /\ warnings' = warnings \cup ReadWarnings
    /\ UNCHANGED <<query, graph, stage, target, walk, answer>>

----------------------------------------------------------------------------
(* Projection (vault_graph_projection_adapter.py over graph_search).       *)

(* _evidence_valid_relationships                                           *)
Evident == {r \in collected : Resolves(Relations[r].evidence) # {}}
EvidenceWarnings == {[code |-> "graph_evidence_missing", vaults |-> {SourceVault(r)}] : r \in collected \ Evident}

(* _edge_allowed                                                           *)
EdgeAllowed(r) ==
    /\ query.types = {} \/ Relations[r].type \in query.types
    /\ Active(Relations[r].status)
    /\ query.cross \/ SourceVault(r) = TargetVault(r)

Filtered == {r \in Evident : EdgeAllowed(r)}
Edges == Top(Sorted(Filtered, RelationKey), EdgeLimit)

(* GraphSnapshot._candidates: the steps from a node, in the core's order.  *)
Candidates(e) ==
    LET out == {<<r, Relations[r].target, FALSE>> : r \in {x \in ToSet(Edges) : Relations[x].source = e}}
        in == {<<r, Relations[r].source, TRUE>> : r \in {x \in ToSet(Edges) : Relations[x].target = e}}
        steps == (IF query.direction = "in" THEN {} ELSE out)
                 \cup (IF query.direction = "out" THEN {}
                       ELSE IF query.direction = "both" THEN {s \in in : s[2] # e} ELSE in)
    IN  Sorted(steps, LAMBDA s : EntityKey(s[2]) \o <<Position(Edges, s[1]), IF s[3] THEN 1 ELSE 0>>)

(* _legacy_neighbor_ranks: the place of a step in the order of the former  *)
(* projection.                                                             *)
LegacyOrder(e) ==
    Sorted(ToSet(Candidates(e)), LAMBDA s : RelationKey(s[1]) \o EntityKey(s[2]) \o <<IF s[3] THEN 1 ELSE 0>>)
LegacyRank(e, s) == Position(LegacyOrder(e), s)

(* With room for the steps of one node only: a mutant.                     *)
ExaminationBoundOfOneNode == LET a == 2 * Len(Edges) IN a

(* A path of two edges examines every step of every neighbour at most.     *)
ExaminationBound == LET a == 2 * Len(Edges) IN a + a * a

ProjectPaths ==
    /\ stage = "collect" /\ (level = query.depth \/ frontier = {})
    /\ stage' = "walk"
    /\ warnings' = warnings \cup EvidenceWarnings
    /\ walk' = [NoWalk EXCEPT !.frames = <<[node |-> target, cursor |-> 1]>>, !.nodes = <<target>>]
    /\ UNCHANGED <<query, graph, target, collected, frontier, level, answer>>

Frame == walk.frames[Len(walk.frames)]
Unfinished == stage = "walk" /\ walk.frames # <<>>
Exhausted == Frame.cursor > Len(Candidates(Frame.node))
DropLast(s) == SubSeq(s, 1, Len(s) - 1)

(* A node with no step left is taken from the path.                        *)
Backtrack ==
    /\ Unfinished /\ Exhausted
    /\ walk' = [walk EXCEPT !.frames = DropLast(@), !.nodes = DropLast(@),
                            !.steps = IF @ = <<>> THEN @ ELSE DropLast(@)]
    /\ UNCHANGED <<query, graph, stage, target, collected, frontier, level, warnings, answer>>

Score(path) ==
    LET weight == [stated |-> 100, inferred |-> 75, contested |-> 45]
        weighted == {Relations[r].confidence * weight[Relations[r].status] : r \in ToSet(path)}
    IN  (CHOOSE w \in weighted : \A x \in weighted : w <= x) * (IF Len(path) = 1 THEN 10 ELSE 6)

Ids(path) == [i \in DOMAIN path |-> Relations[path[i]].id]

(* One path for each sequence of relationship ids: the one the former      *)
(* projection met first.                                                   *)
Choose(path) ==
    LET same == {p \in walk.chosen : p.entity = path.entity /\ Ids(p.path) = Ids(path.path)}
    IN  IF \E p \in same : ~Less(path.ordinal, p.ordinal) THEN walk.chosen
        ELSE (walk.chosen \ same) \cup {path}

(* PathTraversal.__next__: one step is examined; a step to a node of the   *)
(* path is skipped, any other ends a path that is given out.  A walk that  *)
(* outgrows its bound fails: "graph_projection_budget_exceeded".           *)
Examine ==
    /\ Unfinished /\ ~Exhausted
    /\ LET s == Candidates(Frame.node)[Frame.cursor]
           steps == Append(walk.steps, s)
           path == [entity |-> s[2], path |-> [i \in DOMAIN steps |-> steps[i][1]],
                    ordinal |-> [i \in DOMAIN steps |-> LegacyRank(walk.nodes[i], steps[i])]]
           moved == [walk EXCEPT !.frames[Len(walk.frames)].cursor = @ + 1, !.examined = @ + 1]
       IN  walk' = IF s[2] \in ToSet(walk.nodes) THEN moved
                   ELSE IF Len(steps) < query.depth
                   THEN [moved EXCEPT !.frames = Append(@, [node |-> s[2], cursor |-> 1]),
                                      !.nodes = Append(@, s[2]), !.steps = steps, !.chosen = Choose(path)]
                   ELSE [moved EXCEPT !.chosen = Choose(path)]
    /\ stage' = IF walk.examined < ExaminationBound THEN stage ELSE "over_budget"
    /\ UNCHANGED <<query, graph, target, collected, frontier, level, warnings, answer>>

----------------------------------------------------------------------------
(* The answer.                                                             *)

(* _path_sort_key, then the order of the former projection.                *)
PathKey(p) ==
    LET first == Relations[p.path[1]]
    IN  <<-Score(p.path), Len(p.path), TypeRank[first.type], first.type, VaultOf(p.entity),
          Entities[p.entity].name, first.id>> \o p.ordinal

Paths == Top(Sorted(walk.chosen, PathKey), PathLimit(target))

ProjectionWarnings ==
    IF Cardinality(Filtered) > EdgeLimit \/ Cardinality(walk.chosen) > PathLimit(target)
    THEN Warn("graph_projection_truncated", FreshGraphs) ELSE {}

(* A trace shows its paths by the role of their first relationship.        *)
RoleKey(i) == <<TypeRank[Relations[Paths[i].path[1]].type], -Score(Paths[i].path), i>>
Shown ==
    LET order == IF query.kind = "trace" THEN Sorted(DOMAIN Paths, RoleKey) ELSE [i \in DOMAIN Paths |-> i]
    IN  [i \in DOMAIN order |-> [entity |-> Paths[order[i]].entity, path |-> Paths[order[i]].path]]

Answer ==
    /\ stage = "walk" /\ walk.frames = <<>>
    /\ answer' = Top(InitialSteps(target) \o Shown, query.limit)
    /\ warnings' = warnings \cup ProjectionWarnings
    /\ stage' = "done"
    /\ UNCHANGED <<query, graph, target, collected, frontier, level, walk>>

(* graph_candidates_for_search: the evidence of a path, ranked by its      *)
(* place, with its last relationship as the source.                        *)
SearchCandidates ==
    UNION {{[evidence |-> x, rank |-> i, relation |-> answer[i].path[Len(answer[i].path)]] :
               x \in UNION {Resolves(Relations[r].evidence) : r \in ToSet(answer[i].path)}} :
           i \in {j \in DOMAIN answer : answer[j].path # <<>>}}

----------------------------------------------------------------------------
(* One entity as a resource (graph_resource_service.py): its relationships *)
(* of every status, within its Vault.                                      *)

Beside(e) == Sorted({r \in Touching({e}, Asked \cup {"deprecated"}) : Allowed(r)}, RelationKey)

Concepts == {e \in ToSet(Matches) : query.text = Entities[e].name \/ query.text \in Entities[e].aliases}
Resource == IF query.kind = "entity" THEN {e \in DOMAIN Entities : e = query.text /\ VaultOf(e) \in Scope}
            ELSE Concepts

(* Of the evidence, what is missing is named by a warning.                 *)
ResourceEvidence(e) ==
    Entities[e].evidence \cup UNION {Relations[r].evidence : r \in ToSet(Top(Beside(e), ReadLimit))}

GetResource ==
    /\ stage = "ready" /\ query.kind \in {"entity", "concept"} /\ ~Fatal
    /\ FreshGraphs # {} /\ Cardinality(Resource) = 1
    /\ target' \in Resource
    /\ answer' = <<[entity |-> target', path |-> Top(Beside(target'), ReadLimit)]>>
    /\ warnings' = {[code |-> "missing_evidence", vaults |-> {EvidenceVault[x]}] :
                       x \in ResourceEvidence(target') \ Resolves(ResourceEvidence(target'))}
    /\ stage' = "done"
    /\ UNCHANGED <<query, graph, collected, frontier, level, walk>>

(* resource_not_found, ambiguous_resource or graph_unavailable             *)
NoResource ==
    /\ stage = "ready" /\ query.kind \in {"entity", "concept"} /\ ~Fatal
    /\ FreshGraphs = {} \/ Cardinality(Resource) # 1
    /\ stage' = "failed"
    /\ UNCHANGED <<query, graph, target, collected, frontier, level, warnings, walk, answer>>

QueryNext ==
    \/ Refuse \/ AnswerEmpty \/ Resolve \/ Collect \/ ProjectPaths
    \/ Backtrack \/ Examine \/ Answer
    \/ GetResource \/ NoResource

QuerySpec == QueryInit /\ [][QueryNext]_queryVars

----------------------------------------------------------------------------
(* What an answer is, from the relationships that hold.                    *)

UpToDate(v) ==
    /\ graph.health = "ok" /\ graph.lineage[v] = "current"
    /\ \A x \in EvidenceOf(v) : graph.evidence[x] = "same"

Hops(relations, e) ==
    UNION {(IF query.direction \in {"out", "both"} /\ Relations[r].source = e THEN {<<r, Relations[r].target>>} ELSE {})
           \cup (IF query.direction \in {"in", "both"} /\ Relations[r].target = e THEN {<<r, Relations[r].source>>} ELSE {}) :
              r \in relations}

(* The walks from the target that meet no entity twice.                    *)
SimpleWalks(relations) ==
    LET once == {<<s>> : s \in {h \in Hops(relations, target) : h[2] # target}}
        twice == {w \in UNION {{Append(o, h) : h \in Hops(relations, o[1][2])} : o \in once} : w[2][2] \notin {target, w[1][2]}}
    IN  IF query.depth = 1 THEN once ELSE once \cup twice

Holding ==
    {r \in graph.relations :
        /\ Relations[r].status # "deprecated" /\ UpToDate(SourceVault(r))
        /\ query.types = {} \/ Relations[r].type \in query.types
        /\ query.cross \/ VaultOf(Relations[r].source) = VaultOf(Relations[r].target)
        /\ {SourceVault(r), TargetVault(r)} \cup {EvidenceVault[x] : x \in Relations[r].evidence} \subseteq
              IF query.cross THEN {v \in Scope : UpToDate(v)} ELSE {SourceVault(r)}
        /\ SourceVault(r) \in Scope}

IsWalk(item, w) == item.entity = w[Len(w)][2] /\ item.path = [i \in DOMAIN w |-> w[i][1]]

(* What is shown was walked from the target over relationships that hold,  *)
(* every walk is shown unless a limit was met and said, and a Vault whose  *)
(* graph is older than its documents is named.                             *)
Answered == stage = "done" /\ query.kind \in {"related", "trace", "search"}
Limited ==
    \E w \in warnings : w.code \in {"graph_relationship_read_truncated", "graph_projection_truncated",
                                   "graph_target_scan_truncated"}

ShownHolds ==
    Answered => \A i \in DOMAIN answer : answer[i].path # <<>> =>
        \E w \in SimpleWalks(Holding) : IsWalk(answer[i], w)

AllShown ==
    Answered /\ target # 0 /\ ~Limited => \A w \in SimpleWalks(Holding) : PathLimit(target) > 0 =>
        \E i \in DOMAIN answer :
            answer[i].entity = w[Len(w)][2] /\ Ids(answer[i].path) = Ids([j \in DOMAIN w |-> w[j][1]])

StaleIsNamed == Answered => \A v \in Scope : UpToDate(v) \/ \E w \in warnings : v \in w.vaults

(* The bound on examined edges fits every walk of a projection, and with   *)
(* the core's own order of steps the answer is that of the projection it   *)
(* replaced, also when it is cut.                                          *)
(* The former projection (rustworkx_projection.py) walked each node's      *)
(* edges in their own order and kept the first of equal paths.             *)
LegacyPaths ==
    LET Key(hop) == RelationKey(hop[1]) \o EntityKey(hop[2])
        Met(w) == IF Len(w) = 1 THEN Key(w[1]) ELSE Key(w[1]) \o Key(w[2])
        first == {w \in SimpleWalks(ToSet(Edges)) :
                     \A x \in SimpleWalks(ToSet(Edges)) :
                         x[Len(x)][2] = w[Len(w)][2] /\ Ids([i \in DOMAIN x |-> x[i][1]]) = Ids([i \in DOMAIN w |-> w[i][1]])
                         => ~Less(Met(x), Met(w))}
        Item(w) == [entity |-> w[Len(w)][2], path |-> [i \in DOMAIN w |-> w[i][1]], ordinal |-> Met(w)]
        ordered == Sorted({Item(w) : w \in first}, PathKey)
    IN  Top([i \in DOMAIN ordered |-> [entity |-> ordered[i].entity, path |-> ordered[i].path]], PathLimit(target))

AsBefore ==
    /\ stage # "over_budget"
    /\ Answered /\ query.kind # "trace" /\ target # 0 => answer = LegacyPaths

GraphAnswersFaithfully == ShownHolds /\ AllShown /\ StaleIsNamed /\ AsBefore
===============================================================================
