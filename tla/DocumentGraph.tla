---------------------------- MODULE DocumentGraph ----------------------------
(***************************************************************************)
(* The graph of a generation under both backends: graph.sqlite3 alone      *)
(* ("legacy"), or an in-memory copy of it loaded from a checkpoint and     *)
(* held against a database of what was extracted from each document        *)
(* ("document").  An index run works on a private generation: it opens the *)
(* stores, may switch the backend, indexes files, extracts the graph (a    *)
(* quick refresh does not), and is published whole or not at all.          *)
(***************************************************************************)
EXTENDS GraphIndex

VARIABLES
    backend,    \* backend.json
    documents,  \* derived.sqlite3 and its manifest: a contribution of each path, or None
    stage,      \* the index run: [at, full]
    published,  \* the active generation
    refused     \* why the last run was refused, or None

documentVars == <<docs, written, run, changes, graph, backend, documents, stage, published, refused>>

Backends == {"legacy", "document"}
NoDocuments == [p \in Paths |-> None]
Idle == [at |-> "idle", full |-> FALSE]
Generation(ds, ws, g, b, contributions) ==
    [docs |-> ds, written |-> ws, graph |-> g, backend |-> b, documents |-> contributions]

----------------------------------------------------------------------------
(* Documents and their contributions                                       *)

ChunksOf(p) == {k \in Chunks : k.path = p}
(* source_revision: the row and the chunks, with the metadata revision     *)
(* that wrote them.                                                        *)
Source(p) == <<docs[p], written[p]>>
(* DocumentFeatures: a place for each occurrence, e:0, e:1, .., r:0, ..    *)
Features(p) ==
    <<Cardinality(UNION {{<<k, e>> : e \in EntitiesOf(k)} : k \in ChunksOf(p)}),
      Cardinality(UNION {{<<k, e>> : e \in EdgesOf(k)} : k \in ChunksOf(p)})>>
(* _LegacyV1Extractor                                                      *)
Facts(p) == Extract(ChunksOf(p))
(* materialize_documents: every document is extracted.                     *)
Contribution(p) == [source |-> Source(p), features |-> Features(p), facts |-> Facts(p)]

(* sync and _apply: a stored document whose input looks as before          *)
SameInput(stored, p) == stored[p] # None /\ stored[p].source = Source(p)
(* must have the same places (SourceRevisionConflictError) and the same    *)
(* extraction ("Unchanged input produced different legacy extraction").    *)
Conflicts(stored) == {p \in Current : SameInput(stored, p) /\ stored[p] # Contribution(p)}

(* Mutant: a deleted document keeps its contribution.                      *)
SyncedChangedOnly(stored) ==
    [p \in Paths |-> IF p \in Current /\ ~SameInput(stored, p) THEN Contribution(p) ELSE stored[p]]
(* update_documents, then remove_documents                                 *)
Synced(stored) ==
    [p \in Paths |-> IF p \notin Current THEN None
                     ELSE IF SameInput(stored, p) THEN stored[p] ELSE Contribution(p)]

(* read, and _restore: the occurrences of all the contributions            *)
Stored(contributions) == {contributions[p] : p \in Paths} \ {None}
Restored(contributions) == UNION {c.facts : c \in Stored(contributions)}

----------------------------------------------------------------------------
(* The checkpoint                                                          *)

Live(g) == {r \in g.rows : r.live /\ r.listed}
Content(rows) == {[owner |-> r.owner, confidence |-> r.confidence, aliases |-> r.aliases] : r \in rows}

(* _snapshot_plan: what is listed, with its evidence; opening the store    *)
(* applies it to an empty one.                                             *)
Checkpoint(g) ==
    LET listed == {r \in g.rows : r.listed /\ (r.live \/ \E f \in g.refs : f.owner = r.owner)}
    IN  [rows |-> listed, refs |-> {f \in g.refs : f.owner \in Owners(listed)}, revision |-> g.revision]

(* _validate_collections: the copy has the records of the contributions,   *)
(* and at least their evidence.                                            *)
Validated(g, contributions) ==
    LET found == Restored(contributions)
    IN  /\ Records(found) = Content(Live(g))
        /\ Refs(found) \subseteq {f \in g.refs : f.owner \in Owners(Live(g))}

(* _prune_historical_active_evidence                                       *)
Pruned(g, contributions) ==
    [g EXCEPT !.refs = {f \in @ : f.owner \in Owners(Live(g)) => f \in Refs(Restored(contributions))}]

----------------------------------------------------------------------------
DocumentInit ==
    /\ docs = NoDocuments /\ written = [p \in Paths |-> 0]
    /\ run = 0 /\ changes = None /\ graph = EmptyGraph
    /\ backend = "legacy" /\ documents = NoDocuments
    /\ stage = Idle /\ refused = None
    /\ published = Generation(docs, written, graph, backend, documents)

(* discard: the staged generation is dropped.                              *)
Discard ==
    /\ docs' = published.docs /\ written' = published.written /\ graph' = published.graph
    /\ backend' = published.backend /\ documents' = published.documents
    /\ changes' = None /\ stage' = Idle
    /\ UNCHANGED <<run, published>>

(* Any other failure of a run: the files, the vectors, the hygiene check.  *)
Abandon == stage.at # "idle" /\ Discard /\ refused' = None

Refuse(reason) == Discard /\ refused' = reason

(* apply_reconcile_plan of the document store: a failure poisons the       *)
(* store, so the run is not published.                                     *)
Apply(after, stored, next) ==
    LET synced == Synced(stored)
    IN  IF Conflicts(stored) # {} THEN Refuse("extraction")
        ELSE IF ~Validated(after, synced) THEN Refuse("checkpoint")
        ELSE /\ graph' = Checkpoint(Pruned(after, synced))
             /\ documents' = synced
             /\ backend' = "document" /\ stage' = next /\ changes' = None /\ refused' = None
             /\ UNCHANGED <<docs, written, run, published>>

Opened(full) == [at |-> "open", full |-> full]
OpenAs(g, b, contributions, full) ==
    /\ graph' = g /\ backend' = b /\ documents' = contributions
    /\ stage' = Opened(full) /\ refused' = None
    /\ UNCHANGED <<docs, written, run, changes, published>>

(* _open_index_graph_store without a switch: the checkpoint is loaded and  *)
(* validated; a full run starts a cache anew that does not open.           *)
OpenSame(full) ==
    IF backend = "legacy" \/ Validated(graph, documents) THEN OpenAs(graph, backend, documents, full)
    ELSE IF full THEN OpenAs(EmptyGraph, backend, NoDocuments, full)
    ELSE Refuse("checkpoint")

(* document to legacy: a full run, from an empty graph.sqlite3             *)
OpenLegacy(full) == backend = "document" /\ full /\ OpenAs(EmptyGraph, "legacy", documents, full)

(* legacy to document: the old cache is discarded; unless the run is full, *)
(* bootstrap_from_legacy takes the graph there is, beside the documents    *)
(* of now.                                                                 *)
OpenDocument(full) ==
    /\ backend = "legacy"
    /\ IF full \/ graph.revision = None THEN OpenAs(EmptyGraph, "document", NoDocuments, full)
       ELSE Apply(Checkpoint(graph), NoDocuments, Opened(full))

Open ==
    /\ stage.at = "idle" /\ run < MaxRuns
    /\ \E full \in BOOLEAN : OpenSame(full) \/ OpenLegacy(full) \/ OpenDocument(full)

MetadataStage ==
    /\ stage.at = "open" /\ MetadataRun
    /\ stage' = [stage EXCEPT !.at = "metadata"]
    /\ UNCHANGED <<backend, documents, published, refused>>

GraphStage ==
    /\ stage.at = "metadata"
    /\ LET next == [stage EXCEPT !.at = "graph"]
       IN  IF backend = "document" THEN Apply(WholePlan(stage.full), documents, next)
           ELSE /\ graph' = IF ~stage.full /\ FollowsMetadata THEN DocumentPlan ELSE WholePlan(stage.full)
                /\ changes' = None /\ stage' = next
                /\ UNCHANGED <<docs, written, run, backend, documents, published, refused>>

(* activate; a quick refresh gets here without a graph stage.              *)
Publish ==
    /\ stage.at = "graph" \/ (stage.at = "metadata" /\ ~stage.full)
    /\ published' = Generation(docs, written, graph, backend, documents)
    /\ stage' = Idle /\ changes' = None
    /\ UNCHANGED <<docs, written, run, graph, backend, documents, refused>>

DocumentNext == Open \/ MetadataStage \/ GraphStage \/ Publish \/ Abandon
DocumentSpec == DocumentInit /\ [][DocumentNext]_documentVars

----------------------------------------------------------------------------
InStep == Content(Live(graph)) = Records(Extract(Chunks)) /\ graph.refs = Refs(Extract(Chunks))

(* Under either backend, after any switches, refused runs and quick        *)
(* refreshes, a graph stage that succeeds leaves the records and evidence  *)
(* the files have now (DG-IT-03), and what it wrote can be opened again.   *)
GraphStageServesTheFiles ==
    /\ stage.at = "graph" => InStep
    /\ stage.at = "idle" /\ backend = "document" => Validated(graph, documents)

(* The checks of the document store never stop a run on their own: only a  *)
(* link that resolves otherwise, or a switch of a graph that a quick       *)
(* refresh left behind.                                                    *)
RefusedForAReason == refused = "checkpoint" => backend = "legacy" /\ ~InStep

(* DG-IT-03, and index_service.py:274: a run brings in what changed, with  *)
(* the documents linked to it; it is not refused for that.                 *)
ALinkMayMove == refused # "extraction"
=============================================================================
