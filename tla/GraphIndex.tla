------------------------------ MODULE GraphIndex ------------------------------
(***************************************************************************)
(* The graph stage of an index run on the SQLite graph store               *)
(* (indexing/graph_indexer.py, indexing/extraction/*,                      *)
(* storage/local/sqlite_graph_store.py).                                   *)
(*                                                                         *)
(* A run that knows which files the metadata stage wrote re-extracts only  *)
(* the documents these touch; any other run extracts every chunk of the    *)
(* Vault.  Both must leave the same graph.                                 *)
(*                                                                         *)
(* One Vault and one graph scope.  A path is [dir, name]; a link target is *)
(* a path, or a bare file name ([dir |-> None, name |-> n]).  A document   *)
(* is its frontmatter and a set of chunks, a chunk its heading and links.  *)
(***************************************************************************)
EXTENDS Integers, FiniteSetsExt

CONSTANTS
    Paths,     \* [dir, name]
    Contents,  \* [title, aliases, related, tags, chunks]
    MaxRuns,   \* bound: metadata runs
    Widths,    \* bound: how many files each metadata run writes
    None

VARIABLES
    docs,     \* the metadata store: the content of each path, or None
    written,  \* index_revision of the chunks of each path
    run,      \* the last metadata revision
    changes,  \* GraphDocumentChanges the graph has not seen, or None
    graph     \* graph.sqlite3

vars == <<docs, written, run, changes, graph>>

Current == {p \in Paths : docs[p] # None}
Chunks == UNION {{[path |-> p, chunk |-> c] : c \in docs[p].chunks} : p \in Current}

----------------------------------------------------------------------------
(* Extraction                                                              *)

(* resolve_local_document_link: the path itself, or the only file of that  *)
(* name.                                                                   *)
Named(name) == {p \in Current : p.name = name}
Resolve(target) ==
    IF target.dir # None
    THEN Current \cap {target}
    ELSE IF Cardinality(Named(target.name)) = 1 THEN Named(target.name) ELSE {}

Entity(name, path) == [kind |-> "entity", name |-> name, path |-> path]
Edge(type, source, target) == [kind |-> "edge", type |-> type, source |-> source, target |-> target]

(* _document_name: title, else the heading (in its own chunks), else file. *)
DocumentEntity(p, section) ==
    Entity(CASE docs[p].title # None -> docs[p].title
             [] docs[p].title = None /\ section # None -> section
             [] OTHER -> p.name, p)

Confidence == [identity |-> 100, heading |-> 85, tag |-> 80, unresolved |-> 70, link |-> 100, related |-> 100]
EdgeType == [heading |-> "mentions", tag |-> "mentions", unresolved |-> "mentions",
             link |-> "links_to", related |-> "related_to"]
EdgeConfidence == [heading |-> 85, tag |-> 80, unresolved |-> 70, link |-> 95, related |-> 90]
(* The order of the method names in a chunk's sorted entities.             *)
MethodOrder == [related |-> 1, tag |-> 2, heading |-> 3, link |-> 4, unresolved |-> 5]

Document(p, section, method) ==
    [owner |-> DocumentEntity(p, section), method |-> method, aliases |-> docs[p].aliases]
Concept(name, method) == [owner |-> Entity(name, None), method |-> method, aliases |-> {}]

Tags(k) == {Concept(t, "tag") : t \in docs[k.path].tags}
Headings(k) == {Concept(s, "heading") : s \in {k.chunk.section} \ {None}}
Related(k) == {Document(p, None, "related") : p \in UNION {Resolve(t) : t \in docs[k.path].related}}
Links(k) ==
    {Document(p, None, "link") : p \in UNION {Resolve(t) : t \in k.chunk.links}}
    \cup {Concept(t.name, "unresolved") : t \in {u \in k.chunk.links : Resolve(u) = {}}}

(* DeterministicEntityExtractor.extract                                    *)
EntitiesOf(k) ==
    {Document(k.path, k.chunk.section, "identity")} \cup Tags(k) \cup Related(k) \cup Headings(k) \cup Links(k)

(* Of the edges of one type to one entity a chunk keeps the first.         *)
Kept(targets) ==
    {e \in targets : \A f \in targets :
        f.owner = e.owner /\ EdgeType[f.method] = EdgeType[e.method]
            => MethodOrder[e.method] <= MethodOrder[f.method]}

(* DeterministicRelationshipExtractor.extract                              *)
EdgesOf(k) ==
    LET source == DocumentEntity(k.path, k.chunk.section)
    IN  {[owner |-> Edge(EdgeType[e.method], source, e.owner), method |-> e.method, aliases |-> {}]
            : e \in Kept({t \in EntitiesOf(k) : t.method # "identity"})}

(* _entity_evidence_ref, _relationship_evidence_ref: the identity has no   *)
(* part of the text, hash has.                                             *)
EvidenceRef(owner, k) == [owner |-> owner, path |-> k.path, key |-> k.chunk.key, hash |-> k.chunk]

Occurrence(o, k) ==
    [owner |-> o.owner, aliases |-> o.aliases, ref |-> EvidenceRef(o.owner, k),
     confidence |-> IF o.owner.kind = "entity" THEN Confidence[o.method] ELSE EdgeConfidence[o.method]]
(* GraphIndexer._extract                                                   *)
Extract(chunks) == UNION {{Occurrence(o, k) : o \in EntitiesOf(k) \cup EdgesOf(k)} : k \in chunks}

(* _entity_records, _relationship_records: one record of each owner, from  *)
(* all its occurrences.                                                    *)
Owners(occurrences) == {o.owner : o \in occurrences}
Refs(occurrences) == {o.ref : o \in occurrences}
Records(occurrences) ==
    {LET mine == {o \in occurrences : o.owner = w}
     IN  [owner |-> w, confidence |-> Max({o.confidence : o \in mine}), aliases |-> UNION {o.aliases : o \in mine}]
        : w \in Owners(occurrences)}

----------------------------------------------------------------------------
(* The store                                                               *)

EmptyGraph == [rows |-> {}, refs |-> {}, revision |-> None]

RowsOf(owners) == {r \in graph.rows : r.owner \in owners}
(* _evidence_refs_for_owner                                                *)
RefsOf(owners) == {f \in graph.refs : f.owner \in owners}
(* evidence_paths, evidence_owners_by_path                                 *)
EvidencePaths == {f.path : f \in graph.refs}
OwnersByPath(paths) == {f.owner : f \in {g \in graph.refs : g.path \in paths}}
(* owner_statuses, scope_record_counts: what is listed and not retired     *)
LiveRows == {r \in graph.rows : r.live /\ r.listed}
SameRef(f, g) == f.owner = g.owner /\ f.path = g.path /\ f.key = g.key
Kind(set, kind) == {r \in set : r.owner.kind = kind}

(* metadata_index_revision: the revisions of the current chunks            *)
Revisions == {written[p] : p \in Current}

(* _upsert_entity, _upsert_relationship: a row is live or retired, and is  *)
(* listed in the scope or not (_upsert_record_scopes).                     *)
UpsertRow(record) ==
    [owner |-> record.owner, confidence |-> record.confidence, aliases |-> record.aliases,
     live |-> TRUE, listed |-> TRUE, revisions |-> Revisions]
(* _upsert_evidence_ref: one row of each identity                          *)
UpsertRefs(refs, new) == {f \in refs : \A g \in new : ~SameRef(f, g)} \cup new
(* _apply_tombstone_status                                                 *)
Retire(row) == [row EXCEPT !.live = FALSE, !.listed = FALSE]
(* _revision_row, _upsert_revision                                         *)
RevisionRow(entities, edges) == [metadata |-> Revisions, entities |-> entities, edges |-> edges]

(* _write_plan                                                             *)
WritePlan(rows, refs, upserts, refUpserts, tombstones, revision) ==
    [rows |-> {r \in rows : r.owner \notin Owners(upserts) \cup tombstones}
              \cup {UpsertRow(u) : u \in upserts}
              \cup {Retire(r) : r \in {q \in rows : q.owner \in tombstones}},
     refs |-> UpsertRefs(refs, refUpserts),
     revision |-> revision]

----------------------------------------------------------------------------
(* A run over whole scopes                                                 *)

(* current_manifest: the listed rows, retired ones only with evidence      *)
Manifest == {r \in graph.rows : r.listed /\ (r.live \/ RefsOf({r.owner}) # {})}

(* _stale_revision_scopes                                                  *)
StaleScope == graph.revision # None /\ graph.revision.metadata # Revisions

(* _entity_upserts, _relationship_upserts: what is new or looks stale      *)
Upserts(desired, refs, full) ==
    {d \in desired : \A r \in {m \in Manifest : m.owner = d.owner} :
        \/ full \/ StaleScope \/ ~r.live \/ r.revisions # Revisions
        \/ RefsOf({d.owner}) # {f \in refs : f.owner = d.owner}}

(* _tombstones: live rows nothing asks for                                 *)
Tombstones(desired) == {r.owner : r \in {m \in Manifest : m.live}} \ Owners(desired)

(* _remove_superseded_evidence: evidence this run does not have, of the    *)
(* records it writes and of retired ones, which it also unlists.           *)
Retired == {r.owner : r \in {q \in graph.rows : ~q.live}}
Superseded(writes, refs) ==
    {f \in graph.refs : f.owner \in writes \cup Retired /\ \A g \in refs : ~SameRef(f, g)}
Unlisted(superseded) == {w \in Retired \cap Owners(superseded) : RefsOf({w}) \subseteq superseded}

(* _whole_scope_plan and apply_reconcile_plan                              *)
WholePlan(full) ==
    LET found == Extract(Chunks)
        desired == Records(found)
        refs == Refs(found)
        upserts == Upserts(desired, refs, full)
        tombstones == Tombstones(desired)
        superseded == Superseded(Owners(upserts) \cup tombstones, refs)
        rows == {[r EXCEPT !.listed = @ /\ r.owner \notin Unlisted(superseded)] : r \in graph.rows}
    IN  WritePlan(rows, graph.refs \ superseded, upserts, refs, tombstones,
                  RevisionRow(Cardinality(Kind(desired, "entity")), Cardinality(Kind(desired, "edge"))))

----------------------------------------------------------------------------
(* A run over the documents the metadata stage changed                     *)

Touched == changes.changed \cup changes.deleted

(* _graph_follows_metadata: the graph shows the metadata as it was before  *)
(* this run.                                                               *)
FollowsMetadata ==
    /\ graph.revision # None
    /\ Revisions \ {changes.revision} \subseteq graph.revision.metadata
    /\ (EvidencePaths \ Current) \cup (Current \ EvidencePaths) \subseteq Touched

(* _reextracted_paths: the touched documents, those linking to them, and   *)
(* those naming a file that appeared or disappeared.                       *)
DocumentEntityOwners(paths) == {w \in Owners(graph.rows) : w.kind = "entity" /\ w.path \in paths}
Linking == {f.path : f \in RefsOf(DocumentEntityOwners(Touched))}
Names(p) == {t.name : t \in docs[p].related \cup UNION {c.links : c \in docs[p].chunks}}
Moved == {p \in Touched : (p \in EvidencePaths) # (p \in Current)}
Naming == {p \in Current : Names(p) \cap {q.name : q \in Moved} # {}}
(* Mutant: a link that may now resolve differently is not looked for.      *)
ReextractedLinks == Touched \cup Linking
Reextracted == Touched \cup Linking \cup Naming

(* _rebuild_scope: every record these documents had or have evidence for,  *)
(* from all its evidence; what is left without evidence is retired.        *)
Rebuilt ==
    LET paths == Reextracted
        changed == Extract({k \in Chunks : k.path \in paths})
        owners == OwnersByPath(paths) \cup Owners(changed)
        others == {f \in RefsOf(owners) : f.path \notin paths}
        alsoRead == Extract({k \in Chunks : \E f \in others : f.path = k.path /\ f.key = k.chunk.key})
    IN  [owners |-> owners, found |-> changed \cup {o \in alsoRead : o.owner \in owners}]

(* entity_count, relationship_count of a rebuild                           *)
Count(kind, owners, desired) ==
    Cardinality(Kind(LiveRows, kind)) - Cardinality(Kind(LiveRows \cap RowsOf(owners), kind))
        + Cardinality(Kind(desired, kind))

(* _remove_owner_evidence                                                  *)
KeptRefs(owners, refs) == {f \in graph.refs : f.owner \in owners => \E g \in refs : SameRef(f, g)}

(* _document_plan and apply_owner_reconcile_plan                           *)
DocumentPlan ==
    LET rebuilt == Rebuilt
        owners == rebuilt.owners
        desired == Records(rebuilt.found)
        refs == Refs(rebuilt.found)
    IN  WritePlan(graph.rows, KeptRefs(owners, refs), desired, refs \ graph.refs,
                  Owners(LiveRows \cap RowsOf(owners)) \ Owners(desired),
                  RevisionRow(Count("entity", owners, desired), Count("edge", owners, desired)))

----------------------------------------------------------------------------
Init ==
    /\ docs = [p \in Paths |-> None] /\ written = [p \in Paths |-> 0]
    /\ run = 0 /\ changes = None /\ graph = EmptyGraph

(* apply_metadata_revision, told to the graph as _graph_changes.  A file   *)
(* can be written again unchanged (its provenance family is another).      *)
(* Changes the graph never saw are forgotten: the gate has to notice.      *)
MetadataRun ==
    /\ run < MaxRuns
    /\ \E after \in [Paths -> Contents \cup {None}], again \in {{}, Current} :
        LET deleted == {p \in Current : after[p] = None}
            changed == {p \in Paths : after[p] # None /\ (after[p] # docs[p] \/ p \in again)}
        IN  /\ Cardinality(changed \cup deleted) \in Widths[run + 1]
            /\ docs' = after
            /\ run' = run + 1
            /\ written' = [p \in Paths |-> IF p \in changed \cup deleted THEN run' ELSE written[p]]
            /\ changes' = [revision |-> run', changed |-> changed, deleted |-> deleted]
            /\ UNCHANGED graph

(* GraphIndexer.apply.  A failing write leaves the store as it was: the    *)
(* changes stay unseen.                                                    *)
GraphRun ==
    \E full \in BOOLEAN :
        /\ changes # None
        /\ graph' = IF ~full /\ FollowsMetadata THEN DocumentPlan ELSE WholePlan(full)
        /\ changes' = None
        /\ UNCHANGED <<docs, written, run>>

Next == MetadataRun \/ GraphRun
Spec == Init /\ [][Next]_vars

----------------------------------------------------------------------------
TypeOK ==
    /\ docs \in [Paths -> Contents \cup {None}]
    /\ written \in [Paths -> 0..run]
    /\ run \in 0..MaxRuns
    /\ changes # None => changes.revision = run /\ changes.changed \subseteq Current /\ Touched \subseteq Paths
    /\ \A r \in graph.rows : r.live => r.listed

Seen == changes = None

(* A run over the changed documents leaves the graph a run over the whole  *)
(* Vault would: every record with the fields and the evidence all its      *)
(* documents give it, and no other (spec 2026-11-05 4.3.3, A-19).          *)
DocumentRunEqualsFullRun ==
    Seen =>
        /\ {[owner |-> r.owner, confidence |-> r.confidence, aliases |-> r.aliases] : r \in LiveRows}
            = Records(Extract(Chunks))
        /\ graph.refs = Refs(Extract(Chunks))

(* The counts a revision reports are those of the live records of the      *)
(* scope, also when they were counted from the change alone.               *)
CountsAgree ==
    Seen /\ graph.revision # None =>
        /\ graph.revision.entities = Cardinality(Kind(LiveRows, "entity"))
        /\ graph.revision.edges = Cardinality(Kind(LiveRows, "edge"))
=============================================================================
