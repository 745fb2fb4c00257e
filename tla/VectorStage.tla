----------------------------- MODULE VectorStage -----------------------------
(***************************************************************************)
(* The vector stage of an index run (IndexService.run_apply and            *)
(* run_apply_paths, VectorIndexer, plan_index, the manifest table beside   *)
(* the Chroma store, the embedding cache, and the hygiene check of         *)
(* commit_projection).                                                     *)
(*                                                                         *)
(* A run works on a private copy of the active generation and holds the    *)
(* publish lock.  "index" and "full" runs embed; a "skip" run (a Vault     *)
(* that waits out its retry interval) and a "quick" refresh only drop the  *)
(* vectors of chunks they removed.                                         *)
(*                                                                         *)
(* Each chunk comes from a file of its own.  A file may take the place of  *)
(* another's chunk (Hides: a session in both schemas).  A vector is        *)
(* [vault, chunk, spec, input, key, meta]: input is the text it really     *)
(* embeds, key the recorded embedding key (None in a generation written    *)
(* before keys), meta the recorded metadata.                               *)
(***************************************************************************)
EXTENDS Naturals, FiniteSets

CONSTANTS
    Vaults, ChunkKeys,
    Hides,      \* pairs <<c, d>>: while the file of c is there, d is no chunk
    Contents,   \* what a file may hold: [input, meta]
    Specs,      \* embedding models
    MaxEdits,   \* bound: edits of files
    MaxRuns,    \* bound: index runs
    MaxModels,  \* bound: changes of the model
    None

ASSUME FiniteAssumption == IsFiniteSet(Vaults) /\ IsFiniteSet(ChunkKeys) /\ IsFiniteSet(Specs)
ASSUME ContentsAssumption == None \notin Contents /\ \A f \in Contents : f.input # None

VARIABLES
    disk,    \* the files of each Vault
    spec,    \* the selected model
    active,  \* the active generation: [files, shown, vectors, manifest]
    cache,   \* keys in the embedding cache, outside the generations
    run,     \* the run that holds the lock, or None
    edits, runs, models,
    computed \* history: keys computed and cached since a publication that embedded

vars == <<disk, spec, active, cache, run, edits, runs, models, computed>>

Key(s, input) == [spec |-> s, input |-> input]
Id(r) == <<r.vault, r.chunk, r.spec>>
Rows(set, v) == {r \in set : r.vault = v}
Upserted(set, rows) == {r \in set : \A n \in rows : Id(n) # Id(r)} \cup rows

----------------------------------------------------------------------------
(* The metadata stage, as far as vectors see it                            *)

Mates(read) == {d \in ChunkKeys : \E c \in read : <<c, d>> \in Hides \/ <<d, c>> \in Hides}
Shown(files, c) == files[c] # None /\ \A d \in ChunkKeys : <<d, c>> \in Hides => files[d] = None
Changed(v) == {c \in ChunkKeys : active.files[v][c] # disk[v][c]}

(* What a run opens: a quick refresh does not open the groups of the files *)
(* it deletes.                                                             *)
Opened(v, kind, listed) ==
    CASE kind = "full" -> ChunkKeys
      [] kind = "quick" -> listed \cup Mates({c \in listed : disk[v][c] # None})
      [] OTHER -> listed \cup Mates(listed)

Indexed(v, read) ==
    LET files == [c \in ChunkKeys |-> IF c \in read THEN disk[v][c] ELSE active.files[v][c]]
    IN  [active EXCEPT !.files[v] = files,
                       !.shown[v] = (@ \ read) \cup {c \in read : Shown(files, c)}]

----------------------------------------------------------------------------
(* VectorIndexer.plan                                                      *)

(* A mutant: an existing table is trusted.                                 *)
IfMissing(g, v) == IF g.manifest = None THEN Rows(g.vectors, v) ELSE g.manifest

(* manifest_rows: a Vault's rows come from the store when the table is     *)
(* missing or counts otherwise.                                            *)
Reconciled(g, v) ==
    IF g.manifest = None THEN Rows(g.vectors, v)
    ELSE IF Cardinality(Rows(g.manifest, v)) # Cardinality(Rows(g.vectors, v))
         THEN (g.manifest \ Rows(g.manifest, v)) \cup Rows(g.vectors, v)
         ELSE g.manifest

Record(g, v, c, s) ==
    LET file == g.files[v][c]
    IN  [vault |-> v, chunk |-> c, spec |-> s, input |-> file.input, key |-> file.input, meta |-> file.meta]
Desired(g, v, s) == {Record(g, v, c, s) : c \in g.shown[v]}

(* A mutant: the first transition takes every row without a key.           *)
AnyOldKey(row, want) == row.key # None => row.key = want.key

(* _stored_keys: a row without a key has the wanted one when its text is   *)
(* the chunk's.                                                            *)
SameKey(row, want) == IF row.key # None THEN row.key = want.key ELSE row.input = want.input
SameMeta(row, want) == row.key # None /\ row.meta = want.meta
(* plan_index over a snapshot                                              *)
Kept(rows, want) == {r \in rows : Id(r) = Id(want) /\ SameKey(r, want)}
Upserts(rows, wanted, full) == {want \in wanted : full \/ Kept(rows, want) = {}}
MetadataUpdates(rows, wanted, full) ==
    {want \in wanted \ Upserts(rows, wanted, full) : \A r \in Kept(rows, want) : ~SameMeta(r, want)}
Deletions(rows, wanted, full) ==
    {r \in rows : full \/ \A want \in wanted : Id(want) # Id(r) \/ ~SameKey(r, want)}
Missing(g, v, s) == Upserts(Rows(g.vectors, v), Desired(g, v, s), FALSE)

(* VectorIndexer.apply on the store or on the table: tombstones with the   *)
(* first batch, the batches, then the metadata of rows that keep their     *)
(* vector.                                                                 *)
Refreshed(r, updates) ==
    LET u == CHOOSE u \in updates : Id(u) = Id(r)
    IN  IF \E n \in updates : Id(n) = Id(r) THEN [r EXCEPT !.key = u.key, !.meta = u.meta] ELSE r
Applied(set, upserts, updates, deletions) ==
    {Refreshed(r, updates) : r \in Upserted(set \ deletions, upserts)}

Embedded(g, v, s, full) ==
    LET table == Reconciled(g, v)
        wanted == Desired(g, v, s)
        upserts == Upserts(Rows(table, v), wanted, full)
        updates == MetadataUpdates(Rows(table, v), wanted, full)
        deletions == Deletions(Rows(table, v), wanted, full)
    IN  [g EXCEPT !.vectors = Applied(@, upserts, updates, deletions),
                  !.manifest = Applied(table, upserts, updates, deletions)]

(* What goes to the embedding batches of a run.                            *)
ToEmbed(g, v, s, full) ==
    {Key(s, want.input) : want \in Upserts(Rows(Reconciled(g, v), v), Desired(g, v, s), full)}

----------------------------------------------------------------------------
(* Dropping vectors without embedding                                      *)

Dropped(g, gone) ==
    [g EXCEPT !.vectors = @ \ gone, !.manifest = IF @ = None THEN {} ELSE @ \ gone]

(* _drop_removed_chunk_vectors: by the id of the selected model.           *)
RemovedChunkVectors(g, v, removed) == {r \in Rows(g.vectors, v) : r.chunk \in removed /\ r.spec = spec}
(* A mutant: a quick refresh drops as a run that knows the model does.     *)
ListedBySpec(g, v, removed) == {r \in Rows(g.vectors, v) : r.chunk \in removed /\ r.spec = spec}
(* _drop_vectors: every listed row of a removed chunk.                     *)
ListedVectors(g, v, removed) == {r \in Rows(g.vectors, v) : r.chunk \in removed}
(* A run that does not embed; only a quick refresh looks before it writes. *)
Drop(g, v, kind, removed) ==
    IF kind = "quick"
    THEN IF ListedVectors(g, v, removed) = {} THEN g ELSE Dropped(g, ListedVectors(g, v, removed))
    ELSE IF removed = {} THEN g ELSE Dropped(g, RemovedChunkVectors(g, v, removed))

----------------------------------------------------------------------------
(* The steps of a run                                                      *)

(* The metadata stage.  removed is what the vector stage will drop when it *)
(* does not embed: a quick refresh looks at the listed files alone.        *)
Begin(v, kind, listed) ==
    /\ run = None /\ runs < MaxRuns
    /\ LET work == Indexed(v, Opened(v, kind, listed))
           looked == IF kind = "quick" THEN listed ELSE ChunkKeys
       IN  run' = [vault |-> v, kind |-> kind, listed |-> listed, stage |-> "vectors", work |-> work,
                   removed |-> (active.shown[v] \cap looked) \ work.shown[v], embedded |-> FALSE, cacheOk |-> TRUE]
    /\ runs' = runs + 1
    /\ UNCHANGED <<disk, spec, active, cache, edits, models, computed>>

BeginRun ==
    \E v \in Vaults :
        \/ \E kind \in {"index", "full", "skip"} : Begin(v, kind, Changed(v))
        \/ \E listed \in (SUBSET Changed(v)) \ {{}} : Begin(v, "quick", listed)

Embeds == run # None /\ run.stage = "vectors" /\ run.kind \in {"index", "full"}
Misses == ToEmbed(run.work, run.vault, spec, run.kind = "full") \ (IF run.cacheOk THEN cache ELSE {})

(* CachedTextEmbeddings: each batch is saved as it is computed.            *)
Cached(keys) ==
    /\ cache' = IF run.cacheOk THEN cache \cup keys ELSE cache
    /\ computed' = IF run.cacheOk THEN computed \cup keys ELSE computed
(* A mutant: the batches of a run that fails are not saved.                *)
SavedAtTheEnd(keys) == cache' = cache /\ computed' = IF run.cacheOk THEN computed \cup keys ELSE computed
Saved(keys) == Cached(keys)

(* The cache file becomes unusable: the run goes on without it.            *)
CacheFails ==
    /\ Embeds /\ run.cacheOk
    /\ run' = [run EXCEPT !.cacheOk = FALSE]
    /\ UNCHANGED <<disk, spec, active, cache, edits, runs, models, computed>>

(* Every batch is embedded, cached and written.                            *)
EmbedAll ==
    /\ Embeds
    /\ Cached(Misses)
    /\ run' = [run EXCEPT !.stage = "commit", !.embedded = TRUE,
                          !.work = Embedded(@, run.vault, spec, run.kind = "full")]
    /\ UNCHANGED <<disk, spec, active, edits, runs, models>>

(* The model, the store or the table fails, or the process is killed,      *)
(* after some batches: the copy is discarded, the cache is not.            *)
EmbedSome ==
    /\ Embeds
    /\ \E done \in SUBSET Misses : Saved(done)
    /\ run' = None
    /\ UNCHANGED <<disk, spec, active, edits, runs, models>>

(* The plan fails, a skip run, or a quick refresh: drop and go on.         *)
DropOnly ==
    /\ run # None /\ run.stage = "vectors"
    /\ run' = [run EXCEPT !.stage = "commit", !.work = Drop(@, run.vault, run.kind, run.removed)]
    /\ UNCHANGED <<disk, spec, active, cache, edits, runs, models, computed>>

(* A graph failure, the time limit, or a kill.                             *)
Discard ==
    /\ run # None /\ run' = None
    /\ UNCHANGED <<disk, spec, active, cache, edits, runs, models, computed>>

Dangling(g, v) == {r \in Rows(g.vectors, v) : r.chunk \notin g.shown[v]}

(* _prune_embedding_cache                                                  *)
Pruned(g) == IF run.cacheOk THEN cache \cap {Key(r.spec, r.key) : r \in {s \in g.manifest : s.key # None}} ELSE {}

(* commit_projection: the hygiene check of the run's Vault refuses         *)
(* dangling vectors; a run that embedded prunes the cache.                 *)
Publish ==
    /\ run # None /\ run.stage = "commit" /\ Dangling(run.work, run.vault) = {}
    /\ active' = run.work
    /\ cache' = IF run.embedded THEN Pruned(run.work) ELSE cache
    /\ computed' = IF run.embedded THEN {} ELSE computed
    /\ run' = None
    /\ UNCHANGED <<disk, spec, edits, runs, models>>

Refuse ==
    /\ run # None /\ run.stage = "commit" /\ Dangling(run.work, run.vault) # {}
    /\ run' = None
    /\ UNCHANGED <<disk, spec, active, cache, edits, runs, models, computed>>

Edit ==
    /\ edits < MaxEdits
    /\ \E v \in Vaults, c \in ChunkKeys, f \in Contents \cup {None} :
          f # disk[v][c] /\ disk' = [disk EXCEPT ![v][c] = f]
    /\ edits' = edits + 1
    /\ UNCHANGED <<spec, active, cache, run, runs, models, computed>>

(* vg embedding use, between runs                                          *)
UseModel ==
    /\ run = None /\ models < MaxModels
    /\ \E s \in Specs \ {spec} : spec' = s
    /\ models' = models + 1
    /\ UNCHANGED <<disk, active, cache, run, edits, runs, computed>>

(* An empty index, or one of a version before keys and the table.          *)
Init ==
    /\ disk \in [Vaults -> [ChunkKeys -> Contents \cup {None}]]
    /\ spec \in Specs
    /\ LET files == [v \in Vaults |-> [c \in ChunkKeys |-> None]]
           shown == [v \in Vaults |-> {c \in ChunkKeys : Shown(disk[v], c)}]
       IN  \/ active = [files |-> files, shown |-> [v \in Vaults |-> {}], vectors |-> {}, manifest |-> None]
           \/ active = [files |-> disk, shown |-> shown, manifest |-> None,
                        vectors |-> UNION {{[vault |-> v, chunk |-> c, spec |-> spec, input |-> disk[v][c].input,
                                             key |-> None, meta |-> disk[v][c].meta] : c \in shown[v]} : v \in Vaults}]
    /\ cache = {}
    /\ run = None
    /\ edits = 0 /\ runs = 0 /\ models = 0
    /\ computed = {}

Next ==
    \/ BeginRun \/ CacheFails \/ EmbedAll \/ EmbedSome \/ DropOnly
    \/ Discard \/ Publish \/ Refuse \/ Edit \/ UseModel

Spec == Init /\ [][Next]_vars

----------------------------------------------------------------------------
(* Properties                                                              *)

True(g, v, s) == {[vault |-> v, chunk |-> c, spec |-> s, input |-> g.files[v][c].input] : c \in g.shown[v]}
Told(set, v) == {[vault |-> r.vault, chunk |-> r.chunk, spec |-> r.spec, input |-> r.input] : r \in Rows(set, v)}

(* A run that embedded leaves, in the store and in the table beside it,    *)
(* exactly one vector for each chunk of its Vault, of its present text by  *)
(* the selected model, whatever failed, was dropped, was skipped or was    *)
(* written by an earlier version before.                                   *)
EmbeddingLeavesTheChunks ==
    run # None /\ run.embedded =>
        /\ Told(run.work.vectors, run.vault) = True(run.work, run.vault, spec)
        /\ Rows(run.work.manifest, run.vault) = Rows(run.work.vectors, run.vault)

(* A Vault whose active vectors are not as such a run would leave them is  *)
(* reported by vectors_need_catch_up: its plan has something to embed or   *)
(* to delete.                                                              *)
StaleVectorsAreSeen ==
    \A v \in Vaults :
        Told(active.vectors, v) # True(active, v, spec) =>
            \/ Missing(active, v, spec) # {}
            \/ Deletions(Rows(active.vectors, v), Desired(active, v, spec), FALSE) # {}

(* The hygiene check refuses a run only where a drop misses vectors: those *)
(* of an earlier model (a run that does not embed, after a model change),  *)
(* or those of a group member a quick refresh was not asked about.         *)
RefusedOnlyWhenADropMisses ==
    run # None /\ run.stage = "commit" =>
        \A r \in Dangling(run.work, run.vault) :
            \/ r.spec # spec /\ run.kind # "quick" /\ ~run.embedded
            \/ run.kind = "quick" /\ r.chunk \in Mates(run.listed) \ run.listed

(* No text is sent to the model again that an earlier run embedded and the *)
(* cache took, though that run failed: only a publication that embedded    *)
(* forgets it (it prunes the cache to what is published).                  *)
EmbeddedOnce == Embeds /\ run.cacheOk => Misses \cap computed = {}

(* index_service.py:283: the vectors of chunks the listed files no longer  *)
(* have are dropped, so the generation of a quick refresh passes the       *)
(* hygiene check.                                                          *)
QuickRefreshPassesHygiene ==
    run # None /\ run.stage = "commit" /\ run.kind = "quick" => Dangling(run.work, run.vault) = {}
=============================================================================
