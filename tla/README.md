# Vault Graph: specifications, model checking and proofs

Vault Graph indexes folders of Markdown ("Vaults") into a local Data Home and serves
searches, memories and recall to people and agents through a CLI, session hooks, an MCP
server and an HTTP server. Each of these is a process of its own. They share files:
pointer files, generation folders, small JSON logs and lock files. What is hard about the
program is not one algorithm but what these processes do to each other, and what is left
when one of them fails or is killed half-way. This directory holds TLA+ specifications of
those parts, the configurations that check them with TLC, and proofs checked by TLAPS.

Paths below are relative to `src/vault_graph/` of the repository unless they start with
`docs/` or `tests/`.

## 1. The system

| Part | State it keeps | Operations | Talks to |
| --- | --- | --- | --- |
| Publication of generations (`indexing/publication`, `interface/composition/local_index_service_factory.py`) | `projections/generations/<id>/`, `active.json`, `previous.json`, the pointer in `data-home.json`, the flock `.publish.lock` | stage, activate, discard, clean up; commit and close of a run | every index run; readers |
| Readers (`operation/scope/active_projection.py`, `catalog_service.py`, `interface/mcp/mcp_service_factory.py`) | the folder a command found; the services of the MCP server and their generation id | resolve both pointers, open, reopen | publication, without its lock |
| Session start (`interface/cli/hook_commands.py`, `interface/composition/recall_index_refresh.py`) | the flock `session-start-index.lock`, a pipe, `quick-refresh-times.json` | scan, quick refresh, start a catch-up, run `vg index` | publication, retry record |
| Vector retry record (`indexing/vector_failure_log.py`) | `logs/vector-index-failures.json` | record, clear, pending | index runs, catch-up |
| Memory writes (`operation/memory`, `interface/mcp/mcp_memory_tools.py`) | a lock per Vault and a proposal budget per server; the pages themselves belong to the Vault's tool | remember, update, retire, restore, import | the Vault's command line tool |
| Code projection (`project/code`, `storage/local/sqlite_code_projection_store.py`) | `projections/code/active.json`, one SQLite file per generation, the repository catalog | add/remove repository, index, status, queries | source trees, git |
| Index run (`indexing/index_service.py`, `metadata_indexer.py`, `vector_index_adapter.py`, `graph_indexer.py`) | the stores of a staged generation, the embedding cache | metadata, vectors, graph, in this order | publication, local stores |
| Ingestion and extraction (`indexing/ingestion`, `indexing/extraction`) | none | pages and sessions to chunks, entities, relationships | index run |
| Local stores (`storage/local`) | SQLite, Chroma and document graph files of a generation | one transaction per revision | index run, retrieval |
| Retrieval, context, answers, memory views (`retrieval`, `context`) | caches of a process | search, traverse, rank, pack under a token budget | local stores |
| Sessions (`operation/sessions`, capture and export adapters) | exported transcripts | normalize, redact, capture with fallback | launcher, Vault tool |
| Watch, setup, readiness, diagnostics, integration, HTTP (`operation/*`, `interface/http`) | configuration files | loops and reports over the parts above | all of them |
| Packages (`packages/*` of the repository) | none | libraries behind storage and indexing | local stores |

Hard behaviours and what correctness means there:

* **Publication.** Two pointer files cannot be replaced at once; a run may fail, be
  interrupted or die at every step; cleanups remove folders while others read. Correct: one
  run at a time from the first read to the last write; pointers always name whole
  generations; no run's results are lost; exactly two generations are kept; the lock is
  always let go.
* **Readers.** They hold no lock and read the pointers one after the other, in the order
  opposite to the writes. Correct: never a half-published generation; a folder outlives
  one publication; the MCP server ends up on what was published.
* **Session start.** Hook, catch-up and children are three kinds of processes, and any of
  them can be killed. Correct: one catch-up; the hook's refresh is not blocked by its
  own catch-up; an older version never replaces a newer one; nothing is forgotten.
* **Retry record.** It is read, changed and replaced without a lock. Correct: it tells the
  outcomes; a failing Vault is held back for `min(2^(n-1), 24)` hours, and no longer.
* **Memory writes.** Calls run in threads and the Vault's tool may be stopped at a time limit
  with its result unknown. Correct: no call undoes another; a retired page stays retired;
  the proposal budget holds; every call ends.
* **Code projection.** No lock, no cleanup, one pointer; the sources change under the
  scan. Correct: the pointer names a finished database; `fresh` is never said of old
  content; a scoped run leaves other repositories as they are.
* **Index run.** A run skips what did not change and another may have half done its work. Correct:
  nothing recorded hides a changed file; an incremental run leaves what a full one would; vectors of
  removed chunks go whether the vector stage runs, fails or is skipped; the graph is that of the files.
* **Questions.** Every list has a limit, and indexes move between two reads. Correct: an answer names
  only what holds, says what it left out, and is of one revision.
* **Text.** Correct: chunks hold every word of a file once and an edit moves only what is near it; a
  session reaches the Vault once and complete, whichever hooks and exports overlap.

The full list of hazards, each at its line, is in `PROJECT.json`.

## 2. Modules

| Module | Models | Extends |
| --- | --- | --- |
| `PublishedIndex` | what publication promises: one published set of runs that grows by one whole run, or is refused | |
| `ProjectionPublication` | publishers: lock, stage, clone, cleanup, edit, activate, restore, discard, close; interrupts and deaths | |
| `PublicationInvariant` | the inductive invariant, and the refinement mapping to `PublishedIndex` | `ProjectionPublication` |
| `GenerationReaders` | one-shot readers and the MCP server beside the publishers | `ProjectionPublication` |
| `SessionStart` | hooks, catch-ups, their children | |
| `VectorRetry` | the runs that read and replace the retry record | |
| `MemoryWrite` | calls of MCP servers, the budget, the Vault's tool, a person | |
| `MetadataIndex` | the metadata stage: full, incremental and quick runs beside edits | |
| `VectorStage` | the vector stage: embedding and dropping, the table beside the store, the cache, the hygiene gate | |
| `GraphIndex` | extraction and the graph stage on the SQLite graph store | |
| `DocumentGraph` | the graph of a generation under both backends, with switches | `GraphIndex` |
| `CodeProjection` | `vg code index`, `status`, `repository add/remove`, over changing sources | |
| `CodeGraph` | parsers, reference resolution, replacement in the database, code queries | `Ordering` |
| `Search`, `GraphQuery`, `EvidenceLinks` | one search, one graph question, links of evidence, over a generation | `Ordering` |
| `Answers` | the question tools of the MCP server: scopes, context packs, answers, caches | `Ordering` |
| `Recall` | what sessions are told when they start, and the usage log they share | `Ordering` |
| `SessionCapture` | a transcript on its way to the Vault | `Ordering` |
| `Chunking` | files of four formats to chunks | `Ordering` |
| `Curation` | the cleanup bundle and what settles its candidates | `Ordering` |
| `Ordering` | orders and numberings that several modules sort by | |
| `*Proofs` | theorems and proofs; `PublicationProofs`: publication and its readers; `SessionsProofs`: `SessionStart` and `VectorRetry`; `IndexingProofs`: `MetadataIndex` and `VectorStage`; `ServingProofs`: `EvidenceLinks`, `Curation` and `GraphQuery`; `MemoryWriteProofs`, `CodeProjectionProofs` and `RecallProofs`: the module of that name; `OrderingProofs`: lemmas about `Ordering` | the modules they are about, TLAPS |
| `MC*` | instances: contents, symmetry, and the combination of modules into one run | |

Each module is a set of process records, or one process, with one action per step that another
process can see; inside such a step the code's writes are one action. Definitions are named after
the function they stand for, and `PROJECT.json` maps each to its lines. `MCPublishing`,
`MCServing`, `MCSessions`, `MCSessionStart`, `MCIndexing` and `MCServices` check several components in one run:
a variable `part` says whose variables move, and the others stay as they are. The parts do not
interact; their properties are stated as `part = ... => ...` in the MC module.

### ProjectionPublication

A generation id is one that was never used before (`uuid4`), and a run is named by the id
it mints, so `runs[g]` (the runs whose results folder `g` holds) stands for the content of a
generation. `folder[g]` goes from `unused` over `partial` (the clone is being filled) to `complete`
and `absent`. `pc[p]` walks through `stage()` (`waiting`, `read`, `sweep`, `mkdir`, `clone`), the run
itself (`editing`), `_activate_locked()` (`validate`, `previous`, `active`, `home`, `restoreActive`,
`restoreHome`, `collect`), what follows in `commit_projection()` (`published`) and `close()` (`closing`,
`removing`). `Faults` says which failures the environment may inject: `clone` (copying fails),
`write` (a pointer write), `restore` (a write of the restoring handler), `post` (a failure after both pointers
were written), `interrupt` (Ctrl-C, which skips `except Exception`) and `crash` (the process dies and
the kernel drops its lock). The age of a folder is set by the environment. Not modelled:
`rollback()` (called from tests only); a pointer write that raises after its `os.replace`;
`index_service.close()` raising before the discard; a Data Home without `data-home.json`.

### GenerationReaders

`ReadHome` and `CompareActive` are the two reads of `active_projection_layout`. `server` is
`CurrentMcpServices`: `label` is the generation id its services were opened under, `content` the
folder their stores point at, and `newLabel`, `newContent` the same while `open_read_only` runs.
`Publication` is a step of the publishers, which also counts for each reader how often
`previous.json` was replaced since it found its generation: that is the only auxiliary state.

### SessionStart

A Vault is one file with a version; `meta` and `vec` are the versions of which the active
generation holds metadata and vectors. A hook goes through `scan`, `launch`, `spawn`, `refresh`,
`publish`, `release`. `session` is the set of processes that share the locked descriptor of
`session-start-index.lock`: the hook until `Popen`, then only the catch-up. `gate[s]` is the hook that still
holds the write end of the pipe. A publication is one step here, because
`ProjectionPublication` has shown it to be one for readers (`ImplementsPublishedIndex`).
Whether the hook tries a refresh (too many files, two slow runs in a row, out of time, lock taken) is
left open, so the estimate in `quick-refresh-times.json` cannot matter.

### VectorRetry

`job[r].copy` is what a run has read of the file and `Write` replaces the file by it. The
variable `history` (what was recorded, oldest first) and the flag `overtaken` (the file
changed under a run that acts on what it read) exist for the properties only.

### MemoryWrite

A page is the set of calls that contributed to it and its status. `Applied` is what the
Vault's tool makes of a draft: `upsert-page` drafts (remember, update) carry what was read,
`patch-page` drafts change the page as it is by then. `queued` and `unsure` belong to the
properties: the proposals the Vault really queued in the current cleanup, and whether a place
was given back for one that it may have queued, or that belonged to an earlier cleanup.

### MetadataIndex

`rows` and `chunks` are the tables, `files` and `stamp` the files and their mtimes. A run takes the stats
first (`Begin*`), reads (`ReadFiles`, with the families and session groups of what it reads), and writes
all at once (`Apply`); `EditFile` and `Permit` happen in between. `overlooked` and `covered` are history: a
run did not read a file its result depends on (`Overlooks`: it deletes a file that is there again, leaves a page that
names what it read, leaves the family or group of a file it deletes, or has a group with an unreadable member);
nobody edited since the last whole run began. A family (`Joined`) and what a run opens (`OpenedFiles`) are
least closed sets, which is what the union-find and the worklist of the code compute. Left out:
the text of a chunk (`Chunking`), renames of Vaults, warnings.

### VectorStage

A generation is its files, the chunks its metadata shows, its vectors, and the table (`None` for one of an
earlier version). A run works on a copy: `EmbedAll`, `EmbedSome` (the run ends with an error after some
batches) or `DropOnly`, then `Publish`, `Discard` or `Refuse`. `Hides` are files of one session in two
schemas, of which the newer takes the other's place. `computed` is history. A vector's numbers are the
text they embed.

### GraphIndex and DocumentGraph

A document is its frontmatter and chunks with links; `Extract` gives occurrences of entities and
relationships, `GraphRun` reconciles all documents or those that the changed ones touch. `DocumentGraph` adds
`backend.json`, the contributions kept per document, the checkpoint, and the switch of backends. Left
out: wording rules of names, entity types of decision pages.

### CodeProjection and CodeGraph

In `CodeProjection` the files of a repository are one version, HEAD another; `_source_revision` is HEAD alone
when the tree is clean. `ReadFiles` and `AskGit` are two steps, as in the scanner. A generation is
its database record: content and revision per repository, parser version, last marker. A
command that opened one holds a copy of it (`base`), flagged `overtaken` when another activation
came in between. `Gone` is the removal of a folder by the run that owns it. Everything
between opening the active store and the activation happens in a folder nobody else knows
and is one step. `asked` (what the sources held when the status was asked for) serves the
property only.

`CodeGraph` is what such a run writes. A file is a list of declarations and uses, a reference is resolved
by import, by relative name, by member; `Run` replaces the files of a scope and resolves again what the
change can touch; queries traverse the result. Left out: signatures, columns, diagnostics, order and
limit of the text search, the live check of sources, the default git policy.

### Search, GraphQuery, EvidenceLinks, Answers

One question each, step by step over a fixed generation (for `EvidenceLinks`, over stores that change
between its reads). Scores are whole numbers; the orders are those the code sorts by, ties included.
`Answers` keeps the two caches of a server over several calls and a change of the index. Left out:
the wording of summaries, scores of models, argument checks.

### Recall, SessionCapture, Chunking, Curation

`Recall`: overlapping sessions with one usage log; `heard` is the runs whose lines a run has read, and serves the
properties only. A line takes one token. `SessionCapture`: records are kinds without text; left out are times,
cycles of parents, a torn last line, titles. `settled` keeps every reading that was normalized, also one during
which the subagent wrote on and finished (`torn`), except those of a session taken to be over: it may go on.
`Chunking`: a line is its kind, words and text; left out are locators, anchors, the joined text, indented continuations
of list items, page cards, keyword metadata, session files without an id; that an edit stays local is not claimed of
wiki pages, whose windows run over sections. `Curation`: a text and a day are numbers; the append of a page's use may
fail (`lost`); left out are comparison material, several Vaults and briefs, the values of similarities, unparsable
dates, and a usage log that cannot be read, with which no page is called unused. `Chunking` and
`SessionCapture` use recursive operators and have no theorems.

## 3. What is checked

| Run | Bounds | Shows |
| --- | --- | --- |
| `PublicationFaults` | 2 publishers, 4 generations, all faults; transcripts of up to 6 records, 2 runs; files of up to 5 lines | mutual exclusion, no leaked lock, complete pointers, no lost update, two kept, the refinement of `PublishedIndex`; sessions reach the Vault; chunks hold the file |
| `ReadersRetention` | 2 publishers, 3 generations, failing writes, 1 reader, MCP server; the questions of `MCServing` | the previous generation stays whole, readers keep and are handed whole folders; searches, graph queries, links and tools answer faithfully |
| `ReadersFair` | 2 publishers, 2 generations, four faults, MCP server | the label tells the content, the server catches up, the lock is freed |
| `SessionSafety` | 1 Vault, 2 hooks, 2 slots, 3 edits (one a deletion), 2 kills, 1 failure; 2 runs, 2 Vaults, 2 errors, 2 outcomes, 1 fault | one catch-up, the refresh first, no older content; the retry record tells the outcomes and holds back, unless overtaken |
| `SessionLiveness` | 2 Vaults, 1 hook, 2 slots, 1 edit each, 1 kill, 1 failure; 6 pages, 3 sessions of which 2 overlap | nothing is forgotten; each change is told once along the log |
| `Writes` | 1 server with 2 calls at a time, 2 Vaults, 3 writes, an edit, a cleanup, a fault | no write lost, retired stays, the limit, every call ends |
| `Services` | 2 commands, 2 repositories, 2 events; 4 files of 2 repositories, 3 changes; 2 notes, 4 exchanges, up to 4 pages and 3 days | complete pointer, `fresh` is not older than the question, others kept unless overtaken; code queries answer from the files; the cleanup bundle asks for what is left |
| `Indexing` | 3 paths and 3 runs for metadata and graph; 2 Vaults, 2 models, 2 runs for vectors | no stale skip, incremental equals full, the graph serves the files, vectors follow the chunks |
| `PublicationTornCrash`, `CodeAfterRemove`, `VectorQuick`, `DocumentGraphLink` | the smallest instance that shows it | the disagreements of section 5 |

Why the bounds are enough. Two publishers are needed for any interference and a third could
only wait at the same lock. Four generations are needed for a folder to be active, then
previous, then removed while a fourth is staged; with three, the retention of readers already
sees a generation replaced twice. Two overlapping hooks and two slots let a catch-up survive its
hook while the next session starts; three edits with a deletion in the middle let a file go
and come back. Two recorded outcomes suffice for one to be lost under the other. Three writes to one
page, two of them overlapping, allow an update built before a retirement. Two
events in the code model allow an edit and a commit between two reads, or a failing step and an
upgrade. Three paths allow a family that one file splits and two files of one name that a link may
mean; three runs, a wrong leftover that a later run builds on. The questions of `MCServing` were chosen so that
every limit is met and passed. Symmetry is used only in runs without liveness.

Bounds are in the guards (`MaxEdits`, `MaxKills`, `MaxFaults`, `MaxEvents`, ...), or in the size of a constant set
(`Generations`, `Worlds`), and the cfg or the MC module names them all. `CHECK_DEADLOCK FALSE` is set where a system
may rest: all generations used, nothing to do. In `Services` a command can always be started.

Fairness. A process that runs and is not killed takes its next step (`WF` of its own steps,
never of starting a run, of a fault or of an edit). A `vg index` child waits in a blocking
`flock()`, so the kernel wakes it when the lock is freed; a lock that is free again and again is
granted: `SF` of that one action. `ServerCatchesUp` assumes that tools keep being called, and
`NothingForgotten` that sessions keep starting and that retry intervals pass.

Every property is also run against a mutated definition that resembles a plausible slip in the code
(a dropped guard, a lock kept, a comparison of the wrong thing) and fails there; the mutants
stand beside the definitions they replace.

## 4. What is proved

Everything in this section is for any values of the constants, unless an assumption is named. The
constants' own assumptions (finite sets of processes, a "nobody" that is no process, bounds that are
natural numbers) stand in the modules and TLC evaluates them in the runs that extend those.

**`PublicationProofs`** (any publishers, generations and choice of faults), first about `ProjectionPublication`:

* `TypeCorrect`, `MutualExclusion` (`OneRunAtATime`), `LockReleased`, `PointersNameComplete`,
  `StagedIsSafe`, `BaseIsActive`: the safety invariants of the module;
* `TwoKept` and `NothingLost`: the action properties;
* `Implementation`: publication implements `PublishedIndex` under the mapping "applied = the runs
  behind `data-home.json`, torn = the two pointers differ".

None of the invariants is inductive. That pointers name whole folders depends
on what a cleanup may remove, which depends on what the pointers were when its list was
made, which depends on nobody else having moved them since: the lock. `IInv` therefore says of
each publisher, per program point, what it may rely on, in five named parts: `LockInv` (who is
where while the lock is held), `FolderInv` (its folder's state), `DoomedInv` (a cleanup list
never holds a pointer's folder; the one after publication holds all others), `PointerInv` (what
the pointers are between the writes, and that a run that closes with the lock never published) and
`RunsInv` (its folder holds the published runs, plus itself once it succeeded). `RunsExist` adds that
results of a run exist only once its folder does, so a fresh id is really new. One lemma
per group of actions shows that it is preserved. The refinement shows for each action that it is a `Tear`, a
`Replace`, a `Withdraw` or a stutter.

then about `GenerationReaders` (any read commands), on top of that `IInv`:

* `LabelIsTrue` (`LabelTellsTheContent`) and `CompleteIsOpened` (`ReaderOpensComplete`), under every failure;
* `PreviousStays` (`PreviousKept`) and `ReadersKeepTheirFolder` (`ReaderKeepsFolder`), from
  `FailsBeforePublishing`: no fault after both pointers are written. Without it they are false: `close()`
  discards such a run once another has replaced it (section 5). The run that checks them has only
  failing writes for the same reason.

The readers hold no lock, so nothing bounds how old the pointer is that they saw. The argument is that a
generation that left `data-home.json` cannot come back: `Past(g)` says it is published by no
publisher any more, `WasNamed` and `WasHome` say where what the server read may be now, and
`ServerInv` that services opened under a wrong label can never find that label in both pointers.
`KeptInv` adds that no cleanup list holds what `previous.json` names, and `CountInv` ties the number of
replacements since a command found its folder to the two pointers.

**`SessionsProofs`**, about `SessionStart` (any Vaults, hooks, slots and bounds): `SessionTypes`, `CatchUpsDoNotPileUp`
(`OneCatchUp`), `RefreshFirst` (`RefreshGoesFirst`, from the assumption that no hook is slow), and the
action property `OlderIsDeletion` (`NoOlderContent`). `OneCatchUp` is not inductive: a hook that has taken the lock and
not yet started its process would break it beside a live catch-up. `SessionInv` says whose the locked
descriptor is: the one catch-up's, or the hook's that is about to start one. `GateInv` and `GateIdle` say that
a catch-up whose pipe is open has no child, `KnownInv` that neither the index nor a scan knows a version
newer than the file, so that reading a listed file again never publishes an older one; only a
deletion, taken from the scan as it was, can.

and about `VectorRetry` (any runs, Vaults, errors, interval and bounds; `RetryConstants`: the names for "nobody" and
"no error" are no errors, the bounds are numbers):

* `RecordAndCounts` (`FailureRecordIsTrue`), out of `CountsAreEarned`: a Vault is never held back for more
  failures of one kind than were recorded, however the unlocked reads and writes overlap; and `RecordIsTrue`:
  until a run replaces the file under another that has read it, the file tells the last outcomes;
* the action property `FailingVaultsWait` (`HeldBackUnlessOvertaken`): until then the runs of a session start are
  held back; and `RetryTypes`.

A count in a copy that a run holds is bounded by the failures recorded when it was read, and history only grows: that
part needs no order of the runs. For the second, until `overtaken` every copy is the
file. Most of the work is about sequences: how the failures in a row at the end of a history change when
an outcome is appended (`AppendRow`, `NewRow`).

**`MemoryWriteProofs`** (any finite sets of servers and threads, any Vaults and pages):

* `LimitKept` (`ProposalLimitUnlessUnsure`), for any number of servers, and `TypeCorrect`;
* `WritesAdd` (`NoWriteLost`) and `OnlyRestored` (`RetiredStays`), from `OneServer`: the lock of a
  Vault is one per process, and two servers would not share it (accepted in
  `docs/specs/2026-11-02-vault-long-term-memory/spec.md:504`).

The limit is a counting argument, `PlacesInv`: what was queued and the calls that still hold a place (`Held`, a
set whose cardinality each step moves by one) never exceed the places taken. The others rest on `LockInv`
(a call past its Vault lock holds it) and `ReadInv` (what it means to write is built from the page
as it still is, until a person edits).

**`IndexingProofs`**, about `MetadataIndex` (any paths, contents and bounds): `SkipsAreSafe` (`NoStaleSkip`) and
`IncrementalIsFull` (`IncrementalEqualsFullUnlessOverlooked`). For the first: a stat is taken before its file is read, so
it may be older than the content and never newer (`ReadInv`), and stamps grow. The case that needs care is a file that
a run did not see and that appears before it is read: it keeps the recorded stat, which is older
because the file was gone in between (`SeenInv`).

That incremental runs add up to a full one is the invariant `AgreeInv`: but for rows `G` that the next whole run reads or
deletes, because their stat is older than their file (`Stale`), the rows have the families and chunk ids that a full run
over their own files would give them. Rows that were wrong must be told from rows that are only out of date: `G` is
not a variable but claimed to exist, and each run says which rows may be in it afterwards. `OpenInv` says that what a
run opened is closed: whatever the files, families and groups it knows lead to, it opened, unless a group has an
unreadable member. So what it leaves (`Rest`) shares no family, group or chunk id with what it writes (`RestIsApart`,
`JoinedOfRest`, `ChunksAlike`, `IdsApart`), and both parts stay what a full run would store (`ApplyAgree`). The proof is about
least closed sets, so it needs no induction over the worklist. The attempt to prove it found that the
history variable had to say more: a deletion of a file that is there again was not counted as overlooked, and a deleted
row that names a read page was, without need. `Overlooks` now says both.

About `VectorStage` (any finite sets of Vaults, chunks and models, any contents, hiding files and bounds):
`EmbeddingMends` (`EmbeddingLeavesTheChunks`), `StaleIsSeen` (`StaleVectorsAreSeen`), `RefusalsExplained`
(`RefusedOnlyWhenADropMisses`), `NotEmbeddedAgain` (`EmbeddedOnce`) and `GenerationsAreSound`. A generation is
`Sound` when its vectors have ids of their own, keys of the texts they embed, and the table lists
none that the store lacks. Then equal counts mean equal rows, by the cardinality of finite sets, and that is all
`manifest_rows` compares (`ReconciledRows`).

**`CodeProjectionProofs`** (any repositories, commands and bound): `TypeCorrect`, `StatusTold` (`StatusIsTrue`)
and the action property `OthersStay` (`OthersKeptUnlessOvertaken`). There is no lock to argue from. What carries the
proof is that each command keeps its copy of what it opened and `overtaken` tells when the pointer is no longer
that (`BaseInv`, `StagedInv`), and that what a status has read of a repository is not older than its question
(`ReadInv`), which stays true because sources only move forward.

**`ServingProofs`**, about `EvidenceLinks` (any keys, owners, questions and number of updates; `LinkConstants`: owners and Vaults
are numbers, a question has keys and a limit): `LinksOfOneRevision` (`LinksAreOfOneRevision`). `EvidenceInv`,
`FreshInv` and `OutcomeInv` say that what was read counts as long as the revisions are those read first
(`ChunksCount`, `GraphCounts`), and for good once they were read again. That a cut list says so rests on
what the rows are: `SortedOnce` shows that `Sorted` yields each record once, by counting the records before
it (`OrderingProofs`), and `RowsAre` that one row more than the limit tells whether there are more. That a lookup which fails had
its stores changed (`LookUpFails`) needs the readiness check: a fresh Vault's records rest on the chunks.

About `Curation` (any notes, sessions, pages, code, days, limits and thresholds; `CurationConstants`: days, lines and
pages are numbers, two exchanges of a file have lines of their own, and ids of their own when they have any; that two ids of a file begin with the same eight characters is left out):
`BundleIsRight` (`BundleAsksForWhatIsLeft`). The bundle is six lists that are sorted and joined; `ListsOf` and
`ListsJoined` say that such a list has each of its candidates and no thing twice, so that the rest can speak of sets
(`BundleListed`). What an agent dealt with is told by no single store: a note's text is kept as a source or
recorded as reviewed, and the record may fail after the page was written; an exchange is recorded under the key of one of its
copies, or cited by the lines or the id of one. `NotesInv` and `ExchangesInv` say that these traces together are exactly
what was dealt with. They are kept because a citation is of one exchange only (`EvidenceIsOfOne`) and a copy that arrives later
brings no trace of its own (`CitesInv`, `ReviewedInv`). In the bundle the first of several copies stands for
all: it exists since the places of the copies are numbers (`LeastIs`). That a page is called unused neither by a log that was deleted meanwhile
nor by a young one is `UsageInv`: the log holds all uses from some moment on but those whose append failed (`truth.lost`), so one
that reaches back over the window holds the window but for these (`WindowIsLogged`). For an opening that was lost nothing is claimed. A brief comes back because its key tells the decisions it was asked for.

About `GraphQuery` (any entities, relationships, worlds, requests and limits; `QueryConstants`: names, Vaults, ids, types and
confidences are numbers, a relationship's id is its own within the Vault of its source, one that is not deprecated rests on
evidence, a depth is 1 or 2): `QueryAnswersFaithfully` (`GraphAnswersFaithfully`), out of `QueryInv`. What a question reads is
what holds (`FreshAreUpToDate`, `QueryRowsAre`), and all of it unless a warning says that a limit was met (`EverythingRead`). For the
traversal, `GoodWalks` says where it can stand: at the steps of the target, at those of one neighbour, or at its
end. At each place it has examined no more than `Budget`, which is why the bound on examined edges is never exceeded,
and has chosen, of the walks met up to there, the first of each kind (`Kept`). That the answer is the one
of the projection it replaced, also when it is cut, is about two orders: the core ranks a walk by the places of its
steps, the former projection by the keys of what it met. `RanksInOrder` and `WalksInOrder` show that these orders
correspond, so that the same walks are kept (`FirstIsChosen`) and sorted alike (`LegacyListIs`, by `SortedAlike` of `OrderingProofs`).

**`RecallProofs`** (any pages, projects, limits, runs and bounds, whatever of the log cannot be read or written;
`RecallConstants`: pages and Vaults are numbers, limits are of tokens): `EachChangeIsToldOnceAlongTheLog`
(`TellsOnceAlongTheLog`). Three things are claimed and each has its part. The text of a recall fits its limit
and shows a page in one block: `TextFits` and the lemmas about the blocks, of which the hard one is that dropping
the longest block ends, and ends below the limit (`TopIs`, `GreatestIs` of `OrderingProofs`). What earlier
sessions logged changes none of the lists: `ListsWithoutHistory`. And among the runs whose
lines a run has read (`heard`) a page of the last list that does not hold any more is told of, and what one of them told is not told
again; of runs that overlap, or whose lines did not reach the log, nothing is claimed, and they do tell a change twice
(section 5). `LogInv` and `HeardInv` say which events of the log, and of what a run read of it, come from which run, so that what
one told is found by the next; `NoticeInv` is the rest. The lists are filters and
choices, not folds, in the module: that is how they could be reasoned about.

**`OrderingProofs`** has the lemmas about `Ordering` that `ServingProofs` and `RecallProofs` share: `Sorted` yields each
element once and in order, `Top` its first ones; a set of numbers has a least one; tuples that differ are ordered.
Sequences of numbers of any length are ordered too, a part of the same length deciding before what follows it (`LessConcat`),
and two sets whose elements correspond, in orders that correspond, are sorted alike (`SortedAlike`).

TLC checked each of the inductive invariants on an instance before it was proved, but for `QueryInv`: its `GoodWalks` is an
infinite set, and TLC checked only what follows from it.

**Only model-checked.**

* Every liveness property (`LockIsFreed`, `ServerCatchesUp`, `NothingForgotten`, `EveryCallEnds`): fairness and ENABLED
  are out of the prover's reach.
* `GraphServesTheFiles`, `CodeAnswersFaithfully`: each compares the result of a sequence of partial
  computations (occurrences, references) with one over all files, through reconciliations that are sequences of updates; unlike
  the families, they are not stated as least closed sets here, and a proof needs induction over the updates,
  which the prover's library cannot instantiate.
* `SessionReachesTheVault`, `ChunksHoldTheFile`: their modules are recursive over lists of records and lines.
* `SearchAnswersFaithfully`, `RepliesHoldUp`: folding of
  sequences (the folds of the community modules are recursive definitions for the prover).

## 5. Disagreements between code and documents

With a run that exhibits them:

1. `PublicationTornCrash`: a process that dies between the two pointer writes leaves pointers that
   `stage()` itself refuses, so no later index run repairs them, although `docs/SPEC.md:113` says an index that died
   half-way is run again. Readers fail closed, as the comment promises; they stay so.
2. `CodeAfterRemove`: removing an indexed repository changes only the catalog; every later
   `vg code index` fails until it is registered again.
3. `VectorQuick`: a quick refresh of one part of a session removes exchange chunks of another file of it and keeps
   their vectors, so the hygiene check refuses the generation that the docstring says passes it.
4. `DocumentGraphLink`: under the document backend a run is refused when a page that an unchanged page links to
   appears, goes or is renamed.

Met while modelling, not exhibited by a run of their own:

* `local_index_service_factory.py:194`: `close()` discards every run whose `projection_committed` is not set,
  also one that raised after both pointers were written. While it is active, `discard()` refuses;
  once the next run has published it is the previous generation, and is removed, against the
  retention of `docs/SPEC.md:122`. `FailsBeforePublishing` excludes it.
* `projection_generation.py:133`: `previous.json` is written before `active.json`. When the activation then
  fails, it names the active generation and the real previous one is removed by the next cleanup.
* `mcp_service_factory.py:82`: between the two pointer writes reopening raises and the server keeps services whose
  folder may already be gone, when it was not called during the publications before. The next call recovers
  (`ServerCatchesUp`). `mcp_resources.py:398` reads the generation id before its reader's lock.
* `vector_failure_log.py:79`: overlapping runs that record outcomes overwrite each other's entries; a cleared
  entry comes back (`docs/SPEC.md:114`). This is what `overtaken` in `FailureRecordIsTrue` and `HeldBackUnlessOvertaken` excludes.
  `hook_commands.py:275` reads the retry interval before the wait for the publish lock.
* `memory_write_service.py:391`: a proposal stopped at the time limit gives its place back although the Vault may
  have queued it (`vault_publish_cli.py:100`), and a refused proposal of an earlier cleanup gives back a place of the new one
  (line 120). `ProposalLimitUnlessUnsure` excludes both.
* `recall.py:482`: recalls that overlap tell the same change twice, each from the log as it was, and so does
  one that follows a recall whose append failed (line 281); a recall that cannot read the log tells what changed
  lately, told or not (line 235). `TellsOnceAlongTheLog` claims nothing of runs that did not read each other.
* `mcp_resources.py:79`: when the `fetched` line of an opened page cannot be appended, only a warning is printed; if the
  page was shown and no other opening is in the window, the cleanup bundle then calls it unused. `UnusedUnlessLost` excludes it.
* `session_export_files.py:196`: a subagent's file is read before its `meta.json`. When the subagent writes its last
  records and finishes in between, its last exchange is exported as closed without them
  (`claude_code_adapter.py:193`, 215), and a later export closes it with all. `ClosedIsFinalUnlessTorn` excludes that
  exchange only, and only when a later reading has its turns.
* `vault_publish_cli.py:87`: a publish tool that outlives its killed server may apply its draft after the writes of the
  next one. `Die` of `MemoryWrite` ends the tool with the server, so `NoWriteLost` and `RetiredStays` say nothing of it.
* `code_generation.py:105`: of two overlapping scoped runs the last to activate drops the other's update;
  `OthersKeptUnlessOvertaken` excludes it. Folders of earlier code generations, and of code runs that died, are never removed.
* `code_projection_service.py:289`: a clean scoped run marks the whole generation `fresh`, also when another
  repository's last run was partial (design 2026-08-03, line 514). Line 374: after a change of the parser or schema version every
  run, `--full` included, is refused, because the active database is opened before a new one is built.
* Code symbols: a class or function declared twice with the same member gets one identity, and the whole run fails with a
  `ValueError` (`DeclarationsAreToldApart` of `MCServices`; design 2026-08-03, line 387). Only inferred edges are produced,
  and a traversal leaves them out by default, so the default traversal is empty (`ResolvedCallsAreFollowed`; plan of
  round 2, line 27).
* `metadata_indexer.py`: an incremental run leaves other chunk ids than a full one when it overlooked a file its result
  depends on (spec 2026-11-05, A-36; `IncrementalEqualsFull` of `MetadataIndex`).
* Project bindings: once a bound repository is unregistered or a bound Vault disabled,
  `project_binding_catalog.py:46` rejects the whole file, so every `explore_project` and `vg project bind` fails;
  `bind` is an unlocked read, change and replacement through a fixed temporary name.
* Project context: the code state is never `fresh`; lists over 8 items are compacted although `omitted_evidence` counts 0,
  which trimming does not update either; a binding too large for `max_tokens` fails the request.
* Chunkers: the comment at `wiki_page_chunker.py` 41 and the docstring of the v2 chunker (160 tokens, the code 96)
  do not say what the code does; `_empty_section_block` is never reached.
* Left out of the models: the catalog is loaded before the wait for the publish lock
  (`local_index_service_factory.py:217`); `recall_index_refresh.py:276` replaces measured durations without a lock;
  line 374 lets an error escape that ends one catch-up.

## 6. Not modelled, and what is left

Not modelled: rendering and serialization, SQL of the stores (one transaction per revision, taken as atomic), embedding
models, argument checks of the MCP and HTTP interfaces, git and the Vault's tool beyond their outcomes, watch and setup,
the import of auto memory, `rollback()`, the files of scopes and catalogs, and the project context: one request of it
reads bindings, code, graph and memories while each may move, more than one run can hold.

Left to do, in this order: a module that composes the stages of one index
run and is shown to refine the one-step runs of `SessionStart`; `SessionStart` with `VectorRetry`, so that the
interval is the real record; an abstract register that `MemoryWrite` without faults implements; `vg code` liveness
under fair scheduling.
