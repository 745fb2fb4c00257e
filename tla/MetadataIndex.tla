---------------------------- MODULE MetadataIndex ----------------------------
(***************************************************************************)
(* The metadata stage of an index run (indexing/metadata_indexer.py,       *)
(* indexing/ingestion/{document_authority,session_group}.py and            *)
(* drop_duplicate_exchanges, operation change scan, SQLiteMetadataStore).  *)
(*                                                                         *)
(* A full run reads every file.  An incremental run skips the files whose  *)
(* stat is the recorded one, a quick refresh reads only the files a scan   *)
(* listed; each then reads the provenance families and session groups of   *)
(* what it reads, so that these stay whole.  People edit files meanwhile.  *)
(*                                                                         *)
(* One Vault; paths are numbered in name order.  A file is a page with the *)
(* paths its provenance fields name, or a part of a session (schema 1, 2)  *)
(* with its exchanges.  A chunk is [id, path]: one for a page, one for     *)
(* each exchange.                                                          *)
(***************************************************************************)
EXTENDS Naturals, FiniteSets, FiniteSetsExt

CONSTANTS
    Paths,        \* the paths of the Vault, naturals
    Files,        \* what a path may hold: [links, group, schema, part, exchanges]
    Deniable,     \* paths whose permissions change
    MaxFileEdits, \* bound: edits of files
    MaxFileRuns,  \* bound: index runs
    Nil

(* A page has no session's schema, what it names is a path of the Vault.   *)
IsFile(f) == f.links \subseteq Paths /\ f.part \in Nat /\ (f.group = Nil => f.schema # 2)
ASSUME PathsAssumption == Paths \subseteq Nat
ASSUME FilesAssumption == \A p \in Paths : \A f \in Files[p] : f # Nil /\ IsFile(f)
(* No stamp and no stat: a run saw no file, nothing is recorded.           *)
ASSUME NilAssumption == Nil \notin Nat /\ Nil \notin [stamp : Nat, chunked : BOOLEAN]

VARIABLES
    files,       \* the content of each path, or Nil
    stamp,       \* size and mtime of each path
    unreadable,  \* paths that cannot be opened
    rows,        \* documents, with document_source_stats
    chunks,      \* the chunks table
    scan,        \* a quick refresh's scan that waits for the lock, or Nil
    fileRun,     \* the run that holds the lock, or Nil
    fileEdits, fileRuns,
    overlooked,  \* history: a run did not read a file its result depends on
    covered      \* history: no edit since a whole run that finished began, and no
                 \* quick refresh deleted a file that came back after its scan

metadataVars == <<files, stamp, unreadable, rows, chunks, scan, fileRun, fileEdits, fileRuns, overlooked, covered>>

OnDisk == {p \in Paths : files[p] # Nil}
Live == {p \in Paths : rows[p].state = "live"}
Dead == {p \in Paths : rows[p].state = "dead"}

----------------------------------------------------------------------------
(* Provenance families                                                     *)

Beside(items, p, q) ==
    \/ p \in DOMAIN items /\ q \in items[p].links
    \/ q \in DOMAIN items /\ p \in items[q].links

(* The pages joined to p by the links of the items, the named pages that   *)
(* are not read included: the least set that takes with a page those       *)
(* beside it (assign_provenance_families).                                 *)
NoneBeside(items, S) == \A p \in S, q \in Paths : Beside(items, p, q) => q \in S
Joined(items, p) == {q \in Paths : \A S \in SUBSET Paths : p \in S /\ NoneBeside(items, S) => q \in S}

FamilyOf(items, p) == Min(Joined(items, p))

----------------------------------------------------------------------------
(* Session groups                                                          *)

Whole(items, p, x) == \E e \in items[p].exchanges : e.id = x /\ e.whole
Holders(items, g, x) ==
    {p \in DOMAIN items : items[p].group = g /\ items[p].schema = 2 /\ \E e \in items[p].exchanges : e.id = x}
Before(items, p, q) == items[p].part < items[q].part \/ (items[p].part = items[q].part /\ p < q)

(* drop_duplicate_exchanges: the first whole copy in part order, else the  *)
(* first copy.                                                             *)
Owns(items, p, x) ==
    LET holders == Holders(items, items[p].group, x)
        whole == {q \in holders : Whole(items, q, x)}
        from == IF whole # {} THEN whole ELSE holders
    IN  p \in from /\ \A q \in from \ {p} : Before(items, p, q)

Overlaps(a, b) == (a.from < b.to /\ b.from < a.to) \/ a.from = b.from

(* _reprocess_group: the v1 exchanges that a v2 part of the group holds.   *)
InV2(items, g, incomplete) ==
    LET ofGroup(s) == UNION {items[p].exchanges : p \in {q \in DOMAIN items : items[q].group = g /\ items[q].schema = s}}
    IN  IF g \in incomplete \/ (\E e \in ofGroup(2) : e.from = Nil)
        THEN {}
        ELSE {e \in ofGroup(1) : \E f \in ofGroup(2) : Overlaps(e, f)}

(* The chunk ids of p after reprocess_session_groups.                      *)
ChunkId(file, p, e) ==
    [group |-> IF file.schema = 2 THEN file.group ELSE Nil, file |-> IF file.schema = 2 THEN Nil ELSE p, exchange |-> e]
KeptExchanges(items, p, incomplete) ==
    IF items[p].schema = 2
    THEN {e \in items[p].exchanges : Owns(items, p, e.id)}
    ELSE items[p].exchanges \ InV2(items, items[p].group, incomplete)
ChunkIds(items, p, incomplete) ==
    IF items[p].group = Nil THEN {ChunkId(items[p], p, 0)}
    ELSE {ChunkId(items[p], p, e.id) : e \in KeptExchanges(items, p, incomplete)}

----------------------------------------------------------------------------
(* What a run reads (_load_with_families)                                  *)

StoredIds(p) == {c.id : c \in {d \in chunks : d.path = p}}

(* _family_members, _group_members                                         *)
FamilyMembers(p) ==
    IF rows[p].state = "none" THEN {} ELSE {q \in Live : rows[q].family = rows[p].family}
GroupMembers(g) == {q \in Live : rows[q].file.group = g}

(* A mutant: the group of a deleted or rewritten file is not opened.       *)
GroupsOfContent(p) == (IF p \in OnDisk THEN {files[p].group} ELSE {}) \ {Nil}

LinkedTo(p) == FamilyMembers(p) \cup (IF p \in OnDisk THEN files[p].links ELSE {})
GroupsOf(p) ==
    ((IF p \in OnDisk THEN {files[p].group} ELSE {}) \cup (IF p \in Live THEN {rows[p].file.group} ELSE {})) \ {Nil}
PulledBy(p) == UNION {GroupMembers(g) : g \in GroupsOf(p)}

CannotRead == OnDisk \cap unreadable
(* The worklist, at its end: the least set with the keys and all that the  *)
(* files it can read lead to.                                              *)
NonePending(S) == \A p \in S \ CannotRead : LinkedTo(p) \cup PulledBy(p) \subseteq S
OpenedFiles(keys) == {q \in Paths : \A S \in SUBSET Paths : keys \subseteq S /\ NonePending(S) => q \in S}

(* Only a file that a group alone named may be unreadable.                 *)
MayFail(keys, opened) ==
    opened \cap CannotRead \cap (keys \cup UNION {LinkedTo(p) : p \in opened \ CannotRead})
MustFail(keys, opened) ==
    opened \cap CannotRead \cap (keys \cup (Paths \ UNION {PulledBy(p) : p \in opened \ CannotRead}))
Incomplete(opened) ==
    {g \in UNION {GroupsOf(p) : p \in opened \ CannotRead} : GroupMembers(g) \cap opened \cap CannotRead # {}}

----------------------------------------------------------------------------
(* The steps of a run                                                      *)

(* The precheck of _build_plan: the row is live, the stat is the recorded  *)
(* one and so is the index code, which tells whether there were chunks.    *)
Skippable(p) ==
    /\ p \in Live \cap OnDisk
    /\ rows[p].stat = [stamp |-> stamp[p], chunked |-> StoredIds(p) # {}]

Run(mode, keys, deleted) ==
    [mode |-> mode, keys |-> keys, deleted |-> deleted, seen |-> [p \in Paths |-> IF p \in OnDisk THEN stamp[p] ELSE Nil],
     items |-> Nil, gone |-> {}, incomplete |-> {}, stamps |-> Nil, quiet |-> TRUE]

(* _build_plan up to the read: _stat_files, list_source_stats.             *)
BeginWhole(mode) ==
    /\ fileRun = Nil /\ fileRuns < MaxFileRuns
    /\ fileRun' = Run(mode, IF mode = "full" THEN Paths ELSE (OnDisk \cup Live) \ {p \in Paths : Skippable(p)}, {})
    /\ fileRuns' = fileRuns + 1
    /\ UNCHANGED <<files, stamp, unreadable, rows, chunks, scan, fileEdits, overlooked, covered>>

(* scan_changes: no lock is held.  The scan fails on an unreadable file.   *)
Scan ==
    /\ scan = Nil /\ fileRuns < MaxFileRuns /\ CannotRead = {}
    /\ scan' = [changed |-> {p \in OnDisk : p \notin Live \/ rows[p].file # files[p]}, deleted |-> Live \ OnDisk]
    /\ scan'.changed \cup scan'.deleted # {}
    /\ UNCHANGED <<files, stamp, unreadable, rows, chunks, fileRun, fileEdits, fileRuns, overlooked, covered>>

(* apply_paths, after the lock is taken.                                   *)
BeginPaths ==
    /\ fileRun = Nil /\ scan # Nil /\ fileRuns < MaxFileRuns
    /\ fileRun' = Run("paths", scan.changed, scan.deleted)
    /\ scan' = Nil
    /\ fileRuns' = fileRuns + 1
    /\ UNCHANGED <<files, stamp, unreadable, rows, chunks, fileEdits, overlooked, covered>>

(* The files are read; a stat is taken just before each read, so an edit   *)
(* may come between.  A full run uses the stats it began with.             *)
ReadFiles ==
    /\ fileRun # Nil /\ fileRun.items = Nil
    /\ LET opened == IF fileRun.mode = "full" THEN Paths ELSE OpenedFiles(fileRun.keys)
           read == (opened \cap OnDisk) \ CannotRead
       IN  /\ opened \cap CannotRead # {} => fileRun.mode # "full" /\ MustFail(fileRun.keys, opened) = {}
           /\ \E fresh \in SUBSET {p \in read : stamp[p] # fileRun.seen[p]} :
                /\ fileRun.mode = "full" => fresh = {}
                /\ fileRun' = [fileRun EXCEPT
                     !.items = [p \in read |-> files[p]],
                     !.gone = opened \ OnDisk,
                     !.incomplete = Incomplete(opened),
                     !.stamps = [p \in read |-> IF p \in fresh THEN stamp[p] ELSE fileRun.seen[p]]]
    /\ UNCHANGED <<files, stamp, unreadable, rows, chunks, scan, fileEdits, fileRuns, overlooked, covered>>

(* An unreadable file that no group named stops the run.                   *)
Fail ==
    /\ fileRun # Nil /\ fileRun.items = Nil
    /\ IF fileRun.mode = "full" THEN CannotRead # {} ELSE MayFail(fileRun.keys, OpenedFiles(fileRun.keys)) # {}
    /\ fileRun' = Nil
    /\ UNCHANGED <<files, stamp, unreadable, rows, chunks, scan, fileEdits, fileRuns, overlooked, covered>>

NewRow(p) ==
    [state |-> "live", file |-> fileRun.items[p], family |-> FamilyOf(fileRun.items, p), stat |-> rows[p].stat]
NewIds(p) == ChunkIds(fileRun.items, p, fileRun.incomplete)
(* _changed: the stored row, and for a session file the chunk ids.         *)
FileChanged(p) ==
    \/ fileRun.mode = "full" \/ rows[p] # NewRow(p)
    \/ fileRun.items[p].group # Nil /\ StoredIds(p) # NewIds(p)

(* _build_plan, apply_paths: what is deleted.                              *)
Deleted ==
    (IF fileRun.mode = "paths" THEN fileRun.deleted \cup fileRun.gone ELSE fileRun.keys \ DOMAIN fileRun.items) \cap Live

(* apply_metadata_revision: documents and their chunks, then tombstones.   *)
(* A chunk id of another document is replaced.                             *)
StoredChunks(changed, deleted) ==
    LET new == UNION {{[id |-> i, path |-> p] : i \in NewIds(p)} : p \in changed}
    IN  {c \in {d \in chunks : d.path \notin changed /\ \A n \in new : n.id # d.id} \cup new : c.path \notin deleted}

(* A mutant: the stats are taken when the stage ends.                      *)
StatAtTheEnd(p, ids, deleted) ==
    IF p \in DOMAIN fileRun.items THEN [stamp |-> stamp[p], chunked |-> ids # {}]
    ELSE IF p \in deleted THEN Nil
    ELSE rows[p].stat

(* record_source_stats: the removed, then the read, which so keep theirs.  *)
StoredStat(p, ids, deleted) ==
    IF p \in DOMAIN fileRun.items /\ fileRun.stamps[p] # Nil THEN [stamp |-> fileRun.stamps[p], chunked |-> ids # {}]
    ELSE IF p \in deleted THEN Nil
    ELSE rows[p].stat

StoredRow(p, changed, deleted) ==
    LET row == IF p \in changed THEN NewRow(p) ELSE rows[p]
    IN  [row EXCEPT !.state = IF p \in deleted THEN "dead" ELSE @,
                    !.stat = StoredStat(p, IF p \in DOMAIN fileRun.items THEN NewIds(p) ELSE {}, deleted)]

(* What a run that reads only some files can miss: a deleted file that is  *)
(* there again, a page it leaves that names what a read page is or names,  *)
(* the family or group of a deleted file that it did not open, a group     *)
(* with an unreadable member.                                              *)
Overlooks(deleted) ==
    LET read == DOMAIN fileRun.items
        left == Live \ (read \cup deleted)
        named == read \cup UNION {fileRun.items[p].links : p \in read}
    IN  \/ deleted \cap read # {}
        \/ \E q \in left : rows[q].file.links \cap named # {}
        \/ \E p \in deleted \ fileRun.gone, q \in left :
               q \in FamilyMembers(p) \/ (rows[p].file.group # Nil /\ q \in GroupMembers(rows[p].file.group))
        \/ fileRun.incomplete # {}

(* MetadataIndexer.apply, apply_paths                                      *)
Apply ==
    /\ fileRun # Nil /\ fileRun.items # Nil
    /\ LET changed == {p \in DOMAIN fileRun.items : FileChanged(p)}
       IN  /\ rows' = [p \in Paths |-> StoredRow(p, changed, Deleted)]
           /\ chunks' = StoredChunks(changed, Deleted)
    /\ overlooked' = IF fileRun.mode = "full" THEN FALSE ELSE overlooked \/ Overlooks(Deleted)
    /\ covered' = (fileRun.quiet /\ (fileRun.mode = "paths" => covered /\ fileRun.deleted \cap OnDisk = {}))
    /\ fileRun' = Nil
    /\ UNCHANGED <<files, stamp, unreadable, scan, fileEdits, fileRuns>>

----------------------------------------------------------------------------
(* People and tools                                                        *)

EditFile(p) ==
    /\ fileEdits < MaxFileEdits
    /\ \E f \in Files[p] \cup {Nil} : f # files[p] /\ files' = [files EXCEPT ![p] = f]
    /\ stamp' = [stamp EXCEPT ![p] = @ + 1]
    /\ fileEdits' = fileEdits + 1
    /\ fileRun' = IF fileRun = Nil THEN Nil ELSE [fileRun EXCEPT !.quiet = FALSE]
    /\ covered' = FALSE
    /\ UNCHANGED <<unreadable, rows, chunks, scan, fileRuns, overlooked>>

(* Permissions change: size and mtime stay.                                *)
Permit(p) ==
    /\ files[p] # Nil /\ fileEdits < MaxFileEdits
    /\ unreadable' = IF p \in unreadable THEN unreadable \ {p} ELSE unreadable \cup {p}
    /\ fileEdits' = fileEdits + 1
    /\ UNCHANGED <<files, stamp, rows, chunks, scan, fileRun, fileRuns, overlooked, covered>>

MetadataInit ==
    /\ files \in [Paths -> {Nil} \cup UNION {Files[p] : p \in Paths}]
    /\ \A p \in Paths : files[p] \in Files[p] \cup {Nil}
    /\ stamp = [p \in Paths |-> 0]
    /\ unreadable = {}
    /\ rows = [p \in Paths |-> [state |-> "none", file |-> Nil, family |-> Nil, stat |-> Nil]]
    /\ chunks = {}
    /\ scan = Nil /\ fileRun = Nil
    /\ fileEdits = 0 /\ fileRuns = 0
    /\ overlooked = FALSE /\ covered = FALSE

MetadataNext ==
    \/ \E mode \in {"full", "incremental"} : BeginWhole(mode)
    \/ Scan \/ BeginPaths
    \/ ReadFiles \/ Fail \/ Apply
    \/ \E p \in Paths : EditFile(p)
    \/ \E p \in Deniable : Permit(p)

MetadataSpec == MetadataInit /\ [][MetadataNext]_metadataVars

----------------------------------------------------------------------------
(* Properties                                                              *)

(* What a full run over the present files would store.                     *)
FullFamilies == [p \in OnDisk |-> FamilyOf([q \in OnDisk |-> files[q]], p)]
FullChunks ==
    UNION {{[id |-> i, path |-> p] : i \in ChunkIds([q \in OnDisk |-> files[q]], p, {})} : p \in OnDisk}

(* A file that the next incremental run will skip is indexed as it is on   *)
(* disk: no edit, at whatever moment of a run, leaves a recorded stat that *)
(* hides it.                                                               *)
NoStaleSkip == \A p \in Paths : Skippable(p) => rows[p].file = files[p]

(* When nobody has edited a file since the last whole run began, the index *)
(* is what a full run would store, families and chunks, unless some run    *)
(* since the last full one overlooked a file its result depends on.        *)
IncrementalEqualsFullUnlessOverlooked ==
    covered /\ ~overlooked =>
        /\ Live = OnDisk
        /\ \A p \in OnDisk : rows[p].file = files[p] /\ rows[p].family = FullFamilies[p]
        /\ chunks = FullChunks

(* spec 2026-11-05 A-36: for one state of the Vault an incremental run and *)
(* a full run leave the same chunk ids.                                    *)
IncrementalEqualsFull == covered => {c.id : c \in chunks} = {c.id : c \in FullChunks}
=============================================================================
