---------------------------- MODULE IndexingProofs ----------------------------
(***************************************************************************)
(* Machine-checked proofs about the stages of an index run, for any files, *)
(* Vaults, chunks and models, any contents, and any bounds.                *)
(*                                                                         *)
(* MetadataIndex: the stat a run records for a file never hides a change   *)
(* of it, wherever in a run somebody edits the file.  A run takes the stat *)
(* of a file before it reads it, so the stat may be older than the         *)
(* content, never newer; and stamps only grow.  A file that appeared after *)
(* the run had looked has no stat, and keeps the recorded one: that one is *)
(* older than the file, because the file was gone in between.              *)
(*                                                                         *)
(* VectorStage: a generation is sound when its vectors have ids of their   *)
(* own and keys of the texts they embed, and the table beside the store    *)
(* lists none that the store lacks: then equal counts mean equal rows,     *)
(* which is all that manifest_rows looks at.                               *)
(***************************************************************************)
EXTENDS VectorStage, MetadataIndex, FiniteSetTheorems, TLAPS

(* The records and functions the steps update have the fields they name.   *)
RowFields == {"state", "file", "family", "stat"}
RunFields == {"mode", "keys", "deleted", "seen", "items", "gone", "incomplete", "stamps", "quiet"}
ShapeOK ==
    /\ stamp \in [Paths -> Nat]
    /\ DOMAIN files = Paths
    /\ DOMAIN rows = Paths
    /\ \A p \in Paths : DOMAIN rows[p] = RowFields
    /\ fileRun # Nil =>
        /\ DOMAIN fileRun = RunFields
        /\ fileRun.seen \in [Paths -> Nat \cup {Nil}]
        /\ fileRun.items # Nil => DOMAIN fileRun.items \subseteq Paths

(* A recorded stat is of a content that was there, and when it is the      *)
(* present stat, of the present content.                                   *)
RecordedInv ==
    \A p \in Paths : rows[p].stat # Nil =>
        /\ rows[p].stat.stamp \in Nat /\ rows[p].stat.stamp <= stamp[p]
        /\ rows[p].file # Nil
        /\ rows[p].stat.stamp = stamp[p] => rows[p].file = files[p]

(* What a run saw is not newer than the file; where it saw no file, the    *)
(* recorded stat is older.                                                 *)
SeenInv ==
    fileRun # Nil => \A p \in Paths :
        /\ fileRun.seen[p] # Nil => fileRun.seen[p] <= stamp[p]
        /\ fileRun.seen[p] = Nil /\ rows[p].stat # Nil => rows[p].stat.stamp < stamp[p]

(* The stat of a read file is not newer than what was read.                *)
ReadInv ==
    fileRun # Nil /\ fileRun.items # Nil => \A p \in DOMAIN fileRun.items :
        /\ fileRun.items[p] # Nil
        /\ fileRun.stamps[p] = Nil => fileRun.seen[p] = Nil
        /\ fileRun.stamps[p] # Nil =>
            /\ fileRun.stamps[p] \in Nat /\ fileRun.stamps[p] <= stamp[p]
            /\ fileRun.stamps[p] = stamp[p] => fileRun.items[p] = files[p]

StatInv == ShapeOK /\ RecordedInv /\ SeenInv /\ ReadInv

----------------------------------------------------------------------------
(* The invariant is inductive.                                             *)

LEMMA StatInit == MetadataInit => StatInv
  BY DEF MetadataInit, StatInv, ShapeOK, RowFields, RecordedInv, SeenInv, ReadInv

(* A run begins: it sees the stats of the files that are there.            *)
LEMMA RunBegins ==
    ASSUME StatInv, NEW mode, NEW keys, NEW deleted, fileRun' = Run(mode, keys, deleted),
           UNCHANGED <<files, stamp, rows>>
    PROVE  StatInv'
<1>1. ShapeOK'
  BY DEF StatInv, ShapeOK, Run, RunFields, OnDisk
<1>2. RecordedInv'
  BY DEF StatInv, RecordedInv
<1>3. SeenInv'
  <2> SUFFICES ASSUME NEW p \in Paths
               PROVE  /\ fileRun'.seen[p] # Nil => fileRun'.seen[p] <= stamp[p]
                      /\ fileRun'.seen[p] = Nil /\ rows[p].stat # Nil => rows[p].stat.stamp < stamp[p]
    BY DEF SeenInv
  <2>1. stamp[p] \in Nat
    BY DEF StatInv, ShapeOK
  <2>2. fileRun'.seen[p] = IF files[p] # Nil THEN stamp[p] ELSE Nil
    BY DEF Run, OnDisk
  <2>3. CASE files[p] # Nil
    BY <2>1, <2>2, <2>3, NilAssumption DEF StatInv, RecordedInv
  <2>4. CASE files[p] = Nil
    BY <2>1, <2>2, <2>4 DEF StatInv, RecordedInv
  <2> QED BY <2>3, <2>4
<1>4. ReadInv'
  BY DEF ReadInv, Run
<1> QED BY <1>1, <1>2, <1>3, <1>4 DEF StatInv

(* The files are read: each with a stat that was taken before.             *)
LEMMA ReadStep == ASSUME StatInv, ReadFiles PROVE StatInv'
<1> DEFINE opened == IF fileRun.mode = "full" THEN Paths ELSE OpenedFiles(fileRun.keys)
           read == (opened \cap OnDisk) \ CannotRead
<1>1. /\ fileRun # Nil /\ UNCHANGED <<files, stamp, rows>>
      /\ DOMAIN fileRun = RunFields /\ fileRun.seen \in [Paths -> Nat \cup {Nil}]
  BY DEF ReadFiles, StatInv, ShapeOK
<1>2. PICK fresh \in SUBSET {p \in read : stamp[p] # fileRun.seen[p]} :
        fileRun' = [fileRun EXCEPT !.items = [p \in read |-> files[p]],
                           !.gone = opened \ OnDisk,
                           !.incomplete = Incomplete(opened),
                           !.stamps = [p \in read |-> IF p \in fresh THEN stamp[p] ELSE fileRun.seen[p]]]
  BY DEF ReadFiles
<1>3. read \subseteq Paths /\ \A p \in read : files[p] # Nil
  BY DEF OnDisk
<1> HIDE DEF read, opened
<1>4. /\ DOMAIN fileRun' = RunFields /\ fileRun'.seen = fileRun.seen
      /\ fileRun'.items = [p \in read |-> files[p]]
      /\ fileRun'.stamps = [p \in read |-> IF p \in fresh THEN stamp[p] ELSE fileRun.seen[p]]
  BY <1>1, <1>2 DEF RunFields
<1>5. ShapeOK'
  BY <1>1, <1>3, <1>4 DEF StatInv, ShapeOK
<1>6. RecordedInv' /\ SeenInv'
  BY <1>1, <1>4 DEF StatInv, RecordedInv, SeenInv
<1>7. ReadInv'
  <2> SUFFICES ASSUME NEW p \in read
               PROVE  /\ files[p] # Nil
                      /\ fileRun'.stamps[p] = Nil => fileRun.seen[p] = Nil
                      /\ fileRun'.stamps[p] # Nil => fileRun'.stamps[p] \in Nat /\ fileRun'.stamps[p] <= stamp[p]
    BY <1>1, <1>4 DEF ReadInv
  <2>1. p \in Paths /\ stamp[p] \in Nat /\ fileRun.seen[p] \in Nat \cup {Nil}
    BY <1>1, <1>3 DEF StatInv, ShapeOK
  <2>2. fileRun.seen[p] # Nil => fileRun.seen[p] <= stamp[p]
    BY <1>1, <2>1 DEF StatInv, SeenInv
  <2>3. CASE p \in fresh
    BY <1>3, <1>4, <2>1, <2>3, NilAssumption
  <2>4. CASE p \notin fresh
    BY <1>3, <1>4, <2>1, <2>2, <2>4
  <2> QED BY <2>3, <2>4
<1> QED BY <1>5, <1>6, <1>7 DEF StatInv

(* The rows are written: the stat of a read file goes with what was read.  *)
LEMMA ApplyStep == ASSUME StatInv, Apply PROVE StatInv'
<1> DEFINE changed == {p \in DOMAIN fileRun.items : FileChanged(p)}
<1>1. /\ fileRun # Nil /\ fileRun.items # Nil /\ fileRun' = Nil /\ UNCHANGED <<files, stamp>>
      /\ rows' = [p \in Paths |-> StoredRow(p, changed, Deleted)]
  BY DEF Apply
<1>2. SeenInv' /\ ReadInv'
  BY <1>1 DEF SeenInv, ReadInv
<1>3. ASSUME NEW p \in Paths
      PROVE  /\ DOMAIN rows'[p] = RowFields
             /\ rows'[p].file = IF p \in DOMAIN fileRun.items THEN fileRun.items[p] ELSE rows[p].file
             /\ rows'[p].stat = StoredStat(p, IF p \in DOMAIN fileRun.items THEN NewIds(p) ELSE {}, Deleted)
  <2> DEFINE row == IF p \in changed THEN NewRow(p) ELSE rows[p]
  <2>1. DOMAIN row = RowFields
    BY DEF NewRow, StatInv, ShapeOK, RowFields
  <2>2. row.file = IF p \in DOMAIN fileRun.items THEN fileRun.items[p] ELSE rows[p].file
    BY DEF NewRow, FileChanged
  <2>3. rows'[p] = [row EXCEPT !.state = IF p \in Deleted THEN "dead" ELSE @,
                      !.stat = StoredStat(p, IF p \in DOMAIN fileRun.items THEN NewIds(p) ELSE {}, Deleted)]
    BY <1>1 DEF StoredRow
  <2> HIDE DEF row
  <2> QED BY <2>1, <2>2, <2>3 DEF RowFields
<1>4. ShapeOK'
  BY <1>1, <1>3 DEF StatInv, ShapeOK
<1>5. RecordedInv'
  <2> SUFFICES ASSUME NEW p \in Paths, rows'[p].stat # Nil
               PROVE  /\ rows'[p].stat.stamp \in Nat /\ rows'[p].stat.stamp <= stamp[p]
                      /\ rows'[p].file # Nil
                      /\ rows'[p].stat.stamp = stamp[p] => rows'[p].file = files[p]
    BY <1>1 DEF RecordedInv
  <2>1. CASE p \in DOMAIN fileRun.items /\ fileRun.stamps[p] # Nil
    <3> DEFINE chunked == NewIds(p) # {}
               stat == [stamp |-> fileRun.stamps[p], chunked |-> chunked]
    <3>1. rows'[p].stat = stat /\ rows'[p].file = fileRun.items[p]
      BY <1>3, <2>1 DEF StoredStat
    <3> HIDE DEF chunked
    <3>2. stat.stamp = fileRun.stamps[p]
      OBVIOUS
    <3> HIDE DEF stat
    <3>3. rows'[p].stat.stamp = fileRun.stamps[p] /\ rows'[p].file = fileRun.items[p]
      BY <3>1, <3>2
    <3> QED BY <1>1, <2>1, <3>3 DEF StatInv, ReadInv
  <2>2. CASE ~(p \in DOMAIN fileRun.items /\ fileRun.stamps[p] # Nil)
    <3>1. rows'[p].stat = rows[p].stat
      BY <1>3, <2>2 DEF StoredStat
    <3>2. CASE p \in DOMAIN fileRun.items
      <4>1. fileRun.seen[p] = Nil /\ fileRun.items[p] # Nil /\ rows'[p].file = fileRun.items[p]
        BY <1>1, <1>3, <2>2, <3>2 DEF StatInv, ReadInv
      <4>2. rows[p].stat.stamp < stamp[p]
        BY <1>1, <3>1, <4>1 DEF StatInv, SeenInv
      <4>3. rows[p].stat.stamp \in Nat /\ stamp[p] \in Nat
        BY <3>1 DEF StatInv, RecordedInv, ShapeOK
      <4> QED BY <3>1, <4>1, <4>2, <4>3
    <3>3. CASE p \notin DOMAIN fileRun.items
      BY <1>3, <3>1, <3>3 DEF StatInv, RecordedInv
    <3> QED BY <3>2, <3>3
  <2> QED BY <2>1, <2>2
<1> QED BY <1>2, <1>4, <1>5 DEF StatInv

(* An edit makes every stat that was taken before older than the file.     *)
LEMMA EditStep == ASSUME StatInv, NEW p \in Paths, EditFile(p) PROVE StatInv'
<1>1. /\ rows' = rows /\ DOMAIN files' = Paths
      /\ stamp' = [stamp EXCEPT ![p] = @ + 1]
      /\ \A q \in Paths \ {p} : files'[q] = files[q]
  BY DEF EditFile, StatInv, ShapeOK
<1>2. /\ stamp' \in [Paths -> Nat] /\ stamp'[p] = stamp[p] + 1 /\ stamp[p] \in Nat
      /\ \A q \in Paths \ {p} : stamp'[q] = stamp[q]
  BY <1>1 DEF StatInv, ShapeOK
<1>3. fileRun' = IF fileRun = Nil THEN Nil ELSE [fileRun EXCEPT !.quiet = FALSE]
  BY DEF EditFile
<1>4. fileRun' # Nil =>
        /\ fileRun # Nil /\ DOMAIN fileRun' = RunFields
        /\ fileRun'.seen = fileRun.seen /\ fileRun'.items = fileRun.items /\ fileRun'.stamps = fileRun.stamps
  BY <1>3 DEF StatInv, ShapeOK, RunFields
<1>5. ShapeOK'
  BY <1>1, <1>2, <1>4 DEF StatInv, ShapeOK
<1>6. RecordedInv'
  <2> SUFFICES ASSUME NEW q \in Paths, rows[q].stat # Nil
               PROVE  /\ rows[q].stat.stamp \in Nat /\ rows[q].stat.stamp <= stamp'[q]
                      /\ rows[q].file # Nil
                      /\ rows[q].stat.stamp = stamp'[q] => rows[q].file = files'[q]
    BY <1>1 DEF RecordedInv
  <2>1. /\ rows[q].stat.stamp \in Nat /\ rows[q].stat.stamp <= stamp[q]
        /\ rows[q].file # Nil
        /\ rows[q].stat.stamp = stamp[q] => rows[q].file = files[q]
    BY DEF StatInv, RecordedInv
  <2>2. CASE q = p
    BY <1>2, <2>1, <2>2
  <2>3. CASE q # p
    BY <1>1, <1>2, <2>1, <2>3
  <2> QED BY <2>2, <2>3
<1>7. SeenInv'
  <2> SUFFICES ASSUME fileRun' # Nil, NEW q \in Paths
               PROVE  /\ fileRun.seen[q] # Nil => fileRun.seen[q] <= stamp'[q]
                      /\ fileRun.seen[q] = Nil /\ rows[q].stat # Nil => rows[q].stat.stamp < stamp'[q]
    BY <1>1, <1>4 DEF SeenInv
  <2>1. /\ fileRun.seen[q] \in Nat \cup {Nil}
        /\ fileRun.seen[q] # Nil => fileRun.seen[q] <= stamp[q]
        /\ fileRun.seen[q] = Nil /\ rows[q].stat # Nil => rows[q].stat.stamp < stamp[q]
        /\ rows[q].stat # Nil => rows[q].stat.stamp \in Nat
    BY <1>4 DEF StatInv, SeenInv, RecordedInv, ShapeOK
  <2>2. CASE q = p
    BY <1>2, <2>1, <2>2
  <2>3. CASE q # p
    BY <1>2, <2>1, <2>3
  <2> QED BY <2>2, <2>3
<1>8. ReadInv'
  <2> SUFFICES ASSUME fileRun' # Nil, fileRun.items # Nil, NEW q \in DOMAIN fileRun.items
               PROVE  /\ fileRun.items[q] # Nil
                      /\ fileRun.stamps[q] = Nil => fileRun.seen[q] = Nil
                      /\ fileRun.stamps[q] # Nil =>
                            /\ fileRun.stamps[q] \in Nat /\ fileRun.stamps[q] <= stamp'[q]
                            /\ fileRun.stamps[q] = stamp'[q] => fileRun.items[q] = files'[q]
    BY <1>4 DEF ReadInv
  <2>1. /\ q \in Paths /\ fileRun.items[q] # Nil
        /\ fileRun.stamps[q] = Nil => fileRun.seen[q] = Nil
        /\ fileRun.stamps[q] # Nil =>
              /\ fileRun.stamps[q] \in Nat /\ fileRun.stamps[q] <= stamp[q]
              /\ fileRun.stamps[q] = stamp[q] => fileRun.items[q] = files[q]
    BY <1>4 DEF StatInv, ReadInv, ShapeOK
  <2>2. CASE q = p
    BY <1>2, <2>1, <2>2
  <2>3. CASE q # p
    BY <1>1, <1>2, <2>1, <2>3
  <2> QED BY <2>2, <2>3
<1> QED BY <1>5, <1>6, <1>7, <1>8 DEF StatInv

LEMMA StatSteps == StatInv /\ [MetadataNext]_metadataVars => StatInv'
<1> SUFFICES ASSUME StatInv, [MetadataNext]_metadataVars PROVE StatInv'
  OBVIOUS
<1>1. CASE \E mode \in {"full", "incremental"} : BeginWhole(mode)
  BY <1>1, RunBegins DEF BeginWhole
<1>2. CASE BeginPaths
  BY <1>2, RunBegins DEF BeginPaths
<1>3. CASE ReadFiles
  BY <1>3, ReadStep
<1>4. CASE Apply
  BY <1>4, ApplyStep
<1>5. CASE \E p \in Paths : EditFile(p)
  BY <1>5, EditStep
<1>6. CASE Fail
  BY <1>6 DEF Fail, StatInv, ShapeOK, RecordedInv, SeenInv, ReadInv
<1>7. CASE Scan \/ (\E p \in Deniable : Permit(p)) \/ UNCHANGED metadataVars
  <2>1. UNCHANGED <<files, stamp, rows, fileRun>>
    BY <1>7 DEF Scan, Permit, metadataVars
  <2> QED BY <2>1 DEF StatInv, ShapeOK, RecordedInv, SeenInv, ReadInv
<1> QED BY <1>1, <1>2, <1>3, <1>4, <1>5, <1>6, <1>7 DEF MetadataNext

----------------------------------------------------------------------------
(* The theorems.                                                           *)

THEOREM StatInvariance == MetadataSpec => []StatInv
<1>1. MetadataInit => StatInv
  BY StatInit
<1>2. StatInv /\ [MetadataNext]_metadataVars => StatInv'
  BY StatSteps
<1> QED BY <1>1, <1>2, PTL DEF MetadataSpec

(* The check that lets an incremental run pass over a file (_build_plan's  *)
(* comparison of the recorded stat) never passes over one whose content is *)
(* not the indexed one.                                                    *)
THEOREM SkipsAreSafe == MetadataSpec => []NoStaleSkip
<1>1. StatInv => NoStaleSkip
  <2> SUFFICES ASSUME StatInv, NEW p \in Paths, Skippable(p) PROVE rows[p].file = files[p]
    BY DEF NoStaleSkip
  <2> DEFINE chunked == StoredIds(p) # {}
             stat == [stamp |-> stamp[p], chunked |-> chunked]
  <2>1. rows[p].stat = stat /\ chunked \in BOOLEAN
    BY DEF Skippable
  <2> HIDE DEF chunked
  <2>2. stat \in [stamp : Nat, chunked : BOOLEAN] /\ stat.stamp = stamp[p]
    BY <2>1 DEF StatInv, ShapeOK
  <2> HIDE DEF stat
  <2>3. rows[p].stat # Nil /\ rows[p].stat.stamp = stamp[p]
    BY <2>1, <2>2, NilAssumption
  <2> QED BY <2>3 DEF StatInv, RecordedInv
<1>2. MetadataSpec => []StatInv
  BY StatInvariance
<1> QED BY <1>1, <1>2, PTL

----------------------------------------------------------------------------
(* Incremental runs.                                                       *)

(* What a live row whose file changed since its stat was taken, or has     *)
(* none, cannot hide: the next whole run reads or deletes it.              *)
Stale(p) == rows[p].stat = Nil \/ rows[p].stat.stamp < stamp[p]

(* The rows of S are what a full run over the indexed files of S stores.   *)
IndexedFiles(S) == [p \in S |-> rows[p].file]
Agree(S) ==
    \A p \in S : /\ rows[p].family = FamilyOf(IndexedFiles(S), p)
                 /\ StoredIds(p) = ChunkIds(IndexedFiles(S), p, {})

FileInv ==
    /\ \A p \in OnDisk : IsFile(files[p])
    /\ \A p \in Live : IsFile(rows[p].file)
    /\ fileRun # Nil /\ fileRun.items # Nil => \A p \in DOMAIN fileRun.items : IsFile(fileRun.items[p])

ChunkInv ==
    /\ \A c \in chunks : c = [id |-> c.id, path |-> c.path] /\ c.path \in Live
    /\ \A p \in Live : rows[p].file.group = Nil => StoredIds(p) = {ChunkId(rows[p].file, p, 0)}

(* While nobody edits, a run over the whole Vault has all that it cannot   *)
(* skip among its keys.                                                    *)
PlanInv ==
    fileRun # Nil =>
        /\ fileRun.mode \in {"full", "incremental", "paths"}
        /\ fileRun.mode # "paths" /\ fileRun.quiet => \A p \in (OnDisk \cup Live) \ fileRun.keys : Skippable(p)

(* The files a run opened are all that they lead to, unless a group lacks  *)
(* a member.                                                               *)
Reached == DOMAIN fileRun.items \cup fileRun.gone
Followed(p) ==
    /\ FamilyMembers(p) \subseteq Reached
    /\ p \in Live /\ rows[p].file.group # Nil => GroupMembers(rows[p].file.group) \subseteq Reached
    /\ p \in DOMAIN fileRun.items =>
         /\ fileRun.items[p].links \subseteq Reached
         /\ fileRun.items[p].group # Nil => GroupMembers(fileRun.items[p].group) \subseteq Reached
OpenInv ==
    fileRun # Nil /\ fileRun.items # Nil =>
        /\ fileRun.gone \subseteq Paths /\ DOMAIN fileRun.items \cap fileRun.gone = {}
        /\ fileRun.keys \cap Paths \subseteq Reached
        /\ \A p \in fileRun.gone \cap Live : Stale(p)
        /\ fileRun.incomplete = {} => \A p \in Reached : Followed(p)
        /\ fileRun.mode = "full" => Reached = Paths /\ fileRun.incomplete = {}
        /\ fileRun.quiet => fileRun.gone \cap OnDisk = {} /\ \A p \in DOMAIN fileRun.items : fileRun.items[p] = files[p]

CoveredInv == covered => Live = OnDisk /\ \A p \in OnDisk : rows[p].file = files[p]
AgreeInv == ~overlooked => \E G \in SUBSET {p \in Live : Stale(p)} : Agree(Live \ G) /\ (covered => G = {})
IncInv == FileInv /\ ChunkInv /\ PlanInv /\ OpenInv /\ CoveredInv /\ AgreeInv

----------------------------------------------------------------------------
(* Families, chunk ids.                                                    *)

(* The pages joined to p are the least set that takes p and what is beside. *)
LEMMA JoinedIs ==
    ASSUME NEW items, NEW p \in Paths
    PROVE  /\ p \in Joined(items, p) /\ Joined(items, p) \subseteq Paths /\ NoneBeside(items, Joined(items, p))
           /\ \A S \in SUBSET Paths : p \in S /\ NoneBeside(items, S) => Joined(items, p) \subseteq S
<1>1. p \in Joined(items, p) /\ Joined(items, p) \subseteq Paths
  BY DEF Joined
<1>2. \A S \in SUBSET Paths : p \in S /\ NoneBeside(items, S) => Joined(items, p) \subseteq S
  BY DEF Joined
<1>3. ASSUME NEW a \in Joined(items, p), NEW q \in Paths, Beside(items, a, q) PROVE q \in Joined(items, p)
  <2> SUFFICES ASSUME NEW S \in SUBSET Paths, p \in S, NoneBeside(items, S) PROVE q \in S
    BY DEF Joined
  <2>1. a \in S
    BY <1>2
  <2> QED BY <1>3, <2>1 DEF NoneBeside
<1>4. NoneBeside(items, Joined(items, p))
  BY <1>3 DEF NoneBeside
<1> QED BY <1>1, <1>2, <1>4

(* Links join both ways.                                                   *)
LEMMA BesideBack == ASSUME NEW items, NEW p, NEW q, Beside(items, p, q) PROVE Beside(items, q, p)
  BY DEF Beside

(* Every page of a family has the same pages joined to it.                 *)
LEMMA JoinedSame ==
    ASSUME NEW items, NEW p \in Paths, NEW s \in Joined(items, p)
    PROVE  Joined(items, s) = Joined(items, p)
<1> DEFINE J == Joined(items, p)
           K == Joined(items, s)
<1>1. /\ p \in J /\ J \subseteq Paths /\ NoneBeside(items, J)
      /\ \A S \in SUBSET Paths : p \in S /\ NoneBeside(items, S) => J \subseteq S
  BY JoinedIs
<1>2. s \in Paths
  BY <1>1
<1>3. /\ s \in K /\ K \subseteq Paths /\ NoneBeside(items, K)
      /\ \A S \in SUBSET Paths : s \in S /\ NoneBeside(items, S) => K \subseteq S
  BY <1>2, JoinedIs
<1>4. s \in J
  OBVIOUS
<1> HIDE DEF J, K
<1>5. K \subseteq J
  BY <1>1, <1>3, <1>4
<1>6. p \in K
  <2> SUFFICES ASSUME p \notin K PROVE FALSE
    OBVIOUS
  <2>1. ASSUME NEW a \in J \ K, NEW q \in Paths, Beside(items, a, q) PROVE q \in J \ K
    <3>1. q \in J
      BY <1>1, <2>1 DEF NoneBeside
    <3>2. a \in Paths /\ Beside(items, q, a)
      BY <1>1, <2>1, BesideBack
    <3> QED BY <1>3, <3>1, <3>2 DEF NoneBeside
  <2>2. J \ K \in SUBSET Paths /\ NoneBeside(items, J \ K)
    BY <1>1, <2>1 DEF NoneBeside
  <2>3. J \subseteq J \ K
    BY <1>1, <2>2
  <2> QED BY <1>3, <1>4, <2>3
<1>7. J \subseteq K
  BY <1>1, <1>3, <1>6
<1> QED BY <1>5, <1>7 DEF J, K

(* Items that agree about a set of pages that nothing leaves join the same.*)
LEMMA JoinedAlike ==
    ASSUME NEW one, NEW two, NEW T \in SUBSET Paths, NEW p \in T, NoneBeside(one, T),
           \A a \in T, q \in Paths : Beside(one, a, q) <=> Beside(two, a, q)
    PROVE  Joined(one, p) = Joined(two, p)
<1> DEFINE J == Joined(one, p)
           K == Joined(two, p)
<1>1. p \in Paths
  OBVIOUS
<1>2. /\ p \in J /\ J \subseteq Paths /\ NoneBeside(one, J)
      /\ \A S \in SUBSET Paths : p \in S /\ NoneBeside(one, S) => J \subseteq S
  BY <1>1, JoinedIs
<1>3. /\ p \in K /\ K \subseteq Paths /\ NoneBeside(two, K)
      /\ \A S \in SUBSET Paths : p \in S /\ NoneBeside(two, S) => K \subseteq S
  BY <1>1, JoinedIs
<1> HIDE DEF J, K
<1>4. J \subseteq T
  BY <1>2
<1>5. NoneBeside(two, J)
  BY <1>2, <1>4 DEF NoneBeside
<1>6. K \subseteq J
  BY <1>2, <1>3, <1>5
<1>7. NoneBeside(one, K)
  BY <1>3, <1>4, <1>6 DEF NoneBeside
<1> QED BY <1>2, <1>3, <1>6, <1>7 DEF J, K

(* The chunks of a file rest on the files of its group.                    *)
LEMMA ChunksAlike ==
    ASSUME NEW one, NEW two, NEW p \in DOMAIN one \cap DOMAIN two, one[p] = two[p],
           one[p].group # Nil =>
             \A q : /\ q \in DOMAIN one /\ one[q].group = one[p].group <=> q \in DOMAIN two /\ two[q].group = one[p].group
                    /\ q \in DOMAIN one /\ one[q].group = one[p].group => one[q] = two[q]
    PROVE  ChunkIds(one, p, {}) = ChunkIds(two, p, {})
<1>1. CASE one[p].group = Nil
  BY <1>1 DEF ChunkIds
<1>2. CASE one[p].group # Nil
  <2> DEFINE g == one[p].group
             Of(items, s) == {q \in DOMAIN items : items[q].group = g /\ items[q].schema = s}
  <2>1. \A x : Holders(one, g, x) = Holders(two, g, x) /\ \A q \in Holders(one, g, x) : one[q] = two[q]
    BY <1>2 DEF Holders
  <2>2. \A s : Of(one, s) = Of(two, s) /\ \A q \in Of(one, s) : one[q] = two[q]
    BY <1>2
  <2>3. InV2(one, g, {}) = InV2(two, g, {})
    <3>1. \A s : UNION {one[q].exchanges : q \in Of(one, s)} = UNION {two[q].exchanges : q \in Of(two, s)}
      <4> SUFFICES ASSUME NEW s PROVE {one[q].exchanges : q \in Of(one, s)} = {two[q].exchanges : q \in Of(two, s)}
        OBVIOUS
      <4>1. Of(one, s) = Of(two, s) /\ \A q \in Of(one, s) : one[q].exchanges = two[q].exchanges
        BY <2>2
      <4> HIDE DEF Of
      <4> QED BY <4>1
    <3> QED BY <3>1 DEF InV2
  <2>4. \A x : Owns(one, p, x) <=> Owns(two, p, x)
    <3> SUFFICES ASSUME NEW x PROVE Owns(one, p, x) <=> Owns(two, p, x)
      OBVIOUS
    <3> DEFINE H == Holders(one, g, x)
               W(items) == {q \in H : Whole(items, q, x)}
    <3>1. Holders(two, two[p].group, x) = H /\ \A q \in H : one[q] = two[q]
      BY <2>1
    <3>2. W(one) = W(two)
      BY <3>1 DEF Whole
    <3> DEFINE from == IF W(one) # {} THEN W(one) ELSE H
    <3>3. \A q \in from : one[q] = two[q]
      BY <3>1
    <3>4. Owns(one, p, x) <=> p \in from /\ \A q \in from \ {p} : Before(one, p, q)
      BY DEF Owns
    <3>5. Owns(two, p, x) <=> p \in from /\ \A q \in from \ {p} : Before(two, p, q)
      BY <3>1, <3>2 DEF Owns
    <3> HIDE DEF from
    <3> QED BY <3>3, <3>4, <3>5 DEF Before
  <2>5. KeptExchanges(one, p, {}) = KeptExchanges(two, p, {})
    BY <2>3, <2>4 DEF KeptExchanges
  <2> QED BY <2>5 DEF ChunkIds
<1> QED BY <1>1, <1>2

(* Ids of different files are different: of sessions by the group, or the  *)
(* file that owns the exchange.                                            *)
LEMMA IdNames ==
    ASSUME NEW items, NEW p \in DOMAIN items, IsFile(items[p]), NEW incomplete, NEW i \in ChunkIds(items, p, incomplete)
    PROVE  IF items[p].schema = 2
           THEN /\ i.group = items[p].group /\ items[p].group # Nil /\ i.file = Nil
                /\ Owns(items, p, i.exchange)
           ELSE i.group = Nil /\ i.file = p
<1>1. CASE items[p].group = Nil
  BY <1>1 DEF ChunkIds, ChunkId, IsFile
<1>2. CASE items[p].group # Nil
  <2>1. PICK e \in KeptExchanges(items, p, incomplete) : i = ChunkId(items[p], p, e.id)
    BY <1>2 DEF ChunkIds
  <2>2. /\ i.exchange = e.id
        /\ i.group = IF items[p].schema = 2 THEN items[p].group ELSE Nil
        /\ i.file = IF items[p].schema = 2 THEN Nil ELSE p
    BY <2>1 DEF ChunkId
  <2> QED BY <1>2, <2>1, <2>2 DEF KeptExchanges
<1> QED BY <1>1, <1>2

(* Files of different groups have no chunk id in common.                   *)
LEMMA IdsApart ==
    ASSUME NEW one, NEW two, NEW p \in DOMAIN one, NEW q \in DOMAIN two, p # q, p \in Paths, q \in Paths,
           IsFile(one[p]), IsFile(two[q]), NEW inOne, NEW inTwo, one[p].group # two[q].group \/ one[p].group = Nil
    PROVE  ChunkIds(one, p, inOne) \cap ChunkIds(two, q, inTwo) = {}
<1> SUFFICES ASSUME NEW i \in ChunkIds(one, p, inOne), i \in ChunkIds(two, q, inTwo) PROVE FALSE
  OBVIOUS
<1>1. Nil # p /\ Nil # q
  BY NilAssumption, PathsAssumption
<1>2. IF one[p].schema = 2
      THEN i.group = one[p].group /\ one[p].group # Nil /\ i.file = Nil
      ELSE i.group = Nil /\ i.file = p
  BY IdNames
<1>3. IF two[q].schema = 2
      THEN i.group = two[q].group /\ two[q].group # Nil /\ i.file = Nil
      ELSE i.group = Nil /\ i.file = q
  BY IdNames
<1> QED BY <1>1, <1>2, <1>3

(* Two files of one run have no chunk id in common: of the copies of an    *)
(* exchange one is kept.                                                   *)
LEMMA IdsOfOne ==
    ASSUME NEW items, DOMAIN items \subseteq Paths, \A r \in DOMAIN items : IsFile(items[r]),
           NEW p \in DOMAIN items, NEW q \in DOMAIN items, p # q, NEW incomplete
    PROVE  ChunkIds(items, p, incomplete) \cap ChunkIds(items, q, incomplete) = {}
<1> SUFFICES ASSUME NEW i \in ChunkIds(items, p, incomplete), i \in ChunkIds(items, q, incomplete) PROVE FALSE
  OBVIOUS
<1>1. Nil # p /\ Nil # q /\ p \in Nat /\ q \in Nat /\ items[p].part \in Nat /\ items[q].part \in Nat
  BY NilAssumption, PathsAssumption DEF IsFile
<1>2. IF items[p].schema = 2
      THEN /\ i.group = items[p].group /\ items[p].group # Nil /\ i.file = Nil
           /\ Owns(items, p, i.exchange)
      ELSE i.group = Nil /\ i.file = p
  BY IdNames
<1>3. IF items[q].schema = 2
      THEN /\ i.group = items[q].group /\ items[q].group # Nil /\ i.file = Nil
           /\ Owns(items, q, i.exchange)
      ELSE i.group = Nil /\ i.file = q
  BY IdNames
<1>4. /\ items[p].group = items[q].group
      /\ Owns(items, p, i.exchange) /\ Owns(items, q, i.exchange)
  BY <1>1, <1>2, <1>3
<1>5. Before(items, p, q) /\ Before(items, q, p)
  BY <1>4 DEF Owns
<1> QED BY <1>1, <1>5 DEF Before

----------------------------------------------------------------------------
(* What a run writes.                                                      *)

Loaded == DOMAIN fileRun.items
ToChange == {p \in Loaded : FileChanged(p)}

(* What a run writes of each file.                                         *)
LEMMA RowsWritten ==
    ASSUME StatInv, Apply
    PROVE  /\ fileRun # Nil /\ fileRun.items # Nil /\ fileRun' = Nil /\ Loaded \subseteq Paths
           /\ UNCHANGED <<files, stamp, scan>>
           /\ \A p \in Paths :
                /\ rows'[p].file = IF p \in Loaded THEN fileRun.items[p] ELSE rows[p].file
                /\ rows'[p].family = IF p \in Loaded THEN FamilyOf(fileRun.items, p) ELSE rows[p].family
                /\ rows'[p].state = IF p \in Deleted THEN "dead" ELSE IF p \in Loaded THEN "live" ELSE rows[p].state
                /\ p \notin Loaded \cup Deleted => rows'[p].stat = rows[p].stat
<1>1. /\ fileRun # Nil /\ fileRun.items # Nil /\ fileRun' = Nil /\ UNCHANGED <<files, stamp, scan>>
      /\ rows' = [p \in Paths |-> StoredRow(p, ToChange, Deleted)]
  BY DEF Apply, ToChange, Loaded
<1>2. Loaded \subseteq Paths
  BY <1>1 DEF StatInv, ShapeOK, Loaded
<1>3. ASSUME NEW p \in Paths
      PROVE  /\ rows'[p].file = IF p \in Loaded THEN fileRun.items[p] ELSE rows[p].file
             /\ rows'[p].family = IF p \in Loaded THEN FamilyOf(fileRun.items, p) ELSE rows[p].family
             /\ rows'[p].state = IF p \in Deleted THEN "dead" ELSE IF p \in Loaded THEN "live" ELSE rows[p].state
             /\ p \notin Loaded \cup Deleted => rows'[p].stat = rows[p].stat
  <2> DEFINE row == IF p \in ToChange THEN NewRow(p) ELSE rows[p]
             stat == StoredStat(p, IF p \in DOMAIN fileRun.items THEN NewIds(p) ELSE {}, Deleted)
  <2>1. DOMAIN row = RowFields
    BY DEF NewRow, StatInv, ShapeOK, RowFields
  <2>2. /\ row.file = IF p \in Loaded THEN fileRun.items[p] ELSE rows[p].file
        /\ row.family = IF p \in Loaded THEN FamilyOf(fileRun.items, p) ELSE rows[p].family
        /\ row.state = IF p \in Loaded THEN "live" ELSE rows[p].state
    BY DEF NewRow, FileChanged, ToChange
  <2>3. rows'[p] = [row EXCEPT !.state = IF p \in Deleted THEN "dead" ELSE @, !.stat = stat]
    BY <1>1 DEF StoredRow
  <2>4. p \notin Loaded \cup Deleted => stat = rows[p].stat
    BY DEF StoredStat, Loaded
  <2> HIDE DEF row, stat
  <2> QED BY <2>1, <2>2, <2>3, <2>4 DEF RowFields
<1> QED BY <1>1, <1>2, <1>3

(* The documents after a run: those before and those read, less the deleted. *)
LEMMA LiveWritten == ASSUME StatInv, Apply PROVE Live' = (Live \cup Loaded) \ Deleted
<1>1. /\ Loaded \subseteq Paths
      /\ \A p \in Paths :
           rows'[p].state = IF p \in Deleted THEN "dead" ELSE IF p \in Loaded THEN "live" ELSE rows[p].state
  BY RowsWritten
<1> QED BY <1>1 DEF Live

(* The chunks after a run.                                                 *)
LEMMA ChunksWritten ==
    ASSUME StatInv, ChunkInv, Apply
    PROVE  /\ \A p \in Paths :
                StoredIds(p)' = IF p \in Deleted THEN {}
                                ELSE IF p \in ToChange THEN NewIds(p)
                                ELSE {i \in StoredIds(p) : \A r \in ToChange : i \notin NewIds(r)}
           /\ \A c \in chunks' : c = [id |-> c.id, path |-> c.path] /\ c.path \in Live'
<1> DEFINE new == UNION {{[id |-> i, path |-> p] : i \in NewIds(p)} : p \in ToChange}
           kept == {d \in chunks : d.path \notin ToChange /\ \A n \in new : n.id # d.id}
<1>1. chunks' = {c \in kept \cup new : c.path \notin Deleted}
  BY DEF Apply, StoredChunks, ToChange, Loaded
<1>2. \A c \in chunks : c = [id |-> c.id, path |-> c.path] /\ c.path \in Live
  BY DEF ChunkInv
<1>3. \A n : n \in new <=> \E p \in ToChange : \E i \in NewIds(p) : n = [id |-> i, path |-> p]
  OBVIOUS
<1> HIDE DEF new
<1>8. /\ \A n \in new : n.path \in ToChange /\ n.id \in NewIds(n.path) /\ n = [id |-> n.id, path |-> n.path]
      /\ \A p \in ToChange : \A i \in NewIds(p) : \E n \in new : n.id = i /\ n.path = p
  <2>1. ASSUME NEW n \in new PROVE n.path \in ToChange /\ n.id \in NewIds(n.path) /\ n = [id |-> n.id, path |-> n.path]
    BY <1>3
  <2>2. ASSUME NEW p \in ToChange, NEW i \in NewIds(p) PROVE \E n \in new : n.id = i /\ n.path = p
    <3>1. [id |-> i, path |-> p] \in new
      BY <1>3
    <3> QED BY <3>1
  <2> QED BY <2>1, <2>2
<1>4. \A d \in chunks : d \in kept <=> d.path \notin ToChange /\ \A r \in ToChange : d.id \notin NewIds(r)
  <2> SUFFICES ASSUME NEW d \in chunks
               PROVE  (\A n \in new : n.id # d.id) <=> (\A r \in ToChange : d.id \notin NewIds(r))
    OBVIOUS
  <2>1. ASSUME NEW n \in new, n.id = d.id PROVE \E r \in ToChange : d.id \in NewIds(r)
    BY <1>8, <2>1
  <2>2. ASSUME NEW r \in ToChange, d.id \in NewIds(r) PROVE \E n \in new : n.id = d.id
    BY <1>8, <2>2
  <2> QED BY <2>1, <2>2
<1>5. kept \subseteq chunks
  OBVIOUS
<1> HIDE DEF kept
<1>6. ASSUME NEW p \in Paths
      PROVE  StoredIds(p)' = IF p \in Deleted THEN {}
                             ELSE IF p \in ToChange THEN NewIds(p)
                             ELSE {i \in StoredIds(p) : \A r \in ToChange : i \notin NewIds(r)}
  <2>1. \A i : i \in StoredIds(p)' <=> \E c \in chunks' : c.path = p /\ c.id = i
    BY DEF StoredIds
  <2>2. \A i : i \in StoredIds(p) <=> \E c \in chunks : c.path = p /\ c.id = i
    BY DEF StoredIds
  <2>3. CASE p \in Deleted
    BY <1>1, <2>1, <2>3
  <2>4. CASE p \notin Deleted /\ p \in ToChange
    <3>1. \A i : i \in NewIds(p) <=> \E c \in new : c.path = p /\ c.id = i
      BY <1>8, <2>4
    <3>2. \A c \in kept : c.path # p
      BY <1>4, <1>5, <2>4
    <3>3. \A c : c \in chunks' /\ c.path = p <=> c \in new /\ c.path = p
      BY <1>1, <2>4, <3>2
    <3> QED BY <2>1, <2>4, <3>1, <3>3
  <2>5. CASE p \notin Deleted /\ p \notin ToChange
    <3>1. \A c \in new : c.path # p
      BY <1>8, <2>5
    <3>2. \A c : c \in chunks' /\ c.path = p <=> c \in chunks /\ c.path = p /\ \A r \in ToChange : c.id \notin NewIds(r)
      BY <1>1, <1>4, <1>5, <2>5, <3>1
    <3> QED BY <2>1, <2>2, <2>5, <3>2
  <2> QED BY <2>3, <2>4, <2>5
<1>7. ASSUME NEW c \in chunks' PROVE c = [id |-> c.id, path |-> c.path] /\ c.path \in Live'
  <2>1. Live' = (Live \cup Loaded) \ Deleted
    BY LiveWritten
  <2>2. CASE c \in kept
    BY <1>1, <1>2, <1>5, <2>1, <2>2
  <2>3. CASE c \in new
    BY <1>1, <1>8, <2>1, <2>3 DEF ToChange
  <2> QED BY <1>1, <2>2, <2>3
<1> QED BY <1>6, <1>7

----------------------------------------------------------------------------
(* What a run leaves.                                                      *)

(* What joins a page that was read is what was read, when no other page    *)
(* names, or is named by, what was read.                                   *)
Named(items) == DOMAIN items \cup UNION {items[p].links : p \in DOMAIN items}

LEMMA JoinedOfRead ==
    ASSUME NEW items, NEW all, DOMAIN items \subseteq Paths, \A p \in DOMAIN items : items[p].links \subseteq Paths,
           DOMAIN items \subseteq DOMAIN all, \A p \in DOMAIN items : all[p] = items[p],
           \A u \in DOMAIN all \ DOMAIN items : u \notin Named(items) /\ all[u].links \cap Named(items) = {},
           NEW r \in DOMAIN items
    PROVE  Joined(items, r) = Joined(all, r)
<1>1. Named(items) \in SUBSET Paths /\ r \in Named(items)
  BY DEF Named
<1>2. \A p \in DOMAIN items : p \in Named(items) /\ items[p].links \subseteq Named(items)
  BY DEF Named
<1>3. NoneBeside(items, Named(items))
  BY <1>2 DEF NoneBeside, Beside
<1>4. ASSUME NEW a \in Named(items), NEW q \in Paths PROVE Beside(items, a, q) <=> Beside(all, a, q)
  BY <1>2 DEF Beside
<1> QED BY <1>1, <1>3, <1>4, JoinedAlike

(* What joins a page that a run leaves is what joined it before.           *)
LEMMA JoinedOfRest ==
    ASSUME NEW old, NEW all, NEW items, DOMAIN old \subseteq Paths,
           NEW U, U \subseteq DOMAIN old, DOMAIN all = DOMAIN items \cup U,
           \A w \in U : all[w] = old[w] /\ w \notin Named(items) /\ old[w].links \cap Named(items) = {},
           \A p \in DOMAIN items : all[p] = items[p],
           NEW u \in U, \A s \in DOMAIN old \ U : Joined(old, s) # Joined(old, u)
    PROVE  Joined(old, u) = Joined(all, u)
<1> DEFINE J == Joined(old, u)
<1>1. /\ u \in Paths /\ u \in J /\ J \in SUBSET Paths /\ NoneBeside(old, J)
      /\ \A S \in SUBSET Paths : u \in S /\ NoneBeside(old, S) => J \subseteq S
  BY JoinedIs
<1>2. ASSUME NEW a \in J, a \in DOMAIN old PROVE a \in U
  BY <1>1, <1>2, JoinedSame
<1> HIDE DEF J
<1>3. ASSUME NEW a \in J, NEW q \in Paths, Beside(old, a, q)
      PROVE  (a \in U /\ q \in old[a].links) \/ (q \in U /\ a \in old[q].links)
  <2>1. q \in J
    BY <1>1, <1>3 DEF NoneBeside
  <2> QED BY <1>2, <1>3, <2>1 DEF Beside
<1>4. J \cap Named(items) = {}
  <2>1. ASSUME NEW a \in J \ Named(items), NEW q \in Paths, Beside(old, a, q) PROVE q \in J \ Named(items)
    <3>1. q \in J
      BY <1>1, <2>1 DEF NoneBeside
    <3> QED BY <1>3, <2>1, <3>1
  <2>2. NoneBeside(old, J \ Named(items)) /\ u \in J \ Named(items)
    BY <1>1, <2>1 DEF NoneBeside
  <2> QED BY <1>1, <2>2
<1>5. ASSUME NEW a \in J, NEW q \in Paths PROVE Beside(old, a, q) <=> Beside(all, a, q)
  <2>1. CASE Beside(old, a, q)
    BY <1>3, <2>1 DEF Beside
  <2>2. CASE Beside(all, a, q)
    <3>1. \A p \in DOMAIN items : p \in Named(items) /\ items[p].links \subseteq Named(items)
      BY DEF Named
    <3> QED BY <1>4, <2>2, <3>1 DEF Beside
  <2> QED BY <2>1, <2>2
<1> QED BY <1>1, <1>5, JoinedAlike DEF J

(* A run over the whole Vault deletes the keys that it did not read.       *)
LEMMA WholeDeletes == fileRun.mode # "paths" => Deleted = (fileRun.keys \ Loaded) \cap Live
  BY DEF Deleted, Loaded

(* What a run writes was read from a file.                                 *)
LEMMA ApplyFiles == ASSUME StatInv, FileInv, Apply PROVE FileInv'
<1>1. /\ fileRun # Nil /\ fileRun.items # Nil /\ fileRun' = Nil /\ Loaded \subseteq Paths
      /\ files' = files
      /\ \A p \in Paths : rows'[p].file = IF p \in Loaded THEN fileRun.items[p] ELSE rows[p].file
  BY RowsWritten
<1>2. Live' = (Live \cup Loaded) \ Deleted /\ Live \subseteq Paths
  BY LiveWritten DEF Live
<1>3. \A p \in Loaded : IsFile(fileRun.items[p])
  BY <1>1 DEF FileInv, Loaded
<1>4. \A p \in Live : IsFile(rows[p].file)
  BY DEF FileInv
<1>5. \A p \in Live' : IsFile(rows'[p].file)
  BY <1>1, <1>2, <1>3, <1>4
<1>6. OnDisk' = OnDisk
  BY <1>1 DEF OnDisk
<1> QED BY <1>1, <1>5, <1>6 DEF FileInv

(* A page that was read and keeps its row keeps its chunk.                 *)
LEMMA Unchanged ==
    ASSUME StatInv, ChunkInv, NEW p \in Loaded \ ToChange, p \in Paths
    PROVE  p \in Live /\ rows[p] = NewRow(p) /\ StoredIds(p) = NewIds(p)
<1>1. rows[p] = NewRow(p) /\ (fileRun.items[p].group # Nil => StoredIds(p) = NewIds(p))
  BY DEF ToChange, FileChanged
<1>2. NewRow(p).state = "live" /\ NewRow(p).file = fileRun.items[p]
  BY DEF NewRow
<1>3. p \in Live
  BY <1>1, <1>2 DEF Live
<1>4. fileRun.items[p].group = Nil => StoredIds(p) = NewIds(p)
  BY <1>1, <1>2, <1>3 DEF ChunkInv, NewIds, ChunkIds
<1> QED BY <1>1, <1>3, <1>4

(* A file that was read and not deleted has the chunk ids of the run.      *)
LEMMA ReadKeepsItsIds ==
    ASSUME StatInv, FileInv, ChunkInv, Apply, NEW p \in Loaded \ Deleted
    PROVE  StoredIds(p)' = NewIds(p)
<1>1. fileRun # Nil /\ fileRun.items # Nil /\ Loaded \subseteq Paths /\ p \in Paths
  BY RowsWritten
<1>2. \A r \in Loaded : IsFile(fileRun.items[r])
  BY <1>1 DEF FileInv, Loaded
<1>3. CASE p \in ToChange
  BY <1>1, <1>3, ChunksWritten
<1>4. CASE p \notin ToChange
  <2>1. StoredIds(p) = NewIds(p)
    BY <1>1, <1>4, Unchanged
  <2>2. \A r \in ToChange : NewIds(p) \cap NewIds(r) = {}
    BY <1>1, <1>2, <1>4, IdsOfOne DEF NewIds, ToChange, Loaded
  <2>3. StoredIds(p)' = {i \in StoredIds(p) : \A r \in ToChange : i \notin NewIds(r)}
    BY <1>1, <1>4, ChunksWritten
  <2> QED BY <2>1, <2>2, <2>3
<1> QED BY <1>3, <1>4

(* A page has its one chunk, whichever run wrote it.                       *)
LEMMA ApplyChunks == ASSUME StatInv, FileInv, ChunkInv, Apply PROVE ChunkInv'
<1>1. /\ fileRun # Nil /\ fileRun.items # Nil /\ Loaded \subseteq Paths
      /\ \A p \in Paths : rows'[p].file = IF p \in Loaded THEN fileRun.items[p] ELSE rows[p].file
  BY RowsWritten
<1>2. Live' = (Live \cup Loaded) \ Deleted /\ Live \subseteq Paths
  BY LiveWritten DEF Live
<1>3. ASSUME NEW p \in Live', rows'[p].file.group = Nil PROVE StoredIds(p)' = {ChunkId(rows'[p].file, p, 0)}
  <2>1. CASE p \in Loaded
    <3>1. StoredIds(p)' = NewIds(p) /\ rows'[p].file = fileRun.items[p]
      BY <1>1, <1>2, <2>1, ReadKeepsItsIds
    <3> QED BY <1>3, <3>1 DEF NewIds, ChunkIds
  <2>2. CASE p \notin Loaded
    <3>1. p \in Live /\ p \in Paths /\ p \notin Deleted /\ p \notin ToChange /\ rows'[p].file = rows[p].file
      BY <1>1, <1>2, <2>2 DEF ToChange
    <3>2. StoredIds(p) = {ChunkId(rows[p].file, p, 0)} /\ IsFile(rows[p].file)
      BY <1>3, <3>1 DEF ChunkInv, FileInv
    <3>3. ASSUME NEW r \in ToChange PROVE ChunkId(rows[p].file, p, 0) \notin NewIds(r)
      <4> DEFINE alone == [q \in {p} |-> rows[p].file]
      <4>1. ChunkId(rows[p].file, p, 0) \in ChunkIds(alone, p, {})
        BY <1>3, <3>1 DEF ChunkIds
      <4>2. r \in DOMAIN fileRun.items /\ r \in Paths /\ r # p /\ IsFile(fileRun.items[r])
        BY <1>1, <2>2 DEF FileInv, ToChange, Loaded
      <4>3. p \in DOMAIN alone /\ alone[p] = rows[p].file
        OBVIOUS
      <4> HIDE DEF alone
      <4>4. ChunkIds(alone, p, {}) \cap ChunkIds(fileRun.items, r, fileRun.incomplete) = {}
        BY <1>3, <3>1, <3>2, <4>2, <4>3, IdsApart
      <4> QED BY <4>1, <4>4 DEF NewIds
    <3>4. StoredIds(p)' = {i \in StoredIds(p) : \A r \in ToChange : i \notin NewIds(r)}
      BY <3>1, ChunksWritten
    <3> QED BY <3>1, <3>2, <3>3, <3>4
  <2> QED BY <2>1, <2>2
<1>4. \A c \in chunks' : c = [id |-> c.id, path |-> c.path] /\ c.path \in Live'
  BY ChunksWritten
<1> QED BY <1>3, <1>4 DEF ChunkInv

(* A file that a run skips is indexed as it is on disk.                    *)
LEMMA SkippedIsCurrent ==
    ASSUME StatInv, NEW p \in Paths, Skippable(p)
    PROVE  p \in Live \cap OnDisk /\ rows[p].file = files[p] /\ ~Stale(p)
<1> DEFINE chunked == StoredIds(p) # {}
           stat == [stamp |-> stamp[p], chunked |-> chunked]
<1>1. p \in Live \cap OnDisk /\ rows[p].stat = stat /\ chunked \in BOOLEAN /\ stamp[p] \in Nat
  BY DEF Skippable, StatInv, ShapeOK
<1> HIDE DEF chunked
<1>2. stat \in [stamp : Nat, chunked : BOOLEAN] /\ stat.stamp = stamp[p]
  BY <1>1
<1> HIDE DEF stat
<1>3. rows[p].stat # Nil /\ rows[p].stat.stamp = stamp[p]
  BY <1>1, <1>2, NilAssumption
<1> QED BY <1>1, <1>3 DEF StatInv, RecordedInv, Stale

(* A run beside which nobody edited leaves the files, as they are.         *)
LEMMA ApplyCovered ==
    ASSUME StatInv, PlanInv, OpenInv, CoveredInv, Apply, covered'
    PROVE  /\ Live' = OnDisk' /\ \A p \in OnDisk' : rows'[p].file = files'[p]
           /\ Loaded \cap Deleted = {}
           /\ IF fileRun.mode = "paths" THEN covered /\ Live \subseteq Live' /\ fileRun.gone \cap Live = {}
              ELSE \A p \in Live : Stale(p) \/ p \in fileRun.gone => p \in Loaded \cup Deleted
<1>1. /\ fileRun # Nil /\ fileRun.items # Nil /\ Loaded \subseteq Paths /\ files' = files
      /\ \A p \in Paths : rows'[p].file = IF p \in Loaded THEN fileRun.items[p] ELSE rows[p].file
  BY RowsWritten
<1>2. Live' = (Live \cup Loaded) \ Deleted /\ Live \subseteq Paths /\ OnDisk \subseteq Paths /\ OnDisk' = OnDisk
  BY <1>1, LiveWritten DEF Live, OnDisk
<1>3. fileRun.quiet /\ (fileRun.mode = "paths" => covered /\ fileRun.deleted \cap OnDisk = {})
  BY DEF Apply
<1>4. /\ fileRun.gone \cap OnDisk = {} /\ \A p \in Loaded : fileRun.items[p] = files[p]
      /\ fileRun.keys \cap Paths \subseteq Loaded \cup fileRun.gone
      /\ Loaded \cap fileRun.gone = {}
  BY <1>1, <1>3 DEF OpenInv, Reached, Loaded
<1>5. Loaded \subseteq OnDisk
  <2>1. \A p \in Loaded : fileRun.items[p] # Nil
    BY <1>1 DEF StatInv, ReadInv, Loaded
  <2> QED BY <1>1, <1>4, <2>1 DEF OnDisk
<1>6. CASE fileRun.mode = "paths"
  <2>1. Live = OnDisk /\ \A p \in OnDisk : rows[p].file = files[p]
    BY <1>3, <1>6 DEF CoveredInv
  <2>2. Deleted = {}
    BY <1>3, <1>4, <1>6, <2>1 DEF Deleted
  <2> QED BY <1>1, <1>2, <1>3, <1>4, <1>5, <1>6, <2>1, <2>2
<1>7. CASE fileRun.mode # "paths"
  <2>1. Deleted = (fileRun.keys \ Loaded) \cap Live
    BY <1>7, WholeDeletes
  <2>2. \A p \in (OnDisk \cup Live) \ fileRun.keys : p \in Live \cap OnDisk /\ rows[p].file = files[p] /\ ~Stale(p)
    BY <1>1, <1>2, <1>3, <1>7, SkippedIsCurrent DEF PlanInv
  <2>3. \A p \in OnDisk : p \in fileRun.keys => p \in Loaded
    BY <1>2, <1>4
  <2>4. Live' = OnDisk'
    BY <1>2, <1>5, <2>1, <2>2, <2>3
  <2>5. \A p \in OnDisk : rows'[p].file = files[p]
    BY <1>1, <1>2, <1>4, <2>2, <2>3
  <2>6. \A p \in Live : Stale(p) \/ p \in fileRun.gone => p \in Loaded \cup Deleted
    BY <1>4, <2>1, <2>2
  <2> QED BY <1>1, <1>2, <1>7, <2>1, <2>4, <2>5, <2>6
<1> QED BY <1>6, <1>7

(* The rows that a run leaves, and that the index rightly holds, have      *)
(* nothing to do with what it opened or deletes.                           *)
Rest(G) == Live \ (Reached \cup Deleted \cup G)

LEMMA RestIsApart ==
    ASSUME StatInv, FileInv, OpenInv, fileRun # Nil, fileRun.items # Nil, ~Overlooks(Deleted),
           NEW G, NEW u \in Rest(G)
    PROVE  /\ u \notin Named(fileRun.items) /\ rows[u].file.links \cap Named(fileRun.items) = {}
           /\ \A r \in Loaded : fileRun.items[r].group = Nil \/ fileRun.items[r].group # rows[u].file.group
           /\ \A s \in Live \ (Rest(G) \cup G) :
                rows[s].family # rows[u].family /\ (rows[s].file.group = Nil \/ rows[s].file.group # rows[u].file.group)
<1>1. /\ u \in Live /\ u \notin Reached /\ u \notin Deleted /\ u \in Live \ (Loaded \cup Deleted)
      /\ rows[u].state = "live"
  BY DEF Rest, Reached, Loaded, Live
<1>2. /\ fileRun.incomplete = {} /\ Deleted \cap Loaded = {}
      /\ rows[u].file.links \cap Named(fileRun.items) = {}
      /\ \A p \in Deleted \ fileRun.gone :
           ~(u \in FamilyMembers(p) \/ (rows[p].file.group # Nil /\ u \in GroupMembers(rows[p].file.group)))
  BY <1>1 DEF Overlooks, Loaded, Named
<1>3. \A p \in Reached : Followed(p)
  BY <1>2 DEF OpenInv
<1>4. \A p \in Loaded : /\ p \in Reached /\ fileRun.items[p].links \subseteq Reached
                        /\ fileRun.items[p].group # Nil => GroupMembers(fileRun.items[p].group) \subseteq Reached
  BY <1>3 DEF Followed, Loaded, Reached
<1>5. u \notin Named(fileRun.items)
  BY <1>1, <1>4 DEF Named, Loaded
<1>6. ASSUME NEW r \in Loaded, fileRun.items[r].group # Nil PROVE fileRun.items[r].group # rows[u].file.group
  BY <1>1, <1>4, <1>6 DEF GroupMembers
<1>7. ASSUME NEW s \in Live \ (Rest(G) \cup G)
      PROVE  rows[s].family # rows[u].family /\ (rows[s].file.group = Nil \/ rows[s].file.group # rows[u].file.group)
  <2>1. s \in Reached \/ s \in Deleted \ fileRun.gone
    BY <1>7 DEF Rest, Reached
  <2>2. rows[s].state # "none"
    BY <1>7 DEF Live
  <2>3. rows[s].family = rows[u].family => u \in FamilyMembers(s)
    BY <1>1, <2>2 DEF FamilyMembers
  <2>4. rows[s].file.group = rows[u].file.group => u \in GroupMembers(rows[s].file.group)
    BY <1>1 DEF GroupMembers
  <2>5. CASE s \in Reached
    <3>1. /\ FamilyMembers(s) \subseteq Reached
          /\ rows[s].file.group # Nil => GroupMembers(rows[s].file.group) \subseteq Reached
      BY <1>3, <1>7, <2>5 DEF Followed
    <3> QED BY <1>1, <2>3, <2>4, <3>1
  <2>6. CASE s \in Deleted \ fileRun.gone
    BY <1>2, <2>3, <2>4, <2>6
  <2> QED BY <2>1, <2>5, <2>6
<1> QED BY <1>2, <1>5, <1>6, <1>7

(* What a run leaves and what it writes agree, unless it overlooked a file. *)
LEMMA ApplyAgree == ASSUME StatInv, FileInv, ChunkInv, PlanInv, OpenInv, CoveredInv, AgreeInv, Apply PROVE AgreeInv'
<1> SUFFICES ASSUME ~overlooked'
             PROVE  \E H \in SUBSET {p \in Live' : Stale(p)'} : Agree(Live \ H)' /\ (covered' => H = {})
  BY DEF AgreeInv
<1>1. /\ fileRun # Nil /\ fileRun.items # Nil /\ Loaded \subseteq Paths
      /\ \A p \in Paths :
           /\ rows'[p].file = IF p \in Loaded THEN fileRun.items[p] ELSE rows[p].file
           /\ rows'[p].family = IF p \in Loaded THEN FamilyOf(fileRun.items, p) ELSE rows[p].family
           /\ p \notin Loaded \cup Deleted => rows'[p].stat = rows[p].stat
      /\ stamp' = stamp
  BY RowsWritten
<1>2. Live' = (Live \cup Loaded) \ Deleted /\ Live \subseteq Paths
  BY LiveWritten DEF Live
<1>3. fileRun.mode = "full" \/ (~overlooked /\ ~Overlooks(Deleted))
  BY DEF Apply
<1>4. PICK G \in SUBSET {p \in Live : Stale(p)} :
        fileRun.mode # "full" => Agree(Live \ G) /\ (covered => G = {})
  BY <1>3 DEF AgreeInv
<1>5. PICK U : U = Rest(G)
  OBVIOUS
<1>6. U \subseteq Live /\ U \cap Reached = {} /\ U \cap Deleted = {} /\ U \cap Loaded = {} /\ U \cap G = {}
  BY <1>5 DEF Rest, Reached, Loaded
<1>7. U = {} \/ (fileRun.mode # "full" /\ ~Overlooks(Deleted))
  BY <1>1, <1>2, <1>3, <1>6 DEF OpenInv
<1>8. Loaded \cap Deleted = {}
  <2>1. CASE fileRun.mode = "full"
    BY <2>1, WholeDeletes
  <2>2. CASE ~Overlooks(Deleted)
    BY <2>2 DEF Overlooks, Loaded
  <2> QED BY <1>3, <2>1, <2>2
<1>9. PICK S : S = Loaded \cup U
  OBVIOUS
<1>10. PICK H : H = Live' \ S
  OBVIOUS
<1>11. S \subseteq Live' /\ Live' \ H = S
  BY <1>2, <1>6, <1>8, <1>9, <1>10
<1>12. H \in SUBSET {p \in Live' : Stale(p)'}
  <2> SUFFICES ASSUME NEW p \in H PROVE p \in Live' /\ Stale(p)'
    OBVIOUS
  <2>1. p \in Live' /\ p \in Live /\ p \in Paths /\ p \notin Loaded /\ p \notin Deleted /\ p \notin U
    BY <1>2, <1>9, <1>10
  <2>2. p \in G \/ p \in fileRun.gone
    BY <1>5, <2>1 DEF Rest, Reached, Loaded
  <2>3. Stale(p)
    BY <1>1, <1>4, <2>1, <2>2 DEF OpenInv
  <2>4. rows'[p].stat = rows[p].stat
    BY <1>1, <2>1
  <2> QED BY <1>1, <2>1, <2>3, <2>4 DEF Stale
<1>13. covered' => H = {}
  <2> SUFFICES ASSUME covered', NEW p \in H PROVE FALSE
    OBVIOUS
  <2>1. p \in Live /\ p \notin Loaded /\ p \notin Deleted /\ (p \in G \/ p \in fileRun.gone)
    BY <1>2, <1>5, <1>9, <1>10 DEF Rest, Reached, Loaded
  <2>2. IF fileRun.mode = "paths" THEN covered /\ Live \subseteq Live' /\ fileRun.gone \cap Live = {}
        ELSE \A q \in Live : Stale(q) \/ q \in fileRun.gone => q \in Loaded \cup Deleted
    BY ApplyCovered
  <2> QED BY <1>4, <2>1, <2>2
<1>14. Agree(Live \ H)'
  <2>1. \A u \in U :
          /\ u \notin Named(fileRun.items) /\ rows[u].file.links \cap Named(fileRun.items) = {}
          /\ \A r \in Loaded : fileRun.items[r].group = Nil \/ fileRun.items[r].group # rows[u].file.group
          /\ \A s \in Live \ (U \cup G) :
               rows[s].family # rows[u].family /\ (rows[s].file.group = Nil \/ rows[s].file.group # rows[u].file.group)
    BY <1>1, <1>5, <1>7, RestIsApart
  <2>2. (Live \ H)' = S
    BY <1>11
  <2>3. PICK all : all = [p \in S |-> rows'[p].file]
    OBVIOUS
  <2>4. /\ DOMAIN all = Loaded \cup U /\ \A p \in Loaded : all[p] = fileRun.items[p]
        /\ \A u \in U : all[u] = rows[u].file
    BY <1>1, <1>2, <1>6, <1>9, <2>3
  <2>5. PICK old : old = IndexedFiles(Live \ G)
    OBVIOUS
  <2>6. DOMAIN old = Live \ G /\ U \subseteq Live \ G /\ \A p \in Live \ G : old[p] = rows[p].file
    BY <1>6, <2>5 DEF IndexedFiles
  <2>7. /\ \A p \in Loaded : IsFile(fileRun.items[p])
        /\ \A p \in Live : IsFile(rows[p].file)
    BY <1>1 DEF FileInv, Loaded
  <2>8. ASSUME NEW r \in Loaded
        PROVE  rows'[r].family = FamilyOf(all, r) /\ StoredIds(r)' = ChunkIds(all, r, {})
    <3>1. Joined(fileRun.items, r) = Joined(all, r)
      <4>1. \A p \in Loaded : fileRun.items[p].links \subseteq Paths
        BY <2>7 DEF IsFile
      <4>2. \A u \in DOMAIN all \ Loaded :
              u \notin Named(fileRun.items) /\ all[u].links \cap Named(fileRun.items) = {}
        BY <2>1, <2>4
      <4> QED BY <1>1, <2>4, <4>1, <4>2, JoinedOfRead DEF Loaded
    <3>2. rows'[r].family = FamilyOf(fileRun.items, r)
      BY <1>1
    <3>3. StoredIds(r)' = NewIds(r)
      BY <1>8, ReadKeepsItsIds
    <3>4. fileRun.incomplete = {}
      BY <1>1, <1>3 DEF OpenInv, Overlooks
    <3>5. ChunkIds(fileRun.items, r, {}) = ChunkIds(all, r, {})
      <4>1. r \in DOMAIN fileRun.items \cap DOMAIN all /\ fileRun.items[r] = all[r]
        BY <2>4 DEF Loaded
      <4>2. ASSUME fileRun.items[r].group # Nil, NEW q
            PROVE  LET g == fileRun.items[r].group IN
                   /\ q \in DOMAIN fileRun.items /\ fileRun.items[q].group = g <=> q \in DOMAIN all /\ all[q].group = g
                   /\ q \in DOMAIN fileRun.items /\ fileRun.items[q].group = g => fileRun.items[q] = all[q]
        BY <2>1, <2>4, <4>2 DEF Loaded
      <4> QED BY <4>1, <4>2, ChunksAlike
    <3> QED BY <3>1, <3>2, <3>3, <3>4, <3>5 DEF FamilyOf, NewIds
  <2>9. ASSUME NEW u \in U
        PROVE  rows'[u].family = FamilyOf(all, u) /\ StoredIds(u)' = ChunkIds(all, u, {})
    <3>1. u \in Live \ G /\ u \in Paths /\ u \notin Loaded /\ u \notin Deleted /\ u \notin ToChange
      BY <1>2, <1>6 DEF ToChange
    <3>2. Agree(Live \ G)
      BY <1>4, <1>7
    <3>3. \A s \in Live \ G : rows[s].family = FamilyOf(old, s) /\ StoredIds(s) = ChunkIds(old, s, {})
      BY <2>5, <3>2 DEF Agree
    <3>4. rows'[u].family = rows[u].family
      BY <1>1, <3>1
    <3>5. Joined(old, u) = Joined(all, u)
      <4>1. \A s \in DOMAIN old \ U : Joined(old, s) # Joined(old, u)
        BY <2>1, <2>6, <3>1, <3>3 DEF FamilyOf
      <4>2. \A w \in U : all[w] = old[w] /\ w \notin Named(fileRun.items) /\ old[w].links \cap Named(fileRun.items) = {}
        BY <2>1, <2>4, <2>6
      <4>3. DOMAIN old \subseteq Paths /\ DOMAIN all = DOMAIN fileRun.items \cup U
            /\ \A p \in DOMAIN fileRun.items : all[p] = fileRun.items[p]
        BY <1>2, <2>4, <2>6 DEF Loaded
      <4>4. PICK items : items = fileRun.items
        OBVIOUS
      <4>5. /\ DOMAIN old \subseteq Paths /\ U \subseteq DOMAIN old /\ DOMAIN all = DOMAIN items \cup U
            /\ \A w \in U : all[w] = old[w] /\ w \notin Named(items) /\ old[w].links \cap Named(items) = {}
            /\ \A p \in DOMAIN items : all[p] = items[p]
            /\ \A s \in DOMAIN old \ U : Joined(old, s) # Joined(old, u)
        BY <2>6, <4>1, <4>2, <4>3, <4>4
      <4> QED BY <4>5, JoinedOfRest
    <3>6. ChunkIds(old, u, {}) = ChunkIds(all, u, {})
      <4>1. u \in DOMAIN old \cap DOMAIN all /\ old[u] = all[u]
        BY <2>4, <2>6, <3>1
      <4>2. ASSUME old[u].group # Nil, NEW q
            PROVE  LET g == old[u].group IN
                   /\ q \in DOMAIN old /\ old[q].group = g <=> q \in DOMAIN all /\ all[q].group = g
                   /\ q \in DOMAIN old /\ old[q].group = g => old[q] = all[q]
        BY <2>1, <2>4, <2>6, <3>1, <4>2
      <4> QED BY <4>1, <4>2, ChunksAlike
    <3>7. ASSUME NEW r \in ToChange PROVE ChunkIds(old, u, {}) \cap NewIds(r) = {}
      <4>1. r \in DOMAIN fileRun.items /\ r \in Paths /\ u # r /\ IsFile(fileRun.items[r])
        BY <1>1, <2>7, <3>1 DEF ToChange, Loaded
      <4>2. u \in DOMAIN old /\ IsFile(old[u])
            /\ (old[u].group # fileRun.items[r].group \/ old[u].group = Nil)
        BY <2>1, <2>6, <2>7, <3>1, <4>1 DEF Loaded
      <4> QED BY <3>1, <4>1, <4>2, IdsApart DEF NewIds
    <3>8. StoredIds(u)' = {i \in StoredIds(u) : \A r \in ToChange : i \notin NewIds(r)}
      BY <3>1, ChunksWritten
    <3>9. StoredIds(u)' = StoredIds(u)
      BY <3>1, <3>3, <3>7, <3>8
    <3> QED BY <3>1, <3>3, <3>4, <3>5, <3>6, <3>9 DEF FamilyOf
  <2>10. \A p \in S : rows'[p].family = FamilyOf(all, p) /\ StoredIds(p)' = ChunkIds(all, p, {})
    BY <1>9, <2>8, <2>9
  <2> QED BY <2>2, <2>3, <2>10 DEF Agree, IndexedFiles
<1> QED BY <1>12, <1>13, <1>14

----------------------------------------------------------------------------
(* The steps.                                                              *)

(* A step that leaves the tables.                                          *)
LEMMA TablesStay ==
    ASSUME AgreeInv, ChunkInv, UNCHANGED <<rows, chunks, overlooked>>, covered' => covered,
           \A p \in Live : Stale(p) => Stale(p)'
    PROVE  AgreeInv' /\ ChunkInv'
<1>1. Live' = Live /\ \A p : StoredIds(p)' = StoredIds(p)
  BY DEF Live, StoredIds
<1>2. ChunkInv'
  BY <1>1 DEF ChunkInv
<1>3. ASSUME ~overlooked' PROVE \E G \in SUBSET {p \in Live' : Stale(p)'} : Agree(Live \ G)' /\ (covered' => G = {})
  <2>1. PICK G \in SUBSET {p \in Live : Stale(p)} : Agree(Live \ G) /\ (covered => G = {})
    BY <1>3 DEF AgreeInv
  <2>2. PICK S : S = Live \ G
    OBVIOUS
  <2>3. Agree(S)'
    BY <1>1, <2>1, <2>2 DEF Agree, IndexedFiles
  <2>4. Agree(Live \ G)'
    BY <1>1, <2>2, <2>3
  <2> QED BY <1>1, <2>1, <2>4
<1> QED BY <1>2, <1>3 DEF AgreeInv

(* An empty index hides nothing.                                           *)
LEMMA IncInit == MetadataInit => IncInv
<1> SUFFICES ASSUME MetadataInit PROVE IncInv
  OBVIOUS
<1>1. /\ Live = {} /\ chunks = {} /\ fileRun = Nil /\ ~covered
      /\ \A p \in Paths : files[p] \in Files[p] \cup {Nil}
  BY DEF MetadataInit, Live
<1>2. FileInv
  BY <1>1, FilesAssumption DEF FileInv, OnDisk
<1>3. ChunkInv /\ PlanInv /\ OpenInv /\ CoveredInv
  BY <1>1 DEF ChunkInv, PlanInv, OpenInv, CoveredInv
<1>4. AgreeInv
  <2>1. Agree(Live \ {})
    BY <1>1 DEF Agree
  <2> QED BY <2>1 DEF AgreeInv
<1> QED BY <1>2, <1>3, <1>4 DEF IncInv

(* A run begins, or stops.                                                 *)
LEMMA RunStarts ==
    ASSUME IncInv, UNCHANGED <<files, stamp, rows, chunks, overlooked, covered>>,
           fileRun' = Nil \/
           \E mode \in {"full", "incremental", "paths"} : \E keys, deleted :
               /\ fileRun' = Run(mode, keys, deleted)
               /\ mode # "paths" => \A p \in (OnDisk \cup Live) \ keys : Skippable(p)
    PROVE  IncInv'
<1>1. AgreeInv' /\ ChunkInv'
  BY TablesStay DEF IncInv, Stale
<1>2. OnDisk' = OnDisk /\ Live' = Live /\ \A p : StoredIds(p)' = StoredIds(p)
  BY DEF OnDisk, Live, StoredIds
<1>3. CoveredInv'
  BY <1>2 DEF IncInv, CoveredInv
<1>4. fileRun' = Nil \/ fileRun'.items = Nil
  BY DEF Run
<1>5. FileInv' /\ OpenInv'
  BY <1>2, <1>4 DEF IncInv, FileInv, OpenInv
<1>6. PlanInv'
  <2> SUFFICES ASSUME fileRun' # Nil
               PROVE  /\ fileRun'.mode \in {"full", "incremental", "paths"}
                      /\ fileRun'.mode # "paths" => \A p \in (OnDisk' \cup Live') \ fileRun'.keys : Skippable(p)'
    BY DEF PlanInv
  <2> PICK mode \in {"full", "incremental", "paths"} : \E keys, deleted :
               /\ fileRun' = Run(mode, keys, deleted)
               /\ mode # "paths" => \A p \in (OnDisk \cup Live) \ keys : Skippable(p)
    OBVIOUS
  <2>1. PICK keys, deleted :
               /\ fileRun' = Run(mode, keys, deleted)
               /\ mode # "paths" => \A p \in (OnDisk \cup Live) \ keys : Skippable(p)
    OBVIOUS
  <2>2. fileRun'.mode = mode /\ fileRun'.keys = keys
    BY <2>1 DEF Run
  <2>3. \A p : Skippable(p) => Skippable(p)'
    BY <1>2 DEF Skippable
  <2> QED BY <1>2, <2>1, <2>2, <2>3
<1> QED BY <1>1, <1>3, <1>5, <1>6 DEF IncInv

(* What the worklist holds at its end.                                     *)
LEMMA OpenedIs ==
    ASSUME FileInv, NEW keys
    PROVE  /\ OpenedFiles(keys) \subseteq Paths /\ keys \cap Paths \subseteq OpenedFiles(keys)
           /\ NonePending(OpenedFiles(keys))
<1>1. OpenedFiles(keys) \subseteq Paths /\ keys \cap Paths \subseteq OpenedFiles(keys)
  BY DEF OpenedFiles
<1>2. ASSUME NEW p \in OpenedFiles(keys) \ CannotRead, NEW q \in LinkedTo(p) \cup PulledBy(p)
      PROVE  q \in OpenedFiles(keys)
  <2>1. q \in Paths
    <3>1. FamilyMembers(p) \subseteq Paths /\ \A g : GroupMembers(g) \subseteq Paths
      BY DEF FamilyMembers, GroupMembers, Live
    <3>2. p \in OnDisk => files[p].links \subseteq Paths
      BY DEF FileInv, IsFile
    <3>3. PulledBy(p) \subseteq Paths
      BY <3>1 DEF PulledBy
    <3>4. LinkedTo(p) \subseteq Paths
      BY <3>1, <3>2 DEF LinkedTo
    <3> QED BY <1>2, <3>3, <3>4
  <2>2. ASSUME NEW S \in SUBSET Paths, keys \subseteq S, NonePending(S) PROVE q \in S
    <3>1. p \in S
      BY <1>2, <2>2 DEF OpenedFiles
    <3> QED BY <1>2, <2>2, <3>1 DEF NonePending
  <2> QED BY <2>1, <2>2 DEF OpenedFiles
<1> QED BY <1>1, <1>2 DEF NonePending

(* The files are read: whatever leads to a file it leaves names a group    *)
(* that the run knows to be incomplete.                                    *)
LEMMA ReadOpens == ASSUME StatInv, IncInv, ReadFiles PROVE OpenInv' /\ FileInv' /\ PlanInv'
<1> DEFINE opened == IF fileRun.mode = "full" THEN Paths ELSE OpenedFiles(fileRun.keys)
           read == (opened \cap OnDisk) \ CannotRead
<1>1. /\ fileRun # Nil /\ fileRun.items = Nil /\ UNCHANGED <<files, stamp, rows, chunks>>
      /\ DOMAIN fileRun = RunFields
      /\ opened \cap CannotRead # {} => fileRun.mode # "full" /\ MustFail(fileRun.keys, opened) = {}
  BY DEF ReadFiles, StatInv, ShapeOK
<1>2. PICK fresh :
        fileRun' = [fileRun EXCEPT !.items = [p \in read |-> files[p]],
                           !.gone = opened \ OnDisk,
                           !.incomplete = Incomplete(opened),
                           !.stamps = [p \in read |-> IF p \in fresh THEN stamp[p] ELSE fileRun.seen[p]]]
  BY DEF ReadFiles
<1>3. /\ opened \subseteq Paths /\ fileRun.keys \cap Paths \subseteq opened
      /\ fileRun.mode # "full" => NonePending(opened)
  BY OpenedIs DEF IncInv
<1>4. PICK O : O = opened
  OBVIOUS
<1>5. PICK R : R = (O \cap OnDisk) \ CannotRead
  OBVIOUS
<1>6. /\ fileRun'.mode = fileRun.mode /\ fileRun'.keys = fileRun.keys /\ fileRun'.quiet = fileRun.quiet
      /\ fileRun'.items = [p \in R |-> files[p]] /\ fileRun'.gone = O \ OnDisk /\ fileRun'.incomplete = Incomplete(O)
      /\ fileRun'.deleted = fileRun.deleted
  BY <1>1, <1>2, <1>4, <1>5 DEF RunFields
<1>7. /\ O \subseteq Paths /\ fileRun.keys \cap Paths \subseteq O
      /\ fileRun.mode # "full" => NonePending(O)
      /\ fileRun.mode = "full" => O = Paths
      /\ O \cap CannotRead # {} => fileRun.mode # "full" /\ MustFail(fileRun.keys, O) = {}
  BY <1>1, <1>3, <1>4
<1> HIDE DEF opened, read
<1>8. /\ Live' = Live /\ OnDisk' = OnDisk /\ Live \subseteq Paths /\ CannotRead \subseteq OnDisk
      /\ \A p : FamilyMembers(p)' = FamilyMembers(p)
      /\ \A g : GroupMembers(g)' = GroupMembers(g)
      /\ \A p : Skippable(p)' = Skippable(p)
  BY <1>1 DEF Live, OnDisk, CannotRead, FamilyMembers, GroupMembers, Skippable, StoredIds
<1>9. Reached' = O \ CannotRead
  BY <1>5, <1>6, <1>8 DEF Reached
<1>10. fileRun.keys \cap Paths \subseteq O \ CannotRead
  BY <1>7 DEF MustFail
<1>11. ASSUME NEW p \in (O \ OnDisk) \cap Live PROVE Stale(p)
  <2>1. files[p] = Nil /\ p \in Paths /\ stamp[p] \in Nat
    BY <1>7, <1>11 DEF OnDisk, StatInv, ShapeOK
  <2> QED BY <2>1, <1>11 DEF Stale, StatInv, RecordedInv
<1>12. ASSUME Incomplete(O) = {} PROVE O \cap CannotRead = {}
  <2> SUFFICES ASSUME NEW q \in O \cap CannotRead PROVE FALSE
    OBVIOUS
  <2>1. PICK p \in O \ CannotRead : q \in PulledBy(p)
    BY <1>7 DEF MustFail
  <2>2. PICK g \in GroupsOf(p) : q \in GroupMembers(g)
    BY <2>1 DEF PulledBy
  <2> QED BY <1>12, <2>1, <2>2 DEF Incomplete
<1>13. ASSUME Incomplete(O) = {}, NEW p \in O PROVE Followed(p)'
  <2>1. Reached' = O
    BY <1>9, <1>12, <1>13
  <2>2. FamilyMembers(p) \subseteq Paths /\ \A g : GroupMembers(g) \subseteq Paths
    BY <1>8 DEF FamilyMembers, GroupMembers
  <2>3. p \in OnDisk => files[p].links \subseteq Paths
    BY DEF IncInv, FileInv, IsFile
  <2>4. fileRun.mode # "full" => LinkedTo(p) \subseteq O /\ PulledBy(p) \subseteq O
    BY <1>7, <1>12, <1>13 DEF NonePending
  <2>5. FamilyMembers(p) \subseteq O
    BY <1>7, <2>2, <2>4 DEF LinkedTo
  <2>6. \A g \in GroupsOf(p) : GroupMembers(g) \subseteq O
    BY <1>7, <2>2, <2>4 DEF PulledBy
  <2>7. p \in OnDisk => files[p].links \subseteq O
    BY <1>7, <2>3, <2>4 DEF LinkedTo
  <2>8. p \in Live /\ rows[p].file.group # Nil => GroupMembers(rows[p].file.group) \subseteq O
    BY <2>6 DEF GroupsOf
  <2>9. p \in OnDisk /\ files[p].group # Nil => GroupMembers(files[p].group) \subseteq O
    BY <2>6 DEF GroupsOf
  <2>10. p \in DOMAIN fileRun'.items => p \in OnDisk /\ fileRun'.items[p] = files[p]
    BY <1>5, <1>6
  <2> QED BY <1>1, <1>8, <2>1, <2>5, <2>7, <2>8, <2>9, <2>10 DEF Followed
<1>14. fileRun.mode = "full" => O \cap CannotRead = {} /\ Incomplete(O) = {}
  BY <1>7 DEF Incomplete
<1>15. \A p \in Live : Stale(p)' = Stale(p)
  BY <1>1 DEF Stale
<1>16. OpenInv'
  <2> SUFFICES /\ fileRun'.gone \subseteq Paths /\ DOMAIN fileRun'.items \cap fileRun'.gone = {}
               /\ fileRun'.keys \cap Paths \subseteq Reached'
               /\ \A p \in fileRun'.gone \cap Live' : Stale(p)'
               /\ fileRun'.incomplete = {} => \A p \in Reached' : Followed(p)'
               /\ fileRun'.mode = "full" => Reached' = Paths /\ fileRun'.incomplete = {}
               /\ fileRun'.quiet => /\ fileRun'.gone \cap OnDisk' = {}
                                    /\ \A p \in DOMAIN fileRun'.items : fileRun'.items[p] = files'[p]
    BY DEF OpenInv
  <2>1. fileRun'.gone \subseteq Paths /\ DOMAIN fileRun'.items \cap fileRun'.gone = {}
    BY <1>5, <1>6, <1>7
  <2>2. fileRun'.keys \cap Paths \subseteq Reached'
    BY <1>6, <1>9, <1>10
  <2>3. \A p \in fileRun'.gone \cap Live' : Stale(p)'
    BY <1>6, <1>8, <1>11, <1>15
  <2>4. fileRun'.incomplete = {} => \A p \in Reached' : Followed(p)'
    BY <1>6, <1>9, <1>13
  <2>5. fileRun'.mode = "full" => Reached' = Paths /\ fileRun'.incomplete = {}
    BY <1>6, <1>7, <1>9, <1>14
  <2>6. fileRun'.gone \cap OnDisk' = {} /\ \A p \in DOMAIN fileRun'.items : fileRun'.items[p] = files'[p]
    BY <1>1, <1>5, <1>6, <1>8
  <2> QED BY <2>1, <2>2, <2>3, <2>4, <2>5, <2>6
<1>17. FileInv'
  BY <1>1, <1>5, <1>6, <1>8 DEF IncInv, FileInv
<1>18. PlanInv'
  BY <1>1, <1>6, <1>8 DEF IncInv, PlanInv
<1> QED BY <1>16, <1>17, <1>18

(* Reading writes no table.                                                *)
LEMMA ReadKeeps == ASSUME StatInv, IncInv, ReadFiles PROVE IncInv'
<1>1. UNCHANGED <<files, stamp, rows, chunks, overlooked, covered>>
  BY DEF ReadFiles
<1>2. AgreeInv' /\ ChunkInv'
  BY <1>1, TablesStay DEF IncInv, Stale
<1>3. CoveredInv'
  BY <1>1 DEF IncInv, CoveredInv, Live, OnDisk
<1> QED BY <1>2, <1>3, ReadOpens DEF IncInv

(* The run writes the tables and ends.                                     *)
LEMMA ApplyKeeps == ASSUME StatInv, IncInv, Apply PROVE IncInv'
<1>1. fileRun' = Nil
  BY DEF Apply
<1>2. FileInv' /\ ChunkInv'
  BY ApplyFiles, ApplyChunks DEF IncInv
<1>3. PlanInv' /\ OpenInv'
  BY <1>1 DEF PlanInv, OpenInv
<1>4. CoveredInv'
  BY ApplyCovered DEF IncInv, CoveredInv
<1>5. AgreeInv'
  BY ApplyAgree DEF IncInv
<1> QED BY <1>2, <1>3, <1>4, <1>5 DEF IncInv

(* An edit makes rows stale and leaves them.                               *)
LEMMA EditKeeps == ASSUME StatInv, IncInv, NEW p \in Paths, EditFile(p) PROVE IncInv'
<1>1. /\ UNCHANGED <<rows, chunks, overlooked>> /\ ~covered'
      /\ fileRun' = IF fileRun = Nil THEN Nil ELSE [fileRun EXCEPT !.quiet = FALSE]
      /\ stamp' = [stamp EXCEPT ![p] = @ + 1] /\ stamp \in [Paths -> Nat]
  BY DEF EditFile, StatInv, ShapeOK
<1>2. PICK f \in Files[p] \cup {Nil} : files' = [files EXCEPT ![p] = f]
  BY DEF EditFile
<1>3. \A q \in Paths : files'[q] = IF q = p THEN f ELSE files[q]
  BY <1>2 DEF StatInv, ShapeOK
<1>4. Live' = Live /\ Live \subseteq Paths
  BY <1>1 DEF Live
<1>5. ASSUME NEW q \in Live, Stale(q) PROVE Stale(q)'
  <2>1. q \in Paths /\ stamp[q] \in Nat /\ stamp'[q] = (IF q = p THEN stamp[q] + 1 ELSE stamp[q])
    BY <1>1, <1>4
  <2>2. rows[q].stat # Nil => rows[q].stat.stamp \in Nat
    BY <2>1 DEF StatInv, RecordedInv
  <2> QED BY <1>1, <1>5, <2>1, <2>2 DEF Stale
<1>6. AgreeInv' /\ ChunkInv'
  BY <1>1, <1>5, TablesStay DEF IncInv
<1>7. fileRun' # Nil =>
        /\ fileRun # Nil /\ ~fileRun'.quiet /\ fileRun'.mode = fileRun.mode /\ fileRun'.keys = fileRun.keys
        /\ fileRun'.items = fileRun.items /\ fileRun'.gone = fileRun.gone /\ fileRun'.incomplete = fileRun.incomplete
  BY <1>1 DEF StatInv, ShapeOK, RunFields
<1>8. FileInv'
  <2>1. \A q \in OnDisk' : IsFile(files'[q])
    <3> SUFFICES ASSUME NEW q \in Paths, files'[q] # Nil PROVE IsFile(files'[q])
      BY DEF OnDisk
    <3>1. q # p => IsFile(files'[q])
      BY <1>3 DEF IncInv, FileInv, OnDisk
    <3>2. q = p => IsFile(files'[q])
      BY <1>3, FilesAssumption
    <3> QED BY <3>1, <3>2
  <2> QED BY <1>1, <1>4, <1>7, <2>1 DEF IncInv, FileInv
<1>9. PlanInv'
  BY <1>7 DEF IncInv, PlanInv
<1>10. OpenInv'
  <2> SUFFICES ASSUME fileRun' # Nil, fileRun'.items # Nil
               PROVE  /\ fileRun'.gone \subseteq Paths /\ DOMAIN fileRun'.items \cap fileRun'.gone = {}
                      /\ fileRun'.keys \cap Paths \subseteq Reached'
                      /\ \A q \in fileRun'.gone \cap Live' : Stale(q)'
                      /\ fileRun'.incomplete = {} => \A q \in Reached' : Followed(q)'
                      /\ fileRun'.mode = "full" => Reached' = Paths /\ fileRun'.incomplete = {}
    BY <1>7 DEF OpenInv
  <2>1. Reached' = Reached /\ \A q : Followed(q)' = Followed(q)
    BY <1>1, <1>4, <1>7 DEF Reached, Followed, FamilyMembers, GroupMembers
  <2> QED BY <1>4, <1>5, <1>7, <2>1 DEF IncInv, OpenInv
<1>11. CoveredInv'
  BY <1>1 DEF CoveredInv
<1> QED BY <1>6, <1>8, <1>9, <1>10, <1>11 DEF IncInv

(* The invariant is inductive, on top of that of the stats.                *)
LEMMA IncSteps == StatInv /\ IncInv /\ [MetadataNext]_metadataVars => IncInv'
<1> SUFFICES ASSUME StatInv, IncInv, [MetadataNext]_metadataVars PROVE IncInv'
  OBVIOUS
<1>1. ASSUME NEW mode \in {"full", "incremental"}, BeginWhole(mode) PROVE IncInv'
  <2>1. PICK keys : keys = IF mode = "full" THEN Paths ELSE (OnDisk \cup Live) \ {p \in Paths : Skippable(p)}
    OBVIOUS
  <2>2. fileRun' = Run(mode, keys, {}) /\ UNCHANGED <<files, stamp, rows, chunks, overlooked, covered>>
    BY <1>1, <2>1 DEF BeginWhole
  <2>3. \A p \in (OnDisk \cup Live) \ keys : Skippable(p)
    BY <2>1 DEF OnDisk, Live
  <2> QED BY <2>2, <2>3, RunStarts
<1>2. CASE BeginPaths
  <2>1. fileRun' = Run("paths", scan.changed, scan.deleted) /\ UNCHANGED <<files, stamp, rows, chunks, overlooked, covered>>
    BY <1>2 DEF BeginPaths
  <2> QED BY <2>1, RunStarts
<1>3. CASE ReadFiles
  BY <1>3, ReadKeeps
<1>4. CASE Apply
  BY <1>4, ApplyKeeps
<1>5. CASE \E p \in Paths : EditFile(p)
  BY <1>5, EditKeeps
<1>6. CASE Fail
  BY <1>6, RunStarts DEF Fail
<1>7. CASE Scan \/ (\E p \in Deniable : Permit(p)) \/ UNCHANGED metadataVars
  <2>1. UNCHANGED <<files, stamp, rows, chunks, fileRun, overlooked, covered>>
    BY <1>7 DEF Scan, Permit, metadataVars
  <2>2. AgreeInv' /\ ChunkInv'
    BY <2>1, TablesStay DEF IncInv, Stale
  <2>3. FileInv' /\ CoveredInv' /\ PlanInv'
    BY <2>1 DEF IncInv, FileInv, CoveredInv, PlanInv, Live, OnDisk, Skippable, StoredIds
  <2>4. OpenInv'
    BY <2>1 DEF IncInv, OpenInv, Reached, Followed, Live, OnDisk, FamilyMembers, GroupMembers, Stale
  <2> QED BY <2>2, <2>3, <2>4 DEF IncInv
<1> QED BY <1>1, <1>2, <1>3, <1>4, <1>5, <1>6, <1>7 DEF MetadataNext

(* Rows that agree, of the files as they are, are those of a full run.     *)
LEMMA AgreeIsFull == IncInv => IncrementalEqualsFullUnlessOverlooked
<1> SUFFICES ASSUME IncInv, covered, ~overlooked
             PROVE  /\ Live = OnDisk
                    /\ \A p \in OnDisk : rows[p].file = files[p] /\ rows[p].family = FullFamilies[p]
                    /\ chunks = FullChunks
  BY DEF IncrementalEqualsFullUnlessOverlooked
<1>1. Live = OnDisk /\ \A p \in OnDisk : rows[p].file = files[p]
  BY DEF IncInv, CoveredInv
<1>2. PICK full : full = [q \in OnDisk |-> files[q]]
  OBVIOUS
<1>3. \A p \in OnDisk : rows[p].family = FamilyOf(full, p) /\ StoredIds(p) = ChunkIds(full, p, {})
  <2>1. PICK G \in SUBSET {p \in Live : Stale(p)} : Agree(Live \ G) /\ G = {}
    BY DEF IncInv, AgreeInv
  <2>2. Agree(OnDisk)
    BY <1>1, <2>1
  <2>3. IndexedFiles(OnDisk) = full
    BY <1>1, <1>2 DEF IndexedFiles
  <2> QED BY <2>2, <2>3 DEF Agree
<1>4. \A p \in OnDisk : FullFamilies[p] = FamilyOf(full, p)
  BY <1>2 DEF FullFamilies
<1>5. \A c \in chunks : c = [id |-> c.id, path |-> c.path] /\ c.path \in OnDisk
  BY <1>1 DEF IncInv, ChunkInv
<1>6. FullChunks = UNION {{[id |-> i, path |-> p] : i \in ChunkIds(full, p, {})} : p \in OnDisk}
  BY <1>2 DEF FullChunks
<1>7. \A p : StoredIds(p) = {c.id : c \in {d \in chunks : d.path = p}}
  BY DEF StoredIds
<1>8. PICK ids : ids = [p \in OnDisk |-> ChunkIds(full, p, {})]
  OBVIOUS
<1>9. FullChunks = UNION {{[id |-> i, path |-> p] : i \in ids[p]} : p \in OnDisk}
  BY <1>6, <1>8
<1>10. \A p \in OnDisk : ids[p] = {c.id : c \in {d \in chunks : d.path = p}}
  BY <1>3, <1>7, <1>8
<1>11. chunks \subseteq FullChunks
  <2> SUFFICES ASSUME NEW c \in chunks PROVE c \in FullChunks
    OBVIOUS
  <2>1. c.id \in ids[c.path] /\ c.path \in OnDisk /\ c = [id |-> c.id, path |-> c.path]
    BY <1>5, <1>10
  <2> QED BY <1>9, <2>1
<1>12. FullChunks \subseteq chunks
  <2> SUFFICES ASSUME NEW p \in OnDisk, NEW i \in ids[p] PROVE [id |-> i, path |-> p] \in chunks
    BY <1>9
  <2>1. PICK c \in chunks : c.path = p /\ c.id = i
    BY <1>10
  <2> QED BY <1>5, <2>1
<1> QED BY <1>1, <1>3, <1>4, <1>11, <1>12

(* An incremental run and a quick refresh leave what a full run over the   *)
(* same files would store, families and chunks, unless one of them did not *)
(* read a file its result depends on (_load_with_families,                 *)
(* assign_provenance_families, reprocess_session_groups).                  *)
THEOREM IncrementalIsFull == MetadataSpec => []IncrementalEqualsFullUnlessOverlooked
<1>1. MetadataInit => StatInv /\ IncInv
  BY StatInit, IncInit
<1>2. (StatInv /\ IncInv) /\ [MetadataNext]_metadataVars => (StatInv /\ IncInv)'
  BY StatSteps, IncSteps
<1>3. IncInv => IncrementalEqualsFullUnlessOverlooked
  BY AgreeIsFull
<1> QED BY <1>1, <1>2, <1>3, PTL DEF MetadataSpec

----------------------------------------------------------------------------
(* The vector stage.                                                       *)

USE FiniteAssumption, ContentsAssumption

Inputs == {f.input : f \in Contents}
Metas == {f.meta : f \in Contents}
Vectors ==
    [vault : Vaults, chunk : ChunkKeys, spec : Specs, input : Inputs, key : Inputs \cup {None}, meta : Metas]
Generations ==
    [files : [Vaults -> [ChunkKeys -> Contents \cup {None}]], shown : [Vaults -> SUBSET ChunkKeys],
     vectors : SUBSET Vectors, manifest : {None} \cup SUBSET Vectors]

Unique(set) == \A r, n \in set : Id(r) = Id(n) => r = n

Sound(g) ==
    /\ g \in Generations
    /\ \A v \in Vaults : \A c \in g.shown[v] : g.files[v][c] # None
    /\ Unique(g.vectors)
    /\ \A r \in g.vectors : r.key \in {None, r.input}
    /\ g.manifest = None \/ g.manifest \subseteq g.vectors

----------------------------------------------------------------------------
(* Rows and what is wanted.                                                *)

LEMMA VectorsFinite ==
    ASSUME NEW S \in SUBSET Vectors, Unique(S)
    PROVE  IsFiniteSet(S)
<1> DEFINE f == [r \in S |-> <<<<r.vault, r.chunk>>, r.spec>>]
           T == (Vaults \X ChunkKeys) \X Specs
<1>1. f \in Injection(S, T)
  <2>1. f \in [S -> T]
    BY DEF Vectors
  <2>2. \A r, n \in S : f[r] = f[n] => r = n
    BY DEF Unique, Id
  <2> QED BY <2>1, <2>2 DEF Injection, IsInjective
<1>2. IsFiniteSet(T)
  <2>1. IsFiniteSet(Vaults \X ChunkKeys)
    BY FS_Product
  <2> QED BY <2>1, FS_Product
<1> QED BY <1>1, <1>2, FS_Injection

(* manifest_rows tells the vectors of the Vault: the table lists none the  *)
(* store lacks, so it lists all when it lists as many.                     *)
LEMMA ReconciledRows ==
    ASSUME NEW g, Sound(g), NEW v \in Vaults
    PROVE  /\ Reconciled(g, v) \subseteq g.vectors
           /\ Rows(Reconciled(g, v), v) = Rows(g.vectors, v)
<1>1. CASE g.manifest = None
  BY <1>1 DEF Reconciled, Rows
<1>2. CASE g.manifest # None /\ Cardinality(Rows(g.manifest, v)) # Cardinality(Rows(g.vectors, v))
  BY <1>2 DEF Reconciled, Rows, Sound
<1>3. CASE g.manifest # None /\ Cardinality(Rows(g.manifest, v)) = Cardinality(Rows(g.vectors, v))
  <2>1. g.manifest \subseteq g.vectors /\ Reconciled(g, v) = g.manifest
    BY <1>3 DEF Sound, Reconciled
  <2>2. Rows(g.manifest, v) \in SUBSET Rows(g.vectors, v)
    BY <2>1 DEF Rows
  <2>3. Rows(g.vectors, v) \in SUBSET Vectors /\ Unique(Rows(g.vectors, v))
    BY DEF Sound, Generations, Rows, Unique
  <2>4. Rows(g.manifest, v) = Rows(g.vectors, v)
    BY <1>3, <2>2, <2>3, VectorsFinite, FS_Subset
  <2> QED BY <2>1, <2>4
<1> QED BY <1>1, <1>2, <1>3

(* One row is wanted for each chunk.                                       *)
LEMMA DesiredRows ==
    ASSUME NEW g, Sound(g), NEW v \in Vaults, NEW s \in Specs
    PROVE  /\ Desired(g, v, s) \in SUBSET Vectors
           /\ Unique(Desired(g, v, s))
           /\ \A x \in Desired(g, v, s) : /\ x.vault = v /\ x.spec = s /\ x.key = x.input
                                          /\ x.chunk \in g.shown[v] /\ x.input = g.files[v][x.chunk].input
           /\ \A c \in g.shown[v] : \E x \in Desired(g, v, s) :
                 x.vault = v /\ x.chunk = c /\ x.spec = s /\ x.input = g.files[v][c].input
<1>1. \A c \in g.shown[v] : c \in ChunkKeys /\ g.files[v][c] \in Contents
  BY DEF Sound, Generations
<1>2. \A c \in g.shown[v] :
        /\ Record(g, v, c, s) \in Vectors
        /\ Record(g, v, c, s).vault = v /\ Record(g, v, c, s).chunk = c /\ Record(g, v, c, s).spec = s
        /\ Record(g, v, c, s).input = g.files[v][c].input /\ Record(g, v, c, s).key = g.files[v][c].input
  BY <1>1 DEF Record, Vectors, Inputs, Metas
<1>3. Desired(g, v, s) = {Record(g, v, c, s) : c \in g.shown[v]}
  BY DEF Desired
<1>4. \A x \in Desired(g, v, s) : x = Record(g, v, x.chunk, s) /\ x.chunk \in g.shown[v]
  BY <1>2, <1>3
<1>5. Unique(Desired(g, v, s))
  BY <1>4 DEF Unique, Id
<1> QED BY <1>2, <1>3, <1>4, <1>5

(* A key that is the wanted one is of the wanted text, an older row's text *)
(* is compared itself.                                                     *)
LEMMA SameKeySameText ==
    ASSUME NEW r, NEW want, r.key \in {None, r.input}, want.key = want.input, SameKey(r, want)
    PROVE  r.input = want.input
  BY DEF SameKey

(* A row the plan keeps is of a wanted text, and a wanted text that is not *)
(* embedded has a row that is kept.                                        *)
LEMMA PlanKeeps ==
    ASSUME NEW g, Sound(g), NEW v \in Vaults, NEW s \in Specs, NEW full \in BOOLEAN
    PROVE  LET had == Rows(g.vectors, v)
               wanted == Desired(g, v, s)
           IN  /\ \A r \in had \ Deletions(had, wanted, full) :
                     \E want \in wanted : Id(want) = Id(r) /\ r.input = want.input
               /\ \A want \in wanted \ Upserts(had, wanted, full) :
                     \E r \in had \ Deletions(had, wanted, full) : Id(r) = Id(want) /\ r.input = want.input
<1> DEFINE had == Rows(g.vectors, v)
           wanted == Desired(g, v, s)
<1>1. \A r \in had : r.key \in {None, r.input}
  BY DEF Sound, Rows
<1>2. \A want \in wanted : want.key = want.input
  BY DesiredRows
<1>3. Unique(wanted)
  BY DesiredRows
<1> HIDE DEF had, wanted
<1>4. ASSUME NEW r \in had \ Deletions(had, wanted, full)
      PROVE  \E want \in wanted : Id(want) = Id(r) /\ r.input = want.input
  <2>1. PICK want \in wanted : Id(want) = Id(r) /\ SameKey(r, want)
    BY DEF Deletions
  <2> QED BY <1>1, <1>2, <2>1, SameKeySameText
<1>5. ASSUME NEW want \in wanted \ Upserts(had, wanted, full)
      PROVE  \E r \in had \ Deletions(had, wanted, full) : Id(r) = Id(want) /\ r.input = want.input
  <2>1. full # TRUE /\ Kept(had, want) # {}
    BY DEF Upserts
  <2>2. PICK r \in had : Id(r) = Id(want) /\ SameKey(r, want)
    BY <2>1 DEF Kept
  <2>3. r \notin Deletions(had, wanted, full)
    BY <2>1, <2>2 DEF Deletions
  <2> QED BY <1>1, <1>2, <2>2, <2>3, SameKeySameText
<1> QED BY <1>4, <1>5 DEF had, wanted

Written(g, v, s, full) ==
    Upserted(g.vectors \ Deletions(Rows(g.vectors, v), Desired(g, v, s), full),
             Upserts(Rows(g.vectors, v), Desired(g, v, s), full))

(* The rows a plan leaves in the store: one of an id at most, and those of *)
(* the Vault are of wanted texts.                                          *)
LEMMA WrittenRows ==
    ASSUME NEW g, Sound(g), NEW v \in Vaults, NEW s \in Specs, NEW full \in BOOLEAN
    PROVE  /\ Written(g, v, s, full) \in SUBSET Vectors /\ Unique(Written(g, v, s, full))
           /\ \A r \in Written(g, v, s, full) : r.key \in {None, r.input}
           /\ \A r \in Written(g, v, s, full) : r.vault = v =>
                 \E want \in Desired(g, v, s) : Id(want) = Id(r) /\ r.input = want.input
           /\ \A w \in Vaults \ {v} : Rows(Written(g, v, s, full), w) = Rows(g.vectors, w)
<1> DEFINE had == Rows(g.vectors, v)
           wanted == Desired(g, v, s)
           deletions == Deletions(had, wanted, full)
           upserts == Upserts(had, wanted, full)
           written == Written(g, v, s, full)
<1>1. g.vectors \subseteq Vectors /\ Unique(g.vectors) /\ \A r \in g.vectors : r.key \in {None, r.input}
  BY DEF Sound, Generations, Unique
<1>2. wanted \in SUBSET Vectors /\ Unique(wanted) /\ \A x \in wanted : x.vault = v /\ x.key = x.input
  BY DesiredRows
<1>3. upserts \subseteq wanted
  BY DEF Upserts
<1>4. \A r \in g.vectors \ deletions : r.vault = v => \E want \in wanted : Id(want) = Id(r) /\ r.input = want.input
  BY PlanKeeps DEF Rows
<1>5. deletions \subseteq had
  BY DEF Deletions
<1>6. written = {r \in g.vectors \ deletions : \A n \in upserts : Id(n) # Id(r)} \cup upserts
  BY DEF Upserted, Written
<1> HIDE DEF written, wanted, upserts, deletions
<1>7. Unique(written)
  BY <1>1, <1>2, <1>3, <1>6 DEF Unique
<1>8. \A r \in written : r.vault = v => \E want \in wanted : Id(want) = Id(r) /\ r.input = want.input
  BY <1>3, <1>4, <1>6
<1>9. \A w \in Vaults \ {v} : Rows(written, w) = Rows(g.vectors, w)
  <2> SUFFICES ASSUME NEW w \in Vaults \ {v} PROVE Rows(written, w) = Rows(g.vectors, w)
    OBVIOUS
  <2>1. \A r \in had : r.vault = v
    BY DEF Rows
  <2>2. \A n \in upserts : n.vault = v
    BY <1>2, <1>3
  <2>3. \A r \in g.vectors : r.vault = w => r \notin deletions /\ \A n \in upserts : Id(n) # Id(r)
    BY <1>5, <2>1, <2>2 DEF Id
  <2> QED BY <1>6, <2>2, <2>3 DEF Rows
<1>10. written \in SUBSET Vectors /\ \A r \in written : r.key \in {None, r.input}
  BY <1>1, <1>2, <1>3, <1>6
<1> QED BY <1>7, <1>8, <1>9, <1>10 DEF written, wanted, upserts, deletions

(* The metadata updates change a row's key to the one of its own text, and *)
(* its metadata.                                                           *)
LEMMA RefreshedRow ==
    ASSUME NEW r \in Vectors, NEW updates \in SUBSET Vectors, r.key \in {None, r.input},
           \A u \in updates : u.key = u.input,
           \A u \in updates : Id(u) = Id(r) => u.input = r.input
    PROVE  /\ Refreshed(r, updates) \in Vectors
           /\ Id(Refreshed(r, updates)) = Id(r)
           /\ Refreshed(r, updates).vault = r.vault /\ Refreshed(r, updates).chunk = r.chunk
           /\ Refreshed(r, updates).spec = r.spec /\ Refreshed(r, updates).input = r.input
           /\ Refreshed(r, updates).key \in {None, r.input}
           /\ (\A u \in updates : Id(u) # Id(r)) => Refreshed(r, updates) = r
<1> DEFINE u == CHOOSE u \in updates : Id(u) = Id(r)
<1>1. CASE \E n \in updates : Id(n) = Id(r)
  <2>1. u \in updates /\ Id(u) = Id(r)
    BY <1>1
  <2>2. u \in Vectors /\ u.key = r.input
    BY <2>1
  <2>3. Refreshed(r, updates) = [r EXCEPT !.key = u.key, !.meta = u.meta]
    BY <1>1 DEF Refreshed
  <2> HIDE DEF u
  <2>4. [r EXCEPT !.key = u.key, !.meta = u.meta] \in Vectors
    BY <2>2 DEF Vectors
  <2>5. /\ [r EXCEPT !.key = u.key, !.meta = u.meta].vault = r.vault
        /\ [r EXCEPT !.key = u.key, !.meta = u.meta].chunk = r.chunk
        /\ [r EXCEPT !.key = u.key, !.meta = u.meta].spec = r.spec
        /\ [r EXCEPT !.key = u.key, !.meta = u.meta].input = r.input
        /\ [r EXCEPT !.key = u.key, !.meta = u.meta].key = u.key
    BY DEF Vectors
  <2> QED BY <1>1, <2>2, <2>3, <2>4, <2>5 DEF Id
<1>2. CASE ~\E n \in updates : Id(n) = Id(r)
  BY <1>2 DEF Refreshed
<1> QED BY <1>1, <1>2

(* What a set of rows tells, one row at a time.                            *)
LEMMA ToldIsTrue ==
    ASSUME NEW g, NEW h, Sound(g), NEW v \in Vaults, NEW s \in Specs, NEW had,
           h.files = g.files, h.shown = g.shown,
           \A r \in had : r.vault = v =>
              \E want \in Desired(g, v, s) : Id(want) = Id(r) /\ r.input = want.input,
           \A want \in Desired(g, v, s) : \E r \in had : Id(r) = Id(want) /\ r.input = want.input
    PROVE  Told(had, v) = True(h, v, s)
<1> DEFINE tell(r) == [vault |-> r.vault, chunk |-> r.chunk, spec |-> r.spec, input |-> r.input]
<1>1. ASSUME NEW t \in Told(had, v) PROVE t \in True(h, v, s)
  <2>1. PICK r \in had : r.vault = v /\ t = tell(r)
    BY DEF Told, Rows
  <2>2. PICK want \in Desired(g, v, s) : Id(want) = Id(r) /\ r.input = want.input
    BY <2>1
  <2>3. /\ want.vault = v /\ want.spec = s /\ want.chunk \in g.shown[v]
        /\ want.input = g.files[v][want.chunk].input
    BY DesiredRows
  <2>4. t = [vault |-> v, chunk |-> want.chunk, spec |-> s, input |-> g.files[v][want.chunk].input]
    BY <2>1, <2>2, <2>3 DEF Id
  <2> QED BY <2>3, <2>4 DEF True
<1>2. ASSUME NEW t \in True(h, v, s) PROVE t \in Told(had, v)
  <2>1. PICK c \in g.shown[v] : t = [vault |-> v, chunk |-> c, spec |-> s, input |-> g.files[v][c].input]
    BY DEF True
  <2>2. PICK want \in Desired(g, v, s) :
            want.vault = v /\ want.chunk = c /\ want.spec = s /\ want.input = g.files[v][c].input
    BY DesiredRows
  <2>3. PICK r \in had : Id(r) = Id(want) /\ r.input = want.input
    BY <2>2
  <2>4. r \in Rows(had, v) /\ t = tell(r)
    BY <2>1, <2>2, <2>3 DEF Id, Rows
  <2> QED BY <2>4 DEF Told
<1> QED BY <1>1, <1>2

(* An embedding run mends its Vault, whatever it found, and leaves the     *)
(* rows of the others alone.                                               *)
LEMMA EmbeddedSound ==
    ASSUME NEW g, Sound(g), NEW v \in Vaults, NEW s \in Specs, NEW full \in BOOLEAN,
           NEW h, h = Embedded(g, v, s, full)
    PROVE  /\ Sound(h) /\ h.files = g.files /\ h.shown = g.shown
           /\ Told(h.vectors, v) = True(h, v, s)
           /\ Rows(h.manifest, v) = Rows(h.vectors, v)
           /\ \A w \in Vaults \ {v} : Rows(h.vectors, w) = Rows(g.vectors, w)
<1> DEFINE had == Rows(g.vectors, v)
           wanted == Desired(g, v, s)
           deletions == Deletions(had, wanted, full)
           upserts == Upserts(had, wanted, full)
           updates == MetadataUpdates(had, wanted, full)
           table == Reconciled(g, v)
           stored == Written(g, v, s, full)
           listed == Upserted(table \ deletions, upserts)
<1>1. table \subseteq g.vectors /\ Rows(table, v) = had
  BY ReconciledRows
<1>2. h = [g EXCEPT !.vectors = Applied(g.vectors, upserts, updates, deletions),
                    !.manifest = Applied(table, upserts, updates, deletions)]
  BY <1>1 DEF Embedded
<1>3. /\ h.vectors = {Refreshed(r, updates) : r \in stored}
      /\ h.manifest = {Refreshed(r, updates) : r \in listed}
      /\ h.files = g.files /\ h.shown = g.shown
  BY <1>2 DEF Applied, Written, Sound, Generations
<1>4. wanted \in SUBSET Vectors /\ Unique(wanted) /\ \A x \in wanted : x.vault = v /\ x.key = x.input
  BY DesiredRows
<1>5. /\ stored \in SUBSET Vectors /\ Unique(stored)
      /\ \A r \in stored : r.key \in {None, r.input}
      /\ \A r \in stored : r.vault = v => \E want \in wanted : Id(want) = Id(r) /\ r.input = want.input
      /\ \A w \in Vaults \ {v} : Rows(stored, w) = Rows(g.vectors, w)
  BY WrittenRows
<1>6. \A want \in wanted : \E r \in stored : Id(r) = Id(want) /\ r.input = want.input
  <2> SUFFICES ASSUME NEW want \in wanted
               PROVE  \E r \in stored : Id(r) = Id(want) /\ r.input = want.input
    OBVIOUS
  <2>1. CASE want \in upserts
    BY <2>1 DEF Upserted, Written
  <2>2. CASE want \notin upserts
    <3>1. PICK r \in had \ deletions : Id(r) = Id(want) /\ r.input = want.input
      BY <2>2, PlanKeeps
    <3>2. upserts \subseteq wanted
      BY DEF Upserts
    <3>3. \A n \in upserts : Id(n) # Id(r)
      BY <1>4, <2>2, <3>1, <3>2 DEF Unique
    <3>4. r \in stored
      BY <3>1, <3>3 DEF Upserted, Written, Rows
    <3> QED BY <3>1, <3>4
  <2> QED BY <2>1, <2>2
<1>7. listed \subseteq stored
  BY <1>1 DEF Upserted, Written
<1>8. Rows(listed, v) = Rows(stored, v)
  BY <1>1 DEF Upserted, Written, Rows
<1>9. updates \subseteq wanted
  BY DEF MetadataUpdates
<1> HIDE DEF stored, listed, wanted, updates, table, upserts, deletions, had
<1>10. ASSUME NEW r \in stored
       PROVE  /\ Refreshed(r, updates) \in Vectors
              /\ Id(Refreshed(r, updates)) = Id(r)
              /\ Refreshed(r, updates).vault = r.vault /\ Refreshed(r, updates).input = r.input
              /\ Refreshed(r, updates).key \in {None, r.input}
              /\ r.vault # v => Refreshed(r, updates) = r
  <2>1. r \in Vectors /\ r.key \in {None, r.input} /\ updates \in SUBSET Vectors
    BY <1>4, <1>5, <1>9
  <2>2. \A u \in updates : u.key = u.input /\ u.vault = v
    BY <1>4, <1>9
  <2>3. \A u \in updates : Id(u) = Id(r) => u.input = r.input
    BY <1>4, <1>5, <1>9, <2>2 DEF Unique, Id
  <2>4. r.vault # v => \A u \in updates : Id(u) # Id(r)
    BY <2>2 DEF Id
  <2> QED BY <2>1, <2>2, <2>3, <2>4, RefreshedRow
<1>11. h.vectors \in SUBSET Vectors /\ h.manifest \subseteq h.vectors
  BY <1>3, <1>7, <1>10
<1>12. Unique(h.vectors) /\ \A x \in h.vectors : x.key \in {None, x.input}
  BY <1>3, <1>5, <1>10 DEF Unique
<1>13. Sound(h)
  <2>1. h \in Generations
    BY <1>2, <1>3, <1>11 DEF Sound, Generations
  <2> QED BY <1>3, <1>11, <1>12, <2>1 DEF Sound
<1>14. Told(h.vectors, v) = True(h, v, s)
  <2>1. \A x \in h.vectors : x.vault = v => \E want \in Desired(g, v, s) : Id(want) = Id(x) /\ x.input = want.input
    BY <1>3, <1>5, <1>10 DEF wanted
  <2>2. \A want \in Desired(g, v, s) : \E x \in h.vectors : Id(x) = Id(want) /\ x.input = want.input
    BY <1>3, <1>6, <1>10 DEF wanted
  <2> QED BY <1>3, <2>1, <2>2, ToldIsTrue
<1>15. Rows(h.manifest, v) = Rows(h.vectors, v)
  BY <1>3, <1>7, <1>8, <1>10 DEF Rows
<1>16. \A w \in Vaults \ {v} : Rows(h.vectors, w) = Rows(g.vectors, w)
  <2> SUFFICES ASSUME NEW w \in Vaults \ {v} PROVE Rows(h.vectors, w) = Rows(g.vectors, w)
    OBVIOUS
  <2>1. Rows(h.vectors, w) = Rows(stored, w)
    BY <1>3, <1>10 DEF Rows
  <2> QED BY <1>5, <2>1
<1> QED BY <1>3, <1>13, <1>14, <1>15, <1>16

----------------------------------------------------------------------------
(* The inductive invariant.                                                *)

Runs ==
    [vault : Vaults, kind : {"index", "full", "skip", "quick"}, listed : SUBSET ChunkKeys,
     stage : {"vectors", "commit"}, work : Generations, removed : SUBSET ChunkKeys,
     embedded : BOOLEAN, cacheOk : BOOLEAN]

TypeOK ==
    /\ disk \in [Vaults -> [ChunkKeys -> Contents \cup {None}]]
    /\ spec \in Specs
    /\ run \in {None} \cup Runs

(* What was computed since the last publication that embedded is cached.   *)
CacheInv == computed \subseteq cache

(* Every vector of the active generation is of a chunk it shows.           *)
Clean(g) == \A v \in Vaults : Dangling(g, v) = {}
ActiveInv == Sound(active) /\ Clean(active)

(* A run leaves the other Vaults as they were; before its vector stage it  *)
(* knows which vectors have lost their chunk, but for those of the group   *)
(* members that a quick refresh was not asked about.                       *)
Expected(r) == r.chunk \in run.removed \/ (run.kind = "quick" /\ r.chunk \in Mates(run.listed) \ run.listed)
RunInv ==
    run # None =>
        /\ Sound(run.work)
        /\ \A w \in Vaults \ {run.vault} : Dangling(run.work, w) = {}
        /\ run.stage = "vectors" => ~run.embedded /\ \A r \in Dangling(run.work, run.vault) : Expected(r)

IInv ==
    /\ TypeOK /\ CacheInv /\ ActiveInv /\ RunInv
    /\ EmbeddingLeavesTheChunks /\ RefusedOnlyWhenADropMisses

LEMMA InitInv == Init => IInv
<1> SUFFICES ASSUME Init PROVE IInv
  OBVIOUS
<1>1. TypeOK /\ CacheInv /\ RunInv /\ EmbeddingLeavesTheChunks /\ RefusedOnlyWhenADropMisses
  BY DEF Init, TypeOK, CacheInv, RunInv, EmbeddingLeavesTheChunks, RefusedOnlyWhenADropMisses
<1> DEFINE blank == [v \in Vaults |-> [c \in ChunkKeys |-> None]]
           shown == [v \in Vaults |-> {c \in ChunkKeys : Shown(disk[v], c)}]
           older(v, c) == [vault |-> v, chunk |-> c, spec |-> spec, input |-> disk[v][c].input,
                           key |-> None, meta |-> disk[v][c].meta]
           vectors == UNION {{older(v, c) : c \in shown[v]} : v \in Vaults}
<1>2. CASE active = [files |-> blank, shown |-> [v \in Vaults |-> {}], vectors |-> {}, manifest |-> None]
  <2>1. ActiveInv
    BY <1>2 DEF ActiveInv, Sound, Generations, Unique, Clean, Dangling, Rows
  <2> QED BY <1>1, <2>1 DEF IInv
<1>3. CASE active = [files |-> disk, shown |-> shown, manifest |-> None, vectors |-> vectors]
  <2>1. disk \in [Vaults -> [ChunkKeys -> Contents \cup {None}]] /\ spec \in Specs
    BY DEF Init
  <2>2. \A v \in Vaults : \A c \in shown[v] : c \in ChunkKeys /\ disk[v][c] \in Contents
    BY <2>1 DEF Shown
  <2>3. \A v \in Vaults : \A c \in shown[v] : older(v, c) \in Vectors
    BY <2>1, <2>2 DEF Vectors, Inputs, Metas
  <2>4. \A r \in vectors : r.vault \in Vaults /\ r.chunk \in shown[r.vault] /\ r = older(r.vault, r.chunk)
    OBVIOUS
  <2>5. \A r \in vectors : r \in Vectors
    BY <2>3, <2>4
  <2>6. shown \in [Vaults -> SUBSET ChunkKeys]
    OBVIOUS
  <2> HIDE DEF shown
  <2>7. Unique(vectors)
    BY <2>4 DEF Unique, Id
  <2>8. \A r \in vectors : r.key = None
    BY <2>4
  <2> HIDE DEF vectors
  <2>9. Sound(active)
    BY <1>3, <2>1, <2>2, <2>5, <2>6, <2>7, <2>8 DEF Sound, Generations
  <2>10. Clean(active)
    BY <1>3, <2>4 DEF Clean, Dangling, Rows
  <2> QED BY <1>1, <2>9, <2>10 DEF IInv, ActiveInv
<1> QED BY <1>2, <1>3 DEF Init

----------------------------------------------------------------------------
(* The steps of a run.                                                     *)

(* The metadata stage changes which chunks the Vault shows, and only those *)
(* it opened can be lost.                                                  *)
LEMMA IndexedSound ==
    ASSUME TypeOK, ActiveInv, NEW v \in Vaults, NEW read \in SUBSET ChunkKeys, NEW h, h = Indexed(v, read)
    PROVE  /\ Sound(h)
           /\ \A w \in Vaults \ {v} : Dangling(h, w) = {}
           /\ \A r \in Dangling(h, v) : r.chunk \in (active.shown[v] \cap read) \ h.shown[v]
<1> DEFINE now == [c \in ChunkKeys |-> IF c \in read THEN disk[v][c] ELSE active.files[v][c]]
           shown == (active.shown[v] \ read) \cup {c \in read : Shown(now, c)}
<1>1. active \in Generations
  BY DEF ActiveInv, Sound
<1>2. now \in [ChunkKeys -> Contents \cup {None}] /\ shown \in SUBSET ChunkKeys
  BY <1>1 DEF TypeOK, Generations
<1>3. h = [active EXCEPT !.files[v] = now, !.shown[v] = shown]
  BY <1>1 DEF Indexed, Generations
<1>4. \A c \in shown : now[c] # None
  <2>1. \A c \in active.shown[v] \ read : c \in ChunkKeys /\ now[c] = active.files[v][c]
    BY <1>1 DEF Generations
  <2>2. \A c \in active.shown[v] : active.files[v][c] # None
    BY DEF ActiveInv, Sound
  <2>3. \A c \in {d \in read : Shown(now, d)} : now[c] # None
    BY DEF Shown
  <2> HIDE DEF now
  <2> QED BY <2>1, <2>2, <2>3
<1>5. \A c \in active.shown[v] \ shown : c \in read
  OBVIOUS
<1> HIDE DEF now, shown
<1>6. /\ h.files = [active.files EXCEPT ![v] = now] /\ h.shown = [active.shown EXCEPT ![v] = shown]
      /\ h.vectors = active.vectors /\ h.manifest = active.manifest
      /\ h \in Generations
  <2> DEFINE F == [active.files EXCEPT ![v] = now]
             S == [active.shown EXCEPT ![v] = shown]
  <2>1. F \in [Vaults -> [ChunkKeys -> Contents \cup {None}]] /\ S \in [Vaults -> SUBSET ChunkKeys]
    BY <1>1, <1>2 DEF Generations
  <2>2. h = [active EXCEPT !.files = F, !.shown = S]
    BY <1>1, <1>3 DEF Generations
  <2> HIDE DEF F, S
  <2>3. /\ h.files = F /\ h.shown = S
        /\ h.vectors = active.vectors /\ h.manifest = active.manifest
        /\ h \in Generations
    BY <1>1, <2>1, <2>2 DEF Generations
  <2> QED BY <2>3 DEF F, S
<1>7. Sound(h)
  BY <1>1, <1>4, <1>6 DEF ActiveInv, Sound, Generations
<1>8. \A w \in Vaults \ {v} : Dangling(h, w) = {}
  BY <1>1, <1>6 DEF ActiveInv, Clean, Dangling, Generations
<1>9. \A r \in Dangling(h, v) : r.chunk \in active.shown[v] \ shown
  BY <1>1, <1>6 DEF ActiveInv, Clean, Dangling, Generations
<1>10. h.shown[v] = shown
  BY <1>1, <1>6 DEF Generations
<1> QED BY <1>5, <1>7, <1>8, <1>9, <1>10

LEMMA BeginStep ==
    ASSUME IInv, NEW v \in Vaults, NEW kind \in {"index", "full", "skip", "quick"}, NEW listed \in SUBSET ChunkKeys,
           Begin(v, kind, listed)
    PROVE  IInv'
<1> DEFINE read == Opened(v, kind, listed)
           looked == IF kind = "quick" THEN listed ELSE ChunkKeys
           work == Indexed(v, read)
           removed == (active.shown[v] \cap looked) \ work.shown[v]
<1>1. run' = [vault |-> v, kind |-> kind, listed |-> listed, stage |-> "vectors", work |-> work,
              removed |-> removed, embedded |-> FALSE, cacheOk |-> TRUE]
  BY DEF Begin
<1>2. read \in SUBSET ChunkKeys
  BY DEF Opened, Mates
<1>3. kind = "quick" => read \subseteq listed \cup Mates(listed)
  BY DEF Opened, Mates
<1>4. active.shown[v] \subseteq ChunkKeys
  BY DEF IInv, ActiveInv, Sound, Generations
<1> HIDE DEF read
<1>5. /\ Sound(work) /\ \A w \in Vaults \ {v} : Dangling(work, w) = {}
      /\ \A r \in Dangling(work, v) : r.chunk \in (active.shown[v] \cap read) \ work.shown[v]
  BY <1>2, IndexedSound DEF IInv
<1> HIDE DEF work
<1>6. \A r \in Dangling(work, v) : r.chunk \in removed \/ (kind = "quick" /\ r.chunk \in Mates(listed) \ listed)
  BY <1>3, <1>4, <1>5
<1>7. removed \in SUBSET ChunkKeys
  BY <1>4
<1> HIDE DEF removed
<1>8. TypeOK'
  BY <1>1, <1>5, <1>7 DEF IInv, TypeOK, Runs, Begin, Sound
<1>9. RunInv'
  BY <1>1, <1>5, <1>6 DEF RunInv, Expected, Sound, Dangling, Mates, Rows
<1>10. CacheInv' /\ ActiveInv'
  BY DEF IInv, Begin, CacheInv, ActiveInv, Sound, Clean, Dangling
<1>11. EmbeddingLeavesTheChunks' /\ RefusedOnlyWhenADropMisses'
  BY <1>1 DEF EmbeddingLeavesTheChunks, RefusedOnlyWhenADropMisses
<1> QED BY <1>8, <1>9, <1>10, <1>11 DEF IInv

LEMMA DroppedSound ==
    ASSUME NEW g, Sound(g), NEW gone, NEW h, h = Dropped(g, gone)
    PROVE  /\ Sound(h) /\ h.files = g.files /\ h.shown = g.shown
           /\ h.vectors = g.vectors \ gone
<1>1. /\ h.vectors = g.vectors \ gone /\ h.files = g.files /\ h.shown = g.shown
      /\ h.manifest = (IF g.manifest = None THEN {} ELSE g.manifest \ gone)
  BY DEF Dropped, Sound, Generations
<1>2. h \in Generations
  BY DEF Dropped, Sound, Generations
<1> QED BY <1>1, <1>2 DEF Sound, Unique

(* A drop takes every vector it knows has lost its chunk, of the selected  *)
(* model or, in a quick refresh, of any.                                   *)
LEMMA DropSound ==
    ASSUME NEW g, Sound(g), NEW v \in Vaults, NEW kind, NEW removed, NEW h, h = Drop(g, v, kind, removed)
    PROVE  /\ Sound(h) /\ h.shown = g.shown /\ h.vectors \subseteq g.vectors
           /\ \A r \in Rows(h.vectors, v) : r.chunk \in removed => kind # "quick" /\ r.spec # spec
<1>1. CASE h = g
  <2>1. \A r \in Rows(g.vectors, v) : r.chunk \in removed => kind # "quick" /\ r.spec # spec
    BY <1>1, DroppedSound DEF Drop, ListedVectors, RemovedChunkVectors, Rows
  <2> QED BY <1>1, <2>1
<1>2. CASE h # g /\ kind = "quick"
  <2>1. h = Dropped(g, ListedVectors(g, v, removed))
    BY <1>2 DEF Drop
  <2> QED BY <1>2, <2>1, DroppedSound DEF ListedVectors, Rows
<1>3. CASE h # g /\ kind # "quick"
  <2>1. h = Dropped(g, RemovedChunkVectors(g, v, removed))
    BY <1>3 DEF Drop
  <2> QED BY <1>3, <2>1, DroppedSound DEF RemovedChunkVectors, Rows
<1> QED BY <1>1, <1>2, <1>3

LEMMA DropStep == ASSUME IInv, DropOnly PROVE IInv'
<1> DEFINE work == Drop(run.work, run.vault, run.kind, run.removed)
<1>1. run \in Runs /\ run.stage = "vectors" /\ Sound(run.work) /\ ~run.embedded
  BY DEF DropOnly, IInv, TypeOK, RunInv
<1>2. run' = [run EXCEPT !.stage = "commit", !.work = work]
  BY <1>1 DEF DropOnly, Runs
<1>3. run.vault \in Vaults /\ run.kind \in {"index", "full", "skip", "quick"}
  BY <1>1 DEF Runs
<1>4. /\ Sound(work) /\ work.shown = run.work.shown /\ work.vectors \subseteq run.work.vectors
      /\ \A r \in Rows(work.vectors, run.vault) : r.chunk \in run.removed => run.kind # "quick" /\ r.spec # spec
  BY <1>1, <1>3, DropSound
<1> HIDE DEF work
<1>5. \A w \in Vaults : Dangling(work, w) \subseteq Dangling(run.work, w)
  BY <1>4 DEF Dangling, Rows
<1>6. /\ run' \in Runs /\ run'.vault = run.vault /\ run'.kind = run.kind /\ run'.listed = run.listed
      /\ run'.stage = "commit" /\ run'.work = work /\ ~run'.embedded
  BY <1>1, <1>2, <1>4 DEF Runs, Sound
<1>7. \A r \in Dangling(work, run.vault) :
          \/ r.spec # spec /\ run.kind # "quick"
          \/ run.kind = "quick" /\ r.chunk \in Mates(run.listed) \ run.listed
  <2>1. \A r \in Dangling(work, run.vault) : Expected(r) /\ r \in Rows(work.vectors, run.vault)
    BY <1>1, <1>3, <1>5 DEF DropOnly, IInv, RunInv, Dangling
  <2> QED BY <1>4, <2>1 DEF Expected
<1>8. TypeOK'
  BY <1>6 DEF IInv, TypeOK, DropOnly
<1>9. RunInv'
  <2>1. \A w \in Vaults \ {run.vault} : Dangling(work, w) = {}
    BY <1>1, <1>5 DEF DropOnly, IInv, RunInv
  <2> QED BY <1>4, <1>6, <2>1 DEF RunInv, Sound, Dangling, Rows
<1>10. CacheInv' /\ ActiveInv'
  BY DEF IInv, DropOnly, CacheInv, ActiveInv, Sound, Clean, Dangling
<1>11. EmbeddingLeavesTheChunks'
  BY <1>6 DEF EmbeddingLeavesTheChunks
<1>12. RefusedOnlyWhenADropMisses'
  BY <1>6, <1>7 DEF RefusedOnlyWhenADropMisses, DropOnly, Dangling, Mates, Rows
<1> QED BY <1>8, <1>9, <1>10, <1>11, <1>12 DEF IInv

LEMMA EmbedStep == ASSUME IInv, EmbedAll PROVE IInv'
<1> DEFINE full == (run.kind = "full")
           work == Embedded(run.work, run.vault, spec, full)
<1>1. run \in Runs /\ run # None /\ Sound(run.work) /\ run.vault \in Vaults /\ spec \in Specs
  BY DEF EmbedAll, Embeds, IInv, TypeOK, RunInv, Runs
<1>2. run' = [run EXCEPT !.stage = "commit", !.embedded = TRUE, !.work = work]
  BY <1>1 DEF EmbedAll, Runs
<1>3. full \in BOOLEAN
  OBVIOUS
<1> HIDE DEF full
<1>4. /\ Sound(work) /\ work.shown = run.work.shown
      /\ Told(work.vectors, run.vault) = True(work, run.vault, spec)
      /\ Rows(work.manifest, run.vault) = Rows(work.vectors, run.vault)
      /\ \A w \in Vaults \ {run.vault} : Rows(work.vectors, w) = Rows(run.work.vectors, w)
  BY <1>1, <1>3, EmbeddedSound
<1> HIDE DEF work
<1>5. /\ run' \in Runs /\ run'.vault = run.vault /\ run'.kind = run.kind /\ run'.listed = run.listed
      /\ run'.stage = "commit" /\ run'.work = work /\ run'.embedded = TRUE
  BY <1>1, <1>2, <1>4 DEF Runs, Sound
<1>6. Dangling(work, run.vault) = {}
  <2> SUFFICES ASSUME NEW r \in Rows(work.vectors, run.vault) PROVE r.chunk \in work.shown[run.vault]
    BY DEF Dangling
  <2>1. [vault |-> r.vault, chunk |-> r.chunk, spec |-> r.spec, input |-> r.input] \in True(work, run.vault, spec)
    BY <1>4 DEF Told
  <2>2. PICK c \in work.shown[run.vault] :
            [vault |-> r.vault, chunk |-> r.chunk, spec |-> r.spec, input |-> r.input]
            = [vault |-> run.vault, chunk |-> c, spec |-> spec, input |-> work.files[run.vault][c].input]
    BY <2>1 DEF True
  <2>3. r.chunk = c
    BY <2>2
  <2> QED BY <2>3
<1>7. \A w \in Vaults \ {run.vault} : Dangling(work, w) = {}
  BY <1>1, <1>4 DEF IInv, RunInv, Dangling
<1>8. TypeOK'
  BY <1>5 DEF IInv, TypeOK, EmbedAll
<1>9. RunInv'
  BY <1>4, <1>5, <1>7 DEF RunInv, Sound, Dangling, Rows
<1>10. CacheInv' /\ ActiveInv'
  <2>1. CacheInv'
    BY DEF IInv, EmbedAll, Cached, CacheInv
  <2> QED BY <2>1 DEF IInv, EmbedAll, ActiveInv, Sound, Clean, Dangling
<1>11. EmbeddingLeavesTheChunks'
  BY <1>4, <1>5 DEF EmbeddingLeavesTheChunks, EmbedAll, Told, True, Rows
<1>12. RefusedOnlyWhenADropMisses'
  BY <1>5, <1>6 DEF RefusedOnlyWhenADropMisses, Dangling, Rows
<1> QED BY <1>8, <1>9, <1>10, <1>11, <1>12 DEF IInv

LEMMA PublishStep == ASSUME IInv, Publish PROVE IInv'
<1>1. run \in Runs /\ run.stage = "commit" /\ Sound(run.work) /\ Dangling(run.work, run.vault) = {}
  BY DEF Publish, IInv, TypeOK, RunInv
<1>2. \A w \in Vaults : Dangling(run.work, w) = {}
  BY <1>1 DEF Publish, IInv, RunInv
<1>3. ActiveInv'
  BY <1>1, <1>2 DEF Publish, ActiveInv, Sound, Clean, Dangling
<1>4. CacheInv'
  BY DEF IInv, Publish, CacheInv
<1>5. TypeOK' /\ RunInv' /\ EmbeddingLeavesTheChunks' /\ RefusedOnlyWhenADropMisses'
  BY DEF IInv, Publish, TypeOK, RunInv, EmbeddingLeavesTheChunks, RefusedOnlyWhenADropMisses
<1> QED BY <1>3, <1>4, <1>5 DEF IInv

(* A run that ends without publishing leaves the active generation alone.  *)
LEMMA EndStep == ASSUME IInv, EmbedSome \/ Discard \/ Refuse PROVE IInv'
<1>1. run' = None /\ UNCHANGED <<disk, spec, active>>
  BY DEF EmbedSome, Discard, Refuse
<1>2. CacheInv'
  BY DEF IInv, CacheInv, EmbedSome, Saved, Cached, Discard, Refuse
<1>3. ActiveInv'
  BY <1>1 DEF IInv, ActiveInv, Sound, Clean, Dangling
<1>4. TypeOK' /\ RunInv' /\ EmbeddingLeavesTheChunks' /\ RefusedOnlyWhenADropMisses'
  BY <1>1 DEF IInv, TypeOK, RunInv, EmbeddingLeavesTheChunks, RefusedOnlyWhenADropMisses
<1> QED BY <1>2, <1>3, <1>4 DEF IInv

LEMMA CacheStep == ASSUME IInv, CacheFails PROVE IInv'
<1>1. run \in Runs /\ run' = [run EXCEPT !.cacheOk = FALSE]
  BY DEF IInv, TypeOK, CacheFails, Embeds
<1>2. /\ run' \in Runs /\ run'.vault = run.vault /\ run'.kind = run.kind /\ run'.listed = run.listed
      /\ run'.stage = run.stage /\ run'.work = run.work /\ run'.removed = run.removed
      /\ run'.embedded = run.embedded
  BY <1>1 DEF Runs
<1>3. run # None /\ UNCHANGED <<disk, spec, active, cache, computed>>
  BY DEF CacheFails, Embeds
<1>4. TypeOK' /\ CacheInv' /\ ActiveInv'
  BY <1>2, <1>3 DEF IInv, TypeOK, CacheInv, ActiveInv, Sound, Clean, Dangling
<1>5. RunInv'
  BY <1>2, <1>3 DEF IInv, RunInv, Expected, Sound, Dangling, Mates, Rows
<1>6. EmbeddingLeavesTheChunks'
  BY <1>2, <1>3 DEF IInv, EmbeddingLeavesTheChunks, Told, True, Rows
<1>7. RefusedOnlyWhenADropMisses'
  BY <1>2, <1>3 DEF IInv, RefusedOnlyWhenADropMisses, Dangling, Mates, Rows
<1> QED BY <1>4, <1>5, <1>6, <1>7 DEF IInv

(* People edit files while a run works on its copy; the model changes      *)
(* between runs alone.                                                     *)
LEMMA WorldStep == ASSUME IInv, Edit \/ UseModel PROVE IInv'
<1>1. CASE Edit
  <2>1. disk' \in [Vaults -> [ChunkKeys -> Contents \cup {None}]]
    <3>1. PICK v \in Vaults, c \in ChunkKeys, f \in Contents \cup {None} : disk' = [disk EXCEPT ![v][c] = f]
      BY <1>1 DEF Edit
    <3>2. [disk[v] EXCEPT ![c] = f] \in [ChunkKeys -> Contents \cup {None}]
      BY DEF IInv, TypeOK
    <3> QED BY <3>1, <3>2 DEF IInv, TypeOK
  <2>2. UNCHANGED <<spec, active, cache, run, computed>>
    BY <1>1 DEF Edit
  <2>3. TypeOK' /\ CacheInv' /\ ActiveInv'
    BY <2>1, <2>2 DEF IInv, TypeOK, CacheInv, ActiveInv, Sound, Clean, Dangling
  <2>4. RunInv' /\ EmbeddingLeavesTheChunks' /\ RefusedOnlyWhenADropMisses'
    BY <2>2 DEF IInv, RunInv, Expected, Sound, Dangling, Mates, Rows, EmbeddingLeavesTheChunks, Told, True,
         RefusedOnlyWhenADropMisses
  <2> QED BY <2>3, <2>4 DEF IInv
<1>2. CASE UseModel
  <2>1. spec' \in Specs /\ run = None /\ UNCHANGED <<disk, active, cache, run, computed>>
    BY <1>2 DEF UseModel
  <2>2. TypeOK' /\ CacheInv' /\ ActiveInv'
    BY <2>1 DEF IInv, TypeOK, CacheInv, ActiveInv, Sound, Clean, Dangling
  <2>3. RunInv' /\ EmbeddingLeavesTheChunks' /\ RefusedOnlyWhenADropMisses'
    BY <2>1 DEF RunInv, EmbeddingLeavesTheChunks, RefusedOnlyWhenADropMisses
  <2> QED BY <2>2, <2>3 DEF IInv
<1> QED BY <1>1, <1>2

LEMMA StepInv == IInv /\ [Next]_vars => IInv'
<1> SUFFICES ASSUME IInv, [Next]_vars PROVE IInv'
  OBVIOUS
<1>1. CASE BeginRun
  <2>1. PICK v \in Vaults, kind \in {"index", "full", "skip", "quick"}, listed \in SUBSET ChunkKeys :
            Begin(v, kind, listed)
    BY <1>1 DEF BeginRun, Changed
  <2> QED BY <2>1, BeginStep
<1>2. CASE CacheFails                        BY <1>2, CacheStep
<1>3. CASE EmbedAll                          BY <1>3, EmbedStep
<1>4. CASE EmbedSome \/ Discard \/ Refuse    BY <1>4, EndStep
<1>5. CASE DropOnly                          BY <1>5, DropStep
<1>6. CASE Publish                           BY <1>6, PublishStep
<1>7. CASE Edit \/ UseModel                  BY <1>7, WorldStep
<1>8. CASE UNCHANGED vars
  <2>1. TypeOK' /\ CacheInv' /\ ActiveInv'
    BY <1>8 DEF vars, IInv, TypeOK, CacheInv, ActiveInv, Sound, Clean, Dangling
  <2>2. RunInv' /\ EmbeddingLeavesTheChunks' /\ RefusedOnlyWhenADropMisses'
    BY <1>8 DEF vars, IInv, RunInv, Expected, Sound, Dangling, Mates, Rows, EmbeddingLeavesTheChunks, Told, True,
         RefusedOnlyWhenADropMisses
  <2> QED BY <2>1, <2>2 DEF IInv
<1> QED BY <1>1, <1>2, <1>3, <1>4, <1>5, <1>6, <1>7, <1>8 DEF Next

----------------------------------------------------------------------------
(* The theorems.                                                           *)

THEOREM Invariance == Spec => []IInv
  BY InitInv, StepInv, PTL DEF Spec

(* Every published or worked-on generation is sound: vectors of one id at  *)
(* most, keys of the texts they embed, a table that lists no vector the    *)
(* store lacks; and the active one has no vector of a chunk it lacks.      *)
THEOREM GenerationsAreSound == Spec => [](ActiveInv /\ RunInv)
<1>1. IInv => ActiveInv /\ RunInv
  BY DEF IInv
<1> QED BY <1>1, Invariance, PTL

(* An embedding run leaves one vector for each chunk of its Vault, of its  *)
(* present text by the selected model, and nothing else, in the store and  *)
(* in the table, from whatever state earlier runs left.                    *)
THEOREM EmbeddingMends == Spec => []EmbeddingLeavesTheChunks
<1>1. IInv => EmbeddingLeavesTheChunks
  BY DEF IInv
<1> QED BY <1>1, Invariance, PTL

(* vectors_need_catch_up tells of every Vault whose active vectors are not *)
(* those an embedding run would leave.                                     *)
THEOREM StaleIsSeen == Spec => []StaleVectorsAreSeen
<1>1. IInv => StaleVectorsAreSeen
  <2> SUFFICES ASSUME IInv, NEW v \in Vaults,
                      Missing(active, v, spec) = {},
                      Deletions(Rows(active.vectors, v), Desired(active, v, spec), FALSE) = {}
               PROVE  Told(active.vectors, v) = True(active, v, spec)
    BY DEF StaleVectorsAreSeen
  <2>1. Sound(active) /\ spec \in Specs
    BY DEF IInv, ActiveInv, TypeOK
  <2>2. PICK full \in BOOLEAN : full = FALSE
    OBVIOUS
  <2>3. /\ Deletions(Rows(active.vectors, v), Desired(active, v, spec), full) = {}
        /\ Upserts(Rows(active.vectors, v), Desired(active, v, spec), full) = {}
    BY <2>2 DEF Missing
  <2>4. \A r \in Rows(active.vectors, v) :
            \E want \in Desired(active, v, spec) : Id(want) = Id(r) /\ r.input = want.input
    BY <2>1, <2>3, PlanKeeps
  <2>5. \A want \in Desired(active, v, spec) :
            \E r \in Rows(active.vectors, v) : Id(r) = Id(want) /\ r.input = want.input
    BY <2>1, <2>3, PlanKeeps
  <2>6. Rows(active.vectors, v) = {r \in active.vectors : r.vault = v}
    BY DEF Rows
  <2> QED BY <2>1, <2>4, <2>5, <2>6, ToldIsTrue
<1> QED BY <1>1, Invariance, PTL

(* The hygiene check refuses a run only where a drop missed vectors: of an *)
(* earlier model, or of a group member a quick refresh was not asked for.  *)
THEOREM RefusalsExplained == Spec => []RefusedOnlyWhenADropMisses
<1>1. IInv => RefusedOnlyWhenADropMisses
  BY DEF IInv
<1> QED BY <1>1, Invariance, PTL

(* A text that was embedded and cached is not sent to the model again      *)
(* before a publication that embedded.                                     *)
THEOREM NotEmbeddedAgain == Spec => []EmbeddedOnce
<1>1. IInv => EmbeddedOnce
  BY DEF IInv, CacheInv, EmbeddedOnce, Misses
<1> QED BY <1>1, Invariance, PTL

=============================================================================
