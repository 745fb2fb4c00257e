------------------------- MODULE CodeProjectionProofs -------------------------
(***************************************************************************)
(* Machine-checked proofs about CodeProjection, for any repositories, any  *)
(* number of overlapping commands and any bound.                           *)
(*                                                                         *)
(* The runs take no lock, so nothing says who may move: what carries the   *)
(* properties is that a command keeps its own copy of what it has read,    *)
(* and that "overtaken" tells when the pointer is no longer what it read.  *)
(***************************************************************************)
EXTENDS CodeProjection, TLAPS

USE RepositoriesAssumption, BoundAssumption, NobodyAssumption
USE DEF NotIndexed, Unreadable, Versions, world

Places == {"idle", "files", "git", "open", "build", "activate", "published", "mark",
           "layout", "compare", "answered"}
Answers == {"none", "fresh", "stale", "partial", "unknown", "unavailable"}
Contents == [Repositories -> Versions \cup {NotIndexed}]
Revisions == [Repositories -> Int \X SUBSET Int]
Databases ==
    [owner : Commands \cup {Nobody}, present : BOOLEAN, spec : Nat, content : Contents,
     revision : Revisions, last : {"unset", "fresh", "partial"}]
Questions == {<<>>} \cup UNION {[S -> Nat] : S \in SUBSET Repositories}
Jobs ==
    [at : Places, task : {"none", "index", "status"}, scope : SUBSET Repositories,
     registered : SUBSET Repositories, spec : Nat, todo : SUBSET Repositories,
     content : Contents, revision : Revisions, base : Databases, staged : Databases,
     overtaken : BOOLEAN, asked : Questions, answer : Answers, fault : BOOLEAN]

(* The sources never run ahead of the events that edit them.               *)
SourceInv ==
    /\ source \in [Repositories -> [files : Nat, head : Nat]]
    /\ events \in 0..MaxEvents
    /\ \A r \in Repositories : source[r].head <= source[r].files /\ source[r].files <= events
    /\ catalog \in SUBSET Repositories /\ catalog # {}
    /\ program \in Nat

ShapeInv ==
    /\ active \in Databases
    /\ job \in [Commands -> Jobs]

(* What a scan has still to read; a status stays one.                      *)
ScanInv(c) ==
    /\ job[c].todo \subseteq job[c].scope /\ job[c].scope \subseteq job[c].registered
    /\ job[c].at \in {"files", "git"} => job[c].todo # {} /\ job[c].task # "none"
    /\ job[c].at \in {"layout", "compare"} => job[c].todo = {}
    /\ job[c].at \in {"layout", "compare", "answered"} => job[c].task = "status"

(* What a status has read of a repository is no older than its question.   *)
Recent(c, r) == job[c].content[r] = Unreadable \/ job[c].asked[r] <= job[c].content[r]
ReadInv(c) ==
    job[c].task = "status" =>
        /\ job[c].asked \in [job[c].scope -> Nat]
        /\ \A r \in job[c].scope : job[c].asked[r] <= source[r].files
        /\ \A r \in job[c].scope \ job[c].todo : Recent(c, r)
        /\ job[c].at = "git" /\ Scanned(c) \in job[c].scope => Recent(c, Scanned(c))

(* Unless it is overtaken, what a command has opened is the active one.    *)
BaseInv(c) ==
    job[c].at \in {"build", "compare"} /\ ~job[c].overtaken =>
        job[c].base.content = active.content /\ job[c].base.revision = active.revision

(* What is about to be activated is finished, and holds the repositories   *)
(* that were not scanned as the active one does.                           *)
StagedInv(c) ==
    job[c].at = "activate" =>
        /\ job[c].staged.present /\ job[c].staged.last # "unset"
        /\ ~job[c].overtaken =>
              \A r \in Repositories \ job[c].scope :
                  /\ job[c].staged.content[r] = active.content[r]
                  /\ job[c].staged.revision[r] = active.revision[r]

AnswerInv(c) ==
    job[c].at = "answered" /\ job[c].answer = "fresh" =>
        \A r \in job[c].scope : job[c].base.content[r] >= job[c].asked[r]

CommandInv(c) == ScanInv(c) /\ ReadInv(c) /\ BaseInv(c) /\ StagedInv(c) /\ AnswerInv(c)

IInv == SourceInv /\ ShapeInv /\ ActiveComplete /\ \A c \in Commands : CommandInv(c)

----------------------------------------------------------------------------
(* Records.                                                                *)

LEMMA NothingTyped == NoDb \in Databases /\ Idle \in Jobs
<1>1. Nothing \in Contents /\ NoRevisions \in Revisions
  BY DEF Contents, Revisions, Nothing, NoRevisions
<1>3. NoDb \in Databases
  BY <1>1 DEF Databases, NoDb, EmptyDb
<1>4. <<>> \in Questions
  BY DEF Questions
<1> QED BY <1>1, <1>3, <1>4 DEF Idle, Jobs, Places, Answers

(* The owner goes, or the folder: what a database says stays.              *)
LEMMA SettledTyped ==
    ASSUME NEW x \in Databases, NEW c
    PROVE  /\ Settled(x, c) \in Databases
           /\ Settled(x, c).content = x.content /\ Settled(x, c).revision = x.revision
           /\ Settled(x, c).present = x.present /\ Settled(x, c).last = x.last
  BY DEF Settled, Databases

LEMMA GoneTyped ==
    ASSUME NEW x \in Databases, NEW c
    PROVE  /\ Gone(x, c) \in Databases
           /\ Gone(x, c).content = x.content /\ Gone(x, c).revision = x.revision
  BY DEF Gone, Databases

(* What a command is, but for the fate of the folder it has opened.        *)
Alike(j, k) ==
    /\ k.at = j.at /\ k.task = j.task /\ k.scope = j.scope /\ k.registered = j.registered
    /\ k.todo = j.todo /\ k.content = j.content /\ k.staged = j.staged /\ k.asked = j.asked
    /\ k.answer = j.answer /\ k.base.content = j.base.content /\ k.base.revision = j.base.revision
    /\ j.overtaken => k.overtaken

LEMMA StepTyped ==
    ASSUME ShapeInv, NEW c \in Commands, NEW record \in Jobs, Step(c, record)
    PROVE  /\ job' \in [Commands -> Jobs] /\ job'[c] = record
           /\ \A d \in Commands \ {c} : job'[d] = job[d]
  BY DEF ShapeInv, Step

LEMMA EndTyped ==
    ASSUME ShapeInv, NEW c \in Commands, NEW x \in Databases, EndWith(c, x)
    PROVE  /\ job' \in [Commands -> Jobs] /\ job'[c] = Idle
           /\ active' \in Databases
           /\ active'.content = x.content /\ active'.revision = x.revision
           /\ active'.present = x.present /\ active'.last = x.last
           /\ \A d \in Commands \ {c} : Alike(job[d], job'[d])
<1>1. \A d \in Commands : job[d] \in Jobs /\ job[d].base \in Databases
  BY DEF ShapeInv, Jobs
<1>2. ASSUME NEW d \in Commands \ {c}
      PROVE  job'[d] \in Jobs /\ Alike(job[d], job'[d])
  <2>1. job'[d] = [job[d] EXCEPT !.base = Settled(job[d].base, c)]
    BY <1>2 DEF EndWith
  <2>2. job'[d] \in Jobs /\ job'[d].base = Settled(job[d].base, c)
    BY <1>1, <2>1, SettledTyped DEF Jobs
  <2> QED BY <1>1, <2>1, <2>2, SettledTyped DEF Alike, Jobs
<1>3. job'[c] = Idle
  BY DEF EndWith
<1>4. job' \in [Commands -> Jobs]
  BY <1>2, <1>3, NothingTyped DEF EndWith
<1> QED BY <1>2, <1>3, <1>4, SettledTyped DEF EndWith

LEMMA FailTyped ==
    ASSUME ShapeInv, NEW c \in Commands, NEW fault \in BOOLEAN, Fail(c, fault)
    PROVE  /\ job' \in [Commands -> Jobs]
           /\ job'[c] = [Idle EXCEPT !.at = "mark", !.spec = job[c].spec, !.fault = fault]
           /\ \A d \in Commands \ {c} : Alike(job[d], job'[d])
<1>1. \A d \in Commands : job[d] \in Jobs /\ job[d].base \in Databases
  BY DEF ShapeInv, Jobs
<1>2. ASSUME NEW d \in Commands \ {c}
      PROVE  job'[d] \in Jobs /\ Alike(job[d], job'[d])
  <2>1. CASE active.owner = c
    <3>1. job'[d] = job[d]
      BY <1>2, <2>1 DEF Fail
    <3> QED BY <1>1, <3>1 DEF Alike
  <2>2. CASE active.owner # c
    <3>1. job'[d] = [job[d] EXCEPT !.base = Gone(job[d].base, c)]
      BY <1>2, <2>2 DEF Fail
    <3>2. job'[d] \in Jobs /\ job'[d].base = Gone(job[d].base, c)
      BY <1>1, <3>1, GoneTyped DEF Jobs
    <3> QED BY <1>1, <3>1, <3>2, GoneTyped DEF Alike, Jobs
  <2> QED BY <2>1, <2>2
<1>3. job'[c] = [Idle EXCEPT !.at = "mark", !.spec = job[c].spec, !.fault = fault]
  BY DEF Fail
<1>4. job'[c] \in Jobs
  BY <1>1, <1>3, NothingTyped DEF Jobs, Places
<1>5. job' \in [Commands -> Jobs]
  BY <1>2, <1>4 DEF Fail
<1> QED BY <1>2, <1>3, <1>5

----------------------------------------------------------------------------
(* What others do does not touch what a command has read.                  *)

ActiveKept == active'.content = active.content /\ active'.revision = active.revision
SourcesGoOn ==
    /\ source' \in [Repositories -> [files : Nat, head : Nat]]
    /\ \A r \in Repositories : source[r].files <= source'[r].files

LEMMA Frame ==
    ASSUME ShapeInv, SourceInv, NEW c \in Commands, CommandInv(c),
           Alike(job[c], job'[c]), ActiveKept, SourcesGoOn
    PROVE  CommandInv(c)'
<1>1. job[c] \in Jobs
  BY DEF ShapeInv
<1>2. Scanned(c)' = Scanned(c)
  BY DEF Scanned, Alike
<1>3. ScanInv(c)'
  BY DEF CommandInv, ScanInv, Alike
<1>4. ReadInv(c)'
  <2>1. SUFFICES ASSUME job[c].task = "status" PROVE ReadInv(c)'
    BY DEF ReadInv, Alike
  <2>2. \A r \in job[c].scope : job[c].asked[r] <= source'[r].files
    <3> SUFFICES ASSUME NEW r \in job[c].scope PROVE job[c].asked[r] <= source'[r].files
      OBVIOUS
    <3>1. r \in Repositories /\ job[c].asked[r] \in Nat /\ job[c].asked[r] <= source[r].files
      BY <1>1, <2>1 DEF CommandInv, ReadInv, Jobs
    <3> QED BY <3>1 DEF SourcesGoOn, SourceInv
  <2> QED BY <1>2, <2>1, <2>2 DEF CommandInv, ReadInv, Recent, Alike
<1>5. BaseInv(c)'
  BY <1>1 DEF CommandInv, BaseInv, Alike, ActiveKept, Jobs
<1>6. StagedInv(c)'
  BY <1>1 DEF CommandInv, StagedInv, Alike, ActiveKept, Jobs
<1>7. AnswerInv(c)'
  BY <1>1 DEF CommandInv, AnswerInv, Alike, Jobs
<1> QED BY <1>3, <1>4, <1>5, <1>6, <1>7 DEF CommandInv

----------------------------------------------------------------------------
(* The three ways a command moves: a step of its own, an end, a failure.   *)

LEMMA AtRest ==
    ASSUME NEW c \in Commands, job'[c].at \in {"idle", "published", "mark"},
           job'[c].task = "none", job'[c].todo = {}, job'[c].scope = {}
    PROVE  CommandInv(c)'
  BY DEF CommandInv, ScanInv, ReadInv, BaseInv, StagedInv, AnswerInv

LEMMA SourcesStay ==
    ASSUME SourceInv, UNCHANGED world, (UNCHANGED events) \/ Event
    PROVE  SourceInv' /\ SourcesGoOn
  BY DEF SourceInv, SourcesGoOn, Event

LEMMA AloneKept ==
    ASSUME IInv, NEW c \in Commands, job' \in [Commands -> Jobs], active' \in Databases,
           ActiveKept, ActiveComplete', SourceInv', SourcesGoOn, CommandInv(c)',
           \A d \in Commands \ {c} : Alike(job[d], job'[d])
    PROVE  IInv'
<1>1. \A d \in Commands \ {c} : CommandInv(d)'
  BY Frame DEF IInv
<1> QED BY <1>1 DEF IInv, ShapeInv

LEMMA StepKeeps ==
    ASSUME IInv, NEW c \in Commands, NEW record \in Jobs, Step(c, record),
           UNCHANGED <<world, active>>, (UNCHANGED events) \/ Event, CommandInv(c)'
    PROVE  IInv'
<1>1. /\ job' \in [Commands -> Jobs]
      /\ \A d \in Commands \ {c} : job'[d] = job[d]
  BY StepTyped DEF IInv
<1>2. SourceInv' /\ SourcesGoOn
  BY SourcesStay DEF IInv
<1>3. active' \in Databases /\ ActiveKept /\ ActiveComplete'
  BY DEF IInv, ShapeInv, ActiveKept, ActiveComplete, Indexed
<1>4. \A d \in Commands \ {c} : Alike(job[d], job'[d])
  BY <1>1 DEF Alike
<1> QED BY <1>1, <1>2, <1>3, <1>4, AloneKept

LEMMA EndKeeps ==
    ASSUME IInv, NEW c \in Commands, NEW x \in Databases, EndWith(c, x),
           UNCHANGED world, (UNCHANGED events) \/ Event,
           x.content = active.content, x.revision = active.revision, x.present = active.present,
           x.last \in {active.last, "partial"}
    PROVE  IInv'
<1>1. /\ job' \in [Commands -> Jobs] /\ job'[c] = Idle
      /\ active' \in Databases
      /\ active'.content = x.content /\ active'.revision = x.revision
      /\ active'.present = x.present /\ active'.last = x.last
      /\ \A d \in Commands \ {c} : Alike(job[d], job'[d])
  BY EndTyped DEF IInv
<1>2. SourceInv' /\ SourcesGoOn
  BY SourcesStay DEF IInv
<1>3. CommandInv(c)'
  BY <1>1, AtRest DEF Idle
<1>4. ActiveKept /\ ActiveComplete'
  BY <1>1 DEF IInv, ActiveKept, ActiveComplete, Indexed
<1> QED BY <1>1, <1>2, <1>3, <1>4, AloneKept

LEMMA FailKeeps ==
    ASSUME IInv, NEW c \in Commands, NEW fault \in BOOLEAN, Fail(c, fault),
           (UNCHANGED events) \/ Event
    PROVE  IInv'
<1>1. /\ job' \in [Commands -> Jobs]
      /\ job'[c] = [Idle EXCEPT !.at = "mark", !.spec = job[c].spec, !.fault = fault]
      /\ \A d \in Commands \ {c} : Alike(job[d], job'[d])
  BY FailTyped DEF IInv
<1>2. UNCHANGED <<world, active>>
  BY DEF Fail
<1>3. SourceInv' /\ SourcesGoOn
  BY <1>2, SourcesStay DEF IInv
<1>4. CommandInv(c)'
  BY <1>1, AtRest DEF Idle
<1>5. active' \in Databases /\ ActiveKept /\ ActiveComplete'
  BY <1>2 DEF IInv, ShapeInv, ActiveKept, ActiveComplete, Indexed
<1> QED BY <1>1, <1>3, <1>4, <1>5, AloneKept

----------------------------------------------------------------------------
(* The scan.                                                               *)

LEMMA BeginKeeps ==
    ASSUME IInv, NEW c \in Commands, NEW task \in {"index", "status"}, Begin(c, task)
    PROVE  IInv'
<1>1. PICK scope \in {catalog} \cup {{r} : r \in catalog} : BeginWith(c, task, scope, catalog)
  BY DEF Begin
<1>2. scope \subseteq catalog /\ scope # {} /\ catalog \subseteq Repositories
  BY DEF IInv, SourceInv
<1> DEFINE asked == IF task = "index" THEN <<>> ELSE [r \in scope |-> source[r].files]
           record == [Idle EXCEPT !.at = "files", !.task = task, !.scope = scope, !.todo = scope,
                            !.registered = catalog, !.spec = program, !.asked = asked]
<1>3. Step(c, record) /\ UNCHANGED <<world, active, events>>
  BY <1>1 DEF BeginWith
<1>4. asked \in Questions
  <2>1. CASE task = "index" BY <2>1 DEF Questions
  <2>2. CASE task = "status"
    <3>1. [r \in scope |-> source[r].files] \in [scope -> Nat]
      BY <1>2 DEF IInv, SourceInv
    <3> QED BY <1>2, <2>2, <3>1 DEF Questions
  <2> QED BY <2>1, <2>2
<1>5. program \in Nat
  BY DEF IInv, SourceInv
<1>6. record \in Jobs
  <2> HIDE DEF asked
  <2> QED BY <1>2, <1>4, <1>5, NothingTyped DEF Jobs, Places
<1>7. job'[c] = record
  <2> HIDE DEF record
  <2> QED BY <1>3, <1>6, StepTyped DEF IInv
<1>8. /\ job'[c].at = "files" /\ job'[c].task = task /\ job'[c].scope = scope
      /\ job'[c].todo = scope /\ job'[c].registered = catalog /\ job'[c].asked = asked
  BY <1>7 DEF Idle
<1>9. ReadInv(c)'
  <2>1. SUFFICES ASSUME task = "status" PROVE ReadInv(c)'
    BY <1>8 DEF ReadInv
  <2>2. /\ asked \in [scope -> Nat]
        /\ \A r \in scope : asked[r] <= source'[r].files
    BY <1>2, <1>3, <2>1 DEF IInv, SourceInv
  <2> QED BY <1>8, <2>2 DEF ReadInv
<1>10. CommandInv(c)'
  BY <1>2, <1>8, <1>9 DEF CommandInv, ScanInv, BaseInv, StagedInv, AnswerInv
<1> QED
  <2> HIDE DEF record
  <2> QED BY <1>3, <1>6, <1>10, StepKeeps

(* The files of one repository are read.  That it is one still to read     *)
(* does not matter here.                                                   *)
LEMMA ReadKeeps ==
    ASSUME IInv, NEW c \in Commands, NEW version, ReadAs(c, version),
           Scanned(c) \in Repositories => version \in Versions,
           Scanned(c) \in Repositories => version \in {Unreadable, source[Scanned(c)].files},
           (UNCHANGED events) \/ Event
    PROVE  IInv'
<1> DEFINE record == [job[c] EXCEPT !.at = "git", !.content[Scanned(c)] = version]
<1>1. Step(c, record) /\ job[c].at = "files" /\ UNCHANGED <<world, active>>
  BY DEF ReadAs
<1>2. job[c] \in Jobs /\ job[c].content \in Contents
  BY DEF IInv, ShapeInv, Jobs
<1> DEFINE content == [job[c].content EXCEPT ![Scanned(c)] = version]
<1>3. content \in Contents
  BY <1>2 DEF Contents
<1>4. record \in Jobs
  BY <1>2, <1>3 DEF Jobs, Places
<1>5. job'[c] = record
  <2> HIDE DEF record
  <2> QED BY <1>1, <1>4, StepTyped DEF IInv
<1>6. /\ job'[c].at = "git" /\ job'[c].task = job[c].task /\ job'[c].scope = job[c].scope
      /\ job'[c].todo = job[c].todo /\ job'[c].registered = job[c].registered
      /\ job'[c].asked = job[c].asked /\ job'[c].content = content
  BY <1>2, <1>5 DEF Jobs
<1>7. Scanned(c)' = Scanned(c)
  BY <1>6 DEF Scanned
<1>8. ReadInv(c)'
  <2>1. SUFFICES ASSUME job[c].task = "status" PROVE ReadInv(c)'
    BY <1>6 DEF ReadInv
  <2>2. ReadInv(c) /\ job[c].scope \subseteq Repositories
    BY <1>2 DEF IInv, CommandInv, Jobs
  <2>3. Scanned(c) \in job[c].scope => Recent(c, Scanned(c))'
    <3> SUFFICES ASSUME Scanned(c) \in job[c].scope
                 PROVE  version = Unreadable \/ job[c].asked[Scanned(c)] <= version
      BY <1>2, <1>6, <1>7, <2>2 DEF Recent, Contents
    <3> QED BY <2>1, <2>2 DEF ReadInv
  <2>4. ASSUME NEW r \in job[c].scope \ job[c].todo PROVE Recent(c, r)'
    <3>1. CASE r = Scanned(c)
      BY <1>7, <2>3, <2>4, <3>1 DEF Recent
    <3>2. CASE r # Scanned(c)
      BY <1>2, <1>6, <2>1, <2>2, <2>4, <3>2 DEF ReadInv, Recent, Contents
    <3> QED BY <3>1, <3>2
  <2> QED BY <1>1, <1>6, <1>7, <2>1, <2>2, <2>3, <2>4 DEF ReadInv
<1>9. CommandInv(c)'
  BY <1>1, <1>6, <1>8 DEF IInv, CommandInv, ScanInv, BaseInv, StagedInv, AnswerInv
<1> QED
  <2> HIDE DEF record
  <2> QED BY <1>1, <1>4, <1>9, StepKeeps

LEMMA ReadFilesKeeps ==
    ASSUME IInv, NEW c \in Commands, ReadFiles(c) \/ ReadSome(c)
    PROVE  IInv'
<1>1. CASE ReadFiles(c)
  <2>1. Scanned(c) \in Repositories => source[Scanned(c)].files \in Versions
    BY DEF IInv, SourceInv
  <2> QED BY <1>1, <2>1, ReadKeeps DEF ReadFiles
<1>2. CASE ReadSome(c)
  BY <1>2, ReadKeeps DEF ReadSome
<1> QED BY <1>1, <1>2

LEMMA AskGitKeeps ==
    ASSUME IInv, NEW c \in Commands, AskGit(c)
    PROVE  IInv'
<1> DEFINE r == Scanned(c)
           over == job[c].todo = {r}
           at == IF ~over THEN "files" ELSE IF job[c].task = "index" THEN "open" ELSE "layout"
           revision == [job[c].revision EXCEPT ![r] = Revision(r, job[c].content[r])]
           record == [job[c] EXCEPT !.at = at, !.todo = @ \ {r},
                                    !.revision[r] = Revision(r, job[c].content[r])]
<1>1. Step(c, record) /\ job[c].at = "git" /\ UNCHANGED <<world, active, events>>
  BY DEF AskGit
<1>2. job[c] \in Jobs /\ job[c].content \in Contents /\ job[c].revision \in Revisions
  BY DEF IInv, ShapeInv, Jobs
<1>3. revision \in Revisions
  <2>1. r \in Repositories => Revision(r, job[c].content[r]) \in Int \X SUBSET Int
    BY <1>2 DEF IInv, SourceInv, Revision, Contents
  <2> HIDE DEF r
  <2> QED BY <1>2, <2>1 DEF Revisions
<1>4. record \in Jobs /\ record.revision = revision
  <2> HIDE DEF r
  <2>1. at \in Places
    BY DEF Places
  <2> HIDE DEF at
  <2> QED BY <1>2, <1>3, <2>1 DEF Jobs
<1>5. job'[c] = record
  <2> HIDE DEF record
  <2> QED BY <1>1, <1>4, StepTyped DEF IInv
<1>6. /\ job'[c].at = at /\ job'[c].task = job[c].task /\ job'[c].scope = job[c].scope
      /\ job'[c].todo = job[c].todo \ {r} /\ job'[c].registered = job[c].registered
      /\ job'[c].asked = job[c].asked /\ job'[c].content = job[c].content
  <2> HIDE DEF r, at
  <2> QED BY <1>2, <1>5 DEF Jobs
<1>7. ScanInv(c) /\ ReadInv(c) /\ job[c].task \in {"none", "index", "status"}
  BY <1>2 DEF IInv, CommandInv, Jobs
<1>8. ReadInv(c)'
  <2>1. SUFFICES ASSUME job[c].task = "status" PROVE ReadInv(c)'
    BY <1>6 DEF ReadInv
  <2>2. ASSUME NEW q \in job[c].scope \ (job[c].todo \ {r}) PROVE Recent(c, q)'
    BY <1>1, <1>6, <1>7, <2>1, <2>2 DEF ReadInv, Recent
  <2>3. at # "git"
    OBVIOUS
  <2> HIDE DEF r, at
  <2> QED BY <1>1, <1>6, <1>7, <2>1, <2>2, <2>3 DEF ReadInv
<1>9. ScanInv(c)'
  <2> HIDE DEF r
  <2> QED BY <1>1, <1>6, <1>7 DEF ScanInv
<1>10. CommandInv(c)'
  BY <1>6, <1>8, <1>9 DEF CommandInv, BaseInv, StagedInv, AnswerInv
<1> QED
  <2> HIDE DEF record
  <2> QED BY <1>1, <1>4, <1>10, StepKeeps

----------------------------------------------------------------------------
(* A run.                                                                  *)

LEMMA FailuresKeep ==
    ASSUME IInv, NEW c \in Commands,
           ScanFails(c) \/ OpenRefused(c) \/ BuildRefused(c) \/ StepFails(c)
    PROVE  IInv'
<1>1. PICK fault \in BOOLEAN : Fail(c, fault) /\ ((UNCHANGED events) \/ Event)
  BY DEF ScanFails, OpenRefused, BuildRefused, StepFails
<1> QED BY <1>1, FailKeeps

LEMMA EndsKeep ==
    ASSUME IInv, NEW c \in Commands,
           Finish(c) \/ Leave(c) \/ MarkPartial(c) \/ MarkFails(c) \/ Crash(c)
    PROVE  IInv'
<1>1. active \in Databases
  BY DEF IInv, ShapeInv
<1>2. CASE Finish(c) \/ Leave(c) \/ MarkFails(c) \/ Crash(c)
  BY <1>1, <1>2, EndKeeps DEF Finish, Leave, MarkFails, Crash, world
<1>3. CASE MarkPartial(c)
  <2> DEFINE last == IF active.present /\ active.spec = job[c].spec /\ ~job[c].overtaken
                     THEN "partial" ELSE active.last
             x == [active EXCEPT !.last = last]
  <2>1. EndWith(c, x) /\ UNCHANGED <<world, events>>
    BY <1>3 DEF MarkPartial
  <2>2. /\ x \in Databases /\ x.content = active.content /\ x.revision = active.revision
        /\ x.present = active.present /\ x.last \in {active.last, "partial"}
    BY <1>1 DEF Databases
  <2> HIDE DEF x
  <2> QED BY <2>1, <2>2, EndKeeps
<1> QED BY <1>2, <1>3

LEMMA OpenActiveKeeps ==
    ASSUME IInv, NEW c \in Commands, OpenActive(c)
    PROVE  IInv'
<1> DEFINE record == [job[c] EXCEPT !.at = "build", !.base = active]
<1>1. Step(c, record) /\ UNCHANGED <<world, active, events>> /\ job[c].at = "open"
  BY DEF OpenActive
<1>2. record \in Jobs
  BY DEF IInv, ShapeInv, Jobs, Places
<1>3. job'[c] = record /\ job[c] \in Jobs
  <2> HIDE DEF record
  <2> QED BY <1>1, <1>2, StepTyped DEF IInv, ShapeInv
<1>4. /\ job'[c].at = "build" /\ job'[c].task = job[c].task /\ job'[c].scope = job[c].scope
      /\ job'[c].todo = job[c].todo /\ job'[c].registered = job[c].registered
      /\ job'[c].asked = job[c].asked /\ job'[c].content = job[c].content
      /\ job'[c].base = active
  BY <1>3 DEF Jobs
<1>5. CommandInv(c)'
  BY <1>1, <1>4 DEF IInv, CommandInv, ScanInv, ReadInv, Recent, BaseInv, StagedInv, AnswerInv
<1> QED
  <2> HIDE DEF record
  <2> QED BY <1>1, <1>2, <1>5, StepKeeps

(* The staged database is what was scanned over what was opened.           *)
LEMMA BuildKeeps ==
    ASSUME IInv, NEW c \in Commands, Build(c)
    PROVE  IInv'
<1> DEFINE Over(old, new) == [r \in Repositories |-> IF r \in job[c].scope THEN new[r] ELSE old[r]]
           base == job[c].base
           last == IF Warned(c) THEN "partial" ELSE "fresh"
           staged == [EmptyDb(c, job[c].spec) EXCEPT
                         !.content = Over(base.content, job[c].content),
                         !.revision = Over(base.revision, job[c].revision),
                         !.last = last]
           record == [Idle EXCEPT !.at = "activate", !.spec = job[c].spec, !.scope = job[c].scope,
                            !.registered = job[c].registered, !.overtaken = job[c].overtaken,
                            !.staged = staged]
<1>1. Step(c, record) /\ UNCHANGED <<world, active, events>> /\ job[c].at = "build"
  BY DEF Build, BuildFrom
<1>2. /\ job[c] \in Jobs /\ base \in Databases
      /\ job[c].content \in Contents /\ job[c].revision \in Revisions
      /\ base.content \in Contents /\ base.revision \in Revisions
  BY DEF IInv, ShapeInv, Jobs, Databases
<1>3. Over(base.content, job[c].content) \in Contents /\ Over(base.revision, job[c].revision) \in Revisions
  BY <1>2 DEF Contents, Revisions
<1>4. /\ staged \in Databases /\ staged.present /\ staged.last # "unset"
      /\ staged.content = Over(base.content, job[c].content)
      /\ staged.revision = Over(base.revision, job[c].revision)
  BY <1>2, <1>3 DEF Databases, EmptyDb, Jobs
<1>5. record \in Jobs
  <2> HIDE DEF staged
  <2> QED BY <1>2, <1>4, NothingTyped DEF Jobs, Places
<1>6. job'[c] = record
  <2> HIDE DEF record
  <2> QED BY <1>1, <1>5, StepTyped DEF IInv
<1>7. /\ job'[c].at = "activate" /\ job'[c].task = "none" /\ job'[c].todo = {}
      /\ job'[c].scope = job[c].scope /\ job'[c].registered = job[c].registered
      /\ job'[c].overtaken = job[c].overtaken /\ job'[c].staged = staged
  <2> HIDE DEF staged
  <2> QED BY <1>6 DEF Idle
<1>8. StagedInv(c)'
  <2>1. ~job[c].overtaken => base.content = active.content /\ base.revision = active.revision
    BY <1>1 DEF IInv, CommandInv, BaseInv
  <2>2. ASSUME ~job[c].overtaken, NEW r \in Repositories \ job[c].scope
        PROVE  staged.content[r] = active.content[r] /\ staged.revision[r] = active.revision[r]
    <3> HIDE DEF staged, base
    <3> QED BY <1>4, <2>1, <2>2
  <2> HIDE DEF staged
  <2> QED BY <1>1, <1>4, <1>7, <2>2 DEF StagedInv
<1>9. CommandInv(c)'
  BY <1>7, <1>8 DEF IInv, CommandInv, ScanInv, ReadInv, BaseInv, AnswerInv
<1> QED
  <2> HIDE DEF record
  <2> QED BY <1>1, <1>5, <1>9, StepKeeps

(* The pointer moves: what the others have read is overtaken.              *)
LEMMA ActivateKeeps ==
    ASSUME IInv, NEW c \in Commands, Activate(c)
    PROVE  IInv'
<1>1. /\ job[c] \in Jobs /\ job[c].staged \in Databases /\ active' = job[c].staged
      /\ job[c].staged.present /\ job[c].staged.last # "unset"
  BY DEF Activate, IInv, ShapeInv, Jobs, CommandInv, StagedInv
<1>2. job'[c] = [Idle EXCEPT !.at = "published", !.spec = job[c].spec]
  BY DEF Activate
<1>3. job'[c] \in Jobs
  BY <1>1, <1>2, NothingTyped DEF Jobs, Places
<1>4. ASSUME NEW d \in Commands \ {c}
      PROVE  /\ job'[d] \in Jobs /\ Alike(job[d], job'[d])
             /\ job'[d].at \in {"build", "activate", "compare"} => job'[d].overtaken
  <2>1. job[d] \in Jobs
    BY DEF IInv, ShapeInv
  <2>2. job'[d] = IF job[d].at \in {"build", "activate", "mark", "compare"}
                  THEN [job[d] EXCEPT !.overtaken = TRUE] ELSE job[d]
    BY <1>4 DEF Activate
  <2> QED BY <2>1, <2>2 DEF Alike, Jobs
<1>5. job' \in [Commands -> Jobs]
  BY <1>3, <1>4 DEF Activate
<1>6. SourceInv' /\ SourcesGoOn
  BY SourcesStay DEF IInv, Activate
<1>7. ActiveComplete'
  BY <1>1 DEF ActiveComplete
<1>8. CommandInv(c)'
  BY <1>2, AtRest DEF Idle
<1>9. ASSUME NEW d \in Commands \ {c} PROVE CommandInv(d)'
  <2>1. BaseInv(d)' /\ StagedInv(d)'
    <3>1. job[d] \in Jobs /\ StagedInv(d)
      BY DEF IInv, ShapeInv, CommandInv
    <3> QED BY <1>4, <1>9, <3>1 DEF BaseInv, StagedInv, Alike
  <2>2. ScanInv(d)' /\ AnswerInv(d)'
    BY <1>4, <1>9 DEF IInv, CommandInv, ScanInv, AnswerInv, Alike
  <2>3. ReadInv(d)'
    <3>1. ReadInv(d) /\ source' = source
      BY DEF IInv, CommandInv, Activate
    <3>2. Scanned(d)' = Scanned(d)
      BY <1>4, <1>9 DEF Scanned, Alike
    <3> QED BY <1>4, <1>9, <3>1, <3>2 DEF ReadInv, Recent, Alike
  <2> QED BY <2>1, <2>2, <2>3 DEF CommandInv
<1> QED BY <1>1, <1>5, <1>6, <1>7, <1>8, <1>9 DEF IInv, ShapeInv

----------------------------------------------------------------------------
(* A status.                                                               *)

LEMMA AnswerKeeps ==
    ASSUME IInv, NEW c \in Commands, NEW answer \in Answers, Answer(c, answer),
           job[c].at \in {"files", "layout", "compare"}, job[c].task = "status",
           (UNCHANGED events) \/ Event,
           answer = "fresh" => \A r \in job[c].scope : job[c].base.content[r] >= job[c].asked[r]
    PROVE  IInv'
<1> DEFINE record == [job[c] EXCEPT !.at = "answered", !.answer = answer]
<1>1. Step(c, record) /\ UNCHANGED <<world, active>>
  BY DEF Answer
<1>2. record \in Jobs
  BY DEF IInv, ShapeInv, Jobs, Places
<1>3. job'[c] = record /\ job[c] \in Jobs
  <2> HIDE DEF record
  <2> QED BY <1>1, <1>2, StepTyped DEF IInv, ShapeInv
<1>4. /\ job'[c].at = "answered" /\ job'[c].task = job[c].task /\ job'[c].scope = job[c].scope
      /\ job'[c].todo = job[c].todo /\ job'[c].registered = job[c].registered
      /\ job'[c].asked = job[c].asked /\ job'[c].content = job[c].content
      /\ job'[c].base = job[c].base /\ job'[c].answer = answer
  BY <1>3 DEF Jobs
<1>5. CommandInv(c)'
  BY <1>1, <1>4 DEF IInv, CommandInv, ScanInv, ReadInv, Recent, BaseInv, StagedInv, AnswerInv
<1> QED
  <2> HIDE DEF record
  <2> QED BY <1>1, <1>2, <1>5, StepKeeps

LEMMA ReadLayoutKeeps ==
    ASSUME IInv, NEW c \in Commands, ReadLayout(c)
    PROVE  IInv'
<1> DEFINE record == [job[c] EXCEPT !.at = "compare", !.base = active]
<1>1. Step(c, record) /\ UNCHANGED <<world, active, events>> /\ job[c].at = "layout"
  BY DEF ReadLayout
<1>2. record \in Jobs
  BY DEF IInv, ShapeInv, Jobs, Places
<1>3. job'[c] = record /\ job[c] \in Jobs
  <2> HIDE DEF record
  <2> QED BY <1>1, <1>2, StepTyped DEF IInv, ShapeInv
<1>4. /\ job'[c].at = "compare" /\ job'[c].task = job[c].task /\ job'[c].scope = job[c].scope
      /\ job'[c].todo = job[c].todo /\ job'[c].registered = job[c].registered
      /\ job'[c].asked = job[c].asked /\ job'[c].content = job[c].content
      /\ job'[c].base = active
  BY <1>3 DEF Jobs
<1>5. CommandInv(c)'
  BY <1>1, <1>4 DEF IInv, CommandInv, ScanInv, ReadInv, Recent, BaseInv, StagedInv, AnswerInv
<1> QED
  <2> HIDE DEF record
  <2> QED BY <1>1, <1>2, <1>5, StepKeeps

(* Nothing was unreadable and the database says the same: so it is no      *)
(* older than what was read, which is no older than the question.          *)
LEMMA FreshIsRecent ==
    ASSUME IInv, NEW c \in Commands, job[c].at = "compare",
           Compared(c, IF job[c].overtaken THEN job[c].base ELSE active) = "fresh"
    PROVE  \A r \in job[c].scope : job[c].base.content[r] >= job[c].asked[r]
<1> DEFINE compared == IF job[c].overtaken THEN job[c].base ELSE active
<1>1. ~Warned(c) /\ Matches(c, compared)
  <2> HIDE DEF compared
  <2>1. Compared(c, compared) = "fresh"
    BY DEF compared
  <2> QED BY <2>1 DEF Compared
<1>2. compared.content = job[c].base.content
  BY DEF IInv, CommandInv, BaseInv
<1>3. /\ job[c].scope \subseteq Repositories /\ job[c].content \in Contents
      /\ job[c].todo = {} /\ job[c].task = "status" /\ ReadInv(c)
  BY DEF IInv, ShapeInv, CommandInv, ScanInv, Jobs
<1>4. ASSUME NEW r \in job[c].scope
      PROVE  job[c].base.content[r] >= job[c].asked[r]
  <2>1. job[c].base.content[r] = job[c].content[r]
    BY <1>1, <1>2 DEF Matches
  <2>2. job[c].content[r] # Unreadable
    BY <1>1, <1>3 DEF Warned
  <2>3. job[c].asked[r] \in Nat /\ job[c].content[r] \in Int
    BY <1>3 DEF ReadInv, Contents
  <2>4. job[c].asked[r] <= job[c].content[r]
    BY <1>3, <2>2 DEF ReadInv, Recent
  <2> QED BY <2>1, <2>3, <2>4
<1> QED BY <1>4

LEMMA StatusKeeps ==
    ASSUME IInv, NEW c \in Commands,
           StatusScanFails(c) \/ ReadLayout(c) \/ NoLayout(c) \/ Compare(c)
    PROVE  IInv'
<1>1. CASE StatusScanFails(c)
  BY <1>1, AnswerKeeps DEF StatusScanFails, Answers
<1>2. CASE ReadLayout(c)
  BY <1>2, ReadLayoutKeeps
<1>3. CASE NoLayout(c)
  <2>1. job[c].task = "status"
    BY <1>3 DEF NoLayout, IInv, CommandInv, ScanInv
  <2> QED BY <1>3, <2>1, AnswerKeeps DEF NoLayout, Answers
<1>4. CASE Compare(c)
  <2> DEFINE answer == Compared(c, IF job[c].overtaken THEN job[c].base ELSE active)
  <2>1. job[c].at = "compare" /\ Answer(c, answer) /\ UNCHANGED events
    BY <1>4 DEF Compare
  <2>2. job[c].task = "status"
    BY <2>1 DEF IInv, CommandInv, ScanInv
  <2>3. answer \in Answers
    BY DEF Compared, Answers
  <2>4. answer = "fresh" => \A r \in job[c].scope : job[c].base.content[r] >= job[c].asked[r]
    BY <2>1, FreshIsRecent
  <2> HIDE DEF answer
  <2> QED BY <2>1, <2>2, <2>3, <2>4, AnswerKeeps
<1> QED BY <1>1, <1>2, <1>3, <1>4

----------------------------------------------------------------------------
(* The environment, and every step.                                        *)

LEMMA ChangeKeeps ==
    ASSUME IInv, Change, SourceInv', SourcesGoOn
    PROVE  IInv'
<1>1. UNCHANGED <<active, job>>
  BY DEF Change
<1>2. ShapeInv' /\ ActiveComplete' /\ ActiveKept /\ \A c \in Commands : Alike(job[c], job'[c])
  BY <1>1 DEF IInv, ShapeInv, ActiveComplete, Indexed, ActiveKept, Alike
<1>3. \A c \in Commands : CommandInv(c)'
  BY <1>2, Frame DEF IInv
<1> QED BY <1>2, <1>3 DEF IInv

LEMMA EnvironmentKeeps ==
    ASSUME IInv, Environment
    PROVE  IInv'
<1>1. SourceInv
  BY DEF IInv
<1>2. ASSUME NEW r \in Repositories, Edit(r) \/ GitCommit(r) PROVE IInv'
  <2>1. SourceInv' /\ SourcesGoOn
    BY <1>1, <1>2 DEF SourceInv, SourcesGoOn, Edit, GitCommit, Change, Event
  <2> QED BY <1>2, <2>1, ChangeKeeps DEF Edit, GitCommit
<1>3. ASSUME NEW r \in Repositories, AddRepository(r) \/ RemoveRepository(r) PROVE IInv'
  <2>1. SourceInv' /\ SourcesGoOn
    BY <1>1, <1>3 DEF SourceInv, SourcesGoOn, AddRepository, RemoveRepository, Change, Event
  <2> QED BY <1>3, <2>1, ChangeKeeps DEF AddRepository, RemoveRepository
<1>4. CASE Upgrade
  <2>1. SourceInv' /\ SourcesGoOn
    BY <1>1, <1>4 DEF SourceInv, SourcesGoOn, Upgrade, Change, Event
  <2> QED BY <1>4, <2>1, ChangeKeeps DEF Upgrade
<1> QED BY <1>2, <1>3, <1>4 DEF Environment

LEMMA InitInv == Init => IInv
<1> SUFFICES ASSUME Init PROVE IInv
  OBVIOUS
<1>1. SourceInv
  BY DEF Init, SourceInv
<1>2. ShapeInv
  BY NothingTyped DEF Init, ShapeInv
<1>3. ActiveComplete
  BY DEF Init, ActiveComplete, Indexed, NoDb, EmptyDb, Nothing
<1>4. \A c \in Commands : CommandInv(c)
  BY DEF Init, Idle, CommandInv, ScanInv, ReadInv, BaseInv, StagedInv, AnswerInv
<1> QED BY <1>1, <1>2, <1>3, <1>4 DEF IInv

LEMMA NextInv == IInv /\ [Next]_vars => IInv'
<1> SUFFICES ASSUME IInv, [Next]_vars PROVE IInv'
  OBVIOUS
<1>1. ASSUME NEW c \in Commands, Index(c) \/ Status(c) PROVE IInv'
  BY <1>1, BeginKeeps DEF Index, Status
<1>2. ASSUME NEW c \in Commands, ReadFiles(c) \/ ReadSome(c) PROVE IInv'
  BY <1>2, ReadFilesKeeps
<1>3. ASSUME NEW c \in Commands, AskGit(c) PROVE IInv'
  BY <1>3, AskGitKeeps
<1>4. ASSUME NEW c \in Commands, Apply(c) PROVE IInv'
  BY <1>4, OpenActiveKeeps, FailuresKeep, BuildKeeps, ActivateKeeps, EndsKeep DEF Apply
<1>5. ASSUME NEW c \in Commands, Report(c) PROVE IInv'
  BY <1>5, StatusKeeps, EndsKeep DEF Report
<1>6. ASSUME NEW c \in Commands, Failure(c) PROVE IInv'
  BY <1>6, ReadFilesKeeps, FailuresKeep, StatusKeeps, EndsKeep DEF Failure
<1>7. CASE Environment
  BY <1>7, EnvironmentKeeps
<1>8. CASE UNCHANGED vars
  <2>1. UNCHANGED <<source, catalog, program, active, job, events>>
    BY <1>8 DEF vars
  <2>2. SourceInv' /\ SourcesGoOn
    BY <2>1 DEF IInv, SourceInv, SourcesGoOn
  <2>3. ShapeInv' /\ ActiveComplete' /\ ActiveKept /\ \A c \in Commands : Alike(job[c], job'[c])
    BY <2>1 DEF IInv, ShapeInv, ActiveComplete, Indexed, ActiveKept, Alike
  <2>4. \A c \in Commands : CommandInv(c)'
    BY <2>3, <2>2, Frame DEF IInv
  <2> QED BY <2>2, <2>3, <2>4 DEF IInv
<1> QED BY <1>1, <1>2, <1>3, <1>4, <1>5, <1>6, <1>7, <1>8 DEF Next

(* A staged database is published by the command that staged it.           *)
LEMMA OnlyActivatePublishes ==
    ASSUME ShapeInv, Next, NEW c \in Commands,
           job[c].at = "activate", job'[c].at = "published"
    PROVE  Activate(c)
<1> USE DEF ShapeInv
<1>2. ASSUME NEW d \in Commands, NEW x \in Databases, EndWith(d, x) PROVE FALSE
  BY <1>2, EndTyped DEF Alike, Idle
<1>3. ASSUME NEW d \in Commands, NEW fault \in BOOLEAN, Fail(d, fault) PROVE FALSE
  BY <1>3, FailTyped DEF Alike, Idle
<1>4. PICK d \in Commands :
          Index(d) \/ Status(d) \/ ReadFiles(d) \/ AskGit(d) \/ Apply(d) \/ Report(d) \/ Failure(d)
  BY DEF Next, Environment, Edit, GitCommit, AddRepository, RemoveRepository, Upgrade, Change
<1>5. job[d] \in Jobs /\ active \in Databases
  OBVIOUS
<1>6. ~(Index(d) \/ Status(d) \/ ReadFiles(d) \/ ReadSome(d))
  BY <1>5 DEF Index, Status, Begin, BeginWith, ReadFiles, ReadSome, ReadAs, Step, Idle, Jobs
<1>7. ~AskGit(d)
  BY <1>5 DEF AskGit, Step, Jobs
<1>8. ~(OpenActive(d) \/ Build(d) \/ ReadLayout(d))
  BY <1>5 DEF OpenActive, Build, BuildFrom, ReadLayout, Step, Idle, Jobs
<1>9. ~(NoLayout(d) \/ Compare(d) \/ StatusScanFails(d))
  BY <1>5 DEF NoLayout, Compare, StatusScanFails, Answer, Step, Jobs
<1>10. ~(OpenRefused(d) \/ BuildRefused(d) \/ ScanFails(d) \/ StepFails(d))
  BY <1>3 DEF OpenRefused, BuildRefused, ScanFails, StepFails
<1>11. ~(Finish(d) \/ Leave(d) \/ MarkFails(d) \/ Crash(d))
  BY <1>2, <1>5 DEF Finish, Leave, MarkFails, Crash
<1>12. ~MarkPartial(d)
  <2> DEFINE last == IF active.present /\ active.spec = job[d].spec /\ ~job[d].overtaken
                     THEN "partial" ELSE active.last
             x == [active EXCEPT !.last = last]
  <2>1. x \in Databases
    BY <1>5 DEF Databases
  <2>2. MarkPartial(d) => EndWith(d, x)
    BY DEF MarkPartial
  <2> HIDE DEF x
  <2> QED BY <1>2, <2>1, <2>2
<1>13. Activate(d)
  BY <1>4, <1>6, <1>7, <1>8, <1>9, <1>10, <1>11, <1>12 DEF Apply, Report, Failure
<1>14. d = c
  BY <1>5, <1>13 DEF Activate, Jobs
<1> QED BY <1>13, <1>14

----------------------------------------------------------------------------
(* Theorems.                                                               *)

(* The invariant holds in every reachable state.                           *)
THEOREM Invariance == Spec => []IInv
  BY InitInv, NextInv, PTL DEF Spec

(* Every variable has its type, and a command works on repositories of the *)
(* catalog it has loaded.                                                  *)
THEOREM TypeCorrect == Spec => []TypeOK
<1>1. IInv => TypeOK
  BY DEF IInv, SourceInv, ShapeInv, CommandInv, ScanInv, TypeOK, Databases, Contents
<1> QED BY Invariance, <1>1, PTL

(* What active.json names is finished and "fresh" is not said of content   *)
(* older than the question, however many commands overlap, fail and die.   *)
THEOREM StatusTold == Spec => []StatusIsTrue
<1>1. IInv => StatusIsTrue
  <2> SUFFICES ASSUME IInv PROVE StatusIsTrue
    OBVIOUS
  <2>1. FreshSinceAsked
    BY DEF IInv, CommandInv, AnswerInv, FreshSinceAsked
  <2> QED BY <2>1 DEF IInv, StatusIsTrue
<1> QED BY Invariance, <1>1, PTL

(* Unless another run has activated meanwhile, a run of some repositories  *)
(* leaves what is served of the others as it is.                           *)
THEOREM OthersStay == Spec => OthersKeptUnlessOvertaken
<1>1. IInv /\ [Next]_vars => [OthersKept]_vars
  <2> SUFFICES ASSUME IInv, [Next]_vars, NEW c \in Commands,
                      job[c].at = "activate", job'[c].at = "published", ~job[c].overtaken,
                      NEW r \in Indexed(active) \ job[c].scope
               PROVE  /\ active'.content[r] = active.content[r]
                      /\ active'.revision[r] = active.revision[r]
    BY DEF OthersKept
  <2>1. Next
    BY DEF vars
  <2>2. active' = job[c].staged
    BY <2>1, OnlyActivatePublishes DEF IInv, Activate
  <2>3. r \in Repositories \ job[c].scope
    BY DEF Indexed
  <2> QED BY <2>2, <2>3 DEF IInv, CommandInv, StagedInv
<1> QED BY Invariance, <1>1, PTL DEF Spec, OthersKeptUnlessOvertaken

=============================================================================
