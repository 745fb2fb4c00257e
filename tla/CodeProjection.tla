---------------------------- MODULE CodeProjection ----------------------------
(***************************************************************************)
(* The code projection: `vg code index`, `vg code status` and the catalog  *)
(* of repositories (project/code, storage/local/sqlite_code_projection_    *)
(* store.py).                                                              *)
(*                                                                         *)
(* A run scans the repositories of its scope, clones the database of the   *)
(* active generation into a staged one, replaces in it what it scanned and *)
(* activates it by replacing one pointer file.  Other than the Vault       *)
(* generations there is no lock and no cleanup: runs overlap, and the last *)
(* to activate wins.  A run that fails marks the active database partial.  *)
(* The status command scans the sources and compares.                      *)
(*                                                                         *)
(* The selected files of a repository are abstracted to one version; the   *)
(* parsed symbols and edges are a function of them.  A generation is its   *)
(* database, which only a marker changes once it is active: a command that *)
(* has opened one holds a copy of it.                                      *)
(***************************************************************************)
EXTENDS Integers, FiniteSetsExt

CONSTANTS
    Repositories, \* numbers: they are scanned in the order of their ids
    Commands,     \* processes that run one `vg code` command after the other
    MaxEvents,    \* bound: edits, commits, catalog changes, upgrades, failing steps, deaths
    Nobody

ASSUME RepositoriesAssumption == Repositories # {}
ASSUME BoundAssumption == MaxEvents \in Nat
ASSUME NobodyAssumption == Nobody \notin Commands

VARIABLES
    source,   \* each repository: the version of its files, and that of HEAD
    catalog,  \* the registered repositories
    program,  \* CODE_PARSER_SPEC_VERSION of the installed program
    active,   \* the database that projections/code/active.json names
    job,      \* each command
    events

vars == <<source, catalog, program, active, job, events>>
world == <<source, catalog, program>>

NotIndexed == -2
Unreadable == -1  \* a scan that could not read some of the files
Versions == Unreadable..MaxEvents

Nothing == [r \in Repositories |-> NotIndexed]
NoRevisions == [r \in Repositories |-> <<NotIndexed, {}>>]

(* owner: the command that still may discard the folder.                   *)
EmptyDb(owner, spec) ==
    [owner |-> owner, present |-> TRUE, spec |-> spec, content |-> Nothing,
     revision |-> NoRevisions, last |-> "unset"]
NoDb == [EmptyDb(Nobody, 0) EXCEPT !.present = FALSE]

Indexed(db) == {r \in Repositories : db.content[r] # NotIndexed}

Idle == [at |-> "idle", task |-> "none", scope |-> {}, registered |-> {}, spec |-> 0,
         todo |-> {}, content |-> Nothing, revision |-> NoRevisions, base |-> NoDb,
         staged |-> NoDb, overtaken |-> FALSE, asked |-> <<>>, answer |-> "none",
         fault |-> FALSE]

Init ==
    /\ source = [r \in Repositories |-> [files |-> 0, head |-> 0]]
    /\ catalog = Repositories
    /\ program = 0
    /\ active = NoDb
    /\ job = [c \in Commands |-> Idle]
    /\ events = 0

----------------------------------------------------------------------------
Step(c, record) == job' = [job EXCEPT ![c] = record]

Event == events < MaxEvents /\ events' = events + 1

(* The command ends, or its process does: what it published stays.         *)
Settled(db, c) == [db EXCEPT !.owner = IF @ = c THEN Nobody ELSE @]

EndWith(c, db) ==
    /\ active' = Settled(db, c)
    /\ job' = [d \in Commands |-> IF d = c THEN Idle
                                  ELSE [job[d] EXCEPT !.base = Settled(@, c)]]

(* Both commands: the catalog is loaded once, then each repository of the  *)
(* scope is read, files first and git afterwards.                          *)

BeginWith(c, task, scope, registered) ==
    /\ job[c].at = "idle"
    /\ Step(c, [Idle EXCEPT !.at = "files", !.task = task, !.scope = scope, !.todo = scope,
                            !.registered = registered, !.spec = program,
                            !.asked = IF task = "index" THEN <<>>
                                      ELSE [r \in scope |-> source[r].files]])
    /\ UNCHANGED <<world, active, events>>

(* _select_entries: an empty scope stands for the catalog.                 *)
Begin(c, task) ==
    \E scope \in {catalog} \cup {{r} : r \in catalog} : BeginWith(c, task, scope, catalog)

Index(c) == Begin(c, "index")
Status(c) == Begin(c, "status")

Scanned(c) == Min(job[c].todo)

(* read_bytes of the selected files of the next repository.                *)
ReadAs(c, version) ==
    /\ job[c].at = "files"
    /\ Step(c, [job[c] EXCEPT !.at = "git", !.content[Scanned(c)] = version])
    /\ UNCHANGED <<world, active>>

ReadFiles(c) == ReadAs(c, source[Scanned(c)].files) /\ UNCHANGED events
ReadSome(c) == ReadAs(c, Unreadable) /\ Event

(* _source_revision: HEAD alone when the working tree is clean by now.     *)
Revision(r, content) ==
    <<source[r].head, IF source[r].files = source[r].head THEN {} ELSE {content}>>

AskGit(c) ==
    /\ job[c].at = "git"
    /\ LET r == Scanned(c)
           over == job[c].todo = {r}
       IN  Step(c, [job[c] EXCEPT
                !.at = IF ~over THEN "files" ELSE IF job[c].task = "index" THEN "open" ELSE "layout",
                !.todo = @ \ {r},
                !.revision[r] = Revision(r, job[c].content[r])])
    /\ UNCHANGED <<world, active, events>>

(* The warnings of a scan.                                                 *)
Warned(c) == \E r \in Repositories : job[c].content[r] = Unreadable

----------------------------------------------------------------------------
(* CodeProjectionService.apply                                             *)

(* The except clause.  discard() refuses the active generation; the folder *)
(* of an overtaken one is removed, also under a run that has opened it.    *)
Gone(db, c) == [db EXCEPT !.present = @ /\ db.owner # c]

(* Mutant: discard() does not compare with the pointer.                    *)
FailUnchecked(c, fault) ==
    /\ Step(c, [Idle EXCEPT !.at = "mark", !.spec = job[c].spec, !.fault = fault])
    /\ active' = Gone(active, c)
    /\ UNCHANGED world

(* Then the generation to mark is looked up.                               *)
Fail(c, fault) ==
    /\ job' = [d \in Commands |->
                  IF d = c THEN [Idle EXCEPT !.at = "mark", !.spec = job[c].spec, !.fault = fault]
                  ELSE IF active.owner = c THEN job[d]
                  ELSE [job[d] EXCEPT !.base = Gone(@, c)]]
    /\ UNCHANGED <<world, active>>

(* The root of a repository is gone, or a link leaves it.                  *)
ScanFails(c) == job[c].at = "files" /\ job[c].task = "index" /\ Event /\ Fail(c, TRUE)

(* _open_active_store: the database of another program version is refused. *)
OpenActive(c) ==
    /\ job[c].at = "open"
    /\ active.present => active.spec = job[c].spec
    /\ Step(c, [job[c] EXCEPT !.at = "build", !.base = active])
    /\ UNCHANGED <<world, active, events>>

OpenRefused(c) ==
    /\ job[c].at = "open"
    /\ active.present /\ active.spec # job[c].spec
    /\ Fail(c, FALSE) /\ UNCHANGED events

(* _generation_repository_ids                                              *)
GenerationRepositories(c) == (Indexed(job[c].base) \cap job[c].registered) \cup job[c].scope

(* "scoped code projection cannot establish untouched source revisions"    *)
RevisionsKnown(c) == Indexed(job[c].base) \cup job[c].scope = GenerationRepositories(c)

(* The folder to copy is still there, or it held nothing to keep: the      *)
(* store refuses a plan that lists files it does not have.                 *)
FilesKnown(c) == job[c].base.present \/ GenerationRepositories(c) = job[c].scope

(* A new folder, the copy, apply_reconcile_plan and record_freshness, in a *)
(* database nobody else opens: the scanned repositories are replaced.      *)
BuildFrom(c, base, last) ==
    LET Over(old, new) == [r \in Repositories |-> IF r \in job[c].scope THEN new[r] ELSE old[r]]
    IN  /\ job[c].at = "build" /\ RevisionsKnown(c) /\ FilesKnown(c)
        /\ Step(c, [Idle EXCEPT
               !.at = "activate", !.spec = job[c].spec, !.scope = job[c].scope,
               !.registered = job[c].registered, !.overtaken = job[c].overtaken,
               !.staged = [EmptyDb(c, job[c].spec) EXCEPT
                              !.content = Over(base.content, job[c].content),
                              !.revision = Over(base.revision, job[c].revision),
                              !.last = last]])
        /\ UNCHANGED <<world, active, events>>

(* Mutants: the active database is not copied; it is not stamped.          *)
BuildEmpty(c) == BuildFrom(c, NoDb, IF Warned(c) THEN "partial" ELSE "fresh")
BuildUnstamped(c) == BuildFrom(c, job[c].base, "unset")

Build(c) == BuildFrom(c, job[c].base, IF Warned(c) THEN "partial" ELSE "fresh")

(* Without the copy a file deleted since is refused as well.               *)
BuildRefused(c) ==
    /\ job[c].at = "build"
    /\ \/ ~(RevisionsKnown(c) /\ FilesKnown(c))
       \/ Indexed(job[c].base) # {} /\ ~job[c].base.present
    /\ Fail(c, FALSE) /\ UNCHANGED events

(* For the commands that have read the pointer it is now another one.      *)
Activate(c) ==
    /\ job[c].at = "activate"
    /\ active' = job[c].staged
    /\ job' = [d \in Commands |->
                  IF d = c THEN [Idle EXCEPT !.at = "published", !.spec = job[c].spec]
                  ELSE IF job[d].at \in {"build", "activate", "mark", "compare"}
                  THEN [job[d] EXCEPT !.overtaken = TRUE] ELSE job[d]]
    /\ UNCHANGED <<world, events>>

(* A write fails, or a read of the old database after the activation.      *)
StepFails(c) ==
    /\ job[c].at \in {"build", "activate", "published"}
    /\ Event /\ Fail(c, TRUE)

Finish(c) ==
    /\ job[c].at = "published"
    /\ EndWith(c, active)
    /\ UNCHANGED <<world, events>>

(* _record_active_failure, in place; that of an overtaken database is lost. *)
MarkPartial(c) ==
    /\ job[c].at = "mark"
    /\ EndWith(c, [active EXCEPT !.last =
           IF active.present /\ active.spec = job[c].spec /\ ~job[c].overtaken
           THEN "partial" ELSE @])
    /\ UNCHANGED <<world, events>>

MarkFails(c) ==
    /\ job[c].at = "mark"
    /\ Event /\ EndWith(c, active)
    /\ UNCHANGED world

----------------------------------------------------------------------------
(* CodeFreshnessService.compare, after its scan.                           *)

Answer(c, answer) ==
    /\ Step(c, [job[c] EXCEPT !.at = "answered", !.answer = answer])
    /\ UNCHANGED <<world, active>>

StatusScanFails(c) ==
    /\ job[c].at = "files" /\ job[c].task = "status"
    /\ Event /\ Answer(c, "unknown")

ReadLayout(c) ==
    /\ job[c].at = "layout" /\ job[c].scope \subseteq Indexed(active)
    /\ Step(c, [job[c] EXCEPT !.at = "compare", !.base = active])
    /\ UNCHANGED <<world, active, events>>

NoLayout(c) ==
    /\ job[c].at = "layout" /\ ~(job[c].scope \subseteq Indexed(active))
    /\ Answer(c, "unavailable") /\ UNCHANGED events

(* The policy revision of a generation is a digest over its repositories:  *)
(* it differs as soon as one of them is not registered any more.           *)
Compatible(c, db) ==
    db.present /\ db.spec = job[c].spec /\ Indexed(db) \subseteq job[c].registered

(* Mutant: the revisions alone are compared.                               *)
MatchesRevisions(c, db) == \A r \in job[c].scope : db.revision[r] = job[c].revision[r]

Matches(c, db) ==
    \A r \in job[c].scope : /\ db.revision[r] = job[c].revision[r]
                            /\ db.content[r] = job[c].content[r]

(* The marker is read last.                                                *)
Compared(c, db) ==
    CASE ~Compatible(c, db) -> "unavailable"
      [] Compatible(c, db) /\ Warned(c) -> "unknown"
      [] Compatible(c, db) /\ ~Warned(c) /\ db.last = "partial" -> "partial"
      [] OTHER -> IF Matches(c, db) THEN "fresh" ELSE "stale"

Compare(c) ==
    /\ job[c].at = "compare"
    /\ Answer(c, Compared(c, IF job[c].overtaken THEN job[c].base ELSE active))
    /\ UNCHANGED events

Leave(c) ==
    /\ job[c].at = "answered"
    /\ EndWith(c, active)
    /\ UNCHANGED <<world, events>>

----------------------------------------------------------------------------
(* The environment.                                                        *)

(* Ctrl-C included: nothing but the exceptions of the list is caught.      *)
Crash(c) ==
    /\ job[c].at # "idle"
    /\ Event /\ EndWith(c, active)
    /\ UNCHANGED world

Change ==
    /\ Event
    /\ UNCHANGED <<active, job>>

Edit(r) ==
    /\ source' = [source EXCEPT ![r].files = @ + 1]
    /\ Change /\ UNCHANGED <<catalog, program>>

GitCommit(r) ==
    /\ source[r].head # source[r].files
    /\ source' = [source EXCEPT ![r].head = source[r].files]
    /\ Change /\ UNCHANGED <<catalog, program>>

(* CodeRepositoryCatalogService.add and .remove: configuration only.       *)
AddRepository(r) ==
    /\ r \notin catalog
    /\ catalog' = catalog \cup {r}
    /\ Change /\ UNCHANGED <<source, program>>

(* An empty catalog is left out: there is nothing to scan.                 *)
RemoveRepository(r) ==
    /\ catalog \ {r} \notin {catalog, {}}
    /\ catalog' = catalog \ {r}
    /\ Change /\ UNCHANGED <<source, program>>

Upgrade == program' = program + 1 /\ Change /\ UNCHANGED <<source, catalog>>

----------------------------------------------------------------------------
Apply(c) ==
    \/ OpenActive(c) \/ OpenRefused(c) \/ Build(c) \/ BuildRefused(c)
    \/ Activate(c) \/ Finish(c) \/ MarkPartial(c)

Report(c) == ReadLayout(c) \/ NoLayout(c) \/ Compare(c) \/ Leave(c)

Failure(c) ==
    \/ ReadSome(c) \/ ScanFails(c) \/ StatusScanFails(c)
    \/ StepFails(c) \/ MarkFails(c) \/ Crash(c)

Environment ==
    \/ \E r \in Repositories : Edit(r) \/ GitCommit(r) \/ AddRepository(r) \/ RemoveRepository(r)
    \/ Upgrade

Next ==
    \/ \E c \in Commands :
           Index(c) \/ Status(c) \/ ReadFiles(c) \/ AskGit(c) \/ Apply(c) \/ Report(c) \/ Failure(c)
    \/ Environment

Spec == Init /\ [][Next]_vars

----------------------------------------------------------------------------
(* Properties.                                                             *)

(* Every variable has its type, and a command works on repositories of the *)
(* catalog it has loaded.                                                  *)
TypeOK ==
    /\ catalog \subseteq Repositories
    /\ \A r \in Repositories : source[r].head <= source[r].files
    /\ active.last \in {"unset", "fresh", "partial"}
    /\ active.owner \in Commands \cup {Nobody}
    /\ \A r \in Repositories : active.content[r] \in Versions \cup {NotIndexed}
    /\ \A c \in Commands :
        /\ job[c].todo \subseteq job[c].scope /\ job[c].scope \subseteq job[c].registered
        /\ job[c].at \in {"files", "git"} => job[c].todo # {}

(* The pointer names a database that is there and that a run has finished  *)
(* and stamped, whatever fails or dies and however runs overlap: discard() *)
(* never removes what is active (code_generation.py).                      *)
ActiveComplete == Indexed(active) # {} => active.present /\ active.last # "unset"

(* "fresh" is never said of content older than what the sources held when  *)
(* the status was asked for, although files are read before git is asked,  *)
(* and runs may publish in between (code_freshness.py compare()).          *)
FreshSinceAsked ==
    \A c \in Commands :
        job[c].at = "answered" /\ job[c].answer = "fresh" =>
            \A r \in job[c].scope : job[c].base.content[r] >= job[c].asked[r]

(* The pointer names a finished database, and no old content is "fresh".  *)
StatusIsTrue == ActiveComplete /\ FreshSinceAsked

(* A run of some repositories leaves what is served of the others as it    *)
(* is, unless another run has activated since it read the active one.      *)
OthersKept ==
    \A c \in Commands :
        job[c].at = "activate" /\ job'[c].at = "published" /\ ~job[c].overtaken =>
            \A r \in Indexed(active) \ job[c].scope :
                /\ active'.content[r] = active.content[r]
                /\ active'.revision[r] = active.revision[r]
OthersKeptUnlessOvertaken == [][OthersKept]_vars

(* docs/superpowers/specs/2026-08-03-round-1-code-projection-design.md:577 *)
(* "`vg code repository remove` removes the catalog entry and its derived  *)
(* code projection namespace": a run that meets no failure still succeeds. *)
RunsSucceedAfterRemove ==
    \A c \in Commands : job[c].at = "mark" /\ program = 0 => job[c].fault

=============================================================================
