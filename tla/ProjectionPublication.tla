----------------------- MODULE ProjectionPublication -----------------------
(***************************************************************************)
(* Publication of index generations under one Data Home                    *)
(* (indexing/publication/projection_generation.py, and the part of         *)
(* interface/composition/local_index_service_factory.py that drives it).   *)
(*                                                                         *)
(* An index run ("publisher": vg index, vg setup, vg watch, the session    *)
(* start refresh, the MCP background index) takes the cross-process lock   *)
(* projections/.publish.lock, clones the active generation into a new      *)
(* folder, edits the clone, and publishes it by replacing two pointer      *)
(* files one after the other: projections/active.json, then the pointer in *)
(* data-home.json.  previous.json keeps the replaced pointer.  Nothing is  *)
(* transactional across these files, the folders and the lock: a write can *)
(* fail, a user can interrupt the run, the process can die at any step.    *)
(*                                                                         *)
(* The content of a generation is abstracted to the set of runs it holds   *)
(* the results of: a run is named by the generation it staged.             *)
(***************************************************************************)
EXTENDS FiniteSets

CONSTANTS
    Publishers,   \* processes that index; each opens one run at a time
    Impatient,    \* those that pass a lock_timeout (session start refresh)
    Generations,  \* generation ids, uuid4().hex: one is never minted twice
    Faults,       \* which failures the environment may inject
    NoGen,        \* no generation: the file or the field is not there
    NoPublisher   \* nobody holds the flock

FaultKinds == {"clone", "write", "restore", "post", "interrupt", "crash"}

ASSUME ImpatientAssumption == Impatient \subseteq Publishers
ASSUME NoGenAssumption == NoGen \notin Generations
ASSUME NoPublisherAssumption == NoPublisher \notin Publishers
ASSUME FaultsAssumption == Faults \subseteq FaultKinds

VARIABLES
    folder,    \* projections/generations/<g>
    aged,      \* folders last modified more than an hour ago
    runs,      \* runs[g]: the runs whose results the folder g holds
    active,    \* projections/active.json
    home,      \* active_generation_id of data-home.json
    previous,  \* projections/previous.json
    lock,      \* who holds the flock on projections/.publish.lock
    pc,        \* where each publisher is
    gen,       \* its staged generation (LocalIndexServiceBundle)
    seen,      \* the active generation it last read while it held the lock
    doomed     \* the folders its cleanup loop still has to remove

vars == <<folder, aged, runs, active, home, previous,
          lock, pc, gen, seen, doomed>>

pointers == <<active, home, previous>>
disk == <<folder, aged, runs>>

----------------------------------------------------------------------------
(* Program points of a publisher.                                          *)

Staging == {"read", "sweep", "mkdir", "clone"}
PointerWrites == {"previous", "active", "home"}
Restoring == {"restoreActive", "restoreHome"}
Activating == {"validate", "collect"} \cup PointerWrites \cup Restoring

(* Points at which the code relies on holding the lock.                    *)
Locked == Staging \cup {"editing"} \cup Activating

Locations == Locked \cup {"idle", "waiting", "published", "closing", "removing"}

Pointer == Generations \cup {NoGen}

Goto(p, l) == pc' = [pc EXCEPT ![p] = l]

(* The run is over; what it knew is forgotten with it.                     *)
End(p) ==
    /\ Goto(p, "idle")
    /\ gen' = [gen EXCEPT ![p] = NoGen]
    /\ seen' = [seen EXCEPT ![p] = NoGen]
    /\ doomed' = [doomed EXCEPT ![p] = {}]

(* _release_lock: no effect when this manager no longer holds the lock.    *)
Unlocked(p) == IF lock = p THEN NoPublisher ELSE lock

OnDisk == {g \in Generations : folder[g] \in {"partial", "complete"}}

(* A pointer file that names a generation must find its folder.            *)
Exists(g) == g = NoGen \/ g \in OnDisk

(* active_projection_layout: the two pointers must name the same existing  *)
(* folder; anything else is a ProjectionGenerationError.                   *)
Readable == home = active /\ Exists(home)

Without(g) == [folder EXCEPT ![g] = "absent"]

(* An id uuid4 can still return: no folder ever had it, and no run.        *)
Fresh == {g \in Generations : folder[g] = "unused" /\ \A q \in Publishers : gen[q] # g}

----------------------------------------------------------------------------
Init ==
    /\ folder = [g \in Generations |-> "unused"]
    /\ aged = {}
    /\ runs = [g \in Generations |-> {}]
    /\ active = NoGen
    /\ home = NoGen
    /\ previous = NoGen
    /\ lock = NoPublisher
    /\ pc = [p \in Publishers |-> "idle"]
    /\ gen = [p \in Publishers |-> NoGen]
    /\ seen = [p \in Publishers |-> NoGen]
    /\ doomed = [p \in Publishers |-> {}]

----------------------------------------------------------------------------
(* Staging: manager.stage(copy_active=True).                               *)

(* An index run starts: it mints its generation id, and asks for the lock  *)
(* before it reads anything.                                               *)
OpenRun(p) ==
    /\ pc[p] = "idle"
    /\ \E g \in Fresh : gen' = [gen EXCEPT ![p] = g]
    /\ Goto(p, "waiting")
    /\ UNCHANGED <<disk, pointers, lock, seen, doomed>>

Acquire(p) ==
    /\ pc[p] = "waiting"
    /\ lock = NoPublisher
    /\ lock' = p
    /\ Goto(p, "read")
    /\ UNCHANGED <<disk, pointers, gen, seen, doomed>>

(* Mutant: at the deadline go on without the lock.                         *)
GoOnUnlocked(p) ==
    /\ p \in Impatient
    /\ pc[p] = "waiting"
    /\ lock # NoPublisher
    /\ Goto(p, "read")
    /\ UNCHANGED <<disk, pointers, lock, gen, seen, doomed>>

(* ProjectionPublishBusyError: the deadline passed while the lock was held. *)
GiveUp(p) ==
    /\ p \in Impatient
    /\ pc[p] = "waiting"
    /\ lock # NoPublisher
    /\ End(p)
    /\ UNCHANGED <<disk, pointers, lock>>

(* Mutant: stage without comparing the pointers.                           *)
ReadHomeOnly(p) ==
    /\ pc[p] = "read"
    /\ seen' = [seen EXCEPT ![p] = home]
    /\ Goto(p, "sweep")
    /\ UNCHANGED <<disk, pointers, lock, gen, doomed>>

(* The active generation is read only now that the lock is held, and the   *)
(* cleanup of interrupted runs lists the folders it will remove.           *)
ReadActive(p) ==
    /\ pc[p] = "read"
    /\ Readable
    /\ seen' = [seen EXCEPT ![p] = home]
    /\ doomed' = [doomed EXCEPT ![p] = (OnDisk \cap aged) \ {home, previous}]
    /\ Goto(p, "sweep")
    /\ UNCHANGED <<disk, pointers, lock, gen>>

(* stage() releases the lock on every exception and re-raises.             *)
StageFails(p) ==
    /\ lock' = Unlocked(p)
    /\ End(p)
    /\ UNCHANGED <<disk, pointers>>

ReadRefused(p) ==
    /\ pc[p] = "read"
    /\ ~Readable
    /\ StageFails(p)

(* One rmtree of _remove_stale_generations or _remove_unretained_...       *)
RemoveOne(p) ==
    /\ pc[p] \in {"sweep", "collect"}
    /\ \E g \in doomed[p] :
        /\ folder' = Without(g)
        /\ doomed' = [doomed EXCEPT ![p] = @ \ {g}]
    /\ UNCHANGED <<aged, runs, pointers, lock, pc, gen, seen>>

EndSweep(p) ==
    /\ pc[p] = "sweep"
    /\ doomed[p] = {}
    /\ Goto(p, "mkdir")
    /\ UNCHANGED <<disk, pointers, lock, gen, seen, doomed>>

(* The staged folder appears and is filled while others can see it.        *)
BeginClone(p) ==
    /\ pc[p] = "mkdir"
    /\ folder' = [folder EXCEPT ![gen[p]] = "partial"]
    /\ Goto(p, "clone")
    /\ UNCHANGED <<aged, runs, pointers, lock, gen, seen, doomed>>
(* Mutants: the lock covers the copy only; nothing is copied.              *)
UnlockAfterClone(p) ==
    /\ pc[p] = "clone"
    /\ folder' = [folder EXCEPT ![gen[p]] = "complete"]
    /\ runs' = [runs EXCEPT ![gen[p]] = IF seen[p] = NoGen THEN {} ELSE runs[seen[p]]]
    /\ lock' = Unlocked(p)
    /\ Goto(p, "editing")
    /\ UNCHANGED <<aged, pointers, gen, seen, doomed>>

StartEmpty(p) ==
    /\ pc[p] = "clone"
    /\ folder' = [folder EXCEPT ![gen[p]] = "complete"]
    /\ Goto(p, "editing")
    /\ UNCHANGED <<aged, runs, pointers, lock, gen, seen, doomed>>

(* clone_tree copies what the source folder holds at the end of the copy;  *)
(* a first generation is an empty folder.                                  *)
EndClone(p) ==
    /\ pc[p] = "clone"
    /\ Exists(seen[p])
    /\ folder' = [folder EXCEPT ![gen[p]] =
                     IF seen[p] = NoGen THEN "complete" ELSE folder[seen[p]]]
    /\ runs' = [runs EXCEPT ![gen[p]] =
                     IF seen[p] = NoGen THEN {} ELSE runs[seen[p]]]
    /\ Goto(p, "editing")
    /\ UNCHANGED <<aged, pointers, lock, gen, seen, doomed>>

(* Disk full, or no source: the partial folder is left for a later sweep.  *)
CloneFails(p) ==
    /\ "clone" \in Faults \/ ~Exists(seen[p])
    /\ pc[p] = "clone"
    /\ StageFails(p)

----------------------------------------------------------------------------
(* The run itself, on the staged folder.                                   *)

(* run_apply wrote its results, the report is publishable and the bundle   *)
(* manifest is valid.                                                      *)
RunSucceeds(p) ==
    /\ pc[p] = "editing"
    /\ runs' = [runs EXCEPT ![gen[p]] = @ \cup {gen[p]}]
    /\ Goto(p, "validate")
    /\ UNCHANGED <<folder, aged, pointers, lock, gen, seen, doomed>>

(* The run raised, is not publishable, changed nothing (vg watch), or the  *)
(* bundle was refused before activation: close() discards the generation.  *)
RunAbandoned(p) ==
    /\ pc[p] = "editing"
    /\ Goto(p, "closing")
    /\ UNCHANGED <<disk, pointers, lock, gen, seen, doomed>>

----------------------------------------------------------------------------
(* Activation: manager.activate(staged).  Its finally releases the lock.   *)

(* Its checks cannot fail: by StagedSafe and PointersComplete both folders *)
(* are there whenever a run gets here, so no action refuses.               *)
Validate(p) ==
    /\ pc[p] = "validate"
    /\ gen[p] \in OnDisk
    /\ Exists(active)
    /\ seen' = [seen EXCEPT ![p] = active]
    /\ Goto(p, "previous")
    /\ UNCHANGED <<disk, pointers, lock, gen, doomed>>

(* activate() raises: the lock is free, and close() discards what is left. *)
ActivateRaises(p) ==
    /\ lock' = Unlocked(p)
    /\ Goto(p, "closing")
    /\ doomed' = [doomed EXCEPT ![p] = {}]
    /\ UNCHANGED <<disk, pointers, gen, seen>>

WritePrevious(p) ==
    /\ pc[p] = "previous"
    /\ previous' = IF seen[p] = NoGen THEN previous ELSE seen[p]
    /\ Goto(p, "active")
    /\ UNCHANGED <<disk, active, home, lock, gen, seen, doomed>>

(* previous.json is written before the try block: nothing to restore.      *)
PreviousFails(p) ==
    /\ "write" \in Faults
    /\ pc[p] = "previous"
    /\ seen[p] # NoGen
    /\ ActivateRaises(p)

WriteActive(p) ==
    /\ pc[p] = "active"
    /\ active' = gen[p]
    /\ Goto(p, "home")
    /\ UNCHANGED <<disk, home, previous, lock, gen, seen, doomed>>
(* Mutants: the cleanup after publication forgets the previous generation; *)
(* it removes old folders only.                                            *)
CollectPrevious(p) ==
    /\ pc[p] = "home"
    /\ home' = gen[p]
    /\ doomed' = [doomed EXCEPT ![p] = OnDisk \ {gen[p]}]
    /\ Goto(p, "collect")
    /\ UNCHANGED <<disk, active, previous, lock, gen, seen>>

CollectOldOnly(p) ==
    /\ pc[p] = "home"
    /\ home' = gen[p]
    /\ doomed' = [doomed EXCEPT ![p] = (OnDisk \cap aged) \ {gen[p], previous}]
    /\ Goto(p, "collect")
    /\ UNCHANGED <<disk, active, previous, lock, gen, seen>>

(* update_active_generation refuses a data-home.json whose present pointer, *)
(* or whose new one, names a missing folder.                               *)
HomeMayName(g) == Exists(home) /\ Exists(g)

(* From here readers see the new generation.  The cleanup then lists every *)
(* folder but the active one, the previous one and this run's own.         *)
WriteHome(p) ==
    /\ pc[p] = "home"
    /\ HomeMayName(gen[p])
    /\ home' = gen[p]
    /\ doomed' = [doomed EXCEPT ![p] = OnDisk \ {gen[p], previous}]
    /\ Goto(p, "collect")
    /\ UNCHANGED <<disk, active, previous, lock, gen, seen>>
PointerWriteFails(p) ==
    /\ \/ "write" \in Faults /\ pc[p] \in {"active", "home"}
       \/ pc[p] = "home" /\ ~HomeMayName(gen[p])
    /\ Goto(p, "restoreActive")
    /\ UNCHANGED <<disk, pointers, lock, gen, seen, doomed>>
(* The except block puts the two active pointers back, previous.json not.  *)
RestoreActive(p) ==
    /\ pc[p] = "restoreActive"
    /\ active' = seen[p]
    /\ Goto(p, "restoreHome")
    /\ UNCHANGED <<disk, home, previous, lock, gen, seen, doomed>>

RestoreHome(p) ==
    /\ pc[p] = "restoreHome"
    /\ HomeMayName(seen[p])
    /\ home' = seen[p]
    /\ lock' = Unlocked(p)
    /\ Goto(p, "closing")
    /\ UNCHANGED <<disk, active, previous, gen, seen, doomed>>

(* A second failure is swallowed and the first one is re-raised.           *)
RestoreFails(p) ==
    /\ \/ "restore" \in Faults /\ pc[p] \in Restoring
       \/ pc[p] = "restoreHome" /\ ~HomeMayName(seen[p])
    /\ ActivateRaises(p)
(* Mutant: no finally around the cleanup.                                  *)
CollectKeepsLock(p) ==
    /\ pc[p] = "collect"
    /\ doomed[p] = {}
    /\ Goto(p, "published")
    /\ UNCHANGED <<disk, pointers, lock, gen, seen, doomed>>

EndCollect(p) ==
    /\ pc[p] = "collect"
    /\ doomed[p] = {}
    /\ lock' = Unlocked(p)
    /\ Goto(p, "published")
    /\ UNCHANGED <<disk, pointers, gen, seen, doomed>>

(* Listing the folders can raise after both pointers were replaced.        *)
CollectFails(p) ==
    /\ "post" \in Faults
    /\ pc[p] = "collect"
    /\ ActivateRaises(p)

----------------------------------------------------------------------------
(* The end of a run: the rest of commit_projection, then close().          *)

(* The run diagnostic, the cache pruning and the memory scan went through; *)
(* projection_committed is set and close() leaves the generation alone.    *)
Commit(p) ==
    /\ pc[p] = "published"
    /\ End(p)
    /\ UNCHANGED <<disk, pointers, lock>>

(* One of them raised: the generation is published, but not committed.     *)
PostPublishFails(p) ==
    /\ "post" \in Faults
    /\ pc[p] = "published"
    /\ Goto(p, "closing")
    /\ UNCHANGED <<disk, pointers, lock, gen, seen, doomed>>
(* Mutant: close() discards without looking at the pointers.               *)
AlwaysDiscard(p) == gen[p] \in OnDisk

(* discard() looks at the pointers again, with or without the lock, and    *)
(* refuses the active generation.                                          *)
MayDiscard(p) ==
    /\ gen[p] \in OnDisk
    /\ Readable
    /\ home # gen[p]

DiscardChecked(p) ==
    /\ pc[p] = "closing"
    /\ MayDiscard(p)
    /\ Goto(p, "removing")
    /\ UNCHANGED <<disk, pointers, lock, gen, seen, doomed>>

(* These exceptions leave discard() before the try whose finally releases  *)
(* the lock.                                                               *)
DiscardRefused(p) ==
    /\ pc[p] = "closing"
    /\ ~MayDiscard(p)
    /\ End(p)
    /\ UNCHANGED <<disk, pointers, lock>>

RemoveStaged(p) ==
    /\ pc[p] = "removing"
    /\ folder' = Without(gen[p])
    /\ lock' = Unlocked(p)
    /\ End(p)
    /\ UNCHANGED <<aged, runs, pointers>>

----------------------------------------------------------------------------
(* The environment.                                                        *)

(* Ctrl-C raises KeyboardInterrupt, which `except Exception` lets through: *)
(* the pointers are not restored, but every finally runs.                  *)
Interrupt(p) ==
    /\ "interrupt" \in Faults
    /\ \/ pc[p] \in Staging /\ StageFails(p)
       \/ pc[p] \in Activating /\ ActivateRaises(p)
       \/ pc[p] = "editing" /\ RunAbandoned(p)
       \/ /\ pc[p] = "published"
          /\ Goto(p, "closing")
          /\ UNCHANGED <<disk, pointers, lock, gen, seen, doomed>>

(* The process dies.  The kernel drops its flock; the files stay.          *)
Crash(p) ==
    /\ "crash" \in Faults
    /\ pc[p] # "idle" \/ lock = p
    /\ lock' = Unlocked(p)
    /\ End(p)
    /\ UNCHANGED <<disk, pointers>>

(* An hour passes without a write to the folder.                           *)
Age(g) ==
    /\ g \in OnDisk \ aged
    /\ aged' = aged \cup {g}
    /\ UNCHANGED <<folder, runs, pointers, lock, pc, gen, seen, doomed>>

----------------------------------------------------------------------------
Stage(p) ==
    \/ Acquire(p) \/ GiveUp(p)
    \/ ReadActive(p) \/ ReadRefused(p)
    \/ RemoveOne(p) \/ EndSweep(p)
    \/ BeginClone(p) \/ EndClone(p) \/ CloneFails(p)

Activate(p) ==
    \/ Validate(p)
    \/ WritePrevious(p) \/ PreviousFails(p)
    \/ WriteActive(p) \/ WriteHome(p) \/ PointerWriteFails(p)
    \/ RestoreActive(p) \/ RestoreHome(p) \/ RestoreFails(p)
    \/ EndCollect(p) \/ CollectFails(p)

Close(p) ==
    \/ Commit(p) \/ PostPublishFails(p)
    \/ DiscardChecked(p) \/ DiscardRefused(p) \/ RemoveStaged(p)

(* What a publisher does once its run is open.                             *)
Work(p) == Stage(p) \/ RunSucceeds(p) \/ RunAbandoned(p) \/ Activate(p) \/ Close(p)

Next ==
    \/ \E p \in Publishers : OpenRun(p) \/ Work(p) \/ Interrupt(p) \/ Crash(p)
    \/ \E g \in Generations : Age(g)

Spec == Init /\ [][Next]_vars

(* A running process is scheduled; nobody is obliged to start a run.       *)
FairSpec == Spec /\ \A p \in Publishers : WF_vars(Work(p))

----------------------------------------------------------------------------
(* Properties.                                                             *)

TypeOK ==
    /\ folder \in [Generations -> {"unused", "partial", "complete", "absent"}]
    /\ aged \subseteq Generations
    /\ runs \in [Generations -> SUBSET Generations]
    /\ active \in Pointer /\ home \in Pointer /\ previous \in Pointer
    /\ lock \in Publishers \cup {NoPublisher}
    /\ pc \in [Publishers -> Locations]
    /\ gen \in [Publishers -> Pointer]
    /\ seen \in [Publishers -> Pointer]
    /\ doomed \in [Publishers -> SUBSET Generations]

(* The results a reader finds behind the pointer of data-home.json.        *)
HomeRuns == IF home = NoGen THEN {} ELSE runs[home]

(* The lock protects every step from the first read of the active pointer  *)
(* to the last pointer write: two runs are never between stage() and the   *)
(* end of activate() together.                                             *)
OneRunAtATime ==
    \A p, q \in Publishers : pc[p] \in Locked /\ pc[q] \in Locked => p = q

(* No path out of stage(), activate() or discard() keeps the lock after    *)
(* its run has ended, although discard() can raise before the finally that *)
(* releases it.                                                            *)
NoLeakedLock ==
    \A p \in Publishers :
        lock = p => pc[p] \in Locked \cup {"closing", "removing"}

(* Whatever failed, and however far a run got before it died, each pointer *)
(* file names a generation that is complete on disk.                       *)
PointersComplete ==
    \A g \in {home, active} \ {NoGen} : folder[g] = "complete"

(* The generation a run clones, edits or is publishing is not removed or   *)
(* truncated under it by the cleanup of another run or by a late discard.  *)
StagedSafe ==
    \A p \in Publishers :
        /\ pc[p] \in {"sweep", "mkdir", "clone"} /\ seen[p] # NoGen
              => folder[seen[p]] = "complete"
        /\ pc[p] \in {"editing"} \cup Activating => folder[gen[p]] = "complete"

(* A run that staged sees one active generation until it replaces it: what *)
(* it cloned is still what both pointers name when it publishes.           *)
BaseStillActive ==
    \A p \in Publishers :
        pc[p] \in {"sweep", "mkdir", "clone", "editing", "previous", "active"}
            => home = active /\ (pc[p] # "editing" => seen[p] = home)

(* previous.json names a complete generation, as long as no run fails      *)
(* after it has published.                                                 *)
PreviousKept == previous # NoGen => folder[previous] = "complete"

(* No update is lost: publishing only adds to what readers find, however   *)
(* runs overlap, fail or wait for each other.                              *)
NoLostUpdate == [][HomeRuns \subseteq HomeRuns']_vars

(* After publication only the active and the previous generation are left. *)
OnlyTwoKept ==
    [][\A p \in Publishers :
        EndCollect(p) => OnDisk \subseteq {home, previous}]_vars

(* An index that died half-way is run again at the next session start      *)
(* (docs/SPEC.md): the next run that gets the lock can read the active     *)
(* generation it has to build on.                                          *)
DiedRunIsRunAgain == \A p \in Publishers : pc[p] = "read" => Readable

(* A run whose process lives lets go of the lock.                          *)
LockIsFreed == \A p \in Publishers : lock = p ~> lock # p
=============================================================================
