------------------------ MODULE PublicationInvariant ------------------------
(***************************************************************************)
(* The inductive invariant behind the safety properties of                 *)
(* ProjectionPublication: what holds of a publisher p at each of its       *)
(* program points, whatever the others do.  And the refinement mapping     *)
(* under which publication implements PublishedIndex.                      *)
(***************************************************************************)
EXTENDS ProjectionPublication

NotStaged == {"waiting", "read", "sweep", "mkdir"}
Staged == {"editing"} \cup Activating
Ran == Activating \ {"collect"}

(* close() of a run that was never activated still holds the lock.         *)
ClosesLocked(p) == lock = p /\ pc[p] \in {"closing", "removing"}

(* The flock and the program points agree.                                 *)
LockInv(p) ==
    /\ pc[p] \in Locked => lock = p
    /\ lock = p => pc[p] \in Locked \/ ClosesLocked(p)

(* A run has an id of its own, whose folder goes from unused over partial  *)
(* to complete while the lock is held.                                     *)
FolderInv(p) ==
    /\ pc[p] = "idle" <=> gen[p] = NoGen
    /\ \A q \in Publishers \ {p} : gen[p] = gen[q] => gen[p] = NoGen
    /\ pc[p] \in NotStaged => folder[gen[p]] = "unused"
    /\ pc[p] = "clone" => folder[gen[p]] = "partial"
    /\ pc[p] \in Staged \/ ClosesLocked(p) => folder[gen[p]] = "complete"

(* The cleanup loops remove only folders no pointer names, and the one     *)
(* after publication every folder that is not kept.                        *)
DoomedInv(p) ==
    /\ pc[p] \notin {"sweep", "collect"} => doomed[p] = {}
    /\ \A g \in doomed[p] : folder[g] # "unused" /\ g # home /\ g # active
    /\ pc[p] = "collect" => OnDisk \subseteq doomed[p] \cup {home, previous}

(* The pointers, from the first read under the lock to the last write.     *)
PointerInv(p) ==
    /\ pc[p] \in {"sweep", "mkdir", "clone", "previous", "active"}
          => home = active /\ seen[p] = home
    /\ pc[p] \in {"editing", "validate"} \/ ClosesLocked(p) => home = active
    /\ pc[p] = "home" => home = seen[p] /\ active = gen[p]
    /\ pc[p] = "restoreActive" => home = seen[p] /\ active \in {seen[p], gen[p]}
    /\ pc[p] = "restoreHome" => home = seen[p] /\ active = seen[p]
    /\ pc[p] = "collect" => home = gen[p] /\ active = gen[p]
    /\ pc[p] \in (Locked \ {"collect"}) \cup {"removing"} \/ ClosesLocked(p)
          => home # gen[p]
    /\ pc[p] = "removing" => active # gen[p]

(* What a staged folder holds compared with what is published.             *)
RunsInv(p) ==
    /\ pc[p] \in {"clone", "editing"} => \A g \in Generations : gen[p] \notin runs[g]
    /\ pc[p] = "editing" => runs[gen[p]] = HomeRuns
    /\ pc[p] \in Ran =>
          /\ runs[gen[p]] = HomeRuns \cup {gen[p]}
          /\ \A g \in Generations \ {gen[p]} : gen[p] \notin runs[g]

(* No folder holds the results of a run that never had a folder.           *)
RunsExist ==
    \A g, x \in Generations : x \in runs[g] => folder[x] # "unused"

PublisherInv(p) ==
    /\ LockInv(p)
    /\ FolderInv(p)
    /\ DoomedInv(p)
    /\ PointerInv(p)
    /\ RunsInv(p)

(* Inductive: implies every safety property of ProjectionPublication that  *)
(* holds under all failures.                                               *)
IInv ==
    /\ TypeOK
    /\ PointersComplete
    /\ RunsExist
    /\ \A p \in Publishers : PublisherInv(p)

----------------------------------------------------------------------------
(* Readers find the runs behind the pointer of data-home.json, and refuse  *)
(* the index while the other pointer names another generation.             *)
Published == INSTANCE PublishedIndex
    WITH Runs <- Generations, applied <- HomeRuns, torn <- home # active

(* Publication, with all its failures, implements PublishedIndex: what     *)
(* readers find is replaced atomically, one whole run at a time, and never *)
(* loses a run (the pointer writes and the restore of activate()).         *)
ImplementsPublishedIndex == Published!Spec
=============================================================================
