--------------------------- MODULE PublicationProofs ---------------------------
(***************************************************************************)
(* Machine-checked proofs about the publication of generations and their   *)
(* readers (ProjectionPublication, GenerationReaders), for any number of   *)
(* publishers, generations and read commands and any set of faults.        *)
(*                                                                         *)
(* IInv is inductive: it holds initially and every step preserves it.  The *)
(* lemmas follow the code's phases (stage, the run, activate, close, the   *)
(* environment), one step per action; the actions that move data are split *)
(* further.  The safety properties and the refinement follow from IInv.    *)
(*                                                                         *)
(* The readers' part adds which generations the cleanup keeps, and which   *)
(* can never be published again: a pointer that a reader has seen and that *)
(* is gone does not come back.                                             *)
(***************************************************************************)
EXTENDS GenerationReaders, PublicationInvariant, TLAPS

(* The names of program points and the helpers that only rename state.     *)
USE NoGenAssumption, NoPublisherAssumption, FaultsAssumption
USE DEF Staging, PointerWrites, Restoring, Activating, Locked, Locations,
        NotStaged, Staged, Ran, ClosesLocked, Pointer, Goto, End, Unlocked,
        OnDisk, Exists, Without, disk, pointers

----------------------------------------------------------------------------
LEMMA InitInv == Init => IInv
  BY DEF Init, IInv, TypeOK, PointersComplete, RunsExist, PublisherInv,
         LockInv, FolderInv, DoomedInv, PointerInv, RunsInv

----------------------------------------------------------------------------
(* stage().                                                                *)

LEMMA WaitStep ==
    ASSUME IInv, NEW p \in Publishers, OpenRun(p) \/ Acquire(p) \/ GiveUp(p)
    PROVE  IInv'
<1> USE DEF IInv, TypeOK, PointersComplete, RunsExist, PublisherInv, LockInv,
            FolderInv, DoomedInv, PointerInv, RunsInv, HomeRuns
<1>1. CASE OpenRun(p)  BY <1>1 DEF OpenRun, Fresh
<1>2. CASE Acquire(p)  BY <1>2 DEF Acquire
<1>3. CASE GiveUp(p)   BY <1>3 DEF GiveUp
<1> QED BY <1>1, <1>2, <1>3

(* What stage() reads under the lock is what it may rely on: the sweep     *)
(* list avoids both pointers, and its own folder does not exist yet.       *)
LEMMA SweepStep ==
    ASSUME IInv, NEW p \in Publishers,
           ReadActive(p) \/ ReadRefused(p) \/ RemoveOne(p) \/ EndSweep(p)
    PROVE  IInv'
<1>1. CASE ReadActive(p)
  <2>1. seen'[p] = home /\ home = active /\ lock = p
    BY <1>1 DEF ReadActive, Readable, IInv, TypeOK, PublisherInv, LockInv
  <2>2. \A g \in doomed'[p] : folder[g] # "unused" /\ g # home /\ g # active
    BY <1>1, <2>1 DEF ReadActive, IInv, TypeOK
  <2> QED
    BY <1>1, <2>1, <2>2 DEF ReadActive, IInv, TypeOK, PointersComplete,
       RunsExist, PublisherInv, LockInv, FolderInv, DoomedInv, PointerInv,
       RunsInv, HomeRuns
<1>2. CASE ReadRefused(p)
  BY <1>2 DEF ReadRefused, StageFails, IInv, TypeOK, PointersComplete,
     RunsExist, PublisherInv, LockInv, FolderInv, DoomedInv, PointerInv,
     RunsInv, HomeRuns
<1>3. CASE RemoveOne(p)
  <2>1. PICK g \in doomed[p] :
            /\ folder' = [folder EXCEPT ![g] = "absent"]
            /\ doomed' = [doomed EXCEPT ![p] = @ \ {g}]
    BY <1>3 DEF RemoveOne
  <2>2. folder[g] # "unused" /\ g # home /\ g # active /\ lock = p
    BY <1>3, <2>1 DEF RemoveOne, IInv, TypeOK, PublisherInv, LockInv, DoomedInv
  (* Nobody else holds the lock, so nobody else's staged folder is at risk; *)
  (* p's own is not yet on disk (sweep) or is the active one (collect).     *)
  <2>3. \A q \in Publishers :
            pc[q] \in {"clone"} \cup Staged \/ ClosesLocked(q) => gen[q] # g
    BY <1>3, <2>2 DEF RemoveOne, IInv, PublisherInv, LockInv, PointerInv
  <2> QED
    BY <1>3, <2>1, <2>2, <2>3 DEF RemoveOne, IInv, TypeOK, PointersComplete,
       RunsExist, PublisherInv, LockInv, FolderInv, DoomedInv, PointerInv,
       RunsInv, HomeRuns
<1>4. CASE EndSweep(p)
  BY <1>4 DEF EndSweep, IInv, TypeOK, PointersComplete, RunsExist,
     PublisherInv, LockInv, FolderInv, DoomedInv, PointerInv, RunsInv, HomeRuns
<1> QED BY <1>1, <1>2, <1>3, <1>4

LEMMA CloneStep ==
    ASSUME IInv, NEW p \in Publishers, BeginClone(p) \/ EndClone(p) \/ CloneFails(p)
    PROVE  IInv'
<1>1. CASE BeginClone(p)
  <2>1. folder[gen[p]] = "unused" /\ gen[p] \in Generations /\ lock = p
    BY <1>1 DEF BeginClone, IInv, TypeOK, PublisherInv, LockInv, FolderInv
  <2>2. \A x \in Generations : gen[p] \notin runs[x]
    BY <2>1 DEF IInv, RunsExist
  <2>3. gen[p] # home /\ gen[p] # active
    BY <2>1 DEF IInv, PointersComplete
  <2> QED
    BY <1>1, <2>1, <2>2, <2>3 DEF BeginClone, IInv, TypeOK, PointersComplete,
       RunsExist, PublisherInv, LockInv, FolderInv, DoomedInv, PointerInv,
       RunsInv, HomeRuns
<1>2. CASE EndClone(p)
  <2>1. lock = p /\ gen[p] \in Generations /\ seen[p] = home /\ home = active
    BY <1>2 DEF EndClone, IInv, TypeOK, PublisherInv, LockInv, FolderInv, PointerInv
  <2>2. folder' = [folder EXCEPT ![gen[p]] = "complete"]
    BY <1>2, <2>1 DEF EndClone, IInv, PointersComplete
  <2>3. runs' = [runs EXCEPT ![gen[p]] = HomeRuns]
    BY <1>2, <2>1 DEF EndClone, HomeRuns
  <2>4. home # gen[p] /\ HomeRuns \subseteq Generations
    BY <1>2, <2>1 DEF EndClone, IInv, TypeOK, PublisherInv, PointerInv, HomeRuns
  <2> QED
    BY <1>2, <2>1, <2>2, <2>3, <2>4 DEF EndClone, IInv, TypeOK,
       PointersComplete, RunsExist, PublisherInv, LockInv, FolderInv,
       DoomedInv, PointerInv, RunsInv, HomeRuns
<1>3. CASE CloneFails(p)
  BY <1>3 DEF CloneFails, StageFails, IInv, TypeOK, PointersComplete,
     RunsExist, PublisherInv, LockInv, FolderInv, DoomedInv, PointerInv,
     RunsInv, HomeRuns
<1> QED BY <1>1, <1>2, <1>3

----------------------------------------------------------------------------
(* The run on the staged folder.                                           *)

(* The run writes into a folder no reader sees: what is published stays.   *)
LEMMA RunStep ==
    ASSUME IInv, NEW p \in Publishers, RunSucceeds(p) \/ RunAbandoned(p)
    PROVE  IInv'
<1>1. CASE RunSucceeds(p)
  <2>1. lock = p /\ gen[p] \in Generations /\ home # gen[p]
    BY <1>1 DEF RunSucceeds, IInv, TypeOK, PublisherInv, LockInv, FolderInv, PointerInv
  <2>2. HomeRuns' = HomeRuns
    BY <1>1, <2>1 DEF RunSucceeds, IInv, TypeOK, HomeRuns
  <2>3. runs'[gen[p]] = HomeRuns \cup {gen[p]}
    BY <1>1, <2>1 DEF RunSucceeds, IInv, TypeOK, PublisherInv, RunsInv
  <2> QED
    BY <1>1, <2>1, <2>2, <2>3 DEF RunSucceeds, IInv, TypeOK,
       PointersComplete, RunsExist, PublisherInv, LockInv, FolderInv,
       DoomedInv, PointerInv, RunsInv
<1>2. CASE RunAbandoned(p)
  BY <1>2 DEF RunAbandoned, IInv, TypeOK, PointersComplete, RunsExist,
     PublisherInv, LockInv, FolderInv, DoomedInv, PointerInv, RunsInv, HomeRuns
<1> QED BY <1>1, <1>2

----------------------------------------------------------------------------
(* activate().                                                             *)

(* An exception in activate() releases the lock and leaves the pointers as *)
(* they are; outside activation proper they may then differ for good.      *)
LEMMA RaiseStep ==
    ASSUME IInv, NEW p \in Publishers, pc[p] \in Activating, ActivateRaises(p)
    PROVE  IInv'
<1>1. lock = p
  BY DEF IInv, PublisherInv, LockInv
<1> QED
  BY <1>1 DEF ActivateRaises, IInv, TypeOK, PointersComplete, RunsExist,
     PublisherInv, LockInv, FolderInv, DoomedInv, PointerInv, RunsInv, HomeRuns

LEMMA ActivateFailsStep ==
    ASSUME IInv, NEW p \in Publishers,
           PreviousFails(p) \/ RestoreFails(p) \/ CollectFails(p)
    PROVE  IInv'
<1>1. CASE PreviousFails(p)  BY <1>1, RaiseStep DEF PreviousFails
<1>2. CASE RestoreFails(p)   BY <1>2, RaiseStep DEF RestoreFails
<1>3. CASE CollectFails(p)   BY <1>3, RaiseStep DEF CollectFails
<1> QED BY <1>1, <1>2, <1>3

LEMMA PublishStep ==
    ASSUME IInv, NEW p \in Publishers,
           \/ Validate(p) \/ WritePrevious(p) \/ WriteActive(p)
           \/ WriteHome(p) \/ EndCollect(p)
    PROVE  IInv'
<1>1. CASE Validate(p)
  BY <1>1 DEF Validate, IInv, TypeOK, PointersComplete, RunsExist,
     PublisherInv, LockInv, FolderInv, DoomedInv, PointerInv, RunsInv, HomeRuns
<1>2. CASE WritePrevious(p)
  BY <1>2 DEF WritePrevious, IInv, TypeOK, PointersComplete, RunsExist,
     PublisherInv, LockInv, FolderInv, DoomedInv, PointerInv, RunsInv, HomeRuns
<1>3. CASE WriteActive(p)
  <2>1. lock = p /\ gen[p] \in Generations /\ folder[gen[p]] = "complete"
    BY <1>3 DEF WriteActive, IInv, TypeOK, PublisherInv, LockInv, FolderInv
  <2> QED
    BY <1>3, <2>1 DEF WriteActive, IInv, TypeOK, PointersComplete, RunsExist,
       PublisherInv, LockInv, FolderInv, DoomedInv, PointerInv, RunsInv, HomeRuns
<1>4. CASE WriteHome(p)
  <2>1. /\ lock = p /\ gen[p] \in Generations /\ active = gen[p]
        /\ folder[gen[p]] = "complete"
    BY <1>4 DEF WriteHome, IInv, TypeOK, PublisherInv, LockInv, FolderInv, PointerInv
  (* Nobody else is between staging and publication, so only p relied on   *)
  (* the pointer it replaces.                                              *)
  <2>2. \A q \in Publishers \ {p} :
            /\ pc[q] \notin Locked /\ ~ClosesLocked(q)
            /\ gen[q] # gen[p]
    BY <2>1 DEF IInv, TypeOK, PublisherInv, LockInv, FolderInv
  <2>3. \A g \in doomed'[p] : folder[g] # "unused" /\ g # gen[p]
    BY <1>4 DEF WriteHome, IInv, TypeOK
  <2> QED
    BY <1>4, <2>1, <2>2, <2>3 DEF WriteHome, IInv, TypeOK, PointersComplete,
       RunsExist, PublisherInv, LockInv, FolderInv, DoomedInv, PointerInv,
       RunsInv, HomeRuns
<1>5. CASE EndCollect(p)
  BY <1>5 DEF EndCollect, IInv, TypeOK, PointersComplete, RunsExist,
     PublisherInv, LockInv, FolderInv, DoomedInv, PointerInv, RunsInv, HomeRuns
<1> QED BY <1>1, <1>2, <1>3, <1>4, <1>5

LEMMA RestoreStep ==
    ASSUME IInv, NEW p \in Publishers,
           PointerWriteFails(p) \/ RestoreActive(p) \/ RestoreHome(p)
    PROVE  IInv'
<1> USE DEF IInv, TypeOK, PointersComplete, RunsExist, PublisherInv, LockInv,
            FolderInv, DoomedInv, PointerInv, RunsInv, HomeRuns
<1>1. CASE PointerWriteFails(p)  BY <1>1 DEF PointerWriteFails
<1>2. CASE RestoreActive(p)      BY <1>2 DEF RestoreActive
<1>3. CASE RestoreHome(p)        BY <1>3 DEF RestoreHome
<1> QED BY <1>1, <1>2, <1>3

----------------------------------------------------------------------------
(* close().                                                                *)

(* discard() of a run that was never activated, and so still holds the     *)
(* lock, is never refused: it always reaches the finally that releases it. *)
LEMMA DiscardOfStaged ==
    ASSUME IInv, NEW p \in Publishers, pc[p] = "closing", lock = p
    PROVE  MayDiscard(p)
<1>1. folder[gen[p]] = "complete" /\ gen[p] \in Generations
  BY DEF IInv, TypeOK, PublisherInv, FolderInv
<1>2. home = active /\ home # gen[p]
  BY DEF IInv, PublisherInv, PointerInv
<1>3. Exists(home)
  BY DEF IInv, TypeOK, PointersComplete
<1> QED BY <1>1, <1>2, <1>3 DEF MayDiscard, Readable

LEMMA CloseStep ==
    ASSUME IInv, NEW p \in Publishers, Close(p)
    PROVE  IInv'
<1> USE DEF IInv, TypeOK, PointersComplete, RunsExist, PublisherInv, LockInv,
            FolderInv, DoomedInv, PointerInv, RunsInv, HomeRuns
<1>1. CASE Commit(p)            BY <1>1 DEF Commit
<1>2. CASE PostPublishFails(p)  BY <1>2 DEF PostPublishFails
<1>3. CASE DiscardChecked(p)    BY <1>3 DEF DiscardChecked, MayDiscard, Readable
<1>4. CASE DiscardRefused(p)
  <2>1. lock # p
    BY <1>4, DiscardOfStaged DEF DiscardRefused
  <2> QED BY <1>4, <2>1 DEF DiscardRefused
<1>5. CASE RemoveStaged(p)      BY <1>5 DEF RemoveStaged
<1> QED BY <1>1, <1>2, <1>3, <1>4, <1>5 DEF Close

----------------------------------------------------------------------------
(* The environment.                                                        *)

LEMMA InterruptStep ==
    ASSUME IInv, NEW p \in Publishers, Interrupt(p)
    PROVE  IInv'
<1>1. CASE pc[p] \in Activating /\ ActivateRaises(p)
  BY <1>1, RaiseStep
<1>2. CASE pc[p] = "editing" /\ RunAbandoned(p)
  BY <1>2, RunStep
<1>3. CASE pc[p] \in Staging /\ StageFails(p)
  BY <1>3 DEF StageFails, IInv, TypeOK, PointersComplete, RunsExist,
     PublisherInv, LockInv, FolderInv, DoomedInv, PointerInv, RunsInv, HomeRuns
<1>4. CASE /\ pc[p] = "published"
           /\ Goto(p, "closing")
           /\ UNCHANGED <<disk, pointers, lock, gen, seen, doomed>>
  BY <1>4 DEF IInv, TypeOK, PointersComplete, RunsExist,
     PublisherInv, LockInv, FolderInv, DoomedInv, PointerInv, RunsInv, HomeRuns
<1> QED BY <1>1, <1>2, <1>3, <1>4 DEF Interrupt

LEMMA CrashStep ==
    ASSUME IInv, NEW p \in Publishers, Crash(p)
    PROVE  IInv'
BY DEF Crash, IInv, TypeOK, PointersComplete, RunsExist, PublisherInv,
   LockInv, FolderInv, DoomedInv, PointerInv, RunsInv, HomeRuns

LEMMA AgeStep ==
    ASSUME IInv, NEW g \in Generations, Age(g)
    PROVE  IInv'
BY DEF Age, IInv, TypeOK, PointersComplete, RunsExist, PublisherInv,
   LockInv, FolderInv, DoomedInv, PointerInv, RunsInv, HomeRuns

LEMMA StutterStep ==
    ASSUME IInv, UNCHANGED vars
    PROVE  IInv'
BY DEF vars, IInv, TypeOK, PointersComplete, RunsExist, PublisherInv,
   LockInv, FolderInv, DoomedInv, PointerInv, RunsInv, HomeRuns

LEMMA NextInv == IInv /\ [Next]_vars => IInv'
<1> SUFFICES ASSUME IInv, [Next]_vars PROVE IInv'
  OBVIOUS
<1>1. CASE UNCHANGED vars
  BY <1>1, StutterStep
<1>2. ASSUME NEW g \in Generations, Age(g) PROVE IInv'
  BY <1>2, AgeStep
<1>3. ASSUME NEW p \in Publishers, OpenRun(p) PROVE IInv'
  BY <1>3, WaitStep
<1>4. ASSUME NEW p \in Publishers, Stage(p) PROVE IInv'
  BY <1>4, WaitStep, SweepStep, CloneStep DEF Stage
<1>5. ASSUME NEW p \in Publishers, RunSucceeds(p) \/ RunAbandoned(p) PROVE IInv'
  BY <1>5, RunStep
<1>6. ASSUME NEW p \in Publishers, Activate(p) PROVE IInv'
  BY <1>6, ActivateFailsStep, PublishStep, RestoreStep DEF Activate
<1>7. ASSUME NEW p \in Publishers, Close(p) PROVE IInv'
  BY <1>7, CloseStep
<1>8. ASSUME NEW p \in Publishers, Interrupt(p) \/ Crash(p) PROVE IInv'
  BY <1>8, InterruptStep, CrashStep
<1> QED
  BY <1>1, <1>2, <1>3, <1>4, <1>5, <1>6, <1>7, <1>8 DEF Next, Work

----------------------------------------------------------------------------
(* Theorems.                                                               *)

(* IInv holds in every reachable state.                                    *)
THEOREM Invariance == Spec => []IInv
<1>1. Init => IInv
  BY InitInv
<1>2. IInv /\ [Next]_vars => IInv'
  BY NextInv
<1> QED
  BY <1>1, <1>2, PTL DEF Spec

(* Every variable keeps its type: in particular a restore writes back a    *)
(* generation or removes the pointer file, and nothing else.               *)
THEOREM TypeCorrect == Spec => []TypeOK
<1>1. IInv => TypeOK
  BY DEF IInv
<1> QED BY <1>1, Invariance, PTL

(* The publish lock makes stage() to activate() one critical section.      *)
THEOREM MutualExclusion == Spec => []OneRunAtATime
<1>1. IInv => OneRunAtATime
  BY DEF IInv, PublisherInv, LockInv, OneRunAtATime
<1> QED BY <1>1, Invariance, PTL

(* No path out of a run keeps the publish lock: discard() of a staged run  *)
(* cannot raise before the finally that releases it.                       *)
THEOREM LockReleased == Spec => []NoLeakedLock
<1>1. IInv => NoLeakedLock
  BY DEF IInv, PublisherInv, LockInv, NoLeakedLock
<1> QED BY <1>1, Invariance, PTL

(* Both pointer files name complete generations, after any failure.        *)
THEOREM PointersNameComplete == Spec => []PointersComplete
<1>1. IInv => PointersComplete
  BY DEF IInv
<1> QED BY <1>1, Invariance, PTL

(* Neither cleanup loop, nor a discard after a failed run, removes the     *)
(* folder another run clones or edits.                                     *)
THEOREM StagedIsSafe == Spec => []StagedSafe
<1>1. ASSUME IInv, NEW p \in Publishers,
             pc[p] \in {"sweep", "mkdir", "clone"}, seen[p] # NoGen
      PROVE  folder[seen[p]] = "complete"
  BY <1>1 DEF IInv, PublisherInv, PointerInv, PointersComplete
<1>2. ASSUME IInv, NEW p \in Publishers, pc[p] \in {"editing"} \cup Activating
      PROVE  folder[gen[p]] = "complete"
  BY <1>2 DEF IInv, PublisherInv, FolderInv
<1>3. IInv => StagedSafe
  BY <1>1, <1>2 DEF StagedSafe
<1> QED BY <1>3, Invariance, PTL

(* What a run cloned is still the active generation when it publishes.     *)
THEOREM BaseIsActive == Spec => []BaseStillActive
<1>1. IInv => BaseStillActive
  BY DEF IInv, PublisherInv, PointerInv, BaseStillActive
<1> QED BY <1>1, Invariance, PTL

(* When a publication's cleanup ends, only the active and the previous     *)
(* generation are on disk.                                                 *)
THEOREM TwoKept == Spec => OnlyTwoKept
<1>1. ASSUME IInv, NEW p \in Publishers, EndCollect(p)
      PROVE  OnDisk \subseteq {home, previous}
  BY <1>1 DEF EndCollect, IInv, PublisherInv, DoomedInv
<1>2. IInv /\ [Next]_vars
          => [\A p \in Publishers : EndCollect(p) => OnDisk \subseteq {home, previous}]_vars
  BY <1>1
<1> QED BY <1>2, Invariance, PTL DEF Spec, OnlyTwoKept

----------------------------------------------------------------------------
(* Publication implements PublishedIndex.                                  *)

Seen == <<HomeRuns, home # active>>

(* Only the two pointer writes and the restore of active.json change what  *)
(* readers see; the copy and the run write into a folder they do not read. *)
LEMMA UnseenStep ==
    ASSUME UNCHANGED <<runs, home, active>>
    PROVE  UNCHANGED Seen
BY DEF HomeRuns, Seen

LEMMA StagedWriteStep ==
    ASSUME IInv, NEW p \in Publishers, EndClone(p) \/ RunSucceeds(p)
    PROVE  UNCHANGED Seen
<1>1. home # gen[p] /\ home' = home /\ active' = active
  BY DEF EndClone, RunSucceeds, IInv, PublisherInv, PointerInv
<1>2. home # NoGen => runs'[home] = runs[home]
  BY <1>1 DEF EndClone, RunSucceeds, IInv, TypeOK
<1> QED BY <1>1, <1>2 DEF HomeRuns, Seen

LEMMA WriteActiveTears ==
    ASSUME IInv, NEW p \in Publishers, WriteActive(p)
    PROVE  Published!Tear
<1>1. home = active /\ home # gen[p]
  BY DEF WriteActive, IInv, PublisherInv, PointerInv
<1>2. active' = gen[p] /\ UNCHANGED <<home, runs>>
  BY DEF WriteActive
<1>3. (home # active) = FALSE /\ (home # active)' = TRUE
  BY <1>1, <1>2
<1>4. UNCHANGED HomeRuns
  BY <1>2 DEF HomeRuns
<1> QED BY <1>3, <1>4 DEF Published!Tear

(* The published folder holds the old results and those of the new run.    *)
LEMMA WriteHomeReplaces ==
    ASSUME IInv, NEW p \in Publishers, WriteHome(p)
    PROVE  Published!Replace
<1>1. /\ gen[p] \in Generations /\ active = gen[p] /\ home # gen[p]
      /\ runs[gen[p]] = HomeRuns \cup {gen[p]}
  BY DEF WriteHome, IInv, TypeOK, PublisherInv, FolderInv, PointerInv, RunsInv
<1>2. home' = gen[p] /\ UNCHANGED <<active, runs>>
  BY DEF WriteHome
<1>3. HomeRuns' = HomeRuns \cup {gen[p]}
  BY <1>1, <1>2 DEF HomeRuns
<1>4. gen[p] \notin HomeRuns
  BY <1>1 DEF WriteHome, IInv, TypeOK, PublisherInv, RunsInv, HomeRuns
<1>5. (home # active) /\ (home # active)' = FALSE
  BY <1>1, <1>2
<1> QED BY <1>1, <1>3, <1>4, <1>5 DEF Published!Replace

LEMMA RestoreWithdraws ==
    ASSUME IInv, NEW p \in Publishers, RestoreActive(p) \/ RestoreHome(p)
    PROVE  Published!Withdraw \/ UNCHANGED Seen
<1>1. CASE RestoreActive(p)
  <2>1. home = seen[p] /\ active' = home /\ UNCHANGED <<home, runs>>
    BY <1>1 DEF RestoreActive, IInv, PublisherInv, PointerInv
  <2>2. (home # active)' = FALSE /\ UNCHANGED HomeRuns
    BY <2>1 DEF HomeRuns
  <2>3. (home # active) = FALSE \/ (home # active) = TRUE
    OBVIOUS
  <2> QED BY <2>2, <2>3 DEF Published!Withdraw, Seen
<1>2. CASE RestoreHome(p)
  BY <1>2, UnseenStep DEF RestoreHome, IInv, PublisherInv, PointerInv
<1> QED BY <1>1, <1>2

LEMMA Simulation == IInv /\ [Next]_vars => [Published!Next]_Seen
<1> SUFFICES ASSUME IInv, [Next]_vars PROVE [Published!Next]_Seen
  OBVIOUS
<1>1. CASE UNCHANGED vars
  BY <1>1, UnseenStep DEF vars
<1>2. ASSUME NEW g \in Generations, Age(g) PROVE UNCHANGED Seen
  BY <1>2, UnseenStep DEF Age
<1>3. ASSUME NEW p \in Publishers, OpenRun(p) \/ Stage(p) PROVE UNCHANGED Seen
  <2>1. CASE EndClone(p)
    BY <2>1, StagedWriteStep
  <2>2. CASE ~EndClone(p)
    <3>1. UNCHANGED <<runs, home, active>>
      BY <1>3, <2>2 DEF OpenRun, Stage, Acquire, GiveUp, ReadActive,
         ReadRefused, RemoveOne, EndSweep, BeginClone, CloneFails, StageFails
    <3> QED BY <3>1, UnseenStep
  <2> QED BY <2>1, <2>2
<1>4. ASSUME NEW p \in Publishers, RunSucceeds(p) \/ RunAbandoned(p)
      PROVE  UNCHANGED Seen
  BY <1>4, StagedWriteStep, UnseenStep DEF RunAbandoned
<1>5. ASSUME NEW p \in Publishers, Activate(p) PROVE [Published!Next]_Seen
  <2>1. CASE WriteActive(p)
    BY <2>1, WriteActiveTears DEF Published!Next
  <2>2. CASE WriteHome(p)
    BY <2>2, WriteHomeReplaces DEF Published!Next
  <2>3. CASE RestoreActive(p) \/ RestoreHome(p)
    BY <2>3, RestoreWithdraws DEF Published!Next
  <2>4. CASE ~(WriteActive(p) \/ WriteHome(p) \/ RestoreActive(p) \/ RestoreHome(p))
    <3>1. UNCHANGED <<runs, home, active>>
      BY <1>5, <2>4 DEF Activate, Validate, WritePrevious,
         PreviousFails, PointerWriteFails, RestoreFails, EndCollect,
         CollectFails, ActivateRaises
    <3> QED BY <3>1, UnseenStep
  <2> QED BY <2>1, <2>2, <2>3, <2>4
<1>6. ASSUME NEW p \in Publishers, Close(p) \/ Interrupt(p) \/ Crash(p)
      PROVE  UNCHANGED Seen
  BY <1>6, UnseenStep DEF Close, Commit, PostPublishFails, DiscardChecked,
     DiscardRefused, RemoveStaged, Interrupt, StageFails, ActivateRaises,
     RunAbandoned, Crash
<1> QED BY <1>1, <1>2, <1>3, <1>4, <1>5, <1>6 DEF Next, Work

(* Whatever fails, readers find an index that is replaced as a whole, run  *)
(* by run, or refused: the promise of PublishedIndex.                      *)
THEOREM Implementation == Spec => ImplementsPublishedIndex
<1>1. Init => Published!Init
  BY DEF Init, Published!Init, HomeRuns
<1>2. IInv /\ [Next]_vars => [Published!Next]_Seen
  BY Simulation
<1> QED
  BY <1>1, <1>2, Invariance, PTL
  DEF Spec, ImplementsPublishedIndex, Published!Spec, Seen

(* What readers find only grows: no overlap or failure of runs loses the   *)
(* results of a published one.                                             *)
THEOREM NothingLost == Spec => NoLostUpdate
<1>1. IInv /\ [Next]_vars => [HomeRuns \subseteq HomeRuns']_vars
  BY Simulation DEF Published!Next, Published!Tear, Published!Replace,
     Published!Withdraw, Seen
<1> QED BY <1>1, Invariance, PTL DEF Spec, NoLostUpdate

----------------------------------------------------------------------------
----------------------------------------------------------------------------
(* The readers.                                                            *)

(* previous.json is replaced before the pointers are, so it names what a   *)
(* publication is about to replace; no cleanup list holds what it names,   *)
(* and no run removes its own folder once it is named there.               *)
RetentionInv(p) ==
    /\ pc[p] \in {"active", "home"} /\ seen[p] # NoGen => previous = seen[p]
    /\ previous \notin doomed[p]
    /\ pc[p] \notin {"idle", "published"} => gen[p] # previous
    /\ pc[p] = "closing" => home # gen[p]
KeptInv == PreviousKept /\ \A p \in Publishers : RetentionInv(p)

(* No run fails after it has published: it would discard what it published, *)
(* once another run has replaced that.                                     *)
FailsBeforePublishing == "post" \notin Faults /\ "interrupt" \notin Faults

(* A generation that home does not name, and that no run can put there.    *)
After == Restoring \cup {"published", "closing", "removing"}
Past(g) ==
    /\ g # home
    /\ g # NoGen =>
          /\ folder[g] # "unused"
          /\ \A p \in Publishers : gen[p] = g => pc[p] \in After

(* What was in active.json is there, in data-home.json, or past; what was  *)
(* in data-home.json is there or past, and then in neither pointer.        *)
WasNamed(g) == g \in {home, active} \/ Past(g)
WasHome(g) == g = home \/ (Past(g) /\ g # active)

(* Services opened on another generation than their label will never find  *)
(* that label in both pointers.                                            *)
ServerInv ==
    /\ server.label # server.content => Past(server.label)
    /\ server.at \in {"openHome", "openActive"} => WasNamed(server.newLabel)
    /\ server.at = "openActive" => WasHome(server.newContent)

(* What a command has read in data-home.json was published; it counts the  *)
(* replacements of previous.json since.                                    *)
HomeRan == home # NoGen => home \in runs[home]
ReaderInv(r) ==
    reader[r].at # "idle" =>
        /\ reader[r].gen \in Generations
        /\ folder[reader[r].gen] \in {"complete", "absent"}
        /\ reader[r].gen \in runs[reader[r].gen]
CountInv(r) ==
    reader[r].at # "idle" =>
        /\ reader[r].since = 0 => reader[r].gen = home /\ reader[r].gen # previous
        /\ reader[r].since = 1 => reader[r].gen = previous

----------------------------------------------------------------------------
(* What one step of the publishers changes.                                *)

LEMMA PointerMoves ==
    ASSUME IInv, [Next]_vars
    PROVE  /\ home' # home => \E p \in Publishers : WriteHome(p)
           /\ active' # active => \E p \in Publishers : WriteActive(p) \/ RestoreActive(p)
           /\ previous' # previous => \E p \in Publishers : WritePrevious(p)
           /\ runs' # runs => \E p \in Publishers : EndClone(p) \/ RunSucceeds(p)
<1>1. CASE UNCHANGED vars
  BY <1>1 DEF vars
<1>2. ASSUME NEW g \in Generations, Age(g) PROVE UNCHANGED <<home, active, previous, runs>>
  BY <1>2 DEF Age
<1>3. ASSUME NEW p \in Publishers, OpenRun(p) \/ (Stage(p) /\ ~EndClone(p))
      PROVE  UNCHANGED <<home, active, previous, runs>>
  BY <1>3 DEF OpenRun, Stage, Acquire, GiveUp, ReadActive, ReadRefused, RemoveOne, EndSweep,
     BeginClone, CloneFails, StageFails
<1>4. ASSUME NEW p \in Publishers, EndClone(p) \/ RunSucceeds(p) \/ RunAbandoned(p)
      PROVE  UNCHANGED <<home, active, previous>> /\ (RunAbandoned(p) => UNCHANGED runs)
  BY <1>4 DEF EndClone, RunSucceeds, RunAbandoned
<1>5. ASSUME NEW p \in Publishers, Activate(p)
      PROVE  /\ UNCHANGED runs
             /\ home' # home => WriteHome(p)
             /\ active' # active => WriteActive(p) \/ RestoreActive(p)
             /\ previous' # previous => WritePrevious(p)
  <2>1. RestoreHome(p) => home' = home
    BY DEF RestoreHome, IInv, PublisherInv, PointerInv
  <2> QED
    BY <1>5, <2>1 DEF Activate, Validate, WritePrevious, PreviousFails, WriteActive, WriteHome,
       PointerWriteFails, RestoreActive, RestoreHome, RestoreFails, EndCollect, CollectFails,
       ActivateRaises
<1>6. ASSUME NEW p \in Publishers, Close(p) \/ Interrupt(p) \/ Crash(p)
      PROVE  UNCHANGED <<home, active, previous, runs>>
  BY <1>6 DEF Close, Commit, PostPublishFails, DiscardChecked, DiscardRefused, RemoveStaged,
     Interrupt, StageFails, ActivateRaises, RunAbandoned, Crash
<1> QED BY <1>1, <1>2, <1>3, <1>4, <1>5, <1>6 DEF Next, Work

(* A folder is never again one that was not there yet; it is partial only  *)
(* while its own run copies into it.                                       *)
LEMMA FolderMoves ==
    ASSUME IInv, [Next]_vars, NEW g \in Generations
    PROVE  /\ folder[g] # "unused" => folder'[g] # "unused"
           /\ folder[g] \in {"complete", "absent"} => folder'[g] \in {"complete", "absent"}
<1>1. ASSUME NEW p \in Publishers, RemoveOne(p) \/ BeginClone(p) \/ EndClone(p) \/ RemoveStaged(p)
      PROVE  /\ folder[g] # "unused" => folder'[g] # "unused"
             /\ folder[g] \in {"complete", "absent"} => folder'[g] \in {"complete", "absent"}
  <2>1. CASE RemoveOne(p)
    BY <2>1 DEF RemoveOne, IInv, TypeOK
  <2>2. CASE BeginClone(p)
    BY <2>2 DEF BeginClone, IInv, TypeOK, PublisherInv, FolderInv
  <2>3. CASE EndClone(p)
    BY <2>3 DEF EndClone, IInv, TypeOK, PublisherInv, PointerInv, PointersComplete
  <2>4. CASE RemoveStaged(p)
    BY <2>4 DEF RemoveStaged, IInv, TypeOK
  <2> QED BY <1>1, <2>1, <2>2, <2>3, <2>4
<1>2. CASE UNCHANGED folder
  BY <1>2
<1>3. ASSUME folder' # folder
      PROVE  \E p \in Publishers : RemoveOne(p) \/ BeginClone(p) \/ EndClone(p) \/ RemoveStaged(p)
  <2>1. Next /\ \A x \in Generations : ~Age(x)
    BY <1>3 DEF vars, Age
  <2>2. PICK p \in Publishers : OpenRun(p) \/ Work(p) \/ Interrupt(p) \/ Crash(p)
    BY <2>1 DEF Next
  <2>3. ~(OpenRun(p) \/ Interrupt(p) \/ Crash(p) \/ RunSucceeds(p) \/ RunAbandoned(p))
    BY <1>3 DEF OpenRun, Interrupt, StageFails, ActivateRaises, RunAbandoned, Crash, RunSucceeds
  <2>4. ~Activate(p)
    BY <1>3 DEF Activate, Validate, WritePrevious, PreviousFails, WriteActive, WriteHome,
       PointerWriteFails, RestoreActive, RestoreHome, RestoreFails, EndCollect, CollectFails,
       ActivateRaises
  <2>5. Stage(p) \/ Close(p)
    BY <2>2, <2>3, <2>4 DEF Work
  <2> QED
    BY <1>3, <2>5 DEF Stage, Acquire, GiveUp, ReadActive, ReadRefused, EndSweep, CloneFails,
       StageFails, Close, Commit, PostPublishFails, DiscardChecked, DiscardRefused
<1> QED BY <1>1, <1>2, <1>3

(* A run that is past its pointer writes, or takes them back, writes them  *)
(* no more; its id is its own.                                             *)
LEMMA RunMoves ==
    ASSUME IInv, [Next]_vars, NEW g \in Generations, folder[g] # "unused",
           \A p \in Publishers : gen[p] = g => pc[p] \in After
    PROVE  \A p \in Publishers : gen'[p] = g => pc'[p] \in After
<1> USE DEF After
<1>1. CASE UNCHANGED <<gen, pc>>
  BY <1>1
<1>2. ASSUME NEW p \in Publishers, OpenRun(p)
      PROVE  \A q \in Publishers : gen'[q] = g => pc'[q] \in After
  BY <1>2 DEF OpenRun, Fresh, IInv, TypeOK
<1>3. ASSUME NEW p \in Publishers, Stage(p) \/ RunSucceeds(p) \/ RunAbandoned(p)
      PROVE  \A q \in Publishers : gen'[q] = g => pc'[q] \in After
  BY <1>3 DEF Stage, Acquire, GiveUp, ReadActive, ReadRefused, RemoveOne, EndSweep, BeginClone,
     EndClone, CloneFails, StageFails, RunSucceeds, RunAbandoned, IInv, TypeOK
<1>4. ASSUME NEW p \in Publishers, Activate(p)
      PROVE  \A q \in Publishers : gen'[q] = g => pc'[q] \in After
  BY <1>4 DEF Activate, Validate, WritePrevious, PreviousFails, WriteActive, WriteHome,
     PointerWriteFails, RestoreActive, RestoreHome, RestoreFails, EndCollect, CollectFails,
     ActivateRaises, IInv, TypeOK
<1>5. ASSUME NEW p \in Publishers, Close(p) \/ Interrupt(p) \/ Crash(p)
      PROVE  \A q \in Publishers : gen'[q] = g => pc'[q] \in After
  BY <1>5 DEF Close, Commit, PostPublishFails, DiscardChecked, DiscardRefused, RemoveStaged,
     Interrupt, StageFails, ActivateRaises, RunAbandoned, Crash, IInv, TypeOK
<1>6. (\E g1 \in Generations : Age(g1)) \/ UNCHANGED vars => UNCHANGED <<gen, pc>>
  BY DEF Age, vars
<1> QED BY <1>1, <1>2, <1>3, <1>4, <1>5, <1>6 DEF Next, Work

(* What is past stays past.                                                *)
LEMMA PastStays ==
    ASSUME IInv, [Next]_vars, NEW g \in Pointer, Past(g)
    PROVE  Past(g)'
<1>1. g # home'
  <2>1. CASE home' = home
    BY <2>1 DEF Past
  <2>2. CASE home' # home
    <3>1. PICK p \in Publishers : WriteHome(p)
      BY <2>2, PointerMoves
    <3>2. home' = gen[p] /\ pc[p] = "home" /\ gen[p] \in Generations
      BY <3>1 DEF WriteHome, IInv, TypeOK, PublisherInv, FolderInv
    <3> QED BY <3>2 DEF Past, After
  <2> QED BY <2>1, <2>2
<1>2. ASSUME g # NoGen
      PROVE  folder'[g] # "unused" /\ \A p \in Publishers : gen'[p] = g => pc'[p] \in After
  BY <1>2, FolderMoves, RunMoves DEF Past
<1> QED BY <1>1, <1>2 DEF Past

(* When home moves on, what it named is past, and in neither pointer.      *)
LEMMA HomeLeaves ==
    ASSUME IInv, NEW p \in Publishers, WriteHome(p), NEW g \in Pointer, g = home
    PROVE  Past(g)' /\ g # active'
<1>1. /\ lock = p /\ gen[p] \in Generations /\ home' = gen[p] /\ home # gen[p] /\ active' = gen[p]
      /\ UNCHANGED <<folder, gen>> /\ pc' = [pc EXCEPT ![p] = "collect"]
  BY DEF WriteHome, IInv, TypeOK, PublisherInv, LockInv, FolderInv, PointerInv
<1>2. ASSUME g # NoGen PROVE folder[g] = "complete"
  BY <1>2 DEF IInv, TypeOK, PointersComplete
<1>3. ASSUME g # NoGen, NEW q \in Publishers, gen[q] = g
      PROVE  q # p /\ pc[q] \in After
  <2>1. q # p
    BY <1>1, <1>3
  <2>2. pc[q] \notin Locked /\ pc[q] # "idle" /\ pc[q] # "waiting" /\ pc[q] \in Locations
    BY <1>1, <1>2, <1>3, <2>1 DEF IInv, TypeOK, PublisherInv, LockInv, FolderInv
  <2> QED BY <2>1, <2>2 DEF After
<1>4. ASSUME g # NoGen, NEW q \in Publishers, gen'[q] = g PROVE pc'[q] \in After
  BY <1>1, <1>3, <1>4 DEF IInv, TypeOK
<1> QED BY <1>1, <1>2, <1>4 DEF Past

(* A pointer that was seen in active.json, or in data-home.json.           *)
LEMMA NamedStays ==
    ASSUME IInv, [Next]_vars, NEW g \in Pointer, WasNamed(g)
    PROVE  WasNamed(g)'
<1>1. CASE Past(g)
  BY <1>1, PastStays DEF WasNamed
<1>2. CASE g = home
  <2>1. CASE home' = home
    BY <1>2, <2>1 DEF WasNamed
  <2>2. CASE home' # home
    BY <1>2, <2>2, PointerMoves, HomeLeaves DEF WasNamed
  <2> QED BY <2>1, <2>2
<1>3. CASE g = active /\ g # home
  <2>1. CASE active' = active
    BY <1>3, <2>1 DEF WasNamed
  <2>2. ASSUME NEW p \in Publishers, WriteActive(p) PROVE FALSE
    BY <1>3, <2>2 DEF WriteActive, IInv, PublisherInv, PointerInv
  <2>3. ASSUME NEW p \in Publishers, RestoreActive(p) PROVE Past(g)'
    <3>1. /\ pc[p] = "restoreActive" /\ lock = p /\ gen[p] = g /\ g \in Generations
          /\ folder[g] = "complete" /\ UNCHANGED <<folder, gen, home>>
          /\ pc' = [pc EXCEPT ![p] = "restoreHome"]
      BY <1>3, <2>3 DEF RestoreActive, IInv, TypeOK, PublisherInv, LockInv, FolderInv, PointerInv
    <3>2. \A q \in Publishers : gen[q] = g => q = p
      BY <3>1 DEF IInv, PublisherInv, FolderInv
    <3> QED BY <1>3, <3>1, <3>2 DEF Past, After, IInv, TypeOK
  <2> QED BY <2>1, <2>2, <2>3, PointerMoves DEF WasNamed
<1> QED BY <1>1, <1>2, <1>3 DEF WasNamed

LEMMA HomeStays ==
    ASSUME IInv, [Next]_vars, NEW g \in Pointer, WasHome(g)
    PROVE  WasHome(g)'
<1>1. CASE g = home /\ home' = home
  BY <1>1 DEF WasHome
<1>2. CASE g = home /\ home' # home
  BY <1>2, PointerMoves, HomeLeaves DEF WasHome
<1>3. CASE Past(g) /\ g # active
  <2>1. Past(g)'
    BY <1>3, PastStays
  <2>2. ASSUME NEW p \in Publishers, WriteActive(p) PROVE active' # g
    BY <1>3, <2>2 DEF WriteActive, IInv, TypeOK, PublisherInv, FolderInv, Past, After
  <2>3. ASSUME NEW p \in Publishers, RestoreActive(p) PROVE active' # g
    BY <1>3, <2>3 DEF RestoreActive, IInv, PublisherInv, PointerInv, Past
  <2>4. active' # g
    BY <1>3, <2>2, <2>3, PointerMoves
  <2> QED BY <2>1, <2>4 DEF WasHome
<1> QED BY <1>1, <1>2, <1>3 DEF WasHome

----------------------------------------------------------------------------
(* The MCP server.                                                         *)

ServedInv == IInv /\ server \in ServerStates /\ ServerInv

LEMMA ServedPublication ==
    ASSUME ServedInv, [Next]_vars, UNCHANGED server
    PROVE  ServedInv'
<1>1. /\ server.label \in Pointer /\ server.content \in Pointer
      /\ server.newLabel \in Pointer /\ server.newContent \in Pointer
  BY DEF ServedInv, ServerStates
<1> DEFINE label == server.label
           newLabel == server.newLabel
           newContent == server.newContent
<1>2. ASSUME NEW g \in Pointer PROVE Past(g) => Past(g)'
  BY PastStays DEF ServedInv
<1>3. ASSUME NEW g \in Pointer PROVE WasNamed(g) => WasNamed(g)'
  BY NamedStays DEF ServedInv
<1>4. ASSUME NEW g \in Pointer PROVE WasHome(g) => WasHome(g)'
  BY HomeStays DEF ServedInv
<1>5. PICK l \in Pointer, nl \in Pointer, nc \in Pointer :
          l = server.label /\ nl = server.newLabel /\ nc = server.newContent
  BY <1>1
<1>6. ServerInv'
  <2>1. /\ l # server.content => Past(l)
        /\ server.at \in {"openHome", "openActive"} => WasNamed(nl)
        /\ server.at = "openActive" => WasHome(nc)
    BY <1>5 DEF ServedInv, ServerInv
  <2>2. /\ server'.label = l /\ server'.newLabel = nl /\ server'.newContent = nc
        /\ server'.at = server.at /\ server'.content = server.content
    BY <1>5
  <2> QED BY <1>2, <1>3, <1>4, <2>1, <2>2 DEF ServerInv, Past, WasNamed, WasHome
<1> QED BY <1>6, NextInv DEF ServedInv

LEMMA ServedStep ==
    ASSUME ServedInv, ServerStep
    PROVE  ServedInv'
<1> USE DEF ServedInv, ServerStates
<1>1. UNCHANGED <<folder, aged, runs, active, home, previous, lock, pc, gen, seen, doomed>>
  BY DEF ServerStep, GetCurrent, GetChanged, Refresh, ReadLabel, OpenHome, OpenActive,
     KeepServices, FinishTool, Return, Becomes, vars
<1>2. IInv'
  BY <1>1, NextInv DEF vars
<1>3. active \in Pointer /\ home \in Pointer
  BY DEF IInv, TypeOK
<1>4. CASE GetCurrent \/ GetChanged \/ Refresh \/ FinishTool
  BY <1>1, <1>2, <1>4 DEF GetCurrent, GetChanged, Refresh, FinishTool, Becomes, ServerInv, Past
<1>5. CASE ReadLabel
  <2>1. server' = [server EXCEPT !.at = "openHome", !.newLabel = active]
    BY <1>5 DEF ReadLabel, Becomes
  <2>2. server' \in ServerStates
    BY <1>3, <2>1
  <2>3. ServerInv'
    BY <1>1, <2>1 DEF ServerInv, Past, WasNamed
  <2> QED BY <1>2, <2>2, <2>3
<1>6. CASE OpenHome
  <2>1. /\ server' = [server EXCEPT !.at = "openActive", !.newContent = home]
        /\ server.at = "openHome"
    BY <1>6 DEF OpenHome, Becomes
  <2>2. server' \in ServerStates
    BY <1>3, <2>1
  <2>3. ServerInv'
    BY <1>1, <2>1 DEF ServerInv, Past, WasNamed, WasHome
  <2> QED BY <1>2, <2>2, <2>3
<1>7. CASE OpenActive
  <2>1. /\ server.at = "openActive" /\ active = server.newContent
        /\ server'.label = server.newLabel /\ server'.content = server.newContent
        /\ server'.at \in {"serving", "idle"} /\ server' \in ServerStates
    BY <1>7 DEF OpenActive, Return, Becomes
  <2>2. server.newContent = home
    BY <2>1 DEF ServerInv, WasHome
  <2>3. server.newLabel # server.newContent => Past(server.newLabel)
    BY <2>1, <2>2 DEF ServerInv, WasNamed
  <2>4. ServerInv'
    BY <1>1, <2>1, <2>3 DEF ServerInv, Past
  <2> QED BY <1>2, <2>1, <2>4
<1>8. CASE KeepServices
  <2>1. /\ server'.label = server.label /\ server'.content = server.content
        /\ server'.at \in {"serving", "idle"} /\ server' \in ServerStates
    BY <1>8 DEF KeepServices, Return, Becomes
  <2>2. ServerInv'
    BY <1>1, <2>1 DEF ServerInv, Past
  <2> QED BY <1>2, <2>1, <2>2
<1> QED BY <1>4, <1>5, <1>6, <1>7, <1>8 DEF ServerStep

LEMMA ReaderOnly ==
    ASSUME ServedInv, UNCHANGED <<vars, server>>
    PROVE  ServedInv'
<1>1. IInv'
  BY NextInv DEF ServedInv
<1> QED BY <1>1 DEF ServedInv, ServerInv, Past, WasNamed, WasHome, vars

LEMMA ServedNext == ServedInv /\ [ReadersNext]_allVars => ServedInv'
<1> SUFFICES ASSUME ServedInv, [ReadersNext]_allVars PROVE ServedInv'
  OBVIOUS
<1>1. CASE Publication
  BY <1>1, ServedPublication DEF Publication
<1>2. CASE ServerStep
  BY <1>2, ServedStep
<1>3. ASSUME NEW r \in Readers, ReadHome(r) \/ CompareActive(r) \/ FinishReading(r) PROVE ServedInv'
  BY <1>3, ReaderOnly DEF ReadHome, CompareActive, FinishReading
<1>4. CASE UNCHANGED allVars
  BY <1>4, ReaderOnly DEF allVars, readerVars
<1> QED BY <1>1, <1>2, <1>3, <1>4 DEF ReadersNext

LEMMA ServedInit == ReadersInit => ServedInv
<1>1. ReadersInit => IInv
  BY InitInv DEF ReadersInit
<1> QED BY <1>1 DEF ReadersInit, ServedInv, ServerStates, ServerInv

(* While both pointers name the generation the server believes it serves,  *)
(* it serves it, after any failure of any run.                             *)
THEOREM LabelIsTrue == ReadersSpec => []LabelTellsTheContent
<1>1. ServedInv => LabelTellsTheContent
  BY DEF ServedInv, ServerInv, Past, LabelTellsTheContent
<1> QED BY ServedInit, ServedNext, <1>1, PTL DEF ReadersSpec

----------------------------------------------------------------------------
(* The read commands.                                                      *)

ReadingInv ==
    /\ IInv /\ HomeRan
    /\ reader \in [Readers -> ReaderStates]
    /\ \A r \in Readers : ReaderInv(r)

LEMMA HomeRanStays ==
    ASSUME IInv, HomeRan, [Next]_vars
    PROVE  HomeRan'
<1>1. ASSUME NEW p \in Publishers, WriteHome(p) PROVE HomeRan'
  <2>1. home' = gen[p] /\ gen[p] \in runs[gen[p]] /\ runs' = runs
    BY <1>1 DEF WriteHome, IInv, PublisherInv, RunsInv
  <2> QED BY <2>1 DEF HomeRan
<1>2. ASSUME home' = home, NEW p \in Publishers, EndClone(p) \/ RunSucceeds(p) PROVE HomeRan'
  <2>1. home # gen[p]
    BY <1>2 DEF EndClone, RunSucceeds, IInv, PublisherInv, PointerInv
  <2> QED BY <1>2, <2>1 DEF EndClone, RunSucceeds, HomeRan, IInv, TypeOK
<1>3. CASE home' = home /\ runs' = runs
  BY <1>3 DEF HomeRan
<1> QED BY <1>1, <1>2, <1>3, PointerMoves

(* Results are added to a folder that is being made; what was published    *)
(* holds its own for good.                                                 *)
LEMMA RanStays ==
    ASSUME IInv, [Next]_vars, NEW g \in Generations, folder[g] \in {"complete", "absent"},
           g \in runs[g]
    PROVE  g \in runs'[g]
<1>1. ASSUME NEW p \in Publishers, EndClone(p) PROVE g \in runs'[g]
  <2>1. folder[gen[p]] = "partial"
    BY <1>1 DEF EndClone, IInv, PublisherInv, FolderInv
  <2> QED BY <1>1, <2>1 DEF EndClone, IInv, TypeOK
<1>2. ASSUME NEW p \in Publishers, RunSucceeds(p) PROVE g \in runs'[g]
  BY <1>2 DEF RunSucceeds, IInv, TypeOK
<1>3. CASE runs' = runs
  BY <1>3
<1> QED BY <1>1, <1>2, <1>3, PointerMoves

LEMMA ReadingNext == ReadingInv /\ [ReadersNext]_allVars => ReadingInv'
<1> SUFFICES ASSUME ReadingInv, [ReadersNext]_allVars PROVE ReadingInv'
  OBVIOUS
<1> USE DEF ReadingInv, ReaderStates
<1>1. CASE Publication
  <2>1. /\ reader' \in [Readers -> ReaderStates]
        /\ \A r \in Readers : reader'[r].at = reader[r].at /\ reader'[r].gen = reader[r].gen
    BY <1>1 DEF Publication
  <2>2. IInv' /\ HomeRan'
    BY <1>1, NextInv, HomeRanStays DEF Publication
  <2>3. ASSUME NEW r \in Readers PROVE ReaderInv(r)'
    <3>1. CASE reader[r].at = "idle"
      BY <2>1, <3>1 DEF ReaderInv
    <3>2. CASE reader[r].at # "idle"
      <4>1. PICK g \in Generations : g = reader[r].gen
        BY <3>2 DEF ReaderInv
      <4>2. folder'[g] \in {"complete", "absent"} /\ g \in runs'[g]
        BY <1>1, <3>2, <4>1, FolderMoves, RanStays DEF ReaderInv, Publication
      <4> QED BY <2>1, <3>2, <4>1, <4>2 DEF ReaderInv
    <3> QED BY <3>1, <3>2
  <2> QED BY <2>1, <2>2, <2>3
<1>2. ASSUME UNCHANGED <<folder, aged, runs, active, home, previous, lock, pc, gen, seen, doomed>>
      PROVE  IInv' /\ HomeRan'
  <2>1. UNCHANGED vars
    BY <1>2 DEF vars
  <2> QED BY <1>2, <2>1, NextInv DEF HomeRan
<1>3. ASSUME NEW r \in Readers, ReadHome(r) PROVE ReadingInv'
  <2>1. /\ home \in Generations /\ folder[home] = "complete" /\ home \in runs[home]
        /\ reader' = [reader EXCEPT ![r] = [at |-> "openActive", gen |-> home,
                                           since |-> IF previous = home THEN 1 ELSE 0]]
        /\ UNCHANGED <<folder, aged, runs, active, home, previous, lock, pc, gen, seen, doomed>>
    BY <1>3 DEF ReadHome, IInv, TypeOK, PointersComplete, HomeRan, vars
  <2>2. reader' \in [Readers -> ReaderStates]
    BY <2>1
  <2>3. \A q \in Readers : ReaderInv(q)'
    BY <2>1 DEF ReaderInv
  <2> QED BY <1>2, <2>1, <2>2, <2>3
<1>4. ASSUME NEW r \in Readers, CompareActive(r) \/ FinishReading(r) PROVE ReadingInv'
  <2>1. /\ reader' \in [Readers -> ReaderStates]
        /\ UNCHANGED <<folder, aged, runs, active, home, previous, lock, pc, gen, seen, doomed>>
    BY <1>4 DEF CompareActive, FinishReading, vars, Idle
  <2>2. \A q \in Readers : reader'[q].at = "idle" \/ (reader[q].at # "idle" /\ reader'[q].gen = reader[q].gen)
    BY <1>4 DEF CompareActive, FinishReading, Idle
  <2>3. \A q \in Readers : ReaderInv(q)'
    BY <2>1, <2>2 DEF ReaderInv
  <2> QED BY <1>2, <2>1, <2>3
<1>5. CASE ServerStep \/ UNCHANGED allVars
  <2>1. UNCHANGED <<folder, aged, runs, active, home, previous, lock, pc, gen, seen, doomed, reader>>
    BY <1>5 DEF ServerStep, GetCurrent, GetChanged, Refresh, ReadLabel, OpenHome, OpenActive,
       KeepServices, FinishTool, Return, Becomes, vars, allVars, readerVars
  <2> QED BY <1>2, <2>1 DEF ReaderInv
<1> QED BY <1>1, <1>3, <1>4, <1>5 DEF ReadersNext

LEMMA ReadingInit == ReadersInit => ReadingInv
<1>1. ReadersInit => IInv
  BY InitInv DEF ReadersInit
<1> QED BY <1>1 DEF ReadersInit, Init, ReadingInv, HomeRan, ReaderStates, ReaderInv, Idle

(* What a command accepts is complete and was published by its own run.    *)
THEOREM CompleteIsOpened == ReadersSpec => ReaderOpensComplete
<1>1. ASSUME ReadingInv, [ReadersNext]_allVars, NEW r \in Readers,
             reader[r].at = "openActive", reader'[r].at = "using"
      PROVE  folder[reader'[r].gen] = "complete" /\ reader'[r].gen \in runs[reader'[r].gen]
  <2>1. ~Publication
    BY <1>1 DEF Publication, ReadingInv, ReaderStates
  <2>2. ~ServerStep /\ ~UNCHANGED allVars
    BY <1>1 DEF ServerStep, GetCurrent, GetChanged, Refresh, ReadLabel, OpenHome, OpenActive,
       KeepServices, FinishTool, Return, Becomes, allVars, readerVars
  <2>3. PICK q \in Readers : ReadHome(q) \/ CompareActive(q) \/ FinishReading(q)
    BY <1>1, <2>1, <2>2 DEF ReadersNext
  <2>4. CompareActive(r) /\ active = reader[r].gen /\ reader'[r].gen = reader[r].gen
    BY <1>1, <2>3 DEF ReadHome, CompareActive, FinishReading, ReadingInv, ReaderStates, Idle
  <2> QED BY <1>1, <2>4 DEF ReadingInv, ReaderInv, IInv, PointersComplete
<1>2. ReadingInv /\ [ReadersNext]_allVars
          => [\A r \in Readers :
                 reader[r].at = "openActive" /\ reader'[r].at = "using"
                     => folder[reader'[r].gen] = "complete" /\ reader'[r].gen \in runs[reader'[r].gen]]_allVars
  BY <1>1
<1> QED BY ReadingInit, ReadingNext, <1>2, PTL DEF ReadersSpec, ReaderOpensComplete

----------------------------------------------------------------------------
(* What the cleanup keeps, when no run fails after it has published.       *)

LEMMA KeptWhileStaging ==
    ASSUME IInv, KeptInv, NEW p \in Publishers,
           OpenRun(p) \/ Stage(p) \/ RunSucceeds(p) \/ RunAbandoned(p)
    PROVE  KeptInv'
<1>1. previous # NoGen => folder[previous] = "complete"
  BY DEF KeptInv, PreviousKept
<1> USE DEF IInv, TypeOK
<1>2. CASE OpenRun(p)
  BY <1>1, <1>2 DEF OpenRun, Fresh, KeptInv, PreviousKept, RetentionInv
<1>3. CASE Acquire(p) \/ GiveUp(p) \/ ReadRefused(p) \/ EndSweep(p) \/ CloneFails(p) \/ RunSucceeds(p)
  BY <1>3 DEF Acquire, GiveUp, ReadRefused, EndSweep, CloneFails, RunSucceeds, StageFails,
     KeptInv, PreviousKept, RetentionInv
<1>4. CASE ReadActive(p)
  <2>1. previous \notin doomed'[p]
    BY <1>4 DEF ReadActive
  <2> QED BY <1>4, <2>1 DEF ReadActive, KeptInv, PreviousKept, RetentionInv
<1>5. CASE RemoveOne(p)
  <2>1. PICK g \in doomed[p] : folder' = Without(g) /\ doomed' = [doomed EXCEPT ![p] = @ \ {g}]
    BY <1>5 DEF RemoveOne
  <2>2. g # previous
    BY <2>1 DEF KeptInv, RetentionInv
  <2> QED BY <1>5, <2>1, <2>2 DEF RemoveOne, KeptInv, PreviousKept, RetentionInv
<1>6. CASE BeginClone(p) \/ EndClone(p)
  <2>1. gen[p] # previous
    BY <1>6 DEF BeginClone, EndClone, KeptInv, RetentionInv
  <2> QED BY <1>6, <2>1 DEF BeginClone, EndClone, KeptInv, PreviousKept, RetentionInv
<1>7. CASE RunAbandoned(p)
  <2>1. home # gen[p]
    BY <1>7 DEF RunAbandoned, PublisherInv, PointerInv
  <2> QED BY <1>7, <2>1 DEF RunAbandoned, KeptInv, PreviousKept, RetentionInv
<1> QED BY <1>2, <1>3, <1>4, <1>5, <1>6, <1>7 DEF Stage

(* Nobody but the run that publishes is between its start and its end, but *)
(* for runs that wait or close; their folders are not the published one.   *)
LEMMA OthersClose ==
    ASSUME IInv, KeptInv, NEW p \in Publishers, lock = p, NEW q \in Publishers \ {p},
           pc[q] \notin {"idle", "published"}
    PROVE  pc[q] \in {"waiting", "closing", "removing"} /\ gen[q] # home /\ gen[q] \in Generations
<1>1. pc[q] \in {"waiting", "closing", "removing"} /\ gen[q] \in Generations
  BY DEF IInv, TypeOK, PublisherInv, LockInv, FolderInv
<1>2. home # NoGen => folder[home] = "complete"
  BY DEF IInv, PointersComplete
<1>3. pc[q] = "waiting" => folder[gen[q]] = "unused"
  BY DEF IInv, PublisherInv, FolderInv
<1>4. gen[q] # home
  BY <1>1, <1>2, <1>3 DEF IInv, PublisherInv, PointerInv, KeptInv, RetentionInv
<1> QED BY <1>1, <1>4

LEMMA KeptWhileActivating ==
    ASSUME FailsBeforePublishing, IInv, KeptInv, NEW p \in Publishers, Activate(p)
    PROVE  KeptInv'
<1> USE DEF IInv, TypeOK
<1>1. pc[p] \in Activating /\ lock = p /\ gen[p] \in Generations
  BY DEF Activate, Validate, WritePrevious, PreviousFails, WriteActive, WriteHome,
     PointerWriteFails, RestoreActive, RestoreHome, RestoreFails, EndCollect, CollectFails,
     PublisherInv, LockInv, FolderInv
<1>2. pc[p] # "collect" => home # gen[p]
  BY <1>1 DEF PublisherInv, PointerInv
<1>3. CASE Validate(p) \/ WriteActive(p) \/ PointerWriteFails(p) \/ RestoreActive(p) \/ EndCollect(p)
  BY <1>3 DEF Validate, WriteActive, PointerWriteFails, RestoreActive, EndCollect,
     KeptInv, PreviousKept, RetentionInv
<1>4. CASE PreviousFails(p) \/ RestoreFails(p)
  BY <1>2, <1>4 DEF PreviousFails, RestoreFails, ActivateRaises, KeptInv, PreviousKept, RetentionInv
<1>5. CASE RestoreHome(p)
  <2>1. home' = home
    BY <1>5 DEF RestoreHome, PublisherInv, PointerInv
  <2> QED BY <1>2, <1>5, <2>1 DEF RestoreHome, KeptInv, PreviousKept, RetentionInv
<1>6. CASE WritePrevious(p)
  <2>1. /\ seen[p] = home /\ home = active /\ doomed[p] = {} /\ pc[p] = "previous"
        /\ previous' = IF home = NoGen THEN previous ELSE home
    BY <1>6 DEF WritePrevious, PublisherInv, PointerInv, DoomedInv
  <2>2. PreviousKept'
    BY <1>6, <2>1 DEF WritePrevious, KeptInv, PreviousKept, PointersComplete
  <2>3. ASSUME NEW q \in Publishers \ {p} PROVE RetentionInv(q)'
    <3>1. doomed[q] = {} /\ pc[q] \notin {"active", "home"}
      BY <1>1 DEF PublisherInv, LockInv, DoomedInv
    <3>2. pc[q] \notin {"idle", "published"} => gen[q] # previous'
      BY <1>1, <2>1, OthersClose DEF KeptInv, RetentionInv
    <3> QED BY <1>6, <3>1, <3>2 DEF WritePrevious, KeptInv, RetentionInv
  <2>4. RetentionInv(p)'
    BY <1>2, <1>6, <2>1 DEF WritePrevious, KeptInv, RetentionInv
  <2> QED BY <2>2, <2>3, <2>4 DEF KeptInv
<1>7. CASE WriteHome(p)
  <2>1. home' = gen[p] /\ doomed' = [doomed EXCEPT ![p] = OnDisk \ {gen[p], previous}]
    BY <1>7 DEF WriteHome
  <2>2. ASSUME NEW q \in Publishers \ {p} PROVE RetentionInv(q)'
    <3>1. gen[q] = gen[p] => gen[p] = NoGen
      BY <2>2 DEF PublisherInv, FolderInv
    <3> QED BY <1>1, <1>7, <2>1, <3>1 DEF WriteHome, KeptInv, RetentionInv
  <2>3. RetentionInv(p)'
    BY <1>7, <2>1 DEF WriteHome, KeptInv, RetentionInv
  <2> QED BY <1>7, <2>2, <2>3 DEF WriteHome, KeptInv, PreviousKept
<1>8. ~CollectFails(p)
  BY DEF CollectFails, FailsBeforePublishing
<1> QED BY <1>3, <1>4, <1>5, <1>6, <1>7, <1>8 DEF Activate

LEMMA KeptWhileClosing ==
    ASSUME FailsBeforePublishing, IInv, KeptInv, NEW p \in Publishers, Close(p) \/ Crash(p)
    PROVE  KeptInv'
<1> USE DEF IInv, TypeOK
<1>1. CASE RemoveStaged(p)
  <2>1. gen[p] # previous
    BY <1>1 DEF RemoveStaged, KeptInv, RetentionInv
  <2> QED BY <1>1, <2>1 DEF RemoveStaged, KeptInv, PreviousKept, RetentionInv
<1>2. CASE Commit(p) \/ DiscardChecked(p) \/ DiscardRefused(p) \/ Crash(p)
  BY <1>2 DEF Commit, DiscardChecked, DiscardRefused, Crash, KeptInv, PreviousKept, RetentionInv
<1>3. ~PostPublishFails(p)
  BY DEF PostPublishFails, FailsBeforePublishing
<1> QED BY <1>1, <1>2, <1>3 DEF Close

LEMMA KeptNext == FailsBeforePublishing /\ IInv /\ KeptInv /\ [Next]_vars => KeptInv'
<1> SUFFICES ASSUME FailsBeforePublishing, IInv, KeptInv, [Next]_vars PROVE KeptInv'
  OBVIOUS
<1>1. CASE UNCHANGED vars
  BY <1>1 DEF vars, KeptInv, PreviousKept, RetentionInv
<1>2. ASSUME NEW g \in Generations, Age(g) PROVE KeptInv'
  BY <1>2 DEF Age, KeptInv, PreviousKept, RetentionInv
<1>3. ASSUME NEW p \in Publishers PROVE ~Interrupt(p)
  BY DEF Interrupt, FailsBeforePublishing
<1> QED
  BY <1>1, <1>2, <1>3, KeptWhileStaging, KeptWhileActivating, KeptWhileClosing DEF Next, Work

LEMMA KeptInit == Init => KeptInv
  BY DEF Init, KeptInv, PreviousKept, RetentionInv

(* previous.json names a complete generation while no run fails after it   *)
(* has published: neither cleanup nor a late discard removes its folder.   *)
THEOREM PreviousStays ==
    ASSUME FailsBeforePublishing
    PROVE  Spec => []PreviousKept
<1>1. Init => IInv /\ KeptInv
  BY InitInv, KeptInit
<1>2. IInv /\ KeptInv /\ [Next]_vars => (IInv /\ KeptInv)'
  BY NextInv, KeptNext
<1>3. KeptInv => PreviousKept
  BY DEF KeptInv
<1> QED BY <1>1, <1>2, <1>3, PTL DEF Spec

----------------------------------------------------------------------------
(* A command's generation is the published one until previous.json moves   *)
(* for the first time, and the previous one until it moves again.          *)

CountedInv ==
    /\ ReadingInv /\ KeptInv
    /\ \A r \in Readers : CountInv(r)

LEMMA PreviousTakesHome ==
    ASSUME IInv, [Next]_vars, previous' # previous
    PROVE  previous' = home /\ home' = home /\ home # NoGen
<1>1. PICK p \in Publishers : WritePrevious(p)
  BY PointerMoves
<1> QED BY <1>1 DEF WritePrevious, IInv, PublisherInv, PointerInv

LEMMA HomeLeavesToPrevious ==
    ASSUME IInv, KeptInv, [Next]_vars, home' # home, home # NoGen
    PROVE  previous = home
<1>1. PICK p \in Publishers : WriteHome(p)
  BY PointerMoves
<1> QED BY <1>1 DEF WriteHome, IInv, PublisherInv, PointerInv, KeptInv, RetentionInv

LEMMA CountNext ==
    FailsBeforePublishing /\ CountedInv /\ [ReadersNext]_allVars => CountedInv'
<1> SUFFICES ASSUME FailsBeforePublishing, CountedInv, [ReadersNext]_allVars PROVE CountedInv'
  OBVIOUS
<1> USE DEF CountedInv
<1>1. ReadingInv'
  BY ReadingNext
<1>2. reader \in [Readers -> ReaderStates] /\ IInv
  BY DEF ReadingInv
<1>3. CASE Publication
  <2>1. KeptInv'
    BY <1>2, <1>3, KeptNext DEF Publication
  <2>2. ASSUME NEW r \in Readers, reader[r].at # "idle" PROVE CountInv(r)'
    <3>1. reader[r].gen \in Generations /\ reader[r].since \in 0..2
      BY <1>2, <2>2 DEF ReadingInv, ReaderInv, ReaderStates
    <3>2. CASE previous' # previous
      <4>1. previous' = home /\ home' = home
        BY <1>2, <1>3, <3>2, PreviousTakesHome DEF Publication
      <4>2. /\ reader'[r].gen = reader[r].gen
            /\ reader'[r].since = IF reader[r].since < 2 THEN reader[r].since + 1 ELSE reader[r].since
        BY <1>2, <1>3, <2>2, <3>2 DEF Publication, ReaderStates
      <4>3. reader[r].since = 0 => reader[r].gen = home
        BY <2>2 DEF CountInv
      <4>4. reader'[r].since # 0 /\ (reader'[r].since = 1 => reader[r].since = 0)
        BY <3>1, <4>2
      <4> QED BY <4>1, <4>2, <4>3, <4>4 DEF CountInv
    <3>3. CASE previous' = previous
      <4>1. reader'[r] = reader[r]
        BY <1>3, <3>3 DEF Publication
      <4>2. reader[r].since = 0 => home' = home
        <5>1. reader[r].since = 0 => reader[r].gen = home /\ home # previous /\ home # NoGen
          BY <2>2, <3>1 DEF CountInv
        <5> QED BY <1>2, <1>3, <5>1, HomeLeavesToPrevious DEF Publication
      <4> QED BY <2>2, <3>3, <4>1, <4>2 DEF CountInv
    <3> QED BY <3>2, <3>3
  <2>3. ASSUME NEW r \in Readers, reader[r].at = "idle" PROVE CountInv(r)'
    BY <1>3, <2>3 DEF Publication, CountInv
  <2> QED BY <1>1, <2>1, <2>2, <2>3
<1>4. ASSUME UNCHANGED <<folder, aged, runs, active, home, previous, lock, pc, gen, seen, doomed>>
      PROVE  KeptInv'
  BY <1>4 DEF KeptInv, PreviousKept, RetentionInv
<1>5. ASSUME NEW q \in Readers, ReadHome(q) \/ CompareActive(q) \/ FinishReading(q) PROVE CountedInv'
  <2>1. UNCHANGED <<folder, aged, runs, active, home, previous, lock, pc, gen, seen, doomed>>
    BY <1>5 DEF ReadHome, CompareActive, FinishReading, vars
  <2>2. CASE ReadHome(q)
    BY <1>1, <1>2, <1>4, <2>1, <2>2 DEF ReadHome, CountInv
  <2>3. CASE CompareActive(q) \/ FinishReading(q)
    <3>1. \A r \in Readers :
              \/ reader'[r].at = "idle"
              \/ /\ reader[r].at # "idle"
                 /\ reader'[r].gen = reader[r].gen /\ reader'[r].since = reader[r].since
      BY <1>2, <2>3 DEF CompareActive, FinishReading, Idle, ReaderStates
    <3>2. \A r \in Readers : CountInv(r)'
      BY <2>1, <3>1 DEF CountInv
    <3> QED BY <1>1, <1>4, <2>1, <3>2
  <2> QED BY <1>5, <2>2, <2>3
<1>6. CASE ServerStep \/ UNCHANGED allVars
  <2>1. UNCHANGED <<folder, aged, runs, active, home, previous, lock, pc, gen, seen, doomed, reader>>
    BY <1>6 DEF ServerStep, GetCurrent, GetChanged, Refresh, ReadLabel, OpenHome, OpenActive,
       KeepServices, FinishTool, Return, Becomes, vars, allVars, readerVars
  <2> QED BY <1>1, <1>4, <2>1 DEF CountInv
<1> QED BY <1>3, <1>5, <1>6 DEF ReadersNext

(* A read command finishes on the generation it found while that becomes   *)
(* the previous one, when no run fails after it has published.             *)
THEOREM ReadersKeepTheirFolder ==
    ASSUME FailsBeforePublishing
    PROVE  ReadersSpec => []ReaderKeepsFolder
<1>1. ReadersInit => CountedInv
  BY ReadingInit, KeptInit DEF CountedInv, ReadersInit, CountInv, Idle
<1>2. CountedInv => ReaderKeepsFolder
  <2> SUFFICES ASSUME CountedInv, NEW r \in Readers, reader[r].at = "using", reader[r].since < 2
               PROVE  folder[reader[r].gen] = "complete"
    BY DEF ReaderKeepsFolder
  <2>1. reader[r].gen \in Generations /\ reader[r].since \in {0, 1}
    BY DEF CountedInv, ReadingInv, ReaderInv, ReaderStates
  <2>2. reader[r].gen \in {home, previous}
    BY <2>1 DEF CountedInv, CountInv
  <2> QED BY <2>1, <2>2 DEF CountedInv, ReadingInv, IInv, PointersComplete, KeptInv, PreviousKept
<1>3. CountedInv /\ [ReadersNext]_allVars => CountedInv'
  BY CountNext
<1> QED BY <1>1, <1>2, <1>3, PTL DEF ReadersSpec
================================================================================
