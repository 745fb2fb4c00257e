---------------------------- MODULE SessionStart ----------------------------
(***************************************************************************)
(* What a session start does to the index (interface/cli/hook_commands.py, *)
(* interface/composition/recall_index_refresh.py).                         *)
(*                                                                         *)
(* The hook scans the linked Vaults for changed files, starts one detached *)
(* catch-up process, refreshes the metadata of the changed Vaults itself   *)
(* (no vectors), and then opens the catch-up's gate.  The catch-up runs    *)
(* `vg index`, one child process per Vault, for the changed Vaults and for *)
(* those whose vectors are stale.  It holds an flock it inherited from the *)
(* hook for as long as it lives, so session starts do not pile up.  Hooks, *)
(* catch-ups and children can be killed at any step.                       *)
(*                                                                         *)
(* A Vault is abstracted to one file.  The publish lock is that of         *)
(* ProjectionPublication; a publication is one step here.                  *)
(***************************************************************************)
EXTENDS Naturals, FiniteSets

CONSTANTS
    Vaults,       \* the linked, indexed Vaults
    Hooks,        \* sessions that start, again and again
    Slots,        \* room for catch-ups and their children
    MaxEdits,     \* bound: how often a file changes
    GoneAt,       \* the versions of a file that are deletions
    MaxFailures,  \* bound: how often a `vg index` child fails
    MaxKills,     \* bound: how often a process is killed
    SlowHooks,    \* hooks without a launcher, which may run for over 60 s
    Nobody

ASSUME NobodyAssumption == Nobody \notin Hooks \cup Slots
ASSUME ProcessAssumption == Hooks \cap Slots = {}
ASSUME GoneAtAssumption == GoneAt \subseteq 1..MaxEdits
ASSUME BoundsAssumption ==
    MaxEdits \in Nat /\ MaxFailures \in Nat /\ MaxKills \in Nat /\ SlowHooks \in BOOLEAN

VARIABLES
    file,      \* the version of each Vault's file
    meta,      \* the version whose metadata the active generation holds
    vec,       \* the version its vectors were made from
    held,      \* Vaults inside their vector retry interval
    hook,      \* each hook: where it is and what its scan found
    session,   \* who holds session-start-index.lock (a shared descriptor)
    gate,      \* the hook that still holds the write end of a slot's pipe
    catchUp,   \* each catch-up: where it is and its plan
    run,       \* the `vg index` child of each slot
    publisher, \* who holds the publish lock
    failures, kills

vars == <<file, meta, vec, held, hook, session, gate, catchUp, run, publisher,
          failures, kills>>
index == <<meta, vec, held>>
processes == <<hook, session, gate, catchUp, run>>
counters == <<failures, kills>>

Versions == 0..MaxEdits
Absent(version) == version \in GoneAt

NoScan == [at |-> "idle", seen |-> [v \in Vaults |-> 0], listed |-> {}, refresh |-> FALSE]
NoCatchUp == [at |-> "none", todo |-> {}, check |-> {}]
NoRun == [at |-> "none", vault |-> Nobody, vectors |-> FALSE]

Alive(s) == catchUp[s].at # "none"

Init ==
    /\ file = [v \in Vaults |-> 0] /\ meta = file /\ vec = file
    /\ held = {}
    /\ hook = [h \in Hooks |-> NoScan]
    /\ session = {}
    /\ gate = [s \in Slots |-> Nobody]
    /\ catchUp = [s \in Slots |-> NoCatchUp]
    /\ run = [s \in Slots |-> NoRun]
    /\ publisher = Nobody
    /\ failures = 0 /\ kills = 0

----------------------------------------------------------------------------
(* The hook.                                                               *)

(* scan_changes: files that differ from the index or are gone from disk.   *)
Listed == {v \in Vaults : IF Absent(file[v]) THEN ~Absent(meta[v]) ELSE file[v] # meta[v]}

StartSession(h) ==
    /\ hook[h].at = "idle"
    /\ hook' = [hook EXCEPT ![h].at = "scan"]
    /\ UNCHANGED <<file, index, session, gate, catchUp, run, publisher, counters>>

Scanned(h, listed, refresh) ==
    /\ hook[h].at = "scan"
    /\ hook' = [hook EXCEPT ![h] = [at |-> "launch", seen |-> file,
                                    listed |-> listed, refresh |-> refresh]]
    /\ UNCHANGED <<file, index, session, gate, catchUp, run, publisher, counters>>

Scan(h) == Scanned(h, Listed, Listed # {})

(* The time limit is reached: any Vault may have changed, none is refreshed. *)
ScanStops(h) == Scanned(h, Vaults, FALSE)

(* The lock decides alone whether a catch-up runs.                         *)
TakeSession(h) ==
    /\ hook[h].at = "launch"
    /\ session' = IF session = {} THEN {h} ELSE session
    /\ hook' = [hook EXCEPT ![h].at = IF session = {} THEN "spawn" ELSE "refresh"]
    /\ UNCHANGED <<file, index, gate, catchUp, run, publisher, counters>>

(* The detached process, with its plan and its pipe to the hook; holders   *)
(* are the processes that share the locked descriptor from now on.         *)
Popen(h, check, holders) ==
    /\ hook[h].at = "spawn"
    /\ \E s \in Slots :
        /\ ~Alive(s) /\ run[s].at = "none"
        /\ catchUp' = [catchUp EXCEPT ![s] =
                          [at |-> "gate", todo |-> hook[h].listed, check |-> check]]
        /\ gate' = [gate EXCEPT ![s] = h]
        /\ session' = holders \cap {s}
    /\ hook' = [hook EXCEPT ![h].at = "refresh"]
    /\ UNCHANGED <<file, index, run, publisher, counters>>
(* Mutants: the child does not inherit the locked descriptor; Vaults whose *)
(* files did not change are not checked.                                   *)
SpawnUnlocked(h) == Popen(h, Vaults \ hook[h].listed, {})

SpawnChangedOnly(h) == Popen(h, {}, Slots)

Spawn(h) == Popen(h, Vaults \ hook[h].listed, Slots)

(* The log cannot be opened or the process not started: only a warning.    *)
SpawnFails(h) ==
    /\ hook[h].at = "spawn"
    /\ kills < MaxKills /\ kills' = kills + 1
    /\ session' = session \ {h}
    /\ hook' = [hook EXCEPT ![h].at = "refresh"]
    /\ UNCHANGED <<file, index, gate, catchUp, run, publisher, failures>>

(* stage_from_active with a lock_timeout of at most a second.              *)
StageRefresh(h) ==
    /\ hook[h].at = "refresh"
    /\ hook[h].refresh
    /\ publisher = Nobody
    /\ publisher' = h
    /\ hook' = [hook EXCEPT ![h].at = "publish"]
    /\ UNCHANGED <<file, index, session, gate, catchUp, run, counters>>

(* Nothing changed, too many files or documents, two slow runs in a row,   *)
(* out of time, or the publish lock is taken: no refresh.                  *)
SkipRefresh(h) ==
    /\ hook[h].at = "refresh"
    /\ hook' = [hook EXCEPT ![h].at = "release"]
    /\ UNCHANGED <<file, index, session, gate, catchUp, run, publisher, counters>>
(* Mutant: the refresh publishes what the scan saw.                        *)
RefreshAsSeen(h, v) == IF v \in hook[h].listed THEN hook[h].seen[v] ELSE meta[v]

(* run_apply_paths reads a changed file again, and deletes it when it is   *)
(* gone by then; a deletion is taken from the scan as it was.              *)
Refreshed(h, v) ==
    CASE v \notin hook[h].listed -> meta[v]
      [] Absent(hook[h].seen[v]) -> IF Absent(meta[v]) THEN meta[v] ELSE hook[h].seen[v]
      [] OTHER -> file[v]

PublishRefresh(h) ==
    /\ hook[h].at = "publish"
    /\ meta' = [v \in Vaults |-> Refreshed(h, v)]
    /\ publisher' = Nobody
    /\ hook' = [hook EXCEPT ![h].at = "release"]
    /\ UNCHANGED <<file, vec, held, session, gate, catchUp, run, counters>>

(* The graph run failed or the time limit passed: nothing is published.    *)
DropRefresh(h) ==
    /\ hook[h].at = "publish"
    /\ publisher' = Nobody
    /\ hook' = [hook EXCEPT ![h].at = "release"]
    /\ UNCHANGED <<file, index, session, gate, catchUp, run, counters>>

GatesClosed(h) == [s \in Slots |-> IF gate[s] = h THEN Nobody ELSE gate[s]]

(* release() closes the pipe; recall follows and the hook ends.            *)
Release(h) ==
    /\ hook[h].at = "release"
    /\ gate' = GatesClosed(h)
    /\ hook' = [hook EXCEPT ![h] = NoScan]
    /\ UNCHANGED <<file, index, session, catchUp, run, publisher, counters>>

----------------------------------------------------------------------------
(* The catch-up.                                                           *)

Enter(s) ==
    /\ catchUp' = [catchUp EXCEPT ![s].at = "index"]
    /\ UNCHANGED <<file, index, hook, session, gate, run, publisher, counters>>
(* Mutant: it does not wait for the hook.                                  *)
EnterAtOnce(s) == catchUp[s].at = "gate" /\ Enter(s)

GateOpens(s) == catchUp[s].at = "gate" /\ gate[s] = Nobody /\ Enter(s)

(* _GATE_TIMEOUT_S.  A hook launcher stops its hook well before that.      *)
GateExpires(s) == SlowHooks /\ catchUp[s].at = "gate" /\ gate[s] # Nobody /\ Enter(s)

Ready(s) == catchUp[s].at = "index" /\ run[s].at = "none"

VectorsStale(v) == ~Absent(meta[v]) /\ vec[v] # meta[v]

(* Inside the retry interval the child gets --no-vector.                   *)
Child(s, v) ==
    run' = [run EXCEPT ![s] = [at |-> "waiting", vault |-> v, vectors |-> v \notin held]]

RunListed(s) ==
    /\ Ready(s)
    /\ \E v \in catchUp[s].todo :
        /\ catchUp' = [catchUp EXCEPT ![s].todo = @ \ {v}]
        /\ Child(s, v)
    /\ UNCHANGED <<file, index, hook, session, gate, publisher, counters>>

RunChecked(s) ==
    /\ Ready(s)
    /\ catchUp[s].todo = {}
    /\ \E v \in catchUp[s].check :
        /\ catchUp' = [catchUp EXCEPT ![s].check = @ \ {v}]
        /\ IF v \notin held /\ VectorsStale(v) THEN Child(s, v) ELSE UNCHANGED run
    /\ UNCHANGED <<file, index, hook, session, gate, publisher, counters>>

(* The process ends, and with it the descriptor it locked.                 *)
Finish(s) ==
    /\ Ready(s)
    /\ catchUp[s].todo = {} /\ catchUp[s].check = {}
    /\ catchUp' = [catchUp EXCEPT ![s] = NoCatchUp]
    /\ session' = session \ {s}
    /\ UNCHANGED <<file, index, hook, gate, run, publisher, counters>>

----------------------------------------------------------------------------
(* `vg index --vault-id`, a child that outlives its catch-up.              *)

RunStages(s) ==
    /\ run[s].at = "waiting"
    /\ publisher = Nobody
    /\ publisher' = s
    /\ run' = [run EXCEPT ![s].at = "indexing"]
    /\ UNCHANGED <<file, index, hook, session, gate, catchUp, counters>>

RunEnds(s) ==
    /\ run[s].at = "indexing"
    /\ publisher' = Nobody
    /\ run' = [run EXCEPT ![s] = NoRun]
    /\ UNCHANGED <<file, hook, session, gate, catchUp, kills>>

Publish(s) == meta' = [meta EXCEPT ![run[s].vault] = file[run[s].vault]]

RunPublishes(s) ==
    /\ RunEnds(s)
    /\ Publish(s)
    /\ IF run[s].vectors
       THEN /\ vec' = [vec EXCEPT ![run[s].vault] = file[run[s].vault]]
            /\ held' = held \ {run[s].vault}
       ELSE UNCHANGED <<vec, held>>
    /\ UNCHANGED failures

(* Planning the vectors failed: metadata and graph are published without   *)
(* new vectors.  Writing them, or dropping those of removed chunks, failed: *)
(* nothing is published.                                                   *)
RunVectorsFail(s) ==
    /\ RunEnds(s)
    /\ failures < MaxFailures /\ failures' = failures + 1
    /\ (run[s].vectors /\ Publish(s)) \/ UNCHANGED meta
    /\ held' = held \cup {run[s].vault}
    /\ UNCHANGED vec

(* Nothing is published, but vectors that were made clear the failure.     *)
RunGraphFails(s) ==
    /\ RunEnds(s)
    /\ failures < MaxFailures /\ failures' = failures + 1
    /\ held' = IF run[s].vectors THEN held \ {run[s].vault} ELSE held
    /\ UNCHANGED <<meta, vec>>

----------------------------------------------------------------------------
(* The environment.                                                        *)

Edit(v) ==
    /\ file[v] < MaxEdits
    /\ file' = [file EXCEPT ![v] = @ + 1]
    /\ UNCHANGED <<index, processes, publisher, counters>>

(* min(2^(count-1), 24) hours have passed.                                 *)
IntervalEnds(v) ==
    /\ v \in held
    /\ held' = held \ {v}
    /\ UNCHANGED <<file, meta, vec, processes, publisher, counters>>

Without(p) == IF publisher = p THEN Nobody ELSE publisher

KillHook(h) ==
    /\ kills < MaxKills /\ kills' = kills + 1
    /\ hook[h].at # "idle"
    /\ hook' = [hook EXCEPT ![h] = NoScan]
    /\ session' = session \ {h}
    /\ gate' = GatesClosed(h)
    /\ publisher' = Without(h)
    /\ UNCHANGED <<file, index, catchUp, run, failures>>

(* Killed, or ended by an exception: a check that reads the two pointers   *)
(* between the writes of a publication raises.                             *)
KillCatchUp(s) ==
    /\ kills < MaxKills /\ kills' = kills + 1
    /\ Alive(s)
    /\ catchUp' = [catchUp EXCEPT ![s] = NoCatchUp]
    /\ session' = session \ {s}
    /\ gate' = [gate EXCEPT ![s] = Nobody]
    /\ UNCHANGED <<file, index, hook, run, publisher, failures>>

KillRun(s) ==
    /\ kills < MaxKills /\ kills' = kills + 1
    /\ run[s].at # "none"
    /\ run' = [run EXCEPT ![s] = NoRun]
    /\ publisher' = Without(s)
    /\ UNCHANGED <<file, index, hook, session, gate, catchUp, failures>>

----------------------------------------------------------------------------
HookStep(h) ==
    \/ Scan(h) \/ ScanStops(h) \/ TakeSession(h) \/ Spawn(h) \/ SpawnFails(h)
    \/ StageRefresh(h) \/ SkipRefresh(h) \/ PublishRefresh(h) \/ DropRefresh(h)
    \/ Release(h)

CatchUpStep(s) ==
    GateOpens(s) \/ GateExpires(s) \/ RunListed(s) \/ RunChecked(s) \/ Finish(s)

RunStep(s) == RunStages(s) \/ RunPublishes(s) \/ RunVectorsFail(s) \/ RunGraphFails(s)

Next ==
    \/ \E h \in Hooks : StartSession(h) \/ HookStep(h) \/ KillHook(h)
    \/ \E s \in Slots : CatchUpStep(s) \/ RunStep(s) \/ KillCatchUp(s) \/ KillRun(s)
    \/ \E v \in Vaults : Edit(v) \/ IntervalEnds(v)

Spec == Init /\ [][Next]_vars

(* Sessions keep starting, processes that are not killed run, time passes. *)
(* A child waits in a blocking flock(), so the kernel wakes it whenever the *)
(* publish lock is freed: a lock that is free again and again is granted.  *)
Fairness ==
    /\ \A h \in Hooks : WF_vars(StartSession(h)) /\ WF_vars(HookStep(h))
    /\ \A s \in Slots :
        WF_vars(CatchUpStep(s)) /\ WF_vars(RunStep(s)) /\ SF_vars(RunStages(s))
    /\ \A v \in Vaults : WF_vars(IntervalEnds(v))

FairSpec == Spec /\ Fairness

----------------------------------------------------------------------------
(* Properties.                                                             *)

Scans == [at : {"scan", "launch", "spawn", "refresh", "publish", "release"},
          seen : [Vaults -> Versions], listed : SUBSET Vaults, refresh : BOOLEAN]
CatchUps == [at : {"gate", "index"}, todo : SUBSET Vaults, check : SUBSET Vaults]

(* The type of every variable; what is not running has no plan and no scan. *)
TypeOK ==
    /\ file \in [Vaults -> Versions] /\ meta \in [Vaults -> Versions]
    /\ vec \in [Vaults -> Versions] /\ held \subseteq Vaults
    /\ hook \in [Hooks -> {NoScan} \cup Scans]
    /\ session \subseteq Hooks \cup Slots
    /\ gate \in [Slots -> Hooks \cup {Nobody}]
    /\ catchUp \in [Slots -> {NoCatchUp} \cup CatchUps]
    /\ run \in [Slots -> {NoRun} \cup
                   [at : {"waiting", "indexing"}, vault : Vaults, vectors : BOOLEAN]]
    /\ publisher \in Hooks \cup Slots \cup {Nobody}
    /\ failures \in 0..MaxFailures /\ kills \in 0..MaxKills

(* Session starts never pile up: at most one catch-up lives, whichever     *)
(* hooks and catch-ups were killed.                                        *)
OneCatchUp == \A s, t \in Slots : Alive(s) /\ Alive(t) => s = t

(* The `vg index` of a catch-up does not queue for the publish lock before *)
(* the refresh of the hook that started it is over.                        *)
RefreshGoesFirst ==
    \A s \in Slots, h \in Hooks :
        gate[s] = h /\ hook[h].at \in {"refresh", "publish"} => run[s].at = "none"

(* Hooks and children scan and publish at different times, yet what is     *)
(* published of a file is never replaced by an older version; only a       *)
(* deletion seen by a scan is applied although the file may be back.       *)
NoOlderContent ==
    [][\A v \in Vaults : meta'[v] < meta[v] => Absent(meta'[v])]_vars

(* Whatever was killed or failed, once Vaults, processes and the embedding *)
(* model are left alone, further session starts bring the metadata and the *)
(* vectors of every Vault up to date, and they stay so.                    *)
NothingForgotten ==
    <>[](\A v \in Vaults : v \notin Listed /\ ~VectorsStale(v))
=============================================================================
