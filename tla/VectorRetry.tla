----------------------------- MODULE VectorRetry -----------------------------
(***************************************************************************)
(* The per-Vault record of vector failures that makes session starts stop  *)
(* repeating one error (indexing/vector_failure_log.py).                   *)
(*                                                                         *)
(* Every `vg index` reads and replaces logs/vector-index-failures.json     *)
(* when its vector stage is over, one Vault after the other, with no lock  *)
(* of its own; a run that published has released the publish lock by then. *)
(* The catch-up of a session start reads the record before it starts a     *)
(* run, and a person's run never looks at it.                              *)
(***************************************************************************)
EXTENDS Integers, Sequences, FiniteSetsExt

CONSTANTS
    Runs,         \* processes that run `vg index` again and again
    VaultIds,     \* the Vaults they index
    Errors,       \* failures whose digest differs
    Interval,     \* MAX_RETRY_INTERVAL_HOURS
    MaxHours,     \* bound: the clock
    MaxOutcomes,  \* bound: outcomes recorded
    MaxFaults,    \* bound: deaths and failing writes
    Nil, Ok

(* Names that are no error, and hours that are numbers.                    *)
RetryConstants ==
    /\ Nil \notin Errors /\ Ok \notin Errors
    /\ Interval \in Nat /\ MaxHours \in Nat /\ MaxFaults \in Nat
ASSUME RetryAssumption == RetryConstants

VARIABLES
    now,      \* hours
    log,      \* the file: the failure of each Vault, or None
    lock,     \* the publish lock
    job,      \* each run
    faults,
    history,  \* what was recorded of each Vault, oldest first
    overtaken \* the file has changed under a run that had read it

retryVars == <<now, log, lock, job, faults, history, overtaken>>
record == <<log, history, overtaken>>

None == [error |-> Nil, count |-> 0, first |-> 0, last |-> 0]
Entry(error, count, first, last) ==
    [error |-> error, count |-> count, first |-> first, last |-> last]

Least(a, b) == IF a <= b THEN a ELSE b

(* VectorFailure.retry_interval                                            *)
RetryHours(count) == Least(2^(count - 1), Interval)
(* Mutant: every failure is retried after an hour.                         *)
PendingFlat(v) == log[v] # None /\ now < log[v].last + 1

(* vector_retry_pending                                                    *)
Pending(v) == log[v] # None /\ now < log[v].last + RetryHours(log[v].count)

Idle == [at |-> "idle", todo |-> {}, background |-> FALSE, vectors |-> FALSE,
         outcome |-> Nil, copy |-> [v \in VaultIds |-> None], now |-> 0, vault |-> Nil]

RetryInit ==
    /\ now = 0 /\ lock = Nil /\ faults = 0
    /\ log = [v \in VaultIds |-> None]
    /\ job = [r \in Runs |-> Idle]
    /\ history = [v \in VaultIds |-> <<>>]
    /\ overtaken = FALSE

----------------------------------------------------------------------------
Queue(r, todo, background, vectors) ==
    /\ job[r].at = "idle"
    /\ job' = [job EXCEPT ![r] = [Idle EXCEPT !.at = "queued", !.todo = todo,
                                  !.background = background, !.vectors = vectors]]
    /\ UNCHANGED <<now, record, lock, faults>>

(* A person indexes one Vault or all of them, with or without vectors.     *)
PersonRuns(r) ==
    \E todo \in {{v} : v \in VaultIds} \cup {VaultIds}, vectors \in BOOLEAN :
        Queue(r, todo, FALSE, vectors)

(* _run_vg_index: --no-vector inside the retry interval.                   *)
CatchUpRuns(r) == \E v \in VaultIds : Queue(r, {v}, TRUE, ~Pending(v))

(* LocalIndexServiceFactory.open stages a generation under the lock.       *)
Stage(r) ==
    /\ job[r].at = "queued" /\ lock = Nil
    /\ lock' = r
    /\ job' = [job EXCEPT ![r].at = "index", ![r].background = FALSE]
    /\ UNCHANGED <<now, record, faults>>

Record(r, outcome) ==
    /\ job' = [job EXCEPT ![r].at = "record", ![r].vectors = FALSE,
                          ![r].outcome = outcome, ![r].now = now]
    /\ UNCHANGED <<now, record, faults>>

(* One result stands for every Vault of the run.  A run that publishes     *)
(* frees the lock: all vectors made, or none planned.                      *)
VectorsEnd(r) ==
    /\ job[r].at = "index" /\ job[r].vectors
    /\ \E outcome \in Errors \cup {Ok} : Record(r, outcome)
    /\ lock' \in {Nil, r}

(* Without vectors only those of removed chunks are dropped: there is no   *)
(* vector result to record, or, when dropping fails, nothing is published. *)
DropEnds(r) ==
    /\ job[r].at = "index" /\ ~job[r].vectors
    /\ \/ /\ job' = [job EXCEPT ![r] = Idle]
          /\ lock' = Nil
          /\ UNCHANGED <<now, record, faults>>
       \/ /\ \E error \in Errors : Record(r, error)
          /\ UNCHANGED lock

Recorded == UNION {{v} \X DOMAIN history[v] : v \in VaultIds}

(* read_vector_failures, for the next Vault of the run.                    *)
Read(r) ==
    /\ job[r].at = "record"
    /\ \E v \in job[r].todo :
        /\ Cardinality(Recorded) < MaxOutcomes
        /\ job' = [job EXCEPT ![r].at = "write", ![r].vault = v,
                              ![r].todo = @ \ {v}, ![r].copy = log]
    /\ UNCHANGED <<now, record, lock, faults>>

(* Mutants: errors are not told apart; an entry is created with count 0.   *)
UpdatedAnyError(copy, v, outcome, at) ==
    IF outcome = Ok THEN None
    ELSE Entry(outcome, copy[v].count + 1, IF copy[v] = None THEN at ELSE copy[v].first, at)

(* record_vector_failure and clear_vector_failure, from the copy it read.  *)
Updated(copy, v, outcome, at) ==
    IF outcome = Ok THEN None
    ELSE IF copy[v].error = outcome
    THEN Entry(outcome, copy[v].count + 1, copy[v].first, at)
    ELSE Entry(outcome, 1, at, at)

NextVault(r) ==
    [job EXCEPT ![r] = IF @.todo = {} THEN [Idle EXCEPT !.at = "record"]
                       ELSE [@ EXCEPT !.at = "record", !.vault = Nil, !.copy = Idle.copy]]

(* Runs that act on what they read of the file: they hold a copy of it, or *)
(* have looked whether to retry and wait for the publish lock.             *)
Relying(r) == job[r].at = "write" \/ (job[r].at = "queued" /\ job[r].background)

(* The whole file is replaced; clearing an absent entry writes nothing.    *)
Write(r) ==
    /\ job[r].at = "write"
    /\ LET v == job[r].vault
           new == Updated(job[r].copy, v, job[r].outcome, job[r].now)
       IN  /\ log' = IF new = job[r].copy[v] THEN log ELSE [job[r].copy EXCEPT ![v] = new]
           /\ history' = [history EXCEPT ![v] =
                             Append(@, [outcome |-> job[r].outcome, at |-> job[r].now])]
          /\ overtaken' = (overtaken \/ (new # job[r].copy[v] /\ \E other \in Runs \ {r} : Relying(other)))
    /\ job' = NextVault(r)
    /\ UNCHANGED <<now, lock, faults>>

(* The file cannot be replaced: a warning.                                 *)
WriteFails(r) ==
    /\ job[r].at = "write"
    /\ faults < MaxFaults /\ faults' = faults + 1
    /\ job' = NextVault(r)
    /\ UNCHANGED <<now, record, lock>>

Freed(r) == IF lock = r THEN Nil ELSE lock

(* bundle.close()                                                          *)
Close(r) ==
    /\ job[r].at = "record" /\ job[r].todo = {}
    /\ job' = [job EXCEPT ![r] = Idle]
    /\ lock' = Freed(r)
    /\ UNCHANGED <<now, record, faults>>

Die(r) ==
    /\ job[r].at # "idle"
    /\ faults < MaxFaults /\ faults' = faults + 1
    /\ job' = [job EXCEPT ![r] = Idle]
    /\ lock' = Freed(r)
    /\ UNCHANGED <<now, record>>

Hour ==
    /\ now < MaxHours
    /\ now' = now + 1
    /\ UNCHANGED <<record, lock, job, faults>>

RetryNext ==
    \/ \E r \in Runs :
        \/ PersonRuns(r) \/ CatchUpRuns(r) \/ Stage(r) \/ VectorsEnd(r) \/ DropEnds(r)
        \/ Read(r) \/ Write(r) \/ WriteFails(r) \/ Close(r) \/ Die(r)
    \/ Hour

RetrySpec == RetryInit /\ [][RetryNext]_retryVars

----------------------------------------------------------------------------
(* Properties.                                                             *)

Logs == [VaultIds -> {None} \cup [error : Errors, count : Nat \ {0},
                                first : 0..MaxHours, last : 0..MaxHours]]

(* The type of every variable; the file is one _failure_from_entry accepts. *)
RetryTypeOK ==
    /\ now \in 0..MaxHours /\ faults \in 0..MaxFaults
    /\ lock \in Runs \cup {Nil}
    /\ log \in Logs
    /\ job \in [Runs -> {Idle} \cup
                   [at : {"queued", "index", "record", "write"}, todo : SUBSET VaultIds,
                    background : BOOLEAN, vectors : BOOLEAN,
                    outcome : Errors \cup {Ok, Nil}, copy : Logs,
                    now : 0..MaxHours, vault : VaultIds \cup {Nil}]]
    /\ overtaken \in BOOLEAN
    /\ history \in [VaultIds -> Seq([outcome : Errors \cup {Ok}, at : 0..MaxHours])]

(* How often the last outcome of a Vault was recorded without another.     *)
InARow(v) ==
    LET h == history[v]
        Breaks == {i \in 1..Len(h) : h[i].outcome # h[Len(h)].outcome}
    IN  Len(h) - Max(Breaks \cup {0})

LastOf(v) == history[v][Len(history[v])]
Failing(v) == history[v] # <<>> /\ LastOf(v).outcome # Ok

(* The record tells what happened since the last success of a Vault: how   *)
(* often the same error came in a row and when it came first and last; and *)
(* nothing is left of it after a success.                                  *)
LogTellsOutcome ==
    \A v \in VaultIds :
        log[v] = IF Failing(v)
                 THEN Entry(LastOf(v).outcome, InARow(v),
                            history[v][Len(history[v]) - InARow(v) + 1].at, LastOf(v).at)
                 ELSE None

(* It does so however runs overlap, until one of them replaces the file    *)
(* under another that has read it.                                         *)
LogTellsOutcomeUnlessOvertaken == ~overtaken => LogTellsOutcome

(* However the reads and writes of the runs interleave, a Vault is never   *)
(* held back for more failures of one kind than were recorded of it.       *)
CountIsEarned ==
    \A v \in VaultIds : log[v] # None =>
        log[v].count <= Quantify(DOMAIN history[v],
                                 LAMBDA i : history[v][i].outcome = log[v].error)

(* The failure record tells the outcomes until a run replaces it under     *)
(* another that has read it, and never counts what did not happen.         *)
FailureRecordIsTrue == LogTellsOutcomeUnlessOvertaken /\ CountIsEarned

(* A run of a session start makes vectors of a Vault that failed n times   *)
(* in a row less than min(2^(n-1), Interval) hours ago.                    *)
TooEarly(r, v) ==
    /\ job[r].at = "queued" /\ job'[r].at = "index"
    /\ job[r].background /\ job[r].vectors /\ v \in job[r].todo /\ Failing(v)
    /\ now < LastOf(v).at + Least(2^(InARow(v) - 1), Interval)

(* A session start leaves such a Vault alone (docs/SPEC.md), unless the    *)
(* failure was recorded after it had looked: while its run waits for the   *)
(* publish lock, it does not look again.                                   *)
HeldBack == \A r \in Runs, v \in VaultIds : TooEarly(r, v) => overtaken
HeldBackUnlessOvertaken == [][HeldBack]_retryVars
=============================================================================
