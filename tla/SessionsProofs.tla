---------------------------- MODULE SessionsProofs ----------------------------
(***************************************************************************)
(* Machine-checked proofs about the failure record and about overlapping   *)
(* session starts, for any Vaults, processes and bounds.                   *)
(*                                                                         *)
(* VectorRetry: how often the record counts a failure, what it tells, and  *)
(* whom it holds back.  The counts are earned however the unlocked reads   *)
(* and writes overlap: each copy a run holds counts no more than had been  *)
(* recorded when it was read, and what is recorded only grows.  That the   *)
(* record tells the last outcomes holds until a run replaces the file      *)
(* under another one that has read it: until then every copy is the file.  *)
(*                                                                         *)
(* SessionStart: three facts carry the properties: who shares the locked   *)
(* descriptor of session-start-index.lock, which catch-ups still wait at   *)
(* their pipe, and that nothing the index or a scan knows is newer than    *)
(* the file.                                                               *)
(***************************************************************************)
EXTENDS SessionStart, VectorRetry, FiniteSetTheorems, SequenceTheorems, TLAPS

Outcomes == [outcome : Errors \cup {Ok}, at : 0..MaxHours]
Jobs == [at : {"idle", "queued", "index", "record", "write"}, todo : SUBSET VaultIds,
         background : BOOLEAN, vectors : BOOLEAN, outcome : Errors \cup {Ok, Nil},
         copy : Logs, now : 0..MaxHours, vault : VaultIds \cup {Nil}]

----------------------------------------------------------------------------
(* Histories: the failures in a row at the end, and all of one error.      *)

Breaks(h) == {i \in 1..Len(h) : h[i].outcome # h[Len(h)].outcome}
LastBreak(h) == Max(Breaks(h) \cup {0})
InRow(h) == Len(h) - LastBreak(h)
Times(h, e) == Cardinality({i \in DOMAIN h : h[i].outcome = e})

Rowed(h) == h # <<>> => LastBreak(h) \in 0..(Len(h) - 1)
Continues(h, o) == h # <<>> /\ h[Len(h)].outcome = o.outcome

LEMMA MaxIs ==
    ASSUME NEW S, NEW n \in S, S \subseteq Nat, \A x \in S : x <= n
    PROVE  Max(S) = n
<1>1. \A y \in S : n >= y
  OBVIOUS
<1>2. ASSUME NEW m \in S, \A y \in S : m >= y PROVE m = n
  BY <1>2
<1> QED BY <1>1, <1>2 DEF Max

LEMMA NewRow ==
    ASSUME NEW h \in Seq(Outcomes), NEW o \in Outcomes, ~Continues(h, o), NEW k, k = Append(h, o)
    PROVE  InRow(k) = 1 /\ LastBreak(k) = Len(h)
<1>1. /\ Len(h) \in Nat /\ Len(k) = Len(h) + 1 /\ k[Len(h) + 1] = o
      /\ \A i \in 1..Len(h) : k[i] = h[i]
  OBVIOUS
<1>2. Len(h) \in Breaks(k) \cup {0}
  BY <1>1 DEF Breaks, Continues
<1>3. \A i \in Breaks(k) \cup {0} : i \in Nat /\ i <= Len(h)
  BY <1>1 DEF Breaks
<1>4. LastBreak(k) = Len(h)
  BY <1>2, <1>3, MaxIs DEF LastBreak
<1> QED BY <1>1, <1>4 DEF InRow

LEMMA AppendRow ==
    ASSUME NEW h \in Seq(Outcomes), NEW o \in Outcomes, Rowed(h),
           NEW k, k = Append(h, o)
    PROVE  /\ k \in Seq(Outcomes) /\ k # <<>> /\ Len(k) = Len(h) + 1 /\ k[Len(k)] = o
           /\ \A i \in 1..Len(h) : k[i] = h[i]
           /\ Rowed(k)
           /\ Continues(h, o) => InRow(k) = InRow(h) + 1
<1>1. /\ k \in Seq(Outcomes) /\ k # <<>> /\ Len(h) \in Nat /\ Len(k) = Len(h) + 1 /\ k[Len(h) + 1] = o
      /\ \A i \in 1..Len(h) : k[i] = h[i]
  OBVIOUS
<1>2. CASE Continues(h, o)
  <2>1. Breaks(k) = Breaks(h)
    <3>1. \A i \in 1..Len(k) : i = Len(k) \/ i \in 1..Len(h)
      BY <1>1
    <3> QED BY <1>1, <1>2, <3>1 DEF Breaks, Continues
  <2>2. LastBreak(k) = LastBreak(h) /\ LastBreak(h) \in 0..(Len(h) - 1)
    BY <1>2, <2>1 DEF LastBreak, Continues, Rowed
  <2> QED BY <1>1, <1>2, <2>2 DEF InRow, Continues, Rowed
<1>3. CASE ~Continues(h, o)
  <2>1. LastBreak(k) = Len(h)
    BY <1>3, NewRow
  <2> QED BY <1>1, <1>3, <2>1 DEF Rowed
<1> QED BY <1>1, <1>2, <1>3

LEMMA AppendTimes ==
    ASSUME NEW h \in Seq(Outcomes), NEW o \in Outcomes, NEW e, NEW k, k = Append(h, o)
    PROVE  /\ Times(h, e) \in Nat
           /\ o.outcome = e => Times(k, e) = Times(h, e) + 1
           /\ o.outcome # e => Times(k, e) = Times(h, e)
<1> DEFINE S == {i \in DOMAIN h : h[i].outcome = e}
           T == {i \in DOMAIN k : k[i].outcome = e}
<1>1. /\ Len(h) \in Nat /\ DOMAIN h = 1..Len(h) /\ DOMAIN k = 1..(Len(h) + 1) /\ k[Len(h) + 1] = o
      /\ \A i \in 1..Len(h) : k[i] = h[i]
  OBVIOUS
<1>2. IsFiniteSet(S)
  <2>1. S \subseteq 1..Len(h) /\ IsFiniteSet(1..Len(h))
    BY <1>1, FS_Interval
  <2> QED BY <2>1, FS_Subset
<1>3. Len(h) + 1 \notin S
  BY <1>1
<1>4. T = IF o.outcome = e THEN S \cup {Len(h) + 1} ELSE S
  BY <1>1
<1>5. Times(h, e) = Cardinality(S) /\ Times(k, e) = Cardinality(T)
  BY DEF Times
<1> HIDE DEF S, T
<1> QED BY <1>2, <1>3, <1>4, <1>5, FS_CardinalityType, FS_AddElement
----------------------------------------------------------------------------
(* The inductive invariant.                                                *)

(* Only a run that has an outcome records, and of a Vault.                 *)
JobInv ==
    \A r \in Runs :
        /\ job[r] \in Jobs /\ (job[r].at = "idle" => job[r] = Idle)
        /\ job[r].at = "write" => job[r].vault \in VaultIds /\ job[r].outcome \in Errors \cup {Ok}
        /\ job[r].at = "record" /\ job[r].todo # {} => job[r].outcome \in Errors \cup {Ok}

(* The last outcome of a Vault counts once at least.                       *)
RowInv == \A v \in VaultIds : Rowed(history[v])

(* Every copy of the file counts no more than was recorded.                *)
Earned(stored) == \A v \in VaultIds : stored[v] # None => stored[v].count <= Times(history[v], stored[v].error)
EarnedInv == Earned(log) /\ \A r \in Runs : Earned(job[r].copy)

(* Until a run replaces the file under another, every copy that will be    *)
(* written is the file, and what a waiting run of a session start makes    *)
(* vectors of is not held back.                                            *)
Current(g) ==
    /\ g.at = "write" => g.copy = log
    /\ g.at = "queued" /\ g.background /\ g.vectors => \A v \in g.todo : ~Pending(v)
TellsInv == ~overtaken => LogTellsOutcome /\ \A r \in Runs : Current(job[r])

Typed ==
    /\ now \in 0..MaxHours /\ faults \in 0..MaxFaults
    /\ lock \in Runs \cup {Nil}
    /\ log \in Logs
    /\ job \in [Runs -> Jobs]
    /\ overtaken \in BOOLEAN
    /\ history \in [VaultIds -> Seq(Outcomes)]

RetryInv == Typed /\ JobInv /\ RowInv /\ EarnedInv /\ TellsInv

LEMMA IdleJob == ASSUME RetryConstants PROVE Idle \in Jobs /\ Idle.copy \in Logs /\ (\A v \in VaultIds : Idle.copy[v] = None)
  BY DEF Idle, Jobs, Logs, RetryConstants

LEMMA RetryInitInv == ASSUME RetryConstants, RetryInit PROVE RetryInv
<1>1. /\ now = 0 /\ lock = Nil /\ faults = 0 /\ overtaken = FALSE
      /\ log = [v \in VaultIds |-> None] /\ job = [r \in Runs |-> Idle]
      /\ history = [v \in VaultIds |-> <<>>]
  BY DEF RetryInit
<1>2. Typed
  <2>1. log \in Logs
    BY <1>1 DEF Logs
  <2>2. <<>> \in Seq(Outcomes)
    OBVIOUS
  <2>3. history \in [VaultIds -> Seq(Outcomes)]
    BY <1>1, <2>2
  <2>4. now \in 0..MaxHours /\ faults \in 0..MaxFaults
    BY <1>1 DEF RetryConstants
  <2>5. job \in [Runs -> Jobs] /\ overtaken \in BOOLEAN /\ lock \in Runs \cup {Nil}
    BY <1>1, IdleJob
  <2> QED BY <2>1, <2>3, <2>4, <2>5 DEF Typed
<1>3. JobInv
  <2>1. Idle.at = "idle"
    BY DEF Idle
  <2> QED BY <1>1, <2>1, IdleJob DEF JobInv
<1>4. RowInv
  BY <1>1 DEF RowInv, Rowed
<1>5. EarnedInv
  BY <1>1, IdleJob DEF EarnedInv, Earned
<1>6. TellsInv
  <2>1. LogTellsOutcome
    BY <1>1 DEF LogTellsOutcome, Failing
  <2>2. Idle.at = "idle"
    BY DEF Idle
  <2> QED BY <1>1, <2>1, <2>2 DEF TellsInv, Current
<1> QED BY <1>2, <1>3, <1>4, <1>5, <1>6 DEF RetryInv

(* A step of a run that records nothing.                                   *)
LEMMA JobStep ==
    ASSUME RetryConstants, RetryInv, NEW r \in Runs, NEW g \in Jobs,
           job' = [job EXCEPT ![r] = g], UNCHANGED <<now, record>>,
           lock' \in Runs \cup {Nil}, faults' \in 0..MaxFaults,
           g.at = "idle" => g = Idle,
           g.at = "write" => g.vault \in VaultIds /\ g.outcome \in Errors \cup {Ok},
           g.at = "record" /\ g.todo # {} => g.outcome \in Errors \cup {Ok},
           g.copy \in {log, job[r].copy, Idle.copy},
           ~overtaken => Current(g)
    PROVE  RetryInv'
<1>1. /\ UNCHANGED <<now, log, history, overtaken>>
      /\ DOMAIN job' = Runs /\ job'[r] = g /\ \A q \in Runs \ {r} : job'[q] = job[q]
  BY DEF record, RetryInv, Typed
<1>2. Typed' /\ JobInv' /\ RowInv'
  BY <1>1 DEF RetryInv, Typed, JobInv, RowInv
<1>3. EarnedInv'
  <2>1. Earned(log)' /\ Earned(job[r].copy)'
    BY <1>1, IdleJob DEF RetryInv, EarnedInv, Earned
  <2>2. ASSUME NEW q \in Runs \ {r} PROVE Earned(job[q].copy)'
    BY <1>1 DEF RetryInv, EarnedInv, Earned
  <2> QED BY <1>1, <2>1, <2>2 DEF EarnedInv, Earned
<1>4. TellsInv'
  <2>1. LogTellsOutcome' <=> LogTellsOutcome
    BY <1>1 DEF LogTellsOutcome, Failing, LastOf, InARow
  <2> SUFFICES ASSUME ~overtaken, NEW q \in Runs PROVE Current(job[q])'
    BY <1>1, <2>1 DEF RetryInv, TellsInv
  <2> QED BY <1>1 DEF RetryInv, TellsInv, Current, Pending
<1> QED BY <1>2, <1>3, <1>4 DEF RetryInv

LEMMA QueueStep ==
    ASSUME RetryConstants, RetryInv, NEW r \in Runs, NEW todo \in SUBSET VaultIds,
           NEW background \in BOOLEAN, NEW vectors \in BOOLEAN, Queue(r, todo, background, vectors),
           background /\ vectors => \A v \in todo : ~Pending(v)
    PROVE  RetryInv'
<1> DEFINE g == [Idle EXCEPT !.at = "queued", !.todo = todo, !.background = background, !.vectors = vectors]
<1>1. /\ g.at = "queued" /\ g.todo = todo /\ g.background = background /\ g.vectors = vectors
      /\ g.copy = Idle.copy
  BY DEF Idle
<1>2. g \in Jobs
  BY IdleJob DEF Jobs
<1>3. /\ job' = [job EXCEPT ![r] = g] /\ UNCHANGED <<now, record, lock, faults>>
  BY DEF Queue
<1> HIDE DEF g
<1>4. Current(g)
  BY <1>1 DEF Current
<1> QED BY <1>1, <1>2, <1>3, <1>4, JobStep DEF RetryInv, Typed

LEMMA RecordStep ==
    ASSUME RetryConstants, RetryInv, NEW r \in Runs, NEW outcome \in Errors \cup {Ok}, Record(r, outcome),
           lock' \in {Nil, r, lock}
    PROVE  RetryInv'
<1> DEFINE g == [job[r] EXCEPT !.at = "record", !.vectors = FALSE, !.outcome = outcome, !.now = now]
<1>1. job[r] \in Jobs /\ now \in 0..MaxHours /\ DOMAIN job = Runs
  BY DEF RetryInv, JobInv, Typed
<1>2. g \in Jobs
  BY <1>1 DEF Jobs
<1>3. g.at = "record" /\ g.outcome = outcome /\ g.copy = job[r].copy
  BY <1>1 DEF Jobs
<1>4. job' = [job EXCEPT ![r] = g] /\ UNCHANGED <<now, record, faults>>
  BY <1>1 DEF Record
<1> HIDE DEF g
<1>5. Current(g)
  BY <1>3 DEF Current
<1> QED BY <1>2, <1>3, <1>4, <1>5, JobStep DEF RetryInv, Typed

LEMMA ReadStep == ASSUME RetryConstants, RetryInv, NEW r \in Runs, Read(r) PROVE RetryInv'
<1>1. PICK v \in job[r].todo :
        job' = [job EXCEPT ![r].at = "write", ![r].vault = v, ![r].todo = @ \ {v}, ![r].copy = log]
  BY DEF Read
<1> DEFINE g == [job[r] EXCEPT !.at = "write", !.vault = v, !.todo = @ \ {v}, !.copy = log]
<1>2. /\ job[r] \in Jobs /\ log \in Logs /\ DOMAIN job = Runs /\ v \in VaultIds
      /\ job[r].outcome \in Errors \cup {Ok}
  <2>1. job[r] \in Jobs /\ log \in Logs /\ DOMAIN job = Runs
    BY DEF RetryInv, JobInv, Typed
  <2> QED BY <1>1, <2>1 DEF RetryInv, JobInv, Read, Jobs
<1>3. g \in Jobs
  BY <1>2 DEF Jobs
<1>4. g.at = "write" /\ g.vault = v /\ g.outcome = job[r].outcome /\ g.copy = log
  BY <1>2 DEF Jobs
<1>5. job' = [job EXCEPT ![r] = g] /\ UNCHANGED <<now, record, lock, faults>>
  BY <1>1, <1>2 DEF Read
<1> HIDE DEF g
<1>6. Current(g)
  BY <1>4 DEF Current
<1> QED BY <1>2, <1>3, <1>4, <1>5, <1>6, JobStep DEF RetryInv, Typed

(* What NextVault makes of a run that has written.                         *)
LEMMA NextJob ==
    ASSUME RetryConstants, RetryInv, NEW r \in Runs, job' = NextVault(r), job[r].at = "write"
    PROVE  \E g \in Jobs : /\ job' = [job EXCEPT ![r] = g] /\ g.at = "record" /\ g.copy = Idle.copy
                           /\ g.todo # {} => g.outcome \in Errors \cup {Ok}
<1> DEFINE g == IF job[r].todo = {} THEN [Idle EXCEPT !.at = "record"]
                ELSE [job[r] EXCEPT !.at = "record", !.vault = Nil, !.copy = Idle.copy]
<1>1. job[r] \in Jobs /\ DOMAIN job = Runs /\ job[r].outcome \in Errors \cup {Ok}
  BY DEF RetryInv, JobInv, Typed
<1>2. job' = [job EXCEPT ![r] = g]
  BY <1>1 DEF NextVault
<1>3. CASE job[r].todo = {}
  <2>1. g \in Jobs
    BY <1>3, IdleJob DEF Jobs
  <2>2. g.at = "record" /\ g.copy = Idle.copy /\ g.todo = {}
    BY <1>3 DEF Idle
  <2> QED BY <1>2, <2>1, <2>2
<1>4. CASE job[r].todo # {}
  <2>1. g \in Jobs
    BY <1>1, <1>4, IdleJob DEF Jobs
  <2>2. g.at = "record" /\ g.copy = Idle.copy /\ g.outcome = job[r].outcome
    BY <1>1, <1>4 DEF Jobs
  <2> QED BY <1>1, <1>2, <2>1, <2>2
<1> QED BY <1>3, <1>4

LEMMA EndStep ==
    ASSUME RetryConstants, RetryInv, NEW r \in Runs, job' = [job EXCEPT ![r] = Idle], UNCHANGED <<now, record>>,
           lock' \in {Nil, lock}, faults' \in 0..MaxFaults
    PROVE  RetryInv'
<1>1. Idle.at = "idle"
  BY DEF Idle
<1>2. Current(Idle)
  BY <1>1 DEF Current
<1> QED BY <1>1, <1>2, IdleJob, JobStep DEF RetryInv, Typed

LEMMA FaultCounted == ASSUME RetryConstants, RetryInv, faults < MaxFaults, faults' = faults + 1 PROVE faults' \in 0..MaxFaults
  BY DEF RetryInv, Typed, RetryConstants

----------------------------------------------------------------------------
(* The replacement of the file.                                            *)

Entries == [error : Errors, count : Nat \ {0}, first : 0..MaxHours, last : 0..MaxHours]

(* The entry a failure leaves: one more of the same error, or a first one. *)
LEMMA NewEntry ==
    ASSUME RetryConstants, NEW stored \in Logs, NEW v \in VaultIds, NEW outcome \in Errors \cup {Ok},
           NEW at \in 0..MaxHours, NEW new, new = Updated(stored, v, outcome, at)
    PROVE  /\ new \in {None} \cup Entries
           /\ outcome = Ok => new = None
           /\ outcome # Ok => new # None /\ new.error = outcome
           /\ outcome # Ok /\ stored[v].error = outcome =>
                stored[v] # None /\ new = Entry(outcome, stored[v].count + 1, stored[v].first, at)
           /\ outcome # Ok /\ stored[v].error # outcome => new = Entry(outcome, 1, at, at)
           /\ outcome # Ok /\ stored[v].error # outcome => new.count = 1
           /\ outcome # Ok /\ stored[v].error = outcome => new.count = stored[v].count + 1
<1>1. stored[v] \in {None} \cup Entries /\ DOMAIN stored = VaultIds
  BY DEF Logs, Entries
<1>2. None.error = Nil
  BY DEF None
<1>3. \A x \in Entries : x.error # Nil
  BY DEF RetryConstants, Entries
<1>4. CASE outcome = Ok
  BY <1>4 DEF Updated
<1>5. CASE outcome # Ok /\ stored[v].error = outcome
  <2>1. stored[v] # None /\ stored[v] \in Entries
    BY <1>1, <1>2, <1>5 DEF RetryConstants
  <2>2. new = Entry(outcome, stored[v].count + 1, stored[v].first, at)
    BY <1>5 DEF Updated
  <2>3. new \in Entries /\ new.error = outcome /\ new.count = stored[v].count + 1
    BY <1>5, <2>1, <2>2 DEF Entry, Entries
  <2> QED BY <1>2, <1>3, <1>5, <2>1, <2>2, <2>3
<1>6. CASE outcome # Ok /\ stored[v].error # outcome
  <2>1. new = Entry(outcome, 1, at, at)
    BY <1>6 DEF Updated
  <2>2. new \in Entries /\ new.error = outcome /\ new.count = 1
    BY <1>6, <2>1 DEF Entry, Entries
  <2> QED BY <1>2, <1>3, <1>6, <2>1, <2>2
<1> QED BY <1>4, <1>5, <1>6

(* What LogTellsOutcome says of one Vault and its history.                 *)
Tale(h) ==
    IF h # <<>> /\ h[Len(h)].outcome # Ok
    THEN Entry(h[Len(h)].outcome, InRow(h), h[Len(h) - InRow(h) + 1].at, h[Len(h)].at)
    ELSE None

LEMMA TellsTale == LogTellsOutcome <=> \A v \in VaultIds : log[v] = Tale(history[v])
<1>1. \A v : InARow(v) = InRow(history[v])
  BY DEF InARow, InRow, LastBreak, Breaks
<1> QED BY <1>1 DEF LogTellsOutcome, Tale, Failing, LastOf

(* An entry made from one that tells a history tells the longer one.       *)
LEMMA TaleGrows ==
    ASSUME RetryConstants, NEW h \in Seq(Outcomes), NEW o \in Outcomes,
           Rowed(h), NEW stored \in Logs, NEW v \in VaultIds, stored[v] = Tale(h)
    PROVE  Updated(stored, v, o.outcome, o.at) = Tale(Append(h, o))
<1>1. PICK k : k = Append(h, o)
  OBVIOUS
<1>2. PICK new : new = Updated(stored, v, o.outcome, o.at)
  OBVIOUS
<1> SUFFICES new = Tale(k)
  BY <1>1, <1>2
<1>3. /\ k # <<>> /\ Len(h) \in Nat /\ Len(k) = Len(h) + 1 /\ k[Len(k)] = o
      /\ \A i \in 1..Len(h) : k[i] = h[i]
      /\ Continues(h, o) => InRow(k) = InRow(h) + 1
      /\ ~Continues(h, o) => InRow(k) = 1
  <2>1. k \in Seq(Outcomes) /\ Len(h) \in Nat
    BY <1>1
  <2>2. ASSUME ~Continues(h, o) PROVE InRow(k) = 1
    BY <1>1, <2>2, NewRow
  <2>3. Continues(h, o) => InRow(k) = InRow(h) + 1
    BY <1>1, AppendRow
  <2>4. k # <<>> /\ Len(k) = Len(h) + 1 /\ k[Len(k)] = o
    BY <1>1, AppendRow
  <2>5. \A i \in 1..Len(h) : k[i] = h[i]
    BY <1>1, AppendRow
  <2> QED BY <2>1, <2>2, <2>3, <2>4, <2>5
<1>4. o.outcome \in Errors \cup {Ok} /\ o.at \in 0..MaxHours
  BY DEF Outcomes
<1>5. CASE o.outcome = Ok
  <2>1. new = None
    BY <1>2, <1>5 DEF Updated
  <2> QED BY <1>3, <1>5, <2>1 DEF Tale
<1>6. CASE o.outcome # Ok /\ Continues(h, o)
  <2>1. stored[v] = Entry(o.outcome, InRow(h), h[Len(h) - InRow(h) + 1].at, h[Len(h)].at)
    BY <1>6 DEF Tale, Continues
  <2>2. new = Entry(o.outcome, InRow(h) + 1, h[Len(h) - InRow(h) + 1].at, o.at)
    BY <1>2, <1>4, <1>6, <2>1, NewEntry DEF Entry
  <2>3. InRow(h) \in 1..Len(h)
    BY <1>3, <1>6 DEF InRow, Continues, Rowed
  <2>4. Len(k) - InRow(k) + 1 = Len(h) - InRow(h) + 1 /\ Len(h) - InRow(h) + 1 \in 1..Len(h)
    BY <1>3, <1>6, <2>3
  <2> QED BY <1>3, <1>6, <2>2, <2>4 DEF Tale
<1>7. CASE o.outcome # Ok /\ ~Continues(h, o)
  <2>1. stored[v].error # o.outcome
    <3>1. CASE h # <<>> /\ h[Len(h)].outcome # Ok
      BY <1>7, <3>1 DEF Tale, Entry, Continues
    <3>2. CASE ~(h # <<>> /\ h[Len(h)].outcome # Ok)
      BY <1>4, <1>7, <3>2 DEF Tale, None, RetryConstants, Continues
    <3> QED BY <3>1, <3>2
  <2>2. new = Entry(o.outcome, 1, o.at, o.at)
    BY <1>2, <1>4, <1>7, <2>1, NewEntry
  <2>3. InRow(k) = 1 /\ Len(k) - InRow(k) + 1 = Len(k)
    BY <1>3, <1>7
  <2> QED BY <1>3, <1>7, <2>2, <2>3 DEF Tale
<1> QED BY <1>5, <1>6, <1>7

LEMMA WriteStep == ASSUME RetryConstants, RetryInv, NEW r \in Runs, Write(r) PROVE RetryInv'
<1> DEFINE v == job[r].vault
           copy == job[r].copy
           o == [outcome |-> job[r].outcome, at |-> job[r].now]
           new == Updated(copy, v, job[r].outcome, job[r].now)
           k == Append(history[v], o)
<1>1. /\ job[r] \in Jobs /\ v \in VaultIds /\ job[r].outcome \in Errors \cup {Ok}
      /\ job[r].now \in 0..MaxHours /\ copy \in Logs /\ log \in Logs
      /\ job[r].at = "write"
  BY DEF Write, RetryInv, JobInv, Typed, Jobs
<1>2. o \in Outcomes /\ o.outcome = job[r].outcome /\ o.at = job[r].now
  BY <1>1 DEF Outcomes
<1>3. history[v] \in Seq(Outcomes) /\ DOMAIN history = VaultIds /\ Rowed(history[v])
  BY <1>1 DEF RetryInv, Typed, RowInv
<1>4. /\ log' = (IF new = copy[v] THEN log ELSE [copy EXCEPT ![v] = new])
      /\ history' = [history EXCEPT ![v] = k]
      /\ job' = NextVault(r) /\ UNCHANGED <<now, lock, faults>>
      /\ ~overtaken' => ~overtaken /\ (new = copy[v] \/ \A other \in Runs \ {r} : ~Relying(other))
      /\ overtaken' \in BOOLEAN
  BY DEF Write
<1>5. PICK g \in Jobs : /\ job' = [job EXCEPT ![r] = g] /\ g.at = "record" /\ g.copy = Idle.copy
                        /\ g.todo # {} => g.outcome \in Errors \cup {Ok}
  BY <1>1, <1>4, NextJob
<1>6. job'[r] = g /\ DOMAIN job' = Runs /\ \A q \in Runs \ {r} : job'[q] = job[q]
  BY <1>5 DEF RetryInv, Typed
<1>7. /\ history'[v] = k /\ \A w \in VaultIds \ {v} : history'[w] = history[w]
      /\ DOMAIN history' = VaultIds
  BY <1>1, <1>3, <1>4
<1>8. /\ new \in {None} \cup Entries
      /\ new # None => new.error = o.outcome /\
            (new.count = 1 \/ (copy[v] # None /\ copy[v].error = o.outcome /\ new.count = copy[v].count + 1))
  <2>1. PICK outcome, at : outcome = job[r].outcome /\ at = job[r].now
    OBVIOUS
  <2>2. PICK entry : entry = Updated(copy, v, outcome, at)
    OBVIOUS
  <2>3. /\ entry \in {None} \cup Entries
        /\ outcome = Ok => entry = None
        /\ outcome # Ok => entry.error = outcome
        /\ outcome # Ok /\ copy[v].error = outcome => copy[v] # None /\ entry.count = copy[v].count + 1
        /\ outcome # Ok /\ copy[v].error # outcome => entry.count = 1
    <3>1. outcome \in Errors \cup {Ok} /\ at \in 0..MaxHours
      BY <1>1, <2>1
    <3>0. copy \in Logs /\ v \in VaultIds
      BY <1>1
    <3> HIDE DEF copy, v
    <3>2. /\ entry \in {None} \cup Entries
          /\ outcome = Ok => entry = None
          /\ outcome # Ok => entry # None /\ entry.error = outcome
          /\ outcome # Ok /\ copy[v].error = outcome =>
                copy[v] # None /\ entry = Entry(outcome, copy[v].count + 1, copy[v].first, at)
          /\ outcome # Ok /\ copy[v].error # outcome => entry = Entry(outcome, 1, at, at)
          /\ outcome # Ok /\ copy[v].error # outcome => entry.count = 1
          /\ outcome # Ok /\ copy[v].error = outcome => entry.count = copy[v].count + 1
      BY <2>2, <3>0, <3>1, NewEntry
    <3> QED BY <3>2
  <2>4. new = entry /\ o.outcome = outcome
    BY <1>2, <2>1, <2>2
  <2> HIDE DEF new, o
  <2> QED BY <2>3, <2>4
<1>9. k \in Seq(Outcomes) /\ Rowed(k)
  BY <1>2, <1>3, AppendRow
<1> HIDE DEF new, k, o
<1>10. Typed' /\ JobInv' /\ RowInv'
  <2>1. log' \in Logs
    BY <1>1, <1>4, <1>8 DEF Logs, Entries
  <2>2. history' \in [VaultIds -> Seq(Outcomes)]
    BY <1>4, <1>7, <1>9 DEF RetryInv, Typed
  <2>3. Typed'
    BY <1>4, <1>5, <1>6, <2>1, <2>2 DEF RetryInv, Typed
  <2>4. JobInv'
    BY <1>5, <1>6 DEF RetryInv, JobInv
  <2>5. RowInv'
    BY <1>7, <1>9 DEF RetryInv, RowInv
  <2> QED BY <2>3, <2>4, <2>5
<1>11. EarnedInv'
  <2>1. ASSUME NEW w \in VaultIds, NEW e
        PROVE  Times(history[w], e) \in Nat /\ Times(history'[w], e) \in Nat
               /\ Times(history[w], e) <= Times(history'[w], e)
    <3>1. history[w] \in Seq(Outcomes)
      BY DEF RetryInv, Typed
    <3> DEFINE longer == Append(history[w], o)
    <3>2. /\ Times(history[w], e) \in Nat
          /\ Times(longer, e) = Times(history[w], e) + 1 \/ Times(longer, e) = Times(history[w], e)
      BY <1>2, <3>1, AppendTimes
    <3>3. history'[w] = history[w] \/ history'[w] = longer
      BY <1>7 DEF k
    <3> HIDE DEF longer
    <3>4. CASE history'[w] = history[w]
      BY <3>2, <3>4
    <3>5. CASE history'[w] = longer
      BY <3>2, <3>5
    <3> QED BY <3>3, <3>4, <3>5
  <2>2. Times(history'[v], o.outcome) = Times(history[v], o.outcome) + 1
    <3>1. k = Append(history[v], o)
      BY DEF k
    <3>2. Times(k, o.outcome) = Times(history[v], o.outcome) + 1
      BY <1>2, <1>3, <3>1, AppendTimes
    <3> QED BY <1>7, <3>2
  <2>3. ASSUME NEW stored \in Logs, Earned(stored) PROVE Earned(stored)'
    <3> SUFFICES ASSUME NEW w \in VaultIds, stored[w] # None PROVE stored[w].count <= Times(history'[w], stored[w].error)
      BY DEF Earned
    <3>1. stored[w].count <= Times(history[w], stored[w].error) /\ stored[w].count \in Nat
      BY <2>3 DEF Earned, Logs
    <3> QED BY <2>1, <3>1
  <2>4. ASSUME NEW q \in Runs PROVE job[q].copy \in Logs /\ Earned(job[q].copy)
    BY DEF RetryInv, EarnedInv, JobInv, Jobs
  <2>5. Earned(log) /\ Earned(copy)
    BY <2>4 DEF RetryInv, EarnedInv
  <2>6. \A w \in VaultIds : log'[w] # None => log'[w].count <= Times(history'[w], log'[w].error)
    <3>1. CASE log' = log
      BY <1>1, <2>3, <2>5, <3>1 DEF Earned
    <3>2. CASE log' # log
      <4>1. log' = [copy EXCEPT ![v] = new]
        BY <1>4, <3>2
      <4>2. ASSUME NEW w \in VaultIds \ {v}, copy[w] # None
            PROVE  copy[w].count <= Times(history'[w], copy[w].error)
        BY <1>1, <2>3, <2>5, <4>2 DEF Earned
      <4>3. new # None => new.count <= Times(history'[v], new.error)
        <5> SUFFICES ASSUME new # None PROVE new.count <= Times(history'[v], o.outcome)
          BY <1>8
        <5>1. Times(history[v], o.outcome) \in Nat
          BY <1>1, <2>1
        <5>2. CASE new.count = 1
          BY <2>2, <5>1, <5>2
        <5>3. CASE copy[v] # None /\ copy[v].error = o.outcome /\ new.count = copy[v].count + 1
          <6>1. copy[v].count <= Times(history[v], o.outcome) /\ copy[v].count \in Nat
            BY <1>1, <2>5, <5>3 DEF Earned, Logs
          <6> QED BY <2>2, <5>1, <5>3, <6>1
        <5> QED BY <1>8, <5>2, <5>3
      <4>4. \A w \in VaultIds : log'[w] = IF w = v THEN new ELSE copy[w]
        BY <1>1, <4>1 DEF Logs
      <4> QED BY <4>2, <4>3, <4>4
    <3> QED BY <3>1, <3>2
  <2>7. ASSUME NEW q \in Runs PROVE \A w \in VaultIds : job'[q].copy[w] # None =>
                                        job'[q].copy[w].count <= Times(history'[w], job'[q].copy[w].error)
    <3>1. CASE q = r
      BY <1>5, <1>6, <3>1, IdleJob
    <3>2. CASE q # r
      BY <1>6, <2>3, <2>4, <3>2 DEF Earned
    <3> QED BY <3>1, <3>2
  <2> QED BY <2>6, <2>7 DEF EarnedInv, Earned
<1>12. TellsInv'
  <2> SUFFICES ASSUME ~overtaken' PROVE LogTellsOutcome' /\ \A q \in Runs : Current(job[q])'
    BY DEF TellsInv
  <2>1. /\ ~overtaken /\ LogTellsOutcome /\ copy = log
        /\ new = copy[v] \/ \A other \in Runs \ {r} : ~Relying(other)
        /\ \A q \in Runs : Current(job[q])
    BY <1>1, <1>4 DEF RetryInv, TellsInv, Current
  <2>2. /\ \A w \in VaultIds \ {v} : log'[w] = log[w]
        /\ log'[v] = new
    BY <1>1, <1>4, <2>1 DEF Logs
  <2>3. \A w \in VaultIds : log[w] = Tale(history[w])
    BY <2>1, TellsTale
  <2>4. new = Tale(k)
    <3>1. copy[v] = Tale(history[v])
      BY <1>1, <2>1, <2>3
    <3>2. new = Updated(copy, v, o.outcome, o.at)
      BY <1>2 DEF new
    <3>3. k = Append(history[v], o)
      BY DEF k
    <3>4. Updated(copy, v, o.outcome, o.at) = Tale(Append(history[v], o))
      BY <1>1, <1>2, <1>3, <3>1, TaleGrows
    <3> QED BY <3>2, <3>3, <3>4
  <2>5. LogTellsOutcome'
    <3>1. \A w \in VaultIds : log'[w] = Tale(history'[w])
      BY <1>7, <2>2, <2>3, <2>4
    <3>2. LogTellsOutcome' <=> \A w \in VaultIds : log'[w] = Tale(history'[w])
      <4>1. \A w : InARow(w)' = InRow(history'[w])
        BY DEF InARow, InRow, LastBreak, Breaks
      <4> QED BY <4>1 DEF LogTellsOutcome, Tale, Failing, LastOf
    <3> QED BY <3>1, <3>2
  <2>6. ASSUME NEW q \in Runs PROVE Current(job[q])'
    <3>1. CASE q = r
      BY <1>5, <1>6, <3>1 DEF Current
    <3>2. CASE q # r /\ new = copy[v]
      BY <1>4, <1>6, <2>1, <3>2 DEF Current, Pending
    <3>3. CASE q # r /\ ~Relying(q)
      BY <1>6, <3>3 DEF Current, Relying
    <3> QED BY <2>1, <3>1, <3>2, <3>3
  <2> QED BY <2>5, <2>6
<1> QED BY <1>10, <1>11, <1>12 DEF RetryInv

LEMMA StageStep == ASSUME RetryConstants, RetryInv, NEW r \in Runs, Stage(r) PROVE RetryInv'
<1> DEFINE g == [job[r] EXCEPT !.at = "index", !.background = FALSE]
<1>1. job[r] \in Jobs /\ DOMAIN job = Runs
  BY DEF RetryInv, JobInv, Typed
<1>2. g \in Jobs
  BY <1>1 DEF Jobs
<1>3. g.at = "index" /\ g.copy = job[r].copy
  BY <1>1 DEF Jobs
<1>4. job' = [job EXCEPT ![r] = g] /\ UNCHANGED <<now, record, faults>> /\ lock' = r
  BY <1>1 DEF Stage
<1> HIDE DEF g
<1>5. Current(g)
  BY <1>3 DEF Current
<1> QED BY <1>2, <1>3, <1>4, <1>5, JobStep DEF RetryInv, Typed

(* As hours pass, nobody begins to be held back.                           *)
LEMMA HourStep == ASSUME RetryConstants, RetryInv, Hour PROVE RetryInv'
<1>1. /\ UNCHANGED <<log, history, overtaken, lock, job, faults>> /\ now' = now + 1 /\ now' \in 0..MaxHours
  BY DEF Hour, record, RetryInv, Typed, RetryConstants
<1>2. Typed' /\ JobInv' /\ RowInv' /\ EarnedInv'
  BY <1>1 DEF RetryInv, Typed, JobInv, RowInv, EarnedInv, Earned
<1>3. ASSUME NEW v \in VaultIds, ~Pending(v) PROVE ~Pending(v)'
  <2>1. CASE log[v] = None
    BY <1>1, <2>1 DEF Pending
  <2>2. CASE log[v] # None
    <3>1. log[v].last \in Int /\ log[v].count \in Nat \ {0} /\ now \in Int
      BY <2>2 DEF RetryInv, Typed, Logs
    <3>2. RetryHours(log[v].count) \in Int
      <4>1. 2^(log[v].count - 1) \in Int
        BY <3>1
      <4> QED BY <4>1 DEF RetryHours, Least, RetryConstants
    <3>3. ~(now < log[v].last + RetryHours(log[v].count))
      BY <1>3, <2>2 DEF Pending
    <3> HIDE DEF RetryConstants
    <3>4. ~(now + 1 < log[v].last + RetryHours(log[v].count))
      BY <3>1, <3>2, <3>3
    <3> QED BY <1>1, <3>4 DEF Pending, RetryHours
  <2> QED BY <2>1, <2>2
<1>4. TellsInv'
  <2>1. LogTellsOutcome' <=> LogTellsOutcome
    BY <1>1 DEF LogTellsOutcome, Failing, LastOf, InARow
  <2> SUFFICES ASSUME ~overtaken, NEW q \in Runs PROVE Current(job[q])'
    BY <1>1, <2>1 DEF RetryInv, TellsInv
  <2>2. job[q].todo \subseteq VaultIds /\ Current(job[q])
    BY DEF RetryInv, TellsInv, JobInv, Jobs
  <2> QED BY <1>1, <1>3, <2>2 DEF Current
<1> QED BY <1>2, <1>4 DEF RetryInv

LEMMA RunSteps ==
    ASSUME RetryConstants, RetryInv, NEW r \in Runs,
           VectorsEnd(r) \/ DropEnds(r) \/ WriteFails(r) \/ Close(r) \/ Die(r)
    PROVE  RetryInv'
<1>1. CASE VectorsEnd(r)
  BY <1>1, RecordStep DEF VectorsEnd
<1>2. CASE DropEnds(r)
  <2>1. CASE \E error \in Errors : Record(r, error) /\ UNCHANGED lock
    BY <2>1, RecordStep
  <2>2. CASE job' = [job EXCEPT ![r] = Idle] /\ lock' = Nil /\ UNCHANGED <<now, record, faults>>
    BY <2>2, EndStep DEF RetryInv, Typed
  <2> QED BY <1>2, <2>1, <2>2 DEF DropEnds
<1>3. CASE WriteFails(r)
  <2>1. faults' \in 0..MaxFaults /\ job[r].at = "write" /\ job' = NextVault(r) /\ UNCHANGED <<now, record, lock>>
    BY <1>3, FaultCounted DEF WriteFails
  <2>2. PICK g \in Jobs : /\ job' = [job EXCEPT ![r] = g] /\ g.at = "record" /\ g.copy = Idle.copy
                          /\ g.todo # {} => g.outcome \in Errors \cup {Ok}
    BY <2>1, NextJob
  <2>3. Current(g)
    BY <2>2 DEF Current
  <2> QED BY <2>1, <2>2, <2>3, JobStep DEF RetryInv, Typed
<1>4. CASE Close(r)
  BY <1>4, EndStep DEF Close, Freed, RetryInv, Typed
<1>5. CASE Die(r)
  BY <1>5, EndStep, FaultCounted DEF Die, Freed
<1> QED BY <1>1, <1>2, <1>3, <1>4, <1>5

LEMMA QueuedStep == ASSUME RetryConstants, RetryInv, NEW r \in Runs, PersonRuns(r) \/ CatchUpRuns(r) PROVE RetryInv'
<1>1. CASE PersonRuns(r)
  <2>1. PICK todo \in {{v} : v \in VaultIds} \cup {VaultIds}, vectors \in BOOLEAN : Queue(r, todo, FALSE, vectors)
    BY <1>1 DEF PersonRuns
  <2>2. PICK background \in BOOLEAN : background = FALSE
    OBVIOUS
  <2> QED BY <2>1, <2>2, QueueStep
<1>2. CASE CatchUpRuns(r)
  <2>1. PICK v \in VaultIds : Queue(r, {v}, TRUE, ~Pending(v))
    BY <1>2 DEF CatchUpRuns
  <2>2. PICK vectors \in BOOLEAN : vectors = ~Pending(v)
    OBVIOUS
  <2>3. PICK background \in BOOLEAN : background = TRUE
    OBVIOUS
  <2>4. Queue(r, {v}, background, vectors) /\ (background /\ vectors => \A w \in {v} : ~Pending(w))
    BY <2>1, <2>2, <2>3
  <2> QED BY <2>4, QueueStep
<1> QED BY <1>1, <1>2

LEMMA StepInv == ASSUME RetryConstants PROVE RetryInv /\ [RetryNext]_retryVars => RetryInv'
<1> SUFFICES ASSUME RetryInv, [RetryNext]_retryVars PROVE RetryInv'
  OBVIOUS
<1>1. ASSUME NEW r \in Runs,
             \/ PersonRuns(r) \/ CatchUpRuns(r) \/ Stage(r) \/ VectorsEnd(r) \/ DropEnds(r)
             \/ Read(r) \/ Write(r) \/ WriteFails(r) \/ Close(r) \/ Die(r)
      PROVE  RetryInv'
  BY <1>1, QueuedStep, StageStep, RunSteps, ReadStep, WriteStep
<1>2. CASE Hour
  BY <1>2, HourStep
<1>3. CASE UNCHANGED retryVars
  <2>1. UNCHANGED <<now, log, lock, job, faults, history, overtaken>>
    BY <1>3 DEF retryVars
  <2>2. Typed' /\ JobInv' /\ RowInv' /\ EarnedInv'
    BY <2>1 DEF RetryInv, Typed, JobInv, RowInv, EarnedInv, Earned
  <2>3. LogTellsOutcome' <=> LogTellsOutcome
    BY <2>1 DEF LogTellsOutcome, Failing, LastOf, InARow
  <2>4. TellsInv'
    BY <2>1, <2>3 DEF RetryInv, TellsInv, Current, Pending
  <2> QED BY <2>2, <2>4 DEF RetryInv
<1> QED BY <1>1, <1>2, <1>3 DEF RetryNext

----------------------------------------------------------------------------
(* The theorems.                                                           *)

THEOREM RetryInvariance == RetrySpec => []RetryInv
<1>1. RetryInit => RetryInv
  BY RetryInitInv, RetryAssumption
<1>2. RetryInv /\ [RetryNext]_retryVars => RetryInv'
  BY StepInv, RetryAssumption
<1> QED BY <1>1, <1>2, PTL DEF RetrySpec

(* The file is always one that _failure_from_entry accepts, and the runs   *)
(* keep their types.                                                       *)
THEOREM RetryTypes == RetrySpec => []RetryTypeOK
<1>1. RetryInv => RetryTypeOK
  <2> SUFFICES ASSUME RetryInv PROVE RetryTypeOK
    OBVIOUS
  <2>1. ASSUME NEW r \in Runs
        PROVE  job[r] \in {Idle} \cup
                   [at : {"queued", "index", "record", "write"}, todo : SUBSET VaultIds,
                    background : BOOLEAN, vectors : BOOLEAN,
                    outcome : Errors \cup {Ok, Nil}, copy : Logs,
                    now : 0..MaxHours, vault : VaultIds \cup {Nil}]
    BY DEF RetryInv, JobInv, Jobs
  <2> QED BY <2>1 DEF RetryInv, Typed, RetryTypeOK, Outcomes
<1>2. RetrySpec => []RetryInv
  BY RetryInvariance
<1> QED BY <1>1, <1>2, PTL

(* However the unlocked reads and writes of the runs overlap, a Vault is   *)
(* never held back for more failures of one kind than were recorded of it. *)
THEOREM CountsAreEarned == RetrySpec => []CountIsEarned
<1>1. RetryInv => CountIsEarned
  BY DEF RetryInv, EarnedInv, Earned, CountIsEarned, Times, Quantify
<1>2. RetrySpec => []RetryInv
  BY RetryInvariance
<1> QED BY <1>1, <1>2, PTL

(* Until a run replaces the file under another one that has read it, the   *)
(* file tells the error a Vault fails with, how often in a row, and when   *)
(* it came first and last; and nothing of a Vault that succeeded.          *)
THEOREM RecordIsTrue == RetrySpec => []LogTellsOutcomeUnlessOvertaken
<1>1. RetryInv => LogTellsOutcomeUnlessOvertaken
  BY DEF RetryInv, TellsInv, LogTellsOutcomeUnlessOvertaken
<1>2. RetrySpec => []RetryInv
  BY RetryInvariance
<1> QED BY <1>1, <1>2, PTL

(* Until then no run of a session start begins to make vectors of a Vault  *)
(* inside its retry interval.                                              *)
THEOREM FailingVaultsWait == RetrySpec => HeldBackUnlessOvertaken
<1>1. RetryInv /\ [RetryNext]_retryVars => [HeldBack]_retryVars
  <2> SUFFICES ASSUME RetryInv, NEW r \in Runs, NEW v \in VaultIds, TooEarly(r, v), ~overtaken PROVE FALSE
    BY DEF HeldBack
  <2>1. /\ job[r].at = "queued" /\ job[r].background /\ job[r].vectors /\ v \in job[r].todo /\ Failing(v)
        /\ now < LastOf(v).at + RetryHours(InARow(v))
    BY DEF TooEarly, RetryHours
  <2>2. ~Pending(v)
    BY <2>1 DEF RetryInv, TellsInv, Current
  <2>3. log[v] = Entry(LastOf(v).outcome, InARow(v), history[v][Len(history[v]) - InARow(v) + 1].at, LastOf(v).at)
    BY <2>1 DEF RetryInv, TellsInv, LogTellsOutcome
  <2>4. log[v].count = InARow(v) /\ log[v].last = LastOf(v).at
    BY <2>3 DEF Entry
  <2>5. log[v] # None
    <3>1. log[v].error = LastOf(v).outcome /\ LastOf(v).outcome # Ok
      BY <2>1, <2>3 DEF Entry, Failing
    <3>2. LastOf(v).outcome \in Errors \cup {Ok}
      <4>1. PICK h \in Seq(Outcomes) : h = history[v] /\ h # <<>>
        BY <2>1 DEF RetryInv, Typed, Failing
      <4>2. h[Len(h)] \in Outcomes
        BY <4>1
      <4> QED BY <4>1, <4>2 DEF LastOf, Outcomes
    <3> QED BY <3>1, <3>2, RetryAssumption DEF None, RetryConstants
  <2> QED BY <2>1, <2>2, <2>4, <2>5 DEF Pending
<1>2. RetrySpec => []RetryInv
  BY RetryInvariance
<1> QED BY <1>1, <1>2, PTL DEF RetrySpec, HeldBackUnlessOvertaken

(* The failure record is true: what it tells until then, and its counts.   *)
THEOREM RecordAndCounts == RetrySpec => []FailureRecordIsTrue
<1>1. RetrySpec => []LogTellsOutcomeUnlessOvertaken
  BY RecordIsTrue
<1>2. RetrySpec => []CountIsEarned
  BY CountsAreEarned
<1> QED BY <1>1, <1>2, PTL DEF FailureRecordIsTrue

----------------------------------------------------------------------------
(* Session starts.                                                         *)

USE NobodyAssumption, ProcessAssumption, GoneAtAssumption, BoundsAssumption
USE DEF Versions, NoScan, NoCatchUp, NoRun, Alive, index, processes, counters

(* The descriptor belongs to the one catch-up, or to the hook about to     *)
(* start one: flock() lets nobody else in, and Popen hands it over.        *)
SessionInv ==
    /\ \A s \in Slots : Alive(s) => session = {s}
    /\ \A h \in Hooks : hook[h].at = "spawn" => session = {h}

(* A catch-up whose pipe is open has not begun, unless its hook is slow.   *)
GateInv ==
    ~SlowHooks => \A s \in Slots : gate[s] # Nobody => catchUp[s].at = "gate" /\ run[s].at = "none"

(* The same of a catch-up at its gate, whether its hook still lives.       *)
GateIdle == \A s \in Slots : catchUp[s].at = "gate" => run[s].at = "none"

(* The file is never older than what is known of it.                       *)
KnownInv ==
    /\ \A v \in Vaults : meta[v] <= file[v] /\ vec[v] <= file[v]
    /\ \A h \in Hooks, v \in Vaults : hook[h].seen[v] <= file[v]

IInv == TypeOK /\ SessionInv /\ GateInv /\ GateIdle /\ KnownInv

----------------------------------------------------------------------------
LEMMA InitInv == Init => IInv
  BY DEF Init, IInv, TypeOK, SessionInv, GateInv, GateIdle, KnownInv

----------------------------------------------------------------------------
(* Types: one step per action.                                             *)

(* A process that moves on keeps its scan or plan.                         *)
LEMMA HookMoves ==
    ASSUME TypeOK, NEW h \in Hooks,
           NEW l \in {"scan", "launch", "spawn", "refresh", "publish", "release"}
    PROVE  [hook EXCEPT ![h].at = l] \in [Hooks -> {NoScan} \cup Scans]
<1>1. hook[h] \in {NoScan} \cup Scans
  BY DEF TypeOK
<1>2. hook[h].seen \in [Vaults -> Versions] /\ hook[h].listed \subseteq Vaults /\ hook[h].refresh \in BOOLEAN
  <2>1. CASE hook[h] = NoScan  BY <2>1
  <2>2. CASE hook[h] \in Scans BY <2>2 DEF Scans
  <2> QED BY <1>1, <2>1, <2>2
<1>3. [hook[h] EXCEPT !.at = l] = [at |-> l, seen |-> hook[h].seen, listed |-> hook[h].listed, refresh |-> hook[h].refresh]
  BY <1>1 DEF Scans
<1>4. [hook[h] EXCEPT !.at = l] \in Scans
  BY <1>2, <1>3 DEF Scans
<1> QED BY <1>4 DEF TypeOK

LEMMA HookTypes ==
    ASSUME TypeOK, NEW h \in Hooks, StartSession(h) \/ HookStep(h) \/ KillHook(h)
    PROVE  TypeOK'
<1> USE DEF TypeOK, Scans, CatchUps
<1>1. CASE StartSession(h)   BY <1>1, HookMoves DEF StartSession
<1>2. CASE Scan(h)           BY <1>2 DEF Scan, Scanned, Listed
<1>3. CASE ScanStops(h)      BY <1>3 DEF ScanStops, Scanned
<1>4. CASE TakeSession(h)    BY <1>4, HookMoves DEF TakeSession
<1>5. CASE Spawn(h)
  <2>1. hook' \in [Hooks -> {NoScan} \cup Scans]
    BY <1>5, HookMoves DEF Spawn, Popen
  <2>2. hook[h] \in Scans /\ hook[h].listed \subseteq Vaults
    BY <1>5 DEF Spawn, Popen
  <2>3. PICK s \in Slots :
            /\ catchUp' = [catchUp EXCEPT ![s] =
                   [at |-> "gate", todo |-> hook[h].listed, check |-> Vaults \ hook[h].listed]]
            /\ gate' = [gate EXCEPT ![s] = h]
            /\ session' = Slots \cap {s}
    BY <1>5 DEF Spawn, Popen
  <2>4. catchUp' \in [Slots -> {NoCatchUp} \cup CatchUps]
    BY <2>2, <2>3
  <2> QED BY <1>5, <2>1, <2>3, <2>4 DEF Spawn, Popen
<1>6. CASE SpawnFails(h)
  <2>1. hook' \in [Hooks -> {NoScan} \cup Scans]
    BY <1>6, HookMoves DEF SpawnFails
  <2>2. kills' \in 0..MaxKills
    BY <1>6 DEF SpawnFails
  <2> QED BY <1>6, <2>1, <2>2 DEF SpawnFails
<1>7. CASE StageRefresh(h)   BY <1>7, HookMoves DEF StageRefresh
<1>8. CASE SkipRefresh(h)    BY <1>8, HookMoves DEF SkipRefresh
<1>9. CASE PublishRefresh(h)
  <2>1. hook' \in [Hooks -> {NoScan} \cup Scans]
    BY <1>9, HookMoves DEF PublishRefresh
  <2>2. hook[h] \in Scans
    BY <1>9 DEF PublishRefresh
  <2>3. \A v \in Vaults : Refreshed(h, v) \in Versions
    BY <2>2 DEF Refreshed
  <2> QED BY <1>9, <2>1, <2>3 DEF PublishRefresh
<1>10. CASE DropRefresh(h)   BY <1>10, HookMoves DEF DropRefresh
<1>11. CASE Release(h)       BY <1>11 DEF Release, GatesClosed
<1>12. CASE KillHook(h)      BY <1>12 DEF KillHook, GatesClosed, Without
<1> QED BY <1>1, <1>2, <1>3, <1>4, <1>5, <1>6, <1>7, <1>8, <1>9, <1>10, <1>11, <1>12 DEF HookStep

LEMMA CatchUpTypes ==
    ASSUME TypeOK, NEW s \in Slots, CatchUpStep(s) \/ KillCatchUp(s)
    PROVE  TypeOK'
<1> USE DEF TypeOK, CatchUps
<1>0. ASSUME Enter(s), Alive(s) PROVE TypeOK'
  <2>1. catchUp[s] \in CatchUps
    BY <1>0 DEF Enter
  <2>2. [catchUp[s] EXCEPT !.at = "index"] \in CatchUps
    BY <2>1
  <2>3. catchUp' \in [Slots -> {NoCatchUp} \cup CatchUps]
    BY <1>0, <2>2 DEF Enter
  <2> QED BY <1>0, <2>3 DEF Enter
<1>1. CASE GateOpens(s)   BY <1>0, <1>1 DEF GateOpens
<1>2. CASE GateExpires(s) BY <1>0, <1>2 DEF GateExpires
<1>3. CASE RunListed(s)   BY <1>3 DEF RunListed, Ready, Child
<1>4. CASE RunChecked(s)
  <2>1. PICK v \in catchUp[s].check :
            /\ catchUp' = [catchUp EXCEPT ![s].check = @ \ {v}]
            /\ IF v \notin held /\ VectorsStale(v) THEN Child(s, v) ELSE UNCHANGED run
    BY <1>4 DEF RunChecked
  <2>2. catchUp[s] \in CatchUps /\ v \in Vaults
    BY <1>4, <2>1 DEF RunChecked, Ready
  <2>3. [catchUp[s] EXCEPT !.check = @ \ {v}] \in CatchUps
    BY <2>2
  <2>4. catchUp' \in [Slots -> {NoCatchUp} \cup CatchUps]
    BY <2>1, <2>3
  <2>5. [at |-> "waiting", vault |-> v, vectors |-> v \notin held]
            \in [at : {"waiting", "indexing"}, vault : Vaults, vectors : BOOLEAN]
    BY <2>2
  <2>6. run' \in [Slots -> {NoRun} \cup
                     [at : {"waiting", "indexing"}, vault : Vaults, vectors : BOOLEAN]]
    BY <2>1, <2>5 DEF Child
  <2> QED BY <1>4, <2>4, <2>6 DEF RunChecked
<1>5. CASE Finish(s)      BY <1>5 DEF Finish, Ready
<1>6. CASE KillCatchUp(s) BY <1>6 DEF KillCatchUp
<1> QED BY <1>1, <1>2, <1>3, <1>4, <1>5, <1>6 DEF CatchUpStep

LEMMA RunTypes ==
    ASSUME TypeOK, NEW s \in Slots, RunStep(s) \/ KillRun(s)
    PROVE  TypeOK'
<1> USE DEF TypeOK
<1>1. CASE RunStages(s)      BY <1>1 DEF RunStages
<1>2. CASE RunPublishes(s)   BY <1>2 DEF RunPublishes, RunEnds, Publish
<1>3. CASE RunVectorsFail(s) BY <1>3 DEF RunVectorsFail, RunEnds, Publish
<1>4. CASE RunGraphFails(s)  BY <1>4 DEF RunGraphFails, RunEnds
<1>5. CASE KillRun(s)        BY <1>5 DEF KillRun, Without
<1> QED BY <1>1, <1>2, <1>3, <1>4, <1>5 DEF RunStep

LEMMA WorldTypes ==
    ASSUME TypeOK, NEW v \in Vaults, Edit(v) \/ IntervalEnds(v)
    PROVE  TypeOK'
  BY DEF TypeOK, Edit, IntervalEnds

LEMMA NextTypes == TypeOK /\ [Next]_vars => TypeOK'
<1> SUFFICES ASSUME TypeOK, [Next]_vars PROVE TypeOK'
  OBVIOUS
<1>1. CASE UNCHANGED vars
  BY <1>1 DEF TypeOK, vars
<1> QED BY <1>1, HookTypes, CatchUpTypes, RunTypes, WorldTypes DEF Next

----------------------------------------------------------------------------
(* The lock and the gates.                                                 *)

LEMMA HookLock ==
    ASSUME TypeOK, SessionInv, GateInv, GateIdle, NEW h \in Hooks,
           StartSession(h) \/ HookStep(h) \/ KillHook(h)
    PROVE  SessionInv' /\ GateInv' /\ GateIdle'
<1> USE DEF TypeOK, SessionInv, GateInv, GateIdle
<1>1. CASE StartSession(h)   BY <1>1 DEF StartSession
<1>2. CASE Scan(h)           BY <1>2 DEF Scan, Scanned
<1>3. CASE ScanStops(h)      BY <1>3 DEF ScanStops, Scanned
<1>4. CASE TakeSession(h)
  <2>1. UNCHANGED <<gate, catchUp, run>>
    BY <1>4 DEF TakeSession
  <2>2. \A k \in Hooks : hook'[k].at = IF k # h THEN hook[k].at
                                       ELSE IF session = {} THEN "spawn" ELSE "refresh"
    BY <1>4 DEF TakeSession, Scans
  <2>3. CASE session = {}
    <3>1. session' = {h}
      BY <1>4, <2>3 DEF TakeSession
    <3>2. (\A s \in Slots : ~Alive(s)) /\ (\A k \in Hooks : hook[k].at # "spawn")
      BY <2>3
    <3> QED BY <2>1, <2>2, <3>1, <3>2
  <2>4. CASE session # {}
    <3>1. session' = session
      BY <1>4, <2>4 DEF TakeSession
    <3> QED BY <2>1, <2>2, <2>4, <3>1
  <2> QED BY <2>3, <2>4
<1>5. CASE Spawn(h)
  <2>1. PICK s \in Slots :
            /\ ~Alive(s) /\ run[s].at = "none"
            /\ catchUp' = [catchUp EXCEPT ![s] =
                   [at |-> "gate", todo |-> hook[h].listed, check |-> Vaults \ hook[h].listed]]
            /\ gate' = [gate EXCEPT ![s] = h]
            /\ session' = Slots \cap {s}
    BY <1>5 DEF Spawn, Popen
  <2>2. UNCHANGED run
    BY <1>5 DEF Spawn, Popen
  <2>3. hook[h].at = "spawn" /\ session = {h}
    BY <1>5 DEF Spawn, Popen
  <2>4. \A k \in Hooks : hook'[k].at = IF k = h THEN "refresh" ELSE hook[k].at
    BY <1>5 DEF Spawn, Popen, Scans
  <2>5. \A k \in Hooks : hook'[k].at # "spawn"
    <3>1. SUFFICES ASSUME NEW k \in Hooks, k # h, hook[k].at = "spawn" PROVE FALSE
      BY <2>4
    <3>2. session = {k}
      BY <3>1 DEF SessionInv
    <3> QED BY <2>3, <3>1, <3>2
  <2>6. \A t \in Slots : catchUp[t].at = "none"
    <3>1. SUFFICES ASSUME NEW t \in Slots, Alive(t) PROVE FALSE
      BY DEF Alive
    <3>2. session = {t}
      BY <3>1 DEF SessionInv
    <3> QED BY <2>3, <3>2
  <2>7. \A t \in Slots : catchUp'[t].at = IF t = s THEN "gate" ELSE catchUp[t].at
    <3>1. catchUp \in [Slots -> {NoCatchUp} \cup CatchUps]
      BY DEF TypeOK
    <3>2. \A t \in Slots : t # s => catchUp'[t] = catchUp[t]
      BY <2>1, <3>1
    <3>3. catchUp'[s] = [at |-> "gate", todo |-> hook[h].listed, check |-> Vaults \ hook[h].listed]
      BY <2>1, <3>1
    <3> QED BY <3>2, <3>3
  <2>8. SessionInv'
    <3>1. session' = {s}
      BY <2>1
    <3> QED BY <2>5, <2>6, <2>7, <3>1
  <2>9. GateInv' /\ GateIdle'
    BY <2>1, <2>2, <2>7
  <2> QED BY <2>8, <2>9
<1>6. CASE SpawnFails(h)     BY <1>6 DEF SpawnFails
<1>7. CASE StageRefresh(h)   BY <1>7 DEF StageRefresh
<1>8. CASE SkipRefresh(h)    BY <1>8 DEF SkipRefresh
<1>9. CASE PublishRefresh(h) BY <1>9 DEF PublishRefresh
<1>10. CASE DropRefresh(h)   BY <1>10 DEF DropRefresh
<1>11. CASE Release(h)       BY <1>11 DEF Release, GatesClosed
<1>12. CASE KillHook(h)      BY <1>12 DEF KillHook, GatesClosed
<1> QED BY <1>1, <1>2, <1>3, <1>4, <1>5, <1>6, <1>7, <1>8, <1>9, <1>10, <1>11, <1>12 DEF HookStep

LEMMA CatchUpLock ==
    ASSUME TypeOK, SessionInv, GateInv, GateIdle, NEW s \in Slots,
           CatchUpStep(s) \/ KillCatchUp(s)
    PROVE  SessionInv' /\ GateInv' /\ GateIdle'
<1> USE DEF TypeOK, SessionInv, GateInv, GateIdle
<1>1. CASE GateOpens(s)   BY <1>1 DEF GateOpens, Enter
<1>2. CASE GateExpires(s) BY <1>2 DEF GateExpires, Enter
<1>3. CASE RunListed(s)   BY <1>3 DEF RunListed, Ready, Child
<1>4. CASE RunChecked(s)  BY <1>4 DEF RunChecked, Ready, Child
<1>5. CASE Finish(s)      BY <1>5 DEF Finish, Ready
<1>6. CASE KillCatchUp(s) BY <1>6 DEF KillCatchUp
<1> QED BY <1>1, <1>2, <1>3, <1>4, <1>5, <1>6 DEF CatchUpStep

LEMMA RunLock ==
    ASSUME TypeOK, SessionInv, GateInv, GateIdle, NEW s \in Slots, RunStep(s) \/ KillRun(s)
    PROVE  SessionInv' /\ GateInv' /\ GateIdle'
<1> USE DEF TypeOK, SessionInv, GateInv, GateIdle
<1>1. CASE RunStages(s)      BY <1>1 DEF RunStages
<1>2. CASE RunPublishes(s)   BY <1>2 DEF RunPublishes, RunEnds
<1>3. CASE RunVectorsFail(s) BY <1>3 DEF RunVectorsFail, RunEnds
<1>4. CASE RunGraphFails(s)  BY <1>4 DEF RunGraphFails, RunEnds
<1>5. CASE KillRun(s)        BY <1>5 DEF KillRun
<1> QED BY <1>1, <1>2, <1>3, <1>4, <1>5 DEF RunStep

----------------------------------------------------------------------------
(* What the index and the scans know.                                      *)

LEMMA HookKnows ==
    ASSUME TypeOK, KnownInv, NEW h \in Hooks, StartSession(h) \/ HookStep(h) \/ KillHook(h)
    PROVE  KnownInv'
<1> USE DEF TypeOK, KnownInv
<1>1. CASE StartSession(h)   BY <1>1 DEF StartSession
<1>2. CASE Scan(h)           BY <1>2 DEF Scan, Scanned
<1>3. CASE ScanStops(h)      BY <1>3 DEF ScanStops, Scanned
<1>4. CASE TakeSession(h)    BY <1>4 DEF TakeSession
<1>5. CASE Spawn(h)          BY <1>5 DEF Spawn, Popen
<1>6. CASE SpawnFails(h)     BY <1>6 DEF SpawnFails
<1>7. CASE StageRefresh(h)   BY <1>7 DEF StageRefresh
<1>8. CASE SkipRefresh(h)    BY <1>8 DEF SkipRefresh
<1>9. CASE PublishRefresh(h)
  <2>1. \A v \in Vaults : Refreshed(h, v) <= file[v]
    BY <1>9 DEF PublishRefresh, Refreshed
  <2> QED BY <1>9, <2>1 DEF PublishRefresh
<1>10. CASE DropRefresh(h)   BY <1>10 DEF DropRefresh
<1>11. CASE Release(h)       BY <1>11 DEF Release
<1>12. CASE KillHook(h)      BY <1>12 DEF KillHook
<1> QED BY <1>1, <1>2, <1>3, <1>4, <1>5, <1>6, <1>7, <1>8, <1>9, <1>10, <1>11, <1>12 DEF HookStep

LEMMA OthersKnow ==
    ASSUME TypeOK, KnownInv,
           \/ \E s \in Slots : CatchUpStep(s) \/ RunStep(s) \/ KillCatchUp(s) \/ KillRun(s)
           \/ \E v \in Vaults : Edit(v) \/ IntervalEnds(v)
    PROVE  KnownInv'
<1> USE DEF TypeOK, KnownInv
<1>1. ASSUME NEW s \in Slots, CatchUpStep(s) \/ KillCatchUp(s) \/ KillRun(s) PROVE KnownInv'
  <2>1. UNCHANGED <<file, meta, vec, hook>>
    BY <1>1 DEF CatchUpStep, GateOpens, GateExpires, Enter, RunListed, RunChecked, Finish,
       KillCatchUp, KillRun
  <2> QED BY <2>1
<1>2. ASSUME NEW s \in Slots, RunStep(s) PROVE KnownInv'
  <2>1. CASE RunStages(s)      BY <2>1 DEF RunStages
  <2>2. CASE RunPublishes(s)   BY <2>2 DEF RunPublishes, RunEnds, Publish
  <2>3. CASE RunVectorsFail(s) BY <2>3 DEF RunVectorsFail, RunEnds, Publish
  <2>4. CASE RunGraphFails(s)  BY <2>4 DEF RunGraphFails, RunEnds
  <2> QED BY <1>2, <2>1, <2>2, <2>3, <2>4 DEF RunStep
<1>3. ASSUME NEW v \in Vaults, Edit(v) \/ IntervalEnds(v) PROVE KnownInv'
  <2>1. UNCHANGED <<meta, vec, hook>>
    BY <1>3 DEF Edit, IntervalEnds
  <2>2. \A u \in Vaults : file[u] \in Nat /\ file'[u] \in Nat /\ file[u] <= file'[u]
    BY <1>3 DEF Edit, IntervalEnds
  <2>3. \A u \in Vaults : meta[u] \in Nat /\ vec[u] \in Nat
    OBVIOUS
  <2>4. \A h \in Hooks, u \in Vaults : hook[h].seen[u] \in Nat
    BY DEF Scans
  <2> QED BY <2>1, <2>2, <2>3, <2>4
<1> QED BY <1>1, <1>2, <1>3

----------------------------------------------------------------------------
LEMMA NextInv == IInv /\ [Next]_vars => IInv'
<1> SUFFICES ASSUME IInv, [Next]_vars PROVE IInv'
  OBVIOUS
<1> USE DEF IInv
<1>1. TypeOK'
  BY NextTypes
<1>2. SessionInv' /\ GateInv' /\ GateIdle'
  <2>1. CASE UNCHANGED vars
    BY <2>1 DEF vars, SessionInv, GateInv, GateIdle
  <2>2. CASE \E v \in Vaults : Edit(v) \/ IntervalEnds(v)
    BY <2>2 DEF Edit, IntervalEnds, SessionInv, GateInv, GateIdle
  <2> QED BY <2>1, <2>2, HookLock, CatchUpLock, RunLock DEF Next
<1>3. KnownInv'
  <2>1. CASE UNCHANGED vars
    BY <2>1 DEF vars, KnownInv
  <2> QED BY <2>1, HookKnows, OthersKnow DEF Next
<1> QED BY <1>1, <1>2, <1>3

(* IInv is an invariant of every execution.                                *)
THEOREM Invariance == Spec => []IInv
<1>1. IInv /\ [Next]_vars => IInv'
  BY NextInv
<1> QED BY InitInv, <1>1, PTL DEF Spec

(* The variables of session starts keep their types.                       *)
THEOREM SessionTypes == Spec => []TypeOK
<1>1. IInv => TypeOK
  BY DEF IInv
<1> QED BY Invariance, <1>1, PTL

(* At most one catch-up lives, whichever hooks, catch-ups and runs are     *)
(* killed: start_catch_up_index passes on the descriptor it has locked.    *)
THEOREM CatchUpsDoNotPileUp == Spec => []OneCatchUp
<1>1. IInv => OneCatchUp
  BY DEF IInv, SessionInv, OneCatchUp
<1> QED BY Invariance, <1>1, PTL

(* Under a launcher that stops slow hooks, the catch-up never queues for   *)
(* the publish lock before the refresh of its hook is over.                *)
THEOREM RefreshFirst == ASSUME ~SlowHooks PROVE Spec => []RefreshGoesFirst
<1>1. IInv => RefreshGoesFirst
  BY DEF IInv, GateInv, RefreshGoesFirst, TypeOK
<1> QED BY Invariance, <1>1, PTL

(* No step replaces what is published of a file by an older version that   *)
(* is not a deletion (apply_paths reads a listed file again).              *)
THEOREM OlderIsDeletion == Spec => NoOlderContent
<1>1. ASSUME IInv, [Next]_vars
      PROVE  [\A v \in Vaults : meta'[v] < meta[v] => Absent(meta'[v])]_vars
  <2> SUFFICES ASSUME Next, NEW v \in Vaults, meta'[v] < meta[v] PROVE Absent(meta'[v])
    BY <1>1
  <2> USE DEF IInv, TypeOK, KnownInv
  <2>1. CASE \E h \in Hooks : PublishRefresh(h)
    <3>1. PICK h \in Hooks : PublishRefresh(h)
      BY <2>1
    <3>2. meta'[v] = Refreshed(h, v)
      BY <3>1 DEF PublishRefresh
    <3> QED BY <1>1, <3>2 DEF Refreshed
  <2>2. CASE \E s \in Slots : RunStep(s)
    <3>1. PICK s \in Slots : RunStep(s)
      BY <2>2
    <3>2. UNCHANGED meta \/ meta'[v] \in {meta[v], file[v]}
      BY <1>1, <3>1 DEF RunStep, RunStages, RunPublishes, RunVectorsFail, RunGraphFails, RunEnds, Publish
    <3> QED BY <1>1, <3>2
  <2>3. CASE UNCHANGED meta
    BY <1>1, <2>3
  <2> QED
    BY <2>1, <2>2, <2>3 DEF Next, HookStep, CatchUpStep, StartSession, Scan, ScanStops, Scanned,
       TakeSession, Spawn, Popen, SpawnFails, StageRefresh, SkipRefresh, DropRefresh, Release,
       KillHook, GateOpens, GateExpires, Enter, RunListed, RunChecked, Finish, KillCatchUp,
       KillRun, Edit, IntervalEnds
<1> QED BY Invariance, <1>1, PTL DEF Spec, NoOlderContent
=============================================================================
