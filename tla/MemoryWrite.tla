----------------------------- MODULE MemoryWrite -----------------------------
(***************************************************************************)
(* Memory writes of the MCP servers to the Vaults                          *)
(* (operation/memory/memory_write_service.py, InferredProposalBudget).     *)
(*                                                                         *)
(* A call checks the page, stages a draft file and has the Vault's own     *)
(* tool apply it (basis "stated") or queue it for review ("inferred").     *)
(* The calls of one server to one Vault take turns through a lock of their *)
(* process; two servers, or a server and a person, share nothing.  One     *)
(* cleanup of a server, from one list_memory_candidates call to the next,  *)
(* may queue Limit proposals, whatever Vaults they are for.                *)
(***************************************************************************)
EXTENDS Naturals, FiniteSets

CONSTANTS
    Servers,
    Threads,     \* calls a server works on at a time
    Vaults,
    Names,       \* pages of a Vault
    Limit,       \* INFERRED_PROPOSAL_LIMIT
    MaxWrites,   \* bound: calls and outside edits
    MaxEdits,    \* bound: outside edits
    MaxCleanups, \* bound: list_memory_candidates calls of a server
    MaxFaults,   \* bound: Vault tools stopped at the time limit, deaths of a server
    NoPage, Nobody

Calls == Servers \X Threads
Pages == Vaults \X Names

ASSUME LimitAssumption == Limit \in Nat \ {0}
ASSUME BoundAssumption == {MaxWrites, MaxEdits, MaxCleanups, MaxFaults} \subseteq Nat
ASSUME FiniteAssumption == IsFiniteSet(Servers) /\ IsFiniteSet(Threads)
ASSUME NobodyAssumption == Nobody \notin Calls

VARIABLES
    page,     \* the files of the Vault: who contributed, and the status
    lock,     \* _vault_lock of each server, for each Vault
    call,     \* each call: where it is and what it read
    used,     \* InferredProposalBudget of each server
    queued,   \* of the proposals sent in a server's current cleanup, those queued
    unsure,   \* whether a place of that cleanup was given back for another reason
    cleanups, made, edits, faults

vars == <<page, lock, call, used, queued, unsure, cleanups, made, edits, faults>>
budget == <<used, queued, unsure, cleanups>>
counters == <<made, edits, faults>>

Ids == 1..MaxWrites
Statuses == {"active", "retired"}
Contents == [facts : SUBSET Ids, status : Statuses]
PageStates == {NoPage} \cup Contents
ASSUME NoPageAssumption == NoPage \notin Contents

Operations == {"remember", "update", "retire", "supersede", "restore"}
Bases == {"stated", "inferred"}
Idle == [at |-> "idle", op |-> "none", page |-> NoPage, basis |-> "none", id |-> 0, read |-> NoPage,
         cleanup |-> 0]

Server(c) == c[1]

(* The lock of the Vault the call writes to.                               *)
VaultLock(c) == <<Server(c), call[c].page[1]>>

Init ==
    /\ page = [p \in Pages |-> NoPage]
    /\ lock = [l \in Servers \X Vaults |-> Nobody]
    /\ call = [c \in Calls |-> Idle]
    /\ used = [s \in Servers |-> 0] /\ queued = used /\ cleanups = used
    /\ unsure = [s \in Servers |-> FALSE]
    /\ made = 0 /\ edits = 0 /\ faults = 0

Goto(c, l) == call' = [call EXCEPT ![c].at = l]

(* Mutant: the lock is freed by the calls that reach the end only.         *)
ReturnEarly(c) ==
    /\ call' = [call EXCEPT ![c] = Idle]
    /\ lock' = [l \in DOMAIN lock |-> IF lock[l] = c /\ call[c].at # "check" THEN Nobody ELSE lock[l]]

(* The draft file is removed, the lock freed and the result returned.      *)
Return(c) ==
    /\ call' = [call EXCEPT ![c] = Idle]
    /\ lock' = [l \in DOMAIN lock |-> IF lock[l] = c THEN Nobody ELSE lock[l]]

----------------------------------------------------------------------------
Asked(op, p, basis, id) ==
    [at |-> "lock", op |-> op, page |-> p, basis |-> basis, id |-> id, read |-> NoPage, cleanup |-> 0]

(* A call, its fields checked and its Vault chosen.                        *)
Ask(c) ==
    /\ call[c].at = "idle"
    /\ made < MaxWrites /\ made' = made + 1
    /\ \E op \in Operations, p \in Pages, basis \in Bases :
        call' = [call EXCEPT ![c] = Asked(op, p, basis, made + 1)]
    /\ UNCHANGED <<page, lock, budget, edits, faults>>
(* Mutant: every service has a lock of its own.                            *)
LockNothing(c) ==
    /\ call[c].at = "lock"
    /\ Goto(c, "check")
    /\ UNCHANGED <<page, lock, budget, counters>>

(* with _vault_lock(chosen.path)                                           *)
Lock(c) ==
    /\ call[c].at = "lock"
    /\ lock[VaultLock(c)] = Nobody
    /\ lock' = [lock EXCEPT ![VaultLock(c)] = c]
    /\ Goto(c, "check")
    /\ UNCHANGED <<page, budget, counters>>

(* What the operation asks of the page it reads: remember adds, the others *)
(* change, and restore refuses a page that is not retired.                 *)
Accepts(op, content) ==
    CASE op = "remember" -> content = NoPage
      [] op = "restore"  -> content # NoPage /\ content.status = "retired"
      [] OTHER           -> content # NoPage

Check(c) ==
    /\ call[c].at = "check"
    /\ LET content == page[call[c].page]
       IN  IF Accepts(call[c].op, content)
           THEN /\ call' = [call EXCEPT ![c].at = "staged", ![c].read = content]
                /\ UNCHANGED lock
           ELSE Return(c)
    /\ UNCHANGED <<page, budget, counters>>

Target(c) == IF call[c].basis = "stated" THEN "publish" ELSE "take"

(* update and restore read the page again; a changed one is not sent.      *)
Recheck(c) ==
    /\ call[c].at = "staged"
    /\ IF call[c].op \in {"update", "restore"} /\ page[call[c].page] # call[c].read
       THEN Return(c)
       ELSE Goto(c, Target(c)) /\ UNCHANGED lock
    /\ UNCHANGED <<page, budget, counters>>
(* The draft file cannot be written.                                       *)
StageFails(c) ==
    /\ call[c].at = "staged"
    /\ Return(c)
    /\ UNCHANGED <<page, budget, counters>>
(* A patch-page draft changes what the page is by then, if it is there.    *)
Patched(now, op, id) ==
    IF now = NoPage
    THEN NoPage
    ELSE [facts |-> now.facts \cup {id},
          status |-> CASE op = "retire"  -> "retired"
                       [] op = "restore" -> "active"
                       [] OTHER          -> now.status]

(* Mutant: an update sends a frontmatter of its own.                       *)
UpdateAfresh(c) ==
    LET id == call[c].id
        read == call[c].read
        now == page[call[c].page]
    IN  CASE call[c].op \in {"remember", "update"} ->
                [facts |-> (IF read = NoPage THEN {} ELSE read.facts) \cup {id}, status |-> "active"]
          [] OTHER -> Patched(now, call[c].op, id)

(* What the Vault makes of the draft.  upsert-page drafts (remember and    *)
(* update) replace the page by what was read and the new body; patch-page  *)
(* drafts change the page as it is by then.                                *)
Applied(c) ==
    LET id == call[c].id
        read == call[c].read
        now == page[call[c].page]
    IN  CASE call[c].op = "remember" -> [facts |-> {id}, status |-> "active"]
          [] call[c].op = "update" -> [facts |-> read.facts \cup {id}, status |-> read.status]
          [] OTHER -> Patched(now, call[c].op, id)

ApplyDraft(c) == page' = [page EXCEPT ![call[c].page] = Applied(c)]

(* publish-draft answers: published, or rejected.                          *)
Publish(c) ==
    /\ call[c].at = "publish"
    /\ ApplyDraft(c) \/ UNCHANGED page
    /\ Return(c)
    /\ UNCHANGED <<budget, counters>>

(* Stopped at the time limit, or no answer that can be read: "The result   *)
(* is unknown."                                                            *)
PublishLost(c) ==
    /\ call[c].at = "publish"
    /\ faults < MaxFaults /\ faults' = faults + 1
    /\ ApplyDraft(c) \/ UNCHANGED page
    /\ Return(c)
    /\ UNCHANGED <<budget, made, edits>>
(* Mutant: the limit is looked at only after the proposal was counted.     *)
TakeOneMore(c) ==
    /\ call[c].at = "take"
    /\ IF used[Server(c)] > Limit
       THEN Return(c) /\ UNCHANGED used
       ELSE /\ used' = [used EXCEPT ![Server(c)] = @ + 1]
            /\ call' = [call EXCEPT ![c].at = "propose", ![c].cleanup = cleanups[Server(c)]]
            /\ UNCHANGED lock
    /\ UNCHANGED <<page, queued, unsure, cleanups, counters>>

(* InferredProposalBudget.take                                             *)
Take(c) ==
    /\ call[c].at = "take"
    /\ IF used[Server(c)] >= Limit
       THEN Return(c) /\ UNCHANGED used
       ELSE /\ used' = [used EXCEPT ![Server(c)] = @ + 1]
            /\ call' = [call EXCEPT ![c].at = "propose", ![c].cleanup = cleanups[Server(c)]]
            /\ UNCHANGED lock
    /\ UNCHANGED <<page, queued, unsure, cleanups, counters>>

Enqueue(c) ==
    queued' = [queued EXCEPT ![Server(c)] =
                  IF call[c].cleanup = cleanups[Server(c)] THEN @ + 1 ELSE @]

(* review propose answers: proposed, or rejected.                          *)
Propose(c) ==
    /\ call[c].at = "propose"
    /\ \/ Enqueue(c) /\ Return(c)
       \/ Goto(c, "giveBack") /\ UNCHANGED <<queued, lock>>
    /\ UNCHANGED <<page, used, unsure, cleanups, counters>>

ProposeLost(c) ==
    /\ call[c].at = "propose"
    /\ faults < MaxFaults /\ faults' = faults + 1
    /\ Enqueue(c) \/ UNCHANGED queued
    /\ unsure' = [unsure EXCEPT ![Server(c)] = @ \/ call[c].cleanup = cleanups[Server(c)]]
    /\ Goto(c, "giveBack")
    /\ UNCHANGED <<page, lock, used, cleanups, made, edits>>

(* InferredProposalBudget.give_back: also for a proposal of an earlier     *)
(* cleanup, of which this one counts no place.                             *)
GiveBack(c) ==
    /\ call[c].at = "giveBack"
    /\ used' = [used EXCEPT ![Server(c)] = IF @ = 0 THEN 0 ELSE @ - 1]
    /\ unsure' = [unsure EXCEPT ![Server(c)] = @ \/ call[c].cleanup # cleanups[Server(c)]]
    /\ Return(c)
    /\ UNCHANGED <<page, queued, cleanups, counters>>

(* list_memory_candidates                                                  *)
StartCuration(s) ==
    /\ cleanups[s] < MaxCleanups
    /\ cleanups' = [cleanups EXCEPT ![s] = @ + 1]
    /\ used' = [used EXCEPT ![s] = 0]
    /\ queued' = [queued EXCEPT ![s] = 0]
    /\ unsure' = [unsure EXCEPT ![s] = FALSE]
    /\ UNCHANGED <<page, lock, call, counters>>

----------------------------------------------------------------------------
(* A person writes, retires or removes a page.                             *)
Edit(p) ==
    /\ edits < MaxEdits /\ edits' = edits + 1
    /\ made < MaxWrites /\ made' = made + 1
    /\ page' \in {[page EXCEPT ![p] = content] :
          content \in {NoPage} \cup
             {[facts |-> (IF page[p] = NoPage THEN {} ELSE page[p].facts) \cup {made + 1},
               status |-> status] : status \in Statuses}}
    /\ UNCHANGED <<lock, call, budget, faults>>

(* A server dies, and the next one starts with a budget of its own.  The   *)
(* tools it ran end with it: a killed server may in truth leave one that   *)
(* applies its draft later, like a server of its own would.                *)
Die(s) ==
    /\ faults < MaxFaults /\ faults' = faults + 1
    /\ call' = [c \in Calls |-> IF Server(c) = s THEN Idle ELSE call[c]]
    /\ lock' = [l \in DOMAIN lock |-> IF l[1] = s THEN Nobody ELSE lock[l]]
    /\ used' = [used EXCEPT ![s] = 0] /\ queued' = [queued EXCEPT ![s] = 0]
    /\ unsure' = [unsure EXCEPT ![s] = FALSE]
    /\ UNCHANGED <<page, cleanups, made, edits>>

Work(c) ==
    \/ Lock(c) \/ Check(c) \/ Recheck(c) \/ StageFails(c) \/ Publish(c) \/ PublishLost(c)
    \/ Take(c) \/ Propose(c) \/ ProposeLost(c) \/ GiveBack(c)

Next ==
    \/ \E c \in Calls : Ask(c) \/ Work(c)
    \/ \E s \in Servers : StartCuration(s) \/ Die(s)
    \/ \E p \in Pages : Edit(p)

Spec == Init /\ [][Next]_vars

(* A thread that can go on does, and a Vault tool ends within its limit.   *)
FairSpec == Spec /\ \A c \in Calls : WF_vars(Work(c))

----------------------------------------------------------------------------
(* Properties.                                                             *)

Requests ==
    [at : {"lock", "check", "staged", "publish", "take", "propose", "giveBack"},
     op : Operations, page : Pages, basis : Bases, id : Ids, read : PageStates,
     cleanup : 0..MaxCleanups]

TypeOK ==
    /\ page \in [Pages -> PageStates]
    /\ lock \in [Servers \X Vaults -> Calls \cup {Nobody}]
    /\ call \in [Calls -> {Idle} \cup Requests]
    /\ used \in [Servers -> 0..Limit] /\ queued \in [Servers -> Nat]
    /\ unsure \in [Servers -> BOOLEAN]
    /\ cleanups \in [Servers -> 0..MaxCleanups]
    /\ made \in 0..MaxWrites /\ edits \in 0..MaxEdits
    /\ faults \in 0..MaxFaults

(* No call of a server undoes what another one, or one that timed out, had *)
(* written: a page never disappears and keeps every contribution, as long  *)
(* as the servers alone write.                                             *)
NoWriteLost ==
    [][\A p \in Pages : edits' = 0 /\ page[p] # NoPage =>
        page'[p] # NoPage /\ page[p].facts \subseteq page'[p].facts]_vars

(* A retired page is current again only by a restore, not by an update     *)
(* built before the page was retired, as long as the servers alone write.  *)
RetiredStays ==
    [][\A p \in Pages :
        edits' = 0 /\ page[p] # NoPage /\ page'[p] # NoPage /\ page[p].status = "retired" /\ page'[p].status = "active"
        => \E c \in Calls : call[c].op = "restore" /\ call[c].at = "publish"
                            /\ call[c].page = p /\ call'[c] = Idle]_vars

(* One cleanup queues at most Limit inferred proposals.                    *)
ProposalLimit == \A s \in Servers : queued[s] <= Limit

(* It does while every place it gave back was one of its own, of a         *)
(* proposal that the Vault said it refused.                                *)
ProposalLimitUnlessUnsure == \A s \in Servers : unsure[s] \/ queued[s] <= Limit

(* The calls of a server never wait for each other for ever.               *)
EveryCallEnds == \A c \in Calls : call[c].at # "idle" ~> call[c].at = "idle"
=============================================================================
