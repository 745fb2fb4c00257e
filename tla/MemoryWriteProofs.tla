--------------------------- MODULE MemoryWriteProofs ---------------------------
(***************************************************************************)
(* Machine-checked proofs about MemoryWrite, for any finite sets of        *)
(* servers and threads, any Vaults and pages, any limit and any bounds.    *)
(*                                                                         *)
(* The limit of a cleanup rests on a count: the places taken cover what    *)
(* was queued and the proposals still under way.  That no write is lost    *)
(* rests on the Vault lock, and so holds among the calls of one server.    *)
(***************************************************************************)
EXTENDS MemoryWrite, FiniteSetTheorems, TLAPS

USE LimitAssumption, BoundAssumption, FiniteAssumption, NobodyAssumption, NoPageAssumption

Working == {"check", "staged", "publish", "take", "propose", "giveBack"}

(* A call past its Vault lock holds it.                                    *)
LockInv == \A c \in Calls : call[c].at \in Working => lock[VaultLock(c)] = c

(* The proposals of the current cleanup that still count in used.          *)
Held(s) ==
    {c \in Calls : /\ Server(c) = s
                   /\ call[c].at \in {"propose", "giveBack"}
                   /\ call[c].cleanup = cleanups[s]}

(* No call is of a cleanup that has not begun.                             *)
CleanupInv == \A c \in Calls : call[c] # Idle => call[c].cleanup <= cleanups[Server(c)]

(* Every proposal queued or under way has a place of the limit.            *)
PlacesInv ==
    \A s \in Servers : unsure[s] = TRUE \/ queued[s] + Cardinality(Held(s)) <= used[s]

(* A draft is of a page that its operation accepts.                        *)
AcceptsInv ==
    \A c \in Calls : call[c].at \in {"staged", "publish"} => Accepts(call[c].op, call[c].read)

IInv == TypeOK /\ LockInv /\ AcceptsInv /\ CleanupInv /\ PlacesInv

(* What a call means to write is built from the page as it still is.       *)
ReadInv ==
    edits = 0 => \A c \in Calls : call[c].at \in {"staged", "publish"} =>
        call[c].read = page[call[c].page]

(* One server writes to the Vaults: two of them share no lock.             *)
OneServer == \E s : Servers = {s}

LEMMA CallsFinite == IsFiniteSet(Calls)
  BY FS_Product DEF Calls

LEMMA InitInv == Init => IInv /\ ReadInv
<1> SUFFICES ASSUME Init PROVE IInv /\ ReadInv
  OBVIOUS
<1>1. TypeOK
  BY DEF Init, TypeOK, PageStates
<1>2. \A s \in Servers : Held(s) = {}
  BY DEF Init, Held, Idle
<1>3. PlacesInv
  <2>1. \A s \in Servers : queued[s] = 0 /\ used[s] = 0
    BY DEF Init
  <2>2. \A s \in Servers : Cardinality(Held(s)) = 0
    BY <1>2, FS_EmptySet
  <2> QED BY <2>1, <2>2 DEF PlacesInv
<1>4. LockInv /\ AcceptsInv /\ CleanupInv /\ ReadInv
  BY DEF Init, LockInv, AcceptsInv, CleanupInv, ReadInv, Working, Idle
<1> QED BY <1>1, <1>3, <1>4 DEF IInv

----------------------------------------------------------------------------
(* Types: one step per action.                                             *)

(* A call that is under way has the fields of one.                         *)
LEMMA UnderWay ==
    ASSUME TypeOK, NEW c \in Calls, call[c].at # "idle"
    PROVE  call[c] \in Requests
  BY DEF TypeOK, Idle

(* A call that goes on stays one.                                          *)
LEMMA GotoTyped ==
    ASSUME TypeOK, NEW c \in Calls, call[c].at # "idle",
           NEW l \in Working, Goto(c, l)
    PROVE  call' \in [Calls -> {Idle} \cup Requests]
<1>1. call[c] \in Requests
  BY UnderWay
<1>2. [call[c] EXCEPT !.at = l] \in Requests
  BY <1>1 DEF Requests, Working
<1> QED BY <1>2 DEF Goto, TypeOK

(* One that ends frees what it holds, and leaves the rest of TypeOK alone. *)
LEMMA ReturnTyped ==
    ASSUME TypeOK, NEW c \in Calls, Return(c)
    PROVE  /\ call' \in [Calls -> {Idle} \cup Requests]
           /\ lock' \in [Servers \X Vaults -> Calls \cup {Nobody}]
  BY DEF TypeOK, Return

(* What the Vault makes of a draft is a page, and a page that was there is *)
(* there still.                                                            *)
LEMMA AppliedTyped ==
    ASSUME TypeOK, NEW c \in Calls, call[c] \in Requests,
           Accepts(call[c].op, call[c].read)
    PROVE  /\ Applied(c) \in PageStates
           /\ call[c].op \in {"remember", "update"} \/ page[call[c].page] # NoPage => Applied(c) \in Contents
<1>1. /\ call[c].id \in Ids /\ call[c].op \in Operations
      /\ call[c].read \in PageStates /\ call[c].page \in Pages
  BY DEF Requests
<1>2. page[call[c].page] \in PageStates
  BY <1>1 DEF TypeOK
<1>3. CASE call[c].op = "remember"
  <2>1. Applied(c) = [facts |-> {call[c].id}, status |-> "active"]
    BY <1>3 DEF Applied, Patched
  <2>2. Applied(c) \in Contents
    BY <1>1, <2>1 DEF Contents, Statuses
  <2> QED BY <2>2 DEF PageStates
<1>4. CASE call[c].op = "update"
  <2>1. call[c].read \in Contents
    BY <1>1, <1>4 DEF PageStates, Accepts
  <2>2. Applied(c) = [facts |-> call[c].read.facts \cup {call[c].id}, status |-> call[c].read.status]
    BY <1>4 DEF Applied, Patched
  <2>3. Applied(c) \in Contents
    BY <1>1, <2>1, <2>2 DEF Contents
  <2> QED BY <2>3 DEF PageStates
<1>5. CASE call[c].op \notin {"remember", "update"} /\ page[call[c].page] = NoPage
  BY <1>1, <1>5 DEF Applied, Patched, PageStates, Contents, Statuses
<1>6. CASE call[c].op \notin {"remember", "update"} /\ page[call[c].page] # NoPage
  <2>1. page[call[c].page] \in Contents
    BY <1>2, <1>6 DEF PageStates
  <2>2. page[call[c].page].facts \cup {call[c].id} \in SUBSET Ids
    BY <1>1, <2>1 DEF Contents
  <2>3. page[call[c].page].status \in Statuses
    BY <2>1 DEF Contents
  <2> QED BY <1>6, <2>2, <2>3 DEF Applied, Patched, PageStates, Contents, Statuses
<1> QED BY <1>3, <1>4, <1>5, <1>6

LEMMA PublishTyped ==
    ASSUME TypeOK, AcceptsInv, NEW c \in Calls, call[c].at = "publish",
           ApplyDraft(c) \/ UNCHANGED page
    PROVE  page' \in [Pages -> PageStates]
<1>1. call[c] \in Requests
  BY UnderWay
<1>2. Applied(c) \in PageStates
  BY <1>1, AppliedTyped DEF AcceptsInv
<1> QED BY <1>2 DEF TypeOK, ApplyDraft

LEMMA WorkTyped ==
    ASSUME TypeOK, AcceptsInv, NEW c \in Calls, Work(c)
    PROVE  TypeOK'
<1>1. CASE Lock(c)
  <2>1. call[c].page \in Pages /\ Server(c) \in Servers
    BY <1>1, UnderWay DEF Lock, Requests, Server, Calls
  <2>2. VaultLock(c) \in Servers \X Vaults
    BY <2>1 DEF VaultLock, Pages
  <2> QED BY <1>1, <2>2, GotoTyped DEF Lock, TypeOK, Working, budget, counters
<1>2. CASE Check(c)
  <2>1. call[c] \in Requests
    BY <1>2, UnderWay DEF Check
  <2>2. page[call[c].page] \in PageStates
    BY <2>1 DEF Requests, TypeOK
  <2>3. [[call[c] EXCEPT !.at = "staged"] EXCEPT !.read = page[call[c].page]] \in Requests
    BY <2>1, <2>2 DEF Requests
  <2>4. call' \in [Calls -> {Idle} \cup Requests] /\ lock' \in [Servers \X Vaults -> Calls \cup {Nobody}]
    BY <1>2, <2>3, ReturnTyped DEF Check, TypeOK
  <2> QED BY <1>2, <2>4 DEF Check, TypeOK, budget, counters
<1>3. CASE Recheck(c)
  <2>1. Target(c) \in Working
    BY DEF Target, Working
  <2>2. call' \in [Calls -> {Idle} \cup Requests] /\ lock' \in [Servers \X Vaults -> Calls \cup {Nobody}]
    BY <1>3, <2>1, ReturnTyped, GotoTyped DEF Recheck, TypeOK
  <2> QED BY <1>3, <2>2 DEF Recheck, TypeOK, budget, counters
<1>4. CASE StageFails(c)
  BY <1>4, ReturnTyped DEF StageFails, TypeOK, budget, counters
<1>5. CASE Publish(c)
  BY <1>5, ReturnTyped, PublishTyped DEF Publish, TypeOK, budget, counters
<1>6. CASE PublishLost(c)
  <2>1. faults' \in 0..MaxFaults
    BY <1>6 DEF PublishLost, TypeOK
  <2> QED BY <1>6, <2>1, ReturnTyped, PublishTyped DEF PublishLost, TypeOK, budget, counters
<1>7. CASE Take(c)
  <2>1. call[c] \in Requests /\ Server(c) \in Servers
    BY <1>7, UnderWay DEF Take, Server, Calls
  <2>2. cleanups[Server(c)] \in 0..MaxCleanups /\ used[Server(c)] \in 0..Limit
    BY <2>1 DEF TypeOK
  <2>3. [[call[c] EXCEPT !.at = "propose"] EXCEPT !.cleanup = cleanups[Server(c)]] \in Requests
    BY <2>1, <2>2 DEF Requests
  <2>4. call' \in [Calls -> {Idle} \cup Requests] /\ lock' \in [Servers \X Vaults -> Calls \cup {Nobody}]
    BY <1>7, <2>3, ReturnTyped DEF Take, TypeOK
  <2>5. used' \in [Servers -> 0..Limit]
    BY <1>7, <2>1, <2>2 DEF Take, TypeOK
  <2> QED BY <1>7, <2>4, <2>5 DEF Take, TypeOK, counters
<1>8. CASE Propose(c)
  <2>1. call' \in [Calls -> {Idle} \cup Requests] /\ lock' \in [Servers \X Vaults -> Calls \cup {Nobody}]
    BY <1>8, ReturnTyped, GotoTyped DEF Propose, TypeOK, Working
  <2>2. queued' \in [Servers -> Nat]
    BY <1>8 DEF Propose, Enqueue, TypeOK
  <2> QED BY <1>8, <2>1, <2>2 DEF Propose, TypeOK, counters
<1>9. CASE ProposeLost(c)
  <2>1. call' \in [Calls -> {Idle} \cup Requests]
    BY <1>9, GotoTyped DEF ProposeLost, Working
  <2>2. queued' \in [Servers -> Nat] /\ faults' \in 0..MaxFaults
    BY <1>9 DEF ProposeLost, Enqueue, TypeOK
  <2>3. unsure' \in [Servers -> BOOLEAN]
    BY <1>9 DEF ProposeLost, TypeOK
  <2> QED BY <1>9, <2>1, <2>2, <2>3 DEF ProposeLost, TypeOK
<1>10. CASE GiveBack(c)
  <2>1. used' \in [Servers -> 0..Limit]
    <3>1. \A s \in Servers : used[s] = 0 \/ used[s] - 1 \in 0..Limit
      BY DEF TypeOK
    <3> QED BY <1>10, <3>1 DEF GiveBack, TypeOK
  <2>2. unsure' \in [Servers -> BOOLEAN]
    BY <1>10 DEF GiveBack, TypeOK
  <2> QED BY <1>10, <2>1, <2>2, ReturnTyped DEF GiveBack, TypeOK, counters
<1> QED BY <1>1, <1>2, <1>3, <1>4, <1>5, <1>6, <1>7, <1>8, <1>9, <1>10 DEF Work

LEMMA OtherTyped ==
    ASSUME TypeOK,
           (\E c \in Calls : Ask(c)) \/ (\E s \in Servers : StartCuration(s) \/ Die(s)) \/ (\E p \in Pages : Edit(p))
    PROVE  TypeOK'
<1>1. ASSUME NEW c \in Calls, Ask(c) PROVE TypeOK'
  <2>1. made + 1 \in Ids /\ made' \in 0..MaxWrites
    BY <1>1 DEF Ask, TypeOK, Ids
  <2>2. PICK op \in Operations, p \in Pages, basis \in Bases :
            call' = [call EXCEPT ![c] = Asked(op, p, basis, made + 1)]
    BY <1>1 DEF Ask
  <2>3. Asked(op, p, basis, made + 1) \in Requests
    BY <2>1 DEF Asked, Requests, PageStates
  <2>4. call' \in [Calls -> {Idle} \cup Requests]
    BY <2>2, <2>3 DEF TypeOK
  <2> QED BY <1>1, <2>1, <2>4 DEF Ask, TypeOK, budget
<1>2. ASSUME NEW s \in Servers, StartCuration(s) PROVE TypeOK'
  BY <1>2 DEF StartCuration, TypeOK, counters
<1>3. ASSUME NEW s \in Servers, Die(s) PROVE TypeOK'
  <2>1. call' \in [Calls -> {Idle} \cup Requests] /\ lock' \in [Servers \X Vaults -> Calls \cup {Nobody}]
    BY <1>3 DEF Die, TypeOK
  <2>2. used' \in [Servers -> 0..Limit] /\ queued' \in [Servers -> Nat] /\ unsure' \in [Servers -> BOOLEAN]
    BY <1>3 DEF Die, TypeOK
  <2>3. faults' \in 0..MaxFaults
    BY <1>3 DEF Die, TypeOK
  <2> QED BY <1>3, <2>1, <2>2, <2>3 DEF Die, TypeOK
<1>4. ASSUME NEW p \in Pages, Edit(p) PROVE TypeOK'
  <2>1. made + 1 \in Ids /\ made' \in 0..MaxWrites /\ edits' \in 0..MaxEdits
    BY <1>4 DEF Edit, TypeOK, Ids
  <2>2. ASSUME NEW status \in Statuses
        PROVE [facts |-> (IF page[p] = NoPage THEN {} ELSE page[p].facts) \cup {made + 1},
               status |-> status] \in Contents
    <3>1. page[p] = NoPage \/ page[p].facts \in SUBSET Ids
      BY DEF TypeOK, PageStates, Contents
    <3> QED BY <2>1, <3>1 DEF Contents
  <2>3. PICK content \in PageStates : page' = [page EXCEPT ![p] = content]
    BY <1>4, <2>2 DEF Edit, PageStates
  <2> QED BY <1>4, <2>1, <2>3 DEF Edit, TypeOK, budget
<1> QED BY <1>1, <1>2, <1>3, <1>4

----------------------------------------------------------------------------
(* The Vault locks.                                                        *)

(* A call that goes on ends, takes its lock or keeps it; the others stay.  *)
LEMMA WorkFrame ==
    ASSUME TypeOK, NEW c \in Calls, Work(c)
    PROVE  /\ call[c] \in Requests
           /\ UNCHANGED cleanups
           /\ \A d \in Calls : d # c => call'[d] = call[d]
           /\ \/ Return(c)
              \/ /\ call'[c].at \in Working
                 /\ call'[c].page = call[c].page /\ call'[c].op = call[c].op
                 /\ Lock(c) \/ (call[c].at \in Working /\ UNCHANGED lock)
<1> USE DEF TypeOK, Working, Requests, Goto, Return, budget
<1>1. CASE Lock(c)        BY <1>1, UnderWay DEF Lock
<1>2. CASE Check(c)       BY <1>2, UnderWay DEF Check
<1>3. CASE Recheck(c)     BY <1>3, UnderWay DEF Recheck, Target
<1>4. CASE StageFails(c)  BY <1>4, UnderWay DEF StageFails
<1>5. CASE Publish(c)     BY <1>5, UnderWay DEF Publish
<1>6. CASE PublishLost(c) BY <1>6, UnderWay DEF PublishLost
<1>7. CASE Take(c)        BY <1>7, UnderWay DEF Take
<1>8. CASE Propose(c)     BY <1>8, UnderWay DEF Propose
<1>9. CASE ProposeLost(c) BY <1>9, UnderWay DEF ProposeLost
<1>10. CASE GiveBack(c)   BY <1>10, UnderWay DEF GiveBack
<1> QED BY <1>1, <1>2, <1>3, <1>4, <1>5, <1>6, <1>7, <1>8, <1>9, <1>10 DEF Work

(* The lock of a call under way is one of the locks.                       *)
LEMMA LockOf ==
    ASSUME TypeOK, NEW c \in Calls, call[c].at # "idle"
    PROVE  VaultLock(c) \in DOMAIN lock /\ call[c].page \in Pages
<1>1. call[c].page \in Pages
  BY UnderWay DEF Requests
<1> QED BY <1>1 DEF TypeOK, VaultLock, Server, Calls, Pages

LEMMA WorkLocks ==
    ASSUME TypeOK, LockInv, NEW c \in Calls, Work(c)
    PROVE  LockInv'
<1> SUFFICES ASSUME NEW d \in Calls, call'[d].at \in Working
             PROVE  lock'[VaultLock(d)'] = d
  BY DEF LockInv
<1>1. CASE d # c
  <2>1. call'[d] = call[d] /\ VaultLock(d)' = VaultLock(d)
    BY <1>1, WorkFrame DEF VaultLock, Server
  <2>2. lock[VaultLock(d)] = d /\ VaultLock(d) \in DOMAIN lock
    BY <2>1, LockOf DEF LockInv, Working
  <2>3. lock'[VaultLock(d)] = d
    <3>1. CASE Return(c)        BY <1>1, <2>2, <3>1 DEF Return
    <3>2. CASE Lock(c)          BY <1>1, <2>2, <3>2 DEF Lock
    <3>3. CASE UNCHANGED lock   BY <2>2, <3>3
    <3> QED BY <3>1, <3>2, <3>3, WorkFrame
  <2> QED BY <2>1, <2>3
<1>2. CASE d = c
  <2>1. ~Return(c)
    BY <1>2 DEF Return, Working, Idle, TypeOK
  <2>2. call'[c].page = call[c].page /\ VaultLock(c)' = VaultLock(c) /\ call[c] \in Requests
    BY <2>1, WorkFrame DEF VaultLock, Server
  <2>3. VaultLock(c) \in DOMAIN lock
    BY <2>2, LockOf DEF Requests
  <2>4. CASE Lock(c)
    BY <1>2, <2>2, <2>3, <2>4 DEF Lock
  <2>5. CASE call[c].at \in Working /\ UNCHANGED lock
    BY <1>2, <2>2, <2>5 DEF LockInv
  <2> QED BY <2>1, <2>4, <2>5, WorkFrame
<1> QED BY <1>1, <1>2

LEMMA OtherLocks ==
    ASSUME TypeOK, LockInv,
           (\E c \in Calls : Ask(c)) \/ (\E s \in Servers : StartCuration(s) \/ Die(s)) \/ (\E p \in Pages : Edit(p))
    PROVE  LockInv'
<1> SUFFICES ASSUME NEW d \in Calls, call'[d].at \in Working
             PROVE  lock'[VaultLock(d)'] = d
  BY DEF LockInv
<1>1. ASSUME NEW c \in Calls, Ask(c) PROVE lock'[VaultLock(d)'] = d
  <2>1. d # c
    BY <1>1 DEF Ask, Asked, Working, TypeOK
  <2> QED BY <1>1, <2>1 DEF Ask, LockInv, VaultLock, TypeOK
<1>2. ASSUME NEW s \in Servers, StartCuration(s) PROVE lock'[VaultLock(d)'] = d
  BY <1>2 DEF StartCuration, LockInv, VaultLock
<1>3. ASSUME NEW s \in Servers, Die(s) PROVE lock'[VaultLock(d)'] = d
  <2>1. Server(d) # s /\ call'[d] = call[d]
    BY <1>3 DEF Die, Working, Idle
  <2>2. VaultLock(d) \in DOMAIN lock /\ lock[VaultLock(d)] = d
    BY <2>1, LockOf DEF LockInv, Working
  <2>3. VaultLock(d)[1] # s
    BY <2>1 DEF VaultLock
  <2>4. lock'[VaultLock(d)] = d
    BY <1>3, <2>2, <2>3 DEF Die
  <2> QED BY <2>1, <2>4 DEF VaultLock
<1>4. ASSUME NEW p \in Pages, Edit(p) PROVE lock'[VaultLock(d)'] = d
  BY <1>4 DEF Edit, LockInv, VaultLock
<1> QED BY <1>1, <1>2, <1>3, <1>4

----------------------------------------------------------------------------
(* What a draft is of, and of which cleanup a proposal is.                 *)

LEMMA WorkAccepts ==
    ASSUME TypeOK, AcceptsInv, NEW c \in Calls, Work(c)
    PROVE  AcceptsInv'
<1> SUFFICES ASSUME NEW d \in Calls, call'[d].at \in {"staged", "publish"}
             PROVE  Accepts(call'[d].op, call'[d].read)
  BY DEF AcceptsInv, Accepts
<1>1. CASE d # c
  BY <1>1, WorkFrame DEF AcceptsInv
<1>2. CASE d = c
  <2>0. call[c] \in Requests
    BY WorkFrame
  <2> USE <2>0 DEF Goto, Return, Idle, TypeOK, Requests
  <2>1. CASE Lock(c)        BY <1>2, <2>1 DEF Lock
  <2>2. CASE Check(c)       BY <1>2, <2>2 DEF Check
  <2>3. CASE Recheck(c)     BY <1>2, <2>3 DEF Recheck, Target, AcceptsInv
  <2>4. CASE StageFails(c)  BY <1>2, <2>4 DEF StageFails
  <2>5. CASE Publish(c)     BY <1>2, <2>5 DEF Publish
  <2>6. CASE PublishLost(c) BY <1>2, <2>6 DEF PublishLost
  <2>7. CASE Take(c)        BY <1>2, <2>7 DEF Take
  <2>8. CASE Propose(c)     BY <1>2, <2>8 DEF Propose
  <2>9. CASE ProposeLost(c) BY <1>2, <2>9 DEF ProposeLost
  <2>10. CASE GiveBack(c)   BY <1>2, <2>10 DEF GiveBack
  <2> QED BY <2>1, <2>2, <2>3, <2>4, <2>5, <2>6, <2>7, <2>8, <2>9, <2>10 DEF Work
<1> QED BY <1>1, <1>2

(* A proposal belongs to the cleanup in which its place was taken.         *)
LEMMA WorkCleanup ==
    ASSUME TypeOK, CleanupInv, NEW c \in Calls, Work(c)
    PROVE  CleanupInv'
<1> SUFFICES ASSUME NEW d \in Calls, call'[d] # Idle
             PROVE  call'[d].cleanup <= cleanups[Server(d)]
  BY WorkFrame DEF CleanupInv, Server
<1>0. cleanups[Server(d)] \in Nat /\ (call[d] # Idle => call[d].cleanup <= cleanups[Server(d)])
  BY DEF TypeOK, Server, Calls, CleanupInv
<1>1. CASE d # c
  BY <1>0, <1>1, WorkFrame
<1>2. CASE d = c
  <2>1. call'[c].cleanup \in {call[c].cleanup, cleanups[Server(c)]} /\ call[c] # Idle
    <3>0. call[c] \in Requests
      BY WorkFrame
    <3> USE <3>0 DEF Goto, Return, Idle, TypeOK, Requests
    <3>1. CASE Lock(c)        BY <1>2, <3>1 DEF Lock
    <3>2. CASE Check(c)       BY <1>2, <3>2 DEF Check
    <3>3. CASE Recheck(c)     BY <1>2, <3>3 DEF Recheck, Target
    <3>4. CASE StageFails(c)  BY <1>2, <3>4 DEF StageFails
    <3>5. CASE Publish(c)     BY <1>2, <3>5 DEF Publish
    <3>6. CASE PublishLost(c) BY <1>2, <3>6 DEF PublishLost
    <3>7. CASE Take(c)        BY <1>2, <3>7 DEF Take
    <3>8. CASE Propose(c)     BY <1>2, <3>8 DEF Propose
    <3>9. CASE ProposeLost(c) BY <1>2, <3>9 DEF ProposeLost
    <3>10. CASE GiveBack(c)   BY <1>2, <3>10 DEF GiveBack
    <3> QED BY <3>1, <3>2, <3>3, <3>4, <3>5, <3>6, <3>7, <3>8, <3>9, <3>10 DEF Work
  <2> QED BY <1>0, <1>2, <2>1
<1> QED BY <1>1, <1>2

LEMMA OtherCalls ==
    ASSUME TypeOK, AcceptsInv, CleanupInv,
           (\E c \in Calls : Ask(c)) \/ (\E s \in Servers : StartCuration(s) \/ Die(s)) \/ (\E p \in Pages : Edit(p))
    PROVE  AcceptsInv' /\ CleanupInv'
<1>1. ASSUME NEW c \in Calls, Ask(c) PROVE AcceptsInv' /\ CleanupInv'
  <2>1. PICK op \in Operations, p \in Pages, basis \in Bases :
            call' = [call EXCEPT ![c] = Asked(op, p, basis, made + 1)]
    BY <1>1 DEF Ask
  <2>2. cleanups[Server(c)] \in Nat
    BY DEF TypeOK, Server, Calls
  <2>3. AcceptsInv'
    BY <2>1 DEF AcceptsInv, Accepts, Asked, TypeOK
  <2>4. CleanupInv'
    BY <1>1, <2>1, <2>2 DEF Ask, CleanupInv, Asked, TypeOK, Server, budget
  <2> QED BY <2>3, <2>4
<1>2. ASSUME NEW s \in Servers, StartCuration(s) PROVE AcceptsInv' /\ CleanupInv'
  <2>1. \A t \in Servers : cleanups[t] \in Nat /\ cleanups'[t] \in Nat /\ cleanups[t] <= cleanups'[t]
    BY <1>2 DEF StartCuration, TypeOK
  <2>2. \A d \in Calls : Server(d) \in Servers /\ (call[d] # Idle => call[d].cleanup \in Nat)
    BY DEF Server, Calls, TypeOK, Requests
  <2>3. CleanupInv'
    BY <1>2, <2>1, <2>2 DEF StartCuration, CleanupInv, Server
  <2> QED BY <1>2, <2>3 DEF StartCuration, AcceptsInv, Accepts
<1>3. ASSUME NEW s \in Servers, Die(s) PROVE AcceptsInv' /\ CleanupInv'
  BY <1>3 DEF Die, AcceptsInv, Accepts, CleanupInv, Idle, Server
<1>4. ASSUME NEW p \in Pages, Edit(p) PROVE AcceptsInv' /\ CleanupInv'
  BY <1>4 DEF Edit, AcceptsInv, Accepts, CleanupInv, budget, Server
<1> QED BY <1>1, <1>2, <1>3, <1>4

----------------------------------------------------------------------------
(* The places of a cleanup.                                                *)

LEMMA HeldFinite ==
    ASSUME NEW s
    PROVE  /\ IsFiniteSet(Held(s)) /\ Cardinality(Held(s)) \in Nat
           /\ IsFiniteSet(Held(s)') /\ Cardinality(Held(s)') \in Nat
<1>1. Held(s) \in SUBSET Calls /\ Held(s)' \in SUBSET Calls
  BY DEF Held
<1> QED BY <1>1, CallsFinite, FS_Subset, FS_CardinalityType

(* One proposal more, or one less.                                         *)
LEMMA HeldGrows ==
    ASSUME NEW s, NEW c, c \notin Held(s), Held(s)' = Held(s) \cup {c}
    PROVE  Cardinality(Held(s)') = Cardinality(Held(s)) + 1
  BY HeldFinite, FS_AddElement

LEMMA HeldShrinks ==
    ASSUME NEW s, NEW c, c \in Held(s), Held(s)' = Held(s) \ {c}
    PROVE  Cardinality(Held(s)') = Cardinality(Held(s)) - 1
  BY HeldFinite, FS_RemoveElement

(* A step of a call changes no more than whether that call is counted.     *)
LEMMA HeldBy ==
    ASSUME TypeOK, NEW c \in Calls, Work(c), NEW s \in Servers
    PROVE  /\ s # Server(c) => Held(s)' = Held(s)
           /\ c \in Held(s)' <=> c \in Held(s) => Held(s)' = Held(s)
           /\ c \in Held(s)' => Held(s)' = Held(s) \cup {c}
           /\ c \notin Held(s)' => Held(s)' = Held(s) \ {c}
<1>1. \A d \in Calls : d # c => (d \in Held(s)' <=> d \in Held(s))
  BY WorkFrame DEF Held, Server
<1>2. Held(s) \subseteq Calls /\ Held(s)' \subseteq Calls
  BY DEF Held
<1>3. s # Server(c) => c \notin Held(s) /\ c \notin Held(s)'
  BY DEF Held, Server
<1> QED BY <1>1, <1>2, <1>3

(* A call that is not about a proposal is not counted, before or after.    *)
LEMMA NotHeld ==
    ASSUME TypeOK, NEW c \in Calls, NEW s \in Servers,
           Lock(c) \/ Check(c) \/ Recheck(c) \/ StageFails(c) \/ Publish(c) \/ PublishLost(c)
    PROVE  Held(s)' = Held(s)
<1>1. Work(c)
  BY DEF Work
<1>2. c \notin Held(s)
  BY DEF Held, Lock, Check, Recheck, StageFails, Publish, PublishLost
<1>3. call'[c].at \notin {"propose", "giveBack"}
  <2>0. call[c] \in Requests
    BY <1>1, WorkFrame
  <2> USE <2>0 DEF Goto, Return, Idle, TypeOK, Requests
  <2>1. CASE Lock(c)        BY <2>1 DEF Lock
  <2>2. CASE Check(c)       BY <2>2 DEF Check
  <2>3. CASE Recheck(c)     BY <2>3 DEF Recheck, Target
  <2>4. CASE StageFails(c)  BY <2>4 DEF StageFails
  <2>5. CASE Publish(c)     BY <2>5 DEF Publish
  <2>6. CASE PublishLost(c) BY <2>6 DEF PublishLost
  <2> QED BY <2>1, <2>2, <2>3, <2>4, <2>5, <2>6
<1>4. c \notin Held(s)'
  BY <1>3 DEF Held
<1> QED BY <1>1, <1>2, <1>4, HeldBy

LEMMA WorkPlaces ==
    ASSUME TypeOK, PlacesInv, NEW c \in Calls, Work(c)
    PROVE  PlacesInv'
<1> SUFFICES ASSUME NEW s \in Servers
             PROVE  unsure'[s] = TRUE \/ queued'[s] + Cardinality(Held(s)') <= used'[s]
  BY DEF PlacesInv
<1>0. /\ unsure[s] = TRUE \/ queued[s] + Cardinality(Held(s)) <= used[s]
      /\ used[s] \in Nat /\ queued[s] \in Nat /\ unsure[s] \in BOOLEAN
      /\ Cardinality(Held(s)) \in Nat /\ Cardinality(Held(s)') \in Nat
  BY HeldFinite DEF PlacesInv, TypeOK
<1>1. call[c] \in Requests /\ Server(c) \in Servers /\ UNCHANGED cleanups
  BY WorkFrame DEF Server, Calls
<1>2. CASE Lock(c) \/ Check(c) \/ Recheck(c) \/ StageFails(c) \/ Publish(c) \/ PublishLost(c)
  <2>1. UNCHANGED <<used, queued, unsure>>
    BY <1>2 DEF Lock, Check, Recheck, StageFails, Publish, PublishLost, budget
  <2> QED BY <1>0, <1>2, <2>1, NotHeld
<1>3. CASE s # Server(c)
  <2>1. used'[s] = used[s] /\ queued'[s] = queued[s] /\ unsure'[s] = unsure[s]
    BY <1>2, <1>3 DEF Work, Take, Propose, ProposeLost, GiveBack, Enqueue, TypeOK,
         Lock, Check, Recheck, StageFails, Publish, PublishLost, budget
  <2>2. Held(s)' = Held(s)
    BY <1>3, HeldBy
  <2> QED BY <1>0, <2>1, <2>2
<1>4. CASE s = Server(c) /\ Take(c)
  <2>1. c \notin Held(s)
    BY <1>4 DEF Take, Held
  <2>2. CASE used[s] >= Limit
    <3>1. c \notin Held(s)' /\ UNCHANGED <<used, queued, unsure>>
      BY <1>4, <2>2 DEF Take, Held, Return, Idle, TypeOK
    <3> QED BY <1>0, <2>1, <3>1, HeldBy
  <2>3. CASE ~(used[s] >= Limit)
    <3>1. c \in Held(s)'
      BY <1>1, <1>4, <2>3 DEF Take, Held, TypeOK, Requests, Server
    <3>2. Cardinality(Held(s)') = Cardinality(Held(s)) + 1
      BY <2>1, <3>1, HeldBy, HeldGrows
    <3>3. used'[s] = used[s] + 1 /\ queued'[s] = queued[s] /\ unsure'[s] = unsure[s]
      BY <1>4, <2>3 DEF Take, TypeOK
    <3> QED BY <1>0, <3>2, <3>3
  <2> QED BY <2>2, <2>3
<1>5. CASE s = Server(c) /\ Propose(c)
  <2>0. c \in Held(s) <=> call[c].cleanup = cleanups[s]
    BY <1>5 DEF Propose, Held
  <2>1. used'[s] = used[s] /\ unsure'[s] = unsure[s]
    BY <1>5 DEF Propose
  <2>2. CASE Enqueue(c) /\ Return(c)
    <3>1. c \notin Held(s)'
      BY <2>2 DEF Return, Held, Idle, TypeOK
    <3>2. CASE c \in Held(s)
      <4>1. Cardinality(Held(s)') = Cardinality(Held(s)) - 1
        BY <3>1, <3>2, HeldBy, HeldShrinks
      <4>2. queued'[s] = queued[s] + 1
        BY <1>5, <2>0, <2>2, <3>2 DEF Enqueue, TypeOK
      <4> QED BY <1>0, <2>1, <4>1, <4>2
    <3>3. CASE c \notin Held(s)
      <4>1. queued'[s] = queued[s]
        BY <1>5, <2>0, <2>2, <3>3 DEF Enqueue, TypeOK
      <4> QED BY <1>0, <2>1, <3>1, <3>3, <4>1, HeldBy
    <3> QED BY <3>2, <3>3
  <2>3. CASE Goto(c, "giveBack") /\ UNCHANGED <<queued, lock>>
    <3>1. c \in Held(s)' <=> c \in Held(s)
      BY <1>1, <1>5, <2>0, <2>3 DEF Goto, Held, TypeOK, Requests, Server
    <3> QED BY <1>0, <2>1, <2>3, <3>1, HeldBy
  <2> QED BY <1>5, <2>2, <2>3 DEF Propose
<1>6. CASE s = Server(c) /\ ProposeLost(c)
  <2>0. c \in Held(s) <=> call[c].cleanup = cleanups[s]
    BY <1>6 DEF ProposeLost, Held
  <2>1. CASE c \in Held(s)
    <3>1. unsure'[s] = TRUE
      BY <1>0, <1>6, <2>0, <2>1 DEF ProposeLost, TypeOK
    <3> QED BY <3>1
  <2>2. CASE c \notin Held(s)
    <3>1. c \notin Held(s)'
      BY <1>1, <1>6, <2>0, <2>2 DEF ProposeLost, Goto, Held, TypeOK, Requests, Server
    <3>2. used'[s] = used[s] /\ queued'[s] = queued[s] /\ (unsure[s] = TRUE => unsure'[s] = TRUE)
      BY <1>6, <2>0, <2>2 DEF ProposeLost, Enqueue, TypeOK
    <3> QED BY <1>0, <2>2, <3>1, <3>2, HeldBy
  <2> QED BY <2>1, <2>2
<1>7. CASE s = Server(c) /\ GiveBack(c)
  <2>0. c \in Held(s) <=> call[c].cleanup = cleanups[s]
    BY <1>7 DEF GiveBack, Held
  <2>1. CASE c \notin Held(s)
    <3>1. unsure'[s] = TRUE
      BY <1>0, <1>7, <2>0, <2>1 DEF GiveBack, TypeOK
    <3> QED BY <3>1
  <2>2. CASE c \in Held(s)
    <3>1. c \notin Held(s)'
      BY <1>7 DEF GiveBack, Return, Held, Idle, TypeOK
    <3>2. Cardinality(Held(s)') = Cardinality(Held(s)) - 1
      BY <2>2, <3>1, HeldBy, HeldShrinks
    <3>3. used'[s] = (IF used[s] = 0 THEN 0 ELSE used[s] - 1) /\ queued'[s] = queued[s]
      BY <1>7 DEF GiveBack, TypeOK
    <3>4. unsure[s] = TRUE => unsure'[s] = TRUE
      BY <1>7 DEF GiveBack, TypeOK
    <3> QED BY <1>0, <3>2, <3>3, <3>4
  <2> QED BY <2>1, <2>2
<1> QED BY <1>2, <1>3, <1>4, <1>5, <1>6, <1>7 DEF Work

LEMMA OtherPlaces ==
    ASSUME TypeOK, CleanupInv, PlacesInv,
           (\E c \in Calls : Ask(c)) \/ (\E s \in Servers : StartCuration(s) \/ Die(s)) \/ (\E p \in Pages : Edit(p))
    PROVE  PlacesInv'
<1> SUFFICES ASSUME NEW s \in Servers
             PROVE  unsure'[s] = TRUE \/ queued'[s] + Cardinality(Held(s)') <= used'[s]
  BY DEF PlacesInv
<1>0. /\ unsure[s] = TRUE \/ queued[s] + Cardinality(Held(s)) <= used[s]
      /\ used[s] \in Nat /\ queued[s] \in Nat /\ Cardinality(Held(s)) \in Nat
  BY HeldFinite DEF PlacesInv, TypeOK
<1>1. ASSUME NEW c \in Calls, Ask(c) PROVE unsure'[s] = TRUE \/ queued'[s] + Cardinality(Held(s)') <= used'[s]
  <2>1. Held(s)' = Held(s)
    BY <1>1 DEF Ask, Asked, Held, TypeOK, budget, Server
  <2> QED BY <1>0, <1>1, <2>1 DEF Ask, budget
<1>2. ASSUME NEW t \in Servers, StartCuration(t)
      PROVE unsure'[s] = TRUE \/ queued'[s] + Cardinality(Held(s)') <= used'[s]
  <2>1. CASE s = t
    <3>1. cleanups'[s] = cleanups[s] + 1 /\ cleanups[s] \in Nat /\ used'[s] = 0 /\ queued'[s] = 0
      BY <1>2, <2>1 DEF StartCuration, TypeOK
    <3>2. \A c \in Calls : Server(c) = s /\ call[c].at # "idle" => call[c].cleanup # cleanups'[s]
      BY <3>1 DEF CleanupInv, Idle, TypeOK, Requests
    <3>3. Held(s)' = {}
      BY <1>2, <3>2 DEF StartCuration, Held, Server
    <3> QED BY <3>1, <3>3, FS_EmptySet
  <2>2. CASE s # t
    <3>1. Held(s)' = Held(s)
      BY <1>2, <2>2 DEF StartCuration, Held, TypeOK, Server
    <3> QED BY <1>0, <1>2, <2>2, <3>1 DEF StartCuration, TypeOK
  <2> QED BY <2>1, <2>2
<1>3. ASSUME NEW t \in Servers, Die(t)
      PROVE unsure'[s] = TRUE \/ queued'[s] + Cardinality(Held(s)') <= used'[s]
  <2>1. CASE s = t
    <3>1. Held(s)' = {}
      BY <1>3, <2>1 DEF Die, Held, Idle, Server
    <3>2. used'[s] = 0 /\ queued'[s] = 0
      BY <1>3, <2>1 DEF Die, TypeOK
    <3> QED BY <3>1, <3>2, FS_EmptySet
  <2>2. CASE s # t
    <3>1. Held(s)' = Held(s)
      BY <1>3, <2>2 DEF Die, Held, TypeOK, Server
    <3> QED BY <1>0, <1>3, <2>2, <3>1 DEF Die, TypeOK
  <2> QED BY <2>1, <2>2
<1>4. ASSUME NEW p \in Pages, Edit(p) PROVE unsure'[s] = TRUE \/ queued'[s] + Cardinality(Held(s)') <= used'[s]
  <2>1. Held(s)' = Held(s)
    BY <1>4 DEF Edit, Held, budget, Server
  <2> QED BY <1>0, <1>4, <2>1 DEF Edit, budget
<1> QED BY <1>1, <1>2, <1>3, <1>4

----------------------------------------------------------------------------
(* The limit of a cleanup.                                                 *)

LEMMA StepInv == IInv /\ [Next]_vars => IInv'
<1> SUFFICES ASSUME IInv, [Next]_vars PROVE IInv'
  OBVIOUS
<1>1. ASSUME NEW c \in Calls, Work(c) PROVE IInv'
  BY <1>1, WorkTyped, WorkLocks, WorkAccepts, WorkCleanup, WorkPlaces DEF IInv
<1>2. CASE (\E c \in Calls : Ask(c)) \/ (\E s \in Servers : StartCuration(s) \/ Die(s)) \/ (\E p \in Pages : Edit(p))
  BY <1>2, OtherTyped, OtherLocks, OtherCalls, OtherPlaces DEF IInv
<1>3. CASE UNCHANGED vars
  BY <1>3 DEF vars, budget, counters, IInv, TypeOK, LockInv, AcceptsInv, Accepts, CleanupInv, PlacesInv,
       Held, VaultLock
<1> QED BY <1>1, <1>2, <1>3 DEF Next

THEOREM Invariance == Spec => []IInv
<1>1. Init => IInv
  BY InitInv
<1> QED BY <1>1, StepInv, PTL DEF Spec

(* Every variable keeps the type TypeOK gives it; a server never counts    *)
(* more places than INFERRED_PROPOSAL_LIMIT.                               *)
THEOREM TypeCorrect == Spec => []TypeOK
<1>1. IInv => TypeOK
  BY DEF IInv
<1> QED BY <1>1, Invariance, PTL

(* A cleanup queues at most Limit inferred proposals, for any number of    *)
(* servers, threads, tools stopped at their limit, deaths and cleanups, as *)
(* long as the places it gave back were those of its own refused ones.     *)
THEOREM LimitKept == Spec => []ProposalLimitUnlessUnsure
<1>1. IInv => ProposalLimitUnlessUnsure
  <2> SUFFICES ASSUME IInv, NEW s \in Servers, unsure[s] # TRUE
               PROVE  queued[s] <= Limit
    BY DEF ProposalLimitUnlessUnsure, IInv, TypeOK
  <2>1. queued[s] + Cardinality(Held(s)) <= used[s]
    BY DEF IInv, PlacesInv
  <2>2. queued[s] \in Nat /\ used[s] \in 0..Limit
    BY DEF IInv, TypeOK
  <2> QED BY <2>1, <2>2, HeldFinite
<1> QED BY <1>1, Invariance, PTL

----------------------------------------------------------------------------
(* The pages, when one server writes them.                                 *)

(* Only the two outcomes of publish-draft change a page.                   *)
LEMMA PagesKept ==
    ASSUME TypeOK, [Next]_vars, NEW p \in Pages, edits' = 0, page'[p] # page[p]
    PROVE  \E c \in Calls : /\ Publish(c) \/ PublishLost(c)
                            /\ page' = [page EXCEPT ![p] = Applied(c)]
                            /\ call[c].page = p
<1>1. edits \in Nat
  BY DEF TypeOK
<1>2. PICK c \in Calls : Work(c)
  BY <1>1 DEF Next, vars, Ask, StartCuration, Die, Edit
<1>3. Publish(c) \/ PublishLost(c)
  BY <1>2 DEF Work, Lock, Check, Recheck, StageFails, Take, Propose, ProposeLost, GiveBack
<1>4. ApplyDraft(c)
  BY <1>3 DEF Publish, PublishLost
<1>5. call[c].page = p
  BY <1>4 DEF ApplyDraft, TypeOK
<1> QED BY <1>3, <1>4, <1>5 DEF ApplyDraft

(* Two calls of the server at publish-draft write to two Vaults.           *)
LEMMA Apart ==
    ASSUME LockInv, OneServer, NEW c \in Calls, NEW d \in Calls, c # d,
           call[c].at = "publish", call[d].at \in Working
    PROVE  call[c].page # call[d].page
<1>1. lock[VaultLock(c)] = c /\ lock[VaultLock(d)] = d
  BY DEF LockInv, Working
<1>2. Server(c) = Server(d)
  BY DEF OneServer, Server, Calls
<1> QED BY <1>1, <1>2 DEF VaultLock

LEMMA ReadStep ==
    ASSUME OneServer, IInv, ReadInv, [Next]_vars
    PROVE  ReadInv'
<1> SUFFICES ASSUME edits' = 0, NEW d \in Calls, call'[d].at \in {"staged", "publish"}
             PROVE  call'[d].read = page'[call'[d].page]
  BY DEF ReadInv
<1>0. TypeOK /\ LockInv /\ edits = 0
  <2>1. \A c \in Calls : Work(c) => UNCHANGED edits
    BY DEF Work, Lock, Check, Recheck, StageFails, Publish, PublishLost, Take, Propose, ProposeLost,
       GiveBack, counters
  <2>2. UNCHANGED edits \/ edits' = edits + 1
    BY <2>1 DEF Next, vars, Ask, StartCuration, Die, Edit, counters
  <2> QED BY <2>2 DEF IInv, TypeOK
<1>1. ASSUME NEW c \in Calls, Work(c), d = c PROVE call'[d].read = page'[call'[d].page]
  <2>0. call[c] \in Requests
    BY <1>0, <1>1, WorkFrame
  <2> USE <1>0, <2>0 DEF Goto, Return, Idle, TypeOK, Requests
  <2>1. CASE Lock(c)        BY <1>1, <2>1 DEF Lock
  <2>2. CASE Check(c)       BY <1>1, <2>2 DEF Check
  <2>3. CASE Recheck(c)     BY <1>1, <2>3 DEF Recheck, Target, ReadInv
  <2>4. CASE StageFails(c)  BY <1>1, <2>4 DEF StageFails
  <2>5. CASE Publish(c)     BY <1>1, <2>5 DEF Publish
  <2>6. CASE PublishLost(c) BY <1>1, <2>6 DEF PublishLost
  <2>7. CASE Take(c)        BY <1>1, <2>7 DEF Take
  <2>8. CASE Propose(c)     BY <1>1, <2>8 DEF Propose
  <2>9. CASE ProposeLost(c) BY <1>1, <2>9 DEF ProposeLost
  <2>10. CASE GiveBack(c)   BY <1>1, <2>10 DEF GiveBack
  <2> QED BY <1>1, <2>1, <2>2, <2>3, <2>4, <2>5, <2>6, <2>7, <2>8, <2>9, <2>10 DEF Work
<1>2. CASE call'[d] = call[d]
  <2>1. call[d].page \in Pages /\ call[d].read = page[call[d].page]
    BY <1>0, <1>2, LockOf DEF ReadInv
  <2>2. page'[call[d].page] = page[call[d].page]
    <3> SUFFICES ASSUME page'[call[d].page] # page[call[d].page] PROVE FALSE
      OBVIOUS
    <3>1. PICK c \in Calls : (Publish(c) \/ PublishLost(c)) /\ call[c].page = call[d].page
      BY <1>0, <2>1, PagesKept
    <3>2. call[c].at = "publish" /\ call'[c] = Idle
      BY <1>0, <3>1 DEF Publish, PublishLost, Return, TypeOK
    <3>3. c # d
      BY <3>2 DEF Idle
    <3> QED BY <1>0, <1>2, <3>1, <3>2, <3>3, Apart DEF Working
  <2> QED BY <1>2, <2>1, <2>2
<1>3. CASE ~\E c \in Calls : Work(c)
  <2>1. call'[d] = call[d]
    BY <1>0, <1>3 DEF Next, vars, Ask, Asked, StartCuration, Die, Edit, Idle, TypeOK
  <2> QED BY <1>2, <2>1
<1> QED BY <1>0, <1>1, <1>2, <1>3, WorkFrame

(* An accepted draft built from the page as it is adds to it, and only a   *)
(* restore makes it active.                                                *)
LEMMA AppliedKeeps ==
    ASSUME TypeOK, AcceptsInv, NEW c \in Calls, call[c].at = "publish",
           call[c].read = page[call[c].page], page[call[c].page] # NoPage
    PROVE  /\ Applied(c) # NoPage
           /\ page[call[c].page].facts \subseteq Applied(c).facts
           /\ page[call[c].page].status = "retired" /\ Applied(c).status = "active" => call[c].op = "restore"
<1>1. call[c] \in Requests /\ Accepts(call[c].op, call[c].read)
  BY UnderWay DEF AcceptsInv
<1>2. Applied(c) \in Contents
  BY <1>1, AppliedTyped
<1>3. call[c].op \in Operations /\ call[c].op # "remember"
  BY <1>1 DEF Accepts, Requests
<1>4. CASE call[c].op = "update"
  <2>1. Applied(c) = [facts |-> call[c].read.facts \cup {call[c].id}, status |-> call[c].read.status]
    BY <1>4 DEF Applied
  <2> QED BY <1>2, <2>1
<1>5. CASE call[c].op \in {"retire", "supersede", "restore"}
  <2>1. Applied(c).facts = page[call[c].page].facts \cup {call[c].id}
    BY <1>5 DEF Applied, Patched
  <2>2. call[c].op # "restore" => Applied(c).status \in {"retired", page[call[c].page].status}
    BY <1>5 DEF Applied, Patched
  <2> QED BY <1>2, <1>5, <2>1, <2>2
<1> QED BY <1>3, <1>4, <1>5 DEF Operations

LEMMA ReadInvariance == ASSUME OneServer PROVE Spec => [](IInv /\ ReadInv)
<1>1. Init => IInv /\ ReadInv
  BY InitInv
<1>2. IInv /\ ReadInv /\ [Next]_vars => (IInv /\ ReadInv)'
  BY StepInv, ReadStep
<1> QED BY <1>1, <1>2, PTL DEF Spec

(* As long as one server alone writes, no page disappears or loses what a  *)
(* call added to it, whatever order its threads, its tool's time limit and *)
(* its deaths come in.                                                     *)
THEOREM WritesAdd == ASSUME OneServer PROVE Spec => NoWriteLost
<1>1. IInv /\ ReadInv /\ [Next]_vars =>
        [\A p \in Pages : edits' = 0 /\ page[p] # NoPage =>
            page'[p] # NoPage /\ page[p].facts \subseteq page'[p].facts]_vars
  <2> SUFFICES ASSUME IInv, ReadInv, [Next]_vars, NEW p \in Pages, edits' = 0, page[p] # NoPage
               PROVE  page'[p] # NoPage /\ page[p].facts \subseteq page'[p].facts
    OBVIOUS
  <2>1. CASE page'[p] = page[p]
    BY <2>1
  <2>2. CASE page'[p] # page[p]
    <3>1. PICK c \in Calls : /\ Publish(c) \/ PublishLost(c)
                             /\ page' = [page EXCEPT ![p] = Applied(c)]
                             /\ call[c].page = p
      BY <2>2, PagesKept DEF IInv
    <3>2. call[c].at = "publish" /\ edits = 0
      BY <3>1 DEF Publish, PublishLost, counters
    <3>3. call[c].read = page[call[c].page]
      BY <3>2 DEF ReadInv
    <3>4. page'[p] = Applied(c)
      BY <3>1 DEF IInv, TypeOK
    <3> QED BY <3>1, <3>2, <3>3, <3>4, AppliedKeeps DEF IInv
  <2> QED BY <2>1, <2>2
<1> QED BY <1>1, ReadInvariance, PTL DEF Spec, NoWriteLost

(* Under the same condition a retired page becomes active by the publish   *)
(* of a restore of that page, and by nothing else.                         *)
THEOREM OnlyRestored == ASSUME OneServer PROVE Spec => RetiredStays
<1>1. IInv /\ ReadInv /\ [Next]_vars =>
        [\A p \in Pages :
            edits' = 0 /\ page[p] # NoPage /\ page'[p] # NoPage
            /\ page[p].status = "retired" /\ page'[p].status = "active"
            => \E c \in Calls : call[c].op = "restore" /\ call[c].at = "publish"
                                /\ call[c].page = p /\ call'[c] = Idle]_vars
  <2> SUFFICES ASSUME IInv, ReadInv, [Next]_vars, NEW p \in Pages, edits' = 0, page[p] # NoPage,
                      page[p].status = "retired", page'[p].status = "active"
               PROVE  \E c \in Calls : call[c].op = "restore" /\ call[c].at = "publish"
                                       /\ call[c].page = p /\ call'[c] = Idle
    OBVIOUS
  <2>1. PICK c \in Calls : /\ Publish(c) \/ PublishLost(c)
                           /\ page' = [page EXCEPT ![p] = Applied(c)]
                           /\ call[c].page = p
    BY PagesKept DEF IInv
  <2>2. call[c].at = "publish" /\ call'[c] = Idle /\ edits = 0
    BY <2>1 DEF Publish, PublishLost, Return, counters, IInv, TypeOK
  <2>3. call[c].read = page[call[c].page]
    BY <2>2 DEF ReadInv
  <2>4. page'[p] = Applied(c)
    BY <2>1 DEF IInv, TypeOK
  <2> QED BY <2>1, <2>2, <2>3, <2>4, AppliedKeeps DEF IInv
<1> QED BY <1>1, ReadInvariance, PTL DEF Spec, RetiredStays

=============================================================================
