----------------------------- MODULE ServingProofs -----------------------------
(***************************************************************************)
(* Machine-checked proofs about what is read of a generation.              *)
(*                                                                         *)
(* EvidenceLinks, for any keys, owners, questions and number of updates:   *)
(* links of two revisions are never answered, and nothing is left out      *)
(* without being said.  What was read holds of the moment the reading      *)
(* began as long as the revisions are those read first, and for good once  *)
(* they were read again.                                                   *)
(*                                                                         *)
(* Curation, for any notes, sessions, pages and number of days: the bundle *)
(* asks for what is left, once, and for good reason.  What was dealt with  *)
(* is what was recorded, kept or cited, whatever the candidates lag behind.*)
(*                                                                         *)
(* GraphQuery, for any entities, relationships, requests and limits: an    *)
(* answer shows walks over relationships that hold, all of them unless it  *)
(* says that a limit was met, names the Vaults that are out of date, and   *)
(* is the answer of the projection that was replaced.  Where the traversal *)
(* can stand is described place by place, with what it has chosen there.   *)
(***************************************************************************)
EXTENDS EvidenceLinks, Curation, GraphQuery, OrderingProofs

Records == [owner : Owners, hash : Hashes]

----------------------------------------------------------------------------
(* Rows come sorted by Vault and owner: each record of a set once.         *)

OneEach(S) == \A o, p \in S : o.owner = p.owner => o = p
Row(S) == Sorted(S, LAMBDA o : <<OwnerVault[o.owner], o.owner>>)

LEMMA RowIs ==
    ASSUME LinkConstants, NEW S, S \subseteq Records, OneEach(S), IsFiniteSet(S)
    PROVE  /\ Row(S) \in Seq(S)
           /\ \A o \in S : \E i \in 1..Len(Row(S)) : Row(S)[i] = o
<1> DEFINE key == [o \in S |-> <<OwnerVault[o.owner], o.owner>>]
           vault == [o \in S |-> OwnerVault[o.owner]]
           owner == [o \in S |-> o.owner]
<1>1. \A o \in S : key[o] = <<vault[o], owner[o]>> /\ vault[o] \in Int /\ owner[o] \in Int
  BY DEF LinkConstants, Records
<1>2. \A o, p \in S : vault[o] = vault[p] /\ owner[o] = owner[p] => o = p
  BY DEF OneEach
<1>3. Row(S) = <<>> \o InOrder(S, key)
  <2> DEFINE keys == Table(key)
             below == [x \in S |-> Cardinality({y \in S : Less(keys[y], keys[x])})]
             place == Table(below)
  <2>1. Row(S) = <<>> \o [i \in 1..Cardinality(S) |-> CHOOSE x \in S : place[x] = i - 1]
    BY DEF Row, Sorted, SortedBy
  <2> HIDE DEF key
  <2>2. below = Place(S, key)
    BY TableIs DEF Place, Below
  <2>3. place = Place(S, key)
    BY <2>2, TableIs
  <2> HIDE DEF place
  <2> QED BY <2>1, <2>3 DEF InOrder
<1> HIDE DEF key, vault, owner
<1>4. KeysDiffer(S, key)
  BY <1>1, <1>2, PairsDiffer
<1> QED BY <1>3, <1>4, SortedOnce

----------------------------------------------------------------------------
(* The invariant.                                                          *)

Contents == Hashes \cup {Missing}
Steps == {"metadata", "graph", "evidence", "readiness", "lookup", "metadata_again", "graph_again",
          "evidence_again", "done", "failed"}
Early == {"metadata", "graph", "evidence", "readiness"}
Statuses == {"unknown", "not_processed", "missing_evidence", "not_ready", "no_links", "linked", "linked_in_part"}
Graphs == {g \in [Keys -> SUBSET Records] : \A k \in Keys : OneEach(g[k])}
Links == [owner : Owners, key : Keys]
Revisions == [metadata : Nat, graph : Nat]

TypeInv ==
    /\ request \in Questions
    /\ chunks \in [Keys -> Contents] /\ owners \in Graphs
    /\ held \in [chunks : [Keys -> Contents], owners : Graphs]
    /\ revision \in Revisions /\ before \in Revisions
    /\ step \in Steps
    /\ evidence \in [Keys -> Contents]
    /\ at \in 1..Len(request.keys)
    /\ links \in Seq(Links)
    /\ outcomes \in [Keys -> Statuses]
    /\ stop \in {"completed", "not_ready", "result_limit", "revision_changed"}

(* A store is as it was when the reading began while its revision is.      *)
StoresInv ==
    /\ before.metadata <= revision.metadata /\ before.graph <= revision.graph
    /\ step \notin {"metadata", "graph"} =>
        /\ revision.metadata = before.metadata => chunks = held.chunks
        /\ revision.graph = before.graph => owners = held.owners

(* What was read of a store counts while its revision is the one read      *)
(* first, and for good once that was read again.                           *)
Answering == step # "failed" /\ stop # "revision_changed"
ChunksCount == step \in {"graph_again", "evidence_again", "done"} \/ revision.metadata = before.metadata
GraphCounts == step \in {"evidence_again", "done"} \/ revision.graph = before.graph

Resolved ==
    IF step \in {"metadata", "graph"} THEN {}
    ELSE IF step = "evidence" THEN 1..at - 1 ELSE 1..Len(request.keys)
EvidenceInv ==
    /\ step \in {"metadata", "graph"} => at = 1
    /\ Answering /\ ChunksCount =>
           \A i \in Resolved : evidence[request.keys[i]] = held.chunks[request.keys[i]]
FreshInv ==
    Answering /\ ChunksCount /\ GraphCounts /\ step \notin Early =>
        fresh = FreshVaults(held.chunks, held.owners)

(* What a key was answered.                                                *)
Told(k) ==
    /\ LinkedTo(k) \subseteq LinksThen(k)
    /\ outcomes[k] \in {"linked", "no_links"} => LinkedTo(k) = LinksThen(k)
    /\ outcomes[k] = "no_links" => LinksThen(k) = {}
    /\ outcomes[k] = "not_ready" => FreshVaults(held.chunks, held.owners) # Vaults
OutcomeInv ==
    /\ Answering /\ ChunksCount /\ GraphCounts => \A k \in Keys : Told(k)
    /\ step \in Early => links = <<>> /\ stop = "completed" /\ \A k \in Keys : outcomes[k] = "unknown"

(* What the limit leaves out is said.                                      *)
LimitInv ==
    /\ stop = "revision_changed" => step = "done"
    /\ Len(links) <= request.limit
    /\ stop = "result_limit" => Len(links) = request.limit
    /\ Answering => \A k \in Keys :
        /\ outcomes[k] \in {"not_processed", "linked_in_part"} => stop = "result_limit"
        /\ outcomes[k] = "missing_evidence" => evidence[k] = Missing

FailedInv == step = "failed" => revision # before

IInv == TypeInv /\ StoresInv /\ EvidenceInv /\ FreshInv /\ OutcomeInv /\ LimitInv /\ FailedInv

----------------------------------------------------------------------------
LEMMA KeyIsOne ==
    ASSUME LinkConstants, TypeInv
    PROVE  /\ request.keys \in Seq(Keys) /\ Len(request.keys) \in Nat /\ at \in 1..Len(request.keys)
           /\ Key \in Keys /\ request.limit \in Nat
  BY DEF LinkConstants, TypeInv, Key

LEMMA OwnersFinite ==
    ASSUME LinkConstants, TypeInv, NEW k \in Keys
    PROVE  OwnersOf(k) \subseteq Records /\ OneEach(OwnersOf(k)) /\ IsFiniteSet(OwnersOf(k))
<1>1. OwnersOf(k) \subseteq Records /\ OneEach(OwnersOf(k))
  BY DEF OwnersOf, TypeInv, Graphs, OneEach
<1> DEFINE f == [o \in OwnersOf(k) |-> o.owner]
<1>2. f \in Injection(OwnersOf(k), Owners)
  BY <1>1 DEF Injection, IsInjective, OneEach, Records
<1>3. IsFiniteSet(OwnersOf(k))
  BY <1>2, FS_Injection DEF LinkConstants
<1> QED BY <1>1, <1>3

(* The rows of a key: all its owners, or more than the limit allows.       *)
Remaining == request.limit - Len(links)
Selected == Top(Rows, Remaining)

LEMMA RowsAre ==
    ASSUME LinkConstants, TypeInv, LimitInv
    PROVE  /\ Remaining \in Nat /\ Len(Rows) \in Nat
           /\ \A i \in DOMAIN Rows : Rows[i] \in OwnersOf(Key)
           /\ Selected \in Seq(OwnersOf(Key)) /\ Len(Selected) <= Remaining
           /\ Len(Rows) <= Remaining => \A o \in OwnersOf(Key) : \E i \in DOMAIN Selected : Selected[i] = o
           /\ ~(Len(Rows) <= Remaining) => Len(Selected) = Remaining
<1> DEFINE S == OwnersOf(Key)
<1>0. request.limit \in Nat
  BY KeyIsOne
<1>1. Remaining \in Nat /\ Remaining + 1 \in Nat /\ request.limit + 1 - Len(links) = Remaining + 1
  <2>1. links \in Seq(Links)
    BY DEF TypeInv
  <2>2. Len(links) \in Nat
    BY <2>1
  <2>3. Len(links) <= request.limit
    BY DEF LimitInv
  <2> QED BY <1>0, <2>2, <2>3 DEF Remaining
<1>2. S \subseteq Records /\ OneEach(S) /\ IsFiniteSet(S)
  BY KeyIsOne, OwnersFinite
<1> HIDE DEF S
<1>3. Row(S) \in Seq(S) /\ \A o \in S : \E i \in 1..Len(Row(S)) : Row(S)[i] = o
  BY <1>2, RowIs
<1>4. Rows = Top(Row(S), Remaining + 1)
  BY <1>1 DEF Rows, Row, S
<1>5. /\ Rows \in Seq(S)
      /\ Len(Rows) = IF Remaining + 1 < Len(Row(S)) THEN Remaining + 1 ELSE Len(Row(S))
      /\ \A i \in 1..Len(Rows) : Rows[i] = Row(S)[i]
  <2> DEFINE r == Row(S)
             m == Remaining + 1
  <2>1. r \in Seq(S) /\ m \in Nat /\ Rows = Top(r, m)
    BY <1>1, <1>3, <1>4
  <2> HIDE DEF r, m
  <2>2. /\ Rows \in Seq(S)
        /\ Len(Rows) = IF m < Len(r) THEN m ELSE Len(r)
        /\ \A i \in 1..Len(Rows) : Rows[i] = r[i]
    BY <2>1, TopIs
  <2> QED BY <2>2 DEF r, m
<1>6. /\ Selected \in Seq(S)
      /\ Len(Selected) = IF Remaining < Len(Rows) THEN Remaining ELSE Len(Rows)
      /\ \A i \in 1..Len(Selected) : Selected[i] = Rows[i]
  BY <1>1, <1>5, TopIs DEF Selected
<1>7. ASSUME Len(Rows) <= Remaining PROVE \A o \in S : \E i \in DOMAIN Selected : Selected[i] = o
  <2>1. Len(Rows) = Len(Row(S)) /\ Len(Selected) = Len(Row(S)) /\ Len(Row(S)) \in Nat
    BY <1>1, <1>3, <1>5, <1>6, <1>7
  <2>2. \A i \in 1..Len(Row(S)) : i \in DOMAIN Selected /\ Selected[i] = Row(S)[i]
    BY <1>5, <1>6, <2>1
  <2> QED BY <1>3, <2>2
<1>8. \A i \in DOMAIN Rows : Rows[i] \in S
  BY <1>5
<1>9. Len(Rows) \in Nat /\ Len(Selected) \in Nat
  BY <1>5, <1>6
<1> QED BY <1>1, <1>6, <1>7, <1>8, <1>9 DEF S

----------------------------------------------------------------------------
(* The steps.                                                              *)

LEMMA InitInv == ASSUME LinkConstants, LinksInit PROVE IInv
<1>1. request \in Questions /\ request.keys \in Seq(Keys) /\ request.keys # <<>> /\ request.limit \in Nat
  BY DEF LinksInit, LinkConstants
<1>2. 1 \in 1..Len(request.keys)
  BY <1>1
<1>3. chunks \in [Keys -> Contents] /\ evidence \in [Keys -> Contents] /\ outcomes \in [Keys -> Statuses]
  BY DEF LinksInit, LinkConstants, Contents, Statuses
<1>4. owners \in Graphs
  BY DEF LinksInit, LinkConstants, Graphs, Records, OneEach, Owners
<1>5. TypeInv
  BY <1>1, <1>2, <1>3, <1>4 DEF LinksInit, TypeInv, Revisions, Steps
<1>6. StoresInv /\ EvidenceInv /\ FreshInv /\ FailedInv
  BY DEF LinksInit, StoresInv, EvidenceInv, Resolved, FreshInv, Early, FailedInv
<1>7. \A k \in Keys : outcomes[k] = "unknown" /\ LinkedTo(k) = {}
  BY DEF LinksInit, LinkedTo
<1>8. OutcomeInv
  BY <1>7 DEF LinksInit, OutcomeInv, Told, Early
<1>9. LimitInv
  BY <1>1, <1>7 DEF LinksInit, LimitInv
<1> QED BY <1>5, <1>6, <1>8, <1>9 DEF IInv

(* While nothing was looked up nothing was told.                           *)
LEMMA NothingToldEarly ==
    ASSUME step \in Early, OutcomeInv PROVE \A k \in Keys : LinkedTo(k) = {} /\ outcomes[k] = "unknown"
  BY DEF OutcomeInv, LinkedTo

LEMMA ReadMetadataRevisionStep ==
    ASSUME LinkConstants, IInv, ReadMetadataRevision PROVE IInv'
<1> USE DEF IInv, ReadMetadataRevision, Stores
<1>1. TypeInv' /\ before'.metadata = revision.metadata /\ before'.graph = before.graph
  BY DEF TypeInv, Revisions, Steps
<1>2. StoresInv'
  BY <1>1 DEF StoresInv, TypeInv, Revisions
<1>3. EvidenceInv' /\ FreshInv' /\ FailedInv'
  BY DEF EvidenceInv, Resolved, FreshInv, Early, FailedInv
<1>4. \A k \in Keys : LinkedTo(k)' = {} /\ outcomes'[k] = "unknown"
  BY NothingToldEarly DEF LinkedTo, Early
<1>5. OutcomeInv'
  BY <1>4 DEF OutcomeInv, Told, Early
<1>6. LimitInv'
  BY <1>4 DEF LimitInv
<1> QED BY <1>1, <1>2, <1>3, <1>5, <1>6

LEMMA ReadGraphRevisionStep ==
    ASSUME LinkConstants, IInv, ReadGraphRevision PROVE IInv'
<1> USE DEF IInv, ReadGraphRevision, Stores
<1>1. TypeInv' /\ before'.metadata = before.metadata /\ before'.graph = revision.graph
  BY DEF TypeInv, Revisions, Steps
<1>2. StoresInv'
  BY <1>1 DEF StoresInv, TypeInv, Revisions
<1>3. EvidenceInv' /\ FreshInv' /\ FailedInv'
  BY DEF EvidenceInv, Resolved, FreshInv, Early, FailedInv
<1>4. \A k \in Keys : LinkedTo(k)' = {} /\ outcomes'[k] = "unknown"
  BY NothingToldEarly DEF LinkedTo, Early
<1>5. OutcomeInv'
  BY <1>4 DEF OutcomeInv, Told, Early
<1>6. LimitInv'
  BY <1>4 DEF LimitInv
<1> QED BY <1>1, <1>2, <1>3, <1>5, <1>6

LEMMA ResolveEvidenceStep ==
    ASSUME LinkConstants, IInv, ResolveEvidence PROVE IInv'
<1> USE DEF IInv, ResolveEvidence, Stores
<1>0. /\ request.keys \in Seq(Keys) /\ Len(request.keys) \in Nat /\ at \in 1..Len(request.keys) /\ Key \in Keys
      /\ step' \in {"evidence", "readiness"} /\ at' \in 1..Len(request.keys)
  BY KeyIsOne DEF AtLast
<1>1. TypeInv'
  BY <1>0 DEF TypeInv, Steps
<1>2. StoresInv'
  BY <1>0 DEF StoresInv
<1>3. FreshInv' /\ FailedInv'
  BY <1>0 DEF FreshInv, Early, FailedInv
<1>4. \A k \in Keys : LinkedTo(k)' = {} /\ outcomes'[k] = "unknown"
  BY NothingToldEarly DEF LinkedTo, Early
<1>5. OutcomeInv'
  BY <1>0, <1>4 DEF OutcomeInv, Told, Early
<1>6. LimitInv'
  BY <1>4 DEF LimitInv
<1>7. EvidenceInv'
  <2> SUFFICES ASSUME Answering', ChunksCount', NEW i \in Resolved'
               PROVE  evidence'[request.keys[i]] = held.chunks[request.keys[i]]
    BY <1>0 DEF EvidenceInv
  <2>1. Answering /\ ChunksCount /\ chunks = held.chunks
    BY <1>0 DEF Answering, ChunksCount, StoresInv
  <2>2. i \in 1..at /\ request.keys[i] \in Keys
    BY <1>0 DEF Resolved, AtLast
  <2>3. CASE request.keys[i] = Key
    BY <1>0, <2>1, <2>3 DEF TypeInv
  <2>4. CASE request.keys[i] # Key
    <3>1. i \in 1..at - 1
      BY <1>0, <2>2, <2>4 DEF Key
    <3>2. evidence[request.keys[i]] = held.chunks[request.keys[i]]
      BY <2>1, <3>1 DEF EvidenceInv, Resolved
    <3> QED BY <1>0, <2>2, <2>4, <3>2 DEF TypeInv
  <2> QED BY <2>3, <2>4
<1> QED BY <1>1, <1>2, <1>3, <1>5, <1>6, <1>7

LEMMA CheckReadinessStep ==
    ASSUME LinkConstants, IInv, CheckReadiness PROVE IInv'
<1> USE DEF IInv, CheckReadiness, Stores
<1>1. TypeInv'
  BY DEF TypeInv, Steps
<1>2. StoresInv' /\ FailedInv'
  BY DEF StoresInv, FailedInv
<1>3. EvidenceInv'
  BY DEF EvidenceInv, Resolved, Answering, ChunksCount
<1>4. FreshInv'
  <2>1. ASSUME ChunksCount', GraphCounts' PROVE chunks = held.chunks /\ owners = held.owners
    BY <2>1 DEF ChunksCount, GraphCounts, StoresInv
  <2> QED BY <2>1 DEF FreshInv, FreshVaults
<1>5. \A k \in Keys : LinkedTo(k)' = {} /\ outcomes'[k] = "unknown"
  BY NothingToldEarly DEF LinkedTo, Early
<1>6. OutcomeInv'
  BY <1>5 DEF OutcomeInv, Told, Early
<1>7. LimitInv'
  BY <1>5 DEF LimitInv
<1> QED BY <1>1, <1>2, <1>3, <1>4, <1>6, <1>7

(* While the first revisions stand the stores are as they were, and so is  *)
(* what was read of them.                                                  *)
LEMMA AtLookUp ==
    ASSUME LinkConstants, IInv, step = "lookup"
    PROVE  /\ Answering
           /\ (ChunksCount <=> revision.metadata = before.metadata)
           /\ (GraphCounts <=> revision.graph = before.graph)
           /\ ChunksCount => evidence[Key] = held.chunks[Key] /\ chunks = held.chunks
           /\ GraphCounts => owners = held.owners
           /\ ChunksCount /\ GraphCounts => fresh = FreshVaults(held.chunks, held.owners)
<1> USE DEF IInv
<1>1. Answering
  BY DEF Answering, LimitInv
<1>2. (ChunksCount <=> revision.metadata = before.metadata) /\ (GraphCounts <=> revision.graph = before.graph)
  BY DEF ChunksCount, GraphCounts
<1>3. ChunksCount => evidence[Key] = held.chunks[Key]
  BY <1>1, KeyIsOne DEF EvidenceInv, Resolved, Key
<1>4. (ChunksCount => chunks = held.chunks) /\ (GraphCounts => owners = held.owners)
  BY <1>2 DEF StoresInv
<1>5. ChunksCount /\ GraphCounts => fresh = FreshVaults(held.chunks, held.owners)
  BY <1>1 DEF FreshInv, Early
<1> QED BY <1>1, <1>2, <1>3, <1>4, <1>5

LEMMA NextKeyIs ==
    ASSUME LinkConstants, TypeInv, step = "lookup", NextKey
    PROVE  /\ Len(request.keys) \in Nat /\ at \in 1..Len(request.keys) /\ Key \in Keys
           /\ step' \in {"lookup", "metadata_again"} /\ at' \in 1..Len(request.keys)
  BY KeyIsOne DEF NextKey, AtLast

(* A key that is passed over changes only what is said of it.              *)
LEMMA SkipStep ==
    ASSUME LinkConstants, IInv, NEW status, Skip(status),
           step = "lookup", UNCHANGED <<Stores, before, evidence, fresh, held>>,
           status \in {"not_processed", "missing_evidence", "not_ready"},
           stop' \in {stop, "not_ready"}, stop' # stop => stop # "result_limit",
           status = "not_processed" => stop' = "result_limit",
           status = "missing_evidence" => evidence[Key] = Missing,
           status = "not_ready" => stop # "result_limit" /\ ~(Relevant \subseteq fresh)
    PROVE  IInv'
<1> USE DEF IInv, Stores, Skip
<1>0. /\ Len(request.keys) \in Nat /\ at \in 1..Len(request.keys) /\ Key \in Keys
      /\ step' \in {"lookup", "metadata_again"} /\ at' \in 1..Len(request.keys)
  BY NextKeyIs
<1>1. TypeInv'
  BY <1>0 DEF TypeInv, Steps, Statuses
<1>2. StoresInv' /\ FailedInv'
  BY <1>0 DEF StoresInv, FailedInv
<1>3. Answering /\ Answering' /\ ChunksCount' = ChunksCount /\ GraphCounts' = GraphCounts
  BY <1>0 DEF Answering, ChunksCount, GraphCounts, LimitInv
<1>4. EvidenceInv' /\ FreshInv'
  BY <1>0, <1>3 DEF EvidenceInv, Resolved, FreshInv, FreshVaults, Early
<1>5. \A k \in Keys : LinkedTo(k)' = LinkedTo(k) /\ LinksThen(k)' = LinksThen(k)
  BY DEF LinkedTo, LinksThen
<1>6. outcomes'[Key] = status /\ \A k \in Keys : k # Key => outcomes'[k] = outcomes[k]
  BY <1>0 DEF TypeInv
<1>7. OutcomeInv'
  <2> SUFFICES ASSUME ChunksCount, GraphCounts, NEW k \in Keys PROVE Told(k)'
    BY <1>0, <1>3 DEF OutcomeInv, Early
  <2>1. Told(k)
    BY <1>3 DEF OutcomeInv
  <2>2. CASE k # Key
    BY <1>5, <1>6, <2>1, <2>2 DEF Told, FreshVaults
  <2>3. CASE k = Key
    <3>1. status = "not_ready" => FreshVaults(held.chunks, held.owners) # Vaults
      <4>1. Relevant \subseteq Vaults
        BY <1>0 DEF Relevant, Vaults
      <4> QED BY <4>1, AtLookUp
    <3> QED BY <1>5, <1>6, <2>1, <2>3, <3>1 DEF Told, FreshVaults
  <2> QED BY <2>2, <2>3
<1>8. LimitInv'
  BY <1>0, <1>3, <1>6 DEF LimitInv
<1> QED BY <1>1, <1>2, <1>4, <1>7, <1>8

(* A lookup fails only for a record of another graph, or on a chunk that   *)
(* was changed: the graph of a fresh Vault rests on the chunks.            *)
LEMMA LookUpFails ==
    ASSUME LinkConstants, IInv, step = "lookup", UNCHANGED <<Stores, before, evidence, fresh, held>>,
           Wanted, Relevant \subseteq fresh, ~Valid, step' = "failed", UNCHANGED <<at, links, outcomes, stop>>
    PROVE  IInv'
<1> USE DEF IInv, Stores
<1>1. TypeInv'
  BY DEF TypeInv, Steps
<1>2. StoresInv'
  BY DEF StoresInv
<1>3. EvidenceInv' /\ FreshInv' /\ OutcomeInv'
  BY DEF EvidenceInv, FreshInv, OutcomeInv, Answering, Early
<1>4. LimitInv'
  BY DEF LimitInv, Answering
<1>5. revision # before
  <2> SUFFICES ASSUME revision = before PROVE FALSE
    OBVIOUS
  <2>1. /\ Key \in Keys /\ evidence[Key] = chunks[Key] /\ fresh = FreshVaults(chunks, owners)
    BY KeyIsOne, AtLookUp
  <2>2. PICK i \in DOMAIN Rows : Rows[i].hash # evidence[Key]
    BY DEF Valid
  <2>3. Rows[i] \in OwnersOf(Key)
    BY RowsAre
  <2>4. Rows[i] \in owners[Key] /\ OwnerVault[Rows[i].owner] \in Relevant
    <3>1. Rows[i].owner \in DOMAIN OwnerVault
      BY <2>1, <2>3, OwnersFinite DEF Records, Owners
    <3>2. Rows[i] \in owners[Key] /\ (request.cross \/ OwnerVault[Rows[i].owner] = KeyVault[Key])
      BY <2>3 DEF OwnersOf
    <3> QED BY <3>1, <3>2 DEF Relevant, Vaults
  <2>5. OwnerVault[Rows[i].owner] \in FreshVaults(chunks, owners)
    BY <2>1, <2>4
  <2>6. Rows[i].hash = chunks[Key]
    BY <2>1, <2>4, <2>5 DEF FreshVaults
  <2> QED BY <2>1, <2>2, <2>6
<1>6. FailedInv'
  BY <1>5 DEF FailedInv
<1> QED BY <1>1, <1>2, <1>3, <1>4, <1>6

(* Links put behind others: what each key is linked to then.               *)
OwnersIn(list, k) == {list[i].owner : i \in {j \in DOMAIN list : list[j].key = k}}
LinksOf(list, k) == [i \in DOMAIN list |-> [owner |-> list[i].owner, key |-> k]]

LEMMA Appended ==
    ASSUME NEW A, NEW s \in Seq(A), NEW t \in Seq(A), NEW r, r = s \o t
    PROVE  /\ r \in Seq(A) /\ Len(r) = Len(s) + Len(t)
           /\ \A i \in 1..Len(s) : i \in DOMAIN r /\ r[i] = s[i]
           /\ \A i \in 1..Len(t) : Len(s) + i \in DOMAIN r /\ r[Len(s) + i] = t[i]
           /\ \A j \in DOMAIN r : (j \in 1..Len(s) /\ r[j] = s[j]) \/ \E i \in 1..Len(t) : r[j] = t[i]
<1>1. /\ r \in Seq(A) /\ Len(r) = Len(s) + Len(t) /\ DOMAIN r = 1..Len(r)
      /\ \A i \in 1..Len(s) : i \in DOMAIN r /\ r[i] = s[i]
      /\ \A i \in 1..Len(t) : Len(s) + i \in DOMAIN r /\ r[Len(s) + i] = t[i]
  OBVIOUS
<1>2. \A j \in DOMAIN r : j \in 1..Len(s) \/ (j - Len(s) \in 1..Len(t) /\ j = Len(s) + (j - Len(s)))
  BY <1>1
<1>3. \A j \in DOMAIN r : (j \in 1..Len(s) /\ r[j] = s[j]) \/ \E i \in 1..Len(t) : r[j] = t[i]
  BY <1>1, <1>2
<1> QED BY <1>1, <1>3

LEMMA LinkedMore ==
    ASSUME NEW old \in Seq(Links), NEW S, NEW list \in Seq(S), NEW key \in Keys,
           \A i \in DOMAIN list : list[i].owner \in Owners
    PROVE  LET more == old \o LinksOf(list, key) IN
           /\ more \in Seq(Links) /\ Len(more) = Len(old) + Len(list)
           /\ Len(old) \in Nat /\ Len(list) \in Nat
           /\ \A k \in Keys :
                 OwnersIn(more, k) = OwnersIn(old, k) \cup IF k = key THEN {list[i].owner : i \in DOMAIN list} ELSE {}
<1> DEFINE new == LinksOf(list, key)
           more == old \o new
<1>1. DOMAIN list = 1..Len(list) /\ Len(list) \in Nat /\ Len(old) \in Nat
  OBVIOUS
<1>2. \A i \in DOMAIN list : new[i].owner = list[i].owner /\ new[i].key = key
  BY DEF LinksOf
<1>3. new \in Seq(Links) /\ Len(new) = Len(list)
  BY <1>1 DEF LinksOf, Links
<1> HIDE DEF new
<1>4. /\ more \in Seq(Links) /\ Len(more) = Len(old) + Len(list)
      /\ \A i \in 1..Len(old) : i \in DOMAIN more /\ more[i] = old[i]
      /\ \A i \in 1..Len(list) : Len(old) + i \in DOMAIN more /\ more[Len(old) + i] = new[i]
      /\ \A j \in DOMAIN more : \/ j \in 1..Len(old) /\ more[j] = old[j]
                               \/ \E i \in 1..Len(list) : more[j] = new[i]
  <2>1. Len(new) = Len(list)
    BY <1>3
  <2>2. /\ more \in Seq(Links) /\ Len(more) = Len(old) + Len(new)
        /\ \A i \in 1..Len(old) : i \in DOMAIN more /\ more[i] = old[i]
        /\ \A i \in 1..Len(new) : Len(old) + i \in DOMAIN more /\ more[Len(old) + i] = new[i]
        /\ \A j \in DOMAIN more : (j \in 1..Len(old) /\ more[j] = old[j]) \/ \E i \in 1..Len(new) : more[j] = new[i]
    <3>1. more = old \o new
      OBVIOUS
    <3> HIDE DEF more
    <3>2. old \in Seq(Links) /\ new \in Seq(Links)
      BY <1>3
    <3>3. more \in Seq(Links) /\ Len(more) = Len(old) + Len(new)
      BY <3>1, <3>2, Appended
    <3>4. \A i \in 1..Len(old) : i \in DOMAIN more /\ more[i] = old[i]
      BY <3>1, <3>2, Appended
    <3>5. \A i \in 1..Len(new) : Len(old) + i \in DOMAIN more /\ more[Len(old) + i] = new[i]
      BY <3>1, <3>2, Appended
    <3>6. \A j \in DOMAIN more : (j \in 1..Len(old) /\ more[j] = old[j]) \/ \E i \in 1..Len(new) : more[j] = new[i]
      BY <3>1, <3>2, Appended
    <3> QED BY <3>3, <3>4, <3>5, <3>6
  <2> HIDE DEF more
  <2> QED BY <2>1, <2>2
<1> HIDE DEF more
<1>5. ASSUME NEW k \in Keys
      PROVE  OwnersIn(more, k) = OwnersIn(old, k) \cup IF k = key THEN {list[i].owner : i \in DOMAIN list} ELSE {}
  <2>1. OwnersIn(old, k) \subseteq OwnersIn(more, k)
    BY <1>4 DEF OwnersIn
  <2>2. ASSUME k = key, NEW i \in DOMAIN list PROVE list[i].owner \in OwnersIn(more, k)
    <3>1. /\ Len(old) + i \in DOMAIN more /\ more[Len(old) + i].key = k
          /\ more[Len(old) + i].owner = list[i].owner
      BY <1>1, <1>2, <1>4, <2>2
    <3> QED BY <3>1 DEF OwnersIn
  <2>3. ASSUME NEW o \in OwnersIn(more, k)
        PROVE  o \in OwnersIn(old, k) \/ (k = key /\ \E i \in DOMAIN list : o = list[i].owner)
    <3>1. PICK j \in DOMAIN more : more[j].key = k /\ o = more[j].owner
      BY <2>3 DEF OwnersIn
    <3>2. CASE j \in 1..Len(old) /\ more[j] = old[j]
      BY <3>1, <3>2 DEF OwnersIn
    <3>3. CASE \E i \in 1..Len(list) : more[j] = new[i]
      BY <1>1, <1>2, <3>1, <3>3
    <3> QED BY <1>4, <3>2, <3>3
  <2> QED BY <2>1, <2>2, <2>3
<1> QED BY <1>1, <1>4, <1>5 DEF more, new

(* The rows of a key are linked, as many as the limit leaves room for.     *)
StatusOf(complete) ==
    IF ~complete /\ Selected = <<>> THEN "not_processed" ELSE IF Selected = <<>> THEN "no_links"
    ELSE IF complete THEN "linked" ELSE "linked_in_part"

LEMMA LookUpLinks ==
    ASSUME LinkConstants, IInv, step = "lookup", UNCHANGED <<Stores, before, evidence, fresh, held>>,
           Wanted, Valid, NextKey,
           links' = links \o LinksOf(Selected, Key),
           NEW complete \in BOOLEAN, complete <=> Len(Rows) <= Remaining,
           outcomes' = [outcomes EXCEPT ![Key] = StatusOf(complete)],
           stop' = IF complete THEN stop ELSE "result_limit"
    PROVE  IInv'
<1> USE DEF IInv, Stores
<1> DEFINE status == StatusOf(complete)
<1>0. /\ Len(request.keys) \in Nat /\ at \in 1..Len(request.keys) /\ Key \in Keys
      /\ step' \in {"lookup", "metadata_again"} /\ at' \in 1..Len(request.keys)
  BY NextKeyIs
<1>1. /\ Selected \in Seq(OwnersOf(Key)) /\ Len(Selected) <= Remaining /\ Remaining \in Nat
      /\ complete => \A o \in OwnersOf(Key) : \E i \in DOMAIN Selected : Selected[i] = o
      /\ ~complete => Len(Selected) = Remaining
  BY RowsAre
<1>2. status \in {"not_processed", "no_links", "linked", "linked_in_part"}
      /\ (complete <=> status \in {"no_links", "linked"})
      /\ (status = "no_links" => Selected = <<>>)
  BY DEF StatusOf
<1> HIDE DEF status
<1>3. outcomes' = [outcomes EXCEPT ![Key] = status]
  BY DEF status
<1>4. outcomes'[Key] = status /\ \A k \in Keys : k # Key => outcomes'[k] = outcomes[k]
  BY <1>0, <1>3 DEF TypeInv
<1>5. /\ links' \in Seq(Links) /\ Len(links') = Len(links) + Len(Selected)
      /\ Len(links) \in Nat /\ Len(Selected) \in Nat
      /\ \A k \in Keys : LinkedTo(k)' = LinkedTo(k) \cup
                            IF k = Key THEN {Selected[i].owner : i \in DOMAIN Selected} ELSE {}
  <2>1. \A i \in DOMAIN Selected : Selected[i].owner \in Owners
    BY <1>0, <1>1, OwnersFinite DEF Records
  <2>2. links \in Seq(Links)
    BY DEF TypeInv
  <2>3. \A k \in Keys : LinkedTo(k) = OwnersIn(links, k) /\ LinkedTo(k)' = OwnersIn(links', k)
    BY DEF LinkedTo, OwnersIn
  <2> DEFINE more == links \o LinksOf(Selected, Key)
  <2>4. /\ more \in Seq(Links) /\ Len(more) = Len(links) + Len(Selected)
        /\ Len(links) \in Nat /\ Len(Selected) \in Nat
        /\ \A k \in Keys : OwnersIn(more, k) = OwnersIn(links, k) \cup
                              IF k = Key THEN {Selected[i].owner : i \in DOMAIN Selected} ELSE {}
    BY <1>0, <1>1, <2>1, <2>2, LinkedMore
  <2>5. links' = more
    OBVIOUS
  <2> HIDE DEF more
  <2> QED BY <2>3, <2>4, <2>5
<1>6. TypeInv'
  BY <1>0, <1>2, <1>3, <1>5 DEF TypeInv, Steps, Statuses
<1>7. StoresInv' /\ FailedInv'
  BY <1>0 DEF StoresInv, FailedInv
<1>8. Answering /\ Answering' /\ ChunksCount' = ChunksCount /\ GraphCounts' = GraphCounts
  BY <1>0 DEF Answering, ChunksCount, GraphCounts, LimitInv
<1>9. EvidenceInv' /\ FreshInv'
  BY <1>0, <1>8 DEF EvidenceInv, Resolved, FreshInv, FreshVaults, Early
<1>10. LimitInv'
  <2>1. Len(links') <= request.limit /\ (~complete => Len(links') = request.limit)
    <3>1. request.limit \in Nat /\ Remaining = request.limit - Len(links)
      BY KeyIsOne DEF Remaining
    <3>2. /\ Len(links)' = Len(links) + Len(Selected) /\ Len(links) \in Nat /\ Len(Selected) \in Nat
          /\ Len(Selected) <= Remaining /\ Remaining \in Nat
      BY <1>1, <1>5
    <3>3. Len(links') <= request.limit
      BY <3>1, <3>2
    <3>4. ASSUME ~complete PROVE Len(links') = request.limit
      <4>1. Len(Selected) = Remaining
        BY <1>1, <3>4
      <4> QED BY <3>1, <3>2, <4>1
    <3> QED BY <3>3, <3>4
  <2>2. stop # "result_limit" /\ stop # "revision_changed"
    BY <1>8 DEF Wanted, Answering
  <2>3. \A k \in Keys : outcomes'[k] \in {"not_processed", "linked_in_part"} => stop' = "result_limit"
    BY <1>2, <1>4, <1>8, <2>2 DEF LimitInv
  <2>4. \A k \in Keys : outcomes'[k] = "missing_evidence" => evidence'[k] = Missing
    BY <1>2, <1>4, <1>8 DEF LimitInv
  <2> QED BY <1>2, <2>1, <2>2, <2>3, <2>4 DEF LimitInv
<1>11. OutcomeInv'
  <2> SUFFICES ASSUME ChunksCount, GraphCounts, NEW k \in Keys PROVE Told(k)'
    BY <1>0, <1>8 DEF OutcomeInv, Early
  <2>1. Told(k)
    BY <1>8 DEF OutcomeInv
  <2>2. LinksThen(k)' = LinksThen(k)
    BY DEF LinksThen
  <2>3. CASE k # Key
    <3>1. LinkedTo(k)' = LinkedTo(k) /\ outcomes'[k] = outcomes[k]
      BY <1>4, <1>5, <2>3
    <3> QED BY <2>1, <2>2, <3>1 DEF Told, FreshVaults
  <2>4. CASE k = Key
    <3>1. LinksThen(k) = {o.owner : o \in OwnersOf(Key)}
      <4>1. held.chunks[Key] # Missing /\ held.owners = owners
        BY AtLookUp DEF Wanted
      <4> QED BY <2>4, <4>1 DEF LinksThen, OwnersOf
    <3>2. LinkedTo(k)' = LinkedTo(k) \cup {Selected[i].owner : i \in DOMAIN Selected}
      BY <1>5, <2>4
    <3>3. LinkedTo(k)' \subseteq LinksThen(k)
      BY <1>1, <2>1, <3>1, <3>2 DEF Told
    <3>4. complete => LinkedTo(k)' = LinksThen(k)
      BY <1>1, <3>1, <3>2, <3>3
    <3>5. status = "no_links" => LinksThen(k) = {}
      BY <1>1, <1>2, <3>1
    <3>6. outcomes'[k] = status
      BY <1>4, <2>4
    <3> QED BY <1>2, <2>2, <3>3, <3>4, <3>5, <3>6 DEF Told
  <2> QED BY <2>3, <2>4
<1> QED BY <1>6, <1>7, <1>9, <1>10, <1>11

LEMMA LookUpStep ==
    ASSUME LinkConstants, IInv, LookUp PROVE IInv'
<1>1. step = "lookup" /\ UNCHANGED <<Stores, before, evidence, fresh, held>>
  BY DEF LookUp
<1>2. CASE stop = "result_limit" /\ Skip("not_processed") /\ UNCHANGED stop
  BY <1>1, <1>2, SkipStep
<1>3. CASE stop # "result_limit" /\ evidence[Key] = Missing /\ Skip("missing_evidence") /\ UNCHANGED stop
  BY <1>1, <1>3, SkipStep
<1>4. CASE Wanted /\ ~(Relevant \subseteq fresh) /\ Skip("not_ready") /\ stop' = "not_ready"
  BY <1>1, <1>4, SkipStep DEF Wanted
<1>5. CASE /\ Wanted /\ Relevant \subseteq fresh /\ ~Valid
           /\ step' = "failed" /\ UNCHANGED <<at, links, outcomes, stop>>
  BY <1>1, <1>5, LookUpFails
<1>6. CASE LET complete == Len(Rows) <= Remaining IN
           /\ Wanted /\ Relevant \subseteq fresh /\ Valid
           /\ links' = links \o LinksOf(Selected, Key)
           /\ outcomes' = [outcomes EXCEPT ![Key] = StatusOf(complete)]
           /\ stop' = IF complete THEN stop ELSE "result_limit"
           /\ NextKey
  <2>1. PICK complete \in BOOLEAN : complete <=> Len(Rows) <= Remaining
    OBVIOUS
  <2>2. StatusOf(complete) = StatusOf(Len(Rows) <= Remaining)
    BY <2>1 DEF StatusOf
  <2>3. stop' = IF complete THEN stop ELSE "result_limit"
    BY <1>6, <2>1
  <2> QED BY <1>1, <1>6, <2>1, <2>2, <2>3, LookUpLinks
<1> QED
  BY <1>1, <1>2, <1>3, <1>4, <1>5, <1>6 DEF LookUp, Remaining, Selected, LinksOf, StatusOf

(* Nothing is claimed of an answer that was withdrawn.                     *)
LEMMA WithdrawStep ==
    ASSUME LinkConstants, IInv, step \in {"metadata_again", "graph_again", "evidence_again"},
           Withdraw, at' = at, UNCHANGED <<Stores, before, evidence, fresh, held>>
    PROVE  IInv'
<1> USE DEF IInv, Withdraw, Stores
<1>1. TypeInv'
  BY DEF TypeInv, Steps, Statuses
<1>2. StoresInv' /\ FailedInv'
  BY DEF StoresInv, FailedInv
<1>3. EvidenceInv' /\ FreshInv' /\ OutcomeInv'
  BY DEF EvidenceInv, FreshInv, OutcomeInv, Answering, Early
<1>4. LimitInv'
  BY KeyIsOne DEF LimitInv, Answering
<1> QED BY <1>1, <1>2, <1>3, <1>4

LEMMA ToldStays ==
    ASSUME UNCHANGED <<request, held, links, outcomes>>, NEW k \in Keys, Told(k) PROVE Told(k)'
<1>1. LinkedTo(k)' = LinkedTo(k) /\ LinksThen(k)' = LinksThen(k)
  BY DEF LinkedTo, LinksThen
<1>2. FreshVaults(held.chunks, held.owners)' = FreshVaults(held.chunks, held.owners)
  BY DEF FreshVaults
<1> QED BY <1>1, <1>2 DEF Told

(* A revision that is as it was read first confirms what was read.         *)
LEMMA ConfirmStep ==
    ASSUME LinkConstants, IInv, UNCHANGED <<Stores, before, evidence, fresh, held, links, outcomes, stop>>,
           at' \in 1..Len(request.keys),
           \/ step = "metadata_again" /\ step' = "graph_again" /\ revision.metadata = before.metadata
           \/ step = "graph_again" /\ step' = "evidence_again" /\ revision.graph = before.graph
           \/ step = "evidence_again" /\ step' \in {"evidence_again", "done"}
    PROVE  IInv'
<1> USE DEF IInv, Stores
<1>1. TypeInv'
  BY DEF TypeInv, Steps
<1>2. StoresInv' /\ FailedInv'
  BY DEF StoresInv, FailedInv
<1>3. Answering' = Answering /\ (ChunksCount' => ChunksCount) /\ (GraphCounts' => GraphCounts)
  BY DEF Answering, ChunksCount, GraphCounts
<1>4. EvidenceInv' /\ FreshInv'
  BY <1>3 DEF EvidenceInv, Resolved, FreshInv, FreshVaults, Early
<1>5. OutcomeInv'
  BY <1>3, ToldStays DEF OutcomeInv, Early
<1>6. LimitInv'
  BY <1>3 DEF LimitInv
<1> QED BY <1>1, <1>2, <1>4, <1>5, <1>6

LEMMA ReadAgainStep ==
    ASSUME LinkConstants, IInv, ReadMetadataAgain \/ ReadGraphAgain \/ ResolveAgain PROVE IInv'
<1>0. Len(request.keys) \in Nat /\ at \in 1..Len(request.keys)
  BY KeyIsOne DEF IInv
<1>1. CASE ReadMetadataAgain
  BY <1>0, <1>1, WithdrawStep, ConfirmStep DEF ReadMetadataAgain
<1>2. CASE ReadGraphAgain
  BY <1>0, <1>2, WithdrawStep, ConfirmStep DEF ReadGraphAgain
<1>3. CASE ResolveAgain
  <2>1. CASE chunks[Key] # evidence[Key]
    BY <1>3, <2>1, WithdrawStep DEF ResolveAgain
  <2>2. CASE chunks[Key] = evidence[Key]
    <3>1. at' \in 1..Len(request.keys) /\ step = "evidence_again" /\ step' \in {"evidence_again", "done"}
      BY <1>0, <1>3, <2>2 DEF ResolveAgain, AtLast
    <3> QED BY <1>3, <2>2, <3>1, ConfirmStep DEF ResolveAgain
  <2> QED BY <2>1, <2>2
<1> QED BY <1>1, <1>2, <1>3

(* What an index run changes no longer counts.                             *)
LEMMA ChangeStep ==
    ASSUME LinkConstants, IInv, step \notin {"done", "failed"},
           UNCHANGED <<request, step, before, evidence, fresh, at, links, outcomes, stop, held>>,
           chunks' \in [Keys -> Contents], owners' \in Graphs,
           \/ revision' = [revision EXCEPT !.metadata = @ + 1] /\ owners' = owners
           \/ revision' = [revision EXCEPT !.graph = @ + 1] /\ chunks' = chunks
    PROVE  IInv'
<1> USE DEF IInv
<1>1. TypeInv'
  BY DEF TypeInv, Revisions
<1>2. /\ \/ revision'.metadata = revision.metadata + 1 /\ revision'.graph = revision.graph /\ owners' = owners
         \/ revision'.graph = revision.graph + 1 /\ revision'.metadata = revision.metadata /\ chunks' = chunks
      /\ revision.metadata \in Nat /\ revision.graph \in Nat /\ before.metadata \in Nat /\ before.graph \in Nat
  BY DEF TypeInv, Revisions
<1>3. StoresInv'
  BY <1>2 DEF StoresInv
<1>4. Answering' = Answering /\ (ChunksCount' => ChunksCount) /\ (GraphCounts' => GraphCounts)
  BY <1>2 DEF Answering, ChunksCount, GraphCounts, StoresInv
<1>5. EvidenceInv' /\ FreshInv'
  BY <1>4 DEF EvidenceInv, Resolved, FreshInv, FreshVaults, Early
<1>6. OutcomeInv'
  BY <1>4, ToldStays DEF OutcomeInv, Early
<1>7. LimitInv' /\ FailedInv'
  BY <1>4 DEF LimitInv, FailedInv
<1> QED BY <1>1, <1>3, <1>5, <1>6, <1>7

LEMMA ChangeChunkStep ==
    ASSUME LinkConstants, IInv, NEW k \in Keys, ChangeChunk(k) PROVE IInv'
<1>1. chunks' \in [Keys -> Contents] /\ owners' \in Graphs
  BY DEF ChangeChunk, IInv, TypeInv, Contents
<1> QED BY <1>1, ChangeStep DEF ChangeChunk, Running

LEMMA ChangeGraphStep ==
    ASSUME LinkConstants, IInv, NEW k \in Keys, ChangeGraph(k) PROVE IInv'
<1>1. chunks \in [Keys -> Contents] /\ owners \in Graphs
  BY DEF IInv, TypeInv
<1>2. PICK of \in SUBSET Owners : owners' = [owners EXCEPT ![k] = {[owner |-> o, hash |-> chunks[k]] : o \in of}]
  BY DEF ChangeGraph, Owners
<1>3. chunks[k] \in Hashes
  BY <1>1 DEF ChangeGraph, Contents
<1> DEFINE new == {[owner |-> o, hash |-> chunks[k]] : o \in of}
<1>4. new \subseteq Records /\ OneEach(new)
  BY <1>3 DEF Records, OneEach
<1> HIDE DEF new
<1>5. owners' \in Graphs
  BY <1>1, <1>2, <1>4 DEF Graphs, new
<1> QED BY <1>1, <1>5, ChangeStep DEF ChangeGraph, Running

LEMMA NextInv == ASSUME LinkConstants, IInv, [LinksNext]_linkVars PROVE IInv'
<1>1. CASE UNCHANGED linkVars
  <2> USE <1>1 DEF linkVars, IInv
  <2>1. TypeInv' /\ StoresInv' /\ FailedInv' /\ LimitInv' /\ Answering' = Answering
    BY DEF TypeInv, StoresInv, FailedInv, LimitInv, Answering
  <2>2. ChunksCount' = ChunksCount /\ GraphCounts' = GraphCounts
    BY DEF ChunksCount, GraphCounts
  <2>3. EvidenceInv' /\ FreshInv'
    BY <2>1, <2>2 DEF EvidenceInv, Resolved, FreshInv, FreshVaults
  <2>4. OutcomeInv'
    BY <2>1, <2>2, ToldStays DEF OutcomeInv
  <2> QED BY <2>1, <2>3, <2>4
<1>2. CASE LinksNext
  BY <1>2, ReadMetadataRevisionStep, ReadGraphRevisionStep, ResolveEvidenceStep, CheckReadinessStep, LookUpStep,
     ReadAgainStep, ChangeChunkStep, ChangeGraphStep DEF LinksNext
<1> QED BY <1>1, <1>2

----------------------------------------------------------------------------
LEMMA InvIsEnough == ASSUME LinkConstants, IInv PROVE LinksAreOfOneRevision
<1>1. ASSUME step = "done", stop # "revision_changed", NEW k \in ToSet(request.keys)
      PROVE  /\ outcomes[k] = "missing_evidence" => evidence[k] = Missing
             /\ evidence[k] = held.chunks[k]
             /\ Told(k)
             /\ outcomes[k] \in {"not_processed", "linked_in_part"} => Len(links) = request.limit
  <2>1. PICK i \in 1..Len(request.keys) : k = request.keys[i]
    BY KeyIsOne DEF IInv, ToSet
  <2>2. k \in Keys
    BY KeyIsOne, <2>1 DEF IInv
  <2>3. Answering /\ ChunksCount /\ GraphCounts
    BY <1>1 DEF Answering, ChunksCount, GraphCounts
  <2>4. evidence[k] = held.chunks[k]
    BY <1>1, <2>1, <2>3 DEF IInv, EvidenceInv, Resolved
  <2> QED BY <2>2, <2>3, <2>4 DEF IInv, OutcomeInv, LimitInv
<1> QED BY <1>1 DEF LinksAreOfOneRevision, Told, IInv, FailedInv

(* What is answered is what both stores held at one moment: no key is said *)
(* to have no links, or all its links, unless it had them then; what the   *)
(* limit leaves out is said; and the lookup fails only when a store was    *)
(* changed meanwhile.                                                      *)
THEOREM LinksOfOneRevision == LinksSpec => []LinksAreOfOneRevision
<1>1. LinksInit => IInv
  BY InitInv, LinkAssumption
<1>2. IInv /\ [LinksNext]_linkVars => IInv'
  BY NextInv, LinkAssumption
<1>3. IInv => LinksAreOfOneRevision
  BY InvIsEnough, LinkAssumption
<1> QED BY <1>1, <1>2, <1>3, PTL DEF LinksSpec


----------------------------------------------------------------------------
(* Curation: the parts of a bundle.                                        *)

(* A bundle's list: each of its candidates, and no thing twice.            *)
Lists(s, T) ==
    /\ s \in Seq(T) /\ ToSet(s) = T
    /\ \A i, j \in 1..Len(s) : Did(s[i]) = Did(s[j]) => i = j

LEMMA ListsOf ==
    ASSUME NEW S, NEW key, NEW g, IsFiniteSet(S), KeysDiffer(S, key),
           \A x, y \in S : Did(g[x]) = Did(g[y]) => x = y
    PROVE  Lists([i \in DOMAIN SortedBy(S, Table(key)) |-> g[SortedBy(S, Table(key))[i]]], {g[x] : x \in S})
<1> DEFINE s == InOrder(S, key)
           T == {g[x] : x \in S}
           t == [i \in DOMAIN s |-> g[s[i]]]
<1>1. /\ s \in Seq(S) /\ \A x \in S : \E i \in 1..Len(s) : s[i] = x
      /\ \A i, j \in 1..Len(s) : s[i] = s[j] => i = j
  BY SortedOnce, OrderedOnce
<1>2. SortedBy(S, Table(key)) = s
  BY SortedByIs
<1> HIDE DEF s
<1>3. DOMAIN s = 1..Len(s) /\ Len(s) \in Nat /\ \A i \in 1..Len(s) : s[i] \in S
  BY <1>1
<1>4. t \in [1..Len(s) -> T]
  BY <1>3
<1>5. t \in Seq(T) /\ Len(t) = Len(s)
  BY <1>3, <1>4
<1>6. ToSet(t) = T
  BY <1>1, <1>3, <1>5 DEF ToSet
<1>7. \A i, j \in 1..Len(t) : Did(t[i]) = Did(t[j]) => i = j
  BY <1>1, <1>3, <1>5
<1>8. Lists(t, T)
  BY <1>5, <1>6, <1>7 DEF Lists
<1> QED BY <1>2, <1>8

(* Lists with nothing in common.                                           *)
LEMMA ListsJoined ==
    ASSUME NEW S, NEW T, NEW s, NEW t, Lists(s, S), Lists(t, T), \A x \in S, y \in T : Did(x) # Did(y)
    PROVE  Lists(s \o t, S \cup T)
<1>1. /\ s \in Seq(S) /\ t \in Seq(T) /\ ToSet(s) = S /\ ToSet(t) = T
      /\ \A i, j \in 1..Len(s) : Did(s[i]) = Did(s[j]) => i = j
      /\ \A i, j \in 1..Len(t) : Did(t[i]) = Did(t[j]) => i = j
  BY DEF Lists
<1>2. PICK u : u = s \o t
  OBVIOUS
<1>3. PICK m, n : m = Len(s) /\ n = Len(t)
  OBVIOUS
<1>4. m \in Nat /\ n \in Nat /\ DOMAIN s = 1..m /\ DOMAIN t = 1..n
  BY <1>1, <1>3
<1>5. /\ u \in Seq(S \cup T) /\ Len(u) = m + n
      /\ \A i \in 1..m : u[i] = s[i] /\ s[i] \in S
      /\ \A i \in m + 1..m + n : u[i] = t[i - m] /\ t[i - m] \in T
  BY <1>1, <1>2, <1>3
<1>6. ToSet(u) = S \cup T
  <2>1. \A i \in 1..m + n : u[i] \in S \cup T
    BY <1>5, <1>4
  <2>2. ASSUME NEW x \in S \cup T PROVE \E i \in 1..m + n : u[i] = x
    <3>1. CASE x \in S
      <4>1. PICK i \in 1..m : s[i] = x
        BY <1>1, <1>4, <3>1 DEF ToSet
      <4> QED BY <1>4, <1>5, <4>1
    <3>2. CASE x \in T
      <4>1. PICK i \in 1..n : t[i] = x
        BY <1>1, <1>4, <3>2 DEF ToSet
      <4>2. i + m \in m + 1..m + n /\ (i + m) - m = i
        BY <1>4, <4>1
      <4>3. u[i + m] = x
        BY <1>5, <4>1, <4>2
      <4>4. i + m \in 1..m + n
        BY <1>4, <4>2
      <4> QED BY <4>3, <4>4
    <3> QED BY <3>1, <3>2
  <2>3. DOMAIN u = 1..m + n
    BY <1>5
  <2> QED BY <2>1, <2>2, <2>3 DEF ToSet
<1>7. ASSUME NEW i \in 1..m + n, NEW j \in 1..m + n, Did(u[i]) = Did(u[j]) PROVE i = j
  <2>1. CASE i <= m /\ j <= m
    BY <1>1, <1>3, <1>4, <1>5, <1>7, <2>1
  <2>2. CASE i > m /\ j > m
    <3>1. i - m \in 1..n /\ j - m \in 1..n /\ u[i] = t[i - m] /\ u[j] = t[j - m]
      BY <1>4, <1>5, <2>2
    <3>2. i - m = j - m
      BY <1>1, <1>3, <1>7, <3>1
    <3> QED BY <1>4, <3>2
  <2>3. CASE i <= m /\ j > m
    <3>1. u[i] \in S /\ u[j] \in T
      BY <1>4, <1>5, <2>3
    <3> QED BY <1>7, <3>1
  <2>4. CASE i > m /\ j <= m
    <3>1. u[j] \in S /\ u[i] \in T
      BY <1>4, <1>5, <2>4
    <3> QED BY <1>7, <3>1
  <2> QED BY <1>4, <2>1, <2>2, <2>3, <2>4
<1>8. Lists(u, S \cup T)
  BY <1>5, <1>6, <1>7 DEF Lists
<1> QED BY <1>2, <1>8

LEMMA SortedIn ==
    ASSUME NEW S, NEW key, IsFiniteSet(S), KeysDiffer(S, key)
    PROVE  \A i \in DOMAIN SortedBy(S, Table(key)) : SortedBy(S, Table(key))[i] \in S
BY SortedByIs, SortedOnce

----------------------------------------------------------------------------
(* The invariant.                                                          *)

BundleTypeInv ==
    /\ setting \in Settings /\ today \in Nat
    /\ DOMAIN notes \subseteq setting.noteNames
    /\ wiki.exchanges \subseteq setting.exchanges /\ index.exchanges \subseteq wiki.exchanges
    /\ DOMAIN wiki.pages = DOMAIN setting.pages /\ DOMAIN index.pages = DOMAIN setting.pages
    /\ DOMAIN wiki = {"kept", "exchanges", "pages", "cites"}
    /\ DOMAIN logs = {"reviewed", "usage"} /\ DOMAIN truth = {"did", "usage", "lost"}

(* What an agent holds fits what there is.                                 *)
Fits(c) ==
    IF c.kind = "session_exchange"
    THEN c.about \in wiki.exchanges /\ c.about.text # 0 /\ c.key = c.about.key
    ELSE c.key[1] \notin {"session", "exchange"}
BundleInv == \A c \in ToSet(bundle) : Fits(c)

(* Nothing is recorded, kept or cited that was not dealt with.             *)
Tagged(keys, tag) == {k \in keys : k[1] = tag}
Settled(e) == e.key \in logs.reviewed \/ IsCited(e)
ReviewedInv ==
    \A k \in logs.reviewed : IF k[1] = "session" THEN \E e \in wiki.exchanges : e.key = k ELSE k \in truth.did
CitesInv == \A c \in wiki.cites : \E e \in wiki.exchanges : c \in Evidence(e)
NotesInv == Tagged(truth.did, "l1") = {<<"l1", text>> : text \in wiki.kept} \cup Tagged(logs.reviewed, "l1")
ExchangesInv ==
    Tagged(truth.did, "exchange") =
        {<<"exchange", e.at, e.text>> : e \in {f \in wiki.exchanges : f.text # 0 /\ Settled(f)}}

(* The log holds all uses from some moment on.                             *)
UsageInv ==
    /\ logs.usage \subseteq truth.usage
    /\ \A event \in truth.usage : event.at \in 0..today
    /\ \A event \in truth.usage \ truth.lost, other \in logs.usage : event \notin logs.usage => event.at <= other.at

CurationInv == BundleTypeInv /\ BundleInv /\ ReviewedInv /\ CitesInv /\ NotesInv /\ ExchangesInv /\ UsageInv

----------------------------------------------------------------------------
(* The parts of a bundle.                                                  *)

NoteSet == {Candidate(NoteKey(n), "l1_note", "none", n) : n \in NotesAsked}
LEMMA NotesListed ==
    ASSUME CurationConstants, BundleTypeInv
    PROVE  Lists(NoteCandidates, NoteSet)
<1> DEFINE S == NotesAsked
           key == [n \in S |-> <<n>>]
           g == [n \in S |-> Candidate(NoteKey(n), "l1_note", "none", n)]
           s == SortedBy(S, Table(key))
<1>1. S \subseteq DOMAIN notes /\ DOMAIN notes \subseteq Nat /\ IsFiniteSet(DOMAIN notes)
  BY FS_Subset DEF NotesAsked, BundleTypeInv, CurationConstants
<1>2. IsFiniteSet(S)
  BY <1>1, FS_Subset
<1>3. KeysDiffer(S, key)
  <2>1. \A n \in S : key[n] \in [1..1 -> Int]
    BY <1>1
  <2>2. \A m, n \in S : key[m] = key[n] => m = n
    OBVIOUS
  <2>3. 1 \in Nat
    OBVIOUS
  <2> HIDE DEF key, S
  <2> QED BY <2>1, <2>2, <2>3, TuplesDiffer
<1>4. \A m, n \in S : Did(g[m]) = Did(g[n]) => m = n
  <2> SUFFICES ASSUME NEW m \in S, NEW n \in S, Did(g[m]) = Did(g[n]) PROVE m = n
    OBVIOUS
  <2>1. Did(g[m]) = NoteKey(m) /\ Did(g[n]) = NoteKey(n)
    BY DEF Did, Candidate
  <2>2. notes[m] = notes[n]
    BY <2>1 DEF NoteKey
  <2>3. m <= n /\ n <= m /\ m \in Nat /\ n \in Nat
    BY <1>1, <2>2 DEF NotesAsked
  <2> QED BY <2>3
<1>5. NoteCandidates = [i \in DOMAIN s |-> Candidate(NoteKey(s[i]), "l1_note", "none", s[i])]
  BY DEF NoteCandidates, Sorted
<1>6. {g[n] : n \in S} = NoteSet
  BY DEF NoteSet
<1>7. \A n \in S : g[n] = Candidate(NoteKey(n), "l1_note", "none", n)
  OBVIOUS
<1> HIDE DEF S, key, g
<1>8. \A i \in DOMAIN s : s[i] \in S
  BY <1>2, <1>3, SortedIn
<1>9. NoteCandidates = [i \in DOMAIN s |-> g[s[i]]]
  BY <1>5, <1>7, <1>8
<1>10. Lists([i \in DOMAIN s |-> g[s[i]]], {g[n] : n \in S})
  BY <1>2, <1>3, <1>4, ListsOf
<1> QED BY <1>6, <1>9, <1>10

LEMMA OrderedIs ==
    ASSUME CurationConstants, BundleTypeInv
    PROVE  /\ OrderedExchanges \in Seq(index.exchanges) /\ ToSet(OrderedExchanges) = index.exchanges
           /\ \A e \in index.exchanges : \E i \in 1..Len(OrderedExchanges) : OrderedExchanges[i] = e
<1> DEFINE S == index.exchanges
           key == [e \in S |-> ExchangeOrder(e)]
<1>1. S \subseteq setting.exchanges /\ setting \in Settings
  BY DEF BundleTypeInv
<1>2. IsFiniteSet(S)
  BY <1>1, FS_Subset DEF CurationConstants
<1>3. \A e \in S : key[e] \in [1..4 -> Int]
  <2> SUFFICES ASSUME NEW e \in S PROVE key[e] \in [1..4 -> Int]
    OBVIOUS
  <2>1. e.session \in Int /\ e.at \in Int /\ e.file \in Int /\ e.first \in Int
    BY <1>1 DEF CurationConstants
  <2>2. key[e] = <<e.session, e.at, e.file, e.first>>
    BY DEF ExchangeOrder
  <2> QED BY <2>1, <2>2
<1>4. ASSUME NEW e \in S, NEW f \in S, key[e] = key[f] PROVE e = f
  <2>1. e.file = f.file /\ e.first = f.first
    BY <1>4 DEF ExchangeOrder
  <2>2. e.first \in Int /\ f.first \in Int /\ e.last \in Int /\ f.last \in Int /\ e.first <= e.last /\ f.first <= f.last
    BY <1>1 DEF CurationConstants
  <2> QED BY <1>1, <2>1, <2>2 DEF CurationConstants
<1>5. OrderedExchanges = SortedBy(S, Table(key))
  BY DEF OrderedExchanges, Sorted
<1> HIDE DEF S, key
<1>6. 4 \in Nat
  OBVIOUS
<1>7. KeysDiffer(S, key)
  BY <1>3, <1>4, <1>6, TuplesDiffer
<1>8. OrderedExchanges = InOrder(S, key)
  BY <1>2, <1>5, <1>7, SortedByIs
<1> QED BY <1>2, <1>7, <1>8, SortedOnce DEF S

ExchangeSet(o, plain) ==
    {Candidate(o[i].key, "session_exchange", Signal(o, i), o[i]) : i \in ExchangesAsked(o, plain)}

LEMMA SignalIs ==
    ASSUME NEW o, NEW i PROVE Signal(o, i) \in {"correction", "decision", "direction", "none"} /\ Rank[Signal(o, i)] \in Int
BY DEF Signal, Rank

LEMMA AskedOnce ==
    ASSUME NEW o, NEW p, NEW q, NEW i \in ExchangesAsked(o, p), NEW j \in ExchangesAsked(o, q), DOMAIN o \subseteq Int,
           o[i].at = o[j].at, o[i].text = o[j].text
    PROVE  i = j
<1>1. i \in DOMAIN o /\ j \in DOMAIN o /\ o[i].text # 0
  BY DEF ExchangesAsked
<1>2. SameExchange(o[i], o[j]) /\ SameExchange(o[j], o[i])
  BY <1>1 DEF SameExchange
<1>3. i <= j /\ j <= i
  BY <1>1, <1>2 DEF ExchangesAsked
<1> QED BY <1>1, <1>3

LEMMA ExchangesListed ==
    ASSUME CurationConstants, BundleTypeInv, NEW plain \in BOOLEAN
    PROVE  Lists(ExchangeCandidates(OrderedExchanges, plain), ExchangeSet(OrderedExchanges, plain))
<1>0. PICK o : o = OrderedExchanges
  OBVIOUS
<1> DEFINE S == ExchangesAsked(o, plain)
           key == [i \in S |-> <<Rank[Signal(o, i)], 0 - o[i].at, i>>]
           g == [i \in S |-> Candidate(o[i].key, "session_exchange", Signal(o, i), o[i])]
           s == SortedBy(S, Table(key))
<1>1. Len(o) \in Nat /\ DOMAIN o = 1..Len(o) /\ \A i \in DOMAIN o : o[i] \in setting.exchanges
  BY <1>0, OrderedIs DEF BundleTypeInv
<1>2. S \subseteq DOMAIN o
  BY DEF ExchangesAsked
<1>3. IsFiniteSet(S)
  <2>1. IsFiniteSet(1..Len(o))
    BY <1>1, FS_Interval
  <2> QED BY <1>1, <1>2, <2>1, FS_Subset
<1>4. \A i \in S : key[i] \in [1..3 -> Int]
  <2> SUFFICES ASSUME NEW i \in S PROVE key[i] \in [1..3 -> Int]
    OBVIOUS
  <2>1. o[i].at \in Int
    BY <1>1, <1>2 DEF CurationConstants, BundleTypeInv
  <2>2. Rank[Signal(o, i)] \in Int /\ 0 - o[i].at \in Int /\ i \in Int
    BY <1>1, <1>2, <2>1, SignalIs
  <2>3. key[i] = <<Rank[Signal(o, i)], 0 - o[i].at, i>>
    OBVIOUS
  <2> HIDE DEF key, S
  <2> QED BY <2>2, <2>3
<1>5. \A i, j \in S : key[i] = key[j] => i = j
  OBVIOUS
<1>6. \A i, j \in S : Did(g[i]) = Did(g[j]) => i = j
  <2> SUFFICES ASSUME NEW i \in S, NEW j \in S, Did(g[i]) = Did(g[j]) PROVE i = j
    OBVIOUS
  <2>1. Did(g[i]) = <<"exchange", o[i].at, o[i].text>> /\ Did(g[j]) = <<"exchange", o[j].at, o[j].text>>
    BY DEF Did, Candidate
  <2>2. o[i].at = o[j].at /\ o[i].text = o[j].text
    BY <2>1
  <2> QED BY <1>1, <2>2, AskedOnce
<1>7. ExchangeCandidates(o, plain) = [k \in DOMAIN s |-> Candidate(o[s[k]].key, "session_exchange", Signal(o, s[k]), o[s[k]])]
  BY DEF ExchangeCandidates, Sorted
<1>8. {g[i] : i \in S} = ExchangeSet(o, plain)
  BY DEF ExchangeSet
<1>9. \A i \in S : g[i] = Candidate(o[i].key, "session_exchange", Signal(o, i), o[i])
  OBVIOUS
<1> HIDE DEF S, key, g
<1>10. 3 \in Nat
  OBVIOUS
<1>11. KeysDiffer(S, key)
  BY <1>4, <1>5, <1>10, TuplesDiffer
<1>12. \A k \in DOMAIN s : s[k] \in S
  BY <1>3, <1>11, SortedIn
<1>13. ExchangeCandidates(o, plain) = [k \in DOMAIN s |-> g[s[k]]]
  BY <1>7, <1>9, <1>12
<1>14. Lists([k \in DOMAIN s |-> g[s[k]]], {g[i] : i \in S})
  BY <1>3, <1>6, <1>11, ListsOf
<1> QED BY <1>0, <1>8, <1>13, <1>14

LEMMA PagesAre ==
    ASSUME CurationConstants, BundleTypeInv
    PROVE  CurrentPages \subseteq Int /\ IsFiniteSet(CurrentPages)
<1>1. CurrentPages \subseteq DOMAIN setting.pages /\ setting \in Settings
  BY DEF CurrentPages, BundleTypeInv
<1>2. DOMAIN setting.pages \subseteq Int /\ IsFiniteSet(DOMAIN setting.pages)
  BY <1>1 DEF CurationConstants
<1> QED BY <1>1, <1>2, FS_Subset

MergeSet == {Candidate(<<"merge", pair>>, "merge", "none", pair) : pair \in PagesAlike}
LEMMA MergesListed ==
    ASSUME CurationConstants, BundleTypeInv
    PROVE  Lists(MergeCandidates, MergeSet)
<1> DEFINE S == PagesAlike
           key == [pair \in S |-> pair]
           g == [pair \in S |-> Candidate(<<"merge", pair>>, "merge", "none", pair)]
           s == SortedBy(S, Table(key))
<1>1. S \subseteq CurrentPages \X CurrentPages
  BY DEF PagesAlike
<1>2. IsFiniteSet(CurrentPages \X CurrentPages)
  BY PagesAre, FS_Product
<1>3. IsFiniteSet(S)
  BY <1>1, <1>2, FS_Subset
<1>4. \A pair \in S : key[pair] \in [1..2 -> Int]
  <2> SUFFICES ASSUME NEW pair \in S PROVE key[pair] \in [1..2 -> Int]
    OBVIOUS
  <2>1. pair[1] \in Int /\ pair[2] \in Int /\ pair = <<pair[1], pair[2]>>
    BY <1>1, PagesAre
  <2>2. key[pair] = <<pair[1], pair[2]>>
    BY <2>1
  <2> HIDE DEF key
  <2> QED BY <2>1, <2>2
<1>5. \A p, q \in S : key[p] = key[q] => p = q
  OBVIOUS
<1>6. \A p, q \in S : Did(g[p]) = Did(g[q]) => p = q
  <2> SUFFICES ASSUME NEW p \in S, NEW q \in S, Did(g[p]) = Did(g[q]) PROVE p = q
    OBVIOUS
  <2>1. Did(g[p]) = <<"merge", p>> /\ Did(g[q]) = <<"merge", q>>
    BY DEF Did, Candidate
  <2>2. <<"merge", p>>[2] = <<"merge", q>>[2]
    BY <2>1
  <2> QED BY <2>2
<1>7. MergeCandidates = [i \in DOMAIN s |-> Candidate(<<"merge", s[i]>>, "merge", "none", s[i])]
  BY DEF MergeCandidates, Sorted
<1>8. {g[p] : p \in S} = MergeSet
  BY DEF MergeSet
<1>9. \A p \in S : g[p] = Candidate(<<"merge", p>>, "merge", "none", p)
  OBVIOUS
<1> HIDE DEF S, key, g
<1>10. 2 \in Nat
  OBVIOUS
<1>11. KeysDiffer(S, key)
  BY <1>4, <1>5, <1>10, TuplesDiffer
<1>12. \A i \in DOMAIN s : s[i] \in S
  BY <1>3, <1>11, SortedIn
<1>13. MergeCandidates = [i \in DOMAIN s |-> g[s[i]]]
  BY <1>7, <1>9, <1>12
<1>14. Lists([i \in DOMAIN s |-> g[s[i]]], {g[p] : p \in S})
  BY <1>3, <1>6, <1>11, ListsOf
<1> QED BY <1>8, <1>13, <1>14

RetireSet ==
    {Candidate(<<"retire", p>>, "retire", IF CodeGone(p) THEN "code_gone" ELSE "unused", p) : p \in PagesToRetire}
LEMMA RetirementsListed ==
    ASSUME CurationConstants, BundleTypeInv
    PROVE  Lists(RetireCandidates, RetireSet)
<1> DEFINE S == PagesToRetire
           key == [p \in S |-> <<IF CodeGone(p) THEN 0 ELSE 1, p>>]
           g == [p \in S |-> Candidate(<<"retire", p>>, "retire", IF CodeGone(p) THEN "code_gone" ELSE "unused", p)]
           s == SortedBy(S, Table(key))
<1>1. S \subseteq CurrentPages
  BY DEF PagesToRetire
<1>3. IsFiniteSet(S)
  BY <1>1, PagesAre, FS_Subset
<1>4. \A p \in S : key[p] \in [1..2 -> Int]
  BY <1>1, PagesAre
<1>5. \A p, q \in S : key[p] = key[q] => p = q
  OBVIOUS
<1>6. \A p, q \in S : Did(g[p]) = Did(g[q]) => p = q
  <2> SUFFICES ASSUME NEW p \in S, NEW q \in S, Did(g[p]) = Did(g[q]) PROVE p = q
    OBVIOUS
  <2>1. Did(g[p]) = <<"retire", p>> /\ Did(g[q]) = <<"retire", q>>
    BY DEF Did, Candidate
  <2>2. <<"retire", p>>[2] = <<"retire", q>>[2]
    BY <2>1
  <2> QED BY <2>2
<1>7. RetireCandidates =
          [i \in DOMAIN s |-> Candidate(<<"retire", s[i]>>, "retire", IF CodeGone(s[i]) THEN "code_gone" ELSE "unused", s[i])]
  BY DEF RetireCandidates, Sorted
<1>8. {g[p] : p \in S} = RetireSet
  BY DEF RetireSet
<1>9. \A p \in S : g[p] = Candidate(<<"retire", p>>, "retire", IF CodeGone(p) THEN "code_gone" ELSE "unused", p)
  OBVIOUS
<1> HIDE DEF S, key, g
<1>10. 2 \in Nat
  OBVIOUS
<1>11. KeysDiffer(S, key)
  BY <1>4, <1>5, <1>10, TuplesDiffer
<1>12. \A i \in DOMAIN s : s[i] \in S
  BY <1>3, <1>11, SortedIn
<1>13. RetireCandidates = [i \in DOMAIN s |-> g[s[i]]]
  BY <1>7, <1>9, <1>12
<1>14. Lists([i \in DOMAIN s |-> g[s[i]]], {g[p] : p \in S})
  BY <1>3, <1>6, <1>11, ListsOf
<1> QED BY <1>8, <1>13, <1>14

BriefSet ==
    IF Cardinality(NewDecisions) >= Threshold /\ NotReviewed(BriefKey)
    THEN {Candidate(BriefKey, "brief", "none", NewDecisions)} ELSE {}
LEMMA BriefListed == Lists(BriefCandidates, BriefSet)
<1>1. Lists(<<>>, {})
  BY DEF Lists, ToSet
<1>2. ASSUME NEW c PROVE Lists(<<c>>, {c})
  BY DEF Lists, ToSet
<1> QED BY <1>1, <1>2 DEF BriefCandidates, BriefSet

----------------------------------------------------------------------------
(* The bundle.                                                             *)

LEMMA ExchangesAre ==
    ASSUME NEW o, NEW plain, NEW c \in ExchangeSet(o, plain)
    PROVE  \E i \in ExchangesAsked(o, plain) :
               /\ c.kind = "session_exchange" /\ c.about = o[i] /\ c.key = o[i].key
               /\ c.signal = Signal(o, i) /\ Did(c) = <<"exchange", o[i].at, o[i].text>>
BY DEF ExchangeSet, Candidate, Did

LEMMA OthersAre ==
    /\ \A c \in NoteSet : c.kind = "l1_note" /\ c.signal = "none" /\ c.key[1] = "l1" /\ Did(c) = c.key
    /\ \A c \in MergeSet : c.kind = "merge" /\ c.signal = "none" /\ c.key[1] = "merge" /\ Did(c) = c.key
    /\ \A c \in RetireSet : c.kind = "retire" /\ c.key[1] = "retire" /\ Did(c) = c.key
    /\ \A c \in BriefSet : c.kind = "brief" /\ c.signal = "none" /\ c.key[1] = "brief" /\ Did(c) = c.key
<1>1. \A c \in NoteSet : c.kind = "l1_note" /\ c.signal = "none" /\ c.key[1] = "l1" /\ Did(c) = c.key
  BY DEF NoteSet, Candidate, Did, NoteKey
<1>2. \A c \in MergeSet : c.kind = "merge" /\ c.signal = "none" /\ c.key[1] = "merge" /\ Did(c) = c.key
  BY DEF MergeSet, Candidate, Did
<1>3. \A c \in RetireSet : c.kind = "retire" /\ c.key[1] = "retire" /\ Did(c) = c.key
  BY DEF RetireSet, Candidate, Did
<1>4. \A c \in BriefSet : c.kind = "brief" /\ c.signal = "none" /\ c.key[1] = "brief" /\ Did(c) = c.key
  BY DEF BriefSet, BriefKey, Candidate, Did
<1> QED BY <1>1, <1>2, <1>3, <1>4

BundleSet ==
    NoteSet \cup ExchangeSet(OrderedExchanges, FALSE) \cup MergeSet \cup RetireSet \cup BriefSet
        \cup ExchangeSet(OrderedExchanges, TRUE)

LEMMA BundleListed ==
    ASSUME CurationConstants, BundleTypeInv
    PROVE  Lists(BuildCandidates, BundleSet)
<1>0. PICK o : o = OrderedExchanges
  OBVIOUS
<1> DEFINE E(plain) == ExchangeSet(o, plain)
           e(plain) == ExchangeCandidates(o, plain)
<1>1. /\ Lists(NoteCandidates, NoteSet) /\ Lists(e(FALSE), E(FALSE)) /\ Lists(e(TRUE), E(TRUE))
      /\ Lists(MergeCandidates, MergeSet) /\ Lists(RetireCandidates, RetireSet) /\ Lists(BriefCandidates, BriefSet)
  BY <1>0, NotesListed, ExchangesListed, MergesListed, RetirementsListed, BriefListed
<1>2. /\ \A c \in NoteSet : Did(c)[1] = "l1"
      /\ \A c \in MergeSet : Did(c)[1] = "merge"
      /\ \A c \in RetireSet : Did(c)[1] = "retire"
      /\ \A c \in BriefSet : Did(c)[1] = "brief"
  BY OthersAre
<1>3. \A plain \in BOOLEAN : \A c \in E(plain) : Did(c)[1] = "exchange"
  BY ExchangesAre
<1>4. \A c \in E(FALSE), d \in E(TRUE) : Did(c) # Did(d)
  <2> SUFFICES ASSUME NEW c \in E(FALSE), NEW d \in E(TRUE), Did(c) = Did(d) PROVE FALSE
    OBVIOUS
  <2>1. PICK i \in ExchangesAsked(o, FALSE) : Did(c) = <<"exchange", o[i].at, o[i].text>>
    BY ExchangesAre
  <2>2. PICK j \in ExchangesAsked(o, TRUE) : Did(d) = <<"exchange", o[j].at, o[j].text>>
    BY ExchangesAre
  <2>3. o[i].at = o[j].at /\ o[i].text = o[j].text
    <3>1. Did(c)[2] = o[i].at /\ Did(c)[3] = o[i].text
      BY <2>1
    <3>2. Did(d)[2] = o[j].at /\ Did(d)[3] = o[j].text
      BY <2>2
    <3> QED BY <3>1, <3>2
  <2>4. DOMAIN o \subseteq Int
    BY <1>0, OrderedIs
  <2>5. i = j
    BY <2>3, <2>4, AskedOnce
  <2> QED BY <2>5 DEF ExchangesAsked
<1> HIDE DEF E, e
<1>5. Lists(NoteCandidates \o e(FALSE), NoteSet \cup E(FALSE))
  BY <1>1, <1>2, <1>3, ListsJoined
<1>6. \A c \in NoteSet \cup E(FALSE) : Did(c)[1] \in {"l1", "exchange"}
  BY <1>2, <1>3
<1>7. Lists(NoteCandidates \o e(FALSE) \o MergeCandidates, NoteSet \cup E(FALSE) \cup MergeSet)
  BY <1>1, <1>2, <1>5, <1>6, ListsJoined
<1>8. \A c \in NoteSet \cup E(FALSE) \cup MergeSet : Did(c)[1] \in {"l1", "exchange", "merge"}
  BY <1>2, <1>6
<1>9. Lists(NoteCandidates \o e(FALSE) \o MergeCandidates \o RetireCandidates,
            NoteSet \cup E(FALSE) \cup MergeSet \cup RetireSet)
  BY <1>1, <1>2, <1>7, <1>8, ListsJoined
<1>10. \A c \in NoteSet \cup E(FALSE) \cup MergeSet \cup RetireSet : Did(c)[1] \in {"l1", "exchange", "merge", "retire"}
  BY <1>2, <1>8
<1>11. Lists(NoteCandidates \o e(FALSE) \o MergeCandidates \o RetireCandidates \o BriefCandidates,
             NoteSet \cup E(FALSE) \cup MergeSet \cup RetireSet \cup BriefSet)
  BY <1>1, <1>2, <1>9, <1>10, ListsJoined
<1>12. \A c \in NoteSet \cup E(FALSE) \cup MergeSet \cup RetireSet \cup BriefSet, d \in E(TRUE) : Did(c) # Did(d)
  BY <1>2, <1>3, <1>4
<1>13. Lists(NoteCandidates \o e(FALSE) \o MergeCandidates \o RetireCandidates \o BriefCandidates \o e(TRUE),
             NoteSet \cup E(FALSE) \cup MergeSet \cup RetireSet \cup BriefSet \cup E(TRUE))
  BY <1>1, <1>11, <1>12, ListsJoined
<1>14. BuildCandidates =
           NoteCandidates \o e(FALSE) \o MergeCandidates \o RetireCandidates \o BriefCandidates \o e(TRUE)
  BY <1>0 DEF BuildCandidates, e
<1>15. BundleSet = NoteSet \cup E(FALSE) \cup MergeSet \cup RetireSet \cup BriefSet \cup E(TRUE)
  BY <1>0 DEF BundleSet, E
<1> QED BY <1>13, <1>14, <1>15

(* After a run the report agrees with the Vault.                           *)
LEMMA ImportedIsKept == CaughtUp => Imported = wiki.kept
<1> SUFFICES ASSUME CaughtUp PROVE Imported = wiki.kept
  OBVIOUS
<1>1. PICK ok \in BOOLEAN : index = IndexOf(Scan(ok))
  BY DEF CaughtUp
<1>2. index.report = Scan(ok)
  BY <1>1 DEF IndexOf
<1>3. CASE index.report = NoReport
  BY <1>3 DEF Imported, MarkedImported, MarkedNot
<1>4. CASE index.report # NoReport
  <2>1. index.report = [sha \in {notes[n] : n \in DOMAIN notes} |-> sha \in wiki.kept]
    BY <1>2, <1>4 DEF Scan
  <2>2. /\ MarkedImported = {sha \in DOMAIN index.report : index.report[sha]}
        /\ MarkedNot = {sha \in DOMAIN index.report : ~index.report[sha]}
    BY <1>4 DEF MarkedImported, MarkedNot
  <2>3. \A sha \in MarkedImported : sha \in wiki.kept
    BY <2>1, <2>2
  <2>4. \A sha \in MarkedNot : sha \notin wiki.kept
    BY <2>1, <2>2
  <2> QED BY <2>3, <2>4 DEF Imported
<1> QED BY <1>3, <1>4

LEMMA NotesOffered ==
    ASSUME CurationConstants, CurationInv, CaughtUp
    PROVE  Offered("l1_note", BuildCandidates) = NotesLeft
<1>1. ToSet(BuildCandidates) = BundleSet
  BY BundleListed DEF CurationInv, Lists
<1>2. {d \in BundleSet : d.kind = "l1_note"} = NoteSet
  BY OthersAre, ExchangesAre DEF BundleSet
<1>3. Offered("l1_note", BuildCandidates) = {Did(c) : c \in NoteSet}
  BY <1>1, <1>2 DEF Offered
<1>4. {Did(c) : c \in NoteSet} = {NoteKey(n) : n \in NotesAsked}
  <2> DEFINE of(n) == Candidate(NoteKey(n), "l1_note", "none", n)
  <2>1. \A n : Did(of(n)) = NoteKey(n)
    BY DEF Did, Candidate
  <2>2. NoteSet = {of(n) : n \in NotesAsked}
    BY DEF NoteSet
  <2> HIDE DEF of
  <2> QED BY <2>1, <2>2
<1>5. DOMAIN notes \subseteq Nat
  BY DEF CurationInv, BundleTypeInv, CurationConstants
<1>6. \A n \in DOMAIN notes : NoteKey(n) \in truth.did <=> notes[n] \in wiki.kept \/ NoteKey(n) \in logs.reviewed
  <2> SUFFICES ASSUME NEW n \in DOMAIN notes
               PROVE  NoteKey(n) \in truth.did <=> notes[n] \in wiki.kept \/ NoteKey(n) \in logs.reviewed
    OBVIOUS
  <2>1. NoteKey(n) = <<"l1", notes[n]>> /\ NoteKey(n)[1] = "l1" /\ NoteKey(n)[2] = notes[n]
    BY DEF NoteKey
  <2>2. NoteKey(n) \in {<<"l1", text>> : text \in wiki.kept} <=> notes[n] \in wiki.kept
    BY <2>1
  <2>3. NoteKey(n) \in truth.did <=> NoteKey(n) \in Tagged(truth.did, "l1")
    BY <2>1 DEF Tagged
  <2>4. NoteKey(n) \in logs.reviewed <=> NoteKey(n) \in Tagged(logs.reviewed, "l1")
    BY <2>1 DEF Tagged
  <2> QED BY <2>2, <2>3, <2>4 DEF CurationInv, NotesInv
<1>7. ASSUME NEW n \in NotesAsked PROVE NoteKey(n) \in NotesLeft
  BY <1>6, ImportedIsKept DEF NotesAsked, NotesLeft, NotReviewed, NoteKey
<1>8. ASSUME NEW n \in DOMAIN notes, NoteKey(n) \notin truth.did PROVE \E m \in NotesAsked : NoteKey(m) = NoteKey(n)
  <2>1. PICK m \in {k \in DOMAIN notes : notes[k] = notes[n]} : \A k \in {l \in DOMAIN notes : notes[l] = notes[n]} : m <= k
    BY <1>5, <1>8, LeastIs
  <2>2. NoteKey(m) = NoteKey(n) /\ m \in DOMAIN notes
    BY <2>1 DEF NoteKey
  <2>3. notes[m] \notin wiki.kept /\ NoteKey(m) \notin logs.reviewed
    BY <1>6, <1>8, <2>2
  <2>4. m \in NotesAsked
    BY <2>1, <2>2, <2>3, ImportedIsKept DEF NotesAsked, NotReviewed
  <2> QED BY <2>2, <2>4
<1>9. NotesLeft = {NoteKey(n) : n \in DOMAIN notes} \ truth.did
  BY DEF NotesLeft, NoteKey
<1> QED BY <1>3, <1>4, <1>7, <1>8, <1>9

LEMMA ExchangesOffered ==
    ASSUME CurationConstants, CurationInv, CaughtUp
    PROVE  Offered("session_exchange", BuildCandidates) = ExchangesLeft
<1>0. PICK o : o = OrderedExchanges
  OBVIOUS
<1> DEFINE Thing(e) == <<"exchange", e.at, e.text>>
           E == ExchangeSet(o, FALSE) \cup ExchangeSet(o, TRUE)
           A == ExchangesAsked(o, FALSE) \cup ExchangesAsked(o, TRUE)
<1>1. ToSet(BuildCandidates) = BundleSet
  BY BundleListed DEF CurationInv, Lists
<1>2. {d \in BundleSet : d.kind = "session_exchange"} = E
  BY <1>0, OthersAre, ExchangesAre DEF BundleSet
<1>3. Offered("session_exchange", BuildCandidates) = {Did(c) : c \in E}
  BY <1>1, <1>2 DEF Offered
<1>4. {Did(c) : c \in E} = {Thing(o[i]) : i \in A}
  <2> DEFINE of(i) == Candidate(o[i].key, "session_exchange", Signal(o, i), o[i])
  <2>1. \A i : Did(of(i)) = Thing(o[i])
    BY DEF Did, Candidate
  <2>2. E = {of(i) : i \in A}
    BY DEF ExchangeSet
  <2> HIDE DEF of, A, E, Thing
  <2> QED BY <2>1, <2>2
<1>5. index.exchanges = wiki.exchanges
  BY DEF CaughtUp, IndexOf
<1>6. /\ Len(o) \in Nat /\ DOMAIN o = 1..Len(o) /\ \A i \in DOMAIN o : o[i] \in wiki.exchanges
      /\ \A e \in wiki.exchanges : \E i \in DOMAIN o : o[i] = e
  BY <1>0, <1>5, OrderedIs DEF CurationInv
<1>7. \A e \in wiki.exchanges : e.text # 0 => (Thing(e) \in truth.did <=>
          \E f \in wiki.exchanges : f.at = e.at /\ f.text = e.text /\ Settled(f))
  <2> SUFFICES ASSUME NEW e \in wiki.exchanges, e.text # 0
               PROVE  Thing(e) \in truth.did <=> \E f \in wiki.exchanges : f.at = e.at /\ f.text = e.text /\ Settled(f)
    OBVIOUS
  <2>1. Thing(e)[1] = "exchange" /\ Thing(e)[2] = e.at /\ Thing(e)[3] = e.text
    OBVIOUS
  <2>2. Thing(e) \in truth.did <=> Thing(e) \in Tagged(truth.did, "exchange")
    BY <2>1 DEF Tagged
  <2>3. Thing(e) \in truth.did <=> \E f \in wiki.exchanges : f.text # 0 /\ Settled(f) /\ Thing(e) = Thing(f)
    BY <2>2 DEF CurationInv, ExchangesInv
  <2>4. \A f : Thing(e) = Thing(f) <=> e.at = f.at /\ e.text = f.text
    OBVIOUS
  <2> HIDE DEF Thing
  <2> QED BY <2>3, <2>4
<1>8. \A i, j \in DOMAIN o : o[i].text # 0 => (SameExchange(o[i], o[j]) <=> o[i].at = o[j].at /\ o[i].text = o[j].text)
  BY DEF SameExchange
<1>9. ASSUME NEW plain, NEW i \in ExchangesAsked(o, plain) PROVE Thing(o[i]) \in ExchangesLeft
  <2>1. i \in DOMAIN o /\ o[i].text # 0 /\ o[i].at >= today - MaxAge /\ o[i] \in wiki.exchanges
    BY <1>6 DEF ExchangesAsked
  <2>2. \A j \in DOMAIN o : SameExchange(o[i], o[j]) => ~Settled(o[j])
    BY DEF ExchangesAsked, Handled, Settled
  <2>3. Thing(o[i]) \notin truth.did
    <3> SUFFICES ASSUME Thing(o[i]) \in truth.did PROVE FALSE
      OBVIOUS
    <3>1. PICK f \in wiki.exchanges : f.at = o[i].at /\ f.text = o[i].text /\ Settled(f)
      BY <1>7, <2>1
    <3>2. PICK j \in DOMAIN o : o[j] = f
      BY <1>6
    <3> QED BY <1>8, <2>1, <2>2, <3>1, <3>2
  <2> QED BY <2>1, <2>3 DEF ExchangesLeft
<1>10. ASSUME NEW e \in wiki.exchanges, e.text # 0, e.at >= today - MaxAge, Thing(e) \notin truth.did
       PROVE  \E i \in A : Thing(o[i]) = Thing(e)
  <2>1. PICK k \in DOMAIN o : o[k] = e
    BY <1>6
  <2> DEFINE copies == {j \in DOMAIN o : o[j].at = e.at /\ o[j].text = e.text}
  <2>2. copies # {} /\ copies \subseteq Nat
    BY <1>6, <2>1
  <2>3. PICK i \in copies : \A j \in copies : i <= j
    BY <2>2, LeastIs
  <2>4. i \in DOMAIN o /\ o[i].at = e.at /\ o[i].text = e.text
    BY <2>3
  <2>5. \A j \in DOMAIN o : SameExchange(o[i], o[j]) <=> j \in copies
    BY <1>8, <1>10, <2>4
  <2>6. \A j \in copies : ~Settled(o[j])
    BY <1>6, <1>7, <1>10
  <2>7. PICK plain \in BOOLEAN : plain = (Signal(o, i) = "none")
    OBVIOUS
  <2> HIDE DEF copies
  <2>8. i \in ExchangesAsked(o, plain)
    <3>1. \A j \in {l \in DOMAIN o : SameExchange(o[i], o[l])} : i <= j /\ ~Settled(o[j])
      BY <2>3, <2>5, <2>6
    <3>2. ~Handled(o[i], {o[j] : j \in {l \in DOMAIN o : SameExchange(o[i], o[l])}})
      BY <3>1 DEF Handled, Settled
    <3> QED BY <1>10, <2>4, <2>7, <3>1, <3>2 DEF ExchangesAsked
  <2> QED BY <2>4, <2>7, <2>8
<1>11. ExchangesLeft = {Thing(e) : e \in {f \in wiki.exchanges : f.text # 0 /\ f.at >= today - MaxAge}} \ truth.did
  BY DEF ExchangesLeft
<1>12. \A i \in A : Thing(o[i]) \in ExchangesLeft
  BY <1>9
<1> HIDE DEF Thing, A, E
<1>13. \A thing \in ExchangesLeft : \E i \in A : Thing(o[i]) = thing
  BY <1>10, <1>11
<1> QED BY <1>3, <1>4, <1>12, <1>13

LEMMA BundleOfferedOnce ==
    ASSUME CurationConstants, CurationInv
    PROVE  OfferedOnce(BuildCandidates)
<1>1. PICK all : all = BuildCandidates
  OBVIOUS
<1>2. /\ all \in Seq(BundleSet) /\ \A i, j \in 1..Len(all) : Did(all[i]) = Did(all[j]) => i = j
  BY <1>1, BundleListed DEF CurationInv, Lists
<1>3. DOMAIN all = 1..Len(all)
  BY <1>2
<1>4. OfferedOnce(all)
  BY <1>2, <1>3 DEF OfferedOnce, IsInjective
<1> QED BY <1>1, <1>4

(* A log that reaches back over the window holds the uses in it that were  *)
(* not lost on the way.                                                    *)
LEMMA WindowIsLogged ==
    ASSUME CurationConstants, CurationInv, Covered, NEW event \in truth.usage \ truth.lost, event.at > today - Window
    PROVE  event \in Read
<1> DEFINE Later(day) == {other.at : other \in {o \in logs.usage : o.at > day}}
<1>1. PICK old \in Read : old.at <= today - Window
  BY DEF Covered
<1>2. old \in logs.usage /\ Cardinality(Later(old.at)) < Months
  BY DEF Read
<1>3. \A e \in truth.usage : e.at \in 0..today
  BY DEF CurationInv, UsageInv
<1>4. old.at \in Int /\ event.at \in Int /\ today \in Nat /\ Window \in Int /\ Months \in Int
  BY <1>2, <1>3 DEF CurationInv, BundleTypeInv, UsageInv, CurationConstants
<1>5. old.at < event.at
  BY <1>1, <1>4
<1>6. event \in logs.usage
  BY <1>2, <1>4, <1>5 DEF CurationInv, UsageInv
<1>7. \A day \in Later(old.at) : day \in 0..today
  BY <1>3 DEF CurationInv, UsageInv
<1>8. IsFiniteSet(Later(old.at))
  <2>1. IsFiniteSet(0..today)
    BY <1>4, FS_Interval
  <2>2. Later(old.at) \subseteq 0..today
    BY <1>7
  <2> HIDE DEF Later
  <2> QED BY <2>1, <2>2, FS_Subset
<1>9. Later(event.at) \subseteq Later(old.at)
  <2>1. \A o \in logs.usage : o.at \in Int
    BY <1>3 DEF CurationInv, UsageInv
  <2> QED BY <1>4, <1>5, <2>1
<1> HIDE DEF Later
<1>10. /\ Cardinality(Later(event.at)) <= Cardinality(Later(old.at))
       /\ IsFiniteSet(Later(event.at))
  BY <1>8, <1>9, FS_Subset
<1>11. Cardinality(Later(event.at)) \in Nat /\ Cardinality(Later(old.at)) \in Nat
  BY <1>8, <1>10, FS_CardinalityType
<1>12. Cardinality(Later(event.at)) < Months
  BY <1>2, <1>4, <1>10, <1>11
<1> QED BY <1>6, <1>12 DEF Read, Later

LEMMA BundleUnusedUnlessLost ==
    ASSUME CurationConstants, CurationInv
    PROVE  UnusedUnlessLost(BuildCandidates)
<1>1. ToSet(BuildCandidates) = BundleSet
  BY BundleListed DEF CurationInv, Lists
<1>2. SUFFICES ASSUME NEW c \in BundleSet, c.signal = "unused"
               PROVE  /\ InWindow(truth.usage, c.about, "injected")
                      /\ ~InWindow(truth.usage \ truth.lost, c.about, "fetched")
  BY <1>1 DEF UnusedUnlessLost
<1>3. \A o, plain : c \notin ExchangeSet(o, plain)
  <2>1. \A o, plain : \A d \in ExchangeSet(o, plain) : d.signal # "unused"
    BY ExchangesAre, SignalIs
  <2> QED BY <1>2, <2>1
<1>4. c \in RetireSet
  BY <1>2, <1>3, OthersAre DEF BundleSet
<1>5. PICK p \in PagesToRetire : c.about = p /\ c.signal = IF CodeGone(p) THEN "code_gone" ELSE "unused"
  BY <1>4 DEF RetireSet, Candidate
<1>6. Covered /\ InWindow(Read, p, "injected") /\ ~InWindow(Read, p, "fetched")
  BY <1>2, <1>5 DEF PagesToRetire, Unused
<1>7. InWindow(truth.usage, p, "injected")
  BY <1>6 DEF InWindow, Read, CurationInv, UsageInv
<1>8. ~InWindow(truth.usage \ truth.lost, p, "fetched")
  BY <1>6, WindowIsLogged DEF InWindow
<1> QED BY <1>5, <1>7, <1>8

LEMMA BriefIsOffered ==
    ASSUME CurationConstants, CurationInv
    PROVE  BriefComesBack(BuildCandidates)
<1>1. ToSet(BuildCandidates) = BundleSet
  BY BundleListed DEF CurationInv, Lists
<1>2. SUFFICES ASSUME Cardinality(NewDecisions) >= Threshold, NewDecisions \ SkippedFor # {}
               PROVE  Offered("brief", BuildCandidates) # {}
  BY DEF BriefComesBack
<1>3. BriefKey[1] = "brief" /\ BriefKey[2] = {<<p, index.pages[p].updated>> : p \in NewDecisions}
  BY DEF BriefKey
<1>4. BriefKey \notin logs.reviewed
  <2> SUFFICES ASSUME BriefKey \in logs.reviewed PROVE FALSE
    OBVIOUS
  <2>1. BriefKey \in truth.did
    BY <1>3 DEF CurationInv, ReviewedInv
  <2>2. {entry[1] : entry \in BriefKey[2]} \subseteq SkippedFor
    BY <1>3, <2>1 DEF SkippedFor
  <2>3. \A p \in NewDecisions : p \in {entry[1] : entry \in BriefKey[2]}
    <3> SUFFICES ASSUME NEW p \in NewDecisions PROVE p \in {entry[1] : entry \in BriefKey[2]}
      OBVIOUS
    <3>1. <<p, index.pages[p].updated>> \in BriefKey[2] /\ <<p, index.pages[p].updated>>[1] = p
      BY <1>3
    <3> QED BY <3>1
  <2> QED BY <1>2, <2>2, <2>3
<1> DEFINE c == Candidate(BriefKey, "brief", "none", NewDecisions)
<1>5. c \in BundleSet /\ c.kind = "brief"
  BY <1>2, <1>4 DEF BundleSet, BriefSet, NotReviewed, Candidate
<1> QED BY <1>1, <1>5 DEF Offered

LEMMA BundleHolds ==
    ASSUME CurationConstants, CurationInv
    PROVE  BundleAsksForWhatIsLeft
BY NotesOffered, ExchangesOffered, BundleOfferedOnce, BundleUnusedUnlessLost, BriefIsOffered
   DEF BundleAsksForWhatIsLeft, OffersWhatIsLeft

----------------------------------------------------------------------------
(* The invariant is kept.                                                  *)

(* A citation is of the exchange it was made for, and of no other.         *)
LEMMA EvidenceIsOfOne ==
    ASSUME CurationConstants, setting \in Settings, NEW e \in setting.exchanges, NEW f \in setting.exchanges, NEW c \in Evidence(e)
    PROVE  Cites(c, f) <=> f = e
<1>1. /\ e.first \in Nat \ {0} /\ e.last \in Int /\ e.first <= e.last
      /\ f.first \in Nat \ {0} /\ f.last \in Int /\ f.first <= f.last
  BY DEF CurationConstants
<1>2. e # f /\ e.file = f.file => (e.last < f.first \/ f.last < e.first) /\ (e.id # 0 => e.id # f.id)
  BY DEF CurationConstants
<1>3. CASE c = [file |-> e.file, first |-> e.first, last |-> e.last, id |-> 0]
  BY <1>1, <1>2, <1>3 DEF Cites
<1>4. CASE e.id # 0 /\ c = [file |-> e.file, first |-> 1, last |-> 0, id |-> e.id]
  BY <1>1, <1>2, <1>4 DEF Cites
<1> QED BY <1>3, <1>4 DEF Evidence

LEMMA KeysDifferToo ==
    ASSUME CurationConstants, BundleTypeInv, NEW e \in setting.exchanges, NEW f \in setting.exchanges
    PROVE  e.key[1] = "session" /\ (e.key = f.key => e = f)
BY DEF CurationConstants, BundleTypeInv

LEMMA TaggedWith ==
    ASSUME NEW A, NEW k, NEW tag
    PROVE  Tagged(A \cup {k}, tag) = IF k[1] = tag THEN Tagged(A, tag) \cup {k} ELSE Tagged(A, tag)
BY DEF Tagged

LEMMA InitHolds == CurationConstants /\ CurationInit => CurationInv
<1> SUFFICES ASSUME CurationConstants, CurationInit PROVE CurationInv
  OBVIOUS
<1>1. BundleTypeInv
  BY DEF CurationInit, BundleTypeInv
<1>2. BundleInv
  BY DEF CurationInit, BundleInv, ToSet
<1>3. ReviewedInv /\ CitesInv /\ UsageInv
  BY DEF CurationInit, ReviewedInv, CitesInv, UsageInv
<1>4. NotesInv /\ ExchangesInv
  BY DEF CurationInit, NotesInv, ExchangesInv, Tagged, Settled, IsCited
<1> QED BY <1>1, <1>2, <1>3, <1>4 DEF CurationInv

LEMMA ListHolds ==
    ASSUME CurationConstants, CurationInv, List
    PROVE  CurationInv'
<1>1. ASSUME NEW c \in BundleSet PROVE Fits(c)
  <2>1. CASE \E plain \in BOOLEAN : c \in ExchangeSet(OrderedExchanges, plain)
    <3>1. PICK plain \in BOOLEAN : c \in ExchangeSet(OrderedExchanges, plain)
      BY <2>1
    <3>2. PICK i \in ExchangesAsked(OrderedExchanges, plain) :
              /\ c.kind = "session_exchange" /\ c.about = OrderedExchanges[i] /\ c.key = OrderedExchanges[i].key
      BY <3>1, ExchangesAre
    <3>3. i \in DOMAIN OrderedExchanges /\ OrderedExchanges[i].text # 0
      BY DEF ExchangesAsked
    <3>4. OrderedExchanges[i] \in wiki.exchanges
      BY <3>3, OrderedIs DEF CurationInv, BundleTypeInv
    <3> QED BY <3>2, <3>3, <3>4 DEF Fits
  <2>2. CASE c \in NoteSet \cup MergeSet \cup RetireSet \cup BriefSet
    BY <2>2, OthersAre DEF Fits
  <2> QED BY <2>1, <2>2 DEF BundleSet
<1>2. ToSet(bundle') \subseteq BundleSet
  <2>1. BuildCandidates \in Seq(BundleSet) /\ ToSet(BuildCandidates) = BundleSet
    BY BundleListed DEF CurationInv, Lists
  <2>2. setting.limit \in Nat
    BY DEF CurationInv, BundleTypeInv, CurationConstants
  <2> QED BY <2>1, <2>2, TopIs DEF List
<1>3. BundleInv'
  BY <1>1, <1>2 DEF List, BundleInv, Fits
<1>4. BundleTypeInv' /\ ReviewedInv' /\ CitesInv' /\ UsageInv'
  BY DEF List, CurationInv, BundleTypeInv, ReviewedInv, CitesInv, UsageInv
<1>5. NotesInv' /\ ExchangesInv'
  BY DEF List, CurationInv, NotesInv, ExchangesInv, Settled, IsCited
<1> QED BY <1>3, <1>4, <1>5 DEF CurationInv

(* What does not touch the sessions keeps what is known of them.           *)
LEMMA SameExchanges ==
    ASSUME CurationInv, wiki'.exchanges = wiki.exchanges,
           Tagged(truth.did, "exchange")' = Tagged(truth.did, "exchange"),
           \A e \in wiki.exchanges : Settled(e)' <=> Settled(e)
    PROVE  ExchangesInv'
BY DEF CurationInv, ExchangesInv

(* An exchange that is dealt with, as one of its candidates.               *)
LEMMA ExchangeDealtWith ==
    ASSUME CurationInv, wiki'.exchanges = wiki.exchanges, NEW e \in wiki.exchanges, e.text # 0,
           truth'.did = truth.did \cup {<<"exchange", e.at, e.text>>},
           \A f \in wiki.exchanges : Settled(f)' <=> Settled(f) \/ f = e
    PROVE  ExchangesInv'
<1> DEFINE Thing(f) == <<"exchange", f.at, f.text>>
           open == {f \in wiki.exchanges : f.text # 0 /\ Settled(f)}
<1>1. Tagged(truth.did, "exchange")' = Tagged(truth.did, "exchange") \cup {Thing(e)}
  BY DEF Tagged
<1>2. {f \in wiki'.exchanges : f.text # 0 /\ Settled(f)'} = open \cup {e}
  OBVIOUS
<1>3. Tagged(truth.did, "exchange") = {Thing(f) : f \in open}
  BY DEF CurationInv, ExchangesInv
<1>4. {Thing(f) : f \in open \cup {e}} = {Thing(f) : f \in open} \cup {Thing(e)}
  <2> HIDE DEF Thing, open
  <2> QED OBVIOUS
<1>5. ExchangesInv' <=>
          Tagged(truth.did, "exchange")' = {Thing(f) : f \in {g \in wiki'.exchanges : g.text # 0 /\ Settled(g)'}}
  BY DEF ExchangesInv
<1> HIDE DEF Thing, open
<1> QED BY <1>1, <1>2, <1>3, <1>4, <1>5

LEMMA OtherDealtWith ==
    ASSUME CurationConstants, CurationInv, NEW c \in ToSet(bundle), c.kind # "session_exchange",
           logs'.reviewed = logs.reviewed \cup {c.key}, truth'.did = truth.did \cup {Did(c)},
           wiki'.kept = wiki.kept, wiki'.exchanges = wiki.exchanges, wiki'.cites = wiki.cites
    PROVE  ReviewedInv' /\ NotesInv' /\ ExchangesInv'
<1>1. Did(c) = c.key /\ c.key[1] \notin {"session", "exchange"}
  BY DEF CurationInv, BundleInv, Fits, Did
<1>2. ReviewedInv'
  BY <1>1 DEF CurationInv, ReviewedInv
<1>3. /\ Tagged(truth.did \cup {c.key}, "l1") = Tagged(truth.did, "l1") \cup Tagged({c.key}, "l1")
      /\ Tagged(logs.reviewed \cup {c.key}, "l1") = Tagged(logs.reviewed, "l1") \cup Tagged({c.key}, "l1")
  BY DEF Tagged
<1>4. NotesInv'
  BY <1>1, <1>3 DEF CurationInv, NotesInv, Tagged
<1>5. Tagged(truth.did, "exchange")' = Tagged(truth.did, "exchange")
  BY <1>1 DEF Tagged
<1>6. \A e \in wiki.exchanges : Settled(e)' <=> Settled(e)
  <2>1. \A e \in wiki.exchanges : e.key # c.key
    BY <1>1, KeysDifferToo DEF CurationInv, BundleTypeInv
  <2> QED BY <2>1 DEF Settled, IsCited
<1>7. ExchangesInv'
  BY <1>5, <1>6, SameExchanges
<1> QED BY <1>2, <1>4, <1>7

LEMMA MarkHolds ==
    ASSUME CurationConstants, CurationInv, NEW c \in ToSet(bundle), MarkReviewed(c)
    PROVE  CurationInv'
<1>1. /\ logs'.reviewed = logs.reviewed \cup {c.key} /\ logs'.usage = logs.usage /\ DOMAIN logs' = DOMAIN logs
      /\ truth'.did = truth.did \cup {Did(c)} /\ truth'.usage = truth.usage /\ truth'.lost = truth.lost /\ DOMAIN truth' = DOMAIN truth
      /\ UNCHANGED <<setting, today, notes, wiki, code, index, bundle>>
  BY DEF MarkReviewed, Recorded, CurationInv, BundleTypeInv
<1>2. Fits(c)
  BY DEF CurationInv, BundleInv
<1>3. BundleTypeInv' /\ BundleInv' /\ CitesInv' /\ UsageInv'
  BY <1>1 DEF CurationInv, BundleTypeInv, BundleInv, Fits, CitesInv, UsageInv
<1>4. ASSUME NEW e \in wiki.exchanges PROVE Settled(e)' <=> Settled(e) \/ e.key = c.key
  BY <1>1 DEF Settled, IsCited
<1>5. CASE c.kind = "session_exchange"
  <2>1. c.about \in wiki.exchanges /\ c.about.text # 0 /\ c.key = c.about.key
        /\ Did(c) = <<"exchange", c.about.at, c.about.text>>
    BY <1>2, <1>5 DEF Fits, Did
  <2>2. c.key[1] = "session" /\ \A e \in wiki.exchanges : e.key = c.key <=> e = c.about
    BY <2>1, KeysDifferToo DEF CurationInv, BundleTypeInv
  <2>3. ReviewedInv'
    BY <1>1, <2>1, <2>2 DEF CurationInv, ReviewedInv
  <2>4. Tagged(truth.did, "l1")' = Tagged(truth.did, "l1") /\ Tagged(logs.reviewed, "l1")' = Tagged(logs.reviewed, "l1")
    <3>1. Did(c)[1] = "exchange"
      BY <2>1
    <3> QED BY <1>1, <2>2, <3>1 DEF Tagged
  <2>5. NotesInv'
    BY <1>1, <2>4 DEF CurationInv, NotesInv
  <2>6. ExchangesInv'
    BY <1>1, <1>4, <2>1, <2>2, ExchangeDealtWith
  <2> QED BY <1>3, <2>3, <2>5, <2>6 DEF CurationInv
<1>6. CASE c.kind # "session_exchange"
  BY <1>1, <1>3, <1>6, OtherDealtWith DEF CurationInv
<1> QED BY <1>5, <1>6

LEMMA ImportHolds ==
    ASSUME CurationConstants, CurationInv, NEW c \in ToSet(bundle), ImportNote(c)
    PROVE  CurationInv'
<1>1. PICK ok \in BOOLEAN :
          /\ Recorded(c, ok)
          /\ truth' = [truth EXCEPT !.did = @ \cup {<<"l1", notes[c.about]>>} \cup (IF ok THEN {c.key} ELSE {})]
  BY DEF ImportNote
<1>2. PICK text, keys : text = notes[c.about] /\ keys = IF ok THEN {c.key} ELSE {}
  OBVIOUS
<1>3. /\ logs'.reviewed = logs.reviewed \cup keys /\ logs'.usage = logs.usage /\ DOMAIN logs' = DOMAIN logs
      /\ truth'.did = truth.did \cup {<<"l1", text>>} \cup keys /\ truth'.usage = truth.usage /\ truth'.lost = truth.lost /\ DOMAIN truth' = DOMAIN truth
      /\ wiki'.kept = wiki.kept \cup {text} /\ wiki'.exchanges = wiki.exchanges /\ wiki'.pages = wiki.pages
      /\ wiki'.cites = wiki.cites /\ DOMAIN wiki' = DOMAIN wiki
      /\ UNCHANGED <<setting, today, notes, code, index, bundle>>
  BY <1>1, <1>2 DEF ImportNote, Recorded, CurationInv, BundleTypeInv
<1>4. \A k \in keys : k[1] \notin {"session", "exchange"}
  BY <1>2 DEF ImportNote, CurationInv, BundleInv, Fits
<1>5. BundleTypeInv' /\ BundleInv' /\ CitesInv' /\ UsageInv'
  BY <1>3 DEF CurationInv, BundleTypeInv, BundleInv, Fits, CitesInv, UsageInv
<1>6. ReviewedInv'
  BY <1>3, <1>4 DEF CurationInv, ReviewedInv
<1>7. NotesInv'
  <2> DEFINE Note(t) == <<"l1", t>>
  <2>1. Tagged(truth.did, "l1")' = Tagged(truth.did, "l1") \cup {Note(text)} \cup Tagged(keys, "l1")
    BY <1>3 DEF Tagged
  <2>2. Tagged(logs.reviewed, "l1")' = Tagged(logs.reviewed, "l1") \cup Tagged(keys, "l1")
    BY <1>3 DEF Tagged
  <2>3. Tagged(truth.did, "l1") = {Note(t) : t \in wiki.kept} \cup Tagged(logs.reviewed, "l1")
    BY DEF CurationInv, NotesInv
  <2>4. NotesInv' <=> Tagged(truth.did, "l1")' = {Note(t) : t \in wiki'.kept} \cup Tagged(logs.reviewed, "l1")'
    BY DEF NotesInv
  <2> HIDE DEF Note
  <2>5. {Note(t) : t \in wiki'.kept} = {Note(t) : t \in wiki.kept} \cup {Note(text)}
    BY <1>3
  <2> QED BY <2>1, <2>2, <2>3, <2>4, <2>5
<1>8. ExchangesInv'
  <2>1. Tagged(truth.did, "exchange")' = Tagged(truth.did, "exchange")
    <3>1. <<"l1", text>>[1] = "l1"
      OBVIOUS
    <3> QED BY <1>3, <1>4, <3>1 DEF Tagged
  <2>2. \A e \in wiki.exchanges : e.key \notin keys
    BY <1>4, KeysDifferToo DEF CurationInv, BundleTypeInv
  <2>3. \A e \in wiki.exchanges : Settled(e)' <=> Settled(e)
    BY <1>3, <2>2 DEF Settled, IsCited
  <2> QED BY <1>3, <2>1, <2>3, SameExchanges
<1> QED BY <1>5, <1>6, <1>7, <1>8 DEF CurationInv

LEMMA RecordedIs ==
    ASSUME CurationInv, NEW c, NEW ok \in BOOLEAN, Recorded(c, ok)
    PROVE  /\ logs'.reviewed \in {logs.reviewed, logs.reviewed \cup {c.key}}
           /\ logs'.usage = logs.usage /\ DOMAIN logs' = DOMAIN logs
BY DEF Recorded, CurationInv, BundleTypeInv

LEMMA RememberHolds ==
    ASSUME CurationConstants, CurationInv, NEW c \in ToSet(bundle), RememberExchange(c)
    PROVE  CurationInv'
<1>1. PICK cited \in Evidence(c.about) : wiki' = [wiki EXCEPT !.cites = @ \cup {cited}]
  BY DEF RememberExchange
<1>2. PICK ok \in BOOLEAN : Recorded(c, ok)
  BY DEF RememberExchange
<1>3. /\ logs'.reviewed \in {logs.reviewed, logs.reviewed \cup {c.key}}
      /\ logs'.usage = logs.usage /\ DOMAIN logs' = DOMAIN logs
  BY <1>2, RecordedIs
<1>4. /\ truth'.did = truth.did \cup {Did(c)} /\ truth'.usage = truth.usage /\ truth'.lost = truth.lost /\ DOMAIN truth' = DOMAIN truth
      /\ wiki'.kept = wiki.kept /\ wiki'.exchanges = wiki.exchanges /\ wiki'.pages = wiki.pages
      /\ wiki'.cites = wiki.cites \cup {cited} /\ DOMAIN wiki' = DOMAIN wiki
      /\ c.kind = "session_exchange"
      /\ UNCHANGED <<setting, today, notes, code, index, bundle>>
  BY <1>1 DEF RememberExchange, CurationInv, BundleTypeInv
<1>5. /\ c.about \in wiki.exchanges /\ c.about.text # 0 /\ c.key = c.about.key
      /\ Did(c) = <<"exchange", c.about.at, c.about.text>>
  BY <1>4 DEF CurationInv, BundleInv, Fits, Did
<1>6. \A e \in wiki.exchanges : e \in setting.exchanges /\ e.key[1] = "session" /\ (e.key = c.key <=> e = c.about)
  BY <1>5, KeysDifferToo DEF CurationInv, BundleTypeInv
<1>7. BundleTypeInv' /\ BundleInv' /\ UsageInv'
  BY <1>3, <1>4 DEF CurationInv, BundleTypeInv, BundleInv, Fits, UsageInv
<1>8. CitesInv'
  BY <1>1, <1>4, <1>5 DEF CurationInv, CitesInv
<1>9. ReviewedInv'
  <2>1. \A k \in logs'.reviewed : k \in logs.reviewed \/ (k = c.about.key /\ k[1] = "session")
    BY <1>3, <1>5, <1>6
  <2>2. \A k \in truth.did : k \in truth'.did
    BY <1>4
  <2> QED BY <1>4, <1>5, <2>1, <2>2 DEF CurationInv, ReviewedInv
<1>10. NotesInv'
  <2>1. Did(c)[1] = "exchange" /\ c.key[1] = "session"
    BY <1>5, <1>6
  <2>2. Tagged(truth.did, "l1")' = Tagged(truth.did, "l1")
    BY <1>4, <2>1 DEF Tagged
  <2>3. Tagged(logs.reviewed, "l1")' = Tagged(logs.reviewed, "l1")
    BY <1>3, <2>1 DEF Tagged
  <2> QED BY <1>4, <2>2, <2>3 DEF CurationInv, NotesInv
<1>11. \A e \in wiki.exchanges : Settled(e)' <=> Settled(e) \/ e = c.about
  <2> SUFFICES ASSUME NEW e \in wiki.exchanges PROVE Settled(e)' <=> Settled(e) \/ e = c.about
    OBVIOUS
  <2>1. setting \in Settings /\ e \in setting.exchanges /\ c.about \in setting.exchanges
    BY <1>5, <1>6 DEF CurationInv, BundleTypeInv
  <2>2. Cites(cited, e) <=> e = c.about
    BY <1>1, <2>1, EvidenceIsOfOne
  <2>3. IsCited(e)' <=> IsCited(e) \/ e = c.about
    BY <1>4, <2>2 DEF IsCited
  <2>4. e.key \in logs'.reviewed => e.key \in logs.reviewed \/ e = c.about
    BY <1>3, <1>6
  <2>5. e.key \in logs.reviewed => e.key \in logs'.reviewed
    BY <1>3
  <2> QED BY <2>3, <2>4, <2>5 DEF Settled
<1>12. ExchangesInv'
  BY <1>4, <1>5, <1>11, ExchangeDealtWith
<1> QED BY <1>7, <1>8, <1>9, <1>10, <1>12 DEF CurationInv

LEMMA SettleHolds ==
    ASSUME CurationConstants, CurationInv, NEW c \in ToSet(bundle), Settle(c)
    PROVE  CurationInv'
<1>1. /\ logs'.reviewed = logs.reviewed \cup {c.key} /\ logs'.usage = logs.usage /\ DOMAIN logs' = DOMAIN logs
      /\ truth'.did = truth.did \cup {Did(c)} /\ truth'.usage = truth.usage /\ truth'.lost = truth.lost /\ DOMAIN truth' = DOMAIN truth
      /\ c.kind # "session_exchange"
      /\ UNCHANGED <<setting, today, notes, code, index, bundle>>
  BY DEF Settle, Recorded, CurationInv, BundleTypeInv
<1>2. /\ wiki'.kept = wiki.kept /\ wiki'.exchanges = wiki.exchanges /\ wiki'.cites = wiki.cites
      /\ DOMAIN wiki'.pages = DOMAIN wiki.pages /\ DOMAIN wiki' = DOMAIN wiki
  <2>1. CASE c.kind = "brief"
    BY <2>1 DEF Settle, CurationInv, BundleTypeInv
  <2>2. CASE c.kind # "brief"
    <3>1. PICK p : wiki' = [wiki EXCEPT !.pages[p].status = "retired"]
      BY <2>2 DEF Settle
    <3> QED BY <3>1 DEF CurationInv, BundleTypeInv
  <2> QED BY <2>1, <2>2
<1>3. BundleTypeInv' /\ BundleInv' /\ CitesInv' /\ UsageInv'
  BY <1>1, <1>2 DEF CurationInv, BundleTypeInv, BundleInv, Fits, CitesInv, UsageInv
<1> QED BY <1>1, <1>2, <1>3, OtherDealtWith DEF CurationInv

(* Actions that deal with nothing.                                         *)
LEMMA NothingDealtWith ==
    ASSUME CurationInv, logs'.reviewed = logs.reviewed, truth'.did = truth.did,
           wiki'.kept = wiki.kept, wiki'.exchanges = wiki.exchanges, wiki'.cites = wiki.cites,
           UNCHANGED bundle
    PROVE  BundleInv' /\ ReviewedInv' /\ CitesInv' /\ NotesInv' /\ ExchangesInv'
<1>1. BundleInv' /\ ReviewedInv' /\ CitesInv'
  BY DEF CurationInv, BundleInv, Fits, ReviewedInv, CitesInv
<1>2. Tagged(truth.did, "exchange")' = Tagged(truth.did, "exchange") /\ \A e \in wiki.exchanges : Settled(e)' <=> Settled(e)
  BY DEF Settled, IsCited
<1>3. NotesInv' /\ ExchangesInv'
  BY <1>2, SameExchanges DEF CurationInv, NotesInv
<1> QED BY <1>1, <1>3

LEMMA ArrivalHolds ==
    ASSUME CurationConstants, CurationInv, SessionArrives
    PROVE  CurationInv'
<1>1. PICK e \in setting.exchanges \ wiki.exchanges : wiki' = [wiki EXCEPT !.exchanges = @ \cup {e}]
  BY DEF SessionArrives
<1>2. /\ wiki'.exchanges = wiki.exchanges \cup {e} /\ wiki'.kept = wiki.kept /\ wiki'.pages = wiki.pages
      /\ wiki'.cites = wiki.cites /\ DOMAIN wiki' = DOMAIN wiki
      /\ UNCHANGED <<setting, today, notes, code, index, logs, bundle, truth>>
  BY <1>1 DEF SessionArrives, CurationInv, BundleTypeInv
<1>3. BundleTypeInv' /\ BundleInv' /\ ReviewedInv' /\ UsageInv'
  BY <1>1, <1>2 DEF CurationInv, BundleTypeInv, BundleInv, Fits, ReviewedInv, UsageInv
<1>4. CitesInv' /\ NotesInv'
  BY <1>2 DEF CurationInv, CitesInv, NotesInv
<1>5. e.key \notin logs.reviewed
  <2>1. e.key[1] = "session" /\ \A f \in wiki.exchanges : f.key # e.key
    BY <1>1, KeysDifferToo DEF CurationInv, BundleTypeInv
  <2> QED BY <2>1 DEF CurationInv, ReviewedInv
<1>6. ~IsCited(e)
  <2> SUFFICES ASSUME NEW c \in wiki.cites, Cites(c, e) PROVE FALSE
    BY DEF IsCited
  <2>1. PICK f \in wiki.exchanges : c \in Evidence(f)
    BY DEF CurationInv, CitesInv
  <2>2. setting \in Settings /\ f \in setting.exchanges /\ e \in setting.exchanges /\ e # f
    BY <1>1, <2>1 DEF CurationInv, BundleTypeInv
  <2> QED BY <2>1, <2>2, EvidenceIsOfOne
<1>7. \A f : Settled(f)' <=> Settled(f)
  BY <1>2 DEF Settled, IsCited
<1>8. {f \in wiki'.exchanges : f.text # 0 /\ Settled(f)'} = {f \in wiki.exchanges : f.text # 0 /\ Settled(f)}
  BY <1>2, <1>5, <1>6, <1>7 DEF Settled
<1>9. ExchangesInv'
  BY <1>2, <1>8 DEF CurationInv, ExchangesInv
<1> QED BY <1>3, <1>4, <1>9 DEF CurationInv

LEMMA SurroundingsHold ==
    ASSUME CurationConstants, CurationInv, NoteSaved \/ DecisionWritten \/ CodeMoves \/ DayPasses \/ IndexRun
    PROVE  CurationInv'
<1>1. CASE NoteSaved
  <2>1. DOMAIN notes' \subseteq setting.noteNames
    BY <1>1 DEF NoteSaved, CurationInv, BundleTypeInv
  <2>2. UNCHANGED <<setting, today, wiki, code, index, logs, bundle, truth>>
    BY <1>1 DEF NoteSaved
  <2>3. BundleTypeInv' /\ UsageInv'
    BY <2>1, <2>2 DEF CurationInv, BundleTypeInv, UsageInv
  <2> QED BY <2>2, <2>3, NothingDealtWith DEF CurationInv
<1>2. CASE DecisionWritten
  <2>1. PICK p : wiki' = [wiki EXCEPT !.pages[p].status = "current", !.pages[p].updated = today]
    BY <1>2 DEF DecisionWritten
  <2>2. /\ wiki'.kept = wiki.kept /\ wiki'.exchanges = wiki.exchanges /\ wiki'.cites = wiki.cites
        /\ DOMAIN wiki'.pages = DOMAIN wiki.pages /\ DOMAIN wiki' = DOMAIN wiki
    BY <2>1 DEF CurationInv, BundleTypeInv
  <2>3. UNCHANGED <<setting, today, notes, code, index, logs, bundle, truth>>
    BY <1>2 DEF DecisionWritten
  <2>4. BundleTypeInv' /\ UsageInv'
    BY <2>2, <2>3 DEF CurationInv, BundleTypeInv, UsageInv
  <2> QED BY <2>2, <2>3, <2>4, NothingDealtWith DEF CurationInv
<1>3. CASE CodeMoves
  <2>1. UNCHANGED <<setting, today, notes, wiki, index, logs, bundle, truth>>
    BY <1>3 DEF CodeMoves
  <2>2. BundleTypeInv' /\ UsageInv'
    BY <2>1 DEF CurationInv, BundleTypeInv, UsageInv
  <2> QED BY <2>1, <2>2, NothingDealtWith DEF CurationInv
<1>4. CASE DayPasses
  <2>1. UNCHANGED <<setting, notes, wiki, code, index, logs, bundle, truth>> /\ today' = today + 1 /\ today \in Nat
    BY <1>4 DEF DayPasses, CurationInv, BundleTypeInv
  <2>2. BundleTypeInv' /\ UsageInv'
    BY <2>1 DEF CurationInv, BundleTypeInv, UsageInv
  <2> QED BY <2>1, <2>2, NothingDealtWith DEF CurationInv
<1>5. CASE IndexRun
  <2>1. UNCHANGED <<setting, today, notes, wiki, code, logs, bundle, truth>>
        /\ index'.exchanges = wiki.exchanges /\ index'.pages = wiki.pages
    BY <1>5 DEF IndexRun, IndexOf
  <2>2. BundleTypeInv' /\ UsageInv'
    BY <2>1 DEF CurationInv, BundleTypeInv, UsageInv
  <2> QED BY <2>1, <2>2, NothingDealtWith DEF CurationInv
<1> QED BY <1>1, <1>2, <1>3, <1>4, <1>5

LEMMA UsageHolds ==
    ASSUME CurationInv, PageUsed \/ UsageDeleted
    PROVE  CurationInv'
<1>1. /\ UNCHANGED <<setting, today, notes, wiki, code, index, bundle>>
      /\ logs'.reviewed = logs.reviewed /\ truth'.did = truth.did /\ DOMAIN logs' = DOMAIN logs /\ DOMAIN truth' = DOMAIN truth
  BY DEF PageUsed, UsageDeleted, CurationInv, BundleTypeInv
<1>2. BundleTypeInv'
  BY <1>1 DEF CurationInv, BundleTypeInv
<1>3. CASE PageUsed
  <2>1. PICK event :
          /\ event.at = today /\ truth'.usage = truth.usage \cup {event}
          /\ \/ logs'.usage = logs.usage \cup {event} /\ truth'.lost = truth.lost \ {event}
             \/ logs'.usage = logs.usage /\ truth'.lost = truth.lost \cup {event}
    <3>1. PICK p, kind, event :
            /\ event = [at |-> today, page |-> p, kind |-> kind]
            /\ \/ /\ logs' = [logs EXCEPT !.usage = @ \cup {event}]
                  /\ truth' = [truth EXCEPT !.usage = @ \cup {event}, !.lost = @ \ {event}]
               \/ /\ truth' = [truth EXCEPT !.usage = @ \cup {event}, !.lost = @ \cup {event}]
                  /\ UNCHANGED logs
      BY <1>3 DEF PageUsed
    <3>2. event.at = today /\ truth'.usage = truth.usage \cup {event}
      BY <3>1 DEF CurationInv, BundleTypeInv
    <3>3. \/ logs'.usage = logs.usage \cup {event} /\ truth'.lost = truth.lost \ {event}
          \/ logs'.usage = logs.usage /\ truth'.lost = truth.lost \cup {event}
      BY <3>1 DEF CurationInv, BundleTypeInv
    <3> QED BY <3>2, <3>3
  <2>2. today \in Nat
    BY DEF CurationInv, BundleTypeInv
  <2>3. UsageInv'
    BY <1>1, <2>1, <2>2 DEF CurationInv, UsageInv
  <2> QED BY <1>1, <1>2, <2>3, NothingDealtWith DEF CurationInv
<1>4. CASE UsageDeleted
  <2>1. logs'.usage = {} /\ truth' = truth
    BY <1>4 DEF UsageDeleted, CurationInv, BundleTypeInv
  <2>2. UsageInv'
    BY <1>1, <2>1 DEF CurationInv, UsageInv
  <2> QED BY <1>1, <1>2, <2>2, NothingDealtWith DEF CurationInv
<1> QED BY <1>3, <1>4

LEMMA StepHolds == CurationConstants /\ CurationInv /\ [CurationNext]_curationVars => CurationInv'
<1> SUFFICES ASSUME CurationConstants, CurationInv, [CurationNext]_curationVars PROVE CurationInv'
  OBVIOUS
<1>1. CASE List
  BY <1>1, ListHolds
<1>2. CASE Curate
  BY <1>2, MarkHolds, ImportHolds, RememberHolds, SettleHolds DEF Curate
<1>3. CASE SessionArrives
  BY <1>3, ArrivalHolds
<1>4. CASE NoteSaved \/ DecisionWritten \/ CodeMoves \/ DayPasses \/ IndexRun
  BY <1>4, SurroundingsHold
<1>5. CASE PageUsed \/ UsageDeleted
  BY <1>5, UsageHolds
<1>6. CASE UNCHANGED curationVars
  <2>1. BundleTypeInv' /\ UsageInv'
    BY <1>6 DEF curationVars, CurationInv, BundleTypeInv, UsageInv
  <2>2. UNCHANGED <<logs, truth, wiki, bundle>>
    BY <1>6 DEF curationVars
  <2> QED BY <2>1, <2>2, NothingDealtWith DEF CurationInv
<1> QED BY <1>1, <1>2, <1>3, <1>4, <1>5, <1>6 DEF CurationNext

(* When the index has caught up, a bundle offers every note and exchange   *)
(* that nobody dealt with, and none that somebody did, under whatever name *)
(* or in whatever file; nothing twice; a page is called unused only when   *)
(* it was shown, and not opened except where the log was not told of it;   *)
(* and a skipped brief is asked for again (build_memory_candidates).       *)
THEOREM BundleIsRight == CurationSpec => []BundleAsksForWhatIsLeft
<1>1. CurationConstants
  BY CurationAssumption
<1>2. CurationInit => CurationInv
  BY <1>1, InitHolds
<1>3. CurationInv /\ [CurationNext]_curationVars => CurationInv'
  BY <1>1, StepHolds
<1>4. CurationInv => BundleAsksForWhatIsLeft
  BY <1>1, BundleHolds
<1> QED BY <1>2, <1>3, <1>4, PTL DEF CurationSpec

----------------------------------------------------------------------------
(* GraphQuery: what holds, and what is read of it.                         *)

(* A question that is not refused reads what is up to date, and only that. *)
Readable == query \in Requests /\ graph \in Worlds /\ ~Fatal
Reaching(relations, entities) ==
    {r \in relations : \/ query.direction \in {"out", "both"} /\ Relations[r].source \in entities
                       \/ query.direction \in {"in", "both"} /\ Relations[r].target \in entities}

LEMMA FreshAreUpToDate == ASSUME Readable PROVE FreshGraphs = {v \in Scope : UpToDate(v)}
<1>1. /\ graph.health \in {"ok", "missing", "incompatible", "unavailable"}
      /\ \A v \in Scope : graph.lineage[v] \in {"current", "older", "none", "other_spec"}
  BY QueryAssumption DEF QueryConstants, Readable, Scope
<1>2. ASSUME NEW v \in Scope PROVE Freshness(v) = "fresh" <=> UpToDate(v)
  <2>1. CASE graph.health # "ok"
    <3>1. Freshness(v) = graph.health
      BY <2>1 DEF Freshness
    <3> QED BY <1>1, <2>1, <3>1 DEF UpToDate
  <2>2. CASE graph.health = "ok" /\ graph.lineage[v] = "none"
    <3>1. Freshness(v) = "empty"
      BY <2>2 DEF Freshness
    <3> QED BY <2>2, <3>1 DEF UpToDate
  <2>3. CASE graph.health = "ok" /\ graph.lineage[v] # "none"
    <3>1. SpecCompatible
      <4>1. ~SpecCompatible => Freshness(v) = "incompatible"
        BY <2>3 DEF Freshness
      <4> QED BY <4>1 DEF Readable, Fatal
    <3>2. graph.lineage[v] \in {"current", "older"}
      BY <1>1, <2>3, <3>1 DEF SpecCompatible
    <3>3. Freshness(v) = IF graph.lineage[v] = "older" \/ \E x \in EvidenceOf(v) : graph.evidence[x] # "same"
                         THEN "stale" ELSE "fresh"
      BY <2>3, <3>1 DEF Freshness
    <3> QED BY <2>3, <3>2, <3>3 DEF UpToDate
  <2> QED BY <2>1, <2>2, <2>3
<1> QED BY <1>2 DEF FreshGraphs

LEMMA HoldingIs ==
    ASSUME Readable
    PROVE  Holding = {r \in graph.relations : /\ Relations[r].status # "deprecated" /\ SourceVault(r) \in FreshGraphs
                                              /\ query.types = {} \/ Relations[r].type \in query.types
                                              /\ Allowed(r)}
<1>1. \A r \in graph.relations :
        LET vaults == {SourceVault(r), TargetVault(r)} \cup {EvidenceVault[x] : x \in Relations[r].evidence}
        IN  /\ SourceVault(r) \in FreshGraphs <=> SourceVault(r) \in Scope /\ UpToDate(SourceVault(r))
            /\ query.cross => (Allowed(r) <=> vaults \subseteq {v \in Scope : UpToDate(v)})
            /\ ~query.cross => (Allowed(r) <=> vaults = {SourceVault(r)})
            /\ vaults = {SourceVault(r)} => SourceVault(r) = TargetVault(r)
            /\ vaults = {SourceVault(r)} <=> vaults \subseteq {SourceVault(r)}
  BY FreshAreUpToDate DEF Allowed
<1> QED BY <1>1 DEF Holding, SourceVault, TargetVault

LEMMA QueryRowsAre == ASSUME Readable, NEW entities PROVE RowsOf(entities) = Reaching(Holding, entities)
<1>1. \A r \in graph.relations : Relations[r].status \in Asked <=> Relations[r].status # "deprecated"
  BY QueryAssumption DEF QueryConstants, Readable, Asked
<1> HIDE DEF Readable
<1> QED BY <1>1, HoldingIs DEF RowsOf, Touching, Reaching

LEMMA HoldingRests ==
    ASSUME Readable, NEW r \in Holding
    PROVE  r \in DOMAIN Relations /\ Resolves(Relations[r].evidence) # {} /\ EdgeAllowed(r)
<1>1. r \in DOMAIN Relations /\ r \in graph.relations
  BY QueryAssumption DEF QueryConstants, Readable, Holding
<1>2. Relations[r].evidence # {} /\ Active(Relations[r].status)
  BY <1>1, QueryAssumption DEF QueryConstants, Holding, Active
<1>3. Relations[r].evidence \subseteq EvidenceOf(SourceVault(r))
  BY <1>1, <1>2 DEF EvidenceOf
<1>4. \A x \in Relations[r].evidence : graph.evidence[x] = "same"
  BY <1>3 DEF Holding, UpToDate
<1>5. EdgeAllowed(r)
  BY <1>2 DEF EdgeAllowed, Holding, SourceVault, TargetVault
<1> QED BY <1>1, <1>2, <1>4, <1>5 DEF Resolves

----------------------------------------------------------------------------
(* The edges of the projection are the relationships read, in order.       *)
Collected == Readable /\ collected \subseteq Holding
RelationKeys(S) == [r \in S |-> RelationKey(r)]

LEMMA RelationsDiffer == ASSUME NEW S \in SUBSET DOMAIN Relations PROVE KeysDiffer(S, RelationKeys(S))
<1> DEFINE n == 5
<1>1. \A r \in S : RelationKeys(S)[r] \in [1..n -> Int]
  <2> SUFFICES ASSUME NEW r \in S PROVE RelationKey(r) \in [1..n -> Int]
    BY DEF RelationKeys
  <2>1. /\ r \in DOMAIN Relations
        /\ SourceVault(r) \in Int /\ TargetVault(r) \in Int /\ Relations[r].type \in Int
        /\ Relations[r].id \in Int /\ Relations[r].target \in Int
    BY QueryAssumption DEF QueryConstants, SourceVault, TargetVault, Endpoints
  <2> QED BY <2>1 DEF RelationKey
<1>2. ASSUME NEW r \in S, NEW s \in S, RelationKey(r) = RelationKey(s) PROVE r = s
  <2>1. RelationKey(r)[1] = RelationKey(s)[1] /\ RelationKey(r)[4] = RelationKey(s)[4]
    BY <1>2
  <2>2. SourceVault(r) = SourceVault(s) /\ Relations[r].id = Relations[s].id
    BY <2>1 DEF RelationKey
  <2> QED BY <2>2, QueryAssumption DEF QueryConstants
<1>3. \A r, s \in S : RelationKeys(S)[r] = RelationKeys(S)[s] => r = s
  BY <1>2 DEF RelationKeys
<1>4. n \in Nat
  OBVIOUS
<1> HIDE DEF n
<1> QED BY <1>1, <1>3, <1>4, TuplesDiffer

LEMMA RelationsSorted ==
    ASSUME NEW S \in SUBSET DOMAIN Relations
    PROVE  IsFiniteSet(S) /\ Sorted(S, RelationKey) = InOrder(S, RelationKeys(S))
<1>1. IsFiniteSet(S)
  BY FS_Subset, QueryAssumption DEF QueryConstants
<1> QED BY <1>1, RelationsDiffer, SortedByIs DEF Sorted, RelationKeys

(* What is read of a set of relationships, and all of it below the limit.  *)
LEMMA TopOfRelations ==
    ASSUME NEW S \in SUBSET DOMAIN Relations, NEW n \in Nat
    PROVE  LET s == Top(Sorted(S, RelationKey), n)
           IN  /\ s \in Seq(S) /\ ToSet(s) \subseteq S
               /\ \A i, j \in 1..Len(s) : s[i] = s[j] => i = j
               /\ Cardinality(S) <= n => ToSet(s) = S
<1> DEFINE key == RelationKeys(S)
           o == InOrder(S, key)
           s == Top(o, n)
<1>1. IsFiniteSet(S) /\ KeysDiffer(S, key) /\ Sorted(S, RelationKey) = o
  BY RelationsSorted, RelationsDiffer
<1>2. o \in Seq(S) /\ Len(o) = Cardinality(S) /\ ToSet(o) = S /\ \A i, j \in 1..Len(o) : o[i] = o[j] => i = j
  BY <1>1, SortedOnce, OrderedOnce
<1>3. Cardinality(S) \in Nat
  BY <1>1, FS_CardinalityType
<1> HIDE DEF o
<1>4. /\ s \in Seq(S) /\ ToSet(s) \subseteq ToSet(o)
      /\ Len(s) = IF n < Len(o) THEN n ELSE Len(o)
      /\ \A i \in 1..Len(s) : i \in 1..Len(o) /\ s[i] = o[i]
  BY <1>2, TopIs
<1>5. ASSUME Cardinality(S) <= n PROVE ToSet(s) = S
  <2>1. Len(s) = Len(o)
    BY <1>2, <1>3, <1>4, <1>5
  <2>2. DOMAIN o = 1..Len(o) /\ DOMAIN s = 1..Len(s)
    BY <1>2, <1>4
  <2>3. ToSet(s) = {s[i] : i \in 1..Len(s)} /\ ToSet(o) = {o[i] : i \in 1..Len(o)}
    BY <2>2 DEF ToSet
  <2>4. \A i \in 1..Len(o) : s[i] = o[i]
    BY <1>4, <2>1
  <2> HIDE DEF s
  <2>5. {s[i] : i \in 1..Len(o)} = {o[i] : i \in 1..Len(o)}
    BY <2>4
  <2> QED BY <1>2, <2>1, <2>3, <2>5
<1>6. \A i, j \in 1..Len(s) : s[i] = s[j] => i = j
  BY <1>2, <1>4
<1> HIDE DEF s
<1> QED BY <1>1, <1>2, <1>4, <1>5, <1>6 DEF s

LEMMA EdgesAre ==
    ASSUME Collected
    PROVE  /\ Filtered = collected /\ collected \in SUBSET DOMAIN Relations /\ IsFiniteSet(collected)
           /\ Edges \in Seq(collected) /\ ToSet(Edges) \subseteq collected
           /\ \A i, j \in 1..Len(Edges) : Edges[i] = Edges[j] => i = j
           /\ Cardinality(Filtered) <= EdgeLimit => ToSet(Edges) = collected
<1>1. \A r \in collected : r \in DOMAIN Relations /\ Resolves(Relations[r].evidence) # {} /\ EdgeAllowed(r)
  BY HoldingRests DEF Collected
<1>2. Filtered = collected /\ collected \in SUBSET DOMAIN Relations
  BY <1>1 DEF Filtered, Evident
<1>3. EdgeLimit \in Nat
  BY QueryAssumption DEF QueryConstants
<1>4. IsFiniteSet(collected)
  BY <1>2, RelationsSorted
<1> QED BY <1>2, <1>3, <1>4, TopOfRelations DEF Edges

----------------------------------------------------------------------------
(* The steps from an entity.                                               *)

(* The steps from an entity are its hops over the edges.                   *)
Known == ToSet(Edges)
StepOf(e, h) == <<h[1], h[2], IF query.direction = "in" \/ Relations[h[1]].source # e THEN TRUE ELSE FALSE>>
StepsFrom(e) == {StepOf(e, h) : h \in Hops(Known, e)}

LEMMA HopsAre ==
    ASSUME NEW relations, NEW e
    PROVE  /\ \A h \in Hops(relations, e) :
                /\ h[1] \in relations /\ h = <<h[1], h[2]>>
                /\ \/ query.direction \in {"out", "both"} /\ Relations[h[1]].source = e /\ h[2] = Relations[h[1]].target
                   \/ query.direction \in {"in", "both"} /\ Relations[h[1]].target = e /\ h[2] = Relations[h[1]].source
           /\ \A h, g \in Hops(relations, e) : h[1] = g[1] => h = g
           /\ \A r \in relations :
                /\ query.direction \in {"out", "both"} /\ Relations[r].source = e => <<r, Relations[r].target>> \in Hops(relations, e)
                /\ query.direction \in {"in", "both"} /\ Relations[r].target = e => <<r, Relations[r].source>> \in Hops(relations, e)
<1>1. ASSUME NEW h \in Hops(relations, e)
      PROVE  \E r \in relations :
                \/ query.direction \in {"out", "both"} /\ Relations[r].source = e /\ h = <<r, Relations[r].target>>
                \/ query.direction \in {"in", "both"} /\ Relations[r].target = e /\ h = <<r, Relations[r].source>>
  BY <1>1 DEF Hops
<1>2. ASSUME NEW h \in Hops(relations, e)
      PROVE  /\ h[1] \in relations /\ h = <<h[1], h[2]>>
             /\ \/ query.direction \in {"out", "both"} /\ Relations[h[1]].source = e /\ h[2] = Relations[h[1]].target
                \/ query.direction \in {"in", "both"} /\ Relations[h[1]].target = e /\ h[2] = Relations[h[1]].source
  <2>1. PICK r \in relations :
                \/ query.direction \in {"out", "both"} /\ Relations[r].source = e /\ h = <<r, Relations[r].target>>
                \/ query.direction \in {"in", "both"} /\ Relations[r].target = e /\ h = <<r, Relations[r].source>>
    BY <1>1
  <2> QED BY <2>1
<1>3. ASSUME NEW h \in Hops(relations, e), NEW g \in Hops(relations, e), h[1] = g[1] PROVE h = g
  <2>1. h[2] = g[2]
    BY <1>2, <1>3
  <2> QED BY <1>2, <1>3, <2>1
<1>4. \A r \in relations :
         /\ query.direction \in {"out", "both"} /\ Relations[r].source = e => <<r, Relations[r].target>> \in Hops(relations, e)
         /\ query.direction \in {"in", "both"} /\ Relations[r].target = e => <<r, Relations[r].source>> \in Hops(relations, e)
  BY DEF Hops
<1> QED BY <1>2, <1>3, <1>4

(* The two orders of the steps: by the edges, and by the former keys.      *)
CandidateKeys(e) ==
    [s \in StepsFrom(e) |-> EntityKey(s[2]) \o <<Position(Edges, s[1]), IF s[3] THEN 1 ELSE 0>>]
LegacyKeys(e) ==
    [s \in StepsFrom(e) |-> RelationKey(s[1]) \o EntityKey(s[2]) \o <<IF s[3] THEN 1 ELSE 0>>]

LEMMA CandidatesAreSteps ==
    ASSUME Readable, NEW e PROVE Candidates(e) = Sorted(StepsFrom(e), LAMBDA s : EntityKey(s[2]) \o <<Position(Edges, s[1]), IF s[3] THEN 1 ELSE 0>>)
<1> DEFINE out == {<<r, Relations[r].target, FALSE>> : r \in {x \in Known : Relations[x].source = e}}
           in == {<<r, Relations[r].source, TRUE>> : r \in {x \in Known : Relations[x].target = e}}
           steps == (IF query.direction = "in" THEN {} ELSE out)
                 \cup (IF query.direction = "out" THEN {}
                       ELSE IF query.direction = "both" THEN {s \in in : s[2] # e} ELSE in)
<1>1. Candidates(e) = Sorted(steps, LAMBDA s : EntityKey(s[2]) \o <<Position(Edges, s[1]), IF s[3] THEN 1 ELSE 0>>)
  BY DEF Candidates, Known
<1>2. query.direction \in {"out", "in", "both"}
  BY QueryAssumption DEF QueryConstants, Readable
<1> HIDE DEF Known
<1>3. steps \subseteq StepsFrom(e)
  <2> SUFFICES ASSUME NEW s \in steps PROVE s \in StepsFrom(e)
    OBVIOUS
  <2>1. CASE query.direction # "in" /\ s \in out
    <3>1. PICK r \in Known : Relations[r].source = e /\ s = <<r, Relations[r].target, FALSE>>
      BY <2>1
    <3>2. <<r, Relations[r].target>> \in Hops(Known, e)
      BY <1>2, <2>1, <3>1, HopsAre
    <3>3. StepOf(e, <<r, Relations[r].target>>) = s
      BY <2>1, <3>1 DEF StepOf
    <3> QED BY <3>2, <3>3 DEF StepsFrom
  <2>2. CASE query.direction # "out" /\ s \in in /\ (query.direction = "both" => s[2] # e)
    <3>1. PICK r \in Known : Relations[r].target = e /\ s = <<r, Relations[r].source, TRUE>>
      BY <2>2
    <3>2. <<r, Relations[r].source>> \in Hops(Known, e)
      BY <1>2, <2>2, <3>1, HopsAre
    <3>3. query.direction = "in" \/ Relations[r].source # e
      BY <1>2, <2>2, <3>1
    <3>4. StepOf(e, <<r, Relations[r].source>>) = s
      BY <3>1, <3>3 DEF StepOf
    <3> QED BY <3>2, <3>4 DEF StepsFrom
  <2> QED BY <1>2, <2>1, <2>2
<1>4. StepsFrom(e) \subseteq steps
  <2> SUFFICES ASSUME NEW h \in Hops(Known, e) PROVE StepOf(e, h) \in steps
    BY DEF StepsFrom
  <2> DEFINE r == h[1]
  <2>1. r \in Known /\ h = <<r, h[2]>>
        /\ \/ query.direction \in {"out", "both"} /\ Relations[r].source = e /\ h[2] = Relations[r].target
           \/ query.direction \in {"in", "both"} /\ Relations[r].target = e /\ h[2] = Relations[r].source
    BY HopsAre
  <2>2. CASE query.direction # "in" /\ Relations[r].source = e
    <3>1. h[2] = Relations[r].target
      BY <2>1, <2>2
    <3>2. StepOf(e, h) = <<r, Relations[r].target, FALSE>>
      BY <2>2, <3>1 DEF StepOf
    <3>3. StepOf(e, h) \in out
      BY <2>1, <2>2, <3>2
    <3> QED BY <2>2, <3>3
  <2>3. CASE query.direction = "in" \/ Relations[r].source # e
    <3>1. query.direction # "out" /\ Relations[r].target = e /\ h[2] = Relations[r].source
      BY <2>1, <2>3
    <3>2. StepOf(e, h) = <<r, Relations[r].source, TRUE>>
      BY <2>3, <3>1 DEF StepOf
    <3>3. StepOf(e, h) \in in /\ StepOf(e, h)[2] = Relations[r].source
      BY <2>1, <3>1, <3>2
    <3> QED BY <1>2, <2>3, <3>1, <3>3
  <2> QED BY <2>2, <2>3
<1> QED BY <1>1, <1>3, <1>4

----------------------------------------------------------------------------
(* The order of the steps, and the order the former projection met them in.*)

HopKey(h) == RelationKey(h[1]) \o EntityKey(h[2])

(* What is known of a hop over the edges.                                  *)
LEMMA HopKeys ==
    ASSUME NEW relations \in SUBSET DOMAIN Relations, NEW e, NEW h \in Hops(relations, e)
    PROVE  /\ h[1] \in DOMAIN Relations /\ h[2] \in DOMAIN Entities
           /\ RelationKey(h[1]) \in Seq(Int) /\ Len(RelationKey(h[1])) = 5
           /\ EntityKey(h[2]) \in Seq(Int) /\ Len(EntityKey(h[2])) = 3
           /\ HopKey(h) \in Seq(Int) /\ Len(HopKey(h)) = 8
           /\ HopKey(h)[1] = SourceVault(h[1]) /\ HopKey(h)[4] = Relations[h[1]].id
<1>1. h[1] \in relations /\ h[1] \in DOMAIN Relations /\ h[2] \in Endpoints(h[1])
  BY HopsAre DEF Endpoints
<1>2. /\ SourceVault(h[1]) \in Int /\ TargetVault(h[1]) \in Int /\ Relations[h[1]].type \in Int
      /\ Relations[h[1]].id \in Int /\ Relations[h[1]].target \in Int
  BY <1>1, QueryAssumption DEF QueryConstants, SourceVault, TargetVault, Endpoints
<1>3. h[2] \in DOMAIN Entities /\ VaultOf(h[2]) \in Int /\ Entities[h[2]].name \in Int /\ h[2] \in Int
  BY <1>1, QueryAssumption DEF QueryConstants
<1>4. RelationKey(h[1]) \in Seq(Int) /\ Len(RelationKey(h[1])) = 5
  BY <1>2 DEF RelationKey
<1>5. EntityKey(h[2]) \in Seq(Int) /\ Len(EntityKey(h[2])) = 3
  BY <1>3 DEF EntityKey
<1> DEFINE a == RelationKey(h[1])
           b == EntityKey(h[2])
<1>6. HopKey(h) \in Seq(Int) /\ Len(HopKey(h)) = 8 /\ \A i \in 1..5 : HopKey(h)[i] = a[i]
  <2>1. HopKey(h) = a \o b /\ a \in Seq(Int) /\ b \in Seq(Int) /\ Len(a) = 5 /\ Len(b) = 3
    BY <1>4, <1>5 DEF HopKey
  <2> HIDE DEF a, b
  <2>2. /\ a \o b \in Seq(Int) /\ Len(a \o b) = Len(a) + Len(b)
        /\ \A i \in 1..Len(a) : (a \o b)[i] = a[i]
    BY <2>1, ConcatIs
  <2> QED BY <2>1, <2>2
<1>7. HopKey(h)[1] = RelationKey(h[1])[1] /\ HopKey(h)[4] = RelationKey(h[1])[4]
  BY <1>6
<1>8. RelationKey(h[1])[1] = SourceVault(h[1]) /\ RelationKey(h[1])[4] = Relations[h[1]].id
  BY DEF RelationKey
<1> QED BY <1>1, <1>3, <1>4, <1>5, <1>6, <1>7, <1>8

LEMMA HopKeysDiffer ==
    ASSUME NEW relations \in SUBSET DOMAIN Relations, NEW e, NEW h \in Hops(relations, e), NEW g \in Hops(relations, e),
           HopKey(h) = HopKey(g)
    PROVE  h = g
<1>1. SourceVault(h[1]) = SourceVault(g[1]) /\ Relations[h[1]].id = Relations[g[1]].id
  BY HopKeys
<1>2. h[1] \in DOMAIN Relations /\ g[1] \in DOMAIN Relations
  BY HopKeys
<1>3. \A r, s \in DOMAIN Relations : SourceVault(r) = SourceVault(s) /\ Relations[r].id = Relations[s].id => r = s
  BY QueryAssumption DEF QueryConstants
<1>4. h[1] = g[1]
  BY <1>1, <1>2, <1>3
<1> QED BY <1>4, HopsAre

LEMMA StepsAre ==
    ASSUME NEW e, Known \in SUBSET DOMAIN Relations
    PROVE  \A s \in StepsFrom(e) :
               /\ s = <<s[1], s[2], s[3]>> /\ s[3] \in BOOLEAN
               /\ <<s[1], s[2]>> \in Hops(Known, e) /\ s = StepOf(e, <<s[1], s[2]>>) /\ s[1] \in Known
<1> SUFFICES ASSUME NEW h \in Hops(Known, e), NEW s, s = StepOf(e, h)
             PROVE  /\ s = <<s[1], s[2], s[3]>> /\ s[3] \in BOOLEAN
                    /\ <<s[1], s[2]>> \in Hops(Known, e) /\ s = StepOf(e, <<s[1], s[2]>>) /\ s[1] \in Known
  BY DEF StepsFrom
<1>1. h = <<h[1], h[2]>> /\ h[1] \in Known
  BY HopsAre
<1>2. s[1] = h[1] /\ s[2] = h[2] /\ s[3] \in BOOLEAN /\ s = <<s[1], s[2], s[3]>>
  BY DEF StepOf
<1>3. <<s[1], s[2]>> = h
  BY <1>1, <1>2
<1> QED BY <1>1, <1>2, <1>3

LEMMA CandidateKeysDiffer ==
    ASSUME Collected, NEW e
    PROVE  /\ KeysDiffer(StepsFrom(e), CandidateKeys(e)) /\ IsFiniteSet(StepsFrom(e))
           /\ Cardinality(StepsFrom(e)) <= Len(Edges)
<1>1. /\ Known \in SUBSET DOMAIN Relations /\ Edges \in Seq(collected) /\ Known = {Edges[i] : i \in 1..Len(Edges)}
      /\ \A i, j \in 1..Len(Edges) : Edges[i] = Edges[j] => i = j
  BY EdgesAre DEF Known, ToSet
<1>2. Len(Edges) \in Nat
  BY <1>1
<1>3. \A r \in Known : Position(Edges, r) \in 1..Len(Edges) /\ Edges[Position(Edges, r)] = r
  <2>1. DOMAIN Edges = 1..Len(Edges)
    BY <1>1
  <2> HIDE DEF Known
  <2> QED BY <1>1, <2>1 DEF Position
<1> DEFINE tail(s) == <<Position(Edges, s[1]), IF s[3] THEN 1 ELSE 0>>
           key == CandidateKeys(e)
           S == StepsFrom(e)
<1>4. ASSUME NEW s \in S PROVE key[s] \in Seq(Int) /\ key[s][4] = Position(Edges, s[1])
  <2>1. <<s[1], s[2]>> \in Hops(Known, e) /\ s[1] \in Known
    BY <1>1, StepsAre
  <2>2. EntityKey(s[2]) \in Seq(Int) /\ Len(EntityKey(s[2])) = 3
    BY <1>1, <2>1, HopKeys
  <2>3. tail(s) \in Seq(Int) /\ Len(tail(s)) = 2 /\ tail(s)[1] = Position(Edges, s[1])
    BY <1>2, <1>3, <2>1
  <2>4. key[s] = EntityKey(s[2]) \o tail(s)
    BY DEF CandidateKeys
  <2> DEFINE a == EntityKey(s[2])
             b == tail(s)
             k == key[s]
  <2>5. a \in Seq(Int) /\ b \in Seq(Int) /\ Len(a) = 3 /\ Len(b) = 2 /\ k = a \o b
    BY <2>2, <2>3, <2>4
  <2> HIDE DEF a, b, k
  <2>6. a \o b \in Seq(Int) /\ \A i \in 1..Len(b) : (a \o b)[Len(a) + i] = b[i]
    BY <2>5, ConcatIs
  <2>7. k[4] = b[1]
    <3>1. 1 \in 1..Len(b) /\ Len(a) + 1 = 4
      BY <2>5
    <3>2. (a \o b)[Len(a) + 1] = b[1]
      BY <2>6, <3>1
    <3> QED BY <2>5, <3>1, <3>2
  <2> QED BY <2>3, <2>5, <2>6, <2>7 DEF b, k
<1>5. ASSUME NEW s \in S, NEW t \in S, Position(Edges, s[1]) = Position(Edges, t[1]) PROVE s = t
  <2>1. s[1] \in Known /\ t[1] \in Known /\ s = StepOf(e, <<s[1], s[2]>>) /\ t = StepOf(e, <<t[1], t[2]>>)
        /\ <<s[1], s[2]>> \in Hops(Known, e) /\ <<t[1], t[2]>> \in Hops(Known, e)
    BY <1>1, StepsAre
  <2>2. s[1] = t[1]
    BY <1>3, <1>5, <2>1
  <2>3. <<s[1], s[2]>> = <<t[1], t[2]>>
    BY <2>1, <2>2, HopsAre
  <2> QED BY <2>1, <2>3
<1> HIDE DEF S, key
<1>6. KeysDiffer(S, key)
  <2>1. \A s, t \in S : key[s] = key[t] => s = t
    BY <1>4, <1>5
  <2> QED BY <1>4, <2>1, SequencesDiffer
<1>7. IsFiniteSet(S) /\ Cardinality(S) <= Len(Edges)
  <2> DEFINE f == [s \in S |-> Position(Edges, s[1])]
  <2>1. \A s \in S : f[s] \in 1..Len(Edges)
    <3>1. \A s \in S : s[1] \in Known
      BY <1>1, StepsAre DEF S
    <3> QED BY <1>3, <3>1
  <2>2. \A s, t \in S : f[s] = f[t] => s = t
    BY <1>5
  <2>3. f \in [S -> 1..Len(Edges)]
    BY <2>1
  <2> HIDE DEF f
  <2>4. f \in Injection(S, 1..Len(Edges))
    BY <2>2, <2>3 DEF Injection, IsInjective
  <2>5. IsFiniteSet(1..Len(Edges)) /\ Cardinality(1..Len(Edges)) = Len(Edges)
    BY <1>2, FS_Interval
  <2> QED BY <2>4, <2>5, FS_Injection
<1> QED BY <1>6, <1>7 DEF S, key

(* The steps are tried once each.                                          *)
LEMMA CandidatesAre ==
    ASSUME Collected, NEW e
    PROVE  /\ Candidates(e) \in Seq(StepsFrom(e)) /\ ToSet(Candidates(e)) = StepsFrom(e)
           /\ Len(Candidates(e)) <= Len(Edges)
           /\ \A i, j \in 1..Len(Candidates(e)) : Candidates(e)[i] = Candidates(e)[j] => i = j
           /\ \A s \in StepsFrom(e) : \E i \in 1..Len(Candidates(e)) : Candidates(e)[i] = s
<1>1. /\ KeysDiffer(StepsFrom(e), CandidateKeys(e)) /\ IsFiniteSet(StepsFrom(e))
      /\ Cardinality(StepsFrom(e)) <= Len(Edges)
  BY CandidateKeysDiffer
<1>2. Candidates(e) = SortedBy(StepsFrom(e), Table(CandidateKeys(e)))
  BY CandidatesAreSteps DEF Collected, Sorted, CandidateKeys
<1>3. Candidates(e) = InOrder(StepsFrom(e), CandidateKeys(e))
  BY <1>1, <1>2, SortedByIs
<1> QED BY <1>1, <1>3, SortedOnce, OrderedOnce

----------------------------------------------------------------------------
(* The former projection tried the same steps by the keys of their         *)
(* relationships.                                                          *)
RankOf(e, h) == LegacyRank(e, StepOf(e, h))

LEMMA RanksInOrder ==
    ASSUME Collected, NEW e
    PROVE  /\ \A h \in Hops(Known, e) : RankOf(e, h) \in Int
           /\ \A h, g \in Hops(Known, e) : RankOf(e, h) < RankOf(e, g) <=> Less(HopKey(h), HopKey(g))
           /\ \A h, g \in Hops(Known, e) : RankOf(e, h) = RankOf(e, g) => h = g
<1> DEFINE S == StepsFrom(e)
           key == LegacyKeys(e)
           bit(s) == <<IF s[3] THEN 1 ELSE 0>>
           hop(s) == <<s[1], s[2]>>
<1>1. Known \in SUBSET DOMAIN Relations /\ IsFiniteSet(S)
  BY EdgesAre, CandidateKeysDiffer DEF Known
<1>2. \A s \in S : hop(s) \in Hops(Known, e) /\ s = StepOf(e, hop(s))
  BY <1>1, StepsAre
<1>3. ASSUME NEW s \in S
      PROVE  /\ HopKey(hop(s)) \in Seq(Int) /\ Len(HopKey(hop(s))) = 8 /\ bit(s) \in Seq(Int)
             /\ key[s] = HopKey(hop(s)) \o bit(s) /\ key[s] \in Seq(Int)
  <2>1. HopKey(hop(s)) \in Seq(Int) /\ Len(HopKey(hop(s))) = 8
    BY <1>1, <1>2, HopKeys
  <2>2. bit(s) \in Seq(Int)
    OBVIOUS
  <2>3. key[s] = HopKey(hop(s)) \o bit(s)
    BY DEF LegacyKeys, HopKey
  <2> HIDE DEF bit, hop, key
  <2> QED BY <2>1, <2>2, <2>3, ConcatProperties
<1>4. ASSUME NEW s \in S, NEW t \in S, HopKey(hop(s)) = HopKey(hop(t)) PROVE s = t
  <2>1. hop(s) = hop(t)
    <3> HIDE DEF hop
    <3> QED BY <1>1, <1>2, <1>4, HopKeysDiffer
  <2> HIDE DEF hop
  <2> QED BY <1>2, <2>1
<1> HIDE DEF bit, hop, key, S
<1>5. ASSUME NEW s \in S, NEW t \in S
      PROVE  Less(key[s], key[t]) <=> Less(HopKey(hop(s)), HopKey(hop(t))) \/ (HopKey(hop(s)) = HopKey(hop(t)) /\ Less(bit(s), bit(t)))
  <2> DEFINE a == HopKey(hop(s))
             b == HopKey(hop(t))
             c == bit(s)
             d == bit(t)
  <2>1. /\ a \in Seq(Int) /\ b \in Seq(Int) /\ Len(a) = Len(b) /\ c \in Seq(Int) /\ d \in Seq(Int)
        /\ key[s] = a \o c /\ key[t] = b \o d
    BY <1>3
  <2> HIDE DEF a, b, c, d
  <2>2. Less(a \o c, b \o d) <=> Less(a, b) \/ (a = b /\ Less(c, d))
    BY <2>1, LessConcat
  <2> QED BY <2>1, <2>2 DEF a, b, c, d
<1>6. KeysDiffer(S, [s \in S |-> HopKey(hop(s))])
  <2> DEFINE short == [s \in S |-> HopKey(hop(s))]
  <2>1. (\A s \in S : short[s] \in Seq(Int)) /\ \A s, t \in S : short[s] = short[t] => s = t
    BY <1>3, <1>4
  <2> HIDE DEF short
  <2>2. KeysDiffer(S, short)
    BY <2>1, SequencesDiffer
  <2> QED BY <2>2 DEF short
<1>7. \A s \in S : ~Less(HopKey(hop(s)), HopKey(hop(s))) /\ ~Less(bit(s), bit(s))
  <2>1. \A s \in S : ~Less(bit(s), bit(s))
    BY DEF Less, bit
  <2> QED BY <1>6, <2>1 DEF KeysDiffer
<1>8. \A s, t \in S : Less(key[s], key[t]) <=> Less(HopKey(hop(s)), HopKey(hop(t)))
  BY <1>4, <1>5, <1>7
<1>9. KeysDiffer(S, key)
  BY <1>6, <1>8 DEF KeysDiffer
<1>10. LegacyOrder(e) = InOrder(S, key)
  <2>1. ToSet(Candidates(e)) = S
    BY CandidatesAre DEF S
  <2>2. LegacyOrder(e) = SortedBy(S, Table([s \in S |-> RelationKey(s[1]) \o EntityKey(s[2]) \o <<IF s[3] THEN 1 ELSE 0>>]))
    BY <2>1 DEF LegacyOrder, Sorted
  <2>3. LegacyOrder(e) = SortedBy(S, Table(key))
    BY <2>2 DEF key, LegacyKeys, S
  <2> QED BY <1>1, <1>9, <2>3, SortedByIs
<1>11. /\ \A s \in S : LegacyRank(e, s) \in 1..Cardinality(S) /\ InOrder(S, key)[LegacyRank(e, s)] = s
       /\ \A s, t \in S : LegacyRank(e, s) < LegacyRank(e, t) <=> Less(key[s], key[t])
  BY <1>1, <1>9, <1>10, PositionsInOrder DEF LegacyRank
<1>12. ASSUME NEW h \in Hops(Known, e) PROVE StepOf(e, h) \in S /\ hop(StepOf(e, h)) = h
  <2>1. h = <<h[1], h[2]>>
    BY HopsAre
  <2>2. StepOf(e, h)[1] = h[1] /\ StepOf(e, h)[2] = h[2]
    BY DEF StepOf
  <2> QED BY <2>1, <2>2 DEF hop, S, StepsFrom
<1>13. Cardinality(S) \in Nat
  BY <1>1, FS_CardinalityType
<1> QED BY <1>8, <1>11, <1>12, <1>13 DEF RankOf

----------------------------------------------------------------------------
(* The walks from the target.                                              *)

(* The walks from the target, and the places of their steps.               *)
Begins(relations, h) == h \in Hops(relations, target) /\ h[2] # target
Goes(relations, h, g) == Begins(relations, h) /\ g \in Hops(relations, h[2]) /\ g[2] \notin {target, h[2]}

LEMMA AppendToOne == \A h, g : Append(<<h>>, g) = <<h, g>> /\ <<h>>[1] = h
<1> TAKE h, g
<1>1. ASSUME NEW w, w = <<h, g>> PROVE w = Append(<<h>>, g) /\ w[1] = h /\ w[2] = g
  BY <1>1
<1>2. <<h>>[1] = h
  OBVIOUS
<1> QED BY <1>1, <1>2

LEMMA WalksAre ==
    ASSUME NEW relations
    PROVE  \A w : w \in SimpleWalks(relations) <=>
               \/ \E h : Begins(relations, h) /\ w = <<h>>
               \/ query.depth # 1 /\ \E h, g : Goes(relations, h, g) /\ w = <<h, g>>
<1> DEFINE once == {<<s>> : s \in {h \in Hops(relations, target) : h[2] # target}}
           long == UNION {{Append(o, h) : h \in Hops(relations, o[1][2])} : o \in once}
           twice == {w \in long : w[2][2] \notin {target, w[1][2]}}
<1>1. SimpleWalks(relations) = IF query.depth = 1 THEN once ELSE once \cup twice
  BY DEF SimpleWalks
<1>2. \A w : w \in once <=> \E h : Begins(relations, h) /\ w = <<h>>
  BY DEF Begins
<1>3. \A w : w \in twice <=> \E h, g : Goes(relations, h, g) /\ w = <<h, g>>
  <2>1. ASSUME NEW w \in twice PROVE \E h, g : Goes(relations, h, g) /\ w = <<h, g>>
    <3>1. PICK o \in once : w \in {Append(o, h) : h \in Hops(relations, o[1][2])}
      BY <2>1
    <3>2. PICK g \in Hops(relations, o[1][2]) : w = Append(o, g)
      BY <3>1
    <3>3. PICK h : Begins(relations, h) /\ o = <<h>>
      BY <1>2
    <3>4. w = <<h, g>> /\ o[1] = h
      <4>1. Append(<<h>>, g) = <<h, g>> /\ <<h>>[1] = h
        BY AppendToOne
      <4>2. o = <<h>>
        BY <3>3
      <4> QED BY <3>2, <4>1, <4>2
    <3>5. w[1] = h /\ w[2] = g /\ w[2][2] \notin {target, w[1][2]}
      BY <2>1, <3>4
    <3> QED BY <3>2, <3>3, <3>4, <3>5 DEF Goes
  <2>2. ASSUME NEW w, NEW h, NEW g, Goes(relations, h, g), w = <<h, g>> PROVE w \in twice
    <3>1. <<h>> \in once
      BY <1>2, <2>2 DEF Goes
    <3>2. w = Append(<<h>>, g) /\ <<h>>[1] = h /\ w[1] = h /\ w[2] = g
      BY <2>2
    <3>3. w \in {Append(<<h>>, x) : x \in Hops(relations, <<h>>[1][2])}
      BY <2>2, <3>2 DEF Goes
    <3>4. w \in long
      BY <3>1, <3>3
    <3> QED BY <2>2, <3>2, <3>4 DEF Goes
  <2> QED BY <2>1, <2>2
<1> HIDE DEF once, twice
<1> QED BY <1>1, <1>2, <1>3

Walks == SimpleWalks(Known)
Ordinal(w) == [i \in DOMAIN w |-> RankOf(IF i = 1 THEN target ELSE w[1][2], w[i])]
PathOf(w) == [entity |-> w[Len(w)][2], path |-> [i \in DOMAIN w |-> w[i][1]], ordinal |-> Ordinal(w)]
MetOf(w) == IF Len(w) = 1 THEN HopKey(w[1]) ELSE HopKey(w[1]) \o HopKey(w[2])

LEMMA ShortWalk ==
    ASSUME NEW h
    PROVE  /\ Len(<<h>>) = 1 /\ <<h>>[1] = h /\ DOMAIN <<h>> = {1}
           /\ Ordinal(<<h>>) = <<RankOf(target, h)>> /\ MetOf(<<h>>) = HopKey(h)
           /\ PathOf(<<h>>) = [entity |-> h[2], path |-> <<h[1]>>, ordinal |-> <<RankOf(target, h)>>]
<1> DEFINE w == <<h>>
<1>1. Len(w) = 1 /\ w[1] = h /\ DOMAIN w = {1} /\ DOMAIN w = 1..1
  OBVIOUS
<1> HIDE DEF w
<1>2. Ordinal(w) = [i \in 1..1 |-> RankOf(target, h)]
  BY <1>1 DEF Ordinal
<1>3. [i \in DOMAIN w |-> w[i][1]] = [i \in 1..1 |-> h[1]]
  BY <1>1
<1>4. Ordinal(w) = <<RankOf(target, h)>>
  BY <1>2
<1>5. [i \in DOMAIN w |-> w[i][1]] = <<h[1]>>
  BY <1>3
<1>6. MetOf(w) = HopKey(h)
  BY <1>1 DEF MetOf
<1>7. PathOf(w) = [entity |-> h[2], path |-> <<h[1]>>, ordinal |-> <<RankOf(target, h)>>]
  BY <1>1, <1>4, <1>5 DEF PathOf
<1> QED BY <1>1, <1>4, <1>6, <1>7 DEF w

LEMMA LongWalk ==
    ASSUME NEW h, NEW g
    PROVE  /\ Len(<<h, g>>) = 2 /\ <<h, g>>[1] = h /\ <<h, g>>[2] = g /\ DOMAIN <<h, g>> = {1, 2}
           /\ Ordinal(<<h, g>>) = <<RankOf(target, h), RankOf(h[2], g)>> /\ MetOf(<<h, g>>) = HopKey(h) \o HopKey(g)
           /\ PathOf(<<h, g>>) = [entity |-> g[2], path |-> <<h[1], g[1]>>,
                                  ordinal |-> <<RankOf(target, h), RankOf(h[2], g)>>]
<1> DEFINE w == <<h, g>>
           a == RankOf(target, h)
           b == RankOf(h[2], g)
<1>1. Len(w) = 2 /\ w[1] = h /\ w[2] = g /\ DOMAIN w = {1, 2} /\ DOMAIN w = 1..2
  OBVIOUS
<1> HIDE DEF w
<1>2. Ordinal(w) = [i \in 1..2 |-> IF i = 1 THEN a ELSE b]
  <2>1. Ordinal(w) = [i \in 1..2 |-> RankOf(IF i = 1 THEN target ELSE h[2], w[i])]
    BY <1>1 DEF Ordinal
  <2>2. \A i \in 1..2 : RankOf(IF i = 1 THEN target ELSE h[2], w[i]) = IF i = 1 THEN a ELSE b
    BY <1>1
  <2> QED BY <2>1, <2>2
<1>3. [i \in DOMAIN w |-> w[i][1]] = [i \in 1..2 |-> IF i = 1 THEN h[1] ELSE g[1]]
  BY <1>1
<1> HIDE DEF a, b
<1>4. Ordinal(w) = <<a, b>>
  BY <1>2
<1>5. [i \in DOMAIN w |-> w[i][1]] = <<h[1], g[1]>>
  BY <1>3
<1>6. MetOf(w) = HopKey(h) \o HopKey(g)
  BY <1>1 DEF MetOf
<1>7. PathOf(w) = [entity |-> g[2], path |-> <<h[1], g[1]>>, ordinal |-> <<a, b>>]
  BY <1>1, <1>4, <1>5 DEF PathOf
<1> QED BY <1>1, <1>4, <1>6, <1>7 DEF w, a, b

(* The walks are met in the order of their places: that of the former      *)
(* projection.                                                             *)
LEMMA WalksInOrder ==
    ASSUME Collected
    PROVE  /\ \A w \in Walks : Ordinal(w) \in Seq(Int) /\ MetOf(w) \in Seq(Int) /\ Len(Ordinal(w)) = Len(w)
           /\ \A w, x \in Walks : Less(Ordinal(w), Ordinal(x)) <=> Less(MetOf(w), MetOf(x))
           /\ \A w, x \in Walks : Ordinal(w) = Ordinal(x) => w = x
<1> DEFINE R(h) == RankOf(target, h)
           Q(h, g) == RankOf(h[2], g)
           K(h) == HopKey(h)
<1>1. Known \in SUBSET DOMAIN Relations
  BY EdgesAre DEF Known
<1>2. /\ \A h \in Hops(Known, target) : R(h) \in Int /\ K(h) \in Seq(Int) /\ Len(K(h)) = 8
      /\ \A h, g \in Hops(Known, target) : R(h) < R(g) <=> Less(K(h), K(g))
      /\ \A h, g \in Hops(Known, target) : R(h) = R(g) => h = g
      /\ \A h, g \in Hops(Known, target) : K(h) = K(g) => h = g
  BY <1>1, RanksInOrder, HopKeys, HopKeysDiffer
<1>3. /\ \A h, g : g \in Hops(Known, h[2]) => Q(h, g) \in Int /\ K(g) \in Seq(Int) /\ Len(K(g)) = 8
      /\ \A h, g, k : g \in Hops(Known, h[2]) /\ k \in Hops(Known, h[2]) => (Q(h, g) < Q(h, k) <=> Less(K(g), K(k)))
      /\ \A h, g, k : g \in Hops(Known, h[2]) /\ k \in Hops(Known, h[2]) => (Q(h, g) = Q(h, k) => g = k)
  BY <1>1, RanksInOrder, HopKeys
<1> HIDE DEF R, Q, K
<1>4. \A w \in Walks :
        \/ \E h \in Hops(Known, target) : w = <<h>>
        \/ \E h \in Hops(Known, target) : \E g \in Hops(Known, h[2]) : w = <<h, g>>
  BY WalksAre DEF Walks, Goes, Begins
<1>5. /\ \A h : Ordinal(<<h>>) = <<R(h)>> /\ MetOf(<<h>>) = K(h) /\ Len(<<h>>) = 1
      /\ \A h, g : Ordinal(<<h, g>>) = <<R(h), Q(h, g)>> /\ MetOf(<<h, g>>) = K(h) \o K(g) /\ Len(<<h, g>>) = 2
  BY ShortWalk, LongWalk DEF R, Q, K
<1>6. ASSUME NEW w \in Walks PROVE Ordinal(w) \in Seq(Int) /\ MetOf(w) \in Seq(Int) /\ Len(Ordinal(w)) = Len(w)
  <2>1. ASSUME NEW h \in Hops(Known, target), w = <<h>>
        PROVE  Ordinal(w) \in Seq(Int) /\ MetOf(w) \in Seq(Int) /\ Len(Ordinal(w)) = Len(w)
    <3>1. <<R(h)>> \in Seq(Int) /\ Len(<<R(h)>>) = 1
      BY <1>2
    <3> QED BY <1>2, <1>5, <2>1, <3>1
  <2>2. ASSUME NEW h \in Hops(Known, target), NEW g \in Hops(Known, h[2]), w = <<h, g>>
        PROVE  Ordinal(w) \in Seq(Int) /\ MetOf(w) \in Seq(Int) /\ Len(Ordinal(w)) = Len(w)
    <3>1. <<R(h), Q(h, g)>> \in Seq(Int) /\ Len(<<R(h), Q(h, g)>>) = 2
      BY <1>2, <1>3
    <3>2. K(h) \o K(g) \in Seq(Int)
      BY <1>2, <1>3, ConcatIs
    <3> QED BY <1>5, <2>2, <3>1, <3>2
  <2> QED BY <1>4, <2>1, <2>2
<1>7. ASSUME NEW w \in Walks, NEW x \in Walks
      PROVE  /\ Less(Ordinal(w), Ordinal(x)) <=> Less(MetOf(w), MetOf(x))
             /\ Ordinal(w) = Ordinal(x) => w = x
  <2>1. ASSUME NEW h \in Hops(Known, target), NEW g \in Hops(Known, target)
        PROVE  /\ Less(<<R(h)>>, <<R(g)>>) <=> Less(K(h), K(g))
               /\ <<R(h)>> = <<R(g)>> => h = g
    <3>1. <<R(h)>> = <<R(g)>> => R(h) = R(g)
      OBVIOUS
    <3> QED BY <1>2, <3>1, ShortTuplesCompare
  <2>2. ASSUME NEW h \in Hops(Known, target), NEW g \in Hops(Known, target), NEW k \in Hops(Known, g[2])
        PROVE  /\ Less(<<R(h)>>, <<R(g), Q(g, k)>>) <=> Less(K(h), K(g) \o K(k))
               /\ <<R(h)>> # <<R(g), Q(g, k)>>
    <3>1. Less(<<R(h)>>, <<R(g), Q(g, k)>>) <=> R(h) < R(g) \/ R(h) = R(g)
      BY <1>2, <1>3, ShortTuplesCompare
    <3> DEFINE a == K(h)
               b == K(g)
               c == K(k)
    <3>2. a \in Seq(Int) /\ b \in Seq(Int) /\ c \in Seq(Int) /\ Len(a) = Len(b) /\ Len(c) = 8
      BY <1>2, <1>3
    <3>3. (R(h) < R(g) <=> Less(a, b)) /\ (R(h) = R(g) <=> a = b)
      BY <1>2
    <3> HIDE DEF a, b, c
    <3>4. a \o <<>> = a /\ <<>> \in Seq(Int)
      BY <3>2, ConcatEmptySeq
    <3>5. Less(a \o <<>>, b \o c) <=> Less(a, b) \/ (a = b /\ Less(<<>>, c))
      BY <3>2, <3>4, LessConcat
    <3>6. Less(<<>>, c)
      BY <3>2 DEF Less
    <3>7. <<R(h)>> # <<R(g), Q(g, k)>>
      <4>1. Len(<<R(h)>>) = 1 /\ Len(<<R(g), Q(g, k)>>) = 2
        OBVIOUS
      <4> QED BY <4>1
    <3> QED BY <3>1, <3>3, <3>4, <3>5, <3>6, <3>7 DEF a, b, c
  <2>3. ASSUME NEW h \in Hops(Known, target), NEW g \in Hops(Known, target), NEW k \in Hops(Known, h[2])
        PROVE  /\ Less(<<R(h), Q(h, k)>>, <<R(g)>>) <=> Less(K(h) \o K(k), K(g))
               /\ <<R(h), Q(h, k)>> # <<R(g)>>
    <3>1. Less(<<R(h), Q(h, k)>>, <<R(g)>>) <=> R(h) < R(g)
      BY <1>2, <1>3, ShortTuplesCompare
    <3> DEFINE a == K(h)
               b == K(g)
               c == K(k)
    <3>2. a \in Seq(Int) /\ b \in Seq(Int) /\ c \in Seq(Int) /\ Len(a) = Len(b) /\ Len(c) = 8
      BY <1>2, <1>3
    <3>3. R(h) < R(g) <=> Less(a, b)
      BY <1>2
    <3> HIDE DEF a, b, c
    <3>4. b \o <<>> = b /\ <<>> \in Seq(Int)
      BY <3>2, ConcatEmptySeq
    <3>5. Less(a \o c, b \o <<>>) <=> Less(a, b) \/ (a = b /\ Less(c, <<>>))
      BY <3>2, <3>4, LessConcat
    <3>6. ~Less(c, <<>>)
      BY <3>2 DEF Less
    <3>7. <<R(g)>> # <<R(h), Q(h, k)>>
      <4>1. Len(<<R(g)>>) = 1 /\ Len(<<R(h), Q(h, k)>>) = 2
        OBVIOUS
      <4> QED BY <4>1
    <3> QED BY <3>1, <3>3, <3>4, <3>5, <3>6, <3>7 DEF a, b, c
  <2>4. ASSUME NEW h \in Hops(Known, target), NEW k \in Hops(Known, h[2]),
               NEW g \in Hops(Known, target), NEW l \in Hops(Known, g[2])
        PROVE  /\ Less(<<R(h), Q(h, k)>>, <<R(g), Q(g, l)>>) <=> Less(K(h) \o K(k), K(g) \o K(l))
               /\ <<R(h), Q(h, k)>> = <<R(g), Q(g, l)>> => h = g /\ k = l
    <3>1. /\ Less(<<R(h), Q(h, k)>>, <<R(g), Q(g, l)>>) <=> R(h) < R(g) \/ (R(h) = R(g) /\ Q(h, k) < Q(g, l))
      BY <1>2, <1>3, PairsCompare
    <3> DEFINE a == K(h)
               b == K(g)
               c == K(k)
               d == K(l)
    <3>2. a \in Seq(Int) /\ b \in Seq(Int) /\ c \in Seq(Int) /\ d \in Seq(Int) /\ Len(a) = Len(b)
      BY <1>2, <1>3
    <3>3. (R(h) < R(g) <=> Less(a, b)) /\ (R(h) = R(g) <=> a = b)
      BY <1>2
    <3>4. R(h) = R(g) => h = g
      BY <1>2
    <3>5. h = g => (Q(h, k) < Q(g, l) <=> Less(c, d)) /\ (Q(h, k) = Q(g, l) => k = l)
      BY <1>3
    <3> HIDE DEF a, b, c, d
    <3>6. Less(a \o c, b \o d) <=> Less(a, b) \/ (a = b /\ Less(c, d))
      BY <3>2, LessConcat
    <3>7. <<R(h), Q(h, k)>> = <<R(g), Q(g, l)>> => R(h) = R(g) /\ Q(h, k) = Q(g, l)
      OBVIOUS
    <3> QED BY <3>1, <3>3, <3>4, <3>5, <3>6, <3>7 DEF a, b, c, d
  <2>5. CASE \E h \in Hops(Known, target) : w = <<h>>
    <3>1. PICK h \in Hops(Known, target) : w = <<h>>
      BY <2>5
    <3>2. CASE \E g \in Hops(Known, target) : x = <<g>>
      <4>1. PICK g \in Hops(Known, target) : x = <<g>>
        BY <3>2
      <4>2. Ordinal(w) = <<R(h)>> /\ MetOf(w) = K(h) /\ Ordinal(x) = <<R(g)>> /\ MetOf(x) = K(g)
        BY <1>5, <3>1, <4>1
      <4> QED BY <2>1, <3>1, <4>1, <4>2
    <3>3. CASE \E g \in Hops(Known, target) : \E k \in Hops(Known, g[2]) : x = <<g, k>>
      <4>1. PICK g \in Hops(Known, target) : \E k \in Hops(Known, g[2]) : x = <<g, k>>
        BY <3>3
      <4>2. PICK k \in Hops(Known, g[2]) : x = <<g, k>>
        BY <4>1
      <4>3. /\ Ordinal(w) = <<R(h)>> /\ MetOf(w) = K(h)
            /\ Ordinal(x) = <<R(g), Q(g, k)>> /\ MetOf(x) = K(g) \o K(k)
        BY <1>5, <3>1, <4>2
      <4> QED BY <2>2, <4>3
    <3> QED BY <1>4, <3>2, <3>3
  <2>6. CASE \E h \in Hops(Known, target) : \E k \in Hops(Known, h[2]) : w = <<h, k>>
    <3>1. PICK h \in Hops(Known, target) : \E k \in Hops(Known, h[2]) : w = <<h, k>>
      BY <2>6
    <3>2. PICK k \in Hops(Known, h[2]) : w = <<h, k>>
      BY <3>1
    <3>3. CASE \E g \in Hops(Known, target) : x = <<g>>
      <4>1. PICK g \in Hops(Known, target) : x = <<g>>
        BY <3>3
      <4>2. /\ Ordinal(x) = <<R(g)>> /\ MetOf(x) = K(g)
            /\ Ordinal(w) = <<R(h), Q(h, k)>> /\ MetOf(w) = K(h) \o K(k)
        BY <1>5, <3>2, <4>1
      <4> QED BY <2>3, <4>2
    <3>4. CASE \E g \in Hops(Known, target) : \E l \in Hops(Known, g[2]) : x = <<g, l>>
      <4>1. PICK g \in Hops(Known, target) : \E l \in Hops(Known, g[2]) : x = <<g, l>>
        BY <3>4
      <4>2. PICK l \in Hops(Known, g[2]) : x = <<g, l>>
        BY <4>1
      <4>3. /\ Ordinal(w) = <<R(h), Q(h, k)>> /\ MetOf(w) = K(h) \o K(k)
            /\ Ordinal(x) = <<R(g), Q(g, l)>> /\ MetOf(x) = K(g) \o K(l)
        BY <1>5, <3>2, <4>2
      <4>4. /\ Less(<<R(h), Q(h, k)>>, <<R(g), Q(g, l)>>) <=> Less(K(h) \o K(k), K(g) \o K(l))
            /\ <<R(h), Q(h, k)>> = <<R(g), Q(g, l)>> => h = g /\ k = l
        BY <2>4
      <4>5. Ordinal(w) = Ordinal(x) => w = x
        BY <3>2, <4>2, <4>3, <4>4
      <4> QED BY <4>3, <4>4, <4>5
    <3> QED BY <1>4, <3>3, <3>4
  <2> QED BY <1>4, <2>5, <2>6
<1> QED BY <1>6, <1>7

----------------------------------------------------------------------------
(* The paths that are kept.                                                *)

(* Of the walks that were met, the first of each kind is kept.             *)
Alike(w, x) == PathOf(w).entity = PathOf(x).entity /\ Ids(PathOf(w).path) = Ids(PathOf(x).path)
Kept(C, S) ==
    /\ IsFiniteSet(C) /\ C \subseteq {PathOf(w) : w \in S}
    /\ \A w \in S : \E x \in S : PathOf(x) \in C /\ Alike(x, w) /\ ~Less(Ordinal(w), Ordinal(x))
    /\ \A w, x \in S : PathOf(w) \in C /\ PathOf(x) \in C /\ Alike(w, x) => w = x

LEMMA OrdinalsDiffer == ASSUME Collected PROVE KeysDiffer(Walks, [w \in Walks |-> Ordinal(w)])
<1> DEFINE key == [w \in Walks |-> Ordinal(w)]
<1>1. (\A w \in Walks : key[w] \in Seq(Int)) /\ \A w, x \in Walks : key[w] = key[x] => w = x
  BY WalksInOrder
<1> HIDE DEF key
<1>2. KeysDiffer(Walks, key)
  BY <1>1, SequencesDiffer
<1> QED BY <1>2 DEF key

LEMMA OrdinalsOrder ==
    ASSUME Collected
    PROVE  /\ \A w, x \in Walks : w # x => Less(Ordinal(w), Ordinal(x)) \/ Less(Ordinal(x), Ordinal(w))
           /\ \A w \in Walks : ~Less(Ordinal(w), Ordinal(w))
           /\ \A w, x, y \in Walks : Less(Ordinal(w), Ordinal(x)) /\ Less(Ordinal(x), Ordinal(y)) => Less(Ordinal(w), Ordinal(y))
           /\ \A w, x \in Walks : PathOf(w) = PathOf(x) => w = x
<1>1. \A w : PathOf(w).ordinal = Ordinal(w)
  BY DEF PathOf
<1>2. \A w, x \in Walks : PathOf(w) = PathOf(x) => w = x
  BY <1>1, WalksInOrder
<1> QED BY <1>2, OrdinalsDiffer DEF KeysDiffer

LEMMA ChooseKeeps ==
    ASSUME Collected, NEW S \in SUBSET Walks, NEW v \in Walks, Kept(walk.chosen, S)
    PROVE  Kept(Choose(PathOf(v)), S \cup {v})
<1> DEFINE C == walk.chosen
           same == {p \in C : p.entity = PathOf(v).entity /\ Ids(p.path) = Ids(PathOf(v).path)}
           T == S \cup {v}
<1>1. \A w : PathOf(w).ordinal = Ordinal(w)
  BY DEF PathOf
<1>2. Choose(PathOf(v)) = IF \E p \in same : ~Less(Ordinal(v), p.ordinal) THEN C ELSE (C \ same) \cup {PathOf(v)}
  BY <1>1 DEF Choose
<1>3. \A w : PathOf(w) \in same <=> PathOf(w) \in C /\ Alike(w, v)
  BY DEF Alike
<1>4. /\ IsFiniteSet(C) /\ \A p \in C : \E w \in S : p = PathOf(w)
      /\ \A w \in S : \E x \in S : PathOf(x) \in C /\ Alike(x, w) /\ ~Less(Ordinal(w), Ordinal(x))
      /\ \A w, x \in S : PathOf(w) \in C /\ PathOf(x) \in C /\ Alike(w, x) => w = x
  BY DEF Kept
<1>5. /\ \A w, x, y : Alike(w, x) /\ Alike(x, y) => Alike(w, y)
      /\ \A w, x : Alike(w, x) => Alike(x, w)
      /\ \A w : Alike(w, w)
  BY DEF Alike
<1>6. T \subseteq Walks /\ S \subseteq T /\ v \in T
  OBVIOUS
<1>7. CASE \E p \in same : ~Less(Ordinal(v), p.ordinal)
  <2>1. PICK y \in S : PathOf(y) \in same /\ ~Less(Ordinal(v), Ordinal(y))
    BY <1>1, <1>4, <1>7
  <2>2. PathOf(y) \in C /\ Alike(y, v)
    BY <1>3, <2>1
  <2>3. \A w \in T : PathOf(w) \in C => w \in S
    BY <1>4, <1>6, OrdinalsOrder
  <2>4. \A w \in T : \E x \in T : PathOf(x) \in C /\ Alike(x, w) /\ ~Less(Ordinal(w), Ordinal(x))
    BY <1>4, <2>1, <2>2
  <2>5. \A w, x \in T : PathOf(w) \in C /\ PathOf(x) \in C /\ Alike(w, x) => w = x
    BY <1>4, <2>3
  <2>6. C \subseteq {PathOf(w) : w \in T}
    BY <1>4
  <2> HIDE DEF C, T
  <2>7. Kept(C, T)
    BY <1>4, <2>4, <2>5, <2>6 DEF Kept
  <2> QED BY <1>2, <1>7, <2>7 DEF T
<1>8. CASE \A p \in same : Less(Ordinal(v), p.ordinal)
  <2> DEFINE D == (C \ same) \cup {PathOf(v)}
  <2>1. IsFiniteSet(D)
    <3>1. IsFiniteSet(C \ same)
      BY <1>4, FS_Subset
    <3> QED BY <3>1, FS_AddElement
  <2>2. D \subseteq {PathOf(w) : w \in T}
    BY <1>4
  <2>3. ASSUME NEW w \in T PROVE \E x \in T : PathOf(x) \in D /\ Alike(x, w) /\ ~Less(Ordinal(w), Ordinal(x))
    <3>1. CASE w = v
      BY <1>5, <1>6, <3>1, OrdinalsOrder
    <3>2. CASE w \in S
      <4>1. PICK x \in S : PathOf(x) \in C /\ Alike(x, w) /\ ~Less(Ordinal(w), Ordinal(x))
        BY <1>4, <3>2
      <4>2. CASE PathOf(x) \in same
        <5>1. Alike(v, w) /\ Less(Ordinal(v), Ordinal(x))
          BY <1>1, <1>3, <1>5, <1>8, <4>1, <4>2
        <5>2. ~Less(Ordinal(w), Ordinal(v))
          BY <1>6, <3>2, <4>1, <5>1, OrdinalsOrder
        <5> QED BY <5>1, <5>2
      <4>3. CASE PathOf(x) \notin same
        BY <4>1, <4>3
      <4> QED BY <4>2, <4>3
    <3> QED BY <3>1, <3>2
  <2>4. ASSUME NEW w \in T, NEW x \in T, PathOf(w) \in D, PathOf(x) \in D, Alike(w, x) PROVE w = x
    <3>1. ASSUME NEW y \in T, PathOf(y) \in D, y # v PROVE y \in S /\ PathOf(y) \in C /\ ~Alike(y, v)
      <4>1. PathOf(y) # PathOf(v)
        BY <1>6, <3>1, OrdinalsOrder
      <4> QED BY <1>3, <3>1, <4>1
    <3>2. CASE w = v /\ x = v
      BY <3>2
    <3>3. CASE w = v /\ x # v
      BY <1>5, <2>4, <3>1, <3>3
    <3>4. CASE w # v /\ x = v
      BY <2>4, <3>1, <3>4
    <3>5. CASE w # v /\ x # v
      <4>1. w \in S /\ x \in S /\ PathOf(w) \in C /\ PathOf(x) \in C
        BY <2>4, <3>1, <3>5
      <4> QED BY <1>4, <2>4, <4>1
    <3> QED BY <3>2, <3>3, <3>4, <3>5
  <2>5. Choose(PathOf(v)) = D
    BY <1>2, <1>8
  <2> HIDE DEF D, T
  <2>6. Kept(D, T)
    BY <2>1, <2>2, <2>3, <2>4 DEF Kept
  <2> QED BY <2>5, <2>6 DEF T
<1> QED BY <1>7, <1>8

----------------------------------------------------------------------------
(* The walks that were met so far.                                         *)

(* The walks met so far, by how many steps of each node were tried.        *)
HopAt(e, i) == <<Candidates(e)[i][1], Candidates(e)[i][2]>>
SeenTo(c) == {w \in Walks : \E i \in 1..c - 1 : w[1] = HopAt(target, i)}
SeenBeyond(h, d) == {w \in Walks : w[1] = h /\ (Len(w) = 1 \/ \E j \in 1..d - 1 : w[2] = HopAt(h[2], j))}

LEMMA HopsAt ==
    ASSUME Collected, NEW e
    PROVE  /\ Len(Candidates(e)) \in Nat /\ Len(Candidates(e)) <= Len(Edges) /\ Len(Edges) \in Nat
           /\ \A i \in 1..Len(Candidates(e)) :
                 /\ HopAt(e, i) \in Hops(Known, e) /\ Candidates(e)[i] = StepOf(e, HopAt(e, i))
                 /\ HopAt(e, i)[1] = Candidates(e)[i][1] /\ HopAt(e, i)[2] = Candidates(e)[i][2]
           /\ \A h \in Hops(Known, e) : \E i \in 1..Len(Candidates(e)) : HopAt(e, i) = h
<1>1. /\ Known \in SUBSET DOMAIN Relations /\ Edges \in Seq(collected)
      /\ Candidates(e) \in Seq(StepsFrom(e)) /\ Len(Candidates(e)) <= Len(Edges)
      /\ \A s \in StepsFrom(e) : \E i \in 1..Len(Candidates(e)) : Candidates(e)[i] = s
  BY EdgesAre, CandidatesAre DEF Known
<1>2. Len(Candidates(e)) \in Nat /\ Len(Edges) \in Nat /\ \A i \in 1..Len(Candidates(e)) : Candidates(e)[i] \in StepsFrom(e)
  BY <1>1
<1>3. ASSUME NEW i \in 1..Len(Candidates(e))
      PROVE  /\ HopAt(e, i) \in Hops(Known, e) /\ Candidates(e)[i] = StepOf(e, HopAt(e, i))
             /\ HopAt(e, i)[1] = Candidates(e)[i][1] /\ HopAt(e, i)[2] = Candidates(e)[i][2]
  <2>1. /\ <<Candidates(e)[i][1], Candidates(e)[i][2]>> \in Hops(Known, e)
        /\ Candidates(e)[i] = StepOf(e, <<Candidates(e)[i][1], Candidates(e)[i][2]>>)
    BY <1>1, <1>2, StepsAre
  <2> QED BY <2>1 DEF HopAt
<1>4. ASSUME NEW h \in Hops(Known, e) PROVE \E i \in 1..Len(Candidates(e)) : HopAt(e, i) = h
  <2>1. PICK i \in 1..Len(Candidates(e)) : Candidates(e)[i] = StepOf(e, h)
    BY <1>1 DEF StepsFrom
  <2>2. h = <<h[1], h[2]>>
    BY HopsAre
  <2>3. StepOf(e, h)[1] = h[1] /\ StepOf(e, h)[2] = h[2]
    BY DEF StepOf
  <2>4. HopAt(e, i) = <<StepOf(e, h)[1], StepOf(e, h)[2]>>
    BY <2>1 DEF HopAt
  <2> QED BY <2>2, <2>3, <2>4
<1> QED BY <1>1, <1>2, <1>3, <1>4

LEMMA WalkShapes ==
    ASSUME NEW w \in Walks
    PROVE  /\ w[1] \in Hops(Known, target) /\ w[1][2] # target
           /\ \/ Len(w) = 1 /\ w = <<w[1]>>
              \/ Len(w) = 2 /\ w = <<w[1], w[2]>> /\ query.depth # 1 /\ w[2] \in Hops(Known, w[1][2]) /\ w[2][2] \notin {target, w[1][2]}
<1>1. CASE \E h : Begins(Known, h) /\ w = <<h>>
  <2>1. PICK h : Begins(Known, h) /\ w = <<h>>
    BY <1>1
  <2>2. Len(w) = 1 /\ w[1] = h
    BY <2>1
  <2> QED BY <2>1, <2>2 DEF Begins
<1>2. CASE query.depth # 1 /\ \E h, g : Goes(Known, h, g) /\ w = <<h, g>>
  <2>1. PICK h, g : Goes(Known, h, g) /\ w = <<h, g>>
    BY <1>2
  <2>2. Len(w) = 2 /\ w[1] = h /\ w[2] = g
    BY <2>1
  <2> QED BY <1>2, <2>1, <2>2 DEF Goes, Begins
<1> QED BY <1>1, <1>2, WalksAre DEF Walks

LEMMA ShortWalksAre ==
    ASSUME NEW h \in Hops(Known, target), h[2] # target PROVE <<h>> \in Walks /\ <<h>>[1] = h /\ Len(<<h>>) = 1
<1>1. <<h>>[1] = h /\ Len(<<h>>) = 1
  OBVIOUS
<1> QED BY <1>1, WalksAre DEF Walks, Begins

LEMMA LongWalksAre ==
    ASSUME NEW h \in Hops(Known, target), h[2] # target, query.depth # 1, NEW g \in Hops(Known, h[2]), g[2] \notin {target, h[2]}
    PROVE  <<h, g>> \in Walks /\ <<h, g>>[1] = h /\ <<h, g>>[2] = g /\ Len(<<h, g>>) = 2
<1>1. <<h, g>>[1] = h /\ <<h, g>>[2] = g /\ Len(<<h, g>>) = 2
  OBVIOUS
<1> QED BY <1>1, WalksAre DEF Walks, Goes, Begins

LEMMA SeenGrows ==
    ASSUME Collected
    PROVE  /\ SeenTo(1) = {} /\ SeenTo(Len(Candidates(target)) + 1) = Walks
           /\ \A c \in 1..Len(Candidates(target)) :
                LET h == HopAt(target, c)
                IN  /\ h[2] = target => SeenTo(c + 1) = SeenTo(c)
                    /\ h[2] # target =>
                          /\ SeenBeyond(h, 1) = {<<h>>}
                          /\ query.depth = 1 => SeenTo(c + 1) = SeenTo(c) \cup {<<h>>}
                          /\ SeenTo(c + 1) = SeenTo(c) \cup SeenBeyond(h, Len(Candidates(h[2])) + 1)
<1> DEFINE n == Len(Candidates(target))
<1>0. n \in Nat
  BY HopsAt
<1>1. SeenTo(1) = {}
  BY DEF SeenTo
<1>2. SeenTo(n + 1) = Walks
  <2>1. \A w \in Walks : \E i \in 1..n : w[1] = HopAt(target, i)
    BY WalkShapes, HopsAt
  <2>2. (n + 1) - 1 = n
    BY <1>0
  <2> QED BY <2>1, <2>2 DEF SeenTo
<1>3. ASSUME NEW c \in 1..n PROVE SeenTo(c + 1) = SeenTo(c) \cup {w \in Walks : w[1] = HopAt(target, c)}
  <2>1. (c + 1) - 1 = c /\ \A i : i \in 1..c <=> i \in 1..c - 1 \/ i = c
    BY <1>0
  <2> QED BY <2>1 DEF SeenTo
<1>4. ASSUME NEW c \in 1..n
      PROVE  LET h == HopAt(target, c)
             IN  /\ h[2] = target => SeenTo(c + 1) = SeenTo(c)
                 /\ h[2] # target =>
                       /\ SeenBeyond(h, 1) = {<<h>>}
                       /\ query.depth = 1 => SeenTo(c + 1) = SeenTo(c) \cup {<<h>>}
                       /\ SeenTo(c + 1) = SeenTo(c) \cup SeenBeyond(h, Len(Candidates(h[2])) + 1)
  <2> DEFINE h == HopAt(target, c)
             beyond == {w \in Walks : w[1] = h}
  <2>1. h \in Hops(Known, target) /\ SeenTo(c + 1) = SeenTo(c) \cup beyond
    BY <1>3, HopsAt
  <2> HIDE DEF h
  <2>2. CASE h[2] = target
    <3>1. beyond = {}
      BY <2>2, WalkShapes
    <3> QED BY <2>1, <2>2, <3>1 DEF h
  <2>3. CASE h[2] # target
    <3>1. <<h>> \in Walks /\ <<h>>[1] = h /\ Len(<<h>>) = 1
      BY <2>1, <2>3, ShortWalksAre
    <3>2. \A w \in Walks : w[1] = h /\ Len(w) = 1 => w = <<h>>
      BY WalkShapes
    <3>3. SeenBeyond(h, 1) = {<<h>>}
      BY <3>1, <3>2 DEF SeenBeyond
    <3>4. query.depth = 1 => beyond = {<<h>>}
      BY <3>1, <3>2, WalkShapes
    <3>5. beyond = SeenBeyond(h, Len(Candidates(h[2])) + 1)
      <4>1. (Len(Candidates(h[2])) + 1) - 1 = Len(Candidates(h[2]))
        BY HopsAt
      <4>2. \A w \in Walks : w[1] = h => Len(w) = 1 \/ \E j \in 1..Len(Candidates(h[2])) : w[2] = HopAt(h[2], j)
        BY WalkShapes, HopsAt
      <4> QED BY <4>1, <4>2 DEF SeenBeyond
    <3> QED BY <2>1, <2>3, <3>3, <3>4, <3>5 DEF h
  <2> QED BY <2>2, <2>3
<1> QED BY <1>1, <1>2, <1>4

LEMMA SeenBeyondGrows ==
    ASSUME Collected, query.depth # 1, NEW h \in Hops(Known, target), h[2] # target, NEW d \in 1..Len(Candidates(h[2]))
    PROVE  LET g == HopAt(h[2], d)
           IN  /\ g[2] \in {target, h[2]} => SeenBeyond(h, d + 1) = SeenBeyond(h, d)
               /\ g[2] \notin {target, h[2]} =>
                     SeenBeyond(h, d + 1) = SeenBeyond(h, d) \cup {<<h, g>>} /\ <<h, g>> \in Walks
<1> DEFINE g == HopAt(h[2], d)
           new == {w \in Walks : w[1] = h /\ (Len(w) = 1 \/ w[2] = g)}
<1>1. g \in Hops(Known, h[2])
  BY HopsAt
<1>2. SeenBeyond(h, d + 1) = SeenBeyond(h, d) \cup {w \in Walks : w[1] = h /\ Len(w) = 2 /\ w[2] = g}
  <2>1. (d + 1) - 1 = d /\ \A i : i \in 1..d <=> i \in 1..d - 1 \/ i = d
    BY HopsAt
  <2>2. \A w \in Walks : Len(w) = 1 \/ Len(w) = 2
    BY WalkShapes
  <2> QED BY <2>1, <2>2 DEF SeenBeyond
<1> HIDE DEF g
<1>3. CASE g[2] \in {target, h[2]}
  <2>1. ASSUME NEW w \in Walks, w[1] = h, Len(w) = 2, w[2] = g PROVE FALSE
    BY <1>3, <2>1, WalkShapes
  <2> QED BY <1>2, <1>3, <2>1 DEF g
<1>4. CASE g[2] \notin {target, h[2]}
  <2>1. <<h, g>> \in Walks /\ <<h, g>>[1] = h /\ <<h, g>>[2] = g /\ Len(<<h, g>>) = 2
    BY <1>1, <1>4, LongWalksAre
  <2>2. \A w \in Walks : w[1] = h /\ Len(w) = 2 /\ w[2] = g => w = <<h, g>>
    BY WalkShapes
  <2> QED BY <1>2, <1>4, <2>1, <2>2 DEF g
<1> QED BY <1>3, <1>4

----------------------------------------------------------------------------
(* The traversal: where it may stand.                                      *)

(* What a traversal can be: at the steps of the target, at those of one    *)
(* of its neighbours, or at its end.                                       *)
Budget(c) == (c - 1) * (1 + 2 * Len(Edges))
Chosen(S) == {C \in SUBSET {PathOf(w) : w \in S} : Kept(C, S)}
OuterWalk(c, n, C) ==
    [frames |-> <<[node |-> target, cursor |-> c]>>, nodes |-> <<target>>, steps |-> <<>>, examined |-> n, chosen |-> C]
InnerWalk(c, d, n, C) ==
    [frames |-> <<[node |-> target, cursor |-> c], [node |-> HopAt(target, c - 1)[2], cursor |-> d]>>,
     nodes |-> <<target, HopAt(target, c - 1)[2]>>, steps |-> <<Candidates(target)[c - 1]>>, examined |-> n, chosen |-> C]
EndWalk(n, C) == [frames |-> <<>>, nodes |-> <<>>, steps |-> <<>>, examined |-> n, chosen |-> C]

OuterWalks(c) == {OuterWalk(c, n, C) : n \in 0..Budget(c), C \in Chosen(SeenTo(c))}
InnerSeen(c, d) == SeenTo(c - 1) \cup SeenBeyond(HopAt(target, c - 1), d)
InnerWalks(c, d) == {InnerWalk(c, d, n, C) : n \in 0..(Budget(c - 1) + d), C \in Chosen(InnerSeen(c, d))}
EndWalks == {EndWalk(n, C) : n \in Nat, C \in Chosen(Walks)}

Inward(c) == query.depth # 1 /\ HopAt(target, c - 1)[2] # target
GoodWalks ==
    (UNION {OuterWalks(c) : c \in 1..Len(Candidates(target)) + 1})
    \cup (UNION {UNION {InnerWalks(c, d) : d \in 1..Len(Candidates(HopAt(target, c - 1)[2])) + 1} :
                    c \in {x \in 2..Len(Candidates(target)) + 1 : Inward(x)}})
    \cup EndWalks

(* The traversal is over what was read before it.                          *)
LEMMA SameFresh == ASSUME UNCHANGED <<query, graph, target, collected>> PROVE FreshGraphs' = FreshGraphs
BY DEF FreshGraphs, Freshness, Scope, SpecCompatible, EvidenceOf

LEMMA SameEdges == ASSUME UNCHANGED <<query, graph, target, collected>> PROVE Edges' = Edges /\ Known' = Known
<1>1. Filtered' = Filtered
  BY DEF Filtered, Evident, Resolves, EdgeAllowed
<1>2. Edges' = Edges
  BY <1>1 DEF Edges, Sorted
<1> QED BY <1>2 DEF Known

LEMMA SameCandidates == ASSUME UNCHANGED <<query, graph, target, collected>>, NEW e PROVE Candidates(e)' = Candidates(e)
BY SameEdges DEF Candidates, Sorted, EntityKey

LEMMA SameRanks == ASSUME UNCHANGED <<query, graph, target, collected>>, NEW e, NEW h PROVE RankOf(e, h)' = RankOf(e, h)
<1>1. LegacyOrder(e)' = LegacyOrder(e)
  BY SameCandidates DEF LegacyOrder, Sorted, EntityKey
<1>2. StepOf(e, h)' = StepOf(e, h)
  BY DEF StepOf
<1> QED BY <1>1, <1>2 DEF RankOf, LegacyRank

LEMMA SameWalks == ASSUME UNCHANGED <<query, graph, target, collected>> PROVE Walks' = Walks
<1>1. Known' = Known
  BY SameEdges
<1> QED BY <1>1 DEF Walks, SimpleWalks, Hops

LEMMA SamePaths == ASSUME UNCHANGED <<query, graph, target, collected>>, NEW w PROVE PathOf(w)' = PathOf(w) /\ Ordinal(w)' = Ordinal(w)
<1>1. \A i \in DOMAIN w : RankOf(IF i = 1 THEN target ELSE w[1][2], w[i])' = RankOf(IF i = 1 THEN target ELSE w[1][2], w[i])
  BY SameRanks
<1>2. Ordinal(w)' = Ordinal(w)
  BY <1>1 DEF Ordinal
<1> QED BY <1>2 DEF PathOf

LEMMA SameAlike == ASSUME UNCHANGED <<query, graph, target, collected>>, NEW w, NEW x PROVE Alike(w, x)' <=> Alike(w, x)
BY SamePaths DEF Alike, Ids

LEMMA SameKept == ASSUME UNCHANGED <<query, graph, target, collected>>, NEW C, NEW S PROVE Kept(C, S)' <=> Kept(C, S)
<1>1. /\ \A w : PathOf(w)' = PathOf(w) /\ Ordinal(w)' = Ordinal(w)
      /\ \A w, x : Alike(w, x)' <=> Alike(w, x)
  BY SamePaths, SameAlike
<1>2. (C \subseteq {PathOf(w) : w \in S})' <=> C \subseteq {PathOf(w) : w \in S}
  BY <1>1
<1>3. (\A w \in S : \E x \in S : PathOf(x) \in C /\ Alike(x, w) /\ ~Less(Ordinal(w), Ordinal(x)))'
        <=> \A w \in S : \E x \in S : PathOf(x) \in C /\ Alike(x, w) /\ ~Less(Ordinal(w), Ordinal(x))
  BY <1>1 DEF Less
<1>4. (\A w, x \in S : PathOf(w) \in C /\ PathOf(x) \in C /\ Alike(w, x) => w = x)'
        <=> \A w, x \in S : PathOf(w) \in C /\ PathOf(x) \in C /\ Alike(w, x) => w = x
  BY <1>1
<1> QED BY <1>2, <1>3, <1>4 DEF Kept

LEMMA SameChosen == ASSUME UNCHANGED <<query, graph, target, collected>>, NEW S PROVE Chosen(S)' = Chosen(S)
BY SamePaths, SameKept DEF Chosen

LEMMA SameGoodWalks == ASSUME UNCHANGED <<query, graph, target, collected>> PROVE GoodWalks' = GoodWalks
<1>1. /\ \A e : Candidates(e)' = Candidates(e)
      /\ Walks' = Walks /\ Edges' = Edges
      /\ \A S : Chosen(S)' = Chosen(S)
  BY SameCandidates, SameWalks, SameEdges, SameChosen
<1>2. \A e, i : HopAt(e, i)' = HopAt(e, i)
  BY <1>1 DEF HopAt
<1>3. \A c : SeenTo(c)' = SeenTo(c) /\ Budget(c)' = Budget(c)
  BY <1>1, <1>2 DEF SeenTo, Budget
<1>4. \A h, d : SeenBeyond(h, d)' = SeenBeyond(h, d)
  BY <1>1, <1>2 DEF SeenBeyond
<1>5. \A c : OuterWalks(c)' = OuterWalks(c)
  BY <1>1, <1>3 DEF OuterWalks, OuterWalk
<1>6. \A c, d : InnerWalks(c, d)' = InnerWalks(c, d)
  <2>1. \A c, d : InnerSeen(c, d)' = InnerSeen(c, d)
    BY <1>2, <1>3, <1>4 DEF InnerSeen
  <2> QED BY <1>1, <1>2, <1>3, <2>1 DEF InnerWalks, InnerWalk
<1>7. EndWalks' = EndWalks
  BY <1>1 DEF EndWalks, EndWalk
<1> QED BY <1>1, <1>2, <1>5, <1>6, <1>7 DEF GoodWalks, Inward

LEMMA OuterIsGood ==
    ASSUME NEW c \in 1..Len(Candidates(target)) + 1, NEW n \in 0..Budget(c), NEW C \in Chosen(SeenTo(c))
    PROVE  OuterWalk(c, n, C) \in GoodWalks
<1>1. OuterWalk(c, n, C) \in OuterWalks(c)
  BY DEF OuterWalks
<1> QED BY <1>1 DEF GoodWalks

LEMMA InnerIsGood ==
    ASSUME NEW c \in 2..Len(Candidates(target)) + 1, Inward(c),
           NEW d \in 1..Len(Candidates(HopAt(target, c - 1)[2])) + 1, NEW n \in 0..(Budget(c - 1) + d),
           NEW C \in Chosen(InnerSeen(c, d))
    PROVE  InnerWalk(c, d, n, C) \in GoodWalks
<1>1. InnerWalk(c, d, n, C) \in InnerWalks(c, d)
  BY DEF InnerWalks
<1>2. c \in {x \in 2..Len(Candidates(target)) + 1 : Inward(x)}
  OBVIOUS
<1>3. InnerWalk(c, d, n, C) \in UNION {InnerWalks(c, e) : e \in 1..Len(Candidates(HopAt(target, c - 1)[2])) + 1}
  BY <1>1
<1> QED BY <1>2, <1>3 DEF GoodWalks

LEMMA EndIsGood == ASSUME NEW n \in Nat, NEW C \in Chosen(Walks) PROVE EndWalk(n, C) \in GoodWalks
BY DEF GoodWalks, EndWalks

LEMMA GoodShapes ==
    ASSUME NEW w \in GoodWalks
    PROVE  \/ \E c \in 1..Len(Candidates(target)) + 1 : \E n \in 0..Budget(c) : \E C \in Chosen(SeenTo(c)) :
                w = OuterWalk(c, n, C)
           \/ \E c \in 2..Len(Candidates(target)) + 1 : Inward(c) /\
                \E d \in 1..Len(Candidates(HopAt(target, c - 1)[2])) + 1 : \E n \in 0..(Budget(c - 1) + d) :
                \E C \in Chosen(InnerSeen(c, d)) : w = InnerWalk(c, d, n, C)
           \/ \E n \in Nat : \E C \in Chosen(Walks) : w = EndWalk(n, C)
<1>1. CASE \E c \in 1..Len(Candidates(target)) + 1 : w \in OuterWalks(c)
  BY <1>1 DEF OuterWalks
<1>2. ASSUME NEW c \in 2..Len(Candidates(target)) + 1, Inward(c),
             NEW d \in 1..Len(Candidates(HopAt(target, c - 1)[2])) + 1, w \in InnerWalks(c, d)
      PROVE  \E n \in 0..(Budget(c - 1) + d) : \E C \in Chosen(InnerSeen(c, d)) :
                w = InnerWalk(c, d, n, C)
  BY <1>2 DEF InnerWalks
<1>3. CASE w \in EndWalks
  BY <1>3 DEF EndWalks
<1>4. ASSUME NEW T, T = {x \in 2..Len(Candidates(target)) + 1 : Inward(x)}
      PROVE  \/ w \in EndWalks
             \/ \E c \in 1..Len(Candidates(target)) + 1 : w \in OuterWalks(c)
             \/ \E c \in T : \E d \in 1..Len(Candidates(HopAt(target, c - 1)[2])) + 1 : w \in InnerWalks(c, d)
  BY <1>4 DEF GoodWalks
<1>5. \/ w \in EndWalks
      \/ \E c \in 1..Len(Candidates(target)) + 1 : w \in OuterWalks(c)
      \/ \E c \in {x \in 2..Len(Candidates(target)) + 1 : Inward(x)} :
            \E d \in 1..Len(Candidates(HopAt(target, c - 1)[2])) + 1 : w \in InnerWalks(c, d)
  BY <1>4
<1>6. CASE \E c \in {x \in 2..Len(Candidates(target)) + 1 : Inward(x)} :
            \E d \in 1..Len(Candidates(HopAt(target, c - 1)[2])) + 1 : w \in InnerWalks(c, d)
  <2>1. PICK c \in 2..Len(Candidates(target)) + 1 : Inward(c)
            /\ \E d \in 1..Len(Candidates(HopAt(target, c - 1)[2])) + 1 : w \in InnerWalks(c, d)
    BY <1>6
  <2>2. PICK d \in 1..Len(Candidates(HopAt(target, c - 1)[2])) + 1 : w \in InnerWalks(c, d)
    BY <2>1
  <2> QED BY <1>2, <2>1, <2>2
<1> QED BY <1>1, <1>3, <1>5, <1>6

LEMMA ChosenIs == ASSUME NEW S, NEW C PROVE C \in Chosen(S) <=> Kept(C, S)
BY DEF Chosen, Kept

LEMMA KeptNothing == Kept({}, {})
<1>1. IsFiniteSet({})
  BY FS_EmptySet
<1> QED BY <1>1 DEF Kept

LEMMA LastDropped ==
    ASSUME NEW a, NEW b
    PROVE  DropLast(<<a>>) = <<>> /\ DropLast(<<a, b>>) = <<a>>
<1> DEFINE s == <<a>>
           t == <<a, b>>
           U == {a, b}
<1>1. s \in Seq(U) /\ t \in Seq(U) /\ Len(s) = 1 /\ Len(t) = 2 /\ s[1] = a /\ t[1] = a
  OBVIOUS
<1> HIDE DEF t
<1>2. SubSeq(s, 1, 0) = <<>>
  OBVIOUS
<1>3. SubSeq(t, 1, 1) = <<a>>
  <2>1. SubSeq(t, 1, 1) = [i \in 1..1 |-> t[i]]
    BY <1>1
  <2>2. [i \in 1..1 |-> t[i]] = [i \in 1..1 |-> a]
    BY <1>1
  <2>3. [i \in 1..1 |-> a] = <<a>>
    OBVIOUS
  <2> QED BY <2>1, <2>2, <2>3
<1>4. Len(s) - 1 = 0 /\ Len(t) - 1 = 1
  BY <1>1
<1> QED BY <1>2, <1>3, <1>4 DEF DropLast, t

LEMMA Budgets ==
    ASSUME Collected
    PROVE  /\ \A c \in Nat : Budget(c + 1) = Budget(c) + 1 + 2 * Len(Edges) /\ Budget(c) \in Int
           /\ Budget(1) = 0
           /\ \A c \in 1..Len(Edges) : Budget(c) + Len(Edges) + 1 <= ExaminationBound
<1> DEFINE E == Len(Edges)
<1>1. E \in Nat
  BY HopsAt
<1> HIDE DEF E
<1>2. \A c \in Nat : (c + 1 - 1) * (1 + 2 * E) = (c - 1) * (1 + 2 * E) + 1 + 2 * E /\ (c - 1) * (1 + 2 * E) \in Int
  BY <1>1
<1>3. (1 - 1) * (1 + 2 * E) = 0
  BY <1>1
<1>4. ASSUME NEW c \in 1..E PROVE (c - 1) * (1 + 2 * E) + E + 1 <= 2 * E + (2 * E) * (2 * E)
  <2>1. (c - 1) * (1 + 2 * E) <= (E - 1) * (1 + 2 * E)
    BY <1>1
  <2>2. (E - 1) * (1 + 2 * E) = 2 * (E * E) - E - 1
    BY <1>1
  <2>3. (2 * E) * (2 * E) = 4 * (E * E) /\ E * E >= 0 /\ E * E \in Int
    BY <1>1
  <2>4. (c - 1) * (1 + 2 * E) \in Int
    BY <1>1
  <2> QED BY <1>1, <2>1, <2>2, <2>3, <2>4
<1> QED BY <1>2, <1>3, <1>4 DEF Budget, ExaminationBound, E

----------------------------------------------------------------------------
(* The steps of the traversal.                                             *)

(* Fields of a traversal, changed one at a time.                           *)
Fields == {"frames", "nodes", "steps", "examined", "chosen"}
Traversal(f, g, k, n, C) == [frames |-> f, nodes |-> g, steps |-> k, examined |-> n, chosen |-> C]
Shortened(w, f, g, k) == [w EXCEPT !.frames = f, !.nodes = g, !.steps = k]
Moved(w, i) == [w EXCEPT !.frames[i].cursor = @ + 1, !.examined = @ + 1]
Extended(w, f, g, k, C) == [w EXCEPT !.frames = f, !.nodes = g, !.steps = k, !.chosen = C]
Choosing(w, C) == [w EXCEPT !.chosen = C]

LEMMA SameRecord ==
    ASSUME NEW u, NEW v, DOMAIN u = Fields, DOMAIN v = Fields, u = [i \in DOMAIN u |-> u[i]], v = [i \in DOMAIN v |-> v[i]],
           u.frames = v.frames, u.nodes = v.nodes, u.steps = v.steps, u.examined = v.examined, u.chosen = v.chosen
    PROVE  u = v
<1>1. \A i \in Fields : u[i] = v[i]
  BY DEF Fields
<1> QED BY <1>1

LEMMA PathShortened ==
    ASSUME NEW f, NEW g, NEW k, NEW n, NEW C, NEW f2, NEW g2, NEW k2, NEW w, w = Traversal(f, g, k, n, C)
    PROVE  Shortened(w, f2, g2, k2) = Traversal(f2, g2, k2, n, C)
<1> DEFINE u == Shortened(w, f2, g2, k2)
           v == Traversal(f2, g2, k2, n, C)
<1>1. DOMAIN u = Fields /\ u = [i \in DOMAIN u |-> u[i]]
  BY DEF Fields, Shortened, Traversal
<1>2. DOMAIN v = Fields /\ v = [i \in DOMAIN v |-> v[i]]
  BY DEF Fields, Traversal
<1>3. u.frames = f2
  BY DEF Shortened, Traversal
<1>4. u.nodes = g2
  BY DEF Shortened, Traversal
<1>5. u.steps = k2
  BY DEF Shortened, Traversal
<1>6. u.examined = n
  BY DEF Shortened, Traversal
<1>7. u.chosen = C
  BY DEF Shortened, Traversal
<1>8. v.frames = f2 /\ v.nodes = g2 /\ v.steps = k2 /\ v.examined = n /\ v.chosen = C
  BY DEF Traversal
<1> HIDE DEF u, v
<1>9. u = v
  BY <1>1, <1>2, <1>3, <1>4, <1>5, <1>6, <1>7, <1>8, SameRecord
<1> QED BY <1>9 DEF u, v

LEMMA CursorMoved ==
    ASSUME NEW f, NEW g, NEW k, NEW n, NEW C, NEW i, NEW w, w = Traversal(f, g, k, n, C)
    PROVE  Moved(w, i) = Traversal([f EXCEPT ![i].cursor = @ + 1], g, k, n + 1, C)
<1> DEFINE u == Moved(w, i)
           v == Traversal([f EXCEPT ![i].cursor = @ + 1], g, k, n + 1, C)
<1>1. DOMAIN u = Fields /\ u = [x \in DOMAIN u |-> u[x]]
  BY DEF Fields, Moved, Traversal
<1>2. DOMAIN v = Fields /\ v = [x \in DOMAIN v |-> v[x]]
  BY DEF Fields, Traversal
<1>3. u.frames = [f EXCEPT ![i].cursor = @ + 1]
  BY DEF Moved, Traversal
<1>4. u.nodes = g
  BY DEF Moved, Traversal
<1>5. u.steps = k
  BY DEF Moved, Traversal
<1>6. u.examined = n + 1
  BY DEF Moved, Traversal
<1>7. u.chosen = C
  BY DEF Moved, Traversal
<1>8. v.frames = [f EXCEPT ![i].cursor = @ + 1] /\ v.nodes = g /\ v.steps = k /\ v.examined = n + 1 /\ v.chosen = C
  BY DEF Traversal
<1> HIDE DEF u, v
<1>9. u = v
  BY <1>1, <1>2, <1>3, <1>4, <1>5, <1>6, <1>7, <1>8, SameRecord
<1> QED BY <1>9 DEF u, v

LEMMA PathExtended ==
    ASSUME NEW f, NEW g, NEW k, NEW n, NEW C, NEW f2, NEW g2, NEW k2, NEW D, NEW w, w = Traversal(f, g, k, n, C)
    PROVE  Extended(w, f2, g2, k2, D) = Traversal(f2, g2, k2, n, D)
<1> DEFINE u == Extended(w, f2, g2, k2, D)
           v == Traversal(f2, g2, k2, n, D)
<1>1. DOMAIN u = Fields /\ u = [i \in DOMAIN u |-> u[i]]
  BY DEF Fields, Extended, Traversal
<1>2. DOMAIN v = Fields /\ v = [i \in DOMAIN v |-> v[i]]
  BY DEF Fields, Traversal
<1>3. u.frames = f2
  BY DEF Extended, Traversal
<1>4. u.nodes = g2
  BY DEF Extended, Traversal
<1>5. u.steps = k2
  BY DEF Extended, Traversal
<1>6. u.examined = n
  BY DEF Extended, Traversal
<1>7. u.chosen = D
  BY DEF Extended, Traversal
<1>8. v.frames = f2 /\ v.nodes = g2 /\ v.steps = k2 /\ v.examined = n /\ v.chosen = D
  BY DEF Traversal
<1> HIDE DEF u, v
<1>9. u = v
  BY <1>1, <1>2, <1>3, <1>4, <1>5, <1>6, <1>7, <1>8, SameRecord
<1> QED BY <1>9 DEF u, v

LEMMA PathChosen ==
    ASSUME NEW f, NEW g, NEW k, NEW n, NEW C, NEW D, NEW w, w = Traversal(f, g, k, n, C)
    PROVE  Choosing(w, D) = Traversal(f, g, k, n, D)
<1> DEFINE u == Choosing(w, D)
           v == Traversal(f, g, k, n, D)
<1>1. DOMAIN u = Fields /\ u = [i \in DOMAIN u |-> u[i]]
  BY DEF Fields, Choosing, Traversal
<1>2. DOMAIN v = Fields /\ v = [i \in DOMAIN v |-> v[i]]
  BY DEF Fields, Traversal
<1>3. u.frames = f
  BY DEF Choosing, Traversal
<1>4. u.nodes = g
  BY DEF Choosing, Traversal
<1>5. u.steps = k
  BY DEF Choosing, Traversal
<1>6. u.examined = n
  BY DEF Choosing, Traversal
<1>7. u.chosen = D
  BY DEF Choosing, Traversal
<1>8. v.frames = f /\ v.nodes = g /\ v.steps = k /\ v.examined = n /\ v.chosen = D
  BY DEF Traversal
<1> HIDE DEF u, v
<1>9. u = v
  BY <1>1, <1>2, <1>3, <1>4, <1>5, <1>6, <1>7, <1>8, SameRecord
<1> QED BY <1>9 DEF u, v

LEMMA Fielded ==
    ASSUME NEW f, NEW g, NEW k, NEW n, NEW C, NEW w, w = Traversal(f, g, k, n, C)
    PROVE  w.frames = f /\ w.nodes = g /\ w.steps = k /\ w.examined = n /\ w.chosen = C
BY DEF Traversal

LEMMA OuterShape ==
    ASSUME NEW c, NEW n, NEW C, NEW w, w = OuterWalk(c, n, C)
    PROVE  /\ w.frames # <<>> /\ Len(w.frames) = 1 /\ w.frames[1] = [node |-> target, cursor |-> c]
           /\ w.nodes[1] = target /\ ToSet(w.nodes) = {target}
           /\ w.steps = <<>> /\ w.examined = n /\ w.chosen = C
<1>1. <<target>>[1] = target /\ ToSet(<<target>>) = {target}
  BY DEF ToSet
<1> QED BY <1>1 DEF OuterWalk

(* The traversal at the steps of a neighbour of the target.                *)
Neighbour(c) == HopAt(target, c - 1)[2]
LEMMA InnerShape ==
    ASSUME NEW c, NEW d, NEW n, NEW C
    PROVE  /\ InnerWalk(c, d, n, C).frames # <<>> /\ Len(InnerWalk(c, d, n, C).frames) = 2
           /\ InnerWalk(c, d, n, C).frames[2].node = Neighbour(c) /\ InnerWalk(c, d, n, C).frames[2].cursor = d
           /\ InnerWalk(c, d, n, C).nodes[1] = target /\ InnerWalk(c, d, n, C).nodes[2] = Neighbour(c)
           /\ ToSet(InnerWalk(c, d, n, C).nodes) = {target, Neighbour(c)}
           /\ InnerWalk(c, d, n, C).steps = <<Candidates(target)[c - 1]>>
           /\ InnerWalk(c, d, n, C).examined = n /\ InnerWalk(c, d, n, C).chosen = C
<1> DEFINE e == Neighbour(c)
           w == InnerWalk(c, d, n, C)
<1>1. <<target, e>>[1] = target /\ <<target, e>>[2] = e /\ ToSet(<<target, e>>) = {target, e}
  <2> HIDE DEF e
  <2> DEFINE s == <<target, e>>
  <2>1. DOMAIN s = {1, 2} /\ s[1] = target /\ s[2] = e
    OBVIOUS
  <2> HIDE DEF s
  <2>2. ToSet(s) = {target, e}
    BY <2>1 DEF ToSet
  <2> QED BY <2>1, <2>2 DEF s
<1>2. w = [frames |-> <<[node |-> target, cursor |-> c], [node |-> e, cursor |-> d]>>, nodes |-> <<target, e>>,
           steps |-> <<Candidates(target)[c - 1]>>, examined |-> n, chosen |-> C]
  BY DEF InnerWalk, Neighbour
<1> HIDE DEF e, w
<1>3. /\ w.frames # <<>> /\ Len(w.frames) = 2 /\ w.frames[2].node = e /\ w.frames[2].cursor = d
      /\ w.nodes[1] = target /\ w.nodes[2] = e /\ ToSet(w.nodes) = {target, e}
      /\ w.steps = <<Candidates(target)[c - 1]>> /\ w.examined = n /\ w.chosen = C
  BY <1>1, <1>2
<1> QED BY <1>3 DEF e, w

LEMMA WalkEnds ==
    ASSUME NEW c, NEW n, NEW C, walk = OuterWalk(c, n, C)
    PROVE  [walk EXCEPT !.frames = DropLast(@), !.nodes = DropLast(@), !.steps = IF @ = <<>> THEN @ ELSE DropLast(@)]
              = EndWalk(n, C)
<1> DEFINE f == <<[node |-> target, cursor |-> c]>>
           g == <<target>>
           k == <<>>
           v == walk
<1>1. DropLast(f) = k /\ DropLast(g) = k
  BY LastDropped
<1>2. v = Traversal(f, g, k, n, C) /\ EndWalk(n, C) = Traversal(k, k, k, n, C)
  BY DEF OuterWalk, InnerWalk, EndWalk, Traversal
<1>3. (IF k = <<>> THEN k ELSE DropLast(k)) = k
  OBVIOUS
<1> HIDE DEF f, g, v
<1>4. v.frames = f /\ v.nodes = g /\ v.steps = k
  BY <1>2, Fielded
<1> HIDE DEF k
<1>5. Shortened(v, k, k, k) = Traversal(k, k, k, n, C)
  BY <1>2, PathShortened
<1>6. [v EXCEPT !.frames = DropLast(@), !.nodes = DropLast(@), !.steps = IF @ = <<>> THEN @ ELSE DropLast(@)]
         = Shortened(v, k, k, k)
  BY <1>1, <1>3, <1>4 DEF Shortened
<1> QED BY <1>2, <1>5, <1>6 DEF v

LEMMA WalkTurnsBack ==
    ASSUME NEW c, NEW d, NEW n, NEW C, walk = InnerWalk(c, d, n, C)
    PROVE  [walk EXCEPT !.frames = DropLast(@), !.nodes = DropLast(@), !.steps = IF @ = <<>> THEN @ ELSE DropLast(@)]
              = OuterWalk(c, n, C)
<1> DEFINE e == HopAt(target, c - 1)[2]
           a == [node |-> target, cursor |-> c]
           b == [node |-> e, cursor |-> d]
           s == Candidates(target)[c - 1]
           f == <<a, b>>
           g == <<target, e>>
           k == <<s>>
           f2 == <<a>>
           g2 == <<target>>
           none == <<>>
           v == walk
<1>1. DropLast(f) = f2 /\ DropLast(g) = g2 /\ DropLast(k) = none
  <2> HIDE DEF a, b, e, s
  <2> QED BY LastDropped
<1>2. v = Traversal(f, g, k, n, C) /\ OuterWalk(c, n, C) = Traversal(f2, g2, none, n, C)
  BY DEF OuterWalk, InnerWalk, EndWalk, Traversal
<1>3. (IF k = <<>> THEN k ELSE DropLast(k)) = DropLast(k)
  OBVIOUS
<1> HIDE DEF f, g, k, v, f2, g2, none
<1>4. v.frames = f /\ v.nodes = g /\ v.steps = k
  BY <1>2, Fielded
<1>5. Shortened(v, f2, g2, none) = Traversal(f2, g2, none, n, C)
  BY <1>2, PathShortened
<1>6. [v EXCEPT !.frames = DropLast(@), !.nodes = DropLast(@), !.steps = IF @ = <<>> THEN @ ELSE DropLast(@)]
         = Shortened(v, f2, g2, none)
  BY <1>1, <1>3, <1>4 DEF Shortened
<1> QED BY <1>2, <1>5, <1>6 DEF v

(* A node is left when its steps were tried, the walks over them met.      *)
LEMMA BacktrackIsGood ==
    ASSUME Collected, walk \in GoodWalks, walk.frames # <<>>, Exhausted
    PROVE  [walk EXCEPT !.frames = DropLast(@), !.nodes = DropLast(@), !.steps = IF @ = <<>> THEN @ ELSE DropLast(@)]
              \in GoodWalks
<1>1. Len(Candidates(target)) \in Nat
  BY HopsAt
<1>2. ASSUME NEW c \in 1..Len(Candidates(target)) + 1, NEW n \in 0..Budget(c), NEW C \in Chosen(SeenTo(c)),
             walk = OuterWalk(c, n, C)
      PROVE  EndWalk(n, C) \in GoodWalks
  <2>1. Frame = [node |-> target, cursor |-> c]
    BY <1>2, OuterShape DEF Frame
  <2>2. c > Len(Candidates(target))
    BY <2>1 DEF Exhausted
  <2>3. c = Len(Candidates(target)) + 1
    BY <1>1, <2>2
  <2>4. C \in Chosen(Walks) /\ n \in Nat
    BY <2>3, SeenGrows
  <2> QED BY <2>4, EndIsGood
<1>3. ASSUME NEW c \in 2..Len(Candidates(target)) + 1, Inward(c),
             NEW d \in 1..Len(Candidates(HopAt(target, c - 1)[2])) + 1,
             NEW n \in 0..(Budget(c - 1) + d), NEW C \in Chosen(InnerSeen(c, d)), walk = InnerWalk(c, d, n, C)
      PROVE  OuterWalk(c, n, C) \in GoodWalks
  <2> DEFINE h == HopAt(target, c - 1)
             m == Len(Candidates(h[2]))
             k == c - 1
  <2>1. Frame.node = h[2] /\ Frame.cursor = d
    <3>1. Len(walk.frames) = 2 /\ walk.frames[2].node = Neighbour(c) /\ walk.frames[2].cursor = d
      BY <1>3, InnerShape
    <3> QED BY <3>1 DEF Frame, Neighbour
  <2>2. d > m
    BY <2>1 DEF Exhausted
  <2>3. m \in Nat /\ m <= Len(Edges) /\ Len(Edges) \in Nat
    BY HopsAt
  <2>4. d = m + 1
    BY <2>2, <2>3
  <2>5. k \in 1..Len(Candidates(target)) /\ k + 1 = c /\ k \in Nat /\ c \in 1..Len(Candidates(target)) + 1
    BY <1>1
  <2>6. SeenTo(k + 1) = SeenTo(k) \cup SeenBeyond(h, m + 1)
    BY <1>3, <2>5, SeenGrows DEF Inward
  <2>7. InnerSeen(c, d) = SeenTo(c)
    BY <2>4, <2>5, <2>6 DEF InnerSeen
  <2>8. Budget(k + 1) = Budget(k) + 1 + 2 * Len(Edges) /\ Budget(k) \in Int
    BY <2>5, Budgets
  <2>9. n \in 0..Budget(c)
    <3> HIDE DEF m, k
    <3>1. Budget(c - 1) = Budget(k)
      BY <2>5 DEF k
    <3>2. Budget(c) = Budget(k) + 1 + 2 * Len(Edges)
      BY <2>5, <2>8
    <3> QED BY <2>3, <2>4, <2>8, <3>1, <3>2
  <2> QED BY <2>5, <2>7, <2>9, OuterIsGood
<1>4. \A n, C : walk # EndWalk(n, C)
  BY DEF EndWalk
<1> QED BY <1>2, <1>3, <1>4, GoodShapes, WalkEnds, WalkTurnsBack

(* The step that Examine takes.                                            *)
StepTaken == Candidates(Frame.node)[Frame.cursor]
StepsTaken == Append(walk.steps, StepTaken)
PathTaken ==
    [entity |-> StepTaken[2], path |-> [i \in DOMAIN StepsTaken |-> StepsTaken[i][1]],
     ordinal |-> [i \in DOMAIN StepsTaken |-> LegacyRank(walk.nodes[i], StepsTaken[i])]]
WalkTaken ==
    LET moved == Moved(walk, Len(walk.frames))
    IN  IF StepTaken[2] \in ToSet(walk.nodes) THEN moved
        ELSE IF Len(StepsTaken) < query.depth
        THEN Extended(moved, Append(moved.frames, [node |-> StepTaken[2], cursor |-> 1]),
                      Append(moved.nodes, StepTaken[2]), StepsTaken, Choose(PathTaken))
        ELSE Choosing(moved, Choose(PathTaken))

LEMMA ExamineTakes == Examine => walk' = WalkTaken
BY DEF Examine, WalkTaken, Moved, Extended, Choosing, StepTaken, StepsTaken, PathTaken

LEMMA OneStep ==
    ASSUME NEW s, NEW e, NEW nodes, nodes[1] = e
    PROVE  /\ Append(<<>>, s) = <<s>> /\ Len(<<s>>) = 1
           /\ [i \in DOMAIN <<s>> |-> <<s>>[i][1]] = <<s[1]>>
           /\ [i \in DOMAIN <<s>> |-> LegacyRank(nodes[i], <<s>>[i])] = <<LegacyRank(e, s)>>
<1> DEFINE t == <<s>>
<1>1. Append(<<>>, s) = t /\ Len(t) = 1 /\ DOMAIN t = 1..1 /\ t[1] = s
  OBVIOUS
<1> HIDE DEF t
<1>2. [i \in DOMAIN t |-> t[i][1]] = [i \in 1..1 |-> s[1]]
  BY <1>1
<1>3. [i \in DOMAIN t |-> LegacyRank(nodes[i], t[i])] = [i \in 1..1 |-> LegacyRank(e, s)]
  BY <1>1
<1>4. \A x : [i \in 1..1 |-> x] = <<x>>
  OBVIOUS
<1> QED BY <1>1, <1>2, <1>3, <1>4 DEF t

LEMMA TwoSteps ==
    ASSUME NEW s, NEW t, NEW e, NEW d, NEW nodes, nodes[1] = e, nodes[2] = d
    PROVE  /\ Append(<<s>>, t) = <<s, t>> /\ Len(<<s, t>>) = 2
           /\ [i \in DOMAIN <<s, t>> |-> <<s, t>>[i][1]] = <<s[1], t[1]>>
           /\ [i \in DOMAIN <<s, t>> |-> LegacyRank(nodes[i], <<s, t>>[i])] = <<LegacyRank(e, s), LegacyRank(d, t)>>
<1> DEFINE u == <<s, t>>
<1>1. Append(<<s>>, t) = u
  BY AppendToOne
<1>2. Len(u) = 2 /\ DOMAIN u = 1..2 /\ u[1] = s /\ u[2] = t
  OBVIOUS
<1> HIDE DEF u
<1>3. [i \in DOMAIN u |-> u[i][1]] = [i \in 1..2 |-> IF i = 1 THEN s[1] ELSE t[1]]
  BY <1>2
<1>4. [i \in DOMAIN u |-> LegacyRank(nodes[i], u[i])] = [i \in 1..2 |-> IF i = 1 THEN LegacyRank(e, s) ELSE LegacyRank(d, t)]
  BY <1>2
<1>5. \A x, y : [i \in 1..2 |-> IF i = 1 THEN x ELSE y] = <<x, y>>
  OBVIOUS
<1> QED BY <1>1, <1>2, <1>3, <1>4, <1>5 DEF u

(* At the steps of the target.                                             *)
LEMMA OuterTakes ==
    ASSUME Collected, NEW c, NEW n, NEW C, walk = OuterWalk(c, n, C), ~Exhausted, c \in 1..Len(Candidates(target)) + 1
    PROVE  LET h == HopAt(target, c)
           IN  /\ c \in 1..Len(Candidates(target)) /\ h \in Hops(Known, target)
               /\ Len(walk.frames) = 1 /\ ToSet(walk.nodes) = {target} /\ walk.examined = n /\ walk.chosen = C
               /\ StepTaken = Candidates(target)[c] /\ StepTaken[2] = h[2] /\ StepsTaken = <<StepTaken>> /\ Len(StepsTaken) = 1
               /\ PathTaken = PathOf(<<h>>)
<1> DEFINE h == HopAt(target, c)
           s == Candidates(target)[c]
<1>1. /\ Len(walk.frames) = 1 /\ walk.frames[1] = [node |-> target, cursor |-> c]
      /\ walk.nodes[1] = target /\ ToSet(walk.nodes) = {target}
      /\ walk.steps = <<>> /\ walk.examined = n /\ walk.chosen = C
  BY OuterShape
<1>2. Frame.node = target /\ Frame.cursor = c
  BY <1>1 DEF Frame
<1>3. c \in 1..Len(Candidates(target))
  <2>1. Len(Candidates(target)) \in Nat /\ ~(c > Len(Candidates(target)))
    BY <1>2, HopsAt DEF Exhausted
  <2> QED BY <2>1
<1>4. StepTaken = s
  BY <1>2 DEF StepTaken
<1>5. h \in Hops(Known, target) /\ s = StepOf(target, h) /\ h[1] = s[1] /\ h[2] = s[2]
  BY <1>3, HopsAt
<1> HIDE DEF h, s
<1>6. StepsTaken = <<s>> /\ Len(<<s>>) = 1
  BY <1>1, <1>4, OneStep DEF StepsTaken
<1>7. PathTaken = [entity |-> s[2], path |-> <<s[1]>>, ordinal |-> <<LegacyRank(target, s)>>]
  <2> DEFINE nodes == walk.nodes
             t == <<s>>
  <2>1. nodes[1] = target
    BY <1>1
  <2>2. /\ [i \in DOMAIN t |-> t[i][1]] = <<s[1]>>
        /\ [i \in DOMAIN t |-> LegacyRank(nodes[i], t[i])] = <<LegacyRank(target, s)>>
    <3> HIDE DEF nodes
    <3> QED BY <2>1, OneStep
  <2>3. StepsTaken = t
    BY <1>6
  <2> HIDE DEF t
  <2> QED BY <1>4, <2>2, <2>3 DEF PathTaken
<1>8. PathTaken = PathOf(<<h>>)
  BY <1>5, <1>7, ShortWalk DEF RankOf
<1> QED BY <1>1, <1>3, <1>4, <1>5, <1>6, <1>8 DEF h, s

(* At the steps of a neighbour.                                            *)
LEMMA InnerTakes ==
    ASSUME Collected, NEW c, NEW d, NEW n, NEW C, walk = InnerWalk(c, d, n, C), ~Exhausted,
           c \in 2..Len(Candidates(target)) + 1, NEW h, h = HopAt(target, c - 1), d \in 1..Len(Candidates(h[2])) + 1
    PROVE  LET g == HopAt(h[2], d)
           IN  /\ d \in 1..Len(Candidates(h[2])) /\ h \in Hops(Known, target) /\ g \in Hops(Known, h[2])
               /\ Len(walk.frames) = 2 /\ ToSet(walk.nodes) = {target, h[2]} /\ walk.examined = n /\ walk.chosen = C
               /\ StepTaken[2] = g[2] /\ Len(StepsTaken) = 2
               /\ PathTaken = PathOf(<<h, g>>)
<1> DEFINE g == HopAt(h[2], d)
           r == Candidates(target)[c - 1]
           s == Candidates(h[2])[d]
<1>1. /\ Len(walk.frames) = 2 /\ walk.frames[2].node = h[2] /\ walk.frames[2].cursor = d
      /\ walk.nodes[1] = target /\ walk.nodes[2] = h[2] /\ ToSet(walk.nodes) = {target, h[2]}
      /\ walk.steps = <<r>> /\ walk.examined = n /\ walk.chosen = C
  <2> DEFINE w == InnerWalk(c, d, n, C)
  <2>1. /\ Len(w.frames) = 2 /\ w.frames[2].node = Neighbour(c) /\ w.frames[2].cursor = d
        /\ w.nodes[1] = target /\ w.nodes[2] = Neighbour(c) /\ ToSet(w.nodes) = {target, Neighbour(c)}
        /\ w.steps = <<r>> /\ w.examined = n /\ w.chosen = C
    BY InnerShape
  <2>2. Neighbour(c) = h[2] /\ walk = w
    BY DEF Neighbour
  <2> HIDE DEF w
  <2> QED BY <2>1, <2>2
<1>2. Frame.node = h[2] /\ Frame.cursor = d
  BY <1>1 DEF Frame
<1>3. d \in 1..Len(Candidates(h[2]))
  <2>1. Len(Candidates(h[2])) \in Nat /\ ~(d > Len(Candidates(h[2])))
    BY <1>2, HopsAt DEF Exhausted
  <2> QED BY <2>1
<1>4. StepTaken = s
  BY <1>2 DEF StepTaken
<1>5. h \in Hops(Known, target) /\ r = StepOf(target, h) /\ h[1] = r[1]
  <2>1. c - 1 \in 1..Len(Candidates(target))
    BY HopsAt
  <2> QED BY <2>1, HopsAt
<1>6. g \in Hops(Known, h[2]) /\ s = StepOf(h[2], g) /\ g[1] = s[1] /\ g[2] = s[2]
  BY <1>3, HopsAt
<1> HIDE DEF g, s, r
<1>7. StepsTaken = <<r, s>> /\ Len(<<r, s>>) = 2
  BY <1>1, <1>4, AppendToOne DEF StepsTaken
<1>8. PathTaken = [entity |-> s[2], path |-> <<r[1], s[1]>>, ordinal |-> <<LegacyRank(target, r), LegacyRank(h[2], s)>>]
  <2> DEFINE nodes == walk.nodes
             t == <<r, s>>
             b == h[2]
  <2>1. nodes[1] = target /\ nodes[2] = b
    BY <1>1
  <2>2. /\ [i \in DOMAIN t |-> t[i][1]] = <<r[1], s[1]>>
        /\ [i \in DOMAIN t |-> LegacyRank(nodes[i], t[i])] = <<LegacyRank(target, r), LegacyRank(b, s)>>
    <3> HIDE DEF nodes, b
    <3> QED BY <2>1, TwoSteps
  <2>3. StepsTaken = t
    BY <1>7
  <2> HIDE DEF t
  <2> QED BY <1>4, <2>2, <2>3 DEF PathTaken
<1>9. PathTaken = PathOf(<<h, g>>)
  BY <1>5, <1>6, <1>8, LongWalk DEF RankOf
<1> QED BY <1>1, <1>3, <1>4, <1>5, <1>6, <1>7, <1>9 DEF g, s

LEMMA CursorsMove ==
    ASSUME NEW a, NEW b, NEW c, NEW d
    PROVE  /\ [<<[node |-> a, cursor |-> c]>> EXCEPT ![1].cursor = @ + 1] = <<[node |-> a, cursor |-> c + 1]>>
           /\ [<<[node |-> a, cursor |-> c], [node |-> b, cursor |-> d]>> EXCEPT ![2].cursor = @ + 1]
                 = <<[node |-> a, cursor |-> c], [node |-> b, cursor |-> d + 1]>>
<1> DEFINE x == [node |-> a, cursor |-> c]
           y == [node |-> b, cursor |-> d]
           x2 == [node |-> a, cursor |-> c + 1]
           y2 == [node |-> b, cursor |-> d + 1]
<1>1. \A u, i, v : [[node |-> u, cursor |-> i] EXCEPT !.cursor = v] = [node |-> u, cursor |-> v]
  OBVIOUS
<1>7. x.cursor = c /\ y.cursor = d
  OBVIOUS
<1>8. [x EXCEPT !.cursor = c + 1] = x2
  BY <1>1
<1>9. [y EXCEPT !.cursor = d + 1] = y2
  BY <1>1
<1> HIDE DEF x, y, x2, y2
<1>2. [<<x>> EXCEPT ![1] = x2] = <<x2>> /\ <<x>>[1] = x
  OBVIOUS
<1>3. [<<x, y>> EXCEPT ![2] = y2] = <<x, y2>> /\ <<x, y>>[2] = y
  OBVIOUS
<1>4. [<<x>> EXCEPT ![1].cursor = @ + 1] = [<<x>> EXCEPT ![1] = [x EXCEPT !.cursor = @ + 1]]
  BY <1>2
<1>5. [<<x, y>> EXCEPT ![2].cursor = @ + 1] = [<<x, y>> EXCEPT ![2] = [y EXCEPT !.cursor = @ + 1]]
  BY <1>3
<1>6. [<<x>> EXCEPT ![1].cursor = @ + 1] = <<x2>> /\ [<<x, y>> EXCEPT ![2].cursor = @ + 1] = <<x, y2>>
  BY <1>2, <1>3, <1>4, <1>5, <1>7, <1>8, <1>9
<1> QED BY <1>6 DEF x, y, x2, y2

LEMMA OuterMoves ==
    ASSUME NEW c, NEW n, NEW C
    PROVE  /\ Moved(OuterWalk(c, n, C), 1) = OuterWalk(c + 1, n + 1, C)
           /\ \A D : Choosing(OuterWalk(c, n, C), D) = OuterWalk(c, n, D)
<1> DEFINE f == <<[node |-> target, cursor |-> c]>>
           f2 == <<[node |-> target, cursor |-> c + 1]>>
           g == <<target>>
           k == <<>>
           v == OuterWalk(c, n, C)
<1>1. /\ v = Traversal(f, g, k, n, C) /\ OuterWalk(c + 1, n + 1, C) = Traversal(f2, g, k, n + 1, C)
      /\ \A D : OuterWalk(c, n, D) = Traversal(f, g, k, n, D)
  BY DEF OuterWalk, InnerWalk, EndWalk, Traversal
<1>2. [f EXCEPT ![1].cursor = @ + 1] = f2
  BY CursorsMove
<1> HIDE DEF f, f2, g, k, v
<1>3. Moved(v, 1) = Traversal([f EXCEPT ![1].cursor = @ + 1], g, k, n + 1, C)
  BY <1>1, CursorMoved
<1>4. \A D : Choosing(v, D) = Traversal(f, g, k, n, D)
  BY <1>1, PathChosen
<1> QED BY <1>1, <1>2, <1>3, <1>4 DEF v

LEMMA InnerMoves ==
    ASSUME NEW c, NEW d, NEW n, NEW C
    PROVE  /\ Moved(InnerWalk(c, d, n, C), 2) = InnerWalk(c, d + 1, n + 1, C)
           /\ \A D : Choosing(InnerWalk(c, d, n, C), D) = InnerWalk(c, d, n, D)
<1> DEFINE e == HopAt(target, c - 1)[2]
           f == <<[node |-> target, cursor |-> c], [node |-> e, cursor |-> d]>>
           f2 == <<[node |-> target, cursor |-> c], [node |-> e, cursor |-> d + 1]>>
           g == <<target, e>>
           k == <<Candidates(target)[c - 1]>>
           v == InnerWalk(c, d, n, C)
<1>1. /\ v = Traversal(f, g, k, n, C) /\ InnerWalk(c, d + 1, n + 1, C) = Traversal(f2, g, k, n + 1, C)
      /\ \A D : InnerWalk(c, d, n, D) = Traversal(f, g, k, n, D)
  BY DEF OuterWalk, InnerWalk, EndWalk, Traversal
<1>2. [f EXCEPT ![2].cursor = @ + 1] = f2
  <2> HIDE DEF e
  <2> QED BY CursorsMove
<1> HIDE DEF f, f2, g, k, v
<1>3. Moved(v, 2) = Traversal([f EXCEPT ![2].cursor = @ + 1], g, k, n + 1, C)
  BY <1>1, CursorMoved
<1>4. \A D : Choosing(v, D) = Traversal(f, g, k, n, D)
  BY <1>1, PathChosen
<1> QED BY <1>1, <1>2, <1>3, <1>4 DEF v

LEMMA OuterExtends ==
    ASSUME NEW c, NEW n, NEW C, NEW D, NEW h, h = HopAt(target, c - 1), NEW v, v = OuterWalk(c, n, C)
    PROVE  Extended(v, Append(v.frames, [node |-> h[2], cursor |-> 1]), Append(v.nodes, h[2]), <<Candidates(target)[c - 1]>>, D)
              = InnerWalk(c, 1, n, D)
<1> DEFINE e == h[2]
           x == [node |-> target, cursor |-> c]
           y == [node |-> e, cursor |-> 1]
           f == <<x>>
           f2 == <<x, y>>
           g == <<target>>
           g2 == <<target, e>>
           k == <<>>
           k2 == <<Candidates(target)[c - 1]>>
<1>1. v = Traversal(f, g, k, n, C)
  BY DEF OuterWalk, InnerWalk, EndWalk, Traversal
<1>2. InnerWalk(c, 1, n, D) = Traversal(f2, g2, k2, n, D)
  BY DEF OuterWalk, InnerWalk, EndWalk, Traversal
<1>3. Append(f, y) = f2 /\ Append(g, e) = g2
  <2> HIDE DEF x, y, e
  <2> QED BY AppendToOne
<1> HIDE DEF f, f2, g, g2, k, k2, y, e
<1>4. v.frames = f /\ v.nodes = g
  BY <1>1, Fielded
<1>5. Extended(v, f2, g2, k2, D) = Traversal(f2, g2, k2, n, D)
  BY <1>1, PathExtended
<1>6. Extended(v, Append(v.frames, y), Append(v.nodes, e), k2, D) = Extended(v, f2, g2, k2, D)
  BY <1>3, <1>4
<1> QED BY <1>2, <1>5, <1>6 DEF y, e, k2

(* A step that is examined keeps the walks met, within the bound.          *)
LEMMA ExamineIsGood ==
    ASSUME Collected, walk \in GoodWalks, walk.frames # <<>>, ~Exhausted
    PROVE  WalkTaken \in GoodWalks /\ walk.examined < ExaminationBound
<1> DEFINE N == Len(Candidates(target))
<1>1. N \in Nat /\ N <= Len(Edges) /\ Len(Edges) \in Nat
  BY HopsAt
<1>2. query.depth \in {1, 2}
  <2>1. \A q \in Requests : q.depth \in {1, 2}
    BY QueryAssumption DEF QueryConstants
  <2> QED BY <2>1 DEF Collected, Readable
<1>3. ASSUME NEW c \in 1..N + 1, NEW n \in 0..Budget(c), NEW C \in Chosen(SeenTo(c)), walk = OuterWalk(c, n, C)
      PROVE  WalkTaken \in GoodWalks /\ walk.examined < ExaminationBound
  <2> DEFINE h == HopAt(target, c)
             D == Choose(PathTaken)
  <2>1. /\ c \in 1..N /\ h \in Hops(Known, target)
        /\ Len(walk.frames) = 1 /\ ToSet(walk.nodes) = {target} /\ walk.examined = n /\ walk.chosen = C
        /\ StepTaken = Candidates(target)[c] /\ StepTaken[2] = h[2] /\ StepsTaken = <<StepTaken>> /\ Len(StepsTaken) = 1
        /\ PathTaken = PathOf(<<h>>)
    BY <1>3, OuterTakes
  <2>2. /\ Budget(c) \in Int /\ Budget(c + 1) = Budget(c) + 1 + 2 * Len(Edges)
        /\ c \in 1..Len(Edges) /\ Budget(c) + Len(Edges) + 1 <= ExaminationBound
    <3>1. c \in Nat /\ c \in 1..Len(Edges)
      BY <1>1, <2>1
    <3> QED BY <3>1, Budgets
  <2>3. walk.examined < ExaminationBound
    <3>1. ExaminationBound \in Int
      BY <1>1 DEF ExaminationBound
    <3>2. n <= Budget(c) /\ n \in Int
      BY <2>2
    <3> HIDE DEF N
    <3> QED BY <1>1, <2>1, <2>2, <3>1, <3>2
  <2>4. n + 1 \in 0..Budget(c + 1) /\ n + 1 \in 0..(Budget(c) + 1) /\ c + 1 \in 1..N + 1 /\ c + 1 \in 2..N + 1
    <3> HIDE DEF N
    <3> QED BY <1>1, <2>1, <2>2
  <2>5. (c + 1) - 1 = c
    BY <2>1
  <2>6. Moved(walk, Len(walk.frames)) = OuterWalk(c + 1, n + 1, C)
    <3>1. Moved(OuterWalk(c, n, C), 1) = OuterWalk(c + 1, n + 1, C)
      BY OuterMoves
    <3>2. walk = OuterWalk(c, n, C) /\ Len(walk.frames) = 1
      BY <1>3, <2>1
    <3> QED BY <3>1, <3>2
  <2>7. Kept(C, SeenTo(c)) /\ walk.chosen = C
    BY <2>1, ChosenIs
  <2>8. /\ h[2] = target => SeenTo(c + 1) = SeenTo(c)
        /\ h[2] # target => /\ SeenBeyond(h, 1) = {<<h>>}
                            /\ query.depth = 1 => SeenTo(c + 1) = SeenTo(c) \cup {<<h>>}
    BY <2>1, SeenGrows
  <2>9. CASE h[2] = target
    <3>1. WalkTaken = OuterWalk(c + 1, n + 1, C)
      BY <2>1, <2>6, <2>9 DEF WalkTaken
    <3>2. C \in Chosen(SeenTo(c + 1))
      BY <2>8, <2>9
    <3> QED BY <2>3, <2>4, <3>1, <3>2, OuterIsGood
  <2>10. CASE h[2] # target
    <3>1. <<h>> \in Walks
      BY <2>1, <2>10, ShortWalksAre
    <3>2. Kept(D, SeenTo(c) \cup {<<h>>})
      <4> DEFINE S == SeenTo(c)
                 v == <<h>>
      <4>1. S \in SUBSET Walks /\ v \in Walks /\ Kept(walk.chosen, S) /\ PathTaken = PathOf(v)
        BY <2>1, <2>7, <3>1 DEF SeenTo
      <4> HIDE DEF S, v
      <4>2. Kept(Choose(PathOf(v)), S \cup {v})
        BY <4>1, ChooseKeeps
      <4> QED BY <4>1, <4>2 DEF S, v
    <3>3. CASE query.depth = 1
      <4>1. WalkTaken = Choosing(OuterWalk(c + 1, n + 1, C), D)
        BY <2>1, <2>6, <2>10, <3>3 DEF WalkTaken
      <4>2. WalkTaken = OuterWalk(c + 1, n + 1, D)
        BY <4>1, OuterMoves
      <4>3. D \in Chosen(SeenTo(c + 1))
        BY <2>8, <2>10, <3>2, <3>3, ChosenIs
      <4> QED BY <2>3, <2>4, <4>2, <4>3, OuterIsGood
    <3>4. CASE query.depth = 2
      <4> DEFINE b == c + 1
                 m == n + 1
                 v == OuterWalk(b, m, C)
      <4>1. h = HopAt(target, b - 1) /\ StepTaken = Candidates(target)[b - 1]
        BY <2>1, <2>5
      <4>2. WalkTaken = Extended(v, Append(v.frames, [node |-> StepTaken[2], cursor |-> 1]),
                                 Append(v.nodes, StepTaken[2]), StepsTaken, D)
        <5>1. StepTaken[2] \notin ToSet(walk.nodes) /\ Len(StepsTaken) < query.depth
          BY <2>1, <2>10, <3>4
        <5> HIDE DEF D, v
        <5>2. Moved(walk, Len(walk.frames)) = v
          BY <2>6 DEF v
        <5> QED BY <5>1, <5>2 DEF WalkTaken, D
      <4>3. WalkTaken = Extended(v, Append(v.frames, [node |-> h[2], cursor |-> 1]),
                                 Append(v.nodes, h[2]), <<Candidates(target)[b - 1]>>, D)
        <5>1. StepTaken[2] = h[2] /\ StepsTaken = <<Candidates(target)[b - 1]>>
          BY <2>1, <4>1
        <5> HIDE DEF v, D, b, h
        <5> QED BY <4>2, <5>1
      <4>4. WalkTaken = InnerWalk(b, 1, m, D)
        <5>1. v = OuterWalk(b, m, C)
          OBVIOUS
        <5> HIDE DEF v, D, b, m, h
        <5> QED BY <4>1, <4>3, <5>1, OuterExtends
      <4>5. Inward(b)
        BY <2>10, <3>4, <4>1 DEF Inward
      <4>6. InnerSeen(b, 1) = SeenTo(c) \cup {<<h>>}
        BY <2>5, <2>8, <2>10 DEF InnerSeen
      <4>7. D \in Chosen(InnerSeen(b, 1))
        BY <3>2, <4>6, ChosenIs
      <4>8. b \in 2..N + 1 /\ m \in 0..(Budget(b - 1) + 1) /\ 1 \in 1..Len(Candidates(HopAt(target, b - 1)[2])) + 1
        <5>1. Len(Candidates(HopAt(target, b - 1)[2])) \in Nat
          BY HopsAt
        <5> QED BY <2>4, <2>5, <5>1
      <4> HIDE DEF b, m, D
      <4> QED BY <2>3, <4>4, <4>5, <4>7, <4>8, InnerIsGood
    <3> QED BY <1>2, <3>3, <3>4
  <2> QED BY <2>9, <2>10
<1>4. ASSUME NEW c \in 2..N + 1, Inward(c), NEW d \in 1..Len(Candidates(HopAt(target, c - 1)[2])) + 1,
             NEW n \in 0..(Budget(c - 1) + d), NEW C \in Chosen(InnerSeen(c, d)), walk = InnerWalk(c, d, n, C)
      PROVE  WalkTaken \in GoodWalks /\ walk.examined < ExaminationBound
  <2> DEFINE h == HopAt(target, c - 1)
             g == HopAt(h[2], d)
             D == Choose(PathTaken)
  <2>1. /\ d \in 1..Len(Candidates(h[2])) /\ h \in Hops(Known, target) /\ g \in Hops(Known, h[2])
        /\ Len(walk.frames) = 2 /\ ToSet(walk.nodes) = {target, h[2]} /\ walk.examined = n /\ walk.chosen = C
        /\ StepTaken[2] = g[2] /\ Len(StepsTaken) = 2
        /\ PathTaken = PathOf(<<h, g>>)
    BY <1>4, InnerTakes
  <2>2. query.depth = 2 /\ h[2] # target
    BY <1>2, <1>4 DEF Inward
  <2>3. Len(Candidates(h[2])) \in Nat /\ Len(Candidates(h[2])) <= Len(Edges)
    BY HopsAt
  <2>4. c - 1 \in 1..Len(Edges) /\ Budget(c - 1) \in Int /\ Budget(c - 1) + Len(Edges) + 1 <= ExaminationBound
    <3>1. c - 1 \in Nat /\ c - 1 \in 1..Len(Edges)
      <4> HIDE DEF N
      <4> QED BY <1>1
    <3> QED BY <3>1, Budgets
  <2>5. walk.examined < ExaminationBound
    <3>1. ExaminationBound \in Int
      BY <1>1 DEF ExaminationBound
    <3>2. n <= Budget(c - 1) + d /\ n \in Int /\ d <= Len(Edges)
      BY <1>1, <2>1, <2>3, <2>4
    <3> QED BY <1>1, <2>1, <2>4, <3>1, <3>2
  <2>6. Moved(walk, Len(walk.frames)) = InnerWalk(c, d + 1, n + 1, C)
    <3>1. Moved(InnerWalk(c, d, n, C), 2) = InnerWalk(c, d + 1, n + 1, C)
      BY InnerMoves
    <3>2. walk = InnerWalk(c, d, n, C) /\ Len(walk.frames) = 2
      BY <1>4, <2>1
    <3> QED BY <3>1, <3>2
  <2>7. /\ n + 1 \in 0..(Budget(c - 1) + (d + 1)) /\ d + 1 \in 1..Len(Candidates(h[2])) + 1
    BY <2>1, <2>3, <2>4
  <2>8. Kept(C, InnerSeen(c, d)) /\ InnerSeen(c, d) \in SUBSET Walks
    BY ChosenIs DEF InnerSeen, SeenTo, SeenBeyond
  <2>9. /\ g[2] \in {target, h[2]} => SeenBeyond(h, d + 1) = SeenBeyond(h, d)
        /\ g[2] \notin {target, h[2]} =>
              SeenBeyond(h, d + 1) = SeenBeyond(h, d) \cup {<<h, g>>} /\ <<h, g>> \in Walks
    BY <2>1, <2>2, SeenBeyondGrows
  <2>10. CASE g[2] \in {target, h[2]}
    <3>1. WalkTaken = InnerWalk(c, d + 1, n + 1, C)
      BY <2>1, <2>6, <2>10 DEF WalkTaken
    <3>2. C \in Chosen(InnerSeen(c, d + 1))
      BY <2>9, <2>10 DEF InnerSeen
    <3> QED BY <1>4, <2>5, <2>7, <3>1, <3>2, InnerIsGood
  <2>11. CASE g[2] \notin {target, h[2]}
    <3>1. WalkTaken = Choosing(InnerWalk(c, d + 1, n + 1, C), D)
      BY <2>1, <2>2, <2>6, <2>11 DEF WalkTaken
    <3>2. WalkTaken = InnerWalk(c, d + 1, n + 1, D)
      BY <3>1, InnerMoves
    <3>3. Kept(D, InnerSeen(c, d) \cup {<<h, g>>})
      <4> DEFINE S == InnerSeen(c, d)
                 v == <<h, g>>
      <4>1. S \in SUBSET Walks /\ v \in Walks /\ Kept(walk.chosen, S) /\ PathTaken = PathOf(v)
        BY <2>1, <2>8, <2>9, <2>11
      <4> HIDE DEF S, v
      <4>2. Kept(Choose(PathOf(v)), S \cup {v})
        BY <4>1, ChooseKeeps
      <4> QED BY <4>1, <4>2 DEF S, v
    <3>4. InnerSeen(c, d + 1) = InnerSeen(c, d) \cup {<<h, g>>}
      BY <2>9, <2>11 DEF InnerSeen
    <3>5. D \in Chosen(InnerSeen(c, d + 1))
      BY <3>3, <3>4, ChosenIs
    <3> HIDE DEF D
    <3> QED BY <1>4, <2>5, <2>7, <3>2, <3>5, InnerIsGood
  <2> QED BY <2>10, <2>11
<1>5. \A n, C : walk # EndWalk(n, C)
  BY DEF EndWalk
<1> HIDE DEF N
<1>6. \/ \E c \in 1..N + 1 : \E n \in 0..Budget(c) : \E C \in Chosen(SeenTo(c)) : walk = OuterWalk(c, n, C)
      \/ \E c \in 2..N + 1 : Inward(c) /\
           \E d \in 1..Len(Candidates(HopAt(target, c - 1)[2])) + 1 : \E n \in 0..(Budget(c - 1) + d) :
           \E C \in Chosen(InnerSeen(c, d)) : walk = InnerWalk(c, d, n, C)
  BY <1>5, GoodShapes DEF N
<1> QED BY <1>3, <1>4, <1>6

----------------------------------------------------------------------------
(* The inductive invariant.                                                *)

(* The inductive invariant: what was read and walked, by the stage.        *)
Asking == query.kind \in {"related", "trace", "search"}
Room == PathLimit(target)
First == InitialSteps(target)
FullAnswer == Top(First \o Shown, query.limit)
AllChosen == Chosen(Walks)
AllRead == SimpleWalks(Holding) \subseteq SimpleWalks(collected)
FirstRows == RowsOf({target})
Neighbours == (UNION {Endpoints(r) : r \in FirstRows}) \ {target}
AllRows == FirstRows \cup RowsOf(Neighbours)

Collecting ==
    \/ level = 0 /\ collected = {} /\ frontier = {target}
    \/ level = 1 /\ collected = FirstRows /\ frontier = Neighbours
    \/ level = 2 /\ collected = AllRows

Finishing ==
    \/ target = 0 /\ answer = <<>>
    \/ ~(Room > 0) /\ answer = First
    \/ Room > 0 /\ (Limited \/ AllRead) /\ walk.chosen \in AllChosen /\ answer = FullAnswer /\ ProjectionWarnings \subseteq warnings

QueryInv ==
    /\ query \in Requests /\ graph \in Worlds /\ stage \in {"ready", "collect", "walk", "done", "failed"}
    /\ stage = "ready" => target = 0 /\ collected = {} /\ level = 0 /\ answer = <<>> /\ walk = NoWalk
    /\ stage \in {"collect", "walk"} \/ Answered =>
          ~Fatal /\ Asking /\ collected \subseteq Holding /\ ScopeWarnings \subseteq warnings
    /\ stage = "collect" => Room > 0 /\ answer = <<>> /\ walk = NoWalk /\ (Limited \/ Collecting) /\ level \in 0..2
    /\ stage = "walk" => Room > 0 /\ answer = <<>> /\ walk \in GoodWalks /\ (Limited \/ AllRead)
    /\ Answered => Finishing

LEMMA SameHolding ==
    ASSUME UNCHANGED <<query, graph>>
    PROVE  /\ Holding' = Holding /\ ScopeWarnings' = ScopeWarnings /\ (Fatal' <=> Fatal) /\ FreshGraphs' = FreshGraphs
           /\ (Asking' <=> Asking)
<1>1. \A v : UpToDate(v)' <=> UpToDate(v)
  BY DEF UpToDate, EvidenceOf
<1>2. Holding' = Holding
  BY <1>1 DEF Holding, Scope
<1>3. \A v : Freshness(v)' = Freshness(v)
  BY DEF Freshness, SpecCompatible, Scope, EvidenceOf
<1>4. FreshGraphs' = FreshGraphs
  BY <1>3 DEF FreshGraphs, Scope
<1>5. ScopeWarnings' = ScopeWarnings /\ (Fatal' <=> Fatal)
  BY <1>3, <1>4 DEF ScopeWarnings, Fatal, Scope
<1> QED BY <1>2, <1>4, <1>5 DEF Asking

LEMMA SameRows ==
    ASSUME UNCHANGED <<query, graph, target>>
    PROVE  FirstRows' = FirstRows /\ Neighbours' = Neighbours /\ AllRows' = AllRows
<1>1. \A r : Allowed(r)' <=> Allowed(r)
  BY SameHolding DEF Allowed
<1>2. \A e : RowsOf(e)' = RowsOf(e)
  BY <1>1, SameHolding DEF RowsOf, Touching
<1>3. FirstRows' = FirstRows
  <2>1. FirstRows = {r \in Touching({target}, Asked) : Allowed(r)}
    BY DEF FirstRows, RowsOf
  <2> QED BY <1>1, SameHolding DEF FirstRows, RowsOf, Touching
<1>4. Neighbours' = Neighbours
  BY <1>3 DEF Neighbours
<1>5. AllRows' = AllRows
  BY <1>1, <1>3, <1>4, SameHolding DEF AllRows, RowsOf, Touching
<1> QED BY <1>3, <1>4, <1>5

LEMMA SameRoom ==
    ASSUME UNCHANGED <<query, graph, target>>
    PROVE  Room' = Room /\ First' = First
BY DEF Room, First, PathLimit, InitialSteps, Resolves

LEMMA SameAll ==
    ASSUME UNCHANGED <<query, graph, target, collected>>
    PROVE  (AllRead' <=> AllRead) /\ AllChosen' = AllChosen
<1>1. AllRead' <=> AllRead
  BY SameHolding DEF AllRead, SimpleWalks, Hops
<1>2. AllChosen' = AllChosen
  BY SameWalks, SamePaths, SameKept DEF AllChosen, Chosen
<1> QED BY <1>1, <1>2

LEMMA SameAnswer ==
    ASSUME UNCHANGED <<query, graph, target, collected, walk>>
    PROVE  FullAnswer' = FullAnswer /\ ProjectionWarnings' = ProjectionWarnings
<1>1. PathLimit(target)' = PathLimit(target)
  BY DEF PathLimit, InitialSteps, Resolves
<1>2. Paths' = Paths
  BY <1>1 DEF Paths, Sorted, PathKey, Score
<1>3. \A i : RoleKey(i)' = RoleKey(i)
  BY <1>2 DEF RoleKey, Score
<1>4. Shown' = Shown
  BY <1>2, <1>3 DEF Shown, Sorted
<1>5. FullAnswer' = FullAnswer
  BY <1>4, SameRoom DEF FullAnswer
<1>6. ProjectionWarnings' = ProjectionWarnings
  BY <1>1, SameHolding DEF ProjectionWarnings, Filtered, Evident, EdgeAllowed, Resolves, Warn
<1> QED BY <1>5, <1>6

LEMMA HopsMove ==
    ASSUME NEW from, NEW to, NEW e, NEW h \in Hops(from, e), h[1] \in to PROVE h \in Hops(to, e)
<1> DEFINE r == h[1]
<1>1. /\ h = <<r, h[2]>> /\ r \in to
      /\ \/ query.direction \in {"out", "both"} /\ Relations[r].source = e /\ h[2] = Relations[r].target
         \/ query.direction \in {"in", "both"} /\ Relations[r].target = e /\ h[2] = Relations[r].source
  BY HopsAre
<1> HIDE DEF r
<1>2. /\ query.direction \in {"out", "both"} /\ Relations[r].source = e => <<r, Relations[r].target>> \in Hops(to, e)
      /\ query.direction \in {"in", "both"} /\ Relations[r].target = e => <<r, Relations[r].source>> \in Hops(to, e)
  BY <1>1, HopsAre
<1> QED BY <1>1, <1>2

LEMMA ReadIs ==
    ASSUME Readable
    PROVE  LET read == ToSet(Top(Sorted(RowsOf(frontier), RelationKey), ReadLimit))
           IN  read \subseteq Holding /\ (read = RowsOf(frontier) \/ \E w \in ReadWarnings : w.code = "graph_relationship_read_truncated")
<1> DEFINE S == RowsOf(frontier)
           read == ToSet(Top(Sorted(S, RelationKey), ReadLimit))
<1>1. S \subseteq Holding
  BY QueryRowsAre DEF Reaching
<1>2. S \in SUBSET DOMAIN Relations
  BY <1>1, HoldingRests
<1>3. ReadLimit \in Nat
  BY QueryAssumption DEF QueryConstants
<1>4. Cardinality(S) \in Nat
  BY <1>2, RelationsSorted, FS_CardinalityType
<1>5. Cardinality(S) > ReadLimit => \E w \in ReadWarnings : w.code = "graph_relationship_read_truncated"
  <2> DEFINE w == [code |-> "graph_relationship_read_truncated", vaults |-> FreshGraphs]
  <2>1. Cardinality(S) > ReadLimit => w \in ReadWarnings
    BY DEF ReadWarnings, Warn
  <2>2. w.code = "graph_relationship_read_truncated"
    OBVIOUS
  <2> HIDE DEF w
  <2> QED BY <2>1, <2>2
<1> HIDE DEF S
<1>6. read \subseteq S /\ (Cardinality(S) <= ReadLimit => read = S)
  BY <1>2, <1>3, TopOfRelations
<1>7. read = S \/ \E w \in ReadWarnings : w.code = "graph_relationship_read_truncated"
  BY <1>3, <1>4, <1>5, <1>6
<1> HIDE DEF read
<1> QED BY <1>1, <1>6, <1>7 DEF read, S

(* After the last level every walk over what holds was read.               *)
LEMMA EverythingRead ==
    ASSUME Readable, Collecting, level = query.depth \/ frontier = {}
    PROVE  AllRead
<1>1. query.depth \in {1, 2}
  <2>1. \A q \in Requests : q.depth \in {1, 2}
    BY QueryAssumption DEF QueryConstants
  <2> QED BY <2>1 DEF Readable
<1>2. level \in {1, 2} /\ FirstRows \subseteq collected
  <2>1. level # 0
    BY <1>1 DEF Collecting
  <2> QED BY <2>1 DEF Collecting, AllRows
<1>3. ASSUME NEW h, Begins(Holding, h)
      PROVE  h[1] \in FirstRows /\ Begins(collected, h) /\ h[2] \in Neighbours
  <2>1. /\ h[1] \in Holding /\ h = <<h[1], h[2]>> /\ h[2] # target
        /\ \/ query.direction \in {"out", "both"} /\ Relations[h[1]].source = target /\ h[2] = Relations[h[1]].target
           \/ query.direction \in {"in", "both"} /\ Relations[h[1]].target = target /\ h[2] = Relations[h[1]].source
    BY <1>3, HopsAre DEF Begins
  <2>2. h[1] \in FirstRows
    BY <2>1, QueryRowsAre DEF FirstRows, Reaching
  <2>3. h \in Hops(collected, target)
    <3>1. h[1] \in collected
      BY <1>2, <2>2
    <3> QED BY <1>3, <3>1, HopsMove DEF Begins
  <2>4. h[2] \in Endpoints(h[1])
    BY <2>1 DEF Endpoints
  <2> QED BY <2>1, <2>2, <2>3, <2>4 DEF Begins, Neighbours
<1>4. ASSUME NEW h, NEW g, Goes(Holding, h, g), query.depth # 1 PROVE Goes(collected, h, g)
  <2>1. /\ g[1] \in Holding /\ g = <<g[1], g[2]>>
        /\ \/ query.direction \in {"out", "both"} /\ Relations[g[1]].source = h[2] /\ g[2] = Relations[g[1]].target
           \/ query.direction \in {"in", "both"} /\ Relations[g[1]].target = h[2] /\ g[2] = Relations[g[1]].source
    BY <1>4, HopsAre DEF Goes
  <2>2. Begins(collected, h) /\ h[2] \in Neighbours
    BY <1>3, <1>4 DEF Goes
  <2>3. g[1] \in RowsOf(Neighbours)
    BY <2>1, <2>2, QueryRowsAre DEF Reaching
  <2>4. level # 1
    BY <1>1, <1>4, <2>2 DEF Collecting
  <2>5. g[1] \in collected
    BY <1>2, <2>3, <2>4 DEF Collecting, AllRows
  <2>6. g \in Hops(collected, h[2])
    BY <1>4, <2>5, HopsMove DEF Goes
  <2> QED BY <1>4, <2>2, <2>6 DEF Goes
<1>5. ASSUME NEW w \in SimpleWalks(Holding) PROVE w \in SimpleWalks(collected)
  <2>1. \/ \E h : Begins(Holding, h) /\ w = <<h>>
        \/ query.depth # 1 /\ \E h, g : Goes(Holding, h, g) /\ w = <<h, g>>
    BY WalksAre
  <2>2. \/ \E h : Begins(collected, h) /\ w = <<h>>
        \/ query.depth # 1 /\ \E h, g : Goes(collected, h, g) /\ w = <<h, g>>
    BY <1>3, <1>4, <2>1
  <2> QED BY <2>2, WalksAre
<1> QED BY <1>5 DEF AllRead

LEMMA WalkStarts ==
    ASSUME Collected
    PROVE  [NoWalk EXCEPT !.frames = <<[node |-> target, cursor |-> 1]>>, !.nodes = <<target>>] \in GoodWalks
<1> DEFINE f == <<[node |-> target, cursor |-> 1]>>
           g == <<target>>
           none == <<>>
           C == {}
           n == 0
           v == NoWalk
<1>1. v = Traversal(none, none, none, n, C)
  BY DEF NoWalk, Traversal
<1>2. OuterWalk(1, n, C) = Traversal(f, g, none, n, C)
  BY DEF OuterWalk, Traversal
<1>3. OuterWalk(1, n, C) \in GoodWalks
  <2>1. 1 \in 1..Len(Candidates(target)) + 1 /\ Budget(1) = 0 /\ n \in 0..Budget(1)
    <3>1. Len(Candidates(target)) \in Nat
      BY HopsAt
    <3>2. Budget(1) = 0
      BY Budgets
    <3> QED BY <3>1, <3>2
  <2>2. C \in Chosen(SeenTo(1))
    BY KeptNothing, ChosenIs, SeenGrows
  <2> QED BY <2>1, <2>2, OuterIsGood
<1> HIDE DEF f, g, none, C, n, v
<1>4. v.steps = none
  BY <1>1, Fielded
<1>5. Shortened(v, f, g, none) = Traversal(f, g, none, n, C)
  BY <1>1, PathShortened
<1>6. [v EXCEPT !.frames = f, !.nodes = g] = Traversal(f, g, none, n, C)
  <2> DEFINE u == [v EXCEPT !.frames = f, !.nodes = g]
             t == Traversal(f, g, none, n, C)
  <2>1. DOMAIN u = Fields /\ u = [i \in DOMAIN u |-> u[i]]
    BY <1>1 DEF Fields, Traversal
  <2>2. DOMAIN t = Fields /\ t = [i \in DOMAIN t |-> t[i]]
    BY DEF Fields, Traversal
  <2>3. u.frames = f
    BY <1>1 DEF Traversal
  <2>4. u.nodes = g
    BY <1>1 DEF Traversal
  <2>5. u.steps = none /\ u.examined = n /\ u.chosen = C
    BY <1>1 DEF Traversal
  <2>6. t.frames = f /\ t.nodes = g /\ t.steps = none /\ t.examined = n /\ t.chosen = C
    BY Fielded
  <2> HIDE DEF u, t
  <2>7. u = t
    BY <2>1, <2>2, <2>3, <2>4, <2>5, <2>6, SameRecord
  <2> QED BY <2>7 DEF u, t
<1> QED BY <1>2, <1>3, <1>6 DEF f, g, v

LEMMA WalkFinishes ==
    ASSUME walk \in GoodWalks, walk.frames = <<>>
    PROVE  walk.chosen \in AllChosen
<1>1. \A c, n, C : walk # OuterWalk(c, n, C)
  BY DEF OuterWalk
<1>2. \A c, d, n, C : walk # InnerWalk(c, d, n, C)
  BY DEF InnerWalk
<1>3. PICK n \in Nat : \E C \in Chosen(Walks) : walk = EndWalk(n, C)
  BY <1>1, <1>2, GoodShapes
<1>4. PICK C \in Chosen(Walks) : walk = EndWalk(n, C)
  BY <1>3
<1>5. walk.chosen = C
  BY <1>4 DEF EndWalk
<1> QED BY <1>4, <1>5 DEF AllChosen

LEMMA QueryInit0 == QueryInit => QueryInv
BY DEF QueryInit, QueryInv, Answered

LEMMA LimitedStays == Limited /\ warnings \subseteq warnings' => Limited'
BY DEF Limited

LEMMA RefuseKeeps == QueryInv /\ Refuse => QueryInv'
BY DEF QueryInv, Refuse, Answered

LEMMA NoResourceKeeps == QueryInv /\ NoResource => QueryInv'
BY DEF QueryInv, NoResource, Answered

LEMMA GetResourceKeeps == QueryInv /\ GetResource => QueryInv'
BY DEF QueryInv, GetResource, Answered

LEMMA AnswerEmptyKeeps == QueryInv /\ AnswerEmpty => QueryInv'
<1> SUFFICES ASSUME QueryInv, AnswerEmpty PROVE QueryInv'
  OBVIOUS
<1>1. UNCHANGED <<query, graph>> /\ stage = "ready" /\ stage' = "done" /\ ~Fatal /\ Asking
  BY DEF AnswerEmpty, Asking
<1>2. target' = 0 /\ answer' = <<>> /\ collected' = {}
  BY DEF AnswerEmpty, QueryInv
<1>3. ScopeWarnings \subseteq warnings'
  BY DEF AnswerEmpty
<1>4. Finishing'
  BY <1>2 DEF Finishing
<1>5. ~Fatal' /\ Asking' /\ collected' \subseteq Holding' /\ ScopeWarnings' \subseteq warnings'
  BY <1>1, <1>2, <1>3, SameHolding
<1>6. query' \in Requests /\ graph' \in Worlds
  BY <1>1 DEF QueryInv
<1> QED BY <1>1, <1>4, <1>5, <1>6 DEF QueryInv

LEMMA ResolveKeeps == QueryInv /\ Resolve => QueryInv'
<1> SUFFICES ASSUME QueryInv, Resolve PROVE QueryInv'
  OBVIOUS
<1>1. UNCHANGED <<query, graph, collected, level, walk>> /\ stage = "ready" /\ ~Fatal /\ Asking
  BY DEF Resolve, Asking
<1>2. answer = <<>> /\ collected = {} /\ level = 0 /\ walk = NoWalk
  BY <1>1 DEF QueryInv
<1>3. ScopeWarnings \subseteq warnings'
  BY DEF Resolve
<1>4. ~Fatal' /\ Asking' /\ collected' \subseteq Holding' /\ ScopeWarnings' \subseteq warnings'
  BY <1>1, <1>2, <1>3, SameHolding
<1>5. query' \in Requests /\ graph' \in Worlds
  BY <1>1 DEF QueryInv
<1>6. Room' = PathLimit(target') /\ First' = InitialSteps(target')
  BY <1>1 DEF Room, First, PathLimit, InitialSteps, Resolves
<1>7. CASE PathLimit(target') > 0
  <2>1. stage' = "collect" /\ frontier' = {target'} /\ answer' = <<>>
    BY <1>2, <1>7 DEF Resolve
  <2>2. Room' > 0 /\ Collecting' /\ level' \in 0..2 /\ walk' = NoWalk
    BY <1>1, <1>2, <1>6, <1>7, <2>1 DEF Collecting
  <2> QED BY <1>4, <1>5, <2>1, <2>2 DEF QueryInv, Answered, NoWalk
<1>8. CASE ~(PathLimit(target') > 0)
  <2>1. stage' = "done" /\ answer' = InitialSteps(target')
    BY <1>8 DEF Resolve
  <2>2. Finishing'
    BY <1>6, <1>8, <2>1 DEF Finishing
  <2> QED BY <1>4, <1>5, <2>1, <2>2 DEF QueryInv
<1> QED BY <1>7, <1>8

LEMMA CollectKeeps == QueryInv /\ Collect => QueryInv'
<1> SUFFICES ASSUME QueryInv, Collect PROVE QueryInv'
  OBVIOUS
<1> DEFINE read == ToSet(Top(Sorted(RowsOf(frontier), RelationKey), ReadLimit))
<1>1. /\ UNCHANGED <<query, graph, stage, target, walk, answer>> /\ stage = "collect"
      /\ level < query.depth /\ frontier # {}
      /\ collected' = collected \cup read
      /\ frontier' = (UNION {Endpoints(r) : r \in read}) \ Visited
      /\ level' = level + 1 /\ warnings' = warnings \cup ReadWarnings
  BY DEF Collect
<1>2. Readable /\ Asking /\ collected \subseteq Holding /\ ScopeWarnings \subseteq warnings
  BY <1>1 DEF QueryInv, Readable
<1>3. read \subseteq Holding /\ (read = RowsOf(frontier) \/ \E w \in ReadWarnings : w.code = "graph_relationship_read_truncated")
  BY <1>2, ReadIs
<1> HIDE DEF read
<1>4. query' \in Requests /\ graph' \in Worlds /\ Room > 0 /\ Room' = Room /\ answer' = <<>> /\ walk' = NoWalk
  BY <1>1, SameRoom DEF QueryInv
<1>5. ~Fatal' /\ Asking' /\ collected' \subseteq Holding' /\ ScopeWarnings' \subseteq warnings'
  BY <1>1, <1>2, <1>3, SameHolding DEF Readable
<1>6. level' \in 0..2
  <2>1. \A q \in Requests : q.depth \in {1, 2}
    BY QueryAssumption DEF QueryConstants
  <2>2. level \in 0..2 /\ query.depth \in {1, 2}
    BY <1>1, <1>2, <2>1 DEF QueryInv, Readable
  <2> QED BY <1>1, <2>2
<1>7. Limited' \/ Collecting'
  <2>1. CASE Limited
    BY <1>1, <2>1, LimitedStays
  <2>2. CASE \E w \in ReadWarnings : w.code = "graph_relationship_read_truncated"
    BY <1>1, <2>2 DEF Limited
  <2>3. CASE read = RowsOf(frontier) /\ ~Limited
    <3>1. Collecting
      BY <1>1, <2>3 DEF QueryInv
    <3>2. FirstRows' = FirstRows /\ Neighbours' = Neighbours /\ AllRows' = AllRows
      BY <1>1, SameRows
    <3>3. CASE level = 0 /\ collected = {} /\ frontier = {target}
      <4>1. Visited = {target}
        BY <3>3 DEF Visited
      <4>2. read = FirstRows
        BY <2>3, <3>3 DEF FirstRows
      <4>3. collected' = FirstRows /\ frontier' = Neighbours /\ level' = 1
        BY <1>1, <3>3, <4>1, <4>2 DEF Neighbours
      <4> QED BY <3>2, <4>3 DEF Collecting
    <3>4. CASE level = 1 /\ collected = FirstRows /\ frontier = Neighbours
      <4>1. collected' = AllRows /\ level' = 2
        BY <1>1, <2>3, <3>4 DEF AllRows
      <4> QED BY <3>2, <4>1 DEF Collecting
    <3>5. CASE level = 2
      <4>1. \A q \in Requests : q.depth \in {1, 2}
        BY QueryAssumption DEF QueryConstants
      <4>2. query.depth \in {1, 2}
        BY <1>2, <4>1 DEF Readable
      <4> QED BY <1>1, <3>5, <4>2
    <3> QED BY <3>1, <3>3, <3>4, <3>5 DEF Collecting
  <2> QED BY <1>3, <2>1, <2>2, <2>3
<1> QED BY <1>1, <1>4, <1>5, <1>6, <1>7 DEF QueryInv, Answered

LEMMA ProjectPathsKeeps == QueryInv /\ ProjectPaths => QueryInv'
<1> SUFFICES ASSUME QueryInv, ProjectPaths PROVE QueryInv'
  OBVIOUS
<1>1. /\ UNCHANGED <<query, graph, target, collected, frontier, level, answer>> /\ stage = "collect" /\ stage' = "walk"
      /\ level = query.depth \/ frontier = {}
      /\ warnings \subseteq warnings'
      /\ walk' = [NoWalk EXCEPT !.frames = <<[node |-> target, cursor |-> 1]>>, !.nodes = <<target>>]
  BY DEF ProjectPaths
<1>2. Readable /\ Asking /\ collected \subseteq Holding /\ ScopeWarnings \subseteq warnings
  BY <1>1 DEF QueryInv, Readable
<1>3. walk' \in GoodWalks'
  <2>1. Collected
    BY <1>2 DEF Collected
  <2>2. walk' \in GoodWalks
    BY <1>1, <2>1, WalkStarts
  <2> QED BY <1>1, <2>2, SameGoodWalks
<1>4. query' \in Requests /\ graph' \in Worlds /\ Room' > 0 /\ answer' = <<>>
  BY <1>1, SameRoom DEF QueryInv
<1>5. ~Fatal' /\ Asking' /\ collected' \subseteq Holding' /\ ScopeWarnings' \subseteq warnings'
  BY <1>1, <1>2, SameHolding DEF Readable
<1>6. Limited' \/ AllRead'
  <2>1. CASE Limited
    BY <1>1, <2>1, LimitedStays
  <2>2. CASE ~Limited
    <3>1. Collecting
      BY <1>1, <2>2 DEF QueryInv
    <3> QED BY <1>1, <1>2, <3>1, EverythingRead, SameAll
  <2> QED BY <2>1, <2>2
<1> QED BY <1>1, <1>3, <1>4, <1>5, <1>6 DEF QueryInv, Answered

(* A step of the traversal.                                                *)
LEMMA WalkKeeps ==
    ASSUME QueryInv, stage = "walk", stage' = "walk", UNCHANGED <<query, graph, target, collected, frontier, level, warnings, answer>>,
           walk' \in GoodWalks
    PROVE  QueryInv'
<1>1. Readable /\ Asking /\ collected \subseteq Holding /\ ScopeWarnings \subseteq warnings
  BY DEF QueryInv, Readable
<1>2. walk' \in GoodWalks'
  BY SameGoodWalks
<1>3. query' \in Requests /\ graph' \in Worlds /\ Room' > 0 /\ answer' = <<>>
  BY SameRoom DEF QueryInv
<1>4. ~Fatal' /\ Asking' /\ collected' \subseteq Holding' /\ ScopeWarnings' \subseteq warnings'
  BY <1>1, SameHolding DEF Readable
<1>5. Limited' \/ AllRead'
  <2>1. Limited \/ AllRead
    BY DEF QueryInv
  <2> QED BY <2>1, LimitedStays, SameAll
<1> QED BY <1>2, <1>3, <1>4, <1>5 DEF QueryInv, Answered

LEMMA WalkingIsOver == ASSUME QueryInv, stage = "walk" PROVE Collected /\ walk \in GoodWalks
BY DEF QueryInv, Collected, Readable

LEMMA BacktrackKeeps == QueryInv /\ Backtrack => QueryInv'
<1> SUFFICES ASSUME QueryInv, Backtrack PROVE QueryInv'
  OBVIOUS
<1>1. stage = "walk" /\ walk.frames # <<>> /\ Exhausted
  BY DEF Backtrack, Unfinished
<1>2. /\ UNCHANGED <<query, graph, stage, target, collected, frontier, level, warnings, answer>>
      /\ walk' = [walk EXCEPT !.frames = DropLast(@), !.nodes = DropLast(@),
                            !.steps = IF @ = <<>> THEN @ ELSE DropLast(@)]
  BY DEF Backtrack
<1>3. walk' \in GoodWalks
  BY <1>1, <1>2, WalkingIsOver, BacktrackIsGood
<1> QED BY <1>1, <1>2, <1>3, WalkKeeps

LEMMA ExamineKeeps == QueryInv /\ Examine => QueryInv'
<1> SUFFICES ASSUME QueryInv, Examine PROVE QueryInv'
  OBVIOUS
<1>1. stage = "walk" /\ walk.frames # <<>> /\ ~Exhausted
  BY DEF Examine, Unfinished
<1>2. /\ UNCHANGED <<query, graph, target, collected, frontier, level, warnings, answer>>
      /\ stage' = IF walk.examined < ExaminationBound THEN stage ELSE "over_budget"
  BY DEF Examine
<1>3. walk' \in GoodWalks /\ walk.examined < ExaminationBound
  BY <1>1, WalkingIsOver, ExamineTakes, ExamineIsGood
<1> QED BY <1>1, <1>2, <1>3, WalkKeeps

LEMMA AnswerKeeps == QueryInv /\ Answer => QueryInv'
<1> SUFFICES ASSUME QueryInv, Answer PROVE QueryInv'
  OBVIOUS
<1>1. /\ UNCHANGED <<query, graph, target, collected, frontier, level, walk>> /\ stage = "walk" /\ stage' = "done"
      /\ walk.frames = <<>> /\ warnings' = warnings \cup ProjectionWarnings
      /\ answer' = Top(InitialSteps(target) \o Shown, query.limit)
  BY DEF Answer
<1>2. Readable /\ Asking /\ collected \subseteq Holding /\ ScopeWarnings \subseteq warnings /\ Room > 0 /\ walk \in GoodWalks
  BY <1>1 DEF QueryInv, Readable
<1>3. walk.chosen \in AllChosen /\ answer' = FullAnswer
  BY <1>1, <1>2, WalkFinishes DEF FullAnswer, First
<1>4. query' \in Requests /\ graph' \in Worlds
  BY <1>1 DEF QueryInv
<1>5. ~Fatal' /\ Asking' /\ collected' \subseteq Holding' /\ ScopeWarnings' \subseteq warnings'
  BY <1>1, <1>2, SameHolding DEF Readable
<1>6. Limited' \/ AllRead'
  <2>1. Limited \/ AllRead
    BY <1>1 DEF QueryInv
  <2> QED BY <1>1, <2>1, LimitedStays, SameAll
<1>7. /\ Room' = Room /\ AllChosen' = AllChosen /\ FullAnswer' = FullAnswer
      /\ ProjectionWarnings' = ProjectionWarnings
  BY <1>1, SameRoom, SameAll, SameAnswer
<1>8. Finishing'
  BY <1>1, <1>2, <1>3, <1>6, <1>7 DEF Finishing
<1> QED BY <1>1, <1>4, <1>5, <1>8 DEF QueryInv

LEMMA QueryRests == QueryInv /\ UNCHANGED queryVars => QueryInv'
<1> SUFFICES ASSUME QueryInv, UNCHANGED queryVars PROVE QueryInv'
  OBVIOUS
<1>1. UNCHANGED <<query, graph, stage, target, collected, frontier, level, warnings, walk, answer>>
  BY DEF queryVars
<1>2. /\ Holding' = Holding /\ ScopeWarnings' = ScopeWarnings /\ (Fatal' <=> Fatal) /\ (Asking' <=> Asking)
      /\ FirstRows' = FirstRows /\ Neighbours' = Neighbours /\ AllRows' = AllRows
      /\ Room' = Room /\ First' = First /\ (AllRead' <=> AllRead) /\ AllChosen' = AllChosen /\ FullAnswer' = FullAnswer
      /\ ProjectionWarnings' = ProjectionWarnings /\ GoodWalks' = GoodWalks
  BY <1>1, SameHolding, SameRows, SameRoom, SameAll, SameAnswer, SameGoodWalks
<1>3. (Limited' <=> Limited) /\ (Answered' <=> Answered) /\ NoWalk' = NoWalk
  BY <1>1 DEF Limited, Answered, NoWalk
<1>4. (Collecting' <=> Collecting) /\ (Finishing' <=> Finishing)
  BY <1>1, <1>2, <1>3 DEF Collecting, Finishing
<1> QED BY <1>1, <1>2, <1>3, <1>4 DEF QueryInv

LEMMA QueryInvHolds == QuerySpec => []QueryInv
<1>1. QueryInit => QueryInv
  BY QueryInit0
<1>2. QueryInv /\ [QueryNext]_queryVars => QueryInv'
  BY RefuseKeeps, AnswerEmptyKeeps, ResolveKeeps, CollectKeeps, ProjectPathsKeeps, BacktrackKeeps, ExamineKeeps, AnswerKeeps,
     GetResourceKeeps, NoResourceKeeps, QueryRests DEF QueryNext
<1> QED BY <1>1, <1>2, PTL DEF QuerySpec

----------------------------------------------------------------------------
(* What is answered.                                                       *)

(* The order of the paths that were kept.                                  *)
HeadKey(e, path) ==
    <<-Score(path), Len(path), TypeRank[Relations[path[1]].type], Relations[path[1]].type, VaultOf(e),
      Entities[e].name, Relations[path[1]].id>>
Weights == [stated |-> 100, inferred |-> 75, contested |-> 45]
Weighted(path) == {Relations[r].confidence * Weights[Relations[r].status] : r \in ToSet(path)}

LEMMA WeightIs ==
    ASSUME Collected, NEW r \in collected
    PROVE  Relations[r].confidence * Weights[Relations[r].status] \in Int
<1>1. r \in DOMAIN Relations /\ EdgeAllowed(r)
  BY HoldingRests DEF Collected
<1>2. Relations[r].status \in {"stated", "inferred", "contested"}
  <2>1. Relations[r].status \in {"stated", "inferred", "contested", "deprecated"}
    BY <1>1, QueryAssumption DEF QueryConstants
  <2> QED BY <1>1, <2>1 DEF EdgeAllowed, Active
<1>3. Relations[r].confidence \in Int
  <2>1. {Relations[r].id, Relations[r].type, Relations[r].confidence, TypeRank[Relations[r].type]} \subseteq Int
    BY <1>1, QueryAssumption DEF QueryConstants
  <2> QED BY <2>1
<1> DEFINE s == Relations[r].status
           c == Relations[r].confidence
<1>4. Weights[s] \in Int
  <2>1. s \in {"stated", "inferred", "contested"}
    BY <1>2
  <2> HIDE DEF s
  <2> QED BY <2>1 DEF Weights
<1>5. c \in Int
  BY <1>3
<1> HIDE DEF s, c
<1>6. c * Weights[s] \in Int
  BY <1>4, <1>5
<1> QED BY <1>6 DEF s, c

LEMMA PathIs ==
    ASSUME Collected, NEW w \in Walks
    PROVE  LET path == PathOf(w).path
           IN  /\ Len(path) \in {1, 2} /\ Len(path) = Len(w) /\ path \in Seq(collected) /\ path[1] = w[1][1]
               /\ \E r, s \in collected : ToSet(path) = {r, s}
<1>1. Known \subseteq collected
  BY EdgesAre DEF Known
<1>2. ASSUME NEW h \in Hops(Known, target)
      PROVE  /\ h[1] \in collected /\ <<h[1]>> \in Seq(collected) /\ ToSet(<<h[1]>>) = {h[1], h[1]}
             /\ PathOf(<<h>>).path = <<h[1]>> /\ Len(<<h[1]>>) = 1 /\ Len(<<h>>) = 1 /\ <<h>>[1] = h
  <2>1. h[1] \in collected
    BY <1>1, HopsAre
  <2> DEFINE r == h[1]
             p == <<r>>
  <2>2. p \in Seq(collected) /\ Len(p) = 1 /\ p[1] = r /\ DOMAIN p = {1}
    BY <2>1
  <2> HIDE DEF p
  <2>3. ToSet(p) = {r, r}
    BY <2>2 DEF ToSet
  <2>4. PathOf(<<h>>).path = <<h[1]>> /\ Len(<<h>>) = 1 /\ <<h>>[1] = h
    <3>1. /\ PathOf(<<h>>) = [entity |-> h[2], path |-> <<h[1]>>, ordinal |-> <<RankOf(target, h)>>]
          /\ Len(<<h>>) = 1 /\ <<h>>[1] = h
      BY ShortWalk
    <3>2. [entity |-> h[2], path |-> <<h[1]>>, ordinal |-> <<RankOf(target, h)>>].path = <<h[1]>>
      OBVIOUS
    <3> QED BY <3>1, <3>2
  <2> QED BY <2>1, <2>2, <2>3, <2>4 DEF p
<1>3. ASSUME NEW h \in Hops(Known, target), NEW g \in Hops(Known, h[2])
      PROVE  /\ h[1] \in collected /\ g[1] \in collected /\ <<h[1], g[1]>> \in Seq(collected) /\ ToSet(<<h[1], g[1]>>) = {h[1], g[1]}
             /\ PathOf(<<h, g>>).path = <<h[1], g[1]>> /\ Len(<<h[1], g[1]>>) = 2 /\ Len(<<h, g>>) = 2 /\ <<h, g>>[1] = h
  <2>1. h[1] \in collected /\ g[1] \in collected
    BY <1>1, HopsAre
  <2> DEFINE r == h[1]
             s == g[1]
             p == <<r, s>>
  <2>2. p \in Seq(collected) /\ Len(p) = 2 /\ p[1] = r /\ p[2] = s /\ DOMAIN p = {1, 2}
    BY <2>1
  <2> HIDE DEF p
  <2>3. ToSet(p) = {r, s}
    BY <2>2 DEF ToSet
  <2>4. PathOf(<<h, g>>).path = <<h[1], g[1]>> /\ Len(<<h, g>>) = 2 /\ <<h, g>>[1] = h
    <3>1. /\ PathOf(<<h, g>>) = [entity |-> g[2], path |-> <<h[1], g[1]>>, ordinal |-> <<RankOf(target, h), RankOf(h[2], g)>>]
          /\ Len(<<h, g>>) = 2 /\ <<h, g>>[1] = h
      BY LongWalk
    <3>2. [entity |-> g[2], path |-> <<h[1], g[1]>>, ordinal |-> <<RankOf(target, h), RankOf(h[2], g)>>].path = <<h[1], g[1]>>
      OBVIOUS
    <3> QED BY <3>1, <3>2
  <2> QED BY <2>1, <2>2, <2>3, <2>4 DEF p
<1>4. CASE w = <<w[1]>>
  <2> DEFINE h == w[1]
  <2>1. h \in Hops(Known, target) /\ w = <<h>>
    BY <1>4, WalkShapes
  <2> HIDE DEF h
  <2> DEFINE p == <<h[1]>>
  <2>2. p[1] = h[1] /\ w[1] = h
    BY <1>2, <2>1
  <2>3. PathOf(w).path = p /\ Len(w) = 1 /\ Len(p) = 1 /\ p \in Seq(collected) /\ ToSet(p) = {h[1], h[1]} /\ h[1] \in collected
    BY <1>2, <2>1
  <2> HIDE DEF p
  <2> QED BY <2>2, <2>3
<1>5. CASE w = <<w[1], w[2]>> /\ w[2] \in Hops(Known, w[1][2])
  <2> DEFINE h == w[1]
             g == w[2]
  <2>1. h \in Hops(Known, target) /\ w = <<h, g>> /\ g \in Hops(Known, h[2])
    BY <1>5, WalkShapes
  <2> HIDE DEF h, g
  <2> DEFINE p == <<h[1], g[1]>>
  <2>2. p[1] = h[1] /\ w[1] = h
    BY <1>3, <2>1
  <2>3. PathOf(w).path = p /\ Len(w) = 2 /\ Len(p) = 2 /\ p \in Seq(collected) /\ ToSet(p) = {h[1], g[1]} /\ h[1] \in collected /\ g[1] \in collected
    BY <1>3, <2>1
  <2> HIDE DEF p
  <2> QED BY <2>2, <2>3
<1> QED BY <1>4, <1>5, WalkShapes

LEMMA ScoreIs == ASSUME Collected, NEW w \in Walks PROVE Score(PathOf(w).path) \in Int
<1> DEFINE path == PathOf(w).path
           W == Weighted(path)
           least == CHOOSE x \in W : \A y \in W : x <= y
           n == IF Len(path) = 1 THEN 10 ELSE 6
<1>1. PICK r \in collected, s \in collected : ToSet(path) = {r, s}
  BY PathIs
<1> DEFINE a == Relations[r].confidence * Weights[Relations[r].status]
           b == Relations[s].confidence * Weights[Relations[s].status]
<1>2. W = {a, b}
  BY <1>1 DEF Weighted
<1>3. a \in Int /\ b \in Int
  BY WeightIs
<1>4. Score(path) = least * n
  BY DEF Score, Weighted, Weights
<1> HIDE DEF a, b, W
<1>5. least \in W
  BY <1>2, <1>3
<1>6. least \in Int
  BY <1>2, <1>3, <1>5
<1>7. n \in Int
  OBVIOUS
<1> HIDE DEF least, n
<1>8. least * n \in Int
  BY <1>6, <1>7
<1> QED BY <1>4, <1>8 DEF path

LEMMA HeadIs ==
    ASSUME Collected, NEW w \in Walks
    PROVE  HeadKey(PathOf(w).entity, PathOf(w).path) \in Seq(Int) /\ Len(HeadKey(PathOf(w).entity, PathOf(w).path)) = 7
<1> DEFINE e == PathOf(w).entity
           path == PathOf(w).path
           r == path[1]
           k == HeadKey(e, path)
<1>1. Known \in SUBSET DOMAIN Relations /\ collected \in SUBSET DOMAIN Relations
  BY EdgesAre DEF Known
<1>2. r \in collected /\ Len(path) \in Int
  <2>1. Len(path) \in {1, 2} /\ path \in Seq(collected)
    BY PathIs
  <2> HIDE DEF path
  <2> QED BY <2>1
<1>3. e \in DOMAIN Entities
  <2>1. e = w[Len(w)][2]
    BY DEF PathOf
  <2> QED BY <1>1, <2>1, WalkShapes, HopKeys
<1>4. VaultOf(e) \in Int /\ Entities[e].name \in Int
  BY <1>3, QueryAssumption DEF QueryConstants
<1>5. Relations[r].id \in Int /\ Relations[r].type \in Int /\ TypeRank[Relations[r].type] \in Int
  <2>1. {Relations[r].id, Relations[r].type, Relations[r].confidence, TypeRank[Relations[r].type]} \subseteq Int
    BY <1>1, <1>2, QueryAssumption DEF QueryConstants
  <2> QED BY <2>1
<1>6. Score(path) \in Int
  BY ScoreIs
<1> HIDE DEF e, path
<1>7. k \in Seq(Int) /\ Len(k) = 7
  <2> DEFINE a == -Score(path)
             b == Len(path)
             c == TypeRank[Relations[r].type]
             d == Relations[r].type
             f == VaultOf(e)
             g == Entities[e].name
             i == Relations[r].id
  <2>1. a \in Int /\ b \in Int /\ c \in Int /\ d \in Int /\ f \in Int /\ g \in Int /\ i \in Int
    BY <1>2, <1>4, <1>5, <1>6
  <2>2. k = <<a, b, c, d, f, g, i>>
    BY DEF HeadKey
  <2> HIDE DEF a, b, c, d, f, g, i, k
  <2> QED BY <2>1, <2>2
<1> QED BY <1>7 DEF e, path

(* The keys of different paths differ.                                     *)
PathKeys(C) == [p \in C |-> PathKey(p)]

LEMMA PathKeyIs == ASSUME NEW p PROVE PathKey(p) = HeadKey(p.entity, p.path) \o p.ordinal
BY DEF PathKey, HeadKey

LEMMA PathKeysDiffer ==
    ASSUME Collected, NEW C, IsFiniteSet(C), C \subseteq {PathOf(w) : w \in Walks}
    PROVE  KeysDiffer(C, PathKeys(C)) /\ Sorted(C, PathKey) = InOrder(C, PathKeys(C))
<1>1. \A w : PathOf(w).ordinal = Ordinal(w)
  BY DEF PathOf
<1>2. ASSUME NEW w \in Walks
      PROVE  /\ PathKey(PathOf(w)) = HeadKey(PathOf(w).entity, PathOf(w).path) \o Ordinal(w)
             /\ PathKey(PathOf(w)) \in Seq(Int)
  <2>1. PathKey(PathOf(w)) = HeadKey(PathOf(w).entity, PathOf(w).path) \o Ordinal(w)
    BY <1>1, PathKeyIs
  <2>2. HeadKey(PathOf(w).entity, PathOf(w).path) \in Seq(Int) /\ Ordinal(w) \in Seq(Int)
    BY HeadIs, WalksInOrder
  <2>3. HeadKey(PathOf(w).entity, PathOf(w).path) \o Ordinal(w) \in Seq(Int)
    BY <2>2, ConcatIs
  <2> QED BY <2>1, <2>3
<1>3. ASSUME NEW w \in Walks, NEW x \in Walks, PathKey(PathOf(w)) = PathKey(PathOf(x)) PROVE w = x
  <2> DEFINE a == HeadKey(PathOf(w).entity, PathOf(w).path)
             b == HeadKey(PathOf(x).entity, PathOf(x).path)
             s == Ordinal(w)
             t == Ordinal(x)
  <2>1. a \in Seq(Int) /\ b \in Seq(Int) /\ Len(a) = Len(b) /\ s \in Seq(Int) /\ t \in Seq(Int)
    BY HeadIs, WalksInOrder
  <2>2. a \o s = b \o t
    BY <1>2, <1>3
  <2> HIDE DEF a, b, s, t
  <2>3. s = t
    BY <2>1, <2>2, TailsEqual
  <2> QED BY <2>3, WalksInOrder DEF s, t
<1>4. \A p \in C : \E w \in Walks : p = PathOf(w)
  OBVIOUS
<1> DEFINE key == PathKeys(C)
<1>5. \A p \in C : key[p] = PathKey(p)
  BY DEF PathKeys
<1>6. \A p \in C : key[p] \in Seq(Int)
  BY <1>2, <1>4, <1>5
<1>7. \A p, q \in C : key[p] = key[q] => p = q
  BY <1>3, <1>4, <1>5
<1> HIDE DEF key
<1>8. KeysDiffer(C, key)
  BY <1>6, <1>7, SequencesDiffer
<1>9. SortedBy(C, Table(key)) = InOrder(C, key)
  BY <1>8, SortedByIs
<1>10. Sorted(C, PathKey) = InOrder(C, key)
  BY <1>9 DEF Sorted, key, PathKeys
<1> QED BY <1>8, <1>10 DEF key

LEMMA RoomIs ==
    ASSUME query \in Requests
    PROVE  /\ query.limit \in Nat /\ query.limit > 0 /\ Room = query.limit - Len(First)
           /\ First = <<>> \/ First = <<[entity |-> target, path |-> <<>>]>>
           /\ query.kind # "trace" => First = <<>>
           /\ Len(First) \in {0, 1} /\ Room \in Nat
<1>1. query.limit \in Nat /\ query.limit > 0
  <2>1. \A q \in Requests : q.limit \in Nat \ {0}
    BY QueryAssumption DEF QueryConstants
  <2> QED BY <2>1
<1>2. Room = query.limit - Len(First)
  BY DEF Room, First, PathLimit
<1>3. /\ First = <<>> \/ First = <<[entity |-> target, path |-> <<>>]>>
      /\ query.kind # "trace" => First = <<>>
  BY DEF First, InitialSteps
<1> DEFINE i == [entity |-> target, path |-> <<>>]
<1>4. First = <<>> \/ First = <<i>>
  BY <1>3
<1> HIDE DEF i
<1>5. Len(First) \in {0, 1}
  BY <1>4
<1>6. Room \in Nat
  <2>1. Room = query.limit - 0 \/ Room = query.limit - 1
    BY <1>2, <1>5
  <2> QED BY <1>1, <2>1
<1> QED BY <1>1, <1>2, <1>3, <1>5, <1>6

(* What was walked, in the order of the answer.                            *)
LEMMA PathsAre ==
    ASSUME Collected, walk.chosen \in AllChosen
    PROVE  LET C == walk.chosen
           IN  /\ Kept(C, Walks) /\ IsFiniteSet(C) /\ Cardinality(C) \in Nat
               /\ Paths = Top(InOrder(C, PathKeys(C)), Room)
               /\ Paths \in Seq(C) /\ Len(Paths) <= Room
               /\ Cardinality(C) <= Room => \A p \in C : \E i \in 1..Len(Paths) : Paths[i] = p
<1> DEFINE C == walk.chosen
<1>1. Kept(C, Walks)
  BY ChosenIs DEF AllChosen
<1>2. IsFiniteSet(C) /\ C \subseteq {PathOf(w) : w \in Walks}
  BY <1>1 DEF Kept
<1> DEFINE key == PathKeys(C)
<1>3. KeysDiffer(C, key) /\ Sorted(C, PathKey) = InOrder(C, key)
  BY <1>2, PathKeysDiffer
<1>4. Room \in Nat
  BY RoomIs DEF Collected, Readable
<1>5. Paths = Top(InOrder(C, key), Room)
  BY <1>3 DEF Paths, Room
<1> HIDE DEF C, key
<1> DEFINE n == Room
           t == Top(InOrder(C, key), n)
<1> HIDE DEF n
<1>9. n \in Nat
  BY <1>4 DEF n
<1>10. IsFiniteSet(C) /\ KeysDiffer(C, key)
  BY <1>2, <1>3
<1>0. /\ t \in Seq(C) /\ Len(t) = IF n < Cardinality(C) THEN n ELSE Cardinality(C)
      /\ Cardinality(C) \in Nat
      /\ Cardinality(C) <= n => \A x \in C : \E i \in 1..Len(t) : t[i] = x
  BY <1>9, <1>10, TopInOrder
<1>8. Paths = t
  BY <1>5 DEF n
<1> HIDE DEF t
<1>6. /\ Paths \in Seq(C) /\ Len(Paths) = IF Room < Cardinality(C) THEN Room ELSE Cardinality(C)
      /\ Cardinality(C) \in Nat
      /\ Cardinality(C) <= Room => \A x \in C : \E i \in 1..Len(Paths) : Paths[i] = x
  BY <1>0, <1>8 DEF n
<1>7. Len(Paths) <= Room
  BY <1>4, <1>6
<1> QED BY <1>1, <1>2, <1>5, <1>6, <1>7 DEF C, key

(* What is shown of a path, and the order of the roles in a trace.         *)
ItemOf(p) == [entity |-> p.entity, path |-> p.path]
RoleKeys == [i \in 1..Len(Paths) |-> RoleKey(i)]
RoleOrder == IF query.kind = "trace" THEN Sorted(DOMAIN Paths, RoleKey) ELSE [i \in DOMAIN Paths |-> i]

LEMMA PathAt ==
    ASSUME Collected, walk.chosen \in AllChosen, NEW i \in 1..Len(Paths)
    PROVE  \E w \in Walks : Paths[i] = PathOf(w) /\ PathOf(w) \in walk.chosen
<1>1. Paths \in Seq(walk.chosen) /\ Kept(walk.chosen, Walks)
  BY PathsAre
<1>2. walk.chosen \subseteq {PathOf(w) : w \in Walks}
  BY <1>1 DEF Kept
<1>3. Paths[i] \in walk.chosen
  BY <1>1, ElementOfSeq
<1> QED BY <1>2, <1>3

LEMMA RolesDiffer ==
    ASSUME Collected, walk.chosen \in AllChosen
    PROVE  /\ KeysDiffer(1..Len(Paths), RoleKeys) /\ IsFiniteSet(1..Len(Paths)) /\ Cardinality(1..Len(Paths)) = Len(Paths)
           /\ DOMAIN Paths = 1..Len(Paths) /\ Len(Paths) \in Nat
           /\ Sorted(DOMAIN Paths, RoleKey) = InOrder(1..Len(Paths), RoleKeys)
<1> DEFINE n == Len(Paths)
           S == 1..n
           f == [i \in S |-> TypeRank[Relations[Paths[i].path[1]].type]]
           g == [i \in S |-> -Score(Paths[i].path)]
           h == [i \in S |-> i]
<1>1. Paths \in Seq(walk.chosen)
  BY PathsAre
<1>2. n \in Nat /\ DOMAIN Paths = S
  BY <1>1, LenProperties
<1>3. IsFiniteSet(S) /\ Cardinality(S) = n
  <2>1. IsFiniteSet(1..n) /\ Cardinality(1..n) = IF 1 > n THEN 0 ELSE n - 1 + 1
    BY <1>2, FS_Interval
  <2> QED BY <1>2, <2>1
<1>4. ASSUME NEW i \in S PROVE f[i] \in Int /\ g[i] \in Int /\ h[i] \in Int /\ RoleKeys[i] = <<f[i], g[i], h[i]>>
  <2>1. PICK w \in Walks : Paths[i] = PathOf(w)
    BY PathAt
  <2>2. Score(Paths[i].path) \in Int
    BY <2>1, ScoreIs
  <2> DEFINE p == PathOf(w).path
             r == p[1]
  <2>3. p \in Seq(collected) /\ Len(p) \in {1, 2}
    BY PathIs
  <2> HIDE DEF p
  <2>4. r \in collected
    BY <2>3
  <2>5. collected \in SUBSET DOMAIN Relations
    BY EdgesAre
  <2>6. TypeRank[Relations[r].type] \in Int
    <3>1. {Relations[r].id, Relations[r].type, Relations[r].confidence, TypeRank[Relations[r].type]} \subseteq Int
      BY <2>4, <2>5, QueryAssumption DEF QueryConstants
    <3> QED BY <3>1
  <2>7. f[i] = TypeRank[Relations[r].type]
    BY <2>1 DEF p
  <2>8. -Score(Paths[i].path) \in Int
    BY <2>2
  <2>9. RoleKeys[i] = RoleKey(i)
    BY DEF RoleKeys
  <2> QED BY <1>2, <2>6, <2>7, <2>8, <2>9 DEF RoleKey
<1>5. \A i, j \in S : h[i] = h[j] => i = j
  OBVIOUS
<1> DEFINE key == RoleKeys
<1>6. \A i \in S : key[i] = <<f[i], g[i], h[i]>> /\ f[i] \in Int /\ g[i] \in Int /\ h[i] \in Int
  BY <1>4
<1>7. Table([i \in S |-> RoleKey(i)]) = Table(key)
  BY DEF RoleKeys
<1>8. Sorted(S, RoleKey) = SortedBy(S, Table(key))
  BY <1>7 DEF Sorted
<1> HIDE DEF f, g, h, S, key
<1>9. KeysDiffer(S, key)
  BY <1>5, <1>6, TriplesDiffer
<1>10. SortedBy(S, Table(key)) = InOrder(S, key)
  BY <1>3, <1>9, SortedByIs
<1> QED BY <1>2, <1>3, <1>8, <1>9, <1>10 DEF S, key

LEMMA RolesInOrder ==
    ASSUME Collected, walk.chosen \in AllChosen
    PROVE  /\ Len(Paths) \in Nat /\ RoleOrder \in [1..Len(Paths) -> 1..Len(Paths)]
           /\ \A k \in 1..Len(Paths) : \E j \in 1..Len(Paths) : RoleOrder[j] = k
           /\ query.kind # "trace" => \A j \in 1..Len(Paths) : RoleOrder[j] = j
<1> DEFINE n == Len(Paths)
           S == 1..n
           key == RoleKeys
           o == InOrder(S, key)
<1>1. KeysDiffer(S, key) /\ IsFiniteSet(S) /\ Cardinality(S) = n /\ DOMAIN Paths = S /\ n \in Nat /\ Sorted(DOMAIN Paths, RoleKey) = o
  BY RolesDiffer
<1> HIDE DEF key, S
<1>2. o \in Seq(S) /\ Len(o) = Cardinality(S) /\ \A x \in S : \E i \in 1..Len(o) : o[i] = x
  BY <1>1, SortedOnce
<1>3. RoleOrder = IF query.kind = "trace" THEN o ELSE [i \in S |-> i]
  BY <1>1 DEF RoleOrder
<1> HIDE DEF o
<1>4. o \in [1..n -> S] /\ \A x \in S : \E i \in 1..n : o[i] = x
  <2>1. o \in [1..Len(o) -> S]
    BY <1>2, LenProperties
  <2> QED BY <1>1, <1>2, <2>1
<1>5. CASE query.kind = "trace"
  <2>1. RoleOrder = o
    BY <1>3, <1>5
  <2> QED BY <1>1, <1>4, <1>5, <2>1 DEF S
<1>6. CASE query.kind # "trace"
  <2>1. RoleOrder = [i \in S |-> i]
    BY <1>3, <1>6
  <2>2. \A i \in S : RoleOrder[i] = i
    BY <2>1
  <2>3. RoleOrder \in [S -> S]
    BY <2>1
  <2> QED BY <1>1, <2>2, <2>3 DEF S
<1> QED BY <1>5, <1>6

LEMMA ShownIs ==
    ASSUME Collected, walk.chosen \in AllChosen
    PROVE  /\ Len(Paths) \in Nat /\ Len(Paths) <= Room
           /\ Shown \in Seq({ItemOf(Paths[k]) : k \in 1..Len(Paths)}) /\ Len(Shown) = Len(Paths)
           /\ \A k \in 1..Len(Paths) : \E j \in 1..Len(Shown) : Shown[j] = ItemOf(Paths[k])
           /\ query.kind # "trace" => \A j \in 1..Len(Paths) : Shown[j] = ItemOf(Paths[j])
<1> DEFINE n == Len(Paths)
           o == RoleOrder
           I == {ItemOf(Paths[k]) : k \in 1..n}
<1>1. /\ n \in Nat /\ o \in [1..n -> 1..n]
      /\ \A k \in 1..n : \E j \in 1..n : o[j] = k
      /\ query.kind # "trace" => \A j \in 1..n : o[j] = j
  BY RolesInOrder
<1>2. Shown = [i \in DOMAIN o |-> ItemOf(Paths[o[i]])]
  BY DEF Shown, RoleOrder, ItemOf
<1>3. n <= Room
  BY PathsAre
<1> HIDE DEF n, o
<1>4. Shown = [i \in 1..n |-> ItemOf(Paths[o[i]])]
  BY <1>1, <1>2
<1>5. \A i \in 1..n : Shown[i] = ItemOf(Paths[o[i]]) /\ o[i] \in 1..n
  BY <1>1, <1>4
<1>6. Shown \in [1..n -> I]
  BY <1>1, <1>4
<1>7. Shown \in Seq(I)
  BY <1>1, <1>6, SeqDef
<1>8. Len(Shown) = n
  BY <1>1, <1>6, <1>7
<1>9. \A k \in 1..n : \E j \in 1..n : Shown[j] = ItemOf(Paths[k])
  BY <1>1, <1>5
<1>10. query.kind # "trace" => \A j \in 1..n : Shown[j] = ItemOf(Paths[j])
  BY <1>1, <1>5
<1> HIDE DEF I
<1>11. /\ n \in Nat /\ n <= Room /\ Shown \in Seq(I) /\ Len(Shown) = n
       /\ \A k \in 1..n : \E j \in 1..Len(Shown) : Shown[j] = ItemOf(Paths[k])
       /\ query.kind # "trace" => \A j \in 1..n : Shown[j] = ItemOf(Paths[j])
  BY <1>1, <1>3, <1>7, <1>8, <1>9, <1>10
<1> QED BY <1>11 DEF n, I

(* The answer as a whole: first the target, then what is shown.            *)
LEMMA AnswerIs ==
    ASSUME Collected, walk.chosen \in AllChosen
    PROVE  /\ Len(FullAnswer) = Len(First) + Len(Shown) /\ DOMAIN FullAnswer = 1..Len(FullAnswer)
           /\ \A i \in 1..Len(FullAnswer) :
                 IF i <= Len(First) THEN FullAnswer[i] = First[i]
                 ELSE i - Len(First) \in 1..Len(Shown) /\ FullAnswer[i] = Shown[i - Len(First)]
           /\ Len(First) \in Nat /\ Len(Shown) \in Nat
           /\ First = <<>> => FullAnswer = Shown
<1> DEFINE I == {ItemOf(Paths[k]) : k \in 1..Len(Paths)} \cup {[entity |-> target, path |-> <<>>]}
           a == First
           b == Shown
           s == a \o b
           m == query.limit
<1>1. b \in Seq(I) /\ Len(b) <= Room
  <2>1. b \in Seq({ItemOf(Paths[k]) : k \in 1..Len(Paths)}) /\ Len(b) <= Room
    BY ShownIs
  <2> QED BY <2>1, SeqMonotonic
<1>2. a \in Seq(I) /\ Len(a) \in {0, 1}
  <2> DEFINE t == [entity |-> target, path |-> <<>>]
  <2>1. First = <<>> \/ First = <<t>>
    BY RoomIs DEF Collected, Readable
  <2>2. t \in I
    OBVIOUS
  <2> HIDE DEF I, t
  <2>3. <<>> \in Seq(I) /\ <<t>> \in Seq(I)
    BY <2>2
  <2> QED BY <2>1, <2>3
<1>3. m \in Nat /\ Room = m - Len(a)
  BY RoomIs DEF Collected, Readable
<1> HIDE DEF I, a, b, m
<1>4. /\ s \in Seq(I) /\ Len(s) = Len(a) + Len(b)
      /\ \A i \in 1 .. Len(a) + Len(b) : s[i] = IF i <= Len(a) THEN a[i] ELSE b[i - Len(a)]
  BY <1>1, <1>2, ConcatProperties
<1>5. Len(a) \in Nat /\ Len(b) \in Nat
  BY <1>1, <1>2
<1>6. Len(s) <= m
  <2>1. Len(a) = 0 \/ Len(a) = 1
    BY <1>2
  <2> QED BY <1>1, <1>3, <1>4, <1>5, <2>1
<1>7. a = <<>> => s = b
  BY <1>1, ConcatEmptySeq
<1> HIDE DEF s
<1>8. Top(s, m) = s
  <2>1. Len(s) \in Nat
    BY <1>4
  <2>2. (IF m < Len(s) THEN m ELSE Len(s)) = Len(s)
    BY <1>3, <1>6, <2>1
  <2> QED BY <1>4, <2>2, SubSeqFull DEF Top
<1>9. FullAnswer = s
  BY <1>8 DEF FullAnswer, s, a, b, m
<1>10. DOMAIN s = 1..Len(s)
  BY <1>4
<1>11. \A i \in 1..Len(s) : IF i <= Len(a) THEN s[i] = a[i] ELSE i - Len(a) \in 1..Len(b) /\ s[i] = b[i - Len(a)]
  BY <1>4, <1>5
<1> QED BY <1>4, <1>5, <1>7, <1>9, <1>10, <1>11 DEF a, b

LEMMA StaleNamed == ASSUME QueryInv PROVE StaleIsNamed
<1> SUFFICES ASSUME Answered, NEW v \in Scope PROVE UpToDate(v) \/ \E w \in warnings : v \in w.vaults
  BY DEF StaleIsNamed
<1>1. Readable /\ ScopeWarnings \subseteq warnings
  BY DEF QueryInv, Readable
<1>2. CASE v \in FreshGraphs
  BY <1>1, <1>2, FreshAreUpToDate
<1>3. CASE v \notin FreshGraphs
  <2> DEFINE w == [code |-> Freshness(v), vaults |-> {v}]
  <2>1. w \in ScopeWarnings
    BY <1>3 DEF ScopeWarnings
  <2>2. v \in w.vaults
    OBVIOUS
  <2> HIDE DEF w
  <2> QED BY <1>1, <2>1, <2>2
<1> QED BY <1>2, <1>3

LEMMA WalksMove ==
    ASSUME NEW from, NEW to, from \subseteq to PROVE SimpleWalks(from) \subseteq SimpleWalks(to)
<1>1. \A e, h : h \in Hops(from, e) => h \in Hops(to, e)
  <2> SUFFICES ASSUME NEW e, NEW h \in Hops(from, e) PROVE h \in Hops(to, e)
    OBVIOUS
  <2>1. h[1] \in to
    BY HopsAre
  <2> QED BY <2>1, HopsMove
<1>2. \A h : Begins(from, h) => Begins(to, h)
  BY <1>1 DEF Begins
<1>3. \A h, g : Goes(from, h, g) => Goes(to, h, g)
  BY <1>1, <1>2 DEF Goes
<1>4. ASSUME NEW w \in SimpleWalks(from) PROVE w \in SimpleWalks(to)
  <2>1. \/ \E h : Begins(from, h) /\ w = <<h>>
        \/ query.depth # 1 /\ \E h, g : Goes(from, h, g) /\ w = <<h, g>>
    BY WalksAre
  <2>2. \/ \E h : Begins(to, h) /\ w = <<h>>
        \/ query.depth # 1 /\ \E h, g : Goes(to, h, g) /\ w = <<h, g>>
    BY <1>2, <1>3, <2>1
  <2> QED BY <2>2, WalksAre
<1> QED BY <1>4

LEMMA AnsweredIs ==
    ASSUME QueryInv, Answered
    PROVE  /\ Collected
           /\ \/ target = 0 /\ answer = <<>>
              \/ ~(Room > 0) /\ answer = First
              \/ Room > 0 /\ (Limited \/ AllRead) /\ walk.chosen \in AllChosen /\ answer = FullAnswer /\ ProjectionWarnings \subseteq warnings
BY DEF QueryInv, Collected, Readable, Finishing

LEMMA AllShownHold == ASSUME QueryInv PROVE ShownHolds
<1> SUFFICES ASSUME Answered, NEW i \in DOMAIN answer, answer[i].path # <<>>
             PROVE  \E w \in SimpleWalks(Holding) : IsWalk(answer[i], w)
  BY DEF ShownHolds
<1>1. Collected
  BY AnsweredIs
<1>2. ASSUME NEW j \in DOMAIN First PROVE First[j].path = <<>>
  <2> DEFINE t == [entity |-> target, path |-> <<>>]
  <2>1. First = <<>> \/ First = <<t>>
    BY <1>1, RoomIs DEF Collected, Readable
  <2>2. t.path = <<>>
    OBVIOUS
  <2> HIDE DEF t
  <2>3. First[j] = t
    BY <1>2, <2>1
  <2> QED BY <2>2, <2>3
<1>3. answer # <<>>
  OBVIOUS
<1>4. answer # First
  BY <1>2
<1>5. walk.chosen \in AllChosen /\ answer = FullAnswer
  BY <1>3, <1>4, AnsweredIs
<1>6. /\ i \in 1..Len(FullAnswer)
      /\ IF i <= Len(First) THEN FullAnswer[i] = First[i]
         ELSE i - Len(First) \in 1..Len(Shown) /\ FullAnswer[i] = Shown[i - Len(First)]
      /\ Len(First) \in Nat
  BY <1>1, <1>5, AnswerIs
<1>7. ~(i <= Len(First))
  <2>1. ASSUME i <= Len(First) PROVE FALSE
    <3>1. i \in 1..Len(First)
      BY <1>6, <2>1
    <3>2. DOMAIN First = 1..Len(First)
      <4> DEFINE t == [entity |-> target, path |-> <<>>]
      <4>1. First = <<>> \/ First = <<t>>
        BY <1>1, RoomIs DEF Collected, Readable
      <4> HIDE DEF t
      <4> QED BY <4>1
    <3> QED BY <1>2, <1>5, <1>6, <2>1, <3>1, <3>2
  <2> QED BY <2>1
<1> DEFINE j == i - Len(First)
<1>8. j \in 1..Len(Shown) /\ answer[i] = Shown[j]
  BY <1>5, <1>6, <1>7
<1> HIDE DEF j
<1>9. PICK k \in 1..Len(Paths) : Shown[j] = ItemOf(Paths[k])
  <2> DEFINE I == {ItemOf(Paths[k]) : k \in 1..Len(Paths)}
  <2>1. Shown \in Seq(I)
    BY <1>1, <1>5, ShownIs
  <2> HIDE DEF I
  <2>2. Shown[j] \in I
    BY <1>8, <2>1, ElementOfSeq
  <2> QED BY <2>2 DEF I
<1>10. PICK w \in Walks : Paths[k] = PathOf(w)
  BY <1>1, <1>5, PathAt
<1>11. IsWalk(answer[i], w)
  BY <1>8, <1>9, <1>10 DEF IsWalk, ItemOf, PathOf
<1>12. w \in SimpleWalks(Holding)
  <2>1. Known \subseteq Holding
    BY <1>1, EdgesAre DEF Known, Collected
  <2> QED BY <1>10, <2>1, WalksMove DEF Walks
<1> QED BY <1>11, <1>12

LEMMA AllAreShown == ASSUME QueryInv PROVE AllShown
<1> SUFFICES ASSUME Answered, target # 0, ~Limited, NEW w \in SimpleWalks(Holding), Room > 0
             PROVE  \E i \in DOMAIN answer :
                        answer[i].entity = w[Len(w)][2] /\ Ids(answer[i].path) = Ids([j \in DOMAIN w |-> w[j][1]])
  BY DEF AllShown, Room
<1>1. Collected
  BY AnsweredIs
<1>2. AllRead /\ walk.chosen \in AllChosen /\ answer = FullAnswer /\ ProjectionWarnings \subseteq warnings
  BY AnsweredIs
<1>3. Cardinality(Filtered) <= EdgeLimit /\ Cardinality(walk.chosen) <= Room
  <2> DEFINE u == [code |-> "graph_projection_truncated", vaults |-> FreshGraphs]
             cut == Cardinality(Filtered) > EdgeLimit \/ Cardinality(walk.chosen) > Room
  <2>1. cut => u \in ProjectionWarnings
    BY DEF ProjectionWarnings, Warn, Room
  <2>2. u.code = "graph_projection_truncated"
    OBVIOUS
  <2> HIDE DEF u, cut
  <2>3. ~cut
    BY <1>2, <2>1, <2>2 DEF Limited
  <2>4. Cardinality(Filtered) \in Nat /\ Cardinality(walk.chosen) \in Nat /\ EdgeLimit \in Nat /\ Room \in Nat
    <3>1. Cardinality(Filtered) \in Nat
      BY <1>1, EdgesAre, FS_CardinalityType
    <3>2. Cardinality(walk.chosen) \in Nat
      BY <1>1, <1>2, PathsAre
    <3>3. Room \in Nat
      BY <1>1, RoomIs DEF Collected, Readable
    <3> QED BY <3>1, <3>2, <3>3, QueryAssumption DEF QueryConstants
  <2> QED BY <2>3, <2>4 DEF cut
<1>4. w \in Walks
  <2>1. Known = collected
    BY <1>1, <1>3, EdgesAre DEF Known
  <2> QED BY <1>2, <2>1 DEF AllRead, Walks
<1>5. PICK x \in Walks : PathOf(x) \in walk.chosen /\ Alike(x, w)
  <2>1. Kept(walk.chosen, Walks)
    BY <1>1, <1>2, PathsAre
  <2> QED BY <1>4, <2>1 DEF Kept
<1>6. PICK k \in 1..Len(Paths) : Paths[k] = PathOf(x)
  BY <1>1, <1>2, <1>3, <1>5, PathsAre
<1>7. PICK j \in 1..Len(Shown) : Shown[j] = ItemOf(Paths[k])
  BY <1>1, <1>2, ShownIs
<1> DEFINE i == Len(First) + j
<1>8. /\ Len(FullAnswer) = Len(First) + Len(Shown) /\ DOMAIN FullAnswer = 1..Len(FullAnswer)
      /\ Len(First) \in Nat /\ Len(Shown) \in Nat
  BY <1>1, <1>2, AnswerIs
<1>9. i \in 1..Len(FullAnswer) /\ ~(i <= Len(First)) /\ i - Len(First) = j
  BY <1>8
<1>10. FullAnswer[i] = Shown[i - Len(First)]
  BY <1>1, <1>2, <1>9, AnswerIs
<1> HIDE DEF i
<1>11. i \in DOMAIN answer /\ answer[i] = ItemOf(PathOf(x))
  BY <1>2, <1>6, <1>7, <1>8, <1>9, <1>10
<1>12. PathOf(x).entity = PathOf(w).entity /\ Ids(PathOf(x).path) = Ids(PathOf(w).path)
  BY <1>5 DEF Alike
<1>13. answer[i].entity = PathOf(x).entity /\ answer[i].path = PathOf(x).path
  BY <1>11 DEF ItemOf
<1>14. PathOf(w).entity = w[Len(w)][2] /\ PathOf(w).path = [l \in DOMAIN w |-> w[l][1]]
  BY DEF PathOf
<1>15. answer[i].entity = w[Len(w)][2] /\ Ids(answer[i].path) = Ids([l \in DOMAIN w |-> w[l][1]])
  BY <1>12, <1>13, <1>14
<1> QED BY <1>11, <1>15

(* The answer of the former projection.                                    *)
FirstMet == {w \in Walks : \A x \in Walks : Alike(x, w) => ~Less(MetOf(x), MetOf(w))}
LegacyItem(w) == [entity |-> w[Len(w)][2], path |-> [i \in DOMAIN w |-> w[i][1]], ordinal |-> MetOf(w)]
LegacyItems == {LegacyItem(w) : w \in FirstMet}
LegacyList == Sorted(LegacyItems, PathKey)

LEMMA LegacyIs == LegacyPaths = Top([i \in DOMAIN LegacyList |-> ItemOf(LegacyList[i])], Room)
<1> DEFINE HopsKey(hop) == RelationKey(hop[1]) \o EntityKey(hop[2])
           Met(w) == IF Len(w) = 1 THEN HopsKey(w[1]) ELSE HopsKey(w[1]) \o HopsKey(w[2])
           first == {w \in SimpleWalks(ToSet(Edges)) :
                        \A x \in SimpleWalks(ToSet(Edges)) :
                            x[Len(x)][2] = w[Len(w)][2] /\ Ids([i \in DOMAIN x |-> x[i][1]]) = Ids([i \in DOMAIN w |-> w[i][1]])
                            => ~Less(Met(x), Met(w))}
           Item(w) == [entity |-> w[Len(w)][2], path |-> [i \in DOMAIN w |-> w[i][1]], ordinal |-> Met(w)]
           ordered == Sorted({Item(w) : w \in first}, PathKey)
<1>1. LegacyPaths = Top([i \in DOMAIN ordered |-> [entity |-> ordered[i].entity, path |-> ordered[i].path]], PathLimit(target))
  BY DEF LegacyPaths
<1>2. \A w : Met(w) = MetOf(w)
  BY DEF MetOf, HopKey
<1>3. first = FirstMet
  <2>1. \A w, x : Alike(x, w) <=>
           x[Len(x)][2] = w[Len(w)][2] /\ Ids([i \in DOMAIN x |-> x[i][1]]) = Ids([i \in DOMAIN w |-> w[i][1]])
    BY DEF Alike, PathOf
  <2> HIDE DEF Met
  <2> QED BY <1>2, <2>1 DEF FirstMet, Walks, Known
<1>4. \A w : Item(w) = LegacyItem(w)
  BY <1>2 DEF LegacyItem
<1> HIDE DEF first, Met, Item
<1>5. {Item(w) : w \in first} = LegacyItems
  BY <1>3, <1>4 DEF LegacyItems
<1>6. ordered = LegacyList
  BY <1>5 DEF LegacyList
<1> HIDE DEF ordered
<1> QED BY <1>1, <1>6 DEF ItemOf, Room

LEMMA FirstIsChosen ==
    ASSUME Collected, walk.chosen \in AllChosen
    PROVE  \A w \in Walks : w \in FirstMet <=> PathOf(w) \in walk.chosen
<1> DEFINE C == walk.chosen
<1>1. /\ \A w \in Walks : \E x \in Walks : PathOf(x) \in C /\ Alike(x, w) /\ ~Less(Ordinal(w), Ordinal(x))
      /\ \A w, x \in Walks : PathOf(w) \in C /\ PathOf(x) \in C /\ Alike(w, x) => w = x
  BY PathsAre DEF Kept
<1>2. /\ \A w, x \in Walks : w # x => Less(Ordinal(w), Ordinal(x)) \/ Less(Ordinal(x), Ordinal(w))
      /\ \A w \in Walks : ~Less(Ordinal(w), Ordinal(w))
      /\ \A w, x, y \in Walks : Less(Ordinal(w), Ordinal(x)) /\ Less(Ordinal(x), Ordinal(y)) => Less(Ordinal(w), Ordinal(y))
  BY OrdinalsOrder
<1>3. \A w, x \in Walks : Less(Ordinal(w), Ordinal(x)) <=> Less(MetOf(w), MetOf(x))
  BY WalksInOrder
<1>4. /\ \A w, x, y : Alike(w, x) /\ Alike(x, y) => Alike(w, y)
      /\ \A w, x : Alike(w, x) => Alike(x, w)
  BY DEF Alike
<1> HIDE DEF C
<1>5. ASSUME NEW w \in Walks, w \in FirstMet PROVE PathOf(w) \in C
  <2>1. PICK x \in Walks : PathOf(x) \in C /\ Alike(x, w) /\ ~Less(Ordinal(w), Ordinal(x))
    BY <1>1
  <2>2. ~Less(Ordinal(x), Ordinal(w))
    BY <1>3, <1>5, <2>1 DEF FirstMet
  <2>3. x = w
    BY <1>2, <2>1, <2>2
  <2> QED BY <2>1, <2>3
<1>6. ASSUME NEW w \in Walks, PathOf(w) \in C PROVE w \in FirstMet
  <2> SUFFICES ASSUME NEW x \in Walks, Alike(x, w), Less(MetOf(x), MetOf(w)) PROVE FALSE
    BY DEF FirstMet
  <2>1. Less(Ordinal(x), Ordinal(w))
    BY <1>3
  <2>2. PICK y \in Walks : PathOf(y) \in C /\ Alike(y, x) /\ ~Less(Ordinal(x), Ordinal(y))
    BY <1>1
  <2>3. y = w
    <3>1. Alike(y, w)
      BY <1>4, <2>2
    <3> QED BY <1>1, <1>6, <2>2, <3>1
  <2> QED BY <2>1, <2>2, <2>3
<1> QED BY <1>5, <1>6 DEF C

LEMMA LegacyKeyIs ==
    ASSUME Collected, NEW w \in Walks, NEW x \in Walks
    PROVE  /\ Less(PathKey(LegacyItem(w)), PathKey(LegacyItem(x))) <=> Less(PathKey(PathOf(w)), PathKey(PathOf(x)))
           /\ LegacyItem(w) = LegacyItem(x) => w = x
           /\ ItemOf(LegacyItem(w)) = ItemOf(PathOf(w))
<1> DEFINE a == HeadKey(PathOf(w).entity, PathOf(w).path)
           b == HeadKey(PathOf(x).entity, PathOf(x).path)
           m == MetOf(w)
           n == MetOf(x)
           s == Ordinal(w)
           t == Ordinal(x)
<1>1. /\ PathKey(PathOf(w)) = a \o s /\ PathKey(PathOf(x)) = b \o t
      /\ PathKey(LegacyItem(w)) = a \o m /\ PathKey(LegacyItem(x)) = b \o n
  <2>1. \A z : PathOf(z).ordinal = Ordinal(z) /\ LegacyItem(z).ordinal = MetOf(z)
    BY DEF PathOf, LegacyItem
  <2>2. \A z : LegacyItem(z).entity = PathOf(z).entity /\ LegacyItem(z).path = PathOf(z).path
    BY DEF PathOf, LegacyItem
  <2> QED BY <2>1, <2>2, PathKeyIs
<1>2. /\ a \in Seq(Int) /\ b \in Seq(Int) /\ Len(a) = Len(b)
      /\ m \in Seq(Int) /\ n \in Seq(Int) /\ s \in Seq(Int) /\ t \in Seq(Int)
      /\ Less(s, t) <=> Less(m, n)
  BY HeadIs, WalksInOrder
<1>3. LegacyItem(w) = LegacyItem(x) => w = x
  <2>1. LegacyItem(w) = LegacyItem(x) => MetOf(w) = MetOf(x)
    <3>1. LegacyItem(w).ordinal = MetOf(w) /\ LegacyItem(x).ordinal = MetOf(x)
      BY DEF LegacyItem
    <3> QED BY <3>1
  <2>2. w # x => Less(MetOf(w), MetOf(x)) \/ Less(MetOf(x), MetOf(w))
    BY OrdinalsOrder, WalksInOrder
  <2>3. ~Less(MetOf(w), MetOf(w)) /\ ~Less(MetOf(x), MetOf(x))
    BY OrdinalsOrder, WalksInOrder
  <2> QED BY <2>1, <2>2, <2>3
<1>4. ItemOf(LegacyItem(w)) = ItemOf(PathOf(w))
  BY DEF ItemOf, LegacyItem, PathOf
<1> HIDE DEF a, b, m, n, s, t
<1>5. Less(a \o m, b \o n) <=> Less(a, b) \/ (a = b /\ Less(m, n))
  BY <1>2, LessConcat
<1>6. Less(a \o s, b \o t) <=> Less(a, b) \/ (a = b /\ Less(s, t))
  BY <1>2, LessConcat
<1> QED BY <1>1, <1>2, <1>3, <1>4, <1>5, <1>6

(* It lists the same paths.                                                *)
LEMMA LegacyListIs ==
    ASSUME Collected, walk.chosen \in AllChosen
    PROVE  LET C == walk.chosen
           IN  /\ LegacyList \in Seq(LegacyItems) /\ Len(LegacyList) = Cardinality(C)
               /\ \A i \in 1..Cardinality(C) : ItemOf(LegacyList[i]) = ItemOf(InOrder(C, PathKeys(C))[i])
<1> DEFINE C == walk.chosen
           T == LegacyItems
           key == PathKeys(C)
           other == PathKeys(T)
           walkOf(p) == CHOOSE w \in Walks : PathOf(w) = p
           f == [p \in C |-> LegacyItem(walkOf(p))]
<1>1. IsFiniteSet(C) /\ C \subseteq {PathOf(w) : w \in Walks}
  BY PathsAre DEF Kept
<1>2. KeysDiffer(C, key)
  BY <1>1, PathKeysDiffer
<1>3. \A p \in C : walkOf(p) \in Walks /\ PathOf(walkOf(p)) = p
  BY <1>1
<1> HIDE DEF walkOf
<1>4. \A p \in C : f[p] = LegacyItem(walkOf(p)) /\ f[p] \in T
  <2>1. \A p \in C : walkOf(p) \in FirstMet
    BY <1>3, FirstIsChosen
  <2> QED BY <2>1 DEF LegacyItems
<1>5. f \in [C -> T]
  BY <1>4
<1>6. \A p, q \in C : f[p] = f[q] => p = q
  <2> SUFFICES ASSUME NEW p \in C, NEW q \in C, f[p] = f[q] PROVE p = q
    OBVIOUS
  <2>1. LegacyItem(walkOf(p)) = LegacyItem(walkOf(q))
    BY <1>4
  <2>2. walkOf(p) = walkOf(q)
    BY <1>3, <2>1, LegacyKeyIs
  <2> QED BY <1>3, <2>2
<1>7. \A t \in T : \E p \in C : f[p] = t
  <2> SUFFICES ASSUME NEW t \in T PROVE \E p \in C : f[p] = t
    OBVIOUS
  <2>1. PICK w \in FirstMet : t = LegacyItem(w)
    BY DEF LegacyItems
  <2>2. w \in Walks /\ PathOf(w) \in C
    BY FirstIsChosen DEF FirstMet
  <2>3. walkOf(PathOf(w)) = w
    BY <1>3, <2>2, OrdinalsOrder
  <2> QED BY <1>4, <2>1, <2>2, <2>3
<1>8. \A p, q \in C : Less(other[f[p]], other[f[q]]) <=> Less(key[p], key[q])
  <2> SUFFICES ASSUME NEW p \in C, NEW q \in C PROVE Less(other[f[p]], other[f[q]]) <=> Less(key[p], key[q])
    OBVIOUS
  <2>1. key[p] = PathKey(PathOf(walkOf(p))) /\ key[q] = PathKey(PathOf(walkOf(q)))
    BY <1>3 DEF PathKeys
  <2>2. other[f[p]] = PathKey(LegacyItem(walkOf(p))) /\ other[f[q]] = PathKey(LegacyItem(walkOf(q)))
    BY <1>4 DEF PathKeys
  <2> QED BY <1>3, <2>1, <2>2, LegacyKeyIs
<1>9. \A p \in C : ItemOf(f[p]) = ItemOf(p)
  BY <1>3, <1>4, LegacyKeyIs
<1>10. Table([p \in T |-> PathKey(p)]) = Table(other)
  BY DEF PathKeys
<1>11. LegacyList = SortedBy(T, Table(other))
  BY <1>10 DEF LegacyList, Sorted
<1>12. InOrder(C, key) \in Seq(C) /\ Len(InOrder(C, key)) = Cardinality(C) /\ Cardinality(C) \in Nat
  BY <1>1, <1>2, SortedOnce, FS_CardinalityType
<1> HIDE DEF C, T, key, other, f
<1>18. IsFiniteSet(C)
  BY <1>1
<1>19. Corresponding(C, key, T, other, f)
  BY <1>5, <1>6, <1>7, <1>8 DEF Corresponding
<1>13. /\ IsFiniteSet(T) /\ KeysDiffer(T, other) /\ Cardinality(T) = Cardinality(C)
       /\ \A i \in 1..Cardinality(C) : InOrder(T, other)[i] = f[InOrder(C, key)[i]]
  BY <1>18, <1>2, <1>19, SortedAlike
<1>14. LegacyList = InOrder(T, other)
  BY <1>11, <1>13, SortedByIs
<1>15. LegacyList \in Seq(T) /\ Len(LegacyList) = Cardinality(C)
  BY <1>13, <1>14, SortedOnce
<1>16. \A i \in 1..Cardinality(C) : InOrder(C, key)[i] \in C
  BY <1>12, ElementOfSeq
<1>17. \A i \in 1..Cardinality(C) : ItemOf(LegacyList[i]) = ItemOf(InOrder(C, key)[i])
  BY <1>9, <1>13, <1>14, <1>16
<1> QED BY <1>15, <1>17 DEF C, T, key

LEMMA AnswersAsBefore == ASSUME QueryInv PROVE AsBefore
<1>1. stage # "over_budget"
  BY DEF QueryInv
<1> SUFFICES ASSUME Answered, query.kind # "trace", target # 0 PROVE answer = LegacyPaths
  BY <1>1 DEF AsBefore
<1>2. Collected
  BY AnsweredIs
<1>3. First = <<>> /\ Room > 0 /\ Room \in Nat
  <2>1. First = <<>> /\ Room \in Nat /\ query.limit \in Nat /\ query.limit > 0 /\ Room = query.limit - Len(First)
    BY <1>2, RoomIs DEF Collected, Readable
  <2>2. Len(<<>>) = 0
    OBVIOUS
  <2>3. Room = query.limit - 0
    BY <2>1, <2>2
  <2> QED BY <2>1, <2>3
<1>4. walk.chosen \in AllChosen /\ answer = FullAnswer
  BY <1>3, AnsweredIs
<1>5. answer = Shown
  BY <1>2, <1>3, <1>4, AnswerIs
<1> DEFINE C == walk.chosen
           o == InOrder(C, PathKeys(C))
           L == LegacyList
           U == {ItemOf(L[i]) : i \in DOMAIN L} \cup {ItemOf(Paths[k]) : k \in 1..Len(Paths)}
           mapped == [i \in DOMAIN L |-> ItemOf(L[i])]
           t == Top(mapped, Room)
<1>6. LegacyPaths = t
  BY LegacyIs
<1>7. /\ L \in Seq(LegacyItems) /\ Len(L) = Cardinality(C) /\ Cardinality(C) \in Nat
      /\ \A i \in 1..Cardinality(C) : ItemOf(L[i]) = ItemOf(o[i])
  BY <1>2, <1>4, LegacyListIs, PathsAre
<1>8. DOMAIN L = 1..Cardinality(C)
  BY <1>7
<1>9. /\ Len(Paths) = IF Room < Cardinality(C) THEN Room ELSE Cardinality(C)
      /\ \A i \in 1..Len(Paths) : Paths[i] = o[i]
  <2> DEFINE key == PathKeys(C)
  <2>1. IsFiniteSet(C) /\ C \subseteq {PathOf(w) : w \in Walks} /\ Paths = Top(InOrder(C, key), Room)
    BY <1>2, <1>4, PathsAre DEF Kept
  <2>2. KeysDiffer(C, key) /\ IsFiniteSet(C)
    BY <1>2, <2>1, PathKeysDiffer
  <2> DEFINE n == Room
             s == Top(InOrder(C, key), n)
  <2> HIDE DEF C, key, n
  <2>3. n \in Nat
    BY <1>3 DEF n
  <2>4. Len(s) = (IF n < Cardinality(C) THEN n ELSE Cardinality(C)) /\ \A i \in 1..Len(s) : s[i] = InOrder(C, key)[i]
    BY <2>2, <2>3, TopInOrder
  <2>5. Paths = s
    BY <2>1 DEF n
  <2> HIDE DEF s
  <2> QED BY <2>4, <2>5 DEF n, key
<1>10. /\ Shown \in Seq(U) /\ Len(Shown) = Len(Paths) /\ \A j \in 1..Len(Paths) : Shown[j] = ItemOf(Paths[j])
  <2>1. Shown \in Seq({ItemOf(Paths[k]) : k \in 1..Len(Paths)})
    BY <1>2, <1>4, ShownIs
  <2>2. Shown \in Seq(U)
    BY <2>1, SeqMonotonic
  <2> QED BY <1>2, <1>4, <2>2, ShownIs
<1> HIDE DEF C, o, L
<1>11. mapped \in [1..Cardinality(C) -> U] /\ \A i \in 1..Cardinality(C) : mapped[i] = ItemOf(L[i])
  BY <1>8
<1> HIDE DEF U, mapped
<1>12. mapped \in Seq(U) /\ Len(mapped) = Cardinality(C)
  <2>1. mapped \in Seq(U)
    BY <1>7, <1>11, SeqDef
  <2> QED BY <1>7, <1>11, <2>1
<1> DEFINE m == Room
<1>13. m \in Nat
  BY <1>3
<1> HIDE DEF m
<1>14. /\ Top(mapped, m) \in Seq(U) /\ Len(Top(mapped, m)) = IF m < Len(mapped) THEN m ELSE Len(mapped)
       /\ \A i \in 1..Len(Top(mapped, m)) : i \in 1..Len(mapped) /\ Top(mapped, m)[i] = mapped[i]
  BY <1>12, <1>13, TopIs
<1>15. t = Top(mapped, m)
  BY DEF m
<1> HIDE DEF t
<1>16. t \in Seq(U) /\ Len(t) = Len(Paths) /\ Len(t) = Len(Shown)
  BY <1>9, <1>10, <1>12, <1>14, <1>15 DEF m
<1>17. ASSUME NEW i \in 1..Len(t) PROVE t[i] = Shown[i]
  <2>1. i \in 1..Cardinality(C) /\ t[i] = ItemOf(L[i])
    BY <1>11, <1>12, <1>14, <1>15
  <2>2. Paths[i] = o[i] /\ Shown[i] = ItemOf(Paths[i])
    BY <1>9, <1>10, <1>16
  <2> QED BY <1>7, <2>1, <2>2
<1>18. t = Shown
  BY <1>10, <1>16, <1>17, SeqEqual
<1> QED BY <1>5, <1>6, <1>18

(* What is shown was walked from the target over relationships that hold;  *)
(* every walk is shown unless a limit was met and said; a Vault whose      *)
(* graph is older than its documents is named; the bound on examined edges *)
(* is never exceeded, and the answer is that of the projection that the    *)
(* core replaced (graph_retrieval_service.py, path_traversal.py).          *)
THEOREM QueryAnswersFaithfully == QuerySpec => []GraphAnswersFaithfully
<1>1. QueryInv => GraphAnswersFaithfully
  BY AllShownHold, AllAreShown, StaleNamed, AnswersAsBefore DEF GraphAnswersFaithfully
<1> QED BY <1>1, QueryInvHolds, PTL
===============================================================================
