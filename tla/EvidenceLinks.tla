----------------------------- MODULE EvidenceLinks -----------------------------
(***************************************************************************)
(* Which graph records rest on given pieces of evidence                    *)
(* (retrieval/evidence/evidence_linking.py).                               *)
(*                                                                         *)
(* The chunks and the graph are read one call after the other, while an    *)
(* index run may change either.  The revisions of both are read before and *)
(* after, and links of two revisions are never answered.                   *)
(*                                                                         *)
(* Owners and content hashes are numbers; a key is a chunk.                *)
(***************************************************************************)
EXTENDS Ordering

CONSTANTS
    KeyVault,   \* [key -> the Vault of its document]
    OwnerVault, \* [owner -> its Vault]
    Hashes,     \* content hashes of a chunk
    Questions,  \* [keys, cross, limit]
    MaxUpdates, \* how often an index run changes a store meanwhile
    Missing

Keys == DOMAIN KeyVault
Owners == DOMAIN OwnerVault

(* Owners and Vaults are numbers; a question has keys and a limit.         *)
LinkConstants ==
    /\ IsFiniteSet(Owners) /\ Owners \subseteq Int
    /\ OwnerVault \in [Owners -> Int]
    /\ 1 \in Hashes /\ Missing \notin Hashes
    /\ Questions \subseteq [keys : Seq(Keys) \ {<<>>}, cross : BOOLEAN, limit : Nat]
ASSUME LinkAssumption == LinkConstants

VARIABLES
    request,  \* the keys, whether other Vaults may own links, the limit
    chunks,   \* the hash of each chunk, or Missing
    owners,   \* [key -> set of [owner, hash]] in the graph
    revision, \* [metadata, graph]: how often each was changed
    step,     \* metadata, graph, evidence, readiness, lookup, metadata_again, graph_again, evidence_again, done, failed
    before,   \* the revisions read first
    evidence, \* the hash each key resolved to
    fresh,    \* the Vaults whose graph was up to date
    at,       \* the key that is next
    links,    \* [owner, key]
    outcomes, \* [key -> status]
    stop,
    held      \* both stores when the first revisions were read; auxiliary

linkVars == <<request, chunks, owners, revision, step, before, evidence, fresh, at, links, outcomes, stop, held>>

Vaults == {OwnerVault[o] : o \in DOMAIN OwnerVault} \cup {KeyVault[k] : k \in Keys}

(* A Vault is fresh when each of its records rests on the chunks as they   *)
(* are (_fresh_scopes).                                                    *)
FreshVaults(c, g) == {v \in Vaults : \A k \in Keys : \A o \in g[k] : OwnerVault[o.owner] = v => o.hash = c[k]}

LinksInit ==
    /\ request \in Questions
    /\ chunks \in [Keys -> {1, Missing}]
    /\ owners \in [Keys -> SUBSET {[owner |-> o, hash |-> 1] : o \in DOMAIN OwnerVault}]
    /\ \A k \in Keys : \A o \in owners[k] : request.cross \/ OwnerVault[o.owner] = KeyVault[k]
    /\ revision = [metadata |-> 0, graph |-> 0]
    /\ step = "metadata" /\ before = revision /\ at = 1
    /\ evidence = [k \in Keys |-> Missing] /\ fresh = {}
    /\ links = <<>> /\ outcomes = [k \in Keys |-> "unknown"] /\ stop = "completed"
    /\ held = [chunks |-> chunks, owners |-> owners]

Stores == <<request, chunks, owners, revision>>

----------------------------------------------------------------------------
ReadMetadataRevision ==
    /\ step = "metadata" /\ step' = "graph"
    /\ before' = [before EXCEPT !.metadata = revision.metadata]
    /\ UNCHANGED <<Stores, evidence, fresh, at, links, outcomes, stop, held>>

ReadGraphRevision ==
    /\ step = "graph" /\ step' = "evidence"
    /\ before' = [before EXCEPT !.graph = revision.graph]
    /\ held' = [chunks |-> chunks, owners |-> owners]
    /\ UNCHANGED <<Stores, evidence, fresh, at, links, outcomes, stop>>

Key == request.keys[at]
AtLast == at = Len(request.keys)

(* resolve_evidence                                                        *)
ResolveEvidence ==
    /\ step = "evidence"
    /\ evidence' = [evidence EXCEPT ![Key] = chunks[Key]]
    /\ IF AtLast THEN step' = "readiness" /\ at' = 1 ELSE step' = step /\ at' = at + 1
    /\ UNCHANGED <<Stores, before, fresh, links, outcomes, stop, held>>

CheckReadiness ==
    /\ step = "readiness" /\ step' = "lookup"
    /\ fresh' = FreshVaults(chunks, owners)
    /\ UNCHANGED <<Stores, before, evidence, at, links, outcomes, stop, held>>

(* An unavailable Vault can hide matches of other Vaults.                  *)
Relevant == IF request.cross THEN Vaults ELSE {KeyVault[Key]}

(* lookup_evidence_owners                                                  *)
OwnersOf(k) == {o \in owners[k] : request.cross \/ OwnerVault[o.owner] = KeyVault[k]}

(* One more row than the limit is read, to know whether there are more.    *)
Rows == Top(Sorted(OwnersOf(Key), LAMBDA o : <<OwnerVault[o.owner], o.owner>>), request.limit + 1 - Len(links))

(* _validate_rows                                                          *)
Valid == \A i \in DOMAIN Rows : revision.graph = before.graph /\ Rows[i].hash = evidence[Key]

Wanted == stop # "result_limit" /\ evidence[Key] # Missing

NextKey ==
    IF AtLast THEN step' = "metadata_again" /\ at' = 1 ELSE step' = step /\ at' = at + 1

Skip(status) ==
    /\ outcomes' = [outcomes EXCEPT ![Key] = status]
    /\ NextKey
    /\ UNCHANGED links

LookUp ==
    LET remaining == request.limit - Len(links)
        selected == Top(Rows, remaining)
        complete == Len(Rows) <= remaining
    IN  /\ step = "lookup"
        /\ \/ stop = "result_limit" /\ Skip("not_processed") /\ UNCHANGED stop
           \/ stop # "result_limit" /\ evidence[Key] = Missing /\ Skip("missing_evidence") /\ UNCHANGED stop
           \/ Wanted /\ ~(Relevant \subseteq fresh) /\ Skip("not_ready") /\ stop' = "not_ready"
           \/ /\ Wanted /\ Relevant \subseteq fresh /\ ~Valid
              /\ step' = "failed" /\ UNCHANGED <<at, links, outcomes, stop>>
           \/ /\ Wanted /\ Relevant \subseteq fresh /\ Valid
              /\ links' = links \o [i \in DOMAIN selected |-> [owner |-> selected[i].owner, key |-> Key]]
              /\ outcomes' = [outcomes EXCEPT ![Key] =
                    IF ~complete /\ selected = <<>> THEN "not_processed" ELSE IF selected = <<>> THEN "no_links"
                    ELSE IF complete THEN "linked" ELSE "linked_in_part"]
              /\ stop' = IF complete THEN stop ELSE "result_limit"
              /\ NextKey
        /\ UNCHANGED <<Stores, before, evidence, fresh, held>>

(* _unavailable: nothing is answered.                                      *)
Withdraw ==
    /\ step' = "done" /\ stop' = "revision_changed"
    /\ links' = <<>> /\ outcomes' = [k \in Keys |-> "not_ready"]

ReadMetadataAgain ==
    /\ step = "metadata_again"
    /\ IF revision.metadata = before.metadata THEN step' = "graph_again" /\ UNCHANGED <<links, outcomes, stop>>
       ELSE Withdraw
    /\ UNCHANGED <<Stores, before, evidence, fresh, at, held>>

(* Without the graph's revision the second time: a mutant.                 *)
SkipGraphAgain ==
    /\ step = "graph_again" /\ step' = "evidence_again"
    /\ UNCHANGED <<Stores, before, evidence, fresh, at, links, outcomes, stop, held>>

ReadGraphAgain ==
    /\ step = "graph_again"
    /\ IF revision.graph = before.graph THEN step' = "evidence_again" /\ UNCHANGED <<links, outcomes, stop>>
       ELSE Withdraw
    /\ UNCHANGED <<Stores, before, evidence, fresh, at, held>>

ResolveAgain ==
    /\ step = "evidence_again"
    /\ IF chunks[Key] # evidence[Key] THEN Withdraw /\ UNCHANGED at
       ELSE /\ IF AtLast THEN step' = "done" /\ UNCHANGED at ELSE step' = step /\ at' = at + 1
            /\ UNCHANGED <<links, outcomes, stop>>
    /\ UNCHANGED <<Stores, before, evidence, fresh, held>>

----------------------------------------------------------------------------
(* An index run changes a chunk, or brings the graph up to date with it.   *)
Running == step \notin {"done", "failed"} /\ revision.metadata + revision.graph < MaxUpdates

ChangeChunk(k) ==
    /\ Running
    /\ \E h \in (Hashes \cup {Missing}) \ {chunks[k]} : chunks' = [chunks EXCEPT ![k] = h]
    /\ revision' = [revision EXCEPT !.metadata = @ + 1]
    /\ UNCHANGED <<request, owners, step, before, evidence, fresh, at, links, outcomes, stop, held>>

ChangeGraph(k) ==
    /\ Running /\ chunks[k] # Missing
    /\ \E of \in SUBSET DOMAIN OwnerVault :
          /\ \A o \in of : request.cross \/ OwnerVault[o] = KeyVault[k]
          /\ owners' = [owners EXCEPT ![k] = {[owner |-> o, hash |-> chunks[k]] : o \in of}]
    /\ owners' # owners
    /\ revision' = [revision EXCEPT !.graph = @ + 1]
    /\ UNCHANGED <<request, chunks, step, before, evidence, fresh, at, links, outcomes, stop, held>>

LinksNext ==
    \/ ReadMetadataRevision \/ ReadGraphRevision \/ ResolveEvidence \/ CheckReadiness \/ LookUp
    \/ ReadMetadataAgain \/ ReadGraphAgain \/ ResolveAgain
    \/ \E k \in Keys : ChangeChunk(k) \/ ChangeGraph(k)

LinksSpec == LinksInit /\ [][LinksNext]_linkVars

----------------------------------------------------------------------------
(* What is answered is what both stores held at one moment: no key is said *)
(* to have no links, or all its links, unless it had them then; what the   *)
(* limit leaves out is said; and the lookup fails only when a store was    *)
(* changed meanwhile.                                                      *)
LinksThen(k) ==
    IF held.chunks[k] = Missing THEN {}
    ELSE {o.owner : o \in {p \in held.owners[k] : request.cross \/ OwnerVault[p.owner] = KeyVault[k]}}

LinkedTo(k) == {links[i].owner : i \in {j \in DOMAIN links : links[j].key = k}}

LinksAreOfOneRevision ==
    /\ step = "done" /\ stop # "revision_changed" =>
          \A k \in ToSet(request.keys) :
              /\ outcomes[k] = "missing_evidence" => evidence[k] = Missing
              /\ evidence[k] = held.chunks[k]
              /\ LinkedTo(k) \subseteq LinksThen(k)
              /\ outcomes[k] \in {"linked", "no_links"} => LinkedTo(k) = LinksThen(k)
              /\ outcomes[k] = "no_links" => LinksThen(k) = {}
              /\ outcomes[k] \in {"not_processed", "linked_in_part"} => Len(links) = request.limit
              /\ outcomes[k] = "not_ready" => FreshVaults(held.chunks, held.owners) # Vaults
    /\ step = "failed" => revision # before
===============================================================================
