-------------------------------- MODULE Answers --------------------------------
(* What an agent is handed over MCP: the Vaults a question is asked of, the *)
(* context pack and the answer built from what a search finds, and the two *)
(* caches that keep packs readable and results explainable afterwards      *)
(* (interface/mcp/mcp_tools.py, context/pack, context/answer).             *)
EXTENDS Ordering, TLC

CONSTANTS
    Worlds,         \* index and catalog a process may serve: see World below
    Questions,      \* [text, project, graph, tokens]: what is asked, of which Vaults, for how many tokens
    Finding,        \* results of a search: [vault, type, status, refs, words, warned]
    Tokens,         \* words of the text of each chunk
    MaxEvidence, MaxExcerpt, MaxClaims,   \* limits of a pack and of an answer
    MaxPacks, MaxRecords                  \* entries each cache keeps

(* World: [vaults : state of each Vault of the project, found : the results *)
(* of each text, trace : the steps of its decision trace, alarms : severity *)
(* of the search's own warnings, standing : what each chunk resolves to,   *)
(* stray : whether a search reaches out of its scope, calls : calls looked *)
(* at].                                                                    *)

VARIABLES
    world,
    packs,          \* context packs kept by their content, the one used last at the end
    records,        \* explanations kept, the one told last at the end
    reply,          \* what the last call returned
    log             \* what every call put into a cache or read from it

vars == <<world, packs, records, reply, log>>

NoReply == [tool |-> "none"]
Failed == [tool |-> "error"]
None == [told |-> <<>>, pack |-> NoReply]

----------------------------------------------------------------------------
(* The Vaults of a question.                                               *)

(* Vaults of the project that are left out, and those answered from.       *)
LeftOut(w) == {v \in DOMAIN w.vaults : w.vaults[v] \in {"unregistered", "disabled"}}
DefaultVaults(w) ==
    [vaults |-> DOMAIN w.vaults \ LeftOut(w),
     named |-> {v \in DOMAIN w.vaults : w.vaults[v] # "indexed"},
     none |-> LeftOut(w) = DOMAIN w.vaults, refused |-> FALSE]

(* A request that names its Vaults is asked of all of them or refused.     *)
NamedVaults(w) == [vaults |-> DOMAIN w.vaults, named |-> {}, none |-> FALSE, refused |-> LeftOut(w) # {}]

Selection(w, q) == IF q.project THEN DefaultVaults(w) ELSE NamedVaults(w)

(* What a search in these Vaults finds: ranks are places in the list.      *)
Found(w, q) ==
    LET answers(r) == Finding[r].vault \in Selection(w, q).vaults /\ w.vaults[Finding[r].vault] # "unindexed"
    IN  SelectSeq(w.found[q.text], answers)
Traced(w, q) == IF q.graph THEN w.trace[q.text] ELSE <<>>

----------------------------------------------------------------------------
(* A context pack: results by type, then rank, whole items within budgets. *)

Priority(type) == Position(<<"decision", "constraint", "question", "state", "page", "source">>, type)
Planned(found) == Sorted(DOMAIN found, LAMBDA rank : <<Priority(Finding[found[rank]].type), rank>>)

ExcerptTokens(ref) == IF Tokens[ref] > MaxExcerpt THEN MaxExcerpt ELSE Tokens[ref]
Truncated(ref) == IF Tokens[ref] > MaxExcerpt THEN {<<"excerpt_truncated", ref>>} ELSE {}

NewSelection(warnings) == [evidence |-> <<>>, used |-> 0, items |-> <<>>, omitted |-> <<>>, warnings |-> warnings]
NewItem(rank, r) ==
    [rank |-> rank, result |-> r, refs |-> <<>>, pending |-> <<>>, tokens |-> 0, over |-> FALSE, 
     missing |-> {}, said |-> {}]

AddEvidence(sel, budget, item, ref) ==
    IF sel.used + item.tokens + ExcerptTokens(ref) > budget THEN [item EXCEPT !.over = TRUE]
    ELSE [item EXCEPT !.pending = Append(@, ref), !.refs = Append(@, ref),
                      !.tokens = @ + ExcerptTokens(ref), !.said = @ \cup Truncated(ref)]

(* One reference of an item: shared evidence is counted once, the first    *)
(* that does not fit ends the item, one that cannot be read is skipped.    *)
CheckRef(w, sel, budget, item, ref) ==
    IF item.over THEN item
    ELSE IF ref \in ToSet(sel.evidence) \cup ToSet(item.pending) THEN [item EXCEPT !.refs = Append(@, ref)]
    ELSE IF Len(sel.evidence) + Len(item.pending) >= MaxEvidence THEN [item EXCEPT !.over = TRUE]
    ELSE CASE w.standing[ref] = "missing" -> [item EXCEPT !.missing = @ \cup {<<"missing_evidence", ref>>}]
           [] w.standing[ref] = "outside" -> [item EXCEPT !.said = @ \cup {<<"invalid_evidence_path", ref>>}]
           [] OTHER -> AddEvidence(sel, budget, item, ref)

ItemWarnings(r) == IF Finding[r].warned THEN {<<"result", r>>} ELSE {}

FinishItem(sel, item) ==
    LET own == ItemWarnings(item.result)
        left == [sel EXCEPT !.omitted = Append(@, item.rank)]
    IN  IF item.over THEN [left EXCEPT !.warnings = @ \cup item.said \cup own \cup {<<"budget_omitted", 0>>}]
        ELSE IF item.refs = <<>> THEN [left EXCEPT !.warnings = @ \cup item.said \cup own \cup item.missing]
        ELSE [sel EXCEPT !.evidence = @ \o item.pending, !.used = @ + item.tokens,
                         !.warnings = @ \cup item.said,
                         !.items = Append(@, [rank |-> item.rank, result |-> item.result, refs |-> item.refs,
                                              warnings |-> own \cup item.missing])]

SelectEvidence(w, found, budget, warnings) ==
    FoldLeft(LAMBDA sel, rank :
                 FinishItem(sel, FoldLeft(LAMBDA item, ref : CheckRef(w, sel, budget, item, ref),
                                          NewItem(rank, found[rank]), Finding[found[rank]].refs)),
             NewSelection(warnings), Planned(found))

SearchWarnings(w, q) == {<<severity, 0>> : severity \in w.alarms[q.text]}

PackOf(w, q) ==
    LET chosen == SelectEvidence(w, Found(w, q), q.tokens, SearchWarnings(w, q))
    IN  [tool |-> "pack", question |-> q, items |-> chosen.items, evidence |-> chosen.evidence,
         used |-> chosen.used, omitted |-> Len(chosen.omitted), warnings |-> chosen.warnings]

----------------------------------------------------------------------------
(* An answer: evidence of the search and of the decision trace.            *)

(* Every reference of every result, with the words of the result's summary *)
EvidenceFrom(results, kind, start) ==
    LET all == FlattenSeq([i \in DOMAIN results |->
                   [j \in DOMAIN Finding[results[i]].refs |->
                       [ref |-> Finding[results[i]].refs[j], kind |-> kind, words |-> Finding[results[i]].words,
                        status |-> Finding[results[i]].status]]])
    IN  [i \in DOMAIN all |-> [id |-> <<kind, all[i].ref, start + i>>, ref |-> all[i].ref, kind |-> kind,
                               words |-> all[i].words, status |-> all[i].status]]

Gathered(w, q) ==
    LET searched == EvidenceFrom(Found(w, q), "search", 0)
    IN  searched \o EvidenceFrom(Traced(w, q), "trace", Len(searched))

DedupeEvidence(evidence) ==
    FoldLeft(LAMBDA kept, e : IF \E i \in DOMAIN kept : kept[i].ref = e.ref /\ kept[i].kind = e.kind
                              THEN kept ELSE Append(kept, e), <<>>, evidence)

Words(evidence) == FoldLeft(LAMBDA sum, e : sum + e.words, 0, evidence)

(* Evidence that does not fit is passed over, the rest may still fit.      *)
EnforceBudget(evidence, tokens) ==
    FoldLeft(LAMBDA kept, e : IF Words(kept) + e.words > tokens THEN kept ELSE Append(kept, e), <<>>, evidence)

AnswerWarnings(w, q, deduped, kept) ==
    SearchWarnings(w, q)
        \cup {<<"evidence_budget_exhausted", 0>> : x \in 1..(Len(deduped) - Len(kept))}
        \cup {<<"insufficient_evidence", 0>> : x \in {1} \cap {1 - Len(kept)}}

ClaimStatus(e) == IF e.status \in {"contested", "deprecated", "inferred"} THEN e.status ELSE "supported"

(* The claims are the first pieces of evidence, each citing its own.       *)
Claims(kept) == [i \in DOMAIN Top(kept, MaxClaims) |-> [status |-> ClaimStatus(kept[i]), cites |-> kept[i].id]]

Status(claims, warnings) ==
    IF claims = <<>> THEN "insufficient_evidence"
    ELSE IF \E x \in warnings : x[1] # "info" THEN "partial"
    ELSE IF \E i \in DOMAIN claims : claims[i].status = "supported" THEN "supported" ELSE "partial"

AnswerFrom(w, q, deduped, kept, claims, warnings) ==
    [tool |-> "answer", question |-> q, evidence |-> kept, claims |-> claims, warnings |-> warnings,
     status |-> Status(claims, warnings),
     steps |-> {[kind |-> k, kept |-> {kept[i].id : i \in {j \in DOMAIN kept : kept[j].kind = k}},
                 dropped |-> Len(deduped) - Len(kept)] : k \in IF q.graph THEN {"search", "trace"} ELSE {"search"}}]

AnswerOf(w, q) ==
    LET deduped == DedupeEvidence(Gathered(w, q))
        kept == EnforceBudget(deduped, q.tokens)
    IN  AnswerFrom(w, q, deduped, kept, Claims(kept), AnswerWarnings(w, q, deduped, kept))

----------------------------------------------------------------------------
(* What a reply leaves to be explained: the id is that of the result at    *)
(* its rank, of the item with its references, or of the piece of evidence; *)
(* none but a trace's says what was asked.                                 *)

Told(id, r) == [id |-> id, as |-> r]

RecordsOf(r) ==
    CASE r.tool = "search" -> [i \in DOMAIN r.results |-> Told(<<"result", r.results[i], i>>, r)]
      [] r.tool = "pack" -> [i \in DOMAIN r.items |-> Told(<<"item", r.items[i].result, r.items[i].rank>>, r)]
      [] r.tool = "answer" -> [i \in DOMAIN r.evidence |-> Told(r.evidence[i].id, r)]
      [] OTHER -> [i \in DOMAIN r.results |-> Told(<<"step", r.question.text, i>>, r)]

(* A dictionary in order of last use: setting moves to the end, and the    *)
(* oldest leave.                                                           *)
Without(cache, id) == SelectSeq(cache, LAMBDA x : x.id # id)
Newest(cache, n) == IF Len(cache) > n THEN SubSeq(cache, Len(cache) - n + 1, Len(cache)) ELSE cache
PutRecord(cache, record) == Newest(Append(Without(cache, record.id), record), MaxRecords)
PutRecords(cache, told) == FoldLeft(PutRecord, cache, told)
PutPack(cache, p) == Newest(Append(SelectSeq(cache, LAMBDA x : x # p), p), MaxPacks)
GetPackInPlace(cache, p) == cache
GetPack(cache, p) == Append(SelectSeq(cache, LAMBDA x : x # p), p)

----------------------------------------------------------------------------
(* The tools, one call at a time.                                          *)

Init ==
    /\ world \in Worlds
    /\ packs = <<>> /\ records = <<>>
    /\ reply = NoReply
    /\ log = <<>>

Called == Len(log) < world.calls

(* A run publishes, or the catalog changes: the next call sees it.         *)
Reindex ==
    /\ Called
    /\ world.calls > 1
    /\ \E w \in Worlds : w # world /\ w.calls > 1 /\ world' = w
    /\ reply' = NoReply
    /\ UNCHANGED <<packs, records, log>>

(* A call that fails puts nothing into a cache.                            *)
Fail ==
    /\ reply' = Failed
    /\ log' = Append(log, None)
    /\ UNCHANGED <<packs, records>>

HandOut(r, told) ==
    /\ reply' = r
    /\ records' = PutRecords(records, told)
    /\ log' = Append(log, [told |-> told, pack |-> IF r.tool = "pack" THEN r ELSE NoReply])
    /\ packs' = IF r.tool = "pack" THEN PutPack(packs, r) ELSE packs

Answer(r) == HandOut(r, RecordsOf(r))

(* A project without a searchable Vault gets no results, and is told why.  *)
SearchVault(q) ==
    LET r == [tool |-> "search", question |-> q, results |-> IF Selection(world, q).none THEN <<>> ELSE Found(world, q),
              named |-> Selection(world, q).named]
    IN  Called /\ (IF Selection(world, q).refused THEN Fail ELSE Answer(r)) /\ UNCHANGED world

(* The other tools refuse it; a pack also refuses a search that strayed.   *)
Refused(q) == Selection(world, q).none \/ Selection(world, q).refused

BuildContextPack(q) ==
    /\ Called
    /\ IF Refused(q) \/ world.stray THEN Fail ELSE Answer(PackOf(world, q))
    /\ UNCHANGED world

AskVault(q) ==
    /\ Called
    /\ IF Refused(q) THEN Fail ELSE Answer(AnswerOf(world, q))
    /\ UNCHANGED world

(* find_related and get_decision_trace.                                    *)
GetDecisionTrace(q) ==
    LET r == [tool |-> "trace", question |-> q, results |-> Traced(world, q)]
    IN  /\ Called
        /\ IF Refused(q) THEN Fail ELSE Answer(r)
        /\ UNCHANGED world

(* The resource of a pack an earlier call returned.                        *)
ReadContextPack(p) ==
    /\ Called
    /\ IF p \in ToSet(packs)
       THEN /\ packs' = GetPack(packs, p)
            /\ log' = Append(log, [None EXCEPT !.pack = p])
            /\ reply' = [p EXCEPT !.tool = "resource"]
            /\ UNCHANGED records
       ELSE Fail
    /\ UNCHANGED world

(* Explaining reads the record told last, and does not keep it longer.     *)
ExplainResult(id) ==
    /\ Called
    /\ IF \E i \in DOMAIN records : records[i].id = id
       THEN /\ reply' = [tool |-> "explanation", record |-> CHOOSE x \in ToSet(records) : x.id = id]
            /\ log' = Append(log, None)
            /\ UNCHANGED <<packs, records>>
       ELSE Fail
    /\ UNCHANGED world

PacksReturned == {log[i].pack : i \in DOMAIN log} \ {NoReply}
IdsTold == UNION {{log[i].told[j].id : j \in DOMAIN log[i].told} : i \in DOMAIN log}

Next ==
    \/ Reindex
    \/ \E q \in Questions : SearchVault(q) \/ BuildContextPack(q) \/ AskVault(q) \/ GetDecisionTrace(q)
    \/ \E p \in PacksReturned : ReadContextPack(p)
    \/ \E id \in IdsTold : ExplainResult(id)

Spec == Init /\ [][Next]_vars

----------------------------------------------------------------------------
(* Properties.                                                             *)

SumOf(seq) == FoldLeft(LAMBDA sum, ref : sum + ExcerptTokens(ref), 0, seq)

Unreadable(ref) == {<<"missing_evidence", ref>>, <<"invalid_evidence_path", ref>>}

(* A pack stays within its budgets and counts shared evidence once, it     *)
(* holds the evidence of its items and no other, each item has all of its  *)
(* evidence that can be read, and every result that is not an item is      *)
(* accounted for: over budget, or nothing of it readable.                  *)
PackHolds(p, found) ==
    /\ p.used = SumOf(p.evidence) /\ p.used <= p.question.tokens
    /\ Len(p.evidence) <= MaxEvidence /\ IsInjective(p.evidence)
    /\ ToSet(p.evidence) = UNION {ToSet(p.items[i].refs) : i \in DOMAIN p.items}
    /\ p.omitted = Len(found) - Len(p.items)
    /\ \A i \in DOMAIN p.items : \A ref \in ToSet(Finding[p.items[i].result].refs) \ ToSet(p.items[i].refs) :
          Unreadable(ref) \cap (p.warnings \cup p.items[i].warnings) # {}
    /\ \A rank \in DOMAIN found \ {p.items[i].rank : i \in DOMAIN p.items} :
          \/ <<"budget_omitted", 0>> \in p.warnings
          \/ \A ref \in ToSet(Finding[found[rank]].refs) : Unreadable(ref) \cap p.warnings # {}

(* An answer cites its own evidence, keeps to its budget and says when     *)
(* something found is not in it; it is "supported" only when nothing was   *)
(* left out and nothing warned of, and its trace names what it kept.       *)
AnswerHolds(a, gathered) ==
    LET ids == {a.evidence[i].id : i \in DOMAIN a.evidence}
    IN  /\ Words(a.evidence) <= a.question.tokens
        /\ Cardinality(ids) = Len(a.evidence)
        /\ \A i \in DOMAIN a.claims : a.claims[i].cites \in ids
        /\ UNION {s.kept : s \in a.steps} = ids
        /\ (\A i \in DOMAIN gathered : \E j \in DOMAIN a.evidence :
                a.evidence[j].ref = gathered[i].ref /\ a.evidence[j].kind = gathered[i].kind)
           \/ <<"evidence_budget_exhausted", 0>> \in a.warnings
        /\ a.status = "supported" => /\ \A x \in a.warnings : x[1] = "info"
                                     /\ \E i \in DOMAIN a.claims : a.claims[i].status = "supported"
        /\ (a.status = "insufficient_evidence") <=> (a.evidence = <<>>)

(* Every Vault of the project is searched or named, and one that is not    *)
(* searched gives no result.                                               *)
ScopeHolds(r) ==
    r.question.project =>
        \A v \in DOMAIN world.vaults :
            \/ world.vaults[v] = "indexed"
            \/ v \in r.named /\ (world.vaults[v] = "unindexed" \/ \A i \in DOMAIN r.results : Finding[r.results[i]].vault # v)

(* A pack is found again unless MaxPacks others were used since; a result  *)
(* is explained as it was told last unless MaxRecords others were told.    *)
Used(i) == log[i].pack
KeptPacks ==
    \A i \in DOMAIN log :
        Used(i) # NoReply /\ Cardinality({Used(j) : j \in i..Len(log)} \ {NoReply}) <= MaxPacks
            => Used(i) \in ToSet(packs)
AllTold == FlattenSeq([i \in DOMAIN log |-> log[i].told])
KeptRecords ==
    LET told == AllTold
    IN  \A i \in DOMAIN told :
            \/ \E j \in DOMAIN told : j > i /\ told[j].id = told[i].id
            \/ Cardinality({told[j].id : j \in i..Len(told)}) > MaxRecords
            \/ told[i] \in ToSet(records)

(* What a call hands out is what it says it is, and can be asked about.    *)
RepliesHoldUp ==
    /\ reply.tool = "pack" => PackHolds(reply, Found(world, reply.question))
    /\ reply.tool = "answer" => AnswerHolds(reply, Gathered(world, reply.question))
    /\ reply.tool = "search" => ScopeHolds(reply)
    /\ KeptPacks
    /\ KeptRecords
================================================================================
