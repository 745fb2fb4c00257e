-------------------------------- MODULE Recall --------------------------------
(***************************************************************************)
(* What a session is told when it starts (context/pack/recall.py): pinned  *)
(* memories (block A), the project's summary (L3), a list of memories (B), *)
(* notices of memories that no longer hold (C), and how to open them (D).  *)
(*                                                                         *)
(* A run logs what it showed, and a run that reads it notices the          *)
(* pages of the last listing that were superseded since.  Runs of several  *)
(* sessions overlap, the log may be unreadable or not writable, and pages  *)
(* change meanwhile.                                                       *)
(*                                                                         *)
(* A line and a title take one token each.  Pages and Vaults are numbers,  *)
(* for the orders the code sorts by.                                       *)
(***************************************************************************)
EXTENDS Ordering

CONSTANTS
    Pages,    \* [p -> vault, kind, pinned, correction, projects, statuses: those it may take]
    Project,
    Linked,   \* [vault -> the projects it is linked to]
    Sharable, \* the Vaults whose pages without a project are shared
    Caps,     \* CATEGORY_CAPS: [category -> how many are listed]
    MaxTokens, PinTokens, SummaryTokens, NoticeTokens, HowTokens, \* 1500, 400, 500, 150, 30
    ListLimit,      \* L3_LIST_LIMIT
    BriefThreshold, \* BRIEF_STALE_THRESHOLD
    NoticeDays,     \* FALLBACK_NOTICE_DAYS
    WaitingLines,   \* how many lines say that proposals or a backlog wait
    LastDay, MaxRuns, MaxOpen, MaxChanges, MaxLogFailures \* MaxOpen: how many sessions start at a time

(* Pages and Vaults are numbers, limits are of tokens.                     *)
RecallConstants ==
    /\ MaxTokens \in Nat /\ PinTokens \in Nat /\ SummaryTokens \in Nat /\ NoticeTokens \in Nat /\ HowTokens \in Nat
    /\ ListLimit \in Nat /\ MaxRuns \in Nat /\ WaitingLines \subseteq Nat
    /\ IsFiniteSet(DOMAIN Pages) /\ DOMAIN Pages \subseteq Int
    /\ \A p \in DOMAIN Pages : Pages[p].vault \in Int
ASSUME RecallAssumption == RecallConstants

VARIABLES
    page,    \* [p -> status, day]
    today,
    changes, \* how many times a page changed
    log,     \* what was logged: [at, block, page]
    recalls  \* of each run, by the moment it started

recallVars == <<page, today, changes, log, recalls>>

Runs == 1..MaxRuns
Stale == {"stale", "superseded"}    \* STALE_STATUSES
Noticeable == {"superseded"}        \* NOTICE_STATUSES, "retired" and "deprecated" among them
ListBlocks == {"A", "B"}                \* _LISTED_BLOCKS
Started == {i \in Runs : recalls[i].step # "waiting"}

NoRecall ==
    [step |-> "waiting", full |-> TRUE, day |-> 0, library |-> <<>>, history |-> {}, readable |-> TRUE, gone |-> {},
     heard |-> {}, shown |-> {}, tokens |-> 0, plain |-> TRUE, cut |-> FALSE, logged |-> TRUE]

(* How often the log was not read or not written.                          *)
Failures == Cardinality({i \in Runs : ~recalls[i].readable}) + Cardinality({i \in Runs : ~recalls[i].logged})

RecallInit ==
    /\ page = [p \in DOMAIN Pages |-> [status |-> "current", day |-> 1]]
    /\ today = 1 /\ changes = 0 /\ log = {}
    /\ recalls = [i \in Runs |-> NoRecall]

----------------------------------------------------------------------------
(* The pages of a project, and their order.                                *)

(* page_in_project                                                         *)
InProject(p) ==
    LET projects == Pages[p].projects
        linked == Linked[Pages[p].vault]
    IN  IF projects # {} THEN Project \in projects
        ELSE IF Cardinality(linked) > 1 THEN Pages[p].vault \in Sharable
        ELSE linked \subseteq {Project}

Scoped == {p \in DOMAIN Pages : InProject(p)}
Current(library) == {p \in Scoped : library[p].status \notin Stale}

(* _category: an issue that was closed is listed as a change.              *)
OpenWork(library, p) == Pages[p].kind = "issue" /\ library[p].status # "closed"
Category(library, p) ==
    CASE OpenWork(library, p) -> "question" [] Pages[p].kind = "decision" -> "decision" [] OTHER -> "change"

NewestKey(library, p) == <<-library[p].day, Pages[p].vault, p>>
NewestFirst(library, S) == Sorted(S, LAMBDA p : NewestKey(library, p))

(* The longest prefix whose block, with a line for what is left out, fits; *)
(* of the lengths that fit.                                                *)
Prefix(s, fitting) == Top(s, Max({0} \cup {n \in fitting : n <= Len(s)}))
OmittedLine(total, n) == IF n < total THEN 1 ELSE 0

(* Block A (pin_block): newest first, two lines each.                      *)
Pinned(library) == {p \in Current(library) : Pages[p].pinned}
PinLines(total, n) == IF total = 0 THEN 0 ELSE 1 + 2 * n + OmittedLine(total, n)
PinsShown(library) ==
    LET pins == Sorted(Pinned(library), LAMBDA p : <<-library[p].day, p>>)
    IN  Prefix(pins, {n \in 0..Len(pins) : PinLines(Len(pins), n) <= PinTokens})

(* Block L3 (project_l3_list): open work, decisions, corrections and rules *)
(* that block A does not show.                                             *)
Brief(library) == {p \in Current(library) : Pages[p].kind = "brief"}
SummaryLists(library) ==
    LET lists == <<{p \in Current(library) : OpenWork(library, p)}, {p \in Current(library) : Pages[p].kind = "decision"},
                   {p \in Current(library) : Pages[p].correction}>>
    IN  Table([i \in 1..3 |-> Cardinality(ToSet(Top(NewestFirst(library, lists[i]), ListLimit)) \ ToSet(PinsShown(library)))])

(* _l3_text: while the lines do not fit, the longest list loses its last,  *)
(* of two as long the later one.  So what is left is cut to one height,    *)
(* but for the first lists, which may still be one higher.                 *)
SummaryLines(sizes, brief, cut) ==
    IF brief + sizes[1] + sizes[2] + sizes[3] + cut = 0 THEN 0
    ELSE 1 + brief + sizes[1] + sizes[2] + sizes[3] + cut + Cardinality({i \in 1..3 : sizes[i] > 0})
DropLongest(lists) ==
    LET Cut(i, height) == IF lists[i] < height THEN lists[i] ELSE height
    IN  {[i \in 1..3 |-> Cut(i, height + IF i <= higher THEN 1 ELSE 0)] : height \in 0..ListLimit, higher \in 0..2}
SummaryFit(lists, brief) ==
    LET Lines(sizes) == SummaryLines(sizes, brief, IF sizes = lists THEN 0 ELSE 1)
        fitting == {n \in {Lines(sizes) : sizes \in DropLongest(lists)} : n <= SummaryTokens}
    IN  IF fitting = {} THEN 0 ELSE Max(fitting)
SummaryLength(library) == SummaryFit(SummaryLists(library), IF Brief(library) = {} THEN 0 ELSE 1)

(* Block B (_block_b_items): pinned and navigation pages are left out, and *)
(* what is beyond the cap of its category.                                 *)
Listable(library) == {p \in Current(library) : ~Pages[p].pinned /\ Pages[p].kind # "navigation"}
Items(library) ==
    LET ordered == NewestFirst(library, Listable(library))
        UpTo(i) == {j \in 1..i : Category(library, ordered[j]) = Category(library, ordered[i])}
    IN  NewestFirst(library, {ordered[i] : i \in {j \in DOMAIN ordered : Cardinality(UpTo(j)) <= Caps[Category(library, ordered[j])]}})

----------------------------------------------------------------------------
(* The log and what it says of earlier runs (_History.from_events).        *)

ListingOfUnpinned(events) == {e \in events : e.block = "B"}
Listing(events) == {e \in events : e.block \in ListBlocks}
BaseAt(events) ==
    LET listed == {e.at : e \in Listing(events)} IN IF listed = {} THEN 0 ELSE Max(listed)
BaseItems(events) == {e.page : e \in {x \in Listing(events) : x.at = BaseAt(events)}}
Noticed(events) == {e.page : e \in {x \in events : x.block = "C" /\ x.at >= BaseAt(events)}}

(* _notices: of the pages listed last, else of those changed lately; the   *)
(* newest first.                                                           *)
Notices(r) ==
    LET changed == IF Listing(r.history) # {} THEN BaseItems(r.history) \cap Scoped
                   ELSE {p \in Scoped : r.library[p].day + NoticeDays >= r.day}
    IN  Sorted({p \in changed \ Noticed(r.history) : r.library[p].status \in Noticeable}, LAMBDA p : <<-r.library[p].day, -p>>)

(* brief_staleness                                                         *)
BriefIsStale(library) ==
    LET since == {library[b].day : b \in Brief(library)}
        decided == {p \in Current(library) : Pages[p].kind = "decision" /\ \A d \in since : library[p].day > d}
    IN  Cardinality(decided) >= BriefThreshold

----------------------------------------------------------------------------
(* _layout: block C keeps its own share, so that what was logged before    *)
(* shapes only block C.  rest is what blocks A, L3 and D take.             *)
TextLength(rest, items, n, m) ==
    rest + (IF items = <<>> THEN 0 ELSE 1 + n + OmittedLine(Len(items), n)) + (IF m = 0 THEN 0 ELSE 1 + m)
Shown(block, s) == {[block |-> block, page |-> p] : p \in ToSet(s)}

LayoutOf(rest, items, notices, share) ==
    LET first == Prefix(items, {n \in 0..Len(items) : TextLength(rest, items, n, 0) + NoticeTokens <= MaxTokens})
        told == Prefix(Prefix(notices, {m \in 0..Len(notices) : 1 + m <= share}),
                       {m \in 0..Len(notices) : TextLength(rest, items, Len(first), m) <= MaxTokens})
        kept == Prefix(first, {n \in 0..Len(items) : TextLength(rest, items, n, Len(told)) <= MaxTokens})
        length == TextLength(rest, items, Len(kept), Len(told))
    IN  IF length <= MaxTokens THEN [tokens |-> length, shown |-> Shown("B", kept) \cup Shown("C", told)]
        ELSE [tokens |-> 0, shown |-> {}]

FullLayout(library, notices, how) ==
    LET pins == PinsShown(library)
        rest == PinLines(Cardinality(Pinned(library)), Len(pins)) + SummaryLength(library) + how
        layout == LayoutOf(rest, Items(library), notices, NoticeTokens - (IF how > HowTokens THEN how - HowTokens ELSE 0))
    IN  IF layout.tokens = 0 THEN layout ELSE [layout EXCEPT !.shown = @ \cup Shown("A", pins)]

Layout(r, how) ==
    IF r.full THEN FullLayout(r.library, Notices(r), how) ELSE LayoutOf(0, <<>>, Notices(r), NoticeTokens)

PagesIn(shown, blocks) == {s.page : s \in {x \in shown : x.block \in blocks}}

NothingToTell(r) ==
    /\ Notices(r) = <<>>
    /\ r.full => Items(r.library) = <<>> /\ Pinned(r.library) = {} /\ SummaryLength(r.library) = 0

----------------------------------------------------------------------------
(* A page is written and indexed; a day passes, between sessions.          *)
Change(p) ==
    /\ changes < MaxChanges /\ changes' = changes + 1
    /\ \E status \in Pages[p].statuses \ {page[p].status} : page' = [page EXCEPT ![p] = [status |-> status, day |-> today]]
    /\ UNCHANGED <<today, log, recalls>>

Tomorrow ==
    /\ \A i \in Runs : recalls[i].step \in {"waiting", "done"}
    /\ today < LastDay /\ today' = today + 1
    /\ UNCHANGED <<page, changes, log, recalls>>

(* recall, up to the library: "resume" and "fork" tell only notices.       *)
Load(i) ==
    /\ i = Cardinality(Started) + 1
    /\ Cardinality({j \in Started : recalls[j].step # "done"}) < MaxOpen
    /\ \E full \in BOOLEAN :
          recalls' = [recalls EXCEPT ![i] = [NoRecall EXCEPT !.step = "loaded", !.full = full, !.day = today, !.library = page]]
    /\ UNCHANGED <<page, today, changes, log>>

(* The log is read, or not: then the pages that changed lately are told.   *)
(* heard are the runs that had logged by then.                             *)
ReadLog(i) ==
    /\ recalls[i].step = "loaded"
    /\ \E readable \in BOOLEAN :
          /\ readable \/ Failures < MaxLogFailures
          /\ recalls' = [recalls EXCEPT ![i].step = "read", ![i].readable = readable, ![i].history = IF readable THEN log ELSE {},
                                      ![i].heard = IF readable THEN {e.at : e \in log} ELSE {}]
    /\ UNCHANGED <<page, today, changes, log>>

Gone(library) == {p \in Scoped : library[p].status \in Noticeable}

(* Nothing is printed on "resume"; else the hook falls back (_handoff).    *)
HandOff(i) ==
    /\ recalls[i].step = "read" /\ NothingToTell(recalls[i])
    /\ recalls' = [recalls EXCEPT ![i].step = "done", ![i].full = TRUE, ![i].day = 0, ![i].library = <<>>, ![i].history = {},
                                  ![i].gone = Gone(recalls[i].library)]
    /\ UNCHANGED <<page, today, changes, log>>

(* What is printed is logged, in one write that may fail.  Block D has one *)
(* line more for waiting proposals or a backlog, and one for an old brief. *)
(* Of the run, plain says that it would list the same without the log.     *)
Tell(i) ==
    /\ recalls[i].step = "read" /\ ~NothingToTell(recalls[i])
    /\ \E waiting \in WaitingLines :
          LET how == 2 + waiting + IF BriefIsStale(recalls[i].library) THEN 1 ELSE 0
              layout == Layout(recalls[i], how)
              Lists(shown) == {s \in shown : s.block \in {"A", "B"}}
              plain == recalls[i].history = {} \/ Lists(layout.shown) = Lists(Layout([recalls[i] EXCEPT !.history = {}], how).shown)
              done == [recalls[i] EXCEPT
                  !.step = "done", !.full = TRUE, !.day = 0, !.library = <<>>, !.history = {},
                  !.shown = layout.shown, !.tokens = layout.tokens, !.plain = plain,
                  !.gone = Gone(recalls[i].library),
                  !.cut = PagesIn(layout.shown, {"C"}) # ToSet(Notices(recalls[i]))]
          IN  \/ /\ log' = log \cup {[at |-> i, block |-> s.block, page |-> s.page] : s \in layout.shown}
                 /\ recalls' = [recalls EXCEPT ![i] = done]
              \/ /\ Failures < MaxLogFailures
                 /\ UNCHANGED log
                 /\ recalls' = [recalls EXCEPT ![i] = [done EXCEPT !.logged = FALSE]]
    /\ UNCHANGED <<page, today, changes>>

RecallNext ==
    \/ \E p \in DOMAIN Pages : Change(p)
    \/ Tomorrow
    \/ \E i \in Runs : Load(i) \/ ReadLog(i) \/ HandOff(i) \/ Tell(i)

RecallSpec == RecallInit /\ [][RecallNext]_recallVars

----------------------------------------------------------------------------
ShownIn(i, blocks) == PagesIn(recalls[i].shown, blocks)

(* The text fits its limit, and shows no page in two blocks.               *)
TextFits ==
    \A i \in Runs : recalls[i].tokens <= MaxTokens /\ \A s, t \in recalls[i].shown : s.page = t.page => s = t

(* What was logged before changes nothing of the lists (docs/SPEC.md:109). *)
ListsWithoutHistory == \A i \in Runs : recalls[i].plain

(* A page of the last list that a run heard of, and that no longer holds,  *)
(* is told by this run, unless a run it heard has told it since or the     *)
(* notice did not fit.  What a run could not log, nobody hears of.         *)
ChangesAreTold ==
    \A k \in Runs : \A i \in recalls[k].heard :
        LET since == {j \in recalls[k].heard : j > i}
        IN  ~recalls[k].cut /\ (\A j \in since : ShownIn(j, ListBlocks) = {}) =>
                ShownIn(i, ListBlocks) \cap recalls[k].gone \subseteq ShownIn(k, {"C"}) \cup UNION {ShownIn(j, {"C"}) : j \in since}

(* What a run heard of is not told again, unless it heard that the page    *)
(* was listed since.  Runs that overlap, or could not read or write the    *)
(* log, do not hear of each other: they do tell the same change twice.     *)
NotToldAgain ==
    \A k \in Runs : \A i \in recalls[k].heard :
        ShownIn(i, {"C"}) \cap ShownIn(k, {"C"}) \subseteq UNION {ShownIn(j, ListBlocks) : j \in {j \in recalls[k].heard : j > i}}

(* A session is told what there is room for, and of each change once along *)
(* the log: once among the runs of which each has read what the others     *)
(* logged.                                                                 *)
TellsOnceAlongTheLog == TextFits /\ ListsWithoutHistory /\ ChangesAreTold /\ NotToldAgain
===============================================================================
