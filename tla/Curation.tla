------------------------------- MODULE Curation -------------------------------
(* The cleanup bundle: notes of the agent's own memory, exchanges of past   *)
(* sessions, pages alike, pages to retire and the project's brief that ask  *)
(* to be looked at. Agents list it, skip some candidates for good and write *)
(* pages for others, while notes, sessions, pages, code and readings change *)
(* and index runs catch up. A text is a number, a day is one too.           *)
EXTENDS Integers, Sequences, FiniteSets, Ordering
CONSTANTS
    Settings,    \* what there is and what may happen
    Project,   \* the project of the working folder
    MaxAge,    \* days an exchange is offered
    Window,    \* days a page must have been unused
    Months,    \* files of the usage log that are read, one per day
    Threshold, \* decisions a brief may miss
    NoReport   \* no saved memory-scan report

(* Days, lines, texts, sessions, files, notes and pages are numbers; an     *)
(* exchange has a key and a place of its own, and an id unless it is 0.     *)
CurationConstants ==
    /\ {Window, Months} \subseteq Int
    /\ \A w \in Settings :
        /\ w.noteNames \subseteq Nat /\ IsFiniteSet(w.noteNames)
        /\ DOMAIN w.pages \subseteq Int /\ IsFiniteSet(DOMAIN w.pages)
        /\ w.limit \in Nat /\ IsFiniteSet(w.exchanges)
        /\ \A e \in w.exchanges :
            /\ {e.session, e.at, e.file, e.text, e.last} \subseteq Int
            /\ e.first \in Nat \ {0} /\ e.first <= e.last /\ e.key[1] = "session"
        /\ \A e, f \in w.exchanges : e # f =>
            /\ e.key # f.key
            /\ e.file = f.file => (e.last < f.first \/ f.last < e.first) /\ (e.id # 0 => e.id # f.id)
ASSUME CurationAssumption == CurationConstants

VARIABLES
    setting, \* one of Settings
    today,
    notes,   \* the memory folder: name to text
    wiki,    \* texts kept as sources, session exchanges, wiki pages, what their texts cite
    code,    \* what the projected repositories have
    index,   \* exchanges, pages and code as the last run left them, and the saved report
    logs,    \* reviewed keys and the usage log, in the Graph Home
    bundle,  \* the candidates an agent holds
    truth    \* what agents did, every use of a page, and the uses that failed to reach the log

curationVars == <<setting, today, notes, wiki, code, index, logs, bundle, truth>>

Candidate(key, kind, signal, about) == [key |-> key, kind |-> kind, signal |-> signal, about |-> about]
NotReviewed(key) == key \notin logs.reviewed

-----------------------------------------------------------------------------
(* Notes: by name, one per text, without those a Vault keeps. The report   *)
(* of the last index run is believed over the Vault's pages.               *)

MarkedImported == IF index.report = NoReport THEN {} ELSE {sha \in DOMAIN index.report : index.report[sha]}
MarkedNot == IF index.report = NoReport THEN {} ELSE {sha \in DOMAIN index.report : ~index.report[sha]}
Imported == (wiki.kept \ MarkedNot) \cup MarkedImported
NoteKey(n) == <<"l1", notes[n]>>
NotesAsked ==
    {n \in DOMAIN notes :
        /\ notes[n] \notin Imported /\ NotReviewed(NoteKey(n))
        /\ \A m \in DOMAIN notes : notes[m] = notes[n] => n <= m}
NoteCandidates ==
    LET names == Sorted(NotesAsked, LAMBDA n : <<n>>)
    IN [i \in DOMAIN names |-> Candidate(NoteKey(names[i]), "l1_note", "none", names[i])]

-----------------------------------------------------------------------------
(* Exchanges: session by session in their order; a resumed session holds   *)
(* copies of earlier turns, which are one candidate.                       *)

ExchangeOrder(e) == <<e.session, e.at, e.file, e.first>>
OrderedExchanges == Sorted(index.exchanges, ExchangeOrder)
SameExchange(e, f) == e.at = f.at /\ e.text = f.text /\ (e.text = 0 => e = f)
Cites(c, e) == c.file = e.file /\ ((c.first <= e.last /\ e.first <= c.last) \/ (c.id # 0 /\ c.id = e.id))
IsCited(e) == \E c \in wiki.cites : Cites(c, e)

Signal(ordered, i) ==
    IF ordered[i].says \in {"correction", "decision"} THEN ordered[i].says
    ELSE IF /\ ordered[i].failed /\ i < Len(ordered)
            /\ ordered[i + 1].session = ordered[i].session /\ ordered[i + 1].says = "instead" THEN "direction"
    ELSE "none"
Rank == [correction |-> 0, decision |-> 1, direction |-> 2, none |-> 3]

(* Mutant: only the copy that is shown counts.                             *)
FirstHandled(e, copies) == e.key \in logs.reviewed \/ IsCited(e)
(* Reviewed or cited when any copy is.                                     *)
Handled(e, copies) == \E f \in copies : f.key \in logs.reviewed \/ IsCited(f)

(* Those without a signal, or those with one.                              *)
ExchangesAsked(ordered, plain) ==
    LET Copies(i) == {j \in DOMAIN ordered : SameExchange(ordered[i], ordered[j])}
    IN {i \in DOMAIN ordered :
            /\ \A j \in Copies(i) : i <= j
            /\ ordered[i].text # 0 /\ ordered[i].at >= today - MaxAge
            /\ ~Handled(ordered[i], {ordered[j] : j \in Copies(i)})
            /\ plain = (Signal(ordered, i) = "none")}
ExchangeCandidates(ordered, plain) ==
    LET places == Sorted(ExchangesAsked(ordered, plain), LAMBDA i : <<Rank[Signal(ordered, i)], 0 - ordered[i].at, i>>)
    IN [k \in DOMAIN places |-> Candidate(ordered[places[k]].key, "session_exchange", Signal(ordered, places[k]), ordered[places[k]])]

-----------------------------------------------------------------------------
(* Pages that recall would show in this project.                           *)

PageInProject(page) ==
    IF page.projects # {} THEN Project \in page.projects
    ELSE IF Cardinality(setting.linked) >= 2 THEN setting.sharable
    ELSE setting.linked \subseteq {Project}
IsCurrent(page) == page.type # "source" /\ page.status = "current" /\ PageInProject(page)
CurrentPages == {p \in DOMAIN index.pages : IsCurrent(index.pages[p])}

PagesAlike ==
    {pair \in CurrentPages \X CurrentPages :
        /\ pair[1] < pair[2] /\ index.pages[pair[1]].topic = index.pages[pair[2]].topic
        /\ index.pages[pair[1]].type = index.pages[pair[2]].type
        /\ NotReviewed(<<"merge", pair>>)}
MergeCandidates ==
    LET pairs == Sorted(PagesAlike, LAMBDA pair : pair)
    IN [i \in DOMAIN pairs |-> Candidate(<<"merge", pairs[i]>>, "merge", "none", pairs[i])]

(* The log tells of a page that was shown and never opened only when it    *)
(* reaches back over the whole window.                                     *)
Read == {event \in logs.usage : Cardinality({other.at : other \in {o \in logs.usage : o.at > event.at}}) < Months}
Covered == \E event \in Read : event.at <= today - Window
InWindow(events, p, kind) == \E event \in events : event.page = p /\ event.kind = kind /\ event.at > today - Window
(* Mutant: a young log is believed.                                        *)
UnusedInLog(p) == InWindow(Read, p, "injected") /\ ~InWindow(Read, p, "fetched")
Unused(p) == Covered /\ InWindow(Read, p, "injected") /\ ~InWindow(Read, p, "fetched")

CodeGone(p) == index.pages[p].code \ index.code # {} /\ index.code # {}
PagesToRetire == {p \in CurrentPages : ~index.pages[p].pin /\ (CodeGone(p) \/ Unused(p)) /\ NotReviewed(<<"retire", p>>)}
RetireCandidates ==
    LET pages == Sorted(PagesToRetire, LAMBDA p : <<IF CodeGone(p) THEN 0 ELSE 1, p>>)
    IN [i \in DOMAIN pages |->
            Candidate(<<"retire", pages[i]>>, "retire", IF CodeGone(pages[i]) THEN "code_gone" ELSE "unused", pages[i])]

(* The brief: asked for when enough decisions are younger, and again when  *)
(* there is another one.                                                   *)
Briefs == {p \in CurrentPages : index.pages[p].type = "project"}
NewDecisions ==
    {p \in CurrentPages : index.pages[p].type = "decision" /\ \A b \in Briefs : index.pages[p].updated > index.pages[b].updated}
BriefKey == <<"brief", {<<p, index.pages[p].updated>> : p \in NewDecisions}>>
BriefCandidates ==
    IF Cardinality(NewDecisions) >= Threshold /\ NotReviewed(BriefKey)
    THEN <<Candidate(BriefKey, "brief", "none", NewDecisions)>> ELSE <<>>

(* All, exchanges without a signal last, so that they hide nothing.        *)
BuildCandidates ==
    LET ordered == OrderedExchanges
    IN NoteCandidates \o ExchangeCandidates(ordered, FALSE) \o MergeCandidates \o RetireCandidates
           \o BriefCandidates \o ExchangeCandidates(ordered, TRUE)

-----------------------------------------------------------------------------
(* Agents.                                                                 *)

(* list_memory_candidates, cut to a limit.                                 *)
List ==
    /\ bundle' = Top(BuildCandidates, setting.limit)
    /\ UNCHANGED <<setting, today, notes, wiki, code, index, logs, truth>>

Did(c) == IF c.kind = "session_exchange" THEN <<"exchange", c.about.at, c.about.text>> ELSE c.key

(* A record is one append, or a message that it failed.                    *)
Recorded(c, ok) == logs' = IF ok THEN [logs EXCEPT !.reviewed = @ \cup {c.key}] ELSE logs

(* mark_candidates_reviewed: an error is told.                             *)
MarkReviewed(c) ==
    /\ Recorded(c, TRUE) /\ truth' = [truth EXCEPT !.did = @ \cup {Did(c)}]
    /\ UNCHANGED <<setting, today, notes, wiki, code, index, bundle>>

(* import_auto_memory copies the note as it is by now.                     *)
ImportNote(c) ==
    /\ c.kind = "l1_note" /\ c.about \in DOMAIN notes
    /\ wiki' = [wiki EXCEPT !.kept = @ \cup {notes[c.about]}]
    /\ \E ok \in BOOLEAN :
        Recorded(c, ok) /\ truth' = [truth EXCEPT !.did = @ \cup {<<"l1", notes[c.about]>>} \cup (IF ok THEN {c.key} ELSE {})]
    /\ UNCHANGED <<setting, today, notes, code, index, bundle>>

(* remember, with the exchange's lines or its id as evidence.              *)
Evidence(e) ==
    {[file |-> e.file, first |-> e.first, last |-> e.last, id |-> 0]}
    \cup (IF e.id = 0 THEN {} ELSE {[file |-> e.file, first |-> 1, last |-> 0, id |-> e.id]})
RememberExchange(c) ==
    /\ c.kind = "session_exchange"
    /\ \E evidence \in Evidence(c.about) : wiki' = [wiki EXCEPT !.cites = @ \cup {evidence}]
    /\ \E ok \in BOOLEAN : Recorded(c, ok)
    /\ truth' = [truth EXCEPT !.did = @ \cup {Did(c)}]
    /\ UNCHANGED <<setting, today, notes, code, index, bundle>>

(* retire_memory of a page that is still current, one of a pair or the     *)
(* page itself; a brief is written anew.                                   *)
Settle(c) ==
    /\ c.kind \in {"merge", "retire", "brief"}
    /\ IF c.kind = "brief"
       THEN wiki' = [wiki EXCEPT !.pages[setting.brief].status = "current", !.pages[setting.brief].updated = today]
       ELSE \E p \in IF c.kind = "merge" THEN {c.about[1], c.about[2]} ELSE {c.about} :
                wiki.pages[p].status = "current" /\ wiki' = [wiki EXCEPT !.pages[p].status = "retired"]
    /\ Recorded(c, TRUE) /\ truth' = [truth EXCEPT !.did = @ \cup {Did(c)}]
    /\ UNCHANGED <<setting, today, notes, code, index, bundle>>

Curate == \E c \in ToSet(bundle) : MarkReviewed(c) \/ ImportNote(c) \/ RememberExchange(c) \/ Settle(c)

-----------------------------------------------------------------------------
(* What else changes, and the index runs.                                  *)

NoteSaved ==
    /\ \E n \in setting.noteNames : \E text \in setting.texts :
        /\ n \in DOMAIN notes => notes[n] # text
        /\ notes' = [m \in DOMAIN notes \cup {n} |-> IF m = n THEN text ELSE notes[m]]
    /\ UNCHANGED <<setting, today, wiki, code, index, logs, bundle, truth>>

SessionArrives ==
    /\ \E e \in setting.exchanges \ wiki.exchanges : wiki' = [wiki EXCEPT !.exchanges = @ \cup {e}]
    /\ UNCHANGED <<setting, today, notes, code, index, logs, bundle, truth>>

DecisionWritten ==
    /\ \E p \in setting.decisions :
        /\ wiki.pages[p].status = "none"
        /\ wiki' = [wiki EXCEPT !.pages[p].status = "current", !.pages[p].updated = today]
    /\ UNCHANGED <<setting, today, notes, code, index, logs, bundle, truth>>

CodeMoves ==
    /\ \E ref \in code : code' = code \ {ref}
    /\ UNCHANGED <<setting, today, notes, wiki, index, logs, bundle, truth>>

(* Recall shows a page, an agent opens it. A use that cannot be appended   *)
(* to the log is warned of and lost, unless the page is used again.        *)
PageUsed ==
    /\ \E p \in setting.used : \E kind \in {"injected", "fetched"} :
        LET event == [at |-> today, page |-> p, kind |-> kind]
        IN /\ event \notin logs.usage
           /\ \/ /\ logs' = [logs EXCEPT !.usage = @ \cup {event}]
                 /\ truth' = [truth EXCEPT !.usage = @ \cup {event}, !.lost = @ \ {event}]
              \/ /\ event \notin truth.usage
                 /\ truth' = [truth EXCEPT !.usage = @ \cup {event}, !.lost = @ \cup {event}]
                 /\ UNCHANGED logs
    /\ UNCHANGED <<setting, today, notes, wiki, code, index, bundle>>

(* A deleted Graph Home also forgets what was reviewed.                    *)
UsageDeleted ==
    /\ setting.used # {} /\ logs.usage # {}
    /\ logs' = [logs EXCEPT !.usage = {}]
    /\ UNCHANGED <<setting, today, notes, wiki, code, index, bundle, truth>>

DayPasses ==
    /\ today < setting.days /\ today' = today + 1
    /\ UNCHANGED <<setting, notes, wiki, code, index, logs, bundle, truth>>

(* The run's memory-scan may fail, then the older report is removed.       *)
Scan(ok) == IF ok THEN [sha \in {notes[n] : n \in DOMAIN notes} |-> sha \in wiki.kept] ELSE NoReport
IndexOf(report) == [exchanges |-> wiki.exchanges, pages |-> wiki.pages, code |-> code, report |-> report]
IndexRun ==
    /\ \E ok \in BOOLEAN : index' = IndexOf(Scan(ok)) /\ index' # index
    /\ UNCHANGED <<setting, today, notes, wiki, code, logs, bundle, truth>>

CurationInit ==
    /\ setting \in Settings /\ today = 0 /\ notes = <<>> /\ bundle = <<>>
    /\ wiki = [kept |-> {}, exchanges |-> {}, pages |-> setting.pages, cites |-> {}]
    /\ code = setting.code
    /\ index = [exchanges |-> {}, pages |-> setting.pages, code |-> setting.code, report |-> NoReport]
    /\ logs = [reviewed |-> {}, usage |-> {}]
    /\ truth = [did |-> {}, usage |-> {}, lost |-> {}]

CurationNext ==
    \/ List \/ Curate \/ NoteSaved \/ SessionArrives \/ DecisionWritten \/ CodeMoves
    \/ PageUsed \/ UsageDeleted \/ DayPasses \/ IndexRun

CurationSpec == CurationInit /\ [][CurationNext]_curationVars

-----------------------------------------------------------------------------
(* The index knows what the Vault and the repositories hold.               *)
CaughtUp == \E ok \in BOOLEAN : index = IndexOf(Scan(ok))
Offered(kind, all) == {Did(c) : c \in {d \in ToSet(all) : d.kind = kind}}

(* What has been dealt with does not come back, in another file or under   *)
(* another name either; what has not, is offered.                          *)
NotesLeft == {<<"l1", notes[n]>> : n \in DOMAIN notes} \ truth.did
ExchangesLeft ==
    {<<"exchange", e.at, e.text>> : e \in {f \in wiki.exchanges : f.text # 0 /\ f.at >= today - MaxAge}} \ truth.did
OffersWhatIsLeft(all) ==
    CaughtUp => Offered("l1_note", all) = NotesLeft /\ Offered("session_exchange", all) = ExchangesLeft

(* No thing is offered twice in a bundle.                                  *)
OfferedOnce(all) == IsInjective([k \in DOMAIN all |-> Did(all[k])])

(* A page is called unused when it was shown and nobody opened it in the   *)
(* window, a deleted log included, save for openings the log was not told  *)
(* of because the append failed: of those the bundle knows nothing.        *)
UnusedUnlessLost(all) ==
    \A c \in ToSet(all) : c.signal = "unused" =>
        /\ InWindow(truth.usage, c.about, "injected")
        /\ ~InWindow(truth.usage \ truth.lost, c.about, "fetched")

(* A brief that was skipped is asked for again with another decision, of   *)
(* the same day too.                                                       *)
SkippedFor == UNION {{entry[1] : entry \in did[2]} : did \in {d \in truth.did : d[1] = "brief"}}
BriefComesBack(all) ==
    CaughtUp /\ Cardinality(NewDecisions) >= Threshold /\ NewDecisions \ SkippedFor # {} => Offered("brief", all) # {}

(* A bundle asks for what is left, once, and for good reason.              *)
BundleAsksForWhatIsLeft ==
    LET all == BuildCandidates
    IN OffersWhatIsLeft(all) /\ OfferedOnce(all) /\ UnusedUnlessLost(all) /\ BriefComesBack(all)
=============================================================================
