------------------------------ MODULE MCServices ------------------------------
(* Model checking of what commands and servers do beside the index runs,   *)
(* each on its own: part says whose variables move.                        *)
EXTENDS CodeProjection, Curation, TLC
CONSTANT Absent

VARIABLES part, tree, commits, registered, db, outcome, changes

graphVars == <<tree, commits, registered, db, outcome, changes>>

(* Two overlapping commands over two repositories, of which one may be a   *)
(* status, which changes nothing and leaves with its answer.               *)
OneAsks ==
    /\ \E c \in Commands : job'[c].task # "status"
    /\ \A c \in Commands : job[c].at = "answered" => job'[c].at = "idle"

ServiceSymmetry == Permutations(Commands)

(* Three files of one repository and one of another: calls by a name, by a *)
(* member of an imported module, into the file itself; a package, relative *)
(* and dotted imports; a file that does not parse; one class given twice.  *)
Declared(kind, name, in) == [kind |-> kind, name |-> name, in |-> in, test |-> name = "test"]
Uses(relation, up, names, in) ==
    [relation |-> relation, target |-> [up |-> up, names |-> names, dynamic |-> FALSE], in |-> in]
Holds(declarations, uses) == [parses |-> TRUE, declarations |-> declarations, uses |-> uses]

Main == Holds(<<Declared("function", "run", 0), Declared("function", "test", 0)>>,
              <<Uses("IMPORTS", 0, <<"app", "util">>, 0), Uses("CALLS", 0, <<"help">>, 1),
                Uses("CALLS", 0, <<"run">>, 2), Uses("CALLS", 0, <<"help">>, 2)>>)
Heir == Holds(<<Declared("class", "Page", 0), Declared("function", "help", 1)>>,
              <<Uses("IMPORTS", 1, <<"util">>, 0), Uses("IMPORTS", 2, <<"util">>, 0),
                Uses("EXTENDS", 0, <<"util", "Base">>, 1),
                [Uses("CALLS", 0, <<"page", "help">>, 2) EXCEPT !.target.dynamic = TRUE]>>)
Util == Holds(<<Declared("function", "help", 0)>>, <<Uses("CALLS", 0, <<"run">>, 1)>>)
Base == Holds(<<Declared("class", "Base", 0), Declared("function", "help", 1)>>, <<>>)
Twice == Holds(<<Declared("class", "Base", 0), Declared("function", "help", 1),
                 Declared("class", "Base", 0), Declared("function", "help", 3)>>, <<>>)
Broken == [parses |-> FALSE, declarations |-> <<>>, uses |-> <<>>]
View == Holds(<<Declared("class", "View", 0), Declared("function", "test", 1)>>,
              <<Uses("IMPORTS", 0, <<"pack", "app", "util">>, 0), Uses("CALLS", 0, <<"help">>, 2)>>)

Graph == INSTANCE CodeGraph WITH
    Files <- 1..4, RepositoryOf <- <<1, 1, 1, 2>>,
    PathOf <- <<<<"app", "main">>, <<"app", "util">>, <<"lib", "view">>, <<"app", "util">>>>,
    LanguageOf <- <<"python", "python", "dart", "python">>, TestFiles <- {},
    Versions <- <<{Main, Heir}, {Util, Base, Twice, Broken}, {View}, {Util}>>,
    HeadPolicy <- {1}, MaxChanges <- 3

(* The cleanup bundle: notes that change; a session, its resumed copy and  *)
(* another one; a page that was shown, pages alike and their code; and     *)
(* decisions a brief has not taken in.                                     *)
BundleSetting ==
    [days |-> 0, pages |-> <<>>, code |-> {}, linked |-> {"p"}, sharable |-> FALSE, limit |-> 1, noteNames |-> {},
     texts |-> {}, exchanges |-> {}, decisions |-> {}, used |-> {}, brief |-> 0]
Said(key, session, day, file, first, text, says, failed, id) ==
    [key |-> <<"session", key>>, session |-> session, at |-> day, file |-> file, first |-> first, last |-> first,
     text |-> text, says |-> says, failed |-> failed, id |-> id]
Sessions ==
    {Said(1, 1, 0, 1, 5, 1, "plain", TRUE, 1), Said(2, 1, 1, 1, 6, 2, "instead", FALSE, 0),
     Said(3, 2, 0, 2, 5, 1, "plain", FALSE, 1), Said(5, 2, 2, 2, 7, 3, "decision", FALSE, 2)}
MemoryPage(type, status, pin, projects, cites, topic) ==
    [type |-> type, status |-> status, pin |-> pin, projects |-> projects, code |-> cites, topic |-> topic, updated |-> 0]
Concept(pin, projects, cites, topic) == MemoryPage("concept", "current", pin, projects, cites, topic)
Unwritten(type, projects) == MemoryPage(type, "none", FALSE, projects, {}, 1)
BundleSettings ==
    {BundleSetting,
     [BundleSetting EXCEPT !.noteNames = 1..2, !.texts = 1..2],
     [BundleSetting EXCEPT !.days = 2, !.exchanges = Sessions],
     [BundleSetting EXCEPT !.days = 3, !.pages = <<Concept(FALSE, {}, {}, 1)>>, !.used = {1}],
     [BundleSetting EXCEPT !.pages = <<Concept(FALSE, {}, {}, 1), Concept(FALSE, {"p"}, {"f"}, 1),
                                     Concept(TRUE, {}, {"f"}, 2), Concept(FALSE, {"q"}, {"f"}, 1)>>, !.code = {"f", "g"},
                         !.limit = 2],
     [BundleSetting EXCEPT !.days = 1, !.decisions = 1..3, !.brief = 4,
                         !.pages = <<Unwritten("decision", {}), Unwritten("decision", {"p"}), Unwritten("decision", {}),
                                     Unwritten("project", {})>>]}
NoBundle == CurationInit /\ setting = BundleSetting

ServicesInit ==
    /\ Init /\ Graph!Init
    /\ \/ part \in {"code", "graph"} /\ NoBundle
       \/ part = "bundle" /\ CurationInit
ServicesNext ==
    /\ UNCHANGED part
    /\ \/ part = "code" /\ Next /\ OneAsks /\ UNCHANGED <<graphVars, curationVars>>
       \/ part = "graph" /\ Graph!Next /\ UNCHANGED <<vars, curationVars>>
       \/ part = "bundle" /\ CurationNext /\ UNCHANGED <<vars, graphVars>>
ServicesSpec == ServicesInit /\ [][ServicesNext]_<<part, vars, graphVars, curationVars>>

(* The projection holds what one full run over the files gives, and the    *)
(* queries answer from it (CodeGraph).                                     *)
CodeAnswersFaithfully == part = "graph" => Graph!CodeAnswersFaithfully

(* docs/superpowers/specs/2026-08-03-round-1-code-projection-design.md:387 *)
(* and docs/superpowers/plans/2026-08-03-round-2-project-context.md:27,    *)
(* which the code does not keep.                                           *)
DeclarationsAreToldApart == part = "graph" => Graph!DeclarationsAreToldApart
ResolvedCallsAreFollowed == part = "graph" => Graph!ResolvedCallsAreFollowed

=============================================================================
