------------------------------- MODULE CodeGraph -------------------------------
(***************************************************************************)
(* What the code projection says: the symbols and references of a file     *)
(* (project/code/python_parser.py, dart_parser.py), the edges the resolver *)
(* makes of them (reference_resolution.py), how a run replaces them in the *)
(* database (sqlite_code_projection_store.py) and what the queries answer  *)
(* (code_query_service.py).                                                *)
(*                                                                         *)
(* A run is one step here: how runs overlap and fail is the subject of     *)
(* CodeProjection.  A file is a list of declarations, each in an earlier   *)
(* one or in the module (0), and a list of uses; the number of a           *)
(* declaration or use stands for its line.  A dotted name is the sequence  *)
(* of its parts, and a symbol the record its identity is a digest of.      *)
(***************************************************************************)
EXTENDS Ordering

CONSTANTS
    Files,        \* numbers, in the order of repository and path
    RepositoryOf, PathOf, LanguageOf,
    TestFiles,    \* _is_test_path
    Versions,     \* what each file may hold
    Absent,       \* no such file, or one that cannot be read
    HeadPolicy,   \* repositories whose revision is HEAD alone, whatever the working tree holds
    MaxChanges    \* bound: edits, commits, repositories removed, files that cannot be read

VARIABLES
    tree,       \* each file
    commits,    \* HEAD of each repository
    registered,
    db,         \* the database of the active generation
    outcome,    \* of the last run
    changes

vars == <<tree, commits, registered, db, outcome, changes>>

AllRepositories == {RepositoryOf[f] : f \in Files}
NoSymbol == [file |-> 0, path |-> <<>>, kind |-> "none", nth |-> 0]

Init ==
    /\ tree = [f \in Files |-> Absent]
    /\ commits = [r \in AllRepositories |-> 0]
    /\ registered = AllRepositories
    /\ db = [files |-> [f \in Files |-> Absent], revision |-> [r \in AllRepositories |-> <<0, {}>>],
             indexed |-> {}, symbols |-> {}, edges |-> {}, pending |-> {}]
    /\ outcome = "none"
    /\ changes = 0

----------------------------------------------------------------------------
(* The parsers.                                                            *)

Module(f) ==
    LET path == PathOf[f]
    IN  IF LanguageOf[f] = "dart" THEN <<Last(path)>>
        ELSE IF Len(path) > 1 /\ Last(path) = "__init__" THEN Front(path) ELSE path

Paths(f, c) ==
    LET path[i \in 0..Len(c.declarations)] ==
            IF i = 0 THEN Module(f)
            ELSE Append(path[c.declarations[i].in], c.declarations[i].name)
    IN  path

(* A Dart method is one whatever it is called.                             *)
KindOf(f, c, i) ==
    LET d == c.declarations[i]
        inClass == d.in # 0 /\ c.declarations[d.in].kind \in {"class", "interface", "mixin"}
    IN  CASE d.kind # "function" -> d.kind
          [] d.kind = "function" /\ inClass /\ LanguageOf[f] = "dart" -> "method"
          [] OTHER -> IF d.test \/ f \in TestFiles THEN "test"
                      ELSE IF inClass THEN "method" ELSE "function"

(* ordinal_counts are kept for one parent.                                 *)
Symbol(f, c, i) ==
    IF i = 0 THEN [file |-> f, path |-> Module(f), kind |-> "module", nth |-> 0]
    ELSE LET d == c.declarations
         IN  [file |-> f, path |-> Paths(f, c)[i], kind |-> KindOf(f, c, i),
              nth |-> Cardinality({j \in 1..i - 1 :
                         /\ d[j].in = d[i].in /\ d[j].name = d[i].name
                         /\ KindOf(f, c, j) = KindOf(f, c, i)})]

Places(c) == IF c.parses THEN 0..Len(c.declarations) ELSE {}
SymbolsOf(f, c) == {Symbol(f, c, i) : i \in Places(c)}
LineOf(s, c) == Max({i \in Places(c) : Symbol(s.file, c, i) = s})

(* Two declarations of one identity: the resolver refuses them.            *)
Collides(f, c) == Cardinality(SymbolsOf(f, c)) < Cardinality(Places(c))

Reference(f, source, relation, target, line) ==
    [file |-> f, source |-> source, relation |-> relation, target |-> target, line |-> line]
Name(path) == [up |-> 0, names |-> path, dynamic |-> FALSE]

ReferencesOf(f, c) ==
    LET symbol == Table([i \in Places(c) |-> Symbol(f, c, i)])
        declared == {Reference(f, symbol[IF i = 0 THEN 0 ELSE c.declarations[i].in], relation,
                               Name(symbol[i].path), i) :
                        relation \in {"DEFINES", "CONTAINS"}, i \in Places(c)}
        used == {Reference(f, symbol[c.uses[k].in], c.uses[k].relation, c.uses[k].target,
                           Len(c.declarations) + k) : k \in DOMAIN c.uses}
        tested == {[r EXCEPT !.relation = "TESTS"] :
                      r \in {u \in used : u.relation = "CALLS" /\ u.source.kind = "test"}}
    IN  IF ~c.parses THEN {}
        ELSE {r \in declared : r.line # 0 \/ r.relation = "DEFINES"} \cup used \cup tested

----------------------------------------------------------------------------
(* CodeReferenceResolver                                                   *)

EndsWith(path, names) ==
    Len(names) < Len(path) /\ SubSeq(path, Len(path) - Len(names) + 1, Len(path)) = names

(* _relative_module: one dot is the package of the module.                 *)
Relative(module, target) ==
    SubSeq(module, 1, IF target.up < Len(module) THEN Len(module) - target.up ELSE 0) \o target.names

(* _matches_import_path: with the first part, or as a package without it.  *)
MatchesPath(f, names) ==
    /\ names # <<>>
    /\ \E n \in {names, IF Len(names) > 1 THEN Tail(names) ELSE names} :
           PathOf[f] = n \/ EndsWith(PathOf[f], n)

FirstFound(stages) ==
    IF \E i \in DOMAIN stages : stages[i] # {}
    THEN stages[CHOOSE i \in DOMAIN stages : stages[i] # {} /\ \A j \in 1..i - 1 : stages[j] = {}]
    ELSE {}

ImportCandidates(r, symbols) ==
    LET module == Module(r.file)
        names == r.target.names
        package == IF Len(module) > 1 THEN Front(module) ELSE module
        asked == (IF r.target.up = 0 THEN {names} ELSE {Relative(module, r.target)})
                 \cup (IF r.target.up = 0 /\ Len(names) = 1 THEN {package \o names} ELSE {})
        byName == {s \in symbols : s.path \in asked}
        byPath == {s \in symbols : /\ s.kind = "module"
                                   /\ (r.target.up = 0 /\ s.path = names) \/ MatchesPath(s.file, names)}
    IN  {s \in FirstFound(<<byName, byPath>>) : s.kind = "module"}

Allowed(relation) ==
    CASE relation \in {"EXTENDS", "IMPLEMENTS"} -> {"class", "interface", "mixin"}
      [] relation \in {"CALLS", "TESTS"} -> {"class", "function", "method", "property", "test"}
      [] OTHER -> {"module", "class", "interface", "mixin", "function", "method", "property", "test"}

(* The strongest evidence there is: a qualified name, one relative to the  *)
(* source, a member of an imported module, a name of the file, a name of   *)
(* the repository, the end of a qualified name.                            *)
CandidatesIn(r, symbols, references) ==
    LET names == r.target.names
        base == IF r.source.kind = "module" THEN Module(r.file) ELSE Front(r.source.path)
        imported == {i.target.names : i \in {i \in references :
                        i.relation = "IMPORTS" /\ i.file = r.file /\ i.target.up = 0}}
        fitting == {s \in symbols : s.kind \in Allowed(r.relation)}
        named == IF Len(names) = 1 THEN {s \in fitting : Last(s.path) = names[1]} ELSE {}
        dotted(S) == IF Len(names) > 1 THEN S ELSE {}
    IN  IF r.relation = "IMPORTS" THEN ImportCandidates(r, symbols)
        ELSE FirstFound(<<{s \in fitting : r.target.up = 0 /\ s.path = names},
                          {s \in fitting : r.target.up > 0 /\ s.path = Relative(base, r.target)},
                          dotted({s \in fitting : s.path = base \o names}),
                          {s \in fitting : \E m \in imported : s.path = m \o names},
                          {s \in named : s.file = r.file},
                          named,
                          dotted({s \in fitting : EndsWith(s.path, names)})>>)

SameRepository(f, symbols) == {s \in symbols : RepositoryOf[s.file] = RepositoryOf[f]}

Candidates(r, symbols, references) ==
    CandidatesIn(r, SameRepository(r.file, symbols), references)

(* _retry_is_impacted.  Mutant: only the file of the reference counts.     *)
ImpactedBySource(r, candidates, changed, symbols) == r.file \in changed
Impacted(r, candidates, changed, symbols) ==
    \/ r.file \in changed
    \/ \E s \in candidates : s.file \in changed
    \/ \E s \in SameRepository(r.file, symbols) :
          /\ s.file \in changed
          /\ \/ s.kind = "module" /\ (s.path = r.target.names \/ EndsWith(s.path, r.target.names))
             \/ MatchesPath(s.file, r.target.names)
             \/ s.path = r.target.names
             \/ r.target.names # <<>> /\ Last(s.path) = Last(r.target.names)

StatusOf(r, candidates) ==
    CASE r.target.dynamic \/ Cardinality(candidates) > 1 -> "ambiguous"
      [] ~r.target.dynamic /\ Cardinality(candidates) = 1 -> "inferred"
      [] OTHER -> "unresolved"

Edge(r, candidates) ==
    LET status == StatusOf(r, candidates)
    IN  [source |-> r.source, relation |-> r.relation, key |-> r.target, line |-> r.line,
         target |-> IF status = "inferred" THEN CHOOSE s \in candidates : TRUE ELSE NoSymbol,
         status |-> status]

PendingKey(p) == <<p.reference.file, p.reference.relation, p.reference.target>>

(* resolve: a pending reference that nothing has touched stays as it is.   *)
Resolution(present, revision, symbols, references, previous, changed, full) ==
    LET valid == {p \in previous : /\ p.reference.file \in present
                                   /\ p.revision = revision[RepositoryOf[p.reference.file]]}
        candidates == Table([r \in references |-> Candidates(r, symbols, references)])
        deferred == {r \in references :
                        /\ ~full /\ \E p \in valid : p.reference = r
                        /\ ~Impacted(r, candidates[r], changed, symbols)}
        edge == Table([r \in references |-> Edge(r, IF r \in deferred THEN {} ELSE candidates[r])])
        open == {[reference |-> r, revision |-> revision[RepositoryOf[r.file]]] :
                    r \in {r \in references : edge[r].status = "unresolved"}}
        first == {p \in open : \A q \in open :
                     PendingKey(p) = PendingKey(q) => p.reference.line <= q.reference.line}
        kept == {p \in valid : /\ ~full /\ p.reference \notin references
                               /\ p.reference.file \notin changed
                               /\ \A q \in first : PendingKey(p) # PendingKey(q)}
    IN  [edges |-> {edge[r] : r \in references}, pending |-> first \cup kept]

----------------------------------------------------------------------------
(* A run of the scope, full or not, that cannot read some of the files.    *)

Scanned(scope, unreadable) ==
    [f \in Files |-> IF RepositoryOf[f] \in scope /\ f \notin unreadable THEN tree[f] ELSE Absent]

(* _source_revision, for the two policies that do not look at both.        *)
Revision(r, read) ==
    IF r \in HeadPolicy THEN <<commits[r], {}>>
    ELSE <<0, {<<f, read[f]>> : f \in {f \in Files : RepositoryOf[f] = r /\ read[f] # Absent}}>>

Present(contents) == {f \in Files : contents[f] # Absent}

Changed(scope, read) == {f \in Files : RepositoryOf[f] \in scope /\ db.files[f] # read[f]}

(* _apply_plan_transaction: every file of the scope is written or deleted. *)
Replaced(scope, read) == {f \in Files : RepositoryOf[f] \in scope}

(* The second: apply() keeps the revisions of what has been unregistered.  *)
Collision(read) == \E f \in Present(read) : Collides(f, read[f])
Refused(scope, read) == Collision(read) \/ ~(db.indexed \subseteq registered)

Projected(scope, full, read) ==
    LET revision == [r \in AllRepositories |-> IF r \in scope THEN Revision(r, read) ELSE db.revision[r]]
        gone == Replaced(scope, read)
        kept == {s \in db.symbols : s.file \notin gone}
        parsed == UNION {SymbolsOf(f, read[f]) : f \in Present(read)}
        resolved == Resolution(Present(read), revision, kept \cup parsed,
                               UNION {ReferencesOf(f, read[f]) : f \in Present(read)},
                               {p \in db.pending : RepositoryOf[p.reference.file] \in scope},
                               Changed(scope, read), full)
    IN  [files |-> [f \in Files |-> IF RepositoryOf[f] \in scope THEN read[f] ELSE db.files[f]],
         revision |-> revision,
         indexed |-> db.indexed \cup scope,
         symbols |-> kept \cup parsed,
         edges |-> {e \in db.edges : e.source \in kept /\ e.target \in kept \cup {NoSymbol}}
                   \cup resolved.edges,
         pending |-> {p \in db.pending : p.reference.file \notin gone} \cup resolved.pending]

Change == changes < MaxChanges /\ changes' = changes + 1

Run(scope, full, unreadable) ==
    /\ IF unreadable = {} THEN UNCHANGED changes ELSE Change
    /\ scope # {} /\ scope \subseteq registered
    /\ LET read == Scanned(scope, unreadable)
       IN  /\ db' = IF Refused(scope, read) THEN db ELSE Projected(scope, full, read)
           /\ outcome' = IF Collision(read) THEN "collision"
                         ELSE IF Refused(scope, read) THEN "refused" ELSE "done"
    /\ UNCHANGED <<tree, commits, registered>>

Write(f, content) ==
    /\ Change
    /\ content # tree[f]
    /\ tree' = [tree EXCEPT ![f] = content]
    /\ outcome' = "none"
    /\ UNCHANGED <<commits, registered, db>>

GitCommit(r) ==
    /\ Change
    /\ commits' = [commits EXCEPT ![r] = @ + 1]
    /\ outcome' = "none"
    /\ UNCHANGED <<tree, registered, db>>

Unregister(r) ==
    /\ Change
    /\ r \in registered /\ registered # {r}
    /\ registered' = registered \ {r}
    /\ outcome' = "none"
    /\ UNCHANGED <<tree, commits, db>>

----------------------------------------------------------------------------
(* CodeQueryService: served is the repository it is opened for, if any.    *)

Scope(served) == IF served = {} THEN registered ELSE served

(* SearchSymbols, without the order and the limit of the hits.             *)
SearchSymbols(term, served) ==
    {s \in db.symbols : term \in Range(s.path) /\ RepositoryOf[s.file] \in Scope(served)}

Visible(s, served) == RepositoryOf[s.file] \in registered \cap Scope(served)

(* _resolve_symbol: an identity, or a name that only one symbol has.       *)
Resolve(name, served) ==
    LET matches == {s \in db.symbols : (Last(s.path) = name) /\ Visible(s, served)}
    IN  IF Cardinality(matches) = 1 THEN matches ELSE {}

(* traverse: level by level, each symbol once, until there are enough.     *)
Crosses(e, uncertain) ==
    e.relation = "CALLS" /\ e.target # NoSymbol
    /\ (e.status = "extracted" \/ (e.status = "inferred" /\ uncertain))

From(e, direction) == IF direction = "outbound" THEN e.source ELSE e.target
To(e, direction) == IF direction = "outbound" THEN e.target ELSE e.source

OrderOf(s) == <<s.file, LineOf(s, db.files[s.file]), s.nth>>

NextLevel(frontier, visited, direction, uncertain) ==
    {To(e, direction) : e \in {e \in db.edges :
        Crosses(e, uncertain) /\ From(e, direction) \in frontier /\ To(e, direction) \notin visited}}

Traverse(root, direction, depth, limit, uncertain) ==
    LET level[d \in 0..depth] ==
            IF d = 0 THEN [hits |-> <<>>, frontier |-> {root}]
            ELSE LET last == level[d - 1]
                     found == NextLevel(last.frontier, {root} \cup Range(last.hits), direction, uncertain)
                     hits == Top(last.hits \o Sorted(found, OrderOf), limit)
                 IN  [hits |-> hits, frontier |-> found \cap Range(hits)]
    IN  level[depth].hits

----------------------------------------------------------------------------
Next ==
    \/ \E scope \in SUBSET AllRepositories, full \in BOOLEAN, unreadable \in SUBSET Files :
           (Cardinality(unreadable) <= 1 /\ unreadable \subseteq Present(tree)) /\ Run(scope, full, unreadable)
    \/ \E f \in Files : \E content \in Versions[f] \cup {Absent} : Write(f, content)
    \/ \E r \in AllRepositories : GitCommit(r) \/ Unregister(r)

Spec == Init /\ [][Next]_vars

----------------------------------------------------------------------------
(* Properties.                                                             *)

Of(r, S) == {x \in S : RepositoryOf[x.file] = r}

(* However a repository came to what it holds, by which runs, incremental  *)
(* or full, alone or with others, it is what one full run over its files   *)
(* alone gives: no edge into a file that has changed or gone is left, none *)
(* is missed that a later file makes possible, and each reference that has *)
(* no target waits for one (reference_resolution.py resolve(),             *)
(* sqlite_code_projection_store.py _apply_plan_transaction()).             *)
GraphIsThatOfTheFiles ==
    \A r \in db.indexed :
        LET files == {f \in Present(db.files) : RepositoryOf[f] = r}
            symbols == UNION {SymbolsOf(f, db.files[f]) : f \in files}
            alone == Resolution(files, db.revision, symbols,
                                UNION {ReferencesOf(f, db.files[f]) : f \in files}, {}, {}, TRUE)
        IN  /\ Of(r, db.symbols) = symbols
            /\ {e \in db.edges : RepositoryOf[e.source.file] = r} = alone.edges
            /\ {p \in db.pending : RepositoryOf[p.reference.file] = r} = alone.pending

(* callers, callees and impact are the symbols that so many calls lead to, *)
(* each once and the nearest first, up to the limit, in the repository of  *)
(* the symbol asked for (sqlite_code_projection_store.py traverse()).      *)
Within(root, direction, depth) ==
    LET reach[d \in 0..depth] ==
            IF d = 0 THEN {root}
            ELSE reach[d - 1] \cup {To(e, direction) : e \in
                    {e \in db.edges : Crosses(e, TRUE) /\ From(e, direction) \in reach[d - 1]}}
    IN  reach

TraversalIsReach ==
    \A root \in db.symbols, direction \in {"inbound", "outbound"}, limit \in {1, 20} :
        LET hits == Traverse(root, direction, 2, limit, TRUE)
            reach == Within(root, direction, 2)
            all == reach[2] \ {root}
        IN  /\ IsInjective(hits)
            /\ Range(hits) \subseteq Of(RepositoryOf[root.file], all)
            /\ Len(hits) = IF Cardinality(all) < limit THEN Cardinality(all) ELSE limit
            /\ \A i, j \in DOMAIN hits : hits[i] \in reach[1] /\ hits[j] \notin reach[1] => i < j

(* A name of a symbol finds it, and nothing of a repository that is not    *)
(* registered or not served is shown (code_query_service.py _matches()).   *)
ShownInScope ==
    \A s \in db.symbols, served \in {{}} \cup {{r} : r \in registered} :
        LET found == SearchSymbols(Last(s.path), served)
        IN  /\ (s \in found) = (RepositoryOf[s.file] \in registered /\ (served # {} => RepositoryOf[s.file] \in served))
            /\ Resolve(Last(s.path), served) \subseteq found

CodeAnswersFaithfully == GraphIsThatOfTheFiles /\ TraversalIsReach /\ ShownInScope

(* docs/superpowers/specs/2026-08-03-round-1-code-projection-design.md:387 *)
(* "The declaration disambiguator is deterministic for same-name           *)
(* declarations in a file, such as an ordinal among declarations with the  *)
(* same qualified name and kind": no file makes a run fail.                *)
DeclarationsAreToldApart == outcome # "collision"

(* docs/superpowers/plans/2026-08-03-round-2-project-context.md:27         *)
(* "Traversal follows only resolved edges by default": one that is         *)
(* resolved is followed.                                                   *)
ResolvedCallsAreFollowed ==
    \A e \in db.edges : e.relation = "CALLS" /\ e.target \notin {NoSymbol, e.source} =>
        e.source \in Range(Traverse(e.target, "inbound", 1, 20, FALSE))

===============================================================================
