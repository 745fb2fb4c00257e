------------------------------- MODULE Chunking -------------------------------
(* How a Vault file becomes chunks: a markdown page in windows of a section *)
(* or, for a wiki page, of about one size, a session file in windows of an  *)
(* exchange. A file is a list of lines, a line its kind, how many words it  *)
(* has and what it says; a chunk is its id and its words, each named by its *)
(* line and place. The file grows line by line, then one line is edited.    *)
(* A session's file without an id in its frontmatter is left out.           *)
EXTENDS Integers, Sequences, FiniteSets, Ordering
CONSTANTS
    Worlds,     \* a chunker, the lines its files are made of, and how many
    MaxTokens,  \* of a window
    MinWords    \* of a wiki page's window

VARIABLES
    chunker, \* one of Worlds
    doc,     \* the file
    chunks,  \* of the file, as the last run read it
    before   \* the file and its chunks before the edit, <<>> when there was none

chunkVars == <<chunker, doc, chunks, before>>

-----------------------------------------------------------------------------
(* Markdown: blocks, their sections and their units.                       *)

Headings == {"h1", "h2"}
Level(line) == IF line.kind = "h1" THEN 1 ELSE 2
Fences == {"fence", "longer fence"}
IsTableStart(lines, i) == i < Len(lines) /\ lines[i].kind \in {"row", "rule"} /\ lines[i + 1].kind = "rule"

(* The line after a fence's end: a fence at least as long, or the last.    *)
ConsumeFence(lines, i) ==
    LET ends == {j \in (i + 1)..Len(lines) : lines[j].kind = "longer fence" \/ lines[j].kind = lines[i].kind}
    IN IF ends = {} THEN Len(lines) + 1 ELSE 1 + CHOOSE j \in ends : \A k \in ends : j <= k

(* The first line a table, list, quote or paragraph does not take.         *)
Until(lines, i, Stops(_)) == CHOOSE j \in i..(Len(lines) + 1) :
    /\ j = Len(lines) + 1 \/ Stops(j)
    /\ \A k \in i..(j - 1) : ~Stops(k)
ConsumeTable(lines, i) == Until(lines, i, LAMBDA j : lines[j].kind \notin {"row", "rule"})
OtherKind(line) == IF line.kind \in {"item", "quote"} THEN line.kind ELSE "paragraph"
ConsumeOther(lines, i) ==
    Until(lines, i + 1, LAMBDA j :
        \/ lines[j].kind \in {"blank"} \cup Headings \cup Fences \/ IsTableStart(lines, j)
        \/ OtherKind(lines[i]) = "paragraph" /\ lines[j].kind \in {"item", "quote"}
        \/ OtherKind(lines[i]) # "paragraph" /\ lines[j].kind # lines[i].kind)

Block(kind, first, next) == [kind |-> kind, first |-> first, last |-> next - 1]
BlockAt(lines, i) ==
    IF lines[i].kind \in Headings THEN Block("heading", i, i + 1)
    ELSE IF lines[i].kind \in Fences THEN Block("code", i, ConsumeFence(lines, i))
    ELSE IF IsTableStart(lines, i) THEN Block("table", i, ConsumeTable(lines, i))
    ELSE Block(OtherKind(lines[i]), i, ConsumeOther(lines, i))
RECURSIVE BlocksFrom(_, _)
BlocksFrom(lines, i) ==
    IF i > Len(lines) THEN <<>>
    ELSE IF lines[i].kind = "blank" THEN BlocksFrom(lines, i + 1)
    ELSE LET block == BlockAt(lines, i) IN <<block>> \o BlocksFrom(lines, block.last + 1)

(* The titles above each block: a heading cuts the path at its level.      *)
RECURSIVE Sections(_, _, _)
Sections(lines, blocks, path) ==
    IF blocks = <<>> THEN <<>>
    ELSE LET line == lines[Head(blocks).first]
             here == IF Head(blocks).kind = "heading" THEN Append(Top(path, Level(line) - 1), line.says) ELSE path
         IN <<here>> \o Sections(lines, Tail(blocks), here)

WordsOf(lines, i) == [k \in 1..lines[i].words |-> <<i, k>>]
WordsIn(lines, first, last) == FlattenSeq([k \in 1..(last - first + 1) |-> WordsOf(lines, first + k - 1)])

(* Rows of a table and lines of code are units, another block is one. The  *)
(* key names a unit by its kind, section and text, and counts the equal    *)
(* ones before it.                                                         *)
Unit(lines, block, path, first, last, index) ==
    [text |-> [kind |-> block.kind, path |-> path, says |-> [k \in 1..(last - first + 1) |-> lines[first + k - 1]], at |-> index],
     words |-> IF block.kind = "heading" THEN <<>> ELSE WordsIn(lines, first, last),
     path |-> path, heading |-> block.kind = "heading", title |-> IF block.kind = "heading" THEN lines[first].words ELSE 0]
BlockUnits(lines, block, path) ==
    IF block.kind \in {"code", "table"}
    THEN [k \in 1..(block.last - block.first + 1) |->
            Unit(lines, block, path, block.first + k - 1, block.first + k - 1, k)]
    ELSE <<Unit(lines, block, path, block.first, block.last, 1)>>
SameText(one, other) == one.text.kind = other.text.kind /\ one.text.path = other.text.path /\ one.text.says = other.text.says
StableKey(units, i) == <<units[i].text, Cardinality({j \in 1..(i - 1) : SameText(units[j], units[i])})>>

Units(lines) ==
    LET blocks == BlocksFrom(lines, 1)
        paths == Sections(lines, blocks, <<>>)
        units == FlattenSeq([b \in DOMAIN blocks |-> BlockUnits(lines, blocks[b], paths[b])])
    IN [i \in DOMAIN units |-> [key |-> StableKey(units, i)] @@ units[i]]

-----------------------------------------------------------------------------
(* Windows of a section.                                                   *)

Fragment(unit, piece, words) ==
    [key |-> unit.key, piece |-> piece, words |-> words, path |-> unit.path, heading |-> unit.heading, title |-> unit.title]
Pieces(words) ==
    LET count == (Len(words) + MaxTokens - 1) \div MaxTokens
    IN [k \in 1..count |-> SubSeq(words, (k - 1) * MaxTokens + 1, IF k = count THEN Len(words) ELSE k * MaxTokens)]
FragmentsForUnit(unit) ==
    IF Len(unit.words) <= MaxTokens THEN <<Fragment(unit, 1, unit.words)>>
    ELSE LET pieces == Pieces(unit.words) IN [k \in DOMAIN pieces |-> Fragment(unit, k, pieces[k])]

(* Packing: pending fragments, closed when the next does not fit.          *)
Packing(done, pending) == [done |-> done, pending |-> pending]
Flush(p) == IF p.pending = <<>> THEN p.done ELSE Append(p.done, p.pending)
Total(fragments) == FoldLeft(LAMBDA sum, f : sum + Len(f.words), 0, fragments)
Pack(fragments, Closes(_, _)) ==
    Flush(FoldLeft(LAMBDA p, f : IF Closes(p.pending, f) THEN Packing(Flush(p), <<f>>) ELSE Packing(p.done, Append(p.pending, f)),
                   Packing(<<>>, <<>>), fragments))

Chunk(id, path, window) == [id |-> id, path |-> path, words |-> FlattenSeq([k \in DOMAIN window |-> window[k].words])]

BoundaryKey(window) == <<window[1].path, window[1].key, window[1].piece, Last(window).key, Last(window).piece, Len(window)>>
ClosesSection(pending, f) ==
    pending # <<>> /\ (f.heading \/ f.path # pending[1].path \/ Total(pending) + Len(f.words) > MaxTokens)
ChunkDocument(lines) ==
    LET units == Units(lines)
        windows == Pack(FlattenSeq([i \in DOMAIN units |-> FragmentsForUnit(units[i])]), ClosesSection)
    IN [k \in DOMAIN windows |-> Chunk(BoundaryKey(windows[k]), windows[k][1].path, windows[k])]

-----------------------------------------------------------------------------
(* Windows of a wiki page: sections that every page has, apart from its    *)
(* own; a window closes once it has the words, and takes its headings with *)
(* the text below them; a short last window joins the one before.          *)

PageFragments(unit) == IF unit.heading \/ unit.words # <<>> THEN FragmentsForUnit(unit) ELSE <<>>
PageHeading(units) ==
    LET at == SelectInSeq(units, LAMBDA u : u.heading /\ Len(u.path) = 1) IN IF at = 0 THEN <<>> ELSE units[at].path
IsTemplate(path, heading) ==
    LET from == IF heading # <<>> /\ path # <<>> /\ path[1] = heading[1] THEN 2 ELSE 1
    IN \E k \in from..Len(path) : path[k] = "template"

FragmentWords(f) == IF f.heading THEN f.title + 1 ELSE Len(f.words)
WindowWords(window) == FoldLeft(LAMBDA sum, f : sum + FragmentWords(f), 0, window)
TrailingHeadings(window) ==
    LET text == SelectLastInSeq(window, LAMBDA f : ~f.heading) IN SubSeq(window, text + 1, Len(window))
WindowCloses(pending, f) ==
    ~f.heading /\ WindowWords(pending) + FragmentWords(f) > MaxTokens /\ Total(pending) >= MinWords

ClosePage(p, f) ==
    IF ~WindowCloses(p.pending, f) THEN Packing(p.done, Append(p.pending, f))
    ELSE LET opening == TrailingHeadings(p.pending)
         IN Packing(Append(p.done, SubSeq(p.pending, 1, Len(p.pending) - Len(opening))), Append(opening, f))
(* Mutant: the short last window is left out.                              *)
DropShortLast(windows) == IF Len(windows) > 1 /\ Total(Last(windows)) < MinWords THEN Front(windows) ELSE windows
JoinShortLast(windows) ==
    IF Len(windows) > 1 /\ Total(Last(windows)) < MinWords
    THEN Append(Front(Front(windows)), Last(Front(windows)) \o Last(windows)) ELSE windows
PageWindows(fragments) ==
    SelectSeq(JoinShortLast(Flush(FoldLeft(ClosePage, Packing(<<>>, <<>>), fragments))), LAMBDA w : Total(w) > 0)

CommonPrefix(window) ==
    LET shared == {n \in 0..Len(window[1].path) :
                     \A k \in DOMAIN window : n <= Len(window[k].path) /\ Top(window[k].path, n) = Top(window[1].path, n)}
    IN Top(window[1].path, CHOOSE n \in shared : \A m \in shared : m <= n)
PageDraft(kind, window) ==
    Chunk(<<kind, window[1].key, window[1].piece, Last(window).key, Last(window).piece>>, CommonPrefix(window), window)
WikiPage(lines) ==
    LET units == Units(lines)
        fragments == FlattenSeq([i \in DOMAIN units |-> PageFragments(units[i])])
        Of(template) == SelectSeq(fragments, LAMBDA f : IsTemplate(f.path, PageHeading(units)) = template)
        Drafts(kind, windows) == [k \in DOMAIN windows |-> PageDraft(kind, windows[k])]
    IN Drafts("body", PageWindows(Of(FALSE))) \o Drafts("template", PageWindows(Of(TRUE)))

-----------------------------------------------------------------------------
(* Windows of a session's exchanges, vault-session/v2. What says is the    *)
(* exchange's id, 0 for a meta line that cannot be read; an action line's  *)
(* last word is its target, which goes to the keywords only.               *)

ExchangeStarts(lines) == Sorted({i \in DOMAIN lines : lines[i].kind = "exchange"}, LAMBDA i : <<i>>)
ExchangeEnd(lines, starts, k) == IF k = Len(starts) THEN Len(lines) ELSE starts[k + 1] - 1

(* A turn's last paragraph, when all its lines are actions.                *)
TurnEnd(lines, i) == Until(lines, i + 1, LAMBDA j : lines[j].kind \in {"turn", "exchange"}) - 1
SameParagraph(lines, i, j) == \A k \in (i..j) \cup (j..i) : lines[k].kind \in {"text", "action"}
IsAction(lines, i) ==
    /\ \A j \in DOMAIN lines : SameParagraph(lines, i, j) => lines[j].kind = "action"
    /\ \A j \in i..TurnEnd(lines, i) : lines[j].kind = "blank" \/ SameParagraph(lines, i, j)
LineWords(lines, i) ==
    IF lines[i].kind \notin {"text", "action"} THEN <<>>
    ELSE IF IsAction(lines, i) THEN Front(WordsOf(lines, i)) ELSE WordsOf(lines, i)

(* A line that fits a window is never split; a longer one fills the open   *)
(* window and goes on in the next ones.                                    *)
AddWord(p, word) ==
    IF Len(p.pending) = MaxTokens THEN Packing(Append(p.done, p.pending), <<word>>) ELSE Packing(p.done, Append(p.pending, word))
AddLine(p, words) ==
    IF words = <<>> THEN p
    ELSE IF Len(words) <= MaxTokens
    THEN IF Len(p.pending) + Len(words) > MaxTokens THEN Packing(Flush(p), words) ELSE Packing(p.done, p.pending \o words)
    ELSE FoldLeft(AddWord, p, words)
ExchangeWindows(linesOfWords) == Flush(FoldLeft(AddLine, Packing(<<>>, <<>>), linesOfWords))

ExchangeDrafts(lines, starts, k) ==
    LET first == starts[k]
        id == lines[first].says
        windows == ExchangeWindows([n \in 1..(ExchangeEnd(lines, starts, k) - first + 1) |-> LineWords(lines, first + n - 1)])
        occurrence == Cardinality({j \in 1..(k - 1) : lines[starts[j]].words = lines[first].words})
    IN [n \in DOMAIN windows |->
          [id |-> IF id # 0 THEN <<"exchange", id, n>> ELSE <<"heading", lines[first].words, occurrence, n>>,
           path |-> <<k>>, words |-> windows[n]]]

(* An exchange id that comes again is left out, with a warning.            *)
Repeated(lines, starts, k) == lines[starts[k]].says # 0 /\ \E j \in 1..(k - 1) : lines[starts[j]].says = lines[starts[k]].says
SessionV2(lines) ==
    LET starts == ExchangeStarts(lines)
    IN FlattenSeq([k \in DOMAIN starts |-> IF Repeated(lines, starts, k) THEN <<>> ELSE ExchangeDrafts(lines, starts, k)])

-----------------------------------------------------------------------------
(* vault-session/v1: a list of turns, each of the main agent or of a       *)
(* subagent; a person's message opens an exchange of its scope. says of a  *)
(* heading is its time, of a text whether it may be a person's; a last     *)
(* line of tool names is left out.                                         *)

IsTools(lines, j) ==
    /\ lines[j].kind = "tools" /\ lines[j - 1].kind \in {"blank", "turn"}
    /\ \A k \in (j + 1)..TurnEnd(lines, j) : lines[k].kind = "blank"
TextOf(lines, i) == {j \in (i + 1)..TurnEnd(lines, i) : lines[j].kind # "blank" /\ ~IsTools(lines, j)}
OpensExchange(lines, i) ==
    LET text == TextOf(lines, i)
    IN lines[i].role = "user" /\ text # {} /\ lines[CHOOSE j \in text : \A k \in text : j <= k].says # "not a person"
TurnsV1(lines) == Sorted({i \in DOMAIN lines : lines[i].kind = "turn"}, LAMBDA i : <<i>>)

(* The turn each turn's exchange starts with.                              *)
FirstTurn(lines, i) ==
    LET scope == {j \in DOMAIN lines : j <= i /\ lines[j].kind = "turn" /\ lines[j].agent = lines[i].agent}
        opened == {j \in scope : OpensExchange(lines, j) \/ \A k \in scope : j <= k}
    IN CHOOSE j \in opened : \A k \in opened : k <= j

FragmentsV1(lines, i) ==
    LET texts == Sorted(TextOf(lines, i), LAMBDA j : <<j>>)
    IN FlattenSeq([k \in DOMAIN texts |-> Pieces(WordsOf(lines, texts[k]))])
WindowV1(p, words) ==
    IF p.pending # <<>> /\ Len(p.pending) + Len(words) > MaxTokens THEN Packing(Flush(p), words)
    ELSE Packing(p.done, p.pending \o words)

SessionV1(lines) ==
    LET turns == TurnsV1(lines)
        firsts == Sorted({FirstTurn(lines, turns[k]) : k \in DOMAIN turns}, LAMBDA i : <<i>>)
        Own(first) == SelectSeq(turns, LAMBDA i : FirstTurn(lines, i) = first)
        Windows(own) == Flush(FoldLeft(WindowV1, Packing(<<>>, <<>>), FlattenSeq([k \in DOMAIN own |-> FragmentsV1(lines, own[k])])))
        Heading(first) == <<lines[first].says, lines[first].agent, lines[first].role>>
        Occurrence(k) == Cardinality({j \in 1..k : Heading(firsts[j]) = Heading(firsts[k])})
        Drafts(k, windows) ==
            [n \in DOMAIN windows |-> [id |-> <<Heading(firsts[k]), Occurrence(k), n>>, path |-> <<k>>, words |-> windows[n]]]
    IN FlattenSeq([k \in DOMAIN firsts |-> Drafts(k, Windows(Own(firsts[k])))])

-----------------------------------------------------------------------------
SelectChunker(kind, lines) ==
    CASE kind = "window" -> ChunkDocument(lines)
      [] kind = "page" -> WikiPage(lines)
      [] kind = "v2" -> SessionV2(lines)
      [] kind = "v1" -> SessionV1(lines)

(* The file grows by a line, or, once it is full, a line says something    *)
(* else; then a run reads it.                                              *)
Grown == IF Len(doc) < chunker.most THEN {Append(doc, line) : line \in chunker.lines} ELSE {}
Edited ==
    IF before # <<>> \/ Len(doc) < chunker.most THEN {}
    ELSE UNION {{[doc EXCEPT ![i] = line] : line \in {l \in chunker.lines : l.kind = doc[i].kind /\ l # doc[i]}} : i \in DOMAIN doc}
Save(lines) ==
    /\ doc' = lines
    /\ chunks' = SelectChunker(chunker.kind, lines)
    /\ before' = IF Len(lines) = Len(doc) THEN <<doc, chunks>> ELSE <<>>
    /\ UNCHANGED chunker

ChunkInit == chunker \in Worlds /\ doc = <<>> /\ chunks = <<>> /\ before = <<>>
ChunkNext == \E lines \in Grown \cup Edited : Save(lines)

-----------------------------------------------------------------------------
(* The words that must be found: all of a page's text; of a session those  *)
(* below its first heading, without what its chunker leaves out.           *)
Texts(lines, kinds) == {i \in DOMAIN lines : lines[i].kind \in kinds}
Found == UNION {ToSet(c.words) : c \in ToSet(chunks)}
Below(lines, i, kind) == {j \in 1..i : lines[j].kind = kind}
MustBeFound(kind, lines) ==
    CASE kind \in {"window", "page"} -> Texts(lines, {"text", "item", "row"})
      [] kind = "v2" -> {i \in Texts(lines, {"text"}) : Below(lines, i, "exchange") # {}
                           /\ ~Repeated(lines, ExchangeStarts(lines), Cardinality(Below(lines, i, "exchange")))}
      [] kind = "v1" -> {i \in Texts(lines, {"text"}) : Below(lines, i, "turn") # {}}

(* Every word is in one chunk, once; a chunk reads in the file's order.    *)
NoWordLost ==
    /\ \A i \in MustBeFound(chunker.kind, doc) : ToSet(WordsOf(doc, i)) \subseteq Found
    /\ IsInjective(FlattenSeq([k \in DOMAIN chunks |-> chunks[k].words]))
    /\ \A c \in ToSet(chunks) : \A k \in 1..(Len(c.words) - 1) : Less(c.words[k], c.words[k + 1])

(* No chunk takes another one's place in the stores.                       *)
IdsDiffer == IsInjective([k \in DOMAIN chunks |-> chunks[k].id])

(* A window keeps the limit; a wiki page's one may be over it by what a    *)
(* window of too few words and a short last one add.                       *)
WithinLimit ==
    \A c \in ToSet(chunks) : Len(c.words) <= MaxTokens + (IF chunker.kind = "page" THEN 2 * (MinWords - 1) ELSE 0)

(* An edit of a text leaves the chunks of other sections and exchanges as  *)
(* they were, so they are neither embedded nor linked anew. The windows of *)
(* a wiki page run over sections, and one may close elsewhere afterwards:  *)
(* pages are left out.                                                     *)
EditedLine == CHOOSE i \in DOMAIN doc : doc[i] # before[1][i]
Touched(some) == {c.path : c \in {d \in ToSet(some) : \E w \in ToSet(d.words) : w[1] = EditedLine}}
EditIsLocal ==
    (before # <<>> /\ chunker.kind # "page" /\ doc[EditedLine].kind = "text" /\ (chunker.kind = "v1" => doc[EditedLine].says = before[1][EditedLine].says)) =>
        \A c \in ToSet(before[2]) : c.path \in Touched(chunks) \cup Touched(before[2]) \/ c \in ToSet(chunks)

(* Chunks hold what the file says, once each, and stay where it stays.     *)
ChunksHoldTheFile == NoWordLost /\ IdsDiffer /\ WithinLimit /\ EditIsLocal
=============================================================================
