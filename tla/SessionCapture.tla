---------------------------- MODULE SessionCapture ----------------------------
(* A Claude Code session on its way to the Vault. The agent appends records *)
(* to the transcript and to the file of a subagent; hooks and export        *)
(* commands, several at a time, read both, turn them into exchanges, write  *)
(* the normalized file into a shared export folder or a temporary one, and  *)
(* hand it to the Vault's hook launcher. Records are kinds without text, a  *)
(* normalized file stands for the records it was made from.                 *)
EXTENDS Integers, Sequences, FiniteSets, Ordering, Functions
CONSTANTS
    Runs,    \* processes that may run, each one hook or one export: 1..n
    Worlds,  \* what the agent may write, the runs, the export folder and how many writes fail
    Nothing  \* no file, no process

VARIABLES
    world,   \* the chosen one of Worlds
    source,  \* records of the main and subagent files, the subagent's meta file, and who is newest
    copies,  \* of the export folder: the normalized file and the raw copies
    run,     \* each process
    settled  \* what was read for normalizations of a session not known to be over

captureVars == <<world, source, copies, run, settled>>

-----------------------------------------------------------------------------
(* The agent (external): what a transcript can be.                         *)

Rec(id, parent, kind, of) == [id |-> id, parent |-> parent, kind |-> kind, of |-> of]
LastId(records) == IF records = <<>> THEN 0 ELSE Last(records).id
LastHuman(records) == SelectLastInSeq(records, LAMBDA r : r.kind = "human")

(* The calls of the present exchange that have no result yet.              *)
Pending(records) ==
    {records[i].id : i \in {j \in LastHuman(records) + 1 .. Len(records) : records[j].kind = "call"}}
        \ {records[i].of : i \in DOMAIN records}

(* A person goes on, or goes back before an earlier message of the branch. *)
RECURSIVE Branch(_, _)
Branch(records, id) ==
    LET at == SelectLastInSeq(records, LAMBDA r : r.id = id)
    IN IF at = 0 THEN {} ELSE {at} \cup Branch(records, records[at].parent)
HumanParents(records) ==
    {LastId(records)} \cup {records[i].parent : i \in {j \in Branch(records, LastId(records)) : records[j].kind = "human"}}

(* A turn is written when all results are there; calls may come in         *)
(* parallel, each result hangs on its call.                                *)
Spoken(records, id) ==
    {Rec(id, parent, "human", 0) : parent \in HumanParents(records)}
    \cup {Rec(id, LastId(records), kind, 0) : kind \in {"text", "thinking", "notice"}}
MayCall(records) == records # <<>> /\ (Pending(records) = {} \/ Last(records).kind = "call")
NextRecords(records, id) ==
    (IF Pending(records) = {} THEN Spoken(records, id) ELSE {})
    \cup (IF MayCall(records) THEN {Rec(id, LastId(records), "call", 0)} ELSE {})
    \cup {Rec(id, call, result, call) : call \in Pending(records), result \in {"result", "error", "stopped"}}

AgentWrites ==
    /\ Len(source.main) < world.main
    /\ \E record \in NextRecords(source.main, Len(source.main) + 1) :
        /\ record.kind \in world.kinds
        /\ source' = [source EXCEPT !.main = Append(@, record), !.newest = TRUE, !.over = FALSE]
    /\ UNCHANGED <<world, copies, run, settled>>

(* A subagent may start from a copy of what the main conversation held.    *)
SubagentWrites ==
    /\ source.main # <<>> /\ ~source.finished /\ Len(source.sub) < world.sub
    /\ \E record \in NextRecords(source.sub, 10 + Len(source.sub)) \cup (IF source.sub = <<>> THEN {Head(source.main)} ELSE {}) :
        /\ record.kind \in world.kinds /\ Pending(source.main) = {}
        /\ source' = [source EXCEPT !.sub = Append(@, record)]
    /\ UNCHANGED <<world, copies, run, settled>>

SubagentFinishes ==
    /\ source.sub # <<>> /\ ~source.finished /\ Pending(source.sub) = {}
    /\ source' = [source EXCEPT !.finished = TRUE]
    /\ UNCHANGED <<world, copies, run, settled>>

SessionEnds ==
    /\ source.main # <<>> /\ ~source.over /\ "end" \in world.kinds
    /\ \E newest \in BOOLEAN : source' = [source EXCEPT !.over = TRUE, !.newest = newest]
    /\ UNCHANGED <<world, copies, run, settled>>

-----------------------------------------------------------------------------
(* The adapter claude-code/1.                                              *)

(* Places of the records that count: each uuid once, over all files.       *)
Nodes(records, seen) ==
    {i \in DOMAIN records : records[i].id \notin seen /\ \A j \in 1..(i - 1) : records[j].id # records[i].id}

(* The place each record hangs below, as the sequence of places from its   *)
(* root. Parents are written first, so there is no cycle.                  *)
Paths(records, nodes) ==
    LET path[i \in nodes] ==
          LET above == {j \in nodes : records[j].id = records[i].parent}
          IN Append(IF above = {} THEN <<>> ELSE path[CHOOSE j \in above : TRUE], i)
    IN path

(* The first result of a call, in the records of the same file.            *)
Outcome(records, call) ==
    LET at == SelectInSeq(records, LAMBDA r : r.of = call)
    IN IF at = 0 THEN "none" ELSE records[at].kind

(* Thinking is left out: what follows hangs on the turn before it.         *)
IsTurn(record) == record.kind # "thinking"
Turn(records, path, i) ==
    LET above == {k \in 1..(Len(path) - 1) : IsTurn(records[path[k]])}
    IN [id |-> records[i].id, kind |-> records[i].kind,
        parent |-> IF above = {} THEN 0 ELSE records[path[CHOOSE k \in above : \A l \in above : l <= k]].id,
        ok |-> IF records[i].kind = "call" THEN Outcome(records, records[i].id) ELSE "none"]

OrderedTurns(records, seen) ==
    LET nodes == Nodes(records, seen)
        path == Paths(records, nodes)
        order == Sorted({i \in nodes : IsTurn(records[i])}, LAMBDA i : path[i])  \* depth first, siblings as in the file
    IN [k \in DOMAIN order |-> Turn(records, path[order[k]], order[k])]

(* An exchange starts at a person's turn; what comes before the first one  *)
(* belongs to it, and without one all turns are one exchange.              *)
SplitExchanges(turns) ==
    LET humans == Sorted({i \in DOMAIN turns : turns[i].kind = "human"}, LAMBDA i : <<i>>)
        count == IF turns = <<>> THEN 0 ELSE IF humans = <<>> THEN 1 ELSE Len(humans)
    IN [k \in 1..count |-> SubSeq(turns, IF k = 1 THEN 1 ELSE humans[k],
                                  IF k = count THEN Len(turns) ELSE humans[k + 1] - 1)]

ExchangeId(turns) ==
    LET at == SelectInSeq(turns, LAMBDA t : t.kind = "human")
    IN turns[IF at = 0 THEN 1 ELSE at].id

ExchangeOutcome(turns, closed) ==
    LET spoken == SelectLastInSeq(turns, LAMBDA t : t.kind \in {"text", "call"})
        acted == SelectLastInSeq(turns, LAMBDA t : t.kind = "call")
    IN IF ~closed THEN "open"
       ELSE IF spoken > 0 /\ turns[spoken].kind = "text" THEN "answered"
       ELSE IF acted > 0 /\ turns[acted].ok = "error" THEN "tool_error_unresolved"
       ELSE "interrupted"

ScopeExchanges(scope, turns, finished) ==
    LET exchanges == SplitExchanges(turns)
        Closed(k) == k < Len(exchanges) \/ finished
    IN [k \in DOMAIN exchanges |->
          [id |-> ExchangeId(exchanges[k]), scope |-> scope, turns |-> exchanges[k], closed |-> Closed(k),
           outcome |-> ExchangeOutcome(exchanges[k], Closed(k))]]

(* taken: how much of each file was read, and whether the session is known *)
(* to be over. The subagent's turns are those the main file does not hold. *)
NormalizeSession(taken) ==
    LET main == SubSeq(source.main, 1, taken.main)
        seen == {main[i].id : i \in DOMAIN main}
    IN ScopeExchanges("main", OrderedTurns(main, {}), taken.ended)
       \o ScopeExchanges("subagent", OrderedTurns(SubSeq(source.sub, 1, taken.sub), seen), taken.ended \/ taken.finished)

-----------------------------------------------------------------------------
(* A run: a hook, or the export command with or without --recapture.       *)

Idle == [step |-> "idle"]
Taken(main, sub, finished, ended) == [main |-> main, sub |-> sub, finished |-> finished, ended |-> ended]
NoneTaken == Taken(0, 0, FALSE, FALSE)
Present(ended) == Taken(Len(source.main), Len(source.sub), source.finished, ended)

Started(kind, ended, into, raw, saw) ==
    [step |-> "main", kind |-> kind, into |-> into, raw |-> raw, got |-> [NoneTaken EXCEPT !.ended = ended],
     saw |-> saw, torn |-> FALSE, overtaken |-> FALSE, late |-> FALSE, file |-> Nothing, handed |-> <<>>, told |-> FALSE]

(* Runs are alike: they start in the order of their numbers.               *)
MayStart(r) == r <= world.runs /\ run[r].step = "idle" /\ \A q \in 1..(r - 1) : run[q].step # "idle"

Step(r, to) == run' = [run EXCEPT ![r].step = to]

(* The settings may name a folder, be refused with a warning (unreadable,  *)
(* no such folder, a folder inside a Vault) or not be there.               *)
ExportFolder(into) == IF into = "folder" THEN "folder" ELSE "temp"

(* The hook names the transcript; SessionEnd says the session is over.     *)
HookSession(event) == Present(event = "SessionEnd")

CaptureHook(r, event) ==
    /\ MayStart(r) /\ "hook" \in world.kindsOfRun
    /\ event = "SessionEnd" => source.over
    /\ \E into \in world.into, raw \in world.raw :
        run' = [run EXCEPT ![r] =
            IF source.main = <<>> THEN [Started("hook", FALSE, "temp", FALSE, NoneTaken) EXCEPT !.step = "v1"]
            ELSE [Started("hook", event = "SessionEnd", ExportFolder(into), raw /\ into = "folder", HookSession(event))
                  EXCEPT !.told = (into = "refused")]]
    /\ UNCHANGED <<world, source, copies, settled>>

(* The command refuses a folder inside a Vault before anything is written. *)
(* The most recently modified transcript of the project may still run.     *)
ExportCommand(r) ==
    /\ MayStart(r) /\ source.main # <<>> /\ "folder" \in world.into
    /\ \E kind \in world.kindsOfRun \ {"hook"}, raw \in world.raw :
        run' = [run EXCEPT ![r] = Started(kind, ~source.newest, "folder", raw, Present(~source.newest))]
    /\ UNCHANGED <<world, source, copies, settled>>

(* The files are read one after the other: main, subagent, its meta file.  *)
(* Torn: the subagent wrote on and finished between the last two.          *)
ReadMain(r) ==
    /\ run[r].step = "main"
    /\ run' = [run EXCEPT ![r].got.main = Len(source.main), ![r].step = "sub"]
    /\ UNCHANGED <<world, source, copies, settled>>

ReadSubagent(r) ==
    /\ run[r].step = "sub"
    /\ run' = [run EXCEPT ![r].got.sub = Len(source.sub), ![r].step = "meta"]
    /\ UNCHANGED <<world, source, copies, settled>>

ReadMeta(r) ==
    /\ run[r].step = "meta"
    /\ run' = [run EXCEPT ![r].got.finished = source.finished, ![r].torn = source.finished /\ run[r].got.sub < Len(source.sub),
                          ![r].step = "normalized"]
    /\ UNCHANGED <<world, source, copies, settled>>

Written(r) == [run EXCEPT ![r].file = run[r].got]

(* The other runs between their own write and their hand-over.             *)
Overtaking(r, runs) ==
    [q \in Runs |-> IF q # r /\ runs[q].step \in {"raw", "launch"} /\ runs[q].into = "folder"
                    THEN [runs[q] EXCEPT !.overtaken = TRUE] ELSE runs[q]]

(* The same bytes are not written again; a write replaces the whole file.  *)
WriteIfChanged(file, what) == [copies EXCEPT ![file] = what]
Unchanged(file, what) == copies[file] = what

WriteNormalized(r) ==
    /\ run[r].step = "normalized"
    /\ settled' = IF run[r].got.ended THEN settled ELSE settled \cup {[got |-> run[r].got, torn |-> run[r].torn]}
    /\ IF run[r].into = "temp"
       THEN /\ run' = [Written(r) EXCEPT ![r].step = "launch"]
            /\ UNCHANGED copies
       ELSE IF Unchanged("normalized", run[r].got)
            THEN run' = [Written(r) EXCEPT ![r].step = "raw"] /\ UNCHANGED copies
            ELSE /\ run' = [Overtaking(r, Written(r)) EXCEPT ![r].step = "raw"]
                 /\ copies' = WriteIfChanged("normalized", run[r].got)
    /\ UNCHANGED <<world, source>>

(* The main transcript, the subagent's and its meta file, byte for byte.   *)
RawNames == <<"main", "sub", "finished">>
WriteRaw(r) ==
    /\ run[r].step = "raw"
    /\ LET next == IF run[r].kind = "export" THEN "done" ELSE "launch"
           left == {k \in 1..3 : run[r].raw /\ ~Unchanged(RawNames[k], run[r].got[RawNames[k]])}
       IN IF left = {} THEN Step(r, next) /\ UNCHANGED copies
          ELSE LET first == RawNames[CHOOSE k \in left : \A l \in left : k <= l]
               IN /\ copies' = WriteIfChanged(first, run[r].got[first])
                  /\ run' = Overtaking(r, run)
    /\ UNCHANGED <<world, source, settled>>

(* A hook goes on with a temporary folder, and reads the files again; when *)
(* that fails too, the Vault reads the transcript itself. A command ends.  *)
WriteFails(r) ==
    /\ run[r].step \in {"normalized", "raw"} /\ world.faults > 0
    /\ run[r].step = "normalized" => run[r].into = "temp" \/ ~Unchanged("normalized", run[r].got)
    /\ run' = [run EXCEPT ![r].told = TRUE,
                          ![r].step = IF run[r].kind # "hook" THEN "done" ELSE IF run[r].into = "folder" THEN "main" ELSE "v1",
                          ![r].into = "temp", ![r].file = Nothing]
    /\ world' = [world EXCEPT !.faults = @ - 1]
    /\ UNCHANGED <<source, copies, settled>>

-----------------------------------------------------------------------------
(* The launcher (external) answers: it captured, it does not know the      *)
(* option (exit code 2, or an older one its usage with exit code 0), or it *)
(* failed or was stopped at the time limit of the whole hook, before or    *)
(* after the Vault kept what it was given.                                 *)
(* Mutant: any failure sends the hook again.                               *)
RejectedOrFailed(answer) == answer \in {"usage error", "usage shown", "failed"}
LauncherRejectedNormalized(answer) == answer \in {"usage error", "usage shown"}
Kept(answer) ==
    IF answer = "captured" THEN {TRUE} ELSE IF answer \in {"failed", "stopped"} THEN BOOLEAN ELSE {FALSE}
Handing(r, as, what, kept) == run[r].handed \o IF kept THEN <<[as |-> as, what |-> what]>> ELSE <<>>

Normalized(r) == IF run[r].into = "folder" THEN copies.normalized ELSE run[r].file

RunNormalized(r) ==
    /\ run[r].step = "launch" /\ run[r].kind = "hook"
    /\ \E answer \in world.answers : \E kept \in Kept(answer) :
        run' = [run EXCEPT
            ![r].handed = Handing(r, "v2", Normalized(r), kept),
            ![r].late = answer = "stopped" \/ (answer = "usage shown" /\ world.slow),
            ![r].told = @ \/ answer # "captured",
            ![r].step = IF LauncherRejectedNormalized(answer) THEN "v1" ELSE "done"]
    /\ UNCHANGED <<world, source, copies, settled>>

(* --recapture hands over what was exported, and never the transcript.     *)
RecaptureSession(r) ==
    /\ run[r].step = "launch" /\ run[r].kind = "recapture"
    /\ \E answer \in world.answers : \E kept \in Kept(answer) :
        run' = [run EXCEPT ![r].handed = Handing(r, "v2", Normalized(r), kept), ![r].told = @ \/ answer # "captured",
                           ![r].step = "done"]
    /\ UNCHANGED <<world, source, copies, settled>>

(* The same hook again, without the option, in the time that is left.      *)
RunV1(r) ==
    /\ run[r].step = "v1"
    /\ \E answer \in (world.answers \cup {"captured"}) \ {"usage error", "usage shown"} : \E kept \in Kept(answer) :
        run' = [run EXCEPT
            ![r].handed = Handing(r, "v1", Present(FALSE), kept /\ ~run[r].late),
            ![r].told = @ \/ answer # "captured" \/ run[r].late,
            ![r].step = "done"]
    /\ UNCHANGED <<world, source, copies, settled>>

CaptureInit ==
    /\ world \in Worlds
    /\ source = [main |-> <<>>, sub |-> <<>>, finished |-> FALSE, newest |-> TRUE, over |-> FALSE]
    /\ copies = [normalized |-> Nothing, main |-> 0, sub |-> 0, finished |-> FALSE]
    /\ run = [r \in Runs |-> Idle]
    /\ settled = {}

CaptureNext ==
    \/ AgentWrites \/ SubagentWrites \/ SubagentFinishes \/ SessionEnds
    \/ \E r \in Runs :
        \/ \E event \in {"PreCompact", "SessionEnd"} : CaptureHook(r, event)
        \/ ExportCommand(r)
        \/ ReadMain(r) \/ ReadSubagent(r) \/ ReadMeta(r)
        \/ WriteNormalized(r) \/ WriteRaw(r) \/ WriteFails(r)
        \/ RunNormalized(r) \/ RecaptureSession(r) \/ RunV1(r)

-----------------------------------------------------------------------------
(* What an exchange closed once holds is what it holds for good: the Vault *)
(* writes closed exchanges into part files that never change. Two kinds    *)
(* are not for good. A subagent's file may be read before its last records *)
(* and its meta file after it finished (_read_sources): the last exchange  *)
(* of that reading is closed with some of its turns, and a later reading   *)
(* closes it with all. And a session taken to be over may go on: readings  *)
(* of one are not looked at.                                               *)
TurnIds(exchange) == {turn.id : turn \in ToSet(exchange.turns)}
ClosedTooEarly(e, exchanges, now) ==
    /\ e.scope = "subagent" /\ e = Last(exchanges)
    /\ \E whole \in now : whole.scope = "subagent" /\ whole.closed /\ TurnIds(e) \subseteq TurnIds(whole)
ClosedIsFinalUnlessTorn ==
    LET now == ToSet(NormalizeSession(Present(FALSE)))
    IN \A reading \in settled :
        LET exchanges == NormalizeSession(reading.got)
        IN \A e \in ToSet(exchanges) : e.closed => e \in now \/ (reading.torn /\ ClosedTooEarly(e, exchanges, now))

(* Every turn of the transcripts is in one exchange, once, under its own   *)
(* exchange's id; what was thought, and what was copied, is not.           *)
EachTurnOnce ==
    LET now == NormalizeSession(Present(FALSE))
        turns == FlattenSeq([k \in DOMAIN now |-> now[k].turns])
        written == ToSet(source.main) \cup ToSet(source.sub)
    IN /\ {turns[i].id : i \in DOMAIN turns} = {r.id : r \in {w \in written : IsTurn(w)}}
       /\ IsInjective([i \in DOMAIN turns |-> turns[i].id])
       /\ IsInjective([k \in DOMAIN now |-> <<now[k].scope, now[k].id>>])
       /\ \A i \in DOMAIN turns : turns[i].parent \in {0} \cup {turns[j].id : j \in DOMAIN turns}

AtLeast(taken, other) ==
    taken.main >= other.main /\ taken.sub >= other.sub /\ (other.finished => taken.finished) /\ taken.ended = other.ended

(* A hook hands the session over once, as a normalized file or, when the   *)
(* launcher does not take one, as the transcript, with all the hook saw    *)
(* when it started, or says why not; only a run that another one overtook  *)
(* in the export folder may hand over less.                                *)
HandedOverOnce ==
    \A r \in Runs : run[r].step = "done" =>
        /\ Len(run[r].handed) <= 1
        /\ run[r].kind # "export" /\ run[r].handed = <<>> => run[r].told
        /\ \A h \in ToSet(run[r].handed) :
            h.as = "v2" => run[r].overtaken \/ AtLeast(h.what, run[r].saw)

(* The folder holds the normalized file and the copies of one reading.     *)
FolderIsOfOneReading ==
    \A r \in Runs :
        run[r].step \in {"launch", "done"} /\ run[r].into = "folder" /\ run[r].file # Nothing /\ ~run[r].overtaken =>
            /\ copies.normalized = run[r].got \/ run[r].step = "done"
            /\ run[r].step = "launch" /\ run[r].raw =>
                copies.main = run[r].got.main /\ copies.sub = run[r].got.sub /\ copies.finished = run[r].got.finished

(* A session reaches the Vault whole, once, and as it will stay unless its *)
(* subagent finished while it was read.                                    *)
SessionReachesTheVault == ClosedIsFinalUnlessTorn /\ EachTurnOnce /\ HandedOverOnce /\ FolderIsOfOneReading
=============================================================================
