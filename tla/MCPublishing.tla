------------------------------ MODULE MCPublishing ------------------------------
(* Model checking of runs that publish, of the sessions that hooks and     *)
(* exports bring to the Vault, and of the chunks a run makes of its files: *)
(* part says whose variables move.                                         *)
EXTENDS PublicationInvariant, Integers, TLC
CONSTANT Nothing

VARIABLES
    part,
    world, source, copies, run, settled, \* of SessionCapture
    chunker, doc, chunks, before               \* of Chunking

captureVars == <<world, source, copies, run, settled>>
chunkVars == <<chunker, doc, chunks, before>>

----------------------------------------------------------------------------
(* Sessions: a transcript of six records with parallel calls and messages  *)
(* taken back, every kind of record, a subagent; and runs that overlap in  *)
(* one export folder, or meet every answer of the launcher.                *)
CaptureWorld(kinds, main, sub, most, kindsOfRun, into, raw, answers, slow, faults) ==
    [kinds |-> kinds, main |-> main, sub |-> sub, runs |-> most, kindsOfRun |-> kindsOfRun, into |-> into,
     raw |-> raw, answers |-> answers, slow |-> slow, faults |-> faults]
CaptureGrowth(kinds, main, sub) ==
    CaptureWorld(kinds, main, sub, 1, {"hook"}, {"none"}, {FALSE}, {"captured"}, FALSE, 0)
CaptureWorlds ==
    {CaptureGrowth({"human", "text", "call", "result"}, 6, 0),
     CaptureGrowth({"human", "text", "thinking", "notice", "call", "error", "stopped"}, 4, 0),
     CaptureGrowth({"human", "text", "call", "result"}, 2, 3)}
    \cup {CaptureWorld({"human", "end"}, 2, 0, 2, {"hook", "export", "recapture"}, {"folder"}, {TRUE}, {"captured"}, FALSE, 0)}
    \cup {CaptureWorld({"human", "end"}, 1, 1, 1, {"hook", "export", "recapture"}, {"none", "refused", "folder"}, BOOLEAN,
                       {"captured", "usage error", "usage shown", "failed", "stopped"}, slow, 2) : slow \in BOOLEAN}
Capture == INSTANCE SessionCapture WITH Runs <- 1..2, Worlds <- CaptureWorlds

(* A session reaches the Vault whole, once, and as it will stay unless its *)
(* subagent finished while it was read.                                    *)
SessionReachesTheVault == part = "capture" => Capture!SessionReachesTheVault

----------------------------------------------------------------------------
(* Files of up to five lines of every kind a chunker tells apart, with     *)
(* texts that fit a window of two words and texts that do not.             *)
Line(kind, words, says) == [kind |-> kind, words |-> words, says |-> says]
TurnLine(says, agent, role) == [kind |-> "turn", words |-> 0, says |-> says, agent |-> agent, role |-> role]
FileLines(kind, lines, most) == [kind |-> kind, lines |-> lines, most |-> most]
Blank == Line("blank", 0, "x")
FitsNot == Line("text", 3, "y")
FileWorlds ==
    {FileLines("window", {Blank, FitsNot, Line("text", 1, "x"), Line("h1", 1, "a"), Line("h2", 1, "b"), Line("fence", 1, "x"),
                          Line("longer fence", 1, "x"), Line("row", 2, "x"), Line("rule", 1, "x"), Line("item", 1, "x")}, 4),
     FileLines("page", {Blank, FitsNot, Line("text", 1, "x"), Line("h1", 1, "a"), Line("h2", 1, "b"), Line("h2", 1, "template")}, 5),
     FileLines("v2", {Blank, FitsNot, Line("text", 1, "x"), Line("exchange", 1, 0), Line("exchange", 1, 1), Line("exchange", 2, 2),
                      Line("turn", 1, "user"), Line("action", 2, "x")}, 4),
     FileLines("v1", {Blank, Line("text", 3, "not a person"), Line("text", 1, "x"), TurnLine(1, 0, "user"), TurnLine(1, 1, "user"),
                      TurnLine(2, 0, "assistant"), Line("tools", 1, "x")}, 5)}
Files == INSTANCE Chunking WITH Worlds <- FileWorlds, MaxTokens <- 2, MinWords <- 2

(* A file's chunks hold what it says, once each, and stay where it stays.  *)
ChunksHoldTheFile == part = "chunks" => Files!ChunksHoldTheFile

----------------------------------------------------------------------------
PublishingInit ==
    /\ part \in {"publications", "capture", "chunks"}
    /\ Init
    /\ IF part = "capture" THEN Capture!CaptureInit
       ELSE world = Nothing /\ source = Nothing /\ copies = Nothing /\ run = Nothing /\ settled = Nothing
    /\ IF part = "chunks" THEN Files!ChunkInit
       ELSE chunker = Nothing /\ doc = Nothing /\ chunks = Nothing /\ before = Nothing

PublishingNext ==
    /\ UNCHANGED part
    /\ \/ part = "publications" /\ Next /\ UNCHANGED <<captureVars, chunkVars>>
       \/ part = "capture" /\ Capture!CaptureNext /\ UNCHANGED <<vars, chunkVars>>
       \/ part = "chunks" /\ Files!ChunkNext /\ UNCHANGED <<vars, captureVars>>

PublishingSpec == PublishingInit /\ [][PublishingNext]_<<part, vars, captureVars, chunkVars>>

(* Generation ids carry no order, and no cfg that uses this set checks     *)
(* liveness.                                                               *)
PublishingSymmetry == Permutations(Generations)
================================================================================
