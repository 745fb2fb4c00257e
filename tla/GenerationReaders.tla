------------------------- MODULE GenerationReaders -------------------------
(***************************************************************************)
(* The processes that read published generations without the publish lock: *)
(*   - readers: one command or hook each (CatalogService), which finds the *)
(*     active generation once and keeps that path until it ends;           *)
(*   - server: the MCP server (CurrentMcpServices, McpServiceFactory),     *)
(*     which checks the active generation id before every tool call and    *)
(*     reopens its read services when the id changed.                      *)
(* They read data-home.json and active.json one after the other, while     *)
(* publishers replace them in the opposite order.  Stores are opened by    *)
(* path for every operation, so a removed folder fails the reader.         *)
(***************************************************************************)
EXTENDS ProjectionPublication, Naturals

CONSTANT Readers   \* one-shot read commands

VARIABLES
    reader,   \* reader[r]: where it is, its generation, how far that is behind
    server    \* the services of the MCP server and the opening of new ones

readerVars == <<reader, server>>
allVars == <<vars, readerVars>>

ReaderStates ==
    [at : {"idle", "openActive", "using"}, gen : Pointer, since : 0..2]

ServerStates ==
    [at : {"idle", "reopening", "openHome", "openActive", "serving"},
     call : BOOLEAN,          \* inside get(), for a tool call; else reopen()
     label : Pointer,         \* McpServices.generation_id
     content : Pointer,       \* the folder its stores point at
     newLabel : Pointer,      \* the same two, while services are reopened
     newContent : Pointer]

Idle == [at |-> "idle", gen |-> NoGen, since |-> 0]

ReadersInit ==
    /\ Init
    /\ reader = [r \in Readers |-> Idle]
    /\ server = [at |-> "idle", call |-> FALSE, label |-> NoGen, content |-> NoGen,
                 newLabel |-> NoGen, newContent |-> NoGen]

----------------------------------------------------------------------------
(* A read command.                                                         *)

(* The pointer of data-home.json first; a missing folder is an error.      *)
ReadHome(r) ==
    /\ reader[r].at = "idle"
    /\ home # NoGen
    /\ Exists(home)
    /\ reader' = [reader EXCEPT ![r] = [at |-> "openActive", gen |-> home,
                                       since |-> IF previous = home THEN 1 ELSE 0]]
    /\ UNCHANGED <<vars, server>>
(* Mutant: active.json is not compared.                                    *)
AcceptHome(r) ==
    /\ reader[r].at = "openActive"
    /\ reader' = [reader EXCEPT ![r].at = "using"]
    /\ UNCHANGED <<vars, server>>

(* Then active.json, which must name the same generation.                  *)
CompareActive(r) ==
    /\ reader[r].at = "openActive"
    /\ reader' = [reader EXCEPT ![r] =
                    IF active = @.gen THEN [@ EXCEPT !.at = "using"] ELSE Idle]
    /\ UNCHANGED <<vars, server>>

FinishReading(r) ==
    /\ reader[r].at = "using"
    /\ reader' = [reader EXCEPT ![r] = Idle]
    /\ UNCHANGED <<vars, server>>

----------------------------------------------------------------------------
(* The MCP server.                                                         *)

Becomes(s) == server' = s /\ UNCHANGED <<vars, reader>>

(* get(): the id in active.json is the one the services were opened on.    *)
GetCurrent ==
    /\ server.at = "idle"
    /\ active = server.label
    /\ Becomes([server EXCEPT !.at = "serving"])
(* Mutant: the services are opened once.                                   *)
GetUnopened ==
    /\ server.at = "idle"
    /\ active # server.label /\ server.label = NoGen
    /\ Becomes([server EXCEPT !.at = "reopening", !.call = TRUE])

GetChanged ==
    /\ server.at = "idle"
    /\ active # server.label
    /\ Becomes([server EXCEPT !.at = "reopening", !.call = TRUE])

(* reopen(): a background index of this server has published.              *)
Refresh ==
    /\ server.at = "idle"
    /\ Becomes([server EXCEPT !.at = "reopening", !.call = FALSE])

(* open_read_only reads the id before it opens anything.                   *)
ReadLabel ==
    /\ server.at = "reopening"
    /\ Becomes([server EXCEPT !.at = "openHome", !.newLabel = active])

OpenHome ==
    /\ server.at = "openHome"
    /\ Exists(home)
    /\ Becomes([server EXCEPT !.at = "openActive", !.newContent = home])

(* The services, new or old, go to the tool call that asked for them.      *)
Return(s) ==
    Becomes([s EXCEPT !.at = IF s.call THEN "serving" ELSE "idle",
                      !.newLabel = NoGen, !.newContent = NoGen])

OpenActive ==
    /\ server.at = "openActive"
    /\ active = server.newContent
    /\ Return([server EXCEPT !.label = server.newLabel, !.content = server.newContent])
(* Mutant: the label moves although opening failed.                       *)
KeepButRelabel ==
    /\ server.at = "openActive"
    /\ active # server.newContent
    /\ Return([server EXCEPT !.label = server.newLabel])

(* Opening raised: the current services are kept.                          *)
KeepServices ==
    /\ \/ server.at = "openHome" /\ ~Exists(home)
       \/ server.at = "openActive" /\ active # server.newContent
    /\ Return(server)

FinishTool ==
    /\ server.at = "serving"
    /\ Becomes([server EXCEPT !.at = "idle", !.call = FALSE])

ServerStep ==
    \/ GetCurrent \/ GetChanged \/ Refresh
    \/ ReadLabel \/ OpenHome \/ OpenActive \/ KeepServices \/ FinishTool

----------------------------------------------------------------------------
(* A publisher moves; readers at work count how often previous.json was    *)
(* replaced: once their generation is named there, and once it no longer is. *)
Publication ==
    /\ Next
    /\ reader' = [r \in Readers |->
                    IF previous' # previous /\ reader[r].at # "idle" /\ reader[r].since < 2
                    THEN [reader[r] EXCEPT !.since = @ + 1]
                    ELSE reader[r]]
    /\ UNCHANGED server

ReadersNext ==
    \/ Publication
    \/ \E r \in Readers : ReadHome(r) \/ CompareActive(r) \/ FinishReading(r)
    \/ ServerStep

ReadersSpec == ReadersInit /\ [][ReadersNext]_allVars

(* A running process is scheduled, and the agent keeps calling tools.      *)
CalledSpec ==
    /\ ReadersSpec
    /\ \A p \in Publishers : WF_allVars(Work(p) /\ Publication)
    /\ WF_allVars(GetCurrent \/ GetChanged)
    /\ WF_allVars(ReadLabel \/ OpenHome \/ OpenActive \/ KeepServices \/ FinishTool)

----------------------------------------------------------------------------
(* Properties.                                                             *)

ReadersTypeOK ==
    /\ reader \in [Readers -> ReaderStates]
    /\ server \in ServerStates

(* When get() finds the id of its services in an active.json that readers  *)
(* accept, those services really are the active generation: a publication  *)
(* that lands while services are reopened is noticed by the next call.     *)
LabelTellsTheContent ==
    home = active /\ server.label = active => server.content = active

(* A reader can finish on the generation it found while it becomes the     *)
(* previous one, whether that publication completes or not: its folder is  *)
(* removed only after previous.json has moved on.  Checked for runs that   *)
(* cannot copy or write, not for runs that fail after they published.      *)
ReaderKeepsFolder ==
    \A r \in Readers :
        reader[r].at = "using" /\ reader[r].since < 2
            => folder[reader[r].gen] = "complete"

(* A reader is never handed a half-published generation: at the moment it  *)
(* accepts one, that generation is complete and some publisher has put it  *)
(* in both pointers.                                                       *)
ReaderOpensComplete ==
    [][\A r \in Readers :
        reader[r].at = "openActive" /\ reader'[r].at = "using"
            => folder[reader'[r].gen] = "complete" /\ reader'[r].gen \in runs[reader'[r].gen]]_allVars

(* Once publication settles, a server whose tools are called ends up on    *)
(* the published generation and stays there.                               *)
ServerCatchesUp ==
    \A g \in Generations :
        <>[](home = g /\ active = g) => <>[](server.content = g)
=============================================================================
