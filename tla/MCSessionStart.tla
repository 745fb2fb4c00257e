---------------------------- MODULE MCSessionStart ----------------------------
(* Model checking of session starts, and of what sessions are told: part   *)
(* says whose variables move.                                              *)
EXTENDS SessionStart, Recall

VARIABLE part

----------------------------------------------------------------------------
(* Recall: a Vault of the project alone, another that shares its pages, a  *)
(* pinned decision that is a correction, and a page of another project.    *)
(* Text is short of what everything takes by a line or two.                *)
RecallPage(vault, kind, pinned, projects, statuses) ==
    [vault |-> vault, kind |-> kind, pinned |-> pinned, correction |-> pinned, projects |-> projects, statuses |-> statuses]
RecallPages ==
    <<RecallPage(1, "brief", FALSE, {"project"}, {"current"}),
      RecallPage(1, "decision", TRUE, {}, {"superseded"}),
      RecallPage(1, "issue", FALSE, {}, {"closed", "superseded"}),
      RecallPage(2, "decision", FALSE, {}, {"stale", "superseded"}),
      RecallPage(2, "navigation", FALSE, {"project"}, {"current"}),
      RecallPage(2, "issue", FALSE, {"other"}, {"current"})>>
LinkedProjects == <<{}, {"project", "other"}>>
OneOfEach == [question |-> 1, decision |-> 1, change |-> 1]

----------------------------------------------------------------------------
StartsInit == part \in {"starts", "recall"} /\ Init /\ RecallInit

StartsNext ==
    /\ UNCHANGED part
    /\ \/ part = "starts" /\ Next /\ UNCHANGED recallVars
       \/ part = "recall" /\ RecallNext /\ UNCHANGED vars

StartsSpec == StartsInit /\ [][StartsNext]_<<part, vars, recallVars>> /\ (part = "starts" => Fairness)

===============================================================================
