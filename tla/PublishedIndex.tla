--------------------------- MODULE PublishedIndex ---------------------------
(***************************************************************************)
(* What publication promises to the readers of a Data Home: one published  *)
(* index, which only grows by whole runs, and which is either readable or  *)
(* refused ("data home and active projection manifests disagree"), never   *)
(* half replaced.                                                          *)
(***************************************************************************)
CONSTANT Runs

VARIABLES
    applied,   \* the runs whose results the published index holds
    torn       \* readers refuse it

Init == applied = {} /\ torn = FALSE

(* A replacement begins: readers fail closed.                              *)
Tear == ~torn /\ torn' = TRUE /\ UNCHANGED applied

(* It is completed: the index gains the results of exactly one run.        *)
Replace ==
    /\ torn
    /\ \E r \in Runs \ applied : applied' = applied \cup {r}
    /\ torn' = FALSE

(* It is withdrawn: the old index is readable again.                       *)
Withdraw == torn /\ torn' = FALSE /\ UNCHANGED applied

Next == Tear \/ Replace \/ Withdraw

Spec == Init /\ [][Next]_<<applied, torn>>
=============================================================================
