------------------------------ MODULE MCSessions ------------------------------
(* Model checking of overlapping session starts, and of the record of      *)
(* vector failures that overlapping runs write: part says which moves.     *)
EXTENDS SessionStart, VectorRetry, TLC

VARIABLE part

SessionsInit == part \in {"starts", "retry"} /\ Init /\ RetryInit

SessionsNext ==
    /\ UNCHANGED part
    /\ \/ part = "starts" /\ Next /\ UNCHANGED retryVars
       \/ part = "retry" /\ RetryNext /\ UNCHANGED vars

SessionsSpec == SessionsInit /\ [][SessionsNext]_<<part, vars, retryVars>>

SessionsSymmetry == Permutations(Hooks) \cup Permutations(Slots)
=============================================================================
