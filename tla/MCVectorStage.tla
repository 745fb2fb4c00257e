---------------------------- MODULE MCVectorStage ----------------------------
(* Model checking of VectorStage: one session, with a file of each         *)
(* schema.                                                                 *)
EXTENDS VectorStage

MCContents == {[input |-> 1, meta |-> 1], [input |-> 2, meta |-> 1]}
MCHides == {<<"v2part", "v1file">>}
=============================================================================
