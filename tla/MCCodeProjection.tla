--------------------------- MODULE MCCodeProjection ---------------------------
(* Model checking of CodeProjection: one command at a time.                *)
EXTENDS CodeProjection
=============================================================================
