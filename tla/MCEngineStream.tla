--------------------------- MODULE MCEngineStream ---------------------------
(* Instances of EngineStream for TLC. *)
EXTENDS EngineStream, TLC
=============================================================================
