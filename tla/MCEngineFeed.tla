---------------------------- MODULE MCEngineFeed ----------------------------
(* Instances of EngineFeed for TLC. *)
EXTENDS EngineFeed, TLC

\* Encoders are interchangeable, and so are formats: no action or invariant asks
\* which format an encoder has before it is claimed.
Symmetry == Permutations(Encoders) \cup Permutations(Formats)
=============================================================================
