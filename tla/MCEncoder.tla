------------------------------ MODULE MCEncoder ------------------------------
(* Instances of Encoder for TLC. *)
EXTENDS Encoder, TLC

CONSTANTS c1, c2

\* The client the encoder is started for, and one that joins it.
MCClients == {c1, c2}
=============================================================================
