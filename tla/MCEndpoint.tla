----------------------------- MODULE MCEndpoint -----------------------------
(* Instances of Endpoint for TLC. *)
EXTENDS Endpoint

CONSTANTS r1, r2, r3
=============================================================================
