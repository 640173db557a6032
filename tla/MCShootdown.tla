---------------------------- MODULE MCShootdown ----------------------------
(* Instances of Shootdown for TLC. *)
EXTENDS Shootdown

CONSTANTS c1, c2, c3, s1, s2, r1, r2
=============================================================================
