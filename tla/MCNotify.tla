----------------------------- MODULE MCNotify -----------------------------
(* Instances of Notify for TLC. *)
EXTENDS Notify

CONSTANTS a, b, c
MCCounts == {1, 2}
AllModes == {"One", "Poll", "All"}
=============================================================================
