------------------------------- MODULE MCNvme -------------------------------
(***************************************************************************)
(* Rings of four slots, two polls that may be given up, an interrupt endpoint   *)
(* that holds two messages, and two block addresses.                         *)
(***************************************************************************)
EXTENDS Nvme

MCLbas == {4, 5}
=============================================================================
