------------------------------ MODULE MCSched ------------------------------
(* Instances of Sched for TLC. *)
EXTENDS Sched, TLC

CONSTANTS c1, c2, t1, t2, t3

BootOneCpu == (c1 :> <<t1, t2>>)
BootSplit == (c1 :> <<t1>> @@ c2 :> <<t2>>)

AllOps == {"yield", "block", "sleep", "exit", "spawn", "irq"}
WakeOps == {"yield", "block"}
=============================================================================
