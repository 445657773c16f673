----------------------------- MODULE MCScheduler -----------------------------
(* Instances of Scheduler for TLC.                                         *)
EXTENDS Scheduler, TLC

CONSTANTS p1, p2, p3, c1, c2

BootOne == <<p1>>
BootThree == <<p1, p2, p3>>
Symmetric == Permutations(Cpu) \cup Permutations(Pid \ {p1})
=============================================================================
