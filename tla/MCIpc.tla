-------------------------------- MODULE MCIpc --------------------------------
(* Instances of Ipc for TLC.                                               *)
EXTENDS Ipc, TLC

CONSTANTS s1, s2, r1, r2, r3

Symmetric == Permutations(Receiver) \cup Permutations(Sender)
=============================================================================
