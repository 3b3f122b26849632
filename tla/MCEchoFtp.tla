------------------------------ MODULE MCEchoFtp ------------------------------
(* Instances of EchoFtp.tla for TLC: two users, up to six processes, and two
   directories as model values; users and the processes but the first are
   interchangeable in the runs that check no liveness.                      *)
EXTENDS EchoFtp, TLC

CONSTANTS alice, bob, p1, p2, p3, p4, p5, p6, home, pub
MCNoFile == -1
MCSymmetry == Permutations(Procs \ {Root}) \cup Permutations(Clients)
=============================================================================
