------------------------------- MODULE MCTalk --------------------------------
(* An instance of Talk.tla: two users, and a server process for each fork   *)
(* that two connections can make.                                           *)
EXTENDS Talk

CONSTANTS alice, bob, p1, p2, p3

(* Two lines of one user have to be under way for one to overtake the       *)
(* other; the second user is there to be accepted and to be disturbed.      *)
MCMaxLines == [c \in {alice, bob} |-> IF c = alice THEN 3 ELSE 1]
=============================================================================
