----------------------------- MODULE MCListTmp -------------------------------
(* An instance of ListTmp.tla: two sessions, and listings whose lines are   *)
(* of different lengths: one short line; two, the second longer than a      *)
(* block; a short one and one longer than what fgets returns.               *)
EXTENDS ListTmp

CONSTANTS s1, s2

MCShapes == {<<TRUE>>,
             <<FALSE, TRUE, FALSE, FALSE, TRUE>>,
             <<TRUE, FALSE, FALSE, FALSE, FALSE, TRUE>>}
=============================================================================
