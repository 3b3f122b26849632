------------------------------- MODULE Streams -------------------------------
(* One stream connection as the programs of this repository see it through   *)
(* send, recv, read, write and close: a record with, for each side, the      *)
(* units that have arrived and were not read (in) and how that side stands   *)
(* (end).  The kernel is outside the repository.                             *)
EXTENDS Integers, Sequences

Sides == {"c", "s"}
Peer(s) == IF s = "c" THEN "s" ELSE "c"

(* end[s] tells how side s of a connection stands:                          *)
(*   open  it can still be read;                                            *)
(*   fin   closed in order, the peer reads end-of-file;                     *)
(*   gone  closed in order, and something sent to it since has been reset:  *)
(*         the peer reads end-of-file, its writes may kill it;              *)
(*   rst   closed with input unread: the peer's reads and writes fail.      *)
Ends == {"open", "fin", "gone", "rst"}
Hows == {"rst", "gone"}   \* the two ways a close loses input

-----------------------------------------------------------------------------
(* What one side of a connection sees.                                      *)
AtEnd(ch, s)  == ch.in[s] = <<>> /\ ch.end[Peer(s)] \in {"fin", "gone"}
Failed(ch, s) == ch.in[s] = <<>> /\ ch.end[Peer(s)] = "rst"
Broken(ch, s) == ch.end[Peer(s)] \in {"gone", "rst"}

(* The connection after side s has sent the units ms.  What is sent to a    *)
(* closed side is lost, and answered with a reset.                          *)
Sent(ch, s, ms) ==
    IF ch.end[Peer(s)] = "open" THEN [ch EXCEPT !.in[Peer(s)] = @ \o ms]
    ELSE IF ch.end[Peer(s)] = "fin" THEN [ch EXCEPT !.end[Peer(s)] = "gone"]
    ELSE ch

(* ... after side s has received its first j units.                         *)
Taken(ch, s, j) == [ch EXCEPT !.in[s] = SubSeq(@, j + 1, Len(@))]

(* ... after side s has been closed.  Input that has arrived and was not    *)
(* read turns the close into a reset; input still on its way is answered    *)
(* with one: how \in {"rst", "gone"} says which.                            *)
Closed(ch, s, how) ==
    [ch EXCEPT !.end[s] = IF ch.in[s] = <<>> THEN "fin" ELSE how,
               !.in[s] = <<>>]

(* ... after its listening socket was closed before any accept returned it. *)
Refused(ch) == [ch EXCEPT !.end["s"] = "rst", !.in["s"] = <<>>]
=============================================================================
