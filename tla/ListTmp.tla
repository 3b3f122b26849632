------------------------------- MODULE ListTmp -------------------------------
(* The listing of LIST (EchoFtpServer.c, lines 218-228), for the sessions   *)
(* whose processes are in one directory: a shell writes "ls -l" to tmp.txt, *)
(* and the process reads that file back, line by line until feof, while the *)
(* shell of another session may empty and rewrite it.  ls writes, and stdio *)
(* reads, a block of bytes at a time, each at the offset it has itself      *)
(* reached, wherever lines begin and end there by now.                      *)
EXTENDS Integers, Sequences, SequencesExt

CONSTANTS Sessions,    \* processes of the server in this directory
          Shapes,      \* what "ls -l" may print: of each byte, is it a newline
          Block,       \* bytes in a block
          Width,       \* bytes one fgets returns at most
          MaxLists,    \* bound: LIST commands per session
          Absent       \* there is no tmp.txt

(* tmp.txt is in its own listing, and ls ends every line.                   *)
ASSUME ListAssumption ==
    /\ Shapes # {}
    /\ \A shape \in Shapes :
         shape \in Seq(BOOLEAN) /\ shape # <<>> /\ shape[Len(shape)]
    /\ Block \in Nat \ {0} /\ Width \in Nat \ {0}
    /\ MaxLists \in Nat

VARIABLES writable,    \* the processes may create files in the directory
          tmp,         \* tmp.txt
          sess         \* the sessions

vars == <<writable, tmp, sess>>

(* Byte i of a listing.  by tells whose; a hole, the null bytes a write     *)
(* leaves before it when the file was emptied, is nobody's byte 0.          *)
Owners == (Sessions \X (0..MaxLists)) \cup {<<>>}
Byte == [by : Owners, i : Nat, nl : BOOLEAN]
Hole == [by |-> <<>>, i |-> 0, nl |-> FALSE]

Session == [pc   : {"idle", "ls", "open", "loop", "close", "dead"},
            shape : Shapes,         \* what ls prints this time
            pos  : Nat,             \* bytes written by ls, or read by stdio
            buf  : Seq(Byte),       \* read by stdio, not yet returned by fgets
            temp : Seq(Byte),       \* tempBuffer; empty: not initialised
            mid  : BOOLEAN,         \* fgets has not found the end of it yet
            sent : Seq(Byte),       \* sent to the client by this LIST
            left : 0..MaxLists,
            alone : BOOLEAN]        \* history: no other shell wrote during it

TypeOK ==
    /\ writable \in BOOLEAN
    /\ \/ tmp = Absent
       \/ tmp \in Seq(Byte) /\ \E shape \in Shapes : Len(tmp) <= Len(shape)
    /\ sess \in [Sessions -> Session]
    /\ \A p \in Sessions : /\ Len(sess[p].temp) <= Width
                            /\ Len(sess[p].buf) <= Block

(* Bytes a to b of the listing by prints.                                   *)
Listing(by, shape, a, b) ==
    [k \in 1..b - a + 1 |->
        [by |-> by, i |-> a - 1 + k, nl |-> shape[a - 1 + k]]]
Whole(by, shape) == Listing(by, shape, 1, Len(shape))

(* The file of an earlier run of the server may be there.                   *)
Init ==
    /\ writable \in BOOLEAN
    /\ tmp \in {Absent} \cup {Whole(<<>>, shape) : shape \in Shapes}
    /\ sess = [p \in Sessions |->
                 [pc |-> "idle", shape |-> CHOOSE shape \in Shapes : TRUE,
                  pos |-> 0, buf |-> <<>>, temp |-> <<>>, mid |-> FALSE,
                  sent |-> <<>>, left |-> MaxLists, alone |-> TRUE]]

At(p, pc) == sess[p].pc = pc
Busy(p) == sess[p].pc \notin {"idle", "dead"}
Owner(p) == <<p, sess[p].left>>

-----------------------------------------------------------------------------
(* system: the shell opens, that is empties, the file, and starts ls.       *)
System(p) ==
    /\ At(p, "idle") /\ sess[p].left > 0
    /\ \E shape \in Shapes : sess' = [q \in Sessions |->
         IF q = p
         THEN [sess[p] EXCEPT !.pc = IF writable THEN "ls" ELSE "open",
                              !.shape = shape, !.pos = 0, !.temp = <<>>,
                              !.sent = <<>>, !.left = @ - 1,
                              !.alone = \A r \in Sessions \ {p} : ~ At(r, "ls")]
         ELSE [sess[q] EXCEPT !.alone = @ /\ ~ (writable /\ Busy(q))]]
    /\ tmp' = IF writable THEN <<>> ELSE tmp

Least(a, b) == IF a <= b THEN a ELSE b

(* The file after bytes were written at offset pos.                         *)
Written(file, pos, bytes) ==
    LET end == pos + Len(bytes) IN
    [i \in 1..(IF Len(file) > end THEN Len(file) ELSE end) |->
        IF i > pos /\ i <= end THEN bytes[i - pos]
        ELSE IF i <= Len(file) THEN file[i] ELSE Hole]

(* ls writes a block, at the offset it has itself reached.                  *)
Ls(p) ==
    LET s == sess[p]
        size == Len(s.shape)
        to == Least(s.pos + Block, size)
    IN
    /\ At(p, "ls")
    /\ tmp' = Written(tmp, s.pos, Listing(Owner(p), s.shape, s.pos + 1, to))
    /\ sess' = [sess EXCEPT ![p].pos = IF to = size THEN 0 ELSE to,
                            ![p].pc  = IF to = size THEN "open" ELSE "ls"]

(* Mutant of Open: a file that is not there is waited for.                  *)
OpenWaits(p) ==
    /\ At(p, "open") /\ tmp # Absent
    /\ sess' = [sess EXCEPT ![p].pc = "loop"]
    /\ UNCHANGED tmp

(* fopen; feof of a null stream ends the process.                           *)
Open(p) ==
    /\ At(p, "open")
    /\ sess' = [sess EXCEPT ![p].pc = IF tmp = Absent THEN "dead" ELSE "loop"]
    /\ UNCHANGED tmp

(* What sprintf and send make of tempBuffer: it ends at the first null byte; *)
(* one that was never initialised is empty or anything (stood for by a      *)
(* hole).                                                                   *)
Texts(temp) ==
    IF temp = <<>> THEN {<<>>, <<Hole>>}
    ELSE {SubSeq(temp, 1, j) : j \in {j \in 0..Len(temp) :
             /\ \A i \in 1..j : temp[i] # Hole
             /\ j < Len(temp) => temp[j + 1] = Hole}}

(* Mutant of AtEof: what fgets returned is looked at.                       *)
AtEofLooked(s) == IF s.mid THEN Texts(s.temp) ELSE {<<>>}

(* What is sent when the file has ended: the part of a line fgets has got,  *)
(* or, fgets having returned null, tempBuffer as it is.                     *)
AtEof(s) == Texts(s.temp)

(* Mutant of Fetched: each block is read from the beginning.                *)
FetchedAgain(file, pos) == SubSeq(file, 1, Least(Block, Len(file)))

(* What one read of stdio brings.                                           *)
Fetched(file, pos) == SubSeq(file, pos + 1, Least(pos + Block, Len(file)))

(* A block's part of one round of the loop: fgets takes bytes up to a       *)
(* newline, or as many as it may, and reads on where the block ends before  *)
(* that; what it returns is sent.                                           *)
Fgets(p) ==
    LET s == sess[p]
        got == IF s.buf # <<>> THEN s.buf ELSE Fetched(tmp, s.pos)
    IN
    /\ At(p, "loop")
    /\ \/ /\ got = <<>>
          /\ \E text \in AtEof(s) :
               sess' = [sess EXCEPT ![p].pc = "close", ![p].mid = FALSE,
                                    ![p].sent = @ \o text]
       \/ \E k \in 1..Len(got) :
            LET line == (IF s.mid THEN s.temp ELSE <<>>) \o SubSeq(got, 1, k)
                ends == got[k].nl \/ Len(line) = Width
            IN
            /\ Len(line) <= Width
            /\ \A i \in 1..k - 1 : ~ got[i].nl
            /\ ends \/ k = Len(got)
            /\ \E text \in IF ends THEN Texts(line) ELSE {<<>>} :
                 sess' = [sess EXCEPT
                            ![p].buf = SubSeq(got, k + 1, Len(got)),
                            ![p].temp = line, ![p].mid = ~ ends,
                            ![p].sent = @ \o text,
                            ![p].pos = IF s.buf = <<>> THEN @ + Len(got) ELSE @]
    /\ UNCHANGED tmp

(* fclose, and the data connection is closed.                               *)
Close(p) ==
    /\ At(p, "close")
    /\ sess' = [sess EXCEPT ![p].pc = "idle"]
    /\ UNCHANGED tmp

List(p) == (System(p) \/ Ls(p) \/ Open(p) \/ Fgets(p) \/ Close(p)) /\ UNCHANGED writable

Next == \E p \in Sessions : List(p)

Spec == Init /\ [][Next]_vars

(* The system runs every process that is inside a LIST.                     *)
Fairness == \A p \in Sessions : WF_vars(List(p) /\ Busy(p))
FairSpec == Spec /\ Fairness

-----------------------------------------------------------------------------
(* What the last fgets of a file of ls returns begins at byte a: at a line, *)
(* or behind Width bytes of one.                                            *)
LastPiece(file, a) ==
    /\ Len(file) - a < Width
    /\ \A i \in a..Len(file) - 1 : ~ file[i].nl
    /\ \/ a = 1 \/ file[a - 1].nl
       \/ a > Width /\ \A i \in a - Width..a - 1 : ~ file[i].nl

(* A LIST during which no other shell writes, though sessions that began    *)
(* earlier may still read, sends the listing of that moment, all of it, in  *)
(* order, and what its last fgets returned twice; where tmp.txt cannot be   *)
(* written, the same of whatever listing was left there.                    *)
AloneExact == \A p \in Sessions : At(p, "close") /\ sess[p].alone =>
    /\ \E a \in 1..Len(tmp) :
         LastPiece(tmp, a) /\ sess[p].sent = tmp \o SubSeq(tmp, a, Len(tmp))
    /\ writable => tmp = Whole(Owner(p), sess[p].shape)

(* Whatever other shells do to the file meanwhile, the lines they tear and  *)
(* the holes they leave included, a LIST goes through it once: no offset of *)
(* it is sent twice or out of order, up to a repetition of what was sent    *)
(* last, and no more of them than the longest listing has.  (Not that no    *)
(* line comes twice: in the other listing it may stand further on.)         *)
Forward == \A p \in Sessions :
    LET s == sess[p].sent IN
    \E k \in 0..Len(s) :
        /\ \A i \in 1..k - 1 : s[i].i < s[i + 1].i
        /\ \E shape \in Shapes : k <= Len(shape)
        /\ Len(s) - k <= Least(k, Width)
        /\ \A i \in k + 1..Len(s) : s[i] = s[i - (Len(s) - k)]
        /\ k < Len(s) => sess[p].pc \in {"close", "idle"}

(* The loop ends, although the file may grow under it.                      *)
ListsEnd == \A p \in Sessions : Busy(p) ~> ~ Busy(p)
=============================================================================
