---------------------------- MODULE FileTransfer -----------------------------
(* One transfer in bytes: uploadFile in one process, downloadFile in the    *)
(* other (EchoFtpClient.h), over a data connection.  The receiver learns    *)
(* the size only after the sender has written everything; TCP may deliver   *)
(* the bytes in pieces of any length.                                       *)
EXTENDS Integers

CONSTANTS BUFSIZE,   \* the buffer of both sides
          MaxSize,   \* bound: the longest file
          UINT,      \* an unsigned int counts modulo UINT
          hashFlag,  \* print a mark for every BUFSIZE bytes
          MayCrash   \* either of the two processes may die

ASSUME TransferAssumption ==
    /\ BUFSIZE \in Nat \ {0}
    /\ MaxSize \in Nat
    /\ UINT \in Nat /\ MaxSize < UINT
    /\ hashFlag \in BOOLEAN
    /\ MayCrash \in BOOLEAN

VARIABLES up,        \* uploadFile: the file's length, what is left to read
          down,      \* downloadFile: written is the length of the new file
          wire,      \* bytes written to the connection and not read yet
          line,      \* how the connection stands for the receiver: open,
                     \* closed (fin), reset, or reset and reported (eof)
          back       \* and for the sender: open, the receiver gone, reset
                     \* (rst), or reset and reported by a write (eof)

vars == <<up, down, wire, line, back>>

Least(a, b) == IF a <= b THEN a ELSE b

(* Mutant of Marked: a mark when the total is a number of whole buffers.    *)
MarkedAtBuffers(numHash, total) ==
    IF hashFlag /\ total % BUFSIZE = 0 THEN numHash + 1 ELSE numHash

(* numHash after totalBytes has become total: one mark at most per call.    *)
Marked(numHash, total) ==
    IF hashFlag /\ total \div BUFSIZE > numHash THEN numHash + 1 ELSE numHash

Lengths == 0..MaxSize
Counts == 0..UINT - 1    \* the values of an unsigned int
Uploading == [pc : {"upload", "sent", "dead"}, length : Lengths,
              left : Lengths, totalBytes : Counts, numHash : Nat]
Downloading == [pc : {"wait", "download", "done", "dead"}, fileSize : Counts,
                totalBytes : Counts, numHash : Nat, written : Nat]

TypeOK ==
    /\ up \in Uploading
    /\ down \in Downloading
    /\ wire \in Nat
    /\ line \in {"open", "fin", "rst", "eof"}
    /\ back \in {"open", "gone", "rst", "eof"}

Init ==
    /\ \E n \in Lengths :
         up = [pc |-> "upload", length |-> n, left |-> n,
               totalBytes |-> 0, numHash |-> 0]
    /\ down = [pc |-> "wait", fileSize |-> 0, totalBytes |-> 0,
               numHash |-> 0, written |-> 0]
    /\ wire = 0
    /\ line = "open"
    /\ back = "open"

-----------------------------------------------------------------------------
(* fread and write one buffer; a short fread is what sets feof.  What write *)
(* returned is what is added: to a connection that was reset it returns -1  *)
(* once, and the buffer is gone.  The write after that, or after the end of *)
(* the receiver has been answered, is left to Crash: its signal kills.      *)
Upload ==
    LET n == Least(BUFSIZE, up.left)
        fails == back = "rst"
        total == IF fails THEN (up.totalBytes + UINT - 1) % UINT
                          ELSE up.totalBytes + n
    IN
    /\ up.pc = "upload" /\ back # "eof"
    /\ up' = [up EXCEPT !.pc = IF n < BUFSIZE THEN "sent" ELSE "upload",
                        !.left = @ - n,
                        !.totalBytes = total,
                        !.numHash = Marked(@, total)]
    /\ wire' = IF fails THEN wire ELSE wire + n
    /\ back' = IF fails THEN "eof" ELSE back
    /\ UNCHANGED <<down, line>>

(* The sender dies: the connection ends in order, or with a reset.          *)
Crash ==
    /\ MayCrash /\ up.pc = "upload"
    /\ up' = [up EXCEPT !.pc = "dead"]
    /\ line' \in {"fin", "rst"}
    /\ UNCHANGED <<down, wire, back>>

(* The receiver dies: of itself, or of a file that fopen could not create.  *)
ReceiverCrash ==
    /\ MayCrash /\ down.pc \in {"wait", "download"}
    /\ down' = [down EXCEPT !.pc = "dead"]
    /\ back' \in {"gone", "rst"}
    /\ UNCHANGED <<up, wire, line>>

(* The size reaches the receiver over the control connection; from a dead   *)
(* sender nothing does, and fileSize keeps whatever was in it.              *)
Announce ==
    /\ down.pc = "wait"
    /\ \E n \in Counts :
         /\ up.pc = "dead" \/ (up.pc = "sent" /\ n = up.totalBytes)
         /\ down' = [down EXCEPT !.pc = "download", !.fileSize = n]
    /\ UNCHANGED <<up, wire, line, back>>

(* Mutants of Got: the count never wraps; every read counts as a full       *)
(* buffer.                                                                  *)
GotUnwrapped(n) ==
    down' = [down EXCEPT !.totalBytes = @ + n, !.written = @ + BUFSIZE]
GotFullBuffer(n) ==
    down' = [down EXCEPT !.totalBytes = (@ + BUFSIZE) % UINT,
                         !.written = @ + BUFSIZE]

(* One round of downloadFile: read, write a WHOLE buffer to the file, count *)
(* what was read.                                                           *)
Got(n) ==
    LET total == (down.totalBytes + n) % UINT IN
    down' = [down EXCEPT !.totalBytes = total,
                         !.written = @ + BUFSIZE,
                         !.numHash = Marked(@, total)]

(* Mutant of Reading: the loop stops one byte early.                        *)
ReadingShort == down.pc = "download" /\ down.totalBytes + 1 < down.fileSize

Reading == down.pc = "download" /\ down.totalBytes < down.fileSize

Read ==
    /\ Reading
    /\ \E n \in 1..Least(BUFSIZE, wire) : Got(n) /\ wire' = wire - n
    /\ UNCHANGED <<up, line, back>>

(* read returns -1, once; readBytes is unsigned, so that it is not <= 0.    *)
ReadError ==
    /\ Reading /\ wire = 0 /\ line = "rst"
    /\ Got(UINT - 1)
    /\ line' = "eof"
    /\ UNCHANGED <<up, wire, back>>

(* Mutant of Finish: end-of-file does not end the loop.                     *)
FinishAtSize ==
    /\ down.pc = "download" /\ ~ Reading
    /\ down' = [down EXCEPT !.pc = "done"]
    /\ UNCHANGED <<up, wire, line, back>>

Finish ==
    /\ down.pc = "download"
    /\ ~ Reading \/ (wire = 0 /\ line \in {"fin", "eof"})
    /\ down' = [down EXCEPT !.pc = "done"]
    /\ UNCHANGED <<up, wire, line, back>>

Next == Upload \/ Crash \/ ReceiverCrash \/ Announce \/ Read \/ ReadError \/ Finish

Spec == Init /\ [][Next]_vars
FairSpec == Spec /\ WF_vars(Upload) /\ WF_vars(Announce)
                 /\ WF_vars(Read \/ ReadError \/ Finish)

-----------------------------------------------------------------------------
(* No byte of the file is lost or counted twice on its way: what the sender *)
(* has not read yet, what is on the wire and what the receiver has counted  *)
(* make up the file, until an error of read or write makes a count wrap.    *)
BytesConserved ==
    line # "eof" /\ back # "eof" =>
        up.length = up.left + wire + down.totalBytes

(* The progress shown is the progress made: both sides have printed as many *)
(* marks as whole buffers were moved, though one call prints one at most    *)
(* and calls move fewer bytes than a buffer.  An error breaks that.         *)
MarksMatch ==
    hashFlag =>
        /\ back # "eof" => up.numHash = up.totalBytes \div BUFSIZE
        /\ line # "eof" => down.numHash = down.totalBytes \div BUFSIZE

(* The receiver reads to the announced size and not past it; it stops short *)
(* only when the sender is dead.                                            *)
StopsAtSize ==
    up.pc # "dead" =>
        /\ down.totalBytes <= down.fileSize
        /\ down.pc = "done" => down.totalBytes = up.length

(* A download ends, though its loop takes a read error for 2^32 - 1 bytes   *)
(* and may have been told any size by nobody.                               *)
DownloadEnds == down.pc = "download" ~> down.pc \in {"done", "dead"}
=============================================================================
