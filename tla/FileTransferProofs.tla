-------------------------- MODULE FileTransferProofs -------------------------
(* What FileTransfer.tla promises, for every buffer size, every file and    *)
(* every width of unsigned int.                                             *)
EXTENDS FileTransfer, TLAPS

(* The inductive invariant.  The two totals are tied to the lengths they    *)
(* count, so that no sum before a read error reaches UINT, and the marks    *)
(* are tied to the totals.                                                  *)
Accounted ==
    /\ back # "eof" => up.length = up.left + up.totalBytes
    /\ up.pc = "sent" => up.left = 0
    /\ line # "eof" /\ back # "eof" =>
         up.totalBytes = wire + down.totalBytes
    /\ back # "open" => down.pc = "dead"
    /\ down.pc = "wait" => down.totalBytes = 0 /\ line # "eof"
    /\ down.pc \notin {"wait", "dead"} => up.pc # "upload"
    /\ up.pc # "dead" => line = "open" /\ down.totalBytes <= down.fileSize
    /\ up.pc # "dead" /\ down.pc \notin {"wait", "dead"} =>
         down.fileSize = up.length
    /\ up.pc # "dead" /\ down.pc = "done" => down.totalBytes = down.fileSize

IInv == TypeOK /\ Accounted /\ MarksMatch

-----------------------------------------------------------------------------
(* One mark per call keeps up with the buffers moved: a call that moves at  *)
(* most one buffer completes at most one.                                   *)
LEMMA MarkedKeepsUp ==
    ASSUME NEW t \in Nat, NEW n \in 0..BUFSIZE
    PROVE  hashFlag => Marked(t \div BUFSIZE, t + n) = (t + n) \div BUFSIZE
<1>1. BUFSIZE \in Nat \ {0}
  BY TransferAssumption
<1> DEFINE q == t \div BUFSIZE
           r == (t + n) \div BUFSIZE
<1>2. q \in Nat /\ r \in Nat /\ r \in {q, q + 1}
  BY <1>1, SMTT(30)
<1>3. CASE r = q
  BY <1>2, <1>3 DEF Marked
<1>4. CASE r = q + 1
  BY <1>2, <1>4 DEF Marked
<1> QED
  BY <1>2, <1>3, <1>4

(* Marks are counted in natural numbers.                                    *)
LEMMA MarkedType ==
    ASSUME NEW m \in Nat, NEW t
    PROVE  Marked(m, t) \in Nat
BY DEF Marked

(* The invariant holds before the transfer starts,                          *)
LEMMA InitInv == Init => IInv
<1> SUFFICES ASSUME Init PROVE IInv
  OBVIOUS
<1>1. PICK n \in Lengths :
        up = [pc |-> "upload", length |-> n, left |-> n,
              totalBytes |-> 0, numHash |-> 0]
  BY DEF Init
<1>2. 0 \div BUFSIZE = 0
  BY TransferAssumption
<1>3. TypeOK /\ Accounted
  BY <1>1, TransferAssumption DEF Init, TypeOK, Accounted, Uploading, Downloading, Lengths, Counts
<1>4. MarksMatch
  BY <1>1, <1>2 DEF Init, MarksMatch
<1> QED
  BY <1>3, <1>4 DEF IInv

-----------------------------------------------------------------------------
(* and every call keeps it: one step below per call.                        *)
LEMMA StepInv == IInv /\ [Next]_vars => IInv'
<1> SUFFICES ASSUME IInv, [Next]_vars PROVE IInv'
  OBVIOUS
<1> USE DEF IInv
<1>a. /\ BUFSIZE \in Nat \ {0} /\ MaxSize \in Nat /\ UINT \in Nat
      /\ MaxSize < UINT /\ hashFlag \in BOOLEAN
  BY TransferAssumption
<1>1. CASE Upload
  <2> DEFINE n == Least(BUFSIZE, up.left)
             total == IF back = "rst" THEN (up.totalBytes + UINT - 1) % UINT
                                      ELSE up.totalBytes + n
             m == Marked(up.numHash, total)
  <2>1. n \in 0..BUFSIZE /\ n \in Nat /\ n <= up.left
        /\ (n < BUFSIZE => n = up.left)
    BY <1>a DEF TypeOK, Least, Uploading, Lengths
  <2>2. /\ up' = [up EXCEPT !.pc = IF n < BUFSIZE THEN "sent" ELSE "upload",
                            !.left = @ - n, !.totalBytes = total,
                            !.numHash = m]
        /\ wire' = IF back = "rst" THEN wire ELSE wire + n
        /\ back' = IF back = "rst" THEN "eof" ELSE back
        /\ down' = down /\ line' = line /\ up.pc = "upload"
        /\ back # "eof"
    BY <1>1 DEF Upload, TypeOK, Uploading
  <2>3. down.pc \in {"wait", "dead"} /\ line = "open"
    BY <2>2 DEF TypeOK, Accounted, Uploading, Downloading, Lengths, Counts
  <2>9. up.left - n \in Lengths
    BY <1>a, <2>1 DEF TypeOK, Accounted, Uploading, Lengths, Counts
  <2>12. total \in Counts
    <3>1. CASE back = "rst"
      BY <1>a, <3>1 DEF TypeOK, Uploading, Counts
    <3>2. CASE back # "rst"
      BY <1>a, <2>1, <2>2, <3>2 DEF TypeOK, Accounted, Uploading, Lengths, Counts
    <3> QED
      BY <3>1, <3>2
  <2>4. m \in Nat
    BY MarkedType DEF TypeOK, Uploading
  <2>7. hashFlag /\ back # "rst" => m = (up.totalBytes + n) \div BUFSIZE
    BY <2>1, <2>2, MarkedKeepsUp DEF MarksMatch, TypeOK, Uploading, Downloading, Lengths, Counts
  <2>13. back # "rst" => total = up.totalBytes + n
    OBVIOUS
  <2> HIDE DEF n, m, total
  <2>10. wire' \in Nat /\ back' \in {"open", "gone", "rst", "eof"}
    BY <2>1, <2>2 DEF TypeOK
  <2>11. up' \in Uploading
    BY <2>2, <2>4, <2>9, <2>12 DEF TypeOK, Uploading
  <2>5. TypeOK'
    BY <2>2, <2>10, <2>11 DEF TypeOK
  <2>6. Accounted'
    BY <1>a, <2>1, <2>2, <2>3, <2>13 DEF TypeOK, Accounted, Uploading, Downloading, Lengths, Counts
  <2>8. MarksMatch'
    BY <2>1, <2>2, <2>7, <2>13 DEF MarksMatch, TypeOK, Uploading, Downloading, Lengths, Counts
  <2> QED
    BY <2>5, <2>6, <2>8
<1>2. CASE Crash
  <2>1. /\ up.pc = "upload" /\ up' = [up EXCEPT !.pc = "dead"]
        /\ line' \in {"fin", "rst"} /\ UNCHANGED <<down, wire, back>>
    BY <1>2 DEF Crash
  <2>2. up' \in Uploading
    BY <2>1 DEF TypeOK, Uploading
  <2>3. TypeOK'
    BY <2>1, <2>2 DEF TypeOK
  <2>4. Accounted' /\ MarksMatch'
    BY <2>1 DEF TypeOK, Accounted, MarksMatch, Uploading
  <2> QED
    BY <2>3, <2>4
<1>8. CASE ReceiverCrash
  <2>1. /\ down.pc \in {"wait", "download"}
        /\ down' = [down EXCEPT !.pc = "dead"]
        /\ back' \in {"gone", "rst"} /\ UNCHANGED <<up, wire, line>>
    BY <1>8 DEF ReceiverCrash
  <2>2. down' \in Downloading
    BY <2>1 DEF TypeOK, Downloading
  <2>3. TypeOK'
    BY <2>1, <2>2 DEF TypeOK
  <2>5. back = "open"
    BY <2>1 DEF Accounted, TypeOK
  <2>4. Accounted' /\ MarksMatch'
    BY <2>1, <2>5 DEF TypeOK, Accounted, MarksMatch, Downloading
  <2> QED
    BY <2>3, <2>4
<1>3. CASE Announce
  <2>1. PICK n \in Counts :
          /\ up.pc = "dead" \/ (up.pc = "sent" /\ n = up.totalBytes)
          /\ down' = [down EXCEPT !.pc = "download", !.fileSize = n]
    BY <1>3 DEF Announce
  <2>2. UNCHANGED <<up, wire, line, back>> /\ down.pc = "wait"
    BY <1>3 DEF Announce
  <2>6. back = "open"
    BY <2>2 DEF Accounted, TypeOK
  <2>3. TypeOK'
    BY <2>1, <2>2 DEF TypeOK, Downloading
  <2>4. Accounted'
    BY <1>a, <2>1, <2>2, <2>6 DEF TypeOK, Accounted, Uploading, Downloading, Lengths, Counts
  <2>5. MarksMatch'
    BY <2>1, <2>2 DEF TypeOK, MarksMatch, Downloading
  <2> QED
    BY <2>3, <2>4, <2>5
<1>4. CASE Read
  <2>1. PICK n \in 1..Least(BUFSIZE, wire) : Got(n) /\ wire' = wire - n
    BY <1>4 DEF Read
  <2>2. n \in 0..BUFSIZE /\ n \in Nat /\ n <= wire
    BY <1>a, <2>1 DEF TypeOK, Least, Uploading, Lengths
  <2> DEFINE tot == (down.totalBytes + n) % UINT
             m   == Marked(down.numHash, tot)
  <2>3. /\ up' = up /\ line' = line /\ back' = back /\ back = "open"
        /\ down.pc = "download"
        /\ down' = [down EXCEPT !.totalBytes = tot, !.written = @ + BUFSIZE,
                                !.numHash = m]
    BY <1>4, <2>1 DEF Read, Reading, Got, TypeOK, Downloading, Accounted
  <2>4. tot \in Counts /\ m \in Nat
    BY <1>a, <2>2, MarkedType DEF TypeOK, Uploading, Downloading, Counts
  <2>5. line # "eof" => tot = down.totalBytes + n
    BY <1>a, <2>2, <2>3 DEF TypeOK, Accounted, Uploading, Downloading, Lengths, Counts
  <2>6. hashFlag /\ line # "eof" => m = tot \div BUFSIZE
    BY <2>2, <2>5, MarkedKeepsUp DEF MarksMatch, TypeOK, Uploading, Downloading, Lengths, Counts
  <2> HIDE DEF tot, m
  <2>10. down.written + BUFSIZE \in Nat /\ wire' \in Nat
    BY <1>a, <2>1, <2>2 DEF TypeOK, Downloading
  <2>11. down' \in Downloading
    BY <2>3, <2>4, <2>10 DEF TypeOK, Downloading
  <2>7. TypeOK'
    BY <2>3, <2>10, <2>11 DEF TypeOK
  <2>8. Accounted'
    BY <1>a, <2>1, <2>2, <2>3, <2>4, <2>5 DEF TypeOK, Accounted, Uploading, Downloading, Lengths, Counts
  <2>9. MarksMatch'
    BY <2>3, <2>6 DEF MarksMatch, TypeOK, Uploading, Downloading, Lengths, Counts
  <2> QED
    BY <2>7, <2>8, <2>9
<1>5. CASE ReadError
  <2> DEFINE tot == (down.totalBytes + (UINT - 1)) % UINT
             m   == Marked(down.numHash, tot)
  <2>1. /\ up' = up /\ wire' = wire /\ line = "rst" /\ line' = "eof"
        /\ down.pc = "download" /\ back' = back
        /\ down' = [down EXCEPT !.totalBytes = tot, !.written = @ + BUFSIZE,
                                !.numHash = m]
    BY <1>5 DEF ReadError, Reading, Got, TypeOK, Downloading
  <2>2. tot \in Counts /\ m \in Nat
    BY <1>a, MarkedType DEF TypeOK, Uploading, Downloading, Counts
  <2> HIDE DEF tot, m
  <2>6. down.written + BUFSIZE \in Nat
    BY <1>a DEF TypeOK, Downloading
  <2>7. down' \in Downloading
    BY <2>1, <2>2, <2>6 DEF TypeOK, Downloading
  <2>3. TypeOK'
    BY <2>1, <2>7 DEF TypeOK
  <2>4. Accounted'
    BY <2>1 DEF TypeOK, Accounted, Uploading, Downloading, Lengths, Counts
  <2>5. MarksMatch'
    BY <2>1 DEF MarksMatch
  <2> QED
    BY <2>3, <2>4, <2>5
<1>6. CASE Finish
  <2>1. /\ down.pc = "download" /\ down' = [down EXCEPT !.pc = "done"]
        /\ UNCHANGED <<up, wire, line, back>>
        /\ \/ down.totalBytes >= down.fileSize
           \/ wire = 0 /\ line \in {"fin", "eof"}
    BY <1>6 DEF Finish, Reading, TypeOK, Downloading, Counts
  <2>2. down' \in Downloading
    BY <2>1 DEF TypeOK, Downloading
  <2>3. TypeOK'
    BY <2>1, <2>2 DEF TypeOK
  <2>4. Accounted'
    BY <1>a, <2>1 DEF TypeOK, Accounted, Uploading, Downloading, Lengths, Counts
  <2>5. MarksMatch'
    BY <2>1 DEF TypeOK, MarksMatch, Downloading
  <2> QED
    BY <2>3, <2>4, <2>5
<1>7. CASE UNCHANGED vars
  BY <1>7 DEF vars, TypeOK, Accounted, MarksMatch
<1> QED
  BY <1>1, <1>2, <1>3, <1>4, <1>5, <1>6, <1>7, <1>8 DEF Next

-----------------------------------------------------------------------------
(* The variables of uploadFile and downloadFile keep their types; the count *)
(* of an unsigned int stays below UINT.                                     *)
THEOREM TypeCorrect == Spec => []TypeOK
<1>1. IInv => TypeOK
  BY DEF IInv
<1> QED
  BY InitInv, StepInv, <1>1, PTL DEF Spec

(* No byte is lost or counted twice between fread and downloadFile's count, *)
(* however TCP cuts the stream.                                             *)
THEOREM Conservation == Spec => []BytesConserved
<1>1. IInv => BytesConserved
  BY TransferAssumption DEF IInv, TypeOK, Accounted, BytesConserved,
     Uploading, Downloading, Lengths, Counts
<1> QED
  BY InitInv, StepInv, <1>1, PTL DEF Spec

(* The marks printed are the whole buffers moved, on both sides.            *)
THEOREM Progress == Spec => []MarksMatch
<1>1. IInv => MarksMatch
  BY DEF IInv
<1> QED
  BY InitInv, StepInv, <1>1, PTL DEF Spec

(* With a live sender the receiver counts up to the file's length exactly.  *)
THEOREM SizeRespected == Spec => []StopsAtSize
<1>1. IInv => StopsAtSize
  BY TransferAssumption DEF IInv, TypeOK, Accounted, StopsAtSize,
     Uploading, Downloading, Lengths, Counts
<1> QED
  BY InitInv, StepInv, <1>1, PTL DEF Spec
=============================================================================
