---------------------------- MODULE ListTmpProofs ----------------------------
(* What ListTmp.tla promises of the listing of LIST for any number of        *)
(* sessions, shapes of listings, sizes of a block and of what fgets returns: *)
(* a LIST during which no other shell writes sends the listing it made, and  *)
(* any LIST goes through the offsets of the file once.                       *)
EXTENDS ListTmp, TLAPS

(* The inductive invariant, in four parts.                                  *)
(*                                                                          *)
(* Every byte of the file stands where its listing has it, or is null:      *)
(* every shell writes byte i of its listing at offset i, whoever emptied    *)
(* the file meanwhile.                                                      *)
Placed(file) == \A j \in 1..Len(file) : file[j] = Hole \/ file[j].i = j
After(m, bytes) == \A j \in 1..Len(bytes) : bytes[j] = Hole \/ bytes[j].i = m + j

(* How many bytes fgets has taken from stdio, and how many of them before   *)
(* the ones that were not sent yet.                                         *)
Returned(s) == s.pos - Len(s.buf)
Sent(s) == IF s.mid THEN Returned(s) - Len(s.temp) ELSE Returned(s)

Rising(bytes, m) ==
    /\ \A i \in 1..Len(bytes) - 1 : bytes[i].i < bytes[i + 1].i
    /\ \A i \in 1..Len(bytes) : bytes[i].i <= m
Passed(bytes, m) == Rising(bytes, m) /\ Len(bytes) <= m

(* What was sent ends with the text.                                        *)
EndsWith(sent, text) ==
    /\ Len(text) <= Len(sent)
    /\ \A i \in 1..Len(text) : sent[Len(sent) - Len(text) + i] = text[i]

(* A session inside the loop has sent bytes it was returned, in the order   *)
(* of the offsets they came from, the last fgets' last; what its stdio has  *)
(* read and not returned stood behind them.                                 *)
InLoop(s) ==
    /\ Len(s.buf) <= s.pos
    /\ After(Returned(s), s.buf)
    /\ \E shape \in Shapes : s.pos <= Len(shape)
    /\ Len(s.temp) <= Returned(s)
    /\ After(Returned(s) - Len(s.temp), s.temp)
    /\ Passed(s.sent, Sent(s))
    /\ s.temp = <<>> => s.sent = <<>> /\ ~ s.mid
    /\ s.temp # <<>> /\ ~ s.mid =>
         \A text \in Texts(s.temp) : EndsWith(s.sent, text)

(* What Forward says of a LIST that is read to its end.                     *)
Closing(s) == \E k \in 0..Len(s) :
    /\ \A i \in 1..k - 1 : s[i].i < s[i + 1].i
    /\ \E shape \in Shapes : k <= Len(shape)
    /\ Len(s) - k <= Least(k, Width)
    /\ \A i \in k + 1..Len(s) : s[i] = s[i - (Len(s) - k)]

Begun(s) == s.buf = <<>> /\ s.temp = <<>> /\ s.sent = <<>> /\ ~ s.mid

Ordered(s) ==
    /\ s.pc = "ls" => Begun(s) /\ s.pos < Len(s.shape)
    /\ s.pc = "open" => Begun(s) /\ s.pos = 0
    /\ s.pc = "loop" => InLoop(s)
    /\ s.pc \in {"idle", "close"} => s.buf = <<>> /\ ~ s.mid /\ Closing(s.sent)
    /\ s.pc = "dead" => Begun(s)

(* While a session reads or writes the file there is one.                   *)
File ==
    /\ tmp \in Seq(Byte)
    /\ \E shape \in Shapes : Len(tmp) <= Len(shape)
    /\ Placed(tmp)
There == \A p \in Sessions :
    /\ sess[p].pc \in {"ls", "loop", "close"} => File
    /\ sess[p].pc = "ls" => writable

(* Where the processes may not create files, what an earlier run left is    *)
(* there for good.                                                          *)
LeftAlone == ~ writable =>
    \/ tmp = Absent
    \/ \E shape \in Shapes : tmp = Whole(<<>>, shape)

(* A session during whose LIST no other shell has written: no other one is  *)
(* writing, and the file is its listing so far, then all of it, read from   *)
(* its beginning, by fgets line by line or Width bytes at a time.           *)
Begins(file, b) ==
    \/ b = 0
    \/ file[b].nl
    \/ b >= Width /\ \A i \in b - Width + 1..b : ~ file[i].nl
Through(s, file) ==
    LET r == Returned(s)
        b == r - Len(s.temp)
    IN  /\ s.pos <= Len(file) /\ Len(s.buf) <= s.pos /\ Len(s.temp) <= r
        /\ s.buf = SubSeq(file, r + 1, s.pos)
        /\ s.temp = SubSeq(file, b + 1, r)
        /\ s.sent = SubSeq(file, 1, Sent(s))
        /\ s.temp = <<>> => r = 0 /\ ~ s.mid
        /\ \A i \in b + 1..r - 1 : ~ file[i].nl
        /\ s.mid => Len(s.temp) < Width /\ ~ file[r].nl
        /\ ~ s.mid /\ s.temp # <<>> => file[r].nl \/ Len(s.temp) = Width
        /\ Len(s.temp) <= Width
        /\ Begins(file, b)
Exact(p) ==
    LET s == sess[p] IN
    /\ s.pc = "ls" => writable /\ tmp = Listing(Owner(p), s.shape, 1, s.pos)
    /\ s.pc # "ls" /\ writable => tmp = Whole(Owner(p), s.shape)
    /\ s.pc \in {"loop", "close"} =>
         \E by \in Owners, shape \in Shapes : tmp = Whole(by, shape)
    /\ s.pc = "loop" => Through(s, tmp)
    /\ s.pc = "close" => \E a \in 1..Len(tmp) :
         LastPiece(tmp, a) /\ s.sent = tmp \o SubSeq(tmp, a, Len(tmp))
Undisturbed(p) == Busy(p) /\ sess[p].alone =>
    (\A q \in Sessions \ {p} : ~ At(q, "ls")) /\ Exact(p)

LInv ==
    /\ TypeOK
    /\ tmp = Absent \/ File
    /\ \A p \in Sessions : Ordered(sess[p])
    /\ There
    /\ LeftAlone
    /\ \A p \in Sessions : Undisturbed(p)

-----------------------------------------------------------------------------
(* What ls prints is some bytes, the last of them a newline.                *)
LEMMA ShapeFacts ==
    ASSUME NEW shape \in Shapes
    PROVE  /\ shape \in Seq(BOOLEAN) /\ Len(shape) \in Nat \ {0}
           /\ shape[Len(shape)]
           /\ \A k \in 1..Len(shape) : shape[k] \in BOOLEAN
<1>1. shape \in Seq(BOOLEAN) /\ shape # <<>> /\ shape[Len(shape)]
  BY ListAssumption
<1> QED
  BY <1>1

(* Listings and parts of files.                                             *)
LEMMA ListingFacts ==
    ASSUME NEW by \in Owners, NEW shape \in Shapes, NEW a \in Nat, NEW b \in Nat,
           a <= b, b <= Len(shape)
    PROVE  /\ Listing(by, shape, a + 1, b) \in Seq(Byte)
           /\ Len(Listing(by, shape, a + 1, b)) = b - a
           /\ \A k \in 1..b - a : Listing(by, shape, a + 1, b)[k]
                = [by |-> by, i |-> a + k, nl |-> shape[a + k]]
<1> DEFINE m == b - a
           ByteAt(k) == [by |-> by, i |-> a + k, nl |-> shape[a + k]]
<1>1. m \in Nat /\ b - (a + 1) + 1 = m
  OBVIOUS
<1>2. ASSUME NEW k \in 1..m PROVE ByteAt(k) \in Byte
  <2>1. a + k \in 1..Len(shape) /\ a + k \in Nat
    BY ShapeFacts
  <2>2. shape[a + k] \in BOOLEAN
    BY <2>1, ShapeFacts
  <2> QED
    BY <2>1, <2>2 DEF Byte
<1>3. \A k \in 1..m : a + 1 - 1 + k = a + k
  OBVIOUS
<1>4. Listing(by, shape, a + 1, b) = [k \in 1..m |-> ByteAt(k)]
  BY <1>1, <1>3 DEF Listing
<1> HIDE DEF m, ByteAt
<1>5. /\ Listing(by, shape, a + 1, b) \in Seq(Byte)
      /\ Len(Listing(by, shape, a + 1, b)) = m
  BY <1>1, <1>2, <1>4
<1> QED
  BY <1>4, <1>5 DEF m, ByteAt

(* The beginning of a listing,                                              *)
LEMMA ListingFirst ==
    ASSUME NEW by \in Owners, NEW shape \in Shapes, NEW b \in Nat, b <= Len(shape)
    PROVE  /\ Listing(by, shape, 1, b) \in Seq(Byte)
           /\ Len(Listing(by, shape, 1, b)) = b
           /\ \A k \in 1..b : Listing(by, shape, 1, b)[k]
                = [by |-> by, i |-> k, nl |-> shape[k]]
<1>1. 0 + 1 = 1 /\ 0 <= b /\ b - 0 = b /\ \A k \in 1..b : 0 + k = k
  OBVIOUS
<1>2. /\ Listing(by, shape, 0 + 1, b) \in Seq(Byte)
      /\ Len(Listing(by, shape, 0 + 1, b)) = b - 0
      /\ \A k \in 1..b - 0 : Listing(by, shape, 0 + 1, b)[k]
           = [by |-> by, i |-> 0 + k, nl |-> shape[0 + k]]
  BY <1>1, ListingFacts
<1> QED
  BY <1>1, <1>2

(* and all of it.                                                           *)
LEMMA WholeFacts ==
    ASSUME NEW by \in Owners, NEW shape \in Shapes
    PROVE  /\ Whole(by, shape) \in Seq(Byte)
           /\ Len(Whole(by, shape)) = Len(shape)
           /\ Len(shape) \in Nat \ {0}
           /\ \A k \in 1..Len(shape) :
                Whole(by, shape)[k] = [by |-> by, i |-> k, nl |-> shape[k]]
           /\ \A k \in 1..Len(shape) : /\ Whole(by, shape)[k].i = k
                                       /\ Whole(by, shape)[k] # Hole
           /\ Whole(by, shape)[Len(shape)].nl
<1>1. Len(shape) \in Nat \ {0} /\ shape[Len(shape)] /\ Len(shape) <= Len(shape)
      /\ Len(shape) \in 1..Len(shape)
  BY ShapeFacts
<1>2. /\ Whole(by, shape) \in Seq(Byte)
      /\ Len(Whole(by, shape)) = Len(shape)
      /\ \A k \in 1..Len(shape) :
           Whole(by, shape)[k] = [by |-> by, i |-> k, nl |-> shape[k]]
  BY <1>1, ListingFirst DEF Whole
<1>3. ASSUME NEW k \in 1..Len(shape)
      PROVE  Whole(by, shape)[k].i = k /\ Whole(by, shape)[k].nl = shape[k]
  <2> DEFINE file == Whole(by, shape)
  <2>1. file[k] = [by |-> by, i |-> k, nl |-> shape[k]]
    BY <1>2
  <2> HIDE DEF file
  <2>2. file[k].i = k /\ file[k].nl = shape[k]
    BY <2>1
  <2> QED
    BY <2>2 DEF file
<1>4. Hole.i = 0 /\ 0 \notin 1..Len(shape)
  BY DEF Hole
<1>5. \A k \in 1..Len(shape) : Whole(by, shape)[k] # Hole
  BY <1>3, <1>4
<1>6. Whole(by, shape)[Len(shape)].nl = shape[Len(shape)]
  BY <1>1, <1>3
<1> QED
  BY <1>1, <1>2, <1>3, <1>5, <1>6

(* A hole is a byte, though nobody's.                                       *)
LEMMA HoleByte == Hole \in Byte
BY DEF Hole, Byte, Owners

(* The bytes of a session's listing are its own.                            *)
LEMMA OwnerOf == ASSUME NEW p \in Sessions, sess[p] \in Session
                 PROVE  Owner(p) \in Owners
BY DEF Owner, Owners, Session

(* Two files of the same bytes are the same.                                *)
LEMMA SameBytes ==
    ASSUME NEW f \in Seq(Byte), NEW g \in Seq(Byte), Len(f) = Len(g),
           \A i \in 1..Len(f) : f[i] = g[i]
    PROVE  f = g
OBVIOUS

(* A part of a file,                                                        *)
LEMMA PartFacts ==
    ASSUME NEW file \in Seq(Byte), NEW a \in Nat, NEW b \in Nat,
           a <= b, b <= Len(file)
    PROVE  /\ SubSeq(file, a + 1, b) \in Seq(Byte)
           /\ Len(SubSeq(file, a + 1, b)) = b - a
           /\ \A j \in 1..b - a : /\ a + j \in 1..Len(file)
                                  /\ SubSeq(file, a + 1, b)[j] = file[a + j]
<1>1. CASE a = b
  BY <1>1
<1>2. CASE a < b
  <2>1. /\ SubSeq(file, a + 1, b) \in Seq(Byte)
        /\ Len(SubSeq(file, a + 1, b)) = b - a
    BY <1>2
  <2>2. ASSUME NEW j \in 1..b - a
        PROVE  a + j \in 1..Len(file) /\ SubSeq(file, a + 1, b)[j] = file[a + j]
    BY <1>2
  <2> QED
    BY <2>1, <2>2
<1> QED
  BY <1>1, <1>2

(* its beginning,                                                           *)
LEMMA FirstFacts ==
    ASSUME NEW file \in Seq(Byte), NEW b \in Nat, b <= Len(file)
    PROVE  /\ SubSeq(file, 1, b) \in Seq(Byte)
           /\ Len(SubSeq(file, 1, b)) = b
           /\ \A j \in 1..b : SubSeq(file, 1, b)[j] = file[j]
<1>1. 0 + 1 = 1 /\ 0 <= b /\ b - 0 = b /\ \A j \in 1..b : 0 + j = j
  OBVIOUS
<1>2. /\ SubSeq(file, 0 + 1, b) \in Seq(Byte)
      /\ Len(SubSeq(file, 0 + 1, b)) = b - 0
      /\ \A j \in 1..b - 0 : SubSeq(file, 0 + 1, b)[j] = file[0 + j]
  BY <1>1, PartFacts
<1> QED
  BY <1>1, <1>2

(* and two parts that meet.                                                 *)
LEMMA CatFacts ==
    ASSUME NEW f \in Seq(Byte), NEW g \in Seq(Byte)
    PROVE  /\ f \o g \in Seq(Byte) /\ Len(f \o g) = Len(f) + Len(g)
           /\ \A i \in 1..Len(f) : (f \o g)[i] = f[i]
           /\ \A i \in 1..Len(g) : (f \o g)[Len(f) + i] = g[i]
<1>1. f \o g \in Seq(Byte) /\ Len(f \o g) = Len(f) + Len(g)
  OBVIOUS
<1>2. \A i \in 1..Len(f) + Len(g) :
        (f \o g)[i] = IF i <= Len(f) THEN f[i] ELSE g[i - Len(f)]
  OBVIOUS
<1>3. Len(f) \in Nat /\ Len(g) \in Nat
  OBVIOUS
<1>4. \A i \in 1..Len(g) : Len(f) + i \in 1..Len(f) + Len(g) /\ ~ (Len(f) + i <= Len(f))
                           /\ Len(f) + i - Len(f) = i
  BY <1>3
<1> QED
  BY <1>1, <1>2, <1>3, <1>4

(* A part goes on where another one ends.                                   *)
LEMMA PartsMeet ==
    ASSUME NEW file \in Seq(Byte), NEW a \in Nat, NEW b \in Nat, NEW c \in Nat,
           a <= b, b <= c, c <= Len(file)
    PROVE  SubSeq(file, a + 1, b) \o SubSeq(file, b + 1, c) = SubSeq(file, a + 1, c)
<1> DEFINE f == SubSeq(file, a + 1, b)
           g == SubSeq(file, b + 1, c)
           h == SubSeq(file, a + 1, c)
<1>1. /\ f \in Seq(Byte) /\ Len(f) = b - a
      /\ \A j \in 1..b - a : f[j] = file[a + j]
  BY PartFacts
<1>2. /\ g \in Seq(Byte) /\ Len(g) = c - b
      /\ \A j \in 1..c - b : g[j] = file[b + j]
  BY PartFacts
<1>3. /\ h \in Seq(Byte) /\ Len(h) = c - a
      /\ \A j \in 1..c - a : h[j] = file[a + j]
  BY PartFacts
<1> HIDE DEF f, g, h
<1>4. /\ f \o g \in Seq(Byte) /\ Len(f \o g) = Len(f) + Len(g)
      /\ \A i \in 1..Len(f) : (f \o g)[i] = f[i]
      /\ \A i \in 1..Len(g) : (f \o g)[Len(f) + i] = g[i]
  BY <1>1, <1>2, CatFacts
<1>5. Len(f \o g) = c - a
  BY <1>1, <1>2, <1>4
<1>6. ASSUME NEW i \in 1..c - a PROVE (f \o g)[i] = h[i]
  <2>1. CASE i <= b - a
    <3>1. i \in 1..b - a /\ i \in 1..c - a /\ i \in 1..Len(f)
      BY <1>1, <2>1
    <3>2. (f \o g)[i] = f[i] /\ f[i] = file[a + i] /\ h[i] = file[a + i]
      BY <1>1, <1>3, <1>4, <3>1
    <3> QED
      BY <3>2
  <2>2. CASE ~ (i <= b - a)
    <3>1. i - (b - a) \in 1..c - b /\ (b - a) + (i - (b - a)) = i
          /\ b + (i - (b - a)) = a + i
      BY <2>2
    <3>2. (f \o g)[i] = g[i - (b - a)]
      BY <1>1, <1>2, <1>4, <3>1
    <3> QED
      BY <1>2, <1>3, <3>1, <3>2
  <2> QED
    BY <2>1, <2>2
<1>7. f \o g = h
  BY <1>3, <1>4, <1>5, <1>6, SameBytes
<1> QED
  BY <1>7 DEF f, g, h

(* So it is with the beginning of a file.                                   *)
LEMMA FirstMeets ==
    ASSUME NEW file \in Seq(Byte), NEW b \in Nat, NEW c \in Nat, b <= c, c <= Len(file)
    PROVE  SubSeq(file, 1, b) \o SubSeq(file, b + 1, c) = SubSeq(file, 1, c)
<1>1. 0 + 1 = 1 /\ 0 <= b
  OBVIOUS
<1>2. SubSeq(file, 0 + 1, b) \o SubSeq(file, b + 1, c) = SubSeq(file, 0 + 1, c)
  BY <1>1, PartsMeet
<1> QED
  BY <1>1, <1>2

(* What one read of stdio brings: bytes that stand there, none past the     *)
(* end, and none only there.                                                *)
LEMMA ReadFacts ==
    ASSUME NEW file \in Seq(Byte), NEW pos \in Nat
    PROVE  /\ Fetched(file, pos) \in Seq(Byte)
           /\ Len(Fetched(file, pos)) <= Block
           /\ \A j \in 1..Len(Fetched(file, pos)) :
                /\ pos + j \in 1..Len(file)
                /\ Fetched(file, pos)[j] = file[pos + j]
           /\ Fetched(file, pos) = <<>> => Len(file) <= pos
           /\ Fetched(file, pos) # <<>> =>
                pos + Len(Fetched(file, pos)) <= Len(file)
<1> DEFINE b == Least(pos + Block, Len(file))
           read == SubSeq(file, pos + 1, b)
<1>1. Fetched(file, pos) = read /\ Len(file) \in Nat /\ Block \in Nat \ {0}
  BY ListAssumption DEF Fetched
<1>2. CASE Len(file) <= pos
  <2>1. b = Len(file)
    BY <1>1, <1>2 DEF Least
  <2>2. read = <<>>
    BY <1>2, <2>1
  <2> HIDE DEF read
  <2>3. Len(read) = 0 /\ read \in Seq(Byte)
    BY <2>2
  <2> QED
    BY <1>1, <1>2, <2>2, <2>3
<1>3. CASE pos < Len(file)
  <2>1. b \in Nat /\ pos <= b /\ b <= Len(file) /\ b - pos <= Block /\ pos < b
    BY <1>1, <1>3 DEF Least
  <2> HIDE DEF b
  <2>2. /\ read \in Seq(Byte) /\ Len(read) = b - pos
        /\ \A j \in 1..b - pos : pos + j \in 1..Len(file) /\ read[j] = file[pos + j]
    BY <2>1, PartFacts
  <2> HIDE DEF read
  <2>3. Len(read) # 0
    BY <2>1, <2>2
  <2>4. read # <<>>
    BY <2>3
  <2> QED
    BY <1>1, <2>1, <2>2, <2>4 DEF b, read
<1> QED
  BY <1>1, <1>2, <1>3

(* A file in which a shell has written bytes of its listing, at the place   *)
(* they have there.                                                         *)
LEMMA WrittenFacts ==
    ASSUME NEW file \in Seq(Byte), NEW pos \in Nat, NEW bytes \in Seq(Byte)
    PROVE  LET new == Written(file, pos, bytes)
               end == pos + Len(bytes)
           IN /\ new \in Seq(Byte)
              /\ Len(new) = IF Len(file) > end THEN Len(file) ELSE end
              /\ \A i \in 1..Len(new) :
                   new[i] = IF i > pos /\ i <= end THEN bytes[i - pos]
                            ELSE IF i <= Len(file) THEN file[i] ELSE Hole
<1> DEFINE m == IF Len(file) > pos + Len(bytes) THEN Len(file)
                                              ELSE pos + Len(bytes)
           At1(i) == IF i > pos /\ i <= pos + Len(bytes) THEN bytes[i - pos]
                     ELSE IF i <= Len(file) THEN file[i] ELSE Hole
<1>1. m \in Nat
  OBVIOUS
<1>2. \A i \in 1..m : At1(i) \in Byte
  BY HoleByte
<1>3. Written(file, pos, bytes) = [i \in 1..m |-> At1(i)]
  BY DEF Written
<1> HIDE DEF m, At1
<1>4. Written(file, pos, bytes) \in Seq(Byte) /\ Len(Written(file, pos, bytes)) = m
  BY <1>1, <1>2, <1>3
<1> QED
  BY <1>3, <1>4 DEF m, At1

(* Every byte has a number.                                                 *)
LEMMA Numbers ==
    ASSUME NEW bytes \in Seq(Byte)
    PROVE  \A i \in 1..Len(bytes) : bytes[i] \in Byte /\ bytes[i].i \in Nat
<1>1. \A i \in 1..Len(bytes) : bytes[i] \in Byte
  OBVIOUS
<1> QED
  BY <1>1 DEF Byte

(* What is sent of a piece: the bytes before the first null byte, one way   *)
(* only,                                                                    *)
LEMMA TextFacts ==
    ASSUME NEW line \in Seq(Byte), line # <<>>, NEW text \in Texts(line)
    PROVE  /\ text \in Seq(Byte) /\ Len(text) <= Len(line)
           /\ \A i \in 1..Len(text) : text[i] = line[i] /\ text[i] # Hole
           /\ \A other \in Texts(line) : other = text
           /\ (\A i \in 1..Len(line) : line[i] # Hole) => text = line
<1> DEFINE Cut(j) == /\ \A i \in 1..j : line[i] # Hole
                     /\ j < Len(line) => line[j + 1] = Hole
<1>1. \A other \in Texts(line) : \E j \in 0..Len(line) :
        other = SubSeq(line, 1, j) /\ Cut(j)
  BY DEF Texts
<1>2. PICK j \in 0..Len(line) : text = SubSeq(line, 1, j) /\ Cut(j)
  BY <1>1
<1>3. /\ text \in Seq(Byte) /\ Len(text) = j
      /\ \A i \in 1..j : text[i] = line[i]
  BY <1>2, FirstFacts
<1>4. ASSUME NEW other \in Texts(line) PROVE other = text
  <2>1. PICK n \in 0..Len(line) : other = SubSeq(line, 1, n) /\ Cut(n)
    BY <1>1
  <2>2. ~ (j < n) /\ ~ (n < j)
    BY <1>2, <2>1
  <2>3. j = n
    BY <2>2
  <2> QED
    BY <1>2, <2>1, <2>3
<1>5. ASSUME \A i \in 1..Len(line) : line[i] # Hole PROVE text = line
  <2>1. ~ (j < Len(line))
    BY <1>2, <1>5
  <2>2. j = Len(line)
    BY <2>1
  <2> QED
    BY <1>3, <2>2, SameBytes
<1> QED
  BY <1>2, <1>3, <1>4, <1>5

(* and it goes on where what was sent before ended.                         *)
LEMMA SendFacts ==
    ASSUME NEW sent \in Seq(Byte), NEW m \in Nat, Passed(sent, m),
           NEW line \in Seq(Byte), line # <<>>, After(m, line),
           NEW text \in Texts(line)
    PROVE  /\ sent \o text \in Seq(Byte)
           /\ Passed(sent \o text, m + Len(line))
           /\ \A other \in Texts(line) : EndsWith(sent \o text, other)
<1> DEFINE new == sent \o text
<1>1. /\ text \in Seq(Byte) /\ Len(text) <= Len(line)
      /\ \A i \in 1..Len(text) : text[i] = line[i] /\ text[i] # Hole
      /\ \A other \in Texts(line) : other = text
  BY TextFacts
<1>2. /\ new \in Seq(Byte) /\ Len(new) = Len(sent) + Len(text)
      /\ \A i \in 1..Len(sent) : new[i] = sent[i]
      /\ \A i \in 1..Len(text) : new[Len(sent) + i] = text[i]
  BY <1>1, CatFacts
<1> HIDE DEF new
<1>3. Len(sent) \in Nat /\ Len(text) \in Nat /\ Len(line) \in Nat
      /\ Len(sent) <= m /\ Rising(sent, m)
  BY <1>1 DEF Passed
<1>4. \A i \in 1..Len(text) : text[i].i = m + i
  <2>1. \A i \in 1..Len(text) : i \in 1..Len(line)
    BY <1>1, <1>3
  <2> QED
    BY <1>1, <2>1 DEF After
<1>5. \A i \in 1..Len(sent) : sent[i].i \in Nat /\ sent[i].i <= m
  BY Numbers DEF Passed, Rising
<1>6. ASSUME NEW i \in 1..Len(new) PROVE new[i].i <= m + Len(line)
  <2>1. CASE i <= Len(sent)
    BY <1>2, <1>3, <1>5, <2>1
  <2>2. CASE ~ (i <= Len(sent))
    <3>1. i - Len(sent) \in 1..Len(text) /\ Len(sent) + (i - Len(sent)) = i
      BY <1>2, <1>3, <2>2
    <3>2. new[i].i = m + (i - Len(sent))
      BY <1>2, <1>4, <3>1
    <3> QED
      BY <1>1, <1>3, <3>1, <3>2
  <2> QED
    BY <2>1, <2>2
<1>7. ASSUME NEW i \in 1..Len(new) - 1 PROVE new[i].i < new[i + 1].i
  <2>1. CASE i + 1 <= Len(sent)
    BY <1>2, <1>3, <2>1 DEF Rising
  <2>2. CASE i = Len(sent)
    <3>1. new[i + 1].i = m + 1
      BY <1>2, <1>3, <1>4, <2>2
    <3>2. new[i].i \in Nat /\ new[i].i <= m
      BY <1>2, <1>5, <2>2
    <3> QED
      BY <3>1, <3>2
  <2>3. CASE i > Len(sent)
    <3>1. /\ i - Len(sent) \in 1..Len(text) /\ Len(sent) + (i - Len(sent)) = i
          /\ i + 1 - Len(sent) \in 1..Len(text) /\ Len(sent) + (i + 1 - Len(sent)) = i + 1
      BY <1>2, <1>3, <2>3
    <3>2. new[i].i = m + (i - Len(sent)) /\ new[i + 1].i = m + (i + 1 - Len(sent))
      BY <1>2, <1>4, <3>1
    <3> QED
      BY <1>3, <3>2
  <2> QED
    BY <1>3, <2>1, <2>2, <2>3
<1>8. Passed(new, m + Len(line))
  BY <1>1, <1>2, <1>3, <1>6, <1>7 DEF Passed, Rising
<1>9. EndsWith(new, text)
  <2>1. Len(text) <= Len(new) /\ Len(new) - Len(text) = Len(sent)
    BY <1>2, <1>3
  <2> QED
    BY <1>2, <2>1 DEF EndsWith
<1> QED
  BY <1>1, <1>2, <1>8, <1>9 DEF new

-----------------------------------------------------------------------------
(* What holds of the file however it changes: the bytes stand in their      *)
(* places, and no more of them than the longest listing has.                *)
FileOK == (tmp = Absent \/ File) /\ LeftAlone

(* A step of a session inside a LIST concerns itself and the file only, and *)
(* the file only where its shell writes.                                    *)
LEMMA OneMoves ==
    ASSUME LInv, NEW p \in Sessions, Busy(p), UNCHANGED writable,
           NEW u \in Session, sess' = [sess EXCEPT ![p] = u],
           u.alone = sess[p].alone, Len(u.temp) <= Width, Len(u.buf) <= Block,
           Ordered(u), FileOK',
           File => File', u.pc \in {"ls", "loop", "close"} => File',
           u.pc = "ls" => writable /\ sess[p].pc = "ls",
           sess[p].pc # "ls" => tmp' = tmp,
           u.pc \notin {"idle", "dead"} /\ sess[p].alone => Exact(p)'
    PROVE  LInv'
<1>1. TypeOK
  BY DEF LInv
<1>2. sess'[p] = u /\ \A q \in Sessions \ {p} : sess'[q] = sess[q]
  BY <1>1 DEF TypeOK
<1>3. TypeOK'
  BY <1>1, <1>2 DEF TypeOK, FileOK, File
<1>4. \A q \in Sessions : Ordered(sess'[q])
  BY <1>2 DEF LInv
<1>5. There'
  BY <1>2 DEF LInv, There
<1>6. ASSUME NEW q \in Sessions, Busy(q)', sess'[q].alone
      PROVE  (\A r \in Sessions \ {q} : ~ At(r, "ls")') /\ Exact(q)'
  <2>1. CASE q = p
    <3>1. \A r \in Sessions \ {p} : ~ At(r, "ls")
      BY <1>2, <1>6, <2>1 DEF LInv, Undisturbed
    <3> QED
      BY <1>2, <1>6, <2>1, <3>1 DEF Busy, At
  <2>2. CASE q # p
    <3>1. Busy(q) /\ sess[q].alone
      BY <1>2, <1>6, <2>2 DEF Busy
    <3>2. (\A r \in Sessions \ {q} : ~ At(r, "ls")) /\ Exact(q)
      BY <3>1 DEF LInv, Undisturbed
    <3>3. sess[p].pc # "ls"
      BY <2>2, <3>2 DEF At
    <3>4. \A r \in Sessions \ {q} : ~ At(r, "ls")'
      BY <1>2, <3>2, <3>3 DEF At
    <3>5. sess'[q] = sess[q] /\ tmp' = tmp
      BY <1>2, <2>2, <3>3
    <3> QED
      BY <3>2, <3>4, <3>5 DEF Exact, Owner
  <2> QED
    BY <2>1, <2>2
<1>7. \A q \in Sessions : Undisturbed(q)'
  BY <1>6 DEF Undisturbed
<1> QED
  BY <1>3, <1>4, <1>5, <1>7 DEF LInv, FileOK

(* A step that writes nothing leaves the file as it was.                    *)
LEMMA FileStays == LInv /\ UNCHANGED <<tmp, writable>> => FileOK'
BY DEF LInv, FileOK, LeftAlone, File

(* An empty file is one.                                                    *)
LEMMA EmptyFile == <<>> \in Seq(Byte) /\ Len(<<>>) = 0 /\ Placed(<<>>)
BY DEF Placed

(* The system() of a LIST: the file is empty, or what it was.               *)
LEMMA SystemKeeps ==
    ASSUME LInv, NEW p \in Sessions, System(p), UNCHANGED writable
    PROVE  LInv'
<1> DEFINE t == sess[p]
<1>1. TypeOK
  BY DEF LInv
<1>2. PICK shape \in Shapes : sess' = [q \in Sessions |->
         IF q = p
         THEN [sess[p] EXCEPT !.pc = IF writable THEN "ls" ELSE "open",
                              !.shape = shape, !.pos = 0, !.temp = <<>>,
                              !.sent = <<>>, !.left = @ - 1,
                              !.alone = \A r \in Sessions \ {p} : ~ At(r, "ls")]
         ELSE [sess[q] EXCEPT !.alone = @ /\ ~ (writable /\ Busy(q))]]
  BY DEF System
<1>3. t.pc = "idle" /\ t.left > 0 /\ tmp' = IF writable THEN <<>> ELSE tmp
  BY DEF System, At
<1>4. t \in Session /\ Len(shape) \in Nat \ {0}
  BY <1>1, ShapeFacts DEF TypeOK
<1>5. /\ sess'[p] \in Session
      /\ sess'[p].pc = IF writable THEN "ls" ELSE "open"
      /\ sess'[p].shape = shape /\ sess'[p].pos = 0 /\ sess'[p].buf = t.buf
      /\ sess'[p].temp = <<>> /\ sess'[p].sent = <<>> /\ sess'[p].mid = t.mid
      /\ sess'[p].alone = \A r \in Sessions \ {p} : ~ At(r, "ls")
  <2>1. t.left - 1 \in 0..MaxLists
    BY <1>3, <1>4, ListAssumption DEF Session
  <2>2. PICK lone \in BOOLEAN : lone = \A r \in Sessions \ {p} : ~ At(r, "ls")
    OBVIOUS
  <2>3. PICK to \in {"ls", "open"} : to = IF writable THEN "ls" ELSE "open"
    OBVIOUS
  <2>4. PICK next \in 0..MaxLists : next = t.left - 1
    BY <2>1
  <2>5. sess'[p] = [t EXCEPT !.pc = to, !.shape = shape, !.pos = 0,
                             !.temp = <<>>, !.sent = <<>>, !.left = next,
                             !.alone = lone]
    BY <1>2, <2>2, <2>3, <2>4
  <2>6. t \in Session /\ <<>> \in Seq(Byte)
    BY <1>4
  <2> HIDE DEF t
  <2>7. [t EXCEPT !.pc = to, !.shape = shape, !.pos = 0] \in Session
    BY <2>6 DEF Session
  <2>8. ASSUME NEW v \in Session PROVE
          [v EXCEPT !.temp = <<>>, !.sent = <<>>, !.left = next] \in Session
    BY <2>6 DEF Session
  <2>9. ASSUME NEW v \in Session PROVE [v EXCEPT !.alone = lone] \in Session
    BY DEF Session
  <2>10. sess'[p] \in Session
    BY <2>5, <2>7, <2>8, <2>9
  <2>11. /\ sess'[p].pc = to /\ sess'[p].shape = shape
         /\ sess'[p].pos = 0 /\ sess'[p].buf = t.buf /\ sess'[p].temp = <<>>
         /\ sess'[p].sent = <<>> /\ sess'[p].alone = lone
         /\ sess'[p].mid = t.mid
    BY <2>5, <2>6 DEF Session
  <2> QED
    BY <2>2, <2>3, <2>10, <2>11 DEF t
<1>6. ASSUME NEW q \in Sessions \ {p} PROVE
        /\ sess'[q] \in Session
        /\ sess'[q].pc = sess[q].pc /\ sess'[q].shape = sess[q].shape
        /\ sess'[q].pos = sess[q].pos /\ sess'[q].buf = sess[q].buf
        /\ sess'[q].temp = sess[q].temp /\ sess'[q].sent = sess[q].sent
        /\ sess'[q].mid = sess[q].mid /\ sess'[q].left = sess[q].left
        /\ sess'[q].alone = (sess[q].alone /\ ~ (writable /\ Busy(q)))
  <2>1. sess[q] \in Session /\ (writable /\ Busy(q)) \in BOOLEAN
    BY <1>1 DEF TypeOK, Busy
  <2>2. sess'[q] = [sess[q] EXCEPT !.alone = @ /\ ~ (writable /\ Busy(q))]
    BY <1>2
  <2> QED
    BY <2>1, <2>2 DEF Session
<1>7. Ordered(t) /\ \A q \in Sessions : Ordered(sess[q])
  BY DEF LInv
<1>8. t.buf = <<>> /\ ~ t.mid
  BY <1>3, <1>7 DEF Ordered
<1>9. FileOK'
  <2>1. CASE writable
    <3>1. tmp' = <<>>
      BY <1>3, <2>1
    <3> QED
      BY <1>4, <2>1, <3>1, EmptyFile DEF FileOK, File, LeftAlone
  <2>2. CASE ~ writable
    <3>1. UNCHANGED tmp
      BY <1>3, <2>2
    <3> QED
      BY <3>1, FileStays
  <2> QED
    BY <1>1, <2>1, <2>2 DEF TypeOK
<1>10. TypeOK'
  <2>1. sess' \in [Sessions -> Session]
    BY <1>2, <1>5, <1>6
  <2>2. Len(sess'[p].temp) <= Width /\ Len(sess'[p].buf) <= Block
    BY <1>1, <1>5, ListAssumption DEF TypeOK
  <2>3. \A q \in Sessions : Len(sess'[q].temp) <= Width /\ Len(sess'[q].buf) <= Block
    BY <1>1, <1>6, <2>2 DEF TypeOK
  <2> QED
    BY <1>1, <1>9, <2>1, <2>3 DEF TypeOK, FileOK, File
<1>11. \A q \in Sessions : Ordered(sess'[q])
  <2>1. Ordered(sess'[p])
    BY <1>4, <1>5, <1>8 DEF Ordered, Begun
  <2>2. ASSUME NEW q \in Sessions \ {p} PROVE Ordered(sess'[q])
    BY <1>6, <1>7 DEF Ordered, Begun, InLoop, Returned, Sent
  <2> QED
    BY <2>1, <2>2
<1>12. There'
  <2>1. File => File'
    <3>1. CASE writable
      BY <1>3, <1>4, <3>1, EmptyFile DEF File
    <3>2. CASE ~ writable
      BY <1>3, <3>2 DEF File
    <3> QED
      BY <1>1, <3>1, <3>2 DEF TypeOK
  <2>2. writable => File'
    BY <1>3, <1>4, EmptyFile DEF File
  <2> QED
    BY <1>5, <1>6, <2>1, <2>2 DEF LInv, There
<1>13. ASSUME NEW q \in Sessions, Busy(q)', sess'[q].alone
       PROVE  (\A r \in Sessions \ {q} : ~ At(r, "ls")') /\ Exact(q)'
  <2>1. CASE q = p
    <3>1. \A r \in Sessions \ {q} : ~ At(r, "ls")'
      <4>1. sess'[p].alone = \A r \in Sessions \ {p} : ~ At(r, "ls")
        BY <1>5
      <4>2. sess'[p].alone
        BY <1>13, <2>1
      <4>3. \A r \in Sessions \ {p} : ~ At(r, "ls")
        BY <4>1, <4>2
      <4>4. \A r \in Sessions \ {p} : sess'[r].pc = sess[r].pc
        BY <1>6
      <4> QED
        BY <2>1, <4>3, <4>4 DEF At
    <3>2. CASE writable
      <4>1. Owner(p)' \in Owners
        BY <1>5 DEF Owner, Owners, Session
      <4>2. Listing(Owner(p)', shape, 1, 0) = <<>>
        <5>1. /\ Listing(Owner(p)', shape, 1, 0) \in Seq(Byte)
              /\ Len(Listing(Owner(p)', shape, 1, 0)) = 0
          BY <1>4, <4>1, ListingFirst
        <5> QED
          BY <5>1
      <4>3. tmp' = Listing(Owner(p)', shape, 1, 0)
        BY <1>3, <3>2, <4>2
      <4> QED
        BY <1>5, <2>1, <3>1, <3>2, <4>3 DEF Exact
    <3>3. CASE ~ writable
      BY <1>5, <2>1, <3>1, <3>3 DEF Exact
    <3> QED
      BY <1>1, <3>2, <3>3 DEF TypeOK
  <2>2. CASE q # p
    <3>1. Busy(q) /\ sess[q].alone /\ ~ writable
      BY <1>6, <1>13, <2>2 DEF Busy
    <3>2. (\A r \in Sessions \ {q} : ~ At(r, "ls")) /\ Exact(q)
      BY <3>1 DEF LInv, Undisturbed
    <3>3. tmp' = tmp /\ sess'[p].pc = "open"
      BY <1>3, <1>5, <3>1
    <3>4. \A r \in Sessions \ {q} : ~ At(r, "ls")'
      BY <1>6, <3>2, <3>3 DEF At
    <3>5. Exact(q)'
      <4>1. /\ sess'[q].pc = sess[q].pc /\ sess'[q].shape = sess[q].shape
            /\ sess'[q].pos = sess[q].pos /\ sess'[q].buf = sess[q].buf
            /\ sess'[q].temp = sess[q].temp /\ sess'[q].sent = sess[q].sent
            /\ sess'[q].mid = sess[q].mid /\ sess'[q].left = sess[q].left
        BY <1>6, <2>2
      <4>2. Through(sess[q], tmp) = Through(sess'[q], tmp')
        BY <3>3, <4>1 DEF Through, Returned, Sent
      <4> QED
        BY <3>1, <3>2, <3>3, <4>1, <4>2 DEF Exact
    <3> QED
      BY <3>4, <3>5
  <2> QED
    BY <2>1, <2>2
<1>14. \A q \in Sessions : Undisturbed(q)'
  BY <1>13 DEF Undisturbed
<1> QED
  BY <1>9, <1>10, <1>11, <1>12, <1>14 DEF LInv, FileOK

(* A shell that nobody disturbs appends to its listing.                     *)
LEMMA WrittenOn ==
    ASSUME NEW by \in Owners, NEW shape \in Shapes, NEW a \in Nat, NEW b \in Nat,
           a < b, b <= Len(shape)
    PROVE  Written(Listing(by, shape, 1, a), a, Listing(by, shape, a + 1, b))
             = Listing(by, shape, 1, b)
<1> DEFINE file == Listing(by, shape, 1, a)
           bytes == Listing(by, shape, a + 1, b)
           all == Listing(by, shape, 1, b)
           new == Written(file, a, bytes)
<1>0. a <= Len(shape) /\ a <= b
  BY ShapeFacts
<1>1. /\ file \in Seq(Byte) /\ Len(file) = a
      /\ \A k \in 1..a : file[k] = [by |-> by, i |-> k, nl |-> shape[k]]
  BY <1>0, ListingFirst
<1>2. /\ bytes \in Seq(Byte) /\ Len(bytes) = b - a
      /\ \A k \in 1..b - a :
           bytes[k] = [by |-> by, i |-> a + k, nl |-> shape[a + k]]
  BY <1>0, ListingFacts
<1>3. /\ all \in Seq(Byte) /\ Len(all) = b
      /\ \A k \in 1..b : all[k] = [by |-> by, i |-> k, nl |-> shape[k]]
  BY ListingFirst
<1> HIDE DEF file, bytes, all
<1>4. /\ new \in Seq(Byte)
      /\ Len(new) = b
      /\ \A i \in 1..b : new[i] = IF i > a THEN bytes[i - a] ELSE file[i]
  <2>1. a + Len(bytes) = b
    BY <1>2
  <2>2. /\ new \in Seq(Byte)
        /\ Len(new) = IF Len(file) > b THEN Len(file) ELSE b
        /\ \A i \in 1..Len(new) :
             new[i] = IF i > a /\ i <= b THEN bytes[i - a]
                      ELSE IF i <= Len(file) THEN file[i] ELSE Hole
    <3> HIDE DEF new
    <3>1. LET end == a + Len(bytes)
          IN  /\ new \in Seq(Byte)
              /\ Len(new) = IF Len(file) > end THEN Len(file) ELSE end
              /\ \A i \in 1..Len(new) :
                   new[i] = IF i > a /\ i <= end THEN bytes[i - a]
                            ELSE IF i <= Len(file) THEN file[i] ELSE Hole
      BY <1>1, <1>2, WrittenFacts DEF new
    <3> QED
      BY <2>1, <3>1
  <2> HIDE DEF new
  <2>3. Len(new) = b
    BY <1>1, <2>2
  <2> QED
    BY <1>1, <2>2, <2>3
<1> HIDE DEF new
<1>5. ASSUME NEW i \in 1..b PROVE new[i] = all[i]
  <2>1. CASE i > a
    <3>1. i - a \in 1..b - a /\ a + (i - a) = i
      BY <2>1
    <3> QED
      BY <1>2, <1>3, <1>4, <2>1, <3>1
  <2>2. CASE ~ (i > a)
    <3>1. i \in 1..a
      BY <2>2
    <3> QED
      BY <1>1, <1>3, <1>4, <2>2, <3>1
  <2> QED
    BY <2>1, <2>2
<1>6. new = all
  BY <1>3, <1>4, <1>5, SameBytes
<1> QED
  BY <1>6 DEF new, all, file, bytes

(* One write of ls.                                                         *)
LEMMA LsKeeps ==
    ASSUME LInv, NEW p \in Sessions, Ls(p), UNCHANGED writable
    PROVE  LInv'
<1> DEFINE t == sess[p]
           size == Len(t.shape)
           to == Least(t.pos + Block, size)
           u == [t EXCEPT !.pos = IF to = size THEN 0 ELSE to,
                          !.pc  = IF to = size THEN "open" ELSE "ls"]
           bytes == Listing(Owner(p), t.shape, t.pos + 1, to)
<1>1. TypeOK /\ t \in Session /\ t.pc = "ls"
  BY DEF LInv, TypeOK, Ls, At
<1>2. Begun(t) /\ t.pos < size /\ t.shape \in Shapes
  BY <1>1 DEF LInv, Ordered, Session
<1>3. /\ t.pos \in Nat /\ size \in Nat /\ to \in Nat
      /\ t.pos < to /\ to <= size
  <2>1. t.pos \in Nat /\ size \in Nat
    BY <1>1, <1>2, ShapeFacts DEF Session
  <2> QED
    BY <1>2, <2>1, ListAssumption DEF Least
<1>4. tmp \in Seq(Byte) /\ Placed(tmp) /\ \E shape \in Shapes : Len(tmp) <= Len(shape)
  BY <1>1 DEF LInv, There, File
<1>5. tmp' = Written(tmp, t.pos, bytes) /\ sess' = [sess EXCEPT ![p] = u]
  BY <1>1 DEF Ls, TypeOK
<1>6. Owner(p) \in Owners
  BY <1>1, OwnerOf
<1>7. /\ bytes \in Seq(Byte) /\ Len(bytes) = to - t.pos
      /\ \A k \in 1..to - t.pos : bytes[k].i = t.pos + k
  <2>1. PICK a \in Nat : a = t.pos
    BY <1>3
  <2>2. PICK b \in Nat : b = to
    BY <1>3
  <2>3. PICK by \in Owners : by = Owner(p)
    BY <1>6
  <2>4. PICK shape \in Shapes : shape = t.shape
    BY <1>2
  <2>5. bytes = Listing(by, shape, a + 1, b) /\ a <= b /\ b <= Len(shape)
    BY <1>3, <2>1, <2>2, <2>3, <2>4
  <2> HIDE DEF bytes, to, t, size
  <2>6. /\ bytes \in Seq(Byte) /\ Len(bytes) = b - a
        /\ \A k \in 1..b - a :
             bytes[k] = [by |-> by, i |-> a + k, nl |-> shape[a + k]]
    BY <2>5, ListingFacts
  <2>7. ASSUME NEW k \in 1..b - a PROVE bytes[k].i = a + k
    <3>1. bytes[k] = [by |-> by, i |-> a + k, nl |-> shape[a + k]]
      BY <2>6
    <3> QED
      BY <3>1
  <2> QED
    BY <2>1, <2>2, <2>6, <2>7
<1> DEFINE m == IF Len(tmp) > to THEN Len(tmp) ELSE to
<1>8. t.pos + Len(bytes) = to
  BY <1>3, <1>7
<1> HIDE DEF bytes, to, t, size
<1>9. /\ tmp' \in Seq(Byte)
      /\ Len(tmp') = m
      /\ \A i \in 1..m :
           tmp'[i] = IF i > t.pos /\ i <= to THEN bytes[i - t.pos]
                     ELSE IF i <= Len(tmp) THEN tmp[i] ELSE Hole
  BY <1>3, <1>4, <1>5, <1>7, <1>8, WrittenFacts
<1>10. Placed(tmp')
  <2> SUFFICES ASSUME NEW i \in 1..m PROVE tmp'[i] = Hole \/ tmp'[i].i = i
    BY <1>9 DEF Placed
  <2>1. CASE i > t.pos /\ i <= to
    <3>1. i - t.pos \in 1..to - t.pos /\ t.pos + (i - t.pos) = i
      BY <1>3, <1>4, <2>1
    <3> QED
      BY <1>7, <1>9, <2>1, <3>1
  <2>2. CASE ~ (i > t.pos /\ i <= to) /\ i <= Len(tmp)
    <3>1. tmp'[i] = tmp[i] /\ i \in 1..Len(tmp)
      BY <1>4, <1>9, <2>2
    <3> QED
      BY <1>4, <3>1 DEF Placed
  <2>3. CASE ~ (i > t.pos /\ i <= to) /\ ~ (i <= Len(tmp))
    BY <1>9, <2>3
  <2> QED
    BY <2>1, <2>2, <2>3
<1>11. \E shape \in Shapes : Len(tmp') <= Len(shape)
  <2>1. CASE Len(tmp) > to
    BY <1>4, <1>9, <2>1
  <2>2. CASE ~ (Len(tmp) > to)
    BY <1>2, <1>3, <1>9, <2>2 DEF size
  <2> QED
    BY <2>1, <2>2
<1>12. File'
  BY <1>9, <1>10, <1>11 DEF File
<1>13. u \in Session /\ u.alone = t.alone /\ u.buf = t.buf /\ u.temp = t.temp
       /\ u.sent = t.sent /\ u.shape = t.shape /\ u.left = t.left
       /\ u.mid = t.mid
       /\ u.pos = (IF to = size THEN 0 ELSE to)
       /\ u.pc = (IF to = size THEN "open" ELSE "ls")
  BY <1>1, <1>3 DEF Session
<1>14. Len(u.temp) <= Width /\ Len(u.buf) <= Block
  BY <1>1, <1>13 DEF TypeOK, t
<1>15. Ordered(u)
  BY <1>2, <1>3, <1>13 DEF Ordered, Begun, size
<1>16. sess'[p] = u
  BY <1>1, <1>5 DEF TypeOK
<1>17. ASSUME t.alone PROVE Exact(p)'
  <2>1. writable /\ tmp = Listing(Owner(p), t.shape, 1, t.pos)
    BY <1>1, <1>17 DEF LInv, Undisturbed, Exact, Busy, t
  <2>2. tmp' = Listing(Owner(p), t.shape, 1, to)
    <3>1. PICK a \in Nat : a = t.pos
      BY <1>3
    <3>2. PICK b \in Nat : b = to
      BY <1>3
    <3>3. PICK by \in Owners : by = Owner(p)
      BY <1>6
    <3>4. PICK shape \in Shapes : shape = t.shape
      BY <1>2
    <3>5. /\ bytes = Listing(by, shape, a + 1, b) /\ tmp = Listing(by, shape, 1, a)
          /\ a < b /\ b <= Len(shape)
      BY <1>3, <2>1, <3>1, <3>2, <3>3, <3>4 DEF bytes, size
    <3>6. tmp' = Written(Listing(by, shape, 1, a), a, Listing(by, shape, a + 1, b))
      BY <1>5, <3>1, <3>5
    <3>7. tmp' = Listing(by, shape, 1, b)
      BY <3>5, <3>6, WrittenOn
    <3> QED
      BY <3>2, <3>3, <3>4, <3>7
  <2>3. Owner(p)' = Owner(p)
    BY <1>13, <1>16 DEF Owner, t
  <2>4. to = size => tmp' = Whole(Owner(p), t.shape)
    BY <2>2 DEF Whole, size
  <2> QED
    BY <1>2, <1>13, <1>16, <2>1, <2>2, <2>3, <2>4 DEF Exact
<1>18. writable
  BY <1>1 DEF LInv, There, t
<1>19. FileOK'
  BY <1>12, <1>18 DEF FileOK, LeftAlone
<1> QED
  BY <1>1, <1>5, <1>12, <1>13, <1>14, <1>15, <1>17, <1>18, <1>19,
     OneMoves DEF Busy, t

(* fopen, of the file that is there or of none.                             *)
LEMMA OpenKeeps ==
    ASSUME LInv, NEW p \in Sessions, Open(p), UNCHANGED writable
    PROVE  LInv'
<1> DEFINE t == sess[p]
           pc == IF tmp = Absent THEN "dead" ELSE "loop"
<1>1. TypeOK /\ t \in Session /\ t.pc = "open" /\ UNCHANGED tmp
  BY DEF LInv, TypeOK, Open, At
<1>2. Begun(t) /\ t.pos = 0
  BY <1>1 DEF LInv, Ordered
<1>3. sess' = [sess EXCEPT ![p].pc = pc]
  BY DEF Open
<1>4. PICK u \in Session : u = [t EXCEPT !.pc = pc]
  BY <1>1 DEF Session
<1>5. /\ u.alone = t.alone /\ u.buf = <<>> /\ u.temp = <<>> /\ u.sent = <<>>
      /\ u.shape = t.shape /\ u.left = t.left /\ u.pos = 0 /\ ~ u.mid
      /\ u.pc = (IF tmp = Absent THEN "dead" ELSE "loop")
      /\ sess' = [sess EXCEPT ![p] = u] /\ sess'[p] = u
  BY <1>1, <1>2, <1>3, <1>4 DEF Session, TypeOK, Begun
<1>6. Len(u.temp) <= Width /\ Len(u.buf) <= Block
  BY <1>5, ListAssumption
<1>7. Returned(u) = 0 /\ Sent(u) = 0 /\ Returned(u) - Len(u.temp) = 0
  <2>1. u.pos = 0 /\ Len(u.buf) = 0 /\ Len(u.temp) = 0 /\ ~ u.mid
    BY <1>5
  <2> QED
    BY <2>1 DEF Returned, Sent
<1>8. Ordered(u)
  <2>1. CASE tmp = Absent
    BY <1>5, <2>1 DEF Ordered, Begun
  <2>2. CASE tmp # Absent
    <3>1. PICK shape \in Shapes : TRUE
      BY ListAssumption
    <3>2. 0 <= Len(shape)
      BY ShapeFacts
    <3>3. Passed(<<>>, 0) /\ After(0, <<>>) /\ Len(<<>>) = 0
      BY DEF Passed, Rising, After
    <3>5. InLoop(u)
      BY <1>5, <1>7, <3>2, <3>3 DEF InLoop
    <3> QED
      BY <1>5, <2>2, <3>5 DEF Ordered
  <2> QED
    BY <2>1, <2>2
<1>9. ASSUME u.pc \notin {"idle", "dead"}, t.alone PROVE Exact(p)'
  <2>1. tmp # Absent /\ u.pc = "loop"
    BY <1>5, <1>9
  <2>2. writable => tmp = Whole(Owner(p), t.shape)
    BY <1>1, <1>9 DEF LInv, Undisturbed, Exact, Busy
  <2>3. \E by \in Owners, shape \in Shapes : tmp = Whole(by, shape)
    <3>1. Owner(p) \in Owners /\ <<>> \in Owners /\ t.shape \in Shapes
      BY <1>1, OwnerOf DEF Owners, Session
    <3> QED
      BY <2>1, <2>2, <3>1 DEF LInv, LeftAlone
  <2>4. Through(u, tmp)
    <3>1. tmp \in Seq(Byte) /\ Len(tmp) \in Nat
      BY <2>1 DEF LInv, File
    <3>2. SubSeq(tmp, 1, 0) = <<>> /\ SubSeq(tmp, 0 + 1, 0) = <<>>
      BY <3>1
    <3>3. Begins(tmp, 0) /\ Len(<<>>) = 0 /\ 1..0 - 1 = {} /\ 0 + 1..0 - 1 = {}
      BY DEF Begins
    <3> QED
      BY <1>5, <1>6, <1>7, <3>1, <3>2, <3>3 DEF Through
  <2>5. Owner(p)' = Owner(p)
    BY <1>5 DEF Owner
  <2> QED
    BY <1>1, <1>5, <2>1, <2>2, <2>3, <2>4, <2>5 DEF Exact
<1>10. FileOK' /\ (File => File') /\ (tmp # Absent => File)
  BY <1>1, FileStays DEF LInv, File
<1>11. /\ u.pc \in {"ls", "loop", "close"} => File'
       /\ u.pc # "ls" /\ t.pc # "ls" /\ Busy(p)
  BY <1>1, <1>5, <1>10 DEF Busy
<1> QED
  BY <1>1, <1>5, <1>6, <1>8, <1>9, <1>10, <1>11, OneMoves

(* fclose.                                                                  *)
LEMMA CloseKeeps ==
    ASSUME LInv, NEW p \in Sessions, Close(p), UNCHANGED writable
    PROVE  LInv'
<1> DEFINE t == sess[p]
           u == [t EXCEPT !.pc = "idle"]
<1>1. TypeOK /\ t \in Session /\ t.pc = "close" /\ UNCHANGED tmp
  BY DEF LInv, TypeOK, Close, At
<1>2. sess' = [sess EXCEPT ![p] = u]
  BY <1>1 DEF Close, TypeOK
<1>3. u \in Session /\ u.alone = t.alone /\ u.buf = t.buf /\ u.temp = t.temp
      /\ u.sent = t.sent /\ u.mid = t.mid /\ u.pc = "idle"
  BY <1>1 DEF Session
<1>4. Len(u.temp) <= Width /\ Len(u.buf) <= Block
  BY <1>1, <1>3 DEF TypeOK
<1>5. Ordered(u)
  BY <1>1, <1>3 DEF LInv, Ordered
<1>6. FileOK' /\ (File => File')
  BY <1>1, FileStays DEF LInv, File
<1> QED
  BY <1>1, <1>2, <1>3, <1>4, <1>5, <1>6, OneMoves DEF Busy

(* What fgets finds: the rest of the block stdio has, or the next block,    *)
(* wherever in the file it is by now.                                       *)
More(s) == IF s.buf # <<>> THEN s.buf ELSE Fetched(tmp, s.pos)
Then(s) == IF s.buf = <<>> THEN s.pos + Len(More(s)) ELSE s.pos

(* These are the bytes that stand behind the last one returned.             *)
LEMMA MoreFacts ==
    ASSUME File, NEW s \in Session, InLoop(s), Len(s.buf) <= Block
    PROVE  /\ Returned(s) \in Nat /\ Then(s) \in Nat
           /\ More(s) \in Seq(Byte) /\ Len(More(s)) <= Block
           /\ Then(s) - Len(More(s)) = Returned(s)
           /\ After(Returned(s), More(s))
           /\ \E shape \in Shapes : Then(s) <= Len(shape)
           /\ More(s) = <<>> => s.buf = <<>> /\ Len(tmp) <= s.pos
<1>1. s.pos \in Nat /\ s.buf \in Seq(Byte) /\ Len(s.buf) <= s.pos
  BY DEF Session, InLoop
<1>2. Returned(s) \in Nat
  BY <1>1 DEF Returned
<1>3. CASE s.buf # <<>>
  BY <1>1, <1>2, <1>3 DEF InLoop, More, Then, Returned
<1>4. CASE s.buf = <<>>
  <2>1. tmp \in Seq(Byte) /\ Placed(tmp)
    BY DEF File
  <2>2. Returned(s) = s.pos
    BY <1>1, <1>4 DEF Returned
  <2>3. More(s) = Fetched(tmp, s.pos)
    BY <1>4 DEF More
  <2>4. /\ More(s) \in Seq(Byte)
        /\ Len(More(s)) <= Block
        /\ \A j \in 1..Len(More(s)) :
             s.pos + j \in 1..Len(tmp) /\ More(s)[j] = tmp[s.pos + j]
        /\ More(s) = <<>> => Len(tmp) <= s.pos
        /\ More(s) # <<>> => s.pos + Len(More(s)) <= Len(tmp)
    BY <1>1, <2>1, <2>3, ReadFacts
  <2>5. Then(s) = s.pos + Len(More(s))
    BY <1>4 DEF Then
  <2>6. After(s.pos, More(s))
    BY <2>1, <2>4 DEF Placed, After
  <2>7. \E shape \in Shapes : Then(s) <= Len(shape)
    <3>1. CASE More(s) = <<>>
      BY <1>1, <2>5, <3>1 DEF InLoop
    <3>2. CASE More(s) # <<>>
      <4>1. PICK shape \in Shapes : Len(tmp) <= Len(shape)
        BY DEF File
      <4>2. Len(shape) \in Nat
        BY ShapeFacts
      <4>3. Len(More(s)) \in Nat /\ Len(tmp) \in Nat
        BY <2>1, <2>4
      <4> QED
        BY <1>1, <2>4, <2>5, <3>2, <4>1, <4>2, <4>3
    <3> QED
      BY <3>1, <3>2
  <2>8. Then(s) \in Nat /\ Then(s) - Len(More(s)) = Returned(s)
    BY <1>1, <2>2, <2>4, <2>5
  <2> QED
    BY <1>2, <1>4, <2>2, <2>4, <2>6, <2>7, <2>8
<1> QED
  BY <1>3, <1>4

(* A whole file, read from its beginning while nobody writes it.            *)
LEMMA MoreThrough ==
    ASSUME tmp \in Seq(Byte), NEW s \in Session, Through(s, tmp)
    PROVE  /\ Then(s) <= Len(tmp)
           /\ \A j \in 1..Len(More(s)) : /\ Returned(s) + j \in 1..Len(tmp)
                                         /\ More(s)[j] = tmp[Returned(s) + j]
           /\ More(s) = <<>> => Returned(s) = Len(tmp)
<1>1. s.pos \in Nat /\ s.buf \in Seq(Byte) /\ Len(s.buf) <= s.pos
      /\ s.pos <= Len(tmp)
  BY DEF Session, Through
<1>2. Returned(s) \in Nat /\ Returned(s) + Len(s.buf) = s.pos
  BY <1>1 DEF Returned
<1>3. CASE s.buf # <<>>
  <2>1. s.buf = SubSeq(tmp, Returned(s) + 1, s.pos)
    BY DEF Through
  <2>2. \A j \in 1..Len(s.buf) : /\ Returned(s) + j \in 1..Len(tmp)
                                 /\ s.buf[j] = tmp[Returned(s) + j]
    <3>1. PICK r \in Nat : r = Returned(s)
      BY <1>2
    <3>2. s.buf = SubSeq(tmp, r + 1, s.pos) /\ r <= s.pos /\ s.pos - r = Len(s.buf)
      BY <1>1, <1>2, <2>1, <3>1
    <3>3. \A j \in 1..s.pos - r : /\ r + j \in 1..Len(tmp)
                                 /\ SubSeq(tmp, r + 1, s.pos)[j] = tmp[r + j]
      BY <1>1, <3>2, PartFacts
    <3> QED
      BY <3>1, <3>2, <3>3
  <2> QED
    BY <1>1, <1>3, <2>2 DEF More, Then
<1>4. CASE s.buf = <<>>
  <2>1. Returned(s) = s.pos
    BY <1>2, <1>4
  <2>2. More(s) = Fetched(tmp, s.pos) /\ Then(s) = s.pos + Len(More(s))
    BY <1>4 DEF More, Then
  <2>3. /\ More(s) \in Seq(Byte)
        /\ \A j \in 1..Len(More(s)) :
             s.pos + j \in 1..Len(tmp) /\ More(s)[j] = tmp[s.pos + j]
        /\ More(s) = <<>> => Len(tmp) <= s.pos
        /\ More(s) # <<>> => s.pos + Len(More(s)) <= Len(tmp)
    BY <1>1, <2>2, ReadFacts
  <2>4. CASE More(s) = <<>>
    <3>1. Len(More(s)) = 0
      BY <2>4
    <3>2. Then(s) = s.pos
      BY <1>1, <2>2, <3>1
    <3> QED
      BY <1>1, <2>1, <2>3, <2>4, <3>1, <3>2
  <2>5. CASE More(s) # <<>>
    BY <2>1, <2>2, <2>3, <2>5
  <2> QED
    BY <2>4, <2>5
<1> QED
  BY <1>3, <1>4

(* A line so far: what fgets had of it before, and some bytes more.         *)
Grown(s, more, k) == (IF s.mid THEN s.temp ELSE <<>>) \o SubSeq(more, 1, k)

(* Its bytes stand behind those that were sent.                             *)
LEMMA GrownFacts ==
    ASSUME NEW s \in Session, InLoop(s), NEW more \in Seq(Byte),
           After(Returned(s), more), NEW k \in 1..Len(more)
    PROVE  LET line == Grown(s, more, k)
           IN /\ line \in Seq(Byte) /\ line # <<>>
              /\ Sent(s) \in Nat /\ Returned(s) \in Nat
              /\ Sent(s) + Len(line) = Returned(s) + k
              /\ After(Sent(s), line)
<1> DEFINE had == IF s.mid THEN s.temp ELSE <<>>
           new == SubSeq(more, 1, k)
           line == Grown(s, more, k)
<1>1. /\ s.pos \in Nat /\ s.buf \in Seq(Byte) /\ Len(s.buf) <= s.pos
      /\ s.temp \in Seq(Byte) /\ Len(s.temp) <= Returned(s)
      /\ After(Returned(s) - Len(s.temp), s.temp)
      /\ s.mid \in BOOLEAN
  BY DEF Session, InLoop
<1>2. Returned(s) \in Nat
  BY <1>1 DEF Returned
<1>3. /\ had \in Seq(Byte) /\ Sent(s) \in Nat
      /\ Sent(s) + Len(had) = Returned(s)
      /\ After(Sent(s), had)
  <2>1. CASE s.mid
    <3>1. had = s.temp /\ Sent(s) = Returned(s) - Len(s.temp)
      BY <2>1 DEF Sent
    <3>2. Len(s.temp) \in Nat
      BY <1>1
    <3> HIDE DEF had
    <3> QED
      BY <1>1, <1>2, <3>1, <3>2
  <2>2. CASE ~ s.mid
    <3>1. had = <<>> /\ Sent(s) = Returned(s)
      BY <2>2 DEF Sent
    <3>2. Len(<<>>) = 0 /\ <<>> \in Seq(Byte) /\ After(Sent(s), <<>>)
      BY DEF After
    <3> HIDE DEF had
    <3> QED
      BY <1>2, <3>1, <3>2
  <2> QED
    BY <1>1, <2>1, <2>2
<1>4. /\ new \in Seq(Byte) /\ Len(new) = k
      /\ \A j \in 1..k : new[j] = more[j]
  BY FirstFacts
<1>5. line = had \o new
  BY DEF Grown
<1> HIDE DEF had, new, line
<1>6. /\ line \in Seq(Byte) /\ Len(line) = Len(had) + Len(new)
      /\ \A i \in 1..Len(had) : line[i] = had[i]
      /\ \A i \in 1..Len(new) : line[Len(had) + i] = new[i]
  BY <1>3, <1>4, <1>5, CatFacts
<1>7. Len(had) \in Nat /\ k \in Nat /\ k > 0 /\ Len(line) # 0
      /\ Sent(s) + Len(line) = Returned(s) + k
  BY <1>2, <1>3, <1>4, <1>6
<1>8. ASSUME NEW j \in 1..Len(line)
      PROVE  line[j] = Hole \/ line[j].i = Sent(s) + j
  <2>1. CASE j <= Len(had)
    <3>1. j \in 1..Len(had)
      BY <1>7, <2>1
    <3>2. line[j] = had[j]
      BY <1>6, <3>1
    <3> QED
      BY <1>3, <3>1, <3>2 DEF After
  <2>2. CASE ~ (j <= Len(had))
    <3>1. j - Len(had) \in 1..k /\ Len(had) + (j - Len(had)) = j
          /\ j - Len(had) \in 1..Len(new) /\ j - Len(had) \in 1..Len(more)
          /\ Returned(s) + (j - Len(had)) = Sent(s) + j
      BY <1>2, <1>3, <1>4, <1>6, <1>7, <2>2
    <3>2. line[j] = more[j - Len(had)]
      BY <1>4, <1>6, <3>1
    <3>3. \/ more[j - Len(had)] = Hole
          \/ more[j - Len(had)].i = Returned(s) + (j - Len(had))
      BY <3>1 DEF After
    <3> QED
      BY <3>1, <3>2, <3>3
  <2> QED
    BY <2>1, <2>2
<1>9. After(Sent(s), line)
  BY <1>8 DEF After
<1>10. line # <<>>
  BY <1>7
<1> QED
  BY <1>2, <1>3, <1>6, <1>7, <1>9, <1>10 DEF line

(* What the loop has sent when it ends.                                     *)
LEMMA ClosingFacts ==
    ASSUME NEW s \in Session, InLoop(s), Len(s.temp) <= Width,
           NEW text \in Texts(s.temp)
    PROVE  s.sent \o text \in Seq(Byte) /\ Closing(s.sent \o text)
<1> DEFINE new == s.sent \o text
<1>1. /\ s.sent \in Seq(Byte) /\ s.temp \in Seq(Byte)
      /\ s.pos \in Nat /\ s.buf \in Seq(Byte) /\ s.mid \in BOOLEAN
  BY DEF Session
<1>2. Returned(s) \in Nat /\ Returned(s) <= s.pos /\ Len(s.temp) <= Returned(s)
      /\ Passed(s.sent, Sent(s)) /\ After(Returned(s) - Len(s.temp), s.temp)
  BY <1>1 DEF InLoop, Returned
<1>3. PICK shape \in Shapes : s.pos <= Len(shape)
  BY DEF InLoop
<1>4. Len(shape) \in Nat \ {0} /\ Returned(s) <= Len(shape) /\ Width \in Nat \ {0}
      /\ Len(s.sent) \in Nat /\ Len(s.temp) \in Nat
  BY <1>1, <1>2, <1>3, ShapeFacts, ListAssumption
<1>5. CASE s.temp # <<>> /\ s.mid
  <2>1. Sent(s) = Returned(s) - Len(s.temp) /\ Sent(s) \in Nat
        /\ Sent(s) + Len(s.temp) = Returned(s)
    BY <1>2, <1>4, <1>5 DEF Sent
  <2>2. PICK m \in Nat : m = Sent(s)
    BY <2>1
  <2>3. PICK line \in Seq(Byte) : line = s.temp
    BY <1>1
  <2>4. PICK sent \in Seq(Byte) : sent = s.sent
    BY <1>1
  <2>5. /\ Passed(sent, m) /\ line # <<>> /\ After(m, line) /\ text \in Texts(line)
        /\ m + Len(line) = Returned(s)
    BY <1>2, <1>5, <2>1, <2>2, <2>3, <2>4
  <2>6. sent \o text \in Seq(Byte) /\ Passed(sent \o text, m + Len(line))
    BY <2>5, SendFacts
  <2>7. new \in Seq(Byte) /\ Passed(new, Returned(s))
    BY <2>4, <2>5, <2>6
  <2> HIDE DEF new
  <2>8. /\ Len(new) \in 0..Len(new) /\ Len(new) <= Len(shape)
        /\ Len(new) - Len(new) = 0 /\ Len(new) + 1..Len(new) = {}
        /\ 0 <= Least(Len(new), Width)
    BY <1>2, <1>4, <2>7 DEF Passed, Least
  <2>9. \A i \in 1..Len(new) - 1 : new[i].i < new[i + 1].i
    BY <2>7 DEF Passed, Rising
  <2>10. Closing(new)
    BY <2>8, <2>9 DEF Closing
  <2> QED
    BY <2>7, <2>10 DEF new
<1>6. CASE s.temp = <<>>
  <2>1. s.sent = <<>> /\ text \in {<<>>, <<Hole>>}
    BY <1>6 DEF InLoop, Texts
  <2>2. new = text
    BY <2>1, HoleByte
  <2>3. text \in Seq(Byte) /\ Len(text) \in {0, 1}
    <3>1. <<>> \in Seq(Byte) /\ Len(<<>>) = 0
      OBVIOUS
    <3>2. <<Hole>> \in Seq(Byte) /\ Len(<<Hole>>) = 1
      BY HoleByte
    <3> QED
      BY <2>1, <3>1, <3>2
  <2> HIDE DEF new
  <2>4. /\ Len(new) \in 0..Len(new) /\ Len(new) <= Len(shape)
        /\ Len(new) - Len(new) = 0 /\ Len(new) + 1..Len(new) = {}
        /\ 0 <= Least(Len(new), Width) /\ 1..Len(new) - 1 = {}
    BY <1>4, <2>2, <2>3 DEF Least
  <2>5. Closing(new)
    BY <2>4 DEF Closing
  <2> QED
    BY <2>2, <2>3, <2>5 DEF new
<1>7. CASE s.temp # <<>> /\ ~ s.mid
  <2>1. EndsWith(s.sent, text)
    BY <1>7 DEF InLoop
  <2>2. PICK line \in Seq(Byte) : line = s.temp
    BY <1>1
  <2>3. line # <<>> /\ text \in Texts(line) /\ Len(line) <= Width
    BY <1>7, <2>2
  <2>4. text \in Seq(Byte) /\ Len(text) <= Len(line)
    BY <2>3, TextFacts
  <2>5. Len(text) \in Nat /\ Len(text) <= Width /\ Len(text) <= Len(s.sent)
    BY <1>4, <2>1, <2>3, <2>4 DEF EndsWith
  <2>6. PICK sent \in Seq(Byte) : sent = s.sent
    BY <1>1
  <2> DEFINE k == Len(sent)
  <2>7. /\ sent \o text \in Seq(Byte) /\ Len(sent \o text) = k + Len(text)
        /\ \A i \in 1..k : (sent \o text)[i] = sent[i]
        /\ \A i \in 1..Len(text) : (sent \o text)[k + i] = text[i]
    BY <2>4, CatFacts
  <2>8. new = sent \o text
    BY <2>6
  <2> HIDE DEF new
  <2>9. Sent(s) = Returned(s)
    BY <1>7 DEF Sent
  <2>10. k \in Nat /\ k <= Returned(s) /\ Rising(sent, Returned(s))
    BY <1>2, <2>6, <2>9 DEF Passed
  <2>11. /\ k \in 0..Len(new) /\ k <= Len(shape) /\ Len(new) - k = Len(text)
         /\ Len(text) <= Least(k, Width)
    BY <1>2, <1>4, <2>5, <2>6, <2>7, <2>8, <2>10 DEF Least
  <2>12. ASSUME NEW i \in 1..k - 1 PROVE new[i].i < new[i + 1].i
    <3>1. i \in 1..k /\ i + 1 \in 1..k
      BY <2>10
    <3>2. new[i] = sent[i] /\ new[i + 1] = sent[i + 1]
      BY <2>7, <2>8, <3>1
    <3> QED
      BY <2>10, <3>2 DEF Rising
  <2>13. ASSUME NEW i \in k + 1..Len(new) PROVE new[i] = new[i - (Len(new) - k)]
    <3>1. /\ i - k \in 1..Len(text) /\ k + (i - k) = i
          /\ i - Len(text) \in 1..k /\ k - Len(text) + (i - k) = i - Len(text)
      BY <2>5, <2>6, <2>10, <2>11
    <3>2. new[i] = text[i - k] /\ new[i - Len(text)] = sent[i - Len(text)]
      BY <2>7, <2>8, <3>1
    <3>3. sent[k - Len(text) + (i - k)] = text[i - k]
      BY <2>1, <2>6, <3>1 DEF EndsWith
    <3> QED
      BY <2>11, <3>1, <3>2, <3>3
  <2>14. Closing(new)
    <3> HIDE DEF k
    <3>1. Len(new) - k <= Least(k, Width)
      BY <2>11
    <3> QED
      BY <2>11, <2>12, <2>13, <3>1 DEF Closing
  <2> QED
    BY <2>7, <2>8, <2>14 DEF new
<1> QED
  BY <1>1, <1>5, <1>6, <1>7

(* What fgets returned last of a whole file, and that nothing of it is a    *)
(* hole.                                                                    *)
LEMMA ThroughEnds ==
    ASSUME NEW by \in Owners, NEW shape \in Shapes, NEW file, file = Whole(by, shape),
           NEW s \in Session, Through(s, file), Returned(s) = Len(file)
    PROVE  /\ s.sent = file
           /\ \A text \in Texts(s.temp) :
                \E a \in 1..Len(file) : /\ LastPiece(file, a)
                                        /\ text = SubSeq(file, a, Len(file))
<1> DEFINE n == Len(file)
           b == n - Len(s.temp)
<1>1. /\ file \in Seq(Byte) /\ n \in Nat \ {0} /\ file[n].nl
      /\ \A k \in 1..n : file[k] # Hole
  BY WholeFacts
<1>2. s.temp \in Seq(Byte) /\ Len(s.temp) \in Nat /\ s.mid \in BOOLEAN
  BY DEF Session
<1>3. /\ Len(s.temp) <= n /\ Len(s.temp) <= Width /\ Width \in Nat \ {0}
      /\ s.temp = SubSeq(file, b + 1, n) /\ Begins(file, b)
      /\ \A i \in b + 1..n - 1 : ~ file[i].nl
      /\ s.temp = <<>> => n = 0
      /\ s.mid => ~ file[n].nl
      /\ s.sent = SubSeq(file, 1, Sent(s))
  BY ListAssumption DEF Through
<1>4. ~ s.mid /\ Sent(s) = n
  BY <1>1, <1>2, <1>3 DEF Sent
<1>5. s.sent = file
  <2>1. s.sent = SubSeq(file, 1, n)
    BY <1>3, <1>4
  <2> QED
    BY <1>1, <2>1
<1>6. s.temp # <<>> /\ Len(s.temp) # 0
  BY <1>1, <1>2, <1>3
<1>7. b \in Nat /\ b + 1 \in 1..n /\ b < n /\ n - b = Len(s.temp)
  BY <1>1, <1>2, <1>3, <1>6
<1> HIDE DEF b, n
<1>8. ASSUME NEW text \in Texts(s.temp) PROVE text = s.temp
  <2>1. PICK line \in Seq(Byte) : line = s.temp
    BY <1>2
  <2>2. ASSUME NEW i \in 1..Len(line) PROVE line[i] # Hole
    <3>1. /\ b <= n /\ n <= Len(file) /\ n \in Nat /\ i \in 1..n - b
      BY <1>1, <1>7, <2>1 DEF n
    <3>2. b + i \in 1..Len(file) /\ SubSeq(file, b + 1, n)[i] = file[b + i]
      BY <1>1, <1>7, <3>1, PartFacts
    <3> QED
      BY <1>1, <1>3, <2>1, <3>2 DEF n
  <2>3. line # <<>> /\ text \in Texts(line)
    BY <1>6, <2>1
  <2> QED
    BY <2>1, <2>2, <2>3, TextFacts
<1>9. LastPiece(file, b + 1)
  <2>1. n - (b + 1) < Width
    BY <1>1, <1>2, <1>3, <1>7
  <2>2. CASE b = 0
    BY <1>3, <2>1, <2>2 DEF LastPiece, n
  <2>3. CASE file[b].nl
    <3>1. (b + 1) - 1 = b
      BY <1>7
    <3> QED
      BY <1>3, <2>1, <2>3, <3>1 DEF LastPiece, n
  <2>4. CASE b >= Width /\ \A i \in b - Width + 1..b : ~ file[i].nl
    <3>1. (b + 1) - 1 = b /\ (b + 1) - Width = b - Width + 1 /\ b + 1 > Width
      BY <1>3, <1>7, <2>4
    <3> QED
      BY <1>3, <2>1, <2>4, <3>1 DEF LastPiece, n
  <2> QED
    BY <1>3, <2>2, <2>3, <2>4 DEF Begins
<1> QED
  BY <1>3, <1>5, <1>7, <1>8, <1>9 DEF n

(* fgets at the end of the file: what is in tempBuffer is sent once more.   *)
LEMMA FgetsEnds ==
    ASSUME LInv, NEW p \in Sessions, sess[p].pc = "loop",
           More(sess[p]) = <<>>, NEW text \in Texts(sess[p].temp),
           sess' = [sess EXCEPT ![p].pc = "close", ![p].mid = FALSE,
                                ![p].sent = @ \o text],
           UNCHANGED <<tmp, writable>>
    PROVE  LInv'
<1> DEFINE t == sess[p]
<1>1. TypeOK /\ t \in Session /\ Len(t.temp) <= Width /\ Len(t.buf) <= Block
  BY DEF LInv, TypeOK
<1>2. InLoop(t) /\ File
  BY DEF LInv, Ordered, There
<1>3. t.buf = <<>> /\ Len(tmp) <= t.pos
  BY <1>1, <1>2, MoreFacts
<1>4. t.sent \o text \in Seq(Byte) /\ Closing(t.sent \o text)
  BY <1>1, <1>2, ClosingFacts
<1>5. PICK sent \in Seq(Byte) : sent = t.sent \o text
  BY <1>4
<1>6. PICK u \in Session : u = [t EXCEPT !.pc = "close", !.mid = FALSE, !.sent = sent]
  BY <1>1 DEF Session
<1>7. /\ u.buf = <<>> /\ u.temp = t.temp /\ u.shape = t.shape /\ u.left = t.left
      /\ u.pos = t.pos /\ u.pc = "close" /\ u.sent = sent /\ ~ u.mid
      /\ u.alone = t.alone
  BY <1>1, <1>3, <1>6 DEF Session
<1>8. sess' = [sess EXCEPT ![p] = u] /\ sess'[p] = u
  BY <1>1, <1>5, <1>6 DEF TypeOK
<1>9. Ordered(u)
  BY <1>4, <1>5, <1>7 DEF Ordered
<1>10. ASSUME t.alone PROVE Exact(p)'
  <2>1. /\ writable => tmp = Whole(Owner(p), t.shape)
        /\ \E by \in Owners, shape \in Shapes : tmp = Whole(by, shape)
        /\ Through(t, tmp)
    BY <1>10 DEF LInv, Undisturbed, Exact, Busy
  <2>2. PICK by \in Owners, shape \in Shapes : tmp = Whole(by, shape)
    BY <2>1
  <2>3. Returned(t) = Len(tmp)
    BY <1>1, <1>2, <2>1, MoreThrough DEF File
  <2>4. t.sent = tmp /\ \E a \in 1..Len(tmp) :
          LastPiece(tmp, a) /\ text = SubSeq(tmp, a, Len(tmp))
    BY <1>1, <2>1, <2>2, <2>3, ThroughEnds
  <2>5. \E a \in 1..Len(tmp) :
          LastPiece(tmp, a) /\ sent = tmp \o SubSeq(tmp, a, Len(tmp))
    BY <1>5, <2>4
  <2>6. Owner(p)' = Owner(p)
    BY <1>7, <1>8 DEF Owner
  <2> QED
    BY <1>7, <1>8, <2>1, <2>5, <2>6 DEF Exact
<1>11. FileOK' /\ (File => File') /\ File'
  BY <1>2, FileStays DEF LInv, File
<1>12. Busy(p) /\ Len(u.temp) <= Width /\ Len(u.buf) <= Block /\ u.alone = t.alone
  BY <1>1, <1>3, <1>7 DEF Busy
<1>13. /\ u.pc \in {"ls", "loop", "close"} => File'
       /\ u.pc # "ls" /\ t.pc # "ls"
       /\ u.pc \notin {"idle", "dead"} /\ t.alone => Exact(p)'
  BY <1>7, <1>10, <1>11
<1> QED
  BY <1>8, <1>9, <1>11, <1>12, <1>13, OneMoves

(* fgets with bytes to take: what of a session changes.                     *)
Goes(s, more, k, ends, text, u) ==
    /\ u.pc = s.pc /\ u.shape = s.shape /\ u.left = s.left /\ u.alone = s.alone
    /\ u.buf = SubSeq(more, k + 1, Len(more))
    /\ u.temp = Grown(s, more, k)
    /\ u.mid = ~ ends
    /\ u.sent = s.sent \o text
    /\ u.pos = Then(s)

(* It is inside the loop as before,                                         *)
LEMMA GoesOn ==
    ASSUME File, NEW s \in Session, s.pc = "loop", InLoop(s), Len(s.buf) <= Block,
           NEW k \in 1..Len(More(s)), NEW ends \in BOOLEAN,
           NEW text \in (IF ends THEN Texts(Grown(s, More(s), k)) ELSE {<<>>}),
           NEW u \in Session, Goes(s, More(s), k, ends, text, u)
    PROVE  /\ InLoop(u) /\ Len(u.buf) <= Block
           /\ Returned(u) = Returned(s) + k
           /\ Sent(u) = IF ends THEN Returned(s) + k ELSE Sent(s)
           /\ s.sent \o text \in Seq(Byte)
<1>1. PICK more \in Seq(Byte) : more = More(s)
  BY MoreFacts
<1>2. /\ Returned(s) \in Nat /\ Then(s) \in Nat
      /\ Len(more) <= Block
      /\ Then(s) - Len(more) = Returned(s)
      /\ After(Returned(s), more)
      /\ \E shape \in Shapes : Then(s) <= Len(shape)
  BY <1>1, MoreFacts
<1>3. k \in Nat \ {0} /\ k <= Len(more) /\ Len(more) \in Nat /\ Block \in Nat
      /\ k \in 1..Len(more)
  BY <1>1, ListAssumption
<1>4. PICK r \in Nat : r = Returned(s)
  BY <1>2
<1> DEFINE line == Grown(s, more, k)
<1>5. /\ line \in Seq(Byte) /\ line # <<>>
      /\ Sent(s) \in Nat
      /\ Sent(s) + Len(line) = r + k
      /\ After(Sent(s), line)
  BY <1>2, <1>3, <1>4, GrownFacts
<1> HIDE DEF line
<1>6. /\ u.buf = SubSeq(more, k + 1, Len(more)) /\ u.temp = line /\ u.mid = ~ ends
      /\ u.sent = s.sent \o text /\ u.pos = Then(s)
  BY <1>1 DEF Goes, line
<1>7. /\ SubSeq(more, k + 1, Len(more)) \in Seq(Byte)
      /\ Len(SubSeq(more, k + 1, Len(more))) = Len(more) - k
      /\ \A j \in 1..Len(more) - k : /\ k + j \in 1..Len(more)
                                     /\ SubSeq(more, k + 1, Len(more))[j] = more[k + j]
  BY <1>3, PartFacts
<1>8. Len(u.buf) = Len(more) - k
  BY <1>6, <1>7
<1>9. /\ Returned(u) = r + k /\ Len(u.buf) <= u.pos /\ Len(u.buf) <= Block
      /\ Len(u.temp) <= r + k
      /\ (r + k) - Len(u.temp) = Sent(s)
  <2>1. Then(s) = r + Len(more) /\ u.pos = Then(s)
    BY <1>2, <1>3, <1>4, <1>6
  <2>2. Len(line) \in Nat
    BY <1>5
  <2> QED
    BY <1>2, <1>3, <1>5, <1>6, <1>8, <2>1, <2>2 DEF Returned
<1>10. After(r + k, u.buf)
  <2> SUFFICES ASSUME NEW j \in 1..Len(more) - k
               PROVE  u.buf[j] = Hole \/ u.buf[j].i = (r + k) + j
    BY <1>8 DEF After
  <2>1. u.buf[j] = more[k + j] /\ k + j \in 1..Len(more) /\ r + (k + j) = (r + k) + j
    BY <1>3, <1>4, <1>6, <1>7
  <2> QED
    BY <1>2, <1>4, <2>1 DEF After
<1>11. s.sent \in Seq(Byte) /\ Passed(s.sent, Sent(s))
  BY DEF Session, InLoop
<1>12. Sent(u) = IF ends THEN r + k ELSE Sent(s)
  BY <1>6, <1>9 DEF Sent
<1>13. /\ s.sent \o text \in Seq(Byte)
       /\ Passed(u.sent, Sent(u))
       /\ ends => \A other \in Texts(line) : EndsWith(u.sent, other)
  <2>1. CASE ends
    <3>1. PICK sent \in Seq(Byte) : sent = s.sent
      BY <1>11
    <3>2. PICK m \in Nat : m = Sent(s)
      BY <1>5
    <3>3. /\ Passed(sent, m) /\ After(m, line) /\ text \in Texts(line)
      BY <1>1, <1>5, <1>11, <2>1, <3>1, <3>2 DEF line
    <3>4. /\ sent \o text \in Seq(Byte)
          /\ Passed(sent \o text, m + Len(line))
          /\ \A other \in Texts(line) : EndsWith(sent \o text, other)
      BY <1>5, <3>3, SendFacts
    <3> QED
      BY <1>5, <1>6, <1>12, <2>1, <3>1, <3>2, <3>4
  <2>2. CASE ~ ends
    <3>1. text = <<>>
      BY <2>2
    <3>2. s.sent \o text = s.sent
      BY <1>11, <3>1
    <3> QED
      BY <1>6, <1>11, <1>12, <2>2, <3>2
  <2> QED
    BY <2>1, <2>2
<1>14. InLoop(u)
  <2>1. u.temp # <<>> /\ (~ u.mid => ends)
    BY <1>5, <1>6
  <2>2. \E shape \in Shapes : u.pos <= Len(shape)
    BY <1>2, <1>6
  <2>3. ~ u.mid => \A other \in Texts(u.temp) : EndsWith(u.sent, other)
    BY <1>6, <1>13, <2>1
  <2> QED
    BY <1>5, <1>6, <1>9, <1>10, <1>13, <2>1, <2>2, <2>3 DEF InLoop
<1> QED
  BY <1>4, <1>9, <1>12, <1>13, <1>14

(* for which it is enough that                                              *)
Takes(s, k, ends, text, u) ==
    /\ s \in Session /\ s.pc = "loop" /\ InLoop(s) /\ Len(s.buf) <= Block
    /\ k \in 1..Len(More(s)) /\ ends \in BOOLEAN
    /\ text \in (IF ends THEN Texts(Grown(s, More(s), k)) ELSE {<<>>})
    /\ u \in Session /\ Goes(s, More(s), k, ends, text, u)

(* it takes k bytes,                                                        *)
LEMMA TakesOn ==
    ASSUME File, NEW s, NEW k, NEW ends, NEW text, NEW u, Takes(s, k, ends, text, u)
    PROVE  /\ InLoop(u) /\ Returned(u) = Returned(s) + k
           /\ Sent(u) = IF ends THEN Returned(s) + k ELSE Sent(s)
BY GoesOn DEF Takes

(* and, where nobody writes, it goes on through the file.                   *)
LEMMA GoesThrough ==
    ASSUME NEW by \in Owners, NEW shape \in Shapes, tmp = Whole(by, shape),
           File, NEW s \in Session, s.pc = "loop", InLoop(s), Len(s.buf) <= Block,
           Through(s, tmp),
           NEW k \in 1..Len(More(s)), Len(Grown(s, More(s), k)) <= Width,
           \A i \in 1..k - 1 : ~ More(s)[i].nl,
           NEW ends \in BOOLEAN,
           ends = (More(s)[k].nl \/ Len(Grown(s, More(s), k)) = Width),
           NEW text \in (IF ends THEN Texts(Grown(s, More(s), k)) ELSE {<<>>}),
           NEW u \in Session, Goes(s, More(s), k, ends, text, u)
    PROVE  Through(u, tmp)
<1>1. /\ tmp \in Seq(Byte) /\ Len(tmp) \in Nat
      /\ \A i \in 1..Len(tmp) : tmp[i] # Hole
  BY WholeFacts
<1>2. PICK more \in Seq(Byte) : more = More(s)
  BY MoreFacts
<1>3. PICK r \in Nat : r = Returned(s)
  BY MoreFacts
<1>4. PICK pos \in Nat : pos = Then(s)
  BY MoreFacts
<1>5. /\ pos <= Len(tmp) /\ pos - Len(more) = r
      /\ \A j \in 1..Len(more) : r + j \in 1..Len(tmp) /\ more[j] = tmp[r + j]
  BY <1>1, <1>2, <1>3, <1>4, MoreFacts, MoreThrough
<1>6. k \in Nat \ {0} /\ k <= Len(more) /\ Len(more) \in Nat /\ k \in 1..Len(more)
      /\ Width \in Nat \ {0} /\ r + k <= pos /\ pos = r + Len(more)
  <2>1. k \in Nat \ {0} /\ k <= Len(more) /\ Len(more) \in Nat /\ k \in 1..Len(more)
    BY <1>2
  <2> QED
    BY <1>5, <2>1, ListAssumption
<1>7. PICK m \in Nat : m = Sent(s)
  BY <1>2, <1>6, GrownFacts, MoreFacts
<1> DEFINE line == Grown(s, more, k)
           had == IF s.mid THEN s.temp ELSE <<>>
<1>8. /\ line \in Seq(Byte) /\ line # <<>> /\ m + Len(line) = r + k
  BY <1>2, <1>3, <1>6, <1>7, GrownFacts, MoreFacts
<1>9. /\ s.temp \in Seq(Byte) /\ Len(s.temp) \in Nat /\ s.mid \in BOOLEAN
      /\ s.sent \in Seq(Byte)
  BY DEF Session
<1>10. /\ Len(s.temp) <= r
       /\ s.temp = SubSeq(tmp, (r - Len(s.temp)) + 1, r)
       /\ s.sent = SubSeq(tmp, 1, m)
       /\ s.temp = <<>> => r = 0 /\ ~ s.mid
       /\ \A i \in (r - Len(s.temp)) + 1..r - 1 : ~ tmp[i].nl
       /\ s.mid => ~ tmp[r].nl
       /\ ~ s.mid /\ s.temp # <<>> => tmp[r].nl \/ Len(s.temp) = Width
       /\ Begins(tmp, r - Len(s.temp))
  BY <1>3, <1>7 DEF Through
<1>11. m = (IF s.mid THEN r - Len(s.temp) ELSE r) /\ m <= r /\ r + k <= Len(tmp)
  <2>1. m = IF s.mid THEN r - Len(s.temp) ELSE r
    BY <1>3, <1>7 DEF Sent
  <2>2. m <= r
    BY <1>9, <2>1
  <2>3. r + k <= Len(tmp)
    BY <1>1, <1>5, <1>6
  <2> QED
    BY <2>1, <2>2, <2>3
<1>12. had = SubSeq(tmp, m + 1, r)
  <2>1. CASE s.mid
    BY <1>10, <1>11, <2>1
  <2>2. CASE ~ s.mid
    <3>1. SubSeq(tmp, r + 1, r) = <<>>
      BY <1>1
    <3> QED
      BY <1>11, <2>2, <3>1
  <2> QED
    BY <1>9, <2>1, <2>2
<1>13. SubSeq(more, 1, k) = SubSeq(tmp, r + 1, r + k)
  <2>1. /\ SubSeq(more, 1, k) \in Seq(Byte) /\ Len(SubSeq(more, 1, k)) = k
        /\ \A j \in 1..k : SubSeq(more, 1, k)[j] = more[j]
    BY <1>6, FirstFacts
  <2>2. PICK c \in Nat : c = r + k
    BY <1>6
  <2>3. r <= c /\ c <= Len(tmp) /\ c - r = k
    BY <1>6, <1>11, <2>2
  <2>4. /\ SubSeq(tmp, r + 1, c) \in Seq(Byte) /\ Len(SubSeq(tmp, r + 1, c)) = k
        /\ \A j \in 1..k : SubSeq(tmp, r + 1, c)[j] = tmp[r + j]
    BY <1>1, <2>3, PartFacts
  <2>5. \A j \in 1..k : j \in 1..Len(more)
    BY <1>6
  <2> QED
    BY <1>5, <2>1, <2>2, <2>4, <2>5, SameBytes
<1>14. line = SubSeq(tmp, m + 1, r + k)
  <2>1. line = SubSeq(tmp, m + 1, r) \o SubSeq(tmp, r + 1, r + k)
    BY <1>12, <1>13 DEF Grown
  <2>2. PICK c \in Nat : c = r + k
    BY <1>6
  <2>3. r <= c /\ m <= r /\ c <= Len(tmp)
    BY <1>6, <1>11, <2>2
  <2>4. SubSeq(tmp, m + 1, r) \o SubSeq(tmp, r + 1, c) = SubSeq(tmp, m + 1, c)
    BY <1>1, <2>3, PartsMeet
  <2> QED
    BY <2>1, <2>2, <2>4
<1> HIDE DEF had, line
<1>15. /\ u.buf = SubSeq(more, k + 1, Len(more)) /\ u.temp = line /\ u.mid = ~ ends
       /\ u.sent = s.sent \o text /\ u.pos = pos
  BY <1>2, <1>4 DEF Goes, line
<1>16. /\ Returned(u) = r + k /\ Sent(u) = IF ends THEN r + k ELSE m
       /\ Len(u.buf) <= u.pos
  <2>1. /\ InLoop(u) /\ Returned(u) = Returned(s) + k
        /\ Sent(u) = IF ends THEN Returned(s) + k ELSE Sent(s)
    <3>1. Takes(s, k, ends, text, u)
      BY DEF Takes
    <3> QED
      BY <3>1, TakesOn
  <2>2. Len(u.buf) <= u.pos
    BY <2>1 DEF InLoop
  <2> QED
    BY <1>3, <1>7, <2>1, <2>2
<1>17. u.buf = SubSeq(tmp, (r + k) + 1, pos)
  <2>1. /\ SubSeq(more, k + 1, Len(more)) \in Seq(Byte)
        /\ Len(SubSeq(more, k + 1, Len(more))) = Len(more) - k
        /\ \A j \in 1..Len(more) - k :
             /\ k + j \in 1..Len(more)
             /\ SubSeq(more, k + 1, Len(more))[j] = more[k + j]
    <3>1. PICK d \in Nat : d = Len(more)
      BY <1>6
    <3>2. PICK e \in Nat : e = k
      BY <1>6
    <3>3. e <= d /\ d <= Len(more)
      BY <1>6, <3>1, <3>2
    <3>4. /\ SubSeq(more, e + 1, d) \in Seq(Byte)
          /\ Len(SubSeq(more, e + 1, d)) = d - e
          /\ \A j \in 1..d - e : /\ e + j \in 1..Len(more)
                                 /\ SubSeq(more, e + 1, d)[j] = more[e + j]
      BY <3>3, PartFacts
    <3> QED
      BY <3>1, <3>2, <3>4
  <2>2. PICK c \in Nat : c = r + k
    BY <1>6
  <2>3. c <= pos /\ pos - c = Len(more) - k
    BY <1>6, <2>2
  <2>4. /\ SubSeq(tmp, c + 1, pos) \in Seq(Byte)
        /\ Len(SubSeq(tmp, c + 1, pos)) = Len(more) - k
        /\ \A j \in 1..Len(more) - k : SubSeq(tmp, c + 1, pos)[j] = tmp[c + j]
    BY <1>1, <1>5, <2>3, PartFacts
  <2>5. ASSUME NEW j \in 1..Len(more) - k
        PROVE  SubSeq(more, k + 1, Len(more))[j] = SubSeq(tmp, c + 1, pos)[j]
    <3>1. k + j \in 1..Len(more) /\ r + (k + j) = c + j
      BY <1>6, <2>1, <2>2
    <3> QED
      BY <1>5, <2>1, <2>4, <3>1
  <2>6. SubSeq(more, k + 1, Len(more)) = SubSeq(tmp, c + 1, pos)
    BY <2>1, <2>4, <2>5, SameBytes
  <2> QED
    BY <1>15, <2>2, <2>6
<1>18. u.sent = SubSeq(tmp, 1, Sent(u))
  <2>1. CASE ends
    <3>1. \A i \in 1..Len(line) : line[i] # Hole
      <4>1. PICK c \in Nat : c = r + k
        BY <1>6
      <4>2. m <= c /\ c <= Len(tmp) /\ c - m = Len(line)
        BY <1>6, <1>8, <1>11, <4>1
      <4>3. \A i \in 1..c - m : /\ m + i \in 1..Len(tmp)
                                /\ SubSeq(tmp, m + 1, c)[i] = tmp[m + i]
        BY <1>1, <4>2, PartFacts
      <4> QED
        BY <1>1, <1>14, <4>1, <4>2, <4>3
    <3>2. text \in Texts(line)
      BY <1>2, <2>1 DEF line
    <3>3. text = line
      BY <1>8, <3>1, <3>2, TextFacts
    <3>4. r + k \in Nat /\ m <= r + k
      BY <1>6, <1>11
    <3>5. SubSeq(tmp, 1, m) \o SubSeq(tmp, m + 1, r + k) = SubSeq(tmp, 1, r + k)
      BY <1>1, <1>11, <3>4, FirstMeets
    <3> QED
      BY <1>10, <1>14, <1>15, <1>16, <2>1, <3>3, <3>5
  <2>2. CASE ~ ends
    <3>1. text = <<>>
      BY <2>2
    <3>2. s.sent \o text = s.sent
      BY <1>9, <3>1
    <3> QED
      BY <1>10, <1>15, <1>16, <2>2, <3>2
  <2> QED
    BY <2>1, <2>2
<1>19. ASSUME NEW i \in m + 1..(r + k) - 1 PROVE ~ tmp[i].nl
  <2>1. CASE i < r
    <3>1. s.mid /\ i \in (r - Len(s.temp)) + 1..r - 1
      BY <1>9, <1>11, <2>1
    <3> QED
      BY <1>10, <3>1
  <2>2. CASE i = r
    <3>1. s.mid
      BY <1>9, <1>11, <2>2
    <3> QED
      BY <1>10, <2>2, <3>1
  <2>3. CASE i > r
    <3>1. i - r \in 1..k - 1 /\ i - r \in 1..Len(more) /\ r + (i - r) = i
      BY <1>6, <1>11, <2>3
    <3>2. ~ more[i - r].nl
      BY <1>2, <3>1
    <3> QED
      BY <1>5, <3>1, <3>2
  <2> QED
    BY <1>11, <2>1, <2>2, <2>3
<1>20. more[k] = tmp[r + k]
  BY <1>5, <1>6
<1>21. ends = (tmp[r + k].nl \/ Len(line) = Width) /\ Len(line) <= Width
  BY <1>2, <1>20 DEF line
<1>22. Begins(tmp, m)
  <2>1. CASE s.mid
    BY <1>10, <1>11, <2>1
  <2>2. CASE ~ s.mid /\ s.temp = <<>>
    BY <1>10, <1>11, <2>2 DEF Begins
  <2>3. CASE ~ s.mid /\ s.temp # <<>> /\ tmp[r].nl
    BY <1>11, <2>3 DEF Begins
  <2>4. CASE ~ s.mid /\ s.temp # <<>> /\ ~ tmp[r].nl
    <3>1. Len(s.temp) = Width /\ r >= Width /\ m = r
      BY <1>6, <1>10, <1>11, <2>4
    <3>2. ASSUME NEW i \in r - Width + 1..r PROVE ~ tmp[i].nl
      BY <1>10, <2>4, <3>1
    <3> QED
      BY <3>1, <3>2 DEF Begins
  <2> QED
    BY <1>9, <2>1, <2>2, <2>3, <2>4
<1>23. (r + k) - Len(u.temp) = m /\ u.temp = SubSeq(tmp, m + 1, r + k)
       /\ Len(line) \in Nat /\ Len(u.temp) <= r + k
  <2>1. Len(line) \in Nat
    BY <1>8
  <2> QED
    BY <1>6, <1>8, <1>14, <1>15, <2>1
<1>24. /\ u.temp # <<>>
       /\ u.mid => Len(u.temp) < Width /\ ~ tmp[r + k].nl
       /\ ~ u.mid => tmp[r + k].nl \/ Len(u.temp) = Width
       /\ Len(u.temp) <= Width
  <2>1. u.mid => ~ ends
    BY <1>15
  <2>2. ~ u.mid => ends
    BY <1>15
  <2>3. u.temp = line /\ Len(line) <= Width /\ Len(line) \in Nat
    BY <1>15, <1>21, <1>23
  <2>4. ~ ends => Len(line) # Width /\ ~ tmp[r + k].nl
    BY <1>21
  <2>5. ~ ends => Len(line) < Width
    BY <1>6, <2>3, <2>4
  <2>6. ends => tmp[r + k].nl \/ Len(line) = Width
    BY <1>21
  <2> QED
    BY <1>8, <2>1, <2>2, <2>3, <2>4, <2>5, <2>6
<1> QED
  BY <1>5, <1>15, <1>16, <1>17, <1>18, <1>19, <1>22, <1>23, <1>24 DEF Through

(* fgets with bytes to take keeps all of it.                                *)
LEMMA FgetsGoes ==
    ASSUME LInv, NEW p \in Sessions, sess[p].pc = "loop",
           NEW k \in 1..Len(More(sess[p])), NEW ends \in BOOLEAN,
           Len(Grown(sess[p], More(sess[p]), k)) <= Width,
           \A i \in 1..k - 1 : ~ More(sess[p])[i].nl,
           ends = (\/ More(sess[p])[k].nl
                   \/ Len(Grown(sess[p], More(sess[p]), k)) = Width),
           NEW text \in (IF ends THEN Texts(Grown(sess[p], More(sess[p]), k))
                                 ELSE {<<>>}),
           sess' = [sess EXCEPT
                      ![p].buf = SubSeq(More(sess[p]), k + 1, Len(More(sess[p]))),
                      ![p].temp = Grown(sess[p], More(sess[p]), k),
                      ![p].mid = ~ ends,
                      ![p].sent = @ \o text,
                      ![p].pos = Then(sess[p])],
           UNCHANGED <<tmp, writable>>
    PROVE  LInv'
<1> DEFINE t == sess[p]
           more == More(t)
           line == Grown(t, more, k)
           rest == SubSeq(more, k + 1, Len(more))
           all == t.sent \o text
<1>1. TypeOK /\ t \in Session /\ Len(t.temp) <= Width /\ Len(t.buf) <= Block
  BY DEF LInv, TypeOK
<1>2. InLoop(t) /\ File
  BY DEF LInv, Ordered, There
<1>3. more \in Seq(Byte) /\ Then(t) \in Nat /\ After(Returned(t), more)
  BY <1>1, <1>2, MoreFacts
<1>4. line \in Seq(Byte)
  BY <1>1, <1>2, <1>3, GrownFacts
<1>5. rest \in Seq(Byte)
  <2>1. PICK m \in Seq(Byte) : m = more
    BY <1>3
  <2>2. k \in Nat /\ k <= Len(m) /\ Len(m) \in Nat
    BY <2>1
  <2>3. PICK d \in Nat : d = Len(m)
    BY <2>2
  <2>4. PICK e \in Nat : e = k
    BY <2>2
  <2>5. e <= d /\ d <= Len(m)
    BY <2>2, <2>3, <2>4
  <2>6. SubSeq(m, e + 1, d) \in Seq(Byte)
    BY <2>5, PartFacts
  <2> QED
    BY <2>1, <2>3, <2>4, <2>6
<1>6. all \in Seq(Byte)
  <2>1. CASE ends
    <3>1. text \in Texts(line) /\ line # <<>>
      BY <1>1, <1>2, <1>3, <2>1, GrownFacts
    <3> HIDE DEF line
    <3>2. text \in Seq(Byte)
      BY <1>4, <3>1, TextFacts
    <3> QED
      BY <1>1, <3>2 DEF Session
  <2>2. CASE ~ ends
    <3>1. text = <<>> /\ t.sent \in Seq(Byte)
      BY <1>1, <2>2 DEF Session
    <3> QED
      BY <3>1
  <2> QED
    BY <2>1, <2>2
<1> HIDE DEF line, rest, all
<1>7. PICK u \in Session : u = [t EXCEPT !.buf = rest, !.temp = line, !.mid = ~ ends,
                                         !.sent = all, !.pos = Then(t)]
  <2>1. PICK pos \in Nat : pos = Then(t)
    BY <1>3
  <2>2. PICK mid \in BOOLEAN : mid = ~ ends
    OBVIOUS
  <2>3. ASSUME NEW v \in Session PROVE
          [v EXCEPT !.buf = rest, !.temp = line, !.mid = mid] \in Session
    BY <1>4, <1>5 DEF Session
  <2>4. ASSUME NEW v \in Session PROVE [v EXCEPT !.sent = all, !.pos = pos] \in Session
    BY <1>6 DEF Session
  <2>5. [t EXCEPT !.buf = rest, !.temp = line, !.mid = mid,
                  !.sent = all, !.pos = pos] \in Session
    BY <1>1, <2>3, <2>4
  <2> QED
    BY <2>1, <2>2, <2>5
<1>8. /\ u.buf = rest /\ u.temp = line /\ u.mid = ~ ends /\ u.sent = all
      /\ u.pos = Then(t) /\ u.pc = "loop" /\ u.shape = t.shape /\ u.left = t.left
      /\ u.alone = t.alone
  BY <1>1, <1>7 DEF Session
<1>9. sess' = [sess EXCEPT ![p] = u] /\ sess'[p] = u
  <2>1. sess' = [sess EXCEPT ![p].buf = rest, ![p].temp = line, ![p].mid = ~ ends,
                             ![p].sent = @ \o text, ![p].pos = Then(t)]
    BY DEF rest, line
  <2>2. all = sess[p].sent \o text
    BY DEF all
  <2>3. sess' = [sess EXCEPT ![p] = u]
    BY <1>1, <1>7, <2>1, <2>2 DEF TypeOK
  <2> QED
    BY <1>1, <2>3 DEF TypeOK
<1>10. Goes(t, More(t), k, ends, text, u)
  BY <1>8 DEF Goes, rest, line, all
<1>11. InLoop(u) /\ Len(u.buf) <= Block
  BY <1>1, <1>2, <1>10, GoesOn
<1>12. Ordered(u) /\ Len(u.temp) <= Width
  BY <1>8, <1>11 DEF Ordered, line
<1>13. ASSUME t.alone PROVE Exact(p)'
  <2>1. /\ writable => tmp = Whole(Owner(p), t.shape)
        /\ \E by \in Owners, shape \in Shapes : tmp = Whole(by, shape)
        /\ Through(t, tmp)
    BY <1>13 DEF LInv, Undisturbed, Exact, Busy
  <2>2. PICK by \in Owners, shape \in Shapes : tmp = Whole(by, shape)
    BY <2>1
  <2>3. Through(u, tmp)
    BY <1>1, <1>2, <1>10, <2>1, <2>2, GoesThrough
  <2>4. Owner(p)' = Owner(p)
    BY <1>8, <1>9 DEF Owner
  <2> QED
    BY <1>8, <1>9, <2>1, <2>3, <2>4 DEF Exact
<1>14. FileOK' /\ (File => File') /\ File'
  BY <1>2, FileStays DEF LInv, File
<1>15. /\ u.pc # "ls" /\ t.pc # "ls" /\ Busy(p)
       /\ u.pc \notin {"idle", "dead"} /\ t.alone => Exact(p)'
  BY <1>8, <1>13 DEF Busy
<1> QED
  BY <1>8, <1>9, <1>11, <1>12, <1>14, <1>15, OneMoves

(* One round of the loop.                                                   *)
LEMMA FgetsKeeps ==
    ASSUME LInv, NEW p \in Sessions, Fgets(p), UNCHANGED writable
    PROVE  LInv'
<1> DEFINE t == sess[p]
           got == More(t)
<1>1. t.pc = "loop" /\ UNCHANGED <<tmp, writable>>
  BY DEF Fgets, At
<1>2. ASSUME got = <<>>,
             \E text \in AtEof(t) :
               sess' = [sess EXCEPT ![p].pc = "close", ![p].mid = FALSE,
                                    ![p].sent = @ \o text]
      PROVE  LInv'
  BY <1>1, <1>2, FgetsEnds DEF AtEof
<1>3. ASSUME NEW k \in 1..Len(got), NEW ends \in BOOLEAN,
             ends = (got[k].nl \/ Len(Grown(t, got, k)) = Width),
             Len(Grown(t, got, k)) <= Width,
             \A i \in 1..k - 1 : ~ got[i].nl,
             \E text \in IF ends THEN Texts(Grown(t, got, k)) ELSE {<<>>} :
               sess' = [sess EXCEPT
                          ![p].buf = SubSeq(got, k + 1, Len(got)),
                          ![p].temp = Grown(t, got, k), ![p].mid = ~ ends,
                          ![p].sent = @ \o text,
                          ![p].pos = Then(t)]
      PROVE  LInv'
  BY <1>1, <1>3, FgetsGoes
<1>4. Then(t) = IF t.buf = <<>> THEN t.pos + Len(got) ELSE t.pos
  BY DEF Then
<1>5. got = IF t.buf # <<>> THEN t.buf ELSE Fetched(tmp, t.pos)
  BY DEF More
<1>6. TypeOK
  BY DEF LInv
<1>7. \/ /\ got = <<>>
         /\ \E text \in AtEof(t) :
              sess' = [sess EXCEPT ![p].pc = "close", ![p].mid = FALSE,
                                   ![p].sent = @ \o text]
      \/ \E k \in 1..Len(got) :
            LET line == (IF t.mid THEN t.temp ELSE <<>>) \o SubSeq(got, 1, k)
                ends == got[k].nl \/ Len(line) = Width
            IN
            /\ Len(line) <= Width
            /\ \A i \in 1..k - 1 : ~ got[i].nl
            /\ ends \/ k = Len(got)
            /\ \E text \in IF ends THEN Texts(line) ELSE {<<>>} :
                 sess' = [sess EXCEPT
                            ![p].buf = SubSeq(got, k + 1, Len(got)),
                            ![p].temp = line, ![p].mid = ~ ends,
                            ![p].sent = @ \o text,
                            ![p].pos = IF t.buf = <<>> THEN @ + Len(got) ELSE @]
  BY DEF Fgets, More
<1> HIDE DEF got
<1>8. CASE /\ got = <<>>
           /\ \E text \in AtEof(t) :
               sess' = [sess EXCEPT ![p].pc = "close", ![p].mid = FALSE,
                                    ![p].sent = @ \o text]
  BY <1>2, <1>8
<1>9. CASE \E k \in 1..Len(got) :
            LET line == (IF t.mid THEN t.temp ELSE <<>>) \o SubSeq(got, 1, k)
                ends == got[k].nl \/ Len(line) = Width
            IN
            /\ Len(line) <= Width
            /\ \A i \in 1..k - 1 : ~ got[i].nl
            /\ ends \/ k = Len(got)
            /\ \E text \in IF ends THEN Texts(line) ELSE {<<>>} :
                 sess' = [sess EXCEPT
                            ![p].buf = SubSeq(got, k + 1, Len(got)),
                            ![p].temp = line, ![p].mid = ~ ends,
                            ![p].sent = @ \o text,
                            ![p].pos = IF t.buf = <<>> THEN @ + Len(got) ELSE @]
  <2>1. PICK k \in 1..Len(got) :
            LET line == Grown(t, got, k)
                ends == got[k].nl \/ Len(line) = Width
            IN
            /\ Len(line) <= Width
            /\ \A i \in 1..k - 1 : ~ got[i].nl
            /\ \E text \in IF ends THEN Texts(line) ELSE {<<>>} :
                 sess' = [sess EXCEPT
                            ![p].buf = SubSeq(got, k + 1, Len(got)),
                            ![p].temp = line, ![p].mid = ~ ends,
                            ![p].sent = @ \o text,
                            ![p].pos = IF t.buf = <<>> THEN @ + Len(got) ELSE @]
    BY <1>9 DEF Grown
  <2>2. PICK ends \in BOOLEAN : ends = (got[k].nl \/ Len(Grown(t, got, k)) = Width)
    OBVIOUS
  <2>3. PICK text \in IF ends THEN Texts(Grown(t, got, k)) ELSE {<<>>} :
          sess' = [sess EXCEPT
                     ![p].buf = SubSeq(got, k + 1, Len(got)),
                     ![p].temp = Grown(t, got, k), ![p].mid = ~ ends,
                     ![p].sent = @ \o text,
                     ![p].pos = IF t.buf = <<>> THEN @ + Len(got) ELSE @]
    BY <2>1, <2>2
  <2>4. sess' = [sess EXCEPT
                     ![p].buf = SubSeq(got, k + 1, Len(got)),
                     ![p].temp = Grown(t, got, k), ![p].mid = ~ ends,
                     ![p].sent = @ \o text,
                     ![p].pos = Then(t)]
    BY <1>4, <1>6, <2>3 DEF TypeOK
  <2>5. /\ Len(Grown(t, got, k)) <= Width
        /\ \A i \in 1..k - 1 : ~ got[i].nl
    BY <2>1
  <2> QED
    BY <1>3, <2>2, <2>3, <2>4, <2>5
<1> QED
  BY <1>8, <1>9, <1>7

-----------------------------------------------------------------------------
(* The invariant holds at the start, with or without a file,                *)
LEMMA InitInv == Init => LInv
<1> SUFFICES ASSUME Init PROVE LInv
  OBVIOUS
<1>1. tmp = Absent \/ \E shape \in Shapes : tmp = Whole(<<>>, shape)
  BY DEF Init
<1>2. <<>> \in Owners
  BY DEF Owners
<1>3. tmp = Absent \/ File
  <2> SUFFICES ASSUME NEW shape \in Shapes, tmp = Whole(<<>>, shape) PROVE File
    BY <1>1
  <2>1. PICK by \in Owners : by = <<>>
    BY <1>2
  <2>2. /\ tmp \in Seq(Byte) /\ Len(tmp) = Len(shape) /\ Len(shape) \in Nat
        /\ \A k \in 1..Len(shape) : tmp[k].i = k
    BY <2>1, WholeFacts
  <2> QED
    BY <2>2 DEF File, Placed
<1>4. <<>> \in Seq(Byte) /\ Len(<<>>) = 0
  OBVIOUS
<1>5. PICK first \in Shapes : first = CHOOSE shape \in Shapes : TRUE
  BY ListAssumption
<1>6. ASSUME NEW p \in Sessions
      PROVE  /\ sess[p] \in Session
             /\ sess[p].pc = "idle" /\ sess[p].buf = <<>> /\ ~ sess[p].mid
             /\ sess[p].sent = <<>> /\ sess[p].temp = <<>>
  <2>1. sess[p] = [pc |-> "idle", shape |-> first, pos |-> 0, buf |-> <<>>,
                   temp |-> <<>>, mid |-> FALSE, sent |-> <<>>,
                   left |-> MaxLists, alone |-> TRUE]
    BY <1>5 DEF Init
  <2> QED
    BY <1>4, <2>1, ListAssumption DEF Session
<1>7. sess \in [Sessions -> Session]
  BY <1>6 DEF Init
<1>8. TypeOK
  <2>1. writable \in BOOLEAN
    BY DEF Init
  <2>2. \A p \in Sessions : Len(sess[p].temp) <= Width /\ Len(sess[p].buf) <= Block
    BY <1>4, <1>6, ListAssumption
  <2> QED
    BY <1>3, <1>7, <2>1, <2>2 DEF TypeOK, File
<1>9. \A p \in Sessions : Ordered(sess[p])
  <2>1. Len(first) \in Nat /\ Width \in Nat
    BY ShapeFacts, ListAssumption
  <2>2. /\ 0 \in 0..Len(<<>>) /\ 0 <= Len(first) /\ Len(<<>>) - 0 <= Least(0, Width)
        /\ 0 + 1..Len(<<>>) = {} /\ 1..0 - 1 = {}
    BY <1>4, <2>1 DEF Least
  <2>3. Closing(<<>>)
    BY <2>2 DEF Closing
  <2> QED
    BY <1>6, <2>3 DEF Ordered
<1>10. There /\ LeftAlone
  BY <1>1, <1>6 DEF There, LeftAlone
<1>11. \A p \in Sessions : ~ Busy(p)
  BY <1>6 DEF Busy
<1> QED
  BY <1>3, <1>8, <1>9, <1>10, <1>11 DEF LInv, Undisturbed

(* and through every step of every session.                                 *)
LEMMA StepInv == LInv /\ [Next]_vars => LInv'
<1> SUFFICES ASSUME LInv, [Next]_vars PROVE LInv'
  OBVIOUS
<1>1. CASE UNCHANGED vars
  BY <1>1 DEF vars, LInv, TypeOK, File, There, LeftAlone, Undisturbed, Exact,
              Busy, Owner, At
<1>2. ASSUME NEW p \in Sessions, List(p) PROVE LInv'
  BY <1>2, SystemKeeps, LsKeeps, OpenKeeps, FgetsKeeps, CloseKeeps DEF List
<1> QED
  BY <1>1, <1>2 DEF Next

(* So it always holds.                                                      *)
LEMMA Invariance == Spec => []LInv
BY InitInv, StepInv, PTL DEF Spec

-----------------------------------------------------------------------------
(* Of every session, what its stdio has read, fgets has returned and the    *)
(* process has sent are bytes, no more in tempBuffer than fgets returns at  *)
(* most, nor in the buffer of stdio than a block, and the file holds no     *)
(* more bytes than the longest listing, whichever shells write it at once.  *)
THEOREM TypeCorrect == Spec => []TypeOK
<1>1. LInv => TypeOK
  BY DEF LInv
<1> QED
  BY <1>1, Invariance, PTL

(* A LIST during which no other shell writes sends the listing it made, all *)
(* of it, in order, and what its last fgets returned twice (AloneExact);    *)
(* where the file cannot be written, the same of the listing left there.    *)
THEOREM ListedExactly == Spec => []AloneExact
<1>1. LInv => AloneExact
  <2> SUFFICES ASSUME LInv, NEW p \in Sessions, At(p, "close"), sess[p].alone
               PROVE  /\ \E a \in 1..Len(tmp) :
                           /\ LastPiece(tmp, a)
                           /\ sess[p].sent = tmp \o SubSeq(tmp, a, Len(tmp))
                      /\ writable => tmp = Whole(Owner(p), sess[p].shape)
    BY DEF AloneExact
  <2>1. Busy(p) /\ sess[p].pc = "close"
    BY DEF At, Busy
  <2> QED
    BY <2>1 DEF LInv, Undisturbed, Exact
<1> QED
  BY <1>1, Invariance, PTL

(* However the shells of other sessions empty and rewrite the file, a LIST  *)
(* goes through the offsets of it once, and repeats at most what it sent    *)
(* last (Forward).                                                          *)
THEOREM ReadForward == Spec => []Forward
<1>1. LInv => Forward
  <2> SUFFICES ASSUME LInv, NEW p \in Sessions
               PROVE  LET s == sess[p].sent IN
                      \E k \in 0..Len(s) :
                        /\ \A i \in 1..k - 1 : s[i].i < s[i + 1].i
                        /\ \E shape \in Shapes : k <= Len(shape)
                        /\ Len(s) - k <= Least(k, Width)
                        /\ \A i \in k + 1..Len(s) : s[i] = s[i - (Len(s) - k)]
                        /\ k < Len(s) => sess[p].pc \in {"close", "idle"}
    BY DEF Forward
  <2>1. sess[p] \in Session /\ Ordered(sess[p])
    BY DEF LInv, TypeOK
  <2>2. PICK s \in Seq(Byte) : s = sess[p].sent
    BY <2>1 DEF Session
  <2>3. CASE sess[p].pc \in {"close", "idle"}
    <3>1. Closing(s)
      BY <2>1, <2>2, <2>3 DEF Ordered
    <3> QED
      BY <2>2, <2>3, <3>1 DEF Closing
  <2>4. ASSUME \A i \in 1..Len(s) - 1 : s[i].i < s[i + 1].i,
               \E shape \in Shapes : Len(s) <= Len(shape)
        PROVE  \E k \in 0..Len(s) :
                 /\ \A i \in 1..k - 1 : s[i].i < s[i + 1].i
                 /\ \E shape \in Shapes : k <= Len(shape)
                 /\ Len(s) - k <= Least(k, Width)
                 /\ \A i \in k + 1..Len(s) : s[i] = s[i - (Len(s) - k)]
                 /\ k < Len(s) => sess[p].pc \in {"close", "idle"}
    <3>1. /\ Len(s) \in 0..Len(s) /\ Len(s) - Len(s) = 0
          /\ 0 <= Least(Len(s), Width) /\ Len(s) + 1..Len(s) = {}
          /\ ~ (Len(s) < Len(s))
      BY ListAssumption DEF Least
    <3> QED
      BY <2>4, <3>1
  <2>5. CASE sess[p].pc = "loop"
    <3>1. /\ InLoop(sess[p]) /\ sess[p].pos \in Nat /\ sess[p].buf \in Seq(Byte)
          /\ sess[p].temp \in Seq(Byte)
      BY <2>1, <2>5 DEF Ordered, Session
    <3>2. Passed(s, Sent(sess[p]))
      BY <2>2, <3>1 DEF InLoop
    <3>3. \A i \in 1..Len(s) - 1 : s[i].i < s[i + 1].i
      BY <3>2 DEF Passed, Rising
    <3>4. PICK shape \in Shapes : sess[p].pos <= Len(shape)
      BY <3>1 DEF InLoop
    <3>5. Len(s) \in Nat /\ Len(shape) \in Nat /\ Len(sess[p].buf) \in Nat
          /\ Len(sess[p].temp) \in Nat
      BY <3>1, ShapeFacts
    <3>6. Sent(sess[p]) \in Int /\ Sent(sess[p]) <= sess[p].pos
      <4>1. Returned(sess[p]) \in Int /\ Returned(sess[p]) <= sess[p].pos
        BY <3>1, <3>5 DEF Returned
      <4>2. Sent(sess[p]) \in {Returned(sess[p]),
                               Returned(sess[p]) - Len(sess[p].temp)}
        BY DEF Sent
      <4> QED
        BY <3>1, <3>5, <4>1, <4>2
    <3>7. Len(s) <= Len(shape)
      BY <3>1, <3>2, <3>4, <3>5, <3>6 DEF Passed
    <3> QED
      BY <2>2, <2>4, <3>3, <3>7
  <2>6. CASE sess[p].pc \in {"ls", "open", "dead"}
    <3>1. s = <<>>
      BY <2>1, <2>2, <2>6 DEF Ordered, Begun
    <3>2. PICK shape \in Shapes : TRUE
      BY ListAssumption
    <3>3. Len(shape) \in Nat /\ Len(s) = 0 /\ 1..Len(s) - 1 = {}
      BY <3>1, ShapeFacts
    <3>4. Len(s) <= Len(shape)
      BY <3>3
    <3> QED
      BY <2>2, <2>4, <3>3, <3>4
  <2> QED
    BY <2>1, <2>3, <2>5, <2>6 DEF Session
<1> QED
  BY <1>1, Invariance, PTL
=============================================================================
