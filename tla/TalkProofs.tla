------------------------------ MODULE TalkProofs ------------------------------
(* What Talk.tla promises for any number of users, processes and lines:       *)
(* types; that every line of a user is in one place, although two processes   *)
(* read one connection, and in order as long as one of them does; how many    *)
(* answers a client is behind and why it may wait for ever; and when          *)
(* processes of the server, or all of them, end.                              *)
EXTENDS Talk, StreamProofs, FiniteSetTheorems

(* A place is empty unless it is named; here are their names.               *)
Got == <<"got", None>>
Lost == <<"lost", None>>
Out == <<"out", None>>
In == <<"in", None>>
Kid == <<"child", None>>
Buf(p) == <<"rbuf", p>>

(* No number, other than the 0 of a hi, stands twice in a sequence of units. *)
Distinct(us) == \A i, j \in 1..Len(us) :
    us[i].n # 0 /\ us[i].n = us[j].n => i = j

(* The inductive invariant.  Only write has a buffer, in a process of the    *)
(* server as in the child of a client, which is there from the fork on; and  *)
(* of each client that is still served:                                      *)
Buffers ==
    /\ \A p \in Procs : proc[p].pc # "write" => proc[p].rbuf = <<>>
    /\ \A c \in Clients :
         /\ child[c] # "write" => rbuf[c] = <<>>
         /\ main[c].pc \in {"connect", "fork"} => child[c] = "none"

(* its lines are each in one place,                                          *)
Parted(c) ==
    /\ UNION {Numbered(c, x) : x \in Places} = 1..main[c].sent
    /\ \A x, y \in Places : x # y => Numbered(c, x) \cap Numbered(c, y) = {}

(* and once there.                                                           *)
Tidy(c) ==
    /\ Distinct(out(c)) /\ Distinct(chan[c].in["s"]) /\ Distinct(rbuf[c])
    /\ \A p \in Procs : proc[p].con = c => Distinct(proc[p].rbuf)

OneClient(c) ==
    Served(c) => chan[c].end["c"] = "open" /\ Parted(c) /\ Tidy(c)

IInv == TypeOK /\ Buffers /\ \A c \in Clients : OneClient(c)

-----------------------------------------------------------------------------
(* The numbers of sequences of units.                                        *)
LEMMA NumbersEmpty == Numbers(<<>>) = {} /\ Distinct(<<>>)
BY DEF Numbers, Distinct

LEMMA NumbersOne ==
    ASSUME NEW u \in Unit
    PROVE  Numbers(<<u>>) = {u.n} \ {0} /\ Distinct(<<u>>)
<1>1. Len(<<u>>) = 1 /\ <<u>>[1] = u /\ 1..1 = {1}
  OBVIOUS
<1> QED
  BY <1>1 DEF Numbers, Distinct

(* What is received and what is left.                                        *)
LEMMA NumbersSplit ==
    ASSUME NEW us \in Seq(Unit), NEW j \in 1..Len(us)
    PROVE  LET a == SubSeq(us, 1, j)
               b == SubSeq(us, j + 1, Len(us))
           IN /\ a \in Seq(Unit) /\ b \in Seq(Unit)
              /\ Numbers(us) = Numbers(a) \cup Numbers(b)
              /\ Distinct(us) => /\ Numbers(a) \cap Numbers(b) = {}
                                 /\ Distinct(a) /\ Distinct(b)
<1> DEFINE a == SubSeq(us, 1, j)
           b == SubSeq(us, j + 1, Len(us))
<1>1. /\ a \in Seq(Unit) /\ b \in Seq(Unit)
      /\ Len(a) = j /\ Len(b) = Len(us) - j
      /\ \A i \in 1..Len(a) : a[i] = us[i]
      /\ \A i \in 1..Len(b) : b[i] = us[i + j]
  OBVIOUS
<1>2. j \in Nat /\ Len(us) \in Nat /\ j <= Len(us)
  OBVIOUS
<1> HIDE DEF a, b
<1>3. ASSUME NEW n PROVE n \in Numbers(us) <=> n \in Numbers(a) \cup Numbers(b)
  <2>1. ASSUME n \in Numbers(us) PROVE n \in Numbers(a) \cup Numbers(b)
    <3>1. PICK i \in 1..Len(us) : us[i].n = n /\ n # 0
      BY <2>1 DEF Numbers
    <3>2. CASE i <= j
      <4>1. i \in 1..Len(a) /\ a[i] = us[i]
        BY <1>1, <1>2, <3>2
      <4> QED
        BY <3>1, <4>1 DEF Numbers
    <3>3. CASE i > j
      <4>1. i - j \in 1..Len(b) /\ (i - j) + j = i
        BY <1>1, <1>2, <3>3
      <4>2. b[i - j] = us[i]
        BY <1>1, <4>1
      <4> QED
        BY <3>1, <4>1, <4>2 DEF Numbers
    <3> QED
      BY <1>2, <3>2, <3>3
  <2>2. ASSUME n \in Numbers(a) PROVE n \in Numbers(us)
    BY <1>1, <1>2, <2>2 DEF Numbers
  <2>3. ASSUME n \in Numbers(b) PROVE n \in Numbers(us)
    <3>1. PICK i \in 1..Len(b) : b[i].n = n /\ n # 0
      BY <2>3 DEF Numbers
    <3>2. i + j \in 1..Len(us) /\ us[i + j] = b[i]
      BY <1>1, <1>2
    <3> QED
      BY <3>1, <3>2 DEF Numbers
  <2> QED
    BY <2>1, <2>2, <2>3
<1>4. ASSUME Distinct(us)
      PROVE  Numbers(a) \cap Numbers(b) = {} /\ Distinct(a) /\ Distinct(b)
  <2>1. ASSUME NEW n \in Numbers(a), n \in Numbers(b) PROVE FALSE
    <3>1. PICK i \in 1..Len(a) : a[i].n = n /\ n # 0
      BY <2>1 DEF Numbers
    <3>2. PICK k \in 1..Len(b) : b[k].n = n
      BY <2>1 DEF Numbers
    <3>3. /\ i \in 1..Len(us) /\ k + j \in 1..Len(us) /\ i # k + j
          /\ us[i].n = n /\ us[k + j].n = n
      BY <1>1, <1>2, <3>1, <3>2
    <3> QED
      BY <1>4, <3>1, <3>3 DEF Distinct
  <2>2. Distinct(a)
    <3>1. \A i \in 1..Len(a) : i \in 1..Len(us) /\ a[i] = us[i]
      BY <1>1, <1>2
    <3> QED
      BY <1>4, <3>1 DEF Distinct
  <2>3. Distinct(b)
    <3> SUFFICES ASSUME NEW i \in 1..Len(b), NEW k \in 1..Len(b),
                        b[i].n # 0, b[i].n = b[k].n
                 PROVE  i = k
      BY DEF Distinct
    <3>1. /\ i + j \in 1..Len(us) /\ k + j \in 1..Len(us)
          /\ b[i] = us[i + j] /\ b[k] = us[k + j]
      BY <1>1, <1>2
    <3>2. i + j = k + j
      BY <1>4, <3>1 DEF Distinct
    <3> QED
      BY <1>1, <1>2, <3>2
  <2> QED
    BY <2>1, <2>2, <2>3
<1>5. /\ a \in Seq(Unit) /\ b \in Seq(Unit)
      /\ Numbers(us) = Numbers(a) \cup Numbers(b)
      /\ Distinct(us) => /\ Numbers(a) \cap Numbers(b) = {}
                         /\ Distinct(a) /\ Distinct(b)
  BY <1>1, <1>3, <1>4
<1> QED
  BY <1>5 DEF a, b

(* What is sent after what waits.                                            *)
LEMMA NumbersConcat ==
    ASSUME NEW us \in Seq(Unit), NEW vs \in Seq(Unit)
    PROVE  /\ us \o vs \in Seq(Unit)
           /\ Numbers(us \o vs) = Numbers(us) \cup Numbers(vs)
           /\ (Distinct(us) /\ Distinct(vs) /\ Numbers(us) \cap Numbers(vs) = {})
                => Distinct(us \o vs)
<1> DEFINE w == us \o vs
           m == Len(us)
<1>1. /\ w \in Seq(Unit) /\ Len(w) = m + Len(vs) /\ m \in Nat /\ Len(vs) \in Nat
      /\ \A i \in 1..Len(us) : w[i] = us[i]
      /\ \A i \in 1..Len(vs) : w[i + m] = vs[i]
  OBVIOUS
<1>2. m = Len(us)
  OBVIOUS
<1> HIDE DEF w, m
<1>3. ASSUME NEW i \in 1..Len(w)
      PROVE  \/ i \in 1..m /\ w[i] = us[i]
             \/ i - m \in 1..Len(vs) /\ w[i] = vs[i - m]
  <2>1. CASE i <= m
    BY <1>1, <1>2, <2>1
  <2>2. CASE i > m
    <3>1. i - m \in 1..Len(vs) /\ (i - m) + m = i
      BY <1>1, <2>2
    <3> QED
      BY <1>1, <3>1
  <2> QED
    BY <1>1, <2>1, <2>2
<1>4. ASSUME NEW n PROVE n \in Numbers(w) <=> n \in Numbers(us) \cup Numbers(vs)
  <2>1. ASSUME n \in Numbers(w) PROVE n \in Numbers(us) \cup Numbers(vs)
    <3>1. PICK i \in 1..Len(w) : w[i].n = n /\ n # 0
      BY <2>1 DEF Numbers
    <3> QED
      BY <1>2, <1>3, <3>1 DEF Numbers
  <2>2. ASSUME n \in Numbers(us) PROVE n \in Numbers(w)
    <3>1. PICK i \in 1..Len(us) : us[i].n = n /\ n # 0
      BY <2>2 DEF Numbers
    <3>2. i \in 1..Len(w) /\ w[i] = us[i]
      BY <1>1, <1>2
    <3> QED
      BY <3>1, <3>2 DEF Numbers
  <2>3. ASSUME n \in Numbers(vs) PROVE n \in Numbers(w)
    <3>1. PICK i \in 1..Len(vs) : vs[i].n = n /\ n # 0
      BY <2>3 DEF Numbers
    <3>2. i + m \in 1..Len(w) /\ w[i + m] = vs[i]
      BY <1>1
    <3> QED
      BY <3>1, <3>2 DEF Numbers
  <2> QED
    BY <2>1, <2>2, <2>3
<1>5. ASSUME Distinct(us), Distinct(vs), Numbers(us) \cap Numbers(vs) = {}
      PROVE  Distinct(w)
  <2> SUFFICES ASSUME NEW i \in 1..Len(w), NEW k \in 1..Len(w),
                      w[i].n # 0, w[i].n = w[k].n
               PROVE  i = k
    BY DEF Distinct
  <2>1. ASSUME NEW x \in 1..m, w[x] = us[x], NEW y \in 1..Len(w),
               y - m \in 1..Len(vs), w[y] = vs[y - m],
               w[x].n # 0, w[x].n = w[y].n
        PROVE  FALSE
    <3>1. w[x].n \in Numbers(us) /\ w[x].n \in Numbers(vs)
      BY <1>2, <2>1 DEF Numbers
    <3> QED
      BY <1>5, <3>1
  <2>2. CASE i \in 1..m /\ w[i] = us[i] /\ k \in 1..m /\ w[k] = us[k]
    BY <1>2, <1>5, <2>2 DEF Distinct
  <2>3. CASE /\ i - m \in 1..Len(vs) /\ w[i] = vs[i - m]
             /\ k - m \in 1..Len(vs) /\ w[k] = vs[k - m]
    <3>1. i - m = k - m
      BY <1>5, <2>3 DEF Distinct
    <3> QED
      BY <1>1, <3>1
  <2> QED
    BY <1>3, <2>1, <2>2, <2>3
<1>6. /\ w \in Seq(Unit)
      /\ Numbers(w) = Numbers(us) \cup Numbers(vs)
      /\ (Distinct(us) /\ Distinct(vs) /\ Numbers(us) \cap Numbers(vs) = {})
           => Distinct(w)
  BY <1>1, <1>4, <1>5
<1> QED
  BY <1>6 DEF w

-----------------------------------------------------------------------------
(* Places P with the numbers N, then M: some numbers A change places,        *)
LEMMA Moved ==
    ASSUME NEW P, NEW N, NEW M, NEW S, NEW A,
           NEW x0 \in P, NEW y0 \in P, x0 # y0,
           N[x0] = M[x0] \cup A, M[x0] \cap A = {}, M[y0] = N[y0] \cup A,
           \A z \in P : z # x0 /\ z # y0 => M[z] = N[z],
           UNION {N[x] : x \in P} = S,
           \A x, y \in P : x # y => N[x] \cap N[y] = {}
    PROVE  /\ UNION {M[x] : x \in P} = S
           /\ \A x, y \in P : x # y => M[x] \cap M[y] = {}
<1>1. ASSUME NEW n PROVE (\E x \in P : n \in M[x]) <=> (\E x \in P : n \in N[x])
  <2>1. ASSUME NEW x \in P, n \in M[x] PROVE \E z \in P : n \in N[z]
    BY <2>1
  <2>2. ASSUME NEW x \in P, n \in N[x] PROVE \E z \in P : n \in M[z]
    BY <2>2
  <2> QED
    BY <2>1, <2>2
<1>2. UNION {M[x] : x \in P} = UNION {N[x] : x \in P}
  BY <1>1
<1>3. ASSUME NEW x \in P, NEW y \in P, x # y, NEW n, n \in M[x], n \in M[y]
      PROVE  FALSE
  <2>1. N[x0] \cap N[y0] = {}
    OBVIOUS
  <2>2. CASE x = x0 /\ y = y0
    BY <1>3, <2>1, <2>2
  <2>3. CASE x = y0 /\ y = x0
    BY <1>3, <2>1, <2>3
  <2>4. CASE x = x0 /\ y # y0
    BY <1>3, <2>4
  <2>5. CASE y = x0 /\ x # y0
    BY <1>3, <2>5
  <2>6. CASE x = y0 /\ y # x0
    <3>1. M[y] = N[y] /\ N[y] \cap N[x0] = {} /\ N[y] \cap N[y0] = {}
      BY <1>3, <2>6
    <3> QED
      BY <1>3, <2>6, <3>1
  <2>7. CASE y = y0 /\ x # x0
    <3>1. M[x] = N[x] /\ N[x] \cap N[x0] = {} /\ N[x] \cap N[y0] = {}
      BY <1>3, <2>7
    <3> QED
      BY <1>3, <2>7, <3>1
  <2>8. CASE x \notin {x0, y0} /\ y \notin {x0, y0}
    BY <1>3, <2>8
  <2> QED
    BY <2>2, <2>3, <2>4, <2>5, <2>6, <2>7, <2>8
<1> QED
  BY <1>2, <1>3

(* or a new number comes in.                                                 *)
LEMMA Added ==
    ASSUME NEW P, NEW N, NEW M, NEW S, NEW e, NEW x0 \in P,
           e \notin S, M[x0] = N[x0] \cup {e},
           \A z \in P : z # x0 => M[z] = N[z],
           UNION {N[x] : x \in P} = S,
           \A x, y \in P : x # y => N[x] \cap N[y] = {}
    PROVE  /\ UNION {M[x] : x \in P} = S \cup {e}
           /\ \A x, y \in P : x # y => M[x] \cap M[y] = {}
<1>1. \A x \in P : e \notin N[x]
  OBVIOUS
<1>2. UNION {M[x] : x \in P} = (UNION {N[x] : x \in P}) \cup {e}
  OBVIOUS
<1>3. ASSUME NEW x \in P, NEW y \in P, x # y, NEW n, n \in M[x], n \in M[y]
      PROVE  FALSE
  BY <1>1, <1>3
<1> QED
  BY <1>2, <1>3

-----------------------------------------------------------------------------
(* The places of Talk.tla.                                                   *)
LEMMA PlacesAre ==
    /\ Got \in Places /\ Lost \in Places /\ Out \in Places /\ In \in Places
    /\ Kid \in Places /\ \A p \in Procs : Buf(p) \in Places
    /\ \A x \in Places : x \in {Got, Lost, Out, In, Kid} \/ \E p \in Procs : x = Buf(p)
    /\ Got # Lost /\ Got # Out /\ Got # In /\ Lost # Out /\ Lost # In /\ Out # In
    /\ Kid \notin {Got, Lost, Out, In}
    /\ \A p \in Procs : Buf(p) \notin {Got, Lost, Out, In, Kid}
    /\ \A p, q \in Procs : Buf(p) = Buf(q) => p = q
BY DEF Places, Got, Lost, Out, In, Kid, Buf

(* What each holds of a client's lines.                                      *)
LEMMA NumberedAre ==
    ASSUME NEW c
    PROVE  /\ Numbered(c, Got) = main[c].got
           /\ Numbered(c, Lost) = hist[c].lost
           /\ Numbered(c, Out) = Numbers(out(c))
           /\ Numbered(c, In) = Numbers(chan[c].in["s"])
           /\ Numbered(c, Kid) = Numbers(rbuf[c])
           /\ \A p \in Procs : Numbered(c, Buf(p)) =
                IF proc[p].con = c THEN Numbers(proc[p].rbuf) ELSE {}
BY DEF Numbered, Got, Lost, Out, In, Kid, Buf

(* The same of the next state.                                               *)
LEMMA NumberedNext ==
    ASSUME NEW c
    PROVE  /\ Numbered(c, Got)' = main'[c].got
           /\ Numbered(c, Lost)' = hist'[c].lost
           /\ Numbered(c, Out)' = Numbers(chan'[c].in["c"])
           /\ Numbered(c, In)' = Numbers(chan'[c].in["s"])
           /\ Numbered(c, Kid)' = Numbers(rbuf'[c])
           /\ \A p \in Procs : Numbered(c, Buf(p))' =
                IF proc'[p].con = c THEN Numbers(proc'[p].rbuf) ELSE {}
BY DEF Numbered, Got, Lost, Out, In, Kid, Buf, Numbers, out

(* A buffer that stays holds the same lines.                                 *)
LEMMA SameBuf ==
    ASSUME NEW c, NEW p \in Procs,
           proc'[p].con = proc[p].con, proc'[p].rbuf = proc[p].rbuf
    PROVE  Numbered(c, Buf(p))' = Numbered(c, Buf(p))
<1>1. Numbered(c, Buf(p)) = IF proc[p].con = c THEN Numbers(proc[p].rbuf) ELSE {}
  BY NumberedAre
<1>2. Numbered(c, Buf(p))' = IF proc'[p].con = c THEN Numbers(proc'[p].rbuf) ELSE {}
  BY NumberedNext
<1> QED
  BY <1>1, <1>2

(* Tidy, of the next state.                                                  *)
LEMMA TidyNext ==
    ASSUME NEW c
    PROVE  Tidy(c)' <=>
             /\ Distinct(chan'[c].in["c"]) /\ Distinct(chan'[c].in["s"])
             /\ Distinct(rbuf'[c])
             /\ \A p \in Procs : proc'[p].con = c => Distinct(proc'[p].rbuf)
BY DEF Tidy, out, Distinct

(* Lines A of one client go from x0 to y0.                                   *)
LEMMA PartMoved ==
    ASSUME NEW c, Parted(c), NEW A, NEW x0 \in Places, NEW y0 \in Places, x0 # y0,
           Numbered(c, x0) = Numbered(c, x0)' \cup A,
           Numbered(c, x0)' \cap A = {},
           Numbered(c, y0)' = Numbered(c, y0) \cup A,
           \A z \in Places : z # x0 /\ z # y0 => Numbered(c, z)' = Numbered(c, z),
           main'[c].sent = main[c].sent
    PROVE  Parted(c)'
<1> DEFINE N == [x \in Places |-> Numbered(c, x)]
           M == [x \in Places |-> Numbered(c, x)']
           S == 1..main[c].sent
<1>1. /\ UNION {N[x] : x \in Places} = S
      /\ \A x, y \in Places : x # y => N[x] \cap N[y] = {}
  <2>1. {N[x] : x \in Places} = {Numbered(c, x) : x \in Places}
    OBVIOUS
  <2> QED
    BY <2>1 DEF Parted
<1>2. /\ N[x0] = M[x0] \cup A /\ M[x0] \cap A = {} /\ M[y0] = N[y0] \cup A
      /\ \A z \in Places : z # x0 /\ z # y0 => M[z] = N[z]
  OBVIOUS
<1> HIDE DEF N, M, S
<1>3. /\ UNION {M[x] : x \in Places} = S
      /\ \A x, y \in Places : x # y => M[x] \cap M[y] = {}
  BY <1>1, <1>2, Moved
<1>4. /\ {M[x] : x \in Places} = {Numbered(c, x)' : x \in Places}
      /\ \A x \in Places : M[x] = Numbered(c, x)'
      /\ S = 1..main'[c].sent
  BY DEF M, S
<1> QED
  BY <1>3, <1>4 DEF Parted

(* No line moves.                                                            *)
LEMMA PartSame ==
    ASSUME NEW c, Parted(c),
           \A z \in Places : Numbered(c, z)' = Numbered(c, z),
           main'[c].sent = main[c].sent
    PROVE  Parted(c)'
<1>1. /\ Got \in Places /\ Lost \in Places /\ Got # Lost
      /\ Numbered(c, Got) = Numbered(c, Got)' \cup {}
      /\ Numbered(c, Lost)' = Numbered(c, Lost) \cup {}
      /\ Numbered(c, Got)' \cap {} = {}
  BY PlacesAre
<1> QED
  BY <1>1, PartMoved

(* A line is sent.                                                           *)
LEMMA PartAdded ==
    ASSUME NEW c, Parted(c), NEW s \in Nat, main[c].sent = s,
           Numbered(c, In)' = Numbered(c, In) \cup {s + 1},
           \A z \in Places : z # In => Numbered(c, z)' = Numbered(c, z),
           main'[c].sent = s + 1
    PROVE  Parted(c)'
<1> DEFINE N == [x \in Places |-> Numbered(c, x)]
           M == [x \in Places |-> Numbered(c, x)']
           S == 1..s
           e == s + 1
<1>1. /\ UNION {N[x] : x \in Places} = S
      /\ \A x, y \in Places : x # y => N[x] \cap N[y] = {}
  <2>1. {N[x] : x \in Places} = {Numbered(c, x) : x \in Places}
    OBVIOUS
  <2> QED
    BY <2>1 DEF Parted
<1>2. /\ In \in Places /\ M[In] = N[In] \cup {e}
      /\ \A z \in Places : z # In => M[z] = N[z]
  BY PlacesAre
<1>5. e \notin S /\ S \cup {e} = 1..s + 1
  OBVIOUS
<1> HIDE DEF N, M, S, e
<1>3. /\ UNION {M[x] : x \in Places} = S \cup {e}
      /\ \A x, y \in Places : x # y => M[x] \cap M[y] = {}
  BY ONLY <1>1, <1>2, <1>5, Added
<1>4. /\ {M[x] : x \in Places} = {Numbered(c, x)' : x \in Places}
      /\ \A x \in Places : M[x] = Numbered(c, x)'
  BY DEF M
<1> QED
  BY <1>3, <1>4, <1>5 DEF Parted

-----------------------------------------------------------------------------
(* A client none of whose lines a step moves.  Its descriptors may be closed *)
(* by others, and processes may come and go, with empty buffers.             *)
SameLines(c) ==
    /\ main'[c] = main[c] /\ hist'[c].lost = hist[c].lost /\ rbuf'[c] = rbuf[c]
    /\ chan'[c].in = chan[c].in /\ chan'[c].end["c"] = chan[c].end["c"]
    /\ \A p \in Procs :
         /\ proc'[p].con = c =>
              \/ proc'[p].rbuf = <<>>
              \/ proc[p].con = c /\ proc'[p].rbuf = proc[p].rbuf
         /\ (proc[p].con = c /\ proc[p].rbuf # <<>>) =>
              (proc'[p].con = c /\ proc'[p].rbuf = proc[p].rbuf)

(* A client a step does not concern keeps what the invariant says of it.     *)
LEMMA Untouched ==
    ASSUME NEW c, OneClient(c), Served(c)' => Served(c) /\ SameLines(c)
    PROVE  OneClient(c)'
<1> SUFFICES ASSUME Served(c)'
             PROVE  (chan[c].end["c"] = "open" /\ Parted(c) /\ Tidy(c))'
  BY DEF OneClient
<1>1. /\ Served(c) /\ SameLines(c)
      /\ chan[c].end["c"] = "open" /\ Parted(c) /\ Tidy(c)
  BY DEF OneClient
<1>2. \A z \in Places : Numbered(c, z)' = Numbered(c, z)
  <2>1. ASSUME NEW p \in Procs PROVE Numbered(c, Buf(p))' = Numbered(c, Buf(p))
    <3>1. /\ proc'[p].con = c =>
               \/ proc'[p].rbuf = <<>>
               \/ proc[p].con = c /\ proc'[p].rbuf = proc[p].rbuf
          /\ (proc[p].con = c /\ proc[p].rbuf # <<>>) =>
               (proc'[p].con = c /\ proc'[p].rbuf = proc[p].rbuf)
      BY <1>1 DEF SameLines
    <3>2. /\ Numbered(c, Buf(p)) =
               IF proc[p].con = c THEN Numbers(proc[p].rbuf) ELSE {}
          /\ Numbered(c, Buf(p))' =
               IF proc'[p].con = c THEN Numbers(proc'[p].rbuf) ELSE {}
      BY NumberedAre, NumberedNext
    <3>3. CASE proc[p].con = c /\ proc[p].rbuf # <<>>
      BY <3>1, <3>2, <3>3
    <3>4. CASE proc[p].con # c \/ proc[p].rbuf = <<>>
      <4>1. Numbered(c, Buf(p)) = {}
        BY <3>2, <3>4, NumbersEmpty
      <4>2. Numbered(c, Buf(p))' = {}
        BY <3>1, <3>2, <3>4, NumbersEmpty
      <4> QED
        BY <4>1, <4>2
    <3> QED
      BY <3>3, <3>4
  <2>2. /\ Numbered(c, Got)' = Numbered(c, Got)
        /\ Numbered(c, Lost)' = Numbered(c, Lost)
        /\ Numbered(c, Out)' = Numbered(c, Out)
        /\ Numbered(c, In)' = Numbered(c, In)
        /\ Numbered(c, Kid)' = Numbered(c, Kid)
    BY <1>1, NumberedAre, NumberedNext DEF SameLines, out
  <2> QED
    BY <2>1, <2>2, PlacesAre
<1>3. Parted(c)'
  BY <1>1, <1>2, PartSame DEF SameLines
<1>4. Tidy(c)'
  <2>1. ASSUME NEW p \in Procs, proc'[p].con = c PROVE Distinct(proc'[p].rbuf)
    BY <1>1, <2>1, NumbersEmpty DEF SameLines, Tidy
  <2> QED
    BY <1>1, <2>1 DEF Tidy, SameLines, out, Distinct
<1> QED
  BY <1>1, <1>3, <1>4 DEF SameLines

-----------------------------------------------------------------------------
(* The four ways the server moves the lines of a client.                     *)
SameMain(c) == main'[c] = main[c] /\ child'[c] = child[c] /\ rbuf'[c] = rbuf[c]

(* The lines in what was read are lost,                                      *)
LEMMA ReadsLost ==
    ASSUME NEW c, chan[c].in["s"] \in Seq(Unit), NEW j \in 1..Len(chan[c].in["s"]),
           chan[c].end["c"] = "open", Parted(c), Tidy(c), SameMain(c),
           chan'[c].end = chan[c].end, chan'[c].in["c"] = chan[c].in["c"],
           chan'[c].in["s"] = SubSeq(chan[c].in["s"], j + 1, Len(chan[c].in["s"])),
           hist'[c].lost =
             hist[c].lost \cup Numbers(SubSeq(chan[c].in["s"], 1, j)),
           \A p \in Procs : /\ proc'[p].con = proc[p].con
                            /\ proc'[p].rbuf = proc[p].rbuf
    PROVE  Parted(c)' /\ Tidy(c)' /\ chan'[c].end["c"] = "open"
<1> DEFINE us == chan[c].in["s"]
           a == SubSeq(us, 1, j)
           b == SubSeq(us, j + 1, Len(us))
<1>1. /\ Numbers(us) = Numbers(a) \cup Numbers(b)
      /\ Numbers(a) \cap Numbers(b) = {} /\ Distinct(b)
  BY NumbersSplit DEF Tidy
<1>2. chan'[c].in["s"] = b /\ hist'[c].lost = hist[c].lost \cup Numbers(a)
  OBVIOUS
<1> HIDE DEF us, a, b
<1>3. /\ In \in Places /\ Lost \in Places /\ In # Lost
      /\ Numbered(c, In) = Numbered(c, In)' \cup Numbers(a)
      /\ Numbered(c, In)' \cap Numbers(a) = {}
      /\ Numbered(c, Lost)' = Numbered(c, Lost) \cup Numbers(a)
  BY <1>1, <1>2, PlacesAre, NumberedAre, NumberedNext DEF us
<1>4. \A z \in Places : z # In /\ z # Lost => Numbered(c, z)' = Numbered(c, z)
  <2>1. /\ Numbered(c, Got)' = Numbered(c, Got)
        /\ Numbered(c, Out)' = Numbered(c, Out)
        /\ Numbered(c, Kid)' = Numbered(c, Kid)
    BY NumberedAre, NumberedNext DEF SameMain, out
  <2>2. \A p \in Procs : Numbered(c, Buf(p))' = Numbered(c, Buf(p))
    BY SameBuf
  <2> QED
    BY <2>1, <2>2, PlacesAre
<1>5. main'[c].sent = main[c].sent
  BY DEF SameMain
<1>6. Parted(c)'
  BY <1>3, <1>4, <1>5, PartMoved
<1>7. Tidy(c)'
  BY <1>1, <1>2, TidyNext DEF Tidy, SameMain, out
<1> QED
  BY <1>6, <1>7

(* or kept in the buffer of the process that read,                           *)
LEMMA ReadsKept ==
    ASSUME NEW c, chan[c].in["s"] \in Seq(Unit), NEW j \in 1..Len(chan[c].in["s"]),
           chan[c].end["c"] = "open", Parted(c), Tidy(c), SameMain(c),
           chan'[c].end = chan[c].end, chan'[c].in["c"] = chan[c].in["c"],
           chan'[c].in["s"] = SubSeq(chan[c].in["s"], j + 1, Len(chan[c].in["s"])),
           hist'[c].lost = hist[c].lost,
           NEW p \in Procs, proc[p].con = c, proc'[p].con = c,
           proc[p].rbuf = <<>>, proc'[p].rbuf = SubSeq(chan[c].in["s"], 1, j),
           \A q \in Procs \ {p} : /\ proc'[q].con = proc[q].con
                                  /\ proc'[q].rbuf = proc[q].rbuf
    PROVE  Parted(c)' /\ Tidy(c)' /\ chan'[c].end["c"] = "open"
<1> DEFINE us == chan[c].in["s"]
           a == SubSeq(us, 1, j)
           b == SubSeq(us, j + 1, Len(us))
<1>1. /\ Numbers(us) = Numbers(a) \cup Numbers(b)
      /\ Numbers(a) \cap Numbers(b) = {} /\ Distinct(a) /\ Distinct(b)
  BY NumbersSplit DEF Tidy
<1>2. chan'[c].in["s"] = b /\ proc'[p].rbuf = a
  OBVIOUS
<1> HIDE DEF us, a, b
<1>3. /\ In \in Places /\ Buf(p) \in Places /\ In # Buf(p)
      /\ Numbered(c, In) = Numbered(c, In)' \cup Numbers(a)
      /\ Numbered(c, In)' \cap Numbers(a) = {}
      /\ Numbered(c, Buf(p))' = Numbered(c, Buf(p)) \cup Numbers(a)
  <2>1. In \in Places /\ Buf(p) \in Places /\ In # Buf(p)
    BY PlacesAre
  <2>2. Numbered(c, In) = Numbers(us) /\ Numbered(c, In)' = Numbers(b)
    BY <1>2, NumberedAre, NumberedNext DEF us
  <2>3. Numbered(c, Buf(p)) = {} /\ Numbered(c, Buf(p))' = Numbers(a)
    BY <1>2, NumberedAre, NumberedNext, NumbersEmpty
  <2> QED
    BY <1>1, <2>1, <2>2, <2>3
<1>4. \A z \in Places : z # In /\ z # Buf(p) => Numbered(c, z)' = Numbered(c, z)
  <2>1. /\ Numbered(c, Got)' = Numbered(c, Got)
        /\ Numbered(c, Out)' = Numbered(c, Out)
        /\ Numbered(c, Lost)' = Numbered(c, Lost)
        /\ Numbered(c, Kid)' = Numbered(c, Kid)
    BY NumberedAre, NumberedNext DEF SameMain, out
  <2>2. \A q \in Procs \ {p} : Numbered(c, Buf(q))' = Numbered(c, Buf(q))
    BY SameBuf
  <2> QED
    BY <2>1, <2>2, PlacesAre
<1>5. main'[c].sent = main[c].sent
  BY DEF SameMain
<1>6. Parted(c)'
  BY <1>3, <1>4, <1>5, PartMoved
<1>7. Tidy(c)'
  BY <1>1, <1>2, TidyNext DEF Tidy, SameMain, out
<1> QED
  BY <1>6, <1>7

(* from where they are sent back                                             *)
LEMMA WritesBack ==
    ASSUME NEW c, chan[c].in["c"] \in Seq(Unit),
           chan[c].end["c"] = "open", Parted(c), Tidy(c), SameMain(c),
           chan'[c].end["c"] = "open", chan'[c].in["s"] = chan[c].in["s"],
           hist'[c].lost = hist[c].lost,
           NEW p \in Procs, proc[p].con = c, proc'[p].con = c,
           proc[p].rbuf \in Seq(Unit), proc'[p].rbuf = <<>>,
           chan'[c].in["c"] = chan[c].in["c"] \o proc[p].rbuf,
           \A q \in Procs \ {p} : /\ proc'[q].con = proc[q].con
                                  /\ proc'[q].rbuf = proc[q].rbuf
    PROVE  Parted(c)' /\ Tidy(c)'
<1> DEFINE us == chan[c].in["c"]
           vs == proc[p].rbuf
<1>1. Numbers(us) \cap Numbers(vs) = {}
  <2>1. Numbered(c, Out) \cap Numbered(c, Buf(p)) = {}
    BY PlacesAre DEF Parted
  <2> QED
    BY <2>1, NumberedAre DEF out
<1>2. /\ Numbers(us \o vs) = Numbers(us) \cup Numbers(vs)
      /\ Distinct(us \o vs)
  BY <1>1, NumbersConcat DEF Tidy, out
<1>3. /\ Out \in Places /\ Buf(p) \in Places /\ Out # Buf(p)
      /\ Numbered(c, Buf(p)) = Numbered(c, Buf(p))' \cup Numbers(vs)
      /\ Numbered(c, Buf(p))' \cap Numbers(vs) = {}
      /\ Numbered(c, Out)' = Numbered(c, Out) \cup Numbers(vs)
  <2>1. Out \in Places /\ Buf(p) \in Places /\ Out # Buf(p)
    BY PlacesAre
  <2>2. Numbered(c, Buf(p))' = {} /\ Numbered(c, Buf(p)) = Numbers(vs)
    BY NumberedAre, NumberedNext, NumbersEmpty
  <2>3. Numbered(c, Out)' = Numbered(c, Out) \cup Numbers(vs)
    BY <1>2, NumberedAre, NumberedNext DEF out
  <2> QED
    BY <2>1, <2>2, <2>3
<1>4. \A z \in Places : z # Buf(p) /\ z # Out => Numbered(c, z)' = Numbered(c, z)
  <2>1. /\ Numbered(c, Got)' = Numbered(c, Got)
        /\ Numbered(c, In)' = Numbered(c, In)
        /\ Numbered(c, Lost)' = Numbered(c, Lost)
        /\ Numbered(c, Kid)' = Numbered(c, Kid)
    BY NumberedAre, NumberedNext DEF SameMain, out
  <2>2. \A q \in Procs \ {p} : Numbered(c, Buf(q))' = Numbered(c, Buf(q))
    BY SameBuf
  <2> QED
    BY <2>1, <2>2, PlacesAre
<1>5. main'[c].sent = main[c].sent
  BY DEF SameMain
<1>6. Parted(c)'
  BY <1>3, <1>4, <1>5, PartMoved
<1>7. Tidy(c)'
  BY <1>2, NumbersEmpty, TidyNext DEF Tidy, SameMain, out
<1> QED
  BY <1>6, <1>7

(* or lost with it.                                                          *)
LEMMA DropsBuffer ==
    ASSUME NEW c, chan[c].end["c"] = "open", Parted(c), Tidy(c), SameMain(c),
           chan'[c] = chan[c],
           NEW p \in Procs, proc[p].con = c, proc'[p].con = c, proc'[p].rbuf = <<>>,
           hist'[c].lost = hist[c].lost \cup Numbers(proc[p].rbuf),
           \A q \in Procs \ {p} : /\ proc'[q].con = proc[q].con
                                  /\ proc'[q].rbuf = proc[q].rbuf
    PROVE  Parted(c)' /\ Tidy(c)' /\ chan'[c].end["c"] = "open"
<1> DEFINE vs == proc[p].rbuf
<1>1. /\ Lost \in Places /\ Buf(p) \in Places /\ Lost # Buf(p)
      /\ Numbered(c, Buf(p)) = Numbered(c, Buf(p))' \cup Numbers(vs)
      /\ Numbered(c, Buf(p))' \cap Numbers(vs) = {}
      /\ Numbered(c, Lost)' = Numbered(c, Lost) \cup Numbers(vs)
  <2>1. Lost \in Places /\ Buf(p) \in Places /\ Lost # Buf(p)
    BY PlacesAre
  <2>2. Numbered(c, Buf(p))' = {} /\ Numbered(c, Buf(p)) = Numbers(vs)
    BY NumberedAre, NumberedNext, NumbersEmpty
  <2>3. Numbered(c, Lost)' = Numbered(c, Lost) \cup Numbers(vs)
    BY NumberedAre, NumberedNext
  <2> QED
    BY <2>1, <2>2, <2>3
<1>2. \A z \in Places : z # Buf(p) /\ z # Lost => Numbered(c, z)' = Numbered(c, z)
  <2>1. /\ Numbered(c, Got)' = Numbered(c, Got)
        /\ Numbered(c, In)' = Numbered(c, In)
        /\ Numbered(c, Out)' = Numbered(c, Out)
        /\ Numbered(c, Kid)' = Numbered(c, Kid)
    BY NumberedAre, NumberedNext DEF SameMain, out
  <2>2. \A q \in Procs \ {p} : Numbered(c, Buf(q))' = Numbered(c, Buf(q))
    BY SameBuf
  <2> QED
    BY <2>1, <2>2, PlacesAre
<1>3. main'[c].sent = main[c].sent
  BY DEF SameMain
<1>4. Parted(c)'
  BY <1>1, <1>2, <1>3, PartMoved
<1>5. Tidy(c)'
  BY NumbersEmpty, TidyNext DEF Tidy, SameMain, out
<1> QED
  BY <1>4, <1>5

-----------------------------------------------------------------------------
(* The server.                                                               *)
Chans == [Clients -> Connection(Unit)]
ChildPcs == {"none", "hello", "hi", "read", "write", "dead"}
Bound == \A p \in Procs :
    proc[p].pc \notin {"none", "accept", "dead"} => proc[p].con \in fds[p]

(* What the types say of connections,                                        *)
LEMMA ChansType ==
    ASSUME TypeOK
    PROVE  /\ chan \in Chans
           /\ \A c \in Clients : /\ chan[c] \in Connection(Unit)
                                 /\ chan[c].in["s"] \in Seq(Unit)
                                 /\ chan[c].in["c"] \in Seq(Unit)
BY DEF TypeOK, Chans, Connection, Sides

(* and how they follow from the parts.                                       *)
LEMMA TypeParts ==
    ASSUME chan' \in Chans, proc' \in [Procs -> Process],
           fds' \in [Procs -> SUBSET Clients], Bound', queue' \in Seq(Clients),
           main' \in [Clients -> Main],
           child' \in [Clients -> ChildPcs], rbuf' \in [Clients -> Seq(Unit)],
           hist' \in [Clients -> History]
    PROVE  TypeOK'
BY DEF TypeOK, Chans, Connection, Bound, ChildPcs

(* A process that is at work has a client.                                   *)
LEMMA HasClient ==
    ASSUME TypeOK, NEW p \in Procs, proc[p].pc \notin {"none", "accept", "dead"}
    PROVE  proc[p].con \in Clients /\ proc[p].con \in fds[p]
BY DEF TypeOK

(* A process moves on, and touches no client but its own.                    *)
LEMMA PlainStep ==
    ASSUME IInv, NEW p \in Procs, NEW r \in Process, proc' = [proc EXCEPT ![p] = r],
           r.con = proc[p].con, proc[p].pc \notin {"none", "accept", "dead"},
           r.pc # "write" => r.rbuf = <<>>,
           UNCHANGED <<main, child, rbuf, queue, fds>>,
           chan' \in Chans, hist' \in [Clients -> History],
           \A d \in Clients \ {r.con} : chan'[d] = chan[d] /\ hist'[d] = hist[d],
           OneClient(r.con)'
    PROVE  IInv'
<1>1. /\ proc' \in [Procs -> Process] /\ proc'[p] = r
      /\ \A q \in Procs \ {p} : proc'[q] = proc[q]
  BY DEF IInv, TypeOK
<1>2. r.con \in fds[p]
  BY HasClient DEF IInv
<1>3. TypeOK'
  <2>1. Bound'
    BY <1>1, <1>2 DEF IInv, TypeOK, Bound
  <2> QED
    BY <1>1, <2>1, TypeParts DEF IInv, TypeOK, ChildPcs
<1>4. Buffers'
  BY <1>1 DEF IInv, Buffers
<1>5. ASSUME NEW d \in Clients, d # r.con PROVE OneClient(d)'
  <2>1. SameLines(d)
    BY <1>1, <1>5 DEF SameLines
  <2>3. Served(d)' => Served(d)
    BY <1>5 DEF Served, Running
  <2>4. OneClient(d)
    BY DEF IInv
  <2> QED
    BY <2>1, <2>3, <2>4, Untouched
<1> QED
  BY <1>3, <1>4, <1>5 DEF IInv

(* One connection is replaced.                                               *)
LEMMA OneChanged ==
    ASSUME TypeOK, NEW c \in Clients, NEW v \in Connection(Unit),
           chan' = [chan EXCEPT ![c] = v]
    PROVE  /\ chan' \in Chans /\ chan'[c] = v
           /\ \A d \in Clients \ {c} : chan'[d] = chan[d]
BY ChansType DEF Chans

(* What is lost is counted, and whose.                                       *)
LEMMA LosesType ==
    ASSUME TypeOK, NEW c, NEW ns \in SUBSET Nat, NEW k \in Nat, Loses(c, ns, k)
    PROVE  /\ hist' \in [Clients -> History]
           /\ c \in Clients => hist'[c].lost = hist[c].lost \cup ns
           /\ \A d \in Clients \ {c} : hist'[d] = hist[d]
<1>1. hist \in [Clients -> History]
  BY DEF TypeOK
<1> DEFINE a == hist[c].lost \cup ns
           b == hist[c].hands + k
           h == [hist[c] EXCEPT !.lost = a, !.hands = b]
<1>2. ASSUME c \in Clients PROVE h \in History /\ h.lost = hist[c].lost \cup ns
  <2>1. hist[c] \in History
    BY <1>1, <1>2
  <2>2. a \in SUBSET Nat
    BY <2>1 DEF History
  <2>3. b \in Nat
    BY <2>1 DEF History
  <2>4. a = hist[c].lost \cup ns
    OBVIOUS
  <2> HIDE DEF a, b
  <2> QED
    BY <2>1, <2>2, <2>3, <2>4 DEF History
<1>3. hist' = [hist EXCEPT ![c] = h]
  BY DEF Loses
<1> HIDE DEF h
<1>4. c \notin Clients => hist' = hist
  BY <1>1, <1>3
<1> QED
  BY <1>1, <1>2, <1>3, <1>4

(* Numbers are numbers.                                                      *)
LEMMA NumbersNat ==
    ASSUME NEW us \in Seq(Unit)
    PROVE  Numbers(us) \in SUBSET Nat
<1>1. \A i \in 1..Len(us) : us[i] \in Unit
  OBVIOUS
<1>2. \A i \in 1..Len(us) : us[i].n \in Nat
  BY <1>1 DEF Unit
<1> QED
  BY <1>2 DEF Numbers

(* What is to be shown of the client whose lines move.                       *)
LEMMA OwnClient ==
    ASSUME NEW c, Served(c)' => Served(c) /\ chan'[c].end["c"] = "open",
           Served(c)' => Parted(c)' /\ Tidy(c)'
    PROVE  OneClient(c)'
BY DEF OneClient

(* What the calls of the server do to a connection of this program.          *)
LEMMA TakenUnit ==
    ASSUME NEW ch \in Connection(Unit), NEW s \in Sides, NEW r \in Sides \ {s},
           NEW j \in Nat
    PROVE  /\ Taken(ch, s, j) \in Connection(Unit)
           /\ Taken(ch, s, j).end = ch.end
           /\ Taken(ch, s, j).in[s] = SubSeq(ch.in[s], j + 1, Len(ch.in[s]))
           /\ Taken(ch, s, j).in[r] = ch.in[r]
BY TakenConn

LEMMA SentUnit ==
    ASSUME NEW ch \in Connection(Unit), NEW us \in Seq(Unit),
           NEW s \in Sides, NEW r, r = Peer(s)
    PROVE  /\ Sent(ch, s, us) \in Connection(Unit)
           /\ Sent(ch, s, us).end["s"] = "open" <=> ch.end["s"] = "open"
           /\ Sent(ch, s, us).end["c"] = "open" <=> ch.end["c"] = "open"
           /\ Sent(ch, s, us).in[s] = ch.in[s]
           /\ ch.end[r] = "open" => Sent(ch, s, us).in[r] = ch.in[r] \o us
<1>1. "s" \in Sides /\ "c" \in Sides
  BY DEF Sides
<1>2. /\ Sent(ch, s, us) \in Connection(Unit)
      /\ \A q \in Sides : Sent(ch, s, us).end[q] = "open" <=> ch.end[q] = "open"
  BY SentConn
<1>3. Sent(ch, s, us).in[s] = ch.in[s]
  BY SentConn
<1>4. ch.end[r] = "open" => Sent(ch, s, us).in[r] = ch.in[r] \o us
  BY PeerSide DEF Sent, Connection
<1>5. /\ Sent(ch, s, us).end["s"] = "open" <=> ch.end["s"] = "open"
      /\ Sent(ch, s, us).end["c"] = "open" <=> ch.end["c"] = "open"
  BY <1>1, <1>2
<1> QED
  BY <1>2, <1>3, <1>4, <1>5

(* The effects of a receive of j units on the connections.                   *)
LEMMA ReadValue ==
    ASSUME TypeOK, NEW c \in Clients, NEW j \in 1..Len(chan[c].in["s"]),
           NEW h, h = [chan EXCEPT ![c] = Taken(@, "s", j)]
    PROVE  /\ h \in Chans
           /\ \A d \in Clients \ {c} : h[d] = chan[d]
           /\ h[c].end = chan[c].end
           /\ h[c].in["c"] = chan[c].in["c"]
           /\ h[c].in["s"] = SubSeq(chan[c].in["s"], j + 1, Len(chan[c].in["s"]))
<1> DEFINE v == Taken(chan[c], "s", j)
<1>1. chan[c] \in Connection(Unit) /\ chan[c].in["s"] \in Seq(Unit)
  BY ChansType
<1>2. j \in Nat /\ "s" \in Sides /\ "c" \in Sides \ {"s"}
  BY <1>1 DEF Sides
<1>3. /\ v \in Connection(Unit) /\ v.end = chan[c].end
      /\ v.in["s"] = SubSeq(chan[c].in["s"], j + 1, Len(chan[c].in["s"]))
      /\ v.in["c"] = chan[c].in["c"]
  BY <1>1, <1>2, TakenUnit
<1>4. h = [chan EXCEPT ![c] = v]
  OBVIOUS
<1> HIDE DEF v
<1> QED
  BY <1>3, <1>4, ChansType DEF Chans

LEMMA ReadEffect ==
    ASSUME TypeOK, NEW c \in Clients, NEW j \in 1..Len(chan[c].in["s"]),
           chan' = [chan EXCEPT ![c] = Taken(@, "s", j)]
    PROVE  /\ chan' \in Chans
           /\ \A d \in Clients \ {c} : chan'[d] = chan[d]
           /\ chan'[c].end = chan[c].end
           /\ chan'[c].in["c"] = chan[c].in["c"]
           /\ chan'[c].in["s"] = SubSeq(chan[c].in["s"], j + 1, Len(chan[c].in["s"]))
BY ReadValue

(* and of a send.                                                            *)
LEMMA SendEffect ==
    ASSUME TypeOK, NEW c \in Clients, NEW us \in Seq(Unit),
           chan' = [chan EXCEPT ![c] = Sent(@, "s", us)]
    PROVE  /\ chan' \in Chans
           /\ \A d \in Clients \ {c} : chan'[d] = chan[d]
           /\ chan'[c].end["s"] = "open" <=> chan[c].end["s"] = "open"
           /\ chan'[c].end["c"] = "open" <=> chan[c].end["c"] = "open"
           /\ chan'[c].in["s"] = chan[c].in["s"]
           /\ chan[c].end["c"] = "open" => chan'[c].in["c"] = chan[c].in["c"] \o us
<1> DEFINE v == Sent(chan[c], "s", us)
<1>1. chan[c] \in Connection(Unit)
  BY ChansType
<1>2. "s" \in Sides /\ "c" \in Sides /\ Peer("s") = "c"
  BY DEF Sides, Peer
<1>3. /\ v \in Connection(Unit)
      /\ v.end["s"] = "open" <=> chan[c].end["s"] = "open"
      /\ v.end["c"] = "open" <=> chan[c].end["c"] = "open"
  BY <1>1, <1>2, SentUnit
<1>5. v.in["s"] = chan[c].in["s"]
  BY <1>1, <1>2, SentUnit
<1>6. chan[c].end["c"] = "open" => v.in["c"] = chan[c].in["c"] \o us
  BY <1>1, <1>2 DEF Sent, Connection
<1>4. chan' = [chan EXCEPT ![c] = v]
  OBVIOUS
<1> HIDE DEF v
<1> QED
  BY <1>3, <1>4, <1>5, <1>6, OneChanged

-----------------------------------------------------------------------------
(* What a process that reads j units of its own client has to show.          *)
Reading(p, c, j) ==
    /\ c = proc[p].con /\ c \in Clients
    /\ j \in 1..Len(chan[c].in["s"])
    /\ chan' = [chan EXCEPT ![c] = Taken(@, "s", j)]
    /\ UNCHANGED <<main, child, rbuf, queue, fds>>

(* A handshake, or a line that was read.                                     *)
LEMMA HelloRead ==
    ASSUME IInv, NEW p \in Procs, NEW c, NEW j, Reading(p, c, j), At(p, "hello"),
           Head(chan[c].in["s"]).t = "hello", Goto(p, "hi"),
           Loses(c, Numbers(SubSeq(chan[c].in["s"], 1, j)), 1)
    PROVE  IInv'
<1> DEFINE us == chan[c].in["s"]
           r == [proc[p] EXCEPT !.pc = "hi"]
<1>1. /\ TypeOK /\ c \in Clients /\ us \in Seq(Unit) /\ us # <<>>
      /\ j \in 1..Len(us) /\ c = proc[p].con /\ proc[p].pc = "hello"
  <2>1. us \in Seq(Unit)
    BY ChansType DEF IInv, Reading
  <2> QED
    BY <2>1 DEF IInv, Reading, At
<1>2. r \in Process /\ r.pc = "hi" /\ r.con = c /\ r.rbuf = <<>>
  BY <1>1 DEF IInv, TypeOK, Process, Buffers
<1>3. /\ chan' \in Chans
      /\ \A d \in Clients \ {c} : chan'[d] = chan[d]
      /\ chan'[c].end = chan[c].end /\ chan'[c].in["c"] = chan[c].in["c"]
      /\ chan'[c].in["s"] = SubSeq(us, j + 1, Len(us))
  BY <1>1, ReadEffect DEF Reading
<1>4. /\ hist' \in [Clients -> History]
      /\ hist'[c].lost = hist[c].lost \cup Numbers(SubSeq(us, 1, j))
      /\ \A d \in Clients \ {c} : hist'[d] = hist[d]
  <2>1. SubSeq(us, 1, j) \in Seq(Unit)
    BY <1>1
  <2>2. Numbers(SubSeq(us, 1, j)) \in SUBSET Nat /\ 1 \in Nat
    BY <2>1, NumbersNat
  <2> QED
    BY <1>1, <2>2, LosesType
<1>5. proc' = [proc EXCEPT ![p] = r]
  BY DEF Goto
<1>6. /\ proc'[p] = r /\ proc[p].rbuf = <<>>
      /\ \A q \in Procs \ {p} : proc'[q] = proc[q]
  BY <1>1, <1>2, <1>5 DEF IInv, TypeOK, Buffers
<1>7. SameMain(c) /\ UNCHANGED <<main, child, rbuf, queue, fds>>
  BY DEF Reading, SameMain
<1> HIDE DEF r
<1>8. OneClient(c)'
  <2> SUFFICES ASSUME Served(c)'
               PROVE  /\ Served(c) /\ chan'[c].end["c"] = "open"
                      /\ Parted(c)' /\ Tidy(c)'
    BY OwnClient
  <2>1. Served(c)
    BY <1>3, <1>7 DEF Served, Running, SameMain
  <2>2. /\ chan[c].end["c"] = "open" /\ Parted(c) /\ Tidy(c)
    BY <1>1, <2>1 DEF IInv, OneClient
  <2>3. \A q \in Procs : /\ proc'[q].con = proc[q].con
                         /\ proc'[q].rbuf = proc[q].rbuf
    BY <1>1, <1>2, <1>6
  <2>4. Parted(c)' /\ Tidy(c)' /\ chan'[c].end["c"] = "open"
    BY <1>1, <1>3, <1>4, <1>7, <2>2, <2>3, ReadsLost
  <2> QED
    BY <2>1, <2>4
<1> QED
  BY <1>1, <1>2, <1>3, <1>4, <1>5, <1>7, <1>8, PlainStep

(* A quit that is read takes what was read with it.                          *)
LEMMA QuitRead ==
    ASSUME IInv, NEW p \in Procs, NEW c, NEW j, Reading(p, c, j), At(p, "read"),
           Goto(p, "kill"), Loses(c, Numbers(SubSeq(chan[c].in["s"], 1, j)), 0)
    PROVE  IInv'
<1> DEFINE us == chan[c].in["s"]
           r == [proc[p] EXCEPT !.pc = "kill"]
<1>1. /\ TypeOK /\ c \in Clients /\ us \in Seq(Unit) /\ us # <<>>
      /\ j \in 1..Len(us) /\ c = proc[p].con /\ proc[p].pc = "read"
  <2>1. us \in Seq(Unit)
    BY ChansType DEF IInv, Reading
  <2> QED
    BY <2>1 DEF IInv, Reading, At
<1>2. r \in Process /\ r.pc = "kill" /\ r.con = c /\ r.rbuf = <<>>
  BY <1>1 DEF IInv, TypeOK, Process, Buffers
<1>3. /\ chan' \in Chans
      /\ \A d \in Clients \ {c} : chan'[d] = chan[d]
      /\ chan'[c].end = chan[c].end /\ chan'[c].in["c"] = chan[c].in["c"]
      /\ chan'[c].in["s"] = SubSeq(us, j + 1, Len(us))
  BY <1>1, ReadEffect DEF Reading
<1>4. /\ hist' \in [Clients -> History]
      /\ hist'[c].lost = hist[c].lost \cup Numbers(SubSeq(us, 1, j))
      /\ \A d \in Clients \ {c} : hist'[d] = hist[d]
  <2>1. SubSeq(us, 1, j) \in Seq(Unit)
    BY <1>1
  <2>2. Numbers(SubSeq(us, 1, j)) \in SUBSET Nat /\ 0 \in Nat
    BY <2>1, NumbersNat
  <2> QED
    BY <1>1, <2>2, LosesType
<1>5. proc' = [proc EXCEPT ![p] = r]
  BY DEF Goto
<1>6. /\ proc'[p] = r /\ proc[p].rbuf = <<>>
      /\ \A q \in Procs \ {p} : proc'[q] = proc[q]
  BY <1>1, <1>2, <1>5 DEF IInv, TypeOK, Buffers
<1>7. SameMain(c) /\ UNCHANGED <<main, child, rbuf, queue, fds>>
  BY DEF Reading, SameMain
<1> HIDE DEF r
<1>8. OneClient(c)'
  <2> SUFFICES ASSUME Served(c)'
               PROVE  /\ Served(c) /\ chan'[c].end["c"] = "open"
                      /\ Parted(c)' /\ Tidy(c)'
    BY OwnClient
  <2>1. Served(c)
    BY <1>3, <1>7 DEF Served, Running, SameMain
  <2>2. /\ chan[c].end["c"] = "open" /\ Parted(c) /\ Tidy(c)
    BY <1>1, <2>1 DEF IInv, OneClient
  <2>3. \A q \in Procs : /\ proc'[q].con = proc[q].con
                         /\ proc'[q].rbuf = proc[q].rbuf
    BY <1>1, <1>2, <1>6
  <2>4. Parted(c)' /\ Tidy(c)' /\ chan'[c].end["c"] = "open"
    BY <1>1, <1>3, <1>4, <1>7, <2>2, <2>3, ReadsLost
  <2> QED
    BY <2>1, <2>4
<1> QED
  BY <1>1, <1>2, <1>3, <1>4, <1>5, <1>7, <1>8, PlainStep

(* A line that is read goes into the buffer of the process.                  *)
Keeping(p, c, j) ==
    /\ proc' = [proc EXCEPT ![p].pc = "write",
                            ![p].rbuf = SubSeq(chan[c].in["s"], 1, j)]
    /\ UNCHANGED hist

LEMMA LineRead ==
    ASSUME IInv, NEW p \in Procs, NEW c, NEW j, Reading(p, c, j), At(p, "read"),
           Keeping(p, c, j)
    PROVE  IInv'
<1> DEFINE us == chan[c].in["s"]
           a == SubSeq(us, 1, j)
           r == [proc[p] EXCEPT !.pc = "write", !.rbuf = a]
<1>1. /\ TypeOK /\ c \in Clients /\ us \in Seq(Unit) /\ us # <<>>
      /\ j \in 1..Len(us) /\ c = proc[p].con /\ proc[p].pc = "read"
      /\ a \in Seq(Unit)
  <2>1. us \in Seq(Unit) /\ j \in 1..Len(us)
    BY ChansType DEF IInv, Reading
  <2> QED
    BY <2>1 DEF IInv, Reading, At
<1>2. r \in Process /\ r.pc = "write" /\ r.con = c /\ r.rbuf = a
  <2>1. proc[p] \in Process /\ a \in Seq(Unit)
    BY <1>1 DEF TypeOK
  <2> HIDE DEF a
  <2> QED
    BY <1>1, <2>1 DEF Process
<1>3. /\ chan' \in Chans
      /\ \A d \in Clients \ {c} : chan'[d] = chan[d]
      /\ chan'[c].end = chan[c].end /\ chan'[c].in["c"] = chan[c].in["c"]
      /\ chan'[c].in["s"] = SubSeq(us, j + 1, Len(us))
  BY <1>1, ReadEffect DEF Reading
<1>4. hist' \in [Clients -> History] /\ \A d \in Clients : hist'[d] = hist[d]
  BY <1>1 DEF TypeOK, Keeping
<1>5. proc' = [proc EXCEPT ![p] = r]
  BY DEF Keeping
<1>6. /\ proc'[p] = r /\ proc[p].rbuf = <<>>
      /\ \A q \in Procs \ {p} : proc'[q] = proc[q]
  BY <1>1, <1>2, <1>5 DEF IInv, TypeOK, Buffers
<1>7. SameMain(c) /\ UNCHANGED <<main, child, rbuf, queue, fds>>
  BY DEF Reading, SameMain
<1> HIDE DEF r
<1>8. OneClient(c)'
  <2> SUFFICES ASSUME Served(c)'
               PROVE  /\ Served(c) /\ chan'[c].end["c"] = "open"
                      /\ Parted(c)' /\ Tidy(c)'
    BY OwnClient
  <2>1. Served(c)
    BY <1>3, <1>7 DEF Served, Running, SameMain
  <2>2. /\ chan[c].end["c"] = "open" /\ Parted(c) /\ Tidy(c)
    BY <1>1, <2>1 DEF IInv, OneClient
  <2>3. /\ proc'[p].con = c /\ proc'[p].rbuf = SubSeq(us, 1, j)
        /\ hist'[c].lost = hist[c].lost
        /\ \A q \in Procs \ {p} : /\ proc'[q].con = proc[q].con
                                  /\ proc'[q].rbuf = proc[q].rbuf
    BY <1>1, <1>2, <1>4, <1>6
  <2>4. Parted(c)' /\ Tidy(c)' /\ chan'[c].end["c"] = "open"
    <3>1. /\ us \in Seq(Unit) /\ j \in 1..Len(us) /\ p \in Procs
          /\ proc[p].con = c /\ proc[p].rbuf = <<>> /\ SameMain(c)
      BY <1>1, <1>6, <1>7
    <3>2. /\ chan'[c].end = chan[c].end /\ chan'[c].in["c"] = chan[c].in["c"]
          /\ chan'[c].in["s"] = SubSeq(us, j + 1, Len(us))
      BY <1>3
    <3> QED
      BY <2>2, <2>3, <3>1, <3>2, ReadsKept
  <2> QED
    BY <2>1, <2>4
<1>9. /\ r.con = proc[p].con /\ proc[p].pc \notin {"none", "accept", "dead"}
      /\ r.pc # "write" => r.rbuf = <<>>
      /\ \A d \in Clients \ {r.con} : chan'[d] = chan[d] /\ hist'[d] = hist[d]
  BY <1>1, <1>2, <1>3, <1>4
<1> QED
  BY <1>2, <1>3, <1>4, <1>5, <1>7, <1>8, <1>9, PlainStep

(* What a process that sends us to its own client has to show.               *)
Sending(p, c, us) ==
    /\ c = proc[p].con /\ c \in Clients
    /\ chan' = [chan EXCEPT ![c] = Sent(@, "s", us)]
    /\ UNCHANGED <<main, child, rbuf, queue, fds, hist>>

LEMMA SendingDoes ==
    ASSUME IInv, NEW p \in Procs, NEW c, NEW us \in Seq(Unit), Sending(p, c, us)
    PROVE  /\ TypeOK /\ c \in Clients /\ c = proc[p].con
           /\ chan' \in Chans /\ hist' \in [Clients -> History]
           /\ \A d \in Clients \ {c} : chan'[d] = chan[d] /\ hist'[d] = hist[d]
           /\ chan[c].in["c"] \in Seq(Unit) /\ chan[c].in["s"] \in Seq(Unit)
           /\ chan'[c].in["s"] = chan[c].in["s"]
           /\ SameMain(c) /\ UNCHANGED <<main, child, rbuf, queue, fds>>
           /\ Served(c)' =>
                /\ Served(c) /\ chan[c].end["c"] = "open" /\ chan'[c].end["c"] = "open"
                /\ chan'[c].in["c"] = chan[c].in["c"] \o us
                /\ hist'[c].lost = hist[c].lost
                /\ Parted(c) /\ Tidy(c)
<1>1. TypeOK /\ c \in Clients /\ c = proc[p].con /\ OneClient(c)
  BY DEF IInv, Sending
<1>2. /\ chan' \in Chans
      /\ \A d \in Clients \ {c} : chan'[d] = chan[d]
      /\ chan'[c].end["s"] = "open" <=> chan[c].end["s"] = "open"
      /\ chan'[c].end["c"] = "open" <=> chan[c].end["c"] = "open"
      /\ chan'[c].in["s"] = chan[c].in["s"]
      /\ chan[c].end["c"] = "open" => chan'[c].in["c"] = chan[c].in["c"] \o us
  <2>1. chan' = [chan EXCEPT ![c] = Sent(@, "s", us)]
    BY DEF Sending
  <2> QED
    BY <1>1, <2>1, SendEffect
<1>3. UNCHANGED <<main, child, rbuf, queue, fds, hist>>
  BY DEF Sending
<1>4. Served(c)' => Served(c)
  BY <1>2, <1>3 DEF Served, Running
<1>5. chan[c].in["c"] \in Seq(Unit) /\ chan[c].in["s"] \in Seq(Unit)
  BY <1>1, ChansType
<1>6. hist' \in [Clients -> History]
  BY <1>1, <1>3 DEF TypeOK
<1>7. Served(c) => chan[c].end["c"] = "open" /\ Parted(c) /\ Tidy(c)
  BY <1>1 DEF OneClient
<1> QED
  BY <1>1, <1>2, <1>3, <1>4, <1>5, <1>6, <1>7 DEF SameMain

(* The answer to a hello moves no line.                                      *)
LEMMA HiSent ==
    ASSUME IInv, NEW p \in Procs, NEW c, Sending(p, c, <<Hi>>), At(p, "hi"),
           Goto(p, "read")
    PROVE  IInv'
<1> DEFINE r == [proc[p] EXCEPT !.pc = "read"]
<1>0. /\ Hi \in Unit /\ Hi.n = 0 /\ <<Hi>> \in Seq(Unit)
      /\ Numbers(<<Hi>>) = {} /\ Distinct(<<Hi>>)
  <2>1. Hi \in Unit /\ Hi.n = 0
    BY DEF Hi, Unit
  <2>2. Numbers(<<Hi>>) = {Hi.n} \ {0} /\ Distinct(<<Hi>>)
    BY <2>1, NumbersOne
  <2> QED
    BY <2>1, <2>2
<1> DEFINE us == <<Hi>>
<1>1. /\ us \in Seq(Unit) /\ Numbers(us) = {} /\ Distinct(us) /\ Sending(p, c, us)
      /\ proc[p].pc = "hi"
  BY <1>0 DEF At
<1> HIDE DEF us
<1>2. /\ TypeOK /\ c \in Clients /\ c = proc[p].con
      /\ chan' \in Chans /\ hist' \in [Clients -> History]
      /\ \A d \in Clients \ {c} : chan'[d] = chan[d] /\ hist'[d] = hist[d]
      /\ chan[c].in["c"] \in Seq(Unit) /\ chan[c].in["s"] \in Seq(Unit)
      /\ chan'[c].in["s"] = chan[c].in["s"]
      /\ SameMain(c) /\ UNCHANGED <<main, child, rbuf, queue, fds>>
  BY <1>1, SendingDoes
<1>3. Served(c)' =>
        /\ Served(c) /\ chan'[c].end["c"] = "open"
        /\ chan'[c].in["c"] = chan[c].in["c"] \o us
        /\ hist'[c].lost = hist[c].lost
        /\ Parted(c) /\ Tidy(c)
  BY <1>1, SendingDoes
<1>4. r \in Process /\ r.pc = "read" /\ r.con = c /\ r.rbuf = <<>>
  BY <1>1, <1>2 DEF IInv, TypeOK, Process, Buffers
<1>5. proc' = [proc EXCEPT ![p] = r]
  BY DEF Goto
<1>6. /\ proc'[p] = r /\ proc[p].rbuf = <<>>
      /\ \A q \in Procs \ {p} : proc'[q] = proc[q]
  BY <1>1, <1>2, <1>4, <1>5 DEF TypeOK, IInv, Buffers
<1> HIDE DEF r
<1>7. OneClient(c)'
  <2> SUFFICES ASSUME Served(c)'
               PROVE  /\ Served(c) /\ chan'[c].end["c"] = "open"
                      /\ Parted(c)' /\ Tidy(c)'
    BY OwnClient
  <2>1. /\ chan'[c].in["c"] = chan[c].in["c"] \o us
        /\ hist'[c].lost = hist[c].lost
        /\ Parted(c) /\ Tidy(c)
    BY <1>3
  <2>2. /\ Numbers(chan[c].in["c"] \o us) = Numbers(chan[c].in["c"])
        /\ Distinct(chan[c].in["c"] \o us)
    <3>1. Distinct(chan[c].in["c"])
      BY <2>1 DEF Tidy, out
    <3> DEFINE vs == chan[c].in["c"]
    <3>2. vs \in Seq(Unit) /\ Distinct(vs)
      BY <1>2, <3>1
    <3> HIDE DEF vs
    <3>3. Numbers(vs \o us) = Numbers(vs) \cup Numbers(us)
      BY <1>1, <3>2, NumbersConcat
    <3>4. Numbers(vs) \cap Numbers(us) = {}
      BY <1>1
    <3>5. Distinct(vs \o us)
      BY <1>1, <3>2, <3>4, NumbersConcat
    <3> QED
      BY <1>1, <3>3, <3>5 DEF vs
  <2>3. \A q \in Procs : /\ proc'[q].con = proc[q].con
                         /\ proc'[q].rbuf = proc[q].rbuf
    BY <1>2, <1>4, <1>6
  <2>4. Parted(c)'
    <3>1. /\ Numbered(c, Got)' = Numbered(c, Got)
          /\ Numbered(c, Lost)' = Numbered(c, Lost)
          /\ Numbered(c, In)' = Numbered(c, In)
          /\ Numbered(c, Kid)' = Numbered(c, Kid)
      <4>1. /\ main'[c] = main[c] /\ hist'[c].lost = hist[c].lost /\ rbuf'[c] = rbuf[c]
            /\ chan'[c].in["s"] = chan[c].in["s"]
        BY <1>2, <2>1 DEF SameMain
      <4> QED
        BY <4>1, NumberedAre, NumberedNext
    <3>2. Numbered(c, Out)' = Numbered(c, Out)
      <4>1. Numbered(c, Out) = Numbers(out(c))
        BY NumberedAre
      <4>2. Numbered(c, Out)' = Numbers(chan'[c].in["c"])
        BY NumberedNext
      <4> QED
        BY <2>1, <2>2, <4>1, <4>2 DEF out
    <3>3. \A q \in Procs : Numbered(c, Buf(q))' = Numbered(c, Buf(q))
      BY <2>3, SameBuf
    <3>4. \A z \in Places : Numbered(c, z)' = Numbered(c, z)
      BY <3>1, <3>2, <3>3, PlacesAre
    <3> QED
      BY <1>2, <2>1, <3>4, PartSame DEF SameMain
  <2>5. Tidy(c)'
    BY <1>2, <2>1, <2>2, <2>3, TidyNext DEF Tidy, SameMain, out
  <2> QED
    BY <1>3, <2>4, <2>5
<1>8. r.con = proc[p].con /\ proc[p].pc \notin {"none", "accept", "dead"}
  BY <1>1, <1>2, <1>4
<1> QED
  BY <1>2, <1>4, <1>5, <1>7, <1>8, PlainStep

(* A line goes back to the client.                                           *)
Emptied(p) == proc' = [proc EXCEPT ![p].pc = "read", ![p].rbuf = <<>>]

LEMMA LineWritten ==
    ASSUME IInv, NEW p \in Procs, NEW c, Sending(p, c, proc[p].rbuf), At(p, "write"),
           Emptied(p)
    PROVE  IInv'
<1> DEFINE r == [proc[p] EXCEPT !.pc = "read", !.rbuf = <<>>]
           us == proc[p].rbuf
<1>1. us \in Seq(Unit) /\ Sending(p, c, us) /\ proc[p].pc = "write"
  BY DEF IInv, TypeOK, Process, At
<1>2. /\ TypeOK /\ c \in Clients /\ c = proc[p].con
      /\ chan' \in Chans /\ hist' \in [Clients -> History]
      /\ \A d \in Clients \ {c} : chan'[d] = chan[d] /\ hist'[d] = hist[d]
      /\ chan[c].in["c"] \in Seq(Unit) /\ chan[c].in["s"] \in Seq(Unit)
      /\ chan'[c].in["s"] = chan[c].in["s"]
      /\ SameMain(c) /\ UNCHANGED <<main, child, rbuf, queue, fds>>
  BY <1>1, SendingDoes
<1>3. Served(c)' =>
        /\ Served(c) /\ chan[c].end["c"] = "open" /\ chan'[c].end["c"] = "open"
        /\ chan'[c].in["c"] = chan[c].in["c"] \o us
        /\ hist'[c].lost = hist[c].lost
        /\ Parted(c) /\ Tidy(c)
  BY <1>1, SendingDoes
<1>4. r \in Process /\ r.pc = "read" /\ r.con = c /\ r.rbuf = <<>>
  <2>1. proc[p] \in Process /\ <<>> \in Seq(Unit)
    BY <1>2 DEF TypeOK
  <2> QED
    BY <1>2, <2>1 DEF Process
<1>5. proc' = [proc EXCEPT ![p] = r]
  BY DEF Emptied
<1>6. proc'[p] = r /\ \A q \in Procs \ {p} : proc'[q] = proc[q]
  BY <1>2, <1>4, <1>5 DEF TypeOK
<1> HIDE DEF r
<1>7. OneClient(c)'
  <2> SUFFICES ASSUME Served(c)'
               PROVE  /\ Served(c) /\ chan'[c].end["c"] = "open"
                      /\ Parted(c)' /\ Tidy(c)'
    BY OwnClient
  <2>1. /\ chan[c].end["c"] = "open" /\ chan'[c].end["c"] = "open"
        /\ chan'[c].in["c"] = chan[c].in["c"] \o us
        /\ hist'[c].lost = hist[c].lost
        /\ Parted(c) /\ Tidy(c)
    BY <1>3
  <2>2. /\ proc[p].con = c /\ proc'[p].con = c /\ proc'[p].rbuf = <<>>
        /\ \A q \in Procs \ {p} : /\ proc'[q].con = proc[q].con
                                  /\ proc'[q].rbuf = proc[q].rbuf
    BY <1>2, <1>4, <1>6
  <2>4. Parted(c)' /\ Tidy(c)'
    BY <1>1, <1>2, <2>1, <2>2, WritesBack
  <2> QED
    BY <1>3, <2>4
<1>8. r.con = proc[p].con /\ proc[p].pc \notin {"none", "accept", "dead"}
  BY <1>1, <1>2, <1>4
<1> QED
  BY <1>2, <1>4, <1>5, <1>7, <1>8, PlainStep

-----------------------------------------------------------------------------
(* The end of a process closes and refuses, and changes no connection that   *)
(* stays open on the server's side.                                          *)
LEMMA EndEffects ==
    ASSUME TypeOK, NEW q \in Procs, NEW h \in Chans, NEW procs, End(q, h, procs)
    PROVE  /\ proc' = [procs EXCEPT ![q].pc = "dead", ![q].rbuf = <<>>]
           /\ fds' \in [Procs -> SUBSET Clients] /\ queue' \in Seq(Clients)
           /\ \A r \in Procs \ {q} : fds'[r] = fds[r]
           /\ chan' \in Chans
           /\ \A d \in Clients : chan'[d].end["s"] = "open" => chan'[d] = h[d]
<1> DEFINE last == \A r \in Procs \ {q} : ~ Alive(r)
           only == {c \in fds[q] : \A r \in Procs \ {q} : c \notin fds[r]}
           refused(c) == last /\ \E i \in 1..Len(queue) : queue[i] = c
<1>1. PICK how \in Hows : chan' = [c \in Clients |->
        IF c \in only THEN Closed(h[c], "s", how)
        ELSE IF refused(c) THEN Refused(h[c]) ELSE h[c]]
  BY DEF End
<1> HIDE DEF last, only, refused
<1>2. ASSUME NEW d \in Clients
      PROVE  /\ chan'[d] \in Connection(Unit)
             /\ chan'[d].end["s"] = "open" => chan'[d] = h[d]
  <2>1. h[d] \in Connection(Unit) /\ "s" \in Sides
    BY DEF Chans, Sides
  <2>2. CASE d \in only
    <3>1. chan'[d] = Closed(h[d], "s", how)
      BY <1>1, <2>2
    <3>2. /\ Closed(h[d], "s", how) \in Connection(Unit)
          /\ Closed(h[d], "s", how).end["s"] # "open"
      BY <2>1, ClosedConn
    <3> QED
      BY <3>1, <3>2
  <2>3. CASE d \notin only /\ refused(d)
    <3>1. chan'[d] = Refused(h[d])
      BY <1>1, <2>3
    <3>2. Refused(h[d]) \in Connection(Unit) /\ Refused(h[d]).end["s"] # "open"
      BY <2>1, RefusedConn
    <3> QED
      BY <3>1, <3>2
  <2>4. CASE d \notin only /\ ~ refused(d)
    <3>1. chan'[d] = h[d]
      BY <1>1, <2>4
    <3> QED
      BY <2>1, <3>1
  <2> QED
    BY <2>2, <2>3, <2>4
<1>3. chan' \in Chans
  <2>1. DOMAIN chan' = Clients /\ chan' = [c \in Clients |-> chan'[c]]
    BY <1>1
  <2> QED
    BY <1>2, <2>1 DEF Chans
<1>4. /\ fds' \in [Procs -> SUBSET Clients]
      /\ \A r \in Procs \ {q} : fds'[r] = fds[r]
  BY DEF End, TypeOK
<1>5. queue' \in Seq(Clients)
  BY DEF End, TypeOK
<1>6. proc' = [procs EXCEPT ![q].pc = "dead", ![q].rbuf = <<>>]
  BY DEF End
<1> QED
  BY <1>2, <1>3, <1>4, <1>5, <1>6

(* Who moves when process q ends: itself, and maybe one more, to accept.     *)
Ends1(q) ==
    /\ proc'[q].pc = "dead" /\ proc'[q].con = proc[q].con /\ proc'[q].rbuf = <<>>
    /\ \A r \in Procs \ {q} :
         /\ proc'[r].con = proc[r].con /\ proc'[r].rbuf = proc[r].rbuf
         /\ proc'[r].pc = proc[r].pc \/ (proc'[r].pc = "accept" /\ proc[r].pc = "kill")

(* The clients of the others are left alone, as long as they are served.     *)
LEMMA EndStep ==
    ASSUME IInv, NEW q \in Procs, NEW c, Ends1(q),
           proc' \in [Procs -> Process], fds' \in [Procs -> SUBSET Clients],
           queue' \in Seq(Clients), chan' \in Chans, hist' \in [Clients -> History],
           \A r \in Procs \ {q} : fds'[r] = fds[r],
           UNCHANGED <<main, child, rbuf>>,
           proc[q].con = c,
           \A d \in Clients \ {c} :
             /\ hist'[d] = hist[d]
             /\ chan'[d].end["s"] = "open" => chan'[d] = chan[d],
           c \in Clients => OneClient(c)'
    PROVE  IInv'
<1>1. TypeOK'
  <2>1. Bound'
    BY DEF IInv, TypeOK, Bound, Ends1
  <2> QED
    BY <2>1, TypeParts DEF IInv, TypeOK, ChildPcs
<1>2. Buffers'
  BY DEF IInv, Buffers, Ends1
<1>3. ASSUME NEW d \in Clients, d # c PROVE OneClient(d)'
  <2>1. ASSUME Served(d)'
        PROVE  Served(d) /\ SameLines(d)
    <3>1. chan'[d] = chan[d]
      BY <1>3, <2>1 DEF Served
    <3>2. Served(d)
      BY <2>1, <3>1 DEF Served, Running
    <3>3. SameLines(d)
      BY <1>3, <3>1 DEF SameLines, Ends1
    <3> QED
      BY <3>2, <3>3
  <2>2. OneClient(d)
    BY DEF IInv
  <2> QED
    BY <2>1, <2>2, Untouched
<1> QED
  BY <1>1, <1>2, <1>3 DEF IInv

(* The process that ends drops what it holds of its client's lines.          *)
LEMMA EndOwn ==
    ASSUME IInv, NEW q \in Procs, NEW c \in Clients, Ends1(q), SameMain(c),
           proc[q].con = c,
           chan'[c].end["s"] = "open" => chan'[c] = chan[c],
           hist'[c].lost = hist[c].lost \cup Numbers(proc[q].rbuf)
    PROVE  OneClient(c)'
<1> SUFFICES ASSUME Served(c)'
             PROVE  /\ Served(c) /\ chan'[c].end["c"] = "open"
                    /\ Parted(c)' /\ Tidy(c)'
  BY OwnClient
<1>1. chan'[c] = chan[c]
  BY DEF Served
<1>2. Served(c)
  BY <1>1 DEF Served, Running, SameMain
<1>3. /\ chan[c].end["c"] = "open" /\ Parted(c) /\ Tidy(c)
      /\ chan[c].in["s"] \in Seq(Unit)
  BY <1>2, ChansType DEF IInv, OneClient
<1>4. /\ proc'[q].con = c /\ proc'[q].rbuf = <<>>
      /\ \A r \in Procs \ {q} : /\ proc'[r].con = proc[r].con
                                /\ proc'[r].rbuf = proc[r].rbuf
  BY DEF Ends1
<1>5. Parted(c)' /\ Tidy(c)' /\ chan'[c].end["c"] = "open"
  BY <1>1, <1>3, <1>4, DropsBuffer
<1> QED
  BY <1>2, <1>5

LEMMA DieStep ==
    ASSUME IInv, NEW q \in Procs, NEW procs \in [Procs -> Process],
           End(q, chan, procs), Loses(proc[q].con, Numbers(proc[q].rbuf), 0),
           procs[q].con = proc[q].con,
           \A r \in Procs \ {q} :
             /\ procs[r].con = proc[r].con /\ procs[r].rbuf = proc[r].rbuf
             /\ procs[r].pc = proc[r].pc \/ (procs[r].pc = "accept" /\ proc[r].pc = "kill"),
           UNCHANGED <<main, child, rbuf>>
    PROVE  IInv'
<1> SUFFICES ASSUME NEW c, c = proc[q].con
             PROVE  IInv'
  OBVIOUS
<1>1. TypeOK /\ chan \in Chans
  BY ChansType DEF IInv
<1>2. /\ proc' = [procs EXCEPT ![q].pc = "dead", ![q].rbuf = <<>>]
      /\ fds' \in [Procs -> SUBSET Clients] /\ queue' \in Seq(Clients)
      /\ \A r \in Procs \ {q} : fds'[r] = fds[r]
      /\ chan' \in Chans
      /\ \A d \in Clients : chan'[d].end["s"] = "open" => chan'[d] = chan[d]
  BY <1>1, EndEffects
<1>3. proc' \in [Procs -> Process]
  <2>1. procs[q] \in Process /\ <<>> \in Seq(Unit)
    OBVIOUS
  <2>2. [procs[q] EXCEPT !.pc = "dead", !.rbuf = <<>>] \in Process
    BY <2>1 DEF Process
  <2> QED
    BY <1>2, <2>2
<1>4. Ends1(q)
  <2>1. proc'[q] = [procs[q] EXCEPT !.pc = "dead", !.rbuf = <<>>]
    BY <1>2
  <2>2. procs[q] \in Process
    OBVIOUS
  <2>3. /\ proc'[q].pc = "dead" /\ proc'[q].con = proc[q].con
        /\ proc'[q].rbuf = <<>>
    BY <2>1, <2>2 DEF Process
  <2>4. \A r \in Procs \ {q} : proc'[r] = procs[r]
    BY <1>2
  <2> QED
    BY <2>3, <2>4 DEF Ends1
<1>5. /\ hist' \in [Clients -> History]
      /\ c \in Clients => hist'[c].lost = hist[c].lost \cup Numbers(proc[q].rbuf)
      /\ \A d \in Clients \ {c} : hist'[d] = hist[d]
  <2>1. proc[q].rbuf \in Seq(Unit)
    BY <1>1 DEF TypeOK, Process
  <2>2. Numbers(proc[q].rbuf) \in SUBSET Nat /\ 0 \in Nat
    BY <2>1, NumbersNat
  <2> QED
    BY <1>1, <2>2, LosesType
<1>6. c \in Clients => OneClient(c)'
  <2>1. SameMain(c)
    BY DEF SameMain
  <2> QED
    BY <1>2, <1>4, <1>5, <2>1, EndOwn
<1> QED
  BY <1>2, <1>3, <1>4, <1>5, <1>6, EndStep

(* A handshake that is none takes what was read with it.                     *)
LEMMA NotShaken ==
    ASSUME IInv, NEW p \in Procs, NEW c \in Clients, c = proc[p].con,
           At(p, "hello"), NEW j \in 1..Len(chan[c].in["s"]),
           NEW h, h = [chan EXCEPT ![c] = Taken(@, "s", j)],
           End(p, h, proc), Loses(c, Numbers(SubSeq(chan[c].in["s"], 1, j)), 0),
           UNCHANGED <<main, child, rbuf>>
    PROVE  IInv'
<1> DEFINE us == chan[c].in["s"]
<1>1. /\ TypeOK /\ us \in Seq(Unit) /\ j \in 1..Len(us)
      /\ proc[p].pc = "hello" /\ proc[p].rbuf = <<>>
  <2>1. proc[p].pc = "hello"
    BY DEF At
  <2> QED
    BY <2>1, ChansType DEF IInv, Buffers
<1>2. /\ h \in Chans
      /\ \A d \in Clients \ {c} : h[d] = chan[d]
      /\ h[c].end = chan[c].end
      /\ h[c].in["c"] = chan[c].in["c"]
      /\ h[c].in["s"] = SubSeq(us, j + 1, Len(us))
  <2>1. TypeOK
    BY DEF IInv
  <2>2. h = [chan EXCEPT ![c] = Taken(chan[c], "s", j)]
    OBVIOUS
  <2> QED
    BY ONLY <2>1, <2>2, c \in Clients, j \in 1..Len(chan[c].in["s"]), ReadValue
<1>3. /\ proc' = [proc EXCEPT ![p].pc = "dead", ![p].rbuf = <<>>]
      /\ fds' \in [Procs -> SUBSET Clients] /\ queue' \in Seq(Clients)
      /\ \A r \in Procs \ {p} : fds'[r] = fds[r]
      /\ chan' \in Chans
      /\ \A d \in Clients : chan'[d].end["s"] = "open" => chan'[d] = h[d]
  BY <1>1, <1>2, EndEffects
<1>4. proc[p] \in Process /\ <<>> \in Seq(Unit) /\ proc \in [Procs -> Process]
  BY <1>1 DEF TypeOK
<1>5. proc' \in [Procs -> Process]
  <2>1. [proc[p] EXCEPT !.pc = "dead", !.rbuf = <<>>] \in Process
    BY <1>4 DEF Process
  <2> QED
    BY <1>3, <1>4, <2>1
<1>6. Ends1(p)
  <2>1. proc'[p] = [proc[p] EXCEPT !.pc = "dead", !.rbuf = <<>>]
    BY <1>3, <1>4
  <2>2. /\ proc'[p].pc = "dead" /\ proc'[p].con = proc[p].con
        /\ proc'[p].rbuf = <<>>
    BY <2>1, <1>4 DEF Process
  <2>3. \A r \in Procs \ {p} : proc'[r] = proc[r]
    BY <1>3, <1>4
  <2> QED
    BY <2>2, <2>3 DEF Ends1
<1>7. /\ hist' \in [Clients -> History]
      /\ hist'[c].lost = hist[c].lost \cup Numbers(SubSeq(us, 1, j))
      /\ \A d \in Clients \ {c} : hist'[d] = hist[d]
  <2>1. SubSeq(us, 1, j) \in Seq(Unit)
    BY <1>1
  <2>2. Numbers(SubSeq(us, 1, j)) \in SUBSET Nat /\ 0 \in Nat
    BY <2>1, NumbersNat
  <2> QED
    BY <1>1, <2>2, LosesType
<1>8. OneClient(c)'
  <2> SUFFICES ASSUME Served(c)'
               PROVE  /\ Served(c) /\ chan'[c].end["c"] = "open"
                      /\ Parted(c)' /\ Tidy(c)'
    BY OwnClient
  <2>1. /\ chan'[c].end = chan[c].end /\ chan'[c].in["c"] = chan[c].in["c"]
        /\ chan'[c].in["s"] = SubSeq(us, j + 1, Len(us))
    BY <1>2, <1>3 DEF Served
  <2>2. Served(c) /\ SameMain(c)
    BY <2>1 DEF Served, Running, SameMain
  <2>3. chan[c].end["c"] = "open" /\ Parted(c) /\ Tidy(c)
    BY <2>2 DEF IInv, OneClient
  <2>4. \A r \in Procs : /\ proc'[r].con = proc[r].con
                         /\ proc'[r].rbuf = proc[r].rbuf
    BY <1>1, <1>6 DEF Ends1
  <2>5. Parted(c)' /\ Tidy(c)' /\ chan'[c].end["c"] = "open"
    BY <1>1, <1>7, <2>1, <2>2, <2>3, <2>4, ReadsLost
  <2> QED
    BY <2>2, <2>5
<1>9. \A d \in Clients \ {c} :
        /\ hist'[d] = hist[d]
        /\ chan'[d].end["s"] = "open" => chan'[d] = chan[d]
  BY <1>2, <1>3, <1>7
<1> QED
  BY <1>3, <1>5, <1>6, <1>7, <1>8, <1>9, EndStep

(* A step on the way to a handshake, or back from a quit, moves no line.     *)
LEMMA IdleStep ==
    ASSUME IInv, proc' \in [Procs -> Process], Bound',
           fds' \in [Procs -> SUBSET Clients], queue' \in Seq(Clients),
           UNCHANGED <<main, child, rbuf, chan, hist>>,
           \A r \in Procs : \/ proc'[r] = proc[r]
                            \/ /\ proc[r].rbuf = <<>> /\ proc'[r].rbuf = <<>>
                               /\ proc'[r].pc \in {"accept", "fork", "hello"}
    PROVE  IInv'
<1>1. TypeOK'
  <2>1. chan' \in Chans
    BY ChansType DEF IInv
  <2> QED
    BY <2>1, TypeParts DEF IInv, TypeOK, ChildPcs
<1>2. Buffers'
  BY DEF IInv, Buffers
<1>3. ASSUME NEW d \in Clients PROVE OneClient(d)'
  <2>1. SameLines(d)
    BY DEF SameLines
  <2>3. Served(d)' => Served(d)
    BY DEF Served, Running
  <2>4. OneClient(d)
    BY DEF IInv
  <2> QED
    BY <2>1, <2>3, <2>4, Untouched
<1> QED
  BY <1>1, <1>2, <1>3 DEF IInv

LEMMA AcceptStep ==
    ASSUME IInv, NEW p \in Procs, Accept(p), UNCHANGED <<main, child, rbuf>>
    PROVE  IInv'
<1>1. /\ proc[p].pc = "accept" /\ proc[p].rbuf = <<>> /\ proc[p] \in Process
      /\ Head(queue) \in Clients /\ Tail(queue) \in Seq(Clients)
      /\ proc \in [Procs -> Process] /\ fds \in [Procs -> SUBSET Clients]
  BY DEF Accept, At, IInv, TypeOK, Buffers
<1> DEFINE r == [proc[p] EXCEPT !.pc = "fork", !.con = Head(queue)]
<1>2. /\ r \in Process /\ r.pc = "fork" /\ r.rbuf = <<>> /\ r.con = Head(queue)
  BY <1>1 DEF Process
<1>3. proc' = [proc EXCEPT ![p] = r]
  BY DEF Accept
<1>4. /\ fds' = [fds EXCEPT ![p] = @ \cup {Head(queue)}] /\ queue' = Tail(queue)
      /\ UNCHANGED <<chan, hist>>
  BY DEF Accept
<1> HIDE DEF r
<1>5. /\ proc' \in [Procs -> Process] /\ proc'[p] = r
      /\ \A q \in Procs \ {p} : proc'[q] = proc[q]
  BY <1>1, <1>2, <1>3
<1>6. /\ fds' \in [Procs -> SUBSET Clients] /\ Head(queue) \in fds'[p]
      /\ \A q \in Procs \ {p} : fds'[q] = fds[q]
  BY <1>1, <1>4
<1>7. Bound'
  BY <1>2, <1>5, <1>6 DEF Bound, IInv, TypeOK
<1> QED
  BY <1>1, <1>2, <1>4, <1>5, <1>6, <1>7, IdleStep

LEMMA ForkStep ==
    ASSUME IInv, NEW p \in Procs, Fork(p), UNCHANGED <<main, child, rbuf>>
    PROVE  IInv'
<1>1. /\ proc[p].pc = "fork" /\ proc[p].rbuf = <<>> /\ proc[p] \in Process
      /\ proc[p].con \in fds[p]
      /\ proc \in [Procs -> Process] /\ fds \in [Procs -> SUBSET Clients]
  BY DEF Fork, At, IInv, TypeOK, Buffers
<1>2. CASE \E q \in Procs : At(q, "none") /\ ForkTwo(p, q)
  <2>1. PICK q \in Procs : At(q, "none") /\ ForkTwo(p, q)
    BY <1>2
  <2> DEFINE r == [proc[p] EXCEPT !.pc = "hello"]
             t == [proc[p] EXCEPT !.pc = "hello", !.parent = p]
  <2>2. q # p /\ proc[q].rbuf = <<>>
    BY <1>1, <2>1 DEF At, IInv, Buffers
  <2>3. /\ r \in Process /\ r.pc = "hello" /\ r.rbuf = <<>> /\ r.con = proc[p].con
        /\ t \in Process /\ t.pc = "hello" /\ t.rbuf = <<>> /\ t.con = proc[p].con
    BY <1>1 DEF Process
  <2>4. proc' = [proc EXCEPT ![p] = r, ![q] = t] /\ fds' = [fds EXCEPT ![q] = fds[p]]
    BY <2>1 DEF ForkTwo
  <2>5. UNCHANGED <<queue, chan, hist>>
    BY <2>1 DEF ForkTwo
  <2> HIDE DEF r, t
  <2>6. /\ proc' \in [Procs -> Process] /\ proc'[p] = r /\ proc'[q] = t
        /\ \A s \in Procs \ {p, q} : proc'[s] = proc[s]
    BY <1>1, <2>2, <2>3, <2>4
  <2>7. /\ fds' \in [Procs -> SUBSET Clients] /\ fds'[q] = fds[p]
        /\ \A s \in Procs \ {q} : fds'[s] = fds[s]
    BY <1>1, <2>4
  <2>8. Bound'
    BY <1>1, <2>2, <2>3, <2>6, <2>7 DEF Bound, IInv, TypeOK
  <2>9. queue' \in Seq(Clients)
    BY <2>5 DEF IInv, TypeOK
  <2> QED
    BY <1>1, <2>2, <2>3, <2>5, <2>6, <2>7, <2>8, <2>9, IdleStep
<1>3. CASE Goto(p, "accept") /\ UNCHANGED <<fds, queue, chan, hist>>
  <2> DEFINE r == [proc[p] EXCEPT !.pc = "accept"]
  <2>1. r \in Process /\ r.pc = "accept" /\ r.rbuf = <<>>
    BY <1>1 DEF Process
  <2>2. proc' = [proc EXCEPT ![p] = r]
    BY <1>3 DEF Goto
  <2> HIDE DEF r
  <2>3. /\ proc' \in [Procs -> Process] /\ proc'[p] = r
        /\ \A q \in Procs \ {p} : proc'[q] = proc[q]
    BY <1>1, <2>1, <2>2
  <2>4. Bound'
    BY <1>3, <2>1, <2>3 DEF Bound, IInv, TypeOK
  <2>5. fds' \in [Procs -> SUBSET Clients] /\ queue' \in Seq(Clients)
    BY <1>3 DEF IInv, TypeOK
  <2> QED
    BY <1>1, <1>3, <2>1, <2>3, <2>4, <2>5, IdleStep
<1> QED
  BY <1>2, <1>3 DEF Fork

LEMMA KillStep ==
    ASSUME IInv, NEW p \in Procs, Kill(p), UNCHANGED <<main, child, rbuf>>
    PROVE  IInv'
<1> DEFINE r == [proc[p] EXCEPT !.pc = "accept"]
           back == [proc EXCEPT ![p] = r]
           q == proc[p].parent
<1>1. /\ proc[p].pc = "kill" /\ proc[p].rbuf = <<>> /\ proc[p] \in Process
      /\ proc \in [Procs -> Process] /\ fds \in [Procs -> SUBSET Clients]
  BY DEF Kill, At, IInv, TypeOK, Buffers
<1>2. /\ r \in Process /\ r.pc = "accept" /\ r.rbuf = <<>> /\ r.con = proc[p].con
  BY <1>1 DEF Process
<1>3. /\ back \in [Procs -> Process] /\ back[p] = r
      /\ \A s \in Procs \ {p} : back[s] = proc[s]
  <2> HIDE DEF r
  <2> QED
    BY <1>1, <1>2
<1>4. \/ /\ q # None /\ End(q, chan, back)
         /\ Loses(proc[q].con, Numbers(proc[q].rbuf), 0)
      \/ proc' = back /\ UNCHANGED <<fds, queue, chan, hist>>
  BY DEF Kill
<1>5. q \in Procs \cup {None}
  BY <1>1 DEF Process
<1> HIDE DEF r, back
<1>6. CASE /\ q # None /\ End(q, chan, back)
           /\ Loses(proc[q].con, Numbers(proc[q].rbuf), 0)
  <2>1. /\ q \in Procs /\ back[q].con = proc[q].con
        /\ \A s \in Procs \ {q} :
             /\ back[s].con = proc[s].con /\ back[s].rbuf = proc[s].rbuf
             /\ back[s].pc = proc[s].pc \/ (back[s].pc = "accept" /\ proc[s].pc = "kill")
    BY <1>1, <1>2, <1>3, <1>5, <1>6
  <2> HIDE DEF q
  <2> QED
    BY <1>3, <1>6, <2>1, DieStep
<1>7. CASE proc' = back /\ UNCHANGED <<fds, queue, chan, hist>>
  <2>1. Bound'
    BY <1>2, <1>3, <1>7 DEF Bound, IInv, TypeOK
  <2>2. fds' \in [Procs -> SUBSET Clients] /\ queue' \in Seq(Clients)
    BY <1>7 DEF IInv, TypeOK
  <2> QED
    BY <1>1, <1>2, <1>3, <1>7, <2>1, <2>2, IdleStep
<1> QED
  BY <1>4, <1>6, <1>7

LEMMA Dies ==
    ASSUME IInv, NEW p \in Procs, Die(p), UNCHANGED <<main, child, rbuf>>
    PROVE  IInv'
BY DieStep DEF Die, IInv, TypeOK

LEMMA HandsStep ==
    ASSUME IInv, NEW p \in Procs, ShakeHands(p), UNCHANGED <<main, child, rbuf>>
    PROVE  IInv'
<1> SUFFICES ASSUME NEW c, c = proc[p].con
             PROVE  IInv'
  OBVIOUS
<1>1. proc[p].pc \in {"hello", "hi"} /\ c \in Clients
  BY HasClient DEF ShakeHands, At, IInv
<1>2. CASE Die(p)
  BY <1>2, Dies
<1>3. CASE /\ At(p, "hi") /\ chan' = [chan EXCEPT ![c] = Sent(@, "s", <<Hi>>)]
           /\ Goto(p, "read") /\ UNCHANGED <<fds, queue, hist>>
  <2>1. Sending(p, c, <<Hi>>)
    BY <1>1, <1>3 DEF Sending
  <2> QED
    BY <1>3, <2>1, HiSent
<1>4. ASSUME At(p, "hello"), NEW j \in 1..Len(chan[c].in["s"]),
             NEW h, h = [chan EXCEPT ![c] = Taken(@, "s", j)],
             Head(chan[c].in["s"]).t = "hello", chan' = h, Goto(p, "hi"),
             Loses(c, Numbers(SubSeq(chan[c].in["s"], 1, j)), 1),
             UNCHANGED <<fds, queue>>
      PROVE  IInv'
  <2>1. Reading(p, c, j)
    BY <1>1, <1>4 DEF Reading
  <2> QED
    BY <1>4, <2>1, HelloRead
<1>5. ASSUME At(p, "hello"), NEW j \in 1..Len(chan[c].in["s"]),
             NEW h, h = [chan EXCEPT ![c] = Taken(@, "s", j)],
             End(p, h, proc), Loses(c, Numbers(SubSeq(chan[c].in["s"], 1, j)), 0)
      PROVE  IInv'
  BY <1>1, <1>5, NotShaken
<1> QED
  BY <1>2, <1>3, <1>4, <1>5 DEF ShakeHands

LEMMA ReadStep ==
    ASSUME IInv, NEW p \in Procs, Read(p), UNCHANGED <<main, child, rbuf>>
    PROVE  IInv'
<1> SUFFICES ASSUME NEW c, c = proc[p].con
             PROVE  IInv'
  OBVIOUS
<1>1. proc[p].pc = "read" /\ c \in Clients /\ At(p, "read")
  BY HasClient DEF Read, At, IInv
<1>2. PICK j \in 1..Len(chan[c].in["s"]) :
        /\ chan' = [chan EXCEPT ![c] = Taken(@, "s", j)]
        /\ \/ /\ Goto(p, "kill")
              /\ Loses(c, Numbers(SubSeq(chan[c].in["s"], 1, j)), 0)
           \/ Keeping(p, c, j)
  BY DEF Read, Keeping
<1>3. UNCHANGED <<fds, queue>>
  BY DEF Read
<1>4. Reading(p, c, j)
  BY <1>1, <1>2, <1>3 DEF Reading
<1> QED
  BY <1>1, <1>2, <1>4, QuitRead, LineRead

LEMMA WriteStep ==
    ASSUME IInv, NEW p \in Procs, Write(p), UNCHANGED <<main, child, rbuf>>
    PROVE  IInv'
<1> SUFFICES ASSUME NEW c, c = proc[p].con
             PROVE  IInv'
  OBVIOUS
<1>1. proc[p].pc = "write" /\ c \in Clients /\ At(p, "write")
  BY HasClient DEF Write, At, IInv
<1>2. CASE Die(p)
  BY <1>2, Dies
<1>3. CASE /\ chan' = [chan EXCEPT ![c] = Sent(@, "s", Echo(proc[p].rbuf))]
           /\ proc' = [proc EXCEPT ![p].pc = "read", ![p].rbuf = <<>>]
           /\ UNCHANGED <<fds, queue, hist>>
  <2>1. Sending(p, c, proc[p].rbuf) /\ Emptied(p)
    BY <1>1, <1>3 DEF Sending, Emptied, Echo
  <2> QED
    BY <1>1, <2>1, LineWritten
<1> QED
  BY <1>2, <1>3 DEF Write

LEMMA ServeStep ==
    ASSUME IInv, NEW p \in Procs, Serve(p)
    PROVE  IInv'
<1>1. UNCHANGED <<main, child, rbuf>>
  BY DEF Serve
<1> QED
  BY <1>1, AcceptStep, ForkStep, HandsStep, ReadStep, WriteStep, KillStep DEF Serve
(* The clients.  A step of one leaves the others alone.                      *)
Others(c) == \A d \in Clients \ {c} :
    /\ main'[d] = main[d] /\ child'[d] = child[d] /\ rbuf'[d] = rbuf[d]
    /\ chan'[d] = chan[d] /\ hist'[d] = hist[d]

ClientTypes ==
    /\ queue' \in Seq(Clients) /\ chan' \in Chans /\ main' \in [Clients -> Main]
    /\ child' \in [Clients -> ChildPcs] /\ rbuf' \in [Clients -> Seq(Unit)]
    /\ hist' \in [Clients -> History]

(* What every step of a client's processes has to show.                      *)
OwnStep(c) ==
    /\ UNCHANGED <<proc, fds>> /\ ClientTypes /\ Others(c)
    /\ child'[c] # "write" => rbuf'[c] = <<>>
    /\ main'[c].pc \in {"connect", "fork"} => child'[c] = "none"

LEMMA ClientStep ==
    ASSUME IInv, NEW c \in Clients, OwnStep(c), OneClient(c)'
    PROVE  IInv'
<1>1. UNCHANGED <<proc, fds>> /\ ClientTypes /\ Others(c)
  BY DEF OwnStep
<1>2. TypeOK'
  <2>1. /\ proc' \in [Procs -> Process] /\ fds' \in [Procs -> SUBSET Clients]
        /\ Bound'
    BY <1>1 DEF Bound, IInv, TypeOK
  <2> QED
    BY <1>1, <2>1, TypeParts DEF ClientTypes
<1>3. Buffers'
  <2>1. ASSUME NEW d \in Clients
        PROVE  /\ child'[d] # "write" => rbuf'[d] = <<>>
               /\ main'[d].pc \in {"connect", "fork"} => child'[d] = "none"
    BY <1>1, <2>1 DEF OwnStep, Others, IInv, Buffers
  <2> QED
    BY <1>1, <2>1 DEF IInv, Buffers
<1>4. ASSUME NEW d \in Clients, d # c PROVE OneClient(d)'
  <2>1. /\ main'[d] = main[d] /\ child'[d] = child[d] /\ rbuf'[d] = rbuf[d]
        /\ chan'[d] = chan[d] /\ hist'[d] = hist[d]
    BY <1>1, <1>4 DEF Others
  <2>2. SameLines(d)
    BY <1>1, <2>1 DEF SameLines
  <2>3. Served(d)' => Served(d)
    BY <2>1 DEF Served, Running
  <2>4. OneClient(d)
    BY DEF IInv
  <2> QED
    BY <2>2, <2>3, <2>4, Untouched
<1> QED
  BY <1>2, <1>3, <1>4 DEF IInv

(* The lines A go from one place outside the server to another, or stay.     *)
Shifts(c, x, y, A) ==
    /\ x \in {Got, Lost, Out, In, Kid} /\ y \in {Got, Lost, Out, In, Kid} /\ x # y
    /\ Numbered(c, x) = Numbered(c, x)' \cup A /\ Numbered(c, x)' \cap A = {}
    /\ Numbered(c, y)' = Numbered(c, y) \cup A
    /\ \A z \in {Got, Lost, Out, In, Kid} \ {x, y} : Numbered(c, z)' = Numbered(c, z)
Once(c) == /\ Distinct(chan'[c].in["c"]) /\ Distinct(chan'[c].in["s"])
           /\ Distinct(rbuf'[c])

LEMMA ShiftStep ==
    ASSUME IInv, NEW c \in Clients, OwnStep(c), main'[c].sent = main[c].sent,
           NEW x, NEW y, NEW A,
           Served(c)' => /\ Served(c) /\ chan'[c].end["c"] = chan[c].end["c"]
                         /\ (Parted(c) /\ Tidy(c)) => Shifts(c, x, y, A) /\ Once(c)
    PROVE  IInv'
<1>1. ASSUME Served(c)'
      PROVE  Served(c) /\ chan'[c].end["c"] = "open" /\ Parted(c)' /\ Tidy(c)'
  <2>1. Served(c) /\ chan[c].end["c"] = "open" /\ Parted(c) /\ Tidy(c)
    BY <1>1 DEF IInv, OneClient
  <2>2. Shifts(c, x, y, A) /\ Once(c) /\ UNCHANGED proc
    BY <1>1, <2>1 DEF OwnStep
  <2>3. \A p \in Procs : Numbered(c, Buf(p))' = Numbered(c, Buf(p))
    BY <2>2, SameBuf
  <2>4. \A z \in Places : z # x /\ z # y => Numbered(c, z)' = Numbered(c, z)
    BY <2>2, <2>3, PlacesAre DEF Shifts
  <2>5. x \in Places /\ y \in Places /\ x # y
    BY <2>2, PlacesAre DEF Shifts
  <2>6. /\ Numbered(c, x) = Numbered(c, x)' \cup A /\ Numbered(c, x)' \cap A = {}
        /\ Numbered(c, y)' = Numbered(c, y) \cup A
    BY <2>2 DEF Shifts
  <2>7. Parted(c)'
    BY <2>1, <2>4, <2>5, <2>6, PartMoved
  <2>8. Tidy(c)'
    BY <2>1, <2>2, TidyNext DEF Tidy, Once
  <2> QED
    BY <1>1, <2>1, <2>7, <2>8
<1>2. OneClient(c)'
  BY <1>1, OwnClient
<1> QED
  BY <1>2, ClientStep

(* The ways of a client's lines: those it receives go from the connection    *)
(* to y, with no other place of it changed;                                  *)
FromOut(c, j) ==
    /\ j \in 1..Len(chan[c].in["c"]) /\ chan'[c].in["s"] = chan[c].in["s"]
    /\ chan'[c].in["c"] = SubSeq(chan[c].in["c"], j + 1, Len(chan[c].in["c"]))

LEMMA TakesLines ==
    ASSUME TypeOK, NEW c \in Clients, NEW j, FromOut(c, j), Tidy(c),
           NEW A, A = Numbers(SubSeq(chan[c].in["c"], 1, j)),
           \/ /\ main'[c].got = main[c].got \cup A
              /\ hist'[c].lost = hist[c].lost /\ rbuf'[c] = rbuf[c]
           \/ /\ hist'[c].lost = hist[c].lost \cup A
              /\ main'[c].got = main[c].got /\ rbuf'[c] = rbuf[c]
           \/ /\ rbuf[c] = <<>> /\ rbuf'[c] = SubSeq(chan[c].in["c"], 1, j)
              /\ main'[c].got = main[c].got /\ hist'[c].lost = hist[c].lost
    PROVE  Once(c) /\ \E y \in {Got, Lost, Kid} : Shifts(c, Out, y, A)
<1> DEFINE us == chan[c].in["c"]
           a == SubSeq(us, 1, j)
           b == SubSeq(us, j + 1, Len(us))
<1>1. us \in Seq(Unit) /\ j \in 1..Len(us) /\ Distinct(us)
  BY ChansType DEF FromOut, Tidy, out
<1>2. /\ Numbers(us) = Numbers(a) \cup Numbers(b)
      /\ Numbers(a) \cap Numbers(b) = {} /\ Distinct(a) /\ Distinct(b)
  BY <1>1, NumbersSplit
<1>3. chan'[c].in["c"] = b /\ chan'[c].in["s"] = chan[c].in["s"] /\ A = Numbers(a)
  BY DEF FromOut
<1>4. Once(c)
  BY <1>2, <1>3 DEF Once, Tidy
<1> HIDE DEF a, b
<1>5. /\ Numbered(c, Out) = Numbered(c, Out)' \cup A
      /\ Numbered(c, Out)' \cap A = {}
      /\ Numbered(c, In)' = Numbered(c, In)
  BY <1>2, <1>3, NumberedAre, NumberedNext DEF out
<1>6. /\ Out # Got /\ Out # Lost /\ Out # Kid
      /\ Got # Lost /\ Got # Kid /\ Lost # Kid
      /\ In \notin {Out, Got, Lost, Kid}
  BY PlacesAre
<1>7. CASE /\ main'[c].got = main[c].got \cup A
           /\ hist'[c].lost = hist[c].lost /\ rbuf'[c] = rbuf[c]
  <2>1. /\ Numbered(c, Got)' = Numbered(c, Got) \cup A
        /\ Numbered(c, Lost)' = Numbered(c, Lost)
        /\ Numbered(c, Kid)' = Numbered(c, Kid)
    BY <1>7, NumberedAre, NumberedNext
  <2>2. Shifts(c, Out, Got, A)
    BY <1>5, <1>6, <2>1 DEF Shifts
  <2> QED
    BY <1>4, <2>2
<1>8. CASE /\ hist'[c].lost = hist[c].lost \cup A
           /\ main'[c].got = main[c].got /\ rbuf'[c] = rbuf[c]
  <2>1. /\ Numbered(c, Lost)' = Numbered(c, Lost) \cup A
        /\ Numbered(c, Got)' = Numbered(c, Got)
        /\ Numbered(c, Kid)' = Numbered(c, Kid)
    BY <1>8, NumberedAre, NumberedNext
  <2>2. Shifts(c, Out, Lost, A)
    BY <1>5, <1>6, <2>1 DEF Shifts
  <2> QED
    BY <1>4, <2>2
<1>9. CASE /\ rbuf[c] = <<>> /\ rbuf'[c] = SubSeq(chan[c].in["c"], 1, j)
           /\ main'[c].got = main[c].got /\ hist'[c].lost = hist[c].lost
  <2>1. /\ Numbered(c, Got)' = Numbered(c, Got)
        /\ Numbered(c, Lost)' = Numbered(c, Lost)
    BY <1>9, NumberedAre, NumberedNext
  <2>3. Numbered(c, Kid)' = A
    BY ONLY <1>9, NumberedNext, A = Numbers(SubSeq(chan[c].in["c"], 1, j))
  <2>4. Numbered(c, Kid) = {}
    BY ONLY <1>9, NumberedAre, NumbersEmpty
  <2>5. Numbered(c, Kid)' = Numbered(c, Kid) \cup A
    BY ONLY <2>3, <2>4
  <2>2. Shifts(c, Out, Kid, A)
    BY <1>5, <1>6, <2>1, <2>5 DEF Shifts
  <2> QED
    BY <1>4, <2>2
<1> QED
  BY <1>7, <1>8, <1>9

(* those its child has read go back to the server,                           *)
LEMMA PutsBack ==
    ASSUME TypeOK, NEW c \in Clients, Parted(c), Tidy(c),
           main'[c].got = main[c].got, hist'[c].lost = hist[c].lost,
           chan'[c].in["c"] = chan[c].in["c"],
           chan'[c].in["s"] = chan[c].in["s"] \o rbuf[c], rbuf'[c] = <<>>
    PROVE  Shifts(c, Kid, In, Numbers(rbuf[c])) /\ Once(c)
<1> DEFINE us == chan[c].in["s"]
           vs == rbuf[c]
<1>1. us \in Seq(Unit) /\ vs \in Seq(Unit) /\ Distinct(us) /\ Distinct(vs)
  BY ChansType DEF Tidy, TypeOK
<1>2. Numbers(us) \cap Numbers(vs) = {}
  <2>1. Numbered(c, In) \cap Numbered(c, Kid) = {}
    BY PlacesAre DEF Parted
  <2> QED
    BY <2>1, NumberedAre
<1>3. Numbers(us \o vs) = Numbers(us) \cup Numbers(vs) /\ Distinct(us \o vs)
  BY <1>1, <1>2, NumbersConcat
<1>4. Once(c)
  BY <1>3, NumbersEmpty DEF Once, Tidy, out
<1>5. Numbered(c, Kid) = Numbers(vs) /\ Numbered(c, Kid)' = {}
  BY NumberedAre, NumberedNext, NumbersEmpty
<1>6. Numbered(c, In)' = Numbered(c, In) \cup Numbers(vs)
  BY <1>3, NumberedAre, NumberedNext
<1>7. /\ Numbered(c, Got)' = Numbered(c, Got)
      /\ Numbered(c, Lost)' = Numbered(c, Lost)
      /\ Numbered(c, Out)' = Numbered(c, Out)
  BY NumberedAre, NumberedNext DEF out
<1>8. Shifts(c, Kid, In, Numbers(vs))
  BY <1>5, <1>6, <1>7, PlacesAre DEF Shifts
<1> QED
  BY <1>4, <1>8

(* or are lost,                                                              *)
LEMMA DropsKid ==
    ASSUME NEW c \in Clients, Tidy(c),
           main'[c].got = main[c].got, chan'[c].in = chan[c].in,
           hist'[c].lost = hist[c].lost \cup Numbers(rbuf[c]), rbuf'[c] = <<>>
    PROVE  Shifts(c, Kid, Lost, Numbers(rbuf[c])) /\ Once(c)
<1>1. Once(c)
  BY NumbersEmpty DEF Once, Tidy, out
<1>2. /\ Numbered(c, Kid) = Numbers(rbuf[c]) /\ Numbered(c, Kid)' = {}
      /\ Numbered(c, Lost)' = Numbered(c, Lost) \cup Numbers(rbuf[c])
      /\ Numbered(c, Got)' = Numbered(c, Got)
      /\ Numbered(c, In)' = Numbered(c, In)
      /\ Numbered(c, Out)' = Numbered(c, Out)
  BY NumberedAre, NumberedNext, NumbersEmpty DEF out
<1>3. Shifts(c, Kid, Lost, Numbers(rbuf[c]))
  BY <1>2, PlacesAre DEF Shifts
<1> QED
  BY <1>1, <1>3

(* and nothing moves when a process only goes on, or says hi.                *)
LEMMA StaysPut ==
    ASSUME TypeOK, NEW c \in Clients, Tidy(c),
           main'[c].got = main[c].got, hist'[c].lost = hist[c].lost,
           rbuf'[c] = rbuf[c], chan'[c].in["c"] = chan[c].in["c"],
           chan'[c].in["s"] \in {chan[c].in["s"], chan[c].in["s"] \o <<Hi>>}
    PROVE  Shifts(c, Got, Lost, {}) /\ Once(c)
<1> DEFINE us == chan[c].in["s"]
           vs == <<Hi>>
<1>1. us \in Seq(Unit) /\ Distinct(us)
  BY ChansType DEF Tidy
<1>2. vs \in Seq(Unit) /\ Numbers(vs) = {} /\ Distinct(vs)
  <2>1. Hi \in Unit /\ Hi.n = 0
    BY DEF Hi, Unit
  <2> QED
    BY <2>1, NumbersOne
<1> HIDE DEF vs
<1>3. Numbers(us \o vs) = Numbers(us) /\ Distinct(us \o vs)
  BY <1>1, <1>2, NumbersConcat
<1>4. chan'[c].in["s"] \in {us, us \o vs}
  BY DEF vs
<1>5. Once(c)
  BY <1>1, <1>3, <1>4 DEF Once, Tidy, out
<1>6. Numbered(c, In)' = Numbered(c, In)
  <2>1. Numbers(chan'[c].in["s"]) = Numbers(us)
    BY ONLY <1>3, <1>4
  <2> QED
    BY ONLY <2>1, NumberedAre, NumberedNext
<1>7. /\ Numbered(c, Kid)' = Numbered(c, Kid)
      /\ Numbered(c, Got)' = Numbered(c, Got)
      /\ Numbered(c, Lost)' = Numbered(c, Lost)
      /\ Numbered(c, Out)' = Numbered(c, Out)
  BY NumberedAre, NumberedNext DEF out
<1>8. Shifts(c, Got, Lost, {})
  BY <1>6, <1>7, PlacesAre DEF Shifts
<1> QED
  BY <1>5, <1>8

-----------------------------------------------------------------------------
(* What a process of a client does to the variables.                         *)
MainPcs == {"connect", "fork", "key", "kill", "hello", "hi", "prompt",
            "recv", "exit", "dead"}

LEMMA MainGoes ==
    ASSUME TypeOK, NEW c \in Clients, NEW pc \in MainPcs, MGoto(c, pc)
    PROVE  /\ main' \in [Clients -> Main]
           /\ main'[c].pc = pc /\ main'[c].got = main[c].got
           /\ main'[c].sent = main[c].sent
           /\ \A d \in Clients \ {c} : main'[d] = main[d]
<1> DEFINE m == [main[c] EXCEPT !.pc = pc]
<1>1. main \in [Clients -> Main] /\ main[c] \in Main
  BY DEF TypeOK
<1>2. /\ m \in Main /\ m.pc = pc /\ m.got = main[c].got /\ m.sent = main[c].sent
  BY <1>1 DEF Main, MainPcs
<1>3. main' = [main EXCEPT ![c] = m]
  BY DEF MGoto
<1> HIDE DEF m
<1> QED
  BY <1>1, <1>2, <1>3

LEMMA ChildGoes ==
    ASSUME TypeOK, NEW c \in Clients, NEW pc \in ChildPcs, CGoto(c, pc)
    PROVE  /\ child' \in [Clients -> ChildPcs] /\ child'[c] = pc
           /\ \A d \in Clients \ {c} : child'[d] = child[d]
BY DEF TypeOK, CGoto, ChildPcs

LEMMA KidGets ==
    ASSUME TypeOK, NEW c \in Clients, NEW us \in Seq(Unit),
           rbuf' = [rbuf EXCEPT ![c] = us]
    PROVE  /\ rbuf' \in [Clients -> Seq(Unit)] /\ rbuf'[c] = us
           /\ \A d \in Clients \ {c} : rbuf'[d] = rbuf[d]
BY DEF TypeOK

(* A client that is gone has nothing to be looked at any more.               *)
LEMMA ShutDoes ==
    ASSUME TypeOK, NEW c \in Clients, NEW h \in Connection(Unit), NEW b, Shut(c, h, b)
    PROVE  chan' \in Chans /\ \A d \in Clients \ {c} : chan'[d] = chan[d]
<1>1. "c" \in Sides
  BY DEF Sides
<1>2. CASE chan' = [chan EXCEPT ![c] = h]
  BY <1>2, OneChanged
<1>3. CASE \E how \in Hows : chan' = [chan EXCEPT ![c] = Closed(h, "c", how)]
  <2>1. PICK how \in Hows : chan' = [chan EXCEPT ![c] = Closed(h, "c", how)]
    BY <1>3
  <2> DEFINE v == Closed(h, "c", how)
  <2>2. v \in Connection(Unit)
    BY <1>1, ClosedConn
  <2>3. chan' = [chan EXCEPT ![c] = v]
    BY <2>1
  <2> HIDE DEF v
  <2> QED
    BY <2>2, <2>3, OneChanged
<1> QED
  BY <1>2, <1>3 DEF Shut

(* A receive, as seen by a client.                                           *)
LEMMA HearEffect ==
    ASSUME TypeOK, NEW c \in Clients, NEW j \in 1..Len(chan[c].in["c"])
    PROVE  LET h == Taken(chan[c], "c", j) IN
           /\ h \in Connection(Unit) /\ h.end = chan[c].end
           /\ h.in["c"] = SubSeq(chan[c].in["c"], j + 1, Len(chan[c].in["c"]))
           /\ h.in["s"] = chan[c].in["s"]
<1>1. chan[c] \in Connection(Unit) /\ chan[c].in["c"] \in Seq(Unit)
  BY ChansType
<1>2. j \in Nat /\ "c" \in Sides /\ "s" \in Sides \ {"c"}
  BY <1>1 DEF Sides
<1> QED
  BY <1>1, <1>2, TakenUnit

(* A main process that ends; what its child does then is not looked at.      *)
LEMMA Gone ==
    ASSUME IInv, NEW c \in Clients, OwnStep(c), ~ Served(c)'
    PROVE  IInv'
<1>1. OneClient(c)'
  BY DEF OneClient
<1> QED
  BY <1>1, ClientStep

LEMMA Stops ==
    ASSUME IInv, NEW c \in Clients, NEW pc \in {"exit", "dead"}, Stop(c, pc),
           UNCHANGED <<proc, fds, queue>>
    PROVE  IInv'
<1>1. /\ TypeOK /\ pc \in MainPcs /\ MGoto(c, pc) /\ UNCHANGED <<child, rbuf, hist>>
      /\ Shut(c, chan[c], child[c] \in {"none", "dead"})
  BY DEF IInv, MainPcs, Stop
<1>2. /\ main' \in [Clients -> Main] /\ main'[c].pc = pc
      /\ \A d \in Clients \ {c} : main'[d] = main[d]
  BY <1>1, MainGoes
<1> DEFINE b == child[c] \in {"none", "dead"}
<1>3. Shut(c, chan[c], b) /\ chan[c] \in Connection(Unit)
  BY <1>1, ChansType
<1> HIDE DEF b
<1>4. chan' \in Chans /\ \A d \in Clients \ {c} : chan'[d] = chan[d]
  BY <1>1, <1>3, ShutDoes
<1>5. ClientTypes /\ Others(c)
  BY <1>1, <1>2, <1>4 DEF ClientTypes, Others, TypeOK, ChildPcs
<1>6. OwnStep(c)
  BY <1>1, <1>2, <1>5 DEF OwnStep, IInv, Buffers
<1>7. ~ Served(c)'
  BY <1>2 DEF Served, Running
<1> QED
  BY <1>6, <1>7, Gone

LEMMA LostType ==
    ASSUME TypeOK, NEW c \in Clients, NEW us \in Seq(Unit), Loses(c, Numbers(us), 0)
    PROVE  /\ hist' \in [Clients -> History]
           /\ hist'[c].lost = hist[c].lost \cup Numbers(us)
           /\ \A d \in Clients \ {c} : hist'[d] = hist[d]
<1>1. Numbers(us) \in SUBSET Nat /\ 0 \in Nat
  BY NumbersNat
<1> QED
  BY <1>1, LosesType

LEMMA CrashStep ==
    ASSUME IInv, NEW c \in Clients, Crash(c)
    PROVE  IInv'
<1>1. UNCHANGED <<proc, fds, queue>> /\ TypeOK
  BY DEF Crash, IInv
<1>2. CASE Stop(c, "dead")
  BY <1>1, <1>2, Stops
<1>3. CASE /\ MGoto(c, "dead")
           /\ CGoto(c, "dead") /\ rbuf' = [rbuf EXCEPT ![c] = <<>>]
           /\ Shut(c, chan[c], TRUE) /\ Loses(c, Numbers(rbuf[c]), 0)
  <2>1. /\ main' \in [Clients -> Main] /\ main'[c].pc = "dead"
        /\ \A d \in Clients \ {c} : main'[d] = main[d]
    BY <1>1, <1>3, MainGoes DEF MainPcs
  <2>2. /\ child' \in [Clients -> ChildPcs] /\ child'[c] = "dead"
        /\ \A d \in Clients \ {c} : child'[d] = child[d]
    BY <1>1, <1>3, ChildGoes DEF ChildPcs
  <2>3. <<>> \in Seq(Unit) /\ rbuf[c] \in Seq(Unit) /\ chan[c] \in Connection(Unit)
    BY <1>1, ChansType DEF TypeOK
  <2>4. /\ rbuf' \in [Clients -> Seq(Unit)] /\ rbuf'[c] = <<>>
        /\ \A d \in Clients \ {c} : rbuf'[d] = rbuf[d]
    BY <1>1, <1>3, <2>3, KidGets
  <2>5. chan' \in Chans /\ \A d \in Clients \ {c} : chan'[d] = chan[d]
    BY <1>1, <1>3, <2>3, ShutDoes
  <2>6. /\ hist' \in [Clients -> History]
        /\ \A d \in Clients \ {c} : hist'[d] = hist[d]
    BY <1>1, <1>3, <2>3, LostType
  <2>7. queue' \in Seq(Clients)
    BY <1>1 DEF TypeOK
  <2>8. OwnStep(c)
    BY <1>1, <2>1, <2>2, <2>4, <2>5, <2>6, <2>7 DEF OwnStep, ClientTypes, Others
  <2>9. ~ Served(c)'
    BY <2>1 DEF Served, Running
  <2> QED
    BY <2>8, <2>9, Gone
<1> QED
  BY <1>2, <1>3 DEF Crash

(* A step of a client that moves none of its lines.                          *)
LEMMA Continues ==
    ASSUME IInv, NEW c \in Clients, OwnStep(c),
           main'[c].got = main[c].got, main'[c].sent = main[c].sent,
           hist'[c].lost = hist[c].lost, rbuf'[c] = rbuf[c],
           Served(c)' =>
             /\ Served(c) /\ chan'[c].end["c"] = chan[c].end["c"]
             /\ chan'[c].in["c"] = chan[c].in["c"]
             /\ chan'[c].in["s"] \in {chan[c].in["s"], chan[c].in["s"] \o <<Hi>>}
    PROVE  IInv'
<1>1. Served(c)' => /\ Served(c) /\ chan'[c].end["c"] = chan[c].end["c"]
                    /\ (Parted(c) /\ Tidy(c)) => Shifts(c, Got, Lost, {}) /\ Once(c)
  BY StaysPut DEF IInv
<1> QED
  BY <1>1, ShiftStep

LEMMA MainOnly ==
    ASSUME IInv, NEW c \in Clients, NEW pc \in MainPcs, MGoto(c, pc),
           main[c].pc \notin {"exit", "dead"},
           pc \in {"connect", "fork"} => main[c].pc \in {"connect", "fork"},
           UNCHANGED <<proc, fds, chan, child, rbuf, hist>>, queue' \in Seq(Clients)
    PROVE  IInv'
<1>1. TypeOK
  BY DEF IInv
<1>2. /\ main' \in [Clients -> Main]
      /\ main'[c].pc = pc /\ main'[c].got = main[c].got
      /\ main'[c].sent = main[c].sent
      /\ \A d \in Clients \ {c} : main'[d] = main[d]
  BY <1>1, MainGoes
<1>3. OwnStep(c)
  BY <1>1, <1>2, ChansType
     DEF OwnStep, ClientTypes, Others, TypeOK, ChildPcs, IInv, Buffers
<1>4. Served(c)' => Served(c)
  BY DEF Served, Running
<1> QED
  BY <1>2, <1>3, <1>4, Continues

LEMMA ConnectStep ==
    ASSUME IInv, NEW c \in Clients, Connect(c), UNCHANGED <<proc, fds>>
    PROVE  IInv'
<1>1. main[c].pc = "connect" /\ UNCHANGED <<chan, child, rbuf, hist>>
  BY DEF Connect, MAt
<1>2. PICK pc \in {"dead", "fork"} : MGoto(c, pc)
  BY DEF Connect
<1>3. queue' \in Seq(Clients)
  <2>1. queue \in Seq(Clients) /\ Append(queue, c) \in Seq(Clients)
    BY DEF IInv, TypeOK
  <2> QED
    BY <2>1 DEF Connect
<1>4. /\ pc \in MainPcs /\ main[c].pc \notin {"exit", "dead"}
      /\ main[c].pc \in {"connect", "fork"}
  BY <1>1 DEF MainPcs
<1> QED
  BY <1>1, <1>2, <1>3, <1>4, MainOnly

LEMMA ForkChildStep ==
    ASSUME IInv, NEW c \in Clients, ForkChild(c), UNCHANGED <<proc, fds, queue>>
    PROVE  IInv'
<1>1. CASE Stop(c, "exit")
  BY <1>1, Stops
<1>2. CASE /\ MGoto(c, "key") /\ CGoto(c, "hello")
           /\ UNCHANGED <<chan, rbuf, hist>>
  <2>1. main[c].pc = "fork" /\ TypeOK
    BY DEF ForkChild, MAt, IInv
  <2>2. /\ main' \in [Clients -> Main]
        /\ main'[c].pc = "key" /\ main'[c].got = main[c].got
        /\ main'[c].sent = main[c].sent
        /\ \A d \in Clients \ {c} : main'[d] = main[d]
    BY <1>2, <2>1, MainGoes DEF MainPcs
  <2>3. /\ child' \in [Clients -> ChildPcs] /\ child'[c] = "hello"
        /\ \A d \in Clients \ {c} : child'[d] = child[d]
    BY <1>2, <2>1, ChildGoes DEF ChildPcs
  <2>4. rbuf[c] = <<>>
    BY <2>1 DEF IInv, Buffers
  <2>5. OwnStep(c)
    BY <1>2, <2>1, <2>2, <2>3, <2>4, ChansType
       DEF OwnStep, ClientTypes, Others, TypeOK
  <2>6. Served(c)' => Served(c)
    BY <1>2, <2>1 DEF Served, Running
  <2> QED
    BY <1>2, <2>2, <2>5, <2>6, Continues
<1> QED
  BY <1>1, <1>2 DEF ForkChild

LEMMA KillsStep ==
    ASSUME IInv, NEW c \in Clients, KillsChild(c), UNCHANGED <<proc, fds, queue>>
    PROVE  IInv'
<1>1. /\ main[c].pc = "kill" /\ TypeOK /\ UNCHANGED chan /\ MGoto(c, "hello")
      /\ CGoto(c, "dead") /\ rbuf' = [rbuf EXCEPT ![c] = <<>>]
      /\ Loses(c, Numbers(rbuf[c]), 0)
  BY DEF KillsChild, MAt, IInv
<1>2. /\ main' \in [Clients -> Main]
      /\ main'[c].pc = "hello" /\ main'[c].got = main[c].got
      /\ main'[c].sent = main[c].sent
      /\ \A d \in Clients \ {c} : main'[d] = main[d]
  BY <1>1, MainGoes DEF MainPcs
<1>3. /\ child' \in [Clients -> ChildPcs] /\ child'[c] = "dead"
      /\ \A d \in Clients \ {c} : child'[d] = child[d]
  BY <1>1, ChildGoes DEF ChildPcs
<1>4. <<>> \in Seq(Unit) /\ rbuf[c] \in Seq(Unit)
  BY <1>1 DEF TypeOK
<1>5. /\ rbuf' \in [Clients -> Seq(Unit)] /\ rbuf'[c] = <<>>
      /\ \A d \in Clients \ {c} : rbuf'[d] = rbuf[d]
  BY <1>1, <1>4, KidGets
<1>6. /\ hist' \in [Clients -> History]
      /\ hist'[c].lost = hist[c].lost \cup Numbers(rbuf[c])
      /\ \A d \in Clients \ {c} : hist'[d] = hist[d]
  BY <1>1, <1>4, LostType
<1>7. OwnStep(c)
  BY <1>1, <1>2, <1>3, <1>5, <1>6, ChansType
     DEF OwnStep, ClientTypes, Others, TypeOK
<1>8. Served(c)' => Served(c)
  BY <1>1 DEF Served, Running
<1> DEFINE A == Numbers(rbuf[c])
<1>9. Tidy(c) => Shifts(c, Kid, Lost, A) /\ Once(c)
  BY <1>1, <1>2, <1>5, <1>6, DropsKid
<1> HIDE DEF A
<1> QED
  BY <1>1, <1>2, <1>7, <1>8, <1>9, ShiftStep

(* The child ends: what it has read, and taken, is lost.                     *)
LEMMA ChildEndsStep ==
    ASSUME IInv, NEW c \in Clients, child[c] # "none",
           NEW h \in Connection(Unit), NEW us \in Seq(Unit),
           ChildEnds(c, h, Numbers(us)), UNCHANGED <<proc, fds, queue>>,
           h.end = chan[c].end, h.in["s"] = chan[c].in["s"],
           \/ h.in["c"] = chan[c].in["c"] /\ us = rbuf[c]
           \/ /\ rbuf[c] = <<>>
              /\ \E j \in 1..Len(chan[c].in["c"]) :
                   /\ us = SubSeq(chan[c].in["c"], 1, j)
                   /\ h.in["c"] = SubSeq(chan[c].in["c"], j + 1, Len(chan[c].in["c"]))
    PROVE  IInv'
<1>1. /\ UNCHANGED main /\ TypeOK /\ CGoto(c, "dead")
      /\ rbuf' = [rbuf EXCEPT ![c] = <<>>]
      /\ Shut(c, h, ~ Running(c)) /\ Loses(c, Numbers(us), 0)
  BY DEF ChildEnds, IInv
<1>2. /\ child' \in [Clients -> ChildPcs] /\ child'[c] = "dead"
      /\ \A d \in Clients \ {c} : child'[d] = child[d]
  BY <1>1, ChildGoes DEF ChildPcs
<1>3. /\ rbuf' \in [Clients -> Seq(Unit)] /\ rbuf'[c] = <<>>
      /\ \A d \in Clients \ {c} : rbuf'[d] = rbuf[d]
  <2>1. <<>> \in Seq(Unit)
    OBVIOUS
  <2> QED
    BY <1>1, <2>1, KidGets
<1>4. /\ hist' \in [Clients -> History]
      /\ hist'[c].lost = hist[c].lost \cup Numbers(us)
      /\ \A d \in Clients \ {c} : hist'[d] = hist[d]
  BY <1>1, LostType
<1> DEFINE b == ~ Running(c)
<1>5. Shut(c, h, b)
  BY <1>1
<1> HIDE DEF b
<1>6. chan' \in Chans /\ \A d \in Clients \ {c} : chan'[d] = chan[d]
  BY <1>1, <1>5, ShutDoes
<1>7. main' \in [Clients -> Main] /\ queue' \in Seq(Clients)
  BY <1>1 DEF TypeOK
<1>8. OwnStep(c)
  <2>1. main[c].pc \notin {"connect", "fork"}
    BY DEF IInv, Buffers
  <2> QED
    BY <1>1, <1>2, <1>3, <1>4, <1>6, <1>7, <2>1 DEF OwnStep, ClientTypes, Others
<1> DEFINE A == Numbers(us)
<1>9. ASSUME Served(c)'
      PROVE  \E x, y : /\ Served(c) /\ chan'[c].end["c"] = chan[c].end["c"]
                       /\ Tidy(c) => Shifts(c, x, y, A) /\ Once(c)
  <2>1. Running(c) /\ chan'[c].end["s"] = "open"
    BY <1>1, <1>9 DEF Served, Running
  <2>2. chan' = [chan EXCEPT ![c] = h]
    BY <1>5, <2>1 DEF Shut, b
  <2>3. chan'[c] = h
    BY <1>1, <2>2, OneChanged
  <2>4. Served(c) /\ chan'[c].end["c"] = chan[c].end["c"]
    BY <2>1, <2>3 DEF Served
  <2>5. CASE h.in["c"] = chan[c].in["c"] /\ us = rbuf[c]
    <3>1. chan'[c].in = chan[c].in
      BY <1>1, <2>3, <2>5, ChansType DEF Connection, Sides
    <3>2. Tidy(c) => Shifts(c, Kid, Lost, A) /\ Once(c)
      BY <1>1, <1>3, <1>4, <2>5, <3>1, DropsKid
    <3> QED
      BY <2>4, <3>2
  <2>6. ASSUME rbuf[c] = <<>>, NEW j \in 1..Len(chan[c].in["c"]),
               us = SubSeq(chan[c].in["c"], 1, j),
               h.in["c"] = SubSeq(chan[c].in["c"], j + 1, Len(chan[c].in["c"]))
        PROVE  \E x, y : Tidy(c) => Shifts(c, x, y, A) /\ Once(c)
    <3>1. FromOut(c, j)
      BY <2>3, <2>6 DEF FromOut
    <3>2. /\ A = Numbers(SubSeq(chan[c].in["c"], 1, j))
          /\ hist'[c].lost = hist[c].lost \cup A
          /\ main'[c].got = main[c].got /\ rbuf'[c] = rbuf[c]
      BY <1>1, <1>3, <1>4, <2>6
    <3> HIDE DEF A
    <3>3. Tidy(c) => Once(c) /\ \E y \in {Got, Lost, Kid} : Shifts(c, Out, y, A)
      BY <1>1, <3>1, <3>2, TakesLines
    <3> QED
      BY <3>3
  <2> HIDE DEF A
  <2> QED
    BY <2>4, <2>5, <2>6
<1> HIDE DEF A
<1>10. main'[c].sent = main[c].sent
  BY <1>1
<1>11. CASE Served(c)'
  <2>1. PICK x, y : /\ Served(c) /\ chan'[c].end["c"] = chan[c].end["c"]
                    /\ Tidy(c) => Shifts(c, x, y, A) /\ Once(c)
    BY <1>9, <1>11
  <2> QED
    BY <1>8, <1>10, <2>1, ShiftStep
<1>12. CASE ~ Served(c)'
  BY <1>8, <1>12, Gone
<1> QED
  BY <1>11, <1>12

(* A process of the client has received: its main, or its child.             *)
LEMMA TakesStep ==
    ASSUME IInv, NEW c \in Clients, NEW j \in 1..Len(chan[c].in["c"]),
           chan' = [chan EXCEPT ![c] = Taken(@, "c", j)], OwnStep(c),
           NEW A, A = Numbers(SubSeq(chan[c].in["c"], 1, j)),
           main'[c].sent = main[c].sent, Running(c)' => Running(c),
           \/ /\ main'[c].got = main[c].got \cup A
              /\ hist'[c].lost = hist[c].lost /\ rbuf'[c] = rbuf[c]
           \/ /\ hist'[c].lost = hist[c].lost \cup A
              /\ main'[c].got = main[c].got /\ rbuf'[c] = rbuf[c]
           \/ /\ rbuf[c] = <<>> /\ rbuf'[c] = SubSeq(chan[c].in["c"], 1, j)
              /\ main'[c].got = main[c].got /\ hist'[c].lost = hist[c].lost
    PROVE  IInv'
<1> DEFINE h == Taken(chan[c], "c", j)
<1>1. TypeOK
  BY DEF IInv
<1>2. /\ h \in Connection(Unit) /\ h.end = chan[c].end
      /\ h.in["c"] = SubSeq(chan[c].in["c"], j + 1, Len(chan[c].in["c"]))
      /\ h.in["s"] = chan[c].in["s"]
  BY <1>1, HearEffect
<1>3. chan' = [chan EXCEPT ![c] = h]
  OBVIOUS
<1> HIDE DEF h
<1>4. chan'[c] = h
  BY <1>1, <1>2, <1>3, OneChanged
<1>5. FromOut(c, j)
  BY <1>2, <1>4 DEF FromOut
<1>6. Tidy(c) => Once(c) /\ \E y \in {Got, Lost, Kid} : Shifts(c, Out, y, A)
  BY <1>1, <1>5, TakesLines
<1>7. Served(c)' => Served(c) /\ chan'[c].end["c"] = chan[c].end["c"]
  BY <1>2, <1>4 DEF Served, Running
<1>8. CASE Tidy(c)
  <2>1. PICK y \in {Got, Lost, Kid} : Shifts(c, Out, y, A) /\ Once(c)
    BY <1>6, <1>8
  <2> QED
    BY <1>7, <2>1, ShiftStep
<1>9. CASE ~ Tidy(c)
  BY <1>7, <1>9, ShiftStep
<1> QED
  BY <1>8, <1>9

(* What a client sends comes in at the server.                               *)
LEMMA ClientSends ==
    ASSUME TypeOK, NEW c \in Clients, NEW us \in Seq(Unit),
           chan' = [chan EXCEPT ![c] = Sent(@, "c", us)]
    PROVE  /\ chan' \in Chans
           /\ \A d \in Clients \ {c} : chan'[d] = chan[d]
           /\ chan'[c].end["s"] = "open" <=> chan[c].end["s"] = "open"
           /\ chan'[c].end["c"] = "open" <=> chan[c].end["c"] = "open"
           /\ chan'[c].in["c"] = chan[c].in["c"]
           /\ chan[c].end["s"] = "open" => /\ chan'[c].in["s"] = chan[c].in["s"] \o us
                                           /\ chan'[c].end = chan[c].end
<1> DEFINE v == Sent(chan[c], "c", us)
<1>1. chan[c] \in Connection(Unit)
  BY ChansType
<1>2. "s" \in Sides /\ "c" \in Sides /\ Peer("c") = "s"
  BY DEF Sides, Peer
<1>3. /\ v \in Connection(Unit)
      /\ v.end["s"] = "open" <=> chan[c].end["s"] = "open"
      /\ v.end["c"] = "open" <=> chan[c].end["c"] = "open"
  BY <1>1, <1>2, SentUnit
<1>5. v.in["c"] = chan[c].in["c"]
  BY <1>1, <1>2, SentUnit
<1>6. chan[c].end["s"] = "open" =>
        v.in["s"] = chan[c].in["s"] \o us /\ v.end = chan[c].end
  BY <1>1, <1>2 DEF Sent, Connection
<1>4. chan' = [chan EXCEPT ![c] = v]
  OBVIOUS
<1> HIDE DEF v
<1> QED
  BY <1>3, <1>4, <1>5, <1>6, OneChanged

-----------------------------------------------------------------------------
(* The child takes a handshake of the server, or what is none, and answers;  *)
LEMMA ShakesStep ==
    ASSUME IInv, NEW c \in Clients, ChildShakes(c), UNCHANGED <<proc, fds, queue>>
    PROVE  IInv'
<1> DEFINE us == chan[c].in["c"]
<1>1. /\ TypeOK /\ us \in Seq(Unit) /\ chan[c] \in Connection(Unit)
      /\ queue' \in Seq(Clients) /\ main \in [Clients -> Main]
      /\ rbuf \in [Clients -> Seq(Unit)] /\ hist \in [Clients -> History]
      /\ child[c] \in {"hello", "hi"}
  BY ChansType DEF IInv, TypeOK, ChildShakes
<1>2. main[c].pc \notin {"connect", "fork"} /\ rbuf[c] = <<>>
  BY <1>1 DEF IInv, Buffers
<1>3. ASSUME NEW j \in 1..Len(us), NEW h, h = Taken(chan[c], "c", j),
             NEW a, a = SubSeq(us, 1, j)
      PROVE  /\ h \in Connection(Unit) /\ h.end = chan[c].end
             /\ h.in["c"] = SubSeq(us, j + 1, Len(us))
             /\ h.in["s"] = chan[c].in["s"] /\ a \in Seq(Unit)
  <2>1. SubSeq(us, 1, j) \in Seq(Unit)
    BY <1>1
  <2> QED
    BY <1>1, <1>3, <2>1, HearEffect
<1>4. ASSUME NEW j \in 1..Len(us), CGoto(c, "hi"), UNCHANGED <<main, rbuf>>,
             Loses(c, Numbers(SubSeq(us, 1, j)), 0),
             chan' = [chan EXCEPT ![c] = Taken(chan[c], "c", j)]
      PROVE  IInv'
  <2> DEFINE a == SubSeq(us, 1, j)
             h == Taken(chan[c], "c", j)
  <2>1. h \in Connection(Unit) /\ a \in Seq(Unit)
    BY <1>3
  <2>2. Loses(c, Numbers(a), 0) /\ chan' = [chan EXCEPT ![c] = h]
    BY <1>4
  <2> HIDE DEF a, h
  <2>3. /\ hist' \in [Clients -> History]
        /\ hist'[c].lost = hist[c].lost \cup Numbers(a)
        /\ \A d \in Clients \ {c} : hist'[d] = hist[d]
    BY <1>1, <2>1, <2>2, LostType
  <2>4. chan' \in Chans /\ \A d \in Clients \ {c} : chan'[d] = chan[d]
    BY <1>1, <2>1, <2>2, OneChanged
  <2>5. /\ child' \in [Clients -> ChildPcs] /\ child'[c] = "hi"
        /\ \A d \in Clients \ {c} : child'[d] = child[d]
    BY <1>1, <1>4, ChildGoes DEF ChildPcs
  <2>6. OwnStep(c)
    BY <1>1, <1>2, <1>4, <2>3, <2>4, <2>5 DEF OwnStep, ClientTypes, Others
  <2>7. Running(c)' => Running(c)
    BY <1>4 DEF Running
  <2> QED
    BY <1>4, <2>3, <2>6, <2>7, TakesStep DEF a
<1>5. ASSUME NEW j \in 1..Len(us),
             ChildEnds(c, Taken(chan[c], "c", j), Numbers(SubSeq(us, 1, j)))
      PROVE  IInv'
  <2> DEFINE a == SubSeq(us, 1, j)
             h == Taken(chan[c], "c", j)
  <2>1. /\ h \in Connection(Unit) /\ a \in Seq(Unit) /\ h.end = chan[c].end
        /\ h.in["s"] = chan[c].in["s"]
        /\ h.in["c"] = SubSeq(chan[c].in["c"], j + 1, Len(chan[c].in["c"]))
        /\ a = SubSeq(chan[c].in["c"], 1, j) /\ j \in 1..Len(chan[c].in["c"])
    BY <1>3
  <2>2. ChildEnds(c, h, Numbers(a)) /\ child[c] # "none"
    BY <1>1, <1>5
  <2> HIDE DEF a, h
  <2> QED
    BY <1>2, <2>1, <2>2, ChildEndsStep
<1>6. ASSUME NEW N, N = {}, ChildEnds(c, chan[c], N)
      PROVE  IInv'
  <2>1. Numbers(<<>>) = N /\ <<>> \in Seq(Unit) /\ child[c] # "none"
    BY <1>1, <1>6, NumbersEmpty
  <2>2. ChildEnds(c, chan[c], Numbers(<<>>))
    BY <1>6, <2>1
  <2> QED
    BY <1>1, <1>2, <2>1, <2>2, ChildEndsStep
<1>7. ASSUME chan' = [chan EXCEPT ![c] = Sent(@, "c", <<Hi>>)], CGoto(c, "read"),
             UNCHANGED <<main, rbuf, hist>>
      PROVE  IInv'
  <2> DEFINE hi == <<Hi>>
  <2>1. hi \in Seq(Unit)
    BY DEF Hi, Unit
  <2>2. chan' = [chan EXCEPT ![c] = Sent(@, "c", hi)]
    BY <1>7
  <2> HIDE DEF hi
  <2>3. /\ chan' \in Chans
        /\ \A d \in Clients \ {c} : chan'[d] = chan[d]
        /\ chan'[c].end["s"] = "open" <=> chan[c].end["s"] = "open"
        /\ chan'[c].in["c"] = chan[c].in["c"]
        /\ chan[c].end["s"] = "open" => /\ chan'[c].in["s"] = chan[c].in["s"] \o hi
                                        /\ chan'[c].end = chan[c].end
    BY <1>1, <2>1, <2>2, ClientSends
  <2>4. /\ child' \in [Clients -> ChildPcs] /\ child'[c] = "read"
        /\ \A d \in Clients \ {c} : child'[d] = child[d]
    BY <1>1, <1>7, ChildGoes DEF ChildPcs
  <2>5. OwnStep(c)
    BY <1>1, <1>2, <1>7, <2>3, <2>4 DEF OwnStep, ClientTypes, Others
  <2>6. Served(c)' => /\ Served(c) /\ chan'[c].end["c"] = chan[c].end["c"]
                      /\ chan'[c].in["s"] = chan[c].in["s"] \o <<Hi>>
    BY <1>7, <2>3 DEF Served, Running, hi
  <2> QED
    BY <1>7, <2>3, <2>5, <2>6, Continues
<1> QED
  BY <1>4, <1>5, <1>6, <1>7, <1>2, NumbersEmpty DEF ChildShakes, out

(* then it reads, and writes what it has read.                               *)
LEMMA EchoesStep ==
    ASSUME IInv, NEW c \in Clients, ChildEchoes(c), UNCHANGED <<proc, fds, queue>>
    PROVE  IInv'
<1> DEFINE us == chan[c].in["c"]
<1>1. /\ TypeOK /\ us \in Seq(Unit) /\ chan[c] \in Connection(Unit)
      /\ queue' \in Seq(Clients) /\ main \in [Clients -> Main]
      /\ rbuf \in [Clients -> Seq(Unit)] /\ hist \in [Clients -> History]
      /\ child[c] \in {"read", "write"}
  BY ChansType DEF IInv, TypeOK, ChildEchoes
<1>2. main[c].pc \notin {"connect", "fork"} /\ (child[c] = "read" => rbuf[c] = <<>>)
  BY <1>1 DEF IInv, Buffers
<1>3. ASSUME child[c] = "read", NEW j \in 1..Len(us),
             chan' = [chan EXCEPT ![c] = Taken(@, "c", j)],
             rbuf' = [rbuf EXCEPT ![c] = SubSeq(us, 1, j)],
             CGoto(c, "write"), UNCHANGED <<main, hist>>
      PROVE  IInv'
  <2> DEFINE h == Taken(chan[c], "c", j)
             a == SubSeq(us, 1, j)
  <2>1. h \in Connection(Unit)
    BY <1>1, HearEffect
  <2>2. a \in Seq(Unit)
    BY <1>1
  <2>3. chan' = [chan EXCEPT ![c] = h] /\ rbuf' = [rbuf EXCEPT ![c] = a]
    BY <1>3
  <2> HIDE DEF a, h
  <2>4. chan' \in Chans /\ \A d \in Clients \ {c} : chan'[d] = chan[d]
    BY <1>1, <2>1, <2>3, OneChanged
  <2>5. /\ rbuf' \in [Clients -> Seq(Unit)] /\ rbuf'[c] = a
        /\ \A d \in Clients \ {c} : rbuf'[d] = rbuf[d]
    BY <1>1, <2>2, <2>3, KidGets
  <2>6. /\ child' \in [Clients -> ChildPcs] /\ child'[c] = "write"
        /\ \A d \in Clients \ {c} : child'[d] = child[d]
    BY <1>1, <1>3, ChildGoes DEF ChildPcs
  <2>7. OwnStep(c)
    BY <1>1, <1>2, <1>3, <2>4, <2>5, <2>6 DEF OwnStep, ClientTypes, Others
  <2>8. Running(c)' => Running(c)
    BY <1>3 DEF Running
  <2>9. rbuf[c] = <<>> /\ rbuf'[c] = SubSeq(us, 1, j)
    BY <1>2, <1>3, <2>5 DEF a
  <2> QED
    BY <1>3, <2>7, <2>8, <2>9, TakesStep
<1>4. ASSUME child[c] = "write",
             chan' = [chan EXCEPT ![c] = Sent(@, "c", rbuf[c])],
             CGoto(c, "read"), rbuf' = [rbuf EXCEPT ![c] = <<>>],
             UNCHANGED <<main, hist>>
      PROVE  IInv'
  <2> DEFINE vs == rbuf[c]
  <2>1. vs \in Seq(Unit) /\ <<>> \in Seq(Unit)
    BY <1>1
  <2>2. chan' = [chan EXCEPT ![c] = Sent(@, "c", vs)]
    BY <1>4
  <2> HIDE DEF vs
  <2>3. /\ chan' \in Chans
        /\ \A d \in Clients \ {c} : chan'[d] = chan[d]
        /\ chan'[c].end["s"] = "open" <=> chan[c].end["s"] = "open"
        /\ chan'[c].in["c"] = chan[c].in["c"]
        /\ chan[c].end["s"] = "open" => /\ chan'[c].in["s"] = chan[c].in["s"] \o vs
                                        /\ chan'[c].end = chan[c].end
    BY <1>1, <2>1, <2>2, ClientSends
  <2>4. /\ child' \in [Clients -> ChildPcs] /\ child'[c] = "read"
        /\ \A d \in Clients \ {c} : child'[d] = child[d]
    BY <1>1, <1>4, ChildGoes DEF ChildPcs
  <2>5. /\ rbuf' \in [Clients -> Seq(Unit)] /\ rbuf'[c] = <<>>
        /\ \A d \in Clients \ {c} : rbuf'[d] = rbuf[d]
    BY <1>1, <1>4, <2>1, KidGets
  <2>6. OwnStep(c)
    BY <1>1, <1>2, <1>4, <2>3, <2>4, <2>5 DEF OwnStep, ClientTypes, Others
  <2> DEFINE A == Numbers(rbuf[c])
  <2>7. ASSUME Served(c)'
        PROVE  /\ Served(c) /\ chan'[c].end["c"] = chan[c].end["c"]
               /\ (Parted(c) /\ Tidy(c)) => Shifts(c, Kid, In, A) /\ Once(c)
    <3>1. /\ Served(c) /\ chan'[c].end["c"] = chan[c].end["c"]
          /\ chan'[c].in["s"] = chan[c].in["s"] \o rbuf[c]
      BY <1>4, <2>3, <2>7 DEF Served, Running, vs
    <3> QED
      BY <1>1, <1>4, <2>3, <2>5, <3>1, PutsBack
  <2> HIDE DEF A
  <2>8. main'[c].sent = main[c].sent
    BY <1>4
  <2> QED
    BY <2>6, <2>7, <2>8, ShiftStep
<1>5. ASSUME child[c] = "write", ChildEnds(c, chan[c], Numbers(rbuf[c]))
      PROVE  IInv'
  <2>1. rbuf[c] \in Seq(Unit) /\ child[c] # "none"
    BY <1>1, <1>5
  <2> QED
    BY <1>1, <1>5, <2>1, ChildEndsStep
<1> QED
  BY <1>3, <1>4, <1>5 DEF ChildEchoes, out

-----------------------------------------------------------------------------
(* A line is sent: its number is new.                                        *)
Typing(c, u, m) ==
    /\ chan' = [chan EXCEPT ![c] = Sent(@, "c", <<u>>)]
    /\ main' = [main EXCEPT ![c] = m]
    /\ UNCHANGED <<proc, fds, queue, hist, child, rbuf>>

LEMMA LineSent ==
    ASSUME IInv, NEW c \in Clients, NEW u \in Unit, NEW m \in Main, Typing(c, u, m),
           u.n = main[c].sent + 1, m.sent = main[c].sent + 1, m.got = main[c].got,
           main[c].pc \notin {"exit", "dead"}, m.pc \notin {"connect", "fork"}
    PROVE  IInv'
<1> DEFINE us == <<u>>
           in == chan[c].in["s"]
<1>1. us \in Seq(Unit) /\ Numbers(us) = {u.n} \ {0} /\ Distinct(us)
  BY NumbersOne
<1>2. chan' = [chan EXCEPT ![c] = Sent(@, "c", us)]
  BY DEF Typing
<1>3. TypeOK /\ in \in Seq(Unit)
  BY ChansType DEF IInv
<1> HIDE DEF us
<1>4. /\ chan' \in Chans
      /\ \A d \in Clients \ {c} : chan'[d] = chan[d]
      /\ chan'[c].end["s"] = "open" <=> chan[c].end["s"] = "open"
      /\ chan'[c].end["c"] = "open" <=> chan[c].end["c"] = "open"
      /\ chan'[c].in["c"] = chan[c].in["c"]
      /\ chan[c].end["s"] = "open" => chan'[c].in["s"] = in \o us
  BY <1>1, <1>2, <1>3, ClientSends
<1>5. /\ main' \in [Clients -> Main] /\ main'[c] = m
      /\ \A d \in Clients \ {c} : main'[d] = main[d]
  BY <1>3 DEF Typing, TypeOK
<1>6. UNCHANGED <<proc, fds, queue, hist, child, rbuf>>
  BY DEF Typing
<1>7. OwnStep(c)
  BY <1>3, <1>4, <1>5, <1>6
     DEF OwnStep, ClientTypes, Others, TypeOK, ChildPcs, IInv, Buffers
<1>8. main[c].sent \in Nat /\ u.n # 0
  <2>1. main[c].sent \in Nat
    BY <1>3 DEF TypeOK, Main
  <2> QED
    BY <2>1
<1>9. OneClient(c)'
  <2> SUFFICES ASSUME Served(c)'
               PROVE  /\ Served(c) /\ chan'[c].end["c"] = "open"
                      /\ Parted(c)' /\ Tidy(c)'
    BY OwnClient
  <2>1. Served(c) /\ chan[c].end["s"] = "open"
    BY <1>4 DEF Served, Running
  <2>2. chan[c].end["c"] = "open" /\ Parted(c) /\ Tidy(c)
    BY <2>1 DEF IInv, OneClient
  <2>3. chan'[c].end["c"] = "open" /\ chan'[c].in["s"] = in \o us
    BY <1>4, <2>1, <2>2
  <2>4. Numbers(in) \cap Numbers(us) = {}
    <3>1. Numbers(in) = Numbered(c, In) /\ In \in Places
      BY NumberedAre, PlacesAre
    <3>2. Numbers(in) \subseteq 1..main[c].sent
      BY <2>2, <3>1 DEF Parted
    <3>3. u.n \notin 1..main[c].sent
      BY <1>8
    <3> QED
      BY <1>1, <3>2, <3>3
  <2>5. Numbers(in \o us) = Numbers(in) \cup {main[c].sent + 1} /\ Distinct(in \o us)
    <3>1. Distinct(in)
      BY <2>2 DEF Tidy
    <3> HIDE DEF in
    <3>2. Numbers(in \o us) = Numbers(in) \cup Numbers(us)
      BY <1>1, <1>3, NumbersConcat
    <3>3. Distinct(in \o us)
      BY <1>1, <1>3, <2>4, <3>1, NumbersConcat
    <3> QED
      BY <1>1, <1>8, <3>2, <3>3
  <2>6. Parted(c)'
    <3> DEFINE s == main[c].sent
    <3>1. s \in Nat /\ main'[c].sent = s + 1
      BY <1>5, <1>8
    <3>2. Numbered(c, In)' = Numbered(c, In) \cup {s + 1}
      BY <2>3, <2>5, NumberedAre, NumberedNext
    <3>3. /\ Numbered(c, Got)' = Numbered(c, Got)
          /\ Numbered(c, Lost)' = Numbered(c, Lost)
          /\ Numbered(c, Kid)' = Numbered(c, Kid)
      BY <1>5, <1>6, NumberedAre, NumberedNext
    <3>4. Numbered(c, Out)' = Numbered(c, Out)
      BY <1>4, NumberedAre, NumberedNext DEF out
    <3>5. \A p \in Procs : Numbered(c, Buf(p))' = Numbered(c, Buf(p))
      BY <1>6, SameBuf
    <3>6. \A z \in Places : z # In => Numbered(c, z)' = Numbered(c, z)
      BY <3>3, <3>4, <3>5, PlacesAre
    <3> HIDE DEF s
    <3> QED
      BY <2>2, <3>1, <3>2, <3>6, PartAdded DEF s
  <2>7. Tidy(c)'
    BY <1>4, <1>6, <2>2, <2>3, <2>5, TidyNext DEF Tidy, out
  <2> QED
    BY <2>1, <2>3, <2>6, <2>7
<1> QED
  BY <1>7, <1>9, ClientStep

(* Answers are received.                                                     *)
LEMMA AnswerStep ==
    ASSUME IInv, NEW c \in Clients, main[c].pc \in {"hi", "recv"}, Receives(c),
           UNCHANGED <<proc, fds, queue>>
    PROVE  IInv'
<1> DEFINE us == chan[c].in["c"]
<1>1. PICK j \in 1..Len(us) :
        /\ chan' = [chan EXCEPT ![c] = Taken(@, "c", j)]
        /\ main' = [main EXCEPT ![c].pc = "prompt",
                                ![c].got = @ \cup Numbers(SubSeq(us, 1, j))]
        /\ UNCHANGED <<child, rbuf, hist>>
  BY DEF Receives, out
<1>2. /\ TypeOK /\ us \in Seq(Unit)
  BY ChansType DEF IInv
<1> DEFINE a == SubSeq(us, 1, j)
           v == Taken(chan[c], "c", j)
           m == [main[c] EXCEPT !.pc = "prompt", !.got = @ \cup Numbers(a)]
<1>3. v \in Connection(Unit)
  BY <1>2, HearEffect
<1>4. Numbers(a) \in SUBSET Nat
  <2>1. a \in Seq(Unit)
    BY <1>2
  <2> QED
    BY <2>1, NumbersNat
<1>5. chan' = [chan EXCEPT ![c] = v] /\ main' = [main EXCEPT ![c] = m]
  BY <1>1
<1> HIDE DEF a, v
<1>6. /\ m \in Main /\ m.pc = "prompt" /\ m.sent = main[c].sent
      /\ m.got = main[c].got \cup Numbers(a)
  <2>1. main[c] \in Main
    BY <1>2 DEF TypeOK
  <2> QED
    BY <1>4, <2>1 DEF Main
<1> HIDE DEF m
<1>7. chan' \in Chans /\ \A d \in Clients \ {c} : chan'[d] = chan[d]
  BY <1>2, <1>3, <1>5, OneChanged
<1>8. /\ main' \in [Clients -> Main] /\ main'[c] = m
      /\ \A d \in Clients \ {c} : main'[d] = main[d]
  BY <1>2, <1>5, <1>6 DEF TypeOK
<1>9. OwnStep(c)
  BY <1>1, <1>2, <1>6, <1>7, <1>8
     DEF OwnStep, ClientTypes, Others, TypeOK, ChildPcs, IInv, Buffers
<1>10. /\ main'[c].got = main[c].got \cup Numbers(SubSeq(us, 1, j))
       /\ main'[c].sent = main[c].sent /\ (Running(c)' => Running(c))
  BY <1>6, <1>8 DEF a, Running
<1> QED
  BY <1>1, <1>9, <1>10, TakesStep

(* A write of a client is one of these, or it ends.                          *)
LEMMA SendsStep ==
    ASSUME IInv, NEW c \in Clients, NEW t \in {"text", "hello", "quit"},
           NEW next \in Main, Sends(c, t, next),
           next.sent = main[c].sent, next.got = main[c].got,
           UNCHANGED <<proc, fds, queue>>,
           main[c].pc \notin {"exit", "dead"}, next.pc \notin {"connect", "fork"}
    PROVE  IInv'
<1> DEFINE u == [t |-> t, n |-> main[c].sent + 1]
           m == [next EXCEPT !.sent = @ + 1]
<1>1. CASE Stop(c, "dead")
  BY <1>1, Stops
<1>2. CASE /\ chan' = [chan EXCEPT ![c] = Sent(@, "c", <<u>>)]
           /\ main' = [main EXCEPT ![c] = m] /\ UNCHANGED <<child, rbuf, hist>>
  <2>1. main[c].sent \in Nat
    BY DEF IInv, TypeOK, Main
  <2>2. u \in Unit /\ u.n = main[c].sent + 1
    BY <2>1 DEF Unit
  <2>3. next.sent + 1 \in Nat
    BY <2>1
  <2>4. /\ m \in Main /\ m.sent = main[c].sent + 1 /\ m.got = main[c].got
        /\ m.pc = next.pc
    BY <2>3 DEF Main
  <2>5. Typing(c, u, m)
    BY <1>2 DEF Typing
  <2> HIDE DEF u, m
  <2> QED
    BY <2>2, <2>4, <2>5, LineSent
<1> QED
  BY <1>1, <1>2 DEF Sends

(* The state the main process goes on in.                                    *)
LEMMA Goes ==
    ASSUME TypeOK, NEW c \in Clients, main[c].left > 0
    PROVE  /\ [main[c] EXCEPT !.left = @ - 1, !.quits = @ + 1] \in Main
           /\ [main[c] EXCEPT !.left = @ - 1, !.pc = "kill"] \in Main
           /\ [main[c] EXCEPT !.pc = "recv", !.left = @ - 1] \in Main
           /\ [main[c] EXCEPT !.pc = "hi"] \in Main
<1>1. main[c] \in Main /\ main[c].left - 1 \in Nat /\ main[c].quits + 1 \in Nat
  BY DEF TypeOK, Main
<1> QED
  BY <1>1 DEF Main

LEMMA KeyboardStep ==
    ASSUME IInv, NEW c \in Clients, Keyboard(c), UNCHANGED <<proc, fds, queue>>
    PROVE  IInv'
<1>1. CASE KillsChild(c)
  BY <1>1, KillsStep
<1>2. ASSUME NEW t \in Typed, MAt(c, "key"), main[c].left > 0,
             Sends(c, t, IF t = "quit"
                         THEN [main[c] EXCEPT !.left = @ - 1, !.quits = @ + 1]
                         ELSE [main[c] EXCEPT !.left = @ - 1, !.pc = "kill"])
      PROVE  IInv'
  <2>1. /\ t \in {"text", "hello", "quit"} /\ main[c].pc = "key"
        /\ TypeOK /\ main[c] \in Main
    BY <1>2, TalkAssumption DEF MAt, IInv, TypeOK
  <2>2. CASE t = "quit"
    <3> DEFINE next == [main[c] EXCEPT !.left = @ - 1, !.quits = @ + 1]
    <3>1. /\ next \in Main /\ next.pc = "key" /\ next.sent = main[c].sent
          /\ next.got = main[c].got
      BY <1>2, <2>1, Goes DEF Main
    <3>2. Sends(c, t, next)
      BY <1>2, <2>2
    <3> HIDE DEF next
    <3> QED
      BY <2>1, <3>1, <3>2, SendsStep
  <2>3. CASE t # "quit"
    <3> DEFINE next == [main[c] EXCEPT !.left = @ - 1, !.pc = "kill"]
    <3>1. /\ next \in Main /\ next.pc = "kill" /\ next.sent = main[c].sent
          /\ next.got = main[c].got
      BY <1>2, <2>1, Goes DEF Main
    <3>2. Sends(c, t, next)
      BY <1>2, <2>3
    <3> HIDE DEF next
    <3> QED
      BY <2>1, <3>1, <3>2, SendsStep
  <2> QED
    BY <2>2, <2>3
<1>3. CASE MAt(c, "key") /\ MGoto(c, "hello") /\ UNCHANGED <<chan, child, rbuf, hist>>
  <2>1. main[c].pc = "key" /\ "hello" \in MainPcs /\ queue' \in Seq(Clients)
    BY <1>3 DEF MAt, MainPcs, IInv, TypeOK
  <2> QED
    BY <1>3, <2>1, MainOnly
<1> QED
  BY <1>1, <1>2, <1>3 DEF Keyboard

LEMMA HelloStep ==
    ASSUME IInv, NEW c \in Clients, SaysHello(c), UNCHANGED <<proc, fds, queue>>
    PROVE  IInv'
<1>1. CASE MAt(c, "hello") /\ Sends(c, "hello", [main[c] EXCEPT !.pc = "hi"])
  <2> DEFINE next == [main[c] EXCEPT !.pc = "hi"]
  <2>1. main[c] \in Main /\ main[c].pc = "hello"
    BY <1>1 DEF MAt, IInv, TypeOK
  <2>2. /\ next \in Main /\ next.pc = "hi" /\ next.sent = main[c].sent
        /\ next.got = main[c].got
    BY <2>1 DEF Main
  <2>3. Sends(c, "hello", next)
    BY <1>1
  <2> HIDE DEF next
  <2> QED
    BY <2>1, <2>2, <2>3, SendsStep
<1>2. CASE MAt(c, "hi") /\ Receives(c)
  BY <1>2, AnswerStep DEF MAt
<1>3. CASE /\ MAt(c, "hi") /\ MGoto(c, "prompt")
           /\ UNCHANGED <<chan, child, rbuf, hist>>
  <2>1. main[c].pc = "hi" /\ "prompt" \in MainPcs /\ queue' \in Seq(Clients)
    BY <1>3 DEF MAt, MainPcs, IInv, TypeOK
  <2> QED
    BY <1>3, <2>1, MainOnly
<1>4. CASE Stop(c, "dead")
  BY <1>4, Stops
<1> QED
  BY <1>1, <1>2, <1>3, <1>4 DEF SaysHello

LEMMA TalksStep ==
    ASSUME IInv, NEW c \in Clients, Talks(c), UNCHANGED <<proc, fds, queue>>
    PROVE  IInv'
<1>1. ASSUME NEW t \in Typed, MAt(c, "prompt"), main[c].left > 0,
             Sends(c, t, [main[c] EXCEPT !.pc = "recv", !.left = @ - 1])
      PROVE  IInv'
  <2> DEFINE next == [main[c] EXCEPT !.pc = "recv", !.left = @ - 1]
  <2>1. /\ t \in {"text", "hello", "quit"} /\ main[c].pc = "prompt"
        /\ TypeOK /\ main[c] \in Main
    BY <1>1, TalkAssumption DEF MAt, IInv, TypeOK
  <2>2. /\ next \in Main /\ next.pc = "recv" /\ next.sent = main[c].sent
        /\ next.got = main[c].got
    BY <1>1, <2>1, Goes DEF Main
  <2>3. Sends(c, t, next)
    BY <1>1
  <2> HIDE DEF next
  <2> QED
    BY <2>1, <2>2, <2>3, SendsStep
<1>2. CASE Stop(c, "exit") \/ Stop(c, "dead")
  BY <1>2, Stops
<1>3. CASE MAt(c, "recv") /\ Receives(c)
  BY <1>3, AnswerStep DEF MAt
<1> QED
  BY <1>1, <1>2, <1>3 DEF Talks

LEMMA UseStep ==
    ASSUME IInv, NEW c \in Clients, Use(c)
    PROVE  IInv'
<1>1. UNCHANGED <<proc, fds>>
  BY DEF Use
<1> QED
  BY <1>1, ConnectStep, ForkChildStep, KeyboardStep, HelloStep, TalksStep,
     ShakesStep, EchoesStep
     DEF Use

-----------------------------------------------------------------------------
(* Nothing is sent, nobody is at work at first.                              *)
LEMMA InitInv == Init => IInv
<1> SUFFICES ASSUME Init PROVE IInv
  OBVIOUS
<1>1. /\ proc \in [Procs -> Process]
      /\ \A p \in Procs : proc[p].pc \in {"none", "accept"} /\ proc[p].rbuf = <<>>
  <2>1. ASSUME NEW p \in Procs
        PROVE  /\ proc[p] \in Process /\ proc[p].pc \in {"none", "accept"}
               /\ proc[p].rbuf = <<>>
    BY DEF Init, Process
  <2>2. proc = [p \in Procs |-> proc[p]]
    BY DEF Init
  <2> QED
    BY <2>1, <2>2
<1>2. /\ fds \in [Procs -> SUBSET Clients] /\ queue \in Seq(Clients)
      /\ child \in [Clients -> ChildPcs] /\ rbuf \in [Clients -> Seq(Unit)]
      /\ hist \in [Clients -> History]
      /\ \A c \in Clients : /\ hist[c].lost = {} /\ rbuf[c] = <<>>
                            /\ child[c] = "none"
  BY DEF Init, History, ChildPcs
<1>3. /\ main \in [Clients -> Main]
      /\ \A c \in Clients : /\ main[c].sent = 0 /\ main[c].got = {}
                            /\ main[c].pc = "connect"
  <2>1. ASSUME NEW c \in Clients
        PROVE  /\ main[c] \in Main /\ main[c].sent = 0 /\ main[c].got = {}
               /\ main[c].pc = "connect"
    BY TalkAssumption DEF Init, Main
  <2>2. main = [c \in Clients |-> main[c]]
    BY DEF Init
  <2> QED
    BY <2>1, <2>2
<1>4. /\ chan \in [Clients -> [in : [Sides -> Seq(Unit)], end : [Sides -> Ends]]]
      /\ \A c \in Clients : /\ chan[c].in["s"] = <<>> /\ chan[c].in["c"] = <<>>
                            /\ chan[c].end["c"] = "open"
  BY DEF Init, Sides, Ends
<1>5. TypeOK
  BY <1>1, <1>2, <1>3, <1>4 DEF TypeOK, ChildPcs
<1>6. Buffers
  BY <1>1, <1>2 DEF Buffers
<1>7. ASSUME NEW c \in Clients PROVE OneClient(c)
  <2>1. \A x \in Places : Numbered(c, x) = {}
    <3>1. Numbered(c, Got) = {} /\ Numbered(c, Lost) = {}
      BY <1>2, <1>3, NumberedAre
    <3>2. Numbered(c, Out) = {} /\ Numbered(c, In) = {}
      BY <1>4, NumberedAre, NumbersEmpty DEF out
    <3>4. Numbered(c, Kid) = {}
      BY <1>2, NumberedAre, NumbersEmpty
    <3>3. \A p \in Procs : Numbered(c, Buf(p)) = {}
      BY <1>1, NumberedAre, NumbersEmpty
    <3> QED
      BY <3>1, <3>2, <3>3, <3>4, PlacesAre
  <2>2. Parted(c)
    <3>1. 1..main[c].sent = {}
      BY <1>3
    <3> QED
      BY <2>1, <3>1 DEF Parted
  <2>3. Tidy(c)
    BY <1>1, <1>2, <1>4, NumbersEmpty DEF Tidy, out
  <2> QED
    BY <1>4, <2>2, <2>3 DEF OneClient
<1> QED
  BY <1>5, <1>6, <1>7 DEF IInv

(* A step that changes nothing keeps everything.                             *)
LEMMA StutterStep ==
    ASSUME IInv, UNCHANGED vars
    PROVE  IInv'
<1>1. UNCHANGED <<proc, fds, queue, chan, main, child, rbuf, hist>>
  BY DEF vars
<1>2. Bound'
  BY <1>1 DEF IInv, TypeOK, Bound
<1> QED
  BY <1>1, <1>2, IdleStep DEF IInv, TypeOK

LEMMA StepInv == IInv /\ [Next]_vars => IInv'
BY ServeStep, UseStep, CrashStep, StutterStep DEF Next

LEMMA Invariance == Spec => []IInv
BY InitInv, StepInv, PTL DEF Spec

(* Every variable keeps its type, and a process that is past its accept has  *)
(* a descriptor of the connection it works on.                               *)
THEOREM TypeCorrect == Spec => []TypeOK
<1>1. IInv => TypeOK
  BY DEF IInv
<1> QED
  BY <1>1, Invariance, PTL

(* Two processes read one connection, and still no line of a client that is  *)
(* served is in two places, and none in no place: do_socket of               *)
(* TCPEchoServer.c moves lines from the connection to a buffer and back, and *)
(* what a quit, a handshake or a death takes is what was read with it.       *)
THEOREM LinesInOnePlace == Spec => []EachLineOnce
<1>1. IInv => EachLineOnce
  BY DEF IInv, OneClient, Parted, EachLineOnce
<1> QED
  BY <1>1, Invariance, PTL

-----------------------------------------------------------------------------
(* For the rest, the server's processes that have shaken hands with client c *)
(* are engaged; and what a step of the server does to processes, queue and   *)
(* connections is stated once.  Process p goes on from one point to another. *)
Engaged(c) == {p \in Procs : /\ proc[p].con = c
                             /\ proc[p].pc \in {"hi", "read", "write", "kill"}}

Steps(p, from, to) ==
    /\ proc[p].pc = from /\ proc'[p].pc = to
    /\ proc'[p].con = proc[p].con /\ proc'[p].parent = proc[p].parent
    /\ \A r \in Procs \ {p} : proc'[r] = proc[r]
    /\ UNCHANGED <<queue, fds>>

(* The server receives j units of client c, or sends it us.                  *)
Takes(c, j) ==
    /\ j \in 1..Len(chan[c].in["s"])
    /\ chan'[c].in["s"] = SubSeq(chan[c].in["s"], j + 1, Len(chan[c].in["s"]))
    /\ chan'[c].in["c"] = chan[c].in["c"] /\ chan'[c].end = chan[c].end
    /\ \A d \in Clients \ {c} : chan'[d] = chan[d]

Puts(c, us) ==
    /\ chan'[c].in["s"] = chan[c].in["s"]
    /\ chan'[c].end["s"] = "open" <=> chan[c].end["s"] = "open"
    /\ chan'[c].end["c"] = "open" <=> chan[c].end["c"] = "open"
    /\ chan[c].end["c"] = "open" => chan'[c].in["c"] = chan[c].in["c"] \o us
    /\ \A d \in Clients \ {c} : chan'[d] = chan[d]

(* With client c, k more handshakes.                                         *)
Hands(c, k) == \A d \in Clients :
    hist'[d].hands = IF d = c THEN hist[d].hands + k ELSE hist[d].hands

(* Process q has ended, the connections being in the state h.                *)
Ended(q, h) ==
    /\ proc'[q].pc = "dead" /\ proc'[q].con = proc[q].con
    /\ proc'[q].parent = proc[q].parent /\ proc'[q].rbuf = <<>>
    /\ fds' = [fds EXCEPT ![q] = {}] /\ queue' \in {queue, <<>>}
    /\ \A d \in Clients : /\ chan'[d].end["c"] = h[d].end["c"]
                          /\ chan'[d].in["c"] = h[d].in["c"]
                          /\ chan'[d].end["s"] = "open" => chan'[d] = h[d]
                          /\ chan'[d] = h[d] \/ chan'[d].in["s"] = <<>>
    /\ \A r \in Procs \ {q} : Alive(r) =>
         /\ queue' = queue
         /\ \A d \in Clients : d \notin fds[q] \/ d \in fds[r] => chan'[d] = h[d]

(* The steps of process p, with its client c.                                *)
Forked(p, q) == At(p, "fork") /\ At(q, "none") /\ ForkTwo(p, q)
Forgot(p) == Steps(p, "fork", "accept") /\ proc'[p].rbuf = proc[p].rbuf /\ UNCHANGED <<chan, hist>>
Shook(p, c, j) ==
    /\ Steps(p, "hello", "hi") /\ Takes(c, j) /\ Hands(c, 1)
    /\ Head(chan[c].in["s"]).t = "hello" /\ proc'[p].rbuf = <<>>
TurnedAway(p, c, j, h) ==
    /\ At(p, "hello") /\ Head(chan[c].in["s"]).t # "hello"
    /\ j \in 1..Len(chan[c].in["s"])
    /\ h[c].in["s"] = SubSeq(chan[c].in["s"], j + 1, Len(chan[c].in["s"]))
    /\ h[c].in["c"] = chan[c].in["c"] /\ h[c].end = chan[c].end
    /\ \A d \in Clients \ {c} : h[d] = chan[d]
    /\ Ended(p, h) /\ Hands(c, 0)
    /\ \A r \in Procs \ {p} : proc'[r] = proc[r]
SaidHi(p, c) ==
    Steps(p, "hi", "read") /\ Puts(c, <<Hi>>) /\ Hands(c, 0) /\ proc'[p].rbuf = <<>>
ReadQuit(p, c, j) ==
    Steps(p, "read", "kill") /\ Takes(c, j) /\ Hands(c, 0) /\ proc'[p].rbuf = <<>>
ReadLine(p, c, j) ==
    /\ Steps(p, "read", "write") /\ Takes(c, j) /\ Hands(c, 0)
    /\ proc'[p].rbuf = SubSeq(chan[c].in["s"], 1, j)
    /\ Head(chan[c].in["s"]).t # "quit"
WroteBack(p, c) ==
    /\ Steps(p, "write", "read") /\ Puts(c, proc[p].rbuf) /\ Hands(c, 0)
    /\ proc'[p].rbuf = <<>>
Deserted(p, c) ==
    /\ proc[p].pc \in {"hello", "hi", "write"} /\ chan[c].end["c"] # "open"
    /\ Ended(p, chan) /\ Hands(c, 0)
    /\ \A r \in Procs \ {p} : proc'[r] = proc[r]
KillsNobody(p) ==
    Steps(p, "kill", "accept") /\ UNCHANGED <<chan, hist>> /\ proc'[p].rbuf = <<>>
KillsParent(p, q) ==
    /\ At(p, "kill") /\ q = proc[p].parent /\ Ended(q, chan)
    /\ p # q => /\ proc'[p].pc = "accept" /\ proc'[p].rbuf = <<>>
                /\ proc'[p].con = proc[p].con /\ proc'[p].parent = proc[p].parent
    /\ \A r \in Procs \ {p, q} : proc'[r] = proc[r]
    /\ \A d \in Clients : hist'[d].hands = hist[d].hands

(* What a process that ends does.                                            *)
LEMMA EndDoes ==
    ASSUME IInv, NEW q \in Procs, NEW h \in Chans, NEW procs \in [Procs -> Process],
           procs[q].con = proc[q].con, procs[q].parent = proc[q].parent,
           End(q, h, procs)
    PROVE  Ended(q, h) /\ \A r \in Procs \ {q} : proc'[r] = procs[r]
<1> DEFINE last == \A r \in Procs \ {q} : ~ Alive(r)
           only == {c \in fds[q] : \A r \in Procs \ {q} : c \notin fds[r]}
           refused(c) == last /\ \E i \in 1..Len(queue) : queue[i] = c
<1>1. PICK how \in Hows : chan' = [c \in Clients |->
        IF c \in only THEN Closed(h[c], "s", how)
        ELSE IF refused(c) THEN Refused(h[c]) ELSE h[c]]
  BY DEF End
<1>2. queue' = IF last THEN <<>> ELSE queue
  BY DEF End
<1> HIDE DEF last, only, refused
<1>3. ASSUME NEW d \in Clients
      PROVE  /\ chan'[d].end["c"] = h[d].end["c"]
             /\ chan'[d].in["c"] = h[d].in["c"]
             /\ chan'[d].end["s"] = "open" => chan'[d] = h[d]
             /\ chan'[d] = h[d] \/ chan'[d].in["s"] = <<>>
             /\ d \notin only /\ ~ refused(d) => chan'[d] = h[d]
  <2>1. h[d] \in Connection(Unit) /\ "s" \in Sides /\ "c" \in Sides \ {"s"}
    BY DEF Chans, Sides
  <2>2. CASE d \in only
    <3>1. chan'[d] = Closed(h[d], "s", how)
      BY <1>1, <2>2
    <3>2. /\ Closed(h[d], "s", how).end["s"] # "open"
          /\ Closed(h[d], "s", how).end["c"] = h[d].end["c"]
          /\ Closed(h[d], "s", how).in["c"] = h[d].in["c"]
      BY <2>1, ClosedConn
    <3>3. Closed(h[d], "s", how).in["s"] = <<>>
      BY <2>1 DEF Closed, Connection, Sides
    <3> QED
      BY <2>2, <3>1, <3>2, <3>3
  <2>3. CASE d \notin only /\ refused(d)
    <3>1. chan'[d] = Refused(h[d])
      BY <1>1, <2>3
    <3>2. /\ Refused(h[d]).end["s"] # "open"
          /\ Refused(h[d]).end["c"] = h[d].end["c"]
          /\ Refused(h[d]).in["c"] = h[d].in["c"]
      BY <2>1, RefusedConn
    <3>3. Refused(h[d]).in["s"] = <<>>
      BY <2>1 DEF Refused, Connection, Sides
    <3> QED
      BY <2>3, <3>1, <3>2, <3>3
  <2>4. CASE d \notin only /\ ~ refused(d)
    BY <1>1, <2>4
  <2> QED
    BY <2>2, <2>3, <2>4
<1>4. ASSUME NEW r \in Procs \ {q}, Alive(r)
      PROVE  /\ queue' = queue
             /\ \A d \in Clients : d \notin fds[q] \/ d \in fds[r] => chan'[d] = h[d]
  <2>1. ~ last
    BY <1>4 DEF last
  <2>2. \A d \in Clients : d \notin fds[q] \/ d \in fds[r] => d \notin only
    BY DEF only
  <2> QED
    BY <1>2, <1>3, <2>1, <2>2 DEF refused
<1>5. /\ proc' = [procs EXCEPT ![q].pc = "dead", ![q].rbuf = <<>>]
      /\ fds' = [fds EXCEPT ![q] = {}]
  BY DEF End
<1>6. procs[q] \in Process
  OBVIOUS
<1>7. /\ proc'[q].pc = "dead" /\ proc'[q].con = proc[q].con
      /\ proc'[q].parent = proc[q].parent /\ proc'[q].rbuf = <<>>
      /\ \A r \in Procs \ {q} : proc'[r] = procs[r]
  BY <1>5, <1>6 DEF Process
<1> QED
  BY <1>2, <1>3, <1>4, <1>5, <1>7 DEF Ended

(* Handshakes are counted.                                                   *)
LEMMA LosesHands ==
    ASSUME IInv, NEW c \in Clients, NEW ns, NEW k \in Nat, Loses(c, ns, k)
    PROVE  Hands(c, k)
<1>1. hist \in [Clients -> [lost : SUBSET Nat, hands : Nat]]
  BY DEF IInv, TypeOK, History
<1>2. hist' = [hist EXCEPT ![c].lost = @ \cup ns, ![c].hands = @ + k]
  BY DEF Loses
<1> QED
  BY <1>1, <1>2 DEF Hands

(* Hands, when nothing was counted.                                          *)
LEMMA NoHands ==
    ASSUME IInv, NEW c, UNCHANGED hist
    PROVE  Hands(c, 0)
<1>1. \A d \in Clients : hist[d].hands \in Nat
  BY DEF IInv, TypeOK, History
<1> QED
  BY <1>1 DEF Hands

(* A call of a process that fails ends it, and its client has gone.          *)
LEMMA DieDoes ==
    ASSUME IInv, NEW p \in Procs, NEW c \in Clients, c = proc[p].con, Die(p),
           proc[p].pc \in {"hello", "hi", "write"},
           AtEnd(chan[c], "s") \/ Failed(chan[c], "s") \/ Broken(chan[c], "s")
    PROVE  Deserted(p, c)
<1>1. chan \in Chans /\ proc \in [Procs -> Process]
  BY ChansType DEF IInv, TypeOK
<1>2. chan[c].end["c"] # "open"
  BY DEF AtEnd, Failed, Broken, Peer
<1>3. Ended(p, chan) /\ \A r \in Procs \ {p} : proc'[r] = proc[r]
  BY <1>1, EndDoes DEF Die
<1>4. Hands(c, 0)
  <2>1. Loses(c, Numbers(proc[p].rbuf), 0) /\ 0 \in Nat
    BY DEF Die
  <2> QED
    BY <2>1, LosesHands
<1> QED
  BY <1>2, <1>3, <1>4 DEF Deserted

(* The calls on the connection of the process' own client.                   *)
LEMMA TakesDoes ==
    ASSUME IInv, NEW c \in Clients, NEW j \in 1..Len(chan[c].in["s"]),
           chan' = [chan EXCEPT ![c] = Taken(@, "s", j)]
    PROVE  Takes(c, j)
<1>1. TypeOK
  BY DEF IInv
<1> QED
  BY <1>1, ReadEffect DEF Takes

(* Sending, to a client that is there or not.                                *)
LEMMA PutsDoes ==
    ASSUME IInv, NEW c \in Clients, NEW us \in Seq(Unit),
           chan' = [chan EXCEPT ![c] = Sent(@, "s", us)]
    PROVE  Puts(c, us)
<1>1. TypeOK
  BY DEF IInv
<1> QED
  BY <1>1, SendEffect DEF Puts

(* Going on to the next point.                                               *)
LEMMA GotoDoes ==
    ASSUME IInv, NEW p \in Procs, NEW from, At(p, from), NEW to, Goto(p, to),
           UNCHANGED <<queue, fds>>
    PROVE  Steps(p, from, to) /\ proc'[p].rbuf = proc[p].rbuf
<1>1. proc \in [Procs -> [pc : {"none", "accept", "fork", "hello", "hi", "read",
                                "write", "kill", "dead"},
                          con : Clients \cup {None}, rbuf : Seq(Unit),
                          parent : Procs \cup {None}]]
  BY DEF IInv, TypeOK, Process
<1> QED
  BY <1>1 DEF At, Goto, Steps

(* Every step of the server is one of these.                                 *)
LEMMA HandsDo ==
    ASSUME IInv, NEW p \in Procs, NEW c \in Clients, c = proc[p].con, ShakeHands(p)
    PROVE  \/ \E j \in 1..Len(chan[c].in["s"]) : Shook(p, c, j)
           \/ \E j \in 1..Len(chan[c].in["s"]), h \in Chans : TurnedAway(p, c, j, h)
           \/ SaidHi(p, c) \/ Deserted(p, c)
<1>1. TypeOK /\ proc \in [Procs -> Process]
  BY DEF IInv, TypeOK
<1>2. CASE At(p, "hello") /\ (AtEnd(chan[c], "s") \/ Failed(chan[c], "s")) /\ Die(p)
  BY <1>2, DieDoes DEF At
<1>3. CASE At(p, "hi") /\ Broken(chan[c], "s") /\ Die(p)
  BY <1>3, DieDoes DEF At
<1>4. CASE /\ At(p, "hi") /\ chan' = [chan EXCEPT ![c] = Sent(@, "s", <<Hi>>)]
           /\ Goto(p, "read") /\ UNCHANGED <<fds, queue, hist>>
  <2>1. <<Hi>> \in Seq(Unit)
    BY DEF Hi, Unit
  <2>2. Puts(c, <<Hi>>)
    BY <1>4, <2>1, PutsDoes
  <2>3. Steps(p, "hi", "read") /\ proc'[p].rbuf = proc[p].rbuf
    BY <1>4, GotoDoes
  <2>4. Hands(c, 0)
    BY <1>4, NoHands
  <2>5. proc[p].rbuf = <<>>
    BY <1>4 DEF At, IInv, Buffers
  <2> QED
    BY <2>2, <2>3, <2>4, <2>5 DEF SaidHi
<1>5. ASSUME At(p, "hello"), NEW j \in 1..Len(chan[c].in["s"]),
             chan' = [chan EXCEPT ![c] = Taken(@, "s", j)],
             Head(chan[c].in["s"]).t = "hello", Goto(p, "hi"),
             Loses(c, Numbers(SubSeq(chan[c].in["s"], 1, j)), 1),
             UNCHANGED <<fds, queue>>
      PROVE  Shook(p, c, j)
  <2>1. Takes(c, j)
    BY <1>5, TakesDoes
  <2>2. Steps(p, "hello", "hi") /\ proc'[p].rbuf = proc[p].rbuf
    BY <1>5, GotoDoes
  <2>3. Hands(c, 1)
    BY <1>5, LosesHands
  <2>4. proc[p].rbuf = <<>>
    BY <1>5 DEF At, IInv, Buffers
  <2> QED
    BY <1>5, <2>1, <2>2, <2>3, <2>4 DEF Shook
<1>6. ASSUME At(p, "hello"), NEW j \in 1..Len(chan[c].in["s"]),
             NEW h, h = [chan EXCEPT ![c] = Taken(@, "s", j)],
             Head(chan[c].in["s"]).t # "hello",
             End(p, h, proc), Loses(c, Numbers(SubSeq(chan[c].in["s"], 1, j)), 0)
      PROVE  h \in Chans /\ TurnedAway(p, c, j, h)
  <2>1. /\ h \in Chans
        /\ \A d \in Clients \ {c} : h[d] = chan[d]
        /\ h[c].end = chan[c].end
        /\ h[c].in["c"] = chan[c].in["c"]
        /\ h[c].in["s"] = SubSeq(chan[c].in["s"], j + 1, Len(chan[c].in["s"]))
    <3>1. h = [chan EXCEPT ![c] = Taken(chan[c], "s", j)]
      BY <1>6
    <3> QED
      BY ONLY <1>1, <3>1, c \in Clients, j \in 1..Len(chan[c].in["s"]), ReadValue
  <2>2. Ended(p, h) /\ \A r \in Procs \ {p} : proc'[r] = proc[r]
    BY <1>1, <1>6, <2>1, EndDoes
  <2>3. Hands(c, 0)
    BY <1>6, LosesHands
  <2> QED
    BY <1>6, <2>1, <2>2, <2>3 DEF TurnedAway
<1> QED
  BY <1>2, <1>3, <1>4, <1>5, <1>6 DEF ShakeHands

(* The loop reads a quit or a line.                                          *)
LEMMA ReadDoes ==
    ASSUME IInv, NEW p \in Procs, NEW c \in Clients, c = proc[p].con, Read(p)
    PROVE  \E j \in 1..Len(chan[c].in["s"]) : ReadQuit(p, c, j) \/ ReadLine(p, c, j)
<1>1. At(p, "read") /\ proc[p].rbuf = <<>> /\ UNCHANGED <<fds, queue>>
  BY DEF Read, At, IInv, Buffers
<1>2. PICK j \in 1..Len(chan[c].in["s"]) :
        /\ chan' = [chan EXCEPT ![c] = Taken(@, "s", j)]
        /\ \/ /\ Goto(p, "kill")
              /\ Loses(c, Numbers(SubSeq(chan[c].in["s"], 1, j)), 0)
           \/ /\ proc' = [proc EXCEPT ![p].pc = "write",
                                      ![p].rbuf = SubSeq(chan[c].in["s"], 1, j)]
              /\ Head(chan[c].in["s"]).t # "quit"
              /\ UNCHANGED hist
  BY DEF Read
<1>3. Takes(c, j)
  BY <1>2, TakesDoes
<1>4. CASE /\ Goto(p, "kill")
           /\ Loses(c, Numbers(SubSeq(chan[c].in["s"], 1, j)), 0)
  <2>1. Steps(p, "read", "kill") /\ proc'[p].rbuf = proc[p].rbuf
    BY <1>1, <1>4, GotoDoes
  <2>2. Hands(c, 0)
    BY <1>4, LosesHands
  <2> QED
    BY <1>1, <1>3, <2>1, <2>2 DEF ReadQuit
<1>5. CASE /\ proc' = [proc EXCEPT ![p].pc = "write",
                                   ![p].rbuf = SubSeq(chan[c].in["s"], 1, j)]
           /\ Head(chan[c].in["s"]).t # "quit"
           /\ UNCHANGED hist
  <2>1. proc \in [Procs -> [pc : {"none", "accept", "fork", "hello", "hi", "read",
                                  "write", "kill", "dead"},
                            con : Clients \cup {None}, rbuf : Seq(Unit),
                            parent : Procs \cup {None}]]
    BY DEF IInv, TypeOK, Process
  <2>2. Steps(p, "read", "write") /\ proc'[p].rbuf = SubSeq(chan[c].in["s"], 1, j)
    BY <1>1, <1>5, <2>1 DEF Steps, At
  <2>3. Hands(c, 0)
    BY <1>5, NoHands
  <2> QED
    BY <1>3, <1>5, <2>2, <2>3 DEF ReadLine
<1> QED
  BY <1>2, <1>4, <1>5

(* What was read is written back, or the client has gone.                    *)
LEMMA WriteDoes ==
    ASSUME IInv, NEW p \in Procs, NEW c \in Clients, c = proc[p].con, Write(p)
    PROVE  WroteBack(p, c) \/ Deserted(p, c)
<1>1. At(p, "write")
  BY DEF Write
<1>2. CASE Broken(chan[c], "s") /\ Die(p)
  BY <1>1, <1>2, DieDoes DEF At
<1>3. CASE /\ chan' = [chan EXCEPT ![c] = Sent(@, "s", Echo(proc[p].rbuf))]
           /\ proc' = [proc EXCEPT ![p].pc = "read", ![p].rbuf = <<>>]
           /\ UNCHANGED <<fds, queue, hist>>
  <2>1. /\ proc \in [Procs -> [pc : {"none", "accept", "fork", "hello", "hi", "read",
                                  "write", "kill", "dead"},
                            con : Clients \cup {None}, rbuf : Seq(Unit),
                            parent : Procs \cup {None}]]
        /\ proc[p].rbuf \in Seq(Unit)
    BY DEF IInv, TypeOK, Process
  <2>2. Steps(p, "write", "read") /\ proc'[p].rbuf = <<>>
    BY <1>1, <1>3, <2>1 DEF Steps, At
  <2>3. Hands(c, 0)
    BY <1>3, NoHands
  <2>4. Puts(c, proc[p].rbuf)
    BY <1>3, <2>1, PutsDoes DEF Echo
  <2> QED
    BY <2>2, <2>3, <2>4 DEF WroteBack
<1> QED
  BY <1>2, <1>3 DEF Write

(* The quit ends the parent, if it has one that lives.                       *)
LEMMA KillDoes ==
    ASSUME IInv, NEW p \in Procs, Kill(p)
    PROVE  KillsNobody(p) \/ \E q \in Procs : KillsParent(p, q)
<1> DEFINE r == [proc[p] EXCEPT !.pc = "accept"]
           back == [proc EXCEPT ![p] = r]
<1>1. /\ proc[p].pc = "kill" /\ proc[p].rbuf = <<>> /\ proc[p] \in Process
      /\ proc \in [Procs -> Process] /\ At(p, "kill")
  BY DEF Kill, At, IInv, TypeOK, Buffers
<1>2. /\ r \in Process /\ r.pc = "accept" /\ r.rbuf = <<>> /\ r.con = proc[p].con
      /\ r.parent = proc[p].parent
  BY <1>1 DEF Process
<1>3. /\ back \in [Procs -> Process] /\ back[p] = r
      /\ \A s \in Procs \ {p} : back[s] = proc[s]
  <2> HIDE DEF r
  <2> QED
    BY <1>1, <1>2
<1>4. CASE proc' = back /\ UNCHANGED <<fds, queue, chan, hist>>
  <2>1. Steps(p, "kill", "accept") /\ proc'[p].rbuf = <<>>
    <3> HIDE DEF r, back
    <3> QED
      BY <1>1, <1>2, <1>3, <1>4 DEF Steps
  <2> QED
    BY <1>4, <2>1 DEF KillsNobody
<1>5. ASSUME NEW q, q = proc[p].parent, q # None, Alive(q), End(q, chan, back),
             Loses(proc[q].con, Numbers(proc[q].rbuf), 0)
      PROVE  \E s \in Procs : KillsParent(p, s)
  <2>1. q \in Procs
    BY <1>1, <1>5 DEF Process
  <2>2. chan \in Chans
    BY ChansType DEF IInv
  <2> HIDE DEF r, back
  <2>3. back[q].con = proc[q].con /\ back[q].parent = proc[q].parent
    BY <1>2, <1>3, <2>1
  <2>4. Ended(q, chan) /\ \A s \in Procs \ {q} : proc'[s] = back[s]
    BY <1>3, <1>5, <2>1, <2>2, <2>3, EndDoes
  <2>5. \A d \in Clients : hist'[d].hands = hist[d].hands
    <3>1. hist \in [Clients -> [lost : SUBSET Nat, hands : Nat]]
      BY DEF IInv, TypeOK, History
    <3>2. hist' = [hist EXCEPT ![proc[q].con].lost = @ \cup Numbers(proc[q].rbuf),
                               ![proc[q].con].hands = @ + 0]
      BY <1>5 DEF Loses
    <3> QED
      BY <3>1, <3>2
  <2>6. KillsParent(p, q)
    BY <1>1, <1>2, <1>3, <1>5, <2>1, <2>4, <2>5 DEF KillsParent
  <2> QED
    BY <2>1, <2>6
<1> QED
  BY <1>4, <1>5 DEF Kill

Serving(p, c) ==
    \/ \E j \in 1..Len(chan[c].in["s"]) :
         Shook(p, c, j) \/ ReadQuit(p, c, j) \/ ReadLine(p, c, j)
    \/ \E j \in 1..Len(chan[c].in["s"]), h \in Chans : TurnedAway(p, c, j, h)
    \/ SaidHi(p, c) \/ WroteBack(p, c) \/ Deserted(p, c)

(* Every step of the server is one of these.                                 *)
LEMMA ServeDoes ==
    ASSUME IInv, NEW p \in Procs, Serve(p)
    PROVE  \/ Accept(p)
           \/ \E q \in Procs : Forked(p, q)
           \/ Forgot(p)
           \/ proc[p].con \in Clients /\ Serving(p, proc[p].con)
           \/ KillsNobody(p)
           \/ \E q \in Procs : KillsParent(p, q)
<1>1. ASSUME Fork(p) PROVE Forgot(p) \/ \E q \in Procs : Forked(p, q)
  <2>1. CASE \E q \in Procs : At(q, "none") /\ ForkTwo(p, q)
    BY <1>1, <2>1 DEF Fork, Forked
  <2>2. CASE Goto(p, "accept") /\ UNCHANGED <<fds, queue, chan, hist>>
    BY <1>1, <2>2, GotoDoes DEF Fork, Forgot
  <2> QED
    BY <1>1, <2>1, <2>2 DEF Fork
<1>2. ASSUME ShakeHands(p) PROVE proc[p].con \in Clients /\ Serving(p, proc[p].con)
  <2>1. proc[p].con \in Clients
    BY <1>2, HasClient DEF IInv, ShakeHands, At
  <2> QED
    BY <1>2, <2>1, HandsDo DEF Serving
<1>3. ASSUME Read(p) PROVE proc[p].con \in Clients /\ Serving(p, proc[p].con)
  <2>1. proc[p].con \in Clients
    BY <1>3, HasClient DEF IInv, Read, At
  <2> QED
    BY <1>3, <2>1, ReadDoes DEF Serving
<1>4. ASSUME Write(p) PROVE proc[p].con \in Clients /\ Serving(p, proc[p].con)
  <2>1. proc[p].con \in Clients
    BY <1>4, HasClient DEF IInv, Write, At
  <2> QED
    BY <1>4, <2>1, WriteDoes DEF Serving
<1> QED
  BY <1>1, <1>2, <1>3, <1>4, KillDoes DEF Serve

-----------------------------------------------------------------------------
(* The same of the clients.  One that has not gone has a process that runs.  *)
Kept(c) == child[c] \notin {"none", "dead"}
Live(c) == Running(c) \/ Kept(c)
Held(c) == Live(c) /\ chan[c].end["s"] = "open"
KidSame(c) == child'[c] = child[c] /\ rbuf'[c] = rbuf[c]

(* The main process goes from one point to another and has then heard the    *)
(* lines ns more and typed k quits more,                                     *)
Turns(c, from, to, ns, k) ==
    /\ main[c].pc = from /\ main'[c].pc = to
    /\ main'[c].got = main[c].got \cup ns /\ main'[c].quits = main[c].quits + k

(* the units us are sent to the server,                                      *)
Says(c, us) ==
    /\ chan'[c].in["c"] = chan[c].in["c"]
    /\ chan'[c].end["s"] = "open" <=> chan[c].end["s"] = "open"
    /\ chan'[c].end["c"] = "open" <=> chan[c].end["c"] = "open"
    /\ chan[c].end["s"] = "open" => chan'[c].in["s"] = chan[c].in["s"] \o us
    /\ chan[c].end["s"] # "open" => chan'[c].in["s"] = chan[c].in["s"]
Spoke(c, u) ==
    /\ u.n = main[c].sent + 1 /\ main'[c].sent = main[c].sent + 1
    /\ Says(c, <<u>>) /\ KidSame(c)
    /\ \/ Turns(c, "key", "key", {}, 1) /\ u.t = "quit"
       \/ Turns(c, "key", "kill", {}, 0) /\ u.t # "quit"
       \/ Turns(c, "hello", "hi", {}, 0) /\ u.t = "hello"
       \/ Turns(c, "prompt", "recv", {}, 0)

(* or j units are received.                                                  *)
Received(c, j) ==
    /\ chan'[c].in["c"] = SubSeq(out(c), j + 1, Len(out(c)))
    /\ chan'[c].in["s"] = chan[c].in["s"] /\ chan'[c].end = chan[c].end
Heard(c, j) ==
    /\ Received(c, j) /\ main'[c].sent = main[c].sent /\ KidSame(c)
    /\ \E from \in {"hi", "recv"} :
         Turns(c, from, "prompt", Numbers(SubSeq(out(c), 1, j)), 0)

Onward(c) ==
    /\ chan'[c] = chan[c] /\ main'[c].sent = main[c].sent
    /\ \/ /\ Turns(c, "fork", "key", {}, 0)
          /\ child[c] = "none" /\ child'[c] = "hello" /\ rbuf'[c] = <<>> /\ rbuf[c] = <<>>
       \/ Turns(c, "kill", "hello", {}, 0) /\ child'[c] = "dead" /\ rbuf'[c] = <<>>
       \/ Turns(c, "key", "hello", {}, 0) /\ KidSame(c)
Dialled(c) ==
    /\ chan'[c] = chan[c] /\ main'[c].sent = main[c].sent /\ KidSame(c)
    /\ Turns(c, "connect", "fork", {}, 0) /\ queue' = Append(queue, c)
Unanswered(c) ==
    /\ chan'[c] = chan[c] /\ main'[c].sent = main[c].sent /\ KidSame(c)
    /\ AtEnd(chan[c], "c") /\ Turns(c, "hi", "prompt", {}, 0)

(* Its child shakes hands, or does not,                                      *)
KidShook(c, j) ==
    /\ child[c] = "hello" /\ Received(c, j) /\ main'[c] = main[c]
    /\ rbuf[c] = <<>> /\ rbuf'[c] = <<>>
    /\ child'[c] = IF Head(out(c)).t = "hello" THEN "hi" ELSE "dead"
(* reads,                                                                    *)
KidRead(c, j) ==
    /\ child[c] = "read" /\ Received(c, j) /\ main'[c] = main[c]
    /\ rbuf[c] = <<>> /\ rbuf'[c] = SubSeq(out(c), 1, j) /\ child'[c] = "write"
(* writes,                                                                   *)
KidPut(c, us) ==
    /\ \/ child[c] = "hi" /\ rbuf[c] = <<>> /\ us = <<Hi>>
       \/ child[c] = "write" /\ us = rbuf[c]
    /\ Says(c, us) /\ main'[c] = main[c] /\ child'[c] = "read" /\ rbuf'[c] = <<>>
(* or ends, and the main process runs on.                                    *)
KidGone(c) ==
    /\ Kept(c) /\ child'[c] = "dead" /\ rbuf'[c] = <<>>
    /\ main'[c] = main[c] /\ chan'[c] = chan[c] /\ chan[c].end["s"] # "open"

(* Or all is gone, or the child is left alone.                               *)
Left(c) ==
    /\ ~ Running(c)' /\ queue' = queue
    /\ chan'[c].end["s"] = chan[c].end["s"] /\ chan'[c].in["s"] = chan[c].in["s"]
    /\ \/ ~ Kept(c)'
       \/ chan'[c] = chan[c] /\ KidSame(c)

Using(c) ==
    \/ queue' = queue /\ \/ \E u \in Unit : Spoke(c, u)
                         \/ \E j \in 1..Len(out(c)) : Heard(c, j)
                         \/ \E j \in 1..Len(out(c)) : KidShook(c, j) \/ KidRead(c, j)
                         \/ \E us \in Seq(Unit) : KidPut(c, us)
                         \/ KidGone(c) \/ Onward(c) \/ Unanswered(c)
    \/ Dialled(c) \/ Left(c)

Does(c) == Using(c) /\ Others(c) /\ \A d \in Clients : hist'[d].hands = hist[d].hands

(* The close of a client changes nothing at the other side.                  *)
LEMMA ShutLeaves ==
    ASSUME TypeOK, NEW c \in Clients, NEW h \in Connection(Unit), NEW b, Shut(c, h, b)
    PROVE  /\ chan'[c].end["s"] = h.end["s"] /\ chan'[c].in["s"] = h.in["s"]
           /\ ~ b => chan'[c] = h
           /\ \A d \in Clients \ {c} : chan'[d] = chan[d]
<1>1. "c" \in Sides /\ "s" \in Sides \ {"c"}
  BY DEF Sides
<1>2. CASE ~ b
  <2>1. chan' = [chan EXCEPT ![c] = h]
    BY <1>2 DEF Shut
  <2> QED
    BY <2>1, <1>2, OneChanged
<1>3. CASE b
  <2>1. PICK how \in Hows : chan' = [chan EXCEPT ![c] = Closed(h, "c", how)]
    BY <1>3 DEF Shut
  <2>2. /\ Closed(h, "c", how) \in Connection(Unit)
        /\ Closed(h, "c", how).end["s"] = h.end["s"]
    BY <1>1, ClosedConn
  <2>3. Closed(h, "c", how).in["s"] = h.in["s"]
    BY <1>1 DEF Closed, Connection
  <2> QED
    BY <2>1, <2>2, <2>3, <1>3, OneChanged
<1> QED
  BY <1>2, <1>3

(* The fields of the main process of a client.                               *)
LEMMA MainIs ==
    ASSUME IInv
    PROVE  main \in [Clients -> [pc : {"connect", "fork", "key", "kill", "hello", "hi",
                                       "prompt", "recv", "exit", "dead"},
                                 sent : Nat, got : SUBSET Nat, quits : Nat, left : Nat]]
BY DEF IInv, TypeOK, Main

(* The main process goes on.                                                 *)
LEMMA MGotoDoes ==
    ASSUME IInv, NEW c \in Clients, NEW pc, MGoto(c, pc)
    PROVE  /\ Turns(c, main[c].pc, pc, {}, 0) /\ main'[c].sent = main[c].sent
           /\ \A d \in Clients \ {c} : main'[d] = main[d]
BY MainIs DEF MGoto, Turns

(* What ends in a process has nothing to do with handshakes.                 *)
LEMMA LostHands ==
    ASSUME IInv, NEW c \in Clients, NEW ns, UNCHANGED hist \/ Loses(c, ns, 0)
    PROVE  /\ \A d \in Clients : hist'[d].hands = hist[d].hands
           /\ \A d \in Clients \ {c} : hist'[d] = hist[d]
<1>1. hist \in [Clients -> [lost : SUBSET Nat, hands : Nat]]
  BY DEF IInv, TypeOK, History
<1> QED
  BY <1>1 DEF Loses

(* The state of a child.                                                     *)
LEMMA KidGoes ==
    ASSUME IInv, NEW c \in Clients, NEW pc, CGoto(c, pc)
    PROVE  child'[c] = pc /\ \A d \in Clients \ {c} : child'[d] = child[d]
BY DEF CGoto, IInv, TypeOK

(* A client that ends is gone,                                               *)
LEMMA StopDoes ==
    ASSUME IInv, NEW c \in Clients, NEW pc \in {"exit", "dead"}, Stop(c, pc),
           queue' = queue
    PROVE  Does(c)
<1>1. TypeOK /\ MGoto(c, pc) /\ UNCHANGED <<child, rbuf, hist>>
  BY DEF IInv, Stop
<1>2. main'[c].pc = pc /\ \A d \in Clients \ {c} : main'[d] = main[d]
  BY <1>1, MGotoDoes DEF Turns
<1> DEFINE b == child[c] \in {"none", "dead"}
<1>3. Shut(c, chan[c], b) /\ chan[c] \in Connection(Unit)
  BY <1>1, ChansType DEF Stop
<1>4. b <=> ~ Kept(c)'
  BY <1>1 DEF Kept
<1> HIDE DEF b
<1>5. /\ chan'[c].end["s"] = chan[c].end["s"] /\ chan'[c].in["s"] = chan[c].in["s"]
      /\ ~ b => chan'[c] = chan[c]
      /\ \A d \in Clients \ {c} : chan'[d] = chan[d]
  BY <1>1, <1>3, ShutLeaves
<1> QED
  BY <1>1, <1>2, <1>4, <1>5 DEF Does, Using, Left, Others, Running, KidSame

(* one that receives takes from the beginning,                               *)
LEMMA ReceivedDoes ==
    ASSUME IInv, NEW c \in Clients, NEW j \in 1..Len(out(c)),
           chan' = [chan EXCEPT ![c] = Taken(@, "c", j)]
    PROVE  Received(c, j) /\ \A d \in Clients \ {c} : chan'[d] = chan[d]
<1> DEFINE v == Taken(chan[c], "c", j)
<1>1. TypeOK /\ j \in 1..Len(chan[c].in["c"])
  BY DEF IInv, out
<1>2. /\ v \in Connection(Unit) /\ v.end = chan[c].end
      /\ v.in["c"] = SubSeq(chan[c].in["c"], j + 1, Len(chan[c].in["c"]))
      /\ v.in["s"] = chan[c].in["s"]
  BY <1>1, HearEffect
<1>3. chan' = [chan EXCEPT ![c] = v]
  OBVIOUS
<1> HIDE DEF v
<1>4. chan'[c] = v /\ \A d \in Clients \ {c} : chan'[d] = chan[d]
  BY <1>1, <1>2, <1>3, OneChanged
<1> QED
  BY <1>2, <1>4 DEF Received, out

(* one that sends adds at the end.                                           *)
LEMMA SaysDoes ==
    ASSUME IInv, NEW c \in Clients, NEW us \in Seq(Unit),
           chan' = [chan EXCEPT ![c] = Sent(@, "c", us)]
    PROVE  Says(c, us) /\ \A d \in Clients \ {c} : chan'[d] = chan[d]
<1>1. TypeOK
  BY DEF IInv
<1>2. /\ \A d \in Clients \ {c} : chan'[d] = chan[d]
      /\ chan'[c].end["s"] = "open" <=> chan[c].end["s"] = "open"
      /\ chan'[c].end["c"] = "open" <=> chan[c].end["c"] = "open"
      /\ chan'[c].in["c"] = chan[c].in["c"]
      /\ chan[c].end["s"] = "open" => chan'[c].in["s"] = chan[c].in["s"] \o us
  BY <1>1, ClientSends
<1>3. ASSUME chan[c].end["s"] # "open" PROVE chan'[c].in["s"] = chan[c].in["s"]
  <2>1. chan[c] \in Connection(Unit) /\ chan \in Chans
    BY <1>1, ChansType
  <2>2. Sent(chan[c], "c", us).in = chan[c].in
    BY <1>3, <2>1 DEF Sent, Peer, Connection
  <2>3. chan'[c] = Sent(chan[c], "c", us)
    BY <2>1 DEF Chans
  <2> QED
    BY <2>2, <2>3
<1> QED
  BY <1>2, <1>3 DEF Says

(* What is received by the main process,                                     *)
LEMMA HeardDoes ==
    ASSUME IInv, NEW c \in Clients, main[c].pc \in {"hi", "recv"}, Receives(c),
           queue' = queue
    PROVE  Does(c)
<1>1. PICK j \in 1..Len(out(c)) :
        /\ chan' = [chan EXCEPT ![c] = Taken(@, "c", j)]
        /\ main' = [main EXCEPT ![c].pc = "prompt",
                                ![c].got = @ \cup Numbers(SubSeq(out(c), 1, j))]
  BY DEF Receives
<1>2. UNCHANGED <<child, rbuf, hist>>
  BY DEF Receives
<1>3. Received(c, j) /\ \A d \in Clients \ {c} : chan'[d] = chan[d]
  BY <1>1, ReceivedDoes
<1>4. /\ Turns(c, main[c].pc, "prompt", Numbers(SubSeq(out(c), 1, j)), 0)
      /\ main'[c].sent = main[c].sent
      /\ \A d \in Clients \ {c} : main'[d] = main[d]
  BY <1>1, MainIs DEF Turns
<1>5. Heard(c, j)
  BY <1>2, <1>3, <1>4 DEF Heard, KidSame
<1> QED
  BY <1>2, <1>3, <1>4, <1>5 DEF Does, Using, Others
(* A child that ends, having taken nothing or what is no handshake,          *)
LEMMA ChildEndsDoes ==
    ASSUME IInv, NEW c \in Clients, NEW h \in Connection(Unit), NEW ns,
           ChildEnds(c, h, ns), queue' = queue, Kept(c),
           h.end = chan[c].end, h.in["s"] = chan[c].in["s"],
           \/ h = chan[c] /\ chan[c].end["s"] # "open"
           \/ /\ child[c] = "hello" /\ Head(out(c)).t # "hello"
              /\ \E j \in 1..Len(out(c)) :
                   h.in["c"] = SubSeq(out(c), j + 1, Len(out(c)))
    PROVE  Does(c)
<1>1. /\ TypeOK /\ CGoto(c, "dead") /\ main' = main
      /\ rbuf' = [rbuf EXCEPT ![c] = <<>>]
  BY DEF IInv, ChildEnds
<1> DEFINE b == ~ Running(c)
<1>2. Shut(c, h, b)
  BY DEF ChildEnds
<1>3. /\ child'[c] = "dead" /\ rbuf'[c] = <<>>
      /\ \A d \in Clients \ {c} : child'[d] = child[d] /\ rbuf'[d] = rbuf[d]
  BY <1>1, KidGoes DEF TypeOK
<1>4. /\ \A d \in Clients : hist'[d].hands = hist[d].hands
      /\ \A d \in Clients \ {c} : hist'[d] = hist[d]
  BY LostHands DEF ChildEnds
<1> HIDE DEF b
<1>5. /\ chan'[c].end["s"] = chan[c].end["s"] /\ chan'[c].in["s"] = chan[c].in["s"]
      /\ ~ b => chan'[c] = h
      /\ \A d \in Clients \ {c} : chan'[d] = chan[d]
  BY <1>1, <1>2, ShutLeaves
<1>6. Others(c)
  BY <1>1, <1>3, <1>4, <1>5 DEF Others
<1>7. CASE b
  BY <1>1, <1>3, <1>4, <1>5, <1>6, <1>7 DEF b, Does, Using, Left, Running, Kept
<1>8. CASE ~ b /\ h = chan[c] /\ chan[c].end["s"] # "open"
  BY <1>1, <1>3, <1>4, <1>5, <1>6, <1>8 DEF Does, Using, KidGone
<1>9. ASSUME ~ b, child[c] = "hello", Head(out(c)).t # "hello",
             NEW j \in 1..Len(out(c)), h.in["c"] = SubSeq(out(c), j + 1, Len(out(c)))
      PROVE  Does(c)
  <2>1. Received(c, j)
    BY <1>5, <1>9 DEF Received
  <2>2. rbuf[c] = <<>>
    BY <1>9 DEF IInv, Buffers
  <2>3. KidShook(c, j)
    BY <1>1, <1>3, <1>9, <2>1, <2>2 DEF KidShook
  <2> QED
    BY <1>4, <1>6, <2>3 DEF Does, Using
<1> QED
  BY <1>7, <1>8, <1>9

(* one that shakes hands,                                                    *)
LEMMA ShakesDoes ==
    ASSUME IInv, NEW c \in Clients, ChildShakes(c), queue' = queue
    PROVE  Does(c)
<1>1. TypeOK /\ chan[c] \in Connection(Unit)
  BY ChansType DEF IInv
<1>2. ASSUME child[c] = "hello", NEW j \in 1..Len(out(c)), Head(out(c)).t = "hello",
             CGoto(c, "hi"), Loses(c, Numbers(SubSeq(out(c), 1, j)), 0),
             chan' = [chan EXCEPT ![c] = Taken(@, "c", j)],
             UNCHANGED <<main, rbuf>>
      PROVE  Does(c)
  <2>1. Received(c, j) /\ \A d \in Clients \ {c} : chan'[d] = chan[d]
    BY <1>2, ReceivedDoes
  <2>2. child'[c] = "hi" /\ \A d \in Clients \ {c} : child'[d] = child[d]
    BY <1>2, KidGoes
  <2>3. /\ \A d \in Clients : hist'[d].hands = hist[d].hands
        /\ \A d \in Clients \ {c} : hist'[d] = hist[d]
    BY <1>2, LostHands
  <2>4. rbuf[c] = <<>>
    BY <1>2 DEF IInv, Buffers
  <2>5. KidShook(c, j)
    BY <1>2, <2>1, <2>2, <2>4 DEF KidShook
  <2> QED
    BY <1>2, <2>1, <2>2, <2>3, <2>5 DEF Does, Using, Others
<1>3. ASSUME child[c] = "hello", NEW j \in 1..Len(out(c)), Head(out(c)).t # "hello",
             ChildEnds(c, Taken(chan[c], "c", j), Numbers(SubSeq(out(c), 1, j)))
      PROVE  Does(c)
  <2> DEFINE h == Taken(chan[c], "c", j)
             ns == Numbers(SubSeq(out(c), 1, j))
  <2>1. /\ h \in Connection(Unit) /\ h.end = chan[c].end
        /\ h.in["c"] = SubSeq(out(c), j + 1, Len(out(c)))
        /\ h.in["s"] = chan[c].in["s"]
    BY <1>1, HearEffect DEF out
  <2>2. ChildEnds(c, h, ns) /\ Kept(c)
    BY <1>3 DEF Kept
  <2> HIDE DEF h, ns
  <2> QED
    BY <1>3, <2>1, <2>2, ChildEndsDoes
<1>4. ASSUME ChildEnds(c, chan[c], {}), Kept(c), chan[c].end["s"] # "open"
      PROVE  Does(c)
  BY <1>1, <1>4, ChildEndsDoes
<1>5. CASE /\ child[c] = "hi"
           /\ chan' = [chan EXCEPT ![c] = Sent(@, "c", <<Hi>>)]
           /\ CGoto(c, "read") /\ UNCHANGED <<main, rbuf, hist>>
  <2>1. <<Hi>> \in Seq(Unit)
    BY DEF Hi, Unit
  <2>2. Says(c, <<Hi>>) /\ \A d \in Clients \ {c} : chan'[d] = chan[d]
    BY <1>5, <2>1, SaysDoes
  <2>3. child'[c] = "read" /\ \A d \in Clients \ {c} : child'[d] = child[d]
    BY <1>5, KidGoes
  <2>4. rbuf[c] = <<>>
    BY <1>5 DEF IInv, Buffers
  <2>5. KidPut(c, <<Hi>>)
    BY <1>5, <2>2, <2>3, <2>4 DEF KidPut
  <2> QED
    BY <1>5, <2>1, <2>2, <2>3, <2>5 DEF Does, Using, Others
<1>6. AtEnd(chan[c], "c") \/ Failed(chan[c], "c") \/ Broken(chan[c], "c")
      => chan[c].end["s"] # "open"
  BY DEF AtEnd, Failed, Broken, Peer
<1>7. child[c] \in {"hello", "hi"} => Kept(c)
  BY DEF Kept
<1> QED
  BY <1>2, <1>3, <1>4, <1>5, <1>6, <1>7 DEF ChildShakes

(* and one that echoes.                                                      *)
LEMMA EchoesDoes ==
    ASSUME IInv, NEW c \in Clients, ChildEchoes(c), queue' = queue
    PROVE  Does(c)
<1>1. TypeOK /\ chan[c] \in Connection(Unit) /\ out(c) \in Seq(Unit)
      /\ rbuf \in [Clients -> Seq(Unit)]
  BY ChansType DEF IInv, out, TypeOK
<1>2. ASSUME child[c] = "read", NEW j \in 1..Len(out(c)),
             chan' = [chan EXCEPT ![c] = Taken(@, "c", j)],
             rbuf' = [rbuf EXCEPT ![c] = SubSeq(out(c), 1, j)],
             CGoto(c, "write"), UNCHANGED <<main, hist>>
      PROVE  Does(c)
  <2>1. Received(c, j) /\ \A d \in Clients \ {c} : chan'[d] = chan[d]
    BY <1>2, ReceivedDoes
  <2>2. child'[c] = "write" /\ \A d \in Clients \ {c} : child'[d] = child[d]
    BY <1>2, KidGoes
  <2>3. rbuf[c] = <<>>
    BY <1>2 DEF IInv, Buffers
  <2>4. /\ rbuf'[c] = SubSeq(out(c), 1, j)
        /\ \A d \in Clients \ {c} : rbuf'[d] = rbuf[d]
    BY <1>1, <1>2
  <2>5. KidRead(c, j)
    BY <1>2, <2>1, <2>2, <2>3, <2>4 DEF KidRead
  <2> QED
    BY <1>2, <2>1, <2>2, <2>4, <2>5 DEF Does, Using, Others
<1>3. CASE /\ child[c] = "write"
           /\ chan' = [chan EXCEPT ![c] = Sent(@, "c", rbuf[c])]
           /\ CGoto(c, "read") /\ rbuf' = [rbuf EXCEPT ![c] = <<>>]
           /\ UNCHANGED <<main, hist>>
  <2> DEFINE us == rbuf[c]
  <2>1. us \in Seq(Unit)
    BY <1>1
  <2>2. Says(c, us) /\ \A d \in Clients \ {c} : chan'[d] = chan[d]
    BY <1>3, <2>1, SaysDoes
  <2>3. child'[c] = "read" /\ \A d \in Clients \ {c} : child'[d] = child[d]
    BY <1>3, KidGoes
  <2>4. /\ rbuf'[c] = <<>>
        /\ \A d \in Clients \ {c} : rbuf'[d] = rbuf[d]
    BY <1>1, <1>3
  <2>5. KidPut(c, us)
    BY <1>3, <2>2, <2>3, <2>4 DEF KidPut
  <2> HIDE DEF us
  <2> QED
    BY <1>3, <2>1, <2>2, <2>3, <2>4, <2>5 DEF Does, Using, Others
<1>4. CASE child[c] = "write" /\ Broken(chan[c], "c") /\ ChildEnds(c, chan[c], Numbers(rbuf[c]))
  <2>1. chan[c].end["s"] # "open" /\ Kept(c)
    BY <1>4 DEF Broken, Peer, Kept
  <2> QED
    BY <1>1, <1>4, <2>1, ChildEndsDoes
<1> QED
  BY <1>2, <1>3, <1>4 DEF ChildEchoes

(* A unit is sent, or the server has gone.                                   *)
LEMMA SpokeDoes ==
    ASSUME IInv, NEW c \in Clients, NEW t \in {"text", "hello", "quit"},
           NEW next \in Main, Sends(c, t, next), queue' = queue,
           next.sent = main[c].sent, next.got = main[c].got,
           \/ /\ main[c].pc = "key" /\ next.pc = "key" /\ t = "quit"
              /\ next.quits = main[c].quits + 1
           \/ /\ next.quits = main[c].quits
              /\ \/ main[c].pc = "key" /\ next.pc = "kill" /\ t # "quit"
                 \/ main[c].pc = "hello" /\ next.pc = "hi" /\ t = "hello"
                 \/ main[c].pc = "prompt" /\ next.pc = "recv"
    PROVE  Does(c)
<1> DEFINE u == [t |-> t, n |-> main[c].sent + 1]
           m == [next EXCEPT !.sent = @ + 1]
<1>1. CASE Stop(c, "dead")
  BY <1>1, StopDoes
<1>2. CASE /\ chan' = [chan EXCEPT ![c] = Sent(@, "c", <<u>>)]
           /\ main' = [main EXCEPT ![c] = m] /\ UNCHANGED <<child, rbuf, hist>>
  <2>1. main[c].sent \in Nat /\ main[c].quits \in Nat /\ TypeOK
    BY DEF IInv, TypeOK, Main
  <2>2. u \in Unit /\ u.n = main[c].sent + 1 /\ u.t = t
    BY <2>1 DEF Unit
  <2>3. /\ m.sent = main[c].sent + 1 /\ m.got = main[c].got
        /\ m.pc = next.pc /\ m.quits = next.quits
    BY <2>1 DEF Main
  <2>4. main'[c] = m /\ \A d \in Clients \ {c} : main'[d] = main[d]
    BY <1>2, <2>1 DEF TypeOK
  <2> HIDE DEF u, m
  <2>5. Says(c, <<u>>) /\ \A d \in Clients \ {c} : chan'[d] = chan[d]
    <3>1. <<u>> \in Seq(Unit) /\ chan' = [chan EXCEPT ![c] = Sent(@, "c", <<u>>)]
      BY <1>2, <2>2
    <3> QED
      BY <3>1, SaysDoes
  <2>6. Spoke(c, u)
    BY <1>2, <2>1, <2>2, <2>3, <2>4, <2>5 DEF Spoke, Turns, KidSame
  <2> QED
    BY <1>2, <2>2, <2>4, <2>5, <2>6 DEF Does, Using, Others
<1> QED
  BY <1>1, <1>2 DEF Sends

(* The steps of do_keyboard,                                                 *)
LEMMA KeysDo ==
    ASSUME IInv, NEW c \in Clients, Keyboard(c), queue' = queue
    PROVE  Does(c)
<1>1. CASE KillsChild(c)
  <2>1. /\ main[c].pc = "kill" /\ chan' = chan /\ MGoto(c, "hello")
        /\ CGoto(c, "dead") /\ Loses(c, Numbers(rbuf[c]), 0)
    BY <1>1 DEF KillsChild, MAt
  <2>2. /\ Turns(c, "kill", "hello", {}, 0) /\ main'[c].sent = main[c].sent
        /\ \A d \in Clients \ {c} : main'[d] = main[d]
    BY <2>1, MGotoDoes
  <2>3. child'[c] = "dead" /\ \A d \in Clients \ {c} : child'[d] = child[d]
    BY <2>1, KidGoes
  <2>4. rbuf'[c] = <<>> /\ \A d \in Clients \ {c} : rbuf'[d] = rbuf[d]
    BY <1>1 DEF KillsChild, IInv, TypeOK
  <2>5. /\ \A d \in Clients : hist'[d].hands = hist[d].hands
        /\ \A d \in Clients \ {c} : hist'[d] = hist[d]
    BY <2>1, LostHands
  <2> QED
    BY <2>1, <2>2, <2>3, <2>4, <2>5 DEF Does, Using, Onward, Others
<1>2. ASSUME NEW t \in Typed, MAt(c, "key"), main[c].left > 0,
             Sends(c, t, IF t = "quit"
                         THEN [main[c] EXCEPT !.left = @ - 1, !.quits = @ + 1]
                         ELSE [main[c] EXCEPT !.left = @ - 1, !.pc = "kill"])
      PROVE  Does(c)
  <2>1. /\ t \in {"text", "hello", "quit"} /\ main[c].pc = "key"
        /\ TypeOK /\ main[c] \in Main
    BY <1>2, TalkAssumption DEF MAt, IInv, TypeOK
  <2>2. CASE t = "quit"
    <3> DEFINE next == [main[c] EXCEPT !.left = @ - 1, !.quits = @ + 1]
    <3>1. /\ next \in Main /\ next.pc = "key" /\ next.sent = main[c].sent
          /\ next.got = main[c].got /\ next.quits = main[c].quits + 1
      BY <1>2, <2>1, Goes DEF Main
    <3>2. Sends(c, t, next)
      BY <1>2, <2>2
    <3> HIDE DEF next
    <3> QED
      BY <2>1, <2>2, <3>1, <3>2, SpokeDoes
  <2>3. CASE t # "quit"
    <3> DEFINE next == [main[c] EXCEPT !.left = @ - 1, !.pc = "kill"]
    <3>1. /\ next \in Main /\ next.pc = "kill" /\ next.sent = main[c].sent
          /\ next.got = main[c].got /\ next.quits = main[c].quits
      BY <1>2, <2>1, Goes DEF Main
    <3>2. Sends(c, t, next)
      BY <1>2, <2>3
    <3> HIDE DEF next
    <3> QED
      BY <2>1, <2>3, <3>1, <3>2, SpokeDoes
  <2> QED
    BY <2>2, <2>3
<1>3. CASE MAt(c, "key") /\ MGoto(c, "hello") /\ UNCHANGED <<chan, child, rbuf, hist>>
  <2>1. /\ Turns(c, "key", "hello", {}, 0) /\ main'[c].sent = main[c].sent
        /\ \A d \in Clients \ {c} : main'[d] = main[d]
    BY <1>3, MGotoDoes DEF MAt
  <2> QED
    BY <1>3, <2>1 DEF Does, Using, Onward, Others, KidSame
<1> QED
  BY <1>1, <1>2, <1>3 DEF Keyboard

(* of the handshake                                                          *)
LEMMA HelloDoes ==
    ASSUME IInv, NEW c \in Clients, SaysHello(c), queue' = queue
    PROVE  Does(c)
<1>1. CASE MAt(c, "hello") /\ Sends(c, "hello", [main[c] EXCEPT !.pc = "hi"])
  <2> DEFINE next == [main[c] EXCEPT !.pc = "hi"]
  <2>1. main[c] \in Main /\ main[c].pc = "hello"
    BY <1>1 DEF MAt, IInv, TypeOK
  <2>2. /\ next \in Main /\ next.pc = "hi" /\ next.sent = main[c].sent
        /\ next.got = main[c].got /\ next.quits = main[c].quits
    BY <2>1 DEF Main
  <2>3. Sends(c, "hello", next)
    BY <1>1
  <2> HIDE DEF next
  <2> QED
    BY <2>1, <2>2, <2>3, SpokeDoes
<1>2. CASE MAt(c, "hi") /\ Receives(c)
  BY <1>2, HeardDoes DEF MAt
<1>3. CASE /\ MAt(c, "hi") /\ AtEnd(chan[c], "c") /\ MGoto(c, "prompt")
           /\ UNCHANGED <<chan, child, rbuf, hist>>
  <2>1. /\ Turns(c, "hi", "prompt", {}, 0) /\ main'[c].sent = main[c].sent
        /\ \A d \in Clients \ {c} : main'[d] = main[d]
    BY <1>3, MGotoDoes DEF MAt
  <2> QED
    BY <1>3, <2>1 DEF Does, Using, Unanswered, Others, KidSame
<1>4. CASE Stop(c, "dead")
  BY <1>4, StopDoes
<1> QED
  BY <1>1, <1>2, <1>3, <1>4 DEF SaysHello

(* and of the loop of main.                                                  *)
LEMMA TalksDo ==
    ASSUME IInv, NEW c \in Clients, Talks(c), queue' = queue
    PROVE  Does(c)
<1>1. ASSUME NEW t \in Typed, MAt(c, "prompt"), main[c].left > 0,
             Sends(c, t, [main[c] EXCEPT !.pc = "recv", !.left = @ - 1])
      PROVE  Does(c)
  <2> DEFINE next == [main[c] EXCEPT !.pc = "recv", !.left = @ - 1]
  <2>1. /\ t \in {"text", "hello", "quit"} /\ main[c].pc = "prompt"
        /\ TypeOK /\ main[c] \in Main
    BY <1>1, TalkAssumption DEF MAt, IInv, TypeOK
  <2>2. /\ next \in Main /\ next.pc = "recv" /\ next.sent = main[c].sent
        /\ next.got = main[c].got /\ next.quits = main[c].quits
    BY <1>1, <2>1, Goes DEF Main
  <2>3. Sends(c, t, next)
    BY <1>1
  <2> HIDE DEF next
  <2> QED
    BY <2>1, <2>2, <2>3, SpokeDoes
<1>2. CASE Stop(c, "exit") \/ Stop(c, "dead")
  BY <1>2, StopDoes
<1>3. CASE MAt(c, "recv") /\ Receives(c)
  BY <1>3, HeardDoes DEF MAt
<1> QED
  BY <1>1, <1>2, <1>3 DEF Talks

(* Every step of a client is one of these.                                   *)
LEMMA UseDoes ==
    ASSUME IInv, NEW c \in Clients, Use(c) \/ Crash(c)
    PROVE  /\ Using(c) /\ Others(c) /\ UNCHANGED <<proc, fds>>
           /\ \A d \in Clients : hist'[d].hands = hist[d].hands
<1>1. UNCHANGED <<proc, fds>> /\ TypeOK
  BY DEF Use, Crash, IInv
<1>2. ASSUME Connect(c) PROVE Does(c)
  <2>1. MAt(c, "connect") /\ UNCHANGED <<chan, child, rbuf, hist>>
    BY <1>2 DEF Connect
  <2>2. CASE MGoto(c, "dead") /\ UNCHANGED queue
    <3>1. main'[c].pc = "dead" /\ \A d \in Clients \ {c} : main'[d] = main[d]
      BY <2>2, MGotoDoes DEF Turns
    <3> QED
      BY <2>1, <2>2, <3>1 DEF Does, Using, Left, Running, Others, KidSame
  <2>3. CASE MGoto(c, "fork") /\ queue' = Append(queue, c)
    <3>1. /\ Turns(c, "connect", "fork", {}, 0) /\ main'[c].sent = main[c].sent
          /\ \A d \in Clients \ {c} : main'[d] = main[d]
      BY <2>1, <2>3, MGotoDoes DEF MAt
    <3> QED
      BY <2>1, <2>3, <3>1 DEF Does, Using, Dialled, Others, KidSame
  <2> QED
    BY <1>2, <2>2, <2>3 DEF Connect
<1>3. ASSUME ForkChild(c), UNCHANGED queue PROVE Does(c)
  <2>1. CASE Stop(c, "exit")
    BY <1>3, <2>1, StopDoes
  <2>2. CASE /\ MGoto(c, "key") /\ CGoto(c, "hello")
             /\ UNCHANGED <<chan, rbuf, hist>>
    <3>0. main[c].pc = "fork"
      BY <1>3 DEF ForkChild, MAt
    <3>1. /\ Turns(c, "fork", "key", {}, 0) /\ main'[c].sent = main[c].sent
          /\ \A d \in Clients \ {c} : main'[d] = main[d]
      BY <2>2, <3>0, MGotoDoes
    <3>2. child'[c] = "hello" /\ \A d \in Clients \ {c} : child'[d] = child[d]
      BY <2>2, KidGoes
    <3>3. child[c] = "none" /\ rbuf[c] = <<>> /\ rbuf' = rbuf
      BY <2>2, <3>0 DEF IInv, Buffers
    <3> QED
      BY <1>3, <2>2, <3>1, <3>2, <3>3 DEF Does, Using, Onward, Others
  <2> QED
    BY <1>3, <2>1, <2>2 DEF ForkChild
<1>4. ASSUME Crash(c) PROVE Does(c)
  <2>1. CASE Stop(c, "dead")
    BY <1>4, <2>1, StopDoes DEF Crash
  <2>2. CASE /\ MGoto(c, "dead") /\ CGoto(c, "dead")
             /\ rbuf' = [rbuf EXCEPT ![c] = <<>>]
             /\ Shut(c, chan[c], TRUE) /\ Loses(c, Numbers(rbuf[c]), 0)
    <3>1. main'[c].pc = "dead" /\ \A d \in Clients \ {c} : main'[d] = main[d]
      BY <2>2, MGotoDoes DEF Turns
    <3>2. child'[c] = "dead" /\ \A d \in Clients \ {c} : child'[d] = child[d]
      BY <2>2, KidGoes
    <3>3. rbuf'[c] = <<>> /\ \A d \in Clients \ {c} : rbuf'[d] = rbuf[d]
      BY <1>1, <2>2 DEF TypeOK
    <3>4. /\ \A d \in Clients : hist'[d].hands = hist[d].hands
          /\ \A d \in Clients \ {c} : hist'[d] = hist[d]
      BY <2>2, LostHands
    <3>5. chan[c] \in Connection(Unit)
      BY <1>1, ChansType
    <3>6. /\ chan'[c].end["s"] = chan[c].end["s"] /\ chan'[c].in["s"] = chan[c].in["s"]
          /\ \A d \in Clients \ {c} : chan'[d] = chan[d]
      BY <1>1, <2>2, <3>5, ShutLeaves
    <3>7. queue' = queue
      BY <1>4 DEF Crash
    <3> QED
      BY <3>1, <3>2, <3>3, <3>4, <3>6, <3>7 DEF Does, Using, Left, Running, Kept, Others
  <2> QED
    BY <1>4, <2>1, <2>2 DEF Crash
<1> QED
  BY <1>1, <1>2, <1>3, <1>4, KeysDo, HelloDoes, TalksDo, ShakesDoes, EchoesDoes
  DEF Use, Does

-----------------------------------------------------------------------------
(* Who is at work for whom.  A client that waits for accept waits once, and  *)
(* nobody has its connection; the process that has accepted it is the only   *)
(* one for it until it has forked, and then there are two at most.  While a  *)
(* process of a client runs its side is open.                                *)
Serves(p, c) == proc[p].pc \notin {"none", "accept", "dead"} /\ proc[p].con = c
Queued(c) == \E i \in 1..Len(queue) : queue[i] = c

Crew(c) ==
    /\ \A p, q \in Procs : Serves(p, c) /\ At(p, "fork") /\ Serves(q, c) => p = q
    /\ \A p, q, r \in Procs :
         Serves(p, c) /\ Serves(q, c) /\ Serves(r, c) => p = q \/ q = r \/ p = r
Unmet(c) == MAt(c, "connect") \/ Queued(c) => \A p \in Procs : c \notin fds[p]
Comes(c) == MAt(c, "connect") => ~ Queued(c)
Open(c) == Live(c) => chan[c].end["c"] = "open"
InLine == \A i, j \in 1..Len(queue) : queue[i] = queue[j] => i = j
NoSelf == \A p \in Procs : proc[p].parent # p

Linked ==
    NoSelf /\ InLine /\ \A c \in Clients : Crew(c) /\ Unmet(c) /\ Comes(c) /\ Open(c)

(* Nobody has anybody at the start.                                          *)
LEMMA LinkedInit == Init => Linked
<1> SUFFICES ASSUME Init PROVE Linked
  OBVIOUS
<1>1. /\ queue = <<>> /\ Len(queue) = 0
      /\ \A p \in Procs : /\ fds[p] = {} /\ proc[p].pc \in {"none", "accept"}
                          /\ proc[p].parent = None
      /\ \A c \in Clients : chan[c].end["c"] = "open"
  BY DEF Init, Sides
<1>2. \A p \in Procs : p # None
  BY TalkAssumption
<1>3. \A c \in Clients : ~ Queued(c)
  BY <1>1 DEF Queued
<1> QED
  BY <1>1, <1>2, <1>3 DEF Linked, NoSelf, InLine, Crew, Serves, Unmet, Comes, Open

(* Nobody is accepted or forked, and the clients stay where they are: of     *)
(* processes, descriptors and queue there is only less than before.          *)
Fewer ==
    /\ queue' \in {queue, <<>>}
    /\ \A c \in Clients : /\ Live(c)' => Live(c)
                          /\ MAt(c, "connect")' => MAt(c, "connect")
                          /\ Live(c)' /\ chan[c].end["c"] = "open" => chan'[c].end["c"] = "open"
    /\ \A p \in Procs :
         /\ fds'[p] \subseteq fds[p] /\ proc'[p].parent = proc[p].parent
         /\ proc'[p].pc \notin {"none", "accept", "dead"} =>
              /\ proc[p].pc \notin {"none", "accept", "dead"}
              /\ proc'[p].con = proc[p].con
              /\ proc'[p].pc = "fork" => proc[p].pc = "fork"

(* With less of everything this stays true.                                  *)
LEMMA LinkedKeeps ==
    ASSUME Linked, Fewer
    PROVE  Linked'
<1>1. NoSelf'
  BY DEF Linked, NoSelf, Fewer
<1>2. InLine'
  <2>1. CASE queue' = queue
    BY <2>1 DEF Linked, InLine
  <2>2. CASE queue' = <<>>
    BY <2>2 DEF InLine
  <2> QED
    BY <2>1, <2>2 DEF Fewer
<1>3. ASSUME NEW c \in Clients
      PROVE  Crew(c)' /\ Unmet(c)' /\ Comes(c)' /\ Open(c)'
  <2>1. \A p \in Procs : /\ Serves(p, c)' => Serves(p, c)
                         /\ Serves(p, c)' /\ At(p, "fork")' => At(p, "fork")
    BY DEF Fewer, Serves, At
  <2>2. Queued(c)' => Queued(c)
    BY DEF Fewer, Queued
  <2>3. Crew(c)'
    BY <2>1 DEF Linked, Crew
  <2>4. Unmet(c)' /\ Comes(c)'
    BY <2>2 DEF Linked, Unmet, Comes, Fewer
  <2>5. Open(c)'
    BY DEF Linked, Open, Fewer
  <2> QED
    BY <2>3, <2>4, <2>5
<1> QED
  BY <1>1, <1>2, <1>3 DEF Linked

(* A step of a process that only goes on.                                    *)
LEMMA StepsFewer ==
    ASSUME IInv, NEW p \in Procs, NEW from, NEW to, Steps(p, from, to),
           from \notin {"none", "accept", "dead"}, to # "fork", UNCHANGED <<main, child>>,
           \A c \in Clients : chan[c].end["c"] = "open" => chan'[c].end["c"] = "open"
    PROVE  Fewer
BY DEF Fewer, Steps, Live, Kept, Running, MAt

(* One that ends a process.                                                  *)
LEMMA EndedFewer ==
    ASSUME IInv, NEW q \in Procs, NEW h, Ended(q, h), UNCHANGED <<main, child>>,
           \A c \in Clients : h[c].end = chan[c].end,
           \A r \in Procs \ {q} : \/ proc'[r] = proc[r]
                                  \/ /\ proc'[r].parent = proc[r].parent
                                     /\ proc'[r].pc = "accept"
    PROVE  Fewer
<1>1. fds' = [fds EXCEPT ![q] = {}] /\ fds \in [Procs -> SUBSET Clients]
  BY DEF Ended, IInv, TypeOK
<1> QED
  BY <1>1 DEF Fewer, Ended, Live, Kept, Running, MAt

(* What accept and fork do to the processes.                                 *)
Accepted(p, d) ==
    /\ proc[p].pc = "accept" /\ Queued(d) /\ queue # <<>> /\ d = queue[1]
    /\ queue' = Tail(queue) /\ chan' = chan /\ hist' = hist
    /\ proc'[p].pc = "fork" /\ proc'[p].con = d
    /\ proc'[p].rbuf = <<>> /\ proc'[p].parent = proc[p].parent
    /\ \A r \in Procs \ {p} : proc'[r] = proc[r]
    /\ fds'[p] = fds[p] \cup {d} /\ \A r \in Procs \ {p} : fds'[r] = fds[r]

(* Accept takes the first of the queue.                                      *)
LEMMA AcceptDoes ==
    ASSUME IInv, NEW p \in Procs, Accept(p)
    PROVE  \E d \in Clients : Accepted(p, d)
<1> DEFINE d == Head(queue)
<1>1. /\ proc \in [Procs -> Process] /\ fds \in [Procs -> SUBSET Clients]
      /\ queue \in Seq(Clients)
  BY DEF IInv, TypeOK
<1>2. /\ proc[p].pc = "accept" /\ queue # <<>> /\ queue' = Tail(queue) /\ chan' = chan
      /\ proc' = [proc EXCEPT ![p].pc = "fork", ![p].con = d]
      /\ fds' = [fds EXCEPT ![p] = @ \cup {d}]
      /\ hist' = hist /\ proc[p].rbuf = <<>>
  BY DEF Accept, At, IInv, Buffers
<1>3. d \in Clients /\ d = queue[1] /\ Queued(d)
  BY <1>1, <1>2 DEF Queued
<1> HIDE DEF d
<1>4. /\ proc'[p].pc = "fork" /\ proc'[p].con = d /\ proc'[p].parent = proc[p].parent
      /\ proc'[p].rbuf = <<>>
      /\ \A r \in Procs \ {p} : proc'[r] = proc[r]
  BY <1>1, <1>2 DEF Process
<1>5. /\ fds'[p] = fds[p] \cup {d} /\ \A r \in Procs \ {p} : fds'[r] = fds[r]
  BY <1>1, <1>2
<1> QED
  BY <1>2, <1>3, <1>4, <1>5 DEF Accepted

(* Fork copies a process with its connections.                               *)
LEMMA ForkDoes ==
    ASSUME IInv, NEW p \in Procs, NEW q \in Procs, Forked(p, q)
    PROVE  /\ proc[p].pc = "fork" /\ proc[q].pc = "none" /\ p # q
           /\ queue' = queue /\ chan' = chan /\ hist' = hist
           /\ proc'[p].pc = "hello" /\ proc'[p].con = proc[p].con
           /\ proc'[p].parent = proc[p].parent
           /\ proc'[q].pc = "hello" /\ proc'[q].con = proc[p].con /\ proc'[q].parent = p
           /\ \A r \in Procs \ {p, q} : proc'[r] = proc[r]
           /\ fds'[q] = fds[p] /\ \A r \in Procs \ {q} : fds'[r] = fds[r]
<1>1. proc \in [Procs -> Process] /\ fds \in [Procs -> SUBSET Clients]
  BY DEF IInv, TypeOK
<1>2. /\ proc[p].pc = "fork" /\ proc[q].pc = "none" /\ p # q
      /\ queue' = queue /\ chan' = chan /\ hist' = hist
      /\ proc' = [proc EXCEPT ![p].pc = "hello",
                              ![q] = [proc[p] EXCEPT !.pc = "hello", !.parent = p]]
      /\ fds' = [fds EXCEPT ![q] = fds[p]]
  BY DEF Forked, ForkTwo, At
<1>3. /\ proc'[p].pc = "hello" /\ proc'[p].con = proc[p].con
      /\ proc'[p].parent = proc[p].parent
      /\ proc'[q].pc = "hello" /\ proc'[q].con = proc[p].con /\ proc'[q].parent = p
      /\ \A r \in Procs \ {p, q} : proc'[r] = proc[r]
  BY <1>1, <1>2 DEF Process
<1>4. fds'[q] = fds[p] /\ \A r \in Procs \ {q} : fds'[r] = fds[r]
  BY <1>1, <1>2
<1> QED
  BY <1>2, <1>3, <1>4

(* Hence every step of the server,                                           *)
LEMMA LinkedServe ==
    ASSUME IInv, Linked, NEW p \in Procs, Serve(p)
    PROVE  Linked'
<1>1. UNCHANGED <<main, child>>
  BY DEF Serve
<1>2. /\ proc \in [Procs -> Process] /\ fds \in [Procs -> SUBSET Clients]
      /\ queue \in Seq(Clients)
      /\ \A r \in Procs : proc[r].pc \notin {"none", "accept", "dead"} =>
           proc[r].con \in fds[r]
  BY DEF IInv, TypeOK
<1>3. CASE Accept(p)
  <2>0. PICK d \in Clients : Accepted(p, d)
    BY <1>3, AcceptDoes
  <2>1. queue # <<>> /\ queue' = Tail(queue) /\ chan' = chan
    BY <2>0 DEF Accepted
  <2>2. d = queue[1] /\ Queued(d)
    BY <2>0 DEF Accepted
  <2>3. /\ proc'[p].pc = "fork" /\ proc'[p].con = d /\ proc'[p].parent = proc[p].parent
        /\ \A r \in Procs \ {p} : proc'[r] = proc[r]
    BY <2>0 DEF Accepted
  <2>4. /\ fds'[p] = fds[p] \cup {d} /\ \A r \in Procs \ {p} : fds'[r] = fds[r]
    BY <2>0 DEF Accepted
  <2>5. NoSelf'
    BY <2>3 DEF Linked, NoSelf
  <2>6. /\ Len(queue') = Len(queue) - 1 /\ Len(queue) \in Nat /\ Len(queue) > 0
        /\ \A i \in 1..Len(queue') : queue'[i] = queue[i + 1]
    BY <1>2, <2>1
  <2>7. InLine'
    <3> SUFFICES ASSUME NEW i \in 1..Len(queue'), NEW j \in 1..Len(queue'),
                        queue'[i] = queue'[j]
                 PROVE  i = j
      BY DEF InLine
    <3>1. /\ i + 1 \in 1..Len(queue) /\ j + 1 \in 1..Len(queue)
          /\ queue[i + 1] = queue[j + 1]
      BY <2>6
    <3>2. i + 1 = j + 1
      BY <3>1 DEF Linked, InLine
    <3> QED
      BY <3>2
  <2>8. ASSUME NEW c \in Clients, Queued(c)' PROVE Queued(c) /\ c # d
    <3>1. PICK i \in 1..Len(queue') : queue'[i] = c
      BY <2>8 DEF Queued
    <3>2. i + 1 \in 1..Len(queue) /\ 1 \in 1..Len(queue) /\ i + 1 # 1 /\ queue[i + 1] = c
      BY <2>6, <3>1
    <3>3. queue[i + 1] # queue[1]
      BY <3>2 DEF Linked, InLine
    <3> QED
      BY <2>2, <3>2, <3>3 DEF Queued
  <2>9. ASSUME NEW c \in Clients
        PROVE  Crew(c)' /\ Unmet(c)' /\ Comes(c)' /\ Open(c)'
    <3>1. Open(c)' /\ Comes(c)'
      BY <1>1, <2>1, <2>8 DEF Linked, Open, Comes, Live, Kept, Running, MAt
    <3>2. ~ MAt(d, "connect")
      BY <2>2 DEF Linked, Comes
    <3>3. Unmet(c)'
      BY <1>1, <2>4, <2>8, <3>2 DEF Linked, Unmet, MAt
    <3>4. \A r \in Procs : c = d => ~ Serves(r, c)
      BY <1>2, <2>2 DEF Linked, Unmet, Serves
    <3>5. \A r \in Procs \ {p} : /\ Serves(r, c)' <=> Serves(r, c)
                                 /\ At(r, "fork")' <=> At(r, "fork")
      BY <2>3 DEF Serves, At
    <3>6. Serves(p, c)' => c = d
      BY <2>3 DEF Serves
    <3>7. Crew(c)'
      BY <3>4, <3>5, <3>6 DEF Linked, Crew
    <3> QED
      BY <3>1, <3>3, <3>7
  <2> QED
    BY <2>5, <2>7, <2>9 DEF Linked
<1>4. ASSUME NEW q \in Procs, Forked(p, q) PROVE Linked'
  <2>1. proc[p].pc = "fork" /\ proc[q].pc = "none" /\ p # q /\ queue' = queue /\ chan' = chan
    BY <1>4, ForkDoes
  <2>2. /\ proc'[p].pc = "hello" /\ proc'[p].con = proc[p].con
        /\ proc'[p].parent = proc[p].parent
        /\ proc'[q].pc = "hello" /\ proc'[q].con = proc[p].con /\ proc'[q].parent = p
        /\ \A r \in Procs \ {p, q} : proc'[r] = proc[r]
    BY <1>4, ForkDoes
  <2>3. fds'[q] = fds[p] /\ \A r \in Procs \ {q} : fds'[r] = fds[r]
    BY <1>4, ForkDoes
  <2>4. NoSelf'
    BY <2>1, <2>2 DEF Linked, NoSelf
  <2>6. InLine'
    BY <2>1 DEF Linked, InLine
  <2>5. ASSUME NEW c \in Clients
        PROVE  Crew(c)' /\ Unmet(c)' /\ Comes(c)' /\ Open(c)'
    <3>1. Unmet(c)' /\ Comes(c)' /\ Open(c)'
      BY <1>1, <2>1, <2>3 DEF Linked, Unmet, Comes, Open, Queued, MAt, Live, Kept, Running
    <3>2. Serves(p, proc[p].con) /\ At(p, "fork")
      BY <2>1 DEF Serves, At
    <3>3. c = proc[p].con => \A r \in Procs : Serves(r, c)' => r \in {p, q}
      BY <2>2, <3>2 DEF Linked, Crew, Serves
    <3>4. c # proc[p].con => \A r \in Procs : Serves(r, c)' => Serves(r, c) /\ r \notin {p, q}
      BY <2>2 DEF Serves
    <3>5. \A r \in Procs : At(r, "fork")' => At(r, "fork") /\ r \notin {p, q}
      BY <2>2 DEF At
    <3>6. Crew(c)'
      BY <3>3, <3>4, <3>5 DEF Linked, Crew
    <3> QED
      BY <3>1, <3>6
  <2> QED
    BY <2>4, <2>5, <2>6 DEF Linked
<1>5. CASE Forgot(p) \/ KillsNobody(p)
  <2>1. Fewer
    BY <1>1, <1>5, StepsFewer DEF Forgot, KillsNobody
  <2> QED
    BY <2>1, LinkedKeeps
<1>6. ASSUME NEW c \in Clients, Serving(p, c) PROVE Linked'
  <2>1. CASE \E j \in 1..Len(chan[c].in["s"]) :
               Shook(p, c, j) \/ ReadQuit(p, c, j) \/ ReadLine(p, c, j)
    <3>1. \A d \in Clients : chan'[d].end = chan[d].end
      BY <2>1 DEF Shook, ReadQuit, ReadLine, Takes
    <3>2. Fewer
      BY <1>1, <2>1, <3>1, StepsFewer DEF Shook, ReadQuit, ReadLine
    <3> QED
      BY <3>2, LinkedKeeps
  <2>2. ASSUME NEW j, NEW h, TurnedAway(p, c, j, h) PROVE Linked'
    <3>1. Fewer
      BY <1>1, <2>2, EndedFewer DEF TurnedAway
    <3> QED
      BY <3>1, LinkedKeeps
  <2>3. CASE SaidHi(p, c) \/ WroteBack(p, c)
    <3>1. \A d \in Clients : chan[d].end["c"] = "open" => chan'[d].end["c"] = "open"
      BY <2>3 DEF SaidHi, WroteBack, Puts
    <3>2. Fewer
      BY <1>1, <2>3, <3>1, StepsFewer DEF SaidHi, WroteBack
    <3> QED
      BY <3>2, LinkedKeeps
  <2>4. CASE Deserted(p, c)
    <3>1. Fewer
      BY <1>1, <2>4, EndedFewer DEF Deserted
    <3> QED
      BY <3>1, LinkedKeeps
  <2> QED
    BY <1>6, <2>1, <2>2, <2>3, <2>4 DEF Serving
<1>7. ASSUME NEW q \in Procs, KillsParent(p, q) PROVE Linked'
  <2>1. Fewer
    BY <1>1, <1>7, EndedFewer DEF KillsParent
  <2> QED
    BY <2>1, LinkedKeeps
<1> QED
  BY <1>3, <1>4, <1>5, <1>6, <1>7, ServeDoes

(* and of a client, who enters the queue once,                               *)
LEMMA LinkedUse ==
    ASSUME IInv, Linked, NEW c \in Clients, Use(c) \/ Crash(c)
    PROVE  Linked'
<1>1. Using(c) /\ Others(c) /\ UNCHANGED <<proc, fds>>
  BY UseDoes
<1>2. CASE queue' = queue
  <2>0. ASSUME Left(c)
        PROVE  /\ ~ MAt(c, "connect")' /\ (Live(c)' => Live(c))
               /\ Live(c)' => chan'[c] = chan[c]
    <3>1. ~ MAt(c, "connect")' /\ ~ Running(c)'
      BY <2>0 DEF Left, Running, MAt
    <3>2. Kept(c)' => Kept(c) /\ chan'[c] = chan[c]
      BY <2>0 DEF Left, KidSame, Kept
    <3> QED
      BY <3>1, <3>2 DEF Live
  <2>1. /\ Live(c)' => Live(c)
        /\ MAt(c, "connect")' => MAt(c, "connect")
        /\ Live(c)' /\ chan[c].end["c"] = "open" => chan'[c].end["c"] = "open"
    BY <1>1, <2>0 DEF Using, Spoke, Says, Heard, Received, Onward, Unanswered, Dialled, KidSame,
                KidShook, KidRead, KidPut, KidGone, Turns, Live, Kept, Running, MAt
  <2>2. \A d \in Clients \ {c} : /\ main'[d] = main[d] /\ chan'[d] = chan[d]
                                 /\ child'[d] = child[d]
    BY <1>1 DEF Others
  <2>3. Fewer
    BY <1>1, <1>2, <2>1, <2>2 DEF Fewer, Live, Kept, Running, MAt
  <2> QED
    BY <2>3, LinkedKeeps
<1>3. CASE Dialled(c)
  <2>1. /\ main[c].pc = "connect" /\ main'[c].pc = "fork" /\ chan'[c] = chan[c]
        /\ queue' = Append(queue, c) /\ queue \in Seq(Clients)
        /\ child'[c] = child[c]
        /\ \A d \in Clients \ {c} : /\ main'[d] = main[d] /\ chan'[d] = chan[d]
                                   /\ child'[d] = child[d]
    BY <1>1, <1>3 DEF Dialled, Turns, KidSame, Others, IInv, TypeOK
  <2>2. /\ Len(queue') = Len(queue) + 1 /\ Len(queue) \in Nat
        /\ queue'[Len(queue) + 1] = c
        /\ \A i \in 1..Len(queue) : queue'[i] = queue[i]
        /\ \A i \in 1..Len(queue') : i \in 1..Len(queue) \/ i = Len(queue) + 1
    BY <2>1
  <2>3. \A i \in 1..Len(queue) : queue[i] # c
    BY <2>1 DEF Linked, Comes, MAt, Queued
  <2>4. InLine'
    <3> SUFFICES ASSUME NEW i \in 1..Len(queue'), NEW j \in 1..Len(queue'),
                        queue'[i] = queue'[j]
                 PROVE  i = j
      BY DEF InLine
    <3> QED
      BY <2>2, <2>3 DEF Linked, InLine
  <2>5. NoSelf'
    BY <1>1 DEF Linked, NoSelf
  <2>6. \A d \in Clients : Queued(d)' => Queued(d) \/ d = c
    BY <2>2 DEF Queued
  <2>7. ASSUME NEW d \in Clients
        PROVE  Crew(d)' /\ Unmet(d)' /\ Comes(d)' /\ Open(d)'
    <3>1. Crew(d)'
      BY <1>1 DEF Linked, Crew, Serves, At
    <3>2. Unmet(d)'
      BY <1>1, <2>1, <2>6 DEF Linked, Unmet, MAt
    <3>3. Comes(d)'
      BY <2>1, <2>6 DEF Linked, Comes, MAt
    <3>4. Open(d)'
      BY <2>1 DEF Linked, Open, Live, Kept, Running
    <3> QED
      BY <3>1, <3>2, <3>3, <3>4
  <2> QED
    BY <2>4, <2>5, <2>7 DEF Linked
<1> QED
  BY <1>1, <1>2, <1>3 DEF Using, Left

(* keeps this.                                                               *)
LEMMA LinkedStep == IInv /\ Linked /\ [Next]_vars => Linked'
<1> SUFFICES ASSUME IInv, Linked, [Next]_vars PROVE Linked'
  OBVIOUS
<1>1. CASE UNCHANGED vars
  <2>1. Fewer
    BY <1>1 DEF vars, Fewer, Live, Kept, Running, MAt
  <2> QED
    BY <2>1, LinkedKeeps
<1> QED
  BY <1>1, LinkedServe, LinkedUse DEF Next

(* So it is always true.                                                     *)
LEMMA LinkedAlways == Spec => [](IInv /\ Linked)
BY InitInv, LinkedInit, StepInv, LinkedStep, PTL DEF Spec

(* A process that talks to a client ends only when a call on the connection  *)
(* fails, which needs the client gone, or with the signal of a process it    *)
(* has forked (the kill of do_socket, TCPEchoServer.c).                      *)
THEOREM DeathsByQuit == Spec => DeathsExplained
<1>1. ASSUME IInv, Linked, [Next]_vars, NEW p \in Procs,
             proc[p].pc \in {"hi", "read", "write"}, proc'[p].pc = "dead"
      PROVE  ~ Running(proc[p].con) \/ \E q \in Procs : At(q, "kill") /\ proc[q].parent = p
  <2>1. PICK r \in Procs : Serve(r)
    <3>1. proc' # proc
      BY <1>1
    <3> QED
      BY <1>1, <3>1, UseDoes DEF Next, vars
  <2>2. ~ Accept(r)
    BY <1>1, AcceptDoes DEF Accepted
  <2>3. \A q \in Procs : ~ Forked(r, q)
    BY <1>1, ForkDoes
  <2>6. ~ Forgot(r) /\ ~ KillsNobody(r)
    BY <1>1 DEF Forgot, KillsNobody, Steps
  <2>4. ASSUME NEW q \in Procs, KillsParent(r, q)
        PROVE  At(r, "kill") /\ proc[r].parent = p
    BY <1>1, <2>4 DEF KillsParent
  <2>5. ASSUME proc[r].con \in Clients, Serving(r, proc[r].con) PROVE ~ Running(proc[p].con)
    <3>1. Deserted(r, proc[r].con) /\ r = p
      BY <1>1, <2>5 DEF Serving, Shook, ReadQuit, ReadLine, TurnedAway, SaidHi, WroteBack,
                        Deserted, Steps, At
    <3> QED
      BY <1>1, <2>5, <3>1 DEF Deserted, Linked, Open, Live
  <2> QED
    BY <1>1, <2>1, <2>2, <2>3, <2>4, <2>5, <2>6, ServeDoes
<1>2. IInv /\ Linked /\ [Next]_vars =>
        [\A p \in Procs :
           proc[p].pc \in {"hi", "read", "write"} /\ proc'[p].pc = "dead" =>
             \/ ~ Running(proc[p].con)
             \/ \E q \in Procs : At(q, "kill") /\ proc[q].parent = p]_vars
  BY <1>1
<1> QED
  BY <1>2, LinkedAlways, PTL DEF Spec, DeathsExplained

-----------------------------------------------------------------------------
(* What a client that has not gone sees of a step of the server: it concerns *)
(* somebody else, or                                                         *)
Bystander(c) ==
    /\ chan'[c] = chan[c] /\ hist'[c].hands = hist[c].hands
    /\ \A r \in Engaged(c)' : r \in Engaged(c) /\ proc'[r] = proc[r]

(* its own process does something on its connection.                         *)
Attended(p, c) ==
    \/ \E j \in 1..Len(chan[c].in["s"]) :
         \/ Shook(p, c, j) \/ ReadQuit(p, c, j) \/ ReadLine(p, c, j)
         \/ /\ chan'[c].in["s"] = SubSeq(chan[c].in["s"], j + 1, Len(chan[c].in["s"]))
            /\ chan'[c].in["c"] = chan[c].in["c"] /\ chan'[c].end = chan[c].end
            /\ Hands(c, 0)
            /\ At(p, "hello") /\ Head(chan[c].in["s"]).t # "hello"
            /\ \A r \in Engaged(c)' : r \in Engaged(c) /\ proc'[r] = proc[r]
    \/ SaidHi(p, c) \/ WroteBack(p, c)

(* A step that leaves connection and handshakes alone is somebody else's.    *)
LEMMA StepsBy ==
    ASSUME NEW p \in Procs, NEW from, NEW to, Steps(p, from, to), NEW c,
           chan'[c] = chan[c], hist'[c].hands = hist[c].hands,
           proc[p].con # c \/ to \notin {"hi", "read", "write", "kill"}
    PROVE  Bystander(c)
BY DEF Steps, Bystander, Engaged

(* It is one or the other.                                                   *)
LEMMA ServedSees ==
    ASSUME IInv, Linked, NEW p \in Procs, Serve(p), NEW c \in Clients, Held(c)'
    PROVE  /\ Held(c) /\ chan[c].end["c"] = "open" /\ UNCHANGED <<main, child, rbuf>>
           /\ Bystander(c) \/ (proc[p].con = c /\ Attended(p, c))
<1>1. UNCHANGED <<main, child, rbuf>> /\ Live(c) /\ chan'[c].end["s"] = "open"
  BY DEF Serve, Held, Live, Kept, Running
<1>2. chan[c].end["c"] = "open"
  BY <1>1 DEF Linked, Open
<1>3. hist \in [Clients -> [lost : SUBSET Nat, hands : Nat]]
  BY DEF IInv, TypeOK, History
<1> SUFFICES chan[c].end["s"] = "open" /\ (Bystander(c) \/ (proc[p].con = c /\ Attended(p, c)))
  BY <1>1, <1>2 DEF Held
<1>4. CASE Accept(p)
  <2>1. PICK d \in Clients : Accepted(p, d)
    BY <1>4, AcceptDoes
  <2> QED
    BY <1>1, <2>1 DEF Accepted, Bystander, Engaged
<1>5. ASSUME NEW q \in Procs, Forked(p, q)
      PROVE  chan[c].end["s"] = "open" /\ Bystander(c)
  <2>1. /\ proc'[p].pc = "hello" /\ proc'[q].pc = "hello" /\ chan' = chan /\ hist' = hist
        /\ \A r \in Procs \ {p, q} : proc'[r] = proc[r]
    BY <1>5, ForkDoes
  <2> QED
    BY <1>1, <2>1 DEF Bystander, Engaged
<1>6. CASE Forgot(p) \/ KillsNobody(p)
  BY <1>1, <1>6, StepsBy DEF Forgot, KillsNobody
<1>7. ASSUME NEW q \in Procs, KillsParent(p, q)
      PROVE  chan[c].end["s"] = "open" /\ Bystander(c)
  BY <1>1, <1>7 DEF KillsParent, Ended, Bystander, Engaged
<1>8. ASSUME NEW d \in Clients, d = proc[p].con, Serving(p, d)
      PROVE  chan[c].end["s"] = "open" /\ (Bystander(c) \/ (d = c /\ Attended(p, c)))
  <2>1. CASE \E j \in 1..Len(chan[d].in["s"]) :
               Shook(p, d, j) \/ ReadQuit(p, d, j) \/ ReadLine(p, d, j)
    <3>1. PICK j \in 1..Len(chan[d].in["s"]) :
               Shook(p, d, j) \/ ReadQuit(p, d, j) \/ ReadLine(p, d, j)
      BY <2>1
    <3>2. chan'[c].end = chan[c].end
      BY <3>1 DEF Shook, ReadQuit, ReadLine, Takes
    <3>3. d # c => chan'[c] = chan[c] /\ hist'[c].hands = hist[c].hands
      BY <3>1 DEF Shook, ReadQuit, ReadLine, Takes, Hands
    <3>4. d # c => Bystander(c)
      BY <1>8, <3>1, <3>3, StepsBy DEF Shook, ReadQuit, ReadLine
    <3> QED
      BY <1>1, <3>1, <3>2, <3>4 DEF Attended
  <2>2. ASSUME NEW j \in 1..Len(chan[d].in["s"]), NEW h, TurnedAway(p, d, j, h)
        PROVE  chan[c].end["s"] = "open" /\ (Bystander(c) \/ (d = c /\ Attended(p, c)))
    <3>1. chan'[c] = h[c] /\ h[c].end = chan[c].end
      BY <1>1, <2>2 DEF TurnedAway, Ended
    <3>2. \A r \in Engaged(c)' : r \in Engaged(c) /\ proc'[r] = proc[r]
      BY <2>2 DEF TurnedAway, Ended, Engaged
    <3>3. CASE d # c
      BY <1>1, <1>3, <2>2, <3>1, <3>2, <3>3 DEF TurnedAway, Hands, Bystander
    <3>4. CASE d = c
      <4>1. /\ chan'[c].in["s"] = SubSeq(chan[c].in["s"], j + 1, Len(chan[c].in["s"]))
            /\ chan'[c].in["c"] = chan[c].in["c"] /\ chan'[c].end = chan[c].end
            /\ Hands(c, 0) /\ At(p, "hello") /\ Head(chan[c].in["s"]).t # "hello"
        BY <2>2, <3>1, <3>4 DEF TurnedAway
      <4> QED
        BY <1>1, <2>2, <3>1, <3>2, <3>4, <4>1 DEF Attended
    <3> QED
      BY <3>3, <3>4
  <2>3. CASE SaidHi(p, d) \/ WroteBack(p, d)
    <3>1. chan'[c].end["s"] = "open" => chan[c].end["s"] = "open"
      BY <2>3 DEF SaidHi, WroteBack, Puts
    <3>2. d # c => chan'[c] = chan[c] /\ hist'[c].hands = hist[c].hands
      BY <2>3 DEF SaidHi, WroteBack, Puts, Hands
    <3>3. d # c => Bystander(c)
      BY <1>8, <2>3, <3>2, StepsBy DEF SaidHi, WroteBack
    <3> QED
      BY <1>1, <2>3, <3>1, <3>3 DEF Attended
  <2>4. CASE Deserted(p, d)
    <3>1. d # c
      BY <1>2, <2>4 DEF Deserted
    <3>2. chan'[c] = chan[c]
      BY <1>1, <2>4 DEF Deserted, Ended
    <3> QED
      BY <1>1, <1>3, <2>4, <3>1, <3>2 DEF Deserted, Ended, Hands, Bystander, Engaged
  <2> QED
    BY <1>8, <2>1, <2>2, <2>3, <2>4 DEF Serving
<1> QED
  BY <1>4, <1>5, <1>6, <1>7, <1>8, ServeDoes

-----------------------------------------------------------------------------
(* How many answers a client has coming.  A process that is to say hi, or to *)
(* write what it has read, is one answer, or as many as it has read, and so  *)
(* is the client's child; and of answers and of lines on their way there are *)
(* not more than the client looks out for: none before it has sent its first *)
(* line, two after each line it waits for, one in between, and one less if   *)
(* its child still lives, since then that has sent no line.                  *)
Weight(p, c) ==
    IF p \notin Engaged(c) THEN 0 ELSE IF At(p, "hi") THEN 1 ELSE Len(proc[p].rbuf)
Coming(c) == Len(out(c))
Going(c) == Len(chan[c].in["s"])
Inside(c) == IF child[c] = "hi" THEN 1 ELSE Len(rbuf[c])
Way(c) == Coming(c) + Going(c) + Inside(c)
Most(pc, kept) ==
    IF pc \in {"connect", "fork", "key"} \/ (kept /\ pc \in {"hello", "prompt"}) THEN 0
    ELSE IF ~ kept /\ pc \in {"hi", "recv"} THEN 2 ELSE 1
limit(c) == Most(main[c].pc, Kept(c))
Upto(c) ==
    /\ \A p \in Procs : Way(c) + Weight(p, c) <= limit(c)
    /\ \A p, q \in Procs :
         p # q => Way(c) + Weight(p, c) + Weight(q, c) <= limit(c)

(* That is so once a process has shaken hands with it; before, the quits it  *)
(* has typed first are on their way as well, each of which turns a process   *)
(* away.                                                                     *)
ButQuits(us, k) == \A i \in 1..Len(us) : us[i].t = "quit" \/ i > Len(us) - k
Unshaken(c) ==
    /\ main[c].pc \notin {"prompt", "recv"}
    /\ out(c) = <<>> /\ Engaged(c) = {}
    /\ child[c] \in {"none", "hello", "dead"}
    /\ ButQuits(chan[c].in["s"], limit(c))
Shaken(c) == main[c].pc \notin {"connect", "fork", "key"} /\ Upto(c)
Expects(c) == Held(c) =>
    /\ Unshaken(c) \/ Shaken(c)
    /\ MAt(c, "recv") => main[c].sent > 0 /\ main[c].sent \notin main[c].got

(* These are numbers.                                                        *)
LEMMA Weights ==
    ASSUME IInv, NEW c \in Clients
    PROVE  /\ Way(c) \in Nat /\ out(c) \in Seq(Unit) /\ chan[c].in["s"] \in Seq(Unit)
           /\ Coming(c) \in Nat /\ Going(c) \in Nat /\ Inside(c) \in Nat
           /\ \A p \in Procs : Weight(p, c) \in Nat /\ proc[p].rbuf \in Seq(Unit)
<1>1. /\ chan[c].in["c"] \in Seq(Unit) /\ chan[c].in["s"] \in Seq(Unit)
      /\ \A p \in Procs : proc[p].rbuf \in Seq(Unit)
  BY DEF IInv, TypeOK, Sides, Process
<1>0. rbuf[c] \in Seq(Unit)
  BY DEF IInv, TypeOK
<1>2. /\ Len(chan[c].in["c"]) \in Nat /\ Len(chan[c].in["s"]) \in Nat
      /\ \A p \in Procs : Len(proc[p].rbuf) \in Nat
  BY <1>1
<1>5. Inside(c) \in Nat
  <2>1. Len(rbuf[c]) \in Nat
    BY <1>0
  <2> QED
    BY <2>1 DEF Inside
<1>3. Way(c) \in Nat
  <2>1. Coming(c) \in Nat /\ Going(c) \in Nat
    BY <1>2 DEF Coming, Going, out
  <2> QED
    BY <1>5, <2>1 DEF Way
<1>4. \A p \in Procs : Weight(p, c) \in Nat
  BY <1>2 DEF Weight
<1> QED
  BY <1>1, <1>2, <1>3, <1>4, <1>5 DEF out, Coming, Going

(* Also after a step.                                                        *)
LEMMA WeightsNext ==
    ASSUME IInv', NEW c \in Clients
    PROVE  Way(c)' \in Nat /\ \A p \in Procs : Weight(p, c)' \in Nat
<1>1. /\ chan'[c].in["c"] \in Seq(Unit) /\ chan'[c].in["s"] \in Seq(Unit)
      /\ \A p \in Procs : proc'[p].rbuf \in Seq(Unit)
  BY DEF IInv, TypeOK, Sides, Process
<1>0. rbuf'[c] \in Seq(Unit)
  BY DEF IInv, TypeOK
<1>2. /\ Len(chan'[c].in["c"]) \in Nat /\ Len(chan'[c].in["s"]) \in Nat
      /\ \A p \in Procs : Len(proc'[p].rbuf) \in Nat
  BY <1>1
<1>5. Inside(c)' \in Nat
  <2>1. Len(rbuf'[c]) \in Nat
    BY <1>0
  <2> QED
    BY <2>1 DEF Inside
<1>3. Way(c)' \in Nat
  <2>1. Coming(c)' \in Nat /\ Going(c)' \in Nat
    BY <1>2 DEF Coming, Going, out
  <2> QED
    BY <1>5, <2>1 DEF Way
<1>4. \A p \in Procs : Weight(p, c)' \in Nat
  BY <1>2 DEF Weight
<1> QED
  BY <1>3, <1>4

(* So is what a client looks out for.                                        *)
LEMMA Mosts ==
    ASSUME NEW c
    PROVE  limit(c) \in Nat /\ limit(c)' \in Nat
BY DEF Most, limit

(* Nobody has more to do, and the client looks out for as much more as there *)
(* is more on its way.                                                       *)
LEMMA Lighter ==
    ASSUME IInv, IInv', NEW c \in Clients, Upto(c),
           \A r \in Procs : Weight(r, c)' <= Weight(r, c),
           Way(c)' + limit(c) <= Way(c) + limit(c)'
    PROVE  Upto(c)'
<1>1. /\ Way(c) \in Nat /\ Way(c)' \in Nat
      /\ \A r \in Procs : Weight(r, c) \in Nat /\ Weight(r, c)' \in Nat
      /\ limit(c) \in Nat /\ limit(c)' \in Nat
  BY Weights, WeightsNext, Mosts
<1>2. \A p \in Procs : Way(c)' + Weight(p, c)' <= limit(c)'
  BY <1>1 DEF Upto
<1>3. \A p, q \in Procs :
        p # q => Way(c)' + Weight(p, c)' + Weight(q, c)' <= limit(c)'
  BY <1>1 DEF Upto
<1> QED
  BY <1>2, <1>3 DEF Upto

(* One process turns what is on its way into what it has to do, or the other *)
(* way round.                                                                *)
LEMMA Balance ==
    ASSUME IInv, IInv', NEW c \in Clients, Upto(c), Crew(c), limit(c)' = limit(c),
           NEW p \in Procs, Serves(p, c),
           \A r \in Procs \ {p} : Weight(r, c)' <= Weight(r, c),
           Way(c)' + Weight(p, c)' <= Way(c) + Weight(p, c)
    PROVE  Upto(c)'
<1>1. /\ Way(c) \in Nat /\ Way(c)' \in Nat
      /\ \A r \in Procs : Weight(r, c) \in Nat /\ Weight(r, c)' \in Nat
      /\ limit(c) \in Nat
  BY Weights, WeightsNext, Mosts
<1>2. \A q \in Procs : Way(c)' + Weight(q, c)' <= limit(c)
  BY <1>1 DEF Upto
<1>3. ASSUME NEW q \in Procs, NEW r \in Procs, q # r
      PROVE  Way(c)' + Weight(q, c)' + Weight(r, c)' <= limit(c)
  <2>1. CASE q = p \/ r = p
    BY <1>1, <1>3, <2>1 DEF Upto
  <2>2. CASE q # p /\ r # p
    <3>1. Weight(q, c) = 0 \/ Weight(r, c) = 0
      BY <1>3, <2>2 DEF Crew, Serves, Weight, Engaged
    <3>2. Weight(q, c)' = 0 \/ Weight(r, c)' = 0
      BY <1>1, <2>2, <3>1
    <3> QED
      BY <1>1, <1>2, <3>2
  <2> QED
    BY <2>1, <2>2
<1> QED
  BY <1>2, <1>3 DEF Upto

(* What is taken from the front of a stream leaves quits and one more line   *)
(* in front of the end.                                                      *)
LEMMA QuitsTaken ==
    ASSUME NEW us \in Seq(Unit), NEW j \in 0..Len(us), NEW k \in Nat, ButQuits(us, k)
    PROVE  ButQuits(SubSeq(us, j + 1, Len(us)), k)
<1> DEFINE b == SubSeq(us, j + 1, Len(us))
<1>1. Len(b) = Len(us) - j /\ Len(us) \in Nat /\ j \in Nat
      /\ \A i \in 1..Len(b) : b[i] = us[i + j]
  OBVIOUS
<1> HIDE DEF b
<1>2. ASSUME NEW i \in 1..Len(b) PROVE b[i].t = "quit" \/ i > Len(b) - k
  <2>1. i + j \in 1..Len(us) /\ b[i] = us[i + j]
    BY <1>1
  <2>2. us[i + j].t = "quit" \/ i + j > Len(us) - k
    BY <2>1 DEF ButQuits
  <2> QED
    BY <1>1, <2>1, <2>2
<1> QED
  BY <1>2 DEF ButQuits, b

(* A line more: the last ones are allowed to be one more, or it is a quit.   *)
LEMMA QuitsMore ==
    ASSUME NEW us \in Seq(Unit), NEW u \in Unit, NEW k \in Nat, NEW m \in Nat,
           ButQuits(us, k), m = k + 1 \/ (m = k /\ k = 0 /\ u.t = "quit")
    PROVE  ButQuits(us \o <<u>>, m)
<1> DEFINE v == us \o <<u>>
<1>1. /\ Len(v) = Len(us) + 1 /\ Len(us) \in Nat /\ v[Len(us) + 1] = u
      /\ \A i \in 1..Len(us) : v[i] = us[i]
  OBVIOUS
<1> HIDE DEF v
<1>2. ASSUME NEW i \in 1..Len(v) PROVE v[i].t = "quit" \/ i > Len(v) - m
  <2>1. CASE i \in 1..Len(us)
    <3>1. us[i].t = "quit" \/ i > Len(us) - k
      BY <2>1 DEF ButQuits
    <3> QED
      BY <1>1, <2>1, <3>1
  <2>2. CASE i = Len(us) + 1
    BY <1>1, <2>2
  <2> QED
    BY <1>1, <2>1, <2>2
<1> QED
  BY <1>2 DEF ButQuits, v

(* A step that is somebody else's weighs nothing.                            *)
LEMMA NotHeavier ==
    ASSUME IInv, IInv', NEW c \in Clients, NEW r \in Procs,
           r \in Engaged(c)' => r \in Engaged(c) /\ proc'[r] = proc[r]
    PROVE  Weight(r, c)' <= Weight(r, c)
<1>1. Weight(r, c) \in Nat /\ Weight(r, c)' \in Nat
  BY Weights, WeightsNext
<1>2. CASE r \in Engaged(c)'
  <2>1. Weight(r, c)' = Weight(r, c)
    BY <1>2 DEF Weight, At
  <2> QED
    BY <1>1, <2>1
<1>3. CASE ~ (r \in Engaged(c)')
  <2>1. Weight(r, c)' = 0
    BY <1>3 DEF Weight
  <2> QED
    BY <1>1, <2>1
<1> QED
  BY <1>2, <1>3

(* The lengths of what is on its way, after a part of it was received.       *)
LEMMA WayTaken ==
    ASSUME IInv, NEW c \in Clients, NEW j \in 1..Len(chan[c].in["s"]),
           chan'[c].in["s"] = SubSeq(chan[c].in["s"], j + 1, Len(chan[c].in["s"])),
           chan'[c].in["c"] = chan[c].in["c"], KidSame(c)
    PROVE  Way(c)' = Way(c) - j /\ out(c)' = out(c)
<1>1. chan[c].in["s"] \in Seq(Unit) /\ chan[c].in["c"] \in Seq(Unit)
  BY Weights DEF out
<1>2. Len(chan'[c].in["s"]) = Len(chan[c].in["s"]) - j
  BY <1>1
<1>3. out(c)' = out(c) /\ Coming(c)' = Coming(c)
  BY DEF Coming, out
<1>4. Going(c)' = Going(c) - j
  BY <1>2 DEF Going
<1>5. Coming(c) \in Nat /\ Going(c) \in Nat /\ j \in Nat
  BY <1>1 DEF Coming, Going, out
<1>6. Inside(c)' = Inside(c) /\ Inside(c) \in Nat
  BY Weights DEF Inside, KidSame
<1> QED
  BY <1>3, <1>4, <1>5, <1>6 DEF Way

(* What its own process does for a client that is served.                    *)
LEMMA ExpectsAttended ==
    ASSUME IInv, IInv', NEW c \in Clients, Crew(c), UNCHANGED <<main, child, rbuf>>, NEW p \in Procs,
           Serves(p, c), chan[c].end["c"] = "open",
           Unshaken(c) \/ Shaken(c), Attended(p, c)
    PROVE  Unshaken(c)' \/ Shaken(c)'
<1> DEFINE us == chan[c].in["s"]
<1>0. KidSame(c) /\ limit(c)' = limit(c) /\ main'[c] = main[c]
  BY DEF KidSame, limit, Kept
<1>1. /\ Way(c) \in Nat /\ Way(c)' \in Nat /\ out(c) \in Seq(Unit) /\ us \in Seq(Unit)
      /\ \A r \in Procs : /\ Weight(r, c) \in Nat /\ Weight(r, c)' \in Nat
                          /\ proc[r].rbuf \in Seq(Unit)
      /\ limit(c) \in Nat
  BY Weights, WeightsNext, Mosts
<1>2. ASSUME NEW from, NEW to, Steps(p, from, to)
      PROVE  /\ At(p, from) /\ At(p, to)' /\ \A r \in Procs \ {p} : Weight(r, c)' <= Weight(r, c)
             /\ to \in {"read", "kill", "write"} => Weight(p, c)' = Len(proc'[p].rbuf)
             /\ to = "hi" => Weight(p, c)' = 1
             /\ from \in {"read", "write"} => Weight(p, c) = Len(proc[p].rbuf)
             /\ from = "hi" => Weight(p, c) = 1
             /\ from \in {"hi", "read", "write"} => Shaken(c)
  <2>1. \A r \in Procs \ {p} : r \in Engaged(c)' => r \in Engaged(c) /\ proc'[r] = proc[r]
    BY <1>2 DEF Steps, Engaged
  <2>2. \A r \in Procs \ {p} : Weight(r, c)' <= Weight(r, c)
    BY <2>1, NotHeavier
  <2>3. At(p, from) /\ At(p, to)' /\ proc[p].con = c /\ proc'[p].con = c
    BY <1>2 DEF Steps, At, Serves
  <2>4. to \in {"hi", "read", "kill", "write"} => p \in Engaged(c)'
    BY <2>3 DEF Engaged, At
  <2>5. from \in {"hi", "read", "kill", "write"} => p \in Engaged(c)
    BY <2>3 DEF Engaged, At
  <2>6. from \in {"hi", "read", "write"} => Shaken(c)
    BY <2>5 DEF Unshaken
  <2>7. /\ to \in {"read", "kill", "write"} => Weight(p, c)' = Len(proc'[p].rbuf)
        /\ to = "hi" => Weight(p, c)' = 1
    BY <2>3, <2>4 DEF Weight, At
  <2>8. /\ from \in {"read", "write"} => Weight(p, c) = Len(proc[p].rbuf)
        /\ from = "hi" => Weight(p, c) = 1
    BY <2>3, <2>5 DEF Weight, At
  <2> QED
    BY <2>2, <2>3, <2>6, <2>7, <2>8
<1>3. ASSUME Shaken(c), \A r \in Procs \ {p} : Weight(r, c)' <= Weight(r, c),
             Way(c)' + Weight(p, c)' <= Way(c) + Weight(p, c)
      PROVE  Shaken(c)'
  BY <1>0, <1>3, Balance DEF Shaken
<1>4. ASSUME NEW j \in 1..Len(us), Takes(c, j) PROVE Way(c)' = Way(c) - j /\ j \in Nat
  <2>1. /\ chan'[c].in["s"] = SubSeq(us, j + 1, Len(us))
        /\ chan'[c].in["c"] = chan[c].in["c"]
    BY <1>4 DEF Takes
  <2>2. Way(c)' = Way(c) - j
    BY <1>0, <2>1, WayTaken
  <2>3. j \in Nat
    BY <1>1
  <2> QED
    BY <2>2, <2>3
<1>5. ASSUME NEW j \in 1..Len(us), Shook(p, c, j) PROVE Shaken(c)'
  <2>1. Steps(p, "hello", "hi") /\ Takes(c, j) /\ us[1].t # "quit" /\ j >= 1
    BY <1>1, <1>5 DEF Shook
  <2>2. /\ \A r \in Procs \ {p} : Weight(r, c)' <= Weight(r, c)
        /\ Weight(p, c)' = 1 /\ Way(c)' = Way(c) - j
    BY <1>2, <1>4, <2>1
  <2>3. CASE Shaken(c)
    <3>1. Way(c)' + Weight(p, c)' <= Way(c) + Weight(p, c)
      BY <1>1, <2>1, <2>2
    <3> QED
      BY <1>3, <2>2, <2>3, <3>1
  <2>4. CASE Unshaken(c)
    <3>1. \A r \in Procs : Weight(r, c) = 0
      BY <2>4 DEF Unshaken, Weight
    <3>2. 1 > Len(us) - limit(c)
      BY <1>1, <2>1, <2>4 DEF Unshaken, ButQuits
    <3>0. Inside(c) = 0
      BY <2>4 DEF Unshaken, Inside, IInv, Buffers
    <3>3. Way(c) = Len(us) /\ Len(us) \in Nat /\ Len(us) >= 1
      BY <1>1, <2>4, <3>0 DEF Unshaken, Way, Coming, Going
    <3>4. Way(c) <= limit(c)
      BY <1>1, <3>2, <3>3
    <3>5. Upto(c)
      BY <1>1, <3>1, <3>4 DEF Upto
    <3>6. main[c].pc \notin {"connect", "fork", "key"}
      BY <1>1, <2>4, <3>3, <3>4 DEF Unshaken, limit, Most
    <3>7. Shaken(c)
      BY <3>5, <3>6 DEF Shaken
    <3>8. Way(c)' + Weight(p, c)' <= Way(c) + Weight(p, c)
      BY <1>1, <2>1, <2>2, <3>1
    <3> QED
      BY <1>3, <2>2, <3>7, <3>8
  <2> QED
    BY <2>3, <2>4
<1>6. ASSUME NEW j \in 1..Len(us), ReadQuit(p, c, j) PROVE Shaken(c)'
  <2>1. Steps(p, "read", "kill") /\ Takes(c, j) /\ proc'[p].rbuf = <<>>
    BY <1>6 DEF ReadQuit
  <2>2. Weight(p, c)' = 0 /\ Way(c)' = Way(c) - j /\ Shaken(c) /\ j \in Nat
        /\ \A r \in Procs \ {p} : Weight(r, c)' <= Weight(r, c)
    BY <1>2, <1>4, <2>1
  <2>3. Way(c)' + Weight(p, c)' <= Way(c) + Weight(p, c)
    BY <1>1, <2>2
  <2> QED
    BY <1>3, <2>2, <2>3
<1>7. ASSUME NEW j \in 1..Len(us), ReadLine(p, c, j) PROVE Shaken(c)'
  <2>1. Steps(p, "read", "write") /\ Takes(c, j) /\ Len(proc'[p].rbuf) = j
    BY <1>1, <1>7 DEF ReadLine
  <2>2. Weight(p, c)' = j /\ Way(c)' = Way(c) - j /\ Shaken(c) /\ j \in Nat
        /\ \A r \in Procs \ {p} : Weight(r, c)' <= Weight(r, c)
    BY <1>2, <1>4, <2>1
  <2>3. Way(c)' + Weight(p, c)' <= Way(c) + Weight(p, c)
    BY <1>1, <2>2
  <2> QED
    BY <1>3, <2>2, <2>3
<1>8. ASSUME NEW vs \in Seq(Unit), Puts(c, vs) PROVE Way(c)' = Way(c) + Len(vs)
  <2>1. chan'[c].in["c"] = chan[c].in["c"] \o vs /\ chan'[c].in["s"] = us
    BY <1>8 DEF Puts
  <2>2. Len(chan'[c].in["c"]) = Len(chan[c].in["c"]) + Len(vs)
    BY <1>1, <2>1 DEF out
  <2>3. Coming(c)' = Coming(c) + Len(vs) /\ Going(c)' = Going(c)
    BY <2>1, <2>2 DEF Coming, Going, out
  <2>4. Coming(c) \in Nat /\ Going(c) \in Nat /\ Len(vs) \in Nat
    BY <1>1 DEF Coming, Going
  <2>5. Inside(c)' = Inside(c) /\ Inside(c) \in Nat
    BY <1>0, Weights DEF Inside, KidSame
  <2> QED
    BY <2>3, <2>4, <2>5 DEF Way
<1>9. ASSUME SaidHi(p, c) PROVE Shaken(c)'
  <2>1. Steps(p, "hi", "read") /\ Puts(c, <<Hi>>) /\ proc'[p].rbuf = <<>>
    BY <1>9 DEF SaidHi
  <2>2. Weight(p, c)' = 0 /\ Weight(p, c) = 1 /\ Shaken(c)
        /\ \A r \in Procs \ {p} : Weight(r, c)' <= Weight(r, c)
    BY <1>2, <2>1
  <2>3. <<Hi>> \in Seq(Unit) /\ Len(<<Hi>>) = 1
    BY DEF Unit, Hi
  <2>4. Way(c)' = Way(c) + Len(<<Hi>>)
    BY <1>8, <2>1, <2>3
  <2>5. Way(c)' + Weight(p, c)' <= Way(c) + Weight(p, c)
    BY <1>1, <2>2, <2>3, <2>4
  <2> QED
    BY <1>3, <2>2, <2>5
<1>10. ASSUME WroteBack(p, c) PROVE Shaken(c)'
  <2>1. Steps(p, "write", "read") /\ Puts(c, proc[p].rbuf) /\ proc'[p].rbuf = <<>>
    BY <1>10 DEF WroteBack
  <2>2. Weight(p, c)' = 0 /\ Weight(p, c) = Len(proc[p].rbuf) /\ Shaken(c)
        /\ \A r \in Procs \ {p} : Weight(r, c)' <= Weight(r, c)
    BY <1>2, <2>1
  <2>3. Way(c)' + Weight(p, c)' <= Way(c) + Weight(p, c)
    BY <1>1, <1>8, <2>1, <2>2
  <2> QED
    BY <1>3, <2>2, <2>3
<1>11. ASSUME NEW j \in 1..Len(us),
              chan'[c].in["s"] = SubSeq(us, j + 1, Len(us)),
              chan'[c].in["c"] = chan[c].in["c"],
              \A r \in Engaged(c)' : r \in Engaged(c) /\ proc'[r] = proc[r]
       PROVE  Unshaken(c)' \/ Shaken(c)'
  <2>0. Way(c)' = Way(c) - j /\ out(c)' = out(c)
    BY <1>0, <1>11, WayTaken
  <2>1. Way(c)' = Way(c) - j /\ out(c)' = out(c) /\ j \in Nat /\ j \in 0..Len(us)
    BY <1>1, <2>0
  <2>2. CASE Unshaken(c)
    <3>1. ButQuits(chan'[c].in["s"], limit(c))
      BY <1>1, <1>11, <2>1, <2>2, QuitsTaken DEF Unshaken
    <3>2. Engaged(c)' = {}
      BY <1>11, <2>2 DEF Unshaken
    <3>3. main'[c].pc = main[c].pc /\ child'[c] = child[c]
      BY <1>0 DEF KidSame
    <3> QED
      BY <1>0, <1>11, <2>1, <2>2, <3>1, <3>2, <3>3 DEF Unshaken
  <2>3. CASE Shaken(c)
    <3>1. \A r \in Procs : Weight(r, c)' <= Weight(r, c)
      BY <1>11, NotHeavier
    <3>2. Way(c)' + limit(c) <= Way(c) + limit(c)'
      BY <1>0, <1>1, <2>1
    <3> QED
      BY <1>0, <2>3, <3>1, <3>2, Lighter DEF Shaken
  <2> QED
    BY <2>2, <2>3
<1> QED
  BY <1>5, <1>6, <1>7, <1>9, <1>10, <1>11 DEF Attended

(* More that is looked out for is allowed to be on its way.                  *)
LEMMA QuitsFewer ==
    ASSUME NEW us \in Seq(Unit), NEW k \in Nat, NEW m \in Nat, k <= m, ButQuits(us, k)
    PROVE  ButQuits(us, m)
<1>1. Len(us) \in Nat
  OBVIOUS
<1> QED
  BY <1>1 DEF ButQuits

(* A client that does nothing to the server's processes.                     *)
LEMMA ServerSame ==
    ASSUME IInv, NEW c \in Clients, UNCHANGED proc
    PROVE  /\ Engaged(c)' = Engaged(c)
           /\ \A r \in Procs : Weight(r, c)' = Weight(r, c) /\ Weight(r, c)' <= Weight(r, c)
<1>1. Engaged(c)' = Engaged(c) /\ \A r \in Procs : Weight(r, c)' = Weight(r, c)
  BY DEF Engaged, Weight, At
<1> QED
  BY <1>1, Weights

(* A line more for the server.                                               *)
LEMMA SaysMore ==
    ASSUME IInv, NEW c \in Clients, NEW us \in Seq(Unit), Says(c, us),
           chan[c].end["s"] = "open"
    PROVE  /\ out(c)' = out(c) /\ chan'[c].in["s"] = chan[c].in["s"] \o us
           /\ Coming(c)' = Coming(c) /\ Going(c)' = Going(c) + Len(us)
<1>1. out(c)' = out(c) /\ chan'[c].in["s"] = chan[c].in["s"] \o us
  BY DEF Says, out
<1>2. Len(chan[c].in["s"] \o us) = Len(chan[c].in["s"]) + Len(us)
  BY Weights
<1> QED
  BY <1>1, <1>2 DEF Coming, Going

(* A client that says something,                                             *)
LEMMA ExpectsSpoke ==
    ASSUME IInv, IInv', NEW c \in Clients, UNCHANGED proc, Expects(c),
           NEW u \in Unit, Spoke(c, u)
    PROVE  Expects(c)'
<1> DEFINE us == chan[c].in["s"]
<1> SUFFICES ASSUME Held(c)' PROVE Expects(c)'
  BY DEF Expects
<1>0. /\ Held(c) /\ KidSame(c) /\ Kept(c)' = Kept(c) /\ Running(c)
      /\ chan[c].end["s"] = "open" /\ Says(c, <<u>>)
  BY DEF Spoke, Says, Turns, Held, Live, Kept, KidSame, Running
<1>1. /\ Way(c) \in Nat /\ Way(c)' \in Nat /\ us \in Seq(Unit)
      /\ limit(c) \in Nat /\ limit(c)' \in Nat
      /\ Coming(c) \in Nat /\ Going(c) \in Nat /\ Inside(c) \in Nat
  BY Weights, WeightsNext, Mosts
<1>2. /\ chan'[c].in["s"] = us \o <<u>> /\ out(c)' = out(c)
      /\ Coming(c)' = Coming(c) /\ Going(c)' = Going(c) + 1
  <2>1. <<u>> \in Seq(Unit) /\ Len(<<u>>) = 1
    OBVIOUS
  <2> QED
    BY <1>0, <2>1, SaysMore
<1>3. Way(c)' = Way(c) + 1
  <2>1. Inside(c)' = Inside(c)
    BY <1>0 DEF Inside, KidSame
  <2> QED
    BY <1>1, <1>2, <2>1 DEF Way
<1>4. /\ Engaged(c)' = Engaged(c)
      /\ \A r \in Procs : Weight(r, c)' <= Weight(r, c)
  BY ServerSame
<1>5. Unshaken(c) \/ Shaken(c)
  BY <1>0 DEF Expects
<1>6. main[c].got \subseteq 1..main[c].sent /\ main[c].sent \in Nat
  <2>0. Served(c)
    BY <1>0 DEF Served
  <2>1. UNION {Numbered(c, x) : x \in Places} = 1..main[c].sent
    BY <2>0 DEF IInv, OneClient, Parted
  <2>2. Got \in Places /\ Numbered(c, Got) = main[c].got
    BY PlacesAre, NumberedAre
  <2>3. main[c].sent \in Nat
    BY DEF IInv, TypeOK, Main
  <2> QED
    BY <2>1, <2>2, <2>3
<1>7. main'[c].sent = main[c].sent + 1
  BY DEF Spoke
<1>8. ASSUME Unshaken(c), main'[c].pc \notin {"prompt", "recv"},
             limit(c)' = limit(c) + 1 \/ (limit(c)' = limit(c) /\ limit(c) = 0 /\ u.t = "quit")
      PROVE  Expects(c)'
  <2>1. ButQuits(us \o <<u>>, limit(c)')
    BY <1>1, <1>8, QuitsMore DEF Unshaken
  <2> QED
    BY <1>0, <1>2, <1>4, <1>8, <2>1 DEF Expects, Unshaken, MAt, KidSame
<1>9. ASSUME Shaken(c), main'[c].pc \notin {"connect", "fork", "key"},
             limit(c)' = limit(c) + 1,
             main'[c].pc = "recv" => main'[c].sent > 0 /\ main'[c].sent \notin main'[c].got
      PROVE  Expects(c)'
  <2>1. Way(c)' + limit(c) <= Way(c) + limit(c)'
    BY <1>1, <1>3, <1>9
  <2>2. Upto(c)'
    BY <1>4, <1>9, <2>1, Lighter DEF Shaken
  <2> QED
    BY <1>9, <2>2 DEF Expects, Shaken, MAt
<1>10. CASE main[c].pc = "key" /\ main'[c].pc = "key" /\ u.t = "quit"
  <2>1. Unshaken(c) /\ limit(c) = 0 /\ limit(c)' = 0
    BY <1>5, <1>10 DEF Shaken, limit, Most
  <2> QED
    BY <1>8, <1>10, <2>1
<1>11. CASE main[c].pc = "key" /\ main'[c].pc = "kill"
  <2>1. Unshaken(c) /\ limit(c) = 0 /\ limit(c)' = 1
    BY <1>5, <1>11 DEF Shaken, limit, Most
  <2> QED
    BY <1>8, <1>11, <2>1
<1>12. CASE main[c].pc = "hello" /\ main'[c].pc = "hi"
  <2>1. limit(c)' = limit(c) + 1
    BY <1>0, <1>12 DEF limit, Most
  <2> QED
    BY <1>5, <1>8, <1>9, <1>12, <2>1
<1>13. CASE main[c].pc = "prompt" /\ main'[c].pc = "recv"
  <2>1. Shaken(c)
    BY <1>5, <1>13 DEF Unshaken
  <2>2. limit(c)' = limit(c) + 1
    BY <1>0, <1>13 DEF limit, Most
  <2>3. main'[c].got = main[c].got
    BY <1>13 DEF Spoke, Turns
  <2>4. main'[c].sent > 0 /\ main'[c].sent \notin main'[c].got
    BY <1>6, <1>7, <2>3
  <2> QED
    BY <1>9, <1>13, <2>1, <2>2, <2>4
<1> QED
  BY <1>10, <1>11, <1>12, <1>13 DEF Spoke, Turns

(* The lengths of what is on its way, after a part of it was heard.          *)
LEMMA HeardLess ==
    ASSUME IInv, NEW c \in Clients, NEW j \in 1..Len(out(c)), Received(c, j)
    PROVE  /\ Coming(c)' = Coming(c) - j /\ Going(c)' = Going(c)
           /\ j \in Nat /\ j >= 1 /\ out(c) # <<>> /\ Len(SubSeq(out(c), 1, j)) = j
<1>1. out(c) \in Seq(Unit)
  BY Weights
<1>2. out(c)' = SubSeq(out(c), j + 1, Len(out(c))) /\ chan'[c].in["s"] = chan[c].in["s"]
  BY DEF Received, out
<1>3. /\ Len(SubSeq(out(c), j + 1, Len(out(c)))) = Len(out(c)) - j /\ j \in Nat /\ j >= 1
      /\ out(c) # <<>> /\ Len(SubSeq(out(c), 1, j)) = j
  BY <1>1
<1> QED
  BY <1>2, <1>3 DEF Coming, Going

(* one that hears something,                                                 *)
LEMMA ExpectsHeard ==
    ASSUME IInv, IInv', NEW c \in Clients, UNCHANGED proc, Expects(c),
           NEW j \in 1..Len(out(c)), Heard(c, j)
    PROVE  Expects(c)'
<1> SUFFICES ASSUME Held(c)' PROVE Expects(c)'
  BY DEF Expects
<1>0. Held(c) /\ Kept(c)' = Kept(c) /\ KidSame(c) /\ Received(c, j)
      /\ main[c].pc \in {"hi", "recv"} /\ main'[c].pc = "prompt"
  BY DEF Heard, Received, Turns, Held, Live, Kept, KidSame, Running
<1>1. /\ Way(c) \in Nat /\ limit(c) \in Nat /\ limit(c)' \in Nat
      /\ Coming(c) \in Nat /\ Going(c) \in Nat /\ Inside(c) \in Nat
  BY Weights, Mosts
<1>2. /\ Coming(c)' = Coming(c) - j /\ Going(c)' = Going(c) /\ j \in Nat /\ j >= 1
      /\ out(c) # <<>>
  BY <1>0, HeardLess
<1>3. Way(c)' = Way(c) - j
  <2>1. Inside(c)' = Inside(c)
    BY <1>0 DEF Inside, KidSame
  <2> QED
    BY <1>1, <1>2, <2>1 DEF Way
<1>4. limit(c) = limit(c)' + 1
  BY <1>0 DEF limit, Most
<1>5. Shaken(c)
  BY <1>0, <1>2 DEF Expects, Unshaken
<1>6. Upto(c)'
  <2>1. Way(c)' + limit(c) <= Way(c) + limit(c)'
    BY <1>1, <1>2, <1>3, <1>4
  <2>2. \A r \in Procs : Weight(r, c)' <= Weight(r, c)
    BY ServerSame
  <2> QED
    BY <1>5, <2>1, <2>2, Lighter DEF Shaken
<1> QED
  BY <1>0, <1>6 DEF Expects, Shaken, MAt

(* and its child, that takes an answer and has one more to give, or sends    *)
(* what it has.                                                              *)
LEMMA ExpectsKid ==
    ASSUME IInv, IInv', NEW c \in Clients, UNCHANGED proc, Expects(c),
           \/ \E j \in 1..Len(out(c)) : KidShook(c, j) \/ KidRead(c, j)
           \/ \E us \in Seq(Unit) : KidPut(c, us)
    PROVE  Expects(c)'
<1> SUFFICES ASSUME Held(c)' PROVE Expects(c)'
  BY DEF Expects
<1>0. Held(c) /\ main'[c] = main[c] /\ Kept(c)
  BY DEF KidShook, KidRead, KidPut, Says, Received, Held, Live, Kept, Running
<1>1. /\ Way(c) \in Nat /\ limit(c) \in Nat /\ limit(c)' \in Nat
      /\ Coming(c) \in Nat /\ Going(c) \in Nat /\ Inside(c) \in Nat
  BY Weights, Mosts
<1>2. Shaken(c) /\ Way(c)' <= Way(c) /\ limit(c) <= limit(c)'
  <2>1. ASSUME NEW j \in 1..Len(out(c)), KidShook(c, j)
        PROVE  Shaken(c) /\ Way(c)' <= Way(c) /\ limit(c) <= limit(c)'
    <3>1. /\ Coming(c)' = Coming(c) - j /\ Going(c)' = Going(c) /\ j \in Nat /\ j >= 1
          /\ out(c) # <<>>
      BY <2>1, HeardLess DEF KidShook
    <3>2. Shaken(c)
      BY <1>0, <3>1 DEF Expects, Unshaken
    <3>3. Inside(c)' <= 1 /\ Inside(c)' \in Nat /\ Inside(c) = 0
      BY <2>1 DEF KidShook, Inside
    <3>4. limit(c) <= limit(c)'
      BY <1>0 DEF limit, Most
    <3> QED
      BY <1>1, <3>1, <3>2, <3>3, <3>4 DEF Way
  <2>2. ASSUME NEW j \in 1..Len(out(c)), KidRead(c, j)
        PROVE  Shaken(c) /\ Way(c)' <= Way(c) /\ limit(c) <= limit(c)'
    <3>1. /\ Coming(c)' = Coming(c) - j /\ Going(c)' = Going(c) /\ j \in Nat /\ j >= 1
          /\ out(c) # <<>> /\ Len(SubSeq(out(c), 1, j)) = j
      BY <2>2, HeardLess DEF KidRead
    <3>2. Shaken(c)
      BY <1>0, <3>1 DEF Expects, Unshaken
    <3>3. Inside(c)' = j /\ Inside(c) = 0
      BY <2>2, <3>1 DEF KidRead, Inside
    <3>4. limit(c)' = limit(c)
      BY <1>0, <2>2 DEF limit, Kept, KidRead
    <3> QED
      BY <1>1, <3>1, <3>2, <3>3, <3>4 DEF Way
  <2>3. ASSUME NEW us \in Seq(Unit), KidPut(c, us)
        PROVE  Shaken(c) /\ Way(c)' <= Way(c) /\ limit(c) <= limit(c)'
    <3>1. chan[c].end["s"] = "open" /\ Says(c, us)
      BY <1>0, <2>3 DEF Held, KidPut
    <3>2. Coming(c)' = Coming(c) /\ Going(c)' = Going(c) + Len(us) /\ Len(us) \in Nat
      BY <3>1, SaysMore
    <3>3. Shaken(c)
      BY <1>0, <2>3 DEF Expects, Unshaken, KidPut
    <3>4. Inside(c)' = 0 /\ Inside(c) = Len(us)
      <4>1. Len(<<Hi>>) = 1
        OBVIOUS
      <4> QED
        BY <2>3, <4>1 DEF KidPut, Inside
    <3>5. limit(c)' = limit(c)
      BY <1>0, <2>3 DEF limit, Kept, KidPut
    <3> QED
      BY <1>1, <3>2, <3>3, <3>4, <3>5 DEF Way
  <2> QED
    BY <2>1, <2>2, <2>3
<1>3. Upto(c)'
  <2>1. Way(c)' + limit(c) <= Way(c) + limit(c)'
    <3>1. Way(c)' \in Nat
      BY WeightsNext
    <3> QED
      BY <1>1, <1>2, <3>1
  <2>2. \A r \in Procs : Weight(r, c)' <= Weight(r, c)
    BY ServerSame
  <2> QED
    BY <1>2, <2>1, <2>2, Lighter DEF Shaken
<1> QED
  BY <1>0, <1>2, <1>3 DEF Expects, Shaken, MAt

(* Where nothing is sent or taken and as much is looked out for as before,   *)
(* this stays.                                                               *)
LEMMA ExpectsSame ==
    ASSUME IInv, IInv', NEW c \in Clients, UNCHANGED proc, Expects(c),
           chan'[c] = chan[c], Live(c)' => Live(c),
           main'[c].pc = "recv" => /\ main[c].pc = "recv" /\ main'[c].sent = main[c].sent
                                   /\ main'[c].got = main[c].got,
           main'[c].pc = "prompt" => main[c].pc = "prompt",
           main'[c].pc \in {"connect", "fork", "key"} =>
             main[c].pc \in {"connect", "fork", "key"},
           Held(c)' => /\ limit(c) <= limit(c)' /\ Inside(c)' <= Inside(c)
                       /\ \/ child'[c] = child[c]
                          \/ child'[c] \in {"hello", "dead"}
    PROVE  Expects(c)'
<1> SUFFICES ASSUME Held(c)' PROVE Expects(c)'
  BY DEF Expects
<1>1. Held(c) /\ out(c)' = out(c)
  BY DEF Held, out
<1>2. /\ Way(c) \in Nat /\ limit(c) \in Nat /\ limit(c)' \in Nat /\ Way(c)' \in Nat
      /\ Coming(c) \in Nat /\ Going(c) \in Nat /\ Inside(c) \in Nat
      /\ chan[c].in["s"] \in Seq(Unit)
  BY Weights, WeightsNext, Mosts
<1>3. /\ Engaged(c)' = Engaged(c)
      /\ \A r \in Procs : Weight(r, c)' <= Weight(r, c)
  BY ServerSame
<1>4. CASE Unshaken(c)
  <2>1. ButQuits(chan[c].in["s"], limit(c)')
    BY <1>2, <1>4, QuitsFewer DEF Unshaken
  <2>2. child'[c] \in {"none", "hello", "dead"}
    BY <1>4 DEF Unshaken
  <2>3. Unshaken(c)'
    BY <1>1, <1>3, <1>4, <2>1, <2>2 DEF Unshaken
  <2> QED
    BY <1>4, <2>3 DEF Expects, Unshaken, MAt
<1>5. CASE Shaken(c)
  <2>1. Coming(c)' = Coming(c) /\ Going(c)' = Going(c)
    BY <1>1 DEF Coming, Going
  <2>2. Way(c)' + limit(c) <= Way(c) + limit(c)'
    <3>0. Inside(c)' \in Nat
      <4>1. Len(rbuf'[c]) \in Nat
        BY DEF IInv, TypeOK
      <4> QED
        BY <4>1 DEF Inside
    <3>1. Way(c)' <= Way(c)
      BY <1>2, <2>1, <3>0 DEF Way
    <3> QED
      BY <1>2, <3>1
  <2>3. Upto(c)'
    BY <1>3, <1>5, <2>2, Lighter DEF Shaken
  <2> QED
    BY <1>1, <1>5, <2>3 DEF Expects, Shaken, MAt
<1> QED
  BY <1>1, <1>4, <1>5 DEF Expects

(* Every step keeps that.                                                    *)
LEMMA ExpectsInit == Init => \A c \in Clients : Expects(c)
<1> SUFFICES ASSUME Init, NEW c \in Clients PROVE Expects(c)
  OBVIOUS
<1>1. /\ main[c].pc = "connect" /\ out(c) = <<>> /\ chan[c].in["s"] = <<>>
      /\ child[c] = "none"
  BY DEF Init, Sides, out
<1>2. Engaged(c) = {}
  BY DEF Init, Engaged
<1>3. ButQuits(chan[c].in["s"], limit(c))
  BY <1>1 DEF ButQuits
<1> QED
  BY <1>1, <1>2, <1>3 DEF Expects, Unshaken, MAt

(* The server keeps it,                                                      *)
LEMMA ExpectsServe ==
    ASSUME IInv, IInv', Linked, NEW c \in Clients, Expects(c), NEW p \in Procs, Serve(p)
    PROVE  Expects(c)'
<1> SUFFICES ASSUME Held(c)' PROVE Expects(c)'
  BY DEF Expects
<1>1. /\ Held(c) /\ chan[c].end["c"] = "open" /\ UNCHANGED <<main, child, rbuf>>
      /\ Bystander(c) \/ (proc[p].con = c /\ Attended(p, c))
  BY ServedSees
<1>2. /\ Unshaken(c) \/ Shaken(c)
      /\ MAt(c, "recv")' => main'[c].sent > 0 /\ main'[c].sent \notin main'[c].got
  BY <1>1 DEF Expects, MAt
<1>3. CASE Bystander(c)
  <2>1. chan'[c] = chan[c] /\ \A r \in Procs : Weight(r, c)' <= Weight(r, c)
    BY <1>3, NotHeavier DEF Bystander
  <2>2. out(c)' = out(c) /\ Way(c)' = Way(c) /\ limit(c)' = limit(c)
    BY <1>1, <2>1 DEF out, Way, Coming, Going, Inside, limit, Kept
  <2>3. CASE Unshaken(c)
    <3>1. Engaged(c)' = {}
      BY <1>3, <2>3 DEF Unshaken, Bystander
    <3> QED
      BY <1>1, <1>2, <2>1, <2>2, <2>3, <3>1 DEF Unshaken, Expects
  <2>4. CASE Shaken(c)
    <3>1. Way(c) \in Nat /\ limit(c) \in Nat
      BY Weights, Mosts
    <3>2. Way(c)' + limit(c) <= Way(c) + limit(c)'
      BY <1>1, <2>2, <3>1
    <3>3. Upto(c)'
      BY <2>1, <2>4, <3>2, Lighter DEF Shaken
    <3> QED
      BY <1>1, <1>2, <2>4, <3>3 DEF Shaken, Expects
  <2> QED
    BY <1>2, <2>3, <2>4
<1>4. CASE proc[p].con = c /\ Attended(p, c)
  <2>1. Serves(p, c)
    BY <1>4 DEF Attended, Serves, Shook, ReadQuit, ReadLine, SaidHi, WroteBack, Steps, At
  <2>2. Unshaken(c)' \/ Shaken(c)'
    BY <1>1, <1>2, <1>4, <2>1, ExpectsAttended DEF Linked
  <2> QED
    BY <1>2, <2>2 DEF Expects
<1> QED
  BY <1>1, <1>3, <1>4

(* the clients do,                                                           *)
LEMMA ExpectsUse ==
    ASSUME IInv, IInv', NEW c \in Clients, Expects(c), NEW d \in Clients, Use(d) \/ Crash(d)
    PROVE  Expects(c)'
<1>1. Using(d) /\ Others(d) /\ UNCHANGED <<proc, fds>>
  BY UseDoes
<1>0. /\ Inside(c) \in Nat /\ Inside(c) <= Inside(c)
      /\ limit(c) \in Nat /\ limit(c) <= limit(c)
  BY Weights, Mosts
<1>2. CASE d # c
  <2>1. /\ main'[c] = main[c] /\ child'[c] = child[c] /\ rbuf'[c] = rbuf[c]
        /\ chan'[c] = chan[c]
    BY <1>1, <1>2 DEF Others
  <2>2. /\ Live(c)' = Live(c) /\ limit(c)' = limit(c) /\ Inside(c)' = Inside(c)
    BY <2>1 DEF Live, Running, Kept, limit, Inside
  <2> QED
    BY <1>0, <1>1, <2>1, <2>2, ExpectsSame
<1>3. CASE d = c /\ \E u \in Unit : Spoke(c, u)
  BY <1>1, <1>3, ExpectsSpoke
<1>4. CASE d = c /\ \E j \in 1..Len(out(c)) : Heard(c, j)
  BY <1>1, <1>4, ExpectsHeard
<1>5. CASE /\ d = c
           /\ \/ \E j \in 1..Len(out(c)) : KidShook(c, j) \/ KidRead(c, j)
              \/ \E us \in Seq(Unit) : KidPut(c, us)
  BY <1>1, <1>5, ExpectsKid
<1>6. CASE KidGone(c) \/ Unanswered(c)
  <2>1. chan'[c].end["s"] # "open"
    BY <1>6 DEF KidGone, Unanswered, AtEnd, Peer
  <2> QED
    BY <2>1 DEF Expects, Held
<1>7. CASE Onward(c) \/ Dialled(c)
  <2>1. chan'[c] = chan[c] /\ Live(c)
    BY <1>7 DEF Onward, Dialled, Turns, Live, Running
  <2>2. /\ main'[c].pc \notin {"recv", "prompt"}
        /\ main'[c].pc \in {"connect", "fork", "key"} =>
             main[c].pc \in {"connect", "fork", "key"}
    BY <1>7 DEF Onward, Dialled, Turns
  <2>3. limit(c) <= limit(c)'
    BY <1>7 DEF Onward, Dialled, Turns, limit, Most, Kept, KidSame
  <2>4. Inside(c)' <= Inside(c)
    <3>1. CASE KidSame(c)
      <4>1. Inside(c)' = Inside(c)
        BY <3>1 DEF KidSame, Inside
      <4> QED
        BY <1>0, <4>1
    <3>2. CASE child'[c] \in {"hello", "dead"} /\ rbuf'[c] = <<>>
      <4>1. Inside(c)' = 0
        BY <3>2 DEF Inside
      <4> QED
        BY <1>0, <4>1
    <3> QED
      BY <1>7, <3>1, <3>2 DEF Onward, Dialled
  <2>5. child'[c] = child[c] \/ child'[c] \in {"hello", "dead"}
    BY <1>7 DEF Onward, Dialled, KidSame
  <2> QED
    BY <1>1, <2>1, <2>2, <2>3, <2>4, <2>5, ExpectsSame
<1>8. CASE Left(c)
  <2>1. CASE ~ Kept(c)'
    BY <1>8, <2>1 DEF Left, Expects, Held, Live
  <2>2. CASE Kept(c)' /\ chan'[c] = chan[c] /\ KidSame(c)
    <3>1. Kept(c) /\ Inside(c)' = Inside(c) /\ child'[c] = child[c]
      BY <2>2 DEF Kept, KidSame, Inside
    <3>2. main'[c].pc \in {"exit", "dead"}
      BY <1>8 DEF Left, Running
    <3>3. limit(c) <= limit(c)'
      BY <2>2, <3>1, <3>2 DEF limit, Most
    <3>4. Live(c)
      BY <3>1 DEF Live
    <3> QED
      BY <1>0, <1>1, <2>2, <3>1, <3>2, <3>3, <3>4, ExpectsSame
  <2> QED
    BY <1>8, <2>1, <2>2 DEF Left
<1> QED
  BY <1>1, <1>2, <1>3, <1>4, <1>5, <1>6, <1>7, <1>8 DEF Using

(* hence every step.                                                         *)
LEMMA ExpectsStep ==
    IInv /\ IInv' /\ Linked /\ (\A c \in Clients : Expects(c)) /\ [Next]_vars
    => (\A c \in Clients : Expects(c))'
<1> SUFFICES ASSUME IInv, IInv', Linked, \A c \in Clients : Expects(c), [Next]_vars,
                    NEW c \in Clients
             PROVE  Expects(c)'
  OBVIOUS
<1>1. CASE UNCHANGED vars
  <2>1. /\ Held(c)' = Held(c) /\ Engaged(c)' = Engaged(c) /\ out(c)' = out(c)
        /\ Way(c)' = Way(c) /\ \A r \in Procs : Weight(r, c)' = Weight(r, c)
        /\ limit(c)' = limit(c)
    BY <1>1 DEF vars, Held, Live, Kept, Running, Engaged, out, Way, Coming, Going, Inside,
                Weight, At, limit
  <2>2. Expects(c)
    OBVIOUS
  <2> QED
    BY <1>1, <2>1, <2>2 DEF vars, Expects, Unshaken, Shaken, Upto, MAt
<1> QED
  BY <1>1, ExpectsServe, ExpectsUse DEF Next

(* It is always true.                                                        *)
LEMMA ExpectsAlways == Spec => [](IInv /\ Linked /\ \A c \in Clients : Expects(c))
BY InitInv, LinkedInit, ExpectsInit, StepInv, LinkedStep, ExpectsStep, PTL DEF Spec

-----------------------------------------------------------------------------
(* A client's child does not find a quit.  While it lives only quits, each   *)
(* read alone, and one answer at a time go through the server; and what the  *)
(* server has closed holds nothing to be read.                               *)
NoQuit(us) == \A i \in 1..Len(us) : us[i].t # "quit"
Arrived(c) == chan[c].in["s"] # <<>> => chan[c].end["s"] = "open"
Ready(c) == Kept(c) \/ main[c].pc \in {"connect", "fork"}
Quitless(c) == Ready(c) =>
    /\ NoQuit(out(c)) /\ NoQuit(rbuf[c])
    /\ \A p \in Procs : proc[p].con = c => NoQuit(proc[p].rbuf)
Harmless == \A c \in Clients : Arrived(c) /\ Quitless(c)

(* Parts, and the whole of two sequences.                                    *)
LEMMA NoQuitParts ==
    ASSUME NEW us \in Seq(Unit), NEW vs \in Seq(Unit), NoQuit(us), NoQuit(vs)
    PROVE  NoQuit(us \o vs)
<1> DEFINE w == us \o vs
<1>1. /\ Len(w) = Len(us) + Len(vs) /\ Len(us) \in Nat /\ Len(vs) \in Nat
      /\ \A i \in 1..Len(us) : w[i] = us[i]
      /\ \A i \in 1..Len(vs) : w[i + Len(us)] = vs[i]
  OBVIOUS
<1> HIDE DEF w
<1>2. ASSUME NEW i \in 1..Len(w) PROVE w[i].t # "quit"
  <2>1. CASE i \in 1..Len(us)
    BY <1>1, <2>1 DEF NoQuit
  <2>2. CASE i \notin 1..Len(us)
    <3> DEFINE k == i - Len(us)
    <3>1. k \in 1..Len(vs) /\ k + Len(us) = i
      BY <1>1, <2>2
    <3> HIDE DEF k
    <3>2. w[k + Len(us)] = vs[k]
      BY <1>1, <3>1
    <3> QED
      BY <3>1, <3>2 DEF NoQuit
  <2> QED
    BY <2>1, <2>2
<1> QED
  BY <1>2 DEF NoQuit, w

LEMMA NoQuitCut ==
    ASSUME NEW us \in Seq(Unit), NoQuit(us), NEW j \in 1..Len(us)
    PROVE  NoQuit(SubSeq(us, 1, j)) /\ NoQuit(SubSeq(us, j + 1, Len(us)))
<1>1. /\ Len(SubSeq(us, 1, j)) = j /\ j \in Nat /\ Len(us) \in Nat
      /\ \A i \in 1..j : SubSeq(us, 1, j)[i] = us[i]
      /\ Len(SubSeq(us, j + 1, Len(us))) = Len(us) - j
      /\ \A i \in 1..(Len(us) - j) : SubSeq(us, j + 1, Len(us))[i] = us[i + j]
  OBVIOUS
<1>2. NoQuit(SubSeq(us, 1, j))
  BY <1>1 DEF NoQuit
<1>3. ASSUME NEW i \in 1..(Len(us) - j)
      PROVE  SubSeq(us, j + 1, Len(us))[i].t # "quit"
  <2>1. i + j \in 1..Len(us)
    BY <1>1
  <2> QED
    BY <1>1, <2>1 DEF NoQuit
<1> QED
  BY <1>1, <1>2, <1>3 DEF NoQuit

LEMMA NoQuitNone == NoQuit(<<>>) /\ NoQuit(<<Hi>>)
<1>1. Len(<<>>) = 0 /\ Len(<<Hi>>) = 1 /\ <<Hi>>[1] = Hi /\ Hi.t # "quit" /\ 1..1 = {1}
  BY DEF Hi
<1> QED
  BY <1>1 DEF NoQuit

(* What a process reads that is no quit is one line only, if the child of    *)
(* its client lives.                                                         *)
LEMMA ReadsOne ==
    ASSUME IInv, NEW c \in Clients, Arrived(c), Expects(c), Ready(c), NEW p \in Procs,
           proc[p].con = c, NEW j \in 1..Len(chan[c].in["s"]), ReadLine(p, c, j)
    PROVE  NoQuit(SubSeq(chan[c].in["s"], 1, j))
<1> DEFINE us == chan[c].in["s"]
<1>1. us \in Seq(Unit) /\ us # <<>> /\ Head(us) = us[1] /\ us[1].t # "quit"
  BY Weights DEF ReadLine
<1>2. Kept(c) \/ main[c].pc \in {"connect", "fork"}
  BY DEF Ready
<1>3. p \in Engaged(c)
  BY DEF ReadLine, Steps, Engaged
<1>4. Held(c)
  BY <1>1 DEF Ready, Held, Live, Running, Arrived
<1>5. Shaken(c)
  BY <1>3, <1>4 DEF Expects, Unshaken
<1>6. limit(c) <= 1
  BY <1>2, <1>5 DEF Shaken, limit, Most
<1>7. Way(c) <= 1
  <2>1. Way(c) + Weight(p, c) <= limit(c)
    BY <1>5 DEF Shaken, Upto
  <2> QED
    BY <1>6, <2>1, Weights, Mosts
<1>8. Len(us) <= 1
  <2>1. Coming(c) \in Nat /\ Going(c) \in Nat /\ Inside(c) \in Nat
    BY Weights
  <2> QED
    BY <1>7, <2>1 DEF Way, Going
<1>9. j = 1 /\ Len(SubSeq(us, 1, j)) = 1 /\ SubSeq(us, 1, j)[1] = us[1] /\ 1..1 = {1}
  BY <1>1, <1>8
<1> QED
  BY <1>1, <1>9 DEF NoQuit

LEMMA HarmlessInit == Init => Harmless
<1> SUFFICES ASSUME Init, NEW c \in Clients PROVE Arrived(c) /\ Quitless(c)
  BY DEF Harmless
<1>1. /\ out(c) = <<>> /\ chan[c].in["s"] = <<>> /\ rbuf[c] = <<>>
      /\ \A p \in Procs : proc[p].rbuf = <<>>
  BY DEF Init, Sides, out
<1> QED
  BY <1>1, NoQuitNone DEF Arrived, Quitless

(* Where nothing new comes in, this stays.                                   *)
LEMMA QuitlessKeeps ==
    ASSUME NEW c, Quitless(c),
           Ready(c)' => /\ Ready(c) /\ NoQuit(chan'[c].in["c"]) /\ NoQuit(rbuf'[c]),
           \A r \in Procs : proc'[r].con = c =>
             \/ proc'[r].rbuf = <<>>
             \/ proc[r].con = c /\ proc'[r].rbuf = proc[r].rbuf
    PROVE  Quitless(c)'
<1>1. \A r \in Procs : Ready(c) /\ proc'[r].con = c => NoQuit(proc'[r].rbuf)
  BY NoQuitNone DEF Quitless
<1> QED
  BY <1>1 DEF Quitless, out

(* A process of the server goes on,                                          *)
LEMMA HarmlessSteps ==
    ASSUME IInv, NEW c \in Clients, Quitless(c), UNCHANGED <<main, child, rbuf>>,
           NEW p \in Procs, NEW from, NEW to, Steps(p, from, to),
           proc'[p].rbuf \in {<<>>, proc[p].rbuf}, Ready(c) => NoQuit(chan'[c].in["c"])
    PROVE  Quitless(c)'
<1>1. Ready(c)' <=> Ready(c)
  BY DEF Ready, Kept
<1>2. Ready(c) => NoQuit(rbuf'[c])
  BY DEF Quitless
<1>3. \A r \in Procs : proc'[r].con = c =>
             \/ proc'[r].rbuf = <<>>
             \/ proc[r].con = c /\ proc'[r].rbuf = proc[r].rbuf
  BY DEF Steps
<1> QED
  BY <1>1, <1>2, <1>3, QuitlessKeeps

(* or ends.                                                                  *)
LEMMA HarmlessEnded ==
    ASSUME IInv, NEW c \in Clients, Arrived(c), Quitless(c), UNCHANGED <<main, child, rbuf>>,
           NEW q \in Procs, NEW h, Ended(q, h),
           h[c].in["c"] = chan[c].in["c"], h[c].end = chan[c].end,
           h[c].in["s"] # <<>> => chan[c].in["s"] # <<>>,
           \A r \in Procs \ {q} : \/ proc'[r] = proc[r] \/ proc'[r].rbuf = <<>>
    PROVE  Arrived(c)' /\ Quitless(c)'
<1>1. Ready(c)' <=> Ready(c)
  BY DEF Ready, Kept
<1>2. Ready(c) => NoQuit(rbuf'[c]) /\ NoQuit(chan'[c].in["c"])
  BY DEF Quitless, Ended, out
<1>3. \A r \in Procs : proc'[r].con = c =>
             \/ proc'[r].rbuf = <<>>
             \/ proc[r].con = c /\ proc'[r].rbuf = proc[r].rbuf
  BY DEF Ended
<1>4. Quitless(c)'
  BY <1>1, <1>2, <1>3, QuitlessKeeps
<1>5. Arrived(c)'
  BY DEF Arrived, Ended
<1> QED
  BY <1>4, <1>5

(* The server keeps it,                                                      *)
LEMMA HarmlessServe ==
    ASSUME IInv, Linked, Harmless, \A c \in Clients : Expects(c), NEW p \in Procs, Serve(p)
    PROVE  Harmless'
<1> SUFFICES ASSUME NEW c \in Clients PROVE Arrived(c)' /\ Quitless(c)'
  BY DEF Harmless
<1>1. UNCHANGED <<main, child, rbuf>> /\ Arrived(c) /\ Quitless(c)
  BY DEF Serve, Harmless
<1>2. (Ready(c)' <=> Ready(c)) /\ (Ready(c) => Live(c))
  BY <1>1 DEF Ready, Kept, Live, Running
<1>3. CASE Accept(p)
  <2>1. PICK d \in Clients : Accepted(p, d)
    BY <1>3, AcceptDoes
  <2>2. Arrived(c)'
    BY <1>1, <2>1 DEF Arrived, Accepted
  <2>3. Ready(c) => NoQuit(chan'[c].in["c"]) /\ NoQuit(rbuf'[c])
    BY <1>1, <2>1 DEF Accepted, Quitless, out
  <2>4. \A r \in Procs : proc'[r].con = c =>
             \/ proc'[r].rbuf = <<>>
             \/ proc[r].con = c /\ proc'[r].rbuf = proc[r].rbuf
    BY <2>1 DEF Accepted
  <2> QED
    BY <1>1, <1>2, <2>2, <2>3, <2>4, QuitlessKeeps
<1>4. ASSUME NEW q \in Procs, Forked(p, q) PROVE Arrived(c)' /\ Quitless(c)'
  <2>1. /\ chan' = chan /\ p # q /\ proc[p].pc = "fork"
        /\ \A r \in Procs \ {p, q} : proc'[r] = proc[r]
    BY <1>4, ForkDoes
  <2>2. proc'[p].rbuf = <<>> /\ proc'[q].rbuf = <<>>
    <3>1. proc[p].rbuf = <<>> /\ proc \in [Procs -> Process]
      BY <2>1 DEF IInv, Buffers, TypeOK
    <3>2. proc' = [proc EXCEPT ![p].pc = "hello",
                               ![q] = [proc[p] EXCEPT !.pc = "hello", !.parent = p]]
      BY <1>4 DEF Forked, ForkTwo
    <3> QED
      BY <2>1, <3>1, <3>2 DEF Process
  <2>3. Ready(c) => NoQuit(chan'[c].in["c"]) /\ NoQuit(rbuf'[c])
    BY <1>1, <2>1 DEF Quitless, out
  <2>4. \A r \in Procs : proc'[r].con = c =>
             \/ proc'[r].rbuf = <<>>
             \/ proc[r].con = c /\ proc'[r].rbuf = proc[r].rbuf
    BY <2>1, <2>2
  <2>5. Arrived(c)'
    BY <1>1, <2>1 DEF Arrived
  <2> QED
    BY <1>1, <1>2, <2>3, <2>4, <2>5, QuitlessKeeps
<1>5. CASE Forgot(p) \/ KillsNobody(p)
  <2>1. chan' = chan /\ Arrived(c)'
    BY <1>1, <1>5 DEF Forgot, KillsNobody, Arrived
  <2>2. Ready(c) => NoQuit(chan'[c].in["c"])
    BY <1>1, <2>1 DEF Quitless, out
  <2>3. \E from, to : Steps(p, from, to) /\ proc'[p].rbuf \in {<<>>, proc[p].rbuf}
    BY <1>5 DEF Forgot, KillsNobody
  <2> QED
    BY <1>1, <2>1, <2>2, <2>3, HarmlessSteps
<1>6. ASSUME NEW d \in Clients, d = proc[p].con, Serving(p, d)
      PROVE  Arrived(c)' /\ Quitless(c)'
  <2>1. ASSUME NEW j \in 1..Len(chan[d].in["s"]),
               Shook(p, d, j) \/ ReadQuit(p, d, j) \/ ReadLine(p, d, j)
        PROVE  Arrived(c)' /\ Quitless(c)'
    <3>1. /\ Takes(d, j) /\ chan'[c].in["c"] = chan[c].in["c"] /\ chan'[c].end = chan[c].end
      BY <2>1 DEF Shook, ReadQuit, ReadLine, Takes
    <3>2. Arrived(c)'
      <4>1. CASE d # c
        BY <1>1, <3>1, <4>1 DEF Takes, Arrived
      <4>2. CASE d = c
        <5>1. chan[c].in["s"] # <<>>
          BY <4>2, Weights
        <5> QED
          BY <1>1, <3>1, <5>1 DEF Arrived
      <4> QED
        BY <4>1, <4>2
    <3>3. Ready(c) => NoQuit(chan'[c].in["c"])
      BY <1>1, <3>1 DEF Quitless, out
    <3>4. CASE Shook(p, d, j) \/ ReadQuit(p, d, j)
      BY <1>1, <3>2, <3>3, <3>4, HarmlessSteps DEF Shook, ReadQuit
    <3>5. CASE ReadLine(p, d, j)
      <4>1. d = c /\ Ready(c) => NoQuit(proc'[p].rbuf)
        <5>1. ASSUME d = c, Ready(c) PROVE NoQuit(SubSeq(chan[c].in["s"], 1, j))
          BY <1>1, <1>6, <3>5, <5>1, ReadsOne
        <5> QED
          BY <3>5, <5>1 DEF ReadLine
      <4>2. \A r \in Procs \ {p} : proc'[r] = proc[r]
        BY <3>5 DEF ReadLine, Steps
      <4>3. proc'[p].con = d
        BY <1>6, <3>5 DEF ReadLine, Steps
      <4>4. \A r \in Procs : Ready(c) /\ proc'[r].con = c => NoQuit(proc'[r].rbuf)
        BY <1>1, <4>1, <4>2, <4>3 DEF Quitless
      <4>5. Ready(c) => NoQuit(rbuf'[c])
        BY <1>1 DEF Quitless
      <4>6. Quitless(c)'
        BY <1>2, <3>3, <4>4, <4>5 DEF Quitless, out
      <4> QED
        BY <3>2, <4>6
    <3> QED
      BY <2>1, <3>4, <3>5
  <2>2. ASSUME NEW j, NEW h, TurnedAway(p, d, j, h)
        PROVE  Arrived(c)' /\ Quitless(c)'
    <3>1. /\ Ended(p, h) /\ h[c].in["c"] = chan[c].in["c"] /\ h[c].end = chan[c].end
          /\ \A r \in Procs \ {p} : proc'[r] = proc[r]
      BY <2>2 DEF TurnedAway
    <3>2. h[c].in["s"] # <<>> => chan[c].in["s"] # <<>>
      <4>1. CASE d # c
        BY <2>2, <4>1 DEF TurnedAway
      <4>2. CASE d = c
        <5>1. j \in 1..Len(chan[c].in["s"])
          BY <2>2, <4>2 DEF TurnedAway
        <5> QED
          BY <5>1, Weights
      <4> QED
        BY <4>1, <4>2
    <3> QED
      BY <1>1, <3>1, <3>2, HarmlessEnded
  <2>3. ASSUME NEW us \in Seq(Unit), Puts(d, us),
               d = c /\ Ready(c) => NoQuit(us)
        PROVE  Arrived(c)' /\ (Ready(c) => NoQuit(chan'[c].in["c"]))
    <3>1. Arrived(c)'
      BY <1>1, <2>3 DEF Puts, Arrived
    <3>2. ASSUME Ready(c) PROVE NoQuit(chan'[c].in["c"])
      <4>1. chan[c].end["c"] = "open" /\ NoQuit(chan[c].in["c"])
        BY <1>1, <1>2, <3>2 DEF Linked, Open, Quitless, out
      <4>2. chan[c].in["c"] \in Seq(Unit)
        BY Weights DEF out
      <4>3. CASE d = c
        <5>1. NoQuit(chan[c].in["c"] \o us)
          BY <2>3, <3>2, <4>1, <4>2, <4>3, NoQuitParts
        <5> QED
          BY <2>3, <4>1, <4>3, <5>1 DEF Puts
      <4>4. CASE d # c
        BY <2>3, <4>1, <4>4 DEF Puts
      <4> QED
        BY <4>3, <4>4
    <3> QED
      BY <3>1, <3>2
  <2>4. CASE SaidHi(p, d)
    <3>1. <<Hi>> \in Seq(Unit)
      BY DEF Hi, Unit
    <3>2. Arrived(c)' /\ (Ready(c) => NoQuit(chan'[c].in["c"]))
      BY <2>3, <2>4, <3>1, NoQuitNone DEF SaidHi
    <3> QED
      BY <1>1, <2>4, <3>2, HarmlessSteps DEF SaidHi
  <2>5. CASE WroteBack(p, d)
    <3>1. proc[p].rbuf \in Seq(Unit) /\ (d = c /\ Ready(c) => NoQuit(proc[p].rbuf))
      BY <1>1, <1>6, Weights DEF Quitless
    <3>2. Arrived(c)' /\ (Ready(c) => NoQuit(chan'[c].in["c"]))
      BY <2>3, <2>5, <3>1 DEF WroteBack
    <3> QED
      BY <1>1, <2>5, <3>2, HarmlessSteps DEF WroteBack
  <2>6. CASE Deserted(p, d)
    BY <1>1, <2>6, HarmlessEnded DEF Deserted
  <2> QED
    BY <1>6, <2>1, <2>2, <2>4, <2>5, <2>6 DEF Serving
<1>7. ASSUME NEW q \in Procs, KillsParent(p, q) PROVE Arrived(c)' /\ Quitless(c)'
  <2>1. Ended(q, chan) /\ \A r \in Procs \ {q} : proc'[r] = proc[r] \/ proc'[r].rbuf = <<>>
    BY <1>7 DEF KillsParent
  <2> QED
    BY <1>1, <2>1, HarmlessEnded
<1> QED
  BY <1>3, <1>4, <1>5, <1>6, <1>7, ServeDoes

(* the clients do,                                                           *)
LEMMA HarmlessUse ==
    ASSUME IInv, Harmless, NEW d \in Clients, Use(d) \/ Crash(d)
    PROVE  Harmless'
<1> SUFFICES ASSUME NEW c \in Clients PROVE Arrived(c)' /\ Quitless(c)'
  BY DEF Harmless
<1>1. Using(d) /\ Others(d) /\ UNCHANGED <<proc, fds>>
  BY UseDoes
<1>2. Arrived(c) /\ Quitless(c)
  BY DEF Harmless
<1>0. /\ out(c) \in Seq(Unit) /\ rbuf[c] \in Seq(Unit)
      /\ Ready(c) => NoQuit(out(c)) /\ NoQuit(rbuf[c])
  BY <1>2, Weights DEF Quitless, IInv, TypeOK
<1>3. ASSUME Ready(c)' => Ready(c),
             Ready(c)' => NoQuit(chan'[c].in["c"]) /\ NoQuit(rbuf'[c])
      PROVE  Quitless(c)'
  BY <1>1, <1>2, <1>3, QuitlessKeeps
<1>4. CASE d # c
  <2>1. /\ main'[c] = main[c] /\ child'[c] = child[c] /\ rbuf'[c] = rbuf[c]
        /\ chan'[c] = chan[c]
    BY <1>1, <1>4 DEF Others
  <2>2. (Ready(c)' <=> Ready(c)) /\ Arrived(c)'
    BY <1>2, <2>1 DEF Ready, Kept, Arrived
  <2> QED
    BY <1>0, <1>3, <2>1, <2>2 DEF out
<1>5. ASSUME NEW us \in Seq(Unit), Says(c, us) PROVE Arrived(c)' /\ out(c)' = out(c)
  BY <1>2, <1>5 DEF Arrived, Says, out
<1>6. ASSUME NEW j \in 1..Len(out(c)), Received(c, j)
      PROVE  /\ Arrived(c)'
             /\ Ready(c) => NoQuit(chan'[c].in["c"]) /\ NoQuit(SubSeq(out(c), 1, j))
  BY <1>0, <1>2, <1>6, NoQuitCut DEF Arrived, Received
<1>7. ASSUME NEW u \in Unit, Spoke(c, u) PROVE Arrived(c)' /\ Quitless(c)'
  <2>1. Arrived(c)' /\ out(c)' = out(c)
    <3>1. <<u>> \in Seq(Unit) /\ Says(c, <<u>>)
      BY <1>7 DEF Spoke
    <3> QED
      BY <1>5, <3>1
  <2>2. rbuf'[c] = rbuf[c] /\ (Ready(c)' => Ready(c))
    BY <1>7 DEF Spoke, Turns, KidSame, Ready, Kept
  <2> QED
    BY <1>0, <1>3, <2>1, <2>2 DEF out
<1>8. ASSUME NEW j \in 1..Len(out(c)), Heard(c, j) PROVE Arrived(c)' /\ Quitless(c)'
  <2>1. rbuf'[c] = rbuf[c] /\ (Ready(c)' => Ready(c)) /\ Received(c, j)
    BY <1>8 DEF Heard, Turns, KidSame, Ready, Kept
  <2> QED
    BY <1>0, <1>3, <1>6, <2>1
<1>9. ASSUME NEW j \in 1..Len(out(c)), KidShook(c, j) \/ KidRead(c, j)
      PROVE  Arrived(c)' /\ Quitless(c)'
  <2>1. /\ Ready(c) /\ Received(c, j)
        /\ rbuf'[c] = <<>> \/ rbuf'[c] = SubSeq(out(c), 1, j)
    BY <1>9 DEF KidShook, KidRead, Ready, Kept
  <2> QED
    BY <1>3, <1>6, <2>1, NoQuitNone
<1>10. ASSUME NEW us \in Seq(Unit), KidPut(c, us) PROVE Arrived(c)' /\ Quitless(c)'
  <2>1. Ready(c) /\ rbuf'[c] = <<>> /\ Arrived(c)' /\ out(c)' = out(c)
    BY <1>5, <1>10 DEF KidPut, Ready, Kept
  <2> QED
    BY <1>0, <1>3, <2>1, NoQuitNone DEF out
<1>11. CASE KidGone(c) \/ Onward(c) \/ Unanswered(c) \/ Dialled(c)
  <2>1. chan'[c] = chan[c] /\ Arrived(c)'
    BY <1>2, <1>11 DEF KidGone, Onward, Unanswered, Dialled, Arrived
  <2>2. rbuf'[c] = <<>> \/ rbuf'[c] = rbuf[c]
    BY <1>11 DEF KidGone, Onward, Unanswered, Dialled, KidSame
  <2>3. Ready(c)' => Ready(c)
    BY <1>11 DEF KidGone, Onward, Unanswered, Dialled, KidSame, Turns, Ready, Kept
  <2> QED
    BY <1>0, <1>3, <2>1, <2>2, <2>3, NoQuitNone DEF out
<1>12. CASE Left(c)
  <2>1. Arrived(c)'
    BY <1>2, <1>12 DEF Left, Arrived
  <2>2. Ready(c)' => Ready(c) /\ chan'[c] = chan[c] /\ rbuf'[c] = rbuf[c]
    BY <1>12 DEF Left, Ready, Kept, Running, KidSame
  <2> QED
    BY <1>0, <1>3, <2>1, <2>2 DEF out
<1> QED
  BY <1>1, <1>4, <1>7, <1>8, <1>9, <1>10, <1>11, <1>12 DEF Using

(* hence every step.                                                         *)
LEMMA HarmlessStep ==
    IInv /\ Linked /\ (\A c \in Clients : Expects(c)) /\ Harmless /\ [Next]_vars
    => Harmless'
<1> SUFFICES ASSUME IInv, Linked, \A c \in Clients : Expects(c), Harmless, [Next]_vars
             PROVE  Harmless'
  OBVIOUS
<1>1. CASE UNCHANGED vars
  BY <1>1 DEF vars, Harmless, Arrived, Quitless, Ready, Kept, out
<1> QED
  BY <1>1, HarmlessServe, HarmlessUse DEF Next

(* It is always true.                                                        *)
LEMMA HarmlessAlways ==
    Spec => [](IInv /\ Linked /\ (\A c \in Clients : Expects(c)) /\ Harmless)
BY InitInv, LinkedInit, ExpectsInit, HarmlessInit, StepInv, LinkedStep, ExpectsStep,
   HarmlessStep, PTL DEF Spec

(* At its prompt a client is at most one answer behind: of what has been     *)
(* sent and not come back there is no more than Most says, and what is in a  *)
(* process counts as much as its buffer holds (do_socket, TCPEchoServer.c).  *)
(* Its child finds no quit, as none is typed before the child is killed that *)
(* a process of the server sends back (HandleTCPClient.c).                   *)
THEOREM AnswersAreFew == Spec => []OneBehind
<1>1. ASSUME IInv, \A c \in Clients : Expects(c), Harmless
      PROVE  OneBehind
  <2>0. ASSUME NEW c \in Clients, child[c] = "read", NEW i \in 1..Len(out(c))
        PROVE  out(c)[i].t # "quit"
    <3>1. Ready(c) /\ Quitless(c)
      BY <1>1, <2>0 DEF Ready, Kept, Harmless
    <3> QED
      BY <2>0, <3>1 DEF Quitless, NoQuit
  <2> SUFFICES ASSUME NEW c \in Clients, MAt(c, "prompt"), Served(c)
               PROVE  Coming(c) + Going(c) + Cardinality(Pieces(c)) <= 1
    BY <2>0 DEF OneBehind, Coming, Going
  <2>1. Upto(c) /\ limit(c) \in {0, 1}
    <3>1. Held(c) /\ main[c].pc = "prompt"
      BY DEF Held, Live, Served, MAt
    <3> QED
      BY <1>1, <3>1 DEF Expects, Unshaken, Shaken, limit, Most
  <2>2. /\ Way(c) \in Nat /\ Coming(c) \in Nat /\ Going(c) \in Nat /\ Inside(c) \in Nat
        /\ \A p \in Procs : Weight(p, c) \in Nat /\ proc[p].rbuf \in Seq(Unit)
    BY <1>1, Weights
  <2>3. Coming(c) + Going(c) <= Way(c)
    BY <2>2 DEF Way
  <2> SUFFICES Way(c) + Cardinality(Pieces(c)) <= 1 /\ Cardinality(Pieces(c)) \in Nat
    BY <2>2, <2>3
  <2>4. ASSUME NEW p \in Pieces(c) PROVE p \in Procs /\ Weight(p, c) >= 1
    <3>1. p \in Procs /\ proc[p].pc = "write" /\ proc[p].con = c /\ proc[p].rbuf # <<>>
      BY <1>1 DEF Pieces, IInv, Buffers
    <3>2. Weight(p, c) = Len(proc[p].rbuf)
      BY <3>1 DEF Weight, Engaged, At
    <3> QED
      BY <2>2, <3>1, <3>2
  <2>5. CASE Pieces(c) = {}
    <3>1. Cardinality(Pieces(c)) = 0
      BY <2>5, FS_EmptySet
    <3>2. \A p \in Procs : Way(c) <= 1
      BY <2>1, <2>2 DEF Upto
    <3> QED
      BY <2>2, <3>1, <3>2, TalkAssumption
  <2>6. CASE Pieces(c) # {}
    <3>1. PICK p \in Pieces(c) : TRUE
      BY <2>6
    <3>2. \A q \in Pieces(c) : q = p
      BY <2>1, <2>2, <2>4 DEF Upto
    <3>3. Pieces(c) = {p}
      BY <3>1, <3>2
    <3>4. Cardinality(Pieces(c)) = 1
      BY <3>3, FS_Singleton
    <3> QED
      BY <2>1, <2>2, <2>4, <3>1, <3>4 DEF Upto
  <2> QED
    BY <2>5, <2>6
<1> QED
  BY <1>1, HarmlessAlways, PTL

(* A client that waits while nothing of its own is under way has lost its    *)
(* last line to a quit, a handshake or the end of a process, be it that of   *)
(* its own child: the line is in one place, and that it came back the client *)
(* would have seen.                                                          *)
THEOREM WaitsAreExplained == Spec => []WaitExplained
<1>1. ASSUME IInv, \A c \in Clients : Expects(c)
      PROVE  WaitExplained
  <2> SUFFICES ASSUME NEW c \in Clients, MAt(c, "recv"), Served(c), Silent(c)
               PROVE  main[c].sent \in hist[c].lost
    BY DEF WaitExplained
  <2>1. main[c].sent > 0 /\ main[c].sent \notin main[c].got /\ main[c].sent \in Nat
    <3>1. Held(c)
      BY DEF Held, Live, Served
    <3> QED
      BY <1>1, <3>1 DEF Expects, IInv, TypeOK, Main
  <2>2. main[c].sent \in UNION {Numbered(c, x) : x \in Places}
    BY <1>1, <2>1 DEF IInv, OneClient, Parted
  <2>3. PICK x \in Places : main[c].sent \in Numbered(c, x)
    BY <2>2
  <2>4. /\ out(c) = <<>> /\ chan[c].in["s"] = <<>> /\ rbuf[c] = <<>>
        /\ \A p \in Procs : proc[p].con = c => proc[p].rbuf = <<>>
    BY DEF Silent, Pieces, Sides, out
  <2>5. x # Got /\ x # Out /\ x # In /\ x # Kid /\ \A p \in Procs : x # Buf(p)
    BY <2>1, <2>3, <2>4, NumberedAre, NumbersEmpty
  <2> QED
    BY <2>3, <2>5, PlacesAre, NumberedAre
<1> QED
  BY <1>1, ExpectsAlways, PTL

-----------------------------------------------------------------------------
(* The order of a client's lines.  As long as one process only has shaken    *)
(* hands with it, that one alone reads what the client sends; what has been  *)
(* written back, what is in the process and what was not read then stand in  *)
(* the order in which they were typed.                                       *)
Before(us, vs) == \A m \in Numbers(us), n \in Numbers(vs) : m < n
Chain(us, vs, ws) ==
    /\ Ordered(us) /\ Ordered(vs) /\ Ordered(ws)
    /\ Before(us, vs) /\ Before(us, ws) /\ Before(vs, ws)
InTurn(c) == Served(c) =>
    /\ hist[c].hands = 0 => Engaged(c) = {}
    /\ hist[c].hands <= 1 =>
         /\ \A p, q \in Engaged(c) : p = q
         /\ Chain(out(c), <<>>, chan[c].in["s"])
         /\ \A p \in Engaged(c) : Chain(out(c), proc[p].rbuf, chan[c].in["s"])

(* Sequences that are in order, one after the other.                         *)
LEMMA OrderedConcat ==
    ASSUME NEW us \in Seq(Unit), NEW vs \in Seq(Unit), Ordered(us), Ordered(vs),
           Before(us, vs)
    PROVE  Ordered(us \o vs)
<1> DEFINE w == us \o vs
<1>1. /\ Len(w) = Len(us) + Len(vs) /\ Len(us) \in Nat /\ Len(vs) \in Nat
      /\ \A i \in 1..Len(us) : w[i] = us[i]
      /\ \A i \in 1..Len(w) : i > Len(us) => w[i] = vs[i - Len(us)]
  OBVIOUS
<1> HIDE DEF w
<1>2. ASSUME NEW i \in 1..Len(w), NEW j \in 1..Len(w), i < j, w[i].n # 0, w[j].n # 0
      PROVE  w[i].n < w[j].n
  <2>1. CASE j <= Len(us)
    <3>1. i \in 1..Len(us) /\ j \in 1..Len(us)
      BY <1>1, <1>2, <2>1
    <3> QED
      BY <1>1, <1>2, <3>1 DEF Ordered
  <2>2. CASE i > Len(us)
    <3>1. /\ i - Len(us) \in 1..Len(vs) /\ j - Len(us) \in 1..Len(vs)
          /\ i - Len(us) < j - Len(us) /\ j > Len(us)
      BY <1>1, <1>2, <2>2
    <3> QED
      BY <1>1, <1>2, <2>2, <3>1 DEF Ordered
  <2>3. CASE i <= Len(us) /\ j > Len(us)
    <3>1. i \in 1..Len(us) /\ j - Len(us) \in 1..Len(vs)
      BY <1>1, <2>3
    <3>2. w[i].n \in Numbers(us)
      BY <1>1, <1>2, <3>1 DEF Numbers
    <3>3. w[j].n \in Numbers(vs)
      BY <1>1, <1>2, <2>3, <3>1 DEF Numbers
    <3> QED
      BY <3>2, <3>3 DEF Before
  <2> QED
    BY <1>1, <2>1, <2>2, <2>3
<1> QED
  BY <1>2 DEF Ordered, w

(* What is received stands before what is left.                              *)
LEMMA OrderedSplit ==
    ASSUME NEW us \in Seq(Unit), NEW j \in 0..Len(us), Ordered(us)
    PROVE  LET a == SubSeq(us, 1, j)
               b == SubSeq(us, j + 1, Len(us))
           IN Ordered(a) /\ Ordered(b) /\ Before(a, b)
<1> DEFINE a == SubSeq(us, 1, j)
           b == SubSeq(us, j + 1, Len(us))
<1>1. /\ Len(a) = j /\ Len(b) = Len(us) - j /\ Len(us) \in Nat /\ j \in Nat /\ j <= Len(us)
      /\ \A i \in 1..Len(a) : a[i] = us[i]
      /\ \A i \in 1..Len(b) : b[i] = us[i + j]
  OBVIOUS
<1> HIDE DEF a, b
<1>2. Ordered(a)
  <2>1. \A i \in 1..Len(a) : i \in 1..Len(us)
    BY <1>1
  <2> QED
    BY <1>1, <2>1 DEF Ordered
<1>3. Ordered(b)
  <2> SUFFICES ASSUME NEW i \in 1..Len(b), NEW k \in 1..Len(b), i < k,
                      b[i].n # 0, b[k].n # 0
               PROVE  b[i].n < b[k].n
    BY DEF Ordered
  <2>1. i + j \in 1..Len(us) /\ k + j \in 1..Len(us) /\ i + j < k + j
    BY <1>1
  <2> QED
    BY <1>1, <2>1 DEF Ordered
<1>4. ASSUME NEW m \in Numbers(a), NEW n \in Numbers(b) PROVE m < n
  <2>1. PICK i \in 1..Len(a) : a[i].n = m /\ m # 0
    BY DEF Numbers
  <2>2. PICK k \in 1..Len(b) : b[k].n = n /\ n # 0
    BY DEF Numbers
  <2>3. i \in 1..Len(us) /\ k + j \in 1..Len(us) /\ i < k + j
    BY <1>1
  <2>4. a[i] = us[i] /\ b[k] = us[k + j]
    BY <1>1
  <2> QED
    BY <2>1, <2>2, <2>3, <2>4 DEF Ordered
<1> QED
  BY <1>2, <1>3, <1>4 DEF Before, a, b

(* What reading, writing and hearing do to a chain.                          *)
LEMMA ChainRead ==
    ASSUME NEW us \in Seq(Unit), NEW vs \in Seq(Unit), NEW ws \in Seq(Unit),
           NEW j \in 1..Len(ws), Chain(us, vs, ws)
    PROVE  LET b == SubSeq(ws, j + 1, Len(ws)) IN
           Chain(us, vs, b) /\ Chain(us, <<>>, b) /\ Chain(us, SubSeq(ws, 1, j), b)
<1> DEFINE a == SubSeq(ws, 1, j)
           b == SubSeq(ws, j + 1, Len(ws))
<1>1. Ordered(a) /\ Ordered(b) /\ Before(a, b)
  BY OrderedSplit DEF Chain
<1>2. Numbers(a) \subseteq Numbers(ws) /\ Numbers(b) \subseteq Numbers(ws)
  BY NumbersSplit
<1> HIDE DEF a, b
<1>3. Before(us, a) /\ Before(us, b) /\ Before(vs, b)
  BY <1>2 DEF Chain, Before
<1>4. Ordered(<<>>) /\ \A s : Before(s, <<>>) /\ Before(<<>>, s)
  BY NumbersEmpty DEF Ordered, Before
<1> QED
  BY <1>1, <1>3, <1>4 DEF Chain, a, b

(* What is written back goes to the end of what was written before.          *)
LEMMA ChainWrite ==
    ASSUME NEW us \in Seq(Unit), NEW vs \in Seq(Unit), NEW ws \in Seq(Unit),
           Chain(us, vs, ws)
    PROVE  Chain(us \o vs, <<>>, ws)
<1>1. Ordered(us \o vs)
  BY OrderedConcat DEF Chain
<1>2. Before(us \o vs, ws)
  BY NumbersConcat DEF Chain, Before
<1>3. Ordered(<<>>) /\ \A s : Before(s, <<>>) /\ Before(<<>>, s)
  BY NumbersEmpty DEF Ordered, Before
<1> QED
  BY <1>1, <1>2, <1>3 DEF Chain

(* What is received leaves the front.                                        *)
LEMMA ChainHear ==
    ASSUME NEW us \in Seq(Unit), NEW vs \in Seq(Unit), NEW ws \in Seq(Unit),
           NEW j \in 0..Len(us), Chain(us, vs, ws)
    PROVE  Chain(SubSeq(us, j + 1, Len(us)), vs, ws)
<1> DEFINE b == SubSeq(us, j + 1, Len(us))
<1>1. Ordered(b)
  BY OrderedSplit DEF Chain
<1>2. Numbers(b) \subseteq Numbers(us)
  <2>1. CASE j = 0
    <3>1. b = us
      BY <2>1
    <3> QED
      BY <3>1
  <2>2. CASE j \in 1..Len(us)
    BY <2>2, NumbersSplit
  <2>3. j = 0 \/ j \in 1..Len(us)
    OBVIOUS
  <2> QED
    BY <2>1, <2>2, <2>3
<1> HIDE DEF b
<1>3. Before(b, vs) /\ Before(b, ws)
  BY <1>2 DEF Chain, Before
<1> QED
  BY <1>1, <1>3 DEF Chain, b

(* A line that is typed comes after all others.                              *)
LEMMA ChainSpeak ==
    ASSUME NEW us \in Seq(Unit), NEW vs \in Seq(Unit), NEW ws \in Seq(Unit),
           NEW u \in Unit, Chain(us, vs, ws),
           \A n \in Numbers(us) \cup Numbers(vs) \cup Numbers(ws) : n < u.n
    PROVE  Chain(us, vs, ws \o <<u>>)
<1>1. <<u>> \in Seq(Unit) /\ Numbers(<<u>>) \subseteq {u.n}
  BY NumbersOne
<1>2. Ordered(<<u>>)
  <2>1. Len(<<u>>) = 1
    OBVIOUS
  <2> QED
    BY <2>1 DEF Ordered
<1>3. Before(us, <<u>>) /\ Before(vs, <<u>>) /\ Before(ws, <<u>>)
  BY <1>1 DEF Before
<1>4. Ordered(ws \o <<u>>) /\ Numbers(ws \o <<u>>) = Numbers(ws) \cup Numbers(<<u>>)
  BY <1>1, <1>2, <1>3, OrderedConcat, NumbersConcat DEF Chain
<1>5. Before(us, ws \o <<u>>) /\ Before(vs, ws \o <<u>>)
  BY <1>3, <1>4 DEF Chain, Before
<1> QED
  BY <1>4, <1>5 DEF Chain

(* What its own process does for a client.                                   *)
LEMMA InTurnAttended ==
    ASSUME IInv, NEW c \in Clients, Served(c), InTurn(c), NEW p \in Procs,
           proc[p].con = c, chan[c].end["c"] = "open", Attended(p, c)
    PROVE  InTurn(c)'
<1> DEFINE us == chan[c].in["s"]
           vs == chan'[c].in["s"]
<1>1. /\ out(c) \in Seq(Unit) /\ us \in Seq(Unit) /\ <<>> \in Seq(Unit)
      /\ \A r \in Procs : proc[r].rbuf \in Seq(Unit)
      /\ hist[c].hands \in Nat
      /\ out(c) = chan[c].in["c"] /\ out(c)' = chan'[c].in["c"]
  <2>1. hist[c].hands \in Nat
    BY DEF IInv, TypeOK, History
  <2> QED
    BY <2>1, Weights DEF out
<1>2. ASSUME NEW from, NEW to, Steps(p, from, to), from \in {"hi", "read", "write"},
             hist'[c].hands = hist[c].hands,
             Chain(out(c), proc[p].rbuf, us) => /\ Chain(out(c)', <<>>, vs)
                                                /\ Chain(out(c)', proc'[p].rbuf, vs)
      PROVE  InTurn(c)'
  <2>1. p \in Engaged(c) /\ \A r \in Engaged(c)' : r \in Engaged(c) /\ (r # p => proc'[r] = proc[r])
    BY <1>2 DEF Steps, Engaged
  <2>2. SUFFICES ASSUME hist[c].hands <= 1
                 PROVE  /\ \A r, q \in Engaged(c)' : r = q
                        /\ Chain(out(c)', <<>>, vs)
                        /\ \A r \in Engaged(c)' : Chain(out(c)', proc'[r].rbuf, vs)
    BY <1>2, <2>1 DEF InTurn
  <2>3. Chain(out(c), proc[p].rbuf, us) /\ \A r \in Engaged(c)' : r = p
    BY <2>1, <2>2 DEF InTurn
  <2> QED
    BY <1>2, <2>3
<1>3. ASSUME NEW j \in 1..Len(us), Takes(c, j)
      PROVE  /\ vs = SubSeq(us, j + 1, Len(us)) /\ out(c)' = out(c)
             /\ \A b \in Seq(Unit) : Chain(out(c), b, us) =>
                  /\ Chain(out(c)', b, vs) /\ Chain(out(c)', <<>>, vs)
                  /\ Chain(out(c)', SubSeq(us, 1, j), vs)
  <2>1. vs = SubSeq(us, j + 1, Len(us)) /\ out(c)' = out(c)
    BY <1>1, <1>3 DEF Takes
  <2> QED
    BY <1>1, <2>1, ChainRead
<1>4. ASSUME NEW j \in 1..Len(us), Shook(p, c, j) PROVE InTurn(c)'
  <2>1. /\ Takes(c, j) /\ hist'[c].hands = hist[c].hands + 1 /\ proc'[p].rbuf = <<>>
        /\ \A r \in Engaged(c)' : r \in Engaged(c) \cup {p}
    BY <1>4 DEF Shook, Hands, Steps, Engaged
  <2> SUFFICES ASSUME hist'[c].hands <= 1
               PROVE  /\ \A r, q \in Engaged(c)' : r = q
                      /\ Chain(out(c)', <<>>, vs)
                      /\ \A r \in Engaged(c)' : Chain(out(c)', proc'[r].rbuf, vs)
    BY <1>1, <2>1 DEF InTurn
  <2>2. hist[c].hands = 0
    BY <1>1, <2>1
  <2>3. Engaged(c) = {} /\ Chain(out(c), <<>>, us)
    BY <2>2 DEF InTurn
  <2> QED
    BY <1>1, <1>3, <2>1, <2>3
<1>5. ASSUME NEW j \in 1..Len(us), ReadQuit(p, c, j) PROVE InTurn(c)'
  <2>1. Takes(c, j) /\ Steps(p, "read", "kill") /\ proc'[p].rbuf = <<>>
        /\ hist'[c].hands = hist[c].hands
    BY <1>1, <1>5 DEF ReadQuit, Hands
  <2> QED
    BY <1>1, <1>2, <1>3, <2>1
<1>6. ASSUME NEW j \in 1..Len(us), ReadLine(p, c, j) PROVE InTurn(c)'
  <2>1. Takes(c, j) /\ Steps(p, "read", "write") /\ proc'[p].rbuf = SubSeq(us, 1, j)
        /\ hist'[c].hands = hist[c].hands
    BY <1>1, <1>6 DEF ReadLine, Hands
  <2> QED
    BY <1>1, <1>2, <1>3, <2>1
<1>7. ASSUME SaidHi(p, c) PROVE InTurn(c)'
  <2>1. /\ Steps(p, "hi", "read") /\ proc'[p].rbuf = <<>> /\ hist'[c].hands = hist[c].hands
        /\ out(c)' = out(c) \o <<Hi>> /\ vs = us /\ proc[p].rbuf = <<>>
    BY <1>1, <1>7 DEF SaidHi, Hands, Puts, Steps, IInv, Buffers
  <2>2. Hi \in Unit /\ Hi.n = 0 /\ <<Hi>> \in Seq(Unit)
    BY DEF Hi, Unit
  <2>3. Numbers(<<Hi>>) = {}
    BY <2>2, NumbersOne
  <2>4. Ordered(<<Hi>>)
    <3>1. Len(<<Hi>>) = 1
      OBVIOUS
    <3> QED
      BY <3>1 DEF Ordered
  <2>5. Chain(out(c), <<>>, us) => Chain(out(c), <<Hi>>, us)
    BY <2>3, <2>4 DEF Chain, Before
  <2>6. Chain(out(c), <<>>, us) => Chain(out(c)', <<>>, vs)
    BY <1>1, <2>1, <2>2, <2>5, ChainWrite
  <2> QED
    BY <1>2, <2>1, <2>6
<1>8. ASSUME WroteBack(p, c) PROVE InTurn(c)'
  <2>1. /\ Steps(p, "write", "read") /\ proc'[p].rbuf = <<>> /\ hist'[c].hands = hist[c].hands
        /\ out(c)' = out(c) \o proc[p].rbuf /\ vs = us
    <3>1. Steps(p, "write", "read") /\ proc'[p].rbuf = <<>> /\ Puts(c, proc[p].rbuf)
      BY <1>8 DEF WroteBack
    <3>2. hist'[c].hands = hist[c].hands
      BY <1>1, <1>8 DEF WroteBack, Hands
    <3>3. chan'[c].in["c"] = chan[c].in["c"] \o proc[p].rbuf /\ vs = us
      BY <3>1 DEF Puts
    <3>4. out(c)' = out(c) \o proc[p].rbuf
      BY <1>1, <3>3
    <3> QED
      BY <3>1, <3>2, <3>3, <3>4
  <2>2. Chain(out(c), proc[p].rbuf, us) => Chain(out(c)', <<>>, vs)
    BY <1>1, <2>1, ChainWrite
  <2> QED
    BY <1>2, <2>1, <2>2
<1>9. ASSUME NEW j \in 1..Len(us), vs = SubSeq(us, j + 1, Len(us)),
             chan'[c].in["c"] = chan[c].in["c"], Hands(c, 0),
             \A r \in Engaged(c)' : r \in Engaged(c) /\ proc'[r] = proc[r]
      PROVE  InTurn(c)'
  <2>1. hist'[c].hands = hist[c].hands /\ out(c)' = out(c)
    BY <1>1, <1>9 DEF Hands
  <2>2. \A b \in Seq(Unit) : Chain(out(c), b, us) => Chain(out(c), b, vs)
    BY <1>1, <1>9, ChainRead
  <2>3. \A r \in Engaged(c)' : r \in Engaged(c) /\ proc'[r].rbuf = proc[r].rbuf
                               /\ proc[r].rbuf \in Seq(Unit)
    BY <1>1, <1>9 DEF Engaged
  <2> QED
    BY <1>1, <2>1, <2>2, <2>3 DEF InTurn
<1> QED
  BY <1>4, <1>5, <1>6, <1>7, <1>8, <1>9 DEF Attended

(* Init and every other step keep that.                                      *)
LEMMA InTurnInit == Init => \A c \in Clients : InTurn(c)
<1> SUFFICES ASSUME Init, NEW c \in Clients PROVE InTurn(c)
  OBVIOUS
<1>1. out(c) = <<>> /\ chan[c].in["s"] = <<>> /\ Engaged(c) = {}
  BY DEF Init, Sides, out, Engaged
<1>2. Chain(<<>>, <<>>, <<>>)
  BY NumbersEmpty DEF Chain, Ordered, Before
<1> QED
  BY <1>1, <1>2 DEF InTurn

(* Nothing is there that was not, or less of it is.                          *)
LEMMA InTurnKeeps ==
    ASSUME NEW c \in Clients, InTurn(c), Served(c)' => Served(c), chan'[c].in = chan[c].in,
           hist'[c].hands = hist[c].hands,
           \A r \in Engaged(c)' : r \in Engaged(c) /\ proc'[r] = proc[r]
    PROVE  InTurn(c)'
<1>1. out(c)' = out(c) /\ chan'[c].in["s"] = chan[c].in["s"]
  BY DEF out
<1>2. \A r \in Engaged(c)' : r \in Engaged(c) /\ proc'[r].rbuf = proc[r].rbuf
  BY DEF Engaged
<1> QED
  BY <1>1, <1>2 DEF InTurn

(* A step of the server is its own or leaves less.                           *)
LEMMA InTurnServe ==
    ASSUME IInv, Linked, NEW c \in Clients, InTurn(c), NEW p \in Procs, Serve(p)
    PROVE  InTurn(c)'
<1> SUFFICES ASSUME Served(c)' PROVE InTurn(c)'
  BY DEF InTurn
<1>1. /\ Served(c) /\ chan[c].end["c"] = "open"
      /\ Bystander(c) \/ (proc[p].con = c /\ Attended(p, c))
  <2>1. Held(c)'
    BY DEF Held, Live, Served
  <2> QED
    BY <2>1, ServedSees DEF Held, Served, Running
<1>2. CASE Bystander(c)
  BY <1>1, <1>2, InTurnKeeps DEF Bystander
<1>3. CASE proc[p].con = c /\ Attended(p, c)
  BY <1>1, <1>3, InTurnAttended
<1> QED
  BY <1>1, <1>2, <1>3

(* All numbers of a client are numbers of lines it has sent.                 *)
LEMMA NumbersSent ==
    ASSUME IInv, NEW c \in Clients, Served(c)
    PROVE  /\ main[c].sent \in Nat
           /\ \A n \in Numbers(out(c)) : n < main[c].sent + 1
           /\ \A n \in Numbers(chan[c].in["s"]) : n < main[c].sent + 1
           /\ \A p \in Engaged(c) : \A n \in Numbers(proc[p].rbuf) : n < main[c].sent + 1
<1>1. UNION {Numbered(c, x) : x \in Places} = 1..main[c].sent /\ main[c].sent \in Nat
  BY DEF IInv, OneClient, Parted, TypeOK, Main
<1>2. /\ Numbers(out(c)) \subseteq 1..main[c].sent
      /\ Numbers(chan[c].in["s"]) \subseteq 1..main[c].sent
  BY <1>1, PlacesAre, NumberedAre
<1>3. \A p \in Engaged(c) : Numbers(proc[p].rbuf) \subseteq 1..main[c].sent
  <2> SUFFICES ASSUME NEW p \in Engaged(c) PROVE Numbers(proc[p].rbuf) \subseteq 1..main[c].sent
    OBVIOUS
  <2>1. p \in Procs /\ proc[p].con = c
    BY DEF Engaged
  <2>2. Buf(p) \in Places /\ Numbered(c, Buf(p)) = Numbers(proc[p].rbuf)
    BY <2>1, PlacesAre, NumberedAre
  <2> QED
    BY <1>1, <2>2
<1> QED
  BY <1>1, <1>2, <1>3

(* What the child of a client writes back to the server, the server has      *)
(* nothing else of.                                                          *)
LEMMA KidAlone ==
    ASSUME IInv, NEW c \in Clients, Served(c), Expects(c),
           NEW us \in Seq(Unit), us # <<>>, KidPut(c, us)
    PROVE  /\ Len(us) = 1 /\ out(c) = <<>> /\ chan[c].in["s"] = <<>>
           /\ \A p \in Engaged(c) : proc[p].rbuf = <<>>
<1>1. /\ Coming(c) \in Nat /\ Going(c) \in Nat /\ out(c) \in Seq(Unit)
      /\ chan[c].in["s"] \in Seq(Unit)
      /\ \A p \in Procs : Weight(p, c) \in Nat /\ proc[p].rbuf \in Seq(Unit)
  BY Weights
<1>2. Upto(c) /\ limit(c) <= 1
  <2>1. Held(c) /\ Kept(c) /\ child[c] \notin {"none", "hello", "dead"}
    BY DEF Held, Live, Served, Kept, KidPut
  <2> QED
    BY <2>1 DEF Expects, Unshaken, Shaken, limit, Most
<1>3. Inside(c) = Len(us) /\ Len(us) \in Nat /\ Len(us) >= 1
  <2>1. Len(<<Hi>>) = 1
    OBVIOUS
  <2>2. Len(us) \in Nat /\ Len(us) >= 1
    OBVIOUS
  <2> QED
    BY <2>1, <2>2 DEF Inside, KidPut
<1>4. limit(c) \in Nat
  BY Mosts
<1>5. \A p \in Procs : Coming(c) + Going(c) + Len(us) + Weight(p, c) <= 1
  BY <1>1, <1>2, <1>3, <1>4 DEF Upto, Way
<1>6. Len(us) = 1 /\ Coming(c) = 0 /\ Going(c) = 0 /\ \A p \in Procs : Weight(p, c) = 0
  BY <1>1, <1>3, <1>5, TalkAssumption
<1>7. out(c) = <<>> /\ chan[c].in["s"] = <<>>
  BY <1>1, <1>6 DEF Coming, Going
<1>8. ASSUME NEW p \in Engaged(c) PROVE proc[p].rbuf = <<>>
  <2>1. p \in Procs
    BY DEF Engaged
  <2>2. Len(proc[p].rbuf) = 0
    BY <1>6, <2>1 DEF Weight
  <2> QED
    BY <1>1, <2>1, <2>2
<1> QED
  BY <1>6, <1>7, <1>8

(* What a client types comes last.                                           *)
LEMMA InTurnUse ==
    ASSUME IInv, NEW c \in Clients, Expects(c), InTurn(c),
           NEW d \in Clients, Use(d) \/ Crash(d)
    PROVE  InTurn(c)'
<1>1. /\ Using(d) /\ Others(d) /\ UNCHANGED <<proc, fds>>
      /\ hist'[c].hands = hist[c].hands
  BY UseDoes
<1>2. ASSUME Served(c)' => Served(c), chan'[c].in = chan[c].in PROVE InTurn(c)'
  BY <1>1, <1>2, InTurnKeeps DEF Engaged
<1>3. CASE d # c
  BY <1>1, <1>2, <1>3 DEF Others, Served, Running
<1>4. CASE d = c
  <2> SUFFICES ASSUME Served(c)' PROVE InTurn(c)'
    BY DEF InTurn
  <2>0. CASE Left(c)
    BY <2>0 DEF Left, Served
  <2>1. CASE ~ Left(c)
    <3>1. Served(c)
      BY <1>1, <1>4, <2>1
      DEF Using, Spoke, Heard, KidShook, KidRead, KidPut, KidGone, Says, Received, Onward,
          Unanswered, Dialled, Turns, Served, Running
    <3>2. /\ out(c) \in Seq(Unit) /\ chan[c].in["s"] \in Seq(Unit) /\ <<>> \in Seq(Unit)
          /\ \A r \in Procs : proc[r].rbuf \in Seq(Unit)
      BY Weights
    <3>3. Engaged(c)' = Engaged(c) /\ hist'[c].hands = hist[c].hands /\ proc' = proc
          /\ \A r \in Engaged(c) : r \in Procs
      BY <1>1 DEF Engaged
    <3>4. CASE \E u \in Unit : Spoke(c, u)
      <4>1. PICK u \in Unit : Spoke(c, u)
        BY <3>4
      <4>2. /\ chan'[c].in["s"] = chan[c].in["s"] \o <<u>> /\ out(c)' = out(c)
            /\ u.n = main[c].sent + 1
        BY <3>1, <4>1 DEF Spoke, Says, Served, out
      <4>3. ASSUME NEW b \in Seq(Unit), \A n \in Numbers(b) : n < u.n,
                   Chain(out(c), b, chan[c].in["s"])
            PROVE  Chain(out(c)', b, chan'[c].in["s"])
        BY <3>1, <3>2, <4>2, <4>3, NumbersSent, ChainSpeak
      <4>4. \A r \in Engaged(c) : \A n \in Numbers(proc[r].rbuf) : n < u.n
        BY <3>1, <4>2, NumbersSent
      <4>5. \A n \in Numbers(<<>>) : n < u.n
        BY NumbersEmpty
      <4> QED
        BY <3>1, <3>2, <3>3, <4>3, <4>4, <4>5 DEF InTurn
    <3>5. ASSUME NEW j \in 1..Len(out(c)), Received(c, j) PROVE InTurn(c)'
      <4>1. chan'[c].in["s"] = chan[c].in["s"] /\ out(c)' = SubSeq(out(c), j + 1, Len(out(c)))
        BY <3>5 DEF Received, out
      <4>2. j \in 0..Len(out(c))
        BY <3>2, <3>5
      <4>3. \A b \in Seq(Unit) : Chain(out(c), b, chan[c].in["s"]) =>
                                   Chain(out(c)', b, chan'[c].in["s"])
        BY <3>2, <4>1, <4>2, ChainHear
      <4> QED
        BY <3>1, <3>2, <3>3, <4>3 DEF InTurn
    <3>6. ASSUME NEW us \in Seq(Unit), KidPut(c, us) PROVE InTurn(c)'
      <4>1. out(c)' = out(c) /\ chan'[c].in["s"] = chan[c].in["s"] \o us
        BY <3>1, <3>6 DEF KidPut, Says, Served, out
      <4>2. CASE us = <<>>
        <5>1. chan'[c].in["s"] = chan[c].in["s"]
          BY <3>2, <4>1, <4>2
        <5> QED
          BY <3>1, <3>3, <4>1, <5>1 DEF InTurn
      <4>3. CASE us # <<>>
        <5>1. /\ Len(us) = 1 /\ out(c) = <<>> /\ chan[c].in["s"] = <<>>
              /\ \A p \in Engaged(c) : proc[p].rbuf = <<>>
          BY <3>1, <3>6, <4>3, KidAlone
        <5>2. chan'[c].in["s"] = us /\ out(c)' = <<>>
          BY <4>1, <5>1
        <5>3. Chain(<<>>, <<>>, us)
          <6>1. Ordered(us)
            BY <5>1 DEF Ordered
          <6> QED
            BY <6>1, NumbersEmpty DEF Chain, Ordered, Before
        <5> QED
          BY <3>1, <3>3, <5>1, <5>2, <5>3 DEF InTurn
      <4> QED
        BY <4>2, <4>3
    <3>7. CASE Onward(c) \/ Dialled(c) \/ Unanswered(c) \/ KidGone(c)
      BY <1>2, <3>1, <3>7 DEF Onward, Dialled, Unanswered, KidGone
    <3> QED
      BY <1>1, <1>4, <2>1, <3>4, <3>5, <3>6, <3>7 DEF Using, Heard, KidShook, KidRead
  <2> QED
    BY <2>0, <2>1
<1> QED
  BY <1>3, <1>4

(* Every step keeps the order.                                               *)
LEMMA InTurnStep ==
    IInv /\ Linked /\ (\A c \in Clients : Expects(c) /\ InTurn(c)) /\ [Next]_vars
    => (\A c \in Clients : InTurn(c))'
<1> SUFFICES ASSUME IInv, Linked, \A c \in Clients : Expects(c) /\ InTurn(c), [Next]_vars,
                    NEW c \in Clients
             PROVE  InTurn(c)'
  OBVIOUS
<1>1. CASE UNCHANGED vars
  BY <1>1, InTurnKeeps DEF vars, Served, Running, Engaged
<1> QED
  BY <1>1, InTurnServe, InTurnUse DEF Next

(* It is always kept.                                                        *)
LEMMA InTurnAlways ==
    Spec => []((IInv /\ Linked /\ \A c \in Clients : Expects(c)) /\ \A c \in Clients : InTurn(c))
<1>1. (IInv /\ Linked /\ \A c \in Clients : Expects(c)) /\ (\A c \in Clients : InTurn(c))
      /\ [Next]_vars => (\A c \in Clients : InTurn(c))'
  BY InTurnStep
<1> QED
  BY <1>1, ExpectsAlways, InTurnInit, PTL DEF Spec

(* With one process at work for it a client gets its lines back in the order *)
(* in which it typed them: what is written back, held and not read yet is    *)
(* one chain (do_socket, TCPEchoServer.c).                                   *)
THEOREM LinesInOrder == Spec => []OrderKept
<1>1. ASSUME IInv, \A c \in Clients : InTurn(c)
      PROVE  OrderKept
  <2> SUFFICES ASSUME NEW c \in Clients, Served(c), hist[c].hands <= 1,
                      NEW p \in Procs, Pieces(c) \subseteq {p}
               PROVE  Ordered(out(c) \o (IF Pieces(c) = {} THEN <<>> ELSE proc[p].rbuf)
                                     \o chan[c].in["s"])
    BY DEF OrderKept
  <2>1. /\ out(c) \in Seq(Unit) /\ chan[c].in["s"] \in Seq(Unit) /\ <<>> \in Seq(Unit)
        /\ proc[p].rbuf \in Seq(Unit)
    BY <1>1, Weights
  <2>2. PICK b \in Seq(Unit) : /\ b = (IF Pieces(c) = {} THEN <<>> ELSE proc[p].rbuf)
                               /\ Chain(out(c), b, chan[c].in["s"])
    <3>1. CASE Pieces(c) = {}
      BY <1>1, <2>1, <3>1 DEF InTurn
    <3>2. CASE Pieces(c) # {}
      <4>1. p \in Pieces(c)
        BY <3>2
      <4>2. p \in Engaged(c)
        BY <1>1, <4>1 DEF Pieces, Engaged, IInv, Buffers
      <4>3. Chain(out(c), proc[p].rbuf, chan[c].in["s"])
        BY <1>1, <4>2 DEF InTurn
      <4> QED
        BY <2>1, <3>2, <4>3
    <3> QED
      BY <3>1, <3>2
  <2>3. Chain(out(c) \o b, <<>>, chan[c].in["s"]) /\ out(c) \o b \in Seq(Unit)
    BY <2>1, <2>2, ChainWrite, NumbersConcat
  <2>4. Ordered((out(c) \o b) \o chan[c].in["s"])
    BY <2>1, <2>3, OrderedConcat DEF Chain
  <2> QED
    BY <2>2, <2>4
<1> QED
  BY <1>1, InTurnAlways, PTL

-----------------------------------------------------------------------------
(* Why somebody is left to serve, as long as nobody has typed quit first or  *)
(* has gone.  A client that nobody talks to yet has nothing to send but its  *)
(* first line and a hello, or the hello alone, and its child has nothing;    *)
Mute(c) == chan[c].end["s"] = "open" /\ out(c) = <<>> /\ child[c] \in {"none", "hello", "dead"}
FreshS(c) ==
    /\ Mute(c)
    /\ main[c].pc \in {"connect", "fork", "key", "kill", "hello", "hi"}
    /\ main[c].pc \in {"connect", "fork", "key"} => chan[c].in["s"] = <<>>
    /\ main[c].pc \in {"kill", "hello"} => Len(chan[c].in["s"]) <= 1
    /\ main[c].pc = "hi" => /\ Len(chan[c].in["s"]) \in 1..2
                            /\ chan[c].in["s"][Len(chan[c].in["s"])].t = "hello"

(* once its first line has turned a process away, nothing but the hello,     *)
(* which the other process can take.                                         *)
WaitingS(c) ==
    /\ Mute(c)
    /\ main[c].pc \in {"kill", "hello", "hi"}
    /\ \/ chan[c].in["s"] = <<>>
       \/ /\ main[c].pc = "hi" /\ Len(chan[c].in["s"]) = 1
          /\ chan[c].in["s"][1].t = "hello"

Excused == \E c \in Clients : main[c].quits > 0 \/ ~ Running(c)
Awaited(c) == MAt(c, "connect") \/ Queued(c) \/ \E p \in Procs : At(p, "fork") /\ proc[p].con = c
Welcomes(p, c) == At(p, "hello") /\ proc[p].con = c
Robust == \E p \in Procs :
    proc[p].pc \in {"accept", "fork", "hi", "read", "write", "kill"}
Lives ==
    \/ Robust
    \/ \E c \in Clients : \E p, q \in Procs :
         p # q /\ Welcomes(p, c) /\ Welcomes(q, c) /\ FreshS(c)
    \/ \E c \in Clients : \E p \in Procs : Welcomes(p, c) /\ WaitingS(c)
Surviving == Excused \/ (Lives /\ \A c \in Clients : Awaited(c) => FreshS(c))

(* With neither the connection nor the client changed all is as before.      *)
LEMMA FreshStays ==
    ASSUME NEW c \in Clients, chan'[c] = chan[c], main'[c] = main[c], child'[c] = child[c]
    PROVE  /\ FreshS(c) => FreshS(c)'
           /\ WaitingS(c) => WaitingS(c)'
BY DEF FreshS, WaitingS, Mute, out

(* Who is awaited after a step of the server was so before.                  *)
LEMMA AwaitedStays ==
    ASSUME IInv, NEW p \in Procs, Serve(p), NEW c \in Clients, Awaited(c)'
    PROVE  Awaited(c)
<1>1. main' = main
  BY DEF Serve
<1>2. MAt(c, "connect")' => MAt(c, "connect")
  BY <1>1 DEF MAt
<1>3. CASE Accept(p)
  <2>1. PICK d \in Clients : Accepted(p, d)
    BY <1>3, AcceptDoes
  <2>2. queue \in Seq(Clients) /\ queue # <<>> /\ queue' = Tail(queue)
    BY <2>1 DEF Accepted, IInv, TypeOK
  <2>3. /\ Len(queue') = Len(queue) - 1 /\ Len(queue) \in Nat
        /\ \A i \in 1..Len(queue') : queue'[i] = queue[i + 1]
    BY <2>2
  <2>4. \A i \in 1..Len(queue') : i + 1 \in 1..Len(queue)
    BY <2>3
  <2>5. Queued(c)' => Queued(c)
    BY <2>3, <2>4 DEF Queued
  <2>6. \A q \in Procs : At(q, "fork")' /\ proc'[q].con = c =>
          Queued(c) \/ (At(q, "fork") /\ proc[q].con = c)
    BY <2>1 DEF Accepted, At
  <2> QED
    BY <1>2, <2>5, <2>6 DEF Awaited
<1>4. ASSUME queue' \in {queue, <<>>},
             \A q \in Procs : proc'[q].pc = "fork" => proc'[q] = proc[q]
      PROVE  Awaited(c)
  BY <1>2, <1>4 DEF Awaited, Queued, At
<1>5. ASSUME NEW q \in Procs, Forked(p, q) PROVE Awaited(c)
  <2>1. queue' = queue /\ \A r \in Procs : proc'[r].pc = "fork" => proc'[r] = proc[r]
    BY <1>5, ForkDoes
  <2> QED
    BY <1>4, <2>1
<1>6. ASSUME NEW from, NEW to, Steps(p, from, to), to # "fork" PROVE Awaited(c)
  BY <1>4, <1>6 DEF Steps
<1>7. ASSUME NEW q \in Procs, KillsParent(p, q) PROVE Awaited(c)
  BY <1>4, <1>7 DEF KillsParent, Ended
<1>8. ASSUME NEW h, Ended(p, h), \A r \in Procs \ {p} : proc'[r] = proc[r]
      PROVE  Awaited(c)
  BY <1>4, <1>8 DEF Ended
<1>9. ASSUME NEW d, Serving(p, d) PROVE Awaited(c)
  BY <1>6, <1>8, <1>9 DEF Serving, Shook, ReadQuit, ReadLine, TurnedAway, SaidHi, WroteBack,
                          Deserted
<1> QED
  BY <1>3, <1>5, <1>6, <1>7, <1>9, ServeDoes DEF Forgot, KillsNobody

(* The end of a process touches nobody who is awaited, if others are left.   *)
LEMMA EndedSpares ==
    ASSUME IInv, Linked, UNCHANGED main, NEW q \in Procs, NEW h, Ended(q, h),
           \A s \in Procs \ {q} : proc'[s] = proc[s] \/ proc'[s].pc = "accept",
           NEW r \in Procs, r # q, Alive(r), NEW c \in Clients, Awaited(c)'
    PROVE  chan'[c] = h[c]
<1>1. CASE MAt(c, "connect")' \/ Queued(c)'
  <2>1. queue' = queue
    BY DEF Ended
  <2>2. MAt(c, "connect") \/ Queued(c)
    BY <1>1, <2>1 DEF MAt, Queued
  <2>3. c \notin fds[q]
    BY <2>2 DEF Linked, Unmet
  <2> QED
    BY <2>3 DEF Ended
<1>2. CASE \E s \in Procs : At(s, "fork")' /\ proc'[s].con = c
  <2>1. PICK s \in Procs : At(s, "fork")' /\ proc'[s].con = c
    BY <1>2
  <2>2. s # q /\ proc[s].pc = "fork" /\ proc[s].con = c
    BY <2>1 DEF Ended, At
  <2>3. c \in fds[s] /\ Alive(s)
    BY <2>2 DEF IInv, TypeOK, Alive
  <2> QED
    BY <2>2, <2>3 DEF Ended
<1> QED
  BY <1>1, <1>2 DEF Awaited

(* A process that shakes hands or talks has a client who is not awaited.     *)
LEMMA AwaitedAway ==
    ASSUME IInv, Linked, NEW p \in Procs, proc[p].pc \in {"hello", "hi", "read", "write"},
           NEW c \in Clients, Awaited(c)
    PROVE  proc[p].con # c
<1> SUFFICES ASSUME proc[p].con = c PROVE FALSE
  OBVIOUS
<1>1. c \in fds[p] /\ Serves(p, c)
  BY DEF IInv, TypeOK, Serves
<1>2. PICK q \in Procs : At(q, "fork") /\ proc[q].con = c
  BY <1>1 DEF Awaited, Linked, Unmet
<1>3. Serves(q, c)
  BY <1>2 DEF Serves, At
<1>4. p = q
  BY <1>1, <1>2, <1>3 DEF Linked, Crew
<1> QED
  BY <1>2, <1>4 DEF At

(* Hence a step of the server that leaves somebody alive leaves those who    *)
(* are awaited alone.                                                        *)
LEMMA AwaitedAlone ==
    ASSUME IInv, Linked, NEW p \in Procs, Serve(p), NEW c \in Clients, Awaited(c)',
           NEW r \in Procs, Alive(r)'
    PROVE  chan'[c] = chan[c]
<1>1. main' = main /\ Awaited(c)
  BY AwaitedStays DEF Serve
<1>2. CASE Accept(p)
  BY <1>2, AcceptDoes DEF Accepted
<1>3. CASE (\E q \in Procs : Forked(p, q)) \/ Forgot(p) \/ KillsNobody(p)
  BY <1>3, ForkDoes DEF Forgot, KillsNobody
<1>4. ASSUME NEW q \in Procs, KillsParent(p, q) PROVE chan'[c] = chan[c]
  <2>1. r # q /\ Alive(r)
    BY <1>4 DEF KillsParent, Ended, Alive, At
  <2> QED
    BY <1>1, <1>4, <2>1, EndedSpares DEF KillsParent
<1>5. ASSUME NEW d \in Clients, d = proc[p].con, Serving(p, d) PROVE chan'[c] = chan[c]
  <2>1. proc[p].pc \in {"hello", "hi", "read", "write"}
    BY <1>5 DEF Serving, Shook, ReadQuit, ReadLine, TurnedAway, SaidHi, WroteBack, Deserted,
                Steps, At
  <2>2. d # c
    BY <1>1, <1>5, <2>1, AwaitedAway
  <2>3. ASSUME NEW h, Ended(p, h), \A s \in Procs \ {p} : proc'[s] = proc[s]
        PROVE  chan'[c] = h[c]
    <3>1. r # p /\ Alive(r)
      BY <2>3 DEF Ended, Alive
    <3> QED
      BY <1>1, <2>3, <3>1, EndedSpares
  <2>4. CASE \E j \in 1..Len(chan[d].in["s"]), h \in Chans : TurnedAway(p, d, j, h)
    BY <2>2, <2>3, <2>4 DEF TurnedAway
  <2>5. CASE Deserted(p, d)
    BY <2>3, <2>5 DEF Deserted
  <2> QED
    BY <1>5, <2>2, <2>3, <2>5 DEF Serving, Shook, ReadQuit, ReadLine, TurnedAway, SaidHi,
                                   WroteBack, Takes, Puts
<1> QED
  BY <1>2, <1>3, <1>4, <1>5, ServeDoes

(* A process that has been called by its client keeps a connection of which  *)
(* the end of another process takes nothing.                                 *)
LEMMA WelcomesKeeps ==
    ASSUME IInv, NEW p \in Procs, NEW c \in Clients, Welcomes(p, c),
           NEW q \in Procs \ {p}, NEW h, Ended(q, h),
           \A r \in Procs \ {q} : proc'[r] = proc[r]
    PROVE  Welcomes(p, c)' /\ chan'[c] = h[c]
<1>1. c \in fds[p] /\ Alive(p)
  BY DEF Welcomes, At, IInv, TypeOK, Alive
<1>2. Welcomes(p, c)'
  BY DEF Welcomes, At
<1> QED
  BY <1>1, <1>2 DEF Ended

(* Somebody is left after every step of the server: who is past the          *)
(* handshake, or at accept, does not end;                                    *)
LEMMA RobustServe ==
    ASSUME IInv, Linked, ~ Excused, \A c \in Clients : Awaited(c) => FreshS(c),
           NEW p \in Procs, Serve(p), Robust
    PROVE  Lives'
<1>1. PICK r \in Procs : proc[r].pc \in {"accept", "fork", "hi", "read", "write", "kill"}
  BY DEF Robust
<1>2. main' = main /\ child' = child
  BY DEF Serve
<1>3. ASSUME NEW s \in Procs,
             proc'[s].pc \in {"accept", "fork", "hi", "read", "write", "kill"}
      PROVE  Lives'
  BY <1>3 DEF Lives, Robust
<1>4. CASE Accept(p)
  BY <1>3, <1>4, AcceptDoes DEF Accepted
<1>5. ASSUME NEW q \in Procs, Forked(p, q) PROVE Lives'
  <2>1. /\ proc[p].pc = "fork" /\ p # q /\ chan' = chan
        /\ proc'[p].pc = "hello" /\ proc'[p].con = proc[p].con
        /\ proc'[q].pc = "hello" /\ proc'[q].con = proc[p].con
    BY <1>5, ForkDoes
  <2>2. PICK c \in Clients : c = proc[p].con
    BY <2>1, HasClient DEF IInv
  <2>3. Awaited(c)
    BY <2>1, <2>2 DEF Awaited, At
  <2>4. FreshS(c)'
    BY <1>2, <2>1, <2>2, <2>3, FreshStays
  <2> QED
    BY <2>1, <2>2, <2>4 DEF Lives, Welcomes, At
<1>6. ASSUME NEW from, NEW to, Steps(p, from, to),
             to \in {"accept", "fork", "hi", "read", "write", "kill"}
      PROVE  Lives'
  BY <1>3, <1>6 DEF Steps
<1>7. ASSUME NEW q \in Procs, KillsParent(p, q) PROVE Lives'
  <2>1. p # q
    BY <1>7 DEF KillsParent, Linked, NoSelf
  <2> QED
    BY <1>3, <1>7, <2>1 DEF KillsParent
<1>8. ASSUME NEW d \in Clients, Serving(p, d), proc[p].con = d PROVE Lives'
  <2>1. ~ Deserted(p, d)
    BY DEF Deserted, Excused, Linked, Open, Live
  <2>2. ASSUME NEW j, NEW h, TurnedAway(p, d, j, h) PROVE Lives'
    <3>1. r # p /\ proc'[r] = proc[r]
      BY <1>1, <2>2 DEF TurnedAway, At
    <3> QED
      BY <1>1, <1>3, <3>1
  <2> QED
    BY <1>6, <1>8, <2>1, <2>2 DEF Serving, Shook, ReadQuit, ReadLine, SaidHi, WroteBack
<1> QED
  BY <1>4, <1>5, <1>6, <1>7, <1>8, ServeDoes, HasClient DEF Forgot, KillsNobody

(* and if all others are at the handshake, then only a first line that is no *)
(* hello ends one, which leaves the hello for the other.                     *)
LEMMA AtHello ==
    ASSUME IInv, Linked, ~ Excused, ~ Robust, NEW p \in Procs, Serve(p)
    PROVE  \/ Lives'
           \/ \E d \in Clients : \E j \in 1..Len(chan[d].in["s"]), h \in Chans :
                proc[p].con = d /\ TurnedAway(p, d, j, h)
<1>1. proc[p].pc \notin {"accept", "fork", "hi", "read", "write", "kill"}
  BY DEF Robust
<1>2. ~ Accept(p) /\ (\A q \in Procs : ~ Forked(p, q)) /\ ~ Forgot(p) /\ ~ KillsNobody(p)
      /\ \A q \in Procs : ~ KillsParent(p, q)
  BY <1>1 DEF Accept, Forked, Forgot, KillsNobody, KillsParent, Steps, At
<1>3. PICK d \in Clients : proc[p].con = d /\ Serving(p, d)
  BY <1>2, ServeDoes
<1>4. ~ Deserted(p, d)
  BY <1>3 DEF Deserted, Excused, Linked, Open, Live
<1>5. ~ SaidHi(p, d) /\ ~ WroteBack(p, d)
      /\ \A j \in 1..Len(chan[d].in["s"]) : ~ ReadQuit(p, d, j) /\ ~ ReadLine(p, d, j)
  BY <1>1 DEF SaidHi, WroteBack, ReadQuit, ReadLine, Steps
<1>6. ASSUME NEW j \in 1..Len(chan[d].in["s"]), Shook(p, d, j) PROVE Lives'
  BY <1>6 DEF Shook, Steps, Lives, Robust
<1> QED
  BY <1>3, <1>4, <1>5, <1>6 DEF Serving

(* What the first line and the hello leave.                                  *)
LEMMA Leaves ==
    ASSUME IInv, NEW c \in Clients, FreshS(c), main' = main, child' = child,
           NEW j \in 1..Len(chan[c].in["s"]), Head(chan[c].in["s"]).t # "hello",
           chan'[c].in["s"] = SubSeq(chan[c].in["s"], j + 1, Len(chan[c].in["s"])),
           chan'[c].in["c"] = chan[c].in["c"], chan'[c].end = chan[c].end
    PROVE  WaitingS(c)'
<1> DEFINE us == chan[c].in["s"]
           vs == chan'[c].in["s"]
<1>1. us \in Seq(Unit)
  BY Weights
<1>2. /\ vs \in Seq(Unit) /\ Len(vs) = Len(us) - j /\ j \in Nat /\ j >= 1 /\ j <= Len(us)
      /\ Len(us) \in Nat /\ \A i \in 1..Len(vs) : vs[i] = us[i + j]
  BY <1>1
<1>3. us # <<>>
  BY <1>1, <1>2
<1>4. /\ Mute(c)' /\ main'[c].pc = main[c].pc
      /\ main[c].pc \in {"kill", "hello", "hi"}
  BY <1>3 DEF FreshS, Mute, out
<1> HIDE DEF us, vs
<1>5. CASE Len(us) = 1
  BY <1>2, <1>4, <1>5 DEF WaitingS, vs
<1>6. CASE Len(us) # 1
  <2>1. main[c].pc = "hi" /\ Len(us) = 2 /\ us[2].t = "hello"
    <3>1. ~ (Len(us) <= 1)
      BY <1>2, <1>6
    <3>2. main[c].pc = "hi"
      BY <1>4, <3>1 DEF FreshS, us
    <3>3. Len(us) \in 1..2 /\ us[Len(us)].t = "hello"
      BY <3>2 DEF FreshS, us
    <3>4. Len(us) = 2
      BY <1>2, <3>1, <3>3
    <3> QED
      BY <3>2, <3>3, <3>4
  <2>2. CASE j = 2
    BY <1>2, <1>4, <2>1, <2>2 DEF WaitingS, vs
  <2>3. CASE j = 1
    <3>1. Len(vs) = 1 /\ vs[1] = us[2]
      BY <1>2, <2>1, <2>3
    <3> QED
      BY <1>4, <2>1, <3>1 DEF WaitingS, vs
  <2> QED
    BY <1>2, <2>1, <2>2, <2>3
<1> QED
  BY <1>5, <1>6

(* So somebody is left.                                                      *)
LEMMA LivesServe ==
    ASSUME IInv, Linked, ~ Excused, \A c \in Clients : Awaited(c) => FreshS(c), Lives,
           NEW p \in Procs, Serve(p)
    PROVE  Lives'
<1>1. CASE Robust
  BY <1>1, RobustServe
<1>2. CASE ~ Robust
  <2> SUFFICES ASSUME NEW d \in Clients, NEW j \in 1..Len(chan[d].in["s"]), NEW h \in Chans,
                      proc[p].con = d, TurnedAway(p, d, j, h)
               PROVE  Lives'
    BY <1>2, AtHello
  <2>1. /\ main' = main /\ child' = child /\ Ended(p, h) /\ \A r \in Procs \ {p} : proc'[r] = proc[r]
        /\ \A c \in Clients \ {d} : h[c] = chan[c]
        /\ Welcomes(p, d)
    BY DEF Serve, TurnedAway, Welcomes
  <2>2. ASSUME NEW c \in Clients, NEW q \in Procs, NEW r \in Procs, q # r,
               Welcomes(q, c), Welcomes(r, c), FreshS(c)
        PROVE  Lives'
    <3>1. CASE p \notin {q, r}
      <4>1. d # c
        BY <2>1, <2>2, <3>1 DEF Linked, Crew, Serves, Welcomes, At
      <4>2. Welcomes(q, c)' /\ Welcomes(r, c)' /\ chan'[c] = chan[c]
        BY <2>1, <2>2, <3>1, <4>1, WelcomesKeeps
      <4>3. FreshS(c)'
        BY <2>1, <2>2, <4>2, FreshStays
      <4> QED
        BY <2>2, <4>2, <4>3 DEF Lives
    <3>2. ASSUME NEW s \in Procs \ {p}, p \in {q, r}, Welcomes(s, c) PROVE Lives'
      <4>1. d = c
        BY <2>1, <2>2, <3>2 DEF Welcomes
      <4>2. Welcomes(s, c)' /\ chan'[c] = h[c]
        BY <2>1, <3>2, WelcomesKeeps
      <4>3. WaitingS(c)'
        BY <2>1, <2>2, <4>1, <4>2, Leaves DEF TurnedAway
      <4> QED
        BY <4>2, <4>3 DEF Lives
    <3> QED
      BY <2>2, <3>1, <3>2
  <2>3. ASSUME NEW c \in Clients, NEW q \in Procs, Welcomes(q, c), WaitingS(c)
        PROVE  Lives'
    <3>1. d # c
      <4>1. Head(chan[d].in["s"]).t # "hello" /\ chan[d].in["s"] # <<>>
        BY DEF TurnedAway
      <4>2. Head(chan[d].in["s"]) = chan[d].in["s"][1]
        OBVIOUS
      <4> QED
        BY <2>3, <4>1, <4>2 DEF WaitingS
    <3>2. q # p
      BY <2>1, <2>3, <3>1 DEF Welcomes
    <3>3. Welcomes(q, c)' /\ chan'[c] = chan[c]
      BY <2>1, <2>3, <3>1, <3>2, WelcomesKeeps
    <3>4. WaitingS(c)'
      BY <2>1, <2>3, <3>3, FreshStays
    <3> QED
      BY <3>3, <3>4 DEF Lives
  <2> QED
    BY <1>2, <2>2, <2>3 DEF Lives
<1> QED
  BY <1>1, <1>2

(* A client that does what it does next is as fresh as before, or waits.     *)
LEMMA FreshUse ==
    ASSUME IInv, NEW c \in Clients, Using(c), ~ Excused'
    PROVE  /\ FreshS(c) => FreshS(c)'
           /\ WaitingS(c) => WaitingS(c)'
<1> DEFINE us == chan[c].in["s"]
           vs == chan'[c].in["s"]
<1>1. us \in Seq(Unit) /\ main[c].quits \in Nat
  <2>1. main[c].quits \in Nat
    BY DEF IInv, TypeOK, Main
  <2> QED
    BY <2>1, Weights
<1>2. Running(c)' /\ ~ (main'[c].quits > 0)
  BY DEF Excused
<1> SUFFICES ASSUME Mute(c)
             PROVE  /\ FreshS(c) => FreshS(c)'
                    /\ WaitingS(c) => WaitingS(c)'
  BY DEF FreshS, WaitingS
<1>3. CASE \E u \in Unit : Spoke(c, u)
  <2>1. PICK u \in Unit : Spoke(c, u)
    BY <1>3
  <2>2. vs = us \o <<u>> /\ Mute(c)'
    BY <2>1 DEF Spoke, Says, KidSame, Mute, out
  <2>3. /\ Len(vs) = Len(us) + 1 /\ vs[Len(us) + 1] = u /\ Len(us) \in Nat
        /\ us = <<>> => Len(us) = 0 /\ Len(vs) = 1 /\ vs[1] = u
    BY <1>1, <2>2
  <2> HIDE DEF us, vs
  <2>4. ~ Turns(c, "key", "key", {}, 1)
    BY <1>1, <1>2 DEF Turns
  <2>5. CASE Turns(c, "key", "kill", {}, 0)
    <3>1. main[c].pc = "key" /\ main'[c].pc = "kill"
      BY <2>5 DEF Turns
    <3> QED
      BY <2>2, <2>3, <3>1 DEF FreshS, WaitingS, us, vs
  <2>6. CASE Turns(c, "hello", "hi", {}, 0) /\ u.t = "hello"
    <3>1. main[c].pc = "hello" /\ main'[c].pc = "hi"
      BY <2>6 DEF Turns
    <3>2. FreshS(c) => FreshS(c)'
      <4>1. FreshS(c) => Len(vs) \in 1..2 /\ vs[Len(vs)].t = "hello"
        BY <2>3, <2>6, <3>1 DEF FreshS, us
      <4> QED
        BY <2>2, <3>1, <4>1 DEF FreshS, vs
    <3>3. WaitingS(c) => WaitingS(c)'
      BY <2>2, <2>3, <2>6, <3>1 DEF WaitingS, us, vs
    <3> QED
      BY <3>2, <3>3
  <2>7. CASE Turns(c, "prompt", "recv", {}, 0)
    BY <2>7 DEF Turns, FreshS, WaitingS
  <2> QED
    BY <2>1, <2>4, <2>5, <2>6, <2>7 DEF Spoke
<1>4. CASE Onward(c) \/ Dialled(c)
  <2>1. Mute(c)'
    BY <1>4 DEF Onward, Dialled, KidSame, Mute, out
  <2>2. /\ vs = us
        /\ \/ main[c].pc = "fork" /\ main'[c].pc = "key"
           \/ main[c].pc \in {"kill", "key"} /\ main'[c].pc = "hello"
           \/ main[c].pc = "connect" /\ main'[c].pc = "fork"
    BY <1>4 DEF Onward, Dialled, Turns
  <2>3. us = <<>> => Len(us) = 0
    BY <1>1
  <2> QED
    BY <2>1, <2>2, <2>3 DEF FreshS, WaitingS
<1>5. ~ Unanswered(c) /\ ~ Left(c) /\ ~ KidGone(c)
  BY <1>2 DEF Unanswered, AtEnd, Peer, Left, KidGone, Mute
<1>6. \A u \in Seq(Unit) : ~ KidPut(c, u)
  BY DEF KidPut, Mute
<1>7. Len(out(c)) = 0
  BY DEF Mute
<1>8. \A j \in 1..Len(out(c)) : FALSE
  BY <1>7
<1> QED
  BY <1>3, <1>4, <1>5, <1>6, <1>8 DEF Using

(* The clients keep it: who comes is fresh, who goes is an excuse.           *)
LEMMA SurvivingUse ==
    ASSUME IInv, NEW d \in Clients, Use(d) \/ Crash(d), Lives, ~ Excused',
           \A c \in Clients : Awaited(c) => FreshS(c)
    PROVE  Surviving'
<1>1. Using(d) /\ Others(d) /\ UNCHANGED <<proc, fds>>
  BY UseDoes
<1>2. ASSUME NEW c \in Clients
      PROVE  /\ FreshS(c) => FreshS(c)'
             /\ WaitingS(c) => WaitingS(c)'
  <2>1. CASE c = d
    BY <1>1, <2>1, FreshUse
  <2>2. CASE c # d
    <3>1. chan'[c] = chan[c] /\ main'[c] = main[c] /\ child'[c] = child[c]
      BY <1>1, <2>2 DEF Others
    <3> QED
      BY <3>1, FreshStays
  <2> QED
    BY <2>1, <2>2
<1>3. ASSUME NEW c \in Clients, Awaited(c)' PROVE Awaited(c)
  <2>1. CASE d # c
    <3>1. main'[c] = main[c] /\ proc' = proc
      BY <1>1, <2>1 DEF Others
    <3>2. Queued(c)' => Queued(c)
      <4>1. CASE queue' = queue
        BY <4>1 DEF Queued
      <4>2. CASE queue' = Append(queue, d)
        <5>1. queue \in Seq(Clients)
          BY DEF IInv, TypeOK
        <5>2. /\ Len(queue') = Len(queue) + 1 /\ queue'[Len(queue) + 1] = d
              /\ Len(queue) \in Nat
              /\ \A i \in 1..Len(queue) : queue'[i] = queue[i]
          BY <4>2, <5>1
        <5>3. \A i \in 1..Len(queue') : i \in 1..Len(queue) \/ i = Len(queue) + 1
          BY <5>2
        <5> QED
          BY <2>1, <5>2, <5>3 DEF Queued
      <4> QED
        BY <1>1, <4>1, <4>2 DEF Using, Dialled, Left
    <3> QED
      BY <1>3, <3>1, <3>2 DEF Awaited, MAt, At
  <2>2. CASE d = c /\ Dialled(c)
    BY <2>2 DEF Dialled, Turns, Awaited, MAt
  <2>3. CASE d = c /\ ~ Dialled(c)
    <3>1. queue' = queue /\ proc' = proc
      BY <1>1, <2>3 DEF Using, Left
    <3>2. MAt(c, "connect")' => MAt(c, "connect")
      <4>1. ~ Left(c)
        BY DEF Left, Excused
      <4> QED
        BY <1>1, <2>3, <4>1 DEF Using, Spoke, Heard, KidShook, KidRead, KidPut, KidGone,
                                       Onward, Unanswered, Turns, MAt
    <3> QED
      BY <1>3, <3>1, <3>2 DEF Awaited, Queued, At
  <2> QED
    BY <2>1, <2>2, <2>3
<1>4. Lives'
  <2>1. Robust => Robust'
    BY <1>1 DEF Robust
  <2>2. \A p \in Procs, c \in Clients : Welcomes(p, c) => Welcomes(p, c)'
    BY <1>1 DEF Welcomes, At
  <2> QED
    BY <1>2, <2>1, <2>2 DEF Lives
<1> QED
  BY <1>2, <1>3, <1>4 DEF Surviving

(* The server does.                                                          *)
LEMMA SurvivingServe ==
    ASSUME IInv, Linked, ~ Excused, Surviving, NEW p \in Procs, Serve(p)
    PROVE  Surviving'
<1>1. Lives /\ \A c \in Clients : Awaited(c) => FreshS(c)
  BY DEF Surviving
<1>2. Lives' /\ main' = main /\ child' = child
  BY <1>1, LivesServe DEF Serve
<1>3. PICK r \in Procs : Alive(r)'
  BY <1>2 DEF Lives, Robust, Welcomes, Alive, At
<1>4. ASSUME NEW c \in Clients, Awaited(c)' PROVE FreshS(c)'
  <2>1. Awaited(c) /\ chan'[c] = chan[c]
    BY <1>3, <1>4, AwaitedStays, AwaitedAlone
  <2> QED
    BY <1>1, <1>2, <2>1, FreshStays
<1> QED
  BY <1>2, <1>4 DEF Surviving

(* Who has gone stays gone, and a quit stays typed.                          *)
LEMMA ExcusedStays ==
    ASSUME IInv, [Next]_vars, Excused
    PROVE  Excused'
<1>1. PICK c \in Clients : main[c].quits > 0 \/ ~ Running(c)
  BY DEF Excused
<1>2. CASE main'[c] = main[c]
  BY <1>1, <1>2 DEF Excused, Running
<1>3. CASE main'[c] # main[c]
  <2>1. PICK d \in Clients : Use(d) \/ Crash(d)
    BY <1>3 DEF Next, Serve, vars
  <2>2. Using(d) /\ Others(d)
    BY <2>1, UseDoes
  <2>3. d = c
    BY <1>3, <2>2 DEF Others
  <2>4. main[c].quits \in Nat
    BY DEF IInv, TypeOK, Main
  <2>5. CASE Left(c)
    BY <2>5 DEF Left, Excused
  <2>6. CASE ~ Left(c)
    <3>1. ASSUME NEW from, NEW to, NEW ns, NEW k \in {0, 1}, Turns(c, from, to, ns, k),
                 from \notin {"exit", "dead"}
          PROVE  Excused'
      <4>1. Running(c) /\ main'[c].quits = main[c].quits + k
        BY <3>1 DEF Turns, Running
      <4>2. main'[c].quits > 0
        BY <1>1, <2>4, <4>1
      <4> QED
        BY <4>2 DEF Excused
    <3>2. CASE \E u \in Unit : Spoke(c, u)
      BY <3>1, <3>2 DEF Spoke
    <3>3. CASE \E j \in 1..Len(out(c)) : Heard(c, j)
      BY <3>1, <3>3 DEF Heard
    <3>4. CASE Onward(c) \/ Unanswered(c) \/ Dialled(c)
      BY <3>1, <3>4 DEF Onward, Unanswered, Dialled
    <3>5. /\ \A j : ~ KidShook(c, j) /\ ~ KidRead(c, j)
          /\ ~ KidGone(c) /\ \A us : ~ KidPut(c, us)
      BY <1>3 DEF KidShook, KidRead, KidGone, KidPut
    <3> QED
      BY <2>2, <2>3, <2>6, <3>2, <3>3, <3>4, <3>5 DEF Using
  <2> QED
    BY <2>5, <2>6
<1> QED
  BY <1>2, <1>3

(* At the start the first process is at accept.                              *)
LEMMA SurvivingInit == Init => Surviving
<1> SUFFICES ASSUME Init PROVE Surviving
  OBVIOUS
<1>1. Robust
  BY TalkAssumption DEF Init, Robust
<1>2. \A c \in Clients : FreshS(c)
  BY DEF Init, FreshS, Mute, out, Sides
<1> QED
  BY <1>1, <1>2 DEF Surviving, Lives

(* Every step keeps it.                                                      *)
LEMMA SurvivingStep == IInv /\ Linked /\ Surviving /\ [Next]_vars => Surviving'
<1> SUFFICES ASSUME IInv, Linked, Surviving, [Next]_vars PROVE Surviving'
  OBVIOUS
<1>1. CASE Excused
  BY <1>1, ExcusedStays DEF Surviving
<1>2. CASE ~ Excused /\ UNCHANGED vars
  <2>1. Lives' /\ \A c \in Clients : Awaited(c)' => FreshS(c)'
    BY <1>2 DEF Surviving, Lives, Robust, Welcomes, Awaited, Queued, At, MAt, FreshS, WaitingS,
                Mute, out, vars
  <2> QED
    BY <2>1 DEF Surviving
<1>3. CASE ~ Excused /\ \E p \in Procs : Serve(p)
  BY <1>3, SurvivingServe
<1>4. CASE ~ Excused /\ \E c \in Clients : Use(c) \/ Crash(c)
  <2>1. CASE Excused'
    BY <2>1 DEF Surviving
  <2>2. CASE ~ Excused'
    BY <1>4, <2>2, SurvivingUse DEF Surviving
  <2> QED
    BY <2>1, <2>2
<1> QED
  BY <1>1, <1>2, <1>3, <1>4 DEF Next

(* It is always true.                                                        *)
LEMMA SurvivingAlways == Spec => [](IInv /\ Linked /\ Surviving)
BY InitInv, LinkedInit, SurvivingInit, StepInv, LinkedStep, SurvivingStep, PTL DEF Spec

(* The server ends only when a user has typed quit before any other line, or *)
(* has gone: otherwise a first line costs it one of the two processes at     *)
(* the handshake, and what comes next is the hello the other waits for (main *)
(* and do_socket, TCPEchoServer.c).                                          *)
THEOREM ServerLives == Spec => []ServerSurvives
<1>1. ASSUME Surviving PROVE ServerSurvives
  <2> SUFFICES ASSUME \A p \in Procs : ~ Alive(p) PROVE Excused
    BY DEF ServerSurvives, Excused
  <2> QED
    BY <1>1 DEF Surviving, Lives, Robust, Welcomes, At, Alive
<1> QED
  BY <1>1, SurvivingAlways, PTL
=============================================================================
