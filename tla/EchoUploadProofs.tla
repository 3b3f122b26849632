--------------------------- MODULE EchoUploadProofs ---------------------------
(* What EchoUpload.tla promises for any number of clients and commands and    *)
(* files of any length: types, that no answer is taken for another one, that  *)
(* client and server wait for each other only where a file's contents were    *)
(* read past their end, how long the file is that the server is done with,    *)
(* and whose going ends the server.                                           *)
EXTENDS EchoUpload, StreamProofs

(* Streams of one, two and three units.                                      *)
One(us, a) == Len(us) = 1 /\ us[1].t = a
Two(us, a, b) == Len(us) = 2 /\ us[1].t = a /\ us[2].t = b
Three(us, a, b, d) == Len(us) = 3 /\ us[1].t = a /\ us[2].t = b /\ us[3].t = d
Rest(us) == SubSeq(us, 2, Len(us))

(* What a client at point p has sent of the command it is in, and the server *)
(* has not read.                                                             *)
Asked(p, us) ==
    \/ p = "prompt" /\ us = <<>>
    \/ p = "text" /\ One(us, "EchoReq")
    \/ p = "rep" /\ Two(us, "EchoReq", "text")
    \/ p = "name" /\ One(us, "FileUpReq")
    \/ p = "size" /\ Two(us, "FileUpReq", "name")
    \/ p = "ack" /\ Three(us, "FileUpReq", "name", "size")
    \/ p = "bye" /\ One(us, "quit")

(* The points p of a client and s of the server that belong together, with   *)
(* what is under way to the server, i, and to the client, o: at the hello,   *)
Greeting(p, s, i, o) ==
    \/ p = "hello" /\ s = "hello" /\ i = <<>> /\ o = <<>>
    \/ p = "hi" /\ s = "hello" /\ One(i, "hello") /\ o = <<>>
    \/ p = "hi" /\ s = "hi" /\ i = <<>> /\ o = <<>>
    \/ p = "hi" /\ s = "header" /\ i = <<>> /\ One(o, "hi")

(* in the middle of a line,                                                  *)
Echoing(p, s, i, o) ==
    \/ s = "EchoReq" /\ p = "text" /\ i = <<>> /\ o = <<>>
    \/ s = "EchoReq" /\ p = "rep" /\ One(i, "text") /\ o = <<>>
    \/ s = "reply" /\ p = "rep" /\ i = <<>> /\ o = <<>>
    \/ s = "text" /\ p = "rep" /\ i = <<>> /\ One(o, "EchoReq")
    \/ s = "text" /\ p = "echoed" /\ i = <<>> /\ o = <<>>
    \/ s = "header" /\ p = "rep" /\ i = <<>> /\ Two(o, "EchoReq", "text")
    \/ s = "header" /\ p = "echoed" /\ i = <<>> /\ One(o, "text")

(* before the contents of a file,                                            *)
Announcing(p, s, i, o) ==
    /\ o = <<>>
    /\ \/ s = "FileUpReq" /\ p = "name" /\ i = <<>>
       \/ s = "FileUpReq" /\ p = "size" /\ One(i, "name")
       \/ s = "FileUpReq" /\ p = "ack" /\ Two(i, "name", "size")
       \/ s = "size" /\ p = "size" /\ i = <<>>
       \/ s = "size" /\ p = "ack" /\ One(i, "size")
       \/ s = "ack" /\ p = "ack" /\ i = <<>>

(* in them, when the client may be in a later command already,               *)
Sending(p, s, i, o) ==
    /\ s = "data"
    /\ \/ p = "ack" /\ i = <<>> /\ One(o, "FileAck")
       \/ p = "send" /\ i = <<>> /\ o = <<>>
       \/ o = <<>> /\ Asked(p, i)
       \/ o = <<>> /\ i # <<>> /\ i[1].t = "data" /\ Asked(p, Rest(i))

(* and when the request of that command was read with the contents.          *)
Missed(p, s, i, o) ==
    /\ s \in {"header", "data"}
    /\ p \in {"text", "rep", "name", "size", "ack", "bye"}
    /\ o = <<>> /\ \A k \in 1..Len(i) : i[k].t \in {"text", "name", "size"}

Paired(p, s, i, o, lost) ==
    \/ Greeting(p, s, i, o)
    \/ s = "header" /\ Asked(p, i) /\ o = <<>>
    \/ Echoing(p, s, i, o) \/ Announcing(p, s, i, o) \/ Sending(p, s, i, o)
    \/ lost /\ Missed(p, s, i, o)
    \/ p = "bye" /\ s \in {"quit", "accept"} /\ i = <<>> /\ o = <<>>

(* What a client at point p may find to be read, from a server that has      *)
(* ended too.                                                                *)
Due(p, o) ==
    \/ o = <<>>
    \/ p = "hi" /\ One(o, "hi")
    \/ p = "rep" /\ (One(o, "EchoReq") \/ Two(o, "EchoReq", "text"))
    \/ p = "echoed" /\ One(o, "text")
    \/ p = "ack" /\ One(o, "FileAck")

(* The inductive invariant: a client is on its way to the server, waits for  *)
(* accept, is the one that is served, or was.                                *)
Queued(c) == \E k \in 1..Len(queue) : queue[k] = c
Coming(c) == /\ cl[c].pc = "connect" /\ ~ Queued(c) /\ srv.con # c
             /\ chan[c].in["s"] = <<>>
Waiting(c) == /\ Queued(c) /\ srv.con # c
              /\ \/ cl[c].pc = "hello" /\ chan[c].in["s"] = <<>>
                 \/ cl[c].pc = "hi" /\ One(chan[c].in["s"], "hello")
              /\ chan[c].in["c"] = <<>>
Served(c) == /\ ~ Queued(c) /\ srv.con = c
             /\ Paired(cl[c].pc, srv.pc, chan[c].in["s"], chan[c].in["c"], srv.lost)
             /\ srv.pc \in {"reply", "text"} => srv.recv_n = 1
Left(c) == /\ ~ Queued(c) /\ srv.con # c
           /\ cl[c].pc = "bye" /\ chan[c].in["c"] = <<>>
Stage(c) == Coming(c) \/ Waiting(c) \/ Served(c) \/ Left(c)

OneClient(c) == Running(c) =>
    /\ chan[c].end["c"] = "open" /\ Due(cl[c].pc, chan[c].in["c"])
    /\ ~ SAt("dead") => Stage(c)
QueuedOnce == \A k, l \in 1..Len(queue) : queue[k] = queue[l] => k = l
Open == ~ SAt("dead") => \A c \in Clients : chan[c].end["s"] = "open"
AtWork == srv.pc \notin {"accept", "dead"} => srv.con \in Clients

IInv ==
    /\ TypeOK /\ QueuedOnce /\ Open /\ AtWork
    /\ \A c \in Clients : OneClient(c)

-----------------------------------------------------------------------------
(* Streams, when a unit is taken from one or is added to one.                *)
LEMMA RestOf ==
    ASSUME NEW us \in Seq(Unit), us # <<>>, NEW a, NEW b, NEW d
    PROVE  /\ Rest(us) \in Seq(Unit) /\ Len(Rest(us)) = Len(us) - 1
           /\ Head(us) = us[1] /\ us[1] \in Unit /\ Len(us) \in Nat /\ Len(us) > 0
           /\ \A k \in 1..Len(Rest(us)) : k + 1 \in 1..Len(us) /\ Rest(us)[k] = us[k + 1]
           /\ One(us, a) => Rest(us) = <<>>
           /\ Two(us, a, b) => One(Rest(us), b)
           /\ Three(us, a, b, d) => Two(Rest(us), b, d)
<1> DEFINE n == Len(us)
<1>1. n \in Nat /\ n > 0 /\ n - 1 \in Nat
  OBVIOUS
<1>2. Rest(us) \in Seq(Unit) /\ Len(Rest(us)) = Len(us) - 1
  <2>1. \A k \in 2..n : us[k] \in Unit
    BY <1>1
  <2>2. SubSeq(us, 2, n) \in Seq(Unit)
    BY <1>1, <2>1
  <2>3. Len(SubSeq(us, 2, n)) = IF 2 <= n THEN n - 2 + 1 ELSE 0
    BY <1>1
  <2>6. \A m \in Nat : m > 0 => (IF 2 <= m THEN m - 2 + 1 ELSE 0) = m - 1
    OBVIOUS
  <2>4. (IF 2 <= n THEN n - 2 + 1 ELSE 0) = n - 1
    BY <1>1, <2>6
  <2> DEFINE w == SubSeq(us, 2, n)
  <2>5. w \in Seq(Unit) /\ Len(w) = n - 1
    BY ONLY <2>2, <2>3, <2>4
  <2> QED
    BY ONLY <2>5 DEF Rest
<1>3. \A k \in 1..Len(Rest(us)) : k + 1 \in 1..Len(us) /\ Rest(us)[k] = us[k + 1]
  BY <1>1, <1>2 DEF Rest
<1>4. One(us, a) => Rest(us) = <<>>
  BY <1>2 DEF One
<1>5. Two(us, a, b) => One(Rest(us), b)
  BY <1>2, <1>3 DEF One, Two
<1>6. Three(us, a, b, d) => Two(Rest(us), b, d)
  BY <1>2, <1>3 DEF Three, Two
<1> QED
  BY <1>1, <1>2, <1>3, <1>4, <1>5, <1>6

LEMMA Longer ==
    ASSUME NEW us \in Seq(Unit), NEW u \in Unit, NEW a, NEW b
    PROVE  /\ us \o <<u>> \in Seq(Unit) /\ us \o <<u>> # <<>>
           /\ Len(us \o <<u>>) = Len(us) + 1
           /\ \A k \in 1..Len(us) : (us \o <<u>>)[k] = us[k]
           /\ (us \o <<u>>)[Len(us) + 1] = u
           /\ us = <<>> => One(us \o <<u>>, u.t)
           /\ One(us, a) => Two(us \o <<u>>, a, u.t)
           /\ Two(us, a, b) => Three(us \o <<u>>, a, b, u.t)
           /\ us # <<>> => Rest(us \o <<u>>) = Rest(us) \o <<u>>
<1> DEFINE w == us \o <<u>>
<1>1. /\ w \in Seq(Unit) /\ Len(w) = Len(us) + 1 /\ Len(us) \in Nat
      /\ \A k \in 1..Len(us) : w[k] = us[k]
      /\ w[Len(us) + 1] = u
  OBVIOUS
<1>2. w # <<>>
  BY <1>1
<1>3. us = <<>> => One(w, u.t)
  BY <1>1 DEF One
<1>4. One(us, a) => Two(w, a, u.t)
  BY <1>1 DEF One, Two
<1>5. Two(us, a, b) => Three(w, a, b, u.t)
  BY <1>1 DEF Two, Three
<1>6. us # <<>> => Rest(w) = Rest(us) \o <<u>>
  BY DEF Rest
<1> QED
  BY <1>1, <1>2, <1>3, <1>4, <1>5, <1>6

LEMMA First ==
    ASSUME NEW us \in Seq(Unit), us = <<>>, NEW u \in Unit
    PROVE  One(us \o <<u>>, u.t)
BY DEF One

LEMMA Second ==
    ASSUME NEW us \in Seq(Unit), NEW a, One(us, a), NEW u \in Unit
    PROVE  Two(us \o <<u>>, a, u.t)
<1>1. Len(us) = 1 /\ us[1].t = a
  BY DEF One
<1> DEFINE w == us \o <<u>>
<1>2. /\ Len(w) = Len(us) + 1 /\ w[Len(us) + 1] = u
      /\ \A k \in 1..Len(us) : w[k] = us[k]
  OBVIOUS
<1>3. 1 \in 1..Len(us) /\ Len(us) + 1 = 2
  BY <1>1
<1> HIDE DEF w
<1>4. Two(w, a, u.t)
  BY <1>1, <1>2, <1>3 DEF Two
<1> QED
  BY <1>4 DEF w

-----------------------------------------------------------------------------
(* The steps of the server keep client and server in their places.           *)
LEMMA PairedDue ==
    ASSUME NEW p, NEW s, NEW i, NEW o, NEW lost, Paired(p, s, i, o, lost)
    PROVE  Due(p, o)
BY DEF Paired, Greeting, Echoing, Announcing, Sending, Missed, Due

LEMMA HelloRead ==
    ASSUME NEW p, NEW i \in Seq(Unit), NEW o, NEW lost,
           Paired(p, "hello", i, o, lost), i # <<>>
    PROVE  Paired(p, "hi", Rest(i), o, lost)
BY RestOf DEF Paired, Greeting, Echoing, Announcing, Sending, Missed

LEMMA HiSent ==
    ASSUME NEW p, NEW i \in Seq(Unit), NEW o \in Seq(Unit), NEW lost, NEW u \in Unit,
           u.t = "hi", Paired(p, "hi", i, o, lost)
    PROVE  Paired(p, "header", i, o \o <<u>>, lost)
<1>1. o = <<>> => One(o \o <<u>>, "hi")
  BY First
<1>2. p = "hi" /\ i = <<>> /\ o = <<>>
  BY DEF Paired, Greeting, Echoing, Announcing, Sending, Missed
<1> QED
  BY <1>1, <1>2 DEF Paired, Greeting

LEMMA HeaderRead ==
    ASSUME NEW p, NEW i \in Seq(Unit), NEW o, NEW lost,
           Paired(p, "header", i, o, lost), i # <<>>
    PROVE  LET t == Named(Head(i).t) IN
           Paired(p, IF t = "none" THEN "header" ELSE t, Rest(i), o, lost)
<1> DEFINE t == Named(Head(i).t)
<1>1. /\ Rest(i) \in Seq(Unit) /\ Head(i) = i[1]
      /\ \A k \in 1..Len(Rest(i)) : k + 1 \in 1..Len(i) /\ Rest(i)[k] = i[k + 1]
      /\ 1 \in 1..Len(i)
  BY RestOf
<1>2. CASE Asked(p, i) /\ o = <<>>
  <2>1. CASE p \in {"text", "rep"}
    <3>1. t = "EchoReq"
      BY <1>1, <1>2, <2>1 DEF Asked, Named, Requests, One, Two
    <3>2. \/ p = "text" /\ Rest(i) = <<>>
          \/ p = "rep" /\ One(Rest(i), "text")
      BY <1>2, <2>1, RestOf DEF Asked
    <3> QED
      BY <1>2, <3>1, <3>2 DEF Paired, Echoing
  <2>2. CASE p \in {"name", "size", "ack"}
    <3>1. t = "FileUpReq"
      BY <1>1, <1>2, <2>2 DEF Asked, Named, Requests, One, Two, Three
    <3>2. \/ p = "name" /\ Rest(i) = <<>>
          \/ p = "size" /\ One(Rest(i), "name")
          \/ p = "ack" /\ Two(Rest(i), "name", "size")
      BY <1>2, <2>2, RestOf DEF Asked
    <3> QED
      BY <1>2, <3>1, <3>2 DEF Paired, Announcing
  <2>3. CASE p = "bye"
    <3>1. t = "quit" /\ Rest(i) = <<>>
      BY <1>1, <1>2, <2>3, RestOf DEF Asked, Named, Requests, One
    <3> QED
      BY <1>2, <2>3, <3>1 DEF Paired
  <2> QED
    BY <1>2, <2>1, <2>2, <2>3 DEF Asked
<1>3. CASE lost /\ Missed(p, "header", i, o)
  <2>1. t = "none"
    BY <1>1, <1>3 DEF Missed, Named, Requests
  <2>2. Missed(p, "header", Rest(i), o)
    BY <1>1, <1>3 DEF Missed
  <2> QED
    BY <1>3, <2>1, <2>2 DEF Paired
<1> QED
  BY <1>2, <1>3 DEF Paired, Greeting, Echoing, Announcing, Sending

LEMMA TextRead ==
    ASSUME NEW p, NEW i \in Seq(Unit), NEW o, NEW lost,
           Paired(p, "EchoReq", i, o, lost), i # <<>>
    PROVE  Paired(p, "reply", Rest(i), o, lost)
BY RestOf DEF Paired, Greeting, Echoing, Announcing, Sending, Missed

LEMMA ReplySent ==
    ASSUME NEW p, NEW i, NEW o \in Seq(Unit), NEW lost, NEW u \in Unit, u.t = "EchoReq",
           Paired(p, "reply", i, o, lost)
    PROVE  Paired(p, "text", i, o \o <<u>>, lost)
<1>1. o = <<>> => One(o \o <<u>>, "EchoReq")
  BY First
<1>2. p = "rep" /\ i = <<>> /\ o = <<>>
  BY DEF Paired, Greeting, Echoing, Announcing, Sending, Missed
<1> QED
  BY <1>1, <1>2 DEF Paired, Echoing

LEMMA TextSent ==
    ASSUME NEW p, NEW i, NEW o \in Seq(Unit), NEW lost, NEW u \in Unit, u.t = "text",
           Paired(p, "text", i, o, lost)
    PROVE  Paired(p, "header", i, o \o <<u>>, lost)
<1>1. o = <<>> => One(o \o <<u>>, "text")
  BY First
<1>3. One(o, "EchoReq") => Two(o \o <<u>>, "EchoReq", "text")
  BY Second
<1>4. Echoing(p, "text", i, o)
  BY DEF Paired, Greeting, Announcing, Sending, Missed
<1>2. /\ i = <<>>
      /\ \/ p = "rep" /\ One(o, "EchoReq")
         \/ p = "echoed" /\ o = <<>>
  BY <1>4 DEF Echoing
<1> QED
  BY <1>1, <1>2, <1>3 DEF Paired, Echoing

LEMMA NameRead ==
    ASSUME NEW p, NEW i \in Seq(Unit), NEW o, NEW lost,
           Paired(p, "FileUpReq", i, o, lost), i # <<>>
    PROVE  Paired(p, "size", Rest(i), o, lost)
<1>1. /\ One(i, "name") => Rest(i) = <<>>
      /\ Two(i, "name", "size") => One(Rest(i), "size")
  BY RestOf
<1>2. /\ o = <<>>
      /\ \/ p = "size" /\ One(i, "name")
         \/ p = "ack" /\ Two(i, "name", "size")
  BY DEF Paired, Greeting, Echoing, Announcing, Sending, Missed
<1> QED
  BY <1>1, <1>2 DEF Paired, Announcing

LEMMA SizeRead ==
    ASSUME NEW p, NEW i \in Seq(Unit), NEW o, NEW lost,
           Paired(p, "size", i, o, lost), i # <<>>
    PROVE  Paired(p, "ack", Rest(i), o, lost)
BY RestOf DEF Paired, Greeting, Echoing, Announcing, Sending, Missed

LEMMA AckSent ==
    ASSUME NEW p, NEW i, NEW o \in Seq(Unit), NEW lost, NEW u \in Unit, u.t = "FileAck",
           Paired(p, "ack", i, o, lost)
    PROVE  Paired(p, "data", i, o \o <<u>>, lost)
<1>1. o = <<>> => One(o \o <<u>>, "FileAck")
  BY First
<1>2. p = "ack" /\ i = <<>> /\ o = <<>>
  BY DEF Paired, Greeting, Echoing, Announcing, Sending, Missed
<1> QED
  BY <1>1, <1>2 DEF Paired, Sending

LEMMA QuitDone ==
    ASSUME NEW p, NEW i, NEW o, NEW lost, Paired(p, "quit", i, o, lost)
    PROVE  Paired(p, "accept", i, o, lost)
BY DEF Paired, Greeting, Echoing, Announcing, Sending, Missed

(* What a command sends after its request is no request.                     *)
LEMMA AskedUnits ==
    ASSUME NEW p, NEW us \in Seq(Unit), us # <<>>, Asked(p, us)
    PROVE  /\ us[1].t # "data" /\ p \in {"text", "rep", "name", "size", "ack", "bye"}
           /\ \A k \in 2..Len(us) : us[k].t \in {"text", "name", "size"}
<1>1. \A a : One(us, a) => \A k \in 2..Len(us) : FALSE
  BY DEF One
<1>2. \A a, b : Two(us, a, b) => \A k \in 2..Len(us) : us[k].t = b
  BY DEF Two
<1>3. \A a, b, d : Three(us, a, b, d) => \A k \in 2..Len(us) : us[k].t \in {b, d}
  <2> SUFFICES ASSUME NEW a, NEW b, NEW d, Three(us, a, b, d), NEW k \in 2..Len(us)
               PROVE  us[k].t \in {b, d}
    OBVIOUS
  <2>1. k = 2 \/ k = 3
    BY DEF Three
  <2> QED
    BY <2>1 DEF Three
<1>4. us[1].t # "data" /\ p \in {"text", "rep", "name", "size", "ack", "bye"}
  BY DEF Asked, One, Two, Three
<1> QED
  BY <1>1, <1>2, <1>3, <1>4 DEF Asked

(* A read of a file's contents that has taken j units.  Either they were the *)
(* contents only, or what is left of the request is no request.              *)
LEMMA DataRead ==
    ASSUME NEW p, NEW i \in Seq(Unit), NEW o, NEW lost \in BOOLEAN,
           Paired(p, "data", i, o, lost), NEW j \in 1..Len(i), NEW more \in BOOLEAN,
           more = (lost \/ \E k \in 1..j : i[k].t # "data"), NEW s \in {"header", "data"}
    PROVE  Paired(p, s, SubSeq(i, j + 1, Len(i)), o, more)
<1> DEFINE w == SubSeq(i, j + 1, Len(i))
<1>1. /\ Len(i) \in Nat /\ j \in Nat /\ j > 0 /\ j <= Len(i) /\ i # <<>>
      /\ 1 \in 1..j
  OBVIOUS
<1>2. /\ Len(w) = Len(i) - j
      /\ \A k \in 1..Len(w) : w[k] = i[j + k] /\ j + k \in 2..Len(i)
  BY <1>1
<1>3. ASSUME more, p \in {"text", "rep", "name", "size", "ack", "bye"}, o = <<>>,
             \A k \in 2..Len(i) : i[k].t \in {"text", "name", "size"}
      PROVE  Paired(p, s, w, o, more)
  BY <1>2, <1>3 DEF Paired, Missed
<1>4. CASE o = <<>> /\ Asked(p, i)
  <2>1. /\ i[1].t # "data" /\ p \in {"text", "rep", "name", "size", "ack", "bye"}
        /\ \A k \in 2..Len(i) : i[k].t \in {"text", "name", "size"}
    BY <1>1, <1>4, AskedUnits
  <2>2. more
    BY <1>1, <2>1
  <2> QED
    BY <1>3, <1>4, <2>1, <2>2
<1>5. CASE o = <<>> /\ i[1].t = "data" /\ Asked(p, Rest(i))
  <2>1. CASE j = 1
    <3>1. w = Rest(i)
      BY <2>1 DEF Rest
    <3> HIDE DEF w
    <3>2. Paired(p, s, w, o, more)
      BY <1>5, <3>1 DEF Paired, Sending
    <3> QED
      BY <3>2 DEF w
  <2>2. CASE j # 1
    <3>1. /\ Rest(i) \in Seq(Unit) /\ Len(Rest(i)) = Len(i) - 1
          /\ \A k \in 1..Len(Rest(i)) : k + 1 \in 1..Len(i) /\ Rest(i)[k] = i[k + 1]
      BY <1>1, RestOf
    <3>2. Rest(i) # <<>> /\ Rest(i)[1] = i[2] /\ 2 \in 1..j
      BY <1>1, <2>2, <3>1
    <3>3. /\ Rest(i)[1].t # "data"
          /\ p \in {"text", "rep", "name", "size", "ack", "bye"}
          /\ \A k \in 2..Len(Rest(i)) : Rest(i)[k].t \in {"text", "name", "size"}
      BY <1>5, <3>1, <3>2, AskedUnits
    <3>4. \A k \in 3..Len(i) : i[k].t \in {"text", "name", "size"}
      <4> SUFFICES ASSUME NEW k \in 3..Len(i)
                   PROVE  i[k].t \in {"text", "name", "size"}
        OBVIOUS
      <4>1. k - 1 \in 2..Len(Rest(i)) /\ k - 1 \in 1..Len(Rest(i)) /\ (k - 1) + 1 = k
        BY <1>1, <3>1
      <4> QED
        BY <3>1, <3>3, <4>1
    <3>5. \A k \in 1..Len(w) : w[k] = i[j + k] /\ j + k \in 3..Len(i)
      <4> SUFFICES ASSUME NEW k \in 1..Len(w)
                   PROVE  w[k] = i[j + k] /\ j + k \in 3..Len(i)
        OBVIOUS
      <4>1. j + k >= 3
        BY <1>1, <2>2
      <4> QED
        BY <1>1, <1>2, <4>1
    <3>6. more
      BY <3>2, <3>3
    <3> HIDE DEF w
    <3>7. Paired(p, s, w, o, more)
      BY <1>5, <3>3, <3>4, <3>5, <3>6 DEF Paired, Missed
    <3> QED
      BY <3>7 DEF w
  <2> QED
    BY <2>1, <2>2
<1>6. CASE lost /\ Missed(p, "data", i, o)
  <2>1. \A k \in 2..Len(i) : i[k].t \in {"text", "name", "size"}
    BY <1>1, <1>6 DEF Missed
  <2>2. more /\ o = <<>> /\ p \in {"text", "rep", "name", "size", "ack", "bye"}
    BY <1>6 DEF Missed
  <2> QED
    BY <1>3, <2>1, <2>2
<1>7. \/ o = <<>> /\ Asked(p, i)
      \/ o = <<>> /\ i[1].t = "data" /\ Asked(p, Rest(i))
      \/ lost /\ Missed(p, "data", i, o)
  BY <1>1 DEF Paired, Greeting, Echoing, Announcing, Sending
<1> QED
  BY <1>4, <1>5, <1>6, <1>7

(* A read that has taken a part of the contents leaves the units what they   *)
(* were, but for their length.                                               *)
LEMMA PartRead ==
    ASSUME NEW p, NEW s, NEW i \in Seq(Unit), NEW o, NEW lost, NEW w \in Seq(Unit),
           Paired(p, s, i, o, lost), Len(w) = Len(i),
           \A k \in 1..Len(i) : w[k].t = i[k].t
    PROVE  Paired(p, s, w, o, lost)
<1> DEFINE n == Len(i)
<1>1. n \in Nat /\ (i = <<>> => w = <<>>) /\ (i # <<>> => w # <<>>)
  OBVIOUS
<1>2. \A a : One(i, a) => One(w, a)
  BY DEF One
<1>3. \A a, b : Two(i, a, b) => Two(w, a, b)
  BY DEF Two
<1>4. \A a, b, d : Three(i, a, b, d) => Three(w, a, b, d)
  BY DEF Three
<1>5. Asked(p, i) => Asked(p, w)
  BY <1>1, <1>2, <1>3, <1>4 DEF Asked
<1>6. i # <<>> => w[1].t = i[1].t
  OBVIOUS
<1>7. i # <<>> /\ Asked(p, Rest(i)) => Asked(p, Rest(w))
  <2> SUFFICES ASSUME i # <<>>, Asked(p, Rest(i)) PROVE Asked(p, Rest(w))
    OBVIOUS
  <2>1. /\ Rest(i) \in Seq(Unit) /\ Len(Rest(i)) = n - 1
        /\ \A k \in 1..Len(Rest(i)) : k + 1 \in 1..n /\ Rest(i)[k] = i[k + 1]
    BY RestOf
  <2>2. /\ Rest(w) \in Seq(Unit) /\ Len(Rest(w)) = n - 1
        /\ \A k \in 1..Len(Rest(w)) : k + 1 \in 1..n /\ Rest(w)[k] = w[k + 1]
    BY <1>1, RestOf
  <2>3. \A k \in 1..Len(Rest(i)) : Rest(w)[k].t = Rest(i)[k].t
    BY <2>1, <2>2
  <2> DEFINE x == Rest(i)
             y == Rest(w)
  <2>4. /\ x \in Seq(Unit) /\ y \in Seq(Unit) /\ Len(x) = Len(y)
        /\ \A k \in 1..Len(x) : y[k].t = x[k].t
        /\ Asked(p, x)
    BY <2>1, <2>2, <2>3
  <2> HIDE DEF x, y
  <2>5. Asked(p, y)
    BY <2>4 DEF Asked, One, Two, Three
  <2> QED
    BY <2>5 DEF y
<1>8. Missed(p, s, i, o) => Missed(p, s, w, o)
  BY DEF Missed
<1> QED
  BY <1>1, <1>2, <1>3, <1>4, <1>5, <1>6, <1>7, <1>8
     DEF Paired, Greeting, Echoing, Announcing, Sending

-----------------------------------------------------------------------------
(* The steps of a client keep them too: asking, which takes it from p to q   *)
(* with a unit of kind t,                                                    *)
Asks(p, t, q) ==
    \/ p = "hello" /\ t = "hello" /\ q = "hi"
    \/ p = "prompt" /\ t = "EchoReq" /\ q = "text"
    \/ p = "text" /\ t = "text" /\ q = "rep"
    \/ p = "prompt" /\ t = "FileUpReq" /\ q = "name"
    \/ p = "name" /\ t = "name" /\ q = "size"
    \/ p = "size" /\ t = "size" /\ q = "ack"
    \/ p = "prompt" /\ t = "quit" /\ q = "bye"

(* and being answered.                                                       *)
Gets(p, q) ==
    \/ p = "hi" /\ q = "prompt"
    \/ p = "rep" /\ q = "echoed"
    \/ p = "echoed" /\ q = "prompt"
    \/ p = "ack" /\ q = "send"

LEMMA AskedOn ==
    ASSUME NEW p, NEW q, NEW u \in Unit, Asks(p, u.t, q), NEW i \in Seq(Unit),
           Asked(p, i)
    PROVE  Asked(q, i \o <<u>>)
<1>1. /\ i = <<>> => One(i \o <<u>>, u.t)
      /\ \A a : One(i, a) => Two(i \o <<u>>, a, u.t)
      /\ \A a, b : Two(i, a, b) => Three(i \o <<u>>, a, b, u.t)
  BY Longer
<1> DEFINE w == i \o <<u>>
<1> HIDE DEF w
<1>2. Asked(q, w)
  BY <1>1 DEF w, Asked, Asks
<1> QED
  BY <1>2 DEF w

LEMMA DueAsked ==
    ASSUME NEW p, NEW q, NEW t, Asks(p, t, q), NEW o, Due(p, o)
    PROVE  Due(q, o)
BY DEF Due, Asks

LEMMA ClientAsked ==
    ASSUME NEW p, NEW q, NEW u \in Unit, Asks(p, u.t, q), NEW i \in Seq(Unit),
           NEW s, NEW o, NEW lost, Paired(p, s, i, o, lost)
    PROVE  Paired(q, s, i \o <<u>>, o, lost)
<1> DEFINE w == i \o <<u>>
<1>1. /\ i = <<>> => One(w, u.t)
      /\ \A a : One(i, a) => Two(w, a, u.t)
      /\ Asked(p, i) => Asked(q, w)
  BY Longer, AskedOn
<1>2. i # <<>> => w # <<>> /\ w[1] = i[1]
  BY Longer
<1>3. i # <<>> /\ Asked(p, Rest(i)) => Asked(q, Rest(w))
  <2>1. i # <<>> => Rest(i) \in Seq(Unit) /\ Rest(w) = Rest(i) \o <<u>>
    BY RestOf, Longer
  <2> QED
    BY <2>1, AskedOn
<1>4. Missed(p, s, i, o) => Missed(q, s, w, o)
  <2>1. /\ Len(w) = Len(i) + 1 /\ Len(i) \in Nat
        /\ \A k \in 1..Len(i) : w[k] = i[k]
        /\ w[Len(i) + 1] = u
    BY Longer
  <2> SUFFICES ASSUME Missed(p, s, i, o) PROVE Missed(q, s, w, o)
    OBVIOUS
  <2>2. /\ u.t \in {"text", "name", "size"}
        /\ q \in {"text", "rep", "name", "size", "ack", "bye"}
    BY DEF Missed, Asks
  <2>3. \A k \in 1..Len(w) : k \in 1..Len(i) \/ k = Len(i) + 1
    BY <2>1
  <2>4. \A k \in 1..Len(w) : w[k].t \in {"text", "name", "size"}
    BY <2>1, <2>2, <2>3 DEF Missed
  <2> QED
    BY <2>2, <2>4 DEF Missed
<1> HIDE DEF w
<1>5. Greeting(p, s, i, o) => Greeting(q, s, w, o)
  BY <1>1 DEF Greeting, Asks
<1>6. Echoing(p, s, i, o) => Echoing(q, s, w, o)
  BY <1>1 DEF Echoing, Asks
<1>7. Announcing(p, s, i, o) => Announcing(q, s, w, o)
  BY <1>1 DEF Announcing, Asks
<1>8. Sending(p, s, i, o) => Sending(q, s, w, o)
  BY <1>1, <1>2, <1>3 DEF Sending, Asks
<1>9. p # "bye"
  BY DEF Asks
<1>10. Paired(q, s, w, o, lost)
  BY <1>1, <1>4, <1>5, <1>6, <1>7, <1>8, <1>9 DEF Paired
<1> QED
  BY <1>10 DEF w

LEMMA ClientAnswered ==
    ASSUME NEW p, NEW q, Gets(p, q), NEW i, NEW o \in Seq(Unit), o # <<>>,
           NEW s, NEW lost, Paired(p, s, i, o, lost)
    PROVE  Paired(q, s, i, Rest(o), lost)
<1>1. /\ \A a : One(o, a) => Rest(o) = <<>>
      /\ \A a, b : Two(o, a, b) => One(Rest(o), b)
  BY RestOf
<1>2. \/ p = "hi" /\ s = "header" /\ i = <<>> /\ One(o, "hi")
      \/ Echoing(p, s, i, o)
      \/ p = "ack" /\ s = "data" /\ i = <<>> /\ One(o, "FileAck")
  BY DEF Paired, Greeting, Announcing, Sending, Missed, Gets
<1>3. CASE p = "hi" /\ s = "header" /\ i = <<>> /\ One(o, "hi")
  BY <1>1, <1>3 DEF Paired, Asked, Gets
<1>4. CASE Echoing(p, s, i, o)
  BY <1>1, <1>4 DEF Paired, Asked, Echoing, Gets
<1>5. CASE p = "ack" /\ s = "data" /\ i = <<>> /\ One(o, "FileAck")
  BY <1>1, <1>5 DEF Paired, Sending, Gets
<1> QED
  BY <1>2, <1>3, <1>4, <1>5

LEMMA DueAnswered ==
    ASSUME NEW p, NEW q, Gets(p, q), NEW o \in Seq(Unit), Due(p, o), o # <<>>
    PROVE  Due(q, Rest(o))
<1>1. /\ \A a : One(o, a) => Rest(o) = <<>>
      /\ \A a, b : Two(o, a, b) => One(Rest(o), b)
  BY RestOf
<1> QED
  BY <1>1 DEF Due, Gets

LEMMA ContentsSent ==
    ASSUME NEW i \in Seq(Unit), NEW s, NEW o, NEW lost,
           Paired("send", s, i, o, lost), NEW us,
           us = <<>> \/ \E u \in Unit : u.t = "data" /\ us = <<u>>
    PROVE  Paired("prompt", s, i \o us, o, lost)
<1>1. s = "data" /\ i = <<>> /\ o = <<>>
  BY DEF Paired, Greeting, Echoing, Announcing, Sending, Missed, Asked
<1>2. i \o us = us
  BY <1>1
<1>3. CASE us = <<>>
  <2>1. Paired("prompt", "data", <<>>, <<>>, lost)
    BY DEF Paired, Sending, Asked
  <2> QED
    BY <1>1, <1>2, <1>3, <2>1
<1>4. ASSUME NEW u \in Unit, u.t = "data", us = <<u>>
      PROVE  Paired("prompt", s, i \o us, o, lost)
  <2>1. us \in Seq(Unit) /\ us # <<>> /\ us[1] = u /\ One(us, "data")
    BY <1>4 DEF One
  <2>2. Rest(us) = <<>>
    BY <2>1, RestOf
  <2>3. Paired("prompt", "data", us, <<>>, lost)
    BY <1>4, <2>1, <2>2 DEF Paired, Sending, Asked
  <2> QED
    BY <1>1, <1>2, <2>3
<1> QED
  BY <1>3, <1>4

-----------------------------------------------------------------------------
(* The steps of the two programs.                                            *)
Facing(c) == /\ Paired(cl[c].pc, srv.pc, chan[c].in["s"], chan[c].in["c"], srv.lost)
             /\ srv.pc \in {"reply", "text"} => srv.recv_n = 1

LEMMA Types ==
    ASSUME IInv
    PROVE  /\ srv \in Server /\ queue \in Seq(Clients)
           /\ chan \in [Clients -> Connection(Unit)] /\ cl \in [Clients -> Client]
BY DEF IInv, TypeOK, Connection

LEMMA ConnTypes ==
    ASSUME IInv, NEW c \in Clients
    PROVE  /\ chan[c] \in Connection(Unit) /\ cl[c] \in Client
           /\ chan[c].in["s"] \in Seq(Unit) /\ chan[c].in["c"] \in Seq(Unit)
           /\ chan[c].end["s"] \in Ends /\ chan[c].end["c"] \in Ends
           /\ Peer("s") = "c" /\ Peer("c") = "s" /\ "s" \in Sides /\ "c" \in Sides
           /\ "s" \in Sides \ {"c"} /\ "c" \in Sides \ {"s"}
BY Types DEF Connection, Sides, Peer

(* The client that is served, if it has not gone.                            *)
LEMMA ServedFaces ==
    ASSUME IInv, ~ SAt("dead"), NEW c \in Clients, srv.con = c, Running(c)
    PROVE  /\ chan[c].end["c"] = "open" /\ chan[c].end["s"] = "open"
           /\ ~ Queued(c) /\ Facing(c) /\ Served(c)
BY DEF IInv, OneClient, Stage, Coming, Waiting, Served, Left, Open, Facing

(* A step of the server that concerns its own client only.                   *)
LEMMA OwnStep ==
    ASSUME IInv, ~ SAt("dead"), NEW c \in Clients, srv.con = c,
           NEW h \in Connection(Unit), chan' = [chan EXCEPT ![c] = h],
           UNCHANGED <<queue, cl>>,
           srv' \in Server, srv'.con = c, srv'.pc # "dead",
           h.end["s"] = "open" <=> chan[c].end["s"] = "open",
           h.end["c"] = "open" <=> chan[c].end["c"] = "open",
           Running(c) =>
             /\ Paired(cl[c].pc, srv'.pc, h.in["s"], h.in["c"], srv'.lost)
             /\ srv'.pc \in {"reply", "text"} => srv'.recv_n = 1
    PROVE  IInv'
<1>1. chan' \in [Clients -> Connection(Unit)] /\ chan'[c] = h
  BY Types
<1>2. \A d \in Clients \ {c} : chan'[d] = chan[d]
  BY Types
<1>3. TypeOK'
  BY <1>1, Types DEF TypeOK, Connection
<1>4. QueuedOnce'
  BY DEF IInv, QueuedOnce
<1>5. Open'
  BY <1>1, <1>2, Types DEF IInv, Open, SAt
<1>6. AtWork'
  BY DEF AtWork
<1>7. OneClient(c)'
  <2> SUFFICES ASSUME Running(c)'
               PROVE  /\ chan'[c].end["c"] = "open" /\ Due(cl'[c].pc, chan'[c].in["c"])
                      /\ Stage(c)'
    BY DEF OneClient
  <2>1. Running(c) /\ cl'[c] = cl[c]
    BY DEF Running
  <2>2. chan[c].end["c"] = "open" /\ ~ Queued(c)
    BY <2>1, ServedFaces
  <2>3. Paired(cl[c].pc, srv'.pc, h.in["s"], h.in["c"], srv'.lost)
    BY <2>1
  <2>4. Due(cl[c].pc, h.in["c"])
    BY <2>3, PairedDue
  <2>5. Served(c)'
    BY <1>1, <2>1, <2>2, <2>3 DEF Served, Queued
  <2> QED
    BY <1>1, <2>1, <2>2, <2>4, <2>5 DEF Stage
<1>8. \A d \in Clients \ {c} : OneClient(d)'
  <2> SUFFICES ASSUME NEW d \in Clients \ {c} PROVE OneClient(d)'
    OBVIOUS
  <2>1. OneClient(d) /\ chan'[d] = chan[d] /\ cl'[d] = cl[d] /\ srv.con # d /\ srv'.con # d
    BY <1>2 DEF IInv
  <2>2. Coming(d) => Coming(d)'
    BY <2>1 DEF Coming, Queued
  <2>3. Waiting(d) => Waiting(d)'
    BY <2>1 DEF Waiting, Queued
  <2>4. Left(d) => Left(d)'
    BY <2>1 DEF Left, Queued
  <2>5. ~ Served(d)
    BY <2>1 DEF Served
  <2>6. Stage(d) => Stage(d)'
    BY <2>2, <2>3, <2>4, <2>5 DEF Stage
  <2>7. Running(d)' => Running(d)
    BY <2>1 DEF Running
  <2> QED
    BY <2>1, <2>6, <2>7 DEF OneClient
<1> QED
  BY <1>3, <1>4, <1>5, <1>6, <1>7, <1>8 DEF IInv

(* The server ends.                                                          *)
LEMMA DieStep ==
    ASSUME IInv, Die, UNCHANGED cl
    PROVE  IInv'
<1>1. srv' = [srv EXCEPT !.pc = "dead"] /\ srv' \in Server /\ srv'.pc = "dead"
  BY Types DEF Die, SGoto, Server
<1>2. PICK how \in Hows : chan' = [c \in Clients |->
         IF cl[c].pc = "connect" THEN chan[c]
         ELSE IF \E i \in 1..Len(queue) : queue[i] = c THEN Refused(chan[c])
         ELSE Closed(chan[c], "s", how)]
  BY DEF Die
<1>3. ASSUME NEW c \in Clients
      PROVE  /\ chan'[c] \in Connection(Unit) /\ chan'[c].end["c"] = chan[c].end["c"]
             /\ chan'[c].in["c"] = chan[c].in["c"]
  <2>1. /\ chan'[c] = IF cl[c].pc = "connect" THEN chan[c]
                      ELSE IF \E i \in 1..Len(queue) : queue[i] = c THEN Refused(chan[c])
                      ELSE Closed(chan[c], "s", how)
        /\ chan[c] \in Connection(Unit) /\ "s" \in Sides /\ "c" \in Sides \ {"s"}
    BY <1>2, ConnTypes
  <2>2. /\ Refused(chan[c]) \in Connection(Unit)
        /\ Refused(chan[c]).end["c"] = chan[c].end["c"]
        /\ Refused(chan[c]).in["c"] = chan[c].in["c"]
    BY <2>1, RefusedConn
  <2>3. /\ Closed(chan[c], "s", how) \in Connection(Unit)
        /\ Closed(chan[c], "s", how).end["c"] = chan[c].end["c"]
        /\ Closed(chan[c], "s", how).in["c"] = chan[c].in["c"]
    BY <2>1, ClosedConn
  <2> QED
    BY <2>1, <2>2, <2>3
<1>4. chan' \in [Clients -> Connection(Unit)]
  <2>1. chan' = [c \in Clients |-> chan'[c]]
    BY <1>2
  <2> QED
    BY <1>3, <2>1
<1>5. queue' = <<>> /\ queue' \in Seq(Clients) /\ Len(queue') = 0
  BY DEF Die
<1>6. TypeOK'
  BY <1>1, <1>4, <1>5, Types DEF TypeOK, Connection
<1>7. QueuedOnce' /\ Open' /\ AtWork'
  BY <1>1, <1>5 DEF QueuedOnce, Open, AtWork, SAt
<1>8. ASSUME NEW c \in Clients PROVE OneClient(c)'
  BY <1>1, <1>3 DEF IInv, OneClient, Running, SAt
<1> QED
  BY <1>6, <1>7, <1>8 DEF IInv

(* A client that has not gone has its side open.                             *)
LEMMA NotGone ==
    ASSUME IInv, NEW c \in Clients, AtEnd(chan[c], "s") \/ Failed(chan[c], "s")
    PROVE  ~ Running(c)
<1>1. chan[c].end["c"] # "open"
  BY ConnTypes DEF AtEnd, Failed
<1> QED
  BY <1>1 DEF IInv, OneClient

(* The connections of this module.                                           *)
LEMMA UnitsTaken ==
    ASSUME NEW h \in Connection(Unit), NEW s \in Sides, NEW r \in Sides \ {s},
           NEW j \in Nat
    PROVE  /\ Taken(h, s, j) \in Connection(Unit)
           /\ Taken(h, s, j).end = h.end
           /\ Taken(h, s, j).in[s] = SubSeq(h.in[s], j + 1, Len(h.in[s]))
           /\ Taken(h, s, j).in[r] = h.in[r]
BY TakenConn

LEMMA UnitsSent ==
    ASSUME NEW h \in Connection(Unit), NEW s \in Sides, NEW r \in Sides, r = Peer(s),
           NEW us \in Seq(Unit)
    PROVE  /\ Sent(h, s, us) \in Connection(Unit)
           /\ Sent(h, s, us).end[s] = "open" <=> h.end[s] = "open"
           /\ Sent(h, s, us).end[r] = "open" <=> h.end[r] = "open"
           /\ Sent(h, s, us).in[s] = h.in[s]
           /\ h.end[r] = "open" => Sent(h, s, us).in[r] = h.in[r] \o us
           /\ h.end[r] # "open" => Sent(h, s, us).in[r] = h.in[r]
<1>1. /\ Sent(h, s, us) \in Connection(Unit)
      /\ \A q \in Sides : Sent(h, s, us).end[q] = "open" <=> h.end[q] = "open"
  BY SentConn
<1>2. Sent(h, s, us).in[s] = h.in[s]
  BY SentConn
<1>3. h.end[r] = "open" => Sent(h, s, us).in[r] = h.in[r] \o us
  BY PeerSide DEF Sent, Connection
<1>4. h.end[r] # "open" => Sent(h, s, us).in[r] = h.in[r]
  BY SentConn
<1> QED
  BY <1>1, <1>2, <1>3, <1>4

LEMMA SentByClient ==
    ASSUME NEW h \in Connection(Unit), NEW us \in Seq(Unit), NEW k, k = Sent(h, "c", us)
    PROVE  /\ k \in Connection(Unit)
           /\ k.end["s"] = "open" <=> h.end["s"] = "open"
           /\ k.end["c"] = "open" <=> h.end["c"] = "open"
           /\ k.in["c"] = h.in["c"]
           /\ h.end["s"] = "open" => k.in["s"] = h.in["s"] \o us
<1>1. "c" \in Sides /\ "s" \in Sides /\ "s" = Peer("c")
  BY DEF Sides, Peer
<1>2. /\ Sent(h, "c", us) \in Connection(Unit)
      /\ Sent(h, "c", us).end["c"] = "open" <=> h.end["c"] = "open"
      /\ Sent(h, "c", us).end["s"] = "open" <=> h.end["s"] = "open"
  BY <1>1, UnitsSent
<1>3. /\ Sent(h, "c", us).in["c"] = h.in["c"]
      /\ h.end["s"] = "open" => Sent(h, "c", us).in["s"] = h.in["s"] \o us
  BY <1>1, UnitsSent
<1> QED
  BY <1>2, <1>3

LEMMA SentByServer ==
    ASSUME NEW h \in Connection(Unit), NEW us \in Seq(Unit), NEW k, k = Sent(h, "s", us)
    PROVE  /\ k \in Connection(Unit)
           /\ k.end["c"] = "open" <=> h.end["c"] = "open"
           /\ k.end["s"] = "open" <=> h.end["s"] = "open"
           /\ k.in["s"] = h.in["s"]
           /\ h.end["c"] = "open" => k.in["c"] = h.in["c"] \o us
<1>1. "s" \in Sides /\ "c" \in Sides /\ "c" = Peer("s")
  BY DEF Sides, Peer
<1>2. /\ Sent(h, "s", us) \in Connection(Unit)
      /\ Sent(h, "s", us).end["s"] = "open" <=> h.end["s"] = "open"
      /\ Sent(h, "s", us).end["c"] = "open" <=> h.end["c"] = "open"
  BY <1>1, UnitsSent
<1>3. /\ Sent(h, "s", us).in["s"] = h.in["s"]
      /\ h.end["c"] = "open" => Sent(h, "s", us).in["c"] = h.in["c"] \o us
  BY <1>1, UnitsSent
<1> QED
  BY <1>2, <1>3

(* The server writes to its client, takes from what it has sent, or does     *)
(* neither.                                                                  *)
LEMMA SrvWrites ==
    ASSUME IInv, ~ SAt("dead"), NEW c \in Clients, srv.con = c,
           NEW us \in Seq(Unit), NEW pc, [srv EXCEPT !.pc = pc] \in Server, pc # "dead",
           Write(us, pc), UNCHANGED cl,
           Running(c) =>
             /\ Paired(cl[c].pc, pc, chan[c].in["s"], chan[c].in["c"] \o us, srv.lost)
             /\ pc \in {"reply", "text"} => srv.recv_n = 1
    PROVE  IInv'
<1> DEFINE h == Wrote(chan[c], "s", us)
<1>1. CASE chan' = [chan EXCEPT ![srv.con] = Wrote(@, "s", us)] /\ SGoto(pc) /\ UNCHANGED queue
  <2>1. chan' = [chan EXCEPT ![c] = h]
    BY <1>1
  <2>2. /\ srv' = [srv EXCEPT !.pc = pc] /\ srv' \in Server
        /\ srv'.pc = pc /\ srv'.con = c /\ srv'.lost = srv.lost /\ srv'.recv_n = srv.recv_n
    BY <1>1, Types DEF SGoto, Server
  <2>3. /\ h \in Connection(Unit) /\ h.in["s"] = chan[c].in["s"]
        /\ h.end["s"] = "open" <=> chan[c].end["s"] = "open"
        /\ h.end["c"] = "open" <=> chan[c].end["c"] = "open"
        /\ chan[c].end["c"] = "open" => h.in["c"] = chan[c].in["c"] \o us
    <3>1. CASE us = <<>>
      <4>1. h = chan[c]
        BY <3>1 DEF Wrote
      <4>2. chan[c].in["c"] \o us = chan[c].in["c"]
        BY <3>1, ConnTypes
      <4> QED
        BY <4>1, <4>2, ConnTypes
    <3>2. CASE us # <<>>
      <4>1. h = Sent(chan[c], "s", us)
        BY <3>2 DEF Wrote
      <4>2. chan[c] \in Connection(Unit)
        BY ConnTypes
      <4> HIDE DEF h
      <4> QED
        BY ONLY <4>1, <4>2, us \in Seq(Unit), SentByServer
    <3> QED
      BY <3>1, <3>2
  <2> HIDE DEF h
  <2>4. Running(c) => chan[c].end["c"] = "open"
    BY ServedFaces
  <2>5. Running(c) => /\ Paired(cl[c].pc, srv'.pc, h.in["s"], h.in["c"], srv'.lost)
                      /\ srv'.pc \in {"reply", "text"} => srv'.recv_n = 1
    BY <2>2, <2>3, <2>4
  <2> QED
    BY <1>1, <2>1, <2>2, <2>3, <2>5, OwnStep
<1>2. CASE Die
  BY <1>2, DieStep
<1> QED
  BY <1>1, <1>2 DEF Write

LEMMA SrvTakes ==
    ASSUME IInv, ~ SAt("dead"), NEW c \in Clients, srv.con = c, NEW j \in Nat,
           Take(j), UNCHANGED <<queue, cl>>,
           srv' \in Server, srv'.con = c, srv'.pc # "dead",
           Running(c) =>
             /\ Paired(cl[c].pc, srv'.pc, SubSeq(chan[c].in["s"], j + 1, Len(chan[c].in["s"])),
                       chan[c].in["c"], srv'.lost)
             /\ srv'.pc \in {"reply", "text"} => srv'.recv_n = 1
    PROVE  IInv'
<1> DEFINE h == Taken(chan[c], "s", j)
<1>1. chan' = [chan EXCEPT ![c] = h]
  BY DEF Take
<1>2. /\ h \in Connection(Unit) /\ h.end = chan[c].end
      /\ h.in["s"] = SubSeq(chan[c].in["s"], j + 1, Len(chan[c].in["s"]))
      /\ h.in["c"] = chan[c].in["c"]
  <2>1. chan[c] \in Connection(Unit) /\ "s" \in Sides /\ "c" \in Sides \ {"s"}
    BY ConnTypes
  <2> QED
    BY ONLY <2>1, j \in Nat, UnitsTaken
<1> HIDE DEF h
<1>3. Running(c) => /\ Paired(cl[c].pc, srv'.pc, h.in["s"], h.in["c"], srv'.lost)
                    /\ srv'.pc \in {"reply", "text"} => srv'.recv_n = 1
  BY <1>2
<1> QED
  BY <1>1, <1>2, <1>3, OwnStep

LEMMA SrvMoves ==
    ASSUME IInv, ~ SAt("dead"), NEW c \in Clients, srv.con = c,
           UNCHANGED <<queue, chan, cl>>,
           srv' \in Server, srv'.con = c, srv'.pc # "dead",
           Running(c) =>
             /\ Paired(cl[c].pc, srv'.pc, chan[c].in["s"], chan[c].in["c"], srv'.lost)
             /\ srv'.pc \in {"reply", "text"} => srv'.recv_n = 1
    PROVE  IInv'
<1> DEFINE h == chan[c]
<1>1. chan' = [chan EXCEPT ![c] = h] /\ h \in Connection(Unit)
  BY Types
<1> QED
  BY <1>1, OwnStep

(* accept: the first that waits is served, the last one's quit is behind it. *)
LEMMA AcceptStep ==
    ASSUME IInv, Accept, UNCHANGED cl
    PROVE  IInv'
<1> DEFINE c == Head(queue)
           n == Len(queue)
<1>1. /\ n \in Nat /\ n > 0 /\ queue \in Seq(Clients) /\ c = queue[1] /\ c \in Clients
      /\ 1 \in 1..n
  BY Types DEF Accept
<1>2. /\ srv' \in Server /\ srv'.pc = "hello" /\ srv'.con = c
  BY <1>1, Types DEF Accept, Server
<1>3. /\ queue' \in Seq(Clients) /\ Len(queue') = n - 1
      /\ \A k \in 1..Len(queue') : k + 1 \in 1..n /\ queue'[k] = queue[k + 1]
  BY <1>1 DEF Accept
<1>4. chan' = chan /\ cl' = cl /\ SAt("accept")
  BY DEF Accept
<1> HIDE DEF c, n
<1>5. TypeOK'
  BY <1>2, <1>3, <1>4 DEF IInv, TypeOK
<1>6. \A k, l \in 1..n : queue[k] = queue[l] => k = l
  BY DEF IInv, QueuedOnce, n
<1>7. QueuedOnce'
  <2> SUFFICES ASSUME NEW k \in 1..Len(queue'), NEW l \in 1..Len(queue'),
                      queue'[k] = queue'[l]
               PROVE  k = l
    BY DEF QueuedOnce
  <2>1. k + 1 = l + 1
    BY <1>3, <1>6
  <2> QED
    BY <1>1, <1>3, <2>1
<1>8. \A d : Queued(d)' <=> Queued(d) /\ d # c
  <2>1. ASSUME NEW d, Queued(d)' PROVE Queued(d) /\ d # c
    <3>1. PICK k \in 1..Len(queue') : queue'[k] = d
      BY <2>1 DEF Queued
    <3>2. k + 1 \in 1..n /\ queue[k + 1] = d /\ k + 1 # 1
      BY <1>1, <1>3, <3>1
    <3> QED
      BY <1>1, <1>6, <3>2 DEF Queued, n
  <2>2. ASSUME NEW d, Queued(d), d # c PROVE Queued(d)'
    <3>1. PICK k \in 1..n : queue[k] = d
      BY <2>2 DEF Queued, n
    <3>2. k # 1
      BY <1>1, <2>2, <3>1
    <3>3. k - 1 \in 1..Len(queue') /\ (k - 1) + 1 = k
      BY <1>1, <1>3, <3>2
    <3>4. queue'[k - 1] = d
      BY <1>3, <3>1, <3>3
    <3> QED
      BY <3>3, <3>4 DEF Queued
  <2> QED
    BY <2>1, <2>2
<1>9. Open' /\ AtWork'
  BY <1>1, <1>2, <1>4 DEF IInv, Open, AtWork, SAt
<1>10. Queued(c)
  BY <1>1 DEF Queued, n
<1>11. ASSUME NEW d \in Clients PROVE OneClient(d)'
  <2>1. OneClient(d) /\ chan'[d] = chan[d] /\ cl'[d] = cl[d] /\ srv.pc = "accept"
    BY <1>4 DEF IInv, SAt
  <2>2. CASE d = c
    <3>1. Stage(d) => Waiting(d)
      BY <1>10, <2>2 DEF Stage, Coming, Served, Left
    <3>2. Waiting(d) => Served(d)'
      BY <1>2, <1>8, <2>1, <2>2 DEF Waiting, Served, Paired, Greeting
    <3> QED
      BY <1>2, <2>1, <3>1, <3>2 DEF OneClient, Stage, SAt, Running
  <2>3. CASE d # c
    <3>1. Coming(d) => Coming(d)'
      BY <1>2, <1>8, <2>1, <2>3 DEF Coming
    <3>2. Waiting(d) => Waiting(d)'
      BY <1>2, <1>8, <2>1, <2>3 DEF Waiting
    <3>3. Left(d) => Left(d)'
      BY <1>2, <1>8, <2>1, <2>3 DEF Left
    <3>4. Served(d) => Left(d)'
      <4> SUFFICES ASSUME Served(d) PROVE Left(d)'
        OBVIOUS
      <4>1. cl[d].pc = "bye" /\ chan[d].in["c"] = <<>>
        BY <2>1 DEF Served, Paired, Greeting, Echoing, Announcing, Sending, Missed
      <4> QED
        BY <1>2, <1>8, <2>1, <2>3, <4>1 DEF Served, Left
    <3> QED
      BY <2>1, <3>1, <3>2, <3>3, <3>4 DEF OneClient, Stage, SAt, Running
  <2> QED
    BY <2>2, <2>3
<1> QED
  BY <1>5, <1>7, <1>9, <1>11 DEF IInv

(* A record of the server with its point and other fields changed.           *)
LEMMA SrvRecord ==
    ASSUME srv \in Server
    PROVE  /\ \A pc \in Requests \cup {"accept", "hello", "hi", "header", "reply",
                                       "text", "size", "ack", "data", "dead"} :
                [srv EXCEPT !.pc = pc] \in Server
           /\ srv.msgType \in Requests \cup {"none"} /\ srv.size \in Nat
           /\ srv.stored \in Nat /\ srv.lost \in BOOLEAN
BY DEF Server

LEMMA GreetStep ==
    ASSUME IInv, Greet, UNCHANGED cl
    PROVE  IInv'
<1>1. PICK c \in Clients : srv.con = c
  BY DEF IInv, AtWork, Greet, SAt
<1>2. ~ SAt("dead") /\ ch = chan[c] /\ in = chan[c].in["s"]
  BY <1>1 DEF Greet, SAt, ch, in
<1>3. Running(c) => Facing(c)
  BY <1>1, <1>2, ServedFaces
<1>4. chan[c].in["s"] \in Seq(Unit) /\ chan[c].in["c"] \in Seq(Unit) /\ srv \in Server
  BY ConnTypes, Types
<1>5. CASE SAt("hello") /\ srv' = [srv EXCEPT !.pc = "hi", !.greeted = TRUE] /\ UNCHANGED queue
  <2>1. /\ srv' \in Server /\ srv'.pc = "hi" /\ srv'.con = c /\ srv'.lost = srv.lost
        /\ srv'.pc # "dead" /\ srv'.pc \notin {"reply", "text"} /\ srv.pc = "hello"
    BY <1>1, <1>4, <1>5 DEF Server, SAt
  <2>2. CASE in # <<>> /\ Take(1)
    <3>1. Running(c) => Paired(cl[c].pc, srv'.pc, Rest(chan[c].in["s"]), chan[c].in["c"],
                               srv'.lost)
      BY <1>2, <1>3, <1>4, <2>1, <2>2, HelloRead DEF Facing
    <3>2. Rest(chan[c].in["s"]) = SubSeq(chan[c].in["s"], 1 + 1, Len(chan[c].in["s"]))
      BY DEF Rest
    <3> QED
      BY <1>1, <1>2, <1>5, <2>1, <2>2, <3>1, <3>2, SrvTakes
  <2>3. CASE AtEnd(ch, "s") /\ UNCHANGED chan
    <3>1. ~ Running(c)
      BY <1>2, <2>3, NotGone
    <3> QED
      BY <1>1, <1>2, <1>5, <2>1, <2>3, <3>1, SrvMoves
  <2>4. (in # <<>> /\ Take(1)) \/ (AtEnd(ch, "s") /\ UNCHANGED chan) \/ Die
    BY <1>5 DEF Greet, SAt
  <2> QED
    BY <2>2, <2>3, <2>4, DieStep
<1>6. CASE SAt("hi") /\ Write(<<Plain("hi")>>, "header")
  <2>1. Plain("hi") \in Unit /\ Plain("hi").t = "hi" /\ <<Plain("hi")>> \in Seq(Unit)
    BY DEF Plain, Unit
  <2>2. /\ [srv EXCEPT !.pc = "header"] \in Server /\ "header" # "dead"
        /\ "header" \notin {"reply", "text"} /\ srv.pc = "hi"
    BY <1>4, <1>6, SrvRecord DEF SAt
  <2>3. Running(c) => Paired(cl[c].pc, "header", chan[c].in["s"],
                             chan[c].in["c"] \o <<Plain("hi")>>, srv.lost)
    BY <1>3, <1>4, <2>1, <2>2, HiSent DEF Facing
  <2> QED
    BY <1>1, <1>2, <1>6, <2>1, <2>2, <2>3, SrvWrites
<1> QED
  BY <1>5, <1>6, DieStep DEF Greet

LEMMA HeaderStep ==
    ASSUME IInv, Header, UNCHANGED cl
    PROVE  IInv'
<1>1. PICK c \in Clients : srv.con = c
  BY DEF IInv, AtWork, Header, SAt
<1>2. ~ SAt("dead") /\ ch = chan[c] /\ in = chan[c].in["s"] /\ srv.pc = "header"
  BY <1>1 DEF Header, SAt, ch, in
<1>3. Running(c) => Facing(c)
  BY <1>1, <1>2, ServedFaces
<1>4. chan[c].in["s"] \in Seq(Unit) /\ chan[c].in["c"] \in Seq(Unit) /\ srv \in Server
  BY ConnTypes, Types
<1>5. CASE in # <<>> /\ Take(1) /\ UNCHANGED queue
           /\ LET t == Named(Head(in).t) IN
              srv' = [srv EXCEPT !.pc = IF t = "none" THEN "header" ELSE t,
                                 !.msgType = t]
  <2> DEFINE t == Named(Head(in).t)
             s == IF t = "none" THEN "header" ELSE t
  <2>1. t \in Requests \cup {"none"} /\ s \in Requests \cup {"header"}
    BY DEF Named
  <2>2. srv' = [srv EXCEPT !.pc = s, !.msgType = t]
    BY <1>5
  <2>3. Running(c) => Paired(cl[c].pc, s, Rest(chan[c].in["s"]), chan[c].in["c"], srv.lost)
    BY <1>2, <1>3, <1>4, <1>5, HeaderRead DEF Facing
  <2> HIDE DEF t, s
  <2>4. /\ srv' \in Server /\ srv'.con = c /\ srv'.pc = s /\ srv'.lost = srv.lost
        /\ srv'.pc # "dead" /\ srv'.pc \notin {"reply", "text"}
    BY <1>1, <1>4, <2>1, <2>2 DEF Server, Requests
  <2>5. Rest(chan[c].in["s"]) = SubSeq(chan[c].in["s"], 1 + 1, Len(chan[c].in["s"]))
    BY DEF Rest
  <2> QED
    BY <1>1, <1>2, <1>5, <2>3, <2>4, <2>5, SrvTakes
<1>6. CASE AtEnd(ch, "s") /\ srv.msgType # "none" /\ SGoto(srv.msgType)
           /\ UNCHANGED <<queue, chan>>
  <2>1. ~ Running(c)
    BY <1>2, <1>6, NotGone
  <2>2. srv' = [srv EXCEPT !.pc = srv.msgType] /\ srv.msgType \in Requests
    BY <1>4, <1>6 DEF SGoto, Server
  <2>3. srv' \in Server /\ srv'.con = c /\ srv'.pc # "dead"
    BY <1>1, <1>4, <2>2 DEF Server, Requests
  <2> QED
    BY <1>1, <1>2, <1>6, <2>1, <2>3, SrvMoves
<1> QED
  BY <1>5, <1>6, DieStep DEF Header

LEMMA EchoStep ==
    ASSUME IInv, Echo, UNCHANGED cl
    PROVE  IInv'
<1>1. PICK c \in Clients : srv.con = c
  BY DEF IInv, AtWork, Echo, SAt
<1>2. ~ SAt("dead") /\ ch = chan[c] /\ in = chan[c].in["s"]
  BY <1>1 DEF Echo, SAt, ch, in
<1>3. Running(c) => Facing(c)
  BY <1>1, <1>2, ServedFaces
<1>4. chan[c].in["s"] \in Seq(Unit) /\ chan[c].in["c"] \in Seq(Unit) /\ srv \in Server
  BY ConnTypes, Types
<1>5. CASE SAt("EchoReq") /\ UNCHANGED queue /\ in # <<>> /\ Take(1)
           /\ \E hello \in BOOLEAN : srv' =
                [srv EXCEPT !.pc = "reply", !.recv_n = 1, !.greeted = hello]
  <2>1. PICK hello \in BOOLEAN : srv' =
          [srv EXCEPT !.pc = "reply", !.recv_n = 1, !.greeted = hello]
    BY <1>5
  <2>2. /\ srv' \in Server /\ srv'.pc = "reply" /\ srv'.con = c /\ srv'.lost = srv.lost
        /\ srv'.recv_n = 1 /\ srv'.pc # "dead" /\ srv.pc = "EchoReq"
    BY <1>1, <1>4, <1>5, <2>1 DEF Server, SAt
  <2>3. Running(c) => Paired(cl[c].pc, srv'.pc, Rest(chan[c].in["s"]), chan[c].in["c"],
                             srv'.lost)
    BY <1>2, <1>3, <1>4, <1>5, <2>2, TextRead DEF Facing
  <2>4. Rest(chan[c].in["s"]) = SubSeq(chan[c].in["s"], 1 + 1, Len(chan[c].in["s"]))
    BY DEF Rest
  <2> QED
    BY <1>1, <1>2, <1>5, <2>2, <2>3, <2>4, SrvTakes
<1>6. CASE SAt("EchoReq") /\ UNCHANGED <<queue, chan>> /\ AtEnd(ch, "s")
           /\ srv' = [srv EXCEPT !.pc = "reply", !.recv_n = 0, !.greeted = FALSE]
  <2>1. ~ Running(c)
    BY <1>2, <1>6, NotGone
  <2>2. srv' \in Server /\ srv'.con = c /\ srv'.pc # "dead"
    BY <1>1, <1>4, <1>6 DEF Server
  <2> QED
    BY <1>1, <1>2, <1>6, <2>1, <2>2, SrvMoves
<1>7. CASE SAt("reply") /\ Write(<<Plain("EchoReq")>>, "text")
  <2>1. /\ Plain("EchoReq") \in Unit /\ Plain("EchoReq").t = "EchoReq"
        /\ <<Plain("EchoReq")>> \in Seq(Unit)
    BY DEF Plain, Unit, Requests
  <2>2. /\ [srv EXCEPT !.pc = "text"] \in Server /\ "text" # "dead" /\ srv.pc = "reply"
    BY <1>4, <1>7, SrvRecord DEF SAt
  <2>3. Running(c) => /\ Paired(cl[c].pc, "text", chan[c].in["s"],
                                chan[c].in["c"] \o <<Plain("EchoReq")>>, srv.lost)
                      /\ srv.recv_n = 1
    BY <1>3, <1>4, <2>1, <2>2, ReplySent DEF Facing
  <2> QED
    BY <1>1, <1>2, <1>7, <2>1, <2>2, <2>3, SrvWrites
<1>8. CASE SAt("text")
           /\ Write(IF srv.recv_n = 0 THEN <<>> ELSE <<Plain("text")>>, "header")
  <2> DEFINE us == IF srv.recv_n = 0 THEN <<>> ELSE <<Plain("text")>>
  <2>1. Plain("text") \in Unit /\ Plain("text").t = "text" /\ <<Plain("text")>> \in Seq(Unit)
    BY DEF Plain, Unit
  <2>2. us \in Seq(Unit)
    BY <2>1
  <2>3. /\ [srv EXCEPT !.pc = "header"] \in Server /\ "header" # "dead" /\ srv.pc = "text"
        /\ "header" \notin {"reply", "text"}
    BY <1>4, <1>8, SrvRecord DEF SAt
  <2>4. Running(c) => us = <<Plain("text")>>
    BY <1>3, <2>3 DEF Facing
  <2>5. Running(c) => Paired(cl[c].pc, "header", chan[c].in["s"],
                             chan[c].in["c"] \o us, srv.lost)
    BY <1>3, <1>4, <2>1, <2>3, <2>4, TextSent DEF Facing
  <2>6. Write(us, "header")
    BY <1>8
  <2> HIDE DEF us
  <2> QED
    BY <1>1, <1>2, <1>8, <2>2, <2>3, <2>5, <2>6, SrvWrites
<1> QED
  BY <1>5, <1>6, <1>7, <1>8, DieStep DEF Echo

(* A part of the contents is taken off the first unit.                       *)
Cut(i, m) == [i EXCEPT ![1].n = @ - m]

LEMMA PartTaken ==
    ASSUME NEW i \in Seq(Unit), i # <<>>, NEW m \in 1..i[1].n - 1
    PROVE  /\ Cut(i, m) \in Seq(Unit) /\ Len(Cut(i, m)) = Len(i)
           /\ \A k \in 1..Len(i) : Cut(i, m)[k].t = i[k].t
<1>1. /\ i[1] \in Unit /\ i[1].n \in Nat /\ i[1].n - m \in Nat /\ 1 \in 1..Len(i)
      /\ Len(i) \in Nat
  <2>1. i[1] \in Unit /\ 1 \in 1..Len(i) /\ Len(i) \in Nat
    OBVIOUS
  <2>2. i[1].n \in Nat
    BY <2>1 DEF Unit
  <2> QED
    BY <2>1, <2>2
<1> DEFINE u == [i[1] EXCEPT !.n = @ - m]
           w == Cut(i, m)
<1>2. u \in Unit /\ u.t = i[1].t
  BY <1>1 DEF Unit
<1>3. w = [i EXCEPT ![1] = u]
  BY DEF Cut
<1> HIDE DEF u, w
<1>4. /\ Len(w) = Len(i) /\ w[1] = u
      /\ \A k \in 1..Len(i) : k # 1 => w[k] = i[k]
  BY <1>1, <1>3
<1>5. w \in Seq(Unit)
  BY <1>1, <1>2, <1>3
<1> QED
  BY <1>2, <1>4, <1>5 DEF w

LEMMA DataStep ==
    ASSUME IInv, SAt("data"), UNCHANGED <<queue, cl>>,
           \/ \E j \in 1..Len(in) : ReadUnits(j)
           \/ ReadPart
           \/ AtEnd(ch, "s") /\ SGoto("header") /\ UNCHANGED chan
           \/ /\ Failed(ch, "s")
              /\ srv' = [srv EXCEPT !.pc = "header", !.stored = @ + srv.size]
              /\ UNCHANGED chan
    PROVE  IInv'
<1>1. PICK c \in Clients : srv.con = c
  BY DEF IInv, AtWork, SAt
<1>2. ~ SAt("dead") /\ ch = chan[c] /\ in = chan[c].in["s"] /\ srv.pc = "data"
  BY <1>1 DEF SAt, ch, in
<1>3. Running(c) => Facing(c)
  BY <1>1, <1>2, ServedFaces
<1>4. chan[c].in["s"] \in Seq(Unit) /\ chan[c].in["c"] \in Seq(Unit) /\ srv \in Server
  BY ConnTypes, Types
<1>5. srv.stored + srv.size \in Nat /\ srv.lost \in BOOLEAN
  BY <1>4 DEF Server
<1>6. ASSUME NEW j \in 1..Len(in), ReadUnits(j) PROVE IInv'
  <2> DEFINE i == chan[c].in["s"]
             more == srv.lost \/ \E k \in 1..j : i[k].t # "data"
  <2>1. j \in Nat /\ j \in 1..Len(i) /\ more \in BOOLEAN
    BY <1>2, <1>4, <1>5, <1>6
  <2>2. \A k \in 1..j : SubSeq(i, 1, j)[k] = i[k]
    BY <1>4, <2>1
  <2>3. PICK enough \in BOOLEAN : srv' =
         [srv EXCEPT !.pc = IF enough THEN "header" ELSE "data",
                     !.stored = @ + srv.size,
                     !.lost = @ \/ \E k \in 1..j : SubSeq(in, 1, j)[k].t # "data"]
    BY <1>6 DEF ReadUnits, Enough
  <2>4. (srv.lost \/ \E k \in 1..j : SubSeq(in, 1, j)[k].t # "data") = more
    BY <1>2, <2>2
  <2> HIDE DEF more
  <2>5. PICK s \in {"header", "data"} : s = IF enough THEN "header" ELSE "data"
    OBVIOUS
  <2>6. srv' = [srv EXCEPT !.pc = s, !.stored = srv.stored + srv.size, !.lost = more]
    BY <2>3, <2>4, <2>5
  <2>7. /\ srv' \in Server /\ srv'.pc = s /\ srv'.con = c /\ srv'.lost = more
        /\ srv'.pc # "dead" /\ srv'.pc \notin {"reply", "text"}
    BY <1>1, <1>4, <1>5, <2>1, <2>6 DEF Server
  <2>8. more = (srv.lost \/ \E k \in 1..j : i[k].t # "data")
    BY DEF more
  <2>9. Running(c) => Paired(cl[c].pc, s, SubSeq(i, j + 1, Len(i)), chan[c].in["c"], more)
    <3> SUFFICES ASSUME Running(c)
                 PROVE  Paired(cl[c].pc, s, SubSeq(i, j + 1, Len(i)), chan[c].in["c"], more)
      OBVIOUS
    <3>1. Paired(cl[c].pc, "data", i, chan[c].in["c"], srv.lost)
      BY <1>2, <1>3 DEF Facing
    <3>2. i \in Seq(Unit) /\ srv.lost \in BOOLEAN
      BY <1>4, <1>5
    <3> HIDE DEF i
    <3> QED
      BY ONLY <2>1, <2>8, <3>1, <3>2, s \in {"header", "data"}, DataRead
  <2>10. Take(j)
    BY <1>6 DEF ReadUnits
  <2> QED
    BY <1>1, <1>2, <2>1, <2>7, <2>9, <2>10, SrvTakes
<1>7. CASE ReadPart
  <2> DEFINE i == chan[c].in["s"]
  <2>1. PICK m \in 1..i[1].n - 1 : chan' = [chan EXCEPT ![c].in["s"][1].n = @ - m]
    <3>3. in # <<>>
      BY <1>7 DEF ReadPart
    <3>1. Head(in) = i[1]
      BY <1>2, <1>4, <3>3
    <3>2. PICK m \in 1..Head(in).n - 1 :
            chan' = [chan EXCEPT ![srv.con].in["s"][1].n = @ - m]
      BY <1>7 DEF ReadPart
    <3> QED
      BY <1>1, <3>1, <3>2
  <2>2. i # <<>> /\ i \in Seq(Unit)
    BY <1>2, <1>4, <1>7 DEF ReadPart
  <2> DEFINE w == Cut(i, m)
             h == [chan[c] EXCEPT !.in["s"] = w]
  <2>3. w \in Seq(Unit) /\ Len(w) = Len(i) /\ \A k \in 1..Len(i) : w[k].t = i[k].t
    BY <2>2, PartTaken
  <2>4. chan' = [chan EXCEPT ![c] = h]
    BY <2>1 DEF Cut
  <2> HIDE DEF w
  <2>5. chan[c] \in Connection(Unit) /\ "s" \in Sides /\ "c" \in Sides \ {"s"}
    BY ConnTypes
  <2>6. /\ h \in Connection(Unit) /\ h.end = chan[c].end
        /\ h.in["s"] = w /\ h.in["c"] = chan[c].in["c"]
    BY ONLY <2>3, <2>5, InConn
  <2> HIDE DEF h
  <2>7. /\ srv' \in Server /\ srv'.con = c /\ srv'.pc = "data" /\ srv'.lost = srv.lost
        /\ srv'.pc # "dead" /\ srv'.pc \notin {"reply", "text"}
    BY <1>1, <1>2, <1>4, <1>5, <1>7 DEF ReadPart, Server
  <2>8. Running(c) => Paired(cl[c].pc, "data", w, chan[c].in["c"], srv.lost)
    BY <1>2, <1>3, <2>2, <2>3, PartRead DEF Facing
  <2> QED
    BY <1>1, <1>2, <2>4, <2>6, <2>7, <2>8, OwnStep
<1>8. CASE AtEnd(ch, "s") /\ SGoto("header") /\ UNCHANGED chan
  <2>1. ~ Running(c)
    BY <1>2, <1>8, NotGone
  <2>2. srv' \in Server /\ srv'.con = c /\ srv'.pc # "dead"
    BY <1>1, <1>4, <1>8 DEF Server, SGoto
  <2> QED
    BY <1>1, <1>2, <1>8, <2>1, <2>2, SrvMoves
<1>9. CASE /\ Failed(ch, "s") /\ UNCHANGED chan
           /\ srv' = [srv EXCEPT !.pc = "header", !.stored = @ + srv.size]
  <2>1. ~ Running(c)
    BY <1>2, <1>9, NotGone
  <2>2. srv' \in Server /\ srv'.con = c /\ srv'.pc # "dead"
    BY <1>1, <1>4, <1>5, <1>9 DEF Server
  <2> QED
    BY <1>1, <1>2, <1>9, <2>1, <2>2, SrvMoves
<1> QED
  BY <1>6, <1>7, <1>8, <1>9

LEMMA FileUpStep ==
    ASSUME IInv, FileUp, UNCHANGED cl
    PROVE  IInv'
<1>1. PICK c \in Clients : srv.con = c
  BY DEF IInv, AtWork, FileUp, Ack, SAt
<1>2. ~ SAt("dead") /\ ch = chan[c] /\ in = chan[c].in["s"]
  BY <1>1 DEF FileUp, Ack, SAt, ch, in
<1>3. Running(c) => Facing(c)
  BY <1>1, <1>2, ServedFaces
<1>4. chan[c].in["s"] \in Seq(Unit) /\ chan[c].in["c"] \in Seq(Unit) /\ srv \in Server
  BY ConnTypes, Types
<1>5. Rest(chan[c].in["s"]) = SubSeq(chan[c].in["s"], 1 + 1, Len(chan[c].in["s"]))
  BY DEF Rest
<1>6. CASE SAt("FileUpReq") /\ in # <<>> /\ Take(1) /\ SGoto("size") /\ UNCHANGED queue
  <2>1. /\ srv' \in Server /\ srv'.pc = "size" /\ srv'.con = c /\ srv'.lost = srv.lost
        /\ srv'.pc # "dead" /\ srv'.pc \notin {"reply", "text"} /\ srv.pc = "FileUpReq"
    BY <1>1, <1>4, <1>6 DEF Server, SAt, SGoto
  <2>2. Running(c) => Paired(cl[c].pc, srv'.pc, Rest(chan[c].in["s"]), chan[c].in["c"],
                             srv'.lost)
    BY <1>2, <1>3, <1>4, <1>6, <2>1, NameRead DEF Facing
  <2> QED
    BY <1>1, <1>2, <1>5, <1>6, <2>1, <2>2, SrvTakes
<1>7. CASE SAt("size") /\ in # <<>> /\ Take(1) /\ UNCHANGED queue
           /\ srv' = [srv EXCEPT !.pc = "ack", !.size = Head(in).n]
  <2>1. Head(in) \in Unit /\ Head(in).n \in Nat
    <3>1. Head(in) \in Unit
      BY <1>2, <1>4, <1>7
    <3> QED
      BY <3>1 DEF Unit
  <2>2. /\ srv' \in Server /\ srv'.pc = "ack" /\ srv'.con = c /\ srv'.lost = srv.lost
        /\ srv'.pc # "dead" /\ srv'.pc \notin {"reply", "text"} /\ srv.pc = "size"
    BY <1>1, <1>4, <1>7, <2>1 DEF Server, SAt
  <2>3. Running(c) => Paired(cl[c].pc, srv'.pc, Rest(chan[c].in["s"]), chan[c].in["c"],
                             srv'.lost)
    BY <1>2, <1>3, <1>4, <1>7, <2>2, SizeRead DEF Facing
  <2> QED
    BY <1>1, <1>2, <1>5, <1>7, <2>2, <2>3, SrvTakes
<1>8. CASE SAt("ack") /\ UNCHANGED queue
           /\ chan' = [chan EXCEPT ![srv.con] = Sent(@, "s", <<Plain("FileAck")>>)]
           /\ srv' = [srv EXCEPT !.pc = "data", !.stored = 0]
  <2> DEFINE us == <<Plain("FileAck")>>
             h == Sent(chan[c], "s", us)
  <2>1. Plain("FileAck") \in Unit /\ Plain("FileAck").t = "FileAck" /\ us \in Seq(Unit)
    BY DEF Plain, Unit
  <2>2. chan' = [chan EXCEPT ![c] = h]
    BY <1>1, <1>8
  <2>3. Running(c) => Paired(cl[c].pc, "data", chan[c].in["s"], chan[c].in["c"] \o us,
                             srv.lost)
    BY <1>3, <1>4, <1>8, <2>1, AckSent DEF Facing, SAt
  <2> HIDE DEF us
  <2>4. chan[c] \in Connection(Unit)
    BY ConnTypes
  <2>5. /\ h \in Connection(Unit)
        /\ h.end["s"] = "open" <=> chan[c].end["s"] = "open"
        /\ h.end["c"] = "open" <=> chan[c].end["c"] = "open"
        /\ h.in["s"] = chan[c].in["s"]
        /\ chan[c].end["c"] = "open" => h.in["c"] = chan[c].in["c"] \o us
    <3>1. h = Sent(chan[c], "s", us)
      OBVIOUS
    <3> HIDE DEF h
    <3> QED
      BY <2>1, <2>4, <3>1, SentByServer
  <2> HIDE DEF h
  <2>6. /\ srv' \in Server /\ srv'.pc = "data" /\ srv'.con = c /\ srv'.lost = srv.lost
        /\ srv'.pc # "dead" /\ srv'.pc \notin {"reply", "text"}
    BY <1>1, <1>4, <1>8 DEF Server
  <2>7. Running(c) => Paired(cl[c].pc, srv'.pc, h.in["s"], h.in["c"], srv'.lost)
    BY <1>1, <1>2, <2>3, <2>5, <2>6, ServedFaces
  <2> QED
    BY <1>1, <1>2, <1>8, <2>2, <2>5, <2>6, <2>7, OwnStep
<1>9. CASE SAt("data") /\ UNCHANGED queue
           /\ \/ \E j \in 1..Len(in) : ReadUnits(j)
              \/ ReadPart
              \/ AtEnd(ch, "s") /\ SGoto("header") /\ UNCHANGED chan
              \/ /\ Failed(ch, "s")
                 /\ srv' = [srv EXCEPT !.pc = "header", !.stored = @ + srv.size]
                 /\ UNCHANGED chan
  BY <1>9, DataStep
<1> QED
  BY <1>6, <1>7, <1>8, <1>9, DieStep DEF FileUp, Ack

LEMMA QuitStep ==
    ASSUME IInv, Quit, UNCHANGED cl
    PROVE  IInv'
<1>1. PICK c \in Clients : srv.con = c
  BY DEF IInv, AtWork, Quit, SAt
<1>2. ~ SAt("dead") /\ srv.pc = "quit"
  BY DEF Quit, SAt
<1>3. Running(c) => Paired(cl[c].pc, "accept", chan[c].in["s"], chan[c].in["c"], srv.lost)
  BY <1>1, <1>2, ServedFaces, QuitDone DEF Facing
<1>4. /\ srv' \in Server /\ srv'.pc = "accept" /\ srv'.con = c /\ srv'.lost = srv.lost
      /\ srv'.pc # "dead" /\ srv'.pc \notin {"reply", "text"}
  BY <1>1, Types DEF Quit, SGoto, Server
<1> QED
  BY <1>1, <1>2, <1>3, <1>4, SrvMoves DEF Quit

LEMMA ServeStep ==
    ASSUME IInv, Serve
    PROVE  IInv'
BY AcceptStep, GreetStep, HeaderStep, EchoStep, FileUpStep, QuitStep DEF Serve

-----------------------------------------------------------------------------
(* A step of a client concerns no other.                                     *)
LEMMA ClientStep ==
    ASSUME IInv, NEW c \in Clients,
           NEW h \in Connection(Unit), chan' = [chan EXCEPT ![c] = h],
           NEW r \in Client, cl' = [cl EXCEPT ![c] = r],
           UNCHANGED <<srv, queue>>,
           h.end["s"] = "open" <=> chan[c].end["s"] = "open",
           OneClient(c)'
    PROVE  IInv'
<1>1. /\ chan' \in [Clients -> Connection(Unit)] /\ chan'[c] = h
      /\ cl' \in [Clients -> Client]
      /\ \A d \in Clients \ {c} : chan'[d] = chan[d] /\ cl'[d] = cl[d]
  BY Types
<1>2. TypeOK'
  BY <1>1, Types DEF TypeOK, Connection
<1>3. QueuedOnce' /\ AtWork'
  BY DEF IInv, QueuedOnce, AtWork
<1>4. Open'
  BY <1>1 DEF IInv, Open, SAt
<1>5. ASSUME NEW d \in Clients \ {c} PROVE OneClient(d)'
  BY <1>1, <1>5 DEF IInv, OneClient, Stage, Coming, Waiting, Served, Left, Queued,
                    SAt, Running
<1> QED
  BY <1>2, <1>3, <1>4, <1>5 DEF IInv

(* The client ends.                                                          *)
LEMMA ClientEnds ==
    ASSUME IInv, NEW c \in Clients, NEW pc \in {"exit", "dead"}, Close(c, pc),
           UNCHANGED <<srv, queue>>
    PROVE  IInv'
<1> DEFINE r == [cl[c] EXCEPT !.pc = pc]
<1>1. cl' = [cl EXCEPT ![c] = r] /\ r \in Client /\ r.pc = pc
  BY Types DEF Close, CGoto, Client
<1>2. PICK how \in Hows : chan' = [chan EXCEPT ![c] = Closed(@, "c", how)]
  BY DEF Close
<1> DEFINE h == Closed(chan[c], "c", how)
<1>3. chan[c] \in Connection(Unit) /\ "c" \in Sides /\ "s" \in Sides \ {"c"}
  BY ConnTypes
<1>4. h \in Connection(Unit) /\ h.end["s"] = chan[c].end["s"]
  BY <1>3, ClosedConn
<1>5. chan' = [chan EXCEPT ![c] = h]
  BY <1>2
<1>6. ~ Running(c)'
  BY <1>1, Types DEF Running
<1> HIDE DEF h, r
<1> QED
  BY <1>1, <1>4, <1>5, <1>6, ClientStep DEF OneClient

(* A client that is past its hello is served or has quit, as long as the     *)
(* server runs.                                                              *)
LEMMA Past ==
    ASSUME IInv, NEW c \in Clients, Running(c), ~ SAt("dead"),
           cl[c].pc \notin {"connect", "hello", "hi", "bye"}
    PROVE  Served(c)
BY DEF IInv, OneClient, Stage, Coming, Waiting, Left

(* It sends something.                                                       *)
LEMMA ClientSends ==
    ASSUME IInv, NEW c \in Clients, Running(c), NEW u \in Unit, NEW r \in Client,
           Asks(cl[c].pc, u.t, r.pc), CWrite(c, <<u>>, r), UNCHANGED <<srv, queue>>
    PROVE  IInv'
<1>1. CASE chan' = [chan EXCEPT ![c] = Wrote(@, "c", <<u>>)] /\ cl' = [cl EXCEPT ![c] = r]
  <2> DEFINE h == Wrote(chan[c], "c", <<u>>)
             i == chan[c].in["s"]
  <2>1. h = Sent(chan[c], "c", <<u>>) /\ chan' = [chan EXCEPT ![c] = h]
    BY <1>1 DEF Wrote
  <2>2. chan[c] \in Connection(Unit) /\ <<u>> \in Seq(Unit) /\ i \in Seq(Unit)
    BY ConnTypes
  <2> HIDE DEF h
  <2>4. /\ h \in Connection(Unit) /\ h.in["c"] = chan[c].in["c"]
        /\ h.end["s"] = "open" <=> chan[c].end["s"] = "open"
        /\ h.end["c"] = "open" <=> chan[c].end["c"] = "open"
        /\ chan[c].end["s"] = "open" => h.in["s"] = i \o <<u>>
    BY <2>1, <2>2, SentByClient
  <2>5. /\ chan'[c] = h /\ cl'[c] = r /\ srv' = srv /\ queue' = queue
    BY <1>1, <2>1, Types
  <2>6. chan[c].end["c"] = "open" /\ Due(cl[c].pc, chan[c].in["c"])
    BY DEF IInv, OneClient
  <2>7. Due(r.pc, chan[c].in["c"])
    BY <2>6, DueAsked
  <2>8. ASSUME ~ SAt("dead") PROVE Stage(c)'
    <3>1. h.in["s"] = i \o <<u>>
      BY <2>4, <2>8 DEF IInv, Open
    <3>2. cl[c].pc \notin {"connect", "bye"}
      BY DEF Asks
    <3>3. CASE Waiting(c)
      <4>1. cl[c].pc = "hello" /\ i = <<>> /\ u.t = "hello" /\ r.pc = "hi"
        BY <3>3 DEF Waiting, Asks
      <4>2. One(i \o <<u>>, "hello")
        BY <2>2, <4>1, First
      <4>3. Waiting(c)'
        BY <2>4, <2>5, <3>1, <3>3, <4>1, <4>2 DEF Waiting, Queued
      <4> QED
        BY <4>3 DEF Stage
    <3>4. CASE Served(c)
      <4>1. Paired(cl[c].pc, srv.pc, i, chan[c].in["c"], srv.lost)
        BY <3>4 DEF Served
      <4>2. Paired(r.pc, srv.pc, i \o <<u>>, chan[c].in["c"], srv.lost)
        BY <2>2, <4>1, ClientAsked
      <4>3. Served(c)'
        BY <2>4, <2>5, <3>1, <3>4, <4>2 DEF Served, Queued
      <4> QED
        BY <4>3 DEF Stage
    <3> QED
      BY <2>8, <3>2, <3>3, <3>4 DEF IInv, OneClient, Stage, Coming, Left
  <2>9. OneClient(c)'
    BY <2>4, <2>5, <2>6, <2>7, <2>8 DEF OneClient, SAt
  <2> QED
    BY <1>1, <2>1, <2>4, <2>9, ClientStep
<1>2. CASE Close(c, "dead")
  BY <1>2, ClientEnds
<1> QED
  BY <1>1, <1>2 DEF CWrite

(* It takes an answer, or finds that the server has ended.                   *)
LEMMA ClientTakes ==
    ASSUME IInv, NEW c \in Clients, Running(c), NEW r \in Client,
           Gets(cl[c].pc, r.pc), cl' = [cl EXCEPT ![c] = r], chan[c].in["c"] # <<>>,
           chan' = [chan EXCEPT ![c] = Taken(@, "c", 1)], UNCHANGED <<srv, queue>>
    PROVE  IInv'
<1> DEFINE h == Taken(chan[c], "c", 1)
           o == chan[c].in["c"]
<1>1. chan' = [chan EXCEPT ![c] = h]
  OBVIOUS
<1>2. /\ chan[c] \in Connection(Unit) /\ "c" \in Sides /\ "s" \in Sides \ {"c"}
      /\ o \in Seq(Unit) /\ 1 \in Nat
  BY ConnTypes
<1>3. /\ h \in Connection(Unit) /\ h.end = chan[c].end
      /\ h.in["c"] = SubSeq(o, 1 + 1, Len(o)) /\ h.in["s"] = chan[c].in["s"]
  BY ONLY <1>2, UnitsTaken
<1>4. h.in["c"] = Rest(o)
  BY <1>3 DEF Rest
<1> HIDE DEF h
<1>5. chan'[c] = h /\ cl'[c] = r /\ srv' = srv /\ queue' = queue
  BY <1>1, Types
<1>6. chan[c].end["c"] = "open" /\ Due(r.pc, Rest(o))
  <2>1. chan[c].end["c"] = "open" /\ Due(cl[c].pc, o)
    BY DEF IInv, OneClient
  <2> QED
    BY <1>2, <2>1, DueAnswered
<1>7. ASSUME ~ SAt("dead") PROVE Stage(c)'
  <2>1. Served(c)
    BY <1>7 DEF IInv, OneClient, Stage, Coming, Waiting, Left, Gets
  <2>2. Paired(cl[c].pc, srv.pc, chan[c].in["s"], o, srv.lost)
    BY <2>1 DEF Served
  <2>3. Paired(r.pc, srv.pc, chan[c].in["s"], Rest(o), srv.lost)
    BY <1>2, <2>2, ClientAnswered
  <2>4. Served(c)'
    BY <1>3, <1>4, <1>5, <2>1, <2>3 DEF Served, Queued
  <2> QED
    BY <2>4 DEF Stage
<1>8. OneClient(c)'
  BY <1>3, <1>4, <1>5, <1>6, <1>7 DEF OneClient, SAt
<1> QED
  BY <1>1, <1>3, <1>8, ClientStep

LEMMA ClientFinds ==
    ASSUME IInv, NEW c \in Clients, Running(c), NEW r \in Client,
           cl' = [cl EXCEPT ![c] = r], AtEnd(chan[c], "c") \/ Failed(chan[c], "c"),
           UNCHANGED <<srv, queue, chan>>
    PROVE  IInv'
<1>1. chan[c].in["c"] = <<>> /\ chan[c].end["s"] # "open"
  BY ConnTypes DEF AtEnd, Failed
<1>2. SAt("dead")
  BY <1>1 DEF IInv, Open
<1>3. chan[c].end["c"] = "open"
  BY DEF IInv, OneClient
<1> DEFINE h == chan[c]
<1>4. h \in Connection(Unit) /\ chan' = [chan EXCEPT ![c] = h]
  BY Types
<1>5. OneClient(c)'
  BY <1>1, <1>2, <1>3 DEF OneClient, Due, SAt
<1> QED
  BY <1>4, <1>5, ClientStep

LEMMA ClientReads ==
    ASSUME IInv, NEW c \in Clients, Running(c), NEW pc,
           [cl[c] EXCEPT !.pc = pc] \in Client, Gets(cl[c].pc, pc), CRead(c, pc),
           UNCHANGED <<srv, queue>>
    PROVE  IInv'
<1> DEFINE r == [cl[c] EXCEPT !.pc = pc]
<1>1. r \in Client /\ r.pc = pc /\ (CGoto(c, pc) => cl' = [cl EXCEPT ![c] = r])
  BY Types DEF CGoto, Client
<1> HIDE DEF r
<1>2. CASE /\ chan[c].in["c"] # <<>> /\ CGoto(c, pc)
           /\ chan' = [chan EXCEPT ![c] = Taken(@, "c", 1)]
  BY <1>1, <1>2, ClientTakes
<1>3. CASE AtEnd(chan[c], "c") /\ CGoto(c, pc) /\ UNCHANGED chan
  BY <1>1, <1>3, ClientFinds
<1>4. CASE Close(c, "dead")
  BY <1>4, ClientEnds
<1> QED
  BY <1>2, <1>3, <1>4 DEF CRead, out

(* The contents of its file are on their way, or nothing of an empty one.    *)
LEMMA ClientDelivers ==
    ASSUME IInv, NEW c \in Clients, CAt(c, "send"), NEW us,
           us = <<>> \/ \E u \in Unit : u.t = "data" /\ us = <<u>>,
           NEW r \in Client, r.pc = "prompt", CWrite(c, us, r), UNCHANGED <<srv, queue>>
    PROVE  IInv'
<1>0. Running(c) /\ cl[c].pc = "send"
  BY DEF CAt, Running
<1>1. CASE chan' = [chan EXCEPT ![c] = Wrote(@, "c", us)] /\ cl' = [cl EXCEPT ![c] = r]
  <2> DEFINE h == Wrote(chan[c], "c", us)
             i == chan[c].in["s"]
  <2>1. chan' = [chan EXCEPT ![c] = h]
    BY <1>1
  <2>2. /\ chan[c] \in Connection(Unit) /\ "s" \in Sides /\ "c" \in Sides
        /\ "s" = Peer("c") /\ i \in Seq(Unit)
    BY ConnTypes
  <2>3. /\ h \in Connection(Unit) /\ h.in["c"] = chan[c].in["c"]
        /\ h.end["s"] = "open" <=> chan[c].end["s"] = "open"
        /\ h.end["c"] = "open" <=> chan[c].end["c"] = "open"
        /\ chan[c].end["s"] = "open" => h.in["s"] = i \o us
    <3>1. CASE us = <<>>
      <4>1. h = chan[c] /\ i \o us = i
        BY <2>2, <3>1 DEF Wrote
      <4> QED
        BY <2>2, <4>1
    <3>2. CASE us # <<>>
      <4>1. us \in Seq(Unit)
        <5>1. PICK u \in Unit : us = <<u>>
          BY <3>2
        <5> QED
          BY ONLY <5>1, u \in Unit
      <4>2. h = Sent(chan[c], "c", us)
        BY <3>2 DEF Wrote
      <4> HIDE DEF h
      <4> QED
        BY <2>2, <4>1, <4>2, SentByClient
    <3> QED
      BY <3>1, <3>2
  <2> HIDE DEF h
  <2>4. chan'[c] = h /\ cl'[c] = r /\ srv' = srv /\ queue' = queue
    BY <1>1, <2>1, Types
  <2>5. chan[c].end["c"] = "open" /\ Due("prompt", chan[c].in["c"])
    BY <1>0 DEF IInv, OneClient, Due
  <2>6. ASSUME ~ SAt("dead") PROVE Stage(c)'
    <3>1. h.in["s"] = i \o us
      BY <2>3, <2>6 DEF IInv, Open
    <3>2. Served(c)
      BY <1>0, <2>6, Past
    <3>3. Paired("send", srv.pc, i, chan[c].in["c"], srv.lost)
      BY <1>0, <3>2 DEF Served
    <3>4. Paired("prompt", srv.pc, i \o us, chan[c].in["c"], srv.lost)
      BY <2>2, <3>3, ContentsSent
    <3>5. Served(c)'
      BY <2>3, <2>4, <3>1, <3>2, <3>4 DEF Served, Queued
    <3> QED
      BY <3>5 DEF Stage
  <2>7. OneClient(c)'
    BY <2>3, <2>4, <2>5, <2>6 DEF OneClient, SAt
  <2> QED
    BY <1>1, <2>1, <2>3, <2>7, ClientStep
<1>2. CASE Close(c, "dead")
  BY <1>2, ClientEnds
<1> QED
  BY <1>1, <1>2 DEF CWrite

(* A client comes, and finds the server or does not.                         *)
LEMMA ConnectStep ==
    ASSUME IInv, NEW c \in Clients, Connect(c), UNCHANGED srv
    PROVE  IInv'
<1>1. cl[c] \in Client /\ cl[c].pc = "connect" /\ chan[c] \in Connection(Unit)
  BY ConnTypes DEF Connect, CAt
<1>2. CASE SAt("dead") /\ CGoto(c, "dead") /\ UNCHANGED <<queue, chan>>
  <2> DEFINE r == [cl[c] EXCEPT !.pc = "dead"]
             h == chan[c]
  <2>1. cl' = [cl EXCEPT ![c] = r] /\ r \in Client /\ r.pc = "dead"
    BY <1>1, <1>2 DEF CGoto, Client
  <2>2. chan' = [chan EXCEPT ![c] = h]
    BY <1>2, Types
  <2>3. OneClient(c)'
    BY <2>1, Types DEF OneClient, Running
  <2> HIDE DEF r
  <2> QED
    BY <1>1, <1>2, <2>1, <2>2, <2>3, ClientStep
<1>3. CASE ~ SAt("dead") /\ CGoto(c, "hello") /\ queue' = Append(queue, c) /\ UNCHANGED chan
  <2> DEFINE n == Len(queue)
             r == [cl[c] EXCEPT !.pc = "hello"]
  <2>1. /\ n \in Nat /\ queue' \in Seq(Clients) /\ Len(queue') = n + 1
        /\ \A k \in 1..n : queue'[k] = queue[k]
        /\ queue'[n + 1] = c
    BY <1>3, Types
  <2>2. /\ cl' = [cl EXCEPT ![c] = r] /\ r \in Client /\ r.pc = "hello"
        /\ srv' = srv /\ chan' = chan
    BY <1>1, <1>3 DEF CGoto, Client
  <2> HIDE DEF r
  <2>3. /\ cl' \in [Clients -> Client] /\ cl'[c] = r
        /\ \A d \in Clients \ {c} : cl'[d] = cl[d]
    BY <2>2, Types
  <2>4. Coming(c) /\ OneClient(c) /\ Running(c)
    BY <1>1, <1>3 DEF IInv, OneClient, Stage, Coming, Waiting, Served, Left, Running,
                      Paired, Greeting, Echoing, Announcing, Sending, Missed, Asked
  <2>5. \A k \in 1..n : queue[k] # c
    BY <2>4 DEF Coming, Queued
  <2>6. \A k \in 1..Len(queue') : k \in 1..n \/ k = n + 1
    BY <2>1
  <2>7. QueuedOnce'
    BY <2>1, <2>5, <2>6 DEF IInv, QueuedOnce
  <2>8. \A d : Queued(d)' <=> Queued(d) \/ d = c
    <3>1. ASSUME NEW d, Queued(d)' PROVE Queued(d) \/ d = c
      <4>1. PICK k \in 1..Len(queue') : queue'[k] = d
        BY <3>1 DEF Queued
      <4> QED
        BY <2>1, <2>6, <4>1 DEF Queued
    <3>2. ASSUME NEW d, Queued(d) \/ d = c PROVE Queued(d)'
      <4>1. CASE d = c
        <5>1. n + 1 \in 1..Len(queue') /\ queue'[n + 1] = d
          BY <2>1, <4>1
        <5> QED
          BY <5>1 DEF Queued
      <4>2. CASE Queued(d)
        <5>1. PICK k \in 1..n : queue[k] = d
          BY <4>2 DEF Queued
        <5>2. k \in 1..Len(queue') /\ queue'[k] = d
          BY <2>1, <5>1
        <5> QED
          BY <5>2 DEF Queued
      <4> QED
        BY <3>2, <4>1, <4>2
    <3> QED
      BY <3>1, <3>2
  <2> HIDE DEF n
  <2>9. TypeOK' /\ Open' /\ AtWork'
    BY <2>1, <2>2, <2>3 DEF IInv, TypeOK, Open, AtWork, SAt
  <2>10. OneClient(c)'
    <3>1. chan[c].in["c"] = <<>>
      BY <1>1, <2>4 DEF OneClient, Due
    <3>2. Waiting(c)'
      BY <2>2, <2>3, <2>4, <2>8, <3>1 DEF Coming, Waiting
    <3> QED
      BY <2>2, <2>3, <2>4, <3>1, <3>2 DEF OneClient, Stage, Due
  <2>11. ASSUME NEW d \in Clients \ {c} PROVE OneClient(d)'
    <3>1. OneClient(d) /\ cl'[d] = cl[d] /\ (Queued(d)' <=> Queued(d))
      BY <2>3, <2>8 DEF IInv
    <3>2. Coming(d) => Coming(d)'
      BY <2>2, <3>1 DEF Coming
    <3>3. Waiting(d) => Waiting(d)'
      BY <2>2, <3>1 DEF Waiting
    <3>4. Served(d) => Served(d)'
      BY <2>2, <3>1 DEF Served
    <3>5. Left(d) => Left(d)'
      BY <2>2, <3>1 DEF Left
    <3> QED
      BY <2>2, <3>1, <3>2, <3>3, <3>4, <3>5 DEF OneClient, Stage, SAt, Running
  <2> QED
    BY <2>7, <2>9, <2>10, <2>11 DEF IInv
<1> QED
  BY <1>2, <1>3 DEF Connect

-----------------------------------------------------------------------------
(* The commands of a client, each as sending and reading.                    *)
LEMMA ClientRecord ==
    ASSUME NEW x \in Client
    PROVE  /\ \A pc \in {"connect", "hello", "hi", "prompt", "text", "rep", "echoed",
                         "name", "size", "ack", "send", "bye", "exit", "dead"} :
                [x EXCEPT !.pc = pc] \in Client /\ [x EXCEPT !.pc = pc].pc = pc
           /\ x.left > 0 =>
                [x EXCEPT !.pc = "text", !.left = @ - 1] \in Client
           /\ x.left > 0 => \A n \in Nat :
                [x EXCEPT !.pc = "name", !.file = n, !.left = @ - 1] \in Client
           /\ [x EXCEPT !.pc = "send", !.acked = TRUE] \in Client
           /\ x.file \in Nat
<1>1. x.left \in 0..MaxCmds /\ MaxCmds \in Nat /\ x.file \in Nat
  BY UploadAssumption DEF Client
<1>2. x.left > 0 => x.left - 1 \in 0..MaxCmds
  BY <1>1
<1>3. \A pc \in {"connect", "hello", "hi", "prompt", "text", "rep", "echoed",
                 "name", "size", "ack", "send", "bye", "exit", "dead"} :
        [x EXCEPT !.pc = pc] \in Client /\ [x EXCEPT !.pc = pc].pc = pc
  BY DEF Client
<1>4. x.left > 0 => [x EXCEPT !.pc = "text", !.left = @ - 1] \in Client
  BY <1>2 DEF Client
<1>5. x.left > 0 => \A n \in Nat :
        [x EXCEPT !.pc = "name", !.file = n, !.left = @ - 1] \in Client
  BY <1>2 DEF Client
<1>6. [x EXCEPT !.pc = "send", !.acked = TRUE] \in Client
  BY DEF Client
<1> QED
  BY <1>1, <1>3, <1>4, <1>5, <1>6

LEMMA UnitsAre ==
    /\ \A t \in {"hello", "EchoReq", "text", "FileUpReq", "name", "quit"} :
         Plain(t) \in Unit /\ Plain(t).t = t
    /\ \A n \in Nat : [t |-> "size", n |-> n] \in Unit /\ [t |-> "data", n |-> n] \in Unit
BY DEF Plain, Unit, Requests

LEMMA HelloStep ==
    ASSUME IInv, NEW c \in Clients, Hello(c), UNCHANGED <<srv, queue>>
    PROVE  IInv'
<1>1. cl[c] \in Client
  BY ConnTypes
<1>2. CASE CAt(c, "hello") /\ CWrite(c, <<Plain("hello")>>, [cl[c] EXCEPT !.pc = "hi"])
  <2> DEFINE u == Plain("hello")
             r == [cl[c] EXCEPT !.pc = "hi"]
  <2>1. u \in Unit /\ r \in Client /\ Asks(cl[c].pc, u.t, r.pc) /\ Running(c)
    BY <1>1, <1>2, ClientRecord, UnitsAre DEF Asks, CAt, Running
  <2>2. CWrite(c, <<u>>, r)
    BY <1>2
  <2> HIDE DEF u, r
  <2> QED
    BY <2>1, <2>2, ClientSends
<1>3. CASE CAt(c, "hi") /\ CRead(c, "prompt")
  <2>1. [cl[c] EXCEPT !.pc = "prompt"] \in Client /\ Gets(cl[c].pc, "prompt") /\ Running(c)
    BY <1>1, <1>3, ClientRecord DEF Gets, CAt, Running
  <2> QED
    BY <1>3, <2>1, ClientReads
<1> QED
  BY <1>2, <1>3 DEF Hello

LEMMA LineStep ==
    ASSUME IInv, NEW c \in Clients, Line(c), UNCHANGED <<srv, queue>>
    PROVE  IInv'
<1>1. cl[c] \in Client
  BY ConnTypes
<1>2. CASE /\ CAt(c, "prompt") /\ cl[c].left > 0
           /\ CWrite(c, <<Plain("EchoReq")>>, [cl[c] EXCEPT !.pc = "text", !.left = @ - 1])
  <2> DEFINE u == Plain("EchoReq")
             r == [cl[c] EXCEPT !.pc = "text", !.left = @ - 1]
  <2>1. u \in Unit /\ u.t = "EchoReq" /\ r \in Client /\ Running(c)
    BY <1>1, <1>2, ClientRecord, UnitsAre DEF CAt, Running
  <2>2. r.pc = "text"
    BY <1>1 DEF Client
  <2>3. Asks(cl[c].pc, u.t, r.pc)
    BY <1>2, <2>1, <2>2 DEF Asks, CAt
  <2>4. CWrite(c, <<u>>, r)
    BY <1>2
  <2> HIDE DEF u, r
  <2> QED
    BY <2>1, <2>3, <2>4, ClientSends
<1>3. CASE CAt(c, "text") /\ CWrite(c, <<Plain("text")>>, [cl[c] EXCEPT !.pc = "rep"])
  <2> DEFINE u == Plain("text")
             r == [cl[c] EXCEPT !.pc = "rep"]
  <2>1. u \in Unit /\ r \in Client /\ Asks(cl[c].pc, u.t, r.pc) /\ Running(c)
    BY <1>1, <1>3, ClientRecord, UnitsAre DEF Asks, CAt, Running
  <2>2. CWrite(c, <<u>>, r)
    BY <1>3
  <2> HIDE DEF u, r
  <2> QED
    BY <2>1, <2>2, ClientSends
<1>4. CASE CAt(c, "rep") /\ CRead(c, "echoed")
  <2>1. [cl[c] EXCEPT !.pc = "echoed"] \in Client /\ Gets(cl[c].pc, "echoed") /\ Running(c)
    BY <1>1, <1>4, ClientRecord DEF Gets, CAt, Running
  <2> QED
    BY <1>4, <2>1, ClientReads
<1>5. CASE CAt(c, "echoed") /\ CRead(c, "prompt")
  <2>1. [cl[c] EXCEPT !.pc = "prompt"] \in Client /\ Gets(cl[c].pc, "prompt") /\ Running(c)
    BY <1>1, <1>5, ClientRecord DEF Gets, CAt, Running
  <2> QED
    BY <1>5, <2>1, ClientReads
<1> QED
  BY <1>2, <1>3, <1>4, <1>5 DEF Line

LEMMA UploadStep ==
    ASSUME IInv, NEW c \in Clients, Upload(c), UNCHANGED <<srv, queue>>
    PROVE  IInv'
<1>1. cl[c] \in Client
  BY ConnTypes
<1>2. ASSUME NEW n \in Sizes, CAt(c, "prompt"), cl[c].left > 0,
             CWrite(c, <<Plain("FileUpReq")>>,
                    [cl[c] EXCEPT !.pc = "name", !.file = n, !.left = @ - 1])
      PROVE  IInv'
  <2> DEFINE u == Plain("FileUpReq")
             r == [cl[c] EXCEPT !.pc = "name", !.file = n, !.left = @ - 1]
  <2>1. n \in Nat
    BY UploadAssumption
  <2>2. u \in Unit /\ u.t = "FileUpReq" /\ Running(c)
    BY <1>2, UnitsAre DEF CAt, Running
  <2>3. r \in Client
    BY <1>1, <1>2, <2>1, ClientRecord
  <2>4. r.pc = "name"
    BY <1>1 DEF Client
  <2>5. Asks(cl[c].pc, u.t, r.pc)
    BY <1>2, <2>2, <2>4 DEF Asks, CAt
  <2>6. CWrite(c, <<u>>, r)
    BY <1>2
  <2> HIDE DEF u, r
  <2> QED
    BY <2>2, <2>3, <2>5, <2>6, ClientSends
<1>3. CASE CAt(c, "name") /\ CWrite(c, <<Plain("name")>>, [cl[c] EXCEPT !.pc = "size"])
  <2> DEFINE u == Plain("name")
             r == [cl[c] EXCEPT !.pc = "size"]
  <2>1. u \in Unit /\ r \in Client /\ Asks(cl[c].pc, u.t, r.pc) /\ Running(c)
    BY <1>1, <1>3, ClientRecord, UnitsAre DEF Asks, CAt, Running
  <2>2. CWrite(c, <<u>>, r)
    BY <1>3
  <2> HIDE DEF u, r
  <2> QED
    BY <2>1, <2>2, ClientSends
<1>4. CASE CAt(c, "size") /\ CWrite(c, <<[t |-> "size", n |-> cl[c].file]>>,
                                    [cl[c] EXCEPT !.pc = "ack"])
  <2> DEFINE u == [t |-> "size", n |-> cl[c].file]
             r == [cl[c] EXCEPT !.pc = "ack"]
  <2>1. u \in Unit /\ u.t = "size"
    BY <1>1, ClientRecord, UnitsAre
  <2>2. r \in Client /\ r.pc = "ack" /\ Running(c)
    BY <1>1, <1>4, ClientRecord DEF CAt, Running
  <2>3. Asks(cl[c].pc, u.t, r.pc)
    BY <1>4, <2>1, <2>2 DEF Asks, CAt
  <2>4. CWrite(c, <<u>>, r)
    BY <1>4
  <2> HIDE DEF u, r
  <2> QED
    BY <2>1, <2>2, <2>3, <2>4, ClientSends
<1>5. CASE /\ CAt(c, "ack") /\ out(c) # <<>>
           /\ chan' = [chan EXCEPT ![c] = Taken(@, "c", 1)]
           /\ cl' = [cl EXCEPT ![c].pc = "send", ![c].acked = TRUE]
  <2> DEFINE r == [cl[c] EXCEPT !.pc = "send", !.acked = TRUE]
  <2>1. r \in Client
    BY <1>1, ClientRecord
  <2>2. r.pc = "send"
    BY <1>1 DEF Client
  <2>3. cl' = [cl EXCEPT ![c] = r]
    BY <1>5, Types DEF Client
  <2>4. Gets(cl[c].pc, r.pc) /\ Running(c) /\ chan[c].in["c"] # <<>>
    BY <1>5, <2>2 DEF Gets, CAt, Running, out
  <2> HIDE DEF r
  <2> QED
    BY <1>5, <2>1, <2>3, <2>4, ClientTakes
<1>6. CASE /\ CAt(c, "ack") /\ (AtEnd(chan[c], "c") \/ Failed(chan[c], "c"))
           /\ CGoto(c, IF cl[c].acked THEN "send" ELSE "prompt")
           /\ UNCHANGED chan
  <2> DEFINE pc == IF cl[c].acked THEN "send" ELSE "prompt"
             r == [cl[c] EXCEPT !.pc = pc]
  <2>1. r \in Client
    BY <1>1, ClientRecord
  <2>2. cl' = [cl EXCEPT ![c] = r]
    BY <1>6 DEF CGoto
  <2>3. Running(c)
    BY <1>6 DEF CAt, Running
  <2> HIDE DEF r
  <2> QED
    BY <1>6, <2>1, <2>2, <2>3, ClientFinds
<1>7. CASE /\ CAt(c, "send")
           /\ CWrite(c, IF cl[c].file = 0 THEN <<>>
                        ELSE <<[t |-> "data", n |-> cl[c].file]>>,
                     [cl[c] EXCEPT !.pc = "prompt"])
  <2> DEFINE us == IF cl[c].file = 0 THEN <<>> ELSE <<[t |-> "data", n |-> cl[c].file]>>
             r == [cl[c] EXCEPT !.pc = "prompt"]
  <2>1. r \in Client /\ r.pc = "prompt"
    BY <1>1, ClientRecord
  <2>2. us = <<>> \/ \E u \in Unit : u.t = "data" /\ us = <<u>>
    <3> DEFINE u == [t |-> "data", n |-> cl[c].file]
    <3>1. u \in Unit /\ u.t = "data"
      BY <1>1, ClientRecord, UnitsAre
    <3>2. us = <<>> \/ us = <<u>>
      OBVIOUS
    <3> HIDE DEF u, us
    <3> QED
      BY <3>1, <3>2
  <2>3. CWrite(c, us, r) /\ CAt(c, "send")
    BY <1>7
  <2> HIDE DEF us, r
  <2> QED
    BY <2>1, <2>2, <2>3, ClientDelivers
<1> QED
  BY <1>2, <1>3, <1>4, <1>5, <1>6, <1>7 DEF Upload

LEMMA LeaveStep ==
    ASSUME IInv, NEW c \in Clients, Leave(c), UNCHANGED <<srv, queue>>
    PROVE  IInv'
<1>1. cl[c] \in Client
  BY ConnTypes
<1>2. CASE CAt(c, "prompt") /\ CWrite(c, <<Plain("quit")>>, [cl[c] EXCEPT !.pc = "bye"])
  <2> DEFINE u == Plain("quit")
             r == [cl[c] EXCEPT !.pc = "bye"]
  <2>1. u \in Unit /\ r \in Client /\ Asks(cl[c].pc, u.t, r.pc) /\ Running(c)
    BY <1>1, <1>2, ClientRecord, UnitsAre DEF Asks, CAt, Running
  <2>2. CWrite(c, <<u>>, r)
    BY <1>2
  <2> HIDE DEF u, r
  <2> QED
    BY <2>1, <2>2, ClientSends
<1> QED
  BY <1>2, ClientEnds DEF Leave

LEMMA UseStep ==
    ASSUME IInv, NEW c \in Clients, Use(c)
    PROVE  IInv'
BY ConnectStep, HelloStep, LineStep, UploadStep, LeaveStep DEF Use

LEMMA CrashStep ==
    ASSUME IInv, NEW c \in Clients, Crash(c)
    PROVE  IInv'
BY ClientEnds DEF Crash

LEMMA Stuttering ==
    ASSUME IInv, UNCHANGED vars
    PROVE  IInv'
BY DEF vars, IInv, TypeOK, QueuedOnce, Open, AtWork, OneClient, Stage, Coming, Waiting,
       Served, Left, Queued, SAt, Running

LEMMA InitInv == Init => IInv
<1> SUFFICES ASSUME Init PROVE IInv
  OBVIOUS
<1>1. srv \in Server /\ srv.pc = "accept" /\ srv.con = NoClient
  BY DEF Init, Server
<1>2. queue \in Seq(Clients) /\ Len(queue) = 0
  BY DEF Init
<1>3. /\ chan \in [Clients -> Connection(Unit)]
      /\ \A c \in Clients : /\ chan[c].in["s"] = <<>> /\ chan[c].in["c"] = <<>>
                            /\ chan[c].end["s"] = "open" /\ chan[c].end["c"] = "open"
  BY DEF Init, Connection, Sides, Ends
<1>4. /\ cl \in [Clients -> Client]
      /\ \A c \in Clients : cl[c].pc = "connect"
  BY UploadAssumption DEF Init, Client
<1>5. TypeOK
  BY <1>1, <1>2, <1>3, <1>4 DEF TypeOK, Connection
<1>6. QueuedOnce /\ Open /\ AtWork
  BY <1>1, <1>2, <1>3 DEF QueuedOnce, Open, AtWork
<1>7. ASSUME NEW c \in Clients PROVE OneClient(c)
  BY <1>1, <1>2, <1>3, <1>4, UploadAssumption DEF OneClient, Due, Stage, Coming, Queued
<1> QED
  BY <1>5, <1>6, <1>7 DEF IInv

LEMMA StepInv == IInv /\ [Next]_vars => IInv'
BY ServeStep, UseStep, CrashStep, Stuttering DEF Next

LEMMA Invariance == Spec => []IInv
<1>1. Init => IInv
  BY InitInv
<1>2. IInv /\ [Next]_vars => IInv'
  BY StepInv
<1> QED
  BY <1>1, <1>2, PTL DEF Spec

-----------------------------------------------------------------------------
(* Every variable stays in its type, for any clients, commands and lengths.  *)
THEOREM TypeCorrect == Spec => []TypeOK
<1>1. IInv => TypeOK
  BY DEF IInv
<1> QED
  BY <1>1, Invariance, PTL

(* Requests may get lost, but no client takes an answer for another one.     *)
THEOREM AnswersAreOwn == Spec => []AnswersMatch
<1>1. IInv => AnswersMatch
  <2> SUFFICES ASSUME IInv, NEW c \in Clients, Running(c)
               PROVE  IF cl[c].pc \in DOMAIN Answer
                      THEN out(c) # <<>> => Head(out(c)).t = Answer[cl[c].pc]
                      ELSE out(c) = <<>>
    BY DEF AnswersMatch
  <2> DEFINE o == chan[c].in["c"]
             p == cl[c].pc
  <2>1. o \in Seq(Unit) /\ Due(p, o)
    BY ConnTypes DEF IInv, OneClient
  <2>2. DOMAIN Answer = {"hi", "rep", "echoed", "ack"}
    BY DEF Answer
  <2>3. /\ Answer["hi"] = "hi" /\ Answer["rep"] = "EchoReq"
        /\ Answer["echoed"] = "text" /\ Answer["ack"] = "FileAck"
    BY DEF Answer
  <2>4. \A a, b : One(o, a) \/ Two(o, a, b) => o # <<>> /\ Head(o).t = a
    BY <2>1 DEF One, Two
  <2> HIDE DEF o, p
  <2>5. IF p \in DOMAIN Answer THEN o # <<>> => Head(o).t = Answer[p] ELSE o = <<>>
    BY <2>1, <2>2, <2>3, <2>4 DEF Due
  <2> QED
    BY <2>5 DEF o, p, out
<1> QED
  BY <1>1, Invariance, PTL

(* Client and server come to wait for each other only where the read of a    *)
(* file's contents has taken a request with it.                              *)
THEOREM LostOrLive == Spec => []WaitsExplained
<1>1. IInv => WaitsExplained
  <2> SUFFICES ASSUME IInv, NEW c \in Clients,
                      cl[c].pc \in DOMAIN Answer, srv.con = c, ~ SAt("dead"),
                      chan[c].in = [s \in Sides |-> <<>>],
                      srv.pc \in {"header", "EchoReq", "FileUpReq", "size", "data"}
               PROVE  srv.lost
    BY DEF WaitsExplained
  <2>1. cl[c].pc \in {"hi", "rep", "echoed", "ack"}
    BY DEF Answer
  <2>2. Running(c)
    BY <2>1 DEF Running
  <2>3. Paired(cl[c].pc, srv.pc, <<>>, <<>>, srv.lost)
    <3>1. chan[c].in["s"] = <<>> /\ chan[c].in["c"] = <<>>
      BY DEF Sides
    <3> QED
      BY <2>2, <3>1, ServedFaces DEF Facing
  <2>4. \A a, b, d : /\ ~ One(<<>>, a) /\ ~ Two(<<>>, a, b) /\ ~ Three(<<>>, a, b, d)
    BY DEF One, Two, Three
  <2> QED
    BY <2>1, <2>3, <2>4 DEF Paired, Greeting, Echoing, Announcing, Sending, Asked
<1> QED
  BY <1>1, Invariance, PTL

-----------------------------------------------------------------------------
(* What the server knows of the length of a file.  Until it has read any of  *)
(* the contents nothing is stored, and they are behind what it has read, or  *)
(* the client still has them;                                                *)
Complete(p, f, z, w, i) ==
    /\ w = 0
    /\ \/ z = 0
       \/ i # <<>> /\ i[1] = [t |-> "data", n |-> z]
       \/ p \in {"ack", "send"} /\ i = <<>> /\ z = f

(* once they came in pieces, no read can return all of them any more.        *)
Short(p, z, i) ==
    /\ z # 0 /\ p # "send"
    /\ i = <<>> => p # "ack"
    /\ i # <<>> /\ i[1].t = "data" => i[1].n < z

(* A client at point p that uploads f bytes, and the server at point s with  *)
(* the size z, w bytes stored and the request m.                             *)
Exact(p, f, s, z, w, m, i) ==
    /\ p = "ack" /\ i # <<>> => i[Len(i)].n = f
    /\ s = "ack" => z = f
    /\ s = "data" => Complete(p, f, z, w, i) \/ Short(p, z, i)
    /\ s = "header" /\ m = "FileUpReq" => w = z

SizedOne(c) ==
    srv.con = c /\ Running(c) /\ ~ SAt("dead") /\ ~ srv.lost
        => Exact(cl[c].pc, cl[c].file, srv.pc, srv.size, srv.stored, srv.msgType,
                 chan[c].in["s"])

(* Away from an upload the request is another one.                           *)
OtherRequest ==
    srv.pc \in {"accept", "hello", "hi", "quit", "EchoReq", "reply", "text"}
        => srv.msgType # "FileUpReq"

(* A client that has left in order has its quit before the server, or behind *)
(* contents, unless the server has read it.                                  *)
QuitLeft(s, i) ==
    \/ s \in {"header", "data"} /\ One(i, "quit")
    \/ s = "data" /\ i # <<>> /\ i[1].t = "data" /\ One(Rest(i), "quit")
    \/ s \in {"quit", "accept"}

GoneOne(c) == cl[c].pc = "exit" /\ ~ SAt("dead") =>
    /\ ~ Queued(c)
    /\ srv.con = c /\ ~ srv.lost =>
         chan[c].end["c"] = "fin" /\ QuitLeft(srv.pc, chan[c].in["s"])

SizeInv == OtherRequest /\ \A c \in Clients : SizedOne(c) /\ GoneOne(c)

-----------------------------------------------------------------------------
(* Ends of streams.  What is taken from the front leaves the last unit,      *)
LEMMA LastKept ==
    ASSUME NEW i \in Seq(Unit), NEW j \in 1..Len(i), SubSeq(i, j + 1, Len(i)) # <<>>
    PROVE  /\ i # <<>>
           /\ SubSeq(i, j + 1, Len(i))[Len(SubSeq(i, j + 1, Len(i)))] = i[Len(i)]
<1> DEFINE w == SubSeq(i, j + 1, Len(i))
<1>1. j \in Nat /\ Len(i) \in Nat /\ j >= 1 /\ j <= Len(i) /\ i # <<>>
  OBVIOUS
<1>2. w \in Seq(Unit) /\ Len(w) = Len(i) - j
  <2>1. \A k \in (j + 1)..Len(i) : i[k] \in Unit
    BY <1>1
  <2> QED
    BY <1>1, <2>1
<1>3. \A k \in 1..Len(w) : w[k] = i[j + k]
  BY <1>1, <1>2
<1>4. Len(w) # 0
  BY <1>2
<1>5. Len(w) \in 1..Len(w) /\ j + Len(w) = Len(i)
  BY <1>1, <1>2, <1>4
<1>6. w[Len(w)] = i[Len(i)]
  BY <1>3, <1>5
<1> QED
  BY <1>1, <1>6

(* and what is added becomes the last, and the first of an empty one.        *)
LEMMA Ends1 ==
    ASSUME NEW i \in Seq(Unit), NEW u \in Unit
    PROVE  /\ i \o <<u>> # <<>>
           /\ (i \o <<u>>)[Len(i \o <<u>>)] = u
           /\ i = <<>> => (i \o <<u>>)[1] = u
           /\ i # <<>> => (i \o <<u>>)[1] = i[1]
<1> DEFINE w == i \o <<u>>
<1>1. /\ Len(w) = Len(i) + 1 /\ Len(i) \in Nat /\ w \in Seq(Unit)
      /\ w[Len(i) + 1] = u
      /\ \A k \in 1..Len(i) : w[k] = i[k]
  OBVIOUS
<1>2. w # <<>>
  BY <1>1
<1>3. i = <<>> => Len(i) + 1 = 1
  OBVIOUS
<1>4. i # <<>> => 1 \in 1..Len(i)
  OBVIOUS
<1> QED
  BY <1>1, <1>2, <1>3, <1>4

(* The points of client and server, as long as nothing was lost.             *)
LEMMA Points ==
    ASSUME NEW p, NEW s, NEW i \in Seq(Unit), NEW o, NEW lost, ~ lost,
           Paired(p, s, i, o, lost)
    PROVE  /\ p = "ack" => s \in {"header", "FileUpReq", "size", "ack", "data"}
           /\ p = "send" => s = "data" /\ i = <<>>
           /\ s = "ack" => p = "ack" /\ i = <<>>
           /\ s = "size" /\ i # <<>> => p = "ack" /\ Len(i) = 1
           /\ s = "data" =>
                \/ p \in {"ack", "send"} /\ i = <<>>
                \/ o = <<>> /\ Asked(p, i)
                \/ o = <<>> /\ i # <<>> /\ i[1].t = "data" /\ Asked(p, Rest(i))
           /\ p = "ack" /\ o # <<>> => s = "data" /\ i = <<>>
BY DEF Paired, Greeting, Echoing, Announcing, Sending, Asked, One

(* A client past its hello is the one that is served.                        *)
LEMMA ExactPaired ==
    ASSUME IInv, \A c \in Clients : SizedOne(c), NEW c \in Clients, srv.con = c,
           Running(c), ~ SAt("dead"), ~ srv.lost
    PROVE  /\ Paired(cl[c].pc, srv.pc, chan[c].in["s"], chan[c].in["c"], srv.lost)
           /\ Exact(cl[c].pc, cl[c].file, srv.pc, srv.size, srv.stored, srv.msgType,
                    chan[c].in["s"])
           /\ chan[c].end["c"] = "open" /\ chan[c].end["s"] = "open"
<1>1. Facing(c) /\ chan[c].end["c"] = "open" /\ chan[c].end["s"] = "open"
  BY ServedFaces
<1> QED
  BY <1>1 DEF Facing, SizedOne

(* A read of whole units of the contents, and of nothing else.               *)
LEMMA DataExact ==
    ASSUME NEW p, NEW f, NEW z \in Nat, NEW w \in Nat, NEW m, NEW i \in Seq(Unit), NEW o,
           Paired(p, "data", i, o, FALSE), Exact(p, f, "data", z, w, m, i),
           NEW j \in 1..Len(i), \A k \in 1..j : i[k].t = "data",
           NEW enough \in IF z = 0 THEN {TRUE}
                          ELSE IF SubSeq(i, 1, j) = <<[t |-> "data", n |-> z]>> THEN {TRUE}
                          ELSE {FALSE}
    PROVE  Exact(p, f, IF enough THEN "header" ELSE "data", z, w + z, m,
                 SubSeq(i, j + 1, Len(i)))
<1>1. /\ j \in Nat /\ j >= 1 /\ j <= Len(i) /\ Len(i) \in Nat /\ i # <<>>
      /\ i[1].t = "data" /\ i[1] \in Unit /\ 1 \in 1..j
  OBVIOUS
<1>2. Asked(p, Rest(i))
  <2>1. ~ Asked(p, i)
    BY <1>1, AskedUnits
  <2> QED
    BY <1>1, <2>1, Points
<1>3. /\ Rest(i) \in Seq(Unit) /\ Len(Rest(i)) = Len(i) - 1
      /\ \A k \in 1..Len(Rest(i)) : k + 1 \in 1..Len(i) /\ Rest(i)[k] = i[k + 1]
  BY <1>1, RestOf
<1>4. j = 1
  <2> SUFFICES ASSUME j # 1 PROVE FALSE
    OBVIOUS
  <2>1. 2 \in 1..j /\ 1 \in 1..Len(Rest(i)) /\ Rest(i) # <<>>
    BY <1>1, <1>3
  <2>2. Rest(i)[1].t = "data"
    BY <1>3, <2>1
  <2> QED
    BY <1>2, <1>3, <2>1, <2>2, AskedUnits
<1>5. SubSeq(i, j + 1, Len(i)) = Rest(i)
  BY <1>4 DEF Rest
<1>6. SubSeq(i, 1, j) = <<i[1]>>
  <2> DEFINE us == SubSeq(i, 1, 1)
  <2>1. us \in Seq(Unit) /\ Len(us) = 1 /\ us[1] = i[1]
    <3>1. \A k \in 1..1 : i[k] \in Unit
      BY <1>1
    <3> QED
      BY <1>1, <3>1
  <2> HIDE DEF us
  <2>2. us = <<us[1]>>
    BY <2>1
  <2> QED
    BY <1>4, <2>1, <2>2 DEF us
<1>7. p = "ack" /\ Rest(i) # <<>> => Rest(i)[Len(Rest(i))].n = f
  BY <1>1, <1>5, LastKept DEF Exact
<1>8. CASE Complete(p, f, z, w, i)
  <2>3. w + z = z
    BY <1>8 DEF Complete
  <2>4. z # 0 => <<i[1]>> = <<[t |-> "data", n |-> z]>>
    <3>1. z # 0 => i[1] = [t |-> "data", n |-> z]
      BY <1>1, <1>8 DEF Complete
    <3> QED
      BY <3>1
  <2>1. enough = TRUE /\ w + z = z
    BY <1>6, <2>3, <2>4
  <2> QED
    BY <1>5, <1>7, <2>1 DEF Exact
<1>9. CASE Short(p, z, i)
  <2>1. z # 0 /\ i[1].n < z /\ p # "send"
    BY <1>1, <1>9 DEF Short
  <2>2. <<i[1]>> # <<[t |-> "data", n |-> z]>>
    <3> SUFFICES ASSUME <<i[1]>> = <<[t |-> "data", n |-> z]>> PROVE FALSE
      OBVIOUS
    <3>1. i[1] = [t |-> "data", n |-> z]
      OBVIOUS
    <3>2. i[1].n = z
      BY <3>1
    <3> QED
      BY <2>1, <3>2
  <2>3. enough = FALSE
    BY <1>6, <2>1, <2>2
  <2>4. Short(p, z, Rest(i))
    <3>1. Rest(i) = <<>> => p # "ack"
      BY <1>2 DEF Asked, Three
    <3>2. Rest(i) # <<>> => Rest(i)[1].t # "data"
      BY <1>2, <1>3, AskedUnits
    <3> QED
      BY <2>1, <3>1, <3>2 DEF Short
  <2> QED
    BY <1>5, <1>7, <2>3, <2>4 DEF Exact
<1> QED
  BY <1>8, <1>9 DEF Exact

(* A read of a part of the contents.                                         *)
LEMMA PartExact ==
    ASSUME NEW p, NEW f, NEW z \in Nat, NEW w \in Nat, NEW m, NEW i \in Seq(Unit), NEW o,
           Paired(p, "data", i, o, FALSE), Exact(p, f, "data", z, w, m, i),
           i # <<>>, i[1].t = "data", NEW d \in 1..i[1].n - 1
    PROVE  Exact(p, f, "data", z, w + z, m, Cut(i, d))
<1> DEFINE u == [i[1] EXCEPT !.n = @ - d]
<1>1. /\ i[1] \in Unit /\ 1 \in 1..Len(i) /\ Len(i) \in Nat /\ Len(i) \in 1..Len(i)
  OBVIOUS
<1>2. /\ i[1].n \in Nat /\ d \in Nat /\ u.n = i[1].n - d /\ u.t = "data"
      /\ u.n < i[1].n /\ i[1].n >= 2
  <2>1. i[1].n \in Nat
    BY <1>1 DEF Unit
  <2>2. u.n = i[1].n - d /\ u.t = "data"
    BY <1>1 DEF Unit
  <2> QED
    BY <2>1, <2>2
<1>3. Cut(i, d) = [i EXCEPT ![1] = u]
  BY DEF Cut
<1> HIDE DEF u
<1>4. /\ Len(Cut(i, d)) = Len(i) /\ Cut(i, d)[1] = u /\ Cut(i, d) # <<>>
      /\ \A k \in 1..Len(i) : k # 1 => Cut(i, d)[k] = i[k]
  <2>1. /\ Len(Cut(i, d)) = Len(i) /\ Cut(i, d)[1] = u
        /\ \A k \in 1..Len(i) : k # 1 => Cut(i, d)[k] = i[k]
    BY <1>1, <1>3
  <2> QED
    BY <1>1, <2>1
<1>5. p = "ack" => Cut(i, d)[Len(Cut(i, d))].n = f
  <2> SUFFICES ASSUME p = "ack" PROVE Cut(i, d)[Len(Cut(i, d))].n = f
    OBVIOUS
  <2>1. ~ Asked(p, i)
    BY AskedUnits
  <2>2. Asked(p, Rest(i))
    BY <2>1, Points
  <2>3. Len(Rest(i)) = Len(i) - 1 /\ Len(Rest(i)) = 3
    BY <2>2, RestOf DEF Asked, Three
  <2>4. Len(i) # 1
    BY <1>1, <2>3
  <2> QED
    BY <1>1, <1>4, <2>4 DEF Exact
<1>6. CASE Complete(p, f, z, w, i) /\ z = 0
  BY <1>5, <1>6 DEF Complete, Exact
<1>7. CASE z # 0
  <2>1. p # "send"
    BY Points
  <2>2. i[1].n <= z
    BY <1>2, <1>7 DEF Exact, Complete, Short
  <2>3. u.n < z
    BY <1>2, <2>2
  <2> QED
    BY <1>4, <1>5, <1>7, <2>1, <2>3 DEF Exact, Short
<1> QED
  BY <1>6, <1>7 DEF Exact, Short

-----------------------------------------------------------------------------
(* What the calls of the server do to what it can read.                      *)
LEMMA TakeIn ==
    ASSUME IInv, NEW c \in Clients, srv.con = c, NEW j \in Nat, Take(j)
    PROVE  /\ chan'[c].in["s"] = SubSeq(chan[c].in["s"], j + 1, Len(chan[c].in["s"]))
           /\ chan'[c].end = chan[c].end
<1>1. chan[c] \in Connection(Unit) /\ "s" \in Sides /\ "c" \in Sides \ {"s"}
  BY ConnTypes
<1>2. chan' = [chan EXCEPT ![c] = Taken(chan[c], "s", j)]
  BY DEF Take
<1>3. chan'[c] = Taken(chan[c], "s", j)
  BY <1>2, Types
<1> DEFINE h == Taken(chan[c], "s", j)
<1>4. /\ h \in Connection(Unit) /\ h.end = chan[c].end
      /\ h.in["s"] = SubSeq(chan[c].in["s"], j + 1, Len(chan[c].in["s"]))
      /\ h.in["c"] = chan[c].in["c"]
  BY ONLY <1>1, j \in Nat, UnitsTaken
<1> HIDE DEF h
<1> QED
  BY <1>3, <1>4 DEF h

(* A write leaves what it can read.                                          *)
LEMMA WriteIn ==
    ASSUME IInv, NEW c \in Clients, srv.con = c, NEW us \in Seq(Unit),
           chan' = [chan EXCEPT ![srv.con] = Wrote(@, "s", us)]
                \/ chan' = [chan EXCEPT ![srv.con] = Sent(@, "s", us)]
    PROVE  chan'[c].in["s"] = chan[c].in["s"]
<1>1. chan[c] \in Connection(Unit)
  BY ConnTypes
<1>2. Sent(chan[c], "s", us).in["s"] = chan[c].in["s"]
  BY <1>1, SentByServer
<1>3. chan'[c] \in {chan[c], Sent(chan[c], "s", us)}
  BY Types DEF Wrote
<1> QED
  BY <1>2, <1>3

(* A part of the first unit is taken.                                        *)
LEMMA PartIn ==
    ASSUME IInv, NEW c \in Clients, srv.con = c, ReadPart
    PROVE  /\ chan[c].in["s"] # <<>> /\ chan[c].in["s"][1].t = "data"
           /\ \E m \in 1..chan[c].in["s"][1].n - 1 :
                chan'[c].in["s"] = Cut(chan[c].in["s"], m)
           /\ chan'[c].end = chan[c].end
<1> DEFINE i == chan[c].in["s"]
<1>1. /\ i \in Seq(Unit) /\ i # <<>> /\ in = i
  BY ConnTypes DEF ReadPart, in, ch
<1>9. chan[c] \in Connection(Unit) /\ "s" \in Sides /\ "c" \in Sides \ {"s"}
  BY ConnTypes
<1>2. Head(in) = i[1]
  BY <1>1
<1>3. PICK m \in 1..i[1].n - 1 : chan' = [chan EXCEPT ![c].in["s"][1].n = @ - m]
  BY <1>2 DEF ReadPart
<1> DEFINE w == Cut(i, m)
           h == [chan[c] EXCEPT !.in["s"] = w]
<1>4. chan' = [chan EXCEPT ![c] = h]
  BY <1>3 DEF Cut
<1>5. w \in Seq(Unit)
  BY <1>1, PartTaken
<1>6. chan'[c] = h
  BY <1>4, Types
<1> HIDE DEF w
<1>7. /\ h \in Connection(Unit) /\ h.end = chan[c].end
      /\ h.in["s"] = w /\ h.in["c"] = chan[c].in["c"]
  BY ONLY <1>9, <1>5, InConn
<1>8. i[1].t = "data"
  BY <1>2 DEF ReadPart
<1> QED
  BY <1>1, <1>6, <1>7, <1>8 DEF w

(* The server ends only when its client's side is closed: a call finds       *)
(* nothing more to read, or a reset.                                         *)
LEMMA DiesAtEnd ==
    ASSUME IInv, Serve, srv'.pc = "dead"
    PROVE  /\ srv.pc \notin {"accept", "quit", "data", "dead"} /\ srv.con \in Clients
           /\ AtEnd(ch, "s") \/ Failed(ch, "s") \/ Broken(ch, "s")
           /\ srv.pc = "header" => Failed(ch, "s")
<1>1. srv \in Server
  BY Types
<1>2. ~ Accept
  BY <1>1 DEF Accept, Server
<1>3. ~ Quit
  BY <1>1 DEF Quit, SGoto, Server
<1>4. Greet => /\ srv.pc \in {"hello", "hi"}
               /\ AtEnd(ch, "s") \/ Failed(ch, "s") \/ Broken(ch, "s")
  BY <1>1 DEF Greet, SAt, SGoto, Write, Server
<1>5. Header => srv.pc = "header" /\ Failed(ch, "s")
  <2> SUFFICES ASSUME Header PROVE srv.pc = "header" /\ Failed(ch, "s")
    OBVIOUS
  <2>1. \A t \in Requests \cup {"none"} : (IF t = "none" THEN "header" ELSE t) # "dead"
    BY DEF Requests
  <2>2. \A u : Named(u) \in Requests \cup {"none"}
    BY DEF Named
  <2>3. CASE LET t == Named(Head(in).t) IN
             srv' = [srv EXCEPT !.pc = IF t = "none" THEN "header" ELSE t, !.msgType = t]
    BY <1>1, <2>1, <2>2, <2>3 DEF Server
  <2>4. CASE srv.msgType # "none" /\ SGoto(srv.msgType)
    BY <1>1, <2>4 DEF Server, SGoto, Requests
  <2> QED
    BY <2>3, <2>4 DEF Header, SAt
<1>6. Echo => /\ srv.pc \in {"EchoReq", "reply", "text"}
              /\ AtEnd(ch, "s") \/ Failed(ch, "s") \/ Broken(ch, "s")
  BY <1>1 DEF Echo, SAt, SGoto, Write, Server
<1>7. FileUp => /\ srv.pc \in {"FileUpReq", "size", "ack"}
                /\ AtEnd(ch, "s") \/ Failed(ch, "s") \/ Broken(ch, "s")
  <2> SUFFICES ASSUME FileUp
               PROVE  /\ srv.pc \in {"FileUpReq", "size", "ack"}
                      /\ AtEnd(ch, "s") \/ Failed(ch, "s") \/ Broken(ch, "s")
    OBVIOUS
  <2>1. SAt("data") => ~ ReadPart
    BY <1>1 DEF ReadPart, SAt, Server
  <2>2. \A j : ~ ReadUnits(j)
    BY <1>1 DEF ReadUnits, Server
  <2>3. CASE SAt("data")
    BY <1>1, <2>1, <2>2, <2>3 DEF FileUp, Ack, SAt, SGoto, Server
  <2> QED
    BY <1>1, <2>3 DEF FileUp, Ack, SAt, SGoto, Server
<1> QED
  BY <1>2, <1>3, <1>4, <1>5, <1>6, <1>7 DEF Serve, IInv, AtWork

(* While its client is there it never does.                                  *)
LEMMA ServedLives ==
    ASSUME IInv, Serve, srv'.pc = "dead", ~ SAt("dead")
    PROVE  ~ Running(srv.con)
<1>1. srv.con \in Clients /\ ch = chan[srv.con] /\ Peer("s") = "c"
  BY DiesAtEnd DEF ch, Peer
<1>2. chan[srv.con].end["c"] # "open"
  BY <1>1, DiesAtEnd DEF AtEnd, Failed, Broken
<1> QED
  BY <1>1, <1>2 DEF IInv, OneClient

-----------------------------------------------------------------------------
(* The steps of the server.                                                  *)
LEMMA ServeOther ==
    ASSUME IInv, OtherRequest, Serve
    PROVE  OtherRequest'
<1>1. srv \in Server
  BY Types
<1>2. CASE Accept
  BY <1>1, <1>2 DEF Accept, SAt, OtherRequest, Server
<1>3. CASE Greet
  BY <1>1, <1>3 DEF Greet, Die, Write, SAt, SGoto, OtherRequest, Server
<1>4. CASE Header
  <2>1. CASE Die \/ (srv.msgType # "none" /\ SGoto(srv.msgType))
    BY <1>1, <2>1 DEF Die, SGoto, OtherRequest, Server, Requests
  <2>2. CASE LET t == Named(Head(in).t) IN
             srv' = [srv EXCEPT !.pc = IF t = "none" THEN "header" ELSE t, !.msgType = t]
    BY <1>1, <2>2 DEF OtherRequest, Server
  <2> QED
    BY <1>4, <2>1, <2>2 DEF Header
<1>5. CASE Echo
  BY <1>1, <1>5 DEF Echo, Die, Write, SAt, SGoto, OtherRequest, Server
<1>6. CASE FileUp
  <2>1. srv'.pc \in {"size", "ack", "data", "header", "dead"}
    <3>1. CASE SAt("data")
      BY <1>1, <1>6, <3>1 DEF FileUp, Ack, ReadUnits, ReadPart, SAt, SGoto, Server
    <3>2. CASE ~ SAt("data")
      BY <1>1, <1>6, <3>2 DEF FileUp, Ack, Die, SAt, SGoto, Server
    <3> QED
      BY <3>1, <3>2
  <2> QED
    BY <2>1 DEF OtherRequest
<1>7. CASE Quit
  BY <1>1, <1>7 DEF Quit, SAt, SGoto, OtherRequest, Server
<1> QED
  BY <1>2, <1>3, <1>4, <1>5, <1>6, <1>7 DEF Serve

(* What a step that changes no point of upload needs.                        *)
LEMMA Elsewhere ==
    ASSUME NEW p, NEW f, NEW s, NEW z, NEW w, NEW m, NEW i,
           p # "ack", s \notin {"ack", "data"}, s = "header" => m # "FileUpReq"
    PROVE  Exact(p, f, s, z, w, m, i)
BY DEF Exact

(* What the server knows of the length, step by step.                        *)
LEMMA ServeSized ==
    ASSUME IInv, SizeInv, Serve, NEW c \in Clients
    PROVE  SizedOne(c)'
<1> SUFFICES ASSUME srv'.con = c, Running(c)', srv'.pc # "dead", ~ srv'.lost
             PROVE  Exact(cl[c].pc, cl[c].file, srv'.pc, srv'.size, srv'.stored,
                          srv'.msgType, chan'[c].in["s"])
  BY DEF SizedOne, SAt, Serve
<1> DEFINE p == cl[c].pc
           i == chan[c].in["s"]
           o == chan[c].in["c"]
<1>1. srv \in Server /\ i \in Seq(Unit) /\ o \in Seq(Unit) /\ Running(c) /\ cl' = cl
  BY Types, ConnTypes DEF Serve, Running
<1>2. CASE Accept
  <2>1. queue \in Seq(Clients) /\ queue # <<>> /\ queue[1] = c /\ 1 \in 1..Len(queue)
    BY <1>1, <1>2, Types DEF Accept, Server
  <2>2. Queued(c) /\ ~ SAt("dead") /\ srv'.pc = "hello"
    BY <1>1, <1>2, <2>1 DEF Queued, Accept, SAt, Server
  <2>3. p \in {"hello", "hi"}
    BY <1>1, <2>2 DEF IInv, OneClient, Stage, Coming, Waiting, Served, Left
  <2> QED
    BY <2>2, <2>3, Elsewhere
<1> SUFFICES ASSUME ~ Accept
             PROVE  Exact(p, cl[c].file, srv'.pc, srv'.size, srv'.stored,
                          srv'.msgType, chan'[c].in["s"])
  BY <1>2
<1>3. /\ srv.con = c /\ ~ srv.lost /\ ~ SAt("dead") /\ srv.pc # "dead"
      /\ ch = chan[c] /\ in = i
  <2>1. CASE Greet
    BY <1>1, <2>1 DEF Greet, Die, Write, SAt, SGoto, Server, ch, in
  <2>2. CASE Header
    BY <1>1, <2>2 DEF Header, Die, SAt, SGoto, Server, ch, in
  <2>3. CASE Echo
    BY <1>1, <2>3 DEF Echo, Die, Write, SAt, SGoto, Server, ch, in
  <2>4. CASE FileUp
    <3>1. CASE SAt("data")
      BY <1>1, <2>4, <3>1 DEF FileUp, Ack, ReadUnits, ReadPart, SAt, SGoto, Server, ch, in
    <3>2. CASE ~ SAt("data")
      BY <1>1, <2>4, <3>2 DEF FileUp, Ack, Die, SAt, SGoto, Server, ch, in
    <3> QED
      BY <3>1, <3>2
  <2>5. CASE Quit
    BY <1>1, <2>5 DEF Quit, SAt, SGoto, Server, ch, in
  <2> QED
    BY <2>1, <2>2, <2>3, <2>4, <2>5 DEF Serve
<1>4. /\ Paired(p, srv.pc, i, o, srv.lost)
      /\ Exact(p, cl[c].file, srv.pc, srv.size, srv.stored, srv.msgType, i)
      /\ chan[c].end["c"] = "open" /\ Peer("s") = "c"
  BY <1>1, <1>3, ExactPaired DEF SizeInv, Peer
<1>5. ~ AtEnd(ch, "s") /\ ~ Failed(ch, "s") /\ ~ Die
  BY <1>1, <1>3, <1>4 DEF AtEnd, Failed, Die, SGoto, Server
<1>6. p = "ack" => srv.pc \in {"header", "FileUpReq", "size", "ack", "data"}
  BY <1>1, <1>3, <1>4, Points
<1>11. /\ srv.pc = "ack" => p = "ack" /\ i = <<>>
       /\ srv.pc = "size" /\ i # <<>> => p = "ack" /\ Len(i) = 1
  BY <1>1, <1>3, <1>4, Points
<1>7. CASE Greet \/ Echo \/ Quit
  <2>1. srv.pc \in {"hello", "hi", "EchoReq", "reply", "text", "quit"}
    BY <1>7 DEF Greet, Echo, Quit, SAt
  <2>2. srv.msgType # "FileUpReq" /\ p # "ack"
    BY <1>6, <2>1 DEF SizeInv, OtherRequest
  <2>3. srv'.msgType = srv.msgType /\ srv'.pc \notin {"ack", "data"}
    BY <1>1, <1>5, <1>7 DEF Greet, Echo, Quit, Write, SGoto, Server
  <2> QED
    BY <2>2, <2>3, Elsewhere
<1>8. ASSUME Take(1)
      PROVE  p = "ack" /\ chan'[c].in["s"] # <<>> /\ i # <<>>
                => chan'[c].in["s"][Len(chan'[c].in["s"])].n = i[Len(i)].n
  <2>1. chan'[c].in["s"] = SubSeq(i, 1 + 1, Len(i))
    BY <1>3, <1>8, TakeIn
  <2>2. i # <<>> => 1 \in 1..Len(i)
    BY <1>1
  <2> QED
    BY <1>1, <2>1, <2>2, LastKept
<1>9. CASE Header
  <2>1. in # <<>> /\ Take(1)
    BY <1>5, <1>9 DEF Header
  <2>2. PICK t \in Requests \cup {"none"} :
          srv' = [srv EXCEPT !.pc = IF t = "none" THEN "header" ELSE t, !.msgType = t]
    BY <1>5, <1>9 DEF Header, Named
  <2>3. /\ srv'.pc \in {"header", "EchoReq", "FileUpReq", "quit"}
        /\ srv'.pc = "header" => srv'.msgType = "none"
    BY <1>1, <2>2 DEF Server, Requests
  <2> QED
    BY <1>3, <1>4, <1>8, <2>1, <2>3 DEF Exact
<1>10. CASE FileUp
  <2>1. CASE SAt("FileUpReq")
    <3>1. in # <<>> /\ Take(1) /\ srv'.pc = "size"
      BY <1>1, <1>5, <1>10, <2>1 DEF FileUp, Ack, SAt, SGoto, Server
    <3> QED
      BY <1>3, <1>4, <1>8, <3>1 DEF Exact
  <2>2. CASE SAt("size")
    <3>1. in # <<>> /\ Take(1) /\ srv'.pc = "ack" /\ srv'.size = Head(in).n
      BY <1>1, <1>5, <1>10, <2>2 DEF FileUp, Ack, SAt, SGoto, Server
    <3>2. p = "ack" /\ Len(i) = 1
      BY <1>3, <1>11, <2>2, <3>1 DEF SAt
    <3>3. Head(in).n = i[Len(i)].n
      BY <1>1, <1>3, <3>1, <3>2
    <3> QED
      BY <1>3, <1>4, <1>8, <3>1, <3>2, <3>3 DEF Exact
  <2>3. CASE SAt("ack")
    <3>1. Ack
      BY <1>10, <2>3 DEF FileUp, SAt
    <3>2. /\ chan' = [chan EXCEPT ![srv.con] = Sent(@, "s", <<Plain("FileAck")>>)]
          /\ srv'.pc = "data" /\ srv'.stored = 0 /\ srv'.size = srv.size
      BY <1>1, <1>5, <3>1 DEF Ack, Server
    <3>3. <<Plain("FileAck")>> \in Seq(Unit)
      BY DEF Plain, Unit
    <3>4. chan'[c].in["s"] = i
      BY <1>3, <3>2, <3>3, WriteIn
    <3>5. p = "ack" /\ i = <<>>
      BY <1>11, <2>3 DEF SAt
    <3>6. srv.size = cl[c].file
      BY <1>4, <2>3 DEF Exact, SAt
    <3> QED
      BY <3>2, <3>4, <3>5, <3>6 DEF Exact, Complete
  <2>4. CASE SAt("data")
    <3>1. srv.pc = "data" /\ srv.size \in Nat /\ srv.stored \in Nat
      BY <1>1, <2>4 DEF SAt, Server
    <3>2. (\E j \in 1..Len(in) : ReadUnits(j)) \/ ReadPart
      BY <1>5, <1>10, <2>4 DEF FileUp, Ack, SAt
    <3>3. ASSUME NEW j \in 1..Len(i), ReadUnits(j)
          PROVE  Exact(p, cl[c].file, srv'.pc, srv'.size, srv'.stored,
                       srv'.msgType, chan'[c].in["s"])
      <4> DEFINE us == SubSeq(i, 1, j)
      <4>1. \A k \in 1..j : us[k] = i[k]
        BY <1>1, <3>3
      <4>8. Len(us) = j
        BY <1>1, <3>3
      <4>2. PICK enough \in Enough(us) : srv' =
              [srv EXCEPT !.pc = IF enough THEN "header" ELSE "data",
                          !.stored = @ + srv.size,
                          !.lost = @ \/ \E k \in 1..j : us[k].t # "data"]
        BY <1>3, <3>3 DEF ReadUnits
      <4>3. \A k \in 1..j : us[k].t = "data"
        BY <1>1, <4>2 DEF Server
      <4>4. enough \in IF srv.size = 0 THEN {TRUE}
                       ELSE IF us = <<[t |-> "data", n |-> srv.size]>> THEN {TRUE}
                       ELSE {FALSE}
        BY <4>2, <4>3, <4>8 DEF Enough
      <4>5. \A k \in 1..j : i[k].t = "data"
        BY <4>1, <4>3
      <4>6. j \in Nat /\ Take(j)
        BY <1>1, <3>3 DEF ReadUnits
      <4>7. chan'[c].in["s"] = SubSeq(i, j + 1, Len(i))
        BY <1>3, <4>6, TakeIn
      <4>9. /\ srv'.pc = (IF enough THEN "header" ELSE "data")
            /\ srv'.stored = srv.stored + srv.size
            /\ srv'.size = srv.size /\ srv'.msgType = srv.msgType
        BY <1>1, <4>2 DEF Server
      <4>10. Exact(p, cl[c].file, IF enough THEN "header" ELSE "data", srv.size,
                   srv.stored + srv.size, srv.msgType, SubSeq(i, j + 1, Len(i)))
        <5>1. Paired(p, "data", i, o, FALSE)
          <6>1. srv.lost = FALSE
            BY <1>1, <1>3 DEF Server
          <6> QED
            BY <1>4, <3>1, <6>1
        <5>2. Exact(p, cl[c].file, "data", srv.size, srv.stored, srv.msgType, i)
          BY <1>4, <3>1
        <5> HIDE DEF p, i, o
        <5> QED
          BY <1>1, <3>1, <3>3, <4>4, <4>5, <5>1, <5>2, DataExact
      <4> QED
        BY <4>7, <4>9, <4>10
    <3>4. CASE ReadPart
      <4>1. i # <<>> /\ i[1].t = "data"
        BY <1>3, <3>4, PartIn
      <4>2. PICK d \in 1..i[1].n - 1 : chan'[c].in["s"] = Cut(i, d)
        BY <1>3, <3>4, PartIn
      <4>3. /\ srv'.pc = "data" /\ srv'.stored = srv.stored + srv.size
            /\ srv'.size = srv.size /\ srv'.msgType = srv.msgType
        BY <1>1, <3>1, <3>4 DEF ReadPart, Server
      <4>4. Exact(p, cl[c].file, "data", srv.size, srv.stored + srv.size, srv.msgType,
                  Cut(i, d))
        <5>1. Paired(p, "data", i, o, FALSE)
          <6>1. srv.lost = FALSE
            BY <1>1, <1>3 DEF Server
          <6> QED
            BY <1>4, <3>1, <6>1
        <5>2. Exact(p, cl[c].file, "data", srv.size, srv.stored, srv.msgType, i)
          BY <1>4, <3>1
        <5> HIDE DEF p, i, o
        <5> QED
          BY <1>1, <3>1, <4>1, <4>2, <5>1, <5>2, PartExact
      <4> QED
        BY <4>2, <4>3, <4>4
    <3> QED
      BY <1>3, <3>2, <3>3, <3>4
  <2> QED
    BY <1>10, <2>1, <2>2, <2>3, <2>4 DEF FileUp, Ack
<1> QED
  BY <1>7, <1>9, <1>10 DEF Serve

(* One unit behind another.                                                  *)
LEMMA Behind ==
    ASSUME NEW i \in Seq(Unit), i # <<>>, NEW a, One(Rest(i), a)
    PROVE  Len(i) = 2 /\ i[2].t = a
<1> DEFINE w == Rest(i)
<1>6. Len(w) = Len(i) - 1 /\ Len(i) \in Nat
  BY RestOf
<1>1. \A k \in 1..Len(w) : w[k] = i[k + 1]
  BY RestOf
<1>2. Len(w) = 1 /\ w[1].t = a
  BY DEF One
<1> HIDE DEF w
<1>7. 1 = Len(i) - 1
  BY <1>2, <1>6
<1>8. \A n \in Nat : 1 = n - 1 => n = 2
  OBVIOUS
<1>3. Len(i) = 2
  BY <1>6, <1>7, <1>8
<1>4. 1 \in 1..Len(w) /\ 1 + 1 = 2
  BY <1>2
<1>5. w[1] = i[2]
  BY <1>1, <1>4
<1> QED
  BY <1>2, <1>3, <1>5

(* What the server does to a client that has left in order.                  *)
LEMMA ServeGone ==
    ASSUME IInv, SizeInv, Serve, NEW c \in Clients
    PROVE  GoneOne(c)'
<1> DEFINE i == chan[c].in["s"]
<1> SUFFICES ASSUME cl[c].pc = "exit", srv'.pc # "dead"
             PROVE  /\ ~ Queued(c)'
                    /\ srv'.con = c /\ ~ srv'.lost =>
                         chan'[c].end["c"] = "fin" /\ QuitLeft(srv'.pc, chan'[c].in["s"])
  BY DEF GoneOne, SAt, Serve
<1>1. srv \in Server /\ queue \in Seq(Clients) /\ i \in Seq(Unit)
  BY Types, ConnTypes
<1>2. CASE Accept
  <2>1. ~ SAt("dead") /\ ~ Queued(c)
    BY <1>2 DEF SizeInv, GoneOne, Accept, SAt
  <2>2. /\ queue' = Tail(queue) /\ queue # <<>> /\ srv'.con = queue[1]
        /\ 1 \in 1..Len(queue) /\ Len(queue) \in Nat
    BY <1>1, <1>2 DEF Accept, Server
  <2>3. srv'.con # c
    BY <2>1, <2>2 DEF Queued
  <2>4. /\ Len(queue') = Len(queue) - 1
        /\ \A k \in 1..Len(queue') : k + 1 \in 1..Len(queue) /\ queue'[k] = queue[k + 1]
    BY <1>1, <2>2
  <2>5. ~ Queued(c)'
    BY <2>1, <2>4 DEF Queued
  <2> QED
    BY <2>3, <2>5
<1>3. ASSUME ~ Accept
      PROVE  /\ srv.pc # "dead" /\ srv'.con = srv.con /\ queue' = queue
             /\ srv.lost => srv'.lost
  <2>1. CASE Greet
    BY <1>1, <2>1 DEF Greet, Die, Write, SAt, SGoto, Server
  <2>2. CASE Header
    BY <1>1, <2>2 DEF Header, Die, SAt, SGoto, Server
  <2>3. CASE Echo
    BY <1>1, <2>3 DEF Echo, Die, Write, SAt, SGoto, Server
  <2>4. CASE FileUp
    <3>1. CASE SAt("data")
      BY <1>1, <2>4, <3>1 DEF FileUp, Ack, ReadUnits, ReadPart, SAt, SGoto, Server
    <3>2. CASE ~ SAt("data")
      BY <1>1, <2>4, <3>2 DEF FileUp, Ack, Die, SAt, SGoto, Server
    <3> QED
      BY <3>1, <3>2
  <2>5. CASE Quit
    BY <1>1, <2>5 DEF Quit, SAt, SGoto, Server
  <2> QED
    BY <1>3, <2>1, <2>2, <2>3, <2>4, <2>5 DEF Serve
<1> SUFFICES ASSUME ~ Accept, srv'.con = c, ~ srv'.lost
             PROVE  chan'[c].end["c"] = "fin" /\ QuitLeft(srv'.pc, chan'[c].in["s"])
  <2>1. ~ Accept => ~ SAt("dead") /\ ~ Queued(c)' 
    BY <1>3 DEF SizeInv, GoneOne, Queued, SAt
  <2> QED
    BY <1>2, <2>1
<1>4. /\ srv.con = c /\ ~ srv.lost /\ ~ SAt("dead")
      /\ chan[c].end["c"] = "fin" /\ QuitLeft(srv.pc, i)
  BY <1>3 DEF SizeInv, GoneOne, SAt
<1>5. ch = chan[c] /\ in = i /\ Peer("s") = "c"
  BY <1>4 DEF ch, in, Peer
<1>6. ~ Die
  BY <1>1 DEF Die, SGoto, Server
<1>7. srv.pc \in {"header", "data", "quit"}
  BY <1>4 DEF QuitLeft, Serve, Greet, Header, Echo, FileUp, Ack, Quit, SAt
<1>8. CASE srv.pc = "quit"
  <2>1. Quit
    BY <1>8 DEF Serve, Greet, Header, Echo, FileUp, Ack, SAt
  <2> QED
    BY <1>1, <1>4, <2>1 DEF Quit, SGoto, Server, QuitLeft
<1>9. CASE srv.pc = "header"
  <2>1. One(i, "quit") /\ Header
    BY <1>4, <1>9 DEF QuitLeft, Serve, Greet, Echo, FileUp, Ack, Quit, SAt
  <2>2. i # <<>> /\ Head(i) = i[1] /\ i[1].t = "quit"
    BY <1>1, <2>1 DEF One
  <2>3. Take(1) /\ srv'.pc = "quit"
    BY <1>1, <1>5, <1>6, <2>1, <2>2 DEF Header, AtEnd, Named, Requests, Server
  <2>4. chan'[c].end = chan[c].end
    BY <1>4, <2>3, TakeIn
  <2> QED
    BY <1>4, <2>3, <2>4 DEF QuitLeft
<1>10. CASE srv.pc = "data"
  <2>1. i # <<>> /\ (One(i, "quit") \/ (i[1].t = "data" /\ One(Rest(i), "quit")))
    BY <1>1, <1>4, <1>10 DEF QuitLeft, One
  <2>2. (\E j \in 1..Len(i) : ReadUnits(j)) \/ ReadPart
    BY <1>5, <1>10, <2>1 DEF Serve, Accept, Greet, Header, Echo, FileUp, Ack, Quit, SAt,
                             AtEnd, Failed
  <2>3. /\ Rest(i) \in Seq(Unit) /\ Len(Rest(i)) = Len(i) - 1 /\ Len(i) \in Nat
        /\ \A k \in 1..Len(Rest(i)) : k + 1 \in 1..Len(i) /\ Rest(i)[k] = i[k + 1]
    BY <1>1, <2>1, RestOf
  <2>4. ASSUME NEW j \in 1..Len(i), ReadUnits(j)
        PROVE  chan'[c].end["c"] = "fin" /\ QuitLeft(srv'.pc, chan'[c].in["s"])
    <3>1. \A k \in 1..j : SubSeq(i, 1, j)[k] = i[k]
      BY <1>1, <2>4
    <3>2. PICK enough \in BOOLEAN : srv' =
            [srv EXCEPT !.pc = IF enough THEN "header" ELSE "data",
                        !.stored = @ + srv.size,
                        !.lost = @ \/ \E k \in 1..j : SubSeq(i, 1, j)[k].t # "data"]
      BY <1>5, <2>4 DEF ReadUnits, Enough
    <3>9. \A k \in 1..j : SubSeq(i, 1, j)[k].t = "data"
      BY <1>1, <3>2 DEF Server
    <3>3. \A k \in 1..j : i[k].t = "data"
      BY <3>1, <3>9
    <3>4. j \in Nat /\ Take(j) /\ 1 \in 1..j
      BY <1>1, <2>4 DEF ReadUnits
    <3>5. i[1].t = "data" /\ One(Rest(i), "quit")
      BY <2>1, <3>3, <3>4 DEF One
    <3>6. j = 1
      <4>1. Len(i) = 2 /\ i[2].t = "quit"
        BY <1>1, <2>1, <3>5, Behind
      <4>2. 2 \notin 1..j
        BY <3>3, <4>1
      <4> QED
        BY <3>4, <4>1, <4>2
    <3>7. chan'[c].in["s"] = Rest(i) /\ chan'[c].end = chan[c].end
      BY <1>4, <3>4, <3>6, TakeIn DEF Rest
    <3>8. srv'.pc \in {"header", "data"}
      BY <1>1, <3>2 DEF Server
    <3> QED
      BY <1>4, <3>5, <3>7, <3>8 DEF QuitLeft
  <2>5. CASE ReadPart
    <3>1. i[1].t = "data" /\ chan'[c].end = chan[c].end
      BY <1>4, <2>5, PartIn
    <3>2. PICK d \in 1..i[1].n - 1 : chan'[c].in["s"] = Cut(i, d)
      BY <1>4, <2>5, PartIn
    <3>3. One(Rest(i), "quit")
      BY <2>1, <3>1 DEF One
    <3> DEFINE w == Cut(i, d)
    <3>4. /\ w \in Seq(Unit) /\ Len(w) = Len(i)
          /\ \A k \in 1..Len(i) : w[k].t = i[k].t
      BY <1>1, <2>1, PartTaken
    <3> HIDE DEF w
    <3>5. Len(i) = 2 /\ i[2].t = "quit"
      BY <1>1, <2>1, <3>3, Behind
    <3>6. w # <<>> /\ w[1].t = "data" /\ w[2].t = "quit"
      BY <3>1, <3>4, <3>5
    <3>7. One(Rest(w), "quit")
      <4>1. /\ Len(Rest(w)) = Len(w) - 1
            /\ \A k \in 1..Len(Rest(w)) : k + 1 \in 1..Len(w) /\ Rest(w)[k] = w[k + 1]
        BY <3>4, <3>6, RestOf
      <4> QED
        BY <3>4, <3>5, <3>6, <4>1 DEF One
    <3>8. srv'.pc = "data"
      BY <1>1, <1>10, <2>5 DEF ReadPart, Server
    <3> QED
      BY <1>4, <3>1, <3>2, <3>6, <3>7, <3>8 DEF QuitLeft, w
  <2> QED
    BY <2>2, <2>4, <2>5
<1> QED
  BY <1>7, <1>8, <1>9, <1>10

-----------------------------------------------------------------------------
(* The steps of a client: it asks,                                           *)
LEMMA AskedExact ==
    ASSUME NEW p, NEW f, NEW s, NEW z, NEW w, NEW m, NEW i \in Seq(Unit), NEW o,
           NEW lost, ~ lost, Paired(p, s, i, o, lost), Exact(p, f, s, z, w, m, i),
           p \notin {"ack", "send"}, NEW u \in Unit, u.t # "data",
           NEW q, q # "send", NEW g, q = "ack" => u.n = g
    PROVE  Exact(q, g, s, z, w, m, i \o <<u>>)
<1> DEFINE y == i \o <<u>>
<1>1. /\ y # <<>> /\ y[Len(y)] = u
      /\ i = <<>> => y[1] = u
      /\ i # <<>> => y[1] = i[1]
  BY Ends1
<1>2. s # "ack"
  BY Points
<1> HIDE DEF y
<1>3. s = "data" /\ Complete(p, f, z, w, i) => Complete(q, g, z, w, y)
  BY <1>1 DEF Complete
<1>4. s = "data" /\ Short(p, z, i) => Short(q, z, y)
  BY <1>1 DEF Short
<1>5. Exact(q, g, s, z, w, m, y)
  BY <1>1, <1>2, <1>3, <1>4 DEF Exact
<1> QED
  BY <1>5 DEF y

(* reads an answer,                                                          *)
LEMMA AnsweredExact ==
    ASSUME NEW p, NEW f, NEW s, NEW z, NEW w, NEW m, NEW i \in Seq(Unit), NEW o,
           NEW lost, ~ lost, Paired(p, s, i, o, lost), Exact(p, f, s, z, w, m, i),
           o # <<>>, NEW q, q # "ack", p = "ack" <=> q = "send", p # "send"
    PROVE  Exact(q, f, s, z, w, m, i)
<1>1. s = "ack" => p = "ack"
  BY Points
<1>2. p = "ack" => s = "data" /\ i = <<>>
  BY Points
<1>3. s = "data" => p = "ack"
  BY Points
<1>4. s = "data" => Complete(q, f, z, w, i)
  BY <1>2, <1>3 DEF Exact, Complete, Short
<1> QED
  BY <1>1, <1>2, <1>4 DEF Exact

(* or sends its file.                                                        *)
LEMMA SentExact ==
    ASSUME NEW f \in Nat, NEW s, NEW z, NEW w, NEW m, NEW i \in Seq(Unit), NEW o,
           NEW lost, ~ lost, Paired("send", s, i, o, lost), Exact("send", f, s, z, w, m, i),
           NEW y, y = IF f = 0 THEN <<>> ELSE <<[t |-> "data", n |-> f]>>
    PROVE  Exact("prompt", f, s, z, w, m, y)
<1>1. s = "data" /\ i = <<>>
  BY Points
<1>2. w = 0 /\ (z = 0 \/ z = f)
  BY <1>1 DEF Exact, Complete, Short
<1>3. f # 0 => y # <<>> /\ y[1] = [t |-> "data", n |-> f]
  OBVIOUS
<1>4. Complete("prompt", f, z, w, y)
  BY <1>2, <1>3 DEF Complete
<1> QED
  BY <1>1, <1>4 DEF Exact

(* A write of a client that stays, and a read of one that is served.         *)
LEMMA WriteStays ==
    ASSUME IInv, NEW c \in Clients, NEW us, us = <<>> \/ \E u \in Unit : us = <<u>>,
           NEW r, CWrite(c, us, r), Running(c)', ~ SAt("dead")
    PROVE  /\ cl'[c] = r
           /\ us = <<>> => chan'[c].in["s"] = chan[c].in["s"]
           /\ us # <<>> => chan'[c].in["s"] = chan[c].in["s"] \o us
<1>1. chan' = [chan EXCEPT ![c] = Wrote(@, "c", us)] /\ cl' = [cl EXCEPT ![c] = r]
  <2>1. \A pc \in {"dead"} : ~ Close(c, pc)
    BY Types DEF Close, CGoto, Running, Client
  <2> QED
    BY <2>1 DEF CWrite
<1>2. cl'[c] = r /\ chan'[c] = Wrote(chan[c], "c", us)
  BY <1>1, Types
<1>3. chan[c].end["s"] = "open" /\ chan[c] \in Connection(Unit)
  BY ConnTypes DEF IInv, Open
<1>4. CASE us # <<>>
  <2>1. PICK u \in Unit : us = <<u>>
    BY <1>4
  <2>2. us \in Seq(Unit)
    BY ONLY <2>1, u \in Unit
  <2>3. Sent(chan[c], "c", us).in["s"] = chan[c].in["s"] \o us
    <3> DEFINE k == Sent(chan[c], "c", us)
    <3>1. k = Sent(chan[c], "c", us)
      OBVIOUS
    <3> HIDE DEF k
    <3>2. k.in["s"] = chan[c].in["s"] \o us
      BY <1>3, <2>2, <3>1, SentByClient
    <3> QED
      BY <3>2 DEF k
  <2> QED
    BY <1>2, <1>4, <2>3 DEF Wrote
<1> QED
  BY <1>2, <1>4 DEF Wrote

(* A read of the client leaves what the server can read.                     *)
LEMMA TakenStays ==
    ASSUME IInv, NEW c \in Clients, chan' = [chan EXCEPT ![c] = Taken(@, "c", 1)]
    PROVE  chan'[c].in["s"] = chan[c].in["s"]
<1>1. chan[c] \in Connection(Unit) /\ "c" \in Sides /\ "s" \in Sides \ {"c"} /\ 1 \in Nat
  BY ConnTypes
<1>2. chan'[c] = Taken(chan[c], "c", 1)
  BY Types
<1> DEFINE h == Taken(chan[c], "c", 1)
<1>3. /\ h \in Connection(Unit) /\ h.end = chan[c].end
      /\ h.in["c"] = SubSeq(chan[c].in["c"], 1 + 1, Len(chan[c].in["c"]))
      /\ h.in["s"] = chan[c].in["s"]
  BY ONLY <1>1, UnitsTaken
<1> HIDE DEF h
<1> QED
  BY <1>2, <1>3 DEF h

(* A client that reads and stays has got an answer.                          *)
LEMMA ReadStays ==
    ASSUME IInv, NEW c \in Clients, NEW pc, CRead(c, pc), Running(c)', ~ SAt("dead")
    PROVE  /\ chan[c].in["c"] # <<>> /\ chan'[c].in["s"] = chan[c].in["s"]
           /\ cl'[c].pc = pc /\ cl'[c].file = cl[c].file
<1>1. chan[c].end["s"] = "open" /\ Peer("c") = "s"
  BY DEF IInv, Open, Peer
<1>2. ~ Close(c, "dead")
  BY Types DEF Close, CGoto, Running, Client
<1>3. /\ chan[c].in["c"] # <<>> /\ CGoto(c, pc)
      /\ chan' = [chan EXCEPT ![c] = Taken(@, "c", 1)]
  BY <1>1, <1>2 DEF CRead, out, AtEnd
<1>4. cl'[c].pc = pc /\ cl'[c].file = cl[c].file
  BY <1>3, Types DEF CGoto, Client
<1> QED
  BY <1>3, <1>4, TakenStays

(* A step of a client is no other's.                                         *)
LEMMA OwnOnly ==
    ASSUME IInv, NEW c \in Clients, Use(c) \/ Crash(c)
    PROVE  /\ srv' = srv /\ Running(c)
           /\ \A d \in Clients \ {c} : chan'[d] = chan[d] /\ cl'[d] = cl[d]
           /\ \A d \in Clients \ {c} : Queued(d)' => Queued(d)
<1>1. srv' = srv /\ Running(c)
  BY DEF Use, Crash, Connect, Hello, Line, Upload, Leave, CAt, Running
<1>2. \A pc : Close(c, pc) =>
        \A d \in Clients \ {c} : chan'[d] = chan[d] /\ cl'[d] = cl[d]
  BY Types DEF Close, CGoto
<1>3. \A us, r : CWrite(c, us, r) =>
        \A d \in Clients \ {c} : chan'[d] = chan[d] /\ cl'[d] = cl[d]
  BY <1>2, Types DEF CWrite
<1>4. \A pc : CRead(c, pc) =>
        \A d \in Clients \ {c} : chan'[d] = chan[d] /\ cl'[d] = cl[d]
  BY <1>2, Types DEF CRead, CGoto
<1>5. CASE Connect(c)
  <2>1. \A d \in Clients \ {c} : chan'[d] = chan[d] /\ cl'[d] = cl[d]
    BY <1>5, Types DEF Connect, CGoto
  <2>2. ASSUME NEW d \in Clients \ {c}, Queued(d)' PROVE Queued(d)
    <3>1. queue' = queue \/ queue' = Append(queue, c)
      BY <1>5 DEF Connect
    <3>2. CASE queue' = Append(queue, c)
      <4>1. PICK k \in 1..Len(queue') : queue'[k] = d
        BY <2>2 DEF Queued
      <4>2. Len(queue') = Len(queue) + 1 /\ Len(queue) \in Nat
        BY <3>2, Types
      <4>3. k \in 1..Len(queue) \/ k = Len(queue) + 1
        BY <4>1, <4>2
      <4>4. queue'[Len(queue) + 1] = c /\ \A l \in 1..Len(queue) : queue'[l] = queue[l]
        BY <3>2, Types
      <4> QED
        BY <4>1, <4>3, <4>4 DEF Queued
    <3> QED
      BY <2>2, <3>1, <3>2 DEF Queued
  <2> QED
    BY <1>1, <2>1, <2>2
<1>6. CASE (Hello(c) \/ Line(c) \/ Upload(c) \/ Leave(c) \/ Crash(c)) /\ queue' = queue
  <2>1. CASE Hello(c)
    BY <1>1, <1>3, <1>4, <1>6, <2>1 DEF Hello, Queued
  <2>2. CASE Line(c)
    BY <1>1, <1>3, <1>4, <1>6, <2>2 DEF Line, Queued
  <2>3. CASE Upload(c)
    <3>1. \A d \in Clients \ {c} : chan'[d] = chan[d] /\ cl'[d] = cl[d]
      <4>1. CASE /\ chan' = [chan EXCEPT ![c] = Taken(@, "c", 1)]
                 /\ cl' = [cl EXCEPT ![c].pc = "send", ![c].acked = TRUE]
        BY <4>1, Types
      <4>2. CASE CGoto(c, IF cl[c].acked THEN "send" ELSE "prompt") /\ UNCHANGED chan
        BY <4>2, Types DEF CGoto
      <4> QED
        BY <1>3, <2>3, <4>1, <4>2 DEF Upload
    <3> QED
      BY <1>1, <1>6, <3>1 DEF Queued
  <2>4. CASE Leave(c) \/ Crash(c)
    BY <1>1, <1>2, <1>3, <1>6, <2>4 DEF Leave, Crash, Queued
  <2> QED
    BY <1>6, <2>1, <2>2, <2>3, <2>4
<1> QED
  BY <1>5, <1>6 DEF Use, Crash

(* A step of the client that is served keeps what the server knows.          *)
LEMMA UseSized ==
    ASSUME IInv, SizeInv, NEW c \in Clients, Use(c)
    PROVE  SizedOne(c)'
<1> DEFINE p == cl[c].pc
           i == chan[c].in["s"]
           o == chan[c].in["c"]
           s == srv.pc
           Kept(q, g, y) == Exact(q, g, s, srv.size, srv.stored, srv.msgType, y)
<1>1. srv' = srv /\ Running(c)
  BY OwnOnly
<1> SUFFICES ASSUME srv.con = c, Running(c)', ~ SAt("dead"), ~ srv.lost
             PROVE  Kept(cl'[c].pc, cl'[c].file, chan'[c].in["s"])
  BY <1>1 DEF SizedOne, SAt
<1>2. /\ Paired(p, s, i, o, srv.lost) /\ Kept(p, cl[c].file, i)
      /\ chan[c].end["c"] = "open" /\ chan[c].end["s"] = "open"
      /\ i \in Seq(Unit) /\ o \in Seq(Unit) /\ cl[c] \in Client /\ cl[c].file \in Nat
  BY <1>1, ExactPaired, ConnTypes DEF SizeInv, Client
<1>3. ASSUME NEW u \in Unit, u.t # "data", p \notin {"ack", "send"}, NEW r,
             r.pc # "send", r.pc = "ack" => u.n = r.file, CWrite(c, <<u>>, r)
      PROVE  Kept(cl'[c].pc, cl'[c].file, chan'[c].in["s"])
  <2>1. cl'[c] = r /\ chan'[c].in["s"] = i \o <<u>>
    <3>1. <<u>> # <<>>
      OBVIOUS
    <3> QED
      BY <1>3, <3>1, WriteStays
  <2>2. Kept(r.pc, r.file, i \o <<u>>)
    <3> HIDE DEF p, i, o, s
    <3> QED
      BY <1>2, <1>3, AskedExact
  <2> QED
    BY <2>1, <2>2
<1>4. ASSUME NEW pc, pc \notin {"ack", "send"}, p \notin {"ack", "send"}, CRead(c, pc)
      PROVE  Kept(cl'[c].pc, cl'[c].file, chan'[c].in["s"])
  <2>1. /\ o # <<>> /\ chan'[c].in["s"] = i /\ cl'[c].pc = pc
        /\ cl'[c].file = cl[c].file
    BY <1>4, ReadStays
  <2>2. Kept(pc, cl[c].file, i)
    <3> HIDE DEF p, i, o, s
    <3> QED
      BY <1>2, <1>4, <2>1, AnsweredExact
  <2> QED
    BY <2>1, <2>2
<1>5. CASE Connect(c)
  BY <1>2, <1>5 DEF Connect, CAt, Paired, Greeting, Asked, Echoing, Announcing, Sending
<1>6. CASE Hello(c)
  <2>1. CASE CAt(c, "hello") /\ CWrite(c, <<Plain("hello")>>, [cl[c] EXCEPT !.pc = "hi"])
    <3>1. Plain("hello") \in Unit /\ Plain("hello").t # "data"
      BY UnitsAre
    <3>2. [cl[c] EXCEPT !.pc = "hi"].pc = "hi"
      BY <1>2 DEF Client
    <3> QED
      BY <1>3, <2>1, <3>1, <3>2 DEF CAt
  <2>2. CASE CAt(c, "hi") /\ CRead(c, "prompt")
    BY <1>4, <2>2 DEF CAt
  <2> QED
    BY <1>6, <2>1, <2>2 DEF Hello
<1>7. CASE Line(c)
  <2>1. CASE CAt(c, "prompt") /\ CWrite(c, <<Plain("EchoReq")>>,
                                        [cl[c] EXCEPT !.pc = "text", !.left = @ - 1])
    <3>1. Plain("EchoReq") \in Unit /\ Plain("EchoReq").t # "data"
      BY UnitsAre
    <3>2. [cl[c] EXCEPT !.pc = "text", !.left = @ - 1].pc = "text"
      BY <1>2 DEF Client
    <3> QED
      BY <1>3, <2>1, <3>1, <3>2 DEF CAt
  <2>2. CASE CAt(c, "text") /\ CWrite(c, <<Plain("text")>>, [cl[c] EXCEPT !.pc = "rep"])
    <3>1. Plain("text") \in Unit /\ Plain("text").t # "data"
      BY UnitsAre
    <3>2. [cl[c] EXCEPT !.pc = "rep"].pc = "rep"
      BY <1>2 DEF Client
    <3> QED
      BY <1>3, <2>2, <3>1, <3>2 DEF CAt
  <2>3. CASE CAt(c, "rep") /\ CRead(c, "echoed")
    BY <1>4, <2>3 DEF CAt
  <2>4. CASE CAt(c, "echoed") /\ CRead(c, "prompt")
    BY <1>4, <2>4 DEF CAt
  <2> QED
    BY <1>7, <2>1, <2>2, <2>3, <2>4 DEF Line
<1>8. CASE Upload(c)
  <2>1. ASSUME NEW n \in Sizes, CAt(c, "prompt"),
               CWrite(c, <<Plain("FileUpReq")>>,
                      [cl[c] EXCEPT !.pc = "name", !.file = n, !.left = @ - 1])
        PROVE  Kept(cl'[c].pc, cl'[c].file, chan'[c].in["s"])
    <3>1. Plain("FileUpReq") \in Unit /\ Plain("FileUpReq").t # "data"
      BY UnitsAre
    <3>2. [cl[c] EXCEPT !.pc = "name", !.file = n, !.left = @ - 1].pc = "name"
      BY <1>2 DEF Client
    <3> QED
      BY <1>3, <2>1, <3>1, <3>2 DEF CAt
  <2>2. CASE CAt(c, "name") /\ CWrite(c, <<Plain("name")>>, [cl[c] EXCEPT !.pc = "size"])
    <3>1. Plain("name") \in Unit /\ Plain("name").t # "data"
      BY UnitsAre
    <3>2. [cl[c] EXCEPT !.pc = "size"].pc = "size"
      BY <1>2 DEF Client
    <3> QED
      BY <1>3, <2>2, <3>1, <3>2 DEF CAt
  <2>3. CASE CAt(c, "size") /\ CWrite(c, <<[t |-> "size", n |-> cl[c].file]>>,
                                      [cl[c] EXCEPT !.pc = "ack"])
    <3> DEFINE u == [t |-> "size", n |-> cl[c].file]
               r == [cl[c] EXCEPT !.pc = "ack"]
    <3>1. u \in Unit /\ u.t # "data" /\ u.n = cl[c].file
      BY <1>2, UnitsAre
    <3>2. r.pc = "ack" /\ r.file = cl[c].file
      BY <1>2 DEF Client
    <3>3. CWrite(c, <<u>>, r)
      BY <2>3
    <3> HIDE DEF u, r
    <3> QED
      BY <1>3, <2>3, <3>1, <3>2, <3>3 DEF CAt
  <2>4. CASE /\ CAt(c, "ack") /\ out(c) # <<>>
             /\ chan' = [chan EXCEPT ![c] = Taken(@, "c", 1)]
             /\ cl' = [cl EXCEPT ![c].pc = "send", ![c].acked = TRUE]
    <3>1. cl'[c].pc = "send" /\ cl'[c].file = cl[c].file
      BY <1>2, <2>4, Types DEF Client
    <3>2. chan'[c].in["s"] = i
      BY <2>4, TakenStays
    <3>3. p = "ack" /\ o # <<>>
      BY <2>4 DEF CAt, out
    <3>4. Kept("send", cl[c].file, i)
      <4> HIDE DEF p, i, o, s
      <4> QED
        BY <1>2, <3>3, AnsweredExact
    <3> QED
      BY <3>1, <3>2, <3>4
  <2>5. CASE AtEnd(chan[c], "c") \/ Failed(chan[c], "c")
    BY <1>2, <2>5 DEF AtEnd, Failed, Peer
  <2>6. CASE /\ CAt(c, "send")
             /\ CWrite(c, IF cl[c].file = 0 THEN <<>>
                          ELSE <<[t |-> "data", n |-> cl[c].file]>>,
                       [cl[c] EXCEPT !.pc = "prompt"])
    <3> DEFINE u == [t |-> "data", n |-> cl[c].file]
               us == IF cl[c].file = 0 THEN <<>> ELSE <<u>>
               r == [cl[c] EXCEPT !.pc = "prompt"]
    <3>1. u \in Unit
      BY <1>2, UnitsAre
    <3>2. r.pc = "prompt" /\ r.file = cl[c].file
      BY <1>2 DEF Client
    <3>3. CWrite(c, us, r) /\ p = "send"
      BY <2>6 DEF CAt
    <3>4. us = <<>> \/ \E v \in Unit : us = <<v>>
      BY <3>1
    <3>5. i = <<>>
      BY <1>2, <3>3, Points
    <3>6. Kept("prompt", cl[c].file, us)
      <4>1. Paired("send", s, i, o, srv.lost) /\ Kept("send", cl[c].file, i)
        BY <1>2, <3>3
      <4> HIDE DEF p, i, o, s
      <4> QED
        BY <1>2, <4>1, SentExact
    <3> HIDE DEF us, u, r
    <3>7. /\ cl'[c] = r
          /\ us = <<>> => chan'[c].in["s"] = i
          /\ us # <<>> => chan'[c].in["s"] = i \o us
      BY <3>3, <3>4, WriteStays
    <3>8. chan'[c].in["s"] = us
      <4>1. ASSUME us # <<>> PROVE us \in Seq(Unit)
        <5>1. PICK v \in Unit : us = <<v>>
          BY <3>4, <4>1
        <5> QED
          BY ONLY <5>1, v \in Unit
      <4>2. us # <<>> => <<>> \o us = us
        BY <4>1
      <4> QED
        BY <3>5, <3>7, <4>2
    <3> QED
      BY <3>2, <3>6, <3>7, <3>8
  <2> QED
    BY <1>8, <2>1, <2>2, <2>3, <2>4, <2>5, <2>6 DEF Upload
<1>9. CASE Leave(c)
  <2>1. CASE CAt(c, "prompt") /\ CWrite(c, <<Plain("quit")>>, [cl[c] EXCEPT !.pc = "bye"])
    <3>1. Plain("quit") \in Unit /\ Plain("quit").t # "data"
      BY UnitsAre
    <3>2. [cl[c] EXCEPT !.pc = "bye"].pc = "bye"
      BY <1>2 DEF Client
    <3> QED
      BY <1>3, <2>1, <3>1, <3>2 DEF CAt
  <2>2. ~ Close(c, "exit")
    BY Types DEF Close, CGoto, Running, Client
  <2> QED
    BY <1>9, <2>1, <2>2 DEF Leave
<1> QED
  BY <1>5, <1>6, <1>7, <1>8, <1>9 DEF Use

(* A client leaves in order only from the point where the quit is sent.      *)
LEMMA UseGone ==
    ASSUME IInv, SizeInv, NEW c \in Clients, Use(c) \/ Crash(c)
    PROVE  GoneOne(c)'
<1> DEFINE i == chan[c].in["s"]
<1>1. srv' = srv /\ Running(c)
  BY OwnOnly
<1> SUFFICES ASSUME cl'[c].pc = "exit", ~ SAt("dead")
             PROVE  /\ ~ Queued(c)'
                    /\ srv.con = c /\ ~ srv.lost =>
                         chan'[c].end["c"] = "fin" /\ QuitLeft(srv.pc, chan'[c].in["s"])
  BY <1>1 DEF GoneOne, SAt
<1>2. cl \in [Clients -> Client] /\ cl[c] \in Client /\ cl[c].pc # "exit"
  BY <1>1, Types DEF Running
<1>5. ~ Close(c, "dead")
  BY <1>2 DEF Close, CGoto, Client
<1>3. \A us, r : r.pc # "exit" => ~ CWrite(c, us, r)
  BY <1>2, <1>5 DEF CWrite
<1>4. \A pc : pc # "exit" => ~ CRead(c, pc)
  BY <1>2, <1>5 DEF CRead, CGoto, Client
<1>6. ~ Connect(c) /\ ~ Crash(c)
  BY <1>2 DEF Connect, Crash, Close, CGoto, Client
<1>7. ~ Hello(c)
  <2>1. [cl[c] EXCEPT !.pc = "hi"].pc = "hi"
    BY <1>2 DEF Client
  <2> QED
    BY <1>3, <1>4, <1>5, <2>1 DEF Hello
<1>8. ~ Line(c)
  <2>1. /\ [cl[c] EXCEPT !.pc = "text", !.left = @ - 1].pc = "text"
        /\ [cl[c] EXCEPT !.pc = "rep"].pc = "rep"
    BY <1>2 DEF Client
  <2> QED
    BY <1>3, <1>4, <1>5, <2>1 DEF Line
<1>9. ~ Upload(c)
  <2>1. /\ \A n : [cl[c] EXCEPT !.pc = "name", !.file = n, !.left = @ - 1].pc = "name"
        /\ [cl[c] EXCEPT !.pc = "size"].pc = "size"
        /\ [cl[c] EXCEPT !.pc = "ack"].pc = "ack"
        /\ [cl[c] EXCEPT !.pc = "prompt"].pc = "prompt"
    BY <1>2 DEF Client
  <2>2. cl' # [cl EXCEPT ![c].pc = "send", ![c].acked = TRUE]
    BY <1>2 DEF Client
  <2>3. ~ CGoto(c, IF cl[c].acked THEN "send" ELSE "prompt")
    BY <1>2 DEF CGoto, Client
  <2> QED
    BY <1>3, <1>5, <2>1, <2>2, <2>3 DEF Upload
<1>10. CAt(c, "bye") /\ Close(c, "exit")
  <2>1. [cl[c] EXCEPT !.pc = "bye"].pc = "bye"
    BY <1>2 DEF Client
  <2> QED
    BY <1>3, <1>5, <1>6, <1>7, <1>8, <1>9, <2>1 DEF Use, Leave
<1>11. queue' = queue
  BY <1>6 DEF Use
<1>12. ~ Queued(c) /\ ~ Queued(c)'
  BY <1>1, <1>10, <1>11 DEF IInv, OneClient, Stage, Coming, Waiting, Served, Left, CAt, Queued
<1> SUFFICES ASSUME srv.con = c, ~ srv.lost
             PROVE  chan'[c].end["c"] = "fin" /\ QuitLeft(srv.pc, chan'[c].in["s"])
  BY <1>12
<1>13. Paired("bye", srv.pc, i, chan[c].in["c"], srv.lost) /\ i \in Seq(Unit)
  BY <1>1, <1>10, ExactPaired, ConnTypes DEF SizeInv, CAt
<1>14. /\ chan[c].in["c"] = <<>>
       /\ QuitLeft(srv.pc, i)
  BY <1>13 DEF Paired, Greeting, Asked, Echoing, Announcing, Sending, QuitLeft
<1>15. PICK how \in Hows : chan' = [chan EXCEPT ![c] = Closed(@, "c", how)]
  BY <1>10 DEF Close
<1>16. /\ chan'[c] = [chan[c] EXCEPT !.end["c"] = "fin", !.in["c"] = <<>>]
  BY <1>14, <1>15, Types DEF Closed
<1>17. chan'[c].end["c"] = "fin" /\ chan'[c].in["s"] = i
  BY <1>16, ConnTypes DEF Connection, Sides
<1> QED
  BY <1>14, <1>17

(* Every step keeps both.                                                    *)
LEMMA StepSize == IInv /\ SizeInv /\ [Next]_vars => SizeInv'
<1> SUFFICES ASSUME IInv, SizeInv, [Next]_vars PROVE SizeInv'
  OBVIOUS
<1>1. CASE Serve
  BY <1>1, ServeOther, ServeSized, ServeGone DEF SizeInv
<1>2. ASSUME NEW c \in Clients, Use(c) \/ Crash(c) PROVE SizeInv'
  <2>1. OtherRequest'
    BY <1>2, OwnOnly DEF SizeInv, OtherRequest
  <2>2. ASSUME NEW d \in Clients \ {c} PROVE SizedOne(d)' /\ GoneOne(d)'
    <3>1. /\ srv' = srv /\ chan'[d] = chan[d] /\ cl'[d] = cl[d]
          /\ Queued(d)' => Queued(d)
      BY <1>2, OwnOnly
    <3>2. SizedOne(d)'
      BY <3>1 DEF SizeInv, SizedOne, Running, SAt
    <3>3. GoneOne(d)'
      BY <3>1 DEF SizeInv, GoneOne, SAt
    <3> QED
      BY <3>2, <3>3
  <2>3. SizedOne(c)'
    <3>1. CASE Crash(c)
      <4>1. ~ Running(c)'
        BY <3>1, Types DEF Crash, Close, CGoto, Running, Client
      <4> QED
        BY <4>1 DEF SizedOne
    <3> QED
      BY <1>2, <3>1, UseSized
  <2>4. GoneOne(c)'
    BY <1>2, UseGone
  <2> QED
    BY <2>1, <2>2, <2>3, <2>4 DEF SizeInv
<1>3. CASE UNCHANGED vars
  BY <1>3 DEF vars, SizeInv, OtherRequest, SizedOne, GoneOne, Running, SAt, Queued
<1> QED
  BY <1>1, <1>2, <1>3 DEF Next

(* So they always hold.                                                      *)
LEMMA SizeInvariance == Spec => [](IInv /\ SizeInv)
<1>1. Init => SizeInv
  <2>1. Init => /\ srv.pc = "accept" /\ srv.msgType = "none" /\ srv.con = NoClient
                /\ \A c \in Clients : cl[c].pc = "connect"
    BY DEF Init
  <2> QED
    BY <2>1, UploadAssumption DEF SizeInv, OtherRequest, SizedOne, GoneOne
<1> QED
  BY <1>1, InitInv, StepInv, StepSize, PTL DEF Spec

(* A file the server is done with is as long as announced, unless a request  *)
(* was read with its contents or its client has gone: pieces never add up to *)
(* the end of the loop, although each of them writes the whole length.       *)
THEOREM StoredWhole == Spec => []StoredExact
<1>1. IInv /\ SizeInv => StoredExact
  <2> SUFFICES ASSUME IInv, SizeInv, SAt("header"), srv.msgType = "FileUpReq", ~ srv.lost,
                      Running(srv.con)
               PROVE  srv.stored = srv.size
    BY DEF StoredExact
  <2>1. srv.con \in Clients /\ ~ SAt("dead")
    BY DEF IInv, AtWork, SAt
  <2> QED
    BY <2>1 DEF SizeInv, SizedOne, Exact, SAt
<1> QED
  BY <1>1, SizeInvariance, PTL

(* No client that is there ends the server, nor one that has left in order,  *)
(* unless its quit was read as part of a file.                               *)
THEOREM DeathsByClients == Spec => DeathsExplained
<1>1. ASSUME IInv, SizeInv, [Next]_vars, SAt("dead")', ~ SAt("dead")
      PROVE  CAt(srv.con, "dead") \/ (CAt(srv.con, "exit") /\ srv.lost)
  <2>1. Serve
    <3>1. \A c \in Clients : ~ Use(c) /\ ~ Crash(c)
      BY <1>1, OwnOnly DEF SAt
    <3>2. ~ UNCHANGED vars
      BY <1>1 DEF vars, SAt
    <3> QED
      BY <1>1, <3>1, <3>2 DEF Next
  <2>2. /\ srv.pc \notin {"accept", "quit", "data", "dead"} /\ srv.con \in Clients
        /\ AtEnd(ch, "s") \/ Failed(ch, "s") \/ Broken(ch, "s")
        /\ srv.pc = "header" => Failed(ch, "s")
    BY <1>1, <2>1, DiesAtEnd DEF SAt
  <2>3. ~ Running(srv.con)
    BY <1>1, <2>1, ServedLives DEF SAt
  <2>4. ASSUME CAt(srv.con, "exit"), ~ srv.lost PROVE FALSE
    <3>1. chan[srv.con].end["c"] = "fin" /\ QuitLeft(srv.pc, chan[srv.con].in["s"])
      BY <1>1, <2>2, <2>4 DEF SizeInv, GoneOne, CAt
    <3>2. srv.pc = "header"
      BY <2>2, <3>1 DEF QuitLeft
    <3> QED
      BY <2>2, <3>1, <3>2 DEF Failed, ch, Peer
  <2> QED
    BY <2>3, <2>4 DEF Running, CAt
<1> QED
  BY <1>1, SizeInvariance, PTL DEF Spec, DeathsExplained
=============================================================================
