----------------------------- MODULE EchoTcpProofs -----------------------------
(* What EchoTcp.tla promises for any number of clients, any length of words   *)
(* and any size of the buffer: types, that the servers of src and src01 keep  *)
(* one connection open, that every byte and its order is kept, that the logs  *)
(* are what was received, when server and client wait for each other, and     *)
(* which clients end a server.                                                *)
EXTENDS EchoTcp, StreamProofs

(* The inductive invariant adds to these that a server that is not between    *)
(* two clients has one, and that in src and src01 it never sends an empty     *)
(* piece: what would take it back to accept without a close.                  *)
HasClient == srv.pc \notin {"accept", "dead"} => srv.con \in Clients
NeverEmpty == ~ Greets /\ SAt("send") => srv.piece # <<>>
IInv == TypeOK /\ HasClient /\ NeverEmpty /\ OnlyOneOpen

-----------------------------------------------------------------------------
(* How the connections of the clients with a server's side change: they stay  *)
(* connections, and none whose server's side is closed is opened.             *)
Chans == [Clients -> Connection(Nat)]
NoneOpened ==
    /\ chan' \in Chans
    /\ \A c \in Clients : chan'[c].end["s"] = "open" => chan[c].end["s"] = "open"

(* The type of the connections in EchoTcp.tla.                              *)
LEMMA ChansType == TypeOK => chan \in Chans
BY DEF TypeOK, Chans, Connection

(* One connection is replaced.                                              *)
LEMMA OneChanged ==
    ASSUME chan \in Chans, NEW c, NEW v,
           c \in Clients => /\ v \in Connection(Nat)
                            /\ v.end["s"] = "open" => chan[c].end["s"] = "open",
           chan' = [chan EXCEPT ![c] = v]
    PROVE  NoneOpened
BY DEF NoneOpened, Chans

(* A send on a connection,                                                  *)
LEMMA SendOpensNone ==
    ASSUME chan \in Chans, NEW c, NEW s \in Sides, NEW ms \in Seq(Nat),
           chan' = [chan EXCEPT ![c] = IF ms = <<>> THEN @ ELSE Sent(@, s, ms)]
    PROVE  NoneOpened
<1> DEFINE v == IF ms = <<>> THEN chan[c] ELSE Sent(chan[c], s, ms)
<1>1. ASSUME c \in Clients
      PROVE  /\ v \in Connection(Nat)
             /\ v.end["s"] = "open" => chan[c].end["s"] = "open"
  <2>1. chan[c] \in Connection(Nat) /\ "s" \in Sides
    BY <1>1 DEF Chans, Sides
  <2>2. /\ Sent(chan[c], s, ms) \in Connection(Nat)
        /\ \A r \in Sides :
             Sent(chan[c], s, ms).end[r] = "open" <=> chan[c].end[r] = "open"
    BY <2>1, SentConn
  <2> QED
    BY <2>1, <2>2
<1>2. chan' = [chan EXCEPT ![c] = v]
  OBVIOUS
<1> HIDE DEF v
<1> QED
  BY <1>1, <1>2, OneChanged

(* a receive,                                                               *)
LEMMA TakeOpensNone ==
    ASSUME chan \in Chans, NEW c, NEW s \in Sides, NEW j \in Nat,
           chan' = [chan EXCEPT ![c] = Taken(@, s, j)]
    PROVE  NoneOpened
<1> DEFINE v == Taken(chan[c], s, j)
<1>1. ASSUME c \in Clients
      PROVE  /\ v \in Connection(Nat)
             /\ v.end["s"] = "open" => chan[c].end["s"] = "open"
  <2>1. chan[c] \in Connection(Nat)
    BY <1>1 DEF Chans
  <2>2. v \in Connection(Nat) /\ v.end = chan[c].end
    BY <2>1, TakenConn
  <2> QED
    BY <2>1, <2>2
<1>2. chan' = [chan EXCEPT ![c] = v]
  OBVIOUS
<1> HIDE DEF v
<1> QED
  BY <1>1, <1>2, OneChanged

(* a close,                                                                 *)
LEMMA CloseOpensNone ==
    ASSUME chan \in Chans, NEW c, NEW s \in Sides, NEW how \in Hows,
           chan' = [chan EXCEPT ![c] = Closed(@, s, how)]
    PROVE  /\ NoneOpened
           /\ s = "s" /\ c \in Clients => chan'[c].end["s"] # "open"
<1> DEFINE v == Closed(chan[c], s, how)
<1>1. ASSUME c \in Clients
      PROVE  /\ v \in Connection(Nat)
             /\ v.end["s"] = "open" => chan[c].end["s"] = "open"
             /\ s = "s" => v.end["s"] # "open"
  <2>1. chan[c] \in Connection(Nat) /\ "s" \in Sides
    BY <1>1 DEF Chans, Sides
  <2>2. /\ v \in Connection(Nat)
        /\ v.end[s] # "open"
        /\ \A r \in Sides \ {s} : v.end[r] = chan[c].end[r]
    BY <2>1, ClosedConn
  <2> QED
    BY <2>1, <2>2
<1>2. chan' = [chan EXCEPT ![c] = v]
  OBVIOUS
<1>3. c \in Clients => chan'[c] = v
  BY <1>2 DEF Chans
<1> HIDE DEF v
<1> QED
  BY <1>1, <1>2, <1>3, OneChanged

(* and no change at all do so.                                              *)
LEMMA SameOpensNone ==
    ASSUME chan \in Chans, UNCHANGED chan
    PROVE  NoneOpened
BY DEF NoneOpened

-----------------------------------------------------------------------------
(* The server.  A step within the service of one client keeps the others     *)
(* as they are.                                                              *)
LEMMA WithinKeeps ==
    ASSUME IInv, NoneOpened, UNCHANGED <<version, queue, cl>>,
           NEW s \in Server, srv' = s, Len(s.piece) <= BufSize,
           s.con = srv.con, srv.pc \notin {"accept", "dead"}, s.pc # "accept",
           ~ Greets /\ s.pc = "send" => s.piece # <<>>,
           log' \in [Clients -> Seq(Nat)]
    PROVE  IInv'
<1>1. TypeOK'
  BY DEF IInv, TypeOK, NoneOpened, Chans, Connection
<1>2. HasClient'
  BY DEF IInv, HasClient
<1>3. NeverEmpty'
  BY DEF NeverEmpty, Greets, SAt
<1>4. OnlyOneOpen'
  <2> SUFFICES ASSUME ~ Greets, NEW c \in Clients, chan'[c].end["s"] = "open"
               PROVE  (\/ CAt(c, "connect") \/ (c = srv.con /\ ~ SAt("accept"))
                       \/ \E i \in 1..Len(queue) : queue[i] = c)'
    BY DEF OnlyOneOpen, Greets
  <2>1. chan[c].end["s"] = "open" /\ ~ SAt("dead")
    BY DEF NoneOpened, SAt
  <2>2. \/ CAt(c, "connect") \/ (c = srv.con /\ ~ SAt("accept"))
        \/ \E i \in 1..Len(queue) : queue[i] = c
    BY <2>1 DEF IInv, OnlyOneOpen
  <2> QED
    BY <2>2 DEF CAt, SAt
<1> QED
  BY <1>1, <1>2, <1>3, <1>4 DEF IInv

(* The end of the server closes and refuses connections.                     *)
LEMMA DieKeeps ==
    ASSUME IInv, Die, UNCHANGED <<version, cl, log>>
    PROVE  IInv'
<1>1. PICK how \in Hows : chan' = [c \in Clients |->
         IF cl[c].pc = "connect" \/ chan[c].end["s"] # "open" THEN chan[c]
         ELSE IF \E i \in 1..Len(queue) : queue[i] = c THEN Refused(chan[c])
         ELSE Closed(chan[c], "s", how)]
  BY DEF Die
<1>2. chan' \in Chans
  <2> SUFFICES ASSUME NEW c \in Clients
               PROVE  /\ chan[c] \in Connection(Nat)
                      /\ Refused(chan[c]) \in Connection(Nat)
                      /\ Closed(chan[c], "s", how) \in Connection(Nat)
    BY <1>1 DEF Chans
  <2>1. chan[c] \in Connection(Nat) /\ "s" \in Sides
    BY ChansType DEF IInv, Chans, Sides
  <2> QED
    BY <2>1, RefusedConn, ClosedConn
<1>3. srv' = [srv EXCEPT !.pc = "dead"] /\ queue' = <<>>
  BY DEF Die, SGoto
<1>4. srv' \in Server /\ srv'.pc = "dead" /\ srv'.piece = srv.piece
  BY <1>3 DEF IInv, TypeOK, Server
<1>5. TypeOK'
  BY <1>2, <1>3, <1>4 DEF IInv, TypeOK, Chans, Connection
<1> QED
  BY <1>4, <1>5 DEF IInv, HasClient, NeverEmpty, OnlyOneOpen, SAt

(* A write moves the server on or is its end.                                *)
LEMMA WriteKeeps ==
    ASSUME IInv, NEW bytes \in Seq(Nat), NEW pc \in {"recv", "accept"},
           srv.pc \notin {"accept", "dead"}, pc = "accept" => Greets,
           Write(bytes, pc), UNCHANGED <<version, cl, log>>
    PROVE  IInv'
<1>1. CASE Broken(ch, "s") /\ Die
  BY <1>1, DieKeeps
<1>2. CASE /\ chan' = [chan EXCEPT ![srv.con] = IF bytes = <<>> THEN @
                                            ELSE Sent(@, "s", bytes)]
           /\ SGoto(pc)
           /\ UNCHANGED queue
  <2>1. NoneOpened
    BY <1>2, ChansType, SendOpensNone DEF IInv, Sides
  <2> DEFINE s == [srv EXCEPT !.pc = pc]
  <2>2. /\ s \in Server /\ Len(s.piece) <= BufSize
        /\ s.con = srv.con /\ s.pc = pc /\ srv' = s
    BY <1>2 DEF IInv, TypeOK, Server, SGoto
  <2> HIDE DEF s
  <2>3. log' \in [Clients -> Seq(Nat)]
    BY DEF IInv, TypeOK
  <2>4. CASE pc = "recv"
    BY <1>2, <2>1, <2>2, <2>3, <2>4, WithinKeeps
  <2>5. CASE pc = "accept"
    <3>1. TypeOK'
      BY <1>2, <2>1, <2>2, <2>3 DEF IInv, TypeOK, NoneOpened, Chans, Connection
    <3> QED
      BY <2>2, <2>5, <3>1
      DEF IInv, HasClient, NeverEmpty, OnlyOneOpen, SAt, Greets
  <2> QED
    BY <2>4, <2>5
<1> QED
  BY <1>1, <1>2 DEF Write

LEMMA AcceptKeeps ==
    ASSUME IInv, Accept, UNCHANGED <<version, cl>>
    PROVE  IInv'
<1>1. SAt("accept") /\ queue \in Seq(Clients) /\ queue # <<>>
  BY DEF Accept, IInv, TypeOK
<1>2. /\ Head(queue) \in Clients /\ Head(queue) = queue[1]
      /\ Tail(queue) \in Seq(Clients)
      /\ \A i \in 2..Len(queue) : i - 1 \in 1..Len(Tail(queue))
                                  /\ Tail(queue)[i - 1] = queue[i]
  BY <1>1
<1>3. /\ srv' \in Server /\ srv'.pc \in {"hello", "first"}
      /\ srv'.con = Head(queue) /\ srv'.piece = srv.piece
  BY <1>1, <1>2 DEF Accept, IInv, TypeOK, Server
<1>4. TypeOK'
  BY <1>2, <1>3 DEF Accept, IInv, TypeOK
<1>5. HasClient' /\ NeverEmpty'
  BY <1>2, <1>3 DEF HasClient, NeverEmpty, SAt
<1>6. OnlyOneOpen'
  <2> SUFFICES ASSUME ~ Greets, NEW c \in Clients, chan[c].end["s"] = "open"
               PROVE  (\/ CAt(c, "connect") \/ (c = srv.con /\ ~ SAt("accept"))
                       \/ \E i \in 1..Len(queue) : queue[i] = c)'
    BY DEF OnlyOneOpen, Greets, Accept
  <2>1. CAt(c, "connect") \/ \E i \in 1..Len(queue) : queue[i] = c
    BY <1>1 DEF IInv, OnlyOneOpen, SAt
  <2>2. CASE CAt(c, "connect")
    BY <2>2 DEF CAt
  <2>3. CASE \E i \in 1..Len(queue) : queue[i] = c
    <3>1. PICK i \in 1..Len(queue) : queue[i] = c
      BY <2>3
    <3>2. CASE i = 1
      BY <1>2, <1>3, <3>1, <3>2 DEF SAt
    <3>3. CASE i # 1
      <4>1. i \in 2..Len(queue)
        BY <1>1, <3>1, <3>3
      <4>2. i - 1 \in 1..Len(Tail(queue)) /\ Tail(queue)[i - 1] = c
        BY <1>2, <3>1, <4>1
      <4> QED
        BY <4>2 DEF Accept
    <3> QED
      BY <3>2, <3>3
  <2> QED
    BY <2>1, <2>2, <2>3
<1> QED
  BY <1>4, <1>5, <1>6 DEF IInv

LEMMA GreetKeeps ==
    ASSUME IInv, Greet, UNCHANGED <<version, cl>>
    PROVE  IInv'
<1>1. CASE /\ SAt("hello") /\ in # <<>>
           /\ chan' = [chan EXCEPT ![srv.con] = Taken(@, "s", 1)]
           /\ SGoto("hi") /\ UNCHANGED <<queue, log>>
  <2>1. NoneOpened
    BY <1>1, ChansType, TakeOpensNone DEF IInv, Sides
  <2> DEFINE s == [srv EXCEPT !.pc = "hi"]
  <2>2. /\ s \in Server /\ Len(s.piece) <= BufSize /\ srv' = s
        /\ s.con = srv.con /\ s.pc = "hi" /\ srv.pc = "hello"
    BY <1>1 DEF IInv, TypeOK, Server, SGoto, SAt
  <2> HIDE DEF s
  <2>3. log' \in [Clients -> Seq(Nat)]
    BY <1>1 DEF IInv, TypeOK
  <2> QED
    BY <1>1, <2>1, <2>2, <2>3, WithinKeeps
<1>2. CASE Die /\ UNCHANGED log
  BY <1>2, DieKeeps
<1>3. CASE SAt("hi") /\ Write(<<Greeting>>, "recv") /\ UNCHANGED log
  <2>1. <<Greeting>> \in Seq(Nat)
    BY DEF Greeting
  <2> QED
    BY <1>3, <2>1, WriteKeeps DEF SAt
<1> QED
  BY <1>1, <1>2, <1>3 DEF Greet

LEMMA RecvKeeps ==
    ASSUME IInv, Recv, UNCHANGED <<version, cl>>
    PROVE  IInv'
<1>1. /\ srv.pc \in {"first", "recv"} /\ srv.con \in Clients
      /\ chan \in Chans /\ log \in [Clients -> Seq(Nat)]
      /\ srv \in Server /\ BufSize \in Nat
  BY ChansType, EchoAssumption DEF IInv, HasClient, TypeOK, Recv, SAt
<1>2. CASE \E j \in Fits :
            /\ j <= Len(in)
            /\ chan' = [chan EXCEPT ![srv.con] = Taken(@, "s", j)]
            /\ srv' = [srv EXCEPT !.pc = "send", !.piece = Piece(j)]
            /\ log' = [log EXCEPT ![srv.con] = Logged(Piece(j))]
            /\ UNCHANGED queue
  <2>1. PICK j \in Fits :
            /\ j <= Len(in)
            /\ chan' = [chan EXCEPT ![srv.con] = Taken(@, "s", j)]
            /\ srv' = [srv EXCEPT !.pc = "send", !.piece = Piece(j)]
            /\ log' = [log EXCEPT ![srv.con] = Logged(Piece(j))]
            /\ UNCHANGED queue
    BY <1>2
  <2>2. j \in Nat /\ j \in 1..BufSize
    BY <1>1 DEF Fits
  <2>3. NoneOpened
    BY <1>1, <2>1, <2>2, TakeOpensNone DEF Sides
  <2>4. in \in Seq(Nat)
    BY <1>1 DEF in, ch, Chans, Connection, Sides
  <2>5. Piece(j) \in Seq(Nat) /\ Len(Piece(j)) = j
    BY <2>1, <2>2, <2>4 DEF Piece
  <2>6. Logged(Piece(j)) \in Seq(Nat)
    BY <1>1, <2>5 DEF Logged
  <2>7. log' \in [Clients -> Seq(Nat)]
    BY <1>1, <2>1, <2>6
  <2> DEFINE s == [srv EXCEPT !.pc = "send", !.piece = Piece(j)]
  <2>8. s \in Server /\ s.con = srv.con /\ s.pc = "send" /\ s.piece = Piece(j)
    BY <1>1, <2>5 DEF Server
  <2>9. Len(s.piece) <= BufSize /\ s.piece # <<>> /\ srv' = s
    BY <1>1, <2>1, <2>2, <2>5, <2>8
  <2> HIDE DEF s
  <2> QED
    BY <1>1, <2>1, <2>3, <2>7, <2>8, <2>9, WithinKeeps
<1>3. CASE /\ AtEnd(ch, "s")
           /\ srv' = [srv EXCEPT !.pc = IF Greets THEN "send" ELSE "close",
                                 !.piece = <<>>]
           /\ UNCHANGED <<queue, chan, log>>
  <2> DEFINE s == [srv EXCEPT !.pc = IF Greets THEN "send" ELSE "close",
                              !.piece = <<>>]
  <2>1. <<>> \in Seq(Nat) /\ Len(<<>>) <= BufSize
    BY <1>1
  <2>2. /\ s \in Server /\ s.con = srv.con /\ s.piece = <<>> /\ srv' = s
        /\ s.pc = IF Greets THEN "send" ELSE "close"
    BY <1>1, <1>3, <2>1 DEF Server
  <2>3. NoneOpened /\ log' \in [Clients -> Seq(Nat)]
    BY <1>1, <1>3, SameOpensNone
  <2> HIDE DEF s
  <2> QED
    BY <1>1, <1>3, <2>1, <2>2, <2>3, WithinKeeps
<1>4. CASE Failed(ch, "s") /\ Die /\ UNCHANGED log
  BY <1>4, DieKeeps
<1> QED
  BY <1>2, <1>3, <1>4 DEF Recv

LEMMA SendKeeps ==
    ASSUME IInv, Send, UNCHANGED <<version, cl>>
    PROVE  IInv'
<1>1. srv.pc = "send" /\ srv.piece \in Seq(Nat)
  BY DEF Send, SAt, IInv, TypeOK, Server
<1> DEFINE pc == IF srv.piece = <<>> THEN "accept" ELSE "recv"
<1>2. pc \in {"recv", "accept"} /\ (pc = "accept" => Greets)
  BY <1>1 DEF IInv, NeverEmpty, SAt
<1>3. Write(srv.piece, pc) /\ UNCHANGED log
  BY DEF Send
<1> HIDE DEF pc
<1> QED
  BY <1>1, <1>2, <1>3, WriteKeeps

LEMMA CloseKeeps ==
    ASSUME IInv, Close, UNCHANGED <<version, cl>>
    PROVE  IInv'
<1>1. PICK how \in Hows :
         chan' = [chan EXCEPT ![srv.con] = Closed(@, "s", how)]
  BY DEF Close
<1>2. srv.con \in Clients /\ SAt("close")
  BY DEF Close, IInv, HasClient, SAt
<1>3. NoneOpened /\ chan'[srv.con].end["s"] # "open"
  BY <1>1, <1>2, ChansType, CloseOpensNone DEF IInv, Sides
<1>4. srv' \in Server /\ srv'.pc = "accept" /\ srv'.piece = srv.piece
  BY DEF Close, SGoto, IInv, TypeOK, Server
<1>5. TypeOK'
  BY <1>3, <1>4 DEF Close, IInv, TypeOK, NoneOpened, Chans, Connection
<1>6. OnlyOneOpen'
  <2> SUFFICES ASSUME ~ Greets, NEW c \in Clients, chan'[c].end["s"] = "open"
               PROVE  (CAt(c, "connect") \/ \E i \in 1..Len(queue) : queue[i] = c)'
    BY DEF OnlyOneOpen, Greets
  <2>1. chan[c].end["s"] = "open" /\ c # srv.con
    BY <1>3 DEF NoneOpened
  <2>2. CAt(c, "connect") \/ \E i \in 1..Len(queue) : queue[i] = c
    BY <1>2, <2>1 DEF IInv, OnlyOneOpen, SAt
  <2> QED
    BY <2>2 DEF CAt, Close
<1> QED
  BY <1>4, <1>5, <1>6 DEF IInv, HasClient, NeverEmpty, SAt

-----------------------------------------------------------------------------
(* The clients.  What a client does after it has connected leaves the server  *)
(* and the queue alone.                                                       *)
LEMMA ClientKeeps ==
    ASSUME IInv, NoneOpened, NEW c \in Clients, NEW r \in Client,
           cl' = [cl EXCEPT ![c] = r], ~ CAt(c, "connect"),
           UNCHANGED <<version, srv, queue, log>>
    PROVE  IInv'
<1>1. TypeOK'
  BY DEF IInv, TypeOK, NoneOpened, Chans, Connection
<1>2. OnlyOneOpen'
  <2> SUFFICES ASSUME ~ Greets, ~ SAt("dead"), NEW d \in Clients,
                      chan'[d].end["s"] = "open"
               PROVE  (\/ CAt(d, "connect") \/ (d = srv.con /\ ~ SAt("accept"))
                       \/ \E i \in 1..Len(queue) : queue[i] = d)'
    BY DEF OnlyOneOpen, Greets, SAt
  <2>1. chan[d].end["s"] = "open"
    BY DEF NoneOpened
  <2>2. \/ CAt(d, "connect") \/ (d = srv.con /\ ~ SAt("accept"))
        \/ \E i \in 1..Len(queue) : queue[i] = d
    BY <2>1 DEF IInv, OnlyOneOpen
  <2>3. CAt(d, "connect") => cl'[d] = cl[d]
    BY DEF IInv, TypeOK
  <2> QED
    BY <2>2, <2>3 DEF CAt, SAt
<1> QED
  BY <1>1, <1>2 DEF IInv, HasClient, NeverEmpty, Greets, SAt

(* A client closes.                                                           *)
LEMMA CCloseKeeps ==
    ASSUME IInv, NEW c \in Clients, NEW pc \in {"exit", "dead"}, CClose(c, pc),
           ~ CAt(c, "connect"), UNCHANGED <<version, srv, queue, log>>
    PROVE  IInv'
<1>1. PICK how \in Hows : chan' = [chan EXCEPT ![c] = Closed(@, "c", how)]
  BY DEF CClose
<1>2. NoneOpened
  BY <1>1, ChansType, CloseOpensNone DEF IInv, Sides
<1> DEFINE r == [cl[c] EXCEPT !.pc = pc]
<1>3. r \in Client
  BY DEF IInv, TypeOK, Client
<1>4. cl' = [cl EXCEPT ![c] = r]
  BY DEF CClose
<1> HIDE DEF r
<1> QED
  BY <1>2, <1>3, <1>4, ClientKeeps

LEMMA CSendKeeps ==
    ASSUME IInv, NEW c \in Clients, NEW bytes \in Seq(Nat), NEW next \in Client,
           CSend(c, bytes, next),
           ~ CAt(c, "connect"), UNCHANGED <<version, srv, queue, log>>
    PROVE  IInv'
<1>1. CASE CClose(c, "dead")
  BY <1>1, CCloseKeeps
<1>2. CASE /\ chan' = [chan EXCEPT ![c] = IF bytes = <<>> THEN @
                                          ELSE Sent(@, "c", bytes)]
           /\ cl' = [cl EXCEPT ![c] = next]
  <2>1. NoneOpened
    BY <1>2, ChansType, SendOpensNone DEF IInv, Sides
  <2> QED
    BY <1>2, <2>1, ClientKeeps
<1> QED
  BY <1>1, <1>2 DEF CSend

LEMMA ConnectKeeps ==
    ASSUME IInv, NEW c \in Clients, Connect(c), UNCHANGED <<version, srv, log>>
    PROVE  IInv'
<1>1. PICK pc \in {"dead", "hello", "prompt"} : cl' = [cl EXCEPT ![c].pc = pc]
  BY DEF Connect
<1>2. cl' \in [Clients -> Client] /\ \A d \in Clients \ {c} : cl'[d] = cl[d]
  BY <1>1 DEF IInv, TypeOK, Client
<1>3. CASE SAt("dead")
  BY <1>2, <1>3
  DEF Connect, IInv, TypeOK, HasClient, NeverEmpty, OnlyOneOpen, SAt, Greets
<1>4. CASE ~ SAt("dead")
  <2>1. queue \in Seq(Clients) /\ queue' = Append(queue, c)
    BY <1>4 DEF Connect, IInv, TypeOK
  <2>2. /\ queue' \in Seq(Clients) /\ Len(queue') = Len(queue) + 1
        /\ queue'[Len(queue) + 1] = c
        /\ \A i \in 1..Len(queue) : i \in 1..Len(queue') /\ queue'[i] = queue[i]
        /\ Len(queue) + 1 \in 1..Len(queue')
    BY <2>1
  <2>3. TypeOK'
    BY <1>2, <2>2 DEF Connect, IInv, TypeOK
  <2>4. OnlyOneOpen'
    <3> SUFFICES ASSUME ~ Greets, NEW d \in Clients, chan[d].end["s"] = "open"
                 PROVE  (\/ CAt(d, "connect") \/ (d = srv.con /\ ~ SAt("accept"))
                         \/ \E i \in 1..Len(queue) : queue[i] = d)'
      BY DEF OnlyOneOpen, Greets, Connect
    <3>1. \/ CAt(d, "connect") \/ (d = srv.con /\ ~ SAt("accept"))
          \/ \E i \in 1..Len(queue) : queue[i] = d
      BY <1>4 DEF IInv, OnlyOneOpen
    <3>2. CASE d = c
      BY <2>2, <3>2
    <3>3. CASE d # c
      BY <1>2, <2>2, <3>1, <3>3 DEF CAt, SAt
    <3> QED
      BY <3>2, <3>3
  <2> QED
    BY <2>3, <2>4 DEF IInv, HasClient, NeverEmpty, Greets, SAt
<1> QED
  BY <1>3, <1>4

LEMMA HelloKeeps ==
    ASSUME IInv, NEW c \in Clients, Hello(c), UNCHANGED <<version, srv, queue, log>>
    PROVE  IInv'
<1>a. cl[c] \in Client /\ cl \in [Clients -> Client]
  BY DEF IInv, TypeOK
<1>b. ~ CAt(c, "connect")
  BY DEF Hello, CAt
<1>1. CASE CSend(c, <<Greeting>>, [cl[c] EXCEPT !.pc = "hi"])
  <2> DEFINE next == [cl[c] EXCEPT !.pc = "hi"]
  <2>1. next \in Client /\ <<Greeting>> \in Seq(Nat)
    BY <1>a DEF Client, Greeting
  <2>2. CSend(c, <<Greeting>>, next)
    BY <1>1
  <2> HIDE DEF next
  <2> QED
    BY <1>b, <2>1, <2>2, CSendKeeps
<1>2. CASE CClose(c, "dead")
  BY <1>b, <1>2, CCloseKeeps
<1>3. CASE /\ \/ chan' = [chan EXCEPT ![c] = Taken(@, "c", 1)]
              \/ UNCHANGED chan
           /\ cl' = [cl EXCEPT ![c].pc = "prompt"]
  <2>1. chan \in Chans
    BY ChansType DEF IInv
  <2>2. NoneOpened
    BY <1>3, <2>1, TakeOpensNone, SameOpensNone DEF Sides
  <2> DEFINE r == [cl[c] EXCEPT !.pc = "prompt"]
  <2>3. r \in Client
    BY <1>a DEF Client
  <2>4. cl' = [cl EXCEPT ![c] = r]
    BY <1>3
  <2> HIDE DEF r
  <2> QED
    BY <1>b, <2>2, <2>3, <2>4, ClientKeeps
<1> QED
  BY <1>1, <1>2, <1>3 DEF Hello

LEMMA WordKeeps ==
    ASSUME IInv, NEW c \in Clients, Word(c), UNCHANGED <<version, srv, queue, log>>
    PROVE  IInv'
<1>1. PICK n \in Lengths :
        /\ CAt(c, "prompt") /\ cl[c].left > 0
        /\ CSend(c, [i \in 1..n |-> cl[c].sent + i],
                 [cl[c] EXCEPT !.pc = IF n = 0 THEN "close" ELSE "recv",
                               !.sent = @ + n,
                               !.left = IF Greets THEN @ - 1 ELSE 0])
  BY DEF Word
<1>2. cl[c] \in Client /\ n \in Nat /\ MaxWords \in Nat
  BY EchoAssumption DEF IInv, TypeOK
<1>3. cl[c].sent \in Nat /\ cl[c].left \in 0..MaxWords /\ cl[c].left > 0
  BY <1>1, <1>2 DEF Client
<1> DEFINE bytes == [i \in 1..n |-> cl[c].sent + i]
           pc == IF n = 0 THEN "close" ELSE "recv"
           left == IF Greets THEN cl[c].left - 1 ELSE 0
           next == [cl[c] EXCEPT !.pc = pc, !.sent = @ + n, !.left = left]
<1>4. bytes \in Seq(Nat)
  BY <1>2, <1>3
<1>5. left \in 0..MaxWords /\ cl[c].sent + n \in Nat /\ pc \in {"close", "recv"}
  BY <1>2, <1>3
<1>6. CSend(c, bytes, next)
  BY <1>1
<1> HIDE DEF pc, left, bytes
<1>7. next \in Client
  BY <1>2, <1>5 DEF Client
<1> HIDE DEF next
<1> QED
  BY <1>1, <1>4, <1>6, <1>7, CSendKeeps DEF CAt

LEMMA EchoedKeeps ==
    ASSUME IInv, NEW c \in Clients, Echoed(c), UNCHANGED <<version, srv, queue, log>>
    PROVE  IInv'
<1>1. ~ CAt(c, "connect")
  BY DEF Echoed, CAt
<1>2. CASE CClose(c, "dead")
  BY <1>1, <1>2, CCloseKeeps
<1>3. CASE \E j \in 1..BufSize - 1 :
            /\ chan' = [chan EXCEPT ![c] = Taken(@, "c", j)]
            /\ cl' = [cl EXCEPT ![c].pc = After(c, j), ![c].got = @ + j]
  <2>1. PICK j \in 1..BufSize - 1 :
            /\ chan' = [chan EXCEPT ![c] = Taken(@, "c", j)]
            /\ cl' = [cl EXCEPT ![c].pc = After(c, j), ![c].got = @ + j]
    BY <1>3
  <2>2. j \in Nat /\ chan \in Chans
    BY EchoAssumption, ChansType DEF IInv
  <2>3. NoneOpened
    BY <2>1, <2>2, TakeOpensNone DEF Sides
  <2>4. cl[c] \in Client /\ cl \in [Clients -> Client]
    BY DEF IInv, TypeOK
  <2> DEFINE pc == After(c, j)
  <2>5. pc \in {"recv", "prompt", "close"} /\ cl[c].got + j \in Nat
    BY <2>2, <2>4 DEF After, Client
  <2>6. cl' = [cl EXCEPT ![c].pc = pc, ![c].got = @ + j]
    BY <2>1
  <2> HIDE DEF pc
  <2> DEFINE r == [cl[c] EXCEPT !.pc = pc, !.got = @ + j]
  <2>7. r \in Client
    BY <2>4, <2>5 DEF Client
  <2>8. cl' = [cl EXCEPT ![c] = r]
    BY <2>4, <2>6
  <2> HIDE DEF r
  <2> QED
    BY <1>1, <2>3, <2>7, <2>8, ClientKeeps
<1> QED
  BY <1>2, <1>3 DEF Echoed

-----------------------------------------------------------------------------
LEMMA InitInv == Init => IInv
<1> SUFFICES ASSUME Init PROVE IInv
  OBVIOUS
<1> USE DEF Init
<1>1. srv \in Server /\ Len(srv.piece) <= BufSize
  BY EchoAssumption DEF Server
<1>2. chan \in [Clients -> [in : [Sides -> Seq(Nat)], end : [Sides -> Ends]]]
  BY DEF Ends
<1>3. cl \in [Clients -> Client]
  BY EchoAssumption DEF Client
<1>4. log \in [Clients -> Seq(Nat)] /\ queue \in Seq(Clients)
  OBVIOUS
<1>5. TypeOK
  BY <1>1, <1>2, <1>3, <1>4 DEF TypeOK
<1> QED
  BY <1>5 DEF IInv, HasClient, NeverEmpty, OnlyOneOpen, SAt, CAt

LEMMA StepInv == IInv /\ [Next]_vars => IInv'
<1> SUFFICES ASSUME IInv, [Next]_vars PROVE IInv'
  OBVIOUS
<1>1. CASE UNCHANGED vars
  BY <1>1 DEF vars, IInv, TypeOK, HasClient, NeverEmpty, OnlyOneOpen, Greets,
              SAt, CAt
<1>2. CASE Serve
  BY <1>2, AcceptKeeps, GreetKeeps, RecvKeeps, SendKeeps, CloseKeeps DEF Serve
<1>3. ASSUME NEW c \in Clients, Use(c) PROVE IInv'
  <2>1. CASE Connect(c)
    BY <1>3, <2>1, ConnectKeeps DEF Use
  <2>2. CASE (Hello(c) \/ Word(c) \/ Echoed(c)) /\ UNCHANGED queue
    BY <1>3, <2>2, HelloKeeps, WordKeeps, EchoedKeeps DEF Use
  <2>3. CASE (Quit(c) \/ End(c)) /\ UNCHANGED queue
    BY <1>3, <2>3, CCloseKeeps DEF Use, Quit, End, CAt
  <2> QED
    BY <1>3, <2>1, <2>2, <2>3 DEF Use
<1>4. ASSUME NEW c \in Clients, Crash(c) PROVE IInv'
  BY <1>4, CCloseKeeps DEF Crash
<1> QED
  BY <1>1, <1>2, <1>3, <1>4 DEF Next

LEMMA Invariance == Spec => []IInv
<1>1. Init => IInv
  BY InitInv
<1>2. IInv /\ [Next]_vars => IInv'
  BY StepInv
<1> QED
  BY <1>1, <1>2, PTL DEF Spec

(* Type correctness, for any clients, lengths of words and buffer: what recv  *)
(* has returned fits the buffer (TypeOK of EchoTcp.tla).                      *)
THEOREM TypeCorrect == Spec => []TypeOK
<1>1. IInv => TypeOK
  BY DEF IInv
<1> QED
  BY <1>1, Invariance, PTL

(* The servers of src and src01 keep one connection open: each they have      *)
(* accepted before is closed when they accept the next.                       *)
THEOREM OneAtATime == Spec => []OnlyOneOpen
<1>1. IInv => OnlyOneOpen
  BY DEF IInv
<1> QED
  BY <1>1, Invariance, PTL

-----------------------------------------------------------------------------
(* The bytes after the a-th, in order.                                       *)
Starts(us, a) == \A k \in 1..Len(us) : us[k] = a + k

(* What a client has sent and not got back, that is after the g-th byte and  *)
(* up to the s-th: on its way to the client, held by the server, and on its  *)
(* way to the server.                                                        *)
Line(o, h, i, g, s) ==
    /\ Starts(o, g) /\ Starts(h, g + Len(o)) /\ Starts(i, g + Len(o) + Len(h))
    /\ g + Len(o) + Len(h) + Len(i) = s

(* A log, when the server has received n bytes.                              *)
Logs(l, n) ==
    /\ version = "src" => l = <<>>
    /\ version = "src01" => Starts(l, 0) /\ Len(l) > 0 /\ Len(l) <= n
    /\ version = "src02" => Starts(l, 0) /\ Len(l) = n

(* The stages of a client.  Of one that is fresh nothing has been received:  *)
(* in src02 it shakes hands, in the others its word may have been sent.      *)
Queued(c) == \E k \in 1..Len(queue) : queue[k] = c
Shaking(c) ==
    /\ cl[c].sent = 0
    /\ \/ /\ cl[c].pc \in {"connect", "hello"} /\ chan[c].in["s"] = <<>>
          /\ srv.con = c => srv.pc = "hello"
       \/ /\ cl[c].pc = "hi" /\ chan[c].in["s"] = <<Greeting>>
          /\ srv.con = c => srv.pc = "hello"
       \/ /\ cl[c].pc = "hi" /\ chan[c].in["s"] = <<>>
          /\ srv.con = c /\ srv.pc = "hi"
Unread(c) ==
    /\ cl[c].pc \in {"connect", "prompt", "recv", "close"}
    /\ Starts(chan[c].in["s"], 0) /\ Len(chan[c].in["s"]) = cl[c].sent
    /\ srv.con = c => srv.pc = "first"
    /\ cl[c].pc = "recv" <=> cl[c].sent > 0
Fresh(c) ==
    /\ cl[c].got = 0 /\ out(c) = <<>> /\ log[c] = <<>>
    /\ srv.con # c => (CAt(c, "connect") <=> ~ Queued(c))
    /\ srv.con = c => ~ CAt(c, "connect") /\ ~ Queued(c)
    /\ Greets => Shaking(c)
    /\ ~ Greets => Unread(c)

(* One that is greeted has a hi to read, and then its bytes flow.            *)
Greeted(c) ==
    /\ Greets /\ srv.con = c /\ ~ Queued(c) /\ srv.pc = "recv" /\ cl[c].pc = "hi"
    /\ chan[c].in["s"] = <<>> /\ out(c) = <<Greeting>>
    /\ cl[c].sent = 0 /\ cl[c].got = 0 /\ log[c] = <<>>
Flowing(c) ==
    /\ srv.con = c /\ ~ Queued(c) /\ srv.pc \in {"recv", "send"}
    /\ cl[c].pc \in {"prompt", "recv", "close"}
    /\ Line(out(c), Held(c), chan[c].in["s"], cl[c].got, cl[c].sent)
    /\ Logs(log[c], cl[c].got + Len(out(c)) + Len(Held(c)))
    /\ SAt("send") => srv.piece # <<>>
    /\ cl[c].pc = "recv" =>
         cl[c].got < cl[c].sent \/ (Greets /\ cl[c].got >= BufSize - 1)
    /\ cl[c].pc = "close" => cl[c].got = cl[c].sent
    /\ cl[c].pc = "prompt" => Greets

Stage(c) == Fresh(c) \/ Greeted(c) \/ Flowing(c)
OneClient(c) == Served(c) => chan[c].end["c"] = "open" /\ Stage(c)
QueuedOnce == \A k, l \in 1..Len(queue) : queue[k] = queue[l] => k = l
Came == \A c \in Clients : Queued(c) => ~ CAt(c, "connect")
OInv == QueuedOnce /\ Came /\ \A c \in Clients : OneClient(c)

-----------------------------------------------------------------------------
(* Streams whose bytes are in order, cut and joined.                         *)
LEMMA StartsCut ==
    ASSUME NEW us \in Seq(Nat), NEW a \in Nat, Starts(us, a), NEW j \in 0..Len(us)
    PROVE  LET p == SubSeq(us, 1, j)
               r == SubSeq(us, j + 1, Len(us))
           IN /\ p \in Seq(Nat) /\ Len(p) = j /\ Starts(p, a)
              /\ r \in Seq(Nat) /\ Len(r) = Len(us) - j /\ Starts(r, a + j)
<1> DEFINE p == SubSeq(us, 1, j)
           r == SubSeq(us, j + 1, Len(us))
<1>1. Len(us) \in Nat /\ j \in Nat /\ j <= Len(us)
  OBVIOUS
<1>2. p \in Seq(Nat) /\ Len(p) = j /\ \A k \in 1..Len(p) : p[k] = us[k] /\ k \in 1..Len(us)
  BY <1>1
<1>3. /\ r \in Seq(Nat) /\ Len(r) = Len(us) - j
      /\ \A k \in 1..Len(r) : r[k] = us[j + k] /\ j + k \in 1..Len(us)
  BY <1>1
<1> HIDE DEF p, r
<1>4. Starts(p, a)
  BY <1>2 DEF Starts
<1>5. Starts(r, a + j)
  <2> SUFFICES ASSUME NEW k \in 1..Len(r) PROVE r[k] = a + j + k
    BY DEF Starts
  <2>1. r[k] = a + (j + k)
    BY <1>3 DEF Starts
  <2> QED
    BY <1>1, <1>3, <2>1
<1> QED
  BY <1>2, <1>3, <1>4, <1>5 DEF p, r

LEMMA StartsJoined ==
    ASSUME NEW us \in Seq(Nat), NEW vs \in Seq(Nat), NEW a \in Nat,
           Starts(us, a), Starts(vs, a + Len(us))
    PROVE  /\ us \o vs \in Seq(Nat) /\ Len(us \o vs) = Len(us) + Len(vs)
           /\ Starts(us \o vs, a)
<1> DEFINE w == us \o vs
<1>1. /\ w \in Seq(Nat) /\ Len(w) = Len(us) + Len(vs)
      /\ Len(us) \in Nat /\ Len(vs) \in Nat
      /\ \A k \in 1..Len(w) : w[k] = IF k <= Len(us) THEN us[k] ELSE vs[k - Len(us)]
  OBVIOUS
<1> HIDE DEF w
<1>2. Starts(w, a)
  <2> SUFFICES ASSUME NEW k \in 1..Len(w) PROVE w[k] = a + k
    BY DEF Starts
  <2>1. CASE k <= Len(us)
    <3>1. k \in 1..Len(us) /\ w[k] = us[k]
      BY <1>1, <2>1
    <3> QED
      BY <3>1 DEF Starts
  <2>2. CASE ~ k <= Len(us)
    <3>1. k - Len(us) \in 1..Len(vs)
      BY <1>1, <2>2
    <3>2. vs[k - Len(us)] = a + Len(us) + (k - Len(us))
      BY <3>1 DEF Starts
    <3> QED
      BY <1>1, <2>2, <3>2
  <2> QED
    BY <2>1, <2>2
<1> QED
  BY <1>1, <1>2 DEF w

(* A line of bytes when the server receives, when it sends, when the client  *)
(* receives, and when it sends.                                              *)
LEMMA LineReceived ==
    ASSUME NEW o \in Seq(Nat), NEW i \in Seq(Nat), NEW g \in Nat, NEW s \in Nat,
           Line(o, <<>>, i, g, s), NEW j \in 1..Len(i)
    PROVE  /\ Line(o, SubSeq(i, 1, j), SubSeq(i, j + 1, Len(i)), g, s)
           /\ Len(SubSeq(i, 1, j)) = j
<1>1. /\ Len(o) \in Nat /\ Len(i) \in Nat /\ j \in Nat /\ j \in 0..Len(i)
      /\ g + Len(o) \in Nat /\ Len(<<>>) = 0
  OBVIOUS
<1>2. Starts(i, g + Len(o)) /\ Starts(o, g) /\ g + Len(o) + Len(i) = s
  BY <1>1 DEF Line
<1> DEFINE p == SubSeq(i, 1, j)
           r == SubSeq(i, j + 1, Len(i))
<1>3. /\ p \in Seq(Nat) /\ Len(p) = j /\ Starts(p, g + Len(o))
      /\ r \in Seq(Nat) /\ Len(r) = Len(i) - j /\ Starts(r, g + Len(o) + j)
  BY <1>1, <1>2, StartsCut
<1> HIDE DEF p, r
<1>5. Starts(r, g + Len(o) + Len(p))
  BY <1>3
<1>6. g + Len(o) + Len(p) + Len(r) = s
  <2>1. \A m, n \in Nat : g + m + j + (n - j) = g + m + n
    BY <1>1
  <2>2. g + Len(o) + j + (Len(i) - j) = g + Len(o) + Len(i)
    BY <1>1, <2>1
  <2>3. Len(p) = j /\ Len(r) = Len(i) - j /\ g + Len(o) + Len(i) = s
    BY <1>2, <1>3
  <2> QED
    BY ONLY <2>2, <2>3
<1>4. Line(o, p, r, g, s)
  BY <1>2, <1>3, <1>5, <1>6 DEF Line
<1> QED
  BY <1>3, <1>4 DEF p, r

LEMMA LineSent ==
    ASSUME NEW o \in Seq(Nat), NEW h \in Seq(Nat), NEW i \in Seq(Nat), NEW g \in Nat, NEW s \in Nat,
           Line(o, h, i, g, s)
    PROVE  /\ Line(o \o h, <<>>, i, g, s)
           /\ Len(o \o h) = Len(o) + Len(h)
<1> DEFINE w == o \o h
<1>1. Starts(o, g) /\ Starts(h, g + Len(o))
  BY DEF Line
<1>2. Len(w) = Len(o) + Len(h) /\ Starts(w, g)
  BY <1>1, StartsJoined
<1>3. Starts(<<>>, g + Len(w)) /\ Len(<<>>) = 0 /\ Len(o) \in Nat /\ Len(h) \in Nat
  BY DEF Starts
<1> HIDE DEF w
<1>4. g + Len(w) + 0 = g + Len(o) + Len(h)
  BY <1>2, <1>3
<1>5. Line(w, <<>>, i, g, s)
  BY <1>2, <1>3, <1>4 DEF Line
<1> QED
  BY <1>2, <1>5 DEF w

LEMMA LinePrinted ==
    ASSUME NEW o \in Seq(Nat), NEW h \in Seq(Nat), NEW i \in Seq(Nat), NEW g \in Nat, NEW s \in Nat,
           Line(o, h, i, g, s), NEW j \in 1..Len(o)
    PROVE  /\ Line(SubSeq(o, j + 1, Len(o)), h, i, g + j, s)
           /\ Len(SubSeq(o, j + 1, Len(o))) = Len(o) - j
<1> DEFINE r == SubSeq(o, j + 1, Len(o))
<1>1. Len(o) \in Nat /\ j \in 0..Len(o) /\ j \in Nat /\ Len(h) \in Nat
  OBVIOUS
<1>2. Len(r) = Len(o) - j /\ Starts(r, g + j)
  BY <1>1, StartsCut DEF Line
<1> HIDE DEF r
<1>3. g + j + Len(r) = g + Len(o)
  BY <1>1, <1>2
<1>4. Line(r, h, i, g + j, s)
  BY <1>2, <1>3 DEF Line
<1> QED
  BY <1>2, <1>4 DEF r

LEMMA LineTyped ==
    ASSUME NEW o \in Seq(Nat), NEW h \in Seq(Nat), NEW i \in Seq(Nat), NEW g \in Nat, NEW s \in Nat,
           Line(o, h, i, g, s), NEW b \in Seq(Nat), Starts(b, s)
    PROVE  Line(o, h, i \o b, g, s + Len(b))
<1> DEFINE w == i \o b
           a == g + Len(o) + Len(h)
<1>1. /\ Len(o) \in Nat /\ Len(h) \in Nat /\ Len(i) \in Nat /\ Len(b) \in Nat
      /\ a \in Nat /\ a + Len(i) = s /\ Starts(i, a)
  BY DEF Line
<1>2. Len(w) = Len(i) + Len(b) /\ Starts(w, a)
  BY <1>1, StartsJoined
<1> HIDE DEF w, a
<1>3. a + Len(w) = s + Len(b)
  <2>1. \A m, n \in Nat : a + (m + n) = (a + m) + n
    BY <1>1
  <2>2. a + (Len(i) + Len(b)) = (a + Len(i)) + Len(b)
    BY <1>1, <2>1
  <2>3. Len(w) = Len(i) + Len(b) /\ a + Len(i) = s
    BY <1>1, <1>2
  <2> QED
    BY ONLY <2>2, <2>3
<1> QED
  BY <1>2, <1>3 DEF Line, w, a

-----------------------------------------------------------------------------
(* What a step leaves alone keeps its stage.                                 *)
LEMMA OtherKeeps ==
    ASSUME OInv, NEW d \in Clients, version' = version,
           chan'[d] = chan[d], cl'[d] = cl[d], log'[d] = log[d],
           Queued(d)' <=> Queued(d),
           srv' = srv \/ (srv.con # d /\ srv'.con # d)
    PROVE  OneClient(d)'
<1>1. OneClient(d)
  BY DEF OInv
<1>2. Greets' <=> Greets
  BY DEF Greets
<1>3. Served(d)' <=> Served(d)
  BY DEF Served, Running
<1>4. CASE srv' = srv
  BY <1>1, <1>2, <1>3, <1>4
  DEF OneClient, Stage, Fresh, Shaking, Unread, Greeted, Flowing, Logs, Held,
      SAt, CAt, out
<1>5. CASE srv.con # d /\ srv'.con # d
  BY <1>1, <1>2, <1>3, <1>5
  DEF OneClient, Stage, Fresh, Shaking, Unread, Greeted, Flowing, CAt, out
<1> QED
  BY <1>4, <1>5

(* A step of the server within the service of a client, and one of a client  *)
(* that has connected.                                                       *)
LEMMA ServeOne ==
    ASSUME TypeOK, OInv, UNCHANGED <<version, queue, cl>>,
           NEW c \in Clients, srv.con = c, srv'.con = c,
           NEW v, chan' = [chan EXCEPT ![c] = v],
           NEW l, log' = [log EXCEPT ![c] = l],
           Served(c)' => OneClient(c)'
    PROVE  OInv'
<1>1. QueuedOnce' /\ Came'
  BY DEF OInv, QueuedOnce, Came, Queued, CAt
<1>2. ASSUME NEW d \in Clients PROVE OneClient(d)'
  <2>1. CASE d = c
    BY <2>1 DEF OneClient
  <2>2. CASE d # c
    <3>1. chan'[d] = chan[d] /\ log'[d] = log[d]
      BY <2>2 DEF TypeOK
    <3>2. Queued(d)' <=> Queued(d)
      BY DEF Queued
    <3> QED
      BY <2>2, <3>1, <3>2, OtherKeeps
  <2> QED
    BY <2>1, <2>2
<1> QED
  BY <1>1, <1>2 DEF OInv

LEMMA UseOne ==
    ASSUME TypeOK, OInv, UNCHANGED <<version, srv, queue, log>>,
           NEW c \in Clients, ~ CAt(c, "connect"),
           NEW v, chan' = [chan EXCEPT ![c] = v],
           NEW r, cl' = [cl EXCEPT ![c] = r], r.pc # "connect",
           Served(c)' => OneClient(c)'
    PROVE  OInv'
<1>1. QueuedOnce'
  BY DEF OInv, QueuedOnce
<1>2. Came'
  BY DEF OInv, Came, Queued, CAt, TypeOK
<1>3. ASSUME NEW d \in Clients PROVE OneClient(d)'
  <2>1. CASE d = c
    BY <2>1 DEF OneClient
  <2>2. CASE d # c
    <3>1. chan'[d] = chan[d] /\ cl'[d] = cl[d]
      BY <2>2 DEF TypeOK
    <3>2. Queued(d)' <=> Queued(d)
      BY DEF Queued
    <3> QED
      BY <2>2, <3>1, <3>2, OtherKeeps
  <2> QED
    BY <2>1, <2>2
<1> QED
  BY <1>1, <1>2, <1>3 DEF OInv

(* The types of what belongs to one client.                                  *)
LEMMA Parts ==
    ASSUME TypeOK, NEW c \in Clients
    PROVE  /\ chan[c] \in Connection(Nat) /\ chan[c].in["s"] \in Seq(Nat)
           /\ out(c) \in Seq(Nat) /\ out(c) = chan[c].in["c"]
           /\ cl[c] \in Client /\ cl[c].got \in Nat /\ cl[c].sent \in Nat
           /\ log[c] \in Seq(Nat)
           /\ srv \in Server /\ srv.piece \in Seq(Nat)
           /\ "s" \in Sides /\ "c" \in Sides /\ Peer("s") = "c" /\ Peer("c") = "s"
BY DEF TypeOK, Connection, Client, Server, Sides, out, Peer

-----------------------------------------------------------------------------
(* The server.                                                               *)
LEMMA AcceptOrder ==
    ASSUME IInv, OInv, Accept, UNCHANGED <<version, cl>>
    PROVE  OInv'
<1>a. queue \in Seq(Clients) /\ queue # <<>>
  BY DEF Accept, IInv, TypeOK
<1>b. PICK h \in Clients : h = Head(queue)
  BY <1>a
<1>1. /\ queue \in Seq(Clients) /\ queue # <<>> /\ h \in Clients /\ h = queue[1]
      /\ queue' = Tail(queue) /\ Len(queue) \in Nat /\ 1 \in 1..Len(queue)
      /\ Len(queue') = Len(queue) - 1
      /\ \A k \in 1..Len(queue') : /\ k + 1 \in 1..Len(queue) /\ k + 1 # 1
                                   /\ queue'[k] = queue[k + 1]
      /\ \A k \in 1..Len(queue) : k # 1 => k - 1 \in 1..Len(queue') /\ (k - 1) + 1 = k
  BY <1>a, <1>b DEF Accept
<1>2. /\ srv' = [srv EXCEPT !.pc = IF Greets THEN "hello" ELSE "first",
                            !.con = h]
      /\ srv \in Server /\ srv.pc = "accept" /\ UNCHANGED <<chan, log>>
  BY <1>b DEF Accept, IInv, TypeOK, SAt
<1>3. QueuedOnce'
  <2> SUFFICES ASSUME NEW k \in 1..Len(queue'), NEW l \in 1..Len(queue'),
                      queue'[k] = queue'[l]
               PROVE  k = l
    BY DEF QueuedOnce
  <2>1. k + 1 = l + 1
    BY <1>1 DEF OInv, QueuedOnce
  <2> QED
    BY <1>1, <2>1
<1>4. ~ Queued(h)'
  <2> SUFFICES ASSUME NEW k \in 1..Len(queue'), queue'[k] = h PROVE FALSE
    BY DEF Queued
  <2>1. queue[k + 1] = queue[1] /\ k + 1 \in 1..Len(queue) /\ k + 1 # 1
    BY <1>1
  <2> QED
    BY <1>1, <2>1 DEF OInv, QueuedOnce
<1>5. Queued(h)
  BY <1>1 DEF Queued
<1>6. ASSUME NEW d \in Clients, d # h PROVE Queued(d)' <=> Queued(d)
  <2>1. ASSUME NEW k \in 1..Len(queue), queue[k] = d PROVE Queued(d)'
    <3>1. k # 1 /\ k - 1 \in 1..Len(queue') /\ queue'[k - 1] = queue[(k - 1) + 1]
      BY <1>1, <1>6, <2>1
    <3> QED
      BY <1>1, <2>1, <3>1 DEF Queued
  <2>2. ASSUME NEW k \in 1..Len(queue'), queue'[k] = d PROVE Queued(d)
    BY <1>1, <2>2 DEF Queued
  <2> QED
    BY <2>1, <2>2 DEF Queued
<1>7. Came'
  BY <1>4, <1>6 DEF OInv, Came, CAt
<1>8. OneClient(h)'
  <2> SUFFICES ASSUME Served(h)'
               PROVE  chan[h].end["c"] = "open" /\ Fresh(h)'
    BY <1>2 DEF OneClient, Stage
  <2>1. Served(h)
    BY <1>2 DEF Served, Running
  <2>2. chan[h].end["c"] = "open" /\ Fresh(h)
    BY <1>1, <1>2, <1>5, <2>1 DEF OInv, OneClient, Stage, Greeted, Flowing
  <2>3. srv.con # h /\ ~ CAt(h, "connect")
    BY <1>5, <2>2 DEF Fresh
  <2>4. srv'.con = h /\ srv'.pc = IF Greets THEN "hello" ELSE "first"
    BY <1>2 DEF Server
  <2> QED
    BY <1>2, <1>4, <2>2, <2>3, <2>4
    DEF Fresh, Shaking, Unread, Greets, CAt, out
<1>9. ASSUME NEW d \in Clients, d # h PROVE OneClient(d)'
  <2>1. CASE srv.con = d
    <3>1. ~ Served(d)
      BY <1>2, <2>1 DEF OInv, OneClient, Stage, Fresh, Shaking, Unread, Greeted, Flowing
    <3> QED
      BY <1>2, <3>1 DEF OneClient, Served, Running
  <2>2. CASE srv.con # d
    <3>1. srv'.con # d
      BY <1>2, <1>9 DEF Server
    <3> QED
      BY <1>2, <1>6, <1>9, <2>2, <3>1, OtherKeeps
  <2> QED
    BY <2>1, <2>2
<1> QED
  BY <1>1, <1>3, <1>7, <1>8, <1>9 DEF OInv

LEMMA DieOrder ==
    ASSUME IInv, OInv, Die, UNCHANGED <<version, cl, log>>
    PROVE  OInv'
<1>1. PICK how \in Hows : chan' = [c \in Clients |->
         IF cl[c].pc = "connect" \/ chan[c].end["s"] # "open" THEN chan[c]
         ELSE IF \E i \in 1..Len(queue) : queue[i] = c THEN Refused(chan[c])
         ELSE Closed(chan[c], "s", how)]
  BY DEF Die
<1>2. srv' = [srv EXCEPT !.pc = "dead"] /\ queue' = <<>> /\ srv \in Server
  BY DEF Die, SGoto, IInv, TypeOK
<1>3. QueuedOnce' /\ Came' /\ \A c \in Clients : ~ Queued(c)'
  BY <1>2 DEF QueuedOnce, Came, Queued
<1>4. ASSUME NEW c \in Clients PROVE OneClient(c)'
  <2> SUFFICES ASSUME Served(c)' PROVE OneClient(c)'
    BY DEF OneClient
  <2>1. "s" \in Sides /\ chan[c] \in Connection(Nat)
    BY Parts DEF IInv
  <2>2. Refused(chan[c]).end["s"] # "open" /\ Closed(chan[c], "s", how).end["s"] # "open"
    BY <2>1, RefusedConn, ClosedConn
  <2>3. cl[c].pc = "connect" /\ chan'[c] = chan[c] /\ Served(c)
    BY <1>1, <2>2 DEF Served, Running
  <2>4. chan[c].end["c"] = "open" /\ Fresh(c)
    BY <2>3 DEF OInv, OneClient, Stage, Greeted, Flowing
  <2>5. srv.con # c /\ ~ Queued(c)
    BY <2>3, <2>4 DEF Fresh, CAt
  <2>6. srv'.con # c
    BY <1>2, <2>5 DEF Server
  <2> QED
    BY <1>3, <2>3, <2>5, <2>6, OtherKeeps
<1> QED
  BY <1>3, <1>4 DEF OInv

(* Receives and sends of the two sides.                                      *)
LEMMA SidesTake ==
    ASSUME NEW k \in Connection(Nat), NEW j \in Nat
    PROVE  /\ Taken(k, "s", j).end = k.end
           /\ Taken(k, "s", j).in["c"] = k.in["c"]
           /\ Taken(k, "s", j).in["s"] = SubSeq(k.in["s"], j + 1, Len(k.in["s"]))
           /\ Taken(k, "c", j).end = k.end
           /\ Taken(k, "c", j).in["s"] = k.in["s"]
           /\ Taken(k, "c", j).in["c"] = SubSeq(k.in["c"], j + 1, Len(k.in["c"]))
<1>1. "s" \in Sides /\ "c" \in Sides /\ "c" \in Sides \ {"s"} /\ "s" \in Sides \ {"c"}
  BY DEF Sides
<1>2. \A x \in Sides :
        /\ Taken(k, x, j).end = k.end
        /\ Taken(k, x, j).in[x] = SubSeq(k.in[x], j + 1, Len(k.in[x]))
        /\ \A r \in Sides \ {x} : Taken(k, x, j).in[r] = k.in[r]
  BY TakenConn
<1> QED
  BY ONLY <1>1, <1>2

LEMMA SidesSend ==
    ASSUME NEW k \in Connection(Nat), NEW us \in Seq(Nat)
    PROVE  /\ \A x \in Sides : /\ Sent(k, x, us).end["c"] = "open" <=> k.end["c"] = "open"
                               /\ Sent(k, x, us).end["s"] = "open" <=> k.end["s"] = "open"
           /\ Sent(k, "s", us).in["s"] = k.in["s"]
           /\ k.end["c"] = "open" => Sent(k, "s", us).in["c"] = k.in["c"] \o us
           /\ Sent(k, "c", us).in["c"] = k.in["c"]
           /\ k.end["s"] = "open" => Sent(k, "c", us).in["s"] = k.in["s"] \o us
<1>1. "s" \in Sides /\ "c" \in Sides /\ Peer("s") = "c" /\ Peer("c") = "s"
  BY DEF Sides, Peer
<1>2. \A x \in Sides : \A r \in Sides : Sent(k, x, us).end[r] = "open" <=> k.end[r] = "open"
  BY SentConn
<1>3. \A x \in Sides :
        /\ Sent(k, x, us).in[x] = k.in[x]
        /\ k.end[Peer(x)] = "open" => Sent(k, x, us).in[Peer(x)] = k.in[Peer(x)] \o us
  BY SentConn
<1> QED
  BY ONLY <1>1, <1>2, <1>3

(* The steps of the service of client c.                                     *)
LEMMA HelloTaken ==
    ASSUME IInv, OInv, NEW c \in Clients, srv.con = c, SAt("hello"),
           chan[c].in["s"] # <<>>,
           chan' = [chan EXCEPT ![c] = Taken(@, "s", 1)], SGoto("hi"),
           UNCHANGED <<version, queue, cl, log>>
    PROVE  OInv'
<1>1. TypeOK /\ chan[c] \in Connection(Nat) /\ "s" \in Sides /\ "c" \in Sides \ {"s"}
  BY Parts DEF IInv, Sides
<1> DEFINE v == Taken(chan[c], "s", 1)
<1>2. /\ v.end = chan[c].end /\ v.in["c"] = chan[c].in["c"]
      /\ v.in["s"] = SubSeq(chan[c].in["s"], 1 + 1, Len(chan[c].in["s"]))
  BY ONLY <1>1, 1 \in Nat, SidesTake
<1>3. chan' = [chan EXCEPT ![c] = v] /\ log' = [log EXCEPT ![c] = log[c]]
  BY <1>1 DEF TypeOK
<1>4. chan'[c] = v /\ srv'.con = c /\ srv'.pc = "hi"
  BY <1>1, <1>3 DEF TypeOK, SGoto, Server
<1> HIDE DEF v
<1>5. ASSUME Served(c)' PROVE OneClient(c)'
  <2>1. Served(c)
    BY <1>2, <1>4, <1>5 DEF Served, Running
  <2>2. chan[c].end["c"] = "open" /\ Fresh(c)
    BY <2>1 DEF OInv, OneClient, Stage, Greeted, Flowing, SAt
  <2>3. Greets /\ cl[c].pc = "hi" /\ chan[c].in["s"] = <<Greeting>> /\ cl[c].sent = 0
    BY <2>2 DEF Fresh, Unread, Shaking, SAt
  <2>4. chan'[c].in["s"] = <<>>
    <3>1. SubSeq(<<Greeting>>, 1 + 1, Len(<<Greeting>>)) = <<>>
      BY DEF Greeting
    <3> QED
      BY ONLY <1>2, <1>4, <2>3, <3>1
  <2>5. Fresh(c)'
    BY <1>2, <1>4, <2>2, <2>3, <2>4
    DEF Fresh, Shaking, Greets, CAt, out, Queued
  <2> QED
    BY <1>2, <1>4, <2>2, <2>5 DEF OneClient, Stage
<1> QED
  BY <1>1, <1>3, <1>4, <1>5, ServeOne

LEMMA HiOrder ==
    ASSUME IInv, OInv, NEW c \in Clients, srv.con = c, SAt("hi"),
           Write(<<Greeting>>, "recv"), UNCHANGED <<version, cl, log>>
    PROVE  OInv'
<1>1. /\ TypeOK /\ chan[c] \in Connection(Nat) /\ "s" \in Sides /\ Peer("s") = "c"
      /\ <<Greeting>> \in Seq(Nat) /\ <<Greeting>> # <<>>
  BY Parts DEF IInv, Greeting
<1>2. CASE Broken(ch, "s") /\ Die
  BY <1>2, DieOrder
<1>3. CASE /\ chan' = [chan EXCEPT ![c] = Sent(@, "s", <<Greeting>>)]
           /\ SGoto("recv")
           /\ UNCHANGED queue
  <2> DEFINE v == Sent(chan[c], "s", <<Greeting>>)
  <2>1. /\ v.end["s"] = "open" <=> chan[c].end["s"] = "open"
        /\ v.end["c"] = "open" <=> chan[c].end["c"] = "open"
        /\ v.in["s"] = chan[c].in["s"]
        /\ chan[c].end["c"] = "open" => v.in["c"] = chan[c].in["c"] \o <<Greeting>>
    BY ONLY <1>1, SidesSend
  <2>2. chan' = [chan EXCEPT ![c] = v] /\ log' = [log EXCEPT ![c] = log[c]]
    BY <1>1, <1>3 DEF TypeOK
  <2>3. chan'[c] = v /\ srv'.con = c /\ srv'.pc = "recv"
    BY <1>1, <1>3, <2>2 DEF TypeOK, SGoto, Server
  <2> HIDE DEF v
  <2>4. ASSUME Served(c)' PROVE OneClient(c)'
    <3>1. Served(c)
      BY <1>1, <2>1, <2>3, <2>4 DEF Served, Running
    <3>2. chan[c].end["c"] = "open" /\ Fresh(c)
      BY <3>1 DEF OInv, OneClient, Stage, Greeted, Flowing, SAt
    <3>3. /\ Greets /\ cl[c].pc = "hi" /\ chan[c].in["s"] = <<>> /\ cl[c].sent = 0
          /\ cl[c].got = 0 /\ log[c] = <<>> /\ ~ Queued(c)
          /\ chan[c].in["c"] = <<>>
      BY <3>2 DEF Fresh, Unread, Shaking, SAt, out
    <3>4. v.in["c"] = <<Greeting>>
      <4>1. <<>> \o <<Greeting>> = <<Greeting>>
        BY <1>1
      <4> QED
        BY <2>1, <3>2, <3>3, <4>1
    <3>5. chan'[c].end["c"] = "open"
      BY <2>1, <2>3, <3>2 DEF Sides
    <3>6. Greeted(c)'
      BY <1>3, <2>1, <2>3, <3>3, <3>4 DEF Greeted, Greets, out, Queued
    <3> QED
      BY <3>5, <3>6 DEF OneClient, Stage
  <2> QED
    BY <1>1, <1>3, <2>2, <2>3, <2>4, ServeOne
<1> QED
  BY <1>1, <1>2, <1>3 DEF Write

LEMMA GreetOrder ==
    ASSUME IInv, OInv, Greet, UNCHANGED <<version, cl>>
    PROVE  OInv'
<1>1. PICK c \in Clients : srv.con = c
  BY DEF Greet, IInv, HasClient, SAt
<1>2. UNCHANGED log
  BY DEF Greet
<1> QED
  BY <1>1, <1>2, HelloTaken, HiOrder, DieOrder DEF Greet, ch, in

(* A piece that is received goes to the log as the version has it.           *)
LEMMA LogReceived ==
    ASSUME version \in {"src", "src01", "src02"}, NEW l \in Seq(Nat), NEW n \in Nat,
           NEW p \in Seq(Nat), p # <<>>, Starts(p, n), NEW l2,
           \/ /\ SAt("first") /\ version # "src02" /\ l = <<>> /\ n = 0
           \/ SAt("recv") /\ Logs(l, n),
           l2 = IF version = "src02" \/ (version = "src01" /\ SAt("first"))
                THEN l \o p ELSE l
    PROVE  Logs(l2, n + Len(p))
<1>1. Len(p) \in Nat /\ Len(p) > 0 /\ Len(l) \in Nat /\ n + Len(p) \in Nat
  OBVIOUS
<1>2. CASE version = "src"
  BY <1>2 DEF Logs
<1>3. CASE version = "src01" /\ SAt("first")
  <2>1. l2 = p
    BY <1>3 DEF SAt
  <2>2. n = 0
    BY <1>3 DEF SAt
  <2>3. Starts(p, 0) /\ Len(p) <= 0 + Len(p)
    BY <1>1, <2>2
  <2> QED
    BY <1>1, <1>3, <2>1, <2>2, <2>3 DEF Logs
<1>4. CASE version = "src01" /\ SAt("recv")
  <2>1. l2 = l /\ Logs(l, n)
    BY <1>4 DEF SAt
  <2>2. Len(l) <= n => Len(l) <= n + Len(p)
    BY <1>1
  <2> QED
    BY <1>4, <2>1, <2>2 DEF Logs
<1>5. CASE version = "src02"
  <2>1. l2 = l \o p /\ Logs(l, n)
    BY <1>5
  <2>2. Starts(l, 0) /\ Len(l) = n /\ 0 + Len(l) = n
    BY <1>5, <2>1 DEF Logs
  <2>3. Len(l2) = Len(l) + Len(p) /\ Starts(l2, 0)
    BY <2>1, <2>2, StartsJoined
  <2> QED
    BY <1>5, <2>2, <2>3 DEF Logs
<1> QED
  BY <1>2, <1>3, <1>4, <1>5

LEMMA PieceTaken ==
    ASSUME IInv, OInv, NEW c \in Clients, srv.con = c, SAt("first") \/ SAt("recv"),
           NEW j \in Nat, j > 0, j <= Len(chan[c].in["s"]),
           chan' = [chan EXCEPT ![c] = Taken(@, "s", j)],
           NEW p, p = SubSeq(chan[c].in["s"], 1, j),
           srv' = [srv EXCEPT !.pc = "send", !.piece = p],
           log' = [log EXCEPT ![c] = Logged(p)],
           UNCHANGED <<version, queue, cl>>
    PROVE  OInv'
<1> DEFINE i == chan[c].in["s"]
           r == SubSeq(i, j + 1, Len(i))
           n == cl[c].got + Len(out(c))
           v == Taken(chan[c], "s", j)
<1>1. /\ TypeOK /\ chan[c] \in Connection(Nat) /\ "s" \in Sides /\ "c" \in Sides \ {"s"}
      /\ i \in Seq(Nat) /\ out(c) \in Seq(Nat) /\ Len(i) \in Nat /\ j \in 1..Len(i)
      /\ cl[c].got \in Nat /\ cl[c].sent \in Nat /\ Len(out(c)) \in Nat /\ n \in Nat
      /\ log[c] \in Seq(Nat) /\ srv \in Server /\ out(c) = chan[c].in["c"]
  BY Parts DEF IInv, Sides
<1>2. v.end = chan[c].end /\ v.in["c"] = out(c) /\ v.in["s"] = r
  BY ONLY <1>1, j \in Nat, SidesTake
<1>3. chan' = [chan EXCEPT ![c] = v]
  BY <1>1 DEF TypeOK
<1>4. /\ chan'[c] = v /\ srv'.con = c /\ srv'.pc = "send" /\ srv'.piece = p
      /\ log'[c] = Logged(p) /\ p \in Seq(Nat) /\ Len(p) = j /\ p # <<>>
  <2>5. \A us \in Seq(Nat) : \A m \in 1..Len(us) :
          SubSeq(us, 1, m) \in Seq(Nat) /\ Len(SubSeq(us, 1, m)) = m
    OBVIOUS
  <2>6. p = SubSeq(i, 1, j)
    OBVIOUS
  <2>1. p \in Seq(Nat) /\ Len(p) = j
    BY ONLY <1>1, <2>5, <2>6
  <2>2. p # <<>>
    BY <2>1
  <2>3. log'[c] = Logged(p) /\ chan'[c] = v
    BY <1>1, <1>3 DEF TypeOK
  <2>4. srv'.con = c /\ srv'.pc = "send" /\ srv'.piece = p
    BY <1>1 DEF Server
  <2> QED
    BY <2>1, <2>2, <2>3, <2>4
<1> HIDE DEF v
<1>5. ASSUME Served(c)' PROVE OneClient(c)'
  <2>1. Served(c)
    BY <1>2, <1>4, <1>5 DEF Served, Running
  <2>2. chan[c].end["c"] = "open" /\ Stage(c)
    BY <2>1 DEF OInv, OneClient
  <2>3. ~ Greeted(c)
    <3>1. i # <<>>
      BY <1>1
    <3> QED
      BY <3>1 DEF Greeted
  <2>4. version \in {"src", "src01", "src02"}
    BY <1>1, EchoAssumption DEF TypeOK
  <2>5. /\ Line(out(c), <<>>, i, cl[c].got, cl[c].sent) /\ ~ Queued(c)
        /\ cl[c].pc \in {"prompt", "recv", "close"}
        /\ \/ SAt("first") /\ version # "src02" /\ log[c] = <<>> /\ n = 0
           \/ SAt("recv") /\ Logs(log[c], n)
        /\ cl[c].pc = "recv" =>
             cl[c].got < cl[c].sent \/ (Greets /\ cl[c].got >= BufSize - 1)
        /\ cl[c].pc = "close" => cl[c].got = cl[c].sent
        /\ cl[c].pc = "prompt" => Greets
    <3>1. CASE Fresh(c)
      <4>1. ~ Greets /\ Unread(c)
        BY <3>1 DEF Fresh, Shaking, SAt
      <4>2. /\ SAt("first") /\ version # "src02" /\ log[c] = <<>> /\ ~ Queued(c)
            /\ out(c) = <<>> /\ cl[c].got = 0 /\ ~ CAt(c, "connect")
        BY <3>1, <4>1 DEF Fresh, Unread, SAt, Greets
      <4>3. Line(<<>>, <<>>, i, 0, cl[c].sent)
        <5>1. Starts(<<>>, 0) /\ Len(<<>>) = 0 /\ 0 + 0 = 0 /\ 0 + 0 + 0 + Len(i) = Len(i)
          BY <1>1 DEF Starts
        <5> QED
          BY <4>1, <5>1 DEF Line, Unread
      <4>4. n = 0
        BY <1>1, <4>2
      <4>5. cl[c].sent > 0
        BY <1>1, <4>1 DEF Unread
      <4>6. cl[c].pc = "recv" /\ cl[c].got < cl[c].sent
        BY <4>1, <4>2, <4>5 DEF Unread
      <4> QED
        BY <4>1, <4>2, <4>3, <4>4, <4>6
    <3>2. CASE Flowing(c)
      <4>1. Held(c) = <<>> /\ SAt("recv") /\ n + Len(<<>>) = n
        BY <1>1, <3>2 DEF Flowing, Held, SAt
      <4> QED
        BY <3>2, <4>1 DEF Flowing
    <3> QED
      BY <2>2, <2>3, <3>1, <3>2 DEF Stage
  <2>6. Line(out(c), p, r, cl[c].got, cl[c].sent)
    BY <1>1, <2>5, LineReceived
  <2>7. Starts(p, n)
    BY <2>6 DEF Line
  <2>8. Logged(p) = IF version = "src02" \/ (version = "src01" /\ SAt("first"))
                    THEN log[c] \o p ELSE log[c]
    BY DEF Logged
  <2> DEFINE l2 == Logged(p)
  <2>9. l2 = Logged(p)
    OBVIOUS
  <2> HIDE DEF l2, n
  <2>10. Logs(l2, n + Len(p))
    BY <1>1, <1>4, <2>4, <2>5, <2>7, <2>8, <2>9, LogReceived
  <2>11. Held(c)' = p /\ out(c)' = out(c) /\ cl' = cl /\ chan'[c].in["s"] = r
    BY <1>2, <1>4 DEF Held, SAt, out
  <2>12. Logs(log[c], cl[c].got + Len(out(c)) + Len(Held(c)))'
    BY <1>4, <2>9, <2>10, <2>11 DEF Logs, n
  <2>13. Line(out(c), Held(c), chan[c].in["s"], cl[c].got, cl[c].sent)'
    BY <2>6, <2>11
  <2>14. Flowing(c)'
    BY <1>4, <2>5, <2>12, <2>13 DEF Flowing, SAt, Queued, Greets
  <2> QED
    BY <1>2, <1>4, <2>2, <2>14 DEF OneClient, Stage
<1> QED
  BY <1>1, <1>3, <1>4, <1>5, ServeOne

LEMMA RecvOrder ==
    ASSUME IInv, OInv, Recv, UNCHANGED <<version, cl>>
    PROVE  OInv'
<1>1. PICK c \in Clients : srv.con = c
  BY DEF Recv, IInv, HasClient, SAt
<1>2. TypeOK /\ chan[c] \in Connection(Nat) /\ Len(chan[c].in["s"]) \in Nat /\ Peer("s") = "c"
  BY Parts DEF IInv
<1>3. CASE \E j \in Fits :
            /\ j <= Len(in)
            /\ chan' = [chan EXCEPT ![srv.con] = Taken(@, "s", j)]
            /\ srv' = [srv EXCEPT !.pc = "send", !.piece = Piece(j)]
            /\ log' = [log EXCEPT ![srv.con] = Logged(Piece(j))]
            /\ UNCHANGED queue
  <2>1. PICK j \in Fits :
            /\ j <= Len(in)
            /\ chan' = [chan EXCEPT ![srv.con] = Taken(@, "s", j)]
            /\ srv' = [srv EXCEPT !.pc = "send", !.piece = Piece(j)]
            /\ log' = [log EXCEPT ![srv.con] = Logged(Piece(j))]
            /\ UNCHANGED queue
    BY <1>3
  <2>2. j \in Nat /\ j > 0
    BY EchoAssumption DEF Fits
  <2>3. in = chan[c].in["s"] /\ Piece(j) = SubSeq(chan[c].in["s"], 1, j)
    BY <1>1 DEF in, ch, Piece
  <2> DEFINE p == Piece(j)
  <2>4. p = SubSeq(chan[c].in["s"], 1, j)
    BY <2>3
  <2>5. /\ j <= Len(chan[c].in["s"])
        /\ chan' = [chan EXCEPT ![c] = Taken(@, "s", j)]
        /\ srv' = [srv EXCEPT !.pc = "send", !.piece = p]
        /\ log' = [log EXCEPT ![c] = Logged(p)]
        /\ UNCHANGED <<version, queue, cl>>
    BY <1>1, <2>1, <2>3
  <2>6. SAt("first") \/ SAt("recv")
    BY DEF Recv
  <2> HIDE DEF p
  <2> QED
    BY <1>1, <2>2, <2>4, <2>5, <2>6, PieceTaken
<1>4. CASE /\ AtEnd(ch, "s")
           /\ srv' = [srv EXCEPT !.pc = IF Greets THEN "send" ELSE "close",
                                 !.piece = <<>>]
           /\ UNCHANGED <<queue, chan, log>>
  <2>1. chan[c].end["c"] # "open"
    BY <1>1, <1>2, <1>4 DEF AtEnd, ch
  <2>2. ~ Served(c)
    BY <2>1 DEF OInv, OneClient
  <2>3. ~ Served(c)'
    BY <1>4, <2>2 DEF Served, Running
  <2>4. chan' = [chan EXCEPT ![c] = chan[c]] /\ log' = [log EXCEPT ![c] = log[c]]
    BY <1>2, <1>4 DEF TypeOK
  <2>5. srv'.con = c
    BY <1>1, <1>2, <1>4 DEF TypeOK, Server
  <2> QED
    BY <1>1, <1>2, <1>4, <2>3, <2>4, <2>5, ServeOne
<1>5. CASE Failed(ch, "s") /\ Die /\ UNCHANGED log
  BY <1>5, DieOrder
<1> QED
  BY <1>3, <1>4, <1>5 DEF Recv

LEMMA SendOrder ==
    ASSUME IInv, OInv, Send, UNCHANGED <<version, cl>>
    PROVE  OInv'
<1>1. PICK c \in Clients : srv.con = c
  BY DEF Send, IInv, HasClient, SAt
<1> DEFINE h == srv.piece
           i == chan[c].in["s"]
           next == IF srv.piece = <<>> THEN "accept" ELSE "recv"
           v == IF h = <<>> THEN chan[c] ELSE Sent(chan[c], "s", h)
<1>2. /\ TypeOK /\ chan[c] \in Connection(Nat) /\ h \in Seq(Nat) /\ SAt("send")
      /\ i \in Seq(Nat) /\ out(c) \in Seq(Nat) /\ out(c) = chan[c].in["c"]
      /\ cl[c].got \in Nat /\ cl[c].sent \in Nat /\ "s" \in Sides
      /\ UNCHANGED log
  BY Parts DEF IInv, Send
<1>3. CASE Broken(ch, "s") /\ Die
  BY <1>2, <1>3, DieOrder
<1>4. CASE /\ chan' = [chan EXCEPT ![c] = IF h = <<>> THEN @ ELSE Sent(@, "s", h)]
           /\ SGoto(next)
           /\ UNCHANGED queue
  <2>1. chan' = [chan EXCEPT ![c] = v] /\ log' = [log EXCEPT ![c] = log[c]]
    BY <1>2, <1>4 DEF TypeOK
  <2>2. chan'[c] = v /\ srv'.con = c /\ srv'.pc = next
    BY <1>1, <1>2, <1>4, <2>1 DEF TypeOK, SGoto, Server
  <2>3. /\ Sent(chan[c], "s", h).end["s"] = "open" <=> chan[c].end["s"] = "open"
        /\ Sent(chan[c], "s", h).end["c"] = "open" <=> chan[c].end["c"] = "open"
        /\ Sent(chan[c], "s", h).in["s"] = i
        /\ chan[c].end["c"] = "open" => Sent(chan[c], "s", h).in["c"] = out(c) \o h
    <3>1. /\ \A x \in Sides : /\ Sent(chan[c], x, h).end["c"] = "open" <=> chan[c].end["c"] = "open"
                              /\ Sent(chan[c], x, h).end["s"] = "open" <=> chan[c].end["s"] = "open"
          /\ Sent(chan[c], "s", h).in["s"] = chan[c].in["s"]
          /\ chan[c].end["c"] = "open" => Sent(chan[c], "s", h).in["c"] = chan[c].in["c"] \o h
      BY ONLY <1>2, SidesSend
    <3> QED
      BY ONLY <1>2, <3>1
  <2>4. v.end["s"] = "open" <=> chan[c].end["s"] = "open"
    BY <2>3
  <2>5. ASSUME Served(c)' PROVE OneClient(c)'
    <3>1. Served(c)
      BY <2>2, <2>4, <2>5 DEF Served, Running
    <3>2. chan[c].end["c"] = "open" /\ Flowing(c)
      BY <1>1, <1>2, <3>1 DEF OInv, OneClient, Stage, Fresh, Shaking, Unread, Greeted, SAt
    <3>3. h # <<>> /\ Held(c) = h /\ next = "recv"
      BY <1>1, <1>2, <3>2 DEF Flowing, Held
    <3>4. v = Sent(chan[c], "s", h)
      BY <3>3
    <3>5. /\ chan'[c].end["c"] = "open" /\ chan'[c].in["s"] = i
          /\ chan'[c].in["c"] = out(c) \o h
      BY <2>2, <2>3, <3>2, <3>4
    <3>6. Held(c)' = <<>> /\ out(c)' = out(c) \o h
      BY <2>2, <3>3, <3>5 DEF Held, SAt, out
    <3> HIDE DEF h, v, next
    <3> DEFINE w == out(c) \o h
    <3>7. /\ Line(w, <<>>, i, cl[c].got, cl[c].sent)
          /\ Len(w) = Len(out(c)) + Len(h)
      BY <1>2, <3>2, <3>3, LineSent DEF Flowing
    <3>8. cl[c].got + Len(w) + Len(<<>>) = cl[c].got + Len(out(c)) + Len(h)
      <4>1. \A m, n, g \in Nat : g + (m + n) + 0 = g + m + n
        OBVIOUS
      <4>2. Len(out(c)) \in Nat /\ Len(h) \in Nat /\ Len(<<>>) = 0
        BY <1>2
      <4> QED
        BY ONLY <1>2, <3>7, <4>1, <4>2
    <3> HIDE DEF w
    <3>9. Logs(log[c], cl[c].got + Len(w) + Len(<<>>))
      BY <3>2, <3>3, <3>8 DEF Flowing
    <3>10. out(c)' = w /\ cl' = cl /\ log' = log /\ version' = version
      BY <1>2, <3>6 DEF w
    <3>11. Line(out(c), Held(c), chan[c].in["s"], cl[c].got, cl[c].sent)'
      BY <3>5, <3>6, <3>7, <3>10
    <3>12. Logs(log[c], cl[c].got + Len(out(c)) + Len(Held(c)))'
      BY <3>6, <3>9, <3>10 DEF Logs
    <3>13. Flowing(c)'
      BY <1>4, <2>2, <3>2, <3>3, <3>10, <3>11, <3>12 DEF Flowing, SAt, Queued, Greets
    <3> QED
      BY <3>5, <3>13 DEF OneClient, Stage
  <2> HIDE DEF v
  <2> QED
    BY <1>1, <1>2, <1>4, <2>1, <2>2, <2>5, ServeOne
<1> QED
  BY <1>1, <1>3, <1>4 DEF Send, Write

LEMMA CloseOrder ==
    ASSUME IInv, OInv, Close, UNCHANGED <<version, cl>>
    PROVE  OInv'
<1>1. PICK c \in Clients : srv.con = c
  BY DEF Close, IInv, HasClient, SAt
<1>2. PICK how \in Hows : chan' = [chan EXCEPT ![c] = Closed(@, "s", how)]
  BY <1>1 DEF Close
<1>3. TypeOK /\ chan[c] \in Connection(Nat) /\ "s" \in Sides
  BY Parts DEF IInv
<1> DEFINE v == Closed(chan[c], "s", how)
<1>4. v.end["s"] # "open"
  BY <1>3, ClosedConn
<1>5. chan' = [chan EXCEPT ![c] = v] /\ log' = [log EXCEPT ![c] = log[c]]
  BY <1>2, <1>3 DEF TypeOK, Close
<1>6. chan'[c] = v /\ srv'.con = c
  BY <1>1, <1>3, <1>5 DEF TypeOK, Close, SGoto, Server
<1> HIDE DEF v
<1>7. ~ Served(c)'
  BY <1>4, <1>6 DEF Served
<1>8. UNCHANGED queue
  BY DEF Close
<1> QED
  BY <1>1, <1>3, <1>5, <1>6, <1>7, <1>8, ServeOne

-----------------------------------------------------------------------------
(* The clients.  One that has connected closes, or is served no more,        *)
LEMMA CCloseOrder ==
    ASSUME IInv, OInv, NEW c \in Clients, NEW pc \in {"exit", "dead"}, CClose(c, pc),
           ~ CAt(c, "connect"), UNCHANGED <<version, srv, queue, log>>
    PROVE  OInv'
<1>1. PICK how \in Hows : chan' = [chan EXCEPT ![c] = Closed(@, "c", how)]
  BY DEF CClose
<1> DEFINE v == Closed(chan[c], "c", how)
           r == [cl[c] EXCEPT !.pc = pc]
<1>2. TypeOK /\ cl[c] \in Client
  BY Parts DEF IInv
<1>3. chan' = [chan EXCEPT ![c] = v] /\ cl' = [cl EXCEPT ![c] = r]
  BY <1>1, <1>2 DEF TypeOK, CClose
<1>4. r.pc = pc /\ cl'[c] = r
  BY <1>2, <1>3 DEF Client, TypeOK
<1> HIDE DEF v, r
<1>5. ~ Served(c)' /\ r.pc # "connect"
  BY <1>4 DEF Served, Running
<1> QED
  BY <1>2, <1>3, <1>5, UseOne

LEMMA UnservedOrder ==
    ASSUME IInv, OInv, NEW c \in Clients, NEW v, chan' = [chan EXCEPT ![c] = v],
           v.end["s"] # "open", NEW r, cl' = [cl EXCEPT ![c] = r], r.pc # "connect",
           ~ CAt(c, "connect"), UNCHANGED <<version, srv, queue, log>>
    PROVE  OInv'
<1>1. TypeOK /\ chan'[c] = v
  BY DEF IInv, TypeOK
<1>2. ~ Served(c)'
  BY <1>1 DEF Served
<1> QED
  BY <1>1, <1>2, UseOne

(* connects,                                                                 *)
LEMMA ConnectOrder ==
    ASSUME IInv, OInv, NEW c \in Clients, Connect(c), UNCHANGED <<version, srv, log>>
    PROVE  OInv'
<1>1. /\ TypeOK /\ CAt(c, "connect") /\ UNCHANGED chan /\ queue \in Seq(Clients)
      /\ cl \in [Clients -> Client]
  BY DEF Connect, IInv, TypeOK
<1>2. ~ Queued(c)
  BY <1>1 DEF OInv, Came
<1>3. CASE SAt("dead")
  <2>1. cl' = [cl EXCEPT ![c].pc = "dead"] /\ UNCHANGED queue
    BY <1>3 DEF Connect
  <2>2. cl'[c].pc = "dead" /\ \A d \in Clients : d # c => cl'[d] = cl[d]
    BY <1>1, <2>1 DEF Client
  <2>3. QueuedOnce' /\ Came'
    BY <1>2, <2>1, <2>2 DEF OInv, QueuedOnce, Came, Queued, CAt
  <2>4. ASSUME NEW d \in Clients PROVE OneClient(d)'
    <3>1. CASE d = c
      BY <2>2, <3>1 DEF OneClient, Served, Running
    <3>2. CASE d # c
      <4>1. Queued(d)' <=> Queued(d)
        BY <2>1 DEF Queued
      <4> QED
        BY <1>1, <2>2, <3>2, <4>1, OtherKeeps
    <3> QED
      BY <3>1, <3>2
  <2> QED
    BY <2>3, <2>4 DEF OInv
<1>4. CASE ~ SAt("dead")
  <2>1. /\ cl' = [cl EXCEPT ![c].pc = IF Greets THEN "hello" ELSE "prompt"]
        /\ queue' = Append(queue, c)
    BY <1>4 DEF Connect
  <2>2. /\ cl'[c] = [cl[c] EXCEPT !.pc = IF Greets THEN "hello" ELSE "prompt"]
        /\ \A d \in Clients : d # c => cl'[d] = cl[d]
    BY <1>1, <2>1
  <2>3. /\ cl'[c].pc = IF Greets THEN "hello" ELSE "prompt"
        /\ cl'[c].sent = cl[c].sent /\ cl'[c].got = cl[c].got
    BY <1>1, <2>2 DEF Client
  <2>4. /\ Len(queue) \in Nat /\ Len(queue') = Len(queue) + 1
        /\ queue'[Len(queue) + 1] = c
        /\ \A k \in 1..Len(queue) : queue'[k] = queue[k] /\ k # Len(queue) + 1
        /\ \A k \in 1..Len(queue') : k \in 1..Len(queue) \/ k = Len(queue) + 1
        /\ \A k \in 1..Len(queue) : k \in 1..Len(queue')
        /\ Len(queue) + 1 \in 1..Len(queue')
    BY <1>1, <2>1
  <2>5. QueuedOnce'
    BY <1>2, <2>4 DEF OInv, QueuedOnce, Queued
  <2>6. ASSUME NEW d \in Clients, d # c PROVE Queued(d)' <=> Queued(d)
    BY <2>4, <2>6 DEF Queued
  <2>7. Queued(c)' /\ ~ CAt(c, "connect")'
    BY <2>3, <2>4 DEF Queued, CAt
  <2>8. Came'
    <3> SUFFICES ASSUME NEW d \in Clients, Queued(d)' PROVE ~ CAt(d, "connect")'
      BY DEF Came
    <3>1. CASE d = c
      BY <2>7, <3>1
    <3>2. CASE d # c
      BY <2>2, <2>6, <3>2 DEF OInv, Came, CAt
    <3> QED
      BY <3>1, <3>2
  <2>9. OneClient(c)'
    <3> SUFFICES ASSUME Served(c)'
                 PROVE  chan[c].end["c"] = "open" /\ Fresh(c)'
      BY <1>1 DEF OneClient, Stage
    <3>1. Served(c) /\ cl[c].pc = "connect"
      BY <1>1 DEF Served, Running, CAt
    <3>2. chan[c].end["c"] = "open" /\ Fresh(c)
      BY <3>1 DEF OInv, OneClient, Stage, Greeted, Flowing
    <3>3. srv.con # c
      BY <1>1, <3>2 DEF Fresh
    <3>4. Greets => Shaking(c)'
      BY <1>1, <2>3, <3>1, <3>2, <3>3 DEF Fresh, Shaking
    <3>5. ~ Greets => Unread(c)'
      BY <1>1, <2>3, <3>1, <3>2, <3>3 DEF Fresh, Unread
    <3> QED
      BY <1>1, <2>3, <2>7, <3>2, <3>3, <3>4, <3>5 DEF Fresh, Greets, out
  <2>10. ASSUME NEW d \in Clients, d # c PROVE OneClient(d)'
    BY <1>1, <2>2, <2>6, <2>10, OtherKeeps
  <2> QED
    BY <2>5, <2>8, <2>9, <2>10 DEF OInv
<1> QED
  BY <1>3, <1>4

(* says hello and takes the answer,                                          *)
LEMMA HelloSaid ==
    ASSUME IInv, OInv, NEW c \in Clients, CAt(c, "hello"),
           CSend(c, <<Greeting>>, [cl[c] EXCEPT !.pc = "hi"]),
           UNCHANGED <<version, srv, queue, log>>
    PROVE  OInv'
<1>1. /\ TypeOK /\ chan[c] \in Connection(Nat) /\ <<Greeting>> \in Seq(Nat)
      /\ <<Greeting>> # <<>> /\ cl[c] \in Client /\ ~ CAt(c, "connect") /\ "c" \in Sides
  BY Parts DEF IInv, Greeting, CAt
<1>2. CASE CClose(c, "dead")
  BY <1>1, <1>2, CCloseOrder
<1>3. CASE /\ chan' = [chan EXCEPT ![c] = Sent(@, "c", <<Greeting>>)]
           /\ cl' = [cl EXCEPT ![c] = [cl[c] EXCEPT !.pc = "hi"]]
  <2> DEFINE v == Sent(chan[c], "c", <<Greeting>>)
             r == [cl[c] EXCEPT !.pc = "hi"]
  <2>1. /\ v.end["s"] = "open" <=> chan[c].end["s"] = "open"
        /\ v.end["c"] = "open" <=> chan[c].end["c"] = "open"
        /\ v.in["c"] = chan[c].in["c"]
        /\ chan[c].end["s"] = "open" => v.in["s"] = chan[c].in["s"] \o <<Greeting>>
    BY ONLY <1>1, SidesSend
  <2>2. chan' = [chan EXCEPT ![c] = v] /\ cl' = [cl EXCEPT ![c] = r]
    BY <1>1, <1>3 DEF TypeOK
  <2>3. r.pc = "hi" /\ r.sent = cl[c].sent /\ r.got = cl[c].got
    BY <1>1 DEF Client
  <2>4. chan'[c] = v /\ cl'[c] = r
    BY <1>1, <2>2 DEF TypeOK
  <2> HIDE DEF v, r
  <2>5. ASSUME Served(c)' PROVE OneClient(c)'
    <3>1. Served(c) /\ chan[c].end["s"] = "open"
      BY <2>1, <2>4, <2>5 DEF Served, Running, CAt
    <3>2. chan[c].end["c"] = "open" /\ Fresh(c)
      BY <3>1 DEF OInv, OneClient, Stage, Greeted, Flowing, CAt
    <3>3. Greets /\ Shaking(c) /\ cl[c].pc = "hello"
      BY <3>2 DEF Fresh, Unread, CAt
    <3>4. /\ cl[c].sent = 0 /\ chan[c].in["s"] = <<>> /\ (srv.con = c => srv.pc = "hello")
      BY <3>3 DEF Shaking
    <3>5. v.in["s"] = <<Greeting>>
      <4>1. <<>> \o <<Greeting>> = <<Greeting>>
        BY <1>1
      <4> QED
        BY <2>1, <3>1, <3>4, <4>1
    <3>6. Shaking(c)'
      BY <2>3, <2>4, <3>4, <3>5 DEF Shaking
    <3>7. Fresh(c)'
      BY <2>1, <2>3, <2>4, <3>2, <3>3, <3>6 DEF Fresh, Greets, CAt, Queued, out
    <3> QED
      BY <2>1, <2>4, <3>2, <3>7 DEF OneClient, Stage
  <2>6. r.pc # "connect"
    BY <2>3
  <2> QED
    BY <1>1, <2>2, <2>5, <2>6, UseOne
<1> QED
  BY <1>1, <1>2, <1>3 DEF CSend

LEMMA HiTaken ==
    ASSUME IInv, OInv, NEW c \in Clients, CAt(c, "hi"), out(c) # <<>>,
           chan' = [chan EXCEPT ![c] = Taken(@, "c", 1)],
           cl' = [cl EXCEPT ![c].pc = "prompt"],
           UNCHANGED <<version, srv, queue, log>>
    PROVE  OInv'
<1>1. /\ TypeOK /\ chan[c] \in Connection(Nat) /\ cl[c] \in Client
      /\ ~ CAt(c, "connect") /\ "c" \in Sides /\ out(c) = chan[c].in["c"]
  BY Parts DEF IInv, CAt
<1> DEFINE v == Taken(chan[c], "c", 1)
           r == [cl[c] EXCEPT !.pc = "prompt"]
<1>2. /\ v.end = chan[c].end /\ v.in["s"] = chan[c].in["s"]
      /\ v.in["c"] = SubSeq(chan[c].in["c"], 1 + 1, Len(chan[c].in["c"]))
  BY ONLY <1>1, 1 \in Nat, SidesTake
<1>3. chan' = [chan EXCEPT ![c] = v] /\ cl' = [cl EXCEPT ![c] = r]
  BY <1>1 DEF TypeOK
<1>4. chan'[c] = v /\ cl'[c] = r /\ r.pc = "prompt" /\ r.sent = cl[c].sent /\ r.got = cl[c].got
  BY <1>1, <1>3 DEF TypeOK, Client
<1> HIDE DEF v, r
<1>5. ASSUME Served(c)' PROVE OneClient(c)'
  <2>1. Served(c)
    BY <1>2, <1>4, <1>5 DEF Served, Running, CAt
  <2>2. chan[c].end["c"] = "open" /\ Greeted(c)
    BY <2>1 DEF OInv, OneClient, Stage, Fresh, Flowing, CAt
  <2>3. v.in["c"] = <<>>
    <3>1. SubSeq(<<Greeting>>, 1 + 1, Len(<<Greeting>>)) = <<>>
      BY DEF Greeting
    <3>2. chan[c].in["c"] = <<Greeting>>
      BY <1>1, <2>2 DEF Greeted
    <3> QED
      BY ONLY <1>2, <3>1, <3>2
  <2>4. out(c)' = <<>> /\ Held(c)' = <<>> /\ chan'[c].in["s"] = <<>>
    BY <1>2, <1>4, <2>2, <2>3 DEF Greeted, out, Held, SAt
  <2>5. cl'[c].sent = 0 /\ cl'[c].got = 0 /\ log'[c] = <<>> /\ version = "src02"
    BY <1>4, <2>2 DEF Greeted, Greets
  <2>6. Line(<<>>, <<>>, <<>>, 0, 0) /\ Starts(<<>>, 0) /\ Len(<<>>) = 0
    BY DEF Line, Starts
  <2>7. Line(out(c), Held(c), chan[c].in["s"], cl[c].got, cl[c].sent)'
    BY <2>4, <2>5, <2>6
  <2>8. Logs(log[c], cl[c].got + Len(out(c)) + Len(Held(c)))'
    BY <2>4, <2>5, <2>6 DEF Logs
  <2>9. Flowing(c)'
    BY <1>4, <2>2, <2>7, <2>8 DEF Flowing, Greeted, Queued, SAt, Greets
  <2> QED
    BY <1>2, <1>4, <2>2, <2>9 DEF OneClient, Stage
<1>6. r.pc # "connect"
  BY <1>4
<1> QED
  BY <1>1, <1>3, <1>5, <1>6, UseOne

LEMMA HelloOrder ==
    ASSUME IInv, OInv, NEW c \in Clients, Hello(c), UNCHANGED <<version, srv, queue, log>>
    PROVE  OInv'
<1>1. ~ CAt(c, "connect")
  BY DEF Hello, CAt
<1>2. CASE CClose(c, "dead")
  BY <1>1, <1>2, CCloseOrder
<1>3. CASE /\ AtEnd(chan[c], "c")
           /\ cl' = [cl EXCEPT ![c].pc = "prompt"]
           /\ UNCHANGED chan
  <2>1. chan[c].end["s"] # "open" /\ TypeOK /\ cl[c] \in Client
    BY <1>3, Parts DEF AtEnd, IInv
  <2> DEFINE r == [cl[c] EXCEPT !.pc = "prompt"]
  <2>2. chan' = [chan EXCEPT ![c] = chan[c]] /\ cl' = [cl EXCEPT ![c] = r]
    BY <1>3, <2>1 DEF TypeOK
  <2>3. r.pc # "connect"
    BY <2>1 DEF Client
  <2> HIDE DEF r
  <2> QED
    BY <1>1, <2>1, <2>2, <2>3, UnservedOrder
<1> QED
  BY <1>2, <1>3, HelloSaid, HiTaken DEF Hello

(* sends a word and prints what comes back.                                  *)
LEMMA WordSent ==
    ASSUME IInv, OInv, NEW c \in Clients, CAt(c, "prompt"), NEW n \in Nat,
           NEW b \in Seq(Nat), b = [k \in 1..n |-> cl[c].sent + k],
           chan' = [chan EXCEPT ![c] = IF b = <<>> THEN @ ELSE Sent(@, "c", b)],
           NEW r, cl' = [cl EXCEPT ![c] = r],
           r.pc = IF n = 0 THEN "close" ELSE "recv",
           r.sent = cl[c].sent + n, r.got = cl[c].got, Greets => n > 0,
           UNCHANGED <<version, srv, queue, log>>
    PROVE  OInv'
<1> DEFINE v == IF b = <<>> THEN chan[c] ELSE Sent(chan[c], "c", b)
           i == chan[c].in["s"]
<1>1. /\ TypeOK /\ chan[c] \in Connection(Nat) /\ ~ CAt(c, "connect") /\ "c" \in Sides
      /\ out(c) = chan[c].in["c"] /\ i \in Seq(Nat) /\ out(c) \in Seq(Nat)
      /\ cl[c].sent \in Nat /\ cl[c].got \in Nat /\ srv.piece \in Seq(Nat)
      /\ Len(out(c)) \in Nat /\ Len(i) \in Nat /\ b \in Seq(Nat)
  BY Parts DEF IInv, CAt
<1>2. Starts(b, cl[c].sent) /\ Len(b) = n
  BY <1>1 DEF Starts
<1>3. \A x \in Sides :
        /\ Sent(chan[c], x, b).end["c"] = "open" <=> chan[c].end["c"] = "open"
        /\ Sent(chan[c], x, b).end["s"] = "open" <=> chan[c].end["s"] = "open"
  BY ONLY <1>1, SidesSend
<1>4. /\ Sent(chan[c], "c", b).in["c"] = chan[c].in["c"]
      /\ chan[c].end["s"] = "open" => Sent(chan[c], "c", b).in["s"] = i \o b
  BY ONLY <1>1, SidesSend
<1>5. b = <<>> => i \o b = i
  BY <1>1
<1>6. /\ v.end["c"] = "open" <=> chan[c].end["c"] = "open"
      /\ v.end["s"] = "open" <=> chan[c].end["s"] = "open"
      /\ v.in["c"] = out(c)
      /\ chan[c].end["s"] = "open" => v.in["s"] = i \o b
  <2>1. CASE b = <<>>
    BY <1>1, <1>5, <2>1
  <2>2. CASE b # <<>>
    <3>1. v = Sent(chan[c], "c", b)
      BY <2>2
    <3> HIDE DEF v, i
    <3> QED
      BY ONLY <1>1, <1>3, <1>4, <3>1
  <2> QED
    BY <2>1, <2>2
<1>7. chan' = [chan EXCEPT ![c] = v]
  BY <1>1 DEF TypeOK
<1>8. chan'[c] = v /\ cl'[c] = r
  BY <1>1, <1>7 DEF TypeOK
<1> HIDE DEF v
<1>9. ASSUME Served(c)' PROVE OneClient(c)'
  <2>1. Served(c) /\ chan[c].end["s"] = "open"
    BY <1>6, <1>8, <1>9 DEF Served, Running, CAt
  <2>2. chan[c].end["c"] = "open" /\ (Fresh(c) \/ Flowing(c))
    BY <2>1 DEF OInv, OneClient, Stage, Greeted, CAt
  <2>3. chan'[c].in["s"] = i \o b /\ out(c)' = out(c) /\ Held(c)' = Held(c)
    BY <1>6, <1>8, <2>1 DEF out, Held, SAt
  <2>4. CASE Fresh(c)
    <3>1. ~ Greets /\ Unread(c)
      BY <2>4 DEF Fresh, Shaking, CAt
    <3>2. Starts(i, 0) /\ Len(i) = cl[c].sent /\ (srv.con = c => srv.pc = "first")
      BY <3>1 DEF Unread
    <3>3. Starts(b, 0 + Len(i))
      BY <1>1, <1>2, <3>2
    <3>4. Starts(i \o b, 0) /\ Len(i \o b) = Len(i) + Len(b)
      BY <1>1, <3>2, <3>3, StartsJoined
    <3>5. r.sent = Len(i) + Len(b) /\ (r.pc = "recv" <=> r.sent > 0)
      <4>1. cl[c].sent = 0
        BY <1>1, <3>1 DEF Unread, CAt
      <4> QED
        BY <1>1, <1>2, <3>2, <4>1
    <3>6. Unread(c)'
      <4>1. cl'[c].pc \in {"close", "recv"}
        BY <1>8
      <4>2. Starts(chan[c].in["s"], 0)' /\ Len(chan'[c].in["s"]) = cl'[c].sent
        BY <1>8, <2>3, <3>4, <3>5
      <4> QED
        BY <1>8, <3>2, <3>5, <4>1, <4>2 DEF Unread
    <3>7. Fresh(c)'
      BY <1>1, <1>8, <2>3, <2>4, <3>1, <3>6 DEF Fresh, Greets, CAt, Queued
    <3> QED
      BY <1>6, <1>8, <2>2, <3>7 DEF OneClient, Stage
  <2>5. CASE Flowing(c)
    <3>1. Held(c) \in Seq(Nat)
      BY <1>1 DEF Held
    <3>2. Line(out(c), Held(c), i, cl[c].got, cl[c].sent)
      BY <2>5 DEF Flowing
    <3>3. Line(out(c), Held(c), i \o b, cl[c].got, cl[c].sent + Len(b))
      BY <1>1, <1>2, <3>1, <3>2, LineTyped
    <3>4. Line(out(c), Held(c), chan[c].in["s"], cl[c].got, cl[c].sent)'
      BY <1>2, <1>8, <2>3, <3>3
    <3>5. Logs(log[c], cl[c].got + Len(out(c)) + Len(Held(c)))'
      BY <1>8, <2>3, <2>5 DEF Flowing, Logs
    <3>6. r.pc = "recv" => r.got < r.sent
      <4>1. Len(Held(c)) \in Nat /\ cl[c].got + Len(out(c)) + Len(Held(c)) + Len(i) = cl[c].sent
        BY <3>1, <3>2 DEF Line
      <4>2. \A g, k, l, m \in Nat : g <= g + k + l + m
        OBVIOUS
      <4>3. cl[c].got <= cl[c].sent
        BY ONLY <1>1, <4>1, <4>2
      <4> QED
        BY <1>1, <4>3
    <3>7. Flowing(c)'
      <4>1. cl'[c].pc = "recv"
        BY <1>8, <2>5 DEF Flowing, CAt
      <4> QED
        BY <1>8, <2>5, <3>4, <3>5, <3>6, <4>1 DEF Flowing, Queued, SAt
    <3> QED
      BY <1>6, <1>8, <2>2, <3>7 DEF OneClient, Stage
  <2> QED
    BY <2>2, <2>4, <2>5
<1>10. r.pc # "connect"
  OBVIOUS
<1> QED
  BY <1>1, <1>7, <1>9, <1>10, UseOne

LEMMA WordOrder ==
    ASSUME IInv, OInv, NEW c \in Clients, Word(c), UNCHANGED <<version, srv, queue, log>>
    PROVE  OInv'
<1>1. PICK n \in Lengths :
        /\ CAt(c, "prompt") /\ cl[c].left > 0
        /\ Greets => n \in 1..BufSize - 1
        /\ CSend(c, [k \in 1..n |-> cl[c].sent + k],
                 [cl[c] EXCEPT !.pc = IF n = 0 THEN "close" ELSE "recv",
                               !.sent = @ + n,
                               !.left = IF Greets THEN @ - 1 ELSE 0])
  BY DEF Word
<1>2. /\ cl[c] \in Client /\ n \in Nat /\ cl[c].sent \in Nat /\ ~ CAt(c, "connect")
      /\ Greets => n > 0
  BY <1>1, EchoAssumption, Parts DEF IInv, CAt
<1> DEFINE b == [k \in 1..n |-> cl[c].sent + k]
           pc == IF n = 0 THEN "close" ELSE "recv"
           left == IF Greets THEN cl[c].left - 1 ELSE 0
           r == [cl[c] EXCEPT !.pc = pc, !.sent = @ + n, !.left = left]
<1>3. b \in Seq(Nat)
  BY <1>2
<1>4. r.pc = pc /\ r.sent = cl[c].sent + n /\ r.got = cl[c].got
  BY <1>2 DEF Client
<1>5. pc = IF n = 0 THEN "close" ELSE "recv"
  OBVIOUS
<1>6. b = [k \in 1..n |-> cl[c].sent + k]
  OBVIOUS
<1>7. CSend(c, b, r)
  BY <1>1
<1> HIDE DEF b, r, pc, left
<1>8. CASE CClose(c, "dead")
  BY <1>2, <1>8, CCloseOrder
<1>9. CASE /\ chan' = [chan EXCEPT ![c] = IF b = <<>> THEN @ ELSE Sent(@, "c", b)]
           /\ cl' = [cl EXCEPT ![c] = r]
  BY <1>1, <1>2, <1>3, <1>4, <1>5, <1>6, <1>9, WordSent
<1> QED
  BY <1>7, <1>8, <1>9 DEF CSend

LEMMA PiecePrinted ==
    ASSUME IInv, OInv, NEW c \in Clients, CAt(c, "recv"), NEW j \in Nat, j > 0,
           j <= Len(out(c)), chan' = [chan EXCEPT ![c] = Taken(@, "c", j)],
           NEW r, cl' = [cl EXCEPT ![c] = r], r.pc = After(c, j),
           r.got = cl[c].got + j, r.sent = cl[c].sent,
           UNCHANGED <<version, srv, queue, log>>
    PROVE  OInv'
<1> DEFINE v == Taken(chan[c], "c", j)
           i == chan[c].in["s"]
           o == out(c)
           w == SubSeq(o, j + 1, Len(o))
<1>1. /\ TypeOK /\ chan[c] \in Connection(Nat) /\ ~ CAt(c, "connect") /\ "c" \in Sides
      /\ o = chan[c].in["c"] /\ i \in Seq(Nat) /\ o \in Seq(Nat) /\ j \in 1..Len(o)
      /\ cl[c].sent \in Nat /\ cl[c].got \in Nat /\ srv.piece \in Seq(Nat)
      /\ Len(o) \in Nat /\ Len(i) \in Nat /\ BufSize \in Nat /\ o # <<>>
  BY Parts, EchoAssumption DEF IInv, CAt
<1>2. v.end = chan[c].end /\ v.in["s"] = i /\ v.in["c"] = w
  <2>1. /\ v.end = chan[c].end /\ v.in["s"] = chan[c].in["s"]
        /\ v.in["c"] = SubSeq(chan[c].in["c"], j + 1, Len(chan[c].in["c"]))
    BY ONLY <1>1, j \in Nat, SidesTake
  <2>2. o = chan[c].in["c"]
    BY <1>1
  <2> HIDE DEF v, o
  <2> QED
    BY ONLY <2>1, <2>2
<1>3. chan' = [chan EXCEPT ![c] = v]
  BY <1>1 DEF TypeOK
<1>4. chan'[c] = v /\ cl'[c] = r
  BY <1>1, <1>3 DEF TypeOK
<1>5. /\ r.pc \in {"recv", "prompt", "close"}
      /\ r.pc = "recv" => r.got < r.sent \/ (Greets /\ r.got >= BufSize - 1)
      /\ r.pc = "close" => r.got >= r.sent
      /\ r.pc = "prompt" => Greets
  BY <1>1 DEF After
<1> HIDE DEF v
<1>6. ASSUME Served(c)' PROVE OneClient(c)'
  <2>1. Served(c)
    BY <1>2, <1>4, <1>6 DEF Served, Running, CAt
  <2>2. chan[c].end["c"] = "open" /\ Flowing(c)
    BY <1>1, <2>1 DEF OInv, OneClient, Stage, Fresh, Greeted, CAt
  <2>3. Held(c) \in Seq(Nat) /\ Len(Held(c)) \in Nat
    BY <1>1 DEF Held
  <2>4. Line(o, Held(c), i, cl[c].got, cl[c].sent)
    BY <2>2 DEF Flowing
  <2>5. /\ Line(w, Held(c), i, cl[c].got + j, cl[c].sent)
        /\ Len(w) = Len(o) - j
    BY <1>1, <2>3, <2>4, LinePrinted
  <2>6. chan'[c].in["s"] = i /\ out(c)' = w /\ Held(c)' = Held(c)
    BY <1>2, <1>4 DEF out, Held, SAt
  <2>7. Line(out(c), Held(c), chan[c].in["s"], cl[c].got, cl[c].sent)'
    BY <1>4, <2>5, <2>6
  <2>8. cl[c].got + j + Len(w) + Len(Held(c)) = cl[c].got + Len(o) + Len(Held(c))
    <3>1. \A g, l, m \in Nat : g + j + (l - j) + m = g + l + m
      OBVIOUS
    <3> QED
      BY ONLY <1>1, <2>3, <2>5, <3>1
  <2>12. r.pc = "close" => r.got = r.sent
    <3>1. \A g, k, l, m \in Nat : g + k + l + m >= g
      OBVIOUS
    <3>2. Len(w) \in Nat
      BY <1>1
    <3> DEFINE g == cl[c].got + j
               k == Len(w)
               l == Len(Held(c))
               m == Len(i)
    <3>3. g + k + l + m = r.sent
      BY <2>5 DEF Line
    <3>4. g \in Nat /\ k \in Nat /\ l \in Nat /\ m \in Nat /\ r.got = g
      BY <1>1, <2>3, <3>2
    <3> HIDE DEF g, k, l, m
    <3>5. r.sent >= r.got /\ r.sent \in Nat /\ r.got \in Nat
      BY ONLY <3>1, <3>3, <3>4
    <3> QED
      BY ONLY <1>5, <3>5
  <2> HIDE DEF w
  <2>9. Logs(log[c], cl[c].got + j + Len(w) + Len(Held(c)))
    BY <2>2, <2>8 DEF Flowing
  <2>10. Logs(log[c], cl[c].got + Len(out(c)) + Len(Held(c)))'
    BY <1>4, <2>6, <2>9 DEF Logs
  <2>11. Flowing(c)'
    BY <1>4, <1>5, <2>2, <2>7, <2>10, <2>12 DEF Flowing, Queued, SAt, Greets
  <2> QED
    BY <1>2, <1>4, <2>2, <2>11 DEF OneClient, Stage
<1>7. r.pc # "connect"
  BY <1>5
<1> QED
  BY <1>1, <1>3, <1>6, <1>7, UseOne

LEMMA EchoedOrder ==
    ASSUME IInv, OInv, NEW c \in Clients, Echoed(c), UNCHANGED <<version, srv, queue, log>>
    PROVE  OInv'
<1>1. CAt(c, "recv") /\ ~ CAt(c, "connect") /\ TypeOK /\ cl[c] \in Client
  BY Parts DEF Echoed, CAt, IInv
<1>2. CASE CClose(c, "dead")
  BY <1>1, <1>2, CCloseOrder
<1>3. CASE \E j \in 1..BufSize - 1 :
            /\ j <= Len(out(c))
            /\ chan' = [chan EXCEPT ![c] = Taken(@, "c", j)]
            /\ cl' = [cl EXCEPT ![c].pc = After(c, j), ![c].got = @ + j]
  <2>1. PICK j \in 1..BufSize - 1 :
            /\ j <= Len(out(c))
            /\ chan' = [chan EXCEPT ![c] = Taken(@, "c", j)]
            /\ cl' = [cl EXCEPT ![c].pc = After(c, j), ![c].got = @ + j]
    BY <1>3
  <2>2. j \in Nat /\ j > 0
    BY EchoAssumption
  <2> DEFINE pc == After(c, j)
             r == [cl[c] EXCEPT !.pc = pc, !.got = @ + j]
  <2>3. cl' = [cl EXCEPT ![c].pc = pc, ![c].got = @ + j] /\ pc = After(c, j)
    BY <2>1
  <2> HIDE DEF pc
  <2>4. r.pc = pc /\ r.got = cl[c].got + j /\ r.sent = cl[c].sent
    BY <1>1 DEF Client
  <2>5. cl' = [cl EXCEPT ![c] = r]
    BY <1>1, <2>3 DEF TypeOK
  <2> HIDE DEF r
  <2> QED
    BY <1>1, <2>1, <2>2, <2>3, <2>4, <2>5, PiecePrinted
<1> QED
  BY <1>2, <1>3 DEF Echoed

-----------------------------------------------------------------------------
LEMMA InitOrder == Init => OInv
<1> SUFFICES ASSUME Init PROVE OInv
  OBVIOUS
<1>1. QueuedOnce /\ Came /\ \A c \in Clients : ~ Queued(c)
  BY DEF Init, QueuedOnce, Came, Queued
<1>2. ASSUME NEW c \in Clients PROVE OneClient(c)
  <2>1. /\ chan[c].in["s"] = <<>> /\ out(c) = <<>> /\ chan[c].end["c"] = "open"
        /\ cl[c].pc = "connect" /\ cl[c].sent = 0 /\ cl[c].got = 0 /\ log[c] = <<>>
        /\ srv.con # c
    BY EchoAssumption DEF Init, Sides, out
  <2>2. Starts(<<>>, 0) /\ Len(<<>>) = 0
    BY DEF Starts
  <2>3. Fresh(c)
    BY <1>1, <2>1, <2>2 DEF Fresh, Shaking, Unread, CAt
  <2> QED
    BY <2>1, <2>3 DEF OneClient, Stage
<1> QED
  BY <1>1, <1>2 DEF OInv

LEMMA StepOrder == IInv /\ OInv /\ [Next]_vars => OInv'
<1> SUFFICES ASSUME IInv, OInv, [Next]_vars PROVE OInv'
  OBVIOUS
<1>1. CASE UNCHANGED vars
  <2>1. QueuedOnce' /\ Came'
    BY <1>1 DEF vars, OInv, QueuedOnce, Came, Queued, CAt
  <2>2. ASSUME NEW d \in Clients PROVE OneClient(d)'
    <3>1. Queued(d)' <=> Queued(d)
      BY <1>1 DEF vars, Queued
    <3> QED
      BY <1>1, <3>1, OtherKeeps DEF vars
  <2> QED
    BY <2>1, <2>2 DEF OInv
<1>2. CASE Serve
  BY <1>2, AcceptOrder, GreetOrder, RecvOrder, SendOrder, CloseOrder DEF Serve
<1>3. ASSUME NEW c \in Clients, Use(c) PROVE OInv'
  <2>1. CASE Connect(c)
    BY <1>3, <2>1, ConnectOrder DEF Use
  <2>2. CASE (Hello(c) \/ Word(c) \/ Echoed(c)) /\ UNCHANGED queue
    BY <1>3, <2>2, HelloOrder, WordOrder, EchoedOrder DEF Use
  <2>3. CASE (Quit(c) \/ End(c)) /\ UNCHANGED queue
    BY <1>3, <2>3, CCloseOrder DEF Use, Quit, End, CAt
  <2> QED
    BY <1>3, <2>1, <2>2, <2>3 DEF Use
<1>4. ASSUME NEW c \in Clients, Crash(c) PROVE OInv'
  BY <1>4, CCloseOrder DEF Crash
<1> QED
  BY <1>1, <1>2, <1>3, <1>4 DEF Next

LEMMA OrderInvariance == Spec => [](IInv /\ OInv)
<1>1. Init => IInv /\ OInv
  BY InitInv, InitOrder
<1>2. IInv /\ OInv /\ [Next]_vars => (IInv /\ OInv)'
  BY StepInv, StepOrder
<1> QED
  BY <1>1, <1>2, PTL DEF Spec

-----------------------------------------------------------------------------
(* What that is in the words of EchoTcp.tla.  Bytes in order are numbers in a *)
(* row, none of them a hello or a hi.                                        *)
LEMMA StartsRun ==
    ASSUME NEW us \in Seq(Nat), NEW a \in Nat, Starts(us, a)
    PROVE  /\ Bytes(us) = us
           /\ us = Run(a + 1, a + Len(us))
<1>1. /\ Len(us) \in Nat /\ DOMAIN us = 1..Len(us) /\ (a + Len(us)) - (a + 1) + 1 = Len(us)
      /\ us = [k \in 1..Len(us) |-> us[k]]
  OBVIOUS
<1>2. us # <<Greeting>>
  <2> SUFFICES ASSUME us = <<Greeting>> PROVE FALSE
    OBVIOUS
  <2>1. 1 \in 1..Len(us) /\ us[1] = 0
    BY DEF Greeting
  <2>2. us[1] = a + 1
    BY <2>1 DEF Starts
  <2> QED
    BY <2>1, <2>2
<1>3. \A k \in 1..Len(us) : us[k] = (a + 1) - 1 + k
  BY DEF Starts
<1>4. Run(a + 1, a + Len(us)) = [k \in 1..Len(us) |-> (a + 1) - 1 + k]
  BY <1>1 DEF Run
<1> QED
  BY <1>1, <1>2, <1>3, <1>4 DEF Bytes

LEMMA LineRun ==
    ASSUME NEW o \in Seq(Nat), NEW h \in Seq(Nat), NEW i \in Seq(Nat), NEW g \in Nat, NEW s \in Nat,
           Line(o, h, i, g, s)
    PROVE  /\ o \o h \o i = Run(g + 1, s)
           /\ s - Len(i) = g + Len(o) + Len(h)
<1> DEFINE w == o \o h
           a == w \o i
<1>1. /\ Starts(o, g) /\ Starts(h, g + Len(o)) /\ Starts(i, g + Len(o) + Len(h))
      /\ g + Len(o) + Len(h) + Len(i) = s
      /\ Len(o) \in Nat /\ Len(h) \in Nat /\ Len(i) \in Nat
  BY DEF Line
<1>2. w \in Seq(Nat) /\ Len(w) = Len(o) + Len(h) /\ Starts(w, g)
  BY <1>1, StartsJoined
<1> HIDE DEF w
<1>3. Starts(i, g + Len(w))
  <2>1. g + Len(w) = g + Len(o) + Len(h)
    BY <1>1, <1>2
  <2> QED
    BY <1>1, <2>1
<1>4. a \in Seq(Nat) /\ Len(a) = Len(w) + Len(i) /\ Starts(a, g)
  BY <1>2, <1>3, StartsJoined
<1> HIDE DEF a
<1>5. a = Run(g + 1, g + Len(a))
  BY <1>4, StartsRun
<1>6. \A l, m, n \in Nat : g + ((l + m) + n) = g + l + m + n /\ (g + l + m + n) - n = g + l + m
  OBVIOUS
<1>7. g + Len(a) = s /\ s - Len(i) = g + Len(o) + Len(h)
  <2>1. /\ g + ((Len(o) + Len(h)) + Len(i)) = g + Len(o) + Len(h) + Len(i)
        /\ (g + Len(o) + Len(h) + Len(i)) - Len(i) = g + Len(o) + Len(h)
    BY <1>1, <1>6
  <2>2. Len(a) = (Len(o) + Len(h)) + Len(i)
    BY <1>2, <1>4
  <2> QED
    BY ONLY <1>1, <2>1, <2>2
<1> QED
  BY <1>5, <1>7 DEF a, w

LEMMA NoBytes == Bytes(<<>>) = <<>> /\ Bytes(<<Greeting>>) = <<>>
BY DEF Bytes

(* What every client that is served has sent and not got back, and its log.  *)
LEMMA Settled ==
    ASSUME IInv, OInv, NEW c \in Clients, Served(c)
    PROVE  LET o == Bytes(out(c))
               i == Bytes(chan[c].in["s"])
               n == cl[c].got + Len(o) + Len(Held(c))
           IN /\ o \in Seq(Nat) /\ Held(c) \in Seq(Nat) /\ i \in Seq(Nat)
              /\ Line(o, Held(c), i, cl[c].got, cl[c].sent)
              /\ (log[c] = <<>> /\ n = 0) \/ Logs(log[c], n)
<1>1. /\ chan[c].in["s"] \in Seq(Nat) /\ out(c) \in Seq(Nat) /\ srv.piece \in Seq(Nat)
      /\ cl[c].got \in Nat /\ cl[c].sent \in Nat
  BY Parts DEF IInv
<1>2. Fresh(c) \/ Greeted(c) \/ Flowing(c)
  BY DEF OInv, OneClient, Stage
<1>3. /\ <<>> \in Seq(Nat) /\ Len(<<>>) = 0 /\ Starts(<<>>, 0)
      /\ Line(<<>>, <<>>, <<>>, 0, 0) /\ 0 + 0 + 0 = 0
  BY DEF Starts, Line
<1>4. CASE Greeted(c) \/ (Fresh(c) /\ Greets)
  <2>1. /\ out(c) \in {<<>>, <<Greeting>>} /\ chan[c].in["s"] \in {<<>>, <<Greeting>>}
        /\ cl[c].got = 0 /\ cl[c].sent = 0 /\ log[c] = <<>> /\ Held(c) = <<>>
    BY <1>4 DEF Greeted, Fresh, Shaking, Held, SAt
  <2>2. Bytes(out(c)) = <<>> /\ Bytes(chan[c].in["s"]) = <<>>
    BY <2>1, NoBytes
  <2> QED
    BY <1>3, <2>1, <2>2
<1>5. CASE Fresh(c) /\ ~ Greets
  <2>1. Unread(c) /\ out(c) = <<>> /\ cl[c].got = 0 /\ log[c] = <<>>
    BY <1>5 DEF Fresh
  <2>2. /\ Starts(chan[c].in["s"], 0) /\ Len(chan[c].in["s"]) = cl[c].sent
        /\ Held(c) = <<>>
    BY <2>1 DEF Unread, Held, SAt
  <2>3. Bytes(chan[c].in["s"]) = chan[c].in["s"] /\ Bytes(out(c)) = <<>>
    BY <1>1, <2>1, <2>2, StartsRun, NoBytes
  <2>4. Line(<<>>, <<>>, chan[c].in["s"], 0, cl[c].sent)
    BY <1>1, <1>3, <2>2 DEF Line
  <2> QED
    BY <1>1, <1>3, <2>1, <2>2, <2>3, <2>4
<1>6. CASE Flowing(c)
  <2>1. Held(c) \in Seq(Nat)
    BY <1>1 DEF Held
  <2>2. /\ Line(out(c), Held(c), chan[c].in["s"], cl[c].got, cl[c].sent)
        /\ Logs(log[c], cl[c].got + Len(out(c)) + Len(Held(c)))
    BY <1>6 DEF Flowing
  <2>3. /\ Starts(out(c), cl[c].got) /\ cl[c].got + Len(out(c)) + Len(Held(c)) \in Nat
        /\ Starts(chan[c].in["s"], cl[c].got + Len(out(c)) + Len(Held(c)))
    BY <1>1, <2>1, <2>2 DEF Line
  <2>4. Bytes(out(c)) = out(c) /\ Bytes(chan[c].in["s"]) = chan[c].in["s"]
    BY <1>1, <2>3, StartsRun
  <2> QED
    BY <1>1, <2>1, <2>2, <2>4
<1> QED
  BY <1>2, <1>4, <1>5, <1>6

LEMMA OrderHolds == IInv /\ OInv => InOrder
<1> SUFFICES ASSUME IInv, OInv, NEW c \in Clients, Served(c)
             PROVE  Bytes(out(c)) \o Held(c) \o Bytes(chan[c].in["s"])
                        = Run(cl[c].got + 1, cl[c].sent)
  BY DEF InOrder
<1> DEFINE o == Bytes(out(c))
           i == Bytes(chan[c].in["s"])
<1>1. /\ o \in Seq(Nat) /\ Held(c) \in Seq(Nat) /\ i \in Seq(Nat)
      /\ Line(o, Held(c), i, cl[c].got, cl[c].sent)
  BY Settled
<1>2. cl[c].got \in Nat /\ cl[c].sent \in Nat
  BY Parts DEF IInv
<1> DEFINE h == Held(c)
           g == cl[c].got
           s == cl[c].sent
<1>3. /\ o \in Seq(Nat) /\ h \in Seq(Nat) /\ i \in Seq(Nat) /\ g \in Nat /\ s \in Nat
      /\ Line(o, h, i, g, s)
  BY <1>1, <1>2
<1> HIDE DEF o, i, h, g, s
<1>4. o \o h \o i = Run(g + 1, s) /\ s - Len(i) = g + Len(o) + Len(h)
  BY ONLY <1>3, LineRun
<1> QED
  BY <1>4 DEF o, i, h, g, s

LEMMA LogHolds == IInv /\ OInv => LogMatches
<1> SUFFICES ASSUME IInv, OInv, NEW c \in Clients, Served(c)
             PROVE  LET received == Run(1, cl[c].sent - Len(Bytes(chan[c].in["s"]))) IN
                    CASE version = "src"   -> log[c] = <<>>
                      [] version = "src01" -> /\ log[c] = SubSeq(received, 1, Len(log[c]))
                                              /\ received # <<>> => log[c] # <<>>
                      [] version = "src02" -> log[c] = received
  BY DEF LogMatches
<1> DEFINE o == Bytes(out(c))
           i == Bytes(chan[c].in["s"])
           h == Held(c)
           n == cl[c].got + Len(o) + Len(h)
           l == log[c]
<1>1. /\ o \in Seq(Nat) /\ h \in Seq(Nat) /\ i \in Seq(Nat)
      /\ Line(o, h, i, cl[c].got, cl[c].sent)
      /\ (l = <<>> /\ n = 0) \/ Logs(l, n)
  BY Settled
<1>2. /\ cl[c].got \in Nat /\ cl[c].sent \in Nat /\ l \in Seq(Nat)
      /\ version \in {"src", "src01", "src02"}
  BY Parts, EchoAssumption DEF IInv, TypeOK
<1>3. cl[c].sent - Len(i) = n /\ n \in Nat
  <2> DEFINE g == cl[c].got
             s == cl[c].sent
  <2>1. /\ o \in Seq(Nat) /\ h \in Seq(Nat) /\ i \in Seq(Nat) /\ g \in Nat /\ s \in Nat
        /\ Line(o, h, i, g, s)
    BY <1>1, <1>2
  <2> HIDE DEF o, i, h, g, s
  <2>2. o \o h \o i = Run(g + 1, s) /\ s - Len(i) = g + Len(o) + Len(h)
    BY ONLY <2>1, LineRun
  <2>3. cl[c].sent - Len(i) = cl[c].got + Len(o) + Len(h)
    BY <2>2 DEF g, s
  <2>4. Len(o) \in Nat /\ Len(h) \in Nat
    BY <1>1
  <2> QED
    BY <1>2, <2>3, <2>4
<1> HIDE DEF n, o, h, l
<1>4. Run(1, n) = [k \in 1..n |-> k] /\ Run(1, n) \in Seq(Nat) /\ Len(Run(1, n)) = n
  <2>1. n - 1 + 1 = n /\ \A k \in 1..n : 1 - 1 + k = k /\ k \in Nat
    BY <1>3
  <2>2. Run(1, n) = [k \in 1..n |-> 1 - 1 + k]
    BY <2>1 DEF Run
  <2>3. Run(1, n) = [k \in 1..n |-> k]
    BY <2>1, <2>2
  <2> QED
    BY <1>3, <2>1, <2>3
<1>5. CASE version = "src"
  <2>1. l = <<>>
    BY <1>1, <1>5 DEF Logs
  <2> QED
    BY <1>5, <2>1 DEF l
<1>6. CASE version = "src02"
  <2>1. l = Run(1, n)
    <3>1. CASE l = <<>> /\ n = 0
      BY <1>4, <3>1
    <3>2. CASE Logs(l, n)
      <4>1. Starts(l, 0) /\ Len(l) = n
        BY <1>6, <3>2 DEF Logs
      <4>2. l = Run(0 + 1, 0 + Len(l))
        BY <1>2, <4>1, StartsRun
      <4> QED
        BY <1>3, <4>1, <4>2
    <3> QED
      BY <1>1, <3>1, <3>2
  <2> QED
    BY <1>3, <1>6, <2>1 DEF l
<1>7. CASE version = "src01"
  <2>1. l = SubSeq(Run(1, n), 1, Len(l)) /\ (Run(1, n) # <<>> => l # <<>>)
    <3>1. CASE l = <<>> /\ n = 0
      BY <1>4, <3>1
    <3>2. CASE Logs(l, n)
      <4>1. Starts(l, 0) /\ Len(l) > 0 /\ Len(l) <= n /\ Len(l) \in Nat
        BY <1>2, <1>7, <3>2 DEF Logs
      <4>2. \A k \in 1..Len(l) : l[k] = k
        BY <4>1 DEF Starts
      <4>3. SubSeq(Run(1, n), 1, Len(l)) = [k \in 1..Len(l) |-> k]
        BY <1>3, <1>4, <4>1
      <4>4. l = [k \in 1..Len(l) |-> l[k]] /\ l # <<>>
        BY <1>2, <4>1
      <4> QED
        BY <4>2, <4>3, <4>4
    <3> QED
      BY <1>1, <3>1, <3>2
  <2> QED
    BY <1>3, <1>7, <2>1 DEF l
<1> QED
  BY <1>2, <1>5, <1>6, <1>7

LEMMA WaitHolds == IInv /\ OInv => WaitExplained
<1> SUFFICES ASSUME IInv, OInv, NEW c \in Clients,
                    CAt(c, "recv"), srv.con = c, SAt("recv"),
                    chan[c].in = [x \in Sides |-> <<>>], Served(c)
             PROVE  Greets /\ cl[c].got = cl[c].sent /\ cl[c].got >= BufSize - 1
  BY DEF WaitExplained
<1>1. Flowing(c)
  BY DEF OInv, OneClient, Stage, Fresh, Shaking, Unread, Greeted, CAt, SAt
<1>2. chan[c].in["s"] = <<>> /\ out(c) = <<>> /\ Held(c) = <<>>
  BY DEF Sides, out, Held, SAt
<1>3. /\ Line(<<>>, <<>>, <<>>, cl[c].got, cl[c].sent) /\ Len(<<>>) = 0
      /\ cl[c].got \in Nat /\ cl[c].sent \in Nat
  BY <1>1, <1>2, Parts DEF Flowing, IInv
<1>4. cl[c].got = cl[c].sent
  BY <1>3 DEF Line
<1> QED
  BY <1>1, <1>3, <1>4 DEF Flowing, CAt

(* No byte is lost, doubled or overtaken between a client and the server it   *)
(* is served by: for any words, any pieces recv makes of them and any clients *)
(* that wait or are killed meanwhile (InOrder of EchoTcp.tla).                *)
THEOREM BytesInOrder == Spec => []InOrder
BY OrderHolds, OrderInvariance, PTL

(* The log of a client is what the server has received of it: in src02 all of *)
(* it, in src01 a beginning (LogMatches of EchoTcp.tla).                      *)
THEOREM LogTold == Spec => []LogMatches
BY LogHolds, OrderInvariance, PTL

(* When server and client wait for each other, they run src02, all is printed *)
(* and the last receive has filled the buffer (WaitExplained of EchoTcp.tla). *)
THEOREM WaitTold == Spec => []WaitExplained
BY WaitHolds, OrderInvariance, PTL

-----------------------------------------------------------------------------
(* Ends.  A client is closed only when it has ended, and in life the server  *)
(* closes only those; one that has exited has bytes to come (in src02), or   *)
(* nothing is under way that could break on its connection.                  *)
Quiet(c) ==
    /\ chan[c].in["s"] = <<>> /\ chan[c].end["c"] = "fin"
    /\ Greets => ~ Queued(c)
    /\ srv.con = c => Held(c) = <<>> /\ srv.pc \notin {"hello", "hi"}
Ended(c) ==
    /\ chan[c].end["c"] # "open" => ~ Running(c)
    /\ ~ SAt("dead") /\ chan[c].end["s"] # "open" => ~ Running(c)
    /\ ~ SAt("dead") /\ CAt(c, "exit") =>
         (Greets /\ cl[c].got < cl[c].sent) \/ Quiet(c)
ClosesEnded == SAt("close") => ~ Running(srv.con)
OnlyGreets == srv.pc \in {"hello", "hi"} => Greets
EInv == ClosesEnded /\ OnlyGreets /\ \A c \in Clients : Ended(c)

(* What a step leaves alone.                                                 *)
LEMMA OtherEnded ==
    ASSUME NEW d \in Clients, Ended(d), version' = version,
           chan'[d] = chan[d], cl'[d] = cl[d], Queued(d)' => Queued(d),
           SAt("dead")' <=> SAt("dead"),
           srv'.con # d \/ srv' = srv
    PROVE  Ended(d)'
<1>1. Greets' <=> Greets
  BY DEF Greets
<1> QED
  BY <1>1 DEF Ended, Quiet, Running, CAt, Held, SAt

(* The server and client c.                                                  *)
LEMMA ServeEnded ==
    ASSUME TypeOK, EInv, UNCHANGED <<version, queue, cl>>,
           NEW c \in Clients, srv.con = c, srv'.con = c,
           NEW v, chan' = [chan EXCEPT ![c] = v],
           ~ SAt("dead"), ~ SAt("dead")', ClosesEnded', OnlyGreets',
           Ended(c)'
    PROVE  EInv'
<1>1. ASSUME NEW d \in Clients PROVE Ended(d)'
  <2>1. CASE d = c
    BY <2>1
  <2>2. CASE d # c
    <3>1. chan'[d] = chan[d] /\ (Queued(d)' => Queued(d)) /\ Ended(d)
      BY <2>2 DEF TypeOK, Queued, EInv
    <3> QED
      BY <2>2, <3>1, OtherEnded
  <2> QED
    BY <2>1, <2>2
<1> QED
  BY <1>1 DEF EInv

LEMMA AcceptEnded ==
    ASSUME IInv, EInv, Accept, UNCHANGED <<version, cl>>
    PROVE  EInv'
<1>1. /\ queue \in Seq(Clients) /\ queue # <<>> /\ queue' = Tail(queue)
      /\ srv \in Server /\ srv.pc = "accept" /\ UNCHANGED <<chan, log>>
  BY DEF Accept, IInv, TypeOK, SAt
<1>2. PICK h \in Clients : h = queue[1] /\ h = Head(queue) /\ 1 \in 1..Len(queue)
  BY <1>1
<1>3. srv'.con = h /\ srv'.pc = IF Greets THEN "hello" ELSE "first"
  BY <1>1, <1>2 DEF Accept, Server
<1>4. Queued(h) /\ \A d \in Clients : Queued(d)' => Queued(d)
  <2>1. \A k \in 1..Len(queue') : k + 1 \in 1..Len(queue) /\ queue'[k] = queue[k + 1]
    BY <1>1
  <2> QED
    BY <1>2, <2>1 DEF Queued
<1>5. ClosesEnded' /\ OnlyGreets'
  BY <1>3 DEF ClosesEnded, OnlyGreets, Greets, SAt
<1>6. ASSUME NEW d \in Clients PROVE Ended(d)'
  <2>1. CASE d = h
    <3>1. Ended(h) /\ ~ SAt("dead")
      BY <1>1 DEF EInv, SAt
    <3>2. Quiet(h) => Quiet(h)'
      BY <1>1, <1>3, <1>4 DEF Quiet, Held, SAt, Greets
    <3> QED
      BY <1>1, <2>1, <3>1, <3>2 DEF Ended, Running, CAt, Greets
  <2>2. CASE d # h
    <3>1. Ended(d) /\ ~ SAt("dead") /\ ~ SAt("dead")'
      BY <1>1, <1>3 DEF EInv, SAt
    <3> QED
      BY <1>1, <1>3, <1>4, <2>2, <3>1, OtherEnded
  <2> QED
    BY <2>1, <2>2
<1> QED
  BY <1>5, <1>6 DEF EInv

LEMMA DieEnded ==
    ASSUME IInv, EInv, Die, UNCHANGED <<version, cl>>
    PROVE  EInv'
<1>1. PICK how \in Hows : chan' = [c \in Clients |->
         IF cl[c].pc = "connect" \/ chan[c].end["s"] # "open" THEN chan[c]
         ELSE IF \E i \in 1..Len(queue) : queue[i] = c THEN Refused(chan[c])
         ELSE Closed(chan[c], "s", how)]
  BY DEF Die
<1>2. SAt("dead")'
  BY DEF Die, SGoto, IInv, TypeOK, Server, SAt
<1>3. ASSUME NEW c \in Clients PROVE Ended(c)'
  <2>1. "s" \in Sides /\ "c" \in Sides \ {"s"} /\ chan[c] \in Connection(Nat)
    BY Parts DEF IInv, Sides
  <2>2. /\ Refused(chan[c]).end["c"] = chan[c].end["c"]
        /\ Closed(chan[c], "s", how).end["c"] = chan[c].end["c"]
    BY <2>1, RefusedConn, ClosedConn
  <2>3. chan'[c].end["c"] = chan[c].end["c"]
    BY <1>1, <2>2
  <2> QED
    BY <1>2, <2>3 DEF EInv, Ended, Running
<1> QED
  BY <1>2, <1>3 DEF EInv, ClosesEnded, OnlyGreets, SAt

(* A write: where the connection is quiet, it is of nothing.                 *)
LEMMA WriteEnded ==
    ASSUME IInv, EInv, NEW bytes \in Seq(Nat), NEW pc \in {"recv", "accept"},
           NEW c \in Clients, srv.con = c,
           Write(bytes, pc), ~ SAt("dead"), UNCHANGED <<version, cl>>,
           Quiet(c) => bytes = <<>>
    PROVE  EInv'
<1>1. CASE Broken(ch, "s") /\ Die
  BY <1>1, DieEnded
<1>2. CASE /\ chan' = [chan EXCEPT ![srv.con] = IF bytes = <<>> THEN @
                                            ELSE Sent(@, "s", bytes)]
           /\ SGoto(pc)
           /\ UNCHANGED queue
  <2> DEFINE v == IF bytes = <<>> THEN chan[c] ELSE Sent(chan[c], "s", bytes)
  <2>1. TypeOK /\ chan[c] \in Connection(Nat) /\ "s" \in Sides
    BY Parts DEF IInv
  <2>2. chan' = [chan EXCEPT ![c] = v] /\ chan'[c] = v
    BY <1>2, <2>1 DEF TypeOK
  <2>3. srv'.con = c /\ srv'.pc = pc
    BY <1>2, <2>1 DEF TypeOK, SGoto, Server
  <2>4. \A x \in Sides :
          /\ Sent(chan[c], x, bytes).end["c"] = "open" <=> chan[c].end["c"] = "open"
          /\ Sent(chan[c], x, bytes).end["s"] = "open" <=> chan[c].end["s"] = "open"
    BY ONLY <2>1, bytes \in Seq(Nat), SidesSend
  <2>5. /\ v.end["c"] = "open" <=> chan[c].end["c"] = "open"
        /\ v.end["s"] = "open" <=> chan[c].end["s"] = "open"
        /\ bytes = <<>> => v = chan[c]
    BY <2>1, <2>4
  <2> HIDE DEF v
  <2>6. Quiet(c) => Quiet(c)'
    BY <1>2, <2>2, <2>3, <2>5 DEF Quiet, Held, SAt, Greets, Queued
  <2>7. Ended(c)'
    BY <2>2, <2>5, <2>6 DEF EInv, Ended, Running, CAt, Greets
  <2>8. ~ SAt("dead")' /\ ClosesEnded' /\ OnlyGreets'
    BY <2>3 DEF SAt, ClosesEnded, OnlyGreets
  <2> QED
    BY <1>2, <2>1, <2>2, <2>3, <2>7, <2>8, ServeEnded
<1> QED
  BY <1>1, <1>2 DEF Write

LEMMA GreetEnded ==
    ASSUME IInv, EInv, Greet, UNCHANGED <<version, cl>>
    PROVE  EInv'
<1>1. PICK c \in Clients : srv.con = c
  BY DEF Greet, IInv, HasClient, SAt
<1>2. TypeOK /\ chan[c] \in Connection(Nat) /\ "s" \in Sides /\ "c" \in Sides \ {"s"}
  BY Parts DEF IInv, Sides
<1>3. CASE /\ SAt("hello") /\ in # <<>>
           /\ chan' = [chan EXCEPT ![srv.con] = Taken(@, "s", 1)]
           /\ SGoto("hi") /\ UNCHANGED <<queue, log>>
  <2> DEFINE v == Taken(chan[c], "s", 1)
  <2>1. chan' = [chan EXCEPT ![c] = v] /\ chan'[c] = v
    BY <1>1, <1>2, <1>3 DEF TypeOK
  <2>2. v.end = chan[c].end
    BY ONLY <1>2, 1 \in Nat, SidesTake
  <2> HIDE DEF v
  <2>3. srv'.con = c /\ srv'.pc = "hi" /\ srv.pc = "hello"
    BY <1>1, <1>2, <1>3 DEF TypeOK, SGoto, Server, SAt
  <2>4. ~ Quiet(c)
    BY <1>1, <2>3 DEF Quiet
  <2>5. Ended(c)'
    BY <2>1, <2>2, <2>3, <2>4 DEF EInv, Ended, Running, CAt, Greets, SAt
  <2>6. ClosesEnded' /\ OnlyGreets'
    BY <2>3 DEF EInv, ClosesEnded, OnlyGreets, Greets, SAt
  <2>7. ~ SAt("dead") /\ ~ SAt("dead")'
    BY <2>3 DEF SAt
  <2> QED
    BY <1>1, <1>2, <1>3, <2>1, <2>3, <2>5, <2>6, <2>7, ServeEnded
<1>4. CASE Die
  BY <1>4, DieEnded
<1>5. CASE SAt("hi") /\ Write(<<Greeting>>, "recv")
  <2>1. <<Greeting>> \in Seq(Nat) /\ ~ SAt("dead") /\ ~ Quiet(c)
    BY <1>1, <1>5 DEF Greeting, Quiet, SAt
  <2> QED
    BY <1>1, <1>5, <2>1, WriteEnded
<1> QED
  BY <1>3, <1>4, <1>5 DEF Greet

LEMMA RecvEnded ==
    ASSUME IInv, EInv, Recv, UNCHANGED <<version, cl>>
    PROVE  EInv'
<1>1. PICK c \in Clients : srv.con = c
  BY DEF Recv, IInv, HasClient, SAt
<1>2. /\ TypeOK /\ chan[c] \in Connection(Nat) /\ "s" \in Sides /\ "c" \in Sides \ {"s"}
      /\ Peer("s") = "c" /\ ~ SAt("dead")
  BY Parts DEF IInv, Sides, Recv, SAt
<1>3. CASE \E j \in Fits :
            /\ j <= Len(in)
            /\ chan' = [chan EXCEPT ![srv.con] = Taken(@, "s", j)]
            /\ srv' = [srv EXCEPT !.pc = "send", !.piece = Piece(j)]
            /\ log' = [log EXCEPT ![srv.con] = Logged(Piece(j))]
            /\ UNCHANGED queue
  <2>1. PICK j \in Fits :
            /\ j <= Len(in)
            /\ chan' = [chan EXCEPT ![srv.con] = Taken(@, "s", j)]
            /\ srv' = [srv EXCEPT !.pc = "send", !.piece = Piece(j)]
            /\ UNCHANGED queue
    BY <1>3
  <2>2. j \in Nat /\ j > 0 /\ in = chan[c].in["s"]
    BY <1>1, EchoAssumption DEF Fits, in, ch
  <2> DEFINE v == Taken(chan[c], "s", j)
  <2>3. chan' = [chan EXCEPT ![c] = v] /\ chan'[c] = v
    BY <1>1, <1>2, <2>1 DEF TypeOK
  <2>4. v.end = chan[c].end
    BY ONLY <1>2, <2>2, SidesTake
  <2> HIDE DEF v
  <2>5. srv'.con = c /\ srv'.pc = "send"
    BY <1>1, <1>2, <2>1 DEF TypeOK, Server
  <2>6. ~ Quiet(c)
    BY <2>1, <2>2 DEF Quiet
  <2>7. Ended(c)'
    BY <1>2, <2>3, <2>4, <2>6 DEF EInv, Ended, Running, CAt, Greets
  <2>8. ~ SAt("dead")' /\ ClosesEnded' /\ OnlyGreets'
    BY <2>5 DEF SAt, ClosesEnded, OnlyGreets
  <2> QED
    BY <1>1, <1>2, <2>1, <2>3, <2>5, <2>7, <2>8, ServeEnded
<1>4. CASE /\ AtEnd(ch, "s")
           /\ srv' = [srv EXCEPT !.pc = IF Greets THEN "send" ELSE "close",
                                 !.piece = <<>>]
           /\ UNCHANGED <<queue, chan, log>>
  <2>1. chan[c].end["c"] # "open"
    BY <1>1, <1>2, <1>4 DEF AtEnd, ch
  <2>2. ~ Running(c)
    BY <2>1 DEF EInv, Ended
  <2>3. chan' = [chan EXCEPT ![c] = chan[c]]
    BY <1>2, <1>4 DEF TypeOK
  <2>4. srv'.con = c /\ srv'.piece = <<>> /\ srv'.pc \in {"send", "close"}
    BY <1>1, <1>2, <1>4 DEF TypeOK, Server
  <2>5. Quiet(c) => Quiet(c)'
    BY <1>4, <2>4 DEF Quiet, Held, SAt, Greets, Queued
  <2>6. Ended(c)'
    BY <1>2, <1>4, <2>5 DEF EInv, Ended, Running, CAt, Greets
  <2>7. ~ SAt("dead")' /\ ClosesEnded' /\ OnlyGreets'
    BY <2>2, <2>4 DEF SAt, ClosesEnded, OnlyGreets, Running
  <2> QED
    BY <1>1, <1>2, <1>4, <2>3, <2>4, <2>6, <2>7, ServeEnded
<1>5. CASE Failed(ch, "s") /\ Die /\ UNCHANGED log
  BY <1>5, DieEnded
<1> QED
  BY <1>3, <1>4, <1>5 DEF Recv

LEMMA SendEnded ==
    ASSUME IInv, EInv, Send, UNCHANGED <<version, cl>>
    PROVE  EInv'
<1>1. PICK c \in Clients : srv.con = c
  BY DEF Send, IInv, HasClient, SAt
<1>2. srv.piece \in Seq(Nat) /\ ~ SAt("dead")
  BY Parts DEF IInv, Send, SAt, TypeOK, Server
<1>3. Quiet(c) => srv.piece = <<>>
  BY <1>1 DEF Quiet, Held, Send
<1> DEFINE pc == IF srv.piece = <<>> THEN "accept" ELSE "recv"
<1>4. Write(srv.piece, pc) /\ pc \in {"recv", "accept"}
  BY DEF Send
<1> HIDE DEF pc
<1> QED
  BY <1>1, <1>2, <1>3, <1>4, WriteEnded

LEMMA CloseEnded ==
    ASSUME IInv, EInv, Close, UNCHANGED <<version, cl>>
    PROVE  EInv'
<1>1. PICK c \in Clients : srv.con = c
  BY DEF Close, IInv, HasClient, SAt
<1>2. PICK how \in Hows : chan' = [chan EXCEPT ![c] = Closed(@, "s", how)]
  BY <1>1 DEF Close
<1>3. /\ TypeOK /\ chan[c] \in Connection(Nat) /\ "s" \in Sides /\ "c" \in Sides \ {"s"}
      /\ ~ SAt("dead") /\ UNCHANGED queue
  BY Parts DEF IInv, Sides, Close, SAt
<1> DEFINE v == Closed(chan[c], "s", how)
<1>4. v.end["c"] = chan[c].end["c"]
  BY <1>3, ClosedConn
<1>5. v.in["s"] = <<>>
  BY <1>3 DEF Closed, Connection
<1>6. chan' = [chan EXCEPT ![c] = v] /\ chan'[c] = v
  BY <1>2, <1>3 DEF TypeOK
<1>7. srv'.con = c /\ srv'.pc = "accept"
  BY <1>1, <1>3 DEF TypeOK, Close, SGoto, Server
<1> HIDE DEF v
<1>8. ~ Running(c)
  BY <1>1 DEF EInv, ClosesEnded, Close
<1>9. Quiet(c) => Quiet(c)'
  BY <1>3, <1>4, <1>5, <1>6, <1>7 DEF Quiet, Held, SAt, Greets, Queued
<1>10. Ended(c)'
  BY <1>3, <1>8, <1>9 DEF EInv, Ended, Running, CAt, Greets
<1>11. ~ SAt("dead")' /\ ClosesEnded' /\ OnlyGreets'
  BY <1>7 DEF SAt, ClosesEnded, OnlyGreets
<1> QED
  BY <1>1, <1>3, <1>6, <1>7, <1>10, <1>11, ServeEnded

(* The clients.                                                              *)
LEMMA UseEnded ==
    ASSUME IInv, EInv, UNCHANGED <<version, srv>>,
           NEW c \in Clients, Running(c), Ended(c)',
           \A d \in Clients : d # c => /\ chan'[d] = chan[d] /\ cl'[d] = cl[d]
                                       /\ Queued(d)' => Queued(d)
    PROVE  EInv'
<1>1. ClosesEnded' /\ OnlyGreets'
  <2>1. SAt("close") => srv.con \in Clients /\ srv.con # c
    BY DEF IInv, HasClient, EInv, ClosesEnded, SAt
  <2> QED
    BY <2>1 DEF EInv, ClosesEnded, OnlyGreets, Greets, SAt, Running
<1>2. ASSUME NEW d \in Clients, d # c PROVE Ended(d)'
  BY <1>2, OtherEnded DEF EInv, SAt
<1> QED
  BY <1>1, <1>2 DEF EInv

LEMMA StepEnded ==
    ASSUME IInv, EInv, UNCHANGED <<version, srv, queue>>,
           NEW c \in Clients, Running(c),
           NEW v, chan' = [chan EXCEPT ![c] = v],
           NEW r, cl' = [cl EXCEPT ![c] = r], r.pc # "exit",
           \/ r.pc = "dead"
           \/ /\ v.end["c"] = "open" <=> chan[c].end["c"] = "open"
              /\ v.end["s"] = "open" <=> chan[c].end["s"] = "open"
    PROVE  EInv'
<1>1. TypeOK /\ chan'[c] = v /\ cl'[c] = r
  BY DEF IInv, TypeOK
<1>2. Ended(c)'
  BY <1>1 DEF EInv, Ended, Running, CAt, SAt
<1>3. \A d \in Clients : d # c => /\ chan'[d] = chan[d] /\ cl'[d] = cl[d]
                                  /\ Queued(d)' => Queued(d)
  BY <1>1 DEF TypeOK, Queued
<1> QED
  BY <1>2, <1>3, UseEnded

LEMMA DeadEnded ==
    ASSUME IInv, EInv, NEW c \in Clients, Running(c), CClose(c, "dead"),
           UNCHANGED <<version, srv, queue>>
    PROVE  EInv'
<1>1. PICK how \in Hows : chan' = [chan EXCEPT ![c] = Closed(@, "c", how)]
  BY DEF CClose
<1> DEFINE v == Closed(chan[c], "c", how)
           r == [cl[c] EXCEPT !.pc = "dead"]
<1>2. TypeOK /\ cl[c] \in Client
  BY Parts DEF IInv
<1>3. chan' = [chan EXCEPT ![c] = v] /\ cl' = [cl EXCEPT ![c] = r] /\ r.pc = "dead"
  BY <1>1, <1>2 DEF TypeOK, CClose, Client
<1> HIDE DEF v, r
<1> QED
  BY <1>3, StepEnded

(* A client that exits, which is in src and src01 when its word is back, and *)
(* in src02 when its user quits.                                             *)
LEMMA ExitEnded ==
    ASSUME IInv, OInv, EInv, NEW c \in Clients, CClose(c, "exit"),
           CAt(c, "close") \/ (Greets /\ CAt(c, "prompt")),
           UNCHANGED <<version, srv, queue, log>>
    PROVE  EInv'
<1>1. PICK how \in Hows : chan' = [chan EXCEPT ![c] = Closed(@, "c", how)]
  BY DEF CClose
<1> DEFINE v == Closed(chan[c], "c", how)
<1>2. /\ TypeOK /\ cl[c] \in Client /\ chan[c] \in Connection(Nat) /\ Running(c)
      /\ "c" \in Sides /\ "s" \in Sides \ {"c"}
      /\ cl[c].got \in Nat /\ cl[c].sent \in Nat /\ out(c) \in Seq(Nat)
      /\ chan[c].in["s"] \in Seq(Nat) /\ srv.piece \in Seq(Nat) /\ out(c) = chan[c].in["c"]
  BY Parts DEF IInv, Sides, Running, CAt
<1>3. chan'[c] = v /\ cl'[c] = [cl[c] EXCEPT !.pc = "exit"]
  BY <1>1, <1>2 DEF TypeOK, CClose
<1>4. cl'[c].pc = "exit" /\ cl'[c].got = cl[c].got /\ cl'[c].sent = cl[c].sent
  BY <1>2, <1>3 DEF Client
<1>5. v.in["s"] = chan[c].in["s"]
  BY <1>2, ClosedConn
<1>6. out(c) = <<>> => v.end["c"] = "fin"
  BY <1>2 DEF Closed, Connection
<1> HIDE DEF v
<1>7. ASSUME ~ SAt("dead")
      PROVE  (Greets /\ cl[c].got < cl[c].sent) \/ Quiet(c)'
  <2>1. Served(c)
    BY <1>2, <1>7 DEF EInv, Ended, Served
  <2>2. Fresh(c) \/ Flowing(c)
    BY <2>1 DEF OInv, OneClient, Stage, Greeted, CAt
  <2>3. CASE Fresh(c)
    <3>1. ~ Greets /\ Unread(c) /\ out(c) = <<>>
      BY <2>3 DEF Fresh, Shaking, CAt
    <3>2. Len(chan[c].in["s"]) = 0 /\ (srv.con = c => srv.pc = "first")
      BY <1>2, <3>1 DEF Unread, CAt
    <3>3. chan[c].in["s"] = <<>>
      BY <1>2, <3>2
    <3> QED
      BY <1>3, <1>5, <1>6, <3>1, <3>2, <3>3 DEF Quiet, Greets, Held, SAt
  <2>4. CASE Flowing(c) /\ ~ (Greets /\ cl[c].got < cl[c].sent)
    <3>1. /\ Held(c) \in Seq(Nat)
          /\ Len(out(c)) \in Nat /\ Len(chan[c].in["s"]) \in Nat /\ Len(Held(c)) \in Nat
      BY <1>2 DEF Held
    <3>2. /\ cl[c].got + Len(out(c)) + Len(Held(c)) + Len(chan[c].in["s"]) = cl[c].sent
          /\ srv.con = c /\ ~ Queued(c) /\ srv.pc \in {"recv", "send"}
          /\ cl[c].got >= cl[c].sent
      <4>1. CAt(c, "close") => cl[c].got = cl[c].sent
        BY <2>4 DEF Flowing, CAt
      <4>2. cl[c].got >= cl[c].sent
        BY <1>2, <2>4, <4>1
      <4> QED
        BY <2>4, <4>2 DEF Flowing, Line
    <3>3. \A g, k, l, m, s \in Nat :
            g + k + l + m = s /\ g >= s => k = 0 /\ l = 0 /\ m = 0
      OBVIOUS
    <3>4. Len(out(c)) = 0 /\ Len(Held(c)) = 0 /\ Len(chan[c].in["s"]) = 0
      <4> DEFINE g == cl[c].got
                 k == Len(out(c))
                 l == Len(Held(c))
                 m == Len(chan[c].in["s"])
                 s == cl[c].sent
      <4>1. /\ g \in Nat /\ k \in Nat /\ l \in Nat /\ m \in Nat /\ s \in Nat
            /\ g + k + l + m = s /\ g >= s
        BY <1>2, <3>1, <3>2
      <4> HIDE DEF g, k, l, m, s
      <4>2. k = 0 /\ l = 0 /\ m = 0
        BY ONLY <3>3, <4>1
      <4> QED
        BY <4>2 DEF k, l, m
    <3>5. out(c) = <<>> /\ Held(c) = <<>> /\ chan[c].in["s"] = <<>>
      BY <1>2, <3>1, <3>4
    <3> QED
      BY <1>3, <1>5, <1>6, <3>2, <3>5 DEF Quiet, Greets, Held, SAt, Queued
  <2> QED
    BY <2>2, <2>3, <2>4
<1>8. Ended(c)'
  BY <1>4, <1>7 DEF Ended, Running, CAt, SAt, Greets
<1>9. \A d \in Clients : d # c => /\ chan'[d] = chan[d] /\ cl'[d] = cl[d]
                                  /\ Queued(d)' => Queued(d)
  BY <1>1, <1>2 DEF TypeOK, CClose, Queued
<1> QED
  BY <1>2, <1>8, <1>9, UseEnded

LEMMA ConnectEnded ==
    ASSUME IInv, EInv, NEW c \in Clients, Connect(c), UNCHANGED <<version, srv, log>>
    PROVE  EInv'
<1>1. /\ TypeOK /\ CAt(c, "connect") /\ UNCHANGED chan /\ queue \in Seq(Clients)
      /\ cl \in [Clients -> Client] /\ cl[c] \in Client
  BY DEF Connect, IInv, TypeOK
<1>2. PICK pc \in {"dead", "hello", "prompt"} : cl' = [cl EXCEPT ![c].pc = pc]
  BY DEF Connect
<1>3. cl'[c].pc = pc /\ \A d \in Clients : d # c => cl'[d] = cl[d]
  BY <1>1, <1>2 DEF Client
<1>4. Running(c)
  BY <1>1 DEF Running, CAt
<1>5. Ended(c)'
  BY <1>1, <1>3, <1>4 DEF EInv, Ended, CAt, SAt
<1>6. ASSUME NEW d \in Clients, d # c PROVE Queued(d)' => Queued(d)
  <2>1. CASE UNCHANGED queue
    BY <2>1 DEF Queued
  <2>2. CASE queue' = Append(queue, c)
    <3>1. \A k \in 1..Len(queue') : queue'[k] = c \/ (k \in 1..Len(queue) /\ queue'[k] = queue[k])
      BY <1>1, <2>2
    <3> QED
      BY <1>6, <3>1 DEF Queued
  <2> QED
    BY <2>1, <2>2 DEF Connect
<1>7. \A d \in Clients : d # c => /\ chan'[d] = chan[d] /\ cl'[d] = cl[d]
                                  /\ Queued(d)' => Queued(d)
  BY <1>1, <1>3, <1>6
<1> QED
  BY <1>4, <1>5, <1>7, UseEnded

LEMMA CSendEnded ==
    ASSUME IInv, EInv, NEW c \in Clients, Running(c), NEW bytes \in Seq(Nat),
           NEW next, next.pc # "exit", CSend(c, bytes, next),
           UNCHANGED <<version, srv, queue>>
    PROVE  EInv'
<1>1. TypeOK /\ chan[c] \in Connection(Nat) /\ "c" \in Sides
  BY Parts DEF IInv
<1>2. CASE CClose(c, "dead")
  BY <1>2, DeadEnded
<1>3. CASE /\ chan' = [chan EXCEPT ![c] = IF bytes = <<>> THEN @
                                          ELSE Sent(@, "c", bytes)]
           /\ cl' = [cl EXCEPT ![c] = next]
  <2> DEFINE v == IF bytes = <<>> THEN chan[c] ELSE Sent(chan[c], "c", bytes)
  <2>1. \A x \in Sides :
          /\ Sent(chan[c], x, bytes).end["c"] = "open" <=> chan[c].end["c"] = "open"
          /\ Sent(chan[c], x, bytes).end["s"] = "open" <=> chan[c].end["s"] = "open"
    BY ONLY <1>1, bytes \in Seq(Nat), SidesSend
  <2>2. /\ v.end["c"] = "open" <=> chan[c].end["c"] = "open"
        /\ v.end["s"] = "open" <=> chan[c].end["s"] = "open"
    BY <1>1, <2>1
  <2>3. chan' = [chan EXCEPT ![c] = v]
    BY <1>1, <1>3 DEF TypeOK
  <2> HIDE DEF v
  <2> QED
    BY <1>3, <2>2, <2>3, StepEnded
<1> QED
  BY <1>2, <1>3 DEF CSend

LEMMA TakeEnded ==
    ASSUME IInv, EInv, NEW c \in Clients, Running(c), NEW j \in Nat,
           \/ chan' = [chan EXCEPT ![c] = Taken(@, "c", j)]
           \/ UNCHANGED chan,
           NEW r, cl' = [cl EXCEPT ![c] = r], r.pc # "exit",
           UNCHANGED <<version, srv, queue>>
    PROVE  EInv'
<1>1. TypeOK /\ chan[c] \in Connection(Nat) /\ "c" \in Sides
  BY Parts DEF IInv
<1>2. Taken(chan[c], "c", j).end = chan[c].end
  BY ONLY <1>1, j \in Nat, SidesTake
<1>3. PICK v : chan' = [chan EXCEPT ![c] = v] /\ v.end = chan[c].end
  <2>1. CASE UNCHANGED chan
    <3>1. chan' = [chan EXCEPT ![c] = chan[c]]
      BY <1>1, <2>1 DEF TypeOK
    <3> QED
      BY <3>1
  <2>2. CASE chan' = [chan EXCEPT ![c] = Taken(@, "c", j)]
    <3>1. chan' = [chan EXCEPT ![c] = Taken(chan[c], "c", j)]
      BY <1>1, <2>2 DEF TypeOK
    <3> QED
      BY <1>2, <3>1
  <2> QED
    BY <2>1, <2>2
<1>4. /\ v.end["c"] = "open" <=> chan[c].end["c"] = "open"
      /\ v.end["s"] = "open" <=> chan[c].end["s"] = "open"
  BY <1>3
<1>5. chan' = [chan EXCEPT ![c] = v]
  BY <1>3
<1> QED
  BY <1>4, <1>5, StepEnded

LEMMA HelloEnded ==
    ASSUME IInv, EInv, NEW c \in Clients, Hello(c), UNCHANGED <<version, srv, queue, log>>
    PROVE  EInv'
<1>1. cl[c] \in Client /\ Running(c) /\ cl \in [Clients -> Client]
  BY Parts DEF IInv, TypeOK, Hello, CAt, Running
<1>2. CASE CSend(c, <<Greeting>>, [cl[c] EXCEPT !.pc = "hi"])
  <2> DEFINE next == [cl[c] EXCEPT !.pc = "hi"]
  <2>1. next.pc # "exit" /\ <<Greeting>> \in Seq(Nat) /\ CSend(c, <<Greeting>>, next)
    BY <1>1, <1>2 DEF Client, Greeting
  <2> HIDE DEF next
  <2> QED
    BY <1>1, <2>1, CSendEnded
<1>3. CASE CClose(c, "dead")
  BY <1>1, <1>3, DeadEnded
<1>4. CASE /\ \/ chan' = [chan EXCEPT ![c] = Taken(@, "c", 1)]
              \/ UNCHANGED chan
           /\ cl' = [cl EXCEPT ![c].pc = "prompt"]
  <2> DEFINE r == [cl[c] EXCEPT !.pc = "prompt"]
  <2>1. r.pc # "exit" /\ cl' = [cl EXCEPT ![c] = r] /\ 1 \in Nat
    BY <1>1, <1>4 DEF Client
  <2> HIDE DEF r
  <2> QED
    BY <1>1, <1>4, <2>1, TakeEnded
<1> QED
  BY <1>2, <1>3, <1>4 DEF Hello

LEMMA WordEnded ==
    ASSUME IInv, EInv, NEW c \in Clients, Word(c), UNCHANGED <<version, srv, queue, log>>
    PROVE  EInv'
<1>1. PICK n \in Lengths :
        /\ CAt(c, "prompt") /\ cl[c].left > 0
        /\ CSend(c, [i \in 1..n |-> cl[c].sent + i],
                 [cl[c] EXCEPT !.pc = IF n = 0 THEN "close" ELSE "recv",
                               !.sent = @ + n,
                               !.left = IF Greets THEN @ - 1 ELSE 0])
  BY DEF Word
<1>2. cl[c] \in Client /\ n \in Nat /\ cl[c].sent \in Nat /\ Running(c)
  BY <1>1, EchoAssumption, Parts DEF IInv, CAt, Running
<1> DEFINE b == [k \in 1..n |-> cl[c].sent + k]
           next == [cl[c] EXCEPT !.pc = IF n = 0 THEN "close" ELSE "recv",
                                 !.sent = @ + n,
                                 !.left = IF Greets THEN @ - 1 ELSE 0]
<1>3. b \in Seq(Nat) /\ next.pc # "exit" /\ CSend(c, b, next)
  BY <1>1, <1>2 DEF Client
<1> HIDE DEF b, next
<1> QED
  BY <1>2, <1>3, CSendEnded

LEMMA EchoedEnded ==
    ASSUME IInv, EInv, NEW c \in Clients, Echoed(c), UNCHANGED <<version, srv, queue, log>>
    PROVE  EInv'
<1>1. cl[c] \in Client /\ Running(c) /\ cl \in [Clients -> Client]
  BY Parts DEF IInv, TypeOK, Echoed, CAt, Running
<1>2. CASE CClose(c, "dead")
  BY <1>1, <1>2, DeadEnded
<1>3. CASE \E j \in 1..BufSize - 1 :
            /\ chan' = [chan EXCEPT ![c] = Taken(@, "c", j)]
            /\ cl' = [cl EXCEPT ![c].pc = After(c, j), ![c].got = @ + j]
  <2>1. PICK j \in 1..BufSize - 1 :
            /\ chan' = [chan EXCEPT ![c] = Taken(@, "c", j)]
            /\ cl' = [cl EXCEPT ![c].pc = After(c, j), ![c].got = @ + j]
    BY <1>3
  <2> DEFINE pc == After(c, j)
  <2>2. pc # "exit" /\ j \in Nat
    BY EchoAssumption DEF After
  <2>3. cl' = [cl EXCEPT ![c].pc = pc, ![c].got = @ + j]
    BY <2>1
  <2> HIDE DEF pc
  <2> DEFINE r == [cl[c] EXCEPT !.pc = pc, !.got = @ + j]
  <2>4. r.pc # "exit" /\ cl' = [cl EXCEPT ![c] = r]
    BY <1>1, <2>2, <2>3 DEF Client
  <2> HIDE DEF r
  <2> QED
    BY <1>1, <2>1, <2>2, <2>4, TakeEnded
<1> QED
  BY <1>2, <1>3 DEF Echoed

LEMMA InitEnded == Init => EInv
BY DEF Init, EInv, ClosesEnded, OnlyGreets, Ended, Running, CAt, SAt, Sides

LEMMA StepEnds == IInv /\ OInv /\ EInv /\ [Next]_vars => EInv'
<1> SUFFICES ASSUME IInv, OInv, EInv, [Next]_vars PROVE EInv'
  OBVIOUS
<1>1. CASE UNCHANGED vars
  BY <1>1 DEF vars, EInv, ClosesEnded, OnlyGreets, Ended, Quiet, Queued, Held,
              Running, Greets, SAt, CAt
<1>2. CASE Serve
  BY <1>2, AcceptEnded, GreetEnded, RecvEnded, SendEnded, CloseEnded DEF Serve
<1>3. ASSUME NEW c \in Clients, Use(c) PROVE EInv'
  <2>1. CASE Connect(c)
    BY <1>3, <2>1, ConnectEnded DEF Use
  <2>2. CASE (Hello(c) \/ Word(c) \/ Echoed(c)) /\ UNCHANGED queue
    BY <1>3, <2>2, HelloEnded, WordEnded, EchoedEnded DEF Use
  <2>3. CASE (Quit(c) \/ End(c)) /\ UNCHANGED queue
    BY <1>3, <2>3, ExitEnded DEF Use, Quit, End
  <2> QED
    BY <1>3, <2>1, <2>2, <2>3 DEF Use
<1>4. ASSUME NEW c \in Clients, Crash(c) PROVE EInv'
  BY <1>4, DeadEnded DEF Crash
<1> QED
  BY <1>1, <1>2, <1>3, <1>4 DEF Next

(* A server that ends, ends at the connection of its client, which is closed *)
(* and not quiet.                                                            *)
DeathExplained ==
    SAt("dead")' /\ ~ SAt("dead") =>
        \/ CAt(srv.con, "dead")
        \/ Greets /\ CAt(srv.con, "exit") /\ cl[srv.con].got < cl[srv.con].sent

LEMMA StepExplained == IInv /\ EInv /\ [Next]_vars => [DeathExplained]_vars
<1> SUFFICES ASSUME IInv, EInv, [Next]_vars, SAt("dead")', ~ SAt("dead")
             PROVE  \/ CAt(srv.con, "dead")
                    \/ Greets /\ CAt(srv.con, "exit") /\ cl[srv.con].got < cl[srv.con].sent
  BY DEF DeathExplained
<1>1. srv \in Server /\ Peer("s") = "c"
  BY Parts DEF IInv, TypeOK, Peer
<1>2. Serve
  BY <1>1 DEF Next, Use, Crash, SAt, vars
<1>3. srv.con \in Clients
  BY <1>1, <1>2 DEF Serve, Accept, Greet, Recv, Send, Close, IInv, HasClient, SAt, Server
<1>4. \/ SAt("hello") /\ chan[srv.con].end["c"] # "open"
      \/ chan[srv.con].end["c"] \in {"gone", "rst"}
  BY <1>1, <1>2
  DEF Serve, Accept, Greet, Recv, Send, Close, Write, SGoto, AtEnd, Failed, Broken,
      SAt, Server, ch
<1>5. ~ Quiet(srv.con)
  BY <1>4 DEF Quiet, SAt
<1> QED
  BY <1>3, <1>4, <1>5 DEF EInv, Ended, Running, CAt

(* One client can end the server for all, but only one that was killed, or in *)
(* src02 one whose user quits while a part of an echo is still to come        *)
(* (DeathsExplained of EchoTcp.tla).                                          *)
THEOREM DeathsTold == Spec => DeathsExplained
<1>1. Init => IInv /\ OInv /\ EInv
  BY InitInv, InitOrder, InitEnded
<1>2. IInv /\ OInv /\ EInv /\ [Next]_vars => (IInv /\ OInv /\ EInv)'
  BY StepInv, StepOrder, StepEnds
<1>3. IInv /\ OInv /\ EInv /\ [Next]_vars => [DeathExplained]_vars
  BY StepExplained
<1>4. Spec => [][DeathExplained]_vars
  BY <1>1, <1>2, <1>3, PTL DEF Spec
<1> QED
  BY <1>4 DEF DeathsExplained, DeathExplained
=============================================================================
