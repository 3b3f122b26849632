------------------------------- MODULE EchoTcp -------------------------------
(* src, src01 and src02: an echo server that serves one connection after    *)
(* the other, and its clients.  In src and src01 a client sends one word    *)
(* and ends when that many bytes are back; in src02 it says hello first,    *)
(* sends word after word, and takes a word for answered when a receive has  *)
(* not filled its buffer.  The server of src01 logs the first bytes of a    *)
(* connection, that of src02 all, and that of src02 closes no connection.   *)
EXTENDS Streams, FiniteSets

CONSTANTS Clients,    \* the client processes
          NoClient,   \* no client has been served
          Versions,   \* which of the programs may run
          BufSize,    \* RCVBUFSIZE
          Lengths,    \* lengths of words
          MaxWords,   \* bound: the words one user of src02 types
          MayCrash    \* a client may be killed

ASSUME EchoAssumption ==
    /\ NoClient \notin Clients
    /\ Versions \subseteq {"src", "src01", "src02"}
    /\ BufSize \in Nat /\ BufSize > 1
    /\ Lengths \subseteq Nat
    /\ MaxWords \in Nat
    /\ MayCrash \in BOOLEAN

VARIABLES version,    \* the programs that run
          srv,        \* the server
          queue,      \* connections that wait for accept
          chan,       \* one connection for each client
          cl,         \* the clients
          log         \* echo_history.log, the bytes of each client

vars == <<version, srv, queue, chan, cl, log>>

(* The bytes of a client's words are numbered as they are sent; hello and   *)
(* hi are units of their own.                                               *)
Greeting == 0

Server == [pc    : {"accept", "hello", "hi", "first", "recv", "send", "close",
                    "dead"},
           con   : Clients \cup {NoClient},   \* cIntSocket
           piece : Seq(Nat)]                  \* echoBuffer[0 .. recvMsgSize-1]

Client == [pc   : {"connect", "hello", "hi", "prompt", "recv", "close", "exit",
                   "dead"},
           sent : Nat,      \* bytes of words sent
           got  : Nat,      \* bytes printed; totalBytesRcvd in src and src01
           left : 0..MaxWords]

TypeOK ==
    /\ version \in Versions
    /\ srv \in Server /\ Len(srv.piece) <= BufSize
    /\ queue \in Seq(Clients)
    /\ chan \in [Clients -> [in : [Sides -> Seq(Nat)], end : [Sides -> Ends]]]
    /\ cl \in [Clients -> Client]
    /\ log \in [Clients -> Seq(Nat)]

Init ==
    /\ version \in Versions
    /\ srv = [pc |-> "accept", con |-> NoClient, piece |-> <<>>]
    /\ queue = <<>>
    /\ chan = [c \in Clients |-> [in  |-> [s \in Sides |-> <<>>],
                                  end |-> [s \in Sides |-> "open"]]]
    /\ cl = [c \in Clients |-> [pc |-> "connect", sent |-> 0, got |-> 0,
                                left |-> MaxWords]]
    /\ log = [c \in Clients |-> <<>>]

Greets == version = "src02"   \* the handshake, and who ends a conversation

-----------------------------------------------------------------------------
(* The server.  in: what has arrived from the client it serves.             *)
ch == chan[srv.con]
in == ch.in["s"]

SAt(pc) == srv.pc = pc
SGoto(pc) == srv' = [srv EXCEPT !.pc = pc]

(* DieWithError or SIGPIPE: the connections src02 never closes end with     *)
(* the process too, the waiting ones are refused.                           *)
Die ==
    /\ SGoto("dead")
    /\ \E how \in Hows : chan' = [c \in Clients |->
         IF cl[c].pc = "connect" \/ chan[c].end["s"] # "open" THEN chan[c]
         ELSE IF \E i \in 1..Len(queue) : queue[i] = c THEN Refused(chan[c])
         ELSE Closed(chan[c], "s", how)]
    /\ queue' = <<>>

Accept ==
    /\ SAt("accept")
    /\ queue # <<>>
    /\ srv' = [srv EXCEPT !.pc = IF Greets THEN "hello" ELSE "first",
                          !.con = Head(queue)]
    /\ queue' = Tail(queue)
    /\ UNCHANGED <<chan, log>>

Write(bytes, pc) ==
    \/ /\ chan' = [chan EXCEPT ![srv.con] = IF bytes = <<>> THEN @
                                            ELSE Sent(@, "s", bytes)]
       /\ SGoto(pc)
       /\ UNCHANGED queue
    \/ Broken(ch, "s") /\ Die

(* The handshake of src02.  At end-of-file nothing that begins with hello   *)
(* is in the buffer: the last use of it, if any, ended with an empty string.*)
Greet ==
    /\ \/ /\ SAt("hello")
          /\ in # <<>>
          /\ chan' = [chan EXCEPT ![srv.con] = Taken(@, "s", 1)]
          /\ SGoto("hi")
          /\ UNCHANGED queue
       \/ SAt("hello") /\ (AtEnd(ch, "s") \/ Failed(ch, "s")) /\ Die
       \/ SAt("hi") /\ Write(<<Greeting>>, "recv")
    /\ UNCHANGED log

(* Mutant of Logged: both versions log only what a connection begins with.  *)
LoggedFirst(bytes) ==
    IF version # "src" /\ log[srv.con] = <<>> THEN log[srv.con] \o bytes
    ELSE log[srv.con]

(* What the log has of this client when bytes were received.                *)
Logged(bytes) ==
    IF \/ version = "src02"
       \/ version = "src01" /\ SAt("first")
    THEN log[srv.con] \o bytes ELSE log[srv.con]

(* Mutant of Piece: the terminating null is written over the last byte.     *)
PieceOver(j) == SubSeq(in, 1, IF j = BufSize THEN j - 1 ELSE j)
Piece(j) == SubSeq(in, 1, j)

Fits == 1..BufSize   \* what one recv may return

(* recv, then the log.  A connection that has ended makes a last line, an   *)
(* empty one; src02 goes on to send nothing, the others to close.           *)
Recv ==
    /\ SAt("first") \/ SAt("recv")
    /\ \/ \E j \in Fits :
            /\ j <= Len(in)
            /\ chan' = [chan EXCEPT ![srv.con] = Taken(@, "s", j)]
            /\ srv' = [srv EXCEPT !.pc = "send", !.piece = Piece(j)]
            /\ log' = [log EXCEPT ![srv.con] = Logged(Piece(j))]
            /\ UNCHANGED queue
       \/ /\ AtEnd(ch, "s")
          /\ srv' = [srv EXCEPT !.pc = IF Greets THEN "send" ELSE "close",
                                !.piece = <<>>]
          /\ UNCHANGED <<queue, chan, log>>
       \/ Failed(ch, "s") /\ Die /\ UNCHANGED log

(* Mutant of Send: the loop of src02 goes on after an empty piece.          *)
SendForever == SAt("send") /\ Write(srv.piece, "recv") /\ UNCHANGED log

(* send returns the piece; in src02 the loop ends when it was empty.        *)
Send ==
    /\ SAt("send")
    /\ Write(srv.piece, IF srv.piece = <<>> THEN "accept" ELSE "recv")
    /\ UNCHANGED log

(* Mutants of Close: the descriptor is left open; the server ends with its  *)
(* client.                                                                  *)
CloseNever ==
    SAt("close") /\ SGoto("accept") /\ UNCHANGED <<queue, chan, log>>
CloseExits == SAt("close") /\ Die /\ UNCHANGED log

Close ==
    /\ SAt("close")
    /\ \E how \in Hows :
         chan' = [chan EXCEPT ![srv.con] = Closed(@, "s", how)]
    /\ SGoto("accept")
    /\ UNCHANGED <<queue, log>>

Serve ==
    /\ Accept \/ Greet \/ Recv \/ Send \/ Close
    /\ UNCHANGED <<version, cl>>

-----------------------------------------------------------------------------
(* The clients.                                                             *)
CAt(c, pc) == cl[c].pc = pc
Running(c) == cl[c].pc \notin {"exit", "dead"}
out(c) == chan[c].in["c"]

CClose(c, pc) ==
    /\ cl' = [cl EXCEPT ![c].pc = pc]
    /\ \E how \in Hows : chan' = [chan EXCEPT ![c] = Closed(@, "c", how)]

CSend(c, bytes, next) ==
    \/ /\ chan' = [chan EXCEPT ![c] = IF bytes = <<>> THEN @
                                      ELSE Sent(@, "c", bytes)]
       /\ cl' = [cl EXCEPT ![c] = next]
    \/ Broken(chan[c], "c") /\ CClose(c, "dead")

Connect(c) ==
    /\ CAt(c, "connect")
    /\ IF SAt("dead")
       THEN cl' = [cl EXCEPT ![c].pc = "dead"] /\ UNCHANGED queue
       ELSE /\ cl' = [cl EXCEPT ![c].pc = IF Greets THEN "hello" ELSE "prompt"]
            /\ queue' = Append(queue, c)
    /\ UNCHANGED chan

(* src02: send hello, receive the answer, whatever it is.                   *)
Hello(c) ==
    \/ /\ CAt(c, "hello")
       /\ CSend(c, <<Greeting>>, [cl[c] EXCEPT !.pc = "hi"])
    \/ /\ CAt(c, "hi")
       /\ \/ /\ out(c) # <<>>
             /\ chan' = [chan EXCEPT ![c] = Taken(@, "c", 1)]
             /\ cl' = [cl EXCEPT ![c].pc = "prompt"]
          \/ /\ AtEnd(chan[c], "c")
             /\ cl' = [cl EXCEPT ![c].pc = "prompt"]
             /\ UNCHANGED chan
          \/ Failed(chan[c], "c") /\ CClose(c, "dead")

(* A word is sent: in src and src01 the one of the command line, of any     *)
(* length, in src02 what a user types, at least a byte, and less than the   *)
(* buffer it is typed into.                                                 *)
Word(c) ==
    \E n \in Lengths :
        /\ CAt(c, "prompt") /\ cl[c].left > 0
        /\ Greets => n \in 1..BufSize - 1
        /\ CSend(c, [i \in 1..n |-> cl[c].sent + i],
                 [cl[c] EXCEPT !.pc = IF n = 0 THEN "close" ELSE "recv",
                               !.sent = @ + n,
                               !.left = IF Greets THEN @ - 1 ELSE 0])

(* Mutant of After: src and src01 count to one byte too many.               *)
AfterOneMore(c, j) ==
    IF Greets THEN IF j >= BufSize - 1 THEN "recv" ELSE "prompt"
    ELSE IF cl[c].got + j <= cl[c].sent THEN "recv" ELSE "close"

(* Where a client is when it has received j bytes.                          *)
After(c, j) ==
    IF Greets THEN IF j >= BufSize - 1 THEN "recv" ELSE "prompt"
    ELSE IF cl[c].got + j < cl[c].sent THEN "recv" ELSE "close"

Echoed(c) ==
    /\ CAt(c, "recv")
    /\ \/ \E j \in 1..BufSize - 1 :
            /\ j <= Len(out(c))
            /\ chan' = [chan EXCEPT ![c] = Taken(@, "c", j)]
            /\ cl' = [cl EXCEPT ![c].pc = After(c, j), ![c].got = @ + j]
       \/ (AtEnd(chan[c], "c") \/ Failed(chan[c], "c")) /\ CClose(c, "dead")

(* src02: /quit.  The others end by themselves.                             *)
Quit(c) == Greets /\ CAt(c, "prompt") /\ CClose(c, "exit")
End(c) == CAt(c, "close") /\ CClose(c, "exit")

Use(c) ==
    /\ \/ Connect(c)
       \/ (Hello(c) \/ Word(c) \/ Echoed(c) \/ Quit(c) \/ End(c)) /\ UNCHANGED queue
    /\ UNCHANGED <<version, srv, log>>

Crash(c) ==
    /\ MayCrash
    /\ Running(c) /\ ~ CAt(c, "connect")
    /\ CClose(c, "dead")
    /\ UNCHANGED <<version, srv, queue, log>>

Next == Serve \/ \E c \in Clients : Use(c) \/ Crash(c)

Spec == Init /\ [][Next]_vars

(* The system runs the server, and every client that does not wait for a    *)
(* user: the word of src and src01 is on the command line.                  *)
Fairness ==
    /\ WF_vars(Serve)
    /\ \A c \in Clients : WF_vars(/\ Use(c) /\ ~ CAt(c, "connect")
                                  /\ Greets => ~ CAt(c, "prompt"))
FairSpec == Spec /\ Fairness

-----------------------------------------------------------------------------
(* The bytes of a stream, in which a hello or a hi is alone, and the numbers *)
(* a to b.                                                                  *)
Bytes(units) == IF units = <<Greeting>> THEN <<>> ELSE units
Run(a, b) == [i \in 1..b - a + 1 |-> a - 1 + i]
Held(c) == IF srv.con = c /\ SAt("send") THEN srv.piece ELSE <<>>
Served(c) == Running(c) /\ chan[c].end["s"] = "open"

(* No byte is lost, doubled or overtaken: what a client has sent and not    *)
(* got back is on its way to it, in the server's buffer and on its way to   *)
(* the server, in this order, however the stream was cut.                   *)
InOrder == \A c \in Clients : Served(c) =>
    Bytes(out(c)) \o Held(c) \o Bytes(chan[c].in["s"])
        = Run(cl[c].got + 1, cl[c].sent)

(* In src and src01 the two programs never wait for each other; in src02    *)
(* they do for ever, but only when all the client has sent is printed and   *)
(* its last receive happened to fill the buffer.                            *)
WaitExplained == \A c \in Clients :
    /\ CAt(c, "recv") /\ srv.con = c /\ SAt("recv")
    /\ chan[c].in = [s \in Sides |-> <<>>] /\ Served(c)
    => Greets /\ cl[c].got = cl[c].sent /\ cl[c].got >= BufSize - 1

(* In src and src01 a client is alone with the server: every connection     *)
(* that was accepted before is closed when the next one is accepted.        *)
OnlyOneOpen == ~ Greets /\ ~ SAt("dead") => \A c \in Clients :
    chan[c].end["s"] = "open" =>
        \/ CAt(c, "connect") \/ (c = srv.con /\ ~ SAt("accept"))
        \/ \E i \in 1..Len(queue) : queue[i] = c

(* The log is what the server has received of a client, in src02 all of it, *)
(* in src01 the beginning: a whole word only if it came in one piece.       *)
LogMatches == \A c \in Clients : Served(c) =>
    LET received == Run(1, cl[c].sent - Len(Bytes(chan[c].in["s"]))) IN
    CASE version = "src"   -> log[c] = <<>>
      [] version = "src01" -> /\ log[c] = SubSeq(received, 1, Len(log[c]))
                              /\ received # <<>> => log[c] # <<>>
      [] version = "src02" -> log[c] = received

(* One client can end the server for all.  In src and src01 only one that   *)
(* was killed does, in src02 also a user who quits while a part of an echo  *)
(* is still to come; never one whose bytes have all come back.              *)
DeathsExplained ==
    [][SAt("dead")' /\ ~ SAt("dead") =>
         \/ CAt(srv.con, "dead")
         \/ Greets /\ CAt(srv.con, "exit") /\ cl[srv.con].got < cl[srv.con].sent]_vars

(* In src and src01 every client that connects ends, also one that waits    *)
(* behind others; in src02 the server is free when its client has gone.     *)
ClientsEnd == \A c \in Clients :
    ~ Greets /\ ~ CAt(c, "connect") ~> ~ Running(c)
GoneFreesServer == \A c \in Clients :
    ~ Running(c) /\ srv.con = c ~> srv.con # c \/ srv.pc \in {"accept", "dead"}
=============================================================================
