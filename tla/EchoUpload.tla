----------------------------- MODULE EchoUpload ------------------------------
(* practice2/src01: ftServer.c serves one client after the other; a client  *)
(* (ftClient.c) has lines echoed and uploads files.  Requests end in a '|', *)
(* which the server looks for byte by byte; the contents of a file do not,  *)
(* and are read as whatever has arrived.                                    *)
EXTENDS Streams, FiniteSets

CONSTANTS Clients,    \* the client processes
          NoClient,   \* no client is being served
          Sizes,      \* lengths of files; ftClient.c holds them in one buffer
          MaxCmds,    \* bound: commands one user types, not counting quit
          MayCrash    \* a client may be killed

ASSUME UploadAssumption ==
    /\ NoClient \notin Clients
    /\ Sizes \subseteq Nat
    /\ MaxCmds \in Nat
    /\ MayCrash \in BOOLEAN

VARIABLES srv,        \* the server
          queue,      \* connections that wait for accept
          chan,       \* one connection for each client
          cl          \* the clients

vars == <<srv, queue, chan, cl>>

Requests == {"EchoReq", "FileUpReq", "quit"}

(* A unit is what one write sends, the name with the '|' after it; n is the *)
(* value of a size and the length of a file's contents.                     *)
Unit == [t : Requests \cup {"hello", "hi", "text", "name", "size", "data",
                            "FileAck"},
         n : Nat]
Plain(t) == [t |-> t, n |-> 0]

Server == [pc      : Requests \cup {"accept", "hello", "hi", "header", "reply",
                                    "text", "size", "ack", "data", "dead"},
           con     : Clients \cup {NoClient},   \* c_socket
           msgType : Requests \cup {"none"},    \* none: no request's name
           greeted : BOOLEAN,   \* rcvBuffer begins with a hello
           recv_n  : {0, 1},    \* whether the last text had any bytes
           size    : Nat,       \* origFileSize
           stored  : Nat,       \* bytes in test.txt
           lost    : BOOLEAN]   \* history: of this client, contents have been
                                \* read past their end

Client == [pc    : {"connect", "hello", "hi", "prompt", "text", "rep", "echoed",
                    "name", "size", "ack", "send", "bye", "exit", "dead"},
           file  : Nat,         \* the length of the file to upload
           acked : BOOLEAN,     \* msgType still holds a FileAck
           left  : 0..MaxCmds]

TypeOK ==
    /\ srv \in Server
    /\ queue \in Seq(Clients)
    /\ chan \in [Clients -> [in : [Sides -> Seq(Unit)], end : [Sides -> Ends]]]
    /\ cl \in [Clients -> Client]

Init ==
    /\ srv = [pc |-> "accept", con |-> NoClient, msgType |-> "none",
              greeted |-> FALSE, recv_n |-> 0, size |-> 0, stored |-> 0,
              lost |-> FALSE]
    /\ queue = <<>>
    /\ chan = [c \in Clients |-> [in  |-> [s \in Sides |-> <<>>],
                                  end |-> [s \in Sides |-> "open"]]]
    /\ cl = [c \in Clients |-> [pc |-> "connect", file |-> 0, acked |-> FALSE,
                                left |-> MaxCmds]]

-----------------------------------------------------------------------------
(* The server.  in: what has arrived from the client it serves.             *)
ch == chan[srv.con]
in == ch.in["s"]

SAt(pc) == srv.pc = pc
SGoto(pc) == srv' = [srv EXCEPT !.pc = pc]
Take(j) == chan' = [chan EXCEPT ![srv.con] = Taken(@, "s", j)]

(* DieWithError or a signal: every connection is closed, also those quit    *)
(* left open, and the waiting ones are refused.                             *)
Die ==
    /\ SGoto("dead")
    /\ \E how \in Hows : chan' = [c \in Clients |->
         IF cl[c].pc = "connect" THEN chan[c]
         ELSE IF \E i \in 1..Len(queue) : queue[i] = c THEN Refused(chan[c])
         ELSE Closed(chan[c], "s", how)]
    /\ queue' = <<>>

(* write: nothing is sent of nothing.                                       *)
Wrote(h, s, us) == IF us = <<>> THEN h ELSE Sent(h, s, us)

Write(us, pc) ==
    \/ /\ chan' = [chan EXCEPT ![srv.con] = Wrote(@, "s", us)]
       /\ SGoto(pc)
       /\ UNCHANGED queue
    \/ Broken(ch, "s") /\ Die

(* accept, the hello, the hi.  A recv at end-of-file leaves the buffer as   *)
(* the last client left it, or uninitialised.                               *)
Accept ==
    /\ SAt("accept")
    /\ queue # <<>>
    /\ srv' = [srv EXCEPT !.pc = "hello", !.con = Head(queue),
                          !.lost = FALSE]
    /\ queue' = Tail(queue)
    /\ UNCHANGED chan

Greet ==
    \/ /\ SAt("hello")
       /\ \/ in # <<>> /\ Take(1)
          \/ AtEnd(ch, "s") /\ UNCHANGED chan
       /\ srv' = [srv EXCEPT !.pc = "hi", !.greeted = TRUE]
       /\ UNCHANGED queue
    \/ /\ SAt("hello")
       /\ (AtEnd(ch, "s") /\ ~ srv.greeted) \/ Failed(ch, "s")
       /\ Die
    \/ SAt("hi") /\ Write(<<Plain("hi")>>, "header")

Named(t) == IF t \in Requests THEN t ELSE "none"

(* Read up to a '|', ten bytes at most, and look what it is.  At end-of-    *)
(* file msgType keeps the last request, which is served again, or none, and *)
(* the loop spins (which changes nothing, hence no action).                 *)
Header ==
    /\ SAt("header")
    /\ \/ /\ in # <<>>
          /\ Take(1)
          /\ LET t == Named(Head(in).t) IN
             srv' = [srv EXCEPT !.pc = IF t = "none" THEN "header" ELSE t,
                                !.msgType = t]
          /\ UNCHANGED queue
       \/ /\ AtEnd(ch, "s") /\ srv.msgType # "none"
          /\ SGoto(srv.msgType)
          /\ UNCHANGED <<queue, chan>>
       \/ Failed(ch, "s") /\ Die

(* EchoReq: read a text, send the request's name and the text back.         *)
Echo ==
    \/ /\ SAt("EchoReq")
       /\ \/ /\ in # <<>>
             /\ Take(1)
             /\ \E hello \in BOOLEAN : srv' =
                  [srv EXCEPT !.pc = "reply", !.recv_n = 1, !.greeted = hello]
          \/ /\ AtEnd(ch, "s")
             /\ srv' = [srv EXCEPT !.pc = "reply", !.recv_n = 0,
                                   !.greeted = FALSE]
             /\ UNCHANGED chan
       /\ UNCHANGED queue
    \/ SAt("EchoReq") /\ Failed(ch, "s") /\ Die
    \/ SAt("reply") /\ Write(<<Plain("EchoReq")>>, "text")
    \/ SAt("text") /\ Write(IF srv.recv_n = 0 THEN <<>> ELSE <<Plain("text")>>,
                            "header")

-----------------------------------------------------------------------------
(* Mutants of Ack: no answer; the file is opened to append.                 *)
AckForgotten ==
    /\ SAt("ack")
    /\ srv' = [srv EXCEPT !.pc = "data", !.stored = 0]
    /\ UNCHANGED <<queue, chan>>
AckAppends == SAt("ack") /\ Write(<<Plain("FileAck")>>, "data")

(* FileAck, and fopen, which empties the file.                              *)
Ack ==
    /\ SAt("ack")
    /\ \/ /\ chan' = [chan EXCEPT ![srv.con] = Sent(@, "s", <<Plain("FileAck")>>)]
          /\ srv' = [srv EXCEPT !.pc = "data", !.stored = 0]
          /\ UNCHANGED queue
       \/ Broken(ch, "s") /\ Die

(* One read of the contents and a fwrite of origFileSize bytes, whatever    *)
(* was read, or when the read has failed; after that it is at end-of-file.  *)
(* The loop ends when one read has returned that many; how many bytes       *)
(* requests have is left open.                                              *)
Enough(us) ==
    IF srv.size = 0 THEN {TRUE}
    ELSE IF us = <<[t |-> "data", n |-> srv.size]>> THEN {TRUE}
    ELSE IF \E i \in 1..Len(us) : us[i].t # "data" THEN BOOLEAN ELSE {FALSE}

ReadUnits(j) ==
    LET us == SubSeq(in, 1, j) IN
    /\ Take(j)
    /\ \E enough \in Enough(us) : srv' =
         [srv EXCEPT !.pc = IF enough THEN "header" ELSE "data",
                     !.stored = @ + srv.size,
                     !.lost = @ \/ \E i \in 1..j : us[i].t # "data"]

(* TCP may deliver less than what one write has sent.                       *)
ReadPart ==
    /\ in # <<>> /\ Head(in).t = "data"
    /\ \E m \in 1..Head(in).n - 1 :
         chan' = [chan EXCEPT ![srv.con].in["s"][1].n = @ - m]
    /\ srv' = [srv EXCEPT !.stored = @ + srv.size]

FileUp ==
    \/ /\ SAt("FileUpReq")
       /\ \/ in # <<>> /\ Take(1) /\ SGoto("size") /\ UNCHANGED queue
          \/ (AtEnd(ch, "s") \/ Failed(ch, "s")) /\ Die
    \/ /\ SAt("size")
       /\ \/ /\ in # <<>> /\ Take(1)
             /\ srv' = [srv EXCEPT !.pc = "ack", !.size = Head(in).n]
             /\ UNCHANGED queue
          \/ (AtEnd(ch, "s") \/ Failed(ch, "s")) /\ Die
    \/ Ack
    \/ /\ SAt("data")
       /\ \/ \E j \in 1..Len(in) : ReadUnits(j)
          \/ ReadPart
          \/ AtEnd(ch, "s") /\ SGoto("header") /\ UNCHANGED chan
          \/ /\ Failed(ch, "s")
             /\ srv' = [srv EXCEPT !.pc = "header", !.stored = @ + srv.size]
             /\ UNCHANGED chan
       /\ UNCHANGED queue

(* Mutants of Quit: the server ends; the request is not recognised.         *)
QuitDies == SAt("quit") /\ Die
QuitIgnored == SAt("quit") /\ SGoto("header") /\ UNCHANGED <<queue, chan>>

(* quit: on to the next accept.  The connection is not closed.              *)
Quit == SAt("quit") /\ SGoto("accept") /\ UNCHANGED <<queue, chan>>

Serve ==
    /\ Accept \/ Greet \/ Header \/ Echo \/ FileUp \/ Quit
    /\ UNCHANGED cl

-----------------------------------------------------------------------------
(* The clients.                                                             *)
CAt(c, pc) == cl[c].pc = pc
CGoto(c, pc) == cl' = [cl EXCEPT ![c].pc = pc]
Running(c) == cl[c].pc \notin {"exit", "dead"}
out(c) == chan[c].in["c"]

Close(c, pc) ==
    /\ CGoto(c, pc)
    /\ \E how \in Hows : chan' = [chan EXCEPT ![c] = Closed(@, "c", how)]

CWrite(c, us, next) ==
    \/ chan' = [chan EXCEPT ![c] = Wrote(@, "c", us)] /\ cl' = [cl EXCEPT ![c] = next]
    \/ Broken(chan[c], "c") /\ Close(c, "dead")

CRead(c, pc) ==
    \/ /\ out(c) # <<>>
       /\ chan' = [chan EXCEPT ![c] = Taken(@, "c", 1)]
       /\ CGoto(c, pc)
    \/ AtEnd(chan[c], "c") /\ CGoto(c, pc) /\ UNCHANGED chan
    \/ Failed(chan[c], "c") /\ Close(c, "dead")

Connect(c) ==
    /\ CAt(c, "connect")
    /\ IF SAt("dead") THEN CGoto(c, "dead") /\ UNCHANGED queue
       ELSE CGoto(c, "hello") /\ queue' = Append(queue, c)
    /\ UNCHANGED chan

Hello(c) ==
    \/ CAt(c, "hello") /\ CWrite(c, <<Plain("hello")>>, [cl[c] EXCEPT !.pc = "hi"])
    \/ CAt(c, "hi") /\ CRead(c, "prompt")

(* Mutant of Line: the text of the answer is not read.                      *)
LineUnread(c) ==
    \/ /\ CAt(c, "prompt") /\ cl[c].left > 0
       /\ CWrite(c, <<Plain("EchoReq")>>, [cl[c] EXCEPT !.pc = "text", !.left = @ - 1])
    \/ CAt(c, "text") /\ CWrite(c, <<Plain("text")>>, [cl[c] EXCEPT !.pc = "rep"])
    \/ CAt(c, "rep") /\ CRead(c, "prompt")

(* A line to echo: the request, the text; then the two come back.           *)
Line(c) ==
    \/ /\ CAt(c, "prompt") /\ cl[c].left > 0
       /\ CWrite(c, <<Plain("EchoReq")>>, [cl[c] EXCEPT !.pc = "text", !.left = @ - 1])
    \/ CAt(c, "text") /\ CWrite(c, <<Plain("text")>>, [cl[c] EXCEPT !.pc = "rep"])
    \/ CAt(c, "rep") /\ CRead(c, "echoed")
    \/ CAt(c, "echoed") /\ CRead(c, "prompt")

(* ft_mode_client: request, name, size; an answer; the contents.  Nothing   *)
(* answers those.  At end-of-file the last answer is still in msgType.      *)
Upload(c) ==
    \/ \E n \in Sizes :
         /\ CAt(c, "prompt") /\ cl[c].left > 0
         /\ CWrite(c, <<Plain("FileUpReq")>>,
                   [cl[c] EXCEPT !.pc = "name", !.file = n, !.left = @ - 1])
    \/ CAt(c, "name") /\ CWrite(c, <<Plain("name")>>, [cl[c] EXCEPT !.pc = "size"])
    \/ CAt(c, "size") /\ CWrite(c, <<[t |-> "size", n |-> cl[c].file]>>,
                                [cl[c] EXCEPT !.pc = "ack"])
    \/ /\ CAt(c, "ack")
       /\ out(c) # <<>>
       /\ chan' = [chan EXCEPT ![c] = Taken(@, "c", 1)]
       /\ cl' = [cl EXCEPT ![c].pc = "send", ![c].acked = TRUE]
    \/ /\ CAt(c, "ack")
       /\ AtEnd(chan[c], "c") \/ Failed(chan[c], "c")
       /\ CGoto(c, IF cl[c].acked THEN "send" ELSE "prompt")
       /\ UNCHANGED chan
    \/ /\ CAt(c, "send")
       /\ CWrite(c, IF cl[c].file = 0 THEN <<>>
                    ELSE <<[t |-> "data", n |-> cl[c].file]>>,
                 [cl[c] EXCEPT !.pc = "prompt"])

Leave(c) ==
    \/ CAt(c, "prompt") /\ CWrite(c, <<Plain("quit")>>, [cl[c] EXCEPT !.pc = "bye"])
    \/ CAt(c, "bye") /\ Close(c, "exit")

Use(c) ==
    /\ \/ Connect(c)
       \/ (Hello(c) \/ Line(c) \/ Upload(c) \/ Leave(c)) /\ UNCHANGED queue
    /\ UNCHANGED srv

Crash(c) ==
    /\ MayCrash
    /\ Running(c) /\ ~ CAt(c, "connect")
    /\ Close(c, "dead")
    /\ UNCHANGED <<srv, queue>>

Next == Serve \/ \E c \in Clients : Use(c) \/ Crash(c)

Spec == Init /\ [][Next]_vars

(* The system runs the server and every client that is not at its prompt;   *)
(* a server that goes on writing to a closed connection gets the reset.     *)
Fairness ==
    /\ WF_vars(Serve) /\ SF_vars(Serve /\ srv'.pc = "dead")
    /\ \A c \in Clients : WF_vars(Use(c) /\ cl[c].pc \notin {"connect", "prompt"})
FairSpec == Spec /\ Fairness

-----------------------------------------------------------------------------
(* Requests may get lost, but no answer is given to another's: what waits   *)
(* for a client is the answer to what it has asked.                         *)
Answer == [hi |-> "hi", rep |-> "EchoReq", echoed |-> "text", ack |-> "FileAck"]
AnswersMatch ==
    \A c \in Clients : Running(c) =>
        IF cl[c].pc \in DOMAIN Answer
        THEN out(c) # <<>> => Head(out(c)).t = Answer[cl[c].pc]
        ELSE out(c) = <<>>

(* Client and server wait for each other only where a read of a file's      *)
(* contents has taken a request with it: no other order of writes and reads *)
(* does that.                                                               *)
WaitsExplained ==
    \A c \in Clients :
        /\ cl[c].pc \in DOMAIN Answer /\ srv.con = c /\ ~ SAt("dead")
        /\ chan[c].in = [s \in Sides |-> <<>>]
        /\ srv.pc \in {"header", "EchoReq", "FileUpReq", "size", "data"}
        => srv.lost

(* A file the server is done with is as long as announced, if its client is *)
(* there and nothing was read past its end, although each read writes the   *)
(* whole length.                                                            *)
StoredExact ==
    SAt("header") /\ srv.msgType = "FileUpReq" /\ ~ srv.lost /\ Running(srv.con)
        => srv.stored = srv.size

(* The server serves one client after the other and one can end it for all; *)
(* only a client that was killed does, or one whose quit was read as part   *)
(* of a file.                                                               *)
DeathsExplained ==
    [][SAt("dead")' /\ ~ SAt("dead") =>
         CAt(srv.con, "dead") \/ (CAt(srv.con, "exit") /\ srv.lost)]_vars

(* A client that has gone frees the server for the next one, or ends it, or *)
(* leaves it looking for a request for ever; the last only if it was killed *)
(* and what the server read last was no request.                            *)
Looping(c) == SAt("header") /\ srv.msgType = "none" /\ CAt(c, "dead")
GoneIsNoticed == \A c \in Clients :
    ~ Running(c) /\ srv.con = c
        ~> srv.con # c \/ srv.pc \in {"accept", "dead"} \/ Looping(c)
=============================================================================
