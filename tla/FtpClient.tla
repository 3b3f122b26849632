------------------------------ MODULE FtpClient ------------------------------
(* EchoFtpClient.c: a prompt; each command the user types runs a handler of *)
(* blocking calls to its end before the next prompt.                        *)
EXTENDS Sockets

CONSTANTS Typed,     \* the commands the users type
          MaxCmds    \* bound: how many of them one user types

ASSUME ClientAssumption ==
    /\ Typed \subseteq {"open", "quit", "ftp", "leave", "hash", "cd", "rcd",
                        "rls", "get", "put", "echo", "long echo"}
    /\ MaxCmds \in Nat

VARIABLE cl          \* the clients: the point each has reached, its variables

ClientPc ==
    {"prompt", "hello", "hi", "User", "userR", "SYSY", "sysyR",
     "PASV", "addr", "connect", "dtphello", "dtphi",
     "LIST", "list150", "listdata", "listdone",
     "RETR", "retrsize", "download", "retrdone",
     "STOR", "storok", "upload", "SIZE", "stordone",
     "CWD", "cwdR", "ECHO", "ok", "text", "textR", "QUIT", "quitR",
     "exit", "dead"}

Client == [pc         : ClientPc,
           sock       : Conns \cup {NoConn},
           dtpSock    : Conns \cup {NoConn},
           ftp        : BOOLEAN,          \* ftp_flag: the prompt is ftp>
           hashFlag   : BOOLEAN,
           cwd        : Dirs,
           then       : {"prompt", "LIST", "RETR", "STOR"},
           arg        : Int,              \* the file a command names
           fileSize   : Int,
           totalBytes : Nat,
           left       : Nat]              \* commands the user may still type

ClientType == cl \in [Clients -> Client]

ClientInit ==
    cl = [c \in Clients |->
            [pc |-> "prompt", sock |-> NoConn, dtpSock |-> NoConn,
             ftp |-> FALSE, hashFlag |-> TRUE, cwd |-> Home,
             then |-> "prompt", arg |-> 0, fileSize |-> 0, totalBytes |-> 0,
             left |-> MaxCmds]]

Running(c) == cl[c].pc \notin {"exit", "dead"}

-----------------------------------------------------------------------------
CAt(c, pc) == cl[c].pc = pc
CGoto(c, pc) == cl' = [cl EXCEPT ![c].pc = pc]

(* A handler returns: its local variables are gone.                         *)
Prompt(c) ==
    cl' = [cl EXCEPT ![c].pc = "prompt", ![c].then = "prompt", ![c].arg = 0,
                     ![c].fileSize = 0, ![c].totalBytes = 0]

(* The process ends, in order or not: all its connections are closed.       *)
Stop(c, pc) ==
    /\ CGoto(c, pc)
    /\ \E how \in Hows :
         chan' = CloseAll({k \in Conns : /\ k[1] = c
                                         /\ chan[k].port # "none"
                                         /\ chan[k].end["c"] = "open"}, "c", how)
    /\ UNCHANGED <<backlog, listening>>

CSend(c, k, ms, pc) ==
    \/ SendOn(k, "c", ms) /\ CGoto(c, pc) /\ UNCHANGED <<backlog, listening>>
    \/ Broken(chan[k], "c") /\ Stop(c, "dead")

CRecv(c, k, pc) ==
    \/ /\ \E j \in 1..Len(chan[k].in["c"]) : RecvOn(k, "c", j)
       /\ CGoto(c, pc)
       /\ UNCHANGED <<backlog, listening>>
    \/ AtEnd(chan[k], "c") /\ CGoto(c, pc) /\ UNCHANGED sockets
    \/ Failed(chan[k], "c") /\ Stop(c, "dead")

(* Mutant of LastRecv: the handler returns without its last receive.        *)
LastRecvDropped(c, k, h) ==
    chan' = h /\ Prompt(c) /\ UNCHANGED <<backlog, listening>>

(* The last receive of a handler, of what h leaves of the connections.      *)
LastRecv(c, k, h) ==
    \/ /\ \/ \E j \in 1..Len(chan[k].in["c"]) :
               /\ Fits(chan[k].in["c"], j)
               /\ chan' = [h EXCEPT ![k] = Taken(@, "c", j)]
          \/ AtEnd(chan[k], "c") /\ chan' = h
       /\ Prompt(c)
       /\ UNCHANGED <<backlog, listening>>
    \/ Failed(chan[k], "c") /\ Stop(c, "dead")

Closing(k, how) == [chan EXCEPT ![k] = Closed(@, "c", how)]

-----------------------------------------------------------------------------
(* The user types the command what; sendProtocol on a socket that was never *)
(* opened is the end of the process.                                        *)
Types(c, what) == CAt(c, "prompt") /\ what \in Typed /\ cl[c].left > 0

Starts(c, what, pc, next, n) ==
    /\ Types(c, what)
    /\ IF cl[c].sock = NoConn
       THEN Stop(c, "dead")
       ELSE /\ cl' = [cl EXCEPT ![c].pc = pc, ![c].then = next, ![c].arg = n,
                                ![c].left = @ - 1]
            /\ UNCHANGED sockets

(* socket and connect of connectServer, to port q; there may be nobody.     *)
NewConn(c) ==
    <<c, 1 + Cardinality({i \in 1..MaxConn : chan[<<c, i>>].port # "none"})>>

(* Mutant of Connect: the data connection goes to the control port.         *)
ConnectToPI(c, q, next) ==
    /\ listening /\ NewConn(c) \in Conns
    /\ chan' = [chan EXCEPT ![NewConn(c)].port = "pi"]
    /\ backlog' = [backlog EXCEPT !["pi"] = Append(@, NewConn(c))]
    /\ cl' = [cl EXCEPT ![c] = next]
    /\ UNCHANGED listening

Connect(c, q, next) ==
    \/ /\ listening
       /\ NewConn(c) \in Conns /\ chan[NewConn(c)].port = "none"
       /\ chan' = [chan EXCEPT ![NewConn(c)].port = q]
       /\ backlog' = [backlog EXCEPT ![q] = Append(@, NewConn(c))]
       /\ cl' = [cl EXCEPT ![c] = next]
       /\ UNCHANGED listening
    \/ ~ listening /\ Stop(c, "dead")

(* open: connect, hello/hi (the answer is not looked at), User, SYSY.  The  *)
(* socket of an earlier open is forgotten, not closed.                      *)
openCon(c) ==
    LET k == cl[c].sock IN
    \/ Types(c, "open") /\ Connect(c, "pi", [cl[c] EXCEPT
           !.pc = "hello", !.sock = NewConn(c), !.left = @ - 1])
    \/ CAt(c, "hello") /\ CSend(c, k, <<Word("hello")>>, "hi")
    \/ CAt(c, "hi") /\ CRecv(c, k, "User")
    \/ CAt(c, "User") /\ CSend(c, k, <<Word("User")>>, "userR")
    \/ CAt(c, "userR") /\ CRecv(c, k, "SYSY")
    \/ CAt(c, "SYSY") /\ CSend(c, k, <<Word("SYSY")>>, "sysyR")
    \/ CAt(c, "sysyR") /\ LastRecv(c, k, chan)

(* passiveMode and the data connection, common to rls, get and put: PASV,   *)
(* connect to the address in the answer, hello/hi.  An answer that is no    *)
(* address leaves what was in its place, the last one perhaps, to connect   *)
(* to: that may be refused.                                                 *)
AddrLost(k) == \/ AtEnd(chan[k], "c")
               \/ /\ chan[k].in["c"] # <<>>
                  /\ Head(chan[k].in["c"]).t # "addr"

passiveMode(c) ==
    LET k == cl[c].sock
        d == cl[c].dtpSock
    IN
    \/ CAt(c, "PASV") /\ CSend(c, k, <<Word("PASV")>>, "addr")
    \/ CAt(c, "addr") /\ CRecv(c, k, "connect")
    \/ CAt(c, "addr") /\ AddrLost(k) /\ Stop(c, "dead")
    \/ CAt(c, "connect") /\ Connect(c, "dtp", [cl[c] EXCEPT
           !.pc = "dtphello", !.dtpSock = NewConn(c)])
    \/ CAt(c, "dtphello") /\ CSend(c, d, <<Word("hello")>>, "dtphi")
    \/ CAt(c, "dtphi") /\ CRecv(c, d, cl[c].then)

-----------------------------------------------------------------------------
(* rls: list the server's directory: LIST, an announcement, the lines until *)
(* the data connection ends, a completion.                                  *)
rlist(c) ==
    LET k == cl[c].sock
        d == cl[c].dtpSock
    IN
    \/ cl[c].ftp /\ Starts(c, "rls", "PASV", "LIST", 0)
    \/ CAt(c, "LIST") /\ CSend(c, k, <<Word("LIST")>>, "list150")
    \/ CAt(c, "list150") /\ CRecv(c, k, "listdata")
    \/ CAt(c, "listdata") /\ CRecv(c, d, IF AtEnd(chan[d], "c") THEN "listdone"
                                                                ELSE "listdata")
    \/ CAt(c, "listdone") /\ \E how \in Hows : LastRecv(c, k, Closing(d, how))

(* get: RETR, the size in an answer's parentheses (without any, strchr      *)
(* returns null and the client dies), the file (downloadFile, see STOR of   *)
(* the server), a completion.                                               *)
get(c) ==
    LET k == cl[c].sock
        d == cl[c].dtpSock
        u == chan[k].in["c"]
    IN
    \/ \E n \in Files :
         cl[c].ftp /\ Starts(c, "get", "PASV", "RETR", n)
    \/ CAt(c, "RETR") /\ CSend(c, k, <<With("RETR", cl[c].arg)>>, "retrsize")
    \/ /\ CAt(c, "retrsize")
       /\ \/ /\ u # <<>> /\ Head(u).t = "size"
             /\ \E j \in 1..Len(u) : RecvOn(k, "c", j)
             /\ cl' = [cl EXCEPT ![c].pc = "download",
                                 ![c].fileSize = Head(u).n]
             /\ UNCHANGED <<backlog, listening>>
          \/ /\ \/ u # <<>> /\ Head(u).t # "size"
                \/ AtEnd(chan[k], "c") \/ Failed(chan[k], "c")
             /\ Stop(c, "dead")
    \/ /\ CAt(c, "download")
       /\ \/ /\ cl[c].totalBytes < cl[c].fileSize
             /\ RecvOn(d, "c", 1)
             /\ cl' = [cl EXCEPT ![c].totalBytes = @ + 1]
             /\ UNCHANGED <<backlog, listening>>
          \/ /\ \/ cl[c].totalBytes >= cl[c].fileSize
                \/ AtEnd(chan[d], "c") \/ Failed(chan[d], "c")
             /\ CGoto(c, "retrdone")
             /\ UNCHANGED sockets
          \/ /\ "file" \in Faults /\ cl[c].totalBytes = 0
             /\ \/ cl[c].fileSize = 0 \/ chan[d].in["c"] # <<>>
                \/ AtEnd(chan[d], "c") \/ Failed(chan[d], "c")
             /\ Stop(c, "dead")
    \/ CAt(c, "retrdone") /\ \E how \in Hows : LastRecv(c, k, Closing(d, how))

(* put: STOR, an agreement, the file (uploadFile; one that is not there is  *)
(* a null stream), then its size, a completion.                             *)
put(c) ==
    LET k == cl[c].sock
        d == cl[c].dtpSock
        me == cl[c]
    IN
    \/ \E n \in Files :
         me.ftp /\ Starts(c, "put", "PASV", "STOR", n)
    \/ CAt(c, "STOR") /\ CSend(c, k, <<With("STOR", me.arg)>>, "storok")
    \/ CAt(c, "storok") /\ CRecv(c, k, "upload")
    \/ /\ CAt(c, "upload")
       /\ \/ /\ me.totalBytes < me.arg
             /\ Room(chan[d], "c")
             /\ SendOn(d, "c", <<Word("data")>>)
             /\ cl' = [cl EXCEPT ![c].totalBytes = @ + 1]
             /\ UNCHANGED <<backlog, listening>>
          \/ /\ \E n \in Uploaded(chan[d], "c", me.totalBytes, me.arg) :
                  cl' = [cl EXCEPT ![c].pc = "SIZE", ![c].totalBytes = n]
             /\ UNCHANGED sockets
          \/ (me.arg = NoFile \/ Broken(chan[d], "c")) /\ Stop(c, "dead")
    \/ /\ CAt(c, "SIZE")
       /\ \/ /\ \E how \in Hows : chan' =
                  [Closing(d, how) EXCEPT ![k] =
                     Sent(@, "c", <<With("SIZE", me.totalBytes)>>)]
             /\ CGoto(c, "stordone")
             /\ UNCHANGED <<backlog, listening>>
          \/ Broken(chan[k], "c") /\ Stop(c, "dead")
    \/ CAt(c, "stordone") /\ LastRecv(c, k, chan)

-----------------------------------------------------------------------------
(* rcd: change the server's directory.                                      *)
rcd(c) ==
    LET k == cl[c].sock IN
    \/ cl[c].ftp /\ Starts(c, "rcd", "CWD", "prompt", 0)
    \/ \E dir \in Dirs :
         CAt(c, "CWD") /\ CSend(c, k, <<With("CWD", dir)>>, "cwdR")
    \/ CAt(c, "cwdR") /\ LastRecv(c, k, chan)

(* echo: announce the line, wait for the ok, send it, print what comes.     *)
echo(c) ==
    LET k == cl[c].sock IN
    \/ /\ ~ cl[c].ftp
       /\ \/ Starts(c, "echo", "ECHO", "prompt", 0)
          \/ Starts(c, "long echo", "ECHO", "prompt", 1)
    \/ CAt(c, "ECHO") /\ CSend(c, k, <<Word("ECHO")>>, "ok")
    \/ CAt(c, "ok") /\ CRecv(c, k, "text")
    \/ CAt(c, "text") /\ CSend(c, k, Text(cl[c].arg = 1), "textR")
    \/ CAt(c, "textR") /\ LastRecv(c, k, chan)

(* quit: at the prompt input> only; without a connection just exit.         *)
quit(c) ==
    LET k == cl[c].sock IN
    \/ /\ CAt(c, "prompt") /\ ~ cl[c].ftp /\ "quit" \in Typed
       /\ IF k = NoConn THEN Stop(c, "exit")
                        ELSE CGoto(c, "QUIT") /\ UNCHANGED sockets
    \/ CAt(c, "QUIT") /\ CSend(c, k, <<Word("QUIT")>>, "quitR")
    \/ /\ CAt(c, "quitR")
       /\ \/ /\ chan[k].in["c"] # <<>> \/ AtEnd(chan[k], "c")
             /\ Stop(c, "exit")
          \/ Failed(chan[k], "c") /\ Stop(c, "dead")

(* Commands that stay in the process: ftp and, at ftp>, quit change the     *)
(* prompt, hash the progress display, cd the client's own directory.        *)
Local(c) ==
    /\ \/ /\ Types(c, "ftp")
          /\ cl' = [cl EXCEPT ![c].ftp = TRUE, ![c].left = @ - 1]
       \/ /\ CAt(c, "prompt") /\ cl[c].ftp /\ "leave" \in Typed
          /\ cl' = [cl EXCEPT ![c].ftp = FALSE]
       \/ /\ cl[c].ftp /\ Types(c, "hash")
          /\ cl' = [cl EXCEPT ![c].hashFlag = ~ @, ![c].left = @ - 1]
       \/ /\ cl[c].ftp /\ Types(c, "cd")
          /\ \E dir \in Dirs :
               cl' = [cl EXCEPT ![c].cwd = dir, ![c].left = @ - 1]
    /\ UNCHANGED sockets

ClientStep(c) ==
    \/ openCon(c) \/ rlist(c) \/ get(c) \/ put(c) \/ passiveMode(c)
    \/ rcd(c) \/ echo(c) \/ quit(c) \/ Local(c)
=============================================================================
