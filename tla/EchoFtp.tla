------------------------------- MODULE EchoFtp -------------------------------
(* The system of assignment_final: one server and its process tree, and the *)
(* clients that connect to it, over the sockets between them.               *)
EXTENDS FtpServer, FtpClient

vars == <<sockets, serverVars, cl>>

Init == SocketsInit /\ ServerInit /\ ClientInit

(* A client process is killed, or its machine leaves, at any moment.        *)
Crash(c) ==
    /\ "crash" \in Faults
    /\ Running(c) /\ cl[c].sock # NoConn
    /\ Stop(c, "dead")

Serve(p) == ServerStep(p) /\ UNCHANGED cl
Use(c) == ClientStep(c) /\ UNCHANGED serverVars
Fail(c) == Crash(c) /\ UNCHANGED serverVars

Next ==
    \/ \E p \in Procs : Serve(p)
    \/ \E c \in Clients : Use(c) \/ Fail(c)

Spec == Init /\ [][Next]_vars

TypeOK == SocketsType /\ ServerType /\ ClientType

-----------------------------------------------------------------------------
(* The points at which a process serves a client, and those of them at      *)
(* which it reads or writes its data connection.                            *)
InSession(p) == proc[p].pc \in Commands \cup
    {"session", "dtpaccept", "dtphello", "dtphi", "echotext", "echoback",
     "storsize", "download", "stordone", "retrsize", "retrdone",
     "listdata", "listdone"}
Transferring(p) == proc[p].pc \in
    {"dtphello", "dtphi", "STOR", "storsize", "download", "stordone",
     "RETR", "LIST", "listdata"}

ClientOf(p) == proc[p].clntSock[1]

(* What a client reads next is the answer to what it asked last: at each    *)
(* receive of a handler, what waits on the control connection begins with   *)
(* the text EchoFtpServer.c sends at that point of that command, never one  *)
(* an earlier command left behind.                                          *)
Answer == [hi |-> "hi", userR |-> "Get", sysyR |-> "OS", addr |-> "addr",
           list150 |-> "150", listdone |-> "226",
           retrsize |-> "size", retrdone |-> "complete",
           storok |-> "226", stordone |-> "complete",
           cwdR |-> "Change", ok |-> "ok", textR |-> "text", quitR |-> "221"]
AnswersInOrder ==
    \A c \in Clients : cl[c].pc \in DOMAIN Answer =>
        LET u == chan[cl[c].sock].in["c"] IN
        u = <<>> \/ Head(u).t = Answer[cl[c].pc]

(* When a client is back at its prompt and its server still there, the      *)
(* control connection is silent in both directions and one process waits    *)
(* for its next command: no handler of one program returns while the other  *)
(* program is still inside the same command.                                *)
PromptQuiet ==
    \A c \in Clients : LET k == cl[c].sock IN
        CAt(c, "prompt") /\ k # NoConn /\ chan[k].end["s"] = "open" =>
        /\ chan[k].in = [s \in Sides |-> <<>>]
        /\ \E p \in Procs : At(p, "session") /\ proc[p].clntSock = k

(* The data connection a process reads or writes is the one its own client  *)
(* made for this command (PASV pairs them by whoever connects next).        *)
DataConnMatches ==
    \A p \in Procs : Transferring(p) =>
        proc[p].clntDtpSock = cl[ClientOf(p)].dtpSock

(* A transfer that ends has moved the whole file: get has read as much as   *)
(* the server counted and the file holds; when the server has stored a file *)
(* it has read as much as the client counted, and SIZE came before that.    *)
WholeFile ==
    /\ \A c \in Clients : CAt(c, "retrdone") =>
         cl[c].totalBytes = cl[c].fileSize /\ cl[c].fileSize = cl[c].arg
    /\ \A p \in Procs : At(p, "stordone") =>
         /\ proc[p].totalBytes = proc[p].fileSize
         /\ proc[p].fileSize = cl[ClientOf(p)].arg

(* Each client is served by one process: no two processes are shaking hands *)
(* or in a session on the same control connection, and none works on one it *)
(* has closed, although fork has spread copies of the descriptors over the  *)
(* process tree and processes come back to accept after QUIT.               *)
Serving(p) == InSession(p) \/ proc[p].pc \in {"hello", "hi", "fork"}
ControlApart ==
    \A p \in Procs : Serving(p) =>
        /\ proc[p].clntSock \in fds[p]
        /\ \A q \in Procs \ {p} :
             Serving(q) => proc[q].clntSock # proc[p].clntSock

(* The data connection of a transfer is one the process has accepted and    *)
(* not closed yet, and no other process transfers on it: clntDtpSock is     *)
(* never the descriptor an earlier STOR or LIST closed, nor, in a child,    *)
(* the one its parent left there.                                           *)
DataApart ==
    \A p \in Procs : Transferring(p) =>
        /\ proc[p].clntDtpSock \in fds[p]
        /\ \A q \in Procs \ {p} :
             Transferring(q) => proc[q].clntDtpSock # proc[p].clntDtpSock

(* The server's side of an accepted connection is open exactly as long as   *)
(* some process has a descriptor of it: no close or death of one process of *)
(* the tree takes a connection from another, none leaks one for good.       *)
OpenWhileHeld ==
    \A k \in Conns :
        /\ (\E p \in Procs : k \in fds[p]) =>
             chan[k].end["s"] = "open" /\ chan[k].port # "none"
        /\ chan[k].port # "none" /\ chan[k].end["s"] = "open" =>
             k \in Waiting(chan[k].port) \/ \E p \in Procs : k \in fds[p]

(* A process of the server dies at the end of its own client, or of a data  *)
(* connection that is not its client's, or because fork or accept failed in *)
(* it, or fopen as it begins with a file: whoever crashes, the sessions of  *)
(* the others go on.                                                        *)
DeathsExplained ==
    [][\A p \in Procs : Alive(p) /\ proc'[p].pc = "dead" =>
         \/ ~ Running(ClientOf(p))
         \/ Transferring(p) /\ proc[p].clntDtpSock # cl[ClientOf(p)].dtpSock
         \/ "fork" \in Faults /\ At(p, "fork")
         \/ "accept" \in Faults /\ At(p, "dtpaccept")
         \/ "file" \in Faults /\ At(p, "RETR") /\ proc[p].arg = NoFile
         \/ /\ "file" \in Faults /\ proc[p].pc \in {"download", "listdata"}
            /\ proc[p].totalBytes = 0]_vars

(* The directory of a process changes only while its own client waits for   *)
(* the answer to rcd, and only to the directory that client named or none.  *)
CwdByOwnClient ==
    [][\A p \in Procs : proc'[p].cwd # proc[p].cwd =>
         \/ At(p, "none")
         \/ /\ At(p, "CWD")
            /\ CAt(ClientOf(p), "cwdR") \/ ~ Running(ClientOf(p))
            /\ proc'[p].cwd = proc[p].arg]_vars

-----------------------------------------------------------------------------
(* The scheduler runs every process that can run; a user may stop typing.   *)
Fairness ==
    /\ \A p \in Procs : WF_vars(Serve(p))
    /\ \A c \in Clients : WF_vars(Use(c) /\ ~ CAt(c, "prompt"))

FairSpec == Spec /\ Fairness

(* Every command a user types ends: its handler returns to the prompt, or   *)
(* the client process ends; but get and rls may wait for a completion while *)
(* their server already waits for the next command.                         *)
Overtaken(c) ==
    /\ cl[c].pc \in {"retrdone", "listdone"}
    /\ \E p \in Procs : At(p, "session") /\ proc[p].clntSock = cl[c].sock
CommandsEnd == \A c \in Clients :
    ~ CAt(c, "prompt") ~> CAt(c, "prompt") \/ ~ Running(c) \/ Overtaken(c)

(* Every handler of the server returns to HandleFTPControl's receive, or,   *)
(* after QUIT, to the accept of main.                                       *)
HandlersReturn == \A p \in Procs :
    proc[p].pc \notin {"none", "dead"}
        ~> proc[p].pc \in {"session", "accept", "dead"}

(* What the documents and comments of the program promise beyond that.      *)

(* open connects to the server (the usage notes, line 5): a client that has *)
(* said hello is answered.                                                  *)
OpensAreServed == \A c \in Clients : CAt(c, "hi") ~> ~ CAt(c, "hi")

(* get and rls end with "recv complete message from PI server"              *)
(* (EchoFtpClient.c, lines 309 and 266): the message comes.                 *)
CompletionComes == \A c \in Clients :
    cl[c].pc \in {"retrdone", "listdone"}
        ~> cl[c].pc \notin {"retrdone", "listdone"}

(* get receives the file's size as the answer to RETR (EchoFtpClient.c,     *)
(* line 299), put uploads the file (usage notes, line 12): neither waits    *)
(* for ever for the other side to begin.                                    *)
TransfersGoOn == \A c \in Clients :
    cl[c].pc \in {"retrsize", "upload"} ~> cl[c].pc \notin {"retrsize", "upload"}

-----------------------------------------------------------------------------
(* The process tree and its descriptors, as Descriptors.tla tells it.       *)
Lives == [p \in Procs |-> IF Alive(p) THEN "alive" ELSE proc[p].pc]
Made == {k \in Conns : chan[k].port # "none"}
Opened == {k \in Made : chan[k].end["s"] = "open"}
Tree == INSTANCE Descriptors WITH
    life <- Lives, held <- fds, queue <- backlog, made <- Made, open <- Opened

(* Every step of the server and of its clients is, for the connections, one *)
(* the abstract tree takes or none at all: a connection gets to a process   *)
(* by accept and fork only, in the order of the queue, and the server's     *)
(* side ends when its last holder closes it or dies, and never comes back.  *)
TreeSpec == Tree!Spec

(* A session, as Session.tla tells it: the command whose answers a client   *)
(* waits for, and the command its server is at.                             *)
Awaited == [userR |-> "User", sysyR |-> "SYSY",
            addr |-> "PASV", connect |-> "PASV", dtphello |-> "PASV", dtphi |-> "PASV",
            list150 |-> "LIST", listdata |-> "LIST", listdone |-> "LIST",
            retrsize |-> "RETR", download |-> "RETR", retrdone |-> "RETR",
            storok |-> "STOR", upload |-> "STOR", SIZE |-> "STOR", stordone |-> "STOR",
            cwdR |-> "CWD", ok |-> "ECHO", text |-> "ECHO", textR |-> "ECHO",
            quitR |-> "QUIT"]
Handler == [dtpaccept |-> "PASV", dtphello |-> "PASV", dtphi |-> "PASV",
            echotext |-> "ECHO", echoback |-> "ECHO",
            storsize |-> "STOR", download |-> "STOR", stordone |-> "STOR",
            retrsize |-> "RETR", retrdone |-> "RETR",
            listdata |-> "LIST", listdone |-> "LIST"]
Servers(c) == {p \in Procs : /\ InSession(p) \/ At(p, "fork")
                             /\ proc[p].clntSock = cl[c].sock}
Served(c) == Running(c) /\ Servers(c) # {}
Want(c) == IF Served(c) /\ cl[c].pc \in DOMAIN Awaited THEN Awaited[cl[c].pc]
                                                       ELSE "none"
Doing(c) ==
    IF ~ Served(c) THEN "out" ELSE
    LET pc == proc[CHOOSE p \in Servers(c) : TRUE].pc IN
    CASE pc \in DOMAIN Handler -> Handler[pc]
      [] pc \in Commands -> pc
      [] pc \in {"fork", "session"} ->
            IF chan[cl[c].sock].in["s"] = <<>> THEN "none" ELSE "asked"
Dialogue == INSTANCE Session WITH
    want <- [c \in Clients |-> Want(c)], doing <- [c \in Clients |-> Doing(c)]

(* The two programs carry out the abstract session: the server is never at  *)
(* another command than its client waits for, at none twice, and a handler  *)
(* of the client never returns before the server's has.                     *)
SessionSpec == Dialogue!Spec
=============================================================================
