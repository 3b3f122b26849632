------------------------------ MODULE FtpServer ------------------------------
(* EchoFtpServer.c: a tree of processes that share two listening sockets.    *)
(* Every process runs the same loop of main: accept a connection, shake      *)
(* hands, fork; the child serves the session and, after QUIT, falls back     *)
(* into the loop.  Descriptors are copied by fork, so that the server's side *)
(* of a connection is closed when the last process that holds it closes it.  *)
EXTENDS Sockets

CONSTANTS Procs,     \* the server's processes, started or not
          Root,      \* the one started from the shell
          Lines      \* numbers of lines LIST sends, the repeated last one too

ASSUME ServerAssumption ==
    /\ Root \in Procs
    /\ Lines \subseteq Nat

VARIABLES proc,      \* the processes: the point each has reached, its variables
          fds        \* the connections each process holds a descriptor of

serverVars == <<proc, fds>>

ServerPc == Commands \cup
    {"none", "accept", "hello", "hi", "fork", "session",
     "dtpaccept", "dtphello", "dtphi", "echotext", "echoback",
     "storsize", "download", "stordone", "retrsize", "retrdone",
     "listdata", "listdone", "dead"}

Process == [pc          : ServerPc,
            clntSock    : Conns \cup {NoConn},
            clntDtpSock : Conns \cup {NoConn},
            cwd         : Dirs,
            arg         : Int \cup Dirs,  \* what the command names
            fileSize    : Int,
            totalBytes  : Nat]

ServerType ==
    /\ proc \in [Procs -> Process]
    /\ fds \in [Procs -> SUBSET Conns]
    /\ \A p \in Procs : proc[p].pc = "CWD" => proc[p].arg \in Dirs

ServerInit ==
    /\ proc = [p \in Procs |->
                 [pc |-> IF p = Root THEN "accept" ELSE "none",
                  clntSock |-> NoConn, clntDtpSock |-> NoConn, cwd |-> Home,
                  arg |-> 0, fileSize |-> 0, totalBytes |-> 0]]
    /\ fds = [p \in Procs |-> {}]

Alive(p) == proc[p].pc \notin {"none", "dead"}

-----------------------------------------------------------------------------
At(p, pc) == proc[p].pc = pc
Goto(p, pc) == proc' = [proc EXCEPT ![p].pc = pc]

(* The connections only p keeps open on the server's side.                  *)
OnlyHeldBy(p) == {k \in fds[p] : \A q \in Procs \ {p} : k \notin fds[q]}

(* DieWithError, a signal, or the crash of p: its descriptors are closed,   *)
(* and the listening sockets with them when no other process has them.      *)
Die(p) ==
    /\ proc' = [proc EXCEPT ![p].pc = "dead"]
    /\ fds' = [fds EXCEPT ![p] = {}]
    /\ \E how \in Hows : LET closed == CloseAll(OnlyHeldBy(p), "s", how) IN
         IF \E q \in Procs \ {p} : Alive(q)
         THEN chan' = closed /\ UNCHANGED <<backlog, listening>>
         ELSE /\ chan' = [k \in Conns |->
                            IF k \in Waiting("pi") \cup Waiting("dtp")
                            THEN Refused(closed[k]) ELSE closed[k]]
              /\ backlog' = [q \in Ports |-> <<>>]
              /\ listening' = FALSE

(* sendProtocol(k, m), then on to pc; a broken connection may kill p.       *)
Send(p, k, m, pc) ==
    \/ /\ SendOn(k, "s", <<m>>)
       /\ Goto(p, pc)
       /\ UNCHANGED <<fds, backlog, listening>>
    \/ Broken(chan[k], "s") /\ Die(p)

(* Mutant of CloseIn: the connection is shut, its descriptor kept.          *)
ShutIn(h, p, k) ==
    /\ UNCHANGED fds
    /\ chan' = [h EXCEPT ![k] = Closed(@, "s", "gone")]

(* close(k) in p, in the state of the connections h.                        *)
CloseIn(h, p, k) ==
    /\ fds' = [fds EXCEPT ![p] = @ \ {k}]
    /\ \E how \in Hows :
         chan' = IF k \in OnlyHeldBy(p)
                 THEN [h EXCEPT ![k] = Closed(@, "s", how)] ELSE h

-----------------------------------------------------------------------------
(* Mutant of Accept: the data connection is accepted and not stored.        *)
AcceptForgotten(p, q, pc) ==
    /\ backlog[q] # <<>>
    /\ LET k == Head(backlog[q]) IN
         /\ proc' = [proc EXCEPT ![p].pc = pc,
                                 ![p].clntSock = IF q = "pi" THEN k ELSE @]
         /\ fds' = [fds EXCEPT ![p] = @ \cup {k}]
    /\ backlog' = [backlog EXCEPT ![q] = Tail(@)]
    /\ UNCHANGED <<chan, listening>>

(* acceptClient, on the listening socket of port q: accept, receive the     *)
(* client's hello, answer.  Anything but a lone hello kills the process.    *)
Accept(p, q, pc) ==
    /\ backlog[q] # <<>>
    /\ LET k == Head(backlog[q]) IN
         /\ proc' = [proc EXCEPT
                       ![p].pc = pc,
                       ![p].clntSock    = IF q = "pi"  THEN k ELSE @,
                       ![p].clntDtpSock = IF q = "dtp" THEN k ELSE @]
         /\ fds' = [fds EXCEPT ![p] = @ \cup {k}]
    /\ backlog' = [backlog EXCEPT ![q] = Tail(@)]
    /\ UNCHANGED <<chan, listening>>

Greeted(k) == chan[k].in["s"] = <<Word("hello")>>

Hello(p, k, pc) ==
    \/ /\ Greeted(k)
       /\ RecvOn(k, "s", 1)
       /\ Goto(p, pc)
       /\ UNCHANGED <<fds, backlog, listening>>
    \/ /\ ~ Greeted(k)
       /\ chan[k].in["s"] # <<>> \/ AtEnd(chan[k], "s") \/ Failed(chan[k], "s")
       /\ Die(p)

AcceptPI(p) ==
    \/ At(p, "accept") /\ Accept(p, "pi", "hello")
    \/ At(p, "hello") /\ Hello(p, proc[p].clntSock, "hi")
    \/ At(p, "hi") /\ Send(p, proc[p].clntSock, Word("hi"), "fork")

(* Mutant of Fork: parent and child are not told apart (pid = fork() < 0).  *)
ForkBothServe(p) ==
    /\ At(p, "fork")
    /\ \E q \in Procs :
         /\ At(q, "none")
         /\ proc' = [proc EXCEPT ![q] = [proc[p] EXCEPT !.pc = "session"],
                                 ![p].pc = "session"]
         /\ fds' = [fds EXCEPT ![q] = fds[p]]
         /\ UNCHANGED sockets

(* main: fork; the parent closes the connection and accepts the next one,   *)
(* the child has copies of every descriptor and variable of its parent.     *)
Fork(p) ==
    /\ At(p, "fork")
    /\ \/ \E q \in Procs :
            /\ At(q, "none")
            /\ proc' = [proc EXCEPT ![q] = [proc[p] EXCEPT !.pc = "session"],
                                    ![p].pc = "accept"]
            /\ fds' = [fds EXCEPT ![q] = fds[p],
                                  ![p] = @ \ {proc[p].clntSock}]
            /\ UNCHANGED sockets
       \/ "fork" \in Faults /\ Die(p)

-----------------------------------------------------------------------------
(* HandleFTPControl: receive a command, run its handler.  An unknown text   *)
(* is dropped; so is an end-of-file, again and again (the loop spins and    *)
(* changes nothing, hence no action).                                       *)
Session(p) ==
    LET k == proc[p].clntSock IN
    /\ At(p, "session")
    /\ \/ \E j \in 1..Len(chan[k].in["s"]) :
            LET m == Head(chan[k].in["s"]) IN
            /\ RecvOn(k, "s", j)
            /\ proc' = [proc EXCEPT
                          ![p].pc  = IF m.t \in Commands THEN m.t ELSE @,
                          ![p].arg = IF m.t \in Commands THEN m.n ELSE @,
                          ![p].totalBytes = 0]
            /\ UNCHANGED <<fds, backlog, listening>>
       \/ Failed(chan[k], "s") /\ Die(p)

User(p) == At(p, "User") /\ Send(p, proc[p].clntSock, Word("Get"), "session")
SYSY(p) == At(p, "SYSY") /\ Send(p, proc[p].clntSock, Word("OS"), "session")

(* PASV: send the address, then acceptClient on the data port.  clntLen is  *)
(* not initialised: accept may refuse the length it finds there.            *)
PASV(p) ==
    \/ At(p, "PASV") /\ Send(p, proc[p].clntSock, Word("addr"), "dtpaccept")
    \/ /\ At(p, "dtpaccept")
       /\ \/ Accept(p, "dtp", "dtphello")
          \/ "accept" \in Faults /\ Die(p)
    \/ At(p, "dtphello") /\ Hello(p, proc[p].clntDtpSock, "dtphi")
    \/ At(p, "dtphi") /\ Send(p, proc[p].clntDtpSock, Word("hi"), "session")

(* ECHO: say ok, receive a text, send it back; an empty text sends nothing, *)
(* but even that fails on a connection that was reset.                      *)
ECHO(p) ==
    LET k == proc[p].clntSock IN
    \/ At(p, "ECHO") /\ Send(p, k, Word("ok"), "echotext")
    \/ /\ At(p, "echotext")
       /\ \/ /\ \E j \in 1..Len(chan[k].in["s"]) : RecvOn(k, "s", j)
             /\ Goto(p, "echoback")
             /\ UNCHANGED <<fds, backlog, listening>>
          \/ AtEnd(chan[k], "s") /\ Goto(p, "session")
                                 /\ UNCHANGED <<sockets, fds>>
          \/ chan[k].in["s"] = <<>> /\ Broken(chan[k], "s") /\ Die(p)
    \/ At(p, "echoback") /\ Send(p, k, Word("text"), "session")

-----------------------------------------------------------------------------
(* STOR: agree, receive the file's size, read the file from the data        *)
(* connection, say that it is complete, close the data connection.  Where   *)
(* no size arrives, fileSize is whatever was in its place.                  *)
StorSize(p) ==
    LET k == proc[p].clntSock IN
    /\ At(p, "storsize")
    /\ \/ \E j \in 1..Len(chan[k].in["s"]), z \in 0..Wrapped :
            LET m == Head(chan[k].in["s"]) IN
            /\ m.t = "SIZE" => z = m.n
            /\ RecvOn(k, "s", j)
            /\ proc' = [proc EXCEPT ![p].pc = "download", ![p].fileSize = z]
            /\ UNCHANGED <<fds, backlog, listening>>
       \/ /\ AtEnd(chan[k], "s")
          /\ \E z \in 0..Wrapped :
               proc' = [proc EXCEPT ![p].pc = "download", ![p].fileSize = z]
          /\ UNCHANGED <<sockets, fds>>
       \/ Failed(chan[k], "s") /\ Die(p)

(* Mutant of Download: the loop stops one read early.                       *)
DownloadShort(p) ==
    LET k == proc[p].clntDtpSock IN
    /\ At(p, "download")
    /\ \/ /\ proc[p].totalBytes + 1 < proc[p].fileSize
          /\ RecvOn(k, "s", 1)
          /\ proc' = [proc EXCEPT ![p].totalBytes = @ + 1]
          /\ UNCHANGED <<fds, backlog, listening>>
       \/ /\ proc[p].totalBytes + 1 >= proc[p].fileSize
          /\ Goto(p, "stordone")
          /\ UNCHANGED <<sockets, fds>>

(* downloadFile: read until fileSize bytes have come; end-of-file ends it,  *)
(* and so does a read error, which makes the unsigned totalBytes wrap.      *)
(* Where fopen creates no file, the first read's fwrite or the fclose kills.*)
Download(p) ==
    LET k == proc[p].clntDtpSock IN
    /\ At(p, "download")
    /\ \/ /\ proc[p].totalBytes < proc[p].fileSize
          /\ RecvOn(k, "s", 1)
          /\ proc' = [proc EXCEPT ![p].totalBytes = @ + 1]
          /\ UNCHANGED <<fds, backlog, listening>>
       \/ /\ \/ proc[p].totalBytes >= proc[p].fileSize
             \/ AtEnd(chan[k], "s") \/ Failed(chan[k], "s")
          /\ Goto(p, "stordone")
          /\ UNCHANGED <<sockets, fds>>
       \/ /\ "file" \in Faults /\ proc[p].totalBytes = 0
          /\ \/ proc[p].fileSize = 0 \/ chan[k].in["s"] # <<>>
             \/ AtEnd(chan[k], "s") \/ Failed(chan[k], "s")
          /\ Die(p)

STOR(p) ==
    LET k == proc[p].clntSock IN
    \/ At(p, "STOR") /\ Send(p, k, Word("226"), "storsize")
    \/ StorSize(p)
    \/ Download(p)
    \/ /\ At(p, "stordone")
       /\ \/ /\ CloseIn([chan EXCEPT ![k] = Sent(@, "s", <<Word("complete")>>)],
                        p, proc[p].clntDtpSock)
             /\ Goto(p, "session")
             /\ UNCHANGED <<backlog, listening>>
          \/ Broken(chan[k], "s") /\ Die(p)

-----------------------------------------------------------------------------
(* RETR: write the file to the data connection (uploadFile; a file that is  *)
(* not there is a null stream and kills p), THEN tell its size, then tell   *)
(* that it is complete.  The data connection stays open.                    *)
RETR(p) ==
    LET k == proc[p].clntSock
        d == proc[p].clntDtpSock
    IN
    \/ /\ At(p, "RETR")
       /\ \/ /\ proc[p].totalBytes < proc[p].arg
             /\ Room(chan[d], "s")
             /\ SendOn(d, "s", <<Word("data")>>)
             /\ proc' = [proc EXCEPT ![p].totalBytes = @ + 1]
             /\ UNCHANGED <<fds, backlog, listening>>
          \/ /\ \E n \in Uploaded(chan[d], "s", proc[p].totalBytes, proc[p].arg) :
                  proc' = [proc EXCEPT ![p].pc = "retrsize",
                                       ![p].totalBytes = n]
             /\ UNCHANGED <<sockets, fds>>
          \/ (proc[p].arg = NoFile \/ Broken(chan[d], "s")) /\ Die(p)
    \/ At(p, "retrsize") /\ Send(p, k, With("size", proc[p].totalBytes), "retrdone")
    \/ At(p, "retrdone") /\ Send(p, k, Word("complete"), "session")

(* LIST: announce, send the lines of ls -l on the data connection, close    *)
(* it, tell that it is complete.  Without a tmp.txt feof kills p.           *)
LIST(p) ==
    LET k == proc[p].clntSock
        d == proc[p].clntDtpSock
    IN
    \/ /\ At(p, "LIST")
       /\ \/ /\ \E n \in Lines : proc' = [proc EXCEPT ![p].pc = "listdata",
                                                      ![p].fileSize = n]
             /\ SendOn(k, "s", <<Word("150")>>)
             /\ UNCHANGED <<fds, backlog, listening>>
          \/ Broken(chan[k], "s") /\ Die(p)
    \/ /\ At(p, "listdata")
       /\ proc[p].totalBytes < proc[p].fileSize
       /\ \/ /\ Room(chan[d], "s")
             /\ SendOn(d, "s", <<Word("line")>>)
             /\ proc' = [proc EXCEPT ![p].totalBytes = @ + 1]
             /\ UNCHANGED <<fds, backlog, listening>>
          \/ Broken(chan[d], "s") /\ Die(p)
    \/ /\ At(p, "listdata")
       /\ "file" \in Faults /\ proc[p].totalBytes = 0
       /\ Die(p)
    \/ /\ At(p, "listdata")
       /\ proc[p].totalBytes = proc[p].fileSize
       /\ CloseIn(chan, p, d)
       /\ Goto(p, "listdone")
       /\ UNCHANGED <<backlog, listening>>
    \/ At(p, "listdone") /\ Send(p, k, Word("226"), "session")

-----------------------------------------------------------------------------
(* Mutant of CWD: one working directory for all, as with threads.           *)
CwdOfAll(p) ==
    /\ At(p, "CWD")
    /\ proc' = [q \in Procs |-> [proc[q] EXCEPT
                   !.pc = IF q = p THEN "session" ELSE @, !.cwd = proc[p].arg]]
    /\ SendOn(proc[p].clntSock, "s", <<Word("Change")>>)
    /\ UNCHANGED <<fds, backlog, listening>>

(* CWD: chdir, which leaves the directory alone when it fails.              *)
CWD(p) ==
    LET k == proc[p].clntSock IN
    /\ At(p, "CWD")
    /\ \/ /\ \E d \in {proc[p].arg, proc[p].cwd} :
               proc' = [proc EXCEPT ![p].pc = "session", ![p].cwd = d]
          /\ SendOn(k, "s", <<Word("Change")>>)
          /\ UNCHANGED <<fds, backlog, listening>>
       \/ Broken(chan[k], "s") /\ Die(p)

(* Mutants of QUIT: no answer; the process ends instead of accepting.       *)
QuitSilently(p) == At(p, "QUIT") /\ Goto(p, "accept") /\ UNCHANGED <<sockets, fds>>
QuitExits(p) == At(p, "QUIT") /\ Die(p)

(* QUIT: answer, and leave HandleFTPControl.  The connection is not closed  *)
(* (its close is commented out) and the process is an acceptor from now on. *)
QUIT(p) == At(p, "QUIT") /\ Send(p, proc[p].clntSock, Word("221"), "accept")

ServerStep(p) ==
    \/ AcceptPI(p) \/ Fork(p) \/ Session(p)
    \/ User(p) \/ SYSY(p) \/ PASV(p) \/ ECHO(p)
    \/ STOR(p) \/ RETR(p) \/ LIST(p) \/ CWD(p) \/ QUIT(p)
=============================================================================
