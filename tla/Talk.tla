-------------------------------- MODULE Talk ---------------------------------
(* practice2/src02: a talk program with two processes on each side.  In the *)
(* server "pid = fork() < 0" (TCPEchoServer.c, line 66) leaves 0 in pid on  *)
(* both sides of the fork, so that parent and child both run do_socket, on  *)
(* one connection: each waits for a hello of its own, and each may read     *)
(* what the other waits for.  The client's parent sends what is typed       *)
(* before it says hello, and ends its child at the first line that is not   *)
(* quit (HandleTCPClient.c, line 22); but not where the keyboard ends first *)
(* (line 17), and then there are two processes that read on this side too.  *)
EXTENDS Streams, FiniteSets

CONSTANTS Procs,      \* the server's processes, started or not
          Root,       \* the one started from the shell
          None,       \* no client, no process
          Clients,    \* the users' programs
          Typed,      \* what lines users type begin with
          MaxLines,   \* bound: the lines each user types, not counting /quit
          MayFail     \* a fork may fail, a user's program may be killed

ASSUME TalkAssumption ==
    /\ Root \in Procs
    /\ None \notin Procs \cup Clients
    /\ Typed \subseteq {"text", "hello", "quit"}
    /\ MaxLines \in [Clients -> Nat]
    /\ MayFail \in BOOLEAN

VARIABLES proc,       \* the server's processes
          fds,        \* the connections each holds a descriptor of
          queue,      \* connections that wait for accept
          chan,       \* one connection for each client
          main,       \* the clients' processes that read the keyboard
          child,      \* the point each client's child has reached
          rbuf,       \* what its last read returned
          hist        \* history, of each connection

vars == <<proc, fds, queue, chan, main, child, rbuf, hist>>

(* A unit is what one write of a client sends, numbered by n, or a hi.      *)
Unit == [t : {"text", "hello", "quit", "hi"}, n : Nat]
Hi == [t |-> "hi", n |-> 0]

Process == [pc     : {"none", "accept", "fork", "hello", "hi", "read", "write",
                      "kill", "dead"},
            con    : Clients \cup {None},     \* cIntSock
            rbuf   : Seq(Unit),               \* what the last read returned
            parent : Procs \cup {None}]       \* None: the shell

Main == [pc     : {"connect", "fork", "key", "kill", "hello", "hi", "prompt",
                   "recv", "exit", "dead"},
         sent   : Nat,           \* lines sent, the hello too
         got    : SUBSET Nat,    \* history: those that came back
         quits  : Nat,           \* history: quits typed before the first line
         left   : Nat]

(* lost: the lines that ended in a process without being sent on; hands:    *)
(* how many of the server's processes have shaken hands.                    *)
History == [lost : SUBSET Nat, hands : Nat]

TypeOK ==
    /\ proc \in [Procs -> Process]
    /\ fds \in [Procs -> SUBSET Clients]
    /\ \A p \in Procs : proc[p].pc \notin {"none", "accept", "dead"} =>
         proc[p].con \in fds[p]
    /\ queue \in Seq(Clients)
    /\ chan \in [Clients -> [in : [Sides -> Seq(Unit)], end : [Sides -> Ends]]]
    /\ main \in [Clients -> Main]
    /\ child \in [Clients -> {"none", "hello", "hi", "read", "write", "dead"}]
    /\ rbuf \in [Clients -> Seq(Unit)]
    /\ hist \in [Clients -> History]

Init ==
    /\ proc = [p \in Procs |-> [pc |-> IF p = Root THEN "accept" ELSE "none",
                                con |-> None, rbuf |-> <<>>, parent |-> None]]
    /\ fds = [p \in Procs |-> {}]
    /\ queue = <<>>
    /\ chan = [c \in Clients |-> [in  |-> [s \in Sides |-> <<>>],
                                  end |-> [s \in Sides |-> "open"]]]
    /\ main = [c \in Clients |-> [pc |-> "connect", sent |-> 0, got |-> {},
                                  quits |-> 0, left |-> MaxLines[c]]]
    /\ child = [c \in Clients |-> "none"]
    /\ rbuf = [c \in Clients |-> <<>>]
    /\ hist = [c \in Clients |-> [lost |-> {}, hands |-> 0]]

-----------------------------------------------------------------------------
(* The server.                                                              *)
At(p, pc) == proc[p].pc = pc
Goto(p, pc) == proc' = [proc EXCEPT ![p].pc = pc]
Alive(p) == proc[p].pc \notin {"none", "dead"}
Numbers(us) == {us[i].n : i \in 1..Len(us)} \ {0}

Loses(c, ns, shaken) ==
    hist' = [hist EXCEPT ![c].lost = @ \cup ns, ![c].hands = @ + shaken]

(* Process q ends, in the state h of the connections and procs of the       *)
(* others: it closes what nobody else holds, and the last one refuses who   *)
(* still waits.                                                             *)
End(q, h, procs) ==
    /\ proc' = [procs EXCEPT ![q].pc = "dead", ![q].rbuf = <<>>]
    /\ fds' = [fds EXCEPT ![q] = {}]
    /\ LET last == \A r \in Procs \ {q} : ~ Alive(r)
           only == {c \in fds[q] : \A r \in Procs \ {q} : c \notin fds[r]}
       IN
       /\ \E how \in Hows : chan' = [c \in Clients |->
            IF c \in only THEN Closed(h[c], "s", how)
            ELSE IF last /\ \E i \in 1..Len(queue) : queue[i] = c
            THEN Refused(h[c]) ELSE h[c]]
       /\ queue' = IF last THEN <<>> ELSE queue

Die(p) ==
    End(p, chan, proc) /\ Loses(proc[p].con, Numbers(proc[p].rbuf), 0)

Accept(p) ==
    /\ At(p, "accept")
    /\ queue # <<>>
    /\ proc' = [proc EXCEPT ![p].pc = "fork", ![p].con = Head(queue)]
    /\ fds' = [fds EXCEPT ![p] = @ \cup {Head(queue)}]
    /\ queue' = Tail(queue)
    /\ UNCHANGED <<chan, hist>>

(* pid is 0 in both processes, and both run do_socket.                      *)
ForkTwo(p, q) ==
    /\ proc' = [proc EXCEPT
                  ![p].pc = "hello",
                  ![q] = [proc[p] EXCEPT !.pc = "hello", !.parent = p]]
    /\ fds' = [fds EXCEPT ![q] = fds[p]]
    /\ UNCHANGED <<queue, chan, hist>>

(* Mutant of Fork: the process ends when fork fails.                        *)
ForkDies(p) ==
    /\ At(p, "fork")
    /\ (\E q \in Procs : At(q, "none") /\ ForkTwo(p, q)) \/ Die(p)

(* When fork fails pid is 1, and the connection is forgotten.               *)
Fork(p) ==
    /\ At(p, "fork")
    /\ \/ \E q \in Procs : At(q, "none") /\ ForkTwo(p, q)
       \/ MayFail /\ Goto(p, "accept") /\ UNCHANGED <<fds, queue, chan, hist>>

(* Mutant of ShakeHands: there is no handshake.                             *)
ShakeNoHands(p) ==
    At(p, "hello") /\ Goto(p, "read") /\ UNCHANGED <<fds, queue, chan, hist>>

(* The handshake of do_socket, on the server's side: what the first read    *)
(* returns must begin with hello.  At end-of-file the buffer holds no       *)
(* hello: only a quit lets a process come back to this place.               *)
ShakeHands(p) ==
    LET c == proc[p].con
        in == chan[c].in["s"]
    IN
    \/ /\ At(p, "hello")
       /\ \E j \in 1..Len(in) :
            LET h == [chan EXCEPT ![c] = Taken(@, "s", j)]
                taken == Numbers(SubSeq(in, 1, j))
            IN
            IF Head(in).t = "hello"
            THEN /\ chan' = h /\ Goto(p, "hi")
                 /\ Loses(c, taken, 1)
                 /\ UNCHANGED <<fds, queue>>
            ELSE End(p, h, proc) /\ Loses(c, taken, 0)
    \/ At(p, "hello") /\ (AtEnd(chan[c], "s") \/ Failed(chan[c], "s")) /\ Die(p)
    \/ /\ At(p, "hi")
       /\ \/ /\ chan' = [chan EXCEPT ![c] = Sent(@, "s", <<Hi>>)]
             /\ Goto(p, "read")
             /\ UNCHANGED <<fds, queue, hist>>
          \/ Broken(chan[c], "s") /\ Die(p)

(* The loop of do_socket.  A read that returns nothing, or fails, is        *)
(* repeated for ever, which changes nothing, hence is no action.            *)
Read(p) ==
    LET c == proc[p].con
        in == chan[c].in["s"]
    IN
    /\ At(p, "read")
    /\ \E j \in 1..Len(in) :
         /\ chan' = [chan EXCEPT ![c] = Taken(@, "s", j)]
         /\ IF Head(in).t = "quit"
            THEN Goto(p, "kill") /\ Loses(c, Numbers(SubSeq(in, 1, j)), 0)
            ELSE /\ proc' = [proc EXCEPT ![p].pc = "write",
                                         ![p].rbuf = SubSeq(in, 1, j)]
                 /\ UNCHANGED hist
    /\ UNCHANGED <<fds, queue>>

(* Mutants of Echo: only the first line; nothing.                           *)
EchoFirst(us) == <<Head(us)>>
EchoNothing(us) == <<>>
Echo(us) == us

Write(p) ==
    LET c == proc[p].con IN
    /\ At(p, "write")
    /\ \/ /\ chan' = [chan EXCEPT ![c] = Sent(@, "s", Echo(proc[p].rbuf))]
          /\ proc' = [proc EXCEPT ![p].pc = "read", ![p].rbuf = <<>>]
          /\ UNCHANGED <<fds, queue, hist>>
       \/ Broken(chan[c], "s") /\ Die(p)

(* Mutants of Kill: some other process is hit; the loop is not left.        *)
KillAnyone(p) ==
    /\ At(p, "kill")
    /\ \E q \in Procs \ {p} :
         /\ Alive(q) /\ End(q, chan, [proc EXCEPT ![p].pc = "accept"])
         /\ Loses(proc[q].con, Numbers(proc[q].rbuf), 0)
KillStays(p) ==
    At(p, "kill") /\ Goto(p, "read") /\ UNCHANGED <<fds, queue, chan, hist>>

(* quit: SIGQUIT to the parent, which the shell ignores, and back to the    *)
(* accept of main.                                                          *)
Kill(p) ==
    LET q == proc[p].parent
        back == [proc EXCEPT ![p].pc = "accept"]
    IN
    /\ At(p, "kill")
    /\ IF q # None /\ Alive(q)
       THEN End(q, chan, back) /\ Loses(proc[q].con, Numbers(proc[q].rbuf), 0)
       ELSE proc' = back /\ UNCHANGED <<fds, queue, chan, hist>>

Serve(p) ==
    /\ Accept(p) \/ Fork(p) \/ ShakeHands(p) \/ Read(p) \/ Write(p) \/ Kill(p)
    /\ UNCHANGED <<main, child, rbuf>>

-----------------------------------------------------------------------------
(* The clients.  Both processes hold the socket; it is closed when the last *)
(* of them has gone.                                                        *)
MAt(c, pc) == main[c].pc = pc
MGoto(c, pc) == main' = [main EXCEPT ![c].pc = pc]
Running(c) == main[c].pc \notin {"exit", "dead"}
out(c) == chan[c].in["c"]

Shut(c, h, othersGone) ==
    IF othersGone
    THEN \E how \in Hows : chan' = [chan EXCEPT ![c] = Closed(h, "c", how)]
    ELSE chan' = [chan EXCEPT ![c] = h]

Stop(c, pc) ==
    /\ MGoto(c, pc)
    /\ Shut(c, chan[c], child[c] \in {"none", "dead"})
    /\ UNCHANGED <<child, rbuf, hist>>

(* The child's end, in the state h of the connection; ns are the lines it   *)
(* has read.                                                                *)
CGoto(c, pc) == child' = [child EXCEPT ![c] = pc]
ChildEnds(c, h, ns) ==
    /\ CGoto(c, "dead")
    /\ rbuf' = [rbuf EXCEPT ![c] = <<>>]
    /\ Shut(c, h, ~ Running(c))
    /\ Loses(c, ns, 0)
    /\ UNCHANGED main

(* The child of a client runs do_socket too: it waits for a hello of the    *)
(* server, which is one of a user that was sent back,                       *)
ChildShakes(c) ==
    \/ /\ child[c] = "hello"
       /\ \E j \in 1..Len(out(c)) :
            LET h == Taken(chan[c], "c", j)
                taken == Numbers(SubSeq(out(c), 1, j))
            IN
            IF Head(out(c)).t = "hello"
            THEN /\ CGoto(c, "hi") /\ Loses(c, taken, 0)
                 /\ chan' = [chan EXCEPT ![c] = h]
                 /\ UNCHANGED <<main, rbuf>>
            ELSE ChildEnds(c, h, taken)
    \/ /\ child[c] = "hello"
       /\ AtEnd(chan[c], "c") \/ Failed(chan[c], "c")
       /\ ChildEnds(c, chan[c], {})
    \/ /\ child[c] = "hi"
       /\ \/ /\ chan' = [chan EXCEPT ![c] = Sent(@, "c", <<Hi>>)]
             /\ CGoto(c, "read")
             /\ UNCHANGED <<main, rbuf, hist>>
          \/ Broken(chan[c], "c") /\ ChildEnds(c, chan[c], {})

(* then sends back to the server what the server has sent.  The test for a  *)
(* quit is left out: OneBehind says that none comes to a child.             *)
ChildEchoes(c) ==
    \/ /\ child[c] = "read"
       /\ \E j \in 1..Len(out(c)) :
            /\ chan' = [chan EXCEPT ![c] = Taken(@, "c", j)]
            /\ rbuf' = [rbuf EXCEPT ![c] = SubSeq(out(c), 1, j)]
       /\ CGoto(c, "write")
       /\ UNCHANGED <<main, hist>>
    \/ /\ child[c] = "write"
       /\ \/ /\ chan' = [chan EXCEPT ![c] = Sent(@, "c", rbuf[c])]
             /\ CGoto(c, "read") /\ rbuf' = [rbuf EXCEPT ![c] = <<>>]
             /\ UNCHANGED <<main, hist>>
          \/ Broken(chan[c], "c") /\ ChildEnds(c, chan[c], Numbers(rbuf[c]))

Connect(c) ==
    /\ MAt(c, "connect")
    /\ IF \A p \in Procs : ~ Alive(p)
       THEN MGoto(c, "dead") /\ UNCHANGED queue
       ELSE MGoto(c, "fork") /\ queue' = Append(queue, c)
    /\ UNCHANGED <<chan, child, rbuf, hist>>

ForkChild(c) ==
    /\ MAt(c, "fork")
    /\ \/ /\ MGoto(c, "key")
          /\ CGoto(c, "hello")
          /\ UNCHANGED <<chan, rbuf, hist>>
       \/ MayFail /\ Stop(c, "exit")

(* A line, or the hello, is sent.                                           *)
Sends(c, t, next) ==
    \/ /\ chan' = [chan EXCEPT ![c] =
                     Sent(@, "c", <<[t |-> t, n |-> main[c].sent + 1]>>)]
       /\ main' = [main EXCEPT ![c] = [next EXCEPT !.sent = @ + 1]]
       /\ UNCHANGED <<child, rbuf, hist>>
    \/ Broken(chan[c], "c") /\ Stop(c, "dead")

(* do_keyboard: a line is sent as it is; unless it was a quit, the child    *)
(* is killed and the loop left.  At the end of the keyboard's file it is    *)
(* left with the child alive; main reads its lines through stdio, which may *)
(* have more.                                                               *)
KillsChild(c) ==
    /\ MAt(c, "kill")
    /\ CGoto(c, "dead") /\ rbuf' = [rbuf EXCEPT ![c] = <<>>]
    /\ Loses(c, Numbers(rbuf[c]), 0)
    /\ MGoto(c, "hello")
    /\ UNCHANGED chan

Keyboard(c) ==
    \/ \E t \in Typed :
         /\ MAt(c, "key") /\ main[c].left > 0
         /\ Sends(c, t, IF t = "quit"
                        THEN [main[c] EXCEPT !.left = @ - 1, !.quits = @ + 1]
                        ELSE [main[c] EXCEPT !.left = @ - 1, !.pc = "kill"])
    \/ KillsChild(c)
    \/ MAt(c, "key") /\ MGoto(c, "hello") /\ UNCHANGED <<chan, child, rbuf, hist>>

(* main: hello, and an answer that is not looked at; then a line, and       *)
(* whatever comes next for its echo.  /quit closes the socket.              *)
Receives(c) ==
    \E j \in 1..Len(out(c)) :
        /\ chan' = [chan EXCEPT ![c] = Taken(@, "c", j)]
        /\ main' = [main EXCEPT ![c].pc = "prompt",
                                ![c].got = @ \cup Numbers(SubSeq(out(c), 1, j))]
        /\ UNCHANGED <<child, rbuf, hist>>

(* Mutant of SaysHello: the answer is not waited for.                       *)
SaysOnlyHello(c) ==
    MAt(c, "hello") /\ Sends(c, "hello", [main[c] EXCEPT !.pc = "prompt"])

SaysHello(c) ==
    \/ MAt(c, "hello") /\ Sends(c, "hello", [main[c] EXCEPT !.pc = "hi"])
    \/ /\ MAt(c, "hi")
       /\ \/ Receives(c)
          \/ /\ AtEnd(chan[c], "c") /\ MGoto(c, "prompt")
             /\ UNCHANGED <<chan, child, rbuf, hist>>
          \/ Failed(chan[c], "c") /\ Stop(c, "dead")

Talks(c) ==
    \/ \E t \in Typed :
         /\ MAt(c, "prompt") /\ main[c].left > 0
         /\ Sends(c, t, [main[c] EXCEPT !.pc = "recv", !.left = @ - 1])
    \/ MAt(c, "prompt") /\ Stop(c, "exit")
    \/ /\ MAt(c, "recv")
       /\ \/ Receives(c)
          \/ (AtEnd(chan[c], "c") \/ Failed(chan[c], "c")) /\ Stop(c, "dead")

Use(c) ==
    /\ \/ Connect(c)
       \/ /\ \/ ForkChild(c) \/ Keyboard(c) \/ SaysHello(c) \/ Talks(c)
             \/ ChildShakes(c) \/ ChildEchoes(c)
          /\ UNCHANGED queue
    /\ UNCHANGED <<proc, fds>>

Crash(c) ==
    /\ MayFail
    /\ Running(c) /\ main[c].pc \notin {"connect", "fork"}
    /\ \/ Stop(c, "dead")
       \/ /\ MGoto(c, "dead")
          /\ CGoto(c, "dead") /\ rbuf' = [rbuf EXCEPT ![c] = <<>>]
          /\ Shut(c, chan[c], TRUE) /\ Loses(c, Numbers(rbuf[c]), 0)
    /\ UNCHANGED <<proc, fds, queue>>

Next ==
    \/ \E p \in Procs : Serve(p)
    \/ \E c \in Clients : Use(c) \/ Crash(c)

Spec == Init /\ [][Next]_vars

(* The system runs the server's processes; users need not type.             *)
Fairness == \A p \in Procs : WF_vars(Serve(p))
FairSpec == Spec /\ Fairness

-----------------------------------------------------------------------------
(* Where the lines of a client are, and whether they are still looked at.   *)
Served(c) == Running(c) /\ chan[c].end["s"] = "open"
Places == ({"got", "lost", "out", "in", "child"} \X {None}) \cup ({"rbuf"} \X Procs)
Numbered(c, x) ==
    CASE x[1] = "got" -> main[c].got
      [] x[1] = "lost" -> hist[c].lost
      [] x[1] = "out" -> Numbers(out(c))
      [] x[1] = "in" -> Numbers(chan[c].in["s"])
      [] x[1] = "child" -> Numbers(rbuf[c])
      [] x[1] = "rbuf" /\ proc[x[2]].con = c -> Numbers(proc[x[2]].rbuf)
      [] OTHER -> {}
Pieces(c) == {p \in Procs : proc[p].con = c /\ proc[p].rbuf # <<>>}

(* Two processes read one connection, and still every line of a client is   *)
(* in one place: none is answered twice, and none vanishes but those that a *)
(* quit, a handshake or the end of a process took.                          *)
EachLineOnce == \A c \in Clients : Served(c) =>
    /\ UNION {Numbered(c, x) : x \in Places} = 1..main[c].sent
    /\ \A x, y \in Places : x # y => Numbered(c, x) \cap Numbered(c, y) = {}

(* Lines come back in the order they were typed, if only one of the two     *)
(* processes has shaken hands with the client.                              *)
Ordered(us) == \A i, j \in 1..Len(us) :
    i < j /\ us[i].n # 0 /\ us[j].n # 0 => us[i].n < us[j].n
OrderKept == \A c \in Clients : Served(c) /\ hist[c].hands <= 1 =>
    \A p \in Procs : Pieces(c) \subseteq {p} =>
        LET way == out(c) \o (IF Pieces(c) = {} THEN <<>> ELSE proc[p].rbuf)
                          \o chan[c].in["s"]
        IN Ordered(way)

(* At its prompt a client is at most one answer behind, although a first    *)
(* line that begins with hello is one hello more than it waits for; and its *)
(* child, if that still reads, does not find the quit that would have it    *)
(* end its parent and take the parent's place (HandleTCPClient.c, line 53). *)
OneBehind == \A c \in Clients :
    /\ MAt(c, "prompt") /\ Served(c) =>
         Len(out(c)) + Len(chan[c].in["s"]) + Cardinality(Pieces(c)) <= 1
    /\ child[c] = "read" => \A i \in 1..Len(out(c)) : out(c)[i].t # "quit"

(* A client that waits while nothing is under way waits for ever; then what *)
(* it sent last was taken by a quit, a handshake or the end of a process.   *)
Silent(c) ==
    /\ chan[c].in = [s \in Sides |-> <<>>] /\ Pieces(c) = {}
    /\ \A p \in Procs : proc[p].con = c => ~ At(p, "hi")
    /\ rbuf[c] = <<>> /\ child[c] # "hi"
WaitExplained == \A c \in Clients :
    MAt(c, "recv") /\ Served(c) /\ Silent(c) => main[c].sent \in hist[c].lost

(* A first line that is no hello costs the server one of its two processes, *)
(* never both: the server ends only when a user has typed quit before any   *)
(* other line, or has gone.                                                 *)
ServerSurvives ==
    (\A p \in Procs : ~ Alive(p)) =>
        \E c \in Clients : main[c].quits > 0 \/ ~ Running(c)

(* A process that talks to a client ends only when that client has gone or  *)
(* a process it has forked reads a quit, be it from another client.         *)
DeathsExplained ==
    [][\A p \in Procs :
         proc[p].pc \in {"hi", "read", "write"} /\ proc'[p].pc = "dead" =>
            \/ ~ Running(proc[p].con)
            \/ \E q \in Procs : At(q, "kill") /\ proc[q].parent = p]_vars

(* After a quit the next client is accepted: the process that read it goes  *)
(* back to accept, also when it has just ended the one that waited there.   *)
QuitFrees == \A c \in Clients :
    /\ queue # <<>> /\ Head(queue) = c
    /\ \E p \in Procs : proc[p].pc \in {"kill", "accept"}
    ~> queue = <<>> \/ Head(queue) # c
=============================================================================
