----------------------------- MODULE EchoFtpProofs -----------------------------
(* What EchoFtp.tla promises for any number of clients, connections and      *)
(* server processes: types, and who holds which connection.                  *)
EXTENDS EchoFtp, TLAPS

(* The inductive invariant, in three parts.                                 *)
(*                                                                          *)
(* Held: an open server side is either in one queue, once, and nobody's, or *)
(* held by a process that is alive; nothing has happened to a connection    *)
(* nobody has made.                                                         *)
Held ==
    /\ \A p \in Procs : \A k \in fds[p] :
         chan[k].end["s"] = "open" /\ chan[k].port # "none"
    /\ \A k \in Conns : chan[k].port # "none" /\ chan[k].end["s"] = "open" =>
         k \in Waiting(chan[k].port) \/ \E p \in Procs : k \in fds[p]
    /\ \A q \in Ports : \A i \in 1..Len(backlog[q]) : LET k == backlog[q][i] IN
         /\ chan[k].port = q /\ chan[k].end["s"] = "open"
         /\ \A p \in Procs : k \notin fds[p]
         /\ \A j \in 1..Len(backlog[q]) : backlog[q][j] = k => j = i
    /\ \A k \in Conns : chan[k].port = "none" => chan[k].end["s"] = "open"
    /\ \A p \in Procs : ~ Alive(p) => fds[p] = {}

(* Apart: a process serves on a control connection of its own, and what it  *)
(* takes for its data connection was made to the data port, so that closing *)
(* it never closes a control connection.                                    *)
Apart ==
    /\ ControlApart
    /\ \A p \in Procs : Serving(p) => chan[proc[p].clntSock].port = "pi"
    /\ \A p \in Procs : proc[p].clntDtpSock \in Conns =>
         chan[proc[p].clntDtpSock].port = "dtp"

(* Joined: a client inside a handler has opened a connection.               *)
Joined == \A c \in Clients :
    cl[c].pc \notin {"prompt", "exit", "dead"} => cl[c].sock \in Conns

IInv == TypeOK /\ Held /\ Apart /\ Joined

-----------------------------------------------------------------------------
(* The connections: every call leaves a connection a connection.            *)
LEMMA WordIsMsg ==
    ASSUME NEW t \in Texts \ {"CWD"}
    PROVE  Word(t) \in Msg /\ <<Word(t)>> \in Seq(Msg)
<1>1. Word(t) \in Msg
  BY DEF Word, Msg
<1> QED
  BY <1>1

(* A text with a number in it is a message,                                 *)
LEMMA WithIsMsg ==
    ASSUME NEW t \in Texts \ {"CWD"}, NEW n \in Int
    PROVE  With(t, n) \in Msg /\ <<With(t, n)>> \in Seq(Msg)
<1>1. With(t, n) \in Msg
  BY DEF With, Msg
<1> QED
  BY <1>1

(* and so is CWD with the directory it names.                               *)
LEMMA CwdIsMsg ==
    ASSUME NEW dir \in Dirs
    PROVE  With("CWD", dir) \in Msg /\ <<With("CWD", dir)>> \in Seq(Msg)
BY DEF With, Msg

(* Replacing what waits for one side of a connection.                       *)
LEMMA InType ==
    ASSUME NEW ch \in Channel, NEW s \in Sides, NEW u \in Seq(Msg)
    PROVE  /\ [ch EXCEPT !.in[s] = u] \in Channel
           /\ [ch EXCEPT !.in[s] = u].port = ch.port
           /\ [ch EXCEPT !.in[s] = u].end = ch.end
BY DEF Channel

(* Changing how one side of a connection stands.                            *)
LEMMA EndType ==
    ASSUME NEW ch \in Channel, NEW s \in Sides, NEW e \in Ends
    PROVE  /\ [ch EXCEPT !.end[s] = e] \in Channel
           /\ [ch EXCEPT !.end[s] = e].port = ch.port
           /\ [ch EXCEPT !.end[s] = e].end[s] = e
           /\ \A r \in Sides \ {s} : [ch EXCEPT !.end[s] = e].end[r] = ch.end[r]
BY DEF Channel

(* A send closes nothing and opens nothing.                                 *)
LEMMA SentType ==
    ASSUME NEW ch \in Channel, NEW s \in Sides, NEW ms \in Seq(Msg)
    PROVE  /\ Sent(ch, s, ms) \in Channel
           /\ Sent(ch, s, ms).port = ch.port
           /\ Sent(ch, s, ms).end["s"] = "open" <=> ch.end["s"] = "open"
<1>1. Peer(s) \in Sides
  BY DEF Peer, Sides
<1>2. ch.in[Peer(s)] \o ms \in Seq(Msg)
  BY <1>1 DEF Channel
<1>3. CASE ch.end[Peer(s)] = "open"
  BY <1>1, <1>2, <1>3, InType DEF Sent
<1>4. CASE ch.end[Peer(s)] = "fin"
  <2>1. Sent(ch, s, ms) = [ch EXCEPT !.end[Peer(s)] = "gone"]
    BY <1>4 DEF Sent
  <2>2. "gone" \in Ends /\ "s" \in Sides
    BY DEF Ends, Sides
  <2> QED
    BY <1>1, <1>4, <2>1, <2>2, EndType
<1>5. CASE ch.end[Peer(s)] \notin {"open", "fin"}
  BY <1>5 DEF Sent
<1> QED
  BY <1>3, <1>4, <1>5

(* A receive takes input and leaves the rest alone.                         *)
LEMMA TakenType ==
    ASSUME NEW ch \in Channel, NEW s \in Sides, NEW j \in Nat
    PROVE  /\ Taken(ch, s, j) \in Channel
           /\ Taken(ch, s, j).port = ch.port
           /\ Taken(ch, s, j).end = ch.end
<1>1. ch.in[s] \in Seq(Msg)
  BY DEF Channel
<1>2. SubSeq(ch.in[s], j + 1, Len(ch.in[s])) \in Seq(Msg)
  BY <1>1
<1> QED
  BY <1>2, InType DEF Taken

(* A close ends the side that closes and no other.                          *)
LEMMA ClosedType ==
    ASSUME NEW ch \in Channel, NEW s \in Sides, NEW how \in Hows
    PROVE  /\ Closed(ch, s, how) \in Channel
           /\ Closed(ch, s, how).port = ch.port
           /\ s = "c" => Closed(ch, s, how).end["s"] = ch.end["s"]
           /\ s = "s" => Closed(ch, s, how).end["s"] # "open"
<1>1. PICK e \in Ends \ {"open"} :
        Closed(ch, s, how) = [ch EXCEPT !.end[s] = e, !.in[s] = <<>>]
  BY DEF Hows, Ends, Closed
<1>2. <<>> \in Seq(Msg)
  OBVIOUS
<1>3. Closed(ch, s, how) \in Channel
  <2>1. CASE ch.in[s] = <<>>
    <3>1. "fin" \in Ends
      BY DEF Ends
    <3> QED
      BY <1>2, <2>1, <3>1 DEF Closed, Channel
  <2>2. CASE ch.in[s] # <<>>
    <3>1. how \in Ends
      BY DEF Ends, Hows
    <3> QED
      BY <1>2, <2>2, <3>1 DEF Closed, Channel
  <2> QED
    BY <2>1, <2>2
<1>4. Closed(ch, s, how).port = ch.port
  BY <1>1, <1>2 DEF Channel
<1>5. Closed(ch, s, how).end[s] = e
  BY <1>1, <1>2 DEF Channel
<1>6. s # "s" => Closed(ch, s, how).end["s"] = ch.end["s"]
  BY <1>1, <1>2 DEF Channel, Sides
<1> QED
  BY <1>1, <1>3, <1>4, <1>5, <1>6 DEF Sides

(* A connection whose listening socket goes away is reset.                  *)
LEMMA RefusedType ==
    ASSUME NEW ch \in Channel
    PROVE  /\ Refused(ch) \in Channel
           /\ Refused(ch).port = ch.port
           /\ Refused(ch).end["s"] # "open"
<1>1. "rst" \in Ends /\ "s" \in Sides /\ "rst" # "open"
  BY DEF Ends, Sides
<1>2. <<>> \in Seq(Msg)
  OBVIOUS
<1>3. Refused(ch) \in Channel
  BY <1>1, <1>2 DEF Refused, Channel
<1>4. Refused(ch).port = ch.port
  BY <1>1, <1>2 DEF Refused, Channel
<1>5. Refused(ch).end["s"] = "rst"
  BY <1>1, <1>2 DEF Refused, Channel
<1> QED
  BY <1>1, <1>3, <1>4, <1>5

-----------------------------------------------------------------------------
(* Most steps are steady: no connection is made, none closed on the         *)
(* server's side.                                                           *)
SameSide(ch2, ch) ==
    ch2.port = ch.port /\ (ch2.end["s"] = "open" <=> ch.end["s"] = "open")
Steady ==
    /\ chan' \in [Conns -> Channel]
    /\ \A k \in Conns : SameSide(chan'[k], chan[k])

(* Changing one connection on the same side is steady.                      *)
LEMMA OneSteady ==
    ASSUME chan \in [Conns -> Channel], NEW k, NEW v,
           k \in Conns => v \in Channel /\ SameSide(v, chan[k]),
           chan' = [chan EXCEPT ![k] = v]
    PROVE  Steady
<1>1. CASE k \in Conns
  BY <1>1 DEF Steady, SameSide
<1>2. CASE k \notin Conns
  <2>1. chan' = chan
    BY <1>2
  <2> QED
    BY <2>1 DEF Steady, SameSide
<1> QED
  BY <1>1, <1>2

(* A send is steady,                                                        *)
LEMMA SendSteady ==
    ASSUME chan \in [Conns -> Channel], NEW k, NEW s \in Sides,
           NEW ms \in Seq(Msg), SendOn(k, s, ms)
    PROVE  Steady
<1>1. chan' = [chan EXCEPT ![k] = Sent(chan[k], s, ms)]
  BY DEF SendOn
<1>2. k \in Conns => /\ Sent(chan[k], s, ms) \in Channel
                     /\ SameSide(Sent(chan[k], s, ms), chan[k])
  BY SentType DEF SameSide
<1> QED
  BY <1>1, <1>2, OneSteady

(* a receive is,                                                            *)
LEMMA RecvSteady ==
    ASSUME chan \in [Conns -> Channel], NEW k, NEW s \in Sides, NEW j,
           RecvOn(k, s, j)
    PROVE  Steady
<1>1. chan' = [chan EXCEPT ![k] = Taken(chan[k], s, j)]
      /\ j \in 1..Len(chan[k].in[s])
  BY DEF RecvOn
<1>2. k \in Conns => /\ Taken(chan[k], s, j) \in Channel
                     /\ SameSide(Taken(chan[k], s, j), chan[k])
  BY <1>1, TakenType DEF SameSide
<1> QED
  BY <1>1, <1>2, OneSteady

(* so are the closes of a client's own ends,                                *)
LEMMA CloseAllSteady ==
    ASSUME chan \in [Conns -> Channel], NEW S, NEW how \in Hows,
           chan' = CloseAll(S, "c", how)
    PROVE  Steady
<1>1. \A k \in Conns : Closed(chan[k], "c", how) \in Channel
                       /\ SameSide(Closed(chan[k], "c", how), chan[k])
  BY ClosedType DEF SameSide, Sides
<1> QED
  BY <1>1 DEF CloseAll, Steady, SameSide

(* and so is no change.                                                     *)
LEMMA SameSteady ==
    ASSUME chan \in [Conns -> Channel], UNCHANGED chan
    PROVE  Steady
BY DEF Steady, SameSide

-----------------------------------------------------------------------------
(* Most steps of the server move one process that serves a client from one  *)
(* point to the next, and no descriptor.                                    *)
Moves(p) ==
    /\ Serving(p)
    /\ proc' \in [Procs -> Process]
    /\ \A q \in Procs : /\ q # p => proc'[q] = proc[q]
                        /\ proc'[q].clntSock = proc[q].clntSock
                        /\ proc'[q].clntDtpSock = proc[q].clntDtpSock
    /\ proc'[p].pc \notin {"none", "dead"}
    /\ proc'[p].pc = "CWD" => proc'[p].arg \in Dirs

Quiet(p) == Moves(p) /\ Steady /\ UNCHANGED <<fds, backlog, listening>>

(* A process goes to another point of its session.                          *)
LEMMA GotoMoves ==
    ASSUME ServerType, NEW p \in Procs, Serving(p),
           NEW pc \in ServerPc \ {"none", "dead", "CWD"}, Goto(p, pc)
    PROVE  Moves(p)
<1>1. proc' \in [Procs -> Process]
  BY DEF ServerType, Goto, Process
<1> QED
  BY <1>1 DEF ServerType, Goto, Moves, Process

(* A send either moves its process on or is its death.                      *)
LEMMA SendKinds ==
    ASSUME TypeOK, NEW p \in Procs, Serving(p), NEW k, NEW m \in Msg,
           NEW pc \in ServerPc \ {"none", "dead", "CWD"}, Send(p, k, m, pc)
    PROVE  Quiet(p) \/ Die(p)
<1>1. CASE /\ SendOn(k, "s", <<m>>) /\ Goto(p, pc)
           /\ UNCHANGED <<fds, backlog, listening>>
  <2>1. <<m>> \in Seq(Msg) /\ "s" \in Sides
    BY DEF Sides
  <2>2. Steady
    BY <1>1, <2>1, SendSteady DEF TypeOK, SocketsType
  <2>3. Moves(p)
    BY <1>1, GotoMoves DEF TypeOK
  <2> QED
    BY <1>1, <2>2, <2>3 DEF Quiet
<1> QED
  BY <1>1 DEF Send

(* The hello of a new connection is answered, or is its acceptor's death.   *)
LEMMA HelloKinds ==
    ASSUME TypeOK, NEW p \in Procs, Serving(p), NEW k,
           NEW pc \in ServerPc \ {"none", "dead", "CWD"}, Hello(p, k, pc)
    PROVE  Quiet(p) \/ Die(p)
<1>1. CASE /\ RecvOn(k, "s", 1) /\ Goto(p, pc)
           /\ UNCHANGED <<fds, backlog, listening>>
  <2>1. Steady
    BY <1>1, RecvSteady DEF TypeOK, SocketsType, Sides
  <2>2. Moves(p)
    BY <1>1, GotoMoves DEF TypeOK
  <2> QED
    BY <1>1, <2>1, <2>2 DEF Quiet
<1> QED
  BY <1>1 DEF Hello

(* A command is received with an argument of its own type.                  *)
LEMMA SessionKinds ==
    ASSUME IInv, NEW p \in Procs, Session(p)
    PROVE  Quiet(p) \/ Die(p)
<1> DEFINE k == proc[p].clntSock
           m == Head(chan[k].in["s"])
<1>a. TypeOK /\ Serving(p) /\ k \in Conns
  BY DEF IInv, Apart, ControlApart, Session, At, Serving, InSession, TypeOK, ServerType
<1>1. CASE \E j \in 1..Len(chan[k].in["s"]) :
             /\ RecvOn(k, "s", j)
             /\ proc' = [proc EXCEPT
                           ![p].pc  = IF m.t \in Commands THEN m.t ELSE @,
                           ![p].arg = IF m.t \in Commands THEN m.n ELSE @,
                           ![p].totalBytes = 0]
             /\ UNCHANGED <<fds, backlog, listening>>
  <2>1. PICK j \in 1..Len(chan[k].in["s"]) :
             /\ RecvOn(k, "s", j)
             /\ proc' = [proc EXCEPT
                           ![p].pc  = IF m.t \in Commands THEN m.t ELSE @,
                           ![p].arg = IF m.t \in Commands THEN m.n ELSE @,
                           ![p].totalBytes = 0]
             /\ UNCHANGED <<fds, backlog, listening>>
    BY <1>1
  <2>2. Steady
    BY <1>a, <2>1, RecvSteady DEF TypeOK, SocketsType, Sides
  <2>3. m \in Msg
    <3>1. chan[k].in["s"] \in Seq(Msg) /\ chan[k].in["s"] # <<>>
      BY <1>a, <2>1 DEF TypeOK, SocketsType, Channel, Sides
    <3> QED
      BY <3>1
  <2>4. m.n \in Int \cup Dirs /\ (m.t = "CWD" => m.n \in Dirs)
    BY <2>3 DEF Msg
  <2> DEFINE pc2 == IF m.t \in Commands THEN m.t ELSE proc[p].pc
             arg2 == IF m.t \in Commands THEN m.n ELSE proc[p].arg
  <2>5. /\ pc2 \in ServerPc \ {"none", "dead"}
        /\ arg2 \in Int \cup Dirs
        /\ pc2 = "CWD" => arg2 \in Dirs
    BY <1>a, <2>4 DEF Session, At, TypeOK, ServerType, Process, ServerPc, Commands
  <2>6. proc' = [proc EXCEPT ![p].pc = pc2, ![p].arg = arg2, ![p].totalBytes = 0]
    BY <2>1
  <2> HIDE DEF pc2, arg2
  <2>7. proc' \in [Procs -> Process]
    BY <1>a, <2>5, <2>6 DEF TypeOK, ServerType, Process
  <2>8. Moves(p)
    BY <1>a, <2>5, <2>6, <2>7 DEF TypeOK, ServerType, Process, Moves
  <2> QED
    BY <2>1, <2>2, <2>8 DEF Quiet
<1> QED
  BY <1>1 DEF Session

(* A process counts one more unit of a transfer.                            *)
LEMMA CountMoves ==
    ASSUME ServerType, NEW p \in Procs, Serving(p), ~ At(p, "CWD"),
           proc' = [proc EXCEPT ![p].totalBytes = @ + 1]
    PROVE  Moves(p)
<1>1. proc[p].totalBytes + 1 \in Nat
  BY DEF ServerType, Process
<1>2. proc[p].pc \notin {"none", "dead"}
  BY DEF Serving, InSession, Commands
<1>3. proc' \in [Procs -> Process]
  BY <1>1 DEF ServerType, Process
<1> QED
  BY <1>2, <1>3 DEF ServerType, Moves, Process, At

(* A process learns the size of a transfer.                                 *)
LEMMA SizeMoves ==
    ASSUME ServerType, NEW p \in Procs, Serving(p), NEW z \in Nat,
           NEW pc \in ServerPc \ {"none", "dead", "CWD"},
           proc' = [proc EXCEPT ![p].pc = pc, ![p].fileSize = z]
    PROVE  Moves(p)
<1> DEFINE r == [proc[p] EXCEPT !.pc = pc, !.fileSize = z]
<1>3. z \in Int /\ pc \in ServerPc
  OBVIOUS
<1>4. r \in Process
  BY <1>3 DEF ServerType, Process
<1>5. proc' = [proc EXCEPT ![p] = r]
  BY DEF ServerType
<1>1. proc' \in [Procs -> Process]
  BY <1>4, <1>5 DEF ServerType
<1>2. /\ proc'[p].clntSock = proc[p].clntSock
      /\ proc'[p].clntDtpSock = proc[p].clntDtpSock /\ proc'[p].pc = pc
  BY DEF ServerType, Process
<1>6. \A q \in Procs \ {p} : proc'[q] = proc[q]
  BY DEF ServerType
<1> QED
  BY <1>1, <1>2, <1>6 DEF Moves

(* What uploadFile counts is a number, with or without an error of write.   *)
LEMMA UploadedIsNat ==
    ASSUME NEW ch, NEW s, NEW n \in Nat, NEW len, NEW m \in Uploaded(ch, s, n, len)
    PROVE  m \in Nat
BY ProtocolAssumption DEF Uploaded

(* A process has uploaded its file.                                         *)
LEMMA UploadedMoves ==
    ASSUME ServerType, NEW p \in Procs, Serving(p), NEW n \in Nat,
           proc' = [proc EXCEPT ![p].pc = "retrsize", ![p].totalBytes = n]
    PROVE  Moves(p)
<1> DEFINE r == [proc[p] EXCEPT !.pc = "retrsize", !.totalBytes = n]
<1>1. "retrsize" \in ServerPc
  BY DEF ServerPc
<1>2. r \in Process
  BY <1>1 DEF ServerType, Process
<1>3. proc' = [proc EXCEPT ![p] = r]
  BY DEF ServerType
<1>4. proc' \in [Procs -> Process]
  BY <1>2, <1>3 DEF ServerType
<1>5. /\ proc'[p].clntSock = proc[p].clntSock
      /\ proc'[p].clntDtpSock = proc[p].clntDtpSock
      /\ proc'[p].pc = "retrsize"
  BY DEF ServerType, Process
<1>6. \A q \in Procs \ {p} : proc'[q] = proc[q]
  BY DEF ServerType
<1> QED
  BY <1>4, <1>5, <1>6 DEF Moves

(* A process closes its data connection and goes on.                        *)
Closes(p) ==
    /\ Moves(p)
    /\ \E h \in [Conns -> Channel] :
         /\ \A k \in Conns : SameSide(h[k], chan[k])
         /\ CloseIn(h, p, proc[p].clntDtpSock)
    /\ UNCHANGED <<backlog, listening>>

(* The steps of ECHO,                                                       *)
LEMMA EchoKinds ==
    ASSUME TypeOK, NEW p \in Procs, ECHO(p)
    PROVE  Quiet(p) \/ Die(p)
<1> DEFINE k == proc[p].clntSock
<1>a. Serving(p) /\ ServerType /\ chan \in [Conns -> Channel] /\ "s" \in Sides
  BY DEF ECHO, At, Serving, InSession, Commands, TypeOK, SocketsType, Sides
<1>b. {"echotext", "echoback", "session"} \subseteq ServerPc \ {"none", "dead", "CWD"}
  BY DEF ServerPc
<1>1. CASE Send(p, k, Word("ok"), "echotext")
  BY <1>1, <1>a, <1>b, SendKinds, WordIsMsg DEF Texts, Commands
<1>2. CASE /\ \E j \in 1..Len(chan[k].in["s"]) : RecvOn(k, "s", j)
           /\ Goto(p, "echoback")
           /\ UNCHANGED <<fds, backlog, listening>>
  BY <1>2, <1>a, <1>b, RecvSteady, GotoMoves DEF Quiet
<1>3. CASE Goto(p, "session") /\ UNCHANGED <<sockets, fds>>
  BY <1>3, <1>a, <1>b, SameSteady, GotoMoves DEF Quiet, sockets
<1>4. CASE Send(p, k, Word("text"), "session")
  BY <1>4, <1>a, <1>b, SendKinds, WordIsMsg DEF Texts, Commands
<1> QED
  BY <1>1, <1>2, <1>3, <1>4 DEF ECHO

(* of STOR,                                                                 *)
LEMMA StorKinds ==
    ASSUME IInv, NEW p \in Procs, STOR(p)
    PROVE  Quiet(p) \/ Die(p) \/ Closes(p)
<1> DEFINE k == proc[p].clntSock
           d == proc[p].clntDtpSock
<1>a. TypeOK /\ Serving(p) /\ ServerType /\ chan \in [Conns -> Channel]
      /\ "s" \in Sides
  BY DEF STOR, StorSize, Download, At, Serving, InSession, Commands, IInv, TypeOK, SocketsType, Sides
<1>b. {"storsize", "download", "stordone", "session"}
        \subseteq ServerPc \ {"none", "dead", "CWD"}
  BY DEF ServerPc
<1>c. 0..Wrapped \subseteq Nat
  BY ProtocolAssumption
<1>1. CASE Send(p, k, Word("226"), "storsize")
  BY <1>1, <1>a, <1>b, SendKinds, WordIsMsg DEF Texts, Commands
<1>2. CASE StorSize(p)
  <2>1. CASE \E j \in 1..Len(chan[k].in["s"]), z \in 0..Wrapped :
               /\ RecvOn(k, "s", j)
               /\ proc' = [proc EXCEPT ![p].pc = "download", ![p].fileSize = z]
               /\ UNCHANGED <<fds, backlog, listening>>
    BY <2>1, <1>a, <1>b, <1>c, RecvSteady, SizeMoves DEF Quiet
  <2>2. CASE /\ \E z \in 0..Wrapped :
                  proc' = [proc EXCEPT ![p].pc = "download", ![p].fileSize = z]
             /\ UNCHANGED <<sockets, fds>>
    BY <2>2, <1>a, <1>b, <1>c, SameSteady, SizeMoves DEF Quiet, sockets
  <2> QED
    BY <1>2, <2>1, <2>2 DEF StorSize
<1>3. CASE Download(p)
  <2>1. CASE /\ RecvOn(d, "s", 1)
             /\ proc' = [proc EXCEPT ![p].totalBytes = @ + 1]
             /\ UNCHANGED <<fds, backlog, listening>>
    BY <2>1, <1>3, <1>a, RecvSteady, CountMoves DEF Quiet, Download, At
  <2>2. CASE Goto(p, "stordone") /\ UNCHANGED <<sockets, fds>>
    BY <2>2, <1>a, <1>b, SameSteady, GotoMoves DEF Quiet, sockets
  <2> QED
    BY <1>3, <2>1, <2>2 DEF Download
<1>4. CASE /\ CloseIn([chan EXCEPT ![k] = Sent(@, "s", <<Word("complete")>>)],
                      p, d)
           /\ Goto(p, "session")
           /\ UNCHANGED <<backlog, listening>>
  <2> DEFINE h == [chan EXCEPT ![k] = Sent(@, "s", <<Word("complete")>>)]
  <2>1. <<Word("complete")>> \in Seq(Msg)
    BY WordIsMsg DEF Texts, Commands
  <2>2. k \in Conns => /\ Sent(chan[k], "s", <<Word("complete")>>) \in Channel
                       /\ SameSide(Sent(chan[k], "s", <<Word("complete")>>), chan[k])
    BY <1>a, <2>1, SentType DEF SameSide
  <2>3. h \in [Conns -> Channel] /\ \A l \in Conns : SameSide(h[l], chan[l])
    BY <1>a, <2>2 DEF SameSide
  <2>4. Moves(p)
    BY <1>4, <1>a, <1>b, GotoMoves
  <2> HIDE DEF h
  <2> QED
    BY <1>4, <2>3, <2>4 DEF Closes, h
<1> QED
  BY <1>1, <1>2, <1>3, <1>4 DEF STOR

(* of RETR,                                                                 *)
LEMMA RetrKinds ==
    ASSUME IInv, NEW p \in Procs, RETR(p)
    PROVE  Quiet(p) \/ Die(p)
<1> DEFINE k == proc[p].clntSock
           d == proc[p].clntDtpSock
<1>a. TypeOK /\ Serving(p) /\ ServerType /\ chan \in [Conns -> Channel]
      /\ "s" \in Sides
  BY DEF RETR, At, Serving, InSession, Commands, IInv, TypeOK, SocketsType, Sides
<1>b. {"retrsize", "retrdone", "session"} \subseteq ServerPc \ {"none", "dead", "CWD"}
  BY DEF ServerPc
<1>c. proc[p].totalBytes \in Int
  BY <1>a DEF ServerType, Process
<1>1. CASE /\ At(p, "RETR")
           /\ SendOn(d, "s", <<Word("data")>>)
           /\ proc' = [proc EXCEPT ![p].totalBytes = @ + 1]
           /\ UNCHANGED <<fds, backlog, listening>>
  <2>1. <<Word("data")>> \in Seq(Msg)
    BY WordIsMsg DEF Texts, Commands
  <2>2. ~ At(p, "CWD")
    BY <1>1 DEF At
  <2>3. Steady
    BY <1>1, <1>a, <2>1, SendSteady
  <2>4. Moves(p)
    BY <1>1, <1>a, <2>2, CountMoves
  <2> QED
    BY <1>1, <2>3, <2>4 DEF Quiet
<1>2. CASE /\ \E n \in Uploaded(chan[d], "s", proc[p].totalBytes, proc[p].arg) :
                proc' = [proc EXCEPT ![p].pc = "retrsize", ![p].totalBytes = n]
           /\ UNCHANGED <<sockets, fds>>
  <2>1. proc[p].totalBytes \in Nat
    BY <1>a DEF ServerType, Process
  <2>2. Moves(p)
    BY <1>2, <1>a, <2>1, UploadedIsNat, UploadedMoves
  <2>3. Steady
    BY <1>2, <1>a, SameSteady DEF sockets
  <2> QED
    BY <1>2, <2>2, <2>3 DEF Quiet, sockets
<1>3. CASE Send(p, k, With("size", proc[p].totalBytes), "retrdone")
  BY <1>3, <1>a, <1>b, <1>c, SendKinds, WithIsMsg DEF Texts, Commands
<1>4. CASE Send(p, k, Word("complete"), "session")
  BY <1>4, <1>a, <1>b, SendKinds, WordIsMsg DEF Texts, Commands
<1> QED
  BY <1>1, <1>2, <1>3, <1>4 DEF RETR

(* of LIST,                                                                 *)
LEMMA ListKinds ==
    ASSUME IInv, NEW p \in Procs, LIST(p)
    PROVE  Quiet(p) \/ Die(p) \/ Closes(p)
<1> DEFINE k == proc[p].clntSock
           d == proc[p].clntDtpSock
<1>a. TypeOK /\ Serving(p) /\ ServerType /\ chan \in [Conns -> Channel]
      /\ "s" \in Sides
  BY DEF LIST, At, Serving, InSession, Commands, IInv, TypeOK, SocketsType, Sides
<1>b. {"listdata", "listdone", "session"} \subseteq ServerPc \ {"none", "dead", "CWD"}
  BY DEF ServerPc
<1>c. Lines \subseteq Nat
  BY ServerAssumption
<1>1. CASE /\ \E n \in Lines : proc' = [proc EXCEPT ![p].pc = "listdata",
                                                    ![p].fileSize = n]
           /\ SendOn(k, "s", <<Word("150")>>)
           /\ UNCHANGED <<fds, backlog, listening>>
  <2>1. <<Word("150")>> \in Seq(Msg)
    BY WordIsMsg DEF Texts, Commands
  <2>2. Steady
    BY <1>1, <1>a, <2>1, SendSteady
  <2>3. Moves(p)
    BY <1>1, <1>a, <1>b, <1>c, SizeMoves
  <2> QED
    BY <1>1, <2>2, <2>3 DEF Quiet
<1>2. CASE /\ At(p, "listdata")
           /\ SendOn(d, "s", <<Word("line")>>)
           /\ proc' = [proc EXCEPT ![p].totalBytes = @ + 1]
           /\ UNCHANGED <<fds, backlog, listening>>
  <2>1. <<Word("line")>> \in Seq(Msg)
    BY WordIsMsg DEF Texts, Commands
  <2>2. ~ At(p, "CWD")
    BY <1>2 DEF At
  <2>3. Steady
    BY <1>2, <1>a, <2>1, SendSteady
  <2>4. Moves(p)
    BY <1>2, <1>a, <2>2, CountMoves
  <2> QED
    BY <1>2, <2>3, <2>4 DEF Quiet
<1>3. CASE /\ CloseIn(chan, p, d)
           /\ Goto(p, "listdone")
           /\ UNCHANGED <<backlog, listening>>
  <2>1. Moves(p)
    BY <1>3, <1>a, <1>b, GotoMoves
  <2>2. \A l \in Conns : SameSide(chan[l], chan[l])
    BY DEF SameSide
  <2> QED
    BY <1>3, <1>a, <2>1, <2>2 DEF Closes
<1>4. CASE Send(p, k, Word("226"), "session")
  BY <1>4, <1>a, <1>b, SendKinds, WordIsMsg DEF Texts, Commands
<1> QED
  BY <1>1, <1>2, <1>3, <1>4 DEF LIST

(* and of CWD.                                                              *)
LEMMA CwdKinds ==
    ASSUME IInv, NEW p \in Procs, CWD(p)
    PROVE  Quiet(p) \/ Die(p)
<1> DEFINE k == proc[p].clntSock
<1>a. TypeOK /\ Serving(p) /\ ServerType /\ chan \in [Conns -> Channel]
      /\ "s" \in Sides /\ At(p, "CWD")
  BY DEF CWD, At, Serving, InSession, Commands, IInv, TypeOK, SocketsType, Sides
<1>1. CASE /\ \E d \in {proc[p].arg, proc[p].cwd} :
                proc' = [proc EXCEPT ![p].pc = "session", ![p].cwd = d]
           /\ SendOn(k, "s", <<Word("Change")>>)
           /\ UNCHANGED <<fds, backlog, listening>>
  <2>1. PICK d \in {proc[p].arg, proc[p].cwd} :
          proc' = [proc EXCEPT ![p].pc = "session", ![p].cwd = d]
    BY <1>1
  <2>2. d \in Dirs /\ "session" \in ServerPc
    BY <1>a DEF ServerType, Process, At, ServerPc
  <2> DEFINE r == [proc[p] EXCEPT !.pc = "session", !.cwd = d]
  <2>9. r \in Process
    BY <1>a, <2>2 DEF ServerType, Process
  <2>10. proc' = [proc EXCEPT ![p] = r]
    BY <1>a, <2>1 DEF ServerType
  <2>3. proc' \in [Procs -> Process]
    BY <1>a, <2>9, <2>10 DEF ServerType
  <2>7. /\ proc'[p].clntSock = proc[p].clntSock
        /\ proc'[p].clntDtpSock = proc[p].clntDtpSock
        /\ proc'[p].pc = "session"
    BY <1>a, <2>1 DEF ServerType, Process
  <2>8. \A q \in Procs \ {p} : proc'[q] = proc[q]
    BY <1>a, <2>1 DEF ServerType
  <2>4. Moves(p)
    BY <1>a, <2>3, <2>7, <2>8 DEF Moves
  <2>5. <<Word("Change")>> \in Seq(Msg)
    BY WordIsMsg DEF Texts, Commands
  <2>6. Steady
    BY <1>1, <1>a, <2>5, SendSteady
  <2> QED
    BY <1>1, <2>4, <2>6 DEF Quiet
<1> QED
  BY <1>1 DEF CWD

-----------------------------------------------------------------------------
(* Every step of the server is of one of five kinds.                        *)
Accepts(p) ==
    \/ At(p, "accept") /\ Accept(p, "pi", "hello")
    \/ At(p, "dtpaccept") /\ Accept(p, "dtp", "dtphello")

Forks(p) ==
    \E q \in Procs :
      /\ At(p, "fork") /\ At(q, "none")
      /\ proc' = [proc EXCEPT ![q] = [proc[p] EXCEPT !.pc = "session"],
                              ![p].pc = "accept"]
      /\ fds' = [fds EXCEPT ![q] = fds[p], ![p] = @ \ {proc[p].clntSock}]
      /\ UNCHANGED sockets

(* The split of the server's steps.                                        *)
LEMMA ServerKinds ==
    ASSUME IInv, NEW p \in Procs, ServerStep(p)
    PROVE  \/ Quiet(p) \/ Accepts(p) \/ Forks(p) \/ Closes(p)
           \/ (Serving(p) /\ Die(p))
<1> DEFINE k == proc[p].clntSock
           d == proc[p].clntDtpSock
<1>a. TypeOK /\ ServerType
  BY DEF IInv, TypeOK
<1>b. {"hi", "fork", "dtphi", "dtpaccept", "session", "accept"}
        \subseteq ServerPc \ {"none", "dead", "CWD"}
  BY DEF ServerPc
<1>c. Accepts(p) \/ Serving(p)
  BY DEF ServerStep, AcceptPI, Fork, Session, User, SYSY, PASV, ECHO, STOR, StorSize,
         Download, RETR, LIST, CWD, QUIT, At, Accepts, Serving, InSession, Commands
<1>d. \A t \in {"hi", "Get", "OS", "addr", "221"} : Word(t) \in Msg
  BY WordIsMsg DEF Texts, Commands
<1>e. SUFFICES ASSUME Serving(p)
               PROVE  Quiet(p) \/ Die(p) \/ Accepts(p) \/ Forks(p) \/ Closes(p)
  BY <1>c
<1>f. \A l, t, pc : /\ Send(p, l, Word(t), pc)
                    /\ t \in {"hi", "Get", "OS", "addr", "221"}
                    /\ pc \in {"fork", "dtpaccept", "session", "accept"}
                    => Quiet(p) \/ Die(p)
  <2> SUFFICES ASSUME NEW l, NEW t \in {"hi", "Get", "OS", "addr", "221"},
                      NEW pc \in {"fork", "dtpaccept", "session", "accept"},
                      Send(p, l, Word(t), pc)
               PROVE  Quiet(p) \/ Die(p)
    OBVIOUS
  <2>1. Word(t) \in Msg
    BY <1>d
  <2>2. pc \in ServerPc \ {"none", "dead", "CWD"}
    BY <1>b
  <2> QED
    BY <1>a, <1>e, <2>1, <2>2, SendKinds
<1>1. CASE AcceptPI(p)
  <2>1. CASE Hello(p, k, "hi")
    BY <2>1, <1>a, <1>b, <1>e, HelloKinds
  <2> QED
    BY <1>1, <2>1, <1>f DEF AcceptPI, Accepts
<1>2. CASE Fork(p)
  BY <1>2 DEF Fork, Forks
<1>3. CASE User(p)
  BY <1>3, <1>f DEF User
<1>4. CASE SYSY(p)
  BY <1>4, <1>f DEF SYSY
<1>5. CASE PASV(p)
  <2>1. CASE Hello(p, d, "dtphi")
    BY <2>1, <1>a, <1>b, <1>e, HelloKinds
  <2> QED
    BY <1>5, <2>1, <1>f DEF PASV, Accepts
<1>6. CASE QUIT(p)
  BY <1>6, <1>f DEF QUIT
<1> QED
  BY <1>1, <1>2, <1>3, <1>4, <1>5, <1>6, <1>a, SessionKinds, EchoKinds,
     StorKinds, RetrKinds, ListKinds, CwdKinds DEF ServerStep

-----------------------------------------------------------------------------
(* Each kind of step keeps the invariant.                                   *)
SInv == SocketsType /\ ServerType /\ Held /\ Apart

(* A process that serves has a control connection.                          *)
LEMMA SockInConns ==
    ASSUME SInv, NEW p \in Procs, Serving(p)
    PROVE  proc[p].clntSock \in Conns
BY DEF SInv, Apart, ControlApart, ServerType

(* Nothing opened or closed, queued or taken: who holds what is as before.  *)
LEMMA SteadyHeld ==
    ASSUME SInv, Steady, UNCHANGED <<fds, backlog>>,
           \A p \in Procs : Alive(p)' <=> Alive(p)
    PROVE  Held'
<1>1. \A k \in Conns : /\ chan'[k].port = chan[k].port
                       /\ chan'[k].end["s"] = "open" <=> chan[k].end["s"] = "open"
  BY DEF Steady, SameSide
<1>2. /\ \A p \in Procs : \A k \in fds[p] : k \in Conns
      /\ \A q \in Ports : \A i \in 1..Len(backlog[q]) : backlog[q][i] \in Conns
  BY DEF SInv, ServerType, SocketsType
<1>3. \A q : Waiting(q)' = Waiting(q)
  BY DEF Waiting
<1> QED
  BY <1>1, <1>2, <1>3 DEF SInv, Held

(* The same for who serves whom.                                            *)
LEMMA SteadyApart ==
    ASSUME SInv, Steady, UNCHANGED fds,
           \A p \in Procs : /\ proc'[p].clntSock = proc[p].clntSock
                            /\ proc'[p].clntDtpSock = proc[p].clntDtpSock
                            /\ Serving(p)' => Serving(p)
    PROVE  Apart'
<1>1. \A k \in Conns : chan'[k].port = chan[k].port
  BY DEF Steady, SameSide
<1>2. ControlApart'
  BY DEF SInv, Apart, ControlApart
<1>3. \A p \in Procs : Serving(p)' => chan'[proc'[p].clntSock].port = "pi"
  BY <1>1, SockInConns DEF SInv, Apart
<1>4. \A p \in Procs : proc'[p].clntDtpSock \in Conns =>
        chan'[proc'[p].clntDtpSock].port = "dtp"
  BY <1>1 DEF SInv, Apart
<1> QED
  BY <1>2, <1>3, <1>4 DEF Apart

(* Moving on within a session keeps it.                                     *)
LEMMA QuietKeeps ==
    ASSUME SInv, NEW p \in Procs, Quiet(p)
    PROVE  SInv'
<1>1. Alive(p) /\ Alive(p)'
  BY DEF Quiet, Moves, Alive, Serving, InSession, Commands
<1>2. \A q \in Procs : /\ Alive(q)' <=> Alive(q)
                       /\ Serving(q)' => Serving(q)
  BY <1>1 DEF Quiet, Moves, Alive, Serving, InSession
<1>3. Held'
  BY <1>2, SteadyHeld DEF Quiet
<1>4. Apart'
  BY <1>2, SteadyApart DEF Quiet, Moves
<1>5. SocketsType' /\ ServerType'
  BY DEF SInv, Quiet, Moves, Steady, SocketsType, ServerType
<1> QED
  BY <1>3, <1>4, <1>5 DEF SInv

(* An accept takes the oldest connection of the queue, nobody else has it.  *)
LEMMA AcceptsKeeps ==
    ASSUME SInv, NEW p \in Procs, Accepts(p)
    PROVE  SInv'
<1>1. PICK q \in Ports, pc \in {"hello", "dtphello"} :
        /\ Accept(p, q, pc)
        /\ \/ q = "pi" /\ pc = "hello" /\ At(p, "accept")
           \/ q = "dtp" /\ pc = "dtphello" /\ At(p, "dtpaccept")
  BY DEF Accepts, Ports
<1> DEFINE b == backlog[q]
           k == Head(b)
<1>2. /\ b \in Seq(Conns) /\ b # <<>>
      /\ proc' = [proc EXCEPT ![p].pc = pc,
                    ![p].clntSock    = IF q = "pi"  THEN k ELSE @,
                    ![p].clntDtpSock = IF q = "dtp" THEN k ELSE @]
      /\ fds' = [fds EXCEPT ![p] = @ \cup {k}]
      /\ backlog' = [backlog EXCEPT ![q] = Tail(@)]
      /\ chan' = chan /\ listening' = listening
  BY <1>1 DEF Accept, SInv, SocketsType
<1>3. /\ k = b[1] /\ k \in Conns /\ 1 \in 1..Len(b)
      /\ Tail(b) \in Seq(Conns) /\ Len(Tail(b)) = Len(b) - 1
      /\ \A i \in 1..Len(Tail(b)) : Tail(b)[i] = b[i + 1] /\ i + 1 \in 1..Len(b)
  BY <1>2
<1>4. /\ chan[k].port = q /\ chan[k].end["s"] = "open"
      /\ \A r \in Procs : k \notin fds[r]
      /\ \A j \in 1..Len(b) : b[j] = k => j = 1
  BY <1>3 DEF SInv, Held
<1> HIDE DEF b, k
<1>5. SocketsType'
  BY <1>2, <1>3 DEF SInv, SocketsType, b
<1>6. ServerType'
  <2> DEFINE s == IF q = "pi" THEN k ELSE proc[p].clntSock
             d == IF q = "dtp" THEN k ELSE proc[p].clntDtpSock
             r == [proc[p] EXCEPT !.pc = pc, !.clntSock = s, !.clntDtpSock = d]
  <2>1. pc \in ServerPc /\ s \in Conns \cup {NoConn} /\ d \in Conns \cup {NoConn}
    BY <1>3 DEF SInv, ServerType, Process, ServerPc
  <2>2. proc' = [proc EXCEPT ![p] = r]
    BY <1>2 DEF SInv, ServerType
  <2> HIDE DEF s, d
  <2>3. r \in Process
    BY <2>1 DEF SInv, ServerType, Process
  <2>4. r.pc = pc
    BY DEF SInv, ServerType, Process
  <2>5. fds' \in [Procs -> SUBSET Conns]
    BY <1>2, <1>3 DEF SInv, ServerType
  <2> HIDE DEF r
  <2> QED
    BY <2>2, <2>3, <2>4, <2>5 DEF SInv, ServerType
<1>7. /\ \A r \in Procs : fds'[r] = IF r = p THEN fds[p] \cup {k} ELSE fds[r]
      /\ \A r \in Procs : fds[r] \subseteq Conns
      /\ \A o \in Ports : backlog'[o] = IF o = q THEN Tail(b) ELSE backlog[o]
      /\ \A o \in Ports : \A i \in 1..Len(backlog[o]) : backlog[o][i] \in Conns
  BY <1>2 DEF SInv, SocketsType, ServerType, b
<1>8. \A r \in Procs : Alive(r)' <=> Alive(r)
  BY <1>1, <1>2 DEF Alive, At, SInv, ServerType
<1>9. \A o \in Ports : \A i \in 1..Len(backlog'[o]) :
        \E j \in 1..Len(backlog[o]) :
          /\ backlog'[o][i] = backlog[o][j]
          /\ o = q => j = i + 1
          /\ o # q => j = i
  BY <1>3, <1>7 DEF b
<1>10. Held'
  <2>1. \A r \in Procs : \A l \in fds'[r] :
          chan'[l].end["s"] = "open" /\ chan'[l].port # "none"
    BY <1>2, <1>4, <1>7 DEF SInv, Held, Ports
  <2>2. \A l \in Conns : chan'[l].port # "none" /\ chan'[l].end["s"] = "open" =>
          l \in Waiting(chan[l].port)' \/ \E r \in Procs : l \in fds'[r]
    <3> SUFFICES ASSUME NEW l \in Conns, chan[l].port # "none",
                        chan[l].end["s"] = "open", l # k,
                        \A r \in Procs : l \notin fds[r]
                 PROVE  l \in Waiting(chan[l].port)'
      BY <1>2, <1>7
    <3>1. l \in Waiting(chan[l].port)
      BY DEF SInv, Held
    <3>2. chan[l].port \in Ports
      BY DEF SInv, SocketsType, Channel
    <3>3. PICK i \in 1..Len(backlog[chan[l].port]) : backlog[chan[l].port][i] = l
      BY <3>1 DEF Waiting
    <3>4. CASE chan[l].port = q
      <4>1. i # 1 /\ i \in 1..Len(b) /\ b[i] = l
        BY <1>3, <3>3, <3>4 DEF b
      <4>2. i - 1 \in 1..Len(Tail(b)) /\ Tail(b)[i - 1] = l
        BY <1>2, <1>3, <4>1
      <4> QED
        BY <1>2, <1>7, <3>2, <3>4, <4>2 DEF Waiting
    <3>5. CASE chan[l].port # q
      BY <1>2, <1>7, <3>2, <3>3, <3>5 DEF Waiting
    <3> QED
      BY <3>4, <3>5
  <2>3. \A o \in Ports : \A i \in 1..Len(backlog'[o]) : LET l == backlog'[o][i] IN
          /\ chan'[l].port = o /\ chan'[l].end["s"] = "open"
          /\ \A r \in Procs : l \notin fds'[r]
          /\ \A j \in 1..Len(backlog'[o]) : backlog'[o][j] = l => j = i
    <3> SUFFICES ASSUME NEW o \in Ports, NEW i \in 1..Len(backlog'[o])
                 PROVE  LET l == backlog'[o][i] IN
          /\ chan'[l].port = o /\ chan'[l].end["s"] = "open"
          /\ \A r \in Procs : l \notin fds'[r]
          /\ \A j \in 1..Len(backlog'[o]) : backlog'[o][j] = l => j = i
      OBVIOUS
    <3> DEFINE l == backlog'[o][i]
    <3>1. PICK j \in 1..Len(backlog[o]) :
            /\ l = backlog[o][j]
            /\ o = q => j = i + 1
            /\ o # q => j = i
      BY <1>9
    <3>2. /\ chan[l].port = o /\ chan[l].end["s"] = "open"
          /\ \A r \in Procs : l \notin fds[r]
          /\ \A m \in 1..Len(backlog[o]) : backlog[o][m] = l => m = j
      BY <3>1 DEF SInv, Held
    <3>3. l # k
      <4>1. CASE o = q
        BY <1>3, <3>1, <3>2, <4>1 DEF b
      <4>2. CASE o # q
        BY <1>4, <3>2, <4>2
      <4> QED
        BY <4>1, <4>2
    <3>4. \A n \in 1..Len(backlog'[o]) : backlog'[o][n] = l => n = i
      BY <1>9, <3>1, <3>2
    <3> QED
      BY <1>2, <1>7, <3>2, <3>3, <3>4
  <2>4. \A l \in Conns : chan'[l].port = "none" => chan'[l].end["s"] = "open"
    BY <1>2 DEF SInv, Held
  <2>5. \A r \in Procs : ~ Alive(r)' => fds'[r] = {}
    <3>1. Alive(p)
      BY <1>1 DEF Alive, At
    <3> QED
      BY <1>7, <1>8, <3>1 DEF SInv, Held
  <2> QED
    BY <2>1, <2>2, <2>3, <2>4, <2>5 DEF Held
<1>11. \A r \in Procs : /\ r # p => proc'[r] = proc[r]
                        /\ r = p => /\ proc'[r].clntSock = IF q = "pi" THEN k ELSE proc[r].clntSock
                                    /\ proc'[r].clntDtpSock = IF q = "dtp" THEN k ELSE proc[r].clntDtpSock
  BY <1>2 DEF SInv, ServerType, Process
<1>12. \A r \in Procs : Serving(r)' => Serving(r) \/ (r = p /\ q = "pi")
  BY <1>1, <1>11 DEF Serving, InSession, At
<1>13. Apart'
  <2>1. \A r \in Procs : Serving(r)' => proc'[r].clntSock \in fds'[r]
    BY <1>7, <1>11, <1>12 DEF SInv, Apart, ControlApart
  <2>2. \A r \in Procs : Serving(r) => proc[r].clntSock # k
    BY <1>4 DEF SInv, Apart, ControlApart
  <2>3. \A r, o \in Procs : Serving(r)' /\ Serving(o)' /\ r # o =>
          proc'[r].clntSock # proc'[o].clntSock
    BY <1>11, <1>12, <2>2 DEF SInv, Apart, ControlApart
  <2>4. \A r \in Procs : Serving(r)' => chan'[proc'[r].clntSock].port = "pi"
    <3> TAKE r \in Procs
    <3>1. CASE r = p /\ q = "pi"
      BY <1>2, <1>4, <1>11, <3>1
    <3>2. CASE ~ (r = p /\ q = "pi")
      <4>1. proc'[r].clntSock = proc[r].clntSock
        BY <1>11, <3>2
      <4> QED
        BY <1>2, <1>12, <3>2, <4>1 DEF SInv, Apart
    <3> QED
      BY <3>1, <3>2
  <2>5. \A r \in Procs : proc'[r].clntDtpSock \in Conns =>
          chan'[proc'[r].clntDtpSock].port = "dtp"
    <3> TAKE r \in Procs
    <3>1. CASE r = p /\ q = "dtp"
      BY <1>2, <1>4, <1>11, <3>1
    <3>2. CASE ~ (r = p /\ q = "dtp")
      <4>1. proc'[r].clntDtpSock = proc[r].clntDtpSock
        BY <1>11, <3>2
      <4> QED
        BY <1>2, <4>1 DEF SInv, Apart
    <3> QED
      BY <3>1, <3>2
  <2> QED
    BY <2>1, <2>3, <2>4, <2>5 DEF Apart, ControlApart
<1> QED
  BY <1>5, <1>6, <1>10, <1>13 DEF SInv

(* A fork copies descriptors; the child serves, the parent lets go.         *)
LEMMA ForksKeeps ==
    ASSUME SInv, NEW p \in Procs, Forks(p)
    PROVE  SInv'
<1> DEFINE k == proc[p].clntSock
           child == [proc[p] EXCEPT !.pc = "session"]
           parent == [proc[p] EXCEPT !.pc = "accept"]
<1>1. PICK q \in Procs :
        /\ At(p, "fork") /\ At(q, "none")
        /\ proc' = [proc EXCEPT ![q] = child, ![p].pc = "accept"]
        /\ fds' = [fds EXCEPT ![q] = fds[p], ![p] = @ \ {k}]
        /\ UNCHANGED sockets
  BY DEF Forks
<1>2. /\ p # q /\ Serving(p) /\ ~ Serving(q) /\ Alive(p)
      /\ chan' = chan /\ backlog' = backlog /\ listening' = listening
  BY <1>1 DEF At, Serving, InSession, Alive, Commands, sockets
<1>3. \A r \in Procs : /\ r = q => proc'[r] = child /\ fds'[r] = fds[p]
                       /\ r = p => proc'[r] = parent /\ fds'[r] = fds[p] \ {k}
                       /\ r \notin {p, q} => proc'[r] = proc[r] /\ fds'[r] = fds[r]
  BY <1>1, <1>2 DEF SInv, ServerType
<1>4. /\ child \in Process /\ child.pc = "session" /\ child.clntSock = k
      /\ child.clntDtpSock = proc[p].clntDtpSock
      /\ parent \in Process /\ parent.pc = "accept" /\ parent.clntSock = k
      /\ parent.clntDtpSock = proc[p].clntDtpSock
  BY DEF SInv, ServerType, Process, ServerPc
<1> HIDE DEF child, parent
<1>5. SocketsType' /\ ServerType'
  <2>1. proc' \in [Procs -> Process]
    BY <1>1, <1>3, <1>4 DEF SInv, ServerType
  <2>2. fds' \in [Procs -> SUBSET Conns]
    BY <1>1, <1>3 DEF SInv, ServerType
  <2> QED
    BY <1>2, <1>3, <1>4, <2>1, <2>2 DEF SInv, ServerType, SocketsType
<1>6. Held'
  <2>1. \A r \in Procs : \A l \in fds'[r] : \E o \in Procs : l \in fds[o]
    BY <1>3
  <2>2. \A r \in Procs : \A l \in fds[r] : \E o \in Procs : l \in fds'[o]
    <3> TAKE r \in Procs
    <3>1. r # q
      \/ fds[r] = {}
      BY <1>1 DEF SInv, Held, Alive, At
    <3> QED
      BY <1>2, <1>3, <3>1
  <2>3. \A r \in Procs : ~ Alive(r)' => fds'[r] = {}
    BY <1>3, <1>4 DEF SInv, Held, Alive
  <2>4. \A o : Waiting(o)' = Waiting(o)
    BY <1>2 DEF Waiting
  <2> QED
    BY <1>2, <2>1, <2>2, <2>3, <2>4 DEF SInv, Held
<1>7. Apart'
  <2>1. \A r \in Procs : /\ Serving(r)' => r # p /\ (r = q \/ Serving(r))
                         /\ r # q => proc'[r].clntSock = proc[r].clntSock
                                     /\ proc'[r].clntDtpSock = proc[r].clntDtpSock
                         /\ r \notin {p, q} => fds'[r] = fds[r]
    BY <1>3, <1>4 DEF Serving, InSession, Commands
  <2>2. /\ proc'[q].clntSock = k /\ proc'[q].clntDtpSock = proc[p].clntDtpSock
        /\ fds'[q] = fds[p]
    BY <1>3, <1>4
  <2>3. \A r \in Procs : Serving(r) => proc[r].clntSock \in fds[r]
    BY DEF SInv, Apart, ControlApart
  <2>4. \A r, o \in Procs : Serving(r) /\ Serving(o) /\ r # o =>
          proc[r].clntSock # proc[o].clntSock
    BY DEF SInv, Apart, ControlApart
  <2>5. \A r \in Procs : Serving(r)' => proc'[r].clntSock \in fds'[r]
    BY <1>2, <2>1, <2>2, <2>3
  <2>6. \A r, o \in Procs : Serving(r)' /\ Serving(o)' /\ r # o =>
          proc'[r].clntSock # proc'[o].clntSock
    BY <1>2, <2>1, <2>2, <2>4
  <2>7. \A r \in Procs : Serving(r)' => chan'[proc'[r].clntSock].port = "pi"
    BY <1>2, <2>1, <2>2 DEF SInv, Apart
  <2>8. \A r \in Procs : proc'[r].clntDtpSock \in Conns =>
          chan'[proc'[r].clntDtpSock].port = "dtp"
    BY <1>2, <2>1, <2>2 DEF SInv, Apart
  <2> QED
    BY <2>5, <2>6, <2>7, <2>8 DEF Apart, ControlApart
<1> QED
  BY <1>5, <1>6, <1>7 DEF SInv

(* What a close leaves: a held connection is shut when its last holder      *)
(* goes, and only then.                                                     *)
LEMMA ClosesKeeps ==
    ASSUME SInv, NEW p \in Procs, Closes(p)
    PROVE  SInv'
<1> DEFINE d == proc[p].clntDtpSock
<1>1. PICK h \in [Conns -> Channel] :
        (\A k \in Conns : SameSide(h[k], chan[k])) /\ CloseIn(h, p, d)
  BY DEF Closes
<1>2. PICK how \in Hows :
        /\ chan' = IF d \in OnlyHeldBy(p)
                   THEN [h EXCEPT ![d] = Closed(@, "s", how)] ELSE h
        /\ fds' = [fds EXCEPT ![p] = @ \ {d}]
  BY <1>1 DEF CloseIn
<1>3. /\ Moves(p) /\ Serving(p) /\ backlog' = backlog /\ listening' = listening
      /\ proc' \in [Procs -> Process]
  BY DEF Closes, Moves
<1>4. d \in OnlyHeldBy(p) => d \in Conns /\ d \in fds[p]
  BY DEF OnlyHeldBy, SInv, ServerType
<1>5. d \in Conns => /\ Closed(h[d], "s", how) \in Channel
                     /\ Closed(h[d], "s", how).port = h[d].port
                     /\ Closed(h[d], "s", how).end["s"] # "open"
  BY <1>2, ClosedType DEF Sides
<1>6. /\ chan' \in [Conns -> Channel]
      /\ \A k \in Conns : k # d \/ d \notin OnlyHeldBy(p) => chan'[k] = h[k]
      /\ d \in OnlyHeldBy(p) => /\ chan'[d].port = h[d].port
                                /\ chan'[d].end["s"] # "open"
  BY <1>2, <1>4, <1>5
<1>7. \A k \in Conns : /\ chan'[k].port = chan[k].port
                       /\ k # d \/ d \notin OnlyHeldBy(p) =>
                            (chan'[k].end["s"] = "open" <=> chan[k].end["s"] = "open")
  BY <1>1, <1>6 DEF SameSide
<1>8. \A r \in Procs : fds'[r] = IF r = p THEN fds[p] \ {d} ELSE fds[r]
  BY <1>2 DEF SInv, ServerType
<1>9. \A r \in Procs : d \in OnlyHeldBy(p) => d \notin fds'[r]
  BY <1>8 DEF OnlyHeldBy
<1>10. /\ \A r \in Procs : fds[r] \subseteq Conns
       /\ \A o \in Ports : \A i \in 1..Len(backlog[o]) : backlog[o][i] \in Conns
       /\ \A o : Waiting(o)' = Waiting(o)
  BY <1>3 DEF SInv, ServerType, SocketsType, Waiting
<1>11. \A r \in Procs : /\ Alive(r)' <=> Alive(r)
                        /\ Serving(r)' => Serving(r)
                        /\ proc'[r].clntSock = proc[r].clntSock
                        /\ proc'[r].clntDtpSock = proc[r].clntDtpSock
  BY <1>3 DEF Moves, Alive, Serving, InSession, Commands
<1>12. SocketsType' /\ ServerType'
  BY <1>2, <1>3, <1>6, <1>8 DEF SInv, SocketsType, ServerType, Moves
<1>13. Held'
  <2>1. \A r \in Procs : \A k \in fds'[r] :
          chan'[k].end["s"] = "open" /\ chan'[k].port # "none"
    BY <1>7, <1>8, <1>9, <1>10 DEF SInv, Held
  <2>2. \A k \in Conns : chan'[k].port # "none" /\ chan'[k].end["s"] = "open" =>
          k \in Waiting(chan[k].port)' \/ \E r \in Procs : k \in fds'[r]
    <3> SUFFICES ASSUME NEW k \in Conns, chan'[k].port # "none",
                        chan'[k].end["s"] = "open", k \notin Waiting(chan[k].port)'
                 PROVE  \E r \in Procs : k \in fds'[r]
      OBVIOUS
    <3>1. k # d \/ d \notin OnlyHeldBy(p)
      BY <1>6
    <3>2. PICK r \in Procs : k \in fds[r]
      BY <1>7, <1>10, <3>1 DEF SInv, Held
    <3>3. CASE r = p /\ k = d
      BY <1>8, <3>1, <3>2, <3>3 DEF OnlyHeldBy
    <3> QED
      BY <1>8, <3>2, <3>3
  <2>3. \A q \in Ports : \A i \in 1..Len(backlog[q]) : LET k == backlog[q][i] IN
          /\ chan'[k].port = q /\ chan'[k].end["s"] = "open"
          /\ \A r \in Procs : k \notin fds'[r]
          /\ \A j \in 1..Len(backlog[q]) : backlog[q][j] = k => j = i
    BY <1>4, <1>7, <1>8, <1>10 DEF SInv, Held
  <2>4. \A k \in Conns : chan'[k].port = "none" => chan'[k].end["s"] = "open"
    BY <1>4, <1>7 DEF SInv, Held
  <2>5. \A r \in Procs : ~ Alive(r)' => fds'[r] = {}
    BY <1>8, <1>11 DEF SInv, Held
  <2> QED
    BY <1>3, <2>1, <2>2, <2>3, <2>4, <2>5 DEF Held
<1>14. Apart'
  <2>1. \A r \in Procs : Serving(r) => proc[r].clntSock # d
    BY SockInConns DEF SInv, Apart
  <2>2. ControlApart'
    BY <1>8, <1>11, <2>1 DEF SInv, Apart, ControlApart
  <2>3. \A r \in Procs : Serving(r)' => chan'[proc'[r].clntSock].port = "pi"
    BY <1>7, <1>11, SockInConns DEF SInv, Apart
  <2>4. \A r \in Procs : proc'[r].clntDtpSock \in Conns =>
          chan'[proc'[r].clntDtpSock].port = "dtp"
    BY <1>7, <1>11 DEF SInv, Apart
  <2> QED
    BY <2>2, <2>3, <2>4 DEF Apart
<1> QED
  BY <1>12, <1>13, <1>14 DEF SInv

(* A death closes what nobody else holds; the last one empties the queues.  *)
LEMMA DieKeeps ==
    ASSUME SInv, NEW p \in Procs, Serving(p), Die(p)
    PROVE  SInv'
<1> DEFINE S == OnlyHeldBy(p)
           W == Waiting("pi") \cup Waiting("dtp")
           survivors == \E q \in Procs \ {p} : Alive(q)
<1>1. PICK how \in Hows :
        LET closed == CloseAll(S, "s", how) IN
        IF survivors
        THEN chan' = closed /\ UNCHANGED <<backlog, listening>>
        ELSE /\ chan' = [k \in Conns |-> IF k \in W THEN Refused(closed[k])
                                                    ELSE closed[k]]
             /\ backlog' = [q \in Ports |-> <<>>]
             /\ listening' = FALSE
  BY DEF Die
<1>2. /\ proc' = [proc EXCEPT ![p].pc = "dead"]
      /\ fds' = [fds EXCEPT ![p] = {}]
  BY DEF Die
<1> DEFINE closed == CloseAll(S, "s", how)
<1>3. /\ closed \in [Conns -> Channel]
      /\ \A k \in Conns : closed[k].port = chan[k].port
      /\ \A k \in S : k \in Conns => closed[k].end["s"] # "open"
      /\ \A k \in Conns \ S : closed[k] = chan[k]
  <2>1. \A k \in Conns : chan[k] \in Channel
    BY DEF SInv, SocketsType
  <2>2. \A k \in Conns : /\ Closed(chan[k], "s", how) \in Channel
                         /\ Closed(chan[k], "s", how).port = chan[k].port
                         /\ Closed(chan[k], "s", how).end["s"] # "open"
    BY <2>1, ClosedType DEF Sides
  <2> QED
    BY <2>1, <2>2 DEF CloseAll
<1> HIDE DEF closed
<1>4. \A k \in Conns : /\ Refused(closed[k]) \in Channel
                       /\ Refused(closed[k]).port = closed[k].port
                       /\ Refused(closed[k]).end["s"] # "open"
  BY <1>3, RefusedType
<1>5. /\ chan' \in [Conns -> Channel]
      /\ \A k \in Conns : chan'[k].port = chan[k].port
      /\ \A k \in Conns : k \in S => chan'[k].end["s"] # "open"
      /\ \A k \in Conns : k \notin S /\ (survivors \/ k \notin W) =>
           chan'[k] = chan[k]
      /\ \A k \in Conns : k \in W /\ ~ survivors => chan'[k].end["s"] # "open"
  <2>1. CASE survivors
    <3>1. chan' = closed
      BY <1>1, <2>1 DEF closed
    <3> QED
      BY <1>3, <2>1, <3>1
  <2>2. CASE ~ survivors
    <3>1. chan' = [k \in Conns |-> IF k \in W THEN Refused(closed[k]) ELSE closed[k]]
      BY <1>1, <2>2 DEF closed
    <3> HIDE DEF W, S, survivors
    <3> QED
      BY <1>3, <1>4, <2>2, <3>1
  <2> QED
    BY <2>1, <2>2
<1>6. /\ survivors => backlog' = backlog /\ listening' = listening
      /\ ~ survivors => backlog' = [q \in Ports |-> <<>>] /\ listening' = FALSE
  BY <1>1
<1>7. /\ \A r \in Procs : fds'[r] = IF r = p THEN {} ELSE fds[r]
      /\ \A r \in Procs : r # p => proc'[r] = proc[r]
      /\ proc'[p].pc = "dead" /\ proc'[p].clntDtpSock = proc[p].clntDtpSock
      /\ proc' \in [Procs -> Process]
  BY <1>2 DEF SInv, ServerType, Process, ServerPc
<1>8. \A r \in Procs : fds[r] \subseteq Conns /\ fds'[r] \subseteq fds[r]
  BY <1>7 DEF SInv, ServerType
<1>9. ~ survivors => \A r \in Procs : fds'[r] = {}
  BY <1>7 DEF SInv, Held
<1>10. \A r \in Procs : \A k \in fds'[r] : k \notin S
  BY <1>7 DEF OnlyHeldBy
<1>11. /\ \A q \in Ports : \A i \in 1..Len(backlog[q]) : backlog[q][i] \in Conns
       /\ survivors => \A q : Waiting(q)' = Waiting(q)
  BY <1>6 DEF SInv, SocketsType, Waiting
<1>12. SocketsType' /\ ServerType'
  <2>1. \A q \in Ports : <<>> \in Seq(Conns)
    OBVIOUS
  <2>2. fds' \in [Procs -> SUBSET Conns]
    BY <1>2, <1>8 DEF SInv, ServerType
  <2>3. backlog' \in [Ports -> Seq(Conns)] /\ listening' \in BOOLEAN
    BY <1>6, <2>1 DEF SInv, SocketsType
  <2> QED
    BY <1>5, <1>7, <2>2, <2>3 DEF SInv, SocketsType, ServerType
<1>13. Held'
  <2>1. \A r \in Procs : \A k \in fds'[r] :
          chan'[k].end["s"] = "open" /\ chan'[k].port # "none"
    <3> SUFFICES ASSUME NEW r \in Procs, NEW k \in fds'[r]
                 PROVE  chan'[k].end["s"] = "open" /\ chan'[k].port # "none"
      OBVIOUS
    <3>1. survivors /\ k \in fds[r] /\ k \in Conns /\ k \notin S
      BY <1>8, <1>9, <1>10
    <3> QED
      BY <1>5, <3>1 DEF SInv, Held
  <2>2. \A k \in Conns : chan'[k].port # "none" /\ chan'[k].end["s"] = "open" =>
          k \in Waiting(chan[k].port)' \/ \E r \in Procs : k \in fds'[r]
    <3> SUFFICES ASSUME NEW k \in Conns, chan'[k].port # "none",
                        chan'[k].end["s"] = "open", k \notin Waiting(chan[k].port)'
                 PROVE  \E r \in Procs : k \in fds'[r]
      OBVIOUS
    <3>1. k \notin S /\ (survivors \/ k \notin W)
      BY <1>5
    <3>2. chan'[k] = chan[k] /\ chan[k].port \in Ports
      BY <1>5, <3>1 DEF SInv, SocketsType, Channel
    <3>3. k \notin Waiting(chan[k].port)
      BY <1>11, <3>1, <3>2 DEF Ports
    <3>4. PICK r \in Procs : k \in fds[r]
      BY <3>2, <3>3 DEF SInv, Held
    <3>5. CASE r = p
      BY <1>7, <3>1, <3>4, <3>5 DEF OnlyHeldBy
    <3> QED
      BY <1>7, <3>4, <3>5
  <2>3. \A q \in Ports : \A i \in 1..Len(backlog'[q]) : LET k == backlog'[q][i] IN
          /\ chan'[k].port = q /\ chan'[k].end["s"] = "open"
          /\ \A r \in Procs : k \notin fds'[r]
          /\ \A j \in 1..Len(backlog'[q]) : backlog'[q][j] = k => j = i
    <3>1. CASE survivors
      <4>1. backlog' = backlog
        BY <1>6, <3>1
      <4>2. \A q \in Ports : \A i \in 1..Len(backlog[q]) : backlog[q][i] \notin S
        BY DEF SInv, Held, OnlyHeldBy
      <4> QED
        BY <1>5, <1>8, <1>11, <3>1, <4>1, <4>2 DEF SInv, Held
    <3>2. CASE ~ survivors
      <4>1. \A q \in Ports : backlog'[q] = <<>> /\ Len(backlog'[q]) = 0
        BY <1>6, <3>2
      <4> QED
        BY <4>1
    <3> QED
      BY <3>1, <3>2
  <2>4. \A k \in Conns : chan'[k].port = "none" => chan'[k].end["s"] = "open"
    <3> SUFFICES ASSUME NEW k \in Conns, chan'[k].port = "none"
                 PROVE  chan'[k].end["s"] = "open"
      OBVIOUS
    <3>1. chan[k].port = "none"
      BY <1>5
    <3>2. k \notin S
      BY <3>1 DEF SInv, Held, OnlyHeldBy
    <3>3. k \notin W
      BY <3>1 DEF SInv, Held, Waiting, Ports
    <3> QED
      BY <1>5, <3>1, <3>2, <3>3 DEF SInv, Held
  <2>5. \A r \in Procs : ~ Alive(r)' => fds'[r] = {}
    BY <1>7 DEF SInv, Held, Alive
  <2> QED
    BY <2>1, <2>2, <2>3, <2>4, <2>5 DEF Held
<1>14. Apart'
  <2>1. \A r \in Procs : Serving(r)' => r # p /\ Serving(r)
    BY <1>7 DEF Serving, InSession, Commands
  <2>2. \A r \in Procs : proc'[r].clntDtpSock = proc[r].clntDtpSock
    BY <1>7
  <2>3. ControlApart'
    BY <1>7, <2>1 DEF SInv, Apart, ControlApart
  <2>4. \A r \in Procs : Serving(r)' => chan'[proc'[r].clntSock].port = "pi"
    BY <1>5, <1>7, <2>1, SockInConns DEF SInv, Apart
  <2>5. \A r \in Procs : proc'[r].clntDtpSock \in Conns =>
          chan'[proc'[r].clntDtpSock].port = "dtp"
    BY <1>5, <2>2 DEF SInv, Apart
  <2> QED
    BY <2>3, <2>4, <2>5 DEF Apart
<1> QED
  BY <1>12, <1>13, <1>14 DEF SInv

(* A step of the server keeps the invariant.                                *)
LEMMA ServeKeeps ==
    ASSUME IInv, NEW p \in Procs, Serve(p)
    PROVE  IInv'
<1>1. SInv /\ ClientType /\ Joined
  BY DEF IInv, SInv, TypeOK
<1>2. SInv'
  BY <1>1, ServerKinds, QuietKeeps, AcceptsKeeps, ForksKeeps, ClosesKeeps,
     DieKeeps DEF Serve
<1>3. ClientType' /\ Joined'
  BY <1>1 DEF Serve, ClientType, Joined
<1> QED
  BY <1>2, <1>3 DEF IInv, SInv, TypeOK

-----------------------------------------------------------------------------
(* The clients: a step is steady, or it makes one connection.               *)
ClientInv == ClientType /\ Joined

CQuiet == ClientInv' /\ Steady /\ UNCHANGED <<backlog, listening>>

Connects ==
    /\ ClientInv'
    /\ \E k \in Conns, q \in Ports :
         /\ listening /\ chan[k].port = "none"
         /\ chan' = [chan EXCEPT ![k].port = q]
         /\ backlog' = [backlog EXCEPT ![q] = Append(@, k)]
         /\ UNCHANGED listening

(* A client goes to another point of a handler, or out of it.               *)
LEMMA CGotoType ==
    ASSUME ClientInv, NEW c \in Clients, NEW pc \in ClientPc, CGoto(c, pc),
           cl[c].sock \in Conns \/ pc \in {"prompt", "exit", "dead"}
    PROVE  ClientInv'
BY DEF ClientInv, ClientType, CGoto, Client, Joined

(* A client counts one more unit of a transfer.                             *)
LEMMA CountType ==
    ASSUME ClientInv, NEW c \in Clients,
           cl' = [cl EXCEPT ![c].totalBytes = @ + 1]
    PROVE  ClientInv'
<1>1. cl[c].totalBytes + 1 \in Nat
  BY DEF ClientInv, ClientType, Client
<1> QED
  BY <1>1 DEF ClientInv, ClientType, Client, Joined

(* A client has uploaded its file.                                          *)
LEMMA UploadedType ==
    ASSUME ClientInv, NEW c \in Clients, CAt(c, "upload"), NEW n \in Nat,
           cl' = [cl EXCEPT ![c].pc = "SIZE", ![c].totalBytes = n]
    PROVE  ClientInv'
<1> DEFINE r == [cl[c] EXCEPT !.pc = "SIZE", !.totalBytes = n]
<1>1. cl' = [cl EXCEPT ![c] = r]
  BY DEF ClientInv, ClientType
<1>2. "SIZE" \in ClientPc
  BY DEF ClientPc
<1>3. r \in Client /\ r.sock = cl[c].sock
  BY <1>2 DEF ClientInv, ClientType, Client
<1>4. cl[c].sock \in Conns
  BY DEF ClientInv, Joined, CAt
<1> HIDE DEF r
<1> QED
  BY <1>1, <1>3, <1>4 DEF ClientInv, ClientType, Joined

(* A handler returns.                                                       *)
LEMMA PromptType ==
    ASSUME ClientInv, NEW c \in Clients, Prompt(c)
    PROVE  ClientInv'
<1> DEFINE r == [cl[c] EXCEPT !.pc = "prompt", !.then = "prompt", !.arg = 0,
                              !.fileSize = 0, !.totalBytes = 0]
<1>1. cl' = [cl EXCEPT ![c] = r]
  BY DEF ClientInv, ClientType, Prompt
<1>2. "prompt" \in ClientPc /\ 0 \in Int /\ 0 \in Nat
  BY DEF ClientPc
<1>3. r \in Client
  BY <1>2 DEF ClientInv, ClientType, Client
<1>4. r.pc = "prompt"
  BY DEF ClientInv, ClientType, Client
<1> HIDE DEF r
<1> QED
  BY <1>1, <1>3, <1>4 DEF ClientInv, ClientType, Joined

(* A client that stops closes its own ends only.                            *)
LEMMA StopQuiet ==
    ASSUME TypeOK, Joined, NEW c \in Clients, NEW pc \in {"exit", "dead"},
           Stop(c, pc)
    PROVE  CQuiet
<1>1. Steady
  BY CloseAllSteady DEF Stop, TypeOK, SocketsType
<1> QED
  BY <1>1, CGotoType DEF CQuiet, Stop, TypeOK, ClientInv, ClientPc

(* A send of a client,                                                      *)
LEMMA CSendQuiet ==
    ASSUME TypeOK, Joined, NEW c \in Clients, NEW k, NEW ms \in Seq(Msg),
           NEW pc \in ClientPc, cl[c].sock \in Conns,
           CSend(c, k, ms, pc)
    PROVE  CQuiet
<1>1. CASE SendOn(k, "c", ms) /\ CGoto(c, pc) /\ UNCHANGED <<backlog, listening>>
  <2>1. Steady
    BY <1>1, SendSteady DEF TypeOK, SocketsType, Sides
  <2> QED
    BY <1>1, <2>1, CGotoType DEF CQuiet, TypeOK, ClientInv
<1>2. CASE Stop(c, "dead")
  BY <1>2, StopQuiet DEF ClientPc
<1> QED
  BY <1>1, <1>2 DEF CSend

(* a receive,                                                               *)
LEMMA CRecvQuiet ==
    ASSUME TypeOK, Joined, NEW c \in Clients, NEW k, NEW pc \in ClientPc,
           cl[c].sock \in Conns, CRecv(c, k, pc)
    PROVE  CQuiet
<1>1. CASE \E j \in 1..Len(chan[k].in["c"]) : RecvOn(k, "c", j)
  <2>1. Steady
    BY <1>1, RecvSteady DEF TypeOK, SocketsType, Sides
  <2>2. CASE CGoto(c, pc) /\ UNCHANGED <<backlog, listening>>
    BY <2>1, <2>2, CGotoType DEF CQuiet, TypeOK, ClientInv
  <2>3. CASE CGoto(c, pc) /\ UNCHANGED sockets
    BY <2>1, <2>3, CGotoType DEF CQuiet, TypeOK, ClientInv, sockets
  <2>4. CASE Stop(c, "dead")
    BY <2>4, StopQuiet DEF ClientPc
  <2> QED
    BY <2>2, <2>3, <2>4 DEF CRecv
<1>2. CASE CGoto(c, pc) /\ UNCHANGED sockets
  <2>1. Steady
    BY <1>2, SameSteady DEF TypeOK, SocketsType, sockets
  <2> QED
    BY <1>2, <2>1, CGotoType DEF CQuiet, TypeOK, ClientInv, sockets
<1>3. CASE Stop(c, "dead")
  BY <1>3, StopQuiet DEF ClientPc
<1> QED
  BY <1>1, <1>2, <1>3 DEF CRecv

(* the last receive of a handler,                                           *)
LEMMA LastRecvQuiet ==
    ASSUME TypeOK, Joined, NEW c \in Clients, NEW k, NEW h \in [Conns -> Channel],
           \A l \in Conns : SameSide(h[l], chan[l]), LastRecv(c, k, h)
    PROVE  CQuiet
<1>1. CASE /\ \E j \in 1..Len(chan[k].in["c"]) :
                chan' = [h EXCEPT ![k] = Taken(@, "c", j)]
           /\ Prompt(c) /\ UNCHANGED <<backlog, listening>>
  <2>1. PICK j \in 1..Len(chan[k].in["c"]) :
                chan' = [h EXCEPT ![k] = Taken(@, "c", j)]
    BY <1>1
  <2>2. k \in Conns => /\ Taken(h[k], "c", j) \in Channel
                       /\ SameSide(Taken(h[k], "c", j), h[k])
    <3> SUFFICES ASSUME k \in Conns
                 PROVE  /\ Taken(h[k], "c", j) \in Channel
                        /\ SameSide(Taken(h[k], "c", j), h[k])
      OBVIOUS
    <3>1. chan[k].in["c"] \in Seq(Msg)
      BY DEF TypeOK, SocketsType, Channel, Sides
    <3>2. j \in Nat
      BY <3>1
    <3> QED
      BY <3>2, TakenType DEF SameSide, Sides
  <2>3. Steady
    <3>1. chan' \in [Conns -> Channel]
      BY <2>1, <2>2
    <3>2. \A l \in Conns : chan'[l] = h[l] \/ SameSide(chan'[l], h[l])
      BY <2>1, <2>2
    <3> QED
      BY <3>1, <3>2 DEF Steady, SameSide
  <2> QED
    BY <1>1, <2>3, PromptType DEF CQuiet, TypeOK, ClientInv
<1>2. CASE chan' = h /\ Prompt(c) /\ UNCHANGED <<backlog, listening>>
  BY <1>2, PromptType DEF CQuiet, TypeOK, ClientInv, Steady
<1>3. CASE Stop(c, "dead")
  BY <1>3, StopQuiet DEF ClientPc
<1> QED
  BY <1>1, <1>2, <1>3 DEF LastRecv

(* and the start of a command.                                              *)
LEMMA StartsQuiet ==
    ASSUME TypeOK, Joined, NEW c \in Clients, NEW what, NEW pc \in ClientPc,
           NEW next \in {"prompt", "LIST", "RETR", "STOR"}, NEW n \in Int,
           Starts(c, what, pc, next, n)
    PROVE  CQuiet
<1>1. CASE /\ cl[c].sock # NoConn
           /\ cl' = [cl EXCEPT ![c].pc = pc, ![c].then = next, ![c].arg = n,
                               ![c].left = @ - 1]
           /\ UNCHANGED sockets
  <2> DEFINE m == cl[c].left - 1
             r == [cl[c] EXCEPT !.pc = pc, !.then = next, !.arg = n, !.left = m]
  <2>1. m \in Nat
    BY DEF Starts, Types, TypeOK, ClientType, Client
  <2>2. cl' = [cl EXCEPT ![c] = r]
    BY <1>1 DEF TypeOK, ClientType
  <2> HIDE DEF m
  <2>3. r \in Client /\ r.sock = cl[c].sock
    BY <2>1 DEF TypeOK, ClientType, Client
  <2>6. r.sock \in Conns
    BY <1>1, <2>3 DEF TypeOK, ClientType, Client
  <2> HIDE DEF r
  <2>4. ClientInv'
    BY <2>2, <2>3, <2>6 DEF TypeOK, ClientType, ClientInv, Joined
  <2>5. Steady
    BY <1>1, SameSteady DEF TypeOK, SocketsType, sockets
  <2> QED
    BY <1>1, <2>4, <2>5 DEF CQuiet, sockets
<1>2. CASE Stop(c, "dead")
  BY <1>2, StopQuiet DEF ClientPc
<1> QED
  BY <1>1, <1>2 DEF Starts

(* A connect makes one connection, or is the end of the client.             *)
LEMMA ConnectKinds ==
    ASSUME TypeOK, Joined, NEW c \in Clients, NEW q \in Ports, NEW next,
           NewConn(c) \in Conns => next \in Client /\ next.sock \in Conns,
           Connect(c, q, next)
    PROVE  CQuiet \/ Connects
<1>1. CASE /\ listening
           /\ NewConn(c) \in Conns /\ chan[NewConn(c)].port = "none"
           /\ chan' = [chan EXCEPT ![NewConn(c)].port = q]
           /\ backlog' = [backlog EXCEPT ![q] = Append(@, NewConn(c))]
           /\ cl' = [cl EXCEPT ![c] = next]
           /\ UNCHANGED listening
  <2>1. ClientInv'
    BY <1>1 DEF TypeOK, ClientType, ClientInv, Joined
  <2> QED
    BY <1>1, <2>1 DEF Connects
<1>2. CASE Stop(c, "dead")
  BY <1>2, StopQuiet DEF ClientPc
<1> QED
  BY <1>1, <1>2 DEF Connect

(* The steps of open,                                                       *)
LEMMA OpenKinds ==
    ASSUME TypeOK, Joined, NEW c \in Clients, openCon(c)
    PROVE  CQuiet \/ Connects
<1> DEFINE k == cl[c].sock
<1>j. \A pc : CAt(c, pc) /\ pc \notin {"prompt", "exit", "dead"} =>
        cl[c].sock \in Conns
  BY DEF CAt, Joined
<1>a. {"hello", "hi", "User", "userR", "SYSY", "sysyR"} \subseteq ClientPc
  BY DEF ClientPc
<1>b. \A t \in {"hello", "User", "SYSY"} : <<Word(t)>> \in Seq(Msg)
  BY WordIsMsg DEF Texts, Commands
<1>1. CASE Types(c, "open") /\ Connect(c, "pi", [cl[c] EXCEPT
               !.pc = "hello", !.sock = NewConn(c), !.left = @ - 1])
  <2> DEFINE m == cl[c].left - 1
             next == [cl[c] EXCEPT !.pc = "hello", !.sock = NewConn(c), !.left = m]
  <2>1. m \in Nat
    BY <1>1 DEF Types, TypeOK, ClientType, Client
  <2> HIDE DEF m
  <2>2. NewConn(c) \in Conns => next \in Client /\ next.sock \in Conns
    BY <1>a, <2>1 DEF TypeOK, ClientType, Client
  <2>3. Connect(c, "pi", next)
    BY <1>1 DEF m
  <2> HIDE DEF next
  <2> QED
    BY <2>2, <2>3, ConnectKinds DEF Ports
<1>2. CASE CAt(c, "hello") /\ CSend(c, k, <<Word("hello")>>, "hi")
  BY <1>2, <1>a, <1>b, <1>j, CSendQuiet
<1>3. CASE CAt(c, "hi") /\ CRecv(c, k, "User")
  BY <1>3, <1>a, <1>j, CRecvQuiet
<1>4. CASE CAt(c, "User") /\ CSend(c, k, <<Word("User")>>, "userR")
  BY <1>4, <1>a, <1>b, <1>j, CSendQuiet
<1>5. CASE CAt(c, "userR") /\ CRecv(c, k, "SYSY")
  BY <1>5, <1>a, <1>j, CRecvQuiet
<1>6. CASE CAt(c, "SYSY") /\ CSend(c, k, <<Word("SYSY")>>, "sysyR")
  BY <1>6, <1>a, <1>b, <1>j, CSendQuiet
<1>7. CASE LastRecv(c, k, chan)
  BY <1>7, LastRecvQuiet DEF TypeOK, SocketsType, SameSide
<1> QED
  BY <1>1, <1>2, <1>3, <1>4, <1>5, <1>6, <1>7 DEF openCon

(* of the data connection,                                                  *)
LEMMA PassiveKinds ==
    ASSUME TypeOK, Joined, NEW c \in Clients, passiveMode(c)
    PROVE  CQuiet \/ Connects
<1> DEFINE k == cl[c].sock
           d == cl[c].dtpSock
<1>j. \A pc : CAt(c, pc) /\ pc \notin {"prompt", "exit", "dead"} =>
        cl[c].sock \in Conns
  BY DEF CAt, Joined
<1>a. {"addr", "connect", "dtphello", "dtphi", "dead"} \subseteq ClientPc
  BY DEF ClientPc
<1>b. \A t \in {"hello", "PASV"} : <<Word(t)>> \in Seq(Msg)
  BY WordIsMsg DEF Texts, Commands
<1>c. cl[c].then \in ClientPc
  BY DEF TypeOK, ClientType, Client, ClientPc
<1>1. CASE CAt(c, "PASV") /\ CSend(c, k, <<Word("PASV")>>, "addr")
  BY <1>1, <1>a, <1>b, <1>j, CSendQuiet
<1>2. CASE CAt(c, "addr") /\ CRecv(c, k, "connect")
  BY <1>2, <1>a, <1>j, CRecvQuiet
<1>3. CASE Stop(c, "dead")
  BY <1>3, <1>a, StopQuiet
<1>4. CASE CAt(c, "connect") /\ Connect(c, "dtp", [cl[c] EXCEPT
               !.pc = "dtphello", !.dtpSock = NewConn(c)])
  <2> DEFINE next == [cl[c] EXCEPT !.pc = "dtphello", !.dtpSock = NewConn(c)]
  <2>1. NewConn(c) \in Conns => next \in Client /\ next.sock \in Conns
    BY <1>a, <1>j, <1>4 DEF TypeOK, ClientType, Client
  <2> HIDE DEF next
  <2>2. Connect(c, "dtp", next)
    BY <1>4 DEF next
  <2> QED
    BY <2>1, <2>2, ConnectKinds DEF Ports
<1>5. CASE CAt(c, "dtphello") /\ CSend(c, d, <<Word("hello")>>, "dtphi")
  BY <1>5, <1>a, <1>b, <1>j, CSendQuiet
<1>6. CASE CAt(c, "dtphi") /\ CRecv(c, d, cl[c].then)
  BY <1>6, <1>c, <1>j, CRecvQuiet
<1> QED
  BY <1>1, <1>2, <1>3, <1>4, <1>5, <1>6 DEF passiveMode

(* Closing the client's end of its data connection before the last receive. *)
LEMMA ClosingSide ==
    ASSUME TypeOK, Joined, NEW d, NEW how \in Hows
    PROVE  /\ Closing(d, how) \in [Conns -> Channel]
           /\ \A l \in Conns : SameSide(Closing(d, how)[l], chan[l])
<1>1. d \in Conns => /\ Closed(chan[d], "c", how) \in Channel
                     /\ SameSide(Closed(chan[d], "c", how), chan[d])
  BY ClosedType DEF TypeOK, SocketsType, Sides, SameSide
<1> QED
  BY <1>1 DEF TypeOK, SocketsType, Closing, SameSide

(* The steps of rls,                                                        *)
LEMMA RlistQuiet ==
    ASSUME TypeOK, Joined, NEW c \in Clients, rlist(c)
    PROVE  CQuiet
<1> DEFINE k == cl[c].sock
           d == cl[c].dtpSock
           on == IF AtEnd(chan[d], "c") THEN "listdone" ELSE "listdata"
<1>j. \A pc : CAt(c, pc) /\ pc \notin {"prompt", "exit", "dead"} =>
        cl[c].sock \in Conns
  BY DEF CAt, Joined
<1>a. {"PASV", "LIST", "list150", "listdata", "listdone"} \subseteq ClientPc
  BY DEF ClientPc
<1>b. <<Word("LIST")>> \in Seq(Msg)
  BY WordIsMsg DEF Texts, Commands
<1>c. on \in ClientPc
  BY <1>a
<1>1. CASE Starts(c, "rls", "PASV", "LIST", 0)
  BY <1>1, <1>a, StartsQuiet
<1>2. CASE CAt(c, "LIST") /\ CSend(c, k, <<Word("LIST")>>, "list150")
  BY <1>2, <1>a, <1>b, <1>j, CSendQuiet
<1>3. CASE CAt(c, "list150") /\ CRecv(c, k, "listdata")
  BY <1>3, <1>a, <1>j, CRecvQuiet
<1>4. CASE CAt(c, "listdata") /\ CRecv(c, d, on)
  <2> HIDE DEF on
  <2> QED
    BY <1>4, <1>c, <1>j, CRecvQuiet
<1>5. CASE \E how \in Hows : LastRecv(c, k, Closing(d, how))
  BY <1>5, LastRecvQuiet, ClosingSide
<1> QED
  BY <1>1, <1>2, <1>3, <1>4, <1>5 DEF rlist

(* of get,                                                                  *)
LEMMA GetQuiet ==
    ASSUME TypeOK, Joined, NEW c \in Clients, get(c)
    PROVE  CQuiet
<1> DEFINE k == cl[c].sock
           d == cl[c].dtpSock
           u == chan[k].in["c"]
<1>j. \A pc : CAt(c, pc) /\ pc \notin {"prompt", "exit", "dead"} =>
        cl[c].sock \in Conns
  BY DEF CAt, Joined
<1>a. {"PASV", "RETR", "retrsize", "download", "retrdone", "dead"} \subseteq ClientPc
  BY DEF ClientPc
<1>b. \A n \in Files : n \in Int
  BY ProtocolAssumption DEF Files
<1>c. <<With("RETR", cl[c].arg)>> \in Seq(Msg)
  BY WithIsMsg DEF Texts, Commands, TypeOK, ClientType, Client
<1>d. chan \in [Conns -> Channel] /\ "c" \in Sides /\ ClientInv
  BY DEF TypeOK, SocketsType, Sides, ClientInv
<1>1. CASE \E n \in Files : Starts(c, "get", "PASV", "RETR", n)
  BY <1>1, <1>a, <1>b, StartsQuiet
<1>2. CASE CAt(c, "RETR") /\ CSend(c, k, <<With("RETR", cl[c].arg)>>, "retrsize")
  BY <1>2, <1>a, <1>c, <1>j, CSendQuiet
<1>3. CASE /\ CAt(c, "retrsize") /\ u # <<>> /\ Head(u).t = "size"
           /\ \E j \in 1..Len(u) : RecvOn(k, "c", j)
           /\ cl' = [cl EXCEPT ![c].pc = "download", ![c].fileSize = Head(u).n]
           /\ UNCHANGED <<backlog, listening>>
  <2>1. k \in Conns
    BY <1>3, <1>j
  <2>2. u \in Seq(Msg) /\ u # <<>>
    BY <1>3, <1>d, <2>1 DEF Channel
  <2>3. Head(u) \in Msg
    BY <2>2
  <2>4. Head(u).n \in Int
    BY <1>3, <2>3 DEF Msg
  <2> DEFINE z == Head(u).n
             r == [cl[c] EXCEPT !.pc = "download", !.fileSize = z]
  <2>5. cl' = [cl EXCEPT ![c] = r]
    BY <1>3, <1>d DEF ClientInv, ClientType
  <2> HIDE DEF z
  <2>6. r \in Client /\ r.sock = k
    BY <1>a, <1>d, <2>4 DEF ClientInv, ClientType, Client, z
  <2> HIDE DEF r
  <2>7. ClientInv'
    BY <1>d, <2>1, <2>5, <2>6 DEF ClientInv, ClientType, Joined
  <2>8. Steady
    BY <1>3, <1>d, RecvSteady
  <2> QED
    BY <1>3, <2>7, <2>8 DEF CQuiet
<1>4. CASE Stop(c, "dead")
  BY <1>4, <1>a, StopQuiet
<1>5. CASE /\ RecvOn(d, "c", 1)
           /\ cl' = [cl EXCEPT ![c].totalBytes = @ + 1]
           /\ UNCHANGED <<backlog, listening>>
  BY <1>5, <1>d, RecvSteady, CountType DEF CQuiet
<1>6. CASE CAt(c, "download") /\ CGoto(c, "retrdone") /\ UNCHANGED sockets
  BY <1>6, <1>a, <1>d, <1>j, SameSteady, CGotoType DEF CQuiet, sockets
<1>7. CASE \E how \in Hows : LastRecv(c, k, Closing(d, how))
  BY <1>7, LastRecvQuiet, ClosingSide
<1> QED
  BY <1>1, <1>2, <1>3, <1>4, <1>5, <1>6, <1>7 DEF get

(* of put,                                                                  *)
LEMMA PutQuiet ==
    ASSUME TypeOK, Joined, NEW c \in Clients, put(c)
    PROVE  CQuiet
<1> DEFINE k == cl[c].sock
           d == cl[c].dtpSock
<1>j. \A pc : CAt(c, pc) /\ pc \notin {"prompt", "exit", "dead"} =>
        cl[c].sock \in Conns
  BY DEF CAt, Joined
<1>a. {"PASV", "STOR", "storok", "upload", "SIZE", "stordone"} \subseteq ClientPc
  BY DEF ClientPc
<1>b. \A n \in Files : n \in Int
  BY ProtocolAssumption DEF Files
<1>c. /\ <<With("STOR", cl[c].arg)>> \in Seq(Msg)
      /\ <<With("SIZE", cl[c].totalBytes)>> \in Seq(Msg)
      /\ <<Word("data")>> \in Seq(Msg)
  BY WithIsMsg, WordIsMsg DEF Texts, Commands, TypeOK, ClientType, Client
<1>d. chan \in [Conns -> Channel] /\ "c" \in Sides /\ ClientInv
  BY DEF TypeOK, SocketsType, Sides, ClientInv
<1>1. CASE \E n \in Files : Starts(c, "put", "PASV", "STOR", n)
  BY <1>1, <1>a, <1>b, StartsQuiet
<1>2. CASE CAt(c, "STOR") /\ CSend(c, k, <<With("STOR", cl[c].arg)>>, "storok")
  BY <1>2, <1>a, <1>c, <1>j, CSendQuiet
<1>3. CASE CAt(c, "storok") /\ CRecv(c, k, "upload")
  BY <1>3, <1>a, <1>j, CRecvQuiet
<1>4. CASE /\ SendOn(d, "c", <<Word("data")>>)
           /\ cl' = [cl EXCEPT ![c].totalBytes = @ + 1]
           /\ UNCHANGED <<backlog, listening>>
  BY <1>4, <1>c, <1>d, SendSteady, CountType DEF CQuiet
<1>5. CASE /\ CAt(c, "upload")
           /\ \E n \in Uploaded(chan[d], "c", cl[c].totalBytes, cl[c].arg) :
                cl' = [cl EXCEPT ![c].pc = "SIZE", ![c].totalBytes = n]
           /\ UNCHANGED sockets
  <2>1. cl[c].totalBytes \in Nat
    BY DEF TypeOK, ClientType, Client
  <2>2. ClientInv'
    BY <1>5, <1>d, <2>1, UploadedIsNat, UploadedType
  <2>3. Steady
    BY <1>5, <1>d, SameSteady DEF sockets
  <2> QED
    BY <1>5, <2>2, <2>3 DEF CQuiet, sockets
<1>6. CASE Stop(c, "dead")
  BY <1>6, StopQuiet
<1>7. CASE /\ CAt(c, "SIZE")
           /\ \E how \in Hows : chan' =
                [Closing(d, how) EXCEPT ![k] =
                   Sent(@, "c", <<With("SIZE", cl[c].totalBytes)>>)]
           /\ CGoto(c, "stordone")
           /\ UNCHANGED <<backlog, listening>>
  <2>1. PICK how \in Hows : chan' =
                [Closing(d, how) EXCEPT ![k] =
                   Sent(@, "c", <<With("SIZE", cl[c].totalBytes)>>)]
    BY <1>7
  <2> DEFINE h == Closing(d, how)
             v == Sent(h[k], "c", <<With("SIZE", cl[c].totalBytes)>>)
  <2>2. h \in [Conns -> Channel] /\ \A l \in Conns : SameSide(h[l], chan[l])
    BY ClosingSide
  <2>3. k \in Conns /\ chan' = [h EXCEPT ![k] = v]
    BY <1>7, <1>j, <2>1
  <2> HIDE DEF h
  <2>4. v \in Channel /\ SameSide(v, h[k])
    BY <1>c, <1>d, <2>2, <2>3, SentType DEF SameSide
  <2> HIDE DEF v
  <2>5. Steady
    BY <2>2, <2>3, <2>4 DEF Steady, SameSide
  <2>6. ClientInv'
    BY <1>7, <1>a, <1>d, <2>3, CGotoType
  <2> QED
    BY <1>7, <2>5, <2>6 DEF CQuiet
<1>8. CASE LastRecv(c, k, chan)
  BY <1>8, LastRecvQuiet DEF TypeOK, SocketsType, SameSide
<1> QED
  BY <1>1, <1>2, <1>3, <1>4, <1>5, <1>6, <1>7, <1>8 DEF put

(* of rcd, echo and quit,                                                   *)
LEMMA TalkQuiet ==
    ASSUME TypeOK, Joined, NEW c \in Clients, rcd(c) \/ echo(c) \/ quit(c)
    PROVE  CQuiet
<1> DEFINE k == cl[c].sock
<1>j. \A pc : CAt(c, pc) /\ pc \notin {"prompt", "exit", "dead"} =>
        cl[c].sock \in Conns
  BY DEF CAt, Joined
<1>a. {"CWD", "cwdR", "ECHO", "ok", "text", "textR", "QUIT", "quitR"} \subseteq ClientPc
  BY DEF ClientPc
<1>b. \A t \in {"ECHO", "QUIT"} : <<Word(t)>> \in Seq(Msg)
  BY WordIsMsg DEF Texts, Commands
<1>c. Text(cl[c].arg = 1) \in Seq(Msg)
  <2>1. Word("text") \in Msg /\ Word("rest") \in Msg
    BY WordIsMsg DEF Texts, Commands
  <2> QED
    BY <2>1 DEF Text
<1>l. CASE LastRecv(c, k, chan)
  BY <1>l, LastRecvQuiet DEF TypeOK, SocketsType, SameSide
<1>1. CASE rcd(c)
  <2>1. CASE Starts(c, "rcd", "CWD", "prompt", 0)
    BY <2>1, <1>a, StartsQuiet
  <2>2. CASE \E dir \in Dirs :
               CAt(c, "CWD") /\ CSend(c, k, <<With("CWD", dir)>>, "cwdR")
    <3>1. PICK dir \in Dirs : CSend(c, k, <<With("CWD", dir)>>, "cwdR")
      BY <2>2
    <3>2. <<With("CWD", dir)>> \in Seq(Msg)
      BY CwdIsMsg
    <3>3. cl[c].sock \in Conns /\ "cwdR" \in ClientPc
      BY <2>2, <1>a, <1>j
    <3> DEFINE ms == <<With("CWD", dir)>>
    <3> HIDE DEF ms
    <3>4. ms \in Seq(Msg) /\ CSend(c, k, ms, "cwdR")
      BY <3>1, <3>2 DEF ms
    <3> QED
      BY <3>3, <3>4, CSendQuiet
  <2> QED
    BY <1>1, <1>l, <2>1, <2>2 DEF rcd
<1>2. CASE echo(c)
  <2>6. \A what, n : n \in Int /\ Starts(c, what, "ECHO", "prompt", n) => CQuiet
    <3>1. "ECHO" \in ClientPc /\ "prompt" \in {"prompt", "LIST", "RETR", "STOR"}
      BY <1>a
    <3> QED
      BY <3>1, StartsQuiet
  <2>1. CASE \E what, n : n \in Int /\ Starts(c, what, "ECHO", "prompt", n)
    BY <2>1, <2>6
  <2>5. 0 \in Int /\ 1 \in Int
    OBVIOUS
  <2>2. CASE CAt(c, "ECHO") /\ CSend(c, k, <<Word("ECHO")>>, "ok")
    BY <2>2, <1>a, <1>b, <1>j, CSendQuiet
  <2>3. CASE CAt(c, "ok") /\ CRecv(c, k, "text")
    BY <2>3, <1>a, <1>j, CRecvQuiet
  <2>4. CASE CAt(c, "text") /\ CSend(c, k, Text(cl[c].arg = 1), "textR")
    BY <2>4, <1>a, <1>c, <1>j, CSendQuiet
  <2> QED
    BY <1>2, <1>l, <2>1, <2>2, <2>3, <2>4, <2>5 DEF echo
<1>3. CASE quit(c)
  <2>1. CASE k # NoConn /\ CGoto(c, "QUIT") /\ UNCHANGED sockets
    <3>1. k \in Conns
      BY <2>1 DEF TypeOK, ClientType, Client
    <3>2. Steady
      BY <2>1, SameSteady DEF TypeOK, SocketsType, sockets
    <3> QED
      BY <2>1, <3>1, <3>2, <1>a, CGotoType DEF CQuiet, sockets, TypeOK, ClientInv
  <2>2. CASE CAt(c, "QUIT") /\ CSend(c, k, <<Word("QUIT")>>, "quitR")
    BY <2>2, <1>a, <1>b, <1>j, CSendQuiet
  <2>3. CASE Stop(c, "exit") \/ Stop(c, "dead")
    BY <2>3, StopQuiet
  <2> QED
    BY <1>3, <2>1, <2>2, <2>3 DEF quit
<1> QED
  BY <1>1, <1>2, <1>3

(* and of the commands that stay in the client.                             *)
LEMMA LocalQuiet ==
    ASSUME TypeOK, Joined, NEW c \in Clients, Local(c)
    PROVE  CQuiet
<1>1. Steady /\ UNCHANGED <<backlog, listening>>
  BY SameSteady DEF Local, TypeOK, SocketsType, sockets
<1>2. ClientInv'
  <2>1. cl \in [Clients -> Client] /\ CAt(c, "prompt")
    BY DEF TypeOK, ClientType, Local, Types
  <2>2. PICK r \in Client : r.pc = "prompt" /\ cl' = [cl EXCEPT ![c] = r]
    <3> DEFINE m == cl[c].left - 1
    <3>a. Types(c, "ftp") \/ Types(c, "hash") \/ Types(c, "cd") => m \in Nat
      BY <2>1 DEF Types, Client
    <3> HIDE DEF m
    <3>1. CASE Types(c, "ftp") /\ cl' = [cl EXCEPT ![c].ftp = TRUE, ![c].left = m]
      <4> DEFINE r == [cl[c] EXCEPT !.ftp = TRUE, !.left = m]
      <4>1. m \in Nat
        BY <3>1, <3>a
      <4>2. r \in Client
        BY <2>1, <4>1 DEF Client
      <4>3. r.pc = "prompt"
        BY <2>1 DEF CAt, Client
      <4>4. cl' = [cl EXCEPT ![c] = r]
        BY <2>1, <3>1
      <4> HIDE DEF r
      <4> QED
        BY <4>2, <4>3, <4>4
    <3>2. CASE cl' = [cl EXCEPT ![c].ftp = FALSE]
      <4> DEFINE r == [cl[c] EXCEPT !.ftp = FALSE]
      <4>2. r \in Client
        BY <2>1 DEF Client
      <4>3. r.pc = "prompt"
        BY <2>1 DEF CAt, Client
      <4>4. cl' = [cl EXCEPT ![c] = r]
        BY <2>1, <3>2
      <4> HIDE DEF r
      <4> QED
        BY <4>2, <4>3, <4>4
    <3>3. CASE Types(c, "hash") /\ cl' = [cl EXCEPT ![c].hashFlag = ~ @, ![c].left = m]
      <4> DEFINE r == [cl[c] EXCEPT !.hashFlag = ~ cl[c].hashFlag, !.left = m]
      <4>1. m \in Nat
        BY <3>3, <3>a
      <4>2. r \in Client
        BY <2>1, <4>1 DEF Client
      <4>3. r.pc = "prompt"
        BY <2>1 DEF CAt, Client
      <4>4. cl' = [cl EXCEPT ![c] = r]
        BY <2>1, <3>3
      <4> HIDE DEF r
      <4> QED
        BY <4>2, <4>3, <4>4
    <3>4. CASE Types(c, "cd") /\ \E dir \in Dirs :
                 cl' = [cl EXCEPT ![c].cwd = dir, ![c].left = m]
      <4>5. PICK dir \in Dirs : cl' = [cl EXCEPT ![c].cwd = dir, ![c].left = m]
        BY <3>4
      <4> DEFINE r == [cl[c] EXCEPT !.cwd = dir, !.left = m]
      <4>1. m \in Nat
        BY <3>4, <3>a
      <4>2. r \in Client
        BY <2>1, <4>1 DEF Client
      <4>3. r.pc = "prompt"
        BY <2>1 DEF CAt, Client
      <4>4. cl' = [cl EXCEPT ![c] = r]
        BY <2>1, <3>4, <4>5
      <4> HIDE DEF r
      <4> QED
        BY <4>2, <4>3, <4>4
    <3> QED
      BY <3>1, <3>2, <3>3, <3>4 DEF Local, m
  <2> QED
    BY <2>1, <2>2 DEF ClientInv, ClientType, Joined
<1> QED
  BY <1>1, <1>2 DEF CQuiet

(* Every step of a client is steady or makes one connection.                *)
LEMMA ClientKinds ==
    ASSUME TypeOK, Joined, NEW c \in Clients, ClientStep(c)
    PROVE  CQuiet \/ Connects
BY OpenKinds, PassiveKinds, RlistQuiet, GetQuiet, PutQuiet, TalkQuiet,
   LocalQuiet DEF ClientStep

(* A connection that is made goes to the end of one queue.                  *)
LEMMA ConnectsKeeps ==
    ASSUME SInv, Connects, UNCHANGED serverVars
    PROVE  SInv'
<1>1. PICK k \in Conns, q \in Ports :
        /\ chan[k].port = "none"
        /\ chan' = [chan EXCEPT ![k].port = q]
        /\ backlog' = [backlog EXCEPT ![q] = Append(@, k)]
        /\ UNCHANGED listening
  BY DEF Connects
<1> DEFINE b == backlog[q]
<1>2. /\ b \in Seq(Conns) /\ Append(b, k) \in Seq(Conns)
      /\ Len(Append(b, k)) = Len(b) + 1 /\ Len(b) \in Nat
      /\ Append(b, k)[Len(b) + 1] = k
      /\ \A i \in 1..Len(b) : Append(b, k)[i] = b[i]
  BY DEF SInv, SocketsType
<1>3. /\ chan' \in [Conns -> Channel]
      /\ chan'[k].port = q /\ chan'[k].end = chan[k].end
      /\ \A l \in Conns \ {k} : chan'[l] = chan[l]
      /\ q # "none"
  <2> DEFINE v == [chan[k] EXCEPT !.port = q]
  <2>1. v \in Channel /\ v.port = q /\ v.end = chan[k].end
    BY DEF SInv, SocketsType, Channel
  <2>2. chan' = [chan EXCEPT ![k] = v]
    BY <1>1 DEF SInv, SocketsType
  <2> HIDE DEF v
  <2> QED
    BY <2>1, <2>2 DEF SInv, SocketsType, Ports
<1>4. /\ \A o \in Ports : backlog'[o] = IF o = q THEN Append(b, k) ELSE backlog[o]
      /\ proc' = proc /\ fds' = fds
  BY <1>1 DEF SInv, SocketsType, serverVars
<1>5. /\ chan[k].end["s"] = "open"
      /\ \A r \in Procs : k \notin fds[r]
      /\ \A o \in Ports : \A i \in 1..Len(backlog[o]) : backlog[o][i] # k
  BY <1>1 DEF SInv, Held, Ports
<1>6. /\ \A r \in Procs : fds[r] \subseteq Conns
      /\ \A o \in Ports : \A i \in 1..Len(backlog[o]) : backlog[o][i] \in Conns
  BY DEF SInv, ServerType, SocketsType
<1>7. SocketsType' /\ ServerType'
  BY <1>1, <1>2, <1>3, <1>4 DEF SInv, SocketsType, ServerType
<1>8. Held'
  <2>1. \A r \in Procs : \A l \in fds'[r] :
          chan'[l].end["s"] = "open" /\ chan'[l].port # "none"
    BY <1>3, <1>4, <1>5, <1>6 DEF SInv, Held
  <2>2. \A l \in Conns : chan'[l].port # "none" /\ chan'[l].end["s"] = "open" =>
          l \in Waiting(chan[l].port)' \/ \E r \in Procs : l \in fds'[r]
    <3> TAKE l \in Conns
    <3>1. CASE l = k
      <4>1. Len(b) + 1 \in 1..Len(Append(b, k))
        BY <1>2
      <4>2. chan'[k].port = q /\ backlog'[q] = Append(b, k)
        BY <1>3, <1>4
      <4>3. k \in Waiting(chan[k].port)'
        BY <1>2, <4>1, <4>2 DEF Waiting
      <4> QED
        BY <3>1, <4>3
    <3>2. CASE l # k
      <4>0. chan'[l] = chan[l]
        BY <1>3, <3>2
      <4>5. chan[l].port # "none" /\ chan[l].end["s"] = "open" =>
              l \in Waiting(chan[l].port) \/ \E r \in Procs : l \in fds[r]
        BY DEF SInv, Held
      <4>6. CASE chan[l].port # "none" /\ l \in Waiting(chan[l].port)
        <5>1. chan[l].port \in Ports /\ chan'[l] = chan[l]
          BY <4>0, <4>6 DEF SInv, SocketsType, Channel
        <5>2. PICK i \in 1..Len(backlog[chan[l].port]) : backlog[chan[l].port][i] = l
          BY <4>6 DEF Waiting
        <5>3. CASE chan[l].port = q
          <6>1. i \in 1..Len(Append(b, k)) /\ Append(b, k)[i] = l
            BY <1>2, <5>2, <5>3
          <6>2. backlog'[chan'[l].port] = Append(b, k)
            BY <1>4, <5>1, <5>3
          <6> QED
            BY <6>1, <6>2 DEF Waiting
        <5>4. CASE chan[l].port # q
          BY <1>4, <5>1, <5>2, <5>4 DEF Waiting
        <5> QED
          BY <5>3, <5>4
      <4>7. fds' = fds
        BY <1>4
      <4> QED
        BY <4>0, <4>5, <4>6, <4>7
    <3> QED
      BY <3>1, <3>2
  <2>3. \A o \in Ports : \A i \in 1..Len(backlog'[o]) : LET l == backlog'[o][i] IN
          /\ chan'[l].port = o /\ chan'[l].end["s"] = "open"
          /\ \A r \in Procs : l \notin fds'[r]
          /\ \A j \in 1..Len(backlog'[o]) : backlog'[o][j] = l => j = i
    <3> TAKE o \in Ports
    <3>1. \A i \in 1..Len(backlog'[o]) :
            \/ i \in 1..Len(backlog[o]) /\ backlog'[o][i] = backlog[o][i]
            \/ o = q /\ i = Len(b) + 1 /\ backlog'[o][i] = k
      <4>1. CASE o = q
        <5>1. backlog'[o] = Append(b, k) /\ backlog[o] = b
          BY <1>4, <4>1
        <5> HIDE DEF b
        <5> QED
          BY <1>2, <4>1, <5>1
      <4>2. CASE o # q
        BY <1>4, <4>2
      <4> QED
        BY <4>1, <4>2
    <3> TAKE i \in 1..Len(backlog'[o])
    <3>2. CASE i \in 1..Len(backlog[o]) /\ backlog'[o][i] = backlog[o][i]
      <4> DEFINE l == backlog[o][i]
      <4>1. /\ chan[l].port = o /\ chan[l].end["s"] = "open"
            /\ \A r \in Procs : l \notin fds[r]
            /\ \A j \in 1..Len(backlog[o]) : backlog[o][j] = l => j = i
            /\ l # k /\ l \in Conns
        BY <1>5, <1>6, <3>2 DEF SInv, Held
      <4>2. \A j \in 1..Len(backlog'[o]) : backlog'[o][j] = l => j = i
        BY <3>1, <4>1
      <4> QED
        BY <1>3, <1>4, <3>2, <4>1, <4>2
    <3>3. CASE o = q /\ i = Len(b) + 1 /\ backlog'[o][i] = k
      <4>1. \A j \in 1..Len(backlog'[o]) : backlog'[o][j] = k => j = i
        BY <1>5, <3>1, <3>3
      <4> QED
        BY <1>3, <1>4, <1>5, <3>3, <4>1
    <3> QED
      BY <3>1, <3>2, <3>3
  <2>4. \A l \in Conns : chan'[l].port = "none" => chan'[l].end["s"] = "open"
    BY <1>3 DEF SInv, Held
  <2>5. \A r \in Procs : ~ Alive(r)' => fds'[r] = {}
    BY <1>4 DEF SInv, Held, Alive
  <2> QED
    BY <2>1, <2>2, <2>3, <2>4, <2>5 DEF Held
<1>9. Apart'
  <2>1. \A r \in Procs : Serving(r)' <=> Serving(r)
    BY <1>4 DEF Serving, InSession
  <2>2. ControlApart'
    BY <1>4, <2>1 DEF SInv, Apart, ControlApart
  <2>3. \A r \in Procs : Serving(r)' => chan'[proc'[r].clntSock].port = "pi"
    BY <1>1, <1>3, <1>4, <2>1, SockInConns DEF SInv, Apart
  <2>4. \A r \in Procs : proc'[r].clntDtpSock \in Conns =>
          chan'[proc'[r].clntDtpSock].port = "dtp"
    BY <1>1, <1>3, <1>4 DEF SInv, Apart
  <2> QED
    BY <2>2, <2>3, <2>4 DEF Apart
<1> QED
  BY <1>7, <1>8, <1>9 DEF SInv

(* A step of a client, or its end, keeps the invariant.                     *)
LEMMA UseKeeps ==
    ASSUME IInv, NEW c \in Clients, Use(c) \/ Fail(c)
    PROVE  IInv'
<1>1. SInv /\ TypeOK /\ Joined
  BY DEF IInv, SInv, TypeOK
<1>2. UNCHANGED serverVars /\ (CQuiet \/ Connects)
  BY <1>1, ClientKinds, StopQuiet DEF Use, Fail, Crash
<1>3. CASE CQuiet
  <2>1. proc' = proc /\ fds' = fds /\ backlog' = backlog /\ listening' = listening
    BY <1>2, <1>3 DEF CQuiet, serverVars
  <2>2. \A p \in Procs : /\ Alive(p)' <=> Alive(p)
                         /\ Serving(p)' => Serving(p)
    BY <2>1 DEF Alive, Serving, InSession
  <2>3. Held'
    BY <1>1, <1>3, <2>1, <2>2, SteadyHeld DEF CQuiet
  <2>4. Apart'
    BY <1>1, <1>3, <2>1, <2>2, SteadyApart DEF CQuiet
  <2>5. SocketsType' /\ ServerType'
    BY <1>1, <1>3, <2>1 DEF CQuiet, Steady, SInv, SocketsType, ServerType
  <2> QED
    BY <1>3, <2>3, <2>4, <2>5 DEF CQuiet, ClientInv, IInv, TypeOK
<1>4. CASE Connects
  <2>1. SInv'
    BY <1>1, <1>2, <1>4, ConnectsKeeps
  <2> QED
    BY <1>4, <2>1 DEF Connects, ClientInv, SInv, IInv, TypeOK
<1> QED
  BY <1>2, <1>3, <1>4

(* The invariant holds when the server has started,                         *)
LEMMA InitInv == Init => IInv
<1> SUFFICES ASSUME Init PROVE IInv
  OBVIOUS
<1>1. /\ \A k \in Conns : /\ chan[k].port = "none"
                          /\ chan[k].end = [s \in Sides |-> "open"]
      /\ backlog = [q \in Ports |-> <<>>] /\ listening = TRUE
      /\ "s" \in Sides /\ "open" \in Ends
      /\ <<>> \in Seq(Msg) /\ <<>> \in Seq(Conns)
  BY DEF Init, SocketsInit, Sides, Ends
<1>2. SocketsType
  <2>1. [s \in Sides |-> <<>>] \in [Sides -> Seq(Msg)]
        /\ [s \in Sides |-> "open"] \in [Sides -> Ends]
    BY <1>1
  <2>2. [port |-> "none", in |-> [s \in Sides |-> <<>>],
         end |-> [s \in Sides |-> "open"]] \in Channel
    BY <2>1 DEF Channel
  <2>3. chan \in [Conns -> Channel]
    BY <2>2 DEF Init, SocketsInit
  <2> QED
    BY <1>1, <2>3 DEF SocketsType
<1>3. /\ \A p \in Procs : /\ proc[p].pc \in {"none", "accept"}
                          /\ proc[p].clntSock = NoConn
                          /\ proc[p].clntDtpSock = NoConn
      /\ fds = [p \in Procs |-> {}]
  BY DEF Init, ServerInit
<1>4. ServerType
  <2>1. Home \in Dirs
    BY ProtocolAssumption
  <2>2. \A pc \in {"none", "accept"} :
          [pc |-> pc, clntSock |-> NoConn, clntDtpSock |-> NoConn, cwd |-> Home,
           arg |-> 0, fileSize |-> 0, totalBytes |-> 0] \in Process
    BY <2>1 DEF Process, ServerPc
  <2>3. proc \in [Procs -> Process]
    BY <2>2 DEF Init, ServerInit
  <2> QED
    BY <1>3, <2>3 DEF ServerType
<1>5. ClientType
  <2>1. Home \in Dirs /\ MaxCmds \in Nat /\ "prompt" \in ClientPc
    BY ProtocolAssumption, ClientAssumption DEF ClientPc
  <2>2. [pc |-> "prompt", sock |-> NoConn, dtpSock |-> NoConn, ftp |-> FALSE,
         hashFlag |-> TRUE, cwd |-> Home, then |-> "prompt", arg |-> 0,
         fileSize |-> 0, totalBytes |-> 0, left |-> MaxCmds] \in Client
    BY <2>1 DEF Client
  <2> QED
    BY <2>2 DEF Init, ClientInit, ClientType
<1>6. Joined
  BY DEF Init, ClientInit, Joined
<1>7. Held
  BY <1>1, <1>3 DEF Held
<1>8. Apart
  <2>1. \A p \in Procs : ~ Serving(p)
    BY <1>3 DEF Serving, InSession, Commands
  <2>2. NoConn \notin Conns
    BY SocketsAssumption
  <2> QED
    BY <1>3, <2>1, <2>2 DEF Apart, ControlApart
<1> QED
  BY <1>2, <1>4, <1>5, <1>6, <1>7, <1>8 DEF IInv, TypeOK

(* through steps of anything else,                                          *)
LEMMA StutterInv == IInv /\ UNCHANGED vars => IInv'
<1> SUFFICES ASSUME IInv, UNCHANGED vars PROVE IInv'
  OBVIOUS
<1>1. /\ chan' = chan /\ backlog' = backlog /\ listening' = listening
      /\ proc' = proc /\ fds' = fds /\ cl' = cl
  BY DEF vars, sockets, serverVars
<1>2. TypeOK' /\ Joined'
  BY <1>1 DEF IInv, TypeOK, SocketsType, ServerType, ClientType, Joined
<1>3. \A p \in Procs : /\ Alive(p)' <=> Alive(p)
                       /\ Serving(p)' => Serving(p)
  BY <1>1 DEF Alive, Serving, InSession
<1>4. SInv /\ Steady
  BY <1>1, SameSteady DEF IInv, SInv, TypeOK, SocketsType
<1>5. Held' /\ Apart'
  BY <1>1, <1>3, <1>4, SteadyHeld, SteadyApart
<1> QED
  BY <1>2, <1>5 DEF IInv

(* and through every step of the system.                                    *)
LEMMA StepInv == IInv /\ [Next]_vars => IInv'
BY ServeKeeps, UseKeeps, StutterInv DEF Next

(* So it always holds.                                                      *)
LEMMA Invariance == Spec => []IInv
BY InitInv, StepInv, PTL DEF Spec

-----------------------------------------------------------------------------
(* The variables of both programs keep their types: no receive, close or    *)
(* fork leaves a process with a socket, a size or a command it cannot have. *)
THEOREM TypeCorrect == Spec => []TypeOK
<1>1. IInv => TypeOK
  BY DEF IInv
<1> QED
  BY <1>1, Invariance, PTL

(* The server's side of an accepted connection is open exactly as long as   *)
(* some process holds a descriptor of it (OpenWhileHeld), however many      *)
(* processes fork, close, die and come back to accept.                      *)
THEOREM HeldIsOpen == Spec => []OpenWhileHeld
<1>1. IInv => OpenWhileHeld
  BY DEF IInv, Held, OpenWhileHeld
<1> QED
  BY <1>1, Invariance, PTL

(* Each client is served by one process, on a connection it holds           *)
(* (ControlApart).                                                          *)
THEOREM ServedApart == Spec => []ControlApart
<1>1. IInv => ControlApart
  BY DEF IInv, Apart
<1> QED
  BY <1>1, Invariance, PTL

-----------------------------------------------------------------------------
(* The refinement: EchoFtp.tla implements Descriptors.tla, for every step   *)
(* of the programs is a step of the abstract process tree, or none.         *)

(* The sockets are listened on only as long as a process is there.          *)
Listened == listening => \E p \in Procs : Alive(p)

LEMMA ListenedInit == Init => Listened
<1> SUFFICES ASSUME Init PROVE Listened
  OBVIOUS
<1>1. Root \in Procs
  BY ServerAssumption
<1>2. proc[Root].pc = "accept"
  BY <1>1 DEF Init, ServerInit
<1> QED
  BY <1>1, <1>2 DEF Listened, Alive

(* A step of a process that lives on leaves it to listen; the last death    *)
(* closes the sockets.                                                      *)
LEMMA ListenedServe ==
    ASSUME IInv, Listened, NEW p \in Procs, Serve(p)
    PROVE  Listened'
<1>1. SInv
  BY DEF IInv, SInv, TypeOK
<1>2. CASE Die(p)
  <2>1. CASE \E q \in Procs \ {p} : Alive(q)
    <3>1. PICK q \in Procs \ {p} : Alive(q)
      BY <2>1
    <3>2. Alive(q)'
      BY <1>1, <1>2, <3>1 DEF Die, Alive, SInv, ServerType
    <3> QED
      BY <3>2 DEF Listened
  <2>2. CASE ~ \E q \in Procs \ {p} : Alive(q)
    BY <1>2, <2>2 DEF Die, Listened
  <2> QED
    BY <2>1, <2>2
<1>3. CASE Quiet(p) \/ Closes(p)
  BY <1>3 DEF Quiet, Closes, Moves, Listened, Alive
<1>4. CASE Accepts(p)
  <2>1. proc'[p].pc \in {"hello", "dtphello"}
    BY <1>1, <1>4 DEF Accepts, Accept, SInv, ServerType, Process
  <2> QED
    BY <2>1 DEF Listened, Alive
<1>5. CASE Forks(p)
  <2>1. Alive(p)'
    BY <1>1, <1>5 DEF Forks, At, Alive, SInv, ServerType, Process
  <2> QED
    BY <2>1 DEF Listened
<1> QED
  BY <1>2, <1>3, <1>4, <1>5, ServerKinds DEF Serve

(* No step of a client reaches the processes.                               *)
LEMMA ListenedStep == IInv /\ Listened /\ [Next]_vars => Listened'
<1> SUFFICES ASSUME IInv, Listened, [Next]_vars PROVE Listened'
  OBVIOUS
<1>1. ASSUME NEW c \in Clients, Use(c) \/ Fail(c) PROVE Listened'
  <2>1. proc' = proc
    BY <1>1 DEF Use, Fail, serverVars
  <2>2. listening' = listening
    BY <1>1, ClientKinds, StopQuiet
       DEF Use, Fail, Crash, IInv, CQuiet, Connects
  <2> QED
    BY <2>1, <2>2 DEF Listened, Alive
<1>2. CASE UNCHANGED vars
  BY <1>2 DEF vars, sockets, serverVars, Listened, Alive
<1> QED
  BY <1>1, <1>2, ListenedServe DEF Next

-----------------------------------------------------------------------------
(* What the abstract tree sees of a step that opens and closes nothing.     *)
LEMMA SteadyTree ==
    ASSUME SInv, Steady
    PROVE  Made' = Made /\ Opened' = Opened
<1>1. \A k \in Conns : /\ chan'[k].port = chan[k].port
                       /\ chan'[k].end["s"] = "open" <=> chan[k].end["s"] = "open"
  BY DEF Steady, SameSide
<1>2. Made' = Made
  BY <1>1 DEF Made
<1> QED
  BY <1>1, <1>2 DEF Opened, Made

(* A process that is alive is so in the abstract tree.                      *)
LEMMA LivesAre ==
    ASSUME NEW p \in Procs
    PROVE  /\ Lives[p] = "alive" <=> Alive(p)
           /\ Lives[p] = "none" <=> proc[p].pc = "none"
           /\ Lives[p] = "dead" <=> proc[p].pc = "dead"
BY DEF Lives, Alive

(* Moving on within a session is no step of the tree,                       *)
LEMMA QuietTree ==
    ASSUME SInv, NEW p \in Procs, Quiet(p)
    PROVE  UNCHANGED Tree!treeVars
<1>1. Alive(p) /\ Alive(p)'
  BY DEF Quiet, Moves, Alive, Serving, InSession, Commands
<1>2. Lives' = Lives
  BY <1>1 DEF Lives, Quiet, Moves, Alive
<1> QED
  BY <1>2, SteadyTree DEF Quiet, Tree!treeVars

(* an accept is an accept,                                                  *)
LEMMA AcceptTree ==
    ASSUME SInv, NEW p \in Procs, Accepts(p)
    PROVE  \E q \in Ports : Tree!Accept(p, q)
<1>1. PICK q \in Ports, pc \in {"hello", "dtphello"} :
        Accept(p, q, pc) /\ (At(p, "accept") \/ At(p, "dtpaccept"))
  BY DEF Accepts, Ports
<1>2. Alive(p) /\ proc'[p].pc = pc /\ \A r \in Procs \ {p} : proc'[r] = proc[r]
  BY <1>1 DEF Accept, At, Alive, SInv, ServerType, Process
<1>3. Lives' = Lives
  BY <1>2 DEF Lives, Alive
<1>4. Made' = Made /\ Opened' = Opened
  BY <1>1 DEF Accept, Made, Opened
<1>5. Lives[p] = "alive"
  BY <1>2, LivesAre
<1>6. /\ backlog[q] # <<>>
      /\ fds' = [fds EXCEPT ![p] = @ \cup {Head(backlog[q])}]
      /\ backlog' = [backlog EXCEPT ![q] = Tail(@)]
  BY <1>1 DEF Accept
<1> QED
  BY <1>3, <1>4, <1>5, <1>6 DEF Tree!Accept

(* a fork a fork of the connection that is served,                          *)
LEMMA ForkTree ==
    ASSUME SInv, NEW p \in Procs, Forks(p)
    PROVE  \E r \in Procs : Tree!Fork(p, r)
<1> DEFINE k == proc[p].clntSock
<1>1. PICK r \in Procs :
        /\ At(p, "fork") /\ At(r, "none")
        /\ proc' = [proc EXCEPT ![r] = [proc[p] EXCEPT !.pc = "session"],
                                ![p].pc = "accept"]
        /\ fds' = [fds EXCEPT ![r] = fds[p], ![p] = @ \ {k}]
        /\ UNCHANGED sockets
  BY DEF Forks
<1>2. k \in fds[p]
  BY <1>1 DEF SInv, Apart, ControlApart, Serving, At
<1>3. /\ p # r /\ proc'[r].pc = "session" /\ proc'[p].pc = "accept"
      /\ proc[p].pc = "fork" /\ proc[r].pc = "none"
      /\ \A s \in Procs \ {p, r} : proc'[s] = proc[s]
  BY <1>1 DEF At, SInv, ServerType, Process
<1>4. Lives' = [Lives EXCEPT ![r] = "alive"]
  BY <1>3 DEF Lives, Alive
<1>5. Made' = Made /\ Opened' = Opened /\ backlog' = backlog
  BY <1>1 DEF sockets, Made, Opened
<1>6. Lives[p] = "alive" /\ Lives[r] = "none"
  BY <1>3, LivesAre DEF Alive
<1>7. \E l \in fds[p] : fds' = [fds EXCEPT ![r] = fds[p], ![p] = @ \ {l}]
  BY <1>1, <1>2
<1> QED
  BY <1>4, <1>5, <1>6, <1>7 DEF Tree!Fork

(* a close a close, or nothing where the descriptor is closed already,      *)
LEMMA CloseTree ==
    ASSUME SInv, NEW p \in Procs, Closes(p)
    PROVE  (\E k \in Conns : Tree!Close(p, k)) \/ UNCHANGED Tree!treeVars
<1> DEFINE d == proc[p].clntDtpSock
<1>1. PICK h \in [Conns -> Channel] :
        (\A k \in Conns : SameSide(h[k], chan[k])) /\ CloseIn(h, p, d)
  BY DEF Closes
<1>2. PICK how \in Hows :
        /\ chan' = IF d \in OnlyHeldBy(p)
                   THEN [h EXCEPT ![d] = Closed(@, "s", how)] ELSE h
        /\ fds' = [fds EXCEPT ![p] = @ \ {d}]
  BY <1>1 DEF CloseIn
<1>3. Moves(p) /\ backlog' = backlog /\ fds \in [Procs -> SUBSET Conns]
  BY DEF Closes, SInv, ServerType
<1>4. Alive(p) /\ Alive(p)' /\ Lives[p] = "alive"
  BY <1>3, LivesAre DEF Moves, Alive, Serving, InSession, Commands
<1>5. Lives' = Lives
  BY <1>3, <1>4 DEF Lives, Moves, Alive
<1>6. OnlyHeldBy(p) = Tree!Alone(p) /\ OnlyHeldBy(p) \subseteq fds[p]
  BY DEF OnlyHeldBy, Tree!Alone
<1>7. /\ \A k \in Conns : chan'[k].port = chan[k].port
      /\ \A k \in Conns : chan'[k].end["s"] = "open" <=>
           chan[k].end["s"] = "open" /\ k \notin OnlyHeldBy(p) \cap {d}
  <2>1. d \in Conns => /\ Closed(h[d], "s", how).port = h[d].port
                       /\ Closed(h[d], "s", how).end["s"] # "open"
    BY <1>2, ClosedType DEF Sides
  <2>2. CASE d \in OnlyHeldBy(p)
    <3>1. d \in Conns
      BY <1>3, <1>6, <2>2
    <3>2. chan' = [h EXCEPT ![d] = Closed(h[d], "s", how)]
      BY <1>2, <2>2
    <3>3. chan'[d] = Closed(h[d], "s", how) /\ \A k \in Conns \ {d} : chan'[k] = h[k]
      BY <3>1, <3>2
    <3> QED
      BY <1>1, <2>1, <2>2, <3>1, <3>3 DEF SameSide
  <2>3. CASE d \notin OnlyHeldBy(p)
    BY <1>1, <1>2, <2>3 DEF SameSide
  <2> QED
    BY <2>2, <2>3
<1>8. Made' = Made
  BY <1>7 DEF Made
<1>9. Opened' = Opened \ (OnlyHeldBy(p) \cap {d})
  BY <1>7, <1>8 DEF Opened, Made
<1>10. CASE d \in fds[p]
  <2>1. d \in Conns
    BY <1>3, <1>10
  <2>2. Tree!Close(p, d)
    BY <1>2, <1>3, <1>4, <1>5, <1>6, <1>8, <1>9, <1>10 DEF Tree!Close
  <2> QED
    BY <2>1, <2>2
<1>11. CASE d \notin fds[p]
  <2>1. fds' = fds /\ Opened' = Opened
    BY <1>2, <1>3, <1>6, <1>9, <1>11
  <2> QED
    BY <1>3, <1>5, <1>8, <2>1 DEF Tree!treeVars
<1> QED
  BY <1>10, <1>11

(* a death a death,                                                         *)
LEMMA DieTree ==
    ASSUME SInv, NEW p \in Procs, Serving(p), Die(p)
    PROVE  Tree!Die(p)
<1> DEFINE S == OnlyHeldBy(p)
           W == Waiting("pi") \cup Waiting("dtp")
           survivors == \E q \in Procs \ {p} : Alive(q)
<1>1. PICK how \in Hows :
        LET closed == CloseAll(S, "s", how) IN
        IF survivors
        THEN chan' = closed /\ UNCHANGED <<backlog, listening>>
        ELSE /\ chan' = [k \in Conns |-> IF k \in W THEN Refused(closed[k])
                                                    ELSE closed[k]]
             /\ backlog' = [q \in Ports |-> <<>>]
             /\ listening' = FALSE
  BY DEF Die
<1> DEFINE closed == CloseAll(S, "s", how)
<1>2. /\ proc' = [proc EXCEPT ![p].pc = "dead"]
      /\ fds' = [fds EXCEPT ![p] = {}]
  BY DEF Die
<1>3. \A k \in Conns : /\ closed[k] \in Channel
                       /\ closed[k].port = chan[k].port
                       /\ closed[k].end["s"] = "open" <=>
                            chan[k].end["s"] = "open" /\ k \notin S
  <2>1. \A k \in Conns : chan[k] \in Channel
    BY DEF SInv, SocketsType
  <2>2. \A k \in Conns : /\ Closed(chan[k], "s", how) \in Channel
                         /\ Closed(chan[k], "s", how).port = chan[k].port
                         /\ Closed(chan[k], "s", how).end["s"] # "open"
    BY <2>1, ClosedType DEF Sides
  <2> QED
    BY <2>1, <2>2 DEF CloseAll
<1> HIDE DEF closed
<1>4. \A k \in Conns : /\ Refused(closed[k]).port = closed[k].port
                       /\ Refused(closed[k]).end["s"] # "open"
  BY <1>3, RefusedType
<1>5. Alive(p) /\ Lives[p] = "alive"
  BY LivesAre DEF Alive, Serving, InSession, Commands
<1>6. Lives' = [Lives EXCEPT ![p] = "dead"]
  <2>1. proc'[p].pc = "dead" /\ \A q \in Procs \ {p} : proc'[q] = proc[q]
    BY <1>2 DEF SInv, ServerType, Process
  <2> QED
    BY <2>1 DEF Lives, Alive
<1>7. S = Tree!Alone(p) /\ W = Tree!Queued
  <2>1. S = Tree!Alone(p)
    BY DEF OnlyHeldBy, Tree!Alone
  <2>2. W = Tree!Queued
    BY DEF Waiting, Tree!Queued, Ports
  <2> QED
    BY <2>1, <2>2
<1>8. CASE survivors
  <2>1. chan' = closed /\ backlog' = backlog
    BY <1>1, <1>8 DEF closed
  <2>2. Made' = Made
    BY <1>3, <2>1 DEF Made
  <2>3. Opened' = Opened \ S
    BY <1>3, <2>1, <2>2 DEF Opened, Made
  <2>4. \E q \in Procs \ {p} : Lives[q] = "alive"
    BY <1>8, LivesAre
  <2> QED
    BY <1>2, <1>5, <1>6, <1>7, <2>1, <2>2, <2>3, <2>4 DEF Tree!Die
<1>9. CASE ~ survivors
  <2>1. /\ chan' = [k \in Conns |-> IF k \in W THEN Refused(closed[k])
                                                ELSE closed[k]]
        /\ backlog' = [q \in Ports |-> <<>>]
    BY <1>1, <1>9 DEF closed
  <2>2. \A k \in Conns :
          /\ chan'[k].port = chan[k].port
          /\ chan'[k].end["s"] = "open" <=>
               chan[k].end["s"] = "open" /\ k \notin S \cup W
    BY <1>3, <1>4, <2>1
  <2>3. Made' = Made
    BY <2>2 DEF Made
  <2>4. Opened' = Opened \ (S \cup W)
    BY <2>2, <2>3 DEF Opened, Made
  <2>5. \A q \in Procs \ {p} : Lives[q] # "alive"
    BY <1>9, LivesAre
  <2> QED
    BY <1>2, <1>5, <1>6, <1>7, <2>1, <2>3, <2>4, <2>5 DEF Tree!Die
<1> QED
  BY <1>8, <1>9

(* and a connect a connect to somebody who listens.                         *)
LEMMA ConnectTree ==
    ASSUME SInv, Listened, Connects, UNCHANGED serverVars
    PROVE  \E k \in Conns, q \in Ports : Tree!Connect(k, q)
<1>1. PICK k \in Conns, q \in Ports :
        /\ listening /\ chan[k].port = "none"
        /\ chan' = [chan EXCEPT ![k].port = q]
        /\ backlog' = [backlog EXCEPT ![q] = Append(@, k)]
  BY DEF Connects
<1>2. proc' = proc /\ fds' = fds
  BY DEF serverVars
<1>3. /\ chan[k].end["s"] = "open" /\ q # "none"
      /\ chan'[k].port = q /\ chan'[k].end = chan[k].end
      /\ \A l \in Conns \ {k} : chan'[l] = chan[l]
  <2>1. chan[k].end["s"] = "open" /\ q # "none"
    BY <1>1 DEF SInv, Held, Ports
  <2> DEFINE v == [chan[k] EXCEPT !.port = q]
  <2>2. v.port = q /\ v.end = chan[k].end
    BY DEF SInv, SocketsType, Channel
  <2>3. chan' = [chan EXCEPT ![k] = v]
    BY <1>1 DEF SInv, SocketsType
  <2> HIDE DEF v
  <2> QED
    BY <2>1, <2>2, <2>3 DEF SInv, SocketsType
<1>4. k \notin Made /\ Made' = Made \cup {k}
  BY <1>1, <1>3 DEF Made
<1>5. Opened' = Opened \cup {k}
  BY <1>3, <1>4 DEF Opened, Made
<1>6. \E p \in Procs : Lives[p] = "alive"
  BY <1>1, LivesAre DEF Listened
<1>7. Lives' = Lives
  BY <1>2 DEF Lives, Alive
<1>8. Tree!Connect(k, q)
  BY <1>1, <1>2, <1>4, <1>5, <1>6, <1>7 DEF Tree!Connect
<1> QED
  BY <1>8

-----------------------------------------------------------------------------
(* A step of the server,                                                    *)
LEMMA ServeTree ==
    ASSUME IInv, NEW p \in Procs, Serve(p)
    PROVE  [Tree!Next]_(Tree!treeVars)
<1>1. SInv
  BY DEF IInv, SInv, TypeOK
<1>2. CASE Quiet(p)
  BY <1>1, <1>2, QuietTree
<1>3. CASE Accepts(p)
  BY <1>1, <1>3, AcceptTree DEF Tree!Next
<1>4. CASE Forks(p)
  BY <1>1, <1>4, ForkTree DEF Tree!Next
<1>5. CASE Closes(p)
  BY <1>1, <1>5, CloseTree DEF Tree!Next
<1>6. CASE Serving(p) /\ Die(p)
  BY <1>1, <1>6, DieTree DEF Tree!Next
<1> QED
  BY <1>2, <1>3, <1>4, <1>5, <1>6, ServerKinds DEF Serve

(* and one of a client.                                                     *)
LEMMA UseTree ==
    ASSUME IInv, Listened, NEW c \in Clients, Use(c) \/ Fail(c)
    PROVE  [Tree!Next]_(Tree!treeVars)
<1>1. SInv /\ TypeOK /\ Joined
  BY DEF IInv, SInv, TypeOK
<1>2. UNCHANGED serverVars /\ (CQuiet \/ Connects)
  BY <1>1, ClientKinds, StopQuiet DEF Use, Fail, Crash
<1>3. CASE CQuiet
  <2>1. proc' = proc /\ fds' = fds /\ backlog' = backlog
    BY <1>2, <1>3 DEF CQuiet, serverVars
  <2>2. Made' = Made /\ Opened' = Opened
    BY <1>1, <1>3, SteadyTree DEF CQuiet
  <2>3. Lives' = Lives
    BY <2>1 DEF Lives, Alive
  <2> QED
    BY <2>1, <2>2, <2>3 DEF Tree!treeVars
<1>4. CASE Connects
  BY <1>1, <1>2, <1>4, ConnectTree DEF Tree!Next
<1> QED
  BY <1>2, <1>3, <1>4

(* At the start both trees are one process that holds nothing.              *)
LEMMA InitTree == Init => Tree!Init
<1> SUFFICES ASSUME Init PROVE Tree!Init
  OBVIOUS
<1>1. \A k \in Conns : chan[k].port = "none"
  BY DEF Init, SocketsInit
<1>2. Made = {} /\ Opened = {}
  BY <1>1 DEF Made, Opened
<1>3. \A p \in Procs : proc[p].pc = IF p = Root THEN "accept" ELSE "none"
  BY DEF Init, ServerInit
<1>4. Lives = [p \in Procs |-> IF p = Root THEN "alive" ELSE "none"]
  BY <1>3 DEF Lives, Alive
<1> QED
  BY <1>2, <1>4 DEF Init, SocketsInit, ServerInit, Tree!Init

(* The programs implement the abstract tree (TreeSpec): a connection comes  *)
(* to a process by accept and fork only, in the order of its queue, and its *)
(* server side ends with its last holder's close or death, for any number   *)
(* of processes, clients and connections and whatever fails.                *)
THEOREM ImplementsTree == Spec => TreeSpec
<1>1. IInv /\ Listened /\ [Next]_vars => [Tree!Next]_(Tree!treeVars)
  <2> SUFFICES ASSUME IInv, Listened, [Next]_vars
               PROVE  [Tree!Next]_(Tree!treeVars)
    OBVIOUS
  <2>1. CASE UNCHANGED vars
    BY <2>1 DEF vars, sockets, serverVars, Tree!treeVars, Lives, Alive, Made, Opened
  <2> QED
    BY <2>1, ServeTree, UseTree DEF Next
<1>2. Spec => [](IInv /\ Listened)
  BY InitInv, StepInv, ListenedInit, ListenedStep, PTL DEF Spec
<1> QED
  BY <1>1, <1>2, InitTree, PTL DEF Spec, TreeSpec, Tree!Spec
=============================================================================
