------------------------------- MODULE Sockets -------------------------------
(* The stream sockets the programs of assignment_final run on: what connect, *)
(* send, recv, read, write and close do to a connection.  The kernel is      *)
(* outside the repository; it is modelled from the calls the programs make.  *)
(*                                                                           *)
(* A stream is a sequence of units.  A control message is far shorter than   *)
(* any receive buffer and never split; recv returns what has arrived, that   *)
(* is SOME nonempty prefix of the stream, so that messages sent one after    *)
(* the other may reach the receiver glued together.                          *)
EXTENDS Protocol, Streams

CONSTANTS Clients,   \* the client processes
          MaxConn,   \* bound: the connections one client process ever makes
          NoConn,    \* a socket variable that holds no connection (0 in C)
          Cap        \* data units a connection buffers before write blocks

Conns == Clients \X (1..MaxConn)

ASSUME SocketsAssumption ==
    /\ MaxConn \in Nat
    /\ Cap \in Nat \ {0}
    /\ NoConn \notin Conns

Ports == {"pi", "dtp"}    \* the two listening sockets: argv[1] and DTP_PORT

Channel == [port : Ports \cup {"none"},
            in   : [Sides -> Seq(Msg)],
            end  : [Sides -> Ends]]

VARIABLES chan,      \* the connections
          backlog,   \* per port, the connections no accept has returned yet
          listening  \* some process has the listening sockets

sockets == <<chan, backlog, listening>>

SocketsType ==
    /\ chan \in [Conns -> Channel]
    /\ backlog \in [Ports -> Seq(Conns)]
    /\ listening \in BOOLEAN

SocketsInit ==
    /\ chan = [k \in Conns |-> [port |-> "none",
                                in   |-> [s \in Sides |-> <<>>],
                                end  |-> [s \in Sides |-> "open"]]]
    /\ backlog = [q \in Ports |-> <<>>]
    /\ listening = TRUE

-----------------------------------------------------------------------------
Waiting(q) == {backlog[q][i] : i \in 1..Len(backlog[q])}

(* A write of file data does not block.                                     *)
Room(ch, s) == ch.end[Peer(s)] = "open" => Len(ch.in[Peer(s)]) < Cap

(* The counts uploadFile may return, of a file of len units, when n are     *)
(* written.  A write to a connection that was reset returns -1, once, and   *)
(* the count takes it; the write after that is the end of the process.  The *)
(* last write has less than a unit, perhaps nothing.                        *)
Uploaded(ch, s, n, len) ==
    {m \in {n, Wrapped} :
        \/ n = len /\ m = n
        \/ /\ ch.end[Peer(s)] = "rst" /\ n \in {len - 1, len}
           /\ m = IF n = 0 THEN Wrapped ELSE n}

(* The calls.  sendProtocol and recvProtocol of EchoFtpClient.h end the     *)
(* process on an error: the callers add that case.                          *)
SendOn(k, s, ms) == chan' = [chan EXCEPT ![k] = Sent(@, s, ms)]

RecvOn(k, s, j) ==
    /\ j \in 1..Len(chan[k].in[s])
    /\ Fits(chan[k].in[s], j)
    /\ chan' = [chan EXCEPT ![k] = Taken(@, s, j)]

CloseAll(S, s, how) ==
    [k \in Conns |-> IF k \in S THEN Closed(chan[k], s, how) ELSE chan[k]]
=============================================================================
