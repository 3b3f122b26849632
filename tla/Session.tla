------------------------------- MODULE Session -------------------------------
(* What assignment_final promises a user about commands, told without        *)
(* sockets: a client asks for one command at a time, its server carries out  *)
(* that command and no other, once, and only then does the client go on.     *)
(* Either side may leave at any moment.  EchoFtp.tla implements it.          *)
CONSTANTS Clients, Commands

VARIABLES want,    \* the command a client waits for, or "none"
          doing    \* the command its server carries out, or "none"; "asked"
                   \* before it has begun, "out" when nobody serves the client

sessionVars == <<want, doing>>

Init ==
    /\ want = [c \in Clients |-> "none"]
    /\ doing = [c \in Clients |-> "out"]

(* A process of the server takes the client on.                             *)
Open(c) ==
    /\ doing[c] = "out"
    /\ doing' = [doing EXCEPT ![c] = "none"]
    /\ UNCHANGED want

Ask(c, m) ==
    /\ want[c] = "none" /\ doing[c] = "none"
    /\ want' = [want EXCEPT ![c] = m]
    /\ doing' = [doing EXCEPT ![c] = "asked"]

Begin(c) ==
    /\ doing[c] = "asked"
    /\ doing' = [doing EXCEPT ![c] = want[c]]
    /\ UNCHANGED want

Finish(c) ==
    /\ doing[c] \in Commands
    /\ doing' = [doing EXCEPT ![c] = "none"]
    /\ UNCHANGED want

(* The handler of the client is through, not before the server's.           *)
Return(c) ==
    /\ want[c] # "none" /\ doing[c] = "none"
    /\ want' = [want EXCEPT ![c] = "none"]
    /\ UNCHANGED doing

(* The client quits or ends, or its server does.                            *)
Leave(c) ==
    /\ want' = [want EXCEPT ![c] = "none"]
    /\ doing' = [doing EXCEPT ![c] = "out"]

Next == \E c \in Clients :
    \/ Open(c) \/ Begin(c) \/ Finish(c) \/ Return(c) \/ Leave(c)
    \/ \E m \in Commands : Ask(c, m)

Spec == Init /\ [][Next]_sessionVars
=============================================================================
