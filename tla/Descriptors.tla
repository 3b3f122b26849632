----------------------------- MODULE Descriptors -----------------------------
(* What the process tree of EchoFtpServer.c promises about connections,      *)
(* told without commands, messages or programs: a connection is made once,   *)
(* waits in the queue of its port until some process accepts it, is handed   *)
(* on by fork, and its server side stays open until the last process that    *)
(* holds a descriptor of it closes it or dies.  EchoFtp.tla implements it.   *)
EXTENDS Naturals, Sequences

CONSTANTS Procs, Root,   \* the processes, and the one the shell starts
          Conns, Ports   \* the connections, and the listening sockets

VARIABLES life,          \* none, alive or dead: how each process stands
          held,          \* the connections each process has a descriptor of
          queue,         \* per port, the connections no accept has returned
          made,          \* the connections some client has made
          open           \* those of them whose server side is open

treeVars == <<life, held, queue, made, open>>

Init ==
    /\ life = [p \in Procs |-> IF p = Root THEN "alive" ELSE "none"]
    /\ held = [p \in Procs |-> {}]
    /\ queue = [q \in Ports |-> <<>>]
    /\ made = {} /\ open = {}

Queued == UNION {{queue[q][i] : i \in 1..Len(queue[q])} : q \in Ports}

(* Those only p holds: its close, or its death, is their end.               *)
Alone(p) == {k \in held[p] : \A q \in Procs \ {p} : k \notin held[q]}

-----------------------------------------------------------------------------
(* A client connects, as long as anybody is left to listen.                 *)
Connect(k, q) ==
    /\ k \notin made
    /\ \E p \in Procs : life[p] = "alive"
    /\ made' = made \cup {k}
    /\ open' = open \cup {k}
    /\ queue' = [queue EXCEPT ![q] = Append(@, k)]
    /\ UNCHANGED <<life, held>>

(* A process takes the oldest connection of a queue.                        *)
Accept(p, q) ==
    /\ life[p] = "alive" /\ queue[q] # <<>>
    /\ held' = [held EXCEPT ![p] = @ \cup {Head(queue[q])}]
    /\ queue' = [queue EXCEPT ![q] = Tail(@)]
    /\ UNCHANGED <<life, made, open>>

(* A process starts another, which gets all it holds, and closes the one    *)
(* connection it has forked for.  Nothing ends by it.                       *)
Fork(p, r) ==
    /\ life[p] = "alive" /\ life[r] = "none"
    /\ life' = [life EXCEPT ![r] = "alive"]
    /\ \E k \in held[p] :
         held' = [held EXCEPT ![r] = held[p], ![p] = @ \ {k}]
    /\ UNCHANGED <<queue, made, open>>

(* A process closes a connection it holds.                                  *)
Close(p, k) ==
    /\ life[p] = "alive" /\ k \in held[p]
    /\ held' = [held EXCEPT ![p] = @ \ {k}]
    /\ open' = open \ (Alone(p) \cap {k})
    /\ UNCHANGED <<life, queue, made>>

(* A process dies: what only it held ends; when it was the last one, so do  *)
(* the listening sockets, and all that waited at them.                      *)
Die(p) ==
    /\ life[p] = "alive"
    /\ life' = [life EXCEPT ![p] = "dead"]
    /\ held' = [held EXCEPT ![p] = {}]
    /\ \/ /\ \E q \in Procs \ {p} : life[q] = "alive"
          /\ open' = open \ Alone(p)
          /\ UNCHANGED queue
       \/ /\ \A q \in Procs \ {p} : life[q] # "alive"
          /\ open' = open \ (Alone(p) \cup Queued)
          /\ queue' = [q \in Ports |-> <<>>]
    /\ UNCHANGED made

Next ==
    \/ \E k \in Conns, q \in Ports : Connect(k, q)
    \/ \E p \in Procs :
         \/ \E q \in Ports : Accept(p, q)
         \/ \E r \in Procs : Fork(p, r)
         \/ \E k \in Conns : Close(p, k)
         \/ Die(p)

Spec == Init /\ [][Next]_treeVars
=============================================================================
